-------------------------- MODULE EventStreamProofs --------------------------
(***************************************************************************)
(* The theorems about EventStream and the collector.  What concerns the    *)
(* collector alone is proved of CollectorNext, whoever calls it; every     *)
(* step of the stream is one of CollectorNext or leaves the collector.     *)
(***************************************************************************)
EXTENDS EventStreamInv, TLAPS

---------------------------------------------------------------------------
(* The collector.                                                          *)

(* The types of a call at its start and at its end, and in time.           *)
LEMMA CallTyped ==
  ASSUME NEW at \in {"idle", "lock", "dial", "sent", "ok", "failed"}, NEW rows \in Seq(Row)
  PROVE  /\ Call(at, rows) \in CallType
         /\ Call(at, rows).at = at /\ Call(at, rows).rows = rows /\ Call(at, rows).age = 0
         /\ Call(at, rows).since = 0 /\ Call(at, rows).stored = FALSE
BY DEF Call, CallType

LEMMA TickTyped ==
  ASSUME NEW r \in CallType
  PROVE  [r EXCEPT !.age = @ + 1, !.since = @ + 1] \in CallType
<1>0. ASSUME NEW q \in CallType, NEW n \in Nat
      PROVE  [q EXCEPT !.age = n] \in CallType /\ [q EXCEPT !.since = n] \in CallType
  BY ONLY <1>0 DEF CallType
<1>1. r.age + 1 \in Nat /\ r.since + 1 \in Nat
  BY DEF CallType
<1>2. [r EXCEPT !.age = @ + 1, !.since = @ + 1]
        = [[r EXCEPT !.age = r.age + 1] EXCEPT !.since = r.since + 1]
  BY DEF CallType
<1> QED
  BY <1>0, <1>1, <1>2

LEMMA NoRowsTyped == <<>> \in Seq(Row)
OBVIOUS

(* Every step of the collector keeps its types.                            *)
LEMMA CallsTypedStep ==
  ASSUME CallsTyped, [CollectorNext]_collectorVars
  PROVE  CallsTyped'
<1> USE DEF CallsTyped, CallType
<1>1. ASSUME NEW c \in Callers, NEW rows \in Seq(Row) \ {<<>>}, Begin(c, rows) PROVE CallsTyped'
  BY <1>1, CallTyped, NoRowsTyped DEF Begin
<1>2. ASSUME NEW c \in Callers, Take(c) PROVE CallsTyped'
  BY <1>2, CallTyped, NoRowsTyped DEF Take
<1>3. ASSUME NEW c \in Callers, Lock(c) PROVE CallsTyped'
  BY <1>3 DEF Lock, MayLock
<1>4. ASSUME NEW c \in Callers, Send(c) PROVE CallsTyped'
  BY <1>4, ZenonT(40) DEF Send
<1>5. ASSUME NEW c \in Callers, Store(c) PROVE CallsTyped'
  <2>1. call' \in [Callers -> CallType]
    BY <1>5 DEF Store
  <2>2. call[c].rows \in Seq(Row)
    OBVIOUS
  <2>3. table' \in Seq(Row)
    BY <1>5, <2>2 DEF Store
  <2> QED
    BY <1>5, <2>1, <2>3 DEF Store
<1>6. ASSUME NEW c \in Callers, Answer(c) PROVE CallsTyped'
  BY <1>6, CallTyped, NoRowsTyped DEF Answer, Returns
<1>7. ASSUME NEW c \in Callers, Fail(c) PROVE CallsTyped'
  <2>1. call' \in [Callers -> CallType] /\ table' = table
    BY <1>7, CallTyped, NoRowsTyped DEF Fail, Returns
  <2>2. call[c].rows \in Seq(Row)
    OBVIOUS
  <2>3. strays' \subseteq Seq(Row)
    BY <1>7, <2>2 DEF Fail
  <2> QED
    BY <2>1, <2>3
<1>8. CASE StoreStray
  BY <1>8 DEF StoreStray
<1>9. CASE Tick
  <2>1. ASSUME NEW c \in Callers
        PROVE  [call[c] EXCEPT !.age = @ + 1, !.since = @ + 1] \in CallType
    BY TickTyped DEF CallsTyped
  <2>2. call' \in [Callers -> CallType]
    BY <1>9, <2>1 DEF Tick
  <2> QED
    BY <1>9, <2>2 DEF Tick
<1>u. CASE UNCHANGED collectorVars
  BY <1>u DEF collectorVars
<1> QED
  BY <1>1, <1>2, <1>3, <1>4, <1>5, <1>6, <1>7, <1>8, <1>9, <1>u DEF CollectorNext,
     Recording

(* Time passes for a call as a whole.                                      *)
LEMMA TickEffect ==
  ASSUME CallsTyped, Tick, NEW c \in Callers
  PROVE  /\ call'[c].at = call[c].at /\ call'[c].rows = call[c].rows
         /\ call'[c].stored = call[c].stored
         /\ InCall(c) => call'[c].age = call[c].age + 1 /\ call'[c].since = call[c].since + 1
         /\ ~InCall(c) => call'[c].age = call[c].age /\ call'[c].since = call[c].since
<1>1. call[c] \in CallType
  BY DEF CallsTyped
<1> QED
  BY <1>1 DEF Tick, CallType

(* The parts of CollectorTypeOK that are not types.                        *)
ClockInv      == \A c \in Callers : call[c].since <= call[c].age
MutexInv      == mu \in Callers \cup {"free"} /\ \A c \in Callers : mu = c <=> Holding(c)
PassedOverInv == passedOver \subseteq {c \in Callers : Waiting(c)}

(* The time since the request was sent is part of the age of the call.     *)
LEMMA ClockStep ==
  ASSUME CallsTyped, ClockInv, [CollectorNext]_collectorVars
  PROVE  ClockInv'
<1> USE DEF ClockInv, CallsTyped, CallType
<1>1. ASSUME NEW c \in Callers, NEW rows \in Seq(Row) \ {<<>>}, Begin(c, rows) PROVE ClockInv'
  BY <1>1, CallTyped, NoRowsTyped DEF Begin, Call
<1>2. ASSUME NEW c \in Callers, Take(c) PROVE ClockInv'
  BY <1>2, CallTyped, NoRowsTyped DEF Take, Call
<1>3. ASSUME NEW c \in Callers, Lock(c) PROVE ClockInv'
  BY <1>3 DEF Lock, MayLock
<1>4. ASSUME NEW c \in Callers, Send(c) PROVE ClockInv'
  BY <1>4 DEF Send
<1>5. ASSUME NEW c \in Callers, Store(c) PROVE ClockInv'
  BY <1>5 DEF Store
<1>6. ASSUME NEW c \in Callers, Answer(c) PROVE ClockInv'
  BY <1>6, CallTyped, NoRowsTyped DEF Answer, Returns, Call
<1>7. ASSUME NEW c \in Callers, Fail(c) PROVE ClockInv'
  BY <1>7, CallTyped, NoRowsTyped DEF Fail, Returns, Call
<1>8. CASE StoreStray
  BY <1>8 DEF StoreStray
<1>9. CASE Tick
  <2> SUFFICES ASSUME NEW c \in Callers PROVE call'[c].since <= call'[c].age
    OBVIOUS
  <2>1. call[c].since \in Nat /\ call[c].age \in Nat /\ call[c].since <= call[c].age
    OBVIOUS
  <2>2. \/ call'[c].age = call[c].age + 1 /\ call'[c].since = call[c].since + 1
        \/ call'[c].age = call[c].age /\ call'[c].since = call[c].since
    BY <1>9, TickEffect DEF CallsTyped
  <2> QED
    BY ONLY <2>1, <2>2
<1>u. CASE UNCHANGED collectorVars
  BY <1>u DEF collectorVars
<1> QED
  BY <1>1, <1>2, <1>3, <1>4, <1>5, <1>6, <1>7, <1>8, <1>9, <1>u DEF CollectorNext,
     Recording

(* The mutex is held by the one call that is past it.                      *)
LEMMA MutexStep ==
  ASSUME CallsTyped, MutexInv, [CollectorNext]_collectorVars
  PROVE  MutexInv'
<1> USE CollectorAssumption DEF MutexInv, Holding, Waiting
<1>1. ASSUME NEW c \in Callers, NEW rows \in Seq(Row) \ {<<>>}, Begin(c, rows) PROVE MutexInv'
  <2>1. call'[c].at = "lock" /\ \A d \in Callers \ {c} : call'[d] = call[d]
    BY <1>1 DEF CallsTyped, Begin, Call
  <2> QED
    BY <1>1, <2>1 DEF Begin, Call
<1>2. ASSUME NEW c \in Callers, Take(c) PROVE MutexInv'
  <2>1. call'[c].at = "idle" /\ \A d \in Callers \ {c} : call'[d] = call[d]
    BY <1>2 DEF CallsTyped, Take, Call
  <2> QED
    BY <1>2, <2>1 DEF Take, Call
<1>3. ASSUME NEW c \in Callers, Lock(c) PROVE MutexInv'
  <2>1. call'[c].at = "dial" /\ \A d \in Callers \ {c} : call'[d] = call[d]
    BY <1>3 DEF CallsTyped, Lock, MayLock
  <2> QED
    BY <1>3, <2>1 DEF Lock, MayLock
<1>4. ASSUME NEW c \in Callers, Send(c) PROVE MutexInv'
  <2>1. call'[c].at = "sent" /\ \A d \in Callers \ {c} : call'[d] = call[d]
    BY <1>4 DEF CallsTyped, Send
  <2> QED
    BY <1>4, <2>1 DEF Send
<1>5. ASSUME NEW c \in Callers, Store(c) PROVE MutexInv'
  <2>1. call'[c].at = "sent" /\ \A d \in Callers \ {c} : call'[d] = call[d]
    BY <1>5 DEF CallsTyped, Store
  <2> QED
    BY <1>5, <2>1 DEF Store
<1>6. ASSUME NEW c \in Callers, Answer(c) PROVE MutexInv'
  <2>1. call'[c].at = "ok" /\ \A d \in Callers \ {c} : call'[d] = call[d]
    BY <1>6 DEF CallsTyped, Answer, Returns, Call
  <2> QED
    BY <1>6, <2>1 DEF Answer, Returns, Call
<1>7. ASSUME NEW c \in Callers, Fail(c) PROVE MutexInv'
  <2>1. call'[c].at = "failed" /\ \A d \in Callers \ {c} : call'[d] = call[d]
    BY <1>7 DEF CallsTyped, Fail, Returns, Call
  <2> QED
    BY <1>7, <2>1 DEF Fail, Returns, Call
<1>8. CASE StoreStray
  BY <1>8 DEF StoreStray
<1>9. CASE Tick
  <2>1. \A c \in Callers : call'[c].at = call[c].at
    BY <1>9, TickEffect
  <2> QED
    BY <1>9, <2>1 DEF Tick
<1>u. CASE UNCHANGED collectorVars
  BY <1>u DEF collectorVars
<1> QED
  BY <1>1, <1>2, <1>3, <1>4, <1>5, <1>6, <1>7, <1>8, <1>9, <1>u DEF CollectorNext,
     Recording

(* Who was passed over still waits.                                        *)
LEMMA PassedOverStep ==
  ASSUME CallsTyped, PassedOverInv, [CollectorNext]_collectorVars
  PROVE  PassedOverInv'
<1> USE DEF PassedOverInv, Holding, Waiting
<1>1. ASSUME NEW c \in Callers, NEW rows \in Seq(Row) \ {<<>>}, Begin(c, rows)
      PROVE  PassedOverInv'
  <2>1. call'[c].at = "lock" /\ \A d \in Callers \ {c} : call'[d] = call[d]
    BY <1>1 DEF CallsTyped, Begin, Call
  <2> QED
    BY <1>1, <2>1 DEF Begin, Call
<1>2. ASSUME NEW c \in Callers, Take(c) PROVE PassedOverInv'
  <2>1. call'[c].at = "idle" /\ \A d \in Callers \ {c} : call'[d] = call[d]
    BY <1>2 DEF CallsTyped, Take, Call
  <2> QED
    BY <1>2, <2>1 DEF Take, Call
<1>3. ASSUME NEW c \in Callers, Lock(c) PROVE PassedOverInv'
  <2>1. call'[c].at = "dial" /\ \A d \in Callers \ {c} : call'[d] = call[d]
    BY <1>3 DEF CallsTyped, Lock, MayLock
  <2> QED
    BY <1>3, <2>1 DEF Lock, MayLock
<1>4. ASSUME NEW c \in Callers, Send(c) PROVE PassedOverInv'
  <2>1. call'[c].at = "sent" /\ \A d \in Callers \ {c} : call'[d] = call[d]
    BY <1>4 DEF CallsTyped, Send
  <2> QED
    BY <1>4, <2>1 DEF Send
<1>5. ASSUME NEW c \in Callers, Store(c) PROVE PassedOverInv'
  <2>1. call'[c].at = "sent" /\ \A d \in Callers \ {c} : call'[d] = call[d]
    BY <1>5 DEF CallsTyped, Store
  <2> QED
    BY <1>5, <2>1 DEF Store
<1>6. ASSUME NEW c \in Callers, Answer(c) PROVE PassedOverInv'
  <2>1. call'[c].at = "ok" /\ \A d \in Callers \ {c} : call'[d] = call[d]
    BY <1>6 DEF CallsTyped, Answer, Returns, Call
  <2> QED
    BY <1>6, <2>1 DEF Answer, Returns, Call
<1>7. ASSUME NEW c \in Callers, Fail(c) PROVE PassedOverInv'
  <2>1. call'[c].at = "failed" /\ \A d \in Callers \ {c} : call'[d] = call[d]
    BY <1>7 DEF CallsTyped, Fail, Returns, Call
  <2> QED
    BY <1>7, <2>1 DEF Fail, Returns, Call
<1>8. CASE StoreStray
  BY <1>8 DEF StoreStray
<1>9. CASE Tick
  <2>1. \A c \in Callers : call'[c].at = call[c].at
    BY <1>9, TickEffect
  <2> QED
    BY <1>9, <2>1 DEF Tick
<1>u. CASE UNCHANGED collectorVars
  BY <1>u DEF collectorVars
<1> QED
  BY <1>1, <1>2, <1>3, <1>4, <1>5, <1>6, <1>7, <1>8, <1>9, <1>u DEF CollectorNext,
     Recording

(* At most one caller is passed over.                                      *)
LEMMA TurnStep ==
  ASSUME TurnInv, [CollectorNext]_collectorVars
  PROVE  TurnInv'
<1> USE EventStreamAssumption DEF TurnInv
<1>1. ASSUME NEW c \in Callers, NEW rows \in Seq(Row) \ {<<>>}, Begin(c, rows) PROVE TurnInv'
  BY <1>1 DEF Begin, Call
<1>2. ASSUME NEW c \in Callers, Take(c) PROVE TurnInv'
  BY <1>2 DEF Take, Call
<1>3. ASSUME NEW c \in Callers, Lock(c) PROVE TurnInv'
  BY <1>3 DEF Lock, MayLock
<1>4. ASSUME NEW c \in Callers, Send(c) PROVE TurnInv'
  BY <1>4 DEF Send
<1>5. ASSUME NEW c \in Callers, Store(c) PROVE TurnInv'
  BY <1>5 DEF Store
<1>6. ASSUME NEW c \in Callers, Answer(c) PROVE TurnInv'
  BY <1>6 DEF Answer, Returns, Call
<1>7. ASSUME NEW c \in Callers, Fail(c) PROVE TurnInv'
  BY <1>7 DEF Fail, Returns, Call
<1>8. CASE StoreStray
  BY <1>8 DEF StoreStray
<1>9. CASE Tick
  BY <1>9 DEF Tick
<1>u. CASE UNCHANGED collectorVars
  BY <1>u DEF collectorVars
<1> QED
  BY <1>1, <1>2, <1>3, <1>4, <1>5, <1>6, <1>7, <1>8, <1>9, <1>u DEF CollectorNext,
     Recording

(* Every step keeps how long a call can take.                              *)
LEMMA BoundStep ==
  ASSUME CallsTyped, CollectorTypeOK, TurnInv, BoundInv, [CollectorNext]_collectorVars
  PROVE  BoundInv'
<1>n. \A c \in Callers : call[c].age \in Nat /\ call[c].since \in Nat
  BY DEF CallsTyped, CallType
<1>t. \A c, d, e \in Callers : c = d \/ d = e \/ c = e
  BY EventStreamAssumption
<1>d. Deadline \in Nat
  BY CollectorAssumption
<1>m. \A c \in Callers : mu = c <=> Holding(c)
  BY DEF CollectorTypeOK
<1>w. \A c \in passedOver : c \in Callers /\ Waiting(c)
  BY DEF CollectorTypeOK
<1> USE DEF TurnInv, BoundInv, Holding, Waiting
<1>1. ASSUME NEW c \in Callers, NEW rows \in Seq(Row) \ {<<>>}, Begin(c, rows) PROVE BoundInv'
  <2>1. call'[c].at = "lock" /\ call'[c].age = 0 /\ call'[c].since = 0
    BY <1>1 DEF CallsTyped, CallType, Begin, Call
  <2>2. \A d \in Callers \ {c} : call'[d] = call[d]
    BY <1>1 DEF CallsTyped, CallType, Begin, Call
  <2> QED
    BY <1>1, <1>n, <1>t, <1>d, <1>m, <1>w, <2>1, <2>2 DEF Begin
<1>2. ASSUME NEW c \in Callers, Take(c) PROVE BoundInv'
  <2>1. call'[c].at = "idle" /\ call'[c].age = 0 /\ call'[c].since = 0
    BY <1>2 DEF CallsTyped, CallType, Take, Call
  <2>2. \A d \in Callers \ {c} : call'[d] = call[d]
    BY <1>2 DEF CallsTyped, CallType, Take, Call
  <2> QED
    BY <1>2, <1>n, <1>t, <1>d, <1>m, <1>w, <2>1, <2>2 DEF Take
<1>3. ASSUME NEW c \in Callers, Lock(c) PROVE BoundInv'
  <2>1. call'[c].at = "dial" /\ call'[c].age = call[c].age /\ call'[c].since = call[c].since
    BY <1>3 DEF CallsTyped, CallType, Lock
  <2>2. \A d \in Callers \ {c} : call'[d] = call[d]
    BY <1>3 DEF CallsTyped, CallType, Lock
  <2> QED
    BY <1>3, <1>n, <1>t, <1>d, <1>m, <1>w, <2>1, <2>2 DEF Lock, MayLock
<1>4. ASSUME NEW c \in Callers, Send(c) PROVE BoundInv'
  <2>1. call'[c].at = "sent" /\ call'[c].age = call[c].age /\ call'[c].since = 0
    BY <1>4 DEF CallsTyped, CallType, Send
  <2>2. \A d \in Callers \ {c} : call'[d] = call[d]
    BY <1>4 DEF CallsTyped, CallType, Send
  <2>3. passedOver' = passedOver
    BY <1>4 DEF Send
  <2>4. \A d \in Callers : /\ call'[d].age = call[d].age
                           /\ Waiting(d)' => Waiting(d)
                           /\ Holding(d)' => Holding(d)
    BY <1>4, <2>1, <2>2 DEF Send
  <2> QED
    BY <2>3, <2>4
<1>5. ASSUME NEW c \in Callers, Store(c) PROVE BoundInv'
  <2>1. call'[c].at = "sent" /\ call'[c].age = call[c].age /\ call'[c].since = call[c].since
    BY <1>5 DEF CallsTyped, CallType, Store
  <2>2. \A d \in Callers \ {c} : call'[d] = call[d]
    BY <1>5 DEF CallsTyped, CallType, Store
  <2> QED
    BY <1>5, <1>n, <1>t, <1>d, <1>m, <1>w, <2>1, <2>2 DEF Store
<1>6. ASSUME NEW c \in Callers, Answer(c) PROVE BoundInv'
  <2>1. call'[c].at = "ok" /\ call'[c].age = 0 /\ call'[c].since = 0
    BY <1>6 DEF CallsTyped, CallType, Answer, Returns, Call
  <2>2. \A d \in Callers \ {c} : call'[d] = call[d]
    BY <1>6 DEF CallsTyped, CallType, Answer, Returns, Call
  <2> QED
    BY <1>6, <1>n, <1>t, <1>d, <1>m, <1>w, <2>1, <2>2 DEF Answer, Returns
<1>7. ASSUME NEW c \in Callers, Fail(c) PROVE BoundInv'
  <2>1. call'[c].at = "failed" /\ call'[c].age = 0 /\ call'[c].since = 0
    BY <1>7 DEF CallsTyped, CallType, Fail, Returns, Call
  <2>2. \A d \in Callers \ {c} : call'[d] = call[d]
    BY <1>7 DEF CallsTyped, CallType, Fail, Returns, Call
  <2> QED
    BY <1>7, <1>n, <1>t, <1>d, <1>m, <1>w, <2>1, <2>2 DEF Fail, Returns
<1>8. CASE StoreStray
  BY <1>8 DEF StoreStray
<1>9. CASE Tick
  <2>1. \A c \in Callers : call'[c].at = call[c].at
    BY <1>9, TickEffect
  <2>2. \A c \in Callers : IF InCall(c) THEN call'[c].age = call[c].age + 1
                                        ELSE call'[c].age = call[c].age
    BY <1>9, TickEffect
  <2>0. \A c \in Callers : ~Due(c)
    BY <1>9 DEF Tick
  <2>3. \A c \in Callers : Holding(c) => call[c].age < Deadline
    BY <2>0, <1>n, <1>d DEF Due, Expired
  <2>4. \A c \in Callers : Waiting(c) => \E d \in Callers : Holding(d)
    BY <1>9, <1>m, <1>w DEF Tick, Due, MayLock, CollectorTypeOK
  <2>5. passedOver' = passedOver
    BY <1>9 DEF Tick
  <2>6. \A c \in Callers : call'[c].age <= 2 * Deadline
    <3> SUFFICES ASSUME NEW c \in Callers PROVE call'[c].age <= 2 * Deadline
      OBVIOUS
    <3>1. CASE Waiting(c)
      <4>1. PICK d \in Callers : Holding(d)
        BY <3>1, <2>4
      <4>2. call[c].age <= call[d].age + Deadline /\ call[d].age < Deadline
        BY <3>1, <4>1, <2>3, <1>n, <1>d
      <4> QED
        BY <4>2, <2>2, <1>n, <1>d
    <3>2. CASE Holding(c)
      BY <3>2, <2>2, <2>3, <1>n, <1>d
    <3>3. CASE ~InCall(c)
      BY <3>3, <2>2
    <3> QED
      BY <3>1, <3>2, <3>3 DEF InCall
  <2>7. \A c, d \in Callers : Waiting(c) /\ Holding(d) =>
          call'[c].age = call[c].age + 1 /\ call'[d].age = call[d].age + 1
    BY <2>2 DEF InCall
  <2>8. \A c, d \in Callers : Waiting(c)' /\ Holding(d)' =>
          call'[c].age <= call'[d].age + IF c \in passedOver' THEN Deadline ELSE 0
    BY <1>n, <1>d, <2>1, <2>5, <2>7
  <2>9. \A c \in Callers : Waiting(c)' /\ c \notin passedOver' => call'[c].age <= Deadline
    <3> SUFFICES ASSUME NEW c \in Callers, Waiting(c), c \notin passedOver
                 PROVE  call'[c].age <= Deadline
      BY <2>1, <2>5
    <3>1. PICK d \in Callers : Holding(d)
      BY <2>4
    <3> QED
      BY <3>1, <2>3, <2>7, <1>n, <1>d
  <2> QED
    BY <2>6, <2>8, <2>9
<1>u. CASE UNCHANGED collectorVars
  BY <1>u DEF collectorVars
<1> QED
  BY <1>1, <1>2, <1>3, <1>4, <1>5, <1>6, <1>7, <1>8, <1>9, <1>u DEF CollectorNext,
     Recording

(* A server that answers in time keeps the calls short.                    *)
LEMMA FastStep ==
  ASSUME CallsTyped, CollectorTypeOK, TurnInv, AnswersInTime, FastBound,
         [CollectorNext]_collectorVars
  PROVE  FastBound'
<1>n. \A c \in Callers : call[c].age \in Nat /\ call[c].since \in Nat
  BY DEF CallsTyped, CallType
<1>t. \A c, d, e \in Callers : c = d \/ d = e \/ c = e
  BY EventStreamAssumption
<1>d. Deadline \in Nat /\ Service \in Nat /\ HeaderTimeout \in Nat
  BY CollectorAssumption
<1>m. \A c \in Callers : mu = c <=> Holding(c)
  BY DEF CollectorTypeOK
<1>w. \A c \in passedOver : c \in Callers /\ Waiting(c)
  BY DEF CollectorTypeOK
<1> USE DEF FastBound, Held, Holding, Waiting
<1>1. ASSUME NEW c \in Callers, NEW rows \in Seq(Row) \ {<<>>}, Begin(c, rows) PROVE FastBound'
  <2>1. call'[c].at = "lock" /\ call'[c].age = 0 /\ call'[c].since = 0
    BY <1>1 DEF CallsTyped, CallType, Begin, Call
  <2>2. \A d \in Callers \ {c} : call'[d] = call[d]
    BY <1>1 DEF CallsTyped, CallType, Begin, Call
  <2> QED
    BY <1>1, <1>n, <1>t, <1>d, <1>m, <1>w, <2>1, <2>2 DEF Begin
<1>2. ASSUME NEW c \in Callers, Take(c) PROVE FastBound'
  <2>1. call'[c].at = "idle" /\ call'[c].age = 0 /\ call'[c].since = 0
    BY <1>2 DEF CallsTyped, CallType, Take, Call
  <2>2. \A d \in Callers \ {c} : call'[d] = call[d]
    BY <1>2 DEF CallsTyped, CallType, Take, Call
  <2> QED
    BY <1>2, <1>n, <1>t, <1>d, <1>m, <1>w, <2>1, <2>2 DEF Take
<1>3. ASSUME NEW c \in Callers, Lock(c) PROVE FastBound'
  <2>1. call'[c].at = "dial" /\ call'[c].age = call[c].age /\ call'[c].since = call[c].since
    BY <1>3 DEF CallsTyped, CallType, Lock
  <2>2. \A d \in Callers \ {c} : call'[d] = call[d]
    BY <1>3 DEF CallsTyped, CallType, Lock
  <2>3. passedOver' = {d \in Callers \ {c} : d \in passedOver \/ (Waiting(d) /\ call[d].age > 0)}
    BY <1>3 DEF Lock
  <2>4. Waiting(c) /\ (\A d \in Callers : ~Holding(d)) /\ (\A d \in passedOver : d = c)
    BY <1>3, <1>m, <1>w, CollectorAssumption DEF Lock, MayLock, TurnInv
  <2>5. \A d \in Callers \ {c} : Waiting(d)' => Waiting(d) /\ call[d].age <= Service
    BY <2>2, <2>4
  <2>6. \A d \in Callers : Holding(d)' => d = c
    BY <2>2, <2>4
  <2>7. \A d \in Callers : call'[d].at # "failed" /\ Held(d)' <= Service
    BY <2>1, <2>2, <1>d
  <2>8. call'[c].age <= 2 * Service /\ Held(c)' = 0
    BY <2>1, <2>4, <1>n, <1>d
  <2>9. \A d \in Callers : Waiting(d)' => d # c /\ call'[d].age = call[d].age
    BY <2>1, <2>2
  <2>10. \A d \in Callers : Waiting(d)' =>
           call'[d].age <= IF d \in passedOver' THEN 2 * Service ELSE Service
    BY <2>5, <2>9, <1>n, <1>d
  <2>11. \A d \in Callers : Waiting(d)' =>
           call'[d].age <= IF d \in passedOver' THEN Service ELSE 0
    BY <2>3, <2>5, <2>9, <1>n, <1>d
  <2> QED
    BY <2>6, <2>7, <2>8, <2>10, <2>11, <1>d
<1>4. ASSUME NEW c \in Callers, Send(c) PROVE FastBound'
  <2>1. call'[c].at = "sent" /\ call'[c].age = call[c].age /\ call'[c].since = 0
    BY <1>4 DEF CallsTyped, CallType, Send
  <2>2. \A d \in Callers \ {c} : call'[d] = call[d]
    BY <1>4 DEF CallsTyped, CallType, Send
  <2>3. passedOver' = passedOver
    BY <1>4 DEF Send
  <2>4. \A d \in Callers : /\ call'[d].age = call[d].age /\ call'[d].at # "failed"
                           /\ Waiting(d)' => Waiting(d)
                           /\ Holding(d)' => Holding(d)
    BY <1>4, <2>1, <2>2 DEF Send
  <2>5. Held(c)' = 0 /\ Held(c) = 0
    BY <1>4, <2>1 DEF Send
  <2>6. \A d \in Callers : Held(d)' = Held(d)
    BY <2>2, <2>5
  <2> QED
    BY <2>3, <2>4, <2>6
<1>5. ASSUME NEW c \in Callers, Store(c) PROVE FastBound'
  <2>1. call'[c].at = "sent" /\ call'[c].age = call[c].age /\ call'[c].since = call[c].since
    BY <1>5 DEF CallsTyped, CallType, Store
  <2>2. \A d \in Callers \ {c} : call'[d] = call[d]
    BY <1>5 DEF CallsTyped, CallType, Store
  <2> QED
    BY <1>5, <1>n, <1>t, <1>d, <1>m, <1>w, <2>1, <2>2 DEF Store
<1>6. ASSUME NEW c \in Callers, Answer(c) PROVE FastBound'
  <2>1. call'[c].at = "ok" /\ call'[c].age = 0 /\ call'[c].since = 0
    BY <1>6 DEF CallsTyped, CallType, Answer, Returns, Call
  <2>2. \A d \in Callers \ {c} : call'[d] = call[d]
    BY <1>6 DEF CallsTyped, CallType, Answer, Returns, Call
  <2> QED
    BY <1>6, <1>n, <1>t, <1>d, <1>m, <1>w, <2>1, <2>2 DEF Answer, Returns
<1>7. ASSUME NEW c \in Callers, Fail(c) PROVE FastBound'
  <2>1. call[c].age < Deadline
    BY <1>7, <1>n, <1>d DEF Fail, AnswersInTime
  <2>2. call[c].at = "sent" => call[c].since < HeaderTimeout
    BY <1>7, <1>n, <1>d DEF AnswersInTime
  <2>3. ~Expired(c) /\ ~HeadersOverdue(c) /\ health # "poor"
    BY <2>1, <2>2, <1>n, <1>d DEF Expired, HeadersOverdue, AnswersInTime
  <2> QED
    BY <1>7, <2>3 DEF Fail
<1>8. CASE StoreStray
  BY <1>8 DEF StoreStray
<1>9. CASE Tick
  <2>1. \A c \in Callers : call'[c].at = call[c].at
    BY <1>9, TickEffect
  <2>2. \A c \in Callers : IF InCall(c)
                              THEN /\ call'[c].age = call[c].age + 1
                                   /\ call'[c].since = call[c].since + 1
                              ELSE /\ call'[c].age = call[c].age
                                   /\ call'[c].since = call[c].since
    BY <1>9, TickEffect
  <2>0. \A c \in Callers : ~Due(c)
    BY <1>9 DEF Tick
  <2>3. \A c \in Callers : Holding(c) => call[c].at = "sent" /\ call[c].since < Service
    BY <2>0, <1>n, <1>d DEF Due, AnswersInTime
  <2>4. \A c \in Callers : Waiting(c) => \E d \in Callers : Holding(d)
    BY <1>9, <1>m, <1>w DEF Tick, Due, MayLock, CollectorTypeOK
  <2>5. passedOver' = passedOver
    BY <1>9 DEF Tick
  <2>6. \A c \in Callers : call'[c].at # "failed" /\ Held(c)' <= Service
    BY <2>1, <2>2, <2>3, <1>n, <1>d DEF InCall
  <2>7. \A c \in Callers : Holding(c)' => call'[c].age <= 2 * Service + Held(c)'
    BY <2>1, <2>2, <2>3, <1>n, <1>d DEF InCall
  <2>8. \A c, d \in Callers : Waiting(c)' /\ Holding(d)' =>
          call'[c].age <= Held(d)' + IF c \in passedOver' THEN Service ELSE 0
    BY <1>n, <1>d, <2>1, <2>2, <2>3, <2>5 DEF InCall
  <2>9. \A c \in Callers : Waiting(c)' =>
          call'[c].age <= IF c \in passedOver' THEN 2 * Service ELSE Service
    <3> SUFFICES ASSUME NEW c \in Callers, Waiting(c)
                 PROVE  call'[c].age <= IF c \in passedOver THEN 2 * Service ELSE Service
      BY <2>1, <2>5
    <3>1. PICK d \in Callers : Holding(d)
      BY <2>4
    <3>2. call[d].at = "sent" /\ call[d].since < Service
      BY <3>1, <2>3
    <3>3. call'[c].age = call[c].age + 1
      BY <2>2 DEF InCall
    <3> QED
      BY <3>1, <3>2, <3>3, <1>n, <1>d
  <2> QED
    BY <2>6, <2>7, <2>8, <2>9
<1>u. CASE UNCHANGED collectorVars
  BY <1>u DEF collectorVars
<1> QED
  BY <1>1, <1>2, <1>3, <1>4, <1>5, <1>6, <1>7, <1>8, <1>9, <1>u DEF CollectorNext,
     Recording

---------------------------------------------------------------------------
(* The collector and what it promises.                                     *)

(* What the table knows of a call.                                         *)
LEMMA OpenOne ==
  ASSUME NEW c \in Callers
  PROVE  OpenCalls[c] =
           IF InCall(c) THEN [at |-> "open", rows |-> call[c].rows, stored |-> call[c].stored]
           ELSE [at |-> call[c].at, rows |-> <<>>, stored |-> FALSE]
BY DEF OpenCalls

(* The call is stored: a record, field by field.                           *)
LEMMA OpenStored ==
  ASSUME NEW r, NEW rows \in Seq(Row), r = [at |-> "open", rows |-> rows, stored |-> FALSE]
  PROVE  [at |-> "open", rows |-> rows, stored |-> TRUE] = [r EXCEPT !.stored = TRUE]
<1> DEFINE OpenType == [at: {"open"}, rows: Seq(Row), stored: BOOLEAN]
<1>1. r \in OpenType /\ [at |-> "open", rows |-> rows, stored |-> TRUE] \in OpenType
  OBVIOUS
<1>2. /\ [r EXCEPT !.stored = TRUE] \in OpenType
      /\ [r EXCEPT !.stored = TRUE].at = r.at /\ [r EXCEPT !.stored = TRUE].rows = r.rows
      /\ [r EXCEPT !.stored = TRUE].stored = TRUE
  BY ONLY <1>1
<1>3. ASSUME NEW p \in OpenType, NEW q \in OpenType, p.at = q.at, p.rows = q.rows,
             p.stored = q.stored
      PROVE  p = q
  BY ONLY <1>3
<1>4. r.at = "open" /\ r.rows = rows
  OBVIOUS
<1> HIDE DEF OpenType
<1> QED
  BY <1>1, <1>2, <1>3, <1>4

(* A step of one call changes what the table knows of that call.           *)
LEMMA OpenStep ==
  ASSUME NEW c \in Callers, \A d \in Callers \ {c} : call'[d] = call[d]
  PROVE  OpenCalls' = [OpenCalls EXCEPT ![c] = OpenCalls'[c]]
BY DEF OpenCalls, InCall, Waiting, Holding

LEMMA OpenSame ==
  ASSUME \A c \in Callers : /\ call'[c].at = call[c].at /\ call'[c].rows = call[c].rows
                            /\ call'[c].stored = call[c].stored
  PROVE  OpenCalls' = OpenCalls
BY DEF OpenCalls, InCall, Waiting, Holding

(* Every step of the collector is one that the table promises, or none.    *)
LEMMA TableStep ==
  ASSUME CallsTyped, [CollectorNext]_collectorVars
  PROVE  [Table!Next]_(Table!tableVars)
<1>1. ASSUME NEW c \in Callers, NEW rows \in Seq(Row) \ {<<>>}, Begin(c, rows)
      PROVE  [Table!Next]_(Table!tableVars)
  <2>1. call'[c].at = "lock" /\ call'[c].rows = rows /\ call'[c].stored = FALSE
    BY <1>1 DEF CallsTyped, CallType, Begin, Call
  <2>2. \A d \in Callers \ {c} : call'[d] = call[d]
    BY <1>1 DEF CallsTyped, CallType, Begin, Call
  <2>3. OpenCalls' = [OpenCalls EXCEPT ![c] = OpenCalls'[c]]
    BY <2>2, OpenStep
  <2>4. OpenCalls'[c] = [at |-> "open", rows |-> rows, stored |-> FALSE]
    BY <2>1 DEF OpenCalls, InCall, Waiting, Holding
  <2>5. OpenCalls[c].at = "idle"
    BY <1>1 DEF Begin, OpenCalls, InCall, Waiting, Holding
  <2>6. Table!Begin(c, OpenCalls'[c].rows)
    BY <1>1, <2>3, <2>4, <2>5 DEF Begin, Table!Begin, Table!Becomes
  <2> QED
    BY <2>6 DEF Table!Next
<1>2. ASSUME NEW c \in Callers, Take(c) PROVE [Table!Next]_(Table!tableVars)
  <2>1. call'[c].at = "idle" /\ call'[c].rows = <<>> /\ call'[c].stored = FALSE
    BY <1>2 DEF CallsTyped, CallType, Take, Call
  <2>2. \A d \in Callers \ {c} : call'[d] = call[d]
    BY <1>2 DEF CallsTyped, CallType, Take, Call
  <2>3. OpenCalls' = [OpenCalls EXCEPT ![c] = OpenCalls'[c]]
    BY <2>2, OpenStep
  <2>4. OpenCalls'[c] = [at |-> "idle", rows |-> <<>>, stored |-> FALSE]
    BY <2>1 DEF OpenCalls, InCall, Waiting, Holding
  <2>5. OpenCalls[c].at \in {"ok", "failed"}
    BY <1>2 DEF Take, OpenCalls, InCall, Waiting, Holding
  <2>6. Table!Take(c)
    BY <1>2, <2>3, <2>4, <2>5 DEF Take, Table!Take, Table!Becomes, Table!Closed
  <2> QED
    BY <2>6 DEF Table!Next
<1>3. ASSUME NEW c \in Callers, Lock(c) PROVE [Table!Next]_(Table!tableVars)
  <2>1. call'[c].at = "dial" /\ call'[c].rows = call[c].rows /\ call'[c].stored = call[c].stored
    BY <1>3 DEF CallsTyped, CallType, Lock
  <2>2. \A d \in Callers \ {c} : call'[d] = call[d]
    BY <1>3 DEF CallsTyped, CallType, Lock
  <2>3. OpenCalls' = [OpenCalls EXCEPT ![c] = OpenCalls'[c]]
    BY <2>2, OpenStep
  <2>4. OpenCalls'[c] = [at |-> "open", rows |-> call[c].rows, stored |-> call[c].stored]
    BY <2>1 DEF OpenCalls, InCall, Waiting, Holding
  <2>5. OpenCalls[c] = [at |-> "open", rows |-> call[c].rows, stored |-> call[c].stored]
    BY <1>3 DEF Lock, MayLock, OpenCalls, InCall, Waiting, Holding
  <2>6. OpenCalls' = OpenCalls
    BY <2>3, <2>4, <2>5 DEF OpenCalls
  <2> QED
    BY <1>3, <2>6 DEF Lock, Table!tableVars
<1>4. ASSUME NEW c \in Callers, Send(c) PROVE [Table!Next]_(Table!tableVars)
  <2>1. call'[c].at = "sent" /\ call'[c].rows = call[c].rows /\ call'[c].stored = call[c].stored
    BY <1>4 DEF CallsTyped, CallType, Send
  <2>2. \A d \in Callers \ {c} : call'[d] = call[d]
    BY <1>4 DEF CallsTyped, CallType, Send
  <2>3. OpenCalls' = [OpenCalls EXCEPT ![c] = OpenCalls'[c]]
    BY <2>2, OpenStep
  <2>4. OpenCalls'[c] = [at |-> "open", rows |-> call[c].rows, stored |-> call[c].stored]
    BY <2>1 DEF OpenCalls, InCall, Waiting, Holding
  <2>5. OpenCalls[c] = [at |-> "open", rows |-> call[c].rows, stored |-> call[c].stored]
    BY <1>4 DEF Send, OpenCalls, InCall, Waiting, Holding
  <2>6. OpenCalls' = OpenCalls
    BY <2>3, <2>4, <2>5 DEF OpenCalls
  <2> QED
    BY <1>4, <2>6 DEF Send, Table!tableVars
<1>5. ASSUME NEW c \in Callers, Store(c) PROVE [Table!Next]_(Table!tableVars)
  <2>1. call'[c].at = "sent" /\ call'[c].rows = call[c].rows /\ call'[c].stored = TRUE
    BY <1>5 DEF CallsTyped, CallType, Store
  <2>2. \A d \in Callers \ {c} : call'[d] = call[d]
    BY <1>5 DEF CallsTyped, CallType, Store
  <2>3. OpenCalls' = [OpenCalls EXCEPT ![c] = OpenCalls'[c]]
    BY <2>2, OpenStep
  <2>4. OpenCalls'[c] = [at |-> "open", rows |-> call[c].rows, stored |-> TRUE]
    BY <2>1 DEF OpenCalls, InCall, Waiting, Holding
  <2>5. OpenCalls[c] = [at |-> "open", rows |-> call[c].rows, stored |-> FALSE]
    BY <1>5 DEF Store, OpenCalls, InCall, Waiting, Holding, CallsTyped, CallType
  <2>6. OpenCalls'[c] = [OpenCalls[c] EXCEPT !.stored = TRUE]
    BY <2>4, <2>5, OpenStored DEF CallsTyped, CallType
  <2>7. Table!Store(c)
    BY <1>5, <2>3, <2>5, <2>6 DEF Store, Table!Store, Table!Becomes
  <2> QED
    BY <2>7 DEF Table!Next
<1>6. ASSUME NEW c \in Callers, Answer(c) PROVE [Table!Next]_(Table!tableVars)
  <2>1. call'[c].at = "ok" /\ call'[c].rows = <<>> /\ call'[c].stored = FALSE
    BY <1>6 DEF CallsTyped, CallType, Answer, Returns, Call
  <2>2. \A d \in Callers \ {c} : call'[d] = call[d]
    BY <1>6 DEF CallsTyped, CallType, Answer, Returns, Call
  <2>3. OpenCalls' = [OpenCalls EXCEPT ![c] = OpenCalls'[c]]
    BY <2>2, OpenStep
  <2>4. OpenCalls'[c] = [at |-> "ok", rows |-> <<>>, stored |-> FALSE]
    BY <2>1 DEF OpenCalls, InCall, Waiting, Holding
  <2>5. OpenCalls[c].at = "open" /\ OpenCalls[c].stored
    BY <1>6 DEF Answer, OpenCalls, InCall, Waiting, Holding
  <2>6. Table!Succeed(c)
    BY <1>6, <2>3, <2>4, <2>5 DEF Answer, Table!Succeed, Table!Becomes, Table!Closed
  <2> QED
    BY <2>6 DEF Table!Next
<1>7. ASSUME NEW c \in Callers, Fail(c) PROVE [Table!Next]_(Table!tableVars)
  <2>1. call'[c].at = "failed" /\ call'[c].rows = <<>> /\ call'[c].stored = FALSE
    BY <1>7 DEF CallsTyped, CallType, Fail, Returns, Call
  <2>2. \A d \in Callers \ {c} : call'[d] = call[d]
    BY <1>7 DEF CallsTyped, CallType, Fail, Returns, Call
  <2>3. OpenCalls' = [OpenCalls EXCEPT ![c] = OpenCalls'[c]]
    BY <2>2, OpenStep
  <2>4. OpenCalls'[c] = [at |-> "failed", rows |-> <<>>, stored |-> FALSE]
    BY <2>1 DEF OpenCalls, InCall, Waiting, Holding
  <2>5. OpenCalls[c] = [at |-> "open", rows |-> call[c].rows, stored |-> call[c].stored]
    BY <1>7 DEF Fail, OpenCalls, InCall, Waiting, Holding
  <2>6. Table!Fail(c)
    BY <1>7, <2>3, <2>4, <2>5 DEF Fail, Table!Fail, Table!Becomes, Table!Closed
  <2> QED
    BY <2>6 DEF Table!Next
<1>8. CASE StoreStray
  <2>1. OpenCalls' = OpenCalls
    BY <1>8 DEF StoreStray, OpenCalls, InCall, Waiting, Holding
  <2>2. Table!StoreStray
    BY <1>8, <2>1 DEF StoreStray, Table!StoreStray
  <2> QED
    BY <2>2 DEF Table!Next
<1>9. CASE Tick
  <2>1. OpenCalls' = OpenCalls
    BY <1>9, TickEffect, OpenSame
  <2> QED
    BY <1>9, <2>1 DEF Tick, Table!tableVars
<1>u. CASE UNCHANGED collectorVars
  BY <1>u DEF collectorVars, Table!tableVars, OpenCalls, InCall, Waiting, Holding
<1> QED
  BY <1>1, <1>2, <1>3, <1>4, <1>5, <1>6, <1>7, <1>8, <1>9, <1>u DEF CollectorNext,
     Recording

---------------------------------------------------------------------------
(* Main and the sampler.                                                   *)

(* The rows that main and the sampler record.                              *)
LEMMA RowsTyped ==
  /\ \A n \in Nat : <<<<"sample", n>>>> \in Seq(Row) \ {<<>>}
  /\ \A e \in {"vm.started", "finalSample", "vm.stopped"} : <<<<e, 0>>>> \in Seq(Row) \ {<<>>}
<1>1. \A row \in Row : <<row>> \in Seq(Row) \ {<<>>}
  OBVIOUS
<1>2. \A n \in Nat : <<"sample", n>> \in Row
  BY DEF Row
<1>3. \A e \in {"vm.started", "finalSample", "vm.stopped"} : <<e, 0>> \in Row
  BY DEF Row
<1> QED
  BY <1>1, <1>2, <1>3

(* Every step of the stream is one of the collector, or leaves it alone.   *)
LEMMA CollectorTaken ==
  ASSUME StatementsTyped, BatchInv, [StreamNext]_streamVars
  PROVE  [CollectorNext]_collectorVars
<1>c. "main" \in Callers /\ "sampler" \in Callers /\ BatchSize > 0
  BY EventStreamAssumption
<1>b. batch \in Seq(Row) /\ (pc = "last" => batch # <<>>) /\ (Len(batch) = BatchSize => batch # <<>>)
  BY <1>c DEF StatementsTyped, BatchInv
<1>s. samples \in Nat
  BY EventStreamAssumption DEF StatementsTyped
<1> USE DEF mainVars, collectorVars, CollectorNext
<1>1. CASE VmStarted
  BY <1>1, RowsTyped, <1>c DEF VmStarted, Insert, Inserted
<1>2. CASE Running
  BY <1>2 DEF Running, Goto
<1>3. CASE LockSample
  BY <1>3 DEF LockSample, Goto
<1>4. CASE FinalSample
  BY <1>4, RowsTyped, <1>c DEF FinalSample, Insert, Inserted
<1>5. CASE JoinSampler
  BY <1>5 DEF JoinSampler, Goto
<1>6. CASE OpenFile
  BY <1>6 DEF OpenFile, Open, AfterFile
<1>7. CASE ScanLine
  BY <1>7 DEF ScanLine, Lines
<1>8. CASE FullBatch
  BY <1>8, <1>b, <1>c DEF FullBatch, Insert, Inserted
<1>9. CASE EndOfFile
  BY <1>9 DEF EndOfFile, AfterFile, Lines
<1>10. CASE LastBatch
  BY <1>10, <1>b, <1>c DEF LastBatch, Insert, Inserted, AfterFile
<1>11. CASE VmStopped
  BY <1>11, RowsTyped, <1>c DEF VmStopped, Insert, Inserted
<1>12. CASE SamplerLock
  BY <1>12 DEF SamplerLock
<1>13. CASE SamplerBegin
  BY <1>13, RowsTyped, <1>c, <1>s DEF SamplerBegin
<1>14. CASE SamplerTake
  BY <1>14, RowsTyped, <1>c DEF SamplerTake
<1>15. CASE SamplerTicks
  BY <1>15 DEF SamplerTicks
<1>16. CASE SamplerQuits
  BY <1>16 DEF SamplerQuits
<1>17. CASE FirecrackerWrites
  BY <1>17 DEF FirecrackerWrites, Lines
<1>18. CASE CollectorStep
  BY <1>18 DEF CollectorStep
<1>19. CASE Terminated
  BY <1>19 DEF Terminated, streamVars
<1>u. CASE UNCHANGED streamVars
  BY <1>u DEF streamVars
<1> QED
  BY <1>1, <1>2, <1>3, <1>4, <1>5, <1>6, <1>7, <1>8, <1>9, <1>10, <1>11, <1>12, <1>13,
     <1>14, <1>15, <1>16, <1>17, <1>18, <1>19, <1>u DEF StreamNext, Main, SamplerStep

(* A line too many in a file, and a line of it in a batch.                 *)
LEMMA FileGrows ==
  ASSUME NEW f \in [kind: FileKinds, lines: Seq(LineKinds)]
  PROVE  /\ [f EXCEPT !.lines = Append(@, "text")] \in [kind: FileKinds, lines: Seq(LineKinds)]
         /\ [f EXCEPT !.lines = Append(@, "text")].lines = Append(f.lines, "text")
         /\ Len(Append(f.lines, "text")) = Len(f.lines) + 1
         /\ \A i \in 1..Len(f.lines) : Append(f.lines, "text")[i] = f.lines[i]
<1>1. f.lines \in Seq(LineKinds) /\ "text" \in LineKinds
  BY DEF LineKinds
<1> QED
  BY <1>1

LEMMA BatchGrows ==
  ASSUME NEW rows \in Seq(Row), NEW s \in Sources, NEW n \in Nat
  PROVE  /\ Append(rows, <<s, n>>) \in Seq(Row)
         /\ Len(Append(rows, <<s, n>>)) = Len(rows) + 1
         /\ \A i \in 1..Len(rows) : Append(rows, <<s, n>>)[i] = rows[i]
         /\ Append(rows, <<s, n>>)[Len(rows) + 1] = <<s, n>>
<1>1. <<s, n>> \in Row
  BY DEF Row, Sources
<1> QED
  BY <1>1

(* What opening a file leads to.                                           *)
Opens(f) ==
  /\ f \in [kind: FileKinds, lines: Seq(LineKinds)] /\ Len(f.lines) \in Nat
  /\ file' = [file EXCEPT ![src] = f] /\ opened' = [opened EXCEPT ![src] = Len(f.lines)]
  /\ UNCHANGED <<pos, batch, lingering, collectorVars, routine, samplerMu, samples>> /\ pc = "open"
  /\ \/ f.lines = <<>> /\ pc' = AfterFile(src) /\ src' = "metrics"
     \/ pc' = "ended" /\ src' = src
     \/ pc' = "scan" /\ src' = src

LEMMA OpenEffect == OpenFile => \E f : Opens(f)
<1> SUFFICES ASSUME OpenFile PROVE \E f : Opens(f)
  OBVIOUS
<1>1. PICK f \in IF src = "log" THEN Logs ELSE Metrics :
        /\ file' = [file EXCEPT ![src] = f] /\ opened' = [opened EXCEPT ![src] = Len(f.lines)]
        /\ pc' = CASE f.kind = "missing"    -> AfterFile(src)
                   [] f.kind = "unreadable" -> "ended"
                   [] f.kind = "file"       -> "scan"
        /\ src' = IF f.kind = "missing" THEN "metrics" ELSE src
  BY DEF OpenFile, Open
<1>2. f \in [kind: FileKinds, lines: Seq(LineKinds)] /\ (f.kind = "missing" => f.lines = <<>>)
  BY EventStreamAssumption
<1>3. f.kind \in FileKinds /\ f.lines \in Seq(LineKinds) /\ Len(f.lines) \in Nat
  BY <1>2
<1>4. UNCHANGED <<pos, batch, lingering, collectorVars, routine, samplerMu, samples>> /\ pc = "open"
  BY DEF OpenFile, Open
<1> QED
  BY <1>1, <1>2, <1>3, <1>4 DEF Opens, FileKinds

(* Every step keeps the types of the statements, the files and the batch.  *)
LEMMA StatementsTypedStep ==
  ASSUME StatementsTyped, SamplerInv, [StreamNext]_streamVars
  PROVE  StatementsTyped'
<1>o. OpenFile => \E f : Opens(f)
  BY OpenEffect
<1>a. batch \in Seq(Row) /\ src \in Sources /\ pos[src] \in Nat /\ pos[src] + 1 \in Nat
  BY DEF StatementsTyped
<1>b. Append(batch, <<src, pos[src] + 1>>) \in Seq(Row)
  BY <1>a, BatchGrows
<1>f. [file[src] EXCEPT !.lines = Append(@, "text")] \in [kind: FileKinds, lines: Seq(LineKinds)]
  BY FileGrows DEF StatementsTyped
<1> USE EventStreamAssumption DEF mainVars, StatementsTyped, Pcs, Sources, collectorVars
<1>1. CASE VmStarted
  BY <1>1 DEF VmStarted, Insert, Inserted
<1>2. CASE Running
  BY <1>2 DEF Running, Goto
<1>3. CASE LockSample
  BY <1>3 DEF LockSample, Goto
<1>4. CASE FinalSample
  BY <1>4 DEF FinalSample, Insert, Inserted
<1>5. CASE JoinSampler
  BY <1>5 DEF JoinSampler, Goto
<1>6. CASE OpenFile
  <2>1. PICK f : Opens(f)
    BY <1>6, <1>o
  <2>2. file' \in [Sources -> [kind: FileKinds, lines: Seq(LineKinds)]]
    BY <2>1 DEF Opens
  <2>3. opened' \in [Sources -> Nat]
    BY <2>1 DEF Opens
  <2>4. pc' \in Pcs /\ src' \in Sources
    BY <2>1 DEF Opens, AfterFile
  <2>5. UNCHANGED <<pos, batch, lingering, routine, samplerMu, samples>>
    BY <2>1 DEF Opens
  <2> QED
    BY <2>2, <2>3, <2>4, <2>5
<1>7. CASE ScanLine
  BY <1>7, <1>b DEF ScanLine, Lines
<1>8. CASE FullBatch
  BY <1>8, NoRowsTyped DEF FullBatch, Insert, Inserted
<1>9. CASE EndOfFile
  BY <1>9 DEF EndOfFile, AfterFile, Lines
<1>10. CASE LastBatch
  BY <1>10, NoRowsTyped DEF LastBatch, Insert, Inserted, AfterFile
<1>11. CASE VmStopped
  BY <1>11 DEF VmStopped, Insert, Inserted
<1>12. CASE SamplerLock
  BY <1>12 DEF SamplerLock, SamplerInv
<1>13. CASE SamplerBegin
  BY <1>13 DEF SamplerBegin
<1>14. CASE SamplerTake
  BY <1>14 DEF SamplerTake
<1>15. CASE SamplerTicks
  BY <1>15 DEF SamplerTicks
<1>16. CASE SamplerQuits
  BY <1>16 DEF SamplerQuits
<1>17. CASE FirecrackerWrites
  BY <1>17, <1>f DEF FirecrackerWrites, Lines
<1>18. CASE CollectorStep
  BY <1>18 DEF CollectorStep
<1>19. CASE Terminated
  BY <1>19 DEF Terminated, streamVars
<1>u. CASE UNCHANGED streamVars
  BY <1>u DEF streamVars
<1> QED
  BY <1>1, <1>2, <1>3, <1>4, <1>5, <1>6, <1>7, <1>8, <1>9, <1>10, <1>11, <1>12, <1>13,
     <1>14, <1>15, <1>16, <1>17, <1>18, <1>19, <1>u DEF StreamNext, Main, SamplerStep

(* Every step keeps who holds the sampler's mutex.                         *)
LEMMA SamplerInvStep ==
  ASSUME StatementsTyped, SamplerInv, [StreamNext]_streamVars
  PROVE  SamplerInv'
<1>o. OpenFile => pc = "open" /\ pc' # "finalSample" /\ UNCHANGED <<routine, samplerMu, samples>>
  BY OpenEffect DEF Opens, AfterFile
<1> USE EventStreamAssumption DEF mainVars, StatementsTyped, Pcs, SamplerInv
<1>1. CASE VmStarted
  BY <1>1 DEF VmStarted, Insert, Inserted
<1>2. CASE Running
  BY <1>2 DEF Running, Goto
<1>3. CASE LockSample
  BY <1>3 DEF LockSample, Goto
<1>4. CASE FinalSample
  BY <1>4 DEF FinalSample, Insert, Inserted
<1>5. CASE JoinSampler
  BY <1>5 DEF JoinSampler, Goto
<1>6. CASE OpenFile
  BY <1>6, <1>o
<1>7. CASE ScanLine
  BY <1>7 DEF ScanLine, Lines
<1>8. CASE FullBatch
  BY <1>8 DEF FullBatch, Insert, Inserted
<1>9. CASE EndOfFile
  BY <1>9 DEF EndOfFile, AfterFile, Lines
<1>10. CASE LastBatch
  BY <1>10 DEF LastBatch, Insert, Inserted, AfterFile
<1>11. CASE VmStopped
  BY <1>11 DEF VmStopped, Insert, Inserted
<1>12. CASE SamplerLock
  BY <1>12 DEF SamplerLock
<1>13. CASE SamplerBegin
  BY <1>13 DEF SamplerBegin
<1>14. CASE SamplerTake
  BY <1>14 DEF SamplerTake
<1>15. CASE SamplerTicks
  BY <1>15 DEF SamplerTicks
<1>16. CASE SamplerQuits
  BY <1>16 DEF SamplerQuits
<1>17. CASE FirecrackerWrites
  BY <1>17 DEF FirecrackerWrites, Lines
<1>18. CASE CollectorStep
  BY <1>18 DEF CollectorStep
<1>19. CASE Terminated
  BY <1>19 DEF Terminated, streamVars
<1>u. CASE UNCHANGED streamVars
  BY <1>u DEF streamVars
<1> QED
  BY <1>1, <1>2, <1>3, <1>4, <1>5, <1>6, <1>7, <1>8, <1>9, <1>10, <1>11, <1>12, <1>13,
     <1>14, <1>15, <1>16, <1>17, <1>18, <1>19, <1>u DEF StreamNext, Main, SamplerStep

(* Every step keeps the size of the batch, and when there is one.          *)
LEMMA BatchStep ==
  ASSUME StatementsTyped, BatchInv, [StreamNext]_streamVars
  PROVE  BatchInv'
<1>o. OpenFile => pc = "open" /\ pc' \in {"open", "vmStopped", "ended", "scan"} /\ batch' = batch
  BY OpenEffect DEF Opens, AfterFile
<1>e. Len(<<>>) = 0 /\ 0 <= BatchSize
  BY EventStreamAssumption
<1>b. /\ batch \in Seq(Row) /\ Len(batch) \in Nat /\ BatchSize \in Nat
      /\ Len(Append(batch, <<src, pos[src] + 1>>)) = Len(batch) + 1
      /\ \A k \in DOMAIN Append(batch, <<src, pos[src] + 1>>) :
           Append(batch, <<src, pos[src] + 1>>)[k][1] \in {src} \cup {batch[i][1] : i \in DOMAIN batch}
  BY BatchGrows, EventStreamAssumption DEF StatementsTyped
<1> USE DEF mainVars, StatementsTyped, Pcs, Sources, BatchInv
<1>1. CASE VmStarted
  BY <1>1 DEF VmStarted, Insert, Inserted
<1>2. CASE Running
  BY <1>2 DEF Running, Goto
<1>3. CASE LockSample
  BY <1>3 DEF LockSample, Goto
<1>4. CASE FinalSample
  BY <1>4 DEF FinalSample, Insert, Inserted
<1>5. CASE JoinSampler
  BY <1>5 DEF JoinSampler, Goto
<1>6. CASE OpenFile
  BY <1>6, <1>o
<1>7. CASE ScanLine
  <2>1. /\ Len(batch) < BatchSize /\ pc = "scan" /\ pc' \in {"scan", "ended"}
        /\ \/ batch' = batch
           \/ batch' = Append(batch, <<src, pos[src] + 1>>)
    BY <1>7 DEF ScanLine
  <2>2. CASE batch' = batch
    BY <2>1, <2>2
  <2>3. CASE batch' = Append(batch, <<src, pos[src] + 1>>)
    <3>1. Len(batch') <= BatchSize
      BY <1>b, <2>1, <2>3
    <3>2. \A k \in DOMAIN batch' : batch'[k][1] \in Sources
      BY <1>b, <2>3
    <3> QED
      BY <2>1, <3>1, <3>2
  <2> QED
    BY <2>1, <2>2, <2>3
<1>8. CASE FullBatch
  <2>1. CASE batch' = batch /\ pc' = pc
    BY <2>1
  <2>2. CASE batch' = <<>> /\ pc' \in {"scan", "ended"}
    BY <2>2, <1>e
  <2> QED
    BY <1>8, <2>1, <2>2 DEF FullBatch, Insert, Inserted
<1>9. CASE EndOfFile
  BY <1>9 DEF EndOfFile, AfterFile, Lines
<1>10. CASE LastBatch
  BY <1>10, <1>e DEF LastBatch, Insert, Inserted, AfterFile
<1>11. CASE VmStopped
  BY <1>11 DEF VmStopped, Insert, Inserted
<1>12. CASE SamplerLock
  BY <1>12 DEF SamplerLock
<1>13. CASE SamplerBegin
  BY <1>13 DEF SamplerBegin
<1>14. CASE SamplerTake
  BY <1>14 DEF SamplerTake
<1>15. CASE SamplerTicks
  BY <1>15 DEF SamplerTicks
<1>16. CASE SamplerQuits
  BY <1>16 DEF SamplerQuits
<1>17. CASE FirecrackerWrites
  BY <1>17 DEF FirecrackerWrites, Lines
<1>18. CASE CollectorStep
  BY <1>18 DEF CollectorStep
<1>19. CASE Terminated
  BY <1>19 DEF Terminated, streamVars
<1>u. CASE UNCHANGED streamVars
  BY <1>u DEF streamVars
<1> QED
  BY <1>1, <1>2, <1>3, <1>4, <1>5, <1>6, <1>7, <1>8, <1>9, <1>10, <1>11, <1>12, <1>13,
     <1>14, <1>15, <1>16, <1>17, <1>18, <1>19, <1>u DEF StreamNext, Main, SamplerStep

(* Every step keeps which file main is at, and how far.                    *)
LEMMA FileStep ==
  ASSUME StatementsTyped, FileInv, [StreamNext]_streamVars
  PROVE  FileInv'
<1>a. \A s \in Sources : /\ file[s].lines \in Seq(LineKinds) /\ Len(file[s].lines) \in Nat
                         /\ pos[s] \in Nat /\ opened[s] \in Nat
  BY DEF StatementsTyped
<1>b. batch = <<>> <=> Len(batch) = 0
  BY DEF StatementsTyped
<1> USE DEF mainVars, StatementsTyped, FileInv, BeforeFiles, Sources, Pcs
<1>1. CASE VmStarted
  BY <1>1 DEF VmStarted, Insert, Inserted
<1>2. CASE Running
  BY <1>2 DEF Running, Goto
<1>3. CASE LockSample
  BY <1>3 DEF LockSample, Goto
<1>4. CASE FinalSample
  BY <1>4 DEF FinalSample, Insert, Inserted
<1>5. CASE JoinSampler
  BY <1>5 DEF JoinSampler, Goto
<1>6. CASE OpenFile
  <2>1. PICK f : Opens(f)
    BY <1>6, OpenEffect
  <2>2. pos' = pos /\ pc = "open" /\ pos[src] = 0 /\ src \in Sources
    BY <2>1 DEF Opens
  <2>3. \A s \in Sources : IF s = src
          THEN /\ file'[s] = f /\ opened'[s] = Len(f.lines) /\ Len(f.lines) \in Nat
               /\ pos'[s] = 0
          ELSE file'[s] = file[s] /\ opened'[s] = opened[s] /\ pos'[s] = pos[s]
    BY <2>1, <2>2 DEF Opens
  <2>4. \A s \in Sources : pos'[s] <= Len(file'[s].lines) /\ opened'[s] <= Len(file'[s].lines)
    BY <2>3, <1>a
  <2>5. \/ f.lines = <<>> /\ pc' = AfterFile(src) /\ src' = "metrics"
        \/ pc' = "ended" /\ src' = src
        \/ pc' = "scan" /\ src' = src
    BY <2>1 DEF Opens
  <2>6. f.lines = <<>> => Len(f.lines) = 0
    OBVIOUS
  <2>7. src' = "metrics" /\ pc' # "ended" => opened'["log"] <= pos'["log"]
    BY <2>2, <2>3, <2>5, <2>6
  <2>8. pc' = "vmStopped" => src' = "metrics" /\ opened'["metrics"] <= pos'["metrics"]
    BY <2>2, <2>3, <2>5, <2>6 DEF AfterFile
  <2>9. pc' \notin BeforeFiles /\ pc' # "last" /\ (pc' = "open" => pos'[src'] = 0)
    BY <2>2, <2>3, <2>5 DEF AfterFile
  <2>10. src' = "log" => pos'["metrics"] = 0
    BY <2>2, <2>3, <2>5
  <2> QED
    BY <2>4, <2>7, <2>8, <2>9, <2>10
<1>7. CASE ScanLine
  BY <1>7 DEF ScanLine, Lines
<1>8. CASE FullBatch
  BY <1>8 DEF FullBatch, Insert, Inserted
<1>9. CASE EndOfFile
  BY <1>9 DEF EndOfFile, AfterFile, Lines
<1>10. CASE LastBatch
  BY <1>10 DEF LastBatch, Insert, Inserted, AfterFile
<1>11. CASE VmStopped
  BY <1>11 DEF VmStopped, Insert, Inserted
<1>12. CASE SamplerLock
  BY <1>12 DEF SamplerLock
<1>13. CASE SamplerBegin
  BY <1>13 DEF SamplerBegin
<1>14. CASE SamplerTake
  BY <1>14 DEF SamplerTake
<1>15. CASE SamplerTicks
  BY <1>15 DEF SamplerTicks
<1>16. CASE SamplerQuits
  BY <1>16 DEF SamplerQuits
<1>17. CASE FirecrackerWrites
  <2>1. /\ pc' = pc /\ pos' = pos /\ opened' = opened /\ src' = src
        /\ pc \in {"scan", "last"}
    BY <1>17 DEF FirecrackerWrites
  <2>2. \A s \in Sources : Len(file[s].lines) <= Len(file'[s].lines)
    <3>1. \A s \in Sources \ {src} : file'[s] = file[s]
      BY <1>17 DEF FirecrackerWrites
    <3>2. file'[src] = [file[src] EXCEPT !.lines = Append(@, "text")]
      BY <1>17 DEF FirecrackerWrites
    <3>3. Len(file'[src].lines) = Len(file[src].lines) + 1
      BY <3>2, FileGrows DEF StatementsTyped
    <3> QED
      BY <3>1, <3>3, <1>a
  <2>3. \A s \in Sources : Len(file'[s].lines) \in Nat
    <3>1. file'[src] \in [kind: FileKinds, lines: Seq(LineKinds)]
      BY <1>17, FileGrows DEF FirecrackerWrites
    <3>2. \A s \in Sources \ {src} : file'[s] = file[s]
      BY <1>17 DEF FirecrackerWrites
    <3> QED
      BY <3>1, <3>2, <1>a
  <2> QED
    BY <2>1, <2>2, <2>3, <1>a
<1>18. CASE CollectorStep
  BY <1>18 DEF CollectorStep
<1>19. CASE Terminated
  BY <1>19 DEF Terminated, streamVars
<1>u. CASE UNCHANGED streamVars
  BY <1>u DEF streamVars
<1> QED
  BY <1>1, <1>2, <1>3, <1>4, <1>5, <1>6, <1>7, <1>8, <1>9, <1>10, <1>11, <1>12, <1>13,
     <1>14, <1>15, <1>16, <1>17, <1>18, <1>19, <1>u DEF StreamNext, Main, SamplerStep

---------------------------------------------------------------------------
(* The rows.  What a step may do to the rows of the table, to those that   *)
(* are astray and to those main is about to record.                        *)

FilesKept == UNCHANGED <<batch, pos, src, file, opened>>
MainKept ==
  /\ call'["main"].rows = call["main"].rows /\ call'["main"].stored = call["main"].stored
  /\ call'["main"].at = call["main"].at \/ (InCall("main") /\ InCall("main")')

Quiet ==
  /\ UNCHANGED <<table, strays>> /\ FilesKept /\ MainKept
  /\ \/ pc' = pc
     \/ /\ pc \in {"running", "lockSample", "join"}
        /\ pc' \in {"lockSample", "finalSample", "join", "open"}

MainBegins ==
  /\ UNCHANGED <<table, strays, pc>> /\ FilesKept /\ call["main"].at = "idle"
  /\ pc \in InsertPcs /\ (pc = "scan" => Len(batch) = BatchSize)
  /\ InCall("main")' /\ call'["main"].rows = MainRows /\ ~call'["main"].stored

MainTakes ==
  /\ UNCHANGED <<table, strays, pos, file, opened>> /\ call'["main"].at = "idle"
  /\ call["main"].at \in {"ok", "failed"}
  /\ \/ pc = "vmStarted" /\ pc' = (IF call["main"].at = "ok" THEN "running" ELSE "ended")
        /\ UNCHANGED <<batch, src>>
     \/ pc = "finalSample" /\ pc' = "join" /\ UNCHANGED <<batch, src>>
     \/ pc = "scan" /\ pc' = (IF call["main"].at = "ok" THEN "scan" ELSE "ended")
        /\ batch' = <<>> /\ UNCHANGED src
     \/ pc = "last" /\ pc' = (IF call["main"].at = "ok" THEN AfterFile(src) ELSE "ended")
        /\ batch' = <<>> /\ src' = "metrics"
     \/ pc = "vmStopped" /\ pc' = "ended" /\ UNCHANGED <<batch, src>>

Opened == \E f : Opens(f)

MainStores ==
  /\ table' = table \o call["main"].rows /\ UNCHANGED <<strays, pc>> /\ FilesKept
  /\ InCall("main") /\ ~call["main"].stored
  /\ InCall("main")' /\ call'["main"].rows = call["main"].rows /\ call'["main"].stored

SamplerStores ==
  /\ table' = table \o call["sampler"].rows /\ UNCHANGED <<strays, pc>> /\ FilesKept
  /\ InCall("sampler") /\ MainKept

StrayStored ==
  /\ \E rows \in strays : table' = table \o rows /\ strays' = strays \ {rows}
  /\ UNCHANGED pc /\ FilesKept /\ MainKept

MainAnswered ==
  /\ UNCHANGED <<table, strays, pc>> /\ FilesKept
  /\ InCall("main") /\ call["main"].stored /\ call'["main"].at = "ok"

MainFails ==
  /\ UNCHANGED <<table, pc>> /\ FilesKept /\ InCall("main") /\ call'["main"].at = "failed"
  /\ \/ UNCHANGED strays
     \/ ~call["main"].stored /\ strays' = strays \cup {call["main"].rows}

SamplerFails ==
  /\ UNCHANGED <<table, pc>> /\ FilesKept /\ InCall("sampler") /\ MainKept
  /\ UNCHANGED strays \/ strays' = strays \cup {call["sampler"].rows}

(* The steps of main that touch its files leave the collector alone.       *)
Scans  == ScanLine /\ UNCHANGED <<table, strays, call>>
Ends   == EndOfFile /\ UNCHANGED <<table, strays, call>>
Writes == FirecrackerWrites /\ UNCHANGED <<table, strays, call>>

RowNext ==
  \/ Quiet \/ MainBegins \/ MainTakes \/ Opened \/ Scans \/ Ends \/ Writes
  \/ MainStores \/ SamplerStores \/ StrayStored \/ MainAnswered \/ MainFails \/ SamplerFails

(* A step of the collector for one of the two callers.                     *)
LEMMA CollectorRows ==
  ASSUME CallsTyped, CollectorStep PROVE RowNext
<1>m. "main" \in Callers /\ "sampler" \in Callers /\ Callers = {"main", "sampler"}
  BY EventStreamAssumption
<1>f. FilesKept /\ UNCHANGED pc
  BY DEF CollectorStep, FilesKept, mainVars
<1>1. ASSUME Recording("main") PROVE RowNext
  <2>1. CASE Lock("main")
    BY <1>m, <1>f, <2>1 DEF Lock, MayLock, CallsTyped, CallType, RowNext, Quiet, MainKept,
       InCall, Waiting,
       Holding
  <2>2. CASE Send("main")
    BY <1>m, <1>f, <2>2 DEF Send, CallsTyped, CallType, RowNext, Quiet, MainKept, InCall,
       Waiting, Holding
  <2>3. CASE Store("main")
    BY <1>m, <1>f, <2>3 DEF Store, CallsTyped, CallType, RowNext, MainStores, InCall, Waiting,
       Holding
  <2>4. CASE Answer("main")
    BY <1>m, <1>f, <2>4 DEF Answer, Returns, Call, CallsTyped, CallType, RowNext, MainAnswered,
       InCall,
       Waiting, Holding
  <2>5. CASE Fail("main")
    <3>1. UNCHANGED table /\ InCall("main") /\ call'["main"].at = "failed"
      BY <1>m, <2>5 DEF Fail, Returns, Call, CallsTyped, InCall
    <3>2. \/ UNCHANGED strays
          \/ ~call["main"].stored /\ strays' = strays \cup {call["main"].rows}
      BY <2>5 DEF Fail
    <3> QED
      BY <1>f, <3>1, <3>2 DEF RowNext, MainFails
  <2> QED
    BY <1>1, <2>1, <2>2, <2>3, <2>4, <2>5 DEF Recording
<1>2. ASSUME Recording("sampler") PROVE RowNext
  <2>k. call'["main"] = call["main"]
    BY <1>m, <1>2 DEF Recording, Lock, Send, Store, Answer, Fail, Returns, CallsTyped
  <2>m. MainKept
    BY <2>k DEF MainKept
  <2>1. CASE UNCHANGED <<table, strays>>
    BY <1>f, <2>1, <2>m DEF RowNext, Quiet
  <2>2. CASE Store("sampler")
    BY <1>m, <1>f, <2>2, <2>m DEF Store, RowNext, SamplerStores, InCall, Waiting, Holding
  <2>3. CASE Fail("sampler")
    <3>1. UNCHANGED table /\ InCall("sampler")
      BY <1>m, <2>3 DEF Fail, InCall
    <3>2. UNCHANGED strays \/ strays' = strays \cup {call["sampler"].rows}
      BY <2>3 DEF Fail
    <3> QED
      BY <1>f, <2>m, <3>1, <3>2 DEF RowNext, SamplerFails
  <2> QED
    BY <1>2, <2>1, <2>2, <2>3 DEF Recording, Lock, Send, Answer
<1>3. ASSUME StoreStray PROVE RowNext
  <2>1. MainKept
    BY <1>3 DEF StoreStray, MainKept
  <2> QED
    BY <1>3, <1>f, <2>1 DEF StoreStray, RowNext, StrayStored
<1>4. ASSUME Tick PROVE RowNext
  <2>1. MainKept
    BY <1>4, <1>m, TickEffect DEF MainKept
  <2> QED
    BY <1>4, <1>f, <2>1 DEF Tick, RowNext, Quiet
<1> QED
  BY <1>m, <1>1, <1>2, <1>3, <1>4 DEF CollectorStep

(* Main calls and returns.                                                 *)
LEMMA InsertRows ==
  ASSUME CallsTyped, NEW at \in InsertPcs, Insert(at, MainRows), FilesKept,
         at = "scan" => Len(batch) = BatchSize
  PROVE  MainBegins
<1>m. "main" \in Callers
  BY EventStreamAssumption
<1>1. UNCHANGED <<table, strays, pc>> /\ pc = at /\ call["main"].at = "idle"
  BY DEF Insert, Begin
<1>2. call'["main"] = Call("lock", MainRows)
  BY <1>m DEF Insert, Begin, CallsTyped
<1>3. call'["main"].at = "lock" /\ call'["main"].rows = MainRows /\ call'["main"].stored = FALSE
  BY <1>2 DEF Call
<1> QED
  BY <1>1, <1>3 DEF MainBegins, InCall, Waiting

LEMMA InsertedRows ==
  ASSUME CallsTyped, NEW at, NEW ok, NEW failed, Inserted(at, ok, failed)
  PROVE  /\ pc = at /\ pc' = IF call["main"].at = "ok" THEN ok ELSE failed
         /\ UNCHANGED <<table, strays>> /\ call'["main"].at = "idle"
         /\ call["main"].at \in {"ok", "failed"}
<1>m. "main" \in Callers
  BY EventStreamAssumption
<1>1. call'["main"] = Call("idle", <<>>)
  BY <1>m DEF Inserted, Take, CallsTyped
<1>2. call'["main"].at = "idle"
  BY <1>1 DEF Call
<1> QED
  BY <1>2 DEF Inserted, Take

(* Every step of the stream is one of these.                               *)
LEMMA RowStep ==
  ASSUME CallsTyped, StatementsTyped, [StreamNext]_streamVars
  PROVE  RowNext
<1>m. "main" # "sampler" /\ "main" \in Callers
  BY EventStreamAssumption
<1>1. CASE VmStarted
  <2>1. ASSUME Insert("vmStarted", <<<<"vm.started", 0>>>>) PROVE RowNext
    <3>1. <<<<"vm.started", 0>>>> = MainRows
      BY <2>1 DEF Insert, MainRows
    <3>2. FilesKept /\ "vmStarted" \in InsertPcs
      BY <2>1 DEF Insert, mainVars, FilesKept, InsertPcs
    <3>3. MainBegins
      BY <2>1, <3>1, <3>2, InsertRows
    <3> QED
      BY <3>3 DEF RowNext
  <2>2. ASSUME Inserted("vmStarted", "running", "ended"), UNCHANGED <<pos, file, opened>>,
               batch' = batch, src' = src
        PROVE  RowNext
    <3>1. MainTakes
      BY <2>2, InsertedRows DEF MainTakes
    <3> QED
      BY <3>1 DEF RowNext
  <2> QED
    BY <1>1, <2>1, <2>2 DEF VmStarted, mainVars
<1>2. CASE Running
  <2>1. UNCHANGED <<table, strays>> /\ FilesKept /\ MainKept
    BY <1>2, <1>m DEF Running, Goto, FilesKept, MainKept, mainVars, collectorVars
  <2> QED
    BY <1>2, <2>1 DEF Running, Goto, RowNext, Quiet, mainVars
<1>3. CASE LockSample
  <2>1. UNCHANGED <<table, strays>> /\ FilesKept /\ MainKept
    BY <1>3, <1>m DEF LockSample, Goto, FilesKept, MainKept, mainVars, collectorVars
  <2> QED
    BY <1>3, <2>1 DEF LockSample, Goto, RowNext, Quiet, mainVars
<1>4. CASE FinalSample
  <2>1. ASSUME Insert("finalSample", <<<<"finalSample", 0>>>>) PROVE RowNext
    <3>1. <<<<"finalSample", 0>>>> = MainRows
      BY <2>1 DEF Insert, MainRows
    <3>2. FilesKept /\ "finalSample" \in InsertPcs
      BY <2>1 DEF Insert, mainVars, FilesKept, InsertPcs
    <3>3. MainBegins
      BY <2>1, <3>1, <3>2, InsertRows
    <3> QED
      BY <3>3 DEF RowNext
  <2>2. ASSUME Inserted("finalSample", "join", "join"), UNCHANGED <<pos, file, opened>>,
               batch' = batch, src' = src
        PROVE  RowNext
    <3>1. MainTakes
      BY <2>2, InsertedRows DEF MainTakes
    <3> QED
      BY <3>1 DEF RowNext
  <2> QED
    BY <1>4, <2>1, <2>2 DEF FinalSample, mainVars
<1>5. CASE JoinSampler
  <2>1. UNCHANGED <<table, strays>> /\ FilesKept /\ MainKept
    BY <1>5, <1>m DEF JoinSampler, Goto, FilesKept, MainKept, mainVars, collectorVars
  <2> QED
    BY <1>5, <2>1 DEF JoinSampler, Goto, RowNext, Quiet, mainVars
<1>6. CASE OpenFile
  BY <1>6, OpenEffect DEF Opened, RowNext
<1>7. CASE ScanLine
  BY <1>7 DEF ScanLine, Scans, collectorVars, RowNext
<1>8. CASE FullBatch
  <2>1. ASSUME Insert("scan", batch), Len(batch) = BatchSize PROVE RowNext
    <3>1. batch = MainRows
      BY <2>1 DEF Insert, MainRows
    <3>2. FilesKept /\ "scan" \in InsertPcs
      BY <2>1 DEF Insert, mainVars, FilesKept, InsertPcs
    <3>3. MainBegins
      BY <2>1, <3>1, <3>2, InsertRows
    <3> QED
      BY <3>3 DEF RowNext
  <2>2. ASSUME Inserted("scan", "scan", "ended"), UNCHANGED <<pos, file, opened>>,
               batch' = <<>>, src' = src
        PROVE  RowNext
    <3>1. MainTakes
      BY <2>2, InsertedRows DEF MainTakes
    <3> QED
      BY <3>1 DEF RowNext
  <2> QED
    BY <1>8, <2>1, <2>2 DEF FullBatch, mainVars
<1>9. CASE EndOfFile
  BY <1>9 DEF EndOfFile, Ends, collectorVars, RowNext
<1>10. CASE LastBatch
  <2>1. ASSUME Insert("last", batch) PROVE RowNext
    <3>1. batch = MainRows
      BY <2>1 DEF Insert, MainRows
    <3>2. FilesKept /\ "last" \in InsertPcs
      BY <2>1 DEF Insert, mainVars, FilesKept, InsertPcs
    <3>3. MainBegins
      BY <2>1, <3>1, <3>2, InsertRows
    <3> QED
      BY <3>3 DEF RowNext
  <2>2. ASSUME Inserted("last", AfterFile(src), "ended"), UNCHANGED <<pos, file, opened>>,
               batch' = <<>>, src' = "metrics"
        PROVE  RowNext
    <3>1. MainTakes
      BY <2>2, InsertedRows DEF MainTakes
    <3> QED
      BY <3>1 DEF RowNext
  <2> QED
    BY <1>10, <2>1, <2>2 DEF LastBatch, mainVars
<1>11. CASE VmStopped
  <2>1. ASSUME Insert("vmStopped", <<<<"vm.stopped", 0>>>>) PROVE RowNext
    <3>1. <<<<"vm.stopped", 0>>>> = MainRows
      BY <2>1 DEF Insert, MainRows
    <3>2. FilesKept /\ "vmStopped" \in InsertPcs
      BY <2>1 DEF Insert, mainVars, FilesKept, InsertPcs
    <3>3. MainBegins
      BY <2>1, <3>1, <3>2, InsertRows
    <3> QED
      BY <3>3 DEF RowNext
  <2>2. ASSUME Inserted("vmStopped", "ended", "ended"), UNCHANGED <<pos, file, opened>>,
               batch' = batch, src' = src
        PROVE  RowNext
    <3>1. MainTakes
      BY <2>2, InsertedRows DEF MainTakes
    <3> QED
      BY <3>1 DEF RowNext
  <2> QED
    BY <1>11, <2>1, <2>2 DEF VmStopped, mainVars
<1>12. CASE SamplerLock
  <2>1. UNCHANGED <<table, strays>> /\ FilesKept /\ MainKept
    BY <1>12, <1>m DEF SamplerLock, FilesKept, MainKept, mainVars, collectorVars
  <2> QED
    BY <1>12, <2>1 DEF SamplerLock, RowNext, Quiet, mainVars
<1>13. CASE SamplerBegin
  <2>1. UNCHANGED <<table, strays>> /\ FilesKept /\ MainKept
    BY <1>13, <1>m DEF SamplerBegin, Begin, CallsTyped, FilesKept, MainKept, mainVars,
       collectorVars
  <2> QED
    BY <1>13, <2>1 DEF SamplerBegin, Begin, CallsTyped, RowNext, Quiet, mainVars
<1>14. CASE SamplerTake
  <2>1. UNCHANGED <<table, strays>> /\ FilesKept /\ MainKept
    BY <1>14, <1>m DEF SamplerTake, Take, CallsTyped, FilesKept, MainKept, mainVars,
       collectorVars
  <2> QED
    BY <1>14, <2>1 DEF SamplerTake, Take, CallsTyped, RowNext, Quiet, mainVars
<1>15. CASE SamplerTicks
  <2>1. UNCHANGED <<table, strays>> /\ FilesKept /\ MainKept
    BY <1>15, <1>m DEF SamplerTicks, FilesKept, MainKept, mainVars, collectorVars
  <2> QED
    BY <1>15, <2>1 DEF SamplerTicks, RowNext, Quiet, mainVars
<1>16. CASE SamplerQuits
  <2>1. UNCHANGED <<table, strays>> /\ FilesKept /\ MainKept
    BY <1>16, <1>m DEF SamplerQuits, FilesKept, MainKept, mainVars, collectorVars
  <2> QED
    BY <1>16, <2>1 DEF SamplerQuits, RowNext, Quiet, mainVars
<1>17. CASE FirecrackerWrites
  BY <1>17 DEF FirecrackerWrites, Writes, collectorVars, RowNext
<1>18. CASE CollectorStep
  BY <1>18, CollectorRows
<1>19. CASE Terminated
  <2>1. UNCHANGED <<table, strays>> /\ FilesKept /\ MainKept
    BY <1>19, <1>m DEF Terminated, streamVars, FilesKept, MainKept, mainVars, collectorVars
  <2> QED
    BY <1>19, <2>1 DEF Terminated, streamVars, RowNext, Quiet, mainVars
<1>u. CASE UNCHANGED streamVars
  BY <1>u DEF streamVars, collectorVars, mainVars, RowNext, Quiet, FilesKept, MainKept
<1> QED
  BY <1>1, <1>2, <1>3, <1>4, <1>5, <1>6, <1>7, <1>8, <1>9, <1>10, <1>11, <1>12, <1>13,
     <1>14, <1>15, <1>16, <1>17, <1>18, <1>19, <1>u DEF StreamNext, Main, SamplerStep

(* The sampler records samples.                                            *)
LEMMA SamplerCallStep ==
  ASSUME CallsTyped, SamplerCallInv, [StreamNext]_streamVars
  PROVE  SamplerCallInv'
<1>m. "main" # "sampler" /\ "main" \in Callers /\ "sampler" \in Callers
  BY EventStreamAssumption
<1> USE DEF mainVars, SamplerCallInv, InCall, Waiting, Holding, CallsTyped, CallType,
   collectorVars
<1>1. CASE VmStarted
  BY <1>1, <1>m DEF VmStarted, Insert, Inserted, Begin, Take, Call
<1>2. CASE Running
  BY <1>2 DEF Running, Goto
<1>3. CASE LockSample
  BY <1>3 DEF LockSample, Goto
<1>4. CASE FinalSample
  BY <1>4, <1>m DEF FinalSample, Insert, Inserted, Begin, Take, Call
<1>5. CASE JoinSampler
  BY <1>5 DEF JoinSampler, Goto
<1>6. CASE OpenFile
  BY <1>6 DEF OpenFile
<1>7. CASE ScanLine
  BY <1>7 DEF ScanLine, Lines
<1>8. CASE FullBatch
  BY <1>8, <1>m DEF FullBatch, Insert, Inserted, Begin, Take, Call
<1>9. CASE EndOfFile
  BY <1>9 DEF EndOfFile, AfterFile, Lines
<1>10. CASE LastBatch
  BY <1>10, <1>m DEF LastBatch, Insert, Inserted, AfterFile, Begin, Take, Call
<1>11. CASE VmStopped
  BY <1>11, <1>m DEF VmStopped, Insert, Inserted, Begin, Take, Call
<1>12. CASE SamplerLock
  BY <1>12 DEF SamplerLock
<1>13. CASE SamplerBegin
  BY <1>13, <1>m DEF SamplerBegin, Begin, Take, Call
<1>14. CASE SamplerTake
  BY <1>14, <1>m DEF SamplerTake, Begin, Take, Call
<1>15. CASE SamplerTicks
  BY <1>15 DEF SamplerTicks
<1>16. CASE SamplerQuits
  BY <1>16 DEF SamplerQuits
<1>17. CASE FirecrackerWrites
  BY <1>17 DEF FirecrackerWrites, Lines
<1>18. CASE CollectorStep
  <2>1. InCall("sampler")' => InCall("sampler") /\ call'["sampler"].rows = call["sampler"].rows
    <3>1. ASSUME NEW c \in Callers, Recording(c)
          PROVE  InCall("sampler")' => InCall("sampler") /\ call'["sampler"].rows = call["sampler"].rows
      <4>0. CASE Lock(c)
        <5>1. call'["sampler"] = IF c = "sampler" THEN [call["sampler"] EXCEPT !.at = "dial"]
                                 ELSE call["sampler"]
          BY <4>0, <1>m DEF Lock
        <5>2. c = "sampler" => call["sampler"].at = "lock"
          BY <4>0 DEF Lock, MayLock
        <5> QED
          BY <5>1, <5>2, <1>m
      <4>1. CASE Send(c)
        <5>1. call'["sampler"] = IF c = "sampler"
                THEN [call["sampler"] EXCEPT !.at = "sent", !.since = 0] ELSE call["sampler"]
          BY <4>1, <1>m DEF Send
        <5>2. c = "sampler" => call["sampler"].at = "dial"
          BY <4>1 DEF Send
        <5> QED
          BY <5>1, <5>2, <1>m
      <4>4. CASE Store(c)
        <5>1. call'["sampler"] = IF c = "sampler" THEN [call["sampler"] EXCEPT !.stored = TRUE]
                                 ELSE call["sampler"]
          BY <4>4, <1>m DEF Store
        <5>2. c = "sampler" => call["sampler"].at = "sent"
          BY <4>4 DEF Store
        <5> QED
          BY <5>1, <5>2, <1>m
      <4>2. CASE Answer(c)
        BY <4>2, <1>m DEF Answer, Returns, Call
      <4>3. CASE Fail(c)
        BY <4>3, <1>m DEF Fail, Returns, Call
      <4> QED
        BY <3>1, <4>0, <4>1, <4>2, <4>3, <4>4 DEF Recording
    <3>2. CASE Tick
      BY <3>2, <1>m DEF Tick
    <3> QED
      BY <1>18, <3>1, <3>2 DEF CollectorStep, StoreStray
  <2> QED
    BY <2>1
<1>19. CASE Terminated
  BY <1>19 DEF Terminated, streamVars
<1>u. CASE UNCHANGED streamVars
  BY <1>u DEF streamVars
<1> QED
  BY <1>1, <1>2, <1>3, <1>4, <1>5, <1>6, <1>7, <1>8, <1>9, <1>10, <1>11, <1>12, <1>13,
     <1>14, <1>15, <1>16, <1>17, <1>18, <1>19, <1>u DEF StreamNext, Main, SamplerStep

(* Main waits for the call it made, with the rows of its statement.        *)
LEMMA MainCallStep ==
  ASSUME MainCallInv, RowNext
  PROVE  MainCallInv'
<1> USE DEF FilesKept, MainKept, InCall, Waiting, Holding, MainCallInv, InsertPcs,
   MainRows
<1>1. CASE Quiet
  BY <1>1 DEF Quiet
<1>2. CASE MainBegins
  BY <1>2 DEF MainBegins
<1>3. CASE MainTakes
  BY <1>3 DEF MainTakes
<1>4. CASE Opened
  BY <1>4 DEF Opened, Opens, collectorVars
<1>5. CASE Scans
  BY <1>5 DEF Scans, ScanLine
<1>6. CASE Ends
  BY <1>6 DEF Ends, EndOfFile
<1>7. CASE Writes
  BY <1>7 DEF Writes, FirecrackerWrites
<1>8. CASE MainStores
  BY <1>8 DEF MainStores
<1>9. CASE SamplerStores
  BY <1>9 DEF SamplerStores
<1>10. CASE StrayStored
  BY <1>10 DEF StrayStored
<1>11. CASE MainAnswered
  BY <1>11 DEF MainAnswered
<1>12. CASE MainFails
  BY <1>12 DEF MainFails
<1>13. CASE SamplerFails
  BY <1>13 DEF SamplerFails
<1> QED
  BY <1>1, <1>2, <1>3, <1>4, <1>5, <1>6, <1>7, <1>8, <1>9, <1>10, <1>11, <1>12, <1>13 DEF
     RowNext

---------------------------------------------------------------------------
(* Rows, as sequences and as sets.                                         *)

LEMMA NoRows == RowsOf(<<>>) = {}
BY DEF RowsOf

LEMMA OneRow == \A row : RowsOf(<<row>>) = {row}
BY DEF RowsOf

LEMMA Joined ==
  ASSUME NEW p \in Seq(Row), NEW q \in Seq(Row)
  PROVE  /\ Len(p \o q) = Len(p) + Len(q) /\ DOMAIN p = 1..Len(p) /\ DOMAIN q = 1..Len(q)
         /\ DOMAIN (p \o q) = 1..(Len(p) + Len(q)) /\ Len(p) \in Nat /\ Len(q) \in Nat
         /\ \A i \in 1..Len(p) : (p \o q)[i] = p[i]
         /\ \A k \in 1..Len(q) : (p \o q)[Len(p) + k] = q[k]
         /\ \A i \in 1..(Len(p) + Len(q)) :
              \/ i \in 1..Len(p)
              \/ \E k \in 1..Len(q) : i = Len(p) + k
<1>1. Len(p) \in Nat /\ Len(q) \in Nat
  OBVIOUS
<1>2. \A i \in 1..(Len(p) + Len(q)) : i \in 1..Len(p) \/ \E k \in 1..Len(q) : i = Len(p) + k
  <2> SUFFICES ASSUME NEW i \in 1..(Len(p) + Len(q)), i \notin 1..Len(p)
               PROVE  \E k \in 1..Len(q) : i = Len(p) + k
    OBVIOUS
  <2>1. i - Len(p) \in 1..Len(q) /\ i = Len(p) + (i - Len(p))
    BY <1>1
  <2> QED
    BY <2>1
<1> QED
  BY <1>1, <1>2

LEMMA RowsJoined ==
  ASSUME NEW p \in Seq(Row), NEW q \in Seq(Row)
  PROVE  RowsOf(p \o q) = RowsOf(p) \cup RowsOf(q)
<1>1. ASSUME NEW row \in RowsOf(p \o q) PROVE row \in RowsOf(p) \cup RowsOf(q)
  <2>1. PICK i \in 1..(Len(p) + Len(q)) : row = (p \o q)[i]
    BY <1>1, Joined DEF RowsOf
  <2>2. CASE i \in 1..Len(p)
    BY <2>1, <2>2, Joined DEF RowsOf
  <2>3. ASSUME NEW k \in 1..Len(q), i = Len(p) + k PROVE row \in RowsOf(q)
    BY <2>1, <2>3, Joined DEF RowsOf
  <2> QED
    BY <2>2, <2>3, Joined
<1>2. ASSUME NEW row \in RowsOf(p) PROVE row \in RowsOf(p \o q)
  <2>1. PICK i \in 1..Len(p) : row = p[i]
    BY <1>2, Joined DEF RowsOf
  <2>2. i \in 1..(Len(p) + Len(q)) /\ row = (p \o q)[i]
    BY <2>1, Joined
  <2> QED
    BY <2>2, Joined DEF RowsOf
<1>3. ASSUME NEW row \in RowsOf(q) PROVE row \in RowsOf(p \o q)
  <2>1. PICK k \in 1..Len(q) : row = q[k]
    BY <1>3, Joined DEF RowsOf
  <2>2. Len(p) + k \in 1..(Len(p) + Len(q)) /\ row = (p \o q)[Len(p) + k]
    BY <2>1, Joined
  <2> QED
    BY <2>2, Joined DEF RowsOf
<1> QED
  BY <1>1, <1>2, <1>3

LEMMA Extended ==
  ASSUME NEW p \in Seq(Row), NEW row \in Row
  PROVE  /\ Append(p, row) \in Seq(Row) /\ DOMAIN Append(p, row) = 1..(Len(p) + 1)
         /\ Len(p) \in Nat /\ DOMAIN p = 1..Len(p) /\ Append(p, row)[Len(p) + 1] = row
         /\ \A k \in 1..Len(p) : Append(p, row)[k] = p[k]
         /\ RowsOf(Append(p, row)) = RowsOf(p) \cup {row}
<1>1. /\ Append(p, row) \in Seq(Row) /\ DOMAIN Append(p, row) = 1..(Len(p) + 1)
      /\ Len(p) \in Nat /\ DOMAIN p = 1..Len(p) /\ Append(p, row)[Len(p) + 1] = row
      /\ \A k \in 1..Len(p) : Append(p, row)[k] = p[k]
  OBVIOUS
<1>2. \A k \in 1..(Len(p) + 1) : k \in 1..Len(p) \/ k = Len(p) + 1
  BY <1>1
<1>3. \A k \in 1..Len(p) : k \in 1..(Len(p) + 1)
  BY <1>1
<1>4. Len(p) + 1 \in 1..(Len(p) + 1)
  BY <1>1
<1>5. RowsOf(Append(p, row)) = RowsOf(p) \cup {row}
  BY <1>1, <1>2, <1>3, <1>4 DEF RowsOf
<1> QED
  BY <1>1, <1>5

(* The order of the lines in a table, of which NativeInOrder speaks.       *)
InOrder(tab, scanned) ==
  \A i \in DOMAIN tab : tab[i][1] \in Sources =>
    /\ tab[i] \in scanned
    /\ {tab[j] : j \in 1..(i - 1)} \cap scanned = {row \in scanned : Precedes(row, tab[i])}

(* Rows that fit keep the order, and rows without lines always fit.        *)
LEMMA OrderJoined ==
  ASSUME NEW p \in Seq(Row), NEW q \in Seq(Row), NEW scanned, InOrder(p, scanned),
         Fits(q, RowsOf(p), scanned)
  PROVE  InOrder(p \o q, scanned)
<1> SUFFICES ASSUME NEW i \in 1..(Len(p) + Len(q)), (p \o q)[i][1] \in Sources
             PROVE  /\ (p \o q)[i] \in scanned
                    /\ {(p \o q)[j] : j \in 1..(i - 1)} \cap scanned =
                         {row \in scanned : Precedes(row, (p \o q)[i])}
  BY Joined DEF InOrder
<1>1. CASE i \in 1..Len(p)
  <2>1. \A j \in 1..(i - 1) : j \in 1..Len(p)
    BY <1>1, Joined
  <2>2. {(p \o q)[j] : j \in 1..(i - 1)} = {p[j] : j \in 1..(i - 1)}
    BY <2>1, Joined
  <2>3. (p \o q)[i] = p[i] /\ i \in DOMAIN p
    BY <1>1, Joined
  <2> QED
    BY <2>2, <2>3 DEF InOrder
<1>2. ASSUME NEW k \in 1..Len(q), i = Len(p) + k
      PROVE  /\ (p \o q)[i] \in scanned
             /\ {(p \o q)[j] : j \in 1..(i - 1)} \cap scanned =
                  {row \in scanned : Precedes(row, (p \o q)[i])}
  <2>1. (p \o q)[i] = q[k] /\ k \in DOMAIN q
    BY <1>2, Joined
  <2>2. /\ q[k] \in scanned
        /\ \A row \in scanned :
             Precedes(row, q[k]) <=> row \in RowsOf(p) \cup {q[j] : j \in 1..(k - 1)}
    BY <2>1 DEF Fits
  <2>3. {(p \o q)[j] : j \in 1..(i - 1)} = RowsOf(p) \cup {q[j] : j \in 1..(k - 1)}
    <3>1. ASSUME NEW j \in 1..(i - 1)
          PROVE  (p \o q)[j] \in RowsOf(p) \cup {q[h] : h \in 1..(k - 1)}
      <4>1. CASE j \in 1..Len(p)
        BY <4>1, Joined DEF RowsOf
      <4>2. CASE j \notin 1..Len(p)
        <5>1. j - Len(p) \in 1..(k - 1) /\ j - Len(p) \in 1..Len(q) /\ j = Len(p) + (j - Len(p))
          BY <1>2, <4>2, Joined
        <5>2. (p \o q)[j] = q[j - Len(p)]
          BY <5>1, Joined
        <5> QED
          BY <5>1, <5>2
      <4> QED
        BY <4>1, <4>2
    <3>2. ASSUME NEW row \in RowsOf(p) PROVE row \in {(p \o q)[j] : j \in 1..(i - 1)}
      <4>1. PICK j \in 1..Len(p) : row = p[j]
        BY <3>2, Joined DEF RowsOf
      <4>2. j \in 1..(i - 1) /\ row = (p \o q)[j]
        BY <4>1, <1>2, Joined
      <4> QED
        BY <4>2
    <3>3. ASSUME NEW h \in 1..(k - 1) PROVE q[h] \in {(p \o q)[j] : j \in 1..(i - 1)}
      <4>1. Len(p) + h \in 1..(i - 1) /\ h \in 1..Len(q)
        BY <1>2, Joined
      <4>2. q[h] = (p \o q)[Len(p) + h]
        BY <4>1, Joined
      <4> QED
        BY <4>1, <4>2
    <3> QED
      BY <3>1, <3>2, <3>3
  <2> QED
    BY <2>1, <2>2, <2>3
<1>3. i \in 1..Len(p) \/ \E k \in 1..Len(q) : i = Len(p) + k
  BY Joined
<1> QED
  BY <1>1, <1>2, <1>3

LEMMA WithoutLines ==
  ASSUME NEW rows, ~Has(rows, Sources), NEW stored, NEW scanned
  PROVE  Fits(rows, stored, scanned)
BY DEF Has, Fits

LEMMA FitsMore ==
  ASSUME NEW rows, NEW stored, NEW scanned, NEW more, Fits(rows, stored, scanned),
         more \cap scanned = {}
  PROVE  Fits(rows, stored \cup more, scanned)
BY DEF Fits

(* A line behind all others fits at the end.                               *)
LEMMA FitsNext ==
  ASSUME NEW rows \in Seq(Row), NEW stored, NEW scanned, NEW next \in Row,
         Fits(rows, stored, scanned), scanned \subseteq stored \cup RowsOf(rows),
         next[1] \in Sources, next \notin scanned \cup stored, ~Precedes(next, next),
         \A row \in scanned : Precedes(row, next) /\ ~Precedes(next, row)
  PROVE  Fits(Append(rows, next), stored, scanned \cup {next})
<1> DEFINE all == Append(rows, next)
<1>n. next \notin RowsOf(rows)
  BY DEF Fits, RowsOf
<1> SUFFICES ASSUME NEW k \in 1..(Len(rows) + 1), all[k][1] \in Sources
             PROVE  /\ all[k] \in scanned \cup {next}
                    /\ \A row \in scanned \cup {next} :
                         Precedes(row, all[k]) <=> row \in stored \cup {all[j] : j \in 1..(k - 1)}
  BY Extended DEF Fits
<1>1. {all[j] : j \in 1..(k - 1)} = {rows[j] : j \in 1..(k - 1)}
  <2>1. \A j \in 1..(k - 1) : j \in 1..Len(rows)
    BY Extended
  <2> QED
    BY <2>1, Extended
<1>2. {rows[j] : j \in 1..(k - 1)} \subseteq RowsOf(rows)
  <2>1. \A j \in 1..(k - 1) : j \in 1..Len(rows)
    BY Extended
  <2> QED
    BY <2>1, Extended DEF RowsOf
<1>3. CASE k \in 1..Len(rows)
  <2>1. all[k] = rows[k] /\ k \in DOMAIN rows
    BY <1>3, Extended
  <2>2. /\ rows[k] \in scanned
        /\ \A row \in scanned :
             Precedes(row, rows[k]) <=> row \in stored \cup {rows[j] : j \in 1..(k - 1)}
    BY <2>1 DEF Fits
  <2>3. ~Precedes(next, rows[k]) /\ next \notin stored \cup {rows[j] : j \in 1..(k - 1)}
    BY <2>2, <1>2, <1>n
  <2> HIDE DEF all
  <2> QED
    BY <1>1, <2>1, <2>2, <2>3
<1>4. CASE k = Len(rows) + 1
  <2>1. all[k] = next
    BY <1>4, Extended
  <2>2. {rows[j] : j \in 1..(k - 1)} = RowsOf(rows)
    <3>1. k - 1 = Len(rows)
      BY <1>4, Extended
    <3> QED
      BY <3>1, Extended DEF RowsOf
  <2> HIDE DEF all
  <2> QED
    BY <1>1, <2>1, <2>2, <1>n
<1> QED
  BY <1>3, <1>4, Extended

LEMMA OrderNext ==
  ASSUME NEW p, NEW scanned, NEW next, InOrder(p, scanned), next[1] \in Sources,
         next \notin scanned, \A row \in scanned : ~Precedes(next, row),
         \A i \in DOMAIN p : \A j \in 1..(i - 1) : j \in DOMAIN p
  PROVE  InOrder(p, scanned \cup {next})
<1> SUFFICES ASSUME NEW i \in DOMAIN p, p[i][1] \in Sources
             PROVE  /\ p[i] \in scanned \cup {next}
                    /\ {p[j] : j \in 1..(i - 1)} \cap (scanned \cup {next}) =
                         {row \in scanned \cup {next} : Precedes(row, p[i])}
  BY DEF InOrder
<1>1. /\ p[i] \in scanned
      /\ {p[j] : j \in 1..(i - 1)} \cap scanned = {row \in scanned : Precedes(row, p[i])}
  BY DEF InOrder
<1>2. next \notin {p[j] : j \in 1..(i - 1)}
  BY DEF InOrder
<1> QED
  BY <1>1, <1>2

---------------------------------------------------------------------------
(* The lines that were scanned.                                            *)

LEMMA TableGrows ==
  ASSUME CallsTyped, NEW rows \in Seq(Row), table' = table \o rows
  PROVE  RowsOf(table') = RowsOf(table) \cup RowsOf(rows)
BY RowsJoined DEF CallsTyped

LEMMA ScannedLine ==
  ASSUME NEW row \in Scanned
  PROVE  \E s \in Sources : \E i \in 1..pos[s] : row = <<s, i>> /\ file[s].lines[i] = "text"
BY DEF Scanned, TextRows, Sources

LEMMA LinesKept ==
  ASSUME UNCHANGED pos,
         \A s \in Sources : \A i \in 1..pos[s] : file'[s].lines[i] = file[s].lines[i]
  PROVE  Scanned' = Scanned
BY DEF Scanned, TextRows, Sources

(* Only a step that scans a line changes which lines were scanned.         *)
LEMMA ScannedKept ==
  ASSUME StatementsTyped, FileInv, RowNext
  PROVE  Scanned' = Scanned \/ Scans
<1>1. CASE UNCHANGED <<pos, file>>
  BY <1>1, LinesKept
<1>2. CASE Opened
  <2>1. PICK f : Opens(f)
    BY <1>2 DEF Opened
  <2>2. /\ UNCHANGED pos /\ pc = "open" /\ src \in Sources
        /\ \A s \in Sources : s # src => file'[s] = file[s]
    BY <2>1 DEF Opens, StatementsTyped
  <2>3. pos[src] = 0
    BY <2>2 DEF FileInv
  <2>4. \A s \in Sources : \A i \in 1..pos[s] : s # src
    BY <2>3
  <2> QED
    BY <2>2, <2>4, LinesKept
<1>3. CASE Writes
  <2>1. /\ UNCHANGED pos /\ src \in Sources /\ pos \in [Sources -> Nat]
        /\ file \in [Sources -> [kind: FileKinds, lines: Seq(LineKinds)]]
    BY <1>3 DEF Writes, FirecrackerWrites, StatementsTyped
  <2>2. \A s \in Sources : s # src => file'[s] = file[s]
    BY <1>3, <2>1 DEF Writes, FirecrackerWrites
  <2>3. file'[src].lines = Append(file[src].lines, "text")
    BY <1>3, <2>1 DEF Writes, FirecrackerWrites
  <2>4. pos[src] <= Len(file[src].lines) /\ file[src].lines \in Seq(LineKinds)
    BY <2>1 DEF FileInv
  <2>5. \A q \in Seq(LineKinds) : \A i \in 1..Len(q) : Append(q, "text")[i] = q[i]
    OBVIOUS
  <2>6. \A i \in 1..pos[src] : i \in 1..Len(file[src].lines)
    BY <2>1, <2>4
  <2>7. \A i \in 1..pos[src] : file'[src].lines[i] = file[src].lines[i]
    BY <2>3, <2>4, <2>5, <2>6
  <2> QED
    BY <2>1, <2>2, <2>7, LinesKept
<1> QED
  BY <1>1, <1>2, <1>3 DEF RowNext, Quiet, MainBegins, MainTakes, MainStores, SamplerStores,
     StrayStored, MainAnswered, MainFails, SamplerFails, FilesKept, Ends, EndOfFile

(* A line of text that is scanned is behind all that were.                 *)
ScansText(next) ==
  /\ next \in Row /\ Scanned' = Scanned \cup {next} /\ batch' = Append(batch, next)
  /\ next[1] \in Sources /\ next \notin Scanned /\ ~Precedes(next, next)
  /\ \A row \in Scanned : Precedes(row, next) /\ ~Precedes(next, row)

LEMMA ScanEffect ==
  ASSUME StatementsTyped, FileInv, Scans
  PROVE  (Scanned' = Scanned /\ batch' = batch) \/ (\E next : ScansText(next))
<1> DEFINE n == pos[src] + 1
           next == <<src, n>>
<1>1. /\ pos \in [Sources -> Nat] /\ src \in Sources /\ pc = "scan"
      /\ pos' = [pos EXCEPT ![src] = n] /\ UNCHANGED <<file, src>>
      /\ batch' = IF file[src].lines[n] = "text" THEN Append(batch, next) ELSE batch
  BY DEF Scans, ScanLine, StatementsTyped, Lines
<1>2. n \in Nat /\ pos[src] \in Nat /\ \A s \in Sources : pos[s] \in Nat
  BY <1>1
<1>3. pos'[src] = n /\ \A s \in Sources : s # src => pos'[s] = pos[s]
  BY <1>1
<1>4. \A i \in 1..n : i \in 1..pos[src] \/ i = n
  BY <1>2
<1>5. \A i \in 1..pos[src] : i \in 1..n
  BY <1>2
<1>6. n \in 1..n
  BY <1>2
<1>7. ASSUME NEW s \in Sources, s # src PROVE TextRows(s, pos[s])' = TextRows(s, pos[s])
  BY <1>1, <1>3, <1>7 DEF TextRows
<1>8. TextRows(src, pos[src])' =
        TextRows(src, pos[src]) \cup (IF file[src].lines[n] = "text" THEN {next} ELSE {})
  <2> HIDE DEF n
  <2>1. TextRows(src, pos[src])' = {<<src, i>> : i \in {k \in 1..n : file[src].lines[k] = "text"}}
    BY <1>1, <1>3 DEF TextRows
  <2> QED
    BY <2>1, <1>4, <1>5, <1>6 DEF TextRows
<1>9. Scanned' = Scanned \cup (IF file[src].lines[n] = "text" THEN {next} ELSE {})
  <2> HIDE DEF n, next
  <2>1. CASE src = "log"
    <3>1. TextRows("metrics", pos["metrics"])' = TextRows("metrics", pos["metrics"])
      BY <1>7, <2>1 DEF Sources
    <3>2. TextRows("log", pos["log"])' =
            TextRows("log", pos["log"]) \cup (IF file[src].lines[n] = "text" THEN {next} ELSE {})
      BY <1>1, <1>8, <2>1
    <3> QED
      BY <3>1, <3>2 DEF Scanned
  <2>2. CASE src = "metrics"
    <3>1. TextRows("log", pos["log"])' = TextRows("log", pos["log"])
      BY <1>7, <2>2 DEF Sources
    <3>2. TextRows("metrics", pos["metrics"])' = TextRows("metrics", pos["metrics"])
                                  \cup (IF file[src].lines[n] = "text" THEN {next} ELSE {})
      BY <1>1, <1>8, <2>2
    <3> QED
      BY <3>1, <3>2 DEF Scanned
  <2> QED
    BY <1>1, <2>1, <2>2 DEF Sources
<1>10. ASSUME NEW row \in Scanned
       PROVE  row # next /\ Precedes(row, next) /\ ~Precedes(next, row)
  <2>0. PICK s \in Sources : \E i \in 1..pos[s] : row = <<s, i>>
    BY <1>10, ScannedLine
  <2>1. PICK i \in 1..pos[s] : row = <<s, i>>
    BY <2>0
  <2>2. src = "log" => pos["metrics"] = 0
    BY DEF FileInv
  <2>3. s = src \/ (s = "log" /\ src = "metrics")
    BY <1>1, <2>1, <2>2 DEF Sources
  <2>4. s = src => i < n /\ ~(n < i) /\ i # n
    BY <1>2
  <2> HIDE DEF n
  <2> QED
    BY <2>1, <2>3, <2>4 DEF Precedes
<1>11. next \in Row /\ next[1] \in Sources /\ ~Precedes(next, next)
  <2>1. ~(n < n)
    BY <1>2
  <2> HIDE DEF n
  <2> QED
    BY <1>1, <1>2, <2>1 DEF Row, Sources, Precedes
<1> HIDE DEF next, n
<1>12. CASE file[src].lines[n] = "text"
  <2>1. ScansText(next)
    BY <1>1, <1>9, <1>10, <1>11, <1>12 DEF ScansText
  <2> QED
    BY <2>1
<1>13. CASE file[src].lines[n] # "text"
  BY <1>1, <1>9, <1>13
<1> QED
  BY <1>12, <1>13

(* What main and the sampler record, and what they do not.                 *)
LEMMA MainRecords ==
  ASSUME CallsTyped, StatementsTyped, MainCallInv, BatchInv, InCall("main")
  PROVE  /\ call["main"].rows = MainRows /\ MainRows \in Seq(Row) /\ pc \in InsertPcs
         /\ call["main"].at \notin {"ok", "failed", "idle"} /\ ~GaveUp
         /\ pc \in {"scan", "last"} => MainRows = batch
         /\ pc \notin {"scan", "last"} => ~Has(MainRows, Sources)
         /\ Has(MainRows, {"vm.stopped"}) => pc = "vmStopped"
<1>1. call["main"].at \in {"lock", "dial", "sent"}
  BY DEF InCall, Waiting, Holding
<1>2. call["main"].rows = MainRows /\ pc \in InsertPcs
  BY <1>1 DEF MainCallInv
<1>3. MainRows \in Seq(Row)
  BY <1>2, RowsTyped DEF MainRows, StatementsTyped
<1>4. pc \in {"scan", "last"} => MainRows = batch
  BY DEF MainRows
<1>5. pc \notin {"scan", "last"} => \A k \in DOMAIN MainRows : MainRows[k][1] \notin Sources
  BY <1>2 DEF MainRows, InsertPcs, Sources
<1>6. \A k \in DOMAIN MainRows : MainRows[k][1] = "vm.stopped" => pc = "vmStopped"
  BY <1>2 DEF MainRows, InsertPcs, BatchInv, Sources
<1> QED
  BY <1>1, <1>2, <1>3, <1>4, <1>5, <1>6 DEF Has, GaveUp, InsertPcs

LEMMA SamplerRecords ==
  ASSUME CallsTyped, SamplerCallInv, InCall("sampler")
  PROVE  /\ call["sampler"].rows \in Seq(Row) /\ ~Has(call["sampler"].rows, Sources)
         /\ ~Has(call["sampler"].rows, {"vm.stopped"})
<1>1. "sampler" \in Callers
  BY EventStreamAssumption
<1>2. \A k \in DOMAIN call["sampler"].rows : call["sampler"].rows[k][1] = "sample"
  BY DEF SamplerCallInv
<1> QED
  BY <1>1, <1>2 DEF CallsTyped, CallType, Has, Sources

(* The rows of other events are no lines.                                  *)
LEMMA NoLines ==
  ASSUME NEW rows, ~Has(rows, Sources) PROVE RowsOf(rows) \cap Scanned = {}
<1>1. \A row \in Scanned : row[1] \in Sources
  BY ScannedLine
<1> QED
  BY <1>1 DEF RowsOf, Has

---------------------------------------------------------------------------
(* The invariants of the rows.                                             *)

(* Rows stay in the table.                                                 *)
LEMMA RowsStay ==
  ASSUME CallsTyped, StatementsTyped, BatchInv, MainCallInv, SamplerCallInv, RowNext
  PROVE  RowsOf(table) \subseteq RowsOf(table')
<1>1. CASE UNCHANGED table
  BY <1>1
<1>2. CASE MainStores
  BY <1>2, MainRecords, TableGrows DEF MainStores
<1>3. CASE SamplerStores
  BY <1>3, SamplerRecords, TableGrows DEF SamplerStores
<1>4. CASE StrayStored
  <2>1. PICK rows \in strays : table' = table \o rows
    BY <1>4 DEF StrayStored
  <2> QED
    BY <2>1, TableGrows DEF CallsTyped
<1> QED
  BY <1>1, <1>2, <1>3, <1>4 DEF RowNext, Quiet, MainBegins, MainTakes, Opened, Opens, Scans,
     Ends,
     Writes, MainAnswered, MainFails, SamplerFails, collectorVars

LEMMA MainRowsKept ==
  ASSUME UNCHANGED <<pc, batch>> PROVE MainRows' = MainRows
BY DEF MainRows

(* Main's rows are in the table when it is told so.                        *)
LEMMA AckStep ==
  ASSUME CallsTyped, StatementsTyped, BatchInv, MainCallInv, SamplerCallInv, AckInv, RowNext
  PROVE  AckInv'
<1>r. RowsOf(table) \subseteq RowsOf(table')
  BY RowsStay
<1>1. ASSUME UNCHANGED <<pc, batch>>, Acknowledged PROVE AckInv'
  BY <1>1, <1>r, MainRowsKept DEF AckInv
<1>2. CASE ~Acknowledged'
  BY <1>2 DEF AckInv
<1> USE DEF Acknowledged, InCall, Waiting, Holding
<1>3. CASE Quiet
  <2>1. Acknowledged' => Acknowledged
    BY <1>3 DEF Quiet, MainKept
  <2>2. Acknowledged /\ pc' # pc => FALSE
    BY <1>3 DEF Quiet, MainCallInv, InsertPcs
  <2> HIDE DEF Acknowledged
  <2> QED
    BY <1>1, <1>2, <1>3, <2>1, <2>2 DEF Quiet, FilesKept
<1>4. CASE MainBegins \/ MainTakes \/ MainFails
  <2>1. ~Acknowledged'
    BY <1>4 DEF MainBegins, MainTakes, MainFails
  <2> HIDE DEF Acknowledged
  <2> QED
    BY <1>2, <2>1
<1>5. CASE Opened \/ Scans \/ Ends
  <2>1. UNCHANGED call /\ call["main"].at = "idle"
    BY <1>5 DEF Opened, Opens, collectorVars, Scans, Ends, ScanLine, EndOfFile, MainCallInv,
       InsertPcs
  <2>2. ~Acknowledged'
    BY <2>1
  <2> HIDE DEF Acknowledged
  <2> QED
    BY <1>2, <2>2
<1>6. CASE Writes
  <2>1. Acknowledged' => Acknowledged
    BY <1>6 DEF Writes
  <2> HIDE DEF Acknowledged
  <2> QED
    BY <1>1, <1>2, <1>6, <2>1 DEF Writes, FirecrackerWrites
<1>7. CASE MainStores
  <2>1. RowsOf(table') = RowsOf(table) \cup RowsOf(MainRows) /\ MainRows' = MainRows
    BY <1>7, MainRecords, TableGrows, MainRowsKept DEF MainStores, FilesKept
  <2> QED
    BY <2>1 DEF AckInv
<1>8. CASE SamplerStores \/ StrayStored \/ SamplerFails
  <2>1. Acknowledged' => Acknowledged
    BY <1>8 DEF SamplerStores, StrayStored, SamplerFails, MainKept
  <2> HIDE DEF Acknowledged
  <2> QED
    BY <1>1, <1>2, <1>8, <2>1 DEF SamplerStores, StrayStored, SamplerFails, FilesKept
<1>9. CASE MainAnswered
  <2>1. Acknowledged
    BY <1>9 DEF MainAnswered
  <2> HIDE DEF Acknowledged
  <2> QED
    BY <1>1, <1>9, <2>1 DEF MainAnswered, FilesKept
<1> QED
  BY <1>3, <1>4, <1>5, <1>6, <1>7, <1>8, <1>9 DEF RowNext

(* Where a step of main leads, and what became of the batch.               *)
LEMMA BatchEffect ==
  ASSUME StatementsTyped, BatchInv, MainCallInv, RowNext, ~Scans, pc' # "ended"
  PROVE  /\ pc # "ended"
         /\ \/ batch' = batch
            \/ batch' = <<>> /\ call["main"].at = "ok" /\ MainRows = batch
         /\ pc = "vmStarted" => \/ pc' = "vmStarted"
                                \/ call["main"].at = "ok" /\ MainRows = <<<<"vm.started", 0>>>>
<1> USE DEF FilesKept, MainRows
<1>1. CASE MainTakes
  BY <1>1 DEF MainTakes
<1>2. CASE Opened
  BY <1>2 DEF Opened, Opens
<1>3. CASE Ends \/ Writes
  BY <1>3 DEF Ends, Writes, EndOfFile, FirecrackerWrites
<1>4. CASE Quiet
  BY <1>4 DEF Quiet
<1> QED
  BY <1>1, <1>2, <1>3, <1>4 DEF RowNext, MainBegins, MainStores, SamplerStores, StrayStored,
     MainAnswered, MainFails, SamplerFails

(* No line of text is passed over as long as main goes on.                 *)
LEMMA CoverStep ==
  ASSUME CallsTyped, StatementsTyped, FileInv, BatchInv, MainCallInv, SamplerCallInv, AckInv,
         CoverInv, RowNext
  PROVE  CoverInv'
<1>r. RowsOf(table) \subseteq RowsOf(table')
  BY RowsStay
<1>1. CASE pc' = "ended"
  BY <1>1 DEF CoverInv
<1>2. CASE pc' # "ended" /\ ~Scans
  <2>1. Scanned' = Scanned
    BY <1>2, ScannedKept
  <2>2. call["main"].at = "ok" => RowsOf(MainRows) \subseteq RowsOf(table)
    BY DEF AckInv, Acknowledged
  <2>3. Scanned \subseteq RowsOf(table') \cup RowsOf(batch')
    BY <1>2, <1>r, <2>2, BatchEffect, NoRows DEF CoverInv
  <2>4. pc' # "vmStarted" => <<"vm.started", 0>> \in RowsOf(table')
    <3>1. CASE pc = "vmStarted"
      BY <1>2, <1>r, <2>2, <3>1, BatchEffect, OneRow
    <3>2. CASE pc # "vmStarted"
      BY <1>2, <1>r, <3>2, BatchEffect DEF CoverInv
    <3> QED
      BY <3>1, <3>2
  <2> QED
    BY <2>1, <2>3, <2>4 DEF CoverInv
<1>3. CASE pc' # "ended" /\ Scans
  <2>1. UNCHANGED table /\ pc = "scan" /\ Scanned \subseteq RowsOf(table) \cup RowsOf(batch)
    BY <1>3 DEF Scans, ScanLine, CoverInv
  <2>2. Scanned' \subseteq RowsOf(table) \cup RowsOf(batch')
    <3>1. ASSUME NEW next, ScansText(next)
          PROVE  Scanned' \subseteq RowsOf(table) \cup RowsOf(batch')
      <4>1. RowsOf(batch') = RowsOf(batch) \cup {next} /\ Scanned' = Scanned \cup {next}
        BY <3>1, Extended DEF ScansText, StatementsTyped
      <4> QED
        BY <2>1, <4>1
    <3> QED
      BY <1>3, <2>1, <3>1, ScanEffect
  <2> QED
    BY <1>3, <2>1, <2>2 DEF CoverInv
<1> QED
  BY <1>1, <1>2, <1>3

(* What a step stores are rows that fit, while nothing else of the files   *)
(* changes; and once main gave up, no line is added to what is astray.     *)
Stores(rows) ==
  /\ rows \in Seq(Row) /\ table' = table \o rows /\ RowsOf(table') = RowsOf(table) \cup RowsOf(rows)
  /\ Storable(rows) /\ Scanned' = Scanned /\ UNCHANGED pc /\ FilesKept

LEMMA StoreMain ==
  ASSUME CallsTyped, StatementsTyped, BatchInv, MainCallInv, StorableInv, MainStores
  PROVE  Stores(MainRows)
<1>1. Storable(MainRows)
  <2>1. CASE pc \in {"scan", "last"}
    <3>1. call["main"].at # "failed" /\ MainRows = batch /\ ~Acknowledged
      BY <2>1, MainRecords DEF MainStores, Acknowledged
    <3> QED
      BY <2>1, <3>1 DEF StorableInv
  <2>2. CASE pc \notin {"scan", "last"}
    BY <2>2, MainRecords, WithoutLines DEF MainStores, Storable
  <2> QED
    BY <2>1, <2>2
<1>2. table' = table \o MainRows /\ MainRows \in Seq(Row) /\ FilesKept /\ UNCHANGED pc
  BY MainRecords DEF MainStores
<1>3. Scanned' = Scanned
  BY <1>2, LinesKept DEF FilesKept
<1> QED
  BY <1>1, <1>2, <1>3, TableGrows DEF Stores

LEMMA StoreSampler ==
  ASSUME CallsTyped, SamplerCallInv, SamplerStores PROVE Stores(call["sampler"].rows)
<1> DEFINE rows == call["sampler"].rows
<1>1. rows \in Seq(Row) /\ Storable(rows)
  BY SamplerRecords, WithoutLines DEF SamplerStores, Storable
<1>2. table' = table \o rows /\ FilesKept /\ UNCHANGED pc
  BY DEF SamplerStores
<1>3. Scanned' = Scanned
  BY <1>2, LinesKept DEF FilesKept
<1> QED
  BY <1>1, <1>2, <1>3, TableGrows DEF Stores

LEMMA StoreStrayRows ==
  ASSUME CallsTyped, StorableInv, StrayStored, NEW rows \in strays, table' = table \o rows
  PROVE  Stores(rows)
<1>1. rows \in Seq(Row) /\ Storable(rows) /\ FilesKept /\ UNCHANGED pc
  BY DEF StrayStored, CallsTyped, StorableInv
<1>2. Scanned' = Scanned
  BY <1>1, LinesKept DEF FilesKept
<1> QED
  BY <1>1, <1>2, TableGrows DEF Stores

LEMMA StoreEffect ==
  ASSUME CallsTyped, StatementsTyped, FileInv, BatchInv, MainCallInv, SamplerCallInv, StorableInv,
         RowNext
  PROVE  (UNCHANGED table /\ (Scanned' = Scanned \/ Scans)) \/ (\E rows : Stores(rows))
<1>s. Scanned' = Scanned \/ Scans
  BY ScannedKept
<1>1. CASE MainStores
  BY <1>1, StoreMain
<1>2. CASE SamplerStores
  BY <1>2, StoreSampler
<1>3. CASE StrayStored
  <2>1. PICK rows \in strays : table' = table \o rows
    BY <1>3 DEF StrayStored
  <2>2. Stores(rows)
    BY <1>3, <2>1, StoreStrayRows
  <2> QED
    BY <2>2
<1> QED
  BY <1>s, <1>1, <1>2, <1>3 DEF RowNext, Quiet, MainBegins, MainTakes, Opened, Opens, Scans,
     Ends,
     Writes, MainAnswered, MainFails, SamplerFails, collectorVars

LEMMA OrderStep ==
  ASSUME CallsTyped, StatementsTyped, FileInv, BatchInv, MainCallInv, SamplerCallInv, StorableInv,
         NativeInOrder, RowNext
  PROVE  NativeInOrder'
<1>o. /\ NativeInOrder <=> InOrder(table, Scanned)
      /\ NativeInOrder' <=> InOrder(table', Scanned')
  BY DEF NativeInOrder, InOrder, Before
<1>1. ASSUME NEW rows, Stores(rows) PROVE NativeInOrder'
  BY <1>1, <1>o, OrderJoined DEF Stores, Storable, CallsTyped
<1>2. CASE UNCHANGED table /\ Scanned' = Scanned
  BY <1>2, <1>o
<1>3. ASSUME UNCHANGED table, NEW next, ScansText(next) PROVE NativeInOrder'
  <2>1. \A i \in DOMAIN table : \A j \in 1..(i - 1) : j \in DOMAIN table
    BY DEF CallsTyped
  <2>2. InOrder(table, Scanned \cup {next})
    BY <1>3, <1>o, <2>1, OrderNext DEF ScansText
  <2> QED
    BY <1>3, <1>o, <2>2 DEF ScansText
<1> QED
  BY <1>1, <1>2, <1>3, StoreEffect, ScanEffect

LEMMA GaveUpStays ==
  ASSUME StatementsTyped, MainCallInv, GaveUp, RowNext
  PROVE  GaveUp'
<1>1. CASE pc = "ended"
  BY <1>1 DEF GaveUp, RowNext, Quiet, MainBegins, MainTakes, InsertPcs, Opened, Opens, Scans,
     ScanLine,
     Ends, EndOfFile, Writes, FirecrackerWrites, MainStores, SamplerStores, StrayStored,
     MainAnswered,
     MainFails, SamplerFails
<1>2. CASE pc \in {"scan", "last"} /\ call["main"].at = "failed"
  <2>1. ~InCall("main") /\ ~Scans /\ ~Ends
    BY <1>2 DEF InCall, Waiting, Holding, MainCallInv, Scans, ScanLine, Ends, EndOfFile
  <2>2. CASE MainTakes
    BY <1>2, <2>2 DEF MainTakes, GaveUp
  <2> QED
    BY <1>2, <2>1, <2>2 DEF GaveUp, RowNext, Quiet, MainBegins, Opened, Opens, Writes,
       FirecrackerWrites,
       MainStores, SamplerStores, StrayStored, MainAnswered, MainFails, SamplerFails, MainKept
<1> QED
  BY <1>1, <1>2 DEF GaveUp

(* What main is about to record fits behind what is there.                 *)
LEMMA BatchFits ==
  ASSUME CallsTyped, StatementsTyped, FileInv, BatchInv, MainCallInv, SamplerCallInv, CoverInv,
         StorableInv, NativeInOrder, RowNext,
         pc' \in {"scan", "last"}, ~Acknowledged', call'["main"].at # "failed"
  PROVE  Storable(batch)'
<1>e. ASSUME batch' = <<>> PROVE Storable(batch)'
  <2>1. \A stored, scanned : Fits(<<>>, stored, scanned)
    BY DEF Fits
  <2> QED
    BY <1>e, <2>1 DEF Storable
<1>k. ASSUME batch' = batch, table' = table, Scanned' = Scanned, pc \in {"scan", "last"},
             ~Acknowledged, call["main"].at # "failed"
      PROVE  Storable(batch)'
  BY <1>k DEF Storable, StorableInv
<1>f. ~GaveUp
  BY GaveUpStays DEF GaveUp
<1>s. ASSUME NEW rows, Stores(rows), ~Has(rows, Sources), pc \in {"scan", "last"}, ~Acknowledged,
             call["main"].at # "failed"
      PROVE  Storable(batch)'
  <2>1. RowsOf(rows) \cap Scanned = {}
    BY <1>s, NoLines
  <2>2. Fits(batch, RowsOf(table), Scanned)
    BY <1>s DEF StorableInv, Storable
  <2>3. Fits(batch, RowsOf(table) \cup RowsOf(rows), Scanned)
    BY <2>1, <2>2, FitsMore
  <2>4. batch' = batch /\ RowsOf(table') = RowsOf(table) \cup RowsOf(rows) /\ Scanned' = Scanned
    BY <1>s DEF Stores, FilesKept
  <2> QED
    BY <2>3, <2>4 DEF Storable
<1>1. CASE Quiet
  <2>1. /\ pc' = pc /\ ~Acknowledged /\ call["main"].at # "failed"
        /\ UNCHANGED <<batch, table, pos, file>>
    BY <1>1 DEF Quiet, MainKept, Acknowledged, FilesKept, InCall, Waiting, Holding
  <2>2. Scanned' = Scanned
    BY <2>1, LinesKept
  <2> QED
    BY <1>k, <2>1, <2>2
<1>2. CASE MainBegins
  <2>1. /\ pc' = pc /\ ~Acknowledged /\ call["main"].at # "failed"
        /\ UNCHANGED <<batch, table, pos, file>>
    BY <1>2 DEF MainBegins, Acknowledged, FilesKept, InCall, Waiting, Holding
  <2>2. Scanned' = Scanned
    BY <2>1, LinesKept
  <2> QED
    BY <1>k, <2>1, <2>2
<1>3. CASE MainTakes
  BY <1>3, <1>e DEF MainTakes, AfterFile
<1>4. CASE Opened
  BY <1>4, <1>e DEF Opened, Opens, BatchInv
<1>5. CASE Scans
  <2>1. /\ UNCHANGED <<table, call>> /\ pc = "scan" /\ call["main"].at = "idle"
    BY <1>5 DEF Scans, ScanLine, MainCallInv
  <2>2. ~Acknowledged
    BY <2>1 DEF Acknowledged, InCall, Waiting, Holding
  <2>3. Fits(batch, RowsOf(table), Scanned)
    BY <2>1, <2>2 DEF StorableInv, Storable
  <2>4. ASSUME NEW next, ScansText(next) PROVE Storable(batch)'
    <3>1. Scanned \subseteq RowsOf(table) \cup RowsOf(batch)
      BY <2>1 DEF CoverInv
    <3>2. \A row \in RowsOf(table) : row[1] \in Sources => row \in Scanned
      BY DEF NativeInOrder, RowsOf
    <3>3. next \notin RowsOf(table)
      BY <2>4, <3>2 DEF ScansText
    <3>4. Fits(Append(batch, next), RowsOf(table), Scanned \cup {next})
      BY <2>3, <2>4, <3>1, <3>3, FitsNext DEF ScansText, StatementsTyped
    <3> QED
      BY <2>1, <2>4, <3>4 DEF ScansText, Storable
  <2> QED
    BY <1>5, <1>k, <2>1, <2>2, <2>4, ScanEffect
<1>6. CASE Ends
  <2>1. /\ UNCHANGED <<table, call, batch, pos, file>> /\ pc = "scan" /\ call["main"].at = "idle"
    BY <1>6 DEF Ends, EndOfFile, MainCallInv
  <2>2. ~Acknowledged
    BY <2>1 DEF Acknowledged, InCall, Waiting, Holding
  <2>3. Scanned' = Scanned
    BY <2>1, LinesKept
  <2> QED
    BY <1>k, <2>1, <2>2, <2>3
<1>7. CASE Writes
  <2>1. /\ UNCHANGED <<table, call, batch, pc>> /\ ~Scans
    BY <1>7 DEF Writes, FirecrackerWrites, Scans, ScanLine, StatementsTyped, Sources
  <2>2. Scanned' = Scanned
    BY <2>1, ScannedKept
  <2>3. ~Acknowledged
    BY <2>1 DEF Acknowledged, InCall, Waiting, Holding
  <2> QED
    BY <1>k, <2>1, <2>2, <2>3
<1>8. CASE MainStores \/ MainAnswered \/ MainFails
  BY <1>8 DEF MainStores, MainAnswered, MainFails, Acknowledged
<1>9. CASE SamplerStores
  <2>1. Stores(call["sampler"].rows) /\ ~Has(call["sampler"].rows, Sources)
    BY <1>9, SamplerRecords, StoreSampler DEF SamplerStores
  <2>2. /\ pc' = pc /\ ~Acknowledged /\ call["main"].at # "failed"
    BY <1>9 DEF SamplerStores, MainKept, Acknowledged, InCall, Waiting, Holding
  <2> QED
    BY <1>s, <2>1, <2>2
<1>10. CASE StrayStored
  <2>1. PICK rows \in strays : table' = table \o rows
    BY <1>10 DEF StrayStored
  <2>2. Stores(rows) /\ ~Has(rows, Sources)
    BY <1>10, <1>f, <2>1, StoreStrayRows DEF StorableInv
  <2>3. /\ pc' = pc /\ ~Acknowledged /\ call["main"].at # "failed"
    BY <1>10 DEF StrayStored, MainKept, Acknowledged, InCall, Waiting, Holding
  <2> QED
    BY <1>s, <2>2, <2>3
<1>11. CASE SamplerFails
  <2>1. /\ pc' = pc /\ ~Acknowledged /\ call["main"].at # "failed"
        /\ UNCHANGED <<batch, table, pos, file>>
    BY <1>11 DEF SamplerFails, MainKept, Acknowledged, FilesKept, InCall, Waiting, Holding
  <2>2. Scanned' = Scanned
    BY <2>1, LinesKept
  <2> QED
    BY <1>k, <2>1, <2>2
<1> QED
  BY <1>1, <1>2, <1>3, <1>4, <1>5, <1>6, <1>7, <1>8, <1>9, <1>10, <1>11 DEF RowNext

(* What is astray fits as well: at most one batch of lines, main's last.   *)
LEMMA StraysFit ==
  ASSUME CallsTyped, StatementsTyped, FileInv, BatchInv, MainCallInv, SamplerCallInv, StorableInv,
         RowNext
  PROVE  \A rows \in strays' : Storable(rows)'
<1>1. ASSUME NEW rows \in strays, Scans PROVE Storable(rows)'
  <2>1. ~GaveUp
    BY <1>1 DEF Scans, ScanLine, MainCallInv, GaveUp
  <2>2. ~Has(rows, Sources)
    BY <2>1 DEF StorableInv
  <2> QED
    BY <2>2, WithoutLines DEF Storable
<1>2. ASSUME NEW rows \in strays, UNCHANGED table, Scanned' = Scanned PROVE Storable(rows)'
  BY <1>2 DEF Storable, StorableInv
<1>3. ASSUME NEW rows \in strays, NEW other, Stores(other),
             Has(rows, Sources) => ~Has(other, Sources)
      PROVE  Storable(rows)'
  <2>1. CASE Has(rows, Sources)
    <3>1. RowsOf(other) \cap Scanned = {}
      BY <1>3, <2>1, NoLines
    <3>2. Fits(rows, RowsOf(table), Scanned)
      BY DEF StorableInv, Storable
    <3>3. Fits(rows, RowsOf(table) \cup RowsOf(other), Scanned)
      BY <3>1, <3>2, FitsMore
    <3>4. RowsOf(table') = RowsOf(table) \cup RowsOf(other) /\ Scanned' = Scanned
      BY <1>3 DEF Stores
    <3> QED
      BY <3>3, <3>4 DEF Storable
  <2>2. CASE ~Has(rows, Sources)
    BY <2>2, WithoutLines DEF Storable
  <2> QED
    BY <2>1, <2>2
<1>4. CASE MainStores
  <2>1. Stores(MainRows) /\ ~GaveUp /\ UNCHANGED strays
    BY <1>4, StoreMain, MainRecords DEF MainStores
  <2> QED
    BY <1>3, <2>1 DEF StorableInv
<1>5. CASE SamplerStores
  <2>1. Stores(call["sampler"].rows) /\ ~Has(call["sampler"].rows, Sources) /\ UNCHANGED strays
    BY <1>5, StoreSampler, SamplerRecords DEF SamplerStores
  <2> QED
    BY <1>3, <2>1
<1>6. CASE StrayStored
  <2>1. PICK other \in strays : table' = table \o other /\ strays' = strays \ {other}
    BY <1>6 DEF StrayStored
  <2>2. Stores(other)
    BY <1>6, <2>1, StoreStrayRows
  <2>3. \A rows \in strays' : rows \in strays /\ rows # other
    BY <2>1
  <2> QED
    BY <1>3, <2>2, <2>3 DEF StorableInv
<1>7. CASE MainFails
  <2>1. UNCHANGED <<table, pos, file>>
    BY <1>7 DEF MainFails, FilesKept
  <2>2. Scanned' = Scanned
    BY <2>1, LinesKept
  <2>3. ~call["main"].stored => Storable(MainRows)
    <3>1. CASE pc \in {"scan", "last"}
      <4>1. /\ ~call["main"].stored => ~Acknowledged
            /\ call["main"].at # "failed" /\ MainRows = batch
        BY <1>7, <3>1, MainRecords DEF MainFails, Acknowledged
      <4> QED
        BY <3>1, <4>1 DEF StorableInv
    <3>2. CASE pc \notin {"scan", "last"}
      BY <1>7, <3>2, MainRecords, WithoutLines DEF MainFails, Storable
    <3> QED
      BY <3>1, <3>2
  <2>4. ~call["main"].stored => Fits(MainRows, RowsOf(table'), Scanned')
    BY <2>1, <2>2, <2>3 DEF Storable
  <2>5. \A rows \in strays' : rows \in strays \/ (~call["main"].stored /\ rows = MainRows)
    BY <1>7, MainRecords DEF MainFails
  <2>6. ASSUME NEW rows \in strays', rows \notin strays PROVE Storable(rows)'
    <3>1. Fits(rows, RowsOf(table'), Scanned')
      BY <2>4, <2>5, <2>6
    <3> QED
      BY <3>1 DEF Storable
  <2> QED
    BY <1>2, <2>1, <2>2, <2>6
<1>8. CASE SamplerFails
  <2>1. UNCHANGED <<table, pos, file>>
    BY <1>8 DEF SamplerFails, FilesKept
  <2>2. Scanned' = Scanned
    BY <2>1, LinesKept
  <2>3. \A stored, scanned : Fits(call["sampler"].rows, stored, scanned)
    BY <1>8, SamplerRecords, WithoutLines DEF SamplerFails
  <2>4. \A rows \in strays' : rows \in strays \/ rows = call["sampler"].rows
    BY <1>8 DEF SamplerFails
  <2> QED
    BY <1>2, <2>1, <2>2, <2>3, <2>4 DEF Storable
<1>9. CASE UNCHANGED <<table, strays>>
  BY <1>1, <1>2, <1>9, ScannedKept
<1> QED
  BY <1>4, <1>5, <1>6, <1>7, <1>8, <1>9 DEF RowNext, Quiet, MainBegins, MainTakes, Opened,
     Opens,
     Scans, Ends, Writes, MainAnswered, collectorVars

LEMMA StrayLines ==
  ASSUME CallsTyped, StatementsTyped, BatchInv, MainCallInv, SamplerCallInv, StorableInv, RowNext
  PROVE  /\ \A rows \in strays' : Has(rows, Sources) => GaveUp'
         /\ \A rows, other \in strays' :
              Has(rows, Sources) /\ Has(other, Sources) => rows = other
<1>1. CASE strays' \subseteq strays
  BY <1>1, GaveUpStays DEF StorableInv
<1>2. CASE MainFails /\ strays' = strays \cup {call["main"].rows}
  <2>1. ~GaveUp /\ call["main"].rows = MainRows
        /\ (pc \notin {"scan", "last"} => ~Has(MainRows, Sources))
    BY <1>2, MainRecords DEF MainFails
  <2>2. \A rows \in strays : ~Has(rows, Sources)
    BY <2>1 DEF StorableInv
  <2>3. Has(MainRows, Sources) => GaveUp'
    BY <1>2, <2>1 DEF MainFails, GaveUp
  <2> QED
    BY <1>2, <2>1, <2>2, <2>3
<1>3. CASE SamplerFails /\ strays' = strays \cup {call["sampler"].rows}
  <2>1. ~Has(call["sampler"].rows, Sources)
    BY <1>3, SamplerRecords DEF SamplerFails
  <2> QED
    BY <1>3, <2>1, GaveUpStays DEF StorableInv
<1> QED
  BY <1>1, <1>2, <1>3 DEF RowNext, Quiet, MainBegins, MainTakes, Opened, Opens, Scans, Ends,
     Writes,
     MainStores, SamplerStores, StrayStored, MainAnswered, MainFails, SamplerFails,
     collectorVars

(* The record of the run.                                                  *)
LEMMA CompleteAtEnd ==
  ASSUME StatementsTyped, FileInv, BatchInv, CoverInv, pc = "vmStopped"
  PROVE  Complete
<1>1. Scanned \subseteq RowsOf(table)
  BY NoRows DEF CoverInv, BatchInv
<1>2. \A s \in Sources : opened[s] <= pos[s] /\ opened[s] \in Nat /\ pos[s] \in Nat
  BY DEF FileInv, StatementsTyped, Sources
<1>3. ASSUME NEW s \in Sources PROVE TextRows(s, opened[s]) \subseteq Scanned
  <2>1. \A i \in 1..opened[s] : i \in 1..pos[s]
    BY <1>2
  <2>2. TextRows(s, opened[s]) \subseteq TextRows(s, pos[s])
    BY <2>1 DEF TextRows
  <2> QED
    BY <2>2 DEF Scanned, Sources
<1> QED
  BY <1>1, <1>3 DEF Complete, CoverInv

LEMMA EndStays ==
  ASSUME StatementsTyped, MainCallInv, RowNext, pc \in {"vmStopped", "ended"}
  PROVE  pc' \in {"vmStopped", "ended"} /\ UNCHANGED <<file, opened>>
BY DEF RowNext, Quiet, MainBegins, MainTakes, InsertPcs, Opened, Opens, Scans, ScanLine, Ends,
   EndOfFile, Writes, FirecrackerWrites, MainStores, SamplerStores, StrayStored, MainAnswered,
   MainFails, SamplerFails, FilesKept

LEMMA CompleteStays ==
  ASSUME CallsTyped, StatementsTyped, BatchInv, MainCallInv, SamplerCallInv, RowNext, Complete,
         pc \in {"vmStopped", "ended"}
  PROVE  Complete'
<1>1. UNCHANGED <<file, opened>> /\ RowsOf(table) \subseteq RowsOf(table')
  BY EndStays, RowsStay
<1>2. \A s \in Sources : TextRows(s, opened[s])' = TextRows(s, opened[s])
  BY <1>1 DEF TextRows
<1> QED
  BY <1>1, <1>2 DEF Complete

(* What adds vm.stopped to the table or to what is astray.                 *)
LEMMA StoppedStep ==
  ASSUME CallsTyped, StatementsTyped, FileInv, BatchInv, MainCallInv, SamplerCallInv, CoverInv,
         StoppedInv, RowNext
  PROVE  StoppedInv'
<1>1. ASSUME NEW rows \in strays', Has(rows, {"vm.stopped"})
      PROVE  Complete /\ pc \in {"vmStopped", "ended"}
  <2>1. CASE rows \in strays
    BY <1>1, <2>1 DEF StoppedInv
  <2>2. CASE MainFails /\ rows = call["main"].rows
    BY <1>1, <2>2, MainRecords, CompleteAtEnd DEF MainFails
  <2>3. CASE SamplerFails /\ rows = call["sampler"].rows
    BY <1>1, <2>3, SamplerRecords DEF SamplerFails
  <2> QED
    BY <1>1, <2>1, <2>2, <2>3 DEF RowNext, Quiet, MainBegins, MainTakes, Opened, Opens, Scans,
       Ends,
       Writes, MainStores, SamplerStores, StrayStored, MainAnswered, MainFails, SamplerFails,
       collectorVars
<1>2. ASSUME Has(table', {"vm.stopped"}) PROVE pc \in {"vmStopped", "ended"}
  <2>1. ASSUME NEW rows \in Seq(Row), table' = table \o rows
        PROVE  Has(table, {"vm.stopped"}) \/ Has(rows, {"vm.stopped"})
    <3>1. \A row \in RowsOf(table') : row \in RowsOf(table) \/ row \in RowsOf(rows)
      BY <2>1, TableGrows
    <3>2. \E row \in RowsOf(table') : row[1] = "vm.stopped"
      BY <1>2 DEF Has, RowsOf
    <3> QED
      BY <3>1, <3>2 DEF Has, RowsOf
  <2>2. CASE UNCHANGED table
    BY <1>2, <2>2 DEF StoppedInv
  <2>3. CASE MainStores
    BY <2>1, <2>3, MainRecords DEF MainStores, StoppedInv
  <2>4. CASE SamplerStores
    BY <2>1, <2>4, SamplerRecords DEF SamplerStores, StoppedInv
  <2>5. CASE StrayStored
    <3>1. PICK rows \in strays : table' = table \o rows
      BY <2>5 DEF StrayStored
    <3> QED
      BY <2>1, <3>1 DEF StoppedInv, CallsTyped
  <2> QED
    BY <2>2, <2>3, <2>4, <2>5 DEF RowNext, Quiet, MainBegins, MainTakes, Opened, Opens, Scans,
       Ends,
       Writes, MainAnswered, MainFails, SamplerFails, collectorVars
<1> QED
  BY <1>1, <1>2, CompleteStays, EndStays DEF StoppedInv

(* Rows that are stored with vm.stopped come after all others.             *)
StoppedAt(tab, i, lines) ==
  <<"vm.started", 0>> \in {tab[j] : j \in 1..(i - 1)} /\ lines \subseteq {tab[j] : j \in 1..(i - 1)}

LEMMA StoppedJoined ==
  ASSUME NEW p \in Seq(Row), NEW q \in Seq(Row), NEW lines,
         \A i \in DOMAIN p : p[i][1] = "vm.stopped" => StoppedAt(p, i, lines),
         Has(q, {"vm.stopped"}) => <<"vm.started", 0>> \in RowsOf(p) /\ lines \subseteq RowsOf(p)
  PROVE  \A i \in DOMAIN (p \o q) : (p \o q)[i][1] = "vm.stopped" => StoppedAt(p \o q, i, lines)
<1> SUFFICES ASSUME NEW i \in 1..(Len(p) + Len(q)), (p \o q)[i][1] = "vm.stopped"
             PROVE  StoppedAt(p \o q, i, lines)
  BY Joined
<1>1. CASE i \in 1..Len(p)
  <2>1. \A j \in 1..(i - 1) : j \in 1..Len(p)
    BY <1>1, Joined
  <2>2. {(p \o q)[j] : j \in 1..(i - 1)} = {p[j] : j \in 1..(i - 1)}
    BY <2>1, Joined
  <2>3. (p \o q)[i] = p[i] /\ i \in DOMAIN p
    BY <1>1, Joined
  <2> QED
    BY <2>2, <2>3 DEF StoppedAt
<1>2. ASSUME NEW k \in 1..Len(q), i = Len(p) + k PROVE StoppedAt(p \o q, i, lines)
  <2>1. (p \o q)[i] = q[k] /\ k \in DOMAIN q
    BY <1>2, Joined
  <2>2. <<"vm.started", 0>> \in RowsOf(p) /\ lines \subseteq RowsOf(p)
    BY <2>1 DEF Has
  <2>3. RowsOf(p) \subseteq {(p \o q)[j] : j \in 1..(i - 1)}
    <3> SUFFICES ASSUME NEW row \in RowsOf(p) PROVE row \in {(p \o q)[j] : j \in 1..(i - 1)}
      OBVIOUS
    <3>1. PICK j \in 1..Len(p) : row = p[j]
      BY Joined DEF RowsOf
    <3>2. j \in 1..(i - 1) /\ row = (p \o q)[j]
      BY <3>1, <1>2, Joined
    <3> QED
      BY <3>2
  <2> QED
    BY <2>2, <2>3 DEF StoppedAt
<1>3. i \in 1..Len(p) \/ \E k \in 1..Len(q) : i = Len(p) + k
  BY Joined
<1> QED
  BY <1>1, <1>2, <1>3

(* The lines that were in the files when they were opened.                 *)
OpenedLines == TextRows("log", opened["log"]) \cup TextRows("metrics", opened["metrics"])

LEMMA RecordStep ==
  ASSUME CallsTyped, StatementsTyped, FileInv, BatchInv, MainCallInv, SamplerCallInv, CoverInv,
         StorableInv, StoppedInv, StoppedMeansComplete, RowNext
  PROVE  StoppedMeansComplete'
<1>o. /\ StoppedMeansComplete <=>
           \A i \in DOMAIN table : table[i][1] = "vm.stopped" => StoppedAt(table, i, OpenedLines)
      /\ StoppedMeansComplete' <=>
           \A i \in DOMAIN table' : table'[i][1] = "vm.stopped" => StoppedAt(table', i, OpenedLines')
  BY DEF StoppedMeansComplete, StoppedAt, OpenedLines, Before, Sources
<1>l. UNCHANGED <<file, opened>> => OpenedLines' = OpenedLines
  BY DEF OpenedLines, TextRows
<1>c. Complete => <<"vm.started", 0>> \in RowsOf(table) /\ OpenedLines \subseteq RowsOf(table)
  BY DEF Complete, OpenedLines, Sources
<1>1. CASE UNCHANGED table
  <2>1. CASE Has(table, {"vm.stopped"})
    <3>1. OpenedLines' = OpenedLines
      BY <1>l, <2>1, EndStays DEF StoppedInv
    <3> QED
      BY <1>1, <1>o, <3>1
  <2>2. CASE ~Has(table, {"vm.stopped"})
    BY <1>1, <1>o, <2>2 DEF Has
  <2> QED
    BY <2>1, <2>2
<1>2. ASSUME NEW rows, Stores(rows), Has(rows, {"vm.stopped"}) => Complete
      PROVE  StoppedMeansComplete'
  <2>1. OpenedLines' = OpenedLines
    BY <1>2, <1>l DEF Stores, FilesKept
  <2>2. \A i \in DOMAIN table' : table'[i][1] = "vm.stopped" => StoppedAt(table', i, OpenedLines)
    BY <1>2, <1>o, <1>c, StoppedJoined DEF Stores, CallsTyped
  <2> QED
    BY <1>o, <2>1, <2>2
<1>3. CASE MainStores
  BY <1>2, <1>3, StoreMain, MainRecords, CompleteAtEnd DEF MainStores
<1>4. CASE SamplerStores
  BY <1>2, <1>4, StoreSampler, SamplerRecords DEF SamplerStores
<1>5. CASE StrayStored
  <2>1. PICK rows \in strays : table' = table \o rows
    BY <1>5 DEF StrayStored
  <2> QED
    BY <1>2, <1>5, <2>1, StoreStrayRows DEF StoppedInv
<1> QED
  BY <1>1, <1>3, <1>4, <1>5 DEF RowNext, Quiet, MainBegins, MainTakes, Opened, Opens, Scans,
     Ends,
     Writes, MainAnswered, MainFails, SamplerFails, collectorVars

---------------------------------------------------------------------------
(* The theorems.                                                           *)

LEMMA NoCallYet ==
  ASSUME StreamInit, NEW c \in Callers
  PROVE  /\ call[c].at = "idle" /\ call[c].age = 0 /\ call[c].since = 0 /\ call[c].stored = FALSE
         /\ call[c] \in CallType /\ ~InCall(c)
<1>1. call[c] = Call("idle", <<>>)
  BY DEF StreamInit, CollectorInit
<1>2. /\ Call("idle", <<>>).at = "idle" /\ Call("idle", <<>>).age = 0
      /\ Call("idle", <<>>).since = 0 /\ Call("idle", <<>>).stored = FALSE
  BY DEF Call
<1>3. Call("idle", <<>>) \in CallType
  BY CallTyped, NoRowsTyped
<1> QED
  BY <1>1, <1>2, <1>3 DEF InCall, Waiting, Holding

LEMMA SharedInit == StreamInit => SharedInv
<1> SUFFICES ASSUME StreamInit PROVE SharedInv
  OBVIOUS
<1>e. <<>> \in Seq(Row) /\ \A c \in Callers : call[c] = Call("idle", <<>>)
  BY NoRowsTyped DEF StreamInit, CollectorInit
<1>1. CallsTyped
  <2>1. call \in [Callers -> CallType]
    BY NoCallYet DEF StreamInit, CollectorInit
  <2> QED
    BY <1>e, <2>1 DEF CallsTyped, StreamInit, CollectorInit
<1>2. CollectorTypeOK
  <2>1. \A c \in Callers : /\ call[c].at = "idle" /\ call[c].age = 0 /\ call[c].since = 0
                           /\ call[c].stored = FALSE
    BY NoCallYet
  <2>2. mu = "free" /\ passedOver = {} /\ health \in {"fast", "poor"}
    BY DEF StreamInit, CollectorInit
  <2>3. \A c \in Callers : mu = c <=> Holding(c)
    BY <2>1, <2>2, CollectorAssumption DEF Holding
  <2>4. \A c \in Callers : /\ call[c].at \in {"idle", "lock", "dial", "sent", "ok", "failed"}
                           /\ call[c].age \in Nat /\ call[c].since \in 0..call[c].age
                           /\ call[c].stored \in BOOLEAN
    <3> TAKE c \in Callers
    <3>1. call[c].age = 0 /\ call[c].since = 0
      BY <2>1
    <3>2. call[c].since \in 0..call[c].age
      BY <3>1
    <3>3. call[c].at = "idle" /\ call[c].stored = FALSE
      BY <2>1
    <3>4. call[c].stored \in BOOLEAN
      BY <3>3
    <3> QED
      BY <3>1, <3>2, <3>3, <3>4
  <2> QED
    BY <2>2, <2>3, <2>4 DEF CollectorTypeOK
<1>3. TurnInv
  BY DEF TurnInv, StreamInit, CollectorInit
<1>4. BoundInv
  BY <1>e, CollectorAssumption DEF BoundInv, Waiting, Holding, Call
<1>5. FastInv
  BY <1>e, CollectorAssumption DEF FastInv, FastBound, Held, Waiting, Holding, Call
<1> QED
  BY <1>1, <1>2, <1>3, <1>4, <1>5 DEF SharedInv

LEMMA SharedStep ==
  ASSUME SharedInv, [CollectorNext]_collectorVars PROVE SharedInv'
<1>a. CallsTyped /\ CollectorTypeOK /\ TurnInv /\ BoundInv /\ FastInv
  BY DEF SharedInv
<1>1. CallsTyped'
  BY <1>a, CallsTypedStep
<1>2. CollectorTypeOK'
  <2>0. ClockInv /\ MutexInv /\ PassedOverInv
    BY <1>a DEF CollectorTypeOK, ClockInv, MutexInv, PassedOverInv, CallsTyped, CallType
  <2>1. \A c \in Callers : call'[c].since <= call'[c].age
    BY <1>a, <2>0, ClockStep DEF ClockInv
  <2>2. mu' \in Callers \cup {"free"} /\ (\A c \in Callers : mu' = c <=> Holding(c)')
    BY <1>a, <2>0, MutexStep DEF MutexInv
  <2>3. passedOver' \subseteq {c \in Callers : Waiting(c)'}
    BY <1>a, <2>0, PassedOverStep DEF PassedOverInv
  <2>4. health' = health
    BY DEF CollectorNext, Recording, Begin, Take, Lock, Send, Store, Answer, Fail, Returns,
       StoreStray, Tick, collectorVars
  <2>5. \A c \in Callers :
          /\ call'[c].at \in {"idle", "lock", "dial", "sent", "ok", "failed"}
          /\ call'[c].age \in Nat /\ call'[c].since \in Nat /\ call'[c].stored \in BOOLEAN
    BY <1>1 DEF CallsTyped, CallType
  <2>6. \A c \in Callers : call'[c].since \in 0..call'[c].age
    BY <2>1, <2>5
  <2> QED
    BY <1>a, <2>2, <2>3, <2>4, <2>5, <2>6 DEF CollectorTypeOK
<1>3. TurnInv'
  BY <1>a, TurnStep
<1>4. BoundInv'
  BY <1>a, BoundStep
<1>5. FastInv'
  <2>1. health' = health
    BY DEF CollectorNext, Recording, Begin, Take, Lock, Send, Store, Answer, Fail, Returns,
       StoreStray, Tick, collectorVars
  <2>2. AnswersInTime' = AnswersInTime
    BY <2>1 DEF AnswersInTime
  <2>3. AnswersInTime => FastBound'
    BY <1>a, FastStep DEF FastInv
  <2> QED
    BY <2>2, <2>3 DEF FastInv
<1> QED
  BY <1>1, <1>2, <1>3, <1>4, <1>5 DEF SharedInv

LEMMA MainInit == StreamInit => MainInv
<1> SUFFICES ASSUME StreamInit PROVE MainInv
  OBVIOUS
<1>e. EmptyFile \in [kind: FileKinds, lines: Seq(LineKinds)] /\ Len(EmptyFile.lines) = 0
  BY DEF EmptyFile, FileKinds
<1>1. StatementsTyped
  <2>1. file \in [Sources -> [kind: FileKinds, lines: Seq(LineKinds)]]
    BY <1>e DEF StreamInit
  <2>2. pos \in [Sources -> Nat] /\ opened \in [Sources -> Nat]
    BY DEF StreamInit
  <2>3. samples \in 0..MaxSamples /\ batch \in Seq(Row)
    BY NoRowsTyped, EventStreamAssumption DEF StreamInit
  <2> QED
    BY <2>1, <2>2, <2>3 DEF StatementsTyped, StreamInit, Pcs, Sources
<1>2. SamplerInv
  BY EventStreamAssumption DEF SamplerInv, StreamInit
<1>3. FileInv
  BY <1>e DEF FileInv, StreamInit, Sources, BeforeFiles
<1>4. BatchInv
  BY EventStreamAssumption DEF BatchInv, StreamInit
<1> QED
  BY <1>1, <1>2, <1>3, <1>4 DEF MainInv

LEMMA MainStep ==
  ASSUME MainInv, [StreamNext]_streamVars PROVE MainInv'
<1>a. StatementsTyped /\ SamplerInv /\ FileInv /\ BatchInv
  BY DEF MainInv
<1> QED
  BY <1>a, StatementsTypedStep, SamplerInvStep, FileStep, BatchStep DEF MainInv

LEMMA RowsInit == StreamInit => RowsInv
<1> SUFFICES ASSUME StreamInit PROVE RowsInv
  OBVIOUS
<1>1. /\ table = <<>> /\ strays = {} /\ pc = "vmStarted" /\ batch = <<>>
      /\ pos["log"] = 0 /\ pos["metrics"] = 0
  BY DEF StreamInit, CollectorInit, Sources
<1>2. \A c \in Callers : call[c].at = "idle" /\ ~InCall(c)
  BY NoCallYet
<1>3. call["main"].at = "idle" /\ ~InCall("main") /\ ~InCall("sampler")
  BY <1>2, EventStreamAssumption
<1>4. Scanned = {}
  BY <1>1 DEF Scanned, TextRows
<1>5. DOMAIN table = {}
  BY <1>1
<1>6. MainCallInv /\ SamplerCallInv /\ AckInv
  BY <1>3 DEF MainCallInv, SamplerCallInv, AckInv, Acknowledged
<1>7. CoverInv /\ StorableInv
  BY <1>1, <1>4 DEF CoverInv, StorableInv
<1>8. StoppedInv /\ NativeInOrder /\ StoppedMeansComplete
  BY <1>1, <1>5 DEF StoppedInv, Has, NativeInOrder, StoppedMeansComplete
<1> QED
  BY <1>6, <1>7, <1>8 DEF RowsInv

LEMMA RowsInvStep ==
  ASSUME CallsTyped, MainInv, RowsInv, [StreamNext]_streamVars PROVE RowsInv'
<1>a. /\ StatementsTyped /\ FileInv /\ BatchInv /\ MainCallInv /\ SamplerCallInv /\ AckInv
      /\ CoverInv /\ StorableInv /\ StoppedInv /\ NativeInOrder /\ StoppedMeansComplete
  BY DEF MainInv, RowsInv
<1>b. RowNext
  BY <1>a, RowStep
<1>1. MainCallInv' /\ SamplerCallInv'
  BY <1>a, <1>b, MainCallStep, SamplerCallStep
<1>2. AckInv' /\ CoverInv'
  BY <1>a, <1>b, AckStep, CoverStep
<1>3. NativeInOrder'
  BY <1>a, <1>b, OrderStep
<1>4. StorableInv'
  <2>1. pc' \in {"scan", "last"} /\ ~Acknowledged' /\ call'["main"].at # "failed" => Storable(batch)'
    BY <1>a, <1>b, BatchFits
  <2>2. \A rows \in strays' : Storable(rows)'
    BY <1>a, <1>b, StraysFit
  <2>3. /\ \A rows \in strays' : Has(rows, Sources) => GaveUp'
        /\ \A rows, other \in strays' : Has(rows, Sources) /\ Has(other, Sources) => rows = other
    BY <1>a, <1>b, StrayLines
  <2> QED
    BY <2>1, <2>2, <2>3 DEF StorableInv
<1>5. StoppedInv' /\ StoppedMeansComplete'
  BY <1>a, <1>b, StoppedStep, RecordStep
<1> QED
  BY <1>1, <1>2, <1>3, <1>4, <1>5 DEF RowsInv

(* What a caller waits for, and which statement main and the sampler are   *)
(* at, whatever the server does and whoever takes the mutex first.         *)
THEOREM CallInvariance == StreamSpec => [](SharedInv /\ MainInv)
<1>1. StreamInit => SharedInv /\ MainInv
  BY SharedInit, MainInit
<1>2. SharedInv /\ MainInv /\ [StreamNext]_streamVars => SharedInv' /\ MainInv'
  <2> SUFFICES ASSUME SharedInv, MainInv, [StreamNext]_streamVars PROVE SharedInv' /\ MainInv'
    OBVIOUS
  <2>1. [CollectorNext]_collectorVars
    BY CollectorTaken DEF MainInv
  <2> QED
    BY <2>1, SharedStep, MainStep
<1> QED
  BY <1>1, <1>2, PTL DEF StreamSpec

(* The variables have their types, with the counters below their bounds.   *)
THEOREM StreamTypeCorrect == StreamSpec => []StreamTypeOK
<1>1. SharedInv /\ MainInv => StreamTypeOK
  <2> SUFFICES ASSUME SharedInv, MainInv PROVE StreamTypeOK
    OBVIOUS
  <2>1. CollectorTypeOK
    BY DEF SharedInv
  <2>2. StatementsTyped /\ SamplerInv /\ FileInv /\ BatchInv
    BY DEF MainInv
  <2>3. \A s \in Sources : pos[s] \in 0..Len(file[s].lines)
    BY <2>2 DEF StatementsTyped, FileInv, Sources
  <2> QED
    BY <2>1, <2>2, <2>3 DEF StreamTypeOK, StatementsTyped, SamplerInv, BatchInv, Pcs
<1> QED
  BY <1>1, CallInvariance, PTL

(* No insert takes longer than two deadlines, although the mutex has no    *)
(* timeout: a caller is overtaken once, by a call that is bounded itself.  *)
THEOREM BoundedRecord == StreamSpec => []RecordBounded
<1>1. SharedInv => RecordBounded
  BY DEF SharedInv, BoundInv, RecordBounded
<1> QED
  BY <1>1, CallInvariance, PTL

(* A server that answers in less than a third of the deadline never makes  *)
(* an insert fail, for every deadline and every time to answer.            *)
THEOREM FastServerNeverFails == StreamSpec => []NoFalseFailure
<1>1. SharedInv => NoFalseFailure
  BY DEF SharedInv, FastInv, FastBound, NoFalseFailure
<1> QED
  BY <1>1, CallInvariance, PTL

(* The whole invariant, with the way of the rows to the table.             *)
THEOREM StreamInvariance == StreamSpec => []SInv
<1>1. StreamInit => RowsInv
  BY RowsInit
<1>2. SharedInv /\ MainInv /\ RowsInv /\ [StreamNext]_streamVars => RowsInv'
  BY RowsInvStep DEF SharedInv
<1>3. SharedInv /\ MainInv /\ RowsInv => SInv
  BY DEF SInv
<1> QED
  BY <1>1, <1>2, <1>3, CallInvariance, PTL DEF StreamSpec

(* The lines of Firecracker's files reach the table in the order of the    *)
(* files, each once and none left out before another, for every content of *)
(* the files, every size of a batch, and inserts that fail or come late.   *)
THEOREM OrderedLines == StreamSpec => []NativeInOrder
<1>1. SInv => NativeInOrder
  BY DEF SInv, RowsInv
<1> QED
  BY <1>1, StreamInvariance, PTL

(* vm.stopped in the table means that the record of the run is complete.   *)
THEOREM CompleteRecord == StreamSpec => []StoppedMeansComplete
<1>1. SInv => StoppedMeansComplete
  BY DEF SInv, RowsInv
<1> QED
  BY <1>1, StreamInvariance, PTL

(* The collector under a supervisor is the table that RecordMany promises: *)
(* a batch is there as a whole or not at all, once, and before its call    *)
(* returns without an error.                                               *)
THEOREM TableRefinement == StreamSpec => TableImplements
<1>1. StreamInit => Table!Init
  <2> SUFFICES ASSUME StreamInit PROVE Table!Init
    OBVIOUS
  <2>2. \A c \in Callers : call[c].at = "idle" /\ ~InCall(c)
    BY NoCallYet
  <2>3. \A c \in Callers : OpenCalls[c] = Table!Closed("idle")
    BY <2>2 DEF OpenCalls, Table!Closed
  <2>4. OpenCalls = [c \in Callers |-> Table!Closed("idle")]
    BY <2>3 DEF OpenCalls
  <2>5. table = <<>> /\ strays = {}
    BY DEF StreamInit, CollectorInit
  <2> QED
    BY <2>4, <2>5 DEF Table!Init
<1>2. SharedInv /\ MainInv /\ [StreamNext]_streamVars => [Table!Next]_(Table!tableVars)
  BY CollectorTaken, TableStep DEF MainInv, SharedInv
<1> QED
  BY <1>1, <1>2, CallInvariance, PTL DEF StreamSpec, TableImplements, Table!Spec
=============================================================================
