------------------------------ MODULE Collector ------------------------------
(***************************************************************************)
(* Collector.RecordMany of internal/collector.go: goroutines of one        *)
(* process insert batches of rows through one mutex.  Each call has a      *)
(* context with a deadline that starts BEFORE it waits for the mutex,      *)
(* which does not look at the context; the transport waits for the headers *)
(* of an answer for a time of its own.  Time passes in ticks.  The mutex   *)
(* is Go's, the server is RawTree: they are modelled from their use.       *)
(***************************************************************************)
EXTENDS Integers, Sequences

CONSTANTS
  Callers,        \* the goroutines that record events
  Deadline,       \* ticks of a call's context (15 s)
  HeaderTimeout,  \* ticks until the headers of an answer (10 s)
  Service         \* ticks that a fast server takes for an insert

ASSUME CollectorAssumption ==
  /\ Deadline \in Nat \ {0} /\ HeaderTimeout \in Nat \ {0} /\ Service \in Nat
  /\ "free" \notin Callers

VARIABLES
  call,        \* caller -> [at, rows, age, since, stored]: its RecordMany
  mu,          \* who holds the mutex, or "free"
  passedOver,  \* callers that waited for the mutex and saw another take it
  table,       \* the rows in RawTree
  strays,      \* batches sent by failed calls that may still be stored
  health       \* of the network and the server: "fast" or "poor"

collectorVars == <<call, mu, passedOver, table, strays, health>>

Call(at, rows) == [at |-> at, rows |-> rows, age |-> 0, since |-> 0, stored |-> FALSE]

CollectorInit ==
  /\ call = [c \in Callers |-> Call("idle", <<>>)] /\ mu = "free" /\ passedOver = {}
  /\ table = <<>> /\ strays = {} /\ health \in {"fast", "poor"}

Waiting(c) == call[c].at = "lock"
Holding(c) == call[c].at \in {"dial", "sent"}

---------------------------------------------------------------------------
(* RecordMany.                                                             *)

(* The context is made here.  A caller has no empty batch to record: the   *)
(* code returns nil for it, without a call.                                *)
Begin(c, rows) ==
  /\ call[c].at = "idle" /\ call' = [call EXCEPT ![c] = Call("lock", rows)]
  /\ UNCHANGED <<mu, passedOver, table, strays, health>>

(* sync.Mutex lets a newcomer overtake a waiter once: a waiter that was    *)
(* passed over is handed the mutex next.                                   *)
MayLock(c) == mu = "free" /\ Waiting(c) /\ (passedOver = {} \/ c \in passedOver)

Lock(c) ==
  /\ MayLock(c) /\ mu' = c /\ call' = [call EXCEPT ![c].at = "dial"]
  /\ passedOver' = {d \in Callers \ {c} : d \in passedOver \/ (Waiting(d) /\ call[d].age > 0)}
  /\ UNCHANGED <<table, strays, health>>

(* Mutant: a deadline with no room for the wait.                           *)
ExpiredTooSoon(c) == call[c].age >= Service + 1

Expired(c) == call[c].age >= Deadline

(* Do: a connection is made or reused and the request written.             *)
Send(c) ==
  /\ call[c].at = "dial" /\ ~Expired(c)
  /\ call' = [call EXCEPT ![c].at = "sent", ![c].since = 0]
  /\ UNCHANGED <<mu, passedOver, table, strays, health>>

(* The server takes the batch as a whole.                                  *)
Store(c) ==
  /\ call[c].at = "sent" /\ ~call[c].stored
  /\ call' = [call EXCEPT ![c].stored = TRUE] /\ table' = table \o call[c].rows
  /\ UNCHANGED <<mu, passedOver, strays, health>>

(* Mutant: RecordMany leaves without the deferred Unlock when it fails.    *)
ReturnsLocked(c, how) ==
  /\ call' = [call EXCEPT ![c] = Call(how, <<>>)]
  /\ mu' = IF how = "ok" THEN "free" ELSE mu
  /\ UNCHANGED <<passedOver, health>>

Returns(c, how) ==
  /\ call' = [call EXCEPT ![c] = Call(how, <<>>)] /\ mu' = "free"
  /\ UNCHANGED <<passedOver, health>>

(* Mutant: the status of the answer is not looked at.                      *)
AnyAnswer(c) ==
  /\ call[c].at = "sent" /\ (call[c].stored \/ health = "poor")
  /\ Returns(c, "ok") /\ UNCHANGED <<table, strays>>

(* A status from 200 to 299: the batch is stored.                          *)
Answer(c) ==
  /\ call[c].at = "sent" /\ call[c].stored
  /\ Returns(c, "ok") /\ UNCHANGED <<table, strays>>

HeadersOverdue(c) == call[c].at = "sent" /\ call[c].since >= HeaderTimeout

(* No connection, a connection lost, another status, or a timeout.  What   *)
(* was sent may be stored when nobody waits for it.                        *)
Fail(c) ==
  /\ Holding(c) /\ (health = "poor" \/ Expired(c) \/ HeadersOverdue(c))
  /\ Returns(c, "failed") /\ UNCHANGED table
  /\ \/ UNCHANGED strays
     \/ call[c].at = "sent" /\ ~call[c].stored /\ strays' = strays \cup {call[c].rows}

(* The caller reads the result and goes on.                                *)
Take(c) ==
  /\ call[c].at \in {"ok", "failed"} /\ call' = [call EXCEPT ![c] = Call("idle", <<>>)]
  /\ UNCHANGED <<mu, passedOver, table, strays, health>>

Recording(c) == Lock(c) \/ Send(c) \/ Store(c) \/ Answer(c) \/ Fail(c)

---------------------------------------------------------------------------
(* The surroundings.                                                       *)

StoreStray ==
  /\ \E rows \in strays : table' = table \o rows /\ strays' = strays \ {rows}
  /\ UNCHANGED <<call, mu, passedOver, health>>

(* Timers fire when they are due, a free mutex is taken at once, and a     *)
(* fast server connects at once and answers in time.                       *)
Due(c) ==
  \/ MayLock(c)
  \/ Holding(c) /\ (Expired(c) \/ HeadersOverdue(c))
  \/ health = "fast" /\ (call[c].at = "dial" \/ (call[c].at = "sent" /\ call[c].since >= Service))

InCall(c) == Waiting(c) \/ Holding(c)

Tick ==
  /\ \E c \in Callers : InCall(c)
  /\ \A c \in Callers : ~Due(c)
  /\ call' = [c \in Callers |-> IF InCall(c) THEN [call[c] EXCEPT !.age = @ + 1, !.since = @ + 1]
                                             ELSE call[c]]
  /\ UNCHANGED <<mu, passedOver, table, strays, health>>

---------------------------------------------------------------------------
(* Correctness.                                                            *)

CollectorTypeOK ==
  /\ \A c \in Callers :
       /\ call[c].at \in {"idle", "lock", "dial", "sent", "ok", "failed"}
       /\ call[c].age \in Nat /\ call[c].since \in 0..call[c].age /\ call[c].stored \in BOOLEAN
       /\ mu = c <=> Holding(c)
  /\ mu \in Callers \cup {"free"} /\ passedOver \subseteq {c \in Callers : Waiting(c)}
  /\ health \in {"fast", "poor"}

(* No insert keeps its caller for longer than two deadlines with two       *)
(* callers, however slow the server is, although the wait for the mutex    *)
(* has no timeout: whoever holds it is held to a deadline, and overtakes   *)
(* the other once.                                                         *)
RecordBounded == \A c \in Callers : call[c].age <= 2 * Deadline

(* A server that answers every insert in less than a third of the deadline *)
(* (and before its headers are overdue) never makes one fail, although the *)
(* deadline runs while the call waits for those of the other caller.  (An  *)
(* insert that fails for the wait alone would end the sandbox: its         *)
(* supervisor returns the error.)                                          *)
AnswersInTime  == health = "fast" /\ Service < HeaderTimeout /\ 3 * Service < Deadline
NoFalseFailure == AnswersInTime => \A c \in Callers : call[c].at # "failed"

(* The table is what RecordMany promises.                                  *)
OpenCalls == [c \in Callers |->
           IF InCall(c) THEN [at |-> "open", rows |-> call[c].rows, stored |-> call[c].stored]
           ELSE [at |-> call[c].at, rows |-> <<>>, stored |-> FALSE]]
Table == INSTANCE EventTable WITH open <- OpenCalls
TableImplements == Table!Spec
=============================================================================
