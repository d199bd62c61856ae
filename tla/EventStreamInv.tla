--------------------------- MODULE EventStreamInv ---------------------------
(***************************************************************************)
(* The inductive invariant of EventStream, as conjuncts by subject: the    *)
(* collector, whose callers share a mutex and a clock; the statements of   *)
(* main and of its sampler; and the way of a line from its file to the     *)
(* table.                                                                  *)
(***************************************************************************)
EXTENDS EventStream

---------------------------------------------------------------------------
(* The collector.                                                          *)

(* A row names its event, or the file and the line it comes from.          *)
Row == {"vm.started", "sample", "finalSample", "vm.stopped", "log", "metrics"} \X Nat

CallType == [at: {"idle", "lock", "dial", "sent", "ok", "failed"}, rows: Seq(Row),
             age: Nat, since: Nat, stored: BOOLEAN]

CallsTyped ==
  call \in [Callers -> CallType] /\ table \in Seq(Row) /\ strays \subseteq Seq(Row)

(* Every step of the collector, whoever calls it.                          *)
CollectorNext ==
  \/ \E c \in Callers : \/ \E rows \in Seq(Row) \ {<<>>} : Begin(c, rows)
                        \/ Take(c) \/ Recording(c)
  \/ StoreStray \/ Tick

(* With two callers at most one was passed over.                           *)
TurnInv == \A c, d \in passedOver : c = d

(* How long a waiter waits: for the end of one call, and for the call that *)
(* overtook it.                                                            *)
BoundInv ==
  /\ \A c \in Callers : call[c].age <= 2 * Deadline
  /\ \A c \in Callers : Waiting(c) /\ c \notin passedOver => call[c].age <= Deadline
  /\ \A c, d \in Callers : Waiting(c) /\ Holding(d) =>
       call[c].age <= call[d].age + IF c \in passedOver THEN Deadline ELSE 0

(* The same when the server answers in time: every call is held for no     *)
(* longer than the server takes.                                           *)
Held(c) == IF call[c].at = "sent" THEN call[c].since ELSE 0

FastBound ==
  /\ \A c \in Callers : call[c].at # "failed" /\ Held(c) <= Service
  /\ \A c \in Callers : Holding(c) => call[c].age <= 2 * Service + Held(c)
  /\ \A c \in Callers : Waiting(c) =>
       call[c].age <= IF c \in passedOver THEN 2 * Service ELSE Service
  /\ \A c, d \in Callers : Waiting(c) /\ Holding(d) =>
       call[c].age <= Held(d) + IF c \in passedOver THEN Service ELSE 0

FastInv == AnswersInTime => FastBound

---------------------------------------------------------------------------
(* The statements of main and of the sampler.                              *)

Pcs == {"vmStarted", "running", "lockSample", "finalSample", "join", "open", "scan", "last",
        "vmStopped", "ended"}
BeforeFiles == {"vmStarted", "running", "lockSample", "finalSample", "join"}

StatementsTyped ==
  /\ pc \in Pcs /\ routine \in {"lock", "insert", "select", "done"}
  /\ samplerMu \in {"free", "main", "sampler"} /\ samples \in 0..MaxSamples
  /\ file \in [Sources -> [kind: FileKinds, lines: Seq(LineKinds)]]
  /\ pos \in [Sources -> Nat] /\ opened \in [Sources -> Nat] /\ src \in Sources
  /\ batch \in Seq(Row) /\ lingering \in BOOLEAN

SamplerInv ==
  /\ routine = "lock" => samples < MaxSamples
  /\ samplerMu = "sampler" <=> routine = "insert"
  /\ samplerMu = "main" <=> pc = "finalSample"

(* Which file main is at, and how far.                                     *)
FileInv ==
  /\ \A s \in Sources : pos[s] <= Len(file[s].lines) /\ opened[s] <= Len(file[s].lines)
  /\ pc \in BeforeFiles => src = "log"
  /\ pc \in BeforeFiles \cup {"open"} => pos[src] = 0
  /\ src = "log" => pos["metrics"] = 0
  /\ src = "metrics" /\ pc # "ended" => opened["log"] <= pos["log"]
  /\ pc = "last" => opened[src] <= pos[src]
  /\ pc = "vmStopped" => src = "metrics" /\ opened["metrics"] <= pos["metrics"]

BatchInv ==
  /\ Len(batch) <= BatchSize
  /\ pc \notin {"scan", "last", "ended"} => batch = <<>>
  /\ pc = "last" => batch # <<>>
  /\ \A k \in DOMAIN batch : batch[k][1] \in Sources

---------------------------------------------------------------------------
(* From the file to the table.                                             *)

RowsOf(rows) == {rows[k] : k \in DOMAIN rows}

(* What main records at a statement, and its call of RecordMany.           *)
InsertPcs == {"vmStarted", "finalSample", "scan", "last", "vmStopped"}
MainRows ==
  CASE pc = "vmStarted"        -> <<<<"vm.started", 0>>>>
    [] pc = "finalSample"      -> <<<<"finalSample", 0>>>>
    [] pc = "vmStopped"        -> <<<<"vm.stopped", 0>>>>
    [] OTHER                   -> batch

MainCallInv ==
  /\ call["main"].at # "idle" => pc \in InsertPcs /\ (pc = "scan" => Len(batch) = BatchSize)
  /\ InCall("main") => call["main"].rows = MainRows

SamplerCallInv ==
  InCall("sampler") => \A i \in DOMAIN call["sampler"].rows : call["sampler"].rows[i][1] = "sample"

(* The server has what main records.                                       *)
Acknowledged == call["main"].at = "ok" \/ (InCall("main") /\ call["main"].stored)
AckInv == Acknowledged => RowsOf(MainRows) \subseteq RowsOf(table)

(* Every line of text that was scanned is in the table or in the batch, as *)
(* long as main goes on.                                                   *)
CoverInv ==
  /\ pc \notin {"vmStarted", "ended"} => <<"vm.started", 0>> \in RowsOf(table)
  /\ pc # "ended" => Scanned \subseteq RowsOf(table) \cup RowsOf(batch)

(* To append these rows to the table keeps its lines in order.             *)
Fits(rows, stored, scanned) ==
  \A k \in DOMAIN rows : rows[k][1] \in Sources =>
    /\ rows[k] \in scanned
    /\ \A row \in scanned :
         Precedes(row, rows[k]) <=> row \in stored \cup {rows[j] : j \in 1..(k - 1)}

Storable(rows) == Fits(rows, RowsOf(table), Scanned)

Has(rows, names) == \E k \in DOMAIN rows : rows[k][1] \in names

(* Main gave up: it adds nothing to what is there and what is astray.      *)
GaveUp == pc = "ended" \/ (pc \in {"scan", "last"} /\ call["main"].at = "failed")

StorableInv ==
  /\ pc \in {"scan", "last"} /\ ~Acknowledged /\ call["main"].at # "failed" => Storable(batch)
  /\ \A rows \in strays :
       /\ Storable(rows)
       /\ Has(rows, Sources) => GaveUp
       /\ \A other \in strays : Has(rows, Sources) /\ Has(other, Sources) => rows = other

(* The record of the run is complete before vm.stopped is sent.            *)
Complete ==
  /\ <<"vm.started", 0>> \in RowsOf(table)
  /\ \A s \in Sources : TextRows(s, opened[s]) \subseteq RowsOf(table)

StoppedInv ==
  /\ \A rows \in strays : Has(rows, {"vm.stopped"}) => Complete /\ pc \in {"vmStopped", "ended"}
  /\ Has(table, {"vm.stopped"}) => pc \in {"vmStopped", "ended"}

(* The whole invariant.                                                    *)
SharedInv == CallsTyped /\ CollectorTypeOK /\ TurnInv /\ BoundInv /\ FastInv
MainInv   == StatementsTyped /\ SamplerInv /\ FileInv /\ BatchInv
RowsInv   == /\ MainCallInv /\ SamplerCallInv /\ AckInv /\ CoverInv /\ StorableInv
             /\ StoppedInv /\ NativeInOrder /\ StoppedMeansComplete
SInv      == SharedInv /\ MainInv /\ RowsInv
=============================================================================
