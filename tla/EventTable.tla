----------------------------- MODULE EventTable -----------------------------
(***************************************************************************)
(* What Collector.RecordMany promises its callers about the RawTree table: *)
(* a batch is appended whole, in one piece and at most once; it is in the  *)
(* table when the call returns nil; and after an error nobody knows: it    *)
(* may be there, it may be lost, and it may still come.                    *)
(***************************************************************************)
EXTENDS Sequences

CONSTANT Callers

VARIABLES
  table,  \* the rows, in the order in which they were stored
  open,   \* caller -> [at, rows, stored]: the call it is in
  strays  \* batches of failed calls that may still be stored

tableVars == <<table, open, strays>>

Closed(how) == [at |-> how, rows |-> <<>>, stored |-> FALSE]

Init == table = <<>> /\ open = [c \in Callers |-> Closed("idle")] /\ strays = {}

Becomes(c, from, to) == open[c].at = from /\ open' = [open EXCEPT ![c] = to]

Begin(c, rows) ==
  /\ rows # <<>> /\ Becomes(c, "idle", [at |-> "open", rows |-> rows, stored |-> FALSE])
  /\ UNCHANGED <<table, strays>>

Store(c) ==
  /\ ~open[c].stored /\ Becomes(c, "open", [open[c] EXCEPT !.stored = TRUE])
  /\ table' = table \o open[c].rows /\ UNCHANGED strays

Succeed(c) ==
  open[c].stored /\ Becomes(c, "open", Closed("ok")) /\ UNCHANGED <<table, strays>>

Fail(c) ==
  /\ Becomes(c, "open", Closed("failed")) /\ UNCHANGED table
  /\ \/ UNCHANGED strays
     \/ ~open[c].stored /\ strays' = strays \cup {open[c].rows}

(* The caller goes on.                                                     *)
Take(c) ==
  /\ \/ Becomes(c, "ok", Closed("idle"))
     \/ Becomes(c, "failed", Closed("idle"))
  /\ UNCHANGED <<table, strays>>

StoreStray ==
  /\ \E rows \in strays : table' = table \o rows /\ strays' = strays \ {rows}
  /\ UNCHANGED open

(* Any batch can be recorded: it is the one the call is left with.         *)
Next ==
  \/ \E c \in Callers : \/ Begin(c, open'[c].rows)
                        \/ Store(c) \/ Succeed(c) \/ Fail(c) \/ Take(c)
  \/ StoreStray

Spec == Init /\ [][Next]_tableVars
=============================================================================
