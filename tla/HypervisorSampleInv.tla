------------------------ MODULE HypervisorSampleInv ------------------------
(***************************************************************************)
(* The inductive invariant of HypervisorSample: what the sample knows of   *)
(* the process at each statement.                                          *)
(***************************************************************************)
EXTENDS HypervisorSample

Parts == {"status", "io", "fd", "cgroup"}

(* The parts that are read before a statement.                             *)
PartsBefore ==
  [status |-> {}, io |-> {"status"}, fd |-> {"status", "io"}, cgroup |-> Parts \ {"cgroup"},
   end |-> Parts]

SampleTypeInv ==
  /\ comm \in Comms
  /\ proc \in {"running", "zombie", "gone"}
  /\ at \in {"stat"} \cup DOMAIN PartsBefore
  /\ DOMAIN parts = Parts
  /\ result \in {"none", "success", "failed"}

(* A sample has failed or succeeded at its end, and only there.            *)
ResultInv ==
  /\ at = "end" <=> result # "none"
  /\ result = "failed" => proc = "gone"

(* Behind ReadStat, what was parsed is the process: its name, the fields   *)
(* that the figures are named for, and a state that it was in.             *)
StatInv ==
  (at # "stat" /\ result # "failed") =>
    /\ stat.command = comm /\ (stat.state = "Z" => proc # "running")
    /\ \A figure \in DOMAIN Documented : stat[figure] = Documented[figure]

(* What was read of a process that still runs is its own.                  *)
PartsInv ==
  (at # "stat" /\ result # "failed" /\ proc = "running") =>
    \A part \in PartsBefore[at] : parts[part] = Real(part)

HInv == SampleTypeInv /\ ResultInv /\ StatInv /\ PartsInv
=============================================================================
