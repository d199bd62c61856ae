------------------------- MODULE SandboxControlInv -------------------------
(***************************************************************************)
(* The inductive invariant of SandboxControl: the one of the supervisor,   *)
(* what is left behind at the end of a run, and what the commands know of  *)
(* it.                                                                     *)
(***************************************************************************)
EXTENDS SandboxControl, SupervisorInv

(* The workspace: made by the first statement, removed by the last one.    *)
WorkspaceInv ==
  /\ pc = "runtimePaths" => workspace = "absent" /\ handles = {}
  /\ workspace = "absent" => pc \in {"runtimePaths", "exited", "crashed"} /\ stateFile = "absent"
  /\ workspace \in {"emptied", "remarked"} => pc \in {"deferRmdir"} \cup Final
  /\ workspace = "gone" => pc = "exited"

(* What a state file that says "stopped" tells of the supervisor: its      *)
(* workers have been joined, so that it returns or crashes, and does not   *)
(* panic; a return removes the workspace, unless a stop's marker comes in  *)
(* between, and comes after the last event.                                *)
EndInv ==
  /\ pc = "crashed" => "crash" \in Faults
  /\ stateFile = "stopped" =>
       /\ pc \in ReportPcs \cup DeferPcs \cup {"exited", "crashed"}
       /\ handles = {} /\ \A w \in Workers : routine[w] \in {"off", "done"}
       /\ pc = "deferRmdir" /\ "host" \notin Faults => workspace \in {"emptied", "remarked"}
       /\ pc = "exited" /\ "host" \notin Faults => workspace \in {"gone", "remarked"}
       /\ pc \in DeferPcs \cup {"exited"} /\ Faults \cap {"rawtree", "native"} = {}
            => Recorded("vm.stopped")

(* No marker is left to write: the workspace holds one, or is being        *)
(* removed, or the run has ended.                                          *)
MarkTaken == workspace \notin {"absent", "present"} \/ pc \in {"deferRmdir"} \cup Final

(* What a stop has seen stays so: the state file after it was read, the    *)
(* marker after it was left, the end of the supervisor after it was        *)
(* awaited.  The signal that strikes a running VM is the one that the      *)
(* supervisor's context takes.                                             *)
CommandInv ==
  /\ \A p \in Stoppers :
       /\ stopper[p] \in {"mark", "kill", "poll"} => stateFile # "absent"
       /\ stopper[p] = "kill" /\ "marker" \notin CliFaults => MarkTaken
  /\ \A p \in Waits : "this" \notin ToSet(left[p]) => ~Alive /\ stateFile = "stopped"
  /\ struck => ctxDone /\ ("marker" \notin CliFaults /\ "stopVmm" \notin Faults => stopHit)

(* Each property of SandboxControl follows from it.                        *)
CInv == Inv /\ WorkspaceInv /\ EndInv /\ CliTypeOK /\ CommandInv
=============================================================================
