------------------------------ MODULE OneShotInv ------------------------------
(***************************************************************************)
(* The inductive invariant of OneShot: the parts of the supervisor's one   *)
(* that a one-shot run keeps too, and what it has of its own: nobody stops *)
(* it from the outside, it writes no state file, and its reason changes    *)
(* once, when its VM has exited.                                           *)
(***************************************************************************)
EXTENDS OneShot, SupervisorInv

(* No signal context, no stop marker, no state file.                       *)
AloneInv == ~ctxDone /\ ~stopHit /\ stateFile = "absent" /\ workspace \notin {"marked", "remarked"}

(* Firecracker is blamed only when it has exited, and that is for good.    *)
ReasonInv ==
  /\ stopReason \in {"firecracker_exit", "run_timeout_reached"}
  /\ stopReason = "firecracker_exit" => vmm = "exited" /\ pc \notin BeforeVm

(* The lifecycle log at each statement, and the sampler, which stands for  *)
(* the state file in OneShotLife.                                          *)
BeforeCreate == {"runtimePaths", "prepareRootFS", "createStarted"}

OneShotLogInv ==
  /\ pc \in BeforeCreate => log = <<>>
  /\ pc \in StartPcs \ BeforeCreate => LastLogged = "create.started"
  /\ pc \in RunPcs \cup EndPcs \cup {"emitNative"} => LastLogged = "vm.started"
  /\ pc = "vmStopped" => LastLogged = "native"
  /\ pc \in StartPcs \ {"vmStarted"} => routine["sampler"] = "off"
  /\ pc = "vmStarted" => routine["sampler"] # "off"

(* The whole invariant.                                                    *)
OInv ==
  /\ TypeOK /\ VmmInv /\ PanicInv /\ WorkersInv /\ WaitInv /\ StopInv
  /\ AloneInv /\ ReasonInv /\ OneShotLogInv
=============================================================================
