---------------------------- MODULE SupervisorInv ----------------------------
(***************************************************************************)
(* The inductive invariant of Supervisor: what holds between two steps of  *)
(* the supervisor, as conjuncts by subject.  Each safety property of       *)
(* Supervisor follows from it.                                             *)
(***************************************************************************)
EXTENDS Supervisor

(* Statements before Start, and statements after it.                       *)
BeforeVm == {"runtimePaths", "prepareRootFS", "createStarted", "newMachine", "machineStart"}
WithVm   == {"machinePID", "writeRunning", "startWorkers", "vmStarted"}
              \cup RunPcs \cup EndPcs \cup ReportPcs
Ended    == {"deferRemove", "deferRmdir", "exited"}

(* The VM exists from Start on, and the deferred StopVMM condemns it.      *)
VmmInv ==
  /\ pc \in BeforeVm => vmm = "none"
  /\ pc \in WithVm => vmm # "none"
  /\ pc \in Ended /\ "stopVmm" \notin Faults => vmm # "running"

(* Statements at which the stop channel of w may be closed while its       *)
(* handle is still set: its own join, and those that use it no more.       *)
AfterClose(w) ==
  {"deferJoinSampler", "deferStopVMM", "deferRemove", "deferRmdir"} \cup Final
    \cup IF w = "flusher"
         THEN {"joinFlusher", "endJoinFlusher", "deferJoinFlusher", "deferSampler"}
         ELSE {"endJoinSampler"}

PanicInv ==
  /\ \A w \in Workers : /\ pc \in StartPcs => w \notin closed
                        /\ w \in handles \cap closed => pc \in AfterClose(w)
  /\ pc = "panicked" => request.HypervisorSampleIntervalMS <= 0

(* A stopper is set to nil when its goroutine has returned.                *)
NoFlusherPcs == {"endSampler", "endJoinSampler", "writeStopped"} \cup ReportPcs
NoSamplerPcs == {"writeStopped"} \cup ReportPcs

WorkersInv ==
  /\ \A w \in Workers : w \notin handles => routine[w] \in {"off", "done"}
  /\ pc \in NoFlusherPcs => "flusher" \notin handles
  /\ pc \in NoSamplerPcs => "sampler" \notin handles
  /\ Recorded("vm.stopped") =>
       /\ pc \in {"rewriteState"} \cup DeferPcs \cup Final
       /\ \A w \in Workers : routine[w] \in {"off", "done"}

(* The mutex is held where it is taken, and a worker that is joined has    *)
(* been started, once, and told to stop.                                   *)
WaitInv ==
  Alive =>
    /\ mu = "main" <=> pc = "finalSample"
    /\ mu = "sampler" <=> routine["sampler"] \in {"firstSample", "sample"}
    /\ routine["flusher"] \in {"off", "idle", "flush", "done"} /\ routine["sampler"] # "flush"
    /\ \A w \in Workers : /\ pc \in StartPcs \ {"vmStarted"} => routine[w] = "off"
                          /\ w \in handles => routine[w] # "off"
                          /\ pc \in JoinPcs(w) => w \in handles /\ w \in closed

(* Who leaves the running phase knows that the VM is condemned, so that a  *)
(* signal that hits a running VM comes before the marker is looked for.    *)
Condemned == ctxDone \/ vmm # "running"
Judged    == (EndPcs \ {"checkMarker"}) \cup ReportPcs

StopInv ==
  /\ waitCh \in {"nil", "err"} => ctxDone \/ vmm = "exited"
  /\ pc \in BeforeVm => ~stopHit
  /\ "stopVmm" \notin Faults =>
       /\ pc = "await" => vmm # "running"
       /\ pc \in EndPcs \cup ReportPcs \/ Recorded("vm.stopped") => Condemned
       /\ stopHit => ctxDone /\ (Alive => workspace = "marked" \/ pc = "deferRmdir")
       /\ stopHit /\ (pc \in Judged \/ Recorded("vm.stopped"))
            => stopReason = "provider_stop_requested" /\ exitCode = 0

(* The lifecycle log and the state file at each statement.                 *)
LastLogged == IF log = <<>> THEN "nothing" ELSE log[Len(log)]

LogInv ==
  /\ pc \in {"runtimePaths", "prepareRootFS", "createStarted"} => log = <<>>
  /\ pc \in StartPcs \ {"runtimePaths", "prepareRootFS", "createStarted"}
       => LastLogged = "create.started"
  /\ pc \in RunPcs \cup EndPcs \cup {"emitNative"} => LastLogged = "vm.started"
  /\ pc = "vmStopped" => LastLogged = "native"
  /\ pc = "rewriteState" => LastLogged = "vm.stopped"
  /\ pc \in StartPcs \ {"startWorkers", "vmStarted"} => stateFile = "absent"
  /\ pc \in {"startWorkers", "vmStarted"} \cup RunPcs \cup EndPcs => stateFile = "running"
  /\ pc \in ReportPcs => stateFile \in {"running", "stopped"}

(* The whole invariant: it is inductive, and every safety property of      *)
(* Supervisor follows from it.                                             *)
Inv == TypeOK /\ VmmInv /\ PanicInv /\ WorkersInv /\ WaitInv /\ StopInv /\ LogInv
=============================================================================
