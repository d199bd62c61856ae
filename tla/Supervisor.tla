----------------------------- MODULE Supervisor -----------------------------
(***************************************************************************)
(* The supervisor process of one sandbox: RunSandboxSupervisor of          *)
(* internal/orchestrator.go with the goroutines it starts (the hypervisor  *)
(* sampler, the metrics flusher, the waiter on machine.Wait), the          *)
(* Firecracker process it owns, the files it keeps, and the signals and    *)
(* stop markers that reach it from the outside at any moment.              *)
(*                                                                         *)
(* pc names the next statement of the main goroutine; every action of the  *)
(* main goroutine is one call it makes, with all the outcomes of the call. *)
(***************************************************************************)
EXTENDS Integers, Sequences, FiniteSets

CONSTANTS
  Requests,  \* the launch requests the supervisor may be started with
  Faults     \* the kinds of failure that may happen

(* The fields of SandboxLaunchRequest that decide what the supervisor      *)
(* does; Cgroup says that CgroupPath is not empty.                         *)
RequestType == [RunTimeoutMS: Int, HypervisorSampleIntervalMS: Int, MetricsFlushIntervalMS: Int,
                Cgroup: BOOLEAN]

(* host: a file operation of the host fails; machine: NewMachine or Start  *)
(* fails; rawtree: an insert is refused, lost or unacknowledged; native:   *)
(* a native event file cannot be scanned; stopVmm: StopVMM returns an      *)
(* error; crash: the supervisor is killed or out of memory.                *)
FaultKinds == {"host", "machine", "rawtree", "native", "stopVmm", "crash"}

ASSUME RequestsAssumption == Requests \subseteq RequestType
ASSUME FaultsAssumption == Faults \subseteq FaultKinds

VARIABLES
  request,     \* the launch request
  pc,          \* the main goroutine
  stopReason, exitCode,
  vmm,         \* the Firecracker process
  vmmErr,      \* did it exit with an error
  ctxDone,     \* signalCtx is cancelled
  waitCh,      \* "none", then "pending" while machine.Wait blocks, then its result
  routine,     \* the sampler and flusher goroutines
  handles,     \* the workers whose handle is set: sampler # nil, metricsStopper # nil
  closed,      \* the workers whose stop channel is closed
  mu,          \* HypervisorSampler.mu
  workspace,   \* the workspace directory: "marked" when it holds the stop marker, "emptied"
               \* when its removal is under way, "remarked" with a marker written meanwhile
  stateFile,   \* the Status of the sandbox's state file
  cgroup,      \* the sandbox's cgroup directory: "tracked" when cgroupDir names it
  log,         \* the lifecycle events RawTree holds, in order
  stopHit      \* ghost: a signal came after the marker while the VM was running

mainVars == <<pc, stopReason, exitCode>>
vmVars   == <<vmm, vmmErr, ctxDone, waitCh>>
workVars == <<routine, handles, closed, mu>>
fileVars == <<workspace, stateFile, cgroup>>
vars     == <<mainVars, vmVars, workVars, fileVars, log, stopHit, request>>

Workers == {"sampler", "flusher"}
Events  == {"create.started", "create.failed", "vm.started", "native", "vm.stopped"}
Reasons == {"firecracker_exit", "run_timeout_reached", "provider_stop_requested"}
Final   == {"exited", "crashed", "panicked"}
Alive   == pc \notin Final

StartPcs == {"runtimePaths", "prepareRootFS", "createStarted", "newMachine", "machineStart",
             "machinePID", "createFailed", "writeRunning", "startWorkers", "vmStarted"}
RunPcs   == {"select", "stopFlusher", "joinFlusher", "lockSample", "finalSample", "stopVMM",
             "await"}
EndPcs   == {"checkMarker", "endFlusher", "endJoinFlusher", "endSampler", "endJoinSampler",
             "writeStopped"}
ReportPcs == {"emitNative", "vmStopped", "rewriteState"}
DeferPcs == {"deferFlusher", "deferJoinFlusher", "deferSampler", "deferJoinSampler",
             "deferStopVMM", "deferRemove", "deferRmdir"}
Pcs == StartPcs \cup RunPcs \cup EndPcs \cup ReportPcs \cup DeferPcs \cup Final

(* Where an early return of the main goroutine leads: its deferred function. *)
Return == "deferFlusher"

InitWith(reason) ==
  /\ request \in Requests
  /\ pc = "runtimePaths" /\ stopReason = reason /\ exitCode = 0
  /\ vmm = "none" /\ vmmErr = FALSE /\ ctxDone = FALSE /\ waitCh = "none"
  /\ routine = [w \in Workers |-> "off"]
  /\ handles = {}
  /\ closed = {}
  /\ mu = "free"
  /\ workspace = "absent" /\ stateFile = "absent" /\ cgroup = "none"
  /\ log = <<>> /\ stopHit = FALSE

Init == InitWith("firecracker_exit")

Goto(at, to) == pc = at /\ pc' = to

(***************************************************************************)
(* Collector.Record: the insert is acknowledged, or it fails and the row   *)
(* is or is not in the table (a lost answer).                              *)
(***************************************************************************)
Record(event, at, next, failed) ==
  /\ \/ Goto(at, next) /\ log' = Append(log, event)
     \/ /\ "rawtree" \in Faults
        /\ Goto(at, failed)
        /\ log' \in {log, Append(log, event)}
  /\ UNCHANGED <<stopReason, exitCode, vmVars, workVars, fileVars, stopHit, request>>

---------------------------------------------------------------------------
(* Launch: lines 186 to 305.                                               *)

(* The deferred function is installed after runtimePaths: its failure      *)
(* ends the process with nothing to undo.                                  *)
MakeWorkspace ==
  /\ \/ Goto("runtimePaths", "prepareRootFS") /\ workspace' = "present"
     \/ "host" \in Faults /\ Goto("runtimePaths", "exited") /\ UNCHANGED workspace
  /\ UNCHANGED <<stopReason, exitCode, vmVars, workVars, stateFile, cgroup, log, stopHit,
                 request>>

PrepareRootFS ==
  /\ \/ Goto("prepareRootFS", "createStarted")
     \/ "host" \in Faults /\ Goto("prepareRootFS", Return)
  /\ UNCHANGED <<stopReason, exitCode, vmVars, workVars, fileVars, log, stopHit, request>>

RecordCreateStarted == Record("create.started", "createStarted", "newMachine", Return)

NewMachine ==
  /\ \/ Goto("newMachine", "machineStart")
     \/ "machine" \in Faults /\ Goto("newMachine", "createFailed")
  /\ UNCHANGED <<stopReason, exitCode, vmVars, workVars, fileVars, log, stopHit, request>>

(* moveProcessToCgroup, a handler of Start: it may fail after it made the  *)
(* directory and before cgroupDir names it, or a later handler may fail.   *)
CgroupAfter(started) ==
  IF ~request.Cgroup THEN {"none"} ELSE IF started THEN {"tracked"}
                                        ELSE {"none", "untracked", "tracked"}

(* Start runs the process, configures it over its API and moves it into    *)
(* its cgroup.  It fails on a cancelled context, and may then or on an     *)
(* error leave the process behind.                                         *)
MachineStart ==
  /\ \/ /\ ~ctxDone /\ Goto("machineStart", "machinePID")
        /\ vmm' = "running" /\ cgroup' \in CgroupAfter(TRUE)
     \/ /\ "machine" \in Faults \/ ctxDone
        /\ Goto("machineStart", "createFailed")
        /\ \/ vmm' = "none" /\ cgroup' = "none"
           \/ vmm' = "running" /\ cgroup' \in CgroupAfter(FALSE)
  /\ UNCHANGED <<stopReason, exitCode, vmmErr, ctxDone, waitCh, workVars, workspace, stateFile,
                 log, stopHit, request>>

(* machine.PID fails once the machine's exit channel is closed, which an   *)
(* exit and a cancelled context both cause.                                *)
MachinePID ==
  /\ \/ Goto("machinePID", "writeRunning")
     \/ (vmm = "exited" \/ ctxDone) /\ Goto("machinePID", "createFailed")
  /\ UNCHANGED <<stopReason, exitCode, vmVars, workVars, fileVars, log, stopHit, request>>

RecordCreateFailure == Record("create.failed", "createFailed", Return, Return)

WriteRunning ==
  /\ \/ Goto("writeRunning", "startWorkers") /\ stateFile' = "running"
     \/ "host" \in Faults /\ Goto("writeRunning", Return) /\ UNCHANGED stateFile
  /\ UNCHANGED <<stopReason, exitCode, vmVars, workVars, workspace, cgroup, log, stopHit,
                 request>>

(* StartHypervisorSampler and startMetricsFlusher: the flusher's stopper   *)
(* is nil when its interval is not positive.                               *)
StartWorkers ==
  LET flushes == request.MetricsFlushIntervalMS > 0 IN
  /\ Goto("startWorkers", "vmStarted")
  /\ routine' = [routine EXCEPT !["sampler"] = "first",
                                !["flusher"] = IF flushes THEN "idle" ELSE "off"]
  /\ handles' = handles \cup {"sampler"} \cup IF flushes THEN {"flusher"} ELSE {}
  /\ UNCHANGED <<stopReason, exitCode, vmVars, closed, mu, fileVars, log, stopHit, request>>

(* The vm.started event; once it is recorded the waiter goroutine starts.  *)
RecordVmStarted ==
  /\ \/ /\ Goto("vmStarted", "select")
        /\ log' = Append(log, "vm.started") /\ waitCh' = "pending"
     \/ /\ "rawtree" \in Faults /\ Goto("vmStarted", Return)
        /\ log' \in {log, Append(log, "vm.started")} /\ UNCHANGED waitCh
  /\ UNCHANGED <<stopReason, exitCode, vmm, vmmErr, ctxDone, workVars, fileVars, stopHit,
                 request>>

---------------------------------------------------------------------------
(* Running: the select of lines 345 to 365 and stopAndWait.                *)

Received == waitCh \in {"nil", "err"}

(* Mutant: the signal that ended Firecracker becomes the exit code.        *)
SelectExitRaw ==
  /\ Goto("select", "checkMarker") /\ Received
  /\ exitCode' = IF waitCh = "err" THEN -1 ELSE 0
  /\ waitCh' = "taken"
  /\ UNCHANGED <<stopReason, vmm, vmmErr, ctxDone, workVars, fileVars, log, stopHit, request>>

SelectExit ==
  /\ Goto("select", "checkMarker") /\ Received
  /\ exitCode' = IF waitCh = "err" THEN 1 ELSE 0
  /\ waitCh' = "taken"
  /\ UNCHANGED <<stopReason, vmm, vmmErr, ctxDone, workVars, fileVars, log, stopHit, request>>

StopAndWait(reason) ==
  /\ Goto("select", "stopFlusher") /\ stopReason' = reason
  /\ UNCHANGED <<exitCode, vmVars, workVars, fileVars, log, stopHit, request>>

SelectTimeout == request.RunTimeoutMS > 0 /\ StopAndWait("run_timeout_reached")
SelectStop    == ctxDone /\ StopAndWait("provider_stop_requested")

(* Calling a stopper: nothing when it is nil, a panic when its channel is  *)
(* closed already, else close the channel and wait for the goroutine.      *)
StopWorker(w, at, join, next) ==
  /\ pc = at
  /\ \/ w \notin handles /\ pc' = next /\ UNCHANGED closed
     \/ w \in handles \cap closed /\ pc' = "panicked" /\ UNCHANGED closed
     \/ w \in handles \ closed /\ pc' = join /\ closed' = closed \cup {w}
  /\ UNCHANGED <<stopReason, exitCode, vmVars, routine, handles, mu, fileVars, log, stopHit,
                 request>>

(* Mutant: the stopper returns without waiting for doneCh.                 *)
JoinWorkerUnawaited(w, at, next) ==
  /\ Goto(at, next)
  /\ UNCHANGED <<stopReason, exitCode, vmVars, routine, closed, mu, fileVars, log, stopHit,
                 request>>

JoinWorker(w, at, next) ==
  /\ Goto(at, next) /\ routine[w] = "done"
  /\ UNCHANGED <<stopReason, exitCode, vmVars, routine, closed, mu, fileVars, log, stopHit,
                 request>>

(* Mutant: the stopper is called and stays set.                            *)
SetNilForgotten(w) == w \in Workers /\ UNCHANGED handles

SetNil(w) == handles' = handles \ {w}

StopFlusher == StopWorker("flusher", "stopFlusher", "joinFlusher", "lockSample")
JoinFlusher == JoinWorker("flusher", "joinFlusher", "lockSample") /\ SetNil("flusher")

(* The final sampler.Sample() of stopAndWait, under the sampler's mutex.   *)
LockSample ==
  /\ Goto("lockSample", "finalSample") /\ mu = "free" /\ mu' = "main"
  /\ UNCHANGED <<stopReason, exitCode, vmVars, routine, handles, closed, fileVars, log,
                 stopHit, request>>

FinalSample ==
  /\ Goto("finalSample", "stopVMM") /\ mu' = "free"
  /\ UNCHANGED <<stopReason, exitCode, vmVars, routine, handles, closed, fileVars, log,
                 stopHit, request>>

(* machine.StopVMM: SIGTERM to a running VMM, nil when there is none.      *)
Terminate(failed) ==
  /\ failed => "stopVmm" \in Faults /\ vmm = "running"
  /\ vmm' = IF vmm = "running" /\ ~failed THEN "killed" ELSE vmm

(* Mutant: stopAndWait waits for the exit and never asks for it.           *)
StopVMMUnsent ==
  /\ Goto("stopVMM", "await")
  /\ UNCHANGED <<stopReason, exitCode, vmVars, workVars, fileVars, log, stopHit, request>>

(* flushMetrics with its own 2 s context, then StopVMM.                    *)
StopVMM ==
  /\ Goto("stopVMM", "await")
  /\ \E failed \in BOOLEAN :
       Terminate(failed) /\ exitCode' = IF failed THEN 1 ELSE exitCode
  /\ UNCHANGED <<stopReason, vmmErr, ctxDone, waitCh, workVars, fileVars, log, stopHit,
                 request>>

AwaitExit ==
  /\ Goto("await", "checkMarker") /\ Received
  /\ exitCode' = IF waitCh = "err" /\ stopReason # "provider_stop_requested" THEN 1 ELSE exitCode
  /\ waitCh' = "taken"
  /\ UNCHANGED <<stopReason, vmm, vmmErr, ctxDone, workVars, fileVars, log, stopHit, request>>

(* Mutant: no grace period.                                                *)
AwaitGraceMissing == FALSE

(* The 5 s grace period ends before machine.Wait returns.                  *)
AwaitGrace ==
  /\ Goto("await", "checkMarker") /\ exitCode' = 1
  /\ UNCHANGED <<stopReason, vmVars, workVars, fileVars, log, stopHit, request>>

---------------------------------------------------------------------------
(* The orderly end: lines 367 to 406.                                      *)

(* Mutant: the reason found by the select is the reported one.             *)
CheckMarkerIgnored ==
  /\ Goto("checkMarker", "endFlusher")
  /\ UNCHANGED <<stopReason, exitCode, vmVars, workVars, fileVars, log, stopHit, request>>

CheckMarker ==
  /\ Goto("checkMarker", "endFlusher")
  /\ \/ workspace = "marked" /\ stopReason' = "provider_stop_requested" /\ exitCode' = 0
     \/ workspace # "marked" /\ UNCHANGED <<stopReason, exitCode>>
  /\ UNCHANGED <<vmVars, workVars, fileVars, log, stopHit, request>>

EndFlusher == StopWorker("flusher", "endFlusher", "endJoinFlusher", "endSampler")
EndJoinFlusher == JoinWorker("flusher", "endJoinFlusher", "endSampler") /\ SetNil("flusher")
EndSampler == StopWorker("sampler", "endSampler", "endJoinSampler", "writeStopped")
EndJoinSampler == JoinWorker("sampler", "endJoinSampler", "writeStopped") /\ SetNil("sampler")

(* Both writes of the stopped state ignore the error of WriteState.        *)
WriteStopped(at, next) ==
  /\ Goto(at, next)
  /\ \/ stateFile' = "stopped"
     \/ "host" \in Faults /\ UNCHANGED stateFile
  /\ UNCHANGED <<stopReason, exitCode, vmVars, workVars, workspace, cgroup, log, stopHit,
                 request>>

MarkStopped  == WriteStopped("writeStopped", "emitNative")

(* Mutant: the state of the second write is the one of the first.          *)
RewriteStateOfStart ==
  /\ Goto("rewriteState", Return) /\ stateFile' = "running"
  /\ UNCHANGED <<stopReason, exitCode, vmVars, workVars, workspace, cgroup, log, stopHit,
                 request>>

RewriteState == WriteStopped("rewriteState", Return)

(* EmitFirecrackerNativeEvents: the rows may be inserted in part.          *)
EmitNative ==
  /\ \/ Goto("emitNative", "vmStopped") /\ log' = Append(log, "native")
     \/ /\ Faults \cap {"rawtree", "native"} # {}
        /\ Goto("emitNative", Return)
        /\ log' \in {log, Append(log, "native")}
  /\ UNCHANGED <<stopReason, exitCode, vmVars, workVars, fileVars, stopHit, request>>

RecordVmStopped == Record("vm.stopped", "vmStopped", "rewriteState", Return)

(* The status of the vm.stopped event.                                     *)
Status == IF stopReason = "firecracker_exit" /\ exitCode # 0 THEN "error" ELSE "success"

---------------------------------------------------------------------------
(* The deferred function: lines 201 to 215.                                *)

DeferFlusher == StopWorker("flusher", "deferFlusher", "deferJoinFlusher", "deferSampler")
DeferJoinFlusher == JoinWorker("flusher", "deferJoinFlusher", "deferSampler") /\ UNCHANGED handles
DeferSampler == StopWorker("sampler", "deferSampler", "deferJoinSampler", "deferStopVMM")
DeferJoinSampler == JoinWorker("sampler", "deferJoinSampler", "deferStopVMM") /\ UNCHANGED handles

(* Mutant: the deferred function leaves the machine alone.                 *)
DeferStopVMMForgotten ==
  /\ Goto("deferStopVMM", "deferRemove")
  /\ UNCHANGED <<stopReason, exitCode, vmVars, workVars, fileVars, log, stopHit, request>>

DeferStopVMM ==
  /\ Goto("deferStopVMM", "deferRemove")
  /\ \E failed \in BOOLEAN : Terminate(failed)
  /\ UNCHANGED <<stopReason, exitCode, vmmErr, ctxDone, waitCh, workVars, fileVars, log,
                 stopHit, request>>

(* os.Remove of a cgroup directory fails while a process is in it.  Then   *)
(* os.RemoveAll of the workspace, whose error is ignored as that one is:   *)
(* it reads the directory and removes what it has found,                   *)
DeferRemove ==
  /\ Goto("deferRemove", "deferRmdir")
  /\ cgroup' = IF cgroup = "tracked" /\ vmm \in {"none", "exited"} THEN "none" ELSE cgroup
  /\ workspace' \in {"emptied"} \cup IF "host" \in Faults THEN {"present", workspace} ELSE {}
  /\ UNCHANGED <<stopReason, exitCode, vmVars, workVars, stateFile, log, stopHit, request>>

(* and then the directory, unless a file was made in it since.             *)
DeferRmdir ==
  /\ Goto("deferRmdir", "exited")
  /\ \/ workspace = "emptied" /\ workspace' = "gone"
     \/ (workspace # "emptied" \/ "host" \in Faults) /\ UNCHANGED workspace
  /\ UNCHANGED <<stopReason, exitCode, vmVars, workVars, stateFile, cgroup, log, stopHit,
                 request>>

---------------------------------------------------------------------------
(* The goroutines and Firecracker.                                         *)

(* Mutant: the waiter waits for the context alone.                         *)
WaiterReturnsOnStop ==
  /\ Alive /\ waitCh = "pending" /\ ctxDone /\ waitCh' = "err"
  /\ UNCHANGED <<mainVars, vmm, vmmErr, ctxDone, workVars, fileVars, log, stopHit, request>>

(* machine.Wait(ctx) returns when the context is done or the VMM exited.   *)
WaiterReturns ==
  /\ Alive /\ waitCh = "pending"
  /\ \/ ctxDone /\ waitCh' = "err"
     \/ vmm = "exited" /\ waitCh' = IF vmmErr THEN "err" ELSE "nil"
  /\ UNCHANGED <<mainVars, vmm, vmmErr, ctxDone, workVars, fileVars, log, stopHit, request>>

Moves(w, from, to) ==
  /\ Alive /\ routine[w] = from /\ routine' = [routine EXCEPT ![w] = to]
  /\ UNCHANGED <<stopReason, exitCode, vmVars, handles, closed, fileVars, log, stopHit,
                 request>>

(* HypervisorSampler.run: a sample at once, then one per tick.             *)
SamplerLock ==
  /\ mu = "free" /\ mu' = "sampler" /\ UNCHANGED pc
  /\ \/ Moves("sampler", "first", "firstSample")
     \/ Moves("sampler", "tick", "sample")

(* Mutant: a sample that is not the first returns without the unlock.      *)
SamplerUnlockOnce ==
  \/ mu' = mu /\ Moves("sampler", "sample", "idle") /\ UNCHANGED pc
  \/ mu' = "free" /\ Moves("sampler", "firstSample", "idle") /\ UNCHANGED pc

(* time.NewTicker panics on an interval that is not positive, and a panic  *)
(* in this goroutine ends the process without the main one's defers.       *)
SamplerUnlock ==
  /\ mu' = "free"
  /\ \/ Moves("sampler", "sample", "idle") /\ UNCHANGED pc
     \/ /\ Moves("sampler", "firstSample", "idle")
        /\ IF request.HypervisorSampleIntervalMS > 0 THEN UNCHANGED pc ELSE pc' = "panicked"

(* Mutant: the sampler looks at its stop channel before its loop only.     *)
SamplerQuitOnce ==
  "sampler" \in closed /\ Moves("sampler", "first", "done") /\ UNCHANGED <<pc, mu>>

SamplerTick == Moves("sampler", "idle", "tick") /\ UNCHANGED <<pc, mu>>
SamplerQuit == "sampler" \in closed /\ Moves("sampler", "idle", "done") /\ UNCHANGED <<pc, mu>>

FlusherTick  == Moves("flusher", "idle", "flush") /\ UNCHANGED <<pc, mu>>
FlusherFlush == Moves("flusher", "flush", "idle") /\ UNCHANGED <<pc, mu>>
FlusherQuit  == "flusher" \in closed /\ Moves("flusher", "idle", "done") /\ UNCHANGED <<pc, mu>>

(* Firecracker exits by itself (the guest reboots, the VMM fails) or       *)
(* because it was killed.                                                  *)
VmmExit ==
  /\ vmm \in {"running", "killed"} /\ vmm' = "exited" /\ vmmErr' \in BOOLEAN
  /\ UNCHANGED <<mainVars, ctxDone, waitCh, workVars, fileVars, log, stopHit, request>>

(* The command was built with the signal context: when it is done the      *)
(* command's own goroutine kills Firecracker.                              *)
CtxKill ==
  /\ Alive /\ ctxDone /\ vmm = "running" /\ vmm' = "killed"
  /\ UNCHANGED <<mainVars, vmmErr, ctxDone, waitCh, workVars, fileVars, log, stopHit, request>>

---------------------------------------------------------------------------
(* The outside: StopSandbox, an operator's signal, the end of the process. *)

(* StopSandbox finds the workspace through the state file, and writes into *)
(* it also while it is being removed.                                      *)
WriteMarker ==
  /\ stateFile # "absent"
  /\ \/ workspace = "present" /\ workspace' = "marked"
     \/ workspace = "emptied" /\ workspace' = "remarked"
  /\ UNCHANGED <<mainVars, vmVars, workVars, stateFile, cgroup, log, stopHit, request>>

(* SIGTERM or SIGINT: from StopSandbox after the marker, or without one.   *)
(* The context absorbs the second signal and the ones after it.            *)
Signal ==
  /\ Alive /\ ~ctxDone /\ ctxDone' = TRUE
  /\ stopHit' = (workspace = "marked" /\ vmm = "running")
  /\ UNCHANGED <<mainVars, vmm, vmmErr, waitCh, workVars, fileVars, log, request>>

Crash ==
  /\ "crash" \in Faults /\ Alive /\ pc' = "crashed"
  /\ UNCHANGED <<stopReason, exitCode, vmVars, workVars, fileVars, log, stopHit, request>>

Terminated == ~Alive /\ UNCHANGED vars

---------------------------------------------------------------------------
Launch  == \/ MakeWorkspace \/ PrepareRootFS \/ RecordCreateStarted \/ NewMachine \/ MachineStart
           \/ MachinePID \/ RecordCreateFailure \/ WriteRunning \/ StartWorkers \/ RecordVmStarted
Select  == SelectExit \/ SelectTimeout \/ SelectStop
Stop    == StopFlusher \/ JoinFlusher \/ FinalSample \/ StopVMM \/ AwaitExit \/ AwaitGrace
End     == \/ CheckMarker \/ EndFlusher \/ EndJoinFlusher \/ EndSampler \/ EndJoinSampler
           \/ MarkStopped \/ EmitNative \/ RecordVmStopped \/ RewriteState
Defer   == \/ DeferFlusher \/ DeferJoinFlusher \/ DeferSampler \/ DeferJoinSampler
           \/ DeferStopVMM \/ DeferRemove \/ DeferRmdir
Main    == Launch \/ Select \/ Stop \/ LockSample \/ End \/ Defer
Sampler == SamplerLock \/ SamplerUnlock \/ SamplerTick \/ SamplerQuit
Flusher == FlusherTick \/ FlusherFlush \/ FlusherQuit
Outside == WriteMarker \/ Signal \/ Crash

Next == Main \/ WaiterReturns \/ Sampler \/ Flusher \/ VmmExit \/ CtxKill \/ Outside \/ Terminated

(* Every runnable goroutine runs; the timers of the select and of the      *)
(* grace period expire.  A goroutine in a select with two ready cases      *)
(* takes each of them in the end, and a sync.Mutex starves nobody.  A      *)
(* killed VMM dies.  Nothing makes the outside act or a healthy VMM exit.  *)
Fairness ==
  /\ WF_vars(Main) /\ WF_vars(WaiterReturns) /\ WF_vars(CtxKill)
  /\ WF_vars(SamplerUnlock) /\ WF_vars(FlusherFlush)
  /\ SF_vars(LockSample) /\ SF_vars(SamplerLock)
  /\ SF_vars(SamplerQuit) /\ SF_vars(FlusherQuit)
  /\ WF_vars(vmm = "killed" /\ VmmExit)

Spec     == Init /\ [][Next]_vars
FairSpec == Spec /\ Fairness

---------------------------------------------------------------------------
(* Correctness.                                                            *)

Routines == {"off", "first", "firstSample", "idle", "tick", "sample", "flush", "done"}

(* The type of every variable.                                             *)
TypeOK ==
  /\ request \in Requests
  /\ pc \in Pcs /\ stopReason \in Reasons /\ exitCode \in {0, 1}
  /\ vmm \in {"none", "running", "killed", "exited"}
  /\ vmmErr \in BOOLEAN /\ ctxDone \in BOOLEAN /\ stopHit \in BOOLEAN
  /\ waitCh \in {"none", "pending", "nil", "err", "taken"}
  /\ routine \in [Workers -> Routines]
  /\ handles \subseteq Workers /\ closed \subseteq Workers
  /\ mu \in {"free", "main", "sampler"}
  /\ workspace \in {"absent", "present", "marked", "emptied", "remarked", "gone"}
  /\ stateFile \in {"absent", "running", "stopped"}
  /\ cgroup \in {"none", "untracked", "tracked"}
  /\ log \in Seq(Events)

Recorded(event) == \E i \in DOMAIN log : log[i] = event

(* A stop that reached the supervisor in full (the marker, then the        *)
(* signal) while the VM ran is reported as one: never as a failure of      *)
(* Firecracker or as a timeout, whichever case of the select wins and      *)
(* whatever the VM's exit status is.  StopVMM itself must not fail: a VM   *)
(* that outlives a timeout can be stopped when its report is on the way.   *)
StopReasonFaithful ==
  Recorded("vm.stopped") /\ stopHit /\ "stopVmm" \notin Faults
    => stopReason = "provider_stop_requested" /\ exitCode = 0 /\ Status = "success"

(* However the supervisor ends, on an error of any step or in order, its   *)
(* Firecracker process is dead or has been sent its last signal.           *)
NoOrphanedVmm ==
  pc = "exited" /\ "stopVmm" \notin Faults => vmm # "running"

(* The stop channels of the sampler and of the flusher, which stopAndWait, *)
(* the orderly end and the deferred function all close, are closed once:   *)
(* only a sampling interval that is not positive can panic.                *)
NeverPanics == pc = "panicked" => request.HypervisorSampleIntervalMS <= 0

(* Once the vm.stopped event exists no goroutine can add an event to the   *)
(* run: the sampler and the flusher have returned.                         *)
QuietAfterStopped ==
  Recorded("vm.stopped") => \A w \in Workers : routine[w] \in {"off", "done"}

(* Nobody waits for somebody who waits: a worker that the main goroutine   *)
(* joins, and the sampler that holds the mutex the main goroutine wants,   *)
(* can always take a step, on every path and after every failure.          *)
JoinPcs(w) == IF w = "flusher" THEN {"joinFlusher", "endJoinFlusher", "deferJoinFlusher"}
                               ELSE {"endJoinSampler", "deferJoinSampler"}

CanGoOn(w) ==
  \/ routine[w] \in {"firstSample", "sample", "flush"}
  \/ routine[w] \in {"first", "tick"} /\ mu = "free"
  \/ routine[w] = "idle" /\ w \in closed

NoDeadlock ==
  /\ \A w \in Workers : pc \in JoinPcs(w) => routine[w] = "done" \/ CanGoOn(w)
  /\ pc = "lockSample" /\ mu # "free" => CanGoOn("sampler")

(* A run is the run that SandboxLife promises: the order of the lifecycle  *)
(* events, the life of the state file, no report of an end while the VM    *)
(* has a future unless StopVMM failed, and no end of the supervisor then   *)
(* unless it was killed or panicked.                                       *)
LifeVm == IF vmm = "none" THEN "none"
          ELSE IF vmm = "running" /\ ~ctxDone THEN "up" ELSE "condemned"
MayPanic == \E r \in Requests : r.HypervisorSampleIntervalMS <= 0
Life == INSTANCE SandboxLife WITH
  MayAbandon <- "crash" \in Faults \/ MayPanic, MayOutlive <- "stopVmm" \in Faults,
  state <- stateFile, vm <- LifeVm, over <- ~Alive
Implements == Life!Spec

(* A supervisor that is told to stop ends, at whatever step it is.         *)
StopsWhenAsked == ctxDone ~> ~Alive

(* A sandbox whose VM died does not keep a supervisor.                     *)
ExitNoticed == vmm = "exited" ~> ~Alive

(* A positive run timeout bounds the life of the supervisor with no signal *)
(* from anybody, even when StopVMM fails.                                  *)
TimeoutBoundsRun == request.RunTimeoutMS > 0 ~> ~Alive

(* What the documentation says and the code does not do.                   *)

(* The stop command waits "for the supervisor to drain events and mark the *)
(* sandbox stopped": a supervisor that returns has not left the state file *)
(* saying that its sandbox runs.                                           *)
MarksStopped == pc = "exited" => stateFile # "running"

(* "Supervisor waits for Firecracker to exit", and then reads its files.   *)
ReadsAfterExit == pc \in ReportPcs => vmm = "exited"
=============================================================================
