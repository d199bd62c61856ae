------------------------------- MODULE OneShot -------------------------------
(***************************************************************************)
(* The one-shot launch, LaunchObservedSandbox of internal/orchestrator.go: *)
(* a run in the foreground that ends when its VM exits or at its timeout.  *)
(* It shares most of its statements with RunSandboxSupervisor, and here    *)
(* their actions; it has no state file, no stop marker and no signal       *)
(* context.  Before Start a signal ends the process, as a crash does; from *)
(* then on the SDK forwards it to Firecracker, which may exit of it.       *)
(***************************************************************************)
EXTENDS Supervisor

(* parseArgs refuses anything else.                                        *)
ASSUME OneShotRequests ==
  \A r \in Requests : r.RunTimeoutMS > 0 /\ r.HypervisorSampleIntervalMS > 0
                      /\ r.MetricsFlushIntervalMS >= 0

(* Mutant: the reason of RunSandboxSupervisor.                             *)
OneShotInitExit == InitWith("firecracker_exit")

OneShotInit == InitWith("run_timeout_reached")

(* No state is written: the workers are next.                              *)
OneShotPID ==
  /\ \/ Goto("machinePID", "startWorkers")
     \/ vmm = "exited" /\ Goto("machinePID", "createFailed")
  /\ UNCHANGED <<stopReason, exitCode, vmVars, workVars, fileVars, log, stopHit, request>>

---------------------------------------------------------------------------
(* Running.                                                                *)

OneShotExit ==
  /\ Goto("select", "endFlusher") /\ Received /\ waitCh' = "taken"
  /\ stopReason' = "firecracker_exit" /\ exitCode' = IF waitCh = "err" THEN 1 ELSE exitCode
  /\ UNCHANGED <<vmm, vmmErr, ctxDone, workVars, fileVars, log, stopHit, request>>

(* Mutant: no timeout.                                                     *)
OneShotTimeoutMissing == FALSE

OneShotTimeout ==
  /\ Goto("select", "stopFlusher")
  /\ UNCHANGED <<stopReason, exitCode, vmVars, workVars, fileVars, log, stopHit, request>>

(* Any error of machine.Wait counts, that of a VMM it stopped itself too.  *)
OneShotAwaitExit ==
  /\ Goto("await", "endFlusher") /\ Received /\ waitCh' = "taken"
  /\ exitCode' = IF waitCh = "err" THEN 1 ELSE exitCode
  /\ UNCHANGED <<stopReason, vmm, vmmErr, ctxDone, workVars, fileVars, log, stopHit, request>>

OneShotAwaitGrace ==
  /\ Goto("await", "endFlusher") /\ exitCode' = 1
  /\ UNCHANGED <<stopReason, vmVars, workVars, fileVars, log, stopHit, request>>

OneShotEndSampler == StopWorker("sampler", "endSampler", "endJoinSampler", "emitNative")
OneShotEndJoin    == JoinWorker("sampler", "endJoinSampler", "emitNative") /\ SetNil("sampler")

(* Mutant: vm.stopped is recorded a second time when the insert fails.     *)
OneShotVmStoppedRetried == Record("vm.stopped", "vmStopped", Return, "vmStopped")

OneShotVmStopped == Record("vm.stopped", "vmStopped", Return, Return)

---------------------------------------------------------------------------
OneShotMain ==
  \/ MakeWorkspace \/ PrepareRootFS \/ RecordCreateStarted \/ NewMachine \/ MachineStart
  \/ OneShotPID \/ RecordCreateFailure \/ StartWorkers \/ RecordVmStarted
  \/ OneShotExit \/ OneShotTimeout
  \/ StopFlusher \/ JoinFlusher \/ LockSample \/ FinalSample \/ StopVMM
  \/ OneShotAwaitExit \/ OneShotAwaitGrace
  \/ EndFlusher \/ EndJoinFlusher \/ OneShotEndSampler \/ OneShotEndJoin
  \/ EmitNative \/ OneShotVmStopped \/ Defer

OneShotNext ==
  OneShotMain \/ WaiterReturns \/ Sampler \/ Flusher \/ VmmExit \/ Crash \/ Terminated

(* The assumptions of Supervisor!Fairness.                                 *)
OneShotFairness ==
  /\ WF_vars(OneShotMain) /\ WF_vars(WaiterReturns)
  /\ WF_vars(SamplerUnlock) /\ WF_vars(FlusherFlush)
  /\ SF_vars(LockSample) /\ SF_vars(SamplerLock)
  /\ SF_vars(SamplerQuit) /\ SF_vars(FlusherQuit)
  /\ WF_vars(vmm = "killed" /\ VmmExit)

OneShotSpec == OneShotInit /\ [][OneShotNext]_vars /\ OneShotFairness

---------------------------------------------------------------------------
(* Correctness.                                                            *)

(* A run that is reported as an exit of Firecracker has read the files of  *)
(* a Firecracker that has exited, and is the only one that says so: a run  *)
(* that the timeout ended never blames Firecracker.                        *)
ExitMeansExited ==
  pc \in ReportPcs \/ Recorded("vm.stopped") =>
    /\ stopReason = "firecracker_exit" => vmm = "exited"
    /\ stopReason # "firecracker_exit" => Status = "success"

(* Every run ends: when its VM exits, by its timeout, also when the VM     *)
(* outlasts the grace period, and on every early return.                   *)
EveryRunEnds == <>~Alive

(* The events of a one-shot run are those of a sandbox's life.  There is   *)
(* no state file; in its place stand the workers, which run from the point *)
(* at which RunSandboxSupervisor would have written it.                    *)
LifeState == IF routine["sampler"] = "off" THEN "absent" ELSE "running"
OneShotLife == INSTANCE SandboxLife WITH
  MayAbandon <- "crash" \in Faults, MayOutlive <- "stopVmm" \in Faults,
  state <- LifeState, vm <- LifeVm, over <- ~Alive
OneShotImplements == OneShotLife!Spec
=============================================================================
