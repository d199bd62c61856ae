--------------------------- MODULE SandboxControl ---------------------------
(***************************************************************************)
(* The sandbox seen from the command line: one `create` process that       *)
(* starts the supervisor of module Supervisor and waits for it, and any    *)
(* number of `stop` processes that find it through its state file, mark    *)
(* and signal it, and wait or not, among the other sandboxes they are      *)
(* given.  The processes share the state file, the workspace and the       *)
(* supervisor's process id with the supervisor, whose own steps are those  *)
(* of Supervisor.  No other signal reaches it here.                        *)
(***************************************************************************)
EXTENDS Supervisor, SequencesExt

CONSTANTS
  Stoppers,  \* stop processes
  Ids,       \* stop process -> the sandboxes it stops, in order: "this", once, and "other"s
  Waits,     \* stop processes that run with --wait, which is the default
  CliFaults  \* what may fail in the commands themselves

(* host: building the guest agent, writing the request, starting the       *)
(* supervisor; marker: writing the stop marker; rawtree: an insert; kill:  *)
(* sending the signal, for another reason than that there is no process.   *)
ASSUME CliFaultsAssumption == CliFaults \subseteq {"host", "marker", "rawtree", "kill"}

ASSUME StoppersAssumption ==
  /\ Ids \in [Stoppers -> Seq({"this", "other"})] /\ Waits \subseteq Stoppers
  /\ \A p \in Stoppers : \E i \in DOMAIN Ids[p] :
       \A j \in DOMAIN Ids[p] : Ids[p][j] = "this" <=> j = i

VARIABLES
  creator,   \* the statement of runCreate
  spawned,   \* the supervisor process was started
  stopper,   \* the statement of runStop and StopSandbox, per process
  left,      \* stop process -> the sandboxes it has yet to finish
  struck     \* ghost: a stop's signal arrived while the VM was running

cliVars == <<creator, spawned, stopper, left, struck>>
allVars == <<vars, cliVars>>

CInit ==
  /\ Init
  /\ creator = "stat" /\ spawned = FALSE
  /\ stopper = [p \in Stoppers |-> "request"] /\ left = Ids /\ struck = FALSE

---------------------------------------------------------------------------
(* create: runCreate.                                                      *)

CreatorMoves(at, to) ==
  creator = at /\ creator' = to /\ UNCHANGED <<vars, stopper, left, struck>>

(* The state file of a stopped sandbox still makes its name taken.         *)
CreateStat ==
  /\ CreatorMoves("stat", IF stateFile = "absent" THEN "writeRequest" ELSE "failed")
  /\ UNCHANGED spawned

(* The guest agent is built and the request is written.                    *)
CreateWriteRequest ==
  /\ \/ CreatorMoves("writeRequest", "spawn")
     \/ "host" \in CliFaults /\ CreatorMoves("writeRequest", "failed")
  /\ UNCHANGED spawned

(* startSupervisorProcess: the supervisor lives on its own from here.      *)
CreateSpawn ==
  \/ CreatorMoves("spawn", "waitRunning") /\ spawned' = TRUE
  \/ "host" \in CliFaults /\ CreatorMoves("spawn", "failed") /\ UNCHANGED spawned

CreateSeesRunning ==
  stateFile = "running" /\ CreatorMoves("waitRunning", "waitAgent") /\ UNCHANGED spawned

(* 90 s for the state file, 60 s for the guest agent: create gives up and  *)
(* leaves the supervisor alone.                                            *)
CreateGivesUp ==
  /\ CreatorMoves("waitRunning", "failed") \/ CreatorMoves("waitAgent", "failed")
  /\ UNCHANGED spawned

(* waitForGuestAgent: only a running VM can answer.                        *)
CreateReachesAgent ==
  vmm = "running" /\ CreatorMoves("waitAgent", "created") /\ UNCHANGED spawned

---------------------------------------------------------------------------
(* stop: runStop, StopSandbox and WaitForSandboxStopped.                   *)

StopperAt(p, at, to) ==
  /\ stopper[p] = at /\ stopper' = [stopper EXCEPT ![p] = to]
  /\ UNCHANGED <<creator, spawned>>
StopperMoves(p, at, to) == StopperAt(p, at, to) /\ UNCHANGED left

(* One sandbox is done: the next one, or the end.                          *)
StopperNext(p, at) ==
  /\ StopperAt(p, at, IF Len(left[p]) = 1 THEN "done" ELSE "request")
  /\ left' = [left EXCEPT ![p] = Tail(@)]

(* Mutant: an id that cannot be stopped is skipped.                        *)
StopFailsSkips(p, at) == StopperNext(p, at)

(* The first error is the end; the ids after it are left alone.            *)
StopFails(p, at) == StopperMoves(p, at, "failed")

(* Another sandbox is stopped, or not.                                     *)
StopOther(p) ==
  /\ stopper[p] = "request" /\ Head(left[p]) = "other" /\ UNCHANGED <<vars, struck>>
  /\ StopperNext(p, "request") \/ StopFails(p, "request")

(* The state is read, then the stop.requested event is inserted; the       *)
(* failure of either is the end.  No process reads that event: one step.   *)
StopRequest(p) ==
  /\ stopper[p] = "request" /\ Head(left[p]) = "this" /\ UNCHANGED <<vars, struck>>
  /\ \/ stateFile # "absent" /\ StopperMoves(p, "request", "mark")
     \/ (stateFile = "absent" \/ "rawtree" \in CliFaults) /\ StopFails(p, "request")

(* Mutant: no marker.                                                      *)
StopMarkNothing(p) == StopperMoves(p, "mark", "kill") /\ UNCHANGED <<vars, struck>>

(* A flush of the metrics, then the marker; its error is ignored: the      *)
(* workspace may be gone, or hold a marker already.                        *)
StopMark(p) ==
  /\ StopperMoves(p, "mark", "kill") /\ UNCHANGED struck
  /\ \/ WriteMarker
     \/ (workspace \notin {"present", "emptied"} \/ "marker" \in CliFaults) /\ UNCHANGED vars

(* Where the signal leads: without --wait it is all.                       *)
StopSent(p) == IF p \in Waits THEN StopperMoves(p, "kill", "poll") ELSE StopperNext(p, "kill")

(* Mutant: the stop records that it was sent, and sends nothing.           *)
StopKillUnsent(p) == StopSent(p) /\ UNCHANGED <<vars, struck>>

(* SIGTERM to the supervisor's process id, where no such process is no     *)
(* error; then the stop.sent event, which no process reads: one step.      *)
StopKill(p) ==
  \/ /\ \/ StopSent(p)
        \/ "rawtree" \in CliFaults /\ StopFails(p, "kill")
     /\ \/ Signal /\ struck' = (struck \/ vmm = "running")
        \/ (~Alive \/ ctxDone) /\ UNCHANGED <<vars, struck>>
  \/ "kill" \in CliFaults /\ StopFails(p, "kill") /\ UNCHANGED <<vars, struck>>

(* Mutant: the state file alone says that the sandbox stopped.             *)
StopPollStateOnly(p) ==
  stateFile = "stopped" /\ StopperNext(p, "poll") /\ UNCHANGED <<vars, struck>>

StopPoll(p) ==
  stateFile = "stopped" /\ ~Alive /\ StopperNext(p, "poll") /\ UNCHANGED <<vars, struck>>

(* Mutant: a stop whose deadline passes reads the state once more.         *)
StopGivesUpRereads(p) ==
  StopperMoves(p, "poll", "reread") /\ UNCHANGED <<vars, struck>>

(* The 45 s of runStop.                                                    *)
StopGivesUp(p) ==
  StopFails(p, "poll") /\ UNCHANGED <<vars, struck>>

---------------------------------------------------------------------------
(* The composition.                                                        *)

SupervisorStep ==
  /\ spawned
  /\ \/ Main \/ WaiterReturns \/ Sampler \/ Flusher \/ VmmExit \/ CtxKill \/ Crash
  /\ UNCHANGED cliVars

Create == \/ CreateStat \/ CreateWriteRequest \/ CreateSpawn \/ CreateSeesRunning
          \/ CreateGivesUp \/ CreateReachesAgent
StopProcess(p) ==
  \/ StopOther(p) \/ StopRequest(p) \/ StopMark(p) \/ StopKill(p) \/ StopPoll(p) \/ StopGivesUp(p)

AllEnded ==
  /\ creator \in {"created", "failed"} /\ \A p \in Stoppers : stopper[p] \in {"done", "failed"}
  /\ ~spawned \/ (~Alive /\ vmm \in {"none", "exited"})
  /\ UNCHANGED allVars

CNext == SupervisorStep \/ Create \/ (\E p \in Stoppers : StopProcess(p)) \/ AllEnded

(* The fairness of Supervisor, once it is spawned, and of every process    *)
(* of the command line.                                                    *)
Runs(step) == spawned /\ step /\ UNCHANGED cliVars
CFairness ==
  /\ WF_allVars(Runs(Main)) /\ WF_allVars(Runs(WaiterReturns)) /\ WF_allVars(Runs(CtxKill))
  /\ WF_allVars(Runs(SamplerUnlock)) /\ WF_allVars(Runs(FlusherFlush))
  /\ SF_allVars(Runs(LockSample)) /\ SF_allVars(Runs(SamplerLock))
  /\ SF_allVars(Runs(SamplerQuit)) /\ SF_allVars(Runs(FlusherQuit))
  /\ WF_allVars(Runs(vmm = "killed" /\ VmmExit))
  /\ WF_allVars(Create) /\ \A p \in Stoppers : WF_allVars(StopProcess(p))

CSpec == CInit /\ [][CNext]_allVars /\ CFairness

---------------------------------------------------------------------------
(* Correctness.                                                            *)

CliTypeOK ==
  /\ creator \in {"stat", "writeRequest", "spawn", "waitRunning", "waitAgent", "created",
                 "failed"}
  /\ spawned \in BOOLEAN
  /\ stopper \in [Stoppers -> {"request", "mark", "kill", "poll", "done", "failed"}]
  /\ left \in [Stoppers -> Seq({"this", "other"})]
  /\ \A p \in Stoppers :
       /\ IsSuffix(left[p], Ids[p]) /\ (left[p] = <<>> <=> stopper[p] = "done")
       /\ stopper[p] \in {"mark", "kill", "poll"} => Head(left[p]) = "this"
  /\ struck \in BOOLEAN

(* A stop that waits and exits with 0, or has gone on to the sandboxes     *)
(* named after this one, left nothing of this one behind: the supervisor   *)
(* is gone and its VM with it, so is its workspace but for a marker that a *)
(* stop wrote into it during its removal, and the last event of the run is *)
(* in the table, unless a fault kept it out.  (stop ends at the first      *)
(* sandbox that it cannot stop, and says so: it skips none.)               *)
WaitedStopIsFinal ==
  \A p \in Waits : "this" \notin ToSet(left[p]) =>
    /\ ~Alive
    /\ Faults \cap {"crash", "stopVmm"} = {} => vmm # "running"
    /\ Faults \cap {"crash", "host"} = {} => workspace \in {"gone", "remarked"}
    /\ Faults \cap {"crash", "rawtree", "native"} = {} => Recorded("vm.stopped")

(* The stop command never makes a run look like a failure of Firecracker,  *)
(* with several stops at once and with the VM dying of the signal: each    *)
(* one leaves its marker before it signals.                                *)
StopIsNoFailure ==
  struck /\ Recorded("vm.stopped") /\ "marker" \notin CliFaults /\ "stopVmm" \notin Faults
    => Status = "success" /\ stopReason = "provider_stop_requested"

(* What a stop waits for comes, whatever failed in the commands, whichever *)
(* of several stops came first, and when the sandbox stops by itself in    *)
(* the meantime.  (The 45 s may be over by then.)                          *)
StopTakesEffect ==
  Faults = {} => \A p \in Stoppers : stopper[p] = "poll" ~> (stateFile = "stopped" /\ ~Alive)
=============================================================================
