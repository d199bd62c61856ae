----------------------------- MODULE SandboxLife -----------------------------
(***************************************************************************)
(* What the provider promises of one sandbox run, whatever the supervisor  *)
(* does inside: which lifecycle events its table may hold and in which     *)
(* order, what its state file may say and when, and that a run is not over *)
(* while its microVM is still going to live.  The two constants say which  *)
(* parts of the promise the failures of a deployment take away; the order  *)
(* of the events and of the state file holds whatever they are.            *)
(***************************************************************************)
EXTENDS Sequences

CONSTANTS
  MayAbandon,  \* the supervisor may be killed or panic
  MayOutlive   \* the order to end the VM may fail

VARIABLES
  state,  \* the state file: "absent", "running" or "stopped"
  log,    \* the lifecycle events recorded
  vm,     \* "none", "up", or "condemned": dead, or ordered to die
  over    \* the supervisor is gone

lifeVars == <<state, log, vm, over>>

Init == state = "absent" /\ log = <<>> /\ vm = "none" /\ over = FALSE

LastEvent == IF log = <<>> THEN "nothing" ELSE log[Len(log)]

(* What a report says of the VM: it is condemned, or could not be.         *)
Stopped == vm = "condemned" \/ (MayOutlive /\ vm = "up")

(* What an event may follow, and what must hold of the sandbox by then.    *)
MayRecord(event) ==
  \/ event = "create.started" /\ LastEvent = "nothing"
  \/ event = "create.failed" /\ LastEvent = "create.started" /\ state = "absent"
  \/ event = "vm.started" /\ LastEvent = "create.started" /\ state = "running"
  \/ event = "native" /\ LastEvent = "vm.started" /\ Stopped
  \/ event = "vm.stopped" /\ LastEvent = "native" /\ Stopped

RecordEvent(event) ==
  /\ ~over /\ MayRecord(event) /\ log' = Append(log, event)
  /\ UNCHANGED <<state, vm, over>>

(* The start may be overtaken by the order to stop.                        *)
StartVm ==
  /\ ~over /\ vm = "none" /\ LastEvent = "create.started" /\ state = "absent"
  /\ vm' \in {"up", "condemned"} /\ UNCHANGED <<state, log, over>>

EndVm == vm = "up" /\ vm' = "condemned" /\ UNCHANGED <<state, log, over>>

MarkRunning ==
  /\ ~over /\ state = "absent" /\ vm # "none" /\ LastEvent = "create.started"
  /\ state' = "running" /\ UNCHANGED <<log, vm, over>>

MarkStopped ==
  /\ ~over /\ state = "running" /\ Stopped /\ LastEvent \in {"vm.started", "vm.stopped"}
  /\ state' = "stopped" /\ UNCHANGED <<log, vm, over>>

EndRun ==
  /\ ~over /\ (vm = "up" => MayAbandon \/ MayOutlive) /\ over' = TRUE
  /\ UNCHANGED <<state, log, vm>>

LifeEvents == {"create.started", "create.failed", "vm.started", "native", "vm.stopped"}

Next ==
  \/ \E event \in LifeEvents : RecordEvent(event)
  \/ StartVm \/ EndVm \/ MarkRunning \/ MarkStopped \/ EndRun

Spec == Init /\ [][Next]_lifeVars
=============================================================================
