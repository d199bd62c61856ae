---------------------------- MODULE StateRegister ---------------------------
(***************************************************************************)
(* What <id>.json promises to whoever reads it: a register that is written *)
(* and read atomically.  It holds nothing until a run of the sandbox is    *)
(* up, then the state of that one run, first running and at last stopped.  *)
(* The value of a read is the one that the register held when it began.    *)
(***************************************************************************)
CONSTANTS
  Runs,      \* the runs that may become the one of the sandbox
  Readers,   \* create, which waits for its run, and the other commands
  Nothing    \* no state

VARIABLES
  value,     \* the state in the register
  pending,   \* reader -> the value of the read it is at, or Nothing
  result     \* reader -> the value of its last read, or Nothing

registerVars == <<value, pending, result>>

StateOf(run, status) == [run |-> run, pid |-> run, status |-> status]

RegisterInit ==
  /\ value = Nothing
  /\ pending = [r \in Readers |-> Nothing] /\ result = [r \in Readers |-> Nothing]

(* WriteState, once the VM runs.                                           *)
PutRunning ==
  /\ value = Nothing /\ \E run \in Runs : value' = StateOf(run, "running")
  /\ UNCHANGED <<pending, result>>

(* WriteState, at the end.                                                 *)
PutStopped ==
  /\ \E run \in Runs : value = StateOf(run, "running") /\ value' = StateOf(run, "stopped")
  /\ UNCHANGED <<pending, result>>

(* ReadState: no state is an error, and nothing is read.                   *)
ReadBegins(r) ==
  /\ pending[r] = Nothing /\ value # Nothing /\ pending' = [pending EXCEPT ![r] = value]
  /\ UNCHANGED <<value, result>>
ReadEnds(r) ==
  /\ pending[r] # Nothing /\ pending' = [pending EXCEPT ![r] = Nothing]
  /\ result' = [result EXCEPT ![r] = pending[r]] /\ UNCHANGED value

RegisterNext ==
  PutRunning \/ PutStopped \/ \E r \in Readers : ReadBegins(r) \/ ReadEnds(r)

RegisterSpec == RegisterInit /\ [][RegisterNext]_registerVars
=============================================================================
