--------------------------- MODULE MCExecSession ---------------------------
(* Instances of ExecSession for TLC.                                       *)
EXTENDS ExecSessionInv

ChunkBounds == [stdout |-> 2, stderr |-> 1]

(* A session of the run has input or records its events, not both: the     *)
(* goroutine that copies the input and the inserts share no state.         *)
SessionInit == Init /\ (options.interactive => options.suppress)
SessionSpec == SessionInit /\ [][Next]_vars /\ Fairness
============================================================================
