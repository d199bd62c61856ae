----------------------- MODULE SandboxControlProofs -----------------------
(***************************************************************************)
(* The theorems about SandboxControl.  The inductive invariant CInv adds   *)
(* to the one of the supervisor what its end leaves behind and what the    *)
(* commands may rely on; a step of a command is a step of the supervisor's *)
(* outside or leaves the supervisor alone.                                 *)
(***************************************************************************)
EXTENDS SandboxControlInv, SupervisorProofs, SequenceTheorems

---------------------------------------------------------------------------
(* The supervisor.                                                         *)

(* What no step takes back, once the commands may have seen it. *)
Stable ==
  /\ stateFile # "absent" => stateFile' # "absent"
  /\ ~Alive => ~Alive' /\ stateFile' = stateFile
  /\ MarkTaken => MarkTaken'
  /\ ctxDone => ctxDone' /\ stopHit' = stopHit

(* The workspace comes with the first statement and goes with the last. *)
LEMMA WorkspaceStep ==
  TypeOK /\ WorkersInv /\ LogInv /\ WorkspaceInv /\ [Next]_vars
    => WorkspaceInv'
<1> SUFFICES ASSUME TypeOK, WorkersInv, LogInv, WorkspaceInv, [Next]_vars
             PROVE  WorkspaceInv'
  OBVIOUS
<1> USE FaultsAssumption DEF Pcs, StartPcs, RunPcs, EndPcs, ReportPcs, DeferPcs, Final,
   Return, Workers, Goto, Alive, vars, mainVars, vmVars, workVars, fileVars, TypeOK,
   WorkersInv, LogInv, WorkspaceInv
  <1>1. CASE MakeWorkspace
    BY <1>1 DEF MakeWorkspace
  <1>2. CASE PrepareRootFS
    BY <1>2 DEF PrepareRootFS
  <1>3. CASE RecordCreateStarted
    BY <1>3 DEF RecordCreateStarted, Record
  <1>4. CASE NewMachine
    BY <1>4 DEF NewMachine
  <1>5. CASE MachineStart
    BY <1>5 DEF MachineStart
  <1>6. CASE MachinePID
    BY <1>6 DEF MachinePID
  <1>7. CASE RecordCreateFailure
    BY <1>7 DEF RecordCreateFailure, Record
  <1>8. CASE WriteRunning
    BY <1>8 DEF WriteRunning
  <1>9. CASE StartWorkers
    BY <1>9 DEF StartWorkers
  <1>10. CASE RecordVmStarted
    BY <1>10 DEF RecordVmStarted
  <1>11. CASE SelectExit
    BY <1>11 DEF SelectExit, Received
  <1>12. CASE SelectTimeout
    BY <1>12 DEF SelectTimeout, StopAndWait
  <1>13. CASE SelectStop
    BY <1>13 DEF SelectStop, StopAndWait
  <1>14. CASE StopFlusher
    BY <1>14 DEF StopFlusher, StopWorker
  <1>15. CASE JoinFlusher
    BY <1>15 DEF JoinFlusher, JoinWorker, SetNil
  <1>16. CASE LockSample
    BY <1>16 DEF LockSample
  <1>17. CASE FinalSample
    BY <1>17 DEF FinalSample
  <1>18. CASE StopVMM
    BY <1>18 DEF StopVMM, Terminate
  <1>19. CASE AwaitExit
    BY <1>19 DEF AwaitExit, Received
  <1>20. CASE AwaitGrace
    BY <1>20 DEF AwaitGrace
  <1>21. CASE CheckMarker
    BY <1>21 DEF CheckMarker
  <1>22. CASE EndFlusher
    BY <1>22 DEF EndFlusher, StopWorker
  <1>23. CASE EndJoinFlusher
    BY <1>23 DEF EndJoinFlusher, JoinWorker, SetNil
  <1>24. CASE EndSampler
    BY <1>24 DEF EndSampler, StopWorker
  <1>25. CASE EndJoinSampler
    BY <1>25 DEF EndJoinSampler, JoinWorker, SetNil
  <1>26. CASE MarkStopped
    BY <1>26 DEF MarkStopped, WriteStopped
  <1>27. CASE EmitNative
    BY <1>27 DEF EmitNative
  <1>28. CASE RecordVmStopped
    BY <1>28 DEF RecordVmStopped, Record
  <1>29. CASE RewriteState
    BY <1>29 DEF RewriteState, WriteStopped
  <1>30. CASE DeferFlusher
    BY <1>30 DEF DeferFlusher, StopWorker
  <1>31. CASE DeferJoinFlusher
    BY <1>31 DEF DeferJoinFlusher, JoinWorker
  <1>32. CASE DeferSampler
    BY <1>32 DEF DeferSampler, StopWorker
  <1>33. CASE DeferJoinSampler
    BY <1>33 DEF DeferJoinSampler, JoinWorker
  <1>34. CASE DeferStopVMM
    BY <1>34 DEF DeferStopVMM, Terminate
  <1>35. CASE DeferRemove
    BY <1>35 DEF DeferRemove
  <1>35r. CASE DeferRmdir
    BY <1>35r DEF DeferRmdir
  <1>36. CASE WaiterReturns
    BY <1>36 DEF WaiterReturns
  <1>37. CASE SamplerLock
    BY <1>37 DEF SamplerLock, Moves
  <1>38. CASE SamplerUnlock
    BY <1>38 DEF SamplerUnlock, Moves
  <1>39. CASE SamplerTick
    BY <1>39 DEF SamplerTick, Moves
  <1>40. CASE SamplerQuit
    BY <1>40 DEF SamplerQuit, Moves
  <1>41. CASE FlusherTick
    BY <1>41 DEF FlusherTick, Moves
  <1>42. CASE FlusherFlush
    BY <1>42 DEF FlusherFlush, Moves
  <1>43. CASE FlusherQuit
    BY <1>43 DEF FlusherQuit, Moves
  <1>44. CASE VmmExit
    BY <1>44 DEF VmmExit
  <1>45. CASE CtxKill
    BY <1>45 DEF CtxKill
  <1>46. CASE WriteMarker
    BY <1>46 DEF WriteMarker
  <1>47. CASE Signal
    BY <1>47 DEF Signal
  <1>48. CASE Crash
    BY <1>48 DEF Crash
  <1>49. CASE Terminated
    BY <1>49 DEF Terminated
  <1>u. CASE UNCHANGED vars
    BY <1>u
  <1> QED
    BY <1>1, <1>2, <1>3, <1>4, <1>5, <1>6, <1>7, <1>8, <1>9, <1>10, <1>11, <1>12, <1>13,
       <1>14, <1>15, <1>16, <1>17, <1>18, <1>19, <1>20, <1>21, <1>22, <1>23, <1>24,
       <1>25, <1>26, <1>27, <1>28, <1>29, <1>30, <1>31, <1>32, <1>33, <1>34, <1>35, <1>35r,
       <1>36, <1>37, <1>38, <1>39, <1>40, <1>41, <1>42, <1>43, <1>44, <1>45, <1>46,
       <1>47, <1>48, <1>49, <1>u DEF Next, Launch, Select, Stop, End, Defer, Main,
       Sampler, Flusher, Outside

(* An event that RawTree holds stays there. *)
LEMMA RecordedStays ==
  TypeOK /\ [Next]_vars /\ Recorded("vm.stopped") => Recorded("vm.stopped")'
<1> SUFFICES ASSUME TypeOK, [Next]_vars, Recorded("vm.stopped") PROVE Recorded("vm.stopped")'
  OBVIOUS
<1>1. \E event \in Events : log' \in {log, Append(log, event)}
  <2> USE DEF Goto, Record, Events, vars, fileVars
  <2>1. CASE MakeWorkspace
    BY <2>1 DEF MakeWorkspace
  <2>2. CASE PrepareRootFS
    BY <2>2 DEF PrepareRootFS
  <2>3. CASE RecordCreateStarted
    BY <2>3 DEF RecordCreateStarted, Record
  <2>4. CASE NewMachine
    BY <2>4 DEF NewMachine
  <2>5. CASE MachineStart
    BY <2>5 DEF MachineStart
  <2>6. CASE MachinePID
    BY <2>6 DEF MachinePID
  <2>7. CASE RecordCreateFailure
    BY <2>7 DEF RecordCreateFailure, Record
  <2>8. CASE WriteRunning
    BY <2>8 DEF WriteRunning
  <2>9. CASE StartWorkers
    BY <2>9 DEF StartWorkers
  <2>10. CASE RecordVmStarted
    BY <2>10 DEF RecordVmStarted
  <2>11. CASE SelectExit
    BY <2>11 DEF SelectExit, Received
  <2>12. CASE SelectTimeout
    BY <2>12 DEF SelectTimeout, StopAndWait
  <2>13. CASE SelectStop
    BY <2>13 DEF SelectStop, StopAndWait
  <2>14. CASE StopFlusher
    BY <2>14 DEF StopFlusher, StopWorker
  <2>15. CASE JoinFlusher
    BY <2>15 DEF JoinFlusher, JoinWorker, SetNil
  <2>16. CASE LockSample
    BY <2>16 DEF LockSample
  <2>17. CASE FinalSample
    BY <2>17 DEF FinalSample
  <2>18. CASE StopVMM
    BY <2>18 DEF StopVMM, Terminate
  <2>19. CASE AwaitExit
    BY <2>19 DEF AwaitExit, Received
  <2>20. CASE AwaitGrace
    BY <2>20 DEF AwaitGrace
  <2>21. CASE CheckMarker
    BY <2>21 DEF CheckMarker
  <2>22. CASE EndFlusher
    BY <2>22 DEF EndFlusher, StopWorker
  <2>23. CASE EndJoinFlusher
    BY <2>23 DEF EndJoinFlusher, JoinWorker, SetNil
  <2>24. CASE EndSampler
    BY <2>24 DEF EndSampler, StopWorker
  <2>25. CASE EndJoinSampler
    BY <2>25 DEF EndJoinSampler, JoinWorker, SetNil
  <2>26. CASE MarkStopped
    BY <2>26 DEF MarkStopped, WriteStopped
  <2>27. CASE EmitNative
    BY <2>27 DEF EmitNative
  <2>28. CASE RecordVmStopped
    BY <2>28 DEF RecordVmStopped, Record
  <2>29. CASE RewriteState
    BY <2>29 DEF RewriteState, WriteStopped
  <2>30. CASE DeferFlusher
    BY <2>30 DEF DeferFlusher, StopWorker
  <2>31. CASE DeferJoinFlusher
    BY <2>31 DEF DeferJoinFlusher, JoinWorker
  <2>32. CASE DeferSampler
    BY <2>32 DEF DeferSampler, StopWorker
  <2>33. CASE DeferJoinSampler
    BY <2>33 DEF DeferJoinSampler, JoinWorker
  <2>34. CASE DeferStopVMM
    BY <2>34 DEF DeferStopVMM, Terminate
  <2>35. CASE DeferRemove
    BY <2>35 DEF DeferRemove
  <2>35r. CASE DeferRmdir
    BY <2>35r DEF DeferRmdir
  <2>36. CASE WaiterReturns
    BY <2>36 DEF WaiterReturns
  <2>37. CASE SamplerLock
    BY <2>37 DEF SamplerLock, Moves
  <2>38. CASE SamplerUnlock
    BY <2>38 DEF SamplerUnlock, Moves
  <2>39. CASE SamplerTick
    BY <2>39 DEF SamplerTick, Moves
  <2>40. CASE SamplerQuit
    BY <2>40 DEF SamplerQuit, Moves
  <2>41. CASE FlusherTick
    BY <2>41 DEF FlusherTick, Moves
  <2>42. CASE FlusherFlush
    BY <2>42 DEF FlusherFlush, Moves
  <2>43. CASE FlusherQuit
    BY <2>43 DEF FlusherQuit, Moves
  <2>44. CASE VmmExit
    BY <2>44 DEF VmmExit
  <2>45. CASE CtxKill
    BY <2>45 DEF CtxKill
  <2>46. CASE WriteMarker
    BY <2>46 DEF WriteMarker
  <2>47. CASE Signal
    BY <2>47 DEF Signal
  <2>48. CASE Crash
    BY <2>48 DEF Crash
  <2>49. CASE Terminated
    BY <2>49 DEF Terminated
  <2>u. CASE UNCHANGED vars
    BY <2>u
  <2> QED
    BY <2>1, <2>2, <2>3, <2>4, <2>5, <2>6, <2>7, <2>8, <2>9, <2>10, <2>11, <2>12, <2>13,
       <2>14, <2>15, <2>16, <2>17, <2>18, <2>19, <2>20, <2>21, <2>22, <2>23, <2>24,
       <2>25, <2>26, <2>27, <2>28, <2>29, <2>30, <2>31, <2>32, <2>33, <2>34, <2>35, <2>35r,
       <2>36, <2>37, <2>38, <2>39, <2>40, <2>41, <2>42, <2>43, <2>44, <2>45, <2>46,
       <2>47, <2>48, <2>49, <2>u DEF Next, Launch, Select, Stop, End, Defer, Main,
       Sampler, Flusher, Outside
<1>2. ASSUME NEW event \in Events PROVE \A i \in DOMAIN log : /\ i \in DOMAIN Append(log, event)
                                                            /\ Append(log, event)[i] = log[i]
  BY DEF TypeOK
<1> QED
  BY <1>1, <1>2 DEF Recorded


(* Once the state file says "stopped" the supervisor can only return or *)
(* crash, and a return completes the run.                              *)
LEMMA EndStep ==
  TypeOK /\ WorkersInv /\ LogInv /\ EndInv /\ [Next]_vars
    => EndInv'
<1> SUFFICES ASSUME TypeOK, WorkersInv, LogInv, EndInv, [Next]_vars
             PROVE  EndInv'
  OBVIOUS
<1>r. Recorded("vm.stopped") => Recorded("vm.stopped")'
  BY RecordedStays
<1>l. pc = "rewriteState" => Recorded("vm.stopped")
  BY DEF TypeOK, LogInv, LastLogged, Recorded
<1> USE FaultsAssumption DEF Pcs, StartPcs, RunPcs, EndPcs, ReportPcs, DeferPcs, Final,
   Return, Workers, Goto, Alive, vars, mainVars, vmVars, workVars, fileVars, TypeOK,
   WorkersInv, NoFlusherPcs, NoSamplerPcs, LogInv, EndInv
  <1>1. CASE MakeWorkspace
    BY <1>1, <1>r DEF MakeWorkspace
  <1>2. CASE PrepareRootFS
    BY <1>2, <1>r DEF PrepareRootFS
  <1>3. CASE RecordCreateStarted
    BY <1>3, <1>r DEF RecordCreateStarted, Record
  <1>4. CASE NewMachine
    BY <1>4, <1>r DEF NewMachine
  <1>5. CASE MachineStart
    BY <1>5, <1>r DEF MachineStart
  <1>6. CASE MachinePID
    BY <1>6, <1>r DEF MachinePID
  <1>7. CASE RecordCreateFailure
    BY <1>7, <1>r DEF RecordCreateFailure, Record
  <1>8. CASE WriteRunning
    BY <1>8, <1>r DEF WriteRunning
  <1>9. CASE StartWorkers
    BY <1>9, <1>r DEF StartWorkers
  <1>10. CASE RecordVmStarted
    BY <1>10, <1>r DEF RecordVmStarted
  <1>11. CASE SelectExit
    BY <1>11, <1>r DEF SelectExit, Received
  <1>12. CASE SelectTimeout
    BY <1>12, <1>r DEF SelectTimeout, StopAndWait
  <1>13. CASE SelectStop
    BY <1>13, <1>r DEF SelectStop, StopAndWait
  <1>14. CASE StopFlusher
    BY <1>14, <1>r DEF StopFlusher, StopWorker
  <1>15. CASE JoinFlusher
    BY <1>15, <1>r DEF JoinFlusher, JoinWorker, SetNil
  <1>16. CASE LockSample
    BY <1>16, <1>r DEF LockSample
  <1>17. CASE FinalSample
    BY <1>17, <1>r DEF FinalSample
  <1>18. CASE StopVMM
    BY <1>18, <1>r DEF StopVMM, Terminate
  <1>19. CASE AwaitExit
    BY <1>19, <1>r DEF AwaitExit, Received
  <1>20. CASE AwaitGrace
    BY <1>20, <1>r DEF AwaitGrace
  <1>21. CASE CheckMarker
    BY <1>21, <1>r DEF CheckMarker
  <1>22. CASE EndFlusher
    BY <1>22, <1>r DEF EndFlusher, StopWorker
  <1>23. CASE EndJoinFlusher
    BY <1>23, <1>r DEF EndJoinFlusher, JoinWorker, SetNil
  <1>24. CASE EndSampler
    BY <1>24, <1>r DEF EndSampler, StopWorker
  <1>25. CASE EndJoinSampler
    BY <1>25, <1>r DEF EndJoinSampler, JoinWorker, SetNil
  <1>26. CASE MarkStopped
    BY <1>26, <1>r DEF MarkStopped, WriteStopped
  <1>27. CASE EmitNative
    BY <1>27, <1>r DEF EmitNative
  <1>28. CASE RecordVmStopped
    BY <1>28, <1>r DEF RecordVmStopped, Record
  <1>29. CASE RewriteState
    BY <1>29, <1>r, <1>l DEF RewriteState, WriteStopped
  <1>30. CASE DeferFlusher
    BY <1>30, <1>r DEF DeferFlusher, StopWorker
  <1>31. CASE DeferJoinFlusher
    BY <1>31, <1>r DEF DeferJoinFlusher, JoinWorker
  <1>32. CASE DeferSampler
    BY <1>32, <1>r DEF DeferSampler, StopWorker
  <1>33. CASE DeferJoinSampler
    BY <1>33, <1>r DEF DeferJoinSampler, JoinWorker
  <1>34. CASE DeferStopVMM
    BY <1>34, <1>r DEF DeferStopVMM, Terminate
  <1>35. CASE DeferRemove
    BY <1>35, <1>r DEF DeferRemove
  <1>35r. CASE DeferRmdir
    BY <1>35r, <1>r DEF DeferRmdir
  <1>36. CASE WaiterReturns
    BY <1>36, <1>r DEF WaiterReturns
  <1>37. CASE SamplerLock
    BY <1>37, <1>r DEF SamplerLock, Moves
  <1>38. CASE SamplerUnlock
    BY <1>38, <1>r DEF SamplerUnlock, Moves
  <1>39. CASE SamplerTick
    BY <1>39, <1>r DEF SamplerTick, Moves
  <1>40. CASE SamplerQuit
    BY <1>40, <1>r DEF SamplerQuit, Moves
  <1>41. CASE FlusherTick
    BY <1>41, <1>r DEF FlusherTick, Moves
  <1>42. CASE FlusherFlush
    BY <1>42, <1>r DEF FlusherFlush, Moves
  <1>43. CASE FlusherQuit
    BY <1>43, <1>r DEF FlusherQuit, Moves
  <1>44. CASE VmmExit
    BY <1>44, <1>r DEF VmmExit
  <1>45. CASE CtxKill
    BY <1>45, <1>r DEF CtxKill
  <1>46. CASE WriteMarker
    BY <1>46, <1>r DEF WriteMarker
  <1>47. CASE Signal
    BY <1>47, <1>r DEF Signal
  <1>48. CASE Crash
    BY <1>48, <1>r DEF Crash
  <1>49. CASE Terminated
    BY <1>49, <1>r DEF Terminated
  <1>u. CASE UNCHANGED vars
    BY <1>u, <1>r
  <1> QED
    BY <1>1, <1>2, <1>3, <1>4, <1>5, <1>6, <1>7, <1>8, <1>9, <1>10, <1>11, <1>12, <1>13,
       <1>14, <1>15, <1>16, <1>17, <1>18, <1>19, <1>20, <1>21, <1>22, <1>23, <1>24,
       <1>25, <1>26, <1>27, <1>28, <1>29, <1>30, <1>31, <1>32, <1>33, <1>34, <1>35, <1>35r,
       <1>36, <1>37, <1>38, <1>39, <1>40, <1>41, <1>42, <1>43, <1>44, <1>45, <1>46,
       <1>47, <1>48, <1>49, <1>u DEF Next, Launch, Select, Stop, End, Defer, Main,
       Sampler, Flusher, Outside

(* What a step of the supervisor, or a signal, leaves as it is. *)
LEMMA StableStep ==
  TypeOK /\ LogInv /\ WorkspaceInv /\ [Next]_vars
    => Stable
<1> SUFFICES ASSUME TypeOK, LogInv, WorkspaceInv, [Next]_vars
             PROVE  Stable
  OBVIOUS
<1> USE FaultsAssumption DEF Pcs, StartPcs, RunPcs, EndPcs, ReportPcs, DeferPcs, Final,
   Return, Workers, Goto, Alive, vars, mainVars, vmVars, workVars, fileVars, TypeOK,
   LogInv, WorkspaceInv, Stable, MarkTaken
  <1>1. CASE MakeWorkspace
    BY <1>1 DEF MakeWorkspace
  <1>2. CASE PrepareRootFS
    BY <1>2 DEF PrepareRootFS
  <1>3. CASE RecordCreateStarted
    BY <1>3 DEF RecordCreateStarted, Record
  <1>4. CASE NewMachine
    BY <1>4 DEF NewMachine
  <1>5. CASE MachineStart
    BY <1>5 DEF MachineStart
  <1>6. CASE MachinePID
    BY <1>6 DEF MachinePID
  <1>7. CASE RecordCreateFailure
    BY <1>7 DEF RecordCreateFailure, Record
  <1>8. CASE WriteRunning
    BY <1>8 DEF WriteRunning
  <1>9. CASE StartWorkers
    BY <1>9 DEF StartWorkers
  <1>10. CASE RecordVmStarted
    BY <1>10 DEF RecordVmStarted
  <1>11. CASE SelectExit
    BY <1>11 DEF SelectExit, Received
  <1>12. CASE SelectTimeout
    BY <1>12 DEF SelectTimeout, StopAndWait
  <1>13. CASE SelectStop
    BY <1>13 DEF SelectStop, StopAndWait
  <1>14. CASE StopFlusher
    BY <1>14 DEF StopFlusher, StopWorker
  <1>15. CASE JoinFlusher
    BY <1>15 DEF JoinFlusher, JoinWorker, SetNil
  <1>16. CASE LockSample
    BY <1>16 DEF LockSample
  <1>17. CASE FinalSample
    BY <1>17 DEF FinalSample
  <1>18. CASE StopVMM
    BY <1>18 DEF StopVMM, Terminate
  <1>19. CASE AwaitExit
    BY <1>19 DEF AwaitExit, Received
  <1>20. CASE AwaitGrace
    BY <1>20 DEF AwaitGrace
  <1>21. CASE CheckMarker
    BY <1>21 DEF CheckMarker
  <1>22. CASE EndFlusher
    BY <1>22 DEF EndFlusher, StopWorker
  <1>23. CASE EndJoinFlusher
    BY <1>23 DEF EndJoinFlusher, JoinWorker, SetNil
  <1>24. CASE EndSampler
    BY <1>24 DEF EndSampler, StopWorker
  <1>25. CASE EndJoinSampler
    BY <1>25 DEF EndJoinSampler, JoinWorker, SetNil
  <1>26. CASE MarkStopped
    BY <1>26 DEF MarkStopped, WriteStopped
  <1>27. CASE EmitNative
    BY <1>27 DEF EmitNative
  <1>28. CASE RecordVmStopped
    BY <1>28 DEF RecordVmStopped, Record
  <1>29. CASE RewriteState
    BY <1>29 DEF RewriteState, WriteStopped
  <1>30. CASE DeferFlusher
    BY <1>30 DEF DeferFlusher, StopWorker
  <1>31. CASE DeferJoinFlusher
    BY <1>31 DEF DeferJoinFlusher, JoinWorker
  <1>32. CASE DeferSampler
    BY <1>32 DEF DeferSampler, StopWorker
  <1>33. CASE DeferJoinSampler
    BY <1>33 DEF DeferJoinSampler, JoinWorker
  <1>34. CASE DeferStopVMM
    BY <1>34 DEF DeferStopVMM, Terminate
  <1>35. CASE DeferRemove
    BY <1>35 DEF DeferRemove
  <1>35r. CASE DeferRmdir
    BY <1>35r DEF DeferRmdir
  <1>36. CASE WaiterReturns
    BY <1>36 DEF WaiterReturns
  <1>37. CASE SamplerLock
    BY <1>37 DEF SamplerLock, Moves
  <1>38. CASE SamplerUnlock
    BY <1>38 DEF SamplerUnlock, Moves
  <1>39. CASE SamplerTick
    BY <1>39 DEF SamplerTick, Moves
  <1>40. CASE SamplerQuit
    BY <1>40 DEF SamplerQuit, Moves
  <1>41. CASE FlusherTick
    BY <1>41 DEF FlusherTick, Moves
  <1>42. CASE FlusherFlush
    BY <1>42 DEF FlusherFlush, Moves
  <1>43. CASE FlusherQuit
    BY <1>43 DEF FlusherQuit, Moves
  <1>44. CASE VmmExit
    BY <1>44 DEF VmmExit
  <1>45. CASE CtxKill
    BY <1>45 DEF CtxKill
  <1>46. CASE WriteMarker
    BY <1>46 DEF WriteMarker
  <1>47. CASE Signal
    BY <1>47 DEF Signal
  <1>48. CASE Crash
    BY <1>48 DEF Crash
  <1>49. CASE Terminated
    BY <1>49 DEF Terminated
  <1>u. CASE UNCHANGED vars
    BY <1>u
  <1> QED
    BY <1>1, <1>2, <1>3, <1>4, <1>5, <1>6, <1>7, <1>8, <1>9, <1>10, <1>11, <1>12, <1>13,
       <1>14, <1>15, <1>16, <1>17, <1>18, <1>19, <1>20, <1>21, <1>22, <1>23, <1>24,
       <1>25, <1>26, <1>27, <1>28, <1>29, <1>30, <1>31, <1>32, <1>33, <1>34, <1>35, <1>35r,
       <1>36, <1>37, <1>38, <1>39, <1>40, <1>41, <1>42, <1>43, <1>44, <1>45, <1>46,
       <1>47, <1>48, <1>49, <1>u DEF Next, Launch, Select, Stop, End, Defer, Main,
       Sampler, Flusher, Outside
---------------------------------------------------------------------------
(* The commands.                                                           *)

(* What is left of the sandboxes of a stop after its first one. *)
LEMMA TailFacts ==
  ASSUME NEW S, NEW s \in Seq(S), s # <<>>
  PROVE  /\ Tail(s) \in Seq(S)
         /\ Tail(s) = <<>> <=> Len(s) = 1
         /\ \A x : x \notin ToSet(Tail(s)) /\ x # Head(s) => x \notin ToSet(s)
<1>1. /\ Tail(s) \in Seq(S) /\ Len(Tail(s)) = Len(s) - 1 /\ Len(s) \in Nat \ {0}
      /\ \A i \in 1..Len(s) - 1 : Tail(s)[i] = s[i + 1]
      /\ DOMAIN s = 1..Len(s) /\ DOMAIN Tail(s) = 1..Len(s) - 1
  OBVIOUS
<1>2. ASSUME NEW i \in DOMAIN s, s[i] # Head(s) PROVE s[i] \in ToSet(Tail(s))
  <2>1. i - 1 \in DOMAIN Tail(s) /\ Tail(s)[i - 1] = s[i]
    BY <1>1, <1>2
  <2> QED
    BY <2>1 DEF ToSet
<1>3. Tail(s) = <<>> <=> Len(s) = 1
  BY <1>1, SMTT(30)
<1> QED
  BY <1>1, <1>2, <1>3 DEF ToSet

(* A suffix, by its elements. *)
LEMMA SuffixElements ==
  ASSUME NEW S, NEW s \in Seq(S), NEW t \in Seq(S)
  PROVE  IsSuffix(s, t) <=>
           Len(s) <= Len(t) /\ \A i \in 1..Len(s) : s[i] = t[Len(t) - Len(s) + i]
<1>1. /\ Reverse(s) \in Seq(S) /\ Len(Reverse(s)) = Len(s)
      /\ \A i \in 1..Len(s) : Reverse(s)[i] = s[Len(s) - i + 1]
  BY DEF Reverse
<1>2. /\ Reverse(t) \in Seq(S) /\ Len(Reverse(t)) = Len(t)
      /\ \A i \in 1..Len(t) : Reverse(t)[i] = t[Len(t) - i + 1]
  BY DEF Reverse
<1> DEFINE a == SubSeq(Reverse(s), 1, Len(s))
           b == SubSeq(Reverse(t), 1, Len(s))
<1>3. IsSuffix(s, t) <=> Len(s) <= Len(t) /\ a = b
  BY <1>1, <1>2 DEF IsSuffix, IsPrefix
<1>4. ASSUME Len(s) <= Len(t)
      PROVE  a = b <=> \A i \in 1..Len(s) : s[Len(s) - i + 1] = t[Len(t) - i + 1]
  <2>1. a \in Seq(S) /\ Len(a) = Len(s) /\ \A i \in 1..Len(s) : a[i] = s[Len(s) - i + 1]
    BY <1>1
  <2>2. b \in Seq(S) /\ Len(b) = Len(s) /\ \A i \in 1..Len(s) : b[i] = t[Len(t) - i + 1]
    BY <1>2, <1>4
  <2>3. a = b <=> \A i \in 1..Len(s) : a[i] = b[i]
    BY <2>1, <2>2, SeqEqual
  <2> QED
    BY <2>1, <2>2, <2>3
<1>5. ASSUME Len(s) <= Len(t)
      PROVE  (\A i \in 1..Len(s) : s[Len(s) - i + 1] = t[Len(t) - i + 1])
               <=> \A i \in 1..Len(s) : s[i] = t[Len(t) - Len(s) + i]
  <2> Len(s) \in Nat /\ Len(t) \in Nat
    OBVIOUS
  <2>1. ASSUME \A i \in 1..Len(s) : s[Len(s) - i + 1] = t[Len(t) - i + 1], NEW i \in 1..Len(s)
        PROVE  s[i] = t[Len(t) - Len(s) + i]
    <3>1. Len(s) - i + 1 \in 1..Len(s)
      OBVIOUS
    <3>2. /\ Len(s) - (Len(s) - i + 1) + 1 = i
          /\ Len(t) - (Len(s) - i + 1) + 1 = Len(t) - Len(s) + i
      OBVIOUS
    <3> QED
      BY <2>1, <3>1, <3>2
  <2>2. ASSUME \A i \in 1..Len(s) : s[i] = t[Len(t) - Len(s) + i], NEW i \in 1..Len(s)
        PROVE  s[Len(s) - i + 1] = t[Len(t) - i + 1]
    <3>1. Len(s) - i + 1 \in 1..Len(s) /\ Len(t) - Len(s) + (Len(s) - i + 1) = Len(t) - i + 1
      OBVIOUS
    <3> QED
      BY <2>2, <3>1
  <2> QED
    BY <2>1, <2>2
<1> QED
  BY <1>3, <1>4, <1>5

LEMMA SuffixTail ==
  ASSUME NEW S, NEW s \in Seq(S), NEW t \in Seq(S), s # <<>>, IsSuffix(s, t)
  PROVE  IsSuffix(Tail(s), t)
<1>1. /\ Tail(s) \in Seq(S) /\ Len(Tail(s)) = Len(s) - 1
      /\ Len(s) \in Nat \ {0} /\ Len(t) \in Nat
      /\ \A i \in 1..Len(s) - 1 : Tail(s)[i] = s[i + 1]
  OBVIOUS
<1>2. Len(s) <= Len(t) /\ \A i \in 1..Len(s) : s[i] = t[Len(t) - Len(s) + i]
  BY SuffixElements
<1>3. ASSUME NEW i \in 1..Len(s) - 1 PROVE Tail(s)[i] = t[Len(t) - (Len(s) - 1) + i]
  <2>1. i + 1 \in 1..Len(s) /\ Len(t) - Len(s) + (i + 1) = Len(t) - (Len(s) - 1) + i
    BY <1>1
  <2> QED
    BY <1>1, <1>2, <2>1
<1>4. /\ Len(Tail(s)) <= Len(t)
      /\ \A i \in 1..Len(Tail(s)) : Tail(s)[i] = t[Len(t) - Len(Tail(s)) + i]
  BY <1>1, <1>2, <1>3
<1> QED
  BY <1>1, <1>4, SuffixElements

(* To the supervisor a step of a command is the marker, the signal or      *)
(* nothing, and every other step is one of its own.                        *)
LEMMA SupervisorSteps == [CNext]_allVars => [Next]_vars
<1> SUFFICES ASSUME [CNext]_allVars PROVE [Next]_vars
  OBVIOUS
<1>1. CASE SupervisorStep
  BY <1>1 DEF SupervisorStep, Next, Outside
<1>2. CASE Create
  BY <1>2 DEF Create, CreateStat, CreateWriteRequest, CreateSpawn, CreateSeesRunning,
              CreateGivesUp, CreateReachesAgent, CreatorMoves
<1>3. ASSUME NEW p \in Stoppers, StopProcess(p) PROVE [Next]_vars
  BY <1>3 DEF StopProcess, StopOther, StopRequest, StopMark, StopKill, StopPoll, StopGivesUp,
              Next, Outside
<1>4. CASE AllEnded
  BY <1>4 DEF AllEnded, allVars
<1>5. CASE UNCHANGED allVars
  BY <1>5 DEF allVars
<1> QED
  BY <1>1, <1>2, <1>3, <1>4, <1>5 DEF CNext

(* The supervisor's part of the invariant, under its own steps and those   *)
(* of the commands.                                                        *)
LEMMA RunStep ==
  Inv /\ WorkspaceInv /\ EndInv /\ [Next]_vars => Inv' /\ WorkspaceInv' /\ EndInv' /\ Stable
BY InvStep, WorkspaceStep, EndStep, StableStep DEF Inv

(* A stop works through its sandboxes in order, and skips none. *)
LEMMA CliTypeStep == CliTypeOK /\ [CNext]_allVars => CliTypeOK'
<1> SUFFICES ASSUME CliTypeOK, [CNext]_allVars PROVE CliTypeOK'
  OBVIOUS
<1> USE DEF CliTypeOK
<1>1. CASE SupervisorStep
  BY <1>1 DEF SupervisorStep, cliVars
<1>2. CASE Create
  BY <1>2 DEF Create, CreateStat, CreateWriteRequest, CreateSpawn, CreateSeesRunning,
              CreateGivesUp, CreateReachesAgent, CreatorMoves
<1>3. ASSUME NEW p \in Stoppers, StopProcess(p) PROVE CliTypeOK'
  <2>1. ASSUME NEW at \in {"request", "kill", "poll"}, StopperNext(p, at), struck' \in BOOLEAN
        PROVE  CliTypeOK'
    <3>1. /\ left[p] # <<>> /\ left[p] \in Seq({"this", "other"})
          /\ Ids[p] \in Seq({"this", "other"})
      BY <2>1, StoppersAssumption DEF StopperNext, StopperAt
    <3>2. /\ Tail(left[p]) \in Seq({"this", "other"}) /\ IsSuffix(Tail(left[p]), Ids[p])
          /\ Tail(left[p]) = <<>> <=> Len(left[p]) = 1
      BY <3>1, TailFacts, SuffixTail
    <3> QED
      BY <2>1, <3>2 DEF StopperNext, StopperAt
  <2>2. ASSUME NEW at, at # "done", NEW to \in {"mark", "kill", "poll", "failed"},
               StopperMoves(p, at, to), struck' \in BOOLEAN,
               to \in {"mark", "kill", "poll"} => Head(left[p]) = "this"
        PROVE  CliTypeOK'
    BY <2>2 DEF StopperMoves, StopperAt
  <2>3. struck' \in BOOLEAN
    BY <1>3 DEF StopProcess, StopOther, StopRequest, StopMark, StopKill, StopPoll, StopGivesUp
  <2>4. CASE StopOther(p)
    BY <2>1, <2>2, <2>3, <2>4 DEF StopOther, StopFails
  <2>5. CASE StopRequest(p)
    BY <2>2, <2>3, <2>5 DEF StopRequest, StopFails
  <2>6. CASE StopMark(p)
    BY <2>2, <2>3, <2>6 DEF StopMark, StopperMoves, StopperAt
  <2>7. CASE StopKill(p)
    <3>1. stopper[p] = "kill" /\ Head(left[p]) = "this"
      BY <2>7 DEF StopKill, StopSent, StopFails, StopperNext, StopperMoves, StopperAt
    <3> QED
      BY <2>1, <2>2, <2>3, <2>7, <3>1 DEF StopKill, StopSent, StopFails
  <2>8. CASE StopPoll(p)
    BY <2>1, <2>3, <2>8 DEF StopPoll
  <2>9. CASE StopGivesUp(p)
    BY <2>2, <2>3, <2>9 DEF StopGivesUp, StopFails
  <2> QED
    BY <1>3, <2>4, <2>5, <2>6, <2>7, <2>8, <2>9 DEF StopProcess
<1>4. CASE AllEnded
  BY <1>4 DEF AllEnded, allVars, cliVars
<1>5. CASE UNCHANGED allVars
  BY <1>5 DEF allVars, cliVars
<1> QED
  BY <1>1, <1>2, <1>3, <1>4, <1>5 DEF CNext

(* What the commands know of the run stays true, whoever moves. *)
LEMMA CommandStep ==
  CInv /\ [CNext]_allVars /\ Stable /\ WorkspaceInv' => CommandInv'
<1> SUFFICES ASSUME CInv, [CNext]_allVars, Stable, WorkspaceInv' PROVE CommandInv'
  OBVIOUS
<1>0. /\ CommandInv /\ CliTypeOK /\ WorkspaceInv /\ Waits \subseteq Stoppers
      /\ ctxDone \in BOOLEAN /\ stopHit \in BOOLEAN
      /\ workspace \in {"absent", "present", "marked", "emptied", "remarked", "gone"}
  BY StoppersAssumption DEF CInv, Inv, TypeOK
<1>1. ASSUME UNCHANGED cliVars PROVE CommandInv'
  BY <1>0, <1>1 DEF CommandInv, Stable, cliVars
<1>2. CASE Create
  BY <1>0, <1>2 DEF CommandInv, MarkTaken, Create, CreateStat, CreateWriteRequest, CreateSpawn,
     CreateSeesRunning, CreateGivesUp, CreateReachesAgent, CreatorMoves, vars, mainVars, vmVars,
     fileVars, Alive
<1>3. ASSUME NEW p \in Stoppers, StopProcess(p) PROVE CommandInv'
  <2>1. /\ stopper[p] \in {"mark", "kill", "poll"} => stateFile' # "absent"
        /\ \A q \in Stoppers \ {p} : stopper'[q] = stopper[q] /\ left'[q] = left[q]
    BY <1>0, <1>3 DEF CommandInv, Stable, CliTypeOK, StopProcess, StopOther, StopRequest,
       StopMark, StopKill, StopPoll, StopGivesUp, StopSent, StopFails, StopperNext, StopperMoves,
       StopperAt
  <2>2. stopper'[p] \in {"mark", "kill", "poll"} => stateFile' # "absent"
    BY <1>0, <1>3, <2>1 DEF Stable, CliTypeOK, StopProcess, StopOther, StopRequest,
       StopMark, StopKill, StopPoll, StopGivesUp, StopSent, StopFails, StopperNext, StopperMoves,
       StopperAt
  <2>3. stopper'[p] = "kill" /\ "marker" \notin CliFaults => MarkTaken'
    BY <1>0, <1>3 DEF CommandInv, WorkspaceInv, Stable, CliTypeOK, StopProcess, StopOther,
       StopRequest, StopMark, StopKill, StopPoll, StopGivesUp, StopSent, StopFails, StopperNext,
       StopperMoves, StopperAt, WriteMarker, vars, fileVars, MarkTaken
  <2>4. ASSUME p \in Waits, "this" \notin ToSet(left'[p])
        PROVE  ~Alive' /\ stateFile' = "stopped"
    <3>1. CASE left'[p] = left[p]
      BY <1>0, <2>4, <3>1 DEF CommandInv, Stable
    <3>2. CASE StopPoll(p)
      BY <1>0, <3>2 DEF StopPoll, Stable
    <3>3. CASE StopOther(p) /\ StopperNext(p, "request")
      <4>1. left[p] \in Seq({"this", "other"}) /\ left[p] # <<>> /\ Head(left[p]) = "other"
        BY <1>0, <3>3 DEF CliTypeOK, StopOther
      <4>2. left'[p] = Tail(left[p])
        BY <1>0, <3>3 DEF CliTypeOK, StopperNext
      <4>3. "this" \notin ToSet(left[p])
        BY <2>4, <4>1, <4>2, TailFacts
      <4> QED
        BY <1>0, <2>4, <4>3 DEF CommandInv, Stable
    <3> QED
      BY <1>3, <2>4, <3>1, <3>2, <3>3 DEF StopProcess, StopOther, StopRequest, StopMark,
         StopKill, StopGivesUp, StopSent, StopFails, StopperMoves
  <2>5. struck' => ctxDone'
                    /\ ("marker" \notin CliFaults /\ "stopVmm" \notin Faults => stopHit')
    <3>1. CASE struck' = struck
      BY <1>0, <3>1 DEF CommandInv, Stable
    <3>2. CASE StopKill(p) /\ Signal /\ struck' = (struck \/ vmm = "running")
      <4>1. stopper[p] = "kill"
        BY <3>2 DEF StopKill, StopSent, StopFails, StopperNext, StopperMoves, StopperAt
      <4>2. "marker" \notin CliFaults => workspace = "marked" \/ pc = "deferRmdir"
        BY <1>0, <3>2, <4>1 DEF CommandInv, WorkspaceInv, MarkTaken, Signal, Alive, Final
      <4>3. pc = "deferRmdir" /\ "stopVmm" \notin Faults => vmm # "running"
        BY DEF CInv, Inv, VmmInv, Ended
      <4> QED
        BY <1>0, <3>2, <4>2, <4>3 DEF CommandInv, Signal
    <3> QED
      BY <1>3, <3>1, <3>2 DEF StopProcess, StopOther, StopRequest, StopMark, StopKill, StopPoll,
         StopGivesUp
  <2> QED
    BY <1>0, <2>1, <2>2, <2>3, <2>4, <2>5 DEF CommandInv, Stable
<1> QED
  BY <1>1, <1>2, <1>3 DEF CNext, SupervisorStep, AllEnded, allVars

LEMMA CInvInit == CInit => CInv
<1> SUFFICES ASSUME CInit PROVE CInv
  OBVIOUS
<1>1. Inv
  BY InvInit DEF CInit
<1>2. WorkspaceInv /\ EndInv
  BY DEF CInit, Init, InitWith, WorkspaceInv, EndInv
<1>3. ASSUME NEW p \in Stoppers
      PROVE  /\ left[p] \in Seq({"this", "other"}) /\ left[p] # <<>>
             /\ IsSuffix(left[p], Ids[p]) /\ "this" \in ToSet(left[p])
  <2>1. left[p] = Ids[p] /\ Ids[p] \in Seq({"this", "other"})
    BY StoppersAssumption DEF CInit
  <2>2. "this" \in ToSet(Ids[p])
    BY StoppersAssumption DEF ToSet
  <2>3. IsSuffix(Ids[p], Ids[p])
    <3>1. \A i \in 1..Len(Ids[p]) : Ids[p][i] = Ids[p][Len(Ids[p]) - Len(Ids[p]) + i]
      BY <2>1
    <3> QED
      BY <2>1, <3>1, SuffixElements
  <2>4. Ids[p] # <<>>
    <3>1. PICK i \in DOMAIN Ids[p] : Ids[p][i] = "this"
      BY <2>2 DEF ToSet
    <3> QED
      BY <3>1
  <2> QED
    BY <2>1, <2>2, <2>3, <2>4
<1>4. CliTypeOK
  BY <1>3, StoppersAssumption DEF CInit, CliTypeOK
<1>5. CommandInv
  BY <1>3, StoppersAssumption DEF CInit, CommandInv
<1> QED
  BY <1>1, <1>2, <1>4, <1>5 DEF CInv

LEMMA CInvStep == CInv /\ [CNext]_allVars => CInv'
BY SupervisorSteps, RunStep, CliTypeStep, CommandStep DEF CInv

(* CInv holds in every state that create, any number of stops and the      *)
(* supervisor can reach together.                                          *)
THEOREM ControlInvariance == CSpec => []CInv
<1>1. CInit => CInv
  BY CInvInit
<1>2. CInv /\ [CNext]_allVars => CInv'
  BY CInvStep
<1> QED
  BY <1>1, <1>2, PTL DEF CSpec

(* Every stop works through its sandboxes in order and skips none. *)
THEOREM CliTypeCorrect == CSpec => []CliTypeOK
<1>1. CInv => CliTypeOK
  BY DEF CInv
<1> QED
  BY <1>1, ControlInvariance, PTL

(* A stop that waited and went on left no supervisor and no VM, and of the *)
(* workspace at most a marker written during its removal, for any number   *)
(* of stops and whatever fails in any of them.                             *)
THEOREM WaitedStop == CSpec => []WaitedStopIsFinal
<1>1. CInv => WaitedStopIsFinal
  <2> SUFFICES ASSUME CInv, NEW p \in Waits, "this" \notin ToSet(left[p])
               PROVE  /\ ~Alive
                      /\ Faults \cap {"crash", "stopVmm"} = {} => vmm # "running"
                      /\ Faults \cap {"crash", "host"} = {} => workspace \in {"gone", "remarked"}
                      /\ Faults \cap {"crash", "rawtree", "native"} = {} => Recorded("vm.stopped")
    BY DEF WaitedStopIsFinal
  <2>1. ~Alive /\ stateFile = "stopped"
    BY DEF CInv, CommandInv
  <2>2. pc = "exited" \/ (pc = "crashed" /\ "crash" \in Faults)
    BY <2>1 DEF CInv, EndInv, Alive, Final, ReportPcs, DeferPcs
  <2>3. Faults \cap {"crash", "stopVmm"} = {} => vmm # "running"
    <3>1. pc \in Ended /\ "stopVmm" \notin Faults => vmm # "running"
      BY DEF CInv, Inv, VmmInv
    <3> QED
      BY <2>2, <3>1 DEF Ended
  <2>4. Faults \cap {"crash", "host"} = {} => workspace \in {"gone", "remarked"}
    BY <2>1, <2>2 DEF CInv, EndInv
  <2>5. Faults \cap {"crash", "rawtree", "native"} = {} => Recorded("vm.stopped")
    <3>1. ASSUME Faults \cap {"crash", "rawtree", "native"} = {}
          PROVE  pc = "exited" /\ Faults \cap {"rawtree", "native"} = {}
      BY <2>2, <3>1
    <3> QED
      BY <2>1, <3>1 DEF CInv, EndInv
  <2> QED
    BY <2>1, <2>3, <2>4, <2>5
<1> QED
  BY <1>1, ControlInvariance, PTL

(* The signal of a stop that strikes a running VM is always preceded by    *)
(* the marker, so that the run ends as a requested stop.                   *)
THEOREM StopNoFailure == CSpec => []StopIsNoFailure
<1>1. CInv => StopIsNoFailure
  BY DEF CInv, CommandInv, Inv, StopInv, StopIsNoFailure, Status
<1> QED
  BY <1>1, ControlInvariance, PTL

(* The supervisor among the commands is the one of module Supervisor: what *)
(* is proved of that one holds here.                                       *)
THEOREM Composition == CSpec => Spec
<1>1. CInit => Init
  BY DEF CInit
<1>2. [CNext]_allVars => [Next]_vars
  BY SupervisorSteps
<1> QED
  BY <1>1, <1>2, PTL DEF CSpec, Spec

(* So with create and any number of stops around it a run is still the run *)
(* that SandboxLife promises, and its supervisor free of deadlock.         *)
THEOREM ControlledLife == CSpec => Implements /\ []NoDeadlock
BY Composition, Refinement, DeadlockFree
=============================================================================
