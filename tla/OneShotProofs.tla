---------------------------- MODULE OneShotProofs ----------------------------
(***************************************************************************)
(* The theorems about OneShot.  A step that the one-shot launch shares     *)
(* with the supervisor keeps the parts of the invariant they share, by the *)
(* supervisor's own lemmas; the steps of its own are proved one by one.    *)
(***************************************************************************)
EXTENDS OneShotInv, SupervisorProofs

(* The steps that the supervisor does not have.                            *)
OwnStep ==
  \/ OneShotPID \/ OneShotExit \/ OneShotTimeout \/ OneShotAwaitExit \/ OneShotAwaitGrace
  \/ OneShotEndSampler \/ OneShotEndJoin \/ OneShotVmStopped

(* Every other step is one of the supervisor.                              *)
LEMMA SharedStep == [OneShotNext]_vars => OwnStep \/ [Next]_vars
<1> SUFFICES ASSUME OneShotNext PROVE OwnStep \/ Next
  OBVIOUS
<1>1. OneShotMain => OwnStep \/ Next
  BY DEF OneShotMain, OwnStep, Next, Main, Launch, Stop, End
<1> QED
  BY <1>1 DEF OneShotNext, Next, Outside

(* Every step keeps the types.                                             *)
LEMMA OneShotTypeStep ==
  ASSUME TypeOK, [OneShotNext]_vars
  PROVE  TypeOK'
<1>0. CASE [Next]_vars
  BY <1>0, TypeStep
<1>s. ASSUME OneShotEndSampler PROVE TypeOK'
  <2>1. pc' \in Pcs
    BY <1>s DEF OneShotEndSampler, StopWorker, Pcs, EndPcs, ReportPcs, Final
  <2>2. closed' \subseteq Workers
    BY <1>s DEF OneShotEndSampler, StopWorker, TypeOK, Workers
  <2> QED
    BY <1>s, <2>1, <2>2 DEF OneShotEndSampler, StopWorker, TypeOK, vmVars, fileVars
<1> USE FaultsAssumption DEF TypeOK, Pcs, StartPcs, RunPcs, EndPcs, ReportPcs, DeferPcs,
   Final, Return, Reasons, Events, Workers, Routines, Goto, Alive, mainVars, vmVars,
   workVars, fileVars
<1>1. CASE OneShotPID
  BY <1>1 DEF OneShotPID
<1>2. CASE OneShotExit
  BY <1>2 DEF OneShotExit, Received
<1>3. CASE OneShotTimeout
  BY <1>3 DEF OneShotTimeout
<1>4. CASE OneShotAwaitExit
  BY <1>4 DEF OneShotAwaitExit, Received
<1>5. CASE OneShotAwaitGrace
  BY <1>5 DEF OneShotAwaitGrace
<1>6. CASE OneShotEndSampler
  BY <1>6, <1>s DEF OneShotEndSampler, StopWorker
<1>7. CASE OneShotEndJoin
  BY <1>7 DEF OneShotEndJoin, JoinWorker, SetNil
<1>8. CASE OneShotVmStopped
  BY <1>8 DEF OneShotVmStopped, Record
<1> QED
  BY <1>0, <1>1, <1>2, <1>3, <1>4, <1>5, <1>6, <1>7, <1>8, SharedStep DEF OwnStep

(* Every step keeps the tie of the VMM to the statements.                  *)
LEMMA OneShotVmmStep ==
  ASSUME TypeOK, VmmInv, [OneShotNext]_vars
  PROVE  VmmInv'
<1>0. CASE [Next]_vars
  BY <1>0, VmmStep
<1> USE FaultsAssumption DEF TypeOK, Pcs, StartPcs, RunPcs, EndPcs, ReportPcs, DeferPcs,
   Final, Return, Reasons, Events, Workers, Routines, Goto, Alive, mainVars, vmVars,
   workVars, fileVars, VmmInv, BeforeVm, WithVm, Ended
<1>1. CASE OneShotPID
  BY <1>1 DEF OneShotPID
<1>2. CASE OneShotExit
  BY <1>2 DEF OneShotExit, Received
<1>3. CASE OneShotTimeout
  BY <1>3 DEF OneShotTimeout
<1>4. CASE OneShotAwaitExit
  BY <1>4 DEF OneShotAwaitExit, Received
<1>5. CASE OneShotAwaitGrace
  BY <1>5 DEF OneShotAwaitGrace
<1>6. CASE OneShotEndSampler
  BY <1>6 DEF OneShotEndSampler, StopWorker
<1>7. CASE OneShotEndJoin
  BY <1>7 DEF OneShotEndJoin, JoinWorker, SetNil
<1>8. CASE OneShotVmStopped
  BY <1>8 DEF OneShotVmStopped, Record
<1> QED
  BY <1>0, <1>1, <1>2, <1>3, <1>4, <1>5, <1>6, <1>7, <1>8, SharedStep DEF OwnStep

(* Every step keeps the order of closing.                                  *)
LEMMA OneShotPanicStep ==
  ASSUME TypeOK, PanicInv, [OneShotNext]_vars
  PROVE  PanicInv'
<1>0. CASE [Next]_vars
  BY <1>0, PanicStep
<1> USE FaultsAssumption DEF TypeOK, Pcs, StartPcs, RunPcs, EndPcs, ReportPcs, DeferPcs,
   Final, Return, Reasons, Events, Workers, Routines, Goto, Alive, mainVars, vmVars,
   workVars, fileVars, PanicInv, AfterClose
<1>1. CASE OneShotPID
  BY <1>1 DEF OneShotPID
<1>2. CASE OneShotExit
  BY <1>2 DEF OneShotExit, Received
<1>3. CASE OneShotTimeout
  BY <1>3 DEF OneShotTimeout
<1>4. CASE OneShotAwaitExit
  BY <1>4 DEF OneShotAwaitExit, Received
<1>5. CASE OneShotAwaitGrace
  BY <1>5 DEF OneShotAwaitGrace
<1>6. CASE OneShotEndSampler
  BY <1>6 DEF OneShotEndSampler, StopWorker
<1>7. CASE OneShotEndJoin
  BY <1>7 DEF OneShotEndJoin, JoinWorker, SetNil
<1>8. CASE OneShotVmStopped
  BY <1>8 DEF OneShotVmStopped, Record
<1> QED
  BY <1>0, <1>1, <1>2, <1>3, <1>4, <1>5, <1>6, <1>7, <1>8, SharedStep DEF OwnStep

(* The vm.stopped event enters the log by one action only.                 *)
LEMMA OneShotRecordedStep ==
  ASSUME TypeOK, OwnStep, Recorded("vm.stopped")'
  PROVE  Recorded("vm.stopped") \/ (pc = "vmStopped" /\ pc' = Return)
<1>1. CASE log' = log
  BY <1>1 DEF Recorded
<1>2. CASE OneShotVmStopped
  BY <1>2 DEF OneShotVmStopped, Record, Goto
<1> QED
  BY <1>1, <1>2 DEF OwnStep, OneShotPID, OneShotExit, OneShotTimeout, OneShotAwaitExit,
     OneShotAwaitGrace, OneShotEndSampler, OneShotEndJoin, JoinWorker, SetNil, StopWorker,
     vmVars, workVars, fileVars

(* Every step keeps the tie of the goroutines to the statements.           *)
LEMMA OneShotWorkersStep ==
  ASSUME TypeOK, WorkersInv, [OneShotNext]_vars
  PROVE  WorkersInv'
<1>0. CASE [Next]_vars
  BY <1>0, WorkersStep
<1>r. ASSUME OwnStep, Recorded("vm.stopped")'
      PROVE  Recorded("vm.stopped") \/ (pc = "vmStopped" /\ pc' = Return)
  BY <1>r, OneShotRecordedStep
<1> USE FaultsAssumption DEF TypeOK, Pcs, StartPcs, RunPcs, EndPcs, ReportPcs, DeferPcs,
   Final, Return, Reasons, Events, Workers, Routines, Goto, Alive, mainVars, vmVars,
   workVars, fileVars, WorkersInv, NoFlusherPcs, NoSamplerPcs, OwnStep
<1>1. CASE OneShotPID
  BY <1>1, <1>r DEF OneShotPID
<1>2. CASE OneShotExit
  BY <1>2, <1>r DEF OneShotExit, Received
<1>3. CASE OneShotTimeout
  BY <1>3, <1>r DEF OneShotTimeout
<1>4. CASE OneShotAwaitExit
  BY <1>4, <1>r DEF OneShotAwaitExit, Received
<1>5. CASE OneShotAwaitGrace
  BY <1>5, <1>r DEF OneShotAwaitGrace
<1>6. CASE OneShotEndSampler
  BY <1>6, <1>r DEF OneShotEndSampler, StopWorker
<1>7. CASE OneShotEndJoin
  BY <1>7, <1>r DEF OneShotEndJoin, JoinWorker, SetNil
<1>8. CASE OneShotVmStopped
  BY <1>8, <1>r DEF OneShotVmStopped, Record
<1> QED
  BY <1>0, <1>1, <1>2, <1>3, <1>4, <1>5, <1>6, <1>7, <1>8, SharedStep DEF OwnStep

(* Every step keeps who waits for whom.                                    *)
LEMMA OneShotWaitStep ==
  ASSUME TypeOK, WaitInv, [OneShotNext]_vars
  PROVE  WaitInv'
<1>0. CASE [Next]_vars
  BY <1>0, WaitStep
<1> USE FaultsAssumption DEF TypeOK, Pcs, StartPcs, RunPcs, EndPcs, ReportPcs, DeferPcs,
   Final, Return, Reasons, Events, Workers, Routines, Goto, Alive, mainVars, vmVars,
   workVars, fileVars, WaitInv, JoinPcs, OwnStep
<1>1. CASE OneShotPID
  BY <1>1 DEF OneShotPID
<1>2. CASE OneShotExit
  BY <1>2 DEF OneShotExit, Received
<1>3. CASE OneShotTimeout
  BY <1>3 DEF OneShotTimeout
<1>4. CASE OneShotAwaitExit
  BY <1>4 DEF OneShotAwaitExit, Received
<1>5. CASE OneShotAwaitGrace
  BY <1>5 DEF OneShotAwaitGrace
<1>6. CASE OneShotEndSampler
  BY <1>6 DEF OneShotEndSampler, StopWorker
<1>7. CASE OneShotEndJoin
  BY <1>7 DEF OneShotEndJoin, JoinWorker, SetNil
<1>8. CASE OneShotVmStopped
  BY <1>8 DEF OneShotVmStopped, Record
<1> QED
  BY <1>0, <1>1, <1>2, <1>3, <1>4, <1>5, <1>6, <1>7, <1>8, SharedStep DEF OwnStep

(* Every step keeps the end of a VM that is condemned.                     *)
LEMMA OneShotStopStep ==
  ASSUME TypeOK, VmmInv, WorkersInv, StopInv, AloneInv, [OneShotNext]_vars
  PROVE  StopInv'
<1>0. CASE [Next]_vars
  BY <1>0, StopStep
<1>r. ASSUME OwnStep, Recorded("vm.stopped")'
      PROVE  Recorded("vm.stopped") \/ (pc = "vmStopped" /\ pc' = Return)
  BY <1>r, OneShotRecordedStep
<1> USE FaultsAssumption DEF TypeOK, Pcs, StartPcs, RunPcs, EndPcs, ReportPcs, DeferPcs,
   Final, Return, Reasons, Events, Workers, Routines, Goto, Alive, mainVars, vmVars,
   workVars, fileVars, StopInv, Condemned, Judged, VmmInv, BeforeVm, WithVm, WorkersInv,
   AloneInv, OwnStep
<1>1. CASE OneShotPID
  BY <1>1, <1>r DEF OneShotPID
<1>2. CASE OneShotExit
  BY <1>2, <1>r DEF OneShotExit, Received
<1>3. CASE OneShotTimeout
  BY <1>3, <1>r DEF OneShotTimeout
<1>4. CASE OneShotAwaitExit
  BY <1>4, <1>r DEF OneShotAwaitExit, Received
<1>5. CASE OneShotAwaitGrace
  BY <1>5, <1>r DEF OneShotAwaitGrace
<1>6. CASE OneShotEndSampler
  BY <1>6, <1>r DEF OneShotEndSampler, StopWorker
<1>7. CASE OneShotEndJoin
  BY <1>7, <1>r DEF OneShotEndJoin, JoinWorker, SetNil
<1>8. CASE OneShotVmStopped
  BY <1>8, <1>r DEF OneShotVmStopped, Record
<1> QED
  BY <1>0, <1>1, <1>2, <1>3, <1>4, <1>5, <1>6, <1>7, <1>8, SharedStep DEF OwnStep

(* A one-shot run stays alone.                                             *)
LEMMA AloneStep ==
  ASSUME TypeOK, AloneInv, [OneShotNext]_vars
  PROVE  AloneInv'
<1> USE DEF mainVars, vmVars, workVars, fileVars, AloneInv, Goto
<1>1. CASE MakeWorkspace
  BY <1>1 DEF MakeWorkspace
<1>2. CASE PrepareRootFS
  BY <1>2 DEF PrepareRootFS
<1>3. CASE RecordCreateStarted
  BY <1>3 DEF RecordCreateStarted, Record
<1>4. CASE NewMachine
  BY <1>4 DEF NewMachine
<1>5. CASE MachineStart
  BY <1>5 DEF MachineStart, CgroupAfter
<1>6. CASE OneShotPID
  BY <1>6 DEF OneShotPID
<1>7. CASE RecordCreateFailure
  BY <1>7 DEF RecordCreateFailure, Record
<1>8. CASE StartWorkers
  BY <1>8 DEF StartWorkers
<1>9. CASE RecordVmStarted
  BY <1>9 DEF RecordVmStarted
<1>10. CASE OneShotExit
  BY <1>10 DEF OneShotExit, Received
<1>11. CASE OneShotTimeout
  BY <1>11 DEF OneShotTimeout
<1>12. CASE StopFlusher
  BY <1>12 DEF StopFlusher, StopWorker
<1>13. CASE JoinFlusher
  BY <1>13 DEF JoinFlusher, JoinWorker, SetNil
<1>14. CASE LockSample
  BY <1>14 DEF LockSample
<1>15. CASE FinalSample
  BY <1>15 DEF FinalSample
<1>16. CASE StopVMM
  BY <1>16 DEF StopVMM, Terminate
<1>17. CASE OneShotAwaitExit
  BY <1>17 DEF OneShotAwaitExit, Received
<1>18. CASE OneShotAwaitGrace
  BY <1>18 DEF OneShotAwaitGrace
<1>19. CASE EndFlusher
  BY <1>19 DEF EndFlusher, StopWorker
<1>20. CASE EndJoinFlusher
  BY <1>20 DEF EndJoinFlusher, JoinWorker, SetNil
<1>21. CASE OneShotEndSampler
  BY <1>21 DEF OneShotEndSampler, StopWorker
<1>22. CASE OneShotEndJoin
  BY <1>22 DEF OneShotEndJoin, JoinWorker, SetNil
<1>23. CASE EmitNative
  BY <1>23 DEF EmitNative
<1>24. CASE OneShotVmStopped
  BY <1>24 DEF OneShotVmStopped, Record
<1>25. CASE DeferFlusher
  BY <1>25 DEF DeferFlusher, StopWorker
<1>26. CASE DeferJoinFlusher
  BY <1>26 DEF DeferJoinFlusher, JoinWorker
<1>27. CASE DeferSampler
  BY <1>27 DEF DeferSampler, StopWorker
<1>28. CASE DeferJoinSampler
  BY <1>28 DEF DeferJoinSampler, JoinWorker
<1>29. CASE DeferStopVMM
  BY <1>29 DEF DeferStopVMM, Terminate
<1>30. CASE DeferRemove
  BY <1>30 DEF DeferRemove
<1>30r. CASE DeferRmdir
  BY <1>30r DEF DeferRmdir
<1>31. CASE WaiterReturns
  BY <1>31 DEF WaiterReturns
<1>32. CASE SamplerLock
  BY <1>32 DEF SamplerLock, Moves
<1>33. CASE SamplerUnlock
  BY <1>33 DEF SamplerUnlock, Moves
<1>34. CASE SamplerTick
  BY <1>34 DEF SamplerTick, Moves
<1>35. CASE SamplerQuit
  BY <1>35 DEF SamplerQuit, Moves
<1>36. CASE FlusherTick
  BY <1>36 DEF FlusherTick, Moves
<1>37. CASE FlusherFlush
  BY <1>37 DEF FlusherFlush, Moves
<1>38. CASE FlusherQuit
  BY <1>38 DEF FlusherQuit, Moves
<1>39. CASE VmmExit
  BY <1>39 DEF VmmExit
<1>40. CASE Crash
  BY <1>40 DEF Crash
<1>41. CASE Terminated
  BY <1>41 DEF Terminated, vars
<1>u. CASE UNCHANGED vars
  BY <1>u DEF vars
<1> QED
  BY <1>1, <1>2, <1>3, <1>4, <1>5, <1>6, <1>7, <1>8, <1>9, <1>10, <1>11, <1>12, <1>13,
     <1>14, <1>15, <1>16, <1>17, <1>18, <1>19, <1>20, <1>21, <1>22, <1>23, <1>24, <1>25,
     <1>26, <1>27, <1>28, <1>29, <1>30, <1>30r, <1>31, <1>32, <1>33, <1>34, <1>35, <1>36, <1>37,
     <1>38, <1>39, <1>40, <1>41, <1>u DEF OneShotNext, OneShotMain, Defer, Sampler,
     Flusher

(* Every step keeps the reason and what it says of the VMM.                *)
LEMMA ReasonStep ==
  ASSUME TypeOK, VmmInv, StopInv, AloneInv, ReasonInv, [OneShotNext]_vars
  PROVE  ReasonInv'
<1> USE FaultsAssumption DEF mainVars, vmVars, workVars, fileVars, TypeOK, Pcs, StartPcs,
   RunPcs, EndPcs, ReportPcs, DeferPcs, Final, Return, Reasons, Events, Workers, Routines,
   Goto, Alive, ReasonInv, BeforeVm, VmmInv, StopInv, AloneInv
<1>1. CASE MakeWorkspace
  BY <1>1 DEF MakeWorkspace
<1>2. CASE PrepareRootFS
  BY <1>2 DEF PrepareRootFS
<1>3. CASE RecordCreateStarted
  BY <1>3 DEF RecordCreateStarted, Record
<1>4. CASE NewMachine
  BY <1>4 DEF NewMachine
<1>5. CASE MachineStart
  BY <1>5 DEF MachineStart, CgroupAfter
<1>6. CASE OneShotPID
  BY <1>6 DEF OneShotPID
<1>7. CASE RecordCreateFailure
  BY <1>7 DEF RecordCreateFailure, Record
<1>8. CASE StartWorkers
  BY <1>8 DEF StartWorkers
<1>9. CASE RecordVmStarted
  BY <1>9 DEF RecordVmStarted
<1>10. CASE OneShotExit
  BY <1>10 DEF OneShotExit, Received
<1>11. CASE OneShotTimeout
  BY <1>11 DEF OneShotTimeout
<1>12. CASE StopFlusher
  BY <1>12 DEF StopFlusher, StopWorker
<1>13. CASE JoinFlusher
  BY <1>13 DEF JoinFlusher, JoinWorker, SetNil
<1>14. CASE LockSample
  BY <1>14 DEF LockSample
<1>15. CASE FinalSample
  BY <1>15 DEF FinalSample
<1>16. CASE StopVMM
  BY <1>16 DEF StopVMM, Terminate
<1>17. CASE OneShotAwaitExit
  BY <1>17 DEF OneShotAwaitExit, Received
<1>18. CASE OneShotAwaitGrace
  BY <1>18 DEF OneShotAwaitGrace
<1>19. CASE EndFlusher
  BY <1>19 DEF EndFlusher, StopWorker
<1>20. CASE EndJoinFlusher
  BY <1>20 DEF EndJoinFlusher, JoinWorker, SetNil
<1>21. CASE OneShotEndSampler
  BY <1>21 DEF OneShotEndSampler, StopWorker
<1>22. CASE OneShotEndJoin
  BY <1>22 DEF OneShotEndJoin, JoinWorker, SetNil
<1>23. CASE EmitNative
  BY <1>23 DEF EmitNative
<1>24. CASE OneShotVmStopped
  BY <1>24 DEF OneShotVmStopped, Record
<1>25. CASE DeferFlusher
  BY <1>25 DEF DeferFlusher, StopWorker
<1>26. CASE DeferJoinFlusher
  BY <1>26 DEF DeferJoinFlusher, JoinWorker
<1>27. CASE DeferSampler
  BY <1>27 DEF DeferSampler, StopWorker
<1>28. CASE DeferJoinSampler
  BY <1>28 DEF DeferJoinSampler, JoinWorker
<1>29. CASE DeferStopVMM
  BY <1>29 DEF DeferStopVMM, Terminate
<1>30. CASE DeferRemove
  BY <1>30 DEF DeferRemove
<1>30r. CASE DeferRmdir
  BY <1>30r DEF DeferRmdir
<1>31. CASE WaiterReturns
  BY <1>31 DEF WaiterReturns
<1>32. CASE SamplerLock
  BY <1>32 DEF SamplerLock, Moves
<1>33. CASE SamplerUnlock
  BY <1>33 DEF SamplerUnlock, Moves
<1>34. CASE SamplerTick
  BY <1>34 DEF SamplerTick, Moves
<1>35. CASE SamplerQuit
  BY <1>35 DEF SamplerQuit, Moves
<1>36. CASE FlusherTick
  BY <1>36 DEF FlusherTick, Moves
<1>37. CASE FlusherFlush
  BY <1>37 DEF FlusherFlush, Moves
<1>38. CASE FlusherQuit
  BY <1>38 DEF FlusherQuit, Moves
<1>39. CASE VmmExit
  BY <1>39 DEF VmmExit
<1>40. CASE Crash
  BY <1>40 DEF Crash
<1>41. CASE Terminated
  BY <1>41 DEF Terminated, vars
<1>u. CASE UNCHANGED vars
  BY <1>u DEF vars
<1> QED
  BY <1>1, <1>2, <1>3, <1>4, <1>5, <1>6, <1>7, <1>8, <1>9, <1>10, <1>11, <1>12, <1>13,
     <1>14, <1>15, <1>16, <1>17, <1>18, <1>19, <1>20, <1>21, <1>22, <1>23, <1>24, <1>25,
     <1>26, <1>27, <1>28, <1>29, <1>30, <1>30r, <1>31, <1>32, <1>33, <1>34, <1>35, <1>36, <1>37,
     <1>38, <1>39, <1>40, <1>41, <1>u DEF OneShotNext, OneShotMain, Defer, Sampler,
     Flusher

(* The log and the sampler at each statement.                              *)
LEMMA OneShotLogStep ==
  ASSUME TypeOK, OneShotLogInv, [OneShotNext]_vars
  PROVE  OneShotLogInv'
<1> USE FaultsAssumption DEF mainVars, vmVars, workVars, fileVars, TypeOK, Pcs, StartPcs,
   RunPcs, EndPcs, ReportPcs, DeferPcs, Final, Return, Reasons, Events, Workers, Routines,
   Goto, Alive, OneShotLogInv, BeforeCreate, LastLogged
<1>1. CASE MakeWorkspace
  BY <1>1 DEF MakeWorkspace
<1>2. CASE PrepareRootFS
  BY <1>2 DEF PrepareRootFS
<1>3. CASE RecordCreateStarted
  BY <1>3, AppendFacts DEF RecordCreateStarted, Record
<1>4. CASE NewMachine
  BY <1>4 DEF NewMachine
<1>5. CASE MachineStart
  BY <1>5 DEF MachineStart, CgroupAfter
<1>6. CASE OneShotPID
  BY <1>6 DEF OneShotPID
<1>7. CASE RecordCreateFailure
  BY <1>7, AppendFacts DEF RecordCreateFailure, Record
<1>8. CASE StartWorkers
  BY <1>8 DEF StartWorkers
<1>9. CASE RecordVmStarted
  BY <1>9, AppendFacts DEF RecordVmStarted
<1>10. CASE OneShotExit
  BY <1>10 DEF OneShotExit, Received
<1>11. CASE OneShotTimeout
  BY <1>11 DEF OneShotTimeout
<1>12. CASE StopFlusher
  BY <1>12 DEF StopFlusher, StopWorker
<1>13. CASE JoinFlusher
  BY <1>13 DEF JoinFlusher, JoinWorker, SetNil
<1>14. CASE LockSample
  BY <1>14 DEF LockSample
<1>15. CASE FinalSample
  BY <1>15 DEF FinalSample
<1>16. CASE StopVMM
  BY <1>16 DEF StopVMM, Terminate
<1>17. CASE OneShotAwaitExit
  BY <1>17 DEF OneShotAwaitExit, Received
<1>18. CASE OneShotAwaitGrace
  BY <1>18 DEF OneShotAwaitGrace
<1>19. CASE EndFlusher
  BY <1>19 DEF EndFlusher, StopWorker
<1>20. CASE EndJoinFlusher
  BY <1>20 DEF EndJoinFlusher, JoinWorker, SetNil
<1>21. CASE OneShotEndSampler
  BY <1>21 DEF OneShotEndSampler, StopWorker
<1>22. CASE OneShotEndJoin
  BY <1>22 DEF OneShotEndJoin, JoinWorker, SetNil
<1>23. CASE EmitNative
  BY <1>23, AppendFacts DEF EmitNative
<1>24. CASE OneShotVmStopped
  BY <1>24, AppendFacts DEF OneShotVmStopped, Record
<1>25. CASE DeferFlusher
  BY <1>25 DEF DeferFlusher, StopWorker
<1>26. CASE DeferJoinFlusher
  BY <1>26 DEF DeferJoinFlusher, JoinWorker
<1>27. CASE DeferSampler
  BY <1>27 DEF DeferSampler, StopWorker
<1>28. CASE DeferJoinSampler
  BY <1>28 DEF DeferJoinSampler, JoinWorker
<1>29. CASE DeferStopVMM
  BY <1>29 DEF DeferStopVMM, Terminate
<1>30. CASE DeferRemove
  BY <1>30 DEF DeferRemove
<1>30r. CASE DeferRmdir
  BY <1>30r DEF DeferRmdir
<1>31. CASE WaiterReturns
  BY <1>31 DEF WaiterReturns
<1>32. CASE SamplerLock
  BY <1>32 DEF SamplerLock, Moves
<1>33. CASE SamplerUnlock
  BY <1>33 DEF SamplerUnlock, Moves
<1>34. CASE SamplerTick
  BY <1>34 DEF SamplerTick, Moves
<1>35. CASE SamplerQuit
  BY <1>35 DEF SamplerQuit, Moves
<1>36. CASE FlusherTick
  BY <1>36 DEF FlusherTick, Moves
<1>37. CASE FlusherFlush
  BY <1>37 DEF FlusherFlush, Moves
<1>38. CASE FlusherQuit
  BY <1>38 DEF FlusherQuit, Moves
<1>39. CASE VmmExit
  BY <1>39 DEF VmmExit
<1>40. CASE Crash
  BY <1>40 DEF Crash
<1>41. CASE Terminated
  BY <1>41 DEF Terminated, vars
<1>u. CASE UNCHANGED vars
  BY <1>u DEF vars
<1> QED
  BY <1>1, <1>2, <1>3, <1>4, <1>5, <1>6, <1>7, <1>8, <1>9, <1>10, <1>11, <1>12, <1>13,
     <1>14, <1>15, <1>16, <1>17, <1>18, <1>19, <1>20, <1>21, <1>22, <1>23, <1>24, <1>25,
     <1>26, <1>27, <1>28, <1>29, <1>30, <1>30r, <1>31, <1>32, <1>33, <1>34, <1>35, <1>36, <1>37,
     <1>38, <1>39, <1>40, <1>41, <1>u DEF OneShotNext, OneShotMain, Defer, Sampler,
     Flusher

(* Every step is a step of SandboxLife or a stutter.                       *)
LEMMA OneShotLifeStep ==
  ASSUME OInv, [OneShotNext]_vars
  PROVE  [OneShotLife!Next]_(OneShotLife!lifeVars)
<1> USE FaultsAssumption DEF mainVars, vmVars, workVars, fileVars, LifeState, LifeVm,
   OInv, TypeOK, Pcs, StartPcs, RunPcs, EndPcs, ReportPcs, DeferPcs, Final, Return,
   Reasons, Events, Workers, Routines, Goto, Alive, BeforeVm, WithVm, Ended, VmmInv,
   AloneInv, OneShotLogInv, BeforeCreate, LastLogged, OneShotLife!lifeVars
<1>1. CASE MakeWorkspace
  BY <1>1 DEF MakeWorkspace, OneShotLife!Next, OneShotLife!EndRun
<1>2. CASE PrepareRootFS
  BY <1>2 DEF PrepareRootFS
<1>3. CASE RecordCreateStarted
  BY <1>3, AppendFacts DEF RecordCreateStarted, Record, OneShotLife!Next,
     OneShotLife!RecordEvent, OneShotLife!MayRecord, OneShotLife!LastEvent,
     OneShotLife!LifeEvents
<1>4. CASE NewMachine
  BY <1>4 DEF NewMachine
<1>5. CASE MachineStart
  BY <1>5 DEF MachineStart, CgroupAfter, OneShotLife!Next, OneShotLife!StartVm,
     OneShotLife!LastEvent
<1>6. CASE OneShotPID
  BY <1>6 DEF OneShotPID
<1>7. CASE RecordCreateFailure
  BY <1>7, AppendFacts DEF RecordCreateFailure, Record, OneShotLife!Next,
     OneShotLife!RecordEvent, OneShotLife!MayRecord, OneShotLife!LastEvent,
     OneShotLife!LifeEvents
<1>8. CASE StartWorkers
  BY <1>8 DEF StartWorkers, OneShotLife!Next, OneShotLife!MarkRunning,
     OneShotLife!LastEvent
<1>9. CASE RecordVmStarted
  BY <1>9, AppendFacts DEF RecordVmStarted, OneShotLife!Next, OneShotLife!RecordEvent,
     OneShotLife!MayRecord, OneShotLife!LastEvent, OneShotLife!LifeEvents
<1>10. CASE OneShotExit
  BY <1>10 DEF OneShotExit, Received
<1>11. CASE OneShotTimeout
  BY <1>11 DEF OneShotTimeout
<1>12. CASE StopFlusher
  BY <1>12 DEF StopFlusher, StopWorker, PanicInv, AfterClose
<1>13. CASE JoinFlusher
  BY <1>13 DEF JoinFlusher, JoinWorker, SetNil
<1>14. CASE LockSample
  BY <1>14 DEF LockSample
<1>15. CASE FinalSample
  BY <1>15 DEF FinalSample
<1>16. CASE StopVMM
  BY <1>16 DEF StopVMM, Terminate, OneShotLife!Next, OneShotLife!EndVm
<1>17. CASE OneShotAwaitExit
  BY <1>17 DEF OneShotAwaitExit, Received
<1>18. CASE OneShotAwaitGrace
  BY <1>18 DEF OneShotAwaitGrace
<1>19. CASE EndFlusher
  BY <1>19 DEF EndFlusher, StopWorker, PanicInv, AfterClose
<1>20. CASE EndJoinFlusher
  BY <1>20 DEF EndJoinFlusher, JoinWorker, SetNil
<1>21. CASE OneShotEndSampler
  BY <1>21 DEF OneShotEndSampler, StopWorker, PanicInv, AfterClose
<1>22. CASE OneShotEndJoin
  BY <1>22 DEF OneShotEndJoin, JoinWorker, SetNil
<1>23. CASE EmitNative
  BY <1>23, AppendFacts DEF EmitNative, OneShotLife!Next, OneShotLife!RecordEvent,
     OneShotLife!MayRecord, OneShotLife!LastEvent, OneShotLife!LifeEvents, StopInv,
     Condemned, OneShotLife!Stopped
<1>24. CASE OneShotVmStopped
  BY <1>24, AppendFacts DEF OneShotVmStopped, Record, OneShotLife!Next,
     OneShotLife!RecordEvent, OneShotLife!MayRecord, OneShotLife!LastEvent,
     OneShotLife!LifeEvents, StopInv, Condemned, OneShotLife!Stopped
<1>25. CASE DeferFlusher
  BY <1>25 DEF DeferFlusher, StopWorker, PanicInv, AfterClose
<1>26. CASE DeferJoinFlusher
  BY <1>26 DEF DeferJoinFlusher, JoinWorker
<1>27. CASE DeferSampler
  BY <1>27 DEF DeferSampler, StopWorker, PanicInv, AfterClose
<1>28. CASE DeferJoinSampler
  BY <1>28 DEF DeferJoinSampler, JoinWorker
<1>29. CASE DeferStopVMM
  BY <1>29 DEF DeferStopVMM, Terminate, OneShotLife!Next, OneShotLife!EndVm
<1>30. CASE DeferRemove
  BY <1>30 DEF DeferRemove
<1>30r. CASE DeferRmdir
  BY <1>30r DEF DeferRmdir, OneShotLife!Next, OneShotLife!EndRun
<1>31. CASE WaiterReturns
  BY <1>31 DEF WaiterReturns
<1>32. CASE SamplerLock
  BY <1>32 DEF SamplerLock, Moves
<1>33. CASE SamplerUnlock
  BY <1>33, OneShotRequests, RequestsAssumption DEF SamplerUnlock, Moves, RequestType
<1>34. CASE SamplerTick
  BY <1>34 DEF SamplerTick, Moves
<1>35. CASE SamplerQuit
  BY <1>35 DEF SamplerQuit, Moves
<1>36. CASE FlusherTick
  BY <1>36 DEF FlusherTick, Moves
<1>37. CASE FlusherFlush
  BY <1>37 DEF FlusherFlush, Moves
<1>38. CASE FlusherQuit
  BY <1>38 DEF FlusherQuit, Moves
<1>39. CASE VmmExit
  BY <1>39 DEF VmmExit, OneShotLife!Next, OneShotLife!EndVm
<1>40. CASE Crash
  BY <1>40 DEF Crash, OneShotLife!Next, OneShotLife!EndRun
<1>41. CASE Terminated
  BY <1>41 DEF Terminated, vars
<1>u. CASE UNCHANGED vars
  BY <1>u DEF vars
<1> QED
  BY <1>1, <1>2, <1>3, <1>4, <1>5, <1>6, <1>7, <1>8, <1>9, <1>10, <1>11, <1>12, <1>13,
     <1>14, <1>15, <1>16, <1>17, <1>18, <1>19, <1>20, <1>21, <1>22, <1>23, <1>24, <1>25,
     <1>26, <1>27, <1>28, <1>29, <1>30, <1>30r, <1>31, <1>32, <1>33, <1>34, <1>35, <1>36, <1>37,
     <1>38, <1>39, <1>40, <1>41, <1>u DEF OneShotNext, OneShotMain, Defer, Sampler,
     Flusher

(* OInv holds initially and every step keeps it.                           *)
LEMMA OneShotInvInit == OneShotInit => OInv
<1> SUFFICES ASSUME OneShotInit PROVE OInv
  OBVIOUS
<1> USE DEF OneShotInit, InitWith, Workers
<1>1. TypeOK
  <2>1. routine \in [Workers -> Routines]
    BY DEF Routines
  <2>2. pc \in Pcs /\ stopReason \in Reasons
    BY DEF Pcs, StartPcs, Reasons
  <2>3. log \in Seq(Events)
    OBVIOUS
  <2> QED
    BY <2>1, <2>2, <2>3 DEF TypeOK
<1>2. ~Recorded("vm.stopped")
  BY DEF Recorded
<1>3. VmmInv /\ PanicInv
  BY DEF VmmInv, PanicInv, BeforeVm, WithVm, Ended, RunPcs, EndPcs, ReportPcs
<1>4. WorkersInv
  BY <1>2 DEF WorkersInv, NoFlusherPcs, NoSamplerPcs, ReportPcs
<1>5. StopInv
  BY <1>2 DEF StopInv, EndPcs, ReportPcs, Judged
<1>6. AloneInv /\ ReasonInv /\ WaitInv
  BY DEF AloneInv, ReasonInv, WaitInv, JoinPcs
<1>7. OneShotLogInv
  BY DEF OneShotLogInv, BeforeCreate, StartPcs, RunPcs, EndPcs
<1> QED
  BY <1>1, <1>3, <1>4, <1>5, <1>6, <1>7 DEF OInv

LEMMA OneShotInvStep == OInv /\ [OneShotNext]_vars => OInv'
BY OneShotTypeStep, OneShotVmmStep, OneShotPanicStep, OneShotWorkersStep, OneShotWaitStep,
   OneShotStopStep, AloneStep, ReasonStep, OneShotLogStep DEF OInv

(* OInv holds in every state of a one-shot run.                            *)
THEOREM OneShotInvariance == OneShotSpec => []OInv
<1>1. OneShotInit => OInv
  BY OneShotInvInit
<1>2. OInv /\ [OneShotNext]_vars => OInv'
  BY OneShotInvStep
<1> QED
  BY <1>1, <1>2, PTL DEF OneShotSpec

(* A run that its timeout ended never blames Firecracker, and one that     *)
(* blames it has read the files of a Firecracker that has exited.          *)
THEOREM FaithfulReason == OneShotSpec => []ExitMeansExited
<1>1. OInv => ExitMeansExited
  BY DEF OInv, ReasonInv, ExitMeansExited, Status
<1> QED
  BY <1>1, OneShotInvariance, PTL

(* No early return of a one-shot launch leaves Firecracker running.        *)
THEOREM OneShotNoOrphan == OneShotSpec => []NoOrphanedVmm
<1>1. OInv => NoOrphanedVmm
  BY DEF OInv, VmmInv, Ended, NoOrphanedVmm
<1> QED
  BY <1>1, OneShotInvariance, PTL

(* The last word of a one-shot run is its vm.stopped event.                *)
THEOREM OneShotQuiet == OneShotSpec => []QuietAfterStopped
<1>1. OInv => QuietAfterStopped
  BY DEF OInv, WorkersInv, QuietAfterStopped
<1> QED
  BY <1>1, OneShotInvariance, PTL

(* Its main goroutine waits for no goroutine that cannot take a step.      *)
THEOREM OneShotDeadlockFree == OneShotSpec => []NoDeadlock
<1>1. OInv => NoDeadlock
  BY NobodyWaits DEF OInv
<1> QED
  BY <1>1, OneShotInvariance, PTL

(* Whatever fails, a one-shot run implements SandboxLife: parseArgs lets   *)
(* no interval pass that could panic.                                      *)
THEOREM OneShotRefinement == OneShotSpec => OneShotImplements
<1>1. OneShotInit => OneShotLife!Init
  BY DEF OneShotInit, InitWith, OneShotLife!Init, LifeState, LifeVm, Alive, Final, Workers
<1>2. OInv /\ [OneShotNext]_vars => [OneShotLife!Next]_(OneShotLife!lifeVars)
  BY OneShotLifeStep
<1> QED
  BY <1>1, <1>2, OneShotInvariance, PTL DEF OneShotSpec, OneShotImplements, OneShotLife!Spec

=============================================================================
