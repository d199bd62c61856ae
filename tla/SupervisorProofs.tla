-------------------------- MODULE SupervisorProofs --------------------------
(***************************************************************************)
(* The theorems about Supervisor: Inv is inductive, and the safety         *)
(* properties follow from it.  Each conjunct of Inv has a lemma with one   *)
(* step per action of Next.                                                *)
(***************************************************************************)
EXTENDS SupervisorInv, TLAPS


(* Adding an event to a log: which events it then holds, and which is last. *)
LEMMA AppendFacts ==
  ASSUME NEW s \in Seq(Events), NEW event \in Events
  PROVE  /\ Append(s, event) \in Seq(Events)
         /\ Append(s, event) # <<>>
         /\ Append(s, event)[Len(Append(s, event))] = event
         /\ \A x : (\E i \in DOMAIN Append(s, event) : Append(s, event)[i] = x)
                   => (\E i \in DOMAIN s : s[i] = x) \/ event = x
OBVIOUS


(* Every step keeps the types. *)
LEMMA TypeStep == TypeOK /\ [Next]_vars => TypeOK'
<1> SUFFICES ASSUME TypeOK, [Next]_vars PROVE TypeOK'
  OBVIOUS
<1>s. ASSUME NEW w \in Workers, NEW at, NEW join \in Pcs, NEW next \in Pcs,
             StopWorker(w, at, join, next)
      PROVE  TypeOK'
  <2>1. pc' \in Pcs
    BY <1>s DEF StopWorker, Pcs, Final
  <2> QED
    BY <1>s, <2>1 DEF StopWorker, TypeOK, vmVars, fileVars
<1>m. ASSUME NEW w \in Workers, NEW from, NEW to \in Routines, Moves(w, from, to),
             pc' \in Pcs, mu' \in {"free", "main", "sampler"}
      PROVE  TypeOK'
  BY <1>m DEF Moves, TypeOK, vmVars, fileVars
<1> USE FaultsAssumption DEF TypeOK, Pcs, StartPcs, RunPcs, EndPcs, ReportPcs, DeferPcs,
   Final, Return, Reasons, Events, Workers, Routines, Goto, Alive, vars, mainVars, vmVars,
   workVars, fileVars
  <1>1. CASE MakeWorkspace
    BY <1>1 DEF MakeWorkspace
  <1>2. CASE PrepareRootFS
    BY <1>2 DEF PrepareRootFS
  <1>3. CASE RecordCreateStarted
    BY <1>3 DEF RecordCreateStarted, Record
  <1>4. CASE NewMachine
    BY <1>4 DEF NewMachine
  <1>5. CASE MachineStart
    BY <1>5 DEF MachineStart, CgroupAfter
  <1>6. CASE MachinePID
    BY <1>6 DEF MachinePID
  <1>7. CASE RecordCreateFailure
    BY <1>7 DEF RecordCreateFailure, Record
  <1>8. CASE WriteRunning
    BY <1>8 DEF WriteRunning
  <1>9. CASE StartWorkers
    BY <1>9 DEF StartWorkers
  <1>10. CASE RecordVmStarted
    BY <1>10 DEF RecordVmStarted
  <1>11. CASE SelectExit
    BY <1>11 DEF SelectExit, Received
  <1>12. CASE SelectTimeout
    BY <1>12 DEF SelectTimeout, StopAndWait
  <1>13. CASE SelectStop
    BY <1>13 DEF SelectStop, StopAndWait
  <1>14. CASE StopFlusher
    BY <1>14, <1>s DEF StopFlusher
  <1>15. CASE JoinFlusher
    BY <1>15 DEF JoinFlusher, JoinWorker, SetNil
  <1>16. CASE LockSample
    BY <1>16 DEF LockSample
  <1>17. CASE FinalSample
    BY <1>17 DEF FinalSample
  <1>18. CASE StopVMM
    BY <1>18 DEF StopVMM, Terminate
  <1>19. CASE AwaitExit
    BY <1>19 DEF AwaitExit, Received
  <1>20. CASE AwaitGrace
    BY <1>20 DEF AwaitGrace
  <1>21. CASE CheckMarker
    BY <1>21 DEF CheckMarker
  <1>22. CASE EndFlusher
    BY <1>22, <1>s DEF EndFlusher
  <1>23. CASE EndJoinFlusher
    BY <1>23 DEF EndJoinFlusher, JoinWorker, SetNil
  <1>24. CASE EndSampler
    BY <1>24, <1>s DEF EndSampler
  <1>25. CASE EndJoinSampler
    BY <1>25 DEF EndJoinSampler, JoinWorker, SetNil
  <1>26. CASE MarkStopped
    BY <1>26 DEF MarkStopped, WriteStopped
  <1>27. CASE EmitNative
    BY <1>27 DEF EmitNative
  <1>28. CASE RecordVmStopped
    BY <1>28 DEF RecordVmStopped, Record
  <1>29. CASE RewriteState
    BY <1>29 DEF RewriteState, WriteStopped
  <1>30. CASE DeferFlusher
    BY <1>30, <1>s DEF DeferFlusher
  <1>31. CASE DeferJoinFlusher
    BY <1>31 DEF DeferJoinFlusher, JoinWorker
  <1>32. CASE DeferSampler
    BY <1>32, <1>s DEF DeferSampler
  <1>33. CASE DeferJoinSampler
    BY <1>33 DEF DeferJoinSampler, JoinWorker
  <1>34. CASE DeferStopVMM
    BY <1>34 DEF DeferStopVMM, Terminate
  <1>35. CASE DeferRemove
    BY <1>35 DEF DeferRemove
  <1>35r. CASE DeferRmdir
    BY <1>35r DEF DeferRmdir
  <1>36. CASE WaiterReturns
    BY <1>36 DEF WaiterReturns
  <1>37. CASE SamplerLock
    BY <1>37, <1>m DEF SamplerLock, Moves
  <1>38. CASE SamplerUnlock
    BY <1>38, <1>m DEF SamplerUnlock, Moves
  <1>39. CASE SamplerTick
    BY <1>39, <1>m DEF SamplerTick, Moves
  <1>40. CASE SamplerQuit
    BY <1>40, <1>m DEF SamplerQuit, Moves
  <1>41. CASE FlusherTick
    BY <1>41, <1>m DEF FlusherTick, Moves
  <1>42. CASE FlusherFlush
    BY <1>42, <1>m DEF FlusherFlush, Moves
  <1>43. CASE FlusherQuit
    BY <1>43, <1>m DEF FlusherQuit, Moves
  <1>44. CASE VmmExit
    BY <1>44 DEF VmmExit
  <1>45. CASE CtxKill
    BY <1>45 DEF CtxKill
  <1>46. CASE WriteMarker
    BY <1>46 DEF WriteMarker
  <1>47. CASE Signal
    BY <1>47 DEF Signal
  <1>48. CASE Crash
    BY <1>48 DEF Crash
  <1>49. CASE Terminated
    BY <1>49 DEF Terminated
  <1>u. CASE UNCHANGED vars
    BY <1>u
  <1> QED
    BY <1>1, <1>2, <1>3, <1>4, <1>5, <1>6, <1>7, <1>8, <1>9, <1>10, <1>11, <1>12, <1>13,
       <1>14, <1>15, <1>16, <1>17, <1>18, <1>19, <1>20, <1>21, <1>22, <1>23, <1>24, <1>25,
       <1>26, <1>27, <1>28, <1>29, <1>30, <1>31, <1>32, <1>33, <1>34, <1>35, <1>35r, <1>36, <1>37,
       <1>38, <1>39, <1>40, <1>41, <1>42, <1>43, <1>44, <1>45, <1>46, <1>47, <1>48, <1>49,
       <1>u DEF Next, Launch, Select, Stop, End, Defer, Main, Sampler, Flusher, Outside

(* The vm.stopped event enters the log by one action only. *)
LEMMA RecordedStep ==
  TypeOK /\ [Next]_vars =>
    (Recorded("vm.stopped")' => \/ Recorded("vm.stopped")
                                \/ pc = "vmStopped" /\ pc' \in {"rewriteState", Return})
<1> SUFFICES ASSUME TypeOK, [Next]_vars, Recorded("vm.stopped")'
             PROVE  \/ Recorded("vm.stopped")
                    \/ pc = "vmStopped" /\ pc' \in {"rewriteState", Return}
  OBVIOUS
<1>1. \/ log' = log
      \/ pc = "vmStopped" /\ pc' \in {"rewriteState", Return}
      \/ \E event \in Events \ {"vm.stopped"} : log' = Append(log, event)
  <2> USE DEF Goto, Record, Events, vars, fileVars
  <2>1. CASE MakeWorkspace
    BY <2>1 DEF MakeWorkspace
  <2>2. CASE PrepareRootFS
    BY <2>2 DEF PrepareRootFS
  <2>3. CASE RecordCreateStarted
    BY <2>3 DEF RecordCreateStarted, Record
  <2>4. CASE NewMachine
    BY <2>4 DEF NewMachine
  <2>5. CASE MachineStart
    BY <2>5 DEF MachineStart, CgroupAfter
  <2>6. CASE MachinePID
    BY <2>6 DEF MachinePID
  <2>7. CASE RecordCreateFailure
    BY <2>7 DEF RecordCreateFailure, Record
  <2>8. CASE WriteRunning
    BY <2>8 DEF WriteRunning
  <2>9. CASE StartWorkers
    BY <2>9 DEF StartWorkers
  <2>10. CASE RecordVmStarted
    BY <2>10 DEF RecordVmStarted
  <2>11. CASE SelectExit
    BY <2>11 DEF SelectExit, Received
  <2>12. CASE SelectTimeout
    BY <2>12 DEF SelectTimeout, StopAndWait
  <2>13. CASE SelectStop
    BY <2>13 DEF SelectStop, StopAndWait
  <2>14. CASE StopFlusher
    BY <2>14 DEF StopFlusher, StopWorker
  <2>15. CASE JoinFlusher
    BY <2>15 DEF JoinFlusher, JoinWorker, SetNil
  <2>16. CASE LockSample
    BY <2>16 DEF LockSample
  <2>17. CASE FinalSample
    BY <2>17 DEF FinalSample
  <2>18. CASE StopVMM
    BY <2>18 DEF StopVMM, Terminate
  <2>19. CASE AwaitExit
    BY <2>19 DEF AwaitExit, Received
  <2>20. CASE AwaitGrace
    BY <2>20 DEF AwaitGrace
  <2>21. CASE CheckMarker
    BY <2>21 DEF CheckMarker
  <2>22. CASE EndFlusher
    BY <2>22 DEF EndFlusher, StopWorker
  <2>23. CASE EndJoinFlusher
    BY <2>23 DEF EndJoinFlusher, JoinWorker, SetNil
  <2>24. CASE EndSampler
    BY <2>24 DEF EndSampler, StopWorker
  <2>25. CASE EndJoinSampler
    BY <2>25 DEF EndJoinSampler, JoinWorker, SetNil
  <2>26. CASE MarkStopped
    BY <2>26 DEF MarkStopped, WriteStopped
  <2>27. CASE EmitNative
    BY <2>27 DEF EmitNative
  <2>28. CASE RecordVmStopped
    BY <2>28 DEF RecordVmStopped, Record
  <2>29. CASE RewriteState
    BY <2>29 DEF RewriteState, WriteStopped
  <2>30. CASE DeferFlusher
    BY <2>30 DEF DeferFlusher, StopWorker
  <2>31. CASE DeferJoinFlusher
    BY <2>31 DEF DeferJoinFlusher, JoinWorker
  <2>32. CASE DeferSampler
    BY <2>32 DEF DeferSampler, StopWorker
  <2>33. CASE DeferJoinSampler
    BY <2>33 DEF DeferJoinSampler, JoinWorker
  <2>34. CASE DeferStopVMM
    BY <2>34 DEF DeferStopVMM, Terminate
  <2>35. CASE DeferRemove
    BY <2>35 DEF DeferRemove
  <2>35r. CASE DeferRmdir
    BY <2>35r DEF DeferRmdir
  <2>36. CASE WaiterReturns
    BY <2>36 DEF WaiterReturns
  <2>37. CASE SamplerLock
    BY <2>37 DEF SamplerLock, Moves
  <2>38. CASE SamplerUnlock
    BY <2>38 DEF SamplerUnlock, Moves
  <2>39. CASE SamplerTick
    BY <2>39 DEF SamplerTick, Moves
  <2>40. CASE SamplerQuit
    BY <2>40 DEF SamplerQuit, Moves
  <2>41. CASE FlusherTick
    BY <2>41 DEF FlusherTick, Moves
  <2>42. CASE FlusherFlush
    BY <2>42 DEF FlusherFlush, Moves
  <2>43. CASE FlusherQuit
    BY <2>43 DEF FlusherQuit, Moves
  <2>44. CASE VmmExit
    BY <2>44 DEF VmmExit
  <2>45. CASE CtxKill
    BY <2>45 DEF CtxKill
  <2>46. CASE WriteMarker
    BY <2>46 DEF WriteMarker
  <2>47. CASE Signal
    BY <2>47 DEF Signal
  <2>48. CASE Crash
    BY <2>48 DEF Crash
  <2>49. CASE Terminated
    BY <2>49 DEF Terminated
  <2>u. CASE UNCHANGED vars
    BY <2>u
  <2> QED
    BY <2>1, <2>2, <2>3, <2>4, <2>5, <2>6, <2>7, <2>8, <2>9, <2>10, <2>11, <2>12, <2>13,
       <2>14, <2>15, <2>16, <2>17, <2>18, <2>19, <2>20, <2>21, <2>22, <2>23, <2>24, <2>25,
       <2>26, <2>27, <2>28, <2>29, <2>30, <2>31, <2>32, <2>33, <2>34, <2>35, <2>35r, <2>36, <2>37,
       <2>38, <2>39, <2>40, <2>41, <2>42, <2>43, <2>44, <2>45, <2>46, <2>47, <2>48, <2>49,
       <2>u DEF Next, Launch, Select, Stop, End, Defer, Main, Sampler, Flusher, Outside
<1>2. ASSUME NEW event \in Events \ {"vm.stopped"}, log' = Append(log, event)
      PROVE  Recorded("vm.stopped")' => Recorded("vm.stopped")
  BY <1>2, AppendFacts DEF Recorded, TypeOK
<1> QED
  BY <1>1, <1>2 DEF Recorded


(* The VM: started once, and condemned at the end. *)
LEMMA VmmStep == TypeOK /\ VmmInv /\ [Next]_vars => VmmInv'
<1> SUFFICES ASSUME TypeOK, VmmInv, [Next]_vars PROVE VmmInv'
  OBVIOUS
<1> USE FaultsAssumption DEF TypeOK, Pcs, StartPcs, RunPcs, EndPcs, ReportPcs, DeferPcs,
   Final, Return, Reasons, Events, Workers, Routines, Goto, Alive, vars, mainVars, vmVars,
   workVars, fileVars, VmmInv, BeforeVm, WithVm, Ended
  <1>1. CASE MakeWorkspace
    BY <1>1 DEF MakeWorkspace
  <1>2. CASE PrepareRootFS
    BY <1>2 DEF PrepareRootFS
  <1>3. CASE RecordCreateStarted
    BY <1>3 DEF RecordCreateStarted, Record
  <1>4. CASE NewMachine
    BY <1>4 DEF NewMachine
  <1>5. CASE MachineStart
    BY <1>5 DEF MachineStart, CgroupAfter
  <1>6. CASE MachinePID
    BY <1>6 DEF MachinePID
  <1>7. CASE RecordCreateFailure
    BY <1>7 DEF RecordCreateFailure, Record
  <1>8. CASE WriteRunning
    BY <1>8 DEF WriteRunning
  <1>9. CASE StartWorkers
    BY <1>9 DEF StartWorkers
  <1>10. CASE RecordVmStarted
    BY <1>10 DEF RecordVmStarted
  <1>11. CASE SelectExit
    BY <1>11 DEF SelectExit, Received
  <1>12. CASE SelectTimeout
    BY <1>12 DEF SelectTimeout, StopAndWait
  <1>13. CASE SelectStop
    BY <1>13 DEF SelectStop, StopAndWait
  <1>14. CASE StopFlusher
    BY <1>14 DEF StopFlusher, StopWorker
  <1>15. CASE JoinFlusher
    BY <1>15 DEF JoinFlusher, JoinWorker, SetNil
  <1>16. CASE LockSample
    BY <1>16 DEF LockSample
  <1>17. CASE FinalSample
    BY <1>17 DEF FinalSample
  <1>18. CASE StopVMM
    BY <1>18 DEF StopVMM, Terminate
  <1>19. CASE AwaitExit
    BY <1>19 DEF AwaitExit, Received
  <1>20. CASE AwaitGrace
    BY <1>20 DEF AwaitGrace
  <1>21. CASE CheckMarker
    BY <1>21 DEF CheckMarker
  <1>22. CASE EndFlusher
    BY <1>22 DEF EndFlusher, StopWorker
  <1>23. CASE EndJoinFlusher
    BY <1>23 DEF EndJoinFlusher, JoinWorker, SetNil
  <1>24. CASE EndSampler
    BY <1>24 DEF EndSampler, StopWorker
  <1>25. CASE EndJoinSampler
    BY <1>25 DEF EndJoinSampler, JoinWorker, SetNil
  <1>26. CASE MarkStopped
    BY <1>26 DEF MarkStopped, WriteStopped
  <1>27. CASE EmitNative
    BY <1>27 DEF EmitNative
  <1>28. CASE RecordVmStopped
    BY <1>28 DEF RecordVmStopped, Record
  <1>29. CASE RewriteState
    BY <1>29 DEF RewriteState, WriteStopped
  <1>30. CASE DeferFlusher
    BY <1>30 DEF DeferFlusher, StopWorker
  <1>31. CASE DeferJoinFlusher
    BY <1>31 DEF DeferJoinFlusher, JoinWorker
  <1>32. CASE DeferSampler
    BY <1>32 DEF DeferSampler, StopWorker
  <1>33. CASE DeferJoinSampler
    BY <1>33 DEF DeferJoinSampler, JoinWorker
  <1>34. CASE DeferStopVMM
    BY <1>34 DEF DeferStopVMM, Terminate
  <1>35. CASE DeferRemove
    BY <1>35 DEF DeferRemove
  <1>35r. CASE DeferRmdir
    BY <1>35r DEF DeferRmdir
  <1>36. CASE WaiterReturns
    BY <1>36 DEF WaiterReturns
  <1>37. CASE SamplerLock
    BY <1>37 DEF SamplerLock, Moves
  <1>38. CASE SamplerUnlock
    BY <1>38 DEF SamplerUnlock, Moves
  <1>39. CASE SamplerTick
    BY <1>39 DEF SamplerTick, Moves
  <1>40. CASE SamplerQuit
    BY <1>40 DEF SamplerQuit, Moves
  <1>41. CASE FlusherTick
    BY <1>41 DEF FlusherTick, Moves
  <1>42. CASE FlusherFlush
    BY <1>42 DEF FlusherFlush, Moves
  <1>43. CASE FlusherQuit
    BY <1>43 DEF FlusherQuit, Moves
  <1>44. CASE VmmExit
    BY <1>44 DEF VmmExit
  <1>45. CASE CtxKill
    BY <1>45 DEF CtxKill
  <1>46. CASE WriteMarker
    BY <1>46 DEF WriteMarker
  <1>47. CASE Signal
    BY <1>47 DEF Signal
  <1>48. CASE Crash
    BY <1>48 DEF Crash
  <1>49. CASE Terminated
    BY <1>49 DEF Terminated
  <1>u. CASE UNCHANGED vars
    BY <1>u
  <1> QED
    BY <1>1, <1>2, <1>3, <1>4, <1>5, <1>6, <1>7, <1>8, <1>9, <1>10, <1>11, <1>12, <1>13,
       <1>14, <1>15, <1>16, <1>17, <1>18, <1>19, <1>20, <1>21, <1>22, <1>23, <1>24, <1>25,
       <1>26, <1>27, <1>28, <1>29, <1>30, <1>31, <1>32, <1>33, <1>34, <1>35, <1>35r, <1>36, <1>37,
       <1>38, <1>39, <1>40, <1>41, <1>42, <1>43, <1>44, <1>45, <1>46, <1>47, <1>48, <1>49,
       <1>u DEF Next, Launch, Select, Stop, End, Defer, Main, Sampler, Flusher, Outside

(* No channel is closed twice. *)
LEMMA PanicStep == TypeOK /\ PanicInv /\ [Next]_vars => PanicInv'
<1> SUFFICES ASSUME TypeOK, PanicInv, [Next]_vars PROVE PanicInv'
  OBVIOUS
<1> USE FaultsAssumption DEF TypeOK, Pcs, StartPcs, RunPcs, EndPcs, ReportPcs, DeferPcs,
   Final, Return, Reasons, Events, Workers, Routines, Goto, Alive, vars, mainVars, vmVars,
   workVars, fileVars, PanicInv, AfterClose
  <1>1. CASE MakeWorkspace
    BY <1>1 DEF MakeWorkspace
  <1>2. CASE PrepareRootFS
    BY <1>2 DEF PrepareRootFS
  <1>3. CASE RecordCreateStarted
    BY <1>3 DEF RecordCreateStarted, Record
  <1>4. CASE NewMachine
    BY <1>4 DEF NewMachine
  <1>5. CASE MachineStart
    BY <1>5 DEF MachineStart, CgroupAfter
  <1>6. CASE MachinePID
    BY <1>6 DEF MachinePID
  <1>7. CASE RecordCreateFailure
    BY <1>7 DEF RecordCreateFailure, Record
  <1>8. CASE WriteRunning
    BY <1>8 DEF WriteRunning
  <1>9. CASE StartWorkers
    BY <1>9 DEF StartWorkers
  <1>10. CASE RecordVmStarted
    BY <1>10 DEF RecordVmStarted
  <1>11. CASE SelectExit
    BY <1>11 DEF SelectExit, Received
  <1>12. CASE SelectTimeout
    BY <1>12 DEF SelectTimeout, StopAndWait
  <1>13. CASE SelectStop
    BY <1>13 DEF SelectStop, StopAndWait
  <1>14. CASE StopFlusher
    BY <1>14 DEF StopFlusher, StopWorker
  <1>15. CASE JoinFlusher
    BY <1>15 DEF JoinFlusher, JoinWorker, SetNil
  <1>16. CASE LockSample
    BY <1>16 DEF LockSample
  <1>17. CASE FinalSample
    BY <1>17 DEF FinalSample
  <1>18. CASE StopVMM
    BY <1>18 DEF StopVMM, Terminate
  <1>19. CASE AwaitExit
    BY <1>19 DEF AwaitExit, Received
  <1>20. CASE AwaitGrace
    BY <1>20 DEF AwaitGrace
  <1>21. CASE CheckMarker
    BY <1>21 DEF CheckMarker
  <1>22. CASE EndFlusher
    BY <1>22 DEF EndFlusher, StopWorker
  <1>23. CASE EndJoinFlusher
    BY <1>23 DEF EndJoinFlusher, JoinWorker, SetNil
  <1>24. CASE EndSampler
    BY <1>24 DEF EndSampler, StopWorker
  <1>25. CASE EndJoinSampler
    BY <1>25 DEF EndJoinSampler, JoinWorker, SetNil
  <1>26. CASE MarkStopped
    BY <1>26 DEF MarkStopped, WriteStopped
  <1>27. CASE EmitNative
    BY <1>27 DEF EmitNative
  <1>28. CASE RecordVmStopped
    BY <1>28 DEF RecordVmStopped, Record
  <1>29. CASE RewriteState
    BY <1>29 DEF RewriteState, WriteStopped
  <1>30. CASE DeferFlusher
    BY <1>30 DEF DeferFlusher, StopWorker
  <1>31. CASE DeferJoinFlusher
    BY <1>31 DEF DeferJoinFlusher, JoinWorker
  <1>32. CASE DeferSampler
    BY <1>32 DEF DeferSampler, StopWorker
  <1>33. CASE DeferJoinSampler
    BY <1>33 DEF DeferJoinSampler, JoinWorker
  <1>34. CASE DeferStopVMM
    BY <1>34 DEF DeferStopVMM, Terminate
  <1>35. CASE DeferRemove
    BY <1>35 DEF DeferRemove
  <1>35r. CASE DeferRmdir
    BY <1>35r DEF DeferRmdir
  <1>36. CASE WaiterReturns
    BY <1>36 DEF WaiterReturns
  <1>37. CASE SamplerLock
    BY <1>37 DEF SamplerLock, Moves
  <1>38. CASE SamplerUnlock
    BY <1>38, RequestsAssumption DEF SamplerUnlock, Moves, RequestType
  <1>39. CASE SamplerTick
    BY <1>39 DEF SamplerTick, Moves
  <1>40. CASE SamplerQuit
    BY <1>40 DEF SamplerQuit, Moves
  <1>41. CASE FlusherTick
    BY <1>41 DEF FlusherTick, Moves
  <1>42. CASE FlusherFlush
    BY <1>42 DEF FlusherFlush, Moves
  <1>43. CASE FlusherQuit
    BY <1>43 DEF FlusherQuit, Moves
  <1>44. CASE VmmExit
    BY <1>44 DEF VmmExit
  <1>45. CASE CtxKill
    BY <1>45 DEF CtxKill
  <1>46. CASE WriteMarker
    BY <1>46 DEF WriteMarker
  <1>47. CASE Signal
    BY <1>47 DEF Signal
  <1>48. CASE Crash
    BY <1>48 DEF Crash
  <1>49. CASE Terminated
    BY <1>49 DEF Terminated
  <1>u. CASE UNCHANGED vars
    BY <1>u
  <1> QED
    BY <1>1, <1>2, <1>3, <1>4, <1>5, <1>6, <1>7, <1>8, <1>9, <1>10, <1>11, <1>12, <1>13,
       <1>14, <1>15, <1>16, <1>17, <1>18, <1>19, <1>20, <1>21, <1>22, <1>23, <1>24, <1>25,
       <1>26, <1>27, <1>28, <1>29, <1>30, <1>31, <1>32, <1>33, <1>34, <1>35, <1>35r, <1>36, <1>37,
       <1>38, <1>39, <1>40, <1>41, <1>42, <1>43, <1>44, <1>45, <1>46, <1>47, <1>48, <1>49,
       <1>u DEF Next, Launch, Select, Stop, End, Defer, Main, Sampler, Flusher, Outside

(* Nil handles and finished goroutines. *)
LEMMA WorkersStep == TypeOK /\ WorkersInv /\ [Next]_vars => WorkersInv'
<1> SUFFICES ASSUME TypeOK, WorkersInv, [Next]_vars PROVE WorkersInv'
  OBVIOUS
<1>r. Recorded("vm.stopped")' => \/ Recorded("vm.stopped")
                                 \/ pc = "vmStopped" /\ pc' \in {"rewriteState", Return}
    BY RecordedStep
<1> USE FaultsAssumption DEF TypeOK, Pcs, StartPcs, RunPcs, EndPcs, ReportPcs, DeferPcs,
   Final, Return, Reasons, Events, Workers, Routines, Goto, Alive, vars, mainVars, vmVars,
   workVars, fileVars, WorkersInv, NoFlusherPcs, NoSamplerPcs
  <1>1. CASE MakeWorkspace
    BY <1>1, <1>r DEF MakeWorkspace
  <1>2. CASE PrepareRootFS
    BY <1>2, <1>r DEF PrepareRootFS
  <1>3. CASE RecordCreateStarted
    BY <1>3, <1>r DEF RecordCreateStarted, Record
  <1>4. CASE NewMachine
    BY <1>4, <1>r DEF NewMachine
  <1>5. CASE MachineStart
    BY <1>5, <1>r DEF MachineStart, CgroupAfter
  <1>6. CASE MachinePID
    BY <1>6, <1>r DEF MachinePID
  <1>7. CASE RecordCreateFailure
    BY <1>7, <1>r DEF RecordCreateFailure, Record
  <1>8. CASE WriteRunning
    BY <1>8, <1>r DEF WriteRunning
  <1>9. CASE StartWorkers
    BY <1>9, <1>r DEF StartWorkers
  <1>10. CASE RecordVmStarted
    BY <1>10, <1>r DEF RecordVmStarted
  <1>11. CASE SelectExit
    BY <1>11, <1>r DEF SelectExit, Received
  <1>12. CASE SelectTimeout
    BY <1>12, <1>r DEF SelectTimeout, StopAndWait
  <1>13. CASE SelectStop
    BY <1>13, <1>r DEF SelectStop, StopAndWait
  <1>14. CASE StopFlusher
    BY <1>14, <1>r DEF StopFlusher, StopWorker
  <1>15. CASE JoinFlusher
    BY <1>15, <1>r DEF JoinFlusher, JoinWorker, SetNil
  <1>16. CASE LockSample
    BY <1>16, <1>r DEF LockSample
  <1>17. CASE FinalSample
    BY <1>17, <1>r DEF FinalSample
  <1>18. CASE StopVMM
    BY <1>18, <1>r DEF StopVMM, Terminate
  <1>19. CASE AwaitExit
    BY <1>19, <1>r DEF AwaitExit, Received
  <1>20. CASE AwaitGrace
    BY <1>20, <1>r DEF AwaitGrace
  <1>21. CASE CheckMarker
    BY <1>21, <1>r DEF CheckMarker
  <1>22. CASE EndFlusher
    BY <1>22, <1>r DEF EndFlusher, StopWorker
  <1>23. CASE EndJoinFlusher
    BY <1>23, <1>r DEF EndJoinFlusher, JoinWorker, SetNil
  <1>24. CASE EndSampler
    BY <1>24, <1>r DEF EndSampler, StopWorker
  <1>25. CASE EndJoinSampler
    BY <1>25, <1>r DEF EndJoinSampler, JoinWorker, SetNil
  <1>26. CASE MarkStopped
    BY <1>26, <1>r DEF MarkStopped, WriteStopped
  <1>27. CASE EmitNative
    BY <1>27, <1>r DEF EmitNative
  <1>28. CASE RecordVmStopped
    BY <1>28, <1>r DEF RecordVmStopped, Record
  <1>29. CASE RewriteState
    BY <1>29, <1>r DEF RewriteState, WriteStopped
  <1>30. CASE DeferFlusher
    BY <1>30, <1>r DEF DeferFlusher, StopWorker
  <1>31. CASE DeferJoinFlusher
    BY <1>31, <1>r DEF DeferJoinFlusher, JoinWorker
  <1>32. CASE DeferSampler
    BY <1>32, <1>r DEF DeferSampler, StopWorker
  <1>33. CASE DeferJoinSampler
    BY <1>33, <1>r DEF DeferJoinSampler, JoinWorker
  <1>34. CASE DeferStopVMM
    BY <1>34, <1>r DEF DeferStopVMM, Terminate
  <1>35. CASE DeferRemove
    BY <1>35, <1>r DEF DeferRemove
  <1>35r. CASE DeferRmdir
    BY <1>35r, <1>r DEF DeferRmdir
  <1>36. CASE WaiterReturns
    BY <1>36, <1>r DEF WaiterReturns
  <1>37. CASE SamplerLock
    BY <1>37, <1>r DEF SamplerLock, Moves
  <1>38. CASE SamplerUnlock
    BY <1>38, <1>r DEF SamplerUnlock, Moves
  <1>39. CASE SamplerTick
    BY <1>39, <1>r DEF SamplerTick, Moves
  <1>40. CASE SamplerQuit
    BY <1>40, <1>r DEF SamplerQuit, Moves
  <1>41. CASE FlusherTick
    BY <1>41, <1>r DEF FlusherTick, Moves
  <1>42. CASE FlusherFlush
    BY <1>42, <1>r DEF FlusherFlush, Moves
  <1>43. CASE FlusherQuit
    BY <1>43, <1>r DEF FlusherQuit, Moves
  <1>44. CASE VmmExit
    BY <1>44, <1>r DEF VmmExit
  <1>45. CASE CtxKill
    BY <1>45, <1>r DEF CtxKill
  <1>46. CASE WriteMarker
    BY <1>46, <1>r DEF WriteMarker
  <1>47. CASE Signal
    BY <1>47, <1>r DEF Signal
  <1>48. CASE Crash
    BY <1>48, <1>r DEF Crash
  <1>49. CASE Terminated
    BY <1>49, <1>r DEF Terminated
  <1>u. CASE UNCHANGED vars
    BY <1>u, <1>r DEF Recorded
  <1> QED
    BY <1>1, <1>2, <1>3, <1>4, <1>5, <1>6, <1>7, <1>8, <1>9, <1>10, <1>11, <1>12, <1>13,
       <1>14, <1>15, <1>16, <1>17, <1>18, <1>19, <1>20, <1>21, <1>22, <1>23, <1>24, <1>25,
       <1>26, <1>27, <1>28, <1>29, <1>30, <1>31, <1>32, <1>33, <1>34, <1>35, <1>35r, <1>36, <1>37,
       <1>38, <1>39, <1>40, <1>41, <1>42, <1>43, <1>44, <1>45, <1>46, <1>47, <1>48, <1>49,
       <1>u DEF Next, Launch, Select, Stop, End, Defer, Main, Sampler, Flusher, Outside

(* Every step keeps who waits for whom.                                    *)
LEMMA WaitStep == TypeOK /\ WaitInv /\ [Next]_vars => WaitInv'
<1> SUFFICES ASSUME TypeOK, WaitInv, [Next]_vars PROVE WaitInv'
  OBVIOUS
<1> USE FaultsAssumption DEF TypeOK, Pcs, StartPcs, RunPcs, EndPcs, ReportPcs, DeferPcs,
   Final, Return, Reasons, Events, Workers, Routines, Goto, Alive, vars, mainVars, vmVars,
   workVars, fileVars, WaitInv, JoinPcs
  <1>1. CASE MakeWorkspace
    BY <1>1 DEF MakeWorkspace
  <1>2. CASE PrepareRootFS
    BY <1>2 DEF PrepareRootFS
  <1>3. CASE RecordCreateStarted
    BY <1>3 DEF RecordCreateStarted, Record
  <1>4. CASE NewMachine
    BY <1>4 DEF NewMachine
  <1>5. CASE MachineStart
    BY <1>5 DEF MachineStart, CgroupAfter
  <1>6. CASE MachinePID
    BY <1>6 DEF MachinePID
  <1>7. CASE RecordCreateFailure
    BY <1>7 DEF RecordCreateFailure, Record
  <1>8. CASE WriteRunning
    BY <1>8 DEF WriteRunning
  <1>9. CASE StartWorkers
    BY <1>9 DEF StartWorkers
  <1>10. CASE RecordVmStarted
    BY <1>10 DEF RecordVmStarted
  <1>11. CASE SelectExit
    BY <1>11 DEF SelectExit, Received
  <1>12. CASE SelectTimeout
    BY <1>12 DEF SelectTimeout, StopAndWait
  <1>13. CASE SelectStop
    BY <1>13 DEF SelectStop, StopAndWait
  <1>14. CASE StopFlusher
    BY <1>14 DEF StopFlusher, StopWorker
  <1>15. CASE JoinFlusher
    BY <1>15 DEF JoinFlusher, JoinWorker, SetNil
  <1>16. CASE LockSample
    BY <1>16 DEF LockSample
  <1>17. CASE FinalSample
    BY <1>17 DEF FinalSample
  <1>18. CASE StopVMM
    BY <1>18 DEF StopVMM, Terminate
  <1>19. CASE AwaitExit
    BY <1>19 DEF AwaitExit, Received
  <1>20. CASE AwaitGrace
    BY <1>20 DEF AwaitGrace
  <1>21. CASE CheckMarker
    BY <1>21 DEF CheckMarker
  <1>22. CASE EndFlusher
    BY <1>22 DEF EndFlusher, StopWorker
  <1>23. CASE EndJoinFlusher
    BY <1>23 DEF EndJoinFlusher, JoinWorker, SetNil
  <1>24. CASE EndSampler
    BY <1>24 DEF EndSampler, StopWorker
  <1>25. CASE EndJoinSampler
    BY <1>25 DEF EndJoinSampler, JoinWorker, SetNil
  <1>26. CASE MarkStopped
    BY <1>26 DEF MarkStopped, WriteStopped
  <1>27. CASE EmitNative
    BY <1>27 DEF EmitNative
  <1>28. CASE RecordVmStopped
    BY <1>28 DEF RecordVmStopped, Record
  <1>29. CASE RewriteState
    BY <1>29 DEF RewriteState, WriteStopped
  <1>30. CASE DeferFlusher
    BY <1>30 DEF DeferFlusher, StopWorker
  <1>31. CASE DeferJoinFlusher
    BY <1>31 DEF DeferJoinFlusher, JoinWorker
  <1>32. CASE DeferSampler
    BY <1>32 DEF DeferSampler, StopWorker
  <1>33. CASE DeferJoinSampler
    BY <1>33 DEF DeferJoinSampler, JoinWorker
  <1>34. CASE DeferStopVMM
    BY <1>34 DEF DeferStopVMM, Terminate
  <1>35. CASE DeferRemove
    BY <1>35 DEF DeferRemove
  <1>35r. CASE DeferRmdir
    BY <1>35r DEF DeferRmdir
  <1>36. CASE WaiterReturns
    BY <1>36 DEF WaiterReturns
  <1>37. CASE SamplerLock
    BY <1>37 DEF SamplerLock, Moves
  <1>38. CASE SamplerUnlock
    BY <1>38 DEF SamplerUnlock, Moves
  <1>39. CASE SamplerTick
    BY <1>39 DEF SamplerTick, Moves
  <1>40. CASE SamplerQuit
    BY <1>40 DEF SamplerQuit, Moves
  <1>41. CASE FlusherTick
    BY <1>41 DEF FlusherTick, Moves
  <1>42. CASE FlusherFlush
    BY <1>42 DEF FlusherFlush, Moves
  <1>43. CASE FlusherQuit
    BY <1>43 DEF FlusherQuit, Moves
  <1>44. CASE VmmExit
    BY <1>44 DEF VmmExit
  <1>45. CASE CtxKill
    BY <1>45 DEF CtxKill
  <1>46. CASE WriteMarker
    BY <1>46 DEF WriteMarker
  <1>47. CASE Signal
    BY <1>47 DEF Signal
  <1>48. CASE Crash
    BY <1>48 DEF Crash
  <1>49. CASE Terminated
    BY <1>49 DEF Terminated
  <1>u. CASE UNCHANGED vars
    BY <1>u DEF Recorded
  <1> QED
    BY <1>1, <1>2, <1>3, <1>4, <1>5, <1>6, <1>7, <1>8, <1>9, <1>10, <1>11, <1>12, <1>13,
       <1>14, <1>15, <1>16, <1>17, <1>18, <1>19, <1>20, <1>21, <1>22, <1>23, <1>24, <1>25,
       <1>26, <1>27, <1>28, <1>29, <1>30, <1>31, <1>32, <1>33, <1>34, <1>35, <1>35r, <1>36, <1>37,
       <1>38, <1>39, <1>40, <1>41, <1>42, <1>43, <1>44, <1>45, <1>46, <1>47, <1>48, <1>49,
       <1>u DEF Next, Launch, Select, Stop, End, Defer, Main, Sampler, Flusher, Outside

(* The reason of a stop. *)
LEMMA StopStep == TypeOK /\ VmmInv /\ WorkersInv /\ StopInv /\ [Next]_vars => StopInv'
<1> SUFFICES ASSUME TypeOK, VmmInv, WorkersInv, StopInv, [Next]_vars PROVE StopInv'
  OBVIOUS
<1>r. Recorded("vm.stopped")' => \/ Recorded("vm.stopped")
                                 \/ pc = "vmStopped" /\ pc' \in {"rewriteState", Return}
    BY RecordedStep
<1> USE FaultsAssumption DEF TypeOK, Pcs, StartPcs, RunPcs, EndPcs, ReportPcs, DeferPcs,
   Final, Return, Reasons, Events, Workers, Routines, Goto, Alive, vars, mainVars, vmVars,
   workVars, fileVars, StopInv, Condemned, Judged, VmmInv, BeforeVm, WithVm, WorkersInv
  <1>1. CASE MakeWorkspace
    BY <1>1, <1>r DEF MakeWorkspace
  <1>2. CASE PrepareRootFS
    BY <1>2, <1>r DEF PrepareRootFS
  <1>3. CASE RecordCreateStarted
    BY <1>3, <1>r DEF RecordCreateStarted, Record
  <1>4. CASE NewMachine
    BY <1>4, <1>r DEF NewMachine
  <1>5. CASE MachineStart
    BY <1>5, <1>r DEF MachineStart, CgroupAfter
  <1>6. CASE MachinePID
    BY <1>6, <1>r DEF MachinePID
  <1>7. CASE RecordCreateFailure
    BY <1>7, <1>r DEF RecordCreateFailure, Record
  <1>8. CASE WriteRunning
    BY <1>8, <1>r DEF WriteRunning
  <1>9. CASE StartWorkers
    BY <1>9, <1>r DEF StartWorkers
  <1>10. CASE RecordVmStarted
    BY <1>10, <1>r DEF RecordVmStarted
  <1>11. CASE SelectExit
    BY <1>11, <1>r DEF SelectExit, Received
  <1>12. CASE SelectTimeout
    BY <1>12, <1>r DEF SelectTimeout, StopAndWait
  <1>13. CASE SelectStop
    BY <1>13, <1>r DEF SelectStop, StopAndWait
  <1>14. CASE StopFlusher
    BY <1>14, <1>r DEF StopFlusher, StopWorker
  <1>15. CASE JoinFlusher
    BY <1>15, <1>r DEF JoinFlusher, JoinWorker, SetNil
  <1>16. CASE LockSample
    BY <1>16, <1>r DEF LockSample
  <1>17. CASE FinalSample
    BY <1>17, <1>r DEF FinalSample
  <1>18. CASE StopVMM
    BY <1>18, <1>r DEF StopVMM, Terminate
  <1>19. CASE AwaitExit
    BY <1>19, <1>r DEF AwaitExit, Received
  <1>20. CASE AwaitGrace
    BY <1>20, <1>r DEF AwaitGrace
  <1>21. CASE CheckMarker
    BY <1>21, <1>r DEF CheckMarker
  <1>22. CASE EndFlusher
    BY <1>22, <1>r DEF EndFlusher, StopWorker
  <1>23. CASE EndJoinFlusher
    BY <1>23, <1>r DEF EndJoinFlusher, JoinWorker, SetNil
  <1>24. CASE EndSampler
    BY <1>24, <1>r DEF EndSampler, StopWorker
  <1>25. CASE EndJoinSampler
    BY <1>25, <1>r DEF EndJoinSampler, JoinWorker, SetNil
  <1>26. CASE MarkStopped
    BY <1>26, <1>r DEF MarkStopped, WriteStopped
  <1>27. CASE EmitNative
    BY <1>27, <1>r DEF EmitNative
  <1>28. CASE RecordVmStopped
    BY <1>28, <1>r DEF RecordVmStopped, Record
  <1>29. CASE RewriteState
    BY <1>29, <1>r DEF RewriteState, WriteStopped
  <1>30. CASE DeferFlusher
    BY <1>30, <1>r DEF DeferFlusher, StopWorker
  <1>31. CASE DeferJoinFlusher
    BY <1>31, <1>r DEF DeferJoinFlusher, JoinWorker
  <1>32. CASE DeferSampler
    BY <1>32, <1>r DEF DeferSampler, StopWorker
  <1>33. CASE DeferJoinSampler
    BY <1>33, <1>r DEF DeferJoinSampler, JoinWorker
  <1>34. CASE DeferStopVMM
    BY <1>34, <1>r DEF DeferStopVMM, Terminate
  <1>35. CASE DeferRemove
    BY <1>35, <1>r DEF DeferRemove
  <1>35r. CASE DeferRmdir
    BY <1>35r, <1>r DEF DeferRmdir
  <1>36. CASE WaiterReturns
    BY <1>36, <1>r DEF WaiterReturns
  <1>37. CASE SamplerLock
    BY <1>37, <1>r DEF SamplerLock, Moves
  <1>38. CASE SamplerUnlock
    BY <1>38, <1>r DEF SamplerUnlock, Moves
  <1>39. CASE SamplerTick
    BY <1>39, <1>r DEF SamplerTick, Moves
  <1>40. CASE SamplerQuit
    BY <1>40, <1>r DEF SamplerQuit, Moves
  <1>41. CASE FlusherTick
    BY <1>41, <1>r DEF FlusherTick, Moves
  <1>42. CASE FlusherFlush
    BY <1>42, <1>r DEF FlusherFlush, Moves
  <1>43. CASE FlusherQuit
    BY <1>43, <1>r DEF FlusherQuit, Moves
  <1>44. CASE VmmExit
    BY <1>44, <1>r DEF VmmExit
  <1>45. CASE CtxKill
    BY <1>45, <1>r DEF CtxKill
  <1>46. CASE WriteMarker
    BY <1>46, <1>r DEF WriteMarker
  <1>47. CASE Signal
    BY <1>47, <1>r DEF Signal
  <1>48. CASE Crash
    BY <1>48, <1>r DEF Crash
  <1>49. CASE Terminated
    BY <1>49, <1>r DEF Terminated
  <1>u. CASE UNCHANGED vars
    BY <1>u, <1>r DEF Recorded
  <1> QED
    BY <1>1, <1>2, <1>3, <1>4, <1>5, <1>6, <1>7, <1>8, <1>9, <1>10, <1>11, <1>12, <1>13,
       <1>14, <1>15, <1>16, <1>17, <1>18, <1>19, <1>20, <1>21, <1>22, <1>23, <1>24, <1>25,
       <1>26, <1>27, <1>28, <1>29, <1>30, <1>31, <1>32, <1>33, <1>34, <1>35, <1>35r, <1>36, <1>37,
       <1>38, <1>39, <1>40, <1>41, <1>42, <1>43, <1>44, <1>45, <1>46, <1>47, <1>48, <1>49,
       <1>u DEF Next, Launch, Select, Stop, End, Defer, Main, Sampler, Flusher, Outside

(* The log and the state file at each statement. *)
LEMMA LogStep == TypeOK /\ LogInv /\ [Next]_vars => LogInv'
<1> SUFFICES ASSUME TypeOK, LogInv, [Next]_vars PROVE LogInv'
  OBVIOUS
<1> USE FaultsAssumption DEF TypeOK, Pcs, StartPcs, RunPcs, EndPcs, ReportPcs, DeferPcs,
   Final, Return, Reasons, Events, Workers, Routines, Goto, Alive, vars, mainVars, vmVars,
   workVars, fileVars, LogInv, LastLogged
  <1>1. CASE MakeWorkspace
    BY <1>1 DEF MakeWorkspace
  <1>2. CASE PrepareRootFS
    BY <1>2 DEF PrepareRootFS
  <1>3. CASE RecordCreateStarted
    BY <1>3, AppendFacts DEF RecordCreateStarted, Record
  <1>4. CASE NewMachine
    BY <1>4 DEF NewMachine
  <1>5. CASE MachineStart
    BY <1>5 DEF MachineStart, CgroupAfter
  <1>6. CASE MachinePID
    BY <1>6 DEF MachinePID
  <1>7. CASE RecordCreateFailure
    BY <1>7, AppendFacts DEF RecordCreateFailure, Record
  <1>8. CASE WriteRunning
    BY <1>8 DEF WriteRunning
  <1>9. CASE StartWorkers
    BY <1>9 DEF StartWorkers
  <1>10. CASE RecordVmStarted
    BY <1>10, AppendFacts DEF RecordVmStarted
  <1>11. CASE SelectExit
    BY <1>11 DEF SelectExit, Received
  <1>12. CASE SelectTimeout
    BY <1>12 DEF SelectTimeout, StopAndWait
  <1>13. CASE SelectStop
    BY <1>13 DEF SelectStop, StopAndWait
  <1>14. CASE StopFlusher
    BY <1>14 DEF StopFlusher, StopWorker
  <1>15. CASE JoinFlusher
    BY <1>15 DEF JoinFlusher, JoinWorker, SetNil
  <1>16. CASE LockSample
    BY <1>16 DEF LockSample
  <1>17. CASE FinalSample
    BY <1>17 DEF FinalSample
  <1>18. CASE StopVMM
    BY <1>18 DEF StopVMM, Terminate
  <1>19. CASE AwaitExit
    BY <1>19 DEF AwaitExit, Received
  <1>20. CASE AwaitGrace
    BY <1>20 DEF AwaitGrace
  <1>21. CASE CheckMarker
    BY <1>21 DEF CheckMarker
  <1>22. CASE EndFlusher
    BY <1>22 DEF EndFlusher, StopWorker
  <1>23. CASE EndJoinFlusher
    BY <1>23 DEF EndJoinFlusher, JoinWorker, SetNil
  <1>24. CASE EndSampler
    BY <1>24 DEF EndSampler, StopWorker
  <1>25. CASE EndJoinSampler
    BY <1>25 DEF EndJoinSampler, JoinWorker, SetNil
  <1>26. CASE MarkStopped
    BY <1>26 DEF MarkStopped, WriteStopped
  <1>27. CASE EmitNative
    BY <1>27, AppendFacts DEF EmitNative
  <1>28. CASE RecordVmStopped
    BY <1>28, AppendFacts DEF RecordVmStopped, Record
  <1>29. CASE RewriteState
    BY <1>29 DEF RewriteState, WriteStopped
  <1>30. CASE DeferFlusher
    BY <1>30 DEF DeferFlusher, StopWorker
  <1>31. CASE DeferJoinFlusher
    BY <1>31 DEF DeferJoinFlusher, JoinWorker
  <1>32. CASE DeferSampler
    BY <1>32 DEF DeferSampler, StopWorker
  <1>33. CASE DeferJoinSampler
    BY <1>33 DEF DeferJoinSampler, JoinWorker
  <1>34. CASE DeferStopVMM
    BY <1>34 DEF DeferStopVMM, Terminate
  <1>35. CASE DeferRemove
    BY <1>35 DEF DeferRemove
  <1>35r. CASE DeferRmdir
    BY <1>35r DEF DeferRmdir
  <1>36. CASE WaiterReturns
    BY <1>36 DEF WaiterReturns
  <1>37. CASE SamplerLock
    BY <1>37 DEF SamplerLock, Moves
  <1>38. CASE SamplerUnlock
    BY <1>38 DEF SamplerUnlock, Moves
  <1>39. CASE SamplerTick
    BY <1>39 DEF SamplerTick, Moves
  <1>40. CASE SamplerQuit
    BY <1>40 DEF SamplerQuit, Moves
  <1>41. CASE FlusherTick
    BY <1>41 DEF FlusherTick, Moves
  <1>42. CASE FlusherFlush
    BY <1>42 DEF FlusherFlush, Moves
  <1>43. CASE FlusherQuit
    BY <1>43 DEF FlusherQuit, Moves
  <1>44. CASE VmmExit
    BY <1>44 DEF VmmExit
  <1>45. CASE CtxKill
    BY <1>45 DEF CtxKill
  <1>46. CASE WriteMarker
    BY <1>46 DEF WriteMarker
  <1>47. CASE Signal
    BY <1>47 DEF Signal
  <1>48. CASE Crash
    BY <1>48 DEF Crash
  <1>49. CASE Terminated
    BY <1>49 DEF Terminated
  <1>u. CASE UNCHANGED vars
    BY <1>u
  <1> QED
    BY <1>1, <1>2, <1>3, <1>4, <1>5, <1>6, <1>7, <1>8, <1>9, <1>10, <1>11, <1>12, <1>13,
       <1>14, <1>15, <1>16, <1>17, <1>18, <1>19, <1>20, <1>21, <1>22, <1>23, <1>24, <1>25,
       <1>26, <1>27, <1>28, <1>29, <1>30, <1>31, <1>32, <1>33, <1>34, <1>35, <1>35r, <1>36, <1>37,
       <1>38, <1>39, <1>40, <1>41, <1>42, <1>43, <1>44, <1>45, <1>46, <1>47, <1>48, <1>49,
       <1>u DEF Next, Launch, Select, Stop, End, Defer, Main, Sampler, Flusher, Outside

(* Inv holds initially and every step keeps it. *)
LEMMA InvInit == Init => Inv
<1> SUFFICES ASSUME Init PROVE Inv
  OBVIOUS
<1> USE DEF Init, InitWith, Workers
<1>1. TypeOK
  <2>1. routine \in [Workers -> Routines]
    BY DEF Routines
  <2>2. pc \in Pcs /\ stopReason \in Reasons
    BY DEF Pcs, StartPcs, Reasons
  <2>3. log \in Seq(Events)
    OBVIOUS
  <2> QED
    BY <2>1, <2>2, <2>3 DEF TypeOK
<1>2. ~Recorded("vm.stopped")
  BY DEF Recorded
<1>3. VmmInv /\ PanicInv
  BY DEF VmmInv, PanicInv, BeforeVm, WithVm, Ended, RunPcs, EndPcs, ReportPcs
<1>4. WorkersInv
  BY <1>2 DEF WorkersInv, NoFlusherPcs, NoSamplerPcs, ReportPcs
<1>5. StopInv
  BY <1>2 DEF StopInv, EndPcs, ReportPcs, Judged
<1>6. LogInv
  BY DEF LogInv, StartPcs, RunPcs, EndPcs, ReportPcs
<1>7. WaitInv
  BY DEF WaitInv, JoinPcs
<1> QED
  BY <1>1, <1>3, <1>4, <1>5, <1>6, <1>7 DEF Inv

(* Inv is inductive: each conjunct is kept by every step.                 *)
LEMMA InvStep == Inv /\ [Next]_vars => Inv'
BY TypeStep, VmmStep, PanicStep, WorkersStep, WaitStep, StopStep, LogStep DEF Inv

(* Inv holds in every state the supervisor can reach. *)
THEOREM Invariance == Spec => []Inv
<1>1. Init => Inv
  BY InvInit
<1>2. Inv /\ [Next]_vars => Inv'
  BY InvStep
<1> QED
  BY <1>1, <1>2, PTL DEF Spec

(* The variables of the supervisor keep their types. *)
THEOREM TypeCorrect == Spec => []TypeOK
<1>1. Inv => TypeOK
  BY DEF Inv
<1> QED
  BY <1>1, Invariance, PTL

(* A stop that reached the supervisor while the VM ran is reported as one, *)
(* for every set of requests and faults.                                   *)
THEOREM StopReason == Spec => []StopReasonFaithful
<1>1. Inv => StopReasonFaithful
  BY DEF Inv, StopInv, StopReasonFaithful, Status
<1> QED
  BY <1>1, Invariance, PTL

(* No early return and no order of events leaves Firecracker running behind *)
(* a supervisor that returned.                                              *)
THEOREM NoOrphan == Spec => []NoOrphanedVmm
<1>1. Inv => NoOrphanedVmm
  BY DEF Inv, VmmInv, Ended, NoOrphanedVmm
<1> QED
  BY <1>1, Invariance, PTL

(* No stop channel is closed twice: the supervisor panics on a sampling *)
(* interval that is not positive and on nothing else.                   *)
THEOREM NoPanic == Spec => []NeverPanics
<1>1. Inv => NeverPanics
  BY DEF Inv, PanicInv, NeverPanics
<1> QED
  BY <1>1, Invariance, PTL

(* The run's last word is its vm.stopped event. *)
THEOREM Quiet == Spec => []QuietAfterStopped
<1>1. Inv => QuietAfterStopped
  BY DEF Inv, WorkersInv, QuietAfterStopped
<1> QED
  BY <1>1, Invariance, PTL

(* Under WaitInv whoever the main goroutine waits for can take a step.     *)
LEMMA NobodyWaits == TypeOK /\ WaitInv => NoDeadlock
<1> SUFFICES ASSUME TypeOK, WaitInv PROVE NoDeadlock
  OBVIOUS
<1> USE DEF TypeOK, WaitInv, Alive, Final
<1>1. ASSUME NEW w \in Workers, pc \in JoinPcs(w) PROVE routine[w] = "done" \/ CanGoOn(w)
  BY <1>1 DEF JoinPcs, CanGoOn, Workers, Routines
<1>2. pc = "lockSample" /\ mu # "free" => CanGoOn("sampler")
  BY DEF CanGoOn
<1> QED
  BY <1>1, <1>2 DEF NoDeadlock

(* On no path and after no failure does the main goroutine wait for a      *)
(* goroutine that cannot take a step.                                      *)
THEOREM DeadlockFree == Spec => []NoDeadlock
<1>1. Inv => NoDeadlock
  BY NobodyWaits DEF Inv
<1> QED
  BY <1>1, Invariance, PTL

(* The initial states of the supervisor are initial states of SandboxLife. *)
LEMMA LifeInit == Init => Life!Init
BY DEF Init, InitWith, Life!Init, LifeVm, Alive, Final

(* Every step of the supervisor is a step of SandboxLife or a stutter.     *)
LEMMA LifeStep ==
  ASSUME Inv, [Next]_vars PROVE [Life!Next]_(Life!lifeVars)
<1> USE FaultsAssumption DEF LifeVm, Inv, TypeOK, Pcs, StartPcs, RunPcs, EndPcs,
   ReportPcs, DeferPcs, Final, Return, BeforeVm, WithVm, Ended, VmmInv, LogInv, LastLogged, Goto,
   Alive, vars, mainVars, vmVars, workVars, fileVars, Life!lifeVars
  <1>1. CASE MakeWorkspace
    BY <1>1 DEF MakeWorkspace, Life!Next, Life!EndRun
  <1>2. CASE PrepareRootFS
    BY <1>2 DEF PrepareRootFS
  <1>3. CASE RecordCreateStarted
    BY <1>3, AppendFacts DEF RecordCreateStarted, Record, Life!Next, Life!RecordEvent,
       Life!MayRecord, Life!LastEvent, Life!LifeEvents, Events
  <1>4. CASE NewMachine
    BY <1>4 DEF NewMachine
  <1>5. CASE MachineStart
    BY <1>5 DEF MachineStart, CgroupAfter, Life!Next, Life!StartVm, Life!LastEvent
  <1>6. CASE MachinePID
    BY <1>6 DEF MachinePID
  <1>7. CASE RecordCreateFailure
    BY <1>7, AppendFacts DEF RecordCreateFailure, Record, Life!Next, Life!RecordEvent,
       Life!MayRecord, Life!LastEvent, Life!LifeEvents, Events
  <1>8. CASE WriteRunning
    BY <1>8 DEF WriteRunning, Life!Next, Life!MarkRunning, Life!LastEvent
  <1>9. CASE StartWorkers
    BY <1>9 DEF StartWorkers
  <1>10. CASE RecordVmStarted
    BY <1>10, AppendFacts DEF RecordVmStarted, Life!Next, Life!RecordEvent, Life!MayRecord,
       Life!LastEvent, Life!LifeEvents, Events
  <1>11. CASE SelectExit
    BY <1>11 DEF SelectExit, Received
  <1>12. CASE SelectTimeout
    BY <1>12 DEF SelectTimeout, StopAndWait
  <1>13. CASE SelectStop
    BY <1>13 DEF SelectStop, StopAndWait
  <1>14. CASE StopFlusher
    BY <1>14 DEF StopFlusher, StopWorker, PanicInv, AfterClose, Workers
  <1>15. CASE JoinFlusher
    BY <1>15 DEF JoinFlusher, JoinWorker, SetNil
  <1>16. CASE LockSample
    BY <1>16 DEF LockSample
  <1>17. CASE FinalSample
    BY <1>17 DEF FinalSample
  <1>18. CASE StopVMM
    BY <1>18 DEF StopVMM, Terminate, Life!Next, Life!EndVm
  <1>19. CASE AwaitExit
    BY <1>19 DEF AwaitExit, Received
  <1>20. CASE AwaitGrace
    BY <1>20 DEF AwaitGrace
  <1>21. CASE CheckMarker
    BY <1>21 DEF CheckMarker
  <1>22. CASE EndFlusher
    BY <1>22 DEF EndFlusher, StopWorker, PanicInv, AfterClose, Workers
  <1>23. CASE EndJoinFlusher
    BY <1>23 DEF EndJoinFlusher, JoinWorker, SetNil
  <1>24. CASE EndSampler
    BY <1>24 DEF EndSampler, StopWorker, PanicInv, AfterClose, Workers
  <1>25. CASE EndJoinSampler
    BY <1>25 DEF EndJoinSampler, JoinWorker, SetNil
  <1>26. CASE MarkStopped
    BY <1>26 DEF MarkStopped, WriteStopped, Life!Next, Life!MarkStopped, Life!LastEvent,
       StopInv, Condemned, Life!Stopped
  <1>27. CASE EmitNative
    BY <1>27, AppendFacts DEF EmitNative, Life!Next, Life!RecordEvent, Life!MayRecord,
       Life!LastEvent, Life!LifeEvents, Events, StopInv, Condemned, Life!Stopped
  <1>28. CASE RecordVmStopped
    BY <1>28, AppendFacts DEF RecordVmStopped, Record, Life!Next, Life!RecordEvent,
       Life!MayRecord, Life!LastEvent, Life!LifeEvents, Events, StopInv, Condemned, Life!Stopped
  <1>29. CASE RewriteState
    BY <1>29 DEF RewriteState, WriteStopped, Life!Next, Life!MarkStopped, Life!LastEvent,
       StopInv, Condemned, Life!Stopped
  <1>30. CASE DeferFlusher
    BY <1>30 DEF DeferFlusher, StopWorker, PanicInv, AfterClose, Workers
  <1>31. CASE DeferJoinFlusher
    BY <1>31 DEF DeferJoinFlusher, JoinWorker
  <1>32. CASE DeferSampler
    BY <1>32 DEF DeferSampler, StopWorker, PanicInv, AfterClose, Workers
  <1>33. CASE DeferJoinSampler
    BY <1>33 DEF DeferJoinSampler, JoinWorker
  <1>34. CASE DeferStopVMM
    BY <1>34 DEF DeferStopVMM, Terminate, Life!Next, Life!EndVm
  <1>35. CASE DeferRemove
    BY <1>35 DEF DeferRemove
  <1>35r. CASE DeferRmdir
    BY <1>35r DEF DeferRmdir, Life!Next, Life!EndRun
  <1>36. CASE WaiterReturns
    BY <1>36 DEF WaiterReturns
  <1>37. CASE SamplerLock
    BY <1>37 DEF SamplerLock, Moves
  <1>38. CASE SamplerUnlock
    BY <1>38, RequestsAssumption DEF SamplerUnlock, Moves, RequestType, MayPanic, Life!Next,
       Life!EndRun
  <1>39. CASE SamplerTick
    BY <1>39 DEF SamplerTick, Moves
  <1>40. CASE SamplerQuit
    BY <1>40 DEF SamplerQuit, Moves
  <1>41. CASE FlusherTick
    BY <1>41 DEF FlusherTick, Moves
  <1>42. CASE FlusherFlush
    BY <1>42 DEF FlusherFlush, Moves
  <1>43. CASE FlusherQuit
    BY <1>43 DEF FlusherQuit, Moves
  <1>44. CASE VmmExit
    BY <1>44 DEF VmmExit, Life!Next, Life!EndVm
  <1>45. CASE CtxKill
    BY <1>45 DEF CtxKill, Life!Next, Life!EndVm
  <1>46. CASE WriteMarker
    BY <1>46 DEF WriteMarker
  <1>47. CASE Signal
    BY <1>47 DEF Signal, Life!Next, Life!EndVm
  <1>48. CASE Crash
    BY <1>48 DEF Crash, Life!Next, Life!EndRun
  <1>49. CASE Terminated
    BY <1>49 DEF Terminated
  <1>u. CASE UNCHANGED vars
    BY <1>u
  <1> QED
    BY <1>1, <1>2, <1>3, <1>4, <1>5, <1>6, <1>7, <1>8, <1>9, <1>10, <1>11, <1>12, <1>13,
       <1>14, <1>15, <1>16, <1>17, <1>18, <1>19, <1>20, <1>21, <1>22, <1>23, <1>24, <1>25,
       <1>26, <1>27, <1>28, <1>29, <1>30, <1>31, <1>32, <1>33, <1>34, <1>35, <1>35r, <1>36, <1>37,
       <1>38, <1>39, <1>40, <1>41, <1>42, <1>43, <1>44, <1>45, <1>46, <1>47, <1>48, <1>49,
       <1>u DEF Next, Launch, Select, Stop, End, Defer, Main, Sampler, Flusher, Outside

(* Whatever fails, the supervisor implements SandboxLife: the order of its *)
(* events, its state file, its VM.                                         *)
THEOREM Refinement == Spec => Implements
<1>1. Init => Life!Init
  BY LifeInit
<1>2. Inv /\ [Next]_vars => [Life!Next]_(Life!lifeVars)
  BY LifeStep
<1> QED
  BY <1>1, <1>2, Invariance, PTL DEF Spec, Implements, Life!Spec


============================================================================

