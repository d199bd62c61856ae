------------------------- MODULE SandboxFilesProofs -------------------------
(***************************************************************************)
(* The theorems about SandboxFiles: the types for every number and order   *)
(* of attempts, the safety properties for attempts that do not overlap.    *)
(***************************************************************************)
EXTENDS SandboxFilesInv, TLAPS

---------------------------------------------------------------------------
(* Every step keeps the invariant.                                         *)

(* The marks of the request file are no attempts. *)
LEMMA Constants ==
  /\ Attempts \subseteq Nat \ {0} /\ Absent \notin Attempts /\ Empty \notin Attempts
  /\ Absent # Empty /\ Attempts \subseteq Readers /\ Command \in Readers /\ Command \notin Attempts
BY SandboxFilesAssumption DEF Attempts, Absent, Empty, Readers, Command

LEMMA StatesTyped ==
  ASSUME NEW r \in {0} \cup Attempts, NEW p \in {0} \cup Attempts,
         NEW s \in {"none", "torn", "running", "stopped"}
  PROVE  State(r, p, s) \in States /\ Torn \in States /\ None \in States
BY DEF State, States, Torn, None

(* The last call of WriteState. *)
Renamed(t) ==
  /\ sup[t] \in Writes /\ step[t] = "rename"
  /\ \E to \in {"up", "report", "cleanup"} : sup' = [sup EXCEPT ![t] = to]
  /\ step' = [step EXCEPT ![t] = "open"]
  /\ UNCHANGED <<createVars, request, vm, writing, reqFile, content>>
  /\ path["tmp"] = 0 => UNCHANGED <<path, named>>
  /\ path["tmp"] # 0 => /\ path' \in [{"tmp", "state"} -> Nat] /\ path'["tmp"] = 0
                        /\ path'["state"] = path["tmp"] /\ named' = named \cup {t}

LEMMA RenameEffect ==
  ASSUME FilesTyped, NEW t \in Attempts, Rename(t)
  PROVE  Renamed(t)
<1>1. sup[t] \in Writes /\ step[t] = "rename" /\ step' = [step EXCEPT ![t] = "open"]
  BY DEF Rename, StepTo
<1>2. UNCHANGED <<createVars, request, vm, writing, reqFile, content>>
  BY DEF Rename, StepTo
<1>3. \E to \in {"up", "report", "cleanup"} : sup' = [sup EXCEPT ![t] = to]
  <2>1. AfterWrite(t, path["tmp"] = 0) \in {"up", "report", "cleanup"}
    BY <1>1 DEF AfterWrite, Writes
  <2> QED
    BY <2>1 DEF Rename
<1>4. path["tmp"] = 0 => UNCHANGED <<path, named>>
  BY DEF Rename
<1>5. ASSUME path["tmp"] # 0
      PROVE  /\ path' \in [{"tmp", "state"} -> Nat] /\ path'["tmp"] = 0
             /\ path'["state"] = path["tmp"] /\ named' = named \cup {t}
  <2>1. path' = [tmp |-> 0, state |-> path["tmp"]] /\ named' = named \cup {t}
    BY <1>5 DEF Rename
  <2>2. path["tmp"] \in Nat
    BY DEF FilesTyped
  <2> QED
    BY <2>1, <2>2
<1> QED
  BY <1>1, <1>2, <1>3, <1>4, <1>5 DEF Renamed

(* The first call: the temporary file is emptied, or made. *)
Opened(t) ==
  /\ sup[t] \in Writes /\ step[t] = "open" /\ step' = [step EXCEPT ![t] = "write"]
  /\ UNCHANGED <<createVars, request, vm, sup, named, reqFile>>
  /\ path' \in [{"tmp", "state"} -> Nat] /\ path'["state"] = path["state"]
  /\ path'["tmp"] # 0 /\ writing' = [writing EXCEPT ![t] = path'["tmp"]]
  /\ path["tmp"] # 0 => path'["tmp"] = path["tmp"]
  /\ path["tmp"] = 0 => path'["tmp"] \notin DOMAIN content
  /\ content' \in Seq(States) /\ path'["tmp"] \in DOMAIN content'
  /\ \A i \in DOMAIN content :
       i \in DOMAIN content' /\ (i # path'["tmp"] => content'[i] = content[i])

LEMMA OpenEffect ==
  ASSUME FilesTyped, InodesTyped, NEW t \in Attempts, OpenTmp(t)
  PROVE  Opened(t)
<1>1. /\ sup[t] \in Writes /\ step[t] = "open" /\ step' = [step EXCEPT ![t] = "write"]
      /\ UNCHANGED <<createVars, request, vm, sup, named, reqFile>>
  BY DEF OpenTmp, StepTo
<1>2. /\ path \in [{"tmp", "state"} -> Nat] /\ content \in Seq(States) /\ Torn \in States
      /\ writing \in [Attempts -> Nat] /\ path["tmp"] \in {0} \cup DOMAIN content
  BY StatesTyped DEF FilesTyped, InodesTyped
<1>3. CASE path["tmp"] = 0
  <2>1. /\ content' = Append(content, Torn) /\ path' = [path EXCEPT !["tmp"] = Len(content) + 1]
        /\ writing' = [writing EXCEPT ![t] = Len(content) + 1]
    BY <1>3 DEF OpenTmp, OpenAt
  <2>2. /\ path' \in [{"tmp", "state"} -> Nat] /\ path'["state"] = path["state"]
        /\ path'["tmp"] = Len(content) + 1 /\ Len(content) \in Nat
    BY <1>2, <2>1
  <2>3. /\ content' \in Seq(States) /\ DOMAIN content' = 1..Len(content) + 1
        /\ DOMAIN content = 1..Len(content) /\ \A i \in DOMAIN content : content'[i] = content[i]
    BY <1>2, <2>1
  <2> QED
    BY <1>1, <1>3, <2>1, <2>2, <2>3 DEF Opened
<1>4. CASE path["tmp"] # 0
  <2>1. /\ content' = [content EXCEPT ![path["tmp"]] = Torn]
        /\ path' = [path EXCEPT !["tmp"] = path["tmp"]]
        /\ writing' = [writing EXCEPT ![t] = path["tmp"]]
    BY <1>4 DEF OpenTmp, OpenAt
  <2>2. path' = path
    BY <1>2, <2>1
  <2>3. /\ content' \in Seq(States) /\ DOMAIN content' = DOMAIN content
        /\ \A i \in DOMAIN content : i # path["tmp"] => content'[i] = content[i]
    BY <1>2, <1>4, <2>1
  <2> QED
    BY <1>1, <1>2, <1>4, <2>1, <2>2, <2>3 DEF Opened
<1> QED
  BY <1>3, <1>4

(* The second call: the state is written. *)
Written(t) ==
  /\ sup[t] \in Writes /\ step[t] = "write" /\ step' = [step EXCEPT ![t] = "rename"]
  /\ UNCHANGED <<createVars, request, vm, sup, named, reqFile, path>>
  /\ writing' = [writing EXCEPT ![t] = 0] /\ writing[t] \in DOMAIN content
  /\ content' \in Seq(States) /\ DOMAIN content' = DOMAIN content
  /\ content'[writing[t]] = State(request[t], t, Status(t))
  /\ \A i \in DOMAIN content : i # writing[t] => content'[i] = content[i]

LEMMA WriteEffect ==
  ASSUME FilesTyped, InodesTyped, StepInv, NEW t \in Attempts, WriteTmp(t)
  PROVE  Written(t)
<1>1. /\ sup[t] \in Writes /\ step[t] = "write" /\ step' = [step EXCEPT ![t] = "rename"]
      /\ UNCHANGED <<createVars, request, vm, sup, named, reqFile, path>>
      /\ writing' = [writing EXCEPT ![t] = 0]
  BY DEF WriteTmp, StepTo
<1>2. writing[t] \in DOMAIN content /\ content \in Seq(States)
  BY <1>1 DEF FilesTyped, InodesTyped, StepInv
<1>3. State(request[t], t, Status(t)) \in States
  BY StatesTyped DEF FilesTyped, Status
<1>4. content' = [content EXCEPT ![writing[t]] = State(request[t], t, Status(t))]
  BY DEF WriteTmp
<1>5. /\ content' \in Seq(States) /\ DOMAIN content' = DOMAIN content
      /\ content'[writing[t]] = State(request[t], t, Status(t))
      /\ \A i \in DOMAIN content : i # writing[t] => content'[i] = content[i]
  BY ONLY <1>2, <1>3, <1>4
<1> QED
  BY <1>1, <1>2, <1>5 DEF Written

(* A call before the rename fails. *)
Unwritten(t) ==
  /\ sup[t] \in Writes /\ step' = [step EXCEPT ![t] = "open"]
  /\ writing' = [writing EXCEPT ![t] = 0]
  /\ \E to \in {"cleanup", "report"} :
       sup' = [sup EXCEPT ![t] = to] /\ (to = "report" => sup[t] = "writeStopped")
  /\ UNCHANGED <<createVars, request, vm, named, fileVars>>

LEMMA FailEffect ==
  ASSUME NEW t \in Attempts, WriteFails(t)
  PROVE  Unwritten(t)
<1>1. /\ sup[t] \in Writes /\ step' = [step EXCEPT ![t] = "open"]
      /\ writing' = [writing EXCEPT ![t] = 0] /\ sup' = [sup EXCEPT ![t] = AfterWrite(t, TRUE)]
      /\ UNCHANGED <<createVars, request, vm, named, fileVars>>
  BY DEF WriteFails
<1>2. /\ AfterWrite(t, TRUE) \in {"cleanup", "report"}
      /\ AfterWrite(t, TRUE) = "report" => sup[t] = "writeStopped"
  BY <1>1 DEF AfterWrite, Writes
<1> QED
  BY <1>1, <1>2 DEF Unwritten

(* Who changes what create knows. *)
LEMMA CreateFootprint ==
  [FilesNext]_filesVars =>
    \/ \E t \in Attempts : Stat(t) \/ OpenRequest(t) \/ WriteRequest(t) \/ Spawn(t) \/
        OpenState(t) \/ ReadState(t) \/ GiveUp(t)
    \/ CommandOpens \/ CommandReads
    \/ UNCHANGED createVars
BY DEF FilesNext, Create, SupervisorStep, filesVars, createVars, supVars, fileVars,
   ReadRequest, RemoveRequest, Launch, OpenTmp, WriteTmp, WriteFails, Rename, Up, Report,
   Cleanup, SupervisorKilled, AllEnded, SupAt, StepTo, OpenAt, AfterWrite, filesVars

(* Who changes what the supervisors know. *)
LEMMA SupervisorFootprint ==
  [FilesNext]_filesVars =>
    \/ \E t \in Attempts : Spawn(t) \/ ReadRequest(t) \/ RemoveRequest(t) \/ Launch(t) \/
        OpenTmp(t) \/ WriteTmp(t) \/ WriteFails(t) \/ Rename(t) \/ Up(t) \/ Report(t) \/
        Cleanup(t) \/ SupervisorKilled(t)
    \/ UNCHANGED supVars
BY DEF FilesNext, Create, SupervisorStep, filesVars, createVars, supVars, fileVars, Stat,
   OpenRequest, WriteRequest, OpenState, ReadState, GiveUp, AllEnded, CreatorAt, MayStart,
   Opens, Reads, CommandOpens, CommandReads, filesVars

(* Who changes the inodes. *)
LEMMA InodesFootprint ==
  [FilesNext]_filesVars =>
    \/ \E t \in Attempts : OpenTmp(t) \/ WriteTmp(t) \/ Rename(t)
    \/ UNCHANGED <<path, content, named>>
BY DEF FilesNext, Create, SupervisorStep, filesVars, createVars, supVars, fileVars, Stat,
   OpenRequest, WriteRequest, Spawn, OpenState, ReadState, GiveUp, Opens, Reads, CommandOpens,
   CommandReads, ReadRequest, RemoveRequest, Launch, WriteFails, Up, Report, Cleanup,
   SupervisorKilled, AllEnded, CreatorAt, MayStart, SupAt, filesVars

(* The types. *)
LEMMA TypedStep ==
  ASSUME FilesTyped, InodesTyped, StepInv, [FilesNext]_filesVars
  PROVE  FilesTyped'
<1>r. \A t \in Attempts : Rename(t) => Renamed(t)
  BY RenameEffect
<1>f. \A t \in Attempts : WriteFails(t) => Unwritten(t)
  BY FailEffect
<1>o. \A t \in Attempts : OpenTmp(t) => Opened(t)
  BY OpenEffect
<1>w. \A t \in Attempts : WriteTmp(t) => Written(t)
  BY WriteEffect
<1> USE Constants DEF createVars, supVars, fileVars, FilesTyped, Statements,
   SupervisorStatements, Writes
<1>1. ASSUME NEW t \in Attempts, Stat(t) PROVE FilesTyped'
  BY <1>1 DEF Stat, CreatorAt, MayStart
<1>2. ASSUME NEW t \in Attempts, OpenRequest(t) PROVE FilesTyped'
  <2>1. creator' \in [Attempts -> Statements] /\ reqFile' \in {Absent, Empty} \cup Attempts
    <3>1. CASE CreatorAt(t, "openRequest", "writeRequest") /\ reqFile' = Empty
      BY <3>1 DEF CreatorAt
    <3>2. CASE CreatorAt(t, "openRequest", "failed") /\ UNCHANGED reqFile
      BY <3>2 DEF CreatorAt
    <3> QED
      BY <1>2, <3>1, <3>2 DEF OpenRequest
  <2>2. UNCHANGED <<seen, reading, supVars, path, content>>
    BY <1>2 DEF OpenRequest
  <2> QED
    BY <2>1, <2>2
<1>3. ASSUME NEW t \in Attempts, WriteRequest(t) PROVE FilesTyped'
  BY <1>3 DEF WriteRequest, CreatorAt
<1>4. ASSUME NEW t \in Attempts, Spawn(t) PROVE FilesTyped'
  <2>1. creator' \in [Attempts -> Statements] /\ sup' \in [Attempts -> SupervisorStatements]
    <3>1. CASE CreatorAt(t, "spawn", "wait") /\ sup' = [sup EXCEPT ![t] = "readRequest"]
      BY <3>1 DEF CreatorAt
    <3>2. CASE CreatorAt(t, "spawn", "failed") /\ UNCHANGED sup
      BY <3>2 DEF CreatorAt
    <3> QED
      BY <1>4, <3>1, <3>2 DEF Spawn
  <2>2. UNCHANGED <<seen, reading, fileVars, step, request, writing, vm, named>>
    BY <1>4 DEF Spawn, CreatorAt
  <2> QED
    BY <2>1, <2>2
<1>5. ASSUME NEW t \in Attempts, OpenState(t) PROVE FilesTyped'
  BY <1>5 DEF OpenState, Opens
<1>6. ASSUME NEW t \in Attempts, ReadState(t) PROVE FilesTyped'
  <2>1. reading[t] \in DOMAIN content /\ content[reading[t]] \in States
    BY <1>6 DEF ReadState, Reads, InodesTyped
  <2> QED
    BY <1>6, <2>1 DEF ReadState, Reads, CreatorAt
<1>c. ASSUME CommandOpens \/ CommandReads PROVE FilesTyped'
  <2>1. CASE CommandOpens
    BY <2>1 DEF CommandOpens, Opens
  <2>2. CASE CommandReads
    <3>1. reading[Command] \in DOMAIN content /\ content[reading[Command]] \in States
      BY <2>2 DEF CommandReads, Reads, InodesTyped
    <3> QED
      BY <2>2, <3>1 DEF CommandReads, Reads
  <2> QED
    BY <1>c, <2>1, <2>2
<1>7. ASSUME NEW t \in Attempts, GiveUp(t) PROVE FilesTyped'
  BY <1>7 DEF GiveUp, CreatorAt
<1>8. ASSUME NEW t \in Attempts, ReadRequest(t) PROVE FilesTyped'
  BY <1>8 DEF ReadRequest, SupAt
<1>9. ASSUME NEW t \in Attempts, RemoveRequest(t) PROVE FilesTyped'
  BY <1>9 DEF RemoveRequest, SupAt
<1>10. ASSUME NEW t \in Attempts, Launch(t) PROVE FilesTyped'
  <2>1. PICK v \in {"none", "running"} : vm' = [vm EXCEPT ![t] = v]
    BY <1>10 DEF Launch
  <2>2. \/ sup' = [sup EXCEPT ![t] = "writeRunning"] \/ sup' = [sup EXCEPT ![t] = "cleanup"]
    BY <1>10 DEF Launch, SupAt
  <2>3. vm' \in [Attempts -> {"none", "running", "exited"}] /\ sup' \in [Attempts -> SupervisorStatements]
    BY <2>1, <2>2
  <2> QED
    BY <1>10, <2>3 DEF Launch, SupAt
<1>11. ASSUME NEW t \in Attempts, OpenTmp(t) PROVE FilesTyped'
  BY <1>11, <1>o, ZenonT(40) DEF Opened
<1>12. ASSUME NEW t \in Attempts, WriteTmp(t) PROVE FilesTyped'
  <2>1. /\ content' \in Seq(States) /\ writing' = [writing EXCEPT ![t] = 0]
        /\ step' = [step EXCEPT ![t] = "rename"]
        /\ UNCHANGED <<createVars, request, vm, sup, named, reqFile, path>>
    BY <1>12, <1>w DEF Written
  <2> QED
    BY <2>1
<1>13. ASSUME NEW t \in Attempts, Rename(t) PROVE FilesTyped'
  <2>1. path' \in [{"tmp", "state"} -> Nat] /\ named' \subseteq Attempts
    <3>1. CASE path["tmp"] = 0
      BY <1>13, <1>r, <3>1 DEF Renamed
    <3>2. CASE path["tmp"] # 0
      <4>1. path' \in [{"tmp", "state"} -> Nat] /\ named' = named \cup {t}
        BY <1>13, <1>r, <3>2 DEF Renamed
      <4>2. named \subseteq Attempts
        OBVIOUS
      <4> QED
        BY <4>1, <4>2
    <3> QED
      BY <3>1, <3>2
  <2>2. /\ step' = [step EXCEPT ![t] = "open"]
        /\ UNCHANGED <<createVars, request, vm, writing, reqFile, content>>
    BY <1>13, <1>r DEF Renamed
  <2>3. sup' \in [Attempts -> SupervisorStatements]
    BY <1>13, <1>r DEF Renamed
  <2> QED
    BY <2>1, <2>2, <2>3
<1>14. ASSUME NEW t \in Attempts, Up(t) PROVE FilesTyped'
  BY <1>14, ZenonT(40) DEF Up, SupAt
<1>15. ASSUME NEW t \in Attempts, Report(t) PROVE FilesTyped'
  BY <1>15, ZenonT(40) DEF Report, SupAt
<1>16. ASSUME NEW t \in Attempts, Cleanup(t) PROVE FilesTyped'
  BY <1>16 DEF Cleanup, SupAt
<1>17. ASSUME NEW t \in Attempts, SupervisorKilled(t) PROVE FilesTyped'
  BY <1>17 DEF SupervisorKilled
<1>v. ASSUME NEW t \in Attempts, WriteFails(t) PROVE FilesTyped'
  <2>1. PICK to \in {"cleanup", "report"} : sup' = [sup EXCEPT ![t] = to]
    BY <1>v, <1>f DEF Unwritten
  <2>2. sup' \in [Attempts -> SupervisorStatements]
    BY <2>1
  <2>3. /\ step' = [step EXCEPT ![t] = "open"] /\ writing' = [writing EXCEPT ![t] = 0]
        /\ UNCHANGED <<createVars, request, vm, named, fileVars>>
    BY <1>v, <1>f DEF Unwritten
  <2> QED
    BY <2>2, <2>3
<1>18. CASE AllEnded
  BY <1>18 DEF AllEnded, filesVars
<1>u. CASE UNCHANGED filesVars
  BY <1>u DEF filesVars
<1> QED
  BY <1>1, <1>2, <1>3, <1>4, <1>5, <1>6, <1>c, <1>7, <1>8, <1>9, <1>10, <1>11, <1>12, <1>13,
     <1>14, <1>15, <1>16, <1>17, <1>v, <1>18, <1>u DEF FilesNext, Create, SupervisorStep

(* The inodes that are named and open exist. *)
LEMMA InodesStep ==
  ASSUME FilesTyped, InodesTyped, StepInv, [FilesNext]_filesVars
  PROVE  InodesTyped'
<1>r. \A t \in Attempts : Rename(t) => Renamed(t)
  BY RenameEffect
<1>f. \A t \in Attempts : WriteFails(t) => Unwritten(t)
  BY FailEffect
<1>o. \A t \in Attempts : OpenTmp(t) => Opened(t)
  BY OpenEffect
<1>w. \A t \in Attempts : WriteTmp(t) => Written(t)
  BY WriteEffect
<1> USE Constants DEF createVars, supVars, fileVars, FilesTyped, InodesTyped
<1>1. ASSUME NEW t \in Attempts, Stat(t) PROVE InodesTyped'
  BY <1>1 DEF Stat, CreatorAt, MayStart
<1>2. ASSUME NEW t \in Attempts, OpenRequest(t) PROVE InodesTyped'
  BY <1>2 DEF OpenRequest, CreatorAt
<1>3. ASSUME NEW t \in Attempts, WriteRequest(t) PROVE InodesTyped'
  BY <1>3 DEF WriteRequest, CreatorAt
<1>4. ASSUME NEW t \in Attempts, Spawn(t) PROVE InodesTyped'
  BY <1>4 DEF Spawn, CreatorAt
<1>5. ASSUME NEW t \in Attempts, OpenState(t) PROVE InodesTyped'
  BY <1>5 DEF OpenState, Opens
<1>6. ASSUME NEW t \in Attempts, ReadState(t) PROVE InodesTyped'
  BY <1>6 DEF ReadState, Reads, CreatorAt
<1>c. ASSUME CommandOpens \/ CommandReads PROVE InodesTyped'
  BY <1>c DEF CommandOpens, CommandReads, Opens, Reads
<1>7. ASSUME NEW t \in Attempts, GiveUp(t) PROVE InodesTyped'
  BY <1>7 DEF GiveUp, CreatorAt
<1>8. ASSUME NEW t \in Attempts, ReadRequest(t) PROVE InodesTyped'
  BY <1>8 DEF ReadRequest, SupAt
<1>9. ASSUME NEW t \in Attempts, RemoveRequest(t) PROVE InodesTyped'
  BY <1>9 DEF RemoveRequest, SupAt
<1>10. ASSUME NEW t \in Attempts, Launch(t) PROVE InodesTyped'
  BY <1>10 DEF Launch, SupAt
<1>11. ASSUME NEW t \in Attempts, OpenTmp(t) PROVE InodesTyped'
  BY <1>11, <1>o DEF Opened
<1>12. ASSUME NEW t \in Attempts, WriteTmp(t) PROVE InodesTyped'
  <2>1. /\ path' = path /\ reading' = reading /\ DOMAIN content' = DOMAIN content
        /\ writing' = [writing EXCEPT ![t] = 0]
    BY <1>12, <1>w DEF Written
  <2> QED
    BY <2>1
<1>13. ASSUME NEW t \in Attempts, Rename(t) PROVE InodesTyped'
  BY <1>13, <1>r DEF Renamed, Writes
<1>14. ASSUME NEW t \in Attempts, Up(t) PROVE InodesTyped'
  BY <1>14 DEF Up, SupAt
<1>15. ASSUME NEW t \in Attempts, Report(t) PROVE InodesTyped'
  BY <1>15 DEF Report, SupAt
<1>16. ASSUME NEW t \in Attempts, Cleanup(t) PROVE InodesTyped'
  BY <1>16 DEF Cleanup, SupAt
<1>17. ASSUME NEW t \in Attempts, SupervisorKilled(t) PROVE InodesTyped'
  BY <1>17 DEF SupervisorKilled
<1>v. ASSUME NEW t \in Attempts, WriteFails(t) PROVE InodesTyped'
  BY <1>v, <1>f DEF Unwritten, Writes
<1>18. CASE AllEnded
  BY <1>18 DEF AllEnded, filesVars
<1>u. CASE UNCHANGED filesVars
  BY <1>u DEF filesVars
<1> QED
  BY <1>1, <1>2, <1>3, <1>4, <1>5, <1>6, <1>c, <1>7, <1>8, <1>9, <1>10, <1>11, <1>12, <1>13,
     <1>14, <1>15, <1>16, <1>17, <1>v, <1>18, <1>u DEF FilesNext, Create, SupervisorStep

(* Whom create has started. *)
LEMMA SpawnStep ==
  ASSUME FilesTyped, SpawnInv, [FilesNext]_filesVars
  PROVE  SpawnInv'
<1>r. \A t \in Attempts : Rename(t) => Renamed(t)
  BY RenameEffect
<1>f. \A t \in Attempts : WriteFails(t) => Unwritten(t)
  BY FailEffect
<1> USE DEF createVars, supVars, fileVars, FilesTyped, SpawnInv, Creating
<1>1. ASSUME NEW t \in Attempts, Stat(t) PROVE SpawnInv'
  BY <1>1 DEF Stat, CreatorAt, MayStart
<1>2. ASSUME NEW t \in Attempts, OpenRequest(t) PROVE SpawnInv'
  BY <1>2 DEF OpenRequest, CreatorAt
<1>3. ASSUME NEW t \in Attempts, WriteRequest(t) PROVE SpawnInv'
  BY <1>3 DEF WriteRequest, CreatorAt
<1>4. ASSUME NEW t \in Attempts, Spawn(t) PROVE SpawnInv'
  BY <1>4 DEF Spawn, CreatorAt
<1>5. ASSUME NEW t \in Attempts, OpenState(t) PROVE SpawnInv'
  BY <1>5 DEF OpenState, Opens
<1>6. ASSUME NEW t \in Attempts, ReadState(t) PROVE SpawnInv'
  BY <1>6 DEF ReadState, Reads, CreatorAt
<1>c. ASSUME CommandOpens \/ CommandReads PROVE SpawnInv'
  BY <1>c DEF CommandOpens, CommandReads, Opens, Reads
<1>7. ASSUME NEW t \in Attempts, GiveUp(t) PROVE SpawnInv'
  BY <1>7 DEF GiveUp, CreatorAt
<1>8. ASSUME NEW t \in Attempts, ReadRequest(t) PROVE SpawnInv'
  BY <1>8 DEF ReadRequest, SupAt
<1>9. ASSUME NEW t \in Attempts, RemoveRequest(t) PROVE SpawnInv'
  BY <1>9 DEF RemoveRequest, SupAt
<1>10. ASSUME NEW t \in Attempts, Launch(t) PROVE SpawnInv'
  BY <1>10 DEF Launch, SupAt
<1>11. ASSUME NEW t \in Attempts, OpenTmp(t) PROVE SpawnInv'
  BY <1>11 DEF OpenTmp, StepTo, OpenAt, Writes
<1>12. ASSUME NEW t \in Attempts, WriteTmp(t) PROVE SpawnInv'
  BY <1>12 DEF WriteTmp, StepTo
<1>13. ASSUME NEW t \in Attempts, Rename(t) PROVE SpawnInv'
  BY <1>13, <1>r, ZenonT(40) DEF Renamed, Writes
<1>14. ASSUME NEW t \in Attempts, Up(t) PROVE SpawnInv'
  BY <1>14 DEF Up, SupAt
<1>15. ASSUME NEW t \in Attempts, Report(t) PROVE SpawnInv'
  BY <1>15 DEF Report, SupAt
<1>16. ASSUME NEW t \in Attempts, Cleanup(t) PROVE SpawnInv'
  BY <1>16 DEF Cleanup, SupAt
<1>17. ASSUME NEW t \in Attempts, SupervisorKilled(t) PROVE SpawnInv'
  BY <1>17 DEF SupervisorKilled
<1>v. ASSUME NEW t \in Attempts, WriteFails(t) PROVE SpawnInv'
  BY <1>v, <1>f DEF Unwritten, Writes
<1>u. CASE UNCHANGED <<createVars, supVars>>
  BY <1>u
<1> QED
  BY <1>1, <1>2, <1>3, <1>4, <1>5, <1>6, <1>c, <1>7, <1>8, <1>9, <1>10, <1>11, <1>12, <1>13,
     <1>14, <1>15, <1>16, <1>17, <1>v, <1>u, CreateFootprint, SupervisorFootprint

(* Where WriteState is. *)
LEMMA StepStep ==
  ASSUME FilesTyped, InodesTyped, StepInv, SpawnInv, [FilesNext]_filesVars
  PROVE  StepInv'
<1>r. \A t \in Attempts : Rename(t) => Renamed(t)
  BY RenameEffect
<1>f. \A t \in Attempts : WriteFails(t) => Unwritten(t)
  BY FailEffect
<1>o. \A t \in Attempts : OpenTmp(t) => Opened(t)
  BY OpenEffect
<1>w. \A t \in Attempts : WriteTmp(t) => Written(t)
  BY WriteEffect
<1> USE Constants DEF createVars, supVars, fileVars, FilesTyped, StepInv, SpawnInv,
   Creating, Writes
<1>1. ASSUME NEW t \in Attempts, Spawn(t) PROVE StepInv'
  BY <1>1 DEF Spawn, CreatorAt
<1>2. ASSUME NEW t \in Attempts, ReadRequest(t) PROVE StepInv'
  BY <1>2 DEF ReadRequest, SupAt
<1>3. ASSUME NEW t \in Attempts, RemoveRequest(t) PROVE StepInv'
  BY <1>3 DEF RemoveRequest, SupAt
<1>4. ASSUME NEW t \in Attempts, Launch(t) PROVE StepInv'
  BY <1>4 DEF Launch, SupAt
<1>5. ASSUME NEW t \in Attempts, OpenTmp(t) PROVE StepInv'
  BY <1>5, <1>o DEF Opened
<1>6. ASSUME NEW t \in Attempts, WriteTmp(t) PROVE StepInv'
  BY <1>6, <1>w DEF Written
<1>7. ASSUME NEW t \in Attempts, Rename(t) PROVE StepInv'
  BY <1>7, <1>r DEF Renamed, Writes
<1>8. ASSUME NEW t \in Attempts, Up(t) PROVE StepInv'
  BY <1>8 DEF Up, SupAt
<1>9. ASSUME NEW t \in Attempts, Report(t) PROVE StepInv'
  BY <1>9 DEF Report, SupAt
<1>10. ASSUME NEW t \in Attempts, Cleanup(t) PROVE StepInv'
  BY <1>10 DEF Cleanup, SupAt
<1>11. ASSUME NEW t \in Attempts, SupervisorKilled(t) PROVE StepInv'
  BY <1>11 DEF SupervisorKilled
<1>v. ASSUME NEW t \in Attempts, WriteFails(t) PROVE StepInv'
  BY <1>v, <1>f DEF Unwritten, Writes
<1>u. CASE UNCHANGED supVars
  BY <1>u
<1> QED
  BY <1>1, <1>2, <1>3, <1>4, <1>5, <1>6, <1>7, <1>8, <1>9, <1>10, <1>11, <1>v, <1>u,
     SupervisorFootprint

(* Only a create that starts it makes a supervisor live. *)
LEMMA LivesStep ==
  ASSUME FilesTyped, NEW b \in Attempts, [FilesNext]_filesVars
  PROVE  Lives(b)' => Lives(b) \/ Spawn(b)
<1>r. \A t \in Attempts : Rename(t) => Renamed(t)
  BY RenameEffect
<1>f. \A t \in Attempts : WriteFails(t) => Unwritten(t)
  BY FailEffect
<1> USE DEF createVars, supVars, fileVars, FilesTyped, Lives
<1>1. ASSUME NEW t \in Attempts, Spawn(t) PROVE Lives(b)' => Lives(b) \/ Spawn(b)
  BY <1>1 DEF Spawn, CreatorAt
<1>2. ASSUME NEW t \in Attempts, ReadRequest(t) PROVE Lives(b)' => Lives(b) \/ Spawn(b)
  BY <1>2 DEF ReadRequest, SupAt
<1>3. ASSUME NEW t \in Attempts, RemoveRequest(t) PROVE Lives(b)' => Lives(b) \/ Spawn(b)
  BY <1>3 DEF RemoveRequest, SupAt
<1>4. ASSUME NEW t \in Attempts, Launch(t) PROVE Lives(b)' => Lives(b) \/ Spawn(b)
  BY <1>4 DEF Launch, SupAt
<1>5. ASSUME NEW t \in Attempts, OpenTmp(t) PROVE Lives(b)' => Lives(b) \/ Spawn(b)
  BY <1>5 DEF OpenTmp, StepTo, OpenAt, Writes
<1>6. ASSUME NEW t \in Attempts, WriteTmp(t) PROVE Lives(b)' => Lives(b) \/ Spawn(b)
  BY <1>6 DEF WriteTmp, StepTo
<1>7. ASSUME NEW t \in Attempts, Rename(t) PROVE Lives(b)' => Lives(b) \/ Spawn(b)
  BY <1>7, <1>r DEF Renamed, Writes
<1>8. ASSUME NEW t \in Attempts, Up(t) PROVE Lives(b)' => Lives(b) \/ Spawn(b)
  BY <1>8 DEF Up, SupAt
<1>9. ASSUME NEW t \in Attempts, Report(t) PROVE Lives(b)' => Lives(b) \/ Spawn(b)
  BY <1>9 DEF Report, SupAt
<1>10. ASSUME NEW t \in Attempts, Cleanup(t) PROVE Lives(b)' => Lives(b) \/ Spawn(b)
  BY <1>10 DEF Cleanup, SupAt
<1>11. ASSUME NEW t \in Attempts, SupervisorKilled(t) PROVE Lives(b)' => Lives(b) \/ Spawn(b)
  BY <1>11 DEF SupervisorKilled
<1>v. ASSUME NEW t \in Attempts, WriteFails(t) PROVE Lives(b)' => Lives(b) \/ Spawn(b)
  BY <1>v, <1>f DEF Unwritten, Writes
<1>u. CASE UNCHANGED supVars
  BY <1>u
<1> QED
  BY <1>1, <1>2, <1>3, <1>4, <1>5, <1>6, <1>7, <1>8, <1>9, <1>10, <1>11, <1>v, <1>u,
     SupervisorFootprint

(* How a create goes on. *)
GoesOn(b) ==
  /\ creator[b] \in {"openRequest", "writeRequest", "spawn", "wait"}
  /\ creator'[b] \notin {"start", "openRequest"}

LEMMA CreatorStep ==
  ASSUME FilesTyped, NEW b \in Attempts, [FilesNext]_filesVars
  PROVE  (creator'[b] = creator[b] \/ Stat(b) \/ GoesOn(b))
<1> USE DEF createVars, supVars, fileVars, FilesTyped, GoesOn
<1>1. ASSUME NEW t \in Attempts, Stat(t) PROVE (creator'[b] = creator[b] \/ Stat(b) \/ GoesOn(b))
  BY <1>1 DEF Stat, CreatorAt, MayStart
<1>2. ASSUME NEW t \in Attempts, OpenRequest(t) PROVE (creator'[b] = creator[b] \/ Stat(b) \/ GoesOn(b))
  BY <1>2 DEF OpenRequest, CreatorAt
<1>3. ASSUME NEW t \in Attempts, WriteRequest(t) PROVE (creator'[b] = creator[b] \/ Stat(b) \/ GoesOn(b))
  BY <1>3 DEF WriteRequest, CreatorAt
<1>4. ASSUME NEW t \in Attempts, Spawn(t) PROVE (creator'[b] = creator[b] \/ Stat(b) \/ GoesOn(b))
  BY <1>4 DEF Spawn, CreatorAt
<1>5. ASSUME NEW t \in Attempts, OpenState(t) PROVE (creator'[b] = creator[b] \/ Stat(b) \/ GoesOn(b))
  BY <1>5 DEF OpenState, Opens
<1>6. ASSUME NEW t \in Attempts, ReadState(t) PROVE (creator'[b] = creator[b] \/ Stat(b) \/ GoesOn(b))
  BY <1>6 DEF ReadState, Reads, CreatorAt
<1>c. ASSUME CommandOpens \/ CommandReads PROVE (creator'[b] = creator[b] \/ Stat(b) \/ GoesOn(b))
  BY <1>c DEF CommandOpens, CommandReads, Opens, Reads
<1>7. ASSUME NEW t \in Attempts, GiveUp(t) PROVE (creator'[b] = creator[b] \/ Stat(b) \/ GoesOn(b))
  BY <1>7 DEF GiveUp, CreatorAt
<1>u. CASE UNCHANGED createVars
  BY <1>u
<1> QED
  BY <1>1, <1>2, <1>3, <1>4, <1>5, <1>6, <1>c, <1>7, <1>u, CreateFootprint

(* The state file stays. *)
LEMMA PathStep ==
  ASSUME FilesTyped, InodesTyped, path["state"] # 0, [FilesNext]_filesVars
  PROVE  path'["state"] # 0
<1>r. \A t \in Attempts : Rename(t) => Renamed(t)
  BY RenameEffect
<1>o. \A t \in Attempts : OpenTmp(t) => Opened(t)
  BY OpenEffect
<1> USE DEF createVars, supVars, fileVars, FilesTyped
<1>1. ASSUME NEW t \in Attempts, OpenTmp(t) PROVE path'["state"] # 0
  BY <1>1, <1>o DEF Opened
<1>2. ASSUME NEW t \in Attempts, WriteTmp(t) PROVE path'["state"] # 0
  BY <1>2 DEF WriteTmp, StepTo
<1>3. ASSUME NEW t \in Attempts, Rename(t) PROVE path'["state"] # 0
  BY <1>3, <1>r DEF Renamed, Writes
<1>u. CASE UNCHANGED <<path, content, named>>
  BY <1>u
<1> QED
  BY <1>1, <1>2, <1>3, <1>u, InodesFootprint

(* A create that waits writes no request any more. *)
LEMMA WaitStep ==
  ASSUME FilesTyped, NEW b \in Attempts, creator[b] = "wait", [FilesNext]_filesVars
  PROVE  creator'[b] \in {"wait", "created", "failed"}
<1> USE DEF createVars, supVars, fileVars, FilesTyped
<1>1. ASSUME NEW t \in Attempts, Stat(t) PROVE creator'[b] \in {"wait", "created", "failed"}
  BY <1>1 DEF Stat, CreatorAt, MayStart
<1>2. ASSUME NEW t \in Attempts, OpenRequest(t) PROVE creator'[b] \in {"wait", "created", "failed"}
  BY <1>2 DEF OpenRequest, CreatorAt
<1>3. ASSUME NEW t \in Attempts, WriteRequest(t) PROVE creator'[b] \in {"wait", "created", "failed"}
  BY <1>3 DEF WriteRequest, CreatorAt
<1>4. ASSUME NEW t \in Attempts, Spawn(t) PROVE creator'[b] \in {"wait", "created", "failed"}
  BY <1>4 DEF Spawn, CreatorAt
<1>5. ASSUME NEW t \in Attempts, OpenState(t) PROVE creator'[b] \in {"wait", "created", "failed"}
  BY <1>5 DEF OpenState, Opens
<1>6. ASSUME NEW t \in Attempts, ReadState(t) PROVE creator'[b] \in {"wait", "created", "failed"}
  BY <1>6 DEF ReadState, Reads, CreatorAt
<1>c. ASSUME CommandOpens \/ CommandReads PROVE creator'[b] \in {"wait", "created", "failed"}
  BY <1>c DEF CommandOpens, CommandReads, Opens, Reads
<1>7. ASSUME NEW t \in Attempts, GiveUp(t) PROVE creator'[b] \in {"wait", "created", "failed"}
  BY <1>7 DEF GiveUp, CreatorAt
<1>u. CASE UNCHANGED createVars
  BY <1>u
<1> QED
  BY <1>1, <1>2, <1>3, <1>4, <1>5, <1>6, <1>c, <1>7, <1>u, CreateFootprint

(* An attempt that starts finds those before it at their end. *)
LEMMA StatAfter ==
  ASSUME FilesTyped, OrderInv, Start = "afterSupervisor", NEW a \in Attempts, Stat(a)
  PROVE  \A b \in 1..a - 1 : Ended(b) /\ (path["state"] = 0 => ~Lives(b))
<1> SUFFICES ASSUME NEW b \in 1..a - 1
             PROVE  Ended(b) /\ (path["state"] = 0 => ~Lives(b))
  OBVIOUS
<1>1. a \in Nat /\ a > 1 /\ a - 1 \in Attempts
  BY SandboxFilesAssumption DEF Attempts
<1>2. Ended(a - 1) /\ (path["state"] = 0 => ~Lives(a - 1))
  BY <1>1 DEF Stat, MayStart, Lives
<1>3. CASE b = a - 1
  BY <1>2, <1>3
<1>4. CASE b # a - 1
  <2>1. b \in 1..(a - 1) - 1
    BY <1>1, <1>4
  <2>2. creator[a - 1] # "start"
    BY <1>2 DEF Ended
  <2> QED
    BY <1>1, <2>1, <2>2 DEF OrderInv
<1> QED
  BY <1>3, <1>4

(* The order of the attempts. *)
LEMMA OrderStep ==
  ASSUME FilesTyped, InodesTyped, OrderInv, Start = "afterSupervisor", [FilesNext]_filesVars
  PROVE  OrderInv'
<1> SUFFICES ASSUME NEW a \in Attempts, creator'[a] # "start", NEW b \in 1..a - 1
             PROVE  Ended(b)' /\ (path'["state"] = 0 => ~Lives(b)')
  BY DEF OrderInv
<1>1. b \in Attempts
  BY SandboxFilesAssumption DEF Attempts
<1>2. Ended(b) /\ (path["state"] = 0 => ~Lives(b))
  <2>1. CASE creator[a] # "start"
    BY <2>1 DEF OrderInv
  <2>2. CASE creator[a] = "start"
    <3>1. Stat(a)
      BY <2>2, CreatorStep DEF GoesOn
    <3> QED
      BY <3>1, StatAfter
  <2> QED
    BY <2>1, <2>2
<1>3. Ended(b)' /\ ~Spawn(b)
  BY <1>1, <1>2, CreatorStep DEF GoesOn, Ended, Stat, Spawn, CreatorAt
<1> QED
  BY <1>1, <1>2, <1>3, PathStep, LivesStep

(* One attempt at a time. *)
LEMMA PlayStep ==
  ASSUME FilesTyped, NEW b \in Attempts, [FilesNext]_filesVars, InPlay(b)'
  PROVE  InPlay(b) \/ (Stat(b) /\ path["state"] = 0)
<1>1. CASE Lives(b)'
  BY <1>1, LivesStep DEF InPlay, Creating, Spawn, CreatorAt
<1>2. CASE Creating(b)'
  <2>1. CASE Stat(b)
    BY <1>2, <2>1 DEF Stat, CreatorAt, FilesTyped, Creating
  <2>2. CASE ~Stat(b)
    <3>1. creator'[b] \in {"openRequest", "writeRequest", "spawn"} /\ creator'[b] # creator[b]
            => creator[b] \in {"openRequest", "writeRequest", "spawn", "wait"}
      BY <2>2, CreatorStep DEF GoesOn
    <3>2. creator[b] = "wait" => creator'[b] \in {"wait", "created", "failed"}
      BY WaitStep
    <3> QED
      BY <1>2, <3>1, <3>2 DEF Creating, InPlay
  <2> QED
    BY <2>1, <2>2
<1> QED
  BY <1>1, <1>2 DEF InPlay

LEMMA SingleStep ==
  ASSUME FilesTyped, OrderInv, SpawnInv, SingleInv, Start = "afterSupervisor",
         [FilesNext]_filesVars
  PROVE  SingleInv'
<1> SUFFICES ASSUME NEW a \in Attempts, NEW b \in Attempts, InPlay(a)', InPlay(b)'
             PROVE  a = b
  BY DEF SingleInv
<1>1. ASSUME NEW c \in Attempts, NEW d \in Attempts, c # d, InPlay(d)',
             Stat(c), path["state"] = 0
      PROVE  FALSE
  <2>1. InPlay(d)
    BY <1>1 DEF Stat, CreatorAt, FilesTyped, supVars, InPlay, Creating, Lives
  <2>2. CASE d < c
    <3>1. d \in 1..c - 1
      BY <2>2 DEF Attempts
    <3> QED
      BY <1>1, <2>1, <3>1, StatAfter DEF InPlay, Creating, Ended
  <2>3. CASE c < d
    <3>1. c \in 1..d - 1
      BY <2>3 DEF Attempts
    <3>2. creator[d] = "start"
      BY <1>1, <3>1 DEF OrderInv, Ended, Stat, CreatorAt
    <3> QED
      BY <2>1, <3>2 DEF SpawnInv, InPlay, Creating, Lives
  <2> QED
    BY <1>1, <2>2, <2>3 DEF Attempts
<1> QED
  BY <1>1, PlayStep DEF SingleInv

(* What the request file holds. *)
LEMMA RequestStep ==
  ASSUME FilesTyped, SpawnInv, SingleInv, RequestInv, [FilesNext]_filesVars
  PROVE  RequestInv'
<1>r. \A t \in Attempts : Rename(t) => Renamed(t)
  BY RenameEffect
<1>f. \A t \in Attempts : WriteFails(t) => Unwritten(t)
  BY FailEffect
<1>s. \A a, b \in Attempts : (Creating(a) \/ Lives(a)) /\ (Creating(b) \/ Lives(b)) => a = b
  BY DEF SingleInv, InPlay
<1> USE Constants DEF createVars, supVars, fileVars, FilesTyped, RequestInv, Creating,
   Lives
<1>1. ASSUME NEW t \in Attempts, Stat(t) PROVE RequestInv'
  BY <1>1 DEF Stat, CreatorAt, MayStart
<1>2. ASSUME NEW t \in Attempts, OpenRequest(t) PROVE RequestInv'
  <2>1. Creating(t) /\ reqFile' \in {Empty, reqFile}
    BY <1>2 DEF OpenRequest, CreatorAt
  <2>2. \A b \in Attempts : b # t => ~Creating(b) /\ ~Lives(b)
    BY <1>s, <2>1
  <2>3. \/ creator' = [creator EXCEPT ![t] = "writeRequest"] /\ reqFile' = Empty
        \/ creator' = [creator EXCEPT ![t] = "failed"] /\ reqFile' = reqFile
    BY <1>2 DEF OpenRequest, CreatorAt
  <2>4. sup' = sup /\ request' = request /\ sup[t] = "none"
    BY <1>2, <2>1 DEF OpenRequest, SpawnInv
  <2> QED
    BY <2>2, <2>3, <2>4
<1>3. ASSUME NEW t \in Attempts, WriteRequest(t) PROVE RequestInv'
  BY <1>3, <1>s DEF WriteRequest, CreatorAt
<1>4. ASSUME NEW t \in Attempts, Spawn(t) PROVE RequestInv'
  BY <1>4, <1>s DEF Spawn, CreatorAt
<1>5. ASSUME NEW t \in Attempts, OpenState(t) PROVE RequestInv'
  BY <1>5 DEF OpenState, Opens
<1>6. ASSUME NEW t \in Attempts, ReadState(t) PROVE RequestInv'
  BY <1>6 DEF ReadState, Reads, CreatorAt
<1>c. ASSUME CommandOpens \/ CommandReads PROVE RequestInv'
  BY <1>c DEF CommandOpens, CommandReads, Opens, Reads
<1>7. ASSUME NEW t \in Attempts, GiveUp(t) PROVE RequestInv'
  BY <1>7 DEF GiveUp, CreatorAt
<1>8. ASSUME NEW t \in Attempts, ReadRequest(t) PROVE RequestInv'
  BY <1>8, <1>s DEF ReadRequest, SupAt
<1>9. ASSUME NEW t \in Attempts, RemoveRequest(t) PROVE RequestInv'
  <2>1. /\ sup[t] = "removeRequest" /\ sup' = [sup EXCEPT ![t] = "launch"]
        /\ UNCHANGED <<creator, request>>
    BY <1>9 DEF RemoveRequest, SupAt
  <2>2. \A b \in Attempts : b # t => ~Creating(b) /\ ~Lives(b)
    BY <1>s, <2>1
  <2>3. creator[t] # "writeRequest" /\ creator[t] # "spawn"
    BY <2>1 DEF SpawnInv
  <2> QED
    BY <2>1, <2>2, <2>3
<1>10. ASSUME NEW t \in Attempts, Launch(t) PROVE RequestInv'
  BY <1>10, <1>s DEF Launch, SupAt
<1>11. ASSUME NEW t \in Attempts, OpenTmp(t) PROVE RequestInv'
  BY <1>11 DEF OpenTmp, StepTo, OpenAt
<1>12. ASSUME NEW t \in Attempts, WriteTmp(t) PROVE RequestInv'
  BY <1>12 DEF WriteTmp, StepTo
<1>13. ASSUME NEW t \in Attempts, Rename(t) PROVE RequestInv'
  BY <1>13, <1>r, SMTT(30) DEF Renamed, Writes
<1>14. ASSUME NEW t \in Attempts, Up(t) PROVE RequestInv'
  BY <1>14 DEF Up, SupAt
<1>15. ASSUME NEW t \in Attempts, Report(t) PROVE RequestInv'
  BY <1>15 DEF Report, SupAt
<1>16. ASSUME NEW t \in Attempts, Cleanup(t) PROVE RequestInv'
  BY <1>16 DEF Cleanup, SupAt
<1>17. ASSUME NEW t \in Attempts, SupervisorKilled(t) PROVE RequestInv'
  BY <1>17 DEF SupervisorKilled
<1>v. ASSUME NEW t \in Attempts, WriteFails(t) PROVE RequestInv'
  <2>1. PICK to \in {"cleanup", "report"} :
          sup' = [sup EXCEPT ![t] = to] /\ (to = "report" => sup[t] = "writeStopped")
    BY <1>v, <1>f DEF Unwritten
  <2>2. sup[t] \in Writes /\ UNCHANGED <<creator, request, reqFile>>
    BY <1>v, <1>f DEF Unwritten
  <2>3. Lives(t) /\ sup[t] # "readRequest"
    BY <2>2 DEF Writes
  <2> QED
    BY <2>1, <2>2, <2>3
<1>18. CASE AllEnded
  BY <1>18 DEF AllEnded, filesVars
<1>u. CASE UNCHANGED filesVars
  BY <1>u DEF filesVars
<1> QED
  BY <1>1, <1>2, <1>3, <1>4, <1>5, <1>6, <1>c, <1>7, <1>8, <1>9, <1>10, <1>11, <1>12, <1>13,
     <1>14, <1>15, <1>16, <1>17, <1>v, <1>18, <1>u DEF FilesNext, Create, SupervisorStep

(* The temporary file. *)
LEMMA TmpStep ==
  ASSUME FilesTyped, InodesTyped, StepInv, SpawnInv, SingleInv, RequestInv, TmpInv,
         [FilesNext]_filesVars
  PROVE  TmpInv'
<1>r. \A t \in Attempts : Rename(t) => Renamed(t)
  BY RenameEffect
<1>f. \A t \in Attempts : WriteFails(t) => Unwritten(t)
  BY FailEffect
<1>o. \A t \in Attempts : OpenTmp(t) => Opened(t)
  BY OpenEffect
<1>w. \A t \in Attempts : WriteTmp(t) => Written(t)
  BY WriteEffect
<1>s. ASSUME NEW t \in Attempts, sup[t] \in Writes
      PROVE  request[t] = t /\ \A b \in Attempts : b # t => step[b] = "open"
  <2>1. Lives(t) /\ sup[t] # "readRequest"
    BY <1>s DEF Lives, Writes
  <2>2. \A b \in Attempts : b # t => ~Lives(b)
    BY <2>1 DEF SingleInv, InPlay
  <2> QED
    BY <2>1, <2>2 DEF RequestInv, StepInv, Lives, Writes
<1>t. \A a \in Attempts : sup[a] \notin Writes => step[a] = "open"
  BY DEF StepInv
<1>i. /\ path["tmp"] \in {0} \cup DOMAIN content /\ path["state"] \in {0} \cup DOMAIN content
      /\ \A r \in Readers : reading[r] \in {0} \cup DOMAIN content
  BY DEF InodesTyped
<1>x. ASSUME NEW t \in Attempts, step[t] = "open", UNCHANGED <<createVars, path, content>>,
             \A b \in Attempts : b # t => sup'[b] = sup[b],
             step'[t] = "open", \A b \in Attempts : b # t => UNCHANGED <<step[b], writing[b]>>
      PROVE  TmpInv'
  BY <1>x DEF TmpInv, Status, createVars
<1> USE DEF createVars, supVars, fileVars, FilesTyped, TmpInv
<1>1. ASSUME NEW t \in Attempts, Stat(t) PROVE TmpInv'
  BY <1>1 DEF Stat, Status
<1>2. ASSUME NEW t \in Attempts, OpenRequest(t) PROVE TmpInv'
  BY <1>2 DEF OpenRequest, Status
<1>3. ASSUME NEW t \in Attempts, WriteRequest(t) PROVE TmpInv'
  BY <1>3 DEF WriteRequest, Status
<1>4. ASSUME NEW t \in Attempts, Spawn(t) PROVE TmpInv'
  <2>1. sup[t] = "none" /\ sup' \in {sup, [sup EXCEPT ![t] = "readRequest"]}
    BY <1>4 DEF Spawn, CreatorAt, SpawnInv, Creating
  <2>2. step[t] = "open"
    BY <1>t, <2>1 DEF Writes
  <2> QED
    BY <1>4, <2>1, <2>2 DEF Spawn, Status
<1>5. ASSUME NEW t \in Attempts, OpenState(t) PROVE TmpInv'
  BY <1>5, <1>i, Constants DEF OpenState, Opens, Status
<1>6. ASSUME NEW t \in Attempts, ReadState(t) PROVE TmpInv'
  BY <1>6, Constants DEF ReadState, Reads, Status
<1>c. ASSUME CommandOpens \/ CommandReads PROVE TmpInv'
  BY <1>c, Constants DEF CommandOpens, CommandReads, Opens, Reads, Status
<1>7. ASSUME NEW t \in Attempts, GiveUp(t) PROVE TmpInv'
  BY <1>7 DEF GiveUp, Status
<1>8. ASSUME NEW t \in Attempts, ReadRequest(t) PROVE TmpInv'
  BY <1>8, <1>t, <1>x DEF ReadRequest, SupAt, Writes
<1>9. ASSUME NEW t \in Attempts, RemoveRequest(t) PROVE TmpInv'
  BY <1>9, <1>t, <1>x DEF RemoveRequest, SupAt, Writes
<1>10. ASSUME NEW t \in Attempts, Launch(t) PROVE TmpInv'
  BY <1>10, <1>t, <1>x DEF Launch, SupAt, Writes
<1>11. ASSUME NEW t \in Attempts, OpenTmp(t) PROVE TmpInv'
  <2>1. Opened(t)
    BY <1>11, <1>o
  <2>2. path'["tmp"] # path["state"] /\ \A r \in Readers : reading[r] # 0 => reading[r] # path'["tmp"]
    BY <1>i, <2>1 DEF Opened
  <2>3. \A b \in Attempts : b # t => step'[b] = "open"
    BY <1>s, <2>1 DEF Opened
  <2>4. step'[t] = "write" /\ writing'[t] = path'["tmp"]
    BY <2>1 DEF Opened
  <2>5. UNCHANGED reading /\ path'["state"] = path["state"]
    BY <2>1 DEF Opened
  <2> QED
    BY <2>2, <2>3, <2>4, <2>5
<1>12. ASSUME NEW t \in Attempts, WriteTmp(t) PROVE TmpInv'
  <2>1. Written(t)
    BY <1>12, <1>w
  <2>2. path["tmp"] # 0 /\ content'[path["tmp"]] = State(t, t, Status(t)) /\ Status(t)' = Status(t)
    <3>1. writing[t] = path["tmp"] /\ writing[t] # 0 /\ request[t] = t
      BY <1>s, <2>1 DEF Written, StepInv
    <3>2. sup' = sup
      BY <2>1 DEF Written
    <3> QED
      BY <2>1, <3>1, <3>2 DEF Written, Status
  <2>3. (\A b \in Attempts : b # t => step'[b] = "open") /\ step'[t] = "rename"
    BY <1>s, <2>1 DEF Written
  <2>4. UNCHANGED <<reading, path>>
    BY <2>1 DEF Written
  <2> QED
    BY <2>2, <2>3, <2>4
<1>13. ASSUME NEW t \in Attempts, Rename(t) PROVE TmpInv'
  <2>1. Renamed(t)
    BY <1>13, <1>r
  <2>2. \A b \in Attempts : step'[b] = "open"
    BY <1>s, <2>1 DEF Renamed
  <2>3. UNCHANGED reading /\ (path' = path \/ path'["tmp"] = 0)
    BY <2>1 DEF Renamed
  <2> QED
    BY <2>2, <2>3
<1>14. ASSUME NEW t \in Attempts, Up(t) PROVE TmpInv'
  BY <1>14, <1>t, <1>x DEF Up, SupAt, Writes
<1>15. ASSUME NEW t \in Attempts, Report(t) PROVE TmpInv'
  BY <1>15, <1>t, <1>x DEF Report, SupAt, Writes
<1>16. ASSUME NEW t \in Attempts, Cleanup(t) PROVE TmpInv'
  BY <1>16, <1>t, <1>x DEF Cleanup, SupAt, Writes
<1>17. ASSUME NEW t \in Attempts, SupervisorKilled(t) PROVE TmpInv'
  BY <1>17 DEF SupervisorKilled, Status
<1>v. ASSUME NEW t \in Attempts, WriteFails(t) PROVE TmpInv'
  <2>1. /\ UNCHANGED <<creator, seen, reading, path, content>>
        /\ step' = [step EXCEPT ![t] = "open"] /\ writing' = [writing EXCEPT ![t] = 0]
    BY <1>v, <1>f DEF Unwritten
  <2>2. step'[t] = "open" /\ \A b \in Attempts : b # t => UNCHANGED <<step[b], writing[b]>>
    BY <2>1
  <2>3. PICK to : sup' = [sup EXCEPT ![t] = to]
    BY <1>v, <1>f DEF Unwritten
  <2>4. \A b \in Attempts : b # t => UNCHANGED <<Status(b), step[b], writing[b]>>
    BY <2>2, <2>3 DEF Status
  <2> QED
    BY <2>1, <2>2, <2>4
<1>u. CASE UNCHANGED <<createVars, supVars, path, content, named>>
  BY <1>u DEF Status
<1> QED
  BY <1>1, <1>2, <1>3, <1>4, <1>5, <1>6, <1>c, <1>7, <1>8, <1>9, <1>10, <1>11, <1>12, <1>13,
     <1>14, <1>15, <1>16, <1>17, <1>v, <1>u, CreateFootprint, SupervisorFootprint,
     InodesFootprint

(* The state file. *)
LEMMA NamedStep ==
  ASSUME FilesTyped, InodesTyped, StepInv, OrderInv, SpawnInv, SingleInv, TmpInv, NamedInv,
         [FilesNext]_filesVars
  PROVE  NamedInv'
<1>r. \A t \in Attempts : Rename(t) => Renamed(t)
  BY RenameEffect
<1>o. \A t \in Attempts : OpenTmp(t) => Opened(t)
  BY OpenEffect
<1>w. \A t \in Attempts : WriteTmp(t) => Written(t)
  BY WriteEffect
<1>p. ASSUME NEW a \in Attempts, InPlay(a)' \/ creator'[a] = "wait"
      PROVE  named \subseteq {a}
  <2>1. InPlay(a) \/ creator[a] = "wait" \/ path["state"] = 0
    <3>1. CASE InPlay(a)'
      BY <3>1, PlayStep
    <3>2. CASE creator'[a] = "wait"
      BY <3>2, CreatorStep DEF GoesOn, InPlay, Creating, Stat, CreatorAt, FilesTyped
    <3> QED
      BY <1>p, <3>1, <3>2
  <2> QED
    BY <2>1 DEF NamedInv
<1>k. ASSUME UNCHANGED named, path'["state"] = path["state"],
             path["state"] # 0 => content'[path["state"]] = content[path["state"]]
      PROVE  NamedInv'
  <2>1. path'["state"] = 0 => named' = {}
    BY <1>k DEF NamedInv
  <2>2. path'["state"] # 0
          => \E a \in Attempts : named' = {a} /\ content'[path'["state"]] \in Own(a)
    BY <1>k DEF NamedInv
  <2>3. \A a \in Attempts : InPlay(a)' \/ creator'[a] = "wait" => named' \subseteq {a}
    BY <1>k, <1>p
  <2> QED
    BY <2>1, <2>2, <2>3 DEF NamedInv, Own
<1>1. ASSUME NEW t \in Attempts, OpenTmp(t) PROVE NamedInv'
  <2>1. Opened(t) /\ path["state"] \in {0} \cup DOMAIN content
    BY <1>1, <1>o DEF InodesTyped
  <2>2. path["state"] # 0 => path["state"] # path'["tmp"]
    BY <2>1 DEF Opened, TmpInv
  <2> QED
    BY <1>k, <2>1, <2>2 DEF Opened
<1>2. ASSUME NEW t \in Attempts, WriteTmp(t) PROVE NamedInv'
  <2>1. Written(t) /\ path["state"] \in {0} \cup DOMAIN content
    BY <1>2, <1>w DEF InodesTyped
  <2>2. writing[t] = path["tmp"] /\ writing[t] # path["state"]
    BY <2>1 DEF Written, TmpInv, StepInv
  <2> QED
    BY <1>k, <2>1, <2>2 DEF Written
<1>3. ASSUME NEW t \in Attempts, Rename(t) PROVE NamedInv'
  <2>1. Renamed(t) /\ UNCHANGED creator
    BY <1>3, <1>r DEF Renamed, createVars
  <2>2. path["tmp"] # 0 /\ content[path["tmp"]] \in Own(t) /\ Lives(t)
    BY <2>1 DEF Renamed, TmpInv, Own, Status, Lives, Writes
  <2>3. named' = {t} /\ path'["state"] = path["tmp"] /\ content' = content
    BY <2>1, <2>2 DEF Renamed, NamedInv, InPlay
  <2>4. ASSUME NEW a \in Attempts, InPlay(a)' \/ creator'[a] = "wait" PROVE a = t
    <3>1. InPlay(a)' => InPlay(a)
      BY <1>3, PlayStep DEF Stat, CreatorAt, Rename, createVars, FilesTyped, StepTo
    <3>2. CASE InPlay(a)
      BY <2>2, <3>2 DEF SingleInv, InPlay
    <3>3. CASE creator[a] = "wait"
      <4>1. CASE t < a
        <5>1. t \in 1..a - 1
          BY <4>1 DEF Attempts
        <5>2. path["state"] # 0
          BY <2>2, <3>3, <5>1 DEF OrderInv
        <5>3. PICK b \in Attempts : named = {b}
          BY <5>2 DEF NamedInv
        <5> QED
          BY <2>2, <3>3, <5>3 DEF NamedInv, InPlay
      <4>2. CASE a < t
        <5>1. a \in 1..t - 1
          BY <4>2 DEF Attempts
        <5>2. creator[t] # "start"
          BY <2>2 DEF SpawnInv, Lives
        <5> QED
          BY <3>3, <5>1, <5>2 DEF OrderInv, Ended
      <4> QED
        BY <4>1, <4>2 DEF Attempts
    <3> QED
      BY <2>1, <2>4, <3>1, <3>2, <3>3
  <2>5. path'["state"] # 0 /\ content'[path'["state"]] \in Own(t)
    BY <2>2, <2>3
  <2> QED
    BY <2>3, <2>4, <2>5 DEF NamedInv, Own
<1>4. CASE UNCHANGED <<path, content, named>>
  BY <1>k, <1>4
<1> QED
  BY <1>1, <1>2, <1>3, <1>4, InodesFootprint

(* What a supervisor has written. *)
LEMMA WroteStep ==
  ASSUME FilesTyped, StepInv, SpawnInv, SingleInv, TmpInv, WroteInv, [FilesNext]_filesVars
  PROVE  WroteInv'
<1>r. \A t \in Attempts : Rename(t) => Renamed(t)
  BY RenameEffect
<1>f. \A t \in Attempts : WriteFails(t) => Unwritten(t)
  BY FailEffect
<1> USE DEF createVars, supVars, fileVars, FilesTyped, WroteInv, Begins, Goes
<1>1. ASSUME NEW t \in Attempts, Spawn(t) PROVE WroteInv'
  BY <1>1 DEF Spawn, CreatorAt, SpawnInv, Creating
<1>2. ASSUME NEW t \in Attempts, ReadRequest(t) PROVE WroteInv'
  BY <1>2 DEF ReadRequest, SupAt
<1>3. ASSUME NEW t \in Attempts, RemoveRequest(t) PROVE WroteInv'
  BY <1>3 DEF RemoveRequest, SupAt
<1>4. ASSUME NEW t \in Attempts, Launch(t) PROVE WroteInv'
  BY <1>4 DEF Launch, SupAt
<1>5. ASSUME NEW t \in Attempts, OpenTmp(t) PROVE WroteInv'
  BY <1>5 DEF OpenTmp, StepTo
<1>6. ASSUME NEW t \in Attempts, WriteTmp(t) PROVE WroteInv'
  BY <1>6 DEF WriteTmp, StepTo
<1>7. ASSUME NEW t \in Attempts, Rename(t) PROVE WroteInv'
  <2>1. Renamed(t) /\ path["tmp"] # 0
    BY <1>7, <1>r DEF Renamed, TmpInv
  <2>2. named' = named \cup {t}
    BY <2>1 DEF Renamed
  <2>3. PICK to \in {"up", "report", "cleanup"} : sup' = [sup EXCEPT ![t] = to]
    BY <2>1 DEF Renamed
  <2> QED
    BY <2>2, <2>3
<1>8. ASSUME NEW t \in Attempts, Up(t) PROVE WroteInv'
  BY <1>8 DEF Up, SupAt
<1>9. ASSUME NEW t \in Attempts, Report(t) PROVE WroteInv'
  BY <1>9 DEF Report, SupAt
<1>10. ASSUME NEW t \in Attempts, Cleanup(t) PROVE WroteInv'
  BY <1>10 DEF Cleanup, SupAt
<1>11. ASSUME NEW t \in Attempts, SupervisorKilled(t) PROVE WroteInv'
  BY <1>11 DEF SupervisorKilled
<1>v. ASSUME NEW t \in Attempts, WriteFails(t) PROVE WroteInv'
  <2>1. PICK to \in {"cleanup", "report"} :
          sup' = [sup EXCEPT ![t] = to] /\ (to = "report" => sup[t] = "writeStopped")
    BY <1>v, <1>f DEF Unwritten
  <2>2. named' = named
    BY <1>v, <1>f DEF Unwritten
  <2> QED
    BY <2>1, <2>2
<1>u. CASE UNCHANGED supVars
  BY <1>u
<1> QED
  BY <1>1, <1>2, <1>3, <1>4, <1>5, <1>6, <1>7, <1>8, <1>9, <1>10, <1>11, <1>v, <1>u,
     SupervisorFootprint

(* What a reader has open stays as it is. *)
LEMMA OpenContent ==
  ASSUME FilesTyped, InodesTyped, StepInv, TmpInv, [FilesNext]_filesVars,
         NEW r \in Readers, reading[r] # 0
  PROVE  content'[reading[r]] = content[reading[r]]
<1>1. reading[r] \in DOMAIN content /\ reading[r] # path["tmp"]
  BY DEF InodesTyped, TmpInv
<1>2. ASSUME NEW t \in Attempts, OpenTmp(t) PROVE content'[reading[r]] = content[reading[r]]
  <2>1. Opened(t)
    BY <1>2, OpenEffect
  <2>2. path'["tmp"] # reading[r]
    BY <1>1, <2>1 DEF Opened
  <2> QED
    BY <1>1, <2>1, <2>2 DEF Opened
<1>3. ASSUME NEW t \in Attempts, WriteTmp(t) PROVE content'[reading[r]] = content[reading[r]]
  <2>1. Written(t)
    BY <1>3, WriteEffect
  <2>2. writing[t] = path["tmp"]
    BY <2>1 DEF Written, TmpInv
  <2> QED
    BY <1>1, <2>1, <2>2 DEF Written
<1>4. ASSUME NEW t \in Attempts, Rename(t) PROVE content'[reading[r]] = content[reading[r]]
  <2>1. Renamed(t)
    BY <1>4, RenameEffect
  <2> QED
    BY <2>1 DEF Renamed
<1>5. CASE UNCHANGED <<path, content, named>>
  BY <1>5
<1> QED
  BY <1>2, <1>3, <1>4, <1>5, InodesFootprint

(* The run of the state file does not change. *)
LEMMA NamedStays ==
  ASSUME FilesTyped, InodesTyped, StepInv, SingleInv, TmpInv, NamedInv, [FilesNext]_filesVars,
         NEW a \in Attempts, named = {a}
  PROVE  named' = {a}
<1>1. ASSUME NEW t \in Attempts, OpenTmp(t) PROVE named' = {a}
  BY <1>1 DEF OpenTmp
<1>2. ASSUME NEW t \in Attempts, WriteTmp(t) PROVE named' = {a}
  BY <1>2 DEF WriteTmp
<1>3. ASSUME NEW t \in Attempts, Rename(t) PROVE named' = {a}
  <2>1. Renamed(t) /\ path["tmp"] # 0
    BY <1>3, RenameEffect DEF Renamed, TmpInv
  <2>2. named' = named \cup {t}
    BY <2>1 DEF Renamed
  <2>3. InPlay(t)
    BY <2>1 DEF Renamed, InPlay, Lives, Writes
  <2> QED
    BY <2>2, <2>3 DEF NamedInv
<1>4. CASE UNCHANGED <<path, content, named>>
  BY <1>4
<1> QED
  BY <1>1, <1>2, <1>3, <1>4, InodesFootprint

(* What the readers read, and what create has read. *)
LEMMA OpenStays ==
  ASSUME FilesTyped, InodesTyped, StepInv, SingleInv, TmpInv, NamedInv, ReadInv,
         [FilesNext]_filesVars, NEW r \in Readers, reading'[r] = reading[r]
  PROVE  Open(r)'
<1> SUFFICES ASSUME reading[r] # 0
             PROVE  \E a \in Attempts : named' = {a} /\ content'[reading[r]] \in Own(a)
  BY DEF Open, Own
<1>1. PICK a \in Attempts : named = {a} /\ content[reading[r]] \in Own(a)
  BY DEF ReadInv, Open
<1> QED
  BY <1>1, NamedStays, OpenContent

LEMMA ReadStep ==
  ASSUME FilesTyped, InodesTyped, StepInv, SingleInv, TmpInv, NamedInv, ReadInv,
         [FilesNext]_filesVars
  PROVE  ReadInv'
<1>d. reading \in [Readers -> Nat] /\ seen \in [Readers -> States]
      /\ creator \in [Attempts -> Statements] /\ Attempts \subseteq Readers
  BY Constants DEF FilesTyped
<1>p. ASSUME NEW r \in Readers, Opens(r) PROVE Open(r)'
  <2>1. reading' = [reading EXCEPT ![r] = path["state"]] /\ path["state"] # 0
        /\ UNCHANGED <<named, content>>
    BY <1>p DEF Opens, supVars, fileVars
  <2>2. \E a \in Attempts : named = {a} /\ content[path["state"]] \in Own(a)
    BY <2>1 DEF NamedInv
  <2> QED
    BY <1>d, <2>1, <2>2 DEF Open, Own
<1>q. ASSUME NEW r \in Readers, Reads(r) PROVE Open(r)'
  BY <1>d, <1>q DEF Open, Reads
<1>o. \A r \in Readers : Open(r)'
  <2> SUFFICES ASSUME NEW r \in Readers PROVE Open(r)'
    OBVIOUS
  <2>1. reading'[r] = reading[r] \/ Opens(r) \/ Reads(r)
    <3>1. ASSUME NEW t \in Attempts, Stat(t) \/ OpenRequest(t) \/ WriteRequest(t) \/ Spawn(t) \/ GiveUp(t)
          PROVE  reading' = reading
      BY <3>1 DEF Stat, OpenRequest, WriteRequest, Spawn, GiveUp
    <3>2. ASSUME NEW t \in Readers, Opens(t) \/ Reads(t) PROVE reading'[r] = reading[r] \/ t = r
      BY <1>d, <3>2 DEF Opens, Reads
    <3>3. CASE UNCHANGED createVars
      BY <3>3 DEF createVars
    <3>4. ASSUME NEW t \in Attempts, OpenState(t) \/ ReadState(t) PROVE Opens(t) \/ Reads(t)
      BY <3>4 DEF OpenState, ReadState
    <3>5. CASE CommandOpens \/ CommandReads
      BY <3>2, <3>5, Constants DEF CommandOpens, CommandReads
    <3> QED
      BY <1>d, <3>1, <3>2, <3>3, <3>4, <3>5, CreateFootprint
  <2> QED
    BY <1>p, <1>q, <2>1, OpenStays
<1>k. ASSUME \A a \in Attempts : /\ reading'[a] # 0 => creator'[a] = "wait"
                                 /\ creator'[a] = "created" => seen'[a] = State(a, a, "running")
      PROVE  ReadInv'
  <2>1. (\A r \in Readers : Open(r))'
    BY <1>o
  <2>2. (\A a \in Attempts : /\ reading[a] # 0 => creator[a] = "wait"
                             /\ creator[a] = "created" => seen[a] = State(a, a, "running"))'
    BY <1>k DEF State
  <2> QED
    BY <2>1, <2>2 DEF ReadInv
<1> USE DEF ReadInv
<1>1. ASSUME NEW t \in Attempts,
             Stat(t) \/ OpenRequest(t) \/ WriteRequest(t) \/ Spawn(t) \/ GiveUp(t)
      PROVE  ReadInv'
  <2>1. /\ UNCHANGED <<seen, reading>> /\ reading[t] = 0 /\ creator'[t] # "created"
        /\ \A b \in Attempts : b # t => creator'[b] = creator[b]
    BY <1>1, <1>d, ZenonT(40) DEF Stat, OpenRequest, WriteRequest, Spawn, GiveUp, CreatorAt
  <2> QED
    BY <1>k, <2>1
<1>2. ASSUME NEW t \in Attempts, OpenState(t) PROVE ReadInv'
  <2>1. /\ reading' = [reading EXCEPT ![t] = path["state"]] /\ creator[t] = "wait"
        /\ UNCHANGED <<creator, seen>>
    BY <1>2 DEF OpenState, Opens
  <2> QED
    BY <1>d, <1>k, <2>1
<1>3. ASSUME NEW t \in Attempts, ReadState(t) PROVE ReadInv'
  <2>1. /\ reading' = [reading EXCEPT ![t] = 0] /\ creator[t] = "wait"
        /\ seen' = [seen EXCEPT ![t] = content[reading[t]]] /\ reading[t] # 0
        /\ creator' = [creator EXCEPT ![t] =
             IF content[reading[t]].status = "running" THEN "created" ELSE "wait"]
    BY <1>3 DEF ReadState, Reads, CreatorAt
  <2>2. content[reading[t]].status = "running" => content[reading[t]] = State(t, t, "running")
    <3>1. PICK a \in Attempts : named = {a} /\ content[reading[t]] \in Own(a)
      BY <1>d, <2>1 DEF Open
    <3>2. a = t
      BY <2>1, <3>1 DEF NamedInv
    <3>3. State(t, t, "stopped").status = "stopped"
      BY DEF State
    <3> QED
      BY <3>1, <3>2, <3>3 DEF Own
  <2>3. ASSUME NEW b \in Attempts
        PROVE  /\ reading'[b] # 0 => creator'[b] = "wait"
               /\ creator'[b] = "created" => seen'[b] = State(b, b, "running")
    BY <1>d, <2>1, <2>2
  <2> QED
    BY <1>k, <2>3
<1>4. CASE CommandOpens \/ CommandReads
  <2>1. ASSUME NEW b \in Attempts PROVE UNCHANGED <<reading[b], seen[b], creator[b]>>
    BY <1>4, <1>d, Constants DEF CommandOpens, CommandReads, Opens, Reads
  <2> QED
    BY <1>k, <2>1
<1>5. CASE UNCHANGED createVars
  BY <1>k, <1>5 DEF createVars
<1> QED
  BY <1>1, <1>2, <1>3, <1>4, <1>5, CreateFootprint

---------------------------------------------------------------------------
(* The invariants.                                                         *)

FilesTypes == FilesTyped /\ InodesTyped /\ StepInv /\ SpawnInv

(* The part that holds for every number of attempts in every order.        *)
LEMMA TypesInvariant == FilesSpec => []FilesTypes
<1>1. FilesInit => FilesTypes
  <2> SUFFICES ASSUME FilesInit PROVE FilesTypes
    OBVIOUS
  <2>1. None \in States
    BY DEF None, State, States
  <2>2. FilesTyped
    BY <2>1 DEF FilesInit, FilesTyped, Statements, SupervisorStatements, Writes
  <2>3. InodesTyped /\ StepInv /\ SpawnInv
    BY DEF FilesInit, InodesTyped, StepInv, SpawnInv, Creating, Writes
  <2> QED
    BY <2>2, <2>3 DEF FilesTypes
<1>2. FilesTypes /\ [FilesNext]_filesVars => FilesTypes'
  BY TypedStep, InodesStep, StepStep, SpawnStep DEF FilesTypes
<1> QED
  BY <1>1, <1>2, PTL DEF FilesSpec

(* The variables keep their types for every number of attempts, in every   *)
(* order; a supervisor is at a call of WriteState, and has its file open,  *)
(* only while it writes.                                                   *)
THEOREM FilesTypeCorrect == FilesSpec => []FilesTypeOK
<1>1. FilesTypes => FilesTypeOK
  BY DEF FilesTypes, FilesTyped, InodesTyped, StepInv, FilesTypeOK, Statements,
         SupervisorStatements, Writes
<1> QED
  BY <1>1, TypesInvariant, PTL

(* For attempts that do not overlap the whole invariant holds.             *)
THEOREM FilesInvariance ==
  ASSUME Start = "afterSupervisor" PROVE FilesSpec => []FilesInv
<1>1. FilesInit => FilesInv
  <2> SUFFICES ASSUME FilesInit PROVE FilesInv
    OBVIOUS
  <2>1. None \in States
    BY DEF None, State, States
  <2>2. FilesTyped
    BY <2>1 DEF FilesInit, FilesTyped, Statements, SupervisorStatements, Writes
  <2>3. InodesTyped /\ StepInv /\ SpawnInv
    BY DEF FilesInit, InodesTyped, StepInv, SpawnInv, Creating, Writes
  <2>4. OrderInv /\ SingleInv /\ RequestInv
    BY DEF FilesInit, OrderInv, SingleInv, RequestInv, InPlay, Creating, Lives
  <2>5. TmpInv /\ NamedInv /\ WroteInv
    BY DEF FilesInit, TmpInv, NamedInv, WroteInv, Goes
  <2>6. ReadInv
    BY Constants DEF FilesInit, ReadInv, Open
  <2> QED
    BY <2>2, <2>3, <2>4, <2>5, <2>6 DEF FilesInv
<1>2. FilesInv /\ [FilesNext]_filesVars => FilesInv'
  <2> SUFFICES ASSUME FilesInv, [FilesNext]_filesVars PROVE FilesInv'
    OBVIOUS
  <2>1. FilesTyped' /\ InodesTyped' /\ StepInv' /\ SpawnInv'
    BY TypedStep, InodesStep, StepStep, SpawnStep DEF FilesInv
  <2>2. OrderInv' /\ SingleInv' /\ RequestInv'
    BY OrderStep, SingleStep, RequestStep DEF FilesInv
  <2>3. TmpInv' /\ NamedInv' /\ WroteInv' /\ ReadInv'
    BY TmpStep, NamedStep, WroteStep, ReadStep DEF FilesInv
  <2> QED
    BY <2>1, <2>2, <2>3 DEF FilesInv
<1> QED
  BY <1>1, <1>2, PTL DEF FilesSpec

(* WriteState and ReadState: whoever opens the state file reads a whole    *)
(* state, whenever the supervisor that writes it was killed.               *)
THEOREM WholeState ==
  ASSUME Start = "afterSupervisor" PROVE FilesSpec => []StateWhole
<1>1. FilesInv => StateWhole
  <2> SUFFICES ASSUME FilesInv,
                      NEW i \in {path["state"]} \cup {reading[r] : r \in Readers}, i # 0
               PROVE  content[i] # Torn
    BY DEF StateWhole
  <2>1. \E a \in Attempts : content[i] \in Own(a)
    BY DEF FilesInv, NamedInv, ReadInv, Open
  <2>2. \A a : State(a, a, "running") # Torn /\ State(a, a, "stopped") # Torn
    <3>1. \A a : State(a, a, "running").status # "torn" /\ State(a, a, "stopped").status # "torn"
      BY DEF State
    <3>2. Torn.status = "torn"
      BY DEF Torn, State
    <3> QED
      BY <3>1, <3>2
  <2> QED
    BY <2>1, <2>2 DEF Own
<1> QED
  BY <1>1, FilesInvariance, PTL

(* The state file names the VM that runs, and `stop` therefore finds it.   *)
THEOREM NamedVm ==
  ASSUME Start = "afterSupervisor" PROVE FilesSpec => []VmIsNamed
<1>1. FilesInv => VmIsNamed
  <2> SUFFICES ASSUME FilesInv, NEW a \in named
               PROVE  path["state"] # 0 /\ content[path["state"]].pid = a
    BY DEF VmIsNamed
  <2>1. path["state"] # 0
    BY DEF FilesInv, NamedInv
  <2>2. content[path["state"]] \in Own(a)
    BY <2>1 DEF FilesInv, NamedInv
  <2>3. State(a, a, "running").pid = a /\ State(a, a, "stopped").pid = a
    BY DEF State
  <2> QED
    BY <2>1, <2>2, <2>3 DEF Own
<1> QED
  BY <1>1, FilesInvariance, PTL

(* waitForSandboxRunning: a create that succeeds has read the state of its *)
(* own run, under its own supervisor.                                      *)
THEOREM OwnCreate ==
  ASSUME Start = "afterSupervisor" PROVE FilesSpec => []CreatedIsOwn
<1>1. FilesInv => CreatedIsOwn
  BY DEF FilesInv, ReadInv, CreatedIsOwn
<1> QED
  BY <1>1, FilesInvariance, PTL

---------------------------------------------------------------------------
(* The register.                                                           *)

(* A state of a supervisor is no missing one. *)
LEMMA OwnIsState ==
  ASSUME NEW a, NEW v \in Own(a)
  PROVE  v # None
<1>1. None.status = "none"
  BY DEF None, State
<1>2. State(a, a, "running").status = "running" /\ State(a, a, "stopped").status = "stopped"
  BY DEF State
<1> QED
  BY <1>1, <1>2 DEF Own

(* What a step leaves alone. *)
LEMMA RegisterStutters ==
  ASSUME UNCHANGED <<Held, seen>>, \A r \in Readers : BeingRead'[r] = BeingRead[r]
  PROVE  UNCHANGED Register!registerVars
<1>1. /\ BeingRead = [r \in Readers |-> BeingRead[r]]
      /\ BeingRead' = [r \in Readers |-> BeingRead'[r]]
  BY DEF BeingRead
<1>2. BeingRead' = BeingRead
  BY <1>1
<1> QED
  BY <1>2 DEF Register!registerVars

(* ReadState, in its two system calls. *)
LEMMA OpensIsBegin ==
  ASSUME FilesInv, NEW r \in Readers, Opens(r)
  PROVE  Register!ReadBegins(r)
<1>1. /\ reading[r] = 0 /\ path["state"] # 0 /\ reading' = [reading EXCEPT ![r] = path["state"]]
      /\ UNCHANGED <<seen, path, content>> /\ reading \in [Readers -> Nat]
  BY DEF Opens, supVars, fileVars, FilesInv, FilesTyped
<1>2. Held' = Held /\ Held = content[path["state"]]
  BY <1>1 DEF Held
<1>3. Held # None
  <2>1. PICK a \in Attempts : content[path["state"]] \in Own(a)
    BY <1>1 DEF FilesInv, NamedInv
  <2> QED
    BY <1>2, <2>1, OwnIsState
<1>4. BeingRead[r] = None
  BY <1>1 DEF BeingRead
<1>5. BeingRead' = [BeingRead EXCEPT ![r] = Held]
  <2>1. \A q \in Readers : q # r => reading'[q] = reading[q]
    BY <1>1
  <2>2. reading'[r] = path["state"]
    BY <1>1
  <2>3. \A q \in Readers : (IF reading'[q] = 0 THEN None ELSE content'[reading'[q]])
                            = [BeingRead EXCEPT ![r] = Held][q]
    BY <1>1, <1>2, <2>1, <2>2 DEF BeingRead
  <2> QED
    BY <2>3 DEF BeingRead
<1> QED
  BY <1>1, <1>2, <1>3, <1>4, <1>5 DEF Register!ReadBegins

LEMMA ReadsIsEnd ==
  ASSUME FilesInv, NEW r \in Readers, Reads(r)
  PROVE  Register!ReadEnds(r)
<1>1. /\ reading[r] # 0 /\ reading' = [reading EXCEPT ![r] = 0]
      /\ seen' = [seen EXCEPT ![r] = content[reading[r]]]
      /\ UNCHANGED <<path, content>> /\ reading \in [Readers -> Nat]
  BY DEF Reads, supVars, fileVars, FilesInv, FilesTyped
<1>2. Held' = Held
  BY <1>1 DEF Held
<1>3. BeingRead[r] = content[reading[r]]
  BY <1>1 DEF BeingRead
<1>4. BeingRead[r] # None
  <2>1. PICK a \in Attempts : content[reading[r]] \in Own(a)
    BY <1>1 DEF FilesInv, ReadInv, Open
  <2> QED
    BY <1>3, <2>1, OwnIsState
<1>5. BeingRead' = [BeingRead EXCEPT ![r] = None]
  <2>1. \A q \in Readers : (IF reading'[q] = 0 THEN None ELSE content'[reading'[q]])
                            = [BeingRead EXCEPT ![r] = None][q]
    BY <1>1 DEF BeingRead
  <2> QED
    BY <2>1 DEF BeingRead
<1> QED
  BY <1>1, <1>2, <1>3, <1>4, <1>5 DEF Register!ReadEnds

(* Until the rename, WriteState changes nothing that a reader sees. *)
LEMMA WriteIsHidden ==
  ASSUME FilesInv, NEW t \in Attempts, OpenTmp(t) \/ WriteTmp(t)
  PROVE  UNCHANGED Register!registerVars
<1>1. FilesTyped /\ InodesTyped /\ StepInv /\ TmpInv /\ [FilesNext]_filesVars
  BY DEF FilesInv, FilesNext, SupervisorStep
<1>2. UNCHANGED <<seen, reading>> /\ path'["state"] = path["state"]
  BY <1>1, OpenEffect, WriteEffect DEF Opened, Written, createVars
<1>3. path["state"] # 0 => content'[path["state"]] = content[path["state"]]
  <2> SUFFICES ASSUME path["state"] # 0 PROVE content'[path["state"]] = content[path["state"]]
    OBVIOUS
  <2>1. path["state"] \in DOMAIN content /\ path["tmp"] # path["state"]
    BY <1>1 DEF InodesTyped, TmpInv
  <2>2. CASE OpenTmp(t)
    <3>1. Opened(t)
      BY <1>1, <2>2, OpenEffect
    <3>2. path'["tmp"] # path["state"]
      BY <2>1, <3>1 DEF Opened
    <3> QED
      BY <2>1, <3>1, <3>2 DEF Opened
  <2>3. CASE WriteTmp(t)
    <3>1. Written(t)
      BY <1>1, <2>3, WriteEffect
    <3>2. writing[t] = path["tmp"]
      BY <1>1, <3>1 DEF Written, TmpInv
    <3> QED
      BY <2>1, <3>1, <3>2 DEF Written
  <2> QED
    BY <2>2, <2>3
<1>4. Held' = Held
  BY <1>2, <1>3 DEF Held
<1>5. \A r \in Readers : reading[r] # 0 => content'[reading[r]] = content[reading[r]]
  BY <1>1, OpenContent
<1>6. \A r \in Readers : BeingRead'[r] = BeingRead[r]
  BY <1>2, <1>5 DEF BeingRead
<1> QED
  BY <1>2, <1>4, <1>6, RegisterStutters

(* The rename puts the state into the register, the second one of the end  *)
(* one that is there already. *)
LEMMA RenameIsPut ==
  ASSUME FilesInv, NEW t \in Attempts, Rename(t)
  PROVE  [Register!PutRunning \/ Register!PutStopped]_Register!registerVars
<1>1. Renamed(t) /\ path["tmp"] # 0 /\ content[path["tmp"]] = State(t, t, Status(t))
  BY RenameEffect DEF Renamed, FilesInv, TmpInv
<1>2. /\ UNCHANGED <<seen, reading, content>> /\ path'["state"] = path["tmp"]
      /\ InPlay(t) /\ sup[t] \in Writes
  BY <1>1 DEF Renamed, createVars, InPlay, Lives, Writes
<1>3. Held' = State(t, t, Status(t))
  BY <1>1, <1>2 DEF Held
<1>4. BeingRead' = BeingRead
  BY <1>2 DEF BeingRead
<1>5. CASE sup[t] = "writeRunning"
  <2>1. t \notin named /\ named \subseteq {t}
    BY <1>2, <1>5 DEF FilesInv, WroteInv, Begins, NamedInv
  <2>2. path["state"] = 0
    BY <2>1 DEF FilesInv, NamedInv
  <2>3. Held = None /\ Held' = Register!StateOf(t, "running")
    BY <1>3, <1>5, <2>2 DEF Held, Status, State, Register!StateOf
  <2> QED
    BY <1>2, <1>4, <2>3 DEF Register!PutRunning
<1>6. CASE sup[t] # "writeRunning"
  <2>1. t \in named
    BY <1>2, <1>6 DEF FilesInv, WroteInv, Goes, Writes
  <2>2. path["state"] # 0 /\ content[path["state"]] \in Own(t)
    BY <2>1 DEF FilesInv, NamedInv
  <2>3. Held \in Own(t) /\ Held' = State(t, t, "stopped")
    BY <1>3, <1>6, <2>2 DEF Held, Status
  <2>4. CASE Held = State(t, t, "running")
    <3>1. Held = Register!StateOf(t, "running") /\ Held' = Register!StateOf(t, "stopped")
      BY <2>3, <2>4 DEF State, Register!StateOf
    <3> QED
      BY <1>2, <1>4, <3>1 DEF Register!PutStopped
  <2>5. CASE Held = State(t, t, "stopped")
    BY <1>2, <1>4, <2>3, <2>5 DEF Register!registerVars
  <2> QED
    BY <2>3, <2>4, <2>5 DEF Own
<1> QED
  BY <1>5, <1>6

LEMMA RegisterStep ==
  ASSUME FilesInv, [FilesNext]_filesVars
  PROVE  [Register!RegisterNext]_Register!registerVars
<1>1. ASSUME NEW r \in Readers, Opens(r) \/ Reads(r)
      PROVE  [Register!RegisterNext]_Register!registerVars
  BY <1>1, OpensIsBegin, ReadsIsEnd DEF Register!RegisterNext
<1>2. ASSUME NEW t \in Attempts, OpenTmp(t) \/ WriteTmp(t) \/ Rename(t)
      PROVE  [Register!RegisterNext]_Register!registerVars
  BY <1>2, WriteIsHidden, RenameIsPut DEF Register!RegisterNext
<1>3. ASSUME UNCHANGED <<path, content, named>>, UNCHANGED <<seen, reading>>
      PROVE  [Register!RegisterNext]_Register!registerVars
  <2>1. UNCHANGED <<Held, seen, BeingRead>>
    BY <1>3 DEF Held, BeingRead
  <2> QED
    BY <2>1 DEF Register!registerVars
<1>4. ASSUME NEW t \in Attempts,
             Stat(t) \/ OpenRequest(t) \/ WriteRequest(t) \/ Spawn(t) \/ GiveUp(t)
      PROVE  UNCHANGED <<seen, reading>>
  BY <1>4 DEF Stat, OpenRequest, WriteRequest, Spawn, GiveUp
<1>5. ASSUME NEW t \in Attempts, OpenState(t) \/ ReadState(t)
      PROVE  t \in Readers /\ (Opens(t) \/ Reads(t))
  BY <1>5, Constants DEF OpenState, ReadState
<1>6. ASSUME CommandOpens \/ CommandReads
      PROVE  Command \in Readers /\ (Opens(Command) \/ Reads(Command))
  BY <1>6, Constants DEF CommandOpens, CommandReads
<1>7. \/ \E r \in Readers : Opens(r) \/ Reads(r)
      \/ UNCHANGED <<seen, reading>>
  BY <1>4, <1>5, <1>6, CreateFootprint DEF createVars
<1> QED
  BY <1>1, <1>2, <1>3, <1>7, InodesFootprint

(* WriteState and ReadState implement the register: each read is of the    *)
(* state at its beginning, and the states are those of one run in their    *)
(* order, when supervisors are killed at any of these calls, too.          *)
THEOREM RegisterRefinement ==
  ASSUME Start = "afterSupervisor" PROVE FilesSpec => RegisterImplements
<1>1. FilesInit => Register!RegisterInit
  BY DEF FilesInit, Register!RegisterInit, Held, BeingRead
<1>2. FilesInv /\ [FilesNext]_filesVars => [Register!RegisterNext]_Register!registerVars
  BY RegisterStep
<1> QED
  BY <1>1, <1>2, FilesInvariance, PTL DEF FilesSpec, RegisterImplements, Register!RegisterSpec

(* What is in the register. *)
LEMMA HeldIs ==
  ASSUME FilesInv
  PROVE  Held = None \/ \E a \in Attempts : Held \in Own(a)
BY DEF FilesInv, NamedInv, Held

(* What can be told apart. *)
LEMMA StatesDiffer ==
  /\ None.status = "none"
  /\ \A a, b : /\ State(a, a, "running") # None /\ State(a, a, "stopped") # None
               /\ State(a, a, "running") # State(b, b, "stopped")
               /\ State(a, a, "running").status = "running" /\ State(a, a, "running").run = a
               /\ State(a, a, "stopped").status = "stopped" /\ State(a, a, "stopped").run = a
<1>1. None.status = "none"
  BY DEF None, State
<1>2. \A a : /\ State(a, a, "running").status = "running" /\ State(a, a, "running").run = a
             /\ State(a, a, "stopped").status = "stopped" /\ State(a, a, "stopped").run = a
  BY DEF State
<1> QED
  BY <1>1, <1>2

(* What is being read belongs to what has been read. *)
LEMMA RegisterInvStep ==
  ASSUME FilesInv, RegisterInv, [Register!RegisterNext]_Register!registerVars
  PROVE  /\ RegisterInv'
         /\ \A r \in Readers : seen[r].status = "stopped" => seen'[r] = seen[r]
<1>f. /\ seen \in [Readers -> States] /\ BeingRead = [r \in Readers |-> BeingRead[r]]
  BY DEF FilesInv, FilesTyped, BeingRead
<1>s. ASSUME NEW v, Behind(v), v.status = "stopped" PROVE v = Held
  BY <1>s, StatesDiffer DEF Behind
<1>k. ASSUME \A v : Behind(v) => Behind(v)', UNCHANGED <<seen, BeingRead>>
      PROVE  RegisterInv' /\ \A r \in Readers : seen[r].status = "stopped" => seen'[r] = seen[r]
  <2>1. ASSUME NEW r \in Readers
        PROVE  /\ Behind(seen[r])' /\ Behind(BeingRead[r])'
               /\ seen'[r].status = "stopped" => BeingRead'[r] \in {None, seen'[r]}
    BY <1>k DEF RegisterInv, Behind
  <2> QED
    BY <1>k, <2>1 DEF RegisterInv
<1>1. CASE Register!PutRunning
  <2>1. Held = None /\ UNCHANGED <<seen, BeingRead>>
    BY <1>1 DEF Register!PutRunning
  <2>2. ASSUME NEW v, Behind(v) PROVE Behind(v)'
    BY <2>1, <2>2, StatesDiffer DEF Behind
  <2> QED
    BY <1>k, <2>1, <2>2
<1>2. CASE Register!PutStopped
  <2>1. PICK a \in Attempts : Held = State(a, a, "running") /\ Held' = State(a, a, "stopped")
    BY <1>2 DEF Register!PutStopped, Register!StateOf, State
  <2>2. UNCHANGED <<seen, BeingRead>>
    BY <1>2 DEF Register!PutStopped
  <2>3. ASSUME NEW v, Behind(v) PROVE Behind(v)'
    BY <2>1, <2>3, StatesDiffer DEF Behind
  <2> QED
    BY <1>k, <2>2, <2>3
<1>3. ASSUME NEW r \in Readers, Register!ReadBegins(r)
      PROVE  RegisterInv' /\ \A q \in Readers : seen[q].status = "stopped" => seen'[q] = seen[q]
  <2>1. UNCHANGED <<Held, seen>> /\ BeingRead' = [BeingRead EXCEPT ![r] = Held]
    BY <1>3 DEF Register!ReadBegins
  <2>2. \A v : Behind(v)' <=> Behind(v)
    BY <2>1 DEF Behind
  <2>3. BeingRead'[r] = Held /\ \A q \in Readers : q # r => BeingRead'[q] = BeingRead[q]
    BY <1>f, <2>1
  <2>4. ASSUME NEW q \in Readers
        PROVE  /\ Behind(seen'[q]) /\ Behind(BeingRead'[q])
               /\ seen'[q].status = "stopped" => BeingRead'[q] \in {None, seen'[q]}
    <3>1. CASE q = r
      BY <1>s, <2>1, <2>3, <3>1 DEF RegisterInv, Behind
    <3>2. CASE q # r
      BY <2>1, <2>3, <3>2 DEF RegisterInv
    <3> QED
      BY <3>1, <3>2
  <2>5. ASSUME NEW q \in Readers PROVE Behind(seen[q])' /\ Behind(BeingRead[q])'
    BY <2>1, <2>4 DEF Behind
  <2> QED
    BY <2>1, <2>4, <2>5 DEF RegisterInv
<1>4. ASSUME NEW r \in Readers, Register!ReadEnds(r)
      PROVE  RegisterInv' /\ \A q \in Readers : seen[q].status = "stopped" => seen'[q] = seen[q]
  <2>1. /\ UNCHANGED Held /\ BeingRead[r] # None /\ BeingRead' = [BeingRead EXCEPT ![r] = None]
        /\ seen' = [seen EXCEPT ![r] = BeingRead[r]]
    BY <1>4 DEF Register!ReadEnds
  <2>3. /\ BeingRead'[r] = None /\ seen'[r] = BeingRead[r]
        /\ \A q \in Readers : q # r => BeingRead'[q] = BeingRead[q] /\ seen'[q] = seen[q]
    BY <1>f, <2>1
  <2>4. ASSUME NEW q \in Readers
        PROVE  /\ Behind(seen'[q]) /\ Behind(BeingRead'[q])
               /\ seen'[q].status = "stopped" => BeingRead'[q] \in {None, seen'[q]}
               /\ seen[q].status = "stopped" => seen'[q] = seen[q]
    <3>1. CASE q = r
      BY <2>1, <2>3, <3>1 DEF RegisterInv, Behind
    <3>2. CASE q # r
      BY <2>3, <3>2 DEF RegisterInv
    <3> QED
      BY <3>1, <3>2
  <2>5. ASSUME NEW q \in Readers PROVE Behind(seen[q])' /\ Behind(BeingRead[q])'
    BY <2>1, <2>4 DEF Behind
  <2> QED
    BY <2>4, <2>5 DEF RegisterInv
<1>5. CASE UNCHANGED Register!registerVars
  <2>1. UNCHANGED <<Held, seen, BeingRead>>
    BY <1>5 DEF Register!registerVars
  <2>2. ASSUME NEW v, Behind(v) PROVE Behind(v)'
    BY <2>1, <2>2 DEF Behind
  <2> QED
    BY <1>k, <2>1, <2>2
<1> QED
  BY <1>1, <1>2, <1>3, <1>4, <1>5 DEF Register!RegisterNext

LEMMA RegisterInvariance ==
  ASSUME Start = "afterSupervisor" PROVE FilesSpec => [](FilesInv /\ RegisterInv)
<1>1. FilesInit => RegisterInv
  <2> SUFFICES ASSUME FilesInit PROVE RegisterInv
    OBVIOUS
  <2>1. \A r \in Readers : seen[r] = None /\ BeingRead[r] = None
    BY DEF FilesInit, BeingRead
  <2> QED
    BY <2>1 DEF RegisterInv, Behind
<1>2. FilesInv /\ RegisterInv /\ [FilesNext]_filesVars => RegisterInv'
  BY RegisterStep, RegisterInvStep
<1> QED
  BY <1>1, <1>2, FilesInvariance, PTL DEF FilesSpec

(* ReadState: a command that has seen `stopped` sees nothing else later.   *)
THEOREM StoppedStays ==
  ASSUME Start = "afterSupervisor" PROVE FilesSpec => StoppedForGood
<1>1. FilesInv /\ RegisterInv /\ [FilesNext]_filesVars =>
        [\A r \in Readers : seen[r].status = "stopped" => seen'[r] = seen[r]]_filesVars
  BY RegisterStep, RegisterInvStep
<1> QED
  BY <1>1, RegisterInvariance, PTL DEF FilesSpec, StoppedForGood

(* ReadState: what any two commands have seen is of one run.               *)
THEOREM OneRun ==
  ASSUME Start = "afterSupervisor" PROVE FilesSpec => []OneRunSeen
<1>1. FilesInv /\ RegisterInv => OneRunSeen
  <2> SUFFICES ASSUME FilesInv, RegisterInv, NEW r \in Readers, seen[r] # None
               PROVE  seen[r].run = Held.run
    BY DEF OneRunSeen
  <2>1. Behind(seen[r])
    BY DEF RegisterInv
  <2>2. CASE seen[r] = Held
    BY <2>2
  <2>3. CASE \E a \in Attempts : seen[r] = State(a, a, "running") /\ Held = State(a, a, "stopped")
    BY <2>3, StatesDiffer
  <2> QED
    BY <2>1, <2>2, <2>3 DEF Behind
<1> QED
  BY <1>1, RegisterInvariance, PTL
=============================================================================
