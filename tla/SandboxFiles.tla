---------------------------- MODULE SandboxFiles ----------------------------
(***************************************************************************)
(* The files through which processes find a sandbox: <id>.request.json,    *)
(* which create writes for its supervisor, and the state file <id>.json,   *)
(* which the supervisor replaces by a rename of <id>.json.tmp and which    *)
(* the commands read.  The paths are those of the id alone, so that        *)
(* several attempts to create one sandbox (numbered in the order of their  *)
(* start) share them; paths, inodes and open files are modelled.  What     *)
(* else the processes do is in Supervisor and SandboxControl.  The promise *)
(* of the state file is the register of module StateRegister.              *)
(***************************************************************************)
EXTENDS Integers, Sequences

CONSTANTS
  MaxAttempts,  \* bound: how often create is run for the id
  Start         \* when an attempt starts: see MayStart

ASSUME SandboxFilesAssumption ==
  /\ MaxAttempts \in Nat \ {0}
  /\ Start \in {"afterCreate", "afterSupervisor"}

Attempts == 1..MaxAttempts

(* The commands that look at the sandbox, exec and stop, are one reader:   *)
(* they share nothing that is modelled here.                               *)
Command == 0
Readers == Attempts \cup {Command}

VARIABLES
  creator,   \* attempt -> the statement of its create
  seen,      \* reader -> the state that it read last
  reading,   \* reader -> the inode its ReadState has open, or 0
  sup,       \* attempt -> the statement of its supervisor
  step,      \* attempt -> the system call of WriteState its supervisor is at
  request,   \* attempt -> the request its supervisor read (its attempt), or 0
  writing,   \* attempt -> the inode its WriteState has open, or 0
  vm,        \* attempt -> its VM
  named,     \* ghost: attempts whose supervisor has put a state at the path
  reqFile,   \* the request file: Absent, Empty or the attempt in it
  path,      \* "tmp" and "state" -> the inode at the path, or 0
  content    \* inode -> what is in it, in the order in which they were made

createVars == <<creator, seen, reading>>
supVars    == <<sup, step, request, writing, vm, named>>
fileVars   == <<reqFile, path, content>>
filesVars  == <<createVars, supVars, fileVars>>

State(run, pid, status) == [run |-> run, pid |-> pid, status |-> status]
Absent == 0
Empty  == -1
Torn == State(0, 0, "torn")  \* a file that was opened to be written and is empty
None == State(0, 0, "none")  \* no file

FilesInit ==
  /\ creator = [a \in Attempts |-> "start"] /\ seen = [r \in Readers |-> None]
  /\ reading = [r \in Readers |-> 0]
  /\ sup = [a \in Attempts |-> "none"] /\ step = [a \in Attempts |-> "open"]
  /\ request = [a \in Attempts |-> 0] /\ writing = [a \in Attempts |-> 0]
  /\ vm = [a \in Attempts |-> "none"] /\ named = {}
  /\ reqFile = Absent /\ path = [tmp |-> 0, state |-> 0] /\ content = <<>>

---------------------------------------------------------------------------
(* create.                                                                 *)

CreatorAt(a, at, to) == creator[a] = at /\ creator' = [creator EXCEPT ![a] = to]

Ended(a) == creator[a] \in {"created", "failed"}

(* Each attempt starts when the create before it has returned; or only     *)
(* when also its supervisor is gone or has written its state.              *)
MayStart(a) ==
  a > 1 => /\ Ended(a - 1)
           /\ Start = "afterSupervisor" =>
                sup[a - 1] \in {"none", "gone"} \/ path["state"] # 0

(* Mutant: create does not look.                                           *)
StatNothing(a) ==
  /\ MayStart(a) /\ CreatorAt(a, "start", "openRequest")
  /\ UNCHANGED <<seen, reading, supVars, fileVars>>

(* The check for the name, before the guest agent is built.                *)
Stat(a) ==
  /\ MayStart(a)
  /\ CreatorAt(a, "start", IF path["state"] = 0 THEN "openRequest" ELSE "failed")
  /\ UNCHANGED <<seen, reading, supVars, fileVars>>

(* Mutant: a request file that is there already is not replaced.           *)
OpenRequestKept(a) ==
  /\ CreatorAt(a, "openRequest", IF reqFile = Absent THEN "writeRequest" ELSE "spawn")
  /\ reqFile' = (IF reqFile = Absent THEN Empty ELSE reqFile)
  /\ UNCHANGED <<seen, reading, supVars, path, content>>

(* os.WriteFile: the file is emptied, then written.                        *)
OpenRequest(a) ==
  /\ \/ CreatorAt(a, "openRequest", "writeRequest") /\ reqFile' = Empty
     \/ CreatorAt(a, "openRequest", "failed") /\ UNCHANGED reqFile
  /\ UNCHANGED <<seen, reading, supVars, path, content>>
WriteRequest(a) ==
  /\ \/ CreatorAt(a, "writeRequest", "spawn") /\ reqFile' = IF reqFile = Absent THEN Absent ELSE a
     \/ CreatorAt(a, "writeRequest", "failed") /\ UNCHANGED reqFile
  /\ UNCHANGED <<seen, reading, supVars, path, content>>

Spawn(a) ==
  /\ \/ CreatorAt(a, "spawn", "wait") /\ sup' = [sup EXCEPT ![a] = "readRequest"]
     \/ CreatorAt(a, "spawn", "failed") /\ UNCHANGED sup
  /\ UNCHANGED <<seen, reading, step, request, writing, vm, named, fileVars>>

(* ReadState opens the file and reads it.                                  *)
Opens(r) ==
  /\ reading[r] = 0 /\ path["state"] # 0
  /\ reading' = [reading EXCEPT ![r] = path["state"]]
  /\ UNCHANGED <<creator, seen, supVars, fileVars>>
Reads(r) ==
  /\ reading[r] # 0 /\ reading' = [reading EXCEPT ![r] = 0]
  /\ seen' = [seen EXCEPT ![r] = content[reading[r]]]
  /\ UNCHANGED <<supVars, fileVars>>

(* waitForSandboxRunning: an error or another status is tried again, for   *)
(* 90 s.                                                                   *)
OpenState(a) == creator[a] = "wait" /\ Opens(a)
ReadState(a) ==
  /\ Reads(a)
  /\ CreatorAt(a, "wait", IF content[reading[a]].status = "running" THEN "created" ELSE "wait")
GiveUp(a) ==
  /\ reading[a] = 0 /\ CreatorAt(a, "wait", "failed")
  /\ UNCHANGED <<seen, reading, supVars, fileVars>>

Create(a) == \/ Stat(a) \/ OpenRequest(a) \/ WriteRequest(a) \/ Spawn(a)
             \/ OpenState(a) \/ ReadState(a) \/ GiveUp(a)

(* exec and stop read the state at any time, and again.                    *)
CommandOpens == Opens(Command)
CommandReads == Reads(Command) /\ UNCHANGED creator

---------------------------------------------------------------------------
(* The supervisor.                                                         *)

SupAt(a, at, to) ==
  sup[a] = at /\ sup' = [sup EXCEPT ![a] = to] /\ UNCHANGED <<createVars, named>>

(* No request, or one that cannot be parsed, is the end.                   *)
ReadRequest(a) ==
  LET found == reqFile \in Attempts IN
    /\ SupAt(a, "readRequest", IF found THEN "removeRequest" ELSE "gone")
    /\ request' = IF found THEN [request EXCEPT ![a] = reqFile] ELSE request
    /\ UNCHANGED <<step, writing, vm, fileVars>>
RemoveRequest(a) ==
  /\ SupAt(a, "removeRequest", "launch") /\ reqFile' = Absent
  /\ UNCHANGED <<step, request, writing, vm, path, content>>

(* Everything up to machine.Start, which may fail before or after the VM   *)
(* runs.                                                                   *)
Launch(a) ==
  /\ \/ SupAt(a, "launch", "writeRunning") /\ vm' = [vm EXCEPT ![a] = "running"]
     \/ SupAt(a, "launch", "cleanup") /\ \E v \in {"none", "running"} : vm' = [vm EXCEPT ![a] = v]
  /\ UNCHANGED <<step, request, writing, fileVars>>

(* WriteState: os.WriteFile of the temporary file, then the rename.        *)
Writes == {"writeRunning", "writeStopped", "rewriteStopped"}
StepTo(a, from, to) ==
  step[a] = from /\ step' = [step EXCEPT ![a] = to] /\ UNCHANGED <<createVars, request, vm>>

(* An inode that is at the path is emptied, otherwise there is a new one.  *)
OpenAt(a, p) ==
  LET inode == IF path[p] = 0 THEN Len(content) + 1 ELSE path[p] IN
    /\ content' = IF path[p] = 0 THEN Append(content, Torn) ELSE [content EXCEPT ![inode] = Torn]
    /\ path' = [path EXCEPT ![p] = inode] /\ writing' = [writing EXCEPT ![a] = inode]

(* Mutant: the state file is written in place.                             *)
OpenInPlace(a) ==
  /\ sup[a] \in Writes /\ StepTo(a, "open", "write") /\ OpenAt(a, "state")
  /\ UNCHANGED <<sup, named, reqFile>>

OpenTmp(a) ==
  /\ sup[a] \in Writes /\ StepTo(a, "open", "write") /\ OpenAt(a, "tmp")
  /\ UNCHANGED <<sup, named, reqFile>>

(* Mutant: the second write of the end has the status of the first state.  *)
StatusOfStart(a) == IF sup[a] = "writeStopped" THEN "stopped" ELSE "running"

Status(a) == IF sup[a] = "writeRunning" THEN "running" ELSE "stopped"

WriteTmp(a) ==
  /\ sup[a] \in Writes /\ StepTo(a, "write", "rename")
  /\ content' = [content EXCEPT ![writing[a]] = State(request[a], a, Status(a))]
  /\ writing' = [writing EXCEPT ![a] = 0] /\ UNCHANGED <<sup, named, reqFile, path>>

AfterWrite(a, err) ==
  CASE sup[a] = "writeRunning"   -> IF err THEN "cleanup" ELSE "up"
    [] sup[a] = "writeStopped"   -> "report"
    [] sup[a] = "rewriteStopped" -> "cleanup"

(* The temporary file cannot be opened, or not be written in full.         *)
WriteFails(a) ==
  /\ sup[a] \in Writes /\ step[a] \in {"open", "write"} /\ step' = [step EXCEPT ![a] = "open"]
  /\ sup' = [sup EXCEPT ![a] = AfterWrite(a, TRUE)] /\ writing' = [writing EXCEPT ![a] = 0]
  /\ UNCHANGED <<createVars, request, vm, named, fileVars>>

(* Mutant: the supervisor takes the file for open after the rename.        *)
RenameStaysOpen(a) ==
  /\ sup[a] \in Writes /\ StepTo(a, "rename", "open") /\ path["tmp"] # 0
  /\ sup' = [sup EXCEPT ![a] = AfterWrite(a, FALSE)]
  /\ path' = [tmp |-> 0, state |-> path["tmp"]] /\ writing' = [writing EXCEPT ![a] = path["tmp"]]
  /\ UNCHANGED <<named, reqFile, content>>

(* Another supervisor may have renamed the temporary file away: an error   *)
(* too, which only the first of the three calls heeds.                     *)
Rename(a) ==
  /\ sup[a] \in Writes /\ StepTo(a, "rename", "open")
  /\ sup' = [sup EXCEPT ![a] = AfterWrite(a, path["tmp"] = 0)]
  /\ path' = IF path["tmp"] = 0 THEN path ELSE [tmp |-> 0, state |-> path["tmp"]]
  /\ named' = IF path["tmp"] = 0 THEN named ELSE named \cup {a}
  /\ UNCHANGED <<writing, reqFile, content>>

(* An insert may fail while the VM runs, and at the end.                   *)
Up(a) ==
  /\ \/ SupAt(a, "up", "cleanup") /\ UNCHANGED vm
     \/ SupAt(a, "up", "writeStopped") /\ vm' = [vm EXCEPT ![a] = "exited"]
     \/ SupAt(a, "up", "writeStopped") /\ UNCHANGED vm  \* it outlives its grace period
  /\ UNCHANGED <<step, request, writing, fileVars>>
Report(a) ==
  /\ SupAt(a, "report", "rewriteStopped") \/ SupAt(a, "report", "cleanup")
  /\ UNCHANGED <<step, request, writing, vm, fileVars>>

(* The deferred function: StopVMM, and the workspace is removed.           *)
Cleanup(a) ==
  /\ SupAt(a, "cleanup", "gone") /\ vm' = [vm EXCEPT ![a] = IF @ = "running" THEN "exited" ELSE @]
  /\ UNCHANGED <<step, request, writing, fileVars>>

(* The process is killed: its files and its VM stay as they are.           *)
SupervisorKilled(a) ==
  /\ sup[a] \notin {"none", "gone"} /\ sup' = [sup EXCEPT ![a] = "gone"]
  /\ step' = [step EXCEPT ![a] = "open"] /\ writing' = [writing EXCEPT ![a] = 0]
  /\ UNCHANGED <<createVars, request, vm, named, fileVars>>

SupervisorStep(a) ==
  \/ ReadRequest(a) \/ RemoveRequest(a) \/ Launch(a) \/ OpenTmp(a) \/ WriteTmp(a)
  \/ WriteFails(a) \/ Rename(a) \/ Up(a) \/ Report(a) \/ Cleanup(a) \/ SupervisorKilled(a)

AllEnded ==
  /\ \A a \in Attempts : Ended(a) /\ sup[a] \in {"none", "gone"}
  /\ UNCHANGED filesVars

FilesNext ==
  \/ \E a \in Attempts : Create(a) \/ SupervisorStep(a)
  \/ CommandOpens \/ CommandReads \/ AllEnded

FilesSpec == FilesInit /\ [][FilesNext]_filesVars

---------------------------------------------------------------------------
(* Correctness.                                                            *)

FilesTypeOK ==
  /\ \A a \in Attempts :
       /\ creator[a] \in {"start", "openRequest", "writeRequest", "spawn", "wait", "created",
                          "failed"}
       /\ sup[a] \in Writes \cup {"none", "readRequest", "removeRequest", "launch", "up", "report",
                                  "cleanup", "gone"}
       /\ writing[a] \in {0} \cup DOMAIN content /\ (writing[a] # 0 <=> step[a] = "write")
       /\ sup[a] \notin Writes => step[a] = "open"
       /\ request[a] \in {0} \cup Attempts /\ vm[a] \in {"none", "running", "exited"}
  /\ named \subseteq Attempts /\ reqFile \in {Absent, Empty} \cup Attempts
  /\ \A p \in {"tmp", "state"} : path[p] \in {0} \cup DOMAIN content
  /\ \A r \in Readers : reading[r] \in {0} \cup DOMAIN content

(* Whoever opens the state file finds a whole state in it, whatever the    *)
(* supervisor does between the opening and the reading, when a supervisor  *)
(* was killed in the middle of WriteState too.                             *)
StateWhole ==
  \A i \in {path["state"]} \cup {reading[r] : r \in Readers} : i # 0 => content[i] # Torn

(* `exec` and `stop` read the sandbox state file and talk to the running   *)
(* VM: a running VM whose supervisor has written its state is the one that *)
(* the state file names, also after its supervisor was killed.             *)
VmIsNamed ==
  \A a \in named : vm[a] = "running" =>
      path["state"] # 0 /\ content[path["state"]].pid = a

(* A create that succeeds reports the run it asked for, under its own      *)
(* supervisor, whatever earlier attempts left in the files.                *)
CreatedIsOwn ==
  \A a \in Attempts : creator[a] = "created" => seen[a] = State(a, a, "running")

(* A command that has seen the sandbox stopped never sees it running       *)
(* again, and no two commands see states of two runs.                      *)
StoppedForGood ==
  [][\A r \in Readers : seen[r].status = "stopped" => seen'[r] = seen[r]]_filesVars
OneRunSeen ==
  \A r, q \in Readers : seen[r] # None /\ seen[q] # None => seen[r].run = seen[q].run

(* WriteState and ReadState, of three and two system calls, implement a    *)
(* register that is written and read atomically: what a reader gets is the *)
(* state at the moment it opened the file, and the states are those of one *)
(* run, which never runs again once it has stopped.                        *)
Held      == IF path["state"] = 0 THEN None ELSE content[path["state"]]
BeingRead == [r \in Readers |-> IF reading[r] = 0 THEN None ELSE content[reading[r]]]

Register == INSTANCE StateRegister WITH
  Runs <- Attempts, Nothing <- None, value <- Held, pending <- BeingRead, result <- seen
RegisterImplements == Register!RegisterSpec
=============================================================================
