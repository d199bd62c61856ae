--------------------------- MODULE SandboxFilesInv ---------------------------
(***************************************************************************)
(* The inductive invariant of SandboxFiles when each attempt starts after  *)
(* the supervisor before it is gone or has written its state: at most one  *)
(* attempt then writes files.  Without that condition it does not hold,    *)
(* and neither do the properties (see the run create_retry).               *)
(***************************************************************************)
EXTENDS SandboxFiles

Statements  == {"start", "openRequest", "writeRequest", "spawn", "wait", "created", "failed"}
SupervisorStatements ==
  Writes \cup {"none", "readRequest", "removeRequest", "launch", "up", "report", "cleanup", "gone"}
States == [run: {0} \cup Attempts, pid: {0} \cup Attempts,
           status: {"none", "torn", "running", "stopped"}]

(* The types, with those of the functions' domains.                        *)
FilesTyped ==
  /\ creator \in [Attempts -> Statements] /\ seen \in [Readers -> States]
  /\ reading \in [Readers -> Nat] /\ writing \in [Attempts -> Nat]
  /\ sup \in [Attempts -> SupervisorStatements]
  /\ step \in [Attempts -> {"open", "write", "rename"}]
  /\ request \in [Attempts -> {0} \cup Attempts]
  /\ vm \in [Attempts -> {"none", "running", "exited"}]
  /\ named \subseteq Attempts /\ reqFile \in {Absent, Empty} \cup Attempts
  /\ path \in [{"tmp", "state"} -> Nat] /\ content \in Seq(States)

InodesTyped ==
  /\ \A p \in {"tmp", "state"} : path[p] \in {0} \cup DOMAIN content
  /\ \A r \in Readers : reading[r] \in {0} \cup DOMAIN content
  /\ \A a \in Attempts : writing[a] \in {0} \cup DOMAIN content

StepInv ==
  \A a \in Attempts :
    /\ writing[a] # 0 <=> step[a] = "write"
    /\ sup[a] \notin Writes => step[a] = "open"

(* An attempt whose create writes the request, or whose supervisor lives.  *)
Creating(a) == creator[a] \in {"openRequest", "writeRequest", "spawn"}
Lives(a)    == sup[a] \notin {"none", "gone"}
InPlay(a)   == Creating(a) \/ Lives(a)

(* The attempts run in their order, and one at a time.                     *)
OrderInv ==
  \A a \in Attempts : creator[a] # "start" =>
    \A b \in 1..a - 1 : Ended(b) /\ (path["state"] = 0 => ~Lives(b))

SpawnInv == \A a \in Attempts : Creating(a) \/ creator[a] = "start" => sup[a] = "none"

SingleInv == \A a, b \in Attempts : InPlay(a) /\ InPlay(b) => a = b

(* The request file holds the request of the attempt that is in play.      *)
RequestInv ==
  \A a \in Attempts :
    /\ creator[a] = "writeRequest" => reqFile = Empty
    /\ creator[a] = "spawn" \/ sup[a] = "readRequest" => reqFile = a
    /\ Lives(a) /\ sup[a] # "readRequest" => request[a] = a

(* The temporary file is neither the state file nor one that is being      *)
(* read, and the supervisor that is renaming it has written it.            *)
TmpInv ==
  /\ path["tmp"] # 0 => path["tmp"] # path["state"]
  /\ \A r \in Readers : reading[r] # 0 => reading[r] # path["tmp"]
  /\ \A a \in Attempts :
       /\ step[a] = "write" => writing[a] = path["tmp"]
       /\ step[a] = "rename" =>
            path["tmp"] # 0 /\ content[path["tmp"]] = State(a, a, Status(a))

(* The state file is of the one supervisor that has written it, which is   *)
(* the one whose create waits for it or that still runs.                   *)
Own(a) == {State(a, a, "running"), State(a, a, "stopped")}

NamedInv ==
  /\ path["state"] = 0 => named = {}
  /\ path["state"] # 0 => \E a \in Attempts : named = {a} /\ content[path["state"]] \in Own(a)
  /\ \A a \in Attempts : InPlay(a) \/ creator[a] = "wait" => named \subseteq {a}

(* A supervisor writes `running` once, and `stopped` after it.             *)
Begins == {"none", "readRequest", "removeRequest", "launch", "writeRunning"}
Goes   == {"up", "writeStopped", "report", "rewriteStopped"}

WroteInv ==
  \A a \in Attempts : (sup[a] \in Begins => a \notin named) /\ (sup[a] \in Goes => a \in named)

(* What a reader has open is a state of that supervisor, which a create    *)
(* that has succeeded has read.                                            *)
Open(r) == reading[r] # 0 => \E a \in Attempts : named = {a} /\ content[reading[r]] \in Own(a)

ReadInv ==
  /\ \A r \in Readers : Open(r)
  /\ \A a \in Attempts :
       /\ reading[a] # 0 => creator[a] = "wait"
       /\ creator[a] = "created" => seen[a] = State(a, a, "running")

FilesInv ==
  /\ FilesTyped /\ InodesTyped /\ StepInv
  /\ OrderInv /\ SpawnInv /\ SingleInv /\ RequestInv
  /\ TmpInv /\ NamedInv /\ WroteInv /\ ReadInv

(* What was read, or is being read, is the state in the register or one    *)
(* that was there before.                                                  *)
Behind(v) ==
  \/ v = None \/ v = Held
  \/ \E a \in Attempts : v = State(a, a, "running") /\ Held = State(a, a, "stopped")

RegisterInv ==
  \A r \in Readers :
    /\ Behind(seen[r]) /\ Behind(BeingRead[r])
    /\ seen[r].status = "stopped" => BeingRead[r] \in {None, seen[r]}
=============================================================================
