-------------------------- MODULE HypervisorSample --------------------------
(***************************************************************************)
(* One sample of internal/hypervisor_sampler.go, in the cgroup into which  *)
(* moveProcessToCgroup put the VMM: readHypervisorMetrics reads one file   *)
(* of /proc after the other while the process may exit and be reaped.      *)
(* Files and paths are sequences of the parts that the code tells apart;   *)
(* the number in a field of proc(5) is the name of that field.  The        *)
(* process id is not given away before the sample ends.                    *)
(***************************************************************************)
EXTENDS Integers, SequencesExt

CONSTANTS
  Comms,   \* names of the process, as sequences of characters
  Paths    \* values of --cgroup-path, as sequences of components

(* A name may hold any character, parentheses included; a path any name.   *)
ASSUME NamesAssumption == Comms \subseteq Seq(STRING) /\ Paths \subseteq Seq(STRING)

VARIABLES
  comm,    \* the name of the process
  asked,   \* --cgroup-path
  proc,    \* the process: "running", "zombie" or "gone"
  at,      \* the statement of the sample
  stat,    \* what parseProcStat returned
  parts,   \* part of the sample -> what was read of it
  result   \* "none", "success" or "failed"

vars == <<comm, asked, proc, at, stat, parts, result>>

---------------------------------------------------------------------------
(* normalizeCgroupPath.                                                    *)

(* Mutant: the path is taken as it is.                                     *)
CleanNot(path) == path

(* filepath.Clean of the rooted path, from one component to the next.      *)
Cleaned(done, c) ==
  CASE c \in {"", "."} -> done
    [] c = ".." -> IF done = <<>> THEN done ELSE Front(done)
    [] OTHER -> Append(done, c)
CleanTo(path) ==
  LET done[i \in 0..Len(path)] == IF i = 0 THEN <<>> ELSE Cleaned(done[i - 1], path[i])
  IN  done
Clean(path) == CleanTo(path)[Len(path)]

(* An empty path, `..` at its start (of a name, too), and /../ in it.      *)
Refused(path) ==
  LET clean == Clean(path) IN
    \/ clean = <<>>
    \/ Head(clean) \in {"..", "..b"}
    \/ \E i \in 2..Len(clean) - 1 : clean[i] = ".."

(* The line of /proc/<pid>/cgroup: the colons in a name are colons there.  *)
Colons(path)   == Cardinality({i \in DOMAIN path : path[i] = "a:b"})
CgroupPath     == IF Refused(asked) THEN <<>> ELSE Clean(asked)

(* readUnifiedCgroupPath: the line 0::<path> is found by its three parts.  *)
ReadCgroupPath == IF 3 + Colons(CgroupPath) = 3 THEN CgroupPath ELSE <<"not found">>

---------------------------------------------------------------------------
(* parseProcStat.                                                          *)

(* The line of proc(5).                                                    *)
StatFields ==
  <<IF proc = "running" THEN "S" ELSE "Z", "ppid", "pgrp", "session", "tty_nr", "tpgid", "flags",
    "minflt", "cminflt", "majflt", "cmajflt", "utime", "stime", "cutime", "cstime", "priority",
    "nice", "num_threads", "itrealvalue", "starttime", "vsize", "rss">>
StatLine == <<"pid", "space", "open">> \o comm \o <<"close", "space">> \o StatFields

Places(line, c) == {i \in DOMAIN line : line[i] = c}

(* Mutant: the name ends at the first closing parenthesis.                 *)
CommandEndFirst(line) == Min(Places(line, "close"))

CommandEnd(line) == Max(Places(line, "close"))

ParseProcStat(line) ==
  LET open == Min(Places(line, "open")) close == CommandEnd(line) IN
    [command |-> SubSeq(line, open + 1, close - 1), fields |-> SubSeq(line, close + 2, Len(line))]

(* Mutant: field numbers counted from one.                                 *)
FieldFromOne(fields, index) == fields[index]

Field(fields, index) == fields[index + 1]

(* readProcStat: the indices of the code.                                  *)
Stat(parsed) ==
  LET f(index) == Field(parsed.fields, index) IN
    [command |-> parsed.command, state |-> parsed.fields[1], parent_pid |-> f(1),
     minor_faults |-> f(7), major_faults |-> f(9), cpu_user_ticks |-> f(11),
     cpu_system_ticks |-> f(12), threads |-> f(17), start_time_ticks |-> f(19),
     vsize_bytes |-> f(20), rss_pages |-> f(21)]

---------------------------------------------------------------------------
(* The sample.                                                             *)

Init ==
  /\ comm \in Comms /\ asked \in Paths /\ proc = "running" /\ at = "stat"
  /\ stat = <<>> /\ parts = [p \in {"status", "io", "fd", "cgroup"} |-> <<>>] /\ result = "none"

(* Only the failure of this file is an error.                              *)
ReadStat ==
  /\ at = "stat"
  /\ IF proc = "gone" THEN at' = "end" /\ result' = "failed" /\ UNCHANGED stat
                      ELSE at' = "status" /\ stat' = Stat(ParseProcStat(StatLine)) /\ UNCHANGED result
  /\ UNCHANGED <<comm, asked, proc, parts>>

AfterPart == [status |-> "io", io |-> "fd", fd |-> "cgroup", cgroup |-> "end"]
Real(part) == IF part = "cgroup" THEN ReadCgroupPath ELSE <<part>>

(* Mutant: a part that cannot be read fails the sample.                    *)
ReadPartOrFail(part) ==
  /\ at = part /\ UNCHANGED <<comm, asked, proc, stat>>
  /\ \/ /\ proc # "gone" /\ at' = AfterPart[part]
        /\ parts' = [parts EXCEPT ![part] = Real(part)]
        /\ result' = IF part = "cgroup" THEN "success" ELSE result
     \/ proc # "running" /\ at' = "end" /\ result' = "failed" /\ UNCHANGED parts

(* The other files: what cannot be read, and what a zombie has no more,    *)
(* counts as zero.                                                         *)
ReadPart(part) ==
  /\ at = part /\ at' = AfterPart[part]
  /\ \/ proc # "gone"    /\ parts' = [parts EXCEPT ![part] = Real(part)]
     \/ proc # "running" /\ parts' = [parts EXCEPT ![part] = <<"zero">>]
  /\ result' = IF part = "cgroup" THEN "success" ELSE result
  /\ UNCHANGED <<comm, asked, proc, stat>>

(* The process exits; machine.Wait reaps it.                               *)
ProcessExits ==
  /\ \/ proc = "running" /\ proc' = "zombie"
     \/ proc = "zombie"  /\ proc' = "gone"
  /\ UNCHANGED <<comm, asked, at, stat, parts, result>>

Sampled == at = "end" /\ UNCHANGED vars

Next == ReadStat \/ (\E part \in DOMAIN AfterPart : ReadPart(part)) \/ ProcessExits \/ Sampled

Spec == Init /\ [][Next]_vars

---------------------------------------------------------------------------
(* Correctness.                                                            *)

(* The field of proc(5) that a figure of the sample is named for.          *)
Documented ==
  [parent_pid |-> "ppid", minor_faults |-> "minflt", major_faults |-> "majflt",
   cpu_user_ticks |-> "utime", cpu_system_ticks |-> "stime", threads |-> "num_threads",
   start_time_ticks |-> "starttime", vsize_bytes |-> "vsize", rss_pages |-> "rss"]

(* A sample that succeeds has the name of the process, whatever characters *)
(* it is made of, and every figure of it is the field that it is named     *)
(* for; a part of it is zero only for a process that has exited, and the   *)
(* cgroup is the one the process was moved to, if no name in its path has  *)
(* a colon.  A sample fails only for a process that is gone.               *)
SampleFaithful ==
  /\ result = "failed" => proc = "gone"
  /\ result = "success" =>
       /\ stat.command = comm /\ (stat.state = "Z" => proc # "running")
       /\ \A figure \in DOMAIN Documented : stat[figure] = Documented[figure]
       /\ proc = "running" =>
            /\ \A part \in {"status", "io", "fd"} : parts[part] = <<part>>
            /\ Colons(CgroupPath) = 0 => parts["cgroup"] = CgroupPath

(* The directory the process is moved to lies below the root of the cgroup *)
(* hierarchy and is not the root, however the path goes up and down.       *)
CgroupInside ==
  ~Refused(asked) => Clean(asked) # <<>> /\ ToSet(Clean(asked)) \cap {"", ".", ".."} = {}
=============================================================================
