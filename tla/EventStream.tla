----------------------------- MODULE EventStream -----------------------------
(***************************************************************************)
(* What a supervisor records from vm.started on: RunSandboxSupervisor      *)
(* (main), the goroutine of its HypervisorSampler, and Collector between   *)
(* them, down to the rows of the table.  At the end main reads the log and *)
(* the metrics file of Firecracker line by line and inserts the lines in   *)
(* batches (internal/firecracker_native.go), while a Firecracker that      *)
(* outlived its grace period may still write.  Everything else the         *)
(* supervisor does is in module Supervisor.                                *)
(***************************************************************************)
EXTENDS Collector

CONSTANTS
  BatchSize,   \* lines in a full batch (100)
  Logs,        \* what the log may be when it is opened: [kind, lines]
  Metrics,     \* and the metrics file
  MaxSamples,  \* bound: samples of the goroutine
  MaxAppends   \* bound: lines that a lingering Firecracker writes

(* A file is missing, cannot be opened or has lines; a line is blank or    *)
(* not, or longer than the 64 KB that bufio.Scanner takes.                 *)
FileKinds == {"missing", "unreadable", "file"}
LineKinds == {"text", "blank", "long"}

ASSUME EventStreamAssumption ==
  /\ Callers = {"main", "sampler"} /\ BatchSize \in Nat \ {0}
  /\ Logs \cup Metrics \subseteq [kind: FileKinds, lines: Seq(LineKinds)]
  /\ \A f \in Logs \cup Metrics : f.kind = "missing" => f.lines = <<>>
  /\ MaxSamples \in Nat \ {0} /\ MaxAppends \in Nat

VARIABLES
  pc,         \* the statement of main
  routine,    \* the statement of the sampler
  samplerMu,  \* who holds the sampler's mutex, or "free"
  samples,    \* samples the goroutine began
  src,        \* the file main reads: "log" or "metrics"
  file,       \* source -> [kind, lines] on the host
  pos,        \* source -> lines that were scanned
  batch,      \* the scanned lines that were not recorded
  lingering,  \* Firecracker runs on and may write
  opened      \* ghost: source -> lines that were there when it was opened

mainVars == <<src, file, pos, batch, lingering, opened>>
streamVars == <<collectorVars, pc, routine, samplerMu, samples, mainVars>>

Sources == {"log", "metrics"}
EmptyFile == [kind |-> "missing", lines |-> <<>>]

(* The sampler's goroutine was started before the first insert.            *)
StreamInit ==
  /\ CollectorInit /\ pc = "vmStarted" /\ routine = "lock" /\ samplerMu = "free" /\ samples = 0
  /\ src = "log" /\ file = [s \in Sources |-> EmptyFile] /\ pos = [s \in Sources |-> 0]
  /\ batch = <<>> /\ lingering = FALSE /\ opened = [s \in Sources |-> 0]

---------------------------------------------------------------------------
(* The sampler.  Sample holds the sampler's mutex during its insert, whose *)
(* error is ignored.                                                       *)

SamplerLock ==
  /\ routine = "lock" /\ samplerMu = "free" /\ samplerMu' = "sampler" /\ routine' = "insert"
  /\ samples' = samples + 1 /\ UNCHANGED <<collectorVars, pc, mainVars>>

SamplerBegin ==
  /\ routine = "insert" /\ Begin("sampler", <<<<"sample", samples>>>>)
  /\ UNCHANGED <<pc, routine, samplerMu, samples, mainVars>>

SamplerTake ==
  /\ routine = "insert" /\ Take("sampler") /\ routine' = "select" /\ samplerMu' = "free"
  /\ UNCHANGED <<pc, samples, mainVars>>

(* The ticker is chosen or the stop, when both are ready either.           *)
SamplerTicks ==
  /\ routine = "select" /\ samples < MaxSamples /\ routine' = "lock"
  /\ UNCHANGED <<collectorVars, pc, samplerMu, samples, mainVars>>

(* Its stop channel is closed by main on its way to the files, and by the  *)
(* deferred function.                                                      *)
StopClosed == pc \notin {"vmStarted", "running", "lockSample", "finalSample"}

SamplerQuits ==
  /\ routine = "select" /\ StopClosed /\ routine' = "done"
  /\ UNCHANGED <<collectorVars, pc, samplerMu, samples, mainVars>>

SamplerStep == SamplerLock \/ SamplerBegin \/ SamplerTake \/ SamplerTicks \/ SamplerQuits

---------------------------------------------------------------------------
(* Main.                                                                   *)

(* One insert at a statement, and where its result leads.                  *)
Insert(at, rows) ==
  /\ pc = at /\ Begin("main", rows) /\ UNCHANGED <<pc, routine, samplerMu, samples, mainVars>>
Inserted(at, ok, failed) ==
  /\ pc = at /\ Take("main") /\ pc' = IF call["main"].at = "ok" THEN ok ELSE failed

VmStarted ==
  \/ Insert("vmStarted", <<<<"vm.started", 0>>>>)
  \/ /\ Inserted("vmStarted", "running", "ended")
     /\ UNCHANGED <<routine, samplerMu, samples, mainVars>>

Goto(at, to) == pc = at /\ pc' = to /\ UNCHANGED <<collectorVars, routine, samples>>

(* The VM exits, or a timeout or a signal leads to stopAndWait.  A signal  *)
(* may look like an exit, with Firecracker still there: machine.Wait       *)
(* returns also when its context is cancelled.                             *)
Running ==
  /\ \/ Goto("running", "join") /\ lingering' \in BOOLEAN
     \/ Goto("running", "lockSample") /\ UNCHANGED lingering
  /\ UNCHANGED <<samplerMu, src, file, pos, batch, opened>>

LockSample ==
  /\ Goto("lockSample", "finalSample") /\ samplerMu = "free" /\ samplerMu' = "main"
  /\ UNCHANGED mainVars

(* Sample, then StopVMM, which a Firecracker may outlive.                  *)
FinalSample ==
  \/ Insert("finalSample", <<<<"finalSample", 0>>>>)
  \/ /\ Inserted("finalSample", "join", "join") /\ samplerMu' = "free"
     /\ lingering' \in BOOLEAN
     /\ UNCHANGED <<routine, samples, src, file, pos, batch, opened>>

JoinSampler ==
  Goto("join", "open") /\ routine = "done" /\ UNCHANGED <<samplerMu, mainVars>>

---------------------------------------------------------------------------
(* EmitFirecrackerNativeEvents: emitFirecrackerLogs for the log, then      *)
(* emitFirecrackerMetrics, the same loop, for the metrics.                 *)

Lines == file[src].lines
AfterFile(s) == IF s = "log" THEN "open" ELSE "vmStopped"

(* A file that is not there is no error.                                   *)
Open(s) ==
  /\ \E f \in IF s = "log" THEN Logs ELSE Metrics :
       /\ file' = [file EXCEPT ![s] = f] /\ opened' = [opened EXCEPT ![s] = Len(f.lines)]
       /\ pc' = CASE f.kind = "missing"    -> AfterFile(s)
                  [] f.kind = "unreadable" -> "ended"
                  [] f.kind = "file"       -> "scan"
       /\ src' = IF f.kind = "missing" THEN "metrics" ELSE s
  /\ UNCHANGED <<pos, batch, lingering>>

OpenFile ==
  pc = "open" /\ Open(src) /\ UNCHANGED <<collectorVars, routine, samplerMu, samples>>

(* A full batch is recorded before the next line is scanned.  A line too   *)
(* long is the scanner's error: the pending lines are not recorded.        *)
ScanLine ==
  /\ pc = "scan" /\ Len(batch) < BatchSize /\ pos[src] < Len(Lines)
  /\ LET n == pos[src] + 1 IN
       /\ pos' = [pos EXCEPT ![src] = n]
       /\ batch' = IF Lines[n] = "text" THEN Append(batch, <<src, n>>) ELSE batch
       /\ pc' = IF Lines[n] = "long" THEN "ended" ELSE pc
  /\ UNCHANGED <<collectorVars, routine, samplerMu, samples, src, file, lingering, opened>>

(* Mutant: a recorded batch is not emptied.                                *)
FullBatchKept ==
  /\ Len(batch) = BatchSize
  /\ \/ Insert("scan", batch)
     \/ /\ Inserted("scan", "scan", "ended")
        /\ batch' = IF call["main"].at = "ok" THEN Tail(batch) ELSE batch
        /\ UNCHANGED <<routine, samplerMu, samples, src, file, pos, lingering, opened>>

FullBatch ==
  /\ Len(batch) = BatchSize
  /\ \/ Insert("scan", batch)
     \/ /\ Inserted("scan", "scan", "ended") /\ batch' = <<>>
        /\ UNCHANGED <<routine, samplerMu, samples, src, file, pos, lingering, opened>>

(* Mutant: the lines left at the end of the file are forgotten.            *)
EndOfFileDrops ==
  /\ pc = "scan" /\ Len(batch) < BatchSize /\ pos[src] = Len(Lines)
  /\ batch' = <<>> /\ pc' = AfterFile(src) /\ src' = "metrics"
  /\ UNCHANGED <<collectorVars, routine, samplerMu, samples, file, pos, lingering, opened>>

(* The lines left are the last batch; RecordMany returns at once for none. *)
EndOfFile ==
  /\ pc = "scan" /\ Len(batch) < BatchSize /\ pos[src] = Len(Lines)
  /\ pc' = (IF batch = <<>> THEN AfterFile(src) ELSE "last")
  /\ src' = (IF batch = <<>> THEN "metrics" ELSE src)
  /\ UNCHANGED <<collectorVars, routine, samplerMu, samples, file, pos, batch, lingering, opened>>

LastBatch ==
  \/ Insert("last", batch)
  \/ /\ Inserted("last", AfterFile(src), "ended") /\ src' = "metrics" /\ batch' = <<>>
     /\ UNCHANGED <<routine, samplerMu, samples, file, pos, lingering, opened>>

VmStopped ==
  \/ Insert("vmStopped", <<<<"vm.stopped", 0>>>>)
  \/ /\ Inserted("vmStopped", "ended", "ended")
     /\ UNCHANGED <<routine, samplerMu, samples, mainVars>>

Main ==
  \/ VmStarted \/ Running \/ LockSample \/ FinalSample \/ JoinSampler
  \/ OpenFile \/ ScanLine \/ FullBatch \/ EndOfFile \/ LastBatch \/ VmStopped

---------------------------------------------------------------------------
(* Firecracker writes a line to the file that is being read.               *)
FirecrackerWrites ==
  /\ lingering /\ pc \in {"scan", "last"} /\ Len(Lines) < opened[src] + MaxAppends
  /\ file' = [file EXCEPT ![src].lines = Append(@, "text")]
  /\ UNCHANGED <<collectorVars, pc, routine, samplerMu, samples, src, pos, batch, lingering,
                 opened>>

(* The collector's own steps, between the calls and the returns above.     *)
CollectorStep ==
  /\ (\E c \in Callers : Recording(c)) \/ StoreStray \/ Tick
  /\ UNCHANGED <<pc, routine, samplerMu, samples, mainVars>>

Terminated == pc = "ended" /\ routine = "done" /\ UNCHANGED streamVars

StreamNext == Main \/ SamplerStep \/ FirecrackerWrites \/ CollectorStep \/ Terminated

StreamSpec == StreamInit /\ [][StreamNext]_streamVars

---------------------------------------------------------------------------
(* Correctness.                                                            *)

StreamTypeOK ==
  /\ CollectorTypeOK
  /\ pc \in {"vmStarted", "running", "lockSample", "finalSample", "join", "open", "scan", "last",
             "vmStopped", "ended"}
  /\ routine \in {"lock", "insert", "select", "done"} /\ samples \in 0..MaxSamples
  /\ samplerMu = "sampler" <=> routine = "insert"
  /\ samplerMu = "main" <=> pc = "finalSample"
  /\ src \in Sources /\ \A s \in Sources : pos[s] \in 0..Len(file[s].lines)
  /\ Len(batch) <= BatchSize /\ lingering \in BOOLEAN

(* The lines of text among the first n of a file, as rows; those that were *)
(* scanned; and the rows that are in the table before the one at i.        *)
TextRows(s, n) == {<<s, i>> : i \in {k \in 1..n : file[s].lines[k] = "text"}}
Scanned        == TextRows("log", pos["log"]) \cup TextRows("metrics", pos["metrics"])
Before(i)      == {table[j] : j \in 1..(i - 1)}

(* The order of the files, the log first, and of the lines of each.        *)
Precedes(row, next) ==
  \/ row[1] = "log" /\ next[1] = "metrics"
  \/ row[1] = next[1] /\ row[2] < next[2]

(* The lines of Firecracker's files reach the table in the order of the    *)
(* files, each once and none left out before another: the lines before one *)
(* in the table are those before it in the files.  A batch whose insert    *)
(* failed, and that is stored late or never, is the last one.              *)
NativeInOrder ==
  \A i \in DOMAIN table : table[i][1] \in Sources =>
    /\ table[i] \in Scanned
    /\ Before(i) \cap Scanned = {row \in Scanned : Precedes(row, table[i])}

(* vm.stopped in the table means that the record of the run is complete:   *)
(* before it there are vm.started and every line that was in the files     *)
(* when they were opened, whatever inserts failed or came late.            *)
StoppedMeansComplete ==
  \A i \in DOMAIN table : table[i][1] = "vm.stopped" =>
    /\ <<"vm.started", 0>> \in Before(i)
    /\ \A s \in Sources : TextRows(s, opened[s]) \subseteq Before(i)
=============================================================================
