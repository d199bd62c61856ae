# rawtree-firecracker, specified

TLA+ modules that model the control path of this repository (the part of it
that starts, watches, controls and stops a Firecracker sandbox), TLC
configurations that check them on small instances, and proofs about them that
TLAPS checks for every value of the constants.

## 1. The system

A *provider* process starts a Firecracker microVM, records what happens to it
as rows of a RawTree table, lets other processes run commands in it over vsock,
and stops it. Everything is one Go binary.

| Component | Source | State it keeps | Operations |
| --- | --- | --- | --- |
| Supervisor | `internal/orchestrator.go:186-407` | handles of its goroutines, stop reason, exit code; workspace, state file, cgroup directory, VMM process | launch, wait (exit, timeout, signal), stop, drain, report, deferred cleanup |
| Hypervisor sampler | `internal/hypervisor_sampler.go` | goroutine, stop and done channels, mutex | sample at once and per tick; `Sample` from the supervisor; `Stop` |
| Metrics flusher | `internal/orchestrator.go:510-547` | goroutine, stop and done channels | flush per tick; stopper |
| Event collector | `internal/collector.go` | HTTP client, mutex | `Record`, `RecordMany` |
| Firecracker native events | `internal/firecracker_native.go` | none (reads two files) | batches of 100 rows |
| State file | `internal/state.go` | one JSON file per sandbox | write by temporary file and rename; read |
| Control commands | `rawtree_firecracker_observability.go`, `internal/control_linux.go` | none of their own | `create`, `exec`, `stop` |
| Exec session, host | `internal/control_linux.go:31-156` | one vsock connection | send the request and the input, receive frames, record events |
| Guest agent | `agent_linux.go` | one goroutine per connection, four per command | start the command, copy output, feed input, report the exit |
| One-shot launch | `internal/orchestrator.go:25-184` | as the supervisor, with no state file, marker or signal | launch, wait, report |
| Launch requests | `rawtree_firecracker_observability.go:391-417,501-570,632-663` | none | flags to request |
| Wrapper, scripts, SQL | `bin/`, `scripts/`, `sql/`, `examples/` | none in the running system | remote shell, image building, reports |

How they interact. `create` writes a request file, spawns the supervisor and
polls the state file, then the guest agent. `stop` reads the state file, writes
a *stop marker* into the workspace, sends SIGTERM to the supervisor's process
id, and polls the state file and that process id. `exec` reads the state file
and talks to the guest agent. The supervisor's signal context is also the
context of the Firecracker command, of `machine.Wait` and of the periodic
flush: one signal cancels all of them at once. The sampler and the supervisor
share a mutex, every goroutine shares the collector, and the supervisor closes
the stop channels of its two workers from three places.

What is hard in it:

* the supervisor's `select` races a VM exit, a timeout and a cancelled context,
  which a single stop command can make ready together, and the marker decides
  afterwards how the run is reported;
* every step of the launch can fail, and each failure returns through one
  deferred function that must undo what was done so far and no more;
* the files outlive the process, and other processes act on them at any time;
* an insert can fail although its row is in the table, and the deadline of an
  insert runs while it waits for the mutex behind another one;
* a second `create` of an id shares three files with the first one's supervisor;
* in an exec session four goroutines, two bounded directions of a connection
  and three pipes end in an order nobody controls.

`PROJECT.json` lists the hazards one by one, each at its line and with the
properties that would catch it.

What makes each component correct:

* Supervisor: a stop is reported as a stop; no VMM without a supervisor or a
  signal on its way; the lifecycle events come in order and nothing follows the
  last one; it ends when asked to, when its VM dies and at its timeout; no
  channel is closed twice.
* Control commands: a stop that waited and succeeded left nothing behind;
  concurrent stops agree; a signalled sandbox stops.
* Exec session: exit last, output in order, once, and complete; the exit code
  is the command's; one terminal event; an exit always reaches the host.
* One-shot launch: it ends, and says that Firecracker exited only when it did.
* Collector: a batch goes in whole, at most once, and before the call returns
  nil; a server that is fast enough makes no insert fail; no insert waits for
  ever.
* Native events: the lines in the order of the files, each once; `vm.stopped`
  says that all of them are there.
* State file: readers find a whole state; a running VM is the one it names.
* Sampler: a sample is about the process and the fields it is named for.
* Launch requests: which flags mean which request, at the edges of the numbers.

## 2. The modules

| Module | What it is |
| --- | --- |
| `SandboxLife` | the abstract specification of one sandbox run: what its table may hold and in which order, what its state file may say, and that it is not over while its VM is going to live; two constants say which failures a deployment has to live with |
| `Supervisor` | `RunSandboxSupervisor`, its goroutines, Firecracker, the files and the outside |
| `SupervisorInv` | the inductive invariant of `Supervisor` |
| `SupervisorProofs` | the theorems about `Supervisor` |
| `SandboxControl` | `create` and `stop` processes composed with `Supervisor` |
| `SandboxControlInv`, `SandboxControlProofs` | its inductive invariant, on top of the supervisor's, and its theorems |
| `OneShot` | `LaunchObservedSandbox`, with the actions it shares with `Supervisor` |
| `OneShotInv`, `OneShotProofs` | its inductive invariant and its theorems |
| `ExecSession` | an exec session, host and guest |
| `ExecSessionInv`, `ExecSessionProofs` | its inductive invariant and its theorems |
| `EventTable` | the abstract specification of the collector: what `RecordMany` promises about the table |
| `Collector` | `RecordMany`: the mutex, the deadline, the transport timeouts, the server |
| `EventStream` | the supervisor's main goroutine and its sampler as callers of `Collector`, down to the rows; the native log and metrics files |
| `EventStreamInv`, `EventStreamProofs` | the inductive invariant of the collector and its callers, and the theorems about both modules |
| `StateRegister` | the abstract specification of the state file: an atomic register that one run writes |
| `SandboxFiles` | the request file and the state file, with several creates of one id, supervisors that are killed, and another command that reads |
| `SandboxFilesInv`, `SandboxFilesProofs` | its inductive invariant and its theorems |
| `HypervisorSample` | one sample of `/proc` and the cgroup path it finds |
| `HypervisorSampleInv`, `HypervisorSampleProofs` | its inductive invariant and its theorems |
| `LaunchRequest` | flags to request, with three theorems |
| `MCSupervisor`, `MCSandboxControl`, `MCOneShot`, `MCExecSession`, `MCEventStream`, `MCHypervisorSample` | instances for TLC (`SandboxFiles` needs none) |

### Supervisor

`pc` is the next statement of the main goroutine. Each action of the main
goroutine is one call it makes with every outcome of the call; in between,
the sampler, the flusher, the goroutine on `machine.Wait`, Firecracker, other
processes and the kernel act at will. The variables are the code's:
`stopReason`, `exitCode`, `waitCh`, `mu`, and for the two workers `handles`
(which of `sampler` and `metricsStopper` are not nil), `closed` (whose stop
channel is closed) and `routine` (where the goroutine is; `"done"` is a closed
`doneCh`). `ctxDone` is the cancelled signal context. `vmm` is the Firecracker
process, `"killed"` when a signal is on its way. `workspace`, `stateFile` and
`cgroup` are the files; `workspace = "marked"` is the stop marker. The workspace
is removed in two steps, the entries and then the directory: a marker that is
written between them makes the second one fail, an error that is ignored, and
leaves a directory with the marker alone (`"remarked"`). `log` holds
the lifecycle rows; samples are not rows of it, because only their end matters
(`QuietAfterStopped`); the native rows are one entry.

Calls that are modelled by what they may return: `Record` (acknowledged, or
failed with the row in the table or not), `machine.Start` (also fails on a
cancelled context, with or without a process left behind), `machine.PID`,
`machine.StopVMM`, file writes, and `machine.Wait(ctx)`, which returns when its
context is cancelled *or* the VMM exited. `Faults` says which of the failures
may happen. `StopWorker` panics on a closed channel; a panic of any goroutine
ends the process with no deferred function of the main one.

Two durations are kept as an order of events only: the timeout and the grace
period of 5 s may expire at any moment. The two-second flush before `StopVMM`
is part of that action.

The refinement gives `SandboxLife` its two constants: `MayAbandon` (the
supervisor may be killed, or panic on a sampling interval that is not positive)
and `MayOutlive` (`StopVMM` may fail). With both false a run is over only when
its VM is condemned. What they concede is exactly that: with `MayAbandon` a run
may be over while its VM lives, with `MayOutlive` also a report may be complete
and the state file say `stopped` by then. The order of the events, and what the
state file says at each of them, concede nothing.

### SandboxControl

`EXTENDS Supervisor` and adds one `create` and a set of `stop` processes. The
supervisor's own steps are used as they are, from the moment it is spawned; its
outside actions `WriteMarker` and `Signal` are taken only by the stop
processes. The reading of the state with the `stop.requested` event, and
the signal with the `stop.sent` event, are one step each: nothing reads those
two rows. `CliFaults` are the failures of the commands' own calls: an insert, a
call of the host, the signal (`kill` with an error other than `ESRCH`). A stop
process has a list of ids (`left` is the part it has yet to finish) and runs
with `--wait` or without; the other sandboxes of its list are one step each,
which succeeds or ends the command, as the first error does in `runStop`.

### OneShot

`EXTENDS Supervisor`: the two functions repeat most of their statements, and
here share those actions. What differs has an action of its own: the reason a
run starts with, no state file, no stop marker, no signal context (before `Start` a
signal ends the process, as a crash does; from then on the SDK forwards it to
Firecracker, whose exit is `VmmExit`), an error of `machine.Wait` after `StopVMM`
that counts, and an order of reporting that goes straight from the workers to
the native events. In its refinement of `SandboxLife` the start of the workers
stands for the state file that it does not write.

### ExecSession

Host and guest with a bounded channel in each direction. The k-th chunk of a
stream is the number k. Everything the code does with an error is there: the
`Encode` errors that are ignored (the frame is gone), the `Decode` errors that
end the session, the `Record` errors that are ignored or returned. `cmd.Wait`
closes the agent's ends of the pipes and drops what they hold; a command may
leave a process behind that keeps the other ends open. Time is absent: the
45 s of the dial is its failure.

`events` holds the rows of the session as RawTree stores them, each with whether
the host was told. An insert that fails has been given up by the host (an error,
or 15 s without an answer) and is stored never or at any later moment, also
after the session: `late` has those that may still be stored, and `StoreLate`
stores one. `MaxLate` bounds how many there are at a time; one that finds no
room is an insert that is never stored.

A `stdin.Write` that blocks on a command that does not read is not modelled: it
ends when `cmd.Wait` closes the pipe.

### Collector and EventStream

A call of `RecordMany` is a record: where it is (waiting for the mutex, about
to send, sent), its rows, and two clocks in ticks, one since its context was
made (*before* the mutex) and one since the request was written. The server
stores a batch as a whole at some moment or never, also after its caller gave
up (`strays`). `health` is fixed at the start: a fast server answers within
`Service` ticks; on a poor one anything fails. A tick passes only when nothing
is due, which makes timers and a fast server punctual. `sync.Mutex` lets a
newcomer overtake each waiter once (`passedOver`): Go hands the mutex to a
waiter that has waited for 1 ms, far less than a tick.

`Collector!TableImplements` is the refinement: `EventTable` knows nothing of
mutexes, time or health.

`EventStream` adds who calls: the main goroutine from `vm.started` to
`vm.stopped`, with the final sample of `stopAndWait` under the sampler's mutex,
and the sampler's goroutine. The rows of the native files are
`<<file, line number>>`; a line is text, blank, or longer than the 64 KB of
`bufio.Scanner`. A Firecracker that outlives its grace period may append to the
file that is being read: one that survived its `StopVMM` or a signal after which
`machine.Wait` returned with its context. What `Supervisor` already has is left out: workspace,
state file, cgroup, the flusher, the failures of the launch.

### SandboxFiles

Paths, inodes and open files: `WriteState` is an open that truncates (or makes)
the temporary inode, a write and a rename; `ReadState` an open and a read;
`os.WriteFile` of the request an open and a write. An inode keeps its number, so
that a reader that opened the state file goes on reading what it opened. An
attempt is one `create` and the supervisor it spawns; a supervisor may be
killed at any step. `Start` says when the next attempt begins: when the create
before it has returned (`afterCreate`), or only when also its supervisor is
gone or has written its state (`afterSupervisor`). One more reader stands for
`exec` and `stop`; `seen` is what each reader read last. A `WriteState` may fail at
each of its calls, and leave the temporary file as it is by then.

### HypervisorSample and LaunchRequest

`HypervisorSample` reads the files in the order of the code while the process
becomes a zombie and is reaped. The line of `/proc/<pid>/stat` is a sequence
whose fields are the *names* that proc(5) gives them, so that an index that is
off by one shows in the result; a name is a sequence of any strings, of which
`"open"`, `"close"` and `"space"` are the characters that the line is made with. A cgroup path is a sequence of components;
`"a:b"` stands for a name with a colon, and `"..b"` for one that begins with
two dots. `filepath.Clean` is the recursive function
`CleanTo`, what is left of the first n components, with `Cleaned` for one of them.

`LaunchRequest` has no state. `MCSupervisor` and `MCOneShot` make their requests
with it, out of command lines: the runs start from requests that the parsers
let through.

## 3. The runs

| Run | Instance | What it shows |
| --- | --- | --- |
| `supervisor_orderly` | 3 requests (no timeout, a timeout without flusher, both; with and without cgroup), every fault but `crash` and `stopVmm` | the types, `StopReasonFaithful`, `NoOrphanedVmm`, and that the supervisor implements `SandboxLife` with neither concession |
| `supervisor_faults` | 3 requests, one with a sampling interval of 0; every fault; fairness | `NeverPanics`, `QuietAfterStopped`, `NoDeadlock`, that the supervisor implements `SandboxLife` whatever fails, and the liveness: `StopsWhenAsked`, `ExitNoticed`, `TimeoutBoundsRun` |
| `sandbox_control` | one create; two stops, one of two sandboxes with `--wait` and one without; inserts, host calls and signals of the commands may fail; fairness | `WaitedStopIsFinal`, `StopIsNoFailure`, `StopTakesEffect` |
| `one_shot` | 4 requests (with and without flusher and cgroup), every fault; fairness | a one-shot run implements `SandboxLife`; `ExitMeansExited`, `EveryRunEnds` |
| `exec_session` | 2 chunks of stdout, 1 of stderr, 2 of input, capacity 1 everywhere, exit codes 0 and 3, every fault, two failed inserts at a time that may be stored late; sessions with input or with telemetry; fairness | `NothingAfterExit`, `OutputInOrder`, `ExitCodeFaithful`, `OneTerminalEvent`, `InputInOrder`, and of the end of a session `NobodyStuck`, `WindsDown`, `ExitDelivered` |
| `event_stream` | two callers, deadline : header timeout = 3 : 2 (6 and 4 ticks of 2.5 s), batches of 2, four logs and three metrics files, two samples of the goroutine, one late line | `RecordBounded`, `NoFalseFailure`, `NativeInOrder`, `StoppedMeansComplete`, and that `Collector` implements `EventTable` |
| `sandbox_files` | three attempts for one id, each after the supervisor before it, and a command that reads at any time | `StateWhole`, `VmIsNamed`, `CreatedIsOwn`, and that the state file implements `StateRegister` |
| `hypervisor_sample` | names of up to two characters out of the parentheses, a space and a letter, cgroup paths of up to three components out of six | `SampleFaithful`, `CgroupInside` |
| `supervisor_marks_stopped` | expected violation | a failed `vm.started` insert leaves the state file saying `running` for ever |
| `supervisor_reads_after_exit` | expected violation | on a stop the native files are read while Firecracker runs |
| `exec_output_complete` | expected violation, no fault at all | `cmd.Wait` closes the pipes before the copiers emptied them: the end of the output is lost |
| `create_retry` | expected violation, two attempts, the second after the first create gave up | two VMs for one id, the state file names one |

Why the bounds are enough. The supervisor has no unbounded state: its log has
at most five entries by the order of its statements, and only the signs of the
intervals matter, so the requests cover every branch; the ticks of the workers
are unlimited. Two stops are the least that race each other, and a third one
meets the same absorbed signal and the same marker as the second. In the control run the
request has no timeout, so that only a stop (or the VM's own end) can end the
run; the race of a stop with the timeout is in `supervisor_orderly`. Its
flusher is off, the two workers being explored together in the other runs. In
a session, two chunks of a stream are needed to get an order wrong, one of the
other to interleave the two, and capacity 1 makes every writer wait; two chunks
of input, to swap them. A session of the run has input or events (`SessionInit`):
the goroutine that copies the input and the inserts share no state. The theorems
make no such choice.
Two late rows are the least that RawTree can store out of order, one of them the
terminal event or both of them rows before it.

In `event_stream` two callers are all that a supervisor has (the flusher does
not record). Both bounds of the collector are tight: with `2 * Deadline - 1`
`RecordBounded` fails, and so does `NoFalseFailure` with `<=` and a service of a
third of the deadline. A batch of 2 stands for 100: the logs reach a full batch
with and without a remainder, a blank line in it, and a scanner error after it.
In `sandbox_files` a third attempt is needed to meet the files of a killed
second one that itself met those of a first. In `hypervisor_sample` two
characters give every order of the parentheses, and three components a path
that goes down, up and up again.

Fairness. `Supervisor!Fairness` and its copies in `SandboxControl` and `OneShot` say that a
goroutine that can run does; that a goroutine in a `select` with several ready
cases takes each of them in the end (Go chooses at random: strong fairness of
the quit cases); that `sync.Mutex` starves nobody; that a flush and a sample
return (the flush has no deadline of its own, a hung VMM is not modelled); and
that a VMM that was killed dies. Nothing obliges a healthy VMM to exit, a
signal to come, or a command in the guest to end. In `ExecSession` the two
copiers have strong fairness when they send, because `encoderMu` hands each
waiting writer its turn at a full channel; the rest is weak, and RawTree need not
store what it is late with. `EventStream`,
`SandboxFiles` and `HypervisorSample` state no fairness: their properties are
safety, time included (`RecordBounded` is the bound on a wait, in ticks), and
TLC checks that they stop only where the program does.

## 4. What is proved

A theorem holds for every value of the constants that the named assumptions
allow; TLC evaluates those on every run. Each component has an invariant that is
inductive and from which its safety properties follow; none of the properties
is inductive itself, because they speak of an end and depend on the way there.
TLC checked every invariant on the instance of the component's run before it was
proved. Now that they are proved the runs leave them out; `Inv`, `CInv`, `OInv`, `EInv`,
`SInv`, `FilesInv` with `RegisterInv`, and `HInv` can be checked again by adding
their name to the cfg of their run, whose module knows them; with `SInv` the
run `event_stream` takes about three minutes.

### Supervisor

For every set of requests and every set of faults (`RequestsAssumption` and
`FaultsAssumption` are types):

| Theorem | Statement |
| --- | --- |
| `Invariance` | `Spec => []Inv` |
| `TypeCorrect` | `Spec => []TypeOK` |
| `StopReason` | `Spec => []StopReasonFaithful` |
| `NoOrphan` | `Spec => []NoOrphanedVmm` |
| `NoPanic` | `Spec => []NeverPanics` |
| `Quiet` | `Spec => []QuietAfterStopped` |
| `DeadlockFree` | `Spec => []NoDeadlock` |
| `Refinement` | `Spec => Implements`, the refinement of `SandboxLife` |

`VmmInv`: there is no VM before `Start`, one after it, and a condemned
one behind the deferred `StopVMM`. `PanicInv`: a worker whose handle is set
has an open channel, except between the close and the assignment of nil; this
is what makes the third of the three places that close it safe. `WorkersInv`: a
handle is nil only when its goroutine has returned. `StopInv`: whoever leaves
the waiting phase knows that the VM is condemned (`waitCh` delivers only after
an exit or a cancelled context, and the grace period comes after `StopVMM`), so
that a signal that hits a running VM comes before the marker is looked for; and
the marker, once written, stays until the workspace is being removed. `LogInv`: the last
event and the state file at each statement. `WaitInv`: who holds the sampler's
mutex, and that the stop channel of a goroutine which is being waited for is
closed. There is one lemma for each
conjunct (`TypeStep` ... `LogStep`) with one case for each action; `InvStep`
puts them together. The refinement (`LifeStep`) maps each action to a step
of `SandboxLife` or a stutter, by the same cases. It has no hypothesis on the
faults: what they take away is in the two constants of `SandboxLife`.

`NoDeadlock` is the safety half of the liveness properties: whenever the main
goroutine waits for the mutex or for a worker, that goroutine can go on (or its
process is gone), and the sampler in turn waits for the mutex of one who does
not wait for it.

### Control commands

For any number of stop processes, any lists of ids in which the sandbox occurs
once, and any failures of the commands and of the supervisor:

| Theorem | Statement |
| --- | --- |
| `ControlInvariance` | `CSpec => []CInv` |
| `CliTypeCorrect` | `CSpec => []CliTypeOK` |
| `WaitedStop` | `CSpec => []WaitedStopIsFinal`: the supervisor is gone, its VM condemned, its workspace gone or left with one marker |
| `StopNoFailure` | `CSpec => []StopIsNoFailure` |
| `Composition` | `CSpec => Spec`: a supervisor among the commands behaves as `Supervisor` says |
| `ControlledLife` | `CSpec => Implements /\ []NoDeadlock`, by `Composition` from the theorems of the supervisor |

`CInv` is `Inv`, of which every step lemma is used again, and three parts of its
own. `WorkspaceInv` and `EndInv` say what a state file that reads `stopped` tells
of the supervisor: its workers have been joined and its events recorded, so that
what is left is to return, and to return is to remove the workspace. `MarkTaken` says
what a stop relies on when it sends its signal: the workspace has a marker by
then, or its removal has begun.
`CommandInv`: what a stop has seen stays true while others act, and the signal
that strikes a running VM finds the marker. That last part holds because every
stop writes the marker before its own signal, and no other command removes it.

### Exec session

For every length of the streams, every capacity of pipes and connection, all
exit codes and every set of faults:

| Theorem | Statement |
| --- | --- |
| `SessionInvariance` | `Spec => []EInv` |
| `SessionTypeCorrect` | `Spec => []TypeOK`, the bounds of the buffers included |
| `LastFrame` | `Spec => []NothingAfterExit` |
| `OrderedOutput` | `Spec => []OutputInOrder` |
| `FaithfulExitCode` | `Spec => []ExitCodeFaithful` |
| `TerminalEvent` | `Spec => []OneTerminalEvent`: at most one terminal event, stored or late, and the true one; behind it only rows that were late |
| `OrderedInput` | `Spec => []InputInOrder` |
| `NeverStuck` | `Spec => []NobodyStuck` |
| `SessionWindsDown` | `Spec => WindsDown` |
| `AheadBounded` | `Spec => [](Ahead \in 0..ChannelCap + 13)` |

The heart of `EInv` is `FlowInv`: of each stream, what the host has written, what is
on its way (among the frames of the other stream), what the copier holds and
what the pipe holds are consecutive pieces of what the command wrote. It is
stated with two operators on the frames, `Consecutive` and `Reaches`, that have
lemmas for an append and for a head. Frames are lost only from some frame on: by
a reset, which loses the end of what is on its way, and after it, or after the
other end has closed, when an `Encode` fails unnoticed. `Reaches`
is therefore claimed while both ends are there, and `Consecutive` always. The input is the same the other way round, up to the close
of the command's stdin. `GoroutinesInv` orders the ends: the exit frame is sent
when both copiers are done. `ExitInv` says that the command
ends after the request has arrived, and where agent and copiers are before and after
`cmd.Wait` has closed the pipes. `AnswerInv` is about the terminal event: neither
the table nor `late` has one before the host is done (`Quiet`), and a host that is
done inserts nothing, so that what RawTree stores after that was late already.

The last three theorems are what can be proved of `ExitDelivered`. After the end
of a command somebody can always take a step (`NeverStuck`), and every step of
the host, the agent or a copier makes the number `Ahead` smaller, while the copiers
of the input leave it as it is (`SessionWindsDown`); `Ahead` is at most the
capacity of the connection and 13 (`AheadBounded`). Fairness, which gives those
who can step their turn, is all that separates them from `ExitDelivered`.

### One-shot launch

For every set of requests with positive limits (`OneShotRequests`, the checks of
`parseArgs`) and every set of faults:

| Theorem | Statement |
| --- | --- |
| `OneShotInvariance` | `OneShotSpec => []OInv` |
| `FaithfulReason` | `OneShotSpec => []ExitMeansExited` |
| `OneShotNoOrphan` | `OneShotSpec => []NoOrphanedVmm` |
| `OneShotQuiet` | `OneShotSpec => []QuietAfterStopped` |
| `OneShotDeadlockFree` | `OneShotSpec => []NoDeadlock` |
| `OneShotRefinement` | `OneShotSpec => OneShotImplements` |

`OInv` takes over `VmmInv`, `PanicInv`, `WorkersInv`, `StopInv` and `WaitInv`, with the step lemmas of
the supervisor for the actions that the two functions share. Its own parts are
`AloneInv` (nothing stops a one-shot run from outside) and `ReasonInv` (the reason
changes once, when the VM has exited).

### Collector and event stream

For every deadline, header timeout and service time, all contents of the native
files, every batch size and any number of samples and late lines:

| Theorem | Statement |
| --- | --- |
| `CallInvariance` | `StreamSpec => [](SharedInv /\ MainInv)` |
| `StreamTypeCorrect` | `StreamSpec => []StreamTypeOK` |
| `BoundedRecord` | `StreamSpec => []RecordBounded` |
| `FastServerNeverFails` | `StreamSpec => []NoFalseFailure` |
| `StreamInvariance` | `StreamSpec => []SInv` |
| `OrderedLines` | `StreamSpec => []NativeInOrder` |
| `CompleteRecord` | `StreamSpec => []StoppedMeansComplete` |
| `TableRefinement` | `StreamSpec => TableImplements`, the refinement of `EventTable` |

The bound on an insert (`BoundInv`): a caller waits for the call that holds the
mutex, and for one that overtakes it. The holder's age is bounded by its own
deadline counted from before the mutex, hence a waiter that was not overtaken is
never older than one deadline, and one that was never older than two. With a
server that answers in time (`FastBound`) each of these terms is a service time,
and three of them fit into a deadline exactly under the hypothesis of
`NoFalseFailure`.

The order of the lines (`StorableInv`): every batch that may still be stored, in the
call or astray after a failed one, *fits* the table: before each of its lines
the table and the batch have exactly the lines that precede it in the files.
Two such batches never differ as long as both hold native lines, because main
gives up after the first failure (`GaveUp`): the one astray is the last one. That
is what makes a late store harmless. Completeness follows from `CoverInv` (what
was scanned is stored or in the batch) and `AckInv` (main goes on only with an
acknowledged batch).

### State file

For any number of attempts:

| Theorem | Statement |
| --- | --- |
| `FilesTypeCorrect` | `FilesSpec => []FilesTypeOK`, whenever an attempt starts |
| `FilesInvariance` | `Start = "afterSupervisor"` implies `FilesSpec => []FilesInv` |
| `WholeState` | the same for `StateWhole` |
| `NamedVm` | the same for `VmIsNamed` |
| `OwnCreate` | the same for `CreatedIsOwn` |
| `RegisterRefinement` | the same for `RegisterImplements`, the refinement of `StateRegister` |
| `StoppedStays` | the same for `StoppedForGood`: who has seen `stopped` sees nothing else any more |
| `OneRun` | the same for `OneRunSeen`: all readers see the states of one run |

The hypothesis is the one without which the properties are false: the run
`create_retry` starts the second attempt earlier and finds two VMs. Under it, two
attempts are never both in play (`SingleInv`, by `OrderInv`), so that the request
file and the temporary file are of the one that is; `TmpInv` says that a rename
puts a whole state in place, and that no reader has the temporary inode open.
A supervisor may be killed at any of these steps.

The register changes its value at the rename, and a read gets the value of the
moment it opened the file, because no writer ever writes to an inode that is
open for reading (`TmpInv`). `WroteInv` says which supervisors have yet to
write `running` and which have, and `RegisterInv` that a reader is never ahead of the
file and at most one status behind it (`Behind`). The last two theorems follow
from these: they are why `stop --wait`, which polls, may trust what it has read.

### Sampler

For every set of names (`NamesAssumption`: sequences of strings) and of paths:

| Theorem | Statement |
| --- | --- |
| `SampleInvariance` | `Spec => []HInv` |
| `FaithfulSample` | `Spec => []SampleFaithful` |
| `CgroupBelowRoot` | `Spec => []CgroupInside` |

The lemma `LineParsed` is about `parseProcStat` alone: from the first opening to the
last closing parenthesis lies exactly the name, whatever it contains, as no
field behind it has a parenthesis.

`CgroupBelowRoot` is about paths of every length, and `filepath.Clean` is a
recursion over the path. The induction theorems of the library take an operator
as parameter, which these provers cannot instantiate; the lemma `Induction` is
therefore stated for a *set* of numbers, from the fact that a set of numbers has
a least element. `Cleaned` is shown to leave no `..`, as the path it is
given is rooted.

### Launch requests

For every unit of time and every word size:

| Theorem | Statement |
| --- | --- |
| `RequestsTyped` | a request of `create` has the type that `Supervisor` assumes, one of a one-shot launch the signs that `OneShot` assumes |
| `LifetimeLimited` | there is a lifetime limit exactly when `--timeout` is at least one millisecond |
| `VsockReaches` | there is a vsock device exactly when neither number is a multiple of 2^32; numbers that fit arrive unchanged |

### What the proofs found in the models

The instances of TLC hid assumptions that the theorems need and that are now
stated: the sampler takes at least one sample (`MaxSamples` is positive), a
missing file has no lines, a server that is fast enough also answers before the
header timeout (`AnswersInTime`), a list of ids names the sandbox once
(`StoppersAssumption`). Two invariants were not inductive as first written: in an exec
session nothing may have been sent before the dial (`RequestInv`), and in the
event stream the place in the log must be at the length that was seen when the
metrics file is opened (`FileInv`).

### Model-checked only

* Liveness: `StopsWhenAsked`, `ExitNoticed`, `TimeoutBoundsRun`, `StopTakesEffect`,
  `EveryRunEnds`, `ExitDelivered`. They rest on fairness, and the prover does not
  handle `ENABLED`. What of them is a matter of safety is proved: nobody waits for
  ever (`DeadlockFree`, `OneShotDeadlockFree`, `NeverStuck`), and a session has only
  so many steps left (`SessionWindsDown`, `AheadBounded`).
* The expected violations, by their nature.

## 5. Where code and documents disagree

1. `stop --wait` promises "Wait for the supervisor to drain events and mark the
   sandbox stopped" (`rawtree_firecracker_observability.go:619`). A supervisor
   whose `vm.started` insert fails has written `running` and returns
   without writing `stopped`; a stop then waits out its 45 s.
2. "Supervisor waits for Firecracker to exit" (`README.md:271`), then reads its
   files. `machine.Wait` gets the signal context and returns when it is
   cancelled; the files are read while Firecracker may still be writing.
3. The guest control process "streams stdout/stderr frames back over vsock"
   (`README.md:263`). It calls `cmd.Wait` beside the readers of `StdoutPipe` and
   `StderrPipe`; `Wait` closes both when the command exits, and what was not yet
   read is lost, with exit code 0 and no error. `os/exec` documents that `Wait`
   must follow the reads.

4. "`exec` and `stop` are separate CLI calls that read the sandbox state file
   and talk to the running VM" (`README.md:458`), and `create` refuses an id
   whose state file exists. The file is written only when the VM runs. A
   `create` that gave up after its 90 s, while its supervisor still copies the
   root file system, can be run again: two supervisors then share
   `<id>.json.tmp` and `<id>.json`, and one of the two VMs is named nowhere.

Found on the way, with no property of their own: a crash of the supervisor
leaves the VM, the workspace and a state file that says `running`, and nothing
recovers them; two stops, or one stop of a VM that exits by itself, can leave a
workspace directory with a stop marker in it, although both succeed
(`WaitedStopIsFinal` allows for it); the rows of an exec session may follow its
terminal event, when their inserts timed out (`OneTerminalEvent` allows for that); a cgroup directory can be left behind; `create` accepts a
sampling interval of 0, which panics the supervisor and leaves its VM.

## 6. Not modelled

* `create --connect`, and the exec inside `waitForGuestAgent`, which is one step
  of `SandboxControl`; its context bounds the dial only, so that a guest that
  accepts and is silent keeps `create` waiting. There is no document to hold
  that against.
* Flag texts, defaults, metadata and the dry-run plan.
* The commands of the host that prepare the root file system, `bootArgs`,
  `guestMAC`, the Firecracker configuration, the enrichment of events, and
  what is parsed out of a native line or a key-value file: data.
* The end of a guest command whose host went away: the code does not signal it,
  and `ExecSession` lets it run on.
* The accept loop of the guest agent: its connections share nothing.
* A last line of a native file that Firecracker has written only in part: lines
  are appended whole.
* Process ids that are reused: the kernel may do so, and no code prevents it.
* A VMM that is alive and does not answer: the periodic flush has no deadline.
* When RawTree stores a late row of the supervisor: a failed insert of
  `Supervisor` is in the table at once or never. Such a row is the last one that
  the run inserts after the first failure, so that only the moment is left out;
  `Collector` with `EventStream`, and `ExecSession`, have it.
* The shell wrapper, the report generator, the SQL, the examples and the image
  script are outside the running system; the platform stubs return one error.

## 7. Plan

Done, in this order, the most important behaviour first: `SandboxLife`,
`Supervisor` with its proofs, `ExecSession`, `SandboxControl`, `OneShot`,
`EventTable` with `Collector` and `EventStream`, `SandboxFiles`,
`HypervisorSample`, `LaunchRequest`.

Every safety invariant and every refinement that the runs check is proved, and
so is their one other action property. Not done:

1. The liveness properties, for a prover that handles `ENABLED`.
2. `SandboxControl` in terms of `StateRegister`: it reads the status of the file
   in one step, which `RegisterRefinement` justifies, but no theorem composes the
   two modules.
3. What section 6 leaves out, should the code come to depend on it.
