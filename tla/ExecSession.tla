----------------------------- MODULE ExecSession -----------------------------
(***************************************************************************)
(* One exec session: ExecInSandbox on the host (internal/control_linux.go) *)
(* and, across a vsock connection, one connection of the guest agent       *)
(* (agent_linux.go) with the command it runs, the goroutines that copy the *)
(* command's output and the one that feeds its input.                      *)
(*                                                                         *)
(* The k-th chunk a command writes to a stream is the number k, and so is  *)
(* the k-th chunk of the host's input.  Frames are records in two bounded  *)
(* channels, up (host to guest) and down (guest to host).                  *)
(***************************************************************************)
EXTENDS Integers, Sequences, FiniteSets

CONSTANTS
  MaxChunks,  \* bound: chunks a command writes to each stream
  MaxInput,   \* bound: chunks of the host's standard input
  PipeCap,    \* bound: chunks a pipe of the command holds
  ChannelCap, \* bound: frames a direction of the connection holds
  MaxLate,    \* bound: failed inserts that RawTree may still store, at a time
  ExitCodes,  \* the exit codes of commands; -1 is a command killed by a signal
  Faults      \* what may fail: a subset of FaultKinds

(* rawtree: an insert; dial: the connection is never made; link: the       *)
(* connection breaks; start: the guest cannot start the command; wait: the *)
(* agent cannot learn how the command ended.                               *)
FaultKinds == {"rawtree", "dial", "link", "start", "wait"}

ASSUME BoundsAssumption ==
  /\ MaxChunks \in [{"stdout", "stderr"} -> Nat] /\ MaxInput \in Nat
  /\ PipeCap \in Nat \ {0} /\ ChannelCap \in Nat \ {0} /\ MaxLate \in Nat
ASSUME ExitCodesAssumption == ExitCodes \subseteq Int /\ 0 \in ExitCodes
ASSUME FaultsAssumption == Faults \subseteq FaultKinds

Streams == {"stdout", "stderr"}

VARIABLES
  options,   \* Interactive and SuppressTelemetry
  host,      \* the statement of ExecInSandbox
  result,    \* what it returns: an exit code, and whether the error is nil
  events,    \* the rows of the session in RawTree, sandbox.exec.* events, in the order
             \* in which it stored them; acked: the host was told that it did
  late,      \* the inserts that failed on the host and may still be stored
  delivered, \* the chunks written to the host's stdout and stderr
  input,     \* copyInteractiveInput: chunks sent, and its state
  link,      \* the connection: "none", "open" or "broken"
  up, down,  \* the frames on their way
  agent,     \* the statement of handleGuestAgentConnection and runGuestCommand
  cmd,       \* the command's process
  child,     \* a process the command left behind holds its output pipes
  written,   \* chunks written to each stream while the agent could read them
  pipe,      \* the chunks in each output pipe
  readable,  \* the agent's ends of the output pipes are open
  copier,    \* copyGuestCommandOutput of each stream
  held,      \* the chunk each copier has read and not sent
  feeder,    \* the goroutine that writes to the command's stdin
  fed        \* the chunks written to the command's stdin, and whether it is open

hostVars  == <<options, host, result, events, late, delivered, input>>
linkVars  == <<link, up, down>>
cmdVars   == <<cmd, child, written, pipe, readable>>
agentVars == <<agent, copier, held, feeder, fed>>
vars      == <<hostVars, linkVars, cmdVars, agentVars>>

NoResult == [code |-> 0, ok |-> FALSE]

Slots == 1..MaxLate

Init ==
  /\ options \in [interactive: BOOLEAN, suppress: BOOLEAN]
  /\ host = "recordStarted" /\ result = NoResult
  /\ events = <<>> /\ late = [k \in Slots |-> "none"]
  /\ delivered = [s \in Streams |-> <<>>]
  /\ input = [sent |-> 0, at |-> "off"]
  /\ link = "none" /\ up = <<>> /\ down = <<>>
  /\ agent = "decodeRequest"
  /\ cmd = [at |-> "none", code |-> 0] /\ child = FALSE
  /\ written = [s \in Streams |-> 0] /\ pipe = [s \in Streams |-> <<>>] /\ readable = FALSE
  /\ copier = [s \in Streams |-> "off"] /\ held = [s \in Streams |-> 0]
  /\ feeder = "off" /\ fed = [chunks |-> <<>>, open |-> FALSE]

HostDone   == host = "done"
AgentDone  == agent = "closed"

---------------------------------------------------------------------------
(* The connection.  A frame sent to an end that is closed or over a broken *)
(* link is lost without a word: both sides ignore the error of Encode.     *)

Heard(closedPeer) == link = "open" /\ ~closedPeer

SendUp(frame) ==
  \/ ~Heard(AgentDone) /\ UNCHANGED up
  \/ Heard(AgentDone) /\ Len(up) < ChannelCap /\ up' = Append(up, frame)

SendDown(frame) ==
  \/ ~Heard(HostDone) /\ UNCHANGED down
  \/ Heard(HostDone) /\ Len(down) < ChannelCap /\ down' = Append(down, frame)

Frame(type, stream, n) == [type |-> type, stream |-> stream, n |-> n]
Plain(type, n)  == Frame(type, "stdout", n)
Chunk(s, n)     == Frame("output", s, n)

(* The VM stops or the vsock connection is reset: what was on its way is   *)
(* lost from some frame on.                                                *)
BreakLink ==
  /\ "link" \in Faults /\ link = "open" /\ link' = "broken"
  /\ \E k \in 0..Len(down) : down' = SubSeq(down, 1, k)
  /\ up' = <<>>
  /\ UNCHANGED <<hostVars, cmdVars, agentVars>>

---------------------------------------------------------------------------
(* The host: ExecInSandbox.                                                *)

Return(code, ok) == host' = "done" /\ result' = [code |-> code, ok |-> ok]

(* Collector.Record: an insert that RawTree answers, and one that fails.   *)
(* It fails also when the 15 seconds for the answer are over, and nothing  *)
(* then tells whether and when the row is stored.                          *)
Row(type, acked) == [type |-> type, acked |-> acked]
Answered(type)   == events' = Append(events, Row(type, TRUE)) /\ UNCHANGED late
Unanswered(type) ==
  /\ "rawtree" \in Faults /\ UNCHANGED events
  /\ \/ UNCHANGED late
     \/ \E k \in Slots : late[k] = "none" /\ late' = [late EXCEPT ![k] = type]

(* Where the caller ignores the error.                                     *)
MayRecord(type) == Answered(type) \/ Unanswered(type)

(* RawTree stores a row whose insert the host gave up.                     *)
StoreLate ==
  /\ \E k \in Slots :
       /\ late[k] # "none" /\ late' = [late EXCEPT ![k] = "none"]
       /\ events' = Append(events, Row(late[k], FALSE))
  /\ UNCHANGED <<options, host, result, delivered, input, linkVars, cmdVars, agentVars>>

HostRecordStarted ==
  /\ host = "recordStarted"
  /\ \/ options.suppress /\ host' = "dial" /\ UNCHANGED <<events, late, result>>
     \/ ~options.suppress /\ Answered("started") /\ host' = "dial" /\ UNCHANGED result
     \/ ~options.suppress /\ Unanswered("started") /\ Return(1, FALSE)
  /\ UNCHANGED <<options, delivered, input, linkVars, cmdVars, agentVars>>

(* Where an error of the connection leads: recordExecFailed, unless        *)
(* telemetry is suppressed.                                                *)
Fail(code) ==
  IF options.suppress
  THEN Return(code, FALSE)
  ELSE host' = "recordFailed" /\ result' = [code |-> code, ok |-> FALSE]

HostDial ==
  /\ host = "dial"
  /\ \/ link' = "open" /\ host' = "sendRequest" /\ UNCHANGED result
     \/ "dial" \in Faults /\ UNCHANGED link /\ Fail(1)
  /\ UNCHANGED <<options, events, late, delivered, input, up, down, cmdVars, agentVars>>

HostSendRequest ==
  /\ host = "sendRequest"
  /\ \/ /\ link = "open" /\ SendUp(Plain("request", 0))
        /\ host' = "decode" /\ UNCHANGED result
        /\ input' = IF options.interactive THEN [input EXCEPT !.at = "reading"] ELSE input
     \/ link = "broken" /\ Fail(1) /\ UNCHANGED <<up, input>>
  /\ UNCHANGED <<options, events, late, delivered, link, down, cmdVars, agentVars>>

(* copyInteractiveInput runs beside the loop, to the end of the process.   *)
HostSendInput ==
  /\ input.at = "reading" /\ ~HostDone
  /\ \/ /\ input.sent < MaxInput
        /\ SendUp(Plain("stdin", input.sent + 1)) /\ input' = [input EXCEPT !.sent = @ + 1]
     \/ SendUp(Plain("stdin_eof", 0)) /\ input' = [input EXCEPT !.at = "done"]
  /\ UNCHANGED <<options, host, result, events, late, delivered, link, down, cmdVars, agentVars>>

(* Mutant: a dropped connection counts as the end of the command.          *)
HostDecodeErrorIgnored ==
  /\ host = "decode" /\ down = <<>> /\ (link = "broken" \/ AgentDone) /\ Return(0, TRUE)
  /\ UNCHANGED <<options, events, late, delivered, input, linkVars, cmdVars, agentVars>>

(* Decode fails when the stream ends: the link is broken or the agent      *)
(* closed its end, and no frame is left.                                   *)
HostDecodeError ==
  /\ host = "decode" /\ down = <<>> /\ (link = "broken" \/ AgentDone) /\ Fail(1)
  /\ UNCHANGED <<options, events, late, delivered, input, linkVars, cmdVars, agentVars>>

Receives(type) ==
  /\ host = "decode" /\ down # <<>> /\ Head(down).type = type /\ down' = Tail(down)
  /\ UNCHANGED <<options, input, link, up, cmdVars, agentVars>>

HostStartedFrame ==
  /\ Receives("started") /\ UNCHANGED <<host, result, delivered>>
  /\ IF options.suppress THEN UNCHANGED <<events, late>> ELSE MayRecord("process.started")

HostOutputFrame ==
  /\ Receives("output") /\ UNCHANGED <<host, result>>
  /\ LET frame == Head(down) IN
       delivered' = [delivered EXCEPT ![frame.stream] = Append(@, frame.n)]
  /\ IF options.suppress THEN UNCHANGED <<events, late>> ELSE MayRecord("output")

HostExitFrame ==
  /\ Receives("exit") /\ UNCHANGED <<events, late, delivered>>
  /\ IF options.suppress
     THEN Return(Head(down).n, TRUE)
     ELSE host' = "recordCompleted" /\ result' = [code |-> Head(down).n, ok |-> FALSE]

(* Mutant: an error frame has no exit code of its own.                     *)
HostErrorFrameCodeless ==
  /\ Receives("error") /\ UNCHANGED <<events, late, delivered>> /\ Fail(-1)

HostErrorFrame ==
  /\ Receives("error") /\ UNCHANGED <<events, late, delivered>>
  /\ Fail(IF Head(down).n # 0 THEN Head(down).n ELSE 1)

(* The error of the completed event is the caller's error.                 *)
HostRecordCompleted ==
  /\ host = "recordCompleted"
  /\ \/ Answered("completed") /\ Return(result.code, TRUE)
     \/ Unanswered("completed") /\ Return(result.code, FALSE)
  /\ UNCHANGED <<options, delivered, input, linkVars, cmdVars, agentVars>>

(* Mutant: the loop goes on after it recorded the failure.                 *)
HostRecordFailedResumes ==
  /\ host = "recordFailed" /\ MayRecord("failed") /\ host' = "decode" /\ UNCHANGED result
  /\ UNCHANGED <<options, delivered, input, linkVars, cmdVars, agentVars>>

HostRecordFailed ==
  /\ host = "recordFailed" /\ MayRecord("failed") /\ Return(result.code, FALSE)
  /\ UNCHANGED <<options, delivered, input, linkVars, cmdVars, agentVars>>

---------------------------------------------------------------------------
(* The guest agent: handleGuestAgentConnection and runGuestCommand.        *)

AgentDecodeRequest ==
  /\ agent = "decodeRequest"
  /\ \/ up # <<>> /\ up' = Tail(up) /\ agent' = "start"
     \/ up = <<>> /\ link = "broken" /\ UNCHANGED up /\ agent' = "closed"
  /\ UNCHANGED <<hostVars, link, down, cmdVars, copier, held, feeder, fed>>

AgentStart ==
  /\ agent = "start"
  /\ \/ /\ agent' = "sendStarted" /\ cmd' = [cmd EXCEPT !.at = "running"]
        /\ readable' = TRUE /\ fed' = [fed EXCEPT !.open = TRUE]
     \/ "start" \in Faults /\ agent' = "sendError" /\ UNCHANGED <<cmd, readable, fed>>
  /\ UNCHANGED <<hostVars, linkVars, child, written, pipe, copier, held, feeder>>

(* The started frame, then the two copiers and the feeder; a command that  *)
(* is not interactive has its stdin closed at once.                        *)
AgentSendStarted ==
  /\ agent = "sendStarted" /\ SendDown(Plain("started", 0))
  /\ agent' = "wait" /\ copier' = [s \in Streams |-> "reading"]
  /\ IF options.interactive
     THEN feeder' = "decoding" /\ UNCHANGED fed
     ELSE feeder' = "done" /\ fed' = [fed EXCEPT !.open = FALSE]
  /\ UNCHANGED <<hostVars, link, up, cmdVars, held>>

(* Mutant: runGuestCommand returns when the command exits.                 *)
AgentWaitAlone ==
  /\ agent = "wait" /\ cmd.at = "exited"
  /\ agent' = "sendExit" /\ readable' = FALSE
  /\ pipe' = [s \in Streams |-> <<>>] /\ fed' = [fed EXCEPT !.open = FALSE]
  /\ UNCHANGED <<hostVars, linkVars, cmd, child, written, copier, held, feeder>>

(* Mutant: the agent's ends of the output pipes are left open.             *)
AgentWaitLeavesPipes ==
  /\ agent = "wait" /\ cmd.at = "exited"
  /\ agent' = "outputWG" /\ fed' = [fed EXCEPT !.open = FALSE]
  /\ UNCHANGED <<hostVars, linkVars, cmdVars, copier, held, feeder>>

(* cmd.Wait: once the command exited it closes the agent's ends of the     *)
(* three pipes, whatever is still in them.                                 *)
AgentWait ==
  /\ agent = "wait" /\ cmd.at = "exited"
  /\ agent' = "outputWG" /\ readable' = FALSE
  /\ pipe' = [s \in Streams |-> <<>>] /\ fed' = [fed EXCEPT !.open = FALSE]
  /\ UNCHANGED <<hostVars, linkVars, cmd, child, written, copier, held, feeder>>

AgentOutputWG ==
  /\ agent = "outputWG" /\ \A s \in Streams : copier[s] = "done"
  /\ agent' \in {"sendExit"} \cup IF "wait" \in Faults THEN {"sendError"} ELSE {}
  /\ UNCHANGED <<hostVars, linkVars, cmdVars, copier, held, feeder, fed>>

(* Mutant: an exit status that is an error is reported as an exit with 0.  *)
AgentSendExitZero ==
  /\ agent = "sendExit" /\ SendDown(Plain("exit", 0)) /\ agent' = "closed"
  /\ UNCHANGED <<hostVars, link, up, cmdVars, copier, held, feeder, fed>>

(* The last frame; then the deferred conn.Close.                           *)
AgentSendExit ==
  /\ agent = "sendExit" /\ SendDown(Plain("exit", cmd.code)) /\ agent' = "closed"
  /\ UNCHANGED <<hostVars, link, up, cmdVars, copier, held, feeder, fed>>

ErrorCode == IF cmd.at = "none" THEN 127 ELSE 1

AgentSendError ==
  /\ agent = "sendError" /\ SendDown(Plain("error", ErrorCode)) /\ agent' = "closed"
  /\ UNCHANGED <<hostVars, link, up, cmdVars, copier, held, feeder, fed>>

CopierRead(s) ==
  /\ copier[s] = "reading" /\ readable /\ pipe[s] # <<>>
  /\ copier' = [copier EXCEPT ![s] = "sending"]
  /\ held' = [held EXCEPT ![s] = Head(pipe[s])]
  /\ pipe' = [pipe EXCEPT ![s] = Tail(@)]
  /\ UNCHANGED <<hostVars, linkVars, cmd, child, written, readable, agent, feeder, fed>>

(* Mutant: a copier that does not wait for its turn can send twice.        *)
CopierSendTwice(s) ==
  /\ copier[s] = "sending" /\ SendDown(Chunk(s, held[s]))
  /\ copier' \in {copier, [copier EXCEPT ![s] = "reading"]}
  /\ UNCHANGED <<hostVars, link, up, cmdVars, agent, held, feeder, fed>>

CopierSend(s) ==
  /\ copier[s] = "sending" /\ SendDown(Chunk(s, held[s]))
  /\ copier' = [copier EXCEPT ![s] = "reading"] /\ held' = [held EXCEPT ![s] = 0]
  /\ UNCHANGED <<hostVars, link, up, cmdVars, agent, feeder, fed>>

(* Mutant: a read fails only at the end of the stream, which a process the *)
(* command left behind can hold off for ever.                              *)
CopierEndAtEOF(s) ==
  /\ copier[s] = "reading" /\ pipe[s] = <<>> /\ cmd.at = "exited" /\ ~child
  /\ copier' = [copier EXCEPT ![s] = "done"]
  /\ UNCHANGED <<hostVars, linkVars, cmdVars, agent, held, feeder, fed>>

(* The read fails: the pipe was closed by cmd.Wait, or it is at its end.   *)
CopierEnd(s) ==
  /\ copier[s] = "reading"
  /\ ~readable \/ (pipe[s] = <<>> /\ cmd.at = "exited" /\ ~child)
  /\ copier' = [copier EXCEPT ![s] = "done"]
  /\ UNCHANGED <<hostVars, linkVars, cmdVars, agent, held, feeder, fed>>

(* Mutant: the end of the input leaves the command's stdin open.           *)
FeederLeavesOpen ==
  /\ feeder = "decoding"
  /\ \/ /\ up # <<>> /\ up' = Tail(up)
        /\ \/ Head(up).type = "stdin_eof" /\ feeder' = "done" /\ UNCHANGED fed
           \/ /\ Head(up).type = "stdin" /\ UNCHANGED feeder
              /\ fed' = IF fed.open THEN [fed EXCEPT !.chunks = Append(@, Head(up).n)] ELSE fed
     \/ /\ up = <<>> /\ (~Heard(HostDone) \/ AgentDone)
        /\ feeder' = "done" /\ UNCHANGED <<up, fed>>
  /\ UNCHANGED <<hostVars, link, down, cmdVars, agent, copier, held>>

(* The feeder writes each stdin frame to the command, and closes its stdin *)
(* at stdin_eof and when the connection ends on either side.               *)
Feeder ==
  /\ feeder = "decoding"
  /\ \/ /\ up # <<>> /\ up' = Tail(up)
        /\ \/ /\ Head(up).type = "stdin_eof"
              /\ feeder' = "done" /\ fed' = [fed EXCEPT !.open = FALSE]
           \/ /\ Head(up).type = "stdin" /\ UNCHANGED feeder
              /\ fed' = IF fed.open THEN [fed EXCEPT !.chunks = Append(@, Head(up).n)] ELSE fed
     \/ /\ up = <<>> /\ (~Heard(HostDone) \/ AgentDone)
        /\ feeder' = "done" /\ fed' = [fed EXCEPT !.open = FALSE] /\ UNCHANGED up
  /\ UNCHANGED <<hostVars, link, down, cmdVars, agent, copier, held>>

---------------------------------------------------------------------------
(* The command and what it leaves behind.                                  *)

CmdWrite(s) ==
  /\ cmd.at = "running" \/ child
  /\ readable /\ written[s] < MaxChunks[s] /\ Len(pipe[s]) < PipeCap
  /\ written' = [written EXCEPT ![s] = @ + 1]
  /\ pipe' = [pipe EXCEPT ![s] = Append(@, written'[s])]
  /\ UNCHANGED <<hostVars, linkVars, cmd, child, readable, agentVars>>

CmdExit ==
  /\ cmd.at = "running"
  /\ \E code \in ExitCodes : cmd' = [at |-> "exited", code |-> code]
  /\ child' \in BOOLEAN
  /\ UNCHANGED <<hostVars, linkVars, written, pipe, readable, agentVars>>

Over == HostDone /\ (AgentDone \/ link = "none") /\ UNCHANGED vars

---------------------------------------------------------------------------
HostStep ==
  \/ HostRecordStarted \/ HostDial \/ HostSendRequest \/ HostDecodeError \/ HostStartedFrame
  \/ HostOutputFrame \/ HostExitFrame \/ HostErrorFrame \/ HostRecordCompleted \/ HostRecordFailed
AgentStep ==
  \/ AgentDecodeRequest \/ AgentStart \/ AgentSendStarted \/ AgentWait \/ AgentOutputWG
  \/ AgentSendExit \/ AgentSendError
Copier(s) == CopierRead(s) \/ CopierSend(s) \/ CopierEnd(s)

Next ==
  \/ HostStep \/ HostSendInput \/ StoreLate \/ AgentStep \/ Feeder \/ BreakLink \/ CmdExit
  \/ Over
  \/ \E s \in Streams : Copier(s) \/ CmdWrite(s)

(* Every goroutine that can move does.  A copier that waits for a full     *)
(* channel gets its turn among the writers (they share encoderMu).  The    *)
(* command need not exit, nothing needs to break, and RawTree need not     *)
(* store what it was late to store.                                        *)
Fairness ==
  /\ WF_vars(HostStep) /\ WF_vars(AgentStep) /\ WF_vars(Feeder)
  /\ \A s \in Streams : WF_vars(CopierRead(s)) /\ SF_vars(CopierSend(s)) /\ WF_vars(CopierEnd(s))

Spec     == Init /\ [][Next]_vars
FairSpec == Spec /\ Fairness

---------------------------------------------------------------------------
(* Correctness.                                                            *)

SessionEvents == {"started", "process.started", "output", "completed", "failed"}
Terminal(type) == type \in {"completed", "failed"}
Stored == {events[i].type : i \in DOMAIN events}
Told   == Stored \cup {late[k] : k \in Slots}

Numbered(sequence) == \A i \in DOMAIN sequence : sequence[i] = i
Ending(type) == type \in {"exit", "error"}

(* The types of the state.                                                 *)
TypeOK ==
  /\ options \in [interactive: BOOLEAN, suppress: BOOLEAN]
  /\ host \in {"recordStarted", "dial", "sendRequest", "decode", "recordCompleted",
               "recordFailed", "done"}
  /\ result \in [code: ExitCodes \cup {1, 127}, ok: BOOLEAN]
  /\ events \in Seq([type: SessionEvents, acked: BOOLEAN])
  /\ late \in [Slots -> SessionEvents \cup {"none"}]
  /\ \A s \in Streams : delivered[s] \in Seq(1..MaxChunks[s])
  /\ input \in [sent: 0..MaxInput, at: {"off", "reading", "done"}]
  /\ link \in {"none", "open", "broken"}
  /\ Len(up) <= ChannelCap /\ Len(down) <= ChannelCap
  /\ agent \in {"decodeRequest", "start", "sendStarted", "wait", "outputWG", "sendExit",
                "sendError", "closed"}
  /\ cmd \in [at: {"none", "running", "exited"}, code: ExitCodes] /\ child \in BOOLEAN
  /\ (\A s \in Streams : written[s] \in 0..MaxChunks[s]) /\ readable \in BOOLEAN
  /\ \A s \in Streams : Len(pipe[s]) <= PipeCap
  /\ copier \in [Streams -> {"off", "reading", "sending", "done"}]
  /\ \A s \in Streams : held[s] \in 0..MaxChunks[s]
  /\ feeder \in {"off", "decoding", "done"}
  /\ fed \in [chunks: Seq(1..MaxInput), open: BOOLEAN]

(* The exit or error frame is the last frame of a session: the host, which *)
(* stops reading at it, has by then been sent all the output the guest     *)
(* read, from two copiers that write to the same connection.               *)
NothingAfterExit ==
  /\ \A i \in 1..Len(down) - 1 : ~Ending(down[i].type)
  /\ AgentDone => \A s \in Streams : copier[s] \in {"off", "done"}

(* What the host has written to a stream is what the command wrote to it,  *)
(* from the beginning, in order, each chunk once.                          *)
OutputInOrder ==
  \A s \in Streams : Numbered(delivered[s]) /\ Len(delivered[s]) <= written[s]

(* An exec that returns no error returns the exit code of the command,     *)
(* which has ended: never that of a session that broke.                    *)
ExitCodeFaithful == HostDone /\ result.ok => cmd.at = "exited" /\ result.code = cmd.code

(* A session has at most one terminal event, whichever of the five ways    *)
(* out of the loop was taken, counting the one that RawTree may still      *)
(* store.  It is the true one: "completed" only of a command that ended,   *)
(* with its code, "failed" only when the caller gets an error; and a       *)
(* caller that gets none has it in the table.  What RawTree stores after   *)
(* it is a row that the host had given up.                                 *)
AtMostOne ==
  /\ \A i, j \in DOMAIN events : Terminal(events[i].type) /\ Terminal(events[j].type) => i = j
  /\ \A k \in Slots : Terminal(late[k]) =>
       /\ \A i \in DOMAIN events : ~Terminal(events[i].type)
       /\ \A l \in Slots : Terminal(late[l]) => k = l
  /\ \A i, j \in DOMAIN events : j < i /\ Terminal(events[j].type) => ~events[i].acked

Truthful ==
  /\ "completed" \in Told => cmd.at = "exited" /\ result.code = cmd.code
  /\ "failed" \in Told => HostDone /\ ~result.ok
  /\ HostDone /\ result.ok /\ ~options.suppress => "completed" \in Stored

OneTerminalEvent == AtMostOne /\ Truthful

(* The command's stdin gets a prefix of the host's input, and one that has *)
(* been read to its end by the agent is closed.                            *)
InputInOrder ==
  /\ Numbered(fed.chunks) /\ Len(fed.chunks) <= input.sent
  /\ feeder = "done" => ~fed.open

(* A host that waits for a command that exited gets its answer, with any   *)
(* capacity of the pipes and of the connection, even when a process left   *)
(* behind by the command holds its output pipes open.                      *)
ExitDelivered == cmd.at = "exited" ~> HostDone

(* The host waits for the agent, the agent for the copiers and all of them *)
(* for room in the connection, and none of them for another one that       *)
(* waits: from the exit of the command to the end of the session one of    *)
(* them can take a step.                                                   *)
CanSend == link # "open" \/ HostDone \/ Len(down) < ChannelCap

HostCanStep ==
  \/ host \in {"recordCompleted", "recordFailed"}
  \/ host = "decode" /\ (down # <<>> \/ link = "broken" \/ AgentDone)
AgentCanStep ==
  \/ agent = "wait"
  \/ agent \in {"sendStarted", "sendError", "sendExit"} /\ CanSend
  \/ agent = "outputWG" /\ \A s \in Streams : copier[s] = "done"
CopierCanStep(s) ==
  \/ copier[s] = "reading" /\ ~readable
  \/ copier[s] = "sending" /\ CanSend

NobodyStuck ==
  cmd.at = "exited" /\ ~HostDone =>
    HostCanStep \/ AgentCanStep \/ \E s \in Streams : CopierCanStep(s)

(* And their steps run out: once cmd.Wait has closed the pipes, each step  *)
(* of the host, the agent and the copiers takes the session nearer to its  *)
(* end, whatever is typed or stored meanwhile and whatever breaks.         *)
Settled == cmd.at = "exited" /\ ~readable

HostAhead   == CASE HostDone -> 0 [] host \in {"recordCompleted", "recordFailed"} -> 1 [] OTHER -> 2
AgentAhead ==
  CASE agent = "outputWG" -> 4 [] agent \in {"sendExit", "sendError"} -> 2 [] OTHER -> 0
CopierAhead(s) == CASE copier[s] = "sending" -> 3 [] copier[s] = "reading" -> 1 [] OTHER -> 0
Ahead == HostAhead + AgentAhead + CopierAhead("stdout") + CopierAhead("stderr")
           + Len(down) + (IF link = "open" THEN 1 ELSE 0)

WindsDown ==
  [][Settled => /\ Settled'
                /\ \/ Ahead' < Ahead
                   \/ Ahead' = Ahead /\ (HostSendInput \/ Feeder \/ StoreLate)]_vars

(* What the documentation says and the code does not do.                   *)

(* "Guest control process starts the command and streams stdout/stderr     *)
(* frames back over vsock": a session that ended well over a connection    *)
(* that held, of a command that left no process behind, has delivered what *)
(* the command wrote.                                                      *)
OutputComplete ==
  HostDone /\ result.ok /\ link = "open" /\ ~child
    => \A s \in Streams : Len(delivered[s]) = written[s]
=============================================================================
