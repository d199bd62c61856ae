--------------------------- MODULE ExecSessionInv ---------------------------
(***************************************************************************)
(* The inductive invariant of ExecSession, as conjuncts by subject: each   *)
(* safety property of ExecSession follows from it, for every number of     *)
(* chunks, every capacity and every kind of failure.                       *)
(***************************************************************************)
EXTENDS ExecSession

(* What a frame is a numbered part of: an output stream, the input, or     *)
(* nothing, when it is its type.                                           *)
Kind(frame) == IF frame.type = "output" THEN frame.stream ELSE frame.type

UpFrames   == [type: {"request", "stdin", "stdin_eof"}, stream: Streams, n: Int]
DownFrames == [type: {"started", "output", "exit", "error"}, stream: Streams, n: Int]

(* The frames of a kind are numbered low + 1, low + 2, ... in their order. *)
Consecutive(frames, kind, low) ==
  \A i \in DOMAIN frames : Kind(frames[i]) = kind =>
    /\ frames[i].n > low
    /\ \A j \in 1..i - 1 : Kind(frames[j]) = kind => frames[j].n < frames[i].n
    /\ \A m \in low + 1..frames[i].n - 1 :
         \E j \in 1..i - 1 : Kind(frames[j]) = kind /\ frames[j].n = m

(* The numbers of the frames of a kind are those from low + 1 to high.     *)
Reaches(frames, kind, low, high) ==
  /\ low <= high
  /\ \A i \in DOMAIN frames : Kind(frames[i]) = kind => frames[i].n <= high
  /\ \A m \in low + 1..high : \E i \in DOMAIN frames : Kind(frames[i]) = kind /\ frames[i].n = m

(* The frames of a kind have numbers up to high. *)
Within(frames, kind, high) ==
  \A i \in DOMAIN frames : Kind(frames[i]) = kind => frames[i].n \in 1..high

(* The types, with those of the frames and of the functions' domains.      *)
Typed ==
  /\ TypeOK
  /\ up \in Seq(UpFrames) /\ down \in Seq(DownFrames)
  /\ delivered \in [Streams -> Seq(Nat)] /\ pipe \in [Streams -> Seq(Nat)]
  /\ written \in [Streams -> Nat] /\ held \in [Streams -> Nat]

(* The host: nothing is sent before the request, nothing without a dial.   *)
RequestInv ==
  /\ link = "none" => up = <<>> /\ agent = "decodeRequest"
  /\ host \in {"recordStarted", "dial"} => link = "none"
  /\ host \in {"recordStarted", "dial", "sendRequest"}
       => up = <<>> /\ input.at = "off" /\ input.sent = 0

(* The host: no answer and no terminal event before it is done, none told  *)
(* and none given up.                                                      *)
Quiet == \A type \in Told : ~Terminal(type)

AnswerInv == OneTerminalEvent /\ (~HostDone => ~result.ok /\ Quiet)

(* The host: the code it is about to return, or has returned.              *)
ExitCodeInv ==
  /\ host = "recordCompleted" => cmd.at = "exited" /\ result.code = cmd.code
  /\ ExitCodeFaithful

(* The agent: nothing runs before the command is started.                  *)
UnstartedInv ==
  agent \in {"decodeRequest", "start"} =>
    /\ cmd.at = "none" /\ ~child /\ ~readable /\ fed.chunks = <<>> /\ down = <<>>
    /\ \A s \in Streams : written[s] = 0 /\ delivered[s] = <<>>

(* The agent: its goroutines run between the started frame and the last    *)
(* one; the command's stdin is closed when nobody writes to it any more.   *)
GoroutinesInv ==
  /\ agent \in {"decodeRequest", "start", "sendStarted"} =>
       feeder = "off" /\ \A s \in Streams : copier[s] = "off"
  /\ agent \in {"outputWG", "sendExit"} => cmd.at = "exited"
  /\ agent = "sendExit" => \A s \in Streams : copier[s] = "done"
  /\ agent = "sendError" => /\ cmd.at \in {"none", "exited"}
                            /\ \A s \in Streams : copier[s] \in {"off", "done"}
  /\ AgentDone => \A s \in Streams : copier[s] \in {"off", "done"}

StdinInv ==
  /\ agent \notin {"sendStarted", "wait"} => ~fed.open
  /\ feeder = "done" => ~fed.open

(* The end of the command: it comes after the request, and its pipes are   *)
(* open until cmd.Wait has seen it.                                        *)
ExitInv ==
  /\ host \in {"recordStarted", "dial", "sendRequest"}
       => cmd.at = "none" /\ agent \in {"decodeRequest", "closed"}
  /\ agent \in {"sendStarted", "wait"} => readable
  /\ agent \in {"outputWG", "sendExit"} => ~readable
  /\ agent \in {"wait", "outputWG"} => \A s \in Streams : copier[s] # "off"

(* The agent: what its frames say, and that one of them is the last.       *)
FramesInv ==
  \A i \in DOMAIN down :
    /\ Ending(down[i].type) => i = Len(down) /\ AgentDone
    /\ down[i].type = "exit" => cmd.at = "exited" /\ down[i].n = cmd.code
    /\ down[i].type = "error" => down[i].n \in {1, 127}

(* A stream: the chunks the host wrote, those on their way, the one its    *)
(* copier holds and those in the pipe are the ones the command wrote, in   *)
(* order; a gap comes only behind all that still reaches the host.         *)
Sent(s) == IF held[s] # 0 THEN held[s] - 1 ELSE written[s] - Len(pipe[s])

FlowInv(s) ==
  /\ Numbered(delivered[s]) /\ Len(delivered[s]) <= written[s]
  /\ Consecutive(down, s, Len(delivered[s])) /\ Within(down, s, written[s])
  /\ link = "open" /\ ~HostDone /\ (readable \/ held[s] # 0)
       => Reaches(down, s, Len(delivered[s]), Sent(s))

PipeInv(s) ==
  /\ IF readable
     THEN /\ Len(pipe[s]) <= written[s]
          /\ \A i \in DOMAIN pipe[s] : pipe[s][i] = written[s] - Len(pipe[s]) + i
          /\ held[s] # 0 => held[s] = written[s] - Len(pipe[s])
     ELSE pipe[s] = <<>> /\ held[s] <= written[s]
  /\ copier[s] = "sending" <=> held[s] # 0

StreamInv(s) == FlowInv(s) /\ PipeInv(s)

(* The input: the chunks the command was fed and those on their way are    *)
(* the ones the host sent, in order, as long as the command's stdin is, or *)
(* will be, open.                                                          *)
TakesInput == fed.open \/ agent \in {"decodeRequest", "start"}

InputInv ==
  /\ Numbered(fed.chunks) /\ Len(fed.chunks) <= input.sent
  /\ Within(up, "stdin", input.sent)
  /\ TakesInput => Consecutive(up, "stdin", Len(fed.chunks))
  /\ TakesInput /\ link = "open" => Reaches(up, "stdin", Len(fed.chunks), input.sent)
  /\ agent = "decodeRequest" =>
       /\ up # <<>> => up[1].type = "request"
       /\ link = "open" /\ host \notin {"recordStarted", "dial", "sendRequest"} => up # <<>>

EInv ==
  /\ Typed
  /\ RequestInv /\ AnswerInv /\ ExitCodeInv
  /\ UnstartedInv /\ GoroutinesInv /\ ExitInv /\ StdinInv /\ FramesInv
  /\ (\A s \in Streams : StreamInv(s)) /\ InputInv
=============================================================================
