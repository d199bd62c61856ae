------------------------- MODULE ExecSessionProofs -------------------------
(***************************************************************************)
(* The theorems about ExecSession: EInv is inductive, and the safety       *)
(* properties follow from it.                                              *)
(***************************************************************************)
EXTENDS ExecSessionInv, TLAPS

---------------------------------------------------------------------------
(* Numbered frames in a channel.                                           *)

Frames == [type: {"request", "stdin", "stdin_eof", "started", "output", "exit", "error"},
           stream: Streams, n: Int]

(* A frame of another kind does not disturb the numbers. *)
LEMMA AppendOther ==
  ASSUME NEW q \in Seq(Frames), NEW f \in Frames, NEW kind, Kind(f) # kind,
         NEW low \in Int, NEW high \in Int
  PROVE  /\ Consecutive(q, kind, low) => Consecutive(Append(q, f), kind, low)
         /\ Reaches(q, kind, low, high) => Reaches(Append(q, f), kind, low, high)
<1> DEFINE r == Append(q, f)
<1>1. /\ DOMAIN r = 1..Len(q) + 1 /\ DOMAIN q = 1..Len(q) /\ Len(q) \in Nat
      /\ \A i \in DOMAIN q : r[i] = q[i] /\ q[i] \in Frames
      /\ r[Len(q) + 1] = f
  OBVIOUS
<1>2. \A i \in DOMAIN r : Kind(r[i]) = kind => i \in DOMAIN q
  BY <1>1
<1> HIDE DEF r
<1>3. ASSUME Consecutive(q, kind, low) PROVE Consecutive(r, kind, low)
  <2> SUFFICES ASSUME NEW i \in DOMAIN r, Kind(r[i]) = kind
               PROVE  /\ r[i].n > low
                      /\ \A j \in 1..i - 1 : Kind(r[j]) = kind => r[j].n < r[i].n
                      /\ \A m \in low + 1..r[i].n - 1 :
                           \E j \in 1..i - 1 : Kind(r[j]) = kind /\ r[j].n = m
    BY DEF Consecutive
  <2>1. i \in DOMAIN q /\ r[i] = q[i]
    BY <1>1, <1>2
  <2>2. \A j \in 1..i - 1 : j \in DOMAIN q /\ r[j] = q[j]
    BY <1>1, <2>1
  <2> QED
    BY <1>3, <2>1, <2>2 DEF Consecutive
<1>4. ASSUME Reaches(q, kind, low, high) PROVE Reaches(r, kind, low, high)
  BY <1>1, <1>2, <1>4 DEF Reaches
<1> QED
  BY <1>3, <1>4 DEF r

(* The next number goes behind those that are there. *)
LEMMA AppendNext ==
  ASSUME NEW q \in Seq(Frames), NEW f \in Frames,
         NEW low \in Int, NEW high \in Int,
         Consecutive(q, Kind(f), low), Reaches(q, Kind(f), low, high), f.n = high + 1
  PROVE  /\ Consecutive(Append(q, f), Kind(f), low)
         /\ Reaches(Append(q, f), Kind(f), low, high + 1)
<1> DEFINE r == Append(q, f)
           kind == Kind(f)
<1>1. /\ DOMAIN r = 1..Len(q) + 1 /\ DOMAIN q = 1..Len(q) /\ Len(q) \in Nat
      /\ \A i \in DOMAIN q : r[i] = q[i] /\ q[i] \in Frames
      /\ r[Len(q) + 1] = f
  OBVIOUS
<1>n. \A g \in Frames : g.n \in Int
  BY DEF Frames
<1> HIDE DEF r, kind
<1>2. ASSUME NEW i \in DOMAIN r, Kind(r[i]) = kind
      PROVE  /\ r[i].n > low
             /\ \A j \in 1..i - 1 : Kind(r[j]) = kind => r[j].n < r[i].n
             /\ \A m \in low + 1..r[i].n - 1 :
                  \E j \in 1..i - 1 : Kind(r[j]) = kind /\ r[j].n = m
  <2>1. CASE i \in DOMAIN q
    <3>1. r[i] = q[i] /\ \A j \in 1..i - 1 : j \in DOMAIN q /\ r[j] = q[j]
      BY <1>1, <2>1
    <3> QED
      BY <1>2, <2>1, <3>1, SMTT(30) DEF Consecutive, kind
  <2>2. CASE i = Len(q) + 1
    <3>1. r[i].n = high + 1 /\ 1..i - 1 = DOMAIN q /\ \A j \in DOMAIN q : r[j] = q[j]
      BY <1>1, <2>2
    <3> QED
      BY <1>1, <1>n, <3>1, SMTT(30) DEF Reaches, kind
  <2> QED
    BY <1>1, <2>1, <2>2
<1>3. Consecutive(r, kind, low)
  BY <1>2 DEF Consecutive
<1>4. Reaches(r, kind, low, high + 1)
  <2>1. ASSUME NEW i \in DOMAIN r, Kind(r[i]) = kind PROVE r[i].n <= high + 1
    BY <1>1, <1>n, <2>1 DEF Reaches, kind
  <2>2. ASSUME NEW m \in low + 1..high + 1
        PROVE  \E i \in DOMAIN r : Kind(r[i]) = kind /\ r[i].n = m
    <3>1. CASE m = high + 1
      <4>1. Len(q) + 1 \in DOMAIN r /\ Kind(r[Len(q) + 1]) = kind /\ r[Len(q) + 1].n = m
        BY <1>1, <3>1 DEF kind
      <4> QED
        BY <4>1
    <3>2. CASE m # high + 1
      <4>1. m \in low + 1..high
        BY <3>2
      <4>2. PICK i \in DOMAIN q : Kind(q[i]) = kind /\ q[i].n = m
        BY <4>1 DEF Reaches, kind
      <4> QED
        BY <1>1, <4>2
    <3> QED
      BY <3>1, <3>2
  <2>3. low <= high + 1
    BY DEF Reaches
  <2> QED
    BY <2>1, <2>2, <2>3 DEF Reaches
<1> QED
  BY <1>3, <1>4 DEF r, kind

(* The first frame, when it is of another kind. *)
LEMMA TailOther ==
  ASSUME NEW q \in Seq(Frames), q # <<>>, NEW kind, Kind(Head(q)) # kind,
         NEW low \in Int, NEW high \in Int
  PROVE  /\ Consecutive(q, kind, low) => Consecutive(Tail(q), kind, low)
         /\ Reaches(q, kind, low, high) => Reaches(Tail(q), kind, low, high)
<1> DEFINE r == Tail(q)
<1>1. /\ DOMAIN q = 1..Len(q) /\ Len(q) \in Nat \ {0} /\ DOMAIN r = 1..Len(q) - 1
      /\ q[1] = Head(q) /\ \A i \in DOMAIN q : q[i] \in Frames
      /\ \A i \in DOMAIN r : r[i] = q[i + 1] /\ i + 1 \in DOMAIN q
  OBVIOUS
<1>n. \A g \in Frames : g.n \in Int
  BY DEF Frames
<1> HIDE DEF r
<1>2. \A j \in DOMAIN q : Kind(q[j]) = kind => j - 1 \in DOMAIN r /\ r[j - 1] = q[j]
  BY <1>1
<1>3. ASSUME Consecutive(q, kind, low) PROVE Consecutive(r, kind, low)
  <2> SUFFICES ASSUME NEW i \in DOMAIN r, Kind(r[i]) = kind
               PROVE  /\ r[i].n > low
                      /\ \A j \in 1..i - 1 : Kind(r[j]) = kind => r[j].n < r[i].n
                      /\ \A m \in low + 1..r[i].n - 1 :
                           \E j \in 1..i - 1 : Kind(r[j]) = kind /\ r[j].n = m
    BY DEF Consecutive
  <2>1. i + 1 \in DOMAIN q /\ r[i] = q[i + 1]
    BY <1>1
  <2>2. ASSUME NEW j \in 1..i - 1, Kind(r[j]) = kind PROVE r[j].n < r[i].n
    <3>1. j + 1 \in 1..(i + 1) - 1 /\ r[j] = q[j + 1]
      BY <1>1
    <3> QED
      BY <1>3, <2>1, <2>2, <3>1 DEF Consecutive
  <2>3. ASSUME NEW m \in low + 1..r[i].n - 1
        PROVE  \E j \in 1..i - 1 : Kind(r[j]) = kind /\ r[j].n = m
    <3>1. PICK j \in 1..(i + 1) - 1 : Kind(q[j]) = kind /\ q[j].n = m
      BY <1>3, <2>1 DEF Consecutive
    <3>2. j \in DOMAIN q /\ j - 1 \in 1..i - 1
      BY <1>1, <2>1, <3>1
    <3> QED
      BY <1>2, <3>1, <3>2
  <2>4. r[i].n > low
    BY <1>3, <2>1 DEF Consecutive
  <2> QED
    BY <2>2, <2>3, <2>4
<1>4. ASSUME Reaches(q, kind, low, high) PROVE Reaches(r, kind, low, high)
  <2>1. \A i \in DOMAIN r : Kind(r[i]) = kind => r[i].n <= high
    BY <1>1, <1>4 DEF Reaches
  <2>2. ASSUME NEW m \in low + 1..high
        PROVE  \E i \in DOMAIN r : Kind(r[i]) = kind /\ r[i].n = m
    <3>1. PICK i \in DOMAIN q : Kind(q[i]) = kind /\ q[i].n = m
      BY <1>4 DEF Reaches
    <3>2. i - 1 \in DOMAIN r /\ r[i - 1] = q[i]
      BY <1>2, <3>1
    <3> QED
      BY <3>1, <3>2
  <2> QED
    BY <1>4, <2>1, <2>2 DEF Reaches
<1> QED
  BY <1>3, <1>4 DEF r

(* The first frame, when it is of the kind: it has the first number. *)
LEMMA TailNext ==
  ASSUME NEW q \in Seq(Frames), q # <<>>, NEW low \in Int,
         Consecutive(q, Kind(Head(q)), low)
  PROVE  /\ Head(q).n = low + 1
         /\ Consecutive(Tail(q), Kind(Head(q)), low + 1)
         /\ \A high \in Int : Reaches(q, Kind(Head(q)), low, high)
                              => Reaches(Tail(q), Kind(Head(q)), low + 1, high)
<1> DEFINE r == Tail(q)
           kind == Kind(Head(q))
<1>1. /\ DOMAIN q = 1..Len(q) /\ Len(q) \in Nat \ {0} /\ DOMAIN r = 1..Len(q) - 1
      /\ q[1] = Head(q) /\ \A i \in DOMAIN q : q[i] \in Frames
      /\ \A i \in DOMAIN r : r[i] = q[i + 1] /\ i + 1 \in DOMAIN q
  OBVIOUS
<1>n. \A g \in Frames : g.n \in Int
  BY DEF Frames
<1> HIDE DEF r, kind
<1>2. q[1].n = low + 1
  <2>1. q[1].n > low /\ q[1].n \in Int
    BY <1>1, <1>n DEF Consecutive, kind
  <2>2. low + 1 \notin low + 1..q[1].n - 1
    BY <1>1 DEF Consecutive, kind
  <2> QED
    BY <2>1, <2>2
<1>3. \A i \in DOMAIN r : Kind(r[i]) = kind => r[i].n > low + 1
  BY <1>1, <1>2, <1>n DEF Consecutive, kind
<1>4. Consecutive(r, kind, low + 1)
  <2> SUFFICES ASSUME NEW i \in DOMAIN r, Kind(r[i]) = kind
               PROVE  /\ r[i].n > low + 1
                      /\ \A j \in 1..i - 1 : Kind(r[j]) = kind => r[j].n < r[i].n
                      /\ \A m \in low + 1 + 1..r[i].n - 1 :
                           \E j \in 1..i - 1 : Kind(r[j]) = kind /\ r[j].n = m
    BY DEF Consecutive
  <2>1. i + 1 \in DOMAIN q /\ r[i] = q[i + 1] /\ r[i].n \in Int
    BY <1>1, <1>n
  <2>2. ASSUME NEW j \in 1..i - 1, Kind(r[j]) = kind PROVE r[j].n < r[i].n
    <3>1. j + 1 \in 1..(i + 1) - 1 /\ r[j] = q[j + 1]
      BY <1>1
    <3> QED
      BY <2>1, <2>2, <3>1 DEF Consecutive, kind
  <2>3. ASSUME NEW m \in low + 1 + 1..r[i].n - 1
        PROVE  \E j \in 1..i - 1 : Kind(r[j]) = kind /\ r[j].n = m
    <3>1. m \in low + 1..q[i + 1].n - 1
      BY <2>1
    <3>2. PICK j \in 1..(i + 1) - 1 : Kind(q[j]) = kind /\ q[j].n = m
      BY <2>1, <3>1 DEF Consecutive, kind
    <3>3. j # 1 /\ j \in DOMAIN q
      BY <1>1, <1>2, <2>1, <3>2
    <3>4. j - 1 \in 1..i - 1 /\ r[j - 1] = q[j]
      BY <1>1, <3>3
    <3> QED
      BY <3>2, <3>4
  <2> QED
    BY <1>3, <2>2, <2>3
<1>5. ASSUME NEW high \in Int, Reaches(q, kind, low, high)
      PROVE  Reaches(r, kind, low + 1, high)
  <2>1. low + 1 <= high
    BY <1>1, <1>2, <1>5 DEF Reaches, kind
  <2>2. \A i \in DOMAIN r : Kind(r[i]) = kind => r[i].n <= high
    BY <1>1, <1>5 DEF Reaches
  <2>3. ASSUME NEW m \in low + 1 + 1..high
        PROVE  \E i \in DOMAIN r : Kind(r[i]) = kind /\ r[i].n = m
    <3>1. m \in low + 1..high
      OBVIOUS
    <3>2. PICK i \in DOMAIN q : Kind(q[i]) = kind /\ q[i].n = m
      BY <1>5, <3>1 DEF Reaches
    <3>3. i # 1
      BY <1>2, <3>2
    <3>4. i - 1 \in DOMAIN r /\ r[i - 1] = q[i]
      BY <1>1, <3>3
    <3> QED
      BY <3>2, <3>4
  <2> QED
    BY <2>1, <2>2, <2>3 DEF Reaches
<1> QED
  BY <1>1, <1>2, <1>4, <1>5 DEF r, kind

(* A channel that lost its last frames. *)
LEMMA PrefixConsecutive ==
  ASSUME NEW q \in Seq(Frames), NEW k \in 0..Len(q), NEW kind, NEW low \in Int,
         Consecutive(q, kind, low)
  PROVE  Consecutive(SubSeq(q, 1, k), kind, low)
<1> DEFINE r == SubSeq(q, 1, k)
<1>1. DOMAIN r = 1..k /\ DOMAIN q = 1..Len(q) /\ \A i \in 1..k : r[i] = q[i] /\ i \in DOMAIN q
  OBVIOUS
<1> HIDE DEF r
<1>2. \A i \in 1..k : \A j \in 1..i - 1 : j \in 1..k
  OBVIOUS
<1>3. Consecutive(r, kind, low)
  BY <1>1, <1>2 DEF Consecutive
<1> QED
  BY <1>3 DEF r

LEMMA WithinKept ==
  ASSUME NEW q \in Seq(Frames), NEW kind, NEW high \in Int, Within(q, kind, high)
  PROVE  /\ q # <<>> => Within(Tail(q), kind, high)
         /\ \A f \in Frames : (Kind(f) = kind => f.n \in 1..high) => Within(Append(q, f), kind, high)
         /\ \A k \in 0..Len(q) : Within(SubSeq(q, 1, k), kind, high)
         /\ \A more \in Int : more >= high => Within(q, kind, more)
<1>1. ASSUME q # <<>> PROVE Within(Tail(q), kind, high)
  <2>1. /\ DOMAIN Tail(q) = 1..Len(q) - 1 /\ DOMAIN q = 1..Len(q)
        /\ \A i \in 1..Len(q) - 1 : Tail(q)[i] = q[i + 1] /\ i + 1 \in 1..Len(q)
    BY <1>1
  <2> QED
    BY <2>1 DEF Within
<1>2. ASSUME NEW f \in Frames, Kind(f) = kind => f.n \in 1..high
      PROVE  Within(Append(q, f), kind, high)
  <2>1. /\ DOMAIN Append(q, f) = 1..Len(q) + 1 /\ DOMAIN q = 1..Len(q)
        /\ \A i \in 1..Len(q) : Append(q, f)[i] = q[i]
        /\ Append(q, f)[Len(q) + 1] = f
    OBVIOUS
  <2> QED
    BY <1>2, <2>1 DEF Within
<1>3. ASSUME NEW k \in 0..Len(q) PROVE Within(SubSeq(q, 1, k), kind, high)
  <2>1. /\ DOMAIN SubSeq(q, 1, k) = 1..k /\ DOMAIN q = 1..Len(q)
        /\ \A i \in 1..k : SubSeq(q, 1, k)[i] = q[i]
    OBVIOUS
  <2> QED
    BY <2>1 DEF Within
<1>4. ASSUME NEW more \in Int, more >= high PROVE Within(q, kind, more)
  BY <1>4 DEF Within
<1> QED
  BY <1>1, <1>2, <1>3, <1>4

---------------------------------------------------------------------------
(* Every step keeps the invariant.                                         *)

(* Typed, by the groups of variables. *)
Results == [code: ExitCodes \cup {1, 127}, ok: BOOLEAN]
Rows == [type: SessionEvents, acked: BOOLEAN]
RowsTyped == events \in Seq(Rows) /\ late \in [Slots -> SessionEvents \cup {"none"}]
HostTyped ==
  /\ options \in [interactive: BOOLEAN, suppress: BOOLEAN]
  /\ host \in {"recordStarted", "dial", "sendRequest", "decode", "recordCompleted",
               "recordFailed", "done"}
  /\ RowsTyped
  /\ delivered \in [Streams -> Seq(Nat)]
  /\ \A s \in Streams : delivered[s] \in Seq(1..MaxChunks[s])
  /\ input \in [sent: 0..MaxInput, at: {"off", "reading", "done"}]
LinkTyped ==
  /\ link \in {"none", "open", "broken"}
  /\ up \in Seq(UpFrames) /\ Len(up) <= ChannelCap
  /\ down \in Seq(DownFrames) /\ Len(down) <= ChannelCap
CmdTyped ==
  /\ cmd \in [at: {"none", "running", "exited"}, code: ExitCodes] /\ child \in BOOLEAN
  /\ written \in [Streams -> Nat] /\ (\A s \in Streams : written[s] \in 0..MaxChunks[s])
  /\ readable \in BOOLEAN
  /\ pipe \in [Streams -> Seq(Nat)] /\ \A s \in Streams : Len(pipe[s]) <= PipeCap
AgentTyped ==
  /\ agent \in {"decodeRequest", "start", "sendStarted", "wait", "outputWG", "sendExit",
                "sendError", "closed"}
  /\ copier \in [Streams -> {"off", "reading", "sending", "done"}]
  /\ held \in [Streams -> Nat] /\ \A s \in Streams : held[s] \in 0..MaxChunks[s]
  /\ feeder \in {"off", "decoding", "done"}
  /\ fed \in [chunks: Seq(1..MaxInput), open: BOOLEAN]

LEMMA TypedParts ==
  Typed <=> HostTyped /\ result \in Results /\ LinkTyped /\ CmdTyped /\ AgentTyped
BY DEF Typed, TypeOK, HostTyped, RowsTyped, Rows, Results, LinkTyped, CmdTyped, AgentTyped

(* What RawTree holds of the session. *)
LEMMA EventsTyped ==
  /\ {"started", "process.started", "output", "completed", "failed"} = SessionEvents
  /\ "none" \notin SessionEvents /\ ~Terminal("none")
BY DEF SessionEvents, Terminal

LEMMA MayRecordTyped ==
  ASSUME RowsTyped, NEW type \in SessionEvents, MayRecord(type)
  PROVE  RowsTyped'
<1>1. CASE Answered(type)
  BY <1>1 DEF Answered, RowsTyped, Rows, Row
<1>2. CASE Unanswered(type)
  BY <1>2 DEF Unanswered, RowsTyped
<1> QED
  BY <1>1, <1>2 DEF MayRecord

LEMMA StoreLateTyped ==
  ASSUME RowsTyped, StoreLate
  PROVE  RowsTyped'
<1>1. PICK k \in Slots :
        /\ late[k] # "none" /\ late' = [late EXCEPT ![k] = "none"]
        /\ events' = Append(events, Row(late[k], FALSE))
  BY DEF StoreLate
<1>2. late[k] \in SessionEvents
  BY <1>1 DEF RowsTyped
<1> QED
  BY <1>1, <1>2 DEF RowsTyped, Rows, Row

(* What a row that is added changes. *)
LEMMA AppendRow ==
  ASSUME events \in Seq(Rows), NEW row \in Rows, events' = Append(events, row)
  PROVE  /\ DOMAIN events' = DOMAIN events \cup {Len(events) + 1} /\ Len(events) \in Nat
         /\ DOMAIN events = 1..Len(events) /\ events'[Len(events) + 1] = row
         /\ \A i \in DOMAIN events : events'[i] = events[i]
         /\ Stored' = Stored \cup {row.type}
<1>1. /\ DOMAIN events' = DOMAIN events \cup {Len(events) + 1} /\ Len(events) \in Nat
      /\ DOMAIN events = 1..Len(events) /\ events'[Len(events) + 1] = row
      /\ \A i \in DOMAIN events : events'[i] = events[i]
  OBVIOUS
<1>2. Stored' = Stored \cup {row.type}
  BY <1>1 DEF Stored
<1> QED
  BY <1>1, <1>2

(* An insert of a session that has no terminal event yet. *)
LEMMA RecordOne ==
  ASSUME RowsTyped, Quiet, NEW type \in SessionEvents, MayRecord(type)
  PROVE  /\ AtMostOne' /\ (~Terminal(type) => Quiet') /\ Told' \subseteq Told \cup {type}
         /\ Answered(type) => type \in Stored'
<1>q. /\ \A i \in DOMAIN events : ~Terminal(events[i].type)
      /\ \A k \in Slots : ~Terminal(late[k])
  BY DEF Quiet, Told, Stored
<1>1. CASE Answered(type)
  <2>1. Row(type, TRUE) \in Rows /\ Row(type, TRUE).type = type
    BY DEF Rows, Row
  <2>2. /\ events' = Append(events, Row(type, TRUE)) /\ late' = late /\ events \in Seq(Rows)
    BY <1>1 DEF Answered, RowsTyped
  <2>3. /\ DOMAIN events' = DOMAIN events \cup {Len(events) + 1} /\ Len(events) \in Nat
        /\ DOMAIN events = 1..Len(events) /\ \A i \in DOMAIN events : events'[i] = events[i]
        /\ Stored' = Stored \cup {type}
    <3>1. Stored' = Stored \cup {Row(type, TRUE).type}
      BY <2>1, <2>2, AppendRow
    <3> QED
      BY <2>1, <2>2, <3>1, AppendRow
  <2>4. AtMostOne'
    <3>1. \A i \in DOMAIN events' : i \in Nat /\ i <= Len(events) + 1
      BY <2>3
    <3>2. \A i \in DOMAIN events' : Terminal(events'[i].type) => i = Len(events) + 1
      BY <1>q, <2>3
    <3>3. \A k \in Slots : ~Terminal(late'[k])
      BY <1>q, <2>2
    <3> QED
      BY <2>3, <3>1, <3>2, <3>3 DEF AtMostOne
  <2>5. Told' = Told \cup {type}
    BY <2>2, <2>3 DEF Told
  <2> QED
    BY <2>3, <2>4, <2>5 DEF Quiet
<1>2. CASE Unanswered(type)
  <2>1. events' = events /\ Stored' = Stored
    BY <1>2 DEF Unanswered, Stored
  <2>2. CASE late' = late
    BY <1>q, <2>1, <2>2 DEF AtMostOne, Told, Quiet, Answered, Row
  <2>3. ASSUME NEW k \in Slots, late' = [late EXCEPT ![k] = type]
        PROVE  AtMostOne' /\ Told' \subseteq Told \cup {type}
    <3>1. late'[k] = type /\ \A l \in Slots \ {k} : late'[l] = late[l]
      BY <2>3 DEF RowsTyped
    <3>2. AtMostOne'
      BY <1>q, <2>1, <3>1 DEF AtMostOne
    <3>3. Told' \subseteq Told \cup {type}
      BY <2>1, <3>1 DEF Told
    <3> QED
      BY <3>2, <3>3
  <2>4. ~Answered(type)
    <3>1. ASSUME Answered(type) PROVE FALSE
      <4>1. events \in Seq(Rows) /\ events' = Append(events, Row(type, TRUE))
        BY <3>1 DEF Answered, RowsTyped
      <4>2. Len(events') = Len(events) + 1 /\ Len(events) \in Nat
        BY <4>1 DEF Row, Rows
      <4> QED
        BY <2>1, <4>2
    <3> QED
      BY <3>1
  <2>5. AtMostOne' /\ Told' \subseteq Told \cup {type}
    BY <1>2, <2>2, <2>3, <1>q, <2>1 DEF Unanswered, AtMostOne, Told
  <2> QED
    BY <2>4, <2>5 DEF Quiet
<1> QED
  BY <1>1, <1>2 DEF MayRecord

(* A row that comes late adds no terminal event to those that were told. *)
LEMMA StoreOne ==
  ASSUME RowsTyped, AtMostOne, StoreLate
  PROVE  AtMostOne' /\ Told' \subseteq Told \cup {"none"} /\ Stored \subseteq Stored'
<1>1. PICK k \in Slots :
        /\ late[k] # "none" /\ late' = [late EXCEPT ![k] = "none"]
        /\ events' = Append(events, Row(late[k], FALSE))
  BY DEF StoreLate
<1>2. late[k] \in SessionEvents /\ late'[k] = "none" /\ \A l \in Slots \ {k} : late'[l] = late[l]
  BY <1>1 DEF RowsTyped
<1>3. /\ Row(late[k], FALSE) \in Rows /\ Row(late[k], FALSE).type = late[k]
      /\ ~Row(late[k], FALSE).acked
  BY <1>2 DEF Rows, Row
<1> DEFINE row == Row(late[k], FALSE)
<1>4. /\ DOMAIN events' = DOMAIN events \cup {Len(events) + 1} /\ Len(events) \in Nat
      /\ DOMAIN events = 1..Len(events) /\ events'[Len(events) + 1] = row
      /\ \A i \in DOMAIN events : events'[i] = events[i]
      /\ Stored' = Stored \cup {late[k]}
  BY <1>1, <1>3, AppendRow DEF RowsTyped
<1> HIDE DEF row
<1>5. Told' \subseteq Told \cup {"none"}
  BY <1>2, <1>4 DEF Told
<1>n. row.type = late[k] /\ ~row.acked
  BY <1>3 DEF row
<1>6. AtMostOne'
  <2>1. ASSUME NEW i \in DOMAIN events', NEW j \in DOMAIN events',
               Terminal(events'[i].type), Terminal(events'[j].type)
        PROVE  i = j
    BY <1>4, <1>n, <2>1 DEF AtMostOne
  <2>2. ASSUME NEW l \in Slots, Terminal(late'[l])
        PROVE  /\ \A i \in DOMAIN events' : ~Terminal(events'[i].type)
               /\ \A m \in Slots : Terminal(late'[m]) => l = m
    <3>1. l # k /\ late'[l] = late[l] /\ ~Terminal(late[k])
      BY <1>2, <2>2, EventsTyped DEF AtMostOne
    <3>2. ASSUME NEW m \in Slots, Terminal(late'[m]) PROVE l = m
      BY <1>2, <2>2, <3>1, <3>2, EventsTyped DEF AtMostOne
    <3>3. ASSUME NEW i \in DOMAIN events' PROVE ~Terminal(events'[i].type)
      BY <1>4, <1>n, <2>2, <3>1, <3>3 DEF AtMostOne
    <3> QED
      BY <3>2, <3>3
  <2>3. ASSUME NEW i \in DOMAIN events', NEW j \in DOMAIN events', j < i,
               Terminal(events'[j].type)
        PROVE  ~events'[i].acked
    BY <1>4, <1>n, <2>3 DEF AtMostOne
  <2> QED
    BY <2>1, <2>2, <2>3 DEF AtMostOne
<1> QED
  BY <1>4, <1>5, <1>6

(* What a channel holds after a frame was sent or taken. *)
LEMMA SendUpTyped ==
  ASSUME LinkTyped, NEW frame \in UpFrames, SendUp(frame)
  PROVE  up' \in Seq(UpFrames) /\ Len(up') <= ChannelCap
<1>1. ChannelCap \in Nat
  BY BoundsAssumption
<1>2. up' = up \/ (Len(up) < ChannelCap /\ up' = Append(up, frame))
  BY DEF SendUp
<1>3. up \in Seq(UpFrames) /\ Len(up) <= ChannelCap
  BY DEF LinkTyped
<1> QED
  BY <1>1, <1>2, <1>3

LEMMA SendDownTyped ==
  ASSUME LinkTyped, NEW frame \in DownFrames, SendDown(frame)
  PROVE  down' \in Seq(DownFrames) /\ Len(down') <= ChannelCap
<1>1. ChannelCap \in Nat
  BY BoundsAssumption
<1>2. down' = down \/ (Len(down) < ChannelCap /\ down' = Append(down, frame))
  BY DEF SendDown
<1>3. down \in Seq(DownFrames) /\ Len(down) <= ChannelCap
  BY DEF LinkTyped
<1> QED
  BY <1>1, <1>2, <1>3

LEMMA TailTyped ==
  ASSUME NEW S, NEW q \in Seq(S), q # <<>>, Len(q) <= ChannelCap
  PROVE  Tail(q) \in Seq(S) /\ Len(Tail(q)) <= ChannelCap /\ Head(q) \in S
BY BoundsAssumption

LEMMA FramesTyped ==
  /\ \A n \in Int : {Plain("request", n), Plain("stdin", n), Plain("stdin_eof", n)} \subseteq UpFrames
  /\ \A n \in Int : {Plain("started", n), Plain("exit", n), Plain("error", n)} \subseteq DownFrames
  /\ \A n \in Int, s \in Streams : Chunk(s, n) \in DownFrames
BY DEF Plain, Chunk, Frame, UpFrames, DownFrames, Streams

(* What ExecInSandbox returns. *)
LEMMA ReturnTyped ==
  ASSUME NEW code \in ExitCodes \cup {1, 127}, NEW ok \in BOOLEAN, Return(code, ok)
  PROVE  result' \in Results
BY DEF Return, Results

LEMMA FailTyped ==
  ASSUME NEW code \in ExitCodes \cup {1, 127}, Fail(code) PROVE result' \in Results
<1>1. CASE options.suppress
  <2>1. Return(code, FALSE)
    BY <1>1 DEF Fail
  <2> QED
    BY <2>1, ReturnTyped
<1>2. CASE ~options.suppress
  <2>1. result' = [code |-> code, ok |-> FALSE]
    BY <1>2 DEF Fail
  <2> QED
    BY <2>1 DEF Results
<1> QED
  BY <1>1, <1>2

(* Who changes the variables of the host. *)
LEMMA HostFootprint ==
  [Next]_vars =>
    \/ HostRecordStarted \/ HostDial \/ HostSendRequest \/ HostSendInput \/ HostDecodeError
    \/ HostStartedFrame \/ HostOutputFrame \/ HostExitFrame \/ HostErrorFrame
    \/ HostRecordCompleted \/ HostRecordFailed \/ StoreLate \/ UNCHANGED hostVars
BY DEF Next, HostStep, AgentStep, Copier, vars, hostVars, linkVars, cmdVars, agentVars,
   AgentDecodeRequest, AgentStart, AgentSendStarted, AgentWait, AgentOutputWG,
   AgentSendExit, AgentSendError, CopierRead, CopierSend, CopierEnd, CmdWrite, Feeder,
   CmdExit, BreakLink, Over

(* Who changes them but for the rows. *)
controlVars == <<options, host, result, delivered, input>>

LEMMA ControlFootprint ==
  [Next]_vars =>
    \/ HostRecordStarted \/ HostDial \/ HostSendRequest \/ HostSendInput \/ HostDecodeError
    \/ HostStartedFrame \/ HostOutputFrame \/ HostExitFrame \/ HostErrorFrame
    \/ HostRecordCompleted \/ HostRecordFailed \/ UNCHANGED controlVars
BY HostFootprint DEF hostVars, controlVars, StoreLate

(* Who sets the result. *)
LEMMA ResultFootprint ==
  [Next]_vars =>
    \/ HostRecordStarted \/ HostDial \/ HostSendRequest \/ HostDecodeError \/ HostExitFrame
    \/ HostErrorFrame \/ HostRecordCompleted \/ HostRecordFailed \/ UNCHANGED result
BY DEF Next, HostStep, AgentStep, Copier, vars, hostVars, linkVars, cmdVars, agentVars,
   HostSendInput, HostStartedFrame, HostOutputFrame, AgentDecodeRequest, AgentStart,
   AgentSendStarted, AgentWait, AgentOutputWG, AgentSendExit, AgentSendError,
   CopierRead, CopierSend, CopierEnd, CmdWrite, Feeder, CmdExit, BreakLink, Over, StoreLate,
   Receives

(* Who changes the connection. *)
LEMMA LinkFootprint ==
  [Next]_vars =>
    \/ HostDial \/ HostSendRequest \/ HostSendInput \/ HostStartedFrame \/ HostOutputFrame
    \/ HostExitFrame \/ HostErrorFrame \/ AgentDecodeRequest \/ AgentSendStarted
    \/ AgentSendExit \/ AgentSendError \/ Feeder \/ BreakLink
    \/ (\E s \in Streams : CopierSend(s)) \/ UNCHANGED linkVars
BY DEF Next, HostStep, AgentStep, Copier, vars, hostVars, linkVars, cmdVars, agentVars,
   HostRecordStarted, HostDecodeError, HostRecordCompleted, HostRecordFailed,
   AgentStart, AgentWait, AgentOutputWG, CopierRead, CopierEnd, CmdWrite, CmdExit, Over, StoreLate

(* Who changes the command and its pipes. *)
LEMMA CmdFootprint ==
  [Next]_vars =>
    \/ AgentStart \/ AgentWait \/ CmdExit
    \/ (\E s \in Streams : CopierRead(s) \/ CmdWrite(s)) \/ UNCHANGED cmdVars
BY DEF Next, HostStep, AgentStep, Copier, vars, hostVars, linkVars, cmdVars, agentVars,
   HostRecordStarted, HostDial, HostSendRequest, HostSendInput, HostDecodeError,
   HostStartedFrame, HostOutputFrame, HostExitFrame, HostErrorFrame,
   HostRecordCompleted, HostRecordFailed, AgentDecodeRequest, AgentSendStarted,
   AgentOutputWG, AgentSendExit, AgentSendError, CopierSend, CopierEnd, Feeder,
   BreakLink, Over, StoreLate, Receives

(* Who changes the agent's goroutines. *)
LEMMA AgentFootprint ==
  [Next]_vars =>
    \/ AgentDecodeRequest \/ AgentStart \/ AgentSendStarted \/ AgentWait \/ AgentOutputWG
    \/ AgentSendExit \/ AgentSendError \/ Feeder
    \/ (\E s \in Streams : CopierRead(s) \/ CopierSend(s) \/ CopierEnd(s))
    \/ UNCHANGED agentVars
BY DEF Next, HostStep, AgentStep, Copier, vars, hostVars, linkVars, cmdVars, agentVars,
   HostRecordStarted, HostDial, HostSendRequest, HostSendInput, HostDecodeError,
   HostStartedFrame, HostOutputFrame, HostExitFrame, HostErrorFrame,
   HostRecordCompleted, HostRecordFailed, CmdWrite, CmdExit, BreakLink, Over, StoreLate, Receives

(* The types of the host. *)
LEMMA HostTypedStep ==
  ASSUME HostTyped, LinkTyped, CmdTyped, FramesInv, (\A s \in Streams : StreamInv(s)),
         [Next]_vars
  PROVE  HostTyped'
<1>k. UNCHANGED <<events, late>> => RowsTyped'
  BY DEF HostTyped, RowsTyped
<1> USE BoundsAssumption, ExitCodesAssumption, <1>k DEF hostVars, linkVars, cmdVars,
   agentVars, HostTyped, HostDone
<1>1. CASE HostRecordStarted
  BY <1>1, MayRecordTyped, EventsTyped DEF HostRecordStarted, MayRecord, Return
<1>2. CASE HostDial
  BY <1>2 DEF HostDial, Fail, Return
<1>3. CASE HostSendRequest
  BY <1>3 DEF HostSendRequest, SendUp, Fail, Return, Plain, Frame
<1>4. CASE HostSendInput
  <2>1. input' \in [sent: 0..MaxInput, at: {"off", "reading", "done"}]
    BY <1>4 DEF HostSendInput
  <2>2. UNCHANGED <<options, host, events, late, delivered>>
    BY <1>4 DEF HostSendInput
  <2> QED
    BY <2>1, <2>2
<1>5. CASE HostDecodeError
  BY <1>5 DEF HostDecodeError, Fail, Return
<1>6. CASE HostStartedFrame
  BY <1>6, MayRecordTyped, EventsTyped DEF HostStartedFrame, Receives
<1>7. CASE HostOutputFrame
  <2>1. RowsTyped'
    BY <1>7, MayRecordTyped, EventsTyped DEF HostOutputFrame, Receives
  <2>2. delivered' \in [Streams -> Seq(Nat)] /\ \A s \in Streams : delivered'[s] \in Seq(1..MaxChunks[s])
    <3> DEFINE f == Head(down)
    <3>1. down # <<>> /\ f.type = "output" /\ f \in DownFrames
      BY <1>7, TailTyped DEF HostOutputFrame, Receives, LinkTyped
    <3>2. f.stream \in Streams /\ Kind(f) = f.stream /\ f.n \in Int
      BY <3>1 DEF DownFrames, Kind
    <3>3. 1 \in DOMAIN down /\ down[1] = f
      BY <3>1 DEF LinkTyped
    <3>4. f.n > Len(delivered[f.stream]) /\ f.n <= written[f.stream]
      BY <3>2, <3>3 DEF StreamInv, FlowInv, Within, Consecutive
    <3>5. f.n \in Nat /\ f.n \in 1..MaxChunks[f.stream]
      <4>1. delivered[f.stream] \in Seq(Nat) /\ written[f.stream] \in 0..MaxChunks[f.stream]
        BY <3>2 DEF CmdTyped
      <4>2. MaxChunks[f.stream] \in Nat /\ Len(delivered[f.stream]) \in Nat
        BY <3>2, <4>1 DEF Streams
      <4> QED
        BY <3>2, <3>4, <4>1, <4>2
    <3>6. delivered' = [delivered EXCEPT ![f.stream] = Append(@, f.n)]
      BY <1>7 DEF HostOutputFrame
    <3> HIDE DEF f
    <3>7. delivered' \in [Streams -> Seq(Nat)]
      BY <3>2, <3>5, <3>6
    <3>8. ASSUME NEW s \in Streams PROVE delivered'[s] \in Seq(1..MaxChunks[s])
      <4>1. CASE s = f.stream
        <5>1. delivered[s] \in Seq(1..MaxChunks[s]) /\ f.n \in 1..MaxChunks[s]
          BY <3>5, <4>1
        <5>2. delivered'[s] = Append(delivered[s], f.n)
          BY <3>2, <3>6, <4>1
        <5> QED
          BY <5>1, <5>2
      <4>2. CASE s # f.stream
        BY <3>2, <3>6, <4>2
      <4> QED
        BY <4>1, <4>2
    <3> QED
      BY <3>7, <3>8
  <2> QED
    BY <1>7, <2>1, <2>2 DEF HostOutputFrame, Receives
<1>8. CASE HostExitFrame
  BY <1>8 DEF HostExitFrame, Receives, Return
<1>9. CASE HostErrorFrame
  BY <1>9 DEF HostErrorFrame, Receives, Fail, Return
<1>10. CASE HostRecordCompleted
  BY <1>10, MayRecordTyped, EventsTyped DEF HostRecordCompleted, MayRecord, Return
<1>11. CASE HostRecordFailed
  BY <1>11, MayRecordTyped, EventsTyped DEF HostRecordFailed, Return
<1>12. CASE StoreLate
  BY <1>12, StoreLateTyped DEF StoreLate
<1>u. CASE UNCHANGED hostVars
  BY <1>u
<1> QED
  BY <1>1, <1>2, <1>3, <1>4, <1>5, <1>6, <1>7, <1>8, <1>9, <1>10, <1>11, <1>12, <1>u,
     HostFootprint

(* The type of the result. *)
LEMMA ResultTypedStep ==
  ASSUME result \in Results, LinkTyped, CmdTyped, FramesInv, [Next]_vars
  PROVE  result' \in Results
<1>d. ASSUME down # <<>>
      PROVE  /\ Head(down).type = "exit" => Head(down).n \in ExitCodes
             /\ Head(down).type = "error" => Head(down).n \in {1, 127}
  BY <1>d DEF LinkTyped, CmdTyped, FramesInv
<1>1. CASE HostRecordStarted
  BY <1>1, ReturnTyped DEF HostRecordStarted
<1>2. CASE HostDial
  BY <1>2, FailTyped DEF HostDial
<1>3. CASE HostSendRequest
  BY <1>3, FailTyped DEF HostSendRequest
<1>4. CASE HostDecodeError
  BY <1>4, FailTyped DEF HostDecodeError
<1>5. CASE HostExitFrame
  <2>1. Head(down).n \in ExitCodes
    BY <1>5, <1>d DEF HostExitFrame, Receives
  <2>2. CASE options.suppress
    BY <1>5, <2>1, <2>2, ReturnTyped DEF HostExitFrame
  <2>3. CASE ~options.suppress
    <3>1. result' = [code |-> Head(down).n, ok |-> FALSE]
      BY <1>5, <2>3 DEF HostExitFrame
    <3> QED
      BY <2>1, <3>1 DEF Results
  <2> QED
    BY <2>2, <2>3
<1>6. CASE HostErrorFrame
  BY <1>6, <1>d, FailTyped DEF HostErrorFrame, Receives
<1>7. CASE HostRecordCompleted
  BY <1>7, ReturnTyped DEF HostRecordCompleted, Results
<1>8. CASE HostRecordFailed
  BY <1>8, ReturnTyped DEF HostRecordFailed, Results
<1>u. CASE UNCHANGED result
  BY <1>u
<1> QED
  BY <1>1, <1>2, <1>3, <1>4, <1>5, <1>6, <1>7, <1>8, <1>u, ResultFootprint

(* The types of the connection. *)
LEMMA LinkTypedStep ==
  ASSUME LinkTyped, HostTyped, CmdTyped, AgentTyped, [Next]_vars
  PROVE  LinkTyped'
<1>t. /\ up # <<>> => Tail(up) \in Seq(UpFrames) /\ Len(Tail(up)) <= ChannelCap
      /\ down # <<>> => Tail(down) \in Seq(DownFrames) /\ Len(Tail(down)) <= ChannelCap
  BY TailTyped DEF LinkTyped
<1> USE BoundsAssumption, ExitCodesAssumption, FramesTyped DEF hostVars, linkVars,
   cmdVars, agentVars, LinkTyped
<1>1. CASE HostDial
  BY <1>1 DEF HostDial, Fail, Return
<1>2. CASE HostSendRequest
  BY <1>2, SendUpTyped DEF HostSendRequest
<1>3. CASE HostSendInput
  BY <1>3, SendUpTyped DEF HostSendInput, HostTyped
<1>4. CASE HostStartedFrame
  BY <1>4, <1>t DEF HostStartedFrame, Receives
<1>5. CASE HostOutputFrame
  BY <1>5, <1>t DEF HostOutputFrame, Receives
<1>6. CASE HostExitFrame
  BY <1>6, <1>t DEF HostExitFrame, Receives
<1>7. CASE HostErrorFrame
  BY <1>7, <1>t DEF HostErrorFrame, Receives
<1>8. CASE AgentDecodeRequest
  BY <1>8, <1>t DEF AgentDecodeRequest
<1>9. CASE AgentSendStarted
  BY <1>9, SendDownTyped DEF AgentSendStarted
<1>10. CASE AgentSendExit
  BY <1>10, SendDownTyped DEF AgentSendExit, CmdTyped
<1>11. CASE AgentSendError
  <2>1. Plain("error", ErrorCode) \in DownFrames
    BY DEF ErrorCode
  <2> QED
    BY <1>11, <2>1, SendDownTyped DEF AgentSendError
<1>12. ASSUME NEW t \in Streams, CopierSend(t) PROVE LinkTyped'
  BY <1>12, SendDownTyped DEF CopierSend, AgentTyped
<1>13. CASE Feeder
  BY <1>13, <1>t DEF Feeder
<1>14. CASE BreakLink
  BY <1>14 DEF BreakLink
<1>u. CASE UNCHANGED linkVars
  BY <1>u
<1> QED
  BY <1>1, <1>2, <1>3, <1>4, <1>5, <1>6, <1>7, <1>8, <1>9, <1>10, <1>11, <1>12, <1>13,
     <1>14, <1>u, LinkFootprint

(* The types of the command. *)
LEMMA CmdTypedStep ==
  ASSUME CmdTyped, FramesInv, [Next]_vars
  PROVE  CmdTyped'
<1> USE BoundsAssumption, ExitCodesAssumption DEF hostVars, linkVars, cmdVars,
   agentVars, CmdTyped, Streams
<1>1. CASE AgentStart
  BY <1>1 DEF AgentStart
<1>2. CASE AgentWait
  <2>1. pipe' = [s \in Streams |-> <<>>] /\ UNCHANGED <<cmd, child, written>> /\ readable' = FALSE
    BY <1>2 DEF AgentWait
  <2>2. pipe' \in [Streams -> Seq(Nat)] /\ \A s \in Streams : Len(pipe'[s]) = 0
    BY <2>1
  <2>3. \A s \in Streams : Len(pipe'[s]) <= PipeCap
    BY <2>2
  <2> QED
    BY <2>1, <2>2, <2>3
<1>3. ASSUME NEW t \in Streams, CopierRead(t) PROVE CmdTyped'
  BY <1>3 DEF CopierRead
<1>4. ASSUME NEW t \in Streams, CmdWrite(t) PROVE CmdTyped'
  BY <1>4 DEF CmdWrite
<1>5. CASE CmdExit
  BY <1>5 DEF CmdExit
<1>u. CASE UNCHANGED cmdVars
  BY <1>u
<1> QED
  BY <1>1, <1>2, <1>3, <1>4, <1>5, <1>u, CmdFootprint

(* The types of the agent. *)
LEMMA AgentTypedStep ==
  ASSUME AgentTyped, LinkTyped, HostTyped, CmdTyped, (\A s \in Streams : StreamInv(s)),
         InputInv, [Next]_vars
  PROVE  AgentTyped'
<1> USE BoundsAssumption DEF hostVars, linkVars, cmdVars, agentVars, AgentTyped, Streams
<1>1. CASE AgentDecodeRequest
  BY <1>1 DEF AgentDecodeRequest
<1>2. CASE AgentStart
  BY <1>2 DEF AgentStart
<1>3. CASE AgentSendStarted
  BY <1>3 DEF AgentSendStarted, SendDown, Plain, Frame
<1>4. CASE AgentWait
  BY <1>4 DEF AgentWait
<1>5. CASE AgentOutputWG
  BY <1>5 DEF AgentOutputWG
<1>6. CASE AgentSendExit
  BY <1>6 DEF AgentSendExit, SendDown, Plain, Frame
<1>7. CASE AgentSendError
  BY <1>7 DEF AgentSendError, SendDown, Plain, Frame
<1>8. ASSUME NEW t \in Streams, CopierRead(t) PROVE AgentTyped'
  <2>1. readable /\ pipe[t] # <<>> /\ pipe[t] \in Seq(Nat) /\ held' = [held EXCEPT ![t] = Head(pipe[t])]
    BY <1>8 DEF CopierRead, CmdTyped
  <2>2. /\ Head(pipe[t]) = written[t] - Len(pipe[t]) + 1 /\ Len(pipe[t]) <= written[t]
        /\ written[t] \in 0..MaxChunks[t] /\ Len(pipe[t]) \in Nat \ {0}
    BY <1>8, <2>1 DEF StreamInv, PipeInv, CmdTyped
  <2>3. Head(pipe[t]) \in 0..MaxChunks[t] /\ Head(pipe[t]) \in Nat
    BY <2>2, SMTT(30)
  <2> QED
    BY <1>8, <2>1, <2>3 DEF CopierRead
<1>9. ASSUME NEW t \in Streams, CopierSend(t) PROVE AgentTyped'
  BY <1>9 DEF CopierSend, SendDown, Chunk, Frame
<1>10. ASSUME NEW t \in Streams, CopierEnd(t) PROVE AgentTyped'
  BY <1>10 DEF CopierEnd
<1>11. CASE Feeder
  <2>1. ASSUME up # <<>>, Head(up).type = "stdin" PROVE Head(up).n \in 1..MaxInput
    <3>1. up[1] = Head(up) /\ 1 \in DOMAIN up /\ Kind(up[1]) = "stdin"
      BY <2>1 DEF LinkTyped, Kind
    <3>2. Head(up).n \in 1..input.sent /\ input.sent \in 0..MaxInput
      BY <3>1 DEF InputInv, Within, HostTyped
    <3> QED
      BY <3>2
  <2>2. \/ fed' = [fed EXCEPT !.open = FALSE] \/ fed' = fed
        \/ \E n \in 1..MaxInput : fed' = [fed EXCEPT !.chunks = Append(@, n)]
    BY <1>11, <2>1 DEF Feeder
  <2>3. fed' \in [chunks: Seq(1..MaxInput), open: BOOLEAN]
    <3>1. CASE fed' = [fed EXCEPT !.open = FALSE]
      BY <3>1
    <3>2. CASE fed' = fed
      BY <3>2
    <3>3. ASSUME NEW n \in 1..MaxInput, fed' = [fed EXCEPT !.chunks = Append(@, n)]
          PROVE  fed' \in [chunks: Seq(1..MaxInput), open: BOOLEAN]
      <4>1. fed.chunks \in Seq(1..MaxInput)
        OBVIOUS
      <4>2. Append(fed.chunks, n) \in Seq(1..MaxInput)
        BY <4>1
      <4> QED
        BY <3>3, <4>2
    <3> QED
      BY <2>2, <3>1, <3>2, <3>3
  <2> QED
    BY <1>11, <2>3 DEF Feeder
<1>u. CASE UNCHANGED agentVars
  BY <1>u
<1> QED
  BY <1>1, <1>2, <1>3, <1>4, <1>5, <1>6, <1>7, <1>8, <1>9, <1>10, <1>11, <1>u,
     AgentFootprint

(* Nothing is sent before the request. *)
LEMMA RequestStep ==
  ASSUME LinkTyped, RequestInv, [Next]_vars
  PROVE  RequestInv'
<1> USE DEF controlVars, hostVars, linkVars, cmdVars, agentVars, RequestInv
<1>1. CASE HostRecordStarted
  BY <1>1 DEF HostRecordStarted, Return
<1>2. CASE HostDial
  BY <1>2 DEF HostDial, Fail, Return
<1>3. CASE HostSendRequest
  BY <1>3 DEF HostSendRequest, SendUp, Fail, Return, Plain, Frame, Heard
<1>4. CASE HostSendInput
  BY <1>4 DEF HostSendInput, SendUp, Plain, Frame, Heard
<1>5. CASE HostDecodeError
  BY <1>5 DEF HostDecodeError, Fail, Return
<1>6. CASE HostStartedFrame
  BY <1>6 DEF HostStartedFrame, Receives
<1>7. CASE HostOutputFrame
  BY <1>7 DEF HostOutputFrame, Receives
<1>8. CASE HostExitFrame
  BY <1>8 DEF HostExitFrame, Receives, Return
<1>9. CASE HostErrorFrame
  BY <1>9 DEF HostErrorFrame, Receives, Fail, Return
<1>10. CASE HostRecordCompleted
  BY <1>10 DEF HostRecordCompleted, Return
<1>11. CASE HostRecordFailed
  BY <1>11 DEF HostRecordFailed, Return
<1>12. CASE AgentDecodeRequest
  BY <1>12 DEF AgentDecodeRequest
<1>13. CASE AgentStart
  BY <1>13 DEF AgentStart
<1>14. CASE AgentSendStarted
  BY <1>14 DEF AgentSendStarted, SendDown, Plain, Frame
<1>15. CASE AgentWait
  BY <1>15 DEF AgentWait
<1>16. CASE AgentOutputWG
  BY <1>16 DEF AgentOutputWG
<1>17. CASE AgentSendExit
  BY <1>17 DEF AgentSendExit, SendDown, Plain, Frame
<1>18. CASE AgentSendError
  BY <1>18 DEF AgentSendError, SendDown, Plain, Frame
<1>19. ASSUME NEW t \in Streams, CopierRead(t) PROVE RequestInv'
  BY <1>19 DEF CopierRead
<1>20. ASSUME NEW t \in Streams, CopierSend(t) PROVE RequestInv'
  BY <1>20 DEF CopierSend, SendDown, Chunk, Frame
<1>21. ASSUME NEW t \in Streams, CopierEnd(t) PROVE RequestInv'
  BY <1>21 DEF CopierEnd
<1>22. CASE Feeder
  BY <1>22 DEF Feeder, Heard
<1>23. CASE BreakLink
  BY <1>23 DEF BreakLink
<1>u. CASE UNCHANGED <<controlVars, linkVars, agentVars>>
  BY <1>u
<1> QED
  BY <1>1, <1>2, <1>3, <1>4, <1>5, <1>6, <1>7, <1>8, <1>9, <1>10, <1>11, <1>12, <1>13,
     <1>14, <1>15, <1>16, <1>17, <1>18, <1>19, <1>20, <1>21, <1>22, <1>23, <1>u,
     ControlFootprint, LinkFootprint, AgentFootprint

(* No answer and no terminal event before the end. *)
LEMMA AnswerStep ==
  ASSUME HostTyped, UnstartedInv, ExitCodeInv, AnswerInv, [Next]_vars
  PROVE  AnswerInv'
<1>t. RowsTyped /\ AtMostOne /\ Truthful /\ (host # "done" => ~result.ok /\ Quiet)
  BY DEF HostTyped, AnswerInv, OneTerminalEvent, HostDone
<1>s. UNCHANGED <<events, late>> =>
        Stored' = Stored /\ Told' = Told /\ AtMostOne' /\ (Quiet => Quiet')
  BY <1>t DEF AtMostOne, Stored, Told, Quiet
<1>q. ASSUME host # "done",
             \/ UNCHANGED <<events, late>>
             \/ \E type \in SessionEvents : ~Terminal(type) /\ MayRecord(type),
             host' # "done" => ~result'.ok, result'.ok => options'.suppress
      PROVE  AnswerInv'
  <2>1. AtMostOne' /\ Quiet'
    BY <1>t, <1>s, <1>q, RecordOne
  <2>2. Truthful'
    BY <1>q, <2>1 DEF Truthful, Quiet, Terminal
  <2> QED
    BY <1>q, <2>1, <2>2 DEF AnswerInv, OneTerminalEvent, HostDone
<1>f. ASSUME NEW code, Fail(code) PROVE ~result'.ok
  BY <1>f DEF Fail, Return
<1>e. \A type \in {"started", "process.started", "output"} :
        type \in SessionEvents /\ ~Terminal(type)
  BY DEF SessionEvents, Terminal
<1> USE DEF hostVars, linkVars, cmdVars, agentVars, HostTyped
<1>1. CASE HostRecordStarted
  BY <1>1, <1>q, <1>t, <1>e DEF HostRecordStarted, MayRecord, Return
<1>2. CASE HostDial
  BY <1>2, <1>q, <1>t, <1>f DEF HostDial
<1>3. CASE HostSendRequest
  BY <1>3, <1>q, <1>t, <1>f DEF HostSendRequest
<1>4. CASE HostSendInput
  BY <1>4, <1>q, <1>t DEF HostSendInput, HostDone
<1>5. CASE HostDecodeError
  BY <1>5, <1>q, <1>f DEF HostDecodeError
<1>6. CASE HostStartedFrame
  BY <1>6, <1>q, <1>t, <1>e DEF HostStartedFrame, Receives
<1>7. CASE HostOutputFrame
  BY <1>7, <1>q, <1>t, <1>e DEF HostOutputFrame, Receives
<1>8. CASE HostExitFrame
  BY <1>8, <1>q DEF HostExitFrame, Receives, Return
<1>9. CASE HostErrorFrame
  BY <1>9, <1>q, <1>f DEF HostErrorFrame, Receives
<1>10. CASE HostRecordCompleted
  <2>1. /\ host = "recordCompleted" /\ host' = "done" /\ MayRecord("completed")
        /\ \E ok \in BOOLEAN : result' = [code |-> result.code, ok |-> ok]
        /\ result'.ok => Answered("completed")
        /\ UNCHANGED cmd
    <3>1. CASE Answered("completed") /\ Return(result.code, TRUE)
      BY <1>10, <3>1 DEF HostRecordCompleted, MayRecord, Return
    <3>2. CASE Unanswered("completed") /\ Return(result.code, FALSE)
      BY <1>10, <3>2 DEF HostRecordCompleted, MayRecord, Return
    <3> QED
      BY <1>10, <3>1, <3>2 DEF HostRecordCompleted
  <2>2. "completed" \in SessionEvents /\ "failed" \notin Told
    BY <1>t, <2>1 DEF SessionEvents, Quiet, Terminal
  <2>3. /\ AtMostOne' /\ Told' \subseteq Told \cup {"completed"}
        /\ Answered("completed") => "completed" \in Stored'
    BY <1>t, <2>1, <2>2, RecordOne
  <2>4. cmd.at = "exited" /\ result.code = cmd.code
    BY <2>1 DEF ExitCodeInv
  <2>5. Truthful'
    BY <2>1, <2>2, <2>3, <2>4 DEF Truthful
  <2> QED
    BY <2>1, <2>3, <2>5 DEF AnswerInv, OneTerminalEvent, HostDone
<1>11. CASE HostRecordFailed
  <2>1. host = "recordFailed" /\ host' = "done" /\ MayRecord("failed") /\ ~result'.ok
    BY <1>11 DEF HostRecordFailed, Return
  <2>2. "failed" \in SessionEvents /\ "completed" \notin Told
    BY <1>t, <2>1 DEF SessionEvents, Quiet, Terminal
  <2>3. AtMostOne' /\ Told' \subseteq Told \cup {"failed"}
    BY <1>t, <2>1, <2>2, RecordOne
  <2>4. Truthful'
    BY <2>1, <2>2, <2>3 DEF Truthful, HostDone
  <2> QED
    BY <2>1, <2>3, <2>4 DEF AnswerInv, OneTerminalEvent, HostDone
<1>12. CASE StoreLate
  <2>1. AtMostOne' /\ Told' \subseteq Told \cup {"none"} /\ Stored \subseteq Stored'
    BY <1>12, <1>t, StoreOne
  <2>2. UNCHANGED <<options, host, result, cmd>>
    BY <1>12 DEF StoreLate
  <2>3. Truthful'
    BY <1>t, <2>1, <2>2 DEF Truthful, HostDone
  <2>4. Quiet => Quiet'
    BY <2>1, EventsTyped DEF Quiet
  <2> QED
    BY <1>t, <2>1, <2>2, <2>3, <2>4 DEF AnswerInv, OneTerminalEvent, HostDone
<1>u. CASE UNCHANGED hostVars
  <2>1. cmd.at = "exited" => UNCHANGED <<cmd.at, cmd.code>>
    BY CmdFootprint DEF AgentStart, UnstartedInv, AgentWait, CmdExit, CopierRead, CmdWrite
  <2>2. Truthful'
    BY <1>t, <1>s, <1>u, <2>1 DEF Truthful, HostDone
  <2> QED
    BY <1>t, <1>s, <1>u, <2>2 DEF AnswerInv, OneTerminalEvent, HostDone
<1> QED
  BY <1>1, <1>2, <1>3, <1>4, <1>5, <1>6, <1>7, <1>8, <1>9, <1>10, <1>11, <1>12, <1>u,
     HostFootprint

(* The code that is returned. *)
LEMMA ExitCodeStep ==
  ASSUME LinkTyped, CmdTyped, UnstartedInv, FramesInv, AnswerInv, ExitCodeInv,
         [Next]_vars
  PROVE  ExitCodeInv'
<1>d. ASSUME down # <<>>, Head(down).type = "exit"
      PROVE  cmd.at = "exited" /\ Head(down).n = cmd.code
  BY <1>d DEF LinkTyped, FramesInv
<1> USE DEF controlVars, hostVars, linkVars, cmdVars, agentVars, ExitCodeInv, ExitCodeFaithful,
   HostDone, AnswerInv
<1>1. CASE HostRecordStarted
  BY <1>1 DEF HostRecordStarted, Return
<1>2. CASE HostDial
  BY <1>2 DEF HostDial, Fail, Return
<1>3. CASE HostSendRequest
  BY <1>3 DEF HostSendRequest, SendUp, Fail, Return, Plain, Frame
<1>4. CASE HostSendInput
  BY <1>4 DEF HostSendInput, SendUp, Plain, Frame
<1>5. CASE HostDecodeError
  BY <1>5 DEF HostDecodeError, Fail, Return
<1>6. CASE HostStartedFrame
  BY <1>6 DEF HostStartedFrame, Receives
<1>7. CASE HostOutputFrame
  BY <1>7 DEF HostOutputFrame, Receives
<1>8. CASE HostExitFrame
  BY <1>8, <1>d DEF HostExitFrame, Receives, Return
<1>9. CASE HostErrorFrame
  BY <1>9 DEF HostErrorFrame, Receives, Fail, Return
<1>10. CASE HostRecordCompleted
  BY <1>10 DEF HostRecordCompleted, Return
<1>11. CASE HostRecordFailed
  BY <1>11 DEF HostRecordFailed, Return
<1>12. CASE AgentStart
  BY <1>12 DEF AgentStart, UnstartedInv
<1>13. CASE AgentWait
  BY <1>13 DEF AgentWait
<1>14. ASSUME NEW t \in Streams, CopierRead(t) PROVE ExitCodeInv'
  BY <1>14 DEF CopierRead
<1>15. ASSUME NEW t \in Streams, CmdWrite(t) PROVE ExitCodeInv'
  BY <1>15 DEF CmdWrite
<1>16. CASE CmdExit
  BY <1>16 DEF CmdExit
<1>u. CASE UNCHANGED <<controlVars, cmdVars>>
  BY <1>u
<1> QED
  BY <1>1, <1>2, <1>3, <1>4, <1>5, <1>6, <1>7, <1>8, <1>9, <1>10, <1>11, <1>12, <1>13,
     <1>14, <1>15, <1>16, <1>u, ControlFootprint, CmdFootprint

(* Who writes to the output of the host. *)
LEMMA DeliveredFootprint ==
  [Next]_vars =>
    \/ HostOutputFrame \/ UNCHANGED delivered
BY DEF Next, HostStep, AgentStep, Copier, vars, hostVars, linkVars, cmdVars, agentVars,
   HostRecordStarted, HostDial, HostSendRequest, HostSendInput, HostDecodeError,
   HostStartedFrame, HostExitFrame, HostErrorFrame, HostRecordCompleted,
   HostRecordFailed, AgentDecodeRequest, AgentStart, AgentSendStarted, AgentWait,
   AgentOutputWG, AgentSendExit, AgentSendError, CopierRead, CopierSend, CopierEnd,
   CmdWrite, Feeder, CmdExit, BreakLink, Over, StoreLate, Receives

(* Nothing runs before the command is started. *)
LEMMA UnstartedStep ==
  ASSUME LinkTyped, CmdTyped, AgentTyped, UnstartedInv, GoroutinesInv, [Next]_vars
  PROVE  UnstartedInv'
<1> USE DEF controlVars, hostVars, linkVars, cmdVars, agentVars, CmdTyped, AgentTyped, UnstartedInv,
   GoroutinesInv
<1>1. CASE HostDial
  BY <1>1 DEF HostDial, Fail, Return
<1>2. CASE HostSendRequest
  BY <1>2 DEF HostSendRequest, SendUp, Fail, Return, Plain, Frame
<1>3. CASE HostSendInput
  BY <1>3 DEF HostSendInput, SendUp, Plain, Frame
<1>4. CASE HostStartedFrame
  BY <1>4 DEF HostStartedFrame, Receives
<1>5. CASE HostOutputFrame
  BY <1>5 DEF HostOutputFrame, Receives
<1>6. CASE HostExitFrame
  BY <1>6 DEF HostExitFrame, Receives, Return
<1>7. CASE HostErrorFrame
  BY <1>7 DEF HostErrorFrame, Receives, Fail, Return
<1>8. CASE AgentDecodeRequest
  BY <1>8 DEF AgentDecodeRequest
<1>9. CASE AgentStart
  BY <1>9 DEF AgentStart
<1>10. CASE AgentSendStarted
  BY <1>10 DEF AgentSendStarted, SendDown, Plain, Frame
<1>11. CASE AgentWait
  BY <1>11 DEF AgentWait
<1>12. CASE AgentOutputWG
  BY <1>12 DEF AgentOutputWG
<1>13. CASE AgentSendExit
  BY <1>13 DEF AgentSendExit, SendDown, Plain, Frame
<1>14. CASE AgentSendError
  BY <1>14 DEF AgentSendError, SendDown, Plain, Frame
<1>15. ASSUME NEW t \in Streams, CopierRead(t) PROVE UnstartedInv'
  BY <1>15 DEF CopierRead
<1>16. ASSUME NEW t \in Streams, CopierSend(t) PROVE UnstartedInv'
  BY <1>16 DEF CopierSend, SendDown, Chunk, Frame
<1>17. ASSUME NEW t \in Streams, CopierEnd(t) PROVE UnstartedInv'
  BY <1>17 DEF CopierEnd
<1>18. ASSUME NEW t \in Streams, CmdWrite(t) PROVE UnstartedInv'
  BY <1>18 DEF CmdWrite
<1>19. CASE Feeder
  BY <1>19 DEF Feeder, Heard
<1>20. CASE CmdExit
  BY <1>20 DEF CmdExit
<1>21. CASE BreakLink
  BY <1>21 DEF BreakLink
<1>u. CASE UNCHANGED <<agentVars, cmdVars, linkVars, delivered>>
  BY <1>u
<1> QED
  BY <1>1, <1>2, <1>3, <1>4, <1>5, <1>6, <1>7, <1>8, <1>9, <1>10, <1>11, <1>12, <1>13,
     <1>14, <1>15, <1>16, <1>17, <1>18, <1>19, <1>20, <1>21, <1>u, LinkFootprint,
     AgentFootprint, CmdFootprint, DeliveredFootprint

(* When the agent's goroutines run. *)
LEMMA GoroutinesStep ==
  ASSUME CmdTyped, AgentTyped, UnstartedInv, GoroutinesInv, [Next]_vars
  PROVE  GoroutinesInv'
<1> USE DEF controlVars, hostVars, linkVars, cmdVars, agentVars, CmdTyped, AgentTyped, UnstartedInv,
   GoroutinesInv, AgentDone
<1>1. CASE AgentDecodeRequest
  BY <1>1 DEF AgentDecodeRequest
<1>2. CASE AgentStart
  BY <1>2 DEF AgentStart
<1>3. CASE AgentSendStarted
  BY <1>3 DEF AgentSendStarted, SendDown, Plain, Frame
<1>4. CASE AgentWait
  BY <1>4 DEF AgentWait
<1>5. CASE AgentOutputWG
  BY <1>5 DEF AgentOutputWG
<1>6. CASE AgentSendExit
  BY <1>6 DEF AgentSendExit, SendDown, Plain, Frame
<1>7. CASE AgentSendError
  BY <1>7 DEF AgentSendError, SendDown, Plain, Frame
<1>8. ASSUME NEW t \in Streams, CopierRead(t) PROVE GoroutinesInv'
  BY <1>8 DEF CopierRead
<1>9. ASSUME NEW t \in Streams, CopierSend(t) PROVE GoroutinesInv'
  BY <1>9 DEF CopierSend, SendDown, Chunk, Frame
<1>10. ASSUME NEW t \in Streams, CopierEnd(t) PROVE GoroutinesInv'
  BY <1>10 DEF CopierEnd
<1>11. ASSUME NEW t \in Streams, CmdWrite(t) PROVE GoroutinesInv'
  BY <1>11 DEF CmdWrite
<1>12. CASE Feeder
  BY <1>12 DEF Feeder, Heard
<1>13. CASE CmdExit
  BY <1>13 DEF CmdExit
<1>u. CASE UNCHANGED <<agentVars, cmdVars>>
  BY <1>u
<1> QED
  BY <1>1, <1>2, <1>3, <1>4, <1>5, <1>6, <1>7, <1>8, <1>9, <1>10, <1>11, <1>12, <1>13,
     <1>u, AgentFootprint, CmdFootprint

(* When the command may have exited, and when its pipes are open.          *)
LEMMA ExitStep ==
  ASSUME LinkTyped, CmdTyped, AgentTyped, RequestInv, UnstartedInv, GoroutinesInv, ExitInv,
         [Next]_vars
  PROVE  ExitInv'
<1> USE DEF controlVars, hostVars, linkVars, cmdVars, agentVars, LinkTyped, CmdTyped, AgentTyped,
   RequestInv,
   UnstartedInv, GoroutinesInv, ExitInv
<1>1. CASE HostRecordStarted
  BY <1>1 DEF HostRecordStarted, Return
<1>2. CASE HostDial
  BY <1>2 DEF HostDial, Fail, Return
<1>3. CASE HostSendRequest
  BY <1>3 DEF HostSendRequest, SendUp, Fail, Return, Plain, Frame, Heard
<1>4. CASE HostSendInput
  BY <1>4 DEF HostSendInput, SendUp, Plain, Frame, Heard
<1>5. CASE HostDecodeError
  BY <1>5 DEF HostDecodeError, Fail, Return
<1>6. CASE HostStartedFrame
  BY <1>6 DEF HostStartedFrame, Receives
<1>7. CASE HostOutputFrame
  BY <1>7 DEF HostOutputFrame, Receives
<1>8. CASE HostExitFrame
  BY <1>8 DEF HostExitFrame, Receives, Return
<1>9. CASE HostErrorFrame
  BY <1>9 DEF HostErrorFrame, Receives, Fail, Return
<1>10. CASE HostRecordCompleted
  BY <1>10 DEF HostRecordCompleted, Return
<1>11. CASE HostRecordFailed
  BY <1>11 DEF HostRecordFailed, Return
<1>12. CASE AgentDecodeRequest
  BY <1>12 DEF AgentDecodeRequest
<1>13. CASE AgentStart
  BY <1>13 DEF AgentStart
<1>14. CASE AgentSendStarted
  BY <1>14 DEF AgentSendStarted, SendDown, Plain, Frame
<1>15. CASE AgentWait
  BY <1>15 DEF AgentWait
<1>16. CASE AgentOutputWG
  BY <1>16 DEF AgentOutputWG
<1>17. CASE AgentSendExit
  BY <1>17 DEF AgentSendExit, SendDown, Plain, Frame
<1>18. CASE AgentSendError
  BY <1>18 DEF AgentSendError, SendDown, Plain, Frame
<1>19. ASSUME NEW t \in Streams, CopierRead(t) PROVE ExitInv'
  BY <1>19 DEF CopierRead
<1>20. ASSUME NEW t \in Streams, CopierSend(t) PROVE ExitInv'
  BY <1>20 DEF CopierSend, SendDown, Chunk, Frame
<1>21. ASSUME NEW t \in Streams, CopierEnd(t) PROVE ExitInv'
  BY <1>21 DEF CopierEnd
<1>22. ASSUME NEW t \in Streams, CmdWrite(t) PROVE ExitInv'
  BY <1>22 DEF CmdWrite
<1>23. CASE Feeder
  BY <1>23 DEF Feeder, Heard
<1>24. CASE BreakLink
  BY <1>24 DEF BreakLink
<1>25. CASE CmdExit
  BY <1>25 DEF CmdExit
<1>26. CASE Over
  BY <1>26 DEF Over, vars
<1>27. CASE StoreLate
  BY <1>27 DEF StoreLate
<1>u. CASE UNCHANGED vars
  BY <1>u DEF vars
<1> QED
  BY <1>1, <1>2, <1>3, <1>4, <1>5, <1>6, <1>7, <1>8, <1>9, <1>10, <1>11, <1>12, <1>13,
     <1>14, <1>15, <1>16, <1>17, <1>18, <1>19, <1>20, <1>21, <1>22, <1>23, <1>24, <1>25,
     <1>26, <1>27, <1>u
     DEF Next, HostStep, AgentStep, Copier

(* When the command's stdin is open. *)
LEMMA StdinStep ==
  ASSUME AgentTyped, GoroutinesInv, StdinInv, [Next]_vars
  PROVE  StdinInv'
<1> USE DEF controlVars, hostVars, linkVars, cmdVars, agentVars, AgentTyped, StdinInv, GoroutinesInv
<1>1. CASE AgentDecodeRequest
  BY <1>1 DEF AgentDecodeRequest
<1>2. CASE AgentStart
  BY <1>2 DEF AgentStart
<1>3. CASE AgentSendStarted
  BY <1>3 DEF AgentSendStarted, SendDown, Plain, Frame
<1>4. CASE AgentWait
  BY <1>4 DEF AgentWait
<1>5. CASE AgentOutputWG
  BY <1>5 DEF AgentOutputWG
<1>6. CASE AgentSendExit
  BY <1>6 DEF AgentSendExit, SendDown, Plain, Frame
<1>7. CASE AgentSendError
  BY <1>7 DEF AgentSendError, SendDown, Plain, Frame
<1>8. ASSUME NEW t \in Streams, CopierRead(t) PROVE StdinInv'
  BY <1>8 DEF CopierRead
<1>9. ASSUME NEW t \in Streams, CopierSend(t) PROVE StdinInv'
  BY <1>9 DEF CopierSend, SendDown, Chunk, Frame
<1>10. ASSUME NEW t \in Streams, CopierEnd(t) PROVE StdinInv'
  BY <1>10 DEF CopierEnd
<1>11. CASE Feeder
  BY <1>11 DEF Feeder, Heard
<1>u. CASE UNCHANGED agentVars
  BY <1>u
<1> QED
  BY <1>1, <1>2, <1>3, <1>4, <1>5, <1>6, <1>7, <1>8, <1>9, <1>10, <1>11, <1>u,
     AgentFootprint

(* What the frames of the agent say. *)
LEMMA FramesStep ==
  ASSUME LinkTyped, CmdTyped, AgentTyped, UnstartedInv, GoroutinesInv, FramesInv,
         [Next]_vars
  PROVE  FramesInv'
<1>t. ASSUME down # <<>>, down' = Tail(down), UNCHANGED <<agent, cmd>> PROVE FramesInv'
  <2>1. /\ DOMAIN down = 1..Len(down) /\ Len(down) \in Nat \ {0}
        /\ DOMAIN Tail(down) = 1..Len(down) - 1 /\ Len(Tail(down)) = Len(down) - 1
        /\ \A i \in 1..Len(down) - 1 : Tail(down)[i] = down[i + 1] /\ i + 1 \in DOMAIN down
    BY <1>t DEF LinkTyped
  <2> QED
    BY <1>t, <2>1 DEF FramesInv, AgentDone
<1>a. ASSUME NEW frame \in DownFrames, SendDown(frame), ~AgentDone, UNCHANGED cmd,
             Ending(frame.type) => agent' = "closed",
             frame.type = "exit" => cmd.at = "exited" /\ frame.n = cmd.code,
             frame.type = "error" => frame.n \in {1, 127}
      PROVE  FramesInv'
  <2>1. CASE UNCHANGED down
    BY <1>a, <2>1 DEF FramesInv, AgentDone
  <2>2. CASE down' = Append(down, frame)
    <3>1. /\ DOMAIN down = 1..Len(down) /\ Len(down) \in Nat
          /\ DOMAIN down' = 1..Len(down) + 1 /\ Len(down') = Len(down) + 1
          /\ \A i \in 1..Len(down) : down'[i] = down[i]
          /\ down'[Len(down) + 1] = frame
      BY <2>2 DEF LinkTyped
    <3> QED
      BY <1>a, <3>1 DEF FramesInv, AgentDone
  <2> QED
    BY <1>a, <2>1, <2>2 DEF SendDown
<1>f. /\ Plain("started", 0).type = "started" /\ Plain("error", ErrorCode).type = "error"
      /\ Plain("exit", cmd.code).type = "exit" /\ Plain("error", ErrorCode).n \in {1, 127}
      /\ Plain("exit", cmd.code).n = cmd.code
      /\ \A s \in Streams, n \in Int : Chunk(s, n).type = "output"
  BY DEF Plain, Chunk, Frame, ErrorCode
<1> USE DEF controlVars, hostVars, linkVars, cmdVars, agentVars, AgentDone
<1>1. CASE HostDial
  BY <1>1 DEF HostDial, FramesInv, Ending
<1>2. CASE HostSendRequest
  BY <1>2 DEF HostSendRequest, FramesInv, Ending
<1>3. CASE HostSendInput
  BY <1>3 DEF HostSendInput, FramesInv, Ending
<1>4. CASE HostStartedFrame
  BY <1>4, <1>t DEF HostStartedFrame, Receives
<1>5. CASE HostOutputFrame
  BY <1>5, <1>t DEF HostOutputFrame, Receives
<1>6. CASE HostExitFrame
  BY <1>6, <1>t DEF HostExitFrame, Receives
<1>7. CASE HostErrorFrame
  BY <1>7, <1>t DEF HostErrorFrame, Receives
<1>8. CASE AgentDecodeRequest
  BY <1>8 DEF AgentDecodeRequest, FramesInv, Ending
<1>9. CASE AgentStart
  BY <1>9 DEF AgentStart, FramesInv, UnstartedInv
<1>10. CASE AgentSendStarted
  BY <1>10, <1>a, <1>f, FramesTyped DEF AgentSendStarted, Ending
<1>11. CASE AgentWait
  BY <1>11 DEF AgentWait, FramesInv, Ending
<1>12. CASE AgentOutputWG
  BY <1>12 DEF AgentOutputWG, FramesInv, Ending
<1>13. CASE AgentSendExit
  <2>1. cmd.at = "exited" /\ Plain("exit", cmd.code) \in DownFrames
    BY <1>13, FramesTyped, ExitCodesAssumption DEF AgentSendExit, GoroutinesInv, CmdTyped
  <2> QED
    BY <1>13, <1>a, <1>f, <2>1 DEF AgentSendExit
<1>14. CASE AgentSendError
  <2>1. Plain("error", ErrorCode) \in DownFrames
    BY FramesTyped DEF ErrorCode
  <2> QED
    BY <1>14, <1>a, <1>f, <2>1 DEF AgentSendError, Ending
<1>15. ASSUME NEW t \in Streams, CopierRead(t) PROVE FramesInv'
  BY <1>15 DEF CopierRead, FramesInv, Ending
<1>16. ASSUME NEW t \in Streams, CopierSend(t) PROVE FramesInv'
  <2>1. Chunk(t, held[t]) \in DownFrames /\ ~AgentDone /\ ~Ending("output")
    BY <1>16, FramesTyped DEF CopierSend, Ending, GoroutinesInv, AgentTyped
  <2>2. Chunk(t, held[t]).type = "output"
    BY DEF Chunk, Frame
  <2> QED
    BY <1>16, <1>a, <2>1, <2>2 DEF CopierSend
<1>17. ASSUME NEW t \in Streams, CopierEnd(t) PROVE FramesInv'
  BY <1>17 DEF CopierEnd, FramesInv, Ending
<1>18. ASSUME NEW t \in Streams, CmdWrite(t) PROVE FramesInv'
  BY <1>18 DEF CmdWrite, FramesInv, Ending
<1>19. CASE Feeder
  BY <1>19 DEF Feeder, FramesInv, Ending
<1>20. CASE CmdExit
  BY <1>20 DEF CmdExit, FramesInv, CmdTyped, Ending
<1>21. CASE BreakLink
  <2>1. PICK k \in 0..Len(down) : down' = SubSeq(down, 1, k)
    BY <1>21 DEF BreakLink
  <2>2. /\ DOMAIN down = 1..Len(down) /\ Len(down) \in Nat /\ DOMAIN down' = 1..k /\ Len(down') = k
        /\ \A i \in 1..k : down'[i] = down[i]
    BY <2>1 DEF LinkTyped
  <2>3. UNCHANGED <<agent, cmd>>
    BY <1>21 DEF BreakLink
  <2> QED
    BY <2>2, <2>3 DEF FramesInv
<1>u. CASE UNCHANGED <<agentVars, cmdVars, linkVars>>
  BY <1>u DEF FramesInv, Ending
<1> QED
  BY <1>1, <1>2, <1>3, <1>4, <1>5, <1>6, <1>7, <1>8, <1>9, <1>10, <1>11, <1>12, <1>13,
     <1>14, <1>15, <1>16, <1>17, <1>18, <1>19, <1>20, <1>21, <1>u, LinkFootprint,
     AgentFootprint, CmdFootprint

(* What a pipe and its copier hold. *)
LEMMA PipeStep ==
  ASSUME CmdTyped, AgentTyped, UnstartedInv, GoroutinesInv,
         (\A s \in Streams : PipeInv(s)), [Next]_vars
  PROVE  (\A s \in Streams : PipeInv(s))'
<1> USE DEF controlVars, hostVars, linkVars, cmdVars, agentVars, PipeInv
<1>1. CASE AgentDecodeRequest
  BY <1>1 DEF AgentDecodeRequest
<1>2. CASE AgentStart
  BY <1>2 DEF AgentStart, UnstartedInv, CmdTyped, AgentTyped
<1>3. CASE AgentSendStarted
  BY <1>3 DEF AgentSendStarted, GoroutinesInv
<1>4. CASE AgentWait
  <2> SUFFICES ASSUME NEW s \in Streams PROVE PipeInv(s)'
    OBVIOUS
  <2>1. pipe'[s] = <<>> /\ readable' = FALSE /\ UNCHANGED <<written, held, copier>>
    BY <1>4 DEF AgentWait
  <2>2. held[s] <= written[s]
    <3>1. held[s] \in Nat /\ written[s] \in Nat /\ Len(pipe[s]) \in Nat
      BY DEF CmdTyped, AgentTyped
    <3>2. readable \in BOOLEAN /\ PipeInv(s)
      BY DEF CmdTyped
    <3> QED
      BY <3>1, <3>2
  <2> QED
    BY <2>1, <2>2
<1>5. CASE AgentOutputWG
  BY <1>5 DEF AgentOutputWG
<1>6. CASE AgentSendExit
  BY <1>6 DEF AgentSendExit, SendDown, Plain, Frame
<1>7. CASE AgentSendError
  BY <1>7 DEF AgentSendError, SendDown, Plain, Frame
<1>8. ASSUME NEW t \in Streams, CopierRead(t) PROVE (\A s \in Streams : PipeInv(s))'
  <2> SUFFICES ASSUME NEW s \in Streams PROVE PipeInv(s)'
    OBVIOUS
  <2>1. CASE s = t
    <3>1. /\ readable /\ pipe[s] # <<>> /\ UNCHANGED <<written, readable>>
          /\ copier'[s] = "sending" /\ held'[s] = Head(pipe[s]) /\ pipe'[s] = Tail(pipe[s])
      BY <1>8, <2>1 DEF CopierRead, CmdTyped, AgentTyped
    <3>2. /\ pipe[s] \in Seq(Nat) /\ Len(pipe[s]) \in Nat \ {0} /\ DOMAIN pipe[s] = 1..Len(pipe[s])
          /\ Len(pipe'[s]) = Len(pipe[s]) - 1 /\ DOMAIN pipe'[s] = 1..Len(pipe[s]) - 1
          /\ \A i \in 1..Len(pipe[s]) - 1 : pipe'[s][i] = pipe[s][i + 1]
          /\ held'[s] = pipe[s][1] /\ written[s] \in Nat
      BY <3>1 DEF CmdTyped
    <3>3. /\ Len(pipe[s]) <= written[s]
          /\ \A i \in 1..Len(pipe[s]) : pipe[s][i] = written[s] - Len(pipe[s]) + i
      BY <3>1, <3>2
    <3>4. held'[s] = written[s] - Len(pipe[s]) + 1 /\ held'[s] # 0
      BY <3>2, <3>3
    <3>5. \A i \in DOMAIN pipe'[s] : pipe'[s][i] = written[s] - Len(pipe'[s]) + i
      <4> SUFFICES ASSUME NEW i \in 1..Len(pipe[s]) - 1
                   PROVE  pipe'[s][i] = written[s] - Len(pipe'[s]) + i
        BY <3>2
      <4>1. i + 1 \in 1..Len(pipe[s])
        BY <3>2
      <4>2. pipe'[s][i] = written[s] - Len(pipe[s]) + (i + 1)
        BY <3>2, <3>3, <4>1
      <4>3. /\ Len(pipe'[s]) = Len(pipe[s]) - 1 /\ Len(pipe[s]) \in Nat
            /\ written[s] \in Nat /\ i \in Int
        BY <3>2
      <4>4. written[s] - Len(pipe'[s]) + i = written[s] - Len(pipe[s]) + (i + 1)
        BY ONLY <4>3, SMTT(30)
      <4> QED
        BY ONLY <4>2, <4>4
    <3> QED
      BY <3>1, <3>2, <3>3, <3>4, <3>5
  <2>2. CASE s # t
    BY <1>8, <2>2 DEF CopierRead, CmdTyped, AgentTyped
  <2> QED
    BY <2>1, <2>2
<1>9. ASSUME NEW t \in Streams, CopierSend(t) PROVE (\A s \in Streams : PipeInv(s))'
  BY <1>9 DEF CopierSend, CmdTyped, AgentTyped
<1>10. ASSUME NEW t \in Streams, CopierEnd(t) PROVE (\A s \in Streams : PipeInv(s))'
  BY <1>10 DEF CopierEnd, AgentTyped
<1>11. ASSUME NEW t \in Streams, CmdWrite(t) PROVE (\A s \in Streams : PipeInv(s))'
  <2> SUFFICES ASSUME NEW s \in Streams PROVE PipeInv(s)'
    OBVIOUS
  <2>1. CASE s = t
    <3>1. /\ readable /\ readable' /\ UNCHANGED <<copier, held>>
          /\ written'[s] = written[s] + 1 /\ pipe'[s] = Append(pipe[s], written[s] + 1)
      BY <1>11, <2>1 DEF CmdWrite, CmdTyped
    <3>2. /\ Len(pipe[s]) \in Nat /\ DOMAIN pipe[s] = 1..Len(pipe[s])
          /\ Len(pipe'[s]) = Len(pipe[s]) + 1 /\ DOMAIN pipe'[s] = 1..Len(pipe[s]) + 1
          /\ \A i \in 1..Len(pipe[s]) : pipe'[s][i] = pipe[s][i]
          /\ pipe'[s][Len(pipe[s]) + 1] = written[s] + 1 /\ written[s] \in Nat /\ held[s] \in Nat
      BY <3>1 DEF CmdTyped, AgentTyped
    <3>3. /\ Len(pipe[s]) <= written[s] /\ (held[s] # 0 => held[s] = written[s] - Len(pipe[s]))
          /\ \A i \in 1..Len(pipe[s]) : pipe[s][i] = written[s] - Len(pipe[s]) + i
          /\ copier[s] = "sending" <=> held[s] # 0
      BY <3>1, <3>2
    <3>4. \A i \in DOMAIN pipe'[s] : pipe'[s][i] = written'[s] - Len(pipe'[s]) + i
      <4> SUFFICES ASSUME NEW i \in 1..Len(pipe[s]) + 1
                   PROVE  pipe'[s][i] = written[s] + 1 - (Len(pipe[s]) + 1) + i
        BY <3>1, <3>2
      <4>1. CASE i \in 1..Len(pipe[s])
        <5>1. pipe'[s][i] = written[s] - Len(pipe[s]) + i
          BY <3>2, <3>3, <4>1
        <5> QED
          BY <3>2, <5>1
      <4>2. CASE i = Len(pipe[s]) + 1
        <5>1. pipe'[s][i] = written[s] + 1
          BY <3>2, <4>2
        <5> QED
          BY <3>2, <4>2, <5>1
      <4> QED
        BY <3>2, <4>1, <4>2
    <3> QED
      BY <3>1, <3>2, <3>3, <3>4, SMTT(30)
  <2>2. CASE s # t
    BY <1>11, <2>2 DEF CmdWrite, CmdTyped
  <2> QED
    BY <2>1, <2>2
<1>12. CASE Feeder
  BY <1>12 DEF Feeder, Heard
<1>13. CASE CmdExit
  BY <1>13 DEF CmdExit
<1>u. CASE UNCHANGED <<cmdVars, agentVars>>
  BY <1>u
<1> QED
  BY <1>1, <1>2, <1>3, <1>4, <1>5, <1>6, <1>7, <1>8, <1>9, <1>10, <1>11, <1>12, <1>13,
     <1>u, CmdFootprint, AgentFootprint

(* What is on its way to a stream of the host. *)
LEMMA FlowStep ==
  ASSUME HostTyped, LinkTyped, CmdTyped, AgentTyped, RequestInv, UnstartedInv,
         GoroutinesInv, (\A s \in Streams : StreamInv(s)), [Next]_vars
  PROVE  (\A s \in Streams : FlowInv(s))'
<1> SUFFICES ASSUME NEW s \in Streams PROVE FlowInv(s)'
  OBVIOUS
<1>v. FlowInv(s) /\ PipeInv(s)
  BY DEF StreamInv
<1>n. /\ delivered[s] \in Seq(Nat) /\ Len(delivered[s]) \in Nat /\ written[s] \in Nat
      /\ held[s] \in Nat /\ Len(pipe[s]) \in Nat /\ Sent(s) \in Int /\ readable \in BOOLEAN
  BY DEF HostTyped, CmdTyped, AgentTyped, Sent
<1>q. down \in Seq(Frames) /\ DownFrames \subseteq Frames
  <2>1. DownFrames \subseteq Frames
    BY DEF DownFrames, Frames
  <2>2. down \in Seq(DownFrames)
    BY DEF LinkTyped
  <2> QED
    BY <2>1, <2>2
<1>k. ASSUME UNCHANGED <<down, link>>, delivered'[s] = delivered[s], written'[s] \in Int,
             written'[s] >= written[s], HostDone => HostDone',
             link = "open" /\ ~HostDone /\ (readable' \/ held'[s] # 0)
               => (readable \/ held[s] # 0) /\ Sent(s)' = Sent(s)
      PROVE  FlowInv(s)'
  <2>1. Within(down, s, written'[s])
    BY <1>k, <1>v, <1>n, <1>q, WithinKept DEF FlowInv
  <2>2. Len(delivered[s]) <= written'[s]
    BY <1>k, <1>v, <1>n DEF FlowInv
  <2> QED
    BY <1>k, <1>v, <2>1, <2>2 DEF FlowInv
<1>b. ASSUME down' = <<>>, delivered'[s] = <<>>, written'[s] = 0, Sent(s)' = 0
      PROVE  FlowInv(s)'
  <2>1. Reaches(<<>>, s, 0, 0) /\ Consecutive(<<>>, s, 0) /\ Within(<<>>, s, 0) /\ Numbered(<<>>)
    BY DEF Reaches, Consecutive, Within, Numbered
  <2>2. Len(delivered'[s]) = 0
    BY <1>b
  <2> QED
    BY <1>b, <2>1, <2>2 DEF FlowInv
<1>a. ASSUME NEW f \in DownFrames, Kind(f) # s, SendDown(f),
             UNCHANGED <<host, delivered, link, written, pipe, readable, held>>
      PROVE  FlowInv(s)'
  <2>1. Sent(s)' = Sent(s) /\ HostDone' = HostDone
    BY <1>a DEF Sent, HostDone
  <2>2. CASE down' = Append(down, f)
    <3>1. Consecutive(down', s, Len(delivered[s])) /\ Within(down', s, written[s])
      <4>1. f \in Frames /\ written[s] \in Int /\ Len(delivered[s]) \in Int
        BY <1>n, <1>q
      <4>2. Consecutive(down', s, Len(delivered[s]))
        BY <1>a, <1>v, <1>q, <2>2, <4>1, AppendOther DEF FlowInv
      <4>3. Within(down', s, written[s])
        BY <1>a, <1>v, <1>q, <2>2, <4>1, WithinKept DEF FlowInv
      <4> QED
        BY <4>2, <4>3
    <3>2. ASSUME Reaches(down, s, Len(delivered[s]), Sent(s))
          PROVE  Reaches(down', s, Len(delivered[s]), Sent(s))
      BY <1>a, <1>n, <1>q, <2>2, <3>2, AppendOther
    <3> QED
      BY <1>a, <1>v, <2>1, <3>1, <3>2 DEF FlowInv
  <2>3. CASE UNCHANGED down
    BY <1>a, <1>k, <1>n, <2>1, <2>3
  <2> QED
    BY <1>a, <2>2, <2>3 DEF SendDown
<1>t. ASSUME down # <<>>, Kind(Head(down)) # s, down' = Tail(down), delivered'[s] = delivered[s],
             UNCHANGED <<link, written, pipe, readable, held>>, ~HostDone
      PROVE  FlowInv(s)'
  <2>1. Sent(s)' = Sent(s)
    BY <1>t DEF Sent
  <2>2. Consecutive(down', s, Len(delivered[s])) /\ Within(down', s, written[s])
    <3>1. written[s] \in Int /\ Len(delivered[s]) \in Int
      BY <1>n
    <3>2. Consecutive(down', s, Len(delivered[s]))
      BY <1>t, <1>v, <1>q, <3>1, TailOther DEF FlowInv
    <3>3. Within(down', s, written[s])
      BY <1>t, <1>v, <1>q, <3>1, WithinKept DEF FlowInv
    <3> QED
      BY <3>2, <3>3
  <2>3. ASSUME Reaches(down, s, Len(delivered[s]), Sent(s))
        PROVE  Reaches(down', s, Len(delivered[s]), Sent(s))
    BY <1>t, <1>n, <1>q, <2>3, TailOther
  <2> QED
    BY <1>t, <1>v, <2>1, <2>2, <2>3 DEF FlowInv
<1>p. \A type, n : Kind(Plain(type, n)) = IF type = "output" THEN "stdout" ELSE type
  BY DEF Kind, Plain, Frame
<1>c. \A u \in Streams : \A n : Kind(Chunk(u, n)) = u /\ Chunk(u, n).n = n
  BY DEF Kind, Chunk, Frame
<1>e. s \notin {"started", "exit", "error"}
  BY DEF Streams
<1>h. down # <<>> => Kind(Head(down)) = IF Head(down).type = "output" THEN Head(down).stream
                                        ELSE Head(down).type
  BY DEF Kind
<1>s. ASSUME agent \in {"decodeRequest", "start"}
      PROVE  /\ down = <<>> /\ delivered[s] = <<>> /\ written[s] = 0
             /\ pipe[s] = <<>> /\ held[s] = 0 /\ ~readable
  BY <1>s, <1>v DEF UnstartedInv, GoroutinesInv, PipeInv
<1> USE DEF controlVars, hostVars, linkVars, cmdVars, agentVars
<1>1. CASE HostRecordStarted
  BY <1>1, <1>k, <1>n DEF HostRecordStarted, Sent, HostDone
<1>2. CASE HostDial
  <2>1. link = "none" /\ agent = "decodeRequest"
    BY <1>2 DEF HostDial, RequestInv
  <2>2. UNCHANGED <<down, delivered, written, pipe, held>>
    BY <1>2 DEF HostDial
  <2>3. Sent(s)' = 0
    BY <1>s, <2>1, <2>2 DEF Sent
  <2> QED
    BY <1>b, <1>s, <2>1, <2>2, <2>3
<1>3. CASE HostSendRequest
  BY <1>3, <1>k, <1>n DEF HostSendRequest, Sent, HostDone
<1>4. CASE HostSendInput
  BY <1>4, <1>k, <1>n DEF HostSendInput, Sent, HostDone
<1>5. CASE HostDecodeError
  BY <1>5, <1>k, <1>n DEF HostDecodeError, Sent, HostDone
<1>6. CASE HostStartedFrame
  BY <1>6, <1>e, <1>h, <1>t DEF HostStartedFrame, Receives, HostDone
<1>7. CASE HostOutputFrame
  <2> DEFINE f == Head(down)
  <2>1. /\ ~HostDone /\ down # <<>> /\ f.type = "output" /\ down' = Tail(down)
        /\ UNCHANGED <<link, written, pipe, readable, held>> /\ UNCHANGED host
        /\ delivered' = [delivered EXCEPT ![f.stream] = Append(@, f.n)]
    BY <1>7 DEF HostOutputFrame, Receives, HostDone
  <2>2. f \in DownFrames /\ 1 \in DOMAIN down /\ down[1] = f
    BY <2>1, TailTyped DEF LinkTyped
  <2>3. Kind(f) = f.stream /\ f.stream \in Streams
    BY <2>1, <2>2 DEF Kind, DownFrames
  <2>4. CASE f.stream # s
    <3>1. delivered'[s] = delivered[s]
      BY <2>1, <2>3, <2>4 DEF HostTyped
    <3> QED
      BY <1>t, <2>1, <2>3, <2>4, <3>1
  <2>5. CASE f.stream = s
    <3>1. /\ f.n = Len(delivered[s]) + 1 /\ Consecutive(Tail(down), s, Len(delivered[s]) + 1)
          /\ \A high \in Int : Reaches(down, s, Len(delivered[s]), high)
                               => Reaches(Tail(down), s, Len(delivered[s]) + 1, high)
      BY <1>v, <1>n, <1>q, <2>1, <2>3, <2>5, TailNext DEF FlowInv
    <3>2. Within(Tail(down), s, written[s]) /\ f.n <= written[s]
      <4>1. Within(Tail(down), s, written[s])
        BY <1>v, <1>n, <1>q, <2>1, WithinKept DEF FlowInv
      <4>2. f.n \in 1..written[s]
        BY <1>v, <2>2, <2>3, <2>5 DEF FlowInv, Within
      <4> QED
        BY <4>1, <4>2
    <3>3. delivered'[s] = Append(delivered[s], Len(delivered[s]) + 1)
      BY <2>1, <2>3, <2>5, <3>1 DEF HostTyped
    <3>4. Len(delivered'[s]) = Len(delivered[s]) + 1 /\ Numbered(delivered'[s])
      <4>1. /\ DOMAIN delivered'[s] = 1..Len(delivered[s]) + 1
            /\ DOMAIN delivered[s] = 1..Len(delivered[s])
            /\ \A i \in 1..Len(delivered[s]) : delivered'[s][i] = delivered[s][i]
            /\ delivered'[s][Len(delivered[s]) + 1] = Len(delivered[s]) + 1
            /\ Len(delivered'[s]) = Len(delivered[s]) + 1
        BY <1>n, <3>3
      <4>2. \A i \in 1..Len(delivered[s]) : delivered[s][i] = i
        BY <1>v, <4>1 DEF FlowInv, Numbered
      <4>3. ASSUME NEW i \in DOMAIN delivered'[s] PROVE delivered'[s][i] = i
        <5>1. i \in 1..Len(delivered[s]) \/ i = Len(delivered[s]) + 1
          BY <1>n, <4>1, <4>3
        <5> QED
          BY <4>1, <4>2, <5>1
      <4>4. Numbered(delivered'[s])
        BY <4>3 DEF Numbered
      <4> QED
        BY <4>1, <4>4
    <3>5. Sent(s)' = Sent(s)
      BY <2>1 DEF Sent
    <3>6. Len(delivered'[s]) <= written[s]
      BY <3>1, <3>2, <3>4
    <3> HIDE DEF f
    <3> QED
      BY <1>v, <1>n, <2>1, <3>1, <3>2, <3>4, <3>5, <3>6 DEF FlowInv, HostDone
  <2> QED
    BY <2>4, <2>5
<1>8. CASE HostExitFrame
  BY <1>8, <1>e, <1>h, <1>t DEF HostExitFrame, Receives, HostDone
<1>9. CASE HostErrorFrame
  BY <1>9, <1>e, <1>h, <1>t DEF HostErrorFrame, Receives, HostDone
<1>10. CASE HostRecordCompleted
  BY <1>10, <1>k, <1>n DEF HostRecordCompleted, Sent, HostDone
<1>11. CASE HostRecordFailed
  BY <1>11, <1>k, <1>n DEF HostRecordFailed, Sent, HostDone
<1>12. CASE AgentDecodeRequest
  BY <1>12, <1>k, <1>n DEF AgentDecodeRequest, Sent, HostDone
<1>13. CASE AgentStart
  <2>1. agent = "start" /\ UNCHANGED <<down, delivered, written, pipe, held>>
    BY <1>13 DEF AgentStart
  <2>2. Sent(s)' = 0
    BY <1>s, <2>1 DEF Sent
  <2> QED
    BY <1>b, <1>s, <2>1, <2>2
<1>14. CASE AgentSendStarted
  <2>1. Plain("started", 0) \in DownFrames /\ Kind(Plain("started", 0)) # s
    BY <1>e, <1>p, FramesTyped, ExitCodesAssumption DEF CmdTyped
  <2> QED
    BY <1>14, <1>a, <2>1 DEF AgentSendStarted
<1>15. CASE AgentWait
  <2>1. readable' = FALSE /\ UNCHANGED <<host, down, link, delivered, written, held>>
    BY <1>15 DEF AgentWait
  <2>2. held[s] # 0 => Sent(s)' = Sent(s)
    BY <2>1 DEF Sent
  <2> QED
    BY <1>k, <1>n, <2>1, <2>2 DEF HostDone
<1>16. CASE AgentOutputWG
  BY <1>16, <1>k, <1>n DEF AgentOutputWG, Sent, HostDone
<1>17. CASE AgentSendExit
  <2>1. Plain("exit", cmd.code) \in DownFrames /\ Kind(Plain("exit", cmd.code)) # s
    BY <1>e, <1>p, FramesTyped, ExitCodesAssumption DEF CmdTyped
  <2> QED
    BY <1>17, <1>a, <2>1 DEF AgentSendExit
<1>18. CASE AgentSendError
  <2>1. Plain("error", ErrorCode) \in DownFrames /\ Kind(Plain("error", ErrorCode)) # s
    BY <1>e, <1>p, FramesTyped DEF ErrorCode
  <2> QED
    BY <1>18, <1>a, <2>1 DEF AgentSendError
<1>19. ASSUME NEW t \in Streams, CopierRead(t) PROVE FlowInv(s)'
  <2>1. /\ UNCHANGED <<host, down, link, delivered, written, readable>> /\ readable
        /\ pipe' = [pipe EXCEPT ![t] = Tail(@)] /\ held' = [held EXCEPT ![t] = Head(pipe[t])]
        /\ pipe[t] # <<>> /\ copier[t] = "reading"
    BY <1>19 DEF CopierRead
  <2>2. Sent(s)' = Sent(s)
    <3>1. CASE s = t
      <4>1. pipe'[s] = Tail(pipe[s]) /\ held'[s] = pipe[s][1]
        BY <2>1, <3>1 DEF CmdTyped, AgentTyped
      <4>2. Len(pipe[s]) # 0 /\ Len(pipe'[s]) = Len(pipe[s]) - 1 /\ 1 \in DOMAIN pipe[s]
        BY <2>1, <3>1, <4>1 DEF CmdTyped
      <4>3. held[s] = 0 /\ held'[s] = written[s] - Len(pipe[s]) + 1 /\ Len(pipe[s]) <= written[s]
        BY <1>v, <2>1, <3>1, <4>1, <4>2 DEF PipeInv
      <4> QED
        BY <1>n, <2>1, <4>2, <4>3 DEF Sent
    <3>2. CASE s # t
      BY <2>1, <3>2 DEF Sent, CmdTyped, AgentTyped
    <3> QED
      BY <3>1, <3>2
  <2> QED
    BY <1>k, <1>n, <2>1, <2>2 DEF HostDone
<1>20. ASSUME NEW t \in Streams, CopierSend(t) PROVE FlowInv(s)'
  <2>1. /\ copier[t] = "sending" /\ SendDown(Chunk(t, held[t])) /\ held' = [held EXCEPT ![t] = 0]
        /\ UNCHANGED <<host, delivered, link, written, pipe, readable>>
    BY <1>20 DEF CopierSend
  <2>2. Chunk(t, held[t]) \in DownFrames
    BY FramesTyped DEF AgentTyped
  <2>3. CASE s # t
    <3>1. held'[s] = held[s] /\ Kind(Chunk(t, held[t])) # s
      BY <1>c, <2>1, <2>3 DEF AgentTyped
    <3>2. CASE UNCHANGED down
      BY <1>k, <1>n, <2>1, <3>1, <3>2 DEF Sent, HostDone
    <3>3. CASE down' = Append(down, Chunk(t, held[t]))
      <4>1. Consecutive(down', s, Len(delivered[s])) /\ Within(down', s, written[s])
        <5> DEFINE f == Chunk(t, held[t])
        <5>1. f \in Frames /\ written[s] \in Int /\ Len(delivered[s]) \in Int
          BY <1>n, <1>q, <2>2
        <5>2. Kind(f) # s /\ down' = Append(down, f)
          BY <3>1, <3>3
        <5> HIDE DEF f
        <5>3. Consecutive(down', s, Len(delivered[s]))
          BY <1>v, <1>q, <5>1, <5>2, AppendOther DEF FlowInv
        <5>4. Within(down', s, written[s])
          BY <1>v, <1>q, <5>1, <5>2, WithinKept DEF FlowInv
        <5> QED
          BY <5>3, <5>4
      <4>2. ASSUME Reaches(down, s, Len(delivered[s]), Sent(s))
            PROVE  Reaches(down', s, Len(delivered[s]), Sent(s))
        BY <1>n, <1>q, <2>2, <3>1, <3>3, <4>2, AppendOther
      <4>3. Sent(s)' = Sent(s)
        BY <2>1, <3>1 DEF Sent
      <4> QED
        BY <1>v, <2>1, <3>1, <4>1, <4>2, <4>3 DEF FlowInv, HostDone
    <3> QED
      BY <2>1, <3>2, <3>3 DEF SendDown
  <2>4. CASE s = t
    <3>1. held'[s] = 0 /\ held[s] # 0
      BY <1>v, <2>1, <2>4 DEF AgentTyped, PipeInv
    <3>2. held[s] \in 1..written[s] /\ (readable => Sent(s)' = held[s])
      BY <1>v, <1>n, <2>1, <3>1 DEF PipeInv, Sent
    <3>3. CASE ~Heard(HostDone)
      <4>1. UNCHANGED down /\ ~(link = "open" /\ ~HostDone)
        BY <2>1, <3>3 DEF SendDown, Heard
      <4> QED
        BY <1>k, <1>n, <2>1, <4>1 DEF HostDone
    <3>4. CASE Heard(HostDone)
      <4> DEFINE f == Chunk(s, held[s])
      <4>1. down' = Append(down, f) /\ link = "open" /\ ~HostDone
        BY <2>1, <2>4, <3>4 DEF SendDown, Heard
      <4>2. Kind(f) = s /\ f.n = held[s] /\ f \in Frames
        BY <1>c, <1>q, <2>2, <2>4
      <4>3. Sent(s) = held[s] - 1 /\ Reaches(down, s, Len(delivered[s]), Sent(s))
        BY <1>v, <3>1, <4>1 DEF FlowInv, Sent
      <4> HIDE DEF f
      <4>4. f.n = Sent(s) + 1 /\ Sent(s) + 1 = held[s] /\ held[s] \in Int
        BY <1>n, <4>2, <4>3
      <4>5. /\ Consecutive(down', s, Len(delivered[s]))
            /\ Reaches(down', s, Len(delivered[s]), held[s])
        BY <1>v, <1>n, <1>q, <4>1, <4>2, <4>3, <4>4, AppendNext DEF FlowInv
      <4>6. Within(down', s, written[s])
        BY <1>v, <1>n, <1>q, <3>2, <4>1, <4>2, WithinKept DEF FlowInv
      <4> QED
        BY <1>v, <2>1, <3>1, <3>2, <4>5, <4>6 DEF FlowInv
    <3> QED
      BY <3>3, <3>4
  <2> QED
    BY <2>3, <2>4
<1>21. ASSUME NEW t \in Streams, CopierEnd(t) PROVE FlowInv(s)'
  BY <1>21, <1>k, <1>n DEF CopierEnd, Sent, HostDone
<1>22. ASSUME NEW t \in Streams, CmdWrite(t) PROVE FlowInv(s)'
  <2>1. /\ UNCHANGED <<host, down, link, delivered, held, readable>> /\ readable
        /\ written' = [written EXCEPT ![t] = @ + 1]
        /\ pipe' = [pipe EXCEPT ![t] = Append(@, written'[t])]
    BY <1>22 DEF CmdWrite
  <2>2. Sent(s)' = Sent(s) /\ written'[s] \in Int /\ written'[s] >= written[s]
    <3>1. CASE s = t
      <4>1. Len(pipe'[s]) = Len(pipe[s]) + 1 /\ written'[s] = written[s] + 1
        BY <2>1, <3>1 DEF CmdTyped
      <4> QED
        BY <1>n, <2>1, <4>1 DEF Sent
    <3>2. CASE s # t
      BY <1>n, <2>1, <3>2 DEF Sent, CmdTyped
    <3> QED
      BY <3>1, <3>2
  <2> QED
    BY <1>k, <1>n, <2>1, <2>2 DEF HostDone
<1>23. CASE Feeder
  BY <1>23, <1>k, <1>n DEF Feeder, Sent, HostDone
<1>24. CASE CmdExit
  BY <1>24, <1>k, <1>n DEF CmdExit, Sent, HostDone
<1>25. CASE BreakLink
  <2>1. PICK k \in 0..Len(down) : down' = SubSeq(down, 1, k)
    BY <1>25 DEF BreakLink
  <2>2. link' = "broken" /\ UNCHANGED <<delivered, written>>
    BY <1>25 DEF BreakLink
  <2>3. Consecutive(down', s, Len(delivered[s])) /\ Within(down', s, written[s])
    BY <1>v, <1>n, <1>q, <2>1, PrefixConsecutive, WithinKept DEF FlowInv
  <2> QED
    BY <1>v, <2>2, <2>3 DEF FlowInv
<1>u. CASE UNCHANGED <<controlVars, linkVars, cmdVars, agentVars>>
  BY <1>u, <1>k, <1>n DEF Sent, HostDone
<1> QED
  BY <1>1, <1>2, <1>3, <1>4, <1>5, <1>6, <1>7, <1>8, <1>9, <1>10, <1>11, <1>12, <1>13,
     <1>14, <1>15, <1>16, <1>17, <1>18, <1>19, <1>20, <1>21, <1>22, <1>23, <1>24, <1>25,
     <1>u, ControlFootprint, LinkFootprint, CmdFootprint, AgentFootprint

(* What is on its way to the standard input of the command. *)
LEMMA InputStep ==
  ASSUME HostTyped, LinkTyped, AgentTyped, RequestInv, UnstartedInv, GoroutinesInv,
         StdinInv, InputInv, [Next]_vars
  PROVE  InputInv'
<1> DEFINE Before == {"recordStarted", "dial", "sendRequest"}
           k == Len(fed.chunks)
<1>n. /\ fed.chunks \in Seq(1..MaxInput) /\ k \in Nat /\ input.sent \in Nat /\ fed.open \in BOOLEAN
  BY DEF HostTyped, AgentTyped
<1>q. up \in Seq(Frames) /\ UpFrames \subseteq Frames
  <2>1. UpFrames \subseteq Frames
    BY DEF UpFrames, Frames
  <2>2. up \in Seq(UpFrames)
    BY DEF LinkTyped
  <2> QED
    BY <2>1, <2>2
<1>k. ASSUME UNCHANGED <<up, link>>, input'.sent = input.sent, fed'.chunks = fed.chunks,
             TakesInput' => TakesInput,
             agent' = "decodeRequest" => agent = "decodeRequest"
                                         /\ (link = "open" /\ host' \notin Before => host \notin Before)
      PROVE  InputInv'
  BY <1>k DEF InputInv
<1>c. ASSUME up' = <<>>, input'.sent = input.sent, fed'.chunks = fed.chunks,
             link' = "open" /\ TakesInput' => k = 0 /\ input.sent = 0,
             link' = "open" => host' \in Before
      PROVE  InputInv'
  <2>1. /\ Consecutive(<<>>, "stdin", k) /\ Within(<<>>, "stdin", input.sent)
        /\ k = 0 /\ input.sent = 0 => Reaches(<<>>, "stdin", k, input.sent)
    BY DEF Reaches, Consecutive, Within
  <2> QED
    BY <1>c, <2>1 DEF InputInv
<1>p. /\ \A n : Kind(Plain("stdin", n)) = "stdin" /\ Plain("stdin", n).n = n
      /\ Kind(Plain("stdin_eof", 0)) # "stdin"
      /\ Kind(Plain("request", 0)) # "stdin" /\ Plain("request", 0).type = "request"
  BY DEF Kind, Plain, Frame
<1>h. up # <<>> => /\ 1 \in DOMAIN up /\ up[1] = Head(up) /\ Head(up) \in UpFrames
                   /\ Kind(Head(up)) = Head(up).type
  <2> SUFFICES ASSUME up # <<>> PROVE /\ 1 \in DOMAIN up /\ up[1] = Head(up) /\ Head(up) \in UpFrames
                                      /\ Kind(Head(up)) = Head(up).type
    OBVIOUS
  <2>1. 1 \in DOMAIN up /\ up[1] = Head(up) /\ Head(up) \in UpFrames
    BY DEF LinkTyped
  <2> QED
    BY <2>1 DEF Kind, UpFrames
<1>t. ASSUME up # <<>>, up' = Tail(up), UNCHANGED <<link, input>>, fed'.chunks = fed.chunks,
             TakesInput' => TakesInput /\ Head(up).type # "stdin", agent' # "decodeRequest"
      PROVE  InputInv'
  <2>1. Within(up', "stdin", input.sent)
    BY <1>t, <1>n, <1>q, WithinKept DEF InputInv
  <2>2. ASSUME TakesInput'
        PROVE  /\ Consecutive(up', "stdin", k)
               /\ link = "open" => Reaches(up', "stdin", k, input.sent)
    <3>1. Kind(Head(up)) # "stdin" /\ k \in Int /\ input.sent \in Int
      BY <1>t, <1>h, <1>n, <2>2
    <3>2. Consecutive(up, "stdin", k) /\ (link = "open" => Reaches(up, "stdin", k, input.sent))
      BY <1>t, <2>2 DEF InputInv
    <3> HIDE DEF k
    <3> QED
      BY <1>t, <1>q, <3>1, <3>2, TailOther
  <2> QED
    BY <1>t, <2>1, <2>2 DEF InputInv
<1>a. ASSUME NEW f \in UpFrames, up' = Append(up, f), UNCHANGED <<link, agent, fed>>,
             \/ Kind(f) # "stdin" /\ input'.sent = input.sent
             \/ Kind(f) = "stdin" /\ f.n = input.sent + 1 /\ input'.sent = input.sent + 1 /\ link = "open",
             up = <<>> => f.type = "request" \/ agent # "decodeRequest"
      PROVE  InputInv'
  <2> DEFINE m == input'.sent
  <2>1. f \in Frames /\ m \in Int /\ m >= input.sent /\ input.sent \in Int /\ k \in Int /\ k <= m
    BY <1>a, <1>n, <1>q DEF InputInv
  <2>2. Kind(f) = "stdin" => f.n \in 1..m
    BY <1>a, <1>n
  <2>3. Within(up, "stdin", m)
    BY <1>n, <1>q, <2>1, WithinKept DEF InputInv
  <2> HIDE DEF m, k
  <2>4. Within(up', "stdin", m)
    BY <1>a, <1>q, <2>1, <2>2, <2>3, WithinKept
  <2>5. ASSUME TakesInput
        PROVE  Consecutive(up', "stdin", k) /\ (link = "open" => Reaches(up', "stdin", k, m))
    <3>1. Consecutive(up, "stdin", k) /\ (link = "open" => Reaches(up, "stdin", k, input.sent))
      BY <2>5 DEF InputInv, k
    <3>2. CASE Kind(f) # "stdin" /\ input'.sent = input.sent
      BY <1>a, <1>q, <2>1, <3>1, <3>2, AppendOther DEF m
    <3>3. CASE Kind(f) = "stdin" /\ f.n = input.sent + 1 /\ input'.sent = input.sent + 1 /\ link = "open"
      <4>1. Consecutive(Append(up, f), Kind(f), k) /\ Reaches(Append(up, f), Kind(f), k, input.sent + 1)
        BY <1>q, <2>1, <3>1, <3>3, AppendNext
      <4> QED
        BY <1>a, <3>3, <4>1 DEF m
    <3> QED
      BY <1>a, <3>2, <3>3
  <2>6. up' # <<>> /\ (agent = "decodeRequest" => up'[1].type = "request")
    <3>1. up' # <<>>
      BY <1>a, <1>q
    <3>2. CASE up = <<>>
      BY <1>a, <3>2
    <3>3. CASE up # <<>>
      <4>1. up'[1] = up[1]
        BY <1>a, <1>q, <3>3
      <4> QED
        BY <3>1, <3>3, <4>1 DEF InputInv
    <3> QED
      BY <3>1, <3>2, <3>3
  <2>7. TakesInput' = TakesInput
    BY <1>a DEF TakesInput
  <2> QED
    BY <1>a, <2>1, <2>4, <2>5, <2>6, <2>7 DEF InputInv, m, k
<1>s. agent \in {"decodeRequest", "start"} => k = 0 /\ ~fed.open
  BY DEF UnstartedInv, StdinInv
<1> HIDE DEF k
<1> USE DEF controlVars, hostVars, linkVars, cmdVars, agentVars
<1>1. CASE HostRecordStarted
  BY <1>1, <1>k DEF HostRecordStarted, RequestInv, TakesInput
<1>2. CASE HostDial
  <2>1. /\ link = "none" /\ up = <<>> /\ input.sent = 0 /\ agent = "decodeRequest"
        /\ UNCHANGED <<up, input, fed, agent>> /\ (link' = "open" => host' = "sendRequest")
    <3>1. link = "none"
      BY <1>2 DEF HostDial, RequestInv
    <3> QED
      BY <1>2, <3>1 DEF HostDial, RequestInv
  <2> QED
    BY <1>c, <1>s, <2>1
<1>3. CASE HostSendRequest
  <2>1. /\ up = <<>> /\ input'.sent = input.sent /\ UNCHANGED <<link, agent, fed>>
    <3>1. input' = [input EXCEPT !.at = "reading"] \/ input' = input
      BY <1>3 DEF HostSendRequest
    <3> QED
      BY <1>3, <3>1 DEF HostSendRequest, RequestInv, HostTyped
  <2>2. CASE link = "open" /\ Heard(AgentDone) /\ up' = Append(up, Plain("request", 0))
    BY <1>a, <1>p, <2>1, <2>2, FramesTyped
  <2>3. CASE ~Heard(AgentDone) /\ UNCHANGED up
    BY <1>k, <2>1, <2>3 DEF Heard, AgentDone, TakesInput
  <2>4. CASE link = "broken" /\ UNCHANGED up
    BY <1>k, <2>1, <2>4 DEF TakesInput
  <2> QED
    BY <1>3, <2>2, <2>3, <2>4 DEF HostSendRequest, SendUp
<1>4. CASE HostSendInput
  <2>1. host \notin Before /\ UNCHANGED <<host, link, agent, fed>>
    BY <1>4 DEF HostSendInput, RequestInv
  <2>2. agent = "decodeRequest" /\ link = "open" => up # <<>>
    BY <2>1 DEF InputInv
  <2>3. CASE SendUp(Plain("stdin", input.sent + 1)) /\ input' = [input EXCEPT !.sent = @ + 1]
    <3> DEFINE f == Plain("stdin", input.sent + 1)
    <3>1. input'.sent = input.sent + 1
      BY <2>3 DEF HostTyped
    <3>2. f \in UpFrames /\ Kind(f) = "stdin" /\ f.n = input.sent + 1
      BY <1>n, <1>p, FramesTyped
    <3>3. CASE Heard(AgentDone) /\ up' = Append(up, f)
      <4> HIDE DEF f
      <4> QED
        BY <1>a, <2>1, <2>2, <3>1, <3>2, <3>3 DEF Heard
    <3>4. CASE ~Heard(AgentDone) /\ UNCHANGED up
      <4>1. Within(up, "stdin", input.sent + 1) /\ k <= input.sent + 1
        <5>1. input.sent \in Int /\ input.sent + 1 \in Int /\ input.sent + 1 >= input.sent
          BY <1>n
        <5>2. Within(up, "stdin", input.sent + 1)
          BY <1>q, <5>1, WithinKept DEF InputInv
        <5>3. k <= input.sent + 1
          BY <1>n DEF InputInv, k
        <5> QED
          BY <5>2, <5>3
      <4>2. ~(link = "open" /\ TakesInput)
        BY <3>4 DEF Heard, AgentDone, TakesInput, StdinInv
      <4>3. TakesInput' = TakesInput
        BY <2>1 DEF TakesInput
      <4> QED
        BY <2>1, <3>1, <3>4, <4>1, <4>2, <4>3 DEF InputInv, k
    <3> QED
      BY <2>3, <3>3, <3>4 DEF SendUp
  <2>4. CASE SendUp(Plain("stdin_eof", 0)) /\ input' = [input EXCEPT !.at = "done"]
    <3>1. input'.sent = input.sent
      BY <2>4 DEF HostTyped
    <3>2. CASE Heard(AgentDone) /\ up' = Append(up, Plain("stdin_eof", 0))
      BY <1>a, <1>p, <2>1, <2>2, <3>1, <3>2, FramesTyped DEF Heard
    <3>3. CASE UNCHANGED up
      BY <1>k, <2>1, <3>1, <3>3 DEF TakesInput
    <3> QED
      BY <2>4, <3>2, <3>3 DEF SendUp
  <2> QED
    BY <1>4, <2>3, <2>4 DEF HostSendInput
<1>5. CASE HostDecodeError
  BY <1>5, <1>k DEF HostDecodeError, RequestInv, TakesInput
<1>6. CASE HostStartedFrame
  BY <1>6, <1>k DEF HostStartedFrame, Receives, TakesInput
<1>7. CASE HostOutputFrame
  BY <1>7, <1>k DEF HostOutputFrame, Receives, TakesInput
<1>8. CASE HostExitFrame
  BY <1>8, <1>k DEF HostExitFrame, Receives, TakesInput
<1>9. CASE HostErrorFrame
  BY <1>9, <1>k DEF HostErrorFrame, Receives, TakesInput
<1>10. CASE HostRecordCompleted
  BY <1>10, <1>k DEF HostRecordCompleted, RequestInv, TakesInput
<1>11. CASE HostRecordFailed
  BY <1>11, <1>k DEF HostRecordFailed, RequestInv, TakesInput
<1>12. CASE AgentDecodeRequest
  <2>1. UNCHANGED <<link, input, fed>> /\ agent = "decodeRequest"
    BY <1>12 DEF AgentDecodeRequest
  <2>2. CASE up # <<>> /\ up' = Tail(up) /\ agent' = "start"
    <3>1. Head(up).type = "request"
      BY <1>h, <2>1, <2>2 DEF InputInv
    <3> QED
      BY <1>t, <2>1, <2>2, <3>1 DEF TakesInput
  <2>3. CASE up = <<>> /\ link = "broken" /\ UNCHANGED up /\ agent' = "closed"
    BY <1>k, <1>s, <2>1, <2>3 DEF TakesInput
  <2> QED
    BY <1>12, <2>2, <2>3 DEF AgentDecodeRequest
<1>13. CASE AgentStart
  <2>1. fed'.chunks = fed.chunks /\ UNCHANGED <<up, link, input>> /\ agent' # "decodeRequest"
    BY <1>13 DEF AgentStart, AgentTyped
  <2>2. TakesInput' => TakesInput
    <3>1. fed'.open => fed.open \/ agent = "start"
      BY <1>13 DEF AgentStart, AgentTyped
    <3> QED
      BY <1>13, <3>1 DEF AgentStart, TakesInput
  <2> QED
    BY <1>k, <2>1, <2>2
<1>14. CASE AgentSendStarted
  <2>1. fed'.chunks = fed.chunks /\ UNCHANGED <<up, link, input>> /\ agent' # "decodeRequest"
    BY <1>14 DEF AgentSendStarted, AgentTyped
  <2>2. TakesInput' => TakesInput
    <3>1. fed'.open => fed.open \/ agent = "start"
      BY <1>14 DEF AgentSendStarted, AgentTyped
    <3> QED
      BY <1>14, <3>1 DEF AgentSendStarted, TakesInput
  <2> QED
    BY <1>k, <2>1, <2>2
<1>15. CASE AgentWait
  BY <1>15, <1>k DEF AgentWait, TakesInput
<1>16. CASE AgentOutputWG
  BY <1>16, <1>k DEF AgentOutputWG, TakesInput
<1>17. CASE AgentSendExit
  BY <1>17, <1>k DEF AgentSendExit, TakesInput
<1>18. CASE AgentSendError
  BY <1>18, <1>k DEF AgentSendError, TakesInput
<1>19. ASSUME NEW t \in Streams, CopierRead(t) PROVE InputInv'
  BY <1>19, <1>k DEF CopierRead, TakesInput
<1>20. ASSUME NEW t \in Streams, CopierSend(t) PROVE InputInv'
  BY <1>20, <1>k DEF CopierSend, TakesInput
<1>21. ASSUME NEW t \in Streams, CopierEnd(t) PROVE InputInv'
  BY <1>21, <1>k DEF CopierEnd, TakesInput
<1>22. CASE Feeder
  <2>1. feeder = "decoding" /\ UNCHANGED <<link, input, agent>> /\ agent \notin {"decodeRequest", "start"}
    BY <1>22 DEF Feeder, GoroutinesInv
  <2>2. (TakesInput => fed.open) /\ (TakesInput' => fed'.open)
    BY <1>n, <2>1 DEF TakesInput
  <2>3. ASSUME fed' = [fed EXCEPT !.open = FALSE]
        PROVE  fed'.chunks = fed.chunks /\ ~fed'.open
    BY <2>3 DEF AgentTyped
  <2>4. CASE up # <<>> /\ up' = Tail(up) /\ fed' = [fed EXCEPT !.open = FALSE]
    BY <1>t, <2>1, <2>2, <2>3, <2>4
  <2>5. CASE up = <<>> /\ UNCHANGED up /\ fed' = [fed EXCEPT !.open = FALSE]
    BY <1>k, <2>1, <2>2, <2>3, <2>5
  <2>6. CASE up # <<>> /\ up' = Tail(up) /\ ~fed.open /\ UNCHANGED fed
    BY <1>t, <2>1, <2>2, <2>6
  <2>7. CASE /\ up # <<>> /\ up' = Tail(up) /\ fed.open /\ Head(up).type = "stdin"
             /\ fed' = [fed EXCEPT !.chunks = Append(@, Head(up).n)]
    <3>1. Kind(Head(up)) = "stdin" /\ 1 \in DOMAIN up /\ up[1] = Head(up)
      BY <1>h, <2>7
    <3>2. Consecutive(up, "stdin", k) /\ (link = "open" => Reaches(up, "stdin", k, input.sent))
      BY <2>2, <2>7 DEF InputInv, TakesInput, k
    <3>3. k \in Int /\ input.sent \in Int
      BY <1>n DEF k
    <3>4. /\ Head(up).n = k + 1 /\ Consecutive(Tail(up), "stdin", k + 1)
          /\ \A high \in Int : Reaches(up, "stdin", k, high) => Reaches(Tail(up), "stdin", k + 1, high)
      BY <1>q, <2>7, <3>1, <3>2, <3>3, TailNext
    <3>5. Within(Tail(up), "stdin", input.sent)
      BY <1>q, <2>7, <3>3, WithinKept DEF InputInv
    <3>6. k + 1 <= input.sent
      BY <3>1, <3>4 DEF InputInv, Within
    <3>7. fed'.chunks = Append(fed.chunks, k + 1) /\ fed'.open
      BY <2>7, <3>4 DEF AgentTyped
    <3>8. Len(fed'.chunks) = k + 1 /\ Numbered(fed'.chunks)
      <4>1. /\ Len(fed'.chunks) = k + 1 /\ DOMAIN fed'.chunks = 1..k + 1 /\ DOMAIN fed.chunks = 1..k
            /\ \A i \in 1..k : fed'.chunks[i] = fed.chunks[i]
            /\ fed'.chunks[k + 1] = k + 1
        BY <1>n, <3>7 DEF k
      <4>2. \A i \in 1..k : fed.chunks[i] = i
        BY <4>1 DEF InputInv, Numbered
      <4>3. ASSUME NEW i \in DOMAIN fed'.chunks PROVE fed'.chunks[i] = i
        <5>1. i \in 1..k \/ i = k + 1
          BY <3>3, <4>1, <4>3
        <5> QED
          BY <4>1, <4>2, <5>1
      <4> QED
        BY <4>1, <4>3 DEF Numbered
    <3> QED
      BY <2>1, <2>7, <3>2, <3>3, <3>4, <3>5, <3>6, <3>8 DEF InputInv
  <2> QED
    BY <1>22, <1>n, <2>4, <2>5, <2>6, <2>7 DEF Feeder
<1>23. CASE BreakLink
  BY <1>23, <1>c DEF BreakLink
<1>u. CASE UNCHANGED <<controlVars, linkVars, agentVars>>
  BY <1>u, <1>k DEF TakesInput
<1> QED
  BY <1>1, <1>2, <1>3, <1>4, <1>5, <1>6, <1>7, <1>8, <1>9, <1>10, <1>11, <1>12, <1>13,
     <1>14, <1>15, <1>16, <1>17, <1>18, <1>19, <1>20, <1>21, <1>22, <1>23, <1>u,
     ControlFootprint, LinkFootprint, AgentFootprint

---------------------------------------------------------------------------
(* The invariant.                                                          *)

LEMMA EInvInit == Init => EInv
<1> SUFFICES ASSUME Init PROVE EInv
  OBVIOUS
<1>1. HostTyped /\ LinkTyped /\ CmdTyped /\ AgentTyped
  <2>1. HostTyped
    BY BoundsAssumption DEF Init, HostTyped, RowsTyped
  <2>2. LinkTyped
    BY BoundsAssumption DEF Init, LinkTyped
  <2>3. CmdTyped
    <3>1. \A s \in Streams : written[s] \in 0..MaxChunks[s]
      BY BoundsAssumption DEF Init, Streams
    <3>2. pipe \in [Streams -> Seq(Nat)] /\ \A s \in Streams : Len(pipe[s]) = 0
      BY DEF Init
    <3>3. \A s \in Streams : Len(pipe[s]) <= PipeCap
      BY <3>2, BoundsAssumption
    <3> QED
      BY <3>1, <3>2, <3>3, ExitCodesAssumption DEF Init, CmdTyped
  <2>4. AgentTyped
    BY BoundsAssumption DEF Init, AgentTyped, Streams
  <2> QED
    BY <2>1, <2>2, <2>3, <2>4
<1>2. result \in Results
  BY ExitCodesAssumption DEF Init, NoResult, Results
<1>3. Typed
  BY <1>1, <1>2, TypedParts
<1>4. RequestInv /\ ExitCodeInv /\ UnstartedInv
  BY DEF Init, RequestInv, ExitCodeInv, ExitCodeFaithful, HostDone, UnstartedInv, Streams
<1>5. AnswerInv
  BY DEF Init, NoResult, AnswerInv, OneTerminalEvent, AtMostOne, Truthful, Quiet, Told, Stored,
     Terminal, HostDone
<1>6. GoroutinesInv /\ ExitInv /\ StdinInv /\ FramesInv
  BY DEF Init, GoroutinesInv, ExitInv, AgentDone, StdinInv, FramesInv
<1>7. ASSUME NEW s \in Streams PROVE StreamInv(s)
  BY DEF Init, StreamInv, FlowInv, PipeInv, Numbered, Consecutive, Within
<1>8. InputInv
  BY DEF Init, InputInv, Numbered, Consecutive, Within
<1> QED
  BY <1>3, <1>4, <1>5, <1>6, <1>7, <1>8 DEF EInv

LEMMA EInvStep == EInv /\ [Next]_vars => EInv'
<1> SUFFICES ASSUME EInv, [Next]_vars PROVE EInv'
  OBVIOUS
<1>1. HostTyped /\ result \in Results /\ LinkTyped /\ CmdTyped /\ AgentTyped
  BY TypedParts DEF EInv
<1>2. /\ RequestInv /\ AnswerInv /\ ExitCodeInv /\ UnstartedInv /\ GoroutinesInv /\ ExitInv
      /\ StdinInv /\ FramesInv /\ (\A s \in Streams : StreamInv(s)) /\ InputInv
      /\ \A s \in Streams : PipeInv(s)
  BY DEF EInv, StreamInv
<1>3. HostTyped'
  BY <1>1, <1>2, HostTypedStep
<1>4. result' \in Results
  BY <1>1, <1>2, ResultTypedStep
<1>5. LinkTyped' /\ CmdTyped' /\ AgentTyped'
  BY <1>1, <1>2, LinkTypedStep, CmdTypedStep, AgentTypedStep
<1>6. Typed'
  BY <1>3, <1>4, <1>5
  DEF Typed, TypeOK, HostTyped, RowsTyped, Rows, Results, LinkTyped, CmdTyped, AgentTyped
<1>7. RequestInv' /\ AnswerInv' /\ ExitCodeInv'
  BY <1>1, <1>2, RequestStep, AnswerStep, ExitCodeStep
<1>8. UnstartedInv' /\ GoroutinesInv' /\ ExitInv' /\ StdinInv' /\ FramesInv'
  BY <1>1, <1>2, UnstartedStep, GoroutinesStep, ExitStep, StdinStep, FramesStep
<1>9. (\A s \in Streams : FlowInv(s))' /\ (\A s \in Streams : PipeInv(s))'
  BY <1>1, <1>2, FlowStep, PipeStep
<1>10. (\A s \in Streams : StreamInv(s))'
  BY <1>9 DEF StreamInv
<1>11. InputInv'
  BY <1>1, <1>2, InputStep
<1> QED
  BY <1>6, <1>7, <1>8, <1>10, <1>11 DEF EInv

(* The invariant holds in every state of every behaviour: with any number  *)
(* of chunks, any capacities and any set of failures.                      *)
THEOREM SessionInvariance == Spec => []EInv
BY EInvInit, EInvStep, PTL DEF Spec

(* The variables keep their types, and no pipe and no direction of the     *)
(* connection holds more than its capacity.                                *)
THEOREM SessionTypeCorrect == Spec => []TypeOK
<1>1. EInv => TypeOK
  BY DEF EInv, Typed
<1> QED
  BY <1>1, SessionInvariance, PTL

(* runGuestCommand: the exit or error frame is the last one of a session,  *)
(* whichever way the two copiers and the command raced.                    *)
THEOREM LastFrame == Spec => []NothingAfterExit
<1>1. EInv => NothingAfterExit
  <2> SUFFICES ASSUME EInv PROVE NothingAfterExit
    OBVIOUS
  <2>1. AgentDone => \A s \in Streams : copier[s] \in {"off", "done"}
    BY DEF EInv, GoroutinesInv
  <2>2. down \in Seq(DownFrames) /\ FramesInv
    BY DEF EInv, Typed
  <2>3. \A i \in 1..Len(down) - 1 : i \in DOMAIN down /\ i # Len(down)
    BY <2>2
  <2>4. \A i \in 1..Len(down) - 1 : ~Ending(down[i].type)
    BY <2>2, <2>3 DEF FramesInv
  <2> QED
    BY <2>1, <2>4 DEF NothingAfterExit
<1> QED
  BY <1>1, SessionInvariance, PTL

(* What the host wrote to a stream is a prefix of what the command wrote   *)
(* to it, over any connection and however the connection ends.             *)
THEOREM OrderedOutput == Spec => []OutputInOrder
<1>1. EInv => OutputInOrder
  BY DEF EInv, StreamInv, FlowInv, OutputInOrder
<1> QED
  BY <1>1, SessionInvariance, PTL

(* ExecInSandbox: an exit code without an error is the command's own, of a *)
(* command that has ended.                                                 *)
THEOREM FaithfulExitCode == Spec => []ExitCodeFaithful
<1>1. EInv => ExitCodeFaithful
  BY DEF EInv, ExitCodeInv
<1> QED
  BY <1>1, SessionInvariance, PTL

(* ExecInSandbox: at most one terminal event, counting those that RawTree  *)
(* may still store, and it is the true one; no insert is answered after    *)
(* it.                                                                     *)
THEOREM TerminalEvent == Spec => []OneTerminalEvent
<1>1. EInv => OneTerminalEvent
  BY DEF EInv, AnswerInv
<1> QED
  BY <1>1, SessionInvariance, PTL

(* copyInteractiveInput and the feeder: the command reads a prefix of the  *)
(* host's input, and its stdin is closed once the feeder ended.            *)
THEOREM OrderedInput == Spec => []InputInOrder
<1>1. EInv => InputInOrder
  BY DEF EInv, InputInv, StdinInv, InputInOrder
<1> QED
  BY <1>1, SessionInvariance, PTL

(* From the exit of the command to the end of the session the host, the    *)
(* agent or a copier can take a step, for any capacity of the connection.  *)
THEOREM NeverStuck == Spec => []NobodyStuck
<1>1. EInv => NobodyStuck
  <2> SUFFICES ASSUME EInv, cmd.at = "exited", ~HostDone, ~HostCanStep
               PROVE  AgentCanStep \/ \E s \in Streams : CopierCanStep(s)
    BY DEF NobodyStuck
  <2>1. HostTyped /\ LinkTyped /\ AgentTyped
    BY TypedParts DEF EInv
  <2>2. host = "decode" /\ down = <<>> /\ link # "broken" /\ ~AgentDone
    BY <2>1 DEF EInv, HostTyped, ExitInv, HostCanStep, HostDone
  <2>3. agent \in {"sendStarted", "wait", "outputWG", "sendExit", "sendError"}
    BY <2>1, <2>2 DEF EInv, AgentTyped, UnstartedInv, AgentDone
  <2>4. CanSend
    BY <2>2, BoundsAssumption DEF CanSend
  <2>5. CASE agent # "outputWG"
    BY <2>3, <2>4, <2>5 DEF AgentCanStep
  <2>6. CASE agent = "outputWG"
    <3>1. ~readable /\ \A s \in Streams : copier[s] # "off"
      BY <2>6 DEF EInv, ExitInv
    <3>2. \A s \in Streams : copier[s] = "done" \/ CopierCanStep(s)
      BY <2>1, <2>4, <3>1 DEF AgentTyped, CopierCanStep
    <3> QED
      BY <2>6, <3>2 DEF AgentCanStep
  <2> QED
    BY <2>5, <2>6
<1> QED
  BY <1>1, SessionInvariance, PTL

(* How many frames wait for the host after a step.                         *)
LEMMA FramesWaiting ==
  ASSUME LinkTyped
  PROVE  /\ Len(down) \in Nat
         /\ \A frame \in DownFrames : SendDown(frame) => Len(down') \in 0..Len(down) + 1
         /\ down # <<>> /\ down' = Tail(down) => Len(down') = Len(down) - 1
         /\ \A k \in 0..Len(down) : down' = SubSeq(down, 1, k) => Len(down') \in 0..Len(down)
<1>1. down \in Seq(DownFrames)
  BY DEF LinkTyped
<1> QED
  BY <1>1 DEF SendDown

(* Once cmd.Wait has closed the pipes every step takes the session nearer  *)
(* to its end, or is one of the input or of RawTree.                       *)
LEMMA WindStep ==
  ASSUME EInv, Settled, Next
  PROVE  \/ UNCHANGED vars
         \/ /\ Settled'
            /\ \/ Ahead' < Ahead
               \/ Ahead' = Ahead /\ (HostSendInput \/ Feeder \/ StoreLate)
<1> DEFINE Nearer ==
      \/ UNCHANGED vars
      \/ /\ Settled'
         /\ \/ Ahead' < Ahead
            \/ Ahead' = Ahead /\ (HostSendInput \/ Feeder \/ StoreLate)
<1>t. HostTyped /\ LinkTyped /\ CmdTyped /\ AgentTyped
  BY TypedParts DEF EInv
<1>h. host \in {"decode", "recordCompleted", "recordFailed", "done"}
  BY <1>t DEF EInv, ExitInv, HostTyped, Settled
<1>a. agent \in {"outputWG", "sendExit", "sendError", "closed"}
  BY <1>t DEF EInv, ExitInv, UnstartedInv, AgentTyped, Settled
<1>c. copier \in [Streams -> {"off", "reading", "sending", "done"}]
  BY <1>t DEF AgentTyped
<1>d. /\ Len(down) \in Nat
      /\ \A frame \in DownFrames : SendDown(frame) => Len(down') \in 0..Len(down) + 1
      /\ down # <<>> /\ down' = Tail(down) => Len(down') = Len(down) - 1
      /\ \A k \in 0..Len(down) : down' = SubSeq(down, 1, k) => Len(down') \in 0..Len(down)
  BY <1>t, FramesWaiting
<1> USE <1>h, <1>a, <1>c, <1>d DEF hostVars, linkVars, cmdVars, agentVars, Settled, Ahead,
   HostAhead, AgentAhead, CopierAhead, HostDone
<1>1. CASE HostRecordStarted
  BY <1>1 DEF HostRecordStarted
<1>2. CASE HostDial
  BY <1>2 DEF HostDial
<1>3. CASE HostSendRequest
  BY <1>3 DEF HostSendRequest
<1>4. CASE HostSendInput
  BY <1>4 DEF HostSendInput, SendUp
<1>5. CASE HostDecodeError
  BY <1>5 DEF HostDecodeError, Fail, Return
<1>6. CASE HostStartedFrame
  BY <1>6 DEF HostStartedFrame, Receives
<1>7. CASE HostOutputFrame
  BY <1>7 DEF HostOutputFrame, Receives
<1>8. CASE HostExitFrame
  BY <1>8 DEF HostExitFrame, Receives, Return
<1>9. CASE HostErrorFrame
  BY <1>9 DEF HostErrorFrame, Receives, Fail, Return
<1>10. CASE HostRecordCompleted
  BY <1>10 DEF HostRecordCompleted, Return
<1>11. CASE HostRecordFailed
  BY <1>11 DEF HostRecordFailed, Return
<1>12. CASE AgentDecodeRequest
  BY <1>12 DEF AgentDecodeRequest
<1>13. CASE AgentStart
  BY <1>13 DEF AgentStart
<1>14. CASE AgentSendStarted
  BY <1>14 DEF AgentSendStarted
<1>15. CASE AgentWait
  BY <1>15 DEF AgentWait
<1>16. CASE AgentOutputWG
  BY <1>16 DEF AgentOutputWG
<1>17. CASE AgentSendExit
  <2>1. Plain("exit", cmd.code) \in DownFrames
    BY <1>t, FramesTyped, ExitCodesAssumption DEF CmdTyped
  <2> QED
    BY <1>17, <2>1 DEF AgentSendExit
<1>18. CASE AgentSendError
  <2>1. Plain("error", ErrorCode) \in DownFrames
    BY FramesTyped DEF ErrorCode
  <2> QED
    BY <1>18, <2>1 DEF AgentSendError
<1>19. ASSUME NEW t \in Streams, CopierRead(t) PROVE Nearer
  BY <1>19 DEF CopierRead
<1>20. ASSUME NEW t \in Streams, CopierSend(t) PROVE Nearer
  <2>1. Chunk(t, held[t]) \in DownFrames
    BY <1>t, FramesTyped DEF AgentTyped
  <2>2. /\ copier[t] = "sending" /\ copier'[t] = "reading"
        /\ \A q \in Streams \ {t} : copier'[q] = copier[q]
    BY <1>20, <1>t DEF CopierSend, AgentTyped
  <2> QED
    BY <1>20, <2>1, <2>2 DEF CopierSend, Streams
<1>21. ASSUME NEW t \in Streams, CopierEnd(t) PROVE Nearer
  <2>1. /\ copier[t] = "reading" /\ copier'[t] = "done"
        /\ \A q \in Streams \ {t} : copier'[q] = copier[q]
    BY <1>21, <1>t DEF CopierEnd, AgentTyped
  <2> QED
    BY <1>21, <2>1 DEF CopierEnd, Streams
<1>22. ASSUME NEW t \in Streams, CmdWrite(t) PROVE Nearer
  BY <1>22 DEF CmdWrite
<1>23. CASE Feeder
  BY <1>23 DEF Feeder
<1>24. CASE BreakLink
  BY <1>24 DEF BreakLink
<1>25. CASE CmdExit
  BY <1>25 DEF CmdExit
<1>26. CASE Over
  BY <1>26 DEF Over, vars
<1>27. CASE StoreLate
  BY <1>27 DEF StoreLate
<1> QED
  BY <1>1, <1>2, <1>3, <1>4, <1>5, <1>6, <1>7, <1>8, <1>9, <1>10, <1>11, <1>12, <1>13,
     <1>14, <1>15, <1>16, <1>17, <1>18, <1>19, <1>20, <1>21, <1>22, <1>23, <1>24, <1>25,
     <1>26, <1>27
     DEF Next, HostStep, AgentStep, Copier

(* After the exit of the command the session ends in a number of steps     *)
(* that no fault and no process left behind can add to.                    *)
THEOREM SessionWindsDown == Spec => WindsDown
<1>1. EInv /\ [Next]_vars =>
        [Settled => /\ Settled'
                    /\ \/ Ahead' < Ahead
                       \/ Ahead' = Ahead /\ (HostSendInput \/ Feeder \/ StoreLate)]_vars
  BY WindStep
<1> QED
  BY <1>1, SessionInvariance, PTL DEF Spec, WindsDown

(* What is left of a session is a number.                                  *)
THEOREM AheadBounded == Spec => [](Ahead \in 0..ChannelCap + 13)
<1>1. EInv => Ahead \in 0..ChannelCap + 13
  <2> SUFFICES ASSUME EInv PROVE Ahead \in 0..ChannelCap + 13
    OBVIOUS
  <2>1. LinkTyped
    BY TypedParts DEF EInv
  <2>2. Len(down) \in 0..ChannelCap
    BY <2>1, BoundsAssumption DEF LinkTyped
  <2> QED
    BY <2>2, BoundsAssumption DEF Ahead, HostAhead, AgentAhead, CopierAhead
<1> QED
  BY <1>1, SessionInvariance, PTL
=============================================================================
