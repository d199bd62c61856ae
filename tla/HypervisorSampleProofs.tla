----------------------- MODULE HypervisorSampleProofs -----------------------
(***************************************************************************)
(* The theorems of HypervisorSample: a sample is about the process and the *)
(* fields it is named for, for every name of the process; and the cgroup   *)
(* is below the root of the hierarchy, for every path.                     *)
(***************************************************************************)
EXTENDS HypervisorSampleInv, SequenceTheorems, FiniteSetTheorems, WellFoundedInduction, TLAPS

---------------------------------------------------------------------------
(* normalizeCgroupPath.                                                    *)

(* The order of the finite sets of numbers.                                *)
Ordering == StrictSubsetOrdering(Nat)

(* Every set of natural numbers has a least one: the intervals below them  *)
(* are finite sets, which inclusion orders well.                           *)
LEMMA LeastNat ==
  ASSUME NEW T \in SUBSET Nat, T # {}
  PROVE  \E x \in T : \A y \in T : x <= y
<1> DEFINE U == {0..n - 1 : n \in T}
<1>1. U \subseteq FiniteSubsetsOf(Nat) /\ U # {}
  <2> SUFFICES ASSUME NEW n \in T PROVE IsFiniteSet(0..n - 1) /\ 0..n - 1 \subseteq Nat
    BY DEF FiniteSubsetsOf
  <2>1. 0 \in Int /\ n - 1 \in Int
    OBVIOUS
  <2> QED
    BY <2>1, FS_Interval
<1>2. PICK u \in U : \A v \in U : ~(<<v, u>> \in Ordering)
  <2> HIDE DEF U
  <2>1. IsWellFoundedOn(Ordering, FiniteSubsetsOf(Nat))
    BY FS_StrictSubsetOrderingWellFounded DEF Ordering
  <2> QED
    BY <1>1, <2>1, WFMin
<1>3. PICK x \in T : u = 0..x - 1
  OBVIOUS
<1>4. ASSUME NEW y \in T, y < x PROVE FALSE
  <2>1. 0..y-1 \in U
    OBVIOUS
  <2>2. 0..y-1 \subseteq 0..x-1 /\ y \in 0..x-1 /\ y \notin 0..y-1
    BY <1>4
  <2>3. <<0..y-1, 0..x-1>> \in Ordering
    BY <2>2 DEF Ordering, StrictSubsetOrdering
  <2> QED
    BY <1>2, <1>3, <2>1, <2>3
<1>5. \A y \in T : x <= y
  BY <1>4
<1> QED
  BY <1>5

(* Induction up to n, for a set.                                           *)
LEMMA Induction ==
  ASSUME NEW n \in Nat, NEW T \in SUBSET Nat, 0 \in T, \A i \in 0..n - 1 : i \in T => i + 1 \in T
  PROVE  0..n \subseteq T
<1> DEFINE Bad == 0..n \ T
<1> SUFFICES ASSUME Bad # {} PROVE FALSE
  OBVIOUS
<1>1. PICK x \in Bad : \A y \in Bad : x <= y
  <2>1. Bad \in SUBSET Nat
    OBVIOUS
  <2> HIDE DEF Bad
  <2> QED
    BY <2>1, LeastNat
<1>2. x # 0 /\ x - 1 \in 0..n - 1
  OBVIOUS
<1>3. x - 1 \in T
  BY <1>1, <1>2
<1> QED
  BY <1>2, <1>3

(* The names that a path without detours is made of.                       *)
Proper(S) == S \ {"", ".", ".."}

(* One component more.                                                     *)
LEMMA CleanedProper ==
  ASSUME NEW S, NEW done \in Seq(Proper(S)), NEW c \in S
  PROVE  Cleaned(done, c) \in Seq(Proper(S))
<1>1. CASE c \in {"", "."}
  BY <1>1 DEF Cleaned
<1>2. CASE c = ".." /\ done = <<>>
  BY <1>2 DEF Cleaned
<1>3. CASE c = ".." /\ done # <<>>
  <2>1. Cleaned(done, c) = Front(done)
    BY <1>3 DEF Cleaned
  <2>2. Front(done) = SubSeq(done, 1, Len(done) - 1)
    BY DEF Front
  <2>3. Len(done) \in Nat /\ \A i \in 1..Len(done) - 1 : done[i] \in Proper(S)
    BY ElementOfSeq, LenProperties
  <2>4. SubSeq(done, 1, Len(done) - 1) \in Seq(Proper(S))
    BY <2>3, SubSeqProperties
  <2> QED
    BY <2>1, <2>2, <2>4
<1>4. CASE c \notin {"", ".", ".."}
  <2>1. Cleaned(done, c) = Append(done, c) /\ c \in Proper(S)
    BY <1>4 DEF Cleaned, Proper
  <2> QED
    BY <2>1, AppendProperties
<1> QED
  BY <1>1, <1>2, <1>3, <1>4

(* The paths that CleanTo is made of, up to the component n.               *)
CleansTo(g, path, n) ==
  g[0] = <<>> /\ \A i \in 1..n : g[i] = Cleaned(g[i - 1], path[i])

(* There are such paths, and they are proper.                              *)
LEMMA CleanExists ==
  ASSUME NEW S, NEW path \in Seq(S)
  PROVE  \E g \in [0..Len(path) -> Seq(Proper(S))] : CleansTo(g, path, Len(path))
<1> DEFINE N == Len(path)
           T == {n \in Nat : n <= N => \E g \in [0..n -> Seq(Proper(S))] : CleansTo(g, path, n)}
<1>0. N \in Nat
  BY LenProperties
<1>1. 0 \in T
  <2> DEFINE g == [i \in 0..0 |-> <<>>]
  <2>1. g \in [0..0 -> Seq(Proper(S))] /\ CleansTo(g, path, 0)
    BY EmptySeq DEF CleansTo
  <2> QED
    BY <2>1
<1>2. ASSUME NEW n \in 0..N - 1, n \in T PROVE n + 1 \in T
  <2>1. PICK g \in [0..n -> Seq(Proper(S))] : CleansTo(g, path, n)
    BY <1>0, <1>2
  <2> DEFINE h == [i \in 0..n + 1 |-> IF i = n + 1 THEN Cleaned(g[n], path[n + 1]) ELSE g[i]]
  <2>2. g[n] \in Seq(Proper(S)) /\ path[n + 1] \in S
    <3>1. n \in 0..n /\ n + 1 \in 1..N
      BY <1>0
    <3> QED
      BY <3>1, ElementOfSeq
  <2>3. Cleaned(g[n], path[n + 1]) \in Seq(Proper(S))
    BY <2>2, CleanedProper
  <2>4. h \in [0..n + 1 -> Seq(Proper(S))]
    BY <2>3
  <2>5. CleansTo(h, path, n + 1)
    <3>1. h[0] = <<>>
      BY <2>1 DEF CleansTo
    <3>2. ASSUME NEW i \in 1..n + 1 PROVE h[i] = Cleaned(h[i - 1], path[i])
      <4>1. h[i - 1] = g[i - 1]
        OBVIOUS
      <4>2. CASE i = n + 1
        BY <4>1, <4>2
      <4>3. CASE i \in 1..n
        BY <2>1, <4>1, <4>3 DEF CleansTo
      <4> QED
        BY <4>2, <4>3
    <3> QED
      BY <3>1, <3>2 DEF CleansTo
  <2>6. n + 1 \in Nat
    OBVIOUS
  <2> QED
    BY <2>4, <2>5, <2>6
<1>3. N \in T
  <2>1. T \in SUBSET Nat
    OBVIOUS
  <2> HIDE DEF T, N
  <2>2. 0..N \subseteq T
    BY <1>0, <1>1, <1>2, <2>1, Induction
  <2> QED
    BY <1>0, <2>2
<1> QED
  BY <1>0, <1>3

(* CleanTo is the function that its recursion describes.                   *)
LEMMA CleanToIs ==
  ASSUME NEW S, NEW path \in Seq(S)
  PROVE  CleanTo(path) = [i \in 0..Len(path) |->
           IF i = 0 THEN <<>> ELSE Cleaned(CleanTo(path)[i - 1], path[i])]
<1> DEFINE N == Len(path)
           Is(g) == g = [i \in 0..N |-> IF i = 0 THEN <<>> ELSE Cleaned(g[i - 1], path[i])]
<1>0. N \in Nat
  BY LenProperties
<1>1. \E g : Is(g)
  <2>1. PICK g \in [0..N -> Seq(Proper(S))] : CleansTo(g, path, N)
    BY CleanExists
  <2>2. \A i \in 0..N : g[i] = IF i = 0 THEN <<>> ELSE Cleaned(g[i - 1], path[i])
    BY <1>0, <2>1 DEF CleansTo
  <2>3. Is(g)
    BY <2>2
  <2> QED
    BY <2>3
<1>2. CleanTo(path) = CHOOSE g : Is(g)
  BY DEF CleanTo
<1> HIDE DEF Is
<1>3. Is(CleanTo(path))
  BY <1>1, <1>2, Zenon
<1> QED
  BY <1>3 DEF Is

(* What Clean returns has no detours, for every path.                      *)
LEMMA CleanProper ==
  ASSUME NEW S, NEW path \in Seq(S)
  PROVE  Clean(path) \in Seq(Proper(S))
<1> DEFINE N == Len(path)
           f == CleanTo(path)
           T == {n \in Nat : n <= N => f[n] \in Seq(Proper(S))}
<1>0. N \in Nat
  BY LenProperties
<1>1. f[0] = <<>> /\ \A i \in 1..N : f[i] = Cleaned(f[i - 1], path[i])
  <2> HIDE DEF f
  <2>1. f = [i \in 0..N |-> IF i = 0 THEN <<>> ELSE Cleaned(f[i - 1], path[i])]
    BY CleanToIs DEF f
  <2> QED
    BY <1>0, <2>1
<1> HIDE DEF f
<1>2. 0 \in T
  BY <1>1, EmptySeq
<1>3. ASSUME NEW n \in 0..N - 1, n \in T PROVE n + 1 \in T
  <2>1. n + 1 \in 1..N /\ (n + 1) - 1 = n /\ f[n] \in Seq(Proper(S)) /\ n + 1 \in Nat
    BY <1>0, <1>3
  <2>2. path[n + 1] \in S
    BY <2>1, ElementOfSeq
  <2>3. f[n + 1] = Cleaned(f[n], path[n + 1])
    BY <1>1, <2>1
  <2>4. f[n + 1] \in Seq(Proper(S))
    BY <2>1, <2>2, <2>3, CleanedProper
  <2> QED
    BY <2>1, <2>4
<1>4. N \in T
  <2>1. T \in SUBSET Nat
    OBVIOUS
  <2> HIDE DEF T, N
  <2>2. 0..N \subseteq T
    BY <1>0, <1>2, <1>3, <2>1, Induction
  <2> QED
    BY <1>0, <2>2
<1> QED
  BY <1>0, <1>4 DEF f, Clean

---------------------------------------------------------------------------
(* parseProcStat.                                                          *)

(* The least number of a set.                                              *)
LEMMA LeastIs ==
  ASSUME NEW S \in SUBSET Int, NEW m \in S, \A y \in S : m =< y
  PROVE  Min(S) = m
<1>1. \E x \in S : \A y \in S : x =< y
  OBVIOUS
<1>2. Min(S) \in S /\ \A y \in S : Min(S) =< y
  BY <1>1, Zenon DEF Min
<1>3. m \in Int /\ Min(S) \in Int /\ m =< Min(S) /\ Min(S) =< m
  BY <1>2
<1> QED
  BY <1>3

(* The greatest number of a set.                                           *)
LEMMA GreatestIs ==
  ASSUME NEW S \in SUBSET Int, NEW m \in S, \A y \in S : m >= y
  PROVE  Max(S) = m
<1>1. \E x \in S : \A y \in S : x >= y
  OBVIOUS
<1>2. Max(S) \in S /\ \A y \in S : Max(S) >= y
  BY <1>1, Zenon DEF Max
<1>3. m \in Int /\ Max(S) \in Int /\ m >= Max(S) /\ Max(S) >= m
  BY <1>2
<1> QED
  BY <1>3

(* Two sequences, one behind the other.                                    *)
LEMMA Joined ==
  ASSUME NEW S, NEW s \in Seq(S), NEW t \in Seq(S)
  PROVE  /\ s \o t \in Seq(S) /\ Len(s \o t) = Len(s) + Len(t)
         /\ \A i \in 1..Len(s) : (s \o t)[i] = s[i]
         /\ \A i \in 1..Len(t) : (s \o t)[Len(s) + i] = t[i]
<1>1. Len(s) \in Nat /\ Len(t) \in Nat
  BY LenProperties
<1>2. /\ s \o t \in Seq(S) /\ Len(s \o t) = Len(s) + Len(t)
      /\ \A i \in 1..(Len(s) + Len(t)) :
           (s \o t)[i] = IF i <= Len(s) THEN s[i] ELSE t[i - Len(s)]
  BY ConcatProperties
<1>3. \A i \in 1..Len(s) : i \in 1..(Len(s) + Len(t)) /\ i <= Len(s)
  BY <1>1
<1>4. \A i \in 1..Len(t) : /\ Len(s) + i \in 1..(Len(s) + Len(t)) /\ ~(Len(s) + i <= Len(s))
                            /\ Len(s) + i - Len(s) = i
  BY <1>1
<1> QED
  BY <1>1, <1>2, <1>3, <1>4

(* A line that is made of four sequences.                                  *)
MadeOf(line, head, name, back, fields) ==
  /\ Len(line) = Len(head) + Len(name) + Len(back) + Len(fields)
  /\ \A i \in 1..Len(head) : line[i] = head[i]
  /\ \A i \in 1..Len(name) : line[Len(head) + i] = name[i]
  /\ \A i \in 1..Len(back) : line[Len(head) + Len(name) + i] = back[i]
  /\ \A i \in 1..Len(fields) : line[Len(head) + Len(name) + Len(back) + i] = fields[i]

LEMMA FourJoined ==
  ASSUME NEW S, NEW head \in Seq(S), NEW name \in Seq(S), NEW back \in Seq(S),
         NEW fields \in Seq(S)
  PROVE  /\ head \o name \o back \o fields \in Seq(S)
         /\ MadeOf(head \o name \o back \o fields, head, name, back, fields)
<1> DEFINE two   == head \o name
           three == two \o back
           four  == three \o fields
<1>1. Len(head) \in Nat /\ Len(name) \in Nat /\ Len(back) \in Nat /\ Len(fields) \in Nat
  BY LenProperties
<1>2. /\ two \in Seq(S) /\ Len(two) = Len(head) + Len(name)
      /\ \A i \in 1..Len(head) : two[i] = head[i]
      /\ \A i \in 1..Len(name) : two[Len(head) + i] = name[i]
  BY Joined
<1> HIDE DEF two
<1>3. /\ three \in Seq(S) /\ Len(three) = Len(two) + Len(back)
      /\ \A i \in 1..Len(two) : three[i] = two[i]
      /\ \A i \in 1..Len(back) : three[Len(two) + i] = back[i]
  <2>1. two \in Seq(S)
    BY <1>2
  <2> QED
    BY <2>1, Joined
<1> HIDE DEF three
<1>4. /\ four \in Seq(S) /\ Len(four) = Len(three) + Len(fields)
      /\ \A i \in 1..Len(three) : four[i] = three[i]
      /\ \A i \in 1..Len(fields) : four[Len(three) + i] = fields[i]
  <2>1. three \in Seq(S)
    BY <1>3
  <2> QED
    BY <2>1, Joined
<1> HIDE DEF four
<1>5. /\ \A i \in 1..Len(head) : i \in 1..Len(two) /\ i \in 1..Len(three)
      /\ \A i \in 1..Len(name) : Len(head) + i \in 1..Len(two) /\ Len(head) + i \in 1..Len(three)
      /\ \A i \in 1..Len(back) : Len(two) + i \in 1..Len(three)
  BY <1>1, <1>2, <1>3
<1>6. \A i \in 1..Len(head) : four[i] = head[i]
  BY <1>2, <1>3, <1>4, <1>5
<1>7. \A i \in 1..Len(name) : four[Len(head) + i] = name[i]
  BY <1>2, <1>3, <1>4, <1>5
<1>8. \A i \in 1..Len(back) : four[Len(head) + Len(name) + i] = back[i]
  BY <1>2, <1>3, <1>4, <1>5
<1>9. /\ Len(four) = Len(head) + Len(name) + Len(back) + Len(fields)
      /\ \A i \in 1..Len(fields) : four[Len(head) + Len(name) + Len(back) + i] = fields[i]
  BY <1>2, <1>3, <1>4
<1> QED
  <2>1. four \in Seq(S) /\ MadeOf(four, head, name, back, fields)
    BY <1>4, <1>6, <1>7, <1>8, <1>9 DEF MadeOf
  <2> QED
    BY <2>1 DEF two, three, four

(* A part of a sequence, from one place to another.                        *)
LEMMA Cut ==
  ASSUME NEW S, NEW s \in Seq(S), NEW t \in Seq(S), NEW a \in Nat, NEW b \in Nat,
         Len(t) = b, a + b <= Len(s), \A i \in 1..b : s[a + i] = t[i]
  PROVE  SubSeq(s, a + 1, a + b) = t
<1>1. Len(s) \in Nat /\ DOMAIN s = 1..Len(s)
  BY LenProperties
<1>2. \A i \in (a + 1)..(a + b) : s[i] \in S
  <2> SUFFICES ASSUME NEW i \in (a + 1)..(a + b) PROVE s[i] \in S
    OBVIOUS
  <2>1. i \in 1..Len(s)
    BY <1>1
  <2> QED
    BY <2>1, ElementOfSeq
<1>3. /\ a + 1 \in Int /\ a + b \in Int /\ a + b - (a + 1) + 1 = b
      /\ ~(a + 1 <= a + b) => b = 0
  OBVIOUS
<1>4. /\ SubSeq(s, a + 1, a + b) \in Seq(S)
      /\ Len(SubSeq(s, a + 1, a + b)) = b
      /\ \A i \in 1..b : SubSeq(s, a + 1, a + b)[i] = s[a + 1 + i - 1]
  <2> DEFINE first == a + 1
             final == a + b
  <2> HIDE DEF first, final
  <2>1. /\ SubSeq(s, first, final) \in Seq(S)
        /\ Len(SubSeq(s, first, final)) = IF first <= final THEN final - first + 1 ELSE 0
        /\ \A i \in 1..(final - first + 1) : SubSeq(s, first, final)[i] = s[first + i - 1]
    BY <1>2, <1>3, SubSeqProperties DEF first, final
  <2> QED
    BY <1>3, <2>1 DEF first, final
<1>5. \A i \in 1..b : a + 1 + i - 1 = a + i
  OBVIOUS
<1>6. \A i \in 1..b : SubSeq(s, a + 1, a + b)[i] = t[i]
  BY <1>4, <1>5
<1> QED
  BY <1>4, <1>6, SeqEqual

(* A line whose fields have no parenthesis is parsed into its name, which  *)
(* may have any, and its fields.                                           *)
IsParsed(head, name, back, fields) ==
  /\ head = <<"pid", "space", "open">> /\ back = <<"close", "space">>
  /\ \A i \in 1..Len(fields) : fields[i] # "close"
  => ParseProcStat(head \o name \o back \o fields) = [command |-> name, fields |-> fields]

LEMMA LineParsed ==
  ASSUME NEW S, NEW head \in Seq(S), NEW name \in Seq(S), NEW back \in Seq(S),
         NEW fields \in Seq(S)
  PROVE  IsParsed(head, name, back, fields)
<1> DEFINE line == head \o name \o back \o fields
           h    == Len(head)
           n    == Len(name)
           l    == Len(back)
           k    == Len(fields)
<1>0. line \in Seq(S) /\ MadeOf(line, head, name, back, fields)
  BY FourJoined
<1>a. /\ Len(line) = h + n + l + k
      /\ \A i \in 1..h : line[i] = head[i]
      /\ \A i \in 1..n : line[h + i] = name[i]
      /\ \A i \in 1..l : line[h + n + i] = back[i]
      /\ \A i \in 1..k : line[h + n + l + i] = fields[i]
  BY <1>0 DEF MadeOf
<1>1. n \in Nat /\ k \in Nat
  BY LenProperties
<1> SUFFICES ASSUME head = <<"pid", "space", "open">>, back = <<"close", "space">>,
                    \A i \in 1..Len(fields) : fields[i] # "close"
             PROVE  ParseProcStat(line) = [command |-> name, fields |-> fields]
  BY DEF IsParsed
<1>2. Len(head) = 3 /\ head[1] = "pid" /\ head[2] = "space" /\ head[3] = "open"
  OBVIOUS
<1>3. Len(back) = 2 /\ back[1] = "close" /\ back[2] = "space"
  OBVIOUS
<1> HIDE DEF line, n, k, h, l
<1>4. /\ line \in Seq(S) /\ Len(line) = n + 5 + k /\ DOMAIN line = 1..(n + 5 + k)
      /\ line[1] = "pid" /\ line[2] = "space" /\ line[3] = "open"
      /\ \A i \in 1..n : line[3 + i] = name[i]
      /\ line[n + 4] = "close" /\ line[n + 5] = "space"
      /\ \A i \in 1..k : line[n + 5 + i] = fields[i]
  <2>3. h = 3 /\ l = 2
    BY <1>2, <1>3 DEF h, l
  <2>4. Len(line) = n + 5 + k /\ DOMAIN line = 1..(n + 5 + k)
    <3>1. h + n + l + k = n + 5 + k
      BY <1>1, <2>3
    <3> QED
      BY <1>0, <1>a, <3>1, LenProperties
  <2>5. line[1] = "pid" /\ line[2] = "space" /\ line[3] = "open"
    BY <1>2, <1>0, <1>a, <2>3
  <2>6. line[n + 4] = "close" /\ line[n + 5] = "space"
    <3>1. h + n + 1 = n + 4 /\ h + n + 2 = n + 5 /\ 1 \in 1..l /\ 2 \in 1..l
      BY <1>1, <2>3
    <3> QED
      BY <1>3, <1>0, <1>a, <3>1
  <2>7. \A i \in 1..n : line[3 + i] = name[i]
    BY <1>0, <1>a, <2>3
  <2>8. \A i \in 1..k : line[n + 5 + i] = fields[i]
    <3>1. \A i \in 1..k : h + n + l + i = n + 5 + i
      BY <1>1, <2>3
    <3> QED
      BY <1>0, <1>a, <3>1
  <2> QED
    BY <1>0, <1>a, <2>4, <2>5, <2>6, <2>7, <2>8
<1>5. Min(Places(line, "open")) = 3
  <2>1. Places(line, "open") \in SUBSET Int /\ 3 \in Places(line, "open")
    BY <1>1, <1>4 DEF Places
  <2>2. \A y \in Places(line, "open") : 3 =< y
    BY <1>1, <1>4 DEF Places
  <2> QED
    BY <2>1, <2>2, LeastIs
<1>6. CommandEnd(line) = n + 4
  <2>1. Places(line, "close") \in SUBSET Int /\ n + 4 \in Places(line, "close")
    BY <1>1, <1>4 DEF Places
  <2>2. \A y \in Places(line, "close") : n + 4 >= y
    <3> SUFFICES ASSUME NEW y \in Places(line, "close"), y > n + 4 PROVE FALSE
      BY <1>1, <2>1
    <3>1. y \in 1..(n + 5 + k) /\ line[y] = "close"
      BY <1>4 DEF Places
    <3>2. CASE y = n + 5
      BY <1>4, <3>1, <3>2
    <3>3. CASE y > n + 5
      <4>1. y - (n + 5) \in 1..k /\ n + 5 + (y - (n + 5)) = y
        BY <1>1, <3>1, <3>3
      <4>2. line[y] = fields[y - (n + 5)]
        BY <1>4, <4>1
      <4>3. fields[y - (n + 5)] # "close"
        BY <4>1 DEF k
      <4> QED
        BY <3>1, <4>2, <4>3
    <3> QED
      BY <1>1, <3>1, <3>2, <3>3
  <2> QED
    BY <2>1, <2>2, GreatestIs DEF CommandEnd
<1>7. SubSeq(line, 3 + 1, 3 + n) = name
  <2>1. 3 + n <= Len(line)
    BY <1>1, <1>4
  <2> QED
    BY <1>1, <1>4, <2>1, Cut DEF n
<1>8. SubSeq(line, (n + 5) + 1, (n + 5) + k) = fields
  <2>1. n + 5 \in Nat /\ (n + 5) + k <= Len(line)
    BY <1>1, <1>4
  <2> QED
    BY <1>1, <1>4, <2>1, Cut DEF k
<1>9. (n + 4) - 1 = 3 + n /\ (n + 4) + 2 = (n + 5) + 1 /\ Len(line) = (n + 5) + k
  BY <1>1, <1>4
<1>10. ParseProcStat(line) = [command |-> name, fields |-> fields]
  BY <1>5, <1>6, <1>7, <1>8, <1>9 DEF ParseProcStat
<1> QED
  BY <1>10

(* What ReadStat parses is the line of the process.                        *)
LEMMA StatRead ==
  ASSUME comm \in Comms
  PROVE  Stat(ParseProcStat(StatLine)) =
           [command |-> comm, state |-> IF proc = "running" THEN "S" ELSE "Z",
            parent_pid |-> "ppid", minor_faults |-> "minflt", major_faults |-> "majflt",
            cpu_user_ticks |-> "utime", cpu_system_ticks |-> "stime", threads |-> "num_threads",
            start_time_ticks |-> "starttime", vsize_bytes |-> "vsize", rss_pages |-> "rss"]
<1> DEFINE Text == STRING \cup {"pid", "space", "open", "close"}
                          \cup {StatFields[i] : i \in 1..22}
<1>1. Len(StatFields) = 22 /\ StatFields \in Seq({StatFields[i] : i \in 1..22})
  BY DEF StatFields
<1>2. \A i \in 1..22 : StatFields[i] # "close"
  BY DEF StatFields
<1> HIDE DEF StatFields
<1>3. comm \in Seq(Text) /\ StatFields \in Seq(Text)
  <2>1. /\ STRING \subseteq Text /\ {StatFields[i] : i \in 1..22} \subseteq Text
    OBVIOUS
  <2>2. comm \in Seq(STRING)
    BY NamesAssumption
  <2> QED
    BY <1>1, <2>1, <2>2, SeqMonotonic
<1>4. ParseProcStat(StatLine) = [command |-> comm, fields |-> StatFields]
  <2> DEFINE head == <<"pid", "space", "open">>
             back == <<"close", "space">>
  <2>1. head \in Seq(Text) /\ back \in Seq(Text)
    OBVIOUS
  <2>2. \A i \in 1..Len(StatFields) : StatFields[i] # "close"
    BY <1>1, <1>2
  <2> HIDE DEF Text
  <2>3. IsParsed(head, comm, back, StatFields)
    <3> HIDE DEF head, back
    <3> QED
      BY <1>3, <2>1, LineParsed
  <2> QED
    BY <2>2, <2>3, Zenon DEF IsParsed, StatLine
<1>5. /\ StatFields[1] = IF proc = "running" THEN "S" ELSE "Z"
      /\ StatFields[2] = "ppid" /\ StatFields[8] = "minflt" /\ StatFields[10] = "majflt"
      /\ StatFields[12] = "utime" /\ StatFields[13] = "stime" /\ StatFields[18] = "num_threads"
      /\ StatFields[20] = "starttime" /\ StatFields[21] = "vsize" /\ StatFields[22] = "rss"
  BY DEF StatFields
<1> QED
  BY <1>4, <1>5 DEF Stat, Field

---------------------------------------------------------------------------
(* The invariant.                                                          *)

LEMMA InitHInv == Init => HInv
  BY DEF Init, HInv, SampleTypeInv, ResultInv, StatInv, PartsInv, Parts, PartsBefore

LEMMA ReadStatStep == HInv /\ ReadStat => HInv'
<1> SUFFICES ASSUME HInv, ReadStat PROVE HInv'
  OBVIOUS
<1> USE DEF HInv, ReadStat
<1>1. SampleTypeInv'
  BY DEF SampleTypeInv, PartsBefore
<1>2. ResultInv'
  BY DEF SampleTypeInv, ResultInv
<1>3. StatInv'
  <2>1. CASE proc = "gone"
    BY <2>1 DEF StatInv
  <2>2. CASE proc # "gone"
    <3>1. stat' = Stat(ParseProcStat(StatLine)) /\ proc' = proc /\ comm' = comm
      BY <2>2
    <3> QED
      BY <3>1, StatRead DEF SampleTypeInv, StatInv, Documented
  <2> QED
    BY <2>1, <2>2
<1>4. PartsInv'
  BY DEF PartsInv, PartsBefore
<1> QED
  BY <1>1, <1>2, <1>3, <1>4

LEMMA ReadPartStep ==
  ASSUME NEW part \in DOMAIN AfterPart
  PROVE  HInv /\ ReadPart(part) => HInv'
<1> SUFFICES ASSUME HInv, ReadPart(part) PROVE HInv'
  OBVIOUS
<1> USE DEF HInv, ReadPart
<1>0. part \in Parts
  BY DEF AfterPart, Parts
<1>1. SampleTypeInv'
  BY <1>0 DEF SampleTypeInv, PartsBefore, AfterPart, Parts
<1>2. ResultInv'
  BY <1>0 DEF SampleTypeInv, ResultInv, PartsBefore, AfterPart, Parts
<1>3. StatInv'
  BY <1>0 DEF SampleTypeInv, ResultInv, StatInv, AfterPart, Parts
<1>4. PartsInv'
  <2> SUFFICES ASSUME proc = "running", NEW p \in PartsBefore[at'] PROVE parts'[p] = Real(p)'
    BY DEF PartsInv
  <2>1. parts' = [parts EXCEPT ![part] = Real(part)] /\ at = part /\ at' = AfterPart[part]
    OBVIOUS
  <2>2. PartsBefore[AfterPart[part]] = PartsBefore[part] \cup {part}
    BY <1>0 DEF PartsBefore, AfterPart, Parts
  <2>3. result # "failed" /\ at # "stat"
    BY <1>0, <2>1 DEF ResultInv, SampleTypeInv, Parts
  <2>4. Real(p)' = Real(p)
    BY DEF Real, ReadCgroupPath, CgroupPath
  <2>5. CASE p = part
    BY <1>0, <2>1, <2>4, <2>5 DEF SampleTypeInv
  <2>6. CASE p # part
    <3>1. p \in PartsBefore[at] /\ p \in Parts
      BY <1>0, <2>1, <2>2, <2>6 DEF PartsBefore, Parts
    <3>2. parts[p] = Real(p)
      BY <2>3, <3>1 DEF PartsInv
    <3> QED
      BY <2>1, <2>4, <2>6, <3>1, <3>2 DEF SampleTypeInv
  <2> QED
    BY <2>5, <2>6
<1> QED
  BY <1>1, <1>2, <1>3, <1>4

LEMMA ProcessExitsStep == HInv /\ ProcessExits => HInv'
<1> SUFFICES ASSUME HInv, ProcessExits PROVE HInv'
  OBVIOUS
<1> USE DEF HInv, ProcessExits
<1>1. SampleTypeInv'
  BY DEF SampleTypeInv
<1>2. ResultInv'
  BY DEF ResultInv
<1>3. StatInv'
  BY DEF StatInv
<1>4. PartsInv'
  BY DEF PartsInv
<1> QED
  BY <1>1, <1>2, <1>3, <1>4

(* A sample knows of its process what HInv says.                           *)
THEOREM SampleInvariance == Spec => []HInv
<1>1. HInv /\ [Next]_vars => HInv'
  <2> SUFFICES ASSUME HInv, [Next]_vars PROVE HInv'
    OBVIOUS
  <2>1. CASE ReadStat
    BY <2>1, ReadStatStep
  <2>2. CASE \E part \in DOMAIN AfterPart : ReadPart(part)
    BY <2>2, ReadPartStep
  <2>3. CASE ProcessExits
    BY <2>3, ProcessExitsStep
  <2>4. CASE UNCHANGED vars
    BY <2>4 DEF vars, HInv, SampleTypeInv, ResultInv, StatInv, PartsInv, Real, ReadCgroupPath,
      CgroupPath
  <2> QED
    BY <2>1, <2>2, <2>3, <2>4 DEF Next, Sampled
<1> QED
  BY InitHInv, <1>1, PTL DEF Spec

(* A sample that succeeds has the name of the process, whatever its        *)
(* characters, and each figure is the field it is named for; its parts are *)
(* those of the process, unless that has exited.                           *)
THEOREM FaithfulSample == Spec => []SampleFaithful
<1>1. HInv => SampleFaithful
  <2> SUFFICES ASSUME HInv, result = "success" PROVE SampleFaithful
    BY DEF HInv, ResultInv, SampleFaithful
  <2>1. at = "end"
    BY DEF HInv, ResultInv
  <2>2. /\ stat.command = comm /\ (stat.state = "Z" => proc # "running")
        /\ \A figure \in DOMAIN Documented : stat[figure] = Documented[figure]
    BY <2>1 DEF HInv, StatInv
  <2>3. ASSUME proc = "running"
        PROVE  \A part \in Parts : parts[part] = Real(part)
    BY <2>1, <2>3 DEF HInv, PartsInv, PartsBefore
  <2>4. ASSUME proc = "running", Colons(CgroupPath) = 0
        PROVE  parts["cgroup"] = CgroupPath
    BY <2>3, <2>4 DEF Parts, Real, ReadCgroupPath
  <2>5. ASSUME proc = "running"
        PROVE  \A part \in {"status", "io", "fd"} : parts[part] = <<part>>
    BY <2>3, <2>5 DEF Parts, Real
  <2> QED
    BY <2>2, <2>4, <2>5 DEF SampleFaithful
<1> QED
  BY <1>1, SampleInvariance, PTL

(* normalizeCgroupPath: the directory of a path that is not refused is     *)
(* below the root, for every path, however long, that --cgroup-path names. *)
THEOREM CgroupBelowRoot == Spec => []CgroupInside
<1>1. \A path \in Paths : Clean(path) \in Seq(Proper(STRING))
  BY NamesAssumption, CleanProper
<1>2. ASSUME asked \in Paths PROVE CgroupInside
  <2> SUFFICES ASSUME ~Refused(asked)
               PROVE  Clean(asked) # <<>> /\ ToSet(Clean(asked)) \cap {"", ".", ".."} = {}
    BY DEF CgroupInside
  <2>1. Clean(asked) # <<>>
    BY DEF Refused
  <2>2. \A i \in DOMAIN Clean(asked) : Clean(asked)[i] \in Proper(STRING)
    BY <1>1, <1>2, ElementOfSeq, LenProperties
  <2>3. ToSet(Clean(asked)) \subseteq Proper(STRING)
    BY <2>2 DEF ToSet
  <2> QED
    BY <2>1, <2>3 DEF Proper
<1>3. Init => asked \in Paths
  BY DEF Init
<1>4. asked \in Paths /\ [Next]_vars => (asked \in Paths)'
  BY DEF Next, ReadStat, ReadPart, ProcessExits, Sampled, vars
<1> QED
  BY <1>2, <1>3, <1>4, PTL DEF Spec
=============================================================================
