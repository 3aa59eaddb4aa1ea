----------------------------- MODULE EventLogSafety -----------------------------
(***************************************************************************)
(* Theorems about EventLog, for any number of writers and records, every   *)
(* size at which the file is rotated and every budget of faults, edits and *)
(* readings: damage stays local (LogInv), verify_chain's verdict can be    *)
(* relied on (VerdictIsTrue), and the log keeps what EvidenceLog promises  *)
(* (KeepsPromise).  The parts: lemmas about the operators, whose recursive *)
(* functions are first shown to exist; the invariant; what each of its     *)
(* parts needs at each step; edits; the theorems.                          *)
(***************************************************************************)
EXTENDS EventLog, FiniteSetTheorems, SequenceTheorems, WellFoundedInduction, TLAPS

-----------------------------------------------------------------------------
(* Induction and recursion on the natural numbers.                         *)

\* The library's induction theorem takes an operator; this one takes a set.
LEMMA Inductive ==
    ASSUME NEW S, 0 \in S, \A n \in Nat : n \in S => n + 1 \in S
    PROVE  Nat \subseteq S
<1> DEFINE T == Nat \ S
<1> SUFFICES ASSUME T # {} PROVE FALSE
  OBVIOUS
<1>1. IsWellFoundedOn(OpToRel(<, Nat), Nat)
  BY NatLessThanWellFounded
<1>2. PICK x \in T : \A y \in T : ~ (<<y, x>> \in OpToRel(<, Nat))
  <2>1. T \subseteq Nat /\ T # {}
    OBVIOUS
  <2>2. QED
    BY <1>1, <2>1, WFMin
<1>3. x \in Nat /\ x # 0 /\ x - 1 \in Nat /\ x - 1 < x
  OBVIOUS
<1>4. <<x - 1, x>> \in OpToRel(<, Nat)
  BY <1>3 DEF OpToRel
<1>5. x - 1 \in S
  BY <1>2, <1>3, <1>4
<1>6. (x - 1) + 1 = x
  BY <1>3
<1>7. x \in S
  BY <1>3, <1>5, <1>6
<1>8. QED
  BY <1>7

\* A function over 0 .. n, given by its first value and by how each value
\* comes from the one before.
Steps0(f, n, V, zero, step) ==
    f \in [0 .. n -> V] /\ f = [i \in 0 .. n |-> IF i = 0 THEN zero ELSE step[<<i, f[i - 1]>>]]

\* A function of 0..n with a given beginning and step exists.
LEMMA RecursionExists ==
    ASSUME NEW V, NEW zero \in V, NEW step, NEW n \in Nat,
           \A i \in 1 .. n : \A v \in V : step[<<i, v>>] \in V
    PROVE  \E f \in [0 .. n -> V] : Steps0(f, n, V, zero, step)
<1> DEFINE Good(m) == m <= n => \E f \in [0 .. m -> V] : Steps0(f, m, V, zero, step)
           S == {m \in Nat : Good(m)}
<1>1. 0 \in S
  <2> DEFINE f == [i \in 0 .. 0 |-> zero]
  <2>1. f \in [0 .. 0 -> V] /\ Steps0(f, 0, V, zero, step)
    BY DEF Steps0
  <2>2. QED
    BY <2>1
<1>2. ASSUME NEW m \in Nat, m \in S
      PROVE  m + 1 \in S
  <2> SUFFICES ASSUME m + 1 <= n PROVE \E f \in [0 .. m + 1 -> V] : Steps0(f, m + 1, V, zero, step)
    OBVIOUS
  <2>1. PICK g \in [0 .. m -> V] : Steps0(g, m, V, zero, step)
    BY <1>2
  <2> DEFINE f == [i \in 0 .. m + 1 |-> IF i = m + 1 THEN step[<<i, g[m]>>] ELSE g[i]]
  <2>2. f \in [0 .. m + 1 -> V]
    <3>1. g[m] \in V /\ m + 1 \in 1 .. n
      OBVIOUS
    <3>2. step[<<m + 1, g[m]>>] \in V
      BY <3>1
    <3>3. \A i \in 0 .. m + 1 : i # m + 1 => i \in 0 .. m
      OBVIOUS
    <3>4. QED
      BY <3>2, <3>3
  <2>3. ASSUME NEW i \in 0 .. m + 1
        PROVE  f[i] = IF i = 0 THEN zero ELSE step[<<i, f[i - 1]>>]
    <3>1. CASE i = m + 1
      <4>1. i - 1 = m /\ i # 0 /\ m \in 0 .. m + 1 /\ m # m + 1
        BY <3>1
      <4>2. f[m] = g[m]
        BY <4>1
      <4>3. QED
        BY <3>1, <4>1, <4>2
    <3>2. CASE i # m + 1
      <4>1. i \in 0 .. m /\ f[i] = g[i]
        BY <3>2
      <4>2. g[i] = IF i = 0 THEN zero ELSE step[<<i, g[i - 1]>>]
        BY <2>1, <4>1 DEF Steps0
      <4>3. i # 0 => i - 1 \in 0 .. m + 1 /\ i - 1 # m + 1
        BY <4>1
      <4>4. i # 0 => f[i - 1] = g[i - 1]
        BY <4>3
      <4>5. QED
        BY <4>1, <4>2, <4>4
    <3>3. QED
      BY <3>1, <3>2
  <2> HIDE DEF f
  <2>4. f = [i \in 0 .. m + 1 |-> IF i = 0 THEN zero ELSE step[<<i, f[i - 1]>>]]
    BY <2>2, <2>3
  <2>5. QED
    BY <2>2, <2>4 DEF Steps0
<1>3. Nat \subseteq S
  BY <1>1, <1>2, Inductive
<1>4. QED
  BY <1>3

\* What holds of the empty sequence and of every longer one holds of all.
LEMMA SequencesBuilt ==
    ASSUME NEW V, NEW S, <<>> \in S, \A s \in Seq(V), l \in V : s \in S => Append(s, l) \in S
    PROVE  Seq(V) \subseteq S
<1> DEFINE T == {n \in Nat : \A s \in Seq(V) : Len(s) = n => s \in S}
<1>1. 0 \in T
  <2>1. \A s \in Seq(V) : Len(s) = 0 => s = <<>>
    OBVIOUS
  <2>2. QED
    BY <2>1
<1>2. ASSUME NEW n \in Nat, n \in T
      PROVE  n + 1 \in T
  <2> SUFFICES ASSUME NEW s \in Seq(V), Len(s) = n + 1 PROVE s \in S
    OBVIOUS
  <2> DEFINE front == SubSeq(s, 1, n)
  <2>1. front \in Seq(V) /\ Len(front) = n /\ s[n + 1] \in V
    OBVIOUS
  <2>2. s = Append(front, s[n + 1])
    OBVIOUS
  <2>3. front \in S
    BY <1>2, <2>1
  <2>4. QED
    BY <2>1, <2>2, <2>3
<1>3. Nat \subseteq T
  BY <1>1, <1>2, Inductive
<1>4. QED
  <2>1. \A s \in Seq(V) : Len(s) \in Nat
    OBVIOUS
  <2>2. QED
    BY <1>3, <2>1

-----------------------------------------------------------------------------
(* Lines: the hash that is expected after each, and the records among them. *)

LineOK(l) == l \in Line
SameHash(l, k) == l.kind = k.kind /\ l.id = k.id

Hashes(lines) ==
    CHOOSE f : f = [i \in 0 .. Len(lines) |-> IF i = 0 THEN NoHash ELSE Follow(lines[i], f[i - 1])]
Expected(lines) == Hashes(lines)[Len(lines)]

LEMMA LineType ==
    ASSUME NEW l \in Line
    PROVE  /\ l.kind \in {"record", "piece", "junk", "edited", "legacy"}
           /\ l.id \in Nat /\ l.prev \in Nat /\ l.nl \in BOOLEAN
  BY DEF Line

\* What the constants come to.
LEMMA SomeConstants == MaxLines \in Nat /\ MaxLines > 0 /\ MaxRecords \in Nat /\ NoHash \in Nat /\ NoHash > 0 /\ NoHash = MaxRecords + 1
                       /\ Genesis = 0 /\ Genesis # NoHash
  BY ConstantsAssumption DEF NoHash, Genesis

LEMMA FollowType ==
    ASSUME NEW l \in Line, NEW h \in Nat
    PROVE  Follow(l, h) \in Nat
  BY LineType DEF Follow

HashStep(lines) == [p \in (1 .. Len(lines)) \X Nat |-> Follow(lines[p[1]], p[2])]

\* Hashes is a recursion of that kind.
LEMMA HashesSteps ==
    ASSUME NEW lines \in Seq(Line)
    PROVE  /\ Hashes(lines) \in [0 .. Len(lines) -> Nat]
           /\ Steps0(Hashes(lines), Len(lines), Nat, NoHash, HashStep(lines))
<1> DEFINE n == Len(lines)
           step == HashStep(lines)
           Is(f) == f = [i \in 0 .. n |-> IF i = 0 THEN NoHash ELSE Follow(lines[i], f[i - 1])]
<1>1. n \in Nat /\ \A i \in 1 .. n : lines[i] \in Line
  OBVIOUS
<1>2. \A i \in 1 .. n : \A v \in Nat : step[<<i, v>>] = Follow(lines[i], v) /\ step[<<i, v>>] \in Nat
  BY <1>1, FollowType DEF HashStep
<1>3. NoHash \in Nat
  BY SomeConstants
<1>4. PICK f \in [0 .. n -> Nat] : Steps0(f, n, Nat, NoHash, step)
  BY <1>1, <1>2, <1>3, RecursionExists
<1>5. ASSUME NEW g \in [0 .. n -> Nat]
      PROVE  Steps0(g, n, Nat, NoHash, step) <=> Is(g)
  <2>1. ASSUME NEW i \in 0 .. n
        PROVE  (IF i = 0 THEN NoHash ELSE step[<<i, g[i - 1]>>]) = (IF i = 0 THEN NoHash ELSE Follow(lines[i], g[i - 1]))
    <3>1. i # 0 => i \in 1 .. n /\ i - 1 \in 0 .. n
      BY <1>1
    <3>2. i # 0 => g[i - 1] \in Nat
      BY <3>1
    <3>3. QED
      BY <1>2, <3>1, <3>2
  <2>2. [i \in 0 .. n |-> IF i = 0 THEN NoHash ELSE step[<<i, g[i - 1]>>]]
          = [i \in 0 .. n |-> IF i = 0 THEN NoHash ELSE Follow(lines[i], g[i - 1])]
    BY <2>1
  <2>3. QED
    BY <2>2 DEF Steps0
<1>6. Is(f)
  BY <1>4, <1>5
<1>7. Hashes(lines) = CHOOSE g : Is(g)
  BY DEF Hashes
<1> HIDE DEF Is
<1>8. PICK g : g = Hashes(lines) /\ Is(g)
  BY <1>6, <1>7
<1>9. g \in [0 .. n -> Nat]
  <2>1. g = [i \in 0 .. n |-> IF i = 0 THEN NoHash ELSE Follow(lines[i], g[i - 1])]
    BY <1>8 DEF Is
  <2> DEFINE S == {i \in Nat : i <= n => g[i] \in Nat}
  <2>2. \A i \in 0 .. n : g[i] = IF i = 0 THEN NoHash ELSE Follow(lines[i], g[i - 1])
    BY <2>1
  <2>3. 0 \in S
    <3>1. 0 \in 0 .. n
      BY <1>1
    <3>2. QED
      BY <1>3, <2>2, <3>1
  <2>4. ASSUME NEW i \in Nat, i \in S
        PROVE  i + 1 \in S
    <3> SUFFICES ASSUME i + 1 <= n PROVE g[i + 1] \in Nat
      OBVIOUS
    <3>1. i + 1 \in 0 .. n /\ i + 1 \in 1 .. n /\ i + 1 # 0 /\ (i + 1) - 1 = i /\ i <= n
      BY <1>1
    <3>2. g[i + 1] = Follow(lines[i + 1], g[i]) /\ g[i] \in Nat
      BY <2>2, <2>4, <3>1
    <3>3. QED
      BY <1>1, <3>1, <3>2, FollowType
  <2>5. Nat \subseteq S
    BY <2>3, <2>4, Inductive
  <2>6. \A i \in 0 .. n : g[i] \in Nat
    BY <2>5
  <2>7. QED
    BY <2>1, <2>6
<1>10. QED
  BY <1>5, <1>8, <1>9

\* So the expected hashes are what Anomalies defines, a number for each line.
LEMMA HashesAre ==
    ASSUME NEW lines \in Seq(Line)
    PROVE  /\ Hashes(lines)[0] = NoHash
           /\ \A i \in 0 .. Len(lines) : Hashes(lines)[i] \in Nat
           /\ \A i \in 1 .. Len(lines) : Hashes(lines)[i] = Follow(lines[i], Hashes(lines)[i - 1])
<1>1. PICK f : f = Hashes(lines)
  OBVIOUS
<1>2. f \in [0 .. Len(lines) -> Nat] /\ Steps0(f, Len(lines), Nat, NoHash, HashStep(lines))
  BY <1>1, HashesSteps
<1>3. \A i \in 0 .. Len(lines) : f[i] = IF i = 0 THEN NoHash ELSE HashStep(lines)[<<i, f[i - 1]>>]
  BY <1>2 DEF Steps0
<1>4. f[0] = NoHash
  <2>1. 0 \in 0 .. Len(lines)
    OBVIOUS
  <2>2. QED
    BY <1>3, <2>1
<1>5. ASSUME NEW i \in 1 .. Len(lines)
      PROVE  f[i] = Follow(lines[i], f[i - 1])
  <2>1. i \in 0 .. Len(lines) /\ i # 0 /\ i - 1 \in 0 .. Len(lines)
    OBVIOUS
  <2>2. f[i - 1] \in Nat
    BY <1>2, <2>1
  <2>3. QED
    BY <1>3, <2>1, <2>2 DEF HashStep
<1>6. QED
  BY <1>1, <1>2, <1>4, <1>5

\* What is expected depends on the lines before, but not on their newlines.
LEMMA HashesAgree ==
    ASSUME NEW s \in Seq(Line), NEW t \in Seq(Line), NEW k \in Nat, k <= Len(s), k <= Len(t),
           \A i \in 1 .. k : SameHash(s[i], t[i])
    PROVE  \A i \in 0 .. k : Hashes(s)[i] = Hashes(t)[i]
<1> DEFINE S == {i \in Nat : i <= k => Hashes(s)[i] = Hashes(t)[i]}
<1>1. Len(s) \in Nat /\ Len(t) \in Nat
  OBVIOUS
<1>2. 0 \in S
  BY HashesAre
<1>3. ASSUME NEW i \in Nat, i \in S
      PROVE  i + 1 \in S
  <2> SUFFICES ASSUME i + 1 <= k PROVE Hashes(s)[i + 1] = Hashes(t)[i + 1]
    OBVIOUS
  <2>1. i + 1 \in 1 .. Len(s) /\ i + 1 \in 1 .. Len(t) /\ i + 1 \in 1 .. k /\ (i + 1) - 1 = i /\ i <= k
    BY <1>1
  <2>2. /\ Hashes(s)[i + 1] = Follow(s[i + 1], Hashes(s)[i])
        /\ Hashes(t)[i + 1] = Follow(t[i + 1], Hashes(t)[i])
    BY <2>1, HashesAre
  <2>3. Hashes(s)[i] = Hashes(t)[i] /\ SameHash(s[i + 1], t[i + 1])
    BY <1>3, <2>1
  <2>4. QED
    BY <2>2, <2>3 DEF Follow, SameHash
<1>4. Nat \subseteq S
  BY <1>2, <1>3, Inductive
<1>5. QED
  BY <1>4

LEMMA AppendParts ==
    ASSUME NEW S, NEW s \in Seq(S), NEW l \in S
    PROVE  /\ Append(s, l) \in Seq(S) /\ Len(Append(s, l)) = Len(s) + 1 /\ Append(s, l)[Len(s) + 1] = l
           /\ \A i \in 1 .. Len(s) : Append(s, l)[i] = s[i]
           /\ DOMAIN Append(s, l) = 1 .. Len(s) + 1 /\ DOMAIN s = 1 .. Len(s) /\ Len(s) \in Nat
  OBVIOUS

LEMMA EmptyExpected == Expected(<<>>) = NoHash
<1>1. <<>> \in Seq(Line) /\ Len(<<>>) = 0
  OBVIOUS
<1>2. QED
  BY <1>1, HashesAre DEF Expected

\* ... and the hash expected after it is the one it claims, or the old one.
LEMMA ExpectedNext ==
    ASSUME NEW s \in Seq(Line), NEW l \in Line
    PROVE  /\ Expected(Append(s, l)) = Follow(l, Expected(s))
           /\ \A i \in 0 .. Len(s) : Hashes(Append(s, l))[i] = Hashes(s)[i]
<1>1. PICK t : t = Append(s, l)
  OBVIOUS
<1>2. /\ t \in Seq(Line) /\ Len(t) = Len(s) + 1 /\ t[Len(s) + 1] = l /\ Len(s) \in Nat
      /\ \A i \in 1 .. Len(s) : t[i] = s[i]
  BY <1>1, AppendParts
<1>3. \A i \in 0 .. Len(s) : Hashes(t)[i] = Hashes(s)[i]
  <2>1. \A i \in 1 .. Len(s) : SameHash(t[i], s[i])
    BY <1>2 DEF SameHash
  <2>2. Len(s) <= Len(t) /\ Len(s) <= Len(s)
    BY <1>2
  <2>3. QED
    BY <1>2, <2>1, <2>2, HashesAgree
<1>4. Hashes(t)[Len(s) + 1] = Follow(t[Len(s) + 1], Hashes(t)[(Len(s) + 1) - 1])
  <2>1. Len(s) + 1 \in 1 .. Len(t)
    BY <1>2
  <2>2. QED
    BY <1>2, <2>1, HashesAre
<1>5. (Len(s) + 1) - 1 = Len(s) /\ Len(s) \in 0 .. Len(s)
  BY <1>2
<1>6. QED
  BY <1>1, <1>2, <1>3, <1>4, <1>5 DEF Expected

-----------------------------------------------------------------------------
(* What is wrong with lines, if the last one counts like the others.       *)

Bad(lines) == {i \in DOMAIN lines : StatusOf(lines[i], Hashes(lines)[i - 1], FALSE) \in Tampering}
\* What a line adds.
Wrong(l, h, newest) == StatusOf(l, h, newest) \in Tampering

LEMMA AnomaliesAre ==
    ASSUME NEW lines
    PROVE  Anomalies(lines) = {i \in DOMAIN lines : Wrong(lines[i], Hashes(lines)[i - 1], i = Len(lines))}
  BY DEF Anomalies, ClaimedHashes, Hashes, Wrong

LEMMA NewestIsMilder ==
    ASSUME NEW l \in Line, NEW h, NEW newest \in BOOLEAN, Wrong(l, h, newest)
    PROVE  Wrong(l, h, FALSE)
  BY LineType DEF Wrong, StatusOf, Tampering

-----------------------------------------------------------------------------
(* Sequences taken apart at their last element.                            *)

\* A sequence that is not empty has a last element.
LEMMA SplitLast ==
    ASSUME NEW V, NEW c \in Seq(V), c # <<>>
    PROVE  \E front \in Seq(V), l \in V : c = Append(front, l)
<1> DEFINE n == Len(c)
           front == SubSeq(c, 1, n - 1)
<1>1. n \in Nat /\ n > 0
  OBVIOUS
<1>2. front \in Seq(V) /\ Len(front) = n - 1 /\ c[n] \in V
  <2>1. n \in 1 .. Len(c) /\ n - 1 \in 0 .. n
    BY <1>1
  <2>2. c[n] \in V
    BY <2>1
  <2>3. \A i \in 1 .. n - 1 : c[i] \in V
    BY <1>1
  <2>4. n - 1 \in Int /\ n - 1 \in Nat /\ 1 \in Int
    BY <1>1
  <2>5. PICK m : m = n - 1
    OBVIOUS
  <2>6. /\ SubSeq(c, 1, m) \in Seq(V)
        /\ Len(SubSeq(c, 1, m)) = IF 1 <= m THEN m - 1 + 1 ELSE 0
    BY <2>3, <2>4, <2>5, SubSeqProperties
  <2>7. Len(SubSeq(c, 1, m)) = m
    BY <2>4, <2>5, <2>6
  <2>8. QED
    BY <2>2, <2>5, <2>6, <2>7
<1>3. c = Append(front, c[n])
  BY <1>1, <1>2
<1>4. QED
  BY <1>2, <1>3

LEMMA LastOf ==
    ASSUME NEW V, NEW s \in Seq(V), NEW l \in V, NEW x \in V
    PROVE  /\ Append(s, l) # <<>>
           /\ Append(s, l)[Len(Append(s, l))] = l
           /\ SubSeq(Append(s, l), 1, Len(Append(s, l)) - 1) = s
           /\ [Append(s, l) EXCEPT ![Len(Append(s, l))] = x] = Append(s, x)
<1>1. /\ Append(s, l) \in Seq(V) /\ Len(Append(s, l)) = Len(s) + 1 /\ Append(s, l)[Len(s) + 1] = l
      /\ Len(s) \in Nat
  BY AppendParts
<1>2. Append(s, l) # <<>>
  BY <1>1
<1>3. SubSeq(Append(s, l), 1, Len(Append(s, l)) - 1) = s
  BY <1>1
<1>4. [Append(s, l) EXCEPT ![Len(Append(s, l))] = x] = Append(s, x)
  <2> DEFINE t == [Append(s, l) EXCEPT ![Len(Append(s, l))] = x]
             n == Len(s)
  <2>1. /\ t \in Seq(V) /\ Len(t) = n + 1
        /\ \A i \in 1 .. n + 1 : t[i] = IF i = Len(Append(s, l)) THEN x ELSE Append(s, l)[i]
    <3>1. PICK w : w = Append(s, l)
      OBVIOUS
    <3>2. w \in Seq(V) /\ Len(w) = n + 1 /\ Len(w) \in 1 .. Len(w)
      BY <1>1, <3>1
    <3>3. /\ [w EXCEPT ![Len(w)] = x] \in Seq(V)
          /\ Len([w EXCEPT ![Len(w)] = x]) = Len(w)
          /\ \A j \in 1 .. Len(w) : [w EXCEPT ![Len(w)] = x][j] = IF j = Len(w) THEN x ELSE w[j]
      BY <3>2, ExceptSeq
    <3>4. QED
      BY <3>1, <3>2, <3>3
  <2>2. \A i \in 1 .. n + 1 : t[i] = IF i = n + 1 THEN x ELSE Append(s, l)[i]
    BY <1>1, <2>1
  <2>3. \A i \in 1 .. n + 1 : t[i] = Append(s, x)[i]
    BY <1>1, <2>2, AppendParts
  <2>4. Append(s, x) \in Seq(V) /\ Len(Append(s, x)) = n + 1
    BY AppendParts
  <2> HIDE DEF t
  <2>5. t = Append(s, x)
    BY <2>1, <2>3, <2>4, SeqEqual
  <2>6. QED
    BY <2>5 DEF t
<1>5. QED
  BY <1>1, <1>2, <1>3, <1>4

LEMMA SameLast ==
    ASSUME NEW V, NEW s \in Seq(V), NEW l \in V, NEW t \in Seq(V), NEW k \in V, Append(s, l) = Append(t, k)
    PROVE  s = t /\ l = k
  BY LastOf

LEMMA Associative == \A s, t, u \in Seq(Line) : (s \o t) \o u = s \o (t \o u)
  BY ConcatAssociative

\* A sequence behind another one.
LEMMA Joining ==
    ASSUME NEW V, NEW s \in Seq(V), NEW t \in Seq(V), NEW l \in V
    PROVE  /\ s \o t \in Seq(V) /\ Len(s \o t) = Len(s) + Len(t)
           /\ s \o <<>> = s /\ <<>> \o s = s
           /\ s \o Append(t, l) = Append(s \o t, l)
           /\ \A i \in 1 .. Len(s) : (s \o t)[i] = s[i]
           /\ \A i \in 1 .. Len(t) : (s \o t)[Len(s) + i] = t[i]
  OBVIOUS

-----------------------------------------------------------------------------
(* What one more line changes.                                             *)

Counted(b) == IF b THEN 1 ELSE 0
BadCount(s) == Cardinality(Bad(s))
IsHashed(l) == l.kind \in {"record", "edited"}

\* What an appended line adds to what is wrong, and to what is reported.
LEMMA BadNext ==
    ASSUME NEW s \in Seq(Line), NEW l \in Line
    PROVE  /\ Bad(Append(s, l)) = Bad(s) \cup (IF Wrong(l, Expected(s), FALSE) THEN {Len(s) + 1} ELSE {})
           /\ Anomalies(Append(s, l)) = Bad(s) \cup (IF Wrong(l, Expected(s), TRUE) THEN {Len(s) + 1} ELSE {})
           /\ Bad(s) \subseteq 1 .. Len(s)
<1>1. PICK t : t = Append(s, l)
  OBVIOUS
<1>2. /\ t \in Seq(Line) /\ DOMAIN t = 1 .. Len(s) + 1 /\ Len(t) = Len(s) + 1 /\ Len(s) \in Nat /\ DOMAIN s = 1 .. Len(s)
      /\ t[Len(s) + 1] = l /\ \A i \in 1 .. Len(s) : t[i] = s[i]
  BY <1>1, AppendParts
<1>3. \A i \in 0 .. Len(s) : Hashes(t)[i] = Hashes(s)[i]
  BY <1>1, ExpectedNext
<1>4. \A i \in 1 .. Len(s) : Wrong(t[i], Hashes(t)[i - 1], FALSE) <=> Wrong(s[i], Hashes(s)[i - 1], FALSE)
  <2>1. \A i \in 1 .. Len(s) : i - 1 \in 0 .. Len(s)
    BY <1>2
  <2>2. QED
    BY <1>2, <1>3, <2>1
<1>5. Hashes(t)[(Len(s) + 1) - 1] = Expected(s)
  <2>1. (Len(s) + 1) - 1 = Len(s) /\ Len(s) \in 0 .. Len(s)
    BY <1>2
  <2>2. QED
    BY <1>3, <2>1 DEF Expected
<1>6. Bad(s) = {i \in 1 .. Len(s) : Wrong(s[i], Hashes(s)[i - 1], FALSE)}
  BY <1>2 DEF Bad, Wrong
<1>7. Bad(t) = {i \in 1 .. Len(s) + 1 : Wrong(t[i], Hashes(t)[i - 1], FALSE)}
  BY <1>2 DEF Bad, Wrong
<1>8. Anomalies(t) = {i \in 1 .. Len(s) + 1 : Wrong(t[i], Hashes(t)[i - 1], i = Len(s) + 1)}
  BY <1>2, AnomaliesAre
<1>9. \A i \in 1 .. Len(s) + 1 : i = Len(s) + 1 \/ i \in 1 .. Len(s)
  BY <1>2
<1>10. \A i \in 1 .. Len(s) : i # Len(s) + 1 /\ i \in 1 .. Len(s) + 1
  BY <1>2
<1>11. Len(s) + 1 \in 1 .. Len(s) + 1
  BY <1>2
<1>12. \A i : i \in Bad(t) <=> i \in Bad(s) \/ (i = Len(s) + 1 /\ Wrong(l, Expected(s), FALSE))
  BY <1>2, <1>4, <1>5, <1>6, <1>7, <1>9, <1>10, <1>11
<1>13. \A i : i \in Anomalies(t) <=> i \in Bad(s) \/ (i = Len(s) + 1 /\ Wrong(l, Expected(s), TRUE))
  <2>1. \A i \in 1 .. Len(s) : (i = Len(s) + 1) = FALSE
    BY <1>10
  <2>2. \A i \in 1 .. Len(s) : i \in Anomalies(t) <=> i \in Bad(s)
    BY <1>4, <1>6, <1>8, <1>10, <2>1
  <2>3. Len(s) + 1 \in Anomalies(t) <=> Wrong(l, Expected(s), TRUE)
    BY <1>2, <1>5, <1>8, <1>11
  <2>4. \A i : i \in Anomalies(t) => i \in 1 .. Len(s) \/ i = Len(s) + 1
    BY <1>8, <1>9
  <2>5. \A i : i \in Bad(s) => i \in 1 .. Len(s)
    BY <1>6
  <2>6. Len(s) + 1 \notin Bad(s)
    BY <1>6, <1>10
  <2>7. QED
    BY <2>2, <2>3, <2>4, <2>5, <2>6
<1>14. QED
  BY <1>1, <1>6, <1>12, <1>13

\* Only finitely many lines are wrong.
LEMMA BadFinite ==
    ASSUME NEW s \in Seq(Line)
    PROVE  IsFiniteSet(Bad(s)) /\ BadCount(s) \in Nat
<1>1. Bad(s) \subseteq 1 .. Len(s) /\ Len(s) \in Nat
  <2>1. DOMAIN s = 1 .. Len(s) /\ Len(s) \in Nat
    OBVIOUS
  <2>2. QED
    BY <2>1 DEF Bad
<1>2. IsFiniteSet(1 .. Len(s))
  BY <1>1, FS_Interval
<1>3. IsFiniteSet(Bad(s))
  BY <1>1, <1>2, FS_Subset
<1>4. QED
  BY <1>3, FS_CardinalityType DEF BadCount

\* How many lines are wrong, and reported, with one line more.
LEMMA BadCounts ==
    ASSUME NEW s \in Seq(Line), NEW l \in Line
    PROVE  /\ BadCount(Append(s, l)) = BadCount(s) + Counted(Wrong(l, Expected(s), FALSE))
           /\ Cardinality(Anomalies(Append(s, l))) = BadCount(s) + Counted(Wrong(l, Expected(s), TRUE))
           /\ BadCount(s) \in Nat
<1>1. IsFiniteSet(Bad(s)) /\ BadCount(s) \in Nat /\ Len(s) + 1 \notin Bad(s)
  <2>1. Bad(s) \subseteq 1 .. Len(s)
    BY BadNext
  <2>4. Len(s) \in Nat
    OBVIOUS
  <2>2. Len(s) + 1 \notin 1 .. Len(s)
    BY <2>4
  <2>3. QED
    BY <2>1, <2>2, BadFinite
<1>2. Cardinality(Bad(s) \cup {Len(s) + 1}) = BadCount(s) + 1
  BY <1>1, FS_AddElement DEF BadCount
<1>3. Cardinality(Bad(s) \cup {}) = BadCount(s) + 0
  BY <1>1 DEF BadCount
<1>4. BadCount(Append(s, l)) = BadCount(s) + Counted(Wrong(l, Expected(s), FALSE))
  <2>1. CASE Wrong(l, Expected(s), FALSE)
    BY <1>2, <2>1, BadNext DEF BadCount, Counted
  <2>2. CASE ~Wrong(l, Expected(s), FALSE)
    BY <1>3, <2>2, BadNext DEF BadCount, Counted
  <2>3. QED
    BY <2>1, <2>2
<1>5. Cardinality(Anomalies(Append(s, l))) = BadCount(s) + Counted(Wrong(l, Expected(s), TRUE))
  <2>1. CASE Wrong(l, Expected(s), TRUE)
    BY <1>2, <2>1, BadNext DEF Counted
  <2>2. CASE ~Wrong(l, Expected(s), TRUE)
    BY <1>3, <2>2, BadNext DEF Counted
  <2>3. QED
    BY <2>1, <2>2
<1>6. QED
  BY <1>1, <1>4, <1>5

LEMMA NothingBad == BadCount(<<>>) = 0 /\ Anomalies(<<>>) = {}
<1>1. <<>> \in Seq(Line) /\ DOMAIN <<>> = {}
  OBVIOUS
<1>2. Bad(<<>>) = {} /\ Anomalies(<<>>) = {}
  BY <1>1, AnomaliesAre DEF Bad
<1>3. QED
  BY <1>2, FS_EmptySet DEF BadCount

\* As a set, and with what counts in the newest file, less is reported.
LEMMA FewerReported ==
    ASSUME NEW s \in Seq(Line)
    PROVE  /\ Anomalies(s) \subseteq Bad(s)
           /\ IsFiniteSet(Anomalies(s)) /\ Cardinality(Anomalies(s)) \in Nat
           /\ Cardinality(Anomalies(s)) <= BadCount(s)
<1>1. Anomalies(s) \subseteq Bad(s)
  <2>1. \A i \in DOMAIN s : s[i] \in Line
    OBVIOUS
  <2>2. ASSUME NEW i \in DOMAIN s, Wrong(s[i], Hashes(s)[i - 1], i = Len(s))
        PROVE  Wrong(s[i], Hashes(s)[i - 1], FALSE)
    <3>1. PICK b \in BOOLEAN : b = (i = Len(s))
      OBVIOUS
    <3>2. QED
      BY <2>1, <2>2, <3>1, NewestIsMilder
  <2>3. QED
    BY <2>2, AnomaliesAre DEF Bad, Wrong
<1>2. QED
  BY <1>1, BadFinite, FS_Subset, FS_CardinalityType DEF BadCount

-----------------------------------------------------------------------------
(* Where an expected hash comes from, and what a writer reads of the tail.  *)

\* The expected hash is the last hashed line's, if there is one.
LEMMA HashComes ==
    ASSUME NEW s \in Seq(Line), NEW m \in 0 .. Len(s)
    PROVE  \/ Hashes(s)[m] = NoHash /\ \A i \in 1 .. m : ~IsHashed(s[i])
           \/ \E i \in 1 .. m : /\ IsHashed(s[i]) /\ Hashes(s)[m] = s[i].id
                                /\ \A j \in 1 .. m : IsHashed(s[j]) => j <= i
<1> DEFINE None(k) == Hashes(s)[k] = NoHash /\ \A i \in 1 .. k : ~IsHashed(s[i])
           Last(k, i) == IsHashed(s[i]) /\ Hashes(s)[k] = s[i].id /\ \A j \in 1 .. k : IsHashed(s[j]) => j <= i
           S == {k \in Nat : k <= Len(s) => None(k) \/ \E i \in 1 .. k : Last(k, i)}
<1>1. Len(s) \in Nat
  OBVIOUS
<1>2. 0 \in S
  <2>1. None(0)
    BY HashesAre
  <2>2. QED
    BY <2>1
<1>3. ASSUME NEW k \in Nat, k \in S
      PROVE  k + 1 \in S
  <2> SUFFICES ASSUME k + 1 <= Len(s) PROVE None(k + 1) \/ \E i \in 1 .. k + 1 : Last(k + 1, i)
    OBVIOUS
  <2>1. k + 1 \in 1 .. Len(s) /\ (k + 1) - 1 = k /\ k <= Len(s) /\ k + 1 \in 1 .. k + 1
    BY <1>1
  <2>2. Hashes(s)[k + 1] = Follow(s[k + 1], Hashes(s)[k])
    BY <2>1, HashesAre
  <2>3. \A j \in 1 .. k + 1 : j \in 1 .. k \/ j = k + 1
    OBVIOUS
  <2>4. CASE IsHashed(s[k + 1])
    <3>1. Hashes(s)[k + 1] = s[k + 1].id
      BY <2>2, <2>4 DEF Follow, IsHashed
    <3>2. Last(k + 1, k + 1)
      BY <2>4, <3>1
    <3>3. QED
      BY <2>1, <3>2
  <2>5. CASE ~IsHashed(s[k + 1])
    <3>1. Hashes(s)[k + 1] = Hashes(s)[k]
      BY <2>2, <2>5 DEF Follow, IsHashed
    <3>2. CASE None(k)
      BY <2>3, <2>5, <3>1, <3>2
    <3>3. CASE \E i \in 1 .. k : Last(k, i)
      <4>1. PICK i \in 1 .. k : Last(k, i)
        BY <3>3
      <4>2. Last(k + 1, i) /\ i \in 1 .. k + 1
        BY <2>3, <2>5, <3>1, <4>1
      <4>3. QED
        BY <4>2
    <3>4. QED
      BY <1>3, <2>1, <3>2, <3>3
  <2>6. QED
    BY <2>4, <2>5
<1>4. Nat \subseteq S
  BY <1>2, <1>3, Inductive
<1>5. m \in Nat /\ m <= Len(s)
  BY <1>1
<1>6. QED
  BY <1>4, <1>5

LEMMA TerminatedIs ==
    /\ Terminated(<<>>) = <<>>
    /\ \A s \in Seq(Line), l \in Line : Terminated(Append(s, l)) = IF l.nl THEN Append(s, l) ELSE s
<1>1. Terminated(<<>>) = <<>>
  BY DEF Terminated
<1>2. ASSUME NEW s \in Seq(Line), NEW l \in Line
      PROVE  Terminated(Append(s, l)) = IF l.nl THEN Append(s, l) ELSE s
  <2>1. PICK t : t = Append(s, l)
    OBVIOUS
  <2>2. t # <<>> /\ t[Len(t)] = l /\ SubSeq(t, 1, Len(t) - 1) = s
    BY <2>1, LastOf
  <2>3. CASE l.nl
    BY <2>1, <2>2, <2>3 DEF Terminated
  <2>4. CASE ~l.nl
    BY <2>1, <2>2, <2>4 DEF Terminated
  <2>5. QED
    BY <2>3, <2>4
<1>3. QED
  BY <1>1, <1>2

LEMMA TerminatedType ==
    ASSUME NEW c \in Seq(Line)
    PROVE  Terminated(c) \in Seq(Line)
<1>1. CASE c = <<>>
  BY <1>1, TerminatedIs
<1>2. CASE c # <<>>
  <2>1. PICK s \in Seq(Line), l \in Line : c = Append(s, l)
    BY <1>2, SplitLast
  <2>2. QED
    BY <2>1, TerminatedIs, AppendParts
<1>3. QED
  BY <1>1, <1>2

\* What _tail finds is what verify_chain expects after the terminated lines.
LEMMA TailIsExpected ==
    ASSUME NEW c \in Seq(Line)
    PROVE  TailHash(c) = Expected(Terminated(c))
<1>1. PICK t \in Seq(Line) : t = Terminated(c)
  BY TerminatedType
<1> DEFINE H == Hashed(t)
           last == CHOOSE i \in H : \A j \in H : j <= i
<1>2. TailHash(c) = IF H = {} THEN NoHash ELSE t[last].id
  BY <1>1 DEF TailHash
<1>3. Len(t) \in 0 .. Len(t) /\ DOMAIN t = 1 .. Len(t) /\ Len(t) \in Nat
  <2>1. Len(t) \in Nat /\ DOMAIN t = 1 .. Len(t)
    OBVIOUS
  <2>2. QED
    BY <2>1
<1>4. H = {i \in 1 .. Len(t) : IsHashed(t[i])}
  BY <1>3 DEF Hashed, IsHashed
<1> HIDE DEF H
<1>5. CASE H = {}
  <2>1. \A i \in 1 .. Len(t) : ~IsHashed(t[i])
    BY <1>4, <1>5
  <2>2. Hashes(t)[Len(t)] = NoHash
    BY <1>3, <2>1, HashComes
  <2>3. QED
    BY <1>1, <1>2, <1>5, <2>2 DEF Expected
<1>6. CASE H # {}
  <2>1. PICK i \in 1 .. Len(t) : /\ IsHashed(t[i]) /\ Hashes(t)[Len(t)] = t[i].id
                                 /\ \A j \in 1 .. Len(t) : IsHashed(t[j]) => j <= i
    <3>1. \E i \in 1 .. Len(t) : IsHashed(t[i])
      BY <1>4, <1>6
    <3>2. PICK n \in 0 .. Len(t) : n = Len(t)
      BY <1>3
    <3>3. \/ Hashes(t)[n] = NoHash /\ \A i \in 1 .. n : ~IsHashed(t[i])
          \/ \E i \in 1 .. n : /\ IsHashed(t[i]) /\ Hashes(t)[n] = t[i].id
                               /\ \A j \in 1 .. n : IsHashed(t[j]) => j <= i
      BY <1>1, HashComes
    <3>4. QED
      BY <3>1, <3>2, <3>3
  <2>2. i \in H /\ \A j \in H : j <= i
    BY <1>4, <2>1
  <2>3. last \in H /\ \A j \in H : j <= last
    BY <2>2
  <2>4. last = i
    <3>1. last <= i /\ i <= last
      BY <2>2, <2>3
    <3>2. last \in Nat /\ i \in Nat
      BY <1>4, <2>3
    <3>3. QED
      BY <3>1, <3>2
  <2>5. QED
    BY <1>1, <1>2, <1>6, <2>1, <2>4 DEF Expected
<1>7. QED
  BY <1>5, <1>6

-----------------------------------------------------------------------------
(* The records a reader finds.                                             *)

Add(found, l) == IF l.kind = "record" THEN Append(found, l) ELSE found
Found(lines) ==
    CHOOSE f : f = [i \in 0 .. Len(lines) |->
                        IF i = 0 THEN <<>> ELSE IF lines[i].kind = "record" THEN Append(f[i - 1], lines[i]) ELSE f[i - 1]]

LEMMA AddType ==
    ASSUME NEW l \in Line, NEW found \in Seq(Line)
    PROVE  Add(found, l) \in Seq(Line)
  BY DEF Add

FoundStep(lines) == [p \in (1 .. Len(lines)) \X Seq(Line) |-> Add(p[2], lines[p[1]])]

\* Records is a recursion, too.
LEMMA FoundAre ==
    ASSUME NEW lines \in Seq(Line)
    PROVE  /\ Found(lines)[0] = <<>>
           /\ \A i \in 0 .. Len(lines) : Found(lines)[i] \in Seq(Line)
           /\ \A i \in 1 .. Len(lines) : Found(lines)[i] = Add(Found(lines)[i - 1], lines[i])
<1> DEFINE n == Len(lines)
           step == FoundStep(lines)
           Is(f) == f = [i \in 0 .. n |-> IF i = 0 THEN <<>> ELSE Add(f[i - 1], lines[i])]
<1>1. n \in Nat /\ \A i \in 1 .. n : lines[i] \in Line
  OBVIOUS
<1>2. \A i \in 1 .. n : \A v \in Seq(Line) : step[<<i, v>>] = Add(v, lines[i]) /\ step[<<i, v>>] \in Seq(Line)
  BY <1>1, AddType DEF FoundStep
<1>3. <<>> \in Seq(Line)
  OBVIOUS
<1>4. PICK f \in [0 .. n -> Seq(Line)] : Steps0(f, n, Seq(Line), <<>>, step)
  BY <1>1, <1>2, <1>3, RecursionExists
<1>5. Is(f)
  <2>1. ASSUME NEW i \in 0 .. n
        PROVE  (IF i = 0 THEN <<>> ELSE step[<<i, f[i - 1]>>]) = (IF i = 0 THEN <<>> ELSE Add(f[i - 1], lines[i]))
    <3>1. i # 0 => i \in 1 .. n /\ i - 1 \in 0 .. n
      BY <1>1
    <3>2. i # 0 => f[i - 1] \in Seq(Line)
      BY <3>1
    <3>3. QED
      BY <1>2, <3>1, <3>2
  <2>2. [i \in 0 .. n |-> IF i = 0 THEN <<>> ELSE step[<<i, f[i - 1]>>]]
          = [i \in 0 .. n |-> IF i = 0 THEN <<>> ELSE Add(f[i - 1], lines[i])]
    BY <2>1
  <2>3. QED
    BY <1>4, <2>2 DEF Steps0
<1>6. Found(lines) = CHOOSE g : Is(g)
  BY DEF Found, Add
<1> HIDE DEF Is
<1>7. PICK g : g = Found(lines) /\ Is(g)
  BY <1>5, <1>6
<1>8. \A i \in 0 .. n : g[i] = IF i = 0 THEN <<>> ELSE Add(g[i - 1], lines[i])
  BY <1>7 DEF Is
<1>9. g[0] = <<>> /\ \A i \in 1 .. n : g[i] = Add(g[i - 1], lines[i])
  <2>1. 0 \in 0 .. n /\ \A i \in 1 .. n : i \in 0 .. n /\ i # 0
    BY <1>1
  <2>2. QED
    BY <1>8, <2>1
<1>10. \A i \in 0 .. n : g[i] \in Seq(Line)
  <2> DEFINE S == {i \in Nat : i <= n => g[i] \in Seq(Line)}
  <2>1. 0 \in S
    BY <1>3, <1>9
  <2>2. ASSUME NEW i \in Nat, i \in S
        PROVE  i + 1 \in S
    <3> SUFFICES ASSUME i + 1 <= n PROVE g[i + 1] \in Seq(Line)
      OBVIOUS
    <3>1. i + 1 \in 1 .. n /\ (i + 1) - 1 = i /\ i <= n
      BY <1>1
    <3>2. g[i + 1] = Add(g[i], lines[i + 1]) /\ g[i] \in Seq(Line) /\ lines[i + 1] \in Line
      BY <1>1, <1>9, <2>2, <3>1
    <3>3. QED
      BY <3>2, AddType
  <2>3. Nat \subseteq S
    BY <2>1, <2>2, Inductive
  <2>4. QED
    BY <2>3
<1>11. QED
  BY <1>7, <1>9, <1>10

LEMMA FoundAgree ==
    ASSUME NEW s \in Seq(Line), NEW l \in Line
    PROVE  \A i \in 0 .. Len(s) : Found(Append(s, l))[i] = Found(s)[i]
<1>1. PICK t : t = Append(s, l)
  OBVIOUS
<1>2. t \in Seq(Line) /\ Len(t) = Len(s) + 1 /\ Len(s) \in Nat /\ \A i \in 1 .. Len(s) : t[i] = s[i]
  BY <1>1, AppendParts
<1> DEFINE S == {i \in Nat : i <= Len(s) => Found(t)[i] = Found(s)[i]}
<1>3. 0 \in S
  BY <1>2, FoundAre
<1>4. ASSUME NEW i \in Nat, i \in S
      PROVE  i + 1 \in S
  <2> SUFFICES ASSUME i + 1 <= Len(s) PROVE Found(t)[i + 1] = Found(s)[i + 1]
    OBVIOUS
  <2>1. i + 1 \in 1 .. Len(s) /\ i + 1 \in 1 .. Len(t) /\ (i + 1) - 1 = i /\ i <= Len(s)
    BY <1>2
  <2>2. Found(t)[i + 1] = Add(Found(t)[i], t[i + 1]) /\ Found(s)[i + 1] = Add(Found(s)[i], s[i + 1])
    BY <1>2, <2>1, FoundAre
  <2>3. Found(t)[i] = Found(s)[i] /\ t[i + 1] = s[i + 1]
    BY <1>2, <1>4, <2>1
  <2>4. QED
    BY <2>2, <2>3
<1>5. Nat \subseteq S
  BY <1>3, <1>4, Inductive
<1>6. QED
  BY <1>1, <1>5

\* The records of a file with one line more.
LEMMA RecordsAre ==
    /\ Records(<<>>) = <<>>
    /\ \A s \in Seq(Line) : Records(s) \in Seq(Line)
    /\ \A s \in Seq(Line), l \in Line : Records(Append(s, l)) = Add(Records(s), l)
<1>1. \A s \in Seq(Line) : Records(s) = Found(s)[Len(s)] /\ Len(s) \in 0 .. Len(s) /\ Len(s) \in Nat
  BY DEF Records, Found
<1>2. Records(<<>>) = <<>>
  <2>1. <<>> \in Seq(Line) /\ Len(<<>>) = 0
    OBVIOUS
  <2>2. QED
    BY <1>1, <2>1, FoundAre
<1>3. \A s \in Seq(Line) : Records(s) \in Seq(Line)
  BY <1>1, FoundAre
<1>4. ASSUME NEW s \in Seq(Line), NEW l \in Line
      PROVE  Records(Append(s, l)) = Add(Records(s), l)
  <2>1. PICK t : t = Append(s, l)
    OBVIOUS
  <2>2. t \in Seq(Line) /\ Len(t) = Len(s) + 1 /\ t[Len(s) + 1] = l
    BY <2>1, AppendParts
  <2>3. Len(s) + 1 \in 1 .. Len(t) /\ (Len(s) + 1) - 1 = Len(s)
    BY <1>1, <2>2
  <2>4. Found(t)[Len(s) + 1] = Add(Found(t)[Len(s)], l)
    BY <2>2, <2>3, FoundAre
  <2>5. Found(t)[Len(s)] = Found(s)[Len(s)]
    BY <1>1, <2>1, FoundAgree
  <2>6. QED
    BY <1>1, <2>1, <2>2, <2>4, <2>5
<1>5. QED
  BY <1>2, <1>3, <1>4

-----------------------------------------------------------------------------
(* What the records say of the lines.                                      *)

Unedited(s) == \A i \in 1 .. Len(s) : s[i].kind # "edited"
HasId(s, x) == \E i \in 1 .. Len(s) : IsHashed(s[i]) /\ s[i].id = x

\* Ids and edited lines of a file with one line more.
LEMMA PartsNext ==
    ASSUME NEW s \in Seq(Line), NEW l \in Line
    PROVE  /\ Unedited(Append(s, l)) <=> Unedited(s) /\ l.kind # "edited"
           /\ \A x : HasId(Append(s, l), x) <=> HasId(s, x) \/ (IsHashed(l) /\ l.id = x)
<1>1. PICK t : t = Append(s, l)
  OBVIOUS
<1>2. /\ t \in Seq(Line) /\ Len(t) = Len(s) + 1 /\ t[Len(s) + 1] = l /\ Len(s) \in Nat
      /\ \A i \in 1 .. Len(s) : t[i] = s[i]
  BY <1>1, AppendParts
<1>3. \A i : i \in 1 .. Len(t) <=> i \in 1 .. Len(s) \/ i = Len(s) + 1
  BY <1>2
<1>4. QED
  BY <1>1, <1>2, <1>3 DEF Unedited, HasId

\* The log's last record is the one expected; its records are the hashed lines.
Tells(s) ==
    LET found == Records(s) IN
    /\ Expected(s) = IF found = <<>> THEN NoHash ELSE found[Len(found)].id
    /\ \A x : HasId(s, x) <=> \E i \in 1 .. Len(found) : found[i].id = x

LEMMA RecordsTell ==
    ASSUME NEW s \in Seq(Line), Unedited(s)
    PROVE  Tells(s)
<1> DEFINE S == {t \in Seq(Line) : Unedited(t) => Tells(t)}
<1>1. <<>> \in S
  <2>1. <<>> \in Seq(Line) /\ Len(<<>>) = 0 /\ 1 .. 0 = {}
    OBVIOUS
  <2>2. QED
    BY <2>1, RecordsAre, EmptyExpected DEF Tells, HasId
<1>2. ASSUME NEW t \in Seq(Line), NEW l \in Line, t \in S
      PROVE  Append(t, l) \in S
  <2> SUFFICES ASSUME Unedited(Append(t, l)) PROVE Tells(Append(t, l))
    BY AppendParts
  <2>1. Tells(t) /\ l.kind # "edited"
    BY <1>2, PartsNext
  <2>2. Records(t) \in Seq(Line)
    BY RecordsAre
  <2>3. CASE l.kind = "record"
    <3>1. PICK found : found = Records(Append(t, l))
      OBVIOUS
    <3>2. found = Append(Records(t), l)
      BY <2>3, <3>1, RecordsAre DEF Add
    <3>3. /\ found # <<>> /\ found[Len(found)] = l /\ Len(found) = Len(Records(t)) + 1
          /\ Len(Records(t)) \in Nat /\ \A i \in 1 .. Len(Records(t)) : found[i] = Records(t)[i]
          /\ found[Len(Records(t)) + 1] = l
      BY <2>2, <3>2, AppendParts, LastOf
    <3>4. \A i : i \in 1 .. Len(found) <=> i \in 1 .. Len(Records(t)) \/ i = Len(Records(t)) + 1
      BY <3>3
    <3>5. Expected(Append(t, l)) = l.id
      BY <2>3, ExpectedNext DEF Follow
    <3>6. \A x : HasId(Append(t, l), x) <=> HasId(t, x) \/ l.id = x
      BY <2>3, PartsNext DEF IsHashed
    <3>7. \A x : HasId(Append(t, l), x) <=> \E i \in 1 .. Len(found) : found[i].id = x
      BY <2>1, <3>3, <3>4, <3>6 DEF Tells
    <3>8. QED
      BY <3>1, <3>3, <3>5, <3>7 DEF Tells
  <2>4. CASE l.kind # "record"
    <3>1. Records(Append(t, l)) = Records(t)
      BY <2>4, RecordsAre DEF Add
    <3>2. Expected(Append(t, l)) = Expected(t)
      BY <2>1, <2>4, ExpectedNext DEF Follow
    <3>3. \A x : HasId(Append(t, l), x) <=> HasId(t, x)
      BY <2>1, <2>4, PartsNext DEF IsHashed
    <3>4. QED
      BY <2>1, <3>1, <3>2, <3>3 DEF Tells
  <2>5. QED
    BY <2>3, <2>4
<1>3. Seq(Line) \subseteq S
  BY <1>1, <1>2, SequencesBuilt
<1>4. QED
  BY <1>3

-----------------------------------------------------------------------------
(* The segments, one after the other.                                      *)

Files == Seq(Line)
Joins(segs, n) == CHOOSE f : f = [i \in 0 .. n |-> IF i = 0 THEN <<>> ELSE f[i - 1] \o segs[i]]
JoinOf(segs, n) == Joins(segs, n)[n]
JoinAll(segs) == JoinOf(segs, Len(segs))

LEMMA JoinedIs == \A n : Joined(n) = JoinOf(segments, n)
  BY DEF Joined, JoinOf, Joins

JoinStep(segs, n) == [p \in (1 .. n) \X Files |-> p[2] \o segs[p[1]]]

\* Joined is a recursion over the segments.
LEMMA JoinsAre ==
    ASSUME NEW segs \in Seq(Files), NEW n \in 0 .. Len(segs)
    PROVE  /\ Joins(segs, n)[0] = <<>>
           /\ \A i \in 0 .. n : Joins(segs, n)[i] \in Files
           /\ \A i \in 1 .. n : Joins(segs, n)[i] = Joins(segs, n)[i - 1] \o segs[i]
<1> DEFINE step == JoinStep(segs, n)
           Is(f) == f = [i \in 0 .. n |-> IF i = 0 THEN <<>> ELSE f[i - 1] \o segs[i]]
<1>1. n \in Nat /\ \A i \in 1 .. n : segs[i] \in Files
  <2>1. Len(segs) \in Nat /\ n \in Nat /\ n <= Len(segs)
    OBVIOUS
  <2>2. \A i \in 1 .. n : i \in 1 .. Len(segs)
    BY <2>1
  <2>3. QED
    BY <2>1, <2>2
<1>2. \A i \in 1 .. n : \A v \in Files : step[<<i, v>>] = v \o segs[i] /\ step[<<i, v>>] \in Files
  <2>1. ASSUME NEW i \in 1 .. n, NEW v \in Files
        PROVE  v \o segs[i] \in Files
    BY <1>1, ConcatProperties DEF Files
  <2>2. QED
    BY <2>1 DEF JoinStep
<1>3. <<>> \in Files
  BY DEF Files
<1>4. PICK f \in [0 .. n -> Files] : Steps0(f, n, Files, <<>>, step)
  BY <1>1, <1>2, <1>3, RecursionExists
<1>5. Is(f)
  <2>1. ASSUME NEW i \in 0 .. n
        PROVE  (IF i = 0 THEN <<>> ELSE step[<<i, f[i - 1]>>]) = (IF i = 0 THEN <<>> ELSE f[i - 1] \o segs[i])
    <3>1. i # 0 => i \in 1 .. n /\ i - 1 \in 0 .. n
      BY <1>1
    <3>2. i # 0 => f[i - 1] \in Files
      BY <3>1
    <3>3. QED
      BY <1>2, <3>1, <3>2
  <2>2. [i \in 0 .. n |-> IF i = 0 THEN <<>> ELSE step[<<i, f[i - 1]>>]]
          = [i \in 0 .. n |-> IF i = 0 THEN <<>> ELSE f[i - 1] \o segs[i]]
    BY <2>1
  <2>3. QED
    BY <1>4, <2>2 DEF Steps0
<1>6. Joins(segs, n) = CHOOSE g : Is(g)
  BY DEF Joins
<1> HIDE DEF Is
<1>7. PICK g : g = Joins(segs, n) /\ Is(g)
  BY <1>5, <1>6
<1>8. \A i \in 0 .. n : g[i] = IF i = 0 THEN <<>> ELSE g[i - 1] \o segs[i]
  BY <1>7 DEF Is
<1>9. g[0] = <<>> /\ \A i \in 1 .. n : g[i] = g[i - 1] \o segs[i]
  <2>1. 0 \in 0 .. n /\ \A i \in 1 .. n : i \in 0 .. n /\ i # 0
    BY <1>1
  <2>2. QED
    BY <1>8, <2>1
<1>10. \A i \in 0 .. n : g[i] \in Files
  <2> DEFINE S == {i \in Nat : i <= n => g[i] \in Files}
  <2>1. 0 \in S
    BY <1>3, <1>9
  <2>2. ASSUME NEW i \in Nat, i \in S
        PROVE  i + 1 \in S
    <3> SUFFICES ASSUME i + 1 <= n PROVE g[i + 1] \in Files
      OBVIOUS
    <3>1. i + 1 \in 1 .. n /\ (i + 1) - 1 = i /\ i <= n
      BY <1>1
    <3>2. g[i + 1] = g[i] \o segs[i + 1] /\ g[i] \in Files /\ segs[i + 1] \in Files
      BY <1>1, <1>9, <2>2, <3>1
    <3>3. QED
      BY <3>2, ConcatProperties DEF Files
  <2>3. Nat \subseteq S
    BY <2>1, <2>2, Inductive
  <2>4. QED
    BY <2>3
<1>11. QED
  BY <1>7, <1>9, <1>10

LEMMA JoinType ==
    ASSUME NEW segs \in Seq(Files), NEW n \in 0 .. Len(segs)
    PROVE  JoinOf(segs, n) \in Files
<1>1. n \in 0 .. n
  OBVIOUS
<1>2. QED
  BY <1>1, JoinsAre DEF JoinOf

LEMMA JoinsAgree ==
    ASSUME NEW segs \in Seq(Files), NEW more \in Seq(Files), NEW n \in 0 .. Len(segs), NEW m \in 0 .. Len(more), n <= m,
           \A i \in 1 .. n : segs[i] = more[i]
    PROVE  Joins(segs, n)[n] = Joins(more, m)[n]
<1>1. n \in Nat /\ m \in Nat
  OBVIOUS
<1> DEFINE S == {i \in Nat : i <= n => Joins(segs, n)[i] = Joins(more, m)[i]}
<1>2. 0 \in S
  BY JoinsAre
<1>3. ASSUME NEW i \in Nat, i \in S
      PROVE  i + 1 \in S
  <2> SUFFICES ASSUME i + 1 <= n PROVE Joins(segs, n)[i + 1] = Joins(more, m)[i + 1]
    OBVIOUS
  <2>1. i + 1 \in 1 .. n /\ i + 1 \in 1 .. m /\ (i + 1) - 1 = i /\ i <= n
    BY <1>1
  <2>2. Joins(segs, n)[i + 1] = Joins(segs, n)[i] \o segs[i + 1] /\ Joins(more, m)[i + 1] = Joins(more, m)[i] \o more[i + 1]
    BY <2>1, JoinsAre
  <2>3. QED
    BY <1>3, <2>1, <2>2
<1>4. Nat \subseteq S
  BY <1>2, <1>3, Inductive
<1>5. QED
  BY <1>1, <1>4

\* All segments, with one more at the end.
LEMMA JoinAllIs ==
    /\ JoinAll(<<>>) = <<>>
    /\ \A segs \in Seq(Files) : JoinAll(segs) \in Files
    /\ \A segs \in Seq(Files), c \in Files : JoinAll(Append(segs, c)) = JoinAll(segs) \o c
<1>1. \A segs \in Seq(Files) : Len(segs) \in Nat /\ Len(segs) \in 0 .. Len(segs)
  OBVIOUS
<1>2. JoinAll(<<>>) = <<>>
  <2>1. <<>> \in Seq(Files) /\ Len(<<>>) = 0 /\ 0 \in 0 .. Len(<<>>)
    OBVIOUS
  <2>2. Joins(<<>>, 0)[0] = <<>>
    BY <2>1, JoinsAre
  <2>3. QED
    BY <2>1, <2>2 DEF JoinAll, JoinOf
<1>3. \A segs \in Seq(Files) : JoinAll(segs) \in Files
  BY <1>1, JoinType DEF JoinAll
<1>4. ASSUME NEW segs \in Seq(Files), NEW c \in Files
      PROVE  JoinAll(Append(segs, c)) = JoinAll(segs) \o c
  <2>1. PICK more : more = Append(segs, c)
    OBVIOUS
  <2>2. PICK n \in Nat : n = Len(segs)
    BY <1>1
  <2>3. /\ more \in Seq(Files) /\ Len(more) = n + 1 /\ more[n + 1] = c /\ \A i \in 1 .. n : more[i] = segs[i]
    BY <2>1, <2>2, AppendParts
  <2>4. n \in 0 .. Len(segs) /\ n + 1 \in 0 .. Len(more) /\ n <= n + 1 /\ n + 1 \in 1 .. n + 1 /\ (n + 1) - 1 = n
    BY <2>2, <2>3
  <2>5. Joins(more, n + 1)[n + 1] = Joins(more, n + 1)[n] \o c
    BY <2>3, <2>4, JoinsAre
  <2>6. Joins(segs, n)[n] = Joins(more, n + 1)[n]
    BY <2>3, <2>4, JoinsAgree
  <2>7. QED
    BY <2>1, <2>2, <2>3, <2>5, <2>6 DEF JoinAll, JoinOf
<1>5. QED
  BY <1>2, <1>3, <1>4

\* All segments, without the first one.
LEMMA JoinTail ==
    ASSUME NEW segs \in Seq(Files), segs # <<>>
    PROVE  JoinAll(segs) = segs[1] \o JoinAll(Tail(segs)) /\ Tail(segs) \in Seq(Files) /\ segs[1] \in Files
<1> DEFINE Splits(s) == s # <<>> => JoinAll(s) = s[1] \o JoinAll(Tail(s)) /\ Tail(s) \in Seq(Files) /\ s[1] \in Files
           S == {s \in Seq(Files) : Splits(s)}
<1>1. <<>> \in S
  OBVIOUS
<1>2. ASSUME NEW s \in Seq(Files), NEW c \in Files, s \in S
      PROVE  Append(s, c) \in S
  <2>1. PICK t : t = Append(s, c)
    OBVIOUS
  <2>2. t \in Seq(Files) /\ JoinAll(t) = JoinAll(s) \o c
    BY <2>1, AppendParts, JoinAllIs
  <2>3. CASE s = <<>>
    <3>1. t = <<c>> /\ Tail(t) = <<>> /\ t[1] = c
      BY <2>1, <2>3
    <3>2. JoinAll(t) = c \o <<>> /\ c \o <<>> = c /\ <<>> \o c = c
      <4>1. c \o <<>> = c /\ <<>> \o c = c
        BY ConcatEmptySeq DEF Files
      <4>2. QED
        BY <2>2, <2>3, <4>1, JoinAllIs
    <3>3. t[1] \o JoinAll(Tail(t)) = c \o <<>>
      BY <3>1, JoinAllIs
    <3>4. QED
      BY SMTT(30), <2>1, <2>2, <3>1, <3>2, <3>3
  <2>4. CASE s # <<>>
    <3>1. Tail(t) = Append(Tail(s), c) /\ t[1] = s[1] /\ t # <<>>
      BY <2>1, <2>4
    <3>2. JoinAll(s) = s[1] \o JoinAll(Tail(s)) /\ Tail(s) \in Seq(Files) /\ s[1] \in Files
      BY <1>2, <2>4
    <3>3. JoinAll(Tail(t)) = JoinAll(Tail(s)) \o c /\ Tail(t) \in Seq(Files) /\ JoinAll(Tail(s)) \in Files
      BY <3>1, <3>2, JoinAllIs, AppendParts
    <3>4. (s[1] \o JoinAll(Tail(s))) \o c = s[1] \o (JoinAll(Tail(s)) \o c)
      <4>1. PICK a, b : a = s[1] /\ b = JoinAll(Tail(s))
        OBVIOUS
      <4>2. a \in Seq(Line) /\ b \in Seq(Line) /\ c \in Seq(Line)
        BY <3>2, <3>3, <4>1 DEF Files
      <4>3. (a \o b) \o c = a \o (b \o c)
        BY <4>2, Associative
      <4>4. QED
        BY <4>1, <4>3
    <3>5. QED
      BY <2>1, <2>2, <3>1, <3>2, <3>3, <3>4
  <2>5. QED
    BY <2>3, <2>4
<1>3. Seq(Files) \subseteq S
  BY <1>1, <1>2, SequencesBuilt
<1>4. QED
  BY <1>3

-----------------------------------------------------------------------------
(* The invariant, in parts.                                                *)

Ended(l) == [l EXCEPT !.nl = TRUE]
Open(cur) == cur # <<>> /\ ~cur[Len(cur)].nl
Stage == IF lock = Free THEN "free" ELSE pc[lock]

\* The file at path: all its lines but the last one are ended, and that one
\* too unless somebody is writing it or something went wrong.
ShapeOK ==
    /\ \A i \in 1 .. Len(current) : i < Len(current) => current[i].nl
    /\ current # <<>> => exists
    /\ Stage = "writing" => \E front \in Seq(Line) : current \in {Append(front, Piece), Append(front, Junk)}
    /\ faults = 0 /\ Stage \notin {"writing", "hung"} => ~Open(current)

All(segs, cur) == JoinAll(segs) \o cur

\* Ids are given once.
Once(s) == \A i, j \in 1 .. Len(s) : IsHashed(s[i]) /\ IsHashed(s[j]) /\ s[i].id = s[j].id => i = j
IdsFit(s, pcs, mines, next) ==
    /\ Unedited(s) /\ Once(s)
    /\ \A x : HasId(s, x) => x \in 1 .. next - 1
    /\ \A w \in Writers : pcs[w] # "idle" => mines[w] \in 1 .. next - 1 /\ ~HasId(s, mines[w])
    /\ \A w, v \in Writers : pcs[w] # "idle" /\ pcs[v] # "idle" /\ mines[w] = mines[v] => w = v
IdsOK == edits = 0 => IdsFit(All(segments, current), pc, mine, nextId)

\* A record is chained from one that a reader finds.
Solid(segs, cur) == JoinAll(segs) \o Terminated(cur)
Known(s, x) == x = Genesis \/ HasId(s, x)
OpenIsKnown(s, cur, wrong) ==
    \A front \in Seq(Line), l \in Line :
        cur = Append(front, l) /\ l.kind = "record" /\ ~l.nl => wrong > 0 /\ Known(s, l.prev)
PrevsOK ==
    edits = 0 =>
        /\ Stage \in {"read", "ready", "writing"} => Known(Solid(segments, current), prev[lock])
        /\ OpenIsKnown(Solid(segments, current), current, faults)

\* What is wrong, and what will be when the next record is chained from `next'.
Norm(h) == IF h = NoHash THEN Genesis ELSE h
Cost(s, next) == BadCount(s) + Counted(next # Norm(Expected(s)))
TailOf(segs, cur) ==
    IF cur # <<>> THEN TailHash(cur) ELSE IF segs # <<>> THEN TailHash(segs[Len(segs)]) ELSE NoHash

\* Each thing that went wrong spoils two lines at most, those included that
\* are not written yet; but of a writer that hangs nothing more will come.
SlackFit(segs, cur, wrong, stage, nl, p) ==
    LET all == All(segs, cur)
        glues == Open(cur) /\ ~nl
    IN
    /\ Cardinality(Anomalies(all)) <= 2 * wrong
    /\ stage \in {"free", "locked"} => Cost(all, Norm(TailOf(segs, cur))) <= 2 * wrong
    /\ stage \in {"read", "ready"} =>
         /\ Cost(all, p) + Counted(glues) <= 2 * wrong
         /\ glues => p = Genesis
    /\ stage = "writing" =>
         \A front \in Seq(Line) :
             /\ cur = Append(front, Piece) => Cost(All(segs, front), p) <= 2 * wrong
             /\ cur = Append(front, Junk) => Cost(all, Norm(TailOf(segs, cur))) <= 2 * wrong
SlackOK == edits = 0 => SlackFit(segments, current, faults, Stage, needsNl[lock], prev[lock])

\* The reader has a file open, and has not read more of it than there is.
IsOpen ==
    /\ reader.file \in 1 .. Len(segments) + 1 /\ reader.at <= Len(OpenFile)
    /\ ~reader.part.nl => reader.at > 0

\* Where the lines of that file stand among all lines.
Placed(segs, cur, file, older) ==
    IF file = Len(segs) + 1 THEN older = Len(JoinAll(segs)) /\ cur # <<>>
    ELSE /\ segs[file] # <<>> /\ older + Len(segs[file]) <= Len(JoinAll(segs))
         /\ \A j \in 1 .. Len(segs[file]) : JoinAll(segs)[older + j] = segs[file][j]

\* What was read is what is there, but for a newline that has come since.
Follows(all, r) ==
    LET m == r.older + r.at
    IN  /\ Len(r.lines) = m
        /\ ~r.part.nl => r.lines[m] = r.part
        /\ \A i \in 1 .. m : i < m \/ r.part.nl =>
               all[i] \in {r.lines[i], Ended(r.lines[i])} /\ (i > r.older => all[i].nl)

ReaderOK ==
    /\ reader.pc # "idle" => reader.listed <= Len(segments)
    /\ reader.pc \in {"reading", "path"} =>
           reader.at = 0 /\ reader.part.nl /\ (~moved => reader.listed = Len(segments))
    /\ reader.pc = "path" /\ ~moved => reader.lines = JoinAll(segments)
    /\ exists /\ edits = 0 => current # <<>>
    /\ reader.pc = "lines" => IsOpen
    /\ reader.pc = "lines" /\ ~moved /\ edits = 0 => Placed(segments, current, reader.file, reader.older)
    /\ reader.pc = "lines" /\ ~moved /\ edits = 0 /\ ~caught /\ faults = 0 =>
           Follows(All(segments, current), reader)
    /\ NoFalseAlarm

\* What an edit leaves behind stays wrong, whatever is written after it.
Lasting(s) ==
    \E i \in 1 .. Len(s) : /\ IsHashed(s[i]) \/ s[i].kind = "legacy"
                           /\ Wrong(s[i], Hashes(s)[i - 1], FALSE)
TamperOK ==
    /\ edits = 0 => ~cutOff
    /\ faults = 0 /\ edits = 1 /\ cutOff => Lasting(All(segments, current))

Inv == TypeOK /\ ShapeOK /\ IdsOK /\ PrevsOK /\ SlackOK /\ ReaderOK /\ TamperOK

LEMMA AllLinesAre ==
    /\ AllLines = All(segments, current)
    /\ AllLines' = All(segments', current')
    /\ ChainTail = TailOf(segments, current)
  BY DEF AllLines, Joined, All, JoinAll, JoinOf, Joins, ChainTail, TailOf

-----------------------------------------------------------------------------
(* Types.                                                                  *)

\* The fields of each kind of line.
LEMMA LinesAre ==
    /\ Piece \in Line /\ Piece.kind = "piece" /\ Piece.nl = FALSE
    /\ Junk \in Line /\ Junk.kind = "junk" /\ Junk.nl = FALSE
    /\ \A nl \in BOOLEAN : [Junk EXCEPT !.nl = nl] \in Line
                           /\ [Junk EXCEPT !.nl = nl].kind = "junk" /\ [Junk EXCEPT !.nl = nl].nl = nl
    /\ LegacyLine \in Line /\ LegacyLine.kind = "legacy" /\ LegacyLine.nl = TRUE
    /\ \A i, p \in Nat, nl \in BOOLEAN :
           /\ RecordLine(i, p, nl) \in Line /\ RecordLine(i, p, nl).kind = "record"
           /\ RecordLine(i, p, nl).id = i /\ RecordLine(i, p, nl).prev = p /\ RecordLine(i, p, nl).nl = nl
    /\ \A l \in Line : /\ Ended(l) \in Line /\ Ended(l).kind = l.kind /\ Ended(l).id = l.id
                       /\ Ended(l).prev = l.prev /\ Ended(l).nl = TRUE
  BY SomeConstants DEF Piece, Junk, LegacyLine, RecordLine, Ended, Line

\* The three things that happen when a piece is written behind what is there.
LEMMA BehindIs ==
    ASSUME NEW cur \in Seq(Line), NEW nl \in BOOLEAN
    PROVE  \/ ~Open(cur) /\ Behind(cur, nl, Piece) = Append(cur, Piece)
           \/ \E front \in Seq(Line), l \in Line :
                /\ cur = Append(front, l) /\ ~l.nl /\ Open(cur)
                /\ \/ nl /\ Behind(cur, nl, Piece) = Append(Append(front, Ended(l)), Piece)
                   \/ ~nl /\ Behind(cur, nl, Piece) = Append(front, Junk)
<1>1. Len(cur) > 0 <=> cur # <<>>
  OBVIOUS
<1>2. CASE ~Open(cur)
  BY <1>1, <1>2 DEF Behind, Open
<1>3. CASE Open(cur)
  <2>1. PICK front \in Seq(Line), l \in Line : cur = Append(front, l)
    BY <1>3, SplitLast DEF Open
  <2>2. cur[Len(cur)] = l /\ \A x \in Line : [cur EXCEPT ![Len(cur)] = x] = Append(front, x)
    BY <2>1, LastOf
  <2>3. ~l.nl
    BY <1>3, <2>2 DEF Open
  <2>4. Ended(l) \in Line /\ Junk \in Line
    BY LinesAre
  <2>5. [cur EXCEPT ![Len(cur)].nl = TRUE] = [cur EXCEPT ![Len(cur)] = Ended(l)]
    BY <2>2 DEF Ended
  <2>6. [cur EXCEPT ![Len(cur)].nl = TRUE] = Append(front, Ended(l))
    BY <2>2, <2>4, <2>5
  <2>7. CASE nl
    BY <1>1, <1>3, <2>1, <2>3, <2>6, <2>7 DEF Behind, Open
  <2>8. CASE ~nl
    BY <1>1, <1>3, <2>1, <2>2, <2>3, <2>4, <2>8 DEF Behind, Open, Junk
  <2>9. QED
    BY <2>7, <2>8
<1>4. QED
  BY <1>2, <1>3

LEMMA StageIs ==
    ASSUME TypeOK
    PROVE  /\ lock = Free => Stage = "free" /\ \A w \in Writers : pc[w] \in {"idle", "waiting"}
           /\ \A w \in Writers : lock = w => Stage = pc[w] /\ pc[w] \notin {"idle", "waiting"}
           /\ \A w \in Writers : pc[w] \notin {"idle", "waiting"} => lock = w /\ Stage = pc[w]
           /\ lock # Free => lock \in Writers /\ Stage = pc[lock]
  BY ConstantsAssumption DEF TypeOK, Stage

\* The last line when its rest is written.
LEMMA CompletedIs ==
    ASSUME TypeOK, ShapeOK, NEW w \in Writers, pc[w] = "writing", NEW nl \in BOOLEAN
    PROVE  \E front \in Seq(Line) :
              \/ /\ current = Append(front, Piece)
                 /\ Completed(w, nl) = Append(front, RecordLine(mine[w], prev[w], nl))
              \/ /\ current = Append(front, Junk)
                 /\ Completed(w, nl) = Append(front, [Junk EXCEPT !.nl = nl])
<1>1. Stage = "writing"
  BY StageIs
<1>2. PICK front \in Seq(Line) : current \in {Append(front, Piece), Append(front, Junk)}
  BY <1>1 DEF ShapeOK
<1>3. /\ RecordLine(mine[w], prev[w], nl) \in Line /\ [Junk EXCEPT !.nl = nl] \in Line
      /\ Piece \in Line /\ Junk \in Line /\ Piece # Junk
  <2>1. mine[w] \in Nat /\ prev[w] \in Nat
    BY DEF TypeOK
  <2>2. Piece # Junk
    BY LinesAre
  <2>3. QED
    BY <2>1, <2>2, LinesAre
<1>4. CASE current = Append(front, Piece)
  <2>1. current[Len(current)] = Piece
    BY <1>3, <1>4, LastOf
  <2>2. Completed(w, nl) = [current EXCEPT ![Len(current)] = RecordLine(mine[w], prev[w], nl)]
    BY <2>1 DEF Completed
  <2>3. PICK x \in Line : x = RecordLine(mine[w], prev[w], nl)
    BY <1>3
  <2>4. [current EXCEPT ![Len(current)] = x] = Append(front, x)
    BY <1>3, <1>4, LastOf
  <2>5. QED
    BY <1>4, <2>2, <2>3, <2>4
<1>5. CASE current = Append(front, Junk)
  <2>1. current[Len(current)] = Junk
    BY <1>3, <1>5, LastOf
  <2>2. Completed(w, nl) = [current EXCEPT ![Len(current)] = [Junk EXCEPT !.nl = nl]]
    BY <1>3, <2>1 DEF Completed
  <2>3. PICK x \in Line : x = [Junk EXCEPT !.nl = nl]
    BY <1>3
  <2>4. [current EXCEPT ![Len(current)] = x] = Append(front, x)
    BY <1>3, <1>5, LastOf
  <2>5. QED
    BY <1>5, <2>2, <2>3, <2>4
<1>6. QED
  BY <1>2, <1>4, <1>5

FilesOK == segments \in Seq(Files) /\ current \in Files

LEMMA FilesFit == TypeOK => FilesOK
  BY DEF TypeOK, FilesOK, Files

\* The three ways to edit the file at path.
EditOf(cur, i) ==
    {[cur EXCEPT ![i].kind = "edited"], [cur EXCEPT ![i] = LegacyLine],
     SubSeq(cur, 1, i - 1) \o SubSeq(cur, i + 1, Len(cur))}

LEMMA EditedType ==
    ASSUME NEW cur \in Seq(Line), NEW i \in 1 .. Len(cur)
    PROVE  EditOf(cur, i) \subseteq Seq(Line)
<1>1. Len(cur) \in Nat /\ cur[i] \in Line
  OBVIOUS
<1>2. [cur[i] EXCEPT !.kind = "edited"] \in Line
  BY <1>1 DEF Line
<1>3. [cur EXCEPT ![i].kind = "edited"] = [cur EXCEPT ![i] = [cur[i] EXCEPT !.kind = "edited"]]
  OBVIOUS
<1>4. [cur EXCEPT ![i].kind = "edited"] \in Seq(Line) /\ [cur EXCEPT ![i] = LegacyLine] \in Seq(Line)
  BY <1>2, <1>3, ExceptSeq, LinesAre
<1>5. SubSeq(cur, 1, i - 1) \in Seq(Line) /\ SubSeq(cur, i + 1, Len(cur)) \in Seq(Line)
  <2>1. i \in Int /\ i - 1 \in Int /\ i + 1 \in Int /\ 1 \in Int /\ Len(cur) \in Int
    BY <1>1
  <2>2. \A j \in 1 .. i - 1 : cur[j] \in Line
    BY <1>1
  <2>3. \A j \in i + 1 .. Len(cur) : cur[j] \in Line
    BY <1>1
  <2>4. QED
    BY <2>1, <2>2, <2>3, SubSeqProperties
<1>6. QED
  BY <1>4, <1>5, ConcatProperties DEF EditOf

LEMMA EnvFits ==
    ASSUME TypeOK
    PROVE  env.faults \in Nat /\ env.edits \in Nat /\ env.reads \in Nat /\ env.stalls \in Nat
  BY ConstantsAssumption DEF TypeOK

\* Counting what goes wrong.
LEMMA FaultyFits ==
    ASSUME TypeOK, env' = env, NEW n \in {0, 1}, Faulty(n)
    PROVE  faults' \in 0 .. env'.faults /\ faults' = faults + n /\ faults \in Nat
  BY EnvFits DEF TypeOK, Faulty

\* Only the holder of the lock is past it.
Holds(lk, pcs) == \A w \in Writers : pcs[w] \notin {"idle", "waiting"} <=> lk = w
Stages == {"idle", "waiting", "locked", "read", "ready", "writing", "hung"}

\* A move of one writer into or out of the lock keeps the exclusion.
LEMMA ControlMoves ==
    ASSUME lock \in Writers \cup {Free}, pc \in [Writers -> Stages], Holds(lock, pc),
           NEW w \in Writers, NEW to \in Stages, pc' = [pc EXCEPT ![w] = to],
           \/ lock' = lock /\ (to \in {"idle", "waiting"} <=> pc[w] \in {"idle", "waiting"})
           \/ lock = Free /\ lock' = w /\ to \notin {"idle", "waiting"}
           \/ lock = w /\ lock' = Free /\ to \in {"idle", "waiting"}
    PROVE  lock' \in Writers \cup {Free} /\ pc' \in [Writers -> Stages] /\ Holds(lock', pc')
  BY ConstantsAssumption DEF Holds

ControlOK ==
    /\ lock \in Writers \cup {Free} /\ pc \in [Writers -> Stages] /\ Holds(lock, pc)
WriterOK ==
    /\ mine \in [Writers -> Nat] /\ prev \in [Writers -> Nat] /\ needsNl \in [Writers -> BOOLEAN]
    /\ nextId \in 1 .. NoHash
DiskOK == segments \in Seq(Seq(Line)) /\ current \in Seq(Line) /\ exists \in BOOLEAN
Readers ==
    [pc : {"idle", "reading", "path", "lines"}, listed : Nat, cur : BOOLEAN, lines : Seq(Line),
     older : Nat, file : Nat, at : Nat, part : Line]
ReadOK ==
    /\ reader \in Readers
    /\ verdict \in {"none", "clean", "tampered", "read_error"} /\ moved \in BOOLEAN /\ caught \in BOOLEAN
CountsOK ==
    /\ env \in Environments /\ cutOff \in BOOLEAN
    /\ faults \in 0 .. env.faults /\ edits \in 0 .. env.edits
    /\ reads \in 0 .. env.reads /\ stalls \in 0 .. env.stalls

LEMMA TypeParts ==
    /\ TypeOK <=> ControlOK /\ WriterOK /\ DiskOK /\ ReadOK /\ CountsOK
    /\ TypeOK' <=> ControlOK' /\ WriterOK' /\ DiskOK' /\ ReadOK' /\ CountsOK'
<1>1. TypeOK <=> ControlOK /\ WriterOK /\ DiskOK /\ ReadOK /\ CountsOK
  BY DEF TypeOK, ControlOK, WriterOK, DiskOK, ReadOK, Readers, CountsOK, Holds, Stages
<1>2. TypeOK' <=> ControlOK' /\ WriterOK' /\ DiskOK' /\ ReadOK' /\ CountsOK'
  BY DEF TypeOK, ControlOK, WriterOK, DiskOK, ReadOK, Readers, CountsOK, Holds, Stages
<1>3. QED
  BY <1>1, <1>2

\* Who holds the lock, and where the writers stand.
LEMMA ControlStep ==
    ASSUME TypeOK, NEW w \in Writers, Begin(w) \/ Steps(w) \/ Stall(w)
    PROVE  ControlOK'
<1> USE DEF At, Unlock, ControlOK, Stages
<1>1. ControlOK
  BY TypeParts
<1>2. lock # Free /\ lock = w => pc[w] \notin {"idle", "waiting"}
  BY <1>1 DEF Holds
<1>3. pc[w] \notin {"idle", "waiting"} => lock = w
  BY <1>1 DEF Holds
<1>4. CASE Begin(w)
  BY <1>1, <1>4, ControlMoves DEF Begin
<1>5. CASE Acquire(w)
  BY <1>1, <1>5, ControlMoves DEF Acquire
<1>6. CASE TimeOut(w)
  BY <1>1, <1>6, ControlMoves DEF TimeOut
<1>7. CASE WritePiece(w)
  BY <1>1, <1>7, ControlMoves DEF WritePiece
<1>8. CASE WriteRest(w)
  BY <1>1, <1>3, <1>8, ControlMoves DEF WriteRest
<1>9. CASE Abandon(w)
  BY <1>1, <1>3, <1>9, ControlMoves DEF Abandon
<1>10. ASSUME NEW b \in BOOLEAN, ReadTail(w, b)
       PROVE  ControlOK'
  BY <1>1, <1>10, ControlMoves DEF ReadTail
<1>11. ASSUME NEW b \in BOOLEAN, Rotate(w, b)
       PROVE  ControlOK'
  BY <1>1, <1>11, ControlMoves DEF Rotate
<1>12. ASSUME NEW b \in BOOLEAN, WriteCut(w, b)
       PROVE  ControlOK'
  BY <1>1, <1>3, <1>12, ControlMoves DEF WriteCut
<1>13. CASE Stall(w)
  BY <1>1, <1>2, <1>13, ControlMoves, ConstantsAssumption DEF Stall
<1>14. QED
  BY <1>4, <1>5, <1>6, <1>7, <1>8, <1>9, <1>10, <1>11, <1>12, <1>13 DEF Steps

LEMMA TailType ==
    ASSUME FilesOK
    PROVE  TailOf(segments, current) \in Nat
<1>1. \A c \in Seq(Line) : TailHash(c) \in Nat
  <2>1. ASSUME NEW c \in Seq(Line)
        PROVE  TailHash(c) \in Nat
    <3>1. PICK t \in Seq(Line) : t = Terminated(c)
      BY TerminatedType
    <3>2. Len(t) \in 0 .. Len(t)
      OBVIOUS
    <3>3. Expected(t) \in Nat
      BY <3>2, HashesAre DEF Expected
    <3>4. QED
      BY <3>1, <3>3, TailIsExpected
  <2>2. QED
    BY <2>1
<1>2. segments # <<>> => segments[Len(segments)] \in Seq(Line)
  BY DEF FilesOK, Files
<1>3. QED
  BY <1>1, <1>2, SomeConstants DEF FilesOK, Files, TailOf

\* What the writers hold in hand.
LEMMA WriterStep ==
    ASSUME TypeOK, NEW w \in Writers, Begin(w) \/ Steps(w) \/ Stall(w)
    PROVE  WriterOK'
<1> USE DEF At, WriterOK
<1>1. WriterOK
  BY TypeParts
<1>2. CASE Begin(w)
  <2>1. nextId \in Nat /\ nextId + 1 \in 1 .. NoHash
    BY <1>1, <1>2, SomeConstants DEF Begin, Ids
  <2>2. QED
    BY <1>1, <1>2, <2>1 DEF Begin
<1>3. ASSUME NEW b \in BOOLEAN, ReadTail(w, b)
      PROVE  WriterOK'
  <2>1. ChainTail \in Nat
    BY FilesFit, TailType, AllLinesAre
  <2>2. (IF b /\ ChainTail # NoHash THEN ChainTail ELSE Genesis) \in Nat
    BY <2>1, SomeConstants
  <2>3. PICK c \in BOOLEAN : c = (b /\ NeedsNewline)
    BY Zenon
  <2>4. needsNl' = [needsNl EXCEPT ![w] = c]
    BY <1>3, <2>3 DEF ReadTail
  <2>5. QED
    BY <1>1, <1>3, <2>2, <2>4 DEF ReadTail
<1>4. ASSUME NEW b \in BOOLEAN, Rotate(w, b)
      PROVE  WriterOK'
  <2>1. needsNl' = [needsNl EXCEPT ![w] = FALSE] \/ needsNl' = [needsNl EXCEPT ![w] = @ /\ exists]
    BY <1>4 DEF Rotate
  <2>2. needsNl[w] \in BOOLEAN /\ exists \in BOOLEAN
    BY <1>1, TypeParts DEF DiskOK
  <2>3. needsNl' \in [Writers -> BOOLEAN]
    BY <1>1, <2>1, <2>2
  <2>4. QED
    BY <1>1, <1>4, <2>3 DEF Rotate
<1>5. CASE UNCHANGED <<mine, prev, needsNl, nextId>>
  BY <1>1, <1>5
<1>6. QED
  BY <1>2, <1>3, <1>4, <1>5
     DEF Steps, Acquire, TimeOut, WritePiece, WriteRest, Abandon, WriteCut, Stall

LEMMA ExistsTyped == TypeOK => exists \in BOOLEAN /\ moved \in BOOLEAN /\ caught \in BOOLEAN /\ cutOff \in BOOLEAN
  BY DEF TypeOK

\* What the files hold.
LEMMA DiskStep ==
    ASSUME TypeOK, ShapeOK, NEW w \in Writers, Begin(w) \/ Steps(w) \/ Stall(w)
    PROVE  DiskOK'
<1> USE DEF DiskOK
<1>1. DiskOK
  BY TypeParts
<1>2. CASE WritePiece(w)
  <2>1. PICK nl \in BOOLEAN : nl = needsNl[w]
    BY DEF TypeOK
  <2>2. Behind(current, nl, Piece) \in Seq(Line)
    <3>1. CASE Behind(current, nl, Piece) = Append(current, Piece)
      BY <1>1, <3>1, LinesAre, AppendParts
    <3>2. ASSUME NEW front \in Seq(Line), NEW l \in Line
          PROVE  Append(Append(front, Ended(l)), Piece) \in Seq(Line) /\ Append(front, Junk) \in Seq(Line)
      BY LinesAre, AppendParts
    <3>3. ASSUME ~(Behind(current, nl, Piece) = Append(current, Piece))
          PROVE  Behind(current, nl, Piece) \in Seq(Line)
      <4>1. PICK front \in Seq(Line), l \in Line :
                \/ Behind(current, nl, Piece) = Append(Append(front, Ended(l)), Piece)
                \/ Behind(current, nl, Piece) = Append(front, Junk)
        <5>1. current \in Seq(Line)
          BY <1>1
        <5>2. QED
          BY ZenonT(40), <3>3, <5>1, BehindIs
      <4>2. QED
        BY <3>2, <4>1
    <3>4. QED
      BY <3>1, <3>3
  <2>3. QED
    BY <1>1, <1>2, <2>1, <2>2 DEF WritePiece
<1>3. ASSUME NEW nl \in BOOLEAN, pc[w] = "writing"
      PROVE  Completed(w, nl) \in Seq(Line)
  <2>1. mine[w] \in Nat /\ prev[w] \in Nat
    BY DEF TypeOK
  <2>2. RecordLine(mine[w], prev[w], nl) \in Line /\ [Junk EXCEPT !.nl = nl] \in Line
    BY <2>1, LinesAre
  <2>3. QED
    BY <1>3, <2>2, CompletedIs, AppendParts
<1>4. CASE WriteRest(w)
  BY <1>1, <1>3, <1>4 DEF WriteRest, At
<1>5. ASSUME NEW b \in BOOLEAN, WriteCut(w, b)
      PROVE  DiskOK'
  BY <1>1, <1>3, <1>5 DEF WriteCut, At
<1>6. ASSUME NEW b \in BOOLEAN, Rotate(w, b)
      PROVE  DiskOK'
  <2>1. Append(segments, current) \in Seq(Seq(Line)) /\ <<>> \in Seq(Line)
    BY <1>1, AppendParts
  <2>2. \/ segments' = Append(segments, current) /\ current' = <<>> /\ exists' = FALSE
        \/ segments' = segments /\ current' = current /\ exists' = exists
    BY <1>6 DEF Rotate, Rotated, disk
  <2>3. QED
    BY <1>1, <2>1, <2>2
<1>7. CASE UNCHANGED disk
  BY <1>1, <1>7 DEF disk
<1>8. QED
  BY <1>2, <1>4, <1>5, <1>6, <1>7 DEF Steps, Begin, Acquire, TimeOut, ReadTail, Abandon, Stall

\* What may go wrong is counted.
LEMMA CountsStep ==
    ASSUME TypeOK, NEW w \in Writers, Begin(w) \/ Steps(w) \/ Stall(w)
    PROVE  CountsOK' /\ (faults' = faults \/ faults' = faults + 1) /\ edits' = edits /\ cutOff' = cutOff /\ env' = env
<1> USE DEF meddling, reading
<1>1. CountsOK /\ env.stalls \in Nat /\ faults \in Nat
  BY TypeParts, EnvFits DEF CountsOK
<1>2. env' = env /\ edits' = edits /\ cutOff' = cutOff /\ reads' = reads
  BY DEF Steps, Begin, Acquire, TimeOut, ReadTail, Rotate, WritePiece, WriteRest, WriteCut, Abandon, Stall
<1>3. faults' \in 0 .. env'.faults /\ (faults' = faults \/ faults' = faults + 1)
  <2>1. faults' = faults \/ Faulty(0) \/ Faulty(1)
    BY DEF Steps, Begin, Acquire, TimeOut, ReadTail, Rotate, WritePiece, WriteRest, WriteCut, Abandon, Stall
  <2>2. QED
    BY <1>1, <1>2, <2>1, FaultyFits DEF CountsOK
<1>4. stalls' \in 0 .. env'.stalls
  <2>1. stalls' = stalls \/ (stalls < env.stalls /\ stalls' = stalls + 1)
    BY DEF Steps, Begin, Acquire, TimeOut, ReadTail, Rotate, WritePiece, WriteRest, WriteCut, Abandon, Stall
  <2>2. QED
    BY <1>1, <1>2, <2>1 DEF CountsOK
<1>5. QED
  BY <1>1, <1>2, <1>3, <1>4 DEF CountsOK

LEMMA ReaderTypes ==
    ASSUME TypeOK, NEW w \in Writers, Begin(w) \/ Steps(w) \/ Stall(w)
    PROVE  ReadOK' /\ reader' = reader /\ verdict' = verdict /\ caught' = caught
<1> USE DEF reading
<1>1. reader' = reader /\ verdict' = verdict /\ caught' = caught
  BY DEF Steps, Begin, Acquire, TimeOut, ReadTail, Rotate, WritePiece, WriteRest, WriteCut, Abandon, Stall
<1>2. moved' \in BOOLEAN
  <2>1. moved' = moved \/ moved' = (moved \/ reader.pc \in {"reading", "path"})
    BY DEF Steps, Begin, Acquire, TimeOut, ReadTail, Rotate, WritePiece, WriteRest, WriteCut, Abandon, Stall
  <2>2. QED
    BY <2>1, ExistsTyped
<1>3. QED
  BY <1>1, <1>2, TypeParts DEF ReadOK

LEMMA WritersKeepTypes ==
    ASSUME TypeOK, ShapeOK, NEW w \in Writers, Begin(w) \/ Steps(w) \/ Stall(w)
    PROVE  TypeOK'
  BY ControlStep, WriterStep, DiskStep, CountsStep, ReaderTypes, TypeParts

\* The file that the reader has open is one of lines.
LEMMA OpenIs ==
    ASSUME TypeOK, IsOpen
    PROVE  OpenFile \in Seq(Line) /\ reader.file \in Nat
<1>1. segments \in Seq(Seq(Line)) /\ current \in Seq(Line) /\ Len(segments) \in Nat
  BY DEF TypeOK
<1>2. PICK n : n = reader.file
  OBVIOUS
<1>3. n \in 1 .. Len(segments) + 1
  BY <1>2 DEF IsOpen
<1>4. n <= Len(segments) => segments[n] \in Seq(Line)
  BY <1>1, <1>3
<1>5. QED
  BY <1>1, <1>2, <1>3, <1>4 DEF OpenFile

\* When the reader returns.
LEMMA ReturnsIs ==
    ASSUME NEW answer, Returns(answer)
    PROVE  reader' \in Readers /\ reader'.pc = "idle" /\ verdict' = answer
<1>1. <<>> \in Seq(Line) /\ LegacyLine \in Line
  BY LinesAre
<1>2. QED
  BY <1>1 DEF Returns, NotReading, Readers

\* What the reader has after a step with the file open.
LEMMA LinesKeepType ==
    ASSUME TypeOK, ReaderOK, ReadLine \/ ReadRest
    PROVE  reader' \in Readers
<1>1. reader \in Readers /\ reader.pc = "lines" /\ IsOpen
  BY DEF TypeOK, ReaderOK, Readers, ReadLine, ReadRest
<1>2. PICK f \in Seq(Line) : f = OpenFile
  BY <1>1, OpenIs
<1>3. PICK n \in Nat : n = reader.at /\ n <= Len(f) /\ (~reader.part.nl => n > 0)
  BY <1>1, <1>2 DEF Readers, IsOpen
<1>4. reader.lines \in Seq(Line)
  BY <1>1 DEF Readers
<1>5. CASE ReadLine
  <2>1. n < Len(f) /\ n + 1 \in 1 .. Len(f)
    BY <1>2, <1>3, <1>5 DEF ReadLine
  <2>2. PICK l \in Line : l = f[n + 1]
    BY <2>1
  <2>3. Append(reader.lines, l) \in Seq(Line)
    BY <1>4, AppendParts
  <2>4. reader' = [reader EXCEPT !.at = n + 1, !.lines = Append(reader.lines, l), !.part = l]
    BY <1>2, <1>3, <1>5, <2>2 DEF ReadLine
  <2>5. PICK more \in Seq(Line) : more = Append(reader.lines, l)
    BY <2>3
  <2>6. reader' = [reader EXCEPT !.at = n + 1, !.lines = more, !.part = l] /\ n + 1 \in Nat
    BY <2>4, <2>5
  <2>7. QED
    BY <1>1, <2>6 DEF Readers
<1>6. CASE ReadRest
  <2>1. n \in 1 .. Len(f)
    BY <1>2, <1>3, <1>6 DEF ReadRest
  <2>2. PICK l \in Line : l = f[n] /\ l.nl \in BOOLEAN
    BY <2>1, LineType
  <2>3. Append(reader.lines, [Junk EXCEPT !.nl = l.nl]) \in Seq(Line)
    BY <1>4, <2>2, LinesAre, AppendParts
  <2>4. \/ reader' = [reader EXCEPT !.part = l]
        \/ reader' = [reader EXCEPT !.part = l, !.lines = Append(reader.lines, [Junk EXCEPT !.nl = l.nl])]
    BY <1>2, <1>3, <1>6, <2>2 DEF ReadRest
  <2>5. QED
    BY <1>1, <2>2, <2>3, <2>4 DEF Readers
<1>7. QED
  BY <1>5, <1>6

LEMMA ReadersKeepTypes ==
    ASSUME TypeOK, ReaderOK, Verifies
    PROVE  TypeOK'
<1> USE DEF disk, writer, meddling
<1>1. ControlOK /\ WriterOK /\ DiskOK /\ ReadOK /\ CountsOK
  BY TypeParts
<1>2. UNCHANGED <<disk, lock, writer, meddling, env, faults, stalls>>
  BY DEF Verifies, List, ReadSegments, OpenPath, ReadLine, ReadRest, EndOfFile
<1>3. ControlOK' /\ WriterOK' /\ DiskOK'
  BY <1>1, <1>2 DEF ControlOK, WriterOK, DiskOK, Holds
<1>4. CountsOK'
  <2>1. reads' = reads \/ (reads < env.reads /\ reads' = reads + 1)
    BY DEF Verifies, List, ReadSegments, OpenPath, ReadLine, ReadRest, EndOfFile
  <2>2. QED
    BY <1>1, <1>2, <2>1, EnvFits DEF CountsOK
<1>5. ReadOK'
  <2>1. moved' \in BOOLEAN /\ caught' \in BOOLEAN
    BY <1>1 DEF ReadOK, Verifies, List, ReadSegments, OpenPath, ReadLine, ReadRest, EndOfFile
  <2>2. CASE List
    <3>1. Len(segments) \in Nat /\ <<>> \in Seq(Line) /\ LegacyLine \in Line /\ exists \in BOOLEAN
      BY <1>1, LinesAre DEF DiskOK
    <3>2. reader' \in Readers
      BY <2>2, <3>1 DEF List, NotReading, Readers
    <3>3. QED
      BY <2>1, <2>2, <3>2 DEF List, ReadOK
  <2>3. CASE ReadSegments
    <3>1. PICK n \in 0 .. Len(segments) : n = reader.listed
      <4>1. reader.listed \in Nat /\ reader.listed <= Len(segments)
        BY <1>1, <2>3 DEF ReadSegments, ReaderOK, ReadOK, Readers
      <4>2. Len(segments) \in Nat
        BY <1>1 DEF DiskOK
      <4>3. QED
        BY <4>1, <4>2
    <3>2. Joined(reader.listed) \in Seq(Line)
      <4>1. JoinOf(segments, n) \in Files
        BY FilesFit, JoinType DEF FilesOK
      <4>2. QED
        BY <3>1, <4>1, JoinedIs DEF Files
    <3>3. QED
      BY <1>1, <2>1, <2>3, <3>2 DEF ReadSegments, ReadOK, Readers
  <2>4. CASE OpenPath
    <3>1. CASE \E answer \in {"clean", "tampered", "read_error"} : Returns(answer)
      BY <2>1, <3>1, ReturnsIs DEF ReadOK
    <3>2. CASE /\ reader' = [reader EXCEPT !.pc = "lines", !.file = Len(segments) + 1,
                                           !.older = Len(reader.lines)]
               /\ verdict' = verdict
      <4>1. Len(segments) + 1 \in Nat /\ Len(reader.lines) \in Nat
        BY <1>1 DEF DiskOK, ReadOK, Readers
      <4>2. QED
        BY <1>1, <2>1, <3>2, <4>1 DEF ReadOK, Readers
    <3>3. QED
      BY <2>4, <3>1, <3>2 DEF OpenPath, Judged
  <2>5. CASE ReadLine \/ ReadRest
    <3>1. verdict' = verdict
      BY <2>5 DEF ReadLine, ReadRest
    <3>2. QED
      BY <1>1, <2>1, <2>5, <3>1, LinesKeepType DEF ReadOK
  <2>6. CASE EndOfFile
    <3>1. \E answer \in {"clean", "tampered"} : Returns(answer)
      BY <2>6 DEF EndOfFile, Judged
    <3>2. QED
      BY <2>1, <3>1, ReturnsIs DEF ReadOK
  <2>7. QED
    BY <2>2, <2>3, <2>4, <2>5, <2>6 DEF Verifies
<1>6. QED
  BY <1>3, <1>4, <1>5, TypeParts

\* An edit of the file at path, or of the segments.
EditLine(i) ==
    /\ i \in 1 .. Len(current) /\ current[i].kind = "record" /\ current[i].nl
    /\ cutOff' = (cutOff \/ \E j \in Hashed(current) : j > i)
    /\ current' \in EditOf(current, i)
    /\ segments' = segments /\ exists' = exists
EditSegment ==
    /\ segments # <<>> /\ segments' = Tail(segments)
    /\ cutOff' = (cutOff \/ \E i \in Hashed(segments[1]), j \in Hashed(AllLines) : j > Len(segments[1]))
    /\ current' = current /\ exists' = exists

LEMMA EditIs ==
    ASSUME TypeOK, Edit
    PROVE  /\ edits < env.edits /\ edits' = edits + 1 /\ reader.pc = "idle"
           /\ UNCHANGED <<lock, writer, reading, env, faults, stalls>>
           /\ EditSegment \/ \E i \in 1 .. Len(current) : EditLine(i)
<1>1. DOMAIN current = 1 .. Len(current)
  BY DEF TypeOK
<1>2. QED
  BY <1>1 DEF Edit, EditSegment, EditLine, EditOf

LEMMA EditKeepsTypes ==
    ASSUME TypeOK, Edit
    PROVE  TypeOK'
<1> USE DEF writer, reading
<1>1. ControlOK /\ WriterOK /\ DiskOK /\ ReadOK /\ CountsOK
  BY TypeParts
<1>2. edits < env.edits /\ edits' = edits + 1 /\ UNCHANGED <<lock, writer, reading, env, faults, stalls>>
  BY EditIs
<1>3. ControlOK' /\ WriterOK' /\ ReadOK'
  BY <1>1, <1>2 DEF ControlOK, WriterOK, ReadOK, Holds
<1>4. cutOff' \in BOOLEAN
  BY EditIs, ExistsTyped DEF EditLine, EditSegment
<1>5. CountsOK'
  BY <1>1, <1>2, <1>4, EnvFits DEF CountsOK
<1>6. DiskOK'
  <2>1. CASE EditSegment
    <3>1. Tail(segments) \in Seq(Seq(Line))
      BY <1>1, <2>1, HeadTailProperties DEF DiskOK, EditSegment
    <3>2. QED
      BY <1>1, <2>1, <3>1 DEF DiskOK, EditSegment
  <2>2. ASSUME NEW i \in 1 .. Len(current), EditLine(i)
        PROVE  DiskOK'
    BY <1>1, <2>2, EditedType DEF DiskOK, EditLine
  <2>3. QED
    BY <2>1, <2>2, EditIs
<1>7. QED
  BY <1>3, <1>5, <1>6, TypeParts

-----------------------------------------------------------------------------
(* Where the holder of the lock stands, before and after each step.        *)

\* Where the holder of the lock stands, before and after each step.
LEMMA StageMoves ==
    ASSUME TypeOK, NEW w \in Writers
    PROVE  /\ Begin(w) \/ TimeOut(w) => Stage' = Stage /\ lock' = lock
           /\ Acquire(w) => Stage = "free" /\ Stage' = "locked" /\ lock' = w
           /\ \A b \in BOOLEAN : ReadTail(w, b) => Stage = "locked" /\ Stage' = "read" /\ lock = w /\ lock' = w
           /\ \A b \in BOOLEAN : Rotate(w, b) => Stage = "read" /\ Stage' = "ready" /\ lock = w /\ lock' = w
           /\ WritePiece(w) => Stage = "ready" /\ Stage' = "writing" /\ lock = w /\ lock' = w
           /\ WriteRest(w) => Stage = "writing" /\ Stage' = "free" /\ lock = w /\ lock' = Free
           /\ \A b \in BOOLEAN : WriteCut(w, b) => Stage = "writing" /\ Stage' = "free" /\ lock = w /\ lock' = Free
           /\ Abandon(w) => Stage \in {"locked", "read", "ready"} /\ Stage' = "free" /\ lock = w /\ lock' = Free
           /\ Stall(w) => Stage' = "hung" /\ lock = w /\ lock' = w
<1> USE DEF At, Unlock
<1>1. /\ w # Free /\ pc \in [Writers -> Stages]
      /\ lock = w <=> pc[w] \notin {"idle", "waiting"}
      /\ lock # Free => lock \in Writers
  BY TypeParts, ConstantsAssumption DEF ControlOK, Holds
<1>2. Begin(w) \/ TimeOut(w) => Stage' = Stage /\ lock' = lock
  BY <1>1 DEF Begin, TimeOut, Stage
<1>3. Acquire(w) => Stage = "free" /\ Stage' = "locked" /\ lock' = w
  BY <1>1 DEF Acquire, Stage
<1>4. \A b \in BOOLEAN : ReadTail(w, b) => Stage = "locked" /\ Stage' = "read" /\ lock = w /\ lock' = w
  BY <1>1 DEF ReadTail, Stage
<1>5. \A b \in BOOLEAN : Rotate(w, b) => Stage = "read" /\ Stage' = "ready" /\ lock = w /\ lock' = w
  BY <1>1 DEF Rotate, Stage
<1>6. WritePiece(w) => Stage = "ready" /\ Stage' = "writing" /\ lock = w /\ lock' = w
  BY <1>1 DEF WritePiece, Stage
<1>7. WriteRest(w) => Stage = "writing" /\ Stage' = "free" /\ lock = w /\ lock' = Free
  BY <1>1 DEF WriteRest, Stage
<1>8. \A b \in BOOLEAN : WriteCut(w, b) => Stage = "writing" /\ Stage' = "free" /\ lock = w /\ lock' = Free
  BY <1>1 DEF WriteCut, Stage
<1>9. Abandon(w) => Stage \in {"locked", "read", "ready"} /\ Stage' = "free" /\ lock = w /\ lock' = Free
  BY <1>1 DEF Abandon, Stage
<1>10. Stall(w) => Stage' = "hung" /\ lock = w /\ lock' = w
  BY <1>1 DEF Stall, Stage
<1>11. QED
  BY <1>2, <1>3, <1>4, <1>5, <1>6, <1>7, <1>8, <1>9, <1>10

-----------------------------------------------------------------------------
(* The shape of the file at path.                                          *)

Inner(cur) == \A i \in 1 .. Len(cur) : i < Len(cur) => cur[i].nl
AllEnded(cur) == \A i \in 1 .. Len(cur) : cur[i].nl

\* Ended lines, with one line more.
LEMMA InnerNext ==
    ASSUME NEW s \in Seq(Line), NEW l \in Line
    PROVE  /\ Inner(Append(s, l)) <=> AllEnded(s)
           /\ AllEnded(Append(s, l)) <=> AllEnded(s) /\ l.nl
           /\ Open(Append(s, l)) <=> ~l.nl
           /\ Inner(s) /\ ~Open(s) => AllEnded(s)
<1>1. PICK t : t = Append(s, l)
  OBVIOUS
<1>2. /\ t \in Seq(Line) /\ Len(t) = Len(s) + 1 /\ t[Len(s) + 1] = l /\ Len(s) \in Nat
      /\ \A i \in 1 .. Len(s) : t[i] = s[i]
  BY <1>1, AppendParts
<1>3. \A i : i \in 1 .. Len(t) <=> i \in 1 .. Len(s) \/ i = Len(s) + 1
  BY <1>2
<1>4. \A i \in 1 .. Len(s) : i < Len(t)
  BY <1>2
<1>5. Inner(t) <=> AllEnded(s)
  BY <1>2, <1>3, <1>4 DEF Inner, AllEnded
<1>6. AllEnded(t) <=> AllEnded(s) /\ l.nl
  BY <1>2, <1>3 DEF AllEnded
<1>7. Open(t) <=> ~l.nl
  BY <1>1, LastOf DEF Open
<1>8. Inner(s) /\ ~Open(s) => AllEnded(s)
  <2>1. SUFFICES ASSUME Inner(s), ~Open(s), NEW i \in 1 .. Len(s) PROVE s[i].nl
    BY DEF AllEnded
  <2>2. s # <<>>
    BY <1>2
  <2>3. CASE i = Len(s)
    BY <2>1, <2>2, <2>3 DEF Open
  <2>4. CASE i # Len(s)
    <3>1. i < Len(s)
      BY <1>2, <2>4
    <3>2. QED
      BY <2>1, <3>1 DEF Inner
  <2>5. QED
    BY <2>3, <2>4
<1>9. QED
  BY <1>1, <1>5, <1>6, <1>7, <1>8

\* A step that leaves the file at path alone.
LEMMA ShapeRests ==
    ASSUME ShapeOK, UNCHANGED <<current, exists>>, faults' \in Nat, faults \in Nat, faults' >= faults,
           Stage' = "writing" => Stage = "writing",
           faults' = 0 /\ Stage' \notin {"writing", "hung"} => Stage \notin {"writing", "hung"}
    PROVE  ShapeOK'
<1>1. Inner(current') /\ (current' # <<>> => exists')
  BY DEF ShapeOK, Inner
<1>2. Stage' = "writing" => \E front \in Seq(Line) : current' \in {Append(front, Piece), Append(front, Junk)}
  BY DEF ShapeOK
<1>3. faults' = 0 /\ Stage' \notin {"writing", "hung"} => ~Open(current')
  <2>1. faults' = 0 => faults = 0
    OBVIOUS
  <2>2. QED
    BY <2>1 DEF ShapeOK
<1>4. QED
  BY <1>1, <1>2, <1>3 DEF ShapeOK, Inner

\* Only the last line is open, and only while it is written or when something failed.
LEMMA ShapeStep ==
    ASSUME TypeOK, ShapeOK, NEW w \in Writers, Begin(w) \/ Steps(w) \/ Stall(w)
    PROVE  ShapeOK'
<1>1. faults \in Nat /\ faults' \in Nat /\ faults' >= faults /\ current \in Seq(Line)
  <2>1. faults \in Nat
    BY EnvFits DEF TypeOK
  <2>2. faults' = faults \/ faults' = faults + 1
    BY CountsStep
  <2>3. current \in Seq(Line)
    BY DEF TypeOK
  <2>4. QED
    BY <2>1, <2>2, <2>3
<1>2. Inner(current) /\ (current # <<>> => exists)
  BY DEF ShapeOK, Inner
<1>3. CASE Begin(w) \/ TimeOut(w)
  <2>1. UNCHANGED <<current, exists>> /\ Stage' = Stage
    BY <1>3, StageMoves DEF Begin, TimeOut, disk
  <2>2. QED
    BY <1>1, <2>1, ShapeRests
<1>4. CASE Acquire(w)
  <2>1. UNCHANGED <<current, exists>> /\ Stage' = "locked" /\ Stage = "free"
    BY <1>4, StageMoves DEF Acquire, disk
  <2>2. QED
    BY <1>1, <2>1, ShapeRests
<1>5. ASSUME NEW b \in BOOLEAN, ReadTail(w, b)
      PROVE  ShapeOK'
  <2>1. UNCHANGED <<current, exists>> /\ Stage' = "read" /\ Stage = "locked"
    BY <1>5, StageMoves DEF ReadTail, disk
  <2>2. QED
    BY <1>1, <2>1, ShapeRests
<1>6. CASE Abandon(w)
  <2>1. UNCHANGED <<current, exists>> /\ Stage' = "free" /\ Stage \in {"locked", "read", "ready"}
    BY <1>6, StageMoves DEF Abandon, disk
  <2>2. QED
    BY <1>1, <2>1, ShapeRests
<1>7. CASE Stall(w)
  <2>1. UNCHANGED <<current, exists>> /\ Stage' = "hung"
    BY <1>7, StageMoves DEF Stall, disk
  <2>2. QED
    BY <1>1, <2>1, ShapeRests
<1>8. ASSUME NEW b \in BOOLEAN, Rotate(w, b)
      PROVE  ShapeOK'
  <2>1. Stage' = "ready" /\ Stage = "read"
    BY <1>8, StageMoves
  <2>2. CASE UNCHANGED <<current, exists>>
    BY <1>1, <2>1, <2>2, ShapeRests
  <2>3. CASE current' = <<>>
    <3>1. Inner(current') /\ ~Open(current') /\ ~(current' # <<>>)
      <4>1. Len(<<>>) = 0 /\ 1 .. 0 = {}
        OBVIOUS
      <4>2. QED
        BY <2>3, <4>1 DEF Inner, Open
    <3>2. QED
      BY <2>1, <3>1 DEF ShapeOK, Inner
  <2>4. QED
    BY <1>8, <2>2, <2>3 DEF Rotate, disk
<1>9. CASE WritePiece(w)
  <2>1. PICK nl \in BOOLEAN : nl = needsNl[w]
    BY DEF TypeOK
  <2>2. /\ Stage' = "writing" /\ exists' = TRUE /\ current' = Behind(current, nl, Piece)
    BY <1>9, <2>1, StageMoves DEF WritePiece
  <2>3. SUFFICES ASSUME TRUE
                 PROVE  \E front \in Seq(Line) : AllEnded(front) /\ current' \in {Append(front, Piece), Append(front, Junk)}
    BY <2>2, InnerNext, LinesAre DEF ShapeOK, Inner
  <2>4. CASE ~Open(current) /\ current' = Append(current, Piece)
    <3>1. AllEnded(current)
      BY <1>1, <1>2, <2>4, InnerNext, LinesAre
    <3>2. QED
      BY <1>1, <2>4, <3>1
  <2>5. ASSUME NEW front \in Seq(Line), NEW l \in Line, current = Append(front, l),
               current' = Append(Append(front, Ended(l)), Piece) \/ current' = Append(front, Junk)
        PROVE  \E f \in Seq(Line) : AllEnded(f) /\ current' \in {Append(f, Piece), Append(f, Junk)}
    <3>1. AllEnded(front)
      BY <1>2, <2>5, InnerNext
    <3>2. Append(front, Ended(l)) \in Seq(Line) /\ AllEnded(Append(front, Ended(l)))
      BY <3>1, InnerNext, LinesAre, AppendParts
    <3>3. QED
      BY <2>5, <3>1, <3>2
  <2>6. \/ ~Open(current) /\ current' = Append(current, Piece)
        \/ \E front \in Seq(Line), l \in Line :
               /\ current = Append(front, l)
               /\ current' = Append(Append(front, Ended(l)), Piece) \/ current' = Append(front, Junk)
    <3>1. current \in Seq(Line)
      BY <1>1
    <3>2. current' = Behind(current, nl, Piece)
      BY <2>2
    <3>3. CASE ~Open(current)
      <4>1. Behind(current, nl, Piece) = Append(current, Piece)
        BY Zenon, <3>1, <3>3, BehindIs
      <4>2. QED
        BY <3>2, <3>3, <4>1
    <3>4. CASE Open(current)
      <4>1. PICK front \in Seq(Line), l \in Line :
                /\ current = Append(front, l)
                /\ \/ nl /\ Behind(current, nl, Piece) = Append(Append(front, Ended(l)), Piece)
                   \/ ~nl /\ Behind(current, nl, Piece) = Append(front, Junk)
        BY Zenon, <3>1, <3>4, BehindIs
      <4>2. QED
        BY <3>2, <4>1
    <3>5. QED
      BY <3>3, <3>4
  <2>7. QED
    BY <2>4, <2>5, <2>6
<1>10. ASSUME NEW nl \in BOOLEAN, pc[w] = "writing", current' = Completed(w, nl)
       PROVE  Inner(current') /\ current' # <<>> /\ (Open(current') <=> ~nl)
  <2>1. PICK front \in Seq(Line) :
              \/ /\ current = Append(front, Piece)
                 /\ Completed(w, nl) = Append(front, RecordLine(mine[w], prev[w], nl))
              \/ /\ current = Append(front, Junk)
                 /\ Completed(w, nl) = Append(front, [Junk EXCEPT !.nl = nl])
    BY <1>10, CompletedIs
  <2>2. AllEnded(front)
    <3>1. Piece \in Line /\ Junk \in Line
      BY LinesAre
    <3>2. current = Append(front, Piece) \/ current = Append(front, Junk)
      BY <2>1
    <3>3. QED
      BY <1>2, <3>1, <3>2, InnerNext
  <2>3. mine[w] \in Nat /\ prev[w] \in Nat
    BY DEF TypeOK
  <2>4. PICK l \in Line : current' = Append(front, l) /\ l.nl = nl
    <3>1. PICK r, j : r = RecordLine(mine[w], prev[w], nl) /\ j = [Junk EXCEPT !.nl = nl]
      OBVIOUS
    <3>2. r \in Line /\ r.nl = nl /\ j \in Line /\ j.nl = nl
      BY <2>3, <3>1, LinesAre
    <3>3. QED
      BY <1>10, <2>1, <3>1, <3>2
  <2>5. QED
    BY <2>2, <2>4, InnerNext, LastOf
<1>11. (current # <<>> /\ exists) \/ pc[w] # "writing"
  <2>1. pc[w] = "writing" => current # <<>>
    BY StageIs, LastOf, LinesAre DEF ShapeOK
  <2>2. QED
    BY <1>2, <2>1
<1>12. CASE WriteRest(w)
  <2>1. /\ Stage' = "free" /\ exists' = exists /\ pc[w] = "writing" /\ current' = Completed(w, TRUE)
    BY <1>12, StageMoves DEF WriteRest, At
  <2>2. Inner(current') /\ ~Open(current') /\ exists'
    BY <1>10, <1>11, <2>1
  <2>3. QED
    BY <2>1, <2>2 DEF ShapeOK, Inner
<1>13. ASSUME NEW b \in BOOLEAN, WriteCut(w, b)
       PROVE  ShapeOK'
  <2>1. /\ Stage' = "free" /\ exists' = exists /\ pc[w] = "writing"
        /\ current' = IF b THEN Completed(w, FALSE) ELSE current
    BY <1>13, StageMoves DEF WriteCut, At
  <2>2. faults' # 0
    BY <1>1, <1>13 DEF WriteCut, Faulty
  <2>3. Inner(current') /\ exists'
    BY <1>2, <1>10, <1>11, <2>1
  <2>4. QED
    BY <2>1, <2>2, <2>3 DEF ShapeOK, Inner
<1>14. QED
  BY <1>3, <1>4, <1>5, <1>6, <1>7, <1>8, <1>9, <1>12, <1>13 DEF Steps

-----------------------------------------------------------------------------
(* The lines of all files, before and after a line is written.             *)

\* What a line more, or a rotation, does to all lines and to the solid ones.
LEMMA AllIs ==
    ASSUME NEW segs \in Seq(Files), NEW f \in Seq(Line), NEW l \in Line
    PROVE  /\ All(segs, f) \in Seq(Line) /\ JoinAll(segs) \in Seq(Line)
           /\ All(segs, Append(f, l)) = Append(All(segs, f), l)
           /\ All(Append(segs, f), <<>>) = All(segs, f)
           /\ All(segs, <<>>) = JoinAll(segs)
           /\ Solid(segs, Append(f, l)) = IF l.nl THEN Append(All(segs, f), l) ELSE All(segs, f)
           /\ Solid(segs, <<>>) = All(segs, <<>>)
<1>1. JoinAll(segs) \in Seq(Line) /\ f \in Files
  BY JoinAllIs DEF Files
<1>2. All(segs, f) \in Seq(Line) /\ All(segs, Append(f, l)) = Append(All(segs, f), l)
  BY <1>1, Joining DEF All
<1>3. All(Append(segs, f), <<>>) = All(segs, f)
  <2>1. JoinAll(Append(segs, f)) = All(segs, f)
    BY <1>1, JoinAllIs DEF All
  <2>2. All(segs, f) \o <<>> = All(segs, f)
    BY <1>2, ConcatEmptySeq
  <2>3. QED
    BY <2>1, <2>2 DEF All
<1>4. All(segs, <<>>) = JoinAll(segs)
  BY <1>1, ConcatEmptySeq DEF All
<1>5. Solid(segs, Append(f, l)) = IF l.nl THEN Append(All(segs, f), l) ELSE All(segs, f)
  BY <1>2, TerminatedIs DEF Solid, All
<1>6. Solid(segs, <<>>) = All(segs, <<>>)
  BY TerminatedIs DEF Solid, All
<1>7. QED
  BY <1>1, <1>2, <1>3, <1>4, <1>5, <1>6

\* A piece is begun: behind what is ended, after a newline of its own, or
\* glued to what lacks one.
Begun(cur, nl, new) ==
    \/ ~Open(cur) /\ new = Append(cur, Piece)
    \/ \E front \in Seq(Line), l \in Line :
         /\ cur = Append(front, l) /\ ~l.nl
         /\ \/ nl /\ new = Append(Append(front, Ended(l)), Piece)
            \/ ~nl /\ new = Append(front, Junk)

LEMMA PieceIs ==
    ASSUME TypeOK, NEW w \in Writers, WritePiece(w)
    PROVE  /\ Begun(current, needsNl[w], current') /\ needsNl[w] \in BOOLEAN
           /\ segments' = segments /\ lock = w /\ lock' = w /\ Stage = "ready" /\ Stage' = "writing"
           /\ faults' = faults /\ edits' = edits
           /\ UNCHANGED <<mine, prev, needsNl, nextId>> /\ pc[w] = "ready" /\ pc' = [pc EXCEPT ![w] = "writing"]
<1> USE DEF meddling
<1>1. PICK nl \in BOOLEAN : nl = needsNl[w]
  BY DEF TypeOK
<1>2. current \in Seq(Line)
  BY DEF TypeOK
<1>3. current' = Behind(current, nl, Piece)
  BY <1>1 DEF WritePiece
<1>4. Begun(current, nl, current')
  <2>1. CASE ~Open(current)
    <3>1. Behind(current, nl, Piece) = Append(current, Piece)
      BY Zenon, <1>2, <2>1, BehindIs
    <3>2. QED
      BY <1>3, <2>1, <3>1 DEF Begun
  <2>2. CASE Open(current)
    <3>1. PICK front \in Seq(Line), l \in Line :
              /\ current = Append(front, l) /\ ~l.nl
              /\ \/ nl /\ Behind(current, nl, Piece) = Append(Append(front, Ended(l)), Piece)
                 \/ ~nl /\ Behind(current, nl, Piece) = Append(front, Junk)
      BY Zenon, <1>2, <2>2, BehindIs
    <3>2. QED
      BY <1>3, <3>1 DEF Begun
  <2>3. QED
    BY <2>1, <2>2
<1>5. QED
  BY <1>1, <1>4, StageMoves DEF WritePiece, At

\* A piece is completed, or what was glued is.
Ends(cur, id, p, nl, new) ==
    \E front \in Seq(Line) :
        \/ cur = Append(front, Piece) /\ new = Append(front, RecordLine(id, p, nl))
        \/ cur = Append(front, Junk) /\ new = Append(front, [Junk EXCEPT !.nl = nl])

LEMMA RestIs ==
    ASSUME TypeOK, ShapeOK, NEW w \in Writers, WriteRest(w) \/ \E b \in BOOLEAN : WriteCut(w, b)
    PROVE  /\ WriteRest(w) => Ends(current, mine[w], prev[w], TRUE, current') /\ faults' = faults
           /\ (\E b \in BOOLEAN : WriteCut(w, b)) =>
                 (current' = current \/ Ends(current, mine[w], prev[w], FALSE, current')) /\ faults' = faults + 1
           /\ segments' = segments /\ lock = w /\ lock' = Free /\ Stage = "writing" /\ Stage' = "free"
           /\ edits' = edits /\ mine[w] \in Nat /\ prev[w] \in Nat
           /\ UNCHANGED <<mine, prev, needsNl, nextId>> /\ pc[w] = "writing" /\ pc' = [pc EXCEPT ![w] = "idle"]
<1> USE DEF meddling
<1>1. /\ segments' = segments /\ edits' = edits /\ UNCHANGED <<mine, prev, needsNl, nextId>>
      /\ pc[w] = "writing" /\ pc' = [pc EXCEPT ![w] = "idle"]
      /\ lock = w /\ lock' = Free /\ Stage = "writing" /\ Stage' = "free"
  BY StageMoves DEF WriteRest, WriteCut, At
<1>2. \A nl \in BOOLEAN : Ends(current, mine[w], prev[w], nl, Completed(w, nl))
  BY <1>1, CompletedIs DEF Ends
<1>3. WriteRest(w) => Ends(current, mine[w], prev[w], TRUE, current') /\ faults' = faults
  BY <1>2 DEF WriteRest
<1>4. ASSUME NEW b \in BOOLEAN, WriteCut(w, b)
      PROVE  (current' = current \/ Ends(current, mine[w], prev[w], FALSE, current')) /\ faults' = faults + 1
  BY <1>2, <1>4 DEF WriteCut, Faulty
<1>5. mine[w] \in Nat /\ prev[w] \in Nat
  BY DEF TypeOK
<1>6. QED
  BY <1>1, <1>3, <1>4, <1>5

\* What that is to the lines of all files.
BegunAmong(segs, cur, nl, new) ==
    \/ ~Open(cur) /\ new = Append(cur, Piece) /\ All(segs, new) = Append(All(segs, cur), Piece)
    \/ \E front \in Seq(Line), l \in Line, base \in Seq(Line) :
         /\ base = All(segs, front) /\ cur = Append(front, l) /\ All(segs, cur) = Append(base, l) /\ ~l.nl
         /\ Ended(l) \in Line /\ Append(front, Ended(l)) \in Seq(Line) /\ Append(base, Ended(l)) \in Seq(Line)
         /\ All(segs, Append(front, Ended(l))) = Append(base, Ended(l))
         /\ \/ /\ nl /\ new = Append(Append(front, Ended(l)), Piece)
               /\ All(segs, new) = Append(Append(base, Ended(l)), Piece)
            \/ ~nl /\ new = Append(front, Junk) /\ All(segs, new) = Append(base, Junk)

LEMMA BegunIs ==
    ASSUME NEW segs \in Seq(Files), NEW cur \in Seq(Line), NEW nl \in BOOLEAN, NEW new, Begun(cur, nl, new)
    PROVE  BegunAmong(segs, cur, nl, new)
<1>1. Piece \in Line /\ Junk \in Line
  BY LinesAre
<1>2. CASE ~Open(cur) /\ new = Append(cur, Piece)
  BY <1>1, <1>2, AllIs DEF BegunAmong
<1>3. ASSUME NEW front \in Seq(Line), NEW l \in Line, cur = Append(front, l), ~l.nl,
             \/ nl /\ new = Append(Append(front, Ended(l)), Piece)
             \/ ~nl /\ new = Append(front, Junk)
      PROVE  \E f \in Seq(Line), k \in Line, base \in Seq(Line) :
                /\ base = All(segs, f) /\ cur = Append(f, k) /\ All(segs, cur) = Append(base, k) /\ ~k.nl
                /\ Ended(k) \in Line /\ Append(f, Ended(k)) \in Seq(Line) /\ Append(base, Ended(k)) \in Seq(Line)
                /\ All(segs, Append(f, Ended(k))) = Append(base, Ended(k))
                /\ \/ /\ nl /\ new = Append(Append(f, Ended(k)), Piece)
                      /\ All(segs, new) = Append(Append(base, Ended(k)), Piece)
                   \/ ~nl /\ new = Append(f, Junk) /\ All(segs, new) = Append(base, Junk)
  <2>1. PICK base \in Seq(Line) : base = All(segs, front)
    BY <1>1, AllIs
  <2>2. PICK e \in Line : e = Ended(l)
    BY LinesAre
  <2>3. PICK g : g = Append(front, e)
    OBVIOUS
  <2>4. g \in Seq(Line) /\ Append(base, e) \in Seq(Line)
    BY <2>3, AppendParts
  <2>5. All(segs, cur) = Append(base, l) /\ All(segs, g) = Append(base, e)
    BY <1>3, <2>1, <2>3, AllIs
  <2>6. All(segs, Append(g, Piece)) = Append(Append(base, e), Piece) /\ All(segs, Append(front, Junk)) = Append(base, Junk)
    BY SMTT(30), <1>1, <2>1, <2>4, <2>5, AllIs
  <2>7. CASE nl /\ new = Append(Append(front, Ended(l)), Piece)
    BY <1>3, <2>1, <2>2, <2>3, <2>4, <2>5, <2>6, <2>7
  <2>8. CASE ~nl /\ new = Append(front, Junk)
    BY <1>3, <2>1, <2>2, <2>3, <2>4, <2>5, <2>6, <2>8
  <2>9. QED
    BY <1>3, <2>7, <2>8
<1>4. CASE \E front \in Seq(Line), l \in Line :
             /\ cur = Append(front, l) /\ ~l.nl
             /\ \/ nl /\ new = Append(Append(front, Ended(l)), Piece)
                \/ ~nl /\ new = Append(front, Junk)
  <2>1. PICK front \in Seq(Line), l \in Line :
             /\ cur = Append(front, l) /\ ~l.nl
             /\ \/ nl /\ new = Append(Append(front, Ended(l)), Piece)
                \/ ~nl /\ new = Append(front, Junk)
    BY <1>4
  <2>2. \E f \in Seq(Line), k \in Line, base \in Seq(Line) :
            /\ base = All(segs, f) /\ cur = Append(f, k) /\ All(segs, cur) = Append(base, k) /\ ~k.nl
            /\ Ended(k) \in Line /\ Append(f, Ended(k)) \in Seq(Line) /\ Append(base, Ended(k)) \in Seq(Line)
            /\ All(segs, Append(f, Ended(k))) = Append(base, Ended(k))
            /\ \/ /\ nl /\ new = Append(Append(f, Ended(k)), Piece)
                  /\ All(segs, new) = Append(Append(base, Ended(k)), Piece)
               \/ ~nl /\ new = Append(f, Junk) /\ All(segs, new) = Append(base, Junk)
    BY <1>3, <2>1, Zenon
  <2>3. QED
    BY <2>2 DEF BegunAmong
<1>5. QED
  BY <1>2, <1>4 DEF Begun

EndsAmong(segs, cur, id, p, nl, new) ==
    \E front \in Seq(Line), base \in Seq(Line), l \in Line :
       /\ base = All(segs, front) /\ l.nl = nl /\ new = Append(front, l) /\ All(segs, new) = Append(base, l)
       /\ \/ /\ cur = Append(front, Piece) /\ All(segs, cur) = Append(base, Piece)
             /\ l.kind = "record" /\ l.id = id /\ l.prev = p
          \/ cur = Append(front, Junk) /\ All(segs, cur) = Append(base, Junk) /\ l.kind = "junk"

LEMMA EndsAre ==
    ASSUME NEW segs \in Seq(Files), NEW cur, NEW new, NEW id \in Nat, NEW p \in Nat, NEW nl \in BOOLEAN,
           Ends(cur, id, p, nl, new)
    PROVE  EndsAmong(segs, cur, id, p, nl, new)
<1>1. PICK front \in Seq(Line) :
        \/ cur = Append(front, Piece) /\ new = Append(front, RecordLine(id, p, nl))
        \/ cur = Append(front, Junk) /\ new = Append(front, [Junk EXCEPT !.nl = nl])
  BY DEF Ends
<1>2. PICK r, j : r = RecordLine(id, p, nl) /\ j = [Junk EXCEPT !.nl = nl]
  OBVIOUS
<1>3. /\ r \in Line /\ r.kind = "record" /\ r.id = id /\ r.prev = p /\ r.nl = nl
      /\ j \in Line /\ j.kind = "junk" /\ j.nl = nl /\ Piece \in Line /\ Junk \in Line
  BY <1>2, LinesAre
<1>4. PICK base \in Seq(Line) : base = All(segs, front)
  BY <1>3, AllIs
<1>5. \A l \in Line : All(segs, Append(front, l)) = Append(base, l)
  BY <1>4, AllIs
<1> USE DEF EndsAmong
<1>6. CASE cur = Append(front, Piece) /\ new = Append(front, r)
  <2>1. All(segs, cur) = Append(base, Piece) /\ All(segs, new) = Append(base, r)
    BY <1>3, <1>5, <1>6
  <2>2. QED
    BY <1>3, <1>4, <1>6, <2>1
<1>7. CASE cur = Append(front, Junk) /\ new = Append(front, j)
  <2>1. All(segs, cur) = Append(base, Junk) /\ All(segs, new) = Append(base, j)
    BY <1>3, <1>5, <1>7
  <2>2. QED
    BY <1>3, <1>4, <1>7, <2>1
<1>8. QED
  BY <1>1, <1>2, <1>6, <1>7

-----------------------------------------------------------------------------
(* Ids are given once.                                                     *)

\* Ids are still given once if the new line's is new.
LEMMA OnceNext ==
    ASSUME NEW s \in Seq(Line), NEW l \in Line
    PROVE  Once(Append(s, l)) <=> Once(s) /\ (IsHashed(l) => ~HasId(s, l.id))
<1>1. PICK t : t = Append(s, l)
  OBVIOUS
<1>2. /\ t \in Seq(Line) /\ Len(t) = Len(s) + 1 /\ t[Len(s) + 1] = l /\ Len(s) \in Nat
      /\ \A i \in 1 .. Len(s) : t[i] = s[i]
  BY <1>1, AppendParts
<1>3. \A i : i \in 1 .. Len(t) <=> i \in 1 .. Len(s) \/ i = Len(s) + 1
  BY <1>2
<1>4. \A i \in 1 .. Len(s) : i # Len(s) + 1
  BY <1>2
<1>5. ASSUME Once(t)
      PROVE  Once(s) /\ (IsHashed(l) => ~HasId(s, l.id))
  <2>1. Once(s)
    BY <1>2, <1>3, <1>5 DEF Once
  <2>2. ASSUME IsHashed(l), NEW i \in 1 .. Len(s), IsHashed(s[i]), s[i].id = l.id
        PROVE  FALSE
    BY <1>2, <1>3, <1>4, <1>5, <2>2 DEF Once
  <2>3. QED
    BY <2>1, <2>2 DEF HasId
<1>6. ASSUME Once(s), IsHashed(l) => ~HasId(s, l.id)
      PROVE  Once(t)
  <2>1. ASSUME NEW i \in 1 .. Len(t), NEW j \in 1 .. Len(t), IsHashed(t[i]), IsHashed(t[j]), t[i].id = t[j].id
        PROVE  i = j
    <3>1. CASE i \in 1 .. Len(s) /\ j \in 1 .. Len(s)
      BY <1>2, <1>6, <2>1, <3>1 DEF Once
    <3>2. CASE i \in 1 .. Len(s) /\ j = Len(s) + 1
      BY <1>2, <1>6, <2>1, <3>2 DEF HasId
    <3>3. CASE j \in 1 .. Len(s) /\ i = Len(s) + 1
      BY <1>2, <1>6, <2>1, <3>3 DEF HasId
    <3>4. QED
      BY <1>3, <3>1, <3>2, <3>3
  <2>2. QED
    BY <2>1 DEF Once
<1>7. QED
  BY <1>1, <1>5, <1>6

\* A step that writes nothing and begins nothing.
LEMMA IdsRest ==
    ASSUME NEW s, NEW pcs, NEW mines, NEW next \in Nat, NEW pcs2, NEW next2 \in Nat, next2 >= next,
           IdsFit(s, pcs, mines, next), \A v \in Writers : pcs2[v] # "idle" => pcs[v] # "idle"
    PROVE  IdsFit(s, pcs2, mines, next2)
<1>1. \A x : x \in 1 .. next - 1 => x \in 1 .. next2 - 1
  OBVIOUS
<1>2. QED
  BY <1>1 DEF IdsFit

\* A line without an id may come or go, and any line at the end may go.
LEMMA IdsLine ==
    ASSUME NEW s \in Seq(Line), NEW l \in Line, NEW pcs, NEW mines, NEW next
    PROVE  /\ IdsFit(s, pcs, mines, next) /\ ~IsHashed(l) => IdsFit(Append(s, l), pcs, mines, next)
           /\ IdsFit(Append(s, l), pcs, mines, next) => IdsFit(s, pcs, mines, next) /\ l.kind # "edited"
<1>1. PICK t : t = Append(s, l)
  OBVIOUS
<1>2. /\ Once(t) <=> Once(s) /\ (IsHashed(l) => ~HasId(s, l.id))
      /\ Unedited(t) <=> Unedited(s) /\ l.kind # "edited"
      /\ \A x : HasId(t, x) <=> HasId(s, x) \/ (IsHashed(l) /\ l.id = x)
  BY <1>1, OnceNext, PartsNext
<1>3. ~IsHashed(l) => l.kind # "edited"
  BY DEF IsHashed
<1>4. QED
  BY <1>1, <1>2, <1>3 DEF IdsFit

\* A newline changes no id.
LEMMA IdsEnded ==
    ASSUME NEW s \in Seq(Line), NEW l \in Line, NEW k \in Line, k.kind = l.kind, k.id = l.id,
           NEW pcs, NEW mines, NEW next, IdsFit(Append(s, l), pcs, mines, next)
    PROVE  IdsFit(Append(s, k), pcs, mines, next)
<1>1. PICK t, u : t = Append(s, l) /\ u = Append(s, k)
  OBVIOUS
<1>2. IsHashed(l) <=> IsHashed(k)
  BY DEF IsHashed
<1>3. /\ Once(t) <=> Once(s) /\ (IsHashed(l) => ~HasId(s, l.id))
      /\ Unedited(t) <=> Unedited(s) /\ l.kind # "edited"
      /\ \A x : HasId(t, x) <=> HasId(s, x) \/ (IsHashed(l) /\ l.id = x)
  BY <1>1, OnceNext, PartsNext
<1>4. /\ Once(u) <=> Once(s) /\ (IsHashed(k) => ~HasId(s, k.id))
      /\ Unedited(u) <=> Unedited(s) /\ k.kind # "edited"
      /\ \A x : HasId(u, x) <=> HasId(s, x) \/ (IsHashed(k) /\ k.id = x)
  BY <1>1, OnceNext, PartsNext
<1>5. QED
  BY <1>1, <1>2, <1>3, <1>4 DEF IdsFit

\* The rest of a record is written.
LEMMA IdsAdd ==
    ASSUME NEW s \in Seq(Line), NEW l \in Line, NEW pcs \in [Writers -> Stages], NEW mines, NEW next, NEW w \in Writers,
           IdsFit(s, pcs, mines, next), pcs[w] # "idle", l.kind = "record", l.id = mines[w]
    PROVE  IdsFit(Append(s, l), [pcs EXCEPT ![w] = "idle"], mines, next) /\ ~HasId(s, l.id) /\ l.id \in 1 .. next - 1
<1>1. PICK t, qcs : t = Append(s, l) /\ qcs = [pcs EXCEPT ![w] = "idle"]
  OBVIOUS
<1>2. /\ Once(t) <=> Once(s) /\ (IsHashed(l) => ~HasId(s, l.id))
      /\ Unedited(t) <=> Unedited(s) /\ l.kind # "edited"
      /\ \A x : HasId(t, x) <=> HasId(s, x) \/ (IsHashed(l) /\ l.id = x)
  BY <1>1, OnceNext, PartsNext
<1>3. \A v \in Writers : qcs[v] # "idle" => v # w /\ pcs[v] # "idle"
  BY <1>1
<1>4. ~HasId(s, l.id) /\ l.id \in 1 .. next - 1 /\ IsHashed(l)
  BY DEF IdsFit, IsHashed
<1>5. Once(t) /\ Unedited(t) /\ \A x : HasId(t, x) => x \in 1 .. next - 1
  BY <1>2, <1>4 DEF IdsFit
<1>6. ASSUME NEW v \in Writers, qcs[v] # "idle"
      PROVE  mines[v] \in 1 .. next - 1 /\ ~HasId(t, mines[v])
  <2>1. v # w /\ pcs[v] # "idle" /\ mines[v] # mines[w]
    BY <1>3, <1>6 DEF IdsFit
  <2>2. QED
    BY <1>2, <2>1 DEF IdsFit
<1>7. \A u, v \in Writers : qcs[u] # "idle" /\ qcs[v] # "idle" /\ mines[u] = mines[v] => u = v
  BY <1>3 DEF IdsFit
<1>8. IdsFit(t, qcs, mines, next)
  BY <1>5, <1>6, <1>7 DEF IdsFit
<1>9. QED
  BY <1>1, <1>4, <1>8

\* A record gets the next id.
LEMMA IdsBegin ==
    ASSUME NEW s, NEW pcs \in [Writers -> Stages], NEW mines \in [Writers -> Nat], NEW next \in Nat, next > 0, NEW w \in Writers,
           IdsFit(s, pcs, mines, next)
    PROVE  IdsFit(s, [pcs EXCEPT ![w] = "waiting"], [mines EXCEPT ![w] = next], next + 1)
<1>1. PICK qcs, nines : qcs = [pcs EXCEPT ![w] = "waiting"] /\ nines = [mines EXCEPT ![w] = next]
  OBVIOUS
<1>2. next \notin 1 .. next - 1 /\ next \in 1 .. (next + 1) - 1 /\ \A x : x \in 1 .. next - 1 => x \in 1 .. (next + 1) - 1
  OBVIOUS
<1>3. \A v \in Writers : v # w => qcs[v] = pcs[v] /\ nines[v] = mines[v]
  BY <1>1
<1>4. nines[w] = next
  BY <1>1
<1>5. \A v \in Writers : v # w /\ pcs[v] # "idle" => mines[v] # next
  BY <1>2 DEF IdsFit
<1>6. IdsFit(s, qcs, nines, next + 1)
  BY <1>2, <1>3, <1>4, <1>5 DEF IdsFit
<1>7. QED
  BY <1>1, <1>6

\* Each step of a writer keeps the ids apart.
LEMMA IdsStep ==
    ASSUME TypeOK, ShapeOK, IdsOK, NEW w \in Writers, Begin(w) \/ Steps(w) \/ Stall(w)
    PROVE  IdsOK'
<1> SUFFICES ASSUME edits' = 0 PROVE IdsFit(All(segments', current'), pc', mine', nextId')
  BY DEF IdsOK
<1>1. edits = 0
  BY CountsStep
<1>2. PICK all : all = All(segments, current)
  OBVIOUS
<1>3. IdsFit(all, pc, mine, nextId)
  BY <1>1, <1>2 DEF IdsOK
<1>4. /\ segments \in Seq(Files) /\ current \in Seq(Line) /\ all \in Seq(Line)
      /\ pc \in [Writers -> Stages] /\ mine \in [Writers -> Nat] /\ nextId \in Nat /\ nextId > 0
  <2>1. segments \in Seq(Files) /\ current \in Seq(Line)
    BY FilesFit DEF FilesOK, Files
  <2>2. all \in Seq(Line)
    BY <1>2, <2>1, AllIs, LinesAre
  <2>3. nextId \in Nat /\ nextId > 0
    BY SomeConstants DEF TypeOK
  <2>4. QED
    BY <2>1, <2>2, <2>3 DEF TypeOK, Stages
<1>5. ASSUME segments' = segments, current' = current, UNCHANGED <<mine, nextId>>,
             \A v \in Writers : pc'[v] # "idle" => pc[v] # "idle"
      PROVE  IdsFit(All(segments', current'), pc', mine', nextId')
  <2>1. IdsFit(all, pc', mine, nextId)
    BY <1>3, <1>4, <1>5, IdsRest
  <2>2. QED
    BY <1>2, <1>5, <2>1
<1>6. CASE Begin(w)
  <2>1. segments' = segments /\ current' = current
    BY <1>6 DEF Begin, disk
  <2>2. IdsFit(all, [pc EXCEPT ![w] = "waiting"], [mine EXCEPT ![w] = nextId], nextId + 1)
    BY <1>3, <1>4, IdsBegin
  <2>3. QED
    BY <1>2, <1>6, <2>1, <2>2 DEF Begin, At
<1>7. \A x \in Stages, v \in Writers : [pc EXCEPT ![w] = x][v] = IF v = w THEN x ELSE pc[v]
  BY <1>4
<1>8. CASE Acquire(w) \/ TimeOut(w)
  BY <1>4, <1>5, <1>8 DEF Acquire, TimeOut, At, disk
<1>9. ASSUME NEW b \in BOOLEAN, ReadTail(w, b)
      PROVE  IdsFit(All(segments', current'), pc', mine', nextId')
  BY <1>4, <1>5, <1>9 DEF ReadTail, At, disk
<1>10. CASE Abandon(w)
  BY <1>4, <1>5, <1>10 DEF Abandon, disk
<1>11. CASE Stall(w)
  <2>1. pc[w] # "idle"
    BY <1>11, StageIs DEF Stall
  <2>2. QED
    BY <1>4, <1>5, <1>11, <2>1 DEF Stall, disk
<1>12. ASSUME NEW b \in BOOLEAN, Rotate(w, b)
       PROVE  IdsFit(All(segments', current'), pc', mine', nextId')
  <2>1. All(segments', current') = all
    <3>1. CASE segments' = Append(segments, current) /\ current' = <<>>
      BY <1>2, <1>4, <3>1, AllIs, LinesAre
    <3>2. CASE segments' = segments /\ current' = current
      BY <1>2, <3>2
    <3>3. QED
      BY <1>12, <3>1, <3>2 DEF Rotate, Rotated, disk
  <2>2. pc' = [pc EXCEPT ![w] = "ready"] /\ pc[w] = "read" /\ mine' = mine /\ nextId' = nextId
    BY <1>12 DEF Rotate, At
  <2>3. \A v \in Writers : pc'[v] # "idle" => pc[v] # "idle"
    BY <1>4, <2>2
  <2>4. IdsFit(all, pc', mine, nextId)
    BY <1>3, <1>4, <2>3, IdsRest
  <2>5. QED
    BY <2>1, <2>2, <2>4
<1>13. CASE WritePiece(w)
  <2>1. Begun(current, needsNl[w], current') /\ segments' = segments /\ mine' = mine /\ nextId' = nextId
        /\ pc[w] = "ready" /\ pc' = [pc EXCEPT ![w] = "writing"]
    BY <1>13, PieceIs
  <2>2. \A v \in Writers : pc'[v] # "idle" => pc[v] # "idle"
    BY <1>4, <2>1
  <2>3. IdsFit(All(segments, current'), pc, mine, nextId)
    <3>1. ~IsHashed(Piece) /\ ~IsHashed(Junk) /\ Piece \in Line /\ Junk \in Line
      BY LinesAre DEF IsHashed
    <3>2. CASE All(segments, current') = Append(all, Piece)
      BY <1>3, <1>4, <3>1, <3>2, IdsLine
    <3>3. ASSUME NEW base \in Seq(Line), NEW l \in Line, all = Append(base, l),
                 Ended(l) \in Line, Append(base, Ended(l)) \in Seq(Line),
                 \/ All(segments, current') = Append(Append(base, Ended(l)), Piece)
                 \/ All(segments, current') = Append(base, Junk)
          PROVE  IdsFit(All(segments, current'), pc, mine, nextId)
      <4>1. PICK e \in Line : e = Ended(l)
        BY <3>3
      <4>2. e.kind = l.kind /\ e.id = l.id
        BY <4>1, LinesAre
      <4>3. IdsFit(Append(base, e), pc, mine, nextId) /\ IdsFit(base, pc, mine, nextId)
        BY <1>3, <3>3, <4>2, IdsEnded, IdsLine
      <4>4. IdsFit(Append(Append(base, e), Piece), pc, mine, nextId) /\ IdsFit(Append(base, Junk), pc, mine, nextId)
        BY <3>1, <3>3, <4>1, <4>3, IdsLine
      <4>5. QED
        BY <3>3, <4>1, <4>4
    <3>4. PICK nl \in BOOLEAN : nl = needsNl[w] /\ Begun(current, nl, current')
      BY <2>1, PieceIs, <1>13
    <3>5. \/ All(segments, current') = Append(all, Piece)
          \/ \E base \in Seq(Line), l \in Line :
                /\ all = Append(base, l) /\ Ended(l) \in Line /\ Append(base, Ended(l)) \in Seq(Line)
                /\ \/ All(segments, current') = Append(Append(base, Ended(l)), Piece)
                   \/ All(segments, current') = Append(base, Junk)
      <4>1. segments \in Seq(Files) /\ current \in Seq(Line) /\ nl \in BOOLEAN
        BY <1>4
      <4>2. PICK new : new = current'
        OBVIOUS
      <4>3. Begun(current, nl, new)
        BY <3>4, <4>2
      <4>4. \/ All(segments, new) = Append(All(segments, current), Piece)
            \/ \E base \in Seq(Line), l \in Line :
                /\ All(segments, current) = Append(base, l) /\ Ended(l) \in Line /\ Append(base, Ended(l)) \in Seq(Line)
                /\ \/ All(segments, new) = Append(Append(base, Ended(l)), Piece)
                   \/ All(segments, new) = Append(base, Junk)
        <5>1. BegunAmong(segments, current, nl, new)
          BY <4>1, <4>3, BegunIs, Zenon
        <5>2. QED
          BY <5>1 DEF BegunAmong
      <4>5. QED
        BY <1>2, <4>2, <4>4
    <3>6. QED
      BY <3>2, <3>3, <3>5
  <2>4. IdsFit(All(segments, current'), pc', mine, nextId)
    BY <1>4, <2>2, <2>3, IdsRest
  <2>5. QED
    BY <2>1, <2>4
<1>14. CASE WriteRest(w) \/ \E b \in BOOLEAN : WriteCut(w, b)
  <2>1. /\ segments' = segments /\ mine' = mine /\ nextId' = nextId /\ mine[w] \in Nat /\ prev[w] \in Nat
        /\ pc[w] = "writing" /\ pc' = [pc EXCEPT ![w] = "idle"]
        /\ current' = current \/ \E nl \in BOOLEAN : Ends(current, mine[w], prev[w], nl, current')
    BY <1>14, RestIs
  <2>2. \A v \in Writers : pc'[v] # "idle" => pc[v] # "idle"
    BY <1>4, <2>1
  <2>3. CASE current' = current
    BY <1>5, <2>1, <2>2, <2>3
  <2>4. ASSUME NEW nl \in BOOLEAN, Ends(current, mine[w], prev[w], nl, current')
        PROVE  IdsFit(All(segments', current'), pc', mine', nextId')
    <3>1. PICK base \in Seq(Line), l \in Line :
              /\ All(segments, current') = Append(base, l)
              /\ \/ all = Append(base, Piece) /\ l.kind = "record" /\ l.id = mine[w]
                 \/ all = Append(base, Junk) /\ l.kind = "junk"
      <4>1. segments \in Seq(Files) /\ mine[w] \in Nat /\ prev[w] \in Nat /\ nl \in BOOLEAN
        BY <1>4, <2>1
      <4>2. PICK new : new = current'
        OBVIOUS
      <4>3. Ends(current, mine[w], prev[w], nl, new)
        BY <2>4, <4>2
      <4>4. \E base \in Seq(Line), l \in Line :
                /\ All(segments, new) = Append(base, l)
                /\ \/ All(segments, current) = Append(base, Piece) /\ l.kind = "record" /\ l.id = mine[w]
                   \/ All(segments, current) = Append(base, Junk) /\ l.kind = "junk"
        <5>1. EndsAmong(segments, current, mine[w], prev[w], nl, new)
          BY <4>1, <4>3, EndsAre, Zenon
        <5>2. QED
          BY <5>1 DEF EndsAmong
      <4>5. QED
        BY <1>2, <4>2, <4>4
    <3>2. IdsFit(base, pc, mine, nextId)
      <4>1. Piece \in Line /\ Junk \in Line
        BY LinesAre
      <4>2. PICK k \in Line : all = Append(base, k)
        BY <3>1, <4>1
      <4>3. IdsFit(Append(base, k), pc, mine, nextId)
        BY <1>3, <4>2
      <4>4. QED
        BY <4>3, IdsLine
    <3>3. CASE l.kind = "record" /\ l.id = mine[w]
      <4>1. IdsFit(Append(base, l), [pc EXCEPT ![w] = "idle"], mine, nextId)
        BY <1>4, <2>1, <3>2, <3>3, IdsAdd
      <4>2. QED
        BY <2>1, <3>1, <4>1
    <3>4. CASE l.kind = "junk"
      <4>1. IdsFit(base, pc', mine, nextId) /\ ~IsHashed(l)
        BY <1>4, <2>2, <3>2, <3>4, IdsRest DEF IsHashed
      <4>2. IdsFit(Append(base, l), pc', mine, nextId)
        BY <4>1, IdsLine
      <4>3. QED
        BY <2>1, <3>1, <4>2
    <3>5. QED
      BY <3>1, <3>3, <3>4
  <2>5. QED
    BY <2>1, <2>3, <2>4
<1>15. QED
  BY <1>6, <1>8, <1>9, <1>10, <1>11, <1>12, <1>13, <1>14 DEF Steps

-----------------------------------------------------------------------------
(* A record is chained from one that a reader finds.                       *)

\* An id of a part is one of the whole.
LEMMA HasIdJoin ==
    ASSUME NEW s \in Seq(Line), NEW t \in Seq(Line), NEW x, HasId(s, x) \/ HasId(t, x)
    PROVE  HasId(s \o t, x)
<1>1. PICK u : u = s \o t
  OBVIOUS
<1>2. Len(s) \in Nat /\ Len(t) \in Nat /\ Len(u) = Len(s) + Len(t)
  BY <1>1
<1>3. (\A i \in 1 .. Len(s) : u[i] = s[i]) /\ (\A i \in 1 .. Len(t) : u[Len(s) + i] = t[i])
  BY <1>1, Joining
<1>4. CASE HasId(s, x)
  <2>1. PICK i \in 1 .. Len(s) : IsHashed(s[i]) /\ s[i].id = x
    BY <1>4 DEF HasId
  <2>2. i \in 1 .. Len(u)
    BY <1>2
  <2>3. QED
    BY <1>1, <1>3, <2>1, <2>2 DEF HasId
<1>5. CASE HasId(t, x)
  <2>1. PICK i \in 1 .. Len(t) : IsHashed(t[i]) /\ t[i].id = x
    BY <1>5 DEF HasId
  <2>2. PICK j : j = Len(s) + i
    OBVIOUS
  <2>3. j \in 1 .. Len(u) /\ u[j] = t[i]
    BY <1>2, <1>3, <2>2
  <2>4. QED
    BY <1>1, <2>1, <2>3 DEF HasId
<1>6. QED
  BY <1>4, <1>5

\* The solid lines are all lines but an open last one.
LEMMA SolidIs ==
    ASSUME NEW segs \in Seq(Files), NEW cur \in Seq(Line)
    PROVE  /\ Solid(segs, cur) \in Seq(Line)
           /\ ~Open(cur) => Solid(segs, cur) = All(segs, cur)
           /\ \A x : Known(Solid(segs, cur), x) => Known(All(segs, cur), x)
<1>1. CASE cur = <<>>
  <2>1. Solid(segs, cur) = All(segs, cur) /\ All(segs, cur) \in Seq(Line)
    BY <1>1, AllIs, LinesAre
  <2>2. QED
    BY <2>1
<1>2. CASE cur # <<>>
  <2>1. PICK front \in Seq(Line), l \in Line : cur = Append(front, l)
    BY <1>2, SplitLast
  <2>2. PICK base \in Seq(Line) : base = All(segs, front)
    BY AllIs, LinesAre
  <2>3. All(segs, cur) = Append(base, l) /\ Solid(segs, cur) = IF l.nl THEN Append(base, l) ELSE base
    BY <2>1, <2>2, AllIs
  <2>4. Open(cur) <=> ~l.nl
    BY <2>1, InnerNext
  <2>5. \A x : Known(base, x) => Known(Append(base, l), x)
    BY PartsNext DEF Known
  <2>6. Append(base, l) \in Seq(Line)
    BY AppendParts
  <2>7. CASE l.nl
    BY <2>3, <2>4, <2>6, <2>7
  <2>8. CASE ~l.nl
    BY <2>2, <2>3, <2>4, <2>5, <2>8
  <2>9. QED
    BY <2>7, <2>8
<1>3. QED
  BY <1>1, <1>2

\* The expected hash is the id of a line.
LEMMA ExpectedKnown ==
    ASSUME NEW s \in Seq(Line), Expected(s) # NoHash
    PROVE  HasId(s, Expected(s))
<1>1. PICK n \in 0 .. Len(s) : n = Len(s)
  <2>1. Len(s) \in 0 .. Len(s)
    OBVIOUS
  <2>2. QED
    BY <2>1
<1>2. \/ Hashes(s)[n] = NoHash /\ \A i \in 1 .. n : ~IsHashed(s[i])
      \/ \E i \in 1 .. n : /\ IsHashed(s[i]) /\ Hashes(s)[n] = s[i].id
                           /\ \A j \in 1 .. n : IsHashed(s[j]) => j <= i
  BY HashComes
<1>3. QED
  BY <1>1, <1>2 DEF Expected, HasId

\* What ReadTail takes from the newest file is the id of a solid line.
LEMMA TailKnown ==
    ASSUME NEW segs \in Seq(Files), NEW cur \in Seq(Line), TailOf(segs, cur) # NoHash
    PROVE  Known(Solid(segs, cur), TailOf(segs, cur))
<1>1. JoinAll(segs) \in Seq(Line)
  BY AllIs, LinesAre
<1>2. \A c \in Seq(Line) : TailHash(c) # NoHash => HasId(Terminated(c), TailHash(c)) /\ Terminated(c) \in Seq(Line)
  BY TailIsExpected, TerminatedType, ExpectedKnown
<1>3. CASE cur # <<>>
  <2>1. TailOf(segs, cur) = TailHash(cur)
    BY <1>3 DEF TailOf
  <2>2. HasId(JoinAll(segs) \o Terminated(cur), TailHash(cur))
    BY <1>1, <1>2, <2>1, HasIdJoin
  <2>3. QED
    BY <2>1, <2>2 DEF Known, Solid
<1>4. CASE cur = <<>>
  <2>1. segs # <<>> /\ TailOf(segs, cur) = TailHash(segs[Len(segs)])
    BY <1>4 DEF TailOf
  <2>2. PICK front \in Seq(Files), c \in Files : segs = Append(front, c)
    BY <2>1, SplitLast
  <2>3. c \in Seq(Line) /\ segs[Len(segs)] = c
    BY <2>2, LastOf DEF Files
  <2>4. Solid(segs, cur) = All(front, c)
    <3>1. <<>> \in Seq(Line) /\ LegacyLine \in Line
      BY LinesAre
    <3>2. Solid(segs, <<>>) = All(segs, <<>>)
      BY <3>1, AllIs
    <3>3. All(Append(front, c), <<>>) = All(front, c)
      BY <2>3, <3>1, AllIs
    <3>4. QED
      BY <1>4, <2>2, <3>2, <3>3
  <2>5. Known(Solid(front, c), TailHash(c))
    <3>1. JoinAll(front) \in Seq(Line)
      BY AllIs, LinesAre
    <3>2. HasId(JoinAll(front) \o Terminated(c), TailHash(c))
      BY <1>2, <2>1, <2>3, <3>1, HasIdJoin
    <3>3. QED
      BY <3>2 DEF Known, Solid
  <2>6. QED
    BY <2>1, <2>3, <2>4, <2>5, SolidIs
<1>5. QED
  BY <1>3, <1>4

\* Only the last line can be open.
LEMMA OpenNext ==
    ASSUME NEW front \in Seq(Line), NEW l \in Line, NEW s, NEW n
    PROVE  /\ OpenIsKnown(s, Append(front, l), n) <=> (l.kind = "record" /\ ~l.nl => n > 0 /\ Known(s, l.prev))
           /\ OpenIsKnown(s, <<>>, n)
<1>1. \A f \in Seq(Line), k \in Line : Append(front, l) = Append(f, k) => f = front /\ k = l
  BY SameLast
<1>2. \A f \in Seq(Line), k \in Line : <<>> # Append(f, k)
  BY LastOf
<1>3. QED
  BY <1>1, <1>2 DEF OpenIsKnown

Chained == {"read", "ready", "writing"}

\* A step that writes nothing and after which no prev is in flight, or the same.
LEMMA PrevsRest ==
    ASSUME PrevsOK, edits = 0, segments' = segments, current' = current, faults \in Nat, faults' \in Nat, faults' >= faults,
           Stage' \in Chained => Known(Solid(segments, current), prev[lock]')
    PROVE  PrevsOK'
<1>1. OpenIsKnown(Solid(segments, current), current, faults)
  BY DEF PrevsOK
<1>2. OpenIsKnown(Solid(segments, current), current, faults')
  BY <1>1 DEF OpenIsKnown
<1>3. QED
  BY <1>2 DEF PrevsOK, Chained

\* Each step of a writer keeps what is in flight chained from a solid line.
LEMMA PrevsStep ==
    ASSUME TypeOK, ShapeOK, PrevsOK, NEW w \in Writers, Begin(w) \/ Steps(w) \/ Stall(w)
    PROVE  PrevsOK'
<1> SUFFICES ASSUME edits' = 0 PROVE PrevsOK'
  BY DEF PrevsOK
<1>1. edits = 0 /\ faults \in Nat /\ faults' \in Nat /\ faults' >= faults
  <2>1. faults \in Nat
    BY EnvFits DEF TypeOK
  <2>2. edits = 0 /\ (faults' = faults \/ faults' = faults + 1)
    BY CountsStep
  <2>3. QED
    BY <2>1, <2>2
<1>2. segments \in Seq(Files) /\ current \in Seq(Line) /\ prev \in [Writers -> Nat]
  BY FilesFit DEF FilesOK, Files, TypeOK
<1>3. PICK solid : solid = Solid(segments, current)
  OBVIOUS
<1>4. (Stage \in Chained => Known(solid, prev[lock])) /\ OpenIsKnown(solid, current, faults)
  BY <1>1, <1>3 DEF PrevsOK, Chained
<1>5. CASE Begin(w) \/ TimeOut(w)
  <2>1. segments' = segments /\ current' = current /\ prev' = prev
    BY <1>5 DEF Begin, TimeOut, disk
  <2>2. Stage' = Stage /\ lock' = lock
    BY <1>5, StageMoves
  <2>3. QED
    BY <1>1, <1>3, <1>4, <2>1, <2>2, PrevsRest
<1>6. CASE Acquire(w) \/ Abandon(w) \/ Stall(w)
  <2>1. segments' = segments /\ current' = current
    BY <1>6 DEF Acquire, Abandon, Stall, disk
  <2>2. Stage' \in {"locked", "free", "hung"}
    BY <1>6, StageMoves
  <2>3. QED
    BY <1>1, <2>1, <2>2, PrevsRest DEF Chained
<1>7. ASSUME NEW b \in BOOLEAN, ReadTail(w, b)
      PROVE  PrevsOK'
  <2>1. segments' = segments /\ current' = current
    BY <1>7 DEF ReadTail, disk
  <2>2. lock' = w /\ prev'[w] = IF b /\ ChainTail # NoHash THEN ChainTail ELSE Genesis
    BY <1>2, <1>7, StageMoves DEF ReadTail
  <2>3. Known(solid, Genesis)
    BY DEF Known
  <2>4. ChainTail # NoHash => Known(solid, ChainTail)
    BY <1>2, <1>3, TailKnown, AllLinesAre
  <2>5. QED
    BY <1>1, <1>3, <2>1, <2>2, <2>3, <2>4, PrevsRest
<1>8. ASSUME NEW b \in BOOLEAN, Rotate(w, b)
      PROVE  PrevsOK'
  <2>1. Stage \in Chained /\ lock' = lock /\ prev' = prev
    BY <1>8, StageMoves DEF Rotate, Chained
  <2>2. CASE segments' = segments /\ current' = current
    BY <1>1, <1>3, <1>4, <2>1, <2>2, PrevsRest
  <2>3. CASE segments' = Append(segments, current) /\ current' = <<>>
    <3>1. segments' \in Seq(Files) /\ <<>> \in Seq(Line)
      BY <1>2, <2>3, AppendParts DEF Files
    <3>2. Solid(segments', current') = All(segments, current)
      <4>1. PICK more \in Seq(Files) : more = Append(segments, current)
        BY <2>3, <3>1
      <4>2. Solid(more, <<>>) = All(more, <<>>)
        BY <3>1, AllIs, LinesAre
      <4>4. All(Append(segments, current), <<>>) = All(segments, current)
        BY <1>2, AllIs, LinesAre
      <4>3. QED
        BY <2>3, <4>1, <4>2, <4>4
    <3>3. Known(Solid(segments', current'), prev'[lock'])
      BY <1>2, <1>3, <1>4, <2>1, <3>2, SolidIs
    <3>4. OpenIsKnown(Solid(segments', current'), current', faults')
      BY <2>3, OpenNext, LinesAre, <3>1
    <3>5. QED
      BY <3>3, <3>4 DEF PrevsOK
  <2>4. QED
    BY <1>8, <2>2, <2>3 DEF Rotate, Rotated, disk
<1>9. CASE WritePiece(w)
  <2>1. /\ Begun(current, needsNl[w], current') /\ needsNl[w] \in BOOLEAN
        /\ segments' = segments /\ lock = w /\ lock' = w /\ Stage = "ready" /\ prev' = prev
    BY <1>9, PieceIs
  <2>2. PICK new : new = current'
    OBVIOUS
  <2>3. BegunAmong(segments, current, needsNl[w], new)
    BY <1>2, <2>1, <2>2, BegunIs, Zenon
  <2>4. Known(solid, prev[lock])
    BY <1>4, <2>1 DEF Chained
  <2>5. Piece \in Line /\ Junk \in Line /\ Piece.kind = "piece" /\ Junk.kind = "junk" /\ ~Piece.nl /\ ~Junk.nl
    BY LinesAre
  <2>6. Known(Solid(segments, new), prev[lock]) /\ OpenIsKnown(Solid(segments, new), new, faults')
    <3>1. CASE ~Open(current) /\ new = Append(current, Piece)
      <4>1. Solid(segments, new) = solid
        BY <1>2, <1>3, <2>5, <3>1, AllIs, SolidIs
      <4>2. QED
        BY <1>2, <2>4, <2>5, <3>1, <4>1, OpenNext
    <3>2. CASE ~(~Open(current) /\ new = Append(current, Piece))
      <4>1. PICK front \in Seq(Line), l \in Line, base \in Seq(Line) :
              /\ base = All(segments, front) /\ current = Append(front, l) /\ ~l.nl
              /\ Ended(l) \in Line /\ Append(front, Ended(l)) \in Seq(Line)
              /\ All(segments, Append(front, Ended(l))) = Append(base, Ended(l))
              /\ new = Append(Append(front, Ended(l)), Piece) \/ new = Append(front, Junk)
        BY <2>3, <3>2 DEF BegunAmong
      <4>2. solid = base
        BY <1>2, <1>3, <4>1, AllIs
      <4>3. CASE new = Append(Append(front, Ended(l)), Piece)
        <5>1. PICK g \in Seq(Line) : g = Append(front, Ended(l))
          BY <4>1
        <5>2. Solid(segments, new) = All(segments, g)
          BY <1>2, <2>5, <4>3, <5>1, AllIs
        <5>3. PICK e \in Line : e = Ended(l)
          BY <4>1
        <5>4. Known(Append(base, e), prev[lock])
          BY <2>4, <4>2, PartsNext DEF Known
        <5>5. OpenIsKnown(Solid(segments, new), new, faults')
          BY <2>5, <4>3, <5>1, OpenNext
        <5>6. QED
          BY <4>1, <5>1, <5>2, <5>3, <5>4, <5>5
      <4>4. CASE new = Append(front, Junk)
        <5>1. Solid(segments, new) = base
          BY <1>2, <2>5, <4>1, <4>4, AllIs
        <5>2. OpenIsKnown(Solid(segments, new), new, faults')
          BY <2>5, <4>4, OpenNext
        <5>3. QED
          BY <2>4, <4>2, <5>1, <5>2
      <4>5. QED
        BY <4>1, <4>3, <4>4
    <3>3. QED
      BY <3>1, <3>2
  <2>7. QED
    BY <2>1, <2>2, <2>6 DEF PrevsOK
<1>10. CASE WriteRest(w) \/ \E b \in BOOLEAN : WriteCut(w, b)
  <2>1. /\ WriteRest(w) => Ends(current, mine[w], prev[w], TRUE, current')
        /\ (\E b \in BOOLEAN : WriteCut(w, b)) =>
                 (current' = current \/ Ends(current, mine[w], prev[w], FALSE, current')) /\ faults' = faults + 1
        /\ segments' = segments /\ lock = w /\ Stage = "writing" /\ Stage' = "free"
        /\ mine[w] \in Nat /\ prev[w] \in Nat
    BY <1>10, RestIs
  <2>2. CASE current' = current
    BY <1>1, <2>1, <2>2, PrevsRest DEF Chained
  <2>3. ASSUME NEW nl \in BOOLEAN, Ends(current, mine[w], prev[w], nl, current'), ~nl => faults' > 0
        PROVE  PrevsOK'
    <3>1. PICK new : new = current'
      OBVIOUS
    <3>2. Ends(current, mine[w], prev[w], nl, new)
      BY <2>3, <3>1
    <3>3. EndsAmong(segments, current, mine[w], prev[w], nl, new)
      BY <1>2, <2>1, <3>2, EndsAre, Zenon
    <3>4. PICK front \in Seq(Line), base \in Seq(Line), l \in Line :
              /\ base = All(segments, front) /\ l.nl = nl /\ new = Append(front, l) /\ All(segments, new) = Append(base, l)
              /\ current = Append(front, Piece) \/ current = Append(front, Junk)
              /\ l.prev = prev[w] \/ l.kind # "record"
      BY <3>3 DEF EndsAmong
    <3>5. solid = base
      <4>1. Piece \in Line /\ Junk \in Line /\ ~Piece.nl /\ ~Junk.nl
        BY LinesAre
      <4>2. PICK k \in Line : ~k.nl /\ current = Append(front, k)
        BY <3>4, <4>1
      <4>3. QED
        BY <1>2, <1>3, <3>4, <4>2, AllIs
    <3>6. ~nl => Solid(segments, new) = base
      BY <1>2, <3>4, AllIs
    <3>7. Known(base, prev[w])
      BY <1>4, <2>1, <3>5 DEF Chained
    <3>8. OpenIsKnown(Solid(segments, new), new, faults')
      BY <2>3, <3>4, <3>6, <3>7, OpenNext
    <3>9. QED
      BY <2>1, <3>1, <3>8 DEF PrevsOK
  <2>4. CASE Ends(current, mine[w], prev[w], TRUE, current')
    BY <2>3, <2>4
  <2>5. CASE Ends(current, mine[w], prev[w], FALSE, current') /\ faults' = faults + 1
    <3>1. faults' > 0
      BY <1>1, <2>5
    <3>2. QED
      BY <2>3, <2>5, <3>1
  <2>6. QED
    BY <1>10, <2>1, <2>2, <2>4, <2>5
<1>11. QED
  BY <1>5, <1>6, <1>7, <1>8, <1>9, <1>10 DEF Steps

-----------------------------------------------------------------------------
(* What goes wrong spoils two lines at most.                               *)

LEMMA CostIs ==
    ASSUME NEW s \in Seq(Line), NEW n
    PROVE  /\ Cost(s, n) \in Nat /\ BadCount(s) \in Nat
           /\ BadCount(s) <= Cost(s, n) /\ Cost(s, n) <= BadCount(s) + 1
           /\ Cardinality(Anomalies(s)) <= BadCount(s) /\ Cardinality(Anomalies(s)) \in Nat
  BY BadFinite, FewerReported DEF Cost, Counted

\* What a line more costs.
LEMMA CostNext ==
    ASSUME NEW s \in Seq(Line), NEW l \in Line, NEW n
    PROVE  /\ Cost(Append(s, l), n)
                = BadCount(s) + Counted(Wrong(l, Expected(s), FALSE)) + Counted(n # Norm(Follow(l, Expected(s))))
           /\ Cost(Append(s, l), n) <= BadCount(s) + 2
           /\ Cardinality(Anomalies(Append(s, l))) <= BadCount(s) + 1
<1>1. PICK t : t = Append(s, l)
  OBVIOUS
<1>2. /\ BadCount(t) = BadCount(s) + Counted(Wrong(l, Expected(s), FALSE))
      /\ Cardinality(Anomalies(t)) = BadCount(s) + Counted(Wrong(l, Expected(s), TRUE))
      /\ BadCount(s) \in Nat
  BY <1>1, BadCounts
<1>3. Expected(t) = Follow(l, Expected(s))
  BY <1>1, ExpectedNext
<1>4. Cost(t, n) = BadCount(s) + Counted(Wrong(l, Expected(s), FALSE)) + Counted(n # Norm(Follow(l, Expected(s))))
  BY <1>2, <1>3 DEF Cost
<1>5. PICK k, a, b, c :
        /\ k = BadCount(s) /\ a = Counted(Wrong(l, Expected(s), FALSE)) /\ b = Counted(n # Norm(Follow(l, Expected(s))))
        /\ c = Counted(Wrong(l, Expected(s), TRUE))
  OBVIOUS
<1>6. k \in Nat /\ a \in {0, 1} /\ b \in {0, 1} /\ c \in {0, 1}
  BY <1>2, <1>5 DEF Counted
<1>7. Cost(t, n) = k + a + b /\ Cardinality(Anomalies(t)) = k + c
  BY <1>2, <1>4, <1>5
<1>8. Cost(t, n) <= k + 2 /\ Cardinality(Anomalies(t)) <= k + 1
  BY <1>6, <1>7
<1>9. QED
  BY <1>1, <1>4, <1>5, <1>8

\* Which lines are wrong: junk always, a record that is not chained from what is expected.
LEMMA WrongLines ==
    ASSUME NEW h
    PROVE  /\ ~Wrong(Piece, h, TRUE) /\ ~Wrong(Junk, h, TRUE)
           /\ \A l \in Line : l.kind = "junk" => Wrong(l, h, FALSE) /\ Follow(l, h) = h
           /\ \A l \in Line : l.kind = "record" => (Wrong(l, h, FALSE) <=> l.prev # Norm(h)) /\ Follow(l, h) = l.id
           /\ \A l \in Line : /\ Wrong(Ended(l), h, FALSE) <=> Wrong(l, h, FALSE)
                              /\ Follow(Ended(l), h) = Follow(l, h)
<1>1. ~Wrong(Piece, h, TRUE) /\ ~Wrong(Junk, h, TRUE)
  BY LinesAre DEF Wrong, StatusOf, Tampering
<1>2. ASSUME NEW l \in Line, l.kind = "junk"
      PROVE  Wrong(l, h, FALSE) /\ Follow(l, h) = h
  BY <1>2 DEF Wrong, StatusOf, Tampering, Follow
<1>3. ASSUME NEW l \in Line, l.kind = "record"
      PROVE  (Wrong(l, h, FALSE) <=> l.prev # Norm(h)) /\ Follow(l, h) = l.id
  <2>1. Follow(l, h) = l.id
    BY <1>3 DEF Follow
  <2>2. CASE h = NoHash
    BY <1>3, <2>1, <2>2 DEF Wrong, StatusOf, Tampering, Norm
  <2>3. CASE h # NoHash
    BY <1>3, <2>1, <2>3 DEF Wrong, StatusOf, Tampering, Norm
  <2>4. QED
    BY <2>2, <2>3
<1>4. ASSUME NEW l \in Line
      PROVE  (Wrong(Ended(l), h, FALSE) <=> Wrong(l, h, FALSE)) /\ Follow(Ended(l), h) = Follow(l, h)
  <2>1. PICK e \in Line : e = Ended(l) /\ e.kind = l.kind /\ e.id = l.id /\ e.prev = l.prev
    BY LinesAre
  <2>2. (Wrong(e, h, FALSE) <=> Wrong(l, h, FALSE)) /\ Follow(e, h) = Follow(l, h)
    BY <2>1 DEF Wrong, StatusOf, Tampering, Follow
  <2>3. QED
    BY <2>1, <2>2
<1>5. QED
  BY <1>1, <1>2, <1>3, <1>4

\* The tail of a file with one line more.
LEMMA TailNext ==
    ASSUME NEW segs, NEW f \in Seq(Line), NEW l \in Line
    PROVE  TailOf(segs, Append(f, l)) = IF l.nl THEN Follow(l, Expected(f)) ELSE Expected(f)
<1>1. PICK c : c = Append(f, l)
  OBVIOUS
<1>8. c \in Seq(Line) /\ c # <<>>
  BY <1>1, AppendParts, LastOf
<1>2. TailOf(segs, c) = Expected(Terminated(c))
  BY <1>8, TailIsExpected DEF TailOf
<1>3. Terminated(c) = IF l.nl THEN Append(f, l) ELSE f
  BY <1>1, TerminatedIs
<1>4. Expected(Append(f, l)) = Follow(l, Expected(f))
  BY ExpectedNext
<1>5. CASE l.nl
  BY <1>1, <1>2, <1>3, <1>4, <1>5
<1>6. CASE ~l.nl
  BY <1>1, <1>2, <1>3, <1>6
<1>7. QED
  BY <1>5, <1>6

\* The ids among lines are those of records that were begun.
Small(s) == \A x : HasId(s, x) => x \in 1 .. MaxRecords

\* Where nothing is expected there is no hashed line.
LEMMA NoneHashed ==
    ASSUME NEW s \in Seq(Line), Small(s), Norm(Expected(s)) = Genesis
    PROVE  \A x : ~HasId(s, x)
<1>1. 0 \notin 1 .. MaxRecords /\ NoHash \notin 1 .. MaxRecords /\ Genesis = 0
  BY SomeConstants
<1>2. Expected(s) = NoHash
  BY <1>1, ExpectedKnown DEF Small, Norm
<1>3. PICK n \in 0 .. Len(s) : n = Len(s)
  <2>1. Len(s) \in 0 .. Len(s)
    OBVIOUS
  <2>2. QED
    BY <2>1
<1>4. Hashes(s)[n] = NoHash
  BY <1>2, <1>3 DEF Expected
<1>5. ASSUME NEW i \in 1 .. n, IsHashed(s[i]), Hashes(s)[n] = s[i].id
      PROVE  FALSE
  <2>1. HasId(s, NoHash)
    BY <1>3, <1>4, <1>5 DEF HasId
  <2>2. QED
    BY <1>1, <2>1 DEF Small
<1>6. \A i \in 1 .. n : ~IsHashed(s[i])
  BY <1>5, HashComes
<1>7. QED
  BY <1>3, <1>6 DEF HasId

\* ... and none in the newest file either.
LEMMA PartExpected ==
    ASSUME NEW segs \in Seq(Files), NEW front \in Seq(Line), NEW l \in Line, \A x : ~HasId(Append(All(segs, front), l), x)
    PROVE  Expected(All(segs, front)) = NoHash /\ Expected(front) = NoHash
<1>1. PICK j, base \in Seq(Line) : j = JoinAll(segs) /\ base = j \o front /\ base = All(segs, front) /\ j \in Seq(Line)
  BY AllIs DEF All
<1>2. \A x : ~HasId(base, x)
  BY <1>1, PartsNext
<1>3. \A x : ~HasId(front, x)
  BY <1>1, <1>2, HasIdJoin
<1>4. QED
  BY <1>1, <1>2, <1>3, ExpectedKnown

LEMMA DoubleIs ==
    ASSUME NEW n \in Nat
    PROVE  2 * n \in Nat /\ 2 * (n + 1) = 2 * n + 2
  OBVIOUS

\* A piece is written: a line is ended or glued to, as was accounted for.
LEMMA SlackBegin ==
    ASSUME NEW segs \in Seq(Files), NEW cur \in Seq(Line), NEW nl \in BOOLEAN, NEW new, NEW wrong \in Nat, NEW p,
           BegunAmong(segs, cur, nl, new), Small(All(segs, cur)), SlackFit(segs, cur, wrong, "ready", nl, p)
    PROVE  SlackFit(segs, new, wrong, "writing", nl, p)
<1>1. PICK d \in Nat : d = 2 * wrong
  BY DoubleIs
<1>2. PICK all \in Seq(Line) : all = All(segs, cur)
  BY AllIs, LinesAre
<1>3. /\ Cost(all, p) + Counted(Open(cur) /\ ~nl) <= d
      /\ Open(cur) /\ ~nl => p = Genesis
  BY <1>1, <1>2 DEF SlackFit
<1>4. Cost(all, p) \in Nat /\ BadCount(all) \in Nat /\ BadCount(all) <= Cost(all, p)
  BY CostIs
<1>5. Cost(all, p) <= d /\ (Open(cur) /\ ~nl => Cost(all, p) + 1 <= d)
  <2>1. CASE Open(cur) /\ ~nl
    BY <1>3, <1>4, <2>1 DEF Counted
  <2>2. CASE ~(Open(cur) /\ ~nl)
    BY <1>3, <1>4, <2>2 DEF Counted
  <2>3. QED
    BY <2>1, <2>2
<1>6. Piece \in Line /\ Junk \in Line /\ Piece # Junk /\ ~Junk.nl
  <2>1. Piece # Junk
    BY LinesAre
  <2>2. QED
    BY <2>1, LinesAre
<1>7. ASSUME NEW front \in Seq(Line), NEW base \in Seq(Line), base = All(segs, front),
             new = Append(front, Piece), All(segs, new) = Append(base, Piece), Cost(base, p) <= d
      PROVE  SlackFit(segs, new, wrong, "writing", nl, p)
  <2>1. Cardinality(Anomalies(All(segs, new))) <= d
    <3>1. Cardinality(Anomalies(Append(base, Piece))) = BadCount(base) + 0
      BY <1>6, BadCounts, WrongLines DEF Counted
    <3>2. BadCount(base) \in Nat /\ BadCount(base) <= Cost(base, p) /\ Cost(base, p) \in Nat
      BY CostIs
    <3>3. QED
      BY <1>7, <3>1, <3>2
  <2>2. ASSUME NEW f \in Seq(Line), new = Append(f, Piece)
        PROVE  f = front
    <3>1. Append(front, Piece) = Append(f, Piece)
      BY <1>7, <2>2
    <3>2. QED
      BY <1>6, <3>1, SameLast
  <2>3. \A f \in Seq(Line) : new # Append(f, Junk)
    BY <1>6, <1>7, SameLast
  <2>4. QED
    BY <1>1, <1>7, <2>1, <2>2, <2>3 DEF SlackFit
<1>8. ASSUME NEW front \in Seq(Line), NEW l \in Line, NEW base \in Seq(Line), base = All(segs, front), cur = Append(front, l),
             all = Append(base, l), ~l.nl, ~nl, new = Append(front, Junk), All(segs, new) = Append(base, Junk)
      PROVE  SlackFit(segs, new, wrong, "writing", nl, p)
  <2>1. Open(cur) /\ p = Genesis /\ Cost(all, Genesis) + 1 <= d
    <3>1. Open(cur)
      BY <1>8, InnerNext
    <3>2. QED
      BY <1>3, <1>5, <1>8, <3>1
  <2>2. PICK n : n = Norm(TailOf(segs, new)) /\ n = Norm(Expected(front))
    BY <1>6, <1>8, TailNext
  <2>3. PICK u, b : u = Append(base, Junk) /\ b = BadCount(base)
    OBVIOUS
  <2>4. u \in Seq(Line) /\ Cost(u, n) = b + 1 + Counted(n # Norm(Expected(base))) /\ b \in Nat
    <3>1. Wrong(Junk, Expected(base), FALSE) /\ Follow(Junk, Expected(base)) = Expected(base)
      <4>1. PICK k \in Line : k = Junk /\ k.kind = "junk"
        BY LinesAre
      <4>2. Wrong(k, Expected(base), FALSE) /\ Follow(k, Expected(base)) = Expected(base)
        BY <4>1, WrongLines
      <4>3. QED
        BY <4>1, <4>2
    <3>2. Cost(u, n) = b + Counted(Wrong(Junk, Expected(base), FALSE)) + Counted(n # Norm(Follow(Junk, Expected(base))))
      BY <1>6, <2>3, CostNext
    <3>3. Counted(Wrong(Junk, Expected(base), FALSE)) = 1
      BY <3>1 DEF Counted
    <3>4. QED
      BY <1>6, <2>3, <3>1, <3>2, <3>3, AppendParts, BadFinite
  <2>5. b <= BadCount(all)
    <3>1. BadCount(all) = b + Counted(Wrong(l, Expected(base), FALSE))
      BY <1>8, <2>3, BadCounts
    <3>2. PICK c \in Nat : c = Counted(Wrong(l, Expected(base), FALSE))
      BY DEF Counted
    <3>3. BadCount(all) = b + c
      BY <3>1, <3>2
    <3>4. PICK k : k = BadCount(all)
      OBVIOUS
    <3>5. b \in Nat /\ k = b + c
      BY <2>4, <3>3, <3>4
    <3>6. b <= k
      BY <3>5
    <3>7. QED
      BY <3>4, <3>6
  <2>6. Cost(u, n) <= d
    <3>1. CASE Norm(Expected(all)) = Genesis
      <4>1. Expected(base) = NoHash /\ Expected(front) = NoHash
        BY <1>2, <1>8, <3>1, NoneHashed, PartExpected
      <4>2. Counted(n # Norm(Expected(base))) = 0
        BY <2>2, <4>1 DEF Counted
      <4>3. QED
        BY <1>4, <2>1, <2>4, <2>5, <4>2, CostIs
    <3>2. CASE Norm(Expected(all)) # Genesis
      <4>1. Cost(all, Genesis) = BadCount(all) + 1
        BY <3>2 DEF Cost, Counted
      <4>2. Counted(n # Norm(Expected(base))) <= 1 /\ Counted(n # Norm(Expected(base))) \in Nat
        BY DEF Counted
      <4>3. QED
        BY SMTT(30), <1>4, <2>1, <2>4, <2>5, <4>1, <4>2
    <3>3. QED
      BY <3>1, <3>2
  <2>7. Cardinality(Anomalies(u)) <= d
    <3>1. Cost(u, n) \in Nat /\ BadCount(u) \in Nat /\ BadCount(u) <= Cost(u, n)
          /\ Cardinality(Anomalies(u)) <= BadCount(u) /\ Cardinality(Anomalies(u)) \in Nat
      BY <2>4, CostIs
    <3>2. QED
      BY <2>6, <3>1
  <2>8. \A f \in Seq(Line) : new # Append(f, Piece)
    BY <1>6, <1>8, SameLast
  <2>9. QED
    BY <1>1, <1>8, <2>2, <2>3, <2>6, <2>7, <2>8 DEF SlackFit
<1>9. CASE ~Open(cur) /\ new = Append(cur, Piece) /\ All(segs, new) = Append(All(segs, cur), Piece)
  BY <1>2, <1>5, <1>7, <1>9
<1>10. ASSUME NEW front \in Seq(Line), NEW l \in Line, NEW base \in Seq(Line), all = Append(base, l),
              Ended(l) \in Line, Append(front, Ended(l)) \in Seq(Line), Append(base, Ended(l)) \in Seq(Line),
              All(segs, Append(front, Ended(l))) = Append(base, Ended(l)),
              new = Append(Append(front, Ended(l)), Piece), All(segs, new) = Append(Append(base, Ended(l)), Piece)
       PROVE  SlackFit(segs, new, wrong, "writing", nl, p)
  <2>1. Cost(Append(base, Ended(l)), p) = Cost(Append(base, l), p)
    <3>1. PICK e \in Line : e = Ended(l)
      BY <1>10
    <3>2. /\ Wrong(e, Expected(base), FALSE) <=> Wrong(l, Expected(base), FALSE)
          /\ Follow(e, Expected(base)) = Follow(l, Expected(base))
      BY <3>1, WrongLines
    <3>3. BadCount(Append(base, e)) = BadCount(Append(base, l))
      BY <3>2, BadCounts DEF Counted
    <3>4. Expected(Append(base, e)) = Expected(Append(base, l))
      BY <3>2, ExpectedNext
    <3>5. QED
      BY <3>1, <3>3, <3>4 DEF Cost
  <2>2. QED
    BY <1>5, <1>7, <1>10, <2>1
<1>11. QED
  BY <1>2, <1>8, <1>9, <1>10 DEF BegunAmong

\* The rest is written: what it costs was counted before.
LEMMA SlackEnd ==
    ASSUME NEW segs \in Seq(Files), NEW cur, NEW id \in Nat, NEW p \in Nat, NEW nl, NEW new, NEW wrong \in Nat, NEW nl2, NEW p2,
           EndsAmong(segs, cur, id, p, TRUE, new), SlackFit(segs, cur, wrong, "writing", nl, p)
    PROVE  SlackFit(segs, new, wrong, "free", nl2, p2)
<1>1. PICK d \in Nat : d = 2 * wrong
  BY DoubleIs
<1>2. PICK front \in Seq(Line), base \in Seq(Line), l \in Line :
              /\ base = All(segs, front) /\ l.nl /\ new = Append(front, l) /\ All(segs, new) = Append(base, l)
              /\ \/ /\ cur = Append(front, Piece) /\ l.kind = "record" /\ l.id = id /\ l.prev = p
                 \/ cur = Append(front, Junk) /\ All(segs, cur) = Append(base, Junk) /\ l.kind = "junk"
  BY DEF EndsAmong
<1>3. PICK u : u = Append(base, l)
  OBVIOUS
<1>4. u \in Seq(Line) /\ u = All(segs, new)
  BY <1>2, <1>3, AppendParts
<1>5. PICK n : n = Norm(TailOf(segs, new))
  OBVIOUS
<1>6. n = Norm(Follow(l, Expected(front)))
  BY <1>2, <1>5, TailNext
<1>7. Cost(u, n) = BadCount(base) + Counted(Wrong(l, Expected(base), FALSE)) + Counted(n # Norm(Follow(l, Expected(base))))
  BY <1>3, CostNext
<1>8. Cost(u, n) <= d
  <2>1. CASE l.kind = "record" /\ cur = Append(front, Piece) /\ l.prev = p
    <3>1. Cost(base, p) <= d
      BY <1>1, <1>2, <2>1 DEF SlackFit
    <3>2. /\ Wrong(l, Expected(base), FALSE) <=> p # Norm(Expected(base))
          /\ Follow(l, Expected(base)) = l.id /\ Follow(l, Expected(front)) = l.id
      BY <2>1, WrongLines
    <3>3. Counted(n # Norm(Follow(l, Expected(base)))) = 0
      BY <1>6, <3>2 DEF Counted
    <3>4. Counted(Wrong(l, Expected(base), FALSE)) = Counted(p # Norm(Expected(base)))
      BY <3>2 DEF Counted
    <3>5. PICK k, c : k = BadCount(base) /\ c = Counted(p # Norm(Expected(base)))
      OBVIOUS
    <3>6. k \in Nat /\ c \in {0, 1}
      BY <3>5, BadFinite DEF Counted
    <3>7. Cost(base, p) = k + c
      BY <3>5 DEF Cost
    <3>8. Cost(u, n) = k + c + 0
      BY <1>7, <3>3, <3>4, <3>5
    <3>9. QED
      BY <3>1, <3>6, <3>7, <3>8
  <2>2. CASE l.kind = "junk" /\ cur = Append(front, Junk) /\ All(segs, cur) = Append(base, Junk)
    <3>1. PICK k \in Line : k = Junk /\ k.kind = "junk" /\ ~k.nl
      BY LinesAre
    <3>2. PICK m : m = Norm(TailOf(segs, cur))
      OBVIOUS
    <3>3. Cost(Append(base, k), m) <= d
      BY <1>1, <1>2, <2>2, <3>1, <3>2 DEF SlackFit
    <3>4. m = Norm(Expected(front))
      BY <1>2, <2>2, <3>1, <3>2, TailNext
    <3>5. /\ Wrong(l, Expected(base), FALSE) /\ Wrong(k, Expected(base), FALSE)
          /\ Follow(l, Expected(base)) = Expected(base) /\ Follow(k, Expected(base)) = Expected(base)
          /\ Follow(l, Expected(front)) = Expected(front)
      BY <2>2, <3>1, WrongLines
    <3>6. Cost(Append(base, k), m)
            = BadCount(base) + Counted(Wrong(k, Expected(base), FALSE)) + Counted(m # Norm(Follow(k, Expected(base))))
      BY CostNext
    <3>7. m = n
      BY <1>6, <3>4, <3>5
    <3>8. Counted(Wrong(k, Expected(base), FALSE)) = Counted(Wrong(l, Expected(base), FALSE))
      BY <3>5 DEF Counted
    <3>9. Cost(Append(base, k), m) = Cost(u, n)
      BY <1>7, <3>5, <3>6, <3>7, <3>8
    <3>10. QED
      BY <3>3, <3>9
  <2>3. QED
    BY <1>2, <2>1, <2>2
<1>9. Cardinality(Anomalies(u)) <= d
  <2>1. Cost(u, n) \in Nat /\ BadCount(u) \in Nat /\ BadCount(u) <= Cost(u, n)
        /\ Cardinality(Anomalies(u)) <= BadCount(u) /\ Cardinality(Anomalies(u)) \in Nat
    BY <1>4, CostIs
  <2>2. QED
    BY <1>8, <2>1
<1>10. QED
  BY <1>1, <1>4, <1>5, <1>8, <1>9 DEF SlackFit

\* A fault while a line is written makes up for what is there instead.
LEMMA SlackCut ==
    ASSUME NEW segs \in Seq(Files), NEW cur, NEW new, NEW wrong \in Nat, NEW nl, NEW p, NEW nl2, NEW p2,
           NEW front \in Seq(Line), NEW k \in {Piece, Junk}, cur = Append(front, k), NEW l \in Line, new = Append(front, l),
           SlackFit(segs, cur, wrong, "writing", nl, p)
    PROVE  SlackFit(segs, new, wrong + 1, "free", nl2, p2)
<1>1. PICK d \in Nat : d = 2 * wrong /\ d + 2 = 2 * (wrong + 1)
  BY DoubleIs
<1>2. PICK base \in Seq(Line) : base = All(segs, front)
  BY AllIs, LinesAre
<1>3. All(segs, new) = Append(base, l)
  BY <1>2, AllIs
<1>4. BadCount(base) <= d
  <2>1. CASE k = Piece
    <3>1. Cost(base, p) <= d
      BY <1>1, <1>2, <2>1 DEF SlackFit
    <3>2. Cost(base, p) \in Nat /\ BadCount(base) \in Nat /\ BadCount(base) <= Cost(base, p)
      BY CostIs
    <3>3. QED
      BY <3>1, <3>2
  <2>2. CASE k = Junk
    <3>1. PICK m, u : m = Norm(TailOf(segs, cur)) /\ u = Append(base, Junk)
      OBVIOUS
    <3>2. All(segs, cur) = u /\ u \in Seq(Line)
      BY <1>2, <2>2, <3>1, AllIs, LinesAre, AppendParts
    <3>3. Cost(u, m) <= d
      BY <1>1, <2>2, <3>1, <3>2 DEF SlackFit
    <3>4. Cost(u, m) \in Nat /\ BadCount(u) \in Nat /\ BadCount(u) <= Cost(u, m)
      BY <3>2, CostIs
    <3>5. BadCount(base) \in Nat /\ BadCount(base) <= BadCount(u)
      <4>1. PICK b, c, a : b = BadCount(base) /\ a = BadCount(u) /\ c = Counted(Wrong(Junk, Expected(base), FALSE))
        OBVIOUS
      <4>2. a = b + c
        <5>1. Junk \in Line
          BY LinesAre
        <5>2. BadCount(Append(base, Junk)) = BadCount(base) + Counted(Wrong(Junk, Expected(base), FALSE))
          BY <1>2, <5>1, BadCounts
        <5>3. QED
          BY <3>1, <4>1, <5>2
      <4>3. b \in Nat /\ c \in {0, 1}
        BY <4>1, BadFinite DEF Counted
      <4>4. b <= a
        BY <4>2, <4>3
      <4>5. QED
        BY <4>1, <4>3, <4>4
    <3>6. QED
      BY <3>3, <3>4, <3>5
  <2>3. QED
    BY <2>1, <2>2
<1>5. PICK u, n : u = Append(base, l) /\ n = Norm(TailOf(segs, new))
  OBVIOUS
<1>6. Cost(u, n) <= BadCount(base) + 2 /\ Cardinality(Anomalies(u)) <= BadCount(base) + 1 /\ u \in Seq(Line)
  BY <1>5, CostNext, AppendParts
<1>7. Cost(u, n) \in Nat /\ Cardinality(Anomalies(u)) \in Nat /\ BadCount(base) \in Nat
  BY <1>6, CostIs, BadFinite
<1>8. Cost(u, n) <= d + 2 /\ Cardinality(Anomalies(u)) <= d + 2
  BY <1>4, <1>6, <1>7
<1>9. QED
  BY <1>1, <1>3, <1>5, <1>8 DEF SlackFit

\* Before the line is written nothing is spoiled that a fault would not pay for.
LEMMA SlackPaid ==
    ASSUME NEW segs \in Seq(Files), NEW cur \in Seq(Line), NEW wrong \in Nat, NEW stage \in {"free", "locked", "read", "ready"},
           NEW nl, NEW p, NEW stage2 \in {"free", "read", "ready"}, NEW nl2, NEW p2,
           SlackFit(segs, cur, wrong, stage, nl, p),
           stage2 # "free" => (Open(cur) /\ ~nl2 => p2 = Genesis)
    PROVE  SlackFit(segs, cur, wrong + 1, stage2, nl2, p2)
<1>1. PICK d \in Nat : d = 2 * wrong /\ d + 2 = 2 * (wrong + 1)
  BY DoubleIs
<1>2. PICK all \in Seq(Line) : all = All(segs, cur)
  BY AllIs, LinesAre
<1>3. BadCount(all) <= d
  <2>1. CASE stage \in {"free", "locked"}
    <3>1. PICK n : n = Norm(TailOf(segs, cur))
      OBVIOUS
    <3>2. Cost(all, n) <= d
      BY <1>1, <1>2, <2>1, <3>1 DEF SlackFit
    <3>3. Cost(all, n) \in Nat /\ BadCount(all) \in Nat /\ BadCount(all) <= Cost(all, n)
      BY CostIs
    <3>4. QED
      BY <3>2, <3>3
  <2>2. CASE stage \in {"read", "ready"}
    <3>1. PICK c : c = Counted(Open(cur) /\ ~nl)
      OBVIOUS
    <3>2. Cost(all, p) + c <= d
      BY <1>1, <1>2, <2>2, <3>1 DEF SlackFit
    <3>3. Cost(all, p) \in Nat /\ BadCount(all) \in Nat /\ BadCount(all) <= Cost(all, p)
      BY CostIs
    <3>4. c \in Nat
      BY <3>1 DEF Counted
    <3>5. QED
      BY <3>2, <3>3, <3>4
  <2>3. QED
    BY <2>1, <2>2
<1>4. \A n : Cost(all, n) <= d + 1 /\ Cost(all, n) \in Nat
  <2>1. ASSUME NEW n
        PROVE  Cost(all, n) <= d + 1 /\ Cost(all, n) \in Nat
    <3>1. Cost(all, n) \in Nat /\ BadCount(all) \in Nat /\ Cost(all, n) <= BadCount(all) + 1
      BY CostIs
    <3>2. QED
      BY <1>3, <3>1
  <2>2. QED
    BY <2>1
<1>5. Cardinality(Anomalies(all)) <= d + 2
  <2>1. BadCount(all) \in Nat /\ Cardinality(Anomalies(all)) <= BadCount(all) /\ Cardinality(Anomalies(all)) \in Nat
    BY CostIs
  <2>2. QED
    BY <1>3, <2>1
<1>6. PICK c \in {0, 1} : c = Counted(Open(cur) /\ ~nl2)
  BY DEF Counted
<1>7. \A n : Cost(all, n) <= d + 2 /\ Cost(all, n) + c <= d + 2
  BY <1>4, <1>6
<1>8. QED
  BY <1>1, <1>2, <1>5, <1>6, <1>7 DEF SlackFit

\* The tail is read: the next record is chained from what the tail says.
LEMMA SlackRead ==
    ASSUME NEW segs \in Seq(Files), NEW cur \in Seq(Line), NEW wrong \in Nat, NEW nl, NEW p, NEW nl2,
           SlackFit(segs, cur, wrong, "locked", nl, p), Open(cur) => nl2
    PROVE  SlackFit(segs, cur, wrong, "read", nl2, Norm(TailOf(segs, cur)))
<1>1. PICK all \in Seq(Line) : all = All(segs, cur)
  BY AllIs, LinesAre
<1>2. PICK n, d : n = Norm(TailOf(segs, cur)) /\ d = 2 * wrong
  OBVIOUS
<1>3. Cost(all, n) <= d /\ Cardinality(Anomalies(all)) <= d
  BY <1>1, <1>2 DEF SlackFit
<1>4. PICK c : c = Counted(Open(cur) /\ ~nl2)
  OBVIOUS
<1>5. c = 0
  BY <1>4 DEF Counted
<1>6. Cost(all, n) + c <= d
  BY <1>3, <1>5, CostIs
<1>7. QED
  BY <1>1, <1>2, <1>3, <1>4, <1>6 DEF SlackFit

\* The same lines, in the same files or in rotated ones.
LEMMA SlackReady ==
    ASSUME NEW segs, NEW cur, NEW wrong \in Nat, NEW nl, NEW p, NEW segs2, NEW cur2, NEW nl2,
           SlackFit(segs, cur, wrong, "read", nl, p), All(segs2, cur2) = All(segs, cur), All(segs, cur) \in Seq(Line),
           \/ Open(cur2) /\ ~nl2 <=> Open(cur) /\ ~nl
           \/ ~Open(cur2)
    PROVE  SlackFit(segs2, cur2, wrong, "ready", nl2, p)
<1>1. PICK d \in Nat : d = 2 * wrong
  BY DoubleIs
<1>2. PICK all \in Seq(Line) : all = All(segs, cur)
  OBVIOUS
<1>3. PICK c, c2 : c = Counted(Open(cur) /\ ~nl) /\ c2 = Counted(Open(cur2) /\ ~nl2)
  OBVIOUS
<1>4. Cost(all, p) + c <= d /\ Cardinality(Anomalies(all)) <= d /\ (Open(cur) /\ ~nl => p = Genesis)
  BY <1>1, <1>2, <1>3 DEF SlackFit
<1>5. c \in {0, 1} /\ c2 \in {0, 1} /\ c2 <= c
  BY <1>3 DEF Counted
<1>6. Cost(all, p) \in Nat
  BY CostIs
<1>7. Cost(all, p) + c2 <= d
  BY <1>4, <1>5, <1>6
<1>8. QED
  BY <1>1, <1>2, <1>3, <1>4, <1>7 DEF SlackFit

\* Each step of a writer keeps the account, a fault paying for two lines.
LEMMA SlackStep ==
    ASSUME TypeOK, ShapeOK, IdsOK, SlackOK, NEW w \in Writers, Begin(w) \/ Steps(w) \/ Stall(w)
    PROVE  SlackOK'
<1> SUFFICES ASSUME edits' = 0 PROVE SlackFit(segments', current', faults', Stage', needsNl'[lock'], prev'[lock'])
  BY DEF SlackOK
<1>1. edits = 0 /\ faults \in Nat
  BY CountsStep, EnvFits DEF TypeOK
<1>2. /\ segments \in Seq(Files) /\ current \in Seq(Line) /\ prev \in [Writers -> Nat] /\ mine \in [Writers -> Nat]
      /\ needsNl \in [Writers -> BOOLEAN]
  BY FilesFit DEF FilesOK, Files, TypeOK
<1>3. PICK nl, p : nl = needsNl[lock] /\ p = prev[lock]
  OBVIOUS
<1>4. SlackFit(segments, current, faults, Stage, nl, p)
  BY <1>1, <1>3 DEF SlackOK
<1>5. CASE Begin(w) \/ TimeOut(w)
  <2>1. segments' = segments /\ current' = current /\ prev' = prev /\ needsNl' = needsNl /\ faults' = faults
    BY <1>5 DEF Begin, TimeOut, disk
  <2>2. Stage' = Stage /\ lock' = lock
    BY <1>5, StageMoves
  <2>3. QED
    BY <1>3, <1>4, <2>1, <2>2
<1>6. CASE Acquire(w)
  <2>1. segments' = segments /\ current' = current /\ faults' = faults
    BY <1>6 DEF Acquire, disk
  <2>2. Stage = "free" /\ Stage' = "locked"
    BY <1>6, StageMoves
  <2>3. QED
    BY <1>4, <2>1, <2>2 DEF SlackFit
<1>7. CASE Stall(w)
  <2>1. segments' = segments /\ current' = current /\ faults' = faults
    BY <1>7 DEF Stall, disk
  <2>2. Stage' = "hung"
    BY <1>7, StageMoves
  <2>3. QED
    BY <1>4, <2>1, <2>2 DEF SlackFit
<1>8. CASE Abandon(w)
  <2>1. segments' = segments /\ current' = current /\ faults' = faults + 1
    BY <1>8 DEF Abandon, disk, Faulty
  <2>2. Stage \in {"locked", "read", "ready"} /\ Stage' = "free"
    BY <1>8, StageMoves
  <2>3. PICK nl2, p2, stage : nl2 = needsNl'[lock'] /\ p2 = prev'[lock'] /\ stage = Stage
    OBVIOUS
  <2>4. SlackFit(segments, current, faults + 1, "free", nl2, p2)
    BY <1>1, <1>2, <1>4, <2>2, <2>3, SlackPaid
  <2>5. QED
    BY <2>1, <2>2, <2>3, <2>4
<1>9. ASSUME NEW b \in BOOLEAN, ReadTail(w, b)
      PROVE  SlackFit(segments', current', faults', Stage', needsNl'[lock'], prev'[lock'])
  <2>1. segments' = segments /\ current' = current /\ faults' = faults + (IF b THEN 0 ELSE 1)
    BY <1>9 DEF ReadTail, disk, Faulty
  <2>2. Stage = "locked" /\ Stage' = "read" /\ lock' = w
    BY <1>9, StageMoves
  <2>3. PICK nl2, p2 : nl2 = needsNl'[w] /\ p2 = prev'[w]
    OBVIOUS
  <2>4. CASE b
    <3>1. p2 = Norm(TailOf(segments, current))
      BY <1>2, <1>9, <2>3, <2>4, AllLinesAre DEF ReadTail, Norm
    <3>2. Open(current) => nl2
      BY <1>2, <1>9, <2>3, <2>4 DEF ReadTail, NeedsNewline, Open
    <3>3. SlackFit(segments, current, faults, "locked", nl, p)
      BY <1>4, <2>2
    <3>4. SlackFit(segments, current, faults, "read", nl2, p2)
      BY <1>1, <1>2, <3>1, <3>2, <3>3, SlackRead
    <3>5. faults' = faults
      BY <1>1, <2>1, <2>4
    <3>6. QED
      BY <2>1, <2>2, <2>3, <3>4, <3>5
  <2>5. CASE ~b
    <3>1. p2 = Genesis
      BY <1>2, <1>9, <2>3, <2>5 DEF ReadTail
    <3>2. SlackFit(segments, current, faults, "locked", nl, p)
      BY <1>4, <2>2
    <3>3. SlackFit(segments, current, faults + 1, "read", nl2, p2)
      BY <1>1, <1>2, <3>1, <3>2, SlackPaid
    <3>4. faults' = faults + 1
      BY <2>1, <2>5
    <3>5. QED
      BY <2>1, <2>2, <2>3, <3>3, <3>4
  <2>6. QED
    BY <2>4, <2>5
<1>10. ASSUME NEW b \in BOOLEAN, Rotate(w, b)
       PROVE  SlackFit(segments', current', faults', Stage', needsNl'[lock'], prev'[lock'])
  <2>1. Stage = "read" /\ Stage' = "ready" /\ lock = w /\ lock' = w /\ prev'[w] = p
    BY <1>3, <1>10, StageMoves DEF Rotate
  <2>2. PICK nl2 : nl2 = needsNl'[w]
    OBVIOUS
  <2>3. SlackFit(segments, current, faults, "read", nl, p)
    BY <1>4, <2>1
  <2>4. faults' = faults + (IF b THEN 0 ELSE 1)
    BY <1>10 DEF Rotate, Faulty
  <2>5. CASE b /\ Len(current) >= MaxLines
    <3>1. segments' = Append(segments, current) /\ current' = <<>> /\ faults' = faults
      BY <1>1, <1>10, <2>4, <2>5 DEF Rotate, Rotated
    <3>2. All(Append(segments, current), <<>>) = All(segments, current) /\ All(segments, current) \in Seq(Line)
      BY <1>2, AllIs, LinesAre
    <3>3. ~Open(<<>>)
      BY DEF Open
    <3>4. PICK segs2, cur2 : segs2 = Append(segments, current) /\ cur2 = <<>>
      OBVIOUS
    <3>5. SlackFit(segs2, cur2, faults, "ready", nl2, p)
      BY <1>1, <2>3, <3>2, <3>3, <3>4, SlackReady
    <3>6. QED
      BY <2>1, <2>2, <3>1, <3>4, <3>5
  <2>6. CASE ~(b /\ Len(current) >= MaxLines)
    <3>1. segments' = segments /\ current' = current /\ needsNl' = [needsNl EXCEPT ![w] = @ /\ exists]
      BY <1>10, <2>6 DEF Rotate, disk
    <3>2. Open(current) => exists
      BY DEF ShapeOK, Open
    <3>3. nl2 = (nl /\ exists) /\ nl \in BOOLEAN /\ exists \in BOOLEAN
      BY <1>2, <1>3, <2>1, <2>2, <3>1, ExistsTyped
    <3>4. Open(current) /\ ~nl2 <=> Open(current) /\ ~nl
      BY <3>2, <3>3
    <3>5. CASE b
      <4>1. All(segments, current) \in Seq(Line)
        BY <1>2, AllIs, LinesAre
      <4>2. SlackFit(segments, current, faults, "ready", nl2, p)
        BY <1>1, <2>3, <3>4, <4>1, SlackReady
      <4>3. faults' = faults
        BY <1>1, <2>4, <3>5
      <4>4. QED
        BY <2>1, <2>2, <3>1, <4>2, <4>3
    <3>6. CASE ~b
      <4>1. Open(current) /\ ~nl => p = Genesis
        BY <2>3 DEF SlackFit
      <4>2. SlackFit(segments, current, faults + 1, "ready", nl2, p)
        BY <1>1, <1>2, <2>3, <3>4, <4>1, SlackPaid
      <4>3. faults' = faults + 1
        BY <2>4, <3>6
      <4>4. QED
        BY <2>1, <2>2, <3>1, <4>2, <4>3
    <3>7. QED
      BY <3>5, <3>6
  <2>7. QED
    BY <2>5, <2>6
<1>11. CASE WritePiece(w)
  <2>1. /\ Begun(current, needsNl[w], current') /\ needsNl[w] \in BOOLEAN
        /\ segments' = segments /\ lock = w /\ lock' = w /\ Stage = "ready" /\ Stage' = "writing"
        /\ faults' = faults /\ UNCHANGED <<mine, prev, needsNl, nextId>>
    BY <1>11, PieceIs
  <2>2. PICK new : new = current'
    OBVIOUS
  <2>3. Begun(current, nl, new) /\ nl \in BOOLEAN
    BY <1>3, <2>1, <2>2
  <2>4. BegunAmong(segments, current, nl, new)
    BY <1>2, <2>3, BegunIs, Zenon
  <2>5. Small(All(segments, current))
    <3>1. nextId \in 1 .. NoHash /\ NoHash = MaxRecords + 1 /\ MaxRecords \in Nat
      BY SomeConstants DEF TypeOK
    <3>2. \A x : x \in 1 .. nextId - 1 => x \in 1 .. MaxRecords
      BY <3>1
    <3>3. QED
      BY <1>1, <3>2 DEF IdsOK, IdsFit, Small
  <2>6. SlackFit(segments, current, faults, "ready", nl, p)
    BY <1>4, <2>1
  <2>7. SlackFit(segments, new, faults, "writing", nl, p)
    BY <1>1, <1>2, <2>3, <2>4, <2>5, <2>6, SlackBegin, Zenon
  <2>8. QED
    BY <1>3, <2>1, <2>2, <2>7
<1>12. CASE WriteRest(w) \/ \E b \in BOOLEAN : WriteCut(w, b)
  <2>1. /\ WriteRest(w) => Ends(current, mine[w], prev[w], TRUE, current') /\ faults' = faults
        /\ (\E b \in BOOLEAN : WriteCut(w, b)) =>
                 (current' = current \/ Ends(current, mine[w], prev[w], FALSE, current')) /\ faults' = faults + 1
        /\ segments' = segments /\ lock = w /\ Stage = "writing" /\ Stage' = "free"
        /\ mine[w] \in Nat /\ prev[w] \in Nat
    BY <1>12, RestIs
  <2>2. PICK new, nl2, p2, m : new = current' /\ nl2 = needsNl'[lock'] /\ p2 = prev'[lock'] /\ m = mine[w]
    OBVIOUS
  <2>3. SlackFit(segments, current, faults, "writing", nl, p) /\ p = prev[w] /\ p \in Nat /\ m \in Nat
    BY <1>3, <1>4, <2>1, <2>2
  <2>4. CASE Ends(current, m, p, TRUE, new) /\ faults' = faults
    <3>1. Ends(current, m, p, TRUE, new)
      BY <2>4
    <3>2. TRUE \in BOOLEAN
      OBVIOUS
    <3>3. EndsAmong(segments, current, m, p, TRUE, new)
      BY <1>2, <2>3, <3>1, <3>2, EndsAre, Zenon
    <3>4. SlackFit(segments, new, faults, "free", nl2, p2)
      BY <1>1, <1>2, <2>3, <3>3, SlackEnd, Zenon
    <3>5. QED
      BY <2>1, <2>2, <2>4, <3>4
  <2>5. CASE (new = current \/ Ends(current, m, p, FALSE, new)) /\ faults' = faults + 1
    <3>1. PICK front \in Seq(Line), k \in {Piece, Junk}, l \in Line : current = Append(front, k) /\ new = Append(front, l)
      <4>1. CASE new = current
        <5>1. PICK front \in Seq(Line) : current \in {Append(front, Piece), Append(front, Junk)}
          BY <2>1 DEF ShapeOK
        <5>2. QED
          BY <4>1, <5>1, LinesAre
      <4>2. CASE Ends(current, m, p, FALSE, new)
        <5>1. FALSE \in BOOLEAN
          OBVIOUS
        <5>2. EndsAmong(segments, current, m, p, FALSE, new)
          BY <1>2, <2>3, <4>2, <5>1, EndsAre, Zenon
        <5>3. QED
          BY <5>2 DEF EndsAmong
      <4>3. QED
        BY <2>5, <4>1, <4>2
    <3>2. SlackFit(segments, new, faults + 1, "free", nl2, p2)
      BY <1>1, <1>2, <2>3, <3>1, SlackCut
    <3>3. QED
      BY <2>1, <2>2, <2>5, <3>2
  <2>6. QED
    BY <1>12, <2>1, <2>2, <2>3, <2>4, <2>5
<1>13. QED
  BY <1>5, <1>6, <1>7, <1>8, <1>9, <1>10, <1>11, <1>12 DEF Steps

-----------------------------------------------------------------------------
(* What the reader has read, and what an edit leaves behind.               *)

\* What was listed and read stays what it was, unless the file is rotated.
\* A file only grows, and of what was there only a last line without its
\* newline changes.
Grown(cur, new) ==
    /\ Len(cur) <= Len(new)
    /\ \A i \in 1 .. Len(cur) : i < Len(cur) \/ cur[i].nl => new[i] = cur[i]

LEMMA GrownBy ==
    ASSUME NEW front \in Seq(Line), NEW l \in Line, NEW x \in Line, NEW y \in Line
    PROVE  /\ Grown(front, front) /\ Grown(front, Append(front, x))
           /\ ~l.nl => Grown(Append(front, l), Append(front, x))
           /\ ~l.nl => Grown(Append(front, l), Append(Append(front, x), y))
<1>1. PICK n \in Nat : n = Len(front)
  OBVIOUS
<1>2. PICK c, d, e : c = Append(front, l) /\ d = Append(front, x) /\ e = Append(d, y)
  OBVIOUS
<1>3. /\ c \in Seq(Line) /\ Len(c) = n + 1 /\ c[n + 1] = l /\ \A i \in 1 .. n : c[i] = front[i]
      /\ d \in Seq(Line) /\ Len(d) = n + 1 /\ \A i \in 1 .. n : d[i] = front[i]
  BY <1>1, <1>2, AppendParts
<1>4. Len(e) = n + 2 /\ \A i \in 1 .. n + 1 : e[i] = d[i]
  BY <1>2, <1>3, AppendParts
<1>5. Grown(front, front) /\ Grown(front, d)
  BY <1>1, <1>3 DEF Grown
<1>6. ASSUME ~l.nl
      PROVE  Grown(c, d) /\ Grown(c, e)
  <2>1. ASSUME NEW i \in 1 .. n + 1, i < n + 1 \/ c[i].nl
        PROVE  d[i] = c[i] /\ e[i] = c[i]
    <3>1. i # n + 1
      BY <1>3, <1>6, <2>1
    <3>2. i \in 1 .. n /\ i \in 1 .. n + 1
      BY <3>1
    <3>3. QED
      BY <1>3, <1>4, <3>2
  <2>2. n + 1 <= Len(d) /\ n + 1 <= Len(e)
    BY <1>3, <1>4, AppendParts, <1>2, <1>1
  <2>3. Len(c) = n + 1
    BY <1>3
  <2>4. QED
    BY <2>1, <2>2, <2>3 DEF Grown
<1>7. QED
  BY <1>2, <1>5, <1>6

\* A step of a writer lets the files grow, or rotates.
LEMMA FilesRemain ==
    ASSUME TypeOK, ShapeOK, NEW w \in Writers, Begin(w) \/ Steps(w) \/ Stall(w)
    PROVE  \/ /\ segments' = segments /\ moved' = moved /\ Grown(current, current')
              /\ exists' = exists \/ current' # <<>>
           \/ /\ segments' = Append(segments, current) /\ current' = <<>> /\ ~exists' /\ current # <<>>
              /\ moved' = (moved \/ reader.pc \in {"reading", "path"})
<1> USE DEF reading
<1>1. current \in Seq(Line) /\ Piece \in Line /\ Junk \in Line /\ ~Piece.nl /\ ~Junk.nl
  BY LinesAre DEF TypeOK
<1>2. CASE UNCHANGED disk /\ moved' = moved
  BY <1>1, <1>2, GrownBy DEF disk
<1>3. CASE WritePiece(w)
  <2>1. Begun(current, needsNl[w], current') /\ segments' = segments /\ moved' = moved
    BY <1>3, PieceIs DEF WritePiece
  <2>2. CASE current' = Append(current, Piece)
    <3>1. Grown(current, Append(current, Piece)) /\ Append(current, Piece) # <<>>
      BY <1>1, GrownBy, LastOf
    <3>2. QED
      BY <2>1, <2>2, <3>1
  <2>3. ASSUME NEW front \in Seq(Line), NEW l \in Line, current = Append(front, l), ~l.nl,
               current' = Append(Append(front, Ended(l)), Piece) \/ current' = Append(front, Junk)
        PROVE  Grown(current, current') /\ current' # <<>>
    <3>1. PICK e \in Line : e = Ended(l)
      BY LinesAre
    <3>2. Grown(current, Append(Append(front, e), Piece)) /\ Grown(current, Append(front, Junk))
      BY <1>1, <2>3, GrownBy
    <3>3. Append(front, e) \in Seq(Line)
      BY AppendParts
    <3>4. Append(Append(front, e), Piece) # <<>> /\ Append(front, Junk) # <<>>
      BY <1>1, <3>3, LastOf
    <3>5. QED
      BY <2>3, <3>1, <3>2, <3>4
  <2>4. QED
    BY <2>1, <2>2, <2>3 DEF Begun
<1>4. CASE WriteRest(w) \/ \E b \in BOOLEAN : WriteCut(w, b)
  <2>1. segments' = segments /\ moved' = moved /\ exists' = exists /\ mine[w] \in Nat /\ prev[w] \in Nat
    BY <1>4, RestIs DEF WriteRest, WriteCut
  <2>2. current' = current \/ \E nl \in BOOLEAN : Ends(current, mine[w], prev[w], nl, current')
    BY <1>4, RestIs
  <2>3. ASSUME NEW nl \in BOOLEAN, NEW front \in Seq(Line),
               \/ current = Append(front, Piece) /\ current' = Append(front, RecordLine(mine[w], prev[w], nl))
               \/ current = Append(front, Junk) /\ current' = Append(front, [Junk EXCEPT !.nl = nl])
        PROVE  Grown(current, current')
    <3>1. PICK r \in Line, j \in Line : r = RecordLine(mine[w], prev[w], nl) /\ j = [Junk EXCEPT !.nl = nl]
      BY <2>1, LinesAre
    <3>2. Grown(Append(front, Piece), Append(front, r)) /\ Grown(Append(front, Junk), Append(front, j))
      BY <1>1, GrownBy
    <3>3. QED
      BY <2>3, <3>1, <3>2
  <2>4. Grown(current, current')
    BY <1>1, <2>2, <2>3, GrownBy DEF Ends
  <2>5. QED
    BY <2>1, <2>4
<1>5. ASSUME NEW b \in BOOLEAN, Rotate(w, b), ~(UNCHANGED disk /\ moved' = moved)
      PROVE  /\ segments' = Append(segments, current) /\ current' = <<>> /\ ~exists' /\ current # <<>>
             /\ moved' = (moved \/ reader.pc \in {"reading", "path"})
  <2>1. /\ segments' = Append(segments, current) /\ current' = <<>> /\ exists' = FALSE /\ Len(current) >= MaxLines
        /\ moved' = (moved \/ reader.pc \in {"reading", "path"})
    BY <1>5 DEF Rotate, Rotated
  <2>2. current # <<>>
    BY <1>1, <2>1, SomeConstants
  <2>3. QED
    BY <2>1, <2>2
<1>6. QED
  BY <1>2, <1>3, <1>4, <1>5 DEF Steps, Begin, Acquire, TimeOut, ReadTail, Abandon, Stall

\* What stands where in the file that is open and among all lines.
LEMMA PlacedIs ==
    ASSUME NEW segs \in Seq(Files), NEW cur \in Seq(Line), NEW file \in 1 .. Len(segs) + 1, NEW older \in Nat,
           Placed(segs, cur, file, older), NEW f, f = IF file <= Len(segs) THEN segs[file] ELSE cur
    PROVE  /\ f \in Seq(Line) /\ f # <<>> /\ older + Len(f) <= Len(All(segs, cur))
           /\ \A j \in 1 .. Len(f) : All(segs, cur)[older + j] = f[j]
<1>1. PICK s \in Seq(Line) : s = JoinAll(segs)
  BY JoinAllIs DEF Files
<1>2. PICK u : u = s \o cur
  OBVIOUS
<1>3. All(segs, cur) = u /\ u \in Seq(Line) /\ Len(u) = Len(s) + Len(cur) /\ Len(s) \in Nat /\ Len(cur) \in Nat
  BY <1>1, <1>2 DEF All
<1>4. (\A i \in 1 .. Len(s) : u[i] = s[i]) /\ \A j \in 1 .. Len(cur) : u[Len(s) + j] = cur[j]
  BY <1>2, Joining, LinesAre
<1>5. CASE file = Len(segs) + 1
  <2>1. f = cur /\ older = Len(s) /\ cur # <<>>
    BY <1>1, <1>5 DEF Placed
  <2>2. f \in Seq(Line) /\ f # <<>> /\ older + Len(f) <= Len(u)
    BY <1>3, <2>1
  <2>3. \A j \in 1 .. Len(f) : u[older + j] = f[j]
    BY <1>4, <2>1
  <2>4. QED
    BY <1>3, <2>2, <2>3
<1>6. CASE file # Len(segs) + 1
  <2>1. file <= Len(segs) /\ file \in 1 .. Len(segs)
    BY <1>6
  <2>2. f = segs[file] /\ f # <<>> /\ older + Len(f) <= Len(s) /\ \A j \in 1 .. Len(f) : s[older + j] = f[j]
    BY <1>1, <1>6, <2>1 DEF Placed
  <2>3. f \in Seq(Line) /\ Len(f) \in Nat
    BY <2>1, <2>2 DEF Files
  <2>4. ASSUME NEW j \in 1 .. Len(f)
        PROVE  u[older + j] = f[j]
    <3>1. older + j \in 1 .. Len(s)
      BY <1>3, <2>2, <2>3
    <3>2. QED
      BY <1>4, <2>2, <3>1
  <2>5. QED
    BY <1>3, <2>2, <2>3, <2>4
<1>7. QED
  BY <1>5, <1>6

\* It stays there when the files grow, and when they are rotated.
LEMMA PlacedStays ==
    ASSUME NEW segs \in Seq(Files), NEW cur \in Seq(Line), NEW new \in Seq(Line),
           NEW file \in 1 .. Len(segs) + 1, NEW older \in Nat, Placed(segs, cur, file, older)
    PROVE  /\ Grown(cur, new) => Placed(segs, new, file, older)
           /\ Placed(Append(segs, cur), <<>>, file, older)
<1>1. PICK n \in Nat : n = Len(segs)
  OBVIOUS
<1>2. PICK s \in Seq(Line) : s = JoinAll(segs)
  BY JoinAllIs DEF Files
<1>3. PICK more : more = Append(segs, cur)
  OBVIOUS
<1>4. Len(more) = n + 1 /\ more[n + 1] = cur /\ \A i \in 1 .. n : more[i] = segs[i]
  BY <1>1, <1>3, AppendParts DEF Files
<1>5. PICK u : u = s \o cur
  OBVIOUS
<1>6. JoinAll(more) = u
  BY <1>2, <1>3, <1>5, JoinAllIs DEF Files
<1>7. ASSUME Grown(cur, new)
      PROVE  Placed(segs, new, file, older)
  <2>1. cur # <<>> => new # <<>>
    BY <1>7 DEF Grown
  <2>2. QED
    BY <2>1 DEF Placed
<1>8. Placed(more, <<>>, file, older)
  <2>1. PICK f \in Seq(Line) : f = IF file <= n THEN segs[file] ELSE cur
    BY <1>1 DEF Files
  <2>2. f # <<>> /\ older + Len(f) <= Len(u) /\ \A j \in 1 .. Len(f) : u[older + j] = f[j]
    <3>1. f = IF file <= Len(segs) THEN segs[file] ELSE cur
      BY <1>1, <2>1
    <3>2. f # <<>> /\ older + Len(f) <= Len(All(segs, cur))
          /\ \A j \in 1 .. Len(f) : All(segs, cur)[older + j] = f[j]
      BY SMTT(40), <3>1, PlacedIs
    <3>3. All(segs, cur) = u
      BY <1>2, <1>5 DEF All
    <3>4. QED
      BY <3>2, <3>3
  <2>3. more[file] = f /\ file # Len(more) + 1
    <3>1. CASE file \in 1 .. n
      BY <1>1, <1>4, <2>1, <3>1
    <3>2. CASE file = n + 1
      BY <1>1, <1>4, <2>1, <3>2
    <3>3. QED
      BY <1>1, <3>1, <3>2
  <2>4. QED
    BY <1>6, <2>2, <2>3 DEF Placed
<1>9. QED
  BY <1>3, <1>7, <1>8

\* What was read is still there when the files have grown.
LEMMA FollowsStays ==
    ASSUME NEW all \in Seq(Line), NEW more \in Seq(Line), Grown(all, more), NEW r \in Readers, Follows(all, r),
           r.older < Len(all), r.older + r.at <= Len(all)
    PROVE  Follows(more, r)
<1>1. PICK m, k \in Nat : m = r.older + r.at /\ k = r.older /\ m \in Nat
  BY DEF Readers
<1>2. /\ Len(r.lines) = m /\ (~r.part.nl => r.lines[m] = r.part)
      /\ \A i \in 1 .. m : i < m \/ r.part.nl => all[i] \in {r.lines[i], Ended(r.lines[i])} /\ (i > k => all[i].nl)
  BY <1>1 DEF Follows
<1>3. ASSUME NEW i \in 1 .. m, i < m \/ r.part.nl
      PROVE  more[i] = all[i]
  <2>1. i \in 1 .. Len(all) /\ Len(all) \in Nat
    BY <1>1
  <2>2. i < Len(all) \/ all[i].nl
    BY <1>1, <1>2, <1>3, <2>1
  <2>3. QED
    BY <2>1, <2>2 DEF Grown
<1>4. QED
  BY <1>1, <1>2, <1>3 DEF Follows

\* All lines grow with the file at path.
LEMMA AllGrown ==
    ASSUME NEW segs \in Seq(Files), NEW cur \in Seq(Line), NEW new \in Seq(Line), Grown(cur, new)
    PROVE  Grown(All(segs, cur), All(segs, new))
<1>1. PICK s \in Seq(Line) : s = JoinAll(segs)
  BY JoinAllIs DEF Files
<1>2. PICK u, v : u = s \o cur /\ v = s \o new
  OBVIOUS
<1>3. PICK n \in Nat : n = Len(s)
  OBVIOUS
<1>4. /\ Len(u) = n + Len(cur) /\ Len(v) = n + Len(new) /\ Len(cur) \in Nat /\ Len(new) \in Nat
      /\ Len(cur) <= Len(new)
  BY <1>2, <1>3 DEF Grown
<1>5. /\ \A i \in 1 .. n : u[i] = s[i] /\ v[i] = s[i]
      /\ \A j \in 1 .. Len(cur) : u[n + j] = cur[j]
      /\ \A j \in 1 .. Len(new) : v[n + j] = new[j]
  <2>1. (\A i \in 1 .. n : u[i] = s[i]) /\ \A j \in 1 .. Len(cur) : u[n + j] = cur[j]
    BY <1>2, <1>3, Joining, LinesAre
  <2>2. (\A i \in 1 .. n : v[i] = s[i]) /\ \A j \in 1 .. Len(new) : v[n + j] = new[j]
    BY SMTT(40), <1>2, <1>3, Joining, LinesAre
  <2>3. QED
    BY <2>1, <2>2
<1>6. ASSUME NEW i \in 1 .. Len(u), i < Len(u) \/ u[i].nl
      PROVE  v[i] = u[i]
  <2>1. CASE i <= n
    BY <1>5, <2>1
  <2>2. CASE i > n
    <3>1. PICK j \in 1 .. Len(cur) : i = n + j
      <4>1. i - n \in 1 .. Len(cur) /\ i = n + (i - n)
        BY <1>3, <1>4, <2>2
      <4>2. QED
        BY <4>1
    <3>2. j \in 1 .. Len(new) /\ (j < Len(cur) \/ cur[j].nl)
      BY <1>4, <1>5, <1>6, <3>1
    <3>3. new[j] = cur[j]
      BY <3>2 DEF Grown
    <3>4. QED
      BY <1>5, <3>1, <3>2, <3>3
  <2>3. QED
    BY <1>3, <1>4, <2>1, <2>2
<1>7. QED
  BY <1>1, <1>2, <1>4, <1>6 DEF Grown, All

\* While writers grow or rotate the files, what the reader has stays as it is.
LEMMA ReaderStays ==
    ASSUME TypeOK, ReaderOK, DiskOK', reader' = reader, reader.pc = "lines",
           \/ segments' = segments /\ Grown(current, current')
           \/ segments' = Append(segments, current) /\ current' = <<>>
    PROVE  /\ IsOpen'
           /\ ~moved /\ edits = 0 => Placed(segments', current', reader.file, reader.older)
           /\ ~moved /\ edits = 0 /\ ~caught /\ faults = 0 => Follows(All(segments', current'), reader)
<1>1. PICK segs, cur, segs2, cur2 : segs = segments /\ cur = current /\ segs2 = segments' /\ cur2 = current'
  OBVIOUS
<1>2. segs \in Seq(Files) /\ cur \in Seq(Line) /\ segs2 \in Seq(Files) /\ cur2 \in Seq(Line)
  BY <1>1 DEF TypeOK, DiskOK, Files
<1>3. PICK n, m \in Nat : n = reader.file /\ m = reader.older /\ n \in 1 .. Len(segs) + 1
  <2>1. reader.older \in Nat /\ reader.file \in 1 .. Len(segs) + 1
    BY <1>1 DEF TypeOK, ReaderOK, IsOpen
  <2>2. QED
    BY <2>1
<1>4. PICK f, g : f = OpenFile /\ g = OpenFile'
  OBVIOUS
<1>5. f = IF n <= Len(segs) THEN segs[n] ELSE cur
  BY <1>1, <1>3, <1>4 DEF OpenFile
<1>6. g = IF n <= Len(segs2) THEN segs2[n] ELSE cur2
  BY <1>1, <1>3, <1>4 DEF OpenFile
<1>7. reader.at \in Nat /\ reader.at <= Len(f) /\ (~reader.part.nl => reader.at > 0)
  BY <1>4 DEF TypeOK, ReaderOK, IsOpen
<1>8. ~moved /\ edits = 0 => Placed(segs, cur, n, m)
  BY <1>1, <1>3 DEF ReaderOK
<1>9. ~moved /\ edits = 0 /\ ~caught /\ faults = 0 => Follows(All(segs, cur), reader)
  BY <1>1 DEF ReaderOK
<1>10. reader \in Readers
  BY DEF TypeOK, Readers
<1>11. ASSUME ~moved, edits = 0
       PROVE  m < Len(All(segs, cur)) /\ m + reader.at <= Len(All(segs, cur)) /\ All(segs, cur) \in Seq(Line)
  <2>1. f \in Seq(Line) /\ f # <<>> /\ m + Len(f) <= Len(All(segs, cur))
    BY <1>2, <1>3, <1>5, <1>8, <1>11, PlacedIs
  <2>2. All(segs, cur) \in Seq(Line)
    BY <1>2, JoinAllIs DEF All, Files
  <2>3. QED
    BY <1>3, <1>7, <2>1, <2>2
<1>12. CASE segs2 = segs /\ Grown(cur, cur2)
  <2>1. Len(f) <= Len(g)
    BY <1>2, <1>3, <1>5, <1>6, <1>12 DEF Grown, Files
  <2>2. reader.at <= Len(g)
    <3>1. f \in Seq(Line) /\ g \in Seq(Line)
      BY <1>2, <1>3, <1>5, <1>6, <1>12 DEF Files
    <3>2. QED
      BY <1>7, <2>1, <3>1
  <2>3. IsOpen'
    BY <1>1, <1>3, <1>4, <1>7, <1>12, <2>2 DEF IsOpen
  <2>4. ~moved /\ edits = 0 => Placed(segs2, cur2, n, m)
    BY <1>2, <1>3, <1>8, <1>12, PlacedStays
  <2>5. ASSUME ~moved, edits = 0, ~caught, faults = 0
        PROVE  Follows(All(segs2, cur2), reader)
    <3>1. PICK u, v : u = All(segs, cur) /\ v = All(segs, cur2)
      OBVIOUS
    <3>2. u \in Seq(Line) /\ v \in Seq(Line)
      BY <1>2, <3>1, JoinAllIs DEF All, Files
    <3>3. Grown(u, v)
      BY <1>2, <1>12, <3>1, AllGrown
    <3>4. Follows(u, reader) /\ m < Len(u) /\ m + reader.at <= Len(u)
      BY <1>9, <1>11, <2>5, <3>1
    <3>5. QED
      BY <1>3, <1>10, <1>12, <3>1, <3>2, <3>3, <3>4, FollowsStays
  <2>6. QED
    BY <1>1, <1>3, <2>3, <2>4, <2>5
<1>13. CASE segs2 = Append(segs, cur) /\ cur2 = <<>>
  <2>1. Len(segs2) = Len(segs) + 1 /\ segs2[Len(segs) + 1] = cur /\ \A i \in 1 .. Len(segs) : segs2[i] = segs[i]
    BY <1>2, <1>13, AppendParts DEF Files
  <2>2. g = f
    <3>1. CASE n <= Len(segs)
      BY <1>2, <1>3, <1>5, <1>6, <2>1, <3>1
    <3>2. CASE n = Len(segs) + 1
      BY <1>2, <1>3, <1>5, <1>6, <2>1, <3>2
    <3>3. QED
      BY <1>2, <1>3, <3>1, <3>2
  <2>3. n \in 1 .. Len(segs2) + 1
    BY <1>2, <1>3, <2>1
  <2>4. IsOpen'
    BY <1>1, <1>3, <1>4, <1>7, <2>2, <2>3 DEF IsOpen
  <2>5. ~moved /\ edits = 0 => Placed(segs2, cur2, n, m)
    BY <1>2, <1>3, <1>8, <1>13, PlacedStays
  <2>6. All(segs2, cur2) = All(segs, cur)
    BY <1>2, <1>13, AllIs, LinesAre
  <2>7. QED
    BY <1>1, <1>3, <1>9, <2>4, <2>5, <2>6
<1>14. QED
  BY <1>1, <1>12, <1>13

LEMMA ReaderStep ==
    ASSUME TypeOK, ShapeOK, ReaderOK, NEW w \in Writers, Begin(w) \/ Steps(w) \/ Stall(w)
    PROVE  ReaderOK'
<1>1. /\ reader' = reader /\ verdict' = verdict /\ caught' = caught /\ edits' = edits
      /\ faults \in Nat /\ faults' \in Nat /\ faults' >= faults
  <2>1. faults \in Nat
    BY EnvFits DEF TypeOK
  <2>2. (faults' = faults \/ faults' = faults + 1) /\ edits' = edits
    BY CountsStep
  <2>3. QED
    BY <2>1, <2>2, ReaderTypes
<1>2. moved \in BOOLEAN /\ segments \in Seq(Files) /\ current \in Files
  BY ExistsTyped, FilesFit DEF FilesOK
<1>3. \/ /\ segments' = segments /\ moved' = moved /\ Grown(current, current')
         /\ exists' = exists \/ current' # <<>>
      \/ /\ segments' = Append(segments, current) /\ current' = <<>> /\ ~exists' /\ current # <<>>
         /\ moved' = (moved \/ reader.pc \in {"reading", "path"})
  BY FilesRemain
<1>4. Len(segments) \in Nat /\ Len(segments') >= Len(segments)
  <2>1. Len(Append(segments, current)) = Len(segments) + 1 /\ Len(segments) \in Nat
    BY <1>2, AppendParts
  <2>2. QED
    BY <1>3, <2>1
<1>5. moved => moved'
  BY <1>3
<1>6. reader.pc # "idle" => reader.listed <= Len(segments')
  <2>1. reader.listed \in Nat
    BY DEF TypeOK
  <2>2. QED
    BY <1>3, <1>4, <2>1 DEF ReaderOK
<1>7. reader.pc \in {"reading", "path"} =>
         reader.at = 0 /\ reader.part.nl /\ (~moved' => reader.listed = Len(segments'))
  BY <1>3 DEF ReaderOK
<1>8. reader.pc = "path" /\ ~moved' => reader.lines = JoinAll(segments')
  BY <1>3 DEF ReaderOK
<1>9. exists' /\ edits = 0 => current' # <<>>
  <2>1. exists /\ edits = 0 => current # <<>>
    BY DEF ReaderOK
  <2>2. Grown(current, current') => Len(current) <= Len(current')
    BY DEF Grown
  <2>3. current' \in Seq(Line)
    BY DiskStep DEF DiskOK
  <2>4. PICK c, d \in Seq(Line) : c = current /\ d = current'
    BY <1>2, <2>3 DEF Files
  <2>5. c # <<>> /\ Len(c) <= Len(d) => d # <<>>
    OBVIOUS
  <2>6. QED
    BY <1>3, <2>1, <2>2, <2>4, <2>5
<1>10. ASSUME reader.pc = "lines"
       PROVE  /\ IsOpen'
              /\ ~moved' /\ edits = 0 => Placed(segments', current', reader.file, reader.older)
              /\ ~moved' /\ edits = 0 /\ ~caught /\ faults' = 0 => Follows(All(segments', current'), reader)
  <2>1. faults' = 0 => faults = 0
    BY <1>1
  <2>2. \/ segments' = segments /\ Grown(current, current')
        \/ segments' = Append(segments, current) /\ current' = <<>>
    BY <1>3
  <2>3. QED
    BY <1>1, <1>5, <1>10, <2>1, <2>2, DiskStep, ReaderStays
<1>11. NoFalseAlarm'
  <2>1. verdict = "tampered" => faults > 0 \/ edits > 0 \/ moved \/ caught
    BY DEF ReaderOK, NoFalseAlarm
  <2>2. faults > 0 => faults' > 0
    BY <1>1
  <2>3. QED
    BY <1>1, <1>5, <2>1, <2>2 DEF NoFalseAlarm
<1>12. QED
  BY <1>1, <1>6, <1>7, <1>8, <1>9, <1>10, <1>11 DEF ReaderOK

\* What is wrong for good stays wrong behind one more line.
LEMMA LastingNext ==
    ASSUME NEW s \in Seq(Line), NEW l \in Line
    PROVE  /\ Lasting(s) => Lasting(Append(s, l))
           /\ Lasting(Append(s, l)) /\ l.kind \in {"piece", "junk"} => Lasting(s)
<1>1. PICK t : t = Append(s, l)
  OBVIOUS
<1>2. /\ t \in Seq(Line) /\ Len(t) = Len(s) + 1 /\ t[Len(s) + 1] = l /\ Len(s) \in Nat
      /\ \A i \in 1 .. Len(s) : t[i] = s[i]
  BY <1>1, AppendParts
<1>3. \A i \in 1 .. Len(s) : Hashes(t)[i - 1] = Hashes(s)[i - 1]
  <2>1. \A i \in 1 .. Len(s) : i - 1 \in 0 .. Len(s)
    BY <1>2
  <2>2. QED
    BY <1>1, <2>1, ExpectedNext
<1>4. \A i : i \in 1 .. Len(t) <=> i \in 1 .. Len(s) \/ i = Len(s) + 1
  BY <1>2
<1>5. \A i \in 1 .. Len(s) : Wrong(t[i], Hashes(t)[i - 1], FALSE) <=> Wrong(s[i], Hashes(s)[i - 1], FALSE)
  BY <1>2, <1>3
<1>6. ASSUME Lasting(s)
      PROVE  Lasting(t)
  <2>1. PICK i \in 1 .. Len(s) : (IsHashed(s[i]) \/ s[i].kind = "legacy") /\ Wrong(s[i], Hashes(s)[i - 1], FALSE)
    BY <1>6 DEF Lasting
  <2>2. i \in 1 .. Len(t) /\ t[i] = s[i]
    BY <1>2, <1>4
  <2>3. Wrong(t[i], Hashes(t)[i - 1], FALSE)
    BY <1>5, <2>1
  <2>4. QED
    BY <2>1, <2>2, <2>3 DEF Lasting
<1>7. ASSUME Lasting(t), l.kind \in {"piece", "junk"}
      PROVE  Lasting(s)
  <2>1. PICK i \in 1 .. Len(t) : (IsHashed(t[i]) \/ t[i].kind = "legacy") /\ Wrong(t[i], Hashes(t)[i - 1], FALSE)
    BY <1>7 DEF Lasting
  <2>2. i # Len(s) + 1
    BY <1>2, <1>7, <2>1 DEF IsHashed
  <2>3. i \in 1 .. Len(s) /\ t[i] = s[i]
    BY <1>2, <1>4, <2>1, <2>2
  <2>4. Wrong(s[i], Hashes(s)[i - 1], FALSE)
    BY <1>5, <2>1, <2>3
  <2>5. QED
    BY <2>1, <2>3, <2>4 DEF Lasting
<1>8. QED
  BY <1>1, <1>6, <1>7

\* ... and after each step of a writer.
LEMMA TamperStep ==
    ASSUME TypeOK, ShapeOK, TamperOK, NEW w \in Writers, Begin(w) \/ Steps(w) \/ Stall(w)
    PROVE  TamperOK'
<1>1. edits' = edits /\ cutOff' = cutOff /\ faults \in Nat /\ (faults' = faults \/ faults' = faults + 1)
  <2>1. faults \in Nat
    BY EnvFits DEF TypeOK
  <2>2. QED
    BY <2>1, CountsStep
<1>2. SUFFICES ASSUME faults' = 0, edits = 1, cutOff PROVE Lasting(All(segments', current'))
  BY <1>1 DEF TamperOK
<1>3. faults = 0
  BY <1>1, <1>2
<1>4. segments \in Seq(Files) /\ current \in Seq(Line)
  BY FilesFit DEF FilesOK, Files
<1>5. PICK all \in Seq(Line) : all = All(segments, current) /\ Lasting(all)
  BY <1>2, <1>3, <1>4, AllIs, LinesAre DEF TamperOK
<1>6. CASE UNCHANGED disk
  BY <1>5, <1>6 DEF disk
<1>7. ASSUME NEW b \in BOOLEAN, Rotate(w, b)
      PROVE  Lasting(All(segments', current'))
  <2>1. CASE segments' = Append(segments, current) /\ current' = <<>>
    <3>1. All(Append(segments, current), <<>>) = all
      BY <1>4, <1>5, AllIs, LinesAre
    <3>2. QED
      BY <1>5, <2>1, <3>1
  <2>2. QED
    BY <1>6, <1>7, <2>1 DEF Rotate, Rotated
<1>8. CASE WritePiece(w)
  <2>1. /\ Begun(current, needsNl[w], current') /\ segments' = segments /\ Stage = "ready"
    BY <1>8, PieceIs
  <2>2. ~Open(current)
    BY <1>3, <2>1 DEF ShapeOK
  <2>3. current' = Append(current, Piece)
    <3>1. \A f \in Seq(Line), l \in Line : current = Append(f, l) => l.nl
      BY <2>2, InnerNext
    <3>2. QED
      BY <2>1, <3>1 DEF Begun
  <2>4. All(segments, current') = Append(all, Piece)
    BY <1>4, <1>5, <2>3, AllIs, LinesAre
  <2>5. QED
    BY <1>5, <2>1, <2>4, LastingNext, LinesAre
<1>9. CASE WriteRest(w)
  <2>1. /\ Ends(current, mine[w], prev[w], TRUE, current') /\ segments' = segments
        /\ mine[w] \in Nat /\ prev[w] \in Nat
    BY <1>9, RestIs
  <2>2. PICK new : new = current'
    OBVIOUS
  <2>3. Ends(current, mine[w], prev[w], TRUE, new) /\ TRUE \in BOOLEAN
    BY <2>1, <2>2
  <2>4. EndsAmong(segments, current, mine[w], prev[w], TRUE, new)
    BY <1>4, <2>1, <2>3, EndsAre, Zenon
  <2>5. PICK base \in Seq(Line), l \in Line :
          /\ All(segments, new) = Append(base, l)
          /\ All(segments, current) = Append(base, Piece) \/ All(segments, current) = Append(base, Junk)
    BY <2>4 DEF EndsAmong
  <2>6. Lasting(base)
    <3>1. Piece \in Line /\ Junk \in Line /\ Piece.kind \in {"piece", "junk"} /\ Junk.kind \in {"piece", "junk"}
      BY LinesAre
    <3>2. QED
      BY <1>5, <2>5, <3>1, LastingNext
  <2>7. QED
    BY <2>1, <2>2, <2>5, <2>6, LastingNext
<1>10. ASSUME NEW b \in BOOLEAN, WriteCut(w, b)
       PROVE  FALSE
  BY <1>1, <1>2, <1>10 DEF WriteCut, Faulty
<1>11. QED
  BY <1>6, <1>7, <1>8, <1>9, <1>10 DEF Steps, Begin, Acquire, TimeOut, ReadTail, Abandon, Stall

\* Each step of a writer keeps the invariant.
LEMMA WritersKeepInv ==
    ASSUME Inv, NEW w \in Writers, Begin(w) \/ Steps(w) \/ Stall(w)
    PROVE  Inv'
<1>1. TypeOK /\ ShapeOK /\ IdsOK /\ PrevsOK /\ SlackOK /\ ReaderOK /\ TamperOK
  BY DEF Inv
<1>2. TypeOK' /\ ShapeOK'
  BY <1>1, WritersKeepTypes, ShapeStep
<1>3. IdsOK' /\ PrevsOK' /\ SlackOK'
  BY <1>1, IdsStep, PrevsStep, SlackStep
<1>4. ReaderOK' /\ TamperOK'
  BY <1>1, ReaderStep, TamperStep
<1>5. QED
  BY <1>2, <1>3, <1>4 DEF Inv

\* If nothing is reported of all lines, nothing is of the first ones.
LEMMA PrefixFine ==
    ASSUME NEW s \in Seq(Line), NEW t \in Seq(Line), Anomalies(s \o t) = {}
    PROVE  Anomalies(s) = {}
<1>1. CASE t = <<>>
  BY <1>1, ConcatEmptySeq
<1>2. CASE t # <<>>
  <2>1. PICK u : u = s \o t
    OBVIOUS
  <2>2. /\ u \in Seq(Line) /\ Len(u) = Len(s) + Len(t) /\ Len(t) > 0 /\ Len(s) \in Nat /\ Len(t) \in Nat
        /\ DOMAIN s = 1 .. Len(s) /\ DOMAIN u = 1 .. Len(u)
    BY <1>2, <2>1
  <2>3. \A i \in 1 .. Len(s) : u[i] = s[i]
    BY <2>1, Joining
  <2>4. \A i \in 0 .. Len(s) : Hashes(s)[i] = Hashes(u)[i]
    <3>1. \A i \in 1 .. Len(s) : SameHash(s[i], u[i])
      BY <2>3 DEF SameHash
    <3>2. PICK k \in Nat : k = Len(s)
      BY <2>2
    <3>5. k <= Len(s) /\ k <= Len(u)
      BY <2>2, <3>2
    <3>3. \A i \in 1 .. k : SameHash(s[i], u[i])
      BY <3>1, <3>2
    <3>4. \A i \in 0 .. k : Hashes(s)[i] = Hashes(u)[i]
      BY <2>2, <3>3, <3>5, HashesAgree
    <3>6. QED
      BY <3>2, <3>4
  <2>5. ASSUME NEW i \in 1 .. Len(s), Wrong(s[i], Hashes(s)[i - 1], FALSE)
        PROVE  FALSE
    <3>1. i \in DOMAIN u /\ i - 1 \in 0 .. Len(s) /\ (i = Len(u)) = FALSE
      BY <2>2
    <3>2. Wrong(u[i], Hashes(u)[i - 1], FALSE)
      BY <2>3, <2>4, <2>5, <3>1
    <3>3. i \in Anomalies(u)
      BY <3>1, <3>2, AnomaliesAre
    <3>4. QED
      BY <2>1, <3>3
  <2>6. Bad(s) = {}
    BY <2>2, <2>5 DEF Bad, Wrong
  <2>7. QED
    BY <2>6, FewerReported
<1>3. QED
  BY <1>1, <1>2

\* While nothing has gone wrong, nothing is reported.
LEMMA NoneReported ==
    ASSUME TypeOK, SlackOK, faults = 0, edits = 0
    PROVE  Anomalies(All(segments, current)) = {}
<1>1. PICK all \in Seq(Line) : all = All(segments, current)
  BY FilesFit, AllIs, LinesAre DEF FilesOK, Files
<1>2. Cardinality(Anomalies(all)) <= 2 * faults
  BY <1>1 DEF SlackOK, SlackFit
<1>3. IsFiniteSet(Anomalies(all)) /\ Cardinality(Anomalies(all)) \in Nat
  BY FewerReported
<1>4. Cardinality(Anomalies(all)) = 0
  BY <1>2, <1>3
<1>5. QED
  BY <1>1, <1>3, <1>4, FS_EmptySet

\* Nothing is reported of what was read if nothing is of what is there: the
\* lines are those, but for newlines that have come since.
LEMMA ReadFine ==
    ASSUME NEW all \in Seq(Line), NEW lines \in Seq(Line), NEW older \in Nat, Len(lines) <= Len(all), older < Len(all),
           \A i \in 1 .. Len(lines) : all[i] \in {lines[i], Ended(lines[i])},
           Anomalies(all) = {}
    PROVE  Reported(lines, older) = {}
<1>1. PICK m \in Nat : m = Len(lines)
  OBVIOUS
<1>2. Len(all) \in Nat /\ DOMAIN all = 1 .. Len(all) /\ DOMAIN lines = 1 .. m
  BY <1>1
<1>3. ASSUME NEW i \in 1 .. m
      PROVE  /\ lines[i] \in Line /\ all[i] \in Line /\ all[i].kind = lines[i].kind /\ all[i].id = lines[i].id
             /\ all[i].prev = lines[i].prev /\ (lines[i].nl => all[i].nl)
  <2>1. PICK l \in Line : l = lines[i]
    BY <1>1
  <2>2. all[i] = l \/ all[i] = Ended(l)
    BY <1>1, <2>1
  <2>3. /\ Ended(l) \in Line /\ Ended(l).kind = l.kind /\ Ended(l).id = l.id
        /\ Ended(l).prev = l.prev /\ Ended(l).nl
    BY LinesAre
  <2>4. QED
    BY <2>1, <2>2, <2>3
<1>4. \A i \in 0 .. m : Hashes(lines)[i] = Hashes(all)[i]
  <2>1. \A i \in 1 .. m : SameHash(lines[i], all[i])
    BY <1>3 DEF SameHash
  <2>2. m <= Len(lines) /\ m <= Len(all)
    BY <1>1
  <2>3. QED
    BY <2>1, <2>2, HashesAgree
<1>5. ASSUME NEW i \in 1 .. m, Wrong(lines[i], Hashes(lines)[i - 1], i > older)
      PROVE  FALSE
  <2>1. PICK l \in Line, k \in Line : l = lines[i] /\ k = all[i]
    BY <1>3
  <2>2. k.kind = l.kind /\ k.id = l.id /\ k.prev = l.prev /\ (l.nl => k.nl)
    BY <1>3, <2>1
  <2>3. PICK h : h = Hashes(all)[i - 1]
    OBVIOUS
  <2>4. Wrong(l, h, i > older)
    <3>1. i - 1 \in 0 .. m
      BY <1>1
    <3>2. Hashes(lines)[i - 1] = h
      BY <1>4, <2>3, <3>1
    <3>3. QED
      BY <1>5, <2>1, <3>2
  <2>5. i \in 1 .. Len(all)
    BY <1>1, <1>2
  <2>6. Wrong(k, h, i = Len(all))
    <3>1. CASE i > older
      <4>1. Wrong(l, h, TRUE)
        BY <2>4, <3>1, Zenon
      <4>2. l.nl \/ l.kind \notin {"piece", "junk"}
        BY <4>1, LineType DEF Wrong, StatusOf, Tampering
      <4>3. Wrong(k, h, TRUE) /\ Wrong(k, h, FALSE)
        BY <2>2, <4>1, <4>2, LineType DEF Wrong, StatusOf, Tampering
      <4>4. QED
        <5>1. CASE i = Len(all)
          BY <4>3, <5>1, Zenon
        <5>2. CASE i # Len(all)
          BY <4>3, <5>2, Zenon
        <5>3. QED
          BY <5>1, <5>2
    <3>2. CASE ~(i > older)
      <4>1. Wrong(l, h, FALSE)
        <5>1. (i > older) = FALSE
          BY <3>2
        <5>2. QED
          BY <2>4, <5>1, Zenon
      <4>2. Wrong(k, h, FALSE)
        BY <2>2, <4>1, LineType DEF Wrong, StatusOf, Tampering
      <4>3. i # Len(all)
        BY <1>1, <1>2, <3>2
      <4>4. QED
        BY <4>2, <4>3, Zenon
    <3>3. QED
      BY <3>1, <3>2
  <2>7. Wrong(all[i], Hashes(all)[i - 1], i = Len(all))
    BY <2>1, <2>3, <2>6, Zenon
  <2>8. i \in Anomalies(all)
    BY <1>2, <2>5, <2>7, AnomaliesAre
  <2>9. QED
    BY <2>8
<1>6. Reported(lines, older) = {i \in DOMAIN lines : Wrong(lines[i], Hashes(lines)[i - 1], i > older)}
  BY DEF Reported, ClaimedHashes, Hashes, Wrong
<1>7. QED
  BY <1>2, <1>5, <1>6

\* A line more is read.
LEMMA FollowsLine ==
    ASSUME NEW all, NEW r \in Readers, Follows(all, r), r.part.nl, NEW l \in Line, all[r.older + r.at + 1] = l,
           NEW q, q = [r EXCEPT !.at = r.at + 1, !.lines = Append(r.lines, l), !.part = l]
    PROVE  Follows(all, q)
<1>1. PICK m, k \in Nat : m = r.older + r.at /\ k = r.older /\ m \in Nat /\ m >= k
  BY DEF Readers
<1>2. r.lines \in Seq(Line) /\ r.at \in Nat
  BY DEF Readers
<1>3. PICK s : s = Append(r.lines, l)
  OBVIOUS
<1>4. Len(r.lines) = m /\ \A i \in 1 .. m : all[i] \in {r.lines[i], Ended(r.lines[i])} /\ (i > k => all[i].nl)
  BY <1>1 DEF Follows
<1>5. Len(s) = m + 1 /\ s[m + 1] = l /\ \A i \in 1 .. m : s[i] = r.lines[i]
  BY <1>2, <1>3, <1>4, AppendParts
<1>6. q.lines = s /\ q.part = l /\ q.older = k /\ q.older + q.at = m + 1
  BY <1>1, <1>2, <1>3 DEF Readers
<1>7. ASSUME NEW i \in 1 .. m + 1, i < m + 1 \/ l.nl
      PROVE  all[i] \in {s[i], Ended(s[i])} /\ (i > k => all[i].nl)
  <2>1. CASE i \in 1 .. m
    BY <1>4, <1>5, <2>1
  <2>2. CASE i = m + 1
    BY <1>1, <1>5, <1>7, <2>2
  <2>3. QED
    BY <2>1, <2>2
<1>8. QED
  BY <1>5, <1>6, <1>7 DEF Follows

\* The newline of the last line is read.
LEMMA FollowsNewline ==
    ASSUME NEW all, NEW r \in Readers, Follows(all, r), ~r.part.nl, r.at > 0,
           all[r.older + r.at] = Ended(r.part),
           NEW q, q = [r EXCEPT !.part = Ended(r.part)]
    PROVE  Follows(all, q)
<1>1. PICK m, k \in Nat : m = r.older + r.at /\ k = r.older /\ m \in Nat /\ m > 0
  BY DEF Readers
<1>2. r.part \in Line /\ Ended(r.part).nl
  BY LinesAre DEF Readers
<1>3. /\ Len(r.lines) = m /\ r.lines[m] = r.part
      /\ \A i \in 1 .. m : i < m => all[i] \in {r.lines[i], Ended(r.lines[i])} /\ (i > k => all[i].nl)
  BY <1>1 DEF Follows
<1>4. q.lines = r.lines /\ q.part = Ended(r.part) /\ q.older = k /\ q.older + q.at = m
  BY <1>1 DEF Readers
<1>5. \A i \in 1 .. m : all[i] \in {r.lines[i], Ended(r.lines[i])} /\ (i > k => all[i].nl)
  <2>1. \A i \in 1 .. m : i < m \/ i = m
    OBVIOUS
  <2>2. all[m] = Ended(r.lines[m]) /\ all[m].nl
    BY <1>1, <1>2, <1>3
  <2>3. QED
    BY <1>3, <2>1, <2>2
<1>6. QED
  BY <1>2, <1>3, <1>4, <1>5 DEF Follows

\* Each step of the reader with the file open keeps what is known of it.
LEMMA LinesKeepReader ==
    ASSUME TypeOK, ReaderOK, ReadLine \/ ReadRest
    PROVE  ReaderOK'
<1> USE DEF disk, meddling
<1>1. /\ reader \in Readers /\ reader.pc = "lines" /\ reader'.pc = "lines" /\ UNCHANGED <<segments, current, exists>>
      /\ reader'.listed = reader.listed /\ reader'.file = reader.file /\ reader'.older = reader.older
      /\ verdict' = verdict /\ edits' = edits /\ faults' = faults /\ moved' = moved
      /\ caught' = caught \/ caught' = TRUE
  BY DEF TypeOK, Readers, ReadLine, ReadRest
<1>2. PICK f : f = OpenFile
  OBVIOUS
<1>3. OpenFile' = f
  BY <1>1, <1>2 DEF OpenFile
<1>4. PICK n \in Nat : n = reader.at
  BY <1>1 DEF Readers
<1>5. IsOpen /\ f \in Seq(Line)
  BY <1>1, <1>2, OpenIs DEF ReaderOK
<1>6. n <= Len(f) /\ (~reader.part.nl => n > 0)
  BY <1>2, <1>4, <1>5 DEF IsOpen
<1>7. reader'.at <= Len(f) /\ (~reader'.part.nl => reader'.at > 0)
  <2>1. CASE ReadLine
    <3>1. reader'.at = n + 1 /\ n < Len(f)
      BY <1>1, <1>2, <1>4, <2>1 DEF ReadLine, Readers
    <3>2. QED
      BY <1>5, <3>1
  <2>2. CASE ReadRest
    <3>1. reader'.at = n /\ ~reader.part.nl
      BY <1>1, <1>4, <2>2 DEF ReadRest, Readers
    <3>2. QED
      BY <1>6, <3>1
  <2>3. QED
    BY <2>1, <2>2
<1>8. IsOpen'
  BY <1>1, <1>3, <1>5, <1>7 DEF IsOpen
<1>9. ASSUME ~moved, edits = 0, ~caught', faults = 0
      PROVE  Follows(All(segments, current), reader')
  <2>1. PICK u, r, q : u = All(segments, current) /\ r = reader /\ q = reader'
    OBVIOUS
  <2>2. ~caught
    BY <1>1, <1>9
  <2>3. Follows(u, r) /\ Placed(segments, current, reader.file, reader.older)
    BY <1>1, <1>9, <2>1, <2>2 DEF ReaderOK
  <2>4. \A j \in 1 .. Len(f) : u[r.older + j] = f[j]
    <3>1. segments \in Seq(Files) /\ current \in Seq(Line)
      BY DEF TypeOK, Files
    <3>2. PICK file \in 1 .. Len(segments) + 1, older \in Nat : file = reader.file /\ older = reader.older
      BY <1>1, <1>5 DEF IsOpen, Readers
    <3>3. f = IF file <= Len(segments) THEN segments[file] ELSE current
      BY <1>2, <3>2 DEF OpenFile
    <3>4. Placed(segments, current, file, older)
      BY <2>3, <3>2
    <3>5. \A j \in 1 .. Len(f) : All(segments, current)[older + j] = f[j]
      <4>1. PICK segs \in Seq(Files), cur \in Seq(Line) : segs = segments /\ cur = current
        BY <3>1
      <4>2. file \in 1 .. Len(segs) + 1 /\ older \in Nat /\ Placed(segs, cur, file, older)
        BY <3>2, <3>4, <4>1
      <4>3. f = IF file <= Len(segs) THEN segs[file] ELSE cur
        BY <3>3, <4>1
      <4>4. \A j \in 1 .. Len(f) : All(segs, cur)[older + j] = f[j]
        BY <4>2, <4>3, PlacedIs
      <4>5. QED
        BY <4>1, <4>4
    <3>6. QED
      BY <2>1, <3>2, <3>5
  <2>5. r \in Readers /\ r.older \in Nat /\ r.at = n /\ r.part \in Line
    BY <1>1, <1>4, <2>1 DEF Readers
  <2>6. CASE ReadLine
    <3>1. n < Len(f) /\ n + 1 \in 1 .. Len(f) /\ r.part.nl
      BY <1>2, <1>4, <1>5, <2>1, <2>6 DEF ReadLine
    <3>2. PICK l \in Line : l = f[n + 1]
      BY <1>5, <3>1
    <3>3. u[r.older + r.at + 1] = l
      <4>1. r.older + (n + 1) = r.older + r.at + 1
        BY <2>5
      <4>2. QED
        BY <2>4, <3>1, <3>2, <4>1
    <3>4. q = [r EXCEPT !.at = r.at + 1, !.lines = Append(r.lines, l), !.part = l]
      BY <1>2, <1>4, <2>1, <2>6, <3>2 DEF ReadLine
    <3>5. Follows(u, q)
      BY <2>3, <2>5, <3>1, <3>3, <3>4, FollowsLine
    <3>6. QED
      BY <2>1, <3>5
  <2>7. CASE ReadRest
    <3>1. ~r.part.nl /\ n \in 1 .. Len(f)
      BY <1>2, <1>4, <1>6, <2>1, <2>7 DEF ReadRest
    <3>2. f[n] = Ended(r.part) /\ q = [r EXCEPT !.part = f[n]]
      BY <1>2, <1>4, <1>9, <2>1, <2>7 DEF ReadRest, Ended
    <3>3. u[r.older + r.at] = Ended(r.part)
      BY <2>4, <2>5, <3>1, <3>2
    <3>4. Follows(u, q)
      BY <2>3, <2>5, <3>1, <3>2, <3>3, FollowsNewline
    <3>5. QED
      BY <2>1, <3>4
  <2>8. QED
    BY <2>6, <2>7
<1>10. NoFalseAlarm'
  BY <1>1 DEF ReaderOK, NoFalseAlarm
<1>11. ~moved' /\ edits' = 0 => Placed(segments, current, reader'.file, reader'.older)
  BY <1>1 DEF ReaderOK
<1>12. reader'.listed <= Len(segments) /\ (exists /\ edits = 0 => current # <<>>)
  BY <1>1 DEF ReaderOK
<1>13. QED
  BY <1>1, <1>8, <1>9, <1>10, <1>11, <1>12 DEF ReaderOK

\* The verdict on a log that nothing happened to.
LEMMA EndOfFileFine ==
    ASSUME TypeOK, SlackOK, ReaderOK, EndOfFile, faults = 0, edits = 0, ~moved, ~caught
    PROVE  Reported(reader.lines, reader.older) = {}
<1>1. PICK u, r : u = All(segments, current) /\ r = reader
  OBVIOUS
<1>2. r \in Readers /\ r.pc = "lines" /\ IsOpen
  BY <1>1 DEF TypeOK, Readers, EndOfFile, ReaderOK
<1>3. PICK f \in Seq(Line) : f = OpenFile
  BY <1>2, OpenIs
<1>4. PICK n, k \in Nat : n = r.at /\ k = r.older
  BY <1>2 DEF Readers
<1>5. segments \in Seq(Files) /\ current \in Seq(Line) /\ u \in Seq(Line)
  <2>1. segments \in Seq(Files) /\ current \in Seq(Line)
    BY DEF TypeOK, Files
  <2>2. QED
    BY <1>1, <2>1, AllIs, LinesAre
<1>6. Follows(u, r) /\ Placed(segments, current, r.file, k)
  BY <1>1, <1>2, <1>4 DEF ReaderOK
<1>7. f # <<>> /\ k + Len(f) <= Len(u) /\ \A j \in 1 .. Len(f) : u[k + j] = f[j]
  <2>1. r.file \in 1 .. Len(segments) + 1 /\ f = IF r.file <= Len(segments) THEN segments[r.file] ELSE current
    BY <1>1, <1>2, <1>3 DEF IsOpen, OpenFile
  <2>2. PICK file \in 1 .. Len(segments) + 1 : file = r.file
    BY <2>1
  <2>3. f = (IF file <= Len(segments) THEN segments[file] ELSE current) /\ Placed(segments, current, file, k)
    BY <1>6, <2>1, <2>2
  <2>4. f # <<>> /\ k + Len(f) <= Len(All(segments, current))
        /\ \A j \in 1 .. Len(f) : All(segments, current)[k + j] = f[j]
    <3>1. PICK segs \in Seq(Files), cur \in Seq(Line) : segs = segments /\ cur = current
      BY <1>5
    <3>2. file \in 1 .. Len(segs) + 1 /\ Placed(segs, cur, file, k)
      BY <2>2, <2>3, <3>1
    <3>3. f = IF file <= Len(segs) THEN segs[file] ELSE cur
      BY <2>3, <3>1
    <3>4. f # <<>> /\ k + Len(f) <= Len(All(segs, cur)) /\ \A j \in 1 .. Len(f) : All(segs, cur)[k + j] = f[j]
      <4>1. k \in Nat
        BY <1>4
      <4>2. file \in 1 .. Len(segs) + 1
        BY <3>2
      <4>3. Placed(segs, cur, file, k)
        BY <3>2
      <4>4. f # <<>> /\ k + Len(f) <= Len(All(segs, cur))
        BY <3>3, <4>1, <4>2, <4>3, PlacedIs
      <4>5. \A j \in 1 .. Len(f) : All(segs, cur)[k + j] = f[j]
        BY <3>3, <4>1, <4>2, <4>3, PlacedIs
      <4>6. QED
        BY <4>4, <4>5
    <3>5. QED
      BY <3>1, <3>4
  <2>5. QED
    BY <1>1, <2>4
<1>8. n = Len(f) /\ (~r.part.nl => f[n] = r.part) /\ n \in Nat /\ n > 0 /\ k < Len(u) /\ k + n <= Len(u)
  <2>1. n = Len(f) /\ (~r.part.nl => f[n] = r.part)
    BY <1>1, <1>3, <1>4 DEF EndOfFile
  <2>2. QED
    BY <1>5, <1>7, <2>1
<1>9. PICK m \in Nat : m = k + n
  OBVIOUS
<1>10. /\ Len(r.lines) = m /\ (~r.part.nl => r.lines[m] = r.part) /\ r.lines \in Seq(Line)
       /\ \A i \in 1 .. m : i < m \/ r.part.nl => u[i] \in {r.lines[i], Ended(r.lines[i])}
  BY <1>2, <1>4, <1>6, <1>9 DEF Follows, Readers
<1>11. ~r.part.nl => u[m] = r.lines[m]
  <2>1. n \in 1 .. Len(f)
    BY <1>8
  <2>2. u[m] = f[n]
    BY <1>7, <1>9, <2>1
  <2>3. QED
    BY <1>8, <1>10, <2>2
<1>12. \A i \in 1 .. m : u[i] \in {r.lines[i], Ended(r.lines[i])}
  <2>1. \A i \in 1 .. m : i < m \/ i = m
    OBVIOUS
  <2>2. QED
    BY <1>10, <1>11, <2>1
<1>13. Anomalies(u) = {}
  BY <1>1, NoneReported
<1>14. PICK s \in Seq(Line) : s = r.lines
  BY <1>10
<1>15. Len(s) <= Len(u) /\ \A i \in 1 .. Len(s) : u[i] \in {s[i], Ended(s[i])}
  BY <1>8, <1>9, <1>10, <1>12, <1>14
<1>16. Reported(s, k) = {}
  BY <1>5, <1>8, <1>13, <1>15, ReadFine
<1>17. QED
  BY <1>1, <1>4, <1>14, <1>16

\* The file at path is opened, or there is none to open.
LEMMA OpenKeepsReader ==
    ASSUME TypeOK, SlackOK, ReaderOK, OpenPath
    PROVE  ReaderOK'
<1> USE DEF disk, meddling
<1>1. /\ reader \in Readers /\ reader.pc = "path" /\ UNCHANGED <<segments, current, exists>>
      /\ edits' = edits /\ faults' = faults /\ moved' = moved /\ caught' = caught
  BY DEF TypeOK, Readers, OpenPath
<1>2. segments \in Seq(Files) /\ current \in Seq(Line) /\ JoinAll(segments) \in Seq(Line) /\ Len(segments) \in Nat
  <2>1. segments \in Seq(Files) /\ current \in Seq(Line)
    BY DEF TypeOK, Files
  <2>2. JoinAll(segments) \in Seq(Line)
    BY <2>1, JoinAllIs DEF Files
  <2>3. QED
    BY <2>1, <2>2
<1>3. exists /\ edits = 0 => current # <<>>
  BY DEF ReaderOK
<1>4. CASE ~reader.cur /\ Returns(Judged(Anomalies(reader.lines)))
  <2>1. ASSUME faults = 0, edits = 0, ~moved
        PROVE  verdict' # "tampered"
    <3>1. reader.lines = JoinAll(segments)
      BY <1>1, <2>1 DEF ReaderOK
    <3>2. Anomalies(JoinAll(segments) \o current) = {}
      BY <2>1, NoneReported DEF All
    <3>3. Anomalies(JoinAll(segments)) = {}
      BY <1>2, <3>2, PrefixFine
    <3>4. QED
      BY <1>4, <3>1, <3>3, ReturnsIs DEF Judged
  <2>2. faults \in Nat /\ edits \in Nat
    BY EnvFits DEF TypeOK
  <2>3. NoFalseAlarm'
    BY <1>1, <2>1, <2>2 DEF NoFalseAlarm
  <2>4. reader'.pc = "idle"
    BY <1>4, ReturnsIs
  <2>5. QED
    BY <1>1, <1>3, <2>3, <2>4 DEF ReaderOK
<1>5. CASE Returns("read_error")
  <2>1. reader'.pc = "idle" /\ verdict' = "read_error"
    BY <1>5, ReturnsIs
  <2>2. QED
    BY <1>1, <1>3, <2>1 DEF ReaderOK, NoFalseAlarm
<1>6. CASE /\ exists /\ verdict' = verdict
           /\ reader' = [reader EXCEPT !.pc = "lines", !.file = Len(segments) + 1, !.older = Len(reader.lines)]
  <2>1. /\ reader'.pc = "lines" /\ reader'.file = Len(segments) + 1 /\ reader'.older = Len(reader.lines)
        /\ reader'.listed = reader.listed /\ reader'.at = reader.at /\ reader'.part = reader.part
        /\ reader'.lines = reader.lines
    BY <1>1, <1>6 DEF Readers
  <2>2. reader.at = 0 /\ reader.part.nl /\ reader.listed <= Len(segments)
    BY <1>1 DEF ReaderOK
  <2>3. IsOpen'
    <3>1. Len(segments) + 1 \in 1 .. Len(segments) + 1 /\ ~(Len(segments) + 1 <= Len(segments))
      BY <1>2
    <3>2. OpenFile' = current
      BY <1>1, <2>1, <3>1 DEF OpenFile
    <3>3. 0 <= Len(current)
      BY <1>2
    <3>4. QED
      BY <1>1, <2>1, <2>2, <3>1, <3>2, <3>3 DEF IsOpen
  <2>4. ASSUME ~moved, edits = 0
        PROVE  Placed(segments, current, reader'.file, reader'.older) /\ Follows(All(segments, current), reader')
    <3>1. PICK s \in Seq(Line) : s = JoinAll(segments)
      BY <1>2
    <3>2. reader.lines = s
      BY <1>1, <2>4, <3>1 DEF ReaderOK
    <3>3. Placed(segments, current, reader'.file, reader'.older)
      BY <1>3, <1>6, <2>1, <2>4, <3>1, <3>2 DEF Placed
    <3>4. PICK u : u = s \o current
      OBVIOUS
    <3>5. \A i \in 1 .. Len(s) : u[i] = s[i]
      BY <1>2, <3>4, Joining, LinesAre
    <3>6. PICK m \in Nat : m = Len(s)
      OBVIOUS
    <3>7. reader'.older + reader'.at = m /\ reader'.older = m
      BY <2>1, <2>2, <3>2, <3>6
    <3>8. Follows(u, reader')
      BY <2>1, <2>2, <3>2, <3>5, <3>6, <3>7 DEF Follows
    <3>9. QED
      BY <3>1, <3>3, <3>4, <3>8 DEF All
  <2>5. NoFalseAlarm'
    BY <1>1, <1>6 DEF ReaderOK, NoFalseAlarm
  <2>6. QED
    BY <1>1, <1>3, <2>1, <2>2, <2>3, <2>4, <2>5 DEF ReaderOK
<1>7. QED
  BY <1>4, <1>5, <1>6 DEF OpenPath

\* Each step of the reader keeps the invariant.
LEMMA ReadersKeepInv ==
    ASSUME Inv, Verifies
    PROVE  Inv'
<1> USE DEF disk, writer, meddling
<1>1. TypeOK /\ ShapeOK /\ IdsOK /\ PrevsOK /\ SlackOK /\ ReaderOK /\ TamperOK
  BY DEF Inv
<1>2. UNCHANGED <<segments, current, exists, lock, pc, mine, prev, needsNl, nextId, edits, cutOff, faults>>
  BY DEF Verifies, List, ReadSegments, OpenPath, ReadLine, ReadRest, EndOfFile
<1>3. Stage' = Stage
  BY <1>2 DEF Stage
<1>4. ShapeOK' /\ IdsOK' /\ TamperOK'
  BY <1>1, <1>2, <1>3 DEF ShapeOK, IdsOK, TamperOK
<1>5. PrevsOK' /\ SlackOK'
  BY <1>1, <1>2, <1>3 DEF PrevsOK, SlackOK
<1>6. segments \in Seq(Files) /\ (exists /\ edits = 0 => current # <<>>)
  BY <1>1, FilesFit DEF FilesOK, ReaderOK
<1>7. ReaderOK'
  <2>1. CASE List
    <3>1. Len(segments) \in Nat /\ LegacyLine.nl
      BY <1>6, LinesAre
    <3>2. reader' = [NotReading EXCEPT !.pc = "reading", !.listed = Len(segments), !.cur = exists] /\ verdict' = "none"
      BY <2>1 DEF List
    <3>3. reader'.pc = "reading" /\ reader'.listed = Len(segments) /\ reader'.at = 0 /\ reader'.part = LegacyLine
      BY <3>2 DEF NotReading
    <3>4. QED
      BY <1>2, <1>6, <3>1, <3>2, <3>3 DEF ReaderOK, NoFalseAlarm
  <2>2. CASE ReadSegments
    <3>1. /\ reader' = [reader EXCEPT !.pc = "path", !.lines = Joined(reader.listed)] /\ reader.pc = "reading"
          /\ verdict' = verdict /\ moved' = moved /\ caught' = caught
      BY <2>2 DEF ReadSegments
    <3>2. /\ reader'.pc = "path" /\ reader'.listed = reader.listed /\ reader'.lines = JoinOf(segments, reader.listed)
          /\ reader'.at = reader.at /\ reader'.part = reader.part
      BY <1>1, <3>1, JoinedIs DEF TypeOK
    <3>3. /\ reader.listed <= Len(segments) /\ (~moved => reader.listed = Len(segments))
          /\ reader.at = 0 /\ reader.part.nl
      BY <1>1, <3>1 DEF ReaderOK
    <3>4. NoFalseAlarm'
      BY <1>1, <1>2, <3>1 DEF ReaderOK, NoFalseAlarm
    <3>5. QED
      BY <1>2, <1>6, <3>1, <3>2, <3>3, <3>4 DEF ReaderOK, JoinAll
  <2>3. CASE OpenPath
    BY <1>1, <2>3, OpenKeepsReader
  <2>4. CASE ReadLine \/ ReadRest
    BY <1>1, <2>4, LinesKeepReader
  <2>5. CASE EndOfFile
    <3>1. reader'.pc = "idle" /\ verdict' = Judged(Reported(reader.lines, reader.older))
      BY <2>5, ReturnsIs DEF EndOfFile
    <3>2. moved' = moved /\ caught' = caught
      BY <2>5 DEF EndOfFile
    <3>3. faults \in Nat /\ edits \in Nat
      BY <1>1, EnvFits DEF TypeOK
    <3>4. faults = 0 /\ edits = 0 /\ ~moved /\ ~caught => verdict' # "tampered"
      BY <1>1, <2>5, <3>1, EndOfFileFine DEF Judged
    <3>5. NoFalseAlarm'
      BY <1>2, <3>2, <3>3, <3>4 DEF NoFalseAlarm
    <3>6. QED
      BY <1>2, <1>6, <3>1, <3>5 DEF ReaderOK
  <2>6. QED
    BY <2>1, <2>2, <2>3, <2>4, <2>5 DEF Verifies
<1>8. TypeOK'
  BY <1>1, ReadersKeepTypes
<1>9. QED
  BY <1>4, <1>5, <1>7, <1>8 DEF Inv

-----------------------------------------------------------------------------
(* Edits.                                                                  *)

Quiet(c) == \A i \in 1 .. Len(c) : ~IsHashed(c[i])

LEMMA QuietNext ==
    ASSUME NEW s \in Seq(Line), NEW l \in Line
    PROVE  (Quiet(Append(s, l)) <=> Quiet(s) /\ ~IsHashed(l)) /\ Quiet(<<>>)
<1>1. PICK t : t = Append(s, l)
  OBVIOUS
<1>2. /\ t \in Seq(Line) /\ Len(t) = Len(s) + 1 /\ t[Len(s) + 1] = l /\ Len(s) \in Nat
      /\ \A i \in 1 .. Len(s) : t[i] = s[i]
  BY <1>1, AppendParts
<1>3. \A i : i \in 1 .. Len(t) <=> i \in 1 .. Len(s) \/ i = Len(s) + 1
  BY <1>2
<1>4. Quiet(t) <=> Quiet(s) /\ ~IsHashed(l)
  BY <1>2, <1>3 DEF Quiet
<1>5. Quiet(<<>>)
  BY DEF Quiet
<1>6. QED
  BY <1>1, <1>4, <1>5

\* A last line that is wrong whatever follows.
LEMMA LastWrong ==
    ASSUME NEW s \in Seq(Line), NEW l \in Line, IsHashed(l), Wrong(l, Expected(s), FALSE)
    PROVE  Lasting(Append(s, l))
<1>1. PICK t : t = Append(s, l)
  OBVIOUS
<1>2. /\ t \in Seq(Line) /\ Len(t) = Len(s) + 1 /\ t[Len(s) + 1] = l /\ Len(s) \in Nat
  BY <1>1, AppendParts
<1>3. Hashes(t)[(Len(s) + 1) - 1] = Expected(s)
  <2>1. (Len(s) + 1) - 1 = Len(s) /\ Len(s) \in 0 .. Len(s)
    BY <1>2
  <2>2. QED
    BY <1>1, <2>1, ExpectedNext DEF Expected
<1>4. Len(s) + 1 \in 1 .. Len(t)
  BY <1>2
<1>5. QED
  BY <1>1, <1>2, <1>3, <1>4 DEF Lasting

\* What is wrong for good stays wrong, whatever is written behind it.
LEMMA LastingJoin ==
    ASSUME NEW s \in Seq(Line), Lasting(s), NEW c \in Seq(Line)
    PROVE  Lasting(s \o c)
<1> DEFINE S == {t \in Seq(Line) : Lasting(s \o t)}
<1>1. <<>> \in S
  BY ConcatEmptySeq
<1>2. ASSUME NEW t \in Seq(Line), NEW l \in Line, t \in S
      PROVE  Append(t, l) \in S
  <2>1. s \o t \in Seq(Line) /\ s \o Append(t, l) = Append(s \o t, l)
    BY Joining
  <2>2. QED
    BY <1>2, <2>1, LastingNext, AppendParts
<1>3. Seq(Line) \subseteq S
  BY <1>1, <1>2, SequencesBuilt
<1>4. QED
  BY <1>3

\* A record is chained from what is expected, also as the newest line.
LEMMA RecordFine ==
    ASSUME NEW l \in Line, l.kind = "record", NEW h, ~Wrong(l, h, TRUE)
    PROVE  l.prev = Norm(h)
<1>1. CASE h = NoHash
  BY <1>1 DEF Wrong, StatusOf, Tampering, Norm
<1>2. CASE h # NoHash
  BY <1>2 DEF Wrong, StatusOf, Tampering, Norm
<1>3. QED
  BY <1>1, <1>2

\* What follows another beginning than its own does not fit it.
LEMMA CutShows ==
    ASSUME NEW u \in Seq(Line), NEW v \in Seq(Line), Norm(Expected(u)) # Norm(Expected(v)),
           NEW c \in Seq(Line), Anomalies(u \o c) = {}, Unedited(u \o c), ~Quiet(c)
    PROVE  Lasting(v \o c)
<1> DEFINE Rests(t) == Quiet(t) /\ Expected(u \o t) = Expected(u) /\ Expected(v \o t) = Expected(v)
           Shows(t) == Anomalies(u \o t) = {} /\ Unedited(u \o t) => Lasting(v \o t) \/ Rests(t)
           S == {t \in Seq(Line) : Shows(t)}
<1>1. <<>> \in S
  <2>1. u \o <<>> = u /\ v \o <<>> = v /\ Quiet(<<>>)
    BY ConcatEmptySeq DEF Quiet
  <2>2. QED
    BY <2>1
<1>2. ASSUME NEW t \in Seq(Line), NEW l \in Line, t \in S
      PROVE  Append(t, l) \in S
  <2> SUFFICES ASSUME Anomalies(u \o Append(t, l)) = {}, Unedited(u \o Append(t, l))
               PROVE  Lasting(v \o Append(t, l)) \/ Rests(Append(t, l))
    BY AppendParts
  <2>1. PICK x \in Seq(Line), y \in Seq(Line) : x = u \o t /\ y = v \o t
    BY Joining
  <2>2. u \o Append(t, l) = Append(x, l) /\ v \o Append(t, l) = Append(y, l)
    <3>1. u \o Append(t, l) = Append(u \o t, l)
      BY Joining
    <3>2. v \o Append(t, l) = Append(v \o t, l)
      BY Joining
    <3>3. QED
      BY <2>1, <3>1, <3>2
  <2>3. Bad(x) = {} /\ ~Wrong(l, Expected(x), TRUE)
    <3>1. Anomalies(Append(x, l)) = {} /\ x \in Seq(Line) /\ l \in Line
      BY <2>1, <2>2
    <3>2. Anomalies(Append(x, l)) = Bad(x) \cup (IF Wrong(l, Expected(x), TRUE) THEN {Len(x) + 1} ELSE {})
      BY <3>1, BadNext
    <3>3. QED
      BY <3>1, <3>2
  <2>4. Anomalies(x) = {} /\ Unedited(x) /\ l.kind # "edited"
    BY <2>2, <2>3, FewerReported, PartsNext
  <2>5. Lasting(y) \/ Rests(t)
    BY <1>2, <2>1, <2>4
  <2>6. CASE Lasting(y)
    BY <2>2, <2>6, LastingNext
  <2>7. CASE Rests(t) /\ IsHashed(l)
    <3>1. l.kind = "record"
      BY <2>4, <2>7 DEF IsHashed
    <3>2. l.prev = Norm(Expected(u))
      BY <2>1, <2>3, <2>7, <3>1, RecordFine
    <3>3. Wrong(l, Expected(v), FALSE)
      BY <3>1, <3>2, WrongLines
    <3>4. Lasting(Append(y, l))
      BY <2>1, <2>7, <3>3, LastWrong
    <3>5. QED
      BY <2>2, <3>4
  <2>8. CASE Rests(t) /\ ~IsHashed(l)
    <3>1. Quiet(Append(t, l))
      BY <2>8, QuietNext
    <3>2. \A h : Follow(l, h) = h
      BY <2>8 DEF IsHashed, Follow
    <3>3. Expected(Append(x, l)) = Expected(x) /\ Expected(Append(y, l)) = Expected(y)
      BY <3>2, ExpectedNext
    <3>4. QED
      BY <2>1, <2>2, <2>8, <3>1, <3>3
  <2>9. QED
    BY <2>5, <2>6, <2>7, <2>8
<1>3. Seq(Line) \subseteq S
  BY <1>1, <1>2, SequencesBuilt
<1>4. QED
  BY <1>3

\* A line, what is before it, and what is behind it.
LEMMA Parted ==
    ASSUME NEW cur \in Seq(Line), NEW i \in 1 .. Len(cur)
    PROVE  \E f \in Seq(Line), r \in Seq(Line) :
             /\ f = SubSeq(cur, 1, i - 1) /\ r = SubSeq(cur, i + 1, Len(cur))
             /\ Len(f) = i - 1 /\ cur = Append(f, cur[i]) \o r
             /\ \A y \in Line : [cur EXCEPT ![i] = y] = Append(f, y) \o r
<1>1. PICK n \in Nat : n = Len(cur)
  OBVIOUS
<1>2. PICK k \in Nat, m \in Nat : k = i - 1 /\ m = i + 1 /\ k + 1 = i /\ m \in Nat /\ i \in Nat /\ i <= n
  BY <1>1
<1>3. PICK f, r : f = SubSeq(cur, 1, k) /\ r = SubSeq(cur, m, n)
  OBVIOUS
<1>4. f \in Seq(Line) /\ Len(f) = k /\ \A j \in 1 .. k : f[j] = cur[j]
  <2>1. \A j \in 1 .. k : cur[j] \in Line
    BY <1>1, <1>2
  <2>2. 1 \in Int /\ k \in Int
    BY <1>2
  <2>3. /\ SubSeq(cur, 1, k) \in Seq(Line) /\ Len(SubSeq(cur, 1, k)) = IF 1 <= k THEN k - 1 + 1 ELSE 0
        /\ \A j \in 1 .. k - 1 + 1 : SubSeq(cur, 1, k)[j] = cur[1 + j - 1]
    BY <2>1, <2>2, SubSeqProperties
  <2>4. Len(f) = k /\ 1 .. k - 1 + 1 = 1 .. k
    BY <1>2, <1>3, <2>3
  <2>5. \A j \in 1 .. k : 1 + j - 1 = j
    BY <1>2
  <2>6. QED
    BY <1>3, <2>3, <2>4, <2>5
<1>5. r \in Seq(Line) /\ Len(r) = n - i /\ \A j \in 1 .. n - i : r[j] = cur[i + j]
  <2>1. \A j \in m .. n : cur[j] \in Line
    BY <1>1, <1>2
  <2>2. m \in Int /\ n \in Int
    BY <1>1, <1>2
  <2>3. /\ SubSeq(cur, m, n) \in Seq(Line) /\ Len(SubSeq(cur, m, n)) = IF m <= n THEN n - m + 1 ELSE 0
        /\ \A j \in 1 .. n - m + 1 : SubSeq(cur, m, n)[j] = cur[m + j - 1]
    BY <2>1, <2>2, SubSeqProperties
  <2>4. Len(r) = n - i /\ n - m + 1 = n - i
    BY <1>2, <1>3, <2>3
  <2>5. \A j \in 1 .. n - i : m + j - 1 = i + j
    BY <1>2
  <2>6. QED
    BY <1>3, <2>3, <2>4, <2>5
<1>6. ASSUME NEW y \in Line
      PROVE  [cur EXCEPT ![i] = y] = Append(f, y) \o r
  <2>1. PICK a, e : a = Append(f, y) /\ e = [cur EXCEPT ![i] = y]
    OBVIOUS
  <2>2. a \in Seq(Line) /\ Len(a) = i /\ a[i] = y /\ \A j \in 1 .. k : a[j] = cur[j]
    BY <1>2, <1>4, <2>1, AppendParts
  <2>3. e \in Seq(Line) /\ Len(e) = n /\ \A j \in 1 .. n : e[j] = IF j = i THEN y ELSE cur[j]
    BY <1>1, <2>1, ExceptSeq
  <2>4. PICK b : b = a \o r
    OBVIOUS
  <2>5. /\ b \in Seq(Line) /\ Len(b) = i + (n - i)
        /\ (\A j \in 1 .. i : b[j] = a[j]) /\ (\A j \in 1 .. n - i : b[i + j] = r[j])
    <3>1. /\ a \o r \in Seq(Line) /\ Len(a \o r) = Len(a) + Len(r)
          /\ (\A j \in 1 .. Len(a) : (a \o r)[j] = a[j]) /\ (\A j \in 1 .. Len(r) : (a \o r)[Len(a) + j] = r[j])
      <4>1. a \in Seq(Line) /\ r \in Seq(Line) /\ y \in Line
        BY <1>5, <2>2
      <4>2. QED
        BY <4>1, Joining
    <3>2. QED
      BY <1>5, <2>2, <2>4, <3>1
  <2>6. Len(b) = n
    BY <1>1, <1>2, <2>5
  <2>7. ASSUME NEW j \in 1 .. n
        PROVE  b[j] = e[j]
    <3>1. CASE j < i
      BY <1>2, <2>2, <2>3, <2>5, <3>1
    <3>2. CASE j = i
      BY <1>2, <2>2, <2>3, <2>5, <3>2
    <3>3. CASE j > i
      <4>1. PICK q : q = j - i
        OBVIOUS
      <4>2. q \in 1 .. n - i /\ i + q = j
        BY <1>1, <1>2, <3>3, <4>1
      <4>3. b[j] = r[q] /\ r[q] = cur[j]
        BY <1>5, <2>5, <4>2
      <4>4. QED
        BY <2>3, <3>3, <4>3
    <3>4. QED
      BY <1>2, <3>1, <3>2, <3>3
  <2>8. b = e
    BY <2>3, <2>5, <2>6, <2>7, SeqEqual
  <2>9. QED
    BY <2>1, <2>4, <2>8
<1>7. cur = Append(f, cur[i]) \o r
  <2>1. cur[i] \in Line /\ [cur EXCEPT ![i] = cur[i]] = cur
    OBVIOUS
  <2>2. QED
    BY <1>6, <2>1
<1>8. QED
  BY <1>1, <1>2, <1>3, <1>4, <1>5, <1>6, <1>7

EditedParts(cur, i, new, f, r, x) ==
    /\ f \in Seq(Line) /\ r \in Seq(Line) /\ x \in Line /\ x = cur[i]
    /\ Len(f) = i - 1 /\ cur = Append(f, x) \o r
    /\ \/ \E y \in Line : y.kind \in {"edited", "legacy"} /\ y.nl /\ new = Append(f, y) \o r
       \/ new = f \o r

\* An edited file: a front, the line that was edited, replaced or removed, the rest.
LEMMA EditedIs ==
    ASSUME NEW cur \in Seq(Line), NEW i \in 1 .. Len(cur), cur[i].nl, NEW new, new \in EditOf(cur, i)
    PROVE  \E f, r, x : EditedParts(cur, i, new, f, r, x)
<1>1. PICK x \in Line : x = cur[i] /\ x.nl
  OBVIOUS
<1>2. PICK f \in Seq(Line), r \in Seq(Line) :
             /\ f = SubSeq(cur, 1, i - 1) /\ r = SubSeq(cur, i + 1, Len(cur))
             /\ Len(f) = i - 1 /\ cur = Append(f, cur[i]) \o r
             /\ \A y \in Line : [cur EXCEPT ![i] = y] = Append(f, y) \o r
  BY Parted
<1>3. PICK e : e = [x EXCEPT !.kind = "edited"]
  OBVIOUS
<1>4. e \in Line /\ e.kind = "edited" /\ e.nl
  BY <1>1, <1>3 DEF Line
<1>5. [cur EXCEPT ![i].kind = "edited"] = [cur EXCEPT ![i] = e]
  BY <1>1, <1>3
<1>6. new \in {Append(f, e) \o r, Append(f, LegacyLine) \o r, f \o r}
  <2>1. [cur EXCEPT ![i] = e] = Append(f, e) \o r /\ [cur EXCEPT ![i] = LegacyLine] = Append(f, LegacyLine) \o r
    BY <1>2, <1>4, LinesAre
  <2>2. QED
    BY <1>2, <1>5, <2>1 DEF EditOf
<1>7. EditedParts(cur, i, new, f, r, x)
  BY <1>1, <1>2, <1>4, <1>6, LinesAre DEF EditedParts
<1>8. QED
  BY <1>7

\* All lines of two parts are ended.
LEMMA EndedJoin ==
    ASSUME NEW s \in Seq(Line), NEW t \in Seq(Line)
    PROVE  AllEnded(s \o t) <=> AllEnded(s) /\ AllEnded(t)
<1> DEFINE S == {u \in Seq(Line) : AllEnded(s \o u) <=> AllEnded(s) /\ AllEnded(u)}
<1>1. <<>> \in S
  <2>1. AllEnded(<<>>)
    BY DEF AllEnded
  <2>2. QED
    BY <2>1, ConcatEmptySeq
<1>2. ASSUME NEW u \in Seq(Line), NEW l \in Line, u \in S
      PROVE  Append(u, l) \in S
  <2>1. s \o u \in Seq(Line) /\ s \o Append(u, l) = Append(s \o u, l)
    BY Joining
  <2>2. AllEnded(Append(s \o u, l)) <=> AllEnded(s \o u) /\ l.nl
    BY <2>1, InnerNext
  <2>3. AllEnded(Append(u, l)) <=> AllEnded(u) /\ l.nl
    BY InnerNext
  <2>4. QED
    BY <1>2, <2>1, <2>2, <2>3, AppendParts
<1>3. Seq(Line) \subseteq S
  BY <1>1, <1>2, SequencesBuilt
<1>4. QED
  BY <1>3

LEMMA EndedIsClosed ==
    ASSUME NEW s \in Seq(Line), AllEnded(s)
    PROVE  Inner(s) /\ ~Open(s)
<1>1. s # <<>> => Len(s) \in 1 .. Len(s)
  OBVIOUS
<1>2. QED
  BY <1>1 DEF AllEnded, Inner, Open

\* An edit, which concerns an ended line, leaves the shape of the files.
LEMMA EditShape ==
    ASSUME TypeOK, ShapeOK, Edit
    PROVE  ShapeOK'
<1>1. Stage' = Stage /\ faults' = faults
  BY EditIs DEF Stage, writer
<1>2. CASE EditSegment
  <2>1. current' = current /\ exists' = exists
    BY <1>2 DEF EditSegment
  <2>2. QED
    BY <1>1, <2>1 DEF ShapeOK
<1>3. ASSUME NEW i \in 1 .. Len(current), EditLine(i)
      PROVE  ShapeOK'
  <2>1. current \in Seq(Line) /\ current[i].nl /\ exists' = exists /\ current' \in EditOf(current, i)
    BY <1>3 DEF EditLine, TypeOK
  <2>2. PICK new : new = current'
    OBVIOUS
  <2>3. PICK f, r, x : EditedParts(current, i, new, f, r, x)
    BY <2>1, <2>2, EditedIs
  <2>4. /\ f \in Seq(Line) /\ r \in Seq(Line) /\ x \in Line /\ x.nl /\ current = Append(f, x) \o r
        /\ Append(f, x) \in Seq(Line)
    BY <2>1, <2>3, AppendParts DEF EditedParts
  <2>5. PICK g \in Seq(Line) : new = g \o r /\ (AllEnded(f) => AllEnded(g))
    <3>1. CASE new = f \o r
      BY <2>4, <3>1
    <3>2. ASSUME NEW y \in Line, y.nl, new = Append(f, y) \o r
          PROVE  \E g \in Seq(Line) : new = g \o r /\ (AllEnded(f) => AllEnded(g))
      <4>1. Append(f, y) \in Seq(Line) /\ (AllEnded(f) => AllEnded(Append(f, y)))
        BY <2>4, <3>2, AppendParts, InnerNext
      <4>2. QED
        BY <3>2, <4>1
    <3>3. QED
      BY <2>3, <3>1, <3>2 DEF EditedParts
  <2>6. Inner(current) /\ exists
    <3>1. current # <<>>
      BY <2>1
    <3>2. QED
      BY <3>1 DEF ShapeOK, Inner
  <2>7. CASE r = <<>>
    <3>1. current = Append(f, x) /\ new = g
      BY <2>4, <2>5, <2>7, ConcatEmptySeq
    <3>2. AllEnded(f)
      BY <2>4, <2>6, <3>1, InnerNext
    <3>3. Inner(new) /\ ~Open(new)
      BY <2>5, <3>1, <3>2, EndedIsClosed
    <3>4. Stage # "writing"
      <4>1. \A t \in Seq(Line) : current # Append(t, Piece) /\ current # Append(t, Junk)
        BY <2>4, <3>1, SameLast, LinesAre
      <4>2. QED
        BY <4>1 DEF ShapeOK
    <3>5. QED
      BY <1>1, <2>1, <2>2, <2>6, <3>3, <3>4 DEF ShapeOK, Inner
  <2>8. CASE r # <<>>
    <3>1. PICK q \in Seq(Line), l \in Line : r = Append(q, l)
      BY <2>4, <2>8, SplitLast
    <3>2. PICK c \in Seq(Line), d \in Seq(Line) : c = Append(f, x) \o q /\ d = g \o q
      BY <2>4, <2>5, Joining, <3>1
    <3>3. current = Append(c, l) /\ new = Append(d, l)
      <4>1. PICK a : a = Append(f, x)
        OBVIOUS
      <4>2. f \in Seq(Line) /\ x \in Line /\ q \in Seq(Line) /\ l \in Line /\ g \in Seq(Line)
        BY <2>4, <2>5, <3>1
      <4>3. a \in Seq(Line)
        BY <4>1, <4>2, AppendParts
      <4>4. a \o Append(q, l) = Append(a \o q, l)
        BY SMTT(30), <4>2, <4>3, Joining
      <4>5. g \o Append(q, l) = Append(g \o q, l)
        BY SMTT(40), <4>2, Joining
      <4>6. QED
        BY <2>4, <2>5, <3>1, <3>2, <4>1, <4>4, <4>5
    <3>4. AllEnded(d)
      <4>1. AllEnded(c)
        BY <2>6, <3>3, InnerNext
      <4>2. AllEnded(Append(f, x)) /\ AllEnded(q)
        BY <2>4, <3>2, <4>1, EndedJoin
      <4>3. AllEnded(f)
        BY <2>4, <4>2, InnerNext
      <4>4. QED
        BY <2>5, <3>2, <4>2, <4>3, EndedJoin
    <3>5. Inner(new) /\ (Open(new) <=> Open(current))
      BY <3>3, <3>4, InnerNext
    <3>6. Stage = "writing" => \E t \in Seq(Line) : new \in {Append(t, Piece), Append(t, Junk)}
      <4>1. SUFFICES ASSUME NEW t \in Seq(Line), current = Append(t, Piece) \/ current = Append(t, Junk)
                     PROVE  l = Piece \/ l = Junk
        BY <3>3 DEF ShapeOK
      <4>2. Piece \in Line /\ Junk \in Line
        BY LinesAre
      <4>3. QED
        BY <3>3, <4>1, <4>2, SameLast
    <3>7. QED
      BY <1>1, <2>1, <2>2, <2>6, <3>5, <3>6 DEF ShapeOK, Inner
  <2>9. QED
    BY <2>7, <2>8
<1>4. QED
  BY <1>2, <1>3, EditIs

\* The id of a record is not expected before it.
LEMMA IdIsNew ==
    ASSUME NEW s \in Seq(Line), NEW x \in Line, IsHashed(x), ~HasId(s, x.id), x.id \in 1 .. MaxRecords
    PROVE  Norm(Expected(Append(s, x))) # Norm(Expected(s))
<1>1. Expected(Append(s, x)) = x.id
  BY ExpectedNext DEF Follow, IsHashed
<1>2. Norm(x.id) = x.id /\ x.id # Genesis
  BY SomeConstants DEF Norm
<1>3. CASE Expected(s) = NoHash
  BY <1>1, <1>2, <1>3 DEF Norm
<1>4. CASE Expected(s) # NoHash
  <2>1. HasId(s, Expected(s))
    BY <1>4, ExpectedKnown
  <2>2. QED
    BY <1>1, <1>2, <1>4, <2>1 DEF Norm
<1>5. QED
  BY <1>3, <1>4

\* A line inside a chain without anomalies is edited or removed.
LEMMA LineCut ==
    ASSUME NEW b \in Seq(Line), NEW x \in Line, IsHashed(x), NEW r \in Seq(Line),
           NEW all, all = Append(b, x) \o r,
           Anomalies(all) = {}, Unedited(all), Once(all), Small(all), ~Quiet(r)
    PROVE  /\ Lasting(b \o r)
           /\ \A y \in Line : y.kind \in {"edited", "legacy"} => Lasting(Append(b, y) \o r)
<1>1. PICK u \in Seq(Line) : u = Append(b, x)
  BY AppendParts
<1>2. /\ Len(u) = Len(b) + 1 /\ u[Len(b) + 1] = x /\ \A i \in 1 .. Len(b) : u[i] = b[i]
      /\ Len(b) \in Nat /\ Len(r) \in Nat
  BY <1>1, AppendParts
<1>3. all \in Seq(Line) /\ Len(all) = Len(u) + Len(r) /\ \A i \in 1 .. Len(u) : all[i] = u[i]
  BY <1>1, Joining
<1>4. all[Len(b) + 1] = x /\ Len(b) + 1 \in 1 .. Len(all)
  BY <1>2, <1>3
<1>5. ~HasId(b, x.id)
  <2>1. SUFFICES ASSUME NEW i \in 1 .. Len(b), IsHashed(b[i]), b[i].id = x.id
                 PROVE  FALSE
    BY DEF HasId
  <2>2. all[i] = b[i] /\ i \in 1 .. Len(all) /\ i # Len(b) + 1
    BY <1>2, <1>3
  <2>3. QED
    BY <1>4, <2>1, <2>2 DEF Once
<1>6. x.id \in 1 .. MaxRecords
  BY <1>4 DEF Small, HasId
<1>7. Norm(Expected(u)) # Norm(Expected(b))
  BY <1>1, <1>5, <1>6, IdIsNew
<1>8. Anomalies(u \o r) = {} /\ Unedited(u \o r)
  BY <1>1
<1>9. Lasting(b \o r)
  BY <1>1, <1>7, <1>8, CutShows
<1>10. ASSUME NEW y \in Line, y.kind = "edited"
       PROVE  Lasting(Append(b, y) \o r)
  <2>1. IsHashed(y) /\ Wrong(y, Expected(b), FALSE)
    BY <1>10 DEF IsHashed, Wrong, StatusOf, Tampering
  <2>2. Lasting(Append(b, y)) /\ Append(b, y) \in Seq(Line)
    BY <2>1, LastWrong, AppendParts
  <2>3. QED
    BY <2>2, LastingJoin
<1>11. ASSUME NEW y \in Line, y.kind = "legacy"
       PROVE  Lasting(Append(b, y) \o r)
  <2>1. PICK v \in Seq(Line) : v = Append(b, y)
    BY AppendParts
  <2>2. Expected(v) = Expected(b)
    BY <1>11, <2>1, ExpectedNext DEF Follow
  <2>3. Norm(Expected(u)) # Norm(Expected(v))
    BY <1>7, <2>2
  <2>4. Lasting(v \o r)
    BY <1>1, <1>8, <2>1, <2>3, CutShows
  <2>5. QED
    BY <2>1, <2>4
<1>12. QED
  BY <1>9, <1>10, <1>11

\* The first of the segments is removed.
LEMMA SegmentCut ==
    ASSUME NEW u \in Seq(Line), NEW c \in Seq(Line), ~Quiet(u), ~Quiet(c),
           NEW all, all = u \o c, Anomalies(all) = {}, Unedited(all), Small(all)
    PROVE  Lasting(c)
<1>1. all \in Seq(Line) /\ Len(all) = Len(u) + Len(c) /\ \A i \in 1 .. Len(u) : all[i] = u[i]
  BY Joining
<1>2. Len(u) \in 0 .. Len(u) /\ Len(u) \in Nat /\ Len(c) \in Nat
  OBVIOUS
<1>3. PICK k \in 1 .. Len(u) : IsHashed(u[k]) /\ Expected(u) = u[k].id
  BY <1>2, HashComes DEF Quiet, Expected
<1>4. all[k] = u[k] /\ k \in 1 .. Len(all)
  BY <1>1, <1>2
<1>5. Expected(u) \in 1 .. MaxRecords
  BY <1>3, <1>4 DEF Small, HasId
<1>6. Norm(Expected(u)) # Norm(Expected(<<>>))
  BY <1>5, EmptyExpected, SomeConstants DEF Norm
<1>7. <<>> \in Seq(Line)
  OBVIOUS
<1>8. Lasting(<<>> \o c)
  BY <1>6, <1>7, CutShows
<1>9. QED
  BY <1>8, ConcatEmptySeq

LEMMA IdsAreSmall ==
    ASSUME TypeOK, IdsFit(All(segments, current), pc, mine, nextId)
    PROVE  Small(All(segments, current))
<1>1. nextId \in 1 .. NoHash
  BY DEF TypeOK
<1>2. \A x : x \in 1 .. nextId - 1 => x \in 1 .. MaxRecords
  BY <1>1, SomeConstants
<1>3. QED
  BY <1>2 DEF IdsFit, Small

LEMMA TwoJoined ==
    ASSUME NEW s \in Seq(Line), NEW t \in Seq(Line)
    PROVE  /\ s \o t \in Seq(Line) /\ Len(s \o t) = Len(s) + Len(t)
           /\ Len(s) \in Nat /\ Len(t) \in Nat
           /\ \A i \in 1 .. Len(t) : (s \o t)[Len(s) + i] = t[i]
<1>1. LegacyLine \in Line
  BY LinesAre
<1>2. Len(s) \in Nat /\ Len(t) \in Nat
  OBVIOUS
<1>3. QED
  BY <1>1, <1>2, Joining

\* One edit that was not of the last record leaves a line that is wrong for good.
LEMMA EditTamper ==
    ASSUME Inv, Edit
    PROVE  TamperOK'
<1>1. TypeOK /\ IdsOK /\ SlackOK /\ TamperOK
  BY DEF Inv
<1>2. edits \in Nat /\ edits' = edits + 1 /\ faults' = faults
  BY <1>1, EditIs DEF TypeOK
<1>3. PICK all, j : all = All(segments, current) /\ j = JoinAll(segments)
  OBVIOUS
<1>4. PICK cur \in Seq(Line), segs \in Seq(Files) : cur = current /\ segs = segments
  BY <1>1 DEF TypeOK, Files
<1>5. PICK all2, new : all2 = All(segments', current') /\ new = current'
  OBVIOUS
<1>6. SUFFICES ASSUME faults = 0, edits = 0, cutOff' PROVE Lasting(all2)
  <2>1. TamperOK' <=> (/\ edits' = 0 => ~cutOff'
                       /\ faults' = 0 /\ edits' = 1 /\ cutOff' => Lasting(all2))
    BY <1>5 DEF TamperOK
  <2>2. QED
    BY <1>2, <1>6, <2>1
<1>7. ~cutOff /\ Anomalies(all) = {} /\ IdsFit(all, pc, mine, nextId)
  BY <1>1, <1>3, <1>6, NoneReported DEF TamperOK, IdsOK
<1>8. Unedited(all) /\ Once(all) /\ Small(all)
  BY <1>1, <1>3, <1>7, IdsAreSmall DEF IdsFit
<1>9. j \in Seq(Line) /\ all = j \o cur
  BY <1>3, <1>4, JoinAllIs DEF All, Files
<1>10. ASSUME NEW i \in 1 .. Len(current), EditLine(i)
       PROVE  Lasting(all2)
  <2>1. /\ i \in 1 .. Len(cur) /\ cur[i].kind = "record" /\ cur[i].nl
        /\ new \in EditOf(cur, i) /\ segments' = segments
        /\ \E k \in Hashed(cur) : k > i
    BY <1>4, <1>5, <1>7, <1>6, <1>10 DEF EditLine
  <2>2. PICK f, r, x : EditedParts(cur, i, new, f, r, x)
    BY <2>1, EditedIs
  <2>3. /\ f \in Seq(Line) /\ r \in Seq(Line) /\ x \in Line /\ x = cur[i]
        /\ Len(f) = i - 1 /\ cur = Append(f, x) \o r
    BY <2>2 DEF EditedParts
  <2>4. PICK b, a : b = j \o f /\ a = Append(f, x)
    OBVIOUS
  <2>5. b \in Seq(Line) /\ a \in Seq(Line)
    BY <1>9, <2>3, <2>4, Joining, AppendParts
  <2>6. all = Append(b, x) \o r
    <3>1. all = j \o (a \o r)
      BY <1>9, <2>3, <2>4
    <3>2. j \o (a \o r) = (j \o a) \o r
      BY <1>9, <2>3, <2>5, Associative
    <3>3. j \o a = Append(b, x)
      BY SMTT(30), <1>9, <2>3, <2>4, Joining
    <3>4. QED
      BY <3>1, <3>2, <3>3
  <2>7. ~Quiet(r)
    <3>1. PICK k \in Hashed(cur) : k > i
      BY <2>1
    <3>2. k \in 1 .. Len(cur) /\ IsHashed(cur[k]) /\ k \in Nat /\ i \in Nat
      BY <3>1, <1>4, <2>1 DEF Hashed, IsHashed
    <3>3. Len(a) = i
      BY <2>1, <2>3, <2>4, AppendParts
    <3>4. Len(cur) = i + Len(r) /\ \A n \in 1 .. Len(r) : cur[i + n] = r[n]
      <4>1. a \o r = cur /\ r \in Seq(Line)
        BY <2>3, <2>4
      <4>2. /\ Len(a \o r) = Len(a) + Len(r)
            /\ \A n \in 1 .. Len(r) : (a \o r)[Len(a) + n] = r[n]
        BY <2>5, <4>1, TwoJoined
      <4>3. QED
        BY <3>3, <4>1, <4>2
    <3>5. Len(r) \in Nat
      BY <2>3
    <3>6. PICK n \in Nat : n = k - i
      BY <3>1, <3>2
    <3>7. n \in 1 .. Len(r) /\ i + n = k
      BY <3>1, <3>2, <3>4, <3>5, <3>6
    <3>8. QED
      BY <3>2, <3>4, <3>7 DEF Quiet
  <2>8. IsHashed(x)
    BY <2>1, <2>3 DEF IsHashed
  <2>9. /\ Lasting(b \o r)
        /\ \A y \in Line : y.kind \in {"edited", "legacy"} => Lasting(Append(b, y) \o r)
    BY <1>7, <1>8, <2>3, <2>5, <2>6, <2>7, <2>8, LineCut
  <2>10. all2 = j \o new
    BY <1>3, <1>5, <2>1 DEF All
  <2>11. CASE new = f \o r
    <3>1. j \o (f \o r) = (j \o f) \o r
      BY <1>9, <2>3, Associative
    <3>2. QED
      BY <2>4, <2>9, <2>10, <2>11, <3>1
  <2>12. ASSUME NEW y \in Line, y.kind \in {"edited", "legacy"}, new = Append(f, y) \o r
         PROVE  Lasting(all2)
    <3>1. PICK d \in Seq(Line) : d = Append(f, y)
      BY <2>3, AppendParts
    <3>2. j \o (d \o r) = (j \o d) \o r
      BY <1>9, <2>3, <3>1, Associative
    <3>3. j \o d = Append(b, y)
      BY SMTT(30), <1>9, <2>3, <2>4, <3>1, Joining
    <3>4. QED
      BY <2>9, <2>10, <2>12, <3>1, <3>2, <3>3
  <2>13. QED
    BY <2>2, <2>11, <2>12 DEF EditedParts
<1>11. CASE EditSegment
  <2>1. /\ segs # <<>> /\ segments' = Tail(segs) /\ new = cur
        /\ \E i \in Hashed(segs[1]), k \in Hashed(AllLines) : k > Len(segs[1])
    BY <1>4, <1>5, <1>6, <1>7, <1>11 DEF EditSegment
  <2>2. PICK u, t : u \in Seq(Line) /\ u = segs[1] /\ t = JoinAll(Tail(segs))
    BY <2>1, JoinTail DEF Files
  <2>3. t \in Seq(Line) /\ j = u \o t
    BY <1>3, <1>4, <2>1, <2>2, JoinTail, JoinAllIs DEF Files
  <2>4. PICK c \in Seq(Line) : c = t \o cur
    BY <2>3, TwoJoined
  <2>5. all = u \o c
    BY SMTT(30), <1>9, <2>3, <2>4, Associative
  <2>6. PICK i, k : i \in Hashed(u) /\ k \in Hashed(all) /\ k > Len(u)
    BY <1>3, <2>1, <2>2, AllLinesAre
  <2>7. ~Quiet(u)
    <3>1. i \in 1 .. Len(u) /\ IsHashed(u[i])
      BY <2>6 DEF Hashed, IsHashed
    <3>2. QED
      BY <3>1 DEF Quiet
  <2>8. ~Quiet(c)
    <3>1. /\ all \in Seq(Line) /\ Len(all) = Len(u) + Len(c) /\ Len(u) \in Nat /\ Len(c) \in Nat
          /\ \A n \in 1 .. Len(c) : all[Len(u) + n] = c[n]
      <4>1. u \in Seq(Line) /\ c \in Seq(Line)
        BY <2>2, <2>4
      <4>2. /\ u \o c \in Seq(Line) /\ Len(u \o c) = Len(u) + Len(c) /\ Len(u) \in Nat /\ Len(c) \in Nat
            /\ \A n \in 1 .. Len(c) : (u \o c)[Len(u) + n] = c[n]
        BY <4>1, TwoJoined
      <4>3. QED
        BY <2>5, <4>2
    <3>2. k \in 1 .. Len(all) /\ IsHashed(all[k])
      BY <2>6, <3>1 DEF Hashed, IsHashed
    <3>3. PICK n \in Nat : n = k - Len(u)
      <4>1. Len(all) \in Nat
        BY <3>1
      <4>2. k \in Nat
        BY <3>2, <4>1
      <4>3. k - Len(u) \in Nat
        BY <2>6, <3>1, <4>2
      <4>4. QED
        BY <4>3
    <3>4. n \in 1 .. Len(c) /\ Len(u) + n = k
      BY <2>6, <3>1, <3>2, <3>3
    <3>5. QED
      BY <3>1, <3>2, <3>4 DEF Quiet
  <2>9. Lasting(c)
    BY <1>7, <1>8, <2>2, <2>4, <2>5, <2>7, <2>8, SegmentCut
  <2>10. all2 = c
    BY <1>5, <2>1, <2>2, <2>4 DEF All
  <2>11. QED
    BY <2>9, <2>10
<1>12. QED
  BY <1>1, <1>10, <1>11, EditIs

\* An edit keeps the invariant.
LEMMA EditKeepsInv ==
    ASSUME Inv, Edit
    PROVE  Inv'
<1>1. TypeOK' /\ ShapeOK' /\ TamperOK'
  BY EditKeepsTypes, EditShape, EditTamper DEF Inv
<1>2. edits' # 0 /\ edits' > 0
  BY SMTT(30), EditIs DEF Inv, TypeOK
<1>3. IdsOK' /\ PrevsOK' /\ SlackOK'
  BY <1>2 DEF IdsOK, PrevsOK, SlackOK
<1>4. reader'.pc = "idle"
  BY EditIs DEF Inv, reading
<1>5. ReaderOK'
  BY <1>2, <1>4 DEF ReaderOK, NoFalseAlarm
<1>6. QED
  BY <1>1, <1>3, <1>5 DEF Inv

-----------------------------------------------------------------------------
(* The beginning, and the whole.                                           *)

\* The invariant holds at first, with a legacy line or without a file.
LEMMA InitKeeps ==
    ASSUME Init
    PROVE  Inv
<1>1. PICK cur : cur = current
  OBVIOUS
<1>2. segments = <<>> /\ (cur = <<>> \/ cur = Append(<<>>, LegacyLine)) /\ lock = Free /\ edits = 0 /\ faults = 0
  BY <1>1 DEF Init
<1>3. LegacyLine \in Line /\ LegacyLine.nl /\ LegacyLine.kind = "legacy" /\ <<>> \in Seq(Line)
  BY LinesAre DEF LegacyLine
<1>4. cur \in Seq(Line) /\ segments \in Seq(Files)
  <2>1. Append(<<>>, LegacyLine) \in Seq(Line)
    BY <1>3, AppendParts
  <2>2. <<>> \in Seq(Files)
    OBVIOUS
  <2>3. QED
    BY <1>2, <1>3, <2>1, <2>2
<1>5. All(segments, cur) = cur
  BY <1>2, <1>4, JoinAllIs, ConcatEmptySeq DEF All
<1>6. \A i \in 1 .. Len(cur) : cur[i] = LegacyLine /\ i = Len(cur)
  <2>1. CASE cur = <<>>
    BY <2>1
  <2>2. CASE cur = Append(<<>>, LegacyLine)
    <3>1. Len(cur) = 1 /\ cur[1] = LegacyLine
      BY <2>2
    <3>2. QED
      BY <3>1
  <2>3. QED
    BY <1>2, <2>1, <2>2
<1>7. TypeOK
  <2>1. env \in Environments /\ env.faults \in Nat /\ env.edits \in Nat /\ env.reads \in Nat /\ env.stalls \in Nat /\ env.legacy \in BOOLEAN
    BY ConstantsAssumption DEF Init
  <2>2. NoHash \in Nat /\ 1 \in 1 .. NoHash
    BY SomeConstants
  <2>3. reader \in Readers
    BY <1>3 DEF Init, NotReading, Readers
  <2>4. segments \in Seq(Seq(Line)) /\ current \in Seq(Line)
    BY <1>1, <1>4 DEF Files
  <2>5. \A w \in Writers : pc[w] \notin {"idle", "waiting"} <=> lock = w
    BY ConstantsAssumption DEF Init
  <2>6. /\ pc \in [Writers -> {"idle", "waiting", "locked", "read", "ready", "writing", "hung"}]
        /\ mine \in [Writers -> Nat] /\ prev \in [Writers -> Nat] /\ needsNl \in [Writers -> BOOLEAN]
        /\ nextId \in 1 .. NoHash /\ lock \in Writers \cup {Free}
    BY <2>2 DEF Init, Genesis
  <2>7. /\ {exists, cutOff, moved, caught} \subseteq BOOLEAN
        /\ verdict \in {"none", "clean", "tampered", "read_error"} /\ env \in Environments
    BY <2>1 DEF Init
  <2>8. /\ faults \in 0 .. env.faults /\ edits \in 0 .. env.edits
        /\ reads \in 0 .. env.reads /\ stalls \in 0 .. env.stalls
    BY <2>1 DEF Init
  <2>9. QED
    BY <2>3, <2>4, <2>5, <2>6, <2>7, <2>8 DEF TypeOK, Readers
<1>8. Stage = "free"
  BY <1>2 DEF Stage
<1>9. ShapeOK
  <2>1. current # <<>> => exists
    BY DEF Init
  <2>2. ~Open(cur)
    BY <1>2, <1>3, LastOf DEF Open
  <2>3. QED
    BY <1>1, <1>3, <1>6, <1>8, <2>1, <2>2 DEF ShapeOK
<1>10. IdsOK
  <2>1. \A i \in 1 .. Len(cur) : ~IsHashed(cur[i]) /\ cur[i].kind # "edited"
    BY <1>3, <1>6 DEF IsHashed
  <2>2. \A w \in Writers : pc[w] = "idle"
    BY DEF Init
  <2>3. IdsFit(cur, pc, mine, nextId)
    BY <2>1, <2>2 DEF IdsFit, Unedited, Once, HasId
  <2>4. QED
    BY <1>1, <1>5, <2>3 DEF IdsOK
<1>11. PrevsOK
  <2>1. \A front \in Seq(Line), l \in Line : cur = Append(front, l) => l = LegacyLine
    BY <1>2, <1>3, SameLast, LastOf
  <2>2. OpenIsKnown(Solid(segments, current), cur, faults)
    BY <1>3, <2>1 DEF OpenIsKnown
  <2>3. QED
    BY <1>1, <1>8, <2>2 DEF PrevsOK
<1>12. SlackOK
  <2>1. TailOf(segments, cur) = NoHash
    <3>1. cur # <<>> => TailHash(cur) = NoHash
      <4>1. SUFFICES ASSUME cur = Append(<<>>, LegacyLine) PROVE TailHash(cur) = NoHash
        BY <1>2
      <4>2. Terminated(cur) = cur
        BY <1>3, <4>1, TerminatedIs
      <4>3. Hashed(cur) = {}
        BY <1>3, <1>4, <1>6 DEF Hashed
      <4>4. QED
        BY <4>2, <4>3 DEF TailHash
    <3>2. QED
      BY <1>2, <3>1 DEF TailOf
  <2>2. BadCount(cur) = 0 /\ Cardinality(Anomalies(cur)) = 0 /\ Expected(cur) = NoHash
    <3>1. CASE cur = <<>>
      BY <3>1, NothingBad, EmptyExpected, FS_EmptySet
    <3>2. CASE cur = Append(<<>>, LegacyLine)
      <4>1. Wrong(LegacyLine, NoHash, FALSE) = FALSE /\ Wrong(LegacyLine, NoHash, TRUE) = FALSE
        BY <1>3 DEF Wrong, StatusOf, Tampering
      <4>2. Expected(cur) = NoHash
        BY <1>3, <3>2, ExpectedNext, EmptyExpected DEF Follow
      <4>3. PICK m, n : m = Counted(Wrong(LegacyLine, NoHash, FALSE)) /\ n = Counted(Wrong(LegacyLine, NoHash, TRUE))
        OBVIOUS
      <4>4. m = 0 /\ n = 0
        BY <4>1, <4>3 DEF Counted
      <4>5. BadCount(cur) = 0 + m /\ Cardinality(Anomalies(cur)) = 0 + n
        BY <1>3, <3>2, <4>3, BadCounts, NothingBad, EmptyExpected
      <4>6. QED
        BY <4>2, <4>4, <4>5
    <3>3. QED
      BY <1>2, <3>1, <3>2
  <2>3. Cost(cur, Norm(NoHash)) = 0
    <3>1. Counted(Norm(NoHash) # Norm(Expected(cur))) = 0
      BY <2>2 DEF Counted
    <3>2. QED
      BY <2>2, <3>1 DEF Cost
  <2>4. SlackFit(segments, cur, 0, "free", needsNl[lock], prev[lock])
    BY <1>5, <2>1, <2>2, <2>3 DEF SlackFit
  <2>5. QED
    BY <1>1, <1>2, <1>8, <2>4 DEF SlackOK
<1>13. ReaderOK
  BY DEF Init, NotReading, ReaderOK, NoFalseAlarm
<1>14. TamperOK
  BY DEF Init, TamperOK
<1>15. QED
  BY <1>7, <1>9, <1>10, <1>11, <1>12, <1>13, <1>14 DEF Inv

LEMMA RestKeepsInv ==
    ASSUME Inv, UNCHANGED vars
    PROVE  Inv'
<1>1. UNCHANGED <<segments, current, exists, lock, pc, mine, prev, needsNl, nextId, reader, verdict, env, faults,
                  edits, reads, stalls, cutOff, moved, caught>>
  BY DEF vars, disk, writer, reading, meddling
<1>2. TypeOK'
  BY <1>1 DEF Inv, TypeOK
<1>3. Stage' = Stage
  BY <1>1 DEF Stage
<1>4. ShapeOK'
  BY <1>1, <1>3 DEF Inv, ShapeOK
<1>5. IdsOK' /\ PrevsOK' /\ SlackOK'
  BY <1>1, <1>3 DEF Inv, IdsOK, PrevsOK, SlackOK
<1>6. ReaderOK' /\ TamperOK'
  BY <1>1 DEF Inv, ReaderOK, IsOpen, OpenFile, TamperOK, NoFalseAlarm
<1>7. QED
  BY <1>2, <1>4, <1>5, <1>6 DEF Inv

(* The invariant holds in every state the log can reach, whatever the      *)
(* number of writers and records and the size at which it is rotated.      *)
THEOREM InvHolds == Spec => []Inv
<1>1. Init => Inv
  BY InitKeeps
<1>2. Inv /\ [Next]_vars => Inv'
  <2>1. SUFFICES ASSUME Inv, Next PROVE Inv'
    BY RestKeepsInv
  <2>2. QED
    BY <2>1, WritersKeepInv, ReadersKeepInv, EditKeepsInv DEF Next
<1>3. QED
  BY <1>1, <1>2, PTL DEF Spec

(* The log is well formed, one writer at a time is past the lock, and each *)
(* crash, failed write, failed rotation and unreadable tail is reported at *)
(* two lines at most (_append under the locks, verify_chain).              *)
THEOREM LogIsLocal == Spec => []LogInv
<1>1. Inv => LogInv
  <2>1. SUFFICES ASSUME Inv PROVE LogInv
    OBVIOUS
  <2>2. edits = 0 => Cardinality(Anomalies(All(segments, current))) <= 2 * faults
    BY <2>1 DEF Inv, SlackOK, SlackFit
  <2>3. QED
    BY <2>1, <2>2, AllLinesAre DEF Inv, LogInv, DamageIsLocal
<1>2. QED
  BY <1>1, InvHolds, PTL

(* verify_chain's verdict can be relied on: an edit that is not of the     *)
(* last record is reported; and an untouched log whose writes all          *)
(* succeeded is not, unless it was rotated between its being listed and    *)
(* its being opened, or the reader met a line half written and then its    *)
(* rest.                                                                   *)
THEOREM VerdictHolds == Spec => []VerdictIsTrue
<1>1. Inv => VerdictIsTrue
  <2>1. SUFFICES ASSUME Inv PROVE VerdictIsTrue
    OBVIOUS
  <2>2. NoFalseAlarm
    BY <2>1 DEF Inv, ReaderOK
  <2>3. ASSUME faults = 0, edits = 1, cutOff
        PROVE  Anomalies(AllLines) # {}
    <3>1. PICK s : s = All(segments, current)
      OBVIOUS
    <3>2. s \in Seq(Line)
      <4>1. segments \in Seq(Files) /\ current \in Seq(Line)
        BY <2>1 DEF Inv, TypeOK, Files
      <4>2. JoinAll(segments) \in Seq(Line)
        BY <4>1, JoinAllIs DEF Files
      <4>3. QED
        BY <3>1, <4>1, <4>2, TwoJoined DEF All
    <3>3. PICK i \in 1 .. Len(s) : /\ IsHashed(s[i]) \/ s[i].kind = "legacy"
                                   /\ Wrong(s[i], Hashes(s)[i - 1], FALSE)
      BY <2>1, <2>3, <3>1 DEF Inv, TamperOK, Lasting
    <3>4. s[i] \in Line /\ DOMAIN s = 1 .. Len(s)
      BY <3>2
    <3>5. PICK l, h : l = s[i] /\ h = Hashes(s)[i - 1]
      OBVIOUS
    <3>6. Wrong(l, h, TRUE) /\ Wrong(l, h, FALSE)
      BY <3>3, <3>5 DEF Wrong, StatusOf, IsHashed
    <3>7. Wrong(l, h, i = Len(s))
      <4>1. CASE i = Len(s)
        BY <3>6, <4>1, Zenon
      <4>2. CASE i # Len(s)
        BY <3>6, <4>2, Zenon
      <4>3. QED
        BY <4>1, <4>2
    <3>8. i \in Anomalies(s)
      BY <3>3, <3>4, <3>5, <3>7, AnomaliesAre
    <3>9. QED
      BY <3>1, <3>8, AllLinesAre
  <2>4. QED
    BY <2>2, <2>3 DEF VerdictIsTrue, TamperingShows
<1>2. QED
  BY <1>1, InvHolds, PTL

-----------------------------------------------------------------------------
(* The log keeps what EvidenceLog promises.                                *)

\* A whole line comes to what a reader finds.
Longer(s, t, wrong) ==
    \E l \in Line :
        /\ t = Append(s, l)
        /\ l.kind = "record" => l.prev = Norm(Expected(s)) \/ (wrong > 0 /\ Known(s, l.prev))

\* An open line is ended, by a newline or by a rotation.
LEMMA OpenLonger ==
    ASSUME NEW s \in Seq(Line), NEW cur, NEW front \in Seq(Line), NEW l \in Line, cur = Append(front, l), ~l.nl,
           NEW wrong, OpenIsKnown(s, cur, wrong),
           NEW e \in Line, e.kind = l.kind, e.prev = l.prev
    PROVE  Longer(s, Append(s, e), wrong)
  BY DEF OpenIsKnown, Longer

\* A step of a writer leaves the solid lines alone or makes one line whole.
LEMMA SolidStep ==
    ASSUME Inv, NEW w \in Writers, Begin(w) \/ Steps(w) \/ Stall(w), edits = 0,
           NEW s, NEW t, s = Solid(segments, current), t = Solid(segments', current')
    PROVE  \/ t = s /\ faults' \in {faults, faults + 1}
           \/ Longer(s, t, faults) /\ faults' = faults
<1>1. TypeOK /\ ShapeOK /\ PrevsOK /\ SlackOK
  BY DEF Inv
<1>2. segments \in Seq(Files) /\ current \in Seq(Line) /\ prev \in [Writers -> Nat]
  BY <1>1, FilesFit DEF FilesOK, Files, TypeOK
<1>3. s \in Seq(Line) /\ OpenIsKnown(s, current, faults) /\ (Stage \in Chained => Known(s, prev[lock]))
  BY <1>1, <1>2, SolidIs DEF PrevsOK, Chained
<1>4. faults \in Nat /\ faults' \in {faults, faults + 1}
  <2>1. faults \in Nat
    BY <1>1, EnvFits DEF TypeOK
  <2>2. QED
    BY <1>1, <2>1, CountsStep
<1>5. CASE segments' = segments /\ current' = current
  BY <1>4, <1>5
<1>6. ASSUME NEW b \in BOOLEAN, Rotate(w, b), segments' = Append(segments, current), current' = <<>>
      PROVE  t = s \/ (Longer(s, t, faults) /\ faults' = faults)
  <2>1. t = All(segments, current)
    <3>1. PICK more \in Seq(Files) : more = Append(segments, current)
      BY <1>2, AppendParts DEF Files
    <3>2. Solid(more, <<>>) = All(more, <<>>)
      <4>1. <<>> \in Seq(Line) /\ LegacyLine \in Line
        BY LinesAre
      <4>2. QED
        BY <3>1, <4>1, AllIs
    <3>3. All(Append(segments, current), <<>>) = All(segments, current)
      BY <1>2, AllIs, LinesAre
    <3>4. QED
      BY <1>6, <3>1, <3>2, <3>3
  <2>2. CASE ~Open(current)
    BY <1>2, <2>1, <2>2, SolidIs
  <2>3. CASE Open(current)
    <3>1. PICK front \in Seq(Line), l \in Line : current = Append(front, l)
      BY <1>2, <2>3, SplitLast DEF Open
    <3>2. ~l.nl
      BY <2>3, <3>1, LastOf DEF Open
    <3>3. s = All(segments, front) /\ t = Append(s, l)
      BY SMTT(30), <1>2, <2>1, <3>1, <3>2, AllIs
    <3>4. Longer(s, t, faults)
      BY <1>3, <3>1, <3>2, <3>3, OpenLonger
    <3>5. faults' = faults
      <4>1. CASE b
        BY <1>4, <1>6, <4>1 DEF Rotate, Faulty
      <4>2. CASE ~b
        <5>1. segments' = segments
          BY <1>6, <4>2 DEF Rotate, disk
        <5>2. Len(Append(segments, current)) = Len(segments) + 1 /\ Len(segments) \in Nat
          BY <1>2, AppendParts DEF Files
        <5>3. QED
          BY <1>6, <5>1, <5>2
      <4>3. QED
        BY <4>1, <4>2
    <3>6. QED
      BY <3>4, <3>5
  <2>4. QED
    BY <2>2, <2>3
<1>7. CASE WritePiece(w)
  <2>1. /\ Begun(current, needsNl[w], current') /\ needsNl[w] \in BOOLEAN
        /\ segments' = segments /\ faults' = faults
    BY <1>1, <1>7, PieceIs DEF WritePiece
  <2>2. PICK new : new = current'
    OBVIOUS
  <2>3. BegunAmong(segments, current, needsNl[w], new)
    BY <1>2, <2>1, <2>2, BegunIs, Zenon
  <2>4. t = Solid(segments, new)
    BY <2>1, <2>2
  <2>5. Piece \in Line /\ Junk \in Line /\ ~Piece.nl /\ ~Junk.nl
    BY LinesAre
  <2>6. CASE ~Open(current) /\ new = Append(current, Piece)
    <3>1. t = s
      BY <1>2, <2>4, <2>5, <2>6, AllIs, SolidIs
    <3>2. QED
      BY <1>4, <3>1
  <2>7. CASE ~(~Open(current) /\ new = Append(current, Piece))
    <3>1. PICK front \in Seq(Line), l \in Line, base \in Seq(Line) :
            /\ base = All(segments, front) /\ current = Append(front, l) /\ ~l.nl
            /\ Ended(l) \in Line /\ Append(front, Ended(l)) \in Seq(Line)
            /\ All(segments, Append(front, Ended(l))) = Append(base, Ended(l))
            /\ new = Append(Append(front, Ended(l)), Piece) \/ new = Append(front, Junk)
      BY <2>3, <2>7 DEF BegunAmong
    <3>2. s = base
      BY <1>2, <3>1, AllIs
    <3>3. CASE new = Append(Append(front, Ended(l)), Piece)
      <4>1. PICK g \in Seq(Line), e \in Line : g = Append(front, Ended(l)) /\ e = Ended(l)
        BY <3>1
      <4>2. t = All(segments, g)
        BY <1>2, <2>4, <2>5, <3>3, <4>1, AllIs
      <4>3. t = Append(s, e)
        BY <3>1, <3>2, <4>1, <4>2
      <4>4. e.kind = l.kind /\ e.prev = l.prev
        BY <4>1, LinesAre
      <4>5. Longer(s, t, faults)
        BY <1>3, <3>1, <4>3, <4>4, OpenLonger
      <4>6. QED
        BY <2>1, <4>5
    <3>4. CASE new = Append(front, Junk)
      <4>1. t = s
        BY <1>2, <2>4, <2>5, <3>1, <3>2, <3>4, AllIs
      <4>2. QED
        BY <1>4, <4>1
    <3>5. QED
      BY <3>1, <3>3, <3>4
  <2>8. QED
    BY <2>6, <2>7
<1>8. CASE WriteRest(w) \/ \E b \in BOOLEAN : WriteCut(w, b)
  <2>1. /\ WriteRest(w) => Ends(current, mine[w], prev[w], TRUE, current') /\ faults' = faults
        /\ (\E b \in BOOLEAN : WriteCut(w, b)) =>
                 (current' = current \/ Ends(current, mine[w], prev[w], FALSE, current'))
        /\ segments' = segments /\ lock = w /\ Stage = "writing"
        /\ mine[w] \in Nat /\ prev[w] \in Nat
    BY <1>1, <1>8, RestIs
  <2>2. PICK new, p : new = current' /\ p = prev[w]
    OBVIOUS
  <2>3. ASSUME NEW nl \in BOOLEAN, Ends(current, mine[w], prev[w], nl, current')
        PROVE  t = s \/ (nl /\ Longer(s, t, faults))
    <3>1. Ends(current, mine[w], p, nl, new) /\ p \in Nat
      BY <2>1, <2>2, <2>3
    <3>2. EndsAmong(segments, current, mine[w], p, nl, new)
      BY <1>2, <2>1, <3>1, EndsAre, Zenon
    <3>3. PICK front \in Seq(Line), base \in Seq(Line), l \in Line :
              /\ base = All(segments, front) /\ l.nl = nl /\ new = Append(front, l) /\ All(segments, new) = Append(base, l)
              /\ \/ current = Append(front, Piece) /\ l.prev = p
                 \/ current = Append(front, Junk) /\ l.kind = "junk"
      BY <3>2 DEF EndsAmong
    <3>4. s = base
      <4>1. Piece \in Line /\ Junk \in Line /\ ~Piece.nl /\ ~Junk.nl
        BY LinesAre
      <4>2. PICK k \in Line : ~k.nl /\ current = Append(front, k)
        BY <3>3, <4>1
      <4>3. QED
        BY <1>2, <3>3, <4>2, AllIs
    <3>5. t = Solid(segments, new)
      BY <2>1, <2>2
    <3>6. t = IF nl THEN Append(s, l) ELSE s
      BY <1>2, <3>3, <3>4, <3>5, AllIs
    <3>7. CASE ~nl
      BY <3>6, <3>7
    <3>8. CASE nl /\ l.kind = "junk"
      BY <3>6, <3>8 DEF Longer
    <3>9. CASE nl /\ current = Append(front, Piece) /\ l.prev = p
      <4>1. Known(s, p)
        BY <1>3, <2>1, <2>2 DEF Chained
      <4>2. Cost(s, p) <= 2 * faults
        BY <1>1, <2>1, <2>2, <3>3, <3>4, <3>9 DEF SlackOK, SlackFit
      <4>3. faults = 0 => p = Norm(Expected(s))
        <5>1. BadCount(s) \in Nat
          BY <1>3, <2>1, BadCounts, LinesAre
        <5>2. PICK k, c : k = BadCount(s) /\ c = Counted(p # Norm(Expected(s)))
          OBVIOUS
        <5>3. k + c <= 2 * faults
          BY <4>2, <5>2 DEF Cost
        <5>4. c \in {0, 1} /\ (p # Norm(Expected(s)) => c = 1)
          BY <5>2 DEF Counted
        <5>5. QED
          BY <1>4, <5>1, <5>2, <5>3, <5>4
      <4>4. faults # 0 => faults > 0
        BY <1>4
      <4>5. QED
        BY <3>6, <3>9, <4>1, <4>3, <4>4 DEF Longer
    <3>10. QED
      BY <3>3, <3>7, <3>8, <3>9
  <2>4. CASE WriteRest(w)
    BY <1>4, <2>1, <2>3, <2>4
  <2>5. CASE \E b \in BOOLEAN : WriteCut(w, b)
    <3>1. current' = current => t = s
      BY <2>1
    <3>2. Ends(current, mine[w], prev[w], FALSE, current') => t = s
      BY <2>3
    <3>3. QED
      BY <1>4, <2>1, <2>5, <3>1, <3>2
  <2>6. QED
    BY <1>8, <2>4, <2>5
<1>9. CASE \E b \in BOOLEAN : Rotate(w, b)
  <2>1. PICK b \in BOOLEAN : Rotate(w, b)
    BY <1>9
  <2>2. \/ segments' = segments /\ current' = current
        \/ segments' = Append(segments, current) /\ current' = <<>>
    BY <2>1 DEF Rotate, Rotated, disk
  <2>3. QED
    BY <1>4, <1>5, <1>6, <2>1, <2>2
<1>10. CASE Begin(w) \/ TimeOut(w) \/ Acquire(w) \/ Abandon(w) \/ Stall(w) \/ \E b \in BOOLEAN : ReadTail(w, b)
  <2>1. segments' = segments /\ current' = current
    BY <1>10 DEF Begin, TimeOut, Acquire, Abandon, Stall, ReadTail, disk
  <2>2. QED
    BY <1>5, <2>1
<1>11. QED
  BY <1>7, <1>8, <1>9, <1>10 DEF Steps

\* What EvidenceLog sees of the records.
Seen(l) == [id |-> l.id, prev |-> l.prev]
Mapped(found) == [i \in DOMAIN found |-> Seen(found[i])]
Entries == [id : Nat, prev : Nat]

\* The mapping, with one record more.
LEMMA MappedIs ==
    /\ Mapped(<<>>) = <<>>
    /\ \A found \in Seq(Line) : Mapped(found) \in Seq(Entries) /\ Len(Mapped(found)) = Len(found)
                                /\ \A i \in 1 .. Len(found) : Mapped(found)[i] = Seen(found[i])
    /\ \A found \in Seq(Line), l \in Line : Mapped(Append(found, l)) = Append(Mapped(found), Seen(l))
<1>1. \A l \in Line : Seen(l) \in Entries
  BY DEF Seen, Entries, Line
<1>2. ASSUME NEW found \in Seq(Line)
      PROVE  /\ Mapped(found) \in Seq(Entries) /\ Len(Mapped(found)) = Len(found)
             /\ \A i \in 1 .. Len(found) : Mapped(found)[i] = Seen(found[i])
  <2>1. PICK n \in Nat : n = Len(found) /\ DOMAIN found = 1 .. n /\ \A i \in 1 .. n : found[i] \in Line
    OBVIOUS
  <2>2. PICK m : m = Mapped(found)
    OBVIOUS
  <2>3. m \in [1 .. n -> Entries] /\ \A i \in 1 .. n : m[i] = Seen(found[i])
    BY <1>1, <2>1, <2>2 DEF Mapped
  <2>4. m \in Seq(Entries) /\ Len(m) = n
    BY <2>1, <2>3
  <2>5. QED
    BY <2>1, <2>2, <2>3, <2>4
<1>3. ASSUME NEW found \in Seq(Line), NEW l \in Line
      PROVE  Mapped(Append(found, l)) = Append(Mapped(found), Seen(l))
  <2>1. PICK t, a, b, n :
           /\ t = Append(found, l) /\ a = Mapped(t) /\ b = Mapped(found) /\ n = Len(found)
           /\ t \in Seq(Line) /\ n \in Nat
    BY AppendParts
  <2>2. Len(t) = n + 1 /\ t[n + 1] = l /\ \A i \in 1 .. n : t[i] = found[i]
    BY <2>1, AppendParts
  <2>3. /\ a \in Seq(Entries) /\ Len(a) = n + 1 /\ \A i \in 1 .. n + 1 : a[i] = Seen(t[i])
        /\ b \in Seq(Entries) /\ Len(b) = n /\ \A i \in 1 .. n : b[i] = Seen(found[i])
    BY <1>2, <2>1, <2>2
  <2>4. PICK e \in Entries : e = Seen(l)
    BY <1>1
  <2>5. PICK c : c = Append(b, e)
    OBVIOUS
  <2>6. c \in Seq(Entries) /\ Len(c) = n + 1 /\ c[n + 1] = e /\ \A i \in 1 .. n : c[i] = b[i]
    BY <2>1, <2>3, <2>4, <2>5
  <2>7. \A i \in 1 .. n + 1 : a[i] = c[i]
    <3>1. \A i \in 1 .. n : a[i] = c[i]
      BY <2>1, <2>2, <2>3, <2>6
    <3>2. a[n + 1] = c[n + 1]
      BY <2>1, <2>2, <2>3, <2>4, <2>6
    <3>3. \A i \in 1 .. n + 1 : i \in 1 .. n \/ i = n + 1
      BY <2>1
    <3>4. QED
      BY <3>1, <3>2, <3>3
  <2>8. a = c
    BY <2>3, <2>6, <2>7, SeqEqual
  <2>9. QED
    BY <2>1, <2>4, <2>5, <2>8
<1>4. Mapped(<<>>) = <<>>
  BY <1>2, EmptySeq
<1>5. QED
  BY <1>2, <1>3, <1>4

\* A step of the promise, for logs as they are.
Extends(a, b, wrong) ==
    \E id \in Ids, p \in Ids \cup {Genesis} :
        /\ id \notin {a[i].id : i \in DOMAIN a}
        /\ p = (IF a = <<>> THEN Genesis ELSE a[Len(a)].id)
           \/ (wrong > 0 /\ p \in {a[i].id : i \in DOMAIN a} \cup {Genesis})
        /\ b = Append(a, [id |-> id, prev |-> p])

\* A line that becomes whole is a record that extends the log, or none.
LEMMA LongerExtends ==
    ASSUME NEW s \in Seq(Line), NEW t, NEW wrong, Longer(s, t, wrong), Unedited(t), Once(t), Small(t),
           NEW a, NEW b, a = Mapped(Records(s)), b = Mapped(Records(t))
    PROVE  b = a \/ Extends(a, b, wrong)
<1>1. PICK l \in Line :
        /\ t = Append(s, l)
        /\ l.kind = "record" => l.prev = Norm(Expected(s)) \/ (wrong > 0 /\ Known(s, l.prev))
  BY DEF Longer
<1>2. PICK found, more : found = Records(s) /\ more = Records(t)
  OBVIOUS
<1>3. found \in Seq(Line) /\ more = Add(found, l)
  BY <1>1, <1>2, RecordsAre
<1>4. CASE l.kind # "record"
  BY <1>2, <1>3, <1>4 DEF Add
<1>5. CASE l.kind = "record"
  <2>1. b = Append(a, [id |-> l.id, prev |-> l.prev])
    BY <1>2, <1>3, <1>5, MappedIs DEF Add, Seen
  <2>2. IsHashed(l)
    BY <1>5 DEF IsHashed
  <2>3. ~HasId(s, l.id) /\ HasId(t, l.id) /\ Unedited(s)
    <3>1. Once(s) /\ ~HasId(s, l.id)
      BY <1>1, <2>2, OnceNext
    <3>2. HasId(t, l.id)
      BY <1>1, <2>2, PartsNext
    <3>3. Unedited(s)
      BY <1>1, PartsNext
    <3>4. QED
      BY <3>1, <3>2, <3>3
  <2>4. \A x : HasId(s, x) => x \in Ids
    BY <1>1, PartsNext DEF Small, Ids
  <2>5. l.id \in Ids
    BY <2>3 DEF Small, Ids
  <2>6. /\ Expected(s) = IF found = <<>> THEN NoHash ELSE found[Len(found)].id
        /\ \A x : HasId(s, x) <=> \E i \in 1 .. Len(found) : found[i].id = x
    BY <1>2, <2>3, RecordsTell DEF Tells
  <2>7. /\ a \in Seq(Entries) /\ Len(a) = Len(found) /\ \A i \in 1 .. Len(found) : a[i] = Seen(found[i])
    BY <1>2, <1>3, MappedIs
  <2>8. DOMAIN a = 1 .. Len(found) /\ \A i \in 1 .. Len(found) : a[i].id = found[i].id
    <3>1. DOMAIN a = 1 .. Len(found)
      BY <2>7
    <3>2. \A k : Seen(k).id = k.id
      BY DEF Seen
    <3>3. QED
      BY <2>7, <3>1, <3>2
  <2>9. \A x : HasId(s, x) <=> x \in {a[i].id : i \in DOMAIN a}
    BY <2>6, <2>8
  <2>10. Norm(Expected(s)) = IF a = <<>> THEN Genesis ELSE a[Len(a)].id
    <3>1. CASE found = <<>>
      <4>1. a = <<>>
        BY <2>7, <3>1, EmptySeq
      <4>2. QED
        BY <2>6, <3>1, <4>1 DEF Norm
    <3>2. CASE found # <<>>
      <4>1. Len(found) \in 1 .. Len(found)
        BY <1>3, <3>2
      <4>2. a # <<>> /\ a[Len(a)].id = found[Len(found)].id
        BY <2>7, <2>8, <4>1
      <4>3. HasId(s, found[Len(found)].id)
        BY <2>6, <4>1
      <4>4. found[Len(found)].id # NoHash
        BY <2>4, <4>3, SomeConstants DEF Ids
      <4>5. QED
        BY <2>6, <3>2, <4>2, <4>4 DEF Norm
    <3>3. QED
      BY <3>1, <3>2
  <2>11. l.prev \in Ids \cup {Genesis}
    <3>1. Known(s, l.prev) => l.prev \in Ids \cup {Genesis}
      BY <2>4 DEF Known
    <3>2. Norm(Expected(s)) \in Ids \cup {Genesis}
      <4>1. CASE Expected(s) = NoHash
        BY <4>1 DEF Norm
      <4>2. CASE Expected(s) # NoHash
        BY <2>4, <4>2, ExpectedKnown DEF Norm
      <4>3. QED
        BY <4>1, <4>2
    <3>3. QED
      BY <1>1, <1>5, <3>1, <3>2
  <2>12. \/ l.prev = (IF a = <<>> THEN Genesis ELSE a[Len(a)].id)
         \/ wrong > 0 /\ l.prev \in {a[i].id : i \in DOMAIN a} \cup {Genesis}
    BY <1>1, <1>5, <2>9, <2>10 DEF Known
  <2>13. l.id \notin {a[i].id : i \in DOMAIN a}
    BY <2>3, <2>9
  <2>14. QED
    BY <2>1, <2>5, <2>11, <2>12, <2>13 DEF Extends
<1>6. QED
  BY <1>4, <1>5

LEMMA ReadableIs ==
    /\ Readable = Records(Solid(segments, current))
    /\ Readable' = Records(Solid(segments', current'))
  BY DEF Readable, Joined, Solid, JoinAll, JoinOf, Joins

LEMMA ExtendsPromise ==
    ASSUME Extends(Mapped(Readable), Mapped(Readable'), faults), faults' = faults, edits = 0, edits' = 0
    PROVE  Promise!Next
<1>1. PICK a, b : a = Mapped(Readable) /\ b = Mapped(Readable')
  OBVIOUS
<1>2. PICK id \in Ids, p \in Ids \cup {Genesis} :
        /\ id \notin {a[i].id : i \in DOMAIN a}
        /\ p = (IF a = <<>> THEN Genesis ELSE a[Len(a)].id)
           \/ (faults > 0 /\ p \in {a[i].id : i \in DOMAIN a} \cup {Genesis})
        /\ b = Append(a, [id |-> id, prev |-> p])
  BY <1>1 DEF Extends
<1>3. Promise!Extend(id, p)
  BY <1>1, <1>2 DEF Promise!Extend, Promise!Logged, Promise!LastId, Promise!Genesis, Genesis, Mapped, Seen
<1>4. QED
  BY <1>2, <1>3 DEF Promise!Next, Promise!Genesis, Genesis

\* Each step is one of the promise, or changes nothing of it.
LEMMA StepKeepsPromise ==
    ASSUME Inv, Inv', [Next]_vars
    PROVE  [Promise!Next]_<<Mapped(Readable), faults, edits > 0>>
<1>1. edits \in Nat /\ edits' \in Nat
  BY DEF Inv, TypeOK
<1>2. CASE edits' > 0
  BY <1>2 DEF Promise!Next, Promise!Edit
<1>3. CASE UNCHANGED <<segments, current, faults, edits>>
  <2>1. Readable' = Readable
    BY <1>3, ReadableIs
  <2>2. QED
    BY <1>3, <2>1
<1>4. CASE Verifies
  BY <1>3, <1>4 DEF Verifies, List, ReadSegments, OpenPath, ReadLine, ReadRest, EndOfFile, disk, meddling
<1>5. ASSUME NEW w \in Writers, Begin(w) \/ Steps(w) \/ Stall(w), edits' = 0
      PROVE  Promise!Next \/ UNCHANGED <<Mapped(Readable), faults, edits > 0>>
  <2>1. edits = 0
    BY <1>1, <1>5, CountsStep DEF Inv
  <2>2. PICK s, t : s = Solid(segments, current) /\ t = Solid(segments', current')
    OBVIOUS
  <2>3. \/ t = s /\ faults' \in {faults, faults + 1}
        \/ Longer(s, t, faults) /\ faults' = faults
    BY <1>5, <2>1, <2>2, SolidStep
  <2>4. Readable = Records(s) /\ Readable' = Records(t)
    BY <2>2, ReadableIs
  <2>5. CASE t = s /\ faults' = faults
    BY <1>5, <2>1, <2>4, <2>5
  <2>6. CASE t = s /\ faults' = faults + 1
    <3>1. Promise!Fault
      BY <1>5, <2>1, <2>4, <2>6 DEF Promise!Fault, Mapped, Seen
    <3>2. QED
      BY <3>1 DEF Promise!Next
  <2>7. CASE Longer(s, t, faults) /\ faults' = faults
    <3>1. PICK segs, cur : segs = segments' /\ cur = current'
      OBVIOUS
    <3>2. segs \in Seq(Files) /\ cur \in Seq(Line)
      BY <3>1 DEF Inv, TypeOK, Files
    <3>3. PICK pcs, mines, next : pcs = pc' /\ mines = mine' /\ next = nextId'
      OBVIOUS
    <3>4. IdsFit(All(segs, cur), pcs, mines, next) /\ next \in 1 .. NoHash
      BY <1>5, <3>1, <3>3 DEF Inv, IdsOK, TypeOK
    <3>5. IdsFit(t, pcs, mines, next)
      <4>1. CASE ~Open(cur)
        BY <2>2, <3>1, <3>2, <3>4, <4>1, SolidIs
      <4>2. CASE Open(cur)
        <5>1. PICK front \in Seq(Line), l \in Line : cur = Append(front, l)
          BY <3>2, <4>2, SplitLast DEF Open
        <5>2. ~l.nl
          BY <4>2, <5>1, LastOf DEF Open
        <5>3. t = All(segs, front) /\ All(segs, cur) = Append(t, l) /\ t \in Seq(Line)
          BY <2>2, <3>1, <3>2, <5>1, <5>2, AllIs
        <5>4. QED
          BY <3>4, <5>3, IdsLine
      <4>3. QED
        BY <4>1, <4>2
    <3>6. Unedited(t) /\ Once(t) /\ Small(t)
      <4>1. \A x : x \in 1 .. next - 1 => x \in 1 .. MaxRecords
        BY <3>4, SomeConstants
      <4>2. QED
        BY <3>5, <4>1 DEF IdsFit, Small
    <3>7. s \in Seq(Line)
      <4>1. segments \in Seq(Files) /\ current \in Seq(Line)
        BY DEF Inv, TypeOK, Files
      <4>2. QED
        BY <2>2, <4>1, SolidIs
    <3>8. PICK a, b : a = Mapped(Records(s)) /\ b = Mapped(Records(t))
      OBVIOUS
    <3>9. b = a \/ Extends(a, b, faults)
      BY <2>7, <3>6, <3>7, <3>8, LongerExtends
    <3>10. a = Mapped(Readable) /\ b = Mapped(Readable')
      BY <2>4, <3>8
    <3>11. CASE b = a
      <4>1. UNCHANGED Mapped(Readable)
        BY <3>10, <3>11 DEF Mapped, Seen
      <4>2. QED
        BY <1>5, <2>1, <2>7, <4>1
    <3>12. CASE Extends(a, b, faults)
      BY <1>5, <2>1, <2>7, <3>10, <3>12, ExtendsPromise
    <3>13. QED
      BY <3>9, <3>11, <3>12
  <2>8. QED
    BY <2>3, <2>5, <2>6, <2>7
<1>6. CASE Edit
  <2>1. edits' > 0
    BY <1>1, <1>6, EditIs DEF Inv
  <2>2. QED
    BY <1>2, <2>1
<1>7. CASE UNCHANGED vars
  BY <1>3, <1>7 DEF vars, disk, meddling
<1>8. CASE edits' = 0
  BY <1>4, <1>5, <1>6, <1>7, <1>8 DEF Next
<1>9. QED
  BY <1>1, <1>2, <1>8

(* The event log implements EvidenceLog: whatever the writers, rotation    *)
(* and crashes do, a reader finds the records in the order they were       *)
(* written, each once, and chained from the last one unless a tail could   *)
(* not be read or a write had failed before.                               *)
THEOREM PromiseIsKept == Spec => KeepsPromise
<1>1. Init => Promise!Init
  <2>1. SUFFICES ASSUME Init PROVE Promise!Init
    OBVIOUS
  <2>2. segments = <<>> /\ (current = <<>> \/ current = Append(<<>>, LegacyLine)) /\ faults = 0 /\ edits = 0
    BY <2>1 DEF Init
  <2>3. <<>> \in Seq(Line) /\ LegacyLine \in Line /\ segments \in Seq(Files) /\ LegacyLine.kind # "record" /\ LegacyLine.nl
    BY <2>2, LinesAre
  <2>4. All(segments, <<>>) = <<>>
    BY <2>2, <2>3, JoinAllIs, ConcatEmptySeq DEF All
  <2>5. Solid(segments, current) = <<>> \/ Solid(segments, current) = Append(<<>>, LegacyLine)
    <3>1. Solid(segments, <<>>) = <<>>
      BY <2>3, <2>4, AllIs
    <3>2. Solid(segments, Append(<<>>, LegacyLine)) = Append(All(segments, <<>>), LegacyLine)
      BY <2>3, AllIs
    <3>3. QED
      BY <2>2, <2>4, <3>1, <3>2
  <2>6. Records(Solid(segments, current)) = <<>>
    BY <2>3, <2>5, RecordsAre DEF Add
  <2>7. Mapped(Readable) = <<>>
    BY <2>6, ReadableIs, MappedIs
  <2>8. QED
    BY <2>2, <2>7 DEF Promise!Init, Mapped, Seen
<1>2. Inv /\ Inv' /\ [Next]_vars => [Promise!Next]_<<Mapped(Readable), faults, edits > 0>>
  BY StepKeepsPromise
<1>3. QED
  BY <1>1, <1>2, InvHolds, PTL DEF Spec, KeepsPromise, Promise!Spec, Mapped, Seen
=============================================================================
