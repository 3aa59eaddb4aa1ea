----------------------------- MODULE CanarySafety -----------------------------
(***************************************************************************)
(* Proofs of the canary registry's safety properties, for every value of   *)
(* its constants.  Everything that is said of the registry file rests on   *)
(* what an append does to it, cut short or not (`WriteChanges'): a line    *)
(* stays, or is spoiled for good and its token counted as glued; nothing   *)
(* is ever put where a line was but an unreadable one.  The invariant adds *)
(* to the properties what each call knows of the file.                     *)
(***************************************************************************)
EXTENDS Canary, FiniteSetTheorems, SequenceTheorems, WellFoundedInduction, TLAPS

USE DEF files

-----------------------------------------------------------------------------
(* The invariant, in parts.                                                *)

LineType ==
    [kind : {"decoy", "place", "junk"}, token : Nat, base : Bases \cup {NoBase},
     key : Paths \cup Places \cup {NoBase}, domain : Domains \cup {NoBase}, from : Nat]

CallType ==
    [at : {"idle"} \cup SeedSteps \cup AddressSteps, base : Bases \cup {NoBase},
     known : [Paths -> Nat], from : Nat, todo : SUBSET Paths,
     key : Paths \cup Places \cup {NoBase}, token : Nat, domain : Domains \cup {NoBase}]

\* Something in the file cannot be read, and never will be.
Stained == tail = "piece" \/ \E i \in 1 .. Len(registry) : registry[i].kind = "junk"

\* The last line of a file that was loaded now, or an earlier one.
Reach == IF tail = "piece" THEN Len(registry) + 1 ELSE Len(registry)

RegistryOK ==
    /\ registry \in Seq(LineType) /\ tail \in {"closed", "whole", "piece"}
    /\ tail = "whole" => Len(registry) > 0 /\ registry[Len(registry)].kind # "junk"
    /\ \A i \in 1 .. Len(registry) :
           /\ registry[i].from < i /\ registry[i].token <= minted
           /\ registry[i].kind # "junk" => registry[i].token > 0
           /\ registry[i].kind = "place" => registry[i].key \in Places
    /\ \A i, j \in 1 .. Len(registry) :
           registry[i].kind = "place" /\ registry[j].kind = "place"
           /\ registry[i].key = registry[j].key => i = j
    /\ minted \in Nat
    /\ glued \subseteq 1 .. minted
    /\ glued # {} => Stained
    /\ Stained => tail = "piece" \/ glued # {}

\* The file attributes a decoy's URL, and a place's address; or the line was glued.
Tracked(token, path, base) ==
    \/ token \in glued
    \/ \E i \in 1 .. Len(registry) :
           /\ registry[i].kind = "decoy" /\ registry[i].token = token
           /\ registry[i].key = path /\ registry[i].base = base

Placed(alias, place, domain) ==
    \/ alias \in glued
    \/ \E i \in 1 .. Len(registry) :
           /\ registry[i].kind = "place" /\ registry[i].token = alias
           /\ registry[i].key = place /\ registry[i].domain = domain

\* The first n lines have no URL of the decoy.
Unseen(path, base, n) ==
    \A i \in 1 .. Len(registry) :
        i <= n => ~(/\ registry[i].kind = "decoy"
                    /\ registry[i].key = path /\ registry[i].base = base)

PlaceKeys ==
    {k \in Places : \E i \in 1 .. Len(registry) : registry[i].kind = "place" /\ registry[i].key = k}

\* What a call that seeds knows of the file.
SeedOK(c) ==
    /\ \A f \in Paths :
           /\ c.known[f] # 0 /\ (c.at = "persist" => f # c.key) => Tracked(c.known[f], f, c.base)
           /\ c.known[f] = 0 /\ c.base # NoBase => Unseen(f, c.base, c.from)
    /\ c.at \in {"persist", "open", "fill"} => c.key \in Paths
    /\ c.at = "persist" => /\ c.base # NoBase /\ c.token > 0 /\ c.known[c.key] = c.token
                           /\ Unseen(c.key, c.base, c.from)
    /\ c.at \in {"open", "fill"} /\ c.token # 0 => Tracked(c.token, c.key, c.base)

\* What a call that asks for an address knows of it.
AddressOK(c) ==
    /\ c.key \in Places
    /\ c.at = "mint" => /\ c.token > 0 /\ c.key \notin PlaceKeys
                        /\ Cardinality(PlaceKeys) < FREE_TIER_MAX_ADDRESSES
    /\ c.at = "recheck" => Placed(c.token, c.key, c.domain)

CallOK(c) ==
    /\ c \in CallType
    /\ c.token <= minted /\ c.from <= Reach /\ \A f \in Paths : c.known[f] <= minted
    /\ c.at \in SeedSteps => SeedOK(c)
    /\ c.at \in AddressSteps => AddressOK(c)

CallsOK == call \in [Procs -> CallType] /\ \A p \in Procs : CallOK(call[p])

LockOK ==
    /\ lock = {} \/ \E p \in Procs : lock = {p}
    /\ \A p \in Procs : call[p].at \in AddressSteps \ {"lock"} <=> p \in lock

\* A token is drawn once: no line has it twice, nor before its call appends it.
Draws(c) == c.at \in {"persist", "mint"}
TokensOnce ==
    /\ \A i, j \in 1 .. Len(registry) :
           registry[i].kind # "junk" /\ registry[j].kind # "junk" /\ registry[i].token = registry[j].token
               => i = j
    /\ \A p \in Procs : \A i \in 1 .. Len(registry) :
           Draws(call[p]) /\ registry[i].kind # "junk" => registry[i].token # call[p].token
    /\ \A p, q \in Procs :
           Draws(call[p]) /\ Draws(call[q]) /\ call[p].token = call[q].token => p = q

DecoysOK ==
    /\ decoy \in [Paths -> [is : {"absent", "part", "full"}, token : Nat, base : Bases \cup {NoBase}]]
    /\ \A f \in Paths :
           /\ decoy[f].token <= minted
           /\ decoy[f].token # 0 => Tracked(decoy[f].token, f, decoy[f].base)

HandedOK ==
    /\ handed \subseteq [place : Places, domain : Domains \cup {NoBase}, alias : Nat]
    /\ \A h \in handed : Placed(h.alias, h.place, h.domain)
    /\ Cardinality(PlaceKeys) <= FREE_TIER_MAX_ADDRESSES
    /\ OneAddressPerPlace

Inv ==
    /\ RegistryOK /\ CallsOK /\ LockOK /\ TokensOnce /\ DecoysOK /\ HandedOK
    /\ OneUrlPerDecoy /\ faults \in 0 .. MaxFaults

-----------------------------------------------------------------------------
(* What an append does to the file. *)

\* The lines that are appended.
Appendable(line) ==
    /\ line \in LineType /\ line.kind \in {"decoy", "place"} /\ line.token \in 1 .. minted
    /\ line.kind = "place" => line.key \in Places /\ line.key \notin PlaceKeys

Writes(line) == Persisted(line) \/ NotPersisted(line)

\* Lines stay where they are, are spoiled, or are lost; one may come at the end.
LinesStay(line) ==
    /\ registry' \in Seq(LineType)
    /\ \A i \in 1 .. Len(registry') :
           \/ i \in 1 .. Len(registry) /\ registry'[i] = registry[i]
           \/ registry'[i] = JunkLine
           \/ registry'[i] = line /\ i = Len(registry) + 1 /\ tail = "closed"
    /\ \A i \in 1 .. Len(registry) :
           \/ registry[i].kind = "junk" /\ i \in 1 .. Len(registry') /\ registry'[i].kind = "junk"
           \/ i \in 1 .. Len(registry') /\ registry'[i] = registry[i]
           \/ registry[i].kind # "junk" /\ registry[i].token \in glued'
    /\ Reach <= Reach'

\* A nonempty set of positions has a last one.
LEMMA LastExists ==
    ASSUME NEW n \in Nat, NEW T \in SUBSET (1 .. n), T # {}
    PROVE  \E m \in T : \A i \in T : i <= m
<1> DEFINE S == {n - i : i \in T}
<1>1. S \subseteq Nat /\ S # {}
  <2>1. ASSUME NEW i \in T PROVE n - i \in Nat
    OBVIOUS
  <2>2. PICK i \in T : TRUE
    OBVIOUS
  <2>3. n - i \in S
    BY <2>2
  <2>4. QED
    BY <2>1, <2>3
<1> HIDE DEF S
<1>2. IsWellFoundedOn(OpToRel(<, Nat), Nat)
  BY NatLessThanWellFounded
<1>3. PICK d \in S : \A e \in S : ~ (<<e, d>> \in OpToRel(<, Nat))
  BY <1>1, <1>2, WFMin
<1>4. PICK m \in T : d = n - m
  BY <1>3 DEF S
<1>5. ASSUME NEW i \in T PROVE i <= m
  <2>1. n - i \in S /\ n - i \in Nat /\ d \in Nat
    BY <1>1, <1>3 DEF S
  <2>2. ~(n - i < d)
    BY <1>3, <2>1 DEF OpToRel
  <2>3. QED
    BY <1>4, <2>2
<1>6. QED
  BY <1>5

LEMMA JunkFits == JunkLine \in LineType /\ JunkLine.kind = "junk" /\ JunkLine.from = 0 /\ JunkLine.token = 0
  BY DEF JunkLine, Line, LineType

LEMMA WriteChanges ==
    ASSUME RegistryOK, NEW line, Appendable(line), Writes(line)
    PROVE  LinesStay(line)
<1>1. registry \in Seq(LineType) /\ line \in LineType /\ JunkLine \in LineType /\ Len(registry) \in Nat
  BY JunkFits DEF RegistryOK, Appendable
<1>2. CASE Persisted(line) /\ tail = "closed"
  <2>1. registry' = Append(registry, line) /\ glued \subseteq glued' /\ tail' = "closed"
    BY <1>2 DEF Persisted, Appended
  <2>2. QED
    BY <1>1, <1>2, <2>1, AppendProperties DEF LinesStay, Reach
<1>3. CASE Persisted(line) /\ tail = "piece"
  <2>1. registry' = Append(registry, JunkLine) /\ glued \subseteq glued' /\ tail' = "closed"
    BY <1>3 DEF Persisted, Appended
  <2>2. QED
    BY <1>1, <1>3, <2>1, AppendProperties DEF LinesStay, Reach
<1>4. CASE Persisted(line) /\ tail = "whole"
  <2>1. /\ registry' = [registry EXCEPT ![Len(registry)] = JunkLine] /\ tail' = "closed"
        /\ registry[Len(registry)].token \in glued' /\ glued \subseteq glued'
        /\ Len(registry) \in 1 .. Len(registry) /\ registry[Len(registry)].kind # "junk"
    BY <1>1, <1>4 DEF Persisted, Appended, Destroyed, RegistryOK
  <2>2. /\ registry' \in Seq(LineType) /\ Len(registry') = Len(registry)
        /\ \A i \in 1 .. Len(registry) :
               registry'[i] = IF i = Len(registry) THEN JunkLine ELSE registry[i]
    BY <1>1, <2>1, ExceptSeq
  <2>3. Reach <= Reach'
    BY <1>1, <1>4, <2>1, <2>2 DEF Reach
  <2>4. QED
    BY <1>1, <2>1, <2>2, <2>3 DEF LinesStay
<1>5. CASE UNCHANGED <<registry, tail, glued>>
  BY <1>1, <1>5 DEF LinesStay, Reach
<1>6. CASE tail = "closed" /\ tail' = "piece" /\ UNCHANGED <<registry, glued>>
  BY <1>1, <1>6 DEF LinesStay, Reach
<1>7. CASE tail = "closed" /\ tail' = "whole" /\ registry' = Append(registry, line) /\ glued' = glued
  BY <1>1, <1>7, AppendProperties DEF LinesStay, Reach
<1>8. CASE /\ tail = "whole" /\ tail' = "piece"
           /\ registry' = SubSeq(registry, 1, Len(registry) - 1)
           /\ glued' = glued \cup {registry[Len(registry)].token}
  <2>1. Len(registry) > 0 /\ registry[Len(registry)].kind # "junk"
    BY <1>8 DEF RegistryOK
  <2>2. /\ registry' \in Seq(LineType) /\ Len(registry') = Len(registry) - 1
        /\ \A i \in 1 .. Len(registry) - 1 : registry'[i] = registry[i]
    <3> DEFINE n == Len(registry) - 1
    <3>1. n \in Int /\ 1 \in Int /\ \A i \in 1 .. n : registry[i] \in LineType
      BY <1>1
    <3>2. registry' = SubSeq(registry, 1, n)
      BY <1>8
    <3>3. 1 + 1 - 1 = 1 /\ n = Len(registry) - 1 /\ n \in Nat
      BY <1>1, <2>1
    <3> HIDE DEF n
    <3>4. /\ SubSeq(registry, 1, n) \in Seq(LineType)
          /\ Len(SubSeq(registry, 1, n)) = IF 1 <= n THEN n - 1 + 1 ELSE 0
          /\ \A i \in 1 .. n - 1 + 1 : SubSeq(registry, 1, n)[i] = registry[1 + i - 1]
      BY <3>1, SubSeqProperties
    <3>5. QED
      BY <3>2, <3>3, <3>4
  <2>3. QED
    BY <1>1, <1>8, <2>1, <2>2 DEF LinesStay, Reach
<1>9. QED
  BY <1>2, <1>3, <1>4, <1>5, <1>6, <1>7, <1>8 DEF Writes, NotPersisted, RegistryOK

\* After a whole append the line is there, or glued.
LEMMA PersistedThere ==
    ASSUME RegistryOK, NEW line, Appendable(line), Persisted(line)
    PROVE  \/ line.token \in glued'
           \/ Len(registry) + 1 \in 1 .. Len(registry') /\ registry'[Len(registry) + 1] = line
<1>1. registry \in Seq(LineType) /\ line \in LineType
  BY DEF RegistryOK, Appendable
<1>2. CASE tail = "closed"
  BY <1>1, <1>2, AppendProperties DEF Persisted, Appended
<1>3. CASE tail # "closed"
  BY <1>3 DEF Persisted, Destroyed, RegistryOK
<1>4. QED
  BY <1>2, <1>3

LEMMA RegistryKept ==
    ASSUME RegistryOK, NEW line, Appendable(line), Writes(line), line.from <= Reach, minted' = minted
    PROVE  RegistryOK' /\ glued \subseteq glued'
<1>1. registry \in Seq(LineType) /\ line \in LineType /\ Len(registry) \in Nat /\ minted \in Nat
  BY DEF RegistryOK, Appendable
<1>2. LinesStay(line)
  BY WriteChanges
<1>3. registry' \in Seq(LineType) /\ Len(registry') \in Nat
  BY <1>2 DEF LinesStay
<1>4. \A i \in 1 .. Len(registry') :
          /\ registry'[i].from < i /\ registry'[i].token <= minted
          /\ registry'[i].kind # "junk" => registry'[i].token > 0
          /\ registry'[i].kind = "place" => registry'[i].key \in Places
  <2> SUFFICES ASSUME NEW i \in 1 .. Len(registry')
               PROVE  /\ registry'[i].from < i /\ registry'[i].token <= minted
                      /\ registry'[i].kind # "junk" => registry'[i].token > 0
                      /\ registry'[i].kind = "place" => registry'[i].key \in Places
    OBVIOUS
  <2>1. CASE i \in 1 .. Len(registry) /\ registry'[i] = registry[i]
    BY <2>1 DEF RegistryOK
  <2>2. CASE registry'[i] = JunkLine
    BY <1>1, <2>2, JunkFits
  <2>3. CASE registry'[i] = line /\ i = Len(registry) + 1 /\ tail = "closed"
    <3>1. line.from \in Nat /\ line.from < i
      BY <1>1, <2>3 DEF Reach, LineType
    <3>2. QED
      BY <1>1, <2>3, <3>1 DEF Appendable
  <2>4. QED
    BY <1>2, <2>1, <2>2, <2>3 DEF LinesStay
<1>5. glued \subseteq glued' /\ glued' \subseteq 1 .. minted
  <2>1. ASSUME tail = "whole"
        PROVE  registry[Len(registry)].token \in 1 .. minted
    <3>1. Len(registry) \in 1 .. Len(registry) /\ registry[Len(registry)].kind # "junk"
      BY <1>1, <2>1 DEF RegistryOK
    <3>2. registry[Len(registry)] \in LineType
      BY <1>1, <3>1
    <3>3. QED
      BY <1>1, <3>1, <3>2 DEF RegistryOK, LineType
  <2>2. Destroyed(line) \subseteq 1 .. minted
    BY <2>1 DEF Destroyed, RegistryOK, Appendable
  <2>3. QED
    BY <2>1, <2>2 DEF Writes, Persisted, NotPersisted, RegistryOK
<1>6. tail' \in {"closed", "whole", "piece"}
  BY DEF Writes, Persisted, NotPersisted, RegistryOK
<1>7. tail' = "whole" => Len(registry') > 0 /\ registry'[Len(registry')].kind # "junk"
  <2>1. CASE UNCHANGED <<registry, tail>>
    BY <2>1 DEF RegistryOK
  <2>2. CASE tail = "closed" /\ registry' = Append(registry, line)
    BY <1>1, <2>2, AppendProperties DEF Appendable
  <2>3. CASE tail' # "whole"
    BY <2>3
  <2>4. QED
    BY <2>1, <2>2, <2>3 DEF Writes, Persisted, NotPersisted
<1>8. Stained' => tail' = "piece" \/ glued' # {}
  <2>1. CASE \E i \in 1 .. Len(registry) : registry[i].kind = "junk"
    <3>1. glued # {} => glued' # {}
      BY <1>5
    <3>2. tail = "piece" \/ glued # {}
      BY <2>1 DEF RegistryOK, Stained
    <3>3. tail = "piece" => tail' = "piece" \/ glued' # {}
      BY DEF Writes, Persisted, NotPersisted, Destroyed
    <3>4. QED
      BY <3>1, <3>2, <3>3
  <2>2. CASE \A i \in 1 .. Len(registry) : registry[i].kind # "junk"
    <3>1. CASE tail' # "piece" /\ registry' # registry /\ tail # "closed"
      BY <3>1 DEF Writes, Persisted, NotPersisted, Destroyed, RegistryOK
    <3>2. CASE registry' = registry
      BY <2>2, <3>2 DEF Stained
    <3>3. CASE tail = "closed"
      <4>1. registry' = registry \/ registry' = Append(registry, line)
        BY <3>3 DEF Writes, Persisted, Appended, NotPersisted
      <4>2. CASE registry' = Append(registry, line)
        <5>1. \A i \in 1 .. Len(registry') : registry'[i] = line \/ \E j \in 1 .. Len(registry) : registry'[i] = registry[j]
          BY <1>1, <4>2, AppendProperties
        <5>2. QED
          BY <2>2, <5>1 DEF Stained, Appendable
      <4>3. QED
        BY <3>2, <4>1, <4>2
    <3>4. QED
      BY <3>1, <3>2, <3>3
  <2>3. QED
    BY <2>1, <2>2
<1>9. \A i, j \in 1 .. Len(registry') :
           registry'[i].kind = "place" /\ registry'[j].kind = "place"
           /\ registry'[i].key = registry'[j].key => i = j
  <2> SUFFICES ASSUME NEW i \in 1 .. Len(registry'), NEW j \in 1 .. Len(registry'),
                      registry'[i].kind = "place", registry'[j].kind = "place",
                      registry'[i].key = registry'[j].key
               PROVE  i = j
    OBVIOUS
  <2>1. ASSUME NEW n \in 1 .. Len(registry'), registry'[n].kind = "place"
        PROVE  \/ n \in 1 .. Len(registry) /\ registry'[n] = registry[n]
               \/ n = Len(registry) + 1 /\ registry'[n] = line
    BY <1>2, <2>1, JunkFits DEF LinesStay
  <2>2. ASSUME NEW n \in 1 .. Len(registry), registry[n].kind = "place", line.kind = "place"
        PROVE  registry[n].key # line.key
    BY <2>2 DEF Appendable, PlaceKeys, RegistryOK
  <2>3. QED
    BY <2>1, <2>2 DEF RegistryOK
<1>10. glued' # {} => Stained'
  <2>1. CASE tail' = "piece"
    BY <2>1 DEF Stained
  <2>2. CASE glued' = glued /\ tail' # "piece" /\ tail # "piece"
    BY <1>2, <2>2 DEF RegistryOK, Stained, LinesStay
  <2>3. CASE Persisted(line) /\ tail = "piece"
    BY <1>1, <2>3, JunkFits, AppendProperties DEF Persisted, Appended, Stained
  <2>4. CASE Persisted(line) /\ tail = "whole"
    <3>1. Len(registry) \in 1 .. Len(registry)
      BY <1>1, <2>4 DEF RegistryOK
    <3>2. registry' = [registry EXCEPT ![Len(registry)] = JunkLine]
      BY <2>4 DEF Persisted, Appended
    <3>3. Len(registry') = Len(registry) /\ registry'[Len(registry)] = JunkLine
      BY <1>1, <3>1, <3>2, JunkFits, ExceptSeq
    <3>4. QED
      BY <3>1, <3>3, JunkFits DEF Stained
  <2>5. CASE Persisted(line) /\ tail = "closed"
    <3>1. glued' = glued /\ tail' = "closed"
      BY <2>5 DEF Persisted, Destroyed
    <3>2. QED
      BY <2>2, <2>5, <3>1
  <2>6. CASE NotPersisted(line)
    BY <2>1, <2>2, <2>6 DEF NotPersisted
  <2>7. QED
    BY <2>3, <2>4, <2>5, <2>6 DEF Writes, RegistryOK
<1>11. QED
  BY <1>1, <1>3, <1>4, <1>5, <1>6, <1>7, <1>8, <1>9, <1>10 DEF RegistryOK

-----------------------------------------------------------------------------
(* What a step leaves of what was known of the file. *)

\* What was known stays known; of a place more may only be known by `line'.
Later ==
    /\ minted <= minted' /\ Reach <= Reach'
    /\ \A t, f, b : Tracked(t, f, b) => Tracked(t, f, b)'
    /\ \A t, k, d : Placed(t, k, d) => Placed(t, k, d)'
    /\ \A f, b : \A n \in Nat : n <= Reach /\ Unseen(f, b, n) => Unseen(f, b, n)'

LEMMA FileRests ==
    ASSUME RegistryOK, UNCHANGED <<files, glued>>, minted <= minted'
    PROVE  Later /\ PlaceKeys' = PlaceKeys
<1>1. Reach <= Reach'
  BY DEF Reach, RegistryOK
<1>2. \A t, f, b : Tracked(t, f, b) => Tracked(t, f, b)'
  BY DEF Tracked
<1>3. \A t, k, d : Placed(t, k, d) => Placed(t, k, d)'
  BY DEF Placed
<1>4. \A f, b : \A n \in Nat : n <= Reach /\ Unseen(f, b, n) => Unseen(f, b, n)'
  BY DEF Unseen
<1>5. PlaceKeys' = PlaceKeys
  BY DEF PlaceKeys
<1>6. QED
  BY <1>1, <1>2, <1>3, <1>4, <1>5 DEF Later

LEMMA FileMoves ==
    ASSUME RegistryOK, NEW line, Appendable(line), Writes(line), line.from <= Reach, minted' = minted
    PROVE  Later
<1>1. LinesStay(line) /\ glued \subseteq glued' /\ Len(registry) \in Nat /\ minted \in Nat
  BY SMTT(40), WriteChanges, RegistryKept DEF RegistryOK
<1>2. ASSUME NEW t, NEW i \in 1 .. Len(registry), registry[i].kind # "junk", registry[i].token = t
      PROVE  t \in glued' \/ (i \in 1 .. Len(registry') /\ registry'[i] = registry[i])
  BY <1>1, <1>2 DEF LinesStay
<1>3. ASSUME NEW t, NEW f, NEW b, Tracked(t, f, b)
      PROVE  Tracked(t, f, b)'
  BY <1>1, <1>2, <1>3 DEF Tracked
<1>4. ASSUME NEW t, NEW k, NEW d, Placed(t, k, d)
      PROVE  Placed(t, k, d)'
  BY <1>1, <1>2, <1>4 DEF Placed
<1>5. ASSUME NEW f, NEW b, NEW n \in Nat, n <= Reach, Unseen(f, b, n)
      PROVE  Unseen(f, b, n)'
  <2> SUFFICES ASSUME NEW i \in 1 .. Len(registry'), i <= n
               PROVE  ~(/\ registry'[i].kind = "decoy"
                        /\ registry'[i].key = f /\ registry'[i].base = b)
    BY DEF Unseen
  <2>1. CASE i \in 1 .. Len(registry) /\ registry'[i] = registry[i]
    BY <1>5, <2>1 DEF Unseen
  <2>2. CASE registry'[i] = JunkLine
    BY <2>2, JunkFits
  <2>3. CASE i = Len(registry) + 1 /\ tail = "closed"
    BY <1>1, <1>5, <2>3 DEF Reach
  <2>4. QED
    BY <1>1, <2>1, <2>2, <2>3 DEF LinesStay
<1>6. minted <= minted'
  BY <1>1
<1>7. QED
  BY <1>1, <1>3, <1>4, <1>5, <1>6 DEF Later, LinesStay

\* Only the address of a place adds a place to the table.
LEMMA PlacesGrow ==
    ASSUME RegistryOK, NEW line, Appendable(line), Writes(line)
    PROVE  PlaceKeys' \subseteq IF line.kind = "place" THEN PlaceKeys \cup {line.key} ELSE PlaceKeys
<1>1. LinesStay(line)
  BY WriteChanges
<1>2. ASSUME NEW k \in Places, NEW i \in 1 .. Len(registry'),
             registry'[i].kind = "place", registry'[i].key = k
      PROVE  k \in PlaceKeys \/ (line.kind = "place" /\ k = line.key)
  <2>1. CASE i \in 1 .. Len(registry) /\ registry'[i] = registry[i]
    BY <1>2, <2>1 DEF PlaceKeys
  <2>2. CASE registry'[i] = JunkLine
    BY <1>2, <2>2, JunkFits
  <2>3. CASE registry'[i] = line
    BY <1>2, <2>3
  <2>4. QED
    BY <1>1, <2>1, <2>2, <2>3 DEF LinesStay
<1>3. QED
  BY <1>2 DEF PlaceKeys

LEMMA PlacesCounted ==
    /\ \A S : S \subseteq Places => IsFiniteSet(S) /\ Cardinality(S) \in Nat
    /\ \A S, T : S \subseteq T /\ T \subseteq Places => Cardinality(S) <= Cardinality(T)
<1>1. ASSUME NEW S, S \subseteq Places
      PROVE  IsFiniteSet(S) /\ Cardinality(S) \in Nat
  BY <1>1, ConstantsAssumption, FS_Subset, FS_CardinalityType
<1>2. ASSUME NEW S, NEW T, S \subseteq T, T \subseteq Places
      PROVE  Cardinality(S) <= Cardinality(T)
  BY <1>1, <1>2, FS_Subset
<1>3. QED
  BY <1>1, <1>2

\* Knowledge is kept by a call that does not move.
LEMMA CallKept ==
    ASSUME NEW c, CallOK(c), Later, PlaceKeys' \subseteq PlaceKeys \/ c.at # "mint",
           minted \in Nat, minted' \in Nat, Reach \in Nat, Reach' \in Nat
    PROVE  CallOK(c)'
<1>1. c.token \in Nat /\ c.from \in Nat /\ c.known \in [Paths -> Nat]
  BY DEF CallOK, CallType
<1>2. c.token <= minted' /\ c.from <= Reach' /\ \A f \in Paths : c.known[f] <= minted'
  BY <1>1 DEF CallOK, Later
<1>3. c.at \in SeedSteps => SeedOK(c)'
  <2> SUFFICES ASSUME SeedOK(c), c.from <= Reach
               PROVE  SeedOK(c)'
    BY DEF CallOK
  <2>1. \A f \in Paths : c.known[f] # 0 /\ (c.at = "persist" => f # c.key) => Tracked(c.known[f], f, c.base)'
    BY DEF SeedOK, Later
  <2>2. \A f \in Paths : c.known[f] = 0 /\ c.base # NoBase => Unseen(f, c.base, c.from)'
    BY <1>1 DEF SeedOK, Later
  <2>3. c.at = "persist" => Unseen(c.key, c.base, c.from)'
    BY <1>1 DEF SeedOK, Later
  <2>4. c.at \in {"open", "fill"} /\ c.token # 0 => Tracked(c.token, c.key, c.base)'
    BY DEF SeedOK, Later
  <2>5. QED
    BY <2>1, <2>2, <2>3, <2>4 DEF SeedOK
<1>4. c.at \in AddressSteps => AddressOK(c)'
  <2> SUFFICES ASSUME AddressOK(c)
               PROVE  AddressOK(c)'
    BY DEF CallOK
  <2>1. c.at = "recheck" => Placed(c.token, c.key, c.domain)'
    BY DEF AddressOK, Later
  <2>2. c.at = "mint" => Cardinality(PlaceKeys') < FREE_TIER_MAX_ADDRESSES
    <3> SUFFICES ASSUME PlaceKeys' \subseteq PlaceKeys, c.at = "mint"
                 PROVE  Cardinality(PlaceKeys') < FREE_TIER_MAX_ADDRESSES
      OBVIOUS
    <3>1. PlaceKeys \subseteq Places
      BY DEF PlaceKeys
    <3>2. /\ Cardinality(PlaceKeys) \in Nat /\ Cardinality(PlaceKeys') \in Nat
          /\ FREE_TIER_MAX_ADDRESSES \in Nat /\ Cardinality(PlaceKeys') <= Cardinality(PlaceKeys)
      BY <3>1, PlacesCounted, ConstantsAssumption
    <3>3. QED
      BY <3>2 DEF AddressOK
  <2>3. QED
    BY <2>1, <2>2 DEF AddressOK
<1>5. QED
  BY <1>2, <1>3, <1>4 DEF CallOK

-----------------------------------------------------------------------------
(* What a watch loads. *)

\* A watch knows a token of its base URL, or the file has none.
LEMMA LoadedFits ==
    ASSUME RegistryOK, NEW f, NEW b
    PROVE  /\ Loaded(f, b) \in Nat /\ Loaded(f, b) <= minted
           /\ Loaded(f, b) = 0 => Bound(f, b) = {}
           /\ Loaded(f, b) # 0 => Tracked(Loaded(f, b), f, b)
<1>1. CASE Bound(f, b) = {}
  BY <1>1 DEF Loaded, TokenOfLast, RegistryOK
<1>2. CASE Bound(f, b) # {}
  <2>1. Len(registry) \in Nat /\ Bound(f, b) \in SUBSET (1 .. Len(registry))
    BY DEF RegistryOK, Bound
  <2>2. \E m \in Bound(f, b) : \A i \in Bound(f, b) : i <= m
    BY <1>2, <2>1, LastExists
  <2> DEFINE m == CHOOSE i \in Bound(f, b) : \A j \in Bound(f, b) : j <= i
  <2>3. m \in Bound(f, b)
    BY <2>2, Zenon
  <2>4. Loaded(f, b) = registry[m].token
    BY <1>2 DEF Loaded, TokenOfLast
  <2> HIDE DEF m
  <2>5. /\ m \in 1 .. Len(registry) /\ registry[m].kind = "decoy"
        /\ registry[m].key = f /\ registry[m].base = b
    BY <2>3 DEF Bound
  <2>6. registry[m] \in LineType
    BY <2>5 DEF RegistryOK
  <2>7. registry[m].token \in Nat /\ registry[m].token > 0 /\ registry[m].token <= minted
    BY <2>5, <2>6 DEF RegistryOK, LineType
  <2>8. QED
    BY <2>4, <2>5, <2>7, <1>2 DEF Tracked
<1>3. QED
  BY <1>1, <1>2

-----------------------------------------------------------------------------
(* The parts of a step that a step leaves alone. *)

LEMMA Types ==
    ASSUME Inv
    PROVE  /\ registry \in Seq(LineType) /\ Len(registry) \in Nat /\ minted \in Nat
           /\ Reach \in Nat /\ call \in [Procs -> CallType]
  BY DEF Inv, RegistryOK, Reach, CallsOK

LEMMA LockKept ==
    ASSUME LockOK, CallsOK, NEW p \in Procs, NEW c, Goes(p, c), lock' = lock,
           c.at \in AddressSteps \ {"lock"} <=> call[p].at \in AddressSteps \ {"lock"}
    PROVE  LockOK'
<1>1. \A q \in Procs : call'[q] = IF q = p THEN c ELSE call[q]
  BY DEF CallsOK, Goes
<1>2. QED
  BY <1>1 DEF LockOK

LEMMA LockLeft ==
    ASSUME LockOK, CallsOK, NEW p \in Procs, Leaves(p)
    PROVE  LockOK'
<1>1. \A q \in Procs : call'[q] = IF q = p THEN Idle ELSE call[q]
  BY DEF CallsOK, Leaves, Goes
<1>2. Idle.at \notin AddressSteps \ {"lock"}
  BY DEF Idle, AddressSteps
<1>3. lock' = lock \ {p}
  BY DEF Leaves
<1>4. QED
  BY <1>1, <1>2, <1>3 DEF LockOK

LEMMA DecoysKept ==
    ASSUME DecoysOK, decoy' = decoy, Later, minted \in Nat, minted' \in Nat
    PROVE  DecoysOK'
  BY DEF DecoysOK, Later

LEMMA HandedKept ==
    ASSUME HandedOK, handed' = handed, Later, Cardinality(PlaceKeys') <= FREE_TIER_MAX_ADDRESSES
    PROVE  HandedOK'
  BY DEF HandedOK, Later, OneAddressPerPlace

LEMMA FaultFits ==
    ASSUME faults \in 0 .. MaxFaults, Fault \/ faults' = faults
    PROVE  faults' \in 0 .. MaxFaults
  BY ConstantsAssumption DEF Fault

LEMMA IdleFits == ASSUME Inv PROVE CallOK(Idle) /\ ~Draws(Idle)
  BY Types DEF Idle, CallOK, CallType, Draws, SeedSteps, AddressSteps

LEMMA RegistryRests ==
    ASSUME RegistryOK, UNCHANGED <<files, glued>>, minted' \in Nat, minted <= minted'
    PROVE  RegistryOK'
<1>0. registry \in Seq(LineType) /\ Len(registry) \in Nat /\ minted \in Nat
  BY DEF RegistryOK
<1>1. \A i \in 1 .. Len(registry) : registry[i].token \in Nat
  <2>1. \A i \in 1 .. Len(registry) : registry[i] \in LineType
    BY <1>0
  <2>2. QED
    BY <2>1 DEF LineType
<1>2. \A i \in 1 .. Len(registry) : registry[i].token <= minted'
  BY <1>0, <1>1 DEF RegistryOK
<1>3. glued \subseteq 1 .. minted'
  BY <1>0 DEF RegistryOK
<1>4. Stained' <=> Stained
  BY DEF Stained
<1>5. QED
  BY <1>2, <1>3, <1>4 DEF RegistryOK

\* One call moves on, and the file stays as it is.
LEMMA QuietMove ==
    ASSUME Inv, NEW p \in Procs, NEW c, Goes(p, c), UNCHANGED <<files, glued, minted>>,
           CallOK(c), ~Draws(c)
    PROVE  /\ RegistryOK' /\ CallsOK' /\ TokensOnce' /\ OneUrlPerDecoy' /\ Later
           /\ PlaceKeys' = PlaceKeys
<1>1. Later /\ PlaceKeys' = PlaceKeys /\ Reach' = Reach /\ minted' = minted
  BY Types, FileRests DEF Inv, Reach
<1>2. RegistryOK'
  BY Types, RegistryRests DEF Inv
<1>3. PlaceKeys' \subseteq PlaceKeys
  BY <1>1
<1>4. \A q \in Procs : call'[q] = IF q = p THEN c ELSE call[q]
  BY Types DEF Goes
<1>5. ASSUME NEW d, CallOK(d)
      PROVE  CallOK(d)'
  BY <1>1, <1>3, <1>5, Types, CallKept
<1>6. CallsOK'
  <2>1. c \in CallType
    BY DEF CallOK
  <2>2. call' \in [Procs -> CallType]
    BY <2>1, Types DEF Goes
  <2>3. ASSUME NEW q \in Procs
        PROVE  CallOK(call[q])'
    <3> DEFINE d == call'[q]
    <3>1. CallOK(d)
      BY <1>4 DEF Inv, CallsOK
    <3>2. QED
      BY <1>5, <3>1
  <2>4. QED
    BY <2>2, <2>3 DEF CallsOK
<1>7. TokensOnce'
  BY <1>4 DEF Inv, TokensOnce
<1>8. OneUrlPerDecoy'
  BY DEF Inv, OneUrlPerDecoy
<1>9. QED
  BY <1>1, <1>2, <1>6, <1>7, <1>8

\* Such a move that leaves the lock, the decoys and what was handed out alone.
LEMMA QuietCall ==
    ASSUME Inv, NEW p \in Procs, NEW c, Goes(p, c), UNCHANGED <<files, glued, minted>>,
           CallOK(c), ~Draws(c), Fault \/ faults' = faults,
           UNCHANGED <<lock, decoy, handed>>,
           c.at \in AddressSteps \ {"lock"} <=> call[p].at \in AddressSteps \ {"lock"}
    PROVE  Inv'
<1>1. /\ RegistryOK' /\ CallsOK' /\ TokensOnce' /\ OneUrlPerDecoy' /\ Later
      /\ PlaceKeys' = PlaceKeys /\ minted' = minted
  BY QuietMove
<1>2. LockOK'
  BY LockKept DEF Inv
<1>3. DecoysOK'
  BY <1>1, Types, DecoysKept DEF Inv
<1>4. Cardinality(PlaceKeys') <= FREE_TIER_MAX_ADDRESSES
  BY <1>1 DEF Inv, HandedOK
<1>5. HandedOK'
  BY <1>1, <1>4, HandedKept DEF Inv
<1>6. faults' \in 0 .. MaxFaults
  BY FaultFits DEF Inv
<1>7. QED
  BY <1>1, <1>2, <1>3, <1>5, <1>6 DEF Inv

-----------------------------------------------------------------------------
(* Steps that leave the file as it is. *)

USE DEF SeedSteps, AddressSteps

LEMMA StartSeedKeeps ==
    ASSUME Inv, NEW p \in Procs, NEW base \in Bases \cup {NoBase}, StartSeed(p, base)
    PROVE  Inv'
<1>1. PICK read \in BOOLEAN :
          /\ IF read \/ base = NoBase THEN UNCHANGED faults ELSE Fault
          /\ Goes(p, [Idle EXCEPT !.at = "look", !.todo = Paths, !.base = base,
                        !.known = [f \in Paths |-> IF read /\ base # NoBase
                                                   THEN Loaded(f, base) ELSE 0],
                        !.from = IF read THEN Len(registry) ELSE 0])
  BY DEF StartSeed
<1> DEFINE known == [f \in Paths |-> IF read /\ base # NoBase THEN Loaded(f, base) ELSE 0]
           from == IF read THEN Len(registry) ELSE 0
           c == [Idle EXCEPT !.at = "look", !.todo = Paths, !.base = base, !.known = known, !.from = from]
<1>2. Goes(p, c)
  BY <1>1
<1>3. known \in [Paths -> Nat] /\ \A f \in Paths : known[f] <= minted
  BY Types, LoadedFits DEF Inv
<1>4. from \in Nat /\ from <= Reach
  BY Types DEF Reach
<1>5. ASSUME NEW f \in Paths
      PROVE  /\ known[f] # 0 => Tracked(known[f], f, base)
             /\ known[f] = 0 /\ base # NoBase => Unseen(f, base, from)
  <2>1. CASE read /\ base # NoBase
    <3>1. known[f] = Loaded(f, base)
      BY <2>1
    <3>2. Bound(f, base) = {} => Unseen(f, base, from)
      BY DEF Bound, Unseen
    <3>3. QED
      BY <3>1, <3>2, LoadedFits DEF Inv
  <2>2. CASE ~read \/ base = NoBase
    <3>1. known[f] = 0
      BY <2>2
    <3>2. base # NoBase => from = 0
      BY <2>2
    <3>3. base # NoBase => Unseen(f, base, from)
      BY <3>2, Types DEF Unseen
    <3>4. QED
      BY <3>1, <3>3
  <2>3. QED
    BY <2>1, <2>2
<1> HIDE DEF known, from
<1>6. CallOK(c) /\ ~Draws(c) /\ c.at = "look"
  <2>0. Idle \in CallType /\ Idle.token = 0
    BY IdleFits DEF CallOK, Idle
  <2>1. /\ c \in CallType /\ c.at = "look" /\ c.base = base /\ c.known = known
        /\ c.from = from /\ c.token = 0
    BY <1>3, <1>4, <2>0 DEF CallType
  <2> HIDE DEF c
  <2>2. SeedOK(c)
    BY <1>5, <2>1 DEF SeedOK
  <2>3. QED
    BY <1>3, <1>4, <2>1, <2>2, Types DEF CallOK, Draws
<1>7. call[p].at = "idle" /\ UNCHANGED <<files, lock, decoy, minted, handed, glued>>
  BY DEF StartSeed
<1>8. Fault \/ faults' = faults
  BY <1>1
<1> HIDE DEF c
<1>9. QED
  BY <1>2, <1>6, <1>7, <1>8, QuietCall

\* A call of the seeder whose next step is the same or a later one for the
\* decoy it works on.
LEMMA LookKeeps ==
    ASSUME Inv, NEW p \in Procs, NEW path \in Paths, AlreadyThere(p, path) \/ Reuse(p, path)
    PROVE  Inv'
<1> DEFINE c == call[p]
<1>1. CallOK(c) /\ c \in CallType /\ c.at = "look" /\ SeedOK(c)
  BY DEF Inv, CallsOK, CallOK, AlreadyThere, Reuse
<1>2. UNCHANGED <<files, lock, decoy, minted, faults, handed, glued>>
  BY DEF AlreadyThere, Reuse
<1>3. CASE AlreadyThere(p, path)
  <2> DEFINE d == [c EXCEPT !.todo = @ \ {path}]
  <2>1. d \in CallType /\ d.at = "look" /\ d.token = c.token /\ d.from = c.from /\ d.known = c.known
        /\ d.base = c.base /\ d.key = c.key
    BY <1>1 DEF CallType
  <2>2. Goes(p, d)
    BY <1>3 DEF AlreadyThere
  <2> HIDE DEF d
  <2>3. CallOK(d) /\ ~Draws(d)
    BY <1>1, <2>1 DEF CallOK, SeedOK, Draws
  <2>4. QED
    BY <1>1, <1>2, <2>1, <2>2, <2>3, QuietCall
<1>4. CASE Reuse(p, path)
  <2> DEFINE d == [c EXCEPT !.at = "open", !.key = path, !.token = c.known[path]]
  <2>0. c.known[path] \in Nat /\ c.known[path] <= minted
    BY <1>1 DEF CallOK, CallType
  <2>1. d \in CallType /\ d.at = "open" /\ d.token = c.known[path] /\ d.from = c.from /\ d.known = c.known
        /\ d.base = c.base /\ d.key = path
    BY <1>1, <2>0 DEF CallType
  <2>2. Goes(p, d)
    BY <1>4 DEF Reuse
  <2> HIDE DEF d
  <2>3. CallOK(d) /\ ~Draws(d)
    BY <1>1, <2>0, <2>1 DEF CallOK, SeedOK, Draws
  <2>4. QED
    BY <1>1, <1>2, <2>1, <2>2, <2>3, QuietCall
<1>5. QED
  BY <1>3, <1>4

LEMMA DecoyTypes ==
    /\ Absent \in [is : {"absent", "part", "full"}, token : Nat, base : Bases \cup {NoBase}]
    /\ Part \in [is : {"absent", "part", "full"}, token : Nat, base : Bases \cup {NoBase}]
    /\ Absent.token = 0 /\ Part.token = 0
  BY DEF Absent, Part

\* One decoy changes, to what holds no URL or one that is tracked.
LEMMA DecoyMoves ==
    ASSUME DecoysOK, NEW f \in Paths, NEW v, decoy' = [decoy EXCEPT ![f] = v], Later,
           UNCHANGED minted, minted \in Nat,
           v \in [is : {"absent", "part", "full"}, token : Nat, base : Bases \cup {NoBase}],
           v.token <= minted, v.token # 0 => Tracked(v.token, f, v.base)
    PROVE  DecoysOK'
<1>1. \A g \in Paths : decoy'[g] = IF g = f THEN v ELSE decoy[g]
  BY DEF DecoysOK
<1>2. decoy' \in [Paths -> [is : {"absent", "part", "full"}, token : Nat, base : Bases \cup {NoBase}]]
  BY DEF DecoysOK
<1>3. QED
  BY <1>1, <1>2 DEF DecoysOK, Later

\* A call that seeds moves on and writes its decoy.
LEMMA WriteKeeps ==
    ASSUME Inv, NEW p \in Procs, Open(p) \/ Fill(p)
    PROVE  Inv'
<1> DEFINE c == call[p]
<1>1. CallOK(c) /\ c \in CallType /\ c.at \in {"open", "fill"} /\ SeedOK(c) /\ c.key \in Paths
  BY DEF Inv, CallsOK, CallOK, SeedOK, Open, Fill
<1>2. UNCHANGED <<files, lock, minted, handed, glued>>
  BY DEF Open, Fill
<1>3. CASE Fault /\ Goes(p, Idle) /\ UNCHANGED decoy
  BY <1>1, <1>2, <1>3, IdleFits, QuietCall DEF Idle
<1>4. ASSUME NEW d, Goes(p, d), CallOK(d), ~Draws(d), d.at \notin AddressSteps, faults' = faults,
             NEW v, decoy' = [decoy EXCEPT ![c.key] = v],
             v \in [is : {"absent", "part", "full"}, token : Nat, base : Bases \cup {NoBase}],
             v.token <= minted, v.token # 0 => Tracked(v.token, c.key, v.base)
      PROVE  Inv'
  <2>1. /\ RegistryOK' /\ CallsOK' /\ TokensOnce' /\ OneUrlPerDecoy' /\ Later
        /\ PlaceKeys' = PlaceKeys /\ minted' = minted
    BY <1>2, <1>4, QuietMove
  <2>2. LockOK'
    BY <1>1, <1>2, <1>4, LockKept DEF Inv
  <2>3. DecoysOK'
    BY <1>1, <1>4, <2>1, Types, DecoyMoves DEF Inv
  <2>4. HandedOK'
    BY <1>2, <2>1, HandedKept DEF Inv, HandedOK
  <2>5. QED
    BY <1>4, <2>1, <2>2, <2>3, <2>4 DEF Inv
<1>5. CASE /\ call[p].at = "open" /\ faults' = faults
           /\ decoy' = [decoy EXCEPT ![call[p].key] = Part]
           /\ Goes(p, [call[p] EXCEPT !.at = "fill"])
  <2> DEFINE d == [c EXCEPT !.at = "fill"]
  <2>1. d \in CallType /\ d.at = "fill" /\ d.token = c.token /\ d.from = c.from /\ d.known = c.known
        /\ d.base = c.base /\ d.key = c.key
    BY <1>1 DEF CallType
  <2>2. Goes(p, d) /\ decoy' = [decoy EXCEPT ![c.key] = Part] /\ c.at = "open"
    BY <1>5 DEF Open
  <2> HIDE DEF d
  <2>3. CallOK(d) /\ ~Draws(d) /\ d.at \notin AddressSteps
    BY <1>1, <2>1, <2>2 DEF CallOK, SeedOK, Draws
  <2>4. Part.token <= minted
    BY DecoyTypes, Types
  <2>5. QED
    BY <1>4, <1>5, <2>2, <2>3, <2>4, DecoyTypes
<1>6. CASE /\ call[p].at = "fill" /\ faults' = faults
           /\ decoy' = [decoy EXCEPT ![call[p].key] = Holding(call[p].token, call[p].base)]
           /\ Goes(p, [call[p] EXCEPT !.at = "look", !.todo = @ \ {call[p].key},
                         !.key = NoBase, !.token = 0])
  <2> DEFINE d == [c EXCEPT !.at = "look", !.todo = @ \ {c.key}, !.key = NoBase, !.token = 0]
             v == Holding(c.token, c.base)
  <2>1. d \in CallType /\ d.at = "look" /\ d.token = 0 /\ d.from = c.from /\ d.known = c.known
        /\ d.base = c.base
    BY <1>1 DEF CallType
  <2>2. Goes(p, d) /\ decoy' = [decoy EXCEPT ![c.key] = v] /\ c.at = "fill"
    BY <1>6 DEF Fill
  <2>3. /\ v \in [is : {"absent", "part", "full"}, token : Nat, base : Bases \cup {NoBase}]
        /\ v.token = c.token /\ v.base = c.base
    BY <1>1 DEF Holding, CallType
  <2> HIDE DEF d, v
  <2>4. CallOK(d) /\ ~Draws(d) /\ d.at \notin AddressSteps
    BY <1>1, <2>1, <2>2, Types DEF CallOK, SeedOK, Draws
  <2>5. v.token <= minted /\ (v.token # 0 => Tracked(v.token, c.key, v.base))
    BY <1>1, <2>2, <2>3 DEF CallOK, SeedOK
  <2>6. QED
    BY <1>4, <1>6, <2>2, <2>3, <2>4, <2>5
<1>7. QED
  <2>1. CASE Open(p)
    BY <1>3, <1>5, <2>1 DEF Open
  <2>2. CASE Fill(p)
    BY <1>3, <1>6, <2>2 DEF Fill
  <2>3. QED
    BY <2>1, <2>2

\* A call ends, or is killed, without the lock.
LEMMA SeededKeeps == ASSUME Inv, NEW p \in Procs, Seeded(p) \/ LockBusy(p) PROVE Inv'
<1>1. /\ Goes(p, Idle) /\ UNCHANGED <<files, lock, decoy, minted, faults, handed, glued>>
      /\ call[p].at \in {"look", "lock"}
  BY DEF Seeded, LockBusy
<1>2. QED
  BY <1>1, IdleFits, QuietCall DEF Idle

\* A call ends, or is killed, and frees the lock if it has it.
LEMMA LeavingKeeps ==
    ASSUME Inv, NEW p \in Procs, Leaves(p), Fault \/ faults' = faults,
           UNCHANGED <<files, decoy, minted, glued>>, HandedOK'
    PROVE  Inv'
<1>1. Goes(p, Idle)
  BY DEF Leaves
<1>2. /\ RegistryOK' /\ CallsOK' /\ TokensOnce' /\ OneUrlPerDecoy' /\ Later
      /\ minted' = minted
  BY <1>1, IdleFits, QuietMove
<1>3. LockOK'
  BY LockLeft DEF Inv
<1>4. DecoysOK'
  BY <1>2, Types, DecoysKept DEF Inv
<1>5. faults' \in 0 .. MaxFaults
  BY FaultFits DEF Inv
<1>6. QED
  BY <1>2, <1>3, <1>4, <1>5 DEF Inv

LEMMA HandedRests == ASSUME Inv, UNCHANGED <<files, glued, handed, minted>> PROVE HandedOK'
<1>1. Later /\ PlaceKeys' = PlaceKeys
  BY Types, FileRests DEF Inv
<1>2. Cardinality(PlaceKeys') <= FREE_TIER_MAX_ADDRESSES
  BY <1>1 DEF Inv, HandedOK
<1>3. QED
  BY <1>1, <1>2, HandedKept DEF Inv

LEMMA CrashKeeps == ASSUME Inv, NEW p \in Procs, Crash(p) \/ Refused(p) PROVE Inv'
  BY HandedRests, LeavingKeeps DEF Crash, Refused

LEMMA RemoveKeeps == ASSUME Inv, NEW f \in Paths, RemoveDecoy(f) PROVE Inv'
<1>1. UNCHANGED <<files, lock, call, minted, handed, glued>> /\ decoy' = [decoy EXCEPT ![f] = Absent]
  BY DEF RemoveDecoy
<1>2. Later /\ PlaceKeys' = PlaceKeys
  BY <1>1, Types, FileRests DEF Inv
<1>3. DecoysOK'
  <2>1. Absent.token <= minted /\ Absent.token = 0
    BY Types, DecoyTypes
  <2>2. QED
    BY <1>1, <1>2, <2>1, Types, DecoyTypes, DecoyMoves DEF Inv
<1>4. HandedOK'
  BY <1>1, HandedRests
<1>5. faults' \in 0 .. MaxFaults
  BY FaultFits DEF RemoveDecoy, Inv
<1>6. RegistryOK'
  BY <1>1, Types, RegistryRests DEF Inv
<1>7. CallsOK'
  <2>1. Reach' = Reach /\ minted' = minted
    BY <1>1 DEF Reach
  <2>2. ASSUME NEW d, CallOK(d)
        PROVE  CallOK(d)'
    BY <1>2, <2>1, <2>2, Types, CallKept
  <2>3. QED
    BY <1>1, <2>2 DEF Inv, CallsOK
<1>8. LockOK' /\ TokensOnce' /\ OneUrlPerDecoy'
  BY <1>1 DEF Inv, LockOK, TokensOnce, OneUrlPerDecoy
<1>9. QED
  BY <1>3, <1>4, <1>5, <1>6, <1>7, <1>8 DEF Inv

LEMMA StartAddressKeeps ==
    ASSUME Inv, NEW p \in Procs, NEW base \in Bases \cup {NoBase}, NEW place \in Places,
           NEW domain \in Domains, StartAddress(p, place, domain, base)
    PROVE  Inv'
<1> DEFINE c == [Idle EXCEPT !.at = "lock", !.key = place, !.domain = domain, !.base = base]
<1>1. /\ Goes(p, c) /\ call[p].at = "idle"
      /\ UNCHANGED <<files, lock, decoy, minted, faults, handed, glued>>
  BY DEF StartAddress
<1>2. Idle \in CallType /\ CallOK(Idle)
  BY IdleFits DEF CallOK
<1>3. /\ c \in CallType /\ c.at = "lock" /\ c.key = place /\ c.token = Idle.token
      /\ c.from = Idle.from /\ c.known = Idle.known
  BY <1>2 DEF CallType
<1> HIDE DEF c
<1>4. CallOK(c) /\ ~Draws(c)
  BY <1>2, <1>3 DEF CallOK, AddressOK, Draws
<1>5. QED
  BY <1>1, <1>3, <1>4, QuietCall

LEMMA EnterKeeps == ASSUME Inv, NEW p \in Procs, Enter(p) PROVE Inv'
<1> DEFINE c == call[p]
           d == [c EXCEPT !.at = "read"]
<1>1. CallOK(c) /\ c \in CallType /\ c.at = "lock" /\ AddressOK(c)
  BY DEF Inv, CallsOK, CallOK, Enter
<1>2. /\ Goes(p, d) /\ lock = {} /\ lock' = {p}
      /\ UNCHANGED <<files, decoy, minted, faults, handed, glued>>
  BY DEF Enter, MayEnter
<1>3. /\ d \in CallType /\ d.at = "read" /\ d.key = c.key /\ d.token = c.token
      /\ d.from = c.from /\ d.known = c.known
  BY <1>1 DEF CallType
<1> HIDE DEF d
<1>4. CallOK(d) /\ ~Draws(d)
  BY <1>1, <1>3 DEF CallOK, AddressOK, Draws
<1>5. /\ RegistryOK' /\ CallsOK' /\ TokensOnce' /\ OneUrlPerDecoy' /\ Later
      /\ minted' = minted
  BY <1>2, <1>4, QuietMove
<1>6. LockOK'
  <2>1. \A q \in Procs : call'[q] = IF q = p THEN d ELSE call[q]
    BY <1>2, Types DEF Goes
  <2>2. QED
    BY <1>2, <1>3, <2>1 DEF Inv, LockOK
<1>7. DecoysOK'
  BY <1>2, <1>5, Types, DecoysKept DEF Inv
<1>8. HandedOK'
  BY <1>2, HandedRests
<1>9. QED
  BY <1>2, <1>5, <1>6, <1>7, <1>8 DEF Inv

\* A call draws a token.
LEMMA DrawKeeps ==
    ASSUME Inv, NEW p \in Procs, NEW d, Goes(p, d), minted' = minted + 1,
           UNCHANGED <<files, lock, decoy, faults, handed, glued>>,
           d.token = minted + 1, CallOK(d)',
           d.at \in AddressSteps \ {"lock"} <=> call[p].at \in AddressSteps \ {"lock"}
    PROVE  Inv'
<1>0. minted' \in Nat /\ minted <= minted'
  BY Types
<1>1. Later /\ PlaceKeys' = PlaceKeys /\ Reach' = Reach
  BY <1>0, FileRests DEF Inv, Reach
<1>2. RegistryOK'
  BY <1>0, RegistryRests DEF Inv
<1>3. \A q \in Procs : call'[q] = IF q = p THEN d ELSE call[q]
  BY Types DEF Goes
<1>4. CallsOK'
  <2>2. ASSUME NEW e, CallOK(e)
        PROVE  CallOK(e)'
    BY <1>0, <1>1, <2>2, Types, CallKept
  <2>3. d \in CallType
    BY DEF CallOK
  <2>4. call' \in [Procs -> CallType]
    BY <2>3, Types DEF Goes
  <2>5. ASSUME NEW q \in Procs
        PROVE  CallOK(call[q])'
    <3>1. CASE q = p
      BY <1>3, <3>1
    <3>2. CASE q # p
      <4> DEFINE e == call[q]
      <4>1. CallOK(e)
        BY DEF Inv, CallsOK
      <4>2. CallOK(e)' /\ call'[q] = e
        BY <1>3, <2>2, <3>2, <4>1
      <4>3. QED
        BY <2>2, <4>1, <4>2
    <3>3. QED
      BY <3>1, <3>2
  <2>6. QED
    BY <2>4, <2>5 DEF CallsOK
<1>5. TokensOnce'
  <2>1. \A i \in 1 .. Len(registry) : registry[i].token <= minted /\ registry[i].token \in Nat
    <3>1. \A i \in 1 .. Len(registry) : registry[i] \in LineType
      BY Types
    <3>2. QED
      BY <3>1 DEF Inv, RegistryOK, LineType
  <2>2. \A q \in Procs : call[q].token <= minted /\ call[q].token \in Nat
    BY DEF Inv, CallsOK, CallOK, CallType
  <2>3. \A i \in 1 .. Len(registry) : registry[i].token # d.token
    BY <2>1, Types
  <2>4. \A q \in Procs : call[q].token # d.token
    BY <2>2, Types
  <2>5. QED
    BY <1>3, <2>3, <2>4 DEF Inv, TokensOnce
<1>6. LockOK'
  BY LockKept DEF Inv
<1>7. DecoysOK'
  BY <1>0, <1>1, Types, DecoysKept DEF Inv
<1>8. HandedOK'
  BY <1>1, HandedKept DEF Inv, HandedOK
<1>9. OneUrlPerDecoy'
  BY DEF Inv, OneUrlPerDecoy
<1>10. QED
  BY <1>2, <1>4, <1>5, <1>6, <1>7, <1>8, <1>9 DEF Inv

LEMMA MintKeeps == ASSUME Inv, NEW p \in Procs, NEW path \in Paths, Mint(p, path) PROVE Inv'
<1> DEFINE c == call[p]
<1>0. PICK d : d = [c EXCEPT !.at = "persist", !.key = path, !.token = minted + 1,
                     !.known[path] = minted + 1]
  OBVIOUS
<1>1. CallOK(c) /\ c \in CallType /\ c.at = "look" /\ SeedOK(c)
  BY DEF Inv, CallsOK, CallOK, Mint
<1>2. /\ Goes(p, d) /\ minted' = minted + 1 /\ c.base # NoBase /\ c.known[path] = 0
      /\ UNCHANGED <<files, lock, decoy, faults, handed, glued>>
  BY <1>0 DEF Mint
<1>3. minted + 1 \in Nat /\ minted \in Nat /\ Reach \in Nat
  BY Types
<1>4. /\ d \in CallType /\ d.at = "persist" /\ d.key = path /\ d.token = minted + 1
      /\ d.from = c.from /\ d.base = c.base /\ d.known = [c.known EXCEPT ![path] = minted + 1]
  BY <1>0, <1>1, <1>3 DEF CallType
<1>5. c.known \in [Paths -> Nat] /\ c.from \in Nat
  BY <1>1 DEF CallType
<1>6. \A f \in Paths : d.known[f] = IF f = path THEN minted + 1 ELSE c.known[f]
  BY <1>4, <1>5
<1>7. SeedOK(d)
  <2>1. Unseen(path, c.base, c.from)
    BY <1>1, <1>2 DEF SeedOK
  <2>2. minted + 1 # 0 /\ minted + 1 > 0
    BY <1>3
  <2>3. QED
    BY <1>1, <1>2, <1>4, <1>6, <2>1, <2>2 DEF SeedOK
<1>8. CallOK(d)'
  <2>1. Later /\ Reach' = Reach
    BY <1>2, <1>3, FileRests DEF Inv, Reach
  <2>2. SeedOK(d)'
    BY <1>7, <1>2 DEF SeedOK, Tracked, Unseen
  <2>3. \A f \in Paths : d.known[f] <= minted'
    BY <1>1, <1>2, <1>3, <1>5, <1>6 DEF CallOK
  <2>4. d.token <= minted' /\ d.from <= Reach'
    BY <1>1, <1>2, <1>3, <1>4, <2>1 DEF CallOK
  <2>5. QED
    BY <1>4, <2>2, <2>3, <2>4 DEF CallOK
<1>9. QED
  BY <1>1, <1>2, <1>4, <1>8, DrawKeeps

\* The table that is read and the places in it.
LEMMA TableIs == ASSUME RegistryOK PROVE {r.key : r \in Table} = PlaceKeys
<1>1. \A i \in 1 .. Len(registry) : registry[i].kind = "place" => registry[i].key \in Places
  BY DEF RegistryOK
<1>2. QED
  BY <1>1 DEF Table, Readable, PlaceKeys

LEMMA DrawAliasKeeps == ASSUME Inv, NEW p \in Procs, DrawAlias(p) PROVE Inv'
<1> DEFINE c == call[p]
<1>0. PICK d : d = [c EXCEPT !.at = "mint", !.token = minted + 1]
  OBVIOUS
<1>1. CallOK(c) /\ c \in CallType /\ c.at = "read" /\ AddressOK(c)
  BY DEF Inv, CallsOK, CallOK, DrawAlias
<1>2. /\ Goes(p, d) /\ minted' = minted + 1
      /\ Cardinality({r.key : r \in Table}) < FREE_TIER_MAX_ADDRESSES
      /\ OfPlace(c.key) = {}
      /\ UNCHANGED <<files, lock, decoy, faults, handed, glued>>
  BY <1>0 DEF DrawAlias
<1>3. minted + 1 \in Nat /\ minted \in Nat /\ Reach \in Nat
  BY Types
<1>4. /\ d \in CallType /\ d.at = "mint" /\ d.key = c.key /\ d.token = minted + 1
      /\ d.from = c.from /\ d.base = c.base /\ d.known = c.known
  BY <1>0, <1>1, <1>3 DEF CallType
<1>5. c.known \in [Paths -> Nat] /\ c.from \in Nat
  BY <1>1 DEF CallType
<1>6. {r.key : r \in Table} = PlaceKeys
  BY TableIs DEF Inv
<1>7. CallOK(d)'
  <2>1. Reach' = Reach /\ PlaceKeys' = PlaceKeys
    BY <1>2 DEF Reach, PlaceKeys
  <2>2. AddressOK(d)'
    <3>1. c.key \notin PlaceKeys
      BY <1>2 DEF OfPlace, Table, Readable, PlaceKeys
    <3>2. Cardinality(PlaceKeys) < FREE_TIER_MAX_ADDRESSES
      BY <1>2, <1>6
    <3>3. d.key \in Places /\ d.token > 0 /\ d.key \notin PlaceKeys'
      BY <1>1, <1>3, <1>4, <2>1, <3>1 DEF AddressOK
    <3>4. QED
      BY <1>4, <2>1, <3>2, <3>3 DEF AddressOK
  <2>3. \A f \in Paths : d.known[f] <= minted'
    BY <1>1, <1>2, <1>3, <1>4, <1>5 DEF CallOK
  <2>4. d.token <= minted' /\ d.from <= Reach'
    BY <1>1, <1>2, <1>3, <1>4, <2>1 DEF CallOK
  <2>5. QED
    BY <1>4, <2>2, <2>3, <2>4 DEF CallOK
<1>8. QED
  BY <1>1, <1>2, <1>4, <1>7, DrawKeeps

-----------------------------------------------------------------------------
(* Steps that append to the file. *)

\* A line of a token that its call has drawn is appended, cut short or not.
LEMMA AppendKeeps ==
    ASSUME Inv, NEW p \in Procs, Draws(call[p]), NEW line, Appendable(line), Writes(line),
           line.token = call[p].token, line.from <= Reach,
           line.kind = "decoy" => Unseen(line.key, line.base, line.from),
           line.kind = "place" => call[p].at = "mint",
           NEW d, Goes(p, d), ~Draws(d), CallOK(d)',
           UNCHANGED <<minted, decoy, handed>>, LockOK'
    PROVE  Inv'
<1>1. LinesStay(line) /\ Later /\ RegistryOK'
  BY WriteChanges, FileMoves, RegistryKept DEF Inv
<1>2. /\ Reach' \in Nat /\ Len(registry') \in Nat /\ minted' \in Nat
      /\ registry' \in Seq(LineType)
  BY <1>1 DEF RegistryOK, Reach
<1>3. \A q \in Procs : call'[q] = IF q = p THEN d ELSE call[q]
  BY Types DEF Goes
<1>4. /\ Cardinality(PlaceKeys) \in Nat /\ Cardinality(PlaceKeys') \in Nat
      /\ line.kind # "place" => Cardinality(PlaceKeys') <= Cardinality(PlaceKeys)
      /\ line.kind = "place" => Cardinality(PlaceKeys') <= Cardinality(PlaceKeys) + 1
  <2>1. PlaceKeys \subseteq Places /\ PlaceKeys' \subseteq Places
    BY DEF PlaceKeys
  <2>2. PlaceKeys' \subseteq IF line.kind = "place" THEN PlaceKeys \cup {line.key} ELSE PlaceKeys
    BY PlacesGrow DEF Inv
  <2>3. IsFiniteSet(PlaceKeys) /\ Cardinality(PlaceKeys) \in Nat /\ Cardinality(PlaceKeys') \in Nat
    BY <2>1, PlacesCounted
  <2>4. CASE line.kind = "place"
    <3>1. PlaceKeys \cup {line.key} \subseteq Places
      BY <2>1, <2>4 DEF Appendable
    <3>2. Cardinality(PlaceKeys') <= Cardinality(PlaceKeys \cup {line.key})
      BY <2>2, <2>4, <3>1, PlacesCounted
    <3>3. Cardinality(PlaceKeys \cup {line.key}) <= Cardinality(PlaceKeys) + 1
      <4>1. Cardinality(PlaceKeys \cup {line.key}) =
                IF line.key \in PlaceKeys THEN Cardinality(PlaceKeys) ELSE Cardinality(PlaceKeys) + 1
        BY <2>3, FS_AddElement
      <4>2. QED
        BY <2>3, <4>1
    <3>4. Cardinality(PlaceKeys \cup {line.key}) \in Nat
      BY <3>1, PlacesCounted
    <3>5. QED
      BY <2>3, <2>4, <3>2, <3>3, <3>4
  <2>5. CASE line.kind # "place"
    BY <2>1, <2>2, <2>3, <2>5, PlacesCounted
  <2>6. QED
    BY <2>4, <2>5
<1>5. Cardinality(PlaceKeys') <= FREE_TIER_MAX_ADDRESSES
  <2>1. Cardinality(PlaceKeys) <= FREE_TIER_MAX_ADDRESSES
    BY DEF Inv, HandedOK
  <2>2. line.kind = "place" => Cardinality(PlaceKeys) < FREE_TIER_MAX_ADDRESSES
    BY DEF Inv, CallsOK, CallOK, AddressOK
  <2>3. QED
    BY <1>4, <2>1, <2>2, ConstantsAssumption
<1>6. CallsOK'
  <2>1. ASSUME NEW q \in Procs, q # p, NEW e, e = call[q]
        PROVE  CallOK(e)'
    <3>1. CallOK(e)
      BY <2>1 DEF Inv, CallsOK
    <3>2. PlaceKeys' \subseteq PlaceKeys \/ e.at # "mint"
      <4>1. CASE line.kind = "place"
        BY <2>1, <4>1 DEF Inv, LockOK, AddressSteps
      <4>2. CASE line.kind # "place"
        BY <4>2, PlacesGrow DEF Inv
      <4>3. QED
        BY <4>1, <4>2
    <3>3. QED
      BY <1>1, <1>2, <3>1, <3>2, Types, CallKept
  <2>2. d \in CallType
    BY DEF CallOK
  <2>3. call' \in [Procs -> CallType]
    BY <2>2, Types DEF Goes
  <2>4. ASSUME NEW q \in Procs
        PROVE  CallOK(call[q])'
    <3>1. CASE q = p
      BY <1>3, <3>1
    <3>2. CASE q # p
      BY <1>3, <2>1, <3>2
    <3>3. QED
      BY <3>1, <3>2
  <2>5. QED
    BY <2>3, <2>4 DEF CallsOK
<1>7. ASSUME NEW i \in 1 .. Len(registry'), registry'[i].kind # "junk"
      PROVE  \/ i \in 1 .. Len(registry) /\ registry'[i] = registry[i]
             \/ i = Len(registry) + 1 /\ registry'[i] = line
  BY <1>1, <1>7, JunkFits DEF LinesStay
<1>8. TokensOnce'
  <2>1. \A i \in 1 .. Len(registry) : registry[i].kind # "junk" => registry[i].token # line.token
    BY DEF Inv, TokensOnce
  <2>2. ASSUME NEW i \in 1 .. Len(registry'), NEW j \in 1 .. Len(registry'),
               registry'[i].kind # "junk", registry'[j].kind # "junk",
               registry'[i].token = registry'[j].token
        PROVE  i = j
    BY <1>7, <2>1, <2>2 DEF Inv, TokensOnce
  <2>3. ASSUME NEW q \in Procs, NEW i \in 1 .. Len(registry'),
               Draws(call'[q]), registry'[i].kind # "junk"
        PROVE  registry'[i].token # call'[q].token
    <3>1. q # p /\ call'[q] = call[q]
      BY <1>3, <2>3
    <3>2. line.token # call[q].token
      BY <2>3, <3>1 DEF Inv, TokensOnce
    <3>3. QED
      BY <1>7, <2>3, <3>1, <3>2 DEF Inv, TokensOnce
  <2>4. ASSUME NEW q \in Procs, NEW r \in Procs,
               Draws(call'[q]), Draws(call'[r]), call'[q].token = call'[r].token
        PROVE  q = r
    BY <1>3, <2>4 DEF Inv, TokensOnce
  <2>5. QED
    BY <2>2, <2>3, <2>4 DEF TokensOnce, Draws
<1>9. OneUrlPerDecoy'
  <2> SUFFICES ASSUME NEW i \in 1 .. Len(registry'), NEW j \in 1 .. Len(registry'), i < j,
                      registry'[i].kind = "decoy", registry'[j].kind = "decoy",
                      registry'[i].key = registry'[j].key, registry'[i].base = registry'[j].base
               PROVE  registry'[j].from < i
    BY DEF OneUrlPerDecoy
  <2>1. CASE j \in 1 .. Len(registry) /\ registry'[j] = registry[j]
    <3>1. i \in 1 .. Len(registry) /\ registry'[i] = registry[i]
      BY <1>7, <2>1, Types
    <3>2. QED
      BY <2>1, <3>1 DEF Inv, OneUrlPerDecoy
  <2>2. CASE j = Len(registry) + 1 /\ registry'[j] = line
    <3>1. i \in 1 .. Len(registry) /\ registry'[i] = registry[i]
      BY <1>7, <2>2, Types
    <3>2. ~(i <= line.from)
      BY <2>2, <3>1 DEF Unseen
    <3>3. line.from \in Nat
      BY DEF Appendable, LineType
    <3>4. QED
      BY <2>2, <3>1, <3>2, <3>3
  <2>3. QED
    BY <1>7, <2>1, <2>2
<1>10. DecoysOK'
  BY <1>1, <1>2, Types, DecoysKept DEF Inv
<1>11. HandedOK'
  BY <1>1, <1>5, HandedKept DEF Inv
<1>12. faults' \in 0 .. MaxFaults
  BY FaultFits DEF Inv, Writes, Persisted, NotPersisted
<1>13. QED
  BY <1>1, <1>6, <1>8, <1>9, <1>10, <1>11, <1>12 DEF Inv

LEMMA IdleLater ==
    ASSUME Inv, NEW line, Appendable(line), Writes(line), line.from <= Reach, minted' = minted
    PROVE  CallOK(Idle)'
<1>1. CallOK(Idle) /\ Idle.at # "mint"
  BY IdleFits DEF Idle
<1>2. Later /\ Reach' \in Nat /\ minted' \in Nat
  BY FileMoves, RegistryKept DEF Inv, RegistryOK, Reach
<1>3. PICK d : d = Idle
  OBVIOUS
<1>4. CallOK(d)'
  BY <1>1, <1>2, <1>3, Types, CallKept
<1>5. QED
  BY <1>3, <1>4

LEMMA PersistKeeps == ASSUME Inv, NEW p \in Procs, Persist(p) PROVE Inv'
<1> DEFINE c == call[p]
<1>1. CallOK(c) /\ c \in CallType /\ c.at = "persist" /\ SeedOK(c) /\ Draws(c)
  BY DEF Inv, CallsOK, CallOK, Persist, Draws
<1>2. /\ c.key \in Paths /\ c.base # NoBase /\ c.token > 0 /\ c.token <= minted
      /\ Unseen(c.key, c.base, c.from) /\ c.from <= Reach
  BY <1>1 DEF SeedOK, CallOK
<1>3. PICK line : line = Line("decoy", c.token, c.base, c.key, NoBase, c.from)
  OBVIOUS
<1>4. /\ line \in LineType /\ line.kind = "decoy" /\ line.token = c.token /\ line.key = c.key
      /\ line.base = c.base /\ line.from = c.from
  BY <1>1, <1>3 DEF Line, LineType, CallType
<1>5. Appendable(line)
  BY <1>1, <1>2, <1>4, Types DEF Appendable, CallType
<1>6. UNCHANGED <<lock, decoy, minted, handed>>
  BY DEF Persist
<1>7. CASE Persisted(line) /\ Goes(p, [c EXCEPT !.at = "open"])
  <2>1. PICK d : d = [c EXCEPT !.at = "open"]
    OBVIOUS
  <2>2. /\ d \in CallType /\ d.at = "open" /\ d.key = c.key /\ d.token = c.token
        /\ d.from = c.from /\ d.base = c.base /\ d.known = c.known
    BY <1>1, <2>1 DEF CallType
  <2>3. Later /\ Reach' \in Nat /\ registry' \in Seq(LineType)
    BY <1>2, <1>4, <1>5, <1>6, <1>7, FileMoves, RegistryKept DEF Inv, Writes, RegistryOK, Reach
  <2>4. Tracked(d.token, d.key, d.base)'
    BY <1>4, <1>5, <1>7, <2>2, PersistedThere DEF Inv, Tracked
  <2>5. \A f \in Paths : d.known[f] # 0 => Tracked(d.known[f], f, d.base)'
    <3>1. \A f \in Paths : f # d.key /\ d.known[f] # 0 => Tracked(d.known[f], f, d.base)'
      BY <1>1, <2>2, <2>3 DEF SeedOK, Later
    <3>2. d.known[d.key] = d.token
      BY <1>1, <2>2 DEF SeedOK
    <3>3. QED
      BY <2>4, <3>1, <3>2
  <2>6. \A f \in Paths : d.known[f] = 0 => Unseen(f, d.base, d.from)'
    <3>1. d.from \in Nat /\ d.from <= Reach /\ d.base # NoBase
      BY <1>2, <2>2 DEF CallType
    <3>2. ASSUME NEW f \in Paths, d.known[f] = 0
          PROVE  Unseen(f, d.base, d.from)
      BY <1>1, <2>2, <3>1, <3>2 DEF SeedOK
    <3>3. QED
      BY <2>3, <3>1, <3>2 DEF Later
  <2>7. SeedOK(d)'
    BY <1>2, <2>2, <2>4, <2>5, <2>6 DEF SeedOK
  <2>8. CallOK(d)'
    <3>1. d.from <= Reach'
      BY <1>2, <2>2, <2>3, Types DEF Later, CallType
    <3>2. d.token <= minted' /\ \A f \in Paths : d.known[f] <= minted'
      BY <1>1, <1>6, <2>2 DEF CallOK
    <3>3. QED
      BY <2>2, <2>7, <3>1, <3>2 DEF CallOK
  <2>9. Goes(p, d) /\ Writes(line) /\ ~Draws(d)
    BY <1>7, <2>1, <2>2 DEF Writes, Draws
  <2>10. LockOK'
    BY <1>1, <1>6, <2>2, <2>9, LockKept DEF Inv
  <2>11. QED
    BY <1>1, <1>2, <1>4, <1>5, <1>6, <2>8, <2>9, <2>10, AppendKeeps
<1>8. CASE NotPersisted(line) /\ Goes(p, Idle)
  <2>1. PICK d : d = Idle
    OBVIOUS
  <2>2. Writes(line) /\ Goes(p, d) /\ ~Draws(d) /\ d.at = "idle"
    BY <1>8, <2>1, IdleFits DEF Writes, Idle
  <2>3. CallOK(d)'
    BY <1>2, <1>4, <1>5, <1>6, <2>1, <2>2, IdleLater
  <2>4. LockOK'
    BY <1>1, <1>6, <2>2, LockKept DEF Inv
  <2>5. QED
    BY <1>1, <1>2, <1>4, <1>5, <1>6, <2>2, <2>3, <2>4, AppendKeeps
<1>9. QED
  BY <1>3, <1>7, <1>8 DEF Persist, AfterFailedPersist

LEMMA PersistAliasKeeps == ASSUME Inv, NEW p \in Procs, PersistAlias(p) PROVE Inv'
<1> DEFINE c == call[p]
<1>1. CallOK(c) /\ c \in CallType /\ c.at = "mint" /\ AddressOK(c) /\ Draws(c)
  BY DEF Inv, CallsOK, CallOK, PersistAlias, Draws
<1>2. /\ c.key \in Places /\ c.key \notin PlaceKeys
      /\ c.token > 0 /\ c.token <= minted /\ c.from <= Reach
  BY <1>1 DEF AddressOK, CallOK
<1>3. PICK line : line = Line("place", c.token, c.base, c.key, c.domain, 0)
  OBVIOUS
<1>4. /\ line \in LineType /\ line.kind = "place" /\ line.token = c.token /\ line.key = c.key
      /\ line.domain = c.domain /\ line.from = 0 /\ line.from <= Reach
  BY <1>1, <1>3, Types DEF Line, LineType, CallType
<1>5. Appendable(line)
  BY <1>1, <1>2, <1>4, Types DEF Appendable, CallType
<1>6. UNCHANGED <<decoy, minted, handed>>
  BY DEF PersistAlias
<1>7. CASE Persisted(line) /\ Goes(p, [c EXCEPT !.at = "recheck"]) /\ UNCHANGED lock
  <2>1. PICK d : d = [c EXCEPT !.at = "recheck"]
    OBVIOUS
  <2>2. /\ d \in CallType /\ d.at = "recheck" /\ d.key = c.key /\ d.token = c.token
        /\ d.from = c.from /\ d.domain = c.domain /\ d.known = c.known
    BY <1>1, <2>1 DEF CallType
  <2>3. Later /\ Reach' \in Nat
    BY <1>2, <1>4, <1>5, <1>6, <1>7, FileMoves, RegistryKept DEF Inv, Writes, RegistryOK, Reach
  <2>4. Placed(d.token, d.key, d.domain)'
    BY <1>4, <1>5, <1>7, <2>2, PersistedThere DEF Inv, Placed
  <2>5. CallOK(d)'
    <3>1. d.from <= Reach'
      BY <1>2, <2>2, <2>3, Types DEF Later, CallType
    <3>2. d.token <= minted' /\ \A f \in Paths : d.known[f] <= minted'
      BY <1>1, <1>6, <2>2 DEF CallOK
    <3>3. AddressOK(d)'
      BY <1>2, <2>2, <2>4 DEF AddressOK
    <3>4. QED
      BY <2>2, <3>1, <3>2, <3>3 DEF CallOK
  <2>6. Goes(p, d) /\ Writes(line) /\ ~Draws(d)
    BY <1>7, <2>1, <2>2 DEF Writes, Draws
  <2>7. LockOK'
    BY <1>1, <1>7, <2>2, <2>6, LockKept DEF Inv
  <2>8. QED
    BY <1>1, <1>4, <1>5, <1>6, <2>5, <2>6, <2>7, AppendKeeps
<1>8. CASE NotPersisted(line) /\ Leaves(p)
  <2>1. PICK d : d = Idle
    OBVIOUS
  <2>2. Writes(line) /\ Goes(p, d) /\ ~Draws(d)
    BY <1>8, <2>1, IdleFits DEF Writes, Leaves
  <2>3. CallOK(d)'
    BY <1>4, <1>5, <1>6, <2>1, <2>2, IdleLater
  <2>4. LockOK'
    BY <1>8, LockLeft DEF Inv
  <2>5. QED
    BY <1>1, <1>4, <1>5, <1>6, <2>2, <2>3, <2>4, AppendKeeps
<1>9. QED
  BY <1>3, <1>7, <1>8 DEF PersistAlias

-----------------------------------------------------------------------------
(* Addresses are handed out of a table that is not corrupt. *)

\* Nothing is glued then: a line of every address is there, one for each place.
LEMMA SoundTable ==
    ASSUME RegistryOK, ~Corrupt
    PROVE  /\ \A a, k, d : Placed(a, k, d) =>
                \E i \in 1 .. Len(registry) :
                    /\ registry[i].kind = "place" /\ registry[i].token = a
                    /\ registry[i].key = k /\ registry[i].domain = d
           /\ \A i, j \in 1 .. Len(registry) :
                registry[i].kind = "place" /\ registry[j].kind = "place"
                /\ registry[i].key = registry[j].key => i = j
<1>1. ~Stained
  BY DEF Corrupt, Stained
<1>2. glued = {}
  BY <1>1 DEF RegistryOK
<1>3. QED
  BY <1>2 DEF Placed, Corrupt

LEMMA HandedGrows ==
    ASSUME Inv, ~Corrupt, UNCHANGED <<files, glued, minted>>,
           NEW h \in [place : Places, domain : Domains \cup {NoBase}, alias : Nat],
           Placed(h.alias, h.place, h.domain), handed' = handed \cup {h}
    PROVE  HandedOK'
<1>1. Later /\ PlaceKeys' = PlaceKeys
  BY Types, FileRests DEF Inv
<1>2. \A g \in handed' : /\ g \in [place : Places, domain : Domains \cup {NoBase}, alias : Nat]
                         /\ Placed(g.alias, g.place, g.domain)
  BY DEF Inv, HandedOK
<1>3. \A f, g \in handed' : f.place = g.place => f = g
  <2> SUFFICES ASSUME NEW f \in handed', NEW g \in handed', f.place = g.place
               PROVE  f = g
    OBVIOUS
  <2>1. PICK i \in 1 .. Len(registry) :
            /\ registry[i].kind = "place" /\ registry[i].token = f.alias
            /\ registry[i].key = f.place /\ registry[i].domain = f.domain
    BY SMTT(40), <1>2, SoundTable DEF Inv
  <2>2. PICK j \in 1 .. Len(registry) :
            /\ registry[j].kind = "place" /\ registry[j].token = g.alias
            /\ registry[j].key = g.place /\ registry[j].domain = g.domain
    BY <1>2, SoundTable DEF Inv
  <2>3. i = j
    BY <2>1, <2>2, SoundTable DEF Inv
  <2>4. f.alias = g.alias /\ f.domain = g.domain
    BY <2>1, <2>2, <2>3
  <2>5. QED
    BY <1>2, <2>4
<1>4. Cardinality({g.place : g \in handed'}) <= FREE_TIER_MAX_ADDRESSES
  <2>1. \A g \in handed' : g.place \in PlaceKeys
    BY <1>2, SoundTable DEF Inv, PlaceKeys
  <2>2. PICK S : S = {g.place : g \in handed'}
    OBVIOUS
  <2>3. S \subseteq PlaceKeys /\ PlaceKeys \subseteq Places
    BY <2>1, <2>2 DEF PlaceKeys
  <2>4. /\ Cardinality(S) <= Cardinality(PlaceKeys) /\ Cardinality(S) \in Nat
        /\ Cardinality(PlaceKeys) \in Nat
    BY <2>3, PlacesCounted
  <2>5. Cardinality(PlaceKeys) <= FREE_TIER_MAX_ADDRESSES
    BY DEF Inv, HandedOK
  <2>6. Cardinality(S) <= FREE_TIER_MAX_ADDRESSES
    BY <2>4, <2>5, ConstantsAssumption
  <2>7. QED
    BY <2>2, <2>6
<1>5. \A g \in handed' : Placed(g.alias, g.place, g.domain)'
  BY <1>1, <1>2 DEF Later
<1>6. Cardinality(PlaceKeys') <= FREE_TIER_MAX_ADDRESSES
  BY <1>1 DEF Inv, HandedOK
<1>7. OneAddressPerPlace'
  BY <1>3, <1>4 DEF OneAddressPerPlace
<1>8. QED
  BY <1>2, <1>5, <1>6, <1>7 DEF HandedOK

LEMMA KnownKeeps == ASSUME Inv, NEW p \in Procs, Known(p) PROVE Inv'
<1>1. PICK r \in OfPlace(call[p].key) :
          handed' = handed \cup {[place |-> r.key, domain |-> r.domain, alias |-> r.token]}
  BY DEF Known
<1>2. ~Corrupt /\ Leaves(p) /\ UNCHANGED <<files, decoy, minted, faults, glued>>
  BY DEF Known
<1>3. PICK i \in 1 .. Len(registry) : r = registry[i] /\ registry[i].kind = "place"
  BY <1>1 DEF OfPlace, Table, Readable
<1>4. r \in LineType /\ r.key \in Places
  BY <1>3 DEF Inv, RegistryOK
<1>5. PICK h : h = [place |-> r.key, domain |-> r.domain, alias |-> r.token]
  OBVIOUS
<1>6. /\ h \in [place : Places, domain : Domains \cup {NoBase}, alias : Nat]
      /\ h.alias = r.token /\ h.place = r.key /\ h.domain = r.domain
  BY <1>4, <1>5 DEF LineType
<1>7. Placed(h.alias, h.place, h.domain)
  BY <1>3, <1>6 DEF Placed
<1>8. HandedOK'
  BY <1>1, <1>2, <1>5, <1>6, <1>7, HandedGrows
<1>9. QED
  BY <1>2, <1>8, LeavingKeeps

LEMMA RecheckKeeps == ASSUME Inv, NEW p \in Procs, Recheck(p) PROVE Inv'
<1> DEFINE c == call[p]
<1>1. c \in CallType /\ c.key \in Places /\ Placed(c.token, c.key, c.domain)
  BY DEF Inv, CallsOK, CallOK, AddressOK, Recheck
<1>2. Leaves(p) /\ UNCHANGED <<files, decoy, minted, faults, glued>>
  BY DEF Recheck
<1>3. CASE Validates
  <2>1. PICK h : h = [place |-> c.key, domain |-> c.domain, alias |-> c.token]
    OBVIOUS
  <2>2. /\ h \in [place : Places, domain : Domains \cup {NoBase}, alias : Nat]
        /\ h.alias = c.token /\ h.place = c.key /\ h.domain = c.domain
    BY <1>1, <2>1 DEF CallType
  <2>3. handed' = handed \cup {h} /\ ~Corrupt
    BY <1>3, <2>1 DEF Recheck, Validates
  <2>4. HandedOK'
    BY <1>1, <1>2, <2>2, <2>3, HandedGrows
  <2>5. QED
    BY <1>2, <2>4, LeavingKeeps
<1>4. CASE ~Validates
  <2>1. handed' = handed
    BY <1>4 DEF Recheck
  <2>2. QED
    BY <1>2, <2>1, HandedRests, LeavingKeeps
<1>5. QED
  BY <1>3, <1>4

-----------------------------------------------------------------------------
(* The invariant and what follows. *)

LEMMA InitKeeps == Init => Inv
<1> SUFFICES ASSUME Init PROVE Inv
  OBVIOUS
<1>1. registry = <<>> /\ Len(registry) = 0 /\ registry \in Seq(LineType)
  BY DEF Init
<1>2. RegistryOK
  <2>1. ~Stained /\ glued = {} /\ tail = "closed" /\ minted = 0
    BY <1>1 DEF Init, Stained
  <2>2. QED
    BY <1>1, <2>1 DEF RegistryOK
<1>3. PlaceKeys = {} /\ Cardinality(PlaceKeys) = 0
  <2>1. PlaceKeys = {}
    BY <1>1 DEF PlaceKeys
  <2>2. QED
    BY <2>1, FS_EmptySet
<1>4. HandedOK
  <2>1. {h.place : h \in handed} = {} /\ handed = {}
    BY DEF Init
  <2>2. Cardinality({h.place : h \in handed}) = 0
    BY <2>1, FS_EmptySet
  <2>3. QED
    BY <1>3, <2>1, <2>2, ConstantsAssumption DEF HandedOK, OneAddressPerPlace
<1>5. Reach = 0 /\ minted = 0
  BY <1>1 DEF Reach, Init
<1>6. Idle \in CallType /\ Idle.token = 0 /\ Idle.from = 0 /\ Idle.at = "idle" /\ Idle.known = [f \in Paths |-> 0]
  BY DEF Idle, CallType
<1>7. CallOK(Idle)
  BY <1>5, <1>6 DEF CallOK
<1>8. CallsOK /\ LockOK
  BY <1>6, <1>7 DEF CallsOK, LockOK, Init
<1>9. TokensOnce
  BY <1>1, <1>6 DEF TokensOnce, Init, Draws
<1>10. DecoysOK
  BY DecoyTypes, <1>5 DEF DecoysOK, Init
<1>11. OneUrlPerDecoy /\ faults \in 0 .. MaxFaults
  BY <1>1, ConstantsAssumption DEF OneUrlPerDecoy, Init
<1>12. QED
  BY <1>2, <1>4, <1>8, <1>9, <1>10, <1>11 DEF Inv

LEMMA StepKeeps == ASSUME Inv, [Next]_vars PROVE Inv'
<1>1. ASSUME NEW p \in Procs, Begin(p)
      PROVE  Inv'
  <2>1. PICK base \in Bases \cup {NoBase} :
            \/ StartSeed(p, base)
            \/ \E place \in Places, domain \in Domains : StartAddress(p, place, domain, base)
    BY <1>1 DEF Begin
  <2>2. QED
    BY <2>1, StartSeedKeeps, StartAddressKeeps
<1>2. ASSUME NEW p \in Procs, SeedStep(p)
      PROVE  Inv'
  BY <1>2, LookKeeps, MintKeeps, PersistKeeps, WriteKeeps, SeededKeeps DEF SeedStep
<1>3. ASSUME NEW p \in Procs, AddressStep(p)
      PROVE  Inv'
  BY <1>3, EnterKeeps, SeededKeeps, KnownKeeps, CrashKeeps, DrawAliasKeeps, PersistAliasKeeps,
     RecheckKeeps DEF AddressStep
<1>4. ASSUME NEW p \in Procs, Crash(p)
      PROVE  Inv'
  BY <1>4, CrashKeeps
<1>5. ASSUME NEW f \in Paths, RemoveDecoy(f)
      PROVE  Inv'
  BY <1>5, RemoveKeeps
<1>6. CASE UNCHANGED vars
  <2> USE <1>6 DEF vars
  <2>1. RegistryOK' /\ faults' \in 0 .. MaxFaults
    BY DEF Inv, RegistryOK, Stained
  <2>2. \A t, f, b : Tracked(t, f, b) => Tracked(t, f, b)'
    BY DEF Tracked
  <2>3. Later /\ PlaceKeys' = PlaceKeys /\ Reach' = Reach /\ minted' = minted
    BY Types, FileRests DEF Inv, Reach
  <2>4. ASSUME NEW d, CallOK(d)
        PROVE  CallOK(d)'
    BY <2>3, <2>4, Types, CallKept
  <2>5. CallsOK'
    BY <2>4 DEF Inv, CallsOK
  <2>6. LockOK' /\ TokensOnce' /\ OneUrlPerDecoy'
    BY DEF Inv, LockOK, TokensOnce, OneUrlPerDecoy
  <2>7. DecoysOK' /\ HandedOK'
    BY <2>3, Types, DecoysKept, HandedRests DEF Inv
  <2>8. QED
    BY <2>1, <2>5, <2>6, <2>7 DEF Inv
<1>7. QED
  BY <1>1, <1>2, <1>3, <1>4, <1>5, <1>6 DEF Next

THEOREM InvAlways == Spec => []Inv
<1>1. Init => Inv
  BY InitKeeps
<1>2. Inv /\ [Next]_vars => Inv'
  BY StepKeeps
<1>3. QED
  BY <1>1, <1>2, PTL DEF Spec

LEMMA InvTypes == ASSUME Inv PROVE TypeOK
<1>1. \A i \in 1 .. Len(registry) :
           /\ registry[i].kind \in {"decoy", "place", "junk"}
           /\ registry[i].token \in 0 .. minted
           /\ registry[i].key \in Paths \cup Places \cup {NoBase}
           /\ registry[i].from \in 0 .. Len(registry)
  <2> SUFFICES ASSUME NEW i \in 1 .. Len(registry)
               PROVE  /\ registry[i].kind \in {"decoy", "place", "junk"}
                      /\ registry[i].token \in 0 .. minted
                      /\ registry[i].key \in Paths \cup Places \cup {NoBase}
                      /\ registry[i].from \in 0 .. Len(registry)
    OBVIOUS
  <2>1. registry[i] \in LineType /\ registry[i].from < i /\ registry[i].token <= minted
    BY DEF Inv, RegistryOK
  <2>2. QED
    BY <2>1, Types DEF LineType
<1>2. Cardinality(lock) <= 1 /\ lock \subseteq Procs
  <2>1. CASE lock = {}
    BY <2>1, FS_EmptySet
  <2>2. ASSUME NEW p \in Procs, lock = {p}
        PROVE  Cardinality(lock) <= 1 /\ lock \subseteq Procs
    BY <2>2, FS_Singleton
  <2>3. QED
    BY <2>1, <2>2 DEF Inv, LockOK
<1>3. \A f \in Paths :
           /\ decoy[f].is \in {"absent", "part", "full"}
           /\ decoy[f].token \in 0 .. minted
  BY Types DEF Inv, DecoysOK
<1>4. \A p \in Procs :
           /\ call[p].at \in {"idle"} \cup SeedSteps \cup AddressSteps
           /\ call[p].todo \subseteq Paths
           /\ call[p].token \in 0 .. minted
           /\ call[p].at \in AddressSteps \ {"lock"} <=> p \in lock
  <2> SUFFICES ASSUME NEW p \in Procs
               PROVE  /\ call[p].at \in {"idle"} \cup SeedSteps \cup AddressSteps
                      /\ call[p].todo \subseteq Paths
                      /\ call[p].token \in 0 .. minted
                      /\ call[p].at \in AddressSteps \ {"lock"} <=> p \in lock
    OBVIOUS
  <2>1. call[p] \in CallType /\ call[p].token <= minted
    BY DEF Inv, CallsOK, CallOK
  <2>2. call[p].at \in AddressSteps \ {"lock"} <=> p \in lock
    BY DEF Inv, LockOK
  <2>3. QED
    BY <2>1, <2>2, Types DEF CallType
<1>5. QED
  BY <1>1, <1>2, <1>3, <1>4 DEF TypeOK, Inv, RegistryOK

LEMMA InvTracks == ASSUME Inv PROVE EmbeddedIsTracked
<1> SUFFICES ASSUME NEW f \in Paths, decoy[f].token # 0, decoy[f].token \notin glued
             PROVE  \E r \in Readable("decoy") :
                        r.token = decoy[f].token /\ r.key = f /\ r.base = decoy[f].base
  BY DEF EmbeddedIsTracked
<1>1. PICK i \in 1 .. Len(registry) :
          /\ registry[i].kind = "decoy" /\ registry[i].token = decoy[f].token
          /\ registry[i].key = f /\ registry[i].base = decoy[f].base
  BY DEF Inv, DecoysOK, Tracked
<1>2. registry[i] \in Readable("decoy")
  BY <1>1 DEF Readable
<1>3. QED
  BY <1>1, <1>2

LEMMA InvKnows == ASSUME Inv PROVE HandedOutIsKnown
<1> SUFFICES ASSUME NEW h \in handed
             PROVE  /\ h.alias \in glued \/ \A base \in Bases : IsKnown(base, h.alias)
                    /\ \/ Locate(h.domain, h.alias).raises
                       \/ Locate(h.domain, h.alias).places = {h.place}
  BY DEF HandedOutIsKnown
<1>1. Placed(h.alias, h.place, h.domain)
  BY DEF Inv, HandedOK
<1>2. ASSUME h.alias \notin glued, NEW base
      PROVE  IsKnown(base, h.alias)
  <2>1. PICK i \in 1 .. Len(registry) : registry[i].kind = "place" /\ registry[i].token = h.alias
    BY <1>1, <1>2 DEF Placed
  <2>2. registry[i] \in Table
    BY <2>1 DEF Table, Readable
  <2>3. QED
    BY <2>1, <2>2 DEF IsKnown
<1>3. ASSUME ~Corrupt
      PROVE  Locate(h.domain, h.alias).places = {h.place}
  <2>1. PICK i \in 1 .. Len(registry) :
            /\ registry[i].kind = "place" /\ registry[i].token = h.alias
            /\ registry[i].key = h.place /\ registry[i].domain = h.domain
    BY <1>1, <1>3, SoundTable DEF Inv
  <2>2. registry[i] \in Table
    BY <2>1 DEF Table, Readable
  <2>3. ASSUME NEW r \in Table, r.token = h.alias
        PROVE  r.key = h.place
    <3>1. PICK j \in 1 .. Len(registry) : r = registry[j] /\ registry[j].kind = "place"
      BY DEF Table, Readable
    <3>2. i = j
      BY <2>1, <2>3, <3>1 DEF Inv, TokensOnce
    <3>3. QED
      BY <2>1, <3>1, <3>2
  <2>4. QED
    BY <1>3, <2>1, <2>2, <2>3 DEF Locate
<1>4. Corrupt => Locate(h.domain, h.alias).raises
  BY DEF Locate
<1>5. QED
  BY <1>2, <1>3, <1>4

LEMMA InvStops == ASSUME Inv PROVE StopsOnlyForATear
  BY DEF Inv, RegistryOK, Corrupt, Stained, StopsOnlyForATear

\* The registry's invariant: a decoy has a second URL under one base URL only
\* if the watch that drew it had not loaded the first one's line
\* (seeder.seed), and a place has one address, of no more than the free tier
\* covers (issue_place_email), although watches append without the lock and
\* any append may be cut short.
THEOREM RegistryInvariant == Spec => []RegistryInv
<1>1. Inv => RegistryInv
  BY InvTypes DEF RegistryInv, Inv, HandedOK
<1>2. QED
  BY <1>1, InvAlways, PTL

\* What a touched decoy or a received mail is traced by: the URL in a decoy
\* and every address handed out have their line in the registry file unless an
\* append onto an unfinished line glued it; a leak of an address is attributed
\* to its place and no other, or locate stops with an error, which it does
\* only after an append was cut short (place_email._records).
THEOREM TokensAreAttributed == Spec => []TokensAttribute
<1>1. Inv => TokensAttribute
  BY InvTracks, InvKnows, InvStops DEF TokensAttribute
<1>2. QED
  BY <1>1, InvAlways, PTL
=============================================================================
