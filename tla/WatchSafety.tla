----------------------------- MODULE WatchSafety -----------------------------
(***************************************************************************)
(* Proofs of the watcher's safety properties, for every value of its       *)
(* constants: any number of assets and decoys, any host.  Three arguments  *)
(* are made over one invariant of the descriptors, the queues and the      *)
(* thread: a decoy that is not watched is pending, lost in a known way, or *)
(* its loss is still in a queue (`Covered'); what a decoy was notified of, *)
(* with what waits to be, is no more than what was done to it (`Earned');  *)
(* and a request in flight fits what was announced of it (`Honest').       *)
(***************************************************************************)
EXTENDS Watch, FiniteSetTheorems, SequenceTheorems, WellFoundedInduction, TLAPS

-----------------------------------------------------------------------------
(* The invariant, in parts.                                                *)

Steps == {"off", "seeded", "opened", "wait", "retry", "attach", "batch", "ended"}
Starts == {"off", "seeded", "opened"}
Runs == {"wait", "retry", "attach", "batch"}
Responses == {"notify", "cut", "await"}
Classes == {"read", "change"}
Claims == {"nothing", "applied", "failed", "unsent", "refused", "unknown"}
Flights == {"none", "sent", "cut", "refused"}
Masks == SUBSET (Kinds \cup {"ignored"})
Event == [key : Nat, mask : Masks]
Descriptor == [path : Paths, file : 1..MaxNodes, live : BOOLEAN]
Handler ==
    [step : Responses \cup {"none"}, path : Paths \cup {None}, class : Classes \cup {"-"},
     key : Nat, mask : Masks]

FilesOK ==
    /\ env \in Environments
    /\ made \in 0..MaxNodes
    /\ at \in [Paths -> 0..made]
    /\ away \subseteq 1..made
    /\ DOMAIN owner = 1..MaxNodes /\ owner = [n \in 1..MaxNodes |-> owner[n]]
    /\ \A n \in 1..made : owner[n] \in Paths
    /\ \A p \in Paths : at[p] # None => owner[at[p]] = p /\ at[p] \notin away

HistoryOK ==
    /\ done \in [Paths -> [Kinds -> Nat]]
    /\ notices \in [Paths -> [Classes -> Nat]]
    /\ unseen \subseteq Paths /\ gap \subseteq Paths
    /\ cut \in [Assets -> BOOLEAN] /\ claim \in [Assets -> Claims] /\ flight \in [Assets -> Flights]

Shapes ==
    /\ reg = [a \in Assets |-> reg[a]]
    /\ kernel \in [Assets -> Seq(Event)] /\ batch \in [Assets -> Seq(Event)]
    /\ pending \in [Assets -> SUBSET Paths] /\ todo \in [Assets -> SUBSET Paths]
    /\ pc \in [Assets -> Steps] /\ handler \in [Assets -> Handler]
    /\ stop \in [Assets -> {"no", "asked", "done"}]
    /\ phase \in {"down", "on", "stopping"}

\* A descriptor's entry names the decoy its file was created as.
EntryOK(a, k) ==
    /\ k > 0 /\ (Linux => reg[a][k].file = k)
    /\ reg[a][k] \in Descriptor
    /\ reg[a][k].path \in Decoys(a)
    /\ reg[a][k].file <= made /\ owner[reg[a][k].file] = reg[a][k].path

\* No decoy has two descriptors that hear of it.
Single(a) ==
    \A k, l \in DOMAIN reg[a] :
        /\ reg[a][k].path = reg[a][l].path
        /\ pc[a] = "opened" \/ (reg[a][k].live /\ reg[a][l].live)
        => k = l

RegOK(a) ==
    /\ IsFiniteSet(DOMAIN reg[a]) /\ DOMAIN reg[a] \subseteq Nat
    /\ reg[a] = [k \in DOMAIN reg[a] |-> reg[a][k]]
    /\ \A k \in DOMAIN reg[a] : EntryOK(a, k)
    /\ Linux \/ Single(a)
    /\ Windows => \A k \in DOMAIN reg[a] : reg[a][k].live
    /\ MacOS => \A k \in DOMAIN reg[a] : reg[a][k].path \in pending[a] => ~reg[a][k].live

\* An event names a file (inotify); only inotify says that it ignores a file.
EventOK(e) == IF Linux THEN e.key <= made ELSE "ignored" \notin e.mask

\* kqueue has one event of a descriptor.
Once(q) == MacOS => \A i, j \in 1..Len(q) : q[i].key = q[j].key => i = j

\* inotify's queue and the buffer of a directory are bounded.
QueueOK(q) ==
    /\ \A i \in 1..Len(q) : EventOK(q[i])
    /\ Once(q)
    /\ \/ MacOS
       \/ Len(q) <= QueueMax
       \/ Linux /\ Len(q) = QueueMax + 1 /\ q[QueueMax + 1] = Overflow

KernelOK(a) ==
    /\ QueueOK(kernel[a])
    /\ MacOS => \A i \in 1..Len(kernel[a]) :
                    kernel[a][i].key \in DOMAIN reg[a] /\ reg[a][kernel[a][i].key].live

BatchOK(a) ==
    /\ batch[a] = <<>> <=> pc[a] # "batch"
    /\ \A i \in 1..Len(batch[a]) : EventOK(batch[a][i])
    /\ Once(batch[a])
    /\ MacOS => \A i \in 1..Len(batch[a]) :
                    batch[a][i].key \in DOMAIN reg[a] => reg[a][batch[a][i].key].live

ThreadOK(a) ==
    /\ pending[a] \subseteq Decoys(a) /\ todo[a] \subseteq pending[a]
    /\ todo[a] = {} <=> pc[a] \notin {"retry", "attach"}
    /\ pc[a] \in {"off", "seeded"} => DOMAIN reg[a] = {}
    /\ pc[a] \in Starts => pending[a] = {} /\ kernel[a] = <<>>
    /\ pc[a] = "opened" => MacOS /\ \A k \in DOMAIN reg[a] : ~reg[a][k].live
    /\ Windows => pending[a] = {}
    /\ phase # "stopping" => stop[a] = "no"
    /\ phase = "stopping" => pc[a] \notin Starts
    /\ stop[a] = "done" => pc[a] \in {"batch", "ended"} /\ (Windows \/ DOMAIN reg[a] = {})

\* The response is to the first event of the batch.
RespondingOK(a) ==
    LET h == handler[a]
    IN  /\ pc[a] = "batch" /\ h.step \in Responses
        /\ h.path \in Decoys(a) /\ h.class = Classify(h.mask)
        /\ h.key = batch[a][1].key /\ h.mask = batch[a][1].mask /\ "ignored" \notin h.mask
        /\ IF Linux THEN h.key \in 1..made /\ owner[h.key] = h.path
           ELSE IF h.key \in DOMAIN reg[a] THEN reg[a][h.key].path = h.path ELSE DOMAIN reg[a] = {}

\* A descriptor is open and not yet attached.
AttachingOK(a) ==
    LET h == handler[a]
    IN  /\ pc[a] = "attach" /\ MacOS /\ h.step = "none"
        /\ h.path \in todo[a] /\ h.key \in DOMAIN reg[a]
        /\ reg[a][h.key].path = h.path /\ ~reg[a][h.key].live

HandlerOK(a) ==
    \/ pc[a] # "attach" /\ handler[a] = NoHandler
    \/ RespondingOK(a)
    \/ AttachingOK(a)

AssetOK(a) == RegOK(a) /\ KernelOK(a) /\ BatchOK(a) /\ ThreadOK(a) /\ HandlerOK(a)

Watchers == Shapes /\ \A a \in Assets : AssetOK(a)

WatcherOK == FilesOK /\ HistoryOK /\ Watchers

\* The events that make the thread register a decoy again.
Telling(mask) == IF Linux THEN "ignored" \in mask ELSE mask \cap {"delete", "move"} # {}

Told(q, a, p) ==
    ~Windows /\ \E i \in 1..Len(q) : /\ q[i].key \in DOMAIN reg[a] /\ reg[a][q[i].key].path = p
                                     /\ Telling(q[i].mask)

\* ReadDirectoryChangesW hears of a decoy whether it exists or not.
Heeded(p) == (Windows \/ at[p] # None) /\ Watching(p)

\* No running thread is blind to a decoy without a cause.
Covered(p) ==
    LET a == env.assetOf[p]
    IN  pc[a] \in Runs /\ stop[a] # "done" =>
            \/ p \in pending[a] \/ p \in gap \/ Heeded(p)
            \/ Told(kernel[a], a, p) \/ Told(batch[a], a, p)

\* The keys of a decoy's events, and how many events of a class a queue has.
KeysOf(p) ==
    LET a == env.assetOf[p]
    IN  IF Linux THEN {n \in 1..made : owner[n] = p}
        ELSE {k \in DOMAIN reg[a] : reg[a][k].path = p}

MasksOf(class) == {mask \in SUBSET Kinds : Classify(mask) = class}

Tally(q, keys, masks) == Cardinality({i \in 1..Len(q) : q[i].key \in keys /\ q[i].mask \in masks})

\* What is left to notify of: waiting, read, and in hand.
Left(a) == IF handler[a].step = "none" THEN batch[a] ELSE Tail(batch[a])

InHand(p, class) ==
    LET h == handler[env.assetOf[p]]
    IN  IF h.step = "notify" /\ h.path = p /\ h.class = class THEN 1 ELSE 0

Owed(p, class) ==
    LET a == env.assetOf[p]
    IN  Tally(kernel[a], KeysOf(p), MasksOf(class)) + Tally(Left(a), KeysOf(p), MasksOf(class))
            + InHand(p, class)

Reads(p) == done[p]["read"] + done[p]["attrib"]
Changes(p) == done[p]["write"] + done[p]["delete"] + done[p]["move"] + done[p]["create"]
Due(p, class) == IF class = "read" THEN Reads(p) ELSE Changes(p) + (IF Windows THEN Reads(p) ELSE 0)

Earned(p) == \A class \in Classes : notices[p][class] + Owed(p, class) <= Due(p, class)

\* A request in flight fits what was announced.
Honest(a) ==
    /\ claim[a] = "applied" => cut[a]
    /\ claim[a] \in {"unsent", "refused", "failed"} => ~cut[a]
    /\ flight[a] # "none" => claim[a] \in {"nothing", "unknown"}
    /\ flight[a] = "cut" => cut[a]
    /\ flight[a] = "refused" => ~cut[a]
    /\ handler[a].step = "cut" => claim[a] = "nothing" /\ flight[a] = "none" /\ ~cut[a]
    /\ handler[a].step = "await" => claim[a] = "nothing"

Inv ==
    /\ WatcherOK
    /\ \A p \in Paths : Covered(p) /\ Earned(p)
    /\ \A a \in Assets : Honest(a)

-----------------------------------------------------------------------------
(* The host, sets of positions, and what waits in a queue.                 *)

LEMMA HostIs ==
    ASSUME env \in Environments
    PROVE  /\ env.backend \in Backends
           /\ env.assetOf \in [Paths -> Assets]
           /\ \A p \in Paths : env.assetOf[p] \in Assets /\ p \in Decoys(env.assetOf[p])
           /\ Linux \/ MacOS \/ Windows
           /\ ~(Linux /\ MacOS) /\ ~(Linux /\ Windows) /\ ~(MacOS /\ Windows)
BY WatchAssumption DEF Backends, Linux, MacOS, Windows, Decoys

LEMMA BoundsAre == QueueMax \in Nat /\ QueueMax > 0 /\ MaxNodes \in Nat /\ IsFiniteSet(Paths)
BY WatchAssumption

\* Taking one element out of a sequence.
LEMMA Removed ==
    ASSUME NEW V, NEW s \in Seq(V), NEW i \in 1 .. Len(s)
    PROVE  /\ RemoveAt(s, i) \in Seq(V) /\ Len(RemoveAt(s, i)) = Len(s) - 1
           /\ \A j \in 1 .. Len(s) - 1 : RemoveAt(s, i)[j] = IF j < i THEN s[j] ELSE s[j + 1]
<1> DEFINE u == SubSeq(s, 1, i - 1)
           v == SubSeq(s, i + 1, Len(s))
<1>1. u \in Seq(V) /\ Len(u) = i - 1 /\ \A j \in 1 .. i - 1 : u[j] = s[j]
  OBVIOUS
<1>2. v \in Seq(V) /\ Len(v) = Len(s) - i /\ \A j \in 1 .. Len(s) - i : v[j] = s[i + j]
  OBVIOUS
<1> HIDE DEF u, v
<1>3. u \o v \in Seq(V) /\ Len(u \o v) = Len(s) - 1
  BY <1>1, <1>2
<1>4. ASSUME NEW j \in 1 .. Len(s) - 1
      PROVE  (u \o v)[j] = IF j < i THEN s[j] ELSE s[j + 1]
  <2>1. (u \o v)[j] = IF j <= Len(u) THEN u[j] ELSE v[j - Len(u)]
    BY <1>1, <1>2
  <2>2. QED
    BY <1>1, <1>2, <2>1
<1>5. QED
  BY <1>3, <1>4 DEF RemoveAt, u, v

\* No more positions than there are to be sent to.
LEMMA NoMore ==
    ASSUME NEW m \in Nat, NEW n \in Nat, NEW S \in SUBSET (1 .. m), NEW T \in SUBSET (1 .. n),
           NEW f \in [S -> T], \A i, j \in S : f[i] = f[j] => i = j
    PROVE  /\ Cardinality(S) \in Nat /\ Cardinality(T) \in Nat
           /\ Cardinality(S) <= Cardinality(T)
<1>1. IsFiniteSet(S) /\ IsFiniteSet(T)
  <2>1. IsFiniteSet(1 .. m) /\ IsFiniteSet(1 .. n)
    BY FS_Interval
  <2>2. QED
    BY <2>1, FS_Subset
<1>2. f \in Injection(S, T)
  BY DEF Injection, IsInjective
<1>3. QED
  BY <1>1, <1>2, FS_Injection, FS_CardinalityType

\* A set of numbers has a least one.
LEMMA LeastOf ==
    ASSUME NEW S \in SUBSET Nat, S # {}
    PROVE  \E m \in S : \A i \in S : m <= i
<1>1. IsWellFoundedOn(OpToRel(<, Nat), Nat)
  BY NatLessThanWellFounded
<1>2. PICK m \in S : \A i \in S : ~ (<<i, m>> \in OpToRel(<, Nat))
  BY <1>1, WFMin
<1>3. ASSUME NEW i \in S PROVE m <= i
  <2>1. ~(i < m)
    BY <1>2 DEF OpToRel
  <2>2. QED
    BY <2>1
<1>4. QED
  BY <1>3


Counted(e, keys, masks) == e.key \in keys /\ e.mask \in masks
Places(q, keys, masks) == {i \in 1 .. Len(q) : Counted(q[i], keys, masks)}

LEMMA PlacesAre ==
    ASSUME NEW q \in Seq(Event), NEW keys, NEW masks
    PROVE  /\ Tally(q, keys, masks) = Cardinality(Places(q, keys, masks))
           /\ Tally(q, keys, masks) \in Nat /\ Len(q) \in Nat
           /\ IsFiniteSet(Places(q, keys, masks))
<1>1. IsFiniteSet(1 .. Len(q))
  BY FS_Interval
<1>2. IsFiniteSet(Places(q, keys, masks))
  BY <1>1, FS_Subset DEF Places
<1>3. Tally(q, keys, masks) = Cardinality(Places(q, keys, masks))
  BY DEF Tally, Places, Counted
<1>4. QED
  BY <1>2, <1>3, FS_CardinalityType

\* An empty queue has nothing.
LEMMA TallyEmpty ==
    ASSUME NEW keys, NEW masks
    PROVE  Tally(<<>>, keys, masks) = 0
<1>1. {i \in 1 .. Len(<<>>) : <<>>[i].key \in keys /\ <<>>[i].mask \in masks} = {}
  OBVIOUS
<1>2. QED
  BY <1>1, FS_EmptySet DEF Tally

\* Where every place that counts in r is sent to one that counts in q.
LEMMA TallySent ==
    ASSUME NEW q \in Seq(Event), NEW r \in Seq(Event), NEW keys, NEW masks, NEW fewer,
           NEW f, f \in [Places(r, fewer, masks) -> Places(q, keys, masks)],
           \A i, j \in Places(r, fewer, masks) : f[i] = f[j] => i = j
    PROVE  Tally(r, fewer, masks) <= Tally(q, keys, masks)
<1>1. Places(r, fewer, masks) \in SUBSET (1 .. Len(r)) /\ Places(q, keys, masks) \in SUBSET (1 .. Len(q))
  BY DEF Places
<1>2. Cardinality(Places(r, fewer, masks)) <= Cardinality(Places(q, keys, masks))
  <2>1. Len(r) \in Nat /\ Len(q) \in Nat
    OBVIOUS
  <2>2. QED
    BY <1>1, <2>1, NoMore
<1>3. QED
  BY <1>2, PlacesAre

\* Place by place, r counts nothing that q does not.
LEMMA TallyFewer ==
    ASSUME NEW q \in Seq(Event), NEW r \in Seq(Event), NEW keys, NEW masks, NEW fewer,
           Len(r) <= Len(q),
           \A i \in 1 .. Len(r) : Counted(r[i], fewer, masks) => Counted(q[i], keys, masks)
    PROVE  Tally(r, fewer, masks) <= Tally(q, keys, masks)
<1> DEFINE f == [i \in Places(r, fewer, masks) |-> i]
<1>1. f \in [Places(r, fewer, masks) -> Places(q, keys, masks)]
  BY DEF Places
<1>2. \A i, j \in Places(r, fewer, masks) : f[i] = f[j] => i = j
  OBVIOUS
<1> HIDE DEF f
<1>3. QED
  BY <1>1, <1>2, TallySent

\* The same but for one place.
LEMMA TallyOneMore ==
    ASSUME NEW q \in Seq(Event), NEW r \in Seq(Event), NEW keys, NEW masks, NEW n \in Nat,
           Len(r) = Len(q) \/ (Len(r) = Len(q) + 1 /\ n = Len(r)),
           \A i \in 1 .. Len(r) : i # n /\ Counted(r[i], keys, masks) => Counted(q[i], keys, masks)
    PROVE  Tally(r, keys, masks) <= Tally(q, keys, masks) + 1
<1> DEFINE Q == Places(q, keys, masks)
           R == Places(r, keys, masks)
<1>1. R \ {n} \subseteq Q
  BY DEF Places
<1>2. IsFiniteSet(Q) /\ IsFiniteSet(R)
  BY PlacesAre
<1> HIDE DEF Q, R
<1>3. IsFiniteSet(Q \cup {n}) /\ Cardinality(Q \cup {n}) <= Cardinality(Q) + 1
  <2>1. Cardinality(Q) \in Nat
    BY <1>2, FS_CardinalityType
  <2>2. /\ IsFiniteSet(Q \cup {n})
        /\ Cardinality(Q \cup {n}) = IF n \in Q THEN Cardinality(Q) ELSE Cardinality(Q) + 1
    BY <1>2, FS_AddElement
  <2>3. QED
    BY <2>1, <2>2
<1>4. R \subseteq Q \cup {n}
  BY <1>1
<1>5. Cardinality(R) <= Cardinality(Q \cup {n})
  BY <1>3, <1>4, FS_Subset
<1>6. Cardinality(R) \in Nat /\ Cardinality(Q) \in Nat /\ Cardinality(Q \cup {n}) \in Nat
  BY <1>2, <1>3, FS_CardinalityType
<1>7. Cardinality(R) <= Cardinality(Q) + 1
  BY <1>3, <1>5, <1>6
<1>8. QED
  BY <1>7, PlacesAre DEF Q, R

\* What is behind the first event, and the first.
LEMMA TallyTail ==
    ASSUME NEW q \in Seq(Event), q # <<>>, NEW keys, NEW masks
    PROVE  /\ Tally(Tail(q), keys, masks) <= Tally(q, keys, masks)
           /\ Counted(q[1], keys, masks) => Tally(Tail(q), keys, masks) + 1 <= Tally(q, keys, masks)
<1> DEFINE r == Tail(q)
           Q == Places(q, keys, masks)
           R == Places(r, keys, masks)
           f == [i \in R |-> i + 1]
<1>1. r \in Seq(Event) /\ Len(r) = Len(q) - 1 /\ Len(q) \in Nat /\ Len(q) > 0
  OBVIOUS
<1>2. \A i \in 1 .. Len(q) - 1 : r[i] = q[i + 1]
  OBVIOUS
<1> HIDE DEF r
<1>3. f \in [R -> Q \ {1}]
  BY <1>1, <1>2 DEF Places
<1>4. \A i, j \in R : f[i] = f[j] => i = j
  BY <1>1 DEF Places
<1>5. R \in SUBSET (1 .. Len(r)) /\ Q \ {1} \in SUBSET (1 .. Len(q)) /\ Len(r) \in Nat
  BY <1>1 DEF Places
<1> HIDE DEF f
<1>6. /\ Cardinality(R) \in Nat /\ Cardinality(Q \ {1}) \in Nat
      /\ Cardinality(R) <= Cardinality(Q \ {1})
  BY <1>1, <1>3, <1>4, <1>5, NoMore, ZenonT(40)
<1>7. IsFiniteSet(Q) /\ Cardinality(Q) \in Nat
  BY PlacesAre, FS_CardinalityType
<1>8. Cardinality(Q \ {1}) = IF 1 \in Q THEN Cardinality(Q) - 1 ELSE Cardinality(Q)
  BY <1>7, FS_RemoveElement
<1>9. Counted(q[1], keys, masks) => 1 \in Q
  BY <1>1 DEF Places
<1>10. Tally(r, keys, masks) = Cardinality(R) /\ Tally(q, keys, masks) = Cardinality(Q)
  BY <1>1, PlacesAre
<1>11. QED
  BY <1>6, <1>7, <1>8, <1>9, <1>10 DEF r

LEMMA TallyRemoved ==
    ASSUME NEW q \in Seq(Event), NEW k \in 1 .. Len(q), NEW keys, NEW masks, NEW fewer,
           fewer \subseteq keys
    PROVE  Tally(RemoveAt(q, k), fewer, masks) <= Tally(q, keys, masks)
<1>1. PICK r : r = RemoveAt(q, k)
  OBVIOUS
<1>2. /\ r \in Seq(Event) /\ Len(r) = Len(q) - 1
      /\ \A j \in 1 .. Len(q) - 1 : r[j] = IF j < k THEN q[j] ELSE q[j + 1]
  BY <1>1, Removed
<1>3. Len(q) \in Nat /\ Len(q) > 0
  OBVIOUS
<1> DEFINE f == [i \in Places(r, fewer, masks) |-> IF i < k THEN i ELSE i + 1]
<1>4. f \in [Places(r, fewer, masks) -> Places(q, keys, masks)]
  BY <1>2, <1>3, SMTT(40) DEF Places, Counted
<1>5. \A i, j \in Places(r, fewer, masks) : f[i] = f[j] => i = j
  BY <1>2, <1>3 DEF Places
<1> HIDE DEF f
<1>6. QED
  BY <1>1, <1>2, <1>4, <1>5, TallySent

-----------------------------------------------------------------------------
(* What putting an event does to a queue.                                  *)

\* kqueue merges an event into the one that waits.
Merged(q, e, r) ==
    /\ Len(r) = Len(q)
    /\ \E j \in 1 .. Len(q) : q[j].key = e.key
    /\ \A i \in 1 .. Len(q) :
           /\ r[i].key = q[i].key
           /\ r[i].mask = IF q[i].key = e.key THEN e.mask \cup q[i].mask ELSE q[i].mask

\* inotify's queue takes one event more than it holds: that it overflowed.
Appended(q, e, r) ==
    \/ r = q /\ q # <<>> /\ q[Len(q)] \in {e, Overflow}
    \/ r = Append(q, e) /\ Len(q) < QueueMax
    \/ r = Append(q, Overflow) /\ Len(q) >= QueueMax /\ q[Len(q)] # Overflow

Buffered(q, e, r) ==
    \/ r = q
    \/ r = Append(q, e) /\ Len(q) < QueueMax
    \/ r = <<Overflow>>

LEMMA OverflowIs == Overflow \in Event /\ Overflow.key = 0 /\ Overflow.mask = {}
BY DEF Overflow, Event, Masks

LEMMA PutMac ==
    ASSUME MacOS, NEW q \in Seq(Event), NEW e \in Event
    PROVE  /\ Put(q, e) \in Seq(Event)
           /\ \/ Put(q, e) = Append(q, e) /\ \A i \in 1 .. Len(q) : q[i].key # e.key
              \/ Merged(q, e, Put(q, e))
<1> DEFINE same == {i \in 1 .. Len(q) : q[i].key = e.key}
           both == [i \in 1 .. Len(q) |-> IF i \in same THEN [e EXCEPT !.mask = @ \cup q[i].mask] ELSE q[i]]
<1>1. Put(q, e) = IF same = {} THEN Append(q, e) ELSE both
  BY DEF Put
<1>2. CASE same = {}
  BY <1>1, <1>2
<1>3. CASE same # {}
  <2>1. ASSUME NEW i \in 1 .. Len(q)
        PROVE  /\ both[i] \in Event /\ both[i].key = q[i].key
               /\ both[i].mask = IF q[i].key = e.key THEN e.mask \cup q[i].mask ELSE q[i].mask
    <3>1. q[i] \in Event
      OBVIOUS
    <3>2. PICK m : m = e.mask \cup q[i].mask
      OBVIOUS
    <3>3. m \in Masks
      BY <3>1, <3>2 DEF Event, Masks
    <3>4. [e EXCEPT !.mask = m] \in Event /\ [e EXCEPT !.mask = m].key = e.key /\ [e EXCEPT !.mask = m].mask = m
      BY <3>3 DEF Event
    <3>5. [e EXCEPT !.mask = @ \cup q[i].mask] = [e EXCEPT !.mask = m]
      BY <3>2
    <3>6. both[i] = IF q[i].key = e.key THEN [e EXCEPT !.mask = m] ELSE q[i]
      BY <3>5
    <3>7. QED
      BY <3>1, <3>2, <3>4, <3>6
  <2>2. PICK n \in Nat : n = Len(q)
    OBVIOUS
  <2>3. both \in [1 .. n -> Event]
    BY <2>1, <2>2
  <2>4. both \in Seq(Event) /\ Len(both) = n
    BY <2>2, <2>3, SeqDef
  <2>5. \E j \in 1 .. Len(q) : q[j].key = e.key
    BY <1>3
  <2>6. Merged(q, e, both)
    BY <2>1, <2>2, <2>4, <2>5 DEF Merged
  <2>7. QED
    BY <1>1, <1>3, <2>4, <2>6
<1>4. QED
  BY <1>2, <1>3

LEMMA PutLinux ==
    ASSUME Linux, ~MacOS, ~Windows, NEW q \in Seq(Event), NEW e \in Event
    PROVE  Put(q, e) \in Seq(Event) /\ Appended(q, e, Put(q, e))
<1>1. Put(q, e) = IF q # <<>> /\ (Last(q) = Overflow \/ Last(q) = e) THEN q
                  ELSE IF Len(q) < QueueMax THEN Append(q, e) ELSE Append(q, Overflow)
  BY DEF Put
<1>2. Len(q) \in Nat /\ (q = <<>> <=> Len(q) = 0) /\ Last(q) = q[Len(q)]
  BY DEF Last
<1>4. QED
  BY <1>1, <1>2, OverflowIs, BoundsAre DEF Appended

LEMMA PutWindows ==
    ASSUME Windows, ~MacOS, ~Linux, NEW q \in Seq(Event), NEW e \in Event
    PROVE  Put(q, e) \in Seq(Event) /\ Buffered(q, e, Put(q, e))
<1>1. Put(q, e) = IF q # <<>> /\ Last(q) = Overflow THEN q
                  ELSE IF Len(q) < QueueMax THEN Append(q, e) ELSE <<Overflow>>
  BY DEF Put
<1>2. <<Overflow>> \in Seq(Event)
  BY OverflowIs
<1>3. QED
  BY <1>1, <1>2, BoundsAre DEF Buffered

\* A queue stays well formed.
LEMMA PutKeeps ==
    ASSUME env \in Environments, made \in Nat, NEW q \in Seq(Event), QueueOK(q), NEW e \in Event, EventOK(e)
    PROVE  Put(q, e) \in Seq(Event) /\ QueueOK(Put(q, e))
<1>1. PICK r : r = Put(q, e)
  OBVIOUS
<1>2. Len(q) \in Nat /\ QueueMax \in Nat /\ QueueMax > 0
  BY BoundsAre
<1>3. EventOK(Overflow)
  BY OverflowIs DEF EventOK
<1>4. CASE MacOS
  <2>1. r \in Seq(Event) /\ ((r = Append(q, e) /\ \A i \in 1 .. Len(q) : q[i].key # e.key) \/ Merged(q, e, r))
    BY <1>1, <1>4, PutMac
  <2>2. ~Linux /\ ~Windows
    BY <1>4, HostIs
  <2>3. CASE r = Append(q, e) /\ \A i \in 1 .. Len(q) : q[i].key # e.key
    <3>1. Len(r) = Len(q) + 1 /\ r[Len(q) + 1] = e /\ \A i \in 1 .. Len(q) : r[i] = q[i]
      BY <2>3
    <3>2. QED
      BY <1>1, <1>2, <1>4, <2>1, <2>3, <3>1, SMTT(40) DEF QueueOK, Once
  <2>4. CASE Merged(q, e, r)
    <3>1. \A i \in 1 .. Len(r) : EventOK(r[i])
      BY <2>2, <2>4 DEF QueueOK, EventOK, Merged
    <3>2. Once(r)
      BY <1>4, <2>4 DEF QueueOK, Once, Merged
    <3>3. QED
      BY <1>1, <1>4, <2>1, <3>1, <3>2 DEF QueueOK
  <2>5. QED
    BY <2>1, <2>3, <2>4
<1>5. CASE Linux
  <2>1. ~MacOS /\ ~Windows
    BY <1>5, HostIs
  <2>2. r \in Seq(Event) /\ Appended(q, e, r)
    BY <1>1, <1>5, <2>1, PutLinux
  <2>3. Once(r)
    BY <2>1 DEF Once
  <2>4. CASE r = q
    BY <1>1, <2>4
  <2>5. CASE r = Append(q, e) /\ Len(q) < QueueMax
    <3>1. Len(r) = Len(q) + 1 /\ r[Len(q) + 1] = e /\ \A i \in 1 .. Len(q) : r[i] = q[i]
      BY <2>5
    <3>2. QED
      BY <1>1, <1>2, <2>2, <2>3, <2>5, <3>1 DEF QueueOK
  <2>6. CASE r = Append(q, Overflow) /\ Len(q) >= QueueMax /\ q[Len(q)] # Overflow
    <3>1. Len(r) = Len(q) + 1 /\ r[Len(q) + 1] = Overflow /\ \A i \in 1 .. Len(q) : r[i] = q[i]
      BY <2>6, OverflowIs
    <3>2. Len(q) = QueueMax
      BY <1>2, <2>1, <2>6 DEF QueueOK
    <3>3. QED
      BY <1>1, <1>2, <1>3, <1>5, <2>2, <2>3, <3>1, <3>2 DEF QueueOK
  <2>7. QED
    BY <2>2, <2>4, <2>5, <2>6 DEF Appended
<1>6. CASE Windows
  <2>1. ~MacOS /\ ~Linux
    BY <1>6, HostIs
  <2>2. r \in Seq(Event) /\ Buffered(q, e, r)
    BY <1>1, <1>6, <2>1, PutWindows
  <2>3. Once(r)
    BY <2>1 DEF Once
  <2>4. CASE r = q
    BY <1>1, <2>4
  <2>5. CASE r = Append(q, e) /\ Len(q) < QueueMax
    <3>1. Len(r) = Len(q) + 1 /\ r[Len(q) + 1] = e /\ \A i \in 1 .. Len(q) : r[i] = q[i]
      BY <2>5
    <3>2. QED
      BY <1>1, <1>2, <2>2, <2>3, <2>5, <3>1 DEF QueueOK
  <2>6. CASE r = <<Overflow>>
    <3>1. Len(r) = 1 /\ r[1] = Overflow
      BY <2>6
    <3>2. QED
      BY <1>1, <1>2, <1>3, <2>2, <2>3, <3>1 DEF QueueOK
  <2>7. QED
    BY <2>2, <2>4, <2>5, <2>6 DEF Buffered
<1>7. QED
  BY <1>4, <1>5, <1>6, HostIs

\* What waits goes on waiting, and the event is there or was lost in an overflow.
Kept(q, r) ==
    \A i \in 1 .. Len(q) : i \in 1 .. Len(r) /\ r[i].key = q[i].key /\ q[i].mask \subseteq r[i].mask

Arrived(e, r) ==
    IF MacOS THEN \E i \in 1 .. Len(r) : r[i].key = e.key /\ e.mask \subseteq r[i].mask
    ELSE r # <<>> /\ r[Len(r)] \in {e, Overflow}

LEMMA PutKept ==
    ASSUME env \in Environments, NEW q \in Seq(Event), NEW e \in Event, ~Windows
    PROVE  Kept(q, Put(q, e)) /\ Arrived(e, Put(q, e))
<1>1. PICK r : r = Put(q, e)
  OBVIOUS
<1>2. Len(q) \in Nat
  OBVIOUS
<1>3. CASE MacOS
  <2>1. r \in Seq(Event) /\ ((r = Append(q, e) /\ \A i \in 1 .. Len(q) : q[i].key # e.key) \/ Merged(q, e, r))
    BY <1>1, <1>3, PutMac
  <2>2. CASE r = Append(q, e)
    <3>1. Len(r) = Len(q) + 1 /\ r[Len(q) + 1] = e /\ \A i \in 1 .. Len(q) : r[i] = q[i]
      BY <2>2
    <3>2. Kept(q, r)
      BY <1>2, <3>1 DEF Kept
    <3>3. Len(q) + 1 \in 1 .. Len(r)
      BY <1>2, <3>1
    <3>4. Arrived(e, r)
      BY <1>3, <3>1, <3>3 DEF Arrived
    <3>5. QED
      BY <1>1, <3>2, <3>4
  <2>3. CASE Merged(q, e, r)
    BY <1>1, <1>3, <2>3 DEF Kept, Arrived, Merged
  <2>4. QED
    BY <2>1, <2>2, <2>3
<1>4. CASE Linux
  <2>1. ~MacOS
    BY <1>4, HostIs
  <2>2. r \in Seq(Event) /\ Appended(q, e, r)
    BY <1>1, <1>4, <2>1, PutLinux
  <2>3. CASE r = q /\ q # <<>> /\ q[Len(q)] \in {e, Overflow}
    BY <1>1, <2>1, <2>3 DEF Kept, Arrived
  <2>4. ASSUME NEW x, x \in {e, Overflow}, r = Append(q, x)
        PROVE  Kept(q, r) /\ Arrived(e, r)
    <3>1. x \in Event
      BY <2>4, OverflowIs
    <3>2. Len(r) = Len(q) + 1 /\ r[Len(q) + 1] = x /\ (\A i \in 1 .. Len(q) : r[i] = q[i]) /\ r # <<>>
      BY <2>4, <3>1
    <3>3. QED
      BY <1>2, <2>1, <2>4, <3>2 DEF Kept, Arrived
  <2>5. QED
    BY <1>1, <2>2, <2>3, <2>4 DEF Appended
<1>5. QED
  BY <1>3, <1>4, HostIs

\* The keys that wait, with kqueue.
LEMMA PutKeys ==
    ASSUME MacOS, NEW q \in Seq(Event), NEW e \in Event, NEW i \in 1 .. Len(Put(q, e))
    PROVE  Put(q, e)[i].key = e.key \/ \E j \in 1 .. Len(q) : Put(q, e)[i].key = q[j].key
<1>1. PICK r : r = Put(q, e)
  OBVIOUS
<1>2. (r = Append(q, e) /\ \A j \in 1 .. Len(q) : q[j].key # e.key) \/ Merged(q, e, r)
  BY <1>1, PutMac
<1>3. CASE r = Append(q, e)
  <2>1. Len(r) = Len(q) + 1 /\ r[Len(q) + 1] = e /\ \A j \in 1 .. Len(q) : r[j] = q[j]
    BY <1>3
  <2>2. i = Len(q) + 1 \/ i \in 1 .. Len(q)
    BY <1>1, <2>1
  <2>3. QED
    BY <1>1, <2>1, <2>2
<1>4. CASE Merged(q, e, r)
  BY <1>1, <1>4 DEF Merged
<1>5. QED
  BY <1>2, <1>3, <1>4

\* Merging an event that does not count makes none count that did not.
Grows(e, masks) == \A mask \in Masks : e.mask \cup mask \in masks => mask \in masks

\* Putting an event adds it to the tally, or nothing.
LEMMA PutTally ==
    ASSUME env \in Environments, NEW q \in Seq(Event), Once(q), NEW e \in Event, NEW keys, 0 \notin keys, NEW masks,
           MacOS /\ ~Counted(e, keys, masks) => Grows(e, masks) \/ e.key \notin keys
    PROVE  /\ Tally(Put(q, e), keys, masks) <= Tally(q, keys, masks) + 1
           /\ ~Counted(e, keys, masks) => Tally(Put(q, e), keys, masks) <= Tally(q, keys, masks)
<1>1. PICK r : r = Put(q, e)
  OBVIOUS
<1>2. Len(q) \in Nat /\ Tally(q, keys, masks) \in Nat
  BY PlacesAre
<1>3. ~Counted(Overflow, keys, masks)
  BY OverflowIs DEF Counted
<1>4. ASSUME NEW x \in Event, r = Append(q, x)
      PROVE  /\ Tally(r, keys, masks) <= Tally(q, keys, masks) + 1
             /\ ~Counted(x, keys, masks) => Tally(r, keys, masks) <= Tally(q, keys, masks)
  <2>1. r \in Seq(Event) /\ Len(r) = Len(q) + 1 /\ r[Len(q) + 1] = x /\ \A j \in 1 .. Len(q) : r[j] = q[j]
    BY <1>4
  <2>2. Tally(r, keys, masks) <= Tally(q, keys, masks) + 1
    <3>1. Len(r) \in Nat /\ \A i \in 1 .. Len(r) : i # Len(r) => i \in 1 .. Len(q)
      BY <1>2, <2>1
    <3>2. \A i \in 1 .. Len(r) : i # Len(r) /\ Counted(r[i], keys, masks) => Counted(q[i], keys, masks)
      BY <2>1, <3>1
    <3>3. QED
      BY <2>1, <3>1, <3>2, TallyOneMore
  <2>3. ASSUME ~Counted(x, keys, masks)
        PROVE  Tally(r, keys, masks) <= Tally(q, keys, masks)
    <3> DEFINE f == [i \in Places(r, keys, masks) |-> i]
    <3>1. f \in [Places(r, keys, masks) -> Places(q, keys, masks)]
      <4>1. ASSUME NEW i \in Places(r, keys, masks) PROVE i \in Places(q, keys, masks)
        <5>1. i \in 1 .. Len(r) /\ Counted(r[i], keys, masks)
          BY DEF Places
        <5>2. i # Len(q) + 1
          BY <2>1, <2>3, <5>1
        <5>3. i \in 1 .. Len(q)
          BY <1>2, <2>1, <5>1, <5>2
        <5>4. QED
          BY <2>1, <5>1, <5>3 DEF Places
      <4>2. QED
        BY <4>1
    <3>2. \A i, j \in Places(r, keys, masks) : f[i] = f[j] => i = j
      OBVIOUS
    <3> HIDE DEF f
    <3>3. QED
      BY <2>1, <3>1, <3>2, TallySent
  <2>4. QED
    BY <2>2, <2>3
<1>5. CASE r = q
  BY <1>1, <1>2, <1>5
<1>6. CASE r = Append(q, e)
  BY <1>1, <1>4, <1>6
<1>7. CASE r = Append(q, Overflow)
  BY <1>1, <1>2, <1>3, <1>4, <1>7, OverflowIs
<1>8. CASE r = <<Overflow>>
  <2>1. r \in Seq(Event) /\ Places(r, keys, masks) = {}
    <3>1. Len(r) = 1 /\ r[1] = Overflow /\ r \in Seq(Event)
      BY <1>8, OverflowIs
    <3>2. QED
      BY <1>3, <3>1 DEF Places
  <2>2. Tally(r, keys, masks) = 0
    BY <2>1, PlacesAre, FS_EmptySet
  <2>3. QED
    BY <1>1, <1>2, <2>2
<1>9. CASE MacOS /\ Merged(q, e, r)
  <2>1. r \in Seq(Event) /\ Len(r) = Len(q)
    BY <1>1, <1>9, PutMac DEF Merged
  <2>2. PICK j \in 1 .. Len(q) : q[j].key = e.key
    BY <1>9 DEF Merged
  <2>3. CASE Counted(e, keys, masks)
    <3>1. Tally(r, keys, masks) <= Tally(q, keys, masks) + 1
      <4>1. \A i \in 1 .. Len(r) : i # j /\ Counted(r[i], keys, masks) => Counted(q[i], keys, masks)
        BY <1>9, <2>1, <2>2, ZenonT(40) DEF Once, Merged, Counted
      <4>2. j \in Nat
        OBVIOUS
      <4>3. QED
        BY <2>1, <4>1, <4>2, TallyOneMore
    <3>2. QED
      BY <1>1, <2>3, <3>1
  <2>4. CASE ~Counted(e, keys, masks)
    <3>1. \A i \in 1 .. Len(r) : Counted(r[i], keys, masks) => Counted(q[i], keys, masks)
      <4>1. SUFFICES ASSUME NEW i \in 1 .. Len(q), Counted(r[i], keys, masks)
                     PROVE  Counted(q[i], keys, masks)
        BY <2>1
      <4>2. r[i].key = q[i].key /\ r[i].mask = IF q[i].key = e.key THEN e.mask \cup q[i].mask ELSE q[i].mask
        BY <1>9 DEF Merged
      <4>3. q[i] \in Event
        BY <4>1
      <4>4. q[i].mask \in Masks
        BY <4>3 DEF Event
      <4>5. QED
        BY <1>9, <2>4, <4>1, <4>2, <4>4 DEF Counted, Grows
    <3>2. Tally(r, keys, masks) <= Tally(q, keys, masks)
      BY <2>1, <3>1, TallyFewer
    <3>3. QED
      BY <1>1, <1>2, <2>1, <3>2, PlacesAre
  <2>5. QED
    BY <2>3, <2>4
<1>10. CASE MacOS
  BY <1>1, <1>6, <1>9, <1>10, PutMac
<1>11. CASE Linux
  BY <1>1, <1>5, <1>6, <1>7, <1>11, HostIs, PutLinux DEF Appended
<1>12. CASE Windows
  BY <1>1, <1>5, <1>6, <1>8, <1>12, HostIs, PutWindows DEF Buffered
<1>13. QED
  BY <1>10, <1>11, <1>12, HostIs

-----------------------------------------------------------------------------
(* What the kernel does with one operation on a file.                      *)

LEMMA NoneTold ==
    ASSUME NEW q, NEW kind
    PROVE  Signals(q, kind, {}) = q
<1> DEFINE order == SetToSeq({})
           Is(f) == f = [i \in 0 .. 0 |-> IF i = 0 THEN q ELSE Signal(f[i - 1], kind, order[i])]
           g == [i \in 0 .. 0 |-> q]
<1>1. Cardinality({}) = 0
  BY FS_EmptySet
<1>2. Is(g)
  OBVIOUS
<1>3. \A f : Is(f) => f[0] = q
  OBVIOUS
<1>4. Signals(q, kind, {}) = (CHOOSE f : Is(f))[0]
  BY <1>1 DEF Signals
<1> HIDE DEF Is
<1>5. Is(CHOOSE f : Is(f))
  BY <1>2
<1>6. QED
  BY <1>3, <1>4, <1>5

LEMMA OneTold ==
    ASSUME NEW q, NEW kind, NEW k
    PROVE  Signals(q, kind, {k}) = Signal(q, kind, k)
<1> DEFINE order == SetToSeq({k})
           Is(f) == f = [i \in 0 .. 1 |-> IF i = 0 THEN q ELSE Signal(f[i - 1], kind, order[i])]
           g == [i \in 0 .. 1 |-> IF i = 0 THEN q ELSE Signal(q, kind, order[i])]
<1>1. Cardinality({k}) = 1
  BY FS_Singleton
<1>2. order[1] = k
  <2> DEFINE Good(f) == f \in [1 .. 1 -> {k}] /\ \A a, b \in DOMAIN f : f[a] = f[b] => a = b
             h == [i \in 1 .. 1 |-> k]
  <2>1. Good(h)
    OBVIOUS
  <2>2. order = CHOOSE f \in [1 .. 1 -> {k}] : \A a, b \in DOMAIN f : f[a] = f[b] => a = b
    BY <1>1 DEF SetToSeq, IsInjective
  <2>3. order \in [1 .. 1 -> {k}]
    BY <2>1, <2>2
  <2>4. QED
    BY <2>3
<1> HIDE DEF order
<1>3. Is(g)
  <2>1. \A i \in 0 .. 1 : i # 0 => i = 1
    OBVIOUS
  <2>2. g[0] = q
    OBVIOUS
  <2>3. \A i \in 0 .. 1 : g[i] = IF i = 0 THEN q ELSE Signal(g[i - 1], kind, order[i])
    BY <2>1, <2>2
  <2>4. QED
    BY <2>3
<1>4. ASSUME NEW f, Is(f)
      PROVE  f[1] = Signal(q, kind, k)
  <2>1. f[0] = q
    BY <1>4
  <2>2. f[1] = Signal(f[0], kind, order[1])
    BY <1>4
  <2>3. QED
    BY <1>2, <2>1, <2>2
<1>5. Signals(q, kind, {k}) = (CHOOSE f : Is(f))[1]
  BY <1>1 DEF Signals, order
<1> HIDE DEF Is
<1>6. Is(CHOOSE f : Is(f))
  BY <1>3
<1>7. QED
  BY <1>4, <1>5, <1>6

News(k, kind) == [key |-> k, mask |-> {kind}]

LEMMA NewsIs ==
    ASSUME NEW k \in Nat, NEW kind \in Kinds \cup {"ignored"}
    PROVE  News(k, kind) \in Event /\ News(k, kind).key = k /\ News(k, kind).mask = {kind}
BY DEF News, Event, Masks

LEMMA SignalIs ==
    ASSUME NEW q, NEW kind, NEW k
    PROVE  Signal(q, kind, k) = IF Linux /\ kind = "delete" THEN Put(Put(q, News(k, kind)), News(k, "ignored"))
                                ELSE Put(q, News(k, kind))
BY DEF Signal, News

LEMMA KindsAre ==
    /\ "ignored" \notin Kinds /\ "delete" \in Kinds
    /\ \A kind \in Kinds : {kind} \in SUBSET Kinds
BY DEF Kinds

LEMMA SignalKeeps ==
    ASSUME env \in Environments, made \in Nat, NEW q \in Seq(Event), QueueOK(q),
           NEW k \in Nat, Linux => k <= made, NEW kind \in Kinds
    PROVE  Signal(q, kind, k) \in Seq(Event) /\ QueueOK(Signal(q, kind, k))
<1>1. PICK x : x = News(k, kind)
  OBVIOUS
<1>2. x \in Event /\ x.key = k /\ x.mask = {kind}
  BY <1>1, NewsIs
<1>3. EventOK(x)
  BY <1>2, KindsAre DEF EventOK
<1>4. PICK r : r = Put(q, x)
  OBVIOUS
<1>5. r \in Seq(Event) /\ QueueOK(r)
  BY <1>2, <1>3, <1>4, PutKeeps
<1>6. CASE Linux /\ kind = "delete"
  <2>1. PICK y : y = News(k, "ignored")
    OBVIOUS
  <2>2. y \in Event /\ y.key = k
    BY <2>1, NewsIs
  <2>3. EventOK(y)
    BY <1>6, <2>2 DEF EventOK
  <2>4. Put(r, y) \in Seq(Event) /\ QueueOK(Put(r, y))
    BY <1>5, <2>2, <2>3, PutKeeps
  <2>5. QED
    BY <1>1, <1>4, <1>6, <2>1, <2>4, SignalIs
<1>7. CASE ~(Linux /\ kind = "delete")
  BY <1>1, <1>4, <1>5, <1>7, SignalIs
<1>8. QED
  BY <1>6, <1>7

\* What the thread will learn of the operation from the queue.
Learned(q, kind, k) ==
    /\ MacOS => \E i \in 1 .. Len(q) : q[i].key = k /\ kind \in q[i].mask
    /\ Linux /\ kind = "delete" => q # <<>> /\ q[Len(q)] \in {News(k, "ignored"), Overflow}

LEMMA SignalKept ==
    ASSUME env \in Environments, NEW q \in Seq(Event), NEW k \in Nat, NEW kind \in Kinds, ~Windows
    PROVE  Kept(q, Signal(q, kind, k)) /\ Learned(Signal(q, kind, k), kind, k)
<1>1. PICK x : x = News(k, kind)
  OBVIOUS
<1>2. x \in Event /\ x.key = k /\ x.mask = {kind}
  BY <1>1, NewsIs
<1>3. PICK r : r = Put(q, x)
  OBVIOUS
<1>4. r \in Seq(Event)
  BY <1>2, <1>3, HostIs, PutMac, PutLinux
<1>5. Kept(q, r) /\ Arrived(x, r)
  BY <1>2, <1>3, PutKept
<1>6. CASE Linux /\ kind = "delete"
  <2>1. PICK y : y = News(k, "ignored")
    OBVIOUS
  <2>2. y \in Event
    BY <2>1, NewsIs
  <2>3. PICK s : s = Put(r, y)
    OBVIOUS
  <2>4. Kept(r, s) /\ Arrived(y, s)
    BY <1>4, <2>2, <2>3, PutKept
  <2>5. Kept(q, s)
    BY <1>5, <2>4 DEF Kept
  <2>6. Learned(s, kind, k)
    BY <1>6, <2>1, <2>4, HostIs DEF Learned, Arrived
  <2>7. QED
    BY <1>1, <1>3, <1>6, <2>1, <2>3, <2>5, <2>6, SignalIs
<1>7. CASE ~(Linux /\ kind = "delete")
  <2>1. Learned(r, kind, k)
    BY <1>2, <1>5, <1>7, HostIs DEF Learned, Arrived
  <2>2. QED
    BY <1>1, <1>3, <1>5, <1>7, <2>1, SignalIs
<1>8. QED
  BY <1>6, <1>7

LEMMA SignalKeys ==
    ASSUME env \in Environments, MacOS, NEW q \in Seq(Event), NEW k \in Nat, NEW kind \in Kinds,
           NEW r, r = Signal(q, kind, k), NEW i \in 1 .. Len(r)
    PROVE  r[i].key = k \/ \E j \in 1 .. Len(q) : r[i].key = q[j].key
<1>1. PICK x : x = News(k, kind)
  OBVIOUS
<1>2. x \in Event /\ x.key = k
  BY <1>1, NewsIs
<1>3. r = Put(q, x)
  BY <1>1, HostIs, SignalIs
<1>4. \A h \in 1 .. Len(Put(q, x)) : Put(q, x)[h].key = x.key \/ \E j \in 1 .. Len(q) : Put(q, x)[h].key = q[j].key
  BY <1>2, PutKeys
<1>5. QED
  BY <1>2, <1>3, <1>4

\* Which class an operation counts for.
LEMMA ClassGrows ==
    ASSUME env \in Environments, MacOS, NEW kind \in Kinds, NEW class \in Classes, {kind} \notin MasksOf(class),
           NEW e, e.mask = {kind}
    PROVE  Grows(e, MasksOf(class))
<1> SUFFICES ASSUME NEW mask \in Masks, {kind} \cup mask \in MasksOf(class)
             PROVE  mask \in MasksOf(class)
  BY DEF Grows
<1>1. Classify(mask) = ClassifyFflags(mask) /\ Classify({kind}) = ClassifyFflags({kind})
      /\ Classify({kind} \cup mask) = ClassifyFflags({kind} \cup mask)
  BY HostIs DEF Classify
<1>2. {kind} \cup mask \in SUBSET Kinds /\ Classify({kind} \cup mask) = class
  BY DEF MasksOf
<1>3. mask \in SUBSET Kinds /\ {kind} \in SUBSET Kinds
  BY <1>2
<1>4. Classify({kind}) # class
  BY <1>3 DEF MasksOf
<1>5. Classify(mask) = class
  BY <1>1, <1>2, <1>4 DEF ClassifyFflags, Classes
<1>6. QED
  BY <1>3, <1>5 DEF MasksOf

LEMMA SignalTally ==
    ASSUME env \in Environments, made \in Nat, NEW q \in Seq(Event), QueueOK(q),
           NEW k \in Nat, Linux => k <= made, NEW kind \in Kinds, NEW keys, 0 \notin keys, NEW class \in Classes
    PROVE  /\ Tally(Signal(q, kind, k), keys, MasksOf(class)) <= Tally(q, keys, MasksOf(class)) + 1
           /\ ~(k \in keys /\ {kind} \in MasksOf(class)) =>
                  Tally(Signal(q, kind, k), keys, MasksOf(class)) <= Tally(q, keys, MasksOf(class))
<1>1. PICK x : x = News(k, kind)
  OBVIOUS
<1>2. x \in Event /\ x.key = k /\ x.mask = {kind}
  BY <1>1, NewsIs
<1>3. EventOK(x)
  BY <1>2, KindsAre DEF EventOK
<1>4. PICK C : C = MasksOf(class)
  OBVIOUS
<1>5. Counted(x, keys, C) <=> k \in keys /\ {kind} \in C
  BY <1>2 DEF Counted
<1>6. MacOS /\ ~Counted(x, keys, C) => Grows(x, C) \/ x.key \notin keys
  <2>1. SUFFICES ASSUME MacOS, ~Counted(x, keys, C), x.key \in keys PROVE Grows(x, C)
    OBVIOUS
  <2>2. {kind} \notin MasksOf(class)
    BY <1>2, <1>4, <1>5, <2>1
  <2>3. QED
    BY <1>2, <1>4, <2>1, <2>2, ClassGrows
<1>7. PICK r : r = Put(q, x)
  OBVIOUS
<1>8. r \in Seq(Event) /\ QueueOK(r) /\ Once(r) /\ Once(q)
  <2>1. r \in Seq(Event) /\ QueueOK(r)
    BY <1>2, <1>3, <1>7, PutKeeps
  <2>2. QED
    BY <2>1 DEF QueueOK
<1>9. /\ Tally(r, keys, C) <= Tally(q, keys, C) + 1
      /\ ~Counted(x, keys, C) => Tally(r, keys, C) <= Tally(q, keys, C)
  BY <1>2, <1>6, <1>7, <1>8, PutTally
<1>10. CASE Linux /\ kind = "delete"
  <2>1. PICK y : y = News(k, "ignored")
    OBVIOUS
  <2>2. y \in Event /\ y.mask = {"ignored"}
    BY <2>1, NewsIs
  <2>3. ~Counted(y, keys, C)
    BY <1>4, <2>2, KindsAre DEF Counted, MasksOf
  <2>4. ~MacOS
    BY <1>10, HostIs
  <2>5. Tally(Put(r, y), keys, C) <= Tally(r, keys, C) /\ Put(r, y) \in Seq(Event)
    BY <1>8, <1>10, <2>2, <2>3, <2>4, HostIs, PutTally, PutLinux
  <2>6. Tally(q, keys, C) \in Nat /\ Tally(r, keys, C) \in Nat /\ Tally(Put(r, y), keys, C) \in Nat
    BY <1>8, <2>5, PlacesAre
  <2>7. Signal(q, kind, k) = Put(r, y)
    BY <1>1, <1>7, <1>10, <2>1, SignalIs
  <2>8. QED
    BY <1>4, <1>5, <1>9, <2>5, <2>6, <2>7
<1>11. CASE ~(Linux /\ kind = "delete")
  <2>1. Signal(q, kind, k) = r
    BY <1>1, <1>7, <1>11, SignalIs
  <2>2. QED
    BY <1>4, <1>5, <1>9, <2>1
<1>12. QED
  BY <1>10, <1>11

-----------------------------------------------------------------------------
(* What other programs do, as one kind of step.                            *)

\* A decoy that was there is used where it is, or goes away.
Moves(kind, p, n) ==
    /\ \A r \in Paths : r # p => at'[r] = at[r]
    /\ at[p] # None =>
           \/ kind \in {"read", "attrib", "write"} /\ at'[p] = at[p]
           \/ kind \in {"delete", "move"} /\ n = at[p]

\* Files are only ever added.
Grown ==
    /\ FilesOK' /\ env' = env
    /\ made \in Nat /\ made' \in Nat /\ made <= made'
    /\ \A n \in 1..made : owner'[n] = owner[n]

Frame == <<pending, thread, command, flight, env, notices, cut, claim>>

HostStep(kind, p, n) ==
    /\ kind \in Kinds /\ p \in Paths
    /\ \/ n = None /\ kind = "create"
       \/ n \in 1..made /\ owner[n] = p
    /\ Deliver(kind, p, n)
    /\ UNCHANGED Frame
    /\ Grown
    /\ Moves(kind, p, n)

LEMMA FilesStay ==
    ASSUME FilesOK, UNCHANGED <<files, env>>
    PROVE  Grown
<1>1. made' = made /\ env' = env /\ owner' = owner /\ at' = at /\ away' = away
  BY DEF files
<1>2. made \in Nat
  BY BoundsAre DEF FilesOK
<1>3. QED
  BY <1>1, <1>2 DEF Grown, FilesOK

LEMMA DecoyFile ==
    ASSUME FilesOK, NEW p \in Paths, at[p] # None
    PROVE  at[p] \in 1..made /\ owner[at[p]] = p /\ at[p] \notin away
BY BoundsAre, SMTT(40) DEF FilesOK, None

LEMMA AwayFile ==
    ASSUME FilesOK, NEW n \in away
    PROVE  n \in 1..made /\ owner[n] \in Paths
BY BoundsAre DEF FilesOK

LEMMA FrameOf ==
    ASSUME NEW kind, NEW p, Operation(kind, p)
    PROVE  UNCHANGED Frame /\ env' = env
BY DEF Operation, Frame, thread, command, service

LEMMA Touches ==
    ASSUME FilesOK, NEW p \in Paths, NEW kind, Touch(p, kind)
    PROVE  HostStep(kind, p, at[p])
<1>1. at[p] \in 1..made /\ owner[at[p]] = p
  BY DecoyFile DEF Touch
<1>2. Deliver(kind, p, at[p]) /\ kind \in {"read", "attrib", "write"} /\ kind \in Kinds
  BY DEF Touch, Kinds
<1>3. UNCHANGED Frame /\ env' = env /\ UNCHANGED files
  BY FrameOf DEF Touch
<1>4. Grown
  BY <1>3, FilesStay
<1>5. Moves(kind, p, at[p])
  BY <1>2, <1>3 DEF Moves, files
<1>6. QED
  BY <1>1, <1>2, <1>3, <1>4, <1>5 DEF HostStep

LEMMA TouchesAway ==
    ASSUME FilesOK, NEW n, NEW kind, TouchAway(n, kind)
    PROVE  HostStep(kind, owner[n], n)
<1>1. n \in 1..made /\ owner[n] \in Paths
  BY AwayFile DEF TouchAway
<1>2. Deliver(kind, owner[n], n) /\ kind \in {"read", "write"} /\ kind \in Kinds
  BY DEF TouchAway, Kinds
<1>3. UNCHANGED Frame /\ env' = env /\ UNCHANGED files
  BY FrameOf DEF TouchAway
<1>4. Grown
  BY <1>3, FilesStay
<1>5. Moves(kind, owner[n], n)
  BY <1>2, <1>3 DEF Moves, files
<1>6. QED
  BY <1>1, <1>2, <1>3, <1>4, <1>5 DEF HostStep

LEMMA Deletes ==
    ASSUME FilesOK, NEW p \in Paths, Delete(p)
    PROVE  HostStep("delete", p, at[p])
<1>1. at[p] \in 1..made /\ owner[at[p]] = p
  BY DecoyFile DEF Delete
<1>2. Deliver("delete", p, at[p]) /\ "delete" \in Kinds
  BY DEF Delete, Kinds
<1>3. UNCHANGED Frame /\ env' = env
  BY FrameOf DEF Delete
<1>4. at' = [at EXCEPT ![p] = None] /\ away' = away /\ made' = made /\ owner' = owner
  BY DEF Delete
<1>5. made \in Nat /\ at' \in [Paths -> 0..made]
  BY <1>4, BoundsAre DEF FilesOK, None
<1>6. \A r \in Paths : at'[r] = IF r = p THEN None ELSE at[r]
  BY <1>4 DEF FilesOK
<1>7. Grown
  <2>1. \A r \in Paths : at'[r] # None => owner'[at'[r]] = r /\ at'[r] \notin away'
    BY <1>4, <1>6 DEF FilesOK
  <2>2. QED
    BY <1>3, <1>4, <1>5, <2>1 DEF Grown, FilesOK
<1>8. Moves("delete", p, at[p])
  BY <1>6 DEF Moves
<1>9. QED
  BY <1>1, <1>2, <1>3, <1>7, <1>8 DEF HostStep

LEMMA Renames ==
    ASSUME FilesOK, NEW p \in Paths, Rename(p)
    PROVE  HostStep("move", p, at[p])
<1>1. at[p] \in 1..made /\ owner[at[p]] = p
  BY DecoyFile DEF Rename
<1>2. Deliver("move", p, at[p]) /\ "move" \in Kinds
  BY DEF Rename, Kinds
<1>3. UNCHANGED Frame /\ env' = env
  BY FrameOf DEF Rename
<1>4. at' = [at EXCEPT ![p] = None] /\ away' = away \cup {at[p]} /\ made' = made /\ owner' = owner
  BY DEF Rename
<1>5. made \in Nat /\ at' \in [Paths -> 0..made]
  BY <1>4, BoundsAre DEF FilesOK, None
<1>6. \A r \in Paths : at'[r] = IF r = p THEN None ELSE at[r]
  BY <1>4 DEF FilesOK
<1>7. away' \subseteq 1..made
  BY <1>1, <1>4 DEF FilesOK
<1>8. ASSUME NEW r \in Paths, at'[r] # None
      PROVE  owner[at'[r]] = r /\ at'[r] \notin away'
  <2>1. r # p /\ at'[r] = at[r]
    BY <1>6, <1>8
  <2>2. owner[at[r]] = r /\ at[r] \notin away
    BY <1>8, <2>1 DEF FilesOK
  <2>3. at[r] # at[p]
    BY <1>1, <2>1, <2>2
  <2>4. QED
    BY <1>4, <2>1, <2>2, <2>3
<1>9. Grown
  BY <1>3, <1>4, <1>5, <1>7, <1>8 DEF Grown, FilesOK
<1>10. Moves("move", p, at[p])
  BY <1>6 DEF Moves
<1>11. QED
  BY <1>1, <1>2, <1>3, <1>9, <1>10 DEF HostStep

LEMMA RenamesBack ==
    ASSUME FilesOK, NEW n, RenameBack(n)
    PROVE  HostStep("move", owner[n], n)
<1>1. n \in 1..made /\ owner[n] \in Paths
  BY AwayFile DEF RenameBack
<1>2. PICK p : p = owner[n]
  OBVIOUS
<1>3. Deliver("move", p, n) /\ "move" \in Kinds /\ at[p] = None
  BY <1>2 DEF RenameBack, Kinds
<1>4. UNCHANGED Frame /\ env' = env
  BY FrameOf DEF RenameBack
<1>5. at' = [at EXCEPT ![p] = n] /\ away' = away \ {n} /\ made' = made /\ owner' = owner
  BY <1>2 DEF RenameBack
<1>6. made \in Nat /\ at' \in [Paths -> 0..made]
  <2>1. made \in Nat
    BY BoundsAre DEF FilesOK
  <2>2. n \in 0..made
    BY <1>1, <2>1
  <2>3. QED
    BY <1>5, <2>1, <2>2 DEF FilesOK
<1>7. \A r \in Paths : at'[r] = IF r = p THEN n ELSE at[r]
  BY <1>1, <1>2, <1>5 DEF FilesOK
<1>8. Grown
  BY <1>2, <1>4, <1>5, <1>6, <1>7 DEF Grown, FilesOK
<1>9. Moves("move", p, n)
  BY <1>3, <1>7 DEF Moves
<1>10. QED
  BY <1>1, <1>2, <1>3, <1>4, <1>8, <1>9 DEF HostStep

\* A file is made: at a path that is free, or over a decoy.
LEMMA MakesFile ==
    ASSUME FilesOK, NEW p \in Paths, made < MaxNodes, env' = env,
           made' = made + 1, at' = [at EXCEPT ![p] = made + 1],
           owner' = [owner EXCEPT ![made + 1] = p], away' = away
    PROVE  Grown /\ \A r \in Paths : r # p => at'[r] = at[r]
<1>1. made \in Nat /\ made' \in Nat /\ made' \in 0..MaxNodes /\ made + 1 \in 1..MaxNodes /\ made <= MaxNodes
  BY BoundsAre DEF FilesOK
<1>2. at' \in [Paths -> 0..made']
  <2>1. \A r \in Paths : at[r] \in 0..made'
    BY <1>1 DEF FilesOK
  <2>2. QED
    BY <1>1, <2>1 DEF FilesOK
<1>3. \A r \in Paths : at'[r] = IF r = p THEN made + 1 ELSE at[r]
  BY DEF FilesOK
<1>4. \A n \in 1..MaxNodes : owner'[n] = IF n = made + 1 THEN p ELSE owner[n]
  BY DEF FilesOK
<1>5. DOMAIN owner' = 1..MaxNodes /\ owner' = [n \in 1..MaxNodes |-> owner'[n]]
  <2>1. owner' = [n \in 1..MaxNodes |-> IF n = made + 1 THEN p ELSE owner[n]]
    BY DEF FilesOK
  <2>2. QED
    BY <2>1
<1>6. \A n \in 1..made : n \in 1..MaxNodes /\ n # made + 1 /\ owner'[n] = owner[n]
  <2>1. MaxNodes \in Nat
    BY BoundsAre
  <2>2. \A n \in 1..made : n \in 1..MaxNodes /\ n # made + 1
    BY <1>1, <2>1
  <2>3. QED
    BY <1>4, <2>2
<1>7. \A n \in 1..made' : owner'[n] \in Paths
  <2>1. \A n \in 1..made' : n = made + 1 \/ n \in 1..made
    BY <1>1
  <2>2. QED
    BY <1>1, <1>4, <1>6, <2>1 DEF FilesOK
<1>8. made + 1 \notin away /\ away \subseteq 1..made'
  BY <1>1 DEF FilesOK
<1>9. ASSUME NEW r \in Paths, at'[r] # None
      PROVE  owner'[at'[r]] = r /\ at'[r] \notin away'
  <2>1. CASE r = p
    BY <1>1, <1>3, <1>4, <1>8, <2>1
  <2>2. CASE r # p
    <3>1. at[r] \in 1..made /\ owner[at[r]] = r /\ at[r] \notin away
      BY <1>3, <1>9, <2>2, DecoyFile
    <3>2. QED
      BY <1>3, <1>6, <2>2, <3>1
  <2>3. QED
    BY <2>1, <2>2
<1>10. env' \in Environments
  BY DEF FilesOK
<1>11. FilesOK'
  BY <1>1, <1>2, <1>5, <1>7, <1>8, <1>9, <1>10 DEF FilesOK
<1>12. QED
  BY <1>1, <1>3, <1>6, <1>11 DEF Grown

LEMMA Creates ==
    ASSUME FilesOK, NEW p \in Paths, Create(p)
    PROVE  HostStep("create", p, None)
<1>1. Deliver("create", p, None) /\ "create" \in Kinds /\ at[p] = None
  BY DEF Create, Kinds
<1>2. UNCHANGED Frame /\ env' = env
  BY FrameOf DEF Create
<1>3. Grown /\ \A r \in Paths : r # p => at'[r] = at[r]
  BY <1>2, MakesFile DEF Create
<1>4. QED
  BY <1>1, <1>2, <1>3 DEF HostStep, Moves

LEMMA Replaces ==
    ASSUME FilesOK, NEW p \in Paths, Replace(p)
    PROVE  HostStep("delete", p, at[p])
<1>1. at[p] \in 1..made /\ owner[at[p]] = p
  BY DecoyFile DEF Replace
<1>2. Deliver("delete", p, at[p]) /\ "delete" \in Kinds
  BY DEF Replace, Kinds
<1>3. UNCHANGED Frame /\ env' = env
  BY FrameOf DEF Replace
<1>4. Grown /\ \A r \in Paths : r # p => at'[r] = at[r]
  BY <1>3, MakesFile DEF Replace
<1>5. QED
  BY <1>1, <1>2, <1>3, <1>4 DEF HostStep, Moves

LEMMA HostIsStep ==
    ASSUME FilesOK, Host
    PROVE  \E kind, p, n : HostStep(kind, p, n)
<1>1. ASSUME NEW p \in Paths, NEW kind, Touch(p, kind) PROVE \E kk, pp, n : HostStep(kk, pp, n)
  BY <1>1, Touches
<1>2. ASSUME NEW p \in Paths, Delete(p) \/ Rename(p) \/ Create(p) \/ Replace(p)
      PROVE  \E kk, pp, n : HostStep(kk, pp, n)
  BY <1>2, Deletes, Renames, Creates, Replaces
<1>3. ASSUME NEW n, RenameBack(n) PROVE \E kk, pp, nn : HostStep(kk, pp, nn)
  BY <1>3, RenamesBack
<1>4. ASSUME NEW n, NEW kind, TouchAway(n, kind) PROVE \E kk, pp, nn : HostStep(kk, pp, nn)
  BY <1>4, TouchesAway
<1>5. QED
  BY <1>1, <1>2, <1>3, <1>4 DEF Host

-----------------------------------------------------------------------------
(* What stays when files are added, and when nothing is done to a watcher. *)

LEMMA SameHost ==
    ASSUME Grown
    PROVE  /\ Linux' = Linux /\ MacOS' = MacOS /\ Windows' = Windows
           /\ \A a \in Assets : Decoys(a)' = Decoys(a)
           /\ \A mask : Classify(mask)' = Classify(mask)
           /\ env' = env
BY DEF Grown, Linux, MacOS, Windows, Decoys, Classify, ClassifyMask, ClassifyFflags, ClassifyAction

LEMMA EventsStay ==
    ASSUME Grown, NEW e \in Event, EventOK(e)
    PROVE  EventOK(e)'
<1>1. e.key \in Nat /\ made \in Nat /\ made' \in Nat /\ made <= made'
  BY DEF Event, Grown
<1>2. QED
  BY <1>1, SameHost DEF EventOK

LEMMA QueueStays ==
    ASSUME Grown, NEW q \in Seq(Event), QueueOK(q)
    PROVE  QueueOK(q)'
<1>1. \A i \in 1..Len(q) : EventOK(q[i])'
  BY EventsStay DEF QueueOK
<1>2. QED
  BY <1>1, SameHost DEF QueueOK, Once

LEMMA EntryStays ==
    ASSUME Grown, NEW a \in Assets, NEW k, EntryOK(a, k), reg'[a][k] = reg[a][k]
    PROVE  EntryOK(a, k)'
<1>1. reg[a][k].file \in 1..made
  BY DEF EntryOK, Descriptor, Grown
<1>2. owner'[reg[a][k].file] = owner[reg[a][k].file] /\ reg[a][k].file <= made'
  BY <1>1 DEF Grown
<1>3. QED
  BY <1>2, SameHost DEF EntryOK

\* Fewer descriptors, and nothing more that is pending.
LEMMA RegStays ==
    ASSUME Grown, NEW a \in Assets, RegOK(a),
           DOMAIN reg'[a] \subseteq DOMAIN reg[a], reg'[a] = [k \in DOMAIN reg'[a] |-> reg'[a][k]],
           \A k \in DOMAIN reg'[a] : reg'[a][k] = reg[a][k],
           pc'[a] = "opened" => pc[a] = "opened",
           MacOS => \A k \in DOMAIN reg'[a] : reg[a][k].live /\ reg[a][k].path \in pending'[a]
                                              => reg[a][k].path \in pending[a]
    PROVE  RegOK(a)'
<1>1. IsFiniteSet(DOMAIN reg'[a]) /\ DOMAIN reg'[a] \subseteq Nat
  BY FS_Subset DEF RegOK
<1>2. \A k \in DOMAIN reg'[a] : EntryOK(a, k)'
  BY EntryStays DEF RegOK
<1>3. (Linux \/ Single(a))'
  BY SameHost DEF RegOK, Single
<1>4. Windows' => \A k \in DOMAIN reg'[a] : reg'[a][k].live
  BY SameHost DEF RegOK
<1>5. MacOS' => \A k \in DOMAIN reg'[a] : reg'[a][k].path \in pending'[a] => ~reg'[a][k].live
  BY SameHost DEF RegOK
<1>6. QED
  BY <1>1, <1>2, <1>3, <1>4, <1>5 DEF RegOK

LEMMA KernelStays ==
    ASSUME Grown, NEW a \in Assets, KernelOK(a), kernel[a] \in Seq(Event),
           kernel'[a] = kernel[a], reg'[a] = reg[a]
    PROVE  KernelOK(a)'
<1>1. PICK q : q = kernel[a]
  OBVIOUS
<1>2. QueueOK(q)'
  BY <1>1, QueueStays DEF KernelOK
<1>3. QED
  BY <1>1, <1>2, SameHost DEF KernelOK, QueueOK, EventOK, Once

LEMMA BatchStays ==
    ASSUME Grown, NEW a \in Assets, BatchOK(a), batch[a] \in Seq(Event),
           batch'[a] = batch[a], pc'[a] = pc[a],
           MacOS => /\ DOMAIN reg'[a] \subseteq DOMAIN reg[a]
                    /\ \A k \in DOMAIN reg'[a] : reg'[a][k].live = reg[a][k].live
    PROVE  BatchOK(a)'
<1>1. PICK q : q = batch[a]
  OBVIOUS
<1>2. \A i \in 1..Len(q) : EventOK(q[i])'
  BY <1>1, EventsStay DEF BatchOK
<1>3. q = batch'[a] /\ Once(q)'
  BY <1>1, SameHost DEF BatchOK, Once
<1>4. \A i \in 1..Len(batch'[a]) : EventOK(batch[a][i])'
  BY <1>1, <1>2, <1>3 DEF EventOK
<1>5. Once(batch[a])'
  BY <1>3 DEF Once
<1>6. QED
  BY <1>1, <1>3, <1>4, <1>5, SameHost DEF BatchOK, EventOK

LEMMA HandlerStays ==
    ASSUME Grown, NEW a \in Assets, HandlerOK(a), batch[a] \in Seq(Event),
           handler'[a] = handler[a], batch'[a] = batch[a], pc'[a] = pc[a], todo'[a] = todo[a],
           DOMAIN reg'[a] = DOMAIN reg[a] \/ DOMAIN reg'[a] = {} \/ Linux,
           \A k \in DOMAIN reg'[a] : reg'[a][k].path = reg[a][k].path \/ Linux,
           pc[a] = "attach" => reg'[a] = reg[a]
    PROVE  HandlerOK(a)'
<1>1. CASE pc[a] # "attach" /\ handler[a] = NoHandler
  BY <1>1 DEF HandlerOK
<1>2. CASE RespondingOK(a)
  <2>1. RespondingOK(a)'
    <3>1. Linux => owner'[handler[a].key] = owner[handler[a].key] /\ handler[a].key \in 1..made'
      BY <1>2, SameHost DEF RespondingOK, Grown
    <3>2. QED
      BY <1>2, <3>1, SameHost DEF RespondingOK
  <2>2. QED
    BY <2>1 DEF HandlerOK
<1>3. CASE AttachingOK(a)
  <2>1. AttachingOK(a)'
    BY <1>3, SameHost DEF AttachingOK
  <2>2. QED
    BY <2>1 DEF HandlerOK
<1>4. QED
  BY <1>1, <1>2, <1>3 DEF HandlerOK

LEMMA ThreadStays ==
    ASSUME Grown, NEW a \in Assets, ThreadOK(a),
           reg'[a] = reg[a], pending'[a] = pending[a], todo'[a] = todo[a], pc'[a] = pc[a],
           pc[a] \in Starts => kernel'[a] = kernel[a],
           phase' # "stopping" => stop'[a] = "no",
           phase' = "stopping" => pc[a] \notin Starts,
           stop'[a] = "done" => stop[a] = "done"
    PROVE  ThreadOK(a)'
BY SameHost DEF ThreadOK

Untouched(a) ==
    /\ reg'[a] = reg[a] /\ pending'[a] = pending[a] /\ kernel'[a] = kernel[a]
    /\ pc'[a] = pc[a] /\ todo'[a] = todo[a] /\ batch'[a] = batch[a]
    /\ handler'[a] = handler[a] /\ stop'[a] = stop[a]

LEMMA Elsewhere ==
    ASSUME Grown, Watchers, NEW a \in Assets, Untouched(a),
           phase' # "stopping" => stop[a] = "no", phase' = "stopping" => pc[a] \notin Starts
    PROVE  AssetOK(a)'
<1>1. /\ RegOK(a) /\ KernelOK(a) /\ BatchOK(a) /\ ThreadOK(a) /\ HandlerOK(a)
      /\ kernel[a] \in Seq(Event) /\ batch[a] \in Seq(Event)
  BY DEF Watchers, AssetOK, Shapes
<1>2. /\ reg'[a] = reg[a] /\ pending'[a] = pending[a] /\ kernel'[a] = kernel[a]
      /\ pc'[a] = pc[a] /\ todo'[a] = todo[a] /\ batch'[a] = batch[a]
      /\ handler'[a] = handler[a] /\ stop'[a] = stop[a]
  BY DEF Untouched
<1>3. RegOK(a)'
  <2>1. reg[a] = [k \in DOMAIN reg[a] |-> reg[a][k]]
    BY <1>1 DEF RegOK
  <2>2. reg'[a] = [k \in DOMAIN reg'[a] |-> reg'[a][k]]
    BY <1>2, <2>1
  <2>3. QED
    BY <1>1, <1>2, <2>2, RegStays
<1>4. KernelOK(a)'
  BY <1>1, <1>2, KernelStays
<1>5. BatchOK(a)'
  BY <1>1, <1>2, BatchStays
<1>6. HandlerOK(a)'
  BY <1>1, <1>2, HandlerStays
<1>7. ThreadOK(a)'
  BY <1>1, <1>2, ThreadStays
<1>8. QED
  BY <1>3, <1>4, <1>5, <1>6, <1>7 DEF AssetOK

\* A step of one watcher.
LEMMA OneAsset ==
    ASSUME Grown, Watchers, Shapes', phase' = phase, NEW a \in Assets,
           \A b \in Assets : b # a => Untouched(b), AssetOK(a)'
    PROVE  Watchers'
<1>1. ASSUME NEW b \in Assets, b # a
      PROVE  AssetOK(b)'
  <2>1. ThreadOK(b) /\ Untouched(b)
    BY <1>1 DEF Watchers, AssetOK
  <2>2. QED
    BY <2>1, Elsewhere DEF ThreadOK
<1>2. QED
  BY <1>1 DEF Watchers

-----------------------------------------------------------------------------
(* The delivery of an operation.                                           *)

\* The descriptors of a watcher after a file of theirs may have gone away.
Deafened(a, r, keys) ==
    /\ DOMAIN r = DOMAIN reg[a] /\ r = [k \in DOMAIN r |-> r[k]]
    /\ \A k \in DOMAIN r :
           /\ r[k] \in Descriptor /\ r[k].path = reg[a][k].path /\ r[k].file = reg[a][k].file
           /\ r[k].live = (reg[a][k].live /\ k \notin keys)

Delivered(kind, p, n, a, keys, q, r) ==
    /\ keys = IF Heard(kind) THEN Listening(a, p, n) ELSE {}
    /\ \/ keys = {} /\ q = kernel[a]
       \/ \E k \in DOMAIN reg[a] :
              /\ keys = {k} /\ k \in Nat \ {0} /\ (Linux => k <= made)
              /\ reg[a][k].path = p /\ reg[a][k].live
              /\ q = Signal(kernel[a], kind, k)
    /\ q \in Seq(Event) /\ QueueOK(q)
    /\ kernel' = [kernel EXCEPT ![a] = q]
    /\ reg' = [reg EXCEPT ![a] = r]
    /\ IF Linux /\ kind = "delete" THEN Deafened(a, r, keys) ELSE r = reg[a]
    /\ unseen' \subseteq unseen \cup {p}
    /\ gap' = IF Linux /\ keys # {} /\ (kind = "move" \/ (kind = "delete" /\ q # <<>> /\ Last(q) = Overflow))
              THEN gap \cup {p} ELSE gap
    /\ done' = [done EXCEPT ![p][kind] = @ + 1]

\* No file, and on Windows no name, has two descriptors that hear of it.
LEMMA OneListens ==
    ASSUME FilesOK, NEW a \in Assets, RegOK(a), pc[a] # "opened", NEW p, NEW n,
           n = None \/ (n \in 1..made /\ owner[n] = p), NEW k \in Listening(a, p, n)
    PROVE  /\ k \in DOMAIN reg[a] /\ k \in Nat \ {0} /\ reg[a][k].live /\ reg[a][k].path = p
           /\ Linux => k <= made
           /\ \A l \in Listening(a, p, n) : l = k
<1>1. ASSUME NEW l \in Listening(a, p, n)
      PROVE  /\ l \in DOMAIN reg[a] /\ reg[a][l].live /\ reg[a][l].path = p
             /\ Linux => l = n /\ l <= made
  <2>1. /\ l \in DOMAIN reg[a] /\ reg[a][l].live
        /\ IF Windows THEN reg[a][l].path = p ELSE reg[a][l].file = n
    BY DEF Listening
  <2>2. EntryOK(a, l)
    BY <2>1 DEF RegOK
  <2>3. reg[a][l].file \in 1..MaxNodes /\ reg[a][l].file <= made /\ owner[reg[a][l].file] = reg[a][l].path
        /\ (Linux => reg[a][l].file = l)
    BY <2>2 DEF EntryOK, Descriptor
  <2>4. CASE Windows
    BY <2>1, <2>4, HostIs DEF FilesOK
  <2>5. CASE ~Windows
    <3>1. n # None
      BY <2>1, <2>3, <2>5, BoundsAre DEF None
    <3>2. QED
      BY <2>1, <2>3, <2>5, <3>1
  <2>6. QED
    BY <2>4, <2>5
<1>2. k \in Nat \ {0}
  <2>1. EntryOK(a, k) /\ k \in Nat
    BY <1>1 DEF RegOK
  <2>2. QED
    BY <2>1 DEF EntryOK
<1>3. ASSUME NEW l \in Listening(a, p, n)
      PROVE  l = k
  <2>1. CASE Linux
    BY <1>1, <2>1
  <2>2. CASE ~Linux
    <3>1. Single(a)
      BY <2>2 DEF RegOK
    <3>2. QED
      BY <1>1, <3>1 DEF Single
  <2>3. QED
    BY <2>1, <2>2
<1>4. QED
  BY <1>1, <1>2, <1>3

LEMMA NobodyListens ==
    ASSUME NEW a \in Assets, ThreadOK(a), pc[a] = "opened", NEW p, NEW n
    PROVE  Listening(a, p, n) = {}
BY DEF ThreadOK, Listening

LEMMA Delivers ==
    ASSUME WatcherOK, NEW kind, NEW p, NEW n, HostStep(kind, p, n), NEW a \in Assets, a = env.assetOf[p]
    PROVE  \E keys, q, r : Delivered(kind, p, n, a, keys, q, r)
<1>1. /\ RegOK(a) /\ KernelOK(a) /\ ThreadOK(a) /\ kernel[a] \in Seq(Event)
      /\ FilesOK /\ Shapes /\ env \in Environments /\ made \in Nat
  <2>1. made \in Nat
    BY DEF HostStep, Grown
  <2>2. QED
    BY <2>1 DEF WatcherOK, Watchers, AssetOK, Shapes, FilesOK
<1>2. kind \in Kinds /\ (n = None \/ (n \in 1..made /\ owner[n] = p)) /\ Deliver(kind, p, n)
  BY DEF HostStep
<1>3. PICK keys : keys = IF Heard(kind) THEN Listening(a, p, n) ELSE {}
  OBVIOUS
<1>4. PICK q : q = Signals(kernel[a], kind, keys)
  OBVIOUS
<1>5. PICK r : r = IF Linux /\ kind = "delete"
                   THEN [k \in DOMAIN reg[a] |-> IF k \in keys THEN [reg[a][k] EXCEPT !.live = FALSE] ELSE reg[a][k]]
                   ELSE reg[a]
  OBVIOUS
<1>6. \/ keys = {} /\ q = kernel[a]
      \/ \E k \in DOMAIN reg[a] :
             /\ keys = {k} /\ k \in Nat \ {0} /\ (Linux => k <= made)
             /\ reg[a][k].path = p /\ reg[a][k].live
             /\ q = Signal(kernel[a], kind, k)
  <2>1. CASE keys = {}
    BY <1>4, <2>1, NoneTold
  <2>2. CASE keys # {}
    <3>1. PICK k : k \in keys
      BY <2>2
    <3>2. k \in Listening(a, p, n) /\ keys = Listening(a, p, n)
      BY <1>3, <3>1
    <3>3. pc[a] # "opened"
      BY <1>1, <3>2, NobodyListens
    <3>4. /\ k \in DOMAIN reg[a] /\ k \in Nat \ {0} /\ reg[a][k].live /\ reg[a][k].path = p
          /\ Linux => k <= made
          /\ \A l \in Listening(a, p, n) : l = k
      BY <1>1, <1>2, <3>2, <3>3, OneListens
    <3>5. keys = {k}
      BY <3>1, <3>2, <3>4
    <3>6. q = Signal(kernel[a], kind, k)
      BY <1>4, <3>5, OneTold
    <3>7. QED
      BY <3>4, <3>5, <3>6
  <2>3. QED
    BY <2>1, <2>2
<1>7. q \in Seq(Event) /\ QueueOK(q)
  <2>1. CASE q = kernel[a]
    BY <1>1, <2>1 DEF KernelOK
  <2>2. ASSUME NEW k \in Nat, Linux => k <= made, q = Signal(kernel[a], kind, k)
        PROVE  q \in Seq(Event) /\ QueueOK(q)
    BY <1>1, <1>2, <2>2, SignalKeeps DEF KernelOK
  <2>3. QED
    BY <1>6, <2>1, <2>2
<1>8. Linux /\ kind = "delete" => Deafened(a, r, keys)
  <2>1. SUFFICES ASSUME Linux, kind = "delete" PROVE Deafened(a, r, keys)
    OBVIOUS
  <2>2. r = [k \in DOMAIN reg[a] |-> IF k \in keys THEN [reg[a][k] EXCEPT !.live = FALSE] ELSE reg[a][k]]
    BY <1>5, <2>1
  <2>3. ASSUME NEW k \in DOMAIN reg[a]
        PROVE  /\ r[k] \in Descriptor /\ r[k].path = reg[a][k].path /\ r[k].file = reg[a][k].file
               /\ r[k].live = (reg[a][k].live /\ k \notin keys)
    <3>1. PICK d : d = reg[a][k]
      OBVIOUS
    <3>2. d \in Descriptor
      BY <1>1, <3>1 DEF RegOK, EntryOK
    <3>3. r[k] = IF k \in keys THEN [d EXCEPT !.live = FALSE] ELSE d
      BY <2>2, <3>1
    <3>4. CASE k \in keys
      BY <3>1, <3>2, <3>3, <3>4 DEF Descriptor
    <3>5. CASE k \notin keys
      BY <3>1, <3>2, <3>3, <3>5 DEF Descriptor
    <3>6. QED
      BY <3>4, <3>5
  <2>4. DOMAIN r = DOMAIN reg[a] /\ r = [k \in DOMAIN r |-> r[k]]
    BY <2>2
  <2>5. QED
    BY <2>3, <2>4 DEF Deafened
<1>9. kernel' = [kernel EXCEPT ![a] = q]
  BY <1>2, <1>3, <1>4 DEF Deliver
<1>10. reg' = [reg EXCEPT ![a] = r]
  <2>1. CASE Linux /\ kind = "delete"
    BY <1>2, <1>3, <1>5, <2>1 DEF Deliver
  <2>2. CASE ~(Linux /\ kind = "delete")
    <3>1. reg' = reg
      BY <1>2, <2>2 DEF Deliver
    <3>2. reg = [b \in Assets |-> reg[b]]
      BY <1>1 DEF Shapes
    <3>3. QED
      BY <1>5, <2>2, <3>1, <3>2
  <2>3. QED
    BY <2>1, <2>2
<1>11. unseen' \subseteq unseen \cup {p}
  BY <1>2 DEF Deliver
<1>12. gap' = IF Linux /\ keys # {} /\ (kind = "move" \/ (kind = "delete" /\ q # <<>> /\ Last(q) = Overflow))
              THEN gap \cup {p} ELSE gap
  BY <1>2, <1>3, <1>4 DEF Deliver
<1>13. done' = [done EXCEPT ![p][kind] = @ + 1]
  BY <1>2 DEF Deliver
<1>14. IF Linux /\ kind = "delete" THEN Deafened(a, r, keys) ELSE r = reg[a]
  BY <1>5, <1>8
<1>15. Delivered(kind, p, n, a, keys, q, r)
  BY <1>3, <1>6, <1>7, <1>9, <1>10, <1>11, <1>12, <1>13, <1>14 DEF Delivered
<1>16. QED
  BY <1>15

LEMMA DeliveryKeepsAsset ==
    ASSUME WatcherOK, NEW kind, NEW p, NEW n, HostStep(kind, p, n), NEW a \in Assets, a = env.assetOf[p],
           NEW keys, NEW q, NEW r, Delivered(kind, p, n, a, keys, q, r)
    PROVE  AssetOK(a)' /\ kernel'[a] = q /\ reg'[a] = r /\ pc'[a] = pc[a] /\ pending'[a] = pending[a]
           /\ batch'[a] = batch[a] /\ handler'[a] = handler[a] /\ stop'[a] = stop[a]
<1>1. /\ RegOK(a) /\ KernelOK(a) /\ BatchOK(a) /\ ThreadOK(a) /\ HandlerOK(a)
      /\ kernel[a] \in Seq(Event) /\ batch[a] \in Seq(Event) /\ env \in Environments
      /\ Shapes /\ Grown
  BY DEF WatcherOK, Watchers, AssetOK, Shapes, FilesOK, HostStep
<1>2. /\ pc' = pc /\ pending' = pending /\ batch' = batch /\ handler' = handler /\ todo' = todo
      /\ stop' = stop /\ phase' = phase
  BY DEF HostStep, Frame, thread, command
<1>3. kernel'[a] = q /\ reg'[a] = r
  BY <1>1 DEF Delivered, Shapes
<1>4. q \in Seq(Event) /\ QueueOK(q)
  BY DEF Delivered
<1>5. /\ DOMAIN r = DOMAIN reg[a] /\ r = [k \in DOMAIN r |-> r[k]]
      /\ \A k \in DOMAIN r : r[k].path = reg[a][k].path /\ r[k].file = reg[a][k].file
      /\ \A k \in DOMAIN r : r[k] \in Descriptor /\ (r[k].live => reg[a][k].live)
      /\ ~Linux => r = reg[a]
  <2>1. CASE Linux /\ kind = "delete"
    <3>1. Deafened(a, r, keys)
      BY <2>1 DEF Delivered
    <3>2. DOMAIN r = DOMAIN reg[a] /\ r = [k \in DOMAIN r |-> r[k]]
      BY <3>1 DEF Deafened
    <3>3. ASSUME NEW k \in DOMAIN r
          PROVE  /\ r[k].path = reg[a][k].path /\ r[k].file = reg[a][k].file
                 /\ r[k] \in Descriptor /\ (r[k].live => reg[a][k].live)
      <4>1. /\ r[k] \in Descriptor /\ r[k].path = reg[a][k].path /\ r[k].file = reg[a][k].file
            /\ r[k].live = (reg[a][k].live /\ k \notin keys)
        BY <3>1 DEF Deafened
      <4>2. QED
        BY <4>1
    <3>4. QED
      BY <2>1, <3>2, <3>3
  <2>2. CASE ~(Linux /\ kind = "delete")
    <3>1. r = reg[a]
      BY <2>2 DEF Delivered
    <3>2. \A k \in DOMAIN reg[a] : reg[a][k] \in Descriptor
      BY <1>1 DEF RegOK, EntryOK
    <3>3. QED
      BY <1>1, <3>1, <3>2 DEF RegOK
  <2>3. QED
    BY <2>1, <2>2
<1>6. RegOK(a)'
  <2>1. IsFiniteSet(DOMAIN reg'[a]) /\ DOMAIN reg'[a] \subseteq Nat /\ reg'[a] = [k \in DOMAIN reg'[a] |-> reg'[a][k]]
    <3>1. IsFiniteSet(DOMAIN reg[a]) /\ DOMAIN reg[a] \subseteq Nat
      BY <1>1 DEF RegOK
    <3>2. DOMAIN reg'[a] = DOMAIN reg[a] /\ reg'[a] = r /\ r = [k \in DOMAIN r |-> r[k]]
      BY <1>3, <1>5
    <3>3. QED
      BY <3>1, <3>2
  <2>2. ASSUME NEW k \in DOMAIN reg'[a] PROVE EntryOK(a, k)'
    <3>1. EntryOK(a, k) /\ r[k] \in Descriptor /\ r[k].path = reg[a][k].path /\ r[k].file = reg[a][k].file
      BY <1>1, <1>3, <1>5 DEF RegOK
    <3>2. reg[a][k].file \in 1..made
      BY <1>1, <3>1 DEF EntryOK, Descriptor, Grown
    <3>3. owner'[reg[a][k].file] = owner[reg[a][k].file] /\ reg[a][k].file <= made'
      BY <1>1, <3>2 DEF Grown
    <3>4. QED
      BY <1>1, <1>3, <3>1, <3>3, SameHost DEF EntryOK
  <2>3. (Linux \/ Single(a))'
    <3>1. CASE Linux
      BY <1>1, <3>1, SameHost
    <3>2. CASE ~Linux
      <4>1. reg'[a] = reg[a] /\ pc'[a] = pc[a] /\ Single(a)
        BY <1>1, <1>2, <1>3, <1>5, <3>2 DEF RegOK
      <4>2. Single(a)'
        BY <4>1 DEF Single
      <4>3. QED
        BY <4>2
    <3>3. QED
      BY <3>1, <3>2
  <2>4. Windows' => \A k \in DOMAIN reg'[a] : reg'[a][k].live
    BY <1>1, <1>3, <1>5, SameHost, HostIs DEF RegOK
  <2>5. MacOS' => \A k \in DOMAIN reg'[a] : reg'[a][k].path \in pending'[a] => ~reg'[a][k].live
    BY <1>1, <1>2, <1>3, <1>5, SameHost DEF RegOK
  <2>6. QED
    BY <2>1, <2>2, <2>3, <2>4, <2>5 DEF RegOK
<1>7. KernelOK(a)'
  <2>1. QueueOK(q)'
    BY <1>1, <1>4, QueueStays
  <2>2. ASSUME MacOS, NEW i \in 1..Len(q)
        PROVE  q[i].key \in DOMAIN r /\ r[q[i].key].live
    <3>1. r = reg[a]
      BY <1>1, <1>5, <2>2, HostIs
    <3>2. CASE q = kernel[a]
      BY <1>1, <2>2, <3>1, <3>2 DEF KernelOK
    <3>3. ASSUME NEW k \in DOMAIN reg[a], k \in Nat \ {0}, reg[a][k].live, q = Signal(kernel[a], kind, k)
          PROVE  q[i].key \in DOMAIN r /\ r[q[i].key].live
      <4>1. kind \in Kinds
        BY DEF HostStep
      <4>2. q[i].key = k \/ \E j \in 1..Len(kernel[a]) : q[i].key = kernel[a][j].key
        <5>1. PICK q0 : q0 = kernel[a]
          OBVIOUS
        <5>2. q0 \in Seq(Event) /\ q = Signal(q0, kind, k) /\ i \in 1..Len(q) /\ k \in Nat
          BY <1>1, <2>2, <3>3, <5>1
        <5>3. env \in Environments /\ MacOS
          BY <1>1, <2>2
        <5>4. q[i].key = k \/ \E j \in 1..Len(q0) : q[i].key = q0[j].key
          BY <4>1, <5>2, <5>3, SignalKeys
        <5>5. QED
          BY <5>1, <5>4
      <4>3. QED
        BY <1>1, <2>2, <3>1, <3>3, <4>2 DEF KernelOK
    <3>4. QED
      BY <3>2, <3>3 DEF Delivered
  <2>3. QueueOK(kernel[a])'
    BY <1>3, <2>1 DEF QueueOK, EventOK, Once
  <2>4. MacOS' => \A i \in 1..Len(kernel'[a]) :
                      kernel'[a][i].key \in DOMAIN reg'[a] /\ reg'[a][kernel'[a][i].key].live
    BY <1>1, <1>3, <2>2, SameHost
  <2>5. QED
    BY <2>3, <2>4 DEF KernelOK
<1>8. BatchOK(a)'
  <2>1. MacOS => reg'[a] = reg[a]
    BY <1>1, <1>3, <1>5, HostIs
  <2>2. QED
    BY <1>1, <1>2, <2>1, BatchStays
<1>9. HandlerOK(a)'
  <2>1. pc[a] = "attach" => reg'[a] = reg[a]
    BY <1>1, <1>3, <1>5, HostIs DEF HandlerOK, RespondingOK, AttachingOK, NoHandler
  <2>2. QED
    BY <1>1, <1>2, <1>3, <1>5, <2>1, HandlerStays
<1>10. ThreadOK(a)'
  <2>1. pc[a] \in Starts => kernel'[a] = <<>> 
    <3>1. SUFFICES ASSUME pc[a] \in Starts PROVE q = kernel[a]
      BY <1>1, <1>3 DEF ThreadOK
    <3>2. \A k \in DOMAIN reg[a] : ~reg[a][k].live
      BY <1>1, <3>1 DEF ThreadOK, Starts
    <3>3. QED
      BY <3>2 DEF Delivered
  <2>2. DOMAIN reg'[a] = DOMAIN reg[a] /\ \A k \in DOMAIN reg'[a] : reg'[a][k].live => reg[a][k].live
    BY <1>3, <1>5
  <2>3. QED
    BY <1>1, <1>2, <2>1, <2>2, SameHost DEF ThreadOK
<1>11. QED
  BY <1>2, <1>3, <1>6, <1>7, <1>8, <1>9, <1>10 DEF AssetOK

LEMMA HostKeepsWatchers ==
    ASSUME WatcherOK, NEW kind, NEW p, NEW n, HostStep(kind, p, n)
    PROVE  WatcherOK'
<1>1. PICK a \in Assets : a = env.assetOf[p]
  BY HostIs DEF HostStep, WatcherOK, FilesOK
<1>2. PICK keys, q, r : Delivered(kind, p, n, a, keys, q, r)
  BY <1>1, Delivers
<1>3. AssetOK(a)'
  BY <1>1, <1>2, DeliveryKeepsAsset
<1>4. /\ pc' = pc /\ pending' = pending /\ batch' = batch /\ handler' = handler /\ todo' = todo
      /\ stop' = stop /\ phase' = phase
  BY DEF HostStep, Frame, thread, command
<1>5. kernel' = [kernel EXCEPT ![a] = q] /\ reg' = [reg EXCEPT ![a] = r] /\ q \in Seq(Event)
  BY <1>2 DEF Delivered
<1>6. Shapes'
  <2>1. Shapes
    BY DEF WatcherOK, Watchers
  <2>2. reg' = [b \in Assets |-> reg'[b]] /\ kernel' \in [Assets -> Seq(Event)]
    BY <1>5, <2>1 DEF Shapes
  <2>3. QED
    BY <1>4, <2>1, <2>2 DEF Shapes
<1>7. \A b \in Assets : b # a => Untouched(b)
  BY <1>4, <1>5 DEF Untouched, WatcherOK, Watchers, Shapes
<1>8. Watchers'
  BY <1>3, <1>4, <1>6, <1>7, OneAsset DEF WatcherOK, HostStep
<1>9. HistoryOK'
  <2>1. kind \in Kinds /\ p \in Paths /\ notices' = notices /\ cut' = cut /\ claim' = claim /\ flight' = flight
    BY DEF HostStep, Frame
  <2>2. done' = [done EXCEPT ![p][kind] = @ + 1] /\ unseen' \subseteq unseen \cup {p} /\ gap' \subseteq gap \cup {p}
    BY <1>2 DEF Delivered
  <2>3. done' \in [Paths -> [Kinds -> Nat]]
    BY <2>1, <2>2 DEF WatcherOK, HistoryOK
  <2>4. QED
    BY <2>1, <2>2, <2>3 DEF WatcherOK, HistoryOK
<1>10. QED
  BY <1>8, <1>9 DEF WatcherOK, HostStep, Grown

-----------------------------------------------------------------------------
(* No blind spots without a cause: an operation on a file.                 *)

LEMMA HeededStays ==
    ASSUME Grown, NEW p \in Paths, NEW a, a = env.assetOf[p], reg'[a] = reg[a], at'[p] = at[p], Heeded(p)
    PROVE  Heeded(p)'
<1>1. Windows' = Windows /\ env'.assetOf[p] = a
  BY SameHost
<1>2. QED
  BY <1>1 DEF Heeded, Watching, Listening

\* The news of a queue is worth as much, with descriptors of the same decoys.
LEMMA ToldStays ==
    ASSUME Grown, NEW q, NEW a, NEW p,
           \A k \in DOMAIN reg[a] : k \in DOMAIN reg'[a] /\ reg'[a][k].path = reg[a][k].path,
           Told(q, a, p)
    PROVE  Told(q, a, p)'
BY SameHost DEF Told, Telling

LEMMA ToldKept ==
    ASSUME NEW q, NEW r, Kept(q, r), NEW a, NEW p, Told(q, a, p)
    PROVE  Told(r, a, p)
BY DEF Told, Kept, Telling

LEMMA CoveredStays ==
    ASSUME Grown, NEW p \in Paths, NEW a, a = env.assetOf[p],
           reg'[a] = reg[a], pending'[a] = pending[a], kernel'[a] = kernel[a], batch'[a] = batch[a],
           pc'[a] \in Runs /\ stop'[a] # "done" => pc[a] \in Runs /\ stop[a] # "done",
           at'[p] = at[p], p \in gap => p \in gap', Covered(p)
    PROVE  Covered(p)'
<1>1. /\ reg'[a] = reg[a] /\ pending'[a] = pending[a] /\ kernel'[a] = kernel[a] /\ batch'[a] = batch[a]
      /\ pc'[a] \in Runs /\ stop'[a] # "done" => pc[a] \in Runs /\ stop[a] # "done"
  OBVIOUS
<1>2. env'.assetOf[p] = a
  BY SameHost
<1>3. PICK q1, q2 : q1 = kernel[a] /\ q2 = batch[a]
  OBVIOUS
<1>4. Told(q1, a, p) => Told(q1, a, p)'
  BY <1>1, ToldStays
<1>5. Told(q2, a, p) => Told(q2, a, p)'
  BY <1>1, ToldStays
<1>6. Told(q1, a, p)' => Told(kernel[a], a, p)'
  BY <1>1, <1>3 DEF Told
<1>7. Told(q2, a, p)' => Told(batch[a], a, p)'
  BY <1>1, <1>3 DEF Told
<1>8. Heeded(p) => Heeded(p)'
  BY <1>1, HeededStays
<1>9. QED
  BY <1>1, <1>2, <1>3, <1>4, <1>5, <1>6, <1>7, <1>8 DEF Covered

\* A decoy whose file goes away: the watcher will be told, or knows the cause.
LEMMA LossIsTold ==
    ASSUME WatcherOK, NEW kind \in {"delete", "move"}, NEW p, NEW a \in Assets, NEW n, NEW keys, NEW q, NEW r,
           Delivered(kind, p, n, a, keys, q, r), ~Windows, kernel[a] \in Seq(Event),
           NEW k \in Listening(a, p, n)
    PROVE  \/ p \in gap'
           \/ \E i \in 1..Len(q) : q[i].key = k /\ k \in DOMAIN r /\ r[k].path = p /\ Telling(q[i].mask)
<1>1. Heard(kind)
  BY DEF Heard, DecoyMask, NoteMask, ChangeMask, Kinds
<1>2. keys = {k} /\ k \in DOMAIN reg[a] /\ k \in Nat /\ reg[a][k].path = p /\ q = Signal(kernel[a], kind, k)
  BY <1>1 DEF Delivered
<1>3. k \in DOMAIN r /\ r[k].path = p
  BY <1>2 DEF Delivered, Deafened
<1>4. env \in Environments /\ kind \in Kinds
  BY DEF WatcherOK, FilesOK, Kinds
<1>5. Learned(q, kind, k)
  BY <1>2, <1>4, SignalKept
<1>6. CASE MacOS
  <2>1. PICK i \in 1..Len(q) : q[i].key = k /\ kind \in q[i].mask
    BY <1>5, <1>6 DEF Learned
  <2>2. Telling(q[i].mask)
    BY <1>4, <1>6, <2>1, HostIs DEF Telling
  <2>3. QED
    BY <1>3, <2>1, <2>2
<1>7. CASE Linux /\ kind = "move"
  BY <1>2, <1>7 DEF Delivered
<1>8. CASE Linux /\ kind = "delete"
  <2>1. q # <<>> /\ q[Len(q)] \in {News(k, "ignored"), Overflow} /\ q \in Seq(Event)
    BY <1>5, <1>8 DEF Learned, Delivered
  <2>2. Len(q) \in 1..Len(q) /\ Last(q) = q[Len(q)]
    BY <2>1 DEF Last
  <2>3. CASE q[Len(q)] = Overflow
    BY <1>2, <1>8, <2>1, <2>2, <2>3 DEF Delivered
  <2>4. CASE q[Len(q)] = News(k, "ignored")
    <3>1. q[Len(q)].key = k /\ q[Len(q)].mask = {"ignored"}
      BY <1>2, <2>4, NewsIs
    <3>2. Telling(q[Len(q)].mask)
      BY <1>8, <3>1 DEF Telling
    <3>3. QED
      BY <1>3, <2>2, <3>1, <3>2
  <2>5. QED
    BY <2>1, <2>3, <2>4
<1>9. QED
  BY <1>4, <1>6, <1>7, <1>8, HostIs

LEMMA HostKeepsCovered ==
    ASSUME WatcherOK, NEW kind, NEW p, NEW n, HostStep(kind, p, n), NEW s \in Paths, Covered(s)
    PROVE  Covered(s)'
<1>1. PICK a \in Assets : a = env.assetOf[p]
  BY HostIs DEF HostStep, WatcherOK, FilesOK
<1>2. PICK keys, q, r : Delivered(kind, p, n, a, keys, q, r)
  BY <1>1, Delivers
<1>3. /\ pc' = pc /\ pending' = pending /\ batch' = batch /\ handler' = handler /\ todo' = todo
      /\ stop' = stop /\ phase' = phase /\ env' = env /\ Grown /\ p \in Paths /\ kind \in Kinds
  BY DEF HostStep, Frame, thread, command
<1>4. kernel' = [kernel EXCEPT ![a] = q] /\ reg' = [reg EXCEPT ![a] = r] /\ gap \subseteq gap'
  BY <1>2 DEF Delivered
<1>5. /\ Shapes /\ env \in Environments /\ kernel[a] \in Seq(Event) /\ RegOK(a) /\ FilesOK
  BY DEF WatcherOK, Watchers, FilesOK, Shapes, AssetOK
<1>6. s # p => at'[s] = at[s]
  BY DEF HostStep, Moves
<1>7. CASE env.assetOf[s] # a
  <2>1. PICK b \in Assets : b = env.assetOf[s]
    BY <1>5, HostIs
  <2>2. Untouched(b)
    BY <1>3, <1>4, <1>5, <1>7, <2>1 DEF Untouched, Shapes
  <2>3. QED
    BY <1>1, <1>3, <1>4, <1>6, <1>7, <2>1, <2>2, CoveredStays DEF Untouched
<1>8. CASE env.assetOf[s] = a
  <2>1. kernel'[a] = q /\ reg'[a] = r
    BY <1>4, <1>5 DEF Shapes
  <2>2. /\ \A k \in DOMAIN reg[a] : k \in DOMAIN r /\ r[k].path = reg[a][k].path /\ r[k].file = reg[a][k].file
        /\ ~(Linux /\ kind = "delete") => r = reg[a]
        /\ \A k \in DOMAIN reg[a] : reg[a][k].live /\ k \notin keys => r[k].live
    <3>1. CASE Linux /\ kind = "delete"
      <4>1. Deafened(a, r, keys)
        BY <1>2, <3>1 DEF Delivered
      <4>2. DOMAIN r = DOMAIN reg[a]
        BY <4>1 DEF Deafened
      <4>3. ASSUME NEW k \in DOMAIN reg[a]
            PROVE  /\ r[k].path = reg[a][k].path /\ r[k].file = reg[a][k].file
                   /\ reg[a][k].live /\ k \notin keys => r[k].live
        BY <4>1, <4>2 DEF Deafened
      <4>4. QED
        BY <3>1, <4>2, <4>3
    <3>2. CASE ~(Linux /\ kind = "delete")
      BY <1>2, <3>2 DEF Delivered
    <3>3. QED
      BY <3>1, <3>2
  <2>3. ASSUME Told(kernel[a], a, s)
        PROVE  Told(kernel[a], a, s)'
    <3>1. ~Windows
      BY <2>3 DEF Told
    <3>2. Told(q, a, s)
      <4>1. CASE q = kernel[a]
        BY <2>3, <4>1
      <4>2. ASSUME NEW k \in Nat, q = Signal(kernel[a], kind, k)
            PROVE  Told(q, a, s)
        <5>1. Kept(kernel[a], q)
          BY <1>3, <1>5, <3>1, <4>2, SignalKept
        <5>2. QED
          BY <2>3, <5>1, ToldKept
      <4>3. QED
        BY <1>2, <4>1, <4>2 DEF Delivered
    <3>3. Told(q, a, s)'
      BY <1>3, <2>1, <2>2, <3>2, ToldStays
    <3>4. QED
      BY <2>1, <3>3 DEF Told
  <2>4. ASSUME Told(batch[a], a, s)
        PROVE  Told(batch[a], a, s)'
    <3>1. PICK q2 : q2 = batch[a]
      OBVIOUS
    <3>2. Told(q2, a, s)'
      BY <1>3, <2>1, <2>2, <2>4, <3>1, ToldStays
    <3>3. QED
      BY <1>3, <3>1, <3>2 DEF Told
  <2>5. ASSUME Heeded(s)
        PROVE  Heeded(s)' \/ s \in gap' \/ Told(kernel[a], a, s)'
    <3>1. CASE Windows
      <4>1. r = reg[a]
        BY <1>5, <2>2, <3>1, HostIs
      <4>2. QED
        BY <1>3, <1>8, <2>1, <2>5, <3>1, <4>1, SameHost DEF Heeded, Watching, Listening
    <3>2. CASE ~Windows
      <4>1. at[s] # None
        BY <2>5, <3>2 DEF Heeded
      <4>2. PICK k : k \in Listening(a, s, at[s])
        BY <1>8, <2>5 DEF Heeded, Watching
      <4>3. k \in DOMAIN reg[a] /\ reg[a][k].live /\ reg[a][k].file = at[s]
        BY <3>2, <4>2 DEF Listening
      <4>4. at[s] \in 1..made /\ owner[at[s]] = s
        BY <1>5, <4>1, DecoyFile
      <4>5. reg[a][k].path = s
        BY <1>5, <4>3, <4>4 DEF RegOK, EntryOK
      <4>6. ASSUME at'[s] = at[s], r[k].live
            PROVE  Heeded(s)'
        <5>1. k \in Listening(a, s, at[s])'
          BY <1>3, <2>1, <2>2, <3>2, <4>3, <4>6, SameHost DEF Listening
        <5>2. QED
          BY <1>3, <1>8, <4>1, <4>6, <5>1 DEF Heeded, Watching
      <4>7. CASE s # p
        <5>1. k \notin keys
          BY <1>2, <4>5, <4>7 DEF Delivered
        <5>2. QED
          BY <1>6, <2>2, <4>3, <4>6, <4>7, <5>1
      <4>8. CASE s = p /\ kind \in {"read", "attrib", "write"} /\ at'[s] = at[s]
        BY <2>2, <4>3, <4>6, <4>8
      <4>9. CASE s = p /\ kind \in {"delete", "move"} /\ n = at[p]
        <5>1. \/ p \in gap'
              \/ \E i \in 1..Len(q) : q[i].key = k /\ k \in DOMAIN r /\ r[k].path = p /\ Telling(q[i].mask)
          BY <1>2, <1>5, <3>2, <4>2, <4>9, LossIsTold
        <5>2. ASSUME NEW i \in 1..Len(q), q[i].key = k, k \in DOMAIN r, r[k].path = p, Telling(q[i].mask)
              PROVE  Told(kernel[a], a, s)'
          <6>1. Telling(q[i].mask)'
            BY <1>3, <5>2, SameHost DEF Telling
          <6>2. QED
            BY <1>3, <2>1, <3>2, <4>9, <5>2, <6>1, SameHost DEF Told
        <5>3. QED
          BY <4>9, <5>1, <5>2
      <4>10. QED
        BY <4>1, <4>7, <4>8, <4>9 DEF HostStep, Moves
    <3>3. QED
      BY <3>1, <3>2
  <2>6. env'.assetOf[s] = a
    BY <1>3, <1>8
  <2>7. QED
    BY <1>3, <1>4, <1>8, <2>3, <2>4, <2>5, <2>6 DEF Covered
<1>9. QED
  BY <1>7, <1>8

-----------------------------------------------------------------------------
(* What a decoy was notified of was earned: an operation on a file.        *)

LEMMA DueIs ==
    ASSUME HistoryOK, NEW p \in Paths, NEW class \in Classes
    PROVE  Due(p, class) \in Nat /\ Reads(p) \in Nat /\ Changes(p) \in Nat
BY DEF HistoryOK, Due, Reads, Changes, Kinds

LEMMA KeysAre ==
    ASSUME NEW p \in Paths, WatcherOK
    PROVE  0 \notin KeysOf(p)
<1>1. PICK a \in Assets : a = env.assetOf[p]
  BY HostIs DEF WatcherOK, FilesOK
<1>2. \A k \in DOMAIN reg[a] : k # 0
  <2>1. ASSUME NEW k \in DOMAIN reg[a] PROVE k # 0
    <3>1. EntryOK(a, k)
      BY DEF WatcherOK, Watchers, AssetOK, RegOK
    <3>2. QED
      BY <3>1 DEF EntryOK
  <2>2. QED
    BY <2>1
<1>3. QED
  BY <1>1, <1>2 DEF KeysOf

\* What is left to notify of is a sequence of events, of files that are there.
LEMMA LeftIs ==
    ASSUME WatcherOK, NEW a \in Assets
    PROVE  /\ Left(a) \in Seq(Event)
           /\ Linux => \A i \in 1..Len(Left(a)) : Left(a)[i].key <= made
<1>1. BatchOK(a) /\ HandlerOK(a) /\ batch[a] \in Seq(Event)
  BY DEF WatcherOK, Watchers, AssetOK, Shapes
<1>2. PICK b : b = batch[a]
  OBVIOUS
<1>3. b \in Seq(Event) /\ \A i \in 1..Len(b) : EventOK(b[i])
  BY <1>1, <1>2 DEF BatchOK
<1>4. CASE handler[a].step = "none"
  BY <1>2, <1>3, <1>4 DEF Left, EventOK
<1>5. CASE handler[a].step # "none"
  <2>1. b # <<>>
    BY <1>1, <1>2, <1>5 DEF HandlerOK, RespondingOK, AttachingOK, NoHandler, BatchOK
  <2>2. Tail(b) \in Seq(Event) /\ Len(Tail(b)) = Len(b) - 1 /\ \A i \in 1..Len(b) - 1 : Tail(b)[i] = b[i + 1]
    BY <1>3, <2>1
  <2>3. Left(a) = Tail(b)
    BY <1>2, <1>5 DEF Left
  <2>4. \A i \in 1..Len(b) - 1 : i + 1 \in 1..Len(b)
    BY <1>3
  <2>5. QED
    BY <1>3, <2>2, <2>3, <2>4 DEF EventOK
<1>6. QED
  BY <1>4, <1>5

LeftsOK == \A a \in Assets : Left(a) \in Seq(Event)

LEMMA LeftsAre ==
    WatcherOK => LeftsOK
BY LeftIs DEF LeftsOK

\* Events of no other keys: no more of them count.
LEMMA TallyOfKeys ==
    ASSUME NEW q \in Seq(Event), NEW keys, NEW more, NEW masks,
           \A i \in 1..Len(q) : q[i].key \in more => q[i].key \in keys
    PROVE  Tally(q, more, masks) <= Tally(q, keys, masks)
<1>1. \A i \in 1..Len(q) : Counted(q[i], more, masks) => Counted(q[i], keys, masks)
  BY DEF Counted
<1>2. Len(q) <= Len(q)
  OBVIOUS
<1>3. QED
  BY <1>1, <1>2, TallyFewer

\* inotify's keys are the files of a decoy; elsewhere they are its descriptors.
LEMMA KeysStay ==
    ASSUME Grown, NEW p \in Paths, NEW a, a = env.assetOf[p], NEW q \in Seq(Event),
           Linux => \A i \in 1..Len(q) : q[i].key <= made,
           ~Linux => \A i \in 1..Len(q) : q[i].key \in DOMAIN reg'[a] =>
                         q[i].key \in DOMAIN reg[a] /\ reg'[a][q[i].key].path = reg[a][q[i].key].path
    PROVE  \A i \in 1..Len(q) : q[i].key \in KeysOf(p)' => q[i].key \in KeysOf(p)
<1> SUFFICES ASSUME NEW i \in 1..Len(q), q[i].key \in KeysOf(p)' PROVE q[i].key \in KeysOf(p)
  OBVIOUS
<1>1. Linux' = Linux /\ env'.assetOf[p] = a /\ made \in Nat /\ made' \in Nat
  BY SameHost DEF Grown
<1>2. CASE Linux
  <2>1. q[i].key \in 1..made' /\ owner'[q[i].key] = p /\ q[i].key <= made
    BY <1>1, <1>2 DEF KeysOf
  <2>2. q[i].key \in 1..made
    BY <1>1, <2>1
  <2>3. owner'[q[i].key] = owner[q[i].key]
    BY <2>2 DEF Grown
  <2>4. QED
    BY <1>2, <2>1, <2>2, <2>3 DEF KeysOf
<1>3. CASE ~Linux
  BY <1>1, <1>3 DEF KeysOf
<1>4. QED
  BY <1>2, <1>3

\* The books balance when no more is noted, in hand and waiting than before.
Account(p, class, q, l, keys) ==
    notices[p][class] + InHand(p, class) + Tally(q, keys, MasksOf(class)) + Tally(l, keys, MasksOf(class))

LEMMA AccountIs ==
    ASSUME WatcherOK, NEW p \in Paths, NEW a, a = env.assetOf[p], NEW class \in Classes,
           NEW q, NEW l, q = kernel[a], l = Left(a)
    PROVE  /\ Account(p, class, q, l, KeysOf(p)) = notices[p][class] + Owed(p, class)
           /\ Account(p, class, q, l, KeysOf(p)) \in Nat
<1>1. a \in Assets
  BY HostIs DEF WatcherOK, FilesOK
<1>2. q \in Seq(Event) /\ l \in Seq(Event)
  BY <1>1, LeftIs DEF WatcherOK, Watchers, Shapes
<1>3. Tally(q, KeysOf(p), MasksOf(class)) \in Nat /\ Tally(l, KeysOf(p), MasksOf(class)) \in Nat
  BY <1>2, PlacesAre
<1>4. notices[p][class] \in Nat
  BY DEF WatcherOK, HistoryOK
<1>5. InHand(p, class) \in Nat
  BY DEF InHand
<1>6. QED
  BY <1>3, <1>4, <1>5 DEF Account, Owed

LEMMA SameMasks ==
    ASSUME Grown, NEW class
    PROVE  MasksOf(class)' = MasksOf(class)
BY SameHost DEF MasksOf

LEMMA AccountNext ==
    ASSUME Grown, WatcherOK', NEW p \in Paths, NEW a, a = env.assetOf[p], NEW class \in Classes,
           NEW q, NEW l, q = kernel'[a], l = Left(a)'
    PROVE  notices'[p][class] + Owed(p, class)' =
               notices'[p][class] + InHand(p, class)' + Tally(q, KeysOf(p)', MasksOf(class))
                   + Tally(l, KeysOf(p)', MasksOf(class))
<1>1. env'.assetOf[p] = a /\ MasksOf(class)' = MasksOf(class)
  BY SameHost, SameMasks
<1>2. a \in Assets
  <2>1. env' \in Environments
    BY DEF WatcherOK, FilesOK
  <2>2. QED
    BY <1>1, <2>1, WatchAssumption
<1>3. q \in Seq(Event) /\ l \in Seq(Event)
  <2>1. LeftsOK'
    BY LeftsAre, PTL
  <2>2. (kernel \in [Assets -> Seq(Event)])'
    BY DEF WatcherOK, Watchers, Shapes
  <2>3. QED
    BY <1>2, <2>1, <2>2 DEF LeftsOK
<1>4. Tally(q, KeysOf(p)', MasksOf(class)) \in Nat /\ Tally(l, KeysOf(p)', MasksOf(class)) \in Nat
  BY <1>3, PlacesAre
<1>5. notices'[p][class] \in Nat
  BY DEF WatcherOK, HistoryOK
<1>6. InHand(p, class)' \in Nat
  BY DEF InHand
<1>7. Owed(p, class)' = Tally(q, KeysOf(p)', MasksOf(class)) + Tally(l, KeysOf(p)', MasksOf(class)) + InHand(p, class)'
  BY <1>1 DEF Owed, Tally
<1>8. QED
  BY <1>4, <1>5, <1>6, <1>7

LEMMA EarnedNext ==
    ASSUME Grown, WatcherOK, WatcherOK', NEW p \in Paths, NEW a, a = env.assetOf[p], Earned(p),
           NEW q, NEW l, q = kernel[a], l = Left(a), NEW r, NEW m, r = kernel'[a], m = Left(a)',
           \A class \in Classes :
               notices'[p][class] + InHand(p, class)' + Tally(r, KeysOf(p)', MasksOf(class))
                       + Tally(m, KeysOf(p)', MasksOf(class)) + Due(p, class)
                   <= Account(p, class, q, l, KeysOf(p)) + Due(p, class)'
    PROVE  Earned(p)'
<1> SUFFICES ASSUME NEW class \in Classes
             PROVE  notices'[p][class] + Owed(p, class)' <= Due(p, class)'
  BY DEF Earned
<1>1. Account(p, class, q, l, KeysOf(p)) = notices[p][class] + Owed(p, class)
      /\ Account(p, class, q, l, KeysOf(p)) \in Nat
  BY AccountIs
<1>2. notices[p][class] + Owed(p, class) <= Due(p, class)
  BY DEF Earned
<1>3. notices'[p][class] + Owed(p, class)' =
          notices'[p][class] + InHand(p, class)' + Tally(r, KeysOf(p)', MasksOf(class))
              + Tally(m, KeysOf(p)', MasksOf(class))
  BY AccountNext
<1>4. Due(p, class) \in Nat
  BY DueIs DEF WatcherOK
<1>5. Due(p, class)' \in Nat
  BY DEF WatcherOK, HistoryOK, Due, Reads, Changes, Kinds
<1>6. notices'[p][class] + InHand(p, class)' + Tally(r, KeysOf(p)', MasksOf(class))
          + Tally(m, KeysOf(p)', MasksOf(class)) \in Nat
  <2>1. r \in Seq(Event) /\ m \in Seq(Event)
    <3>1. LeftsOK'
      BY LeftsAre, PTL
    <3>2. (kernel \in [Assets -> Seq(Event)])'
      BY DEF WatcherOK, Watchers, Shapes
    <3>3. a \in Assets
      BY HostIs DEF WatcherOK, FilesOK
    <3>4. QED
      BY <3>1, <3>2, <3>3 DEF LeftsOK
  <2>2. Tally(r, KeysOf(p)', MasksOf(class)) \in Nat /\ Tally(m, KeysOf(p)', MasksOf(class)) \in Nat
    BY <2>1, PlacesAre
  <2>3. notices'[p][class] \in Nat
    BY DEF WatcherOK, HistoryOK
  <2>4. InHand(p, class)' \in Nat
    BY DEF InHand
  <2>5. QED
    BY <2>2, <2>3, <2>4
<1>7. QED
  BY <1>1, <1>2, <1>3, <1>4, <1>5, <1>6

LEMMA DueStays ==
    ASSUME Grown, NEW p, done'[p] = done[p], NEW class
    PROVE  Due(p, class)' = Due(p, class)
BY SameHost DEF Due, Reads, Changes

LEMMA TallyStays ==
    ASSUME Grown, NEW p \in Paths, NEW a, a = env.assetOf[p], NEW q \in Seq(Event), NEW masks,
           Linux => \A i \in 1..Len(q) : q[i].key <= made,
           ~Linux => \A i \in 1..Len(q) : q[i].key \in DOMAIN reg'[a] =>
                         q[i].key \in DOMAIN reg[a] /\ reg'[a][q[i].key].path = reg[a][q[i].key].path
    PROVE  /\ Tally(q, KeysOf(p)', masks) <= Tally(q, KeysOf(p), masks)
           /\ Tally(q, KeysOf(p)', masks) \in Nat /\ Tally(q, KeysOf(p), masks) \in Nat
<1>1. \A i \in 1..Len(q) : q[i].key \in KeysOf(p)' => q[i].key \in KeysOf(p)
  BY KeysStay
<1>2. QED
  BY <1>1, TallyOfKeys, PlacesAre

\* A step that is no operation: no more may be noted, in hand or waiting.
LEMMA EarnedFewer ==
    ASSUME Grown, WatcherOK, WatcherOK', NEW p \in Paths, NEW a, a = env.assetOf[p], Earned(p),
           NEW q, NEW l, q = kernel[a], l = Left(a), NEW r, NEW m, r = kernel'[a], m = Left(a)',
           done'[p] = done[p],
           \A class \in Classes :
               notices'[p][class] + InHand(p, class)' + Tally(r, KeysOf(p)', MasksOf(class))
                       + Tally(m, KeysOf(p)', MasksOf(class))
                   <= notices[p][class] + InHand(p, class) + Tally(q, KeysOf(p), MasksOf(class))
                          + Tally(l, KeysOf(p), MasksOf(class))
    PROVE  Earned(p)'
<1> SUFFICES ASSUME NEW class \in Classes
             PROVE  notices'[p][class] + Owed(p, class)' <= Due(p, class)'
  BY DEF Earned
<1>1. Account(p, class, q, l, KeysOf(p)) = notices[p][class] + Owed(p, class)
  BY AccountIs
<1>2. notices[p][class] + Owed(p, class) <= Due(p, class)
  BY DEF Earned
<1>3. notices'[p][class] + Owed(p, class)' =
          notices'[p][class] + InHand(p, class)' + Tally(r, KeysOf(p)', MasksOf(class))
              + Tally(m, KeysOf(p)', MasksOf(class))
  BY AccountNext
<1>4. Due(p, class)' = Due(p, class) /\ Due(p, class) \in Nat
  BY DueStays, DueIs DEF WatcherOK
<1>5. /\ q \in Seq(Event) /\ l \in Seq(Event) /\ r \in Seq(Event) /\ m \in Seq(Event)
  <2>1. LeftsOK'
    BY LeftsAre, PTL
  <2>2. (kernel \in [Assets -> Seq(Event)])'
    BY DEF WatcherOK, Watchers, Shapes
  <2>3. kernel \in [Assets -> Seq(Event)]
    BY DEF WatcherOK, Watchers, Shapes
  <2>4. a \in Assets
    BY HostIs DEF WatcherOK, FilesOK
  <2>5. QED
    BY <2>1, <2>2, <2>3, <2>4, LeftIs DEF LeftsOK
<1>6. /\ Tally(q, KeysOf(p), MasksOf(class)) \in Nat /\ Tally(l, KeysOf(p), MasksOf(class)) \in Nat
      /\ Tally(r, KeysOf(p)', MasksOf(class)) \in Nat /\ Tally(m, KeysOf(p)', MasksOf(class)) \in Nat
  BY <1>5, PlacesAre
<1>7. InHand(p, class) \in Nat /\ InHand(p, class)' \in Nat
  BY DEF InHand
<1>8. notices[p][class] \in Nat /\ notices'[p][class] \in Nat
  BY DEF WatcherOK, HistoryOK
<1>9. QED
  BY <1>1, <1>2, <1>3, <1>4, <1>6, <1>7, <1>8 DEF Account

\* A queue's descriptors are of the decoys they were of.
KeysHeld(q, a) ==
    ~Linux => \A i \in 1..Len(q) : q[i].key \in DOMAIN reg'[a] =>
                  q[i].key \in DOMAIN reg[a] /\ reg'[a][q[i].key].path = reg[a][q[i].key].path

\* Nothing is noted, taken or added; descriptors may come and go.
LEMMA EarnedKept ==
    ASSUME Grown, WatcherOK, WatcherOK', NEW p \in Paths, NEW a, a = env.assetOf[p], Earned(p),
           kernel'[a] = kernel[a], Left(a)' = Left(a), done'[p] = done[p], notices'[p] = notices[p],
           \A class \in Classes : InHand(p, class)' = InHand(p, class),
           KeysHeld(kernel[a], a), KeysHeld(Left(a), a)
    PROVE  Earned(p)'
<1>1. a \in Assets
  BY HostIs DEF WatcherOK, FilesOK
<1>2. PICK q, l : q = kernel[a] /\ l = Left(a)
  OBVIOUS
<1>3. KeysHeld(q, a) /\ KeysHeld(l, a)
  BY <1>2
<1>4. q \in Seq(Event) /\ l \in Seq(Event) /\ (Linux => \A i \in 1..Len(q) : q[i].key <= made)
      /\ (Linux => \A i \in 1..Len(l) : l[i].key <= made)
  <2>1. KernelOK(a)
    BY <1>1 DEF WatcherOK, Watchers, AssetOK
  <2>2. Linux => \A i \in 1..Len(q) : q[i].key <= made
    BY <1>2, <2>1 DEF KernelOK, QueueOK, EventOK
  <2>3. q \in Seq(Event)
    <3>1. kernel \in [Assets -> Seq(Event)]
      BY DEF WatcherOK, Watchers, Shapes
    <3>2. kernel[a] \in Seq(Event)
      BY <1>1, <3>1
    <3>3. QED
      BY <1>2, <3>2
  <2>4. /\ Left(a) \in Seq(Event)
        /\ Linux => \A i \in 1..Len(Left(a)) : Left(a)[i].key <= made
    BY <1>1, LeftIs
  <2>5. QED
    BY <1>2, <2>2, <2>3, <2>4
<1>5. PICK r, m : r = kernel'[a] /\ m = Left(a)'
  OBVIOUS
<1>6. ASSUME NEW class \in Classes
      PROVE  notices'[p][class] + InHand(p, class)' + Tally(r, KeysOf(p)', MasksOf(class))
                     + Tally(m, KeysOf(p)', MasksOf(class))
                 <= notices[p][class] + InHand(p, class) + Tally(q, KeysOf(p), MasksOf(class))
                        + Tally(l, KeysOf(p), MasksOf(class))
  <2>1. /\ Tally(q, KeysOf(p)', MasksOf(class)) <= Tally(q, KeysOf(p), MasksOf(class))
        /\ Tally(q, KeysOf(p)', MasksOf(class)) \in Nat /\ Tally(q, KeysOf(p), MasksOf(class)) \in Nat
    BY <1>3, <1>4, TallyStays DEF KeysHeld
  <2>2. /\ Tally(l, KeysOf(p)', MasksOf(class)) <= Tally(l, KeysOf(p), MasksOf(class))
        /\ Tally(l, KeysOf(p)', MasksOf(class)) \in Nat /\ Tally(l, KeysOf(p), MasksOf(class)) \in Nat
    BY <1>3, <1>4, TallyStays DEF KeysHeld
  <2>3. InHand(p, class)' = InHand(p, class) /\ InHand(p, class) \in Nat
    BY DEF InHand
  <2>4. notices'[p][class] = notices[p][class] /\ notices[p][class] \in Nat
    BY DEF WatcherOK, HistoryOK
  <2>5. r = q /\ m = l
    BY <1>2, <1>5
  <2>6. QED
    BY <2>1, <2>2, <2>3, <2>4, <2>5
<1>7. QED
  BY <1>2, <1>5, <1>6, EarnedFewer

LEMMA EarnedStays ==
    ASSUME Grown, WatcherOK, WatcherOK', NEW p \in Paths, NEW a, a = env.assetOf[p], Earned(p),
           kernel'[a] = kernel[a], reg'[a] = reg[a], batch'[a] = batch[a], handler'[a] = handler[a],
           notices'[p] = notices[p], done'[p] = done[p]
    PROVE  Earned(p)'
<1>1. Left(a)' = Left(a)
  BY DEF Left
<1>2. env'.assetOf[p] = a
  BY SameHost
<1>3. \A class \in Classes : InHand(p, class)' = InHand(p, class)
  BY <1>2 DEF InHand
<1>4. KeysHeld(kernel[a], a) /\ KeysHeld(Left(a), a)
  BY DEF KeysHeld
<1>5. QED
  BY <1>1, <1>3, <1>4, EarnedKept

\* An operation is one more that can be notified of, in the class it is heard as.
LEMMA DueGrows ==
    ASSUME HistoryOK, env \in Environments, env' = env, NEW p \in Paths, NEW kind \in Kinds, NEW s \in Paths,
           done' = [done EXCEPT ![p][kind] = @ + 1], NEW class \in Classes
    PROVE  /\ Due(s, class)' \in Nat /\ Due(s, class) <= Due(s, class)'
           /\ s = p /\ Heard(kind) /\ {kind} \in MasksOf(class) => Due(s, class) + 1 <= Due(s, class)'
<1>1. PICK f, g : f = done[s] /\ g = done'[s]
  OBVIOUS
<1>2. f \in [Kinds -> Nat]
  BY <1>1 DEF HistoryOK
<1>3. \A x \in Kinds : g[x] = IF s = p /\ x = kind THEN f[x] + 1 ELSE f[x]
  <2>1. g = IF s = p THEN [f EXCEPT ![kind] = @ + 1] ELSE f
    BY <1>1 DEF HistoryOK
  <2>2. QED
    BY <1>2, <2>1
<1>4. /\ f["read"] \in Nat /\ f["attrib"] \in Nat /\ f["write"] \in Nat /\ f["delete"] \in Nat
      /\ f["move"] \in Nat /\ f["create"] \in Nat
  BY <1>2 DEF Kinds
<1>5. Windows' = Windows
  BY DEF Windows
<1>6. /\ Reads(s) = f["read"] + f["attrib"] /\ Reads(s)' = g["read"] + g["attrib"]
      /\ Changes(s) = f["write"] + f["delete"] + f["move"] + f["create"]
      /\ Changes(s)' = g["write"] + g["delete"] + g["move"] + g["create"]
  BY <1>1 DEF Reads, Changes
<1>7. /\ Reads(s) \in Nat /\ Reads(s)' \in Nat /\ Changes(s) \in Nat /\ Changes(s)' \in Nat
      /\ Reads(s)' = Reads(s) + (IF s = p /\ kind \in {"read", "attrib"} THEN 1 ELSE 0)
      /\ Changes(s)' = Changes(s) + (IF s = p /\ kind \in Kinds \ {"read", "attrib"} THEN 1 ELSE 0)
  <2>1. CASE kind = "read"
    BY <1>3, <1>4, <1>6, <2>1 DEF Kinds
  <2>2. CASE kind = "attrib"
    BY <1>3, <1>4, <1>6, <2>2 DEF Kinds
  <2>3. CASE kind = "write"
    BY <1>3, <1>4, <1>6, <2>3 DEF Kinds
  <2>4. CASE kind = "delete"
    BY <1>3, <1>4, <1>6, <2>4 DEF Kinds
  <2>5. CASE kind = "move"
    BY <1>3, <1>4, <1>6, <2>5 DEF Kinds
  <2>6. CASE kind = "create"
    BY <1>3, <1>4, <1>6, <2>6 DEF Kinds
  <2>7. QED
    BY <2>1, <2>2, <2>3, <2>4, <2>5, <2>6 DEF Kinds
<1>8. Heard(kind) /\ {kind} \in MasksOf(class) =>
          \/ class = "read" /\ kind \in {"read", "attrib"}
          \/ class = "change" /\ kind \notin {"read", "attrib"}
          \/ class = "change" /\ Windows
  <2>1. SUFFICES ASSUME Heard(kind), Classify({kind}) = class
                 PROVE  \/ class = "read" /\ kind \in {"read", "attrib"}
                        \/ class = "change" /\ kind \notin {"read", "attrib"}
                        \/ class = "change" /\ Windows
    BY DEF MasksOf
  <2>2. CASE Linux
    <3>1. kind \in DecoyMask /\ class = ClassifyMask({kind})
      BY <2>1, <2>2 DEF Heard, Classify
    <3>2. QED
      BY <3>1 DEF DecoyMask, ClassifyMask, Kinds
  <2>3. CASE MacOS
    <3>1. class = ClassifyFflags({kind}) /\ kind # "read"
      BY <2>1, <2>3, HostIs DEF Heard, Classify, NoteMask
    <3>2. QED
      BY <3>1 DEF ClassifyFflags
  <2>4. CASE Windows
    BY <2>1, <2>4, HostIs DEF Classify, ClassifyAction
  <2>5. QED
    BY <2>2, <2>3, <2>4, HostIs
<1>9. /\ Due(s, class) = IF class = "read" THEN Reads(s) ELSE Changes(s) + (IF Windows THEN Reads(s) ELSE 0)
      /\ Due(s, class)' = IF class = "read" THEN Reads(s)' ELSE Changes(s)' + (IF Windows THEN Reads(s)' ELSE 0)
  BY <1>5 DEF Due
<1>10. PICK x, y, z, w : x = Reads(s) /\ y = Changes(s) /\ z = Reads(s)' /\ w = Changes(s)'
  OBVIOUS
<1>11. PICK d, e : d = Due(s, class) /\ e = Due(s, class)'
  OBVIOUS
<1>12. /\ x \in Nat /\ y \in Nat /\ z \in Nat /\ w \in Nat
       /\ z = x + (IF s = p /\ kind \in {"read", "attrib"} THEN 1 ELSE 0)
       /\ w = y + (IF s = p /\ kind \notin {"read", "attrib"} THEN 1 ELSE 0)
       /\ d = IF class = "read" THEN x ELSE y + (IF Windows THEN x ELSE 0)
       /\ e = IF class = "read" THEN z ELSE w + (IF Windows THEN z ELSE 0)
  BY <1>7, <1>9, <1>10, <1>11
<1>13. e \in Nat /\ d <= e /\ (s = p /\ Heard(kind) /\ {kind} \in MasksOf(class) => d + 1 <= e)
  BY <1>8, <1>12
<1>14. QED
  BY <1>11, <1>13

LEMMA HostKeepsEarned ==
    ASSUME WatcherOK, NEW kind, NEW p, NEW n, HostStep(kind, p, n), NEW s \in Paths, Earned(s)
    PROVE  Earned(s)'
<1>1. PICK a \in Assets : a = env.assetOf[p]
  BY HostIs DEF HostStep, WatcherOK, FilesOK
<1>2. PICK keys, q, r : Delivered(kind, p, n, a, keys, q, r)
  BY <1>1, Delivers
<1>3. /\ pc' = pc /\ pending' = pending /\ batch' = batch /\ handler' = handler /\ todo' = todo
      /\ stop' = stop /\ phase' = phase /\ env' = env /\ Grown /\ p \in Paths /\ kind \in Kinds
      /\ notices' = notices
  BY DEF HostStep, Frame, thread, command
<1>4. kernel' = [kernel EXCEPT ![a] = q] /\ reg' = [reg EXCEPT ![a] = r]
      /\ done' = [done EXCEPT ![p][kind] = @ + 1]
  BY <1>2 DEF Delivered
<1>5. /\ Shapes /\ env \in Environments /\ kernel[a] \in Seq(Event) /\ RegOK(a) /\ FilesOK /\ KernelOK(a)
      /\ HistoryOK /\ made \in Nat
  BY <1>3 DEF WatcherOK, Watchers, FilesOK, Shapes, AssetOK, Grown
<1>6. WatcherOK'
  BY HostKeepsWatchers
<1>7. CASE env.assetOf[s] # a
  <2>1. PICK b \in Assets : b = env.assetOf[s]
    BY <1>5, HostIs
  <2>2. Untouched(b)
    BY <1>3, <1>4, <1>5, <1>7, <2>1 DEF Untouched, Shapes
  <2>3. done'[s] = done[s] /\ notices'[s] = notices[s]
    BY <1>1, <1>3, <1>4, <1>5, <1>7 DEF HistoryOK
  <2>4. QED
    BY <1>3, <1>6, <2>1, <2>2, <2>3, EarnedStays DEF Untouched
<1>8. CASE env.assetOf[s] = a
  <2>1. kernel'[a] = q /\ reg'[a] = r /\ q \in Seq(Event) /\ QueueOK(q)
    BY <1>2, <1>4, <1>5 DEF Shapes, Delivered
  <2>2. PICK k0, l : k0 = kernel[a] /\ l = Left(a)
    OBVIOUS
  <2>3. l = Left(a)'
    BY <1>3, <2>2 DEF Left
  <2>4. k0 \in Seq(Event) /\ l \in Seq(Event) /\ (Linux => \A i \in 1..Len(l) : l[i].key <= made)
    BY <1>5, <2>2, LeftIs
  <2>5. ~Linux => r = reg[a]
    BY <1>2 DEF Delivered
  <2>6. Linux => \A i \in 1..Len(q) : q[i].key <= made
    BY <2>1 DEF QueueOK, EventOK
  <2>7. ASSUME NEW class \in Classes
        PROVE  notices'[s][class] + InHand(s, class)' + Tally(q, KeysOf(s)', MasksOf(class))
                       + Tally(l, KeysOf(s)', MasksOf(class)) + Due(s, class)
                   <= Account(s, class, k0, l, KeysOf(s)) + Due(s, class)'
    <3>1. PICK K, M : K = KeysOf(s) /\ M = MasksOf(class)
      OBVIOUS
    <3>2. Tally(q, KeysOf(s)', M) <= Tally(q, K, M)
      <4>1. \A i \in 1..Len(q) : q[i].key \in KeysOf(s)' => q[i].key \in KeysOf(s)
        BY <1>3, <1>8, <2>1, <2>5, <2>6, KeysStay
      <4>2. QED
        BY <2>1, <3>1, <4>1, TallyOfKeys
    <3>3. Tally(l, KeysOf(s)', M) <= Tally(l, K, M)
      <4>1. \A i \in 1..Len(l) : l[i].key \in KeysOf(s)' => l[i].key \in KeysOf(s)
        BY <1>3, <1>8, <2>1, <2>4, <2>5, KeysStay
      <4>2. QED
        BY <2>4, <3>1, <4>1, TallyOfKeys
    <3>4. /\ Tally(q, KeysOf(s)', M) \in Nat /\ Tally(q, K, M) \in Nat /\ Tally(k0, K, M) \in Nat
          /\ Tally(l, KeysOf(s)', M) \in Nat /\ Tally(l, K, M) \in Nat
      BY <2>1, <2>4, PlacesAre
    <3>5. Due(s, class) \in Nat
      BY <1>5, DueIs
    <3>6. /\ Due(s, class)' \in Nat /\ Due(s, class) <= Due(s, class)'
          /\ s = p /\ Heard(kind) /\ {kind} \in M => Due(s, class) + 1 <= Due(s, class)'
      BY <1>3, <1>4, <1>5, <3>1, DueGrows
    <3>7. Tally(q, K, M) + Due(s, class) <= Tally(k0, K, M) + Due(s, class)'
      <4>1. CASE q = k0
        BY <3>4, <3>5, <3>6, <4>1
      <4>2. ASSUME NEW k \in DOMAIN reg[a], keys = {k}, k \in Nat \ {0}, Linux => k <= made,
                   reg[a][k].path = p, q = Signal(k0, kind, k)
            PROVE  Tally(q, K, M) + Due(s, class) <= Tally(k0, K, M) + Due(s, class)'
        <5>1. 0 \notin K /\ QueueOK(k0) /\ k \in Nat
          BY <1>5, <2>2, <3>1, <4>2, KeysAre DEF KernelOK
        <5>2. /\ Tally(q, K, M) <= Tally(k0, K, M) + 1
              /\ ~(k \in K /\ {kind} \in M) => Tally(q, K, M) <= Tally(k0, K, M)
          BY <1>3, <1>5, <2>4, <3>1, <4>2, <5>1, SignalTally
        <5>3. Heard(kind)
          BY <1>2, <4>2 DEF Delivered
        <5>4. k \in K => s = p
          <6>1. EntryOK(a, k)
            BY <1>5 DEF RegOK
          <6>2. QED
            BY <1>8, <3>1, <4>2, <6>1 DEF KeysOf, EntryOK
        <5>5. QED
          BY <3>4, <3>5, <3>6, <5>2, <5>3, <5>4
      <4>3. QED
        BY <1>2, <2>2, <4>1, <4>2 DEF Delivered
    <3>8. InHand(s, class)' = InHand(s, class) /\ InHand(s, class) \in Nat
      BY <1>3 DEF InHand
    <3>9. notices'[s][class] = notices[s][class] /\ notices[s][class] \in Nat
      BY <1>3, <1>5 DEF HistoryOK
    <3>10. Account(s, class, k0, l, KeysOf(s)) = notices[s][class] + InHand(s, class) + Tally(k0, K, M) + Tally(l, K, M)
      BY <3>1 DEF Account
    <3>11. QED
      BY <3>1, <3>2, <3>3, <3>4, <3>5, <3>6, <3>7, <3>8, <3>9, <3>10
  <2>8. QED
    BY <1>3, <1>6, <1>8, <2>1, <2>2, <2>3, <2>7, EarnedNext
<1>9. QED
  BY <1>7, <1>8

LEMMA HostKeepsHonest ==
    ASSUME NEW kind, NEW p, NEW n, HostStep(kind, p, n), NEW a, Honest(a)
    PROVE  Honest(a)'
BY DEF HostStep, Frame, thread, Honest

LEMMA HostSafe ==
    ASSUME Inv, Host
    PROVE  Inv'
<1>1. PICK kind, p, n : HostStep(kind, p, n)
  BY HostIsStep DEF Inv, WatcherOK
<1>2. WatcherOK'
  BY <1>1, HostKeepsWatchers DEF Inv
<1>3. ASSUME NEW s \in Paths PROVE Covered(s)' /\ Earned(s)'
  BY <1>1, HostKeepsCovered, HostKeepsEarned DEF Inv
<1>4. ASSUME NEW a \in Assets PROVE Honest(a)'
  BY <1>1, HostKeepsHonest DEF Inv
<1>5. QED
  BY <1>2, <1>3, <1>4 DEF Inv

-----------------------------------------------------------------------------
(* The steps that touch no watcher, and the end of the process.            *)

\* What a step of one watcher leaves alone.
Apart(a) ==
    /\ Grown /\ phase' = phase /\ done' = done
    /\ Shapes' /\ HistoryOK'
    /\ \A b \in Assets : b # a =>
           /\ Untouched(b)
           /\ flight'[b] = flight[b] /\ cut'[b] = cut[b] /\ claim'[b] = claim[b]
    /\ \A p \in Paths : p \notin Decoys(a) =>
           /\ at'[p] = at[p] /\ notices'[p] = notices[p]
           /\ p \in gap => p \in gap'

LEMMA HonestStays ==
    ASSUME NEW a, Honest(a), flight'[a] = flight[a], cut'[a] = cut[a], claim'[a] = claim[a],
           handler'[a] = handler[a]
    PROVE  Honest(a)'
BY DEF Honest

LEMMA ApartKeeps ==
    ASSUME Inv, NEW a \in Assets, Apart(a), AssetOK(a)'
    PROVE  /\ WatcherOK'
           /\ \A p \in Paths : p \notin Decoys(a) => Covered(p)' /\ Earned(p)'
           /\ \A b \in Assets : b # a => Honest(b)'
<1>1. WatcherOK /\ Watchers
  BY DEF Inv, WatcherOK
<1>2. \A b \in Assets : b # a => Untouched(b)
  BY DEF Apart
<1>3. Watchers'
  BY <1>1, <1>2, OneAsset DEF Apart
<1>4. WatcherOK'
  BY <1>3 DEF WatcherOK, Apart, Grown
<1>5. ASSUME NEW p \in Paths, p \notin Decoys(a)
      PROVE  Covered(p)' /\ Earned(p)'
  <2>1. PICK b \in Assets : b = env.assetOf[p]
    BY <1>1, HostIs DEF WatcherOK, FilesOK
  <2>2. b # a
    BY <1>5, <2>1 DEF Decoys
  <2>3. Untouched(b) /\ Grown /\ done'[p] = done[p] /\ at'[p] = at[p] /\ notices'[p] = notices[p]
        /\ (p \in gap => p \in gap') /\ Covered(p) /\ Earned(p)
    BY <1>2, <1>5, <2>2 DEF Apart, Inv
  <2>4. Covered(p)'
    BY <2>1, <2>3, CoveredStays DEF Untouched
  <2>5. Earned(p)'
    BY <1>1, <1>4, <2>1, <2>3, EarnedStays DEF Untouched
  <2>6. QED
    BY <2>4, <2>5
<1>6. ASSUME NEW b \in Assets, b # a
      PROVE  Honest(b)'
  <2>1. Honest(b) /\ flight'[b] = flight[b] /\ cut'[b] = cut[b] /\ claim'[b] = claim[b] /\ Untouched(b)
    BY <1>6 DEF Apart, Inv
  <2>2. QED
    BY <2>1, HonestStays DEF Untouched
<1>7. QED
  BY <1>4, <1>5, <1>6

LEMMA ApartSafe ==
    ASSUME Inv, NEW a \in Assets, Apart(a), AssetOK(a)', Honest(a)',
           WatcherOK' => \A p \in Decoys(a) : Covered(p)' /\ Earned(p)'
    PROVE  Inv'
<1>1. /\ WatcherOK'
      /\ \A p \in Paths : p \notin Decoys(a) => Covered(p)' /\ Earned(p)'
      /\ \A b \in Assets : b # a => Honest(b)'
  BY ApartKeeps
<1>2. QED
  BY <1>1 DEF Inv

\* Nothing of the watchers changes: the daemon, the heartbeat and the command.
Quiet ==
    /\ UNCHANGED <<files, kernel, watcher, thread, stop, env, done, notices, unseen, gap, claim>>
    /\ phase' = phase \/ (phase' = "on" /\ phase = "down")
       \/ (phase' = "stopping" /\ \A a \in Assets : pc[a] \notin Starts)
    /\ flight' \in [Assets -> Flights] /\ cut' \in [Assets -> BOOLEAN]

LEMMA QuietKeeps ==
    ASSUME Inv, Quiet, \A a \in Assets : Honest(a)'
    PROVE  Inv'
<1>1. WatcherOK /\ FilesOK /\ HistoryOK /\ Watchers /\ Shapes
  BY DEF Inv, WatcherOK, Watchers
<1>2. Grown
  BY <1>1, FilesStay DEF Quiet
<1>3. \A a \in Assets : Untouched(a)
  BY DEF Quiet, Untouched, watcher, thread
<1>4. ASSUME NEW a \in Assets PROVE AssetOK(a)'
  <2>1. ThreadOK(a)
    BY <1>1 DEF Watchers, AssetOK
  <2>2. phase' # "stopping" => stop[a] = "no"
    BY <2>1 DEF ThreadOK, Quiet
  <2>3. phase' = "stopping" => pc[a] \notin Starts
    BY <2>1 DEF ThreadOK, Quiet
  <2>4. QED
    BY <1>1, <1>2, <1>3, <2>2, <2>3, Elsewhere
<1>5. Shapes' /\ HistoryOK'
  BY <1>1 DEF Quiet, Shapes, HistoryOK, watcher, thread
<1>6. WatcherOK'
  BY <1>2, <1>4, <1>5 DEF WatcherOK, Watchers, Grown
<1>7. ASSUME NEW p \in Paths PROVE Covered(p)' /\ Earned(p)'
  <2>1. PICK b \in Assets : b = env.assetOf[p]
    BY <1>1, HostIs DEF FilesOK
  <2>2. done' = done /\ notices' = notices /\ at' = at /\ gap' = gap
    BY DEF Quiet, files
  <2>3. Covered(p) /\ Earned(p) /\ Untouched(b)
    BY <1>3 DEF Inv
  <2>4. Covered(p)'
    BY <1>2, <2>1, <2>2, <2>3, CoveredStays DEF Untouched
  <2>5. Earned(p)'
    BY <1>1, <1>2, <1>6, <2>1, <2>2, <2>3, EarnedStays DEF Untouched
  <2>6. QED
    BY <2>4, <2>5
<1>8. QED
  BY <1>6, <1>7 DEF Inv

LEMMA LaunchSafe ==
    ASSUME Inv, Launch
    PROVE  Inv'
<1>1. Quiet
  BY DEF Launch, Quiet, counters, history, Inv, WatcherOK, HistoryOK
<1>2. ASSUME NEW a \in Assets PROVE Honest(a)'
  <2>1. Honest(a)
    BY DEF Inv
  <2>2. QED
    BY <2>1, HonestStays DEF Launch, history, thread
<1>3. QED
  BY <1>1, <1>2, QuietKeeps

LEMMA BeatSafe ==
    ASSUME Inv, Beat
    PROVE  Inv'
<1>1. Quiet
  BY DEF Beat, Quiet, counters, history, command, Inv, WatcherOK, HistoryOK
<1>2. ASSUME NEW a \in Assets PROVE Honest(a)'
  <2>1. Honest(a)
    BY DEF Inv
  <2>2. QED
    BY <2>1, HonestStays DEF Beat, history, thread
<1>3. QED
  BY <1>1, <1>2, QuietKeeps

LEMMA InterruptSafe ==
    ASSUME Inv, Interrupt
    PROVE  Inv'
<1>1. Quiet
  BY DEF Interrupt, Quiet, counters, history, service, Starts, Inv, WatcherOK, HistoryOK
<1>2. ASSUME NEW a \in Assets PROVE Honest(a)'
  <2>1. Honest(a)
    BY DEF Inv
  <2>2. QED
    BY <2>1, HonestStays DEF Interrupt, history, thread, service
<1>3. QED
  BY <1>1, <1>2, QuietKeeps

LEMMA DaemonChangesSafe ==
    ASSUME Inv, NEW d, DaemonChanges(d)
    PROVE  Inv'
<1>1. \A a \in Assets : flight'[a] = flight[a] \/ flight'[a] = "none"
  BY DEF DaemonChanges
<1>2. flight' \in [Assets -> Flights]
  BY DEF DaemonChanges, Inv, WatcherOK, HistoryOK, Flights
<1>3. Quiet
  BY <1>2 DEF DaemonChanges, Quiet, history, command, Inv, WatcherOK, HistoryOK
<1>4. ASSUME NEW a \in Assets PROVE Honest(a)'
  <2>1. Honest(a)
    BY DEF Inv
  <2>2. cut'[a] = cut[a] /\ claim'[a] = claim[a] /\ handler'[a] = handler[a]
    BY DEF DaemonChanges, history, thread
  <2>3. QED
    BY <1>1, <2>1, <2>2 DEF Honest
<1>5. QED
  BY <1>3, <1>4, QuietKeeps

\* The daemon serves a request: what was announced of it stays true.
LEMMA ServeSafe ==
    ASSUME Inv, NEW a \in Assets, Serve(a)
    PROVE  Inv'
<1>1. PICK ok \in BOOLEAN :
          /\ cut' = [cut EXCEPT ![a] = ok]
          /\ flight' = [flight EXCEPT ![a] = IF ok THEN "cut" ELSE "refused"]
  BY DEF Serve
<1>2. flight' \in [Assets -> Flights] /\ cut' \in [Assets -> BOOLEAN]
  BY <1>1 DEF Inv, WatcherOK, HistoryOK, Flights
<1>3. Quiet
  BY <1>2 DEF Serve, Quiet, command, counters
<1>4. ASSUME NEW b \in Assets PROVE Honest(b)'
  <2>1. Honest(b) /\ Honest(a) /\ flight[a] = "sent"
    BY DEF Inv, Serve
  <2>2. claim'[b] = claim[b] /\ handler'[b] = handler[b]
    BY DEF Serve, thread
  <2>3. CASE b # a
    <3>1. cut'[b] = cut[b] /\ flight'[b] = flight[b]
      BY <1>1, <2>3 DEF Inv, WatcherOK, HistoryOK
    <3>2. QED
      BY <2>1, <2>2, <3>1, HonestStays
  <2>4. CASE b = a
    <3>1. cut'[a] = ok /\ flight'[a] = IF ok THEN "cut" ELSE "refused"
      BY <1>1 DEF Inv, WatcherOK, HistoryOK
    <3>2. claim[a] \in {"nothing", "unknown"} /\ handler[a].step # "cut"
      BY <2>1 DEF Honest
    <3>3. handler[a].step = "await" => claim[a] = "nothing"
      BY <2>1 DEF Honest
    <3>4. QED
      BY <2>2, <2>4, <3>1, <3>2, <3>3 DEF Honest
  <2>5. QED
    BY <2>3, <2>4
<1>5. QED
  BY <1>3, <1>4, QuietKeeps

\* With nothing waiting, only what was notified of counts.
LEMMA EarnedWhenEmpty ==
    ASSUME Grown, WatcherOK, NEW p \in Paths, NEW a, a = env.assetOf[p], Earned(p),
           kernel'[a] = <<>>, batch'[a] = <<>>, handler'[a] = NoHandler,
           notices'[p] = notices[p], done'[p] = done[p]
    PROVE  Earned(p)'
<1> SUFFICES ASSUME NEW class \in Classes
             PROVE  notices'[p][class] + Owed(p, class)' <= Due(p, class)'
  BY DEF Earned
<1>1. env'.assetOf[p] = a
  BY SameHost
<1>2. Left(a)' = <<>> /\ InHand(p, class)' = 0
  BY <1>1 DEF Left, InHand, NoHandler
<1>3. PICK K, M : K = KeysOf(p)' /\ M = MasksOf(class)'
  OBVIOUS
<1>4. Owed(p, class)' = Tally(kernel'[a], K, M) + Tally(Left(a)', K, M) + InHand(p, class)'
  BY <1>1, <1>3 DEF Owed, Tally
<1>5. Owed(p, class)' = 0
  BY <1>2, <1>4, TallyEmpty
<1>6. PICK q, l : q = kernel[a] /\ l = Left(a)
  OBVIOUS
<1>7. /\ Account(p, class, q, l, KeysOf(p)) = notices[p][class] + Owed(p, class)
      /\ Account(p, class, q, l, KeysOf(p)) \in Nat
  BY <1>6, AccountIs
<1>8. q \in Seq(Event) /\ l \in Seq(Event)
  BY <1>6, HostIs, LeftIs DEF WatcherOK, Watchers, Shapes, FilesOK
<1>9. Tally(q, KeysOf(p), MasksOf(class)) \in Nat /\ Tally(l, KeysOf(p), MasksOf(class)) \in Nat
      /\ InHand(p, class) \in Nat
  BY <1>8, PlacesAre DEF InHand
<1>10. notices[p][class] \in Nat /\ notices'[p][class] = notices[p][class]
  BY DEF WatcherOK, HistoryOK
<1>11. notices[p][class] + Owed(p, class) <= Due(p, class)
  BY DEF Earned
<1>12. Due(p, class)' = Due(p, class) /\ Due(p, class) \in Nat
  BY DueStays, DueIs DEF WatcherOK
<1>13. Account(p, class, q, l, KeysOf(p)) =
           notices[p][class] + InHand(p, class) + Tally(q, KeysOf(p), MasksOf(class))
               + Tally(l, KeysOf(p), MasksOf(class))
  BY DEF Account
<1>14. QED
  BY <1>5, <1>7, <1>9, <1>10, <1>11, <1>12, <1>13

\* A watcher that has not started, or is gone.
Fresh(a) ==
    /\ DOMAIN reg[a] = {} /\ reg[a] = [k \in DOMAIN reg[a] |-> reg[a][k]]
    /\ kernel[a] = <<>> /\ pending[a] = {} /\ todo[a] = {}
    /\ batch[a] = <<>> /\ handler[a] = NoHandler /\ pc[a] \in {"off", "seeded"}
    /\ stop[a] = "no" /\ phase # "stopping"

LEMMA FreshIsOK ==
    ASSUME NEW a \in Assets, Fresh(a), env \in Environments
    PROVE  AssetOK(a)
<1>1. RegOK(a)
  <2>1. IsFiniteSet(DOMAIN reg[a])
    BY FS_EmptySet DEF Fresh
  <2>2. reg[a] = [k \in DOMAIN reg[a] |-> reg[a][k]]
    BY DEF Fresh
  <2>3. QED
    BY <2>1, <2>2 DEF RegOK, Fresh, Single
<1>2. Len(kernel[a]) = 0 /\ Len(batch[a]) = 0
  BY DEF Fresh
<1>3. KernelOK(a)
  BY <1>2, BoundsAre DEF KernelOK, QueueOK, Once
<1>4. BatchOK(a)
  BY <1>2 DEF BatchOK, Once, Fresh
<1>5. ThreadOK(a)
  BY DEF ThreadOK, Fresh, Starts
<1>6. HandlerOK(a)
  BY DEF HandlerOK, Fresh
<1>7. QED
  BY <1>1, <1>3, <1>4, <1>5, <1>6 DEF AssetOK

FreshAreOK == env \in Environments => \A a \in Assets : Fresh(a) => AssetOK(a)

LEMMA FreshesAre == FreshAreOK
BY FreshIsOK DEF FreshAreOK

LEMMA GoneSafe ==
    ASSUME Inv, Gone
    PROVE  Inv'
<1>1. WatcherOK /\ FilesOK /\ HistoryOK
  BY DEF Inv, WatcherOK
<1>2. Grown
  BY <1>1, FilesStay DEF Gone
<1>3. Watchers'
  <2>1. env' \in Environments
    BY <1>2 DEF Grown, FilesOK
  <2>2. NoHandler \in Handler
    BY DEF NoHandler, Handler, None, Masks
  <2>3. Shapes'
    BY <2>2 DEF Shapes, Steps, Gone
  <2>4. \A a \in Assets : Fresh(a)'
    BY DEF Fresh, Gone
  <2>5. FreshAreOK'
    BY FreshesAre, PTL
  <2>6. QED
    BY <2>1, <2>3, <2>4, <2>5 DEF Watchers, FreshAreOK
<1>4. HistoryOK'
  BY <1>1 DEF Gone, HistoryOK, service
<1>5. WatcherOK'
  BY <1>2, <1>3, <1>4 DEF WatcherOK, Grown
<1>6. ASSUME NEW p \in Paths PROVE Covered(p)' /\ Earned(p)'
  <2>1. PICK b \in Assets : b = env.assetOf[p]
    BY <1>1, HostIs DEF FilesOK
  <2>2. env'.assetOf[p] = b
    BY <1>2, <2>1, SameHost
  <2>3. Covered(p)'
    BY <2>2 DEF Covered, Gone, Runs
  <2>4. Earned(p)'
    BY <1>1, <1>2, <2>1, EarnedWhenEmpty DEF Gone, Inv
  <2>5. QED
    BY <2>3, <2>4
<1>7. ASSUME NEW a \in Assets PROVE Honest(a)'
  <2>1. Honest(a)
    BY DEF Inv
  <2>2. handler'[a].step = "none" /\ flight'[a] = flight[a] /\ cut'[a] = cut[a] /\ claim'[a] = claim[a]
    BY DEF Gone, service, NoHandler
  <2>3. QED
    BY <2>1, <2>2 DEF Honest
<1>8. QED
  BY <1>5, <1>6, <1>7 DEF Inv

LEMMA InitSafe ==
    ASSUME Init
    PROVE  Inv
<1>1. env \in Environments /\ MaxNodes \in Nat
  BY BoundsAre DEF Init
<1>2. FilesOK
  <2>1. at \in [Paths -> 0..made] /\ made \in 0..MaxNodes
    BY <1>1 DEF Init, None
  <2>2. owner = [n \in 1..MaxNodes |-> owner[n]] /\ DOMAIN owner = 1..MaxNodes
    BY DEF Init
  <2>3. \A p \in Paths : at[p] = None
    BY DEF Init
  <2>4. made = 0 /\ away = {}
    BY DEF Init
  <2>5. QED
    BY <1>1, <2>1, <2>2, <2>3, <2>4 DEF FilesOK
<1>3. HistoryOK
  BY DEF Init, HistoryOK, Classes, Claims, Flights
<1>4. Watchers
  <2>1. NoHandler \in Handler
    BY DEF NoHandler, Handler, None, Masks
  <2>2. Shapes
    BY <2>1 DEF Shapes, Steps, Init
  <2>3. \A a \in Assets : Fresh(a)
    BY DEF Fresh, Init
  <2>4. QED
    BY <1>1, <2>2, <2>3, FreshIsOK DEF Watchers
<1>5. ASSUME NEW p \in Paths PROVE Covered(p)
  BY <1>1, HostIs DEF Covered, Init, Runs
<1>6. ASSUME NEW p \in Paths, NEW class \in Classes
      PROVE  notices[p][class] + Owed(p, class) <= Due(p, class)
  <2>1. PICK a \in Assets : a = env.assetOf[p]
    BY <1>1, HostIs
  <2>2. kernel[a] = <<>> /\ Left(a) = <<>> /\ InHand(p, class) = 0
    BY <2>1 DEF Init, Left, InHand, NoHandler
  <2>3. Owed(p, class) = 0
    BY <2>1, <2>2, TallyEmpty DEF Owed
  <2>4. notices[p][class] = 0
    BY DEF Init, Classes
  <2>5. Due(p, class) \in Nat
    BY <1>3, DueIs
  <2>6. QED
    BY <2>3, <2>4, <2>5
<1>7. ASSUME NEW a \in Assets PROVE Honest(a)
  BY DEF Honest, Init, NoHandler
<1>8. QED
  BY <1>2, <1>3, <1>4, <1>5, <1>6, <1>7 DEF Inv, WatcherOK, Earned

-----------------------------------------------------------------------------
(* Starting.                                                               *)

\* The elements of a finite set, one after the other.
LEMMA InOrder ==
    ASSUME NEW S, IsFiniteSet(S), NEW s, s = SetToSeq(S)
    PROVE  /\ Cardinality(S) \in Nat /\ s \in Seq(S) /\ Len(s) = Cardinality(S)
           /\ \A i, j \in 1..Len(s) : s[i] = s[j] => i = j
           /\ \A x \in S : \E i \in 1..Len(s) : s[i] = x
           /\ ToSet(s) = S
<1> DEFINE n == Cardinality(S)
           Good(f) == \A x, y \in DOMAIN f : f[x] = f[y] => x = y
<1>1. n \in Nat /\ Cardinality(1..n) = n /\ IsFiniteSet(1..n)
  BY FS_CardinalityType, FS_Interval
<1>2. PICK g : g \in [1..n -> S] /\ Good(g)
  <2>1. PICK g : g \in Bijection(1..n, S)
    <3>1. PICK m \in Nat : ExistsBijection(1..m, S)
      BY FS_NatBijection
    <3>2. Cardinality(1..m) = m /\ IsFiniteSet(1..m)
      BY FS_Interval
    <3>3. m = n
      BY <3>1, <3>2, FS_Bijection
    <3>4. QED
      BY <3>1, <3>3 DEF ExistsBijection
  <2>2. QED
    BY <2>1 DEF Bijection, Injection, IsInjective
<1>3. s = CHOOSE f \in [1..n -> S] : Good(f)
  BY DEF SetToSeq, IsInjective
<1>4. s \in [1..n -> S] /\ Good(s)
  BY <1>2, <1>3
<1>5. s \in Injection(1..n, S)
  BY <1>4 DEF Injection, IsInjective
<1>6. s \in Surjection(1..n, S)
  BY <1>1, <1>5, FS_Injection
<1>7. \A x \in S : \E i \in 1..n : s[i] = x
  BY <1>6 DEF Surjection
<1> HIDE DEF n
<1>8. s \in Seq(S) /\ Len(s) = n /\ DOMAIN s = 1..n
  BY <1>1, <1>4
<1>9. ToSet(s) = S
  BY <1>4, <1>7, <1>8 DEF ToSet
<1>10. QED
  BY <1>1, <1>4, <1>7, <1>8, <1>9 DEF n

LEMMA DecoysFinite ==
    ASSUME NEW a
    PROVE  IsFiniteSet(Decoys(a)) /\ Decoys(a) \subseteq Paths
<1>1. Decoys(a) \subseteq Paths
  BY DEF Decoys
<1>2. QED
  BY <1>1, BoundsAre, FS_Subset

LEMMA NotStarted ==
    ASSUME WatcherOK, NEW a \in Assets, pc[a] \in {"off", "seeded"}
    PROVE  Fresh(a)
<1>1. RegOK(a) /\ BatchOK(a) /\ ThreadOK(a) /\ HandlerOK(a)
  BY DEF WatcherOK, Watchers, AssetOK
<1>2. pc[a] \in Starts /\ pc[a] # "batch" /\ pc[a] # "attach" /\ pc[a] # "retry"
  BY DEF Starts
<1>3. kernel[a] = <<>> /\ pending[a] = {} /\ DOMAIN reg[a] = {} /\ todo[a] = {} /\ batch[a] = <<>>
      /\ stop[a] = "no" /\ phase # "stopping"
  BY <1>1, <1>2 DEF ThreadOK, BatchOK
<1>4. handler[a] = NoHandler
  BY <1>1, <1>2 DEF HandlerOK, RespondingOK, AttachingOK
<1>5. reg[a] = [k \in DOMAIN reg[a] |-> reg[a][k]]
  BY <1>1 DEF RegOK
<1>6. QED
  BY <1>3, <1>4, <1>5 DEF Fresh

\* The missing decoys are created: their files are new.
LEMMA SeedGrows ==
    ASSUME FilesOK, NEW a, Seed(a)
    PROVE  Grown /\ \A p \in Paths : p \notin Decoys(a) => at'[p] = at[p]
<1> DEFINE M == {p \in Decoys(a) : at[p] = None}
<1>1. PICK missing : missing = SetToSeq(M)
  OBVIOUS
<1> DEFINE n == Len(missing)
           idx(p) == CHOOSE i \in 1..n : missing[i] = p
<1>2. IsFiniteSet(M) /\ M \subseteq Paths
  BY DecoysFinite, FS_Subset
<1>3. /\ n \in Nat /\ missing \in Seq(M) /\ ToSet(missing) = M
      /\ \A p \in M : \E i \in 1..n : missing[i] = p
  <2> HIDE DEF M
  <2>1. /\ Cardinality(M) \in Nat /\ missing \in Seq(M) /\ Len(missing) = Cardinality(M)
        /\ \A p \in M : \E i \in 1..Len(missing) : missing[i] = p
        /\ ToSet(missing) = M
    BY <1>1, <1>2, InOrder
  <2>2. QED
    BY <2>1
<1>4. /\ made + n <= MaxNodes /\ made' = made + n
      /\ at' = [p \in Paths |-> IF p \in ToSet(missing) THEN made + idx(p) ELSE at[p]]
      /\ owner' = [k \in 1..MaxNodes |-> IF k \in made + 1..made + n THEN missing[k - made] ELSE owner[k]]
      /\ away' = away /\ env' = env
  BY <1>1 DEF Seed, counters
<1>5. \A p \in M : idx(p) \in 1..n /\ missing[idx(p)] = p
  BY <1>3
<1> HIDE DEF M, n, idx
<1>6. made \in Nat /\ made' \in Nat /\ made <= made' /\ made' \in 0..MaxNodes /\ MaxNodes \in Nat
  BY <1>3, <1>4, BoundsAre DEF FilesOK
<1>7. \A p \in Paths : at'[p] = IF p \in M THEN made + idx(p) ELSE at[p]
  BY <1>3, <1>4
<1>8. at' \in [Paths -> 0..made']
  <2>1. ASSUME NEW p \in Paths PROVE at'[p] \in 0..made'
    <3>1. CASE p \in M
      BY <1>3, <1>4, <1>5, <1>6, <1>7, <3>1
    <3>2. CASE p \notin M
      <4>1. at[p] \in 0..made
        BY DEF FilesOK
      <4>2. QED
        BY <1>6, <1>7, <3>2, <4>1
    <3>3. QED
      BY <3>1, <3>2
  <2>2. at' = [p \in Paths |-> at'[p]]
    BY <1>4
  <2>3. QED
    BY <2>1, <2>2
<1>9. \A k \in 1..MaxNodes : owner'[k] = IF k \in made + 1..made + n THEN missing[k - made] ELSE owner[k]
  BY <1>4
<1>10. \A k \in 1..made : k \in 1..MaxNodes /\ owner'[k] = owner[k]
  BY <1>6, <1>9
<1>11. ASSUME NEW k \in 1..made' PROVE owner'[k] \in Paths
  <2>1. CASE k \in 1..made
    BY <1>10, <2>1 DEF FilesOK
  <2>2. CASE k \notin 1..made
    <3>1. k \in 1..MaxNodes /\ k \in made + 1..made + n /\ k - made \in 1..n
      BY <1>3, <1>4, <1>6, <2>2
    <3>2. owner'[k] = missing[k - made] /\ missing[k - made] \in M
      BY <1>3, <1>9, <3>1 DEF n
    <3>3. QED
      BY <1>2, <3>2
  <2>3. QED
    BY <2>1, <2>2
<1>12. ASSUME NEW p \in Paths, at'[p] # None
       PROVE  owner'[at'[p]] = p /\ at'[p] \notin away'
  <2>1. CASE p \in M
    <3>1. idx(p) \in 1..n /\ missing[idx(p)] = p /\ at'[p] = made + idx(p)
      BY <1>5, <1>7, <2>1
    <3>2. at'[p] \in 1..MaxNodes /\ at'[p] \in made + 1..made + n /\ at'[p] - made = idx(p)
      BY <1>3, <1>4, <1>6, <3>1
    <3>3. owner'[at'[p]] = p
      BY <1>9, <3>1, <3>2
    <3>4. at'[p] \notin 1..made
      BY <1>3, <1>6, <3>2
    <3>5. QED
      BY <1>4, <3>3, <3>4 DEF FilesOK
  <2>2. CASE p \notin M
    <3>1. at[p] \in 1..made /\ owner[at[p]] = p /\ at[p] \notin away
      BY <1>7, <1>12, <2>2, DecoyFile
    <3>2. QED
      BY <1>4, <1>7, <1>10, <2>2, <3>1
  <2>3. QED
    BY <2>1, <2>2
<1>13. DOMAIN owner' = 1..MaxNodes /\ owner' = [k \in 1..MaxNodes |-> owner'[k]]
  BY <1>4
<1>14. away' \subseteq 1..made'
  BY <1>4, <1>6 DEF FilesOK
<1>15. env' \in Environments
  BY <1>4 DEF FilesOK
<1>16. FilesOK'
  BY <1>6, <1>8, <1>11, <1>12, <1>13, <1>14, <1>15 DEF FilesOK
<1>17. \A p \in Paths : p \notin Decoys(a) => at'[p] = at[p]
  BY <1>7 DEF M
<1>18. QED
  BY <1>4, <1>6, <1>10, <1>16, <1>17 DEF Grown

LEMMA SeedSafe ==
    ASSUME Inv, NEW a \in Assets, Seed(a)
    PROVE  Inv'
<1>1. WatcherOK /\ FilesOK /\ Shapes /\ HistoryOK
  BY DEF Inv, WatcherOK, Watchers
<1>2. Grown /\ \A p \in Paths : p \notin Decoys(a) => at'[p] = at[p]
  BY <1>1, SeedGrows
<1>3. /\ kernel' = kernel /\ reg' = reg /\ pending' = pending /\ todo' = todo /\ batch' = batch
      /\ handler' = handler /\ phase' = phase /\ stop' = stop /\ pc[a] = "off"
      /\ pc' = [pc EXCEPT ![a] = "seeded"] /\ flight' = flight /\ done' = done /\ notices' = notices
      /\ unseen' = unseen /\ gap' = gap /\ cut' = cut /\ claim' = claim
  BY DEF Seed, watcher, command, service, history
<1>4. Shapes' /\ HistoryOK'
  BY <1>1, <1>3 DEF Shapes, HistoryOK, Steps
<1>5. Apart(a)
  BY <1>1, <1>2, <1>3, <1>4 DEF Apart, Untouched, Shapes
<1>6. Fresh(a)
  BY <1>1, <1>3, NotStarted
<1>7. Fresh(a)'
  BY <1>1, <1>3, <1>6 DEF Fresh, Shapes
<1>8. AssetOK(a)'
  <2>1. FreshAreOK'
    BY FreshesAre, PTL
  <2>2. QED
    BY <1>2, <1>7, <2>1 DEF FreshAreOK, Grown, FilesOK
<1>9. Honest(a)'
  BY <1>3, HonestStays DEF Inv
<1>10. ASSUME NEW p \in Decoys(a) PROVE Covered(p)' /\ Earned(p)'
  <2>1. p \in Paths /\ a = env.assetOf[p] /\ env' = env
    BY <1>2 DEF Decoys, Grown
  <2>2. pc'[a] = "seeded"
    BY <1>1, <1>3 DEF Shapes
  <2>3. Covered(p)'
    BY <2>1, <2>2 DEF Covered, Runs
  <2>4. kernel'[a] = <<>> /\ batch'[a] = <<>> /\ handler'[a] = NoHandler
    BY <1>7 DEF Fresh
  <2>5. Earned(p)'
    BY <1>1, <1>2, <1>3, <2>1, <2>4, EarnedWhenEmpty DEF Inv
  <2>6. QED
    BY <2>3, <2>5
<1>11. QED
  BY <1>5, <1>8, <1>9, <1>10, ApartSafe

\* One descriptor for each decoy of the asset, of the file that is there.
Complete(a, r, next) ==
    /\ IsFiniteSet(DOMAIN r) /\ DOMAIN r \subseteq Nat /\ r = [k \in DOMAIN r |-> r[k]]
    /\ \A k \in DOMAIN r :
           /\ k > 0 /\ (Linux => r[k].file = k)
           /\ r[k] \in Descriptor /\ r[k].path \in Decoys(a) /\ r[k].file = at[r[k].path]
           /\ r[k].live = (next = "wait")
    /\ \A k, l \in DOMAIN r : r[k].path = r[l].path => k = l
    /\ \A p \in Decoys(a) : \E k \in DOMAIN r : r[k].path = p
    /\ next \in {"wait", "opened"} /\ (next = "opened" <=> MacOS)

LEMMA StartedSafe ==
    ASSUME Inv, NEW a \in Assets, NEW r, NEW next, Started(a, r, next), Complete(a, r, next)
    PROVE  Inv'
<1>1. WatcherOK /\ FilesOK /\ Shapes /\ HistoryOK
  BY DEF Inv, WatcherOK, Watchers
<1>2. /\ kernel' = kernel /\ pending' = pending /\ todo' = todo /\ batch' = batch /\ at' = at
      /\ handler' = handler /\ phase' = phase /\ stop' = stop /\ pc[a] = "seeded"
      /\ pc' = [pc EXCEPT ![a] = next] /\ flight' = flight /\ done' = done /\ notices' = notices
      /\ unseen' = unseen /\ cut' = cut /\ claim' = claim /\ reg' = [reg EXCEPT ![a] = r]
      /\ gap' = gap \ Decoys(a)
  BY DEF Started, command, service, files
<1>3. Grown
  <2>1. UNCHANGED <<files, env>>
    BY DEF Started, counters
  <2>2. QED
    BY <1>1, <2>1, FilesStay
<1>4. next \in {"wait", "opened"} /\ pc'[a] = next /\ reg'[a] = r
  BY <1>1, <1>2 DEF Complete, Shapes
<1>5. Shapes' /\ HistoryOK'
  <2>1. reg' = [b \in Assets |-> reg'[b]] /\ pc' \in [Assets -> Steps]
    BY <1>1, <1>2, <1>4 DEF Shapes, Steps
  <2>2. QED
    BY <1>1, <1>2, <2>1 DEF Shapes, HistoryOK
<1>6. Apart(a)
  BY <1>1, <1>2, <1>3, <1>5 DEF Apart, Untouched, Shapes
<1>7. Fresh(a)
  BY <1>1, <1>2, NotStarted
<1>8. /\ Linux' = Linux /\ MacOS' = MacOS /\ Windows' = Windows /\ Decoys(a)' = Decoys(a)
      /\ \A p \in Decoys(a) : at[p] # None
  BY <1>3, SameHost DEF Started, AllThere
<1>9. RegOK(a)'
  <2>1. ASSUME NEW k \in DOMAIN r
        PROVE  EntryOK(a, k)'
    <3>1. /\ k > 0 /\ (Linux => r[k].file = k) /\ r[k] \in Descriptor /\ r[k].path \in Decoys(a)
          /\ r[k].file = at[r[k].path]
      BY DEF Complete
    <3>2. r[k].path \in Paths /\ at[r[k].path] # None
      BY <1>8, <3>1 DEF Decoys
    <3>3. r[k].file \in 1..made /\ owner[r[k].file] = r[k].path
      BY <1>1, <3>1, <3>2, DecoyFile
    <3>4. owner'[r[k].file] = owner[r[k].file] /\ r[k].file <= made'
      BY <1>3, <3>3 DEF Grown
    <3>5. QED
      BY <1>4, <1>8, <3>1, <3>3, <3>4 DEF EntryOK
  <2>2. Single(a)'
    BY <1>4 DEF Single, Complete
  <2>3. Windows => \A k \in DOMAIN r : r[k].live
    BY <1>1, HostIs DEF Complete, FilesOK
  <2>4. pending'[a] = {}
    BY <1>2, <1>7 DEF Fresh
  <2>5. IsFiniteSet(DOMAIN r) /\ DOMAIN r \subseteq Nat /\ r = [k \in DOMAIN r |-> r[k]]
    BY DEF Complete
  <2>6. QED
    BY <1>4, <1>8, <2>1, <2>2, <2>3, <2>4, <2>5 DEF RegOK
<1>10. kernel'[a] = <<>> /\ batch'[a] = <<>> /\ handler'[a] = NoHandler /\ pending'[a] = {} /\ todo'[a] = {}
       /\ stop'[a] = "no" /\ phase' # "stopping"
  BY <1>2, <1>7 DEF Fresh
<1>11. KernelOK(a)' /\ BatchOK(a)'
  <2>1. Len(kernel'[a]) = 0 /\ Len(batch'[a]) = 0 /\ QueueMax \in Nat
    BY <1>10, BoundsAre
  <2>2. KernelOK(a)'
    BY <2>1 DEF KernelOK, QueueOK, Once
  <2>3. BatchOK(a)'
    BY <1>4, <1>10, <2>1 DEF BatchOK, Once
  <2>4. QED
    BY <2>2, <2>3
<1>12. ThreadOK(a)'
  <2>1. pc'[a] = "opened" => MacOS /\ \A k \in DOMAIN r : ~r[k].live
    BY <1>4 DEF Complete
  <2>2. QED
    BY <1>4, <1>8, <1>10, <2>1 DEF ThreadOK
<1>13. HandlerOK(a)'
  BY <1>4, <1>10 DEF HandlerOK
<1>14. AssetOK(a)'
  BY <1>9, <1>11, <1>12, <1>13 DEF AssetOK
<1>15. Honest(a)'
  BY <1>2, HonestStays DEF Inv
<1>16. ASSUME NEW p \in Decoys(a) PROVE Covered(p)' /\ Earned(p)'
  <2>1. p \in Paths /\ a = env.assetOf[p] /\ env'.assetOf[p] = a
    BY <1>3, SameHost DEF Decoys
  <2>2. Covered(p)'
    <3>1. CASE next = "opened"
      BY <1>4, <2>1, <3>1 DEF Covered, Runs
    <3>2. CASE next = "wait"
      <4>1. PICK k \in DOMAIN r : r[k].path = p
        BY DEF Complete
      <4>2. r[k].live = (next = "wait") /\ r[k].file = at[r[k].path] /\ r[k] \in Descriptor
        BY DEF Complete
      <4>3. r[k].live /\ r[k].file = at[p]
        BY <3>2, <4>1, <4>2
      <4>4. k \in Listening(a, p, at[p])'
        BY <1>2, <1>4, <4>1, <4>3 DEF Listening
      <4>5. Heeded(p)'
        BY <1>2, <1>8, <2>1, <4>4 DEF Heeded, Watching
      <4>6. QED
        BY <2>1, <4>5 DEF Covered
    <3>3. QED
      BY <1>4, <3>1, <3>2
  <2>3. Earned(p)'
    BY <1>1, <1>2, <1>3, <1>10, <2>1, EarnedWhenEmpty DEF Inv
  <2>4. QED
    BY <2>2, <2>3
<1>17. QED
  BY <1>6, <1>14, <1>15, <1>16, ApartSafe

LEMMA LinuxComplete ==
    ASSUME FilesOK, NEW a, Linux, AllThere(a), NEW r,
           r = [n \in {at[p] : p \in Decoys(a)} |-> [path |-> owner[n], file |-> n, live |-> TRUE]]
    PROVE  Complete(a, r, "wait")
<1>1. ASSUME NEW p \in Decoys(a)
      PROVE  p \in Paths /\ at[p] \in 1..made /\ owner[at[p]] = p /\ at[p] \in 1..MaxNodes
  <2>1. p \in Paths /\ at[p] # None
    BY DEF AllThere, Decoys
  <2>2. at[p] \in 1..made /\ owner[at[p]] = p
    BY <2>1, DecoyFile
  <2>3. QED
    BY <2>1, <2>2, BoundsAre DEF FilesOK
<1>2. DOMAIN r = {at[p] : p \in Decoys(a)}
  OBVIOUS
<1>3. IsFiniteSet(DOMAIN r) /\ DOMAIN r \subseteq Nat
  <2>1. DOMAIN r \subseteq 1..made /\ made \in Nat
    BY <1>1, <1>2, BoundsAre DEF FilesOK
  <2>2. IsFiniteSet(1..made)
    BY <2>1, FS_Interval
  <2>3. QED
    BY <2>1, <2>2, FS_Subset
<1>4. ASSUME NEW k \in DOMAIN r
      PROVE  /\ k > 0 /\ r[k].file = k /\ r[k].live = TRUE /\ k = at[r[k].path]
             /\ r[k] \in Descriptor /\ r[k].path \in Decoys(a) /\ r[k].file = at[r[k].path]
  <2>1. PICK p \in Decoys(a) : k = at[p]
    BY <1>2
  <2>2. r[k] = [path |-> p, file |-> at[p], live |-> TRUE]
    BY <1>1, <2>1
  <2>3. at[p] > 0
    BY <1>1, BoundsAre DEF FilesOK
  <2>4. QED
    BY <1>1, <2>1, <2>2, <2>3 DEF Descriptor
<1>5. ASSUME NEW k \in DOMAIN r, NEW l \in DOMAIN r, r[k].path = r[l].path
      PROVE  k = l
  <2>1. k = at[r[k].path] /\ l = at[r[l].path]
    BY <1>4
  <2>2. QED
    BY <1>5, <2>1
<1>6. ASSUME NEW p \in Decoys(a) PROVE \E k \in DOMAIN r : r[k].path = p
  <2>1. at[p] \in DOMAIN r
    BY <1>2
  <2>2. r[at[p]].path = p
    BY <1>1, <2>1
  <2>3. QED
    BY <2>1, <2>2
<1>7. ~MacOS
  BY HostIs DEF FilesOK
<1>8. r = [k \in DOMAIN r |-> r[k]]
  OBVIOUS
<1>9. QED
  BY <1>3, <1>4, <1>5, <1>6, <1>7, <1>8, ZenonT(40) DEF Complete

LEMMA NumberedComplete ==
    ASSUME FilesOK, NEW a, ~Linux, AllThere(a), NEW next \in {"wait", "opened"}, next = "opened" <=> MacOS,
           NEW r, r = Numbered(a, next = "wait")
    PROVE  Complete(a, r, next)
<1>1. ASSUME NEW p \in Decoys(a)
      PROVE  p \in Paths /\ at[p] \in 1..MaxNodes
  <2>1. p \in Paths /\ at[p] # None
    BY DEF AllThere, Decoys
  <2>2. at[p] \in 1..made
    BY <2>1, DecoyFile
  <2>3. QED
    BY <2>1, <2>2, BoundsAre DEF FilesOK
<1>2. PICK decoys : decoys = SetToSeq(Decoys(a))
  OBVIOUS
<1>3. PICK n : n = Len(decoys)
  OBVIOUS
<1>4. /\ n \in Nat /\ decoys \in Seq(Decoys(a))
      /\ \A i, j \in 1..n : decoys[i] = decoys[j] => i = j
      /\ \A p \in Decoys(a) : \E i \in 1..n : decoys[i] = p
  <2>1. IsFiniteSet(Decoys(a))
    BY DecoysFinite
  <2>2. QED
    BY <1>2, <1>3, <2>1, InOrder
<1>5. r = [k \in 1..n |-> [path |-> decoys[k], file |-> at[decoys[k]], live |-> (next = "wait")]]
  BY <1>2, <1>3 DEF Numbered
<1>6. DOMAIN r = 1..n /\ r = [k \in DOMAIN r |-> r[k]]
  BY <1>5
<1>7. IsFiniteSet(DOMAIN r) /\ DOMAIN r \subseteq Nat
  <2>1. IsFiniteSet(1..n) /\ 1..n \subseteq Nat
    BY <1>4, FS_Interval
  <2>2. QED
    BY <1>6, <2>1
<1>8. ASSUME NEW k \in DOMAIN r
      PROVE  /\ k > 0 /\ r[k].live = (next = "wait") /\ r[k].path = decoys[k]
             /\ r[k] \in Descriptor /\ r[k].path \in Decoys(a) /\ r[k].file = at[r[k].path]
  <2>1. r[k] = [path |-> decoys[k], file |-> at[decoys[k]], live |-> (next = "wait")]
    BY <1>5, <1>6
  <2>2. decoys[k] \in Decoys(a)
    BY <1>3, <1>4, <1>6
  <2>3. decoys[k] \in Paths /\ at[decoys[k]] \in 1..MaxNodes
    BY <1>1, <2>2
  <2>4. r[k] \in Descriptor
    <3>1. PICK x, y, z : x = decoys[k] /\ y = at[decoys[k]] /\ z = (next = "wait")
      OBVIOUS
    <3>2. z \in BOOLEAN
      BY <3>1
    <3>3. [path |-> x, file |-> y, live |-> z] \in Descriptor
      BY <2>3, <3>1, <3>2 DEF Descriptor
    <3>4. QED
      BY <2>1, <3>1, <3>3
  <2>5. QED
    BY <1>4, <1>6, <2>1, <2>2, <2>4
<1>9. \A k, l \in DOMAIN r : r[k].path = r[l].path => k = l
  BY <1>4, <1>6, <1>8
<1>10. \A p \in Decoys(a) : \E k \in DOMAIN r : r[k].path = p
  BY <1>4, <1>6, <1>8
<1>11. QED
  BY <1>6, <1>7, <1>8, <1>9, <1>10 DEF Complete

LEMMA StartsSafe ==
    ASSUME Inv, NEW a \in Assets, StartLinux(a) \/ StartOpen(a) \/ StartWindows(a)
    PROVE  Inv'
<1>1. FilesOK /\ env \in Environments
  BY DEF Inv, WatcherOK, FilesOK
<1>2. CASE StartLinux(a)
  <2>1. PICK r : r = [n \in {at[p] : p \in Decoys(a)} |-> [path |-> owner[n], file |-> n, live |-> TRUE]]
    OBVIOUS
  <2>2. Started(a, r, "wait") /\ Linux /\ AllThere(a)
    BY <1>2, <2>1 DEF StartLinux, Started
  <2>3. QED
    BY <1>1, <2>1, <2>2, LinuxComplete, StartedSafe
<1>3. CASE StartOpen(a)
  <2>1. PICK r : r = Numbered(a, FALSE)
    OBVIOUS
  <2>2. Started(a, r, "opened") /\ MacOS /\ AllThere(a)
    BY <1>3, <2>1 DEF StartOpen, Started
  <2>3. r = Numbered(a, "opened" = "wait")
    BY <2>1
  <2>4. Complete(a, r, "opened")
    BY <1>1, <2>2, <2>3, HostIs, NumberedComplete
  <2>5. QED
    BY <2>2, <2>4, StartedSafe
<1>4. CASE StartWindows(a)
  <2>1. PICK r : r = Numbered(a, TRUE)
    OBVIOUS
  <2>2. Started(a, r, "wait") /\ Windows /\ AllThere(a)
    BY <1>4, <2>1 DEF StartWindows, Started
  <2>3. r = Numbered(a, "wait" = "wait")
    BY <2>1
  <2>4. Complete(a, r, "wait")
    BY <1>1, <2>2, <2>3, HostIs, NumberedComplete
  <2>5. QED
    BY <2>2, <2>4, StartedSafe
<1>5. QED
  BY <1>2, <1>3, <1>4

\* kqueue: the descriptors are attached; a decoy that went away in between is a known gap.
LEMMA StartAttachSafe ==
    ASSUME Inv, NEW a \in Assets, StartAttach(a)
    PROVE  Inv'
<1>1. WatcherOK /\ FilesOK /\ Shapes /\ HistoryOK
  BY DEF Inv, WatcherOK, Watchers
<1>2. PICK r : r = [k \in DOMAIN reg[a] |-> [reg[a][k] EXCEPT !.live = TRUE]]
  OBVIOUS
<1>3. /\ kernel' = kernel /\ pending' = pending /\ todo' = todo /\ batch' = batch /\ at' = at
      /\ handler' = handler /\ phase' = phase /\ stop' = stop /\ pc[a] = "opened"
      /\ pc' = [pc EXCEPT ![a] = "wait"] /\ flight' = flight /\ done' = done /\ notices' = notices
      /\ unseen' = unseen /\ cut' = cut /\ claim' = claim /\ reg' = [reg EXCEPT ![a] = r]
      /\ gap' = gap \cup (Decoys(a) \ Attached(reg'[a]))
  BY <1>2 DEF StartAttach, command, service, files
<1>4. Grown
  <2>1. UNCHANGED <<files, env>>
    BY DEF StartAttach, counters
  <2>2. QED
    BY <1>1, <2>1, FilesStay
<1>5. pc'[a] = "wait" /\ reg'[a] = r
  BY <1>1, <1>3 DEF Shapes
<1>6. Shapes' /\ HistoryOK'
  <2>1. reg' = [b \in Assets |-> reg'[b]] /\ pc' \in [Assets -> Steps]
    BY <1>1, <1>3 DEF Shapes, Steps
  <2>2. gap' \subseteq Paths
    BY <1>1, <1>3 DEF HistoryOK, Decoys
  <2>3. QED
    BY <1>1, <1>3, <2>1, <2>2 DEF Shapes, HistoryOK
<1>7. Apart(a)
  BY <1>1, <1>3, <1>4, <1>6 DEF Apart, Untouched, Shapes
<1>8. RegOK(a) /\ KernelOK(a) /\ BatchOK(a) /\ ThreadOK(a) /\ HandlerOK(a)
  BY <1>1 DEF WatcherOK, Watchers, AssetOK
<1>9. kernel[a] = <<>> /\ batch[a] = <<>> /\ handler[a] = NoHandler /\ pending[a] = {} /\ todo[a] = {}
      /\ stop[a] = "no" /\ phase # "stopping" /\ MacOS
  BY <1>3, <1>8 DEF ThreadOK, BatchOK, HandlerOK, RespondingOK, AttachingOK, Starts
<1>10. /\ Linux' = Linux /\ MacOS' = MacOS /\ Windows' = Windows /\ Decoys(a)' = Decoys(a)
       /\ ~Linux /\ ~Windows
  BY <1>1, <1>4, <1>9, SameHost, HostIs DEF FilesOK
<1>11. ASSUME NEW k \in DOMAIN r
       PROVE  /\ k \in DOMAIN reg[a] /\ r[k] \in Descriptor /\ r[k].path = reg[a][k].path
              /\ r[k].file = reg[a][k].file /\ r[k].live = TRUE
  <2>1. PICK d : d = reg[a][k]
    OBVIOUS
  <2>2. k \in DOMAIN reg[a] /\ r[k] = [d EXCEPT !.live = TRUE]
    BY <1>2, <2>1
  <2>3. d \in Descriptor
    BY <1>8, <2>1, <2>2 DEF RegOK, EntryOK
  <2>4. QED
    BY <2>1, <2>2, <2>3 DEF Descriptor
<1>12. RegOK(a)'
  <2>1. DOMAIN r = DOMAIN reg[a] /\ r = [k \in DOMAIN r |-> r[k]]
    BY <1>2
  <2>2. ASSUME NEW k \in DOMAIN r PROVE EntryOK(a, k)'
    <3>1. EntryOK(a, k) /\ r[k] \in Descriptor /\ r[k].path = reg[a][k].path /\ r[k].file = reg[a][k].file
      BY <1>8, <1>11, <2>1 DEF RegOK
    <3>2. reg[a][k].file \in 1..made
      BY <1>4, <3>1 DEF EntryOK, Descriptor, Grown
    <3>3. owner'[reg[a][k].file] = owner[reg[a][k].file] /\ reg[a][k].file <= made'
      BY <1>4, <3>2 DEF Grown
    <3>4. QED
      BY <1>5, <1>10, <3>1, <3>3 DEF EntryOK
  <2>3. Single(a)'
    <3>1. Single(a)
      BY <1>8, <1>10 DEF RegOK
    <3>2. ASSUME NEW k \in DOMAIN r, NEW l \in DOMAIN r, r[k].path = r[l].path
          PROVE  k = l
      <4>1. reg[a][k].path = reg[a][l].path /\ k \in DOMAIN reg[a] /\ l \in DOMAIN reg[a]
        BY <1>11, <3>2
      <4>2. QED
        BY <1>3, <3>1, <4>1 DEF Single
    <3>3. QED
      BY <1>5, <3>2 DEF Single
  <2>4. pending'[a] = {}
    BY <1>3, <1>9
  <2>5. QED
    BY <1>5, <1>8, <1>10, <2>1, <2>2, <2>3, <2>4 DEF RegOK
<1>13. KernelOK(a)' /\ BatchOK(a)'
  <2>1. Len(kernel'[a]) = 0 /\ Len(batch'[a]) = 0 /\ QueueMax \in Nat
    BY <1>3, <1>9, BoundsAre
  <2>2. KernelOK(a)'
    BY <2>1 DEF KernelOK, QueueOK, Once
  <2>3. BatchOK(a)'
    BY <1>3, <1>5, <1>9, <2>1 DEF BatchOK, Once
  <2>4. QED
    BY <2>2, <2>3
<1>14. ThreadOK(a)'
  BY <1>3, <1>5, <1>9, <1>10 DEF ThreadOK
<1>15. HandlerOK(a)'
  BY <1>3, <1>5, <1>9 DEF HandlerOK
<1>16. AssetOK(a)'
  BY <1>12, <1>13, <1>14, <1>15 DEF AssetOK
<1>17. Honest(a)'
  BY <1>3, HonestStays DEF Inv
<1>18. ASSUME NEW p \in Decoys(a) PROVE Covered(p)' /\ Earned(p)'
  <2>1. p \in Paths /\ a = env.assetOf[p] /\ env'.assetOf[p] = a
    BY <1>4, SameHost DEF Decoys
  <2>2. Covered(p)'
    <3>1. CASE p \in Attached(r)
      <4>1. PICK k \in DOMAIN r : r[k].live /\ at[r[k].path] = r[k].file /\ r[k].path = p
        BY <3>1 DEF Attached
      <4>2. k \in Listening(a, p, at[p])'
        BY <1>3, <1>5, <1>10, <4>1 DEF Listening
      <4>3. at[p] # None
        <5>1. r[k] \in Descriptor
          BY <1>11
        <5>2. r[k].file \in 1..MaxNodes
          BY <5>1 DEF Descriptor
        <5>3. QED
          BY <4>1, <5>2, BoundsAre DEF None
      <4>4. Heeded(p)'
        BY <1>3, <2>1, <4>2, <4>3 DEF Heeded, Watching
      <4>5. QED
        BY <2>1, <4>4 DEF Covered
    <3>2. CASE p \notin Attached(r)
      <4>1. p \in gap'
        BY <1>3, <1>5, <3>2
      <4>2. QED
        BY <4>1 DEF Covered
    <3>3. QED
      BY <3>1, <3>2
  <2>3. Earned(p)'
    BY <1>1, <1>3, <1>4, <1>9, <2>1, EarnedWhenEmpty DEF Inv
  <2>4. QED
    BY <2>2, <2>3
<1>19. QED
  BY <1>7, <1>16, <1>17, <1>18, ApartSafe

-----------------------------------------------------------------------------
(* The head of the loop, and a path that is tried in vain.                 *)

\* The thread goes on, or ends, with what it has.
Onward(a) ==
    /\ UNCHANGED <<files, kernel, watcher, batch, command, service, env, history>>
    /\ \A b \in Assets : b # a => pc'[b] = pc[b] /\ todo'[b] = todo[b] /\ handler'[b] = handler[b]
    /\ pc' \in [Assets -> Steps] /\ todo' \in [Assets -> SUBSET Paths] /\ handler' \in [Assets -> Handler]
    /\ pc[a] \in {"wait", "retry", "attach"} /\ handler[a].step = "none" /\ handler'[a] = NoHandler
    /\ pc'[a] \in {"wait", "retry", "ended"}
    /\ todo'[a] \subseteq pending[a] /\ (todo'[a] = {} <=> pc'[a] # "retry")

LEMMA OnwardSafe ==
    ASSUME Inv, NEW a \in Assets, Onward(a)
    PROVE  Inv'
<1>1. WatcherOK /\ FilesOK /\ Shapes /\ HistoryOK
  BY DEF Inv, WatcherOK, Watchers
<1>2. /\ kernel' = kernel /\ reg' = reg /\ pending' = pending /\ batch' = batch /\ at' = at
      /\ phase' = phase /\ stop' = stop /\ flight' = flight /\ done' = done /\ notices' = notices
      /\ unseen' = unseen /\ gap' = gap /\ cut' = cut /\ claim' = claim
  BY DEF Onward, watcher, command, service, history, files
<1>3. Grown
  BY <1>1, FilesStay DEF Onward
<1>4. Shapes' /\ HistoryOK'
  BY <1>1, <1>2 DEF Shapes, HistoryOK, Onward
<1>5. Apart(a)
  BY <1>2, <1>3, <1>4 DEF Apart, Untouched, Onward
<1>6. RegOK(a) /\ KernelOK(a) /\ BatchOK(a) /\ ThreadOK(a) /\ kernel[a] \in Seq(Event) /\ batch[a] \in Seq(Event)
  BY <1>1 DEF WatcherOK, Watchers, AssetOK, Shapes
<1>7. pc[a] # "batch" /\ pc'[a] # "batch" /\ pc[a] \in Runs /\ pc'[a] \notin Starts
  BY DEF Onward, Starts, Runs
<1>8. RegOK(a)'
  <2>1. reg'[a] = [k \in DOMAIN reg'[a] |-> reg'[a][k]]
    BY <1>2, <1>6 DEF RegOK
  <2>2. QED
    BY <1>2, <1>3, <1>6, <1>7, <2>1, RegStays DEF Starts
<1>9. KernelOK(a)'
  BY <1>2, <1>3, <1>6, KernelStays
<1>10. batch[a] = <<>> /\ Len(batch[a]) = 0
  BY <1>6, <1>7 DEF BatchOK
<1>11. BatchOK(a)'
  BY <1>2, <1>7, <1>10 DEF BatchOK, Once
<1>12. ThreadOK(a)'
  <2>1. pc'[a] \notin {"off", "seeded", "opened"} /\ stop[a] # "done" /\ pc'[a] # "attach"
    BY <1>6 DEF Onward, ThreadOK
  <2>2. QED
    BY <1>2, <1>3, <1>6, <1>7, <2>1, SameHost DEF Onward, ThreadOK
<1>13. HandlerOK(a)'
  BY DEF HandlerOK, Onward
<1>14. AssetOK(a)'
  BY <1>8, <1>9, <1>11, <1>12, <1>13 DEF AssetOK
<1>15. Honest(a)'
  <2>1. Honest(a) /\ handler'[a].step = "none"
    BY DEF Onward, NoHandler, Inv
  <2>2. QED
    BY <1>2, <2>1 DEF Honest
<1>16. ASSUME WatcherOK', NEW p \in Decoys(a) PROVE Covered(p)' /\ Earned(p)'
  <2>1. p \in Paths /\ a = env.assetOf[p] /\ env'.assetOf[p] = a /\ Covered(p) /\ Earned(p)
    BY <1>3, SameHost DEF Decoys, Inv
  <2>2. stop'[a] # "done" => stop[a] # "done"
    BY <1>2
  <2>3. Covered(p)'
    BY <1>2, <1>3, <1>7, <2>1, <2>2, CoveredStays
  <2>4. Left(a)' = Left(a)
    BY <1>2 DEF Left, Onward, NoHandler
  <2>5. \A class \in Classes : InHand(p, class)' = InHand(p, class)
    BY <2>1 DEF InHand, Onward, NoHandler
  <2>6. KeysHeld(kernel[a], a) /\ KeysHeld(Left(a), a)
    BY <1>2 DEF KeysHeld
  <2>7. kernel'[a] = kernel[a] /\ done'[p] = done[p] /\ notices'[p] = notices[p]
    BY <1>2
  <2>8. Earned(p)'
    BY <1>1, <1>3, <1>16, <2>1, <2>4, <2>5, <2>6, <2>7, EarnedKept
  <2>9. QED
    BY <2>3, <2>8
<1>17. QED
  BY <1>5, <1>14, <1>15, <1>16, ApartSafe

LEMMA TriedIs ==
    ASSUME Shapes, NEW a \in Assets, NEW p, Tried(a, p), p \in todo[a]
    PROVE  /\ pc' \in [Assets -> Steps] /\ todo' \in [Assets -> SUBSET Paths]
           /\ todo'[a] = todo[a] \ {p} /\ pc'[a] = IF todo[a] = {p} THEN "wait" ELSE "retry"
           /\ todo'[a] = {} <=> pc'[a] # "retry"
           /\ \A b \in Assets : b # a => pc'[b] = pc[b] /\ todo'[b] = todo[b]
<1>1. /\ todo' = [todo EXCEPT ![a] = todo[a] \ {p}]
      /\ pc' = [pc EXCEPT ![a] = IF todo[a] = {p} THEN "wait" ELSE "retry"]
  BY DEF Tried
<1>2. todo \in [Assets -> SUBSET Paths] /\ pc \in [Assets -> Steps]
  BY DEF Shapes
<1>3. PICK c, t : c = (IF todo[a] = {p} THEN "wait" ELSE "retry") /\ t = todo[a] \ {p}
  OBVIOUS
<1>4. c \in Steps /\ t \in SUBSET Paths
  BY <1>2, <1>3 DEF Steps
<1>5. pc' = [pc EXCEPT ![a] = c] /\ todo' = [todo EXCEPT ![a] = t]
  BY <1>1, <1>3
<1>6. /\ pc' \in [Assets -> Steps] /\ todo' \in [Assets -> SUBSET Paths] /\ pc'[a] = c /\ todo'[a] = t
      /\ \A b \in Assets : b # a => pc'[b] = pc[b] /\ todo'[b] = todo[b]
  BY <1>2, <1>4, <1>5
<1>7. t = {} <=> c # "retry"
  BY <1>3
<1>8. QED
  BY <1>3, <1>6, <1>7

LEMMA TurnIs ==
    ASSUME Shapes, NEW a \in Assets, NEW paths \in SUBSET Paths, Turn(a, paths)
    PROVE  /\ pc' \in [Assets -> Steps] /\ todo' \in [Assets -> SUBSET Paths]
           /\ pc'[a] \in {"wait", "retry", "ended"} /\ todo'[a] \subseteq paths
           /\ todo'[a] = {} <=> pc'[a] # "retry"
           /\ \A b \in Assets : b # a => pc'[b] = pc[b] /\ todo'[b] = todo[b]
           /\ stop[a] # "no" => pc'[a] = "ended"
<1>1. todo \in [Assets -> SUBSET Paths] /\ pc \in [Assets -> Steps]
  BY DEF Shapes
<1>2. PICK c, t : /\ c = (IF Stopping(a) THEN "ended" ELSE IF paths # {} THEN "retry" ELSE "wait")
                  /\ t = (IF Stopping(a) THEN {} ELSE paths)
  OBVIOUS
<1>3. pc' = [pc EXCEPT ![a] = c] /\ todo' = [todo EXCEPT ![a] = t]
  BY <1>2 DEF Turn
<1>4. c \in Steps /\ t \in SUBSET Paths
  BY <1>2 DEF Steps
<1>5. /\ pc' \in [Assets -> Steps] /\ todo' \in [Assets -> SUBSET Paths] /\ pc'[a] = c /\ todo'[a] = t
      /\ \A b \in Assets : b # a => pc'[b] = pc[b] /\ todo'[b] = todo[b]
  BY <1>1, <1>3, <1>4
<1>6. /\ c \in {"wait", "retry", "ended"} /\ t \subseteq paths
      /\ t = {} <=> c # "retry"
      /\ stop[a] # "no" => c = "ended"
  BY <1>2 DEF Stopping
<1>7. QED
  BY <1>5, <1>6

LEMMA IdleSafe ==
    ASSUME Inv, NEW a \in Assets, Idle(a)
    PROVE  Inv'
<1>1. Shapes /\ AssetOK(a) /\ pending[a] \in SUBSET Paths
  BY DEF Inv, WatcherOK, Watchers, Shapes
<1>2. handler[a] = NoHandler /\ pc[a] = "wait"
  BY <1>1 DEF AssetOK, HandlerOK, RespondingOK, AttachingOK, Idle
<1>3. handler' = handler /\ handler \in [Assets -> Handler]
  BY <1>1 DEF Idle, Shapes
<1>4. /\ pc' \in [Assets -> Steps] /\ todo' \in [Assets -> SUBSET Paths]
      /\ pc'[a] \in {"wait", "retry", "ended"} /\ todo'[a] \subseteq pending[a]
      /\ todo'[a] = {} <=> pc'[a] # "retry"
      /\ \A b \in Assets : b # a => pc'[b] = pc[b] /\ todo'[b] = todo[b]
  BY <1>1, TurnIs DEF Idle
<1>5. Onward(a)
  BY <1>2, <1>3, <1>4 DEF Onward, Idle, counters, NoHandler
<1>6. QED
  BY <1>5, OnwardSafe

LEMMA LoopBreaksSafe ==
    ASSUME Inv, NEW a \in Assets, LoopBreaks(a)
    PROVE  Inv'
<1>1. Shapes /\ AssetOK(a)
  BY DEF Inv, WatcherOK, Watchers
<1>2. handler[a] = NoHandler /\ pc[a] = "wait" /\ todo[a] = {}
  BY <1>1 DEF AssetOK, HandlerOK, RespondingOK, AttachingOK, LoopBreaks, ThreadOK
<1>3. handler' = handler /\ handler \in [Assets -> Handler] /\ todo' = todo /\ todo \in [Assets -> SUBSET Paths]
  BY <1>1 DEF LoopBreaks, Shapes
<1>4. pc' = [pc EXCEPT ![a] = "ended"] /\ pc' \in [Assets -> Steps] /\ pc'[a] = "ended"
  BY <1>1 DEF LoopBreaks, Shapes, Steps
<1>5. Onward(a)
  BY <1>2, <1>3, <1>4 DEF Onward, LoopBreaks, NoHandler
<1>6. QED
  BY <1>5, OnwardSafe

LEMMA StillMissingSafe ==
    ASSUME Inv, NEW a \in Assets, NEW p, StillMissing(a, p)
    PROVE  Inv'
<1>1. Shapes /\ AssetOK(a)
  BY DEF Inv, WatcherOK, Watchers
<1>2. handler[a] = NoHandler /\ pc[a] = "retry" /\ todo[a] \subseteq pending[a]
  BY <1>1 DEF AssetOK, HandlerOK, RespondingOK, AttachingOK, StillMissing, ThreadOK
<1>3. handler' = handler /\ handler \in [Assets -> Handler]
  BY <1>1 DEF StillMissing, Shapes
<1>4. /\ pc' \in [Assets -> Steps] /\ todo' \in [Assets -> SUBSET Paths]
      /\ todo'[a] = todo[a] \ {p} /\ pc'[a] = IF todo[a] = {p} THEN "wait" ELSE "retry"
      /\ todo'[a] = {} <=> pc'[a] # "retry"
      /\ \A b \in Assets : b # a => pc'[b] = pc[b] /\ todo'[b] = todo[b]
  BY <1>1, TriedIs DEF StillMissing
<1>5. UNCHANGED <<files, kernel, watcher, batch, command, service, env, history>>
  BY DEF StillMissing
<1>6. Onward(a)
  BY <1>2, <1>3, <1>4, <1>5 DEF Onward, NoHandler
<1>7. QED
  BY <1>6, OnwardSafe

LEMMA AttachFailsSafe ==
    ASSUME Inv, NEW a \in Assets, AttachFails(a)
    PROVE  Inv'
<1>1. Shapes /\ AssetOK(a)
  BY DEF Inv, WatcherOK, Watchers
<1>2. AttachingOK(a) /\ pc[a] = "attach" /\ todo[a] \subseteq pending[a]
  BY <1>1 DEF AssetOK, HandlerOK, RespondingOK, AttachFails, ThreadOK
<1>3. PICK p : p = handler[a].path
  OBVIOUS
<1>4. handler' = [handler EXCEPT ![a] = NoHandler] /\ handler \in [Assets -> Handler] /\ NoHandler \in Handler
  BY <1>1 DEF AttachFails, Shapes, NoHandler, Handler, None, Masks
<1>5. handler[a].step = "none" /\ handler'[a] = NoHandler /\ handler' \in [Assets -> Handler] /\ p \in todo[a]
      /\ \A b \in Assets : b # a => handler'[b] = handler[b]
  BY <1>2, <1>3, <1>4 DEF AttachingOK
<1>6. /\ pc' \in [Assets -> Steps] /\ todo' \in [Assets -> SUBSET Paths]
      /\ todo'[a] = todo[a] \ {p} /\ pc'[a] = IF todo[a] = {p} THEN "wait" ELSE "retry"
      /\ todo'[a] = {} <=> pc'[a] # "retry"
      /\ \A b \in Assets : b # a => pc'[b] = pc[b] /\ todo'[b] = todo[b]
  BY <1>1, <1>3, <1>5, TriedIs DEF AttachFails
<1>7. UNCHANGED <<files, kernel, watcher, batch, command, service, env, history>>
  BY DEF AttachFails
<1>8. Onward(a)
  BY <1>2, <1>5, <1>6, <1>7 DEF Onward
<1>9. QED
  BY <1>8, OnwardSafe

-----------------------------------------------------------------------------
(* Reading the events that wait.                                           *)

LEMMA ReadSafe ==
    ASSUME Inv, NEW a \in Assets, Read(a)
    PROVE  Inv'
<1>1. WatcherOK /\ FilesOK /\ Shapes /\ HistoryOK
  BY DEF Inv, WatcherOK, Watchers
<1>2. PICK q : q = kernel[a]
  OBVIOUS
<1>3. /\ reg' = reg /\ pending' = pending /\ todo' = todo /\ at' = at
      /\ handler' = handler /\ phase' = phase /\ stop' = stop /\ pc[a] = "wait"
      /\ pc' = [pc EXCEPT ![a] = "batch"] /\ flight' = flight /\ done' = done /\ notices' = notices
      /\ unseen' = unseen /\ gap' = gap /\ cut' = cut /\ claim' = claim
      /\ kernel' = [kernel EXCEPT ![a] = <<>>] /\ batch' = [batch EXCEPT ![a] = q] /\ q # <<>>
  BY <1>2 DEF Read, watcher, command, service, history, files
<1>4. Grown
  <2>1. UNCHANGED <<files, env>>
    BY DEF Read, counters
  <2>2. QED
    BY <1>1, <2>1, FilesStay
<1>5. pc'[a] = "batch" /\ kernel'[a] = <<>> /\ batch'[a] = q /\ q \in Seq(Event)
  BY <1>1, <1>2, <1>3 DEF Shapes
<1>6. Shapes' /\ HistoryOK'
  <2>1. pc' \in [Assets -> Steps] /\ kernel' \in [Assets -> Seq(Event)] /\ batch' \in [Assets -> Seq(Event)]
    <3>1. <<>> \in Seq(Event)
      OBVIOUS
    <3>2. QED
      BY <1>1, <1>3, <1>5, <3>1 DEF Shapes, Steps
  <2>2. QED
    BY <1>1, <1>3, <2>1 DEF Shapes, HistoryOK
<1>7. Apart(a)
  BY <1>1, <1>3, <1>4, <1>6 DEF Apart, Untouched, Shapes
<1>8. RegOK(a) /\ KernelOK(a) /\ BatchOK(a) /\ ThreadOK(a) /\ HandlerOK(a)
  BY <1>1 DEF WatcherOK, Watchers, AssetOK
<1>9. batch[a] = <<>> /\ handler[a] = NoHandler /\ todo[a] = {}
  BY <1>3, <1>8 DEF ThreadOK, BatchOK, HandlerOK, RespondingOK, AttachingOK
<1>10. RegOK(a)'
  <2>1. reg'[a] = [k \in DOMAIN reg'[a] |-> reg'[a][k]]
    BY <1>3, <1>8 DEF RegOK
  <2>2. QED
    BY <1>3, <1>4, <1>5, <1>8, <2>1, RegStays
<1>11. QueueOK(q) /\ \A i \in 1..Len(q) : EventOK(q[i])'
  <2>1. QueueOK(q)
    BY <1>2, <1>8 DEF KernelOK
  <2>2. QED
    BY <1>4, <1>5, <2>1, EventsStay DEF QueueOK
<1>12. KernelOK(a)'
  <2>1. Len(kernel'[a]) = 0 /\ QueueMax \in Nat
    BY <1>5, BoundsAre
  <2>2. QED
    BY <2>1 DEF KernelOK, QueueOK, Once
<1>13. BatchOK(a)'
  <2>1. Once(q) /\ (MacOS => \A i \in 1..Len(q) : q[i].key \in DOMAIN reg[a] => reg[a][q[i].key].live)
    BY <1>2, <1>8, <1>11 DEF KernelOK, QueueOK
  <2>2. batch'[a] # <<>> /\ pc'[a] = "batch"
    BY <1>3, <1>5
  <2>3. \A i \in 1..Len(batch'[a]) : EventOK(batch[a][i])'
    BY <1>5, <1>11 DEF EventOK
  <2>4. Once(batch[a])'
    BY <1>4, <1>5, <2>1, SameHost DEF Once
  <2>5. MacOS' => \A i \in 1..Len(batch'[a]) :
                      batch'[a][i].key \in DOMAIN reg'[a] => reg'[a][batch'[a][i].key].live
    BY <1>3, <1>4, <1>5, <2>1, SameHost
  <2>6. QED
    BY <2>2, <2>3, <2>4, <2>5 DEF BatchOK
<1>14. ThreadOK(a)'
  <2>1. stop[a] # "done"
    BY <1>3, <1>8 DEF ThreadOK
  <2>2. QED
    BY <1>3, <1>4, <1>5, <1>8, <1>9, <2>1, SameHost DEF ThreadOK, Starts
<1>15. HandlerOK(a)'
  BY <1>3, <1>5, <1>9 DEF HandlerOK
<1>16. AssetOK(a)'
  BY <1>10, <1>12, <1>13, <1>14, <1>15 DEF AssetOK
<1>17. Honest(a)'
  BY <1>3, HonestStays DEF Inv
<1>18. ASSUME WatcherOK', NEW p \in Decoys(a) PROVE Covered(p)' /\ Earned(p)'
  <2>1. p \in Paths /\ a = env.assetOf[p] /\ env'.assetOf[p] = a /\ Covered(p) /\ Earned(p)
    BY <1>4, SameHost DEF Decoys, Inv
  <2>2. Covered(p)'
    <3>1. stop[a] # "done"
      BY <1>3, <1>8 DEF ThreadOK
    <3>2. p \in pending[a] \/ p \in gap \/ Heeded(p) \/ Told(q, a, p)
      <4>1. ~Told(batch[a], a, p)
        <5>1. Len(batch[a]) = 0
          BY <1>9
        <5>2. QED
          BY <5>1 DEF Told
      <4>2. QED
        BY <1>2, <1>3, <2>1, <3>1, <4>1 DEF Covered, Runs
    <3>3. Heeded(p) => Heeded(p)'
      BY <1>3, <1>4, <2>1, HeededStays
    <3>4. Told(q, a, p) => Told(batch[a], a, p)'
      BY <1>3, <1>4, <1>5, SameHost DEF Told, Telling
    <3>5. QED
      BY <1>3, <2>1, <3>2, <3>3, <3>4 DEF Covered
  <2>3. Earned(p)'
    <3>1. PICK l, r, m : l = Left(a) /\ r = kernel'[a] /\ m = Left(a)'
      OBVIOUS
    <3>2. l = <<>> /\ r = <<>> /\ m = q
      BY <1>3, <1>5, <1>9, <3>1 DEF Left, NoHandler
    <3>3. ASSUME NEW class \in Classes
          PROVE  notices'[p][class] + InHand(p, class)' + Tally(r, KeysOf(p)', MasksOf(class))
                         + Tally(m, KeysOf(p)', MasksOf(class))
                     <= notices[p][class] + InHand(p, class) + Tally(q, KeysOf(p), MasksOf(class))
                            + Tally(l, KeysOf(p), MasksOf(class))
      <4>1. InHand(p, class)' = InHand(p, class) /\ InHand(p, class) \in Nat
        BY <1>3, <2>1 DEF InHand
      <4>2. notices'[p][class] = notices[p][class] /\ notices[p][class] \in Nat
        BY <1>1, <1>3, <2>1 DEF HistoryOK
      <4>3. Linux => \A i \in 1..Len(q) : q[i].key <= made
        BY <1>11 DEF QueueOK, EventOK
      <4>4. /\ Tally(q, KeysOf(p)', MasksOf(class)) <= Tally(q, KeysOf(p), MasksOf(class))
            /\ Tally(q, KeysOf(p)', MasksOf(class)) \in Nat /\ Tally(q, KeysOf(p), MasksOf(class)) \in Nat
        BY <1>3, <1>4, <1>5, <2>1, <4>3, TallyStays
      <4>5. Tally(r, KeysOf(p)', MasksOf(class)) = 0 /\ Tally(l, KeysOf(p), MasksOf(class)) = 0
        BY <3>2, TallyEmpty
      <4>6. QED
        BY <3>2, <4>1, <4>2, <4>4, <4>5
    <3>4. QED
      BY <1>1, <1>2, <1>3, <1>4, <1>18, <2>1, <3>1, <3>3, EarnedFewer
  <2>4. QED
    BY <2>2, <2>3
<1>19. QED
  BY <1>7, <1>16, <1>17, <1>18, ApartSafe

-----------------------------------------------------------------------------
(* Registering a decoy again.                                              *)

\* Descriptor k of decoy p is opened, or attached, or both.
Registers(a, p, k, r) ==
    /\ UNCHANGED <<files, kernel, batch, command, service, env, done, notices, unseen, cut, claim>>
    /\ ~Windows /\ pc[a] \in {"retry", "attach"} /\ p \in todo[a] /\ p \in Decoys(a)
    /\ k \in Nat /\ k > 0 /\ (Linux => r[k].file = k)
    /\ r[k] \in Descriptor /\ r[k].path = p /\ r[k].file <= made /\ owner[r[k].file] = p
    /\ DOMAIN r = DOMAIN reg[a] \cup {k} /\ r = [j \in DOMAIN r |-> r[j]]
    /\ \A j \in DOMAIN reg[a] : j # k => r[j] = reg[a][j]
    /\ k \in DOMAIN reg[a] => reg[a][k].path = p /\ (reg[a][k].live => r[k].live)
                              /\ reg[a][k].file = r[k].file
    /\ reg' = [reg EXCEPT ![a] = r]
    /\ pending' = [pending EXCEPT ![a] = pending'[a]]
    /\ pending'[a] \subseteq pending[a] /\ pending[a] \subseteq pending'[a] \cup {p}
    /\ MacOS /\ r[k].live => p \notin pending'[a]
    /\ gap' \subseteq Paths /\ \A s \in gap : s # p => s \in gap'
    /\ \A b \in Assets : b # a => pc'[b] = pc[b] /\ todo'[b] = todo[b] /\ handler'[b] = handler[b]
    /\ pc' \in [Assets -> Steps] /\ todo' \in [Assets -> SUBSET Paths] /\ handler' \in [Assets -> Handler]
    /\ pc'[a] \in {"wait", "retry", "attach"} /\ (todo'[a] = {} <=> pc'[a] = "wait")
    /\ todo'[a] \subseteq pending'[a]
    /\ handler[a].step = "none" /\ handler'[a].step = "none"

LEMMA RegisterKeepsReg ==
    ASSUME Inv, NEW a \in Assets, NEW p, NEW k, NEW r, Registers(a, p, k, r)
    PROVE  RegOK(a)'
<1>1. FilesOK /\ Grown /\ RegOK(a) /\ Shapes /\ env \in Environments
  <2>1. FilesOK /\ RegOK(a) /\ Shapes /\ env \in Environments
    BY DEF Inv, WatcherOK, FilesOK, Watchers, AssetOK
  <2>2. QED
    BY <2>1, FilesStay DEF Registers
<1>2. reg'[a] = r
  BY <1>1 DEF Registers, Shapes
<1>3. /\ Linux' = Linux /\ MacOS' = MacOS /\ Windows' = Windows /\ Decoys(a)' = Decoys(a) /\ ~Windows
      /\ owner' = owner /\ made' = made /\ at' = at
  BY <1>1, SameHost DEF Registers, files
<1>4. IsFiniteSet(DOMAIN r) /\ DOMAIN r \subseteq Nat
  <2>1. IsFiniteSet(DOMAIN reg[a]) /\ DOMAIN reg[a] \subseteq Nat
    BY <1>1 DEF RegOK
  <2>2. IsFiniteSet(DOMAIN reg[a] \cup {k})
    BY <2>1, FS_AddElement
  <2>3. QED
    BY <2>1, <2>2 DEF Registers
<1>5. ASSUME NEW j \in DOMAIN r PROVE EntryOK(a, j)'
  <2>1. CASE j = k
    BY <1>2, <1>3, <2>1 DEF Registers, EntryOK
  <2>2. CASE j # k
    <3>1. r[j] = reg[a][j] /\ j \in DOMAIN reg[a]
      BY <2>2 DEF Registers
    <3>2. EntryOK(a, j)
      BY <1>1, <3>1 DEF RegOK
    <3>3. QED
      BY <1>2, <1>3, <3>1, <3>2 DEF EntryOK
  <2>3. QED
    BY <2>1, <2>2
<1>6. (Linux \/ Single(a))'
  <2>1. SUFFICES ASSUME MacOS, NEW i \in DOMAIN r, NEW j \in DOMAIN r, r[i].path = r[j].path,
                        r[i].live, r[j].live, i # j
                 PROVE  FALSE
    BY <1>1, <1>2, <1>3, HostIs DEF Single, Registers
  <2>2. Single(a)
    BY <1>1, <2>1, HostIs DEF RegOK
  <2>3. ASSUME NEW h \in DOMAIN r, h # k, r[h].path = p, r[h].live, r[k].live
        PROVE  FALSE
    <3>1. h \in DOMAIN reg[a] /\ r[h] = reg[a][h]
      BY <2>3 DEF Registers
    <3>2. p \in pending[a]
      BY DEF Registers, Inv, WatcherOK, Watchers, AssetOK, ThreadOK
    <3>3. QED
      BY <1>1, <2>1, <2>3, <3>1, <3>2 DEF RegOK
  <2>4. CASE i = k
    BY <2>1, <2>3, <2>4 DEF Registers
  <2>5. CASE j = k
    BY <2>1, <2>3, <2>5 DEF Registers
  <2>6. CASE i # k /\ j # k
    <3>1. i \in DOMAIN reg[a] /\ j \in DOMAIN reg[a] /\ r[i] = reg[a][i] /\ r[j] = reg[a][j]
      BY <2>6 DEF Registers
    <3>2. QED
      BY <2>1, <2>2, <3>1 DEF Single
  <2>7. QED
    BY <2>4, <2>5, <2>6
<1>7. ASSUME MacOS, NEW j \in DOMAIN r, r[j].path \in pending'[a] PROVE ~r[j].live
  <2>1. CASE j = k
    BY <1>7, <2>1 DEF Registers
  <2>2. CASE j # k
    <3>1. r[j] = reg[a][j] /\ j \in DOMAIN reg[a] /\ r[j].path \in pending[a]
      BY <1>7, <2>2 DEF Registers
    <3>2. QED
      BY <1>1, <1>7, <3>1 DEF RegOK
  <2>3. QED
    BY <2>1, <2>2
<1>8. r = [j \in DOMAIN r |-> r[j]]
  BY DEF Registers
<1>9. QED
  BY <1>2, <1>3, <1>4, <1>5, <1>6, <1>7, <1>8 DEF RegOK

LEMMA RegisterKeepsAsset ==
    ASSUME Inv, NEW a \in Assets, NEW p, NEW k, NEW r, Registers(a, p, k, r), HandlerOK(a)'
    PROVE  AssetOK(a)'
<1>1. /\ FilesOK /\ RegOK(a) /\ KernelOK(a) /\ BatchOK(a) /\ ThreadOK(a) /\ Shapes
      /\ kernel[a] \in Seq(Event) /\ Grown
  <2>1. FilesOK /\ RegOK(a) /\ KernelOK(a) /\ BatchOK(a) /\ ThreadOK(a) /\ Shapes /\ kernel[a] \in Seq(Event)
    BY DEF Inv, WatcherOK, Watchers, AssetOK, Shapes
  <2>2. QED
    BY <2>1, FilesStay DEF Registers
<1>2. reg'[a] = r /\ kernel' = kernel /\ batch' = batch /\ phase' = phase /\ stop' = stop
  BY <1>1 DEF Registers, Shapes, command
<1>3. batch[a] = <<>> /\ Len(batch[a]) = 0 /\ pc'[a] # "batch"
  BY <1>1 DEF BatchOK, Registers
<1>4. Linux' = Linux /\ MacOS' = MacOS /\ Windows' = Windows /\ Decoys(a)' = Decoys(a)
  BY <1>1, SameHost
<1>5. KernelOK(a)'
  <2>1. PICK q : q = kernel[a]
    OBVIOUS
  <2>2. QueueOK(q)'
    BY <1>1, <2>1, QueueStays DEF KernelOK
  <2>3. QueueOK(kernel[a])'
    BY <1>2, <2>1, <2>2 DEF QueueOK, EventOK, Once
  <2>4. ASSUME MacOS, NEW i \in 1..Len(q) PROVE q[i].key \in DOMAIN r /\ r[q[i].key].live
    <3>1. q[i].key \in DOMAIN reg[a] /\ reg[a][q[i].key].live
      BY <1>1, <2>1, <2>4 DEF KernelOK
    <3>2. QED
      BY <3>1 DEF Registers
  <2>5. QED
    BY <1>2, <1>4, <2>1, <2>3, <2>4 DEF KernelOK
<1>6. BatchOK(a)'
  BY <1>2, <1>3 DEF BatchOK, Once
<1>7. ThreadOK(a)'
  <2>1. pc[a] \notin Starts /\ pc'[a] \notin Starts /\ stop[a] # "done"
    BY <1>1 DEF Registers, ThreadOK, Starts
  <2>2. pending'[a] \subseteq Decoys(a) /\ (Windows => pending'[a] = {})
    BY <1>1 DEF Registers, ThreadOK
  <2>3. pc'[a] \notin {"off", "seeded", "opened"}
    BY <2>1 DEF Starts
  <2>4. QED
    BY <1>1, <1>2, <1>4, <2>1, <2>2, <2>3 DEF ThreadOK, Registers
<1>8. RegOK(a)'
  BY RegisterKeepsReg
<1>9. QED
  BY <1>5, <1>6, <1>7, <1>8 DEF AssetOK

LEMMA RegisterSafe ==
    ASSUME Inv, NEW a \in Assets, NEW p, NEW k, NEW r, Registers(a, p, k, r), HandlerOK(a)',
           p \in pending'[a] \/ p \in gap' \/ Heeded(p)'
    PROVE  Inv'
<1>1. /\ WatcherOK /\ FilesOK /\ HistoryOK /\ RegOK(a) /\ KernelOK(a) /\ BatchOK(a) /\ ThreadOK(a) /\ Shapes
      /\ kernel[a] \in Seq(Event) /\ Grown /\ env \in Environments
  <2>1. /\ WatcherOK /\ FilesOK /\ HistoryOK /\ RegOK(a) /\ KernelOK(a) /\ BatchOK(a) /\ ThreadOK(a) /\ Shapes
        /\ kernel[a] \in Seq(Event) /\ env \in Environments
    BY DEF Inv, WatcherOK, Watchers, AssetOK, Shapes, FilesOK
  <2>2. QED
    BY <2>1, FilesStay DEF Registers
<1>2. /\ reg' = [reg EXCEPT ![a] = r] /\ reg'[a] = r /\ kernel' = kernel /\ batch' = batch /\ phase' = phase
      /\ stop' = stop /\ at' = at /\ owner' = owner /\ made' = made /\ flight' = flight
      /\ done' = done /\ notices' = notices /\ unseen' = unseen /\ cut' = cut /\ claim' = claim
  BY <1>1 DEF Registers, Shapes, command, service, files
<1>3. AssetOK(a)'
  BY RegisterKeepsAsset
<1>4. pending' \in [Assets -> SUBSET Paths] /\ \A b \in Assets : b # a => pending'[b] = pending[b]
  <2>1. PICK x : x = pending'[a]
    OBVIOUS
  <2>2. pending' = [pending EXCEPT ![a] = x] /\ x \subseteq pending[a]
    BY <2>1 DEF Registers
  <2>3. QED
    BY <1>1, <2>2 DEF Shapes
<1>5. Shapes' /\ HistoryOK'
  <2>1. reg' = [b \in Assets |-> reg'[b]]
    BY <1>1, <1>2 DEF Shapes
  <2>2. pc' \in [Assets -> Steps] /\ todo' \in [Assets -> SUBSET Paths] /\ handler' \in [Assets -> Handler]
        /\ gap' \subseteq Paths
    BY DEF Registers
  <2>3. QED
    BY <1>1, <1>2, <1>4, <2>1, <2>2 DEF Shapes, HistoryOK
<1>6. Apart(a)
  <2>1. \A b \in Assets : b # a => pc'[b] = pc[b] /\ todo'[b] = todo[b] /\ handler'[b] = handler[b]
    BY DEF Registers
  <2>2. \A b \in Assets : b # a => reg'[b] = reg[b]
    BY <1>1, <1>2 DEF Shapes
  <2>3. \A s \in Paths : s \notin Decoys(a) /\ s \in gap => s \in gap'
    BY DEF Registers
  <2>4. QED
    BY <1>1, <1>2, <1>4, <1>5, <2>1, <2>2, <2>3 DEF Apart, Untouched
<1>7. Honest(a)'
  <2>1. Honest(a) /\ handler'[a].step = "none"
    BY DEF Registers, Inv
  <2>2. QED
    BY <1>2, <2>1 DEF Honest
<1>8. \A j \in DOMAIN reg[a] : j \in DOMAIN r /\ r[j].path = reg[a][j].path /\ r[j].file = reg[a][j].file
                               /\ (reg[a][j].live => r[j].live)
  <2>1. ASSUME NEW j \in DOMAIN reg[a]
        PROVE  j \in DOMAIN r /\ r[j].path = reg[a][j].path /\ r[j].file = reg[a][j].file
               /\ (reg[a][j].live => r[j].live)
    <3>1. CASE j = k
      BY <3>1 DEF Registers
    <3>2. CASE j # k
      BY <3>2 DEF Registers
    <3>3. QED
      BY <3>1, <3>2
  <2>2. QED
    BY <2>1
<1>9. ASSUME WatcherOK', NEW s \in Decoys(a) PROVE Covered(s)' /\ Earned(s)'
  <2>1. s \in Paths /\ a = env.assetOf[s] /\ env'.assetOf[s] = a /\ Covered(s) /\ Earned(s)
    BY <1>1, SameHost DEF Decoys, Inv
  <2>2. Covered(s)'
    <3>1. CASE s = p
      BY <2>1, <3>1 DEF Covered
    <3>2. CASE s # p
      <4>1. pc[a] \in Runs /\ stop[a] # "done"
        BY <1>1 DEF Registers, ThreadOK, Runs
      <4>2. s \in pending[a] => s \in pending'[a]
        BY <3>2 DEF Registers
      <4>3. s \in gap => s \in gap'
        BY <3>2 DEF Registers
      <4>4. Heeded(s) => Heeded(s)'
        <5>1. SUFFICES ASSUME Heeded(s) PROVE Heeded(s)'
          OBVIOUS
        <5>2. ~Windows /\ Windows' = Windows
          BY <1>1, SameHost DEF Registers
        <5>3. at[s] # None
          BY <5>1, <5>2 DEF Heeded
        <5>4. PICK j : j \in Listening(a, s, at[s])
          BY <2>1, <5>1 DEF Heeded, Watching
        <5>5. j \in DOMAIN reg[a] /\ reg[a][j].live /\ reg[a][j].file = at[s]
          BY <5>2, <5>4 DEF Listening
        <5>6. j \in Listening(a, s, at[s])'
          BY <1>2, <1>8, <5>2, <5>5 DEF Listening
        <5>7. QED
          BY <1>2, <2>1, <5>3, <5>6 DEF Heeded, Watching
      <4>5. PICK q1, q2 : q1 = kernel[a] /\ q2 = batch[a]
        OBVIOUS
      <4>6. Told(q1, a, s) => Told(q1, a, s)'
        BY <1>1, <1>2, <1>8, ToldStays
      <4>7. Told(q2, a, s) => Told(q2, a, s)'
        BY <1>1, <1>2, <1>8, ToldStays
      <4>8. (Told(q1, a, s)' => Told(kernel[a], a, s)') /\ (Told(q2, a, s)' => Told(batch[a], a, s)')
        BY <1>2, <4>5 DEF Told
      <4>9. QED
        BY <2>1, <4>1, <4>2, <4>3, <4>4, <4>5, <4>6, <4>7, <4>8 DEF Covered
    <3>3. QED
      BY <3>1, <3>2
  <2>3. Earned(s)'
    <3>1. kernel'[a] = kernel[a] /\ Left(a)' = Left(a) /\ Len(Left(a)) = 0
      BY <1>1, <1>2 DEF Left, Registers, BatchOK
    <3>2. \A class \in Classes : InHand(s, class)' = InHand(s, class)
      BY <2>1 DEF InHand, Registers
    <3>3. KeysHeld(kernel[a], a)
      BY <1>1, <1>2, <1>8, HostIs DEF KernelOK, Registers, KeysHeld
    <3>4. KeysHeld(Left(a), a)
      BY <3>1 DEF KeysHeld
    <3>5. done'[s] = done[s] /\ notices'[s] = notices[s]
      BY <1>2
    <3>6. QED
      BY <1>1, <1>9, <2>1, <3>1, <3>2, <3>3, <3>4, <3>5, EarnedKept
  <2>4. QED
    BY <2>2, <2>3
<1>10. QED
  BY <1>3, <1>6, <1>7, <1>9, ApartSafe

LEMMA ReregisterSafe ==
    ASSUME Inv, NEW a \in Assets, NEW p \in Paths, Reregister(a, p)
    PROVE  Inv'
<1>1. FilesOK /\ HistoryOK /\ Shapes /\ AssetOK(a) /\ env \in Environments
  BY DEF Inv, WatcherOK, Watchers, FilesOK
<1>2. PICK k : k = at[p]
  OBVIOUS
<1>3. PICK r : r = WithKey(reg[a], k, Entry(p, TRUE))
  OBVIOUS
<1>4. pc[a] = "retry" /\ p \in todo[a] /\ todo[a] \subseteq pending[a] /\ pending[a] \subseteq Decoys(a) /\ Linux
      /\ ~Windows /\ ~MacOS
  BY <1>1, HostIs DEF Reregister, AssetOK, ThreadOK
<1>5. handler[a] = NoHandler
  BY <1>1, <1>4 DEF AssetOK, HandlerOK, RespondingOK, AttachingOK
<1>6. k \in 1..made /\ owner[k] = p /\ k \in Nat /\ k > 0 /\ k \in 1..MaxNodes /\ k <= made
  <2>1. k \in 1..made /\ owner[k] = p
    BY <1>1, <1>2, DecoyFile DEF Reregister
  <2>2. QED
    BY <1>1, <2>1, BoundsAre DEF FilesOK
<1>7. /\ DOMAIN r = DOMAIN reg[a] \cup {k} /\ r = [j \in DOMAIN r |-> r[j]]
      /\ \A j \in DOMAIN reg[a] : j # k => r[j] = reg[a][j]
      /\ r[k] = [path |-> p, file |-> k, live |-> TRUE]
  BY <1>2, <1>3 DEF WithKey, Entry
<1>8. r[k] \in Descriptor /\ r[k].path = p /\ r[k].file = k /\ r[k].live = TRUE
  BY <1>6, <1>7 DEF Descriptor
<1>9. k \in DOMAIN reg[a] => reg[a][k].path = p /\ reg[a][k].file = k
  <2>1. SUFFICES ASSUME k \in DOMAIN reg[a] PROVE reg[a][k].path = p /\ reg[a][k].file = k
    OBVIOUS
  <2>2. EntryOK(a, k)
    BY <1>1, <2>1 DEF AssetOK, RegOK
  <2>3. QED
    BY <1>4, <1>6, <2>2 DEF EntryOK
<1>10. /\ pc' \in [Assets -> Steps] /\ todo' \in [Assets -> SUBSET Paths]
       /\ todo'[a] = todo[a] \ {p} /\ pc'[a] = IF todo[a] = {p} THEN "wait" ELSE "retry"
       /\ todo'[a] = {} <=> pc'[a] # "retry"
       /\ \A b \in Assets : b # a => pc'[b] = pc[b] /\ todo'[b] = todo[b]
  BY <1>1, <1>4, TriedIs DEF Reregister
<1>11. /\ reg' = [reg EXCEPT ![a] = r] /\ pending' = [pending EXCEPT ![a] = pending[a] \ {p}]
       /\ gap' = gap \ {p} /\ handler' = handler /\ at' = at
       /\ UNCHANGED <<files, kernel, batch, command, service, env, done, notices, unseen, cut, claim>>
  BY <1>2, <1>3 DEF Reregister, counters, files
<1>12. pending'[a] = pending[a] \ {p} /\ reg'[a] = r
  BY <1>1, <1>11 DEF Shapes
<1>13. handler' \in [Assets -> Handler] /\ handler[a].step = "none" /\ handler'[a].step = "none"
  BY <1>1, <1>5, <1>11 DEF Shapes, NoHandler
<1>14. Registers(a, p, k, r)
  <2>1. UNCHANGED <<files, kernel, batch, command, service, env, done, notices, unseen, cut, claim>>
    BY <1>11
  <2>2. gap' \subseteq Paths /\ \A s \in gap : s # p => s \in gap'
    BY <1>1, <1>11 DEF HistoryOK
  <2>3. /\ pending' = [pending EXCEPT ![a] = pending'[a]]
        /\ pending'[a] \subseteq pending[a] /\ pending[a] \subseteq pending'[a] \cup {p}
        /\ todo'[a] \subseteq pending'[a]
    BY <1>4, <1>10, <1>11, <1>12
  <2>4. pc'[a] \in {"wait", "retry", "attach"} /\ (todo'[a] = {} <=> pc'[a] = "wait")
    BY <1>10
  <2>5. \A b \in Assets : b # a => pc'[b] = pc[b] /\ todo'[b] = todo[b] /\ handler'[b] = handler[b]
    BY <1>10, <1>11
  <2>6. k \in DOMAIN reg[a] => reg[a][k].path = p /\ (reg[a][k].live => r[k].live)
                               /\ reg[a][k].file = r[k].file
    BY <1>8, <1>9
  <2>7. owner[r[k].file] = p /\ r[k].file <= made /\ (Linux => r[k].file = k) /\ p \in Decoys(a)
    BY <1>4, <1>6, <1>8
  <2>8. QED
    BY <1>4, <1>6, <1>7, <1>8, <1>10, <1>11, <1>13, <2>1, <2>2, <2>3, <2>4, <2>5, <2>6, <2>7 DEF Registers
<1>15. HandlerOK(a)'
  BY <1>5, <1>10, <1>11 DEF HandlerOK
<1>16. Heeded(p)'
  <2>1. env'.assetOf[p] = a /\ Windows' = Windows /\ at[p] # None
    BY <1>4, <1>11 DEF Decoys, Windows, Reregister
  <2>2. k \in Listening(a, p, at[p])'
    BY <1>2, <1>4, <1>7, <1>8, <1>11, <1>12, <2>1 DEF Listening
  <2>3. QED
    BY <1>11, <2>1, <2>2 DEF Heeded, Watching
<1>17. QED
  BY <1>14, <1>15, <1>16, RegisterSafe

\* Some number is not in use.
LEMMA FreeKeyIs ==
    ASSUME NEW a, IsFiniteSet(DOMAIN reg[a])
    PROVE  FreeKey(a) \in Nat /\ FreeKey(a) > 0 /\ FreeKey(a) \notin DOMAIN reg[a]
<1>1. PICK D, n : D = DOMAIN reg[a] /\ n = Cardinality(D)
  OBVIOUS
<1>2. IsFiniteSet(D) /\ n \in Nat
  BY <1>1, FS_CardinalityType
<1> DEFINE Free == {k \in 1..n + 1 : k \notin D}
<1>3. PICK k \in Free : TRUE
  <2>1. SUFFICES ASSUME Free = {} PROVE FALSE
    OBVIOUS
  <2>2. 1..n + 1 \subseteq D
    BY <2>1
  <2>3. Cardinality(1..n + 1) = n + 1
    BY <1>2, FS_Interval
  <2>4. Cardinality(1..n + 1) <= Cardinality(D)
    BY <1>2, <2>2, FS_Subset
  <2>5. QED
    BY <1>1, <1>2, <2>3, <2>4
<1>4. PICK m \in Free : \A j \in Free : m <= j
  <2>1. Free \subseteq Nat
    OBVIOUS
  <2>2. QED
    BY <1>3, <2>1, LeastOf
<1>5. m \in 1..n + 1 /\ m \notin D /\ \A j \in 1..m - 1 : j \in D
  <2>1. m \in 1..n + 1 /\ m \notin D
    OBVIOUS
  <2>2. ASSUME NEW j \in 1..m - 1 PROVE j \in D
    <3>1. j \in 1..n + 1 /\ ~(m <= j)
      BY <1>2, <2>1
    <3>2. QED
      BY <1>4, <3>1
  <2>3. QED
    BY <2>1, <2>2
<1>6. FreeKey(a) = CHOOSE x \in 1..n + 1 : x \notin D /\ \A j \in 1..x - 1 : j \in D
  BY <1>1 DEF FreeKey
<1>7. FreeKey(a) \in 1..n + 1 /\ FreeKey(a) \notin D
  BY <1>5, <1>6
<1>8. QED
  BY <1>1, <1>2, <1>7

LEMMA ReregisterOpenSafe ==
    ASSUME Inv, NEW a \in Assets, NEW p \in Paths, ReregisterOpen(a, p)
    PROVE  Inv'
<1>1. FilesOK /\ HistoryOK /\ Shapes /\ AssetOK(a) /\ env \in Environments
  BY DEF Inv, WatcherOK, Watchers, FilesOK
<1>2. PICK k : k = FreeKey(a)
  OBVIOUS
<1>3. PICK r : r = WithKey(reg[a], k, Entry(p, FALSE))
  OBVIOUS
<1>4. pc[a] = "retry" /\ p \in todo[a] /\ todo[a] \subseteq pending[a] /\ pending[a] \subseteq Decoys(a) /\ MacOS
      /\ ~Windows /\ ~Linux
  BY <1>1, HostIs DEF ReregisterOpen, AssetOK, ThreadOK
<1>5. handler[a] = NoHandler
  BY <1>1, <1>4 DEF AssetOK, HandlerOK, RespondingOK, AttachingOK
<1>6. k \in Nat /\ k > 0 /\ k \notin DOMAIN reg[a]
  <2>1. IsFiniteSet(DOMAIN reg[a])
    BY <1>1 DEF AssetOK, RegOK
  <2>2. QED
    BY <1>2, <2>1, FreeKeyIs
<1>7. /\ DOMAIN r = DOMAIN reg[a] \cup {k} /\ r = [j \in DOMAIN r |-> r[j]]
      /\ \A j \in DOMAIN reg[a] : j # k => r[j] = reg[a][j]
      /\ r[k] = [path |-> p, file |-> at[p], live |-> FALSE]
  BY <1>3 DEF WithKey, Entry
<1>8. at[p] \in 1..made /\ owner[at[p]] = p /\ at[p] \in 1..MaxNodes /\ at[p] <= made
  <2>1. at[p] \in 1..made /\ owner[at[p]] = p
    BY <1>1, DecoyFile DEF ReregisterOpen
  <2>2. QED
    BY <1>1, <2>1, BoundsAre DEF FilesOK
<1>9. r[k] \in Descriptor /\ r[k].path = p /\ r[k].file = at[p] /\ r[k].live = FALSE
  BY <1>7, <1>8 DEF Descriptor
<1>10. /\ reg' = [reg EXCEPT ![a] = r] /\ pending' = pending /\ gap' = gap /\ todo' = todo
       /\ handler' = [handler EXCEPT ![a] = [NoHandler EXCEPT !.path = p, !.key = k]]
       /\ pc' = [pc EXCEPT ![a] = "attach"]
       /\ UNCHANGED <<files, kernel, batch, command, service, env, done, notices, unseen, cut, claim>>
  BY <1>2, <1>3 DEF ReregisterOpen, counters, history
<1>11. PICK h : h = [NoHandler EXCEPT !.path = p, !.key = k]
  OBVIOUS
<1>12. h \in Handler /\ h.step = "none" /\ h.path = p /\ h.key = k
  BY <1>6, <1>11 DEF Handler, NoHandler, Masks
<1>13. /\ handler' \in [Assets -> Handler] /\ handler'[a] = h
       /\ pc' \in [Assets -> Steps] /\ pc'[a] = "attach" /\ todo'[a] = todo[a] /\ todo' \in [Assets -> SUBSET Paths]
       /\ reg'[a] = r /\ pending'[a] = pending[a]
       /\ \A b \in Assets : b # a => pc'[b] = pc[b] /\ todo'[b] = todo[b] /\ handler'[b] = handler[b]
  BY <1>1, <1>10, <1>11, <1>12 DEF Shapes, Steps
<1>14. Registers(a, p, k, r)
  <2>1. UNCHANGED <<files, kernel, batch, command, service, env, done, notices, unseen, cut, claim>>
    BY <1>10
  <2>2. gap' \subseteq Paths /\ \A s \in gap : s # p => s \in gap'
    BY <1>1, <1>10 DEF HistoryOK
  <2>3. /\ pending' = [pending EXCEPT ![a] = pending'[a]]
        /\ pending'[a] \subseteq pending[a] /\ pending[a] \subseteq pending'[a] \cup {p}
        /\ todo'[a] \subseteq pending'[a]
    BY <1>1, <1>4, <1>10, <1>13 DEF Shapes
  <2>4. pc'[a] \in {"wait", "retry", "attach"} /\ (todo'[a] = {} <=> pc'[a] = "wait")
    BY <1>4, <1>13
  <2>5. handler[a].step = "none" /\ handler'[a].step = "none"
    BY <1>5, <1>12, <1>13 DEF NoHandler
  <2>6. owner[r[k].file] = p /\ r[k].file <= made /\ p \in Decoys(a)
    BY <1>4, <1>8, <1>9
  <2>7. QED
    BY <1>4, <1>6, <1>7, <1>9, <1>10, <1>13, <2>1, <2>2, <2>3, <2>4, <2>5, <2>6 DEF Registers
<1>15. HandlerOK(a)'
  <2>1. MacOS'
    BY <1>4, <1>10 DEF MacOS
  <2>2. p \in todo'[a] /\ k \in DOMAIN reg'[a] /\ reg'[a][k].path = p /\ ~reg'[a][k].live
    BY <1>4, <1>7, <1>9, <1>13
  <2>3. AttachingOK(a)'
    BY <1>12, <1>13, <2>1, <2>2 DEF AttachingOK
  <2>4. QED
    BY <2>3 DEF HandlerOK
<1>16. p \in pending'[a]
  BY <1>4, <1>13
<1>17. QED
  BY <1>14, <1>15, <1>16, RegisterSafe

LEMMA ReregisterAttachSafe ==
    ASSUME Inv, NEW a \in Assets, ReregisterAttach(a)
    PROVE  Inv'
<1>1. FilesOK /\ HistoryOK /\ Shapes /\ AssetOK(a) /\ env \in Environments
  BY DEF Inv, WatcherOK, Watchers, FilesOK
<1>2. PICK p, k : p = handler[a].path /\ k = handler[a].key
  OBVIOUS
<1>3. PICK r : r = [reg[a] EXCEPT ![k].live = TRUE]
  OBVIOUS
<1>4. AttachingOK(a) /\ pc[a] = "attach"
  BY <1>1 DEF ReregisterAttach, AssetOK, HandlerOK, RespondingOK
<1>5. /\ p \in todo[a] /\ todo[a] \subseteq pending[a] /\ pending[a] \subseteq Decoys(a) /\ MacOS
      /\ ~Windows /\ ~Linux /\ k \in DOMAIN reg[a] /\ reg[a][k].path = p /\ ~reg[a][k].live
      /\ handler[a].step = "none" /\ p \in Paths
  <2>1. pending[a] \subseteq Paths
    BY <1>1 DEF Shapes
  <2>2. QED
    BY <1>1, <1>2, <1>4, <2>1, HostIs DEF AttachingOK, AssetOK, ThreadOK
<1>6. EntryOK(a, k) /\ k \in Nat /\ reg[a] = [j \in DOMAIN reg[a] |-> reg[a][j]]
  BY <1>1, <1>5 DEF AssetOK, RegOK
<1>7. k > 0 /\ reg[a][k] \in Descriptor /\ reg[a][k].file <= made /\ owner[reg[a][k].file] = p
  BY <1>5, <1>6 DEF EntryOK
<1>8. /\ DOMAIN r = DOMAIN reg[a] /\ r = [j \in DOMAIN r |-> r[j]]
      /\ \A j \in DOMAIN reg[a] : j # k => r[j] = reg[a][j]
      /\ r[k] = [reg[a][k] EXCEPT !.live = TRUE]
  BY <1>3, <1>5, <1>6
<1>9. r[k] \in Descriptor /\ r[k].path = p /\ r[k].file = reg[a][k].file /\ r[k].live = TRUE
  BY <1>5, <1>7, <1>8 DEF Descriptor
<1>10. p \in todo[a] /\ Tried(a, p)
  BY <1>2, <1>5 DEF ReregisterAttach
<1>11. /\ pc' \in [Assets -> Steps] /\ todo' \in [Assets -> SUBSET Paths]
       /\ todo'[a] = todo[a] \ {p} /\ pc'[a] = IF todo[a] = {p} THEN "wait" ELSE "retry"
       /\ todo'[a] = {} <=> pc'[a] # "retry"
       /\ \A b \in Assets : b # a => pc'[b] = pc[b] /\ todo'[b] = todo[b]
  BY <1>1, <1>10, TriedIs
<1>12. /\ reg' = [reg EXCEPT ![a] = r] /\ pending' = [pending EXCEPT ![a] = pending[a] \ {p}]
       /\ gap' = IF p \in Attached(r) THEN gap \ {p} ELSE gap \cup {p}
       /\ handler' = [handler EXCEPT ![a] = NoHandler] /\ at' = at
       /\ UNCHANGED <<files, kernel, batch, command, service, env, done, notices, unseen, cut, claim>>
  BY <1>2, <1>3 DEF ReregisterAttach, counters, files
<1>13. /\ pending'[a] = pending[a] \ {p} /\ reg'[a] = r /\ handler'[a] = NoHandler /\ NoHandler \in Handler
       /\ handler' \in [Assets -> Handler] /\ handler'[a].step = "none"
       /\ \A b \in Assets : b # a => handler'[b] = handler[b]
  <2>1. NoHandler \in Handler /\ NoHandler.step = "none"
    BY DEF NoHandler, Handler, Masks
  <2>2. QED
    BY <1>1, <1>12, <2>1 DEF Shapes
<1>14. Registers(a, p, k, r)
  <2>1. UNCHANGED <<files, kernel, batch, command, service, env, done, notices, unseen, cut, claim>>
    BY <1>12
  <2>2. gap' \subseteq Paths /\ \A s \in gap : s # p => s \in gap'
    BY <1>1, <1>5, <1>12 DEF HistoryOK
  <2>3. /\ pending' = [pending EXCEPT ![a] = pending'[a]]
        /\ pending'[a] \subseteq pending[a] /\ pending[a] \subseteq pending'[a] \cup {p}
        /\ todo'[a] \subseteq pending'[a] /\ p \notin pending'[a]
    BY <1>5, <1>11, <1>12, <1>13
  <2>4. pc'[a] \in {"wait", "retry", "attach"} /\ (todo'[a] = {} <=> pc'[a] = "wait")
    BY <1>11
  <2>5. \A b \in Assets : b # a => pc'[b] = pc[b] /\ todo'[b] = todo[b] /\ handler'[b] = handler[b]
    BY <1>11, <1>13
  <2>6. k \in DOMAIN reg[a] => reg[a][k].path = p /\ (reg[a][k].live => r[k].live)
                               /\ reg[a][k].file = r[k].file
    BY <1>5, <1>9
  <2>7. owner[r[k].file] = p /\ r[k].file <= made /\ p \in Decoys(a)
    BY <1>5, <1>7, <1>9
  <2>8. DOMAIN r = DOMAIN reg[a] \cup {k}
    BY <1>5, <1>8
  <2>9. QED
    BY <1>4, <1>5, <1>6, <1>7, <1>8, <1>9, <1>11, <1>12, <1>13, <2>1, <2>2, <2>3, <2>4, <2>5, <2>6, <2>7, <2>8
       DEF Registers
<1>15. HandlerOK(a)'
  BY <1>11, <1>13 DEF HandlerOK
<1>16. p \in gap' \/ Heeded(p)'
  <2>1. SUFFICES ASSUME p \in Attached(r) PROVE Heeded(p)'
    BY <1>12
  <2>2. PICK j \in DOMAIN r : r[j].live /\ r[j].path = p /\ at[p] = r[j].file
    BY <2>1 DEF Attached
  <2>3. env'.assetOf[p] = a /\ Windows' = Windows
    BY <1>5, <1>12 DEF Decoys, Windows
  <2>4. at[p] # None
    <3>1. CASE j = k
      <4>1. r[j].file \in 1..MaxNodes
        BY <1>9, <3>1 DEF Descriptor
      <4>2. QED
        BY <2>2, <4>1 DEF None
    <3>2. CASE j # k
      <4>1. r[j] = reg[a][j] /\ EntryOK(a, j)
        BY <1>1, <1>8, <2>2, <3>2 DEF AssetOK, RegOK
      <4>2. r[j] \in Descriptor
        BY <4>1 DEF EntryOK
      <4>3. r[j].file \in 1..MaxNodes
        BY <4>2 DEF Descriptor
      <4>4. QED
        BY <2>2, <4>3 DEF None
    <3>3. QED
      BY <3>1, <3>2
  <2>5. j \in Listening(a, p, at[p])'
    BY <1>5, <1>12, <1>13, <2>2, <2>3 DEF Listening
  <2>6. QED
    BY <1>12, <2>3, <2>4, <2>5 DEF Heeded, Watching
<1>17. QED
  BY <1>14, <1>15, <1>16, RegisterSafe

-----------------------------------------------------------------------------
(* An event of the batch is done with.                                     *)

LEMMA WithoutIs ==
    ASSUME NEW r, NEW k
    PROVE  /\ DOMAIN Without(r, k) = DOMAIN r \ {k}
           /\ Without(r, k) = [j \in DOMAIN r \ {k} |-> Without(r, k)[j]]
           /\ \A j \in DOMAIN r \ {k} : Without(r, k)[j] = r[j]
BY DEF Without

\* What waits of the other descriptors goes on waiting.
Drops(q, k, r) ==
    /\ r \in Seq(Event) /\ Len(r) <= Len(q)
    /\ \A i \in 1..Len(r) : \E j \in 1..Len(q) : r[i] = q[j]
    /\ \A i, j \in 1..Len(r) : r[i].key = r[j].key => i = j
    /\ \A i \in 1..Len(r) : r[i].key # k
    /\ \A j \in 1..Len(q) : q[j].key # k => \E i \in 1..Len(r) : r[i] = q[j]

LEMMA ClosedIs ==
    ASSUME MacOS, NEW q \in Seq(Event), Once(q), NEW k
    PROVE  Drops(q, k, Closed(q, k))
<1> DEFINE waits == {i \in 1..Len(q) : q[i].key = k}
<1>1. \A i, j \in 1..Len(q) : q[i].key = q[j].key => i = j
  BY DEF Once
<1>2. CASE waits = {}
  <2>1. Closed(q, k) = q
    BY <1>2 DEF Closed
  <2>2. QED
    BY <1>1, <1>2, <2>1 DEF Drops
<1>3. CASE waits # {}
  <2>1. PICK n : n = CHOOSE i \in waits : TRUE
    OBVIOUS
  <2>2. n \in 1..Len(q) /\ q[n].key = k
    BY <1>3, <2>1
  <2>3. PICK r : r = RemoveAt(q, n)
    OBVIOUS
  <2>4. Closed(q, k) = r
    BY <1>3, <2>1, <2>3 DEF Closed
  <2>5. /\ r \in Seq(Event) /\ Len(r) = Len(q) - 1
        /\ \A j \in 1..Len(q) - 1 : r[j] = IF j < n THEN q[j] ELSE q[j + 1]
    BY <2>2, <2>3, Removed
  <2>6. \A i \in 1..Len(r) : LET j == IF i < n THEN i ELSE i + 1
                             IN  j \in 1..Len(q) /\ r[i] = q[j] /\ j # n
    BY <2>2, <2>5
  <2>7. \A i, j \in 1..Len(r) : r[i].key = r[j].key => i = j
    BY <1>1, <2>2, <2>6, SMTT(40)
  <2>8. \A i \in 1..Len(r) : r[i].key # k
    BY <1>1, <2>2, <2>6
  <2>9. ASSUME NEW j \in 1..Len(q), q[j].key # k PROVE \E i \in 1..Len(r) : r[i] = q[j]
    <3>1. j # n
      BY <2>2, <2>9
    <3>2. CASE j < n
      <4>1. j \in 1..Len(r) /\ r[j] = q[j]
        BY <2>2, <2>5, <3>2
      <4>2. QED
        BY <4>1
    <3>3. CASE j > n
      <4>1. j - 1 \in 1..Len(r) /\ ~(j - 1 < n) /\ r[j - 1] = q[j]
        BY <2>2, <2>5, <3>3
      <4>2. QED
        BY <4>1
    <3>4. QED
      BY <2>2, <3>1, <3>2, <3>3
  <2>10. \A i \in 1..Len(r) : \E j \in 1..Len(q) : r[i] = q[j]
    BY <2>6
  <2>11. r \in Seq(Event) /\ Len(r) <= Len(q)
    BY <2>5
  <2>12. Drops(q, k, r)
    BY <2>7, <2>8, <2>9, <2>10, <2>11 DEF Drops
  <2>13. QED
    BY <2>4, <2>12
<1>4. QED
  BY <1>2, <1>3

LEMMA ClosedTally ==
    ASSUME NEW q \in Seq(Event), NEW k, NEW keys, NEW fewer, fewer \subseteq keys, NEW masks
    PROVE  Tally(Closed(q, k), fewer, masks) <= Tally(q, keys, masks)
<1> DEFINE waits == {i \in 1..Len(q) : q[i].key = k}
<1>1. CASE waits = {}
  <2>1. Closed(q, k) = q
    BY <1>1 DEF Closed
  <2>2. QED
    BY <2>1, TallyOfKeys
<1>2. CASE waits # {}
  <2>1. PICK n \in waits : n = CHOOSE i \in waits : TRUE
    BY <1>2
  <2>2. Closed(q, k) = RemoveAt(q, n) /\ n \in 1..Len(q)
    BY <1>2, <2>1 DEF Closed
  <2>3. QED
    BY <2>2, TallyRemoved
<1>3. QED
  BY <1>1, <1>2

\* The first event of the batch is done with; `lost', if its descriptor is too.
Advances(a, k, s, lost, q) ==
    /\ UNCHANGED <<files, command, env, done, gap>>
    /\ HistoryOK'
    /\ \A b \in Assets : b # a => flight'[b] = flight[b] /\ cut'[b] = cut[b] /\ claim'[b] = claim[b]
    /\ \A p \in Paths : p \notin Decoys(a) => notices'[p] = notices[p]
    /\ \A p \in Decoys(a), class \in Classes :
           notices'[p][class] <= notices[p][class] + InHand(p, class)
    /\ pc[a] = "batch" /\ k = batch[a][1].key
    /\ batch' = [batch EXCEPT ![a] = Tail(batch[a])]
    /\ handler' = [handler EXCEPT ![a] = NoHandler]
    /\ IF Len(batch[a]) = 1 THEN Turn(a, pending'[a]) ELSE UNCHANGED <<pc, todo>>
    /\ lost \in BOOLEAN
    /\ reg' = [reg EXCEPT ![a] = IF lost THEN Without(reg[a], k) ELSE reg[a]]
    /\ pending' = [pending EXCEPT ![a] = IF lost THEN pending[a] \cup {s} ELSE pending[a]]
    /\ kernel' = [kernel EXCEPT ![a] = q]
    /\ q = IF lost /\ MacOS THEN Closed(kernel[a], k) ELSE kernel[a]
    /\ lost => /\ ~Windows /\ s \in Decoys(a)
               /\ IF k \in DOMAIN reg[a] THEN reg[a][k].path = s ELSE DOMAIN reg[a] = {}
    /\ ~lost /\ ~Windows /\ k \in DOMAIN reg[a] => ~Telling(batch[a][1].mask)

\* What such a step leaves of the watcher.
Advanced(a, k, s, lost, q) ==
    /\ Grown /\ Shapes' /\ HistoryOK' /\ phase' = phase /\ stop' = stop /\ gap' = gap /\ at' = at
    /\ batch[a] \in Seq(Event) /\ batch[a] # <<>> /\ batch'[a] = Tail(batch[a]) /\ batch'[a] \in Seq(Event)
    /\ handler'[a] = NoHandler
    /\ kernel[a] \in Seq(Event) /\ kernel'[a] = q /\ q \in Seq(Event)
    /\ pending'[a] = IF lost THEN pending[a] \cup {s} ELSE pending[a]
    /\ DOMAIN reg'[a] = IF lost THEN DOMAIN reg[a] \ {k} ELSE DOMAIN reg[a]
    /\ \A j \in DOMAIN reg'[a] : reg'[a][j] = reg[a][j]
    /\ reg'[a] = [j \in DOMAIN reg'[a] |-> reg'[a][j]]
    /\ pc'[a] \in {"wait", "retry", "batch", "ended"}
    /\ pc'[a] = "batch" <=> batch'[a] # <<>>
    /\ todo'[a] \subseteq pending'[a] /\ (todo'[a] = {} <=> pc'[a] # "retry")
    /\ stop[a] = "done" => pc'[a] \in {"batch", "ended"}
    /\ Apart(a)

LEMMA AdvancedIs ==
    ASSUME Inv, NEW a \in Assets, NEW k, NEW s, NEW lost, NEW q, Advances(a, k, s, lost, q)
    PROVE  Advanced(a, k, s, lost, q)
<1>1. WatcherOK /\ FilesOK /\ Shapes /\ HistoryOK /\ RegOK(a) /\ KernelOK(a) /\ BatchOK(a) /\ ThreadOK(a)
  BY DEF Inv, WatcherOK, Watchers, AssetOK
<1>2. /\ HistoryOK' /\ phase' = phase /\ stop' = stop /\ gap' = gap /\ at' = at /\ pc[a] = "batch" /\ done' = done
      /\ batch' = [batch EXCEPT ![a] = Tail(batch[a])] /\ handler' = [handler EXCEPT ![a] = NoHandler]
      /\ reg' = [reg EXCEPT ![a] = IF lost THEN Without(reg[a], k) ELSE reg[a]]
      /\ pending' = [pending EXCEPT ![a] = IF lost THEN pending[a] \cup {s} ELSE pending[a]]
      /\ kernel' = [kernel EXCEPT ![a] = q] /\ lost \in BOOLEAN /\ (lost => s \in Decoys(a))
      /\ q = IF lost /\ MacOS THEN Closed(kernel[a], k) ELSE kernel[a]
  BY DEF Advances, command, files
<1>3. Grown
  <2>1. UNCHANGED <<files, env>>
    BY DEF Advances
  <2>2. QED
    BY <1>1, <2>1, FilesStay
<1>4. batch[a] \in Seq(Event) /\ batch[a] # <<>> /\ kernel[a] \in Seq(Event) /\ pending[a] \subseteq Paths
  BY <1>1, <1>2 DEF Shapes, BatchOK
<1>5. Tail(batch[a]) \in Seq(Event) /\ Len(Tail(batch[a])) = Len(batch[a]) - 1 /\ Len(batch[a]) \in Nat \ {0}
  BY <1>4
<1>20. Tail(batch[a]) = <<>> <=> Len(batch[a]) = 1
  <2>1. PICK t : t = Tail(batch[a])
    OBVIOUS
  <2>2. t \in Seq(Event) /\ Len(t) = Len(batch[a]) - 1
    BY <1>5, <2>1
  <2>3. t = <<>> <=> Len(t) = 0
    BY <2>2, EmptySeq
  <2>4. QED
    BY <1>5, <2>1, <2>2, <2>3
<1>6. q \in Seq(Event)
  <2>1. CASE lost /\ MacOS
    <3>1. PICK q0 : q0 = kernel[a]
      OBVIOUS
    <3>2. q0 \in Seq(Event) /\ Once(q0) /\ q = Closed(q0, k)
      BY <1>1, <1>2, <1>4, <2>1, <3>1 DEF KernelOK, QueueOK
    <3>3. QED
      BY <2>1, <3>2, ClosedIs DEF Drops
  <2>2. QED
    BY <1>2, <1>4, <2>1
<1>7. NoHandler \in Handler
  BY DEF NoHandler, Handler, Masks
<1>8. PICK r : r = IF lost THEN Without(reg[a], k) ELSE reg[a]
  OBVIOUS
<1>9. /\ DOMAIN r = IF lost THEN DOMAIN reg[a] \ {k} ELSE DOMAIN reg[a]
      /\ \A j \in DOMAIN r : r[j] = reg[a][j]
      /\ r = [j \in DOMAIN r |-> r[j]]
  <2>1. CASE lost
    BY <1>8, <2>1, WithoutIs, ZenonT(40)
  <2>2. CASE ~lost
    <3>1. reg[a] = [j \in DOMAIN reg[a] |-> reg[a][j]]
      BY <1>1 DEF RegOK
    <3>2. QED
      BY <1>8, <2>2, <3>1
  <2>3. QED
    BY <2>1, <2>2
<1>10. PICK w : w = IF lost THEN pending[a] \cup {s} ELSE pending[a]
  OBVIOUS
<1>11. w \in SUBSET Paths
  BY <1>2, <1>4, <1>10 DEF Decoys
<1>12. /\ batch'[a] = Tail(batch[a]) /\ batch' \in [Assets -> Seq(Event)]
       /\ handler'[a] = NoHandler /\ handler' \in [Assets -> Handler]
       /\ kernel'[a] = q /\ kernel' \in [Assets -> Seq(Event)]
       /\ reg'[a] = r /\ reg' = [b \in Assets |-> reg'[b]]
       /\ pending'[a] = w /\ pending' \in [Assets -> SUBSET Paths]
  BY <1>1, <1>2, <1>5, <1>6, <1>7, <1>8, <1>10, <1>11 DEF Shapes
<1>13. /\ pc' \in [Assets -> Steps] /\ todo' \in [Assets -> SUBSET Paths]
       /\ pc'[a] \in {"wait", "retry", "batch", "ended"}
       /\ pc'[a] = "batch" <=> batch'[a] # <<>>
       /\ todo'[a] \subseteq pending'[a] /\ (todo'[a] = {} <=> pc'[a] # "retry")
       /\ stop[a] = "done" => pc'[a] \in {"batch", "ended"}
       /\ \A b \in Assets : b # a => pc'[b] = pc[b] /\ todo'[b] = todo[b]
  <2>1. CASE Len(batch[a]) = 1
    <3>1. Turn(a, w)
      BY <1>12, <2>1 DEF Advances
    <3>2. batch'[a] = <<>>
      BY <1>12, <1>20, <2>1
    <3>3. QED
      BY <1>1, <1>11, <1>12, <3>1, <3>2, TurnIs
  <2>2. CASE Len(batch[a]) # 1
    <3>1. pc' = pc /\ todo' = todo
      BY <2>2 DEF Advances
    <3>2. batch'[a] # <<>>
      BY <1>12, <1>20, <2>2
    <3>3. todo[a] = {} 
      BY <1>1, <1>2 DEF ThreadOK
    <3>4. QED
      BY <1>1, <1>2, <3>1, <3>2, <3>3 DEF Shapes
  <2>3. QED
    BY <2>1, <2>2
<1>14. Shapes'
  <2>1. stop' \in [Assets -> {"no", "asked", "done"}] /\ phase' \in {"down", "on", "stopping"}
    BY <1>1, <1>2 DEF Shapes
  <2>2. QED
    BY <1>12, <1>13, <2>1 DEF Shapes
<1>15. Apart(a)
  <2>1. \A b \in Assets : b # a => Untouched(b)
    BY <1>1, <1>2, <1>13 DEF Untouched, Shapes
  <2>2. \A b \in Assets : b # a => flight'[b] = flight[b] /\ cut'[b] = cut[b] /\ claim'[b] = claim[b]
    BY DEF Advances
  <2>3. \A p \in Paths : p \notin Decoys(a) => at'[p] = at[p] /\ notices'[p] = notices[p] /\ (p \in gap => p \in gap')
    BY <1>2 DEF Advances
  <2>4. QED
    BY <1>2, <1>3, <1>14, <2>1, <2>2, <2>3 DEF Apart
<1>16. QED
  BY <1>2, <1>3, <1>4, <1>6, <1>8, <1>9, <1>10, <1>12, <1>13, <1>14, <1>15 DEF Advanced

LEMMA AdvanceKeepsReg ==
    ASSUME Inv, NEW a \in Assets, NEW k, NEW s, NEW lost, NEW q, Advances(a, k, s, lost, q)
    PROVE  RegOK(a)'
<1>1. Advanced(a, k, s, lost, q) /\ RegOK(a) /\ BatchOK(a) /\ ThreadOK(a) /\ env \in Environments
  BY AdvancedIs DEF Inv, WatcherOK, FilesOK, Watchers, AssetOK
<1>2. /\ Grown /\ pc'[a] # "opened" /\ DOMAIN reg'[a] \subseteq DOMAIN reg[a]
      /\ \A j \in DOMAIN reg'[a] : reg'[a][j] = reg[a][j]
      /\ reg'[a] = [j \in DOMAIN reg'[a] |-> reg'[a][j]]
      /\ pending'[a] = IF lost THEN pending[a] \cup {s} ELSE pending[a]
      /\ DOMAIN reg'[a] = IF lost THEN DOMAIN reg[a] \ {k} ELSE DOMAIN reg[a]
  BY <1>1 DEF Advanced
<1>3. ASSUME MacOS, NEW j \in DOMAIN reg'[a], reg[a][j].live, reg[a][j].path \in pending'[a]
      PROVE  reg[a][j].path \in pending[a]
  <2>1. SUFFICES ASSUME lost, reg[a][j].path = s PROVE FALSE
    BY <1>2, <1>3
  <2>2. j \in DOMAIN reg[a] /\ j # k
    BY <1>2, <1>3, <2>1
  <2>3. k \in DOMAIN reg[a] /\ reg[a][k].path = s
    BY <2>1, <2>2 DEF Advances
  <2>4. batch[a][1].key = k /\ 1 \in 1..Len(batch[a])
    <3>1. k = batch[a][1].key
      BY DEF Advances
    <3>2. batch[a] \in Seq(Event) /\ batch[a] # <<>>
      BY <1>1 DEF Advanced
    <3>3. QED
      BY <3>1, <3>2, EmptySeq
  <2>5. reg[a][k].live
    BY <1>1, <1>3, <2>3, <2>4 DEF BatchOK
  <2>6. Single(a)
    BY <1>1, <1>3, HostIs DEF RegOK
  <2>7. QED
    BY <1>3, <2>1, <2>2, <2>3, <2>5, <2>6 DEF Single
<1>4. QED
  BY <1>1, <1>2, <1>3, RegStays

LEMMA AdvanceKeepsKernel ==
    ASSUME Inv, NEW a \in Assets, NEW k, NEW s, NEW lost, NEW q, Advances(a, k, s, lost, q)
    PROVE  KernelOK(a)'
<1>1. Advanced(a, k, s, lost, q) /\ KernelOK(a) /\ env \in Environments
  BY AdvancedIs DEF Inv, WatcherOK, FilesOK, Watchers, AssetOK
<1>2. /\ Grown /\ kernel[a] \in Seq(Event) /\ kernel'[a] = q /\ q \in Seq(Event)
      /\ DOMAIN reg'[a] = IF lost THEN DOMAIN reg[a] \ {k} ELSE DOMAIN reg[a]
      /\ \A j \in DOMAIN reg'[a] : reg'[a][j] = reg[a][j]
  BY <1>1 DEF Advanced
<1>3. PICK q0 : q0 = kernel[a]
  OBVIOUS
<1>4. q0 \in Seq(Event) /\ QueueOK(q0) /\ q = IF lost /\ MacOS THEN Closed(q0, k) ELSE q0
  BY <1>1, <1>2, <1>3 DEF Advances, KernelOK
<1>5. CASE MacOS /\ lost
  <2>1. Drops(q0, k, q)
    BY <1>4, <1>5, ClosedIs DEF QueueOK
  <2>2. \A i \in 1..Len(q) : EventOK(q[i])
    BY <1>4, <2>1 DEF Drops, QueueOK
  <2>3. QueueOK(q)
    BY <1>5, <2>1, <2>2 DEF QueueOK, Once, Drops
  <2>4. \A i \in 1..Len(q) : q[i].key \in DOMAIN reg'[a] /\ reg'[a][q[i].key].live
    <3>1. ASSUME NEW i \in 1..Len(q) PROVE q[i].key \in DOMAIN reg'[a] /\ reg'[a][q[i].key].live
      <4>1. PICK j \in 1..Len(q0) : q[i] = q0[j]
        BY <2>1 DEF Drops
      <4>2. q0[j].key \in DOMAIN reg[a] /\ reg[a][q0[j].key].live /\ q[i].key # k
        BY <1>1, <1>3, <1>5, <2>1 DEF KernelOK, Drops
      <4>3. QED
        BY <1>2, <1>5, <4>1, <4>2
    <3>2. QED
      BY <3>1
  <2>5. QueueOK(q)'
    BY <1>2, <2>3, QueueStays
  <2>6. QED
    BY <1>2, <2>4, <2>5 DEF KernelOK, QueueOK, EventOK, Once
<1>6. CASE ~(MacOS /\ lost)
  <2>1. q = q0 /\ QueueOK(q)'
    BY <1>2, <1>4, <1>6, QueueStays
  <2>2. MacOS => DOMAIN reg'[a] = DOMAIN reg[a]
    BY <1>2, <1>6
  <2>3. MacOS => \A i \in 1..Len(q) : q[i].key \in DOMAIN reg'[a] /\ reg'[a][q[i].key].live
    BY <1>1, <1>2, <1>3, <2>1, <2>2 DEF KernelOK
  <2>4. QED
    BY <1>2, <2>1, <2>3, SameHost DEF KernelOK, QueueOK, EventOK, Once
<1>7. QED
  BY <1>5, <1>6

LEMMA TailOnce ==
    ASSUME NEW b \in Seq(Event), b # <<>>, Once(b)
    PROVE  /\ Once(Tail(b))
           /\ \A i \in 1..Len(Tail(b)) : i + 1 \in 1..Len(b) /\ Tail(b)[i] = b[i + 1]
<1>1. PICK t : t = Tail(b)
  OBVIOUS
<1>2. t \in Seq(Event) /\ Len(t) = Len(b) - 1 /\ Len(b) \in Nat \ {0} /\ \A i \in 1..Len(t) : t[i] = b[i + 1]
  BY <1>1, EmptySeq
<1>3. \A i \in 1..Len(t) : i + 1 \in 1..Len(b) /\ t[i] = b[i + 1]
  BY <1>2
<1>4. Once(t)
  <2>1. SUFFICES ASSUME MacOS, NEW i \in 1..Len(t), NEW j \in 1..Len(t), t[i].key = t[j].key
                 PROVE  i = j
    BY DEF Once
  <2>2. i + 1 = j + 1
    BY <1>3, <2>1 DEF Once
  <2>3. QED
    BY <1>2, <2>2
<1>5. QED
  BY <1>1, <1>3, <1>4

LEMMA AdvanceKeepsBatch ==
    ASSUME Inv, NEW a \in Assets, NEW k, NEW s, NEW lost, NEW q, Advances(a, k, s, lost, q)
    PROVE  BatchOK(a)'
<1>1. Advanced(a, k, s, lost, q) /\ BatchOK(a) /\ env \in Environments
  BY AdvancedIs DEF Inv, WatcherOK, FilesOK, Watchers, AssetOK
<1>2. /\ Grown /\ (pc'[a] = "batch" <=> batch'[a] # <<>>)
      /\ batch[a] \in Seq(Event) /\ batch[a] # <<>> /\ batch'[a] = Tail(batch[a]) /\ batch'[a] \in Seq(Event)
      /\ DOMAIN reg'[a] \subseteq DOMAIN reg[a]
      /\ \A j \in DOMAIN reg'[a] : reg'[a][j] = reg[a][j]
  BY <1>1 DEF Advanced
<1>3. PICK b, t : b = batch[a] /\ t = Tail(b)
  OBVIOUS
<1>4. b \in Seq(Event) /\ b # <<>> /\ t \in Seq(Event) /\ batch'[a] = t
  BY <1>2, <1>3
<1>5. \A i \in 1..Len(b) : EventOK(b[i])
  BY <1>1, <1>3 DEF BatchOK
<1>6. Once(b) /\ (MacOS => \A i \in 1..Len(b) : b[i].key \in DOMAIN reg[a] => reg[a][b[i].key].live)
  BY <1>1, <1>3 DEF BatchOK
<1>7. Once(t) /\ \A i \in 1..Len(t) : i + 1 \in 1..Len(b) /\ t[i] = b[i + 1]
  BY <1>3, <1>4, <1>6, TailOnce
<1>8. \A i \in 1..Len(t) : EventOK(t[i])'
  <2>1. ASSUME NEW i \in 1..Len(t) PROVE EventOK(t[i])'
    <3>1. PICK e : e = t[i]
      OBVIOUS
    <3>2. e \in Event /\ EventOK(e)
      BY <1>4, <1>5, <1>7, <3>1
    <3>3. EventOK(e)'
      BY <1>2, <3>2, EventsStay
    <3>4. QED
      BY <3>1, <3>3 DEF EventOK
  <2>2. QED
    BY <2>1
<1>9. MacOS => \A i \in 1..Len(t) : t[i].key \in DOMAIN reg'[a] => reg'[a][t[i].key].live
  BY <1>2, <1>6, <1>7, SMTT(40)
<1>10. /\ \A i \in 1..Len(batch'[a]) : EventOK(batch[a][i])'
       /\ Once(batch[a])'
       /\ MacOS' => \A i \in 1..Len(batch'[a]) :
                        batch'[a][i].key \in DOMAIN reg'[a] => reg'[a][batch'[a][i].key].live
  <2>1. \A i \in 1..Len(batch'[a]) : EventOK(batch[a][i])'
    BY <1>4, <1>8 DEF EventOK
  <2>2. Once(batch[a])'
    BY <1>2, <1>4, <1>7, SameHost DEF Once
  <2>3. MacOS' => \A i \in 1..Len(batch'[a]) :
                      batch'[a][i].key \in DOMAIN reg'[a] => reg'[a][batch'[a][i].key].live
    <3>1. MacOS' = MacOS
      BY <1>2, SameHost
    <3>2. QED
      BY <1>4, <1>9, <3>1
  <2>4. QED
    BY <2>1, <2>2, <2>3
<1>11. QED
  BY <1>2, <1>10 DEF BatchOK

LEMMA AdvanceKeepsAsset ==
    ASSUME Inv, NEW a \in Assets, NEW k, NEW s, NEW lost, NEW q, Advances(a, k, s, lost, q)
    PROVE  AssetOK(a)'
<1>1. Advanced(a, k, s, lost, q) /\ ThreadOK(a) /\ env \in Environments
  BY AdvancedIs DEF Inv, WatcherOK, FilesOK, Watchers, AssetOK
<1>2. /\ Grown /\ phase' = phase /\ stop' = stop /\ handler'[a] = NoHandler
      /\ pending'[a] = IF lost THEN pending[a] \cup {s} ELSE pending[a]
      /\ DOMAIN reg'[a] = IF lost THEN DOMAIN reg[a] \ {k} ELSE DOMAIN reg[a]
      /\ pc'[a] \in {"wait", "retry", "batch", "ended"}
      /\ todo'[a] \subseteq pending'[a] /\ (todo'[a] = {} <=> pc'[a] # "retry")
      /\ stop[a] = "done" => pc'[a] \in {"batch", "ended"}
  BY <1>1 DEF Advanced
<1>3. pc[a] = "batch" /\ (lost => ~Windows /\ s \in Decoys(a))
  BY DEF Advances
<1>4. ThreadOK(a)'
  <2>1. pending'[a] \subseteq Decoys(a) /\ (Windows => pending'[a] = {})
    BY <1>1, <1>2, <1>3 DEF ThreadOK
  <2>2. stop'[a] = "done" => pc'[a] \in {"batch", "ended"} /\ (Windows \/ DOMAIN reg'[a] = {})
    BY <1>1, <1>2 DEF ThreadOK
  <2>3. pc'[a] \notin Starts
    BY <1>2 DEF Starts
  <2>4. QED
    BY <1>1, <1>2, <2>1, <2>2, <2>3, SameHost DEF ThreadOK, Starts
<1>5. HandlerOK(a)'
  BY <1>2 DEF HandlerOK
<1>6. QED
  BY <1>4, <1>5, AdvanceKeepsReg, AdvanceKeepsKernel, AdvanceKeepsBatch DEF AssetOK

LEMMA AdvanceKeepsCovered ==
    ASSUME Inv, NEW a \in Assets, NEW k, NEW s, NEW lost, NEW q, Advances(a, k, s, lost, q), NEW p \in Decoys(a)
    PROVE  Covered(p)'
<1>1. /\ Advanced(a, k, s, lost, q) /\ env \in Environments /\ FilesOK /\ RegOK(a) /\ KernelOK(a) /\ BatchOK(a)
      /\ ThreadOK(a)
  BY AdvancedIs DEF Inv, WatcherOK, FilesOK, Watchers, AssetOK
<1>2. /\ Grown /\ stop' = stop /\ gap' = gap /\ at' = at
      /\ batch[a] \in Seq(Event) /\ batch[a] # <<>> /\ batch'[a] = Tail(batch[a])
      /\ kernel[a] \in Seq(Event) /\ kernel'[a] = q
      /\ pending'[a] = IF lost THEN pending[a] \cup {s} ELSE pending[a]
      /\ DOMAIN reg'[a] = IF lost THEN DOMAIN reg[a] \ {k} ELSE DOMAIN reg[a]
      /\ \A j \in DOMAIN reg'[a] : reg'[a][j] = reg[a][j]
      /\ stop[a] = "done" => pc'[a] \in {"batch", "ended"}
  BY <1>1 DEF Advanced
<1>3. p \in Paths /\ a = env.assetOf[p] /\ env'.assetOf[p] = a /\ Covered(p)
  BY <1>2, SameHost DEF Decoys, Inv
<1>4. SUFFICES ASSUME stop[a] # "done", p \notin pending'[a], p \notin gap
               PROVE  Heeded(p)' \/ Told(kernel[a], a, p)' \/ Told(batch[a], a, p)'
  BY <1>2, <1>3 DEF Covered
<1>5. pc[a] = "batch" /\ k = batch[a][1].key
      /\ (lost => ~Windows /\ IF k \in DOMAIN reg[a] THEN reg[a][k].path = s ELSE DOMAIN reg[a] = {})
      /\ (~lost /\ ~Windows /\ k \in DOMAIN reg[a] => ~Telling(batch[a][1].mask))
  BY DEF Advances
<1>6. Heeded(p) \/ Told(kernel[a], a, p) \/ Told(batch[a], a, p)
  BY <1>2, <1>3, <1>4, <1>5 DEF Covered, Runs
<1>7. p \notin pending[a] /\ (lost => p # s)
  BY <1>2, <1>4
<1>8. ASSUME NEW j \in DOMAIN reg[a], reg[a][j].path = p
      PROVE  j \in DOMAIN reg'[a] /\ reg'[a][j] = reg[a][j]
  BY <1>2, <1>5, <1>7, <1>8
<1>9. CASE Heeded(p)
  <2>1. PICK j \in DOMAIN reg[a] :
            reg[a][j].live /\ IF Windows THEN reg[a][j].path = p ELSE reg[a][j].file = at[p]
    BY <1>3, <1>9 DEF Heeded, Watching, Listening
  <2>2. reg[a][j].path = p
    <3>1. CASE Windows
      BY <2>1, <3>1
    <3>2. CASE ~Windows
      <4>1. at[p] # None /\ EntryOK(a, j)
        BY <1>1, <1>9, <3>2 DEF Heeded, RegOK
      <4>2. QED
        BY <1>1, <1>3, <2>1, <3>2, <4>1, DecoyFile DEF EntryOK
    <3>3. QED
      BY <3>1, <3>2
  <2>3. j \in DOMAIN reg'[a] /\ reg'[a][j] = reg[a][j]
    BY <1>8, <2>2
  <2>4. Windows' = Windows
    BY <1>2, SameHost
  <2>5. j \in Listening(a, p, at[p])'
    BY <1>2, <2>1, <2>3, <2>4 DEF Listening
  <2>6. QED
    BY <1>2, <1>3, <1>9, <2>4, <2>5 DEF Heeded, Watching
<1>10. CASE Told(kernel[a], a, p)
  <2>1. PICK q0 : q0 = kernel[a]
    OBVIOUS
  <2>2. ~Windows
    BY <1>10 DEF Told
  <2>3. PICK i \in 1..Len(q0) : q0[i].key \in DOMAIN reg[a] /\ reg[a][q0[i].key].path = p /\ Telling(q0[i].mask)
    BY <1>10, <2>1 DEF Told
  <2>4. q0[i].key \in DOMAIN reg'[a] /\ reg'[a][q0[i].key].path = p
    BY <1>8, <2>3
  <2>5. PICK j \in 1..Len(q) : q[j] = q0[i]
    <3>1. q = IF lost /\ MacOS THEN Closed(q0, k) ELSE q0
      BY <2>1 DEF Advances
    <3>2. CASE lost /\ MacOS
      <4>1. q0[i].key # k
        BY <1>2, <2>4, <3>2
      <4>2. Drops(q0, k, q)
        BY <1>1, <1>2, <2>1, <3>1, <3>2, ClosedIs DEF KernelOK, QueueOK
      <4>3. QED
        BY <4>1, <4>2 DEF Drops
    <3>3. CASE ~(lost /\ MacOS)
      BY <3>1, <3>3
    <3>4. QED
      BY <3>2, <3>3
  <2>6. Telling(q[j].mask)' /\ ~Windows'
    BY <1>2, <2>2, <2>3, <2>5, SameHost DEF Telling
  <2>7. Told(kernel[a], a, p)'
    BY <1>2, <2>4, <2>5, <2>6 DEF Told, Telling
  <2>8. QED
    BY <2>7
<1>11. CASE Told(batch[a], a, p)
  <2>1. PICK b, t : b = batch[a] /\ t = Tail(b)
    OBVIOUS
  <2>2. ~Windows
    BY <1>11 DEF Told
  <2>3. PICK i \in 1..Len(b) : b[i].key \in DOMAIN reg[a] /\ reg[a][b[i].key].path = p /\ Telling(b[i].mask)
    BY <1>11, <2>1 DEF Told
  <2>4. b[i].key \in DOMAIN reg'[a] /\ reg'[a][b[i].key].path = p
    BY <1>8, <2>3
  <2>5. i # 1
    <3>1. SUFFICES ASSUME i = 1 PROVE FALSE
      OBVIOUS
    <3>2. b[i].key = k /\ k \in DOMAIN reg[a]
      BY <1>5, <2>1, <2>3, <3>1
    <3>3. lost
      BY <1>5, <2>1, <2>2, <2>3, <3>1, <3>2
    <3>4. QED
      BY <1>2, <2>4, <3>2, <3>3
  <2>6. b \in Seq(Event) /\ b # <<>>
    BY <1>2, <2>1
  <2>7. i - 1 \in 1..Len(t) /\ t[i - 1] = b[i]
    BY <2>1, <2>3, <2>5, <2>6
  <2>8. Telling(t[i - 1].mask)' /\ ~Windows' /\ batch'[a] = t
    BY <1>2, <2>1, <2>2, <2>3, <2>7, SameHost DEF Telling
  <2>9. Told(batch[a], a, p)'
    BY <2>4, <2>7, <2>8 DEF Told, Telling
  <2>10. QED
    BY <2>9
<1>12. QED
  BY <1>6, <1>9, <1>10, <1>11

LEMMA AdvanceKeepsEarned ==
    ASSUME Inv, WatcherOK', NEW a \in Assets, NEW k, NEW s, NEW lost, NEW q, Advances(a, k, s, lost, q),
           NEW p \in Decoys(a)
    PROVE  Earned(p)'
<1>1. /\ Advanced(a, k, s, lost, q) /\ WatcherOK /\ FilesOK /\ HistoryOK /\ HistoryOK' /\ KernelOK(a)
      /\ BatchOK(a) /\ env \in Environments
  BY AdvancedIs DEF Inv, WatcherOK, FilesOK, Watchers, AssetOK
<1>2. /\ Grown /\ handler'[a] = NoHandler
      /\ batch[a] \in Seq(Event) /\ batch[a] # <<>> /\ batch'[a] = Tail(batch[a])
      /\ kernel[a] \in Seq(Event) /\ kernel'[a] = q
      /\ DOMAIN reg'[a] = IF lost THEN DOMAIN reg[a] \ {k} ELSE DOMAIN reg[a]
      /\ \A j \in DOMAIN reg'[a] : reg'[a][j] = reg[a][j]
  BY <1>1 DEF Advanced
<1>3. p \in Paths /\ a = env.assetOf[p] /\ env'.assetOf[p] = a /\ Earned(p) /\ done'[p] = done[p]
  BY <1>2, SameHost DEF Decoys, Inv, Advances
<1>4. PICK q0, b, t, l : q0 = kernel[a] /\ b = batch[a] /\ t = Left(a)' /\ l = Left(a)
  OBVIOUS
<1>5. t = Tail(b) /\ t \in Seq(Event) /\ b \in Seq(Event) /\ b # <<>> /\ q0 \in Seq(Event)
  <2>1. t = Tail(b)
    BY <1>2, <1>4 DEF Left, NoHandler
  <2>2. QED
    BY <1>2, <1>4, <2>1
<1>6. l = b \/ l = t
  BY <1>4, <1>5 DEF Left
<1>7. Linux => \A i \in 1..Len(b) : b[i].key <= made
  BY <1>1, <1>4 DEF BatchOK, EventOK
<1>8. Linux => \A i \in 1..Len(t) : t[i].key <= made
  BY <1>5, <1>7
<1>9. KeysOf(p)' \subseteq KeysOf(p)
  <2>1. CASE Linux
    <3>1. UNCHANGED files
      BY DEF Advances
    <3>2. Linux' /\ made' = made /\ owner' = owner
      BY <1>2, <2>1, <3>1, SameHost DEF files
    <3>3. QED
      BY <1>3, <2>1, <3>2 DEF KeysOf
  <2>2. CASE ~Linux
    BY <1>2, <1>3, <2>2, SameHost DEF KeysOf
  <2>3. QED
    BY <2>1, <2>2
<1>10. ASSUME NEW class \in Classes
       PROVE  notices'[p][class] + InHand(p, class)' + Tally(q, KeysOf(p)', MasksOf(class))
                      + Tally(t, KeysOf(p)', MasksOf(class))
                  <= notices[p][class] + InHand(p, class) + Tally(q0, KeysOf(p), MasksOf(class))
                         + Tally(l, KeysOf(p), MasksOf(class))
  <2>1. InHand(p, class)' = 0 /\ InHand(p, class) \in Nat
    BY <1>2, <1>3 DEF InHand, NoHandler
  <2>2. notices'[p][class] <= notices[p][class] + InHand(p, class)
    BY DEF Advances
  <2>3. notices'[p][class] \in Nat /\ notices[p][class] \in Nat
    BY <1>1, <1>3 DEF HistoryOK
  <2>4. Tally(q, KeysOf(p)', MasksOf(class)) <= Tally(q0, KeysOf(p), MasksOf(class))
    <3>1. q = IF lost /\ MacOS THEN Closed(q0, k) ELSE q0
      BY <1>4 DEF Advances
    <3>2. Tally(Closed(q0, k), KeysOf(p)', MasksOf(class)) <= Tally(q0, KeysOf(p), MasksOf(class))
      BY <1>5, <1>9, ClosedTally
    <3>3. Tally(q0, KeysOf(p)', MasksOf(class)) <= Tally(q0, KeysOf(p), MasksOf(class))
      BY <1>5, <1>9, TallyOfKeys
    <3>4. QED
      BY <3>1, <3>2, <3>3
  <2>5. Tally(t, KeysOf(p)', MasksOf(class)) <= Tally(l, KeysOf(p), MasksOf(class))
    <3>1. Tally(t, KeysOf(p)', MasksOf(class)) <= Tally(t, KeysOf(p), MasksOf(class))
      BY <1>5, <1>9, TallyOfKeys
    <3>2. Tally(t, KeysOf(p), MasksOf(class)) <= Tally(b, KeysOf(p), MasksOf(class))
      BY <1>5, TallyTail
    <3>3. /\ Tally(t, KeysOf(p)', MasksOf(class)) \in Nat /\ Tally(t, KeysOf(p), MasksOf(class)) \in Nat
          /\ Tally(b, KeysOf(p), MasksOf(class)) \in Nat
      BY <1>5, PlacesAre
    <3>4. QED
      BY <1>6, <3>1, <3>2, <3>3
  <2>6. /\ Tally(q, KeysOf(p)', MasksOf(class)) \in Nat /\ Tally(q0, KeysOf(p), MasksOf(class)) \in Nat
        /\ Tally(t, KeysOf(p)', MasksOf(class)) \in Nat /\ Tally(l, KeysOf(p), MasksOf(class)) \in Nat
    <3>1. q \in Seq(Event) /\ l \in Seq(Event)
      BY <1>1, <1>5, <1>6 DEF Advanced
    <3>2. QED
      BY <1>5, <3>1, PlacesAre
  <2>7. QED
    BY <2>1, <2>2, <2>3, <2>4, <2>5, <2>6
<1>11. QED
  BY <1>1, <1>2, <1>3, <1>4, <1>10, EarnedFewer

LEMMA AdvancesSafe ==
    ASSUME Inv, NEW a \in Assets, NEW k, NEW s, NEW lost, NEW q, Advances(a, k, s, lost, q), Honest(a)'
    PROVE  Inv'
<1>1. Apart(a)
  BY AdvancedIs DEF Advanced
<1>2. AssetOK(a)'
  BY AdvanceKeepsAsset
<1>3. WatcherOK' => \A p \in Decoys(a) : Covered(p)' /\ Earned(p)'
  BY AdvanceKeepsCovered, AdvanceKeepsEarned
<1>4. QED
  BY <1>1, <1>2, <1>3, ApartSafe

LEMMA SkipEventSafe ==
    ASSUME Inv, NEW a \in Assets, SkipEvent(a)
    PROVE  Inv'
<1>1. /\ FilesOK /\ HistoryOK /\ Shapes /\ RegOK(a) /\ BatchOK(a) /\ ThreadOK(a) /\ env \in Environments
  BY DEF Inv, WatcherOK, FilesOK, Watchers, AssetOK
<1>2. PICK b, e, k, lost, q : b = batch[a] /\ e = b[1] /\ k = e.key /\ lost = (k \in DOMAIN reg[a]) /\ q = kernel[a]
  OBVIOUS
<1>3. PICK s : s = reg[a][k].path
  OBVIOUS
<1>4. pc[a] = "batch" /\ b \in Seq(Event) /\ b # <<>> /\ 1 \in 1..Len(b) /\ lost \in BOOLEAN
  <2>1. pc[a] = "batch" /\ b \in Seq(Event) /\ b # <<>> /\ lost \in BOOLEAN
    BY <1>1, <1>2 DEF SkipEvent, Shapes, BatchOK
  <2>2. QED
    BY <2>1, EmptySeq
<1>5. e = Head(batch[a]) /\ e \in Event /\ EventOK(e)
  BY <1>1, <1>2, <1>4 DEF BatchOK
<1>6. lost => Linux /\ ~MacOS /\ ~Windows /\ s \in Decoys(a) /\ "ignored" \in e.mask
  <2>1. SUFFICES ASSUME lost PROVE Linux /\ s \in Decoys(a) /\ "ignored" \in e.mask
    BY <1>1, HostIs
  <2>2. k \in DOMAIN reg[a]
    BY <1>2, <2>1
  <2>3. "ignored" \in e.mask
    BY <1>2, <1>5, <2>2 DEF SkipEvent
  <2>4. EntryOK(a, k)
    BY <1>1, <2>2 DEF RegOK
  <2>5. QED
    BY <1>3, <1>5, <2>3, <2>4 DEF EventOK, EntryOK
<1>7. /\ reg' = [reg EXCEPT ![a] = IF lost THEN Without(reg[a], k) ELSE reg[a]]
      /\ pending' = [pending EXCEPT ![a] = IF lost THEN pending[a] \cup {s} ELSE pending[a]]
  <2>1. CASE lost
    BY <1>2, <1>3, <1>5, <2>1 DEF SkipEvent
  <2>2. CASE ~lost
    <3>1. reg' = reg /\ pending' = pending
      BY <1>2, <1>5, <2>2 DEF SkipEvent, watcher
    <3>2. QED
      BY <1>1, <2>2, <3>1 DEF Shapes
  <2>3. QED
    BY <2>1, <2>2
<1>8. /\ UNCHANGED <<files, command, env, done, gap, kernel, flight, cut, claim, notices, unseen>>
      /\ handler' = handler /\ handler[a] = NoHandler
      /\ batch' = [batch EXCEPT ![a] = Tail(batch[a])]
      /\ IF Len(batch[a]) = 1 THEN Turn(a, pending'[a]) ELSE UNCHANGED <<pc, todo>>
  BY DEF SkipEvent, NextEvent, counters, service, history
<1>9. HistoryOK'
  BY <1>1, <1>8 DEF HistoryOK
<1>10. Advances(a, k, s, lost, q)
  <2>1. \A p \in Decoys(a), class \in Classes : notices'[p][class] <= notices[p][class] + InHand(p, class)
    <3>1. SUFFICES ASSUME NEW p \in Decoys(a), NEW class \in Classes
                   PROVE  notices'[p][class] <= notices[p][class] + InHand(p, class)
      OBVIOUS
    <3>2. notices'[p][class] = notices[p][class] /\ notices[p][class] \in Nat /\ InHand(p, class) \in Nat
      BY <1>1, <1>8 DEF HistoryOK, InHand, Decoys
    <3>3. QED
      BY <3>2
  <2>2. handler' = [handler EXCEPT ![a] = NoHandler] /\ kernel' = [kernel EXCEPT ![a] = q]
    BY <1>1, <1>2, <1>8 DEF Shapes
  <2>3. \A c \in Assets : c # a => flight'[c] = flight[c] /\ cut'[c] = cut[c] /\ claim'[c] = claim[c]
    BY <1>8
  <2>4. q = IF lost /\ MacOS THEN Closed(kernel[a], k) ELSE kernel[a]
    BY <1>2, <1>6
  <2>5. lost => IF k \in DOMAIN reg[a] THEN reg[a][k].path = s ELSE DOMAIN reg[a] = {}
    BY <1>2, <1>3
  <2>6. ~lost /\ ~Windows /\ k \in DOMAIN reg[a] => ~Telling(batch[a][1].mask)
    BY <1>2
  <2>7. \A p \in Paths : p \notin Decoys(a) => notices'[p] = notices[p]
    BY <1>8
  <2>8. UNCHANGED <<files, command, env, done, gap>>
    BY <1>8
  <2>9. k = batch[a][1].key
    BY <1>2
  <2>10. QED
    BY <1>4, <1>6, <1>7, <1>8, <1>9, <2>1, <2>2, <2>3, <2>4, <2>5, <2>6, <2>7, <2>8, <2>9 DEF Advances
<1>11. Honest(a)'
  BY <1>8, HonestStays DEF Inv
<1>12. QED
  BY <1>10, <1>11, AdvancesSafe

-----------------------------------------------------------------------------
(* A response begins or goes on.                                           *)

Responds(a) ==
    /\ UNCHANGED <<files, kernel, watcher, pc, todo, batch, command, env, done, gap>>
    /\ handler' \in [Assets -> Handler] /\ HistoryOK'
    /\ \A b \in Assets : b # a =>
           handler'[b] = handler[b] /\ flight'[b] = flight[b] /\ cut'[b] = cut[b] /\ claim'[b] = claim[b]
    /\ \A p \in Paths : p \notin Decoys(a) => notices'[p] = notices[p]
    /\ \A p \in Decoys(a), class \in Classes :
           notices'[p][class] + InHand(p, class)' + Tally(Left(a)', KeysOf(p), MasksOf(class))
               <= notices[p][class] + InHand(p, class) + Tally(Left(a), KeysOf(p), MasksOf(class))
    /\ RespondingOK(a)'

LEMMA RespondsSafe ==
    ASSUME Inv, NEW a \in Assets, Responds(a), Honest(a)'
    PROVE  Inv'
<1>1. /\ WatcherOK /\ FilesOK /\ HistoryOK /\ Shapes /\ AssetOK(a) /\ env \in Environments
  BY DEF Inv, WatcherOK, FilesOK, Watchers
<1>2. /\ kernel' = kernel /\ reg' = reg /\ pending' = pending /\ pc' = pc /\ todo' = todo /\ batch' = batch
      /\ phase' = phase /\ stop' = stop /\ done' = done /\ gap' = gap /\ handler' \in [Assets -> Handler]
      /\ HistoryOK' /\ UNCHANGED <<files, env>> /\ at' = at
      /\ \A b \in Assets : b # a => handler'[b] = handler[b]
  BY DEF Responds, watcher, command, files
<1>3. Grown
  BY <1>1, <1>2, FilesStay
<1>4. Shapes'
  BY <1>1, <1>2 DEF Shapes
<1>5. Apart(a)
  <2>1. \A b \in Assets : b # a => Untouched(b)
    BY <1>2 DEF Untouched
  <2>2. \A b \in Assets : b # a => flight'[b] = flight[b] /\ cut'[b] = cut[b] /\ claim'[b] = claim[b]
    BY DEF Responds
  <2>3. \A p \in Paths : p \notin Decoys(a) => at'[p] = at[p] /\ notices'[p] = notices[p] /\ (p \in gap => p \in gap')
    BY <1>2 DEF Responds
  <2>4. QED
    BY <1>2, <1>3, <1>4, <2>1, <2>2, <2>3 DEF Apart
<1>6. AssetOK(a)'
  <2>1. RegOK(a)'
    <3>1. reg'[a] = [j \in DOMAIN reg'[a] |-> reg'[a][j]]
      BY <1>1, <1>2 DEF AssetOK, RegOK
    <3>2. QED
      BY <1>1, <1>2, <1>3, <3>1, RegStays DEF AssetOK
  <2>2. KernelOK(a)' /\ BatchOK(a)'
    BY <1>1, <1>2, <1>3, KernelStays, BatchStays DEF AssetOK, Shapes
  <2>3. ThreadOK(a)'
    BY <1>1, <1>2, <1>3, SameHost DEF AssetOK, ThreadOK
  <2>4. HandlerOK(a)'
    BY DEF Responds, HandlerOK
  <2>5. QED
    BY <2>1, <2>2, <2>3, <2>4 DEF AssetOK
<1>7. ASSUME WatcherOK', NEW p \in Decoys(a) PROVE Covered(p)' /\ Earned(p)'
  <2>1. p \in Paths /\ a = env.assetOf[p] /\ env'.assetOf[p] = a /\ Covered(p) /\ Earned(p) /\ done'[p] = done[p]
    BY <1>2, <1>3, SameHost DEF Decoys, Inv
  <2>2. Covered(p)'
    BY <1>2, <1>3, <2>1, CoveredStays
  <2>3. PICK q, l, m : q = kernel[a] /\ l = Left(a) /\ m = Left(a)'
    OBVIOUS
  <2>4. q = kernel'[a] /\ q \in Seq(Event) /\ l \in Seq(Event) /\ m \in Seq(Event)
        /\ (Linux => \A i \in 1..Len(q) : q[i].key <= made)
    <3>1. l \in Seq(Event)
      BY <1>1, <2>3, LeftIs
    <3>2. m \in Seq(Event)
      <4>1. LeftsOK'
        BY <1>7, LeftsAre, PTL
      <4>2. QED
        BY <2>3, <4>1 DEF LeftsOK
    <3>3. QED
      BY <1>1, <1>2, <2>3, <3>1, <3>2 DEF AssetOK, KernelOK, QueueOK, EventOK, Shapes
  <2>5. KeysOf(p)' = KeysOf(p)
    BY <1>2, <1>3, <2>1, SameHost DEF KeysOf, files
  <2>6. ASSUME NEW class \in Classes
        PROVE  notices'[p][class] + InHand(p, class)' + Tally(q, KeysOf(p)', MasksOf(class))
                       + Tally(m, KeysOf(p)', MasksOf(class))
                   <= notices[p][class] + InHand(p, class) + Tally(q, KeysOf(p), MasksOf(class))
                          + Tally(l, KeysOf(p), MasksOf(class))
    <3>1. notices'[p][class] + InHand(p, class)' + Tally(m, KeysOf(p), MasksOf(class))
              <= notices[p][class] + InHand(p, class) + Tally(l, KeysOf(p), MasksOf(class))
      BY <2>3 DEF Responds
    <3>2. /\ Tally(q, KeysOf(p), MasksOf(class)) \in Nat /\ Tally(l, KeysOf(p), MasksOf(class)) \in Nat
          /\ Tally(m, KeysOf(p), MasksOf(class)) \in Nat
      BY <2>4, PlacesAre
    <3>3. notices'[p][class] \in Nat /\ notices[p][class] \in Nat
      BY <1>1, <1>2, <2>1 DEF HistoryOK
    <3>4. InHand(p, class) \in Nat /\ InHand(p, class)' \in Nat
      BY DEF InHand
    <3>5. QED
      BY <2>5, <3>1, <3>2, <3>3, <3>4
  <2>7. Earned(p)'
    BY <1>1, <1>3, <1>7, <2>1, <2>3, <2>4, <2>6, EarnedFewer
  <2>8. QED
    BY <2>2, <2>7
<1>8. QED
  BY <1>5, <1>6, <1>7, ApartSafe

LEMMA RespondingIs ==
    ASSUME Inv, NEW a \in Assets, handler[a].step # "none"
    PROVE  RespondingOK(a) /\ handler[a] \in Handler /\ handler[a].step \in Responses
<1>1. HandlerOK(a) /\ handler[a] \in Handler
  BY DEF Inv, WatcherOK, Watchers, AssetOK, Shapes
<1>2. RespondingOK(a)
  BY <1>1 DEF HandlerOK, NoHandler, AttachingOK
<1>3. QED
  BY <1>1, <1>2 DEF RespondingOK

LEMMA TakeEventSafe ==
    ASSUME Inv, NEW a \in Assets, TakeEvent(a)
    PROVE  Inv'
<1>1. /\ WatcherOK /\ FilesOK /\ HistoryOK /\ Shapes /\ RegOK(a) /\ BatchOK(a) /\ env \in Environments
  BY DEF Inv, WatcherOK, FilesOK, Watchers, AssetOK
<1>2. PICK b, e, k, s : b = batch[a] /\ e = b[1] /\ k = e.key /\ s = reg[a][k].path
  OBVIOUS
<1>3. PICK h : h = [step |-> "notify", path |-> s, class |-> Classify(e.mask), key |-> k, mask |-> e.mask]
  OBVIOUS
<1>4. pc[a] = "batch" /\ b \in Seq(Event) /\ b # <<>> /\ 1 \in 1..Len(b) /\ handler[a] = NoHandler
  <2>1. pc[a] = "batch" /\ b \in Seq(Event) /\ b # <<>> /\ handler[a] = NoHandler
    BY <1>1, <1>2 DEF TakeEvent, Shapes, BatchOK
  <2>2. QED
    BY <2>1, EmptySeq
<1>5. e = Head(batch[a]) /\ e \in Event /\ EventOK(e)
  BY <1>1, <1>2, <1>4 DEF BatchOK
<1>6. k \in DOMAIN reg[a] /\ "ignored" \notin e.mask /\ handler' = [handler EXCEPT ![a] = h]
  BY <1>2, <1>3, <1>5 DEF TakeEvent
<1>7. EntryOK(a, k)
  BY <1>1, <1>6 DEF RegOK
<1>8. s \in Decoys(a) /\ k \in Nat /\ e.mask \in Masks /\ e.mask \in SUBSET Kinds
      /\ (Linux => k \in 1..made /\ owner[k] = s)
  <2>1. s \in Decoys(a) /\ k > 0 /\ (Linux => reg[a][k].file = k /\ owner[k] = s)
    BY <1>2, <1>7 DEF EntryOK
  <2>2. k \in Nat /\ e.mask \in Masks
    BY <1>2, <1>5 DEF Event
  <2>3. e.mask \in SUBSET Kinds
    BY <1>6, <2>2 DEF Masks
  <2>4. Linux => k <= made /\ made \in Nat
    BY <1>1, <1>2, <1>5, BoundsAre DEF EventOK, FilesOK
  <2>5. QED
    BY <2>1, <2>2, <2>3, <2>4
<1>9. Classify(e.mask) \in Classes
  BY DEF Classify, ClassifyMask, ClassifyFflags, ClassifyAction, Classes
<1>10. h \in Handler /\ h.step = "notify" /\ h.path = s /\ h.class = Classify(e.mask) /\ h.key = k /\ h.mask = e.mask
  BY <1>3, <1>8, <1>9 DEF Handler, Responses, Decoys
<1>11. /\ UNCHANGED <<files, kernel, watcher, pc, todo, batch, command, env, done, gap>>
       /\ UNCHANGED <<notices, flight, cut, claim, unseen, reg, made, owner>>
  BY DEF TakeEvent, counters, service, history, watcher, files
<1>12. handler'[a] = h /\ handler' \in [Assets -> Handler] /\ \A c \in Assets : c # a => handler'[c] = handler[c]
  BY <1>1, <1>6, <1>10 DEF Shapes
<1>13. HistoryOK'
  BY <1>1, <1>11 DEF HistoryOK
<1>14. RespondingOK(a)'
  <2>1. Linux' = Linux /\ Decoys(a)' = Decoys(a) /\ Classify(e.mask)' = Classify(e.mask)
    BY <1>11 DEF Linux, MacOS, Decoys, Classify
  <2>2. batch'[a][1] = e /\ pc'[a] = "batch" /\ reg' = reg /\ made' = made /\ owner' = owner
    BY <1>2, <1>4, <1>11
  <2>3. h.class = Classify(h.mask)'
    BY <1>10, <2>1 DEF Classify
  <2>4. QED
    BY <1>2, <1>6, <1>8, <1>10, <1>12, <2>1, <2>2, <2>3 DEF RespondingOK, Responses
<1>15. ASSUME NEW p \in Decoys(a), NEW class \in Classes
       PROVE  notices'[p][class] + InHand(p, class)' + Tally(Left(a)', KeysOf(p), MasksOf(class))
                  <= notices[p][class] + InHand(p, class) + Tally(Left(a), KeysOf(p), MasksOf(class))
  <2>1. Left(a) = b /\ Left(a)' = Tail(b)
    BY <1>2, <1>4, <1>10, <1>11, <1>12 DEF Left, NoHandler
  <2>2. p \in Paths /\ env.assetOf[p] = a /\ env'.assetOf[p] = a
    BY <1>11 DEF Decoys
  <2>3. InHand(p, class) = 0
    BY <1>4, <2>2 DEF InHand, NoHandler
  <2>4. InHand(p, class)' = IF s = p /\ Classify(e.mask) = class THEN 1 ELSE 0
    BY <1>10, <1>12, <2>2 DEF InHand
  <2>5. /\ Tally(Tail(b), KeysOf(p), MasksOf(class)) <= Tally(b, KeysOf(p), MasksOf(class))
        /\ Counted(b[1], KeysOf(p), MasksOf(class)) =>
               Tally(Tail(b), KeysOf(p), MasksOf(class)) + 1 <= Tally(b, KeysOf(p), MasksOf(class))
    BY <1>4, TallyTail
  <2>6. s = p /\ Classify(e.mask) = class => Counted(b[1], KeysOf(p), MasksOf(class))
    BY <1>2, <1>6, <1>8, <2>2 DEF Counted, KeysOf, MasksOf
  <2>7. Tally(Tail(b), KeysOf(p), MasksOf(class)) \in Nat /\ Tally(b, KeysOf(p), MasksOf(class)) \in Nat
    <3>1. PICK t : t = Tail(b)
      OBVIOUS
    <3>2. t \in Seq(Event)
      BY <1>4, <3>1
    <3>3. QED
      BY <1>4, <3>1, <3>2, PlacesAre
  <2>8. notices'[p][class] = notices[p][class] /\ notices[p][class] \in Nat
    BY <1>1, <1>11, <2>2 DEF HistoryOK
  <2>9. QED
    BY <2>1, <2>3, <2>4, <2>5, <2>6, <2>7, <2>8
<1>16. Responds(a)
  <2>1. \A c \in Assets : c # a =>
            handler'[c] = handler[c] /\ flight'[c] = flight[c] /\ cut'[c] = cut[c] /\ claim'[c] = claim[c]
    BY <1>11, <1>12
  <2>2. \A p \in Paths : p \notin Decoys(a) => notices'[p] = notices[p]
    BY <1>11
  <2>3. UNCHANGED <<files, kernel, watcher, pc, todo, batch, command, env, done, gap>>
    BY <1>11
  <2>4. QED
    BY <1>12, <1>13, <1>14, <1>15, <2>1, <2>2, <2>3 DEF Responds
<1>17. Honest(a)'
  BY <1>10, <1>11, <1>12 DEF Inv, Honest
<1>18. QED
  BY <1>16, <1>17, RespondsSafe

\* The response goes to its next step, with the same event.
StepsOn(a, step) ==
    /\ handler[a].step \in Responses /\ step \in {"cut", "await"}
    /\ handler' = [handler EXCEPT ![a].step = step]
    /\ UNCHANGED <<files, kernel, watcher, pc, todo, batch, command, env, done, gap>>

LEMMA StepsOnResponds ==
    ASSUME Inv, NEW a \in Assets, NEW step, StepsOn(a, step)
    PROVE  /\ RespondingOK(a) /\ RespondingOK(a)' /\ handler' \in [Assets -> Handler]
           /\ handler'[a].step = step /\ Left(a)' = Left(a)
           /\ \A c \in Assets : c # a => handler'[c] = handler[c]
           /\ \A p, class : InHand(p, class)' \in Nat /\ InHand(p, class) \in Nat
           /\ \A p \in Decoys(a) : \A class : InHand(p, class)' = 0
           /\ Left(a) \in Seq(Event)
<1>1. WatcherOK /\ Shapes
  BY DEF Inv, WatcherOK, Watchers
<1>2. RespondingOK(a) /\ handler[a] \in Handler
  BY RespondingIs DEF StepsOn, Responses
<1>3. PICK h, g : h = handler[a] /\ g = [h EXCEPT !.step = step]
  OBVIOUS
<1>4. g \in Handler /\ g.step = step /\ g.path = h.path /\ g.class = h.class /\ g.key = h.key /\ g.mask = h.mask
  BY <1>2, <1>3 DEF Handler, StepsOn, Responses
<1>5. handler'[a] = g /\ handler' \in [Assets -> Handler] /\ \A c \in Assets : c # a => handler'[c] = handler[c]
  BY <1>1, <1>3, <1>4 DEF Shapes, StepsOn
<1>6. /\ batch' = batch /\ pc' = pc /\ reg' = reg /\ made' = made /\ owner' = owner /\ env' = env
      /\ step \in {"cut", "await"} /\ h.step \in Responses
  BY <1>3 DEF StepsOn, watcher, files
<1>7. RespondingOK(a)'
  <2>1. Linux' = Linux /\ Decoys(a)' = Decoys(a) /\ \A mask : Classify(mask)' = Classify(mask)
    BY <1>6 DEF Linux, MacOS, Decoys, Classify, ClassifyMask, ClassifyFflags, ClassifyAction
  <2>2. g.step \in Responses
    BY <1>4, <1>6 DEF Responses
  <2>3. QED
    BY <1>2, <1>3, <1>4, <1>5, <1>6, <2>1, <2>2 DEF RespondingOK
<1>8. Left(a)' = Left(a)
  BY <1>3, <1>4, <1>5, <1>6 DEF Left, Responses
<1>9. ASSUME NEW p \in Decoys(a), NEW class PROVE InHand(p, class)' = 0
  BY <1>4, <1>5, <1>6 DEF InHand, Decoys
<1>10. \A p, class : InHand(p, class)' \in Nat /\ InHand(p, class) \in Nat
  BY DEF InHand
<1>11. Left(a) \in Seq(Event)
  BY <1>1, LeftIs
<1>12. QED
  BY <1>2, <1>4, <1>5, <1>7, <1>8, <1>9, <1>10, <1>11

LEMMA AskSafe ==
    ASSUME Inv, NEW a \in Assets, Ask(a)
    PROVE  Inv'
<1>1. HistoryOK /\ env \in Environments
  BY DEF Inv, WatcherOK, FilesOK
<1>2. /\ StepsOn(a, "await") /\ handler[a].step = "cut"
      /\ UNCHANGED <<files, kernel, watcher, pc, todo, batch, command, env, done, gap>>
      /\ notices' = notices /\ unseen' = unseen /\ done' = done /\ gap' = gap /\ cut' = cut /\ claim' = claim
      /\ flight' = [flight EXCEPT ![a] = "sent"]
  BY DEF Ask, StepsOn, Responses, counters, history
<1>3. flight' \in [Assets -> Flights] /\ flight'[a] = "sent" /\ \A c \in Assets : c # a => flight'[c] = flight[c]
  BY <1>1, <1>2 DEF HistoryOK, Flights
<1>4. HistoryOK'
  BY <1>1, <1>2, <1>3 DEF HistoryOK
<1>5. ASSUME NEW p \in Decoys(a), NEW class \in Classes
      PROVE  notices'[p][class] + InHand(p, class)' + Tally(Left(a)', KeysOf(p), MasksOf(class))
                 <= notices[p][class] + InHand(p, class) + Tally(Left(a), KeysOf(p), MasksOf(class))
  <2>1. InHand(p, class)' = 0 /\ InHand(p, class) \in Nat /\ Left(a)' = Left(a) /\ Left(a) \in Seq(Event)
    BY <1>2, StepsOnResponds
  <2>2. PICK l : l = Left(a)
    OBVIOUS
  <2>3. Tally(l, KeysOf(p), MasksOf(class)) \in Nat
    BY <2>1, <2>2, PlacesAre
  <2>4. notices'[p][class] = notices[p][class] /\ notices[p][class] \in Nat
    BY <1>1, <1>2 DEF HistoryOK, Decoys
  <2>5. QED
    BY <2>1, <2>2, <2>3, <2>4
<1>6. Responds(a)
  BY <1>2, <1>3, <1>4, <1>5, StepsOnResponds DEF Responds
<1>7. Honest(a)'
  <2>1. handler'[a].step = "await"
    BY <1>2, StepsOnResponds
  <2>2. QED
    BY <1>2, <1>3, <2>1 DEF Inv, Honest
<1>8. QED
  BY <1>6, <1>7, RespondsSafe

\* The response is over, and what is not said of it stays.
Ends(a) ==
    /\ Returned(a) /\ handler[a].step # "none"
    /\ UNCHANGED <<files, command, env, done, gap>>
    /\ HistoryOK'
    /\ \A b \in Assets : b # a => flight'[b] = flight[b] /\ cut'[b] = cut[b] /\ claim'[b] = claim[b]
    /\ \A p \in Paths : p \notin Decoys(a) => notices'[p] = notices[p]
    /\ \A p \in Decoys(a), class \in Classes :
           notices'[p][class] <= notices[p][class] + InHand(p, class)

LEMMA EndsSafe ==
    ASSUME Inv, NEW a \in Assets, Ends(a), Honest(a)'
    PROVE  Inv'
<1>1. Shapes /\ env \in Environments
  BY DEF Inv, WatcherOK, FilesOK, Watchers
<1>2. PICK h, k, s, lost : /\ h = handler[a] /\ k = h.key /\ s = h.path
                           /\ lost = (MacOS /\ h.mask \cap {"delete", "move"} # {})
  OBVIOUS
<1>3. PICK q : q = IF lost /\ MacOS THEN Closed(kernel[a], k) ELSE kernel[a]
  OBVIOUS
<1>4. RespondingOK(a)
  BY RespondingIs DEF Ends
<1>5. /\ pc[a] = "batch" /\ s \in Decoys(a) /\ k = batch[a][1].key /\ h.mask = batch[a][1].mask
      /\ "ignored" \notin h.mask
      /\ (~Linux => IF k \in DOMAIN reg[a] THEN reg[a][k].path = s ELSE DOMAIN reg[a] = {})
  BY <1>2, <1>4 DEF RespondingOK
<1>6. lost \in BOOLEAN /\ (lost => MacOS /\ ~Linux /\ ~Windows)
  BY <1>1, <1>2, HostIs
<1>7. /\ reg' = [reg EXCEPT ![a] = IF lost THEN Without(reg[a], k) ELSE reg[a]]
      /\ pending' = [pending EXCEPT ![a] = IF lost THEN pending[a] \cup {s} ELSE pending[a]]
      /\ kernel' = [kernel EXCEPT ![a] = q]
  <2>1. CASE lost
    BY <1>2, <1>3, <1>6, <2>1 DEF Ends, Returned
  <2>2. CASE ~lost
    <3>1. reg' = reg /\ pending' = pending /\ kernel' = kernel
      BY <1>2, <2>2 DEF Ends, Returned
    <3>2. QED
      BY <1>1, <1>3, <2>2, <3>1 DEF Shapes
  <2>3. QED
    BY <2>1, <2>2
<1>8. /\ handler' = [handler EXCEPT ![a] = NoHandler]
      /\ batch' = [batch EXCEPT ![a] = Tail(batch[a])]
      /\ IF Len(batch[a]) = 1 THEN Turn(a, pending'[a]) ELSE UNCHANGED <<pc, todo>>
  BY DEF Ends, Returned, NextEvent
<1>9. ~lost /\ ~Windows => ~Telling(batch[a][1].mask)
  <2>1. SUFFICES ASSUME ~lost, ~Windows PROVE ~Telling(h.mask)
    BY <1>5
  <2>2. Linux \/ (MacOS /\ ~Linux)
    BY <1>1, <2>1, HostIs
  <2>3. QED
    BY <1>2, <1>5, <2>1, <2>2 DEF Telling
<1>10. Advances(a, k, s, lost, q)
  <2>1. /\ UNCHANGED <<files, command, env, done, gap>>
        /\ HistoryOK'
        /\ \A b \in Assets : b # a => flight'[b] = flight[b] /\ cut'[b] = cut[b] /\ claim'[b] = claim[b]
        /\ \A p \in Paths : p \notin Decoys(a) => notices'[p] = notices[p]
        /\ \A p \in Decoys(a), class \in Classes :
               notices'[p][class] <= notices[p][class] + InHand(p, class)
    BY DEF Ends
  <2>2. lost => /\ ~Windows /\ s \in Decoys(a)
                /\ IF k \in DOMAIN reg[a] THEN reg[a][k].path = s ELSE DOMAIN reg[a] = {}
    BY <1>5, <1>6
  <2>3. QED
    BY <1>3, <1>5, <1>6, <1>7, <1>8, <1>9, <2>1, <2>2 DEF Advances
<1>11. QED
  BY <1>10, AdvancesSafe

\* A response that ends after the notification was made.
EndsLater(a) ==
    /\ Returned(a) /\ handler[a].step \in {"cut", "await"}
    /\ UNCHANGED <<files, command, env, done, gap, notices, unseen>>
    /\ flight' \in [Assets -> Flights] /\ cut' \in [Assets -> BOOLEAN] /\ claim' \in [Assets -> Claims]
    /\ \A b \in Assets : b # a => flight'[b] = flight[b] /\ cut'[b] = cut[b] /\ claim'[b] = claim[b]

LEMMA EndsLaterSafe ==
    ASSUME Inv, NEW a \in Assets, EndsLater(a), Honest(a)'
    PROVE  Inv'
<1>1. HistoryOK /\ HistoryOK'
  BY DEF Inv, WatcherOK, HistoryOK, EndsLater
<1>2. ASSUME NEW p \in Decoys(a), NEW class \in Classes
      PROVE  notices'[p][class] <= notices[p][class] + InHand(p, class)
  <2>1. notices'[p][class] = notices[p][class] /\ notices[p][class] \in Nat
    BY <1>1 DEF EndsLater, HistoryOK, Decoys
  <2>2. InHand(p, class) \in Nat
    BY DEF InHand
  <2>3. QED
    BY <2>1, <2>2
<1>3. handler[a].step # "none" /\ notices' = notices
  BY DEF EndsLater
<1>4. Ends(a)
  BY <1>1, <1>2, <1>3 DEF Ends, EndsLater
<1>5. QED
  BY <1>4, EndsSafe

LEMMA HandlerGone ==
    ASSUME Inv, NEW a \in Assets, Returned(a)
    PROVE  handler'[a] = NoHandler /\ NoHandler.step = "none"
BY DEF Inv, WatcherOK, Watchers, Shapes, Returned, NoHandler

LEMMA CutHereSafe ==
    ASSUME Inv, NEW a \in Assets, CutHere(a)
    PROVE  Inv'
<1>1. HistoryOK /\ Honest(a)
  BY DEF Inv, WatcherOK
<1>2. PICK result \in {"applied", "failed", "nothing"} :
          /\ claim' = [claim EXCEPT ![a] = result]
          /\ cut' = [cut EXCEPT ![a] = (result = "applied")]
  BY DEF CutHere
<1>3. flight' = flight /\ handler[a].step = "cut" /\ Returned(a)
      /\ UNCHANGED <<files, command, env, done, gap, notices, unseen>>
  BY DEF CutHere, service, counters
<1>4. /\ claim' \in [Assets -> Claims] /\ claim'[a] = result
      /\ cut' \in [Assets -> BOOLEAN] /\ cut'[a] = (result = "applied")
      /\ \A b \in Assets : b # a => cut'[b] = cut[b] /\ claim'[b] = claim[b]
  BY <1>1, <1>2 DEF HistoryOK, Claims
<1>5. EndsLater(a)
  BY <1>1, <1>3, <1>4 DEF EndsLater, HistoryOK
<1>6. Honest(a)'
  BY <1>1, <1>2, <1>3, <1>4, HandlerGone DEF Honest
<1>7. QED
  BY <1>5, <1>6, EndsLaterSafe

LEMMA AskFailsSafe ==
    ASSUME Inv, NEW a \in Assets, AskFails(a)
    PROVE  Inv'
<1>1. HistoryOK /\ Honest(a)
  BY DEF Inv, WatcherOK
<1>2. flight' = flight /\ cut' = cut /\ handler[a].step = "cut" /\ Returned(a)
      /\ claim' = [claim EXCEPT ![a] = "unsent"]
      /\ UNCHANGED <<files, command, env, done, gap, notices, unseen>>
  BY DEF AskFails, service, counters
<1>3. claim' \in [Assets -> Claims] /\ claim'[a] = "unsent" /\ \A b \in Assets : b # a => claim'[b] = claim[b]
  BY <1>1, <1>2 DEF HistoryOK, Claims
<1>4. EndsLater(a)
  BY <1>1, <1>2, <1>3 DEF EndsLater, HistoryOK
<1>5. Honest(a)'
  BY <1>1, <1>2, <1>3, HandlerGone DEF Honest
<1>6. QED
  BY <1>4, <1>5, EndsLaterSafe

LEMMA AnswerSafe ==
    ASSUME Inv, NEW a \in Assets, Answer(a)
    PROVE  Inv'
<1>1. HistoryOK /\ Honest(a)
  BY DEF Inv, WatcherOK
<1>2. cut' = cut /\ handler[a].step = "await" /\ Returned(a) /\ flight[a] \in {"cut", "refused"}
      /\ claim' = [claim EXCEPT ![a] = IF flight[a] = "cut" THEN "applied" ELSE "refused"]
      /\ flight' = [flight EXCEPT ![a] = "none"]
      /\ UNCHANGED <<files, command, env, done, gap, notices, unseen>>
  BY DEF Answer, counters
<1>3. /\ claim' \in [Assets -> Claims] /\ claim'[a] = IF flight[a] = "cut" THEN "applied" ELSE "refused"
      /\ flight' \in [Assets -> Flights] /\ flight'[a] = "none"
      /\ \A b \in Assets : b # a => claim'[b] = claim[b] /\ flight'[b] = flight[b]
  BY <1>1, <1>2 DEF HistoryOK, Claims, Flights
<1>4. EndsLater(a)
  BY <1>1, <1>2, <1>3 DEF EndsLater, HistoryOK
<1>5. Honest(a)'
  BY <1>1, <1>2, <1>3, HandlerGone DEF Honest
<1>6. QED
  BY <1>4, <1>5, EndsLaterSafe

LEMMA AnswerLostSafe ==
    ASSUME Inv, NEW a \in Assets, AnswerLost(a)
    PROVE  Inv'
<1>1. HistoryOK /\ Honest(a)
  BY DEF Inv, WatcherOK
<1>2. cut' = cut /\ handler[a].step = "await" /\ Returned(a)
      /\ claim' = [claim EXCEPT ![a] = "unknown"]
      /\ flight' = [flight EXCEPT ![a] = IF flight[a] = "sent" THEN "sent" ELSE "none"]
      /\ UNCHANGED <<files, command, env, done, gap, notices, unseen>>
  BY DEF AnswerLost, counters
<1>3. /\ claim' \in [Assets -> Claims] /\ claim'[a] = "unknown"
      /\ flight' \in [Assets -> Flights] /\ flight'[a] \in {"sent", "none"}
      /\ \A b \in Assets : b # a => claim'[b] = claim[b] /\ flight'[b] = flight[b]
  BY <1>1, <1>2 DEF HistoryOK, Claims, Flights
<1>4. EndsLater(a)
  BY <1>1, <1>2, <1>3 DEF EndsLater, HistoryOK
<1>5. Honest(a)'
  BY <1>1, <1>2, <1>3, HandlerGone DEF Honest
<1>6. QED
  BY <1>4, <1>5, EndsLaterSafe

LEMMA NotifyIs ==
    ASSUME Inv, NEW a \in Assets, Notify(a)
    PROVE  /\ RespondingOK(a) /\ handler[a].step = "notify" /\ HistoryOK
           /\ notices' \in [Paths -> [Classes -> Nat]] /\ unseen' \subseteq Paths
           /\ \A p \in Paths : p \notin Decoys(a) => notices'[p] = notices[p]
           /\ \A p \in Decoys(a), class \in Classes :
                  notices'[p][class] <= notices[p][class] + InHand(p, class)
           /\ UNCHANGED <<files, command, env, done, gap>>
<1>1. HistoryOK
  BY DEF Inv, WatcherOK
<1>2. handler[a].step = "notify" /\ RespondingOK(a) /\ handler[a] \in Handler
  BY RespondingIs DEF Notify
<1>3. PICK s, c : s = handler[a].path /\ c = handler[a].class
  OBVIOUS
<1>4. s \in Decoys(a) /\ s \in Paths /\ c \in Classes
  <2>1. s \in Decoys(a) /\ c = Classify(handler[a].mask)
    BY <1>2, <1>3 DEF RespondingOK
  <2>2. c \in Classes
    BY <2>1 DEF Classify, ClassifyMask, ClassifyFflags, ClassifyAction, Classes
  <2>3. QED
    BY <2>1, <2>2 DEF Decoys
<1>5. notices' = [notices EXCEPT ![s][c] = @ + 1]
  BY <1>3 DEF Notify
<1>6. /\ notices' \in [Paths -> [Classes -> Nat]]
      /\ \A p \in Paths : p # s => notices'[p] = notices[p]
      /\ notices'[s] = [notices[s] EXCEPT ![c] = @ + 1]
  BY <1>1, <1>4, <1>5 DEF HistoryOK
<1>7. ASSUME NEW p \in Decoys(a), NEW class \in Classes
      PROVE  notices'[p][class] <= notices[p][class] + InHand(p, class)
  <2>1. p \in Paths /\ env.assetOf[p] = a
    BY DEF Decoys
  <2>2. notices[p] \in [Classes -> Nat] /\ InHand(p, class) \in Nat
    BY <1>1, <2>1 DEF HistoryOK, InHand
  <2>3. CASE p = s /\ class = c
    <3>1. InHand(p, class) = 1
      BY <1>2, <1>3, <2>1, <2>3 DEF InHand
    <3>2. notices'[p][class] = notices[p][class] + 1
      BY <1>4, <1>6, <2>2, <2>3
    <3>3. QED
      BY <2>2, <3>1, <3>2
  <2>4. CASE ~(p = s /\ class = c)
    <3>1. notices'[p][class] = notices[p][class]
      BY <1>4, <1>6, <2>1, <2>2, <2>4
    <3>2. QED
      BY <2>2, <3>1
  <2>5. QED
    BY <2>3, <2>4
<1>8. unseen' \subseteq Paths
  BY <1>1 DEF Notify, HistoryOK
<1>9. UNCHANGED <<files, command, env, done, gap>>
  BY DEF Notify, counters
<1>10. \A p \in Paths : p \notin Decoys(a) => notices'[p] = notices[p]
  BY <1>4, <1>6
<1>11. QED
  BY <1>1, <1>2, <1>6, <1>7, <1>8, <1>9, <1>10

LEMMA NotifySafe ==
    ASSUME Inv, NEW a \in Assets, Notify(a)
    PROVE  Inv'
<1>1. /\ RespondingOK(a) /\ handler[a].step = "notify" /\ HistoryOK
      /\ notices' \in [Paths -> [Classes -> Nat]] /\ unseen' \subseteq Paths
      /\ \A p \in Paths : p \notin Decoys(a) => notices'[p] = notices[p]
      /\ \A p \in Decoys(a), class \in Classes :
             notices'[p][class] <= notices[p][class] + InHand(p, class)
      /\ UNCHANGED <<files, command, env, done, gap>>
  BY NotifyIs
<1>2. CASE MayCut(handler[a].class)
  <2>1. /\ StepsOn(a, "cut")
        /\ claim' = [claim EXCEPT ![a] = "nothing"]
        /\ cut' = [cut EXCEPT ![a] = FALSE]
        /\ flight' = [flight EXCEPT ![a] = "none"]
        /\ UNCHANGED <<files, kernel, watcher, pc, todo, batch, command, env, done, gap>>
    BY <1>1, <1>2 DEF Notify, StepsOn, Responses
  <2>2. /\ claim' \in [Assets -> Claims] /\ claim'[a] = "nothing"
        /\ flight' \in [Assets -> Flights] /\ flight'[a] = "none"
        /\ cut' \in [Assets -> BOOLEAN] /\ cut'[a] = FALSE
        /\ \A b \in Assets : b # a => claim'[b] = claim[b] /\ flight'[b] = flight[b] /\ cut'[b] = cut[b]
    BY <1>1, <2>1 DEF HistoryOK, Claims, Flights
  <2>3. HistoryOK'
    <3>1. done' = done /\ gap' = gap
      BY <1>1
    <3>2. QED
      BY <1>1, <2>2, <3>1 DEF HistoryOK
  <2>4. ASSUME NEW p \in Decoys(a), NEW class \in Classes
        PROVE  notices'[p][class] + InHand(p, class)' + Tally(Left(a)', KeysOf(p), MasksOf(class))
                   <= notices[p][class] + InHand(p, class) + Tally(Left(a), KeysOf(p), MasksOf(class))
    <3>1. InHand(p, class)' = 0 /\ InHand(p, class) \in Nat /\ Left(a)' = Left(a) /\ Left(a) \in Seq(Event)
      BY <2>1, StepsOnResponds
    <3>2. PICK l : l = Left(a)
      OBVIOUS
    <3>3. Tally(l, KeysOf(p), MasksOf(class)) \in Nat
      BY <3>1, <3>2, PlacesAre
    <3>4. notices'[p][class] \in Nat /\ notices[p][class] \in Nat
      BY <1>1 DEF HistoryOK, Decoys
    <3>5. notices'[p][class] <= notices[p][class] + InHand(p, class)
      BY <1>1
    <3>6. QED
      BY <3>1, <3>2, <3>3, <3>4, <3>5
  <2>5. Responds(a)
    BY <1>1, <2>1, <2>2, <2>3, <2>4, StepsOnResponds DEF Responds
  <2>6. Honest(a)'
    <3>1. handler'[a].step = "cut"
      BY <2>1, StepsOnResponds
    <3>2. QED
      BY <2>2, <3>1 DEF Honest
  <2>7. QED
    BY <2>5, <2>6, RespondsSafe
<1>3. CASE ~MayCut(handler[a].class)
  <2>1. Returned(a) /\ flight' = flight /\ cut' = cut /\ claim' = claim
    BY <1>3 DEF Notify
  <2>2. HistoryOK'
    <3>1. done' = done /\ gap' = gap
      BY <1>1
    <3>2. QED
      BY <1>1, <2>1, <3>1 DEF HistoryOK
  <2>3. Ends(a)
    BY <1>1, <2>1, <2>2 DEF Ends
  <2>4. Honest(a)'
    BY <2>1, HandlerGone DEF Inv, Honest
  <2>5. QED
    BY <2>3, <2>4, EndsSafe
<1>4. QED
  BY <1>2, <1>3

-----------------------------------------------------------------------------
(* Stopping.                                                               *)

LEMMA StopAskSafe ==
    ASSUME Inv, NEW a \in Assets, StopAsk(a)
    PROVE  Inv'
<1>1. /\ WatcherOK /\ FilesOK /\ HistoryOK /\ Shapes /\ AssetOK(a) /\ env \in Environments
  BY DEF Inv, WatcherOK, FilesOK, Watchers
<1>2. /\ kernel' = kernel /\ reg' = reg /\ pending' = pending /\ pc' = pc /\ todo' = todo /\ batch' = batch
      /\ phase' = phase /\ phase = "stopping" /\ stop' = [stop EXCEPT ![a] = "asked"] /\ stop[a] = "no"
      /\ done' = done /\ gap' = gap /\ handler' = handler /\ notices' = notices /\ unseen' = unseen
      /\ cut' = cut /\ claim' = claim /\ flight' = flight /\ UNCHANGED <<files, env>> /\ at' = at
  BY DEF StopAsk, watcher, thread, service, counters, history, files
<1>3. Grown
  BY <1>1, <1>2, FilesStay
<1>4. Shapes' /\ HistoryOK' /\ stop'[a] = "asked" /\ \A b \in Assets : b # a => stop'[b] = stop[b]
  BY <1>1, <1>2 DEF Shapes, HistoryOK
<1>5. Apart(a)
  BY <1>2, <1>3, <1>4 DEF Apart, Untouched
<1>6. AssetOK(a)'
  <2>1. RegOK(a)'
    <3>1. reg'[a] = [j \in DOMAIN reg'[a] |-> reg'[a][j]]
      BY <1>1, <1>2 DEF AssetOK, RegOK
    <3>2. QED
      BY <1>1, <1>2, <1>3, <3>1, RegStays DEF AssetOK
  <2>2. KernelOK(a)' /\ BatchOK(a)' /\ HandlerOK(a)'
    BY <1>1, <1>2, <1>3, KernelStays, BatchStays, HandlerStays DEF AssetOK, Shapes
  <2>3. ThreadOK(a)'
    BY <1>1, <1>2, <1>3, <1>4, SameHost DEF AssetOK, ThreadOK
  <2>4. QED
    BY <2>1, <2>2, <2>3 DEF AssetOK
<1>7. ASSUME WatcherOK', NEW p \in Decoys(a) PROVE Covered(p)' /\ Earned(p)'
  <2>1. p \in Paths /\ a = env.assetOf[p] /\ Covered(p) /\ Earned(p)
    BY DEF Decoys, Inv
  <2>2. Covered(p)'
    BY <1>2, <1>3, <2>1, CoveredStays
  <2>3. Earned(p)'
    BY <1>1, <1>2, <1>3, <1>7, <2>1, EarnedStays
  <2>4. QED
    BY <2>2, <2>3
<1>8. Honest(a)'
  BY <1>2, HonestStays DEF Inv
<1>9. QED
  BY <1>5, <1>6, <1>7, <1>8, ApartSafe

LEMMA StopJoinSafe ==
    ASSUME Inv, NEW a \in Assets, StopJoin(a)
    PROVE  Inv'
<1>1. /\ WatcherOK /\ FilesOK /\ HistoryOK /\ Shapes /\ env \in Environments
      /\ RegOK(a) /\ KernelOK(a) /\ BatchOK(a) /\ ThreadOK(a) /\ HandlerOK(a)
  BY DEF Inv, WatcherOK, FilesOK, Watchers, AssetOK
<1>2. /\ pc' = pc /\ todo' = todo /\ batch' = batch /\ handler' = handler
      /\ phase' = phase /\ stop' = [stop EXCEPT ![a] = "done"] /\ stop[a] = "asked"
      /\ done' = done /\ gap' = gap /\ notices' = notices /\ unseen' = unseen
      /\ cut' = cut /\ claim' = claim /\ flight' = flight /\ UNCHANGED <<files, env>> /\ at' = at
      /\ pending' = [pending EXCEPT ![a] = {}] /\ kernel' = [kernel EXCEPT ![a] = <<>>]
      /\ reg' = IF Windows THEN reg ELSE [reg EXCEPT ![a] = <<>>]
  BY DEF StopJoin, thread, service, counters, history, files
<1>3. pc[a] \in {"batch", "ended"} /\ phase = "stopping" /\ todo[a] = {}
  <2>1. phase = "stopping"
    BY <1>1, <1>2 DEF ThreadOK
  <2>2. pc[a] = "ended" \/ handler[a].step \in Responses
    BY DEF StopJoin, Responses
  <2>3. pc[a] \in {"batch", "ended"}
    BY <2>2, RespondingIs DEF RespondingOK, Responses
  <2>4. QED
    BY <1>1, <2>1, <2>3 DEF ThreadOK
<1>4. Grown
  BY <1>1, <1>2, FilesStay
<1>5. PICK r : r = IF Windows THEN reg[a] ELSE <<>>
  OBVIOUS
<1>6. /\ DOMAIN r = IF Windows THEN DOMAIN reg[a] ELSE {}
      /\ r = [j \in DOMAIN r |-> r[j]] /\ \A j \in DOMAIN r : r[j] = reg[a][j]
  <2>1. CASE Windows
    BY <1>1, <1>5, <2>1 DEF RegOK
  <2>2. CASE ~Windows
    BY <1>5, <2>2
  <2>3. QED
    BY <2>1, <2>2
<1>7. /\ stop'[a] = "done" /\ pending'[a] = {} /\ kernel'[a] = <<>> /\ reg'[a] = r
      /\ \A b \in Assets : b # a => Untouched(b)
  BY <1>1, <1>2, <1>5 DEF Shapes, Untouched
<1>8. Shapes' /\ HistoryOK'
  BY <1>1, <1>2 DEF Shapes, HistoryOK
<1>9. Apart(a)
  BY <1>2, <1>4, <1>7, <1>8 DEF Apart
<1>10. RegOK(a)'
  BY <1>1, <1>2, <1>3, <1>4, <1>6, <1>7, RegStays
<1>11. KernelOK(a)'
  <2>1. Len(kernel'[a]) = 0 /\ QueueMax \in Nat
    BY <1>7, BoundsAre
  <2>2. QED
    BY <2>1 DEF KernelOK, QueueOK, Once
<1>12. BatchOK(a)'
  BY <1>1, <1>2, <1>4, <1>6, <1>7, BatchStays DEF Shapes
<1>13. HandlerOK(a)'
  BY <1>1, <1>2, <1>3, <1>4, <1>6, <1>7, HandlerStays DEF Shapes
<1>14. ThreadOK(a)'
  BY <1>1, <1>2, <1>3, <1>4, <1>6, <1>7, SameHost DEF ThreadOK, Starts
<1>15. AssetOK(a)'
  BY <1>10, <1>11, <1>12, <1>13, <1>14 DEF AssetOK
<1>16. Honest(a)'
  BY <1>2, HonestStays DEF Inv
<1>17. ASSUME WatcherOK', NEW p \in Decoys(a) PROVE Covered(p)' /\ Earned(p)'
  <2>1. p \in Paths /\ a = env.assetOf[p] /\ env'.assetOf[p] = a /\ Earned(p) /\ done'[p] = done[p]
    BY <1>2, <1>4, SameHost DEF Decoys, Inv
  <2>2. Covered(p)'
    BY <1>7, <2>1 DEF Covered
  <2>3. PICK q, l, m, e : q = kernel[a] /\ l = Left(a) /\ m = Left(a)' /\ e = kernel'[a]
    OBVIOUS
  <2>4. m = l /\ l \in Seq(Event) /\ q \in Seq(Event) /\ e = <<>>
    <3>1. l \in Seq(Event)
      BY <1>1, <2>3, LeftIs
    <3>2. m = l
      BY <1>2, <2>3 DEF Left
    <3>3. QED
      BY <1>1, <1>7, <2>3, <3>1, <3>2 DEF Shapes
  <2>5. KeysOf(p)' \subseteq KeysOf(p)
    <3>1. CASE Linux
      BY <1>2, <1>4, <2>1, <3>1, SameHost DEF KeysOf, files
    <3>2. CASE ~Linux
      BY <1>4, <1>6, <1>7, <2>1, <3>2, SameHost DEF KeysOf
    <3>3. QED
      BY <3>1, <3>2
  <2>6. ASSUME NEW class \in Classes
        PROVE  notices'[p][class] + InHand(p, class)' + Tally(e, KeysOf(p)', MasksOf(class))
                       + Tally(m, KeysOf(p)', MasksOf(class))
                   <= notices[p][class] + InHand(p, class) + Tally(q, KeysOf(p), MasksOf(class))
                          + Tally(l, KeysOf(p), MasksOf(class))
    <3>1. InHand(p, class)' = InHand(p, class) /\ InHand(p, class) \in Nat
      BY <1>2, <2>1 DEF InHand
    <3>2. notices'[p][class] = notices[p][class] /\ notices[p][class] \in Nat
      BY <1>1, <1>2, <2>1 DEF HistoryOK
    <3>3. Tally(m, KeysOf(p)', MasksOf(class)) <= Tally(l, KeysOf(p), MasksOf(class))
      BY <2>4, <2>5, TallyOfKeys
    <3>4. Tally(e, KeysOf(p)', MasksOf(class)) = 0
      BY <2>4, TallyEmpty
    <3>5. /\ Tally(q, KeysOf(p), MasksOf(class)) \in Nat /\ Tally(l, KeysOf(p), MasksOf(class)) \in Nat
          /\ Tally(m, KeysOf(p)', MasksOf(class)) \in Nat
      BY <2>4, PlacesAre
    <3>6. QED
      BY <3>1, <3>2, <3>3, <3>4, <3>5
  <2>7. Earned(p)'
    BY <1>1, <1>4, <1>17, <2>1, <2>3, <2>6, EarnedFewer
  <2>8. QED
    BY <2>2, <2>7
<1>18. QED
  BY <1>9, <1>15, <1>16, <1>17, ApartSafe

-----------------------------------------------------------------------------
(* The invariant holds of every behaviour.                                 *)

LEMMA StartUpSafe ==
    ASSUME Inv, NEW a \in Assets, StartUp(a)
    PROVE  Inv'
<1>1. CASE StartFails(a)
  BY <1>1, GoneSafe DEF StartFails
<1>2. CASE StartLinux(a) \/ StartOpen(a) \/ StartWindows(a)
  BY <1>2, StartsSafe
<1>3. QED
  BY <1>1, <1>2, SeedSafe, StartAttachSafe DEF StartUp

LEMMA LoopSafe ==
    ASSUME Inv, NEW a \in Assets, Loop(a)
    PROVE  Inv'
BY IdleSafe, ReadSafe, SkipEventSafe, TakeEventSafe, StillMissingSafe, ReregisterSafe, ReregisterOpenSafe,
   ReregisterAttachSafe DEF Loop

LEMMA RespondSafe ==
    ASSUME Inv, NEW a \in Assets, Respond(a)
    PROVE  Inv'
BY NotifySafe, CutHereSafe, AskFailsSafe, AskSafe, AnswerSafe, AnswerLostSafe DEF Respond

LEMMA NextSafe ==
    ASSUME Inv, Next
    PROVE  Inv'
<1>1. CASE Exit \/ Killed
  BY <1>1, GoneSafe DEF Exit, Killed
<1>2. CASE Host \/ Launch \/ Beat \/ Interrupt
  BY <1>2, HostSafe, LaunchSafe, BeatSafe, InterruptSafe
<1>3. CASE \E d \in {"up", "down", "refusing", "stranger"} : DaemonChanges(d)
  BY <1>3, DaemonChangesSafe
<1>4. ASSUME NEW a \in Assets, StartUp(a) \/ Loop(a) \/ Respond(a) PROVE Inv'
  BY <1>4, StartUpSafe, LoopSafe, RespondSafe
<1>5. ASSUME NEW a \in Assets, Serve(a) \/ Shutdown(a) \/ AttachFails(a) \/ LoopBreaks(a) PROVE Inv'
  BY <1>5, ServeSafe, StopAskSafe, StopJoinSafe, AttachFailsSafe, LoopBreaksSafe DEF Shutdown
<1>6. QED
  BY <1>1, <1>2, <1>3, <1>4, <1>5 DEF Next

LEMMA StutterSafe ==
    ASSUME Inv, UNCHANGED vars
    PROVE  Inv'
<1>1. UNCHANGED <<files, kernel, watcher, thread, command, service, counters, history>>
  BY DEF vars
<1>2. /\ UNCHANGED <<files, kernel, watcher, thread, stop, env, done, notices, unseen, gap, claim>>
      /\ phase' = phase /\ flight' = flight /\ cut' = cut /\ claim' = claim /\ handler' = handler
  BY <1>1 DEF command, service, counters, history, thread
<1>3. Quiet
  BY <1>2 DEF Quiet, Inv, WatcherOK, HistoryOK
<1>4. \A a \in Assets : Honest(a)'
  BY <1>2, HonestStays DEF Inv
<1>5. QED
  BY <1>3, <1>4, QuietKeeps

LEMMA InvAlways == Spec => []Inv
<1>1. Inv /\ [Next]_vars => Inv'
  BY NextSafe, StutterSafe
<1>2. QED
  BY <1>1, InitSafe, PTL DEF Spec

-----------------------------------------------------------------------------
(* What follows from it.                                                   *)

\* kqueue has at most one event of a descriptor.
LEMMA QueueBound ==
    ASSUME WatcherOK, NEW a \in Assets
    PROVE  Len(kernel[a]) <= IF MacOS THEN Cardinality(DOMAIN reg[a]) ELSE QueueMax + 1
<1>1. /\ kernel[a] \in Seq(Event) /\ QueueOK(kernel[a]) /\ IsFiniteSet(DOMAIN reg[a])
      /\ (MacOS => \A i \in 1..Len(kernel[a]) : kernel[a][i].key \in DOMAIN reg[a])
  BY DEF WatcherOK, Watchers, Shapes, AssetOK, KernelOK, RegOK
<1>2. PICK q, n, D : q = kernel[a] /\ n = Len(q) /\ D = DOMAIN reg[a]
  OBVIOUS
<1>3. q \in Seq(Event) /\ n \in Nat /\ IsFiniteSet(D)
  BY <1>1, <1>2
<1>4. CASE MacOS
  <2> DEFINE f == [i \in 1..n |-> q[i].key]
  <2>1. f \in [1..n -> D] /\ \A i, j \in 1..n : f[i] = f[j] => i = j
    BY <1>1, <1>2, <1>4 DEF QueueOK, Once
  <2>2. f \in Injection(1..n, D)
    BY <2>1 DEF Injection, IsInjective
  <2>3. Cardinality(1..n) = n /\ IsFiniteSet(1..n)
    BY <1>3, FS_Interval
  <2> HIDE DEF f
  <2>4. Cardinality(1..n) <= Cardinality(D)
    BY <1>3, <2>2, FS_Injection
  <2>5. QED
    BY <1>2, <1>4, <2>3, <2>4
<1>5. CASE ~MacOS
  BY <1>1, <1>2, <1>3, <1>5, BoundsAre DEF QueueOK
<1>6. QED
  BY <1>4, <1>5

LEMMA WellFormed ==
    ASSUME Inv
    PROVE  TypeOK
<1>1. WatcherOK /\ FilesOK /\ HistoryOK /\ Shapes
  BY DEF Inv, WatcherOK, Watchers
<1>2. env \in Environments /\ at \in [Paths -> 0..MaxNodes] /\ away \subseteq 1..MaxNodes
  <2>1. made \in 0..MaxNodes /\ at \in [Paths -> 0..made] /\ away \subseteq 1..made
    BY <1>1 DEF FilesOK
  <2>2. \A p \in Paths : at[p] \in 0..MaxNodes
    BY <2>1, BoundsAre
  <2>3. at \in [Paths -> 0..MaxNodes]
    BY <2>1, <2>2
  <2>4. QED
    BY <1>1, <2>1, <2>3, BoundsAre DEF FilesOK
<1>3. ASSUME NEW a \in Assets
      PROVE  /\ pending[a] \cup todo[a] \subseteq Decoys(a)
             /\ \A k \in DOMAIN reg[a] : reg[a][k].path \in Decoys(a) /\ reg[a][k].live \in BOOLEAN
             /\ Len(kernel[a]) <= IF MacOS THEN Cardinality(DOMAIN reg[a]) ELSE QueueMax + 1
             /\ MacOS => \A e \in ToSet(kernel[a]) : e.key \in DOMAIN reg[a]
             /\ pc[a] = "batch" => batch[a] # <<>>
             /\ pc[a] \in {"retry", "attach"} => handler[a].step = "none" /\ todo[a] # {}
             /\ handler[a].step # "none" => pc[a] = "batch"
  <2>1. RegOK(a) /\ KernelOK(a) /\ BatchOK(a) /\ ThreadOK(a) /\ HandlerOK(a)
    BY <1>1 DEF WatcherOK, Watchers, AssetOK
  <2>2. pending[a] \cup todo[a] \subseteq Decoys(a)
    BY <2>1 DEF ThreadOK
  <2>3. ASSUME NEW k \in DOMAIN reg[a] PROVE reg[a][k].path \in Decoys(a) /\ reg[a][k].live \in BOOLEAN
    <3>1. reg[a][k] \in Descriptor /\ reg[a][k].path \in Decoys(a)
      BY <2>1 DEF RegOK, EntryOK
    <3>2. QED
      BY <3>1 DEF Descriptor
  <2>4. Len(kernel[a]) <= IF MacOS THEN Cardinality(DOMAIN reg[a]) ELSE QueueMax + 1
    BY <1>1, QueueBound
  <2>5. MacOS => \A e \in ToSet(kernel[a]) : e.key \in DOMAIN reg[a]
    BY <2>1 DEF KernelOK, ToSet
  <2>6. pc[a] = "batch" => batch[a] # <<>>
    BY <2>1 DEF BatchOK
  <2>7. pc[a] \in {"retry", "attach"} => handler[a].step = "none" /\ todo[a] # {}
    BY <2>1 DEF ThreadOK, HandlerOK, NoHandler, RespondingOK, AttachingOK
  <2>8. handler[a].step # "none" => pc[a] = "batch"
    BY RespondingIs DEF RespondingOK
  <2>9. QED
    BY <2>2, <2>3, <2>4, <2>5, <2>6, <2>7, <2>8
<1>4. unseen \cup gap \subseteq Paths
  BY <1>1 DEF HistoryOK
<1>5. QED
  BY <1>2, <1>3, <1>4 DEF TypeOK

LEMMA SightedWithCause ==
    ASSUME Inv
    PROVE  BlindSpotsHaveACause
<1>1. SUFFICES ASSUME NEW p \in Paths, NEW a, a = env.assetOf[p], pc[a] = "wait", kernel[a] = <<>>,
                      stop[a] # "done", at[p] # None, p \notin pending[a]
               PROVE  Watching(p) \/ p \in gap
  BY DEF BlindSpotsHaveACause
<1>2. a \in Assets
  BY <1>1, HostIs DEF Inv, WatcherOK, FilesOK
<1>3. batch[a] = <<>>
  BY <1>1, <1>2 DEF Inv, WatcherOK, Watchers, AssetOK, BatchOK
<1>4. ~Told(kernel[a], a, p) /\ ~Told(batch[a], a, p)
  <2>1. ~Told(<<>>, a, p)
    <3>1. Len(<<>>) = 0
      OBVIOUS
    <3>2. QED
      BY <3>1 DEF Told
  <2>2. QED
    BY <1>1, <1>3, <2>1
<1>5. p \in pending[a] \/ p \in gap \/ Heeded(p)
  <2>1. Covered(p)
    BY DEF Inv
  <2>2. QED
    BY <1>1, <1>4, <2>1 DEF Covered, Runs
<1>6. QED
  BY <1>1, <1>5 DEF Heeded

LEMMA NoticesEarned ==
    ASSUME Inv
    PROVE  NoticesAreEarned
<1>1. WatcherOK /\ HistoryOK /\ env \in Environments
  BY DEF Inv, WatcherOK, FilesOK
<1>2. ASSUME NEW p \in Paths, NEW class \in Classes PROVE notices[p][class] <= Due(p, class)
  <2>1. PICK a, q, l : a = env.assetOf[p] /\ q = kernel[a] /\ l = Left(a)
    OBVIOUS
  <2>2. notices[p][class] \in Nat /\ Due(p, class) \in Nat
    BY <1>1, DueIs DEF HistoryOK
  <2>3. /\ Tally(q, KeysOf(p), MasksOf(class)) \in Nat /\ Tally(l, KeysOf(p), MasksOf(class)) \in Nat
        /\ InHand(p, class) \in Nat
    <3>1. a \in Assets
      BY <1>1, <2>1, HostIs
    <3>2. q \in Seq(Event) /\ l \in Seq(Event)
      BY <1>1, <2>1, <3>1, LeftIs DEF WatcherOK, Watchers, Shapes
    <3>3. QED
      BY <3>2, PlacesAre DEF InHand
  <2>4. Owed(p, class) = Tally(q, KeysOf(p), MasksOf(class)) + Tally(l, KeysOf(p), MasksOf(class)) + InHand(p, class)
    BY <2>1 DEF Owed
  <2>5. notices[p][class] + Owed(p, class) <= Due(p, class)
    BY DEF Inv, Earned
  <2>6. QED
    BY <2>2, <2>3, <2>4, <2>5
<1>3. ASSUME NEW p \in Paths
      PROVE  LET reads == done[p]["read"] + done[p]["attrib"]
                 changes == done[p]["write"] + done[p]["delete"] + done[p]["move"] + done[p]["create"]
             IN  /\ notices[p]["read"] <= reads
                 /\ notices[p]["change"] <= changes + (IF Windows THEN reads ELSE 0)
  <2>1. notices[p]["read"] <= Due(p, "read") /\ notices[p]["change"] <= Due(p, "change")
    BY <1>2 DEF Classes
  <2>2. QED
    BY <2>1 DEF Due, Reads, Changes
<1>4. QED
  BY <1>3 DEF NoticesAreEarned

\* The watcher is well formed, and blind to a decoy only in the ways that are known: for every number of
\* assets, decoys, files and events waiting, on every host.
THEOREM WatcherInvariant == Spec => []WatchInv
<1>1. Inv => WatchInv
  BY WellFormed, SightedWithCause DEF WatchInv
<1>2. QED
  BY <1>1, InvAlways, PTL

\* What the operator is told of touches and of cuts is true: no notification without an operation, and
\* no announcement of a cut that another course of its request makes false.
THEOREM ReportsStayTrue == Spec => []ReportsAreTrue
<1>1. Inv => ReportsAreTrue
  <2>1. Inv => ClaimsAreTrue
    BY DEF Inv, Honest, ClaimsAreTrue
  <2>2. QED
    BY <2>1, NoticesEarned DEF ReportsAreTrue
<1>2. QED
  BY <1>1, InvAlways, PTL

=============================================================================
