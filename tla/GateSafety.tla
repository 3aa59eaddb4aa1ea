------------------------------ MODULE GateSafety ------------------------------
(***************************************************************************)
(* Proofs of the admission gate's safety properties, for any number of     *)
(* adders, auditors, directories, files and versions.  Nothing locks, so   *)
(* the invariant says who alone may still write what: one process copies   *)
(* into a quarantine directory that is made, one installs into a directory *)
(* whose state is "installing", one writes the denylist as long as nothing *)
(* was lost.  From that follows what a tree, a directory or the list holds *)
(* while its writer is at work and when it has finished.                   *)
(*   The second part is about the scans the gate's inspection runs on what *)
(* it was given (Scans), for any input: each finds what it stands for.     *)
(* The two specifications share no variable.                               *)
(***************************************************************************)
EXTENDS Gate, Scans, FiniteSetTheorems, SequenceTheorems, WellFoundedInduction, TLAPS

USE DEF disk

-----------------------------------------------------------------------------
(* The invariant, in parts.                                                *)

PinType == [dir: Dirs, hash: Trees, whole: BOOLEAN]

WasType == [
    shared: BOOLEAN, blind: BOOLEAN, lost: BOOLEAN, torn: BOOLEAN, damaged: SUBSET Trees,
    refused: [Procs -> BOOLEAN], state: [Dirs -> States],
    blamed: SUBSET [state: States, stale: BOOLEAN], written: SUBSET Trees,
    shown: [Auditors -> SUBSET Dirs]]

AuditSteps == {"check", "load", "open", "write"}
FetchSteps == {"hash", "make", "copy", "build", "scan"}
AddSteps == {"promote", "mkdir", "install", "pin"}
InspectedSteps == {"scan"} \cup AddSteps
CopySteps == {"copy", "build"} \cup InspectedSteps

DiskOK ==
    /\ env \in Environments
    /\ left \in [Budgets -> Nat] /\ left.errors <= env.budget.errors
    /\ source \in Trees
    /\ DOMAIN quarantine \subseteq Trees /\ \A k \in DOMAIN quarantine : quarantine[k] \in Trees
    /\ dirs \in [Dirs -> Trees \cup {Absent}]
    /\ pins \in Seq(PinType)
    /\ newline \in BOOLEAN /\ (newline \/ Len(pins) > 0)
    /\ deny = Absent \/ deny \subseteq Trees

\* What a process has while it is where it is.
ProcOK(p, c) ==
    /\ c \in ProcType
    /\ c.pc \in {"idle"} \cup FetchSteps \cup IF p \in Adders THEN AddSteps ELSE AuditSteps
    /\ c.pc \in {"make"} \cup CopySteps => c.key \in Trees
    /\ c.pc \in InspectedSteps \cup {"load", "open", "write"} => c.hash \in Trees
    /\ c.pc \in AddSteps \cup {"load", "open", "write"} => c.dir \in Dirs
    /\ p \in Auditors /\ c.pc \in FetchSteps => c.dir \in Dirs
    /\ p \in Auditors /\ c.pc # "idle" => c.pinned \in [Dirs -> Trees \cup {Absent}]

TypesOK ==
    /\ DiskOK /\ was \in WasType /\ proc \in [Procs -> ProcType]
    /\ \A p \in Procs : ProcOK(p, proc[p])

\* One process fills a quarantine directory; what it has copied is the source
\* the directory is named for, or the copy counts as damaged.
QuarantineOK ==
    /\ \A p \in Procs : proc[p].pc \in CopySteps => proc[p].key \in DOMAIN quarantine
    /\ \A p, q \in Procs :
           proc[p].pc = "copy" /\ proc[q].pc = "copy" /\ proc[p].key = proc[q].key => p = q
    /\ \A k \in DOMAIN quarantine : \A f \in Files :
           \/ k \in was.damaged \/ quarantine[k][f] = k[f]
           \/ \E p \in Procs : proc[p].pc = "copy" /\ proc[p].key = k /\ f \in proc[p].files
    /\ \A p \in Procs : proc[p].pc \in InspectedSteps /\ ~was.shared =>
           CopiesInto(proc[p].key) = {} /\ quarantine[proc[p].key] = proc[p].hash

Passes(tree) == Promotable(VerdictOf(StaticFlags(tree)))

\* One process installs into a directory that was made for it; what it has
\* copied is what was inspected, and its pin names that.
InstallOK ==
    /\ newline \/ was.torn
    /\ \A p \in Procs : proc[p].pc \in AddSteps => was.shared \/ Passes(proc[p].hash)
    /\ \A d \in Dirs : was.state[d] = "installing" =>
           /\ dirs[d] # Absent
           /\ \E p \in Procs :
                  /\ InstallsInto(d) = {p}
                  /\ \A f \in Files : f \in proc[p].files \/ was.shared \/ dirs[d][f] = proc[p].hash[f]
    /\ \A p \in Procs : proc[p].pc = "pin" => proc[p].files = {}
    /\ \A d \in Dirs : was.state[d] = "installed" => dirs[d] # Absent /\ InstallsInto(d) = {}
    /\ InstalledIsWhatPassed /\ UnpinnedHasACause /\ BlameHasACause

\* One process at a time adds to the denylist what it has read of it.
DenyOK ==
    /\ deny # Absent => deny \subseteq was.written
    /\ \A a \in Procs : proc[a].pc \in {"open", "write"} => proc[a].have \subseteq was.written
    /\ ~was.lost =>
           /\ \A a, b \in Procs : {proc[a].pc, proc[b].pc} \subseteq {"open", "write"} => a = b
           /\ \A a \in Procs : proc[a].pc = "open" => deny = proc[a].have
           /\ \A a \in Procs : proc[a].pc = "write" => deny = Absent /\ was.written \subseteq proc[a].have
           /\ (\A a \in Procs : proc[a].pc # "write") => deny # Absent /\ was.written \subseteq deny

RefusedOK ==
    \A p \in Adders : was.refused[p] =>
        /\ proc[p].pc \in {"make", "copy", "build", "scan"} => proc[p].key \in was.written
        /\ proc[p].pc \in AddSteps =>
               was.shared \/ was.blind \/ was.lost \/ proc[p].key \in was.damaged

\* Drift that an audit found at its start is still ahead of it, or found.
ShownOK ==
    /\ \A a \in Auditors : \A d \in was.shown[a] :
           proc[a].pc # "idle" =>
               /\ proc[a].pinned[d] # Absent /\ dirs[d] \notin {Absent, proc[a].pinned[d]}
               /\ d \in proc[a].todo \/ "drifted" \in proc[a].found
    /\ DriftIsTold

Inv == TypesOK /\ QuarantineOK /\ InstallOK /\ DenyOK /\ RefusedOK /\ ShownOK

-----------------------------------------------------------------------------
(* What one process's step must do for each part of the invariant.         *)

\* Nothing that happened is forgotten.
Grows ==
    /\ (was.shared => was'.shared) /\ (was.blind => was'.blind)
    /\ (was.lost => was'.lost) /\ (was.torn => was'.torn)
    /\ was.damaged \subseteq was'.damaged /\ was.written \subseteq was'.written

Steps(p, c) == proc' = [proc EXCEPT ![p] = c] /\ env' = env /\ was' \in WasType /\ Grows

KeepsCopies(p, c) ==
    /\ quarantine' = quarantine
    /\ proc[p].pc = "copy" => proc[p].key \in was'.damaged
    /\ c.pc # "copy"
    /\ c.pc \in CopySteps => c.key \in DOMAIN quarantine
    /\ c.pc \in InspectedSteps /\ ~was'.shared =>
           CopiesInto(c.key) \ {p} = {} /\ quarantine[c.key] = c.hash

KeepsInstalls(p, c) ==
    /\ dirs' = dirs /\ (was'.torn \/ UNCHANGED <<pins, newline>>)
    /\ was'.state = IF proc[p].pc \in {"install", "pin"}
                    THEN [was.state EXCEPT ![proc[p].dir] = "part"] ELSE was.state
    /\ c.pc \notin {"install", "pin"}
    /\ c.pc \in AddSteps => was'.shared \/ Passes(c.hash)
    /\ \A b \in was'.blamed :
           b \in was.blamed \/ (b.state = "installed" => b.stale \/ was'.shared \/ was'.torn)

KeepsDeny(p, c) ==
    /\ deny' = deny /\ was'.written = was.written
    /\ proc[p].pc = "write" => was'.lost
    /\ c.pc \notin {"open", "write"}

KeepsRefused(p, c) ==
    /\ \A q \in Adders \ {p} : was'.refused[q] = was.refused[q]
    /\ p \in Adders /\ was'.refused[p] =>
           /\ c.pc \in {"make", "copy", "build", "scan"} => c.key \in was'.written
           /\ c.pc \in AddSteps =>
                  was'.shared \/ was'.blind \/ was'.lost \/ c.key \in was'.damaged

KeepsShown(p, c) ==
    /\ left'.errors <= left.errors
    /\ \A a \in Auditors \ {p} : was'.shown[a] \subseteq was.shown[a]
    /\ \A a \in Auditors \ {p} : \A d \in was'.shown[a] :
           proc[a].pc # "idle" => dirs'[d] = dirs[d]
    /\ p \in Auditors =>
           /\ c.pc # "idle" => \A d \in was'.shown[p] :
                  /\ c.pinned[d] # Absent /\ dirs'[d] \notin {Absent, c.pinned[d]}
                  /\ d \in c.todo \/ "drifted" \in c.found
           /\ c.pc = "idle" /\ was'.shown[p] # {} /\ c.exit # Absent =>
                  c.exit = 2 \/ (c.exit = 1 /\ left'.errors < env.budget.errors)

\* A nonempty set of positions has a last one.
LEMMA LastExists ==
    ASSUME NEW n \in Nat, NEW T \in SUBSET (1 .. n), T # {}
    PROVE  \E m \in T : \A i \in T : i <= m
<1> DEFINE S == {n - i : i \in T}
<1>1. S \subseteq Nat /\ S # {}
  <2>1. ASSUME NEW i \in T PROVE n - i \in Nat
    OBVIOUS
  <2>2. PICK i \in T : TRUE
    OBVIOUS
  <2>3. n - i \in S
    BY <2>2
  <2>4. QED
    BY <2>1, <2>3
<1> HIDE DEF S
<1>2. IsWellFoundedOn(OpToRel(<, Nat), Nat)
  BY NatLessThanWellFounded
<1>3. PICK d \in S : \A e \in S : ~ (<<e, d>> \in OpToRel(<, Nat))
  BY <1>1, <1>2, WFMin
<1>4. PICK m \in T : d = n - m
  BY <1>3 DEF S
<1>5. ASSUME NEW i \in T PROVE i <= m
  <2>1. n - i \in S /\ n - i \in Nat /\ d \in Nat
    BY <1>1, <1>3 DEF S
  <2>2. ~(n - i < d)
    BY <1>3, <2>1 DEF OpToRel
  <2>3. QED
    BY <1>4, <2>2
<1>6. QED
  BY <1>5

LEMMA StepIs ==
    ASSUME TypesOK, NEW p \in Procs, NEW c, Steps(p, c)
    PROVE  \A q \in Procs : proc'[q] = IF q = p THEN c ELSE proc[q]
  BY DEF TypesOK, Steps

LEMMA TypesStep ==
    ASSUME TypesOK, NEW p \in Procs, NEW c, Steps(p, c), ProcOK(p, c), DiskOK'
    PROVE  TypesOK'
<1>1. proc' \in [Procs -> ProcType]
  BY DEF TypesOK, Steps, ProcOK
<1>2. \A q \in Procs : ProcOK(q, proc'[q])
  BY StepIs DEF TypesOK
<1>3. \A q \in Procs : ProcOK(q, proc[q])'
  BY <1>2 DEF ProcOK
<1>4. QED
  BY <1>1, <1>3 DEF TypesOK, Steps

LEMMA CopiesKept ==
    ASSUME TypesOK, QuarantineOK, NEW p \in Procs, NEW c, Steps(p, c), KeepsCopies(p, c)
    PROVE  QuarantineOK'
<1>1. \A q \in Procs : proc'[q] = IF q = p THEN c ELSE proc[q]
  BY StepIs
<1>2. quarantine' = quarantine /\ was.damaged \subseteq was'.damaged /\ (was.shared => was'.shared)
  BY DEF KeepsCopies, Steps, Grows
<1>3. \A k : CopiesInto(k)' = CopiesInto(k) \ {p}
  BY <1>1 DEF CopiesInto, KeepsCopies
<1>4. \A q \in Procs : proc'[q].pc \in CopySteps => proc'[q].key \in DOMAIN quarantine'
  BY <1>1, <1>2 DEF QuarantineOK, KeepsCopies
<1>5. \A q, r \in Procs :
          proc'[q].pc = "copy" /\ proc'[r].pc = "copy" /\ proc'[q].key = proc'[r].key => q = r
  BY <1>1 DEF QuarantineOK, KeepsCopies
<1>6. ASSUME NEW k \in DOMAIN quarantine, NEW f \in Files, k \notin was'.damaged, quarantine[k][f] # k[f]
      PROVE  \E q \in Procs : proc'[q].pc = "copy" /\ proc'[q].key = k /\ f \in proc'[q].files
  <2>1. PICK q \in Procs : proc[q].pc = "copy" /\ proc[q].key = k /\ f \in proc[q].files
    BY <1>2, <1>6 DEF QuarantineOK
  <2>2. q # p
    BY <1>6, <2>1 DEF KeepsCopies
  <2>3. QED
    BY <1>1, <2>1, <2>2
<1>7. ASSUME NEW q \in Procs, proc'[q].pc \in InspectedSteps, ~was'.shared,
             NEW k, k = proc'[q].key
      PROVE  CopiesInto(k)' = {} /\ quarantine'[k] = proc'[q].hash
  <2>1. CASE q = p
    BY <1>1, <1>2, <1>3, <1>7, <2>1 DEF KeepsCopies
  <2>2. CASE q # p
    BY <1>1, <1>2, <1>3, <1>7, <2>2 DEF QuarantineOK
  <2>3. QED
    BY <2>1, <2>2
<1>8. \A q \in Procs : proc'[q].pc \in InspectedSteps /\ ~was'.shared =>
          {r \in Procs : proc'[r].pc = "copy" /\ proc'[r].key = proc'[q].key} = {}
          /\ quarantine'[proc'[q].key] = proc'[q].hash
  BY <1>7 DEF CopiesInto
<1>9. QED
  BY <1>2, <1>4, <1>5, <1>6, <1>8 DEF QuarantineOK, CopiesInto

LEMMA DenyKept ==
    ASSUME TypesOK, DenyOK, NEW p \in Procs, NEW c, Steps(p, c), KeepsDeny(p, c)
    PROVE  DenyOK'
<1>1. \A q \in Procs : proc'[q] = IF q = p THEN c ELSE proc[q]
  BY StepIs
<1>2. deny' = deny /\ was'.written = was.written /\ (was.lost => was'.lost)
  BY DEF KeepsDeny, Steps, Grows
<1>3. \A a \in Procs : proc'[a].pc \in {"open", "write"} =>
          proc'[a] = proc[a] /\ proc[a].pc \in {"open", "write"}
  BY <1>1 DEF KeepsDeny
<1>4. \A a \in Procs : proc'[a].pc \in {"open", "write"} => proc'[a].have \subseteq was'.written
  BY <1>2, <1>3 DEF DenyOK
<1>5. ASSUME ~was'.lost
      PROVE  /\ \A a, b \in Procs : {proc'[a].pc, proc'[b].pc} \subseteq {"open", "write"} => a = b
             /\ \A a \in Procs : proc'[a].pc = "open" => deny' = proc'[a].have
             /\ \A a \in Procs : proc'[a].pc = "write" => deny' = Absent /\ was'.written \subseteq proc'[a].have
             /\ (\A a \in Procs : proc'[a].pc # "write") => deny' # Absent /\ was'.written \subseteq deny'
  <2>1. proc[p].pc # "write" /\ ~was.lost
    BY <1>2, <1>5 DEF KeepsDeny
  <2>2. \A a, b \in Procs : {proc'[a].pc, proc'[b].pc} \subseteq {"open", "write"} => a = b
    BY <1>3, <2>1 DEF DenyOK
  <2>3. \A a \in Procs : proc'[a].pc = "open" => deny' = proc'[a].have
    BY <1>2, <1>3, <2>1 DEF DenyOK
  <2>4. \A a \in Procs : proc'[a].pc = "write" => deny' = Absent /\ was'.written \subseteq proc'[a].have
    BY <1>2, <1>3, <2>1 DEF DenyOK
  <2>5. (\A a \in Procs : proc'[a].pc # "write") => \A a \in Procs : proc[a].pc # "write"
    BY <1>1, <2>1
  <2>6. QED
    BY <1>2, <2>1, <2>2, <2>3, <2>4, <2>5 DEF DenyOK
<1>6. QED
  BY <1>2, <1>4, <1>5 DEF DenyOK

LEMMA RefusedKept ==
    ASSUME TypesOK, RefusedOK, NEW p \in Procs, NEW c, Steps(p, c), KeepsRefused(p, c)
    PROVE  RefusedOK'
<1>1. \A q \in Procs : proc'[q] = IF q = p THEN c ELSE proc[q]
  BY StepIs
<1>2. Adders \subseteq Procs /\ Grows
  BY DEF Procs, Steps
<1>3. QED
  BY <1>1, <1>2 DEF RefusedOK, KeepsRefused, Grows

LEMMA ErrorsAreCounted ==
    ASSUME DiskOK PROVE left.errors \in Nat /\ env.budget.errors \in Nat
<1>1. left \in [Budgets -> Nat] /\ env.budget \in [Budgets -> Nat] /\ "errors" \in Budgets
  BY ConstantsAssumption DEF DiskOK, Budgets
<1>2. QED
  BY <1>1

LEMMA ShownKept ==
    ASSUME TypesOK, ShownOK, NEW p \in Procs, NEW c, Steps(p, c), KeepsShown(p, c), DiskOK'
    PROVE  ShownOK'
<1>1. \A q \in Procs : proc'[q] = IF q = p THEN c ELSE proc[q]
  BY StepIs
<1>2. Auditors \subseteq Procs /\ env' = env
  BY DEF Procs, Steps
<1>3. left'.errors \in Nat /\ left.errors \in Nat /\ env.budget.errors \in Nat
  <2>1. DiskOK
    BY DEF TypesOK
  <2>2. left \in [Budgets -> Nat] /\ left' \in [Budgets -> Nat] /\ "errors" \in Budgets
    BY <2>1 DEF DiskOK, Budgets
  <2>3. QED
    BY <2>1, <2>2, ErrorsAreCounted
<1>4. ASSUME NEW a \in Auditors, NEW d \in was'.shown[a], proc'[a].pc # "idle"
      PROVE  /\ proc'[a].pinned[d] # Absent /\ dirs'[d] \notin {Absent, proc'[a].pinned[d]}
             /\ d \in proc'[a].todo \/ "drifted" \in proc'[a].found
  <2>1. CASE a = p
    BY <1>1, <1>2, <1>4, <2>1 DEF KeepsShown
  <2>2. CASE a # p
    BY <1>1, <1>2, <1>4, <2>2 DEF KeepsShown, ShownOK
  <2>3. QED
    BY <2>1, <2>2
<1>5. ASSUME NEW a \in Auditors, proc'[a].pc = "idle", was'.shown[a] # {}, proc'[a].exit # Absent
      PROVE  proc'[a].exit = 2 \/ (proc'[a].exit = 1 /\ left'.errors < env'.budget.errors)
  <2>1. CASE a = p
    BY <1>1, <1>2, <1>5, <2>1 DEF KeepsShown
  <2>2. CASE a # p
    <3>1. proc[a].exit = 2 \/ (proc[a].exit = 1 /\ left.errors < env.budget.errors)
      BY <1>1, <1>2, <1>5, <2>2 DEF KeepsShown, ShownOK, DriftIsTold
    <3>2. left'.errors <= left.errors /\ proc'[a] = proc[a]
      BY <1>1, <1>2, <2>2 DEF KeepsShown
    <3>3. QED
      BY <1>2, <1>3, <3>1, <3>2
  <2>3. QED
    BY <2>1, <2>2
<1>6. QED
  BY <1>4, <1>5 DEF ShownOK, DriftIsTold

\* What is written of the pins and the verdict does not change with the rest.
LEMMA PassesStays == ASSUME env' = env PROVE \A t : Passes(t)' = Passes(t)
  BY DEF Passes, StaticFlags

LEMMA InstallsKept ==
    ASSUME TypesOK, InstallOK, NEW p \in Procs, NEW c, Steps(p, c), KeepsInstalls(p, c)
    PROVE  InstallOK'
<1>1. \A q \in Procs : proc'[q] = IF q = p THEN c ELSE proc[q]
  BY StepIs
<1>2. /\ dirs' = dirs /\ (was'.torn \/ newline' = newline) /\ Grows /\ env' = env
      /\ c.pc \notin {"install", "pin"}
  BY DEF KeepsInstalls, Steps
<1>3. ~was'.torn => \A d : LatestPin(d)' = LatestPin(d)
  <2>1. ~was'.torn => pins' = pins
    BY DEF KeepsInstalls
  <2>2. pins' = pins => \A d : LatestPin(d)' = LatestPin(d)
    BY DEF LatestPin
  <2>3. QED
    BY <2>1, <2>2
<1>4. \A t : Passes(t)' = Passes(t)
  BY <1>2, PassesStays
<1>5. \A d : InstallsInto(d)' = InstallsInto(d) \ {p}
  BY <1>1, <1>2 DEF InstallsInto
<1>6. \A d \in Dirs : was'.state[d] = IF p \in InstallsInto(d) THEN "part" ELSE was.state[d]
  <2>1. was.state \in [Dirs -> States]
    BY DEF TypesOK, WasType
  <2>2. QED
    BY <2>1 DEF KeepsInstalls, InstallsInto
<1>7. \A q \in Procs : proc'[q].pc \in AddSteps => was'.shared \/ Passes(proc'[q].hash)
  BY <1>1, <1>2 DEF InstallOK, KeepsInstalls, Grows
<1>8. ASSUME NEW d \in Dirs, was'.state[d] = "installing"
      PROVE  /\ dirs'[d] # Absent
             /\ \E q \in Procs :
                  /\ InstallsInto(d)' = {q}
                  /\ \A f \in Files : f \in proc'[q].files \/ was'.shared \/ dirs'[d][f] = proc'[q].hash[f]
  <2>1. p \notin InstallsInto(d) /\ was.state[d] = "installing"
    BY <1>6, <1>8
  <2>2. dirs[d] # Absent
    BY <2>1 DEF InstallOK
  <2>3. PICK q \in Procs :
            /\ InstallsInto(d) = {q}
            /\ \A f \in Files : f \in proc[q].files \/ was.shared \/ dirs[d][f] = proc[q].hash[f]
    BY <2>1 DEF InstallOK
  <2>4. q # p /\ InstallsInto(d)' = {q}
    BY <1>5, <2>1, <2>3
  <2>5. QED
    BY <1>1, <1>2, <2>2, <2>3, <2>4 DEF Grows
<1>9. \A q \in Procs : proc'[q].pc = "pin" => proc'[q].files = {}
  BY <1>1, <1>2 DEF InstallOK
<1>10. \A d \in Dirs : was'.state[d] = "installed" => dirs'[d] # Absent /\ InstallsInto(d)' = {}
  BY <1>2, <1>5, <1>6 DEF InstallOK
<1>11. InstalledIsWhatPassed'
  <2>1. ASSUME NEW d \in Dirs, was'.state[d] = "installed"
        PROVE  was'.shared \/ was'.torn \/ (LatestPin(d)' = dirs'[d] /\ Passes(dirs'[d]))
    <3>1. was.state[d] = "installed"
      BY <1>6, <2>1
    <3>2. QED
      BY <1>2, <1>3, <3>1 DEF InstallOK, InstalledIsWhatPassed, Grows, Passes
  <2>2. ASSUME NEW d \in Dirs, was'.state[d] = "installed", ~was'.shared, ~was'.torn
        PROVE  LatestPin(d)' = dirs'[d] /\ (Passes(dirs[d]))'
    BY <1>2, <1>4, <2>1, <2>2
  <2>3. QED
    BY <2>2 DEF InstalledIsWhatPassed, Passes
<1>12. UnpinnedHasACause'
  <2>1. ASSUME NEW d \in Dirs, dirs'[d] # Absent, InstallsInto(d)' = {}, LatestPin(d)' = Absent
        PROVE  was'.state[d] = "part" \/ was'.torn
    <3>1. CASE p \in InstallsInto(d)
      BY <1>6, <3>1
    <3>2. CASE p \notin InstallsInto(d)
      BY <1>2, <1>3, <1>5, <1>6, <2>1, <3>2 DEF InstallOK, UnpinnedHasACause, Grows
    <3>3. QED
      BY <3>1, <3>2
  <2>2. QED
    BY <2>1 DEF UnpinnedHasACause
<1>13. BlameHasACause'
  BY <1>2 DEF InstallOK, BlameHasACause, KeepsInstalls, Grows
<1>14. newline' \/ was'.torn
  BY <1>2 DEF InstallOK, Grows
<1>15. (\A q \in Procs : proc[q].pc \in AddSteps => was.shared \/ Passes(proc[q].hash))'
  BY <1>4, <1>7
<1>16. QED
  BY <1>8, <1>9, <1>10, <1>11, <1>12, <1>13, <1>14, <1>15 DEF InstallOK

-----------------------------------------------------------------------------
(* Steps that leave the files as they are.                                 *)

Paid == left' = left \/ \E b \in Budgets : left[b] > 0 /\ left' = [left EXCEPT ![b] = @ - 1]

LEMMA LeftIs ==
    ASSUME DiskOK, Paid
    PROVE  /\ left' \in [Budgets -> Nat] /\ left'.errors \in Nat /\ left'.errors <= left.errors
           /\ left'.errors <= env.budget.errors
<1>1. left \in [Budgets -> Nat] /\ "errors" \in Budgets /\ left.errors <= env.budget.errors
  BY DEF DiskOK, Budgets
<1>2. left.errors \in Nat /\ env.budget.errors \in Nat
  BY ErrorsAreCounted
<1>3. left' \in [Budgets -> Nat] /\ left'.errors <= left.errors
  <2>1. CASE left' = left
    BY <1>1, <1>2, <2>1
  <2>2. ASSUME NEW b \in Budgets, left[b] > 0, left' = [left EXCEPT ![b] = @ - 1]
        PROVE  left' \in [Budgets -> Nat] /\ left'.errors <= left.errors
    <3>1. left[b] - 1 \in Nat /\ left[b] - 1 <= left[b]
      BY <1>1, <2>2
    <3>2. left' \in [Budgets -> Nat] /\ \A e \in Budgets : left'[e] = IF e = b THEN left[b] - 1 ELSE left[e]
      BY <1>1, <2>2, <3>1
    <3>3. QED
      BY <1>1, <1>2, <3>1, <3>2
  <2>3. QED
    BY <2>1, <2>2 DEF Paid
<1>4. left'.errors \in Nat
  BY <1>1, <1>3
<1>5. QED
  BY <1>1, <1>2, <1>3, <1>4

LEMMA DiskRests ==
    ASSUME DiskOK, UNCHANGED <<env, source, quarantine, dirs, pins, newline, deny>>, Paid
    PROVE  DiskOK' /\ left'.errors <= left.errors
  BY LeftIs DEF DiskOK

LEMMA IdleIs ==
    ASSUME NEW j \in Nat, NEW e \in 0 .. 4 \cup {Absent}
    PROVE  /\ Idle(j, e) \in ProcType /\ Idle(j, e).pc = "idle" /\ Idle(j, e).exit = e
           /\ Idle(j, e).jobs = j
  BY DEF Idle, ProcType

LEMMA StepKeeps ==
    ASSUME Inv, NEW p \in Procs, NEW c, Steps(p, c), ProcOK(p, c), DiskOK',
           KeepsCopies(p, c), KeepsInstalls(p, c), KeepsDeny(p, c), KeepsRefused(p, c), KeepsShown(p, c)
    PROVE  Inv'
  BY TypesStep, CopiesKept, InstallsKept, DenyKept, RefusedKept, ShownKept DEF Inv

\* What a step remembers of which directories, hashes and drift there were.
Remembers ==
    /\ was'.state = was.state /\ was'.blamed = was.blamed /\ was'.written = was.written
    /\ was'.shown = was.shown

\* A process ends: nothing is left half done that is not noted.
LEMMA EndsKeeps ==
    ASSUME Inv, NEW p \in Procs, NEW code \in 0 .. 4 \cup {Absent}, Ends(p, code),
           UNCHANGED <<env, source, quarantine, dirs, pins, newline, deny>>, Paid,
           was' \in WasType, Grows, was'.blamed = was.blamed, was'.written = was.written,
           was'.shown = was.shown, \A q \in Adders \ {p} : was'.refused[q] = was.refused[q],
           was'.state = IF proc[p].pc \in {"install", "pin"}
                        THEN [was.state EXCEPT ![proc[p].dir] = "part"] ELSE was.state,
           proc[p].pc = "copy" => proc[p].key \in was'.damaged,
           proc[p].pc = "write" => was'.lost,
           p \in Auditors /\ was.shown[p] # {} /\ code # Absent =>
               code = 2 \/ (code = 1 /\ left'.errors < env.budget.errors)
    PROVE  Inv'
<1>1. PICK c : c = Idle(proc[p].jobs, code)
  OBVIOUS
<1>2. c \in ProcType /\ c.pc = "idle" /\ c.exit = code
  BY <1>1, IdleIs DEF Inv, TypesOK, ProcType
<1>3. ProcOK(p, c)
  BY <1>2 DEF ProcOK, CopySteps, InspectedSteps, FetchSteps, AddSteps
<1>4. Steps(p, c)
  BY <1>1 DEF Steps, Ends
<1>5. DiskOK' /\ left'.errors <= left.errors
  BY DiskRests DEF Inv, TypesOK
<1>6. KeepsCopies(p, c) /\ KeepsInstalls(p, c) /\ KeepsDeny(p, c) /\ KeepsRefused(p, c)
  BY <1>2 DEF KeepsCopies, KeepsInstalls, KeepsDeny, KeepsRefused, CopySteps, InspectedSteps, AddSteps
<1>7. KeepsShown(p, c)
  BY <1>2, <1>5 DEF KeepsShown
<1>8. QED
  BY <1>3, <1>4, <1>5, <1>6, <1>7, StepKeeps

\* A process goes on to a step that begins nothing.
LEMMA GoesKeeps ==
    ASSUME Inv, NEW p \in Procs, NEW c, proc' = [proc EXCEPT ![p] = c], ProcOK(p, c),
           UNCHANGED <<env, source, quarantine, dirs, pins, newline, deny>>, Paid,
           was' \in WasType, Grows, Remembers,
           \A q \in Adders \ {p} : was'.refused[q] = was.refused[q],
           proc[p].pc \notin {"install", "pin", "write"}, c.pc \notin {"install", "pin", "open", "write", "idle", "copy"},
           proc[p].pc = "copy" => proc[p].key \in was'.damaged,
           c.pc \in CopySteps => c.key \in DOMAIN quarantine,
           c.pc \in InspectedSteps /\ ~was'.shared =>
               CopiesInto(c.key) \ {p} = {} /\ quarantine[c.key] = c.hash,
           c.pc \in AddSteps => was'.shared \/ Passes(c.hash),
           KeepsRefused(p, c),
           p \in Auditors => /\ proc[p].pc # "idle" /\ c.pinned = proc[p].pinned
                            /\ c.todo = proc[p].todo /\ c.found = proc[p].found
    PROVE  Inv'
<1>1. Steps(p, c)
  BY DEF Steps
<1>2. DiskOK' /\ left'.errors <= left.errors
  BY DiskRests DEF Inv, TypesOK
<1>3. KeepsCopies(p, c)
  BY DEF KeepsCopies
<1>4. KeepsInstalls(p, c)
  BY DEF KeepsInstalls, Remembers
<1>5. KeepsDeny(p, c)
  BY DEF KeepsDeny, Remembers
<1>6. KeepsShown(p, c)
  BY <1>2 DEF KeepsShown, Remembers, Inv, ShownOK
<1>7. QED
  BY <1>1, <1>2, <1>3, <1>4, <1>5, <1>6, StepKeeps

-----------------------------------------------------------------------------
(* The steps of an add, and of an audit's rescan.                          *)

USE DEF CopySteps, InspectedSteps, FetchSteps, AddSteps, AuditSteps

LEMMA Here ==
    ASSUME Inv, NEW p \in Procs
    PROVE  /\ proc[p] \in ProcType /\ ProcOK(p, proc[p]) /\ was \in WasType /\ DiskOK
           /\ (p \in Adders <=> p \notin Auditors)
  BY ConstantsAssumption DEF Inv, TypesOK, Procs

LEMMA OriginIs ==
    ASSUME Inv, NEW p \in Procs, proc[p].pc \in FetchSteps
    PROVE  Origin(p) \in Trees \cup {Absent}
<1>1. CASE p \in Adders
  BY <1>1, Here DEF Origin, DiskOK
<1>2. CASE p \notin Adders
  <2>1. proc[p].dir \in Dirs
    BY <1>2, Here DEF ProcOK
  <2>2. QED
    BY <1>2, <2>1, Here DEF Origin, DiskOK
<1>3. QED
  BY <1>1, <1>2

LEMMA StartAddKeeps ==
    ASSUME Inv, NEW p \in Adders, NEW d \in Dirs \cup {Absent}, StartAdd(p, d)
    PROVE  Inv'
<1>0. p \in Procs /\ p \notin Auditors
  BY ConstantsAssumption DEF Procs
<1>1. proc[p] \in ProcType /\ was \in WasType /\ proc[p].jobs - 1 \in Nat /\ proc[p].pc = "idle"
  BY <1>0, Here DEF StartAdd, ProcType
<1>2. PICK c : c = [Idle(proc[p].jobs - 1, Absent) EXCEPT !.pc = "hash", !.dir = d]
  OBVIOUS
<1>3. c \in ProcType /\ c.pc = "hash"
  <2>1. PICK i \in ProcType : i = Idle(proc[p].jobs - 1, Absent)
    BY <1>1, IdleIs
  <2>2. QED
    BY <1>2, <2>1 DEF ProcType
<1>4. ProcOK(p, c)
  BY <1>0, <1>3 DEF ProcOK
<1>5. proc' = [proc EXCEPT ![p] = c] /\ UNCHANGED <<env, left, disk, was>>
  BY <1>2 DEF StartAdd
<1>6. KeepsRefused(p, c) /\ Grows /\ Remembers /\ Paid
  BY <1>3, <1>5 DEF KeepsRefused, Grows, Remembers, Paid
<1>7. QED
  BY <1>0, <1>1, <1>3, <1>4, <1>5, <1>6, GoesKeeps

\* A fetch that fails: no verdict, or the rescan's note.
LEMMA RaisesKeeps ==
    ASSUME Inv, NEW p \in Procs, proc[p].pc \in FetchSteps, Raises(p),
           UNCHANGED <<env, source, quarantine, dirs, pins, newline, deny>>, Paid,
           was' \in WasType, Grows, Remembers,
           \A q \in Adders \ {p} : was'.refused[q] = was.refused[q],
           proc[p].pc = "copy" => proc[p].key \in was'.damaged
    PROVE  Inv'
<1>1. CASE p \in Adders
  <2>1. Ends(p, ExitError) /\ ExitError \in 0 .. 4 /\ p \notin Auditors
    BY <1>1, Here DEF Raises, ExitError
  <2>2. QED
    BY <2>1, EndsKeeps DEF Remembers
<1>2. CASE p \notin Adders
  <2>1. PICK c : c = [proc[p] EXCEPT !.pc = "check"]
    OBVIOUS
  <2>2. /\ c \in ProcType /\ c.pc = "check" /\ c.dir = proc[p].dir /\ c.pinned = proc[p].pinned
        /\ c.todo = proc[p].todo /\ c.found = proc[p].found
    BY <2>1, Here DEF ProcType
  <2>3. ProcOK(p, c)
    BY <1>2, <2>2, Here DEF ProcOK
  <2>4. proc' = [proc EXCEPT ![p] = c]
    BY <1>2, <2>1 DEF Raises, Goto
  <2>5. KeepsRefused(p, c)
    BY <1>2, <2>2 DEF KeepsRefused
  <2>6. QED
    BY <2>2, <2>3, <2>4, <2>5, GoesKeeps
<1>3. QED
  BY <1>1, <1>2

LEMMA HashSourceKeeps == ASSUME Inv, NEW p \in Procs, HashSource(p) PROVE Inv'
<1>1. PICK b \in BOOLEAN : b = (deny # Absent /\ Origin(p) \in deny)
  OBVIOUS
<1>2. /\ proc[p].pc = "hash" /\ was' = [was EXCEPT !.refused[p] = b]
      /\ UNCHANGED <<env, left, disk>> /\ Paid
  BY <1>1 DEF HashSource, Paid
<1>3. PICK r : r = [was.refused EXCEPT ![p] = b]
  OBVIOUS
<1>4. r \in [Procs -> BOOLEAN] /\ \A q \in Procs : r[q] = IF q = p THEN b ELSE was.refused[q]
  <2>1. was.refused \in [Procs -> BOOLEAN]
    BY Here DEF WasType
  <2>2. QED
    BY <1>3, <2>1
<1>5. was' = [was EXCEPT !.refused = r]
  BY <1>2, <1>3
<1>6. was' \in WasType /\ was'.refused = r /\ Remembers /\ Grows
  BY <1>4, <1>5, Here DEF WasType, Remembers, Grows
<1>7. \A q \in Adders \ {p} : was'.refused[q] = was.refused[q]
  BY <1>4, <1>6 DEF Procs
<1>8. CASE Origin(p) = Absent
  BY <1>2, <1>6, <1>7, <1>8, RaisesKeeps DEF HashSource
<1>9. CASE Origin(p) # Absent
  <2>1. PICK c : c = [proc[p] EXCEPT !.key = Origin(p),
                        !.pc = IF Origin(p) \in DOMAIN quarantine THEN "build" ELSE "make"]
    OBVIOUS
  <2>2. Origin(p) \in Trees
    BY <1>2, <1>9, OriginIs
  <2>3. /\ c \in ProcType /\ c.pc \in {"build", "make"} /\ c.key = Origin(p)
        /\ (c.pc = "build" => Origin(p) \in DOMAIN quarantine)
        /\ c.dir = proc[p].dir /\ c.pinned = proc[p].pinned
        /\ c.todo = proc[p].todo /\ c.found = proc[p].found
    <3>1. proc[p] \in ProcType
      BY Here
    <3>2. c \in ProcType
      BY <2>1, <2>2, <3>1 DEF ProcType
    <3>3. c.pc = (IF Origin(p) \in DOMAIN quarantine THEN "build" ELSE "make") /\ c.key = Origin(p)
      BY <2>1, <3>1 DEF ProcType
    <3>4. /\ c.dir = proc[p].dir /\ c.pinned = proc[p].pinned
          /\ c.todo = proc[p].todo /\ c.found = proc[p].found
      BY <2>1, <3>1 DEF ProcType
    <3>5. QED
      BY <3>2, <3>3, <3>4
  <2>4. ProcOK(p, c)
    BY <1>2, <2>2, <2>3, Here DEF ProcOK
  <2>5. proc' = [proc EXCEPT ![p] = c]
    BY <1>9, <2>1 DEF HashSource
  <2>6. KeepsRefused(p, c)
    <3>1. b => Origin(p) \in was.written
      BY <1>1 DEF Inv, DenyOK
    <3>2. was'.written = was.written /\ was'.refused[p] = b
      BY <1>4, <1>6 DEF Remembers
    <3>3. QED
      BY <1>7, <2>3, <3>1, <3>2 DEF KeepsRefused
  <2>7. p \in Auditors => proc[p].pc # "idle"
    BY <1>2
  <2>8. QED
    BY <1>2, <1>6, <1>7, <2>3, <2>4, <2>5, <2>6, <2>7, GoesKeeps
<1>10. QED
  BY <1>8, <1>9

LEMMA CopyFailsKeeps == ASSUME Inv, NEW p \in Procs, CopyFails(p) PROVE Inv'
<1>1. /\ proc[p].pc = "copy" /\ Raises(p) /\ UNCHANGED <<env, disk>>
      /\ was' = [was EXCEPT !.damaged = @ \cup {proc[p].key}] /\ proc[p].key \in Trees
  BY Here DEF CopyFails, ProcOK
<1>2. Paid
  BY DEF CopyFails, Paid, Budgets
<1>3. /\ was' \in WasType /\ was'.damaged = was.damaged \cup {proc[p].key} /\ Remembers /\ Grows
      /\ was'.refused = was.refused
  BY <1>1, Here DEF WasType, Remembers, Grows
<1>4. QED
  BY <1>1, <1>2, <1>3, RaisesKeeps

\* A step of a process that has built its artifact, or builds it now.
LEMMA BuildKeeps == ASSUME Inv, NEW p \in Procs, Build(p) PROVE Inv'
<1>1. PICK c : c = [proc[p] EXCEPT !.hash = quarantine[proc[p].key], !.pc = "scan"]
  OBVIOUS
<1>2. /\ proc[p].pc = "build" /\ proc' = [proc EXCEPT ![p] = c] /\ NoteSharing(p)
      /\ UNCHANGED <<env, left, disk>> /\ Paid
  BY <1>1 DEF Build, Paid
<1>3. proc[p].key \in DOMAIN quarantine /\ quarantine[proc[p].key] \in Trees
  BY <1>2, Here DEF Inv, QuarantineOK, DiskOK
<1>4. /\ c \in ProcType /\ c.pc = "scan" /\ c.key = proc[p].key /\ c.hash = quarantine[proc[p].key]
      /\ c.dir = proc[p].dir /\ c.pinned = proc[p].pinned
      /\ c.todo = proc[p].todo /\ c.found = proc[p].found
  <2>1. proc[p] \in ProcType
    BY Here
  <2>2. c \in ProcType
    BY <1>1, <1>3, <2>1 DEF ProcType
  <2>3. c.pc = "scan" /\ c.key = proc[p].key /\ c.hash = quarantine[proc[p].key]
    BY <1>1, <2>1 DEF ProcType
  <2>4. /\ c.dir = proc[p].dir /\ c.pinned = proc[p].pinned
        /\ c.todo = proc[p].todo /\ c.found = proc[p].found
    BY <1>1, <2>1 DEF ProcType
  <2>5. QED
    BY <2>2, <2>3, <2>4
<1>5. ProcOK(p, c)
  BY <1>2, <1>3, <1>4, Here DEF ProcOK
<1>6. PICK b \in BOOLEAN : b = (was.shared \/ Sharing(p))
  BY Here DEF WasType
<1>7. was' = [was EXCEPT !.shared = b]
  BY <1>2, <1>6 DEF NoteSharing
<1>8. was' \in WasType /\ Remembers /\ was'.refused = was.refused /\ was'.shared = b
      /\ was'.blind = was.blind /\ was'.lost = was.lost /\ was'.torn = was.torn
      /\ was'.damaged = was.damaged
  BY <1>7, Here DEF WasType, Remembers
<1>9. Grows
  BY <1>6, <1>8 DEF Grows, Remembers
<1>10. ~was'.shared => CopiesInto(c.key) \ {p} = {}
  BY <1>4, <1>6, <1>8 DEF Sharing
<1>11. KeepsRefused(p, c)
  BY <1>2, <1>4, <1>8 DEF KeepsRefused, Inv, RefusedOK, Remembers
<1>12. QED
  BY <1>2, <1>3, <1>4, <1>5, <1>8, <1>9, <1>10, <1>11, GoesKeeps

-----------------------------------------------------------------------------
(* The verdict.                                                            *)

LEMMA FlagsAreFinite == \A t : IsFiniteSet(StaticFlags(t))
<1> TAKE t
<1> DEFINE S == {f \in Files : t[f] # Absent /\ env.risk[t[f]] # "none"}
           g == [f \in S |-> Flag(IF env.risk[t[f]] = "gap" THEN "low" ELSE env.risk[t[f]],
                                  IF env.risk[t[f]] = "gap" THEN "G911" ELSE "G200", f)]
<1>1. IsFiniteSet(S)
  <2>1. S \subseteq Files /\ IsFiniteSet(Files)
    BY ConstantsAssumption
  <2>2. QED
    BY <2>1, FS_Subset
<1>2. StaticFlags(t) = {g[f] : f \in S}
  BY DEF StaticFlags
<1> HIDE DEF S, g
<1>3. g \in Surjection(S, StaticFlags(t))
  <2>1. DOMAIN g = S /\ g = [f \in S |-> g[f]]
    BY DEF g
  <2>2. QED
    BY <1>2, <2>1 DEF Surjection
<1>4. QED
  BY <1>1, <1>3, FS_Surjection

\* A denied hash is never promoted; without a denial the scan's verdict is the tree's own.
LEMMA ScanDecides ==
    ASSUME NEW t, NEW h, Promotable(VerdictOf(StaticFlags(t) \cup DenyFlags(h)))
    PROVE  Passes(t) /\ ~(deny # Absent /\ h \in deny)
<1>1. ASSUME deny # Absent, h \in deny
      PROVE  FALSE
  <2> DEFINE x == Flag("high", "G610", Absent)
             F == StaticFlags(t) \cup DenyFlags(h)
             S == {f \in F \ Gaps(F) : f.sev = "high"}
  <2>1. x \in F /\ x.sev = "high" /\ x.code = "G610"
    BY <1>1 DEF DenyFlags, Flag
  <2>2. x \in S
    BY <2>1 DEF Gaps, GapCodes
  <2>3. IsFiniteSet(S)
    <3>1. IsFiniteSet({x}) /\ DenyFlags(h) = {x}
      BY <1>1, FS_Singleton DEF DenyFlags
    <3>2. IsFiniteSet(F)
      BY <3>1, FlagsAreFinite, FS_Union
    <3>3. S \subseteq F
      OBVIOUS
    <3>4. QED
      BY <3>2, <3>3, FS_Subset
  <2>4. Cardinality(S) # 0 /\ Cardinality(S) \in Nat
    BY <2>2, <2>3, FS_EmptySet, FS_CardinalityType
  <2>5. OfSeverity(F \ Gaps(F), "high") > 0
    BY <2>4 DEF OfSeverity
  <2>6. VerdictOf(F).level = "HIGH"
    BY <2>5 DEF VerdictOf, Score
  <2>7. QED
    BY <2>6 DEF Promotable
<1>2. DenyFlags(h) = {}
  BY <1>1 DEF DenyFlags
<1>3. QED
  BY <1>1, <1>2 DEF Passes

LEMMA CodesAre == \A F : ExitCode(VerdictOf(F)) \in 0 .. 4
  BY DEF ExitCode, VerdictOf, ExitError, ExitPartial

\* A copy that is not damaged, and that nobody writes, is the tree it is named for.
LEMMA CopyIsSource ==
    ASSUME Inv, NEW k \in DOMAIN quarantine, CopiesInto(k) = {}, k \notin was.damaged
    PROVE  quarantine[k] = k
<1>1. k \in Trees /\ quarantine[k] \in Trees
  BY DEF Inv, TypesOK, DiskOK
<1>2. \A f \in Files : quarantine[k][f] = k[f]
  BY DEF Inv, QuarantineOK, CopiesInto
<1>3. QED
  BY <1>1, <1>2 DEF Trees

LEMMA ScanKeeps == ASSUME Inv, NEW p \in Procs, Scan(p) PROVE Inv'
<1> DEFINE verdict == VerdictOf(StaticFlags(quarantine[proc[p].key]) \cup DenyFlags(proc[p].hash))
<1>1. PICK b \in BOOLEAN : b = (was.shared \/ Sharing(p))
  BY Here DEF WasType
<1>2. PICK e \in BOOLEAN : e = (was.blind \/ (deny = Absent /\ was.written # {}))
  BY Here DEF WasType
<1>3. /\ proc[p].pc = "scan" /\ UNCHANGED <<env, left, disk>> /\ Paid
      /\ was' = [was EXCEPT !.shared = b, !.blind = e]
  BY <1>1, <1>2 DEF Scan, Paid
<1>4. /\ was' \in WasType /\ Remembers /\ was'.refused = was.refused /\ was'.shared = b
      /\ was'.blind = e /\ was'.lost = was.lost /\ was'.torn = was.torn
      /\ was'.damaged = was.damaged
  BY <1>3, Here DEF WasType, Remembers
<1>5. Grows
  BY <1>1, <1>2, <1>4 DEF Grows, Remembers
<1>6. proc[p].key \in DOMAIN quarantine /\ proc[p].hash \in Trees
  BY <1>3, Here DEF Inv, QuarantineOK, ProcOK
<1>7. CASE p \in Auditors
  <2>1. PICK c : c = [proc[p] EXCEPT !.pc = "check"]
    OBVIOUS
  <2>2. /\ c \in ProcType /\ c.pc = "check" /\ c.dir = proc[p].dir /\ c.pinned = proc[p].pinned
        /\ c.todo = proc[p].todo /\ c.found = proc[p].found
    BY <2>1, Here DEF ProcType
  <2>3. ProcOK(p, c)
    BY <1>3, <1>7, <2>2, Here DEF ProcOK
  <2>4. proc' = [proc EXCEPT ![p] = c]
    BY <1>7, <2>1 DEF Scan, Goto
  <2>5. KeepsRefused(p, c)
    BY <1>4, <1>7, <2>2, Here DEF KeepsRefused
  <2>6. QED
    BY <1>3, <1>4, <1>5, <2>2, <2>3, <2>4, <2>5, GoesKeeps
<1>8. CASE p \notin Auditors /\ proc[p].dir # Absent /\ Promotable(verdict)
  <2>1. PICK c : c = [proc[p] EXCEPT !.pc = "promote"]
    OBVIOUS
  <2>2. /\ c \in ProcType /\ c.pc = "promote" /\ c.dir = proc[p].dir /\ c.key = proc[p].key
        /\ c.hash = proc[p].hash
    BY <2>1, Here DEF ProcType
  <2>3. ProcOK(p, c)
    BY <1>3, <1>6, <1>8, <2>2, Here DEF ProcOK, ProcType
  <2>4. proc' = [proc EXCEPT ![p] = c]
    BY <1>8, <2>1 DEF Scan, Goto
  <2>5. Passes(quarantine[proc[p].key]) /\ ~(deny # Absent /\ proc[p].hash \in deny)
    BY <1>8, ScanDecides
  <2>6. ~was'.shared => CopiesInto(c.key) = {} /\ quarantine[c.key] = c.hash
    BY <1>1, <1>3, <1>4, <2>2 DEF Inv, QuarantineOK
  <2>7. was'.shared \/ Passes(c.hash)
    BY <2>2, <2>5, <2>6
  <2>8. ASSUME was.refused[p], p \in Adders, ~was'.shared, ~was'.blind, ~was'.lost
        PROVE  c.key \in was'.damaged
    <3>1. c.key \in was.written
      BY <1>3, <2>2, <2>8 DEF Inv, RefusedOK
    <3>2. deny # Absent
      BY <1>2, <1>4, <2>8, <3>1
    <3>3. was.written \subseteq deny
      BY <1>4, <2>8, <3>2 DEF Inv, DenyOK
    <3>4. CASE c.key \notin was.damaged
      <4>1. quarantine[c.key] = c.key
        BY <1>6, <2>2, <2>6, <2>8, <3>4, CopyIsSource
      <4>2. QED
        BY <2>2, <2>5, <2>6, <2>8, <3>1, <3>2, <3>3, <4>1
    <3>5. QED
      BY <1>4, <3>4
  <2>9. KeepsRefused(p, c)
    BY <1>4, <2>2, <2>8 DEF KeepsRefused
  <2>10. QED
    BY <1>3, <1>4, <1>5, <1>6, <1>8, <2>2, <2>3, <2>4, <2>6, <2>7, <2>9, GoesKeeps
<1>9. CASE p \notin Auditors /\ ~(proc[p].dir # Absent /\ Promotable(verdict))
  <2>1. Ends(p, ExitCode(verdict)) /\ ExitCode(verdict) \in 0 .. 4
    BY <1>9, CodesAre DEF Scan
  <2> HIDE DEF verdict
  <2>2. QED
    BY <1>3, <1>4, <1>5, <1>9, <2>1, EndsKeeps DEF Remembers
<1>10. QED
  BY <1>7, <1>8, <1>9

LEMMA NothingHappens ==
    ASSUME Inv, was' = was
    PROVE  was' \in WasType /\ Grows /\ Remembers /\ was'.refused = was.refused
  BY DEF Inv, TypesOK, Grows, Remembers

LEMMA PromoteKeeps == ASSUME Inv, NEW p \in Procs, Promote(p) PROVE Inv'
<1>1. proc[p].pc = "promote" /\ UNCHANGED <<env, left, disk, was>> /\ Paid
  BY DEF Promote, Paid
<1>2. p \in Adders /\ p \notin Auditors
  BY <1>1, Here DEF ProcOK
<1>3. CASE Ends(p, 0)
  <2>1. 0 \in 0 .. 4 \cup {Absent} /\ was' \in WasType /\ Grows /\ Remembers /\ was'.refused = was.refused
    BY <1>1, NothingHappens
  <2>2. QED
    BY <1>1, <1>2, <1>3, <2>1, EndsKeeps DEF Remembers
<1>4. CASE Goto(p, "mkdir")
  <2>1. PICK c : c = [proc[p] EXCEPT !.pc = "mkdir"]
    OBVIOUS
  <2>2. /\ c \in ProcType /\ c.pc = "mkdir" /\ c.dir = proc[p].dir /\ c.key = proc[p].key
        /\ c.hash = proc[p].hash
    BY <2>1, Here DEF ProcType
  <2>3. ProcOK(p, c)
    BY <1>1, <1>2, <2>2, Here DEF ProcOK
  <2>4. proc' = [proc EXCEPT ![p] = c]
    BY <1>4, <2>1 DEF Goto
  <2>5. KeepsRefused(p, c)
    BY <1>1, <1>2, <2>2 DEF KeepsRefused, Inv, RefusedOK
  <2>6. /\ c.key \in DOMAIN quarantine
        /\ ~was.shared => CopiesInto(c.key) \ {p} = {} /\ quarantine[c.key] = c.hash
        /\ was.shared \/ Passes(c.hash)
    BY <1>1, <2>2 DEF Inv, QuarantineOK, InstallOK
  <2>7. QED
    BY <1>1, <1>2, <2>2, <2>3, <2>4, <2>5, <2>6, NothingHappens, GoesKeeps
<1>5. QED
  BY <1>3, <1>4 DEF Promote

-----------------------------------------------------------------------------
(* The pins.                                                               *)

PinLines(d) == {i \in DOMAIN pins : pins[i].dir = d /\ pins[i].whole}
LastPin(d) == CHOOSE i \in PinLines(d) : \A j \in PinLines(d) : j <= i

LEMMA LastPinIs ==
    ASSUME DiskOK, NEW d
    PROVE  /\ LatestPin(d) = IF PinLines(d) = {} THEN Absent ELSE pins[LastPin(d)].hash
           /\ PinLines(d) # {} => LastPin(d) \in PinLines(d)
           /\ LatestPin(d) \in Trees \cup {Absent}
           /\ PinLines(d) # {} => LatestPin(d) # Absent
<1>1. LatestPin(d) = IF PinLines(d) = {} THEN Absent ELSE pins[LastPin(d)].hash
  BY DEF LatestPin, PinLines, LastPin
<1>2. pins \in Seq(PinType) /\ Len(pins) \in Nat /\ DOMAIN pins = 1 .. Len(pins)
  BY DEF DiskOK
<1>3. ASSUME PinLines(d) # {}
      PROVE  LastPin(d) \in PinLines(d)
  <2>1. PinLines(d) \in SUBSET (1 .. Len(pins))
    BY <1>2 DEF PinLines
  <2>2. \E m \in PinLines(d) : \A i \in PinLines(d) : i <= m
    BY <1>2, <1>3, <2>1, LastExists
  <2>3. QED
    BY <2>2, Zenon DEF LastPin
<1>4. ASSUME PinLines(d) # {}
      PROVE  pins[LastPin(d)].hash \in Trees
  <2>1. pins[LastPin(d)] \in PinType
    BY <1>2, <1>3, <1>4 DEF PinLines
  <2>2. QED
    BY <2>1 DEF PinType
<1>5. QED
  BY <1>1, <1>3, <1>4, ConstantsAssumption

\* A pin that is written whole onto a line of its own is the latest of its
\* directory, and changes no other's.
LEMMA PinIsLatest ==
    ASSUME DiskOK, DiskOK', NEW d \in Dirs, NEW h \in Trees,
           pins' = Append(pins, [dir |-> d, hash |-> h, whole |-> TRUE])
    PROVE  \A e : LatestPin(e)' = IF e = d THEN h ELSE LatestPin(e)
<1>1. PICK line : line = [dir |-> d, hash |-> h, whole |-> TRUE]
  OBVIOUS
<1>2. line \in PinType /\ line.dir = d /\ line.hash = h /\ line.whole = TRUE
  BY <1>1 DEF PinType
<1>3. pins \in Seq(PinType) /\ Len(pins) \in Nat /\ DOMAIN pins = 1 .. Len(pins)
  BY DEF DiskOK
<1>4. /\ Len(pins') = Len(pins) + 1 /\ DOMAIN pins' = 1 .. Len(pins) + 1
      /\ \A i \in 1 .. Len(pins) : pins'[i] = pins[i]
      /\ pins'[Len(pins) + 1] = line
  BY <1>1, <1>2, <1>3, AppendProperties
<1>5. ASSUME NEW e, e # d
      PROVE  LatestPin(e)' = LatestPin(e)
  <2>1. PinLines(e)' = PinLines(e)
    BY <1>2, <1>3, <1>4, <1>5 DEF PinLines
  <2>2. LastPin(e)' = LastPin(e)
    BY <2>1 DEF LastPin
  <2>3. PinLines(e) # {} => pins'[LastPin(e)] = pins[LastPin(e)]
    BY <1>3, <1>4, LastPinIs DEF PinLines
  <2>4. LatestPin(e)' = IF PinLines(e) = {} THEN Absent ELSE pins'[LastPin(e)].hash
    <3>1. LatestPin(e)' = IF PinLines(e)' = {} THEN Absent ELSE pins'[LastPin(e)'].hash
      BY DEF LatestPin, PinLines, LastPin
    <3>2. QED
      BY <2>1, <2>2, <3>1
  <2>5. QED
    BY <2>3, <2>4, LastPinIs
<1>6. LatestPin(d)' = h
  <2>1. Len(pins) + 1 \in PinLines(d)' /\ \A j \in PinLines(d)' : j \in Nat /\ j <= Len(pins) + 1
    BY <1>2, <1>3, <1>4 DEF PinLines
  <2>2. \A i \in PinLines(d)' : (\A j \in PinLines(d)' : j <= i) => i = Len(pins) + 1
    BY <1>3, <2>1
  <2>3. LastPin(d)' \in PinLines(d)' /\ \A j \in PinLines(d)' : j <= LastPin(d)'
    BY <2>1, Zenon DEF LastPin
  <2>4. LastPin(d)' = Len(pins) + 1
    BY <2>2, <2>3
  <2>5. LatestPin(d)' = pins'[LastPin(d)'].hash
    BY <2>1 DEF LatestPin, PinLines, LastPin
  <2>6. QED
    BY <1>2, <1>4, <2>4, <2>5
<1>7. QED
  BY <1>5, <1>6

-----------------------------------------------------------------------------
(* The steps of an audit.                                                  *)

LEMMA StartAuditKeeps == ASSUME Inv, NEW a \in Auditors, StartAudit(a) PROVE Inv'
<1>0. a \in Procs /\ a \notin Adders
  BY ConstantsAssumption DEF Procs
<1>1. /\ proc[a] \in ProcType /\ was \in WasType /\ proc[a].jobs - 1 \in Nat /\ proc[a].pc = "idle"
      /\ DiskOK
  BY <1>0, Here DEF StartAudit, ProcType
<1>2. PICK pinned : pinned = [d \in Dirs |-> LatestPin(d)]
  OBVIOUS
<1>3. PICK due : due = {d \in Dirs : LatestPin(d) # Absent}
  OBVIOUS
<1>4. pinned \in [Dirs -> Trees \cup {Absent}] /\ due \in SUBSET Dirs
  BY <1>1, <1>2, <1>3, LastPinIs
<1>5. PICK c : c = [Idle(proc[a].jobs - 1, Absent) EXCEPT !.pc = "check", !.pinned = pinned, !.todo = due]
  OBVIOUS
<1>6. c \in ProcType /\ c.pc = "check" /\ c.pinned = pinned /\ c.todo = due
  <2>1. PICK i \in ProcType : i = Idle(proc[a].jobs - 1, Absent)
    BY <1>1, IdleIs
  <2>2. QED
    BY <1>4, <1>5, <2>1 DEF ProcType
<1>7. ProcOK(a, c)
  BY <1>0, <1>4, <1>6 DEF ProcOK
<1>8. /\ proc' = [proc EXCEPT ![a] = c] /\ UNCHANGED <<env, left, disk>> /\ Paid
      /\ was' = [was EXCEPT !.shown[a] = Drifted]
  BY <1>2, <1>3, <1>5 DEF StartAudit, Paid
<1>9. Drifted \in SUBSET Dirs
  BY DEF Drifted
<1>10. PICK s : s = [was.shown EXCEPT ![a] = Drifted]
  OBVIOUS
<1>11. s \in [Auditors -> SUBSET Dirs] /\ \A b \in Auditors : s[b] = IF b = a THEN Drifted ELSE was.shown[b]
  <2>1. was.shown \in [Auditors -> SUBSET Dirs]
    BY <1>1 DEF WasType
  <2>2. QED
    BY <1>9, <1>10, <2>1
<1>12. was' = [was EXCEPT !.shown = s]
  BY <1>8, <1>10
<1>13. /\ was' \in WasType /\ was'.shown = s /\ was'.state = was.state /\ was'.blamed = was.blamed
       /\ was'.written = was.written /\ was'.refused = was.refused /\ Grows
  BY <1>1, <1>11, <1>12 DEF WasType, Grows
<1>14. Steps(a, c)
  BY <1>8, <1>13 DEF Steps
<1>15. DiskOK' /\ left'.errors <= left.errors
  BY <1>1, <1>8, DiskRests
<1>16. KeepsCopies(a, c) /\ KeepsInstalls(a, c) /\ KeepsDeny(a, c) /\ KeepsRefused(a, c)
  BY <1>0, <1>1, <1>6, <1>8, <1>13 DEF KeepsCopies, KeepsInstalls, KeepsDeny, KeepsRefused
<1>17. KeepsShown(a, c)
  <2>1. \A d \in Drifted : /\ pinned[d] # Absent /\ dirs[d] \notin {Absent, pinned[d]} /\ d \in due
    BY <1>2, <1>3 DEF Drifted
  <2>2. QED
    BY <1>6, <1>8, <1>11, <1>13, <1>15, <2>1 DEF KeepsShown
<1>18. QED
  BY <1>0, <1>7, <1>14, <1>15, <1>16, <1>17, StepKeeps

LEMMA CheckKeeps == ASSUME Inv, NEW a \in Procs, NEW d \in Dirs, Check(a, d) PROVE Inv'
<1>1. proc[a].pc = "check" /\ d \in proc[a].todo /\ UNCHANGED <<env, left, disk>> /\ Paid
  BY DEF Check, Paid
<1>2. a \in Auditors /\ a \notin Adders /\ proc[a] \in ProcType /\ was \in WasType /\ DiskOK
  BY <1>1, Here DEF ProcOK
<1>3. proc[a].pinned \in [Dirs -> Trees \cup {Absent}]
  BY <1>1, <1>2, Here DEF ProcOK
<1>4. DiskOK' /\ left'.errors <= left.errors
  BY <1>1, <1>2, DiskRests
<1>5. CASE dirs[d] \in {Absent, proc[a].pinned[d]}
  <2>1. PICK noted : noted = proc[a].found \cup IF dirs[d] = Absent THEN {"missing"} ELSE {}
    OBVIOUS
  <2>2. PICK c : c = [proc[a] EXCEPT !.todo = @ \ {d}, !.found = noted]
    OBVIOUS
  <2>3. /\ c \in ProcType /\ c.pc = "check" /\ c.pinned = proc[a].pinned
        /\ c.todo = proc[a].todo \ {d} /\ c.found = noted /\ proc[a].found \subseteq c.found
    BY <1>1, <1>2, <2>1, <2>2 DEF ProcType
  <2>4. ProcOK(a, c)
    BY <1>2, <1>3, <2>3 DEF ProcOK
  <2>5. proc' = [proc EXCEPT ![a] = c] /\ was' = was
    BY <1>5, <2>1, <2>2 DEF Check
  <2>6. was' \in WasType /\ Grows /\ Remembers /\ was'.refused = was.refused
    BY <2>5, NothingHappens
  <2>7. Steps(a, c)
    BY <1>1, <2>5, <2>6 DEF Steps
  <2>8. KeepsCopies(a, c) /\ KeepsInstalls(a, c) /\ KeepsDeny(a, c) /\ KeepsRefused(a, c)
    BY <1>1, <1>2, <2>3, <2>5 DEF KeepsCopies, KeepsInstalls, KeepsDeny, KeepsRefused
  <2>9. KeepsShown(a, c)
    BY <1>1, <1>2, <1>4, <1>5, <2>3, <2>5 DEF KeepsShown, Inv, ShownOK
  <2>10. QED
    BY <1>4, <2>4, <2>7, <2>8, <2>9, StepKeeps
<1>6. CASE dirs[d] \notin {Absent, proc[a].pinned[d]}
  <2>1. dirs[d] \in Trees
    BY <1>2, <1>6 DEF DiskOK
  <2>2. PICK c : c = [proc[a] EXCEPT !.todo = @ \ {d}, !.found = @ \cup {"drifted"},
                        !.hash = dirs[d], !.dir = d, !.pc = "load"]
    OBVIOUS
  <2>3. /\ c \in ProcType /\ c.pc = "load" /\ c.pinned = proc[a].pinned
        /\ c.todo = proc[a].todo \ {d} /\ c.found = proc[a].found \cup {"drifted"}
        /\ c.hash = dirs[d] /\ c.dir = d
    BY <1>2, <2>1, <2>2 DEF ProcType
  <2>4. ProcOK(a, c)
    BY <1>2, <1>3, <2>1, <2>3 DEF ProcOK
  <2>5. PICK stale \in BOOLEAN : stale = (proc[a].pinned[d] # LatestPin(d))
    OBVIOUS
  <2>6. PICK b : b = [state |-> was.state[d], stale |-> stale]
    OBVIOUS
  <2>7. b \in [state : States, stale : BOOLEAN] /\ b.state = was.state[d] /\ b.stale = stale
    BY <1>2, <2>6 DEF WasType
  <2>8. proc' = [proc EXCEPT ![a] = c] /\ was' = [was EXCEPT !.blamed = @ \cup {b}]
    BY <1>6, <2>2, <2>5, <2>6 DEF Check
  <2>9. /\ was' \in WasType /\ Grows /\ was'.blamed = was.blamed \cup {b} /\ was'.state = was.state
        /\ was'.written = was.written /\ was'.shown = was.shown /\ was'.refused = was.refused
        /\ was'.shared = was.shared /\ was'.torn = was.torn
    BY <1>2, <2>7, <2>8 DEF WasType, Grows
  <2>10. Steps(a, c)
    BY <1>1, <2>8, <2>9 DEF Steps
  <2>11. b.state = "installed" => b.stale \/ was'.shared \/ was'.torn
    BY <1>6, <2>5, <2>7, <2>9 DEF Inv, InstallOK, InstalledIsWhatPassed
  <2>12. KeepsInstalls(a, c)
    BY <1>1, <2>3, <2>9, <2>11 DEF KeepsInstalls
  <2>13. KeepsCopies(a, c) /\ KeepsDeny(a, c) /\ KeepsRefused(a, c)
    BY <1>1, <1>2, <2>3, <2>9 DEF KeepsCopies, KeepsDeny, KeepsRefused
  <2>14. KeepsShown(a, c)
    BY <1>1, <1>2, <1>4, <2>3, <2>9 DEF KeepsShown, Inv, ShownOK
  <2>15. QED
    BY <1>4, <2>4, <2>10, <2>12, <2>13, <2>14, StepKeeps
<1>7. QED
  BY <1>5, <1>6

LEMMA FinishAuditKeeps == ASSUME Inv, NEW a \in Procs, FinishAudit(a) PROVE Inv'
<1>1. PICK code : code = IF "drifted" \in proc[a].found THEN 2 ELSE IF "missing" \in proc[a].found THEN 1 ELSE 0
  OBVIOUS
<1>2. /\ proc[a].pc = "check" /\ proc[a].todo = {} /\ Ends(a, code) /\ code \in 0 .. 4 \cup {Absent}
      /\ UNCHANGED <<env, left, disk, was>> /\ Paid
  BY <1>1 DEF FinishAudit, Paid
<1>3. was' \in WasType /\ Grows /\ Remembers /\ was'.refused = was.refused
  BY <1>2, NothingHappens
<1>4. a \in Auditors /\ was.shown[a] # {} => code = 2
  BY <1>1, <1>2 DEF Inv, ShownOK
<1>5. QED
  BY <1>2, <1>3, <1>4, EndsKeeps DEF Remembers

-----------------------------------------------------------------------------
(* Steps that fail.                                                        *)

LEMMA InstallFailsKeeps ==
    ASSUME Inv, NEW p \in Procs, InstallFails(p) \/ PinFails(p)
    PROVE  Inv'
<1>1. PICK s : s = [was.state EXCEPT ![proc[p].dir] = "part"]
  OBVIOUS
<1>2. PICK code : code = IF proc[p].pc = "pin" THEN 1 ELSE ExitError
  OBVIOUS
<1>3. /\ proc[p].pc \in {"install", "pin"} /\ Ends(p, code) /\ code \in 0 .. 4 \cup {Absent}
      /\ UNCHANGED <<env, disk>> /\ was' = [was EXCEPT !.state = s]
  BY <1>1, <1>2 DEF InstallFails, PinFails, ExitError
<1>4. p \in Adders /\ p \notin Auditors /\ proc[p].dir \in Dirs /\ was \in WasType
  BY <1>3, Here DEF ProcOK
<1>5. s \in [Dirs -> States]
  <2>1. "part" \in States /\ was.state \in [Dirs -> States]
    BY <1>4 DEF States, WasType
  <2>2. QED
    BY <1>1, <2>1
<1>6. /\ was' \in WasType /\ Grows /\ was'.state = s /\ was'.blamed = was.blamed /\ was'.refused = was.refused
      /\ was'.written = was.written /\ was'.shown = was.shown
  BY <1>3, <1>4, <1>5 DEF WasType, Grows
<1>7. Paid
  BY DEF InstallFails, PinFails, Paid, Budgets
<1>8. QED
  BY <1>1, <1>3, <1>4, <1>6, <1>7, EndsKeeps

LEMMA DenyFailsKeeps == ASSUME Inv, NEW a \in Procs, DenyFails(a) PROVE Inv'
<1>1. PICK b \in BOOLEAN : b = (was.lost \/ proc[a].pc = "write")
  BY Here DEF WasType
<1>2. /\ proc[a].pc \in {"open", "write"} /\ left.errors > 0 /\ left' = [left EXCEPT !.errors = @ - 1]
      /\ Ends(a, 1) /\ UNCHANGED <<env, disk>> /\ was' = [was EXCEPT !.lost = b]
      /\ 1 \in 0 .. 4 \cup {Absent}
  BY <1>1 DEF DenyFails
<1>3. /\ was' \in WasType /\ was'.lost = b /\ Remembers /\ was'.refused = was.refused
      /\ was'.shared = was.shared /\ was'.blind = was.blind /\ was'.torn = was.torn
      /\ was'.damaged = was.damaged
  BY <1>2, Here DEF WasType, Remembers
<1>4. Grows
  BY <1>1, <1>3 DEF Grows, Remembers
<1>5. Paid
  BY <1>2 DEF Paid, Budgets
<1>6. left'.errors < env.budget.errors
  <2>1. left.errors \in Nat /\ env.budget.errors \in Nat /\ left.errors <= env.budget.errors
    BY Here, ErrorsAreCounted DEF DiskOK
  <2>2. left \in [Budgets -> Nat] /\ "errors" \in Budgets
    BY Here DEF DiskOK, Budgets
  <2>3. left'.errors = left.errors - 1
    BY <1>2, <2>2
  <2>4. QED
    BY <2>1, <2>3
<1>7. QED
  BY <1>1, <1>2, <1>3, <1>4, <1>5, <1>6, EndsKeeps DEF Remembers

\* What a line of the pins becomes when it is cut, or continues one that was cut.
LEMMA AppendedIs ==
    ASSUME DiskOK, NEW d \in Dirs, NEW h \in Trees, NEW w \in BOOLEAN
    PROVE  Appended(d, h, w) \in Seq(PinType) /\ Len(Appended(d, h, w)) > 0
<1>1. PICK line : line = [dir |-> d, hash |-> h, whole |-> w]
  OBVIOUS
<1>2. line \in PinType /\ pins \in Seq(PinType) /\ Len(pins) \in Nat
  BY <1>1 DEF PinType, DiskOK
<1>3. CASE newline
  <2>1. Appended(d, h, w) = Append(pins, line)
    BY <1>1, <1>3 DEF Appended
  <2>2. QED
    BY <1>2, <2>1, AppendProperties
<1>4. CASE ~newline
  <2>1. Len(pins) \in 1 .. Len(pins)
    BY <1>2, <1>4 DEF DiskOK
  <2>2. pins[Len(pins)] \in PinType
    BY <1>2, <2>1
  <2>3. PICK cut : cut = [pins[Len(pins)] EXCEPT !.whole = FALSE]
    OBVIOUS
  <2>4. cut \in PinType
    BY <2>2, <2>3 DEF PinType
  <2>5. Appended(d, h, w) = [pins EXCEPT ![Len(pins)] = cut]
    BY <1>4, <2>3 DEF Appended
  <2>6. QED
    BY <1>2, <2>1, <2>4, <2>5, ExceptSeq
<1>5. QED
  BY <1>3, <1>4

LEMMA KillKeeps == ASSUME Inv, NEW p \in Procs, Kill(p) PROVE Inv'
<1>1. PICK damaged : damaged = IF proc[p].pc = "copy" THEN was.damaged \cup {proc[p].key} ELSE was.damaged
  OBVIOUS
<1>2. PICK s : s = IF proc[p].pc \in {"install", "pin"} THEN [was.state EXCEPT ![proc[p].dir] = "part"] ELSE was.state
  OBVIOUS
<1>3. PICK b \in BOOLEAN : b = (was.torn \/ (newline' = FALSE))
  BY Here DEF WasType
<1>4. PICK e \in BOOLEAN : e = (was.lost \/ proc[p].pc = "write")
  BY Here DEF WasType
<1>5. /\ proc[p].pc # "idle" /\ Ends(p, Absent) /\ UNCHANGED <<env, source, quarantine, dirs, deny>>
      /\ was' = [was EXCEPT !.damaged = damaged, !.state = s, !.torn = b, !.lost = e]
  BY <1>1, <1>2, <1>3, <1>4 DEF Kill
<1>6. Paid
  BY DEF Kill, Spend, Paid, Budgets
<1>7. damaged \in SUBSET Trees /\ s \in [Dirs -> States]
  <2>1. proc[p].pc = "copy" => proc[p].key \in Trees
    BY Here DEF ProcOK
  <2>2. proc[p].pc \in {"install", "pin"} => proc[p].dir \in Dirs
    BY Here DEF ProcOK
  <2>3. "part" \in States /\ was.state \in [Dirs -> States] /\ was.damaged \in SUBSET Trees
    BY Here DEF States, WasType
  <2>4. QED
    BY <1>1, <1>2, <2>1, <2>2, <2>3
<1>8. /\ was' \in WasType /\ was'.damaged = damaged /\ was'.state = s /\ was'.torn = b /\ was'.lost = e
      /\ was'.blamed = was.blamed /\ was'.written = was.written /\ was'.shown = was.shown
      /\ was'.refused = was.refused /\ was'.shared = was.shared /\ was'.blind = was.blind
  BY <1>5, <1>7, Here DEF WasType
<1>9. Grows
  BY <1>1, <1>3, <1>4, <1>8 DEF Grows
<1>10. CASE UNCHANGED <<pins, newline>>
  <2>1. /\ Absent \in 0 .. 4 \cup {Absent} /\ UNCHANGED <<env, source, quarantine, dirs, pins, newline, deny>>
        /\ proc[p].pc = "copy" => proc[p].key \in was'.damaged
        /\ \A q \in Adders \ {p} : was'.refused[q] = was.refused[q]
    BY <1>1, <1>5, <1>8, <1>10
  <2>2. proc[p].pc = "write" => was'.lost
    BY <1>4, <1>8
  <2>3. was'.state = IF proc[p].pc \in {"install", "pin"}
                     THEN [was.state EXCEPT ![proc[p].dir] = "part"] ELSE was.state
    BY <1>2, <1>8
  <2>4. QED
    BY <1>5, <1>6, <1>8, <1>9, <2>1, <2>2, <2>3, EndsKeeps
<1>11. ASSUME NEW whole \in BOOLEAN, proc[p].pc = "pin", newline' = FALSE,
              pins' = Appended(proc[p].dir, proc[p].hash, whole)
       PROVE  Inv'
  <2>1. PICK c : c = Idle(proc[p].jobs, Absent)
    OBVIOUS
  <2>2. c \in ProcType /\ c.pc = "idle" /\ c.exit = Absent
    BY <2>1, IdleIs DEF Inv, TypesOK, ProcType
  <2>3. ProcOK(p, c)
    BY <2>2 DEF ProcOK
  <2>4. Steps(p, c)
    BY <1>5, <1>8, <1>9, <2>1 DEF Steps, Ends
  <2>5. p \in Adders /\ p \notin Auditors /\ proc[p].dir \in Dirs /\ proc[p].hash \in Trees
    BY <1>11, Here DEF ProcOK
  <2>6. pins' \in Seq(PinType) /\ Len(pins') > 0
    BY <1>11, <2>5, Here, AppendedIs
  <2>7. DiskOK' /\ left'.errors <= left.errors
    <3>1. /\ left' \in [Budgets -> Nat] /\ left'.errors <= left.errors
          /\ left'.errors <= env.budget.errors
      <4>1. left \in [Budgets -> Nat] /\ left.errors \in Nat /\ env.budget.errors \in Nat
            /\ left.errors <= env.budget.errors /\ {"kills", "errors"} \subseteq Budgets
        BY Here, ErrorsAreCounted DEF DiskOK, Budgets
      <4>2. left.kills > 0 /\ left' = [left EXCEPT !["kills"] = @ - 1]
        BY DEF Kill, Spend
      <4>3. QED
        BY <4>1, <4>2
    <3>2. QED
      BY <1>5, <1>11, <2>6, <3>1, Here DEF DiskOK
  <2>8. KeepsInstalls(p, c)
    BY <1>2, <1>3, <1>5, <1>8, <1>11, <2>2 DEF KeepsInstalls
  <2>9. KeepsCopies(p, c) /\ KeepsDeny(p, c) /\ KeepsRefused(p, c) /\ KeepsShown(p, c)
    BY <1>5, <1>8, <1>11, <2>2, <2>5, <2>7 DEF KeepsCopies, KeepsDeny, KeepsRefused, KeepsShown
  <2>10. QED
    BY <2>3, <2>4, <2>7, <2>8, <2>9, StepKeeps
<1>12. QED
  BY <1>10, <1>11 DEF Kill, KillTearsPin

-----------------------------------------------------------------------------
(* The steps that write the denylist.                                      *)

LEMMA DenyStepKeeps ==
    ASSUME Inv, NEW a \in Auditors, NEW c, Steps(a, c), ProcOK(a, c), DenyOK',
           proc[a].pc \in {"load", "open", "write"}, c.pc \in {"open", "write", "hash", "check"},
           c.todo = proc[a].todo, c.found = proc[a].found, c.pinned = proc[a].pinned,
           UNCHANGED <<env, left, source, quarantine, dirs, pins, newline>>,
           deny' = Absent \/ deny' \subseteq Trees,
           was'.state = was.state, was'.blamed = was.blamed, was'.shown = was.shown,
           was'.refused = was.refused
    PROVE  Inv'
<1>1. a \in Procs /\ a \notin Adders
  BY ConstantsAssumption DEF Procs
<1>2. DiskOK' /\ left'.errors <= left.errors
  <2>1. DiskOK /\ left.errors \in Nat
    BY <1>1, Here, ErrorsAreCounted
  <2>2. QED
    BY <2>1 DEF DiskOK
<1>3. KeepsCopies(a, c) /\ KeepsInstalls(a, c) /\ KeepsRefused(a, c)
  BY <1>1 DEF KeepsCopies, KeepsInstalls, KeepsRefused
<1>4. KeepsShown(a, c)
  BY <1>2 DEF KeepsShown, Inv, ShownOK
<1>5. QED
  BY <1>1, <1>2, <1>3, <1>4, TypesStep, CopiesKept, InstallsKept, RefusedKept, ShownKept DEF Inv

LEMMA OnlyAuditorsWrite ==
    ASSUME Inv, NEW a \in Procs, proc[a].pc \in {"load", "open", "write"}
    PROVE  /\ a \in Auditors /\ proc[a] \in ProcType /\ proc[a].hash \in Trees
           /\ proc[a].dir \in Dirs /\ proc[a].pinned \in [Dirs -> Trees \cup {Absent}]
  BY Here DEF ProcOK

LEMMA LoadDenyKeeps == ASSUME Inv, NEW a \in Procs, LoadDeny(a) PROVE Inv'
<1>1. PICK have : have = IF deny = Absent THEN {} ELSE deny
  OBVIOUS
<1>2. PICK c : c = [proc[a] EXCEPT !.have = have, !.pc = "open"]
  OBVIOUS
<1>3. PICK b \in BOOLEAN : b = (was.lost \/ \E e \in Auditors \ {a} : proc[e].pc \in {"open", "write"})
  BY Here DEF WasType
<1>4. /\ proc[a].pc = "load" /\ proc' = [proc EXCEPT ![a] = c] /\ was' = [was EXCEPT !.lost = b]
      /\ UNCHANGED <<env, left, disk>>
  BY <1>1, <1>2, <1>3 DEF LoadDeny
<1>5. /\ a \in Auditors /\ proc[a] \in ProcType /\ proc[a].hash \in Trees
      /\ proc[a].dir \in Dirs /\ proc[a].pinned \in [Dirs -> Trees \cup {Absent}]
  BY <1>4, OnlyAuditorsWrite
<1>6. have \in SUBSET Trees /\ have \subseteq was.written
  BY <1>1, Here DEF DiskOK, Inv, DenyOK
<1>7. /\ c \in ProcType /\ c.pc = "open" /\ c.have = have /\ c.hash = proc[a].hash
      /\ c.dir = proc[a].dir /\ c.pinned = proc[a].pinned
      /\ c.todo = proc[a].todo /\ c.found = proc[a].found
  BY <1>2, <1>5, <1>6 DEF ProcType
<1>8. ProcOK(a, c)
  BY <1>5, <1>7, Here DEF ProcOK
<1>9. /\ was' \in WasType /\ was'.lost = b /\ was'.state = was.state /\ was'.blamed = was.blamed
      /\ was'.shown = was.shown /\ was'.refused = was.refused /\ was'.shared = was.shared
      /\ was'.blind = was.blind /\ was'.torn = was.torn /\ was'.damaged = was.damaged
      /\ was'.written = was.written
  BY <1>4, Here DEF WasType
<1>10. Grows
  BY <1>3, <1>9 DEF Grows
<1>11. Steps(a, c)
  BY <1>4, <1>9, <1>10 DEF Steps
<1>12. \A q \in Procs : proc'[q] = IF q = a THEN c ELSE proc[q]
  BY <1>11, StepIs DEF Inv
<1>13. ASSUME ~was'.lost
       PROVE  /\ \A q \in Procs : q # a => proc[q].pc \notin {"open", "write"}
              /\ deny # Absent /\ was.written \subseteq deny /\ have = deny
  <2>1. ~was.lost /\ \A q \in Auditors : q # a => proc[q].pc \notin {"open", "write"}
    BY <1>3, <1>9, <1>13
  <2>2. \A q \in Procs : q # a => proc[q].pc \notin {"open", "write"}
    BY <2>1, OnlyAuditorsWrite
  <2>3. \A q \in Procs : proc[q].pc # "write"
    BY <1>4, <2>2
  <2>4. QED
    BY <1>1, <2>1, <2>2, <2>3 DEF Inv, DenyOK
<1>14. DenyOK'
  <2>1. deny' = deny /\ was'.written = was.written
    BY <1>4, <1>9
  <2>2. \A q \in Procs : proc'[q].pc \in {"open", "write"} => proc'[q].have \subseteq was'.written
    BY <1>6, <1>7, <1>12, <2>1 DEF Inv, DenyOK
  <2>3. ASSUME ~was'.lost
        PROVE  /\ \A q, r \in Procs : {proc'[q].pc, proc'[r].pc} \subseteq {"open", "write"} => q = r
               /\ \A q \in Procs : proc'[q].pc = "open" => deny' = proc'[q].have
               /\ \A q \in Procs : proc'[q].pc # "write"
    BY <1>7, <1>12, <1>13, <2>1, <2>3
  <2>4. QED
    BY <1>13, <2>1, <2>2, <2>3 DEF Inv, DenyOK
<1>15. QED
  BY <1>4, <1>5, <1>7, <1>8, <1>9, <1>11, <1>14, Here, DenyStepKeeps DEF DiskOK

LEMMA OpenDenyKeeps == ASSUME Inv, NEW a \in Procs, OpenDeny(a) PROVE Inv'
<1>1. PICK c : c = [proc[a] EXCEPT !.pc = "write"]
  OBVIOUS
<1>2. /\ proc[a].pc = "open" /\ proc' = [proc EXCEPT ![a] = c] /\ deny' = Absent
      /\ UNCHANGED <<env, left, source, quarantine, dirs, pins, newline, was>>
  BY <1>1 DEF OpenDeny, Goto
<1>3. /\ a \in Auditors /\ proc[a] \in ProcType /\ proc[a].hash \in Trees
      /\ proc[a].dir \in Dirs /\ proc[a].pinned \in [Dirs -> Trees \cup {Absent}]
  BY <1>2, OnlyAuditorsWrite
<1>4. /\ c \in ProcType /\ c.pc = "write" /\ c.have = proc[a].have /\ c.hash = proc[a].hash
      /\ c.dir = proc[a].dir /\ c.pinned = proc[a].pinned
      /\ c.todo = proc[a].todo /\ c.found = proc[a].found
  BY <1>1, <1>3 DEF ProcType
<1>5. ProcOK(a, c)
  BY <1>3, <1>4, Here DEF ProcOK
<1>6. was' \in WasType /\ Grows /\ Remembers /\ was'.refused = was.refused /\ was' = was
  BY <1>2, NothingHappens
<1>7. Steps(a, c)
  BY <1>2, <1>6 DEF Steps
<1>8. \A q \in Procs : proc'[q] = IF q = a THEN c ELSE proc[q]
  BY <1>7, StepIs DEF Inv
<1>9. DenyOK'
  <2>1. \A q \in Procs : proc'[q].pc \in {"open", "write"} =>
            proc[q].pc \in {"open", "write"} /\ proc'[q].have = proc[q].have
    BY <1>2, <1>4, <1>8
  <2>2. ASSUME ~was.lost
        PROVE  /\ \A q, r \in Procs : {proc'[q].pc, proc'[r].pc} \subseteq {"open", "write"} => q = r
               /\ \A q \in Procs : proc'[q].pc # "open"
               /\ was.written \subseteq proc[a].have
    <3>1. \A q \in Procs : proc[q].pc \in {"open", "write"} => q = a
      BY <1>2, <2>2 DEF Inv, DenyOK
    <3>2. \A q \in Procs : proc[q].pc # "write"
      BY <1>2, <3>1
    <3>3. was.written \subseteq proc[a].have
      BY <1>2, <2>2, <3>2 DEF Inv, DenyOK
    <3>4. QED
      BY <1>4, <1>8, <2>1, <3>1, <3>3
  <2>3. proc'[a].pc = "write"
    BY <1>4, <1>8
  <2>4. \A q \in Procs : proc'[q].pc \in {"open", "write"} => proc'[q].have \subseteq was.written
    BY <2>1 DEF Inv, DenyOK
  <2>5. ~was.lost => \A q \in Procs : proc'[q].pc = "write" => was.written \subseteq proc'[q].have
    BY <1>4, <1>8, <2>2, <2>3
  <2>6. QED
    BY <1>2, <1>6, <2>2, <2>3, <2>4, <2>5 DEF DenyOK
<1>10. QED
  BY <1>2, <1>3, <1>4, <1>5, <1>6, <1>7, <1>9, DenyStepKeeps DEF Remembers

LEMMA WriteDenyKeeps == ASSUME Inv, NEW a \in Procs, WriteDeny(a) PROVE Inv'
<1>1. PICK c : c = [proc[a] EXCEPT !.pc = IF env.rescan THEN "hash" ELSE "check"]
  OBVIOUS
<1>2. PICK mine : mine = proc[a].have \cup {proc[a].hash}
  OBVIOUS
<1>3. /\ proc[a].pc = "write" /\ proc' = [proc EXCEPT ![a] = c]
      /\ deny' = IF deny # Absent /\ Cardinality(deny) > Cardinality(mine) THEN Absent ELSE mine
      /\ was' = [was EXCEPT !.written = @ \cup {proc[a].hash}]
      /\ UNCHANGED <<env, left, source, quarantine, dirs, pins, newline>>
  BY <1>1, <1>2 DEF WriteDeny, Goto
<1>4. /\ a \in Auditors /\ proc[a] \in ProcType /\ proc[a].hash \in Trees
      /\ proc[a].dir \in Dirs /\ proc[a].pinned \in [Dirs -> Trees \cup {Absent}]
  BY <1>3, OnlyAuditorsWrite
<1>5. /\ c \in ProcType /\ c.pc \in {"hash", "check"} /\ c.dir = proc[a].dir /\ c.pinned = proc[a].pinned
      /\ c.todo = proc[a].todo /\ c.found = proc[a].found
  BY <1>1, <1>4 DEF ProcType
<1>6. ProcOK(a, c)
  BY <1>4, <1>5, Here DEF ProcOK
<1>7. /\ was' \in WasType /\ was'.written = was.written \cup {proc[a].hash} /\ Grows
      /\ was'.state = was.state /\ was'.blamed = was.blamed /\ was'.shown = was.shown
      /\ was'.refused = was.refused /\ was'.lost = was.lost
  BY <1>3, <1>4, Here DEF WasType, Grows
<1>8. Steps(a, c)
  BY <1>3, <1>7 DEF Steps
<1>9. \A q \in Procs : proc'[q] = IF q = a THEN c ELSE proc[q]
  BY <1>8, StepIs DEF Inv
<1>10. mine \in SUBSET Trees /\ mine # Absent /\ mine \subseteq was'.written
  <2>1. proc[a].have \in SUBSET Trees /\ proc[a].have \subseteq was.written
    BY <1>3, <1>4 DEF Inv, DenyOK, ProcType
  <2>2. QED
    BY <1>2, <1>4, <1>7, <2>1, ConstantsAssumption
<1>11. DenyOK'
  <2>1. deny' # Absent => deny' \subseteq was'.written
    BY <1>3, <1>10
  <2>2. \A q \in Procs : proc'[q].pc \in {"open", "write"} =>
            q # a /\ proc'[q] = proc[q] /\ proc[q].pc \in {"open", "write"}
    BY <1>5, <1>9
  <2>3. \A q \in Procs : proc'[q].pc \in {"open", "write"} => proc'[q].have \subseteq was'.written
    BY <1>7, <2>2 DEF Inv, DenyOK
  <2>4. ASSUME ~was.lost
        PROVE  /\ \A q \in Procs : proc'[q].pc \notin {"open", "write"}
               /\ deny' = mine /\ was'.written \subseteq mine
    <3>1. \A q \in Procs : proc[q].pc \in {"open", "write"} => q = a
      BY <1>3, <2>4 DEF Inv, DenyOK
    <3>2. deny = Absent /\ was.written \subseteq proc[a].have
      BY <1>3, <2>4 DEF Inv, DenyOK
    <3>3. QED
      BY <1>2, <1>3, <1>7, <2>2, <3>1, <3>2
  <2>5. QED
    BY <1>7, <1>10, <2>1, <2>3, <2>4 DEF DenyOK
<1>12. QED
  BY <1>3, <1>4, <1>5, <1>6, <1>7, <1>8, <1>10, <1>11, DenyStepKeeps

-----------------------------------------------------------------------------
(* The steps that write a quarantine copy.                                 *)

LEMMA TreeIs ==
    ASSUME NEW t \in Trees, NEW f \in Files, NEW v \in Versions \cup {Absent}, NEW u, u = [t EXCEPT ![f] = v]
    PROVE  u \in Trees /\ \A g \in Files : u[g] = IF g = f THEN v ELSE t[g]
  BY DEF Trees

LEMMA EmptyIsTree == EmptyTree \in Trees
  BY DEF EmptyTree, Trees

\* A fetch step that writes the quarantine: what it means for the other parts.
LEMMA FetchStepKeeps ==
    ASSUME Inv, NEW p \in Procs, NEW c, Steps(p, c), ProcOK(p, c), QuarantineOK',
           proc[p].pc \in {"make", "copy"}, c.pc \in {"copy", "build"},
           c.key = proc[p].key, c.todo = proc[p].todo, c.found = proc[p].found, c.pinned = proc[p].pinned,
           UNCHANGED <<env, left, source, dirs, pins, newline, deny>>,
           DOMAIN quarantine' \subseteq Trees, \A k \in DOMAIN quarantine' : quarantine'[k] \in Trees,
           Remembers, was'.refused = was.refused
    PROVE  Inv'
<1>1. DiskOK' /\ left'.errors <= left.errors
  <2>1. DiskOK /\ left.errors \in Nat
    BY Here, ErrorsAreCounted
  <2>2. QED
    BY <2>1 DEF DiskOK
<1>2. KeepsInstalls(p, c) /\ KeepsDeny(p, c)
  BY DEF KeepsInstalls, KeepsDeny, Remembers
<1>3. KeepsRefused(p, c)
  BY DEF KeepsRefused, Remembers, Inv, RefusedOK
<1>4. KeepsShown(p, c)
  BY <1>1 DEF KeepsShown, Remembers, Inv, ShownOK
<1>5. QED
  BY <1>1, <1>2, <1>3, <1>4, TypesStep, InstallsKept, DenyKept, RefusedKept, ShownKept DEF Inv

LEMMA MakeCopyKeeps == ASSUME Inv, NEW p \in Procs, MakeCopy(p) PROVE Inv'
<1>1. /\ proc[p].pc = "make" /\ UNCHANGED <<env, left, source, dirs, pins, newline, deny, was>>
      /\ was' \in WasType /\ Grows /\ Remembers /\ was'.refused = was.refused /\ Paid
  BY NothingHappens DEF MakeCopy, Paid
<1>2. CASE proc[p].key \in DOMAIN quarantine
  BY <1>1, <1>2, RaisesKeeps DEF MakeCopy
<1>3. CASE proc[p].key \notin DOMAIN quarantine
  <2>1. PICK k : k = proc[p].key
    OBVIOUS
  <2>2. PICK c : c = [proc[p] EXCEPT !.pc = "copy", !.files = Files]
    OBVIOUS
  <2>3. /\ c \in ProcType /\ c.pc = "copy" /\ c.key = k /\ c.files = Files /\ c.dir = proc[p].dir
        /\ c.pinned = proc[p].pinned /\ c.todo = proc[p].todo /\ c.found = proc[p].found
    <3>1. proc[p] \in ProcType
      BY Here
    <3>2. c \in ProcType
      BY <2>2, <3>1 DEF ProcType
    <3>3. c.pc = "copy" /\ c.key = k /\ c.files = Files
      BY <2>1, <2>2, <3>1 DEF ProcType
    <3>4. /\ c.dir = proc[p].dir /\ c.pinned = proc[p].pinned
          /\ c.todo = proc[p].todo /\ c.found = proc[p].found
      BY <2>2, <3>1 DEF ProcType
    <3>5. QED
      BY <3>2, <3>3, <3>4
  <2>4. k \in Trees /\ ProcOK(p, c)
    BY <1>1, <2>1, <2>3, Here DEF ProcOK
  <2>5. Steps(p, c)
    BY <1>1, <1>3, <2>2 DEF Steps, MakeCopy
  <2>6. \A q \in Procs : proc'[q] = IF q = p THEN c ELSE proc[q]
    BY <2>5, StepIs DEF Inv
  <2>7. /\ DOMAIN quarantine' = DOMAIN quarantine \cup {k}
        /\ \A j \in DOMAIN quarantine' :
               quarantine'[j] = IF j \in DOMAIN quarantine THEN quarantine[j] ELSE EmptyTree
    BY <1>3, <2>1 DEF MakeCopy
  <2>8. /\ DOMAIN quarantine' \subseteq Trees
        /\ \A j \in DOMAIN quarantine' : quarantine'[j] \in Trees
    BY <2>4, <2>7, Here, EmptyIsTree DEF DiskOK
  <2>9. \A q \in Procs : proc[q].pc \in CopySteps => proc[q].key # k /\ proc[q].key \in DOMAIN quarantine
    BY <1>3, <2>1 DEF Inv, QuarantineOK
  <2>10. \A q \in Procs : proc'[q].pc \in CopySteps => proc'[q].key \in DOMAIN quarantine'
    BY <2>3, <2>6, <2>7, <2>9
  <2>11. \A q, r \in Procs :
             proc'[q].pc = "copy" /\ proc'[r].pc = "copy" /\ proc'[q].key = proc'[r].key => q = r
    BY <2>3, <2>6, <2>9 DEF Inv, QuarantineOK
  <2>12. ASSUME NEW j \in DOMAIN quarantine', NEW f \in Files
         PROVE  \/ j \in was'.damaged \/ quarantine'[j][f] = j[f]
                \/ \E q \in Procs : proc'[q].pc = "copy" /\ proc'[q].key = j /\ f \in proc'[q].files
    <3>1. CASE j = k
      BY <2>3, <2>6, <3>1
    <3>2. CASE j # k
      <4>1. j \in DOMAIN quarantine /\ quarantine'[j] = quarantine[j] /\ was' = was
        BY <1>1, <2>7, <3>2
      <4>2. ASSUME NEW q \in Procs, proc[q].pc = "copy", proc[q].key = j, f \in proc[q].files
            PROVE  proc'[q].pc = "copy" /\ proc'[q].key = j /\ f \in proc'[q].files
        BY <1>1, <2>6, <4>2
      <4>3. QED
        BY <4>1, <4>2 DEF Inv, QuarantineOK
    <3>3. QED
      BY <3>1, <3>2
  <2>13. \A q \in Procs : proc'[q].pc \in InspectedSteps /\ ~was'.shared =>
             {r \in Procs : proc'[r].pc = "copy" /\ proc'[r].key = proc'[q].key} = {}
             /\ quarantine'[proc'[q].key] = proc'[q].hash
    <3> SUFFICES ASSUME NEW q \in Procs, proc'[q].pc \in InspectedSteps, ~was'.shared
                 PROVE  /\ \A r \in Procs : ~(proc'[r].pc = "copy" /\ proc'[r].key = proc'[q].key)
                        /\ quarantine'[proc'[q].key] = proc'[q].hash
      OBVIOUS
    <3>1. q # p /\ proc'[q] = proc[q]
      BY <2>3, <2>6
    <3>2. CopiesInto(proc[q].key) = {} /\ quarantine[proc[q].key] = proc[q].hash /\ proc[q].key # k
          /\ proc[q].key \in DOMAIN quarantine
      BY <1>1, <2>9, <3>1 DEF Inv, QuarantineOK
    <3>3. QED
      BY <2>3, <2>6, <2>7, <3>1, <3>2 DEF CopiesInto
  <2>14. QuarantineOK'
    BY <2>10, <2>11, <2>12, <2>13 DEF QuarantineOK, CopiesInto
  <2>15. QED
    BY <1>1, <2>1, <2>3, <2>4, <2>5, <2>8, <2>14, FetchStepKeeps
<1>4. QED
  BY <1>2, <1>3

LEMMA CopyFileKeeps == ASSUME Inv, NEW p \in Procs, NEW f \in Files, CopyFile(p, f) PROVE Inv'
<1>1. PICK k : k = proc[p].key
  OBVIOUS
<1>2. PICK v : v = Origin(p)[f]
  OBVIOUS
<1>3. /\ proc[p].pc = "copy" /\ f \in proc[p].files /\ Origin(p) # Absent
      /\ UNCHANGED <<env, left, source, dirs, pins, newline, deny>>
      /\ quarantine' = [quarantine EXCEPT ![k][f] = v]
  BY <1>1, <1>2 DEF CopyFile
<1>4. k \in DOMAIN quarantine /\ quarantine[k] \in Trees /\ k \in Trees /\ v \in Versions \cup {Absent}
  <2>1. Origin(p) \in Trees
    BY <1>3, OriginIs
  <2>2. QED
    BY <1>1, <1>2, <1>3, <2>1, Here DEF Inv, QuarantineOK, DiskOK, Trees
<1>5. PICK c : c = [proc[p] EXCEPT !.files = @ \ {f}, !.pc = IF proc[p].files = {f} THEN "build" ELSE @]
  OBVIOUS
<1>6. /\ c \in ProcType /\ c.pc = (IF proc[p].files = {f} THEN "build" ELSE "copy") /\ c.key = k
      /\ c.files = proc[p].files \ {f} /\ c.dir = proc[p].dir
      /\ c.pinned = proc[p].pinned /\ c.todo = proc[p].todo /\ c.found = proc[p].found
  <2>1. PICK rest : rest = proc[p].files \ {f}
    OBVIOUS
  <2>2. PICK pc : pc = IF proc[p].files = {f} THEN "build" ELSE "copy"
    OBVIOUS
  <2>3. proc[p] \in ProcType /\ rest \in SUBSET Files
    BY <2>1, Here DEF ProcType
  <2>4. c = [proc[p] EXCEPT !.files = rest, !.pc = pc]
    BY <1>3, <1>5, <2>1, <2>2
  <2>5. pc \in {"build", "copy"}
    BY <2>2
  <2>6. /\ c \in ProcType /\ c.pc = pc /\ c.key = proc[p].key /\ c.files = rest /\ c.dir = proc[p].dir
        /\ c.pinned = proc[p].pinned /\ c.todo = proc[p].todo /\ c.found = proc[p].found
    BY <2>3, <2>4, <2>5 DEF ProcType
  <2>7. QED
    BY <1>1, <2>1, <2>2, <2>6
<1>7. ProcOK(p, c)
  BY <1>3, <1>4, <1>6, Here DEF ProcOK
<1>8. PICK damaged : damaged = IF v = k[f] THEN was.damaged ELSE was.damaged \cup {k}
  OBVIOUS
<1>9. /\ was' \in WasType /\ was'.damaged = damaged /\ Grows /\ Remembers /\ was'.refused = was.refused
      /\ was'.shared = was.shared
  <2>1. damaged \in SUBSET Trees /\ was.damaged \subseteq damaged
    BY <1>4, <1>8, Here DEF WasType
  <2>2. was' = [was EXCEPT !.damaged = damaged]
    BY <1>1, <1>2, <1>8 DEF CopyFile
  <2>3. QED
    BY <2>1, <2>2, Here DEF WasType, Grows, Remembers
<1>10. Steps(p, c)
  <2>1. proc' = [proc EXCEPT ![p] = c]
    BY <1>5 DEF CopyFile
  <2>2. QED
    BY <1>3, <1>9, <2>1 DEF Steps
<1>11. \A q \in Procs : proc'[q] = IF q = p THEN c ELSE proc[q]
  BY <1>10, StepIs DEF Inv
<1>12. PICK u : u = [quarantine[k] EXCEPT ![f] = v]
  OBVIOUS
<1>13. u \in Trees /\ \A g \in Files : u[g] = IF g = f THEN v ELSE quarantine[k][g]
  BY <1>4, <1>12 DEF Trees
<1>14. /\ DOMAIN quarantine' = DOMAIN quarantine
       /\ \A j \in DOMAIN quarantine : quarantine'[j] = IF j = k THEN u ELSE quarantine[j]
  BY <1>3, <1>4, <1>12
<1>15. /\ DOMAIN quarantine' \subseteq Trees
       /\ \A j \in DOMAIN quarantine' : quarantine'[j] \in Trees
  BY <1>13, <1>14, Here DEF DiskOK
<1>16. \A q \in Procs : proc'[q].pc \in CopySteps => proc'[q].key \in DOMAIN quarantine'
  BY <1>4, <1>6, <1>11, <1>14 DEF Inv, QuarantineOK
<1>17. \A q, r \in Procs :
           proc'[q].pc = "copy" /\ proc'[r].pc = "copy" /\ proc'[q].key = proc'[r].key => q = r
  BY <1>1, <1>3, <1>6, <1>11 DEF Inv, QuarantineOK
<1>18. ASSUME NEW j \in DOMAIN quarantine', NEW g \in Files
       PROVE  \/ j \in was'.damaged \/ quarantine'[j][g] = j[g]
              \/ \E q \in Procs : proc'[q].pc = "copy" /\ proc'[q].key = j /\ g \in proc'[q].files
  <2>1. CASE j = k /\ g = f
    BY <1>4, <1>8, <1>9, <1>13, <1>14, <2>1
  <2>2. CASE j = k /\ g # f
    <3>1. quarantine'[j][g] = quarantine[k][g]
      BY <1>4, <1>13, <1>14, <2>2
    <3>2. ASSUME NEW q \in Procs, proc[q].pc = "copy", proc[q].key = k, g \in proc[q].files
          PROVE  proc'[q].pc = "copy" /\ proc'[q].key = j /\ g \in proc'[q].files
      <4>1. q = p
        BY <1>1, <1>3, <3>2 DEF Inv, QuarantineOK
      <4>2. proc[p].files # {f}
        BY <2>2, <3>2, <4>1
      <4>3. QED
        BY <1>6, <1>11, <2>2, <3>2, <4>1, <4>2
    <3>3. k \in was.damaged => k \in was'.damaged
      BY <1>8, <1>9
    <3>4. QED
      BY <1>4, <2>2, <3>1, <3>2, <3>3 DEF Inv, QuarantineOK
  <2>3. CASE j # k
    <3>1. j \in DOMAIN quarantine /\ quarantine'[j] = quarantine[j]
      BY <1>14, <2>3
    <3>2. ASSUME NEW q \in Procs, proc[q].pc = "copy", proc[q].key = j, g \in proc[q].files
          PROVE  proc'[q].pc = "copy" /\ proc'[q].key = j /\ g \in proc'[q].files
      BY <1>1, <1>11, <2>3, <3>2
    <3>3. j \in was.damaged => j \in was'.damaged
      BY <1>8, <1>9
    <3>4. QED
      BY <3>1, <3>2, <3>3 DEF Inv, QuarantineOK
  <2>4. QED
    BY <2>1, <2>2, <2>3
<1>19. \A q \in Procs : proc'[q].pc \in InspectedSteps /\ ~was'.shared =>
           {r \in Procs : proc'[r].pc = "copy" /\ proc'[r].key = proc'[q].key} = {}
           /\ quarantine'[proc'[q].key] = proc'[q].hash
  <2> SUFFICES ASSUME NEW q \in Procs, proc'[q].pc \in InspectedSteps, ~was'.shared
               PROVE  /\ \A r \in Procs : ~(proc'[r].pc = "copy" /\ proc'[r].key = proc'[q].key)
                      /\ quarantine'[proc'[q].key] = proc'[q].hash
    OBVIOUS
  <2>1. q # p /\ proc'[q] = proc[q]
    BY <1>6, <1>11
  <2>2. CopiesInto(proc[q].key) = {} /\ quarantine[proc[q].key] = proc[q].hash
        /\ proc[q].key \in DOMAIN quarantine
    BY <1>9, <2>1 DEF Inv, QuarantineOK
  <2>3. proc[q].key # k
    BY <1>1, <1>3, <2>2 DEF CopiesInto
  <2>4. QED
    BY <1>6, <1>11, <1>14, <2>1, <2>2, <2>3 DEF CopiesInto
<1>20. QuarantineOK'
  BY <1>16, <1>17, <1>18, <1>19 DEF QuarantineOK, CopiesInto
<1>21. QED
  BY <1>1, <1>3, <1>6, <1>7, <1>9, <1>10, <1>15, <1>20, FetchStepKeeps

-----------------------------------------------------------------------------
(* The steps that write an install directory, and the pin.                 *)

\* A step of an add that installs: what it means for the other parts.
LEMMA InstallStepKeeps ==
    ASSUME Inv, NEW p \in Adders, NEW c, Steps(p, c), ProcOK(p, c), DiskOK', InstallOK',
           proc[p].pc \in {"mkdir", "install", "pin"}, c.pc \in {"install", "pin", "idle"},
           c.pc # "idle" => c.key = proc[p].key /\ c.hash = proc[p].hash,
           UNCHANGED <<env, left, source, quarantine, deny>>,
           was'.written = was.written, was'.refused = was.refused,
           \A a \in Auditors : was'.shown[a] \subseteq was.shown[a],
           \A a \in Auditors : \A d \in was'.shown[a] : proc[a].pc # "idle" => dirs'[d] = dirs[d]
    PROVE  Inv'
<1>1. p \in Procs /\ p \notin Auditors
  BY ConstantsAssumption DEF Procs
<1>2. left'.errors <= left.errors
  BY <1>1, Here, ErrorsAreCounted
<1>3. KeepsCopies(p, c)
  BY <1>1 DEF KeepsCopies, Inv, QuarantineOK, Steps, Grows
<1>4. KeepsDeny(p, c)
  BY DEF KeepsDeny
<1>5. KeepsRefused(p, c)
  BY DEF KeepsRefused, Inv, RefusedOK, Steps, Grows
<1>6. KeepsShown(p, c)
  BY <1>1, <1>2 DEF KeepsShown
<1>7. QED
  BY <1>1, <1>3, <1>4, <1>5, <1>6, TypesStep, CopiesKept, DenyKept, RefusedKept, ShownKept DEF Inv

LEMMA MakeDirKeeps == ASSUME Inv, NEW p \in Procs, MakeDir(p) PROVE Inv'
<1>1. PICK d : d = proc[p].dir
  OBVIOUS
<1>2. proc[p].pc = "mkdir" /\ UNCHANGED <<env, left, source, quarantine, pins, newline, deny>>
  BY DEF MakeDir
<1>3. p \in Adders /\ p \notin Auditors /\ d \in Dirs
  BY <1>1, <1>2, Here DEF ProcOK
<1>4. CASE dirs[d] # Absent
  <2>1. Ends(p, ExitError) /\ UNCHANGED <<dirs, was>> /\ ExitError \in 0 .. 4 /\ Paid
    BY <1>1, <1>2, <1>4 DEF MakeDir, ExitError, Paid
  <2>2. was' \in WasType /\ Grows /\ Remembers /\ was'.refused = was.refused
    BY <2>1, NothingHappens
  <2>3. QED
    BY <1>2, <1>3, <2>1, <2>2, EndsKeeps DEF Remembers
<1>5. CASE dirs[d] = Absent
  <2>1. PICK c : c = [proc[p] EXCEPT !.pc = "install", !.files = Files]
    OBVIOUS
  <2>2. /\ c \in ProcType /\ c.pc = "install" /\ c.dir = d /\ c.key = proc[p].key
        /\ c.hash = proc[p].hash /\ c.files = Files
    <3>1. proc[p] \in ProcType
      BY Here
    <3>2. c \in ProcType
      BY <2>1, <3>1 DEF ProcType
    <3>3. c.pc = "install" /\ c.dir = proc[p].dir /\ c.key = proc[p].key
          /\ c.hash = proc[p].hash /\ c.files = Files
      BY <2>1, <3>1 DEF ProcType
    <3>4. QED
      BY <1>1, <3>2, <3>3
  <2>3. ProcOK(p, c)
    BY <1>2, <1>3, <2>2, Here DEF ProcOK
  <2>4. PICK n : n = IF InstallsInto(d) = {} THEN "installing" ELSE "changed"
    OBVIOUS
  <2>5. PICK s : s = [was.state EXCEPT ![d] = n]
    OBVIOUS
  <2>6. s \in [Dirs -> States] /\ \A e \in Dirs : s[e] = IF e = d THEN n ELSE was.state[e]
    <3>1. was.state \in [Dirs -> States] /\ n \in States
      BY <2>4, Here DEF WasType, States
    <3>2. QED
      BY <2>5, <3>1
  <2>7. /\ proc' = [proc EXCEPT ![p] = c] /\ dirs' = [dirs EXCEPT ![d] = EmptyTree]
        /\ was' = [was EXCEPT !.state = s]
    BY <1>1, <1>5, <2>1, <2>4, <2>5 DEF MakeDir
  <2>8. /\ was' \in WasType /\ was'.state = s /\ was'.blamed = was.blamed /\ was'.written = was.written
        /\ was'.shown = was.shown /\ was'.refused = was.refused /\ was'.shared = was.shared
        /\ was'.torn = was.torn /\ Grows
    BY <2>6, <2>7, Here DEF WasType, Grows
  <2>9. Steps(p, c)
    BY <1>2, <2>7, <2>8 DEF Steps
  <2>10. \A q \in Procs : proc'[q] = IF q = p THEN c ELSE proc[q]
    BY <2>9, StepIs DEF Inv
  <2>11. /\ dirs' \in [Dirs -> Trees \cup {Absent}]
         /\ \A e \in Dirs : dirs'[e] = IF e = d THEN EmptyTree ELSE dirs[e]
         /\ EmptyTree # Absent
    BY <1>3, <2>7, Here, EmptyIsTree, ConstantsAssumption DEF DiskOK
  <2>12. DiskOK'
    BY <1>2, <2>11, Here DEF DiskOK
  <2>13. \A e \in Dirs : InstallsInto(e)' = InstallsInto(e) \cup (IF e = d THEN {p} ELSE {})
    BY <1>2, <2>2, <2>10 DEF InstallsInto
  <2>14. InstallOK'
    <3>1. \A e : LatestPin(e)' = LatestPin(e)
      BY <1>2 DEF LatestPin
    <3>2. \A t : Passes(t)' = Passes(t)
      BY <1>2, PassesStays
    <3>3. newline' \/ was'.torn
      BY <1>2, <2>8 DEF Inv, InstallOK
    <3>4. (\A q \in Procs : proc[q].pc \in AddSteps => was.shared \/ Passes(proc[q].hash))'
      BY <1>2, <2>2, <2>8, <2>10, <3>2 DEF Inv, InstallOK
    <3>5. ASSUME NEW e \in Dirs, was'.state[e] = "installing"
          PROVE  /\ dirs'[e] # Absent
                 /\ \E q \in Procs :
                      /\ InstallsInto(e)' = {q}
                      /\ \A f \in Files : f \in proc'[q].files \/ was'.shared \/ dirs'[e][f] = proc'[q].hash[f]
      <4>1. CASE e = d
        BY <1>3, <2>2, <2>4, <2>6, <2>8, <2>10, <2>11, <2>13, <3>5, <4>1
      <4>2. CASE e # d
        <5>1. was.state[e] = "installing" /\ dirs'[e] = dirs[e] /\ InstallsInto(e)' = InstallsInto(e)
          BY <2>6, <2>8, <2>11, <2>13, <3>5, <4>2
        <5>2. dirs[e] # Absent
          BY <5>1 DEF Inv, InstallOK
        <5>3. PICK q \in Procs :
                /\ InstallsInto(e) = {q}
                /\ \A f \in Files : f \in proc[q].files \/ was.shared \/ dirs[e][f] = proc[q].hash[f]
          BY <5>1 DEF Inv, InstallOK
        <5>4. q # p
          BY <1>2, <5>3 DEF InstallsInto
        <5>5. QED
          BY <2>8, <2>10, <5>1, <5>2, <5>3, <5>4
      <4>3. QED
        BY <4>1, <4>2
    <3>6. \A q \in Procs : proc'[q].pc = "pin" => proc'[q].files = {}
      BY <2>2, <2>10 DEF Inv, InstallOK
    <3>7. \A e \in Dirs : was'.state[e] = "installed" =>
              e # d /\ was.state[e] = "installed" /\ dirs'[e] = dirs[e]
              /\ dirs'[e] # Absent /\ InstallsInto(e)' = {}
      BY <2>4, <2>6, <2>8, <2>11, <2>13 DEF Inv, InstallOK
    <3>8. InstalledIsWhatPassed'
      <4>1. ASSUME NEW e \in Dirs, was'.state[e] = "installed", ~was'.shared, ~was'.torn
            PROVE  LatestPin(e)' = dirs'[e] /\ (Passes(dirs[e]))'
        BY <2>8, <3>1, <3>2, <3>7, <4>1 DEF Inv, InstallOK, InstalledIsWhatPassed, Passes
      <4>2. QED
        BY <4>1 DEF InstalledIsWhatPassed, Passes
    <3>9. UnpinnedHasACause'
      <4>1. ASSUME NEW e \in Dirs, dirs'[e] # Absent, InstallsInto(e)' = {}, LatestPin(e)' = Absent
            PROVE  was'.state[e] = "part" \/ was'.torn
        BY <2>6, <2>8, <2>11, <2>13, <3>1, <4>1 DEF Inv, InstallOK, UnpinnedHasACause
      <4>2. QED
        BY <4>1 DEF UnpinnedHasACause
    <3>10. BlameHasACause'
      BY <2>8 DEF Inv, InstallOK, BlameHasACause
    <3>11. QED
      BY <3>3, <3>4, <3>5, <3>6, <3>7, <3>8, <3>9, <3>10 DEF InstallOK
  <2>15. \A a \in Auditors : \A e \in was'.shown[a] : proc[a].pc # "idle" => dirs'[e] = dirs[e]
    <3> SUFFICES ASSUME NEW a \in Auditors, NEW e \in was.shown[a], proc[a].pc # "idle"
                 PROVE  dirs'[e] = dirs[e]
      BY <2>8
    <3>1. dirs[e] # Absent /\ e \in Dirs
      BY Here DEF Inv, ShownOK, WasType
    <3>2. QED
      BY <1>5, <2>11, <3>1
  <2>16. QED
    BY <1>2, <1>3, <2>2, <2>3, <2>8, <2>9, <2>12, <2>14, <2>15, InstallStepKeeps
<1>6. QED
  BY <1>4, <1>5

LEMMA UnshownIs ==
    ASSUME Inv, NEW d
    PROVE  /\ Unshown(d) \in [Auditors -> SUBSET Dirs]
           /\ \A a \in Auditors : Unshown(d)[a] = was.shown[a] \ {d}
<1>1. was.shown \in [Auditors -> SUBSET Dirs]
  BY DEF Inv, TypesOK, WasType
<1>2. QED
  BY <1>1 DEF Unshown

LEMMA InstallFileKeeps == ASSUME Inv, NEW p \in Procs, NEW f \in Files, InstallFile(p, f) PROVE Inv'
<1>1. PICK d : d = proc[p].dir
  OBVIOUS
<1>2. PICK k : k = proc[p].key
  OBVIOUS
<1>3. /\ proc[p].pc = "install" /\ UNCHANGED <<env, left, source, quarantine, pins, newline, deny>>
      /\ f \in proc[p].files /\ dirs[d] # Absent
      /\ dirs' = [dirs EXCEPT ![d][f] = quarantine[k][f]]
  BY <1>1, <1>2 DEF InstallFile
<1>4. p \in Adders /\ p \notin Auditors /\ d \in Dirs
  BY <1>1, <1>3, Here DEF ProcOK
<1>5. k \in DOMAIN quarantine /\ quarantine[k] \in Trees /\ dirs[d] \in Trees
  <2>1. k \in DOMAIN quarantine
    BY <1>2, <1>3 DEF Inv, QuarantineOK
  <2>2. dirs[d] \in Trees \cup {Absent} /\ \A j \in DOMAIN quarantine : quarantine[j] \in Trees
    BY <1>4, Here DEF DiskOK
  <2>3. QED
    BY <1>3, <2>1, <2>2
<1>6. PICK c : c = [proc[p] EXCEPT !.files = @ \ {f}, !.pc = IF proc[p].files = {f} THEN "pin" ELSE @]
  OBVIOUS
<1>7. /\ c \in ProcType /\ c.pc = (IF proc[p].files = {f} THEN "pin" ELSE "install") /\ c.key = k
      /\ c.files = proc[p].files \ {f} /\ c.dir = d /\ c.hash = proc[p].hash
  <2>1. PICK rest : rest = proc[p].files \ {f}
    OBVIOUS
  <2>2. PICK pc : pc = IF proc[p].files = {f} THEN "pin" ELSE "install"
    OBVIOUS
  <2>3. proc[p] \in ProcType /\ rest \in SUBSET Files
    BY <2>1, Here DEF ProcType
  <2>4. c = [proc[p] EXCEPT !.files = rest, !.pc = pc]
    BY <1>3, <1>6, <2>1, <2>2
  <2>5. pc \in {"install", "pin"}
    BY <2>2
  <2>6. /\ c \in ProcType /\ c.pc = pc /\ c.key = proc[p].key /\ c.files = rest /\ c.dir = proc[p].dir
        /\ c.hash = proc[p].hash
    BY <2>3, <2>4, <2>5 DEF ProcType
  <2>7. QED
    BY <1>1, <1>2, <2>1, <2>2, <2>6
<1>8. ProcOK(p, c)
  <2>1. c.pc \in {"install", "pin"}
    BY <1>7
  <2>2. c.key \in Trees /\ c.hash \in Trees
    BY <1>2, <1>3, <1>7, Here DEF ProcOK
  <2>3. QED
    BY <1>4, <1>7, <2>1, <2>2 DEF ProcOK
<1>9. PICK b \in BOOLEAN : b = (was.shared \/ Sharing(p))
  BY Here DEF WasType
<1>10. PICK shown : shown = Unshown(d)
  OBVIOUS
<1>11. shown \in [Auditors -> SUBSET Dirs] /\ \A a \in Auditors : shown[a] = was.shown[a] \ {d}
  BY <1>10, UnshownIs
<1>12. proc' = [proc EXCEPT ![p] = c] /\ was' = [was EXCEPT !.shared = b, !.shown = shown]
  BY <1>1, <1>6, <1>9, <1>10 DEF InstallFile
<1>13. /\ was' \in WasType /\ was'.state = was.state /\ was'.blamed = was.blamed /\ was'.written = was.written
       /\ was'.shown = shown /\ was'.refused = was.refused /\ was'.shared = b
       /\ was'.torn = was.torn /\ was'.blind = was.blind /\ was'.lost = was.lost
       /\ was'.damaged = was.damaged
  BY <1>11, <1>12, Here DEF WasType
<1>14. Grows
  BY <1>9, <1>13 DEF Grows
<1>15. Steps(p, c)
  BY <1>3, <1>12, <1>13, <1>14 DEF Steps
<1>16. \A q \in Procs : proc'[q] = IF q = p THEN c ELSE proc[q]
  BY <1>15, StepIs DEF Inv
<1>17. PICK u : u = [dirs[d] EXCEPT ![f] = quarantine[k][f]]
  OBVIOUS
<1>18. u \in Trees /\ u # Absent /\ \A g \in Files : u[g] = IF g = f THEN quarantine[k][f] ELSE dirs[d][g]
  <2>1. quarantine[k][f] \in Versions \cup {Absent}
    BY <1>5 DEF Trees
  <2>2. u \in Trees /\ \A g \in Files : u[g] = IF g = f THEN quarantine[k][f] ELSE dirs[d][g]
    BY <1>5, <1>17, <2>1 DEF Trees
  <2>3. QED
    BY <2>2, ConstantsAssumption
<1>19. /\ dirs' \in [Dirs -> Trees \cup {Absent}]
       /\ \A e \in Dirs : dirs'[e] = IF e = d THEN u ELSE dirs[e]
  <2>1. dirs \in [Dirs -> Trees \cup {Absent}] /\ dirs' = [dirs EXCEPT ![d] = u]
    BY <1>3, <1>17, Here DEF DiskOK
  <2>2. QED
    BY <1>4, <1>18, <2>1
<1>20. DiskOK'
  BY <1>3, <1>19, Here DEF DiskOK
<1>21. \A e \in Dirs : InstallsInto(e)' = InstallsInto(e)
  BY <1>1, <1>3, <1>7, <1>16 DEF InstallsInto
<1>22. p \in InstallsInto(d)
  BY <1>1, <1>3 DEF InstallsInto
<1>23. InstallOK'
  <2>1. \A e : LatestPin(e)' = LatestPin(e)
    BY <1>3 DEF LatestPin
  <2>2. \A t : Passes(t)' = Passes(t)
    BY <1>3, PassesStays
  <2>3. newline' \/ was'.torn
    BY <1>3, <1>13 DEF Inv, InstallOK
  <2>4. (\A q \in Procs : proc[q].pc \in AddSteps => was.shared \/ Passes(proc[q].hash))'
    BY <1>3, <1>7, <1>9, <1>13, <1>16, <2>2 DEF Inv, InstallOK
  <2>5. ASSUME NEW e \in Dirs, was'.state[e] = "installing"
        PROVE  /\ dirs'[e] # Absent
               /\ \E q \in Procs :
                    /\ InstallsInto(e)' = {q}
                    /\ \A g \in Files : g \in proc'[q].files \/ was'.shared \/ dirs'[e][g] = proc'[q].hash[g]
    <3>1. dirs[e] # Absent
      BY <1>13, <2>5 DEF Inv, InstallOK
    <3>2. PICK q \in Procs :
              /\ InstallsInto(e) = {q}
              /\ \A g \in Files : g \in proc[q].files \/ was.shared \/ dirs[e][g] = proc[q].hash[g]
      BY <1>13, <2>5 DEF Inv, InstallOK
    <3>3. was.shared => was'.shared
      BY <1>14 DEF Grows
    <3>4. CASE e = d
      <4>1. q = p
        BY <1>22, <3>2, <3>4
      <4>2. ~was'.shared => quarantine[k] = proc[p].hash
        BY <1>2, <1>3, <3>3 DEF Inv, QuarantineOK
      <4>3. \A g \in Files : g \in c.files \/ was'.shared \/ dirs'[d][g] = c.hash[g]
        BY <1>4, <1>7, <1>18, <1>19, <3>2, <3>3, <3>4, <4>1, <4>2
      <4>4. QED
        BY <1>16, <1>18, <1>19, <1>21, <3>2, <3>4, <4>1, <4>3
    <3>5. CASE e # d
      <4>1. q # p
        BY <1>1, <3>2, <3>5 DEF InstallsInto
      <4>2. QED
        BY <1>16, <1>19, <1>21, <3>1, <3>2, <3>3, <3>5, <4>1
    <3>6. QED
      BY <3>4, <3>5
  <2>6. \A q \in Procs : proc'[q].pc = "pin" => proc'[q].files = {}
    BY <1>7, <1>16 DEF Inv, InstallOK
  <2>7. \A e \in Dirs : was'.state[e] = "installed" =>
            e # d /\ was.state[e] = "installed" /\ dirs'[e] = dirs[e]
            /\ dirs'[e] # Absent /\ InstallsInto(e)' = {}
    BY <1>13, <1>19, <1>21, <1>22 DEF Inv, InstallOK
  <2>8. InstalledIsWhatPassed'
    <3>1. ASSUME NEW e \in Dirs, was'.state[e] = "installed", ~was'.shared, ~was'.torn
          PROVE  LatestPin(e)' = dirs'[e] /\ (Passes(dirs[e]))'
      <4>1. ~was.shared /\ ~was.torn
        BY <1>14, <3>1 DEF Grows
      <4>2. QED
        BY <2>1, <2>2, <2>7, <3>1, <4>1 DEF Inv, InstallOK, InstalledIsWhatPassed, Passes
    <3>2. QED
      BY <3>1 DEF InstalledIsWhatPassed, Passes
  <2>9. UnpinnedHasACause'
    <3>1. ASSUME NEW e \in Dirs, dirs'[e] # Absent, InstallsInto(e)' = {}, LatestPin(e)' = Absent
          PROVE  was'.state[e] = "part" \/ was'.torn
      BY <1>13, <1>19, <1>21, <1>22, <2>1, <3>1 DEF Inv, InstallOK, UnpinnedHasACause
    <3>2. QED
      BY <3>1 DEF UnpinnedHasACause
  <2>10. BlameHasACause'
    BY <1>13, <1>14 DEF Inv, InstallOK, BlameHasACause, Grows
  <2>11. QED
    BY <2>3, <2>4, <2>5, <2>6, <2>7, <2>8, <2>9, <2>10 DEF InstallOK
<1>24. \A a \in Auditors : was'.shown[a] \subseteq was.shown[a] /\ d \notin was'.shown[a]
  BY <1>11, <1>13
<1>25. \A a \in Auditors : \A e \in was'.shown[a] : proc[a].pc # "idle" => dirs'[e] = dirs[e]
  BY <1>13, <1>19, <1>24 DEF WasType
<1>26. QED
  BY <1>2, <1>3, <1>4, <1>7, <1>8, <1>13, <1>15, <1>20, <1>23, <1>24, <1>25, InstallStepKeeps

LEMMA PinKeeps == ASSUME Inv, NEW p \in Procs, Pin(p) PROVE Inv'
<1>1. PICK d : d = proc[p].dir
  OBVIOUS
<1>2. PICK h : h = proc[p].hash
  OBVIOUS
<1>3. /\ proc[p].pc = "pin" /\ UNCHANGED <<env, left, source, quarantine, dirs, deny>>
      /\ pins' = Appended(d, h, TRUE) /\ newline' = TRUE /\ Ends(p, 0)
  BY <1>1, <1>2 DEF Pin
<1>4. p \in Adders /\ p \notin Auditors /\ d \in Dirs /\ h \in Trees /\ h # Absent
  BY <1>1, <1>2, <1>3, Here, ConstantsAssumption DEF ProcOK
<1>5. PICK c : c = Idle(proc[p].jobs, 0)
  OBVIOUS
<1>6. c \in ProcType /\ c.pc = "idle"
  BY <1>5, IdleIs DEF Inv, TypesOK, ProcType
<1>7. ProcOK(p, c)
  BY <1>6 DEF ProcOK
<1>8. PICK n : n = IF was.state[d] = "installing" THEN "installed" ELSE was.state[d]
  OBVIOUS
<1>9. PICK s : s = [was.state EXCEPT ![d] = n]
  OBVIOUS
<1>10. s \in [Dirs -> States] /\ \A e \in Dirs : s[e] = IF e = d THEN n ELSE was.state[e]
  <2>1. was.state \in [Dirs -> States] /\ n \in States
    BY <1>4, <1>8, Here DEF WasType, States
  <2>2. QED
    BY <1>9, <2>1
<1>11. PICK b \in BOOLEAN : b = (was.torn \/ ~newline)
  BY Here DEF WasType
<1>12. PICK shown : shown = Unshown(d)
  OBVIOUS
<1>13. shown \in [Auditors -> SUBSET Dirs] /\ \A a \in Auditors : shown[a] = was.shown[a] \ {d}
  BY <1>12, UnshownIs
<1>14. was' = [was EXCEPT !.state = s, !.torn = b, !.shown = shown]
  BY <1>1, <1>8, <1>9, <1>11, <1>12 DEF Pin
<1>15. /\ was' \in WasType /\ was'.state = s /\ was'.blamed = was.blamed /\ was'.written = was.written
       /\ was'.shown = shown /\ was'.refused = was.refused /\ was'.shared = was.shared
       /\ was'.torn = b /\ was'.blind = was.blind /\ was'.lost = was.lost
       /\ was'.damaged = was.damaged
  BY <1>10, <1>13, <1>14, Here DEF WasType
<1>16. Grows
  BY <1>11, <1>15 DEF Grows
<1>17. Steps(p, c)
  BY <1>3, <1>5, <1>15, <1>16 DEF Steps, Ends
<1>18. \A q \in Procs : proc'[q] = IF q = p THEN c ELSE proc[q]
  BY <1>17, StepIs DEF Inv
<1>19. DiskOK'
  <2>1. pins' \in Seq(PinType) /\ Len(pins') > 0
    BY <1>3, <1>4, Here, AppendedIs
  <2>2. QED
    BY <1>3, <2>1, Here DEF DiskOK
<1>20. \A e \in Dirs : InstallsInto(e)' = InstallsInto(e) \ {p}
  BY <1>6, <1>18 DEF InstallsInto
<1>21. p \in InstallsInto(d)
  BY <1>1, <1>3 DEF InstallsInto
<1>22. ~was'.torn => \A e : LatestPin(e)' = IF e = d THEN h ELSE LatestPin(e)
  <2>1. ASSUME ~was'.torn
        PROVE  pins' = Append(pins, [dir |-> d, hash |-> h, whole |-> TRUE])
    BY <1>3, <1>11, <1>15, <2>1 DEF Appended
  <2>2. QED
    BY <1>4, <1>19, <2>1, Here, PinIsLatest
<1>23. ASSUME NEW e \in Dirs, was.state[e] = "installing"
       PROVE  /\ dirs[e] # Absent
              /\ \E q \in Procs :
                   /\ InstallsInto(e) = {q}
                   /\ \A f \in Files : f \in proc[q].files \/ was.shared \/ dirs[e][f] = proc[q].hash[f]
  BY <1>23 DEF Inv, InstallOK
<1>24. was.state[d] # "installed"
  BY <1>4, <1>21 DEF Inv, InstallOK
<1>25. InstallOK'
  <2>2. \A t : Passes(t)' = Passes(t)
    BY <1>3, PassesStays
  <2>4. (\A q \in Procs : proc[q].pc \in AddSteps => was.shared \/ Passes(proc[q].hash))'
    BY <1>3, <1>6, <1>15, <1>18, <2>2 DEF Inv, InstallOK
  <2>5. ASSUME NEW e \in Dirs, was'.state[e] = "installing"
        PROVE  /\ dirs'[e] # Absent
               /\ \E q \in Procs :
                    /\ InstallsInto(e)' = {q}
                    /\ \A f \in Files : f \in proc'[q].files \/ was'.shared \/ dirs'[e][f] = proc'[q].hash[f]
    <3>1. e # d /\ was.state[e] = "installing"
      BY <1>8, <1>10, <1>15, <2>5
    <3>2. PICK q \in Procs :
              /\ InstallsInto(e) = {q}
              /\ \A f \in Files : f \in proc[q].files \/ was.shared \/ dirs[e][f] = proc[q].hash[f]
      BY <1>23, <3>1
    <3>3. q # p
      BY <1>1, <3>1, <3>2 DEF InstallsInto
    <3>4. QED
      BY <1>3, <1>15, <1>18, <1>20, <1>23, <3>1, <3>2, <3>3
  <2>6. \A q \in Procs : proc'[q].pc = "pin" => proc'[q].files = {}
    BY <1>6, <1>18 DEF Inv, InstallOK
  <2>7. \A e \in Dirs : was'.state[e] = "installed" => dirs'[e] # Absent /\ InstallsInto(e)' = {}
    <3> SUFFICES ASSUME NEW e \in Dirs, was'.state[e] = "installed"
                 PROVE  dirs'[e] # Absent /\ InstallsInto(e)' = {}
      OBVIOUS
    <3>1. CASE e = d
      <4>1. was.state[d] = "installing"
        BY <1>8, <1>10, <1>15, <1>24, <3>1
      <4>2. dirs[d] # Absent /\ \E q \in Procs : InstallsInto(d) = {q}
        BY <1>4, <1>23, <4>1
      <4>3. QED
        BY <1>3, <1>4, <1>20, <1>21, <3>1, <4>2
    <3>2. CASE e # d
      BY <1>3, <1>10, <1>15, <1>20, <3>2 DEF Inv, InstallOK
    <3>3. QED
      BY <3>1, <3>2
  <2>8. InstalledIsWhatPassed'
    <3>1. ASSUME NEW e \in Dirs, was'.state[e] = "installed", ~was'.shared, ~was'.torn
          PROVE  LatestPin(e)' = dirs'[e] /\ (Passes(dirs[e]))'
      <4>1. CASE e = d
        <5>1. was.state[d] = "installing"
          BY <1>8, <1>10, <1>15, <1>24, <3>1, <4>1
        <5>2. proc[p].files = {} /\ Passes(h)
          BY <1>2, <1>3, <1>15, <3>1 DEF Inv, InstallOK
        <5>3. PICK q \in Procs :
                  /\ InstallsInto(d) = {q}
                  /\ \A f \in Files : f \in proc[q].files \/ was.shared \/ dirs[d][f] = proc[q].hash[f]
          BY <1>4, <1>23, <5>1
        <5>4. q = p
          BY <1>21, <5>3
        <5>5. \A f \in Files : dirs[d][f] = h[f]
          BY <1>2, <1>15, <3>1, <5>2, <5>3, <5>4
        <5>6. dirs[d] \in Trees
          BY <1>4, <1>23, <5>1, Here DEF DiskOK
        <5>7. dirs[d] = h
          BY <1>4, <5>5, <5>6 DEF Trees
        <5>8. QED
          BY <1>3, <1>22, <2>2, <3>1, <4>1, <5>2, <5>7
      <4>2. CASE e # d
        <5>1. was.state[e] = "installed" /\ ~was.shared /\ ~was.torn
          BY <1>10, <1>11, <1>15, <3>1, <4>2
        <5>2. LatestPin(e) = dirs[e] /\ Passes(dirs[e])
          BY <5>1 DEF Inv, InstallOK, InstalledIsWhatPassed, Passes
        <5>3. QED
          BY <1>3, <1>22, <2>2, <3>1, <4>2, <5>2
      <4>3. QED
        BY <4>1, <4>2
    <3>2. QED
      BY <3>1 DEF InstalledIsWhatPassed, Passes
  <2>9. UnpinnedHasACause'
    <3>1. ASSUME NEW e \in Dirs, dirs'[e] # Absent, InstallsInto(e)' = {}, LatestPin(e)' = Absent,
                 ~was'.torn
          PROVE  was'.state[e] = "part"
      <4>1. e # d /\ LatestPin(e) = Absent
        BY <1>4, <1>22, <3>1
      <4>2. InstallsInto(e) = {}
        BY <1>1, <1>20, <3>1, <4>1 DEF InstallsInto
      <4>3. was.state[e] = "part"
        BY <1>3, <1>11, <1>15, <3>1, <4>1, <4>2 DEF Inv, InstallOK, UnpinnedHasACause
      <4>4. QED
        BY <1>10, <1>15, <4>1, <4>3
    <3>2. QED
      BY <3>1 DEF UnpinnedHasACause
  <2>10. BlameHasACause'
    BY <1>15, <1>16 DEF Inv, InstallOK, BlameHasACause, Grows
  <2>11. QED
    BY <1>3, <2>4, <2>5, <2>6, <2>7, <2>8, <2>9, <2>10 DEF InstallOK
<1>26. \A a \in Auditors : was'.shown[a] \subseteq was.shown[a]
  BY <1>13, <1>15
<1>27. QED
  BY <1>3, <1>4, <1>6, <1>7, <1>15, <1>17, <1>19, <1>25, <1>26, InstallStepKeeps

-----------------------------------------------------------------------------
(* The author, the artifact and the owner act.                             *)

LEMMA InstallRests ==
    ASSUME InstallOK, UNCHANGED <<env, dirs, pins, newline, proc, was>>
    PROVE  InstallOK'
<1>1. \A d : LatestPin(d)' = LatestPin(d) /\ InstallsInto(d)' = InstallsInto(d)
  BY DEF LatestPin, InstallsInto
<1>2. \A t : Passes(t)' = Passes(t)
  BY PassesStays
<1>3. (\A q \in Procs : proc[q].pc \in AddSteps => was.shared \/ Passes(proc[q].hash))'
  BY <1>2 DEF InstallOK
<1>4. InstalledIsWhatPassed'
  <2>1. ASSUME NEW d \in Dirs, was'.state[d] = "installed", ~was'.shared, ~was'.torn
        PROVE  LatestPin(d)' = dirs'[d] /\ (Passes(dirs[d]))'
    BY <1>1, <1>2, <2>1 DEF InstallOK, InstalledIsWhatPassed, Passes
  <2>2. QED
    BY <2>1 DEF InstalledIsWhatPassed, Passes
<1>5. UnpinnedHasACause'
  <2>1. ASSUME NEW d \in Dirs, dirs'[d] # Absent, InstallsInto(d)' = {}, LatestPin(d)' = Absent
        PROVE  was'.state[d] = "part" \/ was'.torn
    BY <1>1, <2>1 DEF InstallOK, UnpinnedHasACause
  <2>2. QED
    BY <2>1 DEF UnpinnedHasACause
<1>6. \A d \in Dirs : was'.state[d] = "installing" =>
          /\ dirs'[d] # Absent
          /\ \E q \in Procs :
               /\ InstallsInto(d)' = {q}
               /\ \A f \in Files : f \in proc'[q].files \/ was'.shared \/ dirs'[d][f] = proc'[q].hash[f]
  BY <1>1 DEF InstallOK
<1>7. \A d \in Dirs : was'.state[d] = "installed" => dirs'[d] # Absent /\ InstallsInto(d)' = {}
  BY <1>1 DEF InstallOK
<1>8. BlameHasACause' /\ (newline' \/ was'.torn) /\ \A q \in Procs : proc'[q].pc = "pin" => proc'[q].files = {}
  BY DEF InstallOK, BlameHasACause
<1>9. QED
  BY <1>3, <1>4, <1>5, <1>6, <1>7, <1>8 DEF InstallOK

LEMMA UpdateKeeps == ASSUME Inv, NEW v \in Versions, Update(v) PROVE Inv'
<1>1. /\ source' = Whole(v) /\ UNCHANGED <<env, quarantine, dirs, pins, newline, deny, proc, was>>
      /\ Paid
  BY DEF Update, Spend, Paid, Budgets
<1>2. Whole(v) \in Trees
  BY DEF Whole, Trees
<1>3. DiskOK /\ left.errors \in Nat /\ env.budget.errors \in Nat
  BY ErrorsAreCounted DEF Inv, TypesOK
<1>4. DiskOK' /\ left'.errors \in Nat /\ left'.errors <= left.errors
  BY <1>1, <1>2, <1>3, LeftIs DEF DiskOK
<1>5. TypesOK'
  BY <1>1, <1>4 DEF Inv, TypesOK, ProcOK
<1>6. QuarantineOK'
  BY <1>1 DEF Inv, QuarantineOK, CopiesInto
<1>7. InstallOK'
  BY <1>1, InstallRests DEF Inv
<1>8. DenyOK' /\ RefusedOK'
  BY <1>1 DEF Inv, DenyOK, RefusedOK
<1>9. ShownOK'
  BY <1>1, <1>3, <1>4 DEF Inv, ShownOK, DriftIsTold
<1>10. QED
  BY <1>5, <1>6, <1>7, <1>8, <1>9 DEF Inv

\* Somebody changes or removes what is installed.
LEMMA ChangeKeeps ==
    ASSUME Inv, NEW d \in Dirs, NEW t \in Trees \cup {Absent}, dirs' = [dirs EXCEPT ![d] = t],
           NEW n \in States \ {"installing", "installed"},
           was' = [was EXCEPT !.state[d] = n, !.shown = Unshown(d)],
           t # Absent => dirs[d] # Absent /\ (was.state[d] = "part" => n = "part"),
           UNCHANGED <<env, source, quarantine, pins, newline, deny, proc>>, Paid
    PROVE  Inv'
<1>1. PICK s : s = [was.state EXCEPT ![d] = n]
  OBVIOUS
<1>2. s \in [Dirs -> States] /\ \A e \in Dirs : s[e] = IF e = d THEN n ELSE was.state[e]
  <2>1. was.state \in [Dirs -> States]
    BY DEF Inv, TypesOK, WasType
  <2>2. QED
    BY <1>1, <2>1
<1>3. PICK shown : shown = Unshown(d)
  OBVIOUS
<1>4. shown \in [Auditors -> SUBSET Dirs] /\ \A a \in Auditors : shown[a] = was.shown[a] \ {d}
  BY <1>3, UnshownIs
<1>5. was' = [was EXCEPT !.state = s, !.shown = shown]
  BY <1>1, <1>3
<1>6. /\ was' \in WasType /\ was'.state = s /\ was'.blamed = was.blamed /\ was'.written = was.written
      /\ was'.shown = shown /\ was'.refused = was.refused /\ was'.shared = was.shared
      /\ was'.torn = was.torn /\ was'.blind = was.blind /\ was'.lost = was.lost
      /\ was'.damaged = was.damaged
  BY <1>2, <1>4, <1>5 DEF Inv, TypesOK, WasType
<1>7. DiskOK /\ left.errors \in Nat /\ env.budget.errors \in Nat
  BY ErrorsAreCounted DEF Inv, TypesOK
<1>8. dirs' \in [Dirs -> Trees \cup {Absent}] /\ \A e \in Dirs : dirs'[e] = IF e = d THEN t ELSE dirs[e]
  BY <1>7 DEF DiskOK
<1>9. DiskOK' /\ left'.errors \in Nat /\ left'.errors <= left.errors
  BY <1>7, <1>8, LeftIs DEF DiskOK
<1>10. TypesOK'
  BY <1>6, <1>9 DEF Inv, TypesOK, ProcOK
<1>11. QuarantineOK'
  BY <1>6 DEF Inv, QuarantineOK, CopiesInto
<1>12. InstallOK'
  <2>1. /\ \A e : LatestPin(e)' = LatestPin(e) /\ InstallsInto(e)' = InstallsInto(e)
        /\ \A u : Passes(u)' = Passes(u)
    BY PassesStays DEF LatestPin, InstallsInto
  <2>2. \A e \in Dirs : was'.state[e] \in {"installing", "installed"} =>
            e # d /\ was.state[e] = was'.state[e] /\ dirs'[e] = dirs[e]
    BY <1>2, <1>6, <1>8
  <2>3. (\A q \in Procs : proc[q].pc \in AddSteps => was.shared \/ Passes(proc[q].hash))'
    BY <1>6, <2>1 DEF Inv, InstallOK
  <2>4. \A e \in Dirs : was'.state[e] = "installing" =>
            /\ dirs'[e] # Absent
            /\ \E q \in Procs :
                 /\ InstallsInto(e)' = {q}
                 /\ \A f \in Files : f \in proc'[q].files \/ was'.shared \/ dirs'[e][f] = proc'[q].hash[f]
    BY <1>6, <2>1, <2>2 DEF Inv, InstallOK
  <2>5. \A e \in Dirs : was'.state[e] = "installed" => dirs'[e] # Absent /\ InstallsInto(e)' = {}
    BY <2>1, <2>2 DEF Inv, InstallOK
  <2>6. InstalledIsWhatPassed'
    <3>1. ASSUME NEW e \in Dirs, was'.state[e] = "installed", ~was'.shared, ~was'.torn
          PROVE  LatestPin(e)' = dirs'[e] /\ (Passes(dirs[e]))'
      BY <1>6, <2>1, <2>2, <3>1 DEF Inv, InstallOK, InstalledIsWhatPassed, Passes
    <3>2. QED
      BY <3>1 DEF InstalledIsWhatPassed, Passes
  <2>7. UnpinnedHasACause'
    <3>1. ASSUME NEW e \in Dirs, dirs'[e] # Absent, InstallsInto(e)' = {}, LatestPin(e)' = Absent
          PROVE  was'.state[e] = "part" \/ was'.torn
      BY <1>2, <1>6, <1>8, <2>1, <3>1 DEF Inv, InstallOK, UnpinnedHasACause
    <3>2. QED
      BY <3>1 DEF UnpinnedHasACause
  <2>8. BlameHasACause' /\ (newline' \/ was'.torn) /\ \A q \in Procs : proc'[q].pc = "pin" => proc'[q].files = {}
    BY <1>6 DEF Inv, InstallOK, BlameHasACause
  <2>9. QED
    BY <2>3, <2>4, <2>5, <2>6, <2>7, <2>8 DEF InstallOK
<1>13. DenyOK' /\ RefusedOK'
  BY <1>6 DEF Inv, DenyOK, RefusedOK
<1>14. ShownOK'
  <2>1. \A a \in Auditors : \A e \in was'.shown[a] : e \in was.shown[a] /\ dirs'[e] = dirs[e]
    BY <1>4, <1>6, <1>8
  <2>2. \A a \in Auditors : was'.shown[a] # {} => was.shown[a] # {}
    BY <2>1
  <2>3. QED
    BY <1>6, <1>7, <1>9, <2>1, <2>2 DEF Inv, ShownOK, DriftIsTold
<1>15. QED
  BY <1>10, <1>11, <1>12, <1>13, <1>14 DEF Inv

LEMMA DriftKeeps ==
    ASSUME Inv, NEW d \in Dirs, NEW f \in Files, NEW v \in Versions, Drift(d, f, v) PROVE Inv'
<1>1. PICK t : t = [dirs[d] EXCEPT ![f] = v]
  OBVIOUS
<1>2. PICK n : n = IF was.state[d] \in {"installed", "installing"} THEN "changed" ELSE was.state[d]
  OBVIOUS
<1>3. was.state[d] \in States /\ dirs[d] \in Trees
  BY DEF Inv, TypesOK, DiskOK, WasType, Drift
<1>4. n \in States \ {"installing", "installed"} /\ (was.state[d] = "part" => n = "part")
  BY <1>2, <1>3 DEF States
<1>5. t \in Trees
  BY <1>1, <1>3 DEF Trees
<1>6. /\ dirs' = [dirs EXCEPT ![d] = t] /\ was' = [was EXCEPT !.state[d] = n, !.shown = Unshown(d)]
      /\ dirs[d] # Absent /\ UNCHANGED <<env, source, quarantine, pins, newline, deny, proc>>
  BY <1>1, <1>2 DEF Drift
<1>7. Paid
  BY DEF Drift, Spend, Paid, Budgets
<1>8. QED
  BY <1>4, <1>5, <1>6, <1>7, ChangeKeeps

LEMMA RemoveKeeps == ASSUME Inv, NEW d \in Dirs, Remove(d) PROVE Inv'
<1>1. /\ dirs' = [dirs EXCEPT ![d] = Absent] /\ was' = [was EXCEPT !.state[d] = "none", !.shown = Unshown(d)]
      /\ UNCHANGED <<env, source, quarantine, pins, newline, deny, proc>>
  BY DEF Remove
<1>2. Paid
  BY DEF Remove, Spend, Paid, Budgets
<1>3. "none" \in States \ {"installing", "installed"}
  BY DEF States
<1>4. QED
  BY <1>1, <1>2, <1>3, ChangeKeeps

-----------------------------------------------------------------------------
(* Any step.                                                               *)

LEMMA InvInit == ASSUME Init PROVE Inv
<1>1. env \in Environments /\ env.budget \in [Budgets -> Nat] /\ env.jobs \in [Procs -> Nat]
  BY ConstantsAssumption DEF Init
<1>2. \A p \in Procs : proc[p] = Idle(env.jobs[p], Absent) /\ env.jobs[p] \in Nat
  BY <1>1 DEF Init
<1>3. \A p \in Procs : proc[p] \in ProcType /\ proc[p].pc = "idle" /\ proc[p].exit = Absent
  <2> SUFFICES ASSUME NEW p \in Procs
               PROVE  proc[p] \in ProcType /\ proc[p].pc = "idle" /\ proc[p].exit = Absent
    OBVIOUS
  <2>1. PICK j \in Nat : j = env.jobs[p]
    BY <1>2
  <2>2. proc[p] = Idle(j, Absent)
    BY <1>2, <2>1
  <2>3. QED
    BY <2>2, IdleIs
<1>4. /\ was.shared = FALSE /\ was.blind = FALSE /\ was.lost = FALSE /\ was.torn = FALSE
      /\ was.damaged = {} /\ was.blamed = {} /\ was.written = {} /\ was \in WasType
      /\ \A p \in Procs : was.refused[p] = FALSE
      /\ \A d \in Dirs : was.state[d] = "none"
      /\ \A a \in Auditors : was.shown[a] = {}
  BY DEF Init, WasType, States
<1>5. DiskOK
  <2>1. "errors" \in Budgets /\ left = env.budget
    BY DEF Budgets, Init
  <2>2. left.errors \in Nat
    BY <1>1, <2>1
  <2>3. source \in Trees
    BY <1>1, ConstantsAssumption DEF Init, Whole, Trees
  <2>4. DOMAIN quarantine = {} /\ pins \in Seq(PinType)
    BY DEF Init
  <2>5. QED
    BY <1>1, <2>1, <2>2, <2>3, <2>4 DEF Init, DiskOK
<1>6. TypesOK
  <2>1. proc \in [Procs -> ProcType]
    BY <1>3 DEF Init
  <2>2. \A p \in Procs : ProcOK(p, proc[p])
    BY <1>3 DEF ProcOK
  <2>3. QED
    BY <1>4, <1>5, <2>1, <2>2 DEF TypesOK
<1>7. QuarantineOK
  <2>1. DOMAIN quarantine = {}
    BY DEF Init
  <2>2. QED
    BY <1>3, <2>1 DEF QuarantineOK
<1>8. InstallOK
  BY <1>3, <1>4 DEF Init, InstallOK, InstalledIsWhatPassed, UnpinnedHasACause, BlameHasACause
<1>9. DenyOK
  <2>1. deny = {} /\ deny # Absent
    BY ConstantsAssumption DEF Init
  <2>2. QED
    BY <1>3, <1>4, <2>1 DEF DenyOK
<1>10. RefusedOK /\ ShownOK
  BY <1>4 DEF RefusedOK, ShownOK, DriftIsTold, Procs
<1>11. QED
  BY <1>6, <1>7, <1>8, <1>9, <1>10 DEF Inv

LEMMA InvNext == ASSUME Inv, [Next]_vars PROVE Inv'
<1>1. CASE UNCHANGED vars
  <2>1. UNCHANGED <<env, left, disk, proc, was>>
    BY <1>1 DEF vars
  <2>2. TypesOK'
    BY <2>1 DEF Inv, TypesOK, DiskOK, ProcOK
  <2>3. QuarantineOK'
    BY <2>1 DEF Inv, QuarantineOK, CopiesInto
  <2>4. InstallOK'
    BY <2>1, InstallRests DEF Inv
  <2>5. DenyOK' /\ RefusedOK' /\ ShownOK'
    BY <2>1 DEF Inv, DenyOK, RefusedOK, ShownOK, DriftIsTold
  <2>6. QED
    BY <2>2, <2>3, <2>4, <2>5 DEF Inv
<1>2. ASSUME NEW p \in Adders, NEW d \in Dirs \cup {Absent}, StartAdd(p, d)
      PROVE  Inv'
  BY <1>2, StartAddKeeps
<1>3. ASSUME NEW a \in Auditors, StartAudit(a)
      PROVE  Inv'
  BY <1>3, StartAuditKeeps
<1>4. ASSUME NEW p \in Procs, Fetch(p)
      PROVE  Inv'
  BY <1>4, HashSourceKeeps, MakeCopyKeeps, CopyFileKeeps DEF Fetch
<1>5. ASSUME NEW p \in Procs, Inspect(p)
      PROVE  Inv'
  BY <1>5, BuildKeeps, ScanKeeps DEF Inspect
<1>6. ASSUME NEW p \in Procs, Install(p)
      PROVE  Inv'
  BY <1>6, PromoteKeeps, MakeDirKeeps, PinKeeps, InstallFileKeeps DEF Install
<1>7. ASSUME NEW p \in Procs, Audit(p)
      PROVE  Inv'
  BY <1>7, CheckKeeps, LoadDenyKeeps, OpenDenyKeeps, WriteDenyKeeps, FinishAuditKeeps DEF Audit
<1>8. ASSUME NEW p \in Procs, Fails(p)
      PROVE  Inv'
  BY <1>8, CopyFailsKeeps, InstallFailsKeeps, DenyFailsKeeps DEF Fails
<1>9. ASSUME NEW p \in Procs, Kill(p)
      PROVE  Inv'
  BY <1>9, KillKeeps
<1>10. ASSUME NEW v \in Versions, Update(v)
       PROVE  Inv'
  BY <1>10, UpdateKeeps
<1>11. ASSUME NEW d \in Dirs, NEW f \in Files, NEW v \in Versions, Drift(d, f, v)
       PROVE  Inv'
  BY <1>11, DriftKeeps
<1>12. ASSUME NEW d \in Dirs, Remove(d)
       PROVE  Inv'
  BY <1>12, RemoveKeeps
<1>13. QED
  BY <1>1, <1>2, <1>3, <1>4, <1>5, <1>6, <1>7, <1>8, <1>9, <1>10, <1>11, <1>12 DEF Next

LEMMA InvAlways == Spec => []Inv
<1>1. Init => Inv
  BY InvInit
<1>2. Inv /\ [Next]_vars => Inv'
  BY InvNext
<1>3. QED
  BY <1>1, <1>2, PTL DEF Spec

-----------------------------------------------------------------------------
(* The results.                                                            *)

\* What an add installed whole and nobody changed since passed the scan and is
\* what its latest pin names, and nothing is installed that no audit will look
\* at, but for the causes GateInv names; however many adds, audits, kills and
\* changes there are.
THEOREM InstalledPassedAndIsPinned == Spec => []GateInv
<1>1. Inv => GateInv
  <2> SUFFICES ASSUME Inv PROVE GateInv
    OBVIOUS
  <2>1. InstalledIsWhatPassed /\ UnpinnedHasACause
    BY DEF Inv, InstallOK
  <2>2. \A i \in DOMAIN pins : pins[i] \in [dir: Dirs, hash: Trees, whole: BOOLEAN]
    <3>1. pins \in Seq(PinType)
      BY DEF Inv, TypesOK, DiskOK
    <3>2. \A i \in DOMAIN pins : pins[i] \in PinType
      BY <3>1
    <3>3. QED
      BY <3>2 DEF PinType
  <2>3. HistoryTypeOK
    BY DEF Inv, TypesOK, WasType, HistoryTypeOK
  <2>4. TypeOK
    BY <2>2, <2>3 DEF Inv, TypesOK, DiskOK, TypeOK
  <2>5. QED
    BY <2>1, <2>4 DEF GateInv
<1>2. QED
  BY <1>1, InvAlways, PTL

\* A hash an audit denylisted stays on the list, and an add whose source was on
\* it when it was hashed installs nothing, unless two audits wrote the list at
\* once, one was stopped while it wrote, or the copy is not the source.
THEOREM DeniedStaysDenied == Spec => []DenialsHold
<1>1. Inv => DenialsHold
  <2> SUFFICES ASSUME Inv PROVE DenialsHold
    OBVIOUS
  <2>1. ASSUME \A a \in Auditors : proc[a].pc # "write"
        PROVE  was.lost \/ (deny # Absent /\ was.written \subseteq deny)
    <3>1. \A a \in Procs : proc[a].pc # "write"
      BY <2>1, OnlyAuditorsWrite
    <3>2. QED
      BY <3>1 DEF Inv, DenyOK
  <2>2. DeniedStaysOut
    BY DEF Inv, RefusedOK, DeniedStaysOut
  <2>3. QED
    BY <2>1, <2>2 DEF DenialsHold, DenialsStay
<1>2. QED
  BY <1>1, InvAlways, PTL

\* An audit calls drift what an add installed and nobody changed only when the
\* pins it read were superseded or did not name what was copied, and one that
\* runs to its end tells of drift that was there all along.
THEOREM AuditsTellDrift == Spec => []AuditsAreRight
<1>1. Inv => AuditsAreRight
  BY DEF Inv, InstallOK, ShownOK, AuditsAreRight
<1>2. QED
  BY <1>1, InvAlways, PTL

-----------------------------------------------------------------------------
(* The scans over untrusted input.  One job at a time, so the invariant    *)
(* has a part for each kind of job.                                        *)

CueSteps == StartCues \/ CueFound \/ SkipCue \/ NextPair
NearSteps == StartNear \/ SkipLine \/ TryLine \/ NoneNear
TokenSteps == StartTokens \/ TryToken \/ NoToken
HelperSteps == StartHelpers \/ TakeHelper \/ HelpersDone
PieceSteps == CutPiece \/ LineCut
SpanSteps == StartSpans \/ TakeSpan \/ SpansDone
GgufSteps == StartGguf \/ TakeTensor \/ TensorsDone

\* Only the steps of the job's kind are taken, and the job stays.
LEMMA StepsOfAJob ==
    ASSUME ScanNext
    PROVE  /\ ~done /\ job' = job
           /\ \/ job.kind = "cues" /\ CueSteps
              \/ job.kind = "near" /\ NearSteps
              \/ job.kind = "tokens" /\ TokenSteps
              \/ job.kind = "helpers" /\ HelperSteps
              \/ job.kind = "line" /\ PieceSteps
              \/ job.kind = "spans" /\ SpanSteps
              \/ job.kind = "gguf" /\ GgufSteps
<1>1. CASE CueSteps
  BY <1>1 DEF CueSteps, StartCues, CueFound, SkipCue, NextPair, Running, Return, Go
<1>2. CASE NearSteps
  BY <1>2 DEF NearSteps, StartNear, SkipLine, TryLine, NoneNear, Running, Return, Go
<1>3. CASE TokenSteps
  BY <1>3 DEF TokenSteps, StartTokens, TryToken, NoToken, Running, Return, Go
<1>4. CASE HelperSteps
  BY <1>4 DEF HelperSteps, StartHelpers, TakeHelper, HelpersDone, Running, Return, Go
<1>5. CASE PieceSteps
  BY <1>5 DEF PieceSteps, CutPiece, LineCut, Running, Return, Go
<1>6. CASE SpanSteps
  BY <1>6 DEF SpanSteps, StartSpans, TakeSpan, SpansDone, Running, Return, Go
<1>7. CASE GgufSteps
  BY <1>7 DEF GgufSteps, StartGguf, TakeTensor, TensorsDone, Running, Return, Go
<1>8. QED
  BY <1>1, <1>2, <1>3, <1>4, <1>5, <1>6, <1>7
     DEF ScanNext, CueSteps, NearSteps, TokenSteps, HelperSteps, PieceSteps, SpanSteps, GgufSteps

LEMMA SizesAre == Window \in Nat /\ Chunk \in Nat /\ Step \in 1 .. Chunk /\ HeaderSize \in Nat /\ EntrySize \in Nat
  BY JobsAssumption

LEMMA ListIs ==
    ASSUME NEW s \in Lists
    PROVE  /\ s \in Seq(Nat) /\ Len(s) \in Nat /\ DOMAIN s = 1 .. Len(s)
           /\ \A p \in 1 .. Len(s) : s[p] \in Nat
           /\ \A p, q \in 1 .. Len(s) : p < q => s[p] < s[q]
           /\ \A p, q \in 1 .. Len(s) : p <= q => s[p] <= s[q]
<1>1. s \in Seq(Nat) /\ Rising(s)
  BY DEF Lists
<1>2. /\ Len(s) \in Nat /\ DOMAIN s = 1 .. Len(s)
      /\ \A p \in 1 .. Len(s) : s[p] \in Nat
  BY <1>1
<1>3. \A p, q \in 1 .. Len(s) : p < q => s[p] < s[q]
  BY <1>1, <1>2 DEF Rising
<1>4. QED
  BY <1>1, <1>2, <1>3

-----------------------------------------------------------------------------
(* Cues.                                                                   *)

LEMMA CueJobIs ==
    ASSUME job \in Jobs, job.kind = "cues"
    PROVE  DOMAIN job.hits = Cues /\ \A c \in Cues : job.hits[c] \in Lists
  BY JobsAssumption

LEMMA PairsAre ==
    /\ Len(CuePairs) = 4
    /\ \A n \in 1 .. 4 : CuePairs[n][1] \in {"A", "C"} /\ CuePairs[n][2] \in Cues
<1>1. Len(CuePairs) = 4 /\ CuePairs[1] = <<"A", "B">> /\ CuePairs[2] = <<"A", "D">> /\ CuePairs[3] = <<"C", "D">> /\ CuePairs[4] = <<"A", "C">>
  BY DEF CuePairs
<1>2. \A n \in 1 .. 4 : n = 1 \/ n = 2 \/ n = 3 \/ n = 4
  OBVIOUS
<1>3. QED
  BY <1>1, <1>2 DEF Cues

\* Two lists, as far as the pointers p and q have come: no pair left behind is
\* close.
Passed(a, b, p, q) == \A x \in DOMAIN a, y \in DOMAIN b : (x < p \/ y < q) => ~Close(a[x], b[y])

CuesOK ==
    job.kind = "cues" =>
        /\ stage \in 0 .. 4 /\ here \in Nat /\ there \in Nat
        /\ stage > 0 => /\ here \in 1 .. Len(Left) + 1 /\ there \in 1 .. Len(Right) + 1
                        /\ ~done => /\ Passed(Left, Right, here, there)
                                    /\ \A n \in 1 .. stage - 1 : ~PairThere(n)
        /\ CuesFound

\* The pointer at the smaller position can move on: whatever is left of the
\* other list is further away.
LEMMA SkipIsSafe ==
    ASSUME NEW a \in Lists, NEW b \in Lists, NEW p \in 1 .. Len(a), NEW q \in 1 .. Len(b),
           Passed(a, b, p, q), ~Close(a[p], b[q])
    PROVE  IF a[p] < b[q] THEN Passed(a, b, p + 1, q) ELSE Passed(a, b, p, q + 1)
<1>1. Window \in Nat
  BY SizesAre
<1>2. /\ DOMAIN a = 1 .. Len(a) /\ Len(a) \in Nat /\ \A x \in 1 .. Len(a) : a[x] \in Nat
      /\ \A x, y \in 1 .. Len(a) : x <= y => a[x] <= a[y]
  BY ListIs
<1>3. /\ DOMAIN b = 1 .. Len(b) /\ Len(b) \in Nat /\ \A x \in 1 .. Len(b) : b[x] \in Nat
      /\ \A x, y \in 1 .. Len(b) : x <= y => b[x] <= b[y]
  BY ListIs
<1>4. CASE a[p] < b[q]
  <2>1. a[p] < b[q] - Window
    BY <1>1, <1>2, <1>3, <1>4 DEF Close
  <2>2. ASSUME NEW x \in DOMAIN a, NEW y \in DOMAIN b, x < p + 1 \/ y < q
        PROVE  ~Close(a[x], b[y])
    <3>1. CASE x < p \/ y < q
      BY <3>1 DEF Passed
    <3>2. CASE x = p /\ y >= q
      <4>1. b[q] <= b[y]
        BY <1>3, <3>2
      <4>2. QED
        BY <1>1, <1>2, <1>3, <2>1, <3>2, <4>1 DEF Close
    <3>3. QED
      BY <1>2, <1>3, <2>2, <3>1, <3>2
  <2>3. QED
    BY <1>4, <2>2 DEF Passed
<1>5. CASE ~(a[p] < b[q])
  <2>1. b[q] < a[p] - Window
    BY <1>1, <1>2, <1>3, <1>5 DEF Close
  <2>2. ASSUME NEW x \in DOMAIN a, NEW y \in DOMAIN b, x < p \/ y < q + 1
        PROVE  ~Close(a[x], b[y])
    <3>1. CASE x < p \/ y < q
      BY <3>1 DEF Passed
    <3>2. CASE x >= p /\ y = q
      <4>1. a[p] <= a[x]
        BY <1>2, <3>2
      <4>2. QED
        BY <1>1, <1>2, <1>3, <2>1, <3>2, <4>1 DEF Close
    <3>3. QED
      BY <1>2, <1>3, <2>2, <3>1, <3>2
  <2>3. QED
    BY <1>5, <2>2 DEF Passed
<1>6. QED
  BY <1>4, <1>5

LEMMA CuesStay ==
    ASSUME job \in Jobs, job.kind = "cues", ~done, CuesOK, CueSteps, job' = job
    PROVE  CuesOK'
<1>1. /\ stage \in 0 .. 4 /\ here \in Nat /\ there \in Nat
      /\ stage > 0 => /\ here \in 1 .. Len(Left) + 1 /\ there \in 1 .. Len(Right) + 1
                      /\ Passed(Left, Right, here, there)
                      /\ \A n \in 1 .. stage - 1 : ~PairThere(n)
  BY DEF CuesOK
<1>2. \A c \in Cues : job.hits[c] \in Lists
  BY CueJobIs
<1>3. \A n \in 1 .. 4 : job.hits[CuePairs[n][1]] \in Lists /\ job.hits[CuePairs[n][2]] \in Lists
  <2>1. {"A", "C"} \subseteq Cues
    BY DEF Cues
  <2>2. QED
    BY <1>2, <2>1, PairsAre
<1>4. stage > 0 => Left \in Lists /\ Right \in Lists
  <2>1. stage > 0 => stage \in 1 .. 4
    BY <1>1
  <2>2. QED
    BY <1>3, <2>1 DEF Left, Right
<1>5. \A s \in Lists : Len(s) \in Nat /\ DOMAIN s = 1 .. Len(s)
  BY ListIs
<1>6. \A n : PairThere(n)' <=> PairThere(n)
  BY DEF PairThere, Close
<1>7. CASE StartCues
  <2>1. CASE job.hits["A"] = <<>> /\ job.hits["C"] = <<>>
    <3>1. out' = <<>> /\ done' /\ stage' = 0 /\ here' = here /\ there' = there
      BY <1>7, <2>1 DEF StartCues, Return, counters
    <3>2. ASSUME NEW n \in 1 .. 4
          PROVE  ~PairThere(n)
      <4>1. job.hits[CuePairs[n][1]] = <<>>
        BY <2>1, PairsAre
      <4>2. DOMAIN job.hits[CuePairs[n][1]] = {}
        BY <4>1
      <4>3. QED
        BY <4>2 DEF PairThere
    <3>3. CuesFound'
      BY <1>6, <3>1, <3>2, PairsAre DEF CuesFound
    <3>4. QED
      BY <1>1, <3>1, <3>3 DEF CuesOK
  <2>2. CASE ~(job.hits["A"] = <<>> /\ job.hits["C"] = <<>>)
    <3>1. ~done' /\ stage' = 1 /\ here' = 1 /\ there' = 1
      BY <1>7, <2>2 DEF StartCues, Go
    <3>2. Left' = job.hits[CuePairs[1][1]] /\ Right' = job.hits[CuePairs[1][2]]
      BY <3>1 DEF Left, Right
    <3>3. Left' \in Lists /\ Right' \in Lists
      BY <1>3, <3>2
    <3>4. PICK l, r : l = Left' /\ r = Right'
      OBVIOUS
    <3>5. Passed(l, r, 1, 1)
      BY <1>5, <3>3, <3>4 DEF Passed
    <3>6. Passed(Left, Right, here, there)'
      BY <3>1, <3>4, <3>5 DEF Passed, Close
    <3>7. CuesFound'
      BY <3>1 DEF CuesFound
    <3>8. Len(l) \in Nat /\ Len(r) \in Nat
      BY <1>5, <3>3, <3>4
    <3>9. here' \in 1 .. Len(l) + 1 /\ there' \in 1 .. Len(r) + 1
      BY <3>1, <3>8
    <3>10. QED
      BY <3>1, <3>4, <3>6, <3>7, <3>9 DEF CuesOK
  <2>3. QED
    BY <2>1, <2>2
<1>8. CASE CueFound
  <2>1. /\ stage > 0 /\ here <= Len(Left) /\ there <= Len(Right) /\ Close(Left[here], Right[there])
        /\ out' = <<stage, Left[here], Right[there]>> /\ done'
        /\ stage' = stage /\ here' = here /\ there' = there
    BY <1>8 DEF CueFound, BothLeft, Return, counters
  <2>2. Left' = Left /\ Right' = Right
    BY <2>1 DEF Left, Right
  <2>3. here \in DOMAIN Left /\ there \in DOMAIN Right
    BY <1>1, <1>4, <1>5, <2>1
  <2>4. PairThere(stage)
    BY <2>1, <2>3 DEF PairThere, Left, Right
  <2>5. out'[1] = stage /\ out'[2] = Left[here] /\ out'[3] = Right[there] /\ out' # <<>>
    BY <2>1
  <2>6. Close(out'[2], out'[3]) /\ \A n \in 1 .. out'[1] - 1 : ~PairThere(n)
    BY <1>1, <2>1, <2>5
  <2>7. stage \in 1 .. Len(CuePairs)
    BY <1>1, <2>1, PairsAre
  <2>8. CuesFound'
    BY <1>6, <2>4, <2>5, <2>6, <2>7 DEF CuesFound, Close
  <2>9. QED
    BY <1>1, <2>1, <2>2, <2>8 DEF CuesOK
<1>9. CASE SkipCue
  <2>1. /\ stage > 0 /\ here <= Len(Left) /\ there <= Len(Right) /\ ~Close(Left[here], Right[there])
        /\ ~done' /\ stage' = stage
        /\ IF Left[here] < Right[there] THEN here' = here + 1 /\ there' = there ELSE there' = there + 1 /\ here' = here
    BY <1>9 DEF SkipCue, BothLeft, Go
  <2>2. Left' = Left /\ Right' = Right
    BY <2>1 DEF Left, Right
  <2>3. Left \in Lists /\ Right \in Lists /\ here \in 1 .. Len(Left) /\ there \in 1 .. Len(Right)
    BY <1>1, <1>4, <1>5, <2>1
  <2>4. PICK l, r : l = Left /\ r = Right
    OBVIOUS
  <2>5. IF l[here] < r[there] THEN Passed(l, r, here + 1, there) ELSE Passed(l, r, here, there + 1)
    BY <1>1, <2>1, <2>3, <2>4, SkipIsSafe
  <2>6. Passed(l, r, here', there')
    BY <2>1, <2>4, <2>5
  <2>7. Passed(Left, Right, here, there)'
    BY <2>2, <2>4, <2>6 DEF Passed, Close
  <2>8. here' \in 1 .. Len(l) + 1 /\ there' \in 1 .. Len(r) + 1
    BY <1>5, <2>1, <2>3, <2>4
  <2>9. \A n \in 1 .. stage' - 1 : ~PairThere(n)'
    BY <1>1, <1>6, <2>1
  <2>10. QED
    BY <1>1, <2>1, <2>2, <2>4, <2>7, <2>8, <2>9 DEF CuesOK, CuesFound
<1>10. CASE NextPair
  <2>1. stage > 0 /\ ~BothLeft
    BY <1>10 DEF NextPair
  <2>2. here > Len(Left) \/ there > Len(Right)
    BY <1>1, <1>4, <1>5, <2>1 DEF BothLeft
  <2>3. ~PairThere(stage)
    <3>1. Left \in Lists /\ Right \in Lists /\ DOMAIN Left = 1 .. Len(Left) /\ DOMAIN Right = 1 .. Len(Right)
      BY <1>4, <1>5, <2>1
    <3>2. Passed(Left, Right, here, there)
      BY <1>1, <2>1
    <3>3. \A x \in DOMAIN Left, y \in DOMAIN Right : x < here \/ y < there
      BY <1>1, <1>5, <2>1, <2>2, <3>1
    <3>4. \A x \in DOMAIN Left, y \in DOMAIN Right : ~Close(Left[x], Right[y])
      BY <3>2, <3>3 DEF Passed
    <3>5. QED
      BY <3>4 DEF PairThere, Left, Right
  <2>4. \A n \in 1 .. stage : ~PairThere(n)
    BY <1>1, <2>1, <2>3
  <2>5. CASE stage = 4
    <3>1. out' = <<>> /\ done' /\ stage' = stage /\ here' = here /\ there' = there
      BY <1>10, <2>5, PairsAre DEF NextPair, Return, counters
    <3>2. Left' = Left /\ Right' = Right
      BY <3>1 DEF Left, Right
    <3>3. CuesFound'
      BY <1>6, <2>4, <2>5, <3>1, PairsAre DEF CuesFound
    <3>4. QED
      BY <1>1, <3>1, <3>2, <3>3 DEF CuesOK
  <2>6. CASE stage # 4
    <3>1. ~done' /\ stage' = stage + 1 /\ here' = 1 /\ there' = 1
      BY <1>10, <2>6, PairsAre DEF NextPair, Go
    <3>2. stage + 1 \in 1 .. 4
      BY <1>1, <2>1, <2>6
    <3>3. Left' = job.hits[CuePairs[stage + 1][1]] /\ Right' = job.hits[CuePairs[stage + 1][2]]
      BY <3>1 DEF Left, Right
    <3>4. PICK l, r : l = Left' /\ r = Right'
      OBVIOUS
    <3>5. l \in Lists /\ r \in Lists /\ Len(l) \in Nat /\ Len(r) \in Nat
      BY <1>3, <1>5, <3>2, <3>3, <3>4
    <3>6. Passed(l, r, 1, 1)
      BY <1>5, <3>5 DEF Passed
    <3>7. Passed(Left, Right, here, there)'
      BY <3>1, <3>4, <3>6 DEF Passed, Close
    <3>8. here' \in 1 .. Len(l) + 1 /\ there' \in 1 .. Len(r) + 1
      BY <3>1, <3>5
    <3>9. \A n \in 1 .. stage' - 1 : ~PairThere(n)'
      BY <1>1, <1>6, <2>4, <3>1
    <3>10. QED
      BY <3>1, <3>2, <3>4, <3>7, <3>8, <3>9 DEF CuesOK, CuesFound
  <2>7. QED
    BY <2>5, <2>6
<1>11. QED
  BY <1>7, <1>8, <1>9, <1>10 DEF CueSteps

-----------------------------------------------------------------------------
(* Lines that are near.                                                    *)

LEMMA NearJobIs ==
    ASSUME job \in Jobs, job.kind = "near"
    PROVE  job.a \in Lists /\ job.b \in Lists /\ job.win \in Nat
  BY JobsAssumption

\* What the search has passed: lines of a without a match, and lines of b that
\* are too low for the line of a it is at.
NearSoFar ==
    /\ \A p \in DOMAIN job.a, q \in DOMAIN job.b : p < here => ~Within(job.a[p], job.b[q])
    /\ here <= Len(job.a) => \A q \in 1 .. there - 1 : job.b[q] < job.a[here] - job.win

NearOK ==
    job.kind = "near" =>
        /\ stage \in 0 .. 1 /\ here \in Nat /\ there \in Nat
        /\ stage = 0 => ~done
        /\ stage > 0 => /\ here \in 1 .. Len(job.a) + 1 /\ there \in 1 .. Len(job.b) + 1
                        /\ ~done => NearSoFar
        /\ NearIsFirst

LEMMA NearStays ==
    ASSUME job \in Jobs, job.kind = "near", ~done, NearOK, NearSteps, job' = job
    PROVE  NearOK'
<1> DEFINE a == job.a
           b == job.b
           w == job.win
<1>1. a \in Lists /\ b \in Lists /\ w \in Nat
  BY NearJobIs
<1>2. /\ DOMAIN a = 1 .. Len(a) /\ Len(a) \in Nat /\ \A x \in 1 .. Len(a) : a[x] \in Nat
      /\ \A x, y \in 1 .. Len(a) : x < y => a[x] < a[y]
  BY <1>1, ListIs
<1>3. /\ DOMAIN b = 1 .. Len(b) /\ Len(b) \in Nat /\ \A x \in 1 .. Len(b) : b[x] \in Nat
      /\ \A x, y \in 1 .. Len(b) : x <= y => b[x] <= b[y]
  BY <1>1, ListIs
<1>4. /\ stage \in 0 .. 1 /\ here \in Nat /\ there \in Nat
      /\ stage > 0 => /\ here \in 1 .. Len(a) + 1 /\ there \in 1 .. Len(b) + 1
                      /\ \A p \in DOMAIN a, q \in DOMAIN b : p < here => ~Within(a[p], b[q])
                      /\ here <= Len(a) => \A q \in 1 .. there - 1 : b[q] < a[here] - w
  BY DEF NearOK, NearSoFar
<1>5. \A x, y : Within(x, y)' <=> Within(x, y)
  BY DEF Within
<1>6. \A x \in Nat, y \in Nat : Within(x, y) <=> (y >= x - w /\ y <= x + w)
  BY <1>1 DEF Within
<1> HIDE DEF a, b, w
<1>7. a' = a /\ b' = b /\ w' = w
  BY DEF a, b, w
<1>8. ASSUME ~done', stage' = 1, here' \in 1 .. Len(a) + 1, there' \in 1 .. Len(b) + 1,
             \A p \in DOMAIN a, q \in DOMAIN b : p < here' => ~Within(a[p], b[q]),
             here' <= Len(a) => \A q \in 1 .. there' - 1 : b[q] < a[here'] - w
      PROVE  NearOK'
  <2>1. NearIsFirst'
    BY <1>8 DEF NearIsFirst
  <2>2. here' \in Nat /\ there' \in Nat
    BY <1>2, <1>3, <1>8
  <2>3. NearSoFar'
    BY <1>8 DEF NearSoFar, Within, a, b, w
  <2>4. QED
    BY <1>8, <2>1, <2>2, <2>3 DEF NearOK, a, b
<1>9. ASSUME done', stage' = 1, here' = here, there' = there, NearIsFirst', stage = 1
      PROVE  NearOK'
  BY <1>4, <1>7, <1>9 DEF NearOK, a, b
<1>10. CASE StartNear
  <2>1. ~done' /\ stage' = 1 /\ here' = 1 /\ there' = 1
    BY <1>10 DEF StartNear, Go
  <2>2. here' \in 1 .. Len(a) + 1 /\ there' \in 1 .. Len(b) + 1
    BY <1>2, <1>3, <2>1
  <2>3. \A p \in DOMAIN a, q \in DOMAIN b : ~(p < 1)
    BY <1>2
  <2>4. QED
    BY <1>8, <2>1, <2>2, <2>3
<1>11. CASE SkipLine
  <2>1. /\ ~done' /\ stage = 1 /\ stage' = 1 /\ here' = here /\ there' = there + 1
        /\ here <= Len(a) /\ there <= Len(b) /\ b[there] < a[here] - w
    BY <1>11 DEF SkipLine, TooLow, Go, a, b, w
  <2>2. here' \in 1 .. Len(a) + 1 /\ there' \in 1 .. Len(b) + 1
    BY <1>3, <1>4, <2>1
  <2>3. \A q \in 1 .. there' - 1 : b[q] < a[here] - w
    BY <1>4, <2>1
  <2>4. QED
    BY <1>4, <1>8, <2>1, <2>2, <2>3
<1>12. CASE TryLine
  <2>1. stage = 1 /\ here <= Len(a) /\ here \in 1 .. Len(a) /\ ~(there <= Len(b) /\ b[there] < a[here] - w)
    BY <1>4, <1>12 DEF TryLine, TooLow, a, b, w
  <2>2. CASE there <= Len(b) /\ b[there] <= a[here] + w
    <3>1. out' = <<a[here], b[there]>> /\ done' /\ stage' = 1 /\ here' = here /\ there' = there
      BY <1>12, <2>2 DEF TryLine, Return, counters, a, b, w
    <3>2. there \in 1 .. Len(b) /\ b[there] \in Nat /\ a[here] \in Nat
      BY <1>2, <1>3, <1>4, <2>1, <2>2
    <3>3. Within(a[here], b[there])
      BY <1>1, <1>6, <2>1, <2>2, <3>2
    <3> DEFINE pairs == {x \in (DOMAIN a) \X (DOMAIN b) : Within(a[x[1]], b[x[2]])}
               found0 == <<here, there>>
    <3>4. found0 \in pairs
      BY <1>2, <1>3, <2>1, <3>2, <3>3
    <3>5. ASSUME NEW y \in pairs
          PROVE  here < y[1] \/ (here = y[1] /\ there <= y[2])
      <4>1. y[1] \in 1 .. Len(a) /\ y[2] \in 1 .. Len(b) /\ Within(a[y[1]], b[y[2]])
        BY <1>2, <1>3
      <4>2. ~(y[1] < here)
        BY <1>2, <1>3, <1>4, <2>1, <4>1
      <4>3. CASE y[1] = here
        <5>1. b[y[2]] >= a[here] - w
          BY <1>2, <1>3, <1>6, <4>1, <4>3
        <5>2. ~(y[2] \in 1 .. there - 1)
          BY <1>1, <1>2, <1>3, <1>4, <2>1, <4>1, <5>1
        <5>3. QED
          BY <1>4, <3>2, <4>1, <4>3, <5>2
      <4>4. QED
        BY <2>1, <4>1, <4>2, <4>3
    <3>6. \E x \in pairs : /\ out' = <<a[x[1]], b[x[2]]>>
                           /\ \A y \in pairs : x[1] < y[1] \/ (x[1] = y[1] /\ x[2] <= y[2])
      <4>1. found0[1] = here /\ found0[2] = there
        OBVIOUS
      <4> HIDE DEF pairs, found0
      <4>2. QED
        BY <3>1, <3>4, <3>5, <4>1
    <3>7. NearIsFirst'
      <4>1. {x \in (DOMAIN job.a) \X (DOMAIN job.b) : Within(job.a[x[1]], job.b[x[2]])}' = pairs
        BY DEF Within, a, b
      <4>2. pairs # {}
        BY <3>4
      <4> HIDE DEF pairs
      <4>3. QED
        BY <1>7, <3>6, <4>1, <4>2 DEF NearIsFirst, a, b
    <3>8. QED
      BY <1>9, <2>1, <3>1, <3>7
  <2>3. CASE ~(there <= Len(b) /\ b[there] <= a[here] + w)
    <3>1. ~done' /\ stage' = 1 /\ here' = here + 1 /\ there' = there
      BY <1>12, <2>1, <2>3 DEF TryLine, Go, a, b, w
    <3>2. ASSUME NEW q \in DOMAIN b
          PROVE  ~Within(a[here], b[q])
      <4>1. q \in 1 .. Len(b) /\ b[q] \in Nat /\ a[here] \in Nat
        BY <1>2, <1>3, <2>1
      <4>2. CASE q < there
        <5>1. q \in 1 .. there - 1
          BY <1>4, <2>1, <4>1, <4>2
        <5>2. b[q] < a[here] - w
          BY <1>4, <2>1, <5>1
        <5>3. QED
          BY <1>1, <1>6, <4>1, <5>2
      <4>3. CASE q >= there
        <5>1. there \in 1 .. Len(b) /\ b[there] \in Nat /\ b[there] <= b[q]
          BY <1>3, <1>4, <2>1, <4>1, <4>3
        <5>2. b[there] > a[here] + w
          BY <1>1, <2>3, <4>1, <5>1
        <5>3. QED
          BY <1>1, <1>6, <4>1, <5>1, <5>2
      <4>4. QED
        BY <1>4, <4>1, <4>2, <4>3
    <3>3. here' \in 1 .. Len(a) + 1 /\ there' \in 1 .. Len(b) + 1
      BY <1>2, <1>4, <2>1, <3>1
    <3>4. \A p \in DOMAIN a, q \in DOMAIN b : p < here' => ~Within(a[p], b[q])
      <4>1. \A p \in DOMAIN a : p < here + 1 => p < here \/ p = here
        BY <1>2, <2>1
      <4>2. QED
        BY <1>4, <2>1, <3>1, <3>2, <4>1
    <3>5. ASSUME here' <= Len(a), NEW q \in 1 .. there' - 1
          PROVE  b[q] < a[here'] - w
      <4>1. b[q] < a[here] - w
        BY <1>4, <2>1, <3>1, <3>5
      <4>2. here' \in 1 .. Len(a) /\ here < here' /\ q \in 1 .. Len(b)
        BY <1>3, <1>4, <2>1, <3>1, <3>5
      <4>3. a[here] < a[here']
        BY <1>2, <2>1, <4>2
      <4>4. QED
        BY <1>1, <1>2, <1>3, <2>1, <4>1, <4>2, <4>3
    <3>6. QED
      BY <1>8, <3>1, <3>3, <3>4, <3>5
  <2>4. QED
    BY <2>2, <2>3
<1>13. CASE NoneNear
  <2>1. stage = 1 /\ here > Len(a) /\ out' = <<>> /\ done' /\ stage' = 1 /\ here' = here /\ there' = there
    BY <1>13 DEF NoneNear, Return, counters, a
  <2>2. \A x \in (DOMAIN a) \X (DOMAIN b) : ~Within(a[x[1]], b[x[2]])
    <3>1. ASSUME NEW x \in (DOMAIN a) \X (DOMAIN b)
          PROVE  ~Within(a[x[1]], b[x[2]])
      <4>1. x[1] \in DOMAIN a /\ x[2] \in DOMAIN b /\ x[1] < here
        BY <1>2, <1>4, <2>1
      <4>2. QED
        BY <1>4, <2>1, <4>1
    <3>2. QED
      BY <3>1
  <2>3. {x \in (DOMAIN job.a) \X (DOMAIN job.b) : Within(job.a[x[1]], job.b[x[2]])}' = {}
    BY <2>2 DEF Within, a, b
  <2>4. NearIsFirst'
    BY <1>7, <2>1, <2>3 DEF NearIsFirst, a, b
  <2>5. QED
    BY <1>9, <2>1, <2>4
<1>14. QED
  BY <1>10, <1>11, <1>12, <1>13 DEF NearSteps

-----------------------------------------------------------------------------
(* Tokens.                                                                 *)

LEMMA TokenJobIs ==
    ASSUME job \in Jobs, job.kind = "tokens"
    PROVE  /\ job.tokens \in Seq(Spans) /\ job.len \in Nat
           /\ Len(job.tokens) \in Nat /\ DOMAIN job.tokens = 1 .. Len(job.tokens)
           /\ \A p \in 1 .. Len(job.tokens) : /\ job.tokens[p].b \in Nat /\ job.tokens[p].e \in Nat
                                              /\ job.tokens[p].b < job.tokens[p].e /\ job.tokens[p].e <= job.len
           /\ \A p, q \in 1 .. Len(job.tokens) : p < q => job.tokens[p].e <= job.tokens[q].b
           /\ DOMAIN job.seps \subseteq 0 .. job.len - 1 /\ \A p \in DOMAIN job.seps : job.seps[p] \in BOOLEAN
<1>1. /\ job.tokens \in Seq(Spans) /\ job.len \in Nat
      /\ \A p, q \in DOMAIN job.tokens : p < q => job.tokens[p].e <= job.tokens[q].b
      /\ \A p \in DOMAIN job.tokens : job.tokens[p].b < job.tokens[p].e /\ job.tokens[p].e <= job.len
      /\ DOMAIN job.seps \subseteq 0 .. job.len - 1 /\ \A p \in DOMAIN job.seps : job.seps[p] \in BOOLEAN
  BY JobsAssumption
<1>2. Len(job.tokens) \in Nat /\ DOMAIN job.tokens = 1 .. Len(job.tokens)
  BY <1>1
<1>3. \A p \in 1 .. Len(job.tokens) : job.tokens[p] \in Spans
  BY <1>1, <1>2
<1>4. \A p \in 1 .. Len(job.tokens) : job.tokens[p].b \in Nat /\ job.tokens[p].e \in Nat
  BY <1>3 DEF Spans
<1>5. QED
  BY <1>1, <1>2, <1>4

LEMMA LeastNumber ==
    ASSUME NEW S, S \subseteq Nat, S # {}
    PROVE  \E s \in S : \A t \in S : s <= t
<1>1. IsWellFoundedOn(OpToRel(<, Nat), Nat)
  BY NatLessThanWellFounded
<1>2. PICK x \in S : \A y \in S : ~ (<<y, x>> \in OpToRel(<, Nat))
  BY <1>1, WFMin
<1>3. \A y \in S : ~(y < x) /\ y \in Nat
  BY <1>2 DEF OpToRel
<1>4. QED
  BY <1>3

\* The next separator: there is none behind the end of the text.
LEMMA SeparatorIs ==
    ASSUME job \in Jobs, job.kind = "tokens", NEW p \in Nat
    PROVE  LET s == NextSeparator(p)
           IN  /\ s \in Nat
               /\ \A u \in DOMAIN job.seps : u >= p => s <= u
               /\ s \in DOMAIN job.seps => s >= p
               /\ s \notin DOMAIN job.seps => \A u \in DOMAIN job.seps : ~(u >= p)
<1> DEFINE after == {s \in DOMAIN job.seps : s >= p}
<1>1. DOMAIN job.seps \subseteq 0 .. job.len - 1 /\ job.len \in Nat
  BY TokenJobIs
<1>2. CASE after = {}
  <2>1. NextSeparator(p) = job.len
    BY <1>2 DEF NextSeparator
  <2>2. job.len \notin DOMAIN job.seps
    BY <1>1
  <2>3. QED
    BY <1>1, <1>2, <2>1, <2>2
<1>3. CASE after # {}
  <2>1. after \subseteq Nat
    BY <1>1
  <2>2. \E s \in after : \A t \in after : s <= t
    BY <1>3, <2>1, LeastNumber
  <2>3. NextSeparator(p) = CHOOSE s \in after : \A t \in after : s <= t
    BY <1>3 DEF NextSeparator
  <2> HIDE DEF after
  <2>4. NextSeparator(p) \in after /\ \A t \in after : NextSeparator(p) <= t
    BY <2>2, <2>3
  <2>5. QED
    BY <2>1, <2>4 DEF after
<1>4. QED
  BY <1>2, <1>3

\* A token matches exactly when the next separator behind it is right.
LEMMA MatchesAt ==
    ASSUME job \in Jobs, job.kind = "tokens", NEW t, t.e \in Nat
    PROVE  Matches(t) <=> RightAt(NextSeparator(t.e))
<1> DEFINE s == NextSeparator(t.e)
<1>1. /\ s \in Nat
      /\ \A u \in DOMAIN job.seps : u >= t.e => s <= u
      /\ s \in DOMAIN job.seps => s >= t.e
      /\ s \notin DOMAIN job.seps => \A u \in DOMAIN job.seps : ~(u >= t.e)
  BY SeparatorIs
<1>2. DOMAIN job.seps \subseteq Nat
  BY TokenJobIs
<1> HIDE DEF s
<1>3. ASSUME Matches(t) PROVE RightAt(s)
  <2>1. PICK x \in DOMAIN job.seps : x >= t.e /\ job.seps[x] /\ \A u \in DOMAIN job.seps : u >= t.e => x <= u
    BY <1>3 DEF Matches
  <2>2. s \in DOMAIN job.seps
    BY <1>1, <2>1
  <2>3. x = s
    BY <1>1, <1>2, <2>1, <2>2
  <2>4. QED
    BY <2>1, <2>2, <2>3 DEF RightAt
<1>4. ASSUME RightAt(s) PROVE Matches(t)
  BY <1>1, <1>4 DEF RightAt, Matches
<1>5. QED
  BY <1>3, <1>4 DEF s

TokensOK ==
    job.kind = "tokens" =>
        /\ stage \in 0 .. 1 /\ here \in Nat /\ pos \in Nat \cup {-1} /\ good \in BOOLEAN
        /\ stage = 0 => ~done
        /\ stage > 0 => /\ here \in 1 .. Len(job.tokens) + 1
                        /\ ~done => /\ \A p \in 1 .. here - 1 : ~Matches(job.tokens[p])
                                    /\ ~good
                                    /\ pos # -1 => \E p \in 1 .. here - 1 : pos = NextSeparator(job.tokens[p].e)
        /\ TokenIsFirst

\* Before a separator that was looked at, a token is what the one before it was.
LEMMA SharesItsLook ==
    ASSUME job \in Jobs, job.kind = "tokens", NEW p \in 1 .. Len(job.tokens), NEW q \in 1 .. Len(job.tokens), p < q,
           job.tokens[q].e <= NextSeparator(job.tokens[p].e)
    PROVE  Matches(job.tokens[q]) <=> Matches(job.tokens[p])
<1> DEFINE s == NextSeparator(job.tokens[p].e)
           r == NextSeparator(job.tokens[q].e)
<1>1. /\ job.tokens[p].e \in Nat /\ job.tokens[q].e \in Nat /\ job.tokens[p].e <= job.tokens[q].e
      /\ DOMAIN job.seps \subseteq Nat
  <2>1. /\ \A i \in 1 .. Len(job.tokens) : /\ job.tokens[i].b \in Nat /\ job.tokens[i].e \in Nat
                                            /\ job.tokens[i].b < job.tokens[i].e
        /\ \A i, k \in 1 .. Len(job.tokens) : i < k => job.tokens[i].e <= job.tokens[k].b
    BY TokenJobIs
  <2>2. DOMAIN job.seps \subseteq 0 .. job.len - 1 /\ job.len \in Nat
    BY TokenJobIs
  <2>3. DOMAIN job.seps \subseteq Nat
    BY <2>2
  <2>4. QED
    BY <2>1, <2>3
<1>2. /\ s \in Nat
      /\ \A u \in DOMAIN job.seps : u >= job.tokens[p].e => s <= u
      /\ s \in DOMAIN job.seps => s >= job.tokens[p].e
      /\ s \notin DOMAIN job.seps => \A u \in DOMAIN job.seps : ~(u >= job.tokens[p].e)
  BY <1>1, SeparatorIs
<1>3. /\ r \in Nat
      /\ \A u \in DOMAIN job.seps : u >= job.tokens[q].e => r <= u
      /\ r \in DOMAIN job.seps => r >= job.tokens[q].e
      /\ r \notin DOMAIN job.seps => \A u \in DOMAIN job.seps : ~(u >= job.tokens[q].e)
  BY <1>1, SeparatorIs
<1>4. (Matches(job.tokens[p]) <=> RightAt(s)) /\ (Matches(job.tokens[q]) <=> RightAt(r))
  BY <1>1, MatchesAt
<1>5. job.tokens[q].e <= s
  OBVIOUS
<1> HIDE DEF s, r
<1>6. CASE r \in DOMAIN job.seps \/ s \in DOMAIN job.seps
  <2>1. s \in DOMAIN job.seps /\ r \in DOMAIN job.seps
    BY <1>1, <1>2, <1>3, <1>5, <1>6
  <2>2. s = r
    <3>1. s >= job.tokens[p].e /\ s >= job.tokens[q].e /\ r >= job.tokens[q].e /\ r >= job.tokens[p].e
      BY <1>1, <1>2, <1>3, <1>5, <2>1
    <3>2. s <= r /\ r <= s
      BY <1>2, <1>3, <2>1, <3>1
    <3>3. QED
      BY <1>2, <1>3, <3>2
  <2>3. QED
    BY <1>4, <2>2
<1>7. CASE r \notin DOMAIN job.seps /\ s \notin DOMAIN job.seps
  BY <1>4, <1>7 DEF RightAt
<1>8. QED
  BY <1>6, <1>7

LEMMA TokensStay ==
    ASSUME job \in Jobs, job.kind = "tokens", ~done, TokensOK, TokenSteps, job' = job
    PROVE  TokensOK'
<1> DEFINE n == Len(job.tokens)
<1>1. /\ n \in Nat /\ DOMAIN job.tokens = 1 .. n
      /\ \A p \in 1 .. n : job.tokens[p].e \in Nat
  BY TokenJobIs
<1>2. /\ stage \in 0 .. 1 /\ here \in Nat /\ pos \in Nat \cup {-1} /\ good \in BOOLEAN
      /\ stage > 0 => /\ here \in 1 .. n + 1
                      /\ \A p \in 1 .. here - 1 : ~Matches(job.tokens[p])
                      /\ ~good
                      /\ pos # -1 => \E p \in 1 .. here - 1 : pos = NextSeparator(job.tokens[p].e)
  BY DEF TokensOK
<1>3. \A t : Matches(t)' <=> Matches(t)
  BY DEF Matches
<1>4. \A p : NextSeparator(p)' = NextSeparator(p)
  BY DEF NextSeparator
<1>5. CASE StartTokens
  <2>1. ~done' /\ stage' = 1 /\ here' = 1 /\ pos' = -1 /\ ~good' /\ good' \in BOOLEAN
    BY <1>5 DEF StartTokens, Go
  <2>2. here' \in 1 .. n + 1 /\ 1 .. here' - 1 = {}
    BY <1>1, <2>1
  <2>3. QED
    BY <2>1, <2>2 DEF TokensOK, TokenIsFirst
<1>6. CASE TryToken
  <2>1. stage = 1 /\ stage' = 1 /\ here \in 1 .. n
    BY <1>2, <1>6 DEF TryToken
  <2> DEFINE e == job.tokens[here].e
  <2>2. e \in Nat
    BY <1>1, <2>1
  <2>3. /\ pos' = IF e > pos THEN NextSeparator(e) ELSE pos
        /\ good' = IF e > pos THEN RightAt(pos') ELSE good
        /\ IF good' THEN out' = <<job.tokens[here].b>> /\ done' /\ here' = here
           ELSE ~done' /\ out' = out /\ here' = here + 1
    BY <1>6 DEF TryToken, Token, SegmentEnd, Return, Go
  <2>4. NextSeparator(e) \in Nat
    BY <2>2, SeparatorIs
  <2>5. RightAt(pos') \in BOOLEAN
    BY TokenJobIs DEF RightAt
  <2>6. pos' \in Nat \cup {-1} /\ good' \in BOOLEAN /\ here' \in Nat
    BY <1>2, <2>1, <2>3, <2>4, <2>5
  <2>7. good' <=> Matches(job.tokens[here])
    <3>1. CASE e > pos
      BY <2>2, <2>3, <3>1, MatchesAt
    <3>2. CASE ~(e > pos)
      <4>1. pos # -1 /\ pos \in Nat
        BY <1>2, <2>2, <3>2
      <4>2. PICK p \in 1 .. here - 1 : pos = NextSeparator(job.tokens[p].e)
        BY <1>2, <2>1, <4>1
      <4>3. p \in 1 .. n /\ p < here /\ e <= NextSeparator(job.tokens[p].e)
        BY <1>1, <2>1, <2>2, <3>2, <4>1, <4>2
      <4>4. Matches(job.tokens[here]) <=> Matches(job.tokens[p])
        BY <2>1, <4>3, SharesItsLook
      <4>5. ~Matches(job.tokens[p])
        BY <1>2, <2>1, <4>2
      <4>6. QED
        BY <1>2, <2>1, <2>3, <3>2, <4>4, <4>5
    <3>3. QED
      BY <3>1, <3>2
  <2>8. CASE good'
    <3>1. out' = <<job.tokens[here].b>> /\ done' /\ here' = here
      BY <2>3, <2>8
    <3>2. Matches(job.tokens[here]) /\ \A q \in 1 .. n : Matches(job.tokens[q]) => here <= q
      BY <1>1, <1>2, <2>1, <2>7, <2>8
    <3>3. TokenIsFirst'
      <4> DEFINE matching == {p \in DOMAIN job.tokens : Matches(job.tokens[p])}
      <4>1. here \in matching /\ \A q \in matching : here <= q
        BY <1>1, <2>1, <3>2
      <4>2. {p \in DOMAIN job.tokens : Matches(job.tokens[p])}' = matching
        BY DEF Matches
      <4> HIDE DEF matching
      <4>3. QED
        BY <3>1, <4>1, <4>2 DEF TokenIsFirst
    <3>4. QED
      BY <1>2, <2>1, <2>6, <3>1, <3>3 DEF TokensOK
  <2>9. CASE ~good'
    <3>1. ~done' /\ here' = here + 1
      BY <2>3, <2>9
    <3>2. here' \in 1 .. n + 1
      BY <1>1, <2>1, <3>1
    <3>3. \A p \in 1 .. here' - 1 : ~Matches(job.tokens[p])
      <4>1. \A p \in 1 .. here' - 1 : p \in 1 .. here - 1 \/ p = here
        BY <1>2, <2>1, <3>1
      <4>2. QED
        BY <1>2, <2>1, <2>7, <2>9, <4>1
    <3>4. pos' # -1 => \E p \in 1 .. here' - 1 : pos' = NextSeparator(job.tokens[p].e)
      <4>1. here \in 1 .. here' - 1 /\ \A p \in 1 .. here - 1 : p \in 1 .. here' - 1
        BY <1>2, <2>1, <3>1
      <4>2. CASE e > pos
        BY <2>3, <4>1, <4>2
      <4>3. CASE ~(e > pos)
        BY <1>2, <2>1, <2>3, <4>1, <4>3
      <4>4. QED
        BY <4>2, <4>3
    <3>5. TokenIsFirst'
      BY <3>1 DEF TokenIsFirst
    <3>6. (\A p \in 1 .. here - 1 : ~Matches(job.tokens[p]))'
      BY <3>3 DEF Matches
    <3>7. (pos # -1 => \E p \in 1 .. here - 1 : pos = NextSeparator(job.tokens[p].e))'
      BY <3>4 DEF NextSeparator
    <3>8. QED
      BY <2>1, <2>6, <2>9, <3>1, <3>2, <3>5, <3>6, <3>7 DEF TokensOK
  <2>10. QED
    BY <2>8, <2>9
<1>7. CASE NoToken
  <2>1. /\ stage = 1 /\ here > n /\ out' = <<>> /\ done'
        /\ stage' = stage /\ here' = here /\ pos' = pos /\ good' = good
    BY <1>7 DEF NoToken, Return, counters, reach
  <2>2. \A p \in DOMAIN job.tokens : ~Matches(job.tokens[p])
    BY <1>1, <1>2, <2>1
  <2>3. {p \in DOMAIN job.tokens : Matches(job.tokens[p])}' = {}
    BY <2>2 DEF Matches
  <2>4. TokenIsFirst'
    BY <2>1, <2>3 DEF TokenIsFirst
  <2>5. QED
    BY <1>2, <2>1, <2>4 DEF TokensOK
<1>8. QED
  BY <1>5, <1>6, <1>7 DEF TokenSteps

-----------------------------------------------------------------------------
(* Helpers that reach a shell.                                             *)

LEMMA HelperJobIs ==
    ASSUME job \in Jobs, job.kind = "helpers"
    PROVE  job.passes \subseteq job.functions \X job.functions /\ job.sinks \subseteq job.functions
  BY JobsAssumption

\* The sinks, and with each function its callers.
IsClosed(s) == job.sinks \subseteq s /\ \A p \in job.passes : p[2] \in s => p[1] \in s

HelpersOK ==
    job.kind = "helpers" =>
        /\ stage \in 0 .. 1
        /\ stage = 0 => ~done
        /\ stage = 1 => /\ job.sinks \subseteq found /\ found \subseteq job.functions /\ todo \subseteq found
                        /\ \A p \in job.passes : p[2] \in found \ todo => p[1] \in found
                        /\ \A s \in SUBSET job.functions : IsClosed(s) => found \subseteq s
        /\ done => todo = {}

LEMMA HelpersStay ==
    ASSUME job \in Jobs, job.kind = "helpers", ~done, HelpersOK, HelperSteps, job' = job
    PROVE  HelpersOK'
<1>1. job.passes \subseteq job.functions \X job.functions /\ job.sinks \subseteq job.functions
  BY HelperJobIs
<1>2. \A s : IsClosed(s)' <=> IsClosed(s)
  BY DEF IsClosed
<1>3. CASE StartHelpers
  <2>1. ~done' /\ stage' = 1 /\ found' = job.sinks /\ todo' = job.sinks
    BY <1>3 DEF StartHelpers, Go
  <2>2. \A s \in SUBSET job.functions : IsClosed(s) => found' \subseteq s
    BY <2>1 DEF IsClosed
  <2>3. QED
    BY <1>1, <1>2, <2>1, <2>2 DEF HelpersOK
<1>4. CASE TakeHelper
  <2>1. ~done' /\ stage = 1 /\ stage' = 1
    BY <1>4 DEF TakeHelper, Go, counters
  <2>2. PICK h \in todo : found' = found \cup Callers(h) /\ todo' = (todo \ {h}) \cup (Callers(h) \ found)
    BY <1>4 DEF TakeHelper
  <2>3. /\ job.sinks \subseteq found /\ found \subseteq job.functions /\ todo \subseteq found
        /\ \A p \in job.passes : p[2] \in found \ todo => p[1] \in found
        /\ \A s \in SUBSET job.functions : IsClosed(s) => found \subseteq s
    BY <2>1 DEF HelpersOK
  <2>4. Callers(h) \subseteq job.functions /\ \A f : f \in Callers(h) => <<f, h>> \in job.passes
    BY DEF Callers
  <2>5. ASSUME NEW p \in job.passes, p[2] \in found' \ todo'
        PROVE  p[1] \in found'
    <3>1. p[1] \in job.functions /\ p = <<p[1], p[2]>>
      BY <1>1
    <3>2. CASE p[2] = h
      <4>1. p[1] \in Callers(h)
        BY <3>1, <3>2 DEF Callers
      <4>2. QED
        BY <2>2, <4>1
    <3>3. CASE p[2] # h
      <4>1. p[2] \in found \ todo
        BY <2>2, <2>5, <3>3
      <4>2. QED
        BY <2>2, <2>3, <4>1
    <3>4. QED
      BY <3>2, <3>3
  <2>6. ASSUME NEW s \in SUBSET job.functions, IsClosed(s)
        PROVE  found' \subseteq s
    <3>1. h \in s
      BY <2>3, <2>6
    <3>2. \A f \in Callers(h) : f \in s
      <4>1. ASSUME NEW f \in Callers(h) PROVE f \in s
        <5>1. <<f, h>> \in job.passes /\ <<f, h>>[1] = f /\ <<f, h>>[2] = h
          BY <2>4
        <5>2. QED
          BY <2>6, <3>1, <5>1 DEF IsClosed
      <4>2. QED
        BY <4>1
    <3>3. QED
      BY <2>2, <2>3, <2>6, <3>2
  <2>7. job.sinks \subseteq found' /\ found' \subseteq job.functions /\ todo' \subseteq found'
    BY <2>2, <2>3, <2>4
  <2>8. QED
    BY <1>2, <2>1, <2>5, <2>6, <2>7 DEF HelpersOK
<1>5. CASE HelpersDone
  <2>1. done' /\ stage = 1 /\ todo = {} /\ stage' = stage /\ found' = found /\ todo' = todo
    BY <1>5 DEF HelpersDone, Return, counters, sets
  <2>2. QED
    BY <1>2, <2>1 DEF HelpersOK
<1>6. QED
  BY <1>3, <1>4, <1>5 DEF HelperSteps

LEMMA HelpersAreRight ==
    ASSUME job \in Jobs, HelpersOK
    PROVE  HelpersAreAll
<1> SUFFICES ASSUME job.kind = "helpers", done
             PROVE  found = {f \in job.functions : \A s \in SUBSET job.functions : IsClosed(s) => f \in s}
  BY DEF HelpersAreAll, IsClosed
<1>1. /\ job.sinks \subseteq found /\ found \subseteq job.functions /\ todo = {}
      /\ \A p \in job.passes : p[2] \in found \ todo => p[1] \in found
      /\ \A s \in SUBSET job.functions : IsClosed(s) => found \subseteq s
  BY DEF HelpersOK
<1>2. IsClosed(found) /\ found \in SUBSET job.functions
  BY <1>1 DEF IsClosed
<1>3. QED
  BY <1>1, <1>2

-----------------------------------------------------------------------------
(* Pieces of a long line.                                                  *)

LineOK ==
    job.kind = "line" =>
        /\ pos \in Nat /\ found \subseteq Nat
        /\ \A a \in 0 .. pos - 1 : \E s \in found : s <= a /\ a < s + Step
        /\ done => pos >= job.len

LEMMA LineStays ==
    ASSUME job \in Jobs, job.kind = "line", ~done, LineOK, PieceSteps, job' = job
    PROVE  LineOK'
<1>1. Step \in Nat \ {0} /\ job.len \in Nat
  BY SizesAre, JobsAssumption
<1>2. /\ pos \in Nat /\ found \subseteq Nat
      /\ \A a \in 0 .. pos - 1 : \E s \in found : s <= a /\ a < s + Step
  BY DEF LineOK
<1>3. CASE CutPiece
  <2>1. ~done' /\ found' = found \cup {pos} /\ pos' = pos + Step
    BY <1>3 DEF CutPiece, Go
  <2>2. ASSUME NEW a \in 0 .. pos' - 1
        PROVE  \E s \in found' : s <= a /\ a < s + Step
    <3>1. CASE a < pos
      <4>1. a \in 0 .. pos - 1
        BY <1>2, <3>1
      <4>2. QED
        BY <1>2, <2>1, <4>1
    <3>2. CASE ~(a < pos)
      <4>1. pos <= a /\ a < pos + Step /\ pos \in found'
        BY <1>1, <1>2, <2>1, <3>2
      <4>2. QED
        BY <4>1
    <3>3. QED
      BY <3>1, <3>2
  <2>3. pos' \in Nat /\ found' \subseteq Nat
    BY <1>1, <1>2, <2>1
  <2>4. QED
    BY <2>1, <2>2, <2>3 DEF LineOK
<1>4. CASE LineCut
  <2>1. pos >= job.len /\ pos' = pos /\ found' = found
    BY <1>4 DEF LineCut, reach, sets
  <2>2. QED
    BY <1>2, <2>1 DEF LineOK
<1>5. QED
  BY <1>3, <1>4 DEF PieceSteps

LEMMA PiecesAreRight ==
    ASSUME job \in Jobs, LineOK
    PROVE  PiecesHold
<1> SUFFICES ASSUME job.kind = "line", done, NEW a \in 0 .. job.len - 1, NEW b \in a .. job.len - 1, b - a <= Chunk - Step
             PROVE  \E s \in found : a .. b \subseteq Piece(s)
  BY DEF PiecesHold
<1>1. Step \in Nat \ {0} /\ Chunk \in Nat /\ job.len \in Nat
  BY SizesAre, JobsAssumption
<1>2. pos \in Nat /\ pos >= job.len /\ found \subseteq Nat
  BY DEF LineOK
<1>3. a \in 0 .. pos - 1
  BY <1>1, <1>2
<1>4. PICK s \in found : s <= a /\ a < s + Step
  BY <1>3 DEF LineOK
<1>5. s \in Nat /\ a .. b \subseteq s .. s + Chunk - 1
  BY <1>1, <1>2, <1>4
<1>6. QED
  BY <1>5 DEF Piece

-----------------------------------------------------------------------------
(* Tensors that tile the data.                                             *)

LEMMA SpanJobIs ==
    ASSUME job \in Jobs, job.kind = "spans"
    PROVE  /\ job.header \in BOOLEAN /\ job.data \in Nat /\ IsFiniteSet(Tensors)
           /\ \A t \in Tensors : job.tensors[t].b \in Nat /\ job.tensors[t].e \in Nat /\ job.tensors[t].sized \in BOOLEAN
  BY JobsAssumption DEF Tensors

Owns(t, byte) == job.tensors[t].b <= byte /\ byte < job.tensors[t].e

LEMMA OneOwner ==
    ASSUME job \in Jobs, job.kind = "spans", NEW byte
    PROVE  Cardinality(Owners(byte)) = 1 <=> \E t \in Tensors : /\ Owns(t, byte)
                                                                /\ \A u \in Tensors : Owns(u, byte) => u = t
<1>1. Owners(byte) \subseteq Tensors /\ \A t : t \in Owners(byte) <=> t \in Tensors /\ Owns(t, byte)
  BY DEF Owners, Owns
<1>2. IsFiniteSet(Owners(byte))
  BY <1>1, SpanJobIs, FS_Subset
<1>3. Cardinality(Owners(byte)) = 1 <=> \E t : Owners(byte) = {t}
  BY <1>2, FS_Singleton
<1>4. QED
  BY <1>1, <1>3

WellFormed == job.header /\ \A t \in Tensors : ~Malformed(t)

\* A file whose tensors tile its data.
Tiles ==
    /\ WellFormed
    /\ \A byte \in 0 .. job.data - 1 : \E t \in Tensors : Owns(t, byte) /\ \A u \in Tensors : Owns(u, byte) => u = t
    /\ \A t \in Tensors : job.tensors[t].e <= job.data /\ job.tensors[t].b \in TensorEnds

\* The same by counting owners, as TiledExactly has it.
TiledByCount ==
    /\ WellFormed
    /\ \A byte \in 0 .. job.data - 1 : Cardinality(Owners(byte)) = 1
    /\ \A t \in Tensors : job.tensors[t].e <= job.data /\ job.tensors[t].b \in TensorEnds

LEMMA TilesIs ==
    ASSUME job \in Jobs, job.kind = "spans"
    PROVE  TiledByCount <=> Tiles
  BY OneOwner DEF TiledByCount, Tiles

\* The tensors taken so far tile the data up to pos, and come before the rest.
Laid ==
    /\ WellFormed /\ todo \subseteq Tensors /\ pos \in TensorEnds
    /\ \A t \in Tensors \ todo : /\ job.tensors[t].e <= pos /\ job.tensors[t].b \in TensorEnds
                                 /\ \A u \in todo : Before(t, u)
    /\ \A byte \in 0 .. pos - 1 : \E t \in Tensors \ todo : Owns(t, byte)
    /\ \A byte \in Nat, t, u \in Tensors \ todo : Owns(t, byte) /\ Owns(u, byte) => t = u

SpansOK ==
    job.kind = "spans" =>
        /\ stage \in 0 .. 1 /\ pos \in Nat
        /\ ~done => IF stage = 0 THEN pos = 0 ELSE Laid
        /\ TiledExactly

\* A tensor that does not start where those before it end leaves a hole or
\* overlaps one of them.
LEMMA MisplacedSpan ==
    ASSUME job \in Jobs, job.kind = "spans", pos \in Nat, Laid, NEW t \in todo, \A u \in todo : Before(t, u),
           job.tensors[t].b # pos
    PROVE  ~Tiles
<1> SUFFICES ASSUME Tiles PROVE FALSE
  OBVIOUS
<1>1. /\ job.data \in Nat /\ todo \subseteq Tensors
      /\ \A u \in Tensors : /\ job.tensors[u].b \in Nat /\ job.tensors[u].e \in Nat
                            /\ job.tensors[u].b <= job.tensors[u].e /\ job.tensors[u].e <= job.data
  BY SpanJobIs DEF Laid, Tiles, WellFormed, Malformed
<1>2. \A byte \in 0 .. job.data - 1 : \E v \in Tensors : Owns(v, byte) /\ \A u \in Tensors : Owns(u, byte) => u = v
  BY DEF Tiles
<1>3. t \in Tensors /\ job.tensors[t].b \in Nat /\ job.tensors[t].e \in Nat
      /\ job.tensors[t].b <= job.tensors[t].e /\ job.tensors[t].e <= job.data
  BY <1>1
<1>4. CASE job.tensors[t].b > pos
  <2>1. pos \in 0 .. job.data - 1
    BY <1>1, <1>3, <1>4
  <2>2. PICK v \in Tensors : Owns(v, pos)
    BY <1>2, <2>1
  <2>3. v \in todo
    BY <1>1, <2>2 DEF Laid, Owns
  <2>4. job.tensors[t].b <= job.tensors[v].b
    BY <1>1, <1>3, <2>3 DEF Before
  <2>5. QED
    BY <1>1, <1>3, <1>4, <2>2, <2>4 DEF Owns
<1>5. CASE job.tensors[t].b < pos
  <2>1. job.tensors[t].b \in 0 .. pos - 1
    BY <1>3, <1>5
  <2>2. PICK v \in Tensors \ todo : Owns(v, job.tensors[t].b)
    BY <2>1 DEF Laid
  <2>3. v # t /\ Before(v, t)
    BY <2>2 DEF Laid
  <2>4. job.tensors[v].b \in Nat /\ job.tensors[v].e \in Nat /\ job.tensors[v].e <= job.data
    BY <1>1
  <2>5. CASE job.tensors[t].b < job.tensors[t].e
    <3>1. Owns(t, job.tensors[t].b) /\ job.tensors[t].b \in 0 .. job.data - 1
      BY <1>1, <1>3, <2>5 DEF Owns
    <3>2. QED
      BY <1>2, <1>3, <2>2, <2>3, <3>1
  <2>6. CASE job.tensors[t].b = job.tensors[t].e
    <3>1. job.tensors[v].b < job.tensors[t].b /\ job.tensors[t].b < job.tensors[v].e
      BY <1>3, <2>2, <2>3, <2>4, <2>6 DEF Before, Owns
    <3>2. job.tensors[t].b \in TensorEnds /\ job.tensors[t].b # 0
      BY <1>3, <2>4, <3>1 DEF Tiles
    <3>3. PICK u \in Tensors : job.tensors[u].b < job.tensors[u].e /\ job.tensors[u].e = job.tensors[t].b
      BY <3>2 DEF TensorEnds
    <3> DEFINE last == job.tensors[t].b - 1
    <3>4. job.tensors[u].b \in Nat /\ job.tensors[u].e \in Nat
      BY <1>1
    <3>5. last \in 0 .. job.data - 1 /\ Owns(u, last) /\ Owns(v, last)
      BY <1>1, <1>3, <2>4, <3>1, <3>2, <3>3, <3>4 DEF Owns
    <3>6. u = v
      <4> HIDE DEF last
      <4>1. QED
        BY <1>2, <3>5
    <3>7. QED
      BY <3>1, <3>3, <3>6, <3>4, <2>4, <1>3
  <2>7. QED
    BY <1>3, <2>5, <2>6
<1>6. QED
  BY <1>3, <1>4, <1>5

\* When all tensors are taken, they tile the data if they end where it ends.
LEMMA AllLaid ==
    ASSUME job \in Jobs, job.kind = "spans", pos \in Nat, Laid, todo = {}
    PROVE  Tiles <=> pos = job.data
<1>1. /\ job.data \in Nat /\ Tensors \ todo = Tensors
      /\ \A u \in Tensors : job.tensors[u].b \in Nat /\ job.tensors[u].e \in Nat
  BY SpanJobIs
<1>2. CASE pos = job.data
  <2>1. ASSUME NEW byte \in 0 .. job.data - 1
        PROVE  \E t \in Tensors : Owns(t, byte) /\ \A u \in Tensors : Owns(u, byte) => u = t
    <3>1. PICK t \in Tensors : Owns(t, byte)
      BY <1>1, <1>2 DEF Laid
    <3>2. byte \in Nat
      BY <1>1
    <3>3. QED
      BY <1>1, <3>1, <3>2 DEF Laid
  <2>2. QED
    BY <1>1, <1>2, <2>1 DEF Laid, Tiles
<1>3. CASE pos < job.data
  <2>1. pos \in 0 .. job.data - 1
    BY <1>1, <1>3
  <2>2. \A t \in Tensors : ~Owns(t, pos)
    BY <1>1 DEF Laid, Owns
  <2>3. QED
    BY <1>1, <1>3, <2>1, <2>2 DEF Tiles
<1>4. CASE pos > job.data
  <2>1. PICK u \in Tensors : job.tensors[u].e = pos
    BY <1>1, <1>4 DEF Laid, TensorEnds
  <2>2. QED
    BY <1>1, <1>4, <2>1 DEF Tiles
<1>5. QED
  BY <1>1, <1>2, <1>3, <1>4

LEMMA LaidStays ==
    ASSUME job \in Jobs, job.kind = "spans", pos \in Nat, Laid, job' = job, NEW t \in todo, \A u \in todo : Before(t, u),
           job.tensors[t].b = pos, pos' = job.tensors[t].e, todo' = todo \ {t}
    PROVE  Laid' /\ pos' \in Nat
<1>1. /\ todo \subseteq Tensors
      /\ \A u \in Tensors : /\ job.tensors[u].b \in Nat /\ job.tensors[u].e \in Nat /\ job.tensors[u].b <= job.tensors[u].e
  BY SpanJobIs DEF Laid, WellFormed, Malformed
<1>2. t \in Tensors /\ pos' \in Nat /\ pos <= pos' /\ Tensors \ todo' = (Tensors \ todo) \cup {t}
  BY <1>1
<1>3. pos' \in TensorEnds
  <2>1. CASE pos = pos'
    BY <2>1 DEF Laid
  <2>2. CASE pos # pos'
    <3>1. job.tensors[t].b < job.tensors[t].e
      BY <1>1, <1>2, <2>2
    <3>2. QED
      BY <1>2, <3>1 DEF TensorEnds
  <2>3. QED
    BY <2>1, <2>2
<1>4. ASSUME NEW v \in Tensors \ todo'
      PROVE  /\ job.tensors[v].e <= pos' /\ job.tensors[v].b \in TensorEnds
             /\ \A u \in todo' : Before(v, u)
  <2>1. CASE v = t
    BY <1>2, <2>1 DEF Laid
  <2>2. CASE v # t
    <3>1. v \in Tensors \ todo /\ job.tensors[v].e \in Nat
      BY <1>1, <1>2, <2>2
    <3>2. job.tensors[v].e <= pos /\ job.tensors[v].b \in TensorEnds /\ \A u \in todo : Before(v, u)
      BY <3>1 DEF Laid
    <3>3. QED
      BY <1>2, <3>1, <3>2
  <2>3. QED
    BY <2>1, <2>2
<1>5. ASSUME NEW byte \in 0 .. pos' - 1
      PROVE  \E v \in Tensors \ todo' : Owns(v, byte)
  <2>1. CASE byte < pos
    <3>1. byte \in 0 .. pos - 1
      BY <1>2, <2>1
    <3>2. QED
      BY <1>2, <3>1 DEF Laid
  <2>2. CASE ~(byte < pos)
    BY <1>2, <2>2 DEF Owns
  <2>3. QED
    BY <2>1, <2>2
<1>6. ASSUME NEW byte \in Nat, NEW v \in Tensors \ todo', NEW u \in Tensors \ todo', Owns(v, byte), Owns(u, byte)
      PROVE  v = u
  <2>1. ASSUME NEW x \in Tensors \ todo, Owns(x, byte)
        PROVE  ~Owns(t, byte)
    <3>1. job.tensors[x].e <= pos /\ job.tensors[x].e \in Nat
      BY <1>1 DEF Laid
    <3>2. QED
      BY <1>1, <2>1, <3>1 DEF Owns
  <2>2. CASE v = t \/ u = t
    BY <1>2, <1>6, <2>1, <2>2
  <2>3. CASE v # t /\ u # t
    <3>1. v \in Tensors \ todo /\ u \in Tensors \ todo
      BY <1>2, <2>3
    <3>2. QED
      BY <1>6, <3>1 DEF Laid
  <2>4. QED
    BY <2>2, <2>3
<1>7. /\ Tensors' = Tensors /\ TensorEnds' = TensorEnds /\ WellFormed' = WellFormed
      /\ \A v, u : Before(v, u)' <=> Before(v, u)
      /\ \A v, byte : Owns(v, byte)' <=> Owns(v, byte)
  BY DEF Tensors, TensorEnds, WellFormed, Malformed, Before, Owns
<1>8. WellFormed /\ todo' \subseteq Tensors
  BY <1>1 DEF Laid
<1>9. /\ \A v \in Tensors' \ todo' : /\ job'.tensors[v].e <= pos' /\ job'.tensors[v].b \in TensorEnds'
                                     /\ \A u \in todo' : Before(v, u)'
      /\ \A byte \in 0 .. pos' - 1 : \E v \in Tensors' \ todo' : Owns(v, byte)'
      /\ \A byte \in Nat, v, u \in Tensors' \ todo' : Owns(v, byte)' /\ Owns(u, byte)' => v = u
  BY <1>4, <1>5, <1>6, <1>7
<1>10. WellFormed' /\ todo' \subseteq Tensors' /\ pos' \in TensorEnds'
  BY <1>3, <1>7, <1>8
<1>11. QED
  BY <1>2, <1>9, <1>10 DEF Laid

LEMMA SpansStay ==
    ASSUME job \in Jobs, job.kind = "spans", ~done, SpansOK, SpanSteps, job' = job
    PROVE  SpansOK'
<1>1. stage \in 0 .. 1 /\ pos \in Nat /\ IF stage = 0 THEN pos = 0 ELSE Laid
  BY DEF SpansOK
<1>2. Tiles' <=> Tiles
  BY DEF Tiles, WellFormed, Malformed, Tensors, TensorEnds, Owns
<1>3. job' \in Jobs /\ job'.kind = "spans"
  OBVIOUS
<1>4. TiledExactly' <=> (done' => (out' = <<>> <=> Tiles'))
  <2>1. TiledExactly' <=> (job'.kind = "spans" /\ done' => (out' = <<>> <=> TiledByCount'))
    BY DEF TiledExactly, TiledByCount, WellFormed
  <2>2. TiledByCount' <=> TiledByCount
    BY DEF TiledByCount, WellFormed, Malformed, Tensors, TensorEnds, Owners
  <2>3. QED
    BY <1>2, <1>3, <2>1, <2>2, TilesIs
<1>5. CASE StartSpans
  <2>1. CASE ~job.header \/ \E t \in Tensors : Malformed(t)
    <3>1. out' = <<"problem">> /\ done' /\ stage' = stage /\ pos' = pos
      BY <1>5, <2>1 DEF StartSpans, Return, reach
    <3>2. ~Tiles /\ out' # <<>>
      BY <2>1, <3>1 DEF Tiles, WellFormed
    <3>3. QED
      BY <1>1, <1>2, <1>4, <3>1, <3>2 DEF SpansOK
  <2>2. CASE ~(~job.header \/ \E t \in Tensors : Malformed(t))
    <3>1. ~done' /\ stage' = 1 /\ stage = 0 /\ pos' = pos /\ todo' = Tensors
      BY <1>5, <2>2 DEF StartSpans, Go, reach
    <3>2. WellFormed /\ Tensors' = Tensors
      BY <2>2 DEF WellFormed, Tensors
    <3>3. WellFormed'
      BY <3>2 DEF WellFormed, Tensors, Malformed
    <3>4. pos' = 0 /\ pos' \in TensorEnds'
      BY <1>1, <3>1 DEF TensorEnds
    <3>5. Laid'
      BY <3>1, <3>2, <3>3, <3>4 DEF Laid
    <3>6. QED
      BY <1>4, <3>1, <3>4, <3>5 DEF SpansOK
  <2>3. QED
    BY <2>1, <2>2
<1>6. CASE TakeSpan
  <2>1. stage = 1 /\ stage' = 1 /\ Laid
    BY <1>1, <1>6 DEF TakeSpan, counters
  <2>2. PICK t \in todo :
            /\ \A u \in todo : Before(t, u)
            /\ IF job.tensors[t].b # pos
               THEN out' = <<"problem">> /\ done' /\ pos' = pos
               ELSE ~done' /\ pos' = job.tensors[t].e /\ todo' = todo \ {t}
    BY <1>6 DEF TakeSpan, Return, Go
  <2>3. CASE job.tensors[t].b # pos
    <3>1. ~Tiles
      BY <1>1, <2>1, <2>2, <2>3, MisplacedSpan
    <3>2. out' = <<"problem">> /\ done' /\ pos' = pos /\ out' # <<>>
      BY <2>2, <2>3
    <3>3. QED
      BY <1>1, <1>2, <1>4, <2>1, <3>1, <3>2 DEF SpansOK
  <2>4. CASE job.tensors[t].b = pos
    <3>1. ~done' /\ pos' = job.tensors[t].e /\ todo' = todo \ {t}
      BY <2>2, <2>4
    <3>2. Laid' /\ pos' \in Nat
      BY <1>1, <2>1, <2>2, <2>4, <3>1, LaidStays
    <3>3. QED
      BY <1>4, <2>1, <3>1, <3>2 DEF SpansOK
  <2>5. QED
    BY <2>3, <2>4
<1>7. CASE SpansDone
  <2>1. /\ stage = 1 /\ todo = {} /\ done' /\ stage' = stage /\ pos' = pos
        /\ out' = IF pos # job.data THEN <<"problem">> ELSE <<>>
    BY <1>7 DEF SpansDone, Return, counters, reach
  <2>2. Tiles <=> pos = job.data
    BY <1>1, <2>1, AllLaid
  <2>3. out' = <<>> <=> pos = job.data
    BY <2>1
  <2>4. QED
    BY <1>1, <1>2, <1>4, <2>1, <2>2, <2>3 DEF SpansOK
<1>8. QED
  BY <1>5, <1>6, <1>7 DEF SpanSteps

-----------------------------------------------------------------------------
(* Tensors that fit in the file.                                           *)

TensorType == [dims : Nat, head : Nat, len : Nat, count : Nat, type : Types, off : Nat]

LEMMA GgufJobIs ==
    ASSUME job \in Jobs, job.kind = "gguf"
    PROVE  /\ job.align \in Nat /\ job.pos \in Nat /\ job.size \in Nat /\ job.read \in Nat
           /\ Len(job.tensors) \in Nat /\ DOMAIN job.tensors = 1 .. Len(job.tensors)
           /\ \A n \in 1 .. Len(job.tensors) :
                 /\ job.tensors[n].len \in Nat /\ job.tensors[n].count \in Nat /\ job.tensors[n].off \in Nat
                 /\ job.tensors[n].type \in Types
<1>1. /\ job.align \in Nat /\ job.pos \in Nat /\ job.size \in Nat /\ job.read \in 0 .. job.size
      /\ job.tensors \in Seq(TensorType)
  BY JobsAssumption DEF TensorType
<1>2. Len(job.tensors) \in Nat /\ DOMAIN job.tensors = 1 .. Len(job.tensors)
  BY <1>1
<1>3. \A n \in 1 .. Len(job.tensors) : job.tensors[n] \in TensorType
  BY <1>1, <1>2
<1>4. \A n \in 1 .. Len(job.tensors) :
          /\ job.tensors[n].len \in Nat /\ job.tensors[n].count \in Nat /\ job.tensors[n].off \in Nat
          /\ job.tensors[n].type \in Types
  BY <1>3 DEF TensorType
<1>5. job.read \in Nat
  BY <1>1
<1>6. QED
  BY <1>1, <1>2, <1>4, <1>5

LEMMA QuantIs ==
    /\ Types = {"plain", "packed", Unknown} /\ Unknown \notin {"plain", "packed"}
    /\ QuantSize["plain"].block = 1 /\ QuantSize["plain"].bytes = 1
    /\ QuantSize["packed"].block = 2 /\ QuantSize["packed"].bytes = 3
<1>1. DOMAIN QuantSize = {"plain", "packed"}
  BY DEF QuantSize
<1>2. QuantSize["plain"] = [block |-> 1, bytes |-> 1] /\ QuantSize["packed"] = [block |-> 2, bytes |-> 3]
  BY DEF QuantSize
<1>3. QED
  BY <1>1, <1>2 DEF Types, Unknown

\* The bytes reserved for a tensor hold all its elements, and are a number.
LEMMA BytesAre ==
    ASSUME NEW t, t.type \in Types, t.count \in Nat, Known(t.type)
    PROVE  NBytes(t) \in Nat /\ Needs(t) = NBytes(t)
<1> DEFINE c == t.count
           M(m, size) == m * size >= c /\ (m = 0 \/ (m - 1) * size < c)
<1>1. t.type \in {"plain", "packed"}
  BY QuantIs DEF Known
<1>2. CASE t.type = "plain"
  <2>1. NBytes(t) = c
    <3>1. NBytes(t) = ((c + 1 - 1) \div 1) * 1
      BY <1>2, QuantIs DEF NBytes
    <3>2. QED
      BY <3>1
  <2>2. c \in 0 .. c /\ \A m \in 0 .. c : M(m, 1) <=> m = c
    OBVIOUS
  <2>3. Needs(t) = (CHOOSE m \in 0 .. c : M(m, 1)) * 1
    BY <1>2, QuantIs DEF Needs
  <2>4. (CHOOSE m \in 0 .. c : M(m, 1)) = c
    <3> HIDE DEF M
    <3>1. QED
      BY <2>2
  <2>5. QED
    BY <2>1, <2>3, <2>4
<1>3. CASE t.type = "packed"
  <2> DEFINE h == (c + 1) \div 2
  <2>1. NBytes(t) = h * 3
    <3>1. NBytes(t) = ((c + 2 - 1) \div 2) * 3
      BY <1>3, QuantIs DEF NBytes
    <3>2. c + 2 - 1 = c + 1
      OBVIOUS
    <3>3. QED
      BY <3>1, <3>2
  <2>2. h \in 0 .. c /\ \A m \in 0 .. c : M(m, 2) <=> m = h
    OBVIOUS
  <2>3. Needs(t) = (CHOOSE m \in 0 .. c : M(m, 2)) * 3
    BY <1>3, QuantIs DEF Needs
  <2>4. (CHOOSE m \in 0 .. c : M(m, 2)) = h
    <3> HIDE DEF M, h
    <3>1. QED
      BY <2>2
  <2>5. QED
    BY <2>1, <2>2, <2>3, <2>4
<1>4. QED
  BY <1>1, <1>2, <1>3

\* Sums of the lengths of the tensors' entries.
IsSums(f, n) == f = [m \in 0 .. n |-> IF m = 0 THEN 0 ELSE f[m - 1] + job.tensors[m].len]
Sums == CHOOSE f : IsSums(f, Len(job.tensors))

LEMMA SumsExist ==
    ASSUME job \in Jobs, job.kind = "gguf", NEW n \in 0 .. Len(job.tensors)
    PROVE  \E f \in [0 .. n -> Nat] : IsSums(f, n)
<1> DEFINE T == {m \in 0 .. Len(job.tensors) : ~\E f \in [0 .. m -> Nat] : IsSums(f, m)}
<1> SUFFICES ASSUME T # {} PROVE FALSE
  OBVIOUS
<1>1. Len(job.tensors) \in Nat /\ \A m \in 1 .. Len(job.tensors) : job.tensors[m].len \in Nat
  BY GgufJobIs
<1>2. PICK m \in T : \A k \in T : m <= k
  <2>1. T \subseteq Nat
    BY <1>1
  <2> HIDE DEF T
  <2>2. QED
    BY <2>1, LeastNumber
<1>3. m \in 0 .. Len(job.tensors) /\ ~\E f \in [0 .. m -> Nat] : IsSums(f, m)
  BY <1>2
<1>4. CASE m = 0
  <2> DEFINE f == [i \in 0 .. 0 |-> 0]
  <2>1. f \in [0 .. 0 -> Nat] /\ IsSums(f, 0)
    BY DEF IsSums
  <2>2. QED
    BY <1>3, <1>4, <2>1
<1>5. CASE m # 0
  <2>1. m - 1 \in 0 .. Len(job.tensors) /\ m - 1 < m /\ m \in 1 .. Len(job.tensors) /\ m \in Nat
    BY <1>1, <1>3, <1>5
  <2>2. m - 1 \notin T
    <3> HIDE DEF T
    <3>1. QED
      BY <1>2, <2>1
  <2>3. PICK g \in [0 .. m - 1 -> Nat] : IsSums(g, m - 1)
    BY <2>1, <2>2
  <2> DEFINE f == [i \in 0 .. m |-> IF i = m THEN g[m - 1] + job.tensors[m].len ELSE g[i]]
  <2>4. \A i \in 0 .. m : i # m => i \in 0 .. m - 1
    BY <2>1
  <2>5. f \in [0 .. m -> Nat]
    <3>1. g[m - 1] + job.tensors[m].len \in Nat
      BY <1>1, <2>1
    <3>2. QED
      BY <2>4, <3>1
  <2>6. ASSUME NEW i \in 0 .. m
        PROVE  f[i] = IF i = 0 THEN 0 ELSE f[i - 1] + job.tensors[i].len
    <3>1. CASE i = m
      <4>1. m - 1 \in 0 .. m /\ m - 1 # m
        BY <2>1
      <4>2. f[m - 1] = g[m - 1]
        BY <4>1
      <4>3. QED
        BY <1>5, <3>1, <4>2
    <3>2. CASE i # m
      <4>1. i \in 0 .. m - 1 /\ f[i] = g[i]
        BY <2>4, <3>2
      <4>2. g[i] = IF i = 0 THEN 0 ELSE g[i - 1] + job.tensors[i].len
        BY <2>3, <4>1 DEF IsSums
      <4>3. i # 0 => i - 1 \in 0 .. m /\ i - 1 # m
        BY <2>1, <4>1
      <4>4. i # 0 => f[i - 1] = g[i - 1]
        BY <4>3
      <4>5. QED
        BY <4>1, <4>2, <4>4
    <3>3. QED
      BY <3>1, <3>2
  <2> HIDE DEF f
  <2>7. IsSums(f, m)
    BY <2>5, <2>6 DEF IsSums
  <2>8. QED
    BY <1>3, <2>5, <2>7
<1>6. QED
  BY <1>4, <1>5

LEMMA SumsAre ==
    ASSUME job \in Jobs, job.kind = "gguf"
    PROVE  /\ Sums[0] = 0
           /\ \A n \in 1 .. Len(job.tensors) : Sums[n] = Sums[n - 1] + job.tensors[n].len
           /\ \A n \in 0 .. Len(job.tensors) : Sums[n] \in Nat
<1>1. Len(job.tensors) \in Nat /\ \A m \in 1 .. Len(job.tensors) : job.tensors[m].len \in Nat
  BY GgufJobIs
<1>2. \E f : IsSums(f, Len(job.tensors))
  <2>1. Len(job.tensors) \in 0 .. Len(job.tensors)
    BY <1>1
  <2>2. QED
    BY <2>1, SumsExist
<1>3. IsSums(Sums, Len(job.tensors))
  BY <1>2 DEF Sums
<1>4. \A n \in 0 .. Len(job.tensors) : Sums[n] = IF n = 0 THEN 0 ELSE Sums[n - 1] + job.tensors[n].len
  BY <1>3 DEF IsSums
<1> DEFINE T == {n \in 0 .. Len(job.tensors) : Sums[n] \notin Nat}
<1>5. T = {}
  <2> SUFFICES ASSUME T # {} PROVE FALSE
    OBVIOUS
  <2>1. PICK n \in T : \A k \in T : n <= k
    <3>1. T \subseteq Nat
      BY <1>1
    <3> HIDE DEF T
    <3>2. QED
      BY <3>1, LeastNumber
  <2>2. n \in 0 .. Len(job.tensors) /\ Sums[n] \notin Nat /\ n # 0
    BY <1>1, <1>4, <2>1
  <2>3. n - 1 \in 0 .. Len(job.tensors) /\ n - 1 \notin T /\ n \in 1 .. Len(job.tensors)
    BY <1>1, <2>1, <2>2
  <2>4. Sums[n - 1] \in Nat
    BY <2>3
  <2>5. Sums[n] = Sums[n - 1] + job.tensors[n].len
    BY <1>4, <2>2
  <2>6. job.tensors[n].len \in Nat
    BY <1>1, <2>3
  <2>7. QED
    BY <2>2, <2>4, <2>5, <2>6
<1>6. 0 \in 0 .. Len(job.tensors) /\ \A n \in 1 .. Len(job.tensors) : n \in 0 .. Len(job.tensors) /\ n # 0
  BY <1>1
<1>7. QED
  BY <1>4, <1>5, <1>6

LEMMA TableEndIs ==
    ASSUME job \in Jobs, job.kind = "gguf", job.tensors # <<>>
    PROVE  TableEnd = job.pos + Sums[Len(job.tensors)]
  BY DEF TableEnd, Sums, IsSums

GgufSoFar ==
    /\ pos = job.pos + Sums[here - 1]
    /\ \A n \in 1 .. here - 1 :
          LET t == job.tensors[n]
          IN  /\ good => Known(t.type)
              /\ Known(t.type) => t.off + NBytes(t) <= far

GgufOK ==
    job.kind = "gguf" =>
        /\ stage \in 0 .. 1 /\ here \in Nat /\ pos \in Nat /\ far \in Nat /\ good \in BOOLEAN
        /\ stage = 1 => GgufHeader = <<>> /\ here \in 1 .. Len(job.tensors) + 1 /\ GgufSoFar
        /\ GgufFits

\* A multiple leaves no remainder.
LEMMA Multiple ==
    ASSUME NEW q \in Nat, NEW a \in Nat \ {0}
    PROVE  (q * a) % a = 0
<1> DEFINE d == (q * a) \div a
           m == (q * a) % a
<1>1. q * a \in Nat /\ d \in Int /\ m \in 0 .. a - 1 /\ q * a = a * d + m
  OBVIOUS
<1> HIDE DEF d, m
<1>2. a * (q - d) = m
  BY <1>1
<1>3. q - d <= 0
  <2>1. ASSUME q - d >= 1 PROVE FALSE
    <3>1. a * (q - d) >= a
      BY <1>1, <2>1
    <3> QED BY <3>1, <1>2, <1>1
  <2> QED BY <2>1, <1>1
<1>4. q - d >= 0
  <2>1. ASSUME q - d <= -1 PROVE FALSE
    <3>1. a * (q - d) <= -a
      BY <1>1, <2>1
    <3> QED BY <3>1, <1>2, <1>1
  <2> QED BY <2>1, <1>1
<1>5. m = 0
  BY <1>1, <1>2, <1>3, <1>4
<1>6. QED
  BY <1>5 DEF m

\* The data start at the first multiple of the alignment behind the table.
LEMMA AlignedStart ==
    ASSUME NEW n \in Nat, NEW a \in Nat \ {0}
    PROVE  LET start == ((n + a - 1) \div a) * a
           IN  start \in Nat /\ n <= start /\ start < n + a /\ start % a = 0
<1> DEFINE q == (n + a - 1) \div a
           m == (n + a - 1) % a
<1>1. q \in Nat /\ m \in 0 .. a - 1 /\ n + a - 1 = a * q + m
  OBVIOUS
<1> HIDE DEF q, m
<1>2. q * a \in Nat /\ q * a = a * q
  BY <1>1
<1>3. n <= q * a /\ q * a < n + a
  BY <1>1, <1>2
<1>4. (q * a) % a = 0
  BY <1>1, Multiple
<1>5. QED
  BY <1>2, <1>3, <1>4 DEF q

LEMMA EndIsRight ==
    ASSUME job \in Jobs, job.kind = "gguf", stage = 1, GgufOK, here > Len(job.tensors), GgufEnd = <<>>,
           NEW n \in DOMAIN job.tensors
    PROVE  LET t == job.tensors[n]
           IN  /\ Known(t.type)
               /\ \E start \in TableEnd .. job.size :
                     start % job.align = 0 /\ start < TableEnd + job.align /\ start + t.off + Needs(t) <= job.size
<1> DEFINE t == job.tensors[n]
<1>1. /\ job.align \in Nat /\ job.pos \in Nat /\ job.size \in Nat
      /\ Len(job.tensors) \in Nat /\ DOMAIN job.tensors = 1 .. Len(job.tensors)
      /\ t.count \in Nat /\ t.off \in Nat /\ t.type \in Types
  BY GgufJobIs
<1>2. job.tensors # <<>>
  BY <1>1
<1>3. GgufHeader = <<>> /\ here = Len(job.tensors) + 1 /\ GgufSoFar /\ pos \in Nat /\ far \in Nat
  BY <1>1 DEF GgufOK
<1>4. pos = TableEnd
  <2>1. here - 1 = Len(job.tensors)
    BY <1>1, <1>3
  <2>2. QED
    BY <1>2, <1>3, <2>1, TableEndIs DEF GgufSoFar
<1>5. job.align \in Nat \ {0}
  <2>1. GgufHeader = <<>> => PowerOfTwo(job.align)
    BY DEF GgufHeader, Gap, Corrupt, RunsOff
  <2>2. QED
    BY <1>1, <1>3, <2>1 DEF PowerOfTwo
<1>6. DataStart \in Nat /\ pos <= DataStart /\ DataStart < pos + job.align /\ DataStart % job.align = 0
  BY <1>3, <1>5, AlignedStart DEF DataStart
<1>7. good /\ DataStart + far <= job.size
  <2>1. GgufEnd = <<>> => ~(DataStart + far > job.size) /\ good
    BY <1>2 DEF GgufEnd, Corrupt, Gap
  <2>2. QED
    BY <1>1, <1>3, <1>6, <2>1
<1>8. Known(t.type) /\ t.off + NBytes(t) <= far
  <2>1. n \in 1 .. here - 1
    BY <1>1, <1>3
  <2>2. QED
    BY <1>3, <1>7, <2>1 DEF GgufSoFar
<1>9. NBytes(t) \in Nat /\ Needs(t) = NBytes(t)
  BY <1>1, <1>8, BytesAre
<1> HIDE DEF t
<1>10. DataStart \in TableEnd .. job.size /\ DataStart + t.off + Needs(t) <= job.size
  <2>1. t.off \in Nat /\ job.size \in Nat
    BY <1>1 DEF t
  <2>2. t.off + Needs(t) <= far /\ Needs(t) \in Nat /\ far \in Nat
    BY <1>3, <1>8, <1>9
  <2>3. DataStart \in Nat /\ TableEnd \in Nat /\ TableEnd <= DataStart /\ DataStart + far <= job.size
    BY <1>3, <1>4, <1>7, <1>6
  <2>4. QED
    BY <2>1, <2>2, <2>3
<1>11. QED
  BY <1>4, <1>8, <1>6, <1>10 DEF t

LEMMA GgufStays ==
    ASSUME job \in Jobs, job.kind = "gguf", ~done, GgufOK, GgufSteps, job' = job
    PROVE  GgufOK'
<1> DEFINE L == Len(job.tensors)
<1>1. /\ job.pos \in Nat /\ job.size \in Nat /\ L \in Nat /\ DOMAIN job.tensors = 1 .. L
      /\ \A n \in 1 .. L : /\ job.tensors[n].len \in Nat /\ job.tensors[n].count \in Nat /\ job.tensors[n].off \in Nat
                           /\ job.tensors[n].type \in Types
  BY GgufJobIs
<1>2. /\ stage \in 0 .. 1 /\ here \in Nat /\ pos \in Nat /\ far \in Nat /\ good \in BOOLEAN
      /\ stage = 1 => GgufHeader = <<>> /\ here \in 1 .. L + 1 /\ GgufSoFar
  BY DEF GgufOK
<1>3. GgufHeader' = GgufHeader /\ Sums' = Sums
  BY DEF GgufHeader, RunsOff, Gap, Corrupt, Sums, IsSums
<1>4. Gap # <<>> /\ Corrupt # <<>> /\ RunsOff # <<>>
  BY DEF Gap, Corrupt, RunsOff
<1>5. CASE StartGguf
  <2>1. CASE GgufHeader # <<>>
    <3>1. out' = GgufHeader /\ stage' = stage /\ here' = here /\ pos' = pos /\ far' = far /\ good' = good /\ stage = 0
      BY <1>5, <2>1 DEF StartGguf, Return
    <3>2. GgufFits'
      BY <2>1, <3>1 DEF GgufFits
    <3>3. QED
      BY <1>2, <3>1, <3>2 DEF GgufOK
  <2>2. CASE GgufHeader = <<>>
    <3>1. ~done' /\ stage' = 1 /\ here' = 1 /\ pos' = job.pos /\ far' = 0 /\ good' = TRUE
      BY <1>5, <2>2 DEF StartGguf, Go
    <3>2. GgufFits'
      BY <3>1 DEF GgufFits
    <3>3. pos' = job.pos + Sums[here' - 1]
      BY <1>1, <3>1, SumsAre
    <3>4. GgufSoFar'
      BY <1>3, <3>1, <3>3 DEF GgufSoFar
    <3>5. here' \in 1 .. L + 1
      BY <1>1, <3>1
    <3>6. QED
      BY <1>1, <1>3, <2>2, <3>1, <3>2, <3>4, <3>5 DEF GgufOK
  <2>3. QED
    BY <2>1, <2>2
<1>6. CASE TakeTensor
  <2>1. stage = 1 /\ stage' = 1 /\ here \in 1 .. L
    BY <1>1, <1>2, <1>6 DEF TakeTensor
  <2>2. CASE TensorProblem # <<>>
    <3>1. out' # <<>> /\ here' = here /\ pos' = pos /\ far' = far /\ good' = good
      BY <1>6, <2>2 DEF TakeTensor, Return, reach
    <3>2. GgufFits'
      BY <3>1 DEF GgufFits
    <3>3. GgufSoFar'
      BY <1>2, <1>3, <2>1, <3>1 DEF GgufSoFar, NBytes
    <3>4. QED
      BY <1>2, <1>3, <2>1, <3>1, <3>2, <3>3 DEF GgufOK
  <2>3. CASE TensorProblem = <<>>
    <3> DEFINE t == job.tensors[here]
    <3>1. /\ ~done' /\ here' = here + 1 /\ pos' = pos + t.len
          /\ good' = (good /\ Known(t.type))
          /\ far' = IF Known(t.type) THEN Further(far, t.off + NBytes(t)) ELSE far
      BY <1>6, <2>3 DEF TakeTensor, Go, Tensor
    <3>2. t.len \in Nat /\ t.count \in Nat /\ t.off \in Nat /\ t.type \in Types
      BY <1>1, <2>1
    <3>3. Known(t.type) => NBytes(t) \in Nat
      BY <3>2, BytesAre
    <3> HIDE DEF t
    <3>4. far' \in Nat /\ far' >= far /\ (Known(t.type) => t.off + NBytes(t) <= far')
      BY <1>2, <3>1, <3>2, <3>3 DEF Further
    <3>5. good' \in BOOLEAN /\ pos' \in Nat /\ here' \in 1 .. L + 1 /\ here' \in Nat
      BY <1>1, <1>2, <2>1, <3>1, <3>2
    <3>6. pos' = job.pos + Sums[here' - 1]
      <4>1. pos = job.pos + Sums[here - 1] /\ Sums[here] = Sums[here - 1] + t.len
        BY <1>2, <2>1, SumsAre DEF GgufSoFar, t
      <4>2. here' - 1 = here /\ here - 1 \in 0 .. L
        BY <2>1, <3>1, <1>1
      <4>3. Sums[here - 1] \in Nat
        BY <4>2, SumsAre
      <4>4. QED
        BY <1>1, <3>1, <3>2, <4>1, <4>2, <4>3
    <3>7. ASSUME NEW n \in 1 .. here' - 1
          PROVE  /\ good' => Known(job.tensors[n].type)
                 /\ Known(job.tensors[n].type) => job.tensors[n].off + NBytes(job.tensors[n]) <= far'
      <4>1. CASE n = here
        BY <3>1, <3>4, <4>1 DEF t
      <4>2. CASE n # here
        <5>1. n \in 1 .. here - 1 /\ n \in 1 .. L
          BY <2>1, <3>1, <4>2
        <5>2. /\ good => Known(job.tensors[n].type)
              /\ Known(job.tensors[n].type) => job.tensors[n].off + NBytes(job.tensors[n]) <= far
          BY <1>2, <2>1, <5>1 DEF GgufSoFar
        <5>3. job.tensors[n].off \in Nat /\ (Known(job.tensors[n].type) => NBytes(job.tensors[n]) \in Nat)
          BY <1>1, <5>1, BytesAre
        <5>4. QED
          BY <1>2, <3>1, <3>4, <5>2, <5>3
      <4>3. QED
        BY <4>1, <4>2
    <3>8. GgufSoFar'
      BY <1>3, <3>6, <3>7 DEF GgufSoFar, NBytes, Known
    <3>9. GgufFits'
      BY <3>1 DEF GgufFits
    <3>10. QED
      BY <1>2, <1>3, <2>1, <3>4, <3>5, <3>8, <3>9 DEF GgufOK
  <2>4. QED
    BY <2>2, <2>3
<1>7. CASE TensorsDone
  <2>1. stage = 1 /\ here > L /\ out' = GgufEnd /\ stage' = stage /\ here' = here /\ pos' = pos /\ far' = far /\ good' = good
    BY <1>7 DEF TensorsDone, Return, counters, reach
  <2>2. TableEnd' = TableEnd
    BY DEF TableEnd
  <2>3. GgufFits'
    <3>1. ASSUME GgufEnd = <<>>
          PROVE  \A n \in DOMAIN job.tensors :
                    LET t == job.tensors[n]
                    IN  /\ Known(t.type)
                        /\ \E start \in TableEnd .. job.size :
                              start % job.align = 0 /\ start < TableEnd + job.align /\ start + t.off + Needs(t) <= job.size
      BY <2>1, <3>1, EndIsRight
    <3>2. QED
      BY <2>1, <2>2, <3>1 DEF GgufFits, Needs, Known
  <2>4. GgufSoFar'
    BY <1>2, <1>3, <2>1 DEF GgufSoFar, NBytes
  <2>5. QED
    BY <1>2, <1>3, <2>1, <2>3, <2>4 DEF GgufOK
<1>8. QED
  BY <1>5, <1>6, <1>7 DEF GgufSteps

-----------------------------------------------------------------------------
(* All scans.                                                              *)

CountersOK ==
    /\ done \in BOOLEAN /\ good \in BOOLEAN
    /\ stage \in Nat /\ here \in Nat /\ there \in Nat /\ pos \in Nat \cup {-1} /\ far \in Nat

ScansOK == CuesOK /\ NearOK /\ TokensOK /\ HelpersOK /\ LineOK /\ SpansOK /\ GgufOK

ScanInv == job \in Jobs /\ CountersOK /\ ScansOK

LEMMA ScansBegin == ScanInit => ScanInv
<1> SUFFICES ASSUME ScanInit PROVE ScanInv
  OBVIOUS
<1>0. /\ job \in Jobs /\ ~done /\ done \in BOOLEAN /\ good \in BOOLEAN
      /\ stage = 0 /\ here = 0 /\ there = 0 /\ pos = 0 /\ far = 0 /\ todo = {} /\ found = {}
  BY DEF ScanInit
<1>1. CountersOK
  BY <1>0 DEF CountersOK
<1>2. CuesOK
  BY <1>0 DEF CuesOK, CuesFound
<1>3. NearOK
  BY <1>0 DEF NearOK, NearIsFirst
<1>4. TokensOK
  BY <1>0 DEF TokensOK, TokenIsFirst
<1>5. HelpersOK
  BY <1>0 DEF HelpersOK
<1>6. LineOK
  BY <1>0 DEF LineOK
<1>7. SpansOK
  BY <1>0 DEF SpansOK, TiledExactly
<1>8. GgufOK
  BY <1>0 DEF GgufOK, GgufFits
<1>9. QED
  BY <1>0, <1>1, <1>2, <1>3, <1>4, <1>5, <1>6, <1>7, <1>8 DEF ScanInv, ScansOK

\* A step keeps what holds of the job's kind; of the others nothing is said.
LEMMA ScansStep ==
    ASSUME ScanInv, ScanNext
    PROVE  ScansOK'
<1>1. /\ ~done /\ job' = job
      /\ \/ job.kind = "cues" /\ CueSteps
         \/ job.kind = "near" /\ NearSteps
         \/ job.kind = "tokens" /\ TokenSteps
         \/ job.kind = "helpers" /\ HelperSteps
         \/ job.kind = "line" /\ PieceSteps
         \/ job.kind = "spans" /\ SpanSteps
         \/ job.kind = "gguf" /\ GgufSteps
  BY StepsOfAJob
<1>2. /\ job \in Jobs
      /\ CuesOK /\ NearOK /\ TokensOK /\ HelpersOK /\ LineOK /\ SpansOK /\ GgufOK
  BY DEF ScanInv, ScansOK
<1>3. CuesOK'
  <2>1. CASE job.kind = "cues"
    BY <1>1, <1>2, <2>1, CuesStay
  <2>2. QED
    BY <1>1, <2>1 DEF CuesOK
<1>4. NearOK'
  <2>1. CASE job.kind = "near"
    BY <1>1, <1>2, <2>1, NearStays
  <2>2. QED
    BY <1>1, <2>1 DEF NearOK
<1>5. TokensOK'
  <2>1. CASE job.kind = "tokens"
    BY <1>1, <1>2, <2>1, TokensStay
  <2>2. QED
    BY <1>1, <2>1 DEF TokensOK
<1>6. HelpersOK'
  <2>1. CASE job.kind = "helpers"
    BY <1>1, <1>2, <2>1, HelpersStay
  <2>2. QED
    BY <1>1, <2>1 DEF HelpersOK
<1>7. LineOK'
  <2>1. CASE job.kind = "line"
    BY <1>1, <1>2, <2>1, LineStays
  <2>2. QED
    BY <1>1, <2>1 DEF LineOK
<1>8. SpansOK'
  <2>1. CASE job.kind = "spans"
    BY <1>1, <1>2, <2>1, SpansStay
  <2>2. QED
    BY <1>1, <2>1 DEF SpansOK
<1>9. GgufOK'
  <2>1. CASE job.kind = "gguf"
    BY <1>1, <1>2, <2>1, GgufStays
  <2>2. QED
    BY <1>1, <2>1 DEF GgufOK
<1>10. QED
  BY <1>3, <1>4, <1>5, <1>6, <1>7, <1>8, <1>9 DEF ScansOK

LEMMA CountersStep ==
    ASSUME ScanInv, ScanNext, ScansOK'
    PROVE  CountersOK'
<1> USE DEF CountersOK
<1>1. CountersOK /\ job' = job
  BY StepsOfAJob DEF ScanInv
<1>2. CASE job.kind = "cues" /\ CueSteps
  <2>1. reach' = reach /\ done' \in BOOLEAN
    BY <1>1, <1>2 DEF CueSteps, StartCues, CueFound, SkipCue, NextPair, Go, Return
  <2>2. stage' \in Nat /\ here' \in Nat /\ there' \in Nat
    BY <1>1, <1>2 DEF ScansOK, CuesOK
  <2>3. QED
    BY <1>1, <2>1, <2>2 DEF reach
<1>3. CASE job.kind = "near" /\ NearSteps
  <2>1. reach' = reach /\ done' \in BOOLEAN
    BY <1>1, <1>3 DEF NearSteps, StartNear, SkipLine, TryLine, NoneNear, Go, Return
  <2>2. stage' \in Nat /\ here' \in Nat /\ there' \in Nat
    BY <1>1, <1>3 DEF ScansOK, NearOK
  <2>3. QED
    BY <1>1, <2>1, <2>2 DEF reach
<1>4. CASE job.kind = "tokens" /\ TokenSteps
  <2>1. there' = there /\ far' = far /\ done' \in BOOLEAN
    BY <1>1, <1>4 DEF TokenSteps, StartTokens, TryToken, NoToken, Go, Return, counters, reach
  <2>2. stage' \in Nat /\ here' \in Nat /\ pos' \in Nat \cup {-1} /\ good' \in BOOLEAN
    BY <1>1, <1>4 DEF ScansOK, TokensOK
  <2>3. QED
    BY <1>1, <2>1, <2>2
<1>5. CASE job.kind = "helpers" /\ HelperSteps
  <2>1. here' = here /\ there' = there /\ reach' = reach /\ done' \in BOOLEAN
    BY <1>1, <1>5 DEF HelperSteps, StartHelpers, TakeHelper, HelpersDone, Go, Return, counters
  <2>2. stage' \in Nat
    BY <1>1, <1>5 DEF ScansOK, HelpersOK
  <2>3. QED
    BY <1>1, <2>1, <2>2 DEF reach
<1>6. CASE job.kind = "line" /\ PieceSteps
  <2>1. counters' = counters /\ far' = far /\ good' = good /\ done' \in BOOLEAN
    BY <1>1, <1>6 DEF PieceSteps, CutPiece, LineCut, Go, Return, reach
  <2>2. pos' \in Nat
    BY <1>1, <1>6 DEF ScansOK, LineOK
  <2>3. QED
    BY <1>1, <2>1, <2>2 DEF counters
<1>7. CASE job.kind = "spans" /\ SpanSteps
  <2>1. here' = here /\ there' = there /\ far' = far /\ good' = good /\ done' \in BOOLEAN
    BY <1>1, <1>7 DEF SpanSteps, StartSpans, TakeSpan, SpansDone, Go, Return, reach, counters
  <2>2. stage' \in Nat /\ pos' \in Nat
    BY <1>1, <1>7 DEF ScansOK, SpansOK
  <2>3. QED
    BY <1>1, <2>1, <2>2
<1>8. CASE job.kind = "gguf" /\ GgufSteps
  <2>1. there' = there /\ done' \in BOOLEAN
    BY <1>1, <1>8 DEF GgufSteps, StartGguf, TakeTensor, TensorsDone, Go, Return, reach, counters
  <2>2. stage' \in Nat /\ here' \in Nat /\ pos' \in Nat /\ far' \in Nat /\ good' \in BOOLEAN
    BY <1>1, <1>8 DEF ScansOK, GgufOK
  <2>3. QED
    BY <1>1, <2>1, <2>2
<1>9. QED
  BY <1>2, <1>3, <1>4, <1>5, <1>6, <1>7, <1>8, StepsOfAJob

LEMMA ScansRest ==
    ASSUME ScanInv, UNCHANGED scanVars
    PROVE  ScanInv'
<1> USE DEF scanVars, counters, reach, sets
<1>1. job' \in Jobs /\ CountersOK'
  BY DEF ScanInv, CountersOK
<1>2. CuesOK'
  <2>1. CuesFound' <=> CuesFound
    BY DEF CuesFound, PairThere, Close
  <2>2. Left' = Left /\ Right' = Right
    BY DEF Left, Right
  <2>3. Passed(Left, Right, here, there)' <=> Passed(Left, Right, here, there)
    BY DEF Passed, Close, Left, Right
  <2>4. (\A n \in 1 .. stage - 1 : ~PairThere(n))' <=> \A n \in 1 .. stage - 1 : ~PairThere(n)
    BY DEF PairThere, Close
  <2>5. CuesOK
    BY DEF ScanInv, ScansOK
  <2>6. QED
    BY <2>1, <2>2, <2>3, <2>4, <2>5 DEF CuesOK
<1>3. NearOK'
  BY DEF ScanInv, ScansOK, NearOK, NearSoFar, NearIsFirst, Within
<1>4. TokensOK'
  BY DEF ScanInv, ScansOK, TokensOK, TokenIsFirst, Matches, NextSeparator
<1>5. HelpersOK'
  BY DEF ScanInv, ScansOK, HelpersOK, IsClosed
<1>6. LineOK'
  BY DEF ScanInv, ScansOK, LineOK
<1>7. SpansOK'
  BY DEF ScanInv, ScansOK, SpansOK, TiledExactly, Owners, Laid, WellFormed, Malformed, Tensors, TensorEnds, Before, Owns
<1>8. GgufOK'
  <2>1. GgufHeader' = GgufHeader
    BY DEF GgufHeader, RunsOff, Gap, Corrupt
  <2>2. GgufSoFar' <=> GgufSoFar
    BY DEF GgufSoFar, Sums, IsSums, Known, NBytes
  <2>3. GgufFits' <=> GgufFits
    BY DEF GgufFits, Known, TableEnd, Needs
  <2>4. QED
    BY <2>1, <2>2, <2>3 DEF ScanInv, ScansOK, GgufOK
<1>9. QED
  BY <1>1, <1>2, <1>3, <1>4, <1>5, <1>6, <1>7, <1>8 DEF ScanInv, ScansOK

LEMMA ScansKnow == ScanInv => ScansAreRight
<1> SUFFICES ASSUME ScanInv PROVE ScansAreRight
  OBVIOUS
<1>1. job \in Jobs /\ CountersOK /\ CuesOK /\ NearOK /\ TokensOK /\ HelpersOK /\ LineOK /\ SpansOK /\ GgufOK
  BY DEF ScanInv, ScansOK
<1>2. ScanTypeOK
  <2>1. job.kind = "cues" => stage \in 0 .. Len(CuePairs)
    BY <1>1, PairsAre DEF CuesOK
  <2>2. job.kind = "cues" /\ stage > 0 => here \in 1 .. Len(Left) + 1 /\ there \in 1 .. Len(Right) + 1
    BY <1>1 DEF CuesOK
  <2>3. job.kind = "near" /\ stage > 0 => here \in 1 .. Len(job.a) + 1 /\ there \in 1 .. Len(job.b) + 1
    BY <1>1 DEF NearOK
  <2>4. job.kind = "tokens" /\ stage > 0 => here \in 1 .. Len(job.tokens) + 1
    BY <1>1 DEF TokensOK
  <2>5. job.kind = "gguf" /\ stage > 0 => here \in 1 .. Len(job.tensors) + 1
    <3>1. job.kind = "gguf" /\ stage > 0 => stage = 1
      BY <1>1 DEF GgufOK
    <3>2. QED
      BY <1>1, <3>1 DEF GgufOK
  <2>6. QED
    BY <1>1, <2>1, <2>2, <2>3, <2>4, <2>5 DEF ScanTypeOK, CountersOK
<1>3. CuesFound
  BY <1>1 DEF CuesOK, CuesFound
<1>4. NearIsFirst
  BY <1>1 DEF NearOK, NearIsFirst
<1>5. TokenIsFirst
  BY <1>1 DEF TokensOK, TokenIsFirst
<1>6. HelpersAreAll
  BY <1>1, HelpersAreRight
<1>7. PiecesHold
  BY <1>1, PiecesAreRight
<1>8. TiledExactly
  BY <1>1 DEF SpansOK, TiledExactly
<1>9. GgufFits
  BY <1>1 DEF GgufOK, GgufFits
<1>10. QED
  BY <1>2, <1>3, <1>4, <1>5, <1>6, <1>7, <1>8, <1>9 DEF ScansAreRight

\* Every scan of the gate finds what it stands for, whatever the input: the
\* linear searches for cues, lines and tokens return what the quadratic ones
\* would, the closure over helpers is the least one, no piece of a long line is
\* lost, a safetensors file passes exactly when its tensors tile the data, and a
\* GGUF file only when its tensors lie inside it.
THEOREM ScansFindAll == ScanSpec => []ScansAreRight
<1>1. ScanInv /\ [ScanNext]_scanVars => ScanInv'
  <2>1. ASSUME ScanInv, ScanNext PROVE ScanInv'
    <3>1. ScansOK'
      BY <2>1, ScansStep
    <3>2. CountersOK' /\ job' \in Jobs
      BY <2>1, <3>1, CountersStep, StepsOfAJob DEF ScanInv
    <3>3. QED
      BY <3>1, <3>2 DEF ScanInv
  <2>2. QED
    BY <2>1, ScansRest
<1>2. QED
  BY <1>1, ScansBegin, ScansKnow, PTL DEF ScanSpec
=============================================================================
