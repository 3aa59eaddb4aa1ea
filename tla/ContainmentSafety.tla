--------------------------- MODULE ContainmentSafety ---------------------------
(***************************************************************************)
(* Theorems about Containment, for every set of assets, processes and      *)
(* interfaces and every bound.  First what holds in both modes, with the   *)
(* daemon's lock and without it: types, that a cut announced as applied is *)
(* on record or the reader learns of the damage, and that what is held off *)
(* stays named until a restore resolves it.  Then what the ledger, a cut   *)
(* and a restore promise in the daemon: DaemonInv is an inductive          *)
(* invariant of Spec under Serialized.  Without Serialized what the ledger *)
(* promises is false (run containment_race).                               *)
(***************************************************************************)
EXTENDS ContainmentInvariant, WellFoundedInduction, TLAPS

USE ConstantsAssumption

-----------------------------------------------------------------------------
(* Type correctness *)

LEMMA InitTypeOK == Init => TypeOK
  <1> SUFFICES ASSUME Init PROVE TypeOK
    OBVIOUS
  <1>1. OsTypeOK
    BY DEF Init, OsTypeOK
  <1>2. FileTypeOK
    <2>1. <<>> \in Seq(Lines(Assets, Targets))
      OBVIOUS
    <2> QED BY <2>1 DEF Init, FileTypeOK
  <1>3. ProcTypeOK
    BY DEF Init, ProcTypeOK, Steps, AllOps, Verdicts
  <1>4. AssetTypeOK
    BY DEF Init, AssetTypeOK
  <1> QED BY <1>1, <1>2, <1>3, <1>4 DEF TypeOK

\* Writing a line, or failing to, keeps the file well typed.
LEMMA WriteTypeOK ==
  ASSUME FileTypeOK, NEW line \in Lines(Assets, Targets),
         WriteOk(line) \/ WriteFails \/ WriteTears
  PROVE  FileTypeOK'
  <1>1. JunkLine \in Lines(Assets, Targets)
    BY DEF Lines
  <1>2. (IF torn THEN JunkLine ELSE line) \in Lines(Assets, Targets)
    BY <1>1
  <1>3. Appended(ledger, torn, line) \in Seq(Lines(Assets, Targets))
    BY <1>2 DEF Appended, FileTypeOK
  <1>4. ledger' \in Seq(Lines(Assets, Targets))
    BY <1>3 DEF FileTypeOK, WriteOk, WriteFails, WriteTears
  <1>5. CASE WriteOk(line)
    BY <1>4, <1>5 DEF FileTypeOK, WriteOk, countVars
  <1>6. CASE WriteFails
    BY <1>4, <1>6 DEF FileTypeOK, WriteFails
  <1>7. CASE WriteTears
    BY <1>4, <1>7 DEF FileTypeOK, WriteTears
  <1> QED BY <1>5, <1>6, <1>7

\* What a restore reads from the ledger is a set of targets.
LEMMA UnresolvedType ==
  ASSUME FileTypeOK, NEW a
  PROVE  Unresolved(ledger, a) \subseteq Targets
  <1>1. ASSUME NEW i \in 1 .. Len(ledger)
        PROVE  ledger[i].modified \subseteq Targets
    <2>1. ledger[i] \in Lines(Assets, Targets)
      BY DEF FileTypeOK
    <2> QED BY <2>1 DEF Lines, CutLine, ResolvedLine, JunkLine
  <1> QED BY <1>1 DEF Unresolved

\* The OS keeps its type, whatever a command does.
LEMMA SwitchType ==
  ASSUME OsTypeOK, NEW t \in Switches, NEW effect \in BOOLEAN,
         SwitchOff(t, effect) \/ SwitchOn(t, effect)
  PROVE  OsTypeOK'
  BY DEF OsTypeOK, SwitchOff, SwitchOn, Switches, Targets

LEMMA RuleType ==
  ASSUME OsTypeOK, NEW r \in {"none", "partial", "full"}, SetRule(r)
  PROVE  OsTypeOK'
  BY DEF OsTypeOK, SetRule, Targets

LEMMA LeaveType ==
  ASSUME ProcTypeOK, AssetTypeOK, NEW p \in Procs, Leave(p)
  PROVE  ProcTypeOK' /\ AssetTypeOK'
  <1>1. ProcTypeOK'
    BY DEF ProcTypeOK, Leave, Go, Steps, AllOps, Verdicts
  <1>2. AssetTypeOK'
    BY DEF ProcTypeOK, AssetTypeOK, Leave, Go
  <1> QED BY <1>1, <1>2

LEMMA BeginType ==
  ASSUME TypeOK, NEW p \in Procs, NEW a \in Assets, NEW o \in AllOps, Begin(p, a, o)
  PROVE  TypeOK'
  <1> USE DEF TypeOK
  <1>1. OsTypeOK' /\ FileTypeOK'
    BY DEF Begin, OsTypeOK, FileTypeOK, osVars, fileVars, countVars
  <1>2. ProcTypeOK'
    BY DEF Begin, Acquire, Go, Tag, ProcTypeOK, Steps, CutSteps, RestoreSteps, AllOps
  <1>3. AssetTypeOK'
    BY DEF Begin, Go, Tag, AssetTypeOK, ProcTypeOK
  <1> QED BY <1>1, <1>2, <1>3

LEMMA CutFullType ==
  ASSUME TypeOK, NEW p \in Procs, CutFull(p)
  PROVE  TypeOK'
  <1> USE DEF TypeOK
  <1>1. CASE Snapshot(p)
    <2>1. OsTypeOK' /\ FileTypeOK'
      BY <1>1 DEF Snapshot, OsTypeOK, FileTypeOK, osVars, fileVars, countVars
    <2>2. ProcTypeOK' /\ AssetTypeOK'
      BY <1>1 DEF Snapshot, InterfaceStates, Go, ProcTypeOK, AssetTypeOK, Steps, CutSteps
    <2> QED BY <2>1, <2>2
  <1>2. CASE NmcliOff(p)
    <2>1. FileTypeOK'
      BY <1>2 DEF NmcliOff, FileTypeOK, fileVars, countVars
    <2>2. OsTypeOK'
      BY <1>2, SwitchType DEF NmcliOff, osVars, OsTypeOK, Switches
    <2>3. ProcTypeOK' /\ AssetTypeOK'
      BY <1>2 DEF NmcliOff, Attempted, Go, ProcTypeOK, AssetTypeOK, Steps, CutSteps,
                  Switches, Targets
    <2> QED BY <2>1, <2>2, <2>3
  <1>3. CASE ListLinks(p)
    <2>1. OsTypeOK' /\ FileTypeOK'
      BY <1>3 DEF ListLinks, OsTypeOK, FileTypeOK, osVars, fileVars, countVars
    <2>2. todo' \in [Procs -> SUBSET Switches] /\ verdict' \in [Procs -> Verdicts]
      BY <1>3 DEF ListLinks, LinuxInterfaces, ProcTypeOK, Switches, Verdicts
    <2>3. pc' \in [Procs -> Steps]
      BY <1>3 DEF ListLinks, Go, ProcTypeOK, Steps, CutSteps
    <2>4. ProcTypeOK' /\ AssetTypeOK'
      BY <1>3, <2>2, <2>3 DEF ListLinks, Go, ProcTypeOK, AssetTypeOK
    <2> QED BY <2>1, <2>4
  <1>4. CASE LinkDown(p)
    <2>1. FileTypeOK'
      BY <1>4 DEF LinkDown, FileTypeOK, fileVars, countVars
    <2>2. OsTypeOK'
      BY <1>4, SwitchType DEF LinkDown, ProcTypeOK
    <2>3. /\ todo' \in [Procs -> SUBSET Switches]
          /\ seen' \in [Procs -> SUBSET Targets]
          /\ verdict' \in [Procs -> Verdicts]
      BY <1>4 DEF LinkDown, Attempted, ProcTypeOK, Targets, Verdicts
    <2>4. pc' \in [Procs -> Steps]
      BY <1>4 DEF LinkDown, Go, ProcTypeOK, Steps, CutSteps
    <2>5. ProcTypeOK' /\ AssetTypeOK'
      BY <1>4, <2>3, <2>4 DEF LinkDown, Go, ProcTypeOK, AssetTypeOK
    <2> QED BY <2>1, <2>2, <2>5
  <1> QED BY <1>1, <1>2, <1>3, <1>4 DEF CutFull

LEMMA InstallType ==
  ASSUME TypeOK, NEW p \in Procs, Install(p) \/ AppendRules(p)
  PROVE  TypeOK'
  <1> USE DEF TypeOK
  <1>1. FileTypeOK'
    BY DEF Install, AppendRules, FileTypeOK, fileVars, countVars
  <1>2. /\ \/ \E r \in {"none", "partial", "full"} : SetRule(r)
           \/ UNCHANGED osVars
        /\ seen' \in [Procs -> SUBSET Targets]
        /\ verdict' \in [Procs -> Verdicts]
        /\ pc' \in [Procs -> Steps]
    <2>1. CASE InstallNft(p)
      BY <2>1 DEF InstallNft, Go, ProcTypeOK, OsTypeOK, Verdicts, Targets, Steps, CutSteps
    <2>2. CASE InstallIptables(p)
      BY <2>2 DEF InstallIptables, Go, ProcTypeOK, OsTypeOK, Verdicts, Targets, Steps, CutSteps
    <2>3. CASE verdict' = [verdict EXCEPT ![p] = "fail"] /\ Go(p, "check") /\ UNCHANGED <<osVars, seen>>
      BY <2>3 DEF Go, ProcTypeOK, Verdicts, Steps, CutSteps
    <2>4. CASE AppendRules(p)
      BY <2>4 DEF AppendRules, Go, ProcTypeOK, OsTypeOK, Verdicts, Steps, CutSteps
    <2> QED BY <2>1, <2>2, <2>3, <2>4 DEF Install
  <1>3. OsTypeOK'
    BY <1>2, RuleType DEF osVars, OsTypeOK
  <1>4. ProcTypeOK' /\ AssetTypeOK'
    <2>1. UNCHANGED <<lock, overtaken, op, asset, before, todo, nmOk>> /\ pc[p] # "idle"
          /\ \A q \in Procs : q # p => pc'[q] = pc[q]
      BY DEF Install, InstallNft, InstallIptables, AppendRules, Go, ProcTypeOK
    <2> QED BY <1>2, <2>1 DEF ProcTypeOK, AssetTypeOK
  <1> QED BY <1>1, <1>3, <1>4

LEMMA RecordType ==
  ASSUME TypeOK, NEW p \in Procs, CheckCut(p) \/ RecordCut(p)
  PROVE  TypeOK'
  <1> USE DEF TypeOK
  <1>1. CASE CheckCut(p)
    <2>1. OsTypeOK' /\ FileTypeOK'
      BY <1>1 DEF CheckCut, OsTypeOK, FileTypeOK, osVars, fileVars, countVars
    <2>2. ProcTypeOK' /\ AssetTypeOK'
      BY <1>1 DEF CheckCut, Go, ProcTypeOK, AssetTypeOK, Steps, CutSteps, Verdicts
    <2> QED BY <2>1, <2>2
  <1>2. CASE RecordCut(p)
    <2>1. OsTypeOK'
      BY <1>2 DEF RecordCut, OsTypeOK
    <2>2. CutLine(asset[p], seen[p]) \in Lines(Assets, Targets)
      BY <1>2 DEF RecordCut, Lines, ProcTypeOK, AssetTypeOK
    <2>3. FileTypeOK'
      BY <1>2, <2>2, WriteTypeOK DEF RecordCut
    <2>4. ProcTypeOK' /\ AssetTypeOK'
      BY <1>2 DEF RecordCut, NotRecorded, Go, ProcTypeOK, AssetTypeOK, Steps, Verdicts
    <2> QED BY <2>1, <2>3, <2>4
  <1> QED BY <1>1, <1>2

LEMMA CombineType == ASSUME NEW S PROVE Combine(S) \in Verdicts
  BY DEF Combine, Verdicts

LEMMA RestoreType ==
  ASSUME TypeOK, NEW p \in Procs, Restore(p)
  PROVE  TypeOK'
  <1> USE DEF TypeOK
  <1>1. CASE ReadLedger(p)
    <2>1. OsTypeOK' /\ FileTypeOK'
      BY <1>1 DEF ReadLedger, OsTypeOK, FileTypeOK, osVars, fileVars, countVars
    <2>2. Unresolved(ledger, asset[p]) \subseteq Targets
      BY UnresolvedType
    <2>3. ProcTypeOK' /\ AssetTypeOK'
      BY <1>1, <2>2 DEF ReadLedger, Go, ProcTypeOK, AssetTypeOK, Steps, RestoreSteps,
                        Verdicts, Targets
    <2> QED BY <2>1, <2>3
  <1>2. CASE NmcliOn(p)
    <2>1. FileTypeOK'
      BY <1>2 DEF NmcliOn, FileTypeOK, fileVars, countVars
    <2>2. OsTypeOK'
      BY <1>2, SwitchType DEF NmcliOn, osVars, OsTypeOK, Switches
    <2>3. ProcTypeOK' /\ AssetTypeOK'
      BY <1>2 DEF NmcliOn, Go, ProcTypeOK, AssetTypeOK, Steps, RestoreSteps,
                  Switches, Targets, Verdicts
    <2> QED BY <2>1, <2>2, <2>3
  <1>3. CASE Sweep(p)
    <2>1. OsTypeOK' /\ FileTypeOK'
      BY <1>3 DEF Sweep, OsTypeOK, FileTypeOK, osVars, fileVars, countVars
    <2>2. /\ todo' \in [Procs -> SUBSET Switches]
          /\ seen' \in [Procs -> SUBSET Targets]
          /\ verdict' \in [Procs -> Verdicts]
      BY <1>3, CombineType DEF Sweep, LinuxInterfaces, ProcTypeOK, Switches, Targets, Verdicts
    <2>3. pc' \in [Procs -> Steps]
      BY <1>3 DEF Sweep, Go, ProcTypeOK, Steps, RestoreSteps
    <2>4. ProcTypeOK' /\ AssetTypeOK'
      BY <1>3, <2>2, <2>3 DEF Sweep, Go, ProcTypeOK, AssetTypeOK
    <2> QED BY <2>1, <2>4
  <1>4. CASE Undo(p)
    <2>1. FileTypeOK'
      BY <1>4 DEF Undo, FileTypeOK, fileVars, countVars
    <2>2. OsTypeOK'
      BY <1>4, SwitchType DEF Undo, ProcTypeOK
    <2>3. /\ todo' \in [Procs -> SUBSET Switches]
          /\ verdict' \in [Procs -> Verdicts]
      BY <1>4, CombineType DEF Undo, ProcTypeOK
    <2>4. pc' \in [Procs -> Steps]
      BY <1>4 DEF Undo, Go, ProcTypeOK, Steps, RestoreSteps
    <2>5. ProcTypeOK' /\ AssetTypeOK'
      BY <1>4, <2>3, <2>4 DEF Undo, Go, ProcTypeOK, AssetTypeOK
    <2> QED BY <2>1, <2>2, <2>5
  <1>5. CASE RemoveRules(p)
    <2>1. FileTypeOK'
      BY <1>5 DEF RemoveRules, FileTypeOK, fileVars, countVars
    <2>2. OsTypeOK'
      <3>1. ASSUME NEW r \in {"none", "partial", rule}, SetRule(r) PROVE OsTypeOK'
        BY <3>1, RuleType DEF OsTypeOK
      <3> QED BY <1>5, <3>1 DEF RemoveRules
    <2>3. ProcTypeOK' /\ AssetTypeOK'
      BY <1>5 DEF RemoveRules, Go, ProcTypeOK, AssetTypeOK, procVars, Steps, RestoreSteps
    <2> QED BY <2>1, <2>2, <2>3
  <1>6. CASE VerifyAbsent(p)
    <2>1. OsTypeOK' /\ FileTypeOK'
      BY <1>6 DEF VerifyAbsent, OsTypeOK, FileTypeOK, osVars, fileVars, countVars
    <2>2. verdict' \in [Procs -> Verdicts]
      BY <1>6, CombineType DEF VerifyAbsent, ProcTypeOK
    <2>3. ProcTypeOK' /\ AssetTypeOK'
      BY <1>6, <2>2 DEF VerifyAbsent, AfterVerify, Go, ProcTypeOK, AssetTypeOK, Steps,
                        RestoreSteps
    <2> QED BY <2>1, <2>3
  <1>7. CASE ReadbackRestore(p)
    <2>1. OsTypeOK' /\ FileTypeOK'
      BY <1>7 DEF ReadbackRestore, OsTypeOK, FileTypeOK, osVars, fileVars, countVars
    <2>2. verdict' \in [Procs -> Verdicts]
      <3>1. \/ verdict' = verdict
            \/ \E read : verdict' = [verdict EXCEPT ![p] =
                                        Combine({@, Readback(ReadbackTargets(p), read)})]
        BY <1>7 DEF ReadbackRestore
      <3>2. ASSUME NEW read,
                   verdict' = [verdict EXCEPT ![p] =
                                 Combine({@, Readback(ReadbackTargets(p), read)})]
            PROVE  verdict' \in [Procs -> Verdicts]
        <4>1. Combine({verdict[p], Readback(ReadbackTargets(p), read)}) \in Verdicts
          BY CombineType
        <4> QED BY <3>2, <4>1 DEF ProcTypeOK
      <3> QED BY <3>1, <3>2 DEF ProcTypeOK
    <2>3. ProcTypeOK' /\ AssetTypeOK'
      BY <1>7, <2>2 DEF ReadbackRestore, Go, ProcTypeOK, AssetTypeOK, Steps, RestoreSteps
    <2> QED BY <2>1, <2>3
  <1>8. CASE MarkResolved(p)
    <2>1. OsTypeOK'
      BY <1>8 DEF MarkResolved, OsTypeOK, osVars
    <2>2. ResolvedLine(asset[p]) \in Lines(Assets, Targets)
      BY <1>8 DEF MarkResolved, Lines, AssetTypeOK
    <2>3. FileTypeOK'
      <3>1. UNCHANGED <<fileVars, countVars>> => FileTypeOK'
        BY DEF FileTypeOK, fileVars, countVars
      <3> QED BY <1>8, <2>2, <3>1, WriteTypeOK DEF MarkResolved
    <2>4. ProcTypeOK' /\ AssetTypeOK'
      BY <1>8 DEF MarkResolved, Go, ProcTypeOK, AssetTypeOK, procVars, Steps
    <2> QED BY <2>1, <2>3, <2>4
  <1> QED BY <1>1, <1>2, <1>3, <1>4, <1>5, <1>6, <1>7, <1>8 DEF Restore

LEMMA NextTypeOK == TypeOK /\ [Next]_vars => TypeOK'
  <1> SUFFICES ASSUME TypeOK, [Next]_vars PROVE TypeOK'
    OBVIOUS
  <1>1. ASSUME NEW p \in Procs, NEW a \in Assets, NEW o \in AllOps, Begin(p, a, o)
        PROVE  TypeOK'
    BY <1>1, BeginType
  <1>2. ASSUME NEW p \in Procs, Cut(p)
        PROVE  TypeOK'
    BY <1>2, CutFullType, InstallType, RecordType DEF Cut
  <1>3. ASSUME NEW p \in Procs, Restore(p)
        PROVE  TypeOK'
    BY <1>3, RestoreType
  <1>4. ASSUME NEW p \in Procs, Report(p)
        PROVE  TypeOK'
    <2>1. ProcTypeOK' /\ AssetTypeOK'
      BY <1>4, LeaveType DEF Report, TypeOK
    <2> QED BY <1>4, <2>1 DEF Report, TypeOK, OsTypeOK, FileTypeOK, osVars, fileVars, countVars
  <1>5. ASSUME NEW p \in Procs, Crash(p)
        PROVE  TypeOK'
    <2>1. ProcTypeOK' /\ AssetTypeOK'
      BY <1>5, LeaveType DEF Crash, TypeOK
    <2>2. OsTypeOK'
      BY <1>5 DEF Crash, TypeOK, OsTypeOK
    <2>3. FileTypeOK'
      <3>1. /\ \/ torn' = torn /\ tears' = tears
               \/ torn' = TRUE /\ tears' = tears + 1
            /\ crashes' = crashes + 1
            /\ ledger' = ledger /\ failures' = failures
        BY <1>5 DEF Crash
      <3>2. ledger' \in Seq(Lines(Assets, Targets)) /\ torn' \in BOOLEAN
        BY <3>1 DEF TypeOK, FileTypeOK
      <3>3. crashes' \in Nat /\ failures' \in Nat /\ tears' \in Nat
        BY <3>1 DEF TypeOK, FileTypeOK
      <3> QED BY <3>2, <3>3 DEF FileTypeOK
    <2> QED BY <2>1, <2>2, <2>3 DEF TypeOK
  <1>6. ASSUME NEW i \in Ifaces, OtherTool(i)
        PROVE  TypeOK'
    <2>1. OsTypeOK'
      BY <1>6 DEF OtherTool, TypeOK, OsTypeOK, Switches
    <2>2. FileTypeOK'
      BY <1>6 DEF OtherTool, TypeOK, FileTypeOK, fileVars, countVars
    <2>3. ProcTypeOK' /\ AssetTypeOK'
      BY <1>6 DEF OtherTool, TypeOK, ProcTypeOK, AssetTypeOK, procVars
    <2> QED BY <2>1, <2>2, <2>3 DEF TypeOK
  <1>7. CASE UNCHANGED vars
    BY <1>7 DEF vars, osVars, fileVars, procVars, countVars,
                TypeOK, OsTypeOK, FileTypeOK, ProcTypeOK, AssetTypeOK
  <1> QED BY <1>1, <1>2, <1>3, <1>4, <1>5, <1>6, <1>7 DEF Next, Step

(***************************************************************************)
(* Type correctness of Containment, in the direct mode and in the daemon.  *)
(***************************************************************************)
THEOREM TypeCorrect == Spec => []TypeOK
  <1> QED BY InitTypeOK, NextTypeOK, PTL DEF Spec

-----------------------------------------------------------------------------
(* The loop that reads the ledger. *)

\* The library's induction theorem takes an operator; this takes a set.
LEMMA LeastOf ==
  ASSUME NEW T, T \subseteq Nat, T # {}
  PROVE  \E x \in T : \A y \in T : ~(y < x)
  <1>1. IsWellFoundedOn(OpToRel(<, Nat), Nat)
    BY NatLessThanWellFounded
  <1>2. PICK x \in T : \A y \in T : ~ (<<y, x>> \in OpToRel(<, Nat))
    BY <1>1, WFMin
  <1> QED BY <1>2 DEF OpToRel

\* What the first i lines leave unresolved.
Within(log, a, i) ==
  {j \in 1 .. i : /\ log[j].type = "cut"
                  /\ log[j].asset = a
                  /\ ~\E k \in j + 1 .. i : log[k].type = "resolved" /\ log[k].asset = a}
Held(log, a, i) == UNION {log[j].modified : j \in Within(log, a, i)}

\* One line changes it the way the loop does.
LEMMA HeldSteps ==
  ASSUME NEW log, NEW a, NEW i \in Nat, i > 0
  PROVE  Held(log, a, i) = WalkStep(a, Held(log, a, i - 1), log[i])
  <1>1. i - 1 \in Nat /\ i \in 1 .. i /\ ~(i \in 1 .. i - 1)
        /\ (\A j \in 1 .. i : j = i \/ j \in 1 .. i - 1) /\ (\A j \in 1 .. i - 1 : j \in 1 .. i /\ j # i)
    OBVIOUS
  <1>2. ~\E k \in i + 1 .. i : log[k].type = "resolved" /\ log[k].asset = a
    OBVIOUS
  <1>3. ASSUME NEW j \in 1 .. i - 1
        PROVE  /\ i \in j + 1 .. i
               /\ j + 1 .. i - 1 \subseteq j + 1 .. i
               /\ \A k \in j + 1 .. i : k = i \/ k \in j + 1 .. i - 1
    OBVIOUS
  <1>4. CASE log[i].type = "cut" /\ log[i].asset = a
    <2>1. Within(log, a, i) = Within(log, a, i - 1) \cup {i}
      BY <1>1, <1>2, <1>3, <1>4 DEF Within
    <2> QED BY <1>4, <2>1 DEF Held, WalkStep
  <1>5. CASE log[i].type = "resolved" /\ log[i].asset = a
    <2>1. Within(log, a, i) = {}
      BY <1>1, <1>3, <1>5 DEF Within
    <2> QED BY <1>5, <2>1 DEF Held, WalkStep
  <1>6. CASE /\ ~(log[i].type = "cut" /\ log[i].asset = a)
             /\ ~(log[i].type = "resolved" /\ log[i].asset = a)
    <2>1. Within(log, a, i) = Within(log, a, i - 1)
      BY <1>1, <1>3, <1>6 DEF Within
    <2> QED BY <1>6, <2>1 DEF Held, WalkStep
  <1> QED BY <1>4, <1>5, <1>6

\* The loop of unresolved_for ends with what no later line resolves.
LEMMA WalkIsUnresolved ==
  ASSUME NEW log, NEW a, Len(log) \in Nat
  PROVE  Walk(log, a) = Unresolved(log, a)
  <1> DEFINE n == Len(log)
             Is(f) == f = [i \in 0 .. n |-> IF i = 0 THEN {} ELSE WalkStep(a, f[i - 1], log[i])]
             g == [i \in 0 .. n |-> Held(log, a, i)]
             c == CHOOSE f : Is(f)
  <1>1. Is(g)
    <2>1. Held(log, a, 0) = {}
      BY DEF Held, Within
    <2>2. ASSUME NEW i \in 0 .. n
          PROVE  g[i] = IF i = 0 THEN {} ELSE WalkStep(a, g[i - 1], log[i])
      <3>1. CASE i = 0
        BY <2>1, <3>1
      <3>2. CASE i # 0
        <4>1. i \in Nat /\ i > 0 /\ i - 1 \in 0 .. n
          BY <3>2
        <4>2. Held(log, a, i) = WalkStep(a, Held(log, a, i - 1), log[i])
          BY <4>1, HeldSteps
        <4> QED BY <3>2, <4>1, <4>2
      <3> QED BY <3>1, <3>2
    <2>3. g = [i \in 0 .. n |-> g[i]]
      OBVIOUS
    <2> HIDE DEF g
    <2> QED BY <2>2, <2>3
  <1>2. ASSUME NEW f, Is(f)
        PROVE  \A i \in 0 .. n : f[i] = g[i]
    <2> DEFINE T == {i \in 0 .. n : f[i] # g[i]}
    <2> SUFFICES ASSUME T # {} PROVE FALSE
      OBVIOUS
    <2>1. T \subseteq Nat
      OBVIOUS
    <2>2. PICK i \in T : \A y \in T : ~(y < i)
      BY <2>1, LeastOf
    <2> HIDE DEF g
    <2>3. /\ f[i] = IF i = 0 THEN {} ELSE WalkStep(a, f[i - 1], log[i])
          /\ g[i] = IF i = 0 THEN {} ELSE WalkStep(a, g[i - 1], log[i])
      <3>1. i \in 0 .. n
        OBVIOUS
      <3> QED BY <1>1, <1>2, <3>1
    <2>4. CASE i = 0
      BY <2>2, <2>3, <2>4
    <2>5. CASE i # 0
      <3>1. i - 1 \in 0 .. n /\ i - 1 < i
        BY <2>5
      <3>2. f[i - 1] = g[i - 1]
        BY <2>2, <3>1
      <3> QED BY <2>2, <2>3, <2>5, <3>2
    <2> QED BY <2>4, <2>5
  <1>3. n \in 0 .. n
    OBVIOUS
  <1>4. Walk(log, a) = c[n]
    BY DEF Walk
  <1>5. g[n] = Unresolved(log, a)
    <2>1. Within(log, a, n) = {j \in 1 .. n : Pending(log, a, j)}
      BY DEF Within, Pending, ResolvedAfter
    <2> QED BY <1>3, <2>1 DEF Held, Unresolved
  <1> HIDE DEF Is, g
  <1>6. Is(c)
    BY <1>1
  <1> HIDE DEF c
  <1> QED BY <1>2, <1>3, <1>4, <1>5, <1>6

\* In every reachable state the one pass of unresolved_for over the ledger ends
\* with exactly what the cuts changed and no later restore resolved, for every
\* asset: two cuts on record are both undone, and nothing that was restored.
THEOREM WalkIsRight == Spec => []WalkAgrees
  <1>1. TypeOK => WalkAgrees
    BY WalkIsUnresolved DEF TypeOK, FileTypeOK, WalkAgrees
  <1> QED BY <1>1, TypeCorrect, PTL

-----------------------------------------------------------------------------
(* The ledger under an append. *)

LEMMA InUnresolved ==
  ASSUME NEW log, NEW a, NEW t
  PROVE  t \in Unresolved(log, a) <=>
           \E i \in 1 .. Len(log) : Pending(log, a, i) /\ t \in log[i].modified
  BY DEF Unresolved

\* A line that does not resolve b leaves what is unresolved of b unresolved.
LEMMA AppendKeeps ==
  ASSUME NEW L, NEW log \in Seq(L), NEW line \in L, NEW b,
         ~(line.type = "resolved" /\ line.asset = b)
  PROVE  Unresolved(log, b) \subseteq Unresolved(Append(log, line), b)
  <1> DEFINE new == Append(log, line)
  <1>1. /\ Len(new) = Len(log) + 1
        /\ \A i \in 1 .. Len(log) : new[i] = log[i]
        /\ new[Len(log) + 1] = line
        /\ Len(log) \in Nat
    OBVIOUS
  <1>2. ASSUME NEW i \in 1 .. Len(log), Pending(log, b, i)
        PROVE  Pending(new, b, i)
    BY <1>1, <1>2 DEF Pending, ResolvedAfter
  <1>3. ASSUME NEW t, t \in Unresolved(log, b)
        PROVE  t \in Unresolved(new, b)
    <2>1. PICK i \in 1 .. Len(log) : Pending(log, b, i) /\ t \in log[i].modified
      BY <1>3, InUnresolved
    <2>2. i \in 1 .. Len(new) /\ Pending(new, b, i) /\ t \in new[i].modified
      BY <1>1, <1>2, <2>1
    <2> QED BY <2>2, InUnresolved
  <1> QED BY <1>3

\* An appended cut is unresolved.
LEMMA AppendRecords ==
  ASSUME NEW L, NEW log \in Seq(L), NEW a, NEW m, CutLine(a, m) \in L
  PROVE  m \subseteq Unresolved(Append(log, CutLine(a, m)), a)
  <1> DEFINE new == Append(log, CutLine(a, m))
             n == Len(log) + 1
  <1>1. Len(new) = n /\ new[n] = CutLine(a, m) /\ n \in Nat \ {0}
    OBVIOUS
  <1>2. Pending(new, a, n)
    BY <1>1 DEF Pending, ResolvedAfter, CutLine
  <1>3. ASSUME NEW t \in m PROVE t \in Unresolved(new, a)
    <2>1. n \in 1 .. Len(new) /\ t \in new[n].modified
      BY <1>1 DEF CutLine
    <2> QED BY <1>2, <2>1, InUnresolved
  <1> QED BY <1>3

\* Damage stays: an append after a torn line is itself unreadable.
LEMMA DamageStays ==
  ASSUME NEW L, NEW log \in Seq(L), NEW t \in BOOLEAN, NEW line \in L, JunkLine \in L,
         Damaged(log, t)
  PROVE  Damaged(Appended(log, t, line), FALSE)
  <1> DEFINE last == IF t THEN JunkLine ELSE line
             new == Append(log, last)
  <1>1. /\ Len(new) = Len(log) + 1
        /\ \A i \in 1 .. Len(log) : new[i] = log[i]
        /\ new[Len(log) + 1] = last
        /\ Len(log) \in Nat
    OBVIOUS
  <1>2. CASE t
    BY <1>1, <1>2 DEF Damaged, Appended, JunkLine
  <1>3. CASE ~t
    BY <1>1, <1>3 DEF Damaged, Appended
  <1> QED BY <1>2, <1>3

LEMMA LinesHold ==
  ASSUME NEW a \in Assets, NEW m \in SUBSET Targets
  PROVE  /\ CutLine(a, m) \in Lines(Assets, Targets)
         /\ ResolvedLine(a) \in Lines(Assets, Targets)
         /\ JunkLine \in Lines(Assets, Targets)
  BY DEF Lines

-----------------------------------------------------------------------------
(* What an operation does between Begin and Report. *)

\* A step of p that leaves the ledger alone.
OwnStep(p) ==
    /\ pc[p] # "idle"
    /\ lock' = lock
    /\ ledger' = ledger
    /\ torn' = torn
    /\ \A q \in Procs : q # p => pc'[q] = pc[q] /\ seen'[q] = seen[q] /\ todo'[q] = todo[q]

\* t was held off before, and no less accounted for; or p's cut names it.
StillNamed(p, t) ==
    \/ t \in held /\ (t \in lost => t \in lost')
    \/ pc'[p] \in CutSteps /\ t \in seen'[p] /\ t \in Targets

\* p's cut goes on, and forgets nothing it has touched.
CutGoesOn(p) ==
    pc[p] \in CutSteps =>
        seen[p] = {} \/ (pc'[p] \in CutSteps /\ seen[p] \subseteq seen'[p])

\* Switching on takes nothing off that was not accounted for.
LEMMA SwitchOnNames ==
  ASSUME NEW p, NEW t, NEW effect \in BOOLEAN, SwitchOn(t, effect)
  PROVE  \A s \in held' : StillNamed(p, s)
  BY DEF SwitchOn, StillNamed

-----------------------------------------------------------------------------
(* Without the lock: what is held off stays named until a restore has      *)
(* marked something as resolved.                                           *)

SomethingResolved == \E i \in 1 .. Len(ledger) : ledger[i].type = "resolved"

NamedInv ==
    /\ FW \in held <=> rule # "none"
    /\ \A p \in Procs : Fresh(p)
    /\ RecoverableUntilResolved

LEMMA FileKept ==
  ASSUME RecoverableUntilResolved, ledger' = ledger, torn' \in {torn, TRUE},
         \A t \in held' : \/ t \in held /\ (t \in UnderWay \cup lost => t \in UnderWay' \cup lost')
                          \/ t \in UnderWay'
  PROVE  RecoverableUntilResolved'
  <1>1. Recorded' = Recorded /\ SomethingResolved' = SomethingResolved
    BY DEF Recorded, Unresolved, Pending, ResolvedAfter, SomethingResolved
  <1>2. Damaged(ledger, torn) => Damaged(ledger, torn)'
    BY DEF Damaged
  <1> QED BY <1>1, <1>2 DEF RecoverableUntilResolved, Recoverable, SomethingResolved

LEMMA UnderWayKept ==
  ASSUME NEW p \in Procs, CutGoesOn(p),
         \A q \in Procs : q # p => pc'[q] = pc[q] /\ seen'[q] = seen[q]
  PROVE  UnderWay \subseteq UnderWay'
  BY DEF UnderWay, CutGoesOn

LEMMA WorkNamed ==
  ASSUME TypeOK, NamedInv, NEW p \in Procs, OwnStep(p), CutGoesOn(p), Fresh(p)',
         FW \in held' <=> rule' # "none", \A t \in held' : StillNamed(p, t)
  PROVE  NamedInv'
  <1> USE DEF OwnStep, NamedInv
  <1>1. \A q \in Procs : Fresh(q)'
    BY DEF Fresh
  <1>2. UnderWay \subseteq UnderWay'
    BY UnderWayKept
  <1>3. ASSUME NEW t \in held'
        PROVE  \/ t \in held /\ (t \in UnderWay \cup lost => t \in UnderWay' \cup lost')
               \/ t \in UnderWay'
    BY <1>2 DEF StillNamed, UnderWay
  <1> QED BY <1>1, <1>3, FileKept

LEMMA CutFullNamed ==
  ASSUME TypeOK, NamedInv, NEW p \in Procs, CutFull(p)
  PROVE  NamedInv'
  <1> USE DEF TypeOK, NamedInv
  <1>1. pc[p] \in CutSteps /\ pc'[p] \in {"nmcli", "list", "link", "check"}
    BY DEF CutFull, Snapshot, NmcliOff, ListLinks, LinkDown, Go, ProcTypeOK, CutSteps
  <1>2. OwnStep(p) /\ seen[p] \subseteq seen'[p]
    BY DEF CutFull, Snapshot, NmcliOff, ListLinks, LinkDown, Attempted, Go, OwnStep, fileVars,
           ProcTypeOK
  <1>3. CutGoesOn(p) /\ Fresh(p)'
    <2>1. CutGoesOn(p)
      BY <1>1, <1>2 DEF CutGoesOn, CutSteps
    <2>2. pc'[p] = "nmcli" => pc[p] = "snapshot" /\ seen' = seen
      BY DEF CutFull, Snapshot, NmcliOff, ListLinks, LinkDown, Go, ProcTypeOK
    <2>3. Fresh(p)'
      BY <1>1, <2>2 DEF Fresh
    <2> QED BY <2>1, <2>3
  <1>4. \/ UNCHANGED osVars
        \/ \E t \in Switches, effect \in BOOLEAN : SwitchOff(t, effect) /\ t \in seen'[p]
    BY DEF CutFull, Snapshot, NmcliOff, ListLinks, LinkDown, Attempted, ProcTypeOK, Switches, Targets
  <1>5. CASE UNCHANGED osVars
    BY <1>2, <1>3, <1>5, WorkNamed DEF osVars, StillNamed
  <1>6. ASSUME NEW t \in Switches, NEW effect \in BOOLEAN, SwitchOff(t, effect), t \in seen'[p]
        PROVE  NamedInv'
    <2>1. FW # t /\ rule' = rule /\ held' \subseteq held \cup {t} /\ held \subseteq held' /\ lost' = lost
      BY <1>6 DEF SwitchOff
    <2>2. \A s \in held' : StillNamed(p, s)
      BY <1>1, <1>6, <2>1 DEF StillNamed, CutSteps, Targets
    <2> QED BY <1>2, <1>3, <2>1, <2>2, WorkNamed
  <1> QED BY <1>4, <1>5, <1>6

LEMMA InstallNamed ==
  ASSUME TypeOK, NamedInv, NEW p \in Procs, Install(p) \/ AppendRules(p) \/ (CheckCut(p) /\ seen[p] # {})
  PROVE  NamedInv'
  <1> USE DEF TypeOK, NamedInv
  <1>1. CASE CheckCut(p) /\ seen[p] # {}
    <2>1. OwnStep(p) /\ CutGoesOn(p) /\ Fresh(p)' /\ UNCHANGED osVars
      BY <1>1 DEF CheckCut, Go, OwnStep, CutGoesOn, Fresh, fileVars, ProcTypeOK, CutSteps
    <2> QED BY <2>1, WorkNamed DEF osVars, StillNamed
  <1>2. CASE Install(p)
    <2>1. pc[p] = "install" /\ pc'[p] \in {"rules", "check"} /\ seen[p] = {}
      BY <1>2 DEF Install, InstallNft, InstallIptables, Go, ProcTypeOK, Fresh
    <2>2. \/ \E r : SetRule(r) /\ seen' = [seen EXCEPT ![p] = {FW}]
          \/ UNCHANGED <<osVars, seen>>
      BY <1>2 DEF Install, InstallNft, InstallIptables
    <2>3. OwnStep(p) /\ CutGoesOn(p) /\ Fresh(p)'
      BY <1>2, <2>1, <2>2 DEF Install, InstallNft, InstallIptables, Go, OwnStep, CutGoesOn, Fresh,
                              fileVars, ProcTypeOK
    <2>4. (FW \in held' <=> rule' # "none") /\ \A t \in held' : StillNamed(p, t)
      BY <2>1, <2>2 DEF SetRule, osVars, StillNamed, ProcTypeOK, CutSteps, Targets
    <2> QED BY <2>3, <2>4, WorkNamed
  <1>3. CASE AppendRules(p)
    <2>1. /\ pc[p] = "rules" /\ pc'[p] = "check" /\ seen' = seen
          /\ seen[p] = {FW}
          /\ \E r : SetRule(r)
          /\ OwnStep(p)
      BY <1>3 DEF AppendRules, Go, OwnStep, fileVars, ProcTypeOK, Fresh
    <2>2. CutGoesOn(p) /\ Fresh(p)'
      BY <2>1 DEF CutGoesOn, Fresh, CutSteps
    <2>3. FW \in held' <=> rule' # "none"
      BY <2>1 DEF SetRule
    <2>4. \A t \in held' : StillNamed(p, t)
      BY <2>1 DEF SetRule, StillNamed, CutSteps, Targets
    <2> QED BY <2>1, <2>2, <2>3, <2>4, WorkNamed
  <1> QED BY <1>1, <1>2, <1>3

\* A restore up to its last step takes nothing off.
LEMMA RestoreNamed ==
  ASSUME TypeOK, NamedInv, NEW p \in Procs, Restore(p), ~MarkResolved(p)
  PROVE  NamedInv'
  <1> USE DEF TypeOK, NamedInv
  <1>1. /\ pc[p] \in RestoreSteps
        /\ pc'[p] \in {"report", "undo", "fwRemove", "sweep", "fwVerify", "readback", "resolve"}
    BY DEF Restore, ReadLedger, NmcliOn, Sweep, Undo, RemoveRules, VerifyAbsent, AfterVerify,
           ReadbackRestore, Go, ProcTypeOK, RestoreSteps
  <1>2. OwnStep(p)
    <2>1. CASE ReadLedger(p) \/ NmcliOn(p) \/ Sweep(p)
      BY <2>1 DEF ReadLedger, NmcliOn, Sweep, Go, OwnStep, fileVars, ProcTypeOK
    <2>2. CASE Undo(p) \/ RemoveRules(p)
      BY <2>2 DEF Undo, RemoveRules, Go, OwnStep, fileVars, procVars, ProcTypeOK
    <2>3. CASE VerifyAbsent(p) \/ ReadbackRestore(p)
      BY <2>3 DEF VerifyAbsent, AfterVerify, ReadbackRestore, Go, OwnStep, fileVars, ProcTypeOK
    <2> QED BY <2>1, <2>2, <2>3 DEF Restore
  <1>3. CutGoesOn(p) /\ Fresh(p)'
    BY <1>1 DEF CutGoesOn, Fresh, CutSteps, RestoreSteps
  <1>4. \/ UNCHANGED osVars
        \/ \E t \in Switches, effect \in BOOLEAN : SwitchOn(t, effect)
        \/ \E r : SetRule(r) /\ (r # "none" => rule # "none")
    <2>1. CASE NmcliOn(p)
      BY <2>1 DEF NmcliOn, Switches
    <2>2. CASE Undo(p)
      BY <2>2 DEF Undo, ProcTypeOK
    <2>3. CASE RemoveRules(p)
      BY <2>3 DEF RemoveRules
    <2>4. CASE ReadLedger(p) \/ Sweep(p) \/ VerifyAbsent(p) \/ ReadbackRestore(p)
      BY <2>4 DEF ReadLedger, Sweep, VerifyAbsent, ReadbackRestore
    <2> QED BY <2>1, <2>2, <2>3, <2>4 DEF Restore
  <1>5. CASE UNCHANGED osVars
    BY <1>2, <1>3, <1>5, WorkNamed DEF osVars, StillNamed
  <1>6. ASSUME NEW t \in Switches, NEW effect \in BOOLEAN, SwitchOn(t, effect)
        PROVE  NamedInv'
    <2>1. FW # t /\ (FW \in held' <=> rule' # "none")
      BY <1>6 DEF SwitchOn
    <2> QED BY <1>2, <1>3, <1>6, <2>1, SwitchOnNames, WorkNamed
  <1>7. ASSUME NEW r, SetRule(r), r # "none" => rule # "none"
        PROVE  NamedInv'
    <2>1. (FW \in held' <=> rule' # "none") /\ \A t \in held' : StillNamed(p, t)
      BY <1>7 DEF SetRule, StillNamed
    <2> QED BY <1>2, <1>3, <2>1, WorkNamed
  <1> QED BY <1>4, <1>5, <1>6, <1>7

\* What the end of an append leaves: nothing new, a piece, or one more line.
LedgerGrows(line) ==
    \/ ledger' = ledger /\ torn' \in {torn, TRUE}
    \/ ledger' = Appended(ledger, torn, line) /\ torn' = FALSE

LEMMA WritesGrow ==
  ASSUME NEW line, WriteOk(line) \/ WriteFails \/ WriteTears
  PROVE  LedgerGrows(line)
  BY DEF WriteOk, WriteFails, WriteTears, LedgerGrows

LEMMA ResolvedNamed ==
  ASSUME TypeOK, NamedInv, NEW p \in Procs, MarkResolved(p)
  PROVE  NamedInv'
  <1> USE DEF TypeOK, NamedInv
  <1> DEFINE line == ResolvedLine(asset[p])
  <1>1. /\ pc[p] = "resolve" /\ pc'[p] = "report"
        /\ UNCHANGED <<osVars, seen, todo>>
        /\ \A q \in Procs : q # p => pc'[q] = pc[q]
    BY DEF MarkResolved, Go, ProcTypeOK, procVars
  <1>2. (FW \in held' <=> rule' # "none") /\ \A q \in Procs : Fresh(q)'
    BY <1>1 DEF osVars, Fresh
  <1>3. asset[p] \in Assets /\ line \in Lines(Assets, Targets) /\ JunkLine \in Lines(Assets, Targets)
    BY <1>1, LinesHold DEF AssetTypeOK
  <1>4. CASE ledger' = ledger /\ torn' \in {torn, TRUE}
    <2>1. UnderWay' = UnderWay
      BY <1>1 DEF UnderWay, CutSteps
    <2>2. held' = held /\ lost' = lost
      BY <1>1 DEF osVars
    <2>3. RecoverableUntilResolved'
      BY <1>4, <2>1, <2>2, FileKept
    <2> QED BY <1>2, <2>3
  <1>5. CASE ledger' = Appended(ledger, torn, line) /\ torn' = FALSE
    <2>1. CASE torn
      <3>1. Damaged(ledger, torn)
        BY <2>1 DEF Damaged
      <3>2. Damaged(Appended(ledger, torn, line), FALSE)
        BY <1>3, <3>1, DamageStays DEF FileTypeOK
      <3> QED BY <1>2, <1>5, <3>2 DEF RecoverableUntilResolved, Recoverable
    <2>2. CASE ~torn
      <3>1. ledger' = Append(ledger, line)
        BY <1>5, <2>2 DEF Appended
      <3>2. Len(ledger') = Len(ledger) + 1 /\ ledger'[Len(ledger) + 1] = line /\ Len(ledger) \in Nat
        BY <1>3, <3>1 DEF FileTypeOK
      <3>3. SomethingResolved'
        BY <3>2 DEF SomethingResolved, ResolvedLine
      <3> QED BY <1>2, <3>3 DEF RecoverableUntilResolved, SomethingResolved
    <2> QED BY <2>1, <2>2
  <1> QED BY <1>4, <1>5, WritesGrow DEF MarkResolved, LedgerGrows, fileVars

\* A resolve on file stays on file.
LEMMA ResolvedStays ==
  ASSUME NEW L, NEW log \in Seq(L), NEW line \in L,
         \E i \in 1 .. Len(log) : log[i].type = "resolved"
  PROVE  \E i \in 1 .. Len(Append(log, line)) : Append(log, line)[i].type = "resolved"
  <1>1. PICK i \in 1 .. Len(log) : log[i].type = "resolved"
    OBVIOUS
  <1>2. i \in 1 .. Len(Append(log, line)) /\ Append(log, line)[i] = log[i]
    OBVIOUS
  <1> QED BY <1>1, <1>2

LEMMA RecordNamed ==
  ASSUME TypeOK, NamedInv, NEW p \in Procs, RecordCut(p)
  PROVE  NamedInv'
  <1> USE DEF TypeOK, NamedInv
  <1> DEFINE line == CutLine(asset[p], seen[p])
  <1>1. /\ pc[p] = "record" /\ pc'[p] = "report"
        /\ UNCHANGED <<up, rule, held, seen, todo>>
        /\ \A q \in Procs : q # p => pc'[q] = pc[q]
    BY DEF RecordCut, Go, ProcTypeOK
  <1>2. (FW \in held' <=> rule' # "none") /\ \A q \in Procs : Fresh(q)'
    BY <1>1 DEF Fresh
  <1>3. UnderWay \subseteq UnderWay' \cup seen[p]
    BY <1>1 DEF UnderWay
  <1>4. CASE (WriteFails \/ WriteTears) /\ lost' = lost \cup (seen[p] \cap held)
    <2>1. ledger' = ledger /\ torn' \in {torn, TRUE}
      BY <1>4 DEF WriteFails, WriteTears
    <2> QED BY <1>1, <1>2, <1>3, <1>4, <2>1, FileKept
  <1>5. CASE WriteOk(line) /\ lost' = lost
    <2>1. /\ asset[p] \in Assets
          /\ line \in Lines(Assets, Targets)
          /\ JunkLine \in Lines(Assets, Targets)
      BY <1>1, LinesHold DEF AssetTypeOK, ProcTypeOK
    <2>2. CASE Damaged(ledger, torn)
      <3>1. Damaged(Appended(ledger, torn, line), FALSE)
        BY <2>1, <2>2, DamageStays DEF FileTypeOK
      <3> QED BY <1>2, <1>5, <3>1 DEF WriteOk, RecoverableUntilResolved, Recoverable
    <2>3. CASE ~Damaged(ledger, torn)
      <3>1. ledger' = Append(ledger, line)
        BY <1>5, <2>3 DEF WriteOk, Appended, Damaged
      <3>2. CASE SomethingResolved
        <4>1. SomethingResolved'
          BY <2>1, <3>1, <3>2, ResolvedStays DEF SomethingResolved, FileTypeOK
        <4> QED BY <1>2, <4>1 DEF RecoverableUntilResolved, SomethingResolved
      <3>3. CASE ~SomethingResolved
        <4>1. held \subseteq Recorded \cup UnderWay \cup lost
          BY <2>3, <3>3 DEF RecoverableUntilResolved, Recoverable, SomethingResolved
        <4>2. ASSUME NEW t \in Recorded PROVE t \in Recorded'
          <5>1. PICK b \in Assets : t \in Unresolved(ledger, b)
            BY <4>2 DEF Recorded
          <5>2. t \in Unresolved(ledger', b)
            BY <2>1, <3>1, <5>1, AppendKeeps DEF FileTypeOK, CutLine
          <5> QED BY <4>2, <5>2 DEF Recorded
        <4>3. ASSUME NEW t \in seen[p], t \in held PROVE t \in Recorded'
          <5>1. t \in Unresolved(ledger', asset[p])
            BY <2>1, <3>1, <4>3, AppendRecords DEF FileTypeOK
          <5> QED BY <2>1, <4>3, <5>1 DEF Recorded, ProcTypeOK
        <4> QED BY <1>1, <1>2, <1>3, <1>5, <4>1, <4>2, <4>3 DEF RecoverableUntilResolved, Recoverable
      <3> QED BY <3>2, <3>3
    <2> QED BY <2>2, <2>3
  <1> QED BY <1>4, <1>5 DEF RecordCut

\* Leaving: announced, killed, or with nothing to record.
LEMMA LeaveNamed ==
  ASSUME TypeOK, NamedInv, NEW p \in Procs,
         Report(p) \/ Crash(p) \/ (CheckCut(p) /\ seen[p] = {})
  PROVE  NamedInv'
  <1> USE DEF TypeOK, NamedInv
  <1>1. /\ pc'[p] \in {"idle", "report"} /\ (pc'[p] = "idle" => seen'[p] = {} /\ todo'[p] = {})
        /\ \A q \in Procs : q # p => pc'[q] = pc[q] /\ seen'[q] = seen[q] /\ todo'[q] = todo[q]
        /\ UNCHANGED <<up, rule, held, ledger>>
        /\ torn' \in {torn, TRUE}
    BY DEF Report, Crash, Leave, CheckCut, Go, ProcTypeOK, osVars, fileVars
  <1>2. (FW \in held' <=> rule' # "none") /\ \A q \in Procs : Fresh(q)'
    BY <1>1 DEF Fresh
  <1>3. lost \subseteq lost' /\ (pc[p] \in CutSteps => seen[p] \cap held \subseteq lost')
    BY DEF Report, Crash, CheckCut, osVars, CutSteps
  <1>4. ASSUME NEW t \in UnderWay, t \in held PROVE t \in UnderWay' \cup lost'
    BY <1>1, <1>3, <1>4 DEF UnderWay
  <1> QED BY <1>1, <1>2, <1>3, <1>4, FileKept

LEMMA BeginNamed ==
  ASSUME TypeOK, NamedInv, NEW p \in Procs, NEW a \in Assets, NEW o \in AllOps, Begin(p, a, o)
  PROVE  NamedInv'
  <1> USE DEF TypeOK, NamedInv
  <1>1. /\ pc[p] = "idle" /\ seen[p] = {} /\ todo[p] = {} /\ pc'[p] # "rules"
        /\ \A q \in Procs : q # p => pc'[q] = pc[q]
        /\ UNCHANGED <<up, rule, held, lost, ledger, torn, seen, todo>>
    BY DEF Begin, Go, ProcTypeOK, Fresh, osVars, fileVars, AllOps
  <1>2. \A q \in Procs : Fresh(q)'
    BY <1>1 DEF Fresh
  <1>3. UnderWay \subseteq UnderWay'
    BY <1>1 DEF UnderWay
  <1> QED BY <1>1, <1>2, <1>3, FileKept

LEMMA OutsideNamed ==
  ASSUME TypeOK, NamedInv, (\E i \in Ifaces : OtherTool(i)) \/ UNCHANGED vars
  PROVE  NamedInv'
  <1> USE DEF TypeOK, NamedInv
  <1>1. /\ UNCHANGED <<rule, pc, seen, todo, ledger, torn>>
        /\ \/ UNCHANGED <<held, lost>>
           \/ \E i \in Ifaces : held' = held \ {i} /\ lost' = lost \ {i}
    BY DEF OtherTool, vars, osVars, fileVars, procVars
  <1>2. \A i \in Ifaces : i # FW
    BY DEF Switches
  <1>3. (FW \in held' <=> rule' # "none") /\ \A q \in Procs : Fresh(q)'
    BY <1>1, <1>2 DEF Fresh
  <1>4. UnderWay' = UnderWay
    BY <1>1 DEF UnderWay
  <1> QED BY <1>1, <1>3, <1>4, FileKept

\* Without a lock, too: until a restore has marked something as resolved, all
\* that is held off is named, under way or was reported as unrecorded.
THEOREM CutsAreNamed == Spec => []RecoverableUntilResolved
  <1>1. Init => NamedInv
    BY DEF Init, NamedInv, Fresh, RecoverableUntilResolved, Recoverable
  <1>2. ASSUME TypeOK, NamedInv, [Next]_vars PROVE NamedInv'
    <2>1. ASSUME NEW p \in Procs, Step(p) \/ Crash(p) PROVE NamedInv'
      BY <1>2, <2>1, CutFullNamed, InstallNamed, RecordNamed, RestoreNamed, ResolvedNamed, LeaveNamed
         DEF Step, Cut
    <2>2. ASSUME NEW p \in Procs, NEW a \in Assets, NEW o \in AllOps, Begin(p, a, o)
          PROVE  NamedInv'
      BY <1>2, <2>2, BeginNamed
    <2> QED BY <1>2, <2>1, <2>2, OutsideNamed DEF Next
  <1>3. NamedInv => RecoverableUntilResolved
    BY DEF NamedInv
  <1> QED BY <1>1, <1>2, <1>3, TypeCorrect, PTL DEF Spec
-----------------------------------------------------------------------------
(* A cut announced as applied is in the ledger. *)

\* Every operation takes its own steps.
OwnSteps ==
    \A p \in Procs :
        /\ pc[p] \in CutSteps => op[p] \in CutOps
        /\ pc[p] \in RestoreSteps => op[p] \in RestoreOps

\* The line a step of p may add to the ledger.
LineOf(p) == IF pc[p] = "record" THEN CutLine(asset[p], seen[p]) ELSE ResolvedLine(asset[p])

\* A step of p touches nobody else's account and adds one line at most.
ActsAlone(p) ==
    /\ \A q \in Procs : q # p => /\ pc'[q] = pc[q] /\ op'[q] = op[q] /\ asset'[q] = asset[q]
                                 /\ seen'[q] = seen[q] /\ verdict'[q] = verdict[q]
    /\ LedgerGrows(LineOf(p))
    /\ pc[p] # "idle"

LEMMA StepActsAlone ==
  ASSUME TypeOK, NEW p \in Procs, Step(p) \/ Crash(p)
  PROVE  ActsAlone(p)
  <1> USE DEF TypeOK
  <1>1. CASE Snapshot(p) \/ NmcliOff(p) \/ ListLinks(p)
    BY <1>1 DEF Snapshot, NmcliOff, ListLinks, Attempted, Go, ActsAlone, LedgerGrows, fileVars,
                ProcTypeOK
  <1>2. CASE LinkDown(p) \/ CheckCut(p)
    BY <1>2 DEF LinkDown, CheckCut, Attempted, Go, ActsAlone, LedgerGrows, fileVars, ProcTypeOK
  <1>3. CASE Install(p) \/ AppendRules(p)
    BY <1>3 DEF Install, InstallNft, InstallIptables, AppendRules, Go, ActsAlone, LedgerGrows, fileVars,
                ProcTypeOK
  <1>4. CASE RecordCut(p)
    <2>1. LedgerGrows(LineOf(p)) /\ pc[p] = "record"
      BY <1>4, WritesGrow DEF RecordCut, LineOf
    <2> QED BY <1>4, <2>1 DEF RecordCut, NotRecorded, Go, ActsAlone, ProcTypeOK
  <1>5. CASE ReadLedger(p) \/ NmcliOn(p) \/ Sweep(p)
    <2>1. CASE ReadLedger(p)
      BY <2>1 DEF ReadLedger, Go, ActsAlone, LedgerGrows, fileVars, ProcTypeOK
    <2>2. CASE NmcliOn(p)
      BY <2>2 DEF NmcliOn, Go, ActsAlone, LedgerGrows, fileVars, ProcTypeOK
    <2>3. CASE Sweep(p)
      BY <2>3 DEF Sweep, Go, ActsAlone, LedgerGrows, fileVars, ProcTypeOK
    <2> QED BY <1>5, <2>1, <2>2, <2>3
  <1>6. CASE Undo(p) \/ RemoveRules(p)
    BY <1>6 DEF Undo, RemoveRules, Go, ActsAlone, LedgerGrows, fileVars, procVars, ProcTypeOK
  <1>7. CASE VerifyAbsent(p) \/ ReadbackRestore(p)
    BY <1>7 DEF VerifyAbsent, AfterVerify, ReadbackRestore, Go, ActsAlone, LedgerGrows, fileVars,
                ProcTypeOK
  <1>8. CASE MarkResolved(p)
    <2>1. LedgerGrows(LineOf(p)) /\ pc[p] = "resolve"
      BY <1>8, WritesGrow DEF MarkResolved, LineOf, LedgerGrows, fileVars
    <2> QED BY <1>8, <2>1 DEF MarkResolved, Go, ActsAlone, procVars, ProcTypeOK
  <1>9. CASE Report(p) \/ Crash(p)
    BY <1>9 DEF Report, Crash, Leave, Go, ActsAlone, LedgerGrows, fileVars, ProcTypeOK
  <1> QED BY <1>1, <1>2, <1>3, <1>4, <1>5, <1>6, <1>7, <1>8, <1>9
          DEF Step, Cut, CutFull, Restore

\* What the reader of an undamaged ledger finds of a cut, it goes on finding
\* until the asset is resolved.
FoundOrResolved(a, m) ==
    \/ Damaged(ledger, torn)
    \/ m \subseteq Unresolved(ledger, a)
    \/ ResolvedAfter(ledger, a, 0)

LEMMA FoundStays ==
  ASSUME FileTypeOK, NEW line \in Lines(Assets, Targets), LedgerGrows(line),
         NEW a, NEW m, FoundOrResolved(a, m)
  PROVE  FoundOrResolved(a, m)'
  <1> SUFFICES ASSUME ~Damaged(ledger, torn)'
               PROVE  m \subseteq Unresolved(ledger', a) \/ ResolvedAfter(ledger', a, 0)
    BY DEF FoundOrResolved
  <1>1. CASE ledger' = ledger /\ torn' \in {torn, TRUE}
    <2>1. ~Damaged(ledger, torn)
      BY <1>1 DEF Damaged
    <2> QED BY <1>1, <2>1 DEF FoundOrResolved, Unresolved, Pending, ResolvedAfter
  <1>2. CASE ledger' = Appended(ledger, torn, line) /\ torn' = FALSE
    <2>1. JunkLine \in Lines(Assets, Targets)
      BY DEF Lines
    <2>2. ~Damaged(ledger, torn)
      BY <1>2, <2>1, DamageStays DEF FileTypeOK
    <2>3. ledger' = Append(ledger, line)
      BY <1>2, <2>2 DEF Appended, Damaged
    <2>4. /\ Len(ledger') = Len(ledger) + 1 /\ ledger'[Len(ledger) + 1] = line
          /\ \A i \in 1 .. Len(ledger) : ledger'[i] = ledger[i]
          /\ Len(ledger) \in Nat
      BY <2>3 DEF FileTypeOK
    <2>5. CASE line.type = "resolved" /\ line.asset = a
      BY <2>4, <2>5 DEF ResolvedAfter
    <2>6. CASE ~(line.type = "resolved" /\ line.asset = a)
      <3>1. Unresolved(ledger, a) \subseteq Unresolved(ledger', a)
        BY <2>3, <2>6, AppendKeeps DEF FileTypeOK
      <3>2. ResolvedAfter(ledger, a, 0) => ResolvedAfter(ledger', a, 0)
        BY <2>4 DEF ResolvedAfter
      <3> QED BY <2>2, <3>1, <3>2 DEF FoundOrResolved
    <2> QED BY <2>5, <2>6
  <1> QED BY <1>1, <1>2 DEF LedgerGrows

AppliedInv ==
    /\ OwnSteps
    /\ \A p \in Procs :
         pc[p] = "report" /\ op[p] \in CutOps /\ verdict[p] = "ok" => FoundOrResolved(asset[p], seen[p])

\* How p gets to announce an applied cut: with nothing touched, or after its
\* record was written.
LEMMA AppliedStep ==
  ASSUME TypeOK, AppliedInv, NEW p \in Procs, Step(p) \/ Crash(p),
         pc'[p] = "report", op'[p] \in CutOps, verdict'[p] = "ok"
  PROVE  FoundOrResolved(asset[p], seen[p])'
  <1> USE DEF TypeOK
  <1>1. /\ op'[p] = op[p] /\ pc[p] \in CutSteps
        /\ \/ CheckCut(p) /\ seen[p] = {} /\ seen'[p] = {}
           \/ RecordCut(p) /\ verdict'[p] = "ok"
    <2>1. CASE CutFull(p) \/ Report(p) \/ Crash(p)
      BY <2>1 DEF CutFull, Snapshot, NmcliOff, ListLinks, LinkDown, Report, Crash, Leave, Go, ProcTypeOK
    <2>5. CASE Install(p) \/ AppendRules(p)
      BY <2>5 DEF Install, InstallNft, InstallIptables, AppendRules, Go, ProcTypeOK
    <2>2. CASE Restore(p)
      <3>1. pc[p] \in RestoreSteps /\ op'[p] = op[p]
        BY <2>2 DEF Restore, ReadLedger, NmcliOn, Sweep, Undo, RemoveRules, VerifyAbsent,
                    ReadbackRestore, MarkResolved, RestoreSteps, procVars
      <3> QED BY <3>1 DEF AppliedInv, OwnSteps, CutOps, RestoreOps
    <2>3. CASE CheckCut(p)
      BY <2>3 DEF CheckCut, Go, CutSteps, ProcTypeOK
    <2>4. CASE RecordCut(p)
      BY <2>4 DEF RecordCut, CutSteps
    <2> QED BY <2>1, <2>2, <2>3, <2>4, <2>5 DEF Step, Cut
  <1>2. CASE seen'[p] = {}
    BY <1>2 DEF FoundOrResolved
  <1>3. CASE RecordCut(p)
    <2> DEFINE line == CutLine(asset[p], seen[p])
    <2>1. WriteOk(line) /\ asset' = asset /\ seen' = seen
      BY <1>3 DEF RecordCut, NotRecorded, ProcTypeOK
    <2>2. line \in Lines(Assets, Targets)
      BY <1>3, LinesHold DEF RecordCut, AssetTypeOK, ProcTypeOK
    <2>3. CASE torn
      <3>1. ledger' = Append(ledger, JunkLine)
        BY <2>1, <2>3 DEF WriteOk, Appended
      <3>2. Len(ledger') = Len(ledger) + 1 /\ ledger'[Len(ledger) + 1] = JunkLine /\ Len(ledger) \in Nat
        BY <3>1 DEF FileTypeOK
      <3> QED BY <3>2 DEF FoundOrResolved, Damaged, JunkLine
    <2>4. CASE ~torn
      <3>1. ledger' = Append(ledger, line)
        BY <2>1, <2>4 DEF WriteOk, Appended
      <3> QED BY <2>1, <2>2, <3>1, AppendRecords DEF FoundOrResolved, FileTypeOK
    <2> QED BY <2>3, <2>4 DEF FileTypeOK
  <1> QED BY <1>1, <1>2, <1>3

LEMMA OwnStepsStay ==
  ASSUME TypeOK, OwnSteps, NEW p \in Procs, Step(p) \/ Crash(p)
  PROVE  OwnSteps'
  <1> USE DEF TypeOK
  <1>1. \A q \in Procs : q # p => pc'[q] = pc[q] /\ op'[q] = op[q]
    BY StepActsAlone DEF ActsAlone
  <1>2. CASE Cut(p)
    <2>1. pc[p] \in CutSteps /\ op'[p] = op[p]
      BY <1>2 DEF Cut, CutFull, Snapshot, NmcliOff, ListLinks, LinkDown, Install, AppendRules, CheckCut,
                  RecordCut, CutSteps
    <2>2. pc'[p] \in CutSteps \cup {"report"}
      BY <1>2 DEF Cut, CutFull, Snapshot, NmcliOff, ListLinks, LinkDown, Install, InstallNft,
                  InstallIptables, AppendRules, CheckCut, RecordCut, Go, CutSteps, ProcTypeOK
    <2> QED BY <1>1, <2>1, <2>2 DEF OwnSteps, CutSteps, RestoreSteps
  <1>3. CASE Restore(p)
    <2>1. pc[p] \in RestoreSteps /\ op'[p] = op[p]
      BY <1>3 DEF Restore, ReadLedger, NmcliOn, Sweep, Undo, RemoveRules, VerifyAbsent,
                  ReadbackRestore, MarkResolved, RestoreSteps, procVars
    <2>2. pc'[p] \in RestoreSteps \cup {"report"}
      BY <1>3 DEF Restore, ReadLedger, NmcliOn, Sweep, Undo, RemoveRules, VerifyAbsent, AfterVerify,
                  ReadbackRestore, MarkResolved, Go, RestoreSteps, ProcTypeOK
    <2> QED BY <1>1, <2>1, <2>2 DEF OwnSteps, CutSteps, RestoreSteps
  <1>4. CASE Report(p) \/ Crash(p)
    <2>1. pc'[p] = "idle"
      BY <1>4 DEF Report, Crash, Leave, Go, ProcTypeOK
    <2> QED BY <1>1, <2>1 DEF OwnSteps, CutSteps, RestoreSteps
  <1> QED BY <1>2, <1>3, <1>4 DEF Step

LEMMA AppliedInvariant == Spec => []AppliedInv
  <1>1. Init => AppliedInv
    BY DEF Init, AppliedInv, OwnSteps, CutSteps, RestoreSteps
  <1>2. ASSUME TypeOK, AppliedInv, [Next]_vars PROVE AppliedInv'
    <2> USE <1>2 DEF TypeOK
    <2>1. ASSUME NEW p \in Procs, Step(p) \/ Crash(p) PROVE AppliedInv'
      <3>1. OwnSteps'
        BY <2>1, OwnStepsStay DEF AppliedInv
      <3>2. ActsAlone(p)
        BY <2>1, StepActsAlone
      <3>3. ASSUME NEW q \in Procs, q # p, pc'[q] = "report", op'[q] \in CutOps, verdict'[q] = "ok"
            PROVE  FoundOrResolved(asset[q], seen[q])'
        <4>1. FoundOrResolved(asset[q], seen[q]) /\ asset'[q] = asset[q] /\ seen'[q] = seen[q]
          BY <3>2, <3>3 DEF ActsAlone, AppliedInv
        <4>2. LineOf(p) \in Lines(Assets, Targets)
          BY <3>2, LinesHold DEF ActsAlone, LineOf, AssetTypeOK, ProcTypeOK
        <4> QED BY <3>2, <4>1, <4>2, FoundStays DEF ActsAlone
      <3> QED BY <2>1, <3>1, <3>3, AppliedStep DEF AppliedInv
    <2>2. ASSUME NEW p \in Procs, NEW a \in Assets, NEW o \in AllOps, Begin(p, a, o)
          PROVE  AppliedInv'
      <3>1. /\ \A q \in Procs : q # p => pc'[q] = pc[q] /\ op'[q] = op[q] /\ asset'[q] = asset[q]
            /\ UNCHANGED <<ledger, torn, seen, verdict>>
            /\ op'[p] = o
            /\ \/ o \in CutOps /\ pc'[p] \in CutSteps
               \/ o \in RestoreOps /\ pc'[p] \in RestoreSteps
        BY <2>2 DEF Begin, Go, Tag, AllOps, CutOps, RestoreOps, CutSteps, RestoreSteps, ProcTypeOK,
                    fileVars
      <3>2. OwnSteps'
        BY <3>1 DEF AppliedInv, OwnSteps, CutSteps, RestoreSteps
      <3> QED BY <3>1, <3>2 DEF AppliedInv, FoundOrResolved, Damaged, Unresolved, Pending, ResolvedAfter,
                                CutSteps, RestoreSteps
    <2>3. ASSUME (\E i \in Ifaces : OtherTool(i)) \/ UNCHANGED vars PROVE AppliedInv'
      <3>1. UNCHANGED <<pc, op, asset, seen, verdict, ledger, torn>>
        BY <2>3 DEF OtherTool, vars, fileVars, procVars
      <3> QED BY <3>1 DEF AppliedInv, OwnSteps, FoundOrResolved, Damaged, Unresolved, Pending,
                          ResolvedAfter
    <2> QED BY <2>1, <2>2, <2>3 DEF Next
  <1> QED BY <1>1, <1>2, TypeCorrect, PTL DEF Spec

\* "a cut without a record is never announced as applied", in both modes, with
\* kills, failed and torn writes: a reader finds it or learns of the damage.
THEOREM AppliedIsFound == Spec => []AppliedIsRecorded
  <1>1. AppliedInv => AppliedIsRecorded
    BY DEF AppliedInv, AppliedIsRecorded, FoundOrResolved
  <1> QED BY <1>1, AppliedInvariant, PTL

-----------------------------------------------------------------------------
(* One request at a time. *)

\* While p is at work, every other process is idle.
LEMMA OthersIdle ==
  ASSUME OneAtATime, NEW p \in Procs, pc[p] # "idle", NEW q \in Procs, q # p
  PROVE  pc[q] = "idle"
  BY DEF OneAtATime

\* A process that stays idle keeps its account.
LEMMA IdleKeeps ==
  ASSUME NEW q, Fresh(q), pc[q] = "idle", pc'[q] = "idle", seen'[q] = seen[q], todo'[q] = todo[q]
  PROVE  ProcInv(q)'
  BY DEF ProcInv, Fresh, InItsOwnSteps, RecordIsCurrent, TouchedAll, VerdictIsEarned,
         CutSteps, RestoreSteps

\* A step of p that touches only p's account keeps everybody else's.
LEMMA OthersKeep ==
  ASSUME TypeOK, OneAtATime, \A q \in Procs : ProcInv(q),
         NEW p \in Procs, pc[p] # "idle", ProcInv(p)',
         \A q \in Procs : q # p => pc'[q] = pc[q] /\ seen'[q] = seen[q] /\ todo'[q] = todo[q]
  PROVE  \A q \in Procs : ProcInv(q)'
  <1> SUFFICES ASSUME NEW q \in Procs, q # p PROVE ProcInv(q)'
    OBVIOUS
  <1>1. pc[q] = "idle" /\ pc'[q] = "idle" /\ seen'[q] = seen[q] /\ todo'[q] = todo[q]
    BY OthersIdle
  <1> QED BY <1>1, IdleKeeps DEF ProcInv

\* The lock while p stays at work.
LEMMA LockKept ==
  ASSUME TypeOK, OneAtATime, NEW p \in Procs, pc[p] # "idle", lock' = lock,
         \A q \in Procs : q # p => pc'[q] = pc[q]
  PROVE  OneAtATime'
  <1>1. lock = {p} BY DEF OneAtATime
  <1> QED BY <1>1, OthersIdle DEF OneAtATime

-----------------------------------------------------------------------------
(* What the commands do to HeldIsOff. *)

LEMMA SwitchKeepsOff ==
  ASSUME OsTypeOK, HeldIsOff, NEW t \in Switches, NEW effect \in BOOLEAN,
         \/ SwitchOff(t, effect) /\ (t = NM => "nmcli" \in Tools)
         \/ SwitchOn(t, effect)
  PROVE  HeldIsOff'
  <1>1. FW # t /\ t \in DOMAIN up
    BY DEF OsTypeOK
  <1>2. CASE SwitchOff(t, effect) /\ (t = NM => "nmcli" \in Tools)
    <2>1. \A s \in held' \ {FW} : ~up'[s]
      BY <1>1, <1>2 DEF SwitchOff, HeldIsOff, OsTypeOK, Switches, Targets
    <2>2. FW \in held' <=> rule' # "none"
      BY <1>1, <1>2 DEF SwitchOff, HeldIsOff
    <2>3. NM \in held' => "nmcli" \in Tools
      BY <1>1, <1>2 DEF SwitchOff, HeldIsOff
    <2> QED BY <2>1, <2>2, <2>3 DEF HeldIsOff
  <1>3. CASE SwitchOn(t, effect)
    <2>1. \A s \in held' \ {FW} : ~up'[s]
      BY <1>1, <1>3 DEF SwitchOn, HeldIsOff, OsTypeOK, Switches, Targets
    <2>2. FW \in held' <=> rule' # "none"
      BY <1>1, <1>3 DEF SwitchOn, HeldIsOff
    <2>3. NM \in held' => "nmcli" \in Tools
      BY <1>1, <1>3 DEF SwitchOn, HeldIsOff
    <2> QED BY <2>1, <2>2, <2>3 DEF HeldIsOff
  <1> QED BY <1>2, <1>3

LEMMA RuleKeepsOff ==
  ASSUME HeldIsOff, NEW r, SetRule(r)
  PROVE  HeldIsOff'
  <1>1. NM # FW BY DEF Switches
  <1> QED BY <1>1 DEF HeldIsOff, SetRule

-----------------------------------------------------------------------------
(* A step of p that leaves the ledger alone. *)

LEMMA WorkStep ==
  ASSUME DaemonInv, NEW p \in Procs, OwnStep(p), CutGoesOn(p),
         HeldIsOff', ProcInv(p)', \A t \in held' : StillNamed(p, t)
  PROVE  Coherent'
  <1> USE DEF DaemonInv, Coherent, OwnStep
  <1>1. OneAtATime'
    BY LockKept
  <1>2. \A q \in Procs : ProcInv(q)'
    BY OthersKeep
  <1>3. Recoverable'
    <2>1. Recorded' = Recorded /\ Damaged(ledger, torn)' = Damaged(ledger, torn)
      BY DEF Recorded, Unresolved, Pending, ResolvedAfter, Damaged
    <2>2. ASSUME NEW t \in UnderWay PROVE t \in UnderWay'
      <3>1. PICK q \in Procs : pc[q] \in CutSteps /\ t \in seen[q]
        BY <2>2 DEF UnderWay
      <3>2. pc'[q] \in CutSteps /\ t \in seen'[q]
        BY <3>1 DEF CutGoesOn
      <3> QED BY <2>2, <3>2 DEF UnderWay
    <2>3. ASSUME ~Damaged(ledger, torn), NEW t \in held', StillNamed(p, t)
          PROVE  t \in Recorded' \cup UnderWay' \cup lost'
      <3>1. CASE t \in held /\ (t \in lost => t \in lost')
        BY <2>1, <2>2, <2>3, <3>1 DEF Recoverable
      <3>2. CASE pc'[p] \in CutSteps /\ t \in seen'[p] /\ t \in Targets
        BY <3>2 DEF UnderWay
      <3> QED BY <2>3, <3>1, <3>2 DEF StillNamed
    <2> QED BY <2>1, <2>3 DEF Recoverable
  <1> QED BY <1>1, <1>2, <1>3

-----------------------------------------------------------------------------
(* The steps of a cut. *)

LEMMA CutFullSafe ==
  ASSUME DaemonInv, NEW p \in Procs, CutFull(p)
  PROVE  Coherent'
  <1> USE DEF DaemonInv, TypeOK, Coherent
  <1>1. CASE Snapshot(p)
    <2>1. OwnStep(p) /\ CutGoesOn(p) /\ UNCHANGED <<osVars, seen>>
      BY <1>1 DEF Snapshot, Go, OwnStep, CutGoesOn, fileVars, ProcTypeOK, CutSteps
    <2>2. HeldIsOff' /\ \A t \in held' : StillNamed(p, t)
      BY <2>1 DEF osVars, HeldIsOff, StillNamed
    <2>3. ProcInv(p)'
      BY <1>1 DEF Snapshot, Go, ProcTypeOK, ProcInv, Fresh, InItsOwnSteps, RecordIsCurrent,
                  TouchedAll, VerdictIsEarned, CutSteps, RestoreSteps, CutOps, RestoreOps
    <2> QED BY <2>1, <2>2, <2>3, WorkStep
  <1>2. CASE NmcliOff(p)
    <2>1. OwnStep(p) /\ CutGoesOn(p)
      BY <1>2 DEF NmcliOff, Attempted, Go, OwnStep, CutGoesOn, fileVars, ProcTypeOK, CutSteps
    <2>2. HeldIsOff'
      BY <1>2, SwitchKeepsOff DEF NmcliOff, osVars, HeldIsOff, Switches
    <2>3. \A t \in held' : StillNamed(p, t)
      BY <1>2 DEF NmcliOff, Attempted, Go, SwitchOff, osVars, StillNamed, ProcTypeOK,
                  CutSteps, Targets, Switches
    <2>4. ProcInv(p)'
      BY <1>2 DEF NmcliOff, Go, ProcTypeOK, ProcInv, Fresh, InItsOwnSteps, RecordIsCurrent,
                  TouchedAll, VerdictIsEarned, CutSteps, RestoreSteps, CutOps, RestoreOps
    <2> QED BY <2>1, <2>2, <2>3, <2>4, WorkStep
  <1>3. CASE ListLinks(p)
    <2>1. /\ pc[p] = "list" /\ pc'[p] \in {"check", "link"} /\ op' = op
          /\ UNCHANGED <<osVars, seen>>
          /\ OwnStep(p)
          /\ todo'[p] \subseteq Ifaces
      BY <1>3 DEF ListLinks, LinuxInterfaces, Go, OwnStep, fileVars, ProcTypeOK, ProcInv,
                  InItsOwnSteps, CutSteps
    <2>2. HeldIsOff' /\ (\A t \in held' : StillNamed(p, t)) /\ CutGoesOn(p)
      BY <2>1 DEF osVars, HeldIsOff, StillNamed, CutGoesOn, CutSteps
    <2>3. ProcInv(p)'
      BY <2>1 DEF ProcInv, Fresh, InItsOwnSteps, RecordIsCurrent,
                  TouchedAll, VerdictIsEarned, CutSteps, RestoreSteps, CutOps, RestoreOps
    <2> QED BY <2>1, <2>2, <2>3, WorkStep
  <1>4. CASE LinkDown(p)
    <2>1. PICK i \in todo[p], effect \in BOOLEAN :
            /\ SwitchOff(i, effect)
            /\ seen' = [seen EXCEPT ![p] = @ \cup {i}]
            /\ todo' = [todo EXCEPT ![p] = @ \ {i}]
      BY <1>4 DEF LinkDown, Attempted
    <2>2. /\ pc[p] = "link" /\ pc'[p] \in {"check", "link"} /\ op' = op
          /\ todo[p] \subseteq Ifaces /\ todo'[p] \subseteq Ifaces
          /\ OwnStep(p)
      BY <1>4, <2>1 DEF LinkDown, Go, OwnStep, fileVars, ProcTypeOK, ProcInv, InItsOwnSteps,
                       CutSteps
    <2>3. i \in Ifaces /\ i \in Switches /\ CutGoesOn(p)
      BY <2>1, <2>2 DEF CutGoesOn, ProcTypeOK, CutSteps, Switches
    <2>4. HeldIsOff'
      BY <2>1, <2>3, SwitchKeepsOff DEF SwitchOff, HeldIsOff
    <2>5. \A t \in held' : StillNamed(p, t)
      BY <2>1, <2>2, <2>3 DEF SwitchOff, StillNamed, ProcTypeOK, CutSteps, Targets
    <2>6. ProcInv(p)'
      BY <2>2 DEF ProcInv, Fresh, InItsOwnSteps, RecordIsCurrent,
                  TouchedAll, VerdictIsEarned, CutSteps, RestoreSteps, CutOps, RestoreOps
    <2> QED BY <2>2, <2>3, <2>4, <2>5, <2>6, WorkStep
  <1> QED BY <1>1, <1>2, <1>3, <1>4 DEF CutFull

LEMMA InstallSafe ==
  ASSUME DaemonInv, NEW p \in Procs, Install(p) \/ AppendRules(p)
  PROVE  Coherent'
  <1> USE DEF DaemonInv, TypeOK, Coherent
  <1>1. /\ pc[p] \in {"install", "rules"} /\ pc'[p] \in {"rules", "check"} /\ op' = op
        /\ seen[p] \subseteq {FW} /\ todo' = todo
        /\ pc[p] = "rules" => pc'[p] = "check"
    BY DEF Install, InstallNft, InstallIptables, AppendRules, Go, ProcTypeOK, ProcInv, Fresh
  <1>2. \/ (\E r : SetRule(r)) /\ seen'[p] = {FW}
        \/ UNCHANGED <<osVars, seen>> /\ pc'[p] = "check"
    BY DEF Install, InstallNft, InstallIptables, AppendRules, Go, ProcTypeOK, ProcInv, Fresh
  <1>3. OwnStep(p) /\ CutGoesOn(p)
    <2>1. OwnStep(p)
      BY <1>1 DEF Install, InstallNft, InstallIptables, AppendRules, Go, OwnStep, fileVars, ProcTypeOK
    <2>2. CutGoesOn(p)
      BY <1>1, <1>2 DEF CutGoesOn, CutSteps
    <2> QED BY <2>1, <2>2
  <1>4. HeldIsOff'
    BY <1>2, RuleKeepsOff DEF osVars, HeldIsOff
  <1>5. \A t \in held' : StillNamed(p, t)
    <2>1. CASE UNCHANGED <<osVars, seen>>
      BY <2>1 DEF osVars, StillNamed
    <2>2. ASSUME NEW r, SetRule(r), seen'[p] = {FW}
          PROVE  \A t \in held' : StillNamed(p, t)
      BY <1>1, <2>2 DEF SetRule, StillNamed, CutSteps, Targets
    <2> QED BY <1>2, <2>1, <2>2
  <1>6. ProcInv(p)'
    BY <1>1, <1>2 DEF ProcInv, Fresh, InItsOwnSteps, RecordIsCurrent, TouchedAll, VerdictIsEarned,
                CutSteps, RestoreSteps, CutOps, RestoreOps
  <1> QED BY <1>3, <1>4, <1>5, <1>6, WorkStep

LEMMA CheckCutSafe ==
  ASSUME DaemonInv, NEW p \in Procs, CheckCut(p)
  PROVE  Coherent'
  <1> USE DEF DaemonInv, TypeOK, Coherent
  <1>1. /\ pc[p] = "check" /\ pc'[p] = (IF seen[p] = {} THEN "report" ELSE "record")
        /\ UNCHANGED <<osVars, op, seen, todo>>
    BY DEF CheckCut, Go, ProcTypeOK
  <1>2. OwnStep(p)
    BY <1>1 DEF CheckCut, Go, OwnStep, fileVars, ProcTypeOK
  <1>3. HeldIsOff' /\ (\A t \in held' : StillNamed(p, t)) /\ CutGoesOn(p)
    BY <1>1 DEF osVars, HeldIsOff, StillNamed, CutGoesOn, CutSteps
  <1>4. ProcInv(p)'
    BY <1>1 DEF ProcInv, Fresh, InItsOwnSteps, RecordIsCurrent, TouchedAll, VerdictIsEarned,
                CutSteps, RestoreSteps, CutOps, RestoreOps
  <1> QED BY <1>2, <1>3, <1>4, WorkStep

-----------------------------------------------------------------------------
(* The steps of a restore. *)

\* A verdict of "ok" is never made up of anything else.
LEMMA CombineOk ==
  ASSUME NEW S, S \subseteq Verdicts, Combine(S) = "ok"
  PROVE  \A v \in S : v = "ok"
  BY DEF Combine, Verdicts

LEMMA ReadLedgerSafe ==
  ASSUME DaemonInv, NEW p \in Procs, ReadLedger(p)
  PROVE  Coherent'
  <1> USE DEF DaemonInv, TypeOK, Coherent
  <1> DEFINE entries == Unresolved(ledger, asset[p])
  <1>1. /\ pc[p] = "read" /\ op[p] = "restore"
        /\ UNCHANGED <<osVars, op, asset, lock, ledger, torn>>
    BY DEF ReadLedger, ProcInv, InItsOwnSteps, fileVars
  <1>2. \/ pc'[p] = "report" /\ verdict'[p] = "fail"
        \/ pc'[p] \in {"undo", "fwRemove"} /\ seen'[p] = entries
    BY DEF ReadLedger, Go, ProcTypeOK
  <1>3. OwnStep(p)
    BY <1>1 DEF ReadLedger, Go, OwnStep, ProcTypeOK
  <1>4. HeldIsOff' /\ (\A t \in held' : StillNamed(p, t)) /\ CutGoesOn(p)
    BY <1>1 DEF osVars, HeldIsOff, StillNamed, CutGoesOn, CutSteps
  <1>5. entries' = entries
    BY <1>1 DEF Unresolved, Pending, ResolvedAfter
  <1>6. ProcInv(p)'
    BY <1>1, <1>2, <1>5
       DEF ProcInv, Fresh, InItsOwnSteps, RecordIsCurrent, TouchedAll, VerdictIsEarned,
           CutSteps, RestoreSteps, CutOps, RestoreOps
  <1> QED BY <1>3, <1>4, <1>6, WorkStep

LEMMA NmcliOnSafe ==
  ASSUME DaemonInv, NEW p \in Procs, NmcliOn(p)
  PROVE  Coherent'
  <1> USE DEF DaemonInv, TypeOK, Coherent
  <1>1. /\ pc[p] = "nmOn" /\ pc'[p] = "sweep" /\ op[p] = "emergency"
        /\ UNCHANGED <<op, todo>>
    BY DEF NmcliOn, Go, ProcTypeOK, ProcInv, InItsOwnSteps
  <1>2. OwnStep(p) /\ CutGoesOn(p)
    BY <1>1 DEF NmcliOn, Go, OwnStep, CutGoesOn, fileVars, ProcTypeOK, CutSteps
  <1>3. UNCHANGED osVars \/ \E effect \in BOOLEAN : SwitchOn(NM, effect)
    BY DEF NmcliOn
  <1>4. HeldIsOff'
    BY <1>3, SwitchKeepsOff DEF osVars, HeldIsOff, Switches
  <1>5. \A t \in held' : StillNamed(p, t)
    BY <1>3, SwitchOnNames DEF osVars, StillNamed
  <1>6. "nmcli" \in Tools => NM \in seen'[p]
    BY DEF NmcliOn, ProcTypeOK
  <1>7. ProcInv(p)'
    BY <1>1, <1>6 DEF ProcInv, Fresh, InItsOwnSteps, RecordIsCurrent, TouchedAll,
                      VerdictIsEarned, CutSteps, RestoreSteps, CutOps, RestoreOps
  <1> QED BY <1>2, <1>4, <1>5, <1>7, WorkStep

LEMMA SweepSafe ==
  ASSUME DaemonInv, NEW p \in Procs, Sweep(p)
  PROVE  Coherent'
  <1> USE DEF DaemonInv, TypeOK, Coherent
  <1>1. /\ pc[p] = "sweep" /\ pc'[p] \in {"undo", "fwRemove"} /\ op[p] = "emergency"
        /\ UNCHANGED <<osVars, op>>
        /\ "nmcli" \in Tools => NM \in seen[p]
    BY DEF Sweep, Go, ProcTypeOK, ProcInv, InItsOwnSteps, TouchedAll
  <1>2. OwnStep(p) /\ CutGoesOn(p) /\ seen[p] \subseteq seen'[p]
    BY <1>1 DEF Sweep, Go, OwnStep, CutGoesOn, fileVars, ProcTypeOK, CutSteps
  <1>3. HeldIsOff' /\ \A t \in held' : StillNamed(p, t)
    BY <1>1 DEF osVars, HeldIsOff, StillNamed
  <1>4. verdict'[p] = "ok" => Ifaces \subseteq seen'[p]
    <2>1. CASE "ip" \in Tools
      BY <2>1 DEF Sweep, LinuxInterfaces, ProcTypeOK
    <2>2. CASE "ip" \notin Tools
      <3>1. verdict'[p] = Combine({verdict[p], Unswept(p)})
        BY <2>2 DEF Sweep, ProcTypeOK
      <3>2. Unswept(p) \in Verdicts \ {"ok"} /\ verdict[p] \in Verdicts
        BY DEF Unswept, Verdicts, ProcTypeOK
      <3> QED BY <3>1, <3>2, CombineOk
    <2> QED BY <2>1, <2>2
  <1>5. ProcInv(p)'
    BY <1>1, <1>2, <1>4
       DEF ProcInv, Fresh, InItsOwnSteps, RecordIsCurrent, TouchedAll, VerdictIsEarned,
           CutSteps, RestoreSteps, CutOps, RestoreOps
  <1> QED BY <1>2, <1>3, <1>5, WorkStep

LEMMA UndoSafe ==
  ASSUME DaemonInv, NEW p \in Procs, Undo(p)
  PROVE  Coherent'
  <1> USE DEF DaemonInv, TypeOK, Coherent
  <1>1. PICK t \in todo[p], ok \in BOOLEAN, effect \in BOOLEAN :
          /\ SwitchOn(t, effect)
          /\ verdict' = [verdict EXCEPT ![p] =
                           Combine({@, IF ok THEN "ok"
                                       ELSE IF op[p] = "restore" THEN "fail"
                                       ELSE Unswept(p)})]
    BY DEF Undo
  <1>2. /\ pc[p] = "undo" /\ pc'[p] \in {"undo", "fwRemove"}
        /\ UNCHANGED <<op, asset, seen, ledger>>
    BY DEF Undo, Go, ProcTypeOK, fileVars
  <1>3. OwnStep(p) /\ CutGoesOn(p)
    BY <1>2 DEF Undo, Go, OwnStep, CutGoesOn, fileVars, ProcTypeOK, CutSteps
  <1>4. HeldIsOff' /\ \A s \in held' : StillNamed(p, s)
    <2>1. t \in Switches
      BY DEF ProcTypeOK
    <2> QED BY <1>1, <2>1, SwitchKeepsOff, SwitchOnNames
  <1>5. verdict'[p] = "ok" => verdict[p] = "ok"
    <2> DEFINE v == IF ok THEN "ok" ELSE IF op[p] = "restore" THEN "fail" ELSE Unswept(p)
    <2>1. verdict'[p] = Combine({verdict[p], v})
      BY <1>1 DEF ProcTypeOK
    <2>2. {verdict[p], v} \subseteq Verdicts
      BY DEF Unswept, Verdicts, ProcTypeOK
    <2> HIDE DEF v
    <2> QED BY <2>1, <2>2, CombineOk
  <1>6. Unresolved(ledger, asset[p])' = Unresolved(ledger, asset[p])
    BY <1>2 DEF Unresolved, Pending, ResolvedAfter
  <1>7. ProcInv(p)'
    BY <1>2, <1>5, <1>6
       DEF ProcInv, Fresh, InItsOwnSteps, RecordIsCurrent, TouchedAll, VerdictIsEarned,
           CutSteps, RestoreSteps, CutOps, RestoreOps
  <1> QED BY <1>3, <1>4, <1>7, WorkStep

LEMMA RemoveRulesSafe ==
  ASSUME DaemonInv, NEW p \in Procs, RemoveRules(p)
  PROVE  Coherent'
  <1> USE DEF DaemonInv, TypeOK, Coherent
  <1>1. PICK r : SetRule(r) /\ (r # "none" => rule # "none")
    BY DEF RemoveRules
  <1>2. /\ pc[p] = "fwRemove" /\ pc'[p] = "fwVerify"
        /\ UNCHANGED <<op, asset, seen, todo, verdict, ledger>>
    BY DEF RemoveRules, Go, ProcTypeOK, procVars, fileVars
  <1>3. OwnStep(p) /\ CutGoesOn(p)
    BY <1>2 DEF RemoveRules, Go, OwnStep, CutGoesOn, fileVars, ProcTypeOK, CutSteps
  <1>4. HeldIsOff'
    BY <1>1, RuleKeepsOff
  <1>5. \A t \in held' : StillNamed(p, t)
    BY <1>1 DEF SetRule, StillNamed, HeldIsOff
  <1>6. Unresolved(ledger, asset[p])' = Unresolved(ledger, asset[p])
    BY <1>2 DEF Unresolved, Pending, ResolvedAfter
  <1>7. ProcInv(p)'
    BY <1>2, <1>6
       DEF ProcInv, Fresh, InItsOwnSteps, RecordIsCurrent, TouchedAll, VerdictIsEarned,
           CutSteps, RestoreSteps, CutOps, RestoreOps
  <1> QED BY <1>3, <1>4, <1>5, <1>7, WorkStep

LEMMA VerifyAbsentSafe ==
  ASSUME DaemonInv, NEW p \in Procs, VerifyAbsent(p)
  PROVE  Coherent'
  <1> USE DEF DaemonInv, TypeOK, Coherent
  <1>1. /\ pc[p] = "fwVerify" /\ pc'[p] = "readback"
        /\ UNCHANGED <<osVars, op, asset, seen, todo, ledger>>
    BY DEF VerifyAbsent, AfterVerify, Go, ProcTypeOK, fileVars
  <1>2. OwnStep(p) /\ CutGoesOn(p)
    BY <1>1 DEF VerifyAbsent, AfterVerify, Go, OwnStep, CutGoesOn, fileVars, ProcTypeOK, CutSteps
  <1>3. HeldIsOff' /\ \A t \in held' : StillNamed(p, t)
    BY <1>1 DEF osVars, HeldIsOff, StillNamed
  <1>4. verdict'[p] = "ok" => verdict[p] = "ok" /\ rule = "none"
    <2>1. PICK answered \in BOOLEAN :
            verdict' = [verdict EXCEPT ![p] =
                          Combine({@, IF ~answered THEN "unsure"
                                      ELSE IF rule = "none" THEN "ok" ELSE "fail"})]
      BY DEF VerifyAbsent
    <2> DEFINE v == IF ~answered THEN "unsure" ELSE IF rule = "none" THEN "ok" ELSE "fail"
    <2>2. verdict'[p] = Combine({verdict[p], v})
      BY <2>1 DEF ProcTypeOK
    <2>3. {verdict[p], v} \subseteq Verdicts
      BY DEF Verdicts, ProcTypeOK
    <2>4. v = "ok" => rule = "none"
      OBVIOUS
    <2> HIDE DEF v
    <2> QED BY <2>2, <2>3, <2>4, CombineOk
  <1>5. Unresolved(ledger, asset[p])' = Unresolved(ledger, asset[p])
    BY <1>1 DEF Unresolved, Pending, ResolvedAfter
  <1>6. ProcInv(p)'
    BY <1>1, <1>4, <1>5
       DEF ProcInv, Fresh, InItsOwnSteps, RecordIsCurrent, TouchedAll, VerdictIsEarned,
           osVars, CutSteps, RestoreSteps, CutOps, RestoreOps
  <1> QED BY <1>2, <1>3, <1>6, WorkStep

\* A read-back that confirms has seen every target on.
LEMMA ReadbackOk ==
  ASSUME NEW targets, NEW read \in SUBSET targets, Readback(targets, read) = "ok"
  PROVE  \A t \in targets : up[t]
  BY DEF Readback

\* What an earned verdict is worth once the switches have been read back.
LEMMA ConfirmedIsUndone ==
  ASSUME TypeOK, HeldIsOff, NEW p \in Procs, TouchedAll(p), pc[p] = "readback",
         op[p] \in RestoreOps, verdict[p] = "ok", rule = "none",
         \A t \in ReadbackTargets(p) : up[t]
  PROVE  Undone(p)
  <1> USE DEF TypeOK
  <1>1. FW \notin held
    BY DEF HeldIsOff
  <1>2. ASSUME NEW t \in held PROVE t \notin seen[p]
    BY <1>1, <1>2 DEF HeldIsOff, ReadbackTargets
  <1>3. CASE op[p] = "restore"
    BY <1>2, <1>3 DEF Undone
  <1>4. CASE op[p] = "emergency"
    <2>1. ASSUME NEW t \in held PROVE t \in seen[p]
      BY <1>1, <1>4, <2>1 DEF TouchedAll, HeldIsOff, OsTypeOK, Targets, Switches
    <2> QED BY <1>2, <2>1, <1>4 DEF Undone
  <1> QED BY <1>3, <1>4 DEF RestoreOps

LEMMA ReadbackRestoreSafe ==
  ASSUME DaemonInv, NEW p \in Procs, ReadbackRestore(p)
  PROVE  Coherent'
  <1> USE DEF DaemonInv, TypeOK, Coherent
  <1>1. /\ pc[p] = "readback" /\ pc'[p] = "resolve"
        /\ UNCHANGED <<osVars, op, asset, seen, todo, ledger>>
    BY DEF ReadbackRestore, Go, ProcTypeOK, fileVars
  <1>2. OwnStep(p) /\ CutGoesOn(p)
    BY <1>1 DEF ReadbackRestore, Go, OwnStep, CutGoesOn, fileVars, ProcTypeOK, CutSteps
  <1>3. HeldIsOff' /\ \A t \in held' : StillNamed(p, t)
    BY <1>1 DEF osVars, HeldIsOff, StillNamed
  <1>4. verdict'[p] = "ok" => verdict[p] = "ok" /\ \A t \in ReadbackTargets(p) : up[t]
    <2> DEFINE targets == ReadbackTargets(p)
    <2>1. CASE targets = {} /\ op[p] = "restore"
      BY <2>1 DEF ReadbackRestore
    <2>2. CASE ~(targets = {} /\ op[p] = "restore")
      <3>1. PICK read \in SUBSET targets :
              verdict' = [verdict EXCEPT ![p] = Combine({@, Readback(targets, read)})]
        BY <2>2 DEF ReadbackRestore
      <3>2. verdict'[p] = Combine({verdict[p], Readback(targets, read)})
        BY <3>1 DEF ProcTypeOK
      <3>3. {verdict[p], Readback(targets, read)} \subseteq Verdicts
        BY DEF Readback, Verdicts, ProcTypeOK
      <3> HIDE DEF targets
      <3>4. verdict'[p] = "ok" => verdict[p] = "ok" /\ Readback(targets, read) = "ok"
        BY <3>2, <3>3, CombineOk
      <3> QED BY <3>4, ReadbackOk DEF targets
    <2> QED BY <2>1, <2>2
  <1>5. op[p] \in RestoreOps /\ verdict'[p] = "ok" => rule = "none" /\ Undone(p)
    BY <1>1, <1>4, ConfirmedIsUndone DEF ProcInv, VerdictIsEarned
  <1>6. Unresolved(ledger, asset[p])' = Unresolved(ledger, asset[p]) /\ Undone(p)' = Undone(p)
    BY <1>1 DEF Unresolved, Pending, ResolvedAfter, Undone, osVars
  <1>7. ProcInv(p)'
    <2>1. Fresh(p)' /\ InItsOwnSteps(p)' /\ TouchedAll(p)'
      BY <1>1 DEF ProcInv, Fresh, InItsOwnSteps, TouchedAll, CutSteps, RestoreSteps, CutOps,
                  RestoreOps
    <2>2. RecordIsCurrent(p)'
      BY <1>1, <1>6 DEF ProcInv, RecordIsCurrent
    <2>3. VerdictIsEarned(p)'
      BY <1>1, <1>5, <1>6 DEF VerdictIsEarned, osVars
    <2> QED BY <2>1, <2>2, <2>3 DEF ProcInv
  <1> QED BY <1>2, <1>3, <1>7, WorkStep

-----------------------------------------------------------------------------
(* The steps that write the ledger. *)

\* Outside a cut, nothing is under way.
LEMMA NothingUnderWay ==
  ASSUME OneAtATime, NEW p \in Procs, pc[p] # "idle", pc[p] \notin CutSteps
  PROVE  UnderWay = {}
  BY OthersIdle DEF UnderWay, CutSteps

\* In a cut, only its own targets are.
LEMMA OneUnderWay ==
  ASSUME OneAtATime, NEW p \in Procs, pc[p] # "idle", NEW t \in UnderWay
  PROVE  t \in seen[p]
  <1>1. PICK q \in Procs : pc[q] \in CutSteps /\ t \in seen[q]
    BY DEF UnderWay
  <1>2. pc[q] # "idle"
    BY <1>1 DEF CutSteps
  <1> QED BY <1>1, <1>2, OthersIdle

LEMMA MarkResolvedSafe ==
  ASSUME DaemonInv, NEW p \in Procs, MarkResolved(p)
  PROVE  Coherent'
  <1> USE DEF DaemonInv, TypeOK, Coherent
  <1>1. /\ pc[p] = "resolve" /\ pc'[p] = "report" /\ op[p] \in RestoreOps
        /\ UNCHANGED <<osVars, lock, op, asset, seen, todo, verdict>>
        /\ \A q \in Procs : q # p => pc'[q] = pc[q]
    BY DEF MarkResolved, Go, ProcTypeOK, procVars, ProcInv, InItsOwnSteps, RestoreSteps
  <1>2. OneAtATime' /\ HeldIsOff'
    BY <1>1, LockKept DEF osVars, HeldIsOff
  <1>3. Undone(p)' = Undone(p)
    BY <1>1 DEF Undone, osVars
  <1>4. ProcInv(p)'
    BY <1>1, <1>3 DEF ProcInv, Fresh, InItsOwnSteps, RecordIsCurrent, TouchedAll,
                      VerdictIsEarned, osVars, CutSteps, RestoreSteps, CutOps, RestoreOps
  <1>5. \A q \in Procs : ProcInv(q)'
    BY <1>1, <1>4, OthersKeep
  <1>6. UnderWay = {}
    BY <1>1, NothingUnderWay DEF CutSteps
  <1>7. CASE WriteTears
    BY <1>2, <1>5, <1>7 DEF WriteTears, Recoverable, Damaged
  <1>8. CASE ledger' = ledger /\ torn' = torn
    <2>1. Recorded' = Recorded /\ Damaged(ledger, torn)' = Damaged(ledger, torn)
      BY <1>8 DEF Recorded, Unresolved, Pending, ResolvedAfter, Damaged
    <2> QED BY <1>1, <1>2, <1>5, <1>6, <2>1 DEF Recoverable, osVars
  <1>9. CASE verdict[p] = "ok" /\ WriteOk(ResolvedLine(asset[p]))
    <2> DEFINE line == ResolvedLine(asset[p])
    <2>1. asset[p] \in Assets /\ line \in Lines(Assets, Targets) /\ JunkLine \in Lines(Assets, Targets)
      BY <1>1, LinesHold DEF AssetTypeOK
    <2>2. CASE Damaged(ledger, torn)
      <3>1. Damaged(Appended(ledger, torn, line), FALSE)
        BY <2>1, <2>2, DamageStays DEF FileTypeOK
      <3> QED BY <1>2, <1>5, <1>9, <3>1 DEF WriteOk, Recoverable
    <2>3. CASE ~Damaged(ledger, torn)
      <3>1. ledger' = Append(ledger, line)
        BY <1>9, <2>3 DEF WriteOk, Appended, Damaged
      <3>2. held \cap Unresolved(ledger, asset[p]) = {}
        BY <1>1, <1>9 DEF ProcInv, VerdictIsEarned, Undone, RecordIsCurrent, RestoreOps, OsTypeOK
      <3>3. ASSUME NEW t \in held, t \in Recorded PROVE t \in Recorded'
        <4>1. PICK b \in Assets : t \in Unresolved(ledger, b)
          BY <3>3 DEF Recorded
        <4>2. b # asset[p]
          BY <3>2, <3>3, <4>1
        <4>3. t \in Unresolved(ledger', b)
          BY <2>1, <3>1, <4>1, <4>2, AppendKeeps DEF FileTypeOK, ResolvedLine
        <4> QED BY <3>3, <4>3 DEF Recorded
      <3> QED BY <1>1, <1>2, <1>5, <1>6, <2>3, <3>3 DEF Recoverable, osVars
    <2> QED BY <2>2, <2>3
  <1> QED BY <1>7, <1>8, <1>9 DEF MarkResolved, fileVars, WriteFails

LEMMA RecordCutSafe ==
  ASSUME DaemonInv, NEW p \in Procs, RecordCut(p)
  PROVE  Coherent'
  <1> USE DEF DaemonInv, TypeOK, Coherent
  <1>1. /\ pc[p] = "record" /\ pc'[p] = "report" /\ op[p] \in CutOps
        /\ UNCHANGED <<up, rule, held, lock, op, asset, seen, todo>>
        /\ \A q \in Procs : q # p => pc'[q] = pc[q]
    BY DEF RecordCut, Go, ProcTypeOK, ProcInv, InItsOwnSteps, CutSteps
  <1>2. OneAtATime' /\ HeldIsOff'
    BY <1>1, LockKept DEF HeldIsOff
  <1>3. ProcInv(p)'
    BY <1>1 DEF ProcInv, Fresh, InItsOwnSteps, RecordIsCurrent, TouchedAll,
                VerdictIsEarned, CutSteps, RestoreSteps, CutOps, RestoreOps
  <1>4. \A q \in Procs : ProcInv(q)'
    BY <1>1, <1>3, OthersKeep
  <1>5. \A t \in UnderWay : t \in seen[p]
    BY <1>1, OneUnderWay
  <1>6. CASE WriteTears
    BY <1>2, <1>4, <1>6 DEF WriteTears, Recoverable, Damaged
  <1>7. CASE WriteFails /\ lost' = lost \cup (seen[p] \cap held)
    <2>1. Recorded' = Recorded /\ Damaged(ledger, torn)' = Damaged(ledger, torn)
      BY <1>7 DEF WriteFails, Recorded, Unresolved, Pending, ResolvedAfter, Damaged
    <2> QED BY <1>1, <1>2, <1>4, <1>5, <1>7, <2>1 DEF Recoverable
  <1>8. CASE WriteOk(CutLine(asset[p], seen[p])) /\ lost' = lost
    <2> DEFINE line == CutLine(asset[p], seen[p])
    <2>1. /\ asset[p] \in Assets
          /\ line \in Lines(Assets, Targets)
          /\ JunkLine \in Lines(Assets, Targets)
      BY <1>1, LinesHold DEF AssetTypeOK, ProcTypeOK
    <2>2. CASE Damaged(ledger, torn)
      <3>1. Damaged(Appended(ledger, torn, line), FALSE)
        BY <2>1, <2>2, DamageStays DEF FileTypeOK
      <3> QED BY <1>2, <1>4, <1>8, <3>1 DEF WriteOk, Recoverable
    <2>3. CASE ~Damaged(ledger, torn)
      <3>1. ledger' = Append(ledger, line)
        BY <1>8, <2>3 DEF WriteOk, Appended, Damaged
      <3>2. ASSUME NEW t \in Recorded PROVE t \in Recorded'
        <4>1. PICK b \in Assets : t \in Unresolved(ledger, b)
          BY <3>2 DEF Recorded
        <4>2. t \in Unresolved(ledger', b)
          BY <2>1, <3>1, <4>1, AppendKeeps DEF FileTypeOK, CutLine
        <4> QED BY <3>2, <4>2 DEF Recorded
      <3>3. ASSUME NEW t \in UnderWay PROVE t \in Recorded'
        <4>1. t \in Unresolved(ledger', asset[p])
          BY <1>5, <2>1, <3>1, AppendRecords DEF FileTypeOK
        <4> QED BY <2>1, <3>3, <4>1 DEF UnderWay, Recorded
      <3> QED BY <1>1, <1>2, <1>4, <1>8, <2>3, <3>2, <3>3 DEF Recoverable
    <2> QED BY <2>2, <2>3
  <1> QED BY <1>6, <1>7, <1>8 DEF RecordCut

-----------------------------------------------------------------------------
(* Starting, ending, and what comes from outside. *)

LEMMA BeginSafe ==
  ASSUME Serialized, DaemonInv, NEW p \in Procs, NEW a \in Assets, NEW o \in AllOps,
         Begin(p, a, o)
  PROVE  Coherent'
  <1> USE DEF DaemonInv, TypeOK, Coherent
  <1>1. lock = {} /\ lock' = {p}
    BY DEF Begin, Acquire
  <1>2. \A q \in Procs : pc[q] = "idle"
    BY <1>1 DEF OneAtATime
  <1>3. /\ op'[p] = o
        /\ pc'[p] = (CASE o = "full"      -> "snapshot"
                       [] o = "egress"    -> "install"
                       [] o = "restore"   -> "read"
                       [] o = "emergency" -> "nmOn")
        /\ \A q \in Procs : q # p => pc'[q] = pc[q]
        /\ UNCHANGED <<osVars, fileVars, seen, todo>>
    BY DEF Begin, Go, Tag, ProcTypeOK
  <1>4. OneAtATime'
    BY <1>1, <1>2, <1>3 DEF OneAtATime
  <1>5. HeldIsOff'
    BY <1>3 DEF osVars, HeldIsOff
  <1>6. ProcInv(p)'
    <2>1. seen'[p] = {} /\ todo'[p] = {}
      BY <1>2, <1>3 DEF ProcInv, Fresh
    <2>2. \/ o \in CutOps /\ pc'[p] \in {"snapshot", "install"}
          \/ o = "restore" /\ pc'[p] = "read"
          \/ o = "emergency" /\ pc'[p] = "nmOn"
      BY <1>3 DEF AllOps, CutOps
    <2> QED BY <1>3, <2>1, <2>2
            DEF ProcInv, Fresh, InItsOwnSteps, RecordIsCurrent, TouchedAll,
                VerdictIsEarned, CutSteps, RestoreSteps, CutOps, RestoreOps
  <1>7. \A q \in Procs : ProcInv(q)'
    BY <1>2, <1>3, <1>6, IdleKeeps DEF ProcInv
  <1>8. Recoverable'
    <2>1. Recorded' = Recorded /\ Damaged(ledger, torn)' = Damaged(ledger, torn)
      BY <1>3 DEF fileVars, Recorded, Unresolved, Pending, ResolvedAfter, Damaged
    <2>2. UnderWay = {}
      BY <1>2 DEF UnderWay, CutSteps
    <2> QED BY <1>3, <2>1, <2>2 DEF Recoverable, osVars
  <1> QED BY <1>4, <1>5, <1>7, <1>8

\* A process that leaves, announced or killed, frees the lock; what its cut
\* still held off and had not recorded is lost.
LEMMA LeaveSafe ==
  ASSUME DaemonInv, NEW p \in Procs, pc[p] # "idle", Leave(p),
         UNCHANGED <<up, rule, held, ledger>>,
         Damaged(ledger, torn) => torn' \/ torn' = torn,
         torn' = torn \/ torn' = TRUE,
         lost \subseteq lost',
         pc[p] \in CutSteps => seen[p] \cap held \subseteq lost'
  PROVE  Coherent'
  <1> USE DEF DaemonInv, TypeOK, Coherent
  <1>1. lock = {p}
    BY DEF OneAtATime
  <1>2. /\ pc'[p] = "idle" /\ seen'[p] = {} /\ todo'[p] = {}
        /\ \A q \in Procs : q # p => pc'[q] = pc[q] /\ seen'[q] = seen[q] /\ todo'[q] = todo[q]
    BY DEF Leave, Go, ProcTypeOK
  <1>3. OneAtATime'
    BY <1>2, OthersIdle DEF OneAtATime
  <1>4. HeldIsOff'
    BY DEF HeldIsOff
  <1>5. ProcInv(p)'
    BY <1>2 DEF ProcInv, Fresh, InItsOwnSteps, RecordIsCurrent, TouchedAll,
                VerdictIsEarned, CutSteps, RestoreSteps
  <1>6. \A q \in Procs : ProcInv(q)'
    BY <1>2, <1>5, OthersKeep
  <1>7. Recoverable'
    <2>1. Recorded' = Recorded /\ (Damaged(ledger, torn) => Damaged(ledger, torn)')
      BY DEF Recorded, Unresolved, Pending, ResolvedAfter, Damaged
    <2>2. ASSUME NEW t \in UnderWay, t \in held PROVE t \in lost'
      BY <2>2, OneUnderWay, NothingUnderWay
    <2> QED BY <2>1, <2>2 DEF Recoverable
  <1> QED BY <1>3, <1>4, <1>6, <1>7

LEMMA ReportSafe ==
  ASSUME DaemonInv, NEW p \in Procs, Report(p)
  PROVE  Coherent'
  <1>1. pc[p] # "idle" /\ pc[p] \notin CutSteps /\ Leave(p) /\ UNCHANGED <<osVars, fileVars>>
    BY DEF Report, CutSteps
  <1> QED BY <1>1, LeaveSafe DEF osVars, fileVars

LEMMA CrashSafe ==
  ASSUME DaemonInv, NEW p \in Procs, Crash(p)
  PROVE  Coherent'
  <1>1. pc[p] # "idle" /\ Leave(p) /\ UNCHANGED <<up, rule, held, ledger>>
    BY DEF Crash
  <1>2. torn' = torn \/ torn' = TRUE
    BY DEF Crash
  <1>3. lost \subseteq lost' /\ (pc[p] \in CutSteps => seen[p] \cap held \subseteq lost')
    BY DEF Crash
  <1> QED BY <1>1, <1>2, <1>3, LeaveSafe

LEMMA OtherToolSafe ==
  ASSUME DaemonInv, NEW i \in Ifaces, OtherTool(i)
  PROVE  Coherent'
  <1> USE DEF DaemonInv, TypeOK, Coherent
  <1>1. /\ i # NM /\ i # FW
        /\ held' = held \ {i} /\ lost' = lost \ {i}
        /\ UNCHANGED <<rule, fileVars, lock, pc, procVars>>
        /\ \A t \in Switches : t # i => up'[t] = up[t]
    BY DEF OtherTool, OsTypeOK, Switches
  <1>2. OneAtATime'
    BY <1>1 DEF OneAtATime
  <1>3. HeldIsOff'
    BY <1>1 DEF HeldIsOff, OsTypeOK, Targets
  <1>4. ASSUME NEW q \in Procs PROVE ProcInv(q)'
    <2>1. UNCHANGED <<pc, op, asset, seen, todo, verdict, ledger, rule>> /\ held' \subseteq held
      BY <1>1 DEF procVars, fileVars
    <2>2. Unresolved(ledger, asset[q])' = Unresolved(ledger, asset[q])
      BY <2>1 DEF Unresolved, Pending, ResolvedAfter
    <2>3. ProcInv(q)
      OBVIOUS
    <2>4. Fresh(q)' /\ InItsOwnSteps(q)' /\ TouchedAll(q)' /\ RecordIsCurrent(q)'
      BY <2>1, <2>2, <2>3 DEF ProcInv, Fresh, InItsOwnSteps, TouchedAll, RecordIsCurrent
    <2>5. VerdictIsEarned(q)'
      BY <2>1, <2>3 DEF ProcInv, VerdictIsEarned, Undone
    <2> QED BY <2>4, <2>5 DEF ProcInv
  <1>5. Recoverable'
    <2>1. Recorded' = Recorded /\ Damaged(ledger, torn)' = Damaged(ledger, torn)
      BY <1>1 DEF fileVars, Recorded, Unresolved, Pending, ResolvedAfter, Damaged
    <2>2. UnderWay' = UnderWay
      BY <1>1 DEF UnderWay, procVars
    <2> QED BY <1>1, <2>1, <2>2 DEF Recoverable
  <1> QED BY <1>2, <1>3, <1>4, <1>5

-----------------------------------------------------------------------------
(* The invariant. *)

LEMMA InitSafe == Init => Coherent
  <1> SUFFICES ASSUME Init PROVE Coherent
    OBVIOUS
  <1>1. OneAtATime /\ HeldIsOff /\ Recoverable
    BY DEF Init, OneAtATime, HeldIsOff, Recoverable
  <1>2. \A p \in Procs : ProcInv(p)
    BY DEF Init, ProcInv, Fresh, InItsOwnSteps, RecordIsCurrent, TouchedAll, VerdictIsEarned,
           CutSteps, RestoreSteps, CutOps, RestoreOps
  <1> QED BY <1>1, <1>2 DEF Coherent

LEMMA NextSafe ==
  ASSUME Serialized, DaemonInv, [Next]_vars
  PROVE  DaemonInv'
  <1>1. TypeOK'
    BY NextTypeOK DEF DaemonInv
  <1>2. ASSUME NEW p \in Procs, Cut(p) PROVE Coherent'
    BY <1>2, CutFullSafe, InstallSafe, CheckCutSafe, RecordCutSafe DEF Cut
  <1>3. ASSUME NEW p \in Procs, Restore(p) PROVE Coherent'
    BY <1>3, ReadLedgerSafe, NmcliOnSafe, SweepSafe, UndoSafe, RemoveRulesSafe,
       VerifyAbsentSafe, ReadbackRestoreSafe, MarkResolvedSafe DEF Restore
  <1>4. ASSUME NEW p \in Procs, Step(p) \/ Crash(p) PROVE Coherent'
    BY <1>2, <1>3, <1>4, ReportSafe, CrashSafe DEF Step
  <1>5. ASSUME NEW p \in Procs, NEW a \in Assets, NEW o \in AllOps, Begin(p, a, o)
        PROVE  Coherent'
    BY <1>5, BeginSafe
  <1>6. ASSUME NEW i \in Ifaces, OtherTool(i) PROVE Coherent'
    BY <1>6, OtherToolSafe
  <1>7. ASSUME UNCHANGED vars PROVE Coherent'
    <2>1. /\ UNCHANGED <<up, rule, held, lost, ledger, torn, lock, pc>>
          /\ UNCHANGED <<op, asset, todo, seen, verdict>>
      BY <1>7 DEF vars, osVars, fileVars, procVars
    <2>2. OneAtATime' /\ HeldIsOff'
      BY <2>1 DEF DaemonInv, Coherent, OneAtATime, HeldIsOff
    <2>3. ASSUME NEW p \in Procs PROVE ProcInv(p)'
      BY <2>1 DEF DaemonInv, Coherent, ProcInv, Fresh, InItsOwnSteps, RecordIsCurrent, TouchedAll,
                  VerdictIsEarned, Undone, Unresolved, Pending, ResolvedAfter
    <2>4. Recoverable'
      BY <2>1 DEF DaemonInv, Coherent, Recoverable, Recorded, UnderWay, Damaged, Unresolved,
                  Pending, ResolvedAfter
    <2> QED BY <2>2, <2>3, <2>4 DEF Coherent
  <1>8. Coherent'
    BY <1>4, <1>5, <1>6, <1>7 DEF Next
  <1> QED BY <1>1, <1>8 DEF DaemonInv

\* In the daemon (Serialized) the invariant holds in every reachable state.
THEOREM DaemonInvariant == Serialized => (Spec => []DaemonInv)
  <1>1. Init => DaemonInv
    BY InitTypeOK, InitSafe DEF DaemonInv
  <1>2. Serialized /\ DaemonInv /\ [Next]_vars => DaemonInv'
    BY NextSafe
  <1>3. CASE Serialized
    BY <1>1, <1>2, <1>3, PTL DEF Spec
  <1> QED BY <1>3

\* In the daemon, what Zee holds off is always found in the ledger, unless a
\* line of it is damaged, the cut is still under way, or the record was lost
\* to a kill or a reported write failure.
THEOREM LedgerTellsWhatToUndo == Serialized => (Spec => []Recoverable)
  <1>1. DaemonInv => Recoverable
    BY DEF DaemonInv, Coherent
  <1> QED BY <1>1, DaemonInvariant, PTL

\* In the daemon, a restore that reports success left nothing of its cut.
THEOREM RestoreIsEarned == Serialized => (Spec => []RestoredMeansRestored)
  <1>1. DaemonInv => RestoredMeansRestored
    BY DEF DaemonInv, Coherent, ProcInv, VerdictIsEarned, Undone, RestoredMeansRestored
  <1> QED BY <1>1, DaemonInvariant, PTL

-----------------------------------------------------------------------------
(* What "applied" means. *)

\* A confirming read-back has seen the host cut.
LEMMA ConfirmedIsCut ==
  ASSUME NEW p \in Procs, op[p] \in CutOps, ReadsBack(p, TRUE)
  PROVE  IF op[p] = "full" THEN \A i \in Ifaces : ~up[i] ELSE rule = "full"
  <1>1. CASE op[p] = "full"
    <2>1. PICK listed \in Listings : \E read \in Readable(listed) : ConfirmedFull(seen[p], listed, read)
      BY <1>1 DEF ReadsBack
    <2>2. listed = Ifaces
      BY <2>1 DEF ConfirmedFull, Listings, LinuxInterfaces
    <2> QED BY <1>1, <2>1, <2>2 DEF ConfirmedFull, Required
  <1>2. CASE op[p] # "full"
    BY <1>2 DEF ReadsBack, ConfirmedEgress
  <1> QED BY <1>1, <1>2

LEMMA NextInForce ==
  ASSUME Serialized, DaemonInv, DaemonInv', AppliedIsInForce, [Next]_vars
  PROVE  AppliedIsInForce'
  <1> USE DEF DaemonInv, TypeOK, Coherent
  <1> SUFFICES ASSUME NEW p \in Procs,
                      pc'[p] \in Settled, op'[p] \in CutOps, verdict'[p] = "ok"
               PROVE  IF op'[p] = "full" THEN p \in overtaken' \/ \A i \in Ifaces : ~up'[i]
                      ELSE rule' = "full"
    BY DEF AppliedIsInForce
  <1>1. ASSUME NEW q \in Procs, Step(q) \/ Crash(q)
        PROVE  q = p
    <2>1. SUFFICES ASSUME q # p PROVE FALSE
      OBVIOUS
    <2>2. ActsAlone(q)
      BY <1>1, StepActsAlone
    <2>3. pc[q] # "idle" /\ pc[p] # "idle"
      BY <2>1, <2>2 DEF ActsAlone, Settled
    <2> QED BY <2>1, <2>3, OthersIdle
  <1>2. ASSUME NEW q \in Procs, NEW a \in Assets, NEW o \in AllOps, Begin(q, a, o)
        PROVE  FALSE
    <2>1. lock = {} /\ \A r \in Procs : r # q => pc'[r] = pc[r]
      BY <1>2 DEF Begin, Acquire, Go, ProcTypeOK
    <2>2. pc[p] = "idle"
      BY <2>1 DEF OneAtATime
    <2>3. pc'[q] \in CutSteps \cup RestoreSteps /\ pc'[q] \notin Settled
      BY <1>2 DEF Begin, Go, ProcTypeOK, CutSteps, RestoreSteps, AllOps, Settled
    <2> QED BY <2>1, <2>2, <2>3 DEF Settled
  <1>3. ASSUME NEW i \in Ifaces, OtherTool(i)
        PROVE  IF op'[p] = "full" THEN p \in overtaken' \/ \A j \in Ifaces : ~up'[j]
               ELSE rule' = "full"
    BY <1>3 DEF OtherTool, AppliedIsInForce, procVars
  <1>4. CASE UNCHANGED vars
    BY <1>4 DEF vars, osVars, procVars, AppliedIsInForce
  <1>5. CASE CheckCut(p)
    <2>1. /\ UNCHANGED <<osVars, op>>
          /\ \E confirmed \in BOOLEAN : ReadsBack(p, confirmed) /\ (verdict'[p] = "ok" => confirmed)
      BY <1>5 DEF CheckCut, ProcTypeOK
    <2>2. op[p] \in CutOps /\ ReadsBack(p, TRUE)
      BY <2>1
    <2> QED BY <2>1, <2>2, ConfirmedIsCut DEF osVars
  <1>6. CASE RecordCut(p)
    <2>1. UNCHANGED <<up, rule, op, overtaken>> /\ pc[p] = "record" /\ verdict[p] = "ok"
      BY <1>6 DEF RecordCut, NotRecorded, ProcTypeOK
    <2> QED BY <2>1 DEF AppliedIsInForce, Settled
  <1>7. ~CutFull(p) /\ ~Install(p) /\ ~AppendRules(p)
    BY DEF CutFull, Snapshot, NmcliOff, ListLinks, LinkDown, Install, InstallNft, InstallIptables,
           AppendRules, Go, ProcTypeOK, Settled
  <1>8. ~Restore(p)
    <2>1. Restore(p) => pc[p] \in RestoreSteps /\ op' = op
      BY DEF Restore, ReadLedger, NmcliOn, Sweep, Undo, RemoveRules, VerifyAbsent, ReadbackRestore,
             MarkResolved, RestoreSteps, procVars
    <2> QED BY <2>1 DEF ProcInv, InItsOwnSteps, CutOps, RestoreOps
  <1>9. ~Report(p) /\ ~Crash(p)
    BY DEF Report, Crash, Leave, Go, ProcTypeOK, Settled
  <1> QED BY <1>1, <1>2, <1>3, <1>4, <1>5, <1>6, <1>7, <1>8, <1>9 DEF Next, Step, Cut

\* In the daemon, from its read-back to its announcement, a cut reported as
\* applied is in force, whatever the commands reported.
THEOREM AppliedStaysInForce == Serialized => (Spec => []AppliedIsInForce)
  <1>1. Init => AppliedIsInForce
    BY DEF Init, AppliedIsInForce, Settled
  <1>2. Serialized /\ DaemonInv /\ DaemonInv' /\ AppliedIsInForce /\ [Next]_vars => AppliedIsInForce'
    BY NextInForce
  <1>3. CASE Serialized
    BY <1>1, <1>2, <1>3, DaemonInvariant, PTL DEF Spec
  <1> QED BY <1>3
=============================================================================
