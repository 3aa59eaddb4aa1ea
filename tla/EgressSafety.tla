----------------------------- MODULE EgressSafety -----------------------------
(***************************************************************************)
(* Proofs of the egress approval engine's safety properties, for every     *)
(* value of its constants.  The invariant the run checks is inductive once *)
(* it also says that the bytes asked for have a greatest element (`Peaks'):*)
(* an approval is good for that many.  It is proved in four parts, each of *)
(* variables that change together.                                         *)
(***************************************************************************)
EXTENDS EgressApproval, FiniteSetTheorems, TLAPS

USE DEF file, gate, asked, ages, counters, history

-----------------------------------------------------------------------------
(* The invariant, in parts.                                                *)

\* One of the numbers, or zero, is the greatest.
HasPeak(bytes) == \E m \in {0} \cup {bytes[d] : d \in Dests} : \A d \in Dests : bytes[d] <= m

Peaks == HasPeak(batch.bytes) /\ \A i \in 1..MaxRequests : HasPeak(requests[i].bytes)

FileOK ==
    /\ st \in States /\ saved \in States
    /\ quiet \in 0..RecoveryWait
    /\ TwoKeysKept /\ RecoveryIsAged

GateOK ==
    /\ grants \in [Dests -> Grant]
    /\ held \subseteq Dests /\ unheld \subseteq Dests
    /\ blocked \subseteq Dests /\ forgotten \subseteq Dests
    /\ signed \in [Dests -> Nat] /\ sent \in [Dests -> Nat]
    /\ RecordsMatchEnforcer /\ SpendsWithinSigned

AskedOK ==
    /\ pending \subseteq 1..MaxRequests /\ applied \subseteq 1..MaxRequests
    /\ batch \in [open : BOOLEAN, age : 0..BundleWindow, bytes : [Dests -> Nat]]
    /\ requests \in [1..MaxRequests -> [op : ConfigOps \cup {"egress", "none"},
                                        arg : Entries \cup Keys \cup Data \cup {"-"},
                                        bytes : [Dests -> Nat]]]
    /\ left \in [1..MaxRequests -> -1..ResponseTtl]
    /\ nextId \in 1..(MaxRequests + 1)
    /\ AskedOnce /\ ArgsFit /\ Peaks

ClocksOK ==
    /\ env \in Environments
    /\ broken \in BOOLEAN /\ invalid \in BOOLEAN /\ lost \in BOOLEAN
    /\ taint \in [Data -> 0..TaintWindow]
    /\ sinceBatch \in 0..MinBatchInterval
    /\ sinceNotice \in 0..NoticeEvery
    /\ failures \in 0..env.failures
    /\ restarts \in 0..env.restarts

Inv == FileOK /\ GateOK /\ AskedOK /\ ClocksOK

-----------------------------------------------------------------------------
(* The clocks, and what is asked for.                                      *)

\* What is cited of an environment.
LEMMA EnvironmentFits ==
    ASSUME NEW e \in Environments
    PROVE  /\ e.from \in States
           /\ e.from.on /\ ~e.from.ack => Cardinality(e.from.keys) >= 2
           /\ e.requests \in 0..MaxRequests
           /\ e.failures \in Nat /\ e.restarts \in Nat
  BY ConstantsAssumption

LEMMA ConstantsFit ==
    /\ Threshold \in Nat /\ BundleWindow \in Nat /\ MinBatchInterval \in Nat /\ ResponseTtl \in Nat
    /\ TaintWindow \in Nat /\ RecoveryWait \in Nat /\ NoticeEvery \in Nat /\ MaxRequests \in Nat
    /\ GrantTtl \in Nat /\ ResponseTtl < GrantTtl /\ MaxListed \in Nat /\ MaxListed >= 1
  BY ConstantsAssumption

LEMMA ClocksStart == Init => ClocksOK
<1> SUFFICES ASSUME Init PROVE ClocksOK
  OBVIOUS
<1>1. env \in Environments /\ failures \in 0..env.failures /\ restarts \in 0..env.restarts
  BY EnvironmentFits DEF Init
<1>2. broken \in BOOLEAN /\ invalid \in BOOLEAN /\ lost \in BOOLEAN
  BY DEF Init
<1>3. QED
  BY <1>1, <1>2, ConstantsFit DEF Init, ClocksOK

\* A step uses up failures that are left to it, or none.
LEMMA FailingFits ==
    ASSUME ClocksOK, NEW n \in Nat, Failing(n)
    PROVE  failures' \in 0..env'.failures /\ restarts' \in 0..env'.restarts /\ env' \in Environments
  BY EnvironmentFits DEF ClocksOK, Failing

\* The destinations of a choice can be counted.
LEMMA Counted ==
    /\ \A S \in SUBSET Dests : Cardinality(S) \in Nat
    /\ \A S \in SUBSET Keys : IsFiniteSet(S) /\ Cardinality(S) \in Nat
<1>1. ASSUME NEW S \in SUBSET Dests
      PROVE  Cardinality(S) \in Nat
  BY ConstantsAssumption, FS_Subset, FS_CardinalityType
<1>2. ASSUME NEW S \in SUBSET Keys
      PROVE  IsFiniteSet(S) /\ Cardinality(S) \in Nat
  BY ConstantsAssumption, FS_Subset, FS_CardinalityType
<1>3. QED
  BY <1>1, <1>2

LEMMA ClocksStep == ASSUME ClocksOK, FileOK, Next PROVE ClocksOK'
<1>1. CASE SetUp
  <2>1. PICK ok \in BOOLEAN : \E op, s : Local(op, s, ok)
    <3>1. PICK ok \in BOOLEAN :
              \/ \E e \in Entries : SetupAllow(e, ok)
              \/ \E p \in Data : SetupProtect(p, ok)
              \/ \E k \in Keys : BootstrapKey(k, ok)
              \/ AckSingleKey(ok)
              \/ Enable(ok)
      BY <1>1, Zenon DEF SetUp
    <3>2. \E op, s : Local(op, s, ok)
      BY <3>1, Zenon DEF SetupAllow, SetupProtect, BootstrapKey, AckSingleKey, Enable
    <3>3. QED
      BY <3>2
  <2>2. PICK op, s : Local(op, s, ok)
    BY <2>1
  <2>3. Failures(ok) \in Nat
    BY DEF Failures
  <2>4. failures' \in 0..env'.failures /\ restarts' \in 0..env'.restarts /\ env' \in Environments
    BY <2>2, <2>3, FailingFits DEF Local
  <2>5. QED
    BY <2>2, <2>4 DEF ClocksOK, Local, Record
<1>2. ASSUME NEW ok \in BOOLEAN, RecoveryStart(ok)
      PROVE  ClocksOK'
  <2>2. Failures(ok) \in Nat
    BY DEF Failures
  <2>3. failures' \in 0..env'.failures /\ restarts' \in 0..env'.restarts /\ env' \in Environments
    BY <1>2, <2>2, FailingFits DEF RecoveryStart
  <2>4. sinceNotice' \in 0..NoticeEvery
    BY <1>2, ConstantsFit DEF ClocksOK, RecoveryStart
  <2>5. QED
    BY <1>2, <2>3, <2>4 DEF ClocksOK, RecoveryStart, Record
<1>3. ASSUME NEW ok \in BOOLEAN, NEW fail \in SUBSET Dests, RecoveryComplete(fail, ok)
      PROVE  ClocksOK'
  <2>2. Cardinality(fail) + Failures(ok) \in Nat
    BY Counted DEF Failures
  <2>3. failures' \in 0..env'.failures /\ restarts' \in 0..env'.restarts /\ env' \in Environments
    BY <1>3, <2>2, FailingFits DEF RecoveryComplete
  <2>4. QED
    BY <1>3, <2>3 DEF ClocksOK, RecoveryComplete, Record
<1>4. CASE Ask
  BY <1>4 DEF Ask, RequestConfig, ClocksOK
<1>5. ASSUME NEW i \in 1..MaxRequests, SubmitExpired(i)
      PROVE  ClocksOK'
  BY <1>5 DEF SubmitExpired, ClocksOK
<1>6. ASSUME NEW i \in 1..MaxRequests, SubmitUnrecorded(i)
      PROVE  ClocksOK'
  <2>1. failures' \in 0..env'.failures /\ restarts' \in 0..env'.restarts /\ env' \in Environments
    BY <1>6, FailingFits DEF SubmitUnrecorded
  <2>2. QED
    BY <1>6, <2>1 DEF SubmitUnrecorded, Record, ClocksOK
<1>7. ASSUME NEW i \in 1..MaxRequests, NEW fail \in SUBSET Dests, NEW opening \in SUBSET Dests,
             NEW rest \in SUBSET Dests, SubmitEgress(i, fail, opening, rest)
      PROVE  ClocksOK'
  <2>1. Cardinality(fail) + Cardinality(opening) \in Nat
    BY Counted
  <2>2. failures' \in 0..env'.failures /\ restarts' \in 0..env'.restarts /\ env' \in Environments
    BY <1>7, <2>1, FailingFits DEF SubmitEgress
  <2>3. QED
    BY <1>7, <2>2 DEF SubmitEgress, Record, ClocksOK
<1>8. ASSUME NEW i \in 1..MaxRequests, NEW fail \in SUBSET Dests, NEW ok \in BOOLEAN,
             SubmitConfig(i, fail, ok)
      PROVE  ClocksOK'
  <2>1. Cardinality(fail) + Failures(ok) \in Nat
    BY Counted DEF Failures
  <2>2. failures' \in 0..env'.failures /\ restarts' \in 0..env'.restarts /\ env' \in Environments
    BY <1>8, <2>1, FailingFits DEF SubmitConfig
  <2>3. QED
    BY <1>8, <2>2 DEF SubmitConfig, ClocksOK
<1>9. CASE Observe
  <2>1. ASSUME NEW d \in Dests, NEW n \in Sizes, Meter(d, n) \/ Hold(d, n)
        PROVE  ClocksOK'
    BY <2>1 DEF Meter, Hold, ClocksOK
  <2>2. ASSUME NEW d \in Dests, NEW n \in Sizes, HoldFails(d, n)
        PROVE  ClocksOK'
    <3>1. failures' \in 0..env'.failures /\ restarts' \in 0..env'.restarts /\ env' \in Environments
      BY <2>2, FailingFits DEF HoldFails
    <3>2. QED
      BY <2>2, <3>1 DEF HoldFails, ClocksOK
  <2>3. ASSUME NEW p \in Data, NoteProtectedTouch(p)
        PROVE  ClocksOK'
    BY <2>3, ConstantsFit DEF NoteProtectedTouch, ClocksOK
  <2>4. QED
    BY <1>9, <2>1, <2>2, <2>3, Zenon DEF Observe
<1>10. ASSUME NEW fail \in SUBSET Dests, Tick(fail)
       PROVE  ClocksOK'
  <2>1. failures' \in 0..env'.failures /\ restarts' \in 0..env'.restarts /\ env' \in Environments
    BY <1>10, Counted, FailingFits DEF Tick
  <2>2. QED
    BY <1>10, <2>1, ConstantsFit DEF Tick, ClocksOK
<1>11. CASE Advance
  <2>1. taint' \in [Data -> 0..TaintWindow]
    BY <1>11, ConstantsFit DEF Advance, Less, ClocksOK
  <2>2. sinceBatch' \in 0..MinBatchInterval /\ sinceNotice' \in 0..NoticeEvery
    <3>1. /\ sinceBatch' = More(sinceBatch, MinBatchInterval)
          /\ sinceNotice' = More(sinceNotice, NoticeEvery)
      BY <1>11 DEF Advance
    <3>2. QED
      BY <3>1, ConstantsFit DEF More, ClocksOK
  <2>3. QED
    BY <1>11, <2>1, <2>2 DEF Advance, ClocksOK
<1>12. CASE Corrupt
  <2>1. failures' \in 0..env'.failures /\ restarts' \in 0..env'.restarts /\ env' \in Environments
    BY <1>12, FailingFits DEF Corrupt
  <2>2. QED
    BY <1>12, <2>1 DEF Corrupt, ClocksOK
<1>13. CASE Restart
  <2>1. invalid' \in BOOLEAN /\ lost' \in BOOLEAN /\ broken' \in BOOLEAN
    BY <1>13 DEF Restart, ClocksOK
  <2>2. env' \in Environments /\ failures' \in 0..env'.failures /\ restarts' \in 0..env'.restarts
    BY <1>13, EnvironmentFits DEF Restart, ClocksOK
  <2>3. taint' \in [Data -> 0..TaintWindow]
    BY <1>13, ConstantsFit DEF Restart
  <2>4. sinceBatch' \in 0..MinBatchInterval /\ sinceNotice' \in 0..NoticeEvery
    BY <1>13, ConstantsFit DEF Restart
  <2>5. QED
    BY <2>1, <2>2, <2>3, <2>4 DEF ClocksOK
<1>14. QED
  BY <1>1, <1>2, <1>3, <1>4, <1>5, <1>6, <1>7, <1>8, <1>9, <1>10, <1>11, <1>12, <1>13, Zenon
     DEF Next, Recover, Submit, Ticks

-----------------------------------------------------------------------------
(* The state and its file.                                                 *)

\* A state that keeps two keys and is not too far into a recovery, by what
\* is known of the registry and of the last change.
Kept(s, gone, age) ==
    /\ s \in States
    /\ s.on /\ ~s.ack => Cardinality(s.keys) >= 2 \/ gone
    /\ s.recovery <= age

LEMMA FileIsKept ==
    FileOK <=> quiet \in 0..RecoveryWait /\ Kept(st, lost, quiet) /\ Kept(saved, lost, quiet)
  BY DEF FileOK, Kept, TwoKeysKept, RecoveryIsAged

LEMMA FileStarts == Init => FileOK
<1> SUFFICES ASSUME Init PROVE FileOK
  OBVIOUS
<1>1. st \in States /\ (st.on /\ ~st.ack => Cardinality(st.keys) >= 2)
  BY EnvironmentFits DEF Init
<1>2. st.recovery \in NoRecovery..RecoveryWait
  BY <1>1 DEF States
<1>3. quiet \in 0..RecoveryWait /\ st.recovery <= quiet
  BY <1>2, ConstantsFit DEF Init, NoRecovery
<1>4. saved = st
  BY DEF Init
<1>5. QED
  BY <1>1, <1>3, <1>4, FileIsKept DEF Kept

\* The state becomes s, and the file does or does not.
LEMMA RecordKeeps ==
    ASSUME FileOK, NEW s, NEW ok \in BOOLEAN, Record(s, ok), Kept(s, lost, quiet),
           UNCHANGED <<lost, quiet>>
    PROVE  FileOK'
<1>1. st' = s /\ (saved' = s \/ saved' = saved)
  BY DEF Record
<1>2. Kept(saved, lost, quiet) /\ quiet \in 0..RecoveryWait
  BY FileIsKept
<1>3. Kept(st', lost', quiet') /\ Kept(saved', lost', quiet')
  BY <1>1, <1>2
<1>4. QED
  BY <1>2, <1>3 DEF FileOK, Kept, TwoKeysKept, RecoveryIsAged

\* What local set-up makes of a state.
LEMMA SetUpKeeps ==
    ASSUME FileOK, NEW ok \in BOOLEAN,
           \/ \E e \in Entries : SetupAllow(e, ok)
           \/ \E p \in Data : SetupProtect(p, ok)
           \/ \E k \in Keys : BootstrapKey(k, ok)
           \/ AckSingleKey(ok)
           \/ Enable(ok)
    PROVE  FileOK'
<1>0. Kept(st, lost, quiet)
  BY FileIsKept
<1>1. ASSUME NEW e \in Entries, SetupAllow(e, ok)
      PROVE  FileOK'
  <2>1. Kept([st EXCEPT !.allow[e] = @ + 1], lost, quiet)
    BY <1>0, <1>1, ConstantsFit DEF Kept, States, SetupAllow
  <2>2. QED
    BY <1>1, <2>1, RecordKeeps DEF SetupAllow, Local
<1>2. ASSUME NEW p \in Data, SetupProtect(p, ok)
      PROVE  FileOK'
  <2>1. Kept([st EXCEPT !.protect[p] = @ + 1], lost, quiet)
    BY <1>0, <1>2, ConstantsFit DEF Kept, States, SetupProtect
  <2>2. QED
    BY <1>2, <2>1, RecordKeeps DEF SetupProtect, Local
<1>3. ASSUME NEW k \in Keys, BootstrapKey(k, ok)
      PROVE  FileOK'
  <2>1. Cardinality(st.keys) = 0
    BY <1>3, FS_EmptySet DEF BootstrapKey
  <2>2. Kept([st EXCEPT !.keys = {k}], lost, quiet)
    BY <1>0, <1>3, <2>1 DEF Kept, States
  <2>3. QED
    BY <1>3, <2>2, RecordKeeps DEF BootstrapKey, Local
<1>4. CASE AckSingleKey(ok)
  <2>1. Kept([st EXCEPT !.ack = TRUE], lost, quiet)
    BY <1>0 DEF Kept, States
  <2>2. QED
    BY <1>4, <2>1, RecordKeeps DEF AckSingleKey, Local
<1>5. CASE Enable(ok)
  <2>1. Kept([st EXCEPT !.on = TRUE], lost, quiet)
    BY <1>0, <1>5 DEF Kept, States, Enable
  <2>2. QED
    BY <1>5, <2>1, RecordKeeps DEF Enable, Local
<1>6. QED
  BY <1>1, <1>2, <1>3, <1>4, <1>5

LEMMA UsedKept == ASSUME FileOK, NEW i \in 1..MaxRequests PROVE Kept(Used(i), lost, quiet)
  BY FileIsKept DEF Used, Kept, States

\* A removal leaves one key less, an addition no fewer.
LEMMA KeysCounted ==
    ASSUME NEW S \in SUBSET Keys, NEW k \in Keys
    PROVE  /\ Cardinality(S \cup {k}) >= Cardinality(S)
           /\ Cardinality(S \ {k}) >= Cardinality(S) - 1
<1>1. IsFiniteSet(S) /\ Cardinality(S) \in Nat
  BY Counted
<1>2. Cardinality(S \cup {k}) = IF k \in S THEN Cardinality(S) ELSE Cardinality(S) + 1
  BY <1>1, FS_AddElement
<1>3. Cardinality(S \ {k}) = IF k \in S THEN Cardinality(S) - 1 ELSE Cardinality(S)
  BY <1>1, FS_RemoveElement
<1>4. QED
  BY <1>1, <1>2, <1>3

\* What a state has to have in common with one that is kept.
LEMMA StillKept ==
    ASSUME NEW s, NEW gone, NEW age, Kept(s, gone, age), NEW t \in States,
           t.recovery = NoRecovery, t.ack = s.ack, t.on => s.on,
           t.on /\ ~t.ack /\ Cardinality(s.keys) >= 2 => Cardinality(t.keys) >= 2
    PROVE  Kept(t, gone, 0)
<1>1. NoRecovery <= 0
  BY DEF NoRecovery
<1>2. QED
  BY <1>1 DEF Kept

\* A signed change keeps two keys: a removal is not accepted at the floor.
LEMMA ChangedKept ==
    ASSUME NEW s, NEW gone, NEW age, Kept(s, gone, age),
           NEW op \in ConfigOps, NEW arg \in ArgsOf(op),
           op = "key_remove" => ~(s.on /\ ~s.ack /\ Cardinality(s.keys) <= 2)
    PROVE  Kept(Changed(op, arg, s), gone, 0) /\ Changed(op, arg, s).recovery = NoRecovery
<1>0. NoRecovery \in NoRecovery..RecoveryWait
  BY ConstantsFit DEF NoRecovery
<1>s. s \in States
  BY DEF Kept
<1> DEFINE t == Changed(op, arg, s)
<1>1. CASE op \in {"allow_add", "allow_remove"}
  <2>1. arg \in Entries
    BY <1>1 DEF ArgsOf
  <2>2. s.allow \in [Entries -> 0..MaxListed] /\ s.allow[arg] \in 0..MaxListed
    BY <1>s, <2>1 DEF States
  <2>3. PICK f \in [Entries -> 0..MaxListed] : t = [s EXCEPT !.allow = f, !.recovery = NoRecovery]
    <3>1. ASSUME NEW n \in 0..MaxListed
          PROVE  [s.allow EXCEPT ![arg] = n] \in [Entries -> 0..MaxListed]
      BY <2>1, <2>2
    <3>2. CASE op = "allow_add"
      <4>1. t = [[s EXCEPT !.allow = [s.allow EXCEPT ![arg] = IF @ = 0 THEN 1 ELSE @]]
                     EXCEPT !.recovery = NoRecovery]
        BY <3>2, <1>s DEF Changed, Cancelled, States
      <4>2. (IF s.allow[arg] = 0 THEN 1 ELSE s.allow[arg]) \in 0..MaxListed
        BY <2>2, ConstantsFit
      <4>3. QED
        BY <3>1, <4>1, <4>2
    <3>3. CASE op = "allow_remove"
      <4>1. t = [[s EXCEPT !.allow = [s.allow EXCEPT ![arg] = IF @ = 0 THEN 0 ELSE @ - 1]]
                     EXCEPT !.recovery = NoRecovery]
        BY <3>3, <1>s DEF Changed, Cancelled, States
      <4>2. (IF s.allow[arg] = 0 THEN 0 ELSE s.allow[arg] - 1) \in 0..MaxListed
        BY <2>2, ConstantsFit
      <4>3. QED
        BY <3>1, <4>1, <4>2
    <3>4. QED
      BY <1>1, <3>2, <3>3
  <2>4. t \in States /\ t.recovery = NoRecovery /\ t.ack = s.ack /\ t.on = s.on /\ t.keys = s.keys
    BY <1>0, <1>s, <2>3 DEF States
  <2>5. QED
    BY <2>4, StillKept
<1>2. CASE op \in {"protect_add", "protect_remove"}
  <2>1. arg \in Data
    BY <1>2 DEF ArgsOf
  <2>2. s.protect \in [Data -> 0..MaxListed] /\ s.protect[arg] \in 0..MaxListed
    BY <1>s, <2>1 DEF States
  <2>3. PICK f \in [Data -> 0..MaxListed] : t = [s EXCEPT !.protect = f, !.recovery = NoRecovery]
    <3>1. ASSUME NEW n \in 0..MaxListed
          PROVE  [s.protect EXCEPT ![arg] = n] \in [Data -> 0..MaxListed]
      BY <2>1, <2>2
    <3>2. CASE op = "protect_add"
      <4>1. t = [[s EXCEPT !.protect = [s.protect EXCEPT ![arg] = IF @ = 0 THEN 1 ELSE @]]
                     EXCEPT !.recovery = NoRecovery]
        BY <3>2, <1>s DEF Changed, Cancelled, States
      <4>2. (IF s.protect[arg] = 0 THEN 1 ELSE s.protect[arg]) \in 0..MaxListed
        BY <2>2, ConstantsFit
      <4>3. QED
        BY <3>1, <4>1, <4>2
    <3>3. CASE op = "protect_remove"
      <4>1. t = [[s EXCEPT !.protect = [s.protect EXCEPT ![arg] = IF @ = 0 THEN 0 ELSE @ - 1]]
                     EXCEPT !.recovery = NoRecovery]
        BY <3>3, <1>s DEF Changed, Cancelled, States
      <4>2. (IF s.protect[arg] = 0 THEN 0 ELSE s.protect[arg] - 1) \in 0..MaxListed
        BY <2>2, ConstantsFit
      <4>3. QED
        BY <3>1, <4>1, <4>2
    <3>4. QED
      BY <1>2, <3>2, <3>3
  <2>4. t \in States /\ t.recovery = NoRecovery /\ t.ack = s.ack /\ t.on = s.on /\ t.keys = s.keys
    BY <1>0, <1>s, <2>3 DEF States
  <2>5. QED
    BY <2>4, StillKept
<1>3. CASE op \in {"key_add", "key_remove"}
  <2>1. arg \in Keys
    BY <1>3 DEF ArgsOf
  <2>2. s.keys \in SUBSET Keys
    BY <1>s DEF States
  <2>3. PICK S \in SUBSET Keys :
            /\ t = [s EXCEPT !.keys = S, !.recovery = NoRecovery]
            /\ S = s.keys \cup {arg} \/ (op = "key_remove" /\ S \in {s.keys, s.keys \ {arg}})
    BY <1>3, <1>s, <2>1, <2>2 DEF Changed, Cancelled, States
  <2>4. t \in States /\ t.recovery = NoRecovery /\ t.ack = s.ack /\ t.on = s.on /\ t.keys = S
    BY <1>0, <1>s, <2>3 DEF States
  <2>5. /\ Cardinality(s.keys) \in Nat /\ Cardinality(S) \in Nat
        /\ Cardinality(s.keys \cup {arg}) >= Cardinality(s.keys)
        /\ Cardinality(s.keys \ {arg}) >= Cardinality(s.keys) - 1
    BY <2>1, <2>2, Counted, KeysCounted
  <2>6. t.on /\ ~t.ack /\ Cardinality(s.keys) >= 2 => Cardinality(S) >= 2
    <3> SUFFICES ASSUME t.on, ~t.ack, Cardinality(s.keys) >= 2
                 PROVE  Cardinality(S) >= 2
      OBVIOUS
    <3>1. CASE S = s.keys
      BY <3>1
    <3>2. CASE S = s.keys \cup {arg}
      BY <2>5, <3>2
    <3>3. CASE op = "key_remove" /\ S = s.keys \ {arg}
      <4>1. ~(Cardinality(s.keys) <= 2)
        BY <2>4, <3>3
      <4>2. QED
        BY <2>5, <3>3, <4>1
    <3>4. QED
      BY <2>3, <3>1, <3>2, <3>3
  <2>7. QED
    BY <2>4, <2>6, StillKept
<1>4. CASE op = "disable"
  <2>1. t = [s EXCEPT !.on = FALSE, !.recovery = NoRecovery]
    BY <1>4, <1>s DEF Changed, Cancelled, States
  <2>2. t \in States /\ t.recovery = NoRecovery /\ t.ack = s.ack /\ ~t.on
    BY <1>0, <1>s, <2>1 DEF States
  <2>3. QED
    BY <2>2, StillKept
<1>5. QED
  BY <1>1, <1>2, <1>3, <1>4 DEF ConfigOps

\* Which requests are acted on.
LEMMA AcceptedFits ==
    ASSUME AskedOK, NEW i \in 1..MaxRequests, Accepted(i), requests[i].op \in ConfigOps
    PROVE  /\ requests[i].arg \in ArgsOf(requests[i].op)
           /\ requests[i].op = "key_remove" => ~KeyFloor
  BY DEF AskedOK, ArgsFit, Accepted

LEMMA ConfigKeeps ==
    ASSUME FileOK, AskedOK, lost \in BOOLEAN, NEW i \in 1..MaxRequests,
           NEW fail \in SUBSET Dests, NEW ok \in BOOLEAN, SubmitConfig(i, fail, ok)
    PROVE  FileOK'
<1> DEFINE r == requests[i]
           t == Changed(r.op, r.arg, Used(i))
<1>1. Kept(Used(i), lost, quiet) /\ quiet \in 0..RecoveryWait
  BY UsedKept, FileIsKept
<1>2. r.op \in ConfigOps /\ Accepted(i)
  BY DEF SubmitConfig
<1>3. r.arg \in ArgsOf(r.op) /\ (r.op = "key_remove" => ~KeyFloor)
  BY <1>2, AcceptedFits
<1>4. Used(i).on = st.on /\ Used(i).ack = st.ack /\ Used(i).keys = st.keys
  BY FileIsKept DEF Used, Kept, States
<1>5. r.op = "key_remove" => ~(Used(i).on /\ ~Used(i).ack /\ Cardinality(Used(i).keys) <= 2)
  BY <1>3, <1>4 DEF KeyFloor
<1>6. Kept(t, lost, 0) /\ t.recovery = NoRecovery
  BY <1>1, <1>2, <1>3, <1>5, ChangedKept
<1>7. Kept(t, lost, quiet)
  BY <1>1, <1>6, ConstantsFit DEF Kept, NoRecovery
<1>8. st' = t /\ lost' = lost
  BY DEF SubmitConfig
<1> HIDE DEF t
<1>9. CASE ok
  <2>1. saved' = t /\ quiet' = 0
    BY <1>8, <1>9 DEF SubmitConfig
  <2>2. QED
    BY <1>6, <1>8, <2>1, ConstantsFit DEF FileOK, Kept, TwoKeysKept, RecoveryIsAged
<1>10. CASE ~ok
  <2>1. saved' = Used(i) /\ quiet' = quiet
    BY <1>8, <1>10 DEF SubmitConfig
  <2>2. QED
    BY <1>1, <1>7, <1>8, <2>1 DEF FileOK, Kept, TwoKeysKept, RecoveryIsAged
<1>11. QED
  BY <1>9, <1>10

\* Time takes a recovery no further than the last change is old.
LEMMA OlderKept ==
    ASSUME NEW s, NEW gone, NEW age \in 0..RecoveryWait, Kept(s, gone, age)
    PROVE  Kept(Older(s), gone, More(age, RecoveryWait))
<1>1. s \in States /\ s.recovery \in NoRecovery..RecoveryWait /\ s.recovery <= age
  BY DEF Kept, States
<1> DEFINE n == IF s.recovery = NoRecovery THEN NoRecovery ELSE More(s.recovery, RecoveryWait)
<1>2. n \in NoRecovery..RecoveryWait /\ n <= More(age, RecoveryWait)
  BY <1>1, ConstantsFit DEF NoRecovery, More
<1>3. Older(s) = [s EXCEPT !.recovery = n]
  BY <1>1 DEF Older, States
<1> HIDE DEF n
<1>4. /\ Older(s) \in States /\ Older(s).recovery = n
      /\ Older(s).on = s.on /\ Older(s).ack = s.ack /\ Older(s).keys = s.keys
  BY <1>1, <1>2, <1>3 DEF States
<1>5. QED
  BY <1>2, <1>4 DEF Kept

LEMMA FileStep == ASSUME FileOK, AskedOK, ClocksOK, Next PROVE FileOK'
<1>1. CASE SetUp
  <2>1. PICK ok \in BOOLEAN :
            \/ \E e \in Entries : SetupAllow(e, ok)
            \/ \E p \in Data : SetupProtect(p, ok)
            \/ \E k \in Keys : BootstrapKey(k, ok)
            \/ AckSingleKey(ok)
            \/ Enable(ok)
    BY <1>1, Zenon DEF SetUp
  <2>2. QED
    BY <2>1, SetUpKeeps
<1>2. ASSUME NEW ok \in BOOLEAN, RecoveryStart(ok)
      PROVE  FileOK'
  <2>1. Kept(st, lost, quiet) /\ Kept(saved, lost, quiet) /\ quiet \in 0..RecoveryWait
    BY FileIsKept
  <2>2. st.recovery \in NoRecovery..RecoveryWait
    BY <2>1 DEF Kept, States
  <2>3. Kept([st EXCEPT !.recovery = 0], lost, quiet) /\ Kept([st EXCEPT !.recovery = 0], lost, 0)
    BY <2>1, ConstantsFit DEF Kept, States, NoRecovery
  <2>4. st' = [st EXCEPT !.recovery = 0] /\ lost' = lost
    BY <1>2 DEF RecoveryStart, Record
  <2>5. CASE ok
    <3>1. saved' = [st EXCEPT !.recovery = 0] /\ quiet' = 0
      BY <1>2, <2>5 DEF RecoveryStart, Record
    <3>2. QED
      BY <2>3, <2>4, <3>1, ConstantsFit DEF FileOK, Kept, TwoKeysKept, RecoveryIsAged
  <2>6. CASE ~ok
    <3>1. saved' = saved /\ quiet' = quiet
      BY <1>2, <2>6 DEF RecoveryStart, Record
    <3>2. QED
      BY <2>1, <2>3, <2>4, <3>1 DEF FileOK, Kept, TwoKeysKept, RecoveryIsAged
  <2>7. QED
    BY <2>5, <2>6
<1>3. ASSUME NEW ok \in BOOLEAN, NEW fail \in SUBSET Dests, RecoveryComplete(fail, ok)
      PROVE  FileOK'
  <2>1. CASE fail # {}
    BY <1>3, <2>1 DEF RecoveryComplete, FileOK, TwoKeysKept, RecoveryIsAged
  <2>2. CASE fail = {}
    <3>1. Kept(st, lost, quiet) /\ quiet \in 0..RecoveryWait
      BY FileIsKept
    <3> DEFINE t == [st EXCEPT !.keys = {}, !.on = FALSE, !.recovery = NoRecovery, !.ack = FALSE]
    <3>2. t \in States /\ ~t.on /\ t.recovery = NoRecovery
      <4>1. NoRecovery \in NoRecovery..RecoveryWait
        BY ConstantsFit DEF NoRecovery
      <4>2. [st EXCEPT !.keys = {}, !.on = FALSE] \in States
        BY <3>1 DEF Kept, States
      <4>3. t = [[st EXCEPT !.keys = {}, !.on = FALSE] EXCEPT !.recovery = NoRecovery, !.ack = FALSE]
        OBVIOUS
      <4>4. t \in States /\ t.recovery = NoRecovery
        BY <4>1, <4>2, <4>3 DEF States
      <4>5. ~t.on
        BY <3>1 DEF Kept, States
      <4>6. QED
        BY <4>4, <4>5
    <3>3. Kept(t, lost, quiet)
      BY <3>1, <3>2, ConstantsFit DEF Kept, NoRecovery
    <3>4. Record(t, ok) /\ UNCHANGED <<lost, quiet>>
      BY <1>3, <2>2 DEF RecoveryComplete
    <3>5. QED
      BY <3>3, <3>4, RecordKeeps
  <2>3. QED
    BY <2>1, <2>2
<1>4. CASE Ask
  BY <1>4 DEF Ask, RequestConfig, FileOK, TwoKeysKept, RecoveryIsAged
<1>5. ASSUME NEW i \in 1..MaxRequests, SubmitExpired(i)
      PROVE  FileOK'
  BY <1>5 DEF SubmitExpired, FileOK, TwoKeysKept, RecoveryIsAged
<1>6. ASSUME NEW i \in 1..MaxRequests, SubmitUnrecorded(i)
      PROVE  FileOK'
  BY <1>6, UsedKept, RecordKeeps DEF SubmitUnrecorded
<1>7. ASSUME NEW i \in 1..MaxRequests, NEW fail \in SUBSET Dests, NEW opening \in SUBSET Dests,
             NEW rest \in SUBSET Dests, SubmitEgress(i, fail, opening, rest)
      PROVE  FileOK'
  <2>1. Record(Used(i), TRUE) /\ UNCHANGED <<lost, quiet>>
    BY <1>7, Zenon DEF SubmitEgress
  <2>2. QED
    BY <2>1, UsedKept, RecordKeeps
<1>8. ASSUME NEW i \in 1..MaxRequests, NEW fail \in SUBSET Dests, NEW ok \in BOOLEAN,
             SubmitConfig(i, fail, ok)
      PROVE  FileOK'
  BY <1>8, ConfigKeeps DEF ClocksOK
<1>9. CASE Observe
  BY <1>9 DEF Observe, Meter, Hold, HoldFails, NoteProtectedTouch, FileOK, TwoKeysKept, RecoveryIsAged
<1>10. ASSUME NEW fail \in SUBSET Dests, Tick(fail)
       PROVE  FileOK'
  BY <1>10 DEF Tick, FileOK, TwoKeysKept, RecoveryIsAged
<1>11. CASE Advance
  <2>1. Kept(st, lost, quiet) /\ Kept(saved, lost, quiet) /\ quiet \in 0..RecoveryWait
    BY FileIsKept
  <2>2. st' = Older(st) /\ saved' = Older(saved) /\ quiet' = More(quiet, RecoveryWait) /\ lost' = lost
    BY <1>11 DEF Advance
  <2>3. Kept(st', lost', quiet') /\ Kept(saved', lost', quiet')
    BY <2>1, <2>2, OlderKept
  <2>4. quiet' \in 0..RecoveryWait
    BY <2>1, <2>2, ConstantsFit DEF More
  <2>5. QED
    BY <2>3, <2>4 DEF FileOK, Kept, TwoKeysKept, RecoveryIsAged
<1>12. CASE Corrupt
  BY <1>12 DEF Corrupt, FileOK, TwoKeysKept, RecoveryIsAged
<1>13. CASE Restart
  <2>1. Kept(saved, lost, quiet) /\ quiet \in 0..RecoveryWait
    BY FileIsKept
  <2>2. saved' = saved /\ quiet' = quiet
    BY <1>13 DEF Restart
  <2>3. CASE broken
    <3> DEFINE t == [Fresh EXCEPT !.on = TRUE]
    <3>1. st' = t /\ lost'
      BY <1>13, <2>3 DEF Restart
    <3>2. t \in States /\ t.recovery = NoRecovery
      <4>1. NoRecovery \in NoRecovery..RecoveryWait
        BY ConstantsFit DEF NoRecovery
      <4>2. /\ [e \in Entries |-> 0] \in [Entries -> 0..MaxListed]
            /\ [p \in Data |-> 0] \in [Data -> 0..MaxListed]
        BY ConstantsFit
      <4>3. Fresh \in States /\ Fresh.recovery = NoRecovery
        BY <4>1, <4>2 DEF Fresh, States
      <4>4. QED
        BY <4>3 DEF States
    <3>3. Kept(t, TRUE, quiet)
      BY <2>1, <3>2, ConstantsFit DEF Kept, NoRecovery
    <3> HIDE DEF t
    <3>4. QED
      BY <2>1, <2>2, <3>1, <3>3 DEF FileOK, Kept, TwoKeysKept, RecoveryIsAged
  <2>4. CASE ~broken
    <3>1. st' = saved /\ (lost' <=> lost)
      BY <1>13, <2>4 DEF Restart
    <3>2. QED
      BY <2>1, <2>2, <3>1 DEF FileOK, Kept, TwoKeysKept, RecoveryIsAged
  <2>5. QED
    BY <2>3, <2>4
<1>14. QED
  BY <1>1, <1>2, <1>3, <1>4, <1>5, <1>6, <1>7, <1>8, <1>9, <1>10, <1>11, <1>12, <1>13, Zenon
     DEF Next, Recover, Submit, Ticks

-----------------------------------------------------------------------------
(* What is asked for, and what was acted on.                               *)

Batch == [open : BOOLEAN, age : 0..BundleWindow, bytes : [Dests -> Nat]]
Request == [op : ConfigOps \cup {"egress", "none"}, arg : Entries \cup Keys \cup Data \cup {"-"},
            bytes : [Dests -> Nat]]

\* A request as it is issued: with an argument of its kind, and a peak.
Issuable(r) ==
    /\ r \in Request
    /\ r.op \in ConfigOps => r.arg \in ArgsOf(r.op)
    /\ HasPeak(r.bytes)

LEMMA AskedMeans ==
    AskedOK <=> /\ pending \subseteq 1..MaxRequests /\ applied \subseteq 1..MaxRequests
                /\ batch \in Batch /\ HasPeak(batch.bytes)
                /\ requests \in [1..MaxRequests -> Request]
                /\ \A i \in 1..MaxRequests : Issuable(requests[i])
                /\ left \in [1..MaxRequests -> -1..ResponseTtl]
                /\ nextId \in 1..(MaxRequests + 1)
                /\ AskedOnce
  BY DEF AskedOK, Batch, Request, Issuable, ArgsFit, Peaks

LEMMA NothingHasAPeak == HasPeak([d \in Dests |-> 0])
  BY DEF HasPeak

\* A send is added to the batch.
LEMMA PeakGrows ==
    ASSUME NEW bytes \in [Dests -> Nat], HasPeak(bytes), NEW d \in Dests, NEW n \in Nat
    PROVE  HasPeak([bytes EXCEPT ![d] = IF @ >= n THEN @ ELSE n])
<1> DEFINE more == [bytes EXCEPT ![d] = IF @ >= n THEN @ ELSE n]
<1>1. PICK m \in {0} \cup {bytes[c] : c \in Dests} : \A c \in Dests : bytes[c] <= m
  BY DEF HasPeak
<1>2. m \in Nat /\ more \in [Dests -> Nat]
  BY <1>1
<1>3. CASE more[d] > m
  <2>1. more[d] \in {more[c] : c \in Dests} /\ \A c \in Dests : more[c] <= more[d]
    BY <1>1, <1>2, <1>3
  <2>2. QED
    BY <2>1 DEF HasPeak
<1>4. CASE more[d] <= m
  <2>1. \A c \in Dests : more[c] <= m
    BY <1>1, <1>2, <1>4
  <2>2. m = 0 \/ \E c \in Dests : m = more[c]
    <3>1. ASSUME NEW c \in Dests, m = bytes[c]
          PROVE  \E e \in Dests : m = more[e]
      <4>1. CASE c = d
        BY <1>2, <1>4, <3>1, <4>1
      <4>2. CASE c # d
        BY <3>1, <4>2
      <4>3. QED
        BY <4>1, <4>2
    <3>2. QED
      BY <1>1, <3>1
  <2>3. QED
    BY <2>1, <2>2 DEF HasPeak
<1>5. QED
  BY <1>2, <1>3, <1>4

LEMMA UnissuedFits == Issuable(Unissued)
  BY NothingHasAPeak DEF Issuable, Unissued, Request, ConfigOps

LEMMA AskedStarts == Init => AskedOK
<1> SUFFICES ASSUME Init PROVE AskedOK
  OBVIOUS
<1>1. batch \in Batch /\ HasPeak(batch.bytes)
  BY NothingHasAPeak, ConstantsFit DEF Init, NoBatch, Batch
<1>2. \A i \in 1..MaxRequests : Issuable(requests[i])
  BY UnissuedFits DEF Init
<1>3. requests \in [1..MaxRequests -> Request]
  BY UnissuedFits DEF Init, Issuable
<1>4. left \in [1..MaxRequests -> -1..ResponseTtl] /\ nextId \in 1..(MaxRequests + 1)
  BY ConstantsFit DEF Init
<1>5. pending \subseteq 1..MaxRequests /\ applied \subseteq 1..MaxRequests /\ AskedOnce
  BY DEF Init, AskedOnce
<1>6. QED
  BY <1>1, <1>2, <1>3, <1>4, <1>5, AskedMeans

\* What of the questions a step leaves alone, or takes away.
LEMMA FewerAsked ==
    ASSUME AskedOK, UNCHANGED <<asked, batch>>, pending' \subseteq pending, applied' = applied
    PROVE  AskedOK'
  BY DEF AskedOK, AskedOnce, ArgsFit, Peaks

\* An approval is taken away and acted on.
LEMMA OneApplied ==
    ASSUME AskedOK, UNCHANGED <<asked, batch>>, NEW i \in pending,
           pending' = pending \ {i}, applied' = applied \cup {i}
    PROVE  AskedOK'
  BY DEF AskedOK, AskedOnce, ArgsFit, Peaks

\* A request is issued.
LEMMA OneIssued ==
    ASSUME AskedOK, ClocksOK, NEW r, Issuable(r), Issue(r),
           pending' \subseteq pending \cup {nextId}, applied' = applied,
           batch' \in Batch, HasPeak(batch'.bytes)
    PROVE  AskedOK'
<1>1. nextId \in 1..MaxRequests
  BY ConstantsFit, EnvironmentFits DEF AskedOK, ClocksOK, Issue
<1>2. /\ requests' = [requests EXCEPT ![nextId] = r]
      /\ left' = [left EXCEPT ![nextId] = ResponseTtl]
      /\ nextId' = nextId + 1
  BY DEF Issue
<1>3. r \in Request
  BY DEF Issuable
<1>4. requests' \in [1..MaxRequests -> Request] /\ \A i \in 1..MaxRequests : Issuable(requests'[i])
  BY <1>1, <1>2, <1>3, AskedMeans
<1>5. left' \in [1..MaxRequests -> -1..ResponseTtl] /\ nextId' \in 1..(MaxRequests + 1)
  BY <1>1, <1>2, AskedMeans, ConstantsFit
<1>6. pending' \subseteq 1..MaxRequests /\ applied' \subseteq 1..MaxRequests
  BY <1>1, AskedMeans
<1>7. AskedOnce'
  BY <1>1, <1>2, AskedMeans DEF AskedOnce
<1>8. AskedOK'
  BY <1>4, <1>5, <1>6, <1>7 DEF AskedOK, Batch, Request, Issuable, ArgsFit, Peaks
<1>9. QED
  BY <1>8

LEMMA AskedStep == ASSUME AskedOK, ClocksOK, Next PROVE AskedOK'
<1>0. nextId \in Nat /\ batch \in Batch /\ HasPeak(batch.bytes)
  BY ConstantsFit, AskedMeans
<1>1. CASE SetUp
  <2>1. PICK ok \in BOOLEAN :
              \/ \E e \in Entries : SetupAllow(e, ok)
              \/ \E p \in Data : SetupProtect(p, ok)
              \/ \E k \in Keys : BootstrapKey(k, ok)
              \/ AckSingleKey(ok)
              \/ Enable(ok)
    BY <1>1, Zenon DEF SetUp
  <2>2. UNCHANGED <<pending, batch, asked, applied>>
    BY <2>1 DEF SetupAllow, SetupProtect, BootstrapKey, AckSingleKey, Enable, Local
  <2>3. QED
    BY <2>2, FewerAsked
<1>2. CASE Recover
  <2>1. UNCHANGED <<pending, batch, asked, applied>>
    BY <1>2 DEF Recover, RecoveryStart, RecoveryComplete
  <2>2. QED
    BY <2>1, FewerAsked
<1>4. ASSUME NEW op \in ConfigOps, NEW arg \in ArgsOf(op), RequestConfig(op, arg)
      PROVE  AskedOK'
  <2> DEFINE r == [Unissued EXCEPT !.op = op, !.arg = arg]
  <2>1. arg \in Entries \cup Keys \cup Data \cup {"-"}
    BY DEF ArgsOf, ConfigOps
  <2>2. Unissued \in Request /\ HasPeak(Unissued.bytes)
    BY UnissuedFits DEF Issuable
  <2>3. r \in Request /\ r.op = op /\ r.arg = arg /\ r.bytes = Unissued.bytes
    BY <2>1, <2>2 DEF Request
  <2>4. Issuable(r)
    BY <2>2, <2>3 DEF Issuable
  <2>5. Issue(r) /\ pending' = pending \cup {nextId} /\ UNCHANGED <<applied, batch>>
    BY <1>4 DEF RequestConfig
  <2> HIDE DEF r
  <2>6. QED
    BY <1>0, <2>4, <2>5, OneIssued
<1>5. ASSUME NEW i \in 1..MaxRequests, SubmitExpired(i)
      PROVE  AskedOK'
  BY <1>5, FewerAsked DEF SubmitExpired
<1>6. ASSUME NEW i \in 1..MaxRequests, SubmitUnrecorded(i)
      PROVE  AskedOK'
  BY <1>6, FewerAsked DEF SubmitUnrecorded, Accepted
<1>7. ASSUME NEW i \in 1..MaxRequests, NEW fail \in SUBSET Dests, NEW opening \in SUBSET Dests,
             NEW rest \in SUBSET Dests, SubmitEgress(i, fail, opening, rest)
      PROVE  AskedOK'
  <2>1. /\ i \in pending /\ pending' = pending \ {i} /\ applied' = applied \cup {i}
        /\ UNCHANGED <<asked, batch>>
    BY <1>7 DEF SubmitEgress, Accepted
  <2>2. QED
    BY <2>1, OneApplied
<1>8. ASSUME NEW i \in 1..MaxRequests, NEW fail \in SUBSET Dests, NEW ok \in BOOLEAN,
             SubmitConfig(i, fail, ok)
      PROVE  AskedOK'
  <2>1. /\ i \in pending /\ pending' = pending \ {i} /\ applied' = applied \cup {i}
        /\ UNCHANGED <<asked, batch>>
    BY <1>8 DEF SubmitConfig, Accepted
  <2>2. QED
    BY <2>1, OneApplied
<1>9. CASE Observe
  <2>1. ASSUME NEW d \in Dests, NEW n \in Sizes, Hold(d, n)
        PROVE  AskedOK'
    <3>1. n \in Nat
      BY ConstantsAssumption
    <3> DEFINE more == [batch.bytes EXCEPT ![d] = IF @ >= n THEN @ ELSE n]
    <3>2. batch.bytes \in [Dests -> Nat] /\ batch.age \in 0..BundleWindow
      BY <1>0 DEF Batch
    <3>3. more \in [Dests -> Nat] /\ HasPeak(more)
      BY <1>0, <3>1, <3>2, PeakGrows
    <3>4. batch' = [open |-> TRUE, age |-> batch.age, bytes |-> more]
      BY <2>1 DEF Hold
    <3> HIDE DEF more
    <3>5. batch' \in Batch /\ HasPeak(batch'.bytes)
      BY <3>2, <3>3, <3>4 DEF Batch
    <3>6. UNCHANGED <<pending, asked, applied>>
      BY <2>1 DEF Hold
    <3>7. QED
      BY <3>5, <3>6 DEF AskedOK, AskedOnce, ArgsFit, Peaks, Batch
  <2>2. ASSUME NEW d \in Dests, NEW n \in Sizes, Meter(d, n) \/ HoldFails(d, n)
        PROVE  AskedOK'
    BY <2>2, FewerAsked DEF Meter, HoldFails
  <2>3. ASSUME NEW p \in Data, NoteProtectedTouch(p)
        PROVE  AskedOK'
    BY <2>3, FewerAsked DEF NoteProtectedTouch
  <2>4. QED
    BY <1>9, <2>1, <2>2, <2>3, Zenon DEF Observe
<1>10. ASSUME NEW fail \in SUBSET Dests, Tick(fail)
       PROVE  AskedOK'
  <2>1. CASE Seals
    <3> DEFINE r == [Unissued EXCEPT !.op = "egress", !.bytes = batch.bytes]
    <3>1. Unissued \in Request
      BY UnissuedFits DEF Issuable
    <3>2. r \in Request /\ r.op = "egress" /\ r.bytes = batch.bytes
      BY <1>0, <3>1 DEF Request, Batch
    <3>3. Issuable(r)
      BY <1>0, <3>2 DEF Issuable, ConfigOps
    <3>4. Issue(r) /\ batch' = NoBatch /\ applied' = applied /\ pending' \subseteq pending \cup {nextId}
      BY <1>10, <2>1 DEF Tick
    <3>5. NoBatch \in Batch /\ HasPeak(NoBatch.bytes)
      BY NothingHasAPeak, ConstantsFit DEF NoBatch, Batch
    <3> HIDE DEF r
    <3>6. QED
      BY <3>3, <3>4, <3>5, OneIssued
  <2>2. CASE ~Seals
    BY <1>10, <2>2, FewerAsked DEF Tick
  <2>3. QED
    BY <2>1, <2>2
<1>11. CASE Advance
  <2>1. left' \in [1..MaxRequests -> -1..ResponseTtl]
    BY <1>11, <1>0, AskedMeans, ConstantsFit DEF Advance, Less
  <2>2. batch' \in Batch /\ batch'.bytes = batch.bytes
    <3>1. batch.age \in 0..BundleWindow
      BY <1>0 DEF Batch
    <3>2. More(batch.age, BundleWindow) \in 0..BundleWindow
      BY <3>1, ConstantsFit DEF More
    <3>3. batch' = IF batch.open THEN [batch EXCEPT !.age = More(@, BundleWindow)] ELSE batch
      BY <1>11 DEF Advance
    <3>4. QED
      BY <1>0, <3>2, <3>3 DEF Batch
  <2>3. UNCHANGED <<pending, requests, nextId, applied>>
    BY <1>11 DEF Advance
  <2>4. QED
    BY <2>1, <2>2, <2>3 DEF AskedOK, AskedOnce, ArgsFit, Peaks, Batch
<1>12. CASE Corrupt
  BY <1>12, FewerAsked DEF Corrupt
<1>13. CASE Restart
  <2>1. NoBatch \in Batch /\ HasPeak(NoBatch.bytes)
    BY NothingHasAPeak, ConstantsFit DEF NoBatch, Batch
  <2>2. pending' = {} /\ batch' = NoBatch /\ UNCHANGED <<asked, applied>>
    BY <1>13 DEF Restart
  <2>3. QED
    BY <2>1, <2>2 DEF AskedOK, AskedOnce, ArgsFit, Peaks, Batch
<1>14. QED
  BY <1>1, <1>2, <1>4, <1>5, <1>6, <1>7, <1>8, <1>9, <1>10, <1>11, <1>12, <1>13, Zenon
     DEF Next, Ask, Submit, Ticks

-----------------------------------------------------------------------------
(* The enforcer, and what is passed under approvals.                       *)

LEMMA GateStarts == Init => GateOK
<1> SUFFICES ASSUME Init PROVE GateOK
  OBVIOUS
<1>1. NoGrant \in Grant /\ NoGrant.bytes = 0
  BY ConstantsFit DEF NoGrant, Grant
<1>2. QED
  BY <1>1 DEF Init, GateOK, RecordsMatchEnforcer, SpendsWithinSigned

LEMMA GateRests == ASSUME GateOK, UNCHANGED <<gate, forgotten, signed, sent>> PROVE GateOK'
  BY DEF GateOK, RecordsMatchEnforcer, SpendsWithinSigned, Closed

LEMMA NoGrantFits == NoGrant \in Grant /\ NoGrant.bytes = 0 /\ NoGrant.bytes \in Nat /\ ~NoGrant.on
  BY ConstantsFit DEF NoGrant, Grant

\* The records and the rules, after a step that opens the destinations of
\* `opens' and closes those of `closes'.
LEMMA GateMoves ==
    ASSUME GateOK, NEW opens \in SUBSET Dests, NEW closes \in SUBSET Dests,
           UNCHANGED <<forgotten, signed, sent>>,
           held' = (held \ opens) \cup closes,
           unheld' = unheld \ opens,
           blocked' = (blocked \ opens) \cup closes,
           grants' = [d \in Dests |-> IF d \in opens \cup closes THEN NoGrant ELSE grants[d]]
    PROVE  GateOK'
<1>1. grants' \in [Dests -> Grant]
  BY NoGrantFits DEF GateOK
<1>2. RecordsMatchEnforcer'
  BY DEF GateOK, RecordsMatchEnforcer, Closed
<1>3. SpendsWithinSigned'
  <2> SUFFICES ASSUME NEW d \in Dests PROVE sent[d] + grants'[d].bytes <= signed[d]
    BY DEF SpendsWithinSigned
  <2>1. grants[d].bytes \in Nat /\ sent[d] \in Nat /\ signed[d] \in Nat
    BY DEF GateOK, Grant
  <2>2. grants'[d].bytes = 0 \/ grants'[d].bytes = grants[d].bytes
    BY NoGrantFits
  <2>3. QED
    BY <2>1, <2>2 DEF GateOK, SpendsWithinSigned
<1>4. QED
  BY <1>1, <1>2, <1>3 DEF GateOK

LEMMA GateReopens ==
    ASSUME GateOK, NEW ds \in SUBSET Dests, Reopen(ds), UNCHANGED <<forgotten, signed, sent>>
    PROVE  GateOK'
<1>1. /\ held' = (held \ ds) \cup {} /\ unheld' = unheld \ ds /\ blocked' = (blocked \ ds) \cup {}
      /\ grants' = [d \in Dests |-> IF d \in ds \cup {} THEN NoGrant ELSE grants[d]]
  BY DEF Reopen
<1>2. {} \in SUBSET Dests
  OBVIOUS
<1>3. QED
  BY <1>1, <1>2, GateMoves, Zenon

\* The bytes an approval is good for: those asked for, or the threshold.
LEMMA PeakIsChosen ==
    ASSUME NEW bytes \in [Dests -> Nat], HasPeak(bytes)
    PROVE  LET dests == {d \in Dests : bytes[d] > 0}
           IN  (CHOOSE n \in {bytes[d] : d \in dests} \cup {Threshold} :
                   n >= Threshold /\ \A d \in dests : n >= bytes[d]) \in Nat
<1> DEFINE dests == {d \in Dests : bytes[d] > 0}
           Good(n) == n >= Threshold /\ \A d \in dests : n >= bytes[d]
           Some == {bytes[d] : d \in dests} \cup {Threshold}
<1>1. PICK m \in {0} \cup {bytes[c] : c \in Dests} : \A c \in Dests : bytes[c] <= m
  BY DEF HasPeak
<1>2. Some \subseteq Nat /\ m \in Nat
  BY <1>1, ConstantsFit
<1>3. \E n \in Some : Good(n)
  <2>1. CASE m <= Threshold
    <3>1. Good(Threshold)
      BY <1>1, <1>2, <2>1, ConstantsFit
    <3>2. QED
      BY <3>1
  <2>2. CASE m > Threshold
    <3>1. Good(m)
      BY <1>1, <1>2, <2>2, ConstantsFit
    <3>2. m \in Some
      BY <1>1, <1>2, <2>2, ConstantsFit
    <3>3. QED
      BY <3>1, <3>2
  <2>3. QED
    BY <1>2, <2>1, <2>2, ConstantsFit
<1>4. (CHOOSE n \in Some : Good(n)) \in Some
  BY <1>3, Zenon
<1>5. QED
  BY <1>2, <1>4, Zenon

LEMMA EgressKeeps ==
    ASSUME GateOK, AskedOK, NEW i \in 1..MaxRequests, NEW fail \in SUBSET Dests,
           NEW opening \in SUBSET Dests, NEW rest \in SUBSET Dests, SubmitEgress(i, fail, opening, rest)
    PROVE  GateOK'
<1> DEFINE dests == {d \in Dests : requests[i].bytes[d] > 0}
           listed == {d \in dests : Match(d, Listed(st))} \ rest
           given == dests \ (listed \cup rest)
           max == CHOOSE n \in {requests[i].bytes[d] : d \in dests} \cup {Threshold} :
                      n >= Threshold /\ \A d \in dests : n >= requests[i].bytes[d]
           grant == [on |-> TRUE, left |-> left[i] + GrantTtl - ResponseTtl, bytes |-> max]
           freed == (listed \cap Closed) \ fail
           opened == given \ opening
<1>1. max \in Nat
  BY PeakIsChosen, AskedMeans DEF Issuable, Request
<1>2. i \in pending /\ left[i] >= 0 /\ i \notin applied
  BY DEF SubmitEgress, Accepted, AskedOK, AskedOnce
<1> HIDE DEF max
<1>3. grant \in Grant /\ grant.on /\ grant.bytes = max
  <2>1. left[i] + GrantTtl - ResponseTtl \in 0..GrantTtl
    BY <1>2, AskedMeans, ConstantsFit
  <2>2. QED
    BY <1>1, <2>1 DEF Grant
<1>4. /\ held' = held \ (freed \cup opened)
      /\ unheld' = unheld \ freed
      /\ blocked' = blocked \ (freed \cup opened)
      /\ grants' = [d \in Dests |-> IF d \in given THEN grant
                                     ELSE IF d \in freed THEN NoGrant ELSE grants[d]]
      /\ signed' = [d \in Dests |-> signed[d] + IF d \in given /\ i \notin applied THEN max ELSE 0]
      /\ UNCHANGED <<forgotten, sent>>
  BY DEF SubmitEgress, max
<1>5. given \subseteq Dests /\ freed \subseteq Dests /\ opened \subseteq given /\ given \cap freed = {}
  OBVIOUS
<1> HIDE DEF given, freed, opened, grant
<1>6. grants' \in [Dests -> Grant]
  BY <1>3, <1>4, NoGrantFits DEF GateOK
<1>7. signed' \in [Dests -> Nat]
  BY <1>1, <1>4 DEF GateOK
<1>8. RecordsMatchEnforcer'
  BY <1>3, <1>4, <1>5 DEF GateOK, RecordsMatchEnforcer, Closed
<1>9. SpendsWithinSigned'
  <2> SUFFICES ASSUME NEW d \in Dests PROVE sent[d] + grants'[d].bytes <= signed'[d]
    BY <1>4 DEF SpendsWithinSigned
  <2>1. grants[d].bytes \in Nat /\ sent[d] \in Nat /\ signed[d] \in Nat
    BY DEF GateOK, Grant
  <2>2. sent[d] + grants[d].bytes <= signed[d]
    BY DEF GateOK, SpendsWithinSigned
  <2>3. CASE d \in given
    BY <1>1, <1>2, <1>3, <1>4, <2>1, <2>2, <2>3
  <2>4. CASE d \notin given
    <3>1. grants'[d].bytes = 0 \/ grants'[d].bytes = grants[d].bytes
      BY <1>4, <2>4, NoGrantFits
    <3>2. signed'[d] = signed[d]
      BY <1>4, <2>1, <2>4
    <3>3. QED
      BY <2>1, <2>2, <3>1, <3>2
  <2>5. QED
    BY <2>3, <2>4
<1>10. QED
  BY <1>4, <1>6, <1>7, <1>8, <1>9 DEF GateOK

LEMMA GateStep == ASSUME GateOK, AskedOK, ClocksOK, Next PROVE GateOK'
<1>1. CASE SetUp
  <2>1. PICK ok \in BOOLEAN :
              \/ \E e \in Entries : SetupAllow(e, ok)
              \/ \E p \in Data : SetupProtect(p, ok)
              \/ \E k \in Keys : BootstrapKey(k, ok)
              \/ AckSingleKey(ok)
              \/ Enable(ok)
    BY <1>1, Zenon DEF SetUp
  <2>2. UNCHANGED <<gate, forgotten, signed, sent>>
    BY <2>1 DEF SetupAllow, SetupProtect, BootstrapKey, AckSingleKey, Enable, Local
  <2>3. QED
    BY <2>2, GateRests
<1>2. ASSUME NEW ok \in BOOLEAN, RecoveryStart(ok)
      PROVE  GateOK'
  BY <1>2, GateRests DEF RecoveryStart
<1>3. ASSUME NEW ok \in BOOLEAN, NEW fail \in SUBSET Dests, RecoveryComplete(fail, ok)
      PROVE  GateOK'
  <2>1. Closed \ fail \in SUBSET Dests
    BY DEF GateOK, Closed
  <2>2. Reopen(Closed \ fail) /\ UNCHANGED <<forgotten, signed, sent>>
    BY <1>3, Zenon DEF RecoveryComplete
  <2>3. QED
    BY <2>1, <2>2, GateReopens
<1>4. CASE Ask
  BY <1>4, GateRests DEF Ask, RequestConfig
<1>5. ASSUME NEW i \in 1..MaxRequests, SubmitExpired(i) \/ SubmitUnrecorded(i)
      PROVE  GateOK'
  BY <1>5, GateRests DEF SubmitExpired, SubmitUnrecorded
<1>7. ASSUME NEW i \in 1..MaxRequests, NEW fail \in SUBSET Dests, NEW opening \in SUBSET Dests,
             NEW rest \in SUBSET Dests, SubmitEgress(i, fail, opening, rest)
      PROVE  GateOK'
  BY <1>7, EgressKeeps
<1>8. ASSUME NEW i \in 1..MaxRequests, NEW fail \in SUBSET Dests, NEW ok \in BOOLEAN,
             SubmitConfig(i, fail, ok)
      PROVE  GateOK'
  <2> DEFINE ds == Opened(requests[i].op, requests[i].arg) \ fail
  <2>1. ds \in SUBSET Dests
    <3>1. Closed \in SUBSET Dests
      BY DEF GateOK, Closed
    <3>2. requests[i].op \in ConfigOps
      BY <1>8 DEF SubmitConfig
    <3>3. QED
      BY <3>1, <3>2 DEF Opened
  <2>2. Reopen(ds) /\ UNCHANGED <<forgotten, signed, sent>>
    BY <1>8 DEF SubmitConfig
  <2> HIDE DEF ds
  <2>3. QED
    BY <2>1, <2>2, GateReopens
<1>9. CASE Observe
  <2>1. ASSUME NEW d \in Dests, NEW n \in Sizes, Meter(d, n)
        PROVE  GateOK'
    <3>1. n \in Nat /\ n > 0
      BY ConstantsAssumption
    <3>2. grants[d].bytes \in Nat /\ grants[d].bytes >= n /\ sent[d] \in Nat
      BY <2>1 DEF Meter, Approved, GateOK, Grant
    <3>3. /\ grants' = [grants EXCEPT ![d].bytes = @ - n] /\ sent' = [sent EXCEPT ![d] = @ + n]
          /\ UNCHANGED <<held, unheld, blocked, forgotten, signed>>
      BY <2>1 DEF Meter
    <3>4. grants[d].bytes - n \in Nat /\ sent[d] + n \in Nat
      BY <3>1, <3>2
    <3>5. /\ grants' \in [Dests -> Grant] /\ sent' \in [Dests -> Nat]
          /\ \A c \in Dests : grants'[c].on = grants[c].on
      BY <3>3, <3>4 DEF GateOK, Grant
    <3>6. RecordsMatchEnforcer'
      BY <3>3, <3>5 DEF GateOK, RecordsMatchEnforcer, Closed
    <3>7. SpendsWithinSigned'
      <4> SUFFICES ASSUME NEW c \in Dests PROVE sent'[c] + grants'[c].bytes <= signed[c]
        BY <3>3 DEF SpendsWithinSigned
      <4>1. sent'[c] + grants'[c].bytes = sent[c] + grants[c].bytes
        <5>1. CASE c = d
          BY <3>1, <3>2, <3>3, <5>1 DEF GateOK, Grant
        <5>2. CASE c # d
          BY <3>3, <5>2 DEF GateOK
        <5>3. QED
          BY <5>1, <5>2
      <4>2. QED
        BY <4>1 DEF GateOK, SpendsWithinSigned
    <3>8. QED
      BY <3>3, <3>5, <3>6, <3>7 DEF GateOK
  <2>2. ASSUME NEW d \in Dests, NEW n \in Sizes, Hold(d, n)
        PROVE  GateOK'
    <3>1. /\ held' = held \cup {d}
          /\ unheld' = IF d \in held THEN unheld ELSE unheld \ {d}
          /\ blocked' = IF d \in held THEN blocked ELSE blocked \cup {d}
          /\ grants' = [grants EXCEPT ![d] = NoGrant]
          /\ UNCHANGED <<forgotten, signed, sent>>
      BY <2>2 DEF Hold
    <3>2. grants' \in [Dests -> Grant]
      BY <3>1, NoGrantFits DEF GateOK
    <3>3. RecordsMatchEnforcer'
      BY <3>1 DEF GateOK, RecordsMatchEnforcer, Closed
    <3>4. SpendsWithinSigned'
      <4> SUFFICES ASSUME NEW c \in Dests PROVE sent[c] + grants'[c].bytes <= signed[c]
        BY <3>1 DEF SpendsWithinSigned
      <4>1. grants[c].bytes \in Nat /\ sent[c] \in Nat /\ signed[c] \in Nat
        BY DEF GateOK, Grant
      <4>2. grants'[c].bytes = 0 \/ grants'[c].bytes = grants[c].bytes
        BY <3>1, NoGrantFits DEF GateOK
      <4>3. QED
        BY <4>1, <4>2 DEF GateOK, SpendsWithinSigned
    <3>5. QED
      BY <3>1, <3>2, <3>3, <3>4 DEF GateOK
  <2>3. ASSUME NEW d \in Dests, NEW n \in Sizes, HoldFails(d, n)
        PROVE  GateOK'
    BY <2>3 DEF HoldFails, GateOK, RecordsMatchEnforcer, SpendsWithinSigned, Closed
  <2>4. ASSUME NEW p \in Data, NoteProtectedTouch(p)
        PROVE  GateOK'
    BY <2>4, GateRests DEF NoteProtectedTouch
  <2>5. QED
    BY <1>9, <2>1, <2>2, <2>3, <2>4, Zenon DEF Observe
<1>10. ASSUME NEW fail \in SUBSET Dests, Tick(fail)
       PROVE  GateOK'
  <2> DEFINE freed == ToRelease \ fail
             closing == ToClose \ fail
  <2>1. freed \in SUBSET Dests /\ closing \in SUBSET Dests
    BY DEF ToRelease, ToClose, GateOK, Closed
  <2>2. /\ held' = (held \ freed) \cup closing
        /\ unheld' = unheld \ freed
        /\ grants' = [d \in Dests |-> IF d \in freed \cup closing THEN NoGrant ELSE grants[d]]
        /\ blocked' = (blocked \ freed) \cup closing
        /\ UNCHANGED <<forgotten, signed, sent>>
    BY <1>10 DEF Tick
  <2> HIDE DEF freed, closing
  <2>3. QED
    BY <2>1, <2>2, GateMoves
<1>11. CASE Advance
  <2>1. /\ grants' = [d \in Dests |-> [grants[d] EXCEPT !.left = Less(@, 0)]]
        /\ UNCHANGED <<held, unheld, blocked, forgotten, signed, sent>>
    BY <1>11 DEF Advance
  <2>2. ASSUME NEW d \in Dests
        PROVE  grants'[d] \in Grant /\ grants'[d].on = grants[d].on /\ grants'[d].bytes = grants[d].bytes
    <3>1. grants[d] \in Grant /\ Less(grants[d].left, 0) \in 0..GrantTtl
      BY ConstantsFit DEF GateOK, Grant, Less
    <3>2. grants'[d] = [grants[d] EXCEPT !.left = Less(grants[d].left, 0)]
      BY <2>1
    <3>3. QED
      BY <3>1, <3>2 DEF Grant
  <2>3. grants' \in [Dests -> Grant]
    BY <2>1, <2>2
  <2>4. QED
    BY <2>1, <2>2, <2>3 DEF GateOK, RecordsMatchEnforcer, SpendsWithinSigned, Closed
<1>12. CASE Corrupt
  BY <1>12, GateRests DEF Corrupt
<1>13. CASE Restart
  <2>1. /\ grants' = [d \in Dests |-> NoGrant] /\ held' = {} /\ unheld' = {}
        /\ forgotten' = forgotten \cup blocked
        /\ UNCHANGED <<blocked, signed, sent>>
    BY <1>13 DEF Restart
  <2>2. grants' \in [Dests -> Grant]
    BY <2>1, NoGrantFits
  <2>3. SpendsWithinSigned'
    BY <2>1, NoGrantFits DEF GateOK, SpendsWithinSigned, Grant
  <2>4. QED
    BY <2>1, <2>2, <2>3 DEF GateOK, RecordsMatchEnforcer
<1>14. QED
  BY <1>1, <1>2, <1>3, <1>4, <1>5, <1>7, <1>8, <1>9, <1>10, <1>11, <1>12, <1>13, Zenon
     DEF Next, Recover, Submit, Ticks

-----------------------------------------------------------------------------
(* The theorems. *)

LEMMA Invariant == Spec => []Inv
<1>1. Init => Inv
  BY FileStarts, GateStarts, AskedStarts, ClocksStart DEF Inv
<1>2. Inv /\ [Next]_vars => Inv'
  <2>1. ASSUME Inv, Next PROVE Inv'
    BY <2>1, FileStep, GateStep, AskedStep, ClocksStep DEF Inv
  <2>2. ASSUME Inv, UNCHANGED vars PROVE Inv'
    BY <2>2 DEF Inv, FileOK, GateOK, AskedOK, ClocksOK, vars, TwoKeysKept, RecoveryIsAged,
                RecordsMatchEnforcer, SpendsWithinSigned, Closed, AskedOnce, ArgsFit, Peaks
  <2>3. QED
    BY <2>1, <2>2
<1>3. QED
  BY <1>1, <1>2, PTL DEF Spec

(***************************************************************************)
(* The engine keeps two approver keys while approval is ON, on file as in  *)
(* memory, and its record of what it closed agrees with the enforcer,      *)
(* across failing writes, failing enforcer calls and restarts.             *)
(***************************************************************************)
THEOREM EngineInvariant == Spec => []EngineInv
<1>1. Inv => EngineInv
  BY DEF Inv, FileOK, GateOK, AskedOK, ClocksOK, EngineInv, TypeOK
<1>2. QED
  BY <1>1, Invariant, PTL

(***************************************************************************)
(* A destination is passed no more bytes than were signed for it.          *)
(***************************************************************************)
THEOREM SpendsAreSigned == Spec => []SpendsWithinSigned
<1>1. Inv => SpendsWithinSigned
  BY DEF Inv, GateOK
<1>2. QED
  BY <1>1, Invariant, PTL

\* Only a restart, or a recovery at the end of its wait, empties the registry.
LEMMA KeysGo ==
    ASSUME Inv, Next, st.keys # {}, st'.keys = {}, restarts' = restarts
    PROVE  st.recovery = RecoveryWait
<1>0. st \in States
  BY DEF Inv, FileOK
<1> SUFFICES ASSUME st.recovery # RecoveryWait PROVE FALSE
  OBVIOUS
<1>1. CASE SetUp
  <2>1. PICK ok \in BOOLEAN :
              \/ \E e \in Entries : SetupAllow(e, ok)
              \/ \E p \in Data : SetupProtect(p, ok)
              \/ \E k \in Keys : BootstrapKey(k, ok)
              \/ AckSingleKey(ok)
              \/ Enable(ok)
    BY <1>1, Zenon DEF SetUp
  <2>2. QED
    BY <1>0, <2>1 DEF SetupAllow, SetupProtect, BootstrapKey, AckSingleKey, Enable, Local, Record, States
<1>2. CASE Recover
  BY <1>0, <1>2 DEF Recover, RecoveryStart, RecoveryComplete, Record, States
<1>4. CASE Ask
  BY <1>4 DEF Ask, RequestConfig
<1>5. ASSUME NEW i \in 1..MaxRequests, SubmitExpired(i)
      PROVE  FALSE
  BY <1>5 DEF SubmitExpired
<1>6. ASSUME NEW i \in 1..MaxRequests, st' = Used(i)
      PROVE  FALSE
  BY <1>0, <1>6 DEF Used, States
<1>8. ASSUME NEW i \in 1..MaxRequests, NEW fail \in SUBSET Dests, NEW ok \in BOOLEAN,
             SubmitConfig(i, fail, ok)
      PROVE  FALSE
  <2> DEFINE r == requests[i]
             s == Used(i)
  <2>1. s \in States /\ s.keys = st.keys
    BY <1>0 DEF Used, States
  <2>2. st' = Changed(r.op, r.arg, s) /\ r.op \in ConfigOps
    BY <1>8 DEF SubmitConfig
  <2> HIDE DEF s, r
  <2>3. s.keys \in SUBSET Keys
    BY <2>1 DEF States
  <2>4. CASE r.op = "key_remove"
    <3>1. st'.keys = IF Cardinality(s.keys) > 1 THEN s.keys \ {r.arg} ELSE s.keys
      BY <2>1, <2>2, <2>4 DEF Changed, Cancelled, States
    <3>2. Cardinality(s.keys) > 1 /\ s.keys \ {r.arg} = {}
      BY <2>1, <3>1
    <3>3. s.keys = {r.arg}
      BY <2>1, <3>2
    <3>4. Cardinality({r.arg}) = 1
      BY FS_Singleton
    <3>5. QED
      BY <3>2, <3>3, <3>4
  <2>5. CASE r.op # "key_remove"
    <3>1. s.keys \subseteq Changed(r.op, r.arg, s).keys
      BY <2>1, <2>2, <2>5 DEF Changed, Cancelled, States, ConfigOps
    <3>2. QED
      BY <2>1, <2>2, <3>1
  <2>6. QED
    BY <2>4, <2>5
<1>9. CASE Observe
  BY <1>9 DEF Observe, Meter, Hold, HoldFails, NoteProtectedTouch
<1>10. CASE Ticks \/ Corrupt
  BY <1>10 DEF Ticks, Tick, Corrupt
<1>11. CASE Advance
  BY <1>0, <1>11 DEF Advance, Older, States
<1>13. CASE Restart
  BY <1>13 DEF Restart, Inv, ClocksOK
<1>14. CASE Submit
  <2>1. \A i \in 1..MaxRequests : SubmitUnrecorded(i) => st' = Used(i)
    BY DEF SubmitUnrecorded, Record
  <2>2. \A i \in 1..MaxRequests, fail, opening, rest \in SUBSET Dests :
            SubmitEgress(i, fail, opening, rest) => st' = Used(i)
    BY DEF SubmitEgress, Record
  <2>3. QED
    BY <1>5, <1>6, <1>8, <1>14, <2>1, <2>2, Zenon DEF Submit
<1>15. QED
  BY <1>1, <1>2, <1>4, <1>9, <1>10, <1>11, <1>13, <1>14, Zenon DEF Next

(***************************************************************************)
(* A recovery empties the registry only when the whole wait has gone by    *)
(* since the last start, and since the last signed change, on file.        *)
(***************************************************************************)
THEOREM RecoveryWaits == Spec => RecoveryIsQuiet
<1>1. ASSUME Inv, [Next]_vars
      PROVE  [st.keys # {} /\ st'.keys = {} /\ restarts' = restarts => quiet = RecoveryWait]_vars
  <2>1. CASE Next
    <3>1. SUFFICES ASSUME st.keys # {}, st'.keys = {}, restarts' = restarts
                   PROVE  quiet = RecoveryWait
      OBVIOUS
    <3>2. st.recovery = RecoveryWait
      BY <1>1, <2>1, <3>1, KeysGo
    <3>3. st.recovery <= quiet /\ quiet \in 0..RecoveryWait
      BY <1>1 DEF Inv, FileOK, RecoveryIsAged
    <3>4. QED
      BY <3>2, <3>3, ConstantsFit
  <2>2. CASE UNCHANGED vars
    BY <2>2
  <2>3. QED
    BY <1>1, <2>1, <2>2
<1>2. QED
  BY <1>1, Invariant, PTL DEF Spec, RecoveryIsQuiet
=============================================================================
