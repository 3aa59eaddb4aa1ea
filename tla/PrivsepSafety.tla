----------------------------- MODULE PrivsepSafety -----------------------------
(***************************************************************************)
(* Proofs of the privileged daemon's safety properties, for every value of *)
(* its constants: its types first, then each property with the             *)
(* strengthening it needs:                                                 *)
(*   PolicyCovered      what an enabled switch says of `covered';          *)
(*   StatusOnWasOn      is inductive, given the types;                     *)
(*   ConfigIsSigned     what is known of the approval that acts: it is used *)
(*                      up on disk, current, and the data is what it signed; *)
(*   ActsOnIssuedState  what `bound' and `at' of a request have in common; *)
(*   AuthorityStays     memory has a key when the registry on disk has one; *)
(*   OnlyOwnDisplaced   ids are given once, and `owner' names the uid that  *)
(*                      asked for every request that is still pending;     *)
(*   TamperCutIsReal    what `differed', a strike and the thread's copy of *)
(*                      the watched file say of the last period.           *)
(***************************************************************************)
EXTENDS Privsep, FiniteSetTheorems, TLAPS

USE ConstantsAssumption
USE DEF lock, switch, registry, asked, count, check, server, watch, limits

\* Type correctness of everything but the history of the two windows.
CoreTypeOK ==
    /\ FilesTypeOK
    /\ MemoryTypeOK
    /\ OutsideTypeOK
    /\ acts \in Nat
    /\ covered \in Configs \cup {"none"}

-----------------------------------------------------------------------------
(* Types: the requests. *)

LEMMA RequestTyped ==
    ASSUME NEW r \in Requests
    PROVE  /\ r.id \in Nat
           /\ r.op \in AdminOps
           /\ r.op \in {"key_add", "key_remove"} => r.arg \in Keys
           /\ r.op = "tamper_set" => r.arg \in {"off", "full"}
           /\ r.op = "config_set" => r.arg \in Configs
<1>1. r.id \in Nat /\ r.op \in AdminOps /\ r.arg \in ArgsOf(r.op)
  BY DEF Requests
<1>2. QED
  BY <1>1 DEF ArgsOf

\* What a challenge adds to the pending requests is a request.
LEMMA ChallengeTyped ==
    ASSUME TypeOK, NEW u \in Uids, NEW o \in AdminOps, NEW a \in ArgsOf(o), Challenge(u, o, a)
    PROVE  CoreTypeOK'
<1> DEFINE new == [id |-> nextId, uid |-> u, op |-> o, arg |-> a, bound |-> Bindings(o),
                   at |-> [acts |-> acts, config |-> config, ledger |-> ledger]]
<1> USE DEF TypeOK, FilesTypeOK, MemoryTypeOK, OutsideTypeOK, HistoryTypeOK
<1>1. a \in Args
  BY DEF ArgsOf, Args
<1>2. Bindings(o) \in [gen : Nat, config : SUBSET (Configs \cup {NoConfig}), ledger : SUBSET Nat]
  BY DEF Bindings
<1>3. new \in Requests
  BY <1>1, <1>2 DEF Requests
<1>4. pending' = (pending \ Displaced(u)) \cup {new}
  BY DEF Challenge
<1> HIDE DEF new
<1>5. pending' \subseteq Requests
  BY <1>3, <1>4
<1>6. nextId' \in Nat
  BY DEF Challenge
<1>7. DOMAIN owner' \subseteq Nat /\ owner' \in [DOMAIN owner' -> Uids]
  <2>1. owner' = OwnerWith(u)
    BY DEF Challenge
  <2>2. DOMAIN OwnerWith(u) \subseteq Nat
    BY DEF OwnerWith
  <2>3. OwnerWith(u) \in [DOMAIN OwnerWith(u) -> Uids]
    BY DEF OwnerWith
  <2>4. QED
    BY <2>1, <2>2, <2>3
<1>8. QED
  BY <1>5, <1>6, <1>7 DEF Challenge, CoreTypeOK, Free

\* Submitting and applying an approval.
LEMMA ApprovalTyped ==
    ASSUME TypeOK,
           \/ \E r \in pending, k \in Keys : Submit(r, k)
           \/ \E r \in pending : SubmitExpired(r)
           \/ Apply
    PROVE  CoreTypeOK'
<1> USE DEF TypeOK, FilesTypeOK, MemoryTypeOK, OutsideTypeOK, HistoryTypeOK
<1>1. ASSUME NEW r \in pending, NEW k \in Keys, Submit(r, k)
      PROVE  CoreTypeOK'
  <2>1. r \in Requests /\ r.id \in Nat
    BY RequestTyped
  <2>2. state' \in [keys : SUBSET Keys, used : SUBSET Nat]
    BY <1>1, <2>1 DEF Submit
  <2>3. QED
    BY <1>1, <2>1, <2>2 DEF Submit, CoreTypeOK, Free, Steps, WriteFails
<1>2. ASSUME NEW r \in pending, SubmitExpired(r)
      PROVE  CoreTypeOK'
  BY <1>2 DEF SubmitExpired, CoreTypeOK, Free
<1>3. ASSUME Apply
      PROVE  CoreTypeOK'
  BY <1>3 DEF Apply, CoreTypeOK, Done, Steps, WriteFails
<1>4. QED
  BY <1>1, <1>2, <1>3

-----------------------------------------------------------------------------
(* Types: the operations. *)

\* Writing the switch.
LEMMA SwitchTyped ==
    ASSUME TypeOK, WriteSwitch(FALSE) \/ (WriteSwitch(TRUE) /\ config # NoConfig)
    PROVE  /\ perm' \in [enabled : BOOLEAN, policy : Policies]
           /\ covered' \in Configs \cup {"none"}
           /\ failures' \in Nat
<1> USE DEF TypeOK, FilesTypeOK, OutsideTypeOK, HistoryTypeOK
<1>1. CASE UNCHANGED <<perm, covered>> /\ WriteFails
  BY <1>1 DEF WriteFails
<1>2. CASE perm' = Perm(TRUE, config) /\ covered' = config /\ config # NoConfig /\ UNCHANGED failures
  BY <1>2 DEF Perm, Policies
<1>3. CASE perm' = Perm(FALSE, config) /\ covered' = "none" /\ UNCHANGED failures
  BY <1>3 DEF Perm, Policies
<1>4. QED
  BY <1>1, <1>2, <1>3 DEF WriteSwitch

LEMMA ActTyped ==
    ASSUME TypeOK, Act
    PROVE  CoreTypeOK'
<1> USE DEF TypeOK, FilesTypeOK, MemoryTypeOK, OutsideTypeOK, HistoryTypeOK, CoreTypeOK, Steps
<1>1. CASE ActRestore
  BY <1>1 DEF ActRestore, Recorded, Done
<1>2. CASE ActKeys
  <2>1. cur.arg \in Keys
    BY <1>2, RequestTyped DEF ActKeys, Acting
  <2>2. state' \in [keys : SUBSET Keys, used : SUBSET Nat]
    BY <1>2, <2>1 DEF ActKeys, Removed
  <2>3. QED
    BY <1>2, <2>2 DEF ActKeys, Done, WriteFails
<1>3. CASE ActAuto
  <2>1. CASE UNCHANGED <<perm, covered, failures>>
    BY <1>3, <2>1 DEF ActAuto, Done
  <2>2. CASE WriteSwitch(TRUE) /\ config # NoConfig
    <3>1. /\ perm' \in [enabled : BOOLEAN, policy : Policies]
          /\ covered' \in Configs \cup {"none"}
          /\ failures' \in Nat
      BY <2>2, SwitchTyped
    <3>2. QED
      BY <1>3, <3>1 DEF ActAuto, Done
  <2>3. CASE WriteSwitch(FALSE)
    BY <1>3, <2>3, SwitchTyped DEF ActAuto, Done
  <2>4. QED
    BY <1>3, <2>1, <2>2, <2>3 DEF ActAuto
<1>4. CASE ActTamperSet
  <2>1. cur.arg \in {"off", "full"}
    BY <1>4, RequestTyped DEF ActTamperSet, Acting
  <2>2. action' \in {"off", "full"} /\ acted' \in BOOLEAN /\ failures' \in Nat
    <3>1. CASE action' = cur.arg /\ acted' = FALSE /\ UNCHANGED failures
      BY <2>1, <3>1
    <3>2. CASE WriteFails /\ UNCHANGED <<action, acted>>
      BY <3>2 DEF WriteFails
    <3>3. QED
      BY <1>4, <3>1, <3>2, Zenon DEF ActTamperSet
  <2>3. QED
    BY <1>4, <2>2 DEF ActTamperSet, Done
<1>5. CASE ActStop
  BY <1>5 DEF ActStop, Done
<1>6. CASE ReadStaged
  <2>1. cur.arg \in Configs
    BY <1>6, RequestTyped DEF ReadStaged, Acting
  <2>2. QED
    BY <1>6, <2>1 DEF ReadStaged, Acting, Done
<1>7. CASE Install
  <2>1. data \in Configs
    BY <1>7 DEF Install
  <2>2. QED
    BY <1>7, <2>1 DEF Install, Content, Done, WriteFails
<1>8. CASE AutoOff
  <2>1. /\ perm' \in [enabled : BOOLEAN, policy : Policies]
        /\ covered' \in Configs \cup {"none"}
        /\ failures' \in Nat
    <3>1. WriteSwitch(FALSE)
      BY <1>8 DEF AutoOff
    <3>2. QED
      BY <3>1, SwitchTyped
  <2>2. QED
    BY <1>8, <2>1 DEF AutoOff, Done
<1>9. QED
  BY <1>1, <1>2, <1>3, <1>4, <1>5, <1>6, <1>7, <1>8 DEF Act

-----------------------------------------------------------------------------
(* Types: the other requests, the tamper check, the world. *)

LEMMA OtherTyped ==
    ASSUME TypeOK,
           \/ \E k \in Keys : BootstrapKey(k)
           \/ Cut \/ StatusRead \/ StatusReply \/ Answer \/ AnswerOther
    PROVE  CoreTypeOK'
<1> USE DEF TypeOK, FilesTypeOK, MemoryTypeOK, OutsideTypeOK, HistoryTypeOK, CoreTypeOK
<1>1. ASSUME NEW k \in Keys, BootstrapKey(k)
      PROVE  CoreTypeOK'
  <2>1. state' \in [keys : SUBSET Keys, used : SUBSET Nat]
    BY <1>1 DEF BootstrapKey
  <2>2. QED
    BY <1>1, <2>1 DEF BootstrapKey, WriteFails
<1>2. CASE Cut
  BY <1>2 DEF Cut, Recorded
<1>3. CASE StatusRead
  BY <1>3 DEF StatusRead
<1>4. CASE StatusReply
  BY <1>4 DEF StatusReply
<1>5. CASE Answer
  <2>1. answering' \in BOOLEAN /\ closing' \in BOOLEAN
    BY <1>5, Zenon DEF Answer
  <2>2. QED
    BY <1>5, <2>1 DEF Answer
<1>6. CASE AnswerOther
  <2>1. closing' \in BOOLEAN
    BY <1>6, Zenon DEF AnswerOther, AfterReply
  <2>2. QED
    BY <1>6, <2>1 DEF AnswerOther
<1>7. QED
  BY <1>1, <1>2, <1>3, <1>4, <1>5, <1>6

LEMMA TamperTyped ==
    ASSUME TypeOK, TamperRead \/ CheckTamper
    PROVE  CoreTypeOK'
<1> USE DEF TypeOK, FilesTypeOK, MemoryTypeOK, OutsideTypeOK, HistoryTypeOK, CoreTypeOK
<1>1. CASE TamperRead
  BY <1>1 DEF TamperRead, Contents
<1>2. CASE CheckTamper
  <2>1. ledger' \in Nat
    BY <1>2 DEF CheckTamper, Recorded
  <2>2. strikes' \in 0 .. 2
    BY <1>2 DEF CheckTamper
  <2>3. acted' \in BOOLEAN
    BY <1>2, Zenon DEF CheckTamper
  <2>4. QED
    BY <1>2, <2>1, <2>2, <2>3 DEF CheckTamper
<1>3. QED
  BY <1>1, <1>2

LEMMA LoseMemoryTyped ==
    ASSUME TypeOK, LoseMemory, run' \in {"up", "down", "stopped"}
    PROVE  MemoryTypeOK'
<1>1. state' \in [keys : SUBSET Keys, used : SUBSET Nat]
  BY DEF LoseMemory, TypeOK, FilesTypeOK
<1>2. pending' \subseteq Requests /\ cur' \in Requests \cup {NoRequest}
  BY DEF LoseMemory, Done
<1>3. step' = "free" /\ data' = "none" /\ strikes' = 0
  BY DEF LoseMemory, Done
<1>4. seen' = "never" /\ theirs' = "none" /\ reading' = "none"
  BY DEF LoseMemory
<1>5. stopping' \in BOOLEAN /\ answering' \in BOOLEAN /\ closing' \in BOOLEAN /\ acted' \in BOOLEAN
  BY Zenon DEF LoseMemory
<1>6. DOMAIN owner' \subseteq Nat /\ owner' \in [DOMAIN owner' -> Uids]
  BY DEF LoseMemory
<1>7. QED
  BY <1>1, <1>2, <1>3, <1>4, <1>5, <1>6 DEF Steps, MemoryTypeOK

LEMMA WorldTyped ==
    ASSUME TypeOK, World
    PROVE  CoreTypeOK'
<1> USE DEF TypeOK, FilesTypeOK, MemoryTypeOK, OutsideTypeOK, HistoryTypeOK, CoreTypeOK, Steps
<1>1. CASE Crash
  <2>1. MemoryTypeOK'
    BY <1>1, LoseMemoryTyped DEF Crash
  <2>2. FilesTypeOK' /\ OutsideTypeOK'
    BY <1>1 DEF Crash
  <2>3. QED
    BY <1>1, <2>1, <2>2 DEF Crash
<1>2. CASE Shutdown
  <2>1. MemoryTypeOK'
    BY <1>2, LoseMemoryTyped DEF Shutdown
  <2>2. FilesTypeOK' /\ OutsideTypeOK'
    BY <1>2 DEF Shutdown
  <2>3. QED
    BY <1>2, <2>1, <2>2 DEF Shutdown
<1>3. CASE FallSilent
  BY <1>3 DEF FallSilent
<1>4. ASSUME NEW c \in Configs \cup {"unreadable"}, EditWatchFile(c)
      PROVE  CoreTypeOK'
  BY <1>4 DEF EditWatchFile
<1>5. CASE Restart
  BY <1>5 DEF Restart
<1>6. QED
  BY <1>1, <1>2, <1>3, <1>4, <1>5 DEF World

\* Every step keeps the history.
LEMMA HistorySteps ==
    ASSUME Next
    PROVE  SameWindow \/ NextWindow \/ FirstWindow
<1>1. ASSUME Request
      PROVE  SameWindow
  BY <1>1, Zenon DEF Request, Challenge, Submit, SubmitExpired, BootstrapKey, Cut, StatusRead, StatusReply,
                    Answer, AnswerOther
<1>2. ASSUME Apply \/ TamperRead
      PROVE  SameWindow
  BY <1>2, Zenon DEF Apply, TamperRead
<1>3. ASSUME Act
      PROVE  SameWindow
  BY <1>3, Zenon DEF Act, ActRestore, ActKeys, ActAuto, ActTamperSet, ActStop, ReadStaged, Install, AutoOff
<1>4. ASSUME World
      PROVE  SameWindow \/ FirstWindow
  BY <1>4, Zenon DEF World, Crash, Shutdown, Restart, FallSilent, EditWatchFile
<1>5. ASSUME CheckTamper
      PROVE  NextWindow
  BY <1>5, Zenon DEF CheckTamper
<1>6. QED
  BY <1>1, <1>2, <1>3, <1>4, <1>5, Zenon DEF Next

LEMMA StepRemembers ==
    ASSUME Next
    PROVE  Remember
BY HistorySteps, Zenon DEF SameWindow, NextWindow, FirstWindow

LEMMA HistoryTyped ==
    ASSUME TypeOK, Next
    PROVE  wasOn' \in BOOLEAN /\ differed' \in BOOLEAN /\ before' \in BOOLEAN
<1>1. wasOn' \in BOOLEAN
  BY StepRemembers, Zenon DEF Remember
<1>2. differed' \in BOOLEAN
  BY HistorySteps, Zenon DEF SameWindow, NextWindow, FirstWindow, Differs
<1>3. before' \in BOOLEAN
  BY HistorySteps, Zenon DEF SameWindow, NextWindow, FirstWindow, TypeOK, HistoryTypeOK
<1>4. QED
  BY <1>1, <1>2, <1>3

-----------------------------------------------------------------------------

LEMMA InitTypeOK == Init => TypeOK
<1> SUFFICES ASSUME Init PROVE TypeOK
  OBVIOUS
<1>1. FilesTypeOK
  BY DEF Init, FilesTypeOK, NoPerm, Policies
<1>2. MemoryTypeOK
  <2>1. state \in [keys : SUBSET Keys, used : SUBSET Nat]
    BY DEF Init
  <2>2. pending \subseteq Requests /\ cur \in Requests \cup {NoRequest}
    BY DEF Init
  <2>3. run = "up" /\ step = "free" /\ data = "none" /\ strikes = 0
    BY DEF Init
  <2>4. seen = "never" /\ theirs = "none" /\ reading = "none"
    BY DEF Init
  <2>5. stopping \in BOOLEAN /\ answering \in BOOLEAN /\ closing \in BOOLEAN /\ acted \in BOOLEAN
    BY Zenon DEF Init
  <2>6. DOMAIN owner \subseteq Nat /\ owner \in [DOMAIN owner -> Uids]
    BY DEF Init
  <2>7. QED
    BY <2>1, <2>2, <2>3, <2>4, <2>5, <2>6 DEF MemoryTypeOK, Steps
<1>3. OutsideTypeOK
  BY DEF Init, OutsideTypeOK
<1>4. differed \in BOOLEAN
  BY Zenon DEF Init, Differs
<1>5. HistoryTypeOK
  BY <1>4 DEF Init, HistoryTypeOK
<1>6. QED
  BY <1>1, <1>2, <1>3, <1>5 DEF TypeOK

LEMMA StepTypeOK ==
    ASSUME TypeOK, [Next]_vars
    PROVE  TypeOK'
<1>1. CASE UNCHANGED vars
  BY <1>1 DEF TypeOK, FilesTypeOK, MemoryTypeOK, OutsideTypeOK, HistoryTypeOK,
              vars
<1>2. CASE Next
  <2>1. CoreTypeOK'
    BY <1>2, ChallengeTyped, ApprovalTyped, ActTyped, OtherTyped, TamperTyped, WorldTyped
    DEF Next, Request
  <2>2. wasOn' \in BOOLEAN /\ differed' \in BOOLEAN /\ before' \in BOOLEAN
    BY <1>2, HistoryTyped, Zenon DEF Next
  <2>3. QED
    BY <2>1, <2>2 DEF CoreTypeOK, TypeOK, HistoryTypeOK
<1>3. QED
  BY <1>1, <1>2

(***************************************************************************)
(* Type correctness of the privileged daemon's model.                      *)
(***************************************************************************)
THEOREM DaemonTypeCorrect == Spec => []TypeOK
<1>1. QED
  BY InitTypeOK, StepTypeOK, PTL DEF Spec

-----------------------------------------------------------------------------
(* What the steps do to the switch, the ledger and the approvals.          *)

\* What a step can do to the files, as far as auto-cut is concerned: every
\* action but these two leaves the switch alone.
LEMMA SwitchSteps ==
    ASSUME TypeOK, Next
    PROVE  \/ UNCHANGED <<perm, covered>>
           \/ /\ perm' = Perm(FALSE, config) /\ covered' = "none"
              /\ UNCHANGED <<config, reading>>
           \/ /\ perm' = Perm(TRUE, config) /\ covered' = config
              /\ config # NoConfig
              /\ UNCHANGED <<config, reading>>
<1>1. ASSUME NEW u \in Uids, NEW o \in AdminOps, NEW a \in ArgsOf(o), Challenge(u, o, a)
      PROVE  UNCHANGED <<perm, covered>>
  BY <1>1 DEF Challenge
<1>2. ASSUME NEW r \in pending, NEW k \in Keys, Submit(r, k)
      PROVE  UNCHANGED <<perm, covered>>
  BY <1>2 DEF Submit
<1>3. ASSUME NEW r \in pending, SubmitExpired(r)
      PROVE  UNCHANGED <<perm, covered>>
  BY <1>3 DEF SubmitExpired
<1>4. ASSUME NEW k \in Keys, BootstrapKey(k)
      PROVE  UNCHANGED <<perm, covered>>
  BY <1>4 DEF BootstrapKey
<1>5. CASE Cut \/ StatusRead \/ StatusReply \/ Answer \/ AnswerOther \/ Apply \/ TamperRead \/ CheckTamper
  BY <1>5 DEF Cut, StatusRead, StatusReply, Answer, AnswerOther, Apply, TamperRead, CheckTamper
<1>6. CASE ActRestore \/ ActKeys \/ ActTamperSet \/ ActStop \/ ReadStaged \/ Install
  BY <1>6 DEF ActRestore, ActKeys, ActTamperSet, ActStop, ReadStaged, Install
<1>7. CASE ActAuto
  BY <1>7 DEF ActAuto, WriteSwitch
<1>8. CASE AutoOff
  BY <1>8 DEF AutoOff, WriteSwitch
<1>9. CASE World
  BY <1>9 DEF World, Crash, Shutdown, Restart, FallSilent, EditWatchFile
<1>10. QED
  BY <1>1, <1>2, <1>3, <1>4, <1>5, <1>6, <1>7, <1>8, <1>9, Zenon DEF Next, Request, Act

-----------------------------------------------------------------------------
(* The switch covers what it was turned on for. *)

SwitchInv == perm.enabled => covered \in Configs /\ perm.policy = PolicyOf[covered]

LEMMA SwitchInvariant == Spec => []SwitchInv
<1>1. Init => SwitchInv
  BY DEF Init, SwitchInv, NoPerm
<1>2. ASSUME TypeOK, SwitchInv, [Next]_vars
      PROVE  SwitchInv'
  <2>1. CASE UNCHANGED <<perm, covered>>
    BY <1>2, <2>1 DEF SwitchInv
  <2>2. CASE perm' = Perm(FALSE, config)
    BY <2>2 DEF SwitchInv, Perm
  <2>3. CASE perm' = Perm(TRUE, config) /\ covered' = config /\ config # NoConfig
    BY <1>2, <2>3 DEF SwitchInv, Perm, TypeOK, FilesTypeOK
  <2>4. CASE UNCHANGED vars
    BY <2>1, <2>4 DEF vars
  <2>5. QED
    BY <1>2, <2>1, <2>2, <2>3, <2>4, SwitchSteps
<1>3. QED
  BY <1>1, <1>2, DaemonTypeCorrect, PTL DEF Spec

(***************************************************************************)
(* A cut of the watch is only carried out for automatic assets that are    *)
(* exactly those auto-cut was turned on for.                               *)
(***************************************************************************)
THEOREM CutsAreCovered == Spec => []PolicyCovered
<1>1. SwitchInv => PolicyCovered
  BY DEF SwitchInv, PolicyCovered, CutAllowed, AutoOn, Permitted
<1>2. QED
  BY <1>1, SwitchInvariant, PTL

-----------------------------------------------------------------------------
(* The status reply. *)

LEMMA ReadingSteps ==
    ASSUME TypeOK, Next
    PROVE  \/ reading' = reading
           \/ reading' = "none"
           \/ reading' = config /\ UNCHANGED <<config, perm>>
<1>1. ASSUME NEW u \in Uids, NEW o \in AdminOps, NEW a \in ArgsOf(o), Challenge(u, o, a)
      PROVE  reading' = reading
  BY <1>1 DEF Challenge
<1>2. ASSUME NEW r \in pending, NEW k \in Keys, Submit(r, k)
      PROVE  reading' = reading
  BY <1>2 DEF Submit
<1>3. ASSUME NEW r \in pending, SubmitExpired(r)
      PROVE  reading' = reading
  BY <1>3 DEF SubmitExpired
<1>4. ASSUME NEW k \in Keys, BootstrapKey(k)
      PROVE  reading' = reading
  BY <1>4 DEF BootstrapKey
<1>5. CASE StatusRead
  BY <1>5 DEF StatusRead
<1>6. CASE Cut \/ StatusReply \/ Answer \/ AnswerOther \/ Apply \/ TamperRead \/ CheckTamper
  BY <1>6 DEF Cut, StatusReply, Answer, AnswerOther, Apply, TamperRead, CheckTamper
<1>7. CASE Act
  BY <1>7 DEF Act, ActRestore, ActKeys, ActAuto, ActTamperSet, ActStop, ReadStaged, Install, AutoOff
<1>8. CASE World
  BY <1>8 DEF World, Crash, Shutdown, Restart, LoseMemory, FallSilent, EditWatchFile
<1>9. QED
  BY <1>1, <1>2, <1>3, <1>4, <1>5, <1>6, <1>7, <1>8, Zenon DEF Next, Request

(***************************************************************************)
(* A status reply that says "on" names a moment, since the request began,  *)
(* at which auto-cut was on, although the two files are read without the   *)
(* lock.                                                                   *)
(***************************************************************************)
THEOREM StatusIsHonest == Spec => []StatusOnWasOn
<1>1. Init => StatusOnWasOn
  BY DEF Init, StatusOnWasOn
<1>2. ASSUME TypeOK, StatusOnWasOn, [Next]_vars
      PROVE  StatusOnWasOn'
  <2>1. CASE UNCHANGED vars
    BY <1>2, <2>1 DEF StatusOnWasOn, vars
  <2>2. CASE Next
    <3> SUFFICES ASSUME reading' # "none", ShownOn(reading', perm')
                 PROVE  (reading # "none" /\ wasOn) \/ AutoOn'
      <4>1. Remember
        BY <2>2, StepRemembers
      <4>2. QED
        BY <4>1, Zenon DEF Remember, StatusOnWasOn
    <3>1. CASE reading' = config /\ UNCHANGED <<config, perm>>
      BY <3>1 DEF ShownOn, AutoOn, Permitted
    <3>2. CASE reading' = reading /\ perm' = perm
      BY <1>2, <3>2 DEF StatusOnWasOn
    <3>3. CASE perm' = Perm(FALSE, config)
      BY <3>3 DEF Perm, ShownOn
    <3>4. CASE perm' = Perm(TRUE, config) /\ config # NoConfig /\ config' = config
      BY <3>4 DEF Perm, AutoOn, Permitted
    <3>5. QED
      BY <2>2, <1>2, <3>1, <3>2, <3>3, <3>4, SwitchSteps, ReadingSteps
  <2>3. QED
    BY <1>2, <2>1, <2>2
<1>3. QED
  BY <1>1, <1>2, DaemonTypeCorrect, PTL DEF Spec

-----------------------------------------------------------------------------
(* An approval acts on the state it was issued for. *)

\* What is bound are the facts of the moment of issue.
BoundAtIssue(r) ==
    r.bound = [gen |-> r.at.acts,
               config |-> IF r.op \in AutoOps THEN {r.at.config} ELSE {},
               ledger |-> IF r.op = "restore" THEN {r.at.ledger} ELSE {}]

IssueInv ==
    /\ gen = acts
    /\ \A r \in pending : BoundAtIssue(r)
    /\ step = "saved" => BoundAtIssue(cur)
    /\ ActsOnIssuedState

LEMMA ChallengeIssues ==
    ASSUME TypeOK, IssueInv,
           NEW u \in Uids, NEW o \in AdminOps, NEW a \in ArgsOf(o), Challenge(u, o, a)
    PROVE  IssueInv'
<1> DEFINE new == [id |-> nextId, uid |-> u, op |-> o, arg |-> a, bound |-> Bindings(o),
                   at |-> [acts |-> acts, config |-> config, ledger |-> ledger]]
<1>1. BoundAtIssue(new)
  BY DEF BoundAtIssue, Bindings, IssueInv
<1>2. pending' = (pending \ Displaced(u)) \cup {new}
  BY DEF Challenge
<1> HIDE DEF new
<1>3. \A r \in pending' : BoundAtIssue(r)
  BY <1>1, <1>2 DEF IssueInv
<1>4. step = "free" /\ step' = "free" /\ gen' = gen /\ acts' = acts
  BY DEF Challenge, Free
<1>5. QED
  BY <1>3, <1>4 DEF IssueInv, ActsOnIssuedState

LEMMA ApplyIssues ==
    ASSUME TypeOK, IssueInv, Apply
    PROVE  IssueInv'
<1>1. pending' = pending /\ UNCHANGED <<config, ledger>>
  BY DEF Apply
<1>2. CASE Done /\ UNCHANGED <<gen, acts>>
  BY <1>1, <1>2 DEF Done, IssueInv, ActsOnIssuedState
<1>3. CASE ~Stale(cur) /\ gen' = gen + 1 /\ acts' = acts + 1 /\ step' = "act" /\ UNCHANGED cur
  <2>1. cur.bound = Bindings(cur.op) /\ BoundAtIssue(cur)
    BY <1>3 DEF Stale, Apply, IssueInv
  <2>2. /\ cur.at.acts = gen
        /\ cur.op \in AutoOps => config = cur.at.config
        /\ cur.op = "restore" => ledger = cur.at.ledger
    BY <2>1 DEF Bindings, BoundAtIssue
  <2>3. gen' = acts' /\ acts' = cur'.at.acts + 1
    BY <1>3, <2>2 DEF IssueInv
  <2>4. QED
    BY <1>1, <1>3, <2>2, <2>3 DEF IssueInv, ActsOnIssuedState
<1>4. QED
  BY <1>2, <1>3 DEF Apply

\* Steps that are neither of the approval nor under the lock.
OtherSteps ==
    \/ UNCHANGED <<gen, acts, config, ledger, cur>> /\ step' = step /\ pending' \subseteq pending
    \/ UNCHANGED <<gen, acts>> /\ step' = "free" /\ pending' \subseteq pending
    \/ UNCHANGED <<gen, acts>> /\ step' \in {"install", "autoOff"} /\ pending' \subseteq pending

LEMMA OtherStepsIssue ==
    ASSUME TypeOK, IssueInv, OtherSteps
    PROVE  IssueInv'
BY DEF IssueInv, ActsOnIssuedState, BoundAtIssue, OtherSteps

LEMMA SubmitIssues ==
    ASSUME TypeOK, IssueInv, NEW r \in pending, NEW k \in Keys, Submit(r, k)
    PROVE  IssueInv'
<1>1. pending' \subseteq pending /\ gen' = gen /\ acts' = acts
  BY DEF Submit
<1>2. step = "free" /\ (step' = "free" \/ (step' = "saved" /\ cur' = r))
  BY DEF Submit, Free
<1>3. QED
  BY <1>1, <1>2 DEF IssueInv, ActsOnIssuedState

LEMMA IssueStep ==
    ASSUME TypeOK, IssueInv, Next
    PROVE  IssueInv'
<1>1. ASSUME NEW u \in Uids, NEW o \in AdminOps, NEW a \in ArgsOf(o), Challenge(u, o, a)
      PROVE  IssueInv'
  BY <1>1, ChallengeIssues
<1>2. ASSUME NEW r \in pending, NEW k \in Keys, Submit(r, k)
      PROVE  IssueInv'
  BY <1>2, SubmitIssues
<1>3. ASSUME NEW r \in pending, SubmitExpired(r)
      PROVE  OtherSteps
  BY <1>3 DEF SubmitExpired, OtherSteps
<1>4. ASSUME NEW k \in Keys, BootstrapKey(k)
      PROVE  OtherSteps
  BY <1>4 DEF BootstrapKey, OtherSteps
<1>5. ASSUME Cut \/ CheckTamper
      PROVE  OtherSteps
  BY <1>5 DEF Cut, CheckTamper, Free, OtherSteps
<1>6. ASSUME StatusRead \/ StatusReply \/ Answer \/ AnswerOther \/ TamperRead \/ Restart
      PROVE  OtherSteps
  BY <1>6 DEF StatusRead, StatusReply, Answer, AnswerOther, TamperRead, Restart, OtherSteps
<1>7. ASSUME ActRestore \/ ActKeys \/ ActAuto \/ ActTamperSet \/ ActStop \/ AutoOff
      PROVE  OtherSteps
  BY <1>7 DEF ActRestore, ActKeys, ActAuto, ActTamperSet, ActStop, AutoOff, Done, OtherSteps
<1>8. ASSUME ReadStaged \/ Install
      PROVE  OtherSteps
  BY <1>8 DEF ReadStaged, Install, Done, OtherSteps
<1>9. ASSUME Crash \/ Shutdown
      PROVE  OtherSteps
  BY <1>9 DEF Crash, Shutdown, LoseMemory, Done, OtherSteps
<1>10. ASSUME FallSilent
       PROVE  OtherSteps
  BY <1>10 DEF FallSilent, OtherSteps
<1>11. ASSUME NEW c \in Configs \cup {"unreadable"}, EditWatchFile(c)
       PROVE  OtherSteps
  BY <1>11 DEF EditWatchFile, OtherSteps
<1>12. OtherSteps => IssueInv'
  BY OtherStepsIssue
<1>13. Apply => IssueInv'
  BY ApplyIssues
<1>14. QED
  BY <1>1, <1>2, <1>3, <1>4, <1>5, <1>6, <1>7, <1>8, <1>9, <1>10, <1>11, <1>12, <1>13, Zenon
  DEF Next, Request, Act, World

(***************************************************************************)
(* "an old, unused signature can't act on a later state": whatever order   *)
(* approvals are signed and submitted in, and whatever is lost in a kill.  *)
(***************************************************************************)
THEOREM ApprovalsAreCurrent == Spec => []ActsOnIssuedState
<1>1. Init => IssueInv
  BY DEF Init, IssueInv, ActsOnIssuedState
<1>2. ASSUME TypeOK, IssueInv, [Next]_vars
      PROVE  IssueInv'
  <2>1. CASE UNCHANGED vars
    BY <1>2, <2>1 DEF IssueInv, ActsOnIssuedState, BoundAtIssue, vars
  <2>2. QED
    BY <1>2, <2>1, IssueStep
<1>3. IssueInv => ActsOnIssuedState
  BY DEF IssueInv
<1>4. QED
  BY <1>1, <1>2, <1>3, DaemonTypeCorrect, PTL DEF Spec

-----------------------------------------------------------------------------
(* The configuration is replaced by what was signed. *)

\* What is known of the approval that holds the lock.
SignedInv ==
    /\ step # "free" => cur.id \in saved.used
    /\ step = "install" => cur.op = "config_set" /\ data = cur.arg /\ acts = cur.at.acts + 1

\* The lock's holder is left alone, or gives the lock back.
Held ==
    \/ step' = "free"
    \/ UNCHANGED <<step, cur, data, saved, acts>>

LEMMA SignedStep ==
    ASSUME TypeOK, ActsOnIssuedState, SignedInv, Next
    PROVE  SignedInv'
<1> USE DEF SignedInv, Held
<1>1. ASSUME NEW u \in Uids, NEW o \in AdminOps, NEW a \in ArgsOf(o), Challenge(u, o, a)
      PROVE  Held
  BY <1>1 DEF Challenge
<1>2. ASSUME NEW r \in pending, NEW k \in Keys, Submit(r, k)
      PROVE  SignedInv'
  <2>1. CASE saved' = state' /\ step' = "saved" /\ cur' = r
    <3>1. state' = [state EXCEPT !.used = @ \cup {r.id}]
      BY <1>2 DEF Submit
    <3>2. r.id \in state'.used
      BY <3>1 DEF TypeOK, MemoryTypeOK
    <3>3. QED
      BY <2>1, <3>2
  <2>2. CASE UNCHANGED <<saved, step, cur>>
    BY <1>2, <2>2 DEF Submit, Free
  <2>3. QED
    BY <1>2, <2>1, <2>2 DEF Submit
<1>3. ASSUME NEW r \in pending, SubmitExpired(r)
      PROVE  Held
  BY <1>3 DEF SubmitExpired
<1>4. ASSUME NEW k \in Keys, BootstrapKey(k)
      PROVE  Held
  BY <1>4 DEF BootstrapKey, Free
<1>5. ASSUME Cut \/ StatusRead \/ StatusReply \/ Answer \/ AnswerOther \/ TamperRead \/ CheckTamper
      PROVE  Held
  BY <1>5 DEF Cut, StatusRead, StatusReply, Answer, AnswerOther, TamperRead, CheckTamper
<1>6. CASE Apply
  BY <1>6 DEF Apply, Done
<1>7. ASSUME ActRestore \/ ActKeys \/ ActAuto \/ ActTamperSet \/ ActStop \/ AutoOff
      PROVE  Held
  BY <1>7 DEF ActRestore, ActKeys, ActAuto, ActTamperSet, ActStop, AutoOff, Done
<1>8. CASE ReadStaged
  <2>1. step = "act" /\ cur.op = "config_set" /\ UNCHANGED <<saved, acts>>
    BY <1>8 DEF ReadStaged, Acting
  <2>2. acts = cur.at.acts + 1
    BY <2>1 DEF ActsOnIssuedState
  <2>3. QED
    BY <1>8, <2>1, <2>2 DEF ReadStaged, Done
<1>9. CASE Install
  BY <1>9 DEF Install, Done
<1>10. ASSUME World
       PROVE  Held
  BY <1>10 DEF World, Crash, Shutdown, Restart, LoseMemory, Done, FallSilent, EditWatchFile
<1>11. Held => SignedInv'
  OBVIOUS
<1>12. QED
  BY <1>1, <1>2, <1>3, <1>4, <1>5, <1>6, <1>7, <1>8, <1>9, <1>10, <1>11, Zenon DEF Next, Request, Act

\* Only Install replaces the configuration.
LEMMA OnlyInstall ==
    ASSUME Next, config' # config
    PROVE  Install
<1>1. ASSUME NEW u \in Uids, NEW o \in AdminOps, NEW a \in ArgsOf(o), Challenge(u, o, a)
      PROVE  FALSE
  BY <1>1 DEF Challenge
<1>2. ASSUME NEW r \in pending, NEW k \in Keys, Submit(r, k)
      PROVE  FALSE
  BY <1>2 DEF Submit
<1>3. ASSUME NEW r \in pending, SubmitExpired(r)
      PROVE  FALSE
  BY <1>3 DEF SubmitExpired
<1>4. ASSUME NEW k \in Keys, BootstrapKey(k)
      PROVE  FALSE
  BY <1>4 DEF BootstrapKey
<1>5. ASSUME \/ Cut \/ StatusRead \/ StatusReply \/ Answer \/ AnswerOther
             \/ Apply \/ TamperRead \/ CheckTamper
      PROVE  FALSE
  BY <1>5 DEF Cut, StatusRead, StatusReply, Answer, AnswerOther, Apply, TamperRead, CheckTamper
<1>6. ASSUME ActRestore \/ ActKeys \/ ActAuto \/ ActTamperSet \/ ActStop \/ ReadStaged \/ AutoOff
      PROVE  FALSE
  BY <1>6 DEF ActRestore, ActKeys, ActAuto, ActTamperSet, ActStop, ReadStaged, AutoOff
<1>7. ASSUME World
      PROVE  FALSE
  BY <1>7 DEF World, Crash, Shutdown, Restart, FallSilent, EditWatchFile
<1>8. QED
  BY <1>1, <1>2, <1>3, <1>4, <1>5, <1>6, <1>7, Zenon DEF Next, Request, Act

(***************************************************************************)
(* A configuration is only replaced by the content that was signed, by an  *)
(* approval that is used up on disk and current, although the staged file  *)
(* may be edited at any time.                                              *)
(***************************************************************************)
THEOREM ConfigWasSigned == Spec => ConfigIsSigned
<1> DEFINE Signed ==
      config' # config =>
        /\ cur.op = "config_set" /\ config' = cur.arg
        /\ cur.id \in saved.used
        /\ acts = cur.at.acts + 1
<1>1. Init => SignedInv
  BY DEF Init, SignedInv
<1>2. ASSUME TypeOK, ActsOnIssuedState, SignedInv, [Next]_vars
      PROVE  SignedInv' /\ [Signed]_vars
  <2>1. CASE UNCHANGED vars
    BY <1>2, <2>1 DEF SignedInv, vars
  <2>2. CASE Next
    <3>1. ASSUME Install, config' # config
          PROVE  Signed
      <4>1. step = "install" /\ config' = data
        BY <3>1 DEF Install, Content
      <4>2. QED
        BY <1>2, <4>1 DEF SignedInv
    <3>2. SignedInv'
      BY <1>2, <2>2, SignedStep
    <3>3. QED
      BY <2>2, <3>1, <3>2, OnlyInstall
  <2>3. QED
    BY <1>2, <2>1, <2>2
<1>3. QED
  BY <1>1, <1>2, DaemonTypeCorrect, ApprovalsAreCurrent, PTL DEF Spec, ConfigIsSigned

-----------------------------------------------------------------------------
(* The registry keeps a key. *)

KeysInv == saved.keys # {} => state.keys # {}

LEMMA RemovedLeavesOne ==
    ASSUME NEW keys \in SUBSET Keys, keys # {}, NEW k
    PROVE  Removed(keys, k) # {}
<1>1. CASE Cardinality(keys) > 1
  <2>1. SUFFICES ASSUME keys \ {k} = {} PROVE FALSE
    BY <1>1 DEF Removed
  <2>2. keys = {k}
    BY <2>1
  <2>3. Cardinality({k}) = 1
    BY FS_Singleton
  <2>4. QED
    BY <1>1, <2>2, <2>3
<1>2. CASE ~(Cardinality(keys) > 1)
  BY <1>2 DEF Removed
<1>3. QED
  BY <1>1, <1>2

\* What a step can do to the registry, on disk and in memory.
RegistryStep ==
    \/ saved'.keys = saved.keys /\ state'.keys = state.keys
    \/ saved'.keys = saved.keys /\ state'.keys = saved.keys
    \/ /\ saved'.keys \in {saved.keys, state'.keys}
       /\ state.keys # {} => state'.keys # {}
       /\ saved.keys # {} => state'.keys # {}

LEMMA RegistrySteps ==
    ASSUME TypeOK, KeysInv, Next
    PROVE  RegistryStep
<1> USE DEF RegistryStep
<1>1. ASSUME NEW u \in Uids, NEW o \in AdminOps, NEW a \in ArgsOf(o), Challenge(u, o, a)
      PROVE  RegistryStep
  BY <1>1 DEF Challenge
<1>2. ASSUME NEW r \in pending, NEW k \in Keys, Submit(r, k)
      PROVE  RegistryStep
  <2>1. state'.keys = state.keys /\ (saved' = state' \/ saved' = saved)
    BY <1>2 DEF Submit, TypeOK, MemoryTypeOK
  <2>2. QED
    BY <2>1 DEF KeysInv
<1>3. ASSUME NEW r \in pending, SubmitExpired(r)
      PROVE  RegistryStep
  BY <1>3 DEF SubmitExpired
<1>4. ASSUME NEW k \in Keys, BootstrapKey(k)
      PROVE  RegistryStep
  <2>1. state'.keys = {k} /\ (saved' = state' \/ saved' = saved)
    BY <1>4 DEF BootstrapKey, TypeOK, MemoryTypeOK
  <2>2. QED
    BY <2>1
<1>5. ASSUME Cut \/ CheckTamper \/ StatusRead \/ StatusReply \/ Answer \/ AnswerOther \/ TamperRead \/ Apply
      PROVE  RegistryStep
  BY <1>5 DEF Cut, CheckTamper, StatusRead, StatusReply, Answer, AnswerOther, TamperRead, Apply
<1>6. ASSUME ActKeys
      PROVE  RegistryStep
  <2>1. /\ state'.keys = IF cur.op = "key_add" THEN state.keys \cup {cur.arg}
                         ELSE Removed(state.keys, cur.arg)
        /\ saved' = state' \/ saved' = saved
    BY <1>6 DEF ActKeys, TypeOK, MemoryTypeOK
  <2>2. state.keys # {} => state'.keys # {}
    BY <2>1, RemovedLeavesOne DEF TypeOK, MemoryTypeOK
  <2>3. QED
    BY <2>1, <2>2 DEF KeysInv
<1>7. ASSUME ActRestore \/ ActAuto \/ ActTamperSet \/ ActStop \/ AutoOff \/ ReadStaged \/ Install
      PROVE  RegistryStep
  BY <1>7 DEF ActRestore, ActAuto, ActTamperSet, ActStop, AutoOff, ReadStaged, Install
<1>8. ASSUME World
      PROVE  RegistryStep
  BY <1>8 DEF World, Crash, Shutdown, Restart, LoseMemory, FallSilent, EditWatchFile
<1>9. QED
  BY <1>1, <1>2, <1>3, <1>4, <1>5, <1>6, <1>7, <1>8, Zenon DEF Next, Request, Act

(***************************************************************************)
(* A registry with a key on disk never becomes one without.                *)
(***************************************************************************)
THEOREM AuthorityIsKept == Spec => AuthorityStays
<1>1. Init => KeysInv
  BY DEF Init, KeysInv
<1>2. ASSUME TypeOK, KeysInv, [Next]_vars
      PROVE  KeysInv' /\ [saved.keys # {} => saved'.keys # {}]_vars
  <2>1. CASE UNCHANGED vars
    BY <1>2, <2>1 DEF KeysInv, vars
  <2>2. CASE Next
    BY <1>2, <2>2, RegistrySteps DEF KeysInv, RegistryStep
  <2>3. QED
    BY <1>2, <2>1, <2>2
<1>3. QED
  BY <1>1, <1>2, DaemonTypeCorrect, PTL DEF Spec, AuthorityStays
-----------------------------------------------------------------------------
(* Requests displace only their own uid's. *)

\* A new request gets an id that no pending one has, and `owner' names the uid
\* that asked for each pending one.
OwnerInv ==
    \A r \in pending : r.id < nextId /\ r.id \in DOMAIN owner /\ owner[r.id] = r.uid

\* What a step can do to what is asked for.
AskedStep ==
    \/ pending' \subseteq pending /\ owner' = owner /\ nextId' = nextId
    \/ pending' = {} /\ nextId' = nextId
    \/ \E s \in pending' :
         /\ s.id = nextId
         /\ nextId' = nextId + 1
         /\ owner' = OwnerWith(s.uid)
         /\ pending' = (pending \ Displaced(s.uid)) \cup {s}

LEMMA AskedSteps ==
    ASSUME TypeOK, Next
    PROVE  AskedStep
<1>1. ASSUME NEW u \in Uids, NEW o \in AdminOps, NEW a \in ArgsOf(o), Challenge(u, o, a)
      PROVE  AskedStep
  <2> DEFINE new == [id |-> nextId, uid |-> u, op |-> o, arg |-> a, bound |-> Bindings(o),
                     at |-> [acts |-> acts, config |-> config, ledger |-> ledger]]
  <2>1. new.id = nextId /\ new.uid = u
    OBVIOUS
  <2>2. /\ pending' = (pending \ Displaced(u)) \cup {new} /\ nextId' = nextId + 1
        /\ owner' = OwnerWith(u)
    BY <1>1 DEF Challenge
  <2> HIDE DEF new
  <2>3. QED
    BY <2>1, <2>2 DEF AskedStep
<1>2. ASSUME NEW r \in pending, NEW k \in Keys, Submit(r, k)
      PROVE  AskedStep
  BY <1>2 DEF Submit, AskedStep
<1>3. ASSUME NEW r \in pending, SubmitExpired(r)
      PROVE  AskedStep
  BY <1>3 DEF SubmitExpired, AskedStep
<1>4. ASSUME NEW k \in Keys, BootstrapKey(k)
      PROVE  AskedStep
  BY <1>4 DEF BootstrapKey, AskedStep
<1>5. ASSUME \/ Cut \/ CheckTamper \/ StatusRead \/ StatusReply \/ Answer \/ AnswerOther
             \/ TamperRead \/ Apply
      PROVE  AskedStep
  BY <1>5 DEF Cut, CheckTamper, StatusRead, StatusReply, Answer, AnswerOther, TamperRead, Apply,
              AskedStep
<1>6. ASSUME Act
      PROVE  AskedStep
  BY <1>6 DEF Act, ActRestore, ActKeys, ActAuto, ActTamperSet, ActStop, ReadStaged, Install, AutoOff,
              AskedStep
<1>7. ASSUME World
      PROVE  AskedStep
  BY <1>7 DEF World, Crash, Shutdown, Restart, LoseMemory, FallSilent, EditWatchFile, AskedStep
<1>8. QED
  BY <1>1, <1>2, <1>3, <1>4, <1>5, <1>6, <1>7, Zenon DEF Next, Request

\* While `owner' names who asked, the daemon's idea of a uid's own requests is
\* the right one.
LEMMA MineIsAskedFor ==
    ASSUME OwnerInv, NEW u
    PROVE  Mine(u) = {r \in pending : r.uid = u}
BY DEF OwnerInv, Mine

LEMMA OwnerStep ==
    ASSUME TypeOK, OwnerInv, AskedStep
    PROVE  OwnerInv'
<1>1. CASE pending' \subseteq pending /\ owner' = owner /\ nextId' = nextId
  BY <1>1 DEF OwnerInv
<1>2. CASE pending' = {}
  BY <1>2 DEF OwnerInv
<1>3. ASSUME NEW s \in pending', s.id = nextId, nextId' = nextId + 1,
             owner' = OwnerWith(s.uid), pending' = (pending \ Displaced(s.uid)) \cup {s}
      PROVE  OwnerInv'
  <2>1. pending \subseteq Requests /\ nextId \in Nat /\ \A r \in Requests : r.id \in Nat
    BY DEF TypeOK, MemoryTypeOK, OutsideTypeOK, Requests
  <2>2. nextId \in DOMAIN owner' /\ owner'[nextId] = s.uid
    BY <1>3 DEF OwnerWith
  <2>3. ASSUME NEW r \in pending
        PROVE  r.id < nextId' /\ r.id \in DOMAIN owner' /\ owner'[r.id] = r.uid
    <3>1. r.id < nextId /\ r.id \in DOMAIN owner /\ owner[r.id] = r.uid /\ r.id \in Nat
      BY <2>1, <2>3 DEF OwnerInv
    <3>2. r.id \in DOMAIN owner' /\ owner'[r.id] = owner[r.id]
      BY <1>3, <2>1, <3>1 DEF OwnerWith
    <3>3. QED
      BY <1>3, <2>1, <3>1, <3>2
  <2>4. QED
    BY <1>3, <2>1, <2>2, <2>3 DEF OwnerInv
<1>4. QED
  BY <1>1, <1>2, <1>3 DEF AskedStep

(***************************************************************************)
(* A uid that asks for more than its share displaces only its own oldest   *)
(* requests, although the daemon tells whose they are from a second map    *)
(* that it prunes at another time: what another uid has asked for stays    *)
(* until it is submitted or the daemon ends.                               *)
(***************************************************************************)
THEOREM OthersStay == Spec => OnlyOwnDisplaced
<1> DEFINE Kept ==
      \A r \in pending \ pending' :
        nextId' # nextId =>
          /\ \E s \in pending' \ pending : s.uid = r.uid
          /\ Cardinality({s \in pending : s.uid = r.uid /\ s.id > r.id}) >= PendingPerUid - 1
<1>1. Init => OwnerInv
  BY DEF Init, OwnerInv
<1>2. ASSUME TypeOK, OwnerInv, [Next]_vars
      PROVE  OwnerInv' /\ [Kept]_vars
  <2>1. CASE UNCHANGED vars
    BY <1>2, <2>1 DEF OwnerInv, vars
  <2>2. CASE Next
    <3>1. AskedStep
      BY <1>2, <2>2, AskedSteps
    <3>2. OwnerInv'
      BY <1>2, <3>1, OwnerStep
    <3>3. ASSUME NEW s \in pending', s.id = nextId,
                 pending' = (pending \ Displaced(s.uid)) \cup {s}
          PROVE  Kept
      <4>1. s \notin pending
        BY <1>2, <3>3 DEF OwnerInv, TypeOK, OutsideTypeOK
      <4>2. ASSUME NEW r \in pending \ pending'
            PROVE  /\ s.uid = r.uid
                   /\ Cardinality({t \in pending : t.uid = r.uid /\ t.id > r.id}) >= PendingPerUid - 1
        <5>1. r \in Displaced(s.uid)
          BY <3>3, <4>2
        <5>2. Mine(s.uid) = {t \in pending : t.uid = s.uid}
          BY <1>2, MineIsAskedFor
        <5>3. /\ r.uid = s.uid
              /\ Cardinality({t \in Mine(s.uid) : t.id > r.id}) >= PendingPerUid - 1
          BY <5>1, <5>2 DEF Displaced
        <5>4. {t \in Mine(s.uid) : t.id > r.id} = {t \in pending : t.uid = r.uid /\ t.id > r.id}
          BY <5>2, <5>3
        <5>5. QED
          BY <5>3, <5>4
      <4>3. s \in pending' \ pending
        BY <4>1
      <4>4. QED
        BY <4>2, <4>3
    <3>4. nextId' = nextId => Kept
      OBVIOUS
    <3>5. QED
      BY <3>1, <3>2, <3>3, <3>4 DEF AskedStep
  <2>3. QED
    BY <1>2, <2>1, <2>2
<1>3. QED
  BY <1>1, <1>2, DaemonTypeCorrect, PTL DEF Spec, OnlyOwnDisplaced

-----------------------------------------------------------------------------
(* The tamper check. *)

\* `differed' covers the time since the last check: while it is FALSE, the two
\* files have been the same all along, also when `theirs' was read.  A strike
\* stands for a finding of the last check.
TamperInv ==
    /\ Differs => differed
    /\ Watched /\ theirs # "none" /\ ~differed => theirs = config
    /\ strikes > 0 => before
    /\ run # "up" => theirs = "none" /\ strikes = 0

LEMMA FoundDiffered ==
    ASSUME TypeOK, TamperInv, CheckTamper
    PROVE  Found => differed
BY DEF TamperInv, CheckTamper, Found, Differs

\* Between two checks, a step moves one of the two files at most.
WindowStep ==
    /\ UNCHANGED config \/ UNCHANGED watchFile
    /\ \/ UNCHANGED <<theirs, strikes, run>>
       \/ theirs' = "none" /\ strikes' = 0
       \/ theirs' = watchFile /\ UNCHANGED <<strikes, config, watchFile, run>> /\ run = "up"

LEMMA WindowSteps ==
    ASSUME TypeOK, Next
    PROVE  \/ CheckTamper
           \/ Restart
           \/ SameWindow /\ WindowStep
<1> USE DEF WindowStep
<1> DEFINE Same == SameWindow /\ WindowStep
<1>1. ASSUME NEW u \in Uids, NEW o \in AdminOps, NEW a \in ArgsOf(o), Challenge(u, o, a)
      PROVE  Same
  BY <1>1 DEF Challenge
<1>2. ASSUME NEW r \in pending, NEW k \in Keys, Submit(r, k)
      PROVE  Same
  BY <1>2 DEF Submit
<1>3. ASSUME NEW r \in pending, SubmitExpired(r)
      PROVE  Same
  BY <1>3 DEF SubmitExpired
<1>4. ASSUME NEW k \in Keys, BootstrapKey(k)
      PROVE  Same
  BY <1>4 DEF BootstrapKey
<1>5. ASSUME Cut \/ StatusRead \/ StatusReply \/ Answer \/ AnswerOther \/ TamperRead \/ Apply
      PROVE  Same
  BY <1>5 DEF Cut, StatusRead, StatusReply, Answer, AnswerOther, TamperRead, Apply
<1>6. ASSUME Act
      PROVE  Same
  BY <1>6 DEF Act, ActRestore, ActKeys, ActAuto, ActTamperSet, ActStop, ReadStaged, Install, AutoOff
<1>7. ASSUME Crash \/ Shutdown
      PROVE  Same
  BY <1>7 DEF Crash, Shutdown, LoseMemory
<1>8. ASSUME FallSilent
      PROVE  Same
  BY <1>8 DEF FallSilent
<1>9. ASSUME NEW c \in Configs \cup {"unreadable"}, EditWatchFile(c)
      PROVE  Same
  BY <1>9 DEF EditWatchFile
<1>10. QED
  BY <1>1, <1>2, <1>3, <1>4, <1>5, <1>6, <1>7, <1>8, <1>9, Zenon DEF Next, Request, World

LEMMA TamperStep ==
    ASSUME TypeOK, TamperInv, Next
    PROVE  TamperInv'
<1>1. CASE CheckTamper
  <2>1. differed' = Differs' /\ before' = differed /\ theirs' = "none" /\ UNCHANGED run /\ run = "up"
    BY <1>1 DEF CheckTamper, NextWindow, Free
  <2>2. strikes' > 0 => Found
    BY <1>1 DEF CheckTamper
  <2>3. QED
    BY <1>1, <2>1, <2>2, FoundDiffered DEF TamperInv
<1>2. CASE Restart
  <2>1. differed' = Differs' /\ run # "up" /\ run' = "up" /\ UNCHANGED <<theirs, strikes>>
    BY <1>2 DEF Restart, FirstWindow
  <2>2. QED
    BY <2>1 DEF TamperInv
<1>3. CASE SameWindow /\ WindowStep
  <2>1. (differed' <=> differed \/ Differs') /\ (before' <=> before)
    BY <1>3, Zenon DEF SameWindow
  <2>2. ASSUME Watched, theirs' # "none", ~differed'
        PROVE  theirs' = config'
    <3>1. ~differed /\ ~Differs'
      BY <2>1, <2>2
    <3>2. watchFile' = config' /\ watchFile = config
      BY <2>2, <3>1 DEF Differs, TamperInv
    <3>3. QED
      BY <1>3, <2>2, <3>1, <3>2 DEF WindowStep, TamperInv
  <2>3. strikes' > 0 => before'
    BY <1>3, <2>1 DEF WindowStep, TamperInv
  <2>4. run' # "up" => theirs' = "none" /\ strikes' = 0
    BY <1>3 DEF WindowStep, TamperInv
  <2>5. QED
    BY <2>1, <2>2, <2>3, <2>4 DEF TamperInv
<1>4. QED
  BY <1>1, <1>2, <1>3, WindowSteps

(***************************************************************************)
(* "One gap is never enough": a tamper cut means that the watched file     *)
(* differed, or the watch was silent, in both of the last two periods,     *)
(* although the file is read before the lock is waited for.                *)
(***************************************************************************)
THEOREM TamperCutsAreReal == Spec => TamperCutIsReal
<1>1. Init => TamperInv
  BY DEF Init, TamperInv
<1>2. ASSUME TypeOK, TamperInv, [Next]_vars
      PROVE  TamperInv' /\ [CheckTamper /\ TamperCut => differed /\ before]_vars
  <2>1. CASE UNCHANGED vars
    BY <1>2, <2>1 DEF TamperInv, Differs, vars
  <2>2. CASE Next
    <3>1. CheckTamper /\ TamperCut => Found /\ strikes > 0
      BY <1>2 DEF TamperCut, EnoughStrikes, TypeOK, MemoryTypeOK
    <3>2. QED
      BY <1>2, <2>2, <3>1, TamperStep, FoundDiffered DEF TamperInv
  <2>3. QED
    BY <1>2, <2>1, <2>2
<1>3. QED
  BY <1>1, <1>2, DaemonTypeCorrect, PTL DEF Spec, TamperCutIsReal
=============================================================================
