--------------------------- MODULE InspectionSafety ---------------------------
(***************************************************************************)
(* Proofs about an inspection.  The inductive invariant Inv says           *)
(*   - SandboxOK: what the artifact did on the wire and on disk, the sink   *)
(*     and the runner's reports of it tell the same story;                  *)
(*   - ScannerOK: the strings the pickle scanner remembers lie on the       *)
(*     loader's stack and in its memo, until the loader raises;             *)
(*   - InspectionOK: every pass that is over has left its flags among the   *)
(*     flags, and what it read is known, for the reads that failed in it.   *)
(* Every flag is one of a finite set, AllFlags, so that a count of flags    *)
(* tells whether there are any.                                             *)
(***************************************************************************)
EXTENDS Inspection, FiniteSetTheorems, SequenceTheorems, WellFoundedInduction, TLAPS

-----------------------------------------------------------------------------
(* The behavioural run.                                                    *)

RequestType == [seen : SUBSET Decoys, host : Hosts \cup {Unknown}, state : {"sent", "heard", "answered"}]
CaptureType == [seen : SUBSET Decoys, host : Hosts \cup {Unknown}]

Captured(seen, host) == \E c \in DOMAIN captures : captures[c].seen = seen /\ captures[c].host = host

\* What was sent, and that the sink answers what it has recorded.
WireOK ==
    /\ opened \subseteq Decoys /\ written \subseteq Paths
    /\ requests \in Seq(RequestType) /\ captures \in Seq(CaptureType)
    /\ \A n \in DOMAIN requests : requests[n].state # "sent" => Captured(requests[n].seen, requests[n].host)

\* What the history noted still holds.
PastOK ==
    /\ past.answered \subseteq DOMAIN requests
    /\ \A n \in past.answered : requests[n].state = "answered"
    /\ past.opened \subseteq opened /\ past.written \subseteq written

ExfilRead == {"hosts", "persist", "access", "remove", "done", "raised"}
HostsRead == ExfilRead \ {"hosts"}
WrittenRead == HostsRead \ {"persist"}
AccessRead == WrittenRead \ {"access"}

\* What the runner has read so far, and the flags it made of it.
ExfilOK ==
    phase \in ExfilRead =>
        /\ DOMAIN exfil \subseteq Decoys
        /\ \A n \in past.answered : requests[n].seen \subseteq DOMAIN exfil
        /\ \A d \in DOMAIN exfil : exfil[d] \in Hosts \cup {Unknown}
        /\ \A d \in DOMAIN exfil : exfil[d] # Unknown => \E c \in DOMAIN captures : captures[c].host = exfil[d]
ToldOK ==
    /\ phase \in HostsRead =>
         /\ \A d \in DOMAIN exfil : Flag("high", "G801", <<d, exfil[d]>>) \in signals
         /\ \A n \in past.answered :
              requests[n].host # Unknown => Flag("medium", "G802", requests[n].host) \in signals
    /\ phase \in WrittenRead => \A f \in past.written : Flag("high", "G803", f) \in signals
    /\ phase \in AccessRead /\ setting.atimes =>
         \A d \in past.opened : d \in DOMAIN exfil \/ Flag("medium", "G804", d) \in signals
    /\ \A f \in signals :
         f.code = "G801" /\ f.at[2] # Unknown => Flag("medium", "G802", f.at[2]) \in signals

SandboxOK == WireOK /\ PastOK /\ ExfilOK /\ ToldOK

\* A nonempty set of positions has a last one.
LEMMA LastExists ==
    ASSUME NEW n \in Nat, NEW T \in SUBSET (1 .. n), T # {}
    PROVE  \E m \in T : \A i \in T : i <= m
<1> DEFINE S == {n - i : i \in T}
<1>1. S \subseteq Nat /\ S # {}
  <2>1. ASSUME NEW i \in T PROVE n - i \in Nat
    OBVIOUS
  <2>2. PICK i \in T : TRUE
    OBVIOUS
  <2>3. n - i \in S
    BY <2>2
  <2>4. QED
    BY <2>1, <2>3
<1> HIDE DEF S
<1>2. IsWellFoundedOn(OpToRel(<, Nat), Nat)
  BY NatLessThanWellFounded
<1>3. PICK d \in S : \A e \in S : ~ (<<e, d>> \in OpToRel(<, Nat))
  BY <1>1, <1>2, WFMin
<1>4. PICK m \in T : d = n - m
  BY <1>3 DEF S
<1>5. ASSUME NEW i \in T PROVE i <= m
  <2>1. n - i \in S /\ n - i \in Nat /\ d \in Nat
    BY <1>1, <1>3 DEF S
  <2>2. ~(n - i < d)
    BY <1>3, <2>1 DEF OpToRel
  <2>3. QED
    BY <1>4, <2>2
<1>6. QED
  BY <1>5

LEMMA SandboxStarts == SandboxInit => SandboxOK
<1> SUFFICES ASSUME SandboxInit PROVE SandboxOK
  OBVIOUS
<1>1. requests = <<>> /\ captures = <<>> /\ opened = {} /\ written = {} /\ signals = {} /\ phase = "start"
      /\ past = [answered |-> {}, opened |-> {}, written |-> {}]
  BY DEF SandboxInit
<1>2. WireOK
  <2>1. requests \in Seq(RequestType) /\ captures \in Seq(CaptureType) /\ DOMAIN requests = {}
    BY <1>1
  <2>2. QED
    BY <1>1, <2>1 DEF WireOK
<1>3. PastOK
  BY <1>1 DEF PastOK
<1>4. ExfilOK /\ ToldOK
  BY <1>1 DEF ExfilOK, ToldOK, ExfilRead, HostsRead, WrittenRead, AccessRead
<1>5. QED
  BY <1>2, <1>3, <1>4 DEF SandboxOK

\* What the artifact does meanwhile takes nothing back.
LEMMA ArtifactKeeps ==
    ASSUME SandboxOK, Artifact
    PROVE  SandboxOK'
<1>1. CASE UNCHANGED <<requests, captures, past, phase, exfil, signals, setting>>
           /\ opened \subseteq opened' /\ written \subseteq written'
           /\ opened' \subseteq Decoys /\ written' \subseteq Paths
  <2>1. WireOK' /\ PastOK'
    BY <1>1 DEF SandboxOK, WireOK, PastOK, Captured
  <2>2. ExfilOK' /\ ToldOK'
    BY <1>1 DEF SandboxOK, ExfilOK, ToldOK
  <2>3. QED
    BY <2>1, <2>2 DEF SandboxOK
<1>2. ASSUME NEW p, NEW tokens \in SUBSET opened, NEW host \in Hosts \cup {Unknown}, NEW legible \in BOOLEAN,
             Request(p, tokens, host, legible)
      PROVE  SandboxOK'
  <2> DEFINE new == [seen |-> IF legible THEN tokens ELSE {}, host |-> host, state |-> "sent"]
  <2>1. /\ requests' = Append(requests, new) /\ new.state = "sent"
        /\ UNCHANGED <<captures, past, phase, exfil, signals, setting, opened, written>>
    BY <1>2 DEF Request, hookVars, runnerVars
  <2>2. new \in RequestType
    BY DEF SandboxOK, WireOK, RequestType
  <2> HIDE DEF new
  <2>3. requests \in Seq(RequestType) /\ Len(requests) \in Nat /\ DOMAIN requests = 1 .. Len(requests)
    BY DEF SandboxOK, WireOK
  <2>4. /\ requests' \in Seq(RequestType) /\ DOMAIN requests \subseteq DOMAIN requests'
        /\ \A n \in DOMAIN requests : requests'[n] = requests[n]
        /\ \A n \in DOMAIN requests' : n \in DOMAIN requests \/ requests'[n] = new
    BY <2>1, <2>2, <2>3, AppendProperties
  <2>5. WireOK'
    <3>1. \A n \in DOMAIN requests' : requests'[n].state # "sent" => n \in DOMAIN requests /\ requests'[n] = requests[n]
      BY <2>1, <2>4
    <3>2. \A seen, h : Captured(seen, h) => Captured(seen, h)'
      BY <2>1 DEF Captured
    <3>3. QED
      BY <2>1, <2>4, <3>1, <3>2 DEF SandboxOK, WireOK
  <2>6. PastOK' /\ \A n \in past'.answered : n \in DOMAIN requests /\ requests'[n] = requests[n]
    BY <2>1, <2>4 DEF SandboxOK, PastOK
  <2>7. ExfilOK' /\ ToldOK'
    BY <2>1, <2>6 DEF SandboxOK, ExfilOK, ToldOK
  <2>8. QED
    BY <2>5, <2>6, <2>7 DEF SandboxOK
<1>3. ASSUME NEW p \in Procs, NEW d \in Decoys, ReadDecoy(p, d)
      PROVE  SandboxOK'
  BY <1>1, <1>3 DEF ReadDecoy, runnerVars, SandboxOK, WireOK
<1>4. ASSUME NEW p \in Procs, NEW f \in Paths, Write(p, f)
      PROVE  SandboxOK'
  BY <1>1, <1>4 DEF Write, runnerVars, SandboxOK, WireOK
<1>5. ASSUME NEW p \in Procs, NEW own \in BOOLEAN, NEW pipes \in BOOLEAN, StartChild(own, pipes) \/ Exit(p)
      PROVE  SandboxOK'
  <2>1. /\ UNCHANGED <<requests, captures, past, phase, exfil, signals, setting, opened, written>>
        /\ opened \subseteq Decoys /\ written \subseteq Paths
    BY <1>5 DEF StartChild, Exit, runnerVars, SandboxOK, WireOK
  <2>2. QED
    BY <1>1, <2>1
<1>6. QED
  BY <1>2, <1>3, <1>4, <1>5 DEF Artifact

LEMMA SinkKeeps ==
    ASSUME SandboxOK, Sink
    PROVE  SandboxOK'
<1>1. PICK n \in DOMAIN requests : Hear(n) \/ Answer(n)
  BY DEF Sink
<1>2. /\ requests \in Seq(RequestType) /\ captures \in Seq(CaptureType) /\ Len(captures) \in Nat
      /\ DOMAIN captures = 1 .. Len(captures) /\ requests[n] \in RequestType
  BY DEF SandboxOK, WireOK
<1>3. UNCHANGED <<past, phase, exfil, signals, setting, opened, written>>
  BY <1>1 DEF Hear, Answer, hookVars, runnerVars
<1>4. PICK state \in {"heard", "answered"} : requests' = [requests EXCEPT ![n].state = state]
  BY <1>1 DEF Hear, Answer
<1>5. PICK r : r = [requests[n] EXCEPT !.state = state]
  OBVIOUS
<1>6. r \in RequestType /\ r.seen = requests[n].seen /\ r.host = requests[n].host /\ r.state = state
  BY <1>2, <1>5 DEF RequestType
<1>7. requests' = [requests EXCEPT ![n] = r]
  BY <1>4, <1>5
<1>8. /\ requests' \in Seq(RequestType) /\ DOMAIN requests' = DOMAIN requests
      /\ requests'[n] = r /\ \A m \in DOMAIN requests \ {n} : requests'[m] = requests[m]
  BY <1>2, <1>6, <1>7, ExceptSeq
<1>9. /\ captures' \in Seq(CaptureType) /\ DOMAIN captures \subseteq DOMAIN captures'
      /\ \A c \in DOMAIN captures : captures'[c] = captures[c]
      /\ \E c \in DOMAIN captures' : captures'[c].seen = requests[n].seen /\ captures'[c].host = requests[n].host
  <2>1. CASE Hear(n)
    <3> DEFINE new == [seen |-> requests[n].seen, host |-> requests[n].host]
    <3>1. captures' = Append(captures, new) /\ new \in CaptureType
      BY <1>2, <2>1 DEF Hear, RequestType, CaptureType
    <3>2. new.seen = requests[n].seen /\ new.host = requests[n].host
      OBVIOUS
    <3> HIDE DEF new
    <3>3. /\ captures' \in Seq(CaptureType) /\ DOMAIN captures' = 1 .. Len(captures) + 1
          /\ \A c \in DOMAIN captures : captures'[c] = captures[c]
          /\ captures'[Len(captures) + 1] = new
      BY <1>2, <3>1, AppendProperties
    <3>4. QED
      BY <1>2, <3>2, <3>3
  <2>2. CASE Answer(n)
    <3>1. captures' = captures /\ requests[n].state = "heard"
      BY <2>2 DEF Answer
    <3>2. QED
      BY <1>2, <3>1 DEF SandboxOK, WireOK, Captured
  <2>3. QED
    BY <1>1, <2>1, <2>2
<1>10. WireOK'
  <2>1. \A seen, h : Captured(seen, h) => Captured(seen, h)'
    BY <1>9 DEF Captured
  <2>2. \A seen, h : seen = requests[n].seen /\ h = requests[n].host => Captured(seen, h)'
    BY <1>9 DEF Captured
  <2>3. QED
    BY <1>3, <1>6, <1>8, <1>9, <2>1, <2>2 DEF SandboxOK, WireOK
<1>11. PastOK' /\ \A m \in past'.answered : m \in DOMAIN requests /\ requests'[m] = requests[m]
  <2>1. requests[n].state # "answered"
    BY <1>1 DEF Hear, Answer
  <2>2. QED
    BY <1>3, <1>8, <2>1 DEF SandboxOK, PastOK
<1>12. ExfilOK' /\ ToldOK'
  BY <1>3, <1>9, <1>11 DEF SandboxOK, ExfilOK, ToldOK
<1>13. QED
  BY <1>10, <1>11, <1>12 DEF SandboxOK

\* A token that was sent and answered is found in the captures, with a destination of theirs.
LEMMA TokensFound ==
    ASSUME WireOK
    PROVE  /\ \A n \in DOMAIN requests : requests[n].state # "sent" => requests[n].seen \subseteq Tokens
           /\ \A d \in Tokens : \E c \in DOMAIN captures : captures[c].host = LastWith(d)
<1>1. /\ requests \in Seq(RequestType) /\ captures \in Seq(CaptureType)
      /\ Len(captures) \in Nat /\ DOMAIN captures = 1 .. Len(captures)
  BY DEF WireOK
<1>2. ASSUME NEW n \in DOMAIN requests, requests[n].state # "sent", NEW d \in requests[n].seen
      PROVE  d \in Tokens
  <2>1. PICK c \in DOMAIN captures : captures[c].seen = requests[n].seen
    BY <1>2 DEF WireOK, Captured
  <2>2. requests[n] \in RequestType /\ d \in Decoys
    <3>1. requests[n] \in RequestType
      BY <1>1
    <3>2. requests[n].seen \subseteq Decoys
      BY <3>1 DEF RequestType
    <3>3. QED
      BY <1>2, <3>1, <3>2
  <2>3. c \in Holding(d)
    BY <1>2, <2>1 DEF Holding
  <2>4. QED
    BY <2>2, <2>3 DEF Tokens
<1>3. ASSUME NEW d \in Tokens
      PROVE  \E c \in DOMAIN captures : captures[c].host = LastWith(d)
  <2>1. Holding(d) \in SUBSET (1 .. Len(captures)) /\ Holding(d) # {}
    BY <1>1 DEF Holding, Tokens
  <2>2. \E m \in Holding(d) : \A i \in Holding(d) : i <= m
    BY <1>1, <2>1, LastExists
  <2> DEFINE m == CHOOSE i \in Holding(d) : \A o \in Holding(d) : o <= i
  <2>3. m \in Holding(d)
    BY <2>2, Zenon
  <2>4. captures[m].host = LastWith(d)
    BY DEF LastWith
  <2> HIDE DEF m
  <2>5. QED
    BY <1>1, <2>1, <2>3, <2>4
<1>4. QED
  BY <1>2, <1>3

LEMMA RunnerKeeps ==
    ASSUME SandboxOK, Runner
    PROVE  SandboxOK'
<1>1. WireOK /\ PastOK /\ ExfilOK /\ ToldOK
  BY DEF SandboxOK
<1>2. WireOK'
  <2>1. UNCHANGED <<requests, captures, opened, written>>
    BY DEF Runner, Skip, Detonate, Finished, TimeOut, Kill, Drain, ReadExfil, ReadHosts, ReadPersistence, ReadAccess,
           Remove, hookVars
  <2>2. QED
    BY <1>1, <2>1 DEF WireOK, Captured
<1>3. CASE Skip
  <2>1. /\ phase' = "skipped" /\ UNCHANGED <<past, requests, captures, opened, written, exfil, setting>>
        /\ signals' = {IF ~setting.backend THEN Flag("low", "G809", None) ELSE Flag("low", "G808", None)}
    BY <1>3 DEF Skip, hookVars
  <2>2. \A f \in signals' : f.code # "G801"
    BY <2>1 DEF Flag
  <2>3. PastOK' /\ ExfilOK' /\ ToldOK'
    BY <1>1, <2>1, <2>2 DEF PastOK, ExfilOK, ToldOK, ExfilRead, HostsRead, WrittenRead, AccessRead
  <2>4. QED
    BY <1>2, <2>3 DEF SandboxOK
<1>4. CASE Detonate \/ TimeOut \/ Kill
  <2>1. /\ phase' \in {"waiting", "kill", "drain"}
        /\ UNCHANGED <<past, requests, captures, opened, written, exfil, setting, signals>>
    BY <1>4 DEF Detonate, TimeOut, Kill, hookVars
  <2>2. PastOK' /\ ExfilOK' /\ ToldOK'
    BY <1>1, <2>1 DEF PastOK, ExfilOK, ToldOK, ExfilRead, HostsRead, WrittenRead, AccessRead
  <2>3. QED
    BY <1>2, <2>2 DEF SandboxOK
<1>5. CASE Finished \/ Drain
  <2>1. /\ phase' = "exfil" /\ past' = Noted
        /\ UNCHANGED <<requests, captures, opened, written, exfil, setting, signals>>
    BY <1>5 DEF Finished, Drain, hookVars
  <2>2. PastOK'
    BY <2>1 DEF PastOK, Noted
  <2>3. ExfilOK' /\ ToldOK'
    BY <1>1, <2>1 DEF ExfilOK, ToldOK, ExfilRead, HostsRead, WrittenRead, AccessRead
  <2>4. QED
    BY <1>2, <2>2, <2>3 DEF SandboxOK
<1>6. CASE ReadExfil
  <2>1. /\ phase' = "hosts" /\ exfil' = [d \in Tokens |-> LastWith(d)]
        /\ UNCHANGED <<past, requests, captures, opened, written, setting, signals>>
    BY <1>6 DEF ReadExfil, hookVars
  <2>2. PastOK'
    BY <1>1, <2>1 DEF PastOK
  <2>3. ExfilOK'
    <3>1. Tokens \subseteq Decoys /\ captures \in Seq(CaptureType) /\ DOMAIN exfil' = Tokens
      BY <1>1, <2>1 DEF Tokens, WireOK
    <3>2. \A n \in past.answered : requests[n].seen \subseteq Tokens
      BY <1>1, TokensFound DEF PastOK
    <3>3. \A d \in DOMAIN exfil' : \E c \in DOMAIN captures : captures[c].host = exfil'[d]
      BY <1>1, <2>1, TokensFound
    <3>4. \A d \in DOMAIN exfil' : exfil'[d] \in Hosts \cup {Unknown}
      <4>1. \A c \in DOMAIN captures : captures[c] \in CaptureType
        BY <3>1
      <4>2. \A c \in DOMAIN captures : captures[c].host \in Hosts \cup {Unknown}
        BY <4>1 DEF CaptureType
      <4>3. QED
        BY <3>3, <4>2
    <3>5. QED
      BY <2>1, <3>1, <3>2, <3>3, <3>4 DEF ExfilOK
  <2>4. ToldOK'
    BY <1>1, <2>1 DEF ToldOK, ExfilRead, HostsRead, WrittenRead, AccessRead
  <2>5. QED
    BY <1>2, <2>2, <2>3, <2>4 DEF SandboxOK
<1>7. CASE ReadHosts
  <2>1. /\ phase = "hosts" /\ phase' = "persist"
        /\ signals' = {Flag("high", "G801", <<d, exfil[d]>>) : d \in DOMAIN exfil}
                      \cup {Flag("medium", "G802", host) : host \in Destinations}
        /\ UNCHANGED <<past, requests, captures, opened, written, setting, exfil>>
    BY <1>7 DEF ReadHosts, hookVars
  <2>2. PastOK' /\ ExfilOK'
    BY <1>1, <2>1 DEF PastOK, ExfilOK, ExfilRead
  <2>3. \A n \in past.answered : requests[n].host # Unknown => requests[n].host \in Destinations
    BY <1>1 DEF PastOK, WireOK, Captured, Destinations
  <2>4. \A d \in DOMAIN exfil : exfil[d] # Unknown => exfil[d] \in Destinations
    BY <1>1, <2>1 DEF ExfilOK, ExfilRead, Destinations
  <2>5. \A host \in Destinations : Flag("medium", "G802", host) \in signals'
    BY <2>1
  <2>6. \A d \in DOMAIN exfil : Flag("high", "G801", <<d, exfil[d]>>) \in signals'
    BY <2>1
  <2>7. ASSUME NEW f \in signals', f.code = "G801", f.at[2] # Unknown
        PROVE  Flag("medium", "G802", f.at[2]) \in signals'
    <3>1. \A host : Flag("medium", "G802", host).code = "G802"
      BY DEF Flag
    <3>2. PICK d \in DOMAIN exfil : f = Flag("high", "G801", <<d, exfil[d]>>)
      BY <2>1, <2>7, <3>1
    <3>3. f.at[2] = exfil[d]
      BY <3>2 DEF Flag
    <3>4. QED
      BY <2>4, <2>5, <2>7, <3>3
  <2>8. ToldOK'
    BY <2>1, <2>3, <2>5, <2>6, <2>7 DEF ToldOK, HostsRead, WrittenRead, AccessRead, ExfilRead
  <2>9. QED
    BY <1>2, <2>2, <2>8 DEF SandboxOK
<1>8. CASE ReadPersistence
  <2>1. /\ phase = "persist" /\ phase' = "access"
        /\ signals' = signals \cup {Flag("high", "G803", f) : f \in written}
        /\ UNCHANGED <<past, requests, captures, opened, written, setting, exfil>>
    BY <1>8 DEF ReadPersistence, hookVars
  <2>2. PastOK' /\ ExfilOK'
    BY <1>1, <2>1 DEF PastOK, ExfilOK, ExfilRead
  <2>3. \A f \in past.written : Flag("high", "G803", f) \in signals'
    BY <1>1, <2>1 DEF PastOK
  <2>4. signals \subseteq signals' /\ \A f \in signals' : f.code = "G801" => f \in signals
    BY <2>1 DEF Flag
  <2>5. ToldOK'
    BY <1>1, <2>1, <2>3, <2>4 DEF ToldOK, HostsRead, WrittenRead, AccessRead, ExfilRead
  <2>6. QED
    BY <1>2, <2>2, <2>5 DEF SandboxOK
<1>9. CASE ReadAccess
  <2>1. /\ phase = "access" /\ phase' = "remove"
        /\ signals' = signals \cup {Flag("medium", "G804", d) : d \in Touched}
                      \cup FlagIf(timedOut, Flag("medium", "G805", None))
        /\ UNCHANGED <<past, requests, captures, opened, written, setting, exfil>>
    BY <1>9 DEF ReadAccess, hookVars
  <2>2. PastOK' /\ ExfilOK'
    BY <1>1, <2>1 DEF PastOK, ExfilOK, ExfilRead
  <2>3. setting.atimes => \A d \in past.opened : d \in DOMAIN exfil \/ Flag("medium", "G804", d) \in signals'
    BY <1>1, <2>1 DEF PastOK, Touched
  <2>4. signals \subseteq signals' /\ \A f \in signals' : f.code = "G801" => f \in signals
    BY <2>1 DEF Flag, FlagIf
  <2>5. ToldOK'
    BY <1>1, <2>1, <2>3, <2>4 DEF ToldOK, HostsRead, WrittenRead, AccessRead, ExfilRead
  <2>6. QED
    BY <1>2, <2>2, <2>5 DEF SandboxOK
<1>10. CASE Remove
  <2>1. /\ phase = "remove" /\ phase' \in {"done", "raised"}
        /\ UNCHANGED <<past, requests, captures, opened, written, setting, exfil, signals>>
    BY <1>10 DEF Remove, hookVars
  <2>2. PastOK' /\ ExfilOK' /\ ToldOK'
    BY <1>1, <2>1 DEF PastOK, ExfilOK, ToldOK, HostsRead, WrittenRead, AccessRead, ExfilRead
  <2>3. QED
    BY <1>2, <2>2 DEF SandboxOK
<1>11. QED
  BY <1>3, <1>4, <1>5, <1>6, <1>7, <1>8, <1>9, <1>10 DEF Runner

-----------------------------------------------------------------------------
(* The pickle scanner beside the loader it predicts.                       *)

\* The strings pushed last lie on the loader's stack; the memos hold the same strings.
StackAgrees(recent, stack) ==
    /\ Len(recent) >= 1 /\ recent[Len(recent)] \in Strings =>
         Len(stack) >= 1 /\ stack[Len(stack)] = recent[Len(recent)]
    /\ Len(recent) >= 2 /\ recent[Len(recent)] \in Strings /\ recent[Len(recent) - 1] \in Strings =>
         Len(stack) >= 2 /\ stack[Len(stack) - 1] = recent[Len(recent) - 1]
MemoAgrees(memo, loaded) ==
    /\ DOMAIN memo = DOMAIN loaded
    /\ \A n \in DOMAIN memo : memo[n] \in Strings => loaded[n] = memo[n]
Valued(memo) == \A n \in DOMAIN memo : memo[n] \in Values

IsScan(s) ==
    /\ s = [imports |-> s.imports, unresolved |-> s.unresolved, recent |-> s.recent, memo |-> s.memo, cut |-> s.cut,
            streams |-> s.streams, fresh |-> s.fresh, end |-> s.end]
    /\ s.imports \subseteq Imports /\ s.unresolved \in BOOLEAN /\ s.end \in Ends
    /\ s.recent \in Seq(Values) /\ Len(s.recent) <= Remembered /\ Valued(s.memo)
    /\ s.cut \in BOOLEAN /\ s.streams \in BOOLEAN /\ s.fresh \in BOOLEAN
IsVm(v) ==
    /\ v = [stack |-> v.stack, memo |-> v.memo, loaded |-> v.loaded, raised |-> v.raised]
    /\ v.stack \in Seq(Values) /\ Valued(v.memo) /\ v.loaded \subseteq Imports /\ v.raised \in BOOLEAN

\* A loader that raised takes no further part.
ScannerOK ==
    /\ IsScan(scan) /\ IsVm(vm) /\ count \in 0 .. MaxOps
    /\ ~vm.raised => StackAgrees(scan.recent, vm.stack) /\ MemoAgrees(scan.memo, vm.memo)
    /\ ImportsAreSeen

LEMMA SomeMaxOps == MaxOps \in Nat /\ Remembered \in Nat /\ Remembered >= 2 /\ Other \in Values /\ Other \notin Strings
                    /\ Strings \subseteq Values
  BY PickleAssumption DEF Values

LEMMA RememberIs ==
    ASSUME IsScan(scan), NEW v \in Values
    PROVE  /\ Remember(v) \in Seq(Values) /\ Len(Remember(v)) \in 1 .. Remembered
           /\ Remember(v)[Len(Remember(v))] = v
           /\ Len(Remember(v)) >= 2 => /\ Len(scan.recent) >= 1
                                       /\ Remember(v)[Len(Remember(v)) - 1] = scan.recent[Len(scan.recent)]
<1> DEFINE r == scan.recent
           all == Append(r, v)
           k == Len(r)
<1>1. r \in Seq(Values) /\ k \in Nat /\ k <= Remembered /\ Remembered \in Nat /\ Remembered >= 2
  BY SomeMaxOps DEF IsScan
<1>2. /\ all \in Seq(Values) /\ Len(all) = k + 1 /\ all[k + 1] = v
      /\ \A i \in 1 .. k : all[i] = r[i]
  BY <1>1, AppendProperties
<1>3. CASE k + 1 <= Remembered
  <2>1. Remember(v) = all
    BY <1>2, <1>3 DEF Remember
  <2>2. QED
    BY <1>1, <1>2, <1>3, <2>1
<1>4. CASE ~(k + 1 <= Remembered)
  <2>1. k = Remembered
    BY <1>1, <1>4
  <2>2. Remember(v) = SubSeq(all, 2, k + 1)
    BY <1>1, <1>2, <1>4, <2>1 DEF Remember
  <2> HIDE DEF all
  <2>3. \A i \in 2 .. k + 1 : all[i] \in Values
    BY <1>1, <1>2
  <2>4. /\ SubSeq(all, 2, k + 1) \in Seq(Values) /\ Len(SubSeq(all, 2, k + 1)) = k
        /\ \A i \in 1 .. k : SubSeq(all, 2, k + 1)[i] = all[i + 1]
    <3>1. 2 \in Int /\ k + 1 \in Int /\ 2 <= k + 1
      BY <1>1, <2>1
    <3>2. /\ SubSeq(all, 2, k + 1) \in Seq(Values)
          /\ Len(SubSeq(all, 2, k + 1)) = IF 2 <= k + 1 THEN k + 1 - 2 + 1 ELSE 0
          /\ \A i \in 1 .. k + 1 - 2 + 1 : SubSeq(all, 2, k + 1)[i] = all[2 + i - 1]
      BY <2>3, <3>1, SubSeqProperties
    <3>3. k + 1 - 2 + 1 = k /\ \A i \in 1 .. k : 2 + i - 1 = i + 1
      BY <1>1
    <3>4. QED
      BY <3>1, <3>2, <3>3
  <2>5. QED
    BY <1>1, <1>2, <2>1, <2>2, <2>4
<1>5. QED
  BY <1>3, <1>4

\* What is pushed on both sides, as the same string or unseen.
LEMMA PushAgrees ==
    ASSUME IsScan(scan), NEW v \in Values, NEW s \in Seq(Values), NEW w \in Values,
           StackAgrees(scan.recent, s), v \in Strings => w = v
    PROVE  StackAgrees(Remember(v), Append(s, w))
<1>1. /\ Len(s) \in Nat /\ Len(Append(s, w)) = Len(s) + 1 /\ Append(s, w)[Len(s) + 1] = w
      /\ \A i \in 1 .. Len(s) : Append(s, w)[i] = s[i]
  BY AppendProperties
<1>2. PICK r : r = Remember(v)
  OBVIOUS
<1>3. PICK a : a = Append(s, w)
  OBVIOUS
<1>4. /\ Len(r) \in Nat /\ r[Len(r)] = v
      /\ Len(r) >= 2 => Len(scan.recent) >= 1 /\ r[Len(r) - 1] = scan.recent[Len(scan.recent)]
  <2>1. /\ Len(Remember(v)) \in 1 .. Remembered /\ Remember(v)[Len(Remember(v))] = v
        /\ Len(Remember(v)) >= 2 => /\ Len(scan.recent) >= 1
                                    /\ Remember(v)[Len(Remember(v)) - 1] = scan.recent[Len(scan.recent)]
    BY RememberIs
  <2>2. Remembered \in Nat
    BY SomeMaxOps
  <2>3. QED
    BY <1>2, <2>1, <2>2
<1>5. StackAgrees(r, a)
  <2>1. Len(a) = Len(s) + 1 /\ a[Len(s) + 1] = w /\ \A i \in 1 .. Len(s) : a[i] = s[i]
    BY <1>1, <1>3
  <2>2. CASE v \in Strings
    <3>1. ASSUME Len(r) >= 2, r[Len(r) - 1] \in Strings
          PROVE  Len(a) >= 2 /\ a[Len(a) - 1] = r[Len(r) - 1]
      <4>1. Len(s) >= 1 /\ s[Len(s)] = r[Len(r) - 1]
        BY <1>4, <3>1 DEF StackAgrees
      <4>2. Len(a) - 1 = Len(s) /\ Len(s) \in 1 .. Len(s)
        BY <1>1, <2>1, <4>1
      <4>3. QED
        BY <1>1, <2>1, <4>1, <4>2
    <3>2. Len(a) >= 1 /\ a[Len(a)] = v
      BY <1>1, <2>1, <2>2
    <3>3. QED
      BY <1>4, <3>1, <3>2 DEF StackAgrees
  <2>3. CASE v \notin Strings
    BY <1>4, <2>3 DEF StackAgrees
  <2>4. QED
    BY <2>2, <2>3
<1>6. QED
  BY <1>2, <1>3, <1>5

LEMMA OtherAgrees ==
    ASSUME IsScan(scan), NEW s
    PROVE  StackAgrees(Remember(Other), s)
  BY RememberIs, SomeMaxOps DEF StackAgrees

LEMMA WithAgrees ==
    ASSUME NEW m, NEW k, NEW n, NEW v \in Values, NEW w \in Values, Valued(m), Valued(k)
    PROVE  /\ Valued(With(m, n, v)) /\ Valued(With(k, n, w))
           /\ MemoAgrees(m, k) /\ (v \in Strings => w = v) => MemoAgrees(With(m, n, v), With(k, n, w))
<1>1. PICK a, b : a = With(m, n, v) /\ b = With(k, n, w)
  OBVIOUS
<1>2. /\ DOMAIN a = DOMAIN m \cup {n} /\ a[n] = v /\ \A i \in DOMAIN m \ {n} : a[i] = m[i]
      /\ DOMAIN b = DOMAIN k \cup {n} /\ b[n] = w /\ \A i \in DOMAIN k \ {n} : b[i] = k[i]
  <2>1. /\ DOMAIN With(m, n, v) = DOMAIN m \cup {n} /\ With(m, n, v)[n] = v
        /\ \A i \in DOMAIN m \ {n} : With(m, n, v)[i] = m[i]
    BY DEF With
  <2>2. /\ DOMAIN With(k, n, w) = DOMAIN k \cup {n} /\ With(k, n, w)[n] = w
        /\ \A i \in DOMAIN k \ {n} : With(k, n, w)[i] = k[i]
    BY DEF With
  <2>3. QED
    BY <1>1, <2>1, <2>2
<1>3. Valued(a) /\ Valued(b)
  BY <1>2 DEF Valued
<1>4. MemoAgrees(m, k) /\ (v \in Strings => w = v) => MemoAgrees(a, b)
  BY <1>2 DEF MemoAgrees
<1>5. QED
  BY <1>1, <1>3, <1>4

\* The scanner's record after an opcode.
Shape(imports, unresolved, recent, memo, cut, streams, fresh) ==
    [imports |-> imports, unresolved |-> unresolved, recent |-> recent, memo |-> memo, cut |-> cut,
     streams |-> streams, fresh |-> fresh, end |-> scan.end]
\* What every opcode does to the scanner: it remembers, and forgets nothing it found.
Scans(imports, unresolved, recent, memo) ==
    /\ \E cut, streams, fresh \in BOOLEAN :
         scan' = Shape(imports, unresolved, recent, memo, cut, streams, fresh)
    /\ recent \in Seq(Values) /\ Len(recent) <= Remembered /\ Valued(memo)
    /\ imports \subseteq Imports /\ scan.imports \subseteq imports
    /\ unresolved \in BOOLEAN /\ (scan.unresolved => unresolved)
\* And to the loader.
Executed(stack, memo, loaded) ==
    /\ vm' = [stack |-> stack, memo |-> memo, loaded |-> loaded, raised |-> FALSE]
    /\ ~vm.raised /\ stack \in Seq(Values) /\ Valued(memo) /\ loaded \subseteq Imports

LEMMA StepFits ==
    ASSUME ScannerOK, Reading, count' = count + 1,
           NEW imports, NEW unresolved, NEW recent, NEW memo, Scans(imports, unresolved, recent, memo)
    PROVE  /\ vm' = [vm EXCEPT !.raised = TRUE] => ScannerOK'
           /\ \A stack, kept, loaded :
                /\ Executed(stack, kept, loaded)
                /\ StackAgrees(recent, stack) /\ MemoAgrees(memo, kept)
                /\ vm.loaded \subseteq scan.imports => loaded \subseteq imports \/ unresolved
                => ScannerOK'
<1>1. IsScan(scan) /\ IsVm(vm) /\ count' \in 0 .. MaxOps
  BY SomeMaxOps DEF ScannerOK, Reading
<1>2. PICK cut, streams, fresh \in BOOLEAN : scan' = Shape(imports, unresolved, recent, memo, cut, streams, fresh)
  BY DEF Scans
<1>3. /\ IsScan(scan)' /\ scan'.imports = imports /\ scan'.unresolved = unresolved
      /\ scan'.recent = recent /\ scan'.memo = memo
  <2>1. PICK s : s = Shape(imports, unresolved, recent, memo, cut, streams, fresh)
    OBVIOUS
  <2>2. /\ s = [imports |-> imports, unresolved |-> unresolved, recent |-> recent, memo |-> memo, cut |-> cut,
                streams |-> streams, fresh |-> fresh, end |-> scan.end]
        /\ s.imports = imports /\ s.unresolved = unresolved /\ s.recent = recent /\ s.memo = memo
        /\ s.cut = cut /\ s.streams = streams /\ s.fresh = fresh /\ s.end = scan.end
    BY <2>1 DEF Shape
  <2>3. s = [imports |-> s.imports, unresolved |-> s.unresolved, recent |-> s.recent, memo |-> s.memo, cut |-> s.cut,
             streams |-> s.streams, fresh |-> s.fresh, end |-> s.end]
    BY <2>2
  <2>4. scan.end \in Ends
    BY <1>1 DEF IsScan
  <2>5. IsScan(s)
    BY <2>2, <2>3, <2>4 DEF IsScan, Scans
  <2>6. scan' = s
    BY <1>2, <2>1
  <2>7. IsScan(scan)'
    BY <2>5, <2>6 DEF IsScan
  <2>8. QED
    BY <2>2, <2>6, <2>7
<1>4. ASSUME vm' = [vm EXCEPT !.raised = TRUE]
      PROVE  ScannerOK'
  <2>1. IsVm(vm)' /\ vm'.raised = TRUE /\ vm'.loaded = vm.loaded
    BY <1>1, <1>4 DEF IsVm
  <2>2. ImportsAreSeen'
    <3>1. vm.loaded \subseteq scan.imports \/ scan.unresolved
      BY DEF ScannerOK, ImportsAreSeen
    <3>2. scan.imports \subseteq imports /\ (scan.unresolved => unresolved)
      BY DEF Scans
    <3>3. vm.loaded \subseteq scan.imports => vm.loaded \subseteq imports
      BY <3>2
    <3>4. vm'.loaded \subseteq scan'.imports \/ scan'.unresolved
      BY <1>3, <2>1, <3>1, <3>2, <3>3, Zenon
    <3>5. QED
      BY <3>4, Zenon DEF ImportsAreSeen
  <2>3. QED
    BY <1>1, <1>3, <2>1, <2>2 DEF ScannerOK
<1>5. ASSUME NEW stack, NEW kept, NEW loaded, Executed(stack, kept, loaded),
             StackAgrees(recent, stack), MemoAgrees(memo, kept),
             vm.loaded \subseteq scan.imports => loaded \subseteq imports \/ unresolved
      PROVE  ScannerOK'
  <2>1. IsVm(vm)' /\ vm'.stack = stack /\ vm'.memo = kept /\ vm'.loaded = loaded
    <3>1. PICK v : v = [stack |-> stack, memo |-> kept, loaded |-> loaded, raised |-> FALSE]
      OBVIOUS
    <3>2. v.stack = stack /\ v.memo = kept /\ v.loaded = loaded /\ v.raised = FALSE
      BY <3>1
    <3>3. IsVm(v)
      BY <1>5, <3>1, <3>2 DEF IsVm, Executed
    <3>4. vm' = v
      BY <1>5, <3>1 DEF Executed
    <3>5. QED
      BY <3>2, <3>3, <3>4 DEF IsVm
  <2>2. ImportsAreSeen'
    <3>1. vm.loaded \subseteq scan.imports \/ scan.unresolved
      BY DEF ScannerOK, ImportsAreSeen
    <3>2. scan.unresolved => unresolved
      BY DEF Scans
    <3>3. vm'.loaded \subseteq scan'.imports \/ scan'.unresolved
      BY <1>3, <1>5, <2>1, <3>1, <3>2, Zenon
    <3>4. QED
      BY <3>3, Zenon DEF ImportsAreSeen
  <2>3. StackAgrees(scan.recent, vm.stack)' /\ MemoAgrees(scan.memo, vm.memo)'
    BY <1>3, <1>5, <2>1 DEF StackAgrees, MemoAgrees
  <2>4. QED
    BY <1>1, <1>3, <2>1, <2>2, <2>3 DEF ScannerOK
<1>6. QED
  BY <1>4, <1>5

\* The loader's stack.
LEMMA StackParts ==
    ASSUME IsVm(vm)
    PROVE  /\ vm.stack \in Seq(Values) /\ Len(vm.stack) \in Nat
           /\ Has(1) => Top(1) = vm.stack[Len(vm.stack)] /\ Top(1) \in Values
           /\ Has(2) => Top(2) = vm.stack[Len(vm.stack) - 1] /\ Top(2) \in Values
           /\ \A n \in 1 .. 2 : Has(n) => Without(n) \in Seq(Values)
<1>1. vm.stack \in Seq(Values) /\ Len(vm.stack) \in Nat
  BY DEF IsVm
<1>2. PICK k : k = Len(vm.stack)
  OBVIOUS
<1>3. ASSUME NEW n \in 1 .. 2, Has(n)
      PROVE  Without(n) \in Seq(Values)
  <2>1. k - n \in Int /\ \A i \in 1 .. k - n : vm.stack[i] \in Values
    BY <1>1, <1>2, <1>3
  <2>2. SubSeq(vm.stack, 1, k - n) \in Seq(Values)
    BY <2>1, SubSeqProperties
  <2>3. QED
    BY <1>2, <2>2 DEF Without
<1>4. Has(1) => Top(1) = vm.stack[Len(vm.stack)] /\ Top(1) \in Values
  <2>1. k - 1 + 1 = k
    BY <1>1, <1>2
  <2>2. QED
    BY <1>1, <1>2, <2>1 DEF Has, Top
<1>5. Has(2) => Top(2) = vm.stack[Len(vm.stack) - 1] /\ Top(2) \in Values
  <2>1. k - 2 + 1 = k - 1
    BY <1>1, <1>2
  <2>2. QED
    BY <1>1, <1>2, <2>1 DEF Has, Top
<1>6. QED
  BY <1>1, <1>3, <1>4, <1>5

\* The scanner's side of an opcode that it does not list: a value, or none.
LEMMA RecentScans ==
    ASSUME ScannerOK, NEW v \in Values, Scanned([scan EXCEPT !.recent = Remember(v)])
    PROVE  Scans(scan.imports, scan.unresolved, Remember(v), scan.memo)
<1>1. IsScan(scan)
  BY DEF ScannerOK
<1>2. scan' = Shape(scan.imports, scan.unresolved, Remember(v), scan.memo, scan.cut, scan.streams, FALSE)
  BY <1>1 DEF Scanned, Shape, IsScan
<1>3. scan.cut \in BOOLEAN /\ scan.streams \in BOOLEAN /\ FALSE \in BOOLEAN
  BY <1>1 DEF IsScan
<1>4. \E cut, streams, fresh \in BOOLEAN :
        scan' = Shape(scan.imports, scan.unresolved, Remember(v), scan.memo, cut, streams, fresh)
  BY <1>2, <1>3
<1>5. Remember(v) \in Seq(Values) /\ Len(Remember(v)) <= Remembered
  BY <1>1, RememberIs, SomeMaxOps
<1>6. QED
  BY <1>1, <1>4, <1>5 DEF Scans, IsScan

LEMMA MemoScans ==
    ASSUME ScannerOK, NEW memo, Valued(memo), Scanned([scan EXCEPT !.memo = memo])
    PROVE  Scans(scan.imports, scan.unresolved, scan.recent, memo)
<1>1. IsScan(scan)
  BY DEF ScannerOK
<1>2. scan' = Shape(scan.imports, scan.unresolved, scan.recent, memo, scan.cut, scan.streams, FALSE)
  BY <1>1 DEF Scanned, Shape, IsScan
<1>3. scan.cut \in BOOLEAN /\ scan.streams \in BOOLEAN /\ FALSE \in BOOLEAN
  BY <1>1 DEF IsScan
<1>4. \E cut, streams, fresh \in BOOLEAN :
        scan' = Shape(scan.imports, scan.unresolved, scan.recent, memo, cut, streams, fresh)
  BY <1>2, <1>3
<1>5. QED
  BY <1>1, <1>4 DEF Scans, IsScan

\* An import: listed, or counted as unresolved.
LEMMA ImportScans ==
    ASSUME ScannerOK, NEW imports, NEW unresolved \in BOOLEAN,
           imports \subseteq Imports, scan.imports \subseteq imports, scan.unresolved => unresolved,
           Scanned([scan EXCEPT !.imports = imports, !.unresolved = unresolved, !.cut = TRUE, !.recent = Remember(Other)])
    PROVE  Scans(imports, unresolved, Remember(Other), scan.memo)
<1>1. IsScan(scan)
  BY DEF ScannerOK
<1>2. scan' = Shape(imports, unresolved, Remember(Other), scan.memo, TRUE, scan.streams, FALSE)
  BY <1>1 DEF Scanned, Shape, IsScan
<1>3. scan.streams \in BOOLEAN /\ FALSE \in BOOLEAN /\ TRUE \in BOOLEAN
  BY <1>1 DEF IsScan
<1>4. \E cut, streams, fresh \in BOOLEAN :
        scan' = Shape(imports, unresolved, Remember(Other), scan.memo, cut, streams, fresh)
  BY <1>2, <1>3
<1>5. Remember(Other) \in Seq(Values) /\ Len(Remember(Other)) <= Remembered /\ Valued(scan.memo)
  BY <1>1, RememberIs, SomeMaxOps DEF IsScan
<1>6. QED
  BY <1>4, <1>5 DEF Scans

\* A value that the scanner does not see as a string, whatever the loader makes of it.
LEMMA UnseenKeeps ==
    ASSUME ScannerOK, Reading, Scanned([scan EXCEPT !.recent = Remember(Other)]),
           NEW possible \in BOOLEAN, NEW stack, possible => stack \in Seq(Values),
           Runs(possible, [vm EXCEPT !.stack = stack])
    PROVE  ScannerOK'
<1>1. Scans(scan.imports, scan.unresolved, Remember(Other), scan.memo) /\ count' = count + 1
  BY RecentScans, SomeMaxOps DEF Scanned
<1>2. CASE vm' = [vm EXCEPT !.raised = TRUE]
  BY <1>1, <1>2, StepFits
<1>3. CASE vm' # [vm EXCEPT !.raised = TRUE]
  <2>1. ~vm.raised /\ possible /\ vm' = [vm EXCEPT !.stack = stack]
    BY <1>3 DEF Runs
  <2>2. Executed(stack, vm.memo, vm.loaded)
    BY <2>1 DEF Executed, ScannerOK, IsVm
  <2>3. StackAgrees(Remember(Other), stack) /\ MemoAgrees(scan.memo, vm.memo)
    BY <2>1, OtherAgrees DEF ScannerOK
  <2>4. QED
    BY <1>1, <2>2, <2>3, StepFits
<1>4. QED
  BY <1>2, <1>3

\* The same value pushed on both sides, or one the scanner does not see.
LEMMA SeenKeeps ==
    ASSUME ScannerOK, Reading, NEW v \in Values, Scanned([scan EXCEPT !.recent = Remember(v)]),
           NEW possible \in BOOLEAN, NEW w, ~vm.raised /\ possible => w \in Values /\ (v \in Strings => w = v),
           Runs(possible, Pushes(w))
    PROVE  ScannerOK'
<1>1. Scans(scan.imports, scan.unresolved, Remember(v), scan.memo) /\ count' = count + 1
  BY RecentScans DEF Scanned
<1>2. CASE vm' = [vm EXCEPT !.raised = TRUE]
  BY <1>1, <1>2, StepFits
<1>3. CASE vm' # [vm EXCEPT !.raised = TRUE]
  <2>1. ~vm.raised /\ possible /\ vm' = [vm EXCEPT !.stack = Append(vm.stack, w)]
    BY <1>3 DEF Runs, Pushes
  <2>2. w \in Values /\ (v \in Strings => w = v) /\ vm.stack \in Seq(Values)
    BY <2>1 DEF ScannerOK, IsVm
  <2>3. Append(vm.stack, w) \in Seq(Values)
    BY <2>2
  <2>4. Executed(Append(vm.stack, w), vm.memo, vm.loaded)
    BY <2>1, <2>3 DEF Executed, ScannerOK, IsVm
  <2>5. StackAgrees(Remember(v), Append(vm.stack, w)) /\ MemoAgrees(scan.memo, vm.memo)
    BY <2>1, <2>2, PushAgrees DEF ScannerOK
  <2>6. QED
    BY <1>1, <2>4, <2>5, StepFits
<1>4. QED
  BY <1>2, <1>3

\* PUT and MEMOIZE: both sides keep what they take for the value pushed last.
LEMMA MemoKeeps ==
    ASSUME ScannerOK, Reading, NEW n, NEW m, ~vm.raised => m = n,
           Scanned([scan EXCEPT !.memo = With(scan.memo, n, LastPushed)]),
           Runs(Has(1), [vm EXCEPT !.memo = With(vm.memo, m, Top(1))])
    PROVE  ScannerOK'
<1>1. LastPushed \in Values /\ (LastPushed \in Strings => /\ Len(scan.recent) >= 1
                                                         /\ LastPushed = scan.recent[Len(scan.recent)])
  <2>1. scan.recent \in Seq(Values) /\ (scan.recent # <<>> => Len(scan.recent) \in Nat \ {0})
    BY DEF ScannerOK, IsScan
  <2>2. QED
    BY <2>1, SomeMaxOps DEF LastPushed
<1>2. IsVm(vm) /\ Valued(scan.memo) /\ Valued(vm.memo)
  BY DEF ScannerOK, IsScan, IsVm
<1>3. Valued(With(scan.memo, n, LastPushed))
  BY <1>1, <1>2, WithAgrees
<1>4. Scans(scan.imports, scan.unresolved, scan.recent, With(scan.memo, n, LastPushed)) /\ count' = count + 1
  BY <1>3, MemoScans DEF Scanned
<1>5. CASE vm' = [vm EXCEPT !.raised = TRUE]
  BY <1>4, <1>5, StepFits
<1>6. CASE vm' # [vm EXCEPT !.raised = TRUE]
  <2>1. ~vm.raised /\ Has(1) /\ m = n /\ vm' = [vm EXCEPT !.memo = With(vm.memo, n, Top(1))]
    BY <1>6 DEF Runs
  <2>2. StackAgrees(scan.recent, vm.stack) /\ MemoAgrees(scan.memo, vm.memo)
    BY <2>1 DEF ScannerOK
  <2>3. Top(1) \in Values /\ (LastPushed \in Strings => Top(1) = LastPushed)
    BY <1>1, <1>2, <2>1, <2>2, StackParts DEF StackAgrees
  <2>4. /\ Valued(With(vm.memo, n, Top(1)))
        /\ MemoAgrees(With(scan.memo, n, LastPushed), With(vm.memo, n, Top(1)))
    BY <1>1, <1>2, <2>2, <2>3, WithAgrees
  <2>5. Executed(vm.stack, With(vm.memo, n, Top(1)), vm.loaded)
    BY <1>2, <2>1, <2>4 DEF Executed, IsVm
  <2>6. QED
    BY <1>4, <2>2, <2>4, <2>5, StepFits
<1>7. QED
  BY <1>5, <1>6

LEMMA GlobalKeeps ==
    ASSUME ScannerOK, NEW x \in Imports, Global(x)
    PROVE  ScannerOK'
<1>1. Reading /\ count' = count + 1
  BY DEF Global, Scanned
<1>2. Scans(scan.imports \cup {x}, scan.unresolved, Remember(Other), scan.memo)
  <2>1. Scanned([scan EXCEPT !.imports = scan.imports \cup {x}, !.unresolved = scan.unresolved,
                             !.cut = TRUE, !.recent = Remember(Other)])
    <3>1. Scanned([scan EXCEPT !.imports = scan.imports \cup {x}, !.cut = TRUE, !.recent = Remember(Other)])
      BY DEF Global
    <3>2. [scan EXCEPT !.imports = scan.imports \cup {x}, !.cut = TRUE, !.recent = Remember(Other)]
          = [scan EXCEPT !.imports = scan.imports \cup {x}, !.unresolved = scan.unresolved,
                         !.cut = TRUE, !.recent = Remember(Other)]
      BY DEF ScannerOK, IsScan
    <3>3. QED
      BY <3>1, <3>2
  <2>2. scan.imports \cup {x} \subseteq Imports /\ scan.unresolved \in BOOLEAN
    BY DEF ScannerOK, IsScan
  <2>3. QED
    BY <2>1, <2>2, ImportScans
<1>3. CASE vm' = [vm EXCEPT !.raised = TRUE]
  BY <1>1, <1>2, <1>3, StepFits
<1>4. CASE vm' # [vm EXCEPT !.raised = TRUE]
  <2>1. ~vm.raised /\ vm' = [Pushes(Other) EXCEPT !.loaded = @ \cup {x}]
    BY <1>4 DEF Global, Runs
  <2>2. Append(vm.stack, Other) \in Seq(Values) /\ vm.loaded \cup {x} \subseteq Imports
    BY SomeMaxOps DEF ScannerOK, IsVm
  <2>3. Executed(Append(vm.stack, Other), vm.memo, vm.loaded \cup {x})
    BY <2>1, <2>2 DEF Executed, ScannerOK, IsVm, Pushes
  <2>4. StackAgrees(Remember(Other), Append(vm.stack, Other)) /\ MemoAgrees(scan.memo, vm.memo)
    BY <2>1, OtherAgrees DEF ScannerOK
  <2>5. vm.loaded \subseteq scan.imports => vm.loaded \cup {x} \subseteq scan.imports \cup {x}
    OBVIOUS
  <2>6. QED
    BY <1>1, <1>2, <2>3, <2>4, <2>5, StepFits
<1>5. QED
  BY <1>3, <1>4

LEMMA ExtensionKeeps ==
    ASSUME ScannerOK, NEW x \in Imports, Extension(x)
    PROVE  ScannerOK'
<1>1. Reading /\ count' = count + 1
  BY DEF Extension, Scanned
<1>2. Scans(scan.imports, TRUE, Remember(Other), scan.memo)
  <2>1. Scanned([scan EXCEPT !.imports = scan.imports, !.unresolved = TRUE,
                             !.cut = TRUE, !.recent = Remember(Other)])
    <3>1. Scanned([scan EXCEPT !.unresolved = TRUE, !.cut = TRUE, !.recent = Remember(Other)])
      BY DEF Extension
    <3>2. [scan EXCEPT !.unresolved = TRUE, !.cut = TRUE, !.recent = Remember(Other)]
          = [scan EXCEPT !.imports = scan.imports, !.unresolved = TRUE, !.cut = TRUE, !.recent = Remember(Other)]
      BY DEF ScannerOK, IsScan
    <3>3. QED
      BY <3>1, <3>2
  <2>2. scan.imports \subseteq Imports /\ TRUE \in BOOLEAN
    BY DEF ScannerOK, IsScan
  <2>3. QED
    BY <2>1, <2>2, ImportScans
<1>3. CASE vm' = [vm EXCEPT !.raised = TRUE]
  BY <1>1, <1>2, <1>3, StepFits
<1>4. CASE vm' # [vm EXCEPT !.raised = TRUE]
  <2>1. ~vm.raised /\ vm' = [Pushes(Other) EXCEPT !.loaded = @ \cup {x}]
    BY <1>4 DEF Extension, Runs
  <2>2. Append(vm.stack, Other) \in Seq(Values) /\ vm.loaded \cup {x} \subseteq Imports
    BY SomeMaxOps DEF ScannerOK, IsVm
  <2>3. Executed(Append(vm.stack, Other), vm.memo, vm.loaded \cup {x})
    BY <2>1, <2>2 DEF Executed, ScannerOK, IsVm, Pushes
  <2>4. StackAgrees(Remember(Other), Append(vm.stack, Other)) /\ MemoAgrees(scan.memo, vm.memo)
    BY <2>1, OtherAgrees DEF ScannerOK
  <2>5. QED
    BY <1>1, <1>2, <2>3, <2>4, StepFits
<1>5. QED
  BY <1>3, <1>4

\* The heart of it: what the loader imports, the scanner resolved to the same
\* name, or did not resolve and says so.
LEMMA StackGlobalKeeps ==
    ASSUME ScannerOK, StackGlobal
    PROVE  ScannerOK'
<1> DEFINE imports == IF Resolved THEN scan.imports \cup {LastTwo} ELSE scan.imports
           unresolved == scan.unresolved \/ ~Resolved
<1>1. Reading /\ count' = count + 1 /\ IsScan(scan) /\ IsVm(vm)
  BY DEF StackGlobal, Scanned, ScannerOK
<1>2. imports \subseteq Imports /\ unresolved \in BOOLEAN /\ scan.imports \subseteq imports /\ (scan.unresolved => unresolved)
  <2>1. scan.imports \subseteq Imports
    BY <1>1 DEF IsScan
  <2>2. Resolved => LastTwo \in Imports
    BY DEF Resolved
  <2>3. imports \subseteq Imports /\ scan.imports \subseteq imports
    BY <2>1, <2>2
  <2>4. QED
    BY <2>3
<1>3. Scans(imports, unresolved, Remember(Other), scan.memo)
  <2>1. Scanned([scan EXCEPT !.imports = imports, !.unresolved = unresolved, !.cut = TRUE, !.recent = Remember(Other)])
    BY DEF StackGlobal
  <2> HIDE DEF imports, unresolved
  <2>2. QED
    BY <1>2, <2>1, ImportScans
<1>4. CASE vm' = [vm EXCEPT !.raised = TRUE]
  BY <1>1, <1>3, <1>4, StepFits
<1>5. CASE vm' # [vm EXCEPT !.raised = TRUE]
  <2> DEFINE x == <<Top(2), Top(1)>>
  <2>1. /\ ~vm.raised /\ Has(2) /\ x \in Imports
        /\ vm' = [vm EXCEPT !.stack = Append(Without(2), Other), !.loaded = @ \cup {x}]
    BY <1>5 DEF StackGlobal, Runs
  <2>2. Without(2) \in Seq(Values) /\ vm.loaded \cup {x} \subseteq Imports /\ Append(Without(2), Other) \in Seq(Values)
    <3>1. Without(2) \in Seq(Values)
      BY <1>1, <2>1, StackParts
    <3>2. QED
      BY SMTT(40), <1>1, <2>1, <3>1, SomeMaxOps DEF IsVm
  <2>3. Executed(Append(Without(2), Other), vm.memo, vm.loaded \cup {x})
    BY <1>1, <2>1, <2>2 DEF Executed, IsVm
  <2>4. StackAgrees(Remember(Other), Append(Without(2), Other)) /\ MemoAgrees(scan.memo, vm.memo)
    BY <2>1, OtherAgrees DEF ScannerOK
  <2>5. Resolved => LastTwo = x
    <3>1. SUFFICES ASSUME Resolved PROVE LastTwo = x
      OBVIOUS
    <3> DEFINE r == scan.recent
               k == Len(r)
    <3>2. r \in Seq(Values) /\ k \in Nat /\ k >= 2 /\ LastTwo = SubSeq(r, k - 1, k)
      BY <1>1, <3>1 DEF Resolved, LastTwo, IsScan
    <3>3. /\ LastTwo \in Seq(Values) /\ Len(LastTwo) = 2
          /\ LastTwo[1] = r[k - 1] /\ LastTwo[2] = r[k]
      <4>1. k - 1 \in Int /\ k \in Int /\ \A i \in k - 1 .. k : r[i] \in Values
        BY <3>2
      <4>2. /\ SubSeq(r, k - 1, k) \in Seq(Values)
            /\ Len(SubSeq(r, k - 1, k)) = IF k - 1 <= k THEN k - (k - 1) + 1 ELSE 0
            /\ \A i \in 1 .. k - (k - 1) + 1 : SubSeq(r, k - 1, k)[i] = r[k - 1 + i - 1]
        BY <4>1, SubSeqProperties
      <4>3. k - (k - 1) + 1 = 2 /\ k - 1 <= k /\ k - 1 + 1 - 1 = k - 1 /\ k - 1 + 2 - 1 = k
        BY <3>2
      <4>4. QED
        BY <3>2, <4>2, <4>3
    <3>4. LastTwo \in Imports
      BY <3>1 DEF Resolved
    <3>5. r[k - 1] \in Strings /\ r[k] \in Strings /\ LastTwo = <<r[k - 1], r[k]>>
      BY <3>3, <3>4 DEF Imports
    <3>6. StackAgrees(r, vm.stack)
      BY <2>1 DEF ScannerOK
    <3>7. Has(1)
      BY <1>1, <2>1, StackParts DEF Has
    <3>8. Top(1) = r[k] /\ Top(2) = r[k - 1]
      BY SMTT(40), <1>1, <2>1, <3>2, <3>5, <3>6, <3>7, StackParts DEF StackAgrees
    <3>9. QED
      BY <3>5, <3>8
  <2>6. vm.loaded \subseteq scan.imports => vm.loaded \cup {x} \subseteq imports \/ unresolved
    <3>1. CASE Resolved
      <4>1. x \in imports /\ scan.imports \subseteq imports
        BY <2>5, <3>1
      <4>2. QED
        BY <4>1
    <3>2. CASE ~Resolved
      BY <3>2, Zenon
    <3>3. QED
      BY <3>1, <3>2
  <2> HIDE DEF imports, unresolved, x
  <2>7. QED
    BY <1>1, <1>3, <2>3, <2>4, <2>6, StepFits
<1>6. QED
  BY <1>4, <1>5

LEMMA StopKeeps ==
    ASSUME ScannerOK, Stop
    PROVE  ScannerOK'
<1>1. Reading /\ count' = count + 1 /\ IsScan(scan) /\ IsVm(vm)
  BY DEF Stop, ScannerOK
<1>2. <<>> \in Seq(Values) /\ Len(<<>>) = 0 /\ Valued(<<>>) /\ MemoAgrees(<<>>, <<>>) /\ StackAgrees(<<>>, <<>>)
  BY DEF Valued, MemoAgrees, StackAgrees
<1>3. Scans(scan.imports, scan.unresolved, <<>>, <<>>)
  <2>1. scan' = Shape(scan.imports, scan.unresolved, <<>>, <<>>, FALSE, TRUE, TRUE)
    BY <1>1 DEF Stop, Shape, IsScan
  <2>2. \E cut, streams, fresh \in BOOLEAN :
          scan' = Shape(scan.imports, scan.unresolved, <<>>, <<>>, cut, streams, fresh)
    BY <2>1
  <2>3. QED
    BY <1>1, <1>2, <2>2, SomeMaxOps DEF Scans, IsScan
<1>4. CASE vm' = [vm EXCEPT !.raised = TRUE]
  BY <1>1, <1>3, <1>4, StepFits
<1>5. CASE vm' # [vm EXCEPT !.raised = TRUE]
  <2>1. ~vm.raised /\ vm' = [vm EXCEPT !.stack = <<>>, !.memo = <<>>]
    BY <1>5 DEF Stop, Runs
  <2>2. Executed(<<>>, <<>>, vm.loaded)
    BY <1>1, <1>2, <2>1 DEF Executed, IsVm
  <2>3. QED
    BY <1>1, <1>2, <1>3, <2>2, StepFits
<1>6. QED
  BY <1>4, <1>5

LEMMA OpcodeKeeps ==
    ASSUME ScannerOK, Opcode
    PROVE  ScannerOK'
<1>1. IsScan(scan) /\ IsVm(vm) /\ Other \in Values /\ Other \notin Strings /\ Strings \subseteq Values
  BY SomeMaxOps DEF ScannerOK
<1>2. ASSUME NEW x \in Strings, String(x)
      PROVE  ScannerOK'
  <2>1. /\ Reading /\ Scanned([scan EXCEPT !.recent = Remember(x)]) /\ Runs(TRUE, Pushes(x))
        /\ x \in Values /\ TRUE \in BOOLEAN
    BY <1>1, <1>2 DEF String
  <2>2. QED
    BY <2>1, SeenKeeps
<1>3. ASSUME NEW n \in Indexes, Put(n)
      PROVE  ScannerOK'
  <2>1. /\ Reading /\ Scanned([scan EXCEPT !.memo = With(scan.memo, n, LastPushed)])
        /\ Runs(Has(1), [vm EXCEPT !.memo = With(vm.memo, n, Top(1))])
    BY <1>1, <1>3 DEF Put, IsScan, IsVm
  <2>2. QED
    BY <2>1, MemoKeeps
<1>4. ASSUME NEW n \in Indexes, Get(n)
      PROVE  ScannerOK'
  <2>1. /\ Reading /\ Scanned([scan EXCEPT !.recent = Remember(Recalled(n))])
        /\ Runs(n \in DOMAIN vm.memo, Pushes(vm.memo[n])) /\ (n \in DOMAIN vm.memo) \in BOOLEAN
    BY <1>4 DEF Get
  <2>2. Recalled(n) \in Values
    BY <1>1 DEF Recalled, IsScan, Valued
  <2>3. ~vm.raised /\ n \in DOMAIN vm.memo =>
          vm.memo[n] \in Values /\ (Recalled(n) \in Strings => vm.memo[n] = Recalled(n))
    BY <1>1 DEF Recalled, IsVm, Valued, ScannerOK, MemoAgrees
  <2>4. QED
    BY <2>1, <2>2, <2>3, SeenKeeps
<1>5. CASE Memoize
  <2>1. /\ Reading /\ Scanned([scan EXCEPT !.memo = With(scan.memo, Size(scan.memo), LastPushed)])
        /\ Runs(Has(1), [vm EXCEPT !.memo = With(vm.memo, Size(vm.memo), Top(1))])
    BY <1>1, <1>5 DEF Memoize, IsScan, IsVm
  <2>2. ~vm.raised => Size(vm.memo) = Size(scan.memo)
    BY DEF ScannerOK, MemoAgrees, Size
  <2>3. QED
    BY <2>1, <2>2, MemoKeeps
<1>6. CASE Push
  <2>1. Reading /\ Scanned([scan EXCEPT !.recent = Remember(Other)]) /\ Runs(TRUE, Pushes(Other)) /\ TRUE \in BOOLEAN
    BY <1>6 DEF Push
  <2>2. QED
    BY <1>1, <2>1, SeenKeeps
<1>7. CASE Dup
  <2>1. Reading /\ Scanned([scan EXCEPT !.recent = Remember(Other)]) /\ Runs(Has(1), Pushes(Top(1))) /\ Has(1) \in BOOLEAN
    BY <1>7 DEF Dup, Has
  <2>2. Has(1) => Top(1) \in Values
    BY <1>1, StackParts
  <2>3. QED
    BY <1>1, <2>1, <2>2, SeenKeeps
<1>8. CASE Pop
  <2>1. /\ Reading /\ Scanned([scan EXCEPT !.recent = Remember(Other)]) /\ Has(1) \in BOOLEAN
        /\ Runs(Has(1), [vm EXCEPT !.stack = Without(1)])
    BY <1>8 DEF Pop, Has
  <2>2. Has(1) => Without(1) \in Seq(Values)
    BY <1>1, StackParts
  <2>3. QED
    BY <2>1, <2>2, UnseenKeeps
<1>9. ASSUME NEW v \in Values, Reduce(v)
      PROVE  ScannerOK'
  <2>1. /\ Reading /\ Scanned([scan EXCEPT !.recent = Remember(Other)]) /\ Has(2) \in BOOLEAN
        /\ Runs(Has(2), [vm EXCEPT !.stack = Append(Without(2), v)])
    BY <1>9 DEF Reduce, Has
  <2>2. Has(2) => Append(Without(2), v) \in Seq(Values)
    <3>1. Has(2) => Without(2) \in Seq(Values)
      BY <1>1, StackParts
    <3>2. QED
      BY <3>1
  <2>3. QED
    BY <2>1, <2>2, UnseenKeeps
<1>10. CASE Neutral
  <2>1. Reading /\ Scanned(scan) /\ Runs(TRUE, vm)
    BY <1>10 DEF Neutral
  <2>2. Scanned([scan EXCEPT !.memo = scan.memo]) /\ count' = count + 1
    <3>1. [scan EXCEPT !.memo = scan.memo] = scan
      BY <1>1 DEF IsScan
    <3>2. QED
      BY <2>1, <3>1 DEF Scanned
  <2>3. Scans(scan.imports, scan.unresolved, scan.recent, scan.memo)
    BY <1>1, <2>2, MemoScans DEF IsScan
  <2>4. CASE vm' = [vm EXCEPT !.raised = TRUE]
    BY <2>1, <2>2, <2>3, <2>4, StepFits
  <2>5. CASE vm' # [vm EXCEPT !.raised = TRUE]
    <3>1. ~vm.raised /\ vm' = vm
      BY <2>1, <2>5 DEF Runs
    <3>2. Executed(vm.stack, vm.memo, vm.loaded)
      BY <1>1, <3>1 DEF Executed, IsVm
    <3>3. StackAgrees(scan.recent, vm.stack) /\ MemoAgrees(scan.memo, vm.memo)
      BY <3>1 DEF ScannerOK
    <3>4. QED
      BY <2>1, <2>2, <2>3, <3>2, <3>3, StepFits
  <2>6. QED
    BY <2>4, <2>5
<1>11. QED
  BY <1>2, <1>3, <1>4, <1>5, <1>6, <1>7, <1>8, <1>9, <1>10, GlobalKeeps, ExtensionKeeps, StackGlobalKeeps, StopKeeps
     DEF Opcode

\* A new scan, whose findings are given.
Fits(s, v, c) ==
    /\ IsScan(s) /\ IsVm(v) /\ c \in 0 .. MaxOps
    /\ ~v.raised => StackAgrees(s.recent, v.stack) /\ MemoAgrees(s.memo, v.memo)
    /\ v.loaded \subseteq s.imports \/ s.unresolved

FreshScan(imports, unresolved, end) ==
    [imports |-> imports, unresolved |-> unresolved, recent |-> <<>>, memo |-> <<>>, cut |-> FALSE,
     streams |-> FALSE, fresh |-> TRUE, end |-> end]
FreshVm(loaded) == [stack |-> <<>>, memo |-> <<>>, loaded |-> loaded, raised |-> FALSE]

LEMMA FreshFits ==
    ASSUME NEW imports, NEW unresolved \in BOOLEAN, NEW end \in Ends, NEW loaded,
           imports \subseteq Imports, loaded \subseteq Imports, loaded \subseteq imports \/ unresolved
    PROVE  Fits(FreshScan(imports, unresolved, end), FreshVm(loaded), 0)
<1>1. <<>> \in Seq(Values) /\ Len(<<>>) = 0 /\ Valued(<<>>) /\ MemoAgrees(<<>>, <<>>) /\ StackAgrees(<<>>, <<>>)
  BY DEF Valued, MemoAgrees, StackAgrees
<1>2. PICK s, v : s = FreshScan(imports, unresolved, end) /\ v = FreshVm(loaded)
  OBVIOUS
<1>3. /\ s.imports = imports /\ s.recent = <<>> /\ s.memo = <<>> /\ s.end = end
      /\ s.cut = FALSE /\ s.streams = FALSE /\ s.fresh = TRUE
      /\ v.stack = <<>> /\ v.memo = <<>> /\ v.loaded = loaded /\ v.raised = FALSE
  BY <1>2 DEF FreshScan, FreshVm
<1>4. s.unresolved = unresolved
  BY <1>2 DEF FreshScan
<1>5. s = [imports |-> s.imports, unresolved |-> s.unresolved, recent |-> s.recent, memo |-> s.memo, cut |-> s.cut,
           streams |-> s.streams, fresh |-> s.fresh, end |-> s.end]
  BY <1>2 DEF FreshScan
<1>6. IsScan(s)
  <2>1. s.recent \in Seq(Values) /\ Len(s.recent) <= Remembered /\ Valued(s.memo)
    BY <1>1, <1>3, SomeMaxOps
  <2>2. s.cut \in BOOLEAN /\ s.streams \in BOOLEAN /\ s.fresh \in BOOLEAN /\ s.unresolved \in BOOLEAN
    BY <1>3, <1>4, Zenon
  <2>3. s.imports \subseteq Imports /\ s.end \in Ends
    BY <1>3
  <2>4. QED
    BY <1>5, <2>1, <2>2, <2>3, Zenon DEF IsScan
<1>7. v = [stack |-> v.stack, memo |-> v.memo, loaded |-> v.loaded, raised |-> v.raised]
  BY <1>2 DEF FreshVm
<1>8. IsVm(v)
  BY <1>1, <1>3, <1>7 DEF IsVm
<1>9. v.loaded \subseteq s.imports \/ s.unresolved
  BY <1>3, <1>4, Zenon
<1>10. 0 \in 0 .. MaxOps
  BY SomeMaxOps
<1>11. Fits(s, v, 0)
  BY <1>1, <1>3, <1>6, <1>8, <1>9, <1>10 DEF Fits
<1>12. QED
  BY <1>2, <1>11

LEMMA ScannerStarts == PickleInit => ScannerOK
<1> SUFFICES ASSUME PickleInit PROVE ScannerOK
  OBVIOUS
<1>1. scan = FreshScan({}, FALSE, "reading") /\ vm = FreshVm({}) /\ count = 0
  BY DEF PickleInit, EmptyScan, EmptyVm, FreshScan, FreshVm
<1>2. {} \subseteq Imports /\ FALSE \in BOOLEAN /\ "reading" \in Ends /\ {} \subseteq {}
  BY DEF Ends
<1>3. Fits(scan, vm, count)
  BY <1>1, <1>2, FreshFits
<1>4. QED
  BY <1>3 DEF Fits, ScannerOK, ImportsAreSeen

LEMMA EndKeeps ==
    ASSUME ScannerOK, NEW end \in Ends, Ended(end)
    PROVE  ScannerOK'
<1>1. /\ scan.imports \subseteq Imports /\ vm.loaded \subseteq Imports /\ scan.unresolved \in BOOLEAN
      /\ vm.loaded \subseteq scan.imports \/ scan.unresolved
  BY DEF ScannerOK, IsScan, IsVm, ImportsAreSeen
<1>2. scan' = FreshScan(scan.imports, scan.unresolved, end) /\ vm' = FreshVm(vm.loaded) /\ count' = 0
  BY DEF Ended, EmptyScan, EmptyVm, FreshScan, FreshVm
<1>3. Fits(scan', vm', count')
  BY <1>1, <1>2, FreshFits
<1>4. QED
  BY <1>3 DEF Fits, ScannerOK, ImportsAreSeen

LEMMA PickleKeeps ==
    ASSUME ScannerOK, PickleNext
    PROVE  ScannerOK'
<1>1. BrokenEnd \in Ends
  BY DEF BrokenEnd, Ends
<1>2. EndOfFile => \E end \in Ends : Ended(end)
  BY <1>1 DEF EndOfFile, Ends
<1>3. NotAnOpcode => \E end \in Ends : Ended(end)
  BY <1>1 DEF NotAnOpcode
<1>4. LimitReached => \E end \in Ends : Ended(end)
  BY DEF LimitReached, Ends
<1>5. QED
  BY <1>2, <1>3, <1>4, OpcodeKeeps, EndKeeps DEF PickleNext

-----------------------------------------------------------------------------
(* The flags there can be are finitely many, so that their number says      *)
(* whether there are any (model.py, score).                                 *)

Places ==
    {None, <<>>, <<"inside">>, <<"outside">>, <<"report">>} \cup Names \cup Decoys \cup Hosts \cup Paths
    \cup (Names \X {"companion", "auto_map", "trust"}) \cup (Names \X Strings \X Strings)
    \cup (Decoys \X (Hosts \cup {Unknown}))
AllFlags == [sev : Severities, code : Codes, at : Places]

LEMMA PlacesFinite == IsFiniteSet(Places)
<1>1. /\ IsFiniteSet(Names) /\ IsFiniteSet(Strings) /\ IsFiniteSet(Decoys) /\ IsFiniteSet(Hosts) /\ IsFiniteSet(Paths)
  BY ScanAssumption, SandboxAssumption
<1>2. \A x : IsFiniteSet({x})
  BY FS_Singleton
<1>3. \A S, T : IsFiniteSet(S) /\ IsFiniteSet(T) => IsFiniteSet(S \cup T)
  BY FS_Union
<1>4. \A S, T : IsFiniteSet(S) /\ IsFiniteSet(T) => IsFiniteSet(S \X T)
  BY FS_Product
<1>5. IsFiniteSet({None, <<>>, <<"inside">>, <<"outside">>, <<"report">>})
  <2>1. {None, <<>>, <<"inside">>, <<"outside">>, <<"report">>}
        = {None} \cup {<<>>} \cup {<<"inside">>} \cup {<<"outside">>} \cup {<<"report">>}
    OBVIOUS
  <2>2. IsFiniteSet({None} \cup {<<>>} \cup {<<"inside">>} \cup {<<"outside">>} \cup {<<"report">>})
    BY <1>2, <1>3
  <2>3. QED
    BY <2>1, <2>2
<1>6. IsFiniteSet(Names \X {"companion", "auto_map", "trust"})
  <2>1. {"companion", "auto_map", "trust"} = {"companion"} \cup {"auto_map"} \cup {"trust"}
    OBVIOUS
  <2>2. IsFiniteSet({"companion"} \cup {"auto_map"} \cup {"trust"})
    BY <1>2, <1>3
  <2>3. QED
    BY <1>1, <1>4, <2>1, <2>2
<1>7. IsFiniteSet(Names \X Strings \X Strings)
  <2> DEFINE T == Names \X Strings \X Strings
             S == (Names \X Strings) \X Strings
             f == [x \in S |-> <<x[1][1], x[1][2], x[2]>>]
  <2>1. IsFiniteSet(S)
    BY <1>1, <1>4
  <2>2. f \in Surjection(S, T)
    <3>1. f \in [S -> T]
      OBVIOUS
    <3>2. ASSUME NEW t \in T
          PROVE  \E x \in S : f[x] = t
      <4>1. <<<<t[1], t[2]>>, t[3]>> \in S /\ t = <<t[1], t[2], t[3]>>
        OBVIOUS
      <4>2. f[<<<<t[1], t[2]>>, t[3]>>] = <<t[1], t[2], t[3]>>
        BY <4>1
      <4>3. QED
        BY <4>1, <4>2
    <3>3. QED
      BY <3>1, <3>2 DEF Surjection
  <2>3. QED
    BY <2>1, <2>2, FS_Surjection
<1>8. IsFiniteSet(Decoys \X (Hosts \cup {Unknown}))
  BY <1>1, <1>2, <1>3, <1>4
<1>9. QED
  BY <1>1, <1>3, <1>5, <1>6, <1>7, <1>8 DEF Places

LEMMA CodesFinite == IsFiniteSet(Codes) /\ IsFiniteSet(Severities)
<1>1. \A x : IsFiniteSet({x})
  BY FS_Singleton
<1>2. \A S, T : IsFiniteSet(S) /\ IsFiniteSet(T) => IsFiniteSet(S \cup T)
  BY FS_Union
<1>3. IsFiniteSet(Severities)
  <2>1. Severities = {"low"} \cup {"medium"} \cup {"high"}
    BY DEF Severities
  <2>2. QED
    BY <1>1, <1>2, <2>1
<1>4. IsFiniteSet(Codes)
  <2>1. IsFiniteSet(MainCodes)
    <3>1. MainCodes = {"G201"} \cup {"G202"} \cup {"G203"} \cup {"G204"} \cup {"G301"} \cup {"G302"} \cup {"G501"} \cup {"G601"}
      BY DEF MainCodes
    <3>2. IsFiniteSet({"G201"} \cup {"G202"} \cup {"G203"} \cup {"G204"} \cup {"G301"} \cup {"G302"} \cup {"G501"} \cup {"G601"})
      BY <1>1, <1>2
    <3>3. QED
      BY <3>1, <3>2
  <2>2. IsFiniteSet(PythonCodes)
    <3>1. PythonCodes = {"G205"} \cup {"G207"} \cup {"G208"}
      BY DEF PythonCodes
    <3>2. IsFiniteSet({"G205"} \cup {"G207"} \cup {"G208"})
      BY <1>1, <1>2
    <3>3. QED
      BY <3>1, <3>2
  <2>3. IsFiniteSet(ShellCodes)
    <3>1. ShellCodes = {"G210"} \cup {"G211"} \cup {"G602"} \cup {"G603"}
      BY DEF ShellCodes
    <3>2. IsFiniteSet({"G210"} \cup {"G211"} \cup {"G602"} \cup {"G603"})
      BY <1>1, <1>2
    <3>3. QED
      BY <3>1, <3>2
  <2>4. IsFiniteSet(CodeCodes)
    <3>1. CodeCodes = {"G212"} \cup {"G215"}
      BY DEF CodeCodes
    <3>2. IsFiniteSet({"G212"} \cup {"G215"})
      BY <1>1, <1>2
    <3>3. QED
      BY <3>1, <3>2
  <2>5. IsFiniteSet(ConfigCodes)
    <3>1. ConfigCodes = {"G213"} \cup {"G214"} \cup {"G220"}
      BY DEF ConfigCodes
    <3>2. IsFiniteSet({"G213"} \cup {"G214"} \cup {"G220"})
      BY <1>1, <1>2
    <3>3. QED
      BY <3>1, <3>2
  <2>6. IsFiniteSet(ProcedureCodes)
    <3>1. ProcedureCodes = {"G217"} \cup {"G218"}
      BY DEF ProcedureCodes
    <3>2. IsFiniteSet({"G217"} \cup {"G218"})
      BY <1>1, <1>2
    <3>3. QED
      BY <3>1, <3>2
  <2>7. IsFiniteSet({"G206", "G209", "G216", "G219", "G230"})
    <3>1. {"G206", "G209", "G216", "G219", "G230"} = {"G206"} \cup {"G209"} \cup {"G216"} \cup {"G219"} \cup {"G230"}
      OBVIOUS
    <3>2. IsFiniteSet({"G206"} \cup {"G209"} \cup {"G216"} \cup {"G219"} \cup {"G230"})
      BY <1>1, <1>2
    <3>3. QED
      BY <3>1, <3>2
  <2>8. IsFiniteSet({"G101", "G221", "G222", "G223", "G224", "G225", "G226", "G227", "G228"})
    <3>1. {"G101", "G221", "G222", "G223", "G224", "G225", "G226", "G227", "G228"} = {"G101"} \cup {"G221"} \cup {"G222"} \cup {"G223"} \cup {"G224"} \cup {"G225"} \cup {"G226"} \cup {"G227"} \cup {"G228"}
      OBVIOUS
    <3>2. IsFiniteSet({"G101"} \cup {"G221"} \cup {"G222"} \cup {"G223"} \cup {"G224"} \cup {"G225"} \cup {"G226"} \cup {"G227"} \cup {"G228"})
      BY <1>1, <1>2
    <3>3. QED
      BY <3>1, <3>2
  <2>9. IsFiniteSet({"G229", "G401", "G701", "G702", "G801", "G802", "G803", "G804", "G805"})
    <3>1. {"G229", "G401", "G701", "G702", "G801", "G802", "G803", "G804", "G805"} = {"G229"} \cup {"G401"} \cup {"G701"} \cup {"G702"} \cup {"G801"} \cup {"G802"} \cup {"G803"} \cup {"G804"} \cup {"G805"}
      OBVIOUS
    <3>2. IsFiniteSet({"G229"} \cup {"G401"} \cup {"G701"} \cup {"G702"} \cup {"G801"} \cup {"G802"} \cup {"G803"} \cup {"G804"} \cup {"G805"})
      BY <1>1, <1>2
    <3>3. QED
      BY <3>1, <3>2
  <2>10. IsFiniteSet({"G808", "G809", "G901", "G909", "G910", "G911", "G912"})
    <3>1. {"G808", "G809", "G901", "G909", "G910", "G911", "G912"} = {"G808"} \cup {"G809"} \cup {"G901"} \cup {"G909"} \cup {"G910"} \cup {"G911"} \cup {"G912"}
      OBVIOUS
    <3>2. IsFiniteSet({"G808"} \cup {"G809"} \cup {"G901"} \cup {"G909"} \cup {"G910"} \cup {"G911"} \cup {"G912"})
      BY <1>1, <1>2
    <3>3. QED
      BY <3>1, <3>2
  <2>11. Codes = MainCodes
             \cup PythonCodes
             \cup ShellCodes
             \cup CodeCodes
             \cup ConfigCodes
             \cup ProcedureCodes
             \cup {"G206", "G209", "G216", "G219", "G230"}
             \cup {"G101", "G221", "G222", "G223", "G224", "G225", "G226", "G227", "G228"}
             \cup {"G229", "G401", "G701", "G702", "G801", "G802", "G803", "G804", "G805"}
             \cup {"G808", "G809", "G901", "G909", "G910", "G911", "G912"}
    BY DEF Codes, AllCodes
  <2>12. QED
    BY <1>2, <2>1, <2>2, <2>3, <2>4, <2>5, <2>6, <2>7, <2>8, <2>9, <2>10, <2>11
<1>5. QED
  BY <1>3, <1>4

LEMMA AllFlagsFinite == IsFiniteSet(AllFlags)
<1> DEFINE S == (Severities \X Codes) \X Places
           f == [x \in S |-> [sev |-> x[1][1], code |-> x[1][2], at |-> x[2]]]
<1>1. IsFiniteSet(S)
  <2>1. IsFiniteSet(Severities \X Codes)
    BY CodesFinite, FS_Product
  <2>2. QED
    BY <2>1, PlacesFinite, FS_Product
<1>2. f \in Surjection(S, AllFlags)
  <2>1. f \in [S -> AllFlags]
    BY DEF AllFlags
  <2>2. ASSUME NEW t \in AllFlags
        PROVE  \E x \in S : f[x] = t
    <3>1. <<<<t.sev, t.code>>, t.at>> \in S /\ t = [sev |-> t.sev, code |-> t.code, at |-> t.at]
      BY DEF AllFlags
    <3>2. f[<<<<t.sev, t.code>>, t.at>>] = [sev |-> t.sev, code |-> t.code, at |-> t.at]
      BY <3>1
    <3>3. QED
      BY <3>1, <3>2
  <2>3. QED
    BY <2>1, <2>2 DEF Surjection
<1>3. QED
  BY <1>1, <1>2, FS_Surjection

-----------------------------------------------------------------------------
(* Every pass makes flags of these kinds.                                  *)

LEMMA FlagKnown ==
    ASSUME NEW sev \in Severities, NEW code \in Codes, NEW at \in Places
    PROVE  Flag(sev, code, at) \in AllFlags
  BY DEF Flag, AllFlags

LEMMA FlagIfKnown ==
    ASSUME NEW f \in AllFlags, NEW condition
    PROVE  FlagIf(condition, f) \subseteq AllFlags
  BY DEF FlagIf

\* What the proofs use of a file's type.
Fields == {"name", "says", "atImport", "found", "members", "size", "python", "fmt", "suf", "json"}
IsFile(f) ==
    /\ f.name \in Names /\ f.says \subseteq [code : AllCodes, sev : Severities]
    /\ f.atImport \in {"none", "medium", "high"} /\ f.found \in FindingsType /\ f.members \in Seq(MemberType)
    /\ f.size \in {"small", "large", "huge"} /\ f.python \in {"parses", "wrong", "deep"}
    /\ f.fmt \in {"", "zip", "gguf", "hdf5", "safetensors", "pickle"} /\ f.suf \in Suffixes
    /\ f.json \in {"object", "other", "broken", "deep"}
    /\ Fields \subseteq DOMAIN f

LEMMA FilesAre == \A f \in FileType : IsFile(f)
<1>1. ASSUME NEW f \in FileType
      PROVE  Fields \subseteq DOMAIN f
  BY DEF FileType, Fields
<1>2. QED
  BY <1>1 DEF FileType, IsFile

\* A record keeps the fields that are not replaced.
LEMMA FieldsKept ==
    ASSUME NEW f, IsFile(f), NEW says
    PROVE  [f EXCEPT !.says = says].says = says /\ [f EXCEPT !.says = says].name = f.name
           /\ DOMAIN [f EXCEPT !.says = says] = DOMAIN f
  BY DEF IsFile, Fields
LEMMA UnreadFields ==
    ASSUME NEW f, IsFile(f)
    PROVE  /\ Unread(f).name = f.name /\ Unread(f).says = f.says /\ Unread(f).atImport = f.atImport
           /\ Unread(f).found = f.found /\ Unread(f).members = f.members /\ Unread(f).size = f.size
           /\ Unread(f).suf = f.suf
           /\ Unread(f).python = "wrong" /\ Unread(f).json = "broken" /\ Unread(f).fmt \in {"", f.fmt}
           /\ DOMAIN Unread(f) = DOMAIN f
  BY DEF IsFile, Fields, Unread

LEMMA FoundKnown ==
    ASSUME NEW f, IsFile(f), NEW codes
    PROVE  Found(f, codes) \subseteq AllFlags /\ FoundInLines(f, codes) \subseteq AllFlags
<1>1. ASSUME NEW s \in f.says
      PROVE  Flag(s.sev, s.code, f.name) \in AllFlags
  <2>1. s.sev \in Severities /\ s.code \in Codes /\ f.name \in Places
    BY DEF IsFile, Codes, Places
  <2>2. QED
    BY <2>1, FlagKnown
<1>2. Found(f, codes) \subseteq AllFlags
  BY <1>1 DEF Found
<1>3. PICK g : g = [f EXCEPT !.says = f.says \ f.far]
  OBVIOUS
<1>4. g.says \subseteq f.says /\ g.name = f.name
  BY <1>3, FieldsKept
<1>5. Found(g, codes) \subseteq AllFlags
  BY <1>1, <1>4 DEF Found
<1>6. QED
  BY <1>2, <1>3, <1>5 DEF FoundInLines

\* The flags that are about a file.
LEMMA FileFlagsKnown ==
    ASSUME NEW f, IsFile(f)
    PROVE  /\ Gap("G911", f) \in AllFlags /\ Gap("G910", f) \in AllFlags /\ Gap("G912", f) \in AllFlags
           /\ Gap("G225", f) \in AllFlags /\ Flag("high", "G401", f.name) \in AllFlags
           /\ Flag("high", "G214", f.name) \in AllFlags /\ Flag("medium", "G101", f.name) \in AllFlags
           /\ Flag("high", "G226", f.name) \in AllFlags
           /\ \A sev \in Severities : Flag(sev, "G229", f.name) \in AllFlags /\ Flag(sev, "G228", f.name) \in AllFlags
           /\ \A why \in {"companion", "auto_map", "trust"} : Flag("medium", "G227", <<f.name, why>>) \in AllFlags
<1>1. f.name \in Places /\ \A why \in {"companion", "auto_map", "trust"} : <<f.name, why>> \in Places
  BY DEF IsFile, Places
<1>2. "low" \in Severities /\ "medium" \in Severities /\ "high" \in Severities
  BY DEF Severities
<1>3. /\ "G911" \in Codes /\ "G910" \in Codes /\ "G912" \in Codes /\ "G225" \in Codes /\ "G401" \in Codes
      /\ "G214" \in Codes /\ "G101" \in Codes /\ "G226" \in Codes /\ "G229" \in Codes /\ "G228" \in Codes
      /\ "G227" \in Codes
  BY DEF Codes, AllCodes, ConfigCodes
<1>4. QED
  BY <1>1, <1>2, <1>3, FlagKnown DEF Gap

LEMMA TextFlagsKnown ==
    ASSUME NEW f, IsFile(f), NEW failing, NEW later
    PROVE  /\ MainFlags(f, failing, later) \subseteq AllFlags /\ TextFlags(f) \subseteq AllFlags
           /\ TamperingFlags(f, failing) \subseteq AllFlags /\ TlsFlags(f, failing) \subseteq AllFlags
           /\ HookFlags(f, failing) \subseteq AllFlags /\ ManifestFlags(f, failing) \subseteq AllFlags
<1>1. \A codes : Found(f, codes) \subseteq AllFlags /\ FoundInLines(f, codes) \subseteq AllFlags
  BY FoundKnown
<1>2. /\ Gap("G911", f) \in AllFlags /\ Gap("G910", f) \in AllFlags /\ Gap("G912", f) \in AllFlags
      /\ Flag("high", "G401", f.name) \in AllFlags
      /\ Flag("high", "G214", f.name) \in AllFlags /\ Flag("medium", "G101", f.name) \in AllFlags
  BY FileFlagsKnown
<1>3. \A g \in AllFlags : \A condition : FlagIf(condition, g) \subseteq AllFlags
  BY DEF FlagIf
<1>4. MainFlags(f, failing, later) \subseteq AllFlags
  <2>1. Magic(f) \subseteq AllFlags /\ LooksBinary(f) \subseteq AllFlags
    BY <1>2, <1>3 DEF Magic, LooksBinary
  <2>2. Text(f) \subseteq AllFlags
    BY <1>1, <1>2 DEF Text
  <2>3. QED
    BY <1>2, <2>1, <2>2 DEF MainFlags
<1>5. TextFlags(f) \subseteq AllFlags
  <2>1. PythonFlags(f) \subseteq AllFlags
    BY <1>1, <1>2, <1>3 DEF PythonFlags, IsFile
  <2>2. QED
    BY <1>1, <2>1 DEF TextFlags
<1>6. TamperingFlags(f, failing) \subseteq AllFlags
  <2>1. InstructionFlags(f) \subseteq AllFlags
    BY <1>1 DEF InstructionFlags
  <2>2. FlagIf("opaque" \in f.marks, Flag("high", "G214", f.name)) \subseteq AllFlags
    BY <1>2, <1>3
  <2>3. QED
    BY <1>1, <2>1, <2>2 DEF TamperingFlags
<1>7. TlsFlags(f, failing) \subseteq AllFlags
  BY <1>1 DEF TlsFlags
<1>8. HookFlags(f, failing) \subseteq AllFlags
  BY <1>2, <1>3 DEF HookFlags
<1>9. ManifestFlags(f, failing) \subseteq AllFlags
  BY <1>2, <1>3 DEF ManifestFlags
<1>10. QED
  BY <1>4, <1>5, <1>6, <1>7, <1>8, <1>9

LEMMA AgentFlagsKnown ==
    ASSUME NEW files, NEW n, IsFile(files[n]), NEW failing, NEW later
    PROVE  AgentFlags(files, n, failing, later) \subseteq AllFlags
  BY TextFlagsKnown, FileFlagsKnown DEF AgentFlags

LEMMA PickleFlagsKnown ==
    ASSUME NEW s, s.imports \subseteq Imports, NEW name \in Names
    PROVE  PickleFlags(s, name) \subseteq AllFlags
<1>1. \A g \in AllFlags : \A condition : FlagIf(condition, g) \subseteq AllFlags
  BY DEF FlagIf
<1>2. "low" \in Severities /\ "medium" \in Severities /\ "high" \in Severities
  BY DEF Severities
<1>3. "G222" \in Codes /\ "G223" \in Codes /\ "G224" \in Codes /\ "G225" \in Codes
  BY DEF Codes
<1>4. name \in Places /\ \A i \in Imports : <<name, i[1], i[2]>> \in Places
  BY DEF Places, Imports
<1>5. /\ \A i \in Imports : Flag("high", "G222", <<name, i[1], i[2]>>) \in AllFlags
      /\ \A i \in Imports : Flag("medium", "G223", <<name, i[1], i[2]>>) \in AllFlags
      /\ Flag("high", "G224", name) \in AllFlags /\ Flag("low", "G225", name) \in AllFlags
  BY <1>2, <1>3, <1>4, FlagKnown
<1>6. {Flag("high", "G222", <<name, i[1], i[2]>>) : i \in s.imports \cap Dangerous} \subseteq AllFlags
  BY <1>5
<1>7. {Flag("medium", "G223", <<name, i[1], i[2]>>) : i \in s.imports \ (Dangerous \cup Allowed)} \subseteq AllFlags
  BY <1>5
<1>8. /\ FlagIf(s.end = "broken" /\ s.imports # {}, Flag("high", "G224", name)) \subseteq AllFlags
      /\ FlagIf(s.end \in {"broken", "limit"} \/ s.unresolved, Flag("low", "G225", name)) \subseteq AllFlags
  BY <1>1, <1>5
<1>9. QED
  BY <1>6, <1>7, <1>8 DEF PickleFlags

LEMMA MembersAre ==
    ASSUME NEW f, IsFile(f), NEW m \in LookedAt(f)
    PROVE  m \in MemberType /\ m.found.imports \subseteq Imports
<1>1. m \in MemberType
  <2>1. f.members \in Seq(MemberType)
    BY DEF IsFile
  <2>2. \A n \in DOMAIN f.members : f.members[n] \in MemberType
    BY <2>1
  <2>3. QED
    BY <2>2 DEF LookedAt
<1>2. m.found \in FindingsType
  BY <1>1 DEF MemberType
<1>3. QED
  BY <1>1, <1>2 DEF FindingsType

LEMMA ModelOutcomeKnown ==
    ASSUME NEW f, IsFile(f), NEW s, s.imports \subseteq Imports
    PROVE  ModelOutcome(f, s).flags \subseteq AllFlags
<1>1. /\ Gap("G225", f) \in AllFlags /\ Broken226(f) \in AllFlags
      /\ \A sev \in Severities : Flag(sev, "G229", f.name) \in AllFlags
  BY FileFlagsKnown DEF Broken226
<1>2. \A g \in AllFlags : \A condition : FlagIf(condition, g) \subseteq AllFlags
  BY DEF FlagIf
<1>3. "low" \in Severities /\ "medium" \in Severities /\ "high" \in Severities
  BY DEF Severities
<1>4. f.name \in Names
  BY DEF IsFile
<1>5. PickleFlags(s, f.name) \subseteq AllFlags
  BY <1>4, PickleFlagsKnown
<1>6. DisguisedOutcome(f, s).flags \subseteq AllFlags
  BY <1>1, <1>5 DEF DisguisedOutcome, Outcome
<1>7. SafetensorsOutcome(f).flags \subseteq AllFlags
  BY <1>1, <1>2 DEF SafetensorsOutcome, Outcome
<1>8. GgufOutcome(f).flags \subseteq AllFlags
  <2>1. TemplateFlags(f) \subseteq AllFlags
    BY <1>1, <1>2, <1>3 DEF TemplateFlags
  <2>2. FlagIf(f.body = "gap", Gap("G225", f)) \subseteq AllFlags /\ FlagIf(f.body = "corrupt", Broken226(f)) \subseteq AllFlags
    BY <1>1, <1>2
  <2>3. QED
    BY <1>1, <2>1, <2>2 DEF GgufOutcome, Outcome
<1>9. PickleOutcome(f, s).flags \subseteq AllFlags
  BY <1>1, <1>5 DEF PickleOutcome, Outcome, Ignored
<1>10. ZipOutcome(f).flags \subseteq AllFlags
  <2>1. ASSUME NEW m \in LookedAt(f)
        PROVE  MemberFlags(m, f) \subseteq AllFlags
    <3>1. PickleFlags(m.found, f.name) \subseteq AllFlags
      BY <1>4, MembersAre, PickleFlagsKnown
    <3>2. Flag("medium", "G229", f.name) \in AllFlags
      BY <1>1, <1>3
    <3>3. QED
      BY <1>1, <1>2, <3>1, <3>2 DEF MemberFlags
  <2>2. PICK members : members = IF f.body = "ok" THEN LookedAt(f) ELSE {}
    OBVIOUS
  <2>3. UNION {MemberFlags(m, f) : m \in members} \subseteq AllFlags
    BY <2>1, <2>2
  <2>4. \A condition : FlagIf(condition, Gap("G225", f)) \subseteq AllFlags
    BY <1>1, <1>2
  <2>5. QED
    BY <2>2, <2>3, <2>4 DEF ZipOutcome, Outcome, Ignored
<1>11. Flag("medium", "G229", f.name) \in AllFlags
  BY <1>1, <1>3
<1>12. Ignored.flags = {} /\ Outcome({Flag("medium", "G229", f.name)}, TRUE, FALSE).flags = {Flag("medium", "G229", f.name)}
  BY DEF Ignored, Outcome
<1>13. QED
  BY <1>6, <1>7, <1>8, <1>9, <1>10, <1>11, <1>12 DEF ModelOutcome

LEMMA ModelFlagsKnown ==
    ASSUME NEW files, \A n \in DOMAIN files : IsFile(files[n]), NEW failing,
           NEW found, \A n \in DOMAIN files : found[n].imports \subseteq Imports
    PROVE  ModelFlags(files, failing, found) \subseteq AllFlags
<1> DEFINE legible == {n \in DOMAIN files : files[n].readable /\ files[n].name \notin failing}
           out == [n \in legible |-> ModelOutcome(files[n], found[n])]
           maps == {n \in legible : files[n].suf = "json" /\ files[n].size # "huge"
                                  /\ files[n].json = "object" /\ files[n].autoMap}
           model == maps # {} \/ \E n \in legible : out[n].model
           companions == {n \in legible : files[n].suf = "py"
                            /\ ("companion" \in files[n].marks \/ (maps # {} /\ files[n].target))}
           trusting == {n \in legible : files[n].suf \in {"py", "json", "md", "yaml"}
                                      /\ files[n].size = "small" /\ files[n].trust}
           P1 == UNION {out[n].flags : n \in legible}
           P2 == FlagIf(\E n \in legible : out[n].pickle, Flag("medium", "G221", <<>>))
           P3 == {Flag("medium", "G227", <<files[n].name, "auto_map">>) : n \in maps}
           P4 == UNION {CompanionFlags(files[n]) : n \in companions}
           P5 == {Flag("medium", "G227", <<files[n].name, "trust">>) : n \in trusting}
<1>1. ModelFlags(files, failing, found) = P1 \cup P2 \cup P3 \cup IF ~model THEN {} ELSE P4 \cup P5
  BY DEF ModelFlags
<1>2. P1 \subseteq AllFlags
  <2>1. ASSUME NEW n \in legible
        PROVE  out[n].flags \subseteq AllFlags
    <3>1. IsFile(files[n]) /\ found[n].imports \subseteq Imports
      OBVIOUS
    <3>2. ModelOutcome(files[n], found[n]).flags \subseteq AllFlags
      BY <3>1, ModelOutcomeKnown
    <3>3. out[n] = ModelOutcome(files[n], found[n])
      OBVIOUS
    <3> HIDE DEF out
    <3>4. QED
      BY <3>2, <3>3
  <2> HIDE DEF out, legible
  <2>2. QED
    BY <2>1
<1>3. P2 \subseteq AllFlags
  <2>1. "medium" \in Severities /\ "G221" \in Codes /\ <<>> \in Places
    BY DEF Severities, Codes, Places
  <2>2. QED
    BY <2>1, FlagKnown, FlagIfKnown
<1>4. P3 \subseteq AllFlags /\ P5 \subseteq AllFlags
  BY FileFlagsKnown
<1>5. ASSUME NEW n \in companions
      PROVE  CompanionFlags(files[n]) \subseteq AllFlags
  <2>1. IsFile(files[n])
    OBVIOUS
  <2>2. PICK f : f = files[n]
    OBVIOUS
  <2>3. /\ Gap("G225", f) \in AllFlags /\ Flag("medium", "G227", <<f.name, "companion">>) \in AllFlags
        /\ \A sev \in Severities : Flag(sev, "G228", f.name) \in AllFlags
    BY <2>1, <2>2, FileFlagsKnown
  <2>4. AtImport(f) \subseteq AllFlags
    <3>1. f.atImport # "none" => f.atImport \in Severities
      BY <2>1, <2>2 DEF IsFile, Severities
    <3>2. QED
      BY <2>3, <3>1 DEF AtImport, FlagIf
  <2>5. \A condition : FlagIf(condition, Gap("G225", f)) \subseteq AllFlags
    BY <2>3, FlagIfKnown
  <2>6. CompanionFlags(f) \subseteq AllFlags
    BY <2>3, <2>4, <2>5 DEF CompanionFlags
  <2>7. QED
    BY <2>2, <2>6
<1>6. P4 \subseteq AllFlags
  BY <1>5
<1> HIDE DEF P1, P2, P3, P4, P5, model
<1>7. QED
  BY <1>1, <1>2, <1>3, <1>4, <1>6

-----------------------------------------------------------------------------
(* The passes: what each found in what it was given is among the flags, and *)
(* what it went through is known, from the pass on.                         *)

Turn == [hooks |-> 1, main |-> 2, agents |-> 3, tampering |-> 4, pickle |-> 5, models |-> 6, tls |-> 7, manifests |-> 8,
         imports |-> 9, behaviour |-> 10, score |-> 11, done |-> 12, raised |-> 0]
Over(pass) == Turn[pass] < Turn[stage]

FlagsOf(pass, failing, later) ==
    IF pass = "hooks" THEN UNION {HookFlags(f, failing) : f \in FileSet}
    ELSE IF pass = "main" THEN LinkFlags(input.links) \cup UNION {MainFlags(f, failing, later) : f \in FileSet}
    ELSE IF pass = "agents" THEN UNION {AgentFlags(Files, n, failing, later) : n \in DOMAIN Files}
    ELSE IF pass = "tampering" THEN UNION {TamperingFlags(f, failing) : f \in FileSet}
    ELSE IF pass = "models"
         THEN ModelFlags(AsRead(Files, later), NotRead(Files, failing, later), [n \in DOMAIN Files |-> FoundIn(n)])
    ELSE IF pass = "tls" THEN UNION {TlsFlags(f, failing) : f \in FileSet}
    ELSE UNION {ManifestFlags(f, failing) : f \in FileSet}
TextsOf(pass, failing) ==
    IF pass = "main" THEN {f \in FileSet : ReadsText(f, failing)}
    ELSE IF pass = "agents"
         THEN {Files[n] : n \in {n \in DOMAIN Files : InAgents(Files[n]) /\ ReadsText(Files[n], failing)
                                                     /\ Held(Files, n, failing) /\ ~AgentsSkip(Files[n])}}
    ELSE IF pass = "tampering" THEN {f \in FileSet : InTampering(f) /\ ReadsText(f, failing) /\ ~TamperingSkips(f)}
    ELSE IF pass = "tls" THEN {f \in FileSet : InTls(f) /\ ReadsText(f, failing)}
    ELSE {}

\* All that a pass finds is told, whichever reads failed later only.
Told(pass, failing, said) == \E later \in SUBSET failing : FlagsOf(pass, failing, later) \subseteq said

Losses == UNION {{pass} \X failed[pass] : pass \in Passes}

StageOK ==
    /\ input \in Inputs /\ stage \in Stages /\ flags \subseteq AllFlags
    /\ verdict = IF stage = "done" THEN VerdictOf(flags) ELSE NoVerdict
    /\ vm.loaded # {} => input.stream # {}
HistoryOK ==
    /\ failed \in [Passes -> SUBSET Names] /\ read \in [Passes -> SUBSET Names]
    /\ \A pass \in Passes : stage # "raised" /\ ~Over(pass) => failed[pass] = {}
    /\ IsFiniteSet(Losses) /\ Cardinality(Losses) <= input.faults
PassesOK ==
    \A pass \in Passes :
        Over(pass) => /\ Told(pass, failed[pass], flags)
                      /\ read[pass] = {f.name : f \in TextsOf(pass, failed[pass])}

InputsAre == \A i \in Inputs : i.files \in Seq(FileType) /\ i.faults \in Nat /\ i.links \subseteq {"inside", "outside"}
                               /\ i.reports \subseteq ReportType

LEMMA SomeInputs == InputsAre
  BY InspectionAssumption DEF InputsAre

LEMMA FilesAreFiles ==
    ASSUME input \in Inputs
    PROVE  /\ Files \in Seq(FileType) /\ Len(Files) \in Nat /\ DOMAIN Files = 1 .. Len(Files) /\ IsFiniteSet(DOMAIN Files)
           /\ \A n \in DOMAIN Files : IsFile(Files[n]) /\ Files[n].name \in Names
           /\ \A f \in FileSet : IsFile(f) /\ f.name \in Names
<1>1. Files \in Seq(FileType)
  BY SomeInputs DEF InputsAre, Files
<1>2. PICK files : files = Files
  OBVIOUS
<1>3. Len(files) \in Nat /\ DOMAIN files = 1 .. Len(files) /\ \A n \in DOMAIN files : files[n] \in FileType
  BY <1>1, <1>2
<1>4. \A n \in DOMAIN files : IsFile(files[n]) /\ files[n].name \in Names
  <2>1. \A n \in DOMAIN files : IsFile(files[n])
    BY <1>3, FilesAre
  <2>2. QED
    BY <2>1 DEF IsFile
<1>5. \A f \in FileSet : IsFile(f) /\ f.name \in Names
  BY <1>2, <1>4 DEF FileSet
<1>6. IsFiniteSet(1 .. Len(files))
  BY <1>3, FS_Interval
<1>7. QED
  BY <1>1, <1>2, <1>3, <1>4, <1>5, <1>6

LEMMA FoundInKnown ==
    ASSUME input \in Inputs, IsScan(scan)
    PROVE  \A n \in DOMAIN Files : FoundIn(n).imports \subseteq Imports
<1>1. FindingsOf(scan).imports \subseteq Imports
  BY DEF IsScan, FindingsOf
<1>2. \A n \in DOMAIN Files : Files[n].found.imports \subseteq Imports
  <2>1. \A n \in DOMAIN Files : Files[n].found \in FindingsType
    BY FilesAreFiles DEF IsFile
  <2>2. QED
    BY <2>1 DEF FindingsType
<1>3. QED
  BY <1>1, <1>2 DEF FoundIn

LEMMA UnreadIsFile ==
    ASSUME NEW f, IsFile(f)
    PROVE  IsFile(Unread(f))
<1>1. PICK g : g = Unread(f)
  OBVIOUS
<1>2. /\ g.name = f.name /\ g.says = f.says /\ g.atImport = f.atImport /\ g.found = f.found /\ g.members = f.members
      /\ g.size = f.size /\ g.suf = f.suf /\ DOMAIN g = DOMAIN f
  BY <1>1, UnreadFields
<1>3. g.python = "wrong" /\ g.json = "broken" /\ g.fmt \in {"", f.fmt}
  BY <1>1, UnreadFields
<1>4. IsFile(g)
  BY <1>2, <1>3 DEF IsFile
<1>5. QED
  BY <1>1, <1>4

LEMMA FlagsOfKnown ==
    ASSUME input \in Inputs, IsScan(scan), NEW pass \in Passes, NEW failing, NEW later
    PROVE  FlagsOf(pass, failing, later) \subseteq AllFlags
<1>1. \A f \in FileSet : /\ HookFlags(f, failing) \subseteq AllFlags /\ MainFlags(f, failing, later) \subseteq AllFlags
                         /\ TamperingFlags(f, failing) \subseteq AllFlags /\ TlsFlags(f, failing) \subseteq AllFlags
                         /\ ManifestFlags(f, failing) \subseteq AllFlags
  BY FilesAreFiles, TextFlagsKnown
<1>2. \A n \in DOMAIN Files : AgentFlags(Files, n, failing, later) \subseteq AllFlags
  <2>1. PICK files : files = Files
    OBVIOUS
  <2>2. \A n \in DOMAIN files : IsFile(files[n])
    BY <2>1, FilesAreFiles
  <2>3. \A n \in DOMAIN files : AgentFlags(files, n, failing, later) \subseteq AllFlags
    BY <2>2, AgentFlagsKnown
  <2>4. QED
    BY <2>1, <2>3
<1>3. ModelFlags(AsRead(Files, later), NotRead(Files, failing, later), [n \in DOMAIN Files |-> FoundIn(n)]) \subseteq AllFlags
  <2>1. PICK files, names, found : files = AsRead(Files, later) /\ names = NotRead(Files, failing, later)
                                   /\ found = [n \in DOMAIN Files |-> FoundIn(n)]
    OBVIOUS
  <2>2. DOMAIN files = DOMAIN Files /\ \A n \in DOMAIN files : files[n] \in {Files[n], Unread(Files[n])}
    BY <2>1 DEF AsRead
  <2>3. \A n \in DOMAIN files : IsFile(files[n])
    BY <2>2, FilesAreFiles, UnreadIsFile
  <2>4. \A n \in DOMAIN files : found[n].imports \subseteq Imports
    BY <2>1, <2>2, FoundInKnown
  <2>5. ModelFlags(files, names, found) \subseteq AllFlags
    BY <2>3, <2>4, ModelFlagsKnown
  <2>6. QED
    BY <2>1, <2>5
<1>4. LinkFlags(input.links) \subseteq AllFlags
  <2>1. input.links \subseteq {"inside", "outside"}
    BY SomeInputs DEF InputsAre
  <2>2. /\ "low" \in Severities /\ "high" \in Severities /\ "G701" \in Codes /\ "G702" \in Codes
        /\ <<"inside">> \in Places /\ <<"outside">> \in Places
    BY DEF Severities, Codes, Places
  <2>3. \A l \in input.links :
          (IF l = "inside" THEN Flag("low", "G702", <<l>>) ELSE Flag("high", "G701", <<l>>)) \in AllFlags
    BY <2>1, <2>2, FlagKnown
  <2>4. QED
    BY <2>3 DEF LinkFlags
<1>5. QED
  BY <1>1, <1>2, <1>3, <1>4 DEF FlagsOf

\* The reads that fail in a pass are added to those of the passes before it.
LEMMA LossesAdd ==
    ASSUME StageOK, HistoryOK, NEW pass \in Passes, NEW failing \in Failing, failed[pass] = {},
           failed' = [failed EXCEPT ![pass] = failing], input' = input
    PROVE  /\ failing \subseteq Names
           /\ IsFiniteSet(Losses') /\ Cardinality(Losses') <= input.faults
<1> DEFINE names == {Files[n].name : n \in DOMAIN Files}
           new == {pass} \X failing
<1>1. failing \subseteq names /\ Cardinality(failing) <= input.faults - Faults
  BY DEF Failing
<1>2. names \subseteq Names /\ IsFiniteSet(DOMAIN Files) /\ input.faults \in Nat
  BY FilesAreFiles, SomeInputs DEF StageOK, InputsAre
<1>3. IsFiniteSet(failing)
  <2> DEFINE f == [n \in DOMAIN Files |-> Files[n].name]
  <2>1. f \in Surjection(DOMAIN Files, names)
    BY DEF Surjection
  <2>2. IsFiniteSet(names)
    BY <1>2, <2>1, FS_Surjection
  <2> HIDE DEF names
  <2>3. QED
    BY <1>1, <2>2, FS_Subset
<1>4. IsFiniteSet(new) /\ Cardinality(new) = Cardinality(failing)
  <2>1. IsFiniteSet({pass}) /\ Cardinality({pass}) = 1
    BY FS_Singleton
  <2>2. Cardinality(failing) \in Nat
    BY <1>3, FS_CardinalityType
  <2>3. IsFiniteSet(new) /\ Cardinality(new) = Cardinality({pass}) * Cardinality(failing)
    BY <1>3, <2>1, FS_Product
  <2>4. QED
    BY <2>1, <2>2, <2>3
<1>5. Losses' = Losses \cup new
  <2>1. failed \in [Passes -> SUBSET Names]
    BY DEF HistoryOK
  <2>2. failed'[pass] = failing /\ \A p \in Passes \ {pass} : failed'[p] = failed[p]
    BY <2>1
  <2>3. Losses' = UNION {{p} \X failed'[p] : p \in Passes}
    BY DEF Losses
  <2>4. \A x : x \in Losses' <=> \E p \in Passes : x \in {p} \X failed'[p]
    BY <2>3
  <2>5. \A x : x \in Losses <=> \E p \in Passes : x \in {p} \X failed[p]
    BY DEF Losses
  <2>6. \A x : x \in Losses' <=> x \in Losses \/ x \in new
    BY <2>2, <2>4, <2>5
  <2>7. QED
    BY <2>6
<1>6. Losses \cap new = {}
  BY DEF Losses
<1>7. IsFiniteSet(Losses) /\ Faults = Cardinality(Losses)
  BY DEF HistoryOK, Faults, Losses
<1> HIDE DEF names, new
<1>8. /\ IsFiniteSet(Losses \cup new)
      /\ Cardinality(Losses \cup new) = Cardinality(Losses) + Cardinality(new) - Cardinality(Losses \cap new)
  BY <1>4, <1>7, FS_Union
<1>9. Cardinality(Losses \cap new) = 0
  BY <1>6, FS_EmptySet
<1>10. Cardinality(Losses) \in Nat /\ Cardinality(failing) \in Nat
  BY <1>3, <1>7, FS_CardinalityType
<1>11. QED
  BY <1>1, <1>2, <1>4, <1>5, <1>7, <1>8, <1>9, <1>10

\* The findings of a pass depend on the tree, and for the models on the pickle scanned.
LEMMA SameFlags ==
    ASSUME input' = input, NEW pass \in Passes, pass = "models" => scan' = scan
    PROVE  \A failing : \A later : FlagsOf(pass, failing, later)' = FlagsOf(pass, failing, later)
<1>1. Files' = Files /\ FileSet' = FileSet
  BY DEF Files, FileSet
<1>2. CASE pass = "models"
  <2>1. \A n : FoundIn(n)' = FoundIn(n)
    BY <1>1, <1>2 DEF FoundIn, FindingsOf
  <2>2. [n \in DOMAIN Files |-> FoundIn(n)]' = [n \in DOMAIN Files |-> FoundIn(n)]
    BY <1>1, <2>1
  <2>3. QED
    BY <1>1, <1>2, <2>2 DEF FlagsOf
<1>3. CASE pass # "models"
  BY <1>1, <1>3 DEF FlagsOf
<1>4. QED
  BY <1>2, <1>3
LEMMA SameTexts ==
    ASSUME input' = input, NEW pass
    PROVE  \A failing : TextsOf(pass, failing)' = TextsOf(pass, failing)
<1>1. Files' = Files /\ FileSet' = FileSet
  BY DEF Files, FileSet
<1>2. QED
  BY <1>1 DEF TextsOf

Kept == UNCHANGED <<input, failed, read>>

LEMMA Turns ==
    /\ Turn["raised"] = 0 /\ \A pass \in Passes : Turn[pass] \in 1 .. 8
    /\ \A s \in Stages : Turn[s] \in 0 .. 12
    /\ \A pass \in Passes : \A s \in Stages : Turn[s] = Turn[pass] => s = pass
  BY DEF Turn, Passes, Stages

\* A step of no pass leaves what the passes found.
LEMMA GoesOn ==
    ASSUME StageOK, HistoryOK, PassesOK, Kept, flags \subseteq flags',
           scan' # scan => ~Over("models"),
           \/ stage' = "raised"
           \/ stage # "raised" /\ \A pass \in Passes : Turn[pass] < Turn[stage'] <=> Turn[pass] < Turn[stage]
    PROVE  HistoryOK' /\ PassesOK'
<1>1. failed' = failed /\ read' = read /\ input' = input
  BY DEF Kept
<1>2. ASSUME NEW pass \in Passes, Over(pass)'
      PROVE  Over(pass)
  BY <1>2, Turns DEF Over
<1>3. ASSUME NEW pass \in Passes, stage' # "raised", ~Over(pass)'
      PROVE  stage # "raised" /\ ~Over(pass)
  BY <1>3 DEF Over
<1>4. HistoryOK'
  <2>1. Losses' = Losses
    BY <1>1 DEF Losses
  <2>2. \A pass \in Passes : stage' # "raised" /\ ~Over(pass)' => failed'[pass] = {}
    BY <1>1, <1>3 DEF HistoryOK
  <2>3. QED
    BY <1>1, <2>1, <2>2 DEF HistoryOK
<1>5. ASSUME NEW pass \in Passes, Over(pass)'
      PROVE  Told(pass, failed[pass], flags)' /\ (read[pass] = {f.name : f \in TextsOf(pass, failed[pass])})'
  <2>1. Over(pass) /\ (pass = "models" => scan' = scan)
    BY <1>2, <1>5
  <2>2. PICK failing : failing = failed[pass]
    OBVIOUS
  <2>3. PICK later \in SUBSET failing : FlagsOf(pass, failing, later) \subseteq flags
    BY <2>1, <2>2 DEF PassesOK, Told
  <2>4. /\ FlagsOf(pass, failing, later)' = FlagsOf(pass, failing, later)
        /\ TextsOf(pass, failing)' = TextsOf(pass, failing)
    BY <1>1, <2>1, SameFlags, SameTexts
  <2>5. read[pass] = {f.name : f \in TextsOf(pass, failing)}
    BY <2>1, <2>2 DEF PassesOK
  <2>6. failed'[pass] = failing
    BY <1>1, <2>2
  <2>7. Told(pass, failed[pass], flags)'
    BY <2>3, <2>4, <2>6 DEF Told
  <2>8. QED
    BY <1>1, <2>4, <2>5, <2>6, <2>7
<1>6. PassesOK'
  BY <1>5 DEF PassesOK
<1>7. QED
  BY <1>4, <1>6

\* A pass adds what it finds.
LEMMA PassGoes ==
    ASSUME StageOK, HistoryOK, PassesOK, IsScan(scan), NEW pass \in Passes, NEW next, NEW failing \in Failing,
           NEW later \in SUBSET failing,
           Pass(pass, next, failing, FlagsOf(pass, failing, later), TextsOf(pass, failing)),
           next = "raised" \/ (next \in Stages /\ Turn[next] = Turn[pass] + 1 /\ next # "done")
    PROVE  StageOK' /\ HistoryOK' /\ PassesOK'
<1>1. /\ stage = pass /\ stage' = next /\ flags' = flags \cup FlagsOf(pass, failing, later)
      /\ failed' = [failed EXCEPT ![pass] = failing]
      /\ read' = [read EXCEPT ![pass] = {f.name : f \in TextsOf(pass, failing)}]
      /\ input' = input /\ verdict' = verdict /\ scan' = scan /\ vm' = vm
  BY DEF Pass, pickleVars
<1>2. pass # "raised" /\ pass # "done" /\ ~Over(pass)
  BY <1>1, Turns DEF Passes, Over
<1>3. failed[pass] = {}
  BY <1>1, <1>2 DEF HistoryOK
<1>4. failing \subseteq Names /\ IsFiniteSet(Losses') /\ Cardinality(Losses') <= input.faults
  BY <1>1, <1>3, LossesAdd
<1>5. \A p \in Passes : Turn[p] < Turn[stage'] => p = pass \/ Over(p)
  BY <1>1, Turns DEF Over, Passes, Stages
<1>6. stage' # "raised" => \A p \in Passes : Turn[p] < Turn[stage'] <=> (p = pass \/ Over(p))
  BY <1>1, Turns DEF Over, Passes, Stages
<1>7. StageOK'
  <2>1. FlagsOf(pass, failing, later) \subseteq AllFlags
    BY FlagsOfKnown DEF StageOK
  <2>2. stage' \in Stages /\ stage' # "done" /\ stage # "done"
    BY <1>1, <1>2 DEF Stages
  <2>3. verdict' = NoVerdict
    BY <1>1, <2>2 DEF StageOK
  <2>4. (flags \subseteq AllFlags)'
    BY <1>1, <2>1 DEF StageOK
  <2>5. QED
    BY <1>1, <2>2, <2>3, <2>4 DEF StageOK
<1>8. HistoryOK'
  <2>1. failed' \in [Passes -> SUBSET Names] /\ read' \in [Passes -> SUBSET Names]
    <3>1. {f.name : f \in TextsOf(pass, failing)} \subseteq Names
      <4>1. \A f \in TextsOf(pass, failing) : f \in FileSet
        BY DEF TextsOf, FileSet
      <4>2. QED
        BY <4>1, FilesAreFiles DEF StageOK
    <3>2. QED
      BY <1>1, <1>4, <3>1 DEF HistoryOK
  <2>2. ASSUME NEW p \in Passes, stage' # "raised", ~Over(p)'
        PROVE  failed'[p] = {}
    <3>1. p # pass /\ ~Over(p)
      BY <1>6, <2>2 DEF Over
    <3>2. failed'[p] = failed[p] /\ stage # "raised"
      BY <1>1, <1>2, <3>1 DEF HistoryOK
    <3>3. QED
      BY <3>1, <3>2 DEF HistoryOK
  <2>3. QED
    BY <1>1, <1>4, <2>1, <2>2 DEF HistoryOK
<1>9. ASSUME NEW p \in Passes, Over(p)'
      PROVE  Told(p, failed[p], flags)' /\ (read[p] = {f.name : f \in TextsOf(p, failed[p])})'
  <2>1. PICK names : names = failed'[p]
    OBVIOUS
  <2>2. /\ \A some : FlagsOf(p, names, some)' = FlagsOf(p, names, some)
        /\ TextsOf(p, names)' = TextsOf(p, names)
    BY <1>1, SameFlags, SameTexts
  <2>3. (\E some \in SUBSET names : FlagsOf(p, names, some) \subseteq flags') /\ read'[p] = {f.name : f \in TextsOf(p, names)}
    <3>1. CASE p = pass
      <4>1. names = failing /\ read'[p] = {f.name : f \in TextsOf(pass, failing)}
        BY <1>1, <2>1, <3>1 DEF HistoryOK
      <4>2. QED
        BY <1>1, <3>1, <4>1
    <3>2. CASE p # pass
      <4>1. Over(p)
        BY <1>5, <1>9, <3>2 DEF Over
      <4>2. names = failed[p] /\ read'[p] = read[p]
        BY <1>1, <2>1, <3>2 DEF HistoryOK
      <4>3. QED
        BY <1>1, <4>1, <4>2 DEF PassesOK, Told
    <3>3. QED
      BY <3>1, <3>2
  <2>4. Told(p, failed[p], flags)'
    BY <2>1, <2>2, <2>3 DEF Told
  <2>5. QED
    BY <2>1, <2>2, <2>3, <2>4
<1>10. PassesOK'
  BY <1>9 DEF PassesOK
<1>11. QED
  BY <1>7, <1>8, <1>10

InspectionOK == StageOK /\ HistoryOK /\ PassesOK

LEMMA PassesGo ==
    ASSUME InspectionOK, IsScan(scan), Hooks \/ MainPass \/ AgentPass \/ TamperingPass \/ ModelPass \/ TlsPass \/ Manifests
    PROVE  InspectionOK'
<1>1. StageOK /\ HistoryOK /\ PassesOK
  BY DEF InspectionOK
<1>2. ASSUME NEW pass \in Passes, NEW next, NEW failing \in Failing, NEW later \in SUBSET failing,
             Pass(pass, next, failing, FlagsOf(pass, failing, later), TextsOf(pass, failing)),
             next = "raised" \/ (next \in Stages /\ Turn[next] = Turn[pass] + 1 /\ next # "done")
      PROVE  InspectionOK'
  BY <1>1, <1>2, PassGoes DEF InspectionOK
<1>3. /\ "hooks" \in Passes /\ "main" \in Passes /\ "agents" \in Passes /\ "tampering" \in Passes /\ "models" \in Passes
      /\ "tls" \in Passes /\ "manifests" \in Passes
  BY DEF Passes
<1>4. /\ "main" \in Stages /\ "agents" \in Stages /\ "tampering" \in Stages /\ "pickle" \in Stages /\ "tls" \in Stages
      /\ "manifests" \in Stages /\ "imports" \in Stages
  BY DEF Stages, Passes
<1>5. /\ Turn["main"] = Turn["hooks"] + 1 /\ Turn["agents"] = Turn["main"] + 1 /\ Turn["tampering"] = Turn["agents"] + 1
      /\ Turn["pickle"] = Turn["tampering"] + 1 /\ Turn["tls"] = Turn["models"] + 1
      /\ Turn["manifests"] = Turn["tls"] + 1 /\ Turn["imports"] = Turn["manifests"] + 1
  BY DEF Turn
<1>6. CASE Hooks
  <2>1. PICK failing \in Failing, next \in {"raised", "main"} :
          Pass("hooks", next, failing, FlagsOf("hooks", failing, {}), TextsOf("hooks", failing))
    BY <1>6 DEF Hooks, FlagsOf, TextsOf
  <2>2. QED
    BY <1>2, <1>3, <1>4, <1>5, <2>1
<1>7. CASE MainPass
  <2>1. PICK failing \in Failing : \E later \in SUBSET failing :
          Pass("main", "agents", failing, FlagsOf("main", failing, later), TextsOf("main", failing))
    BY <1>7 DEF MainPass, FlagsOf, TextsOf
  <2>2. QED
    BY <1>2, <1>3, <1>4, <1>5, <2>1
<1>8. CASE AgentPass
  <2>1. PICK failing \in Failing : \E later \in SUBSET failing :
          Pass("agents", "tampering", failing, FlagsOf("agents", failing, later), TextsOf("agents", failing))
    BY <1>8 DEF AgentPass, FlagsOf, TextsOf
  <2>2. QED
    BY <1>2, <1>3, <1>4, <1>5, <2>1
<1>9. CASE TamperingPass
  <2>1. PICK failing \in Failing :
          Pass("tampering", "pickle", failing, FlagsOf("tampering", failing, {}), TextsOf("tampering", failing))
    BY <1>9 DEF TamperingPass, FlagsOf, TextsOf
  <2>2. QED
    BY <1>2, <1>3, <1>4, <1>5, <2>1
<1>10. CASE ModelPass
  <2>1. PICK failing \in Failing, next \in {"raised", "tls"} : \E later \in SUBSET failing :
          Pass("models", next, failing, FlagsOf("models", failing, later), TextsOf("models", failing))
    BY <1>10 DEF ModelPass, FlagsOf, TextsOf
  <2>2. QED
    BY <1>2, <1>3, <1>4, <1>5, <2>1
<1>11. CASE TlsPass
  <2>1. PICK failing \in Failing :
          Pass("tls", "manifests", failing, FlagsOf("tls", failing, {}), TextsOf("tls", failing))
    BY <1>11 DEF TlsPass, FlagsOf, TextsOf
  <2>2. QED
    BY <1>2, <1>3, <1>4, <1>5, <2>1
<1>12. CASE Manifests
  <2>1. PICK failing \in Failing, next \in {"raised", "imports"} :
          Pass("manifests", next, failing, FlagsOf("manifests", failing, {}), TextsOf("manifests", failing))
    BY <1>12 DEF Manifests, FlagsOf, TextsOf
  <2>2. QED
    BY <1>2, <1>3, <1>4, <1>5, <2>1
<1>13. QED
  BY <1>6, <1>7, <1>8, <1>9, <1>10, <1>11, <1>12

LEMMA ReportsKnown ==
    ASSUME NEW r \in ReportType
    PROVE  ReportFlags(r) \subseteq AllFlags
<1>1. "low" \in Severities /\ "G901" \in Codes /\ "G909" \in Codes /\ <<"report">> \in Places
  BY DEF Severities, Codes, Places
<1>2. QED
  BY <1>1, FlagKnown DEF ReportFlags

\* The steps of no pass.
LEMMA OthersGo ==
    ASSUME InspectionOK, signals \subseteq AllFlags, PickleDone \/ Imported \/ Behaved \/ Conclude
    PROVE  InspectionOK'
<1>1. StageOK /\ HistoryOK /\ PassesOK
  BY DEF InspectionOK
<1>2. Kept /\ flags \subseteq flags' /\ scan' = scan /\ vm' = vm
  BY DEF PickleDone, Imported, Behaved, Conclude, Kept, pickleVars
<1>3. HistoryOK' /\ PassesOK'
  <2>1. \/ stage' = "raised"
        \/ stage # "raised" /\ \A pass \in Passes : Turn[pass] < Turn[stage'] <=> Turn[pass] < Turn[stage]
    <3>1. \/ stage' = "raised"
          \/ stage = "pickle" /\ stage' = "models"
          \/ stage = "imports" /\ stage' = "behaviour"
          \/ stage = "behaviour" /\ stage' = "score"
          \/ stage = "score" /\ stage' = "done"
      BY DEF PickleDone, Imported, Behaved, Conclude
    <3>2. QED
      BY <3>1 DEF Turn, Passes
  <2>2. QED
    BY <1>1, <1>2, <2>1, GoesOn
<1>4. StageOK'
  <2>1. CASE Conclude
    <3>1. stage' = "done" /\ verdict' = VerdictOf(flags) /\ flags' = flags /\ input' = input
      BY <2>1 DEF Conclude
    <3>2. (verdict = IF stage = "done" THEN VerdictOf(flags) ELSE NoVerdict)'
      BY <3>1
    <3>3. QED
      BY <1>1, <1>2, <3>1, <3>2 DEF StageOK, Stages
  <2>2. CASE PickleDone \/ Imported \/ Behaved
    <3>1. /\ stage' \in {"models", "raised", "behaviour", "score"} /\ verdict' = verdict /\ input' = input
          /\ stage \in {"pickle", "imports", "behaviour"}
      BY <2>2 DEF PickleDone, Imported, Behaved
    <3>2. flags' \subseteq AllFlags
      <4>1. CASE PickleDone
        BY <1>1, <4>1 DEF PickleDone, StageOK
      <4>2. CASE Behaved
        BY <1>1, <4>2 DEF Behaved, StageOK
      <4>3. CASE Imported
        <5>1. \A r \in input.reports : ReportFlags(r) \subseteq AllFlags
          BY <1>1, ReportsKnown, SomeInputs DEF StageOK, InputsAre
        <5>2. flags' = flags \cup UNION {ReportFlags(r) : r \in input.reports \ {"shape"}}
          BY <4>3 DEF Imported
        <5>3. QED
          BY <1>1, <5>1, <5>2 DEF StageOK
      <4>4. QED
        BY <2>2, <4>1, <4>2, <4>3
    <3>3. verdict' = NoVerdict /\ stage' # "done" /\ stage' \in Stages
      BY <1>1, <3>1 DEF StageOK, Stages, Passes
    <3>4. QED
      BY <1>1, <1>2, <3>1, <3>2, <3>3 DEF StageOK
  <2>3. QED
    BY <2>1, <2>2
<1>5. QED
  BY <1>3, <1>4 DEF InspectionOK

LEMMA PickleGoes ==
    ASSUME InspectionOK, PickleStep
    PROVE  InspectionOK'
<1>1. StageOK /\ HistoryOK /\ PassesOK /\ Kept /\ flags' = flags /\ stage' = stage /\ verdict' = verdict
      /\ stage = "pickle" /\ input.stream # {}
  BY DEF InspectionOK, PickleStep, Kept, inspectionVars
<1>2. ~Over("models")
  BY <1>1 DEF Over, Turn
<1>3. HistoryOK' /\ PassesOK'
  BY <1>1, <1>2, GoesOn
<1>4. StageOK'
  BY <1>1 DEF StageOK, Kept
<1>5. QED
  BY <1>3, <1>4 DEF InspectionOK

LEMMA StaysSame ==
    ASSUME InspectionOK, UNCHANGED <<inspectionVars, pickleVars>>
    PROVE  InspectionOK'
<1>1. StageOK /\ HistoryOK /\ PassesOK /\ Kept /\ flags' = flags /\ stage' = stage /\ verdict' = verdict
      /\ scan' = scan /\ vm' = vm
  BY DEF InspectionOK, Kept, inspectionVars, pickleVars
<1>2. StageOK'
  <2>1. (verdict = IF stage = "done" THEN VerdictOf(flags) ELSE NoVerdict)'
    BY <1>1 DEF StageOK
  <2>2. QED
    BY <1>1, <2>1 DEF StageOK, Kept
<1>3. CASE stage # "raised"
  <2>1. HistoryOK' /\ PassesOK'
    BY <1>1, <1>3, GoesOn
  <2>2. QED
    BY <1>2, <2>1 DEF InspectionOK
<1>4. CASE stage = "raised"
  <2>1. HistoryOK' /\ PassesOK'
    BY <1>1, <1>4, GoesOn
  <2>2. QED
    BY <1>2, <2>1 DEF InspectionOK
<1>5. QED
  BY <1>3, <1>4

-----------------------------------------------------------------------------
(* The behavioural run's types.                                            *)

Heard == {n \in DOMAIN requests : requests[n].state # "sent"}

SandboxTypes ==
    /\ proc \in [Procs -> {"none", "running", "ended", "killed"}]
    /\ child \in [own : BOOLEAN, pipes : BOOLEAN] /\ timedOut \in BOOLEAN
    /\ DOMAIN exfil \subseteq Decoys /\ signals \subseteq AllFlags
    /\ Len(requests) <= MaxRequests /\ Len(captures) = Cardinality(Heard)

\* What is captured was sent.
LEMMA CapturesSent ==
    ASSUME WireOK, SandboxTypes
    PROVE  Len(captures) <= Len(requests)
<1>1. requests \in Seq(RequestType) /\ Len(requests) \in Nat /\ DOMAIN requests = 1 .. Len(requests)
  BY DEF WireOK
<1>2. IsFiniteSet(1 .. Len(requests)) /\ Cardinality(1 .. Len(requests)) = Len(requests)
  BY <1>1, FS_Interval
<1>3. Heard \in SUBSET (1 .. Len(requests))
  BY <1>1 DEF Heard
<1>4. Cardinality(Heard) <= Cardinality(1 .. Len(requests))
  BY <1>2, <1>3, FS_Subset
<1>5. QED
  BY <1>2, <1>4 DEF SandboxTypes

LEMMA TypesKeptByArtifact ==
    ASSUME WireOK, SandboxTypes, Artifact
    PROVE  SandboxTypes'
<1>1. requests \in Seq(RequestType) /\ Len(requests) \in Nat /\ DOMAIN requests = 1 .. Len(requests) /\ MaxRequests \in Nat
  BY SandboxAssumption DEF WireOK
<1>2. PICK p \in Procs :
        \/ \E d \in Decoys : ReadDecoy(p, d)
        \/ \E tokens \in SUBSET opened, host \in Hosts \cup {Unknown}, legible \in BOOLEAN :
              Request(p, tokens, host, legible)
        \/ \E f \in Paths : Write(p, f)
        \/ \E own, pipes \in BOOLEAN : p = "hook" /\ StartChild(own, pipes)
        \/ Exit(p)
  BY DEF Artifact
<1>3. ASSUME NEW d, ReadDecoy(p, d) \/ Write(p, d)
      PROVE  SandboxTypes'
  <2>1. UNCHANGED <<proc, child, timedOut, exfil, signals, requests, captures>>
    BY <1>3 DEF ReadDecoy, Write, runnerVars
  <2>2. Heard' = Heard
    BY <2>1 DEF Heard
  <2>3. QED
    BY <2>1, <2>2 DEF SandboxTypes
<1>4. ASSUME NEW tokens, NEW host, NEW legible, Request(p, tokens, host, legible)
      PROVE  SandboxTypes'
  <2>1. PICK new : new = [seen |-> IF legible THEN tokens ELSE {}, host |-> host, state |-> "sent"]
    OBVIOUS
  <2>2. /\ requests' = Append(requests, new) /\ Len(requests) < MaxRequests /\ new.state = "sent"
        /\ UNCHANGED <<proc, child, timedOut, exfil, signals, captures>>
    BY <1>4, <2>1 DEF Request, hookVars, runnerVars
  <2>3. /\ Len(requests') = Len(requests) + 1 /\ DOMAIN requests' = 1 .. Len(requests) + 1
        /\ requests'[Len(requests) + 1] = new /\ \A n \in 1 .. Len(requests) : requests'[n] = requests[n]
    BY <1>1, <2>2, AppendProperties
  <2>4. Heard' = Heard
    BY <1>1, <2>2, <2>3 DEF Heard
  <2>5. Len(requests') <= MaxRequests
    BY <1>1, <2>2, <2>3
  <2>6. QED
    BY <2>2, <2>4, <2>5 DEF SandboxTypes
<1>5. ASSUME NEW own \in BOOLEAN, NEW pipes \in BOOLEAN, StartChild(own, pipes)
      PROVE  SandboxTypes'
  <2>1. /\ proc' = [proc EXCEPT !["child"] = "running"] /\ child' = [own |-> own, pipes |-> pipes]
        /\ UNCHANGED <<timedOut, exfil, signals, requests, captures>>
    BY <1>5 DEF StartChild, runnerVars
  <2>2. Heard' = Heard
    BY <2>1 DEF Heard
  <2>3. child' \in [own : BOOLEAN, pipes : BOOLEAN] /\ proc' \in [Procs -> {"none", "running", "ended", "killed"}]
    BY <2>1 DEF SandboxTypes
  <2>4. QED
    BY <2>1, <2>2, <2>3 DEF SandboxTypes
<1>6. CASE Exit(p)
  <2>1. /\ proc' = [proc EXCEPT ![p] = "ended"]
        /\ UNCHANGED <<child, timedOut, exfil, signals, requests, captures>>
    BY <1>6 DEF Exit, runnerVars
  <2>2. Heard' = Heard
    BY <2>1 DEF Heard
  <2>3. proc' \in [Procs -> {"none", "running", "ended", "killed"}]
    BY <2>1 DEF SandboxTypes
  <2>4. QED
    BY <2>1, <2>2, <2>3 DEF SandboxTypes
<1>7. QED
  BY <1>2, <1>3, <1>4, <1>5, <1>6

LEMMA TypesKeptBySink ==
    ASSUME WireOK, SandboxTypes, Sink
    PROVE  SandboxTypes'
<1>1. PICK n \in DOMAIN requests : Hear(n) \/ Answer(n)
  BY DEF Sink
<1>2. /\ requests \in Seq(RequestType) /\ captures \in Seq(CaptureType) /\ Len(captures) \in Nat
      /\ Len(requests) \in Nat /\ DOMAIN requests = 1 .. Len(requests) /\ requests[n] \in RequestType
  BY DEF WireOK
<1>3. UNCHANGED <<proc, child, timedOut, exfil, signals>>
  BY <1>1 DEF Hear, Answer, hookVars, runnerVars
<1>4. PICK state \in {"heard", "answered"} :
        /\ requests' = [requests EXCEPT ![n].state = state]
        /\ Hear(n) => state = "heard"
  BY <1>1 DEF Hear, Answer
<1>5. PICK r : r = [requests[n] EXCEPT !.state = state]
  OBVIOUS
<1>6. r.state = state /\ r \in RequestType /\ requests' = [requests EXCEPT ![n] = r]
  BY <1>2, <1>4, <1>5 DEF RequestType
<1>7. /\ Len(requests') = Len(requests) /\ DOMAIN requests' = DOMAIN requests
      /\ requests'[n] = r /\ \A m \in DOMAIN requests \ {n} : requests'[m] = requests[m]
  BY <1>2, <1>6, ExceptSeq
<1>8. Heard' = Heard \cup {n}
  BY <1>6, <1>7 DEF Heard
<1>9. IsFiniteSet(Heard)
  <2>1. IsFiniteSet(1 .. Len(requests)) /\ Heard \in SUBSET (1 .. Len(requests))
    BY <1>2, FS_Interval DEF Heard
  <2>2. QED
    BY <2>1, FS_Subset
<1>10. Cardinality(Heard \cup {n}) = IF n \in Heard THEN Cardinality(Heard) ELSE Cardinality(Heard) + 1
  BY <1>9, FS_AddElement
<1>11. Len(captures') = Cardinality(Heard')
  <2>1. CASE Hear(n)
    <3>1. requests[n].state = "sent" /\ n \notin Heard
      BY <2>1 DEF Hear, Heard
    <3>2. PICK c : captures' = Append(captures, c)
      BY <2>1 DEF Hear
    <3>3. Len(captures') = Len(captures) + 1
      BY <1>2, <3>2, AppendProperties
    <3>4. QED
      BY <1>8, <1>10, <3>1, <3>3 DEF SandboxTypes
  <2>2. CASE Answer(n)
    <3>1. captures' = captures /\ n \in Heard
      BY <2>2 DEF Answer, Heard
    <3>2. QED
      BY <1>8, <1>10, <3>1 DEF SandboxTypes
  <2>3. QED
    BY <1>1, <2>1, <2>2
<1>12. QED
  BY <1>3, <1>7, <1>11 DEF SandboxTypes

LEMMA TypesKeptByRunner ==
    ASSUME SandboxOK, SandboxTypes, Runner
    PROVE  SandboxTypes'
<1>1. WireOK /\ ExfilOK /\ UNCHANGED <<requests, captures, child, opened, written>>
  BY DEF SandboxOK, Runner, Skip, Detonate, Finished, TimeOut, Kill, Drain, ReadExfil, ReadHosts, ReadPersistence,
         ReadAccess, Remove, hookVars
<1>2. Heard' = Heard
  BY <1>1 DEF Heard
<1>3. proc' \in [Procs -> {"none", "running", "ended", "killed"}]
  <2>1. CASE Detonate
    BY <2>1 DEF Detonate, SandboxTypes
  <2>2. CASE Kill
    BY <2>2 DEF Kill, SandboxTypes
  <2>3. CASE ~Detonate /\ ~Kill
    <3>1. proc' = proc
      BY <2>3 DEF Runner, Skip, Finished, TimeOut, Drain, ReadExfil, ReadHosts, ReadPersistence, ReadAccess, Remove,
                  hookVars
    <3>2. QED
      BY <3>1 DEF SandboxTypes
  <2>4. QED
    BY <2>1, <2>2, <2>3
<1>4. timedOut' \in BOOLEAN
  <2>1. timedOut' = timedOut \/ timedOut' = TRUE
    BY DEF Runner, Skip, Detonate, Finished, TimeOut, Kill, Drain, ReadExfil, ReadHosts, ReadPersistence,
           ReadAccess, Remove
  <2>2. QED
    BY <2>1 DEF SandboxTypes
<1>5. DOMAIN exfil' \subseteq Decoys
  <2>1. CASE ReadExfil
    BY <2>1 DEF ReadExfil, Tokens
  <2>2. CASE ~ReadExfil
    <3>1. exfil' = exfil
      BY <2>2 DEF Runner, Skip, Detonate, Finished, TimeOut, Kill, Drain, ReadHosts, ReadPersistence, ReadAccess, Remove
    <3>2. QED
      BY <3>1 DEF SandboxTypes
  <2>3. QED
    BY <2>1, <2>2
<1>6. signals' \subseteq AllFlags
  <2>1. /\ "low" \in Severities /\ "medium" \in Severities /\ "high" \in Severities
        /\ "G801" \in Codes /\ "G802" \in Codes /\ "G803" \in Codes /\ "G804" \in Codes /\ "G805" \in Codes
        /\ "G808" \in Codes /\ "G809" \in Codes /\ None \in Places
    BY DEF Severities, Codes, Places
  <2>2. CASE Skip
    <3>1. Flag("low", "G809", None) \in AllFlags /\ Flag("low", "G808", None) \in AllFlags
      BY <2>1, FlagKnown
    <3>2. QED
      BY <2>2, <3>1 DEF Skip
  <2>3. CASE ReadHosts
    <3>1. \A d \in DOMAIN exfil : <<d, exfil[d]>> \in Places
      BY <1>1, <2>3 DEF ExfilOK, ExfilRead, ReadHosts, Places
    <3>2. \A h \in Destinations : h \in Places
      <4>1. captures \in Seq(CaptureType)
        BY <1>1 DEF WireOK
      <4>2. \A n \in DOMAIN captures : captures[n] \in CaptureType
        BY <4>1
      <4>3. \A n \in DOMAIN captures : captures[n].host \in Hosts \cup {Unknown}
        BY <4>2 DEF CaptureType
      <4>4. Destinations \subseteq Hosts
        BY <4>3 DEF Destinations
      <4>5. QED
        BY <4>4 DEF Places
    <3>3. /\ \A d \in DOMAIN exfil : Flag("high", "G801", <<d, exfil[d]>>) \in AllFlags
          /\ \A h \in Destinations : Flag("medium", "G802", h) \in AllFlags
      BY <2>1, <3>1, <3>2, FlagKnown
    <3>4. signals' = {Flag("high", "G801", <<d, exfil[d]>>) : d \in DOMAIN exfil}
                     \cup {Flag("medium", "G802", h) : h \in Destinations}
      BY <2>3 DEF ReadHosts
    <3>5. QED
      BY <3>3, <3>4
  <2>4. CASE ReadPersistence
    <3>1. \A f \in written : f \in Places
      BY <1>1 DEF WireOK, Places
    <3>2. \A f \in written : Flag("high", "G803", f) \in AllFlags
      BY <2>1, <3>1, FlagKnown
    <3>3. QED
      BY <2>4, <3>2 DEF ReadPersistence, SandboxTypes
  <2>5. CASE ReadAccess
    <3>1. \A d \in Touched : d \in Places
      BY <1>1 DEF WireOK, Places, Touched
    <3>2. /\ \A d \in Touched : Flag("medium", "G804", d) \in AllFlags
          /\ FlagIf(timedOut, Flag("medium", "G805", None)) \subseteq AllFlags
      BY <2>1, <3>1, FlagKnown, FlagIfKnown
    <3>3. QED
      BY <2>5, <3>2 DEF ReadAccess, SandboxTypes
  <2>6. CASE ~(Skip \/ ReadHosts \/ ReadPersistence \/ ReadAccess)
    <3>1. signals' = signals
      BY <2>6 DEF Runner, Detonate, Finished, TimeOut, Kill, Drain, ReadExfil, Remove
    <3>2. QED
      BY <3>1 DEF SandboxTypes
  <2>7. QED
    BY <2>2, <2>3, <2>4, <2>5, <2>6
<1>7. QED
  BY <1>1, <1>2, <1>3, <1>4, <1>5, <1>6 DEF SandboxTypes

-----------------------------------------------------------------------------
(* The invariant.                                                          *)

Inv == InspectionOK /\ ScannerOK /\ SandboxOK /\ SandboxTypes

LEMMA InvInit == Init => Inv
<1> SUFFICES ASSUME Init PROVE Inv
  OBVIOUS
<1>1. /\ input \in Inputs /\ stage = "hooks" /\ flags = {} /\ verdict = NoVerdict
      /\ failed = [pass \in Passes |-> {}] /\ read = [pass \in Passes |-> {}]
      /\ PickleInit /\ SandboxInit
  BY DEF Init
<1>2. StageOK
  <2>1. vm.loaded = {}
    BY <1>1 DEF PickleInit, EmptyVm
  <2>2. QED
    BY <1>1, <2>1 DEF StageOK, Stages, Passes
<1>3. HistoryOK
  <2>1. Losses = {}
    BY <1>1 DEF Losses
  <2>2. IsFiniteSet(Losses) /\ Cardinality(Losses) = 0
    BY <2>1, FS_EmptySet
  <2>3. input.faults \in Nat
    BY <1>1, SomeInputs DEF InputsAre
  <2>4. QED
    BY <1>1, <2>2, <2>3 DEF HistoryOK
<1>4. PassesOK
  <2>1. \A pass \in Passes : ~Over(pass)
    BY <1>1, Turns DEF Over, Turn
  <2>2. QED
    BY <2>1 DEF PassesOK
<1>5. SandboxTypes
  <2>1. requests = <<>> /\ captures = <<>> /\ exfil = <<>> /\ signals = {} /\ timedOut = FALSE
        /\ proc = [p \in Procs |-> "none"] /\ child = [own |-> FALSE, pipes |-> FALSE]
    BY <1>1 DEF SandboxInit
  <2>2. Heard = {} /\ Cardinality(Heard) = 0 /\ Len(requests) = 0 /\ Len(captures) = 0 /\ DOMAIN exfil = {}
    BY <2>1, FS_EmptySet DEF Heard
  <2>3. MaxRequests \in Nat
    BY SandboxAssumption
  <2>4. /\ proc \in [Procs -> {"none", "running", "ended", "killed"}]
        /\ child \in [own : BOOLEAN, pipes : BOOLEAN] /\ timedOut \in BOOLEAN
    BY <2>1
  <2>5. DOMAIN exfil \subseteq Decoys /\ signals \subseteq AllFlags
    BY <2>1, <2>2
  <2>6. QED
    BY <2>2, <2>3, <2>4, <2>5 DEF SandboxTypes
<1>6. QED
  BY <1>1, <1>2, <1>3, <1>4, <1>5, ScannerStarts, SandboxStarts DEF Inv, InspectionOK

LEMMA ScannerSame == ScannerOK /\ UNCHANGED pickleVars => ScannerOK'
<1> SUFFICES ASSUME ScannerOK, UNCHANGED pickleVars PROVE ScannerOK'
  OBVIOUS
<1>1. scan' = scan /\ vm' = vm /\ count' = count
  BY DEF pickleVars
<1>2. (vm.loaded \subseteq scan.imports \/ scan.unresolved)'
  BY <1>1 DEF ScannerOK, ImportsAreSeen
<1>3. QED
  BY <1>1, <1>2 DEF ScannerOK, ImportsAreSeen, IsScan, IsVm

LEMMA SandboxSame == SandboxOK /\ SandboxTypes /\ UNCHANGED sandboxVars => SandboxOK' /\ SandboxTypes'
<1> SUFFICES ASSUME SandboxOK, SandboxTypes, UNCHANGED sandboxVars PROVE SandboxOK' /\ SandboxTypes'
  OBVIOUS
<1>1. UNCHANGED <<setting, proc, child, opened, written, phase, timedOut, exfil, signals, requests, captures, past>>
  BY DEF sandboxVars, hookVars, runnerVars
<1>2. WireOK' /\ PastOK'
  BY <1>1 DEF SandboxOK, WireOK, PastOK, Captured
<1>3. ExfilOK' /\ ToldOK'
  BY <1>1 DEF SandboxOK, ExfilOK, ToldOK
<1>4. SandboxTypes'
  <2>1. Heard' = Heard
    BY <1>1 DEF Heard
  <2>2. QED
    BY <1>1, <2>1 DEF SandboxTypes
<1>5. QED
  BY <1>2, <1>3, <1>4 DEF SandboxOK

LEMMA InvNext == Inv /\ [Next]_vars => Inv'
<1> SUFFICES ASSUME Inv, [Next]_vars PROVE Inv'
  OBVIOUS
<1>1. InspectionOK /\ ScannerOK /\ SandboxOK /\ SandboxTypes /\ IsScan(scan) /\ WireOK /\ signals \subseteq AllFlags
  BY DEF Inv, ScannerOK, SandboxOK, SandboxTypes
<1>2. CASE Inspect
  <2>1. UNCHANGED <<pickleVars, sandboxVars>>
    BY <1>2 DEF Inspect, Hooks, MainPass, AgentPass, TamperingPass, PickleDone, ModelPass, TlsPass, Manifests, Imported,
                Behaved, Conclude, Pass
  <2>2. InspectionOK'
    BY <1>1, <1>2, PassesGo, OthersGo DEF Inspect
  <2>3. QED
    BY <1>1, <2>1, <2>2, ScannerSame, SandboxSame DEF Inv
<1>3. CASE PickleStep
  <2>1. PickleNext /\ UNCHANGED sandboxVars
    BY <1>3 DEF PickleStep
  <2>2. QED
    BY <1>1, <1>3, <2>1, PickleGoes, PickleKeeps, SandboxSame DEF Inv
<1>4. CASE RunnerStep \/ SinkStep \/ ArtifactStep
  <2>1. UNCHANGED <<inspectionVars, pickleVars>> /\ (Runner \/ Sink \/ Artifact)
    BY <1>4 DEF RunnerStep, SinkStep, ArtifactStep
  <2>2. SandboxOK' /\ SandboxTypes'
    BY <1>1, <2>1, RunnerKeeps, SinkKeeps, ArtifactKeeps, TypesKeptByRunner, TypesKeptBySink, TypesKeptByArtifact
  <2>3. InspectionOK' /\ ScannerOK'
    BY <1>1, <2>1, StaysSame, ScannerSame
  <2>4. QED
    BY <2>2, <2>3 DEF Inv
<1>5. CASE UNCHANGED vars
  <2>1. UNCHANGED <<inspectionVars, pickleVars>> /\ UNCHANGED pickleVars /\ UNCHANGED sandboxVars
    BY <1>5 DEF vars
  <2>2. QED
    BY <1>1, <2>1, StaysSame, ScannerSame, SandboxSame DEF Inv
<1>6. QED
  BY <1>2, <1>3, <1>4, <1>5 DEF Next

LEMMA InvAlways == Spec => []Inv
<1>1. Init => Inv
  BY InvInit
<1>2. Inv /\ [Next]_vars => Inv'
  BY InvNext
<1>3. QED
  BY <1>1, <1>2, PTL DEF Spec

-----------------------------------------------------------------------------
(* What a pickle's loader imports has been listed by the scanner, or was    *)
(* counted as unresolved (_scan_pickle), for any number of strings, any     *)
(* length of the pickle and any memory of the scanner of at least two       *)
(* values; with the types of the whole inspection.                          *)
THEOREM WhatLoadsWasSeen == Spec => []ScannerInv
<1>1. Inv => ScannerInv
  <2> SUFFICES ASSUME Inv PROVE ScannerInv
    OBVIOUS
  <2>1. StageOK /\ HistoryOK /\ ScannerOK /\ WireOK /\ SandboxTypes /\ IsScan(scan) /\ IsVm(vm)
    BY DEF Inv, InspectionOK, SandboxOK, ScannerOK
  <2>2. input \in Inputs /\ stage \in Stages /\ failed \in [Passes -> SUBSET Names] /\ read \in [Passes -> SUBSET Names]
    BY <2>1 DEF StageOK, HistoryOK
  <2>3. \A f \in flags \cup signals : f.sev \in Severities /\ f.code \in Codes
    <3>1. \A f \in AllFlags : f.sev \in Severities /\ f.code \in Codes
      BY DEF AllFlags
    <3>2. QED
      BY <2>1, <3>1 DEF StageOK, SandboxTypes
  <2>4. verdict \in [level : Levels, status : Statuses]
    <3>1. VerdictOf(flags) \in [level : Levels, status : Statuses]
      BY DEF VerdictOf, Levels, Statuses, Score
    <3>2. NoVerdict \in [level : Levels, status : Statuses]
      BY DEF NoVerdict, Levels, Statuses
    <3>3. QED
      BY <2>1, <3>1, <3>2 DEF StageOK
  <2>5. Faults <= input.faults
    BY <2>1 DEF HistoryOK, Faults, Losses
  <2>6. FindingsOf(scan) \in FindingsType
    BY <2>1 DEF FindingsOf, FindingsType, IsScan
  <2>7. /\ \A n \in DOMAIN scan.recent : scan.recent[n] \in Values
        /\ \A n \in DOMAIN vm.stack : vm.stack[n] \in Values
        /\ Len(scan.recent) <= Remembered /\ vm.loaded \subseteq Imports /\ count \in 0 .. MaxOps
    BY <2>1 DEF IsScan, IsVm, ScannerOK
  <2>8. scan.cut \in BOOLEAN /\ scan.streams \in BOOLEAN /\ scan.fresh \in BOOLEAN /\ vm.raised \in BOOLEAN
    BY <2>1 DEF IsScan, IsVm
  <2>9. /\ proc \in [Procs -> {"none", "running", "ended", "killed"}]
        /\ child \in [own : BOOLEAN, pipes : BOOLEAN] /\ timedOut \in BOOLEAN
        /\ opened \subseteq Decoys /\ written \subseteq Paths
        /\ DOMAIN exfil \subseteq Decoys /\ Len(requests) <= MaxRequests /\ Len(captures) <= Len(requests)
    BY <2>1, CapturesSent DEF WireOK, SandboxTypes
  <2>10. TypeOK
    BY <2>2, <2>3, <2>4, <2>5, <2>6, <2>7, <2>8, <2>9, Zenon DEF TypeOK
  <2>11. QED
    BY <2>1, <2>10 DEF ScannerInv, ScannerOK
<1>2. QED
  BY <1>1, InvAlways, PTL

(* What happened before the runner stopped waiting is told, and the report  *)
(* does not contradict itself (runner.py), whatever the artifact does and   *)
(* however its requests arrive, for any number of decoys and destinations.  *)
THEOREM WhatHappenedIsTold == Spec => []BehaviourIsTold
<1>1. Inv => BehaviourIsTold
  <2> SUFFICES ASSUME Inv PROVE BehaviourIsTold
    OBVIOUS
  <2>1. PastOK /\ ExfilOK /\ ToldOK
    BY DEF Inv, SandboxOK
  <2>2. ASSUME phase \in {"remove", "done"}
        PROVE  /\ \A n \in past.answered :
                    /\ \A d \in requests[n].seen : \E f \in signals : f.code = "G801" /\ f.at[1] = d
                    /\ requests[n].host # Unknown => Flag("medium", "G802", requests[n].host) \in signals
               /\ \A f \in past.written : Flag("high", "G803", f) \in signals
               /\ setting.atimes =>
                    \A d \in past.opened : d \in DOMAIN exfil \/ Flag("medium", "G804", d) \in signals
    <3>1. phase \in ExfilRead /\ phase \in HostsRead /\ phase \in WrittenRead /\ phase \in AccessRead
      BY <2>2 DEF ExfilRead, HostsRead, WrittenRead, AccessRead
    <3>2. ASSUME NEW n \in past.answered, NEW d \in requests[n].seen
          PROVE  \E f \in signals : f.code = "G801" /\ f.at[1] = d
      <4>1. d \in DOMAIN exfil
        BY <2>1, <3>1, <3>2 DEF ExfilOK
      <4>2. Flag("high", "G801", <<d, exfil[d]>>) \in signals
        BY <2>1, <3>1, <4>1 DEF ToldOK
      <4>3. PICK f : f = Flag("high", "G801", <<d, exfil[d]>>)
        OBVIOUS
      <4>4. f \in signals /\ f.code = "G801" /\ f.at[1] = d
        BY <4>2, <4>3 DEF Flag
      <4>5. QED
        BY <4>4
    <3>3. QED
      BY <2>1, <3>1, <3>2 DEF ToldOK
  <2>3. OccurrencesAreTold
    BY <2>2 DEF OccurrencesAreTold
  <2>4. SignalsAgree
    BY <2>1 DEF ToldOK, SignalsAgree
  <2>5. QED
    BY <2>3, <2>4 DEF BehaviourIsTold
<1>2. QED
  BY <1>1, InvAlways, PTL

-----------------------------------------------------------------------------
(* What a verdict says of the flags it was made from.                      *)

LEMMA CompleteMeans ==
    ASSUME NEW F, VerdictOf(F).status = "complete"
    PROVE  Gaps(F) = {} /\ F \ Gaps(F) = F /\ \A g \in F : g.code \notin GapCodes
<1>1. Gaps(F) = {}
  BY DEF VerdictOf
<1>2. \A g \in F : g.code \notin GapCodes
  BY <1>1 DEF Gaps
<1>3. QED
  BY <1>1, <1>2

LEMMA Counted ==
    ASSUME NEW F, F \subseteq AllFlags, NEW sev
    PROVE  /\ IsFiniteSet({f \in F : f.sev = sev}) /\ OfSeverity(F, sev) \in Nat
           /\ OfSeverity(F, sev) = 0 <=> \A f \in F : f.sev # sev
<1> DEFINE S == {f \in F : f.sev = sev}
<1>1. IsFiniteSet(S)
  <2>1. S \in SUBSET AllFlags
    OBVIOUS
  <2>2. QED
    BY <2>1, AllFlagsFinite, FS_Subset
<1>2. Cardinality(S) \in Nat /\ (Cardinality(S) = 0 <=> S = {})
  BY <1>1, FS_CardinalityType, FS_EmptySet
<1>3. QED
  BY <1>1, <1>2 DEF OfSeverity

\* A verdict that is promoted: no gap, nothing medium or high, and few low flags.
LEMMA PromotableMeans ==
    ASSUME NEW F, F \subseteq AllFlags
    PROVE  Promotable(VerdictOf(F)) <=> /\ Gaps(F) = {}
                                        /\ \A f \in F : f.sev # "medium" /\ f.sev # "high"
                                        /\ OfSeverity(F, "low") < MediumTotal
<1>1. VerdictOf(F).status = "complete" <=> Gaps(F) = {}
  BY DEF VerdictOf
<1>2. Gaps(F) = {} => VerdictOf(F).level = Score(F)
  <2>1. Gaps(F) = {} => F \ Gaps(F) = F
    OBVIOUS
  <2>2. QED
    BY <2>1 DEF VerdictOf
<1>3. PICK low, medium, high : low = OfSeverity(F, "low") /\ medium = OfSeverity(F, "medium") /\ high = OfSeverity(F, "high")
  OBVIOUS
<1>4. /\ low \in Nat /\ medium \in Nat /\ high \in Nat
      /\ medium = 0 <=> \A f \in F : f.sev # "medium"
      /\ high = 0 <=> \A f \in F : f.sev # "high"
  BY <1>3, Counted
<1>5. Score(F) = "LOW" <=> high = 0 /\ medium = 0 /\ low < 4
  <2>1. PICK total : total = Total(F)
    OBVIOUS
  <2>2. total = low + 4 * medium + 10 * high
    BY <1>3, <2>1 DEF Total
  <2>3. high = 0 /\ medium = 0 /\ low < 4 <=> ~(high > 0 \/ total >= 10) /\ ~(total >= 4)
    BY <1>4, <2>2
  <2>4. Score(F) = IF high > 0 \/ total >= 10 THEN "HIGH" ELSE IF total >= 4 THEN "MEDIUM" ELSE "LOW"
    BY <1>3, <2>1 DEF Score, HighTotal, MediumTotal
  <2>5. QED
    BY <2>3, <2>4
<1>6. QED
  BY <1>1, <1>2, <1>3, <1>4, <1>5 DEF Promotable, MediumTotal

LEMMA FewerPass ==
    ASSUME NEW F, NEW E, F \subseteq AllFlags, E \subseteq F, Promotable(VerdictOf(F))
    PROVE  Promotable(VerdictOf(E))
<1>1. Gaps(F) = {} /\ (\A f \in F : f.sev # "medium" /\ f.sev # "high") /\ OfSeverity(F, "low") < MediumTotal
  BY PromotableMeans
<1>2. Gaps(E) = {}
  BY <1>1 DEF Gaps
<1>3. OfSeverity(E, "low") <= OfSeverity(F, "low") /\ OfSeverity(E, "low") \in Nat /\ OfSeverity(F, "low") \in Nat
  <2> DEFINE S == {f \in F : f.sev = "low"}
             T == {f \in E : f.sev = "low"}
  <2>1. T \in SUBSET S /\ IsFiniteSet(S)
    BY Counted
  <2>2. Cardinality(T) <= Cardinality(S)
    BY <2>1, FS_Subset
  <2>3. OfSeverity(E, "low") \in Nat /\ OfSeverity(F, "low") \in Nat
    BY Counted
  <2>4. QED
    BY <2>2, <2>3 DEF OfSeverity
<1>4. OfSeverity(E, "low") < MediumTotal
  BY <1>1, <1>3 DEF MediumTotal
<1>5. E \subseteq AllFlags
  OBVIOUS
<1>6. QED
  BY <1>1, <1>2, <1>4, <1>5, PromotableMeans

\* What an inspection that is done has found, pass by pass.
LEMMA DoneMeans ==
    ASSUME Inv, Done
    PROVE  /\ input \in Inputs /\ verdict = VerdictOf(flags) /\ flags \subseteq AllFlags
           /\ \A pass \in Passes : /\ Told(pass, failed[pass], flags)
                                   /\ read[pass] = {f.name : f \in TextsOf(pass, failed[pass])}
<1>1. StageOK /\ PassesOK /\ stage = "done"
  BY DEF Inv, InspectionOK, Done
<1>2. \A pass \in Passes : Over(pass)
  BY <1>1 DEF Over, Turn, Passes
<1>3. QED
  BY <1>1, <1>2 DEF StageOK, PassesOK

(* A complete inspection has read every text (inspector.py): what a pass    *)
(* leaves out because "the main pass reports it" was read there, or is a    *)
(* gap, for trees and members of any size and whatever the agent pass may   *)
(* hold, but for reads that fail in a later pass only, and for what rules   *)
(* go past without a word: the end of a long line (agent_config.py, _lines) *)
(* and text they cannot parse.                                              *)
THEOREM CompleteReadEverything == Spec => []CompleteMeansRead
<1>1. Inv => CompleteMeansRead
  <2> SUFFICES ASSUME Inv, Done, verdict.status = "complete", NEW f \in FileSet
               PROVE  /\ IsText(f) => f.name \in read["main"]
                      /\ \A pass \in TextPasses :
                           IsText(f) /\ InScope(pass, f) /\ ~Skipped(pass, f)
                             => f.name \in read[pass] \cup failed[pass]
                      /\ f.suf = "py" /\ IsText(f) /\ f.name \notin failed["agents"] => f.python # "deep"
    BY DEF CompleteMeansRead
  <2>1. /\ input \in Inputs /\ \A g \in flags : g.code \notin GapCodes
        /\ \A pass \in Passes : /\ Told(pass, failed[pass], flags)
                                /\ read[pass] = {g.name : g \in TextsOf(pass, failed[pass])}
    BY DoneMeans, CompleteMeans
  <2>2. Gap("G911", f) \notin flags /\ Gap("G910", f) \notin flags
    <3>1. Gap("G911", f).code \in GapCodes /\ Gap("G910", f).code \in GapCodes
      BY DEF Gap, Flag, GapCodes
    <3>2. QED
      BY <2>1, <3>1
  <2>3. /\ "main" \in Passes /\ "agents" \in Passes /\ "tampering" \in Passes /\ "tls" \in Passes
    BY DEF Passes
  <2>4. PICK later \in SUBSET failed["main"] : MainFlags(f, failed["main"], later) \subseteq flags
    <3>1. PICK later \in SUBSET failed["main"] : FlagsOf("main", failed["main"], later) \subseteq flags
      BY <2>1, <2>3 DEF Told
    <3>2. MainFlags(f, failed["main"], later) \subseteq flags
      BY <3>1 DEF FlagsOf
    <3>3. QED
      BY <3>2
  <2>5. f.readable /\ (IsText(f) => f.name \notin failed["main"])
    <3>1. f.readable /\ f.name \notin failed["main"] \ later
      BY <2>2, <2>4 DEF MainFlags
    <3>2. IsText(f) => f.name \notin later
      BY <2>2, <2>4, <3>1 DEF MainFlags, IsText
    <3>3. QED
      BY <3>1, <3>2
  <2>6. IsText(f) => f.size = "small"
    <3>1. IsText(f) => Text(f) \subseteq flags
      BY <2>4, <2>5 DEF MainFlags, IsText
    <3>2. QED
      BY <2>2, <3>1 DEF Text
  <2>7. \A names : IsText(f) /\ f.name \notin names => ReadsText(f, names)
    BY <2>5, <2>6 DEF ReadsText, Loads, IsText
  <2>8. PICK n \in DOMAIN Files : f = Files[n]
    BY DEF FileSet
  <2>9. PICK missed \in SUBSET failed["agents"] : AgentFlags(Files, n, failed["agents"], missed) \subseteq flags
    <3>1. PICK missed \in SUBSET failed["agents"] : FlagsOf("agents", failed["agents"], missed) \subseteq flags
      BY <2>1, <2>3 DEF Told
    <3>2. AgentFlags(Files, n, failed["agents"], missed) \subseteq flags
      BY <2>8, <3>1 DEF FlagsOf
    <3>3. QED
      BY <3>2
  <2>10. IsText(f) /\ InAgents(f) /\ f.name \notin failed["agents"] => Held(Files, n, failed["agents"])
    BY <2>2, <2>6, <2>8, <2>9 DEF AgentFlags
  <2>11. IsText(f) => f.name \in read["main"]
    <3>1. IsText(f) => f \in TextsOf("main", failed["main"])
      BY <2>5, <2>7 DEF TextsOf
    <3>2. QED
      BY <2>1, <2>3, <3>1
  <2>12. ASSUME NEW pass \in TextPasses, IsText(f), InScope(pass, f), ~Skipped(pass, f), f.name \notin failed[pass]
         PROVE  f.name \in read[pass]
    <3>1. ReadsText(f, failed[pass])
      BY <2>7, <2>12
    <3>2. f \in TextsOf(pass, failed[pass])
      <4>1. CASE pass = "main"
        BY <3>1, <4>1 DEF TextsOf
      <4>2. CASE pass = "agents"
        <5>1. InAgents(f)
          BY <2>12, <4>2 DEF InScope
        <5>2. Held(Files, n, failed["agents"])
          BY <2>10, <2>12, <4>2, <5>1
        <5>3. QED
          BY <2>8, <2>12, <3>1, <4>2, <5>1, <5>2 DEF TextsOf, Skipped
      <4>3. CASE pass = "tampering"
        BY <2>12, <3>1, <4>3 DEF TextsOf, InScope, Skipped
      <4>4. CASE pass = "tls"
        BY <2>12, <3>1, <4>4 DEF TextsOf, InScope
      <4>5. QED
        BY <4>1, <4>2, <4>3, <4>4 DEF TextPasses
    <3>3. QED
      BY <2>1, <2>3, <3>2 DEF TextPasses
  <2>13. ASSUME f.suf = "py", IsText(f), f.name \notin failed["agents"]
         PROVE  f.python # "deep"
    <3>1. InAgents(f) /\ f.suf \in Py
      BY <2>13 DEF InAgents, Py
    <3>2. TextFlags(f) \subseteq flags
      BY <2>6, <2>7, <2>8, <2>9, <2>10, <2>13, <3>1 DEF AgentFlags
    <3>3. PythonFlags(f) \subseteq flags
      BY <3>1, <3>2 DEF TextFlags
    <3>4. QED
      BY <2>2, <3>3 DEF PythonFlags
  <2>14. QED
    BY <2>11, <2>12, <2>13
<1>2. QED
  BY <1>1, InvAlways, PTL

-----------------------------------------------------------------------------
(* What a file would run shows in what is said of it.                      *)

Harmless(found) == \A g \in found : g.sev # "medium" /\ g.sev # "high"

LEMMA HarmlessIf ==
    ASSUME NEW condition, NEW sev \in {"medium", "high"}, NEW code, NEW at,
           NEW found, FlagIf(condition, Flag(sev, code, at)) \subseteq found, Harmless(found)
    PROVE  ~condition
  BY DEF FlagIf, Flag, Harmless

LEMMA ZipShows ==
    ASSUME NEW f, RunsInZip(f)
    PROVE  ZipOutcome(f).pickle \/ \E g \in ZipOutcome(f).flags : g.sev = "medium"
<1> DEFINE named == f.suf \in PickleSuffixes \cup {"keras"}
           opens == f.body = "ok"
           members == IF opens THEN LookedAt(f) ELSE {}
           pickle == \E m \in members : IsPickle(m)
           keras == \E m \in members : ReadAsConfig(m, f)
           found == FlagIf(~opens \/ Len(f.members) > MaxMembers, Gap("G225", f))
                    \cup (UNION {MemberFlags(m, f) : m \in members})
           said == found \cup FlagIf(~pickle /\ f.suf \in StrongSuffixes, Gap("G225", f))
<1>1. ZipOutcome(f) = IF ~(named \/ pickle \/ keras) THEN Ignored ELSE Outcome(said, TRUE, pickle)
  BY DEF ZipOutcome
<1>2. members = LookedAt(f)
  BY DEF RunsInZip
<1>3. PICK m \in members :
        /\ m.readable = "all" /\ ~m.encrypted
        /\ \/ (m.named \/ m.head = "pickle") /\ m.found.imports # {}
           \/ m.config /\ f.metadata /\ m.custom /\ m.head = "else"
  BY <1>2 DEF RunsInZip
<1>4. CASE pickle
  BY <1>1, <1>4 DEF Outcome
<1>5. CASE ~pickle
  <2>1. ~IsPickle(m)
    BY <1>3, <1>5
  <2>2. ~m.named /\ m.head # "pickle" /\ m.config /\ f.metadata /\ m.custom
    BY <1>3, <2>1 DEF IsPickle, ReadAsPickle, NotAPickle, Head4
  <2>3. ~ReadAsPickle(m) /\ ReadAsConfig(m, f)
    BY <1>3, <2>2 DEF ReadAsPickle, ReadAsConfig, Head4
  <2>4. Flag("medium", "G229", f.name) \in MemberFlags(m, f)
    BY <1>3, <2>2, <2>3 DEF MemberFlags, FlagIf
  <2>5. Flag("medium", "G229", f.name) \in said
    BY <1>3, <2>4
  <2>6. ZipOutcome(f).flags = said
    BY <1>1, <1>3, <2>3 DEF Outcome
  <2>7. Flag("medium", "G229", f.name).sev = "medium"
    BY DEF Flag
  <2>8. QED
    BY <2>5, <2>6, <2>7
<1>6. QED
  BY <1>4, <1>5

LEMMA OutcomeShows ==
    ASSUME NEW f, NEW s, ~ModelOutcome(f, s).pickle, Harmless(ModelOutcome(f, s).flags)
    PROVE  /\ f.fmt # "hdf5" /\ ~(f.fmt = "gguf" /\ f.template = "internals") /\ ~(f.fmt = "zip" /\ RunsInZip(f))
           /\ ~(/\ f.fmt = "pickle" \/ f.suf \in PickleSuffixes
                /\ f.fmt \in {"", "pickle", "safetensors"}
                /\ s.imports # {})
           /\ ScannedWhole(f) => s.imports = {} /\ ~s.unresolved
<1> DEFINE out == ModelOutcome(f, s)
<1>1. Broken226(f) \notin out.flags /\ Flag("medium", "G229", f.name) \notin out.flags
                                   /\ Flag("high", "G229", f.name) \notin out.flags
  BY DEF Harmless, Broken226, Flag
<1>2. /\ Broken226(f) \in DisguisedOutcome(f, s).flags
      /\ f.fmt # "safetensors" => Broken226(f) \in SafetensorsOutcome(f).flags
      /\ f.fmt # "gguf" => Broken226(f) \in GgufOutcome(f).flags
      /\ f.fmt = "gguf" /\ f.template = "internals" => Flag("high", "G229", f.name) \in GgufOutcome(f).flags
  <2>1. Broken226(f) \in DisguisedOutcome(f, s).flags
    BY DEF DisguisedOutcome, Outcome
  <2>2. f.fmt # "safetensors" => Broken226(f) \in SafetensorsOutcome(f).flags
    BY DEF SafetensorsOutcome, Outcome, FlagIf
  <2>3. f.fmt # "gguf" => Broken226(f) \in GgufOutcome(f).flags
    BY DEF GgufOutcome, Outcome
  <2>4. ASSUME f.fmt = "gguf", f.template = "internals"
        PROVE  Flag("high", "G229", f.name) \in GgufOutcome(f).flags
    <3>1. Flag("high", "G229", f.name) \in TemplateFlags(f)
      BY <2>4 DEF TemplateFlags, FlagIf
    <3>2. QED
      BY <2>4, <3>1 DEF GgufOutcome, Outcome
  <2>5. QED
    BY <2>1, <2>2, <2>3, <2>4
<1>3. ~(f.fmt = "safetensors" /\ f.suf \in PickleSuffixes)
  <2>1. f.fmt = "safetensors" /\ f.suf \in PickleSuffixes => out = DisguisedOutcome(f, s)
    BY DEF ModelOutcome
  <2> HIDE DEF out
  <2>2. QED
    BY <1>1, <1>2, <2>1
<1>4. f.suf = "safetensors" => f.fmt = "safetensors"
  <2>1. f.suf = "safetensors" => out = SafetensorsOutcome(f)
    BY <1>3 DEF ModelOutcome
  <2> HIDE DEF out
  <2>2. QED
    BY <1>1, <1>2, <2>1
<1>5. f.suf = "gguf" => f.fmt \in {"safetensors", "gguf"}
  <2>1. f.suf = "gguf" /\ f.fmt # "safetensors" => out = GgufOutcome(f)
    BY <1>3 DEF ModelOutcome
  <2> HIDE DEF out
  <2>2. QED
    BY <1>1, <1>2, <2>1
<1>6. ASSUME f.fmt = "gguf", f.template = "internals" PROVE FALSE
  <2>1. out = GgufOutcome(f)
    BY <1>4, <1>6 DEF ModelOutcome
  <2> HIDE DEF out
  <2>2. QED
    BY <1>1, <1>2, <1>6, <2>1
<1>7. f.fmt # "hdf5"
  <2>1. f.fmt = "hdf5" => out = Outcome({Flag("medium", "G229", f.name)}, TRUE, FALSE)
    BY <1>4, <1>5 DEF ModelOutcome
  <2> HIDE DEF out
  <2>2. QED
    BY <1>1, <2>1 DEF Outcome
<1>8. ASSUME f.fmt = "zip", RunsInZip(f) PROVE FALSE
  <2>1. out = ZipOutcome(f)
    BY <1>4, <1>5, <1>8 DEF ModelOutcome
  <2>2. QED
    BY <1>8, <2>1, ZipShows DEF Harmless
<1>9. ASSUME f.suf \notin {"safetensors", "gguf"}, f.fmt = "pickle" \/ (f.fmt = "" /\ f.suf \in PickleSuffixes)
      PROVE  s.imports = {} /\ ~s.unresolved
  <2>1. out = PickleOutcome(f, s)
    BY <1>9 DEF ModelOutcome
  <2>2. ~out.pickle
    OBVIOUS
  <2> HIDE DEF out
  <2>3. PICK sure : sure = (f.fmt = "pickle")
    OBVIOUS
  <2>4. ~NotAPickle(s, sure) => out = Outcome(PickleFlags(s, f.name), TRUE, TRUE)
    BY <2>1, <2>3 DEF PickleOutcome
  <2>5. NotAPickle(s, sure)
    BY <2>2, <2>4 DEF Outcome
  <2>6. QED
    BY <2>5 DEF NotAPickle
<1>10. ASSUME f.fmt = "pickle" \/ f.suf \in PickleSuffixes, f.fmt \in {"", "pickle", "safetensors"}
       PROVE  s.imports = {}
  <2>1. f.fmt # "safetensors"
    BY <1>3, <1>10
  <2>2. f.suf \notin {"safetensors", "gguf"}
    BY <1>4, <1>5, <1>10, <2>1
  <2>3. QED
    BY <1>9, <1>10, <2>1, <2>2
<1>11. QED
  BY <1>6, <1>7, <1>8, <1>9, <1>10 DEF ScannedWhole

LEMMA ModelFlagsTell ==
    ASSUME NEW files, NEW failing, NEW found, Harmless(ModelFlags(files, failing, found)),
           NEW n \in DOMAIN files, files[n].readable, files[n].name \notin failing
    PROVE  ~ModelOutcome(files[n], found[n]).pickle /\ Harmless(ModelOutcome(files[n], found[n]).flags)
<1> DEFINE legible == {k \in DOMAIN files : files[k].readable /\ files[k].name \notin failing}
           out == [k \in legible |-> ModelOutcome(files[k], found[k])]
           all == ModelFlags(files, failing, found)
<1>1. (UNION {out[k].flags : k \in legible}) \subseteq all
  BY DEF ModelFlags
<1>2. FlagIf(\E k \in legible : out[k].pickle, Flag("medium", "G221", <<>>)) \subseteq all
  BY DEF ModelFlags
<1>3. n \in legible /\ out[n] = ModelOutcome(files[n], found[n])
  OBVIOUS
<1> HIDE DEF all, out, legible
<1>4. out[n].flags \subseteq all
  BY <1>1, <1>3
<1>5. Harmless(all)
  BY DEF all
<1>6. ~(\E k \in legible : out[k].pickle)
  <2>1. PICK harm : harm = (\E k \in legible : out[k].pickle)
    OBVIOUS
  <2>2. ~harm
    BY <1>2, <1>5, <2>1, HarmlessIf
  <2>3. QED
    BY <2>1, <2>2
<1>7. QED
  BY <1>3, <1>4, <1>5, <1>6 DEF Harmless

\* Where no read fails, the model pass is given the files as they are.
LEMMA AllRead ==
    ASSUME input \in Inputs
    PROVE  AsRead(Files, {}) = Files /\ NotRead(Files, {}, {}) = {}
<1>1. PICK files \in Seq(FileType) : files = Files
  BY FilesAreFiles
<1>2. files = [n \in DOMAIN files |-> files[n]]
  BY <1>1
<1>3. AsRead(files, {}) = [n \in DOMAIN files |-> files[n]]
  BY DEF AsRead
<1>4. NotRead(files, {}, {}) = {}
  BY DEF NotRead
<1>5. QED
  BY <1>1, <1>2, <1>3, <1>4

(* What is promoted runs nothing when it is loaded or installed             *)
(* (modelfiles.py, adapters.py, static_checks.py): for trees, zips and      *)
(* pickles of any length, when no read failed in one pass only.             *)
THEOREM PromotedIsHarmless == Spec => []PromotedRunsNothing
<1>1. Inv => PromotedRunsNothing
  <2> SUFFICES ASSUME Inv, Promoted, Faults = 0
               PROVE  /\ vm.loaded = {}
                      /\ \A n \in DOMAIN Files : ~Executes(Files[n], FoundIn(n).imports)
    BY DEF PromotedRunsNothing
  <2> DEFINE found == [n \in DOMAIN Files |-> FoundIn(n)]
  <2>1. /\ input \in Inputs /\ verdict = VerdictOf(flags) /\ flags \subseteq AllFlags
        /\ \A pass \in Passes : Told(pass, failed[pass], flags)
    BY DoneMeans DEF Promoted
  <2>2. Gaps(flags) = {} /\ Harmless(flags)
    BY <2>1, PromotableMeans DEF Promoted, Harmless
  <2>3. /\ "hooks" \in Passes /\ "main" \in Passes /\ "models" \in Passes /\ "manifests" \in Passes
    BY DEF Passes
  <2>4. \A pass \in Passes : failed[pass] = {}
    <3>1. HistoryOK /\ Faults = Cardinality(Losses)
      BY DEF Inv, InspectionOK, Faults, Losses
    <3>2. Losses = {}
      BY <3>1, FS_EmptySet DEF HistoryOK
    <3>3. ASSUME NEW pass \in Passes, NEW name \in failed[pass] PROVE FALSE
      <4>1. <<pass, name>> \in Losses
        BY <3>3 DEF Losses
      <4>2. QED
        BY <3>2, <4>1
    <3>4. QED
      BY <3>3
  <2>5. \A code \in GapCodes : \A f : Gap(code, f) \notin flags
    BY <2>2 DEF Gaps, Gap, Flag
  <2>6. "G911" \in GapCodes /\ "G912" \in GapCodes
    BY DEF GapCodes
  <2>7. /\ \A f \in FileSet : HookFlags(f, {}) \subseteq flags /\ MainFlags(f, {}, {}) \subseteq flags
                              /\ ManifestFlags(f, {}) \subseteq flags
        /\ ModelFlags(Files, {}, found) \subseteq flags
    <3>1. FlagsOf("hooks", {}, {}) \subseteq flags /\ FlagsOf("main", {}, {}) \subseteq flags
          /\ FlagsOf("models", {}, {}) \subseteq flags /\ FlagsOf("manifests", {}, {}) \subseteq flags
      <4>1. \A pass \in Passes : FlagsOf(pass, {}, {}) \subseteq flags
        BY <2>1, <2>4 DEF Told
      <4>2. QED
        BY <2>3, <4>1
    <3>2. UNION {HookFlags(f, {}) : f \in FileSet} \subseteq flags
      BY <3>1 DEF FlagsOf
    <3>3. UNION {MainFlags(f, {}, {}) : f \in FileSet} \subseteq flags
      BY <3>1 DEF FlagsOf
    <3>4. UNION {ManifestFlags(f, {}) : f \in FileSet} \subseteq flags
      BY <3>1 DEF FlagsOf
    <3>5. ModelFlags(Files, {}, found) \subseteq flags
      <4>1. ModelFlags(AsRead(Files, {}), NotRead(Files, {}, {}), found) \subseteq flags
        BY <3>1 DEF FlagsOf
      <4>2. AsRead(Files, {}) = Files /\ NotRead(Files, {}, {}) = {}
        BY <2>1, AllRead
      <4>3. QED
        BY <4>1, <4>2
    <3>6. QED
      BY <3>2, <3>3, <3>4, <3>5
  <2>8. \A n \in DOMAIN Files : Files[n] \in FileSet
    BY DEF FileSet
  <2>9. \A f \in FileSet : f.readable
    BY <2>5, <2>6, <2>7 DEF MainFlags
  <2>10. ASSUME NEW n \in DOMAIN Files
         PROVE  /\ ~ModelOutcome(Files[n], FoundIn(n)).pickle
                /\ Harmless(ModelOutcome(Files[n], FoundIn(n)).flags)
    <3>1. PICK files, made : files = Files /\ made = found
      OBVIOUS
    <3>2. Harmless(ModelFlags(files, {}, made))
      BY <2>2, <2>7, <3>1 DEF Harmless
    <3>3. n \in DOMAIN files /\ files[n].readable /\ files[n].name \notin {} /\ made[n] = FoundIn(n)
      BY <2>8, <2>9, <2>10, <3>1
    <3>4. ~ModelOutcome(files[n], made[n]).pickle /\ Harmless(ModelOutcome(files[n], made[n]).flags)
      BY <3>2, <3>3, ModelFlagsTell
    <3>5. QED
      BY <3>1, <3>3, <3>4
  <2>11. ASSUME NEW n \in DOMAIN Files, Executes(Files[n], FoundIn(n).imports)
         PROVE  FALSE
    <3>1. PICK f : f = Files[n]
      OBVIOUS
    <3>2. f \in FileSet /\ f.readable
      BY <2>8, <2>9, <3>1
    <3>3. /\ f.fmt # "hdf5" /\ ~(f.fmt = "gguf" /\ f.template = "internals") /\ ~(f.fmt = "zip" /\ RunsInZip(f))
          /\ ~(/\ f.fmt = "pickle" \/ f.suf \in PickleSuffixes
               /\ f.fmt \in {"", "pickle", "safetensors"}
               /\ FoundIn(n).imports # {})
      BY <2>10, <3>1, OutcomeShows
    <3>4. ~(f.exe /\ f.suf \in TextSuffixes)
      <4>1. FlagIf(f.exe /\ f.suf \in TextSuffixes, Flag("high", "G401", f.name)) \subseteq flags
        BY <2>7, <3>2 DEF MainFlags, Magic
      <4>2. QED
        BY <2>2, <4>1, HarmlessIf
    <3>5. ~("hook" \in f.marks \/ ("package" \in f.marks /\ ReadsManifest(f, {}) /\ f.json = "object" /\ f.scripts = "hooks"))
      <4>1. HookFlags(f, {}) \subseteq flags
        BY <2>7, <3>2
      <4>2. PICK hooked : hooked = ("hook" \in f.marks
               \/ ("package" \in f.marks /\ ReadsManifest(f, {}) /\ f.json = "object" /\ f.scripts = "hooks"))
        OBVIOUS
      <4>3. FlagIf(hooked, Flag("medium", "G101", f.name)) \subseteq flags
        BY <4>1, <4>2 DEF HookFlags
      <4>4. ~hooked
        BY <2>2, <4>3, HarmlessIf
      <4>5. QED
        BY <4>2, <4>4
    <3>6. "package" \in f.marks => ReadsManifest(f, {})
      <4>1. ManifestFlags(f, {}) \subseteq flags /\ Gap("G912", f) \notin flags
        BY <2>5, <2>6, <2>7, <3>2
      <4>2. ASSUME "package" \in f.marks, ~ReadsManifest(f, {}) PROVE FALSE
        <5>1. IsManifest(f)
          BY <4>2 DEF IsManifest
        <5>2. Gap("G912", f) \in ManifestFlags(f, {})
          BY <4>2, <5>1 DEF ManifestFlags, FlagIf
        <5>3. QED
          BY <4>1, <5>2
      <4>3. QED
        BY <4>2
    <3>7. QED
      BY <2>11, <3>1, <3>3, <3>4, <3>5, <3>6 DEF Executes
  <2>12. vm.loaded = {}
    <3> SUFFICES ASSUME vm.loaded # {} PROVE FALSE
      OBVIOUS
    <3>1. input.stream # {} /\ (scan.imports # {} \/ scan.unresolved)
      BY DEF Inv, InspectionOK, StageOK, ScannerOK, ImportsAreSeen
    <3>2. PICK name : name \in input.stream
      BY <3>1
    <3>3. PICK n \in DOMAIN Files : Files[n].name = name /\ ScannedWhole(Files[n])
      BY <2>1, <3>2, InspectionAssumption DEF Files
    <3>4. FoundIn(n) = FindingsOf(scan)
      BY <3>2, <3>3 DEF FoundIn
    <3>5. FoundIn(n).imports = {} /\ ~FoundIn(n).unresolved
      BY <2>10, <3>3, OutcomeShows
    <3>6. QED
      BY <3>1, <3>4, <3>5 DEF FindingsOf
  <2>13. QED
    BY <2>11, <2>12
<1>2. QED
  BY <1>1, InvAlways, PTL

-----------------------------------------------------------------------------
(* A tree with fewer files: each of its files has a place in the larger     *)
(* one, and their order is kept.                                            *)

Within(few, files, place) ==
    /\ few \in Seq(FileType) /\ files \in Seq(FileType)
    /\ place \in [DOMAIN few -> DOMAIN files]
    /\ \A n \in DOMAIN few : few[n] = files[place[n]]
    /\ \A m, n \in DOMAIN few : m < n => place[m] < place[n]

LEMMA FewerBefore ==
    ASSUME NEW few, NEW files, NEW place, Within(few, files, place), NEW n \in DOMAIN few
    PROVE  Held(files, place[n], {}) => Held(few, n, {})
<1> DEFINE S == Before(few, n, {})
           T == Before(files, place[n], {})
           f == [o \in S |-> place[o]]
<1>1. /\ Len(few) \in Nat /\ DOMAIN few = 1 .. Len(few) /\ Len(files) \in Nat /\ DOMAIN files = 1 .. Len(files)
      /\ place[n] \in 1 .. Len(files) /\ n \in 1 .. Len(few)
  BY DEF Within
<1>2. S \subseteq DOMAIN few /\ S \subseteq 1 .. (n - 1)
  BY <1>1 DEF Before
<1>3. ASSUME NEW o \in S
      PROVE  place[o] \in T
  <2>1. o \in DOMAIN few /\ o < n /\ place[o] \in DOMAIN files
    BY <1>1, <1>2, <1>3 DEF Within
  <2>2. place[o] \in 1 .. (place[n] - 1)
    BY <1>1, <2>1 DEF Within
  <2>3. few[o] = files[place[o]]
    BY <2>1 DEF Within
  <2>4. InAgents(files[place[o]]) /\ Loads(files[place[o]], {})
    BY <1>3, <2>3 DEF Before
  <2>5. QED
    BY <2>2, <2>4 DEF Before
<1>4. \A o, p \in S : place[o] = place[p] => o = p
  BY SMTT(40), <1>1, <1>2 DEF Within
<1> HIDE DEF S, T
<1>5. f \in Injection(S, T)
  BY <1>3, <1>4 DEF Injection, IsInjective
<1>6. IsFiniteSet(T)
  <2>1. T \in SUBSET (1 .. (place[n] - 1)) /\ place[n] - 1 \in Int
    BY <1>1 DEF T, Before
  <2>2. PICK last \in Int : last = place[n] - 1
    BY <2>1
  <2>3. IsFiniteSet(1 .. last)
    BY <2>2, FS_Interval
  <2>4. T \in SUBSET (1 .. last)
    BY <2>1, <2>2
  <2>5. QED
    BY <2>3, <2>4, FS_Subset
<1>7. Cardinality(S) <= Cardinality(T) /\ Cardinality(S) \in Nat /\ Cardinality(T) \in Nat
  BY <1>5, <1>6, FS_Injection, FS_CardinalityType
<1>8. MaxHeld \in Nat
  BY ScanAssumption
<1>9. QED
  BY <1>7, <1>8 DEF Held, S, T

LEMMA FewerAgentFlags ==
    ASSUME NEW few, NEW files, NEW place, Within(few, files, place), NEW n \in DOMAIN few,
           Gap("G911", files[place[n]]) \notin AgentFlags(files, place[n], {}, {})
    PROVE  AgentFlags(few, n, {}, {}) \subseteq AgentFlags(files, place[n], {}, {})
<1>1. few[n] = files[place[n]]
  BY DEF Within
<1>2. InAgents(few[n]) /\ few[n].size = "small" => Held(files, place[n], {}) /\ Held(few, n, {})
  BY <1>1, FewerBefore DEF AgentFlags
<1>3. QED
  BY <1>1, <1>2 DEF AgentFlags

LEMMA FewerModelFlags ==
    ASSUME NEW few, NEW files, NEW place, Within(few, files, place)
    PROVE  ModelFlags(few, {}, [n \in DOMAIN few |-> few[n].found])
             \subseteq ModelFlags(files, {}, [n \in DOMAIN files |-> files[n].found])
<1> DEFINE legible(fs) == {n \in DOMAIN fs : fs[n].readable /\ fs[n].name \notin {}}
           out(fs) == [n \in legible(fs) |-> ModelOutcome(fs[n], [k \in DOMAIN fs |-> fs[k].found][n])]
           maps(fs) == {n \in legible(fs) : fs[n].suf = "json" /\ fs[n].size # "huge"
                                            /\ fs[n].json = "object" /\ fs[n].autoMap}
           model(fs) == maps(fs) # {} \/ \E n \in legible(fs) : out(fs)[n].model
           companions(fs) == {n \in legible(fs) : fs[n].suf = "py"
                                /\ ("companion" \in fs[n].marks \/ (maps(fs) # {} /\ fs[n].target))}
           trusting(fs) == {n \in legible(fs) : fs[n].suf \in {"py", "json", "md", "yaml"}
                                                /\ fs[n].size = "small" /\ fs[n].trust}
           P1(fs) == UNION {out(fs)[n].flags : n \in legible(fs)}
           P2(fs) == FlagIf(\E n \in legible(fs) : out(fs)[n].pickle, Flag("medium", "G221", <<>>))
           P3(fs) == {Flag("medium", "G227", <<fs[n].name, "auto_map">>) : n \in maps(fs)}
           P4(fs) == UNION {CompanionFlags(fs[n]) : n \in companions(fs)}
           P5(fs) == {Flag("medium", "G227", <<fs[n].name, "trust">>) : n \in trusting(fs)}
<1>1. \A fs : ModelFlags(fs, {}, [n \in DOMAIN fs |-> fs[n].found])
                = P1(fs) \cup P2(fs) \cup P3(fs) \cup IF ~model(fs) THEN {} ELSE P4(fs) \cup P5(fs)
  BY DEF ModelFlags
<1>2. \A n \in DOMAIN few : place[n] \in DOMAIN files /\ few[n] = files[place[n]]
  BY DEF Within
<1>3. \A n \in legible(few) : /\ place[n] \in legible(files) /\ few[n] = files[place[n]]
                              /\ out(few)[n] = out(files)[place[n]]
  BY <1>2
<1>4. \A n \in maps(few) : place[n] \in maps(files) /\ few[n] = files[place[n]]
  BY <1>2
<1>5. \A n \in companions(few) : place[n] \in companions(files) /\ few[n] = files[place[n]]
  BY <1>2, <1>4
<1>6. \A n \in trusting(few) : place[n] \in trusting(files) /\ few[n] = files[place[n]]
  BY <1>2
<1> HIDE DEF legible, out, maps, companions, trusting
<1>7. P1(few) \subseteq P1(files)
  BY <1>3
<1>8. P2(few) \subseteq P2(files)
  BY <1>3 DEF FlagIf
<1>9. P3(few) \subseteq P3(files) /\ P5(few) \subseteq P5(files)
  BY <1>4, <1>6
<1>10. P4(few) \subseteq P4(files)
  BY <1>5
<1>11. model(few) => model(files)
  BY <1>3, <1>4
<1> HIDE DEF P1, P2, P3, P4, P5, model
<1>12. QED
  BY <1>1, <1>7, <1>8, <1>9, <1>10, <1>11

LEMMA StaticFlagsKnown ==
    ASSUME NEW files \in Seq(FileType)
    PROVE  StaticFlags(files, [n \in DOMAIN files |-> files[n].found]) \subseteq AllFlags
<1> DEFINE found == [n \in DOMAIN files |-> files[n].found]
<1>1. \A n \in DOMAIN files : IsFile(files[n])
  <2>1. \A n \in DOMAIN files : files[n] \in FileType
    OBVIOUS
  <2>2. QED
    BY <2>1, FilesAre
<1>2. \A n \in DOMAIN files :
        /\ MainFlags(files[n], {}, {}) \subseteq AllFlags /\ TamperingFlags(files[n], {}) \subseteq AllFlags
        /\ TlsFlags(files[n], {}) \subseteq AllFlags /\ ManifestFlags(files[n], {}) \subseteq AllFlags
        /\ HookFlags(files[n], {}) \subseteq AllFlags /\ AgentFlags(files, n, {}, {}) \subseteq AllFlags
  BY <1>1, TextFlagsKnown, AgentFlagsKnown
<1>3. ModelFlags(files, {}, found) \subseteq AllFlags
  <2>1. \A n \in DOMAIN files : files[n].found.imports \subseteq Imports
    BY <1>1 DEF IsFile, FindingsType
  <2>2. PICK made : made = found
    OBVIOUS
  <2>3. \A n \in DOMAIN files : made[n].imports \subseteq Imports
    BY <2>1, <2>2
  <2>4. ModelFlags(files, {}, made) \subseteq AllFlags
    BY <1>1, <2>3, ModelFlagsKnown
  <2>5. QED
    BY <2>2, <2>4
<1>4. QED
  BY <1>2, <1>3 DEF StaticFlags

LEMMA FewerStaticFlags ==
    ASSUME NEW few, NEW files, NEW place, Within(few, files, place), Passing(files)
    PROVE  Passing(few)
<1> DEFINE found(fs) == [n \in DOMAIN fs |-> fs[n].found]
           F == StaticFlags(files, found(files))
           E == StaticFlags(few, found(few))
           Of(fs, n) == MainFlags(fs[n], {}, {}) \cup AgentFlags(fs, n, {}, {}) \cup TamperingFlags(fs[n], {})
                        \cup TlsFlags(fs[n], {}) \cup ManifestFlags(fs[n], {}) \cup HookFlags(fs[n], {})
<1>1. F \subseteq AllFlags /\ Promotable(VerdictOf(F))
  BY StaticFlagsKnown DEF Within, Passing
<1>2. \A f : Gap("G911", f) \notin F
  <2>1. Gaps(F) = {}
    BY <1>1, PromotableMeans
  <2>2. QED
    BY <2>1 DEF Gaps, Gap, Flag, GapCodes
<1>3. \A fs : StaticFlags(fs, found(fs)) = (UNION {Of(fs, n) : n \in DOMAIN fs}) \cup ModelFlags(fs, {}, found(fs))
  BY DEF StaticFlags
<1>4. ASSUME NEW n \in DOMAIN few
      PROVE  Of(few, n) \subseteq F
  <2>1. place[n] \in DOMAIN files /\ few[n] = files[place[n]]
    BY DEF Within
  <2>2. Of(files, place[n]) \subseteq F
    BY <1>3, <2>1
  <2>3. Gap("G911", files[place[n]]) \notin AgentFlags(files, place[n], {}, {})
    BY <1>2, <2>2
  <2>4. AgentFlags(few, n, {}, {}) \subseteq AgentFlags(files, place[n], {}, {})
    BY <2>3, FewerAgentFlags
  <2>5. Of(few, n) \subseteq Of(files, place[n])
    BY <2>1, <2>4
  <2>6. QED
    BY <2>2, <2>5
<1>5. ModelFlags(few, {}, found(few)) \subseteq F
  <2>1. ModelFlags(few, {}, found(few)) \subseteq ModelFlags(files, {}, found(files))
    BY FewerModelFlags
  <2>2. QED
    BY <1>3, <2>1
<1>6. E \subseteq F
  BY <1>3, <1>4, <1>5
<1>7. Promotable(VerdictOf(E))
  BY <1>1, <1>6, FewerPass
<1>8. QED
  BY <1>7 DEF Passing

\* WithoutFile is such a tree.
LEMMA WithoutIsWithin ==
    ASSUME NEW files \in Seq(FileType), NEW n \in DOMAIN files, NEW few,
           few = SubSeq(files, 1, n - 1) \o SubSeq(files, n + 1, Len(files))
    PROVE  \E place : Within(few, files, place)
<1> DEFINE head == SubSeq(files, 1, n - 1)
           tail == SubSeq(files, n + 1, Len(files))
           place == [m \in DOMAIN few |-> IF m < n THEN m ELSE m + 1]
<1>1. Len(files) \in Nat /\ DOMAIN files = 1 .. Len(files) /\ n \in 1 .. Len(files)
  OBVIOUS
<1>2. head \in Seq(FileType) /\ Len(head) = n - 1 /\ \A m \in 1 .. n - 1 : head[m] = files[m]
  <2>1. \A i \in 1 .. n - 1 : files[i] \in FileType
    BY <1>1
  <2>2. /\ head \in Seq(FileType) /\ Len(head) = IF 1 <= n - 1 THEN n - 1 - 1 + 1 ELSE 0
        /\ \A i \in 1 .. (n - 1) - 1 + 1 : head[i] = files[1 + i - 1]
    BY <1>1, <2>1, SubSeqProperties
  <2>3. QED
    BY <1>1, <2>2
<1>3. tail \in Seq(FileType) /\ Len(tail) = Len(files) - n /\ \A m \in 1 .. Len(files) - n : tail[m] = files[n + m]
  <2>1. \A i \in n + 1 .. Len(files) : files[i] \in FileType
    BY <1>1
  <2>2. /\ tail \in Seq(FileType) /\ Len(tail) = IF n + 1 <= Len(files) THEN Len(files) - (n + 1) + 1 ELSE 0
        /\ \A i \in 1 .. Len(files) - (n + 1) + 1 : tail[i] = files[(n + 1) + i - 1]
    BY SMTT(40), <1>1, <2>1, SubSeqProperties
  <2>3. QED
    BY SMTT(40), <1>1, <2>2
<1> HIDE DEF head, tail
<1>4. few = head \o tail
  BY DEF head, tail
<1>5. /\ few \in Seq(FileType) /\ Len(few) = Len(files) - 1
      /\ \A m \in 1 .. Len(files) - 1 : few[m] = IF m <= n - 1 THEN head[m] ELSE tail[m - (n - 1)]
  <2>1. /\ few \in Seq(FileType) /\ Len(few) = Len(head) + Len(tail)
        /\ \A m \in 1 .. Len(head) + Len(tail) : few[m] = IF m <= Len(head) THEN head[m] ELSE tail[m - Len(head)]
    <3>1. head \in Seq(FileType) /\ tail \in Seq(FileType)
      BY <1>2, <1>3
    <3>2. /\ head \o tail \in Seq(FileType) /\ Len(head \o tail) = Len(head) + Len(tail)
          /\ \A i \in 1 .. Len(head) + Len(tail) :
               (head \o tail)[i] = IF i <= Len(head) THEN head[i] ELSE tail[i - Len(head)]
      BY <3>1, ConcatProperties, Zenon
    <3>3. QED
      BY <1>4, <3>2
  <2>2. Len(head) + Len(tail) = Len(files) - 1
    BY <1>1, <1>2, <1>3
  <2>3. QED
    BY <1>2, <2>1, <2>2
<1>6. DOMAIN few = 1 .. Len(files) - 1
  BY <1>5
<1>7. place \in [DOMAIN few -> DOMAIN files]
  BY SMTT(40), <1>1, <1>6
<1>8. \A m, k \in DOMAIN few : m < k => place[m] < place[k]
  BY <1>1, <1>6
<1>9. ASSUME NEW m \in DOMAIN few
      PROVE  few[m] = files[place[m]]
  <2>1. CASE m < n
    BY <1>1, <1>2, <1>5, <1>6, <2>1
  <2>2. CASE ~(m < n)
    <3>1. m - (n - 1) \in 1 .. Len(files) - n /\ ~(m <= n - 1) /\ n + (m - (n - 1)) = m + 1
      <4>1. m \in 1 .. Len(files) - 1 /\ n \in 1 .. Len(files) /\ Len(files) \in Nat /\ m >= n
        BY <1>1, <1>6, <2>2
      <4>2. QED
        BY SMTT(40), <4>1
    <3>2. few[m] = files[n + (m - (n - 1))]
      BY <1>3, <1>5, <1>6, <3>1
    <3>3. QED
      BY <2>2, <3>1, <3>2
  <2>3. QED
    BY <2>1, <2>2
<1> HIDE DEF place
<1>10. QED
  BY <1>5, <1>7, <1>8, <1>9 DEF Within

(* A tree that passes still passes when a file is taken out of it           *)
(* (agent_config.py, modelfiles.py): no check of any tree, whatever its     *)
(* size and the limit on what is held, is switched off by a file.           *)
THEOREM FewerFilesPass == Spec => []SmallerPasses
<1>1. Inv => SmallerPasses
  <2> SUFFICES ASSUME Inv, Passing(Files), NEW n \in DOMAIN Files PROVE Passing(WithoutFile(n))
    BY DEF SmallerPasses
  <2>1. Files \in Seq(FileType)
    BY FilesAreFiles DEF Inv, InspectionOK, StageOK
  <2>2. PICK files, few : files = Files /\ few = WithoutFile(n)
    OBVIOUS
  <2>3. few = SubSeq(files, 1, n - 1) \o SubSeq(files, n + 1, Len(files))
    BY <2>2 DEF WithoutFile
  <2>4. PICK place : Within(few, files, place)
    BY <2>1, <2>2, <2>3, WithoutIsWithin
  <2>5. Passing(few)
    BY <2>2, <2>4, FewerStaticFlags
  <2>6. QED
    BY <2>2, <2>5
<1>2. QED
  BY <1>1, InvAlways, PTL
=============================================================================
