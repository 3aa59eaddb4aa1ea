----------------------------- MODULE Containment -----------------------------
(***************************************************************************)
(* Cutting the network and restoring it on a Linux host: the full cut      *)
(* (responder/cut_full.py), the egress cut (responder/cut_egress.py), the  *)
(* normal and the emergency restore (recovery/restore.py), and the ledger  *)
(* they share (telemetry/cut_state.py).                                    *)
(*                                                                         *)
(* A process is one watcher thread that handles an event, one `zee cut' or *)
(* `zee restore' command, or one request the privileged daemon serves.     *)
(* Every OS command and every read of the OS or the ledger is a step of    *)
(* its own, so processes interleave between them, a process may be killed  *)
(* between any two, and another tool may change an interface in between.   *)
(*                                                                         *)
(* Serialized = TRUE is the daemon, which serves one request at a time     *)
(* under its lock (privsep/daemon.py); FALSE is the direct mode, in which  *)
(* watcher threads and commands share the host and the ledger unlocked.    *)
(***************************************************************************)
EXTENDS CutLedger, FiniteSets

CONSTANTS
    Assets,       \* asset ids
    Procs,        \* threads and commands that cut or restore
    Ifaces,       \* non-loopback interfaces of the host
    NM,           \* NetworkManager's switch (SENTINEL_LINUX_NMCLI)
    FW,           \* Zee's egress rules (the firewall entries of a record)
    Tools,        \* installed tools
    Ops,          \* the operations the run starts
    Serialized,   \* one request at a time, under the daemon's lock?
    QuietCuts,    \* do other tools act only between Zee's operations?
    MaxLedger,    \* bound: no operation starts on a ledger this long
    MaxCrashes,   \* bound: processes killed in the middle of an operation
    MaxFailures,  \* bound: ledger writes that fail and leave nothing
    MaxTears      \* bound: ledger writes that fail and leave a piece

AllTools == {"nmcli", "ip", "nft", "iptables"}
AllOps == {"full", "egress", "restore", "emergency"}
CutOps == {"full", "egress"}
RestoreOps == {"restore", "emergency"}

Switches == Ifaces \cup {NM}       \* what is switched off and on again
Targets == Switches \cup {FW}      \* what a cut record can name

ASSUME ConstantsAssumption ==
    /\ NM \notin Ifaces
    /\ FW \notin Switches
    /\ Ifaces # {}
    /\ IsFiniteSet(Ifaces)
    /\ Tools \subseteq AllTools
    /\ Ops \subseteq AllOps
    /\ Serialized \in BOOLEAN
    /\ QuietCuts \in BOOLEAN
    /\ {MaxLedger, MaxCrashes, MaxFailures, MaxTears} \subseteq Nat

VARIABLES
    up,        \* [Switches -> BOOLEAN]: the OS's own state
    rule,      \* Zee's egress rules in the kernel: "none", "partial", "full"
    held,      \* the targets that are off because of Zee (history)
    lost,      \* those of them left without a record by a kill or by a
               \* ledger write that failed and was reported (history)
    ledger,    \* complete lines of cut_state.jsonl
    torn,      \* does the file end in an unterminated piece?
    lock,      \* processes inside the daemon's lock
    overtaken, \* processes whose full cut was read back before another tool
               \* changed an interface (history)
    pc,        \* [Procs -> step]
    op,        \* [Procs -> operation]
    asset,     \* [Procs -> asset id, "none" while idle]
    before,    \* [Procs -> interfaces read as disabled before the cut]
    todo,      \* [Procs -> switches still to be operated]
    seen,      \* [Procs -> `attempted' of a cut, `entries' of a restore]
    nmOk,      \* [Procs -> BOOLEAN]: nmcli's exit status
    verdict,   \* [Procs -> {"ok", "fail", "unsure"}]: True, False, None
    crashes, failures, tears   \* what has been used of the bounds

osVars == <<up, rule, held, lost>>
fileVars == <<ledger, torn>>
procVars == <<op, asset, before, todo, seen, nmOk, verdict>>
countVars == <<crashes, failures, tears>>
vars == <<osVars, fileVars, lock, overtaken, pc, procVars, countVars>>

CutSteps == {"snapshot", "nmcli", "list", "link", "install", "rules", "check", "record"}
RestoreSteps == {"read", "nmOn", "sweep", "undo", "fwRemove", "fwVerify",
                 "readback", "resolve"}
Steps == {"idle", "report"} \cup CutSteps \cup RestoreSteps
Verdicts == {"ok", "fail", "unsure"}

OsTypeOK ==
    /\ up \in [Switches -> BOOLEAN]
    /\ rule \in {"none", "partial", "full"}
    /\ held \subseteq Targets
    /\ lost \subseteq Targets

FileTypeOK ==
    /\ ledger \in Seq(Lines(Assets, Targets))
    /\ torn \in BOOLEAN
    /\ crashes \in Nat
    /\ failures \in Nat
    /\ tears \in Nat

ProcTypeOK ==
    /\ lock \subseteq Procs
    /\ overtaken \subseteq Procs
    /\ pc \in [Procs -> Steps]
    /\ op \in [Procs -> AllOps]
    /\ asset \in [Procs -> Assets \cup {"none"}]
    /\ before \in [Procs -> SUBSET Ifaces]
    /\ todo \in [Procs -> SUBSET Switches]
    /\ seen \in [Procs -> SUBSET Targets]
    /\ nmOk \in [Procs -> BOOLEAN]
    /\ verdict \in [Procs -> Verdicts]

\* An operation under way has an asset.
AssetTypeOK == \A p \in Procs : pc[p] # "idle" => asset[p] \in Assets

\* Type invariant.
TypeOK == OsTypeOK /\ FileTypeOK /\ ProcTypeOK /\ AssetTypeOK

Init ==
    /\ up = [t \in Switches |-> TRUE]
    /\ rule = "none"
    /\ held = {}
    /\ ledger = <<>>
    /\ torn = FALSE
    /\ lost = {}
    /\ lock = {}
    /\ overtaken = {}
    /\ pc = [p \in Procs |-> "idle"]
    /\ op = [p \in Procs |-> "full"]
    /\ asset = [p \in Procs |-> "none"]
    /\ before = [p \in Procs |-> {}]
    /\ todo = [p \in Procs |-> {}]
    /\ seen = [p \in Procs |-> {}]
    /\ nmOk = [p \in Procs |-> FALSE]
    /\ verdict = [p \in Procs |-> "fail"]
    /\ crashes = 0 /\ failures = 0 /\ tears = 0

-----------------------------------------------------------------------------
(* Starting and ending an operation. *)

Go(p, step) == pc' = [pc EXCEPT ![p] = step]

\* restore._combine: a failure wins, then anything unconfirmed; nothing to
\* judge is not a success.
Combine(S) ==
    IF "fail" \in S THEN "fail"
    ELSE IF S = {} \/ "unsure" \in S THEN "unsure" ELSE "ok"

\* Seeded fault: the request does not wait for the lock.
AcquireAnyway(p) == lock' = IF Serialized THEN {p} ELSE lock

(***************************************************************************)
(* CutDaemon._handle runs a request inside `with self.lock'; the direct   *)
(* mode takes no lock.                                                     *)
(***************************************************************************)
Acquire(p) ==
    /\ Serialized => lock = {}
    /\ lock' = IF Serialized THEN {p} ELSE lock

\* What the call is given: the operation and the asset it is recorded under.
Tag(p, a, o) ==
    /\ op' = [op EXCEPT ![p] = o]
    /\ asset' = [asset EXCEPT ![p] = a]

(***************************************************************************)
(* sequence.handle past its gate, `zee cut', or the daemon's _cut and      *)
(* check_tamper: a cut of asset `a' starts.  `zee restore' or a signed     *)
(* restore likewise.                                                       *)
(***************************************************************************)
Begin(p, a, o) ==
    /\ pc[p] = "idle"
    /\ o \in Ops
    /\ Len(ledger) < MaxLedger
    /\ Acquire(p)
    /\ Go(p, CASE o = "full"      -> "snapshot"
               [] o = "egress"    -> "install"
               [] o = "restore"   -> "read"
               [] o = "emergency" -> "nmOn")
    /\ Tag(p, a, o)
    /\ UNCHANGED <<osVars, fileVars, overtaken, before, todo, seen, nmOk, verdict, countVars>>

\* The process forgets its local state and, in the daemon, frees the lock.
Leave(p) ==
    /\ Go(p, "idle")
    /\ lock' = lock \ {p}
    /\ overtaken' = overtaken \ {p}
    /\ op' = [op EXCEPT ![p] = "full"]
    /\ asset' = [asset EXCEPT ![p] = "none"]
    /\ before' = [before EXCEPT ![p] = {}]
    /\ todo' = [todo EXCEPT ![p] = {}]
    /\ seen' = [seen EXCEPT ![p] = {}]
    /\ nmOk' = [nmOk EXCEPT ![p] = FALSE]
    /\ verdict' = [verdict EXCEPT ![p] = "fail"]

\* The result is announced: "applied" or FAILED for a cut; restored, Z605,
\* Z606 or Z601 for a restore.
Report(p) ==
    /\ pc[p] = "report"
    /\ Leave(p)
    /\ UNCHANGED <<osVars, fileVars, countVars>>

-----------------------------------------------------------------------------
(* The OS.  An exit status proves nothing: a command that reports success *)
(* may have done nothing, one that failed or timed out may have worked.   *)

SwitchOff(t, effect) ==
    /\ up' = [up EXCEPT ![t] = @ /\ ~effect]
    /\ held' = IF effect /\ up[t] THEN held \cup {t} ELSE held
    /\ UNCHANGED <<rule, lost>>

SwitchOn(t, effect) ==
    /\ up' = [up EXCEPT ![t] = @ \/ effect]
    /\ held' = IF effect THEN held \ {t} ELSE held
    /\ lost' = IF effect THEN lost \ {t} ELSE lost
    /\ rule' = rule

SetRule(r) ==
    /\ rule' = r
    /\ held' = IF r = "none" THEN held \ {FW} ELSE held \cup {FW}
    /\ lost' = IF r = "none" THEN lost \ {FW} ELSE lost
    /\ up' = up

\* The steps of a cut after its read-back.
Settled == {"record", "report"}

\* Another tool, or the operator, changes an interface.
OtherTool(i) ==
    /\ QuietCuts => \A p \in Procs : pc[p] = "idle"
    /\ up' = [up EXCEPT ![i] = ~@]
    /\ held' = held \ {i}
    /\ lost' = lost \ {i}
    /\ overtaken' = overtaken \cup {p \in Procs : op[p] = "full" /\ pc[p] \in Settled}
    /\ UNCHANGED <<rule, fileVars, lock, pc, procVars, countVars>>

-----------------------------------------------------------------------------
(* The full cut: _cut_full_linux, then the read-back of cut_full. *)

\* Seeded fault: only a command that reported success is recorded.
AttemptedIfOk(p, t, ok) == seen' = [seen EXCEPT ![p] = IF ok THEN @ \cup {t} ELSE @]

\* "Every attempted target is recorded, success or not."
Attempted(p, t, ok) == seen' = [seen EXCEPT ![p] = @ \cup {t}]

\* interface_states: which interfaces it may give an answer for.
InterfaceStates == SUBSET (IF "ip" \in Tools THEN Ifaces ELSE {})

\* list_linux_interfaces: every interface, or none when `ip' fails.
LinuxInterfaces == {Ifaces, {}}

\* before = interface_states() or {}: an interface whose state cannot be read
\* counts as one that is up.
Snapshot(p) ==
    /\ pc[p] = "snapshot"
    /\ \E readable \in InterfaceStates :
         before' = [before EXCEPT ![p] = {i \in readable : ~up[i]}]
    /\ Go(p, "nmcli")
    /\ UNCHANGED <<osVars, fileVars, lock, overtaken, op, asset, todo, seen, nmOk, verdict, countVars>>

NmcliOff(p) ==
    /\ pc[p] = "nmcli"
    /\ Go(p, "list")
    /\ IF "nmcli" \in Tools
       THEN \E ok, effect \in BOOLEAN :
              /\ Attempted(p, NM, ok)
              /\ nmOk' = [nmOk EXCEPT ![p] = ok]
              /\ SwitchOff(NM, effect)
       ELSE UNCHANGED <<seen, nmOk, osVars>>
    /\ UNCHANGED <<fileVars, lock, overtaken, op, asset, before, todo, verdict, countVars>>

ListLinks(p) ==
    /\ pc[p] = "list"
    /\ LET nm == IF nmOk[p] THEN "ok" ELSE "fail"
       IN  IF "ip" \in Tools
           THEN \E listed \in LinuxInterfaces :
                  /\ todo' = [todo EXCEPT ![p] = listed \ before[p]]
                  /\ verdict' = [verdict EXCEPT ![p] =
                                   IF listed = {} THEN "fail"
                                   ELSE IF listed \subseteq before[p] THEN nm
                                   ELSE "ok"]
           ELSE /\ verdict' = [verdict EXCEPT ![p] = nm]
                /\ todo' = todo
    /\ Go(p, IF todo'[p] = {} THEN "check" ELSE "link")
    /\ UNCHANGED <<osVars, fileVars, lock, overtaken, op, asset, before, seen, nmOk, countVars>>

LinkDown(p) ==
    /\ pc[p] = "link"
    /\ \E i \in todo[p], ok, effect \in BOOLEAN :
         /\ SwitchOff(i, effect)
         /\ Attempted(p, i, ok)
         /\ todo' = [todo EXCEPT ![p] = @ \ {i}]
         /\ verdict' = [verdict EXCEPT ![p] = IF ok THEN @ ELSE "fail"]
    /\ Go(p, IF todo'[p] = {} THEN "check" ELSE "link")
    /\ UNCHANGED <<fileVars, lock, overtaken, op, asset, before, nmOk, countVars>>

-----------------------------------------------------------------------------
(* The egress cut: _cut_egress_linux.  Of the commands of the iptables     *)
(* variant the first, and the last that was run, are steps.                *)

\* `nft -f' is atomic: all of the table or nothing.  Only where it says that
\* it failed is nothing recorded; on a timeout the table may be there.
InstallNft(p) ==
    \/ /\ \E r \in {rule, "full"} : SetRule(r)
       /\ seen' = [seen EXCEPT ![p] = {FW}]
       /\ \E v \in {"ok", "fail"} : verdict' = [verdict EXCEPT ![p] = v]
       /\ Go(p, "check")
    \/ /\ verdict' = [verdict EXCEPT ![p] = "fail"]
       /\ Go(p, "check")
       /\ UNCHANGED <<osVars, seen>>

\* `iptables -N' makes the chain, which must not exist yet.
InstallIptables(p) ==
    /\ seen' = [seen EXCEPT ![p] = {FW}]
    /\ \E r \in {rule, IF rule = "none" THEN "partial" ELSE rule} : SetRule(r)
    /\ \/ /\ rule = "none"
          /\ verdict' = [verdict EXCEPT ![p] = "ok"]
          /\ Go(p, "rules")
       \/ /\ verdict' = [verdict EXCEPT ![p] = "fail"]
          /\ Go(p, "check")

Install(p) ==
    /\ pc[p] = "install"
    /\ IF "nft" \in Tools THEN InstallNft(p)
       ELSE IF "iptables" \in Tools THEN InstallIptables(p)
       ELSE /\ verdict' = [verdict EXCEPT ![p] = "fail"]
            /\ Go(p, "check")
            /\ UNCHANGED <<osVars, seen>>
    /\ UNCHANGED <<fileVars, lock, overtaken, op, asset, before, todo, nmOk, countVars>>

\* The rules go into the chain one by one, then into ip6tables'; the first
\* command that fails is the last.  The chain may be gone by then (a restore)
\* or may never have been made.
AppendRules(p) ==
    /\ pc[p] = "rules"
    /\ \E r \in {rule} \cup (IF rule = "none" THEN {"partial"} ELSE {"full"}) : SetRule(r)
    /\ \E v \in {"ok", "fail"} : verdict' = [verdict EXCEPT ![p] = v]
    /\ Go(p, "check")
    /\ UNCHANGED <<fileVars, lock, overtaken, op, asset, before, todo, seen, nmOk, countVars>>

-----------------------------------------------------------------------------
(* Both cuts: read back, record. *)

\* Seeded fault: only the changed interfaces are looked at.
RequiredChangedOnly(attempted, listed) ==
    IF attempted \subseteq {NM} THEN attempted ELSE attempted \ {NM}

\* What must read back as disabled: what the cut attempted (NetworkManager's
\* switch only if nothing else was) and every other interface listed.
Required(attempted, listed) ==
    (IF attempted \subseteq {NM} THEN attempted ELSE attempted \ {NM}) \cup listed

\* The read-back of the interfaces: `listed' are named at all, of `read' the
\* state could be told.  Without any interface it confirms nothing.
ConfirmedFull(attempted, listed, read) ==
    /\ listed # {}
    /\ Required(attempted, listed) \subseteq read
    /\ \A t \in Required(attempted, listed) : ~up[t]

\* The read-back of the rules (_verify_egress).
ConfirmedEgress == rule = "full"

\* What a read-back may give an answer for.
Listings == IF "ip" \in Tools THEN LinuxInterfaces ELSE {{}}
Readable(listed) == SUBSET (listed \cup (IF "nmcli" \in Tools THEN {NM} ELSE {}))

ReadsBack(p, confirmed) ==
    IF op[p] = "full"
    THEN \E listed \in Listings : \E read \in Readable(listed) :
           confirmed = ConfirmedFull(seen[p], listed, read)
    ELSE confirmed \in {FALSE, ConfirmedEgress}

CheckCut(p) ==
    /\ pc[p] = "check"
    /\ \E confirmed \in BOOLEAN :
         /\ ReadsBack(p, confirmed)
         /\ verdict' = [verdict EXCEPT ![p] = IF @ = "ok" /\ ~confirmed THEN "fail" ELSE @]
    /\ Go(p, IF seen[p] = {} THEN "report" ELSE "record")
    /\ UNCHANGED <<osVars, fileVars, lock, overtaken, op, asset, before, todo, seen, nmOk, countVars>>

\* The three ends of CutStateLog._append: written; OSError and nothing
\* written; OSError and a piece written.
WriteOk(line) ==
    /\ ledger' = Appended(ledger, torn, line)
    /\ torn' = FALSE
    /\ UNCHANGED countVars

WriteFails ==
    /\ failures < MaxFailures
    /\ failures' = failures + 1
    /\ UNCHANGED <<ledger, torn, crashes, tears>>

WriteTears ==
    /\ tears < MaxTears
    /\ tears' = tears + 1
    /\ torn' = TRUE
    /\ UNCHANGED <<ledger, crashes, failures>>

\* Seeded fault: a ledger write failure is only logged.
NotRecordedLogged(p) == verdict' = verdict

NotRecorded(p) == verdict' = [verdict EXCEPT ![p] = "fail"]

\* record_or_report: a failed write turns the result into a failure that
\* names what was changed and not recorded.
RecordCut(p) ==
    /\ pc[p] = "record"
    /\ Go(p, "report")
    /\ \/ /\ WriteOk(CutLine(asset[p], seen[p]))
          /\ UNCHANGED <<verdict, lost>>
       \/ /\ WriteFails \/ WriteTears
          /\ NotRecorded(p)
          /\ lost' = lost \cup (seen[p] \cap held)
    /\ UNCHANGED <<up, rule, held, lock, overtaken, op, asset, before, todo, seen, nmOk>>

-----------------------------------------------------------------------------
(* Restore.  Normal: undo what the unresolved record names; emergency:     *)
(* switch everything on.  Both then remove Zee's rules and re-read the OS. *)

\* restore(): no record or a damaged ledger is refused (Z605).
ReadLedger(p) ==
    /\ pc[p] = "read"
    /\ LET entries == Unresolved(ledger, asset[p])
           refused == entries = {} \/ Damaged(ledger, torn)
       IN  /\ seen' = [seen EXCEPT ![p] = IF refused THEN {} ELSE entries]
           /\ todo' = [todo EXCEPT ![p] = IF refused THEN {} ELSE entries \ {FW}]
           /\ verdict' = [verdict EXCEPT ![p] = IF refused THEN "fail" ELSE "ok"]
           /\ Go(p, IF refused THEN "report"
                    ELSE IF entries \subseteq {FW} THEN "fwRemove" ELSE "undo")
    /\ UNCHANGED <<osVars, fileVars, lock, overtaken, op, asset, before, nmOk, countVars>>

\* _restore_linux_compat: a failed `nmcli networking on' counts as done when
\* NetworkManager then reports networking enabled.
NmcliOn(p) ==
    /\ pc[p] = "nmOn"
    /\ Go(p, "sweep")
    /\ IF "nmcli" \in Tools
       THEN \E ok, effect, readable \in BOOLEAN :
              /\ SwitchOn(NM, effect)
              /\ nmOk' = [nmOk EXCEPT ![p] = ok]
              /\ seen' = [seen EXCEPT ![p] = @ \cup {NM}]
              /\ verdict' = [verdict EXCEPT ![p] =
                               IF ok \/ (readable /\ up'[NM]) THEN "ok" ELSE "fail"]
       ELSE /\ verdict' = [verdict EXCEPT ![p] = "ok"]
            /\ UNCHANGED <<osVars, nmOk, seen>>
    /\ UNCHANGED <<fileVars, lock, overtaken, op, asset, before, todo, countVars>>

\* What a step that could not be run is worth to the emergency restore.
Unswept(p) == IF nmOk[p] THEN "unsure" ELSE "fail"

Sweep(p) ==
    /\ pc[p] = "sweep"
    /\ IF "ip" \in Tools
       THEN \E listed \in LinuxInterfaces :
              /\ todo' = [todo EXCEPT ![p] = listed]
              /\ seen' = [seen EXCEPT ![p] = @ \cup listed]
              /\ verdict' = [verdict EXCEPT ![p] = IF listed = {} THEN "fail" ELSE @]
       ELSE /\ verdict' = [verdict EXCEPT ![p] = Combine({@, Unswept(p)})]
            /\ UNCHANGED <<todo, seen>>
    /\ Go(p, IF todo'[p] = {} THEN "fwRemove" ELSE "undo")
    /\ UNCHANGED <<osVars, fileVars, lock, overtaken, op, asset, before, nmOk, countVars>>

Undo(p) ==
    /\ pc[p] = "undo"
    /\ \E t \in todo[p], ok, effect \in BOOLEAN :
         /\ SwitchOn(t, effect)
         /\ todo' = [todo EXCEPT ![p] = @ \ {t}]
         /\ verdict' = [verdict EXCEPT ![p] =
                          Combine({@, IF ok THEN "ok"
                                      ELSE IF op[p] = "restore" THEN "fail"
                                      ELSE Unswept(p)})]
    /\ Go(p, IF todo'[p] = {} THEN "fwRemove" ELSE "undo")
    /\ UNCHANGED <<fileVars, lock, overtaken, op, asset, before, seen, nmOk, countVars>>

\* _firewall_steps: the removal's exit status is ignored, and the several
\* commands of an iptables removal may stop halfway ...
RemoveRules(p) ==
    /\ pc[p] = "fwRemove"
    /\ \E r \in {"none", rule} \cup (IF rule = "full" /\ "iptables" \in Tools
                                    THEN {"partial"} ELSE {}) : SetRule(r)
    /\ Go(p, "fwVerify")
    /\ UNCHANGED <<fileVars, lock, overtaken, procVars, countVars>>

\* Seeded fault: remove and re-read until the rules are gone.
AfterVerifyRetry(p) == Go(p, IF verdict'[p] = "ok" THEN "readback" ELSE "fwRemove")

AfterVerify(p) == Go(p, "readback")

\* ... and the re-read decides (_verify_absent): gone, still listed, or no
\* clear answer from every backend that must give one.
VerifyAbsent(p) ==
    /\ pc[p] = "fwVerify"
    /\ \E answered \in BOOLEAN :
         verdict' = [verdict EXCEPT ![p] =
                       Combine({@, IF ~answered THEN "unsure"
                                   ELSE IF rule = "none" THEN "ok" ELSE "fail"})]
    /\ AfterVerify(p)
    /\ UNCHANGED <<osVars, fileVars, lock, overtaken, op, asset, before, todo, seen, nmOk, countVars>>

\* Seeded fault: a switch whose state cannot be read counts as back on.
ReadbackLenient(targets, read) == IF \E t \in read : ~up[t] THEN "fail" ELSE "ok"

\* _readback of the switches in `targets', of which `read' give an answer.
Readback(targets, read) ==
    IF \E t \in read : ~up[t] THEN "fail"
    ELSE IF targets = {} \/ read # targets THEN "unsure" ELSE "ok"

\* The emergency restore adds what the ledger now names, if it is usable.
ReadbackTargets(p) ==
    (seen[p] \ {FW}) \cup
        (IF op[p] = "emergency" /\ ~Damaged(ledger, torn)
         THEN Unresolved(ledger, asset[p]) \ {FW} ELSE {})

ReadbackRestore(p) ==
    /\ pc[p] = "readback"
    /\ LET targets == ReadbackTargets(p)
       IN  IF targets = {} /\ op[p] = "restore"
           THEN verdict' = verdict
           ELSE \E read \in SUBSET targets :
                  verdict' = [verdict EXCEPT ![p] = Combine({@, Readback(targets, read)})]
    /\ Go(p, "resolve")
    /\ UNCHANGED <<osVars, fileVars, lock, overtaken, op, asset, before, todo, seen, nmOk, countVars>>

\* mark_resolved, on success only; an OSError is swallowed.
MarkResolved(p) ==
    /\ pc[p] = "resolve"
    /\ IF verdict[p] = "ok"
       THEN WriteOk(ResolvedLine(asset[p])) \/ WriteFails \/ WriteTears
       ELSE UNCHANGED <<fileVars, countVars>>
    /\ Go(p, "report")
    /\ UNCHANGED <<osVars, lock, overtaken, procVars>>

-----------------------------------------------------------------------------
\* The process is killed, a cut before it wrote its record, a write halfway.
Crash(p) ==
    /\ pc[p] # "idle"
    /\ crashes < MaxCrashes
    /\ crashes' = crashes + 1
    /\ lost' = IF pc[p] \in CutSteps THEN lost \cup (seen[p] \cap held) ELSE lost
    /\ \/ UNCHANGED <<torn, tears>>
       \/ /\ pc[p] = "record" \/ (pc[p] = "resolve" /\ verdict[p] = "ok")
          /\ tears < MaxTears
          /\ tears' = tears + 1
          /\ torn' = TRUE
    /\ Leave(p)
    /\ UNCHANGED <<up, rule, held, ledger, failures>>

CutFull(p) == Snapshot(p) \/ NmcliOff(p) \/ ListLinks(p) \/ LinkDown(p)
Cut(p) == CutFull(p) \/ Install(p) \/ AppendRules(p) \/ CheckCut(p) \/ RecordCut(p)
Restore(p) ==
    \/ ReadLedger(p) \/ NmcliOn(p) \/ Sweep(p) \/ Undo(p) \/ RemoveRules(p)
    \/ VerifyAbsent(p) \/ ReadbackRestore(p) \/ MarkResolved(p)
Step(p) == Cut(p) \/ Restore(p) \/ Report(p)

Next ==
    \/ \E p \in Procs : Step(p) \/ Crash(p)
    \/ \E p \in Procs, a \in Assets, o \in AllOps : Begin(p, a, o)
    \/ \E i \in Ifaces : OtherTool(i)

Spec == Init /\ [][Next]_vars

\* Every command has a timeout (10 s), so a started operation keeps going.
FairSpec == Spec /\ \A p \in Procs : WF_vars(Step(p))

-----------------------------------------------------------------------------
(* Properties. *)

(***************************************************************************)
(* The ledger tells what `zee restore' has to undo: as long as no line of  *)
(* it is damaged, everything Zee holds off is named by an unresolved       *)
(* record, or belongs to a cut still under way, or was left unrecorded by  *)
(* a kill or a reported write failure.  A target outside all of these      *)
(* would stay off while the normal restore refuses with Z605.              *)
(***************************************************************************)
Recorded == {t \in Targets : \E a \in Assets : t \in Unresolved(ledger, a)}
UnderWay == {t \in Targets : \E p \in Procs : pc[p] \in CutSteps /\ t \in seen[p]}
Recoverable == Damaged(ledger, torn) \/ held \subseteq Recorded \cup UnderWay \cup lost

(***************************************************************************)
(* A restore that reports success left nothing of its cut in place: the    *)
(* normal one nothing its record named and none of Zee's rules, the        *)
(* emergency one nothing at all, whatever the state of the ledger.         *)
(***************************************************************************)
RestoredMeansRestored ==
    \A p \in Procs :
        pc[p] \in {"resolve", "report"} /\ op[p] \in RestoreOps /\ verdict[p] = "ok"
        => /\ rule = "none"
           /\ held \cap (IF op[p] = "restore" THEN seen[p] ELSE Targets) = {}

(***************************************************************************)
(* "a cut without a record is never announced as applied"                  *)
(* (record_or_report, cut_full.py): when a cut is announced as applied, a  *)
(* reader of the ledger finds every target it changed, or a restore of the *)
(* asset has resolved it, or the reader learns that the ledger is damaged  *)
(* and the normal restore refuses.  The last case is real: a record glued  *)
(* to the piece a torn append left is announced all the same.              *)
(***************************************************************************)
AppliedIsRecorded ==
    \A p \in Procs :
        pc[p] = "report" /\ op[p] \in CutOps /\ verdict[p] = "ok"
        => \/ seen[p] \subseteq Unresolved(ledger, asset[p])
           \/ ResolvedAfter(ledger, asset[p], 0)
           \/ Damaged(ledger, torn)

(***************************************************************************)
(* Without the daemon's lock a restore may resolve what it did not undo    *)
(* (the run containment_race).  That is the only way to lose a cut: while  *)
(* no restore has marked anything as resolved, all that cuts and restores  *)
(* in flight leave switched off is in the ledger.                          *)
(***************************************************************************)
RecoverableUntilResolved ==
    (\E i \in 1 .. Len(ledger) : ledger[i].type = "resolved") \/ Recoverable

(***************************************************************************)
(* "Exit codes are not proof" (cut_full.py, cut_egress.py): from its       *)
(* read-back to its announcement, a cut reported as applied is in force:   *)
(* no interface of the host is up, unless another tool has switched one on *)
(* again in the meantime; all of Zee's rules are there.  It takes commands *)
(* that claim too much, interfaces the cut did not touch and, without the  *)
(* daemon's lock, a restore in between to break it.                        *)
(***************************************************************************)
AppliedIsInForce ==
    \A p \in Procs :
        pc[p] \in Settled /\ op[p] \in CutOps /\ verdict[p] = "ok"
        => IF op[p] = "full" THEN p \in overtaken \/ \A i \in Ifaces : ~up[i]
           ELSE rule = "full"

\* The loop of unresolved_for finds what the declarative reading says.
WalkAgrees == \A a \in Assets : Walk(ledger, a) = Unresolved(ledger, a)

\* Every started operation ends: it reports, or its process is killed.
OperationsEnd == \A p \in Procs : pc[p] # "idle" ~> pc[p] = "idle"
=============================================================================
