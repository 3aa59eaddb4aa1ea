-------------------------------- MODULE Privsep --------------------------------
(***************************************************************************)
(* The privileged cut daemon (privsep/daemon.py): its one lock, the admin  *)
(* operations it performs for a signed approval, the cut requests of the   *)
(* watch, the tamper check, and the files it owns.                         *)
(*                                                                         *)
(* An approval is asked for (challenge), signed on the approver's device   *)
(* at any time, and submitted; the approver is taken to sign whatever is   *)
(* asked, with any key.  The lock admits one request or check at a time;   *)
(* `step' is where its holder stands, "free" when there is none.  A status *)
(* request and the first read of a tamper check take no lock.  The daemon  *)
(* may be killed at any moment, which loses its memory and no file; a      *)
(* write of a file may fail, which leaves the file as it was.              *)
(*                                                                         *)
(* A request that is refused changes nothing and is not an action: that    *)
(* covers the argument checks, the rate limit, wrong codes and signatures. *)
(* A content stands for a file's bytes and for their SHA-256.              *)
(***************************************************************************)
EXTENDS Naturals, FiniteSets

CONSTANTS
    Uids,           \* uids that may ask
    Keys,           \* approver keys
    Configs,        \* contents of a valid configuration file
    PolicyOf,       \* [Configs -> policy hash]: its automatic assets
    DryRun,         \* the configurations with dry_run set
    Watched,        \* is the watch's own configuration file checked?
    PendingPerUid,  \* PENDING_PER_UID
    Ops,            \* the admin operations the run asks for
    Statuses,       \* are status requests sent?
    MaxRequests,    \* bound: approvals asked for
    MaxLedger,      \* bound: cuts and restores recorded
    MaxCrashes,     \* bound: kills
    MaxFailures     \* bound: failed writes

AdminOps == {"restore", "config_set", "auto_on", "auto_off", "tamper_set",
             "stop", "key_add", "key_remove"}
AutoOps == {"auto_on", "auto_off"}

\* "absent" is a file that is missing, "unreadable" one that cannot be read.
NoConfig == "absent"
Contents == Configs \cup {NoConfig, "unreadable"}

ASSUME ConstantsAssumption ==
    /\ {NoConfig, "unreadable", "none"} \cap Configs = {}
    /\ DryRun \subseteq Configs
    /\ DOMAIN PolicyOf = Configs
    /\ Watched \in BOOLEAN
    /\ Statuses \in BOOLEAN
    /\ Ops \subseteq AdminOps
    /\ IsFiniteSet(Keys)
    /\ PendingPerUid \in Nat \ {0}
    /\ {MaxRequests, MaxLedger, MaxCrashes, MaxFailures} \subseteq Nat

VARIABLES
    \* the daemon's files
    config,    \* assets.toml
    perm,      \* auto_containment.json
    gen,       \* admin_gen
    saved,     \* admin_keys.json: registered keys, used approvals
    action,    \* tamper.json
    ledger,    \* cut_state.jsonl, as the number of its records
    \* its memory
    run,       \* "up", "down" (killed), "stopped" (exit 0: left so)
    state,     \* the engine's copy of `saved'
    pending,   \* approvals asked for and not yet submitted
    owner,     \* _owner: the uid that asked, by id; not all still pending
    step, cur, \* the lock: where its holder stands, the approval it applies
    data,      \* content config_set has read
    stopping,
    answering, \* has the handler of a stop still to answer?
    closing,   \* was the server told to shut down?
    strikes, acted, seen,
    theirs,    \* the tamper thread's read of the watched file
    reading,   \* a status request's read of the configuration
    \* outside
    watchFile, \* the watch's own configuration file
    nextId, crashes, failures,   \* counters
    \* history: only the properties read it
    acts,      \* approvals acted on
    covered,   \* the configuration auto-cut was last turned on for
    wasOn,     \* was auto-cut on since the status request's first read?
    differed,  \* did the watched file differ, or the watch fall silent,
               \* since the last tamper check?
    before     \* and between the last two?

lock == <<step, cur, data>>
switch == <<perm, covered>>
registry == <<saved, state>>
asked == <<pending, owner, nextId>>
count == <<gen, acts>>
check == <<strikes, acted, theirs>>
server == <<run, stopping, answering, closing>>
watch == <<seen, reading, watchFile>>
limits == <<crashes, failures>>
vars == <<lock, switch, registry, asked, count, config, check, server, watch, limits, action, ledger,
          wasOn, differed, before>>

ArgsOf(o) ==
    IF o = "config_set" THEN Configs
    ELSE IF o \in {"key_add", "key_remove"} THEN Keys
    ELSE IF o = "tamper_set" THEN {"off", "full"} ELSE {"-"}

Args == Configs \cup Keys \cup {"off", "full", "-"}

\* `bound' is what the daemon fills in (BOUND); `uid', who asked, and `at' are
\* history: the daemon knows the one from `owner' only, the other not at all.
Requests ==
    {r \in [id : Nat, uid : Uids, op : AdminOps, arg : Args,
            bound : [gen : Nat, config : SUBSET (Configs \cup {NoConfig}), ledger : SUBSET Nat],
            at : [acts : Nat, config : Configs \cup {NoConfig}, ledger : Nat]] :
        r.arg \in ArgsOf(r.op)}

Policies == {PolicyOf[c] : c \in Configs} \cup {"none"}

NoRequest == [op |-> "none"]
NoPerm == [enabled |-> FALSE, policy |-> "none"]
Perm(on, c) == [enabled |-> on, policy |-> IF c = NoConfig THEN "none" ELSE PolicyOf[c]]

Steps == {"free", "saved", "act", "install", "autoOff"}

FilesTypeOK ==
    /\ config \in Configs \cup {NoConfig}
    /\ perm \in [enabled : BOOLEAN, policy : Policies]
    /\ gen \in Nat
    /\ saved \in [keys : SUBSET Keys, used : SUBSET Nat]
    /\ action \in {"off", "full"}
    /\ ledger \in Nat

MemoryTypeOK ==
    /\ run \in {"up", "down", "stopped"}
    /\ state \in [keys : SUBSET Keys, used : SUBSET Nat]
    /\ pending \subseteq Requests
    /\ DOMAIN owner \subseteq Nat /\ owner \in [DOMAIN owner -> Uids]
    /\ step \in Steps
    /\ cur \in Requests \cup {NoRequest}
    /\ step # "free" => cur \in Requests
    /\ data \in Configs \cup {"none"}
    /\ step = "install" => data # "none"
    /\ stopping \in BOOLEAN /\ answering \in BOOLEAN /\ closing \in BOOLEAN
    /\ strikes \in 0 .. 2
    /\ acted \in BOOLEAN
    /\ seen \in {"never", "recent", "longAgo"}
    /\ theirs \in Contents \cup {"none"}
    /\ reading \in Configs \cup {NoConfig, "none"}

OutsideTypeOK ==
    /\ watchFile \in Configs \cup {"unreadable"}
    /\ nextId \in Nat
    /\ crashes \in Nat
    /\ failures \in Nat

HistoryTypeOK ==
    /\ acts \in Nat
    /\ covered \in Configs \cup {"none"}
    /\ wasOn \in BOOLEAN
    /\ differed \in BOOLEAN
    /\ before \in BOOLEAN

\* Type invariant.
TypeOK == FilesTypeOK /\ MemoryTypeOK /\ OutsideTypeOK /\ HistoryTypeOK

-----------------------------------------------------------------------------
(* What auto-cut needs: permission.decide, and the status reply's reading of *)
(* the same two files.                                                      *)

\* Seeded fault: the policy hash is not compared.
IfEnabled(c, p) == c # NoConfig /\ p.enabled

Permitted(c, p) == c # NoConfig /\ p.enabled /\ p.policy = PolicyOf[c]

ShownOn(c, p) == c # NoConfig /\ p.enabled /\ p.policy = PolicyOf[c]

AutoOn == Permitted(config, perm)

\* A cut request that names facts that may cut would now be carried out.
CutAllowed == run = "up" /\ AutoOn /\ config \notin DryRun

\* Would a tamper check say so?
Differs == (Watched /\ watchFile # config) \/ seen = "longAgo"

\* History: what has been so since a status request's first read, and since the
\* last tamper check.
Remember == wasOn' = (reading' # "none" /\ ((reading # "none" /\ wasOn) \/ AutoOn'))

SameWindow == differed' = (differed \/ Differs') /\ before' = before /\ Remember
NextWindow == differed' = Differs' /\ before' = differed /\ Remember
FirstWindow == differed' = Differs' /\ before' = FALSE /\ Remember

Init ==
    /\ config = NoConfig /\ perm = NoPerm /\ gen = 0 /\ action = "off" /\ ledger = 0
    /\ saved = [keys |-> {}, used |-> {}]
    /\ run = "up" /\ state = saved /\ pending = {} /\ owner = [i \in {} |-> "none"]
    /\ step = "free" /\ cur = NoRequest /\ data = "none"
    /\ stopping = FALSE /\ answering = FALSE /\ closing = FALSE
    /\ strikes = 0 /\ acted = FALSE /\ seen = "never"
    /\ theirs = "none" /\ reading = "none"
    /\ watchFile \in IF Watched THEN Configs ELSE {"unreadable"}
    /\ nextId = 1 /\ crashes = 0 /\ failures = 0
    /\ acts = 0 /\ covered = "none"
    /\ wasOn = FALSE /\ differed = Differs /\ before = FALSE

-----------------------------------------------------------------------------
(* The engine: asking, submitting. *)

Free == run = "up" /\ step = "free"
Done == step' = "free" /\ cur' = NoRequest /\ data' = "none"

\* A write that fails raises: the request ends, the file is as it was.
WriteFails == failures < MaxFailures /\ failures' = failures + 1

\* Seeded fault: only the count of applied operations is bound.
GenOnly(o) == [gen |-> gen, config |-> {}, ledger |-> {}]

\* CutDaemon.bindings: what the approval will act on.
Bindings(o) ==
    [gen |-> gen,
     config |-> IF o \in AutoOps THEN {config} ELSE {},
     ledger |-> IF o = "restore" THEN {ledger} ELSE {}]

\* What `owner' says is asked for by u.
Mine(u) == {r \in pending : r.id \in DOMAIN owner /\ owner[r.id] = u}

\* Seeded fault: the oldest of all are displaced.
OldestDisplaced(u) ==
    {r \in pending : Cardinality({s \in pending : s.id > r.id}) >= PendingPerUid - 1}

\* The oldest of u's own requests make room for a new one.
Displaced(u) ==
    {r \in Mine(u) : Cardinality({s \in Mine(u) : s.id > r.id}) >= PendingPerUid - 1}

\* `owner' forgets what was not pending any more (what is displaced now, the
\* next challenge forgets) and learns the new request.
OwnerWith(u) ==
    [i \in {j \in DOMAIN owner : \E r \in pending : r.id = j} \cup {nextId} |->
        IF i = nextId THEN u ELSE owner[i]]

Challenge(u, o, a) ==
    /\ Free
    /\ o \in Ops
    /\ a \in ArgsOf(o)
    /\ nextId <= MaxRequests
    /\ nextId' = nextId + 1
    /\ owner' = OwnerWith(u)
    /\ pending' = (pending \ Displaced(u)) \cup
         {[id |-> nextId, uid |-> u, op |-> o, arg |-> a, bound |-> Bindings(o),
           at |-> [acts |-> acts, config |-> config, ledger |-> ledger]]}
    /\ UNCHANGED <<lock, switch, registry, count, config, check, server, watch, limits, action,
                   ledger>> /\ SameWindow

\* Its time is over when it is submitted.
SubmitExpired(r) ==
    /\ Free
    /\ r \in pending
    /\ pending' = pending \ {r}
    /\ UNCHANGED <<lock, switch, registry, owner, nextId, count, config, check, server, watch,
                   limits, action, ledger>>
    /\ SameWindow

\* Engine.submit with a good signature by key k: the request is consumed, the
\* digest persisted, and only then acted on.
Submit(r, k) ==
    /\ Free
    /\ r \in pending
    /\ k \in state.keys
    /\ r.id \notin state.used
    /\ pending' = pending \ {r}
    /\ state' = [state EXCEPT !.used = @ \cup {r.id}]
    /\ \/ /\ saved' = state'
          /\ step' = "saved" /\ cur' = r
          /\ UNCHANGED failures
       \/ /\ WriteFails
          /\ UNCHANGED <<saved, step, cur>>
    /\ UNCHANGED <<data, switch, owner, nextId, count, config, check, server, watch, crashes,
                   action, ledger>>
    /\ SameWindow

\* Seeded fault: what was bound is not looked at again.
NeverStale(r) == FALSE

Stale(r) == r.bound # Bindings(r.op)

\* AdminEngine._apply: stale approvals are refused; bump_gen before acting.
Apply ==
    /\ run = "up" /\ step = "saved"
    /\ \/ /\ Stale(cur)
          /\ Done
          /\ UNCHANGED <<gen, acts, failures>>
       \/ /\ ~Stale(cur)
          /\ gen' = gen + 1
          /\ acts' = acts + 1
          /\ step' = "act"
          /\ UNCHANGED <<cur, data, failures>>
       \/ /\ ~Stale(cur)
          /\ WriteFails
          /\ Done
          /\ UNCHANGED <<gen, acts>>
    /\ UNCHANGED <<switch, registry, asked, config, check, server, watch, crashes, action, ledger>>
    /\ SameWindow

-----------------------------------------------------------------------------
(* The engine: acting. *)

Acting(ops) == run = "up" /\ step = "act" /\ cur.op \in ops

\* A cut or a restore (module Containment) may add a record.
Recorded == ledger' \in {ledger, ledger + 1} \cap 0 .. MaxLedger

ActRestore ==
    /\ Acting({"restore"})
    /\ Recorded
    /\ Done
    /\ UNCHANGED <<switch, registry, asked, count, config, check, server, watch, limits, action>>
    /\ SameWindow

\* Seeded fault: the last key may go, too.
RemovedAnyway(keys, k) == keys \ {k}

\* The last key stays.
Removed(keys, k) == IF Cardinality(keys) > 1 THEN keys \ {k} ELSE keys

ActKeys ==
    /\ Acting({"key_add", "key_remove"})
    /\ state' = [state EXCEPT !.keys = IF cur.op = "key_add" THEN @ \cup {cur.arg}
                                       ELSE Removed(@, cur.arg)]
    /\ \/ saved' = state' /\ UNCHANGED failures
       \/ WriteFails /\ saved' = saved
    /\ Done
    /\ UNCHANGED <<switch, asked, count, config, check, server, watch, crashes, action, ledger>>
    /\ SameWindow

\* _auto_set: the switch is written for the configuration in force; `on'
\* needs one.
WriteSwitch(on) ==
    \/ /\ perm' = Perm(on, config)
       /\ covered' = IF on THEN config ELSE "none"
       /\ UNCHANGED failures
    \/ /\ WriteFails
       /\ UNCHANGED <<perm, covered>>

ActAuto ==
    /\ Acting(AutoOps)
    /\ \/ cur.op = "auto_on" /\ config = NoConfig /\ UNCHANGED <<perm, covered, failures>>
       \/ cur.op = "auto_on" /\ config # NoConfig /\ WriteSwitch(TRUE)
       \/ cur.op = "auto_off" /\ WriteSwitch(FALSE)
    /\ Done
    /\ UNCHANGED <<registry, asked, count, config, check, server, watch, crashes, action, ledger>>
    /\ SameWindow

ActTamperSet ==
    /\ Acting({"tamper_set"})
    /\ \/ /\ action' = cur.arg
          /\ acted' = FALSE
          /\ UNCHANGED failures
       \/ /\ WriteFails
          /\ UNCHANGED <<action, acted>>
    /\ Done
    /\ UNCHANGED <<switch, registry, asked, count, config, strikes, theirs, server, watch, crashes,
                   ledger>> /\ SameWindow

ActStop ==
    /\ Acting({"stop"})
    /\ stopping' = TRUE /\ answering' = TRUE
    /\ Done
    /\ UNCHANGED <<switch, registry, asked, count, config, check, run, closing, watch, limits,
                   action, ledger>>
    /\ SameWindow

\* _config_set: the staged file is read once, bounded; its owner may have
\* written anything to it since it was signed.  It must have the signed hash ...
ReadStaged ==
    /\ Acting({"config_set"})
    /\ \E bytes \in Configs \cup {"unreadable"} :
         \/ bytes = cur.arg /\ data' = bytes /\ step' = "install" /\ cur' = cur
         \/ bytes # cur.arg /\ Done
    /\ UNCHANGED <<switch, registry, asked, count, config, check, server, watch, limits, action,
                   ledger>> /\ SameWindow

\* Seeded fault: the staged file is read again to be installed.
StagedNow == Configs

Content == {data}

\* ... it replaces the configuration ...
Install ==
    /\ run = "up" /\ step = "install"
    /\ \/ /\ config' \in Content
          /\ step' = "autoOff"
          /\ UNCHANGED <<cur, data, failures>>
       \/ /\ WriteFails
          /\ Done
          /\ UNCHANGED config
    /\ UNCHANGED <<switch, registry, asked, count, check, server, watch, crashes, action,
                   ledger>> /\ SameWindow

\* ... and then auto-cut is switched off.
AutoOff ==
    /\ run = "up" /\ step = "autoOff"
    /\ WriteSwitch(FALSE)
    /\ Done
    /\ UNCHANGED <<registry, asked, count, config, check, server, watch, crashes, action, ledger>>
    /\ SameWindow

-----------------------------------------------------------------------------
(* The other requests. *)

\* The first key, by root, while none is registered.
BootstrapKey(k) ==
    /\ Free
    /\ state.keys = {}
    /\ state' = [state EXCEPT !.keys = {k}]
    /\ \/ saved' = state' /\ UNCHANGED failures
       \/ WriteFails /\ saved' = saved
    /\ UNCHANGED <<lock, switch, asked, count, config, check, server, watch, crashes, action,
                   ledger>>
    /\ SameWindow

\* A cut request of the watch that is not refused.
Cut ==
    /\ Free
    /\ CutAllowed
    /\ Recorded
    /\ UNCHANGED <<lock, switch, registry, asked, count, config, check, server, watch, limits,
                   action>> /\ SameWindow

\* A status request takes no lock; the watch's (not root's) is its heartbeat.
StatusRead ==
    /\ run = "up"
    /\ Statuses
    /\ reading = "none"
    /\ reading' = config
    /\ seen' \in {seen, "recent"}
    /\ UNCHANGED <<lock, switch, registry, asked, count, config, check, server, watchFile, limits,
                   action, ledger>> /\ SameWindow

StatusReply ==
    /\ reading # "none"
    /\ reading' = "none"
    /\ UNCHANGED <<lock, switch, registry, asked, count, config, check, server, seen, watchFile,
                   limits, action, ledger>> /\ SameWindow

\* Seeded fault: the server is told only after the reply was sent.
OnlyIfSent(sent) == sent

\* Handler.handle: "finally", whether the reply could be sent or not.
AfterReply(sent) == TRUE

\* The handler of a stop sends its reply, outside the lock; the requester may
\* have hung up.  The socket's time limit ends the call in either case.
Answer ==
    /\ run = "up"
    /\ answering
    /\ answering' = FALSE
    /\ \E sent \in BOOLEAN : closing' = (closing \/ AfterReply(sent))
    /\ UNCHANGED <<lock, switch, registry, asked, count, config, check, run, stopping, watch,
                   limits, action, ledger>> /\ SameWindow

\* The handler of any other request answers while the daemon is stopping.
AnswerOther ==
    /\ run = "up"
    /\ stopping /\ ~closing
    /\ \E sent \in BOOLEAN : closing' = AfterReply(sent)
    /\ UNCHANGED <<lock, switch, registry, asked, count, config, check, run, stopping, answering,
                   watch, limits, action, ledger>> /\ SameWindow

-----------------------------------------------------------------------------
(* The tamper check. *)

\* The watched file is read outside the lock.  The loop looks at `stopping'
\* before it sleeps, so a check may still follow.
TamperRead ==
    /\ run = "up"
    /\ Watched
    /\ theirs = "none"
    /\ theirs' = watchFile
    /\ UNCHANGED <<lock, switch, registry, asked, count, config, strikes, acted, server, watch,
                   limits, action, ledger>> /\ SameWindow

\* `theirs' is forgotten: the next check reads again.
Found == (Watched /\ theirs # config) \/ seen = "longAgo"

\* Seeded fault: one finding is enough.
OneStrike(n) == n >= 1

\* "One gap is never enough": act on the second check in a row, once.
EnoughStrikes(n) == n >= 2

TamperCut == Found /\ EnoughStrikes(strikes + 1) /\ ~acted /\ action # "off"

CheckTamper ==
    /\ Free
    /\ Watched => theirs # "none"
    /\ theirs' = "none"
    /\ strikes' = IF ~Found THEN 0 ELSE IF strikes = 2 THEN 2 ELSE strikes + 1
    /\ acted' = (Found /\ (acted \/ TamperCut))
    /\ IF TamperCut /\ config \notin DryRun \cup {NoConfig} THEN Recorded ELSE UNCHANGED ledger
    /\ UNCHANGED <<lock, switch, registry, asked, count, config, server, watch, limits, action>>
    /\ NextWindow

-----------------------------------------------------------------------------
(* Outside: kills, restarts, edits, time. *)

LoseMemory ==
    /\ state' = saved
    /\ pending' = {} /\ owner' = [i \in {} |-> "none"]
    /\ Done
    /\ stopping' = FALSE /\ answering' = FALSE /\ closing' = FALSE
    /\ strikes' = 0 /\ acted' = FALSE /\ seen' = "never"
    /\ theirs' = "none" /\ reading' = "none"

Crash ==
    /\ run = "up"
    /\ crashes < MaxCrashes
    /\ crashes' = crashes + 1
    /\ run' = "down"
    /\ LoseMemory
    /\ UNCHANGED <<switch, saved, nextId, count, config, watchFile, failures, action, ledger>>
    /\ SameWindow

\* serve_forever returns; whatever another thread is doing dies with the process.
Shutdown ==
    /\ run = "up"
    /\ closing
    /\ run' = "stopped"
    /\ LoseMemory
    /\ UNCHANGED <<switch, saved, nextId, count, config, watchFile, limits, action, ledger>>
    /\ SameWindow

Restart ==
    /\ run # "up"
    /\ run' = "up"
    /\ UNCHANGED <<lock, switch, registry, asked, count, config, check, stopping, answering,
                   closing, watch, limits, action, ledger>>
    /\ FirstWindow

EditWatchFile(c) ==
    /\ Watched
    /\ watchFile' = c
    /\ UNCHANGED <<lock, switch, registry, asked, count, config, check, server, seen, reading,
                   limits, action, ledger>>
    /\ SameWindow

\* The grace period passes without a status request of the watch.
FallSilent ==
    /\ seen = "recent"
    /\ seen' = "longAgo"
    /\ UNCHANGED <<lock, switch, registry, asked, count, config, check, server, reading, watchFile,
                   limits, action, ledger>> /\ SameWindow

-----------------------------------------------------------------------------

Act ==
    \/ ActRestore \/ ActKeys \/ ActAuto \/ ActTamperSet \/ ActStop
    \/ ReadStaged \/ Install \/ AutoOff

Request ==
    \/ \E u \in Uids, o \in AdminOps : \E a \in ArgsOf(o) : Challenge(u, o, a)
    \/ \E r \in pending, k \in Keys : Submit(r, k)
    \/ \E r \in pending : SubmitExpired(r)
    \/ \E k \in Keys : BootstrapKey(k)
    \/ Cut \/ StatusRead \/ StatusReply \/ Answer \/ AnswerOther

World ==
    \/ Crash \/ Shutdown \/ Restart \/ FallSilent
    \/ \E c \in Configs \cup {"unreadable"} : EditWatchFile(c)

Next == Request \/ Apply \/ Act \/ TamperRead \/ CheckTamper \/ World

Spec == Init /\ [][Next]_vars

\* A handler that holds the lock runs on, the stop's handler answers, and a
\* server that was told to shuts down.  Nothing makes another request come.
FairSpec == Spec /\ WF_vars(Apply \/ Act) /\ WF_vars(Answer) /\ WF_vars(Shutdown)

-----------------------------------------------------------------------------
(* Properties. *)

(***************************************************************************)
(* "an old, unused signature can't act on a later state": when an approval *)
(* acts, no other has acted since it was issued, the switch is written for *)
(* the configuration and a restore undoes the ledger of that moment.       *)
(***************************************************************************)
ActsOnIssuedState ==
    step = "act" =>
        /\ acts = cur.at.acts + 1
        /\ cur.op \in AutoOps => config = cur.at.config
        /\ cur.op = "restore" => ledger = cur.at.ledger

(***************************************************************************)
(* However the daemon died or failed to write, a cut is only carried out   *)
(* for automatic assets that are exactly those auto-cut was turned on for. *)
(***************************************************************************)
PolicyCovered ==
    CutAllowed => covered # "none" /\ PolicyOf[config] = PolicyOf[covered]

(***************************************************************************)
(* A configuration is only replaced by the very content that was signed,   *)
(* even if the staged file is edited while the daemon installs it, by an   *)
(* approval that is used up on disk (a restart cannot repeat it) and since *)
(* whose issue no other has acted.                                         *)
(***************************************************************************)
ConfigIsSigned ==
    [][config' # config =>
         /\ cur.op = "config_set" /\ config' = cur.arg
         /\ cur.id \in saved.used
         /\ acts = cur.at.acts + 1]_vars

(***************************************************************************)
(* Whatever is approved in whatever order, and whatever fails, a registry  *)
(* with a key on disk never becomes one without.                           *)
(***************************************************************************)
AuthorityStays == [][saved.keys # {} => saved'.keys # {}]_vars

(***************************************************************************)
(* "a uid only ever displaces its own requests": whatever `owner' still    *)
(* holds of requests long submitted or displaced, what makes room for a    *)
(* new request was asked for by the same uid, which had asked for its full *)
(* share since.                                                            *)
(***************************************************************************)
OnlyOwnDisplaced ==
    [][\A r \in pending \ pending' :
         nextId' # nextId =>
           /\ \E s \in pending' \ pending : s.uid = r.uid
           /\ Cardinality({s \in pending : s.uid = r.uid /\ s.id > r.id}) >= PendingPerUid - 1]_vars

(***************************************************************************)
(* The status request reads two files without the lock.  If it reports     *)
(* auto-cut as on, there was a moment since it began when it was on.       *)
(***************************************************************************)
StatusOnWasOn == reading # "none" /\ ShownOn(reading, perm) => wasOn

(***************************************************************************)
(* "One gap is never enough": although the watched file is read before the *)
(* lock is waited for, a tamper cut means that the file really differed,   *)
(* or the watch was really silent, in both of the last two periods.        *)
(***************************************************************************)
TamperCutIsReal == [][CheckTamper /\ TamperCut => differed /\ before]_vars

(***************************************************************************)
(* "an approved stop completes even if the requester hung up" (Handler):   *)
(* once it is acted on, the daemon ends, whether its reply could be sent   *)
(* or not and whatever others ask meanwhile.                               *)
(***************************************************************************)
StopCompletes == stopping \/ (step = "act" /\ cur.op = "stop") ~> run # "up"
=============================================================================
