---------------------------- MODULE EgressApproval ----------------------------
(***************************************************************************)
(* The egress approval engine (egress/engine.py): it judges the shape of a *)
(* send, has the enforcer hold a destination, asks an approver once per    *)
(* batch of holds, opens what was signed for, and closes it again.  One    *)
(* process; time is given to it.                                           *)
(*                                                                         *)
(* Times are kept as what is left of a deadline or as an age that stops at *)
(* the limit it is compared with, so that time itself has no bound.  The   *)
(* approver signs whatever is asked.  A submission that is denied, and a   *)
(* send that is only reported, change nothing and are not actions.  The    *)
(* enforcer may fail, which leaves its rules as they were; a write of the  *)
(* state file may fail, the file may become unreadable, and the engine may *)
(* be restarted at any moment.                                             *)
(***************************************************************************)
EXTENDS Integers, FiniteSets

CONSTANTS
    Dests,          \* destinations, "host:port"; not loopback, which always matches
    Entries,        \* allow-list entries
    Covers,         \* [Entries -> destinations the entry matches]
    Keys,           \* approver keys
    Data,           \* protected data ids
    Sizes,          \* bytes of one send
    Threshold,      \* BYTES_THRESHOLD
    BundleWindow, MinBatchInterval, ResponseTtl, GrantTtl, TaintWindow,
    RecoveryWait, NoticeEvery,
    MaxListed,      \* bound: times one entry is listed
    MaxRequests,    \* bound: requests issued, at most
    Environments    \* how behaviours start and what may happen in them: see `env'

ConfigOps == {"allow_add", "allow_remove", "protect_add", "protect_remove", "key_add", "key_remove",
              "disable"}
LocalOps == {"setup_allow", "setup_protect", "bootstrap_key", "ack_single_key", "enable",
             "recovery_start"}

NoRecovery == -1
States == [on : BOOLEAN, keys : SUBSET Keys, allow : [Entries -> 0..MaxListed],
           protect : [Data -> 0..MaxListed], used : SUBSET (1..MaxRequests), ack : BOOLEAN,
           recovery : NoRecovery..RecoveryWait]

ASSUME ConstantsAssumption ==
    /\ IsFiniteSet(Dests) /\ IsFiniteSet(Keys)
    /\ Covers \in [Entries -> SUBSET Dests]
    /\ Sizes \subseteq Nat \ {0}
    /\ {Threshold, BundleWindow, MinBatchInterval, ResponseTtl, TaintWindow, RecoveryWait, NoticeEvery,
        MaxRequests} \subseteq Nat
    /\ MaxListed \in Nat \ {0}
    /\ GrantTtl \in Nat /\ GrantTtl > ResponseTtl
    /\ \A e \in Environments :
        /\ e.from \in States
        /\ e.from.on /\ ~e.from.ack => Cardinality(e.from.keys) >= 2
        /\ e.ops \subseteq ConfigOps \cup LocalOps
        /\ e.sends \subseteq Dests
        /\ e.server \in BOOLEAN
        /\ e.requests \in 0..MaxRequests
        /\ {e.failures, e.restarts} \subseteq Nat

VARIABLES
    st,           \* state: what the state file holds
    invalid,      \* state_invalid
    pending,      \* ids of the requests not yet answered
    grants, held, unheld, taint, batch,
    sinceBatch,   \* age of last_batch
    sinceNotice,  \* age of last_recovery_notice
    saved,        \* the state file
    broken,       \* it cannot be read
    requests,     \* every request issued, by id
    left,         \* what is left of its response time; -1 when it has expired
    nextId,
    blocked,      \* destinations the enforcer closes
    env,          \* the state file the engine starts from, the form, and what happens to it
    failures, restarts,   \* counters
    \* history: only the properties read it
    forgotten,    \* destinations blocked when a restart lost the record of it
    lost,         \* was the registry ever lost with the file?
    applied,      \* ids of the approvals acted on
    signed, sent, \* bytes approved, and bytes passed under approvals
    quiet         \* age of the last recovery start or signed change on file

file == <<saved, broken, invalid>>
gate == <<grants, held, unheld, blocked>>
asked == <<requests, left, nextId>>
ages == <<taint, sinceBatch, sinceNotice>>
counters == <<failures, restarts, env>>
history == <<forgotten, lost, applied, signed, sent, quiet>>
vars == <<st, pending, batch, file, gate, asked, ages, counters, history>>

Fresh == [on |-> FALSE, keys |-> {}, allow |-> [e \in Entries |-> 0], protect |-> [p \in Data |-> 0],
          used |-> {}, ack |-> FALSE, recovery |-> NoRecovery]
NoGrant == [on |-> FALSE, left |-> 0, bytes |-> 0]
NoBatch == [open |-> FALSE, age |-> 0, bytes |-> [d \in Dests |-> 0]]
Unissued == [op |-> "none", arg |-> "-", bytes |-> [d \in Dests |-> 0]]

ArgsOf(op) ==
    IF op \in {"allow_add", "allow_remove"} THEN Entries
    ELSE IF op \in {"protect_add", "protect_remove"} THEN Data
    ELSE IF op = "disable" THEN {"-"} ELSE Keys

-----------------------------------------------------------------------------
(* Judging a send.                                                         *)

Match(d, entries) == \E e \in entries : d \in Covers[e]
Listed(s) == {e \in Entries : s.allow[e] > 0}
Tainted == \E p \in Data : taint[p] > 0
Closed == held \cup unheld \cup {d \in Dests : grants[d].on}

\* Is a send of n bytes to d shaped like exfiltration?
Classify(d, n) ==
    /\ ~Match(d, Listed(st))
    /\ \/ env.server
       \/ Tainted
       \/ n >= Threshold
       \/ d \in Closed

KeyFloor == st.on /\ ~st.ack /\ Cardinality(st.keys) <= 2

-----------------------------------------------------------------------------
(* Parts of the actions.                                                   *)

Failing(n) ==
    /\ failures + n <= env.failures
    /\ failures' = failures + n
    /\ UNCHANGED <<restarts, env>>

\* The state becomes s; _save writes it, or raises (ok = FALSE).
Record(s, ok) ==
    /\ st' = s
    /\ IF ok THEN saved' = s /\ broken' = FALSE /\ invalid' = FALSE
             ELSE UNCHANGED file

\* _release of ds succeeds.
Reopen(ds) ==
    /\ held' = held \ ds
    /\ unheld' = unheld \ ds
    /\ grants' = [d \in Dests |-> IF d \in ds THEN NoGrant ELSE grants[d]]
    /\ blocked' = blocked \ ds

Issue(r) ==
    /\ nextId <= env.requests
    /\ requests' = [requests EXCEPT ![nextId] = r]
    /\ left' = [left EXCEPT ![nextId] = ResponseTtl]
    /\ nextId' = nextId + 1

Failures(ok) == IF ok THEN 0 ELSE 1

Init ==
    /\ env \in Environments
    /\ st = env.from /\ saved = env.from
    /\ broken = FALSE /\ invalid = FALSE
    /\ grants = [d \in Dests |-> NoGrant]
    /\ held = {} /\ unheld = {} /\ blocked = {} /\ pending = {}
    /\ batch = NoBatch
    /\ taint = [p \in Data |-> 0]
    /\ sinceBatch = MinBatchInterval
    /\ sinceNotice = NoticeEvery
    /\ requests = [i \in 1..MaxRequests |-> Unissued]
    /\ left = [i \in 1..MaxRequests |-> 0]
    /\ nextId = 1
    /\ failures = 0 /\ restarts = 0
    /\ forgotten = {} /\ applied = {} /\ lost = FALSE
    /\ signed = [d \in Dests |-> 0] /\ sent = [d \in Dests |-> 0]
    /\ quiet = IF st.recovery = NoRecovery THEN 0 ELSE st.recovery

-----------------------------------------------------------------------------
(* Local set-up, without a signature.                                      *)

\* A local change s of the state, written or raising.
Local(op, s, ok) ==
    /\ op \in env.ops
    /\ Failing(Failures(ok))
    /\ Record(s, ok)
    /\ UNCHANGED <<pending, batch, gate, asked, ages, forgotten, lost, applied, signed, sent>>

SetupAllow(e, ok) ==
    /\ ~st.on
    /\ st.allow[e] < MaxListed
    /\ Local("setup_allow", [st EXCEPT !.allow[e] = @ + 1], ok)
    /\ UNCHANGED quiet

SetupProtect(p, ok) ==
    /\ ~st.on
    /\ st.protect[p] < MaxListed
    /\ Local("setup_protect", [st EXCEPT !.protect[p] = @ + 1], ok)
    /\ UNCHANGED quiet

BootstrapKey(k, ok) ==
    /\ st.keys = {} /\ ~invalid
    /\ Local("bootstrap_key", [st EXCEPT !.keys = {k}], ok)
    /\ UNCHANGED quiet

AckSingleKey(ok) ==
    /\ ~st.on
    /\ Local("ack_single_key", [st EXCEPT !.ack = TRUE], ok)
    /\ UNCHANGED quiet

Enable(ok) ==
    /\ st.keys # {}
    /\ Cardinality(st.keys) >= 2 \/ st.ack
    /\ Local("enable", [st EXCEPT !.on = TRUE], ok)
    /\ UNCHANGED quiet

-----------------------------------------------------------------------------
(* Requests and signed submissions.                                        *)

RequestConfig(op, arg) ==
    /\ op \in env.ops
    /\ op = "key_remove" => ~KeyFloor
    /\ Issue([Unissued EXCEPT !.op = op, !.arg = arg])
    /\ pending' = pending \cup {nextId}
    /\ UNCHANGED <<st, batch, file, gate, ages, counters, history>>

SubmitExpired(i) ==
    /\ i \in pending
    /\ left[i] < 0
    /\ pending' = pending \ {i}
    /\ UNCHANGED <<st, batch, file, gate, asked, ages, counters, history>>

\* Seeded fault: a submission neither takes its request away nor is looked up.
AcceptedAgain(i) == i \in pending /\ left[i] >= 0 /\ st.keys # {} /\ pending' = pending

\* What submit checks before it acts, and the state with the replay ledger.
Accepted(i) ==
    /\ i \in pending \ st.used
    /\ left[i] >= 0
    /\ st.keys # {}
    /\ requests[i].op = "key_remove" => ~KeyFloor
    /\ pending' = pending \ {i}

Used(i) == [st EXCEPT !.used = {j \in @ : left[j] >= 0} \cup {i}]

\* The replay ledger cannot be written: the approval is gone and nothing is done.
SubmitUnrecorded(i) ==
    /\ Accepted(i)
    /\ Failing(1)
    /\ Record(Used(i), FALSE)
    /\ UNCHANGED <<batch, gate, asked, ages, history>>

\* _apply of an egress approval.  `fail' are the listed destinations whose
\* release fails; the enforcer may raise at the `opening' of one of the
\* others, when those of `rest' are not reached.
SubmitEgress(i, fail, opening, rest) ==
    LET dests == {d \in Dests : requests[i].bytes[d] > 0}
        listed == {d \in dests : Match(d, Listed(st))} \ rest
        given == dests \ (listed \cup rest)
        max == CHOOSE n \in {requests[i].bytes[d] : d \in dests} \cup {Threshold} :
                   n >= Threshold /\ \A d \in dests : n >= requests[i].bytes[d]
        grant == [on |-> TRUE, left |-> left[i] + GrantTtl - ResponseTtl, bytes |-> max]
        freed == (listed \cap Closed) \ fail
        opened == given \ opening
    IN  /\ requests[i].op = "egress"
        /\ Accepted(i)
        /\ fail \subseteq listed \cap Closed
        /\ opening \subseteq given /\ rest \subseteq dests
        /\ Cardinality(opening) <= 1
        /\ opening = {} => rest = {}
        /\ Failing(Cardinality(fail) + Cardinality(opening))
        /\ Record(Used(i), TRUE)
        /\ held' = held \ (freed \cup opened)
        /\ unheld' = unheld \ freed
        /\ grants' = [d \in Dests |-> IF d \in given THEN grant
                                       ELSE IF d \in freed THEN NoGrant ELSE grants[d]]
        /\ blocked' = blocked \ (freed \cup opened)
        /\ applied' = applied \cup {i}
        /\ signed' = [d \in Dests |-> signed[d] + IF d \in given /\ i \notin applied THEN max ELSE 0]
        /\ UNCHANGED <<batch, asked, ages, forgotten, lost, sent, quiet>>

\* Seeded fault: a signed change leaves the recovery running.
NotCancelled(s) == s

Cancelled(s) == [s EXCEPT !.recovery = NoRecovery]

\* What a signed change makes of state s, and the destinations it releases.
Changed(op, arg, s) ==
    LET t == CASE op = "allow_add" -> [s EXCEPT !.allow[arg] = IF @ = 0 THEN 1 ELSE @]
               [] op = "allow_remove" -> [s EXCEPT !.allow[arg] = IF @ = 0 THEN 0 ELSE @ - 1]
               [] op = "protect_add" -> [s EXCEPT !.protect[arg] = IF @ = 0 THEN 1 ELSE @]
               [] op = "protect_remove" -> [s EXCEPT !.protect[arg] = IF @ = 0 THEN 0 ELSE @ - 1]
               [] op = "key_add" -> [s EXCEPT !.keys = @ \cup {arg}]
               [] op = "key_remove" ->
                    [s EXCEPT !.keys = IF Cardinality(@) > 1 THEN @ \ {arg} ELSE @]
               [] op = "disable" -> [s EXCEPT !.on = FALSE]
    IN  Cancelled(t)

Opened(op, arg) ==
    CASE op = "allow_add" -> {d \in Closed : Match(d, {arg})}
      [] op = "disable" -> Closed
      [] op \notin {"allow_add", "disable"} -> {}

\* _apply of a change; ok: the state is written.
SubmitConfig(i, fail, ok) ==
    LET r == requests[i]
    IN  /\ r.op \in ConfigOps
        /\ Accepted(i)
        /\ fail \subseteq Opened(r.op, r.arg)
        /\ Failing(Cardinality(fail) + Failures(ok))
        /\ Reopen(Opened(r.op, r.arg) \ fail)
        /\ st' = Changed(r.op, r.arg, Used(i))
        /\ saved' = IF ok THEN st' ELSE Used(i)
        /\ broken' = FALSE /\ invalid' = FALSE
        /\ applied' = applied \cup {i}
        /\ quiet' = IF ok THEN 0 ELSE quiet
        /\ UNCHANGED <<batch, asked, ages, forgotten, lost, signed, sent>>

-----------------------------------------------------------------------------
(* Recovery when every approver key is lost.                               *)

RecoveryStart(ok) ==
    /\ "recovery_start" \in env.ops
    /\ Failing(Failures(ok))
    /\ Record([st EXCEPT !.recovery = 0], ok)
    /\ sinceNotice' = IF ok THEN 0 ELSE sinceNotice
    /\ quiet' = IF ok THEN 0 ELSE quiet
    /\ UNCHANGED <<pending, batch, gate, asked, taint, sinceBatch, forgotten, lost, applied, signed, sent>>

RecoveryComplete(fail, ok) ==
    /\ st.recovery = RecoveryWait
    /\ fail \subseteq Closed
    /\ fail # {} => ok
    /\ Failing(Cardinality(fail) + Failures(ok))
    /\ Reopen(Closed \ fail)
    /\ IF fail # {} THEN UNCHANGED <<st, file>>
       ELSE Record([st EXCEPT !.keys = {}, !.on = FALSE, !.recovery = NoRecovery, !.ack = FALSE], ok)
    /\ UNCHANGED <<pending, batch, asked, ages, history>>

-----------------------------------------------------------------------------
(* Sends.                                                                  *)

NoteProtectedTouch(p) ==
    /\ st.protect[p] > 0
    /\ taint' = [taint EXCEPT ![p] = TaintWindow]
    /\ UNCHANGED <<st, pending, batch, file, gate, asked, sinceBatch, sinceNotice, counters, history>>

Approved(d, n) == grants[d].on /\ grants[d].left > 0 /\ grants[d].bytes >= n

\* observe: passed, and metered, under an approval.
Meter(d, n) ==
    /\ d \in env.sends
    /\ Classify(d, n) /\ st.on
    /\ Approved(d, n)
    /\ grants' = [grants EXCEPT ![d].bytes = @ - n]
    /\ sent' = [sent EXCEPT ![d] = @ + n]
    /\ UNCHANGED <<st, pending, batch, file, held, unheld, blocked, asked, ages, counters, forgotten,
                   lost, applied, signed, quiet>>

\* observe: held, and added to the batch.
Hold(d, n) ==
    /\ d \in env.sends
    /\ Classify(d, n) /\ st.on
    /\ ~Approved(d, n)
    /\ held' = held \cup {d}
    /\ unheld' = IF d \in held THEN unheld ELSE unheld \ {d}
    /\ blocked' = IF d \in held THEN blocked ELSE blocked \cup {d}
    /\ grants' = [grants EXCEPT ![d] = NoGrant]
    /\ batch' = [open |-> TRUE, age |-> batch.age,
                 bytes |-> [batch.bytes EXCEPT ![d] = IF @ >= n THEN @ ELSE n]]
    /\ UNCHANGED <<st, pending, file, asked, ages, counters, history>>

\* Seeded fault: the hold is recorded before the enforcer answers.
HoldRecordedFirst(d, n) ==
    /\ d \in env.sends \ held
    /\ Classify(d, n) /\ st.on
    /\ Failing(1)
    /\ held' = held \cup {d}
    /\ UNCHANGED <<st, pending, batch, file, grants, unheld, blocked, asked, ages, history>>

HoldFails(d, n) ==
    /\ d \in env.sends \ held
    /\ Classify(d, n) /\ st.on
    /\ ~Approved(d, n)
    /\ Failing(1)
    /\ unheld' = unheld \cup {d}
    /\ UNCHANGED <<st, pending, batch, file, grants, held, blocked, asked, ages, history>>

-----------------------------------------------------------------------------
(* tick: seal the batch into one request, expire what was not answered,    *)
(* retry the releases that failed, close the grants that ended, remind of  *)
(* a recovery.  `fail' are the destinations the enforcer fails on.         *)

Seals == batch.open /\ batch.age = BundleWindow /\ sinceBatch = MinBatchInterval /\ nextId <= env.requests

\* Seeded fault: failed releases are retried only while ON.
ToReleaseOn == {d \in Closed : st.on /\ Match(d, Listed(st))}

ToRelease == IF st.on THEN {d \in Closed : Match(d, Listed(st))} ELSE Closed
ToClose ==
    {d \in Dests : st.on /\ grants[d].on /\ grants[d].left = 0 /\ ~Match(d, Listed(st))}

Tick(fail) ==
    LET freed == ToRelease \ fail
        closing == ToClose \ fail
    IN  /\ fail \subseteq ToRelease \cup ToClose
        /\ Failing(Cardinality(fail))
        /\ IF Seals
           THEN /\ Issue([Unissued EXCEPT !.op = "egress", !.bytes = batch.bytes])
                /\ batch' = NoBatch /\ sinceBatch' = 0
           ELSE UNCHANGED <<asked, batch, sinceBatch>>
        /\ pending' = {i \in pending : left[i] >= 0} \cup (IF Seals THEN {nextId} ELSE {})
        /\ held' = (held \ freed) \cup closing
        /\ unheld' = unheld \ freed
        /\ grants' = [d \in Dests |-> IF d \in freed \cup closing THEN NoGrant ELSE grants[d]]
        /\ blocked' = (blocked \ freed) \cup closing
        /\ sinceNotice' = IF st.recovery # NoRecovery /\ sinceNotice = NoticeEvery THEN 0 ELSE sinceNotice
        /\ UNCHANGED <<st, file, taint, history>>

-----------------------------------------------------------------------------
(* Time, and what happens to the engine from outside.                      *)

Less(n, floor) == IF n > floor THEN n - 1 ELSE floor
More(n, limit) == IF n < limit THEN n + 1 ELSE limit
Older(s) ==
    [s EXCEPT !.recovery = IF @ = NoRecovery THEN NoRecovery ELSE More(@, RecoveryWait)]

Advance ==
    /\ left' = [i \in 1..MaxRequests |-> IF i < nextId THEN Less(left[i], -1) ELSE 0]
    /\ grants' = [d \in Dests |-> [grants[d] EXCEPT !.left = Less(@, 0)]]
    /\ taint' = [p \in Data |-> Less(taint[p], 0)]
    /\ batch' = IF batch.open THEN [batch EXCEPT !.age = More(@, BundleWindow)] ELSE batch
    /\ sinceBatch' = More(sinceBatch, MinBatchInterval)
    /\ sinceNotice' = More(sinceNotice, NoticeEvery)
    /\ st' = Older(st)
    /\ saved' = Older(saved)
    /\ quiet' = More(quiet, RecoveryWait)
    /\ UNCHANGED <<pending, broken, invalid, held, unheld, blocked, requests, nextId, counters,
                   forgotten, lost, applied, signed, sent>>

\* The file can no longer be read.
Corrupt ==
    /\ ~broken
    /\ Failing(1)
    /\ broken' = TRUE
    /\ UNCHANGED <<st, pending, batch, saved, invalid, gate, asked, ages, history>>

\* The engine ends, or is killed, and starts again: only the file is left.
Restart ==
    /\ restarts < env.restarts
    /\ restarts' = restarts + 1
    /\ st' = IF broken THEN [Fresh EXCEPT !.on = TRUE] ELSE saved
    /\ invalid' = broken
    /\ pending' = {} /\ batch' = NoBatch
    /\ grants' = [d \in Dests |-> NoGrant]
    /\ held' = {} /\ unheld' = {}
    /\ taint' = [p \in Data |-> 0]
    /\ sinceBatch' = MinBatchInterval /\ sinceNotice' = NoticeEvery
    /\ forgotten' = forgotten \cup blocked
    /\ lost' = (lost \/ broken)
    /\ UNCHANGED <<saved, broken, blocked, asked, failures, env, applied, signed, sent,
                   quiet>>

SetUp ==
    \E ok \in BOOLEAN :
        \/ \E e \in Entries : SetupAllow(e, ok)
        \/ \E p \in Data : SetupProtect(p, ok)
        \/ \E k \in Keys : BootstrapKey(k, ok)
        \/ AckSingleKey(ok)
        \/ Enable(ok)

Recover ==
    \E ok \in BOOLEAN :
        \/ RecoveryStart(ok)
        \/ \E fail \in SUBSET Dests : RecoveryComplete(fail, ok)

Ask == \E op \in ConfigOps : \E arg \in ArgsOf(op) : RequestConfig(op, arg)

Submit ==
    \E i \in 1..MaxRequests :
        \/ SubmitExpired(i)
        \/ SubmitUnrecorded(i)
        \/ \E fail, opening, rest \in SUBSET Dests : SubmitEgress(i, fail, opening, rest)
        \/ \E fail \in SUBSET Dests, ok \in BOOLEAN : SubmitConfig(i, fail, ok)

Observe ==
    \/ \E d \in Dests, n \in Sizes : Meter(d, n) \/ Hold(d, n) \/ HoldFails(d, n)
    \/ \E p \in Data : NoteProtectedTouch(p)

Ticks == \E fail \in SUBSET Dests : Tick(fail)

Next == SetUp \/ Recover \/ Ask \/ Submit \/ Observe \/ Ticks \/ Advance \/ Corrupt \/ Restart

(***************************************************************************)
(* The host calls tick over and over, and time passes.  Nobody is held to  *)
(* answer a request.  A tick on which the enforcer fails is a tick too:    *)
(* the bound on failures is what makes a retry succeed.                    *)
(***************************************************************************)
Fairness == WF_vars(Ticks) /\ WF_vars(Advance)

Spec == Init /\ [][Next]_vars /\ Fairness

-----------------------------------------------------------------------------
(* Properties.                                                             *)

Grant == [on : BOOLEAN, left : 0..GrantTtl, bytes : Nat]

TypeOK ==
    /\ env \in Environments
    /\ {st, saved} \subseteq States
    /\ {broken, invalid, lost} \subseteq BOOLEAN
    /\ grants \in [Dests -> Grant]
    /\ {held, unheld, blocked, forgotten} \subseteq SUBSET Dests
    /\ {pending, applied} \subseteq SUBSET (1..MaxRequests)
    /\ batch \in [open : BOOLEAN, age : 0..BundleWindow, bytes : [Dests -> Nat]]
    /\ taint \in [Data -> 0..TaintWindow]
    /\ sinceBatch \in 0..MinBatchInterval
    /\ sinceNotice \in 0..NoticeEvery
    /\ requests \in [1..MaxRequests -> [op : ConfigOps \cup {"egress", "none"},
                                        arg : Entries \cup Keys \cup Data \cup {"-"},
                                        bytes : [Dests -> Nat]]]
    /\ left \in [1..MaxRequests -> -1..ResponseTtl]
    /\ nextId \in 1..(MaxRequests + 1)
    /\ {signed, sent} \subseteq [Dests -> Nat]
    /\ quiet \in 0..RecoveryWait
    /\ failures \in 0..env.failures
    /\ restarts \in 0..env.restarts

(* What the engine takes for held is closed at the enforcer, and whatever  *)
(* the enforcer closes the engine has on record, so that a release reaches *)
(* it: engine.py keeps held, unheld and grants for that across failing     *)
(* enforcer calls.  Only a restart loses the record.                       *)
RecordsMatchEnforcer ==
    /\ held \subseteq blocked
    /\ blocked \subseteq Closed \cup forgotten

(* While approval is ON without the acknowledgement there are two approver *)
(* keys, on file as in memory, although removals are asked for before      *)
(* others are applied; unless the registry was lost with the file.         *)
TwoKeysKept ==
    \A s \in {st, saved} : s.on /\ ~s.ack => Cardinality(s.keys) >= 2 \/ lost

(* Nothing on file or in memory is further into a recovery than the last   *)
(* start, or the last signed change, on file is old.                       *)
RecoveryIsAged == st.recovery <= quiet /\ saved.recovery <= quiet

(* Ids are given once, and an approval that was acted on waits no longer.  *)
AskedOnce ==
    /\ \A i \in pending \cup applied : i < nextId
    /\ pending \cap applied = {}

(* A change is asked for with an argument of its kind.                     *)
ArgsFit ==
    \A i \in 1..MaxRequests :
        requests[i].op \in ConfigOps => requests[i].arg \in ArgsOf(requests[i].op)

(* The engine's invariant: its state is well formed, keeps two keys and    *)
(* agrees with the enforcer; it is inductive.                              *)
EngineInv ==
    TypeOK /\ TwoKeysKept /\ RecordsMatchEnforcer /\ RecoveryIsAged /\ AskedOnce /\ ArgsFit

(* Over all its approvals a destination is passed no more bytes than were  *)
(* signed for it, however sends, new approvals, expiry and restarts        *)
(* interleave: an approval counts once and is metered on every send.       *)
SpendsWithinSigned == \A d \in Dests : sent[d] + grants[d].bytes <= signed[d]

(* The registry is emptied by a recovery only when the whole wait has gone *)
(* by since the last start on file, and since the last signed change on    *)
(* file: a change with a key cancels a recovery for good, across restarts. *)
RecoveryIsQuiet ==
    [][st.keys # {} /\ st'.keys = {} /\ restarts' = restarts => quiet = RecoveryWait]_vars

(* Switched OFF, what the engine closed opens again, although releases     *)
(* fail on the way.                                                        *)
OffReopens == ~st.on ~> (st.on \/ blocked \subseteq forgotten)

(* A destination that is on the allow-list does not stay closed, although  *)
(* it was held, or approved with a deadline, before it was listed.         *)
ListedReopens ==
    \A d \in Dests :
        Match(d, Listed(st)) ~> (d \notin blocked \ forgotten \/ ~Match(d, Listed(st)))

(* A grant whose time is over does not stay open: a send, or the tick, has *)
(* it closed, and failing to is retried.                                   *)
GrantsEnd ==
    \A d \in Dests :
        (grants[d].on /\ grants[d].left = 0) ~> (~grants[d].on \/ grants[d].left > 0)

(* The enforcer ends up where approval is: what OFF, the allow-list or the *)
(* end of a grant asks of it is done, if not at once then by the tick.     *)
EnforcerFollows == OffReopens /\ ListedReopens /\ GrantsEnd
=============================================================================
