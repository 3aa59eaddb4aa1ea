-------------------------------- MODULE Watch --------------------------------
(***************************************************************************)
(* zee watch: the command (cli.py) seeds the decoys of every asset and     *)
(* starts a watcher thread for each (watcher/backend_*.py).  A thread      *)
(* reads what the kernel tells it about the decoys, runs the response      *)
(* (responder/sequence.py) for every event before it reads the next one,   *)
(* and registers a decoy again after it was deleted or renamed.  A cut is  *)
(* made in the process or asked of the cut daemon (privsep/client.py); a   *)
(* heartbeat thread asks that daemon for its status.                       *)
(*                                                                         *)
(* The kernel is external: inotify keeps a queue and follows the inode,    *)
(* and drops a watch with IN_IGNORED when the file is deleted, not when it *)
(* is renamed; kqueue merges what happened to an open file since it was    *)
(* attached; ReadDirectoryChangesW goes by name and keeps a buffer.  One   *)
(* operation on a file is one event.  What a cut does to the host is       *)
(* module Containment, and what the daemon does with a request Privsep.    *)
(***************************************************************************)
EXTENDS Integers, FiniteSets, Sequences, SequencesExt

CONSTANTS
    Assets, Paths,  \* protected assets, decoy files
    QueueMax,       \* events inotify queues, or a directory's buffer holds
    MaxNodes,       \* bound: files created, at most
    Environments    \* the host a behaviour runs on: see `env'

Backends == {"linux", "macos", "windows"}
Kinds == {"read", "attrib", "write", "delete", "move", "create"}

ASSUME WatchAssumption ==
    /\ IsFiniteSet(Paths)
    /\ QueueMax \in Nat \ {0} /\ MaxNodes \in Nat
    /\ \A e \in Environments :
        /\ e.backend \in Backends
        /\ e.assetOf \in [Paths -> Assets]
        /\ e.mode \in {"auto", "staged", "notify"}
        /\ {e.dryRun, e.privsep, e.interrupt} \subseteq BOOLEAN
        /\ e.kinds \subseteq Kinds /\ e.touched \subseteq Paths
        /\ {e.operations, e.failures, e.launches, e.outages} \subseteq Nat

VARIABLES
    at,         \* the file at a decoy's path; None when there is none
    away,       \* files that were renamed to somewhere else
    made,       \* number of files created so far
    owner,      \* the decoy a file was created as
    kernel,     \* per asset, the events waiting to be read
    reg,        \* _wd_to_path / _fds: by descriptor, the path, the file, and is it attached?
    pending,    \* _pending_rewatch
    pc,         \* where the thread is
    todo,       \* paths of this turn still to be registered again
    batch,      \* events read and not yet handled
    handler,    \* the response in progress
    phase,      \* of the command: "down", "on", "stopping"
    stop,       \* per watcher: "no", "asked", "done"
    daemon,     \* the cut daemon: "up", "down", "refusing", "stranger"
    flight,     \* the last request asked of the daemon: "none", "sent", "cut", "refused"
    up, told,   \* the heartbeat's last answer, and its last announcement
    env,        \* the host
    operations, failures, launches, outages,  \* counters
    \* history: only the properties read it
    done,       \* operations on the decoys, by kind
    notices,    \* notifications, by class
    unseen,     \* decoys with a change delivered and not yet notified
    gap,        \* decoys whose registration lost them in a known way
    cut,        \* did the request's cut happen?
    claim       \* what was last announced of a cut

files == <<at, away, made, owner>>
watcher == <<reg, pending>>
thread == <<pc, todo, batch, handler>>
command == <<phase, stop>>
service == <<daemon, flight, up, told>>
counters == <<operations, failures, launches, outages, env>>
history == <<done, notices, unseen, gap, cut, claim>>
vars == <<files, kernel, watcher, thread, command, service, counters, history>>

None == 0
NoHandler == [step |-> "none", path |-> None, class |-> "-", key |-> 0, mask |-> {}]
Overflow == [key |-> 0, mask |-> {}]

Linux == env.backend = "linux"
MacOS == env.backend = "macos"
Windows == env.backend = "windows"

Decoys(a) == {p \in Paths : env.assetOf[p] = a}
Fails == failures < env.failures /\ failures' = failures + 1

-----------------------------------------------------------------------------
(* The kernel's side.                                                      *)

\* The kinds of operation a backend asks the kernel for.
DecoyMask == Kinds \ {"attrib", "create"}
NoteMask == Kinds \ {"read", "create"}
ChangeMask == Kinds  \* reading updates the time of the last access

Heard(kind) ==
    kind \in IF Linux THEN DecoyMask ELSE IF MacOS THEN NoteMask ELSE ChangeMask

\* The descriptors an operation on file n, at path p, is delivered to.
Listening(a, p, n) ==
    {k \in DOMAIN reg[a] : reg[a][k].live /\ IF Windows THEN reg[a][k].path = p ELSE reg[a][k].file = n}

\* One event is added to those that wait.
Put(q, e) ==
    IF MacOS
    THEN LET same == {i \in 1..Len(q) : q[i].key = e.key}
         IN  IF same = {} THEN Append(q, e)
             ELSE [i \in 1..Len(q) |-> IF i \in same THEN [e EXCEPT !.mask = @ \cup q[i].mask] ELSE q[i]]
    ELSE IF q # <<>> /\ (Last(q) = Overflow \/ (Linux /\ Last(q) = e)) THEN q
    ELSE IF Len(q) < QueueMax THEN Append(q, e)
    ELSE IF Windows THEN <<Overflow>> ELSE Append(q, Overflow)

\* Closing a descriptor drops what waits of it: kqueue has one event of each.
Closed(q, k) ==
    LET waits == {i \in 1..Len(q) : q[i].key = k}
    IN  IF waits = {} THEN q ELSE RemoveAt(q, CHOOSE i \in waits : TRUE)

\* What a descriptor is told of an operation; inotify then ignores a deleted file.
Signal(q, kind, k) ==
    LET heard == Put(q, [key |-> k, mask |-> {kind}])
    IN  IF Linux /\ kind = "delete" THEN Put(heard, [key |-> k, mask |-> {"ignored"}]) ELSE heard

\* One descriptor is told after the other.
Signals(q, kind, keys) ==
    LET order == SetToSeq(keys)
        after[i \in 0..Cardinality(keys)] == IF i = 0 THEN q ELSE Signal(after[i - 1], kind, order[i])
    IN  after[Cardinality(keys)]

\* The kernel tells of an operation of this kind on file n, decoy p.
Deliver(kind, p, n) ==
    LET a == env.assetOf[p]
        keys == IF Heard(kind) THEN Listening(a, p, n) ELSE {}
        q == Signals(kernel[a], kind, keys)
        dropped == q # <<>> /\ Last(q) = Overflow
    IN  /\ kernel' = [kernel EXCEPT ![a] = q]
        /\ reg' = IF Linux /\ kind = "delete"
                  THEN [reg EXCEPT ![a] = [k \in DOMAIN @ |-> IF k \in keys THEN [@[k] EXCEPT !.live = FALSE]
                                                              ELSE @[k]]]
                  ELSE reg
        /\ unseen' = IF Windows /\ dropped THEN unseen \ Decoys(a)
                     ELSE IF keys # {} /\ ~dropped /\ kind \notin {"read", "attrib"}
                     THEN unseen \cup {p} ELSE unseen
        /\ gap' = IF Linux /\ keys # {} /\ (kind = "move" \/ (kind = "delete" /\ dropped))
                  THEN gap \cup {p} ELSE gap
        /\ done' = [done EXCEPT ![p][kind] = @ + 1]

-----------------------------------------------------------------------------
(* What other programs do to the decoys.                                   *)

Operation(kind, p) ==
    /\ kind \in env.kinds /\ p \in env.touched
    /\ operations < env.operations
    /\ operations' = operations + 1
    /\ UNCHANGED <<pending, thread, command, service, failures, launches, outages, env, notices, cut, claim>>

Touch(p, kind) ==
    /\ kind \in {"read", "attrib", "write"}
    /\ at[p] # None
    /\ Operation(kind, p)
    /\ Deliver(kind, p, at[p])
    /\ UNCHANGED files

\* A decoy that was renamed is used where it is now.
TouchAway(n, kind) ==
    /\ kind \in {"read", "write"}
    /\ n \in away /\ ~Windows
    /\ Operation(kind, owner[n])
    /\ Deliver(kind, owner[n], n)
    /\ UNCHANGED files

Delete(p) ==
    /\ at[p] # None
    /\ Operation("delete", p)
    /\ Deliver("delete", p, at[p])
    /\ at' = [at EXCEPT ![p] = None]
    /\ UNCHANGED <<away, made, owner>>

Rename(p) ==
    /\ at[p] # None
    /\ Operation("move", p)
    /\ Deliver("move", p, at[p])
    /\ at' = [at EXCEPT ![p] = None]
    /\ away' = away \cup {at[p]}
    /\ UNCHANGED <<made, owner>>

RenameBack(n) ==
    /\ n \in away /\ at[owner[n]] = None
    /\ Operation("move", owner[n])
    /\ Deliver("move", owner[n], n)
    /\ at' = [at EXCEPT ![owner[n]] = n]
    /\ away' = away \ {n}
    /\ UNCHANGED <<made, owner>>

Create(p) ==
    /\ at[p] = None /\ made < MaxNodes
    /\ Operation("create", p)
    /\ Deliver("create", p, None)
    /\ made' = made + 1
    /\ at' = [at EXCEPT ![p] = made + 1]
    /\ owner' = [owner EXCEPT ![made + 1] = p]
    /\ UNCHANGED away

\* A new file is renamed over the decoy.
Replace(p) ==
    /\ at[p] # None /\ made < MaxNodes
    /\ Operation("delete", p)
    /\ Deliver("delete", p, at[p])
    /\ made' = made + 1
    /\ at' = [at EXCEPT ![p] = made + 1]
    /\ owner' = [owner EXCEPT ![made + 1] = p]
    /\ UNCHANGED away

-----------------------------------------------------------------------------
(* Starting.                                                               *)

Init ==
    /\ env \in Environments
    /\ at = [p \in Paths |-> None] /\ away = {} /\ made = 0
    /\ owner = [n \in 1..MaxNodes |-> CHOOSE p \in Paths : TRUE]
    /\ kernel = [a \in Assets |-> <<>>]
    /\ reg = [a \in Assets |-> <<>>] /\ pending = [a \in Assets |-> {}]
    /\ pc = [a \in Assets |-> "off"] /\ todo = [a \in Assets |-> {}]
    /\ batch = [a \in Assets |-> <<>>] /\ handler = [a \in Assets |-> NoHandler]
    /\ phase = "down" /\ stop = [a \in Assets |-> "no"]
    /\ daemon = "up" /\ flight = [a \in Assets |-> "none"]
    /\ up = "unknown" /\ told = "nothing"
    /\ operations = 0 /\ failures = 0 /\ launches = 0 /\ outages = 0
    /\ done = [p \in Paths |-> [k \in Kinds |-> 0]]
    /\ notices = [p \in Paths |-> [c \in {"read", "change"} |-> 0]]
    /\ unseen = {} /\ gap = {}
    /\ cut = [a \in Assets |-> FALSE] /\ claim = [a \in Assets |-> "nothing"]

Launch ==
    /\ phase = "down" /\ launches < env.launches
    /\ launches' = launches + 1
    /\ phase' = "on"
    /\ up' = "unknown" /\ told' = "nothing"
    /\ UNCHANGED <<files, kernel, watcher, thread, stop, daemon, flight, operations, failures, outages, env,
                   history>>

\* Everything of the process is gone: it ended or was killed.
Gone ==
    /\ kernel' = [a \in Assets |-> <<>>]
    /\ reg' = [a \in Assets |-> <<>>] /\ pending' = [a \in Assets |-> {}]
    /\ pc' = [a \in Assets |-> "off"] /\ todo' = [a \in Assets |-> {}]
    /\ batch' = [a \in Assets |-> <<>>] /\ handler' = [a \in Assets |-> NoHandler]
    /\ phase' = "down" /\ stop' = [a \in Assets |-> "no"]
    /\ unseen' = {} /\ gap' = {}
    /\ UNCHANGED <<files, service, operations, launches, outages, env, done, notices, cut, claim>>

\* seed_all: the assets are seeded and started one after the other.
Starting == {a \in Assets : pc[a] \in {"seeded", "opened"}}

Seed(a) ==
    LET missing == SetToSeq({p \in Decoys(a) : at[p] = None})
        file(p) == made + CHOOSE i \in 1..Len(missing) : missing[i] = p
    IN  /\ phase = "on" /\ pc[a] = "off" /\ Starting = {}
        /\ made + Len(missing) <= MaxNodes
        /\ at' = [p \in Paths |-> IF p \in ToSet(missing) THEN file(p) ELSE at[p]]
        /\ owner' = [n \in 1..MaxNodes |-> IF n \in made + 1..made + Len(missing) THEN missing[n - made]
                                           ELSE owner[n]]
        /\ made' = made + Len(missing)
        /\ pc' = [pc EXCEPT ![a] = "seeded"]
        /\ UNCHANGED <<away, kernel, watcher, todo, batch, handler, command, service, counters, history>>

AllThere(a) == \A p \in Decoys(a) : at[p] # None

\* One descriptor for each decoy of the asset.
Numbered(a, live) ==
    LET decoys == SetToSeq(Decoys(a))
    IN  [k \in 1..Len(decoys) |-> [path |-> decoys[k], file |-> at[decoys[k]], live |-> live]]

Started(a, registered, next) ==
    /\ pc[a] = "seeded" /\ AllThere(a)
    /\ reg' = [reg EXCEPT ![a] = registered]
    /\ pc' = [pc EXCEPT ![a] = next]
    /\ gap' = gap \ Decoys(a)
    /\ UNCHANGED <<files, kernel, pending, todo, batch, handler, command, service, counters, done, notices,
                   unseen, cut, claim>>

\* inotify numbers a watch by its file.
StartLinux(a) ==
    /\ Linux
    /\ Started(a, [n \in {at[p] : p \in Decoys(a)} |-> [path |-> owner[n], file |-> n, live |-> TRUE]], "wait")

\* kqueue: every decoy is opened before any is attached.
StartOpen(a) == MacOS /\ Started(a, Numbered(a, FALSE), "opened")

StartWindows(a) == Windows /\ Started(a, Numbered(a, TRUE), "wait")

Attached(r) == {r[k].path : k \in {x \in DOMAIN r : r[x].live /\ at[r[x].path] = r[x].file}}

StartAttach(a) ==
    /\ pc[a] = "opened"
    /\ reg' = [reg EXCEPT ![a] = [k \in DOMAIN @ |-> [@[k] EXCEPT !.live = TRUE]]]
    /\ pc' = [pc EXCEPT ![a] = "wait"]
    /\ gap' = gap \cup (Decoys(a) \ Attached(reg'[a]))
    /\ UNCHANGED <<files, kernel, pending, todo, batch, handler, command, service, counters, done, notices,
                   unseen, cut, claim>>

\* A decoy is gone between seeding and starting (Z302): the command ends.
StartFails(a) ==
    /\ pc[a] = "seeded"
    /\ ~AllThere(a)
    /\ Gone
    /\ UNCHANGED failures

-----------------------------------------------------------------------------
(* The loop of a watcher thread.                                           *)

Stopping(a) == stop[a] # "no"

\* The loop's head: end, or first register again what is pending.
Turn(a, paths) ==
    /\ pc' = [pc EXCEPT ![a] = IF Stopping(a) THEN "ended" ELSE IF paths # {} THEN "retry" ELSE "wait"]
    /\ todo' = [todo EXCEPT ![a] = IF Stopping(a) THEN {} ELSE paths]

\* The wait times out.
Idle(a) ==
    /\ pc[a] = "wait" /\ kernel[a] = <<>>
    /\ pending[a] # {} \/ Stopping(a)
    /\ Turn(a, pending[a])
    /\ UNCHANGED <<files, kernel, watcher, batch, handler, command, service, counters, history>>

\* A path was tried; after the last one the thread waits for events.
Tried(a, p) ==
    /\ todo' = [todo EXCEPT ![a] = @ \ {p}]
    /\ pc' = [pc EXCEPT ![a] = IF todo[a] = {p} THEN "wait" ELSE "retry"]

FreeKey(a) == CHOOSE k \in 1..Cardinality(DOMAIN reg[a]) + 1 :
                  k \notin DOMAIN reg[a] /\ \A j \in 1..k - 1 : j \in DOMAIN reg[a]

Entry(p, live) == [path |-> p, file |-> at[p], live |-> live]
WithKey(r, k, e) == [j \in DOMAIN r \cup {k} |-> IF j = k THEN e ELSE r[j]]

\* _try_reregister: the path is still missing, or the system refuses.
StillMissing(a, p) ==
    /\ pc[a] = "retry" /\ p \in todo[a]
    /\ IF at[p] = None THEN UNCHANGED failures ELSE Fails
    /\ Tried(a, p)
    /\ UNCHANGED <<files, kernel, watcher, batch, handler, command, service, operations, launches, outages,
                   env, history>>

Reregister(a, p) ==
    /\ Linux /\ pc[a] = "retry" /\ p \in todo[a] /\ at[p] # None
    /\ reg' = [reg EXCEPT ![a] = WithKey(@, at[p], Entry(p, TRUE))]
    /\ pending' = [pending EXCEPT ![a] = @ \ {p}]
    /\ gap' = gap \ {p}
    /\ Tried(a, p)
    /\ UNCHANGED <<files, kernel, batch, handler, command, service, counters, done, notices, unseen, cut, claim>>

\* kqueue: the file is opened, then attached.
ReregisterOpen(a, p) ==
    /\ MacOS /\ pc[a] = "retry" /\ p \in todo[a] /\ at[p] # None
    /\ reg' = [reg EXCEPT ![a] = WithKey(@, FreeKey(a), Entry(p, FALSE))]
    /\ handler' = [handler EXCEPT ![a] = [NoHandler EXCEPT !.path = p, !.key = FreeKey(a)]]
    /\ pc' = [pc EXCEPT ![a] = "attach"]
    /\ UNCHANGED <<files, kernel, pending, todo, batch, command, service, counters, history>>

ReregisterAttach(a) ==
    LET p == handler[a].path
        r == [reg[a] EXCEPT ![handler[a].key].live = TRUE]
    IN  /\ pc[a] = "attach"
        /\ reg' = [reg EXCEPT ![a] = r]
        /\ pending' = [pending EXCEPT ![a] = @ \ {p}]
        /\ gap' = IF p \in Attached(r) THEN gap \ {p} ELSE gap \cup {p}
        /\ handler' = [handler EXCEPT ![a] = NoHandler]
        /\ Tried(a, p)
        /\ UNCHANGED <<files, kernel, batch, command, service, counters, done, notices, unseen, cut, claim>>

\* The descriptor that was opened stays, unattached.
AttachFails(a) ==
    /\ pc[a] = "attach" /\ Fails
    /\ handler' = [handler EXCEPT ![a] = NoHandler]
    /\ Tried(a, handler[a].path)
    /\ UNCHANGED <<files, kernel, watcher, batch, command, service, operations, launches, outages, env, history>>

Read(a) ==
    /\ pc[a] = "wait" /\ kernel[a] # <<>>
    /\ batch' = [batch EXCEPT ![a] = kernel[a]]
    /\ kernel' = [kernel EXCEPT ![a] = <<>>]
    /\ pc' = [pc EXCEPT ![a] = "batch"]
    /\ UNCHANGED <<files, watcher, todo, handler, command, service, counters, history>>

\* Waiting or reading fails: the loop is left, and the command goes on without this thread.
LoopBreaks(a) ==
    /\ pc[a] = "wait" /\ Fails
    /\ pc' = [pc EXCEPT ![a] = "ended"]
    /\ UNCHANGED <<files, kernel, watcher, todo, batch, handler, command, service, operations, launches,
                   outages, env, history>>

\* Seeded fault: the rest of what was read is left.
NextEventOnly(a, paths) ==
    /\ batch' = [batch EXCEPT ![a] = <<>>]
    /\ Turn(a, paths)

\* One event is done with.
NextEvent(a, paths) ==
    /\ batch' = [batch EXCEPT ![a] = Tail(@)]
    /\ IF Len(batch[a]) = 1 THEN Turn(a, paths) ELSE UNCHANGED <<pc, todo>>

Without(r, k) == [j \in DOMAIN r \ {k} |-> r[j]]

\* Seeded fault: the path of a watch the kernel removed is not queued.
SkipEventForgets(a) ==
    LET e == Head(batch[a])
        known == e.key \in DOMAIN reg[a]
    IN  /\ pc[a] = "batch" /\ handler[a] = NoHandler
        /\ ~known \/ "ignored" \in e.mask
        /\ IF known
           THEN reg' = [reg EXCEPT ![a] = Without(@, e.key)] /\ pending' = pending
           ELSE UNCHANGED watcher
        /\ NextEvent(a, pending'[a])
        /\ UNCHANGED <<files, kernel, handler, command, service, counters, history>>

\* IN_IGNORED, an event of a descriptor that is not known, an overflow.
SkipEvent(a) ==
    LET e == Head(batch[a])
        known == e.key \in DOMAIN reg[a]
    IN  /\ pc[a] = "batch" /\ handler[a] = NoHandler
        /\ ~known \/ "ignored" \in e.mask
        /\ IF known
           THEN /\ reg' = [reg EXCEPT ![a] = Without(@, e.key)]
                /\ pending' = [pending EXCEPT ![a] = @ \cup {reg[a][e.key].path}]
           ELSE UNCHANGED watcher
        /\ NextEvent(a, pending'[a])
        /\ UNCHANGED <<files, kernel, handler, command, service, counters, history>>

ClassifyMask(mask) == IF mask \cap {"write", "delete", "move"} # {} THEN "change" ELSE "read"

ClassifyFflags(mask) == IF mask \subseteq {"attrib"} THEN "read" ELSE "change"
ClassifyAction(mask) == "change"

Classify(mask) ==
    IF Linux THEN ClassifyMask(mask) ELSE IF MacOS THEN ClassifyFflags(mask) ELSE ClassifyAction(mask)

TakeEvent(a) ==
    LET e == Head(batch[a])
    IN  /\ pc[a] = "batch" /\ handler[a] = NoHandler
        /\ e.key \in DOMAIN reg[a] /\ "ignored" \notin e.mask
        /\ handler' = [handler EXCEPT ![a] = [step |-> "notify", path |-> reg[a][e.key].path,
                                              class |-> Classify(e.mask), key |-> e.key, mask |-> e.mask]]
        /\ UNCHANGED <<files, kernel, watcher, pc, todo, batch, command, service, counters, history>>

\* Seeded fault: the descriptor is not closed.
ReturnedKeepsOpen(a) ==
    LET h == handler[a]
        lost == MacOS /\ h.mask \cap {"delete", "move"} # {}
    IN  /\ handler' = [handler EXCEPT ![a] = NoHandler]
        /\ reg' = reg
        /\ pending' = IF lost THEN [pending EXCEPT ![a] = @ \cup {h.path}] ELSE pending
        /\ kernel' = kernel
        /\ NextEvent(a, pending'[a])

\* The callback has returned: kqueue's descriptor of a file that went away is closed.
Returned(a) ==
    LET h == handler[a]
        lost == MacOS /\ h.mask \cap {"delete", "move"} # {}
    IN  /\ handler' = [handler EXCEPT ![a] = NoHandler]
        /\ reg' = IF lost THEN [reg EXCEPT ![a] = Without(@, h.key)] ELSE reg
        /\ pending' = IF lost THEN [pending EXCEPT ![a] = @ \cup {h.path}] ELSE pending
        /\ kernel' = IF lost THEN [kernel EXCEPT ![a] = Closed(@, h.key)] ELSE kernel
        /\ NextEvent(a, pending'[a])

-----------------------------------------------------------------------------
(* The response.                                                           *)

\* The gate and the cut boundary (blocker.refusal).
MayCut(class) == env.mode = "auto" /\ class = "change" /\ ~env.dryRun

Notify(a) ==
    LET h == handler[a]
    IN  /\ h.step = "notify"
        /\ notices' = [notices EXCEPT ![h.path][h.class] = @ + 1]
        /\ unseen' = IF h.class = "change" THEN unseen \ {h.path} ELSE unseen
        /\ IF MayCut(h.class)
           THEN /\ handler' = [handler EXCEPT ![a].step = "cut"]
                /\ claim' = [claim EXCEPT ![a] = "nothing"]
                /\ cut' = [cut EXCEPT ![a] = FALSE]
                /\ flight' = [flight EXCEPT ![a] = "none"]
                /\ UNCHANGED <<kernel, watcher, pc, todo, batch>>
           ELSE Returned(a) /\ UNCHANGED <<flight, cut, claim>>
        /\ UNCHANGED <<files, command, daemon, up, told, counters, done, gap>>

\* The cut is made here: it is confirmed, or not, or raises.
CutHere(a) ==
    /\ handler[a].step = "cut" /\ ~env.privsep
    /\ \E result \in {"applied", "failed", "nothing"} :
        /\ claim' = [claim EXCEPT ![a] = result]
        /\ cut' = [cut EXCEPT ![a] = (result = "applied")]
    /\ Returned(a)
    /\ UNCHANGED <<files, command, service, counters, done, notices, unseen, gap>>

\* NotSent: no daemon, or another server at its socket.
AskFails(a) ==
    /\ handler[a].step = "cut" /\ env.privsep
    /\ daemon \in {"down", "stranger"}
    /\ claim' = [claim EXCEPT ![a] = "unsent"]
    /\ Returned(a)
    /\ UNCHANGED <<files, command, service, counters, done, notices, unseen, gap, cut>>

Ask(a) ==
    /\ handler[a].step = "cut" /\ env.privsep
    /\ daemon \in {"up", "refusing"}
    /\ flight' = [flight EXCEPT ![a] = "sent"]
    /\ handler' = [handler EXCEPT ![a].step = "await"]
    /\ UNCHANGED <<files, kernel, watcher, pc, todo, batch, command, daemon, up, told, counters, history>>

\* The daemon serves the request, whether or not its requester still waits.
Serve(a) ==
    /\ flight[a] = "sent" /\ daemon \in {"up", "refusing"}
    /\ \E ok \in IF daemon = "up" THEN BOOLEAN ELSE {FALSE} :
        /\ cut' = [cut EXCEPT ![a] = ok]
        /\ flight' = [flight EXCEPT ![a] = IF ok THEN "cut" ELSE "refused"]
    /\ UNCHANGED <<files, kernel, watcher, thread, command, daemon, up, told, counters, done, notices, unseen,
                   gap, claim>>

Answer(a) ==
    /\ handler[a].step = "await" /\ flight[a] \in {"cut", "refused"}
    /\ claim' = [claim EXCEPT ![a] = IF flight[a] = "cut" THEN "applied" ELSE "refused"]
    /\ flight' = [flight EXCEPT ![a] = "none"]
    /\ Returned(a)
    /\ UNCHANGED <<files, command, daemon, up, told, counters, done, notices, unseen, gap, cut>>

\* Seeded fault: an answer that is lost is taken for a request that was not sent.
AnswerLostAsUnsent(a) ==
    /\ handler[a].step = "await"
    /\ claim' = [claim EXCEPT ![a] = "unsent"]
    /\ flight' = [flight EXCEPT ![a] = IF @ = "sent" THEN "sent" ELSE "none"]
    /\ Returned(a)
    /\ UNCHANGED <<files, command, daemon, up, told, counters, done, notices, unseen, gap, cut>>

\* No usable answer in time: the daemon may have cut, or may still do it.
AnswerLost(a) ==
    /\ handler[a].step = "await"
    /\ claim' = [claim EXCEPT ![a] = "unknown"]
    /\ flight' = [flight EXCEPT ![a] = IF @ = "sent" THEN "sent" ELSE "none"]
    /\ Returned(a)
    /\ UNCHANGED <<files, command, daemon, up, told, counters, done, notices, unseen, gap, cut>>

-----------------------------------------------------------------------------
(* The daemon, and the heartbeat that watches it.                          *)

DaemonChanges(d) ==
    /\ env.privsep /\ daemon # d
    /\ outages < env.outages
    /\ outages' = outages + 1
    /\ daemon' = d
    /\ flight' = [a \in Assets |-> IF d = "down" THEN "none" ELSE flight[a]]
    /\ UNCHANGED <<files, kernel, watcher, thread, command, up, told, operations, failures, launches, env,
                   history>>

\* A loss is announced once, and the return.
Beat ==
    LET ok == daemon = "up"
    IN  /\ env.privsep /\ phase # "down"
        /\ up' = IF ok THEN "yes" ELSE "no"
        /\ told' = IF ~ok /\ up # "no" THEN (IF daemon = "refusing" THEN "refused" ELSE "unreachable")
                   ELSE IF ok /\ up = "no" THEN "back" ELSE told
        /\ up' # up
        /\ UNCHANGED <<files, kernel, watcher, thread, command, daemon, flight, counters, history>>

-----------------------------------------------------------------------------
(* Stopping: one watcher after the other, each given two seconds.          *)

Interrupt ==
    /\ env.interrupt /\ phase = "on" /\ \A a \in Assets : pc[a] \notin {"off", "seeded", "opened"}
    /\ phase' = "stopping"
    /\ UNCHANGED <<files, kernel, watcher, thread, stop, service, counters, history>>

StopAsk(a) ==
    /\ phase = "stopping" /\ stop[a] = "no"
    /\ \A b \in Assets : stop[b] # "asked"
    /\ stop' = [stop EXCEPT ![a] = "asked"]
    /\ UNCHANGED <<files, kernel, watcher, thread, phase, service, counters, history>>

\* The thread has ended, or its response takes longer than the join waits.
StopJoin(a) ==
    /\ stop[a] = "asked"
    /\ pc[a] = "ended" \/ handler[a].step \in {"notify", "cut", "await"}
    /\ stop' = [stop EXCEPT ![a] = "done"]
    /\ reg' = IF Windows THEN reg ELSE [reg EXCEPT ![a] = <<>>]
    /\ pending' = [pending EXCEPT ![a] = {}]
    /\ kernel' = [kernel EXCEPT ![a] = <<>>]
    /\ UNCHANGED <<files, thread, phase, service, counters, history>>

Exit ==
    /\ phase = "stopping" /\ \A a \in Assets : stop[a] = "done"
    /\ Gone
    /\ UNCHANGED failures

Killed ==
    /\ phase # "down" /\ Fails
    /\ Gone

-----------------------------------------------------------------------------

Host ==
    \/ \E p \in Paths : \/ \E kind \in {"read", "attrib", "write"} : Touch(p, kind)
                        \/ Delete(p) \/ Rename(p) \/ Create(p) \/ Replace(p)
    \/ \E n \in 1..MaxNodes : RenameBack(n) \/ \E kind \in {"read", "write"} : TouchAway(n, kind)

StartUp(a) ==
    Seed(a) \/ StartLinux(a) \/ StartOpen(a) \/ StartWindows(a) \/ StartAttach(a) \/ StartFails(a)

Loop(a) ==
    \/ Idle(a) \/ Read(a) \/ SkipEvent(a) \/ TakeEvent(a)
    \/ \E p \in Paths : StillMissing(a, p) \/ Reregister(a, p) \/ ReregisterOpen(a, p)
    \/ ReregisterAttach(a)

Respond(a) == Notify(a) \/ CutHere(a) \/ AskFails(a) \/ Ask(a) \/ Answer(a) \/ AnswerLost(a)

Shutdown(a) == StopAsk(a) \/ StopJoin(a)

Next ==
    \/ Host \/ Launch \/ Beat \/ Interrupt \/ Exit \/ Killed
    \/ \E d \in {"up", "down", "refusing", "stranger"} : DaemonChanges(d)
    \/ \E a \in Assets : \/ StartUp(a) \/ Loop(a) \/ Respond(a) \/ Serve(a) \/ Shutdown(a)
                         \/ AttachFails(a) \/ LoopBreaks(a)

(***************************************************************************)
(* The command and its threads run; a request to the daemon ends, because  *)
(* it has a time limit; the heartbeat comes every 30 seconds.  The host,   *)
(* the operator and the daemon owe nothing.                                *)
(***************************************************************************)
Fairness ==
    /\ WF_vars(Beat) /\ WF_vars(Exit)
    /\ \A a \in Assets : WF_vars(StartUp(a)) /\ WF_vars(Loop(a)) /\ WF_vars(Respond(a)) /\ WF_vars(Shutdown(a))

Spec == Init /\ [][Next]_vars /\ Fairness

-----------------------------------------------------------------------------
(* Properties.                                                             *)

Watching(p) == \E k \in Listening(env.assetOf[p], p, at[p]) : TRUE

TypeOK ==
    /\ env \in Environments
    /\ at \in [Paths -> 0..MaxNodes] /\ away \subseteq 1..MaxNodes
    /\ \A a \in Assets :
        /\ pending[a] \cup todo[a] \subseteq Decoys(a)
        /\ \A k \in DOMAIN reg[a] : reg[a][k].path \in Decoys(a) /\ reg[a][k].live \in BOOLEAN
        /\ Len(kernel[a]) <= IF MacOS THEN Cardinality(DOMAIN reg[a]) ELSE QueueMax + 1
        /\ MacOS => \A e \in ToSet(kernel[a]) : e.key \in DOMAIN reg[a]
        /\ pc[a] = "batch" => batch[a] # <<>>
        /\ pc[a] \in {"retry", "attach"} => handler[a].step = "none" /\ todo[a] # {}
        /\ handler[a].step # "none" => pc[a] = "batch"
    /\ unseen \cup gap \subseteq Paths

(* A decoy that exists, is not waiting to be registered again and whose    *)
(* thread waits with nothing left to read is being watched, although       *)
(* decoys are deleted, renamed, replaced and created while the thread is   *)
(* anywhere: only a rename or a full queue (inotify), or a file that went  *)
(* away between being opened and being attached (kqueue), leaves it blind. *)
BlindSpotsHaveACause ==
    \A p \in Paths :
        LET a == env.assetOf[p]
        IN  pc[a] = "wait" /\ kernel[a] = <<>> /\ stop[a] # "done" /\ at[p] # None /\ p \notin pending[a]
            => Watching(p) \/ p \in gap

(* The watcher's invariant: well formed, and blind nowhere without a cause. *)
WatchInv == TypeOK /\ BlindSpotsHaveACause

(* No decoy is notified of more often than it was used, and no change is   *)
(* made out of reads, whatever descriptor numbers are reused and however   *)
(* often a decoy was registered again.                                     *)
NoticesAreEarned ==
    \A p \in Paths :
        LET reads == done[p]["read"] + done[p]["attrib"]
            changes == done[p]["write"] + done[p]["delete"] + done[p]["move"] + done[p]["create"]
        IN  /\ notices[p]["read"] <= reads
            /\ notices[p]["change"] <= changes + (IF Windows THEN reads ELSE 0)

(* What is announced of a cut asked of the daemon is true of that request: *)
(* "applied" has been done, and "nothing was sent" or a refusal never      *)
(* becomes a cut later, although the daemon may be slow, die, be replaced  *)
(* or answer after the time limit.                                         *)
ClaimsAreTrue ==
    \A a \in Assets :
        /\ claim[a] = "applied" => cut[a]
        /\ claim[a] \in {"unsent", "refused", "failed"} => ~cut[a]

(* So what the operator is told is true: of the touches and of the cuts.   *)
ReportsAreTrue == NoticesAreEarned /\ ClaimsAreTrue

(* A change the kernel has delivered is notified of, although other events *)
(* are in front of it and cuts take their time, unless the thread or the   *)
(* command ends.                                                           *)
ChangesAreTold ==
    \A p \in Paths :
        p \in unseen ~> (p \notin unseen \/ phase # "on" \/ pc[env.assetOf[p]] = "ended")

(* A decoy that waits to be registered again and stays is registered.      *)
Rewatched ==
    \A p \in Paths :
        LET a == env.assetOf[p]
        IN  p \in pending[a] /\ at[p] # None
            ~> (p \notin pending[a] \/ at[p] = None \/ phase # "on" \/ pc[a] = "ended")

(* A daemon that stays away is announced, and its return too.              *)
OutagesAreTold ==
    /\ (phase = "on" /\ env.privsep /\ daemon # "up")
       ~> (told \in {"refused", "unreachable"} \/ daemon = "up" \/ phase # "on")
    /\ (phase = "on" /\ told \in {"refused", "unreachable"} /\ daemon = "up")
       ~> (told = "back" \/ daemon # "up" \/ phase # "on")

(* So what the operator must learn of comes, and goes on coming.           *)
ReportsCome == ChangesAreTold /\ Rewatched /\ OutagesAreTold
=============================================================================
