--------------------------------- MODULE Gate ---------------------------------
(***************************************************************************)
(* The admission gate's processes: `zee gate add' (cli.py, inspector.py,   *)
(* fetch.py, pins.py) copies a source into the quarantine, inspects the    *)
(* copy, promotes it to an install directory and pins its hash; `zee gate  *)
(* audit' (audit.py, denylist.py) hashes what is installed, compares it    *)
(* with the pins and denylists what drifted.  Nothing locks: any number of *)
(* them run at once, and any may be killed.                                *)
(*                                                                         *)
(* A tree is what each of its files holds, and is its own hash; one source *)
(* is modelled.  Trees are copied file by file.                            *)
(***************************************************************************)
EXTENDS Verdict, Sequences

CONSTANTS
    Adders, Auditors,  \* processes
    Dirs,              \* install directories an adder may promote to
    Files, Versions,   \* files of the artifact, versions of them
    Absent,            \* no such file or directory; no value
    Environments       \* what happens in a behaviour: see `env'

Procs == Adders \cup Auditors
Trees == [Files -> Versions \cup {Absent}]
EmptyTree == [f \in Files |-> Absent]
Whole(v) == [f \in Files |-> v]

\* Bounds of what others do.
Budgets == {"updates", "drifts", "removals", "kills", "errors"}

ASSUME ConstantsAssumption ==
    /\ Adders \cap Auditors = {}
    /\ IsFiniteSet(Files)
    /\ Absent \notin Versions \cup Dirs \cup Trees
    /\ \A denied \in SUBSET Trees : denied # Absent
    /\ \A e \in Environments :
        /\ e.budget \in [Budgets -> Nat]
        /\ e.jobs \in [Procs -> Nat]
        /\ e.risk \in [Versions -> {"none", "gap"} \cup Severities]
        /\ e.first \in Versions /\ e.rescan \in BOOLEAN
        /\ e.promoteTo \subseteq Dirs \cup {Absent}

VARIABLES
    env,          \* chosen at the start: budget, jobs, risk, first, rescan, promoteTo
    left,         \* what is left of the budget
    source,       \* the tree an adder is pointed at
    quarantine,   \* the quarantine directory: key -> tree
    dirs,         \* what each install directory holds
    pins,         \* the lines of pins.jsonl, whole or torn
    newline,      \* does pins.jsonl end with a newline?
    deny,         \* hashes in denylist_local.json; Absent: not readable as JSON
    proc,         \* each process
    \* history
    was           \* what happened: see HistoryTypeOK

disk == <<source, quarantine, dirs, pins, newline, deny>>
vars == <<env, left, disk, proc, was>>

-----------------------------------------------------------------------------
(* Processes.                                                              *)

Idle(jobs, exit) ==
    [pc |-> "idle", jobs |-> jobs, exit |-> exit, dir |-> Absent, key |-> Absent, files |-> {},
     todo |-> {}, hash |-> Absent, pinned |-> <<>>, have |-> {}, found |-> {}]

Goto(p, pc) == proc' = [proc EXCEPT ![p].pc = pc]
Ends(p, code) == proc' = [proc EXCEPT ![p] = Idle(proc[p].jobs, code)]

\* What a fetch reads: the source, or for an audit's rescan the directory that drifted.
Origin(p) == IF p \in Adders THEN source ELSE dirs[proc[p].dir]

CopiesInto(key) == {p \in Procs : proc[p].pc = "copy" /\ proc[p].key = key}

\* A quarantine copy that another process is still writing is used.
Sharing(p) == CopiesInto(proc[p].key) \ {p} # {}
\* An inspection that raises: no verdict, or for a rescan a note in the report.
Raises(p) == IF p \in Adders THEN Ends(p, ExitError) ELSE Goto(p, "check")

\* What an audit found at its start has changed since.
Unshown(d) == [a \in Auditors |-> was.shown[a] \ {d}]

NoteSharing(p) == was' = [was EXCEPT !.shared = @ \/ Sharing(p)]

StartAdd(p, d) ==
    /\ proc[p].pc = "idle" /\ proc[p].jobs > 0 /\ d \in env.promoteTo
    /\ proc' = [proc EXCEPT ![p] = [Idle(proc[p].jobs - 1, Absent) EXCEPT !.pc = "hash", !.dir = d]]
    /\ UNCHANGED <<env, left, disk, was>>

-----------------------------------------------------------------------------
(* fetch_local: hash the source, reuse or make the quarantine directory    *)
(* with that hash in its name, copy.                                       *)

HashSource(p) ==
    /\ proc[p].pc = "hash"
    /\ IF Origin(p) = Absent
       THEN Raises(p)
       ELSE proc' = [proc EXCEPT ![p].key = Origin(p),
                                 ![p].pc = IF Origin(p) \in DOMAIN quarantine THEN "build" ELSE "make"]
    /\ was' = [was EXCEPT !.refused[p] = deny # Absent /\ Origin(p) \in deny]
    /\ UNCHANGED <<env, left, disk>>

MakeCopy(p) ==
    /\ proc[p].pc = "make"
    /\ IF proc[p].key \in DOMAIN quarantine
       THEN Raises(p) /\ UNCHANGED quarantine
       ELSE /\ quarantine' = [k \in DOMAIN quarantine \cup {proc[p].key} |->
                                IF k \in DOMAIN quarantine THEN quarantine[k] ELSE EmptyTree]
            /\ proc' = [proc EXCEPT ![p].pc = "copy", ![p].files = Files]
    /\ UNCHANGED <<env, left, source, dirs, pins, newline, deny, was>>

CopyFile(p, f) ==
    /\ proc[p].pc = "copy" /\ f \in proc[p].files
    /\ Origin(p) # Absent
    /\ quarantine' = [quarantine EXCEPT ![proc[p].key][f] = Origin(p)[f]]
    /\ proc' = [proc EXCEPT ![p].files = @ \ {f}, ![p].pc = IF proc[p].files = {f} THEN "build" ELSE @]
    /\ was' = [was EXCEPT !.damaged = IF Origin(p)[f] = proc[p].key[f] THEN @ ELSE @ \cup {proc[p].key}]
    /\ UNCHANGED <<env, left, source, dirs, pins, newline, deny>>

\* The tree to copy goes away, or a read or write fails.
CopyFails(p) ==
    /\ proc[p].pc = "copy"
    /\ \/ Origin(p) = Absent /\ UNCHANGED left
       \/ left.errors > 0 /\ left' = [left EXCEPT !.errors = @ - 1]
    /\ Raises(p)
    /\ was' = [was EXCEPT !.damaged = @ \cup {proc[p].key}]
    /\ UNCHANGED <<env, disk>>

-----------------------------------------------------------------------------
(* inspect_source on the quarantine copy, then promote_if_low and the pin. *)

\* Seeded fault: the source's hash for the copy's.
BuildFromSource(p) ==
    /\ proc[p].pc = "build"
    /\ proc' = [proc EXCEPT ![p].hash = proc[p].key, ![p].pc = "scan"]
    /\ NoteSharing(p)
    /\ UNCHANGED <<env, left, disk>>

\* Adapter.build: content_hash is the hash of the copy, not of the source.
Build(p) ==
    /\ proc[p].pc = "build"
    /\ proc' = [proc EXCEPT ![p].hash = quarantine[proc[p].key], ![p].pc = "scan"]
    /\ NoteSharing(p)
    /\ UNCHANGED <<env, left, disk>>

\* Static findings of a tree, and the denylist's (an unreadable list is an empty one).
StaticFlags(tree) ==
    {Flag(IF env.risk[tree[f]] = "gap" THEN "low" ELSE env.risk[tree[f]],
          IF env.risk[tree[f]] = "gap" THEN "G911" ELSE "G200", f) :
        f \in {f \in Files : tree[f] # Absent /\ env.risk[tree[f]] # "none"}}

DenyFlags(hash) == IF deny # Absent /\ hash \in deny THEN {Flag("high", "G610", Absent)} ELSE {}

\* Seeded fault: the verdict is not asked before promoting.
ScanAndPromote(p) ==
    /\ proc[p].pc = "scan"
    /\ LET tree == quarantine[proc[p].key]
       IN IF p \in Auditors THEN Goto(p, "check")
          ELSE IF proc[p].dir # Absent THEN Goto(p, "promote")
          ELSE Ends(p, ExitCode(VerdictOf(StaticFlags(tree))))
    /\ NoteSharing(p)
    /\ UNCHANGED <<env, left, disk>>

Scan(p) ==
    /\ proc[p].pc = "scan"
    /\ LET tree == quarantine[proc[p].key]
           verdict == VerdictOf(StaticFlags(tree) \cup DenyFlags(proc[p].hash))
       IN IF p \in Auditors THEN Goto(p, "check")
          ELSE IF proc[p].dir # Absent /\ Promotable(verdict)
          THEN Goto(p, "promote")
          ELSE Ends(p, ExitCode(verdict))
    /\ was' = [was EXCEPT !.shared = @ \/ Sharing(p), !.blind = @ \/ (deny = Absent /\ was.written # {})]
    /\ UNCHANGED <<env, left, disk>>

InstallsInto(d) == {p \in Procs : proc[p].pc \in {"install", "pin"} /\ proc[p].dir = d}

\* A directory that exists is refused; the exit code is still the verdict's.
Promote(p) ==
    /\ proc[p].pc = "promote"
    /\ IF dirs[proc[p].dir] # Absent THEN Ends(p, 0) ELSE Goto(p, "mkdir")
    /\ UNCHANGED <<env, left, disk, was>>

MakeDir(p) ==
    /\ proc[p].pc = "mkdir"
    /\ LET d == proc[p].dir
       IN IF dirs[d] # Absent
          THEN Ends(p, ExitError) /\ UNCHANGED <<dirs, was>>
          ELSE /\ dirs' = [dirs EXCEPT ![d] = EmptyTree]
               /\ proc' = [proc EXCEPT ![p].pc = "install", ![p].files = Files]
               /\ was' = [was EXCEPT !.state[d] = IF InstallsInto(d) = {} THEN "installing" ELSE "changed"]
    /\ UNCHANGED <<env, left, source, quarantine, pins, newline, deny>>

InstallFile(p, f) ==
    /\ proc[p].pc = "install" /\ f \in proc[p].files
    /\ dirs[proc[p].dir] # Absent
    /\ dirs' = [dirs EXCEPT ![proc[p].dir][f] = quarantine[proc[p].key][f]]
    /\ proc' = [proc EXCEPT ![p].files = @ \ {f}, ![p].pc = IF proc[p].files = {f} THEN "pin" ELSE @]
    /\ was' = [was EXCEPT !.shared = @ \/ Sharing(p), !.shown = Unshown(proc[p].dir)]
    /\ UNCHANGED <<env, left, source, quarantine, pins, newline, deny>>

InstallFails(p) ==
    /\ proc[p].pc = "install"
    /\ \/ dirs[proc[p].dir] = Absent /\ UNCHANGED left
       \/ left.errors > 0 /\ left' = [left EXCEPT !.errors = @ - 1]
    /\ Ends(p, ExitError)
    /\ was' = [was EXCEPT !.state[proc[p].dir] = "part"]
    /\ UNCHANGED <<env, disk>>

\* A record that follows a torn one is on its line, and neither is read.
Appended(d, hash, whole) ==
    IF newline THEN Append(pins, [dir |-> d, hash |-> hash, whole |-> whole])
    ELSE [pins EXCEPT ![Len(pins)].whole = FALSE]

Pin(p) ==
    /\ proc[p].pc = "pin"
    /\ pins' = Appended(proc[p].dir, proc[p].hash, TRUE)
    /\ newline' = TRUE
    /\ Ends(p, 0)
    /\ was' = [was EXCEPT !.state[proc[p].dir] = IF @ = "installing" THEN "installed" ELSE @,
                          !.torn = @ \/ ~newline, !.shown = Unshown(proc[p].dir)]
    /\ UNCHANGED <<env, left, source, quarantine, dirs, deny>>

\* OSError, which nothing catches: the interpreter exits 1.
PinFails(p) ==
    /\ proc[p].pc = "pin" /\ left.errors > 0
    /\ left' = [left EXCEPT !.errors = @ - 1]
    /\ Ends(p, 1)
    /\ was' = [was EXCEPT !.state[proc[p].dir] = "part"]
    /\ UNCHANGED <<env, disk>>

-----------------------------------------------------------------------------
(* audit_pins: the latest pin of every directory against what is there.    *)

LatestPin(d) ==
    LET lines == {i \in DOMAIN pins : pins[i].dir = d /\ pins[i].whole}
    IN IF lines = {} THEN Absent ELSE pins[CHOOSE i \in lines : \A j \in lines : j <= i].hash

Drifted == {d \in Dirs : LatestPin(d) # Absent /\ dirs[d] \notin {Absent, LatestPin(d)}}

StartAudit(a) ==
    /\ proc[a].pc = "idle" /\ proc[a].jobs > 0
    /\ proc' = [proc EXCEPT ![a] = [Idle(proc[a].jobs - 1, Absent) EXCEPT
                    !.pc = "check", !.pinned = [d \in Dirs |-> LatestPin(d)],
                    !.todo = {d \in Dirs : LatestPin(d) # Absent}]]
    /\ was' = [was EXCEPT !.shown[a] = Drifted]
    /\ UNCHANGED <<env, left, disk>>

Check(a, d) ==
    /\ proc[a].pc = "check" /\ d \in proc[a].todo
    /\ IF dirs[d] \in {Absent, proc[a].pinned[d]}
       THEN /\ proc' = [proc EXCEPT ![a].todo = @ \ {d},
                                    ![a].found = @ \cup IF dirs[d] = Absent THEN {"missing"} ELSE {}]
            /\ UNCHANGED was
       ELSE /\ proc' = [proc EXCEPT ![a].todo = @ \ {d}, ![a].found = @ \cup {"drifted"},
                                    ![a].hash = dirs[d], ![a].dir = d, ![a].pc = "load"]
            /\ was' = [was EXCEPT !.blamed = @ \cup {[state |-> was.state[d],
                                                      stale |-> proc[a].pinned[d] # LatestPin(d)]}]
    /\ UNCHANGED <<env, left, disk>>

\* Seeded fault: only the new hash is written.
WriteOnlyNew(a) ==
    /\ proc[a].pc = "write"
    /\ deny' = {proc[a].hash}
    /\ Goto(a, IF env.rescan THEN "hash" ELSE "check")
    /\ was' = [was EXCEPT !.written = @ \cup {proc[a].hash}]
    /\ UNCHANGED <<env, left, source, quarantine, dirs, pins, newline>>

\* add_local: read, open (which empties the file), write.
LoadDeny(a) ==
    /\ proc[a].pc = "load"
    /\ proc' = [proc EXCEPT ![a].have = IF deny = Absent THEN {} ELSE deny, ![a].pc = "open"]
    /\ was' = [was EXCEPT !.lost = @ \/ \E b \in Auditors \ {a} : proc[b].pc \in {"open", "write"}]
    /\ UNCHANGED <<env, left, disk>>

OpenDeny(a) ==
    /\ proc[a].pc = "open"
    /\ deny' = Absent
    /\ Goto(a, "write")
    /\ UNCHANGED <<env, left, source, quarantine, dirs, pins, newline, was>>

\* A longer text that another process wrote meanwhile shows behind this one.
WriteDeny(a) ==
    /\ proc[a].pc = "write"
    /\ LET mine == proc[a].have \cup {proc[a].hash}
       IN deny' = IF deny # Absent /\ Cardinality(deny) > Cardinality(mine) THEN Absent ELSE mine
    /\ Goto(a, IF env.rescan THEN "hash" ELSE "check")
    /\ was' = [was EXCEPT !.written = @ \cup {proc[a].hash}]
    /\ UNCHANGED <<env, left, source, quarantine, dirs, pins, newline>>

\* OSError, which nothing catches: the audit stops there, and the exit code is 1.
DenyFails(a) ==
    /\ proc[a].pc \in {"open", "write"} /\ left.errors > 0
    /\ left' = [left EXCEPT !.errors = @ - 1]
    /\ Ends(a, 1)
    /\ was' = [was EXCEPT !.lost = @ \/ proc[a].pc = "write"]
    /\ UNCHANGED <<env, disk>>

FinishAudit(a) ==
    /\ proc[a].pc = "check" /\ proc[a].todo = {}
    /\ Ends(a, IF "drifted" \in proc[a].found THEN 2 ELSE IF "missing" \in proc[a].found THEN 1 ELSE 0)
    /\ UNCHANGED <<env, left, disk, was>>

-----------------------------------------------------------------------------
(* A process is killed; the author, the artifact and the owner act.        *)

Spend(what) == left[what] > 0 /\ left' = [left EXCEPT ![what] = @ - 1]

\* A kill may leave a part of the pin's line, or all of it but the newline.
KillTearsPin(p) ==
    \/ UNCHANGED <<pins, newline>>
    \/ /\ proc[p].pc = "pin"
       /\ \E whole \in BOOLEAN : pins' = Appended(proc[p].dir, proc[p].hash, whole)
       /\ newline' = FALSE

Kill(p) ==
    /\ proc[p].pc # "idle" /\ Spend("kills")
    /\ KillTearsPin(p)
    /\ Ends(p, Absent)
    /\ was' = [was EXCEPT
            !.damaged = IF proc[p].pc = "copy" THEN @ \cup {proc[p].key} ELSE @,
            !.state = IF proc[p].pc \in {"install", "pin"} THEN [@ EXCEPT ![proc[p].dir] = "part"] ELSE @,
            !.torn = @ \/ (newline' = FALSE),
            !.lost = @ \/ proc[p].pc = "write"]
    /\ UNCHANGED <<env, source, quarantine, dirs, deny>>

Update(v) ==
    /\ Spend("updates") /\ source # Whole(v)
    /\ source' = Whole(v)
    /\ UNCHANGED <<env, quarantine, dirs, pins, newline, deny, proc, was>>

Drift(d, f, v) ==
    /\ Spend("drifts") /\ dirs[d] # Absent /\ dirs[d][f] # v
    /\ dirs' = [dirs EXCEPT ![d][f] = v]
    /\ was' = [was EXCEPT !.state[d] = IF @ \in {"installed", "installing"} THEN "changed" ELSE @,
                          !.shown = Unshown(d)]
    /\ UNCHANGED <<env, source, quarantine, pins, newline, deny, proc>>

Remove(d) ==
    /\ Spend("removals") /\ dirs[d] # Absent
    /\ dirs' = [dirs EXCEPT ![d] = Absent]
    /\ was' = [was EXCEPT !.state[d] = "none", !.shown = Unshown(d)]
    /\ UNCHANGED <<env, source, quarantine, pins, newline, deny, proc>>

-----------------------------------------------------------------------------
Init ==
    /\ env \in Environments
    /\ left = env.budget
    /\ source = Whole(env.first)
    /\ quarantine = <<>>
    /\ dirs = [d \in Dirs |-> Absent]
    /\ pins = <<>> /\ newline = TRUE
    /\ deny = {}
    /\ proc = [p \in Procs |-> Idle(env.jobs[p], Absent)]
    /\ was = [shared |-> FALSE, blind |-> FALSE, lost |-> FALSE, torn |-> FALSE, damaged |-> {},
              refused |-> [p \in Procs |-> FALSE], state |-> [d \in Dirs |-> "none"],
              blamed |-> {}, written |-> {}, shown |-> [a \in Auditors |-> {}]]

Fetch(p) == HashSource(p) \/ MakeCopy(p) \/ \E f \in Files : CopyFile(p, f)
Inspect(p) == Build(p) \/ Scan(p)
Install(p) == Promote(p) \/ MakeDir(p) \/ Pin(p) \/ \E f \in Files : InstallFile(p, f)
Audit(a) == (\E d \in Dirs : Check(a, d)) \/ LoadDeny(a) \/ OpenDeny(a) \/ WriteDeny(a) \/ FinishAudit(a)
Fails(p) == CopyFails(p) \/ InstallFails(p) \/ PinFails(p) \/ DenyFails(p)

Next ==
    \/ \E p \in Adders, d \in Dirs \cup {Absent} : StartAdd(p, d)
    \/ \E a \in Auditors : StartAudit(a)
    \/ \E p \in Procs : Fetch(p) \/ Inspect(p) \/ Install(p) \/ Audit(p) \/ Fails(p) \/ Kill(p)
    \/ \E v \in Versions : Update(v)
    \/ \E d \in Dirs, f \in Files, v \in Versions : Drift(d, f, v)
    \/ \E d \in Dirs : Remove(d)

Spec == Init /\ [][Next]_vars

-----------------------------------------------------------------------------
(* Types.                                                                  *)

ProcType == [
    pc: {"idle", "hash", "make", "copy", "build", "scan", "promote", "mkdir", "install", "pin",
         "check", "load", "open", "write"},
    jobs: Nat, exit: 0..4 \cup {Absent}, dir: Dirs \cup {Absent}, key: Trees \cup {Absent},
    files: SUBSET Files, todo: SUBSET Dirs, hash: Trees \cup {Absent},
    pinned: {<<>>} \cup [Dirs -> Trees \cup {Absent}], have: SUBSET Trees, found: SUBSET {"drifted", "missing"}]

States == {"none", "installing", "installed", "changed", "part"}

HistoryTypeOK ==
    /\ {was.shared,     \* a quarantine copy was used while another process wrote it
        was.blind,      \* a scan found the denylist empty while an audit wrote it
        was.lost,       \* two audits wrote the denylist at once, or one stopped writing it
        was.torn        \* a pin's line was cut
       } \subseteq BOOLEAN
    /\ was.damaged \subseteq Trees                                 \* keys whose copy is not what the key says
    /\ was.refused \in [Procs -> BOOLEAN]                          \* was the source denied when it was hashed?
    /\ was.state \in [Dirs -> States]                              \* of each install directory
    /\ was.blamed \subseteq [state: States, stale: BOOLEAN]        \* what audits called drift
    /\ was.written \subseteq Trees                                 \* hashes audits added to the denylist
    /\ was.shown \in [Auditors -> SUBSET Dirs]                     \* drift there since the audit began

\* Every variable holds a value of its kind.
TypeOK ==
    /\ env \in Environments
    /\ left \in [Budgets -> Nat]
    /\ source \in Trees
    /\ DOMAIN quarantine \subseteq Trees /\ \A k \in DOMAIN quarantine : quarantine[k] \in Trees
    /\ dirs \in [Dirs -> Trees \cup {Absent}]
    /\ \A i \in DOMAIN pins : pins[i] \in [dir: Dirs, hash: Trees, whole: BOOLEAN]
    /\ newline \in BOOLEAN
    /\ deny = Absent \/ deny \subseteq Trees
    /\ \A p \in Procs : proc[p] \in ProcType
    /\ HistoryTypeOK

-----------------------------------------------------------------------------
(* Properties.                                                             *)

\* "Nothing reaches the real location until it passes" (inspector.py): what an
\* add installed whole and nobody changed since is a tree whose scan passed,
\* and the tree its latest pin names, unless two processes met in one
\* quarantine copy or a pin's line was torn.
InstalledIsWhatPassed ==
    \A d \in Dirs : was.state[d] = "installed" =>
        \/ was.shared \/ was.torn
        \/ LatestPin(d) = dirs[d] /\ Promotable(VerdictOf(StaticFlags(dirs[d])))

\* "Pinned for Rug Pull monitoring" (cli.py): a directory with something in it
\* that no process is installing and that no audit will look at is what an
\* add left that was cut short, or its pin was torn.
UnpinnedHasACause ==
    \A d \in Dirs :
        dirs[d] # Absent /\ InstallsInto(d) = {} /\ LatestPin(d) = Absent => was.state[d] = "part" \/ was.torn

\* "Drifted: the artifact changed since it was pinned" (audit.py): an audit
\* blames what an add installed and nobody changed only when the pins it read
\* at its start were superseded, or when what was pinned was not what was
\* copied.
BlameHasACause ==
    \A b \in was.blamed : b.state = "installed" => b.stale \/ was.shared \/ was.torn

\* "Its new hash is now denylisted" (audit.py): once an audit has written a
\* hash, it stays on the denylist, unless two audits wrote the file at once or
\* one stopped in the middle.
DenialsStay ==
    (\A a \in Auditors : proc[a].pc # "write") => was.lost \/ (deny # Absent /\ was.written \subseteq deny)

\* "Re-installing this exact version is blocked" (denylist.py): an add whose
\* source was on the denylist when it was hashed installs nothing, unless its
\* quarantine copy is not that source, or the denylist was being written or
\* was lost.
DeniedStaysOut ==
    \A p \in Adders :
        proc[p].pc \in {"install", "pin"} /\ was.refused[p] =>
            was.shared \/ was.blind \/ was.lost \/ proc[p].key \in was.damaged

\* "2 if any pinned artifact has drifted" (cli.py): an audit that ran to its
\* end, with a drift in place from its start to its end, exits 2; the only
\* other exit is that of a denylist that could not be written.
DriftIsTold ==
    \A a \in Auditors :
        proc[a].pc = "idle" /\ was.shown[a] # {} /\ proc[a].exit # Absent =>
            proc[a].exit = 2 \/ (proc[a].exit = 1 /\ left.errors < env.budget.errors)

\* What is installed passed, and is watched.
GateInv == TypeOK /\ InstalledIsWhatPassed /\ UnpinnedHasACause

\* What was denied stays denied, and out.
DenialsHold == DenialsStay /\ DeniedStaysOut

\* An audit tells of drift where it is, and only there.
AuditsAreRight == BlameHasACause /\ DriftIsTold
=============================================================================
