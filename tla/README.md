# Zee: TLA+ models and proofs

Zee (`src/`) is a Python host defence: it watches decoy files and, when one is touched, cuts the
host's network; it restores the network on a signed or token-protected request; it inspects
software before it is installed; and it keeps an evidence log. This directory holds TLA+ models
of the parts in which order, failure and concurrency matter, the TLC configurations that check
them, and TLAPS proofs.

Paths below are relative to `src/src/zee/`.

## Inventory

| Part | State | Operations | Meets |
|---|---|---|---|
| Cut and restore (`responder/cut_full.py`, `responder/cut_egress.py`, `recovery/restore.py`) | the OS's interfaces, NetworkManager's switch, Zee's firewall rules | `cut_full`, `cut_egress`, `restore` (normal, `--all-interfaces`) | reads and writes the ledger; called by the sequence, `zee cut`, `zee restore`, the daemon |
| Cut ledger (`telemetry/cut_state.py`) | `cut_state.jsonl`, append-only | `record_cut`, `mark_resolved`, `unresolved_for` | shared by threads and processes without a lock of its own |
| Response sequence (`responder/sequence.py`, `blocker.py`, `policy/asset_profile.py`) | none of its own | `handle`: record, notify, gate, cut, notify, record latency | one watcher thread per asset |
| Auto-containment permission (`responder/permission.py`) | `auto_containment.json`, a host lock file | `load`, `save`, `decide`, `HostLock` | CLI and daemon |
| Privileged daemon (`privsep/`) | keys, `admin_gen`, `used` (saved); pending requests, rate limits, tamper strikes (memory) | `cut`, `status`, `challenge`, `submit`, `bootstrap_key`, tamper check | socket to watch and CLI; owns config, permission and ledger files |
| Egress approval (`egress/engine.py`) | keys, policy, used digests (saved); held flows, grants, taint, batch (memory) | `request_config`, `submit`, `observe`, `tick`, recovery | also the base class of the daemon's admin engine |
| Event log (`telemetry/events_log.py`) | hash-chained JSONL, rotated segments, lock file | `record_*`, rotation, `verify_chain` | every thread and process |
| Status, export (`telemetry/status.py`, `report_export.py`) | none | group events into bursts, count, verify | reads logs and ledger |
| Watchers (`watcher/`) | watch descriptors, paths waiting to be watched again | start, loop, re-register, stop | calls the sequence |
| Admission gate (`gate/`) | quarantine tree, pins | inspect, score, promote, pin, audit | sandbox for behaviour |
| Recovery token (`recovery/auth.py`) | token file | init, load, verify | `zee restore` |
| Decoys (`decoy/`) | decoy files, `canary_tokens.jsonl`, a lock file | `seed_all`, `issue_for_decoy`, `issue_place_email`, `locate`, `is_known_value` | `zee watch` seeds at its start; addresses are issued by commands |
| Dilution (`dilution/`), MCP (`mcp/`), notification (`notifier/`), report (`report/`), configuration (`config/`), command line (`cli.py`, `doctor.py`) | files each writes | generate, serve, notify, render, parse | see `PROJECT.json` |

What is hard, part by part, and what makes each right:

- **Cut and restore.** Many OS commands, none of whose exit statuses is proof; a kill between any
  two; other tools acting meanwhile; a ledger that may refuse or tear a write. Right means: what
  is off because of Zee can be found in the ledger, a cut is announced only if it is in force and
  recorded, a restore only if nothing of the cut is left, and every operation ends.
- **Privileged daemon.** Approvals that are asked for, signed and submitted at different times,
  around crashes and other approvals. Right means: an approval acts at most once, only on the state
  it was issued for; auto-cut only acts for the assets it was approved for; the last key stays;
  the tamper cut needs two findings in a row and comes once; an approved stop ends the daemon.
- **Egress approval.** Keys never run out, requests are single-use across restarts, a damaged
  state file grants nothing, a held destination stays held until a valid approval.
- **Event log.** One chain over threads, processes, rotation and crashes; a lost record is
  visible; a reported break means something was removed.
- **Watchers.** A decoy that exists is watched again; a replaced one is not watched under its old name.
- **Gate.** What is promoted is what was inspected and low-risk; a drift from a pin is told; a complete
  verdict means that everything was read; what runs on loading is found; what a behavioural run did is told.
- **Decoys.** A URL in a decoy and an address in a place can be attributed for as long as they exist.

`PROJECT.json` lists all hazards at their lines, with the properties that cover them.

## Modules

| Part | Modules | Run |
|---|---|---|
| Cut and restore, ledger | `CutLedger`, `Containment`, `ContainmentInvariant`, proofs `ContainmentSafety` | `containment_daemon`, `containment_direct`, `containment_race` |
| Privileged daemon | `Privsep`, proofs `PrivsepSafety` | `privsep_approvals`, `privsep_tamper` |
| Egress approval | `EgressApproval`, proofs `EgressSafety` | `egress_approval` |
| Event log | `EventLog` implements `EvidenceLog`, proofs `EventLogSafety` | `event_log` |
| Watchers, response, heartbeat | `Watch`, proofs `WatchSafety` | `watch` |
| Gate: admission | `Verdict`, `Gate`, proofs `GateSafety` | `gate` |
| Gate: loops over untrusted input | `Scans`, proofs at the end of `GateSafety` | `scans` |
| Gate: one inspection | `StaticScan` (passes), `PickleScan`, `Sandbox`, composed by `Inspection`; proofs `InspectionSafety` | `inspection` |
| Decoys | `Canary`, proofs `CanarySafety` | `canary` |

`X.cfg` with `MCX` instantiates a module for TLC. In the modules for which what goes wrong is chosen per behaviour,
a constant set of *environments* holds the budgets: TLC explores each alone, so that faults that do
not meet do not multiply. A definition that is commented *seeded fault* is no part of a model: it is a plausible
bug, put in place of a definition to see that a property notices.

### Proofs in general

Every theorem of a `...Safety` module holds for every value of the constants that the model's named assumption allows:
any number of processes, files, keys or records, any bound, any budget of faults. Each module follows one plan: an
inductive invariant as a conjunction of named parts, one lemma per action that says what of it the action could
disturb, `InvInit`/`InvNext` and their like to join them, and the properties as consequences. Induction is taken from
well-founded orders: a set of numbers has a least element (`LeastOf`), a bounded one a last (`LastExists`), and among subsets of a
finite set there is a smallest. So two functions that satisfy the same recursion are equal, at the least place where they
are not: that is how the recursive functions of `CutLedger`, `Scans` and `Watch` are reasoned about.

The assumptions say what the code's own types and checks say: names are distinct from the marks for "none",
budgets and limits are natural numbers, sets of names that the code lists in memory are finite.

Every safety property that a passing run checks is a theorem. What stays with TLC is liveness (`OperationsEnd`, `StopCompletes`,
`EnforcerFollows`, `AppendsEnd`, `ReportsCome`, `ScansEnd`, `InspectionEnds`), which needs fairness and ENABLED, and the one finding
(`containment_race`), which is a counterexample.

### Next

- Models: the macOS and Windows commands of `Containment`; the initialisation of the recovery token.

## Containment

`CutLedger` is the file: a sequence of complete lines and a flag for an unterminated last piece.
`Unresolved` is the declarative reading of `unresolved_for`; `Walk` is its loop, and
`WalkAgrees` compares them on every reachable ledger.

`Containment` has processes: a watcher thread, a command, or a request inside the daemon.
`pc` is the place in the code, and each OS command, each read of the OS and each access to the ledger
is one action.

| Steps | Code |
|---|---|
| `Begin`, `Report` | `sequence.handle`, `CutDaemon._handle` / `_cut`, `zee cut`, `zee restore` |
| `Snapshot`, `NmcliOff`, `ListLinks`, `LinkDown` | `_cut_full_linux` |
| `Install` (`InstallNft`, `InstallIptables`), `AppendRules` | `_cut_egress_linux`: nft is one atomic command, iptables makes its chain and then appends rule after rule |
| `CheckCut`, `RecordCut` | read-back of `cut_full` / `cut_egress`, `record_or_report` |
| `ReadLedger`, `Undo` | `restore`, `_restore_targeted` |
| `NmcliOn`, `Sweep`, `Undo` | `_restore_linux_compat` |
| `RemoveRules`, `VerifyAbsent` | `_firewall_steps`, `_verify_absent` |
| `ReadbackRestore`, `MarkResolved` | `_readback`, the end of `restore` |
| `Crash`, `OtherTool` | a kill; NetworkManager or the operator |

A command's effect and its exit status are independent choices: one that reports success may have
done nothing, one that failed or timed out may have worked. Reading an interface may fail.
`Serialized` selects the daemon (one request at a time under its lock) or the direct mode (no lock).
`Required` is what a full cut's read-back must find disabled: what the cut attempted and every other interface that is listed.

History variables: `held` is what is off because of Zee; it drives no action. `lost` is what of it is
known to lack a record, after a kill in a cut or a reported ledger failure. `overtaken` is the processes whose full cut
was read back before another tool changed an interface. Only the properties read them.

Abstractions: the interfaces of a cut are taken one by one but in any order; the rules of an
egress cut are `none`, `partial` or `full`, and of the dozen commands that fill the iptables chains the last that was run is a step
(what the others leave is the same `partial`); the several re-reads of `_verify_absent` are one
answer; names, messages and exit texts are left out; the macOS and Windows commands are not modelled.

### Runs

| Run | Question |
|---|---|
| `containment_daemon` | daemon: recoverability, earned restores, cuts that are in force and can be found when they are announced, the inductive invariant, the ledger's two readings |
| `containment_direct` | direct mode, where operations interleave without a lock: nothing is unrecorded until a restore resolves it, every operation ends |
| `containment_race` | (violated) direct mode: a restore resolves a cut recorded while it ran |

Bounds: two processes (a race needs two); in the daemon two assets (one's resolve must not touch another's
record), two interfaces (partial failure needs two) and operations that start on a ledger of at most
one line (cut, then restore or cut); in the direct mode one asset, one interface and operations that start
on an empty ledger, so that all that follows happens while another is under way. One kill, one failed and (daemon) one torn write. Each
hazard above needs no more. The daemon's run has the iptables commands, whose installation and removal can stop halfway, the direct one nft. No run allows deadlock: an idle process can begin or another tool can act.

Fairness: weak fairness of every step of a process. Each command the code runs has a timeout, so a
process that is not killed always gets to its next step. Nothing is assumed of outcomes, of other
tools or of the start of operations.

### Finding

The violated run is a disagreement between the code and its comments; `PROJECT.json`
quotes both. The race leaves the user with a network that is off and a normal restore
that refuses; the emergency restore still works. The daemon is not affected.

Seen while modelling, without a run of its own:

- The record after a torn ledger line is glued to it and unreadable, and its cut is announced as applied
  (`cut_state.py:210`, against `cut_full.py:149`). The reader reports the damage, and the emergency restore works.
  `AppliedIsRecorded` therefore promises of an applied cut that it is found *or* that the reader learns of the damage.
- `recover_hint` ignores the damage flag and may point to a restore that is refused (`sequence.py:70`).
- On a host without `ip` nothing is confirmed, whatever `nmcli` reports.

### Proofs

`ContainmentSafety`, first in both modes, that is also when operations interleave without a lock:

- `TypeCorrect`.
- `AppliedIsFound` (`AppliedIsRecorded`): a reader of the ledger finds all that an applied cut changed, or a restore of its asset has
  resolved it, or the ledger is damaged and the reader says so.
- `CutsAreNamed` (`RecoverableUntilResolved`): with no resolving line in the ledger, what is held off is named by a
  cut line, or is in a cut under way, or was reported. It needs that every process between its first command and its record carries what it
  has switched off.

Then for `Serialized` and every value of the constants:
`DaemonInvariant`, `LedgerTellsWhatToUndo` (`Recoverable`), `RestoreIsEarned` (`RestoredMeansRestored`), and
`AppliedStaysInForce` (`AppliedIsInForce`): from the read-back of an applied cut to its announcement no interface is up, unless another tool
switched one on meanwhile, and all rules are there; without the lock a restore could take them away in between.

Neither property is inductive. `Recoverable` could be broken by `MarkResolved`, unless what the
restore read is what the ledger still holds and all of it is back on. That needs, step by step:
the lock excludes (`OneAtATime`); the restore's copy is the ledger's record (`RecordIsCurrent`); what
is held off is really off and only by installed means (`HeldIsOff`), so that a confirmed read-back
shows that nothing is held; an emergency restore that has not failed touched every switch
(`TouchedAll`); and the verdict has been earned at each later step (`VerdictIsEarned`).
Their conjunction with `TypeOK` and `Recoverable` is `DaemonInv` (`ContainmentInvariant`), which the run
`containment_daemon` checks too. The proof has one lemma per action; the steps that leave the
ledger alone go through `WorkStep`, the two that write it through `AppendKeeps`,
`AppendRecords` and `DamageStays` about the file. The only assumption is `ConstantsAssumption`
(distinct names, a finite set of interfaces, at least one); without `Serialized` the theorems are false (`containment_race`).

`WalkIsRight` (`WalkAgrees`), also in both modes: the reader's loop (`Walk`, a recursive function over the lines) ends with what the
declarative reading says (`Unresolved`). What is unresolved after the first i lines (`Held`) satisfies the loop's recursion
(`HeldSteps`), and the recursion has one solution.

Only model-checked: `OperationsEnd` (liveness).

## Privsep

`Privsep` is `CutDaemon` with its `AdminEngine`. The files (`config`, `perm`, `gen`, `saved`,
`action`, `ledger`) survive a kill, the memory does not. The lock admits one request: `step` is
`free`, or the place of its holder between two writes. What happens within one step touches one
file, so that a kill or a failed write can fall between any two of them.

| Steps | Code |
|---|---|
| `Challenge` | `_challenge`, `_check_args`, `bindings`, `Engine.request_config` |
| `Submit`, `SubmitExpired` | `_submit`, `Engine.submit` up to the saved digest |
| `Apply` | `AdminEngine._apply`: the bound facts are compared, `bump_gen` |
| `ActRestore`, `ActTamperSet`, `ActStop` | `_apply_admin` |
| `ActKeys`, `BootstrapKey` | `Engine._apply`, `Engine.bootstrap_key` |
| `ActAuto` | `_auto_set` |
| `ReadStaged`, `Install`, `AutoOff` | `_config_set`: read and check, replace, switch off |
| `Cut` | `_cut` with `permission.decide` |
| `StatusRead`, `StatusReply` | `_status`, which takes no lock |
| `TamperRead`, `CheckTamper` | `check_tamper`, outside and inside the lock |
| `Answer`, `AnswerOther` | `Handler.handle` with its `finally`: a stop closes the server whether the reply could be sent or not, and so does any request answered while the daemon is stopping |
| `Shutdown`, `Restart`, `Crash` | `serve`, the service manager, a kill |

A content stands for a file's bytes and its hash; `PolicyOf` is `permission.policy_hash`, which
sees only the automatic assets, so two configurations can have the same. `Submit` may use any
registered key, at any time after the request was issued: the approver signs everything. A staged
file may hold anything when it is read, and is compared with what was signed. `owner` is `_owner`, the daemon's only knowledge of who asked;
it keeps ids that are no longer pending until the next challenge. A refused request changes nothing and is no action; in
particular the rate limit and wrong codes only take behaviours away. The expiry of a request is a choice of
`SubmitExpired`; the pruning of expired digests is left out, for an expired request is refused before
its digest is looked up. A cut or restore is one action that may add a record: its commands are
`Containment`'s. A damaged `admin_keys.json` or `admin_gen` is not modelled.

History variables (`acts`, `uid` and `at` of a request, `covered`, `wasOn`, `differed`, `before`) are
read by the properties only.

### Runs

| Run | Question |
|---|---|
| `privsep_approvals` | approvals in any order around kills, failed writes, cuts and status requests: stale ones never act, cuts are covered, a configuration is what was signed and is installed once, the last key stays, a uid displaces only its own requests |
| `privsep_tamper` | a tamper cut means a real difference, or silence, in two periods in a row; a status that reads without the lock is honest; an approved stop ends the daemon |

Bounds: three approvals (turn on, replace, turn on again; or a stale one overtaken by another) of two uids with
`PENDING_PER_UID` = 2; three configurations, two of them with the same automatic
assets and one in dry run; two keys (the last key and one more); one kill and one failed write,
each at every point (`privsep_tamper` restarts after a stop instead of a kill). `privsep_approvals` uses the symmetry of uids and keys, which no property names. No
run allows deadlock: a killed or stopped daemon is restarted, and a running one can always make a tamper check.

Fairness (`privsep_tamper`): the holder of the lock goes on (its commands have timeouts and its writes end), the handler of
a stop ends (its socket has a time limit), and a server that was told to shut down does. That a stop gets that far is not assumed: the
handler's reply may fail, and it is the `finally` that closes the server then. Nothing is assumed of requests, checks or restarts.

### Observation

`_config_set` replaces the configuration and then writes the switch. If the second write fails, or the
daemon is killed between them, `decide` still accepts the old permission when the automatic assets are the
same, and a configuration whose `dry_run` was taken back starts to cut, against the comment at
`privsep/daemon.py:450`. What holds instead is `PolicyCovered`.

### Proofs

`PrivsepSafety`, for any number of uids, keys, configurations,
requests, kills and failed writes, from `ConstantsAssumption` only:

- `DaemonTypeCorrect`.
- `ApprovalsAreCurrent` (`ActsOnIssuedState`). Not inductive: it needs that what is bound to a pending or saved
  request are the facts of its issue, and that `gen` counts exactly the approvals acted on (`IssueInv`). `gen` only grows,
  so it also follows that no approval acts twice, whatever happens to the saved digests.
- `CutsAreCovered` (`PolicyCovered`), from what an enabled switch says of `covered` (`SwitchInv`).
- `StatusIsHonest` (`StatusOnWasOn`), inductive: the switch is only turned on for the configuration in force, so turning it on
  during a status request is itself the moment looked for.
- `ConfigWasSigned` (`ConfigIsSigned`), an action property: a configuration is only replaced by the content that was signed, by an
  approval that is used up on disk and since whose issue no other has acted. The staged file may have been rewritten at any moment before
  and after it was read; the invariant relates the bytes held between read and install to the request being acted on.
- `AuthorityIsKept` (`AuthorityStays`): a key on disk means a key in memory (`KeysInv`), although the two may
  differ after a failed write.
- `OthersStay` (`OnlyOwnDisplaced`): whose a request is, the daemon looks up in `owner`. The invariant says that every pending request has
  its entry there and that it is right, which needs that ids are given once: an entry left over never names another's request.
- `TamperCutsAreReal` (`TamperCutIsReal`): the thread reads the file before it waits for the lock. The invariant relates its copy, the strike
  and the history `differed` to the same period, and knows that the strike is reset with them.

Only model-checked: `StopCompletes` (liveness).

## Egress approval

`EgressApproval` is `Engine` (`egress/engine.py`). The state file (`saved`) survives a restart, requests, grants, held
flows and the batch do not. The enforcer is external: `blocked` is what it blocks, and any call to it may fail.

| Steps | Code |
|---|---|
| `SetUp` | `setup_allow`, `setup_protect`, `bootstrap_key`, `enable` and the single-key acknowledgement |
| `Ask` (`RequestConfig`), `Submit` | `request_config`, `submit` with `_apply`, `_release`: expired, unrecorded (the digest cannot be saved), egress grant, signed change |
| `Observe` (`Meter`, `Hold`, `HoldFails`, `NoteProtectedTouch`) | `observe` with `_classify` and `_hold`, `note_protected_touch` |
| `Ticks` (`Tick`) | `tick`: seal the batch, expire, retry releases, close grants, remind |
| `Recover` | `recovery_start`, `recovery_complete` |
| `Advance`, `Corrupt`, `Restart` | time, an unreadable file, a new process |

Times are small numbers of ticks; sizes are 1 or more units; a destination matches an entry of the allow-list
or not. The run `egress_approval` asks whether the engine's records, the enforcer and what was signed agree
(`EngineInv`, `SpendsWithinSigned`), whether only a quiet recovery empties the registry (`RecoveryIsQuiet`),
and whether the enforcer ends up where approval is (`EnforcerFollows`). Its ten environments put together what must
meet: set-up; sends with a failing enforcer; a restart; removal of keys; recovery with and without
an unreadable file. Fairness: the host calls `tick` over and over, and time passes.
Nobody is held to answer a request.

Observations:

- A restart forgets which destinations the enforcer blocks (`forgotten`); nothing opens them again.
- `recovery_start` on an unreadable file writes a fresh one, after which `bootstrap_key` registers a key that
  nobody signed for (`egress/engine.py:173`, `:209`, `:357`).

### Proofs

`EgressSafety`: `EngineInvariant` (`EngineInv`), `SpendsAreSigned` (`SpendsWithinSigned`), `RecoveryWaits` (`RecoveryIsQuiet`). The
conjunction of what the run checks is nearly inductive. What is missing is `Peaks`: the bytes asked for in a batch or a request have a
greatest element, since the code asks for a maximum and an approval is good for that many. The invariant has four parts (`FileOK`,
`GateOK`, `AskedOK`, `ClocksOK`), each of variables that change together, and each step is proved for a part at a time. That two keys stay
while approval is on needs a count over the set of keys after a removal (`StillKept`). `RecoveryIsQuiet` is an action property:
only the last step of a recovery empties the registry (`KeysGo`), and its guard reads a wait that was saved.

Only model-checked: `EnforcerFollows` (liveness).

## Event log

`EventLog` has writers that wait for the lock, read the tail, rotate, and append in two pieces, so that a
kill, a full disk or a failing read can fall between any two; and a reader, `verify_chain`, that takes no lock.
A hash is the number of the record it belongs to, `Genesis` for none. Edits change a record, strip its hash, remove it or
remove a rotated segment.

| Steps | Code |
|---|---|
| `Begin`, `Acquire`, `TimeOut` | `record_event` and its kin, the thread lock and the file lock of `_locked`, with their time limits |
| `ReadTail`, `Rotate`, `WritePiece`, `WriteRest` | `_chain_tail`, `_rotate_if_needed`, `_append` and `_write_all` |
| `WriteCut`, `Abandon`, `Stall` | a kill or an error while writing, before it, a holder that hangs |
| `List`, `ReadSegments`, `OpenPath`, `ReadLine`, `ReadRest`, `EndOfFile` | `verify_chain`: the directory is listed, rotated segments are read, the newest file is opened by name and read line by line while others append |

`EvidenceLog` is what a reader is promised: a sequence of records to which one is added at a time, each chained from
the last unless something had gone wrong. `KeepsPromise` is the refinement: the mapped log is the sequence of the
readable records in all files. It implies that a record that was once whole stays, in its place, whatever later appends meet.
`LogInv` has the exclusion of writers and that damage is reported at two lines at most; `VerdictIsTrue`
that an edit is reported and that writing alone is not mistaken for tampering but in the two cases below (`moved`, `caught`); `AppendsEnd` that nobody waits for ever.
Bounds: two writers, rotation after two lines, four records; the environments have two faults, an edit, a concurrent reader, a reader and
a fault, or a stall. Fairness: a writer that does not hang takes its next step. The run may stop when all is written, so
deadlock is not checked. The 64 KiB window of the tail read is not modelled.

Observations:

- A lost newline is repaired, but the record whose newline was lost is reported as a break (`telemetry/events_log.py:160`).
- After a failing tail read the next record is glued to a torn line.
- `verify_chain` lists the segments and then reads by name: a rotation in between is reported as
  tampering (`telemetry/events_log.py:470`). `NoFalseAlarm` excuses it (`moved`).
- A reader that comes to the end of the file inside a line that is being written reports it as `partial`, then reads its rest as a line of its
  own: `corrupted`, and the next record may count as a break (`telemetry/events_log.py:478`), against the docstring at lines 453-455, by which a
  line being written is "Not counted as tampering". `NoFalseAlarm` excuses it (`caught`).
- Of two edits the second can undo what gave the first away: once an inner line is removed, removing what follows it too
  leaves a valid shorter chain. `TamperingShows` is about one edit.

### Proofs

`EventLogSafety`, for any number of writers and records, every size of a file and every budget of faults, edits,
readings and stalls; assumed is `ConstantsAssumption` (no writer is called "free", sizes and budgets are numbers):

- `LogIsLocal` (`LogInv`): one writer at a time is past the lock, and each thing that went wrong is reported at two lines at most.
- `VerdictHolds` (`VerdictIsTrue`): an edit or a removal that is not of the last record is reported, however much is
  appended and rotated afterwards; and a log that nobody touched and whose writes succeeded is not, unless `moved` or `caught`.
- `PromiseIsKept` (`KeepsPromise`): the refinement. A step that makes a line whole (the rest of a record, a newline written behind an open line,
  the rotation of a file with an open line) is `Extend` if the line is a record; a fault that shows nothing is `Fault`; every other step stutters.

`InvHolds` is the induction. Two lines a fault is not inductive as it stands: a failed tail read costs nothing yet, but will
when the record chained from nothing is written, and a torn line will when the next one is glued to it. So `SlackFit` counts, at
each place of the lock holder, what is wrong and what is bound to be: the lines that cannot be excused (`Bad`, which excuses
no last line), one more if what will be chained next is not what is expected (`Cost`), and one more if what will be
written is glued on. It needs that only the last line of the file is ever open, and none is while nothing has failed
(`ShapeOK`), that ids are given once (`IdsOK`), and that a `prev` in flight is one that a reader finds (`PrevsOK`). An edit
leaves a line that is wrong wherever it is read (`Lasting`): the edited one, or the first hashed one behind what was removed
(`CutShows`), since its `prev` was right for the original beginning and that beginning's last id is not the new one's.

`Anomalies`, `Joined` and `Records` are recursive functions. Lemmas show that they exist and what they
are of an appended line (`RecursionExists`, `HashesAre`, `RecordsAre`, `JoinsAre`), by induction over the length: the
library's induction theorem takes an operator, so `Inductive` and `SequencesBuilt` state it about sets instead.
Only model-checked: `AppendsEnd` (liveness).

## Watch

`Watch` is `zee watch`: the host's files, the kernel's queue, one watcher thread per asset (inotify, kqueue or
`ReadDirectoryChangesW`), the response that runs on that thread, the request to the daemon, the heartbeat and the shutdown.

| Steps | Code |
|---|---|
| `Seed`, `StartLinux`, `StartOpen`, `StartAttach`, `StartWindows`, `StartFails` | `cli.watch`, `start` of each backend |
| `Idle`, `Read`, `SkipEvent`, `TakeEvent`, `StillMissing`, `Reregister...` | `_loop`, `_try_reregister` |
| `Notify`, `CutHere`, `AskFails`, `Ask`, `Answer`, `AnswerLost` | `sequence.handle`, `privsep/client.py` |
| `Serve`, `DaemonChanges`, `Beat` | the daemon, the heartbeat of `cli.py` |
| `StopAsk`, `StopJoin`, `Exit`, `Killed` | `stop`, the end of the command |

`Host` touches, deletes, renames, replaces and creates decoys at any moment. A file is a node, a path names a node or none;
descriptors are reused. The run `watch` asks whether a decoy that exists is watched (`WatchInv`), whether what is announced is
true, also of a request whose answer was lost (`ReportsAreTrue`), and whether changes and outages of the daemon are announced
(`ReportsCome`). Eleven hosts choose the backend, the decoys, the number of operations, one failure and one outage.
Fairness: the command's threads run, a request to the daemon ends (time limit), the heartbeat comes every 30 seconds; the host,
the operator and the daemon owe nothing. The command may end, so deadlock is not checked.

Observations:

- A rename gives `IN_MOVE_SELF` only; the path stays blind until its descriptor goes (`gap`). The comment near
  `watcher/backend_linux.py:195` expects `IN_IGNORED` to follow.
- An overflow of the inotify queue is not handled; one of the Windows buffer loses all notifications silently.
- On macOS a decoy replaced between `open` and attach is blind, and a failing attach leaks the descriptor.
- On Windows a last-access notification counts as a change (`watcher/backend_windows.py:49`), so that a read can cut.
- A loop that breaks ends its thread silently; `stop` abandons a response after two seconds.
- Nothing in `src/` takes the `watch.lock` that `watch_running` (`responder/permission.py:233`) looks for.

### Proofs

`WatchSafety`, for any number of assets, decoys, files and descriptors, on each platform: `WatcherInvariant` (`WatchInv`) and
`ReportsStayTrue` (`ReportsAreTrue`). Neither is inductive. The invariant `Inv` has one shape and three accounts.

- `WatcherOK`: the registry, the two queues, the thread and the response fit each other. A descriptor's entry names the decoy its file was
  created as (`EntryOK`), a decoy has one live descriptor but for inotify (`Single`), kqueue has one event of a descriptor (`Once`), a response is
  to the first event read (`RespondingOK`), a descriptor that is open and not attached belongs to the path being registered (`AttachingOK`).
- `Covered`, of each decoy: while its thread runs, it is pending, in `gap`, watched, or an event that will make the thread register it again
  is in the kernel's queue or among those read. With both empty and the thread idle that is `BlindSpotsHaveACause`.
- `Earned`, of each decoy and class: notifications made, plus events waiting, read and in hand, are no more than what was done to the decoy.
  It is a count over two queues (`Tally`); each step moves an event from one term to the next, merges events, or drops one. Merging is
  why kqueue can only notify less; the count is carried along by injections between positions (`TallySent`).
- `Honest`, of each asset: what is claimed of a request agrees with what is in flight and with what the daemon did.

Reused descriptors are why `Earned` is about a decoy's keys and not about descriptors: closing one takes its
event out of the queue (`Closed`), so that a key taken again (`FreeKey`) has no event of its former decoy. Assumption `WatchAssumption`:
finitely many decoys, a queue of at least one event, environments of the type their fields say.

Only model-checked: `ReportsCome` (liveness).

## Gate

`Verdict` is the scoring (`gate/scorer.py`) and the promotion rule. `Gate` has commands `zee gate add` and audits,
interleaved with each other, with updates of the source, drift of what is installed and kills.

| Steps | Code |
|---|---|
| `HashSource`, `MakeCopy`, `CopyFile` | `fetch_local`, keyed by content hash |
| `Build`, `Scan` | `inspect_source`, with the denylist |
| `Promote`, `MakeDir`, `InstallFile`, `Pin` | `promote_if_low`, the copy, the pin of `cli.py` |
| `Check`, `LoadDeny`, `OpenDeny`, `WriteDeny`, `FinishAudit` | `audit_pins`, `denylist.add_local` |
| `CopyFails`, `InstallFails`, `PinFails`, `DenyFails`, `Kill` | errors and kills at each of them |

A tree is a function from files to versions, its hash the tree itself. The history `was` names the causes a property excuses; each is
an event the model shows, none a general licence. The run `gate` asks whether what is installed passed and is watched (`GateInv`), whether what was denied stays
out (`DenialsHold`), and whether an audit tells of drift, and only of drift (`AuditsAreRight`). Seven environments: two
adds, an add and an audit, two audits, with the budgets of each. Commands end, so deadlock is not checked.

Observations:

- A half-copied quarantine directory is reused as it is (`gate/fetch.py:81`); two adds of one source share it.
- An audit that read the pins before a re-installation blames the new version and denylists it (`stale`).
- The denylist is read, emptied and written without a lock: a concurrent addition is lost, a concurrent scan sees none.
- A failing write of the denylist or of a pin is an uncaught error; an add cut short leaves a directory without a pin;
  a torn pin line takes the next one with it; a promotion refused because the target exists still exits 0.

### Proofs

`GateSafety`, for any number of adders, auditors, directories, files and versions: `InstalledPassedAndIsPinned` (`GateInv`), `DeniedStaysDenied`
(`DenialsHold`), `AuditsTellDrift` (`AuditsAreRight`). Nothing locks, so the invariant has to say who alone may still write what:
one process copies into a quarantine directory that is being filled (`QuarantineOK`), one installs into a directory whose state is
"installing" (`InstallOK`), one auditor writes the denylist as long as nothing was lost (`DenyOK`). From that follows what a tree or
the list holds while its writer is at work and when it has finished; `RefusedOK` and `ShownOK` relate the histories to the processes. A step that another
process takes is dealt with once, by the lemmas `...Kept`. That the scan decides by the copy and not by the source is used only where the
two are known to be equal (`CopyIsSource`). Assumptions: adders are not auditors, files are finitely many, "absent" is no tree, and each
environment is what the type of its fields says.

## Scans

`Scans` has the gate's loops over untrusted input, step by step, each as a kind of job: the two-pointer search for cues
near each other (`static_checks._g501_context`), `tampering._near`, the linear token search (`_first_ok_token`), the closure of
shell helpers (`agent_config._close_helpers`), the cutting of long lines, the safetensors spans and the GGUF table
(`modelfiles.py`). `ScansAreRight` compares every result with what it stands for, written without loops:
`CuesFound`, `NearIsFirst`, `TokenIsFirst`, `HelpersAreAll`, `PiecesHold`, `TiledExactly`, `GgufFits`. `ScansEnd`: every one ends
(weak fairness of the loop). Inputs are enumerated completely up to small sizes: positions 0..5, three tokens among three separators, all call graphs of three
functions, three tensors over three bytes, two GGUF tensors with block sizes, alignments and truncated reads. A finished scan
stops, so deadlock is not checked.

Observation: an empty tensor inside another one is refused like a hole.

### Proofs

`ScansFindAll` (`ScansAreRight`), in the second part of `GateSafety`, for inputs of any size: lists of any length, any graph of calls,
any table of tensors. A scan's job fixes its kind, so the invariant (`ScanInv`) has one independent part per kind, which says what is
already known between two turns of the loop.

| Scan | Between two turns | Why the result follows |
|---|---|---|
| cues | `CuesOK`: no pair with a passed member is close (`Passed`) | both lists ascend: the smaller of two that are too far apart is far from all that follow |
| near | `NearSoFar`: no earlier line has a close partner, and lines of b left behind are too low | they are too low for later lines too |
| tokens | `TokensOK`: no earlier token matches; the separator last looked at is the one behind one of them | tokens do not overlap, so those before one separator match together (`SharesItsLook`) |
| helpers | `HelpersOK`: found is within every closed set, and closed but for what is left to take | the least closed set |
| line | `LineOK`: every place before the position is less than a step behind the start of a piece | what fits the overlap lies whole in that piece |
| spans | `Laid`, `TiledByCount`: what was taken in order of offset lies without hole or overlap | a tensor out of place leaves a hole or an overlap behind it |
| GGUF | `GgufSoFar`: the position is the sum of the entries read (`Sums`), `far` the greatest end | the table's end is that sum, and the data starts at its multiple |

Assumption `JobsAssumption`: lists ascend, tokens do not overlap, tensors are finitely many, and every field is of its type.
Only model-checked: `ScansEnd` (liveness).

## Inspection

`StaticScan` has the passes over a tree as functions from files to findings (the main checks, agents, tampering, TLS, model files, manifests, hooks,
imported reports). A file is a record of what those passes tell apart (suffix, format, size, readable or not, marks, whether a line is over
2000 characters long and what is only said behind them); what a pattern matches is one of its marks.
A read may fail in one pass only, at the opening or at a later read of that pass (`failing`, `later`); which of the two is chosen per pass
and file, so that a file that fails later fails for the rest of that pass. `PickleScan` runs the scanner beside a loader, opcode by
opcode. `Sandbox` is the behavioural run: the hook and the children it leaves, the sink, the time limit, and the order in which
the runner reads its traces. `Inspection` composes them in the order of `inspect_source`, to the verdict.

| Steps | Code |
|---|---|
| `MainPass`, `AgentPass`, `TamperingPass`, `ModelPass`, `TlsPass` | `scan_tree` of each module |
| `PickleStep` | `modelfiles._scan_pickle` |
| `Manifests`, `Hooks`, `Imported` | `adapters.py`, `inspector.py`, `imports.py` |
| `RunnerStep`, `SinkStep`, `ArtifactStep` | `sandbox/runner.py`, `sandbox/netsink.py`, external |
| `Conclude` | scoring, status from the gaps |

The run `inspection` asks: does the scanner see what a loader imports (`ScannerInv`); was everything read when it says
complete, but for what the observations below name (`CompleteMeansRead`); does what is promoted run nothing (`PromotedRunsNothing`); can a file switch a check off
(`SmallerPasses`); is what the hook did told, consistently (`BehaviourIsTold`); does it end (`InspectionEnds`).
Inputs: single files of each kind with one failing read, pairs and triples that compete for the limit on held text or companion rules, links and
reports, all pickle streams of up to four opcodes, behavioural runs with a child that survives. Fairness: the inspection, the pickle scan and the runner go on (their
commands have time limits and files end); the artifact is free. A finished inspection stops, so deadlock is not checked.

Observations:

- `agent_config.py` cuts every line at 2000 characters for the rules that go line by line (`gate/agent_config.py:42`, `:56-58`), and no pass
  reports what it did not look at: a complete verdict does not mean that the end of a long line was seen. `CompleteMeansRead` excuses it (`AgentsSkip`).
- A read that fails only in a later pass is silent (`gate/modelfiles.py:690`). So is text that does not parse, for the rules that parse it:
  JSON in the agent pass (`gate/agent_config.py:307-311`), a plugin's definition in the tampering pass, Python in the AST checks.
- A file that fails when it is opened a second time, after it was taken for safetensors by its head and for a pickle by its name, ends the inspection with an
  uncaught error (`gate/modelfiles.py:701`).
- The same nesting error in a manifest is not caught (`gate/adapters.py:58`, `:92`); an imported report of an unexpected shape raises,
  although the docstring of `imports.py` says that a bad path never aborts.
- An unreadable zip member not named `.pkl` passes without a flag (against the comment at `gate/modelfiles.py:293`);
  members past the cap, nested and encrypted ones are not gaps.
- A child in its own session survives the run (the comment at `gate/sandbox/runner.py:248` says so); what a hook writes and
  removes again, and a connection heard after the results are read, are not told. The sink reads each connection once (64 KiB).

### Proofs

`InspectionSafety`, for trees of any size, pickles of any length and any behavioural run. Its invariant `Inv` has three parts.

- `ScannerOK`, for `WhatLoadsWasSeen` (`ScannerInv`). The scanner keeps the last strings and a memo, the loader a stack and a memo of values. `StackAgrees` says
  that what the scanner remembers is, in order, on the loader's stack, and `MemoAgrees` the same of the memo, both until the loader
  raises; without them a `STACK_GLOBAL` could resolve to other strings than the scanner lists. What the scanner cannot know is `Other`, and is counted.
- `SandboxOK`, for `WhatHappenedIsTold` (`BehaviourIsTold`): what was sent, heard and answered (`WireOK`), what the history noted
  (`PastOK`), what the runner read at each of its phases (`ExfilOK`) and the flags it made of it (`ToldOK`) tell the same story,
  however the artifact's steps fall between those of the sink and the runner.
- `InspectionOK`, for `CompleteReadEverything` (`CompleteMeansRead`) and `PromotedIsHarmless` (`PromotedRunsNothing`): each pass that is over has left its flags,
  for the reads that failed in it, early or late (`PassesOK`). Promotion is by counts of flags, and a count tells whether there are any only of a finite set: `AllFlags` is one
  (`AllFlagsFinite`), and every pass stays within it. `PromotedRunsNothing` then goes through the opcodes and zip members of a file
  (`ModelFlagsTell`).

`FewerFilesPass` (`SmallerPasses`) compares a tree with the same tree less one file. `Within` maps the positions of one into the other,
in order; the text held up to a file in the smaller tree is then no more than in the larger (`FewerBefore`, an injection between finite
sets), so a file that is read there is read here, and no pass finds anything new.

Assumptions: names, strings, decoys, hosts and paths are finite sets; a tree is a sequence of files of `FileType`; a file whose pickle is
given opcode by opcode is one the scanner reads to its end (`ScannedWhole`). Only model-checked: `InspectionEnds` (liveness).

## Canary

`Canary` has processes that seed decoys (`seeder.seed`, `issue_for_decoy`) and issue addresses (`issue_place_email`,
`issue_query_canary`) through one registry file; seeding takes no lock, issuing does. The base URL may change between
them. An append, and the writing of a decoy, can be cut short.

| Steps | Code |
|---|---|
| `StartSeed`, `AlreadyThere`, `Reuse`, `Mint`, `Persist`, `Open`, `Fill`, `Seeded` | `seeder.seed`, `CanaryTokenRegistry` |
| `StartAddress`, `Enter`, `LockBusy`, `Known`, `Refused`, `DrawAlias`, `PersistAlias`, `Recheck` | `issue_place_email` under `HostLock` |
| `Crash`, `RemoveDecoy` | a kill, a deleted decoy |

The run `canary` asks whether every token in a decoy, and every address handed out, can be attributed (`TokensAttribute`): its line is in the
file unless an append was glued to it, and `locate` answers with the address's place or raises, never with another place or "unknown"; it and
`issue_place_email` raise only after an append was cut short (`StopsOnlyForATear`: no interleaving of watches with the lock's holder makes the table corrupt). It also asks
whether a decoy has one URL per base unless its watch had not seen the first, a place one address, and the cap holds (`RegistryInv`). Bounds: one decoy, two
places with a cap of one, two domains and base URLs, two processes, three tokens and two faults, at most four of them together. Tokens are random 128-bit
numbers and taken to be distinct. The file-mode checks only refuse more and are left out, and so are decoys whose template takes no URL.

Observations:

- Two watches may both find a decoy missing, and the second overwrites what the first wrote, against "Existing
  files are left alone" (`decoy/seeder.py:163`, `:179`); a half-written decoy is never completed.
- The record after a torn append is glued to it (`decoy/canary_token.py:267`), and an unreadable registry counts as empty when a decoy is seeded.
- One append that is cut short, by a watch just as well, makes `_records` raise from then on (`decoy/place_email.py:86`): no address of any
  place can be issued or attributed until someone repairs the file by hand, which nothing in the code does. This is the "corrupt table stops the
  run" of its docstring; `is_known_value` and the seeding skip the same line.

### Proofs

`CanarySafety`: `RegistryInvariant` (`RegistryInv`), `TokensAreAttributed` (`TokensAttribute`). All that is said of the file rests on what an append does to it,
cut short or not (`WriteChanges`): a line stays, or is spoiled for good and its token counted as `glued`; nothing is put where a line was but an unreadable
one. The invariant adds what each call knows of the file: a seeding call the lines it had loaded (`Unseen` up to `from`), an issuing
call that it alone is in the lock and what the table holds (`AddressOK`). Two tokens that were drawn and not yet written differ (`TokensOnce`). The cap counts the
places of the file (`PlacesCounted`); only the line of an address adds one (`PlacesGrow`), of a place that the caller in the lock has seen to have none.
That the table is sound whenever it can be read (`SoundTable`) gives what `locate` answers. Assumptions: places are finitely many, and "no base" is no base URL.

## Not modelled

Formatting, parsing of command output, notification and mail, the text of the gate's patterns,
report rendering and data generation have no state for a state machine to describe. The recovery token is written
once; of two initialisations at the same time the last wins, which is all there is to say of their order. The MCP server, doctor and status read what others
write. `PROJECT.json` gives the reason for each part.
