------------------------------- MODULE EventLog -------------------------------
(***************************************************************************)
(* The hash-chained event log (telemetry/events_log.py): writers of        *)
(* several processes append under a lock with a bounded wait, the file is  *)
(* rotated, and verify_chain reads the segments without the lock.          *)
(*                                                                         *)
(* A record's hash is its id, that is, hashes do not collide.  A line is   *)
(* written in two pieces, so that what is there after a crash, a failed    *)
(* write, or for a reader in between, is in the model.  Sizes are counted  *)
(* in lines.                                                               *)
(***************************************************************************)
EXTENDS Naturals, Sequences, FiniteSets

CONSTANTS
    Writers,        \* threads and processes that append
    MaxLines,       \* lines of a file that is rotated
    MaxRecords,     \* bound: records appended
    Environments    \* what goes wrong in a behaviour: see `env'

Ids == 1..MaxRecords
Genesis == 0
NoHash == MaxRecords + 1
Free == "free"

ASSUME ConstantsAssumption ==
    /\ Free \notin Writers
    /\ MaxLines \in Nat \ {0} /\ MaxRecords \in Nat
    /\ \A e \in Environments : {e.faults, e.edits, e.reads, e.stalls} \subseteq Nat /\ e.legacy \in BOOLEAN

VARIABLES
    segments,     \* rotated files, by sequence number
    current,      \* the lines of the file at path
    exists,       \* is there a file at path?
    lock,         \* holder of both locks
    pc, mine,     \* of each writer: where it stands, the record it appends
    prev, needsNl,
    nextId,
    reader,       \* verify_chain: what was listed, where it stands, what it has read
    verdict,      \* what it reported
    env, faults, edits, reads, stalls,
    \* history
    cutOff,       \* was a line ever edited or removed that was not the last record?
    moved,        \* was the file rotated after it was listed and before it was opened?
    caught        \* did the reader meet a line half written, and then its rest?

disk == <<segments, current, exists>>
writer == <<pc, mine, prev, needsNl, nextId>>
reading == <<reader, verdict, reads, moved, caught>>
meddling == <<edits, cutOff>>
vars == <<disk, lock, writer, reading, meddling, env, faults, stalls>>

\* "piece" is the beginning of a line, "junk" what was glued to one.
RecordLine(id, p, nl) == [kind |-> "record", id |-> id, prev |-> p, nl |-> nl]
Piece == [kind |-> "piece", id |-> NoHash, prev |-> NoHash, nl |-> FALSE]
Junk == [Piece EXCEPT !.kind = "junk"]
LegacyLine == [kind |-> "legacy", id |-> NoHash, prev |-> NoHash, nl |-> TRUE]

\* The reader: the segments listed, and whether the file at path was; what the
\* lines read so far were, and how many were of older files; the number of the
\* file that it has open and of the line in it, and that line as it was read.
NotReading ==
    [pc |-> "idle", listed |-> 0, cur |-> FALSE, lines |-> <<>>, older |-> 0,
     file |-> 0, at |-> 0, part |-> LegacyLine]

-----------------------------------------------------------------------------
(* Reading the tail.                                                       *)

Terminated(lines) ==
    IF lines # <<>> /\ ~lines[Len(lines)].nl THEN SubSeq(lines, 1, Len(lines) - 1) ELSE lines

Hashed(lines) == {i \in DOMAIN lines : lines[i].kind \in {"record", "edited"}}

\* _tail: the last hash among the terminated lines.
TailHash(lines) ==
    LET t == Terminated(lines)
        last == CHOOSE i \in Hashed(t) : \A j \in Hashed(t) : j <= i
    IN  IF Hashed(t) = {} THEN NoHash ELSE t[last].id

\* _chain_tail: the newest file that is not empty decides.
ChainTail ==
    IF current # <<>> THEN TailHash(current)
    ELSE IF segments # <<>> THEN TailHash(segments[Len(segments)]) ELSE NoHash

NeedsNewline == current # <<>> /\ ~current[Len(current)].nl

-----------------------------------------------------------------------------
(* Writing.                                                                *)

\* The bytes s are written behind `lines': a line without its newline is ended
\* by nl, or glued to.
Behind(lines, nl, line) ==
    LET n == Len(lines)
        open == n > 0 /\ ~lines[n].nl
    IN  IF ~open THEN Append(lines, line)
        ELSE IF nl THEN Append([lines EXCEPT ![n].nl = TRUE], line)
        ELSE [lines EXCEPT ![n] = Junk]

Faulty(n) == faults + n <= env.faults /\ faults' = faults + n

At(w, from, to) == pc[w] = from /\ pc' = [pc EXCEPT ![w] = to]

Init ==
    /\ env \in Environments
    /\ segments = <<>>
    /\ current = IF env.legacy THEN <<LegacyLine>> ELSE <<>>
    /\ exists = env.legacy
    /\ lock = Free
    /\ pc = [w \in Writers |-> "idle"]
    /\ mine = [w \in Writers |-> NoHash]
    /\ prev = [w \in Writers |-> Genesis]
    /\ needsNl = [w \in Writers |-> FALSE]
    /\ nextId = 1
    /\ reader = NotReading
    /\ verdict = "none"
    /\ faults = 0 /\ edits = 0 /\ reads = 0 /\ stalls = 0
    /\ cutOff = FALSE /\ moved = FALSE /\ caught = FALSE

\* A record is to be appended: wait for the lock, for a bounded time.
Begin(w) ==
    /\ nextId \in Ids
    /\ At(w, "idle", "waiting")
    /\ mine' = [mine EXCEPT ![w] = nextId]
    /\ nextId' = nextId + 1
    /\ UNCHANGED <<disk, lock, prev, needsNl, reading, meddling, env, faults, stalls>>

Acquire(w) ==
    /\ At(w, "waiting", "locked")
    /\ lock = Free
    /\ lock' = w
    /\ UNCHANGED <<disk, mine, prev, needsNl, nextId, reading, meddling, env, faults, stalls>>

\* Seeded fault: the lock is waited for without end.
WaitOn(w) == Acquire(w)

\* The lock is not acquired in time: the record is dropped.
TimeOut(w) ==
    /\ At(w, "waiting", "idle")
    /\ lock # Free
    /\ UNCHANGED <<disk, lock, mine, prev, needsNl, nextId, reading, meddling, env, faults, stalls>>

\* The tail is read, or cannot be.
ReadTail(w, ok) ==
    /\ At(w, "locked", "read")
    /\ Faulty(IF ok THEN 0 ELSE 1)
    /\ prev' = [prev EXCEPT ![w] = IF ok /\ ChainTail # NoHash THEN ChainTail ELSE Genesis]
    /\ needsNl' = [needsNl EXCEPT ![w] = ok /\ NeedsNewline]
    /\ UNCHANGED <<disk, lock, mine, nextId, reading, meddling, env, stalls>>

\* Seeded fault: a sequence number is given twice.
RotatedOver ==
    IF segments = <<>> THEN <<current>> ELSE [segments EXCEPT ![Len(segments)] = current]

\* The highest sequence number is the last segment's.
Rotated == Append(segments, current)

\* Rotation by size, unless the rename fails.
Rotate(w, ok) ==
    /\ At(w, "read", "ready")
    /\ Faulty(IF ok THEN 0 ELSE 1)
    /\ ok \/ Len(current) >= MaxLines
    /\ IF ok /\ Len(current) >= MaxLines
       THEN /\ segments' = Rotated
            /\ current' = <<>> /\ exists' = FALSE
            /\ needsNl' = [needsNl EXCEPT ![w] = FALSE]
            /\ moved' = (moved \/ reader.pc \in {"reading", "path"})
       ELSE UNCHANGED <<disk, moved>> /\ needsNl' = [needsNl EXCEPT ![w] = @ /\ exists]
    /\ UNCHANGED <<lock, mine, prev, nextId, reader, verdict, reads, caught, meddling, env, stalls>>

\* The first bytes of the line reach the file.
WritePiece(w) ==
    /\ At(w, "ready", "writing")
    /\ exists' = TRUE
    /\ current' = Behind(current, needsNl[w], Piece)
    /\ UNCHANGED <<segments, lock, mine, prev, needsNl, nextId, reading, meddling, env, faults,
                   stalls>>

Unlock(w) == lock' = IF lock = w THEN Free ELSE lock

\* What the piece becomes with the rest of the line; glued to, it stays junk.
Completed(w, nl) ==
    [current EXCEPT ![Len(current)] =
        IF @ = Piece THEN RecordLine(mine[w], prev[w], nl) ELSE [@ EXCEPT !.nl = nl]]

WriteRest(w) ==
    /\ At(w, "writing", "idle")
    /\ current' = Completed(w, TRUE)
    /\ Unlock(w)
    /\ UNCHANGED <<segments, exists, mine, prev, needsNl, nextId, reading, meddling, env, faults,
                   stalls>>

\* The disk is full, or the writer is killed: a piece of the line is there,
\* or all of it but the newline.
WriteCut(w, whole) ==
    /\ At(w, "writing", "idle")
    /\ Faulty(1)
    /\ current' = IF whole THEN Completed(w, FALSE) ELSE current
    /\ Unlock(w)
    /\ UNCHANGED <<segments, exists, mine, prev, needsNl, nextId, reading, meddling, env, stalls>>

\* Before that, a kill or an error leaves nothing.
Abandon(w) ==
    /\ pc[w] \in {"locked", "read", "ready"}
    /\ pc' = [pc EXCEPT ![w] = "idle"]
    /\ Faulty(1)
    /\ Unlock(w)
    /\ UNCHANGED <<disk, mine, prev, needsNl, nextId, reading, meddling, env, stalls>>

\* The holder of the lock hangs.
Stall(w) ==
    /\ stalls < env.stalls
    /\ lock = w
    /\ pc[w] # "hung"
    /\ pc' = [pc EXCEPT ![w] = "hung"]
    /\ stalls' = stalls + 1
    /\ UNCHANGED <<disk, lock, mine, prev, needsNl, nextId, reading, meddling, env, faults>>

-----------------------------------------------------------------------------
(* verify_chain.  `expected' is the last chained record's claimed hash.    *)

StatusOf(line, expected, newest) ==
    CASE line.kind \in {"piece", "junk"} -> IF newest /\ ~line.nl THEN "partial" ELSE "corrupted"
      [] line.kind = "legacy" -> IF expected = NoHash THEN "legacy" ELSE "legacy_after_chain"
      [] line.kind = "edited" -> "corrupted"
      [] line.kind = "record" ->
            IF expected = NoHash THEN IF line.prev = Genesis THEN "ok" ELSE "head_missing"
            ELSE IF line.prev = expected THEN "ok" ELSE "chain_break"

Tampering == {"corrupted", "chain_break", "head_missing", "legacy_after_chain"}

\* Seeded fault: only a good record is followed.
FollowGood(line, expected) ==
    IF line.kind = "record" /\ (expected = NoHash \/ line.prev = expected) THEN line.id ELSE expected

\* The claimed hash is followed, so that damage stays where it is.
Follow(line, expected) == IF line.kind \in {"record", "edited"} THEN line.id ELSE expected

\* Seeded fault: lines are not compared with one another.
Unparsable(lines) == {i \in DOMAIN lines : lines[i].kind \in {"piece", "junk", "edited"}}

\* The hash that is expected after each line.
ClaimedHashes(lines) ==
    LET expected[i \in 0..Len(lines)] == IF i = 0 THEN NoHash ELSE Follow(lines[i], expected[i - 1])
    IN  expected

\* The lines that are reported when those behind the first `older' are what was
\* read of the newest file, line by line.
Reported(lines, older) ==
    {i \in DOMAIN lines : StatusOf(lines[i], ClaimedHashes(lines)[i - 1], i > older) \in Tampering}

\* The lines that are reported when all are read at once, so that only the
\* newest file's last line can be open.
Anomalies(lines) ==
    {i \in DOMAIN lines : StatusOf(lines[i], ClaimedHashes(lines)[i - 1], i = Len(lines)) \in Tampering}

Joined(n) ==
    LET join[i \in 0..n] == IF i = 0 THEN <<>> ELSE join[i - 1] \o segments[i]
    IN  join[n]
AllLines == Joined(Len(segments)) \o current

\* The directory is listed.
List ==
    /\ reader.pc = "idle" /\ reads < env.reads
    /\ reads' = reads + 1
    /\ reader' = [NotReading EXCEPT !.pc = "reading", !.listed = Len(segments), !.cur = exists]
    /\ moved' = FALSE /\ caught' = FALSE /\ verdict' = "none"
    /\ UNCHANGED <<disk, lock, writer, meddling, env, faults, stalls>>

\* The rotated segments that were listed do not change any more.
ReadSegments ==
    /\ reader.pc = "reading"
    /\ reader' = [reader EXCEPT !.pc = "path", !.lines = Joined(reader.listed)]
    /\ UNCHANGED <<disk, lock, writer, verdict, reads, moved, caught, meddling, env, faults, stalls>>

Returns(answer) == reader' = NotReading /\ verdict' = answer
Judged(wrong) == IF wrong = {} THEN "clean" ELSE "tampered"

\* The file at path is opened, by name; without it the last segment is newest.
OpenPath ==
    /\ reader.pc = "path"
    /\ \/ ~reader.cur /\ Returns(Judged(Anomalies(reader.lines)))
       \/ reader.cur /\ ~exists /\ Returns("read_error")
       \/ /\ reader.cur /\ exists
          /\ reader' = [reader EXCEPT !.pc = "lines", !.file = Len(segments) + 1,
                                      !.older = Len(reader.lines)]
          /\ UNCHANGED verdict
    /\ UNCHANGED <<disk, lock, writer, reads, moved, caught, meddling, env, faults, stalls>>

\* It stays the same file when it is rotated.
OpenFile == IF reader.file <= Len(segments) THEN segments[reader.file] ELSE current

\* The next line, as far as it is there.
ReadLine ==
    /\ reader.pc = "lines" /\ reader.part.nl /\ reader.at < Len(OpenFile)
    /\ LET line == OpenFile[reader.at + 1]
       IN  reader' = [reader EXCEPT !.at = @ + 1, !.lines = Append(@, line), !.part = line]
    /\ UNCHANGED <<disk, lock, writer, verdict, reads, moved, caught, meddling, env, faults, stalls>>

\* What has come since to a line that was not ended: its newline alone is a
\* blank line, anything else is one that does not parse.
ReadRest ==
    /\ reader.pc = "lines" /\ ~reader.part.nl /\ OpenFile[reader.at] # reader.part
    /\ LET line == OpenFile[reader.at]
           newline == line = [reader.part EXCEPT !.nl = TRUE]
       IN  \/ /\ newline
              /\ reader' = [reader EXCEPT !.part = line]
              /\ UNCHANGED caught
           \/ /\ ~newline \/ line.kind = "junk"
              /\ reader' = [reader EXCEPT !.part = line, !.lines = Append(@, [Junk EXCEPT !.nl = line.nl])]
              /\ caught' = TRUE
    /\ UNCHANGED <<disk, lock, writer, verdict, reads, moved, meddling, env, faults, stalls>>

EndOfFile ==
    /\ reader.pc = "lines" /\ reader.at = Len(OpenFile)
    /\ ~reader.part.nl => OpenFile[reader.at] = reader.part
    /\ Returns(Judged(Reported(reader.lines, reader.older)))
    /\ UNCHANGED <<disk, lock, writer, reads, moved, caught, meddling, env, faults, stalls>>

Verifies == List \/ ReadSegments \/ OpenPath \/ ReadLine \/ ReadRest \/ EndOfFile

-----------------------------------------------------------------------------
(* Somebody edits a line, removes one, or removes a rotated segment.       *)

Edit ==
    /\ edits < env.edits /\ reader.pc = "idle"
    /\ edits' = edits + 1
    /\ \/ \E i \in DOMAIN current :
            /\ current[i].kind = "record" /\ current[i].nl
            /\ cutOff' = (cutOff \/ \E j \in Hashed(current) : j > i)
            /\ \/ current' = [current EXCEPT ![i].kind = "edited"]
               \/ current' = [current EXCEPT ![i] = LegacyLine]
               \/ current' = SubSeq(current, 1, i - 1) \o SubSeq(current, i + 1, Len(current))
            /\ UNCHANGED <<segments, exists>>
       \/ /\ segments # <<>>
          /\ segments' = Tail(segments)
          /\ cutOff' = (cutOff \/ \E i \in Hashed(segments[1]), j \in Hashed(AllLines) : j > Len(segments[1]))
          /\ UNCHANGED <<current, exists>>
    /\ UNCHANGED <<lock, writer, reading, env, faults, stalls>>

Steps(w) ==
    \/ Acquire(w) \/ TimeOut(w) \/ WritePiece(w) \/ WriteRest(w) \/ Abandon(w)
    \/ \E b \in BOOLEAN : ReadTail(w, b) \/ Rotate(w, b) \/ WriteCut(w, b)

Next ==
    \/ \E w \in Writers : Begin(w) \/ Steps(w) \/ Stall(w)
    \/ Verifies \/ Edit

(***************************************************************************)
(* A writer that does not hang takes its next step; the wait for the lock  *)
(* is bounded (_LOCK_TIMEOUT_SEC).                                         *)
(***************************************************************************)
Fairness == \A w \in Writers : WF_vars(Steps(w))

Spec == Init /\ [][Next]_vars /\ Fairness

-----------------------------------------------------------------------------
(* Properties.                                                             *)

Line == [kind : {"record", "piece", "junk", "edited", "legacy"}, id : Nat, prev : Nat, nl : BOOLEAN]

TypeOK ==
    /\ env \in Environments
    /\ segments \in Seq(Seq(Line)) /\ current \in Seq(Line)
    /\ {exists, cutOff, moved, caught} \subseteq BOOLEAN
    /\ lock \in Writers \cup {Free}
    /\ pc \in [Writers -> {"idle", "waiting", "locked", "read", "ready", "writing", "hung"}]
    /\ mine \in [Writers -> Nat] /\ prev \in [Writers -> Nat] /\ needsNl \in [Writers -> BOOLEAN]
    /\ nextId \in 1..NoHash
    /\ reader \in [pc : {"idle", "reading", "path", "lines"}, listed : Nat, cur : BOOLEAN,
                   lines : Seq(Line), older : Nat, file : Nat, at : Nat, part : Line]
    /\ verdict \in {"none", "clean", "tampered", "read_error"}
    /\ faults \in 0..env.faults /\ edits \in 0..env.edits
    /\ reads \in 0..env.reads /\ stalls \in 0..env.stalls
    \* Only the holder of the lock is past it.
    /\ \A w \in Writers : pc[w] \notin {"idle", "waiting"} <=> lock = w

(* The records a reader finds: every whole line but one still being        *)
(* written, which a later newline ends.                                    *)
Records(lines) ==
    LET found[i \in 0..Len(lines)] ==
            IF i = 0 THEN <<>>
            ELSE IF lines[i].kind = "record" THEN Append(found[i - 1], lines[i])
            ELSE found[i - 1]
    IN  found[Len(lines)]
Readable == Records(Joined(Len(segments)) \o Terminated(current))

(* The files hold what EvidenceLog promises: whatever the writers, the     *)
(* rotation and the crashes do, records are only added, each once, and     *)
(* each is chained from the last one unless something had gone wrong.      *)
Promise ==
    INSTANCE EvidenceLog WITH log <- [i \in DOMAIN Readable |-> [id |-> Readable[i].id, prev |-> Readable[i].prev]],
                              edited <- (edits > 0)
KeepsPromise == Promise!Spec

(* Damage stays local: each thing that went wrong is reported at no more   *)
(* than two lines, a torn one and the one that follows.                    *)
DamageIsLocal == edits = 0 => Cardinality(Anomalies(AllLines)) <= 2 * faults

(* An edit, a stripped hash, a removed line or a removed segment is        *)
(* reported, unless it concerned the last record (verify_chain's "honest   *)
(* limits": truncation leaves a valid shorter chain).  Of two edits the    *)
(* second can remove what the first one left unchained.                    *)
TamperingShows == faults = 0 /\ edits = 1 /\ cutOff => Anomalies(AllLines) # {}

(* The log's invariant: well formed, one writer at a time, damage local.   *)
LogInv == TypeOK /\ DamageIsLocal

(* verify_chain takes no lock.  What it reports while writers append and   *)
(* rotate is tampering, or a fault, or one of two things: the file was     *)
(* rotated after it was listed and before it was opened; or the reader     *)
(* came to the end of the file inside a line that was being written, and   *)
(* then read the rest of that line as one of its own.                      *)
NoFalseAlarm == verdict = "tampered" => faults > 0 \/ edits > 0 \/ moved \/ caught

(* So its verdict can be relied on, both ways.                             *)
VerdictIsTrue == TamperingShows /\ NoFalseAlarm

(* Every append ends, although another thread or process holds the lock    *)
(* for ever: the defence is not stalled by its evidence.                   *)
AppendsEnd == \A w \in Writers : pc[w] # "idle" ~> pc[w] \in {"idle", "hung"}
=============================================================================
