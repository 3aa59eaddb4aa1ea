------------------------------ MODULE CutLedger ------------------------------
(***************************************************************************)
(* The cut ledger (telemetry/cut_state.py): an append-only file of "cut"   *)
(* and "resolved" lines, shared by every process that cuts or restores.    *)
(*                                                                         *)
(* A ledger is a sequence of complete lines.  A separate flag `torn' says  *)
(* that the file ends in a piece without a newline: an append that the OS  *)
(* cut short.  The next append continues that piece, so its own record     *)
(* becomes part of one unreadable line.                                    *)
(***************************************************************************)
EXTENDS Naturals, Sequences

(***************************************************************************)
(* One line of the file.  `modified' is the set of (kind, name) pairs of   *)
(* CutRecord.entries(); a target stands for its pair.  A junk line is one  *)
(* that _parse rejects.                                                    *)
(***************************************************************************)
CutLine(a, modified) == [type |-> "cut", asset |-> a, modified |-> modified]
ResolvedLine(a) == [type |-> "resolved", asset |-> a, modified |-> {}]
JunkLine == [type |-> "junk", asset |-> "none", modified |-> {}]

Lines(Assets, Targets) ==
    {CutLine(a, m) : a \in Assets, m \in SUBSET Targets}
        \cup {ResolvedLine(a) : a \in Assets} \cup {JunkLine}

\* What _append leaves behind when every byte of the line is written.
Appended(log, torn, line) == Append(log, IF torn THEN JunkLine ELSE line)

(***************************************************************************)
(* unresolved_for: the union of what the cut lines of `a' changed that no  *)
(* later "resolved" line of `a' follows.  {} stands for None: a cut line   *)
(* always names at least one target.                                       *)
(***************************************************************************)
ResolvedAfter(log, a, i) ==
    \E j \in i + 1 .. Len(log) : log[j].type = "resolved" /\ log[j].asset = a

Pending(log, a, i) ==
    /\ log[i].type = "cut"
    /\ log[i].asset = a
    /\ ~ResolvedAfter(log, a, i)

Unresolved(log, a) ==
    UNION {log[i].modified : i \in {j \in 1 .. Len(log) : Pending(log, a, j)}}

\* The second result of unresolved_for: any line the parser rejects, of
\* whatever asset, an unterminated last piece included.
Damaged(log, torn) == torn \/ \E i \in 1 .. Len(log) : log[i].type = "junk"

(***************************************************************************)
(* The loop of unresolved_for as it is written: one pass over the lines    *)
(* with a candidate that a cut extends and a resolve clears.               *)
(***************************************************************************)
\* Seeded fault: a second cut replaces the candidate instead of extending it.
WalkStepReplaces(a, candidate, line) ==
    IF line.type = "cut" /\ line.asset = a THEN line.modified
    ELSE IF line.type = "resolved" /\ line.asset = a THEN {}
    ELSE candidate

WalkStep(a, candidate, line) ==
    IF line.type = "cut" /\ line.asset = a THEN candidate \cup line.modified
    ELSE IF line.type = "resolved" /\ line.asset = a THEN {}
    ELSE candidate

Walk(log, a) ==
    LET candidate[i \in 0 .. Len(log)] ==
            IF i = 0 THEN {} ELSE WalkStep(a, candidate[i - 1], log[i])
    IN  candidate[Len(log)]
=============================================================================
