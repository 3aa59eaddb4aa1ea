------------------------------ MODULE EvidenceLog ------------------------------
(***************************************************************************)
(* What the event log promises to those who read it: an append-only        *)
(* sequence of records, each new and each chained from the one before.     *)
(* After a fault a record may be chained from an earlier one, or from      *)
(* none; only somebody who edits the files can take anything away.         *)
(***************************************************************************)
EXTENDS Naturals, Sequences

CONSTANT Ids    \* of records, positive

Genesis == 0

VARIABLES log, faults, edited

Init == log = <<>> /\ faults = 0 /\ edited = FALSE

Logged == {log[i].id : i \in DOMAIN log}
LastId == IF log = <<>> THEN Genesis ELSE log[Len(log)].id

Extend(id, prev) ==
    /\ id \notin Logged
    /\ prev = LastId \/ (faults > 0 /\ prev \in Logged \cup {Genesis})
    /\ log' = Append(log, [id |-> id, prev |-> prev])
    /\ UNCHANGED <<faults, edited>>

Fault == faults' = faults + 1 /\ UNCHANGED <<log, edited>>

\* Somebody edits the files, or has: nothing is promised any more.
Edit == edited' = TRUE

Next == (\E id \in Ids, prev \in Ids \cup {Genesis} : Extend(id, prev)) \/ Fault \/ Edit

Spec == Init /\ [][Next]_<<log, faults, edited>>
=============================================================================
