------------------------------ MODULE MCEventLog ------------------------------
(* Small instances of EventLog for TLC. *)
EXTENDS EventLog, TLC

Environment(nFaults, nEdits, nReads, nStalls, legacy) ==
    [faults |-> nFaults, edits |-> nEdits, reads |-> nReads, stalls |-> nStalls, legacy |-> legacy]

\* Things that go wrong; somebody who edits; a reader, without and with a thing
\* that may go wrong; a holder that hangs.
SomeEnvironments == {
    Environment(2, 0, 0, 0, FALSE), Environment(0, 1, 0, 0, TRUE), Environment(0, 0, 1, 0, TRUE),
    Environment(1, 0, 1, 0, FALSE), Environment(0, 0, 0, 1, FALSE)}
=============================================================================
