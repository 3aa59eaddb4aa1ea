------------------------- MODULE ContainmentInvariant -------------------------
(***************************************************************************)
(* The inductive invariant behind Recoverable and RestoredMeansRestored in *)
(* the daemon.  It says what an operation knows at each of its steps; with *)
(* one request at a time, nothing else invalidates it.                     *)
(***************************************************************************)
EXTENDS Containment

\* Whoever is past Begin holds the daemon's lock, alone.
OneAtATime == \A p \in Procs : pc[p] # "idle" => lock = {p}

\* What Zee holds off is off, and only by means that are installed.
HeldIsOff ==
    /\ \A t \in held \ {FW} : ~up[t]
    /\ FW \in held <=> rule # "none"
    /\ NM \in held => "nmcli" \in Tools

\* An operation starts with an empty account, which then names what the
\* commands may touch, and takes only its own steps.
Fresh(p) ==
    /\ pc[p] = "idle" => todo[p] = {}
    /\ pc[p] \in {"idle", "snapshot", "nmcli", "install", "read", "nmOn"} => seen[p] = {}
    /\ pc[p] = "rules" => seen[p] = {FW}

InItsOwnSteps(p) ==
    /\ pc[p] \in CutSteps => op[p] \in CutOps /\ todo[p] \subseteq Ifaces
    /\ pc[p] = "read" => op[p] = "restore"
    /\ pc[p] \in {"nmOn", "sweep"} => op[p] = "emergency"
    /\ pc[p] \in RestoreSteps => op[p] \in RestoreOps

\* A normal restore works on the record the ledger still holds.
RecordIsCurrent(p) ==
    op[p] = "restore" /\ pc[p] \in {"undo", "fwRemove", "fwVerify", "readback", "resolve"}
    => seen[p] = Unresolved(ledger, asset[p])

\* An emergency restore that has not failed has touched every switch.
TouchedAll(p) ==
    op[p] = "emergency" =>
        /\ /\ pc[p] \in {"sweep", "undo", "fwRemove", "fwVerify", "readback"}
           /\ "nmcli" \in Tools
           => NM \in seen[p]
        /\ /\ pc[p] \in {"undo", "fwRemove", "fwVerify", "readback"}
           /\ verdict[p] = "ok"
           => Ifaces \subseteq seen[p]

\* What the verdict of a restore is worth after the re-read of the rules, and
\* after the read-back of the switches.
Undone(p) == held \cap (IF op[p] = "restore" THEN seen[p] ELSE Targets) = {}

VerdictIsEarned(p) ==
    op[p] \in RestoreOps /\ verdict[p] = "ok" =>
        /\ pc[p] \in {"readback", "resolve", "report"} => rule = "none"
        /\ pc[p] \in {"resolve", "report"} => Undone(p)

ProcInv(p) ==
    /\ Fresh(p)
    /\ InItsOwnSteps(p)
    /\ RecordIsCurrent(p)
    /\ TouchedAll(p)
    /\ VerdictIsEarned(p)

Coherent ==
    /\ OneAtATime
    /\ HeldIsOff
    /\ \A p \in Procs : ProcInv(p)
    /\ Recoverable

(***************************************************************************)
(* The inductive invariant of the daemon: the lock excludes, the account   *)
(* of every process is right, and what is held off can be found.           *)
(***************************************************************************)
DaemonInv == TypeOK /\ Coherent
=============================================================================
