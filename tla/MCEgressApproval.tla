--------------------------- MODULE MCEgressApproval ---------------------------
(* Small instances of EgressApproval for TLC. *)
EXTENDS EgressApproval, TLC

CONSTANTS d1, d2, e1, e2, k1, k2, k3, p1

\* e1 is an exact entry, e2 a wildcard or a network.
CoversBoth == [e \in {e1, e2} |-> IF e = e1 THEN {d1} ELSE {d1, d2}]

Off == [on |-> FALSE, keys |-> {}, allow |-> [e \in {e1, e2} |-> 0], protect |-> [p \in {p1} |-> 0],
        used |-> {}, ack |-> FALSE, recovery |-> -1]
On(keys) == [Off EXCEPT !.on = TRUE, !.keys = keys]

\* Nothing is asked for, fails or restarts beyond the given numbers.
Environment(from, ops, sends, nRequests, nFailures, nRestarts) ==
    [from |-> from, ops |-> ops, sends |-> sends, server |-> FALSE, requests |-> nRequests,
     failures |-> nFailures, restarts |-> nRestarts]

SomeEnvironments == {
    \* set-up, switching on and off
    Environment(Off, {"bootstrap_key", "ack_single_key", "enable", "disable"}, {d1}, 1, 1, 0),
    Environment(Off, {"bootstrap_key", "setup_allow", "setup_protect", "allow_remove"}, {}, 1, 0, 0),
    \* sends held, approved and metered, with a failing enforcer
    Environment(On({k1, k2}), {"disable"}, {d1, d2}, 1, 1, 0),
    Environment(On({k1, k2}), {"disable", "allow_add"}, {d1}, 2, 1, 0),
    Environment([On({k1, k2}) EXCEPT !.protect[p1] = 1], {"protect_remove", "protect_add"}, {d1}, 2, 0, 0),
    [Environment(On({k1, k2}), {"allow_add", "allow_remove"}, {d1}, 2, 0, 0) EXCEPT !.server = TRUE],
    \* a restart while a destination is held
    Environment(On({k1, k2}), {"disable"}, {d1}, 1, 1, 1),
    \* keys
    Environment(On({k1, k2, k3}), {"key_remove", "key_add", "disable", "ack_single_key", "enable"}, {},
                2, 0, 1),
    \* recovery, and a file that cannot be read
    Environment(On({k1, k2}), {"recovery_start", "disable"}, {d1}, 1, 1, 0),
    Environment(On({k1, k2}), {"recovery_start", "disable", "bootstrap_key"}, {}, 1, 2, 1)}
=============================================================================
