------------------------------- MODULE MCWatch -------------------------------
(* Small instances of Watch for TLC. *)
EXTENDS Watch, TLC

CONSTANTS a1, a2, p1, p2

One == [p \in {p1, p2} |-> a1]
Two == [p \in {p1, p2} |-> IF p = p1 THEN a1 ELSE a2]

Host0 == [backend |-> "linux", assetOf |-> One, mode |-> "notify", dryRun |-> FALSE, privsep |-> FALSE,
          interrupt |-> FALSE, kinds |-> {}, touched |-> {p1}, operations |-> 0, failures |-> 0,
          launches |-> 1, outages |-> 0]

On(backend, kinds, n) == [Host0 EXCEPT !.backend = backend, !.kinds = kinds, !.operations = n]
Cutting(e) == [e EXCEPT !.mode = "auto"]

SomeEnvironments == {
    On("linux", {"read", "write", "delete", "create"}, 4)
    , On("linux", {"write", "delete", "move", "create"}, 4)
    , On("macos", {"attrib", "write", "delete", "create"}, 3)
    , [On("macos", {"delete", "move", "create"}, 3) EXCEPT !.failures = 1]
    , [On("macos", {"delete", "create"}, 3) EXCEPT !.touched = {p1, p2}]
    , [On("windows", {"read", "write", "delete", "create"}, 3) EXCEPT !.interrupt = TRUE]
    , [Cutting(On("linux", {"delete"}, 2)) EXCEPT !.assetOf = Two, !.touched = {p1, p2}, !.interrupt = TRUE]
    , [Cutting(On("linux", {"read", "write"}, 2)) EXCEPT !.failures = 1, !.launches = 2]
    , [Cutting(On("macos", {"attrib", "write"}, 2)) EXCEPT !.privsep = TRUE, !.outages = 2]
    , [Cutting(On("linux", {"write"}, 2)) EXCEPT !.dryRun = TRUE, !.interrupt = TRUE]
    , Cutting(On("windows", {"read", "write", "delete"}, 2))
    }
=============================================================================
