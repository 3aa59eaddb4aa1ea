-------------------------------- MODULE MCGate --------------------------------
(* Small instances of Gate for TLC. *)
EXTENDS Gate, TLC

CONSTANTS add1, add2, audit1, audit2, d1, d2, good, better, bad

MCAdders == {add1, add2}
MCAuditors == {audit1, audit2}
MCDirs == {d1, d2}
MCVersions == {good, better, bad}

\* Jobs of add1, add2, audit1, audit2; then the budgets.
Environment(j, updates, drifts, removals, kills, errors, rescan, promoteTo) ==
    [jobs |-> add1 :> j[1] @@ add2 :> j[2] @@ audit1 :> j[3] @@ audit2 :> j[4],
     budget |-> [updates |-> updates, drifts |-> drifts, removals |-> removals, kills |-> kills, errors |-> errors],
     risk |-> good :> "none" @@ better :> "low" @@ bad :> "high",
     first |-> good, rescan |-> rescan, promoteTo |-> promoteTo]

\* In turn: two adds of a source that changes; killed and failing adds; an
\* update installed while an audit runs; an artifact that changes; two audits;
\* a drift that is installed again.
SomeEnvironments == {
      Environment(<<1, 1, 0, 0>>, 1, 0, 1, 0, 0, FALSE, {d1, Absent})
    , Environment(<<2, 0, 1, 0>>, 1, 0, 0, 2, 1, FALSE, {d1})
    , Environment(<<3, 0, 1, 0>>, 1, 0, 2, 0, 0, FALSE, {d1})
    , Environment(<<1, 0, 2, 0>>, 0, 2, 0, 0, 1, TRUE, {d1})
    , Environment(<<1, 0, 1, 1>>, 0, 2, 0, 0, 0, FALSE, {d1})
    , Environment(<<2, 0, 1, 0>>, 0, 1, 0, 0, 1, FALSE, {d1, d2})
    , Environment(<<2, 0, 1, 0>>, 1, 2, 1, 0, 0, FALSE, {d1})
    }
=============================================================================
