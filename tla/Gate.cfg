SPECIFICATION Spec
CONSTANTS
    Adders <- MCAdders
    Auditors <- MCAuditors
    Dirs <- MCDirs
    Versions <- MCVersions
    Files = {f1, f2}
    Absent = Absent
    add1 = add1
    add2 = add2
    audit1 = audit1
    audit2 = audit2
    d1 = d1
    d2 = d2
    good = good
    better = better
    bad = bad
    Environments <- SomeEnvironments
INVARIANT GateInv DenialsHold AuditsAreRight
CHECK_DEADLOCK FALSE
