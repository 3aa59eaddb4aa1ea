SPECIFICATION Spec
CONSTANTS
    Paths = {env}
    Places = {dump, backup}
    Domains = {d1, d2}
    Bases = {b1, b2}
    NoBase = NoBase
    Procs = {p1, p2}
    FREE_TIER_MAX_ADDRESSES = 1
    MaxTokens = 3
    MaxFaults = 2
    MaxEvents = 4
SYMMETRY Symmetry
INVARIANT RegistryInv TokensAttribute
