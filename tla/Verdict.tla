------------------------------- MODULE Verdict -------------------------------
(***************************************************************************)
(* The gate's verdict (gate/model.py, gate/scorer.py): findings are scored *)
(* to a level, gaps make the inspection partial.  A flag is a record       *)
(* [sev, code, at].                                                        *)
(***************************************************************************)
EXTENDS Naturals, FiniteSets

Severities == {"low", "medium", "high"}
Levels == {"LOW", "MEDIUM", "HIGH"}
Statuses == {"complete", "partial", "error"}

\* What was not inspected: these set the status and are kept out of the score.
GapCodes == {"G909", "G910", "G911", "G912", "G809", "G225"}

HighTotal == 10
MediumTotal == 4
ExitPartial == 3
ExitError == 4

Flag(sev, code, at) == [sev |-> sev, code |-> code, at |-> at]
FlagIf(condition, flag) == IF condition THEN {flag} ELSE {}
OfSeverity(flags, sev) == Cardinality({f \in flags : f.sev = sev})
Total(flags) == OfSeverity(flags, "low") + 4 * OfSeverity(flags, "medium") + 10 * OfSeverity(flags, "high")

Score(flags) ==
    IF OfSeverity(flags, "high") > 0 \/ Total(flags) >= HighTotal THEN "HIGH"
    ELSE IF Total(flags) >= MediumTotal THEN "MEDIUM"
    ELSE "LOW"

Gaps(flags) == {f \in flags : f.code \in GapCodes}

VerdictOf(flags) ==
    [level |-> Score(flags \ Gaps(flags)),
     status |-> IF Gaps(flags) = {} THEN "complete" ELSE "partial"]

ExitCode(verdict) ==
    IF verdict.status = "error" THEN ExitError
    ELSE IF verdict.status = "partial" THEN ExitPartial
    ELSE IF verdict.level = "LOW" THEN 0 ELSE IF verdict.level = "MEDIUM" THEN 1 ELSE 2

Promotable(verdict) == verdict.status = "complete" /\ verdict.level = "LOW"
=============================================================================
