------------------------------ MODULE Inspection ------------------------------
(***************************************************************************)
(* One inspection (gate/inspector.py, inspect_source): the install hooks,  *)
(* the passes over the tree, the pickle scan, the manifests, imported      *)
(* reports, the behavioural run, then the verdict.  A file may fail to be  *)
(* read by one pass and not by the others.                                 *)
(***************************************************************************)
EXTENDS PickleScan, Sandbox

\* The scanner reads all of the file, as the one pickle it is (ModelOutcome).
ScannedWhole(f) ==
    /\ f.suf \notin {"safetensors", "gguf"}
    /\ f.fmt = "pickle" \/ (f.fmt = "" /\ f.suf \in PickleSuffixes)

CONSTANT Inputs   \* the trees and runs explored, see InspectionAssumption

ASSUME InspectionAssumption ==
    \A i \in Inputs :
        /\ i.files \in Seq(FileType)
        /\ \A n \in DOMAIN i.files : i.files[n].far # {} => i.files[n].long
        /\ i.links \subseteq {"inside", "outside"}
        /\ i.reports \subseteq ReportType
        /\ i.behave \in BOOLEAN
        /\ \A name \in i.stream :     \* the file whose pickle is grown step by step
             \E n \in DOMAIN i.files : i.files[n].name = name /\ ScannedWhole(i.files[n])
        /\ i.faults \in Nat           \* bound: reads that fail in one pass only

Passes == {"hooks", "main", "agents", "tampering", "models", "tls", "manifests"}
TextPasses == {"main", "agents", "tampering", "tls"}

VARIABLES
    input,
    stage,
    flags,
    verdict,
    failed,   \* history: the reads that failed, by pass
    read      \* history: the files whose text a pass went through, all of it

inspectionVars == <<input, stage, flags, verdict, failed, read>>
vars == <<inspectionVars, pickleVars, sandboxVars>>

Files == input.files
NoVerdict == [level |-> "LOW", status |-> "error"]
Faults == Cardinality(UNION {{pass} \X failed[pass] : pass \in Passes})
Failing == {names \in SUBSET {Files[n].name : n \in DOMAIN Files} : Cardinality(names) <= input.faults - Faults}

-----------------------------------------------------------------------------
(* The passes.                                                             *)

Pass(pass, next, failing, new, texts) ==
    /\ stage = pass
    /\ stage' = next
    /\ flags' = flags \cup new
    /\ failed' = [failed EXCEPT ![pass] = failing]
    /\ read' = [read EXCEPT ![pass] = {f.name : f \in texts}]
    /\ UNCHANGED <<input, verdict, pickleVars, sandboxVars>>

FileSet == {Files[n] : n \in DOMAIN Files}

Hooks ==
    \E failing \in Failing :
        Pass("hooks", IF \E f \in FileSet : Raises(f, failing) THEN "raised" ELSE "main",
             failing, UNION {HookFlags(f, failing) : f \in FileSet}, {})

MainPass ==
    \E failing \in Failing : \E later \in SUBSET failing :
        Pass("main", "agents", failing,
             LinkFlags(input.links) \cup UNION {MainFlags(f, failing, later) : f \in FileSet},
             {f \in FileSet : ReadsText(f, failing)})

AgentPass ==
    \E failing \in Failing : \E later \in SUBSET failing :
        Pass("agents", "tampering", failing,
             UNION {AgentFlags(Files, n, failing, later) : n \in DOMAIN Files},
             {Files[n] : n \in {n \in DOMAIN Files : InAgents(Files[n]) /\ ReadsText(Files[n], failing)
                                                     /\ Held(Files, n, failing) /\ ~AgentsSkip(Files[n])}})

TamperingPass ==
    \E failing \in Failing :
        Pass("tampering", "pickle", failing,
             UNION {TamperingFlags(f, failing) : f \in FileSet},
             {f \in FileSet : InTampering(f) /\ ReadsText(f, failing) /\ ~TamperingSkips(f)})

\* The pickle scanner at work on the file that is read step by step.
PickleStep ==
    /\ stage = "pickle" /\ input.stream # {}
    /\ PickleNext
    /\ UNCHANGED <<inspectionVars, sandboxVars>>
PickleDone ==
    /\ stage = "pickle" /\ (input.stream # {} => scan.end # "reading")
    /\ stage' = "models"
    /\ UNCHANGED <<input, flags, verdict, failed, read, pickleVars, sandboxVars>>

FindingsOf(s) == [imports |-> s.imports, unresolved |-> s.unresolved, end |-> s.end]
FoundIn(n) == IF Files[n].name \in input.stream THEN FindingsOf(scan) ELSE Files[n].found

ModelPass ==
    \E failing \in Failing : \E later \in SUBSET failing :
        Pass("models", IF \E f \in FileSet : f.name \in later /\ OpensAgain(f) THEN "raised" ELSE "tls", failing,
             ModelFlags(AsRead(Files, later), NotRead(Files, failing, later), [n \in DOMAIN Files |-> FoundIn(n)]), {})

TlsPass ==
    \E failing \in Failing :
        Pass("tls", "manifests", failing, UNION {TlsFlags(f, failing) : f \in FileSet},
             {f \in FileSet : InTls(f) /\ ReadsText(f, failing)})

Manifests ==
    \E failing \in Failing :
        Pass("manifests", IF \E f \in FileSet : Raises(f, failing) THEN "raised" ELSE "imports",
             failing, UNION {ManifestFlags(f, failing) : f \in FileSet}, {})

Imported ==
    /\ stage = "imports"
    /\ stage' = IF "shape" \in input.reports THEN "raised" ELSE "behaviour"
    /\ flags' = flags \cup UNION {ReportFlags(r) : r \in input.reports \ {"shape"}}
    /\ UNCHANGED <<input, verdict, failed, read, pickleVars, sandboxVars>>

-----------------------------------------------------------------------------
(* The behavioural run, if it was asked for, and the verdict.              *)

Behaving == stage = "behaviour" /\ input.behave
RunnerStep == Behaving /\ Runner /\ UNCHANGED <<inspectionVars, pickleVars>>
SinkStep == Sink /\ UNCHANGED <<inspectionVars, pickleVars>>
ArtifactStep == Artifact /\ UNCHANGED <<inspectionVars, pickleVars>>

Behaved ==
    /\ stage = "behaviour" /\ (input.behave => Stopped)
    /\ stage' = IF phase = "raised" THEN "raised" ELSE "score"
    /\ flags' = flags \cup signals
    /\ UNCHANGED <<input, verdict, failed, read, pickleVars, sandboxVars>>

Conclude ==
    /\ stage = "score"
    /\ stage' = "done"
    /\ verdict' = VerdictOf(flags)
    /\ UNCHANGED <<input, flags, failed, read, pickleVars, sandboxVars>>

Inspect ==
    \/ Hooks \/ MainPass \/ AgentPass \/ TamperingPass \/ PickleDone \/ ModelPass \/ TlsPass
    \/ Manifests \/ Imported \/ Behaved \/ Conclude

-----------------------------------------------------------------------------
Init ==
    /\ input \in Inputs
    /\ stage = "hooks" /\ flags = {} /\ verdict = NoVerdict
    /\ failed = [pass \in Passes |-> {}] /\ read = [pass \in Passes |-> {}]
    /\ PickleInit
    /\ SandboxInit /\ setting = input.setting

Next == Inspect \/ PickleStep \/ RunnerStep \/ SinkStep \/ ArtifactStep
Spec == Init /\ [][Next]_vars

\* Commands have time limits, files an end; what the artifact does is its own.
FairSpec == Spec /\ WF_vars(Inspect) /\ WF_vars(PickleStep) /\ WF_vars(RunnerStep)
-----------------------------------------------------------------------------
Stages == Passes \cup {"pickle", "imports", "behaviour", "score", "done", "raised"}

\* The codes of all flags.
Codes ==
    AllCodes \cup {"G101", "G221", "G222", "G223", "G224", "G225", "G226", "G227", "G228", "G229", "G401", "G701", "G702",
                   "G801", "G802", "G803", "G804", "G805", "G808", "G809", "G901", "G909", "G910", "G911", "G912"}

TypeOK ==
    /\ input \in Inputs /\ stage \in Stages
    /\ \A f \in flags \cup signals : f.sev \in Severities /\ f.code \in Codes
    /\ verdict \in [level: Levels, status: Statuses]
    /\ failed \in [Passes -> SUBSET Names] /\ read \in [Passes -> SUBSET Names]
    /\ Faults <= input.faults
    /\ FindingsOf(scan) \in FindingsType
    /\ \A n \in DOMAIN scan.recent : scan.recent[n] \in Values
    /\ Len(scan.recent) <= Remembered
    /\ scan.cut \in BOOLEAN /\ scan.streams \in BOOLEAN /\ scan.fresh \in BOOLEAN
    /\ \A n \in DOMAIN vm.stack : vm.stack[n] \in Values
    /\ vm.loaded \subseteq Imports /\ vm.raised \in BOOLEAN /\ count \in 0..MaxOps
    /\ proc \in [Procs -> {"none", "running", "ended", "killed"}]
    /\ child \in [own: BOOLEAN, pipes: BOOLEAN]
    /\ opened \subseteq Decoys /\ written \subseteq Paths /\ timedOut \in BOOLEAN
    /\ DOMAIN exfil \subseteq Decoys /\ Len(requests) <= MaxRequests /\ Len(captures) <= Len(requests)

-----------------------------------------------------------------------------
(* Properties.                                                             *)

Done == stage = "done"
Promoted == Done /\ Promotable(verdict)

(* What a loader imports from a pickle has been listed by the scanner, or  *)
(* was counted as unresolved (_scan_pickle): whatever is pushed, popped,   *)
(* kept in the memo or left over from an earlier stream in between.        *)
ImportsAreSeen == vm.loaded \subseteq scan.imports \/ scan.unresolved

(* The scanner's and the loader's bookkeeping, and what it is for.         *)
ScannerInv == TypeOK /\ ImportsAreSeen

(* A complete inspection has read every text (inspector.py: the gaps set   *)
(* the status).  Each pass leaves out what it cannot read, or finds too    *)
(* large, because "the main pass reports it": so it must, with the same    *)
(* rule for text and the same limit.  Excused is what nothing reports: a   *)
(* read that fails in a later pass only; the end of a long line, cut from  *)
(* what the rules of agent_config.py that go line by line see (_lines); a  *)
(* text that does not parse, for the rules that parse it (_g208_json,      *)
(* G205 of Python, G219 of plugins).                                       *)
InScope(pass, f) ==
    CASE pass = "main" -> TRUE
      [] pass = "agents" -> InAgents(f)
      [] pass = "tampering" -> InTampering(f)
      [] pass = "tls" -> InTls(f)
IsText(f) == Classify(f) # "binary"
Skipped(pass, f) == (pass = "agents" /\ AgentsSkip(f)) \/ (pass = "tampering" /\ TamperingSkips(f))

CompleteMeansRead ==
    Done /\ verdict.status = "complete" =>
        \A f \in FileSet :
            /\ IsText(f) => f.name \in read["main"]
            /\ \A pass \in TextPasses :
                 IsText(f) /\ InScope(pass, f) /\ ~Skipped(pass, f) => f.name \in read[pass] \cup failed[pass]
            /\ f.suf = "py" /\ IsText(f) /\ f.name \notin failed["agents"] => f.python # "deep"

(* What is promoted runs nothing when it is loaded or installed: no pickle *)
(* that imports, by itself or in a zip, no Keras or HDF5 model, no         *)
(* template that leaves its sandbox, no executable named as text, no hook  *)
(* ("fail toward unscanned, never toward ok", modelfiles.py).  Excused are *)
(* reads that failed in one pass only and members past the limit of a zip. *)
RunsInZip(f) ==
    f.body = "ok" /\ \E m \in LookedAt(f) :
        /\ m.readable = "all" /\ ~m.encrypted
        /\ \/ (m.named \/ m.head = "pickle") /\ m.found.imports # {}
           \/ m.config /\ f.metadata /\ m.custom /\ m.head = "else"
Executes(f, imports) ==
    \/ f.fmt = "hdf5"
    \/ f.fmt = "gguf" /\ f.template = "internals"
    \/ f.fmt = "zip" /\ RunsInZip(f)
    \/ (f.fmt = "pickle" \/ f.suf \in PickleSuffixes) /\ f.fmt \in {"", "pickle", "safetensors"} /\ imports # {}
    \/ f.exe /\ f.suf \in TextSuffixes
    \/ "hook" \in f.marks
    \/ "package" \in f.marks /\ f.json = "object" /\ f.scripts = "hooks"

PromotedRunsNothing ==
    Promoted /\ Faults = 0 =>
        /\ vm.loaded = {}
        /\ \A n \in DOMAIN Files : ~Executes(Files[n], FoundIn(n).imports)

(* A tree that passes still passes when a file is taken out of it: no      *)
(* check is switched off by a file that is there (limits on what is held,  *)
(* companion code and configs that are judged by other files).             *)
StaticFlags(files, found) ==
    (UNION {MainFlags(files[n], {}, {}) \cup AgentFlags(files, n, {}, {}) \cup TamperingFlags(files[n], {})
            \cup TlsFlags(files[n], {}) \cup ManifestFlags(files[n], {}) \cup HookFlags(files[n], {}) : n \in DOMAIN files})
    \cup ModelFlags(files, {}, found)
Passing(files) == Promotable(VerdictOf(StaticFlags(files, [n \in DOMAIN files |-> files[n].found])))
WithoutFile(n) == SubSeq(Files, 1, n - 1) \o SubSeq(Files, n + 1, Len(Files))

SmallerPasses == stage = "hooks" /\ Passing(Files) => \A n \in DOMAIN Files : Passing(WithoutFile(n))

(* What happened before the runner stopped waiting is told: a token that   *)
(* was sent and answered, its destination, a file written where it would   *)
(* persist, a decoy read on a mount that keeps access times (runner.py,    *)
(* "read the runtime signals back out").                                   *)
OccurrencesAreTold ==
    phase \in {"remove", "done"} =>
        /\ \A n \in past.answered :
             /\ \A d \in requests[n].seen : \E f \in signals : f.code = "G801" /\ f.at[1] = d
             /\ requests[n].host # Unknown => Flag("medium", "G802", requests[n].host) \in signals
        /\ \A f \in past.written : Flag("high", "G803", f) \in signals
        /\ setting.atimes =>
             \A d \in past.opened : d \in DOMAIN exfil \/ Flag("medium", "G804", d) \in signals

(* The report does not contradict itself: a destination a token went to is *)
(* among the destinations, although requests arrive while it is made.      *)
SignalsAgree ==
    phase \notin {"exfil", "hosts"} =>
        \A f \in signals :
            f.code = "G801" /\ f.at[2] # Unknown => Flag("medium", "G802", f.at[2]) \in signals

BehaviourIsTold == OccurrencesAreTold /\ SignalsAgree

(* The inspection ends, whatever the artifact does and leaves running.     *)
InspectionEnds == <>(stage \in {"done", "raised"})
=============================================================================
