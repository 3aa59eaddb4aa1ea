------------------------------ MODULE StaticScan ------------------------------
(***************************************************************************)
(* The gate's passes over a fetched tree (gate/static_checks.py and the    *)
(* scanners it calls).  A tree is a sequence of files in sorted order.  A  *)
(* file is abstracted to what the passes tell apart; what the patterns     *)
(* match in its text is given, `says', and the passes decide whether that  *)
(* text is read.  Each pass is given the files it fails to read: `failing', *)
(* of which `later' are those that can still be looked up or opened, and   *)
(* fail at the next read.                                                  *)
(***************************************************************************)
EXTENDS Verdict, Sequences

CONSTANTS
    Names,       \* of files
    MaxHeld,     \* how many files the agent pass holds in memory (the code: 256 MiB)
    MaxMembers,  \* how many members of a zip are looked at (the code: 20000)
    Strings,     \* names of modules and attributes a pickle may import
    Allowed,     \* imports on the allow-list, <<module, name>>
    Dangerous    \* imports that run code or reach the system

Imports == Strings \X Strings

ASSUME ScanAssumption ==
    /\ IsFiniteSet(Names) /\ IsFiniteSet(Strings)
    /\ MaxHeld \in Nat /\ MaxMembers \in Nat
    /\ Allowed \subseteq Imports /\ Dangerous \subseteq Imports /\ Allowed \cap Dangerous = {}

Py == {"py"}
Js == {"js", "ts"}
Code == Py \cup Js \cup {"sh"}
Config == {"json", "toml", "yaml"}
Doc == {"md", "rst", ""}
Shellish == {"sh", "md", "json", "toml", "yaml", ""}
TextSuffixes == Code \cup Config \cup {"md", "rst"}
StrongSuffixes == {"pkl", "pt"}
PickleSuffixes == StrongSuffixes \cup {"bin"}
Suffixes == TextSuffixes \cup PickleSuffixes \cup {"", "go", "png", "safetensors", "gguf", "keras"}

\* What a name can say, besides the suffix: textfile's list of named text
\* files, README, Dockerfile, a procedure for the AI, a test, an opaque prompt,
\* companion code, a plugin definition, an install hook, a manifest.
Marks == {"text", "readme", "docker", "procedure", "test", "opaque", "companion", "plugin", "hook", "package", "manifest"}

MainCodes == {"G201", "G202", "G203", "G204", "G301", "G302", "G501", "G601"}
PythonCodes == {"G205", "G207", "G208"}
ShellCodes == {"G210", "G211", "G602", "G603"}
CodeCodes == {"G212", "G215"}
ConfigCodes == {"G213", "G214", "G220"}   \* in code as well
ProcedureCodes == {"G217", "G218"}
AllCodes == MainCodes \cup PythonCodes \cup ShellCodes \cup CodeCodes \cup ConfigCodes \cup ProcedureCodes
            \cup {"G206", "G209", "G216", "G219", "G230"}

\* What a scan of a pickle found.
Ends == {"reading", "ok", "broken", "limit"}
FindingsType == [imports: SUBSET Imports, unresolved: BOOLEAN, end: Ends]

\* A member of a zip: does its name say pickle, is it the config of a Keras
\* model, does that config hold code of its own?
MemberType == [named: BOOLEAN, config: BOOLEAN, encrypted: BOOLEAN, readable: {"all", "head", "none"},
               head: {"pickle", "zip", "else"}, found: FindingsType, custom: BOOLEAN]
FileType ==
    [name: Names, suf: Suffixes, marks: SUBSET Marks,
     readable: BOOLEAN,      \* can it be opened at all?
     says: SUBSET [code: AllCodes, sev: Severities],   \* what the patterns match in it
     long: BOOLEAN,          \* a line of over 2000 characters
     far: SUBSET [code: AllCodes, sev: Severities],    \* of what it says, what is only past them
     nul: BOOLEAN,           \* a NUL byte in the first 8 KiB
     hashbang: {"", "js", "py", "sh"},
     exe: BOOLEAN,           \* starts like an executable
     size: {"small", "large", "huge"},   \* over 2 MiB, over 8 MiB
     python: {"parses", "wrong", "deep"},
     json: {"object", "other", "broken", "deep"},
     scripts: {"none", "hooks", "wrong"},   \* of a package.json
     autoMap: BOOLEAN, target: BOOLEAN,     \* a config names code; this code
     trust: BOOLEAN, atImport: {"none", "medium", "high"},
     fmt: {"", "zip", "gguf", "hdf5", "safetensors", "pickle"},   \* by the first bytes
     body: {"ok", "gap", "corrupt"},
     template: {"none", "plain", "internals"},
     found: FindingsType,                  \* by the pickle scanner
     members: Seq(MemberType), metadata: BOOLEAN]

-----------------------------------------------------------------------------
(* textfile.py: the one rule for "is this file text?".                     *)

Classify(f) ==
    IF ~f.nul \/ "text" \in f.marks \/ f.hashbang # "" THEN "text"
    ELSE IF f.suf \in TextSuffixes THEN "gap"
    ELSE "binary"

\* What every check but the main pass does with a file it does not read: it
\* leaves it out, as "the main pass reports it".
Loads(f, failing) == f.size = "small" /\ f.readable /\ f.name \notin failing
ReadsText(f, failing) == Loads(f, failing) /\ Classify(f) # "binary"

Found(f, codes) == {Flag(s.sev, s.code, f.name) : s \in {s \in f.says : s.code \in codes}}
\* For rules that go line by line: a long line is cut.
FoundInLines(f, codes) == Found([f EXCEPT !.says = @ \ f.far], codes)
Gap(code, f) == Flag("low", code, f.name)

-----------------------------------------------------------------------------
(* static_checks.scan_tree: the main pass.                                 *)

Magic(f) == FlagIf(f.exe /\ f.suf \in TextSuffixes, Flag("high", "G401", f.name))
LooksBinary(f) == FlagIf(Classify(f) = "gap", Gap("G911", f))
Text(f) == IF f.size = "small" THEN Found(f, MainCodes) ELSE {Gap("G910", f)}

MainFlags(f, failing, later) ==
    IF ~f.readable \/ f.name \in failing \ later THEN {Gap("G911", f)}
    ELSE Magic(f) \cup IF Classify(f) = "binary" THEN {}
                      ELSE LooksBinary(f) \cup IF f.name \in later THEN {Gap("G911", f)} ELSE Text(f)

\* A link out of the tree is high, one inside is shown.
LinkFlags(links) ==
    {IF l = "inside" THEN Flag("low", "G702", <<l>>) ELSE Flag("high", "G701", <<l>>) : l \in links}

-----------------------------------------------------------------------------
(* agent_config.scan_tree: the texts are held in memory, up to a limit.    *)

InAgents(f) == f.suf \in Py \cup Js \cup Shellish \/ "docker" \in f.marks
Before(files, n, failing) == {o \in 1..(n - 1) : InAgents(files[o]) /\ Loads(files[o], failing)}
Held(files, n, failing) == Cardinality(Before(files, n, failing)) < MaxHeld

\* Seeded fault: python too deep to parse is left out like python that is wrong.
PythonFlagsQuiet(f) ==
    CASE f.python = "parses" -> Found(f, PythonCodes)
      [] OTHER -> FlagIf(f.nul, Gap("G911", f))

PythonFlags(f) ==
    CASE f.python = "parses" -> Found(f, PythonCodes)
      [] f.python = "wrong" -> FlagIf(f.nul, Gap("G911", f))
      [] f.python = "deep" -> {Gap("G911", f)}

Parses(f) == f.json \in {"object", "other"}
InLines(f) == f.suf \in Shellish \/ "docker" \in f.marks

TextFlags(f) ==
    (IF f.suf \in Py THEN PythonFlags(f) ELSE {})
    \cup (IF f.suf \in Js THEN FoundInLines(f, {"G205", "G208"}) ELSE {})
    \cup (IF f.suf = "json" /\ Parses(f) THEN Found(f, {"G208"}) ELSE {})
    \cup (IF f.suf \in Config THEN FoundInLines(f, {"G209"}) ELSE {})
    \cup (IF f.suf \in Py \cup Js \cup Config /\ "test" \notin f.marks THEN Found(f, {"G206"}) ELSE {})
    \cup (IF InLines(f) THEN FoundInLines(f, ShellCodes) ELSE {})

\* Seeded fault: what is not held is left out without a gap.
AgentFlagsSilent(files, n, failing, later) ==
    LET f == files[n]
    IN IF InAgents(f) /\ Held(files, n, failing) /\ ReadsText(f, failing) THEN TextFlags(f) ELSE {}

AgentFlags(files, n, failing, later) ==
    LET f == files[n]
    IN IF ~InAgents(f) \/ f.name \in failing \ later \/ f.size # "small" THEN {}
       ELSE IF ~Held(files, n, failing) THEN {Gap("G911", f)}
       ELSE IF ReadsText(f, failing) THEN TextFlags(f) ELSE {}

\* What the pass goes past in a text it holds, without a word: the end of a
\* long line, and what does not parse, for the rules that parse.
AgentsSkip(f) ==
    \/ f.long /\ (f.suf \in Js \/ InLines(f))
    \/ f.suf = "json" /\ ~Parses(f)
    \/ f.suf \in Py /\ f.python = "wrong" /\ ~f.nul

-----------------------------------------------------------------------------
(* tampering.scan_tree, with instructions.file_flags, and tlsverify.       *)

InTampering(f) == f.suf \in Code \cup Config \cup Doc \/ "readme" \in f.marks
\* A script without a suffix is judged by its interpreter.
Judged(f) == IF f.suf = "" THEN f.hashbang ELSE f.suf

IsPlugin(f) == Judged(f) \in {"json", "toml"} /\ "plugin" \in f.marks

InstructionFlags(f) ==
    (IF Judged(f) \in Doc \ {""} /\ "procedure" \in f.marks THEN Found(f, ProcedureCodes) ELSE {})
    \cup (IF IsPlugin(f) /\ Parses(f) THEN Found(f, {"G219"}) ELSE {})

TamperingFlags(f, failing) ==
    FlagIf("opaque" \in f.marks, Flag("high", "G214", f.name))
    \cup IF InTampering(f) /\ ReadsText(f, failing)
         THEN (IF Judged(f) \in Code THEN Found(f, CodeCodes) ELSE {})
              \cup (IF Judged(f) \in Code \cup Config THEN Found(f, ConfigCodes) ELSE {})
              \cup (IF f.suf \in Doc \/ "readme" \in f.marks THEN Found(f, {"G216"}) ELSE {})
              \cup InstructionFlags(f)
         ELSE {}

\* A plugin definition that does not parse, likewise.
TamperingSkips(f) == IsPlugin(f) /\ ~Parses(f)

InTls(f) == f.suf \in Code \cup {"go"} \/ (f.suf = "md" /\ "procedure" \in f.marks)
TlsFlags(f, failing) == IF InTls(f) /\ ReadsText(f, failing) THEN Found(f, {"G230"}) ELSE {}

-----------------------------------------------------------------------------
(* modelfiles.py: pickles.  `s' is what the scan found, `sure' whether the  *)
(* first bytes or the name say that it is a pickle.                        *)

\* Bytes that merely started like a pickle.
NotAPickle(s, sure) == ~sure /\ s.imports = {} /\ ~s.unresolved /\ s.end = "broken"

PickleFlags(s, name) ==
    {Flag("high", "G222", <<name, i[1], i[2]>>) : i \in s.imports \cap Dangerous}
    \cup {Flag("medium", "G223", <<name, i[1], i[2]>>) : i \in s.imports \ (Dangerous \cup Allowed)}
    \cup FlagIf(s.end = "broken" /\ s.imports # {}, Flag("high", "G224", name))
    \cup FlagIf(s.end \in {"broken", "limit"} \/ s.unresolved, Flag("low", "G225", name))

-----------------------------------------------------------------------------
(* modelfiles.scan_tree.  A file comes to flags, to whether it is a model, *)
(* and to whether it is a pickle.                                          *)

Outcome(flags, model, pickle) == [flags |-> flags, model |-> model, pickle |-> pickle]
Ignored == Outcome({}, FALSE, FALSE)
Broken226(f) == Flag("high", "G226", f.name)

\* Named as a pickle, starts like safetensors.
DisguisedOutcome(f, s) ==
    Outcome({Broken226(f)} \cup (IF NotAPickle(s, FALSE) THEN {} ELSE PickleFlags(s, f.name)), TRUE, FALSE)

SafetensorsOutcome(f) ==
    Outcome(FlagIf(f.fmt # "safetensors" \/ f.body # "ok", Broken226(f)), TRUE, FALSE)

TemplateFlags(f) ==
    FlagIf(f.template = "plain", Flag("low", "G229", f.name))
    \cup FlagIf(f.template = "internals", Flag("high", "G229", f.name))
GgufOutcome(f) ==
    IF f.fmt # "gguf" THEN Outcome({Broken226(f)}, TRUE, FALSE)
    ELSE Outcome(FlagIf(f.body = "gap", Gap("G225", f)) \cup FlagIf(f.body = "corrupt", Broken226(f))
                 \cup TemplateFlags(f), TRUE, FALSE)

PickleOutcome(f, s) ==
    IF ~NotAPickle(s, f.fmt = "pickle") THEN Outcome(PickleFlags(s, f.name), TRUE, TRUE)
    ELSE IF f.suf \in StrongSuffixes THEN Outcome({Gap("G225", f)}, TRUE, FALSE)
    ELSE Ignored

(* A zip, by its members.  The first bytes of a member that cannot be read  *)
(* count as none.                                                           *)
Head4(m) == IF m.readable # "none" THEN m.head ELSE "else"
\* Seeded fault: a member is a pickle by its name only.
NamedAsPickle(m) == ~m.encrypted /\ m.named
ReadAsPickle(m) == ~m.encrypted /\ (m.named \/ Head4(m) = "pickle")
ReadAsConfig(m, f) == ~m.encrypted /\ ~ReadAsPickle(m) /\ m.config /\ f.metadata
IsPickle(m) == ReadAsPickle(m) /\ (m.readable # "all" \/ ~NotAPickle(m.found, m.named))

MemberFlags(m, f) ==
    IF m.encrypted THEN {Gap("G225", f)}
    ELSE IF ReadAsPickle(m) THEN
        IF m.readable # "all" THEN {Gap("G225", f)}
        ELSE IF NotAPickle(m.found, m.named) THEN {} ELSE PickleFlags(m.found, f.name)
    ELSE IF ReadAsConfig(m, f) THEN
        FlagIf(m.readable # "all", Gap("G225", f))
        \cup FlagIf(m.readable = "all" /\ m.custom, Flag("medium", "G229", f.name))
    ELSE FlagIf(Head4(m) = "zip", Gap("G225", f))

LookedAt(f) == {f.members[n] : n \in {n \in DOMAIN f.members : n <= MaxMembers}}

\* An ordinary zip, not named as a model and without a pickle, is left out.
ZipOutcome(f) ==
    LET named == f.suf \in PickleSuffixes \cup {"keras"}
        opens == f.body = "ok"
        members == IF opens THEN LookedAt(f) ELSE {}
        pickle == \E m \in members : IsPickle(m)
        keras == \E m \in members : ReadAsConfig(m, f)
        flags == FlagIf(~opens \/ Len(f.members) > MaxMembers, Gap("G225", f))
                 \cup UNION {MemberFlags(m, f) : m \in members}
    IN IF ~(named \/ pickle \/ keras) THEN Ignored
       ELSE Outcome(flags \cup FlagIf(~pickle /\ f.suf \in StrongSuffixes, Gap("G225", f)), TRUE, pickle)

\* The decision for a file, in the order of the code.
ModelOutcome(f, s) ==
    IF f.fmt = "safetensors" /\ f.suf \in PickleSuffixes THEN DisguisedOutcome(f, s)
    ELSE IF "safetensors" \in {f.suf, f.fmt} THEN SafetensorsOutcome(f)
    ELSE IF "gguf" \in {f.suf, f.fmt} THEN GgufOutcome(f)
    ELSE IF f.fmt = "hdf5" THEN Outcome({Flag("medium", "G229", f.name)}, TRUE, FALSE)
    ELSE IF f.fmt = "zip" THEN ZipOutcome(f)
    ELSE IF f.fmt = "pickle" \/ f.suf \in PickleSuffixes THEN PickleOutcome(f, s)
    ELSE Ignored

(* Code that comes with a model.                                            *)
AtImport(f) == FlagIf(f.atImport # "none", Flag(f.atImport, "G228", f.name))
CompanionFlags(f) ==
    {Flag("medium", "G227", <<f.name, "companion">>)}
    \cup FlagIf(f.size # "small" \/ f.python # "parses", Gap("G225", f))
    \cup IF f.size = "small" /\ f.python # "wrong" THEN AtImport(f) ELSE {}

(* A file is opened, and then cannot be read.  The checks behind that take  *)
(* it for one that breaks its format and names no code; a pickle they leave *)
(* out; and a pickle that starts like safetensors ends the inspection.      *)
Named(f) == f.suf \in PickleSuffixes
Unread(f) ==
    [f EXCEPT !.body = IF f.fmt = "gguf" THEN "gap" ELSE "corrupt", !.template = "none",
              !.fmt = IF f.fmt = "pickle" THEN "" ELSE f.fmt,
              !.python = "wrong", !.json = "broken", !.trust = FALSE]
LeavesOut(f) == Named(f) /\ f.fmt \in {"", "pickle"}
OpensAgain(f) == Named(f) /\ f.readable /\ f.fmt = "safetensors"

AsRead(files, later) == [n \in DOMAIN files |-> IF files[n].name \in later THEN Unread(files[n]) ELSE files[n]]
NotRead(files, failing, later) ==
    (failing \ later) \cup {name \in later : \E n \in DOMAIN files : files[n].name = name /\ LeavesOut(files[n])}

\* The pass over a tree; `found' gives what the pickle scanner made of a file.
ModelFlags(files, failing, found) ==
    LET read == {n \in DOMAIN files : files[n].readable /\ files[n].name \notin failing}
        out == [n \in read |-> ModelOutcome(files[n], found[n])]
        maps == {n \in read : files[n].suf = "json" /\ files[n].size # "huge"
                               /\ files[n].json = "object" /\ files[n].autoMap}
        model == maps # {} \/ \E n \in read : out[n].model
        companions == {n \in read : files[n].suf = "py"
                         /\ ("companion" \in files[n].marks \/ (maps # {} /\ files[n].target))}
        trusting == {n \in read : files[n].suf \in {"py", "json", "md", "yaml"}
                                   /\ files[n].size = "small" /\ files[n].trust}
    IN  (UNION {out[n].flags : n \in read})
        \cup FlagIf(\E n \in read : out[n].pickle, Flag("medium", "G221", <<>>))
        \cup {Flag("medium", "G227", <<files[n].name, "auto_map">>) : n \in maps}
        \cup IF ~model THEN {}
             ELSE (UNION {CompanionFlags(files[n]) : n \in companions})
                  \cup {Flag("medium", "G227", <<files[n].name, "trust">>) : n \in trusting}

-----------------------------------------------------------------------------
(* adapters.py: manifests and install hooks, read twice.                   *)

IsManifest(f) == f.marks \cap {"package", "manifest"} # {}
ReadsManifest(f, failing) == f.readable /\ f.name \notin failing /\ f.size # "huge"

\* JSON too deep for the parser is the one thing these do not catch.
Raises(f, failing) == IsManifest(f) /\ ReadsManifest(f, failing) /\ f.json = "deep"

HookFlags(f, failing) ==
    FlagIf("hook" \in f.marks
           \/ ("package" \in f.marks /\ ReadsManifest(f, failing) /\ f.json = "object" /\ f.scripts = "hooks"),
           Flag("medium", "G101", f.name))

ManifestFlags(f, failing) ==
    FlagIf(IsManifest(f) /\ (\/ ~ReadsManifest(f, failing)
                             \/ f.json \in {"broken", "other"}
                             \/ "package" \in f.marks /\ f.scripts = "wrong"),
           Gap("G912", f))

-----------------------------------------------------------------------------
(* imports.py: reports of other scanners.  One of a shape nobody expected   *)
(* raises.                                                                  *)

ReportType == {"broken", "unknown", "shape"} \cup Severities
ReportFlags(report) ==
    IF report \in Severities THEN {Flag(report, "G901", <<"report">>)} ELSE {Flag("low", "G909", <<"report">>)}
=============================================================================
