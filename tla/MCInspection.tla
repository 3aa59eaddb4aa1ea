----------------------------- MODULE MCInspection -----------------------------
(* Small instances of Inspection for TLC. *)
EXTENDS Inspection, TLC

CONSTANTS d1, h1, h2, p1, n1, n2, n3, torch, os

MCAllowed == {<<torch, torch>>}
MCDangerous == {<<os, os>>, <<os, torch>>}

Nothing == [imports |-> {}, unresolved |-> FALSE, end |-> "ok"]
NoPickle == [Nothing EXCEPT !.end = "broken"]
Importing == [Nothing EXCEPT !.imports = {<<os, os>>}]

Plain == [name |-> n1, suf |-> "md", marks |-> {}, readable |-> TRUE, says |-> {}, long |-> FALSE, far |-> {}, nul |-> FALSE, hashbang |-> "",
          exe |-> FALSE, size |-> "small", python |-> "parses", json |-> "object", scripts |-> "none",
          autoMap |-> FALSE, target |-> FALSE, trust |-> FALSE, atImport |-> "none", fmt |-> "", body |-> "ok",
          template |-> "none", found |-> NoPickle, members |-> <<>>, metadata |-> FALSE]
Suf(s) == [Plain EXCEPT !.suf = s]
Says(f, code, sev) == [f EXCEPT !.says = {[code |-> code, sev |-> sev]}]
Marked(f, mark) == [f EXCEPT !.marks = {mark}]
Far(f) == [f EXCEPT !.long = TRUE, !.far = f.says]

TextFiles ==
    {Suf(s) : s \in TextSuffixes \cup {"", "go", "png"}}
    \cup {[Suf(s) EXCEPT !.nul = TRUE] : s \in {"py", "md", "go", ""}}
    \cup {[Suf(s) EXCEPT !.size = z] : s \in {"py", "json", "go"}, z \in {"large", "huge"}}
    \cup {[Suf(s) EXCEPT !.readable = FALSE] : s \in {"py", "png"}}
    \cup {[Suf("") EXCEPT !.hashbang = h, !.nul = TRUE] : h \in {"js", "py", "sh"}}
    \cup {[Suf("py") EXCEPT !.python = s, !.nul = n] : s \in {"wrong", "deep"}, n \in BOOLEAN}
    \cup {[Suf(s) EXCEPT !.exe = TRUE] : s \in {"py", "png"}}

Findings ==
    {Says(Suf("py"), "G201", "high"), Says(Suf("py"), "G205", "medium"), Says(Suf("js"), "G205", "medium"),
     Says(Suf("json"), "G208", "medium"), Says(Suf("yaml"), "G209", "medium"), Says(Suf("sh"), "G210", "medium"),
     Says(Suf("json"), "G206", "low"), Says(Marked(Suf("py"), "test"), "G206", "low"),
     Says(Suf("py"), "G212", "high"), Says(Suf("md"), "G216", "medium"), Says(Marked(Suf("go"), "readme"), "G216", "medium"),
     Says(Marked(Suf("md"), "procedure"), "G217", "medium"), Says(Marked(Suf("json"), "plugin"), "G219", "medium"),
     Says(Marked(Suf("md"), "procedure"), "G230", "medium"), Says(Suf("go"), "G230", "low"),
     Says(Marked(Suf("go"), "docker"), "G210", "medium"), Says(Suf("png"), "G201", "high"),
     Says([Suf("") EXCEPT !.hashbang = "py"], "G215", "high"), Marked(Suf("png"), "opaque")}
    \cup {Far(Says(Suf(s), "G205", "medium")) : s \in {"py", "js"}}
    \cup {Far(Says(Suf("json"), code, "medium")) : code \in {"G208", "G209"}}
    \cup {Far(Says(Suf("sh"), code, "medium")) : code \in {"G210", "G212"}}
    \cup {[Says(f, "G208", "medium") EXCEPT !.json = j] : f \in {Suf("json"), Marked(Suf("json"), "plugin")}, j \in {"other", "broken", "deep"}}

Member == [named |-> FALSE, config |-> FALSE, encrypted |-> FALSE, readable |-> "all", head |-> "else",
           found |-> NoPickle, custom |-> FALSE]
Members ==
    {Member, [Member EXCEPT !.named = TRUE], [Member EXCEPT !.encrypted = TRUE], [Member EXCEPT !.head = "zip"],
     [Member EXCEPT !.head = "pickle", !.found = Importing], [Member EXCEPT !.named = TRUE, !.found = Importing],
     [Member EXCEPT !.head = "pickle", !.readable = "head"], [Member EXCEPT !.readable = "none"],
     [Member EXCEPT !.config = TRUE], [Member EXCEPT !.config = TRUE, !.custom = TRUE],
     [Member EXCEPT !.config = TRUE, !.readable = "none"]}
Zip(suf, members) == [Suf(suf) EXCEPT !.fmt = "zip", !.members = members, !.metadata = TRUE, !.nul = TRUE]

Models ==
    {[Suf(s) EXCEPT !.fmt = f, !.nul = TRUE] : s \in {"safetensors", "gguf", "pt", "bin", "png"}, f \in {"", "safetensors", "gguf", "hdf5"}}
    \cup {[Suf("safetensors") EXCEPT !.fmt = "safetensors", !.body = "corrupt"]}
    \cup {[Suf("gguf") EXCEPT !.fmt = "gguf", !.body = b, !.template = t] : b \in {"gap", "corrupt", "ok"}, t \in {"plain", "internals"}}
    \cup {[Suf(s) EXCEPT !.fmt = f, !.found = p] : s \in {"pt", "bin", "png"}, f \in {"", "pickle", "safetensors"}, p \in {Nothing, Importing}}
    \cup {Zip(s, <<m>>) : s \in {"pt", "keras", "png"}, m \in Members}
    \cup {Zip(s, <<Member, Member, m>>) : s \in {"pt", "png"}, m \in Members}
    \cup {[Zip(s, <<>>) EXCEPT !.body = "corrupt"] : s \in {"pt", "png"}}

Manifest(mark) == Marked(Suf("json"), mark)
ManifestFiles ==
    {[Manifest(mark) EXCEPT !.json = j] : mark \in {"package", "manifest"}, j \in {"object", "other", "broken", "deep"}}
    \cup {[Manifest("package") EXCEPT !.scripts = s] : s \in {"hooks", "wrong"}} \cup {Marked(Suf("sh"), "hook")}

Companions ==
    {[Suf("json") EXCEPT !.autoMap = TRUE], [Suf("py") EXCEPT !.target = TRUE, !.atImport = "high"],
     [Marked(Suf("py"), "companion") EXCEPT !.atImport = "medium"], [Suf("yaml") EXCEPT !.trust = TRUE],
     [Suf("safetensors") EXCEPT !.fmt = "safetensors", !.nul = TRUE]}

NoRun == [backend |-> FALSE, hook |-> FALSE, atimes |-> FALSE, forks |-> FALSE]
Tree(files) == [files |-> files, links |-> {}, reports |-> {}, behave |-> FALSE, stream |-> {}, faults |-> 0, setting |-> NoRun]
Second(f) == [f EXCEPT !.name = n2]
Third(f) == [f EXCEPT !.name = n3]

\* One file of each kind, with reads that fail; pairs; more text than is held.
Single == {[Tree(<<f>>) EXCEPT !.faults = 1] : f \in TextFiles \cup Findings \cup Models \cup ManifestFiles \cup Companions}
Pairs == {Tree(<<f, Second(g)>>) : f, g \in Companions \cup {Suf("py"), Suf("md"), Says(Suf("sh"), "G210", "medium"), Suf("png")}}
Triples == {Tree(<<f, Second(g), Third(h)>>) : f, g, h \in {Suf("png"), Suf("sh"), Says(Suf("sh"), "G210", "medium"), [Suf("py") EXCEPT !.size = "large"]}}
Links == {[Tree(<<Plain>>) EXCEPT !.links = l, !.reports = r] :
             l \in SUBSET {"inside", "outside"}, r \in {{}, {"low"}, {"medium"}, {"broken"}, {"shape"}, {"high", "unknown"}}}

\* Pickles read step by step.
Streams == {[Tree(<<Suf("bin")>>) EXCEPT !.stream = {n1}]}

\* Behavioural runs.
Run(forks, atimes) == [backend |-> TRUE, hook |-> TRUE, atimes |-> atimes, forks |-> forks]
MCSettings == {NoRun, [NoRun EXCEPT !.backend = TRUE]} \cup {Run(forks, atimes) : forks, atimes \in BOOLEAN}
Behaving1 == {[Tree(<<Plain>>) EXCEPT !.behave = TRUE, !.setting = s] : s \in MCSettings}

MCInputs == Single \cup Pairs \cup Triples \cup Links \cup Streams \cup Behaving1
=============================================================================
