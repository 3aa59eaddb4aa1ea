------------------------------- MODULE MCScans -------------------------------
(* Small inputs of Scans for TLC. *)
EXTENDS Scans, SequencesExt

ListOf(set) == SetToSortSeq(set, LAMBDA x, y : x < y)
ListsOf(set, n) == {ListOf(s) : s \in {t \in SUBSET set : Cardinality(t) <= n}}

\* Cue positions 0..3 and a window of 1: pairs that are near, at the window's
\* edge and apart.
CueJobs == [kind : {"cues"}, hits : [Cues -> ListsOf(0 .. 3, 2)]]
NearJobs == [kind : {"near"}, a : ListsOf(0 .. 5, 6), b : ListsOf(0 .. 5, 6), win : 0 .. 1]

\* Up to three tokens of one or two characters among up to three separators.
TokenLists(len) ==
    LET spans == {x \in [b : 0 .. len - 1, e : 1 .. len] : x.e \in {x.b + 1, x.b + 2}}
    IN {s \in UNION {[1 .. n -> spans] : n \in 0 .. 3} : \A p, q \in DOMAIN s : p < q => s[p].e <= s[q].b}
TokenJobs ==
    [kind : {"tokens"}, tokens : TokenLists(6), len : {6},
     seps : UNION {[s -> BOOLEAN] : s \in {t \in SUBSET (0 .. 5) : Cardinality(t) <= 3}}]

HelperJobs ==
    [kind : {"helpers"}, functions : {{"f", "g", "h"}}, sinks : SUBSET {"f", "g", "h"},
     passes : SUBSET ({"f", "g", "h"} \X {"f", "g", "h"})]

LineJobs == [kind : {"line"}, len : 0 .. 14]

TensorJobs ==
    [kind : {"spans"}, header : {TRUE}, data : 0 .. 3,
     tensors : UNION {[s -> [b : 0 .. 3, e : 0 .. 3, sized : {TRUE}]] : s \in {{}, {"x"}, {"x", "y"}}}]
    \cup [kind : {"spans"}, header : BOOLEAN, data : {3},
          tensors : [{"x"} -> [b : {0}, e : {3}, sized : BOOLEAN]]
                    \cup [{"x", "y", "z"} -> [b : 0 .. 2, e : 1 .. 3, sized : {TRUE}]]]

GgufTensors == [dims : {1}, head : {1}, len : {1}, count : {0, 3, 4}, type : Types, off : {0, 2}]
GgufJobs ==
    {x \in [kind : {"gguf"}, version : {2}, kv : {"ok"}, align : {1, 4}, pos : {2}, size : {3, 6, 10, 13}, read : {3, 6, 10, 13},
            tensors : UNION {[1 .. n -> GgufTensors] : n \in 0 .. 2}] : x.read <= x.size}
    \cup {x \in [kind : {"gguf"}, version : {1, 3}, kv : {"ok", "count", "off", "bad"}, align : {2, 3}, pos : {2}, size : {3, 6},
                 read : {3, 6}, tensors : {<<>>} \cup {<<t>> : t \in [dims : {4, 5}, head : {0, 1}, len : {2}, count : {1}, type : {"plain"}, off : {0, 9}]}] :
            x.read <= x.size}

SomeJobs == CueJobs \cup NearJobs \cup TokenJobs \cup HelperJobs \cup LineJobs \cup TensorJobs \cup GgufJobs
=============================================================================
