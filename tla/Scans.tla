-------------------------------- MODULE Scans --------------------------------
(***************************************************************************)
(* The gate's loops over untrusted input (gate/static_checks.py,           *)
(* tampering.py, agent_config.py, modelfiles.py).  Each replaces an        *)
(* obvious search that is quadratic, or trusts nothing a header says; each *)
(* is one kind of job here, run one step of its loop at a time, and        *)
(* compared at its end with what it stands for.                            *)
(*   "cues"     two different cues near each other  (_g501_context)        *)
(*   "near"     two line lists, a pair within a window  (_near)            *)
(*   "tokens"   a token whose next separator is right  (_first_ok_token)   *)
(*   "helpers"  functions that reach a shell  (_close_helpers)             *)
(*   "line"     the pieces a long line is read in                          *)
(*   "spans"    safetensors: the tensors tile the data                     *)
(*   "gguf"     GGUF: the tensors fit in the file                          *)
(***************************************************************************)
EXTENDS Integers, Sequences, FiniteSets

CONSTANTS
    Jobs,         \* the inputs scanned, see JobsAssumption
    Window,       \* cues no further apart count together (the code: 400)
    Chunk, Step,  \* length of a piece of a long line, distance of their starts
    HeaderSize,   \* bytes of a GGUF file before its tables (the code: 24)
    EntrySize     \* least bytes of an entry of its tensor table (the code: 24)

Cues == {"A", "B", "C", "D"}
CuePairs == << <<"A", "B">>, <<"A", "D">>, <<"C", "D">>, <<"A", "C">> >>

Rising(s) == \A p, q \in DOMAIN s : p < q => s[p] < s[q]
Lists == {s \in Seq(Nat) : Rising(s)}
Spans == [b : Nat, e : Nat]
Unknown == "unknown"
QuantSize == [plain |-> [block |-> 1, bytes |-> 1], packed |-> [block |-> 2, bytes |-> 3]]
Types == DOMAIN QuantSize \cup {Unknown}
Known(type) == type # Unknown
PowerOfTwo(n) == n > 0 /\ \E k \in 0 .. n : n = 2 ^ k

ASSUME JobsAssumption ==
    /\ Window \in Nat /\ Chunk \in Nat /\ Step \in 1..Chunk
    /\ HeaderSize \in Nat /\ EntrySize \in Nat
    /\ \A x \in Jobs :
        \/ x.kind = "cues" /\ DOMAIN x.hits = Cues /\ \A c \in Cues : x.hits[c] \in Lists
        \/ x.kind = "near" /\ x.a \in Lists /\ x.b \in Lists /\ x.win \in Nat
        \* tokens do not overlap; seps says of each separator whether it is right
        \/ /\ x.kind = "tokens" /\ x.tokens \in Seq(Spans) /\ x.len \in Nat
           /\ \A p, q \in DOMAIN x.tokens : p < q => x.tokens[p].e <= x.tokens[q].b
           /\ \A p \in DOMAIN x.tokens : x.tokens[p].b < x.tokens[p].e /\ x.tokens[p].e <= x.len
           /\ DOMAIN x.seps \subseteq 0 .. x.len - 1 /\ \A p \in DOMAIN x.seps : x.seps[p] \in BOOLEAN
        \* sinks: pass a parameter to a shell themselves; passes: <<f, g>>, f passes one to g
        \/ x.kind = "helpers" /\ x.passes \subseteq x.functions \X x.functions /\ x.sinks \subseteq x.functions
        \/ x.kind = "line" /\ x.len \in Nat
        \* bytes: dtype times shape, Unknown for a dtype that has no size here
        \/ /\ x.kind = "spans" /\ x.header \in BOOLEAN /\ x.data \in Nat /\ IsFiniteSet(DOMAIN x.tensors)
           /\ \A t \in DOMAIN x.tensors : x.tensors[t].b \in Nat /\ x.tensors[t].e \in Nat /\ x.tensors[t].sized \in BOOLEAN
        \* kv: how the key-value table reads; pos: where it ends; head: bytes of
        \* a tensor's entry up to the number of dimensions
        \/ /\ x.kind = "gguf" /\ x.version \in Nat /\ x.kv \in {"ok", "count", "off", "bad"}
           /\ x.align \in Nat /\ x.pos \in Nat /\ x.size \in Nat /\ x.read \in 0 .. x.size
           /\ x.tensors \in Seq([dims : Nat, head : Nat, len : Nat, count : Nat, type : Types, off : Nat])

VARIABLES
    job,      \* what is scanned; never changes
    stage, here, there,  \* counters
    pos,      \* how far the input has been followed
    far,      \* GGUF: end of the tensor that ends last
    good,     \* is the next separator right?  has every tensor a size?
    todo,     \* what is left to take
    found,    \* helpers; starts of pieces
    out,      \* the result: <<>> for "nothing" (formats: "no problem")
    done

counters == <<stage, here, there>>
reach == <<pos, far, good>>
sets == <<todo, found>>
scanVars == <<job, counters, reach, sets, out, done>>

Running(kind) == job.kind = kind /\ ~done
Return(r) == out' = r /\ done' = TRUE
Go == UNCHANGED <<job, out, done>>

-----------------------------------------------------------------------------
(* static_checks._g501_context: for each pair of cues, two pointers walk   *)
(* their positions.                                                        *)

Left == job.hits[CuePairs[stage][1]]
Right == job.hits[CuePairs[stage][2]]
Close(a, b) == a - b \in -Window .. Window
BothLeft == stage > 0 /\ here <= Len(Left) /\ there <= Len(Right)

StartCues ==
    /\ Running("cues") /\ stage = 0
    /\ IF job.hits["A"] = <<>> /\ job.hits["C"] = <<>>
       THEN Return(<<>>) /\ UNCHANGED <<job, counters>>
       ELSE Go /\ stage' = 1 /\ here' = 1 /\ there' = 1
    /\ UNCHANGED <<reach, sets>>

CueFound ==
    /\ Running("cues") /\ BothLeft /\ Close(Left[here], Right[there])
    /\ Return(<<stage, Left[here], Right[there]>>)
    /\ UNCHANGED <<job, counters, reach, sets>>

SkipCue ==
    /\ Running("cues") /\ BothLeft /\ ~Close(Left[here], Right[there])
    /\ IF Left[here] < Right[there] THEN here' = here + 1 /\ there' = there ELSE there' = there + 1 /\ here' = here
    /\ Go /\ UNCHANGED <<stage, reach, sets>>

NextPair ==
    /\ Running("cues") /\ stage > 0 /\ ~BothLeft
    /\ IF stage = Len(CuePairs)
       THEN Return(<<>>) /\ UNCHANGED <<job, counters>>
       ELSE Go /\ stage' = stage + 1 /\ here' = 1 /\ there' = 1
    /\ UNCHANGED <<reach, sets>>

-----------------------------------------------------------------------------
(* tampering._near: one pointer into b that never goes back.               *)

TooLow == there <= Len(job.b) /\ job.b[there] < job.a[here] - job.win

StartNear ==
    /\ Running("near") /\ stage = 0
    /\ stage' = 1 /\ here' = 1 /\ there' = 1
    /\ Go /\ UNCHANGED <<reach, sets>>

SkipLine ==
    /\ Running("near") /\ stage = 1 /\ here <= Len(job.a) /\ TooLow
    /\ there' = there + 1
    /\ Go /\ UNCHANGED <<stage, here, reach, sets>>

TryLine ==
    /\ Running("near") /\ stage = 1 /\ here <= Len(job.a) /\ ~TooLow
    /\ IF there <= Len(job.b) /\ job.b[there] <= job.a[here] + job.win
       THEN Return(<<job.a[here], job.b[there]>>) /\ UNCHANGED <<job, counters>>
       ELSE Go /\ here' = here + 1 /\ UNCHANGED <<stage, there>>
    /\ UNCHANGED <<reach, sets>>

NoneNear ==
    /\ Running("near") /\ stage = 1 /\ here > Len(job.a)
    /\ Return(<<>>) /\ UNCHANGED <<job, counters, reach, sets>>

-----------------------------------------------------------------------------
(* static_checks._first_ok_token: tokens before one separator share a look *)
(* at it.                                                                  *)

NextSeparator(p) ==
    LET after == {s \in DOMAIN job.seps : s >= p}
    IN IF after = {} THEN job.len ELSE CHOOSE s \in after : \A t \in after : s <= t
RightAt(p) == p \in DOMAIN job.seps /\ job.seps[p]
Token == job.tokens[here]
SegmentEnd == IF Token.e > pos THEN NextSeparator(Token.e) ELSE pos

StartTokens ==
    /\ Running("tokens") /\ stage = 0
    /\ stage' = 1 /\ here' = 1 /\ pos' = -1 /\ good' = FALSE
    /\ Go /\ UNCHANGED <<there, far, sets>>

TryToken ==
    /\ Running("tokens") /\ stage = 1 /\ here <= Len(job.tokens)
    /\ pos' = SegmentEnd
    /\ good' = IF Token.e > pos THEN RightAt(SegmentEnd) ELSE good
    /\ IF good' THEN Return(<<Token.b>>) /\ UNCHANGED <<job, here>> ELSE Go /\ here' = here + 1
    /\ UNCHANGED <<stage, there, far, sets>>

NoToken ==
    /\ Running("tokens") /\ stage = 1 /\ here > Len(job.tokens)
    /\ Return(<<>>) /\ UNCHANGED <<job, counters, reach, sets>>

-----------------------------------------------------------------------------
(* agent_config._collect_helpers and _close_helpers: from the functions    *)
(* that reach a shell back to their callers.                               *)

Callers(h) == {f \in job.functions : <<f, h>> \in job.passes}

StartHelpers ==
    /\ Running("helpers") /\ stage = 0
    /\ stage' = 1 /\ found' = job.sinks /\ todo' = job.sinks
    /\ Go /\ UNCHANGED <<here, there, reach>>

\* Seeded fault: a caller is followed again.
TakeAgain ==
    /\ Running("helpers") /\ stage = 1
    /\ \E h \in todo : found' = found \cup Callers(h) /\ todo' = (todo \ {h}) \cup Callers(h)
    /\ Go /\ UNCHANGED <<counters, reach>>

TakeHelper ==
    /\ Running("helpers") /\ stage = 1
    /\ \E h \in todo :
        /\ found' = found \cup Callers(h)
        /\ todo' = (todo \ {h}) \cup (Callers(h) \ found)
    /\ Go /\ UNCHANGED <<counters, reach>>

HelpersDone ==
    /\ Running("helpers") /\ stage = 1 /\ todo = {}
    /\ Return(<<>>) /\ UNCHANGED <<job, counters, reach, sets>>

-----------------------------------------------------------------------------
(* tampering.scan_tree, tlsverify.scan_file: a line too long to be matched *)
(* as one is read in pieces that overlap.                                  *)

Piece(start) == start .. start + Chunk - 1

CutPiece ==
    /\ Running("line") /\ pos < job.len
    /\ found' = found \cup {pos} /\ pos' = pos + Step
    /\ Go /\ UNCHANGED <<counters, far, good, todo>>

LineCut ==
    /\ Running("line") /\ pos >= job.len
    /\ Return(<<>>) /\ UNCHANGED <<job, counters, reach, sets>>

-----------------------------------------------------------------------------
(* modelfiles._safetensors_problem.                                        *)

Tensors == DOMAIN job.tensors
Malformed(t) == job.tensors[t].b > job.tensors[t].e \/ ~job.tensors[t].sized
Before(t, u) ==
    \/ job.tensors[t].b < job.tensors[u].b
    \/ job.tensors[t].b = job.tensors[u].b /\ job.tensors[t].e <= job.tensors[u].e

StartSpans ==
    /\ Running("spans") /\ stage = 0
    /\ IF ~job.header \/ \E t \in Tensors : Malformed(t)
       THEN Return(<<"problem">>) /\ UNCHANGED <<job, stage, todo>>
       ELSE Go /\ stage' = 1 /\ todo' = Tensors
    /\ UNCHANGED <<here, there, reach, found>>

TakeSpan ==
    /\ Running("spans") /\ stage = 1
    /\ \E t \in todo :
        /\ \A u \in todo : Before(t, u)
        /\ IF job.tensors[t].b # pos
           THEN Return(<<"problem">>) /\ UNCHANGED <<job, pos, todo>>
           ELSE Go /\ pos' = job.tensors[t].e /\ todo' = todo \ {t}
    /\ UNCHANGED <<counters, far, good, found>>

SpansDone ==
    /\ Running("spans") /\ stage = 1 /\ todo = {}
    /\ Return(IF pos # job.data THEN <<"problem">> ELSE <<>>)
    /\ UNCHANGED <<job, counters, reach, sets>>

-----------------------------------------------------------------------------
(* modelfiles._gguf_read.                                                  *)

Corrupt == <<"corrupt">>
Gap == <<"gap">>
RunsOff == IF job.read < job.size THEN Gap ELSE Corrupt

GgufHeader ==
    IF job.version \notin {2, 3} THEN Gap
    ELSE IF job.kv = "count" THEN Corrupt
    ELSE IF HeaderSize + Len(job.tensors) * EntrySize > job.size THEN Corrupt
    ELSE IF job.kv = "off" THEN RunsOff
    ELSE IF job.kv = "bad" \/ ~PowerOfTwo(job.align) THEN Corrupt
    ELSE <<>>

Tensor == job.tensors[here]
\* Seeded fault: a last block that is not full is not counted.
NBytesFloor(t) == (t.count \div QuantSize[t.type].block) * QuantSize[t.type].bytes

NBytes(t) == ((t.count + QuantSize[t.type].block - 1) \div QuantSize[t.type].block) * QuantSize[t.type].bytes
DataStart == ((pos + job.align - 1) \div job.align) * job.align
Further(x, y) == IF x > y THEN x ELSE y

StartGguf ==
    /\ Running("gguf") /\ stage = 0
    /\ IF GgufHeader # <<>>
       THEN Return(GgufHeader) /\ UNCHANGED <<job, stage, here, pos, far, good>>
       ELSE Go /\ stage' = 1 /\ here' = 1 /\ pos' = job.pos /\ far' = 0 /\ good' = TRUE
    /\ UNCHANGED <<there, sets>>

TensorProblem ==
    IF pos + Tensor.head > job.read THEN RunsOff
    ELSE IF Tensor.dims > 4 THEN Corrupt
    ELSE IF pos + Tensor.len > job.read THEN RunsOff
    ELSE IF pos + Tensor.len + Tensor.off > job.size THEN Corrupt
    ELSE <<>>

TakeTensor ==
    /\ Running("gguf") /\ stage = 1 /\ here <= Len(job.tensors)
    /\ IF TensorProblem # <<>>
       THEN Return(TensorProblem) /\ UNCHANGED <<job, here, reach>>
       ELSE /\ Go /\ here' = here + 1 /\ pos' = pos + Tensor.len
            /\ good' = (good /\ Known(Tensor.type))
            /\ far' = IF Known(Tensor.type) THEN Further(far, Tensor.off + NBytes(Tensor)) ELSE far
    /\ UNCHANGED <<stage, there, sets>>

GgufEnd ==
    IF job.tensors = <<>> THEN <<>>
    ELSE IF DataStart + far > job.size THEN Corrupt
    ELSE IF ~good THEN Gap
    ELSE IF pos >= job.size THEN Corrupt
    ELSE <<>>

TensorsDone ==
    /\ Running("gguf") /\ stage = 1 /\ here > Len(job.tensors)
    /\ Return(GgufEnd) /\ UNCHANGED <<job, counters, reach, sets>>

-----------------------------------------------------------------------------
ScanInit ==
    /\ job \in Jobs
    /\ stage = 0 /\ here = 0 /\ there = 0
    /\ pos = 0 /\ far = 0 /\ good = FALSE
    /\ todo = {} /\ found = {}
    /\ out = <<>> /\ done = FALSE

ScanNext ==
    \/ StartCues \/ CueFound \/ SkipCue \/ NextPair
    \/ StartNear \/ SkipLine \/ TryLine \/ NoneNear
    \/ StartTokens \/ TryToken \/ NoToken
    \/ StartHelpers \/ TakeHelper \/ HelpersDone
    \/ CutPiece \/ LineCut
    \/ StartSpans \/ TakeSpan \/ SpansDone
    \/ StartGguf \/ TakeTensor \/ TensorsDone

ScanSpec == ScanInit /\ [][ScanNext]_scanVars /\ WF_scanVars(ScanNext)

-----------------------------------------------------------------------------
(* Properties.                                                             *)

\* The counters stay within the input they index.
ScanTypeOK ==
    /\ job \in Jobs /\ done \in BOOLEAN /\ good \in BOOLEAN
    /\ stage \in Nat /\ here \in Nat /\ there \in Nat /\ pos \in Nat \cup {-1} /\ far \in Nat
    /\ job.kind = "cues" => stage \in 0 .. Len(CuePairs)
    /\ job.kind = "cues" /\ stage > 0 => here \in 1 .. Len(Left) + 1 /\ there \in 1 .. Len(Right) + 1
    /\ job.kind = "near" /\ stage > 0 => here \in 1 .. Len(job.a) + 1 /\ there \in 1 .. Len(job.b) + 1
    /\ job.kind = "tokens" /\ stage > 0 => here \in 1 .. Len(job.tokens) + 1
    /\ job.kind = "gguf" /\ stage > 0 => here \in 1 .. Len(job.tensors) + 1

\* Is there an occurrence of the n-th pair of cues within the window?
PairThere(n) == \E a \in DOMAIN job.hits[CuePairs[n][1]], b \in DOMAIN job.hits[CuePairs[n][2]] :
    Close(job.hits[CuePairs[n][1]][a], job.hits[CuePairs[n][2]][b])

\* Two cues are reported exactly when two different ones are near each other
\* somewhere in the text, for the first pair of kinds that is: the pointers
\* skip no position that would have matched (_g501_context).
CuesFound ==
    job.kind = "cues" /\ done =>
        IF \E n \in 1 .. Len(CuePairs) : PairThere(n)
        THEN /\ out # <<>> /\ PairThere(out[1]) /\ \A n \in 1 .. out[1] - 1 : ~PairThere(n)
             /\ Close(out[2], out[3])
        ELSE out = <<>>

Within(x, y) == x - y \in -job.win .. job.win

\* _near returns the first line of a that has one of b within the window, with
\* the first such line of b; nothing only if there is none.
NearIsFirst ==
    job.kind = "near" /\ done =>
        LET pairs == {x \in (DOMAIN job.a) \X (DOMAIN job.b) : Within(job.a[x[1]], job.b[x[2]])}
        IN IF pairs = {} THEN out = <<>>
           ELSE \E x \in pairs : /\ out = <<job.a[x[1]], job.b[x[2]]>>
                                 /\ \A y \in pairs : x[1] < y[1] \/ (x[1] = y[1] /\ x[2] <= y[2])

\* A token matches when the first separator behind it is right: what the
\* quadratic pattern tests for every token by itself.
Matches(t) == \E s \in DOMAIN job.seps :
    s >= t.e /\ job.seps[s] /\ \A u \in DOMAIN job.seps : u >= t.e => s <= u

\* The linear search starts where the quadratic one does: at the first token
\* that matches (_first_ok_token, _LinearSearch).
TokenIsFirst ==
    job.kind = "tokens" /\ done =>
        LET matching == {p \in DOMAIN job.tokens : Matches(job.tokens[p])}
        IN IF matching = {} THEN out = <<>>
           ELSE \E p \in matching : out = <<job.tokens[p].b>> /\ \A q \in matching : p <= q

\* The shell helpers are exactly the functions from which a parameter can
\* reach a shell: the least set that holds the sinks and, with a function, its
\* callers (_close_helpers), recursion included.
HelpersAreAll ==
    job.kind = "helpers" /\ done =>
        found = {f \in job.functions : \A s \in SUBSET job.functions :
                    (job.sinks \subseteq s /\ \A p \in job.passes : p[2] \in s => p[1] \in s) => f \in s}

\* Nothing on a long line is skipped, and what is no longer than the overlap
\* is never cut in two: it lies whole in some piece.
PiecesHold ==
    job.kind = "line" /\ done =>
        \A a \in 0 .. job.len - 1 : \A b \in a .. job.len - 1 :
            b - a <= Chunk - Step => \E s \in found : a .. b \subseteq Piece(s)

Owners(byte) == {t \in Tensors : job.tensors[t].b <= byte /\ byte < job.tensors[t].e}
TensorEnds == {0} \cup {job.tensors[u].e : u \in {t \in Tensors : job.tensors[t].b < job.tensors[t].e}}

\* A safetensors file passes exactly when its header is well formed and every
\* byte of the data belongs to one tensor and no tensor reaches past the data or
\* starts inside another: no hole, no overlap, no tail (_safetensors_problem).
TiledExactly ==
    job.kind = "spans" /\ done =>
        (out = <<>> <=>
            /\ job.header /\ \A t \in Tensors : ~Malformed(t)
            /\ \A byte \in 0 .. job.data - 1 : Cardinality(Owners(byte)) = 1
            /\ \A t \in Tensors : job.tensors[t].e <= job.data /\ job.tensors[t].b \in TensorEnds)

\* The bytes a tensor takes: whole blocks, enough for all its elements.
Needs(t) == (CHOOSE m \in 0 .. t.count : m * QuantSize[t.type].block >= t.count
                /\ (m = 0 \/ (m - 1) * QuantSize[t.type].block < t.count)) * QuantSize[t.type].bytes
TableEnd == job.pos + (IF job.tensors = <<>> THEN 0 ELSE
    LET sum[n \in 0 .. Len(job.tensors)] == IF n = 0 THEN 0 ELSE sum[n - 1] + job.tensors[n].len IN sum[Len(job.tensors)])

\* A GGUF file is taken as sound only if every tensor it declares has a known
\* size and lies, from the aligned start of the data, inside the file.
GgufFits ==
    job.kind = "gguf" /\ done /\ out = <<>> =>
        \A n \in DOMAIN job.tensors :
            LET t == job.tensors[n]
            IN /\ Known(t.type)
               /\ \E start \in TableEnd .. job.size :
                    start % job.align = 0 /\ start < TableEnd + job.align /\ start + t.off + Needs(t) <= job.size

\* What every scan finds when it is done is what it stands for.
ScansAreRight ==
    /\ ScanTypeOK
    /\ CuesFound /\ NearIsFirst /\ TokenIsFirst
    /\ HelpersAreAll /\ PiecesHold
    /\ TiledExactly /\ GgufFits

\* Every scan ends, whatever the input: recursion among helpers included.
ScansEnd == <>done
=============================================================================
