------------------------------ MODULE PickleScan ------------------------------
(***************************************************************************)
(* The gate's pickle scanner (gate/modelfiles.py, _scan_pickle): it walks  *)
(* the opcodes of every pickle stream of a file without running them and   *)
(* lists the imports.  Beside it runs what it predicts: a loader, the      *)
(* stack machine that would execute the opcodes.  One action per group of  *)
(* opcodes with the same effect.                                           *)
(***************************************************************************)
EXTENDS StaticScan

CONSTANTS
    Other,       \* a value that is not a string
    Remembered,  \* how many pushed values the scanner remembers (the code: 8)
    MaxOps       \* bound: opcodes in a file

Values == Strings \cup {Other}
Indexes == {0, 1}     \* of the memo

ASSUME PickleAssumption ==
    /\ Other \notin Strings
    /\ Remembered \in Nat /\ Remembered >= 2
    /\ MaxOps \in Nat

VARIABLES
    scan,   \* the scanner
    vm,     \* the loader
    count   \* opcodes read

pickleVars == <<scan, vm, count>>

EmptyScan ==
    [imports |-> {}, unresolved |-> FALSE,
     recent |-> <<>>, memo |-> <<>>,   \* of this stream
     cut |-> FALSE,                    \* has this stream imported anything?
     streams |-> FALSE,                \* has a stream ended with STOP?
     fresh |-> TRUE,                   \* nothing read of this stream
     end |-> "reading"]
EmptyVm == [stack |-> <<>>, memo |-> <<>>, loaded |-> {}, raised |-> FALSE]

With(memo, n, v) == [m \in DOMAIN memo \cup {n} |-> IF m = n THEN v ELSE memo[m]]
Size(memo) == Cardinality(DOMAIN memo)

-----------------------------------------------------------------------------
(* The scanner: the values pushed last and the memo, each a string or Other. *)

Remember(v) ==
    LET all == Append(scan.recent, v)
    IN IF Len(all) <= Remembered THEN all ELSE SubSeq(all, Len(all) - Remembered + 1, Len(all))
LastPushed == IF scan.recent = <<>> THEN Other ELSE scan.recent[Len(scan.recent)]
Recalled(n) == IF n \in DOMAIN scan.memo THEN scan.memo[n] ELSE Other

\* STACK_GLOBAL is resolved when the last two values were strings.
LastTwo == SubSeq(scan.recent, Len(scan.recent) - 1, Len(scan.recent))
Resolved == Len(scan.recent) >= 2 /\ LastTwo \in Imports

Reading == scan.end = "reading" /\ count < MaxOps
Scanned(new) == scan' = [new EXCEPT !.fresh = FALSE] /\ count' = count + 1

-----------------------------------------------------------------------------
(* The loader: an opcode that finds less on the stack than it takes, or      *)
(* something else, raises and ends the load.                                 *)

Top(n) == vm.stack[Len(vm.stack) - n + 1]
Without(n) == SubSeq(vm.stack, 1, Len(vm.stack) - n)
Has(n) == Len(vm.stack) >= n
Runs(possible, new) == vm' = IF vm.raised \/ ~possible THEN [vm EXCEPT !.raised = TRUE] ELSE new
Pushes(v) == [vm EXCEPT !.stack = Append(@, v)]

-----------------------------------------------------------------------------
(* Opcodes.                                                                  *)

String(x) ==
    /\ Reading
    /\ Scanned([scan EXCEPT !.recent = Remember(x)])
    /\ Runs(TRUE, Pushes(x))

Put(n) ==
    /\ Reading
    /\ Scanned([scan EXCEPT !.memo = With(@, n, LastPushed)])
    /\ Runs(Has(1), [vm EXCEPT !.memo = With(@, n, Top(1))])

Memoize ==
    /\ Reading
    /\ Scanned([scan EXCEPT !.memo = With(@, Size(@), LastPushed)])
    /\ Runs(Has(1), [vm EXCEPT !.memo = With(@, Size(@), Top(1))])

Get(n) ==
    /\ Reading
    /\ Scanned([scan EXCEPT !.recent = Remember(Recalled(n))])
    /\ Runs(n \in DOMAIN vm.memo, Pushes(vm.memo[n]))

Global(x) ==
    /\ Reading
    /\ Scanned([scan EXCEPT !.imports = @ \cup {x}, !.cut = TRUE, !.recent = Remember(Other)])
    /\ Runs(TRUE, [Pushes(Other) EXCEPT !.loaded = @ \cup {x}])

StackGlobal ==
    /\ Reading
    /\ Scanned([scan EXCEPT !.imports = IF Resolved THEN @ \cup {LastTwo} ELSE @,
                            !.unresolved = @ \/ ~Resolved, !.cut = TRUE, !.recent = Remember(Other)])
    /\ Runs(Has(2) /\ <<Top(2), Top(1)>> \in Imports,
             [vm EXCEPT !.stack = Append(Without(2), Other), !.loaded = @ \cup {<<Top(2), Top(1)>>}])

\* EXT1, EXT2, EXT4: an import from the registry of extensions.
Extension(x) ==
    /\ Reading
    /\ Scanned([scan EXCEPT !.unresolved = TRUE, !.cut = TRUE, !.recent = Remember(Other)])
    /\ Runs(TRUE, [Pushes(Other) EXCEPT !.loaded = @ \cup {x}])

\* All that is left pushes a value, takes some, or takes some and pushes one:
\* MARK, NONE, ints; DUP; POP, POP_MARK; TUPLE, BUILD; REDUCE, whose result
\* may be anything.  The scanner sees a value that is no string.
Push ==
    /\ Reading
    /\ Scanned([scan EXCEPT !.recent = Remember(Other)])
    /\ Runs(TRUE, Pushes(Other))
\* Seeded fault: DUP is neutral.
DupUnseen ==
    /\ Reading
    /\ Scanned(scan)
    /\ Runs(Has(1), Pushes(Top(1)))
Dup ==
    /\ Reading
    /\ Scanned([scan EXCEPT !.recent = Remember(Other)])
    /\ Runs(Has(1), Pushes(Top(1)))
Pop ==
    /\ Reading
    /\ Scanned([scan EXCEPT !.recent = Remember(Other)])
    /\ Runs(Has(1), [vm EXCEPT !.stack = Without(1)])
Reduce(v) ==
    /\ Reading
    /\ Scanned([scan EXCEPT !.recent = Remember(Other)])
    /\ Runs(Has(2), [vm EXCEPT !.stack = Append(Without(2), v)])

\* PROTO, FRAME: no value.
Neutral == Reading /\ Scanned(scan) /\ Runs(TRUE, vm)

\* The end of a stream; another may follow.
Stop ==
    /\ Reading
    /\ scan' = [scan EXCEPT !.recent = <<>>, !.memo = <<>>, !.cut = FALSE, !.streams = TRUE, !.fresh = TRUE]
    /\ count' = count + 1
    /\ Runs(Has(1), [vm EXCEPT !.stack = <<>>, !.memo = <<>>])

-----------------------------------------------------------------------------
(* The end of the file.  What was found is left, the rest is forgotten.      *)

Ended(end) ==
    /\ scan.end = "reading"
    /\ scan' = [EmptyScan EXCEPT !.imports = scan.imports, !.unresolved = scan.unresolved, !.end = end]
    /\ vm' = [EmptyVm EXCEPT !.loaded = vm.loaded]
    /\ count' = 0

\* After a stream that imports nothing, the rest may be anything.
BrokenEnd == IF scan.streams /\ ~scan.cut THEN "ok" ELSE "broken"

EndOfFile == Ended(IF scan.streams /\ scan.fresh THEN "ok" ELSE BrokenEnd)

\* A byte that is no opcode, or an argument that cannot be read.
NotAnOpcode == Ended(BrokenEnd)

\* A cap is reached, or nothing more can be read after a stream.
LimitReached == Ended("limit")

Opcode ==
    \/ \E x \in Strings : String(x)
    \/ \E n \in Indexes : Put(n) \/ Get(n)
    \/ \E x \in Imports : Global(x) \/ Extension(x)
    \/ \E v \in Values : Reduce(v)
    \/ Memoize \/ StackGlobal \/ Push \/ Dup \/ Pop \/ Neutral \/ Stop

PickleInit == scan = EmptyScan /\ vm = EmptyVm /\ count = 0
PickleNext == Opcode \/ EndOfFile \/ NotAnOpcode \/ LimitReached

=============================================================================
