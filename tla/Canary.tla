------------------------------- MODULE Canary -------------------------------
(***************************************************************************)
(* Decoy files and the canary registry.                                    *)
(*                                                                         *)
(* `zee watch' seeds every decoy when it starts (decoy/seeder.py): a decoy *)
(* that is missing is written, with a URL whose token the registry         *)
(* (decoy/canary_token.py) remembers.  A second kind of caller gives each  *)
(* storage place an e-mail address of its own (decoy/place_email.py,       *)
(* decoy/query_canary.py), under a lock that the first kind does not take. *)
(* Both append to canary_tokens.jsonl; nothing prevents several watches.   *)
(*                                                                         *)
(* An append that the OS cuts short may leave a piece of a line, or a line *)
(* that lacks only its newline.  The next append continues it, and what    *)
(* was two records is one line that no reader understands.                 *)
(***************************************************************************)
EXTENDS Naturals, Sequences, FiniteSets

CONSTANTS
    Paths,       \* decoys whose template has room for a URL (not ssh_key)
    Places,      \* storage places that get an address
    Domains,     \* mail domains
    Bases,       \* values of ZEE_CANARY_BASE_URL over time
    NoBase,      \* the variable is not set
    Procs,       \* watches and address commands
    FREE_TIER_MAX_ADDRESSES,
    MaxTokens,   \* bound: no call that could draw another one starts then
    MaxFaults,   \* bound: kills, failed reads, failed writes, removed decoys
    MaxEvents    \* bound: tokens and faults together

ASSUME ConstantsAssumption ==
    /\ NoBase \notin Bases
    /\ IsFiniteSet(Places)
    /\ FREE_TIER_MAX_ADDRESSES \in Nat
    /\ MaxTokens \in Nat
    /\ {MaxFaults, MaxEvents} \subseteq Nat

VARIABLES
    registry,  \* the lines of canary_tokens.jsonl
    tail,      \* its last line: "closed", "whole" without newline, or a "piece"
    lock,      \* processes inside the lock of the address table
    decoy,     \* [Paths -> what the file holds]
    call,      \* [Procs -> what the process is doing]
    minted,    \* tokens drawn so far: a token is its number (0: none)
    faults,    \* what has been used of MaxFaults
    handed,    \* addresses given to the operator (history)
    glued      \* tokens whose record an append onto an open line destroyed (history)

files == <<registry, tail>>
vars == <<registry, tail, lock, decoy, call, minted, faults, handed, glued>>

-----------------------------------------------------------------------------
(* The registry file. *)

(***************************************************************************)
(* One line.  `decoy' lines bind a token to the decoy `key'; `place' lines *)
(* bind it to a place and a domain.  For a place the token stands for the  *)
(* alias as well, which is drawn with it.  `from' is the number of lines   *)
(* its writer had loaded (history).                                        *)
(***************************************************************************)
Line(kind, token, base, key, domain, from) ==
    [kind |-> kind, token |-> token, base |-> base, key |-> key, domain |-> domain, from |-> from]

JunkLine == Line("junk", 0, NoBase, NoBase, NoBase, 0)

Readable(kind) == {registry[i] : i \in {j \in 1 .. Len(registry) : registry[j].kind = kind}}

\* The tokens whose lines become unreadable when `line' is appended now.
Destroyed(line) ==
    CASE tail = "closed" -> {}
      [] tail = "piece" -> {line.token}
      [] tail = "whole" -> {line.token, registry[Len(registry)].token}

\* _persist when every byte is written.
Appended(line) ==
    CASE tail = "closed" -> Append(registry, line)
      [] tail = "piece" -> Append(registry, JunkLine)
      [] tail = "whole" -> [registry EXCEPT ![Len(registry)] = JunkLine]

Fault ==
    /\ faults < MaxFaults /\ minted + faults < MaxEvents
    /\ faults' = faults + 1

Persisted(line) ==
    /\ registry' = Appended(line)
    /\ tail' = "closed"
    /\ glued' = glued \cup Destroyed(line)
    /\ UNCHANGED faults

\* _persist when the OS takes nothing, a piece, or all but the newline: a
\* piece that continues an open line spoils it as well.
NotPersisted(line) ==
    /\ Fault
    /\ \/ UNCHANGED <<registry, tail, glued>>
       \/ /\ tail = "closed"
          /\ tail' = "piece"
          /\ UNCHANGED <<registry, glued>>
       \/ /\ tail = "closed"
          /\ tail' = "whole"
          /\ registry' = Append(registry, line)
          /\ UNCHANGED glued
       \/ /\ tail = "whole"
          /\ tail' = "piece"
          /\ registry' = SubSeq(registry, 1, Len(registry) - 1)
          /\ glued' = glued \cup {registry[Len(registry)].token}

\* The token of the last of `lines', 0 when there is none.
TokenOfLast(lines) ==
    IF lines = {} THEN 0 ELSE registry[CHOOSE i \in lines : \A j \in lines : j <= i].token

(***************************************************************************)
(* _load_from_file: the token of each decoy under a base URL.  Malformed   *)
(* lines and lines of another base URL are skipped; the last line wins.    *)
(***************************************************************************)
Bound(path, base) ==
    {i \in 1 .. Len(registry) :
        registry[i].kind = "decoy" /\ registry[i].key = path /\ registry[i].base = base}

Loaded(path, base) == TokenOfLast(Bound(path, base))

(***************************************************************************)
(* _records: the address table.  An unreadable line, or a place or alias   *)
(* that is bound twice, stops the caller.                                  *)
(***************************************************************************)
Corrupt ==
    \/ tail = "piece"
    \/ \E i \in 1 .. Len(registry) : registry[i].kind = "junk"
    \/ \E i, j \in 1 .. Len(registry) :
           /\ i # j
           /\ registry[i].kind = "place" /\ registry[j].kind = "place"
           /\ registry[i].key = registry[j].key

Table == Readable("place")

\* is_known_value of an address: any readable line of the file names it,
\* whatever base URL the asking process has.
IsKnown(base, alias) == \E r \in Table : r.token = alias

\* locate, for one alias: the places it is a candidate for, none for an unknown
\* alias.  It reads the table with _records, which stops it for any line at all.
Locate(domain, alias) ==
    IF Corrupt THEN [raises |-> TRUE, places |-> {}]
    ELSE [raises |-> FALSE,
          places |-> {r.key : r \in {s \in Table : s.domain = domain /\ s.token = alias}}]

-----------------------------------------------------------------------------
(* What a process is doing. *)

Absent == [is |-> "absent", token |-> 0, base |-> NoBase]
Part == [is |-> "part", token |-> 0, base |-> NoBase]
Holding(token, base) == [is |-> "full", token |-> token, base |-> base]

(***************************************************************************)
(* A call: `at' is the place in the code; `base' the registry's base URL;  *)
(* `known' its map from decoys to tokens and `from' how much of the file   *)
(* it was loaded from; `todo' the decoys still to seed; `key', `token' and *)
(* `domain' the decoy or place worked on.                                  *)
(***************************************************************************)
Idle ==
    [at |-> "idle", base |-> NoBase, known |-> [f \in Paths |-> 0], from |-> 0,
     todo |-> {}, key |-> NoBase, token |-> 0, domain |-> NoBase]

SeedSteps == {"look", "persist", "open", "fill"}
AddressSteps == {"lock", "read", "mint", "recheck"}

TypeOK ==
    /\ \A i \in 1 .. Len(registry) :
           /\ registry[i].kind \in {"decoy", "place", "junk"}
           /\ registry[i].token \in 0 .. minted
           /\ registry[i].key \in Paths \cup Places \cup {NoBase}
           /\ registry[i].from \in 0 .. Len(registry)
    /\ tail \in {"closed", "whole", "piece"}
    /\ lock \subseteq Procs /\ Cardinality(lock) <= 1
    /\ \A f \in Paths :
           /\ decoy[f].is \in {"absent", "part", "full"}
           /\ decoy[f].token \in 0 .. minted
    /\ \A p \in Procs :
           /\ call[p].at \in {"idle"} \cup SeedSteps \cup AddressSteps
           /\ call[p].todo \subseteq Paths
           /\ call[p].token \in 0 .. minted
           /\ call[p].at \in AddressSteps \ {"lock"} <=> p \in lock
    /\ minted \in Nat
    /\ faults \in 0 .. MaxFaults
    /\ glued \subseteq 1 .. minted

Init ==
    /\ registry = <<>> /\ tail = "closed" /\ lock = {}
    /\ decoy = [f \in Paths |-> Absent]
    /\ call = [p \in Procs |-> Idle]
    /\ minted = 0 /\ faults = 0
    /\ handed = {} /\ glued = {}

Goes(p, next) == call' = [call EXCEPT ![p] = next]

-----------------------------------------------------------------------------
(* Seeding. *)

\* A watch starts: CanaryTokenRegistry loads the file, seed_all begins.  A
\* file that cannot be read counts as empty.
StartSeed(p, base) ==
    /\ call[p].at = "idle"
    /\ \E read \in BOOLEAN :
           /\ IF read \/ base = NoBase THEN UNCHANGED faults ELSE Fault
           /\ Goes(p, [Idle EXCEPT !.at = "look", !.todo = Paths, !.base = base,
                         !.known = [f \in Paths |-> IF read /\ base # NoBase
                                                    THEN Loaded(f, base) ELSE 0],
                         !.from = IF read THEN Len(registry) ELSE 0])
    /\ UNCHANGED <<files, lock, decoy, minted, handed, glued>>

\* seed: an existing decoy is left alone.
AlreadyThere(p, path) ==
    /\ call[p].at = "look" /\ path \in call[p].todo
    /\ decoy[path] # Absent
    /\ Goes(p, [call[p] EXCEPT !.todo = @ \ {path}])
    /\ UNCHANGED <<files, lock, decoy, minted, faults, handed, glued>>

\* seed: no URL without a base URL, or issue_for_decoy finds the token in memory.
Reuse(p, path) ==
    /\ call[p].at = "look" /\ path \in call[p].todo
    /\ decoy[path] = Absent
    /\ call[p].base = NoBase \/ call[p].known[path] # 0
    /\ Goes(p, [call[p] EXCEPT !.at = "open", !.key = path,
                  !.token = call[p].known[path]])
    /\ UNCHANGED <<files, lock, decoy, minted, faults, handed, glued>>

\* issue_for_decoy draws a token and enters it in its map.
Mint(p, path) ==
    /\ call[p].at = "look" /\ path \in call[p].todo
    /\ decoy[path] = Absent
    /\ call[p].base # NoBase /\ call[p].known[path] = 0
    /\ minted' = minted + 1
    /\ Goes(p, [call[p] EXCEPT !.at = "persist", !.key = path, !.token = minted + 1,
                  !.known[path] = minted + 1])
    /\ UNCHANGED <<files, lock, decoy, faults, handed, glued>>

\* Seeded fault: the error is logged and the decoy is written all the same.
GoesOnUnpersisted(c) == [c EXCEPT !.at = "open"]

\* Where seed goes on when _persist raised: nowhere, the watch ends.
AfterFailedPersist(c) == Idle

Persist(p) ==
    /\ call[p].at = "persist"
    /\ LET c == call[p]
           line == Line("decoy", c.token, c.base, c.key, NoBase, c.from)
       IN \/ Persisted(line) /\ Goes(p, [c EXCEPT !.at = "open"])
          \/ NotPersisted(line) /\ Goes(p, AfterFailedPersist(c))
    /\ UNCHANGED <<lock, decoy, minted, handed>>

\* write_text creates or empties the file ...
Open(p) ==
    /\ call[p].at = "open"
    /\ \/ /\ decoy' = [decoy EXCEPT ![call[p].key] = Part]
          /\ Goes(p, [call[p] EXCEPT !.at = "fill"])
          /\ UNCHANGED faults
       \/ Fault /\ Goes(p, Idle) /\ UNCHANGED decoy    \* Z201
    /\ UNCHANGED <<files, lock, minted, handed, glued>>

\* ... and fills it.
Fill(p) ==
    /\ call[p].at = "fill"
    /\ LET c == call[p]
       IN \/ /\ decoy' = [decoy EXCEPT ![c.key] = Holding(c.token, c.base)]
             /\ Goes(p, [c EXCEPT !.at = "look", !.todo = @ \ {c.key},
                           !.key = NoBase, !.token = 0])
             /\ UNCHANGED faults
          \/ Fault /\ Goes(p, Idle) /\ UNCHANGED decoy    \* Z201
    /\ UNCHANGED <<files, lock, minted, handed, glued>>

\* seed_all returns; what follows in the watch is not about decoys' contents.
Seeded(p) ==
    /\ call[p].at = "look" /\ call[p].todo = {}
    /\ Goes(p, Idle)
    /\ UNCHANGED <<files, lock, decoy, minted, faults, handed, glued>>

-----------------------------------------------------------------------------
(* Addresses of places. *)

\* issue_place_email up to the lock.
StartAddress(p, place, domain, base) ==
    /\ call[p].at = "idle"
    /\ Goes(p, [Idle EXCEPT !.at = "lock", !.key = place, !.domain = domain, !.base = base])
    /\ UNCHANGED <<files, lock, decoy, minted, faults, handed, glued>>

\* Seeded fault: the table is read and extended without the lock.
MayAlwaysEnter(p) == TRUE

\* HostLock.__enter__.
MayEnter(p) == lock = {}

Enter(p) ==
    /\ call[p].at = "lock"
    /\ MayEnter(p)
    /\ lock' = lock \cup {p}
    /\ Goes(p, [call[p] EXCEPT !.at = "read"])
    /\ UNCHANGED <<files, decoy, minted, faults, handed, glued>>

\* HostLock.__enter__ gives up.
LockBusy(p) ==
    /\ call[p].at = "lock" /\ lock # {}
    /\ Goes(p, Idle)
    /\ UNCHANGED <<files, lock, decoy, minted, faults, handed, glued>>

\* The call returns or raises; HostLock.__exit__.
Leaves(p) == lock' = lock \ {p} /\ Goes(p, Idle)

OfPlace(place) == {r \in Table : r.key = place}

\* The place has an address on this domain: it is returned again.
Known(p) ==
    /\ call[p].at = "read" /\ ~Corrupt
    /\ \E r \in OfPlace(call[p].key) :
           /\ r.domain = call[p].domain
           /\ handed' = handed \cup {[place |-> r.key, domain |-> r.domain, alias |-> r.token]}
    /\ Leaves(p)
    /\ UNCHANGED <<files, decoy, minted, faults, glued>>

\* The table is corrupt, the place is on another domain, all addresses are
\* used up, or no base URL is set.
Refused(p) ==
    /\ call[p].at = "read"
    /\ \/ Corrupt
       \/ \E r \in OfPlace(call[p].key) : r.domain # call[p].domain
       \/ /\ OfPlace(call[p].key) = {}
          /\ \/ Cardinality({r.key : r \in Table}) >= FREE_TIER_MAX_ADDRESSES
             \/ call[p].base = NoBase
    /\ Leaves(p)
    /\ UNCHANGED <<files, decoy, minted, faults, handed, glued>>

\* issue_query_canary draws the alias.
DrawAlias(p) ==
    /\ call[p].at = "read" /\ ~Corrupt
    /\ OfPlace(call[p].key) = {} /\ call[p].base # NoBase
    /\ Cardinality({r.key : r \in Table}) < FREE_TIER_MAX_ADDRESSES
    /\ minted' = minted + 1
    /\ Goes(p, [call[p] EXCEPT !.at = "mint", !.token = minted + 1])
    /\ UNCHANGED <<files, lock, decoy, faults, handed, glued>>

PersistAlias(p) ==
    /\ call[p].at = "mint"
    /\ LET c == call[p]
           line == Line("place", c.token, c.base, c.key, c.domain, 0)
       IN \/ Persisted(line) /\ Goes(p, [c EXCEPT !.at = "recheck"]) /\ UNCHANGED lock
          \/ NotPersisted(line) /\ Leaves(p)
    /\ UNCHANGED <<decoy, minted, handed>>

\* The table is read again before the address is returned.
Validates == ~Corrupt

Recheck(p) ==
    /\ call[p].at = "recheck"
    /\ handed' = IF Validates
                 THEN handed \cup {[place |-> call[p].key, domain |-> call[p].domain,
                                    alias |-> call[p].token]}
                 ELSE handed
    /\ Leaves(p)
    /\ UNCHANGED <<files, decoy, minted, faults, glued>>

-----------------------------------------------------------------------------
(* The world. *)

\* A process is killed; the OS frees its lock.
Crash(p) ==
    /\ call[p].at # "idle"
    /\ Fault
    /\ Leaves(p)
    /\ UNCHANGED <<files, decoy, minted, handed, glued>>

\* Someone deletes a decoy; the next watch seeds it again.
RemoveDecoy(path) ==
    /\ decoy[path] # Absent
    /\ Fault
    /\ decoy' = [decoy EXCEPT ![path] = Absent]
    /\ UNCHANGED <<files, lock, call, minted, handed, glued>>

SeedStep(p) ==
    \/ \E path \in Paths : AlreadyThere(p, path) \/ Reuse(p, path) \/ Mint(p, path)
    \/ Persist(p) \/ Open(p) \/ Fill(p) \/ Seeded(p)

AddressStep(p) ==
    \/ Enter(p) \/ LockBusy(p) \/ Known(p) \/ Refused(p)
    \/ DrawAlias(p) \/ PersistAlias(p) \/ Recheck(p)

Begin(p) ==
    \E base \in Bases \cup {NoBase} :
        /\ base = NoBase \/ (minted < MaxTokens /\ minted + faults < MaxEvents)
        /\ \/ StartSeed(p, base)
           \/ \E place \in Places, domain \in Domains : StartAddress(p, place, domain, base)

Next ==
    \/ \E p \in Procs : Begin(p) \/ SeedStep(p) \/ AddressStep(p) \/ Crash(p)
    \/ \E path \in Paths : RemoveDecoy(path)

Spec == Init /\ [][Next]_vars

-----------------------------------------------------------------------------
(* Properties. *)

(***************************************************************************)
(* The URL in a decoy is one the registry file can attribute, whatever was *)
(* killed or failed in between: its line is in the file before the decoy   *)
(* is written (seeder.seed).  Only an append onto an unfinished line can   *)
(* make it unreadable.                                                     *)
(***************************************************************************)
EmbeddedIsTracked ==
    \A f \in Paths :
        decoy[f].token # 0 =>
            \/ decoy[f].token \in glued
            \/ \E r \in Readable("decoy") :
                   r.token = decoy[f].token /\ r.key = f /\ r.base = decoy[f].base

(***************************************************************************)
(* "reseeding the same decoy_path yields the same URL across restarts"     *)
(* (seeder.seed): a decoy has a second URL under one base URL only if the  *)
(* watch that made it had not loaded the line of the first.                *)
(***************************************************************************)
OneUrlPerDecoy ==
    \A i, j \in 1 .. Len(registry) :
        /\ i < j
        /\ registry[i].kind = "decoy" /\ registry[j].kind = "decoy"
        /\ registry[i].key = registry[j].key
        /\ registry[i].base = registry[j].base
        => registry[j].from < i

(***************************************************************************)
(* "two runs cannot both pass the cap or mint two addresses for one place" *)
(* (issue_place_email), although watches append to the same file without   *)
(* the lock: one address per place is ever handed out, and no more places  *)
(* have one than the free tier covers.                                     *)
(***************************************************************************)
OneAddressPerPlace ==
    /\ \A g, h \in handed : g.place = h.place => g = h
    /\ Cardinality({h.place : h \in handed}) <= FREE_TIER_MAX_ADDRESSES

(***************************************************************************)
(* An address that was handed out stays known to the exclusion check under *)
(* every base URL (is_known_value), unless its line was glued to another.  *)
(* A leak of it is attributed to its place, or locate stops with an error: *)
(* no decoy is ever reported as an unknown alias or under another place.   *)
(***************************************************************************)
HandedOutIsKnown ==
    \A h \in handed :
        /\ h.alias \in glued \/ \A base \in Bases : IsKnown(base, h.alias)
        /\ \/ Locate(h.domain, h.alias).raises
           \/ Locate(h.domain, h.alias).places = {h.place}

(***************************************************************************)
(* Watches that append without the lock never make the address table       *)
(* corrupt: locate and issue_place_email stop for good only after an       *)
(* append was cut short.                                                   *)
(***************************************************************************)
StopsOnlyForATear == Corrupt => tail = "piece" \/ glued # {}

(***************************************************************************)
(* The registry's invariant, and what a touched decoy or a received mail   *)
(* is traced by.                                                           *)
(***************************************************************************)
RegistryInv == TypeOK /\ OneUrlPerDecoy /\ OneAddressPerPlace
TokensAttribute == EmbeddedIsTracked /\ HandedOutIsKnown /\ StopsOnlyForATear
=============================================================================
