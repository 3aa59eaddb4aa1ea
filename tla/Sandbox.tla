------------------------------- MODULE Sandbox -------------------------------
(***************************************************************************)
(* One behavioural run of the gate (gate/sandbox/runner.py, netsink.py,    *)
(* decoys.py): an artifact's install hook runs in a disposable home among  *)
(* decoy credentials, its only network is a sink that records what it is   *)
(* sent, and what it did is read back as flags.  The hook, a process it    *)
(* leaves behind, the sink's threads and the runner interleave.            *)
(***************************************************************************)
EXTENDS Verdict, Sequences

CONSTANTS
    Decoys,       \* credential files planted, each with a token of its own
    Hosts,        \* destinations a request can name
    Paths,        \* files in persistence locations of the home
    None,         \* the place of a flag about the run itself
    Settings,     \* the runs explored, see SandboxAssumption
    MaxRequests   \* bound: connections to the sink in one run

Procs == {"hook", "child"}
Unknown == "?"    \* a request whose destination cannot be told

ASSUME SandboxAssumption ==
    /\ IsFiniteSet(Decoys) /\ IsFiniteSet(Hosts) /\ IsFiniteSet(Paths)
    /\ None \notin Decoys
    /\ Unknown \notin Hosts
    /\ MaxRequests \in Nat
    /\ \A s \in Settings :
        /\ s.backend \in BOOLEAN   \* is there an isolation backend?
        /\ s.hook \in BOOLEAN      \* does the artifact hold a hook it can run?
        /\ s.atimes \in BOOLEAN    \* does the mount keep access times?
        /\ s.forks \in BOOLEAN     \* may the hook start a process?

VARIABLES
    setting,
    phase,      \* of the runner
    proc,       \* state of the hook and of the process it starts
    child,      \* [own, pipes]: in a session of its own, holds the hook's output
    requests,   \* connections to the sink, in the order they were made
    captures,   \* what the sink recorded
    opened,     \* decoys that were read
    written,    \* persistence files there now
    timedOut,
    exfil,      \* tokens found in the captures, with the destination
    signals,    \* flags of the run
    past        \* history: what happened before the results were read

hookVars == <<proc, child, opened, written>>
runnerVars == <<phase, timedOut, exfil, signals>>
sandboxVars == <<setting, hookVars, runnerVars, requests, captures, past>>

Running(p) == proc[p] = "running"
Ran == phase \notin {"start", "skipped"}

\* Holders of the pipes communicate() reads: it returns once all have ended.
Holders == {"hook"} \cup (IF child.pipes THEN {"child"} ELSE {})
Hung == \E p \in Holders : Running(p)

-----------------------------------------------------------------------------
(* What the artifact does.                                                 *)

ReadDecoy(p, d) ==
    /\ Running(p) /\ d \notin opened
    /\ opened' = opened \cup {d}
    /\ UNCHANGED <<setting, proc, child, written, runnerVars, requests, captures, past>>

\* A request through the proxy.  The sink sees the tokens of a legible one:
\* in clear text (CONNECT shows the destination only) and in one piece, as it
\* reads once.
Request(p, tokens, host, legible) ==
    /\ Running(p) /\ Len(requests) < MaxRequests
    /\ phase \in {"waiting", "kill", "drain", "exfil", "hosts"}   \* then the sink is closed
    /\ requests' = Append(requests, [seen |-> IF legible THEN tokens ELSE {}, host |-> host, state |-> "sent"])
    /\ UNCHANGED <<setting, hookVars, runnerVars, captures, past>>

Write(p, f) ==
    /\ Running(p) /\ f \notin written
    /\ written' = written \cup {f}
    /\ UNCHANGED <<setting, proc, child, opened, runnerVars, requests, captures, past>>

StartChild(own, pipes) ==
    /\ setting.forks /\ Running("hook") /\ proc["child"] = "none"
    /\ proc' = [proc EXCEPT !["child"] = "running"]
    /\ child' = [own |-> own, pipes |-> pipes]
    /\ UNCHANGED <<setting, opened, written, runnerVars, requests, captures, past>>

Exit(p) ==
    /\ Running(p)
    /\ proc' = [proc EXCEPT ![p] = "ended"]
    /\ UNCHANGED <<setting, child, opened, written, runnerVars, requests, captures, past>>

Artifact ==
    \E p \in Procs :
        \/ \E d \in Decoys : ReadDecoy(p, d)
        \/ \E tokens \in SUBSET opened, host \in Hosts \cup {Unknown}, legible \in BOOLEAN :
              Request(p, tokens, host, legible)
        \/ \E f \in Paths : Write(p, f)
        \/ \E own, pipes \in BOOLEAN : p = "hook" /\ StartChild(own, pipes)
        \/ Exit(p)

-----------------------------------------------------------------------------
(* The sink: a thread per connection records the request, then answers.    *)

Hear(n) ==
    /\ requests[n].state = "sent"
    /\ captures' = Append(captures, [seen |-> requests[n].seen, host |-> requests[n].host])
    /\ requests' = [requests EXCEPT ![n].state = "heard"]
    /\ UNCHANGED <<setting, hookVars, runnerVars, past>>

\* Seeded fault: a request is answered before it is recorded.
AnswerFirst(n) ==
    /\ requests[n].state \in {"sent", "heard"}
    /\ requests' = [requests EXCEPT ![n].state = "answered"]
    /\ UNCHANGED <<setting, hookVars, runnerVars, captures, past>>

Answer(n) ==
    /\ requests[n].state = "heard"
    /\ requests' = [requests EXCEPT ![n].state = "answered"]
    /\ UNCHANGED <<setting, hookVars, runnerVars, captures, past>>

Sink == \E n \in DOMAIN requests : Hear(n) \/ Answer(n)

-----------------------------------------------------------------------------
(* The runner.                                                             *)

\* No backend: nothing is executed, and that is a gap.  No hook: nothing to run.
Skip ==
    /\ phase = "start" /\ ~(setting.backend /\ setting.hook)
    /\ phase' = "skipped"
    /\ signals' = {IF ~setting.backend THEN Flag("low", "G809", None) ELSE Flag("low", "G808", None)}
    /\ UNCHANGED <<setting, hookVars, timedOut, exfil, requests, captures, past>>

Detonate ==
    /\ phase = "start" /\ setting.backend /\ setting.hook
    /\ phase' = "waiting"
    /\ proc' = [proc EXCEPT !["hook"] = "running"]
    /\ UNCHANGED <<setting, child, opened, written, timedOut, exfil, signals, requests, captures, past>>

\* History: what had happened when the runner stopped waiting.
Noted == [answered |-> {n \in DOMAIN requests : requests[n].state = "answered"},
          opened |-> opened, written |-> written]

Finished ==
    /\ phase = "waiting" /\ ~Hung
    /\ phase' = "exfil" /\ past' = Noted
    /\ UNCHANGED <<setting, hookVars, timedOut, exfil, signals, requests, captures>>

TimeOut ==
    /\ phase = "waiting" /\ Hung
    /\ phase' = "kill" /\ timedOut' = TRUE
    /\ UNCHANGED <<setting, hookVars, exfil, signals, requests, captures, past>>

\* killpg, then kill of the hook.  The group of a hook that has ended may be
\* gone: then the child in its session is not found.
Kill ==
    /\ phase = "kill"
    /\ phase' = "drain"
    /\ \E found \in {TRUE, Running("hook")} :
        proc' = [p \in Procs |-> IF Running(p) /\ (p = "hook" \/ (found /\ ~child.own)) THEN "killed" ELSE proc[p]]
    /\ UNCHANGED <<setting, child, opened, written, timedOut, exfil, signals, requests, captures, past>>

\* The output is read to its end, or given up after five seconds.
\* Seeded fault: the output is read to its end, however long that takes.
DrainAll ==
    /\ phase = "drain" /\ ~Hung
    /\ phase' = "exfil" /\ past' = Noted
    /\ UNCHANGED <<setting, hookVars, timedOut, exfil, signals, requests, captures>>

Drain ==
    /\ phase = "drain"
    /\ phase' = "exfil" /\ past' = Noted
    /\ UNCHANGED <<setting, hookVars, timedOut, exfil, signals, requests, captures>>

\* exfiltrated_tokens: the destination of the last capture that holds a token.
Holding(d) == {n \in DOMAIN captures : d \in captures[n].seen}
LastWith(d) == captures[CHOOSE n \in Holding(d) : \A o \in Holding(d) : o <= n].host
Tokens == {d \in Decoys : Holding(d) # {}}

ReadExfil ==
    /\ phase = "exfil"
    /\ phase' = "hosts"
    /\ exfil' = [d \in Tokens |-> LastWith(d)]
    /\ UNCHANGED <<setting, hookVars, timedOut, signals, requests, captures, past>>

\* outbound_destinations; then the sink is closed and the flags are made.
Destinations == {captures[n].host : n \in DOMAIN captures} \ {Unknown}

ReadHosts ==
    /\ phase = "hosts"
    /\ phase' = "persist"
    /\ signals' = {Flag("high", "G801", <<d, exfil[d]>>) : d \in DOMAIN exfil}
                  \cup {Flag("medium", "G802", host) : host \in Destinations}
    /\ UNCHANGED <<setting, hookVars, timedOut, exfil, requests, captures, past>>

ReadPersistence ==
    /\ phase = "persist"
    /\ phase' = "access"
    /\ signals' = signals \cup {Flag("high", "G803", f) : f \in written}
    /\ UNCHANGED <<setting, hookVars, timedOut, exfil, requests, captures, past>>

\* Reads show in the access times; one that was exfiltrated is told already.
Touched == IF setting.atimes THEN opened \ DOMAIN exfil ELSE {}

ReadAccess ==
    /\ phase = "access"
    /\ phase' = "remove"
    /\ signals' = signals \cup {Flag("medium", "G804", d) : d \in Touched}
                  \cup FlagIf(timedOut, Flag("medium", "G805", None))
    /\ UNCHANGED <<setting, hookVars, timedOut, exfil, requests, captures, past>>

\* The temporary directory is removed; a process that is still writing to it
\* can make that fail, and the run with it.
Remove ==
    /\ phase = "remove"
    /\ phase' \in {"done"} \cup (IF \E p \in Procs : Running(p) THEN {"raised"} ELSE {})
    /\ UNCHANGED <<setting, hookVars, timedOut, exfil, signals, requests, captures, past>>

Runner ==
    \/ Skip \/ Detonate \/ Finished \/ TimeOut \/ Kill \/ Drain
    \/ ReadExfil \/ ReadHosts \/ ReadPersistence \/ ReadAccess \/ Remove

-----------------------------------------------------------------------------
SandboxInit ==
    /\ setting \in Settings
    /\ phase = "start"
    /\ proc = [p \in Procs |-> "none"] /\ child = [own |-> FALSE, pipes |-> FALSE]
    /\ requests = <<>> /\ captures = <<>> /\ opened = {} /\ written = {}
    /\ timedOut = FALSE /\ exfil = <<>> /\ signals = {}
    /\ past = [answered |-> {}, opened |-> {}, written |-> {}]

SandboxNext == Artifact \/ Sink \/ Runner
Stopped == phase \in {"skipped", "done", "raised"}
=============================================================================
