---------------------------- MODULE BoundedCommand ----------------------------
(***************************************************************************)
(* runBoundedCommand (packages/plugin-api/src/bounded-command.ts) on POSIX: *)
(* one command in a process group of its own, its output pipes, the abort   *)
(* signal, the timeout, and the escalation from SIGTERM to SIGKILL.         *)
(*                                                                         *)
(* The operating system is external: a process may exit when it likes, may  *)
(* ignore SIGTERM, and may leave the group with the pipes still open.       *)
(***************************************************************************)
EXTENDS Integers, FiniteSets

CONSTANTS
    Processes,       \* the command and its descendants
    Leader,          \* the one of them that was spawned
    maxOutputBytes,  \* the output limit
    MaxChunk         \* bound on one data event

VARIABLES
    alive,     \* processes that have not exited
    group,     \* those the kill of the process group reaches
    stubborn,  \* those that ignore SIGTERM
    holders,   \* those that keep stdout or stderr open while they live
    told,      \* those SIGTERM was delivered to
    code,      \* how the leader ended
    pipes,     \* stdout and stderr: open, ended or destroyed
    written,   \* bytes the pipes delivered
    captured,  \* bytes kept in chunks; stdout stands for both streams
    failure,   \* the first reason to fail
    stopped,   \* stop() has run
    forced,    \* forceTimer: unset, set or fired
    listening, \* the abort listener and the timeout are in place
    result     \* how the promise settled

processes == <<alive, told, code>>
nature    == <<group, stubborn, holders>>
outcome   == <<failure, stopped, forced, listening, result>>
vars      == <<processes, nature, pipes, written, captured, outcome>>

Reasons == {"cancelled", "timed out", "output limit", "spawn"}
NoFailure == "none"
Unsettled == "pending"

-----------------------------------------------------------------------------
\* The child was spawned, or spawning failed: an error and a close follow.
Init ==
    /\ group \in {g \in SUBSET Processes : Leader \in g}
    /\ stubborn \in SUBSET Processes /\ holders \in SUBSET Processes
    /\ alive \in {Processes, {}}
    /\ told = {}
    /\ code = IF alive = {} THEN "failed" ELSE "running"
    /\ pipes = "open"
    /\ written = 0 /\ captured = 0
    /\ failure = IF alive = {} THEN "spawn" ELSE NoFailure
    /\ stopped = FALSE
    /\ forced = "unset"
    /\ listening = TRUE
    /\ result = Unsettled

\* child.stdout and child.stderr have ended and the leader has exited.
Closed == pipes # "open" /\ Leader \notin alive

-----------------------------------------------------------------------------
(* finish(): settles the promise once. *)

Outcome ==
    IF failure # NoFailure THEN failure ELSE IF code = "zero" THEN "resolved" ELSE "exit code"

Finish ==
    IF result = Unsettled
    THEN /\ result' = Outcome
         /\ listening' = FALSE
    ELSE UNCHANGED <<result, listening>>

\* Bug: the leader's close cancels the escalation.
Close_Disarms ==
    /\ Closed /\ pipes = "ended"
    /\ pipes' = "closed"
    /\ Finish
    /\ forced' = "unset"
    /\ UNCHANGED <<processes, nature, written, captured, failure, stopped>>

\* child "close".
Close ==
    /\ Closed /\ pipes = "ended"
    /\ pipes' = "closed"
    /\ Finish
    /\ UNCHANGED <<processes, nature, written, captured, failure, stopped, forced>>

-----------------------------------------------------------------------------
(* stop(reason) *)

Stop(reason) ==
    /\ failure' = IF failure = NoFailure THEN reason ELSE failure
    /\ stopped' = TRUE
    /\ IF stopped THEN UNCHANGED <<told, forced>>
       ELSE /\ told' = told \cup ((alive \cap group) \ stubborn)
            /\ forced' = "set"

\* The caller's signal aborts.
Abort ==
    /\ listening
    /\ Stop("cancelled")
    /\ UNCHANGED <<alive, code, nature, pipes, written, captured, listening, result>>

Timeout ==
    /\ listening
    /\ Stop("timed out")
    /\ UNCHANGED <<alive, code, nature, pipes, written, captured, listening, result>>

\* Bug: bytes above the limit are dropped and the command goes on.
Append_Truncates(bytes) ==
    /\ captured' = IF captured + bytes > maxOutputBytes THEN maxOutputBytes
                   ELSE captured + bytes
    /\ UNCHANGED <<told, failure, stopped, forced>>

\* append(): keep what fits, stop at the first byte that does not.
Append(bytes) ==
    LET remaining == maxOutputBytes - captured
    IN IF bytes > remaining
       THEN captured' = maxOutputBytes /\ Stop("output limit")
       ELSE /\ captured' = captured + bytes
            /\ UNCHANGED <<told, failure, stopped, forced>>

\* A data event; what was written after the limit no longer matters.
Data ==
    /\ pipes = "open" /\ alive \cap holders # {}
    /\ captured = written
    /\ \E bytes \in 1 .. MaxChunk : written' = written + bytes /\ Append(bytes)
    /\ UNCHANGED <<alive, code, nature, pipes, listening, result>>

\* Bug: a destroyed pipe is waited for all the same.
Force_Waits ==
    /\ forced = "set"
    /\ forced' = "fired"
    /\ alive' = alive \ group
    /\ code' = IF Leader \in alive' \/ Leader \notin alive THEN code ELSE "signal"
    /\ UNCHANGED <<told, nature, pipes, written, captured, failure, stopped, listening, result>>

\* forceTimer: SIGKILL to the group, the pipes destroyed, finish().
Force ==
    /\ forced = "set"
    /\ forced' = "fired"
    /\ alive' = alive \ group
    /\ code' = IF Leader \in alive THEN "signal" ELSE code
    /\ pipes' = IF pipes = "closed" THEN pipes ELSE "destroyed"
    /\ Finish
    /\ UNCHANGED <<told, nature, written, captured, failure, stopped>>

-----------------------------------------------------------------------------
(* The operating system *)

\* A process ends by itself, or because of the SIGTERM it was told.
Exit(p) ==
    /\ p \in alive
    /\ alive' = alive \ {p}
    /\ IF p = Leader THEN code' \in {"zero", "nonzero"} ELSE UNCHANGED code
    /\ UNCHANGED <<told, nature, pipes, written, captured, outcome>>

\* The last process that held a pipe has exited.
PipesEnd ==
    /\ pipes = "open" /\ alive \cap holders = {}
    /\ pipes' = "ended"
    /\ UNCHANGED <<processes, nature, written, captured, outcome>>

Next ==
    \/ Abort \/ Timeout \/ Data \/ Force \/ Close \/ PipesEnd
    \/ \E p \in Processes : Exit(p)

Spec == Init /\ [][Next]_vars

\* Timers fire and events are delivered; SIGTERM ends those it was told to.
Fairness ==
    /\ WF_vars(Timeout) /\ WF_vars(Force) /\ WF_vars(PipesEnd) /\ WF_vars(Close)
    /\ \A p \in Processes : WF_vars(p \in told /\ Exit(p))

FairSpec == Spec /\ Fairness
-----------------------------------------------------------------------------
(* Properties *)

\* The types; no more than maxOutputBytes are kept of what was written.
TypeOK ==
    /\ alive \subseteq Processes /\ told \subseteq group \ stubborn
    /\ group \subseteq Processes /\ stubborn \subseteq Processes /\ holders \subseteq Processes
    /\ code \in {"running", "zero", "nonzero", "signal", "failed"}
    /\ pipes \in {"open", "ended", "destroyed", "closed"}
    /\ written \in Nat /\ captured \in 0 .. maxOutputBytes
    /\ failure \in Reasons \cup {NoFailure}
    /\ stopped \in BOOLEAN /\ listening \in BOOLEAN
    /\ forced \in {"unset", "set", "fired"}
    /\ result \in Reasons \cup {Unsettled, "resolved", "exit code"}

\* A command that resolves ended by itself with 0, was never asked to stop, and
\* its output is whole: whoever held a pipe is gone and nothing was cut off.
ResolvedIsWhole ==
    result = "resolved" =>
        /\ code = "zero" /\ ~stopped
        /\ alive \cap holders = {}
        /\ captured = written

\* A command that was stopped leaves nothing of its group running, also when
\* the leader exits and the promise settles before the escalation.
NoSurvivors == stopped ~> alive \cap group = {}

\* The promise settles, also when a process that left the group keeps the
\* pipes open for ever.
NoneAwaited == result # Unsettled
=============================================================================
