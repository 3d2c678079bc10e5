----------------------------- MODULE TokenGuard -----------------------------
(* The token-guard plugin (packages/plugins/token-guard/src/index.ts): it     *)
(* aborts a run that reaches its token budget or whose context is too full,   *)
(* from what it samples of the session's events.                             *)
(*                                                                         *)
(* The token statistics of a session only grow, as their event order implies: *)
(* a message ends, the listeners run, then it is appended and counted.        *)
EXTENDS Integers

CONSTANTS
    maxRunTokens,             \* the budget of a run
    streamingUpdateInterval,
    MaxRuns, MaxMessage, MaxTotal  \* bounds: runs, tokens of a message, tokens of all

\* A budget of zero turns the budget off.
LimitAssumption == maxRunTokens \in Nat \ {0} /\ streamingUpdateInterval \in Nat \ {0}

Unknown == 0 - 1

VARIABLES
    session, seen,      \* the runtime's session, activeSession
    streaming,          \* isStreaming
    total, unsaved,     \* the session's statistics; the message that ended and is not in them
    generation, runStartTokens, runTokens, exceeded, abortIssued,
    failure,            \* abortError: the run whose abort failed, or 0
    sampled, updates,   \* sampledCurrentStream, messageUpdatesSinceInspection
    aborting,           \* the runs whose abort is under way
    run, used, aborts,  \* history: the run, its tokens and the aborts requested for it
    blind,              \* history: updates of the stream since the last inspection
    legible             \* history: that inspection could read what it is to count

env == <<session, streaming, total, unsaved>>
guardVars == <<env, seen, generation, runStartTokens, runTokens, exceeded, abortIssued, failure,
               sampled, updates, aborting, run, used, aborts, blind, legible>>

Init ==
    /\ session = 1 /\ seen = 1 /\ streaming = FALSE /\ total = 0 /\ unsaved = 0
    /\ generation = 0 /\ runStartTokens = Unknown /\ runTokens = Unknown
    /\ exceeded = FALSE /\ abortIssued = FALSE /\ failure = 0
    /\ sampled = FALSE /\ updates = 0
    /\ aborting = {} /\ run = 0 /\ used = 0 /\ aborts = 0 /\ blind = 0
    /\ legible = TRUE

\* Bug: a message that ended is counted from the statistics only.
Spent_Statistics(start, finalized) == total' - start

Spent(start, finalized) == total' - start + finalized

\* Bug: a reading that fails counts as it comes.
Counts_Always(readable, finalized) == TRUE

\* The statistics can be read, and the usage of the message that ended.
Counts(readable, finalized) == readable /\ finalized # Unknown

\* inspect: full says whether the context is above maxPercent, readable whether the
\* session has statistics and gives them.  What cannot be read is not counted, and
\* does not stop the run.
Inspect(starts, finalized, allowAbort) ==
    \E full, readable \in BOOLEAN :
    LET reset == seen # session'
        start == IF starts THEN IF readable THEN total' ELSE Unknown
                 ELSE IF reset THEN Unknown ELSE runStartTokens
        spent == IF start = Unknown \/ ~Counts(readable, finalized) THEN Unknown
                 ELSE IF starts THEN 0 ELSE Spent(start, finalized)
        over  == full \/ (spent # Unknown /\ spent >= maxRunTokens)
        issued == ~starts /\ ~reset /\ abortIssued
        abort == allowAbort /\ over /\ streaming' /\ ~issued
    IN  /\ seen' = session'
        /\ runStartTokens' = start /\ runTokens' = spent /\ exceeded' = over
        /\ generation' = IF starts THEN run' ELSE IF reset THEN 0 ELSE generation
        /\ abortIssued' = (issued \/ abort)
        /\ failure' = IF starts \/ reset \/ abort THEN 0 ELSE failure
        /\ aborting' = IF abort THEN aborting \cup {generation'} ELSE aborting
        /\ aborts' = (IF starts THEN 0 ELSE aborts) + (IF abort THEN 1 ELSE 0)
        /\ blind' = 0 /\ legible' = (readable /\ finalized # Unknown)

NotInspected == UNCHANGED <<seen, generation, runStartTokens, runTokens, exceeded, abortIssued,
                            failure, aborting, aborts, legible>>

NewStream == sampled' = FALSE /\ updates' = 0

AgentStart ==
    /\ ~streaming /\ run < MaxRuns
    /\ streaming' = TRUE /\ run' = run + 1 /\ used' = 0
    /\ UNCHANGED <<session, total, unsaved>>
    /\ NewStream
    /\ Inspect(TRUE, 0, TRUE)

\* Bug: one update too many.
Due_Late == updates >= streamingUpdateInterval

Due == updates + 1 >= streamingUpdateInterval

\* message_update: the first of a stream, then every streamingUpdateInterval-th
MessageUpdate ==
    /\ streaming /\ unsaved = 0
    /\ UNCHANGED <<env, run, used>>
    /\ sampled' = TRUE
    /\ IF ~sampled THEN UNCHANGED updates /\ Inspect(FALSE, 0, TRUE)
       ELSE IF Due THEN updates' = 0 /\ Inspect(FALSE, 0, TRUE)
       ELSE updates' = updates + 1 /\ blind' = blind + 1 /\ NotInspected

\* A message of n tokens, whose usage is reported as n or is missing or invalid
MessageEnd(n) ==
    /\ streaming /\ unsaved = 0 /\ total + n <= MaxTotal
    /\ unsaved' = n /\ used' = used + n
    /\ UNCHANGED <<session, streaming, total, run>>
    /\ NewStream
    /\ Inspect(FALSE, n, TRUE) \/ Inspect(FALSE, Unknown, TRUE)

EntryAppended ==
    /\ unsaved > 0
    /\ total' = total + unsaved /\ unsaved' = 0
    /\ UNCHANGED <<session, streaming, run, used>>
    /\ NewStream
    /\ Inspect(FALSE, 0, TRUE)

\* agent_end, while the session may still count as streaming
AgentEnd ==
    /\ streaming /\ unsaved = 0
    /\ streaming' \in BOOLEAN
    /\ UNCHANGED <<session, total, unsaved, run, used>>
    /\ NewStream
    /\ Inspect(FALSE, 0, TRUE)

\* The panel reads after the session was replaced.
ReadPanel ==
    /\ seen # session
    /\ UNCHANGED <<env, run, used, sampled, updates>>
    /\ Inspect(FALSE, 0, FALSE)

\* Another session, with tokens of its own
Switch(n) ==
    /\ ~streaming /\ unsaved = 0 /\ session = 1
    /\ session' = 2 /\ total' = n
    /\ UNCHANGED <<streaming, unsaved, run, used, sampled, updates, blind>>
    /\ NotInspected

\* Bug: a late failure is shown whatever runs by now.
Concerns_Any(g) == TRUE

Concerns(g) == g = generation

\* The promise of an abort: it fails, or resolves.
AbortSettles(g) ==
    /\ g \in aborting /\ aborting' = aborting \ {g}
    /\ failure' \in {failure, IF Concerns(g) THEN g ELSE failure}
    /\ UNCHANGED <<env, seen, generation, runStartTokens, runTokens, exceeded, abortIssued,
                   sampled, updates, run, used, aborts, blind, legible>>

Next ==
    \/ AgentStart \/ MessageUpdate \/ EntryAppended \/ AgentEnd \/ ReadPanel
    \/ \E n \in 1..MaxMessage : MessageEnd(n)
    \/ \E n \in 0..1 : Switch(n)
    \/ \E g \in aborting : AbortSettles(g)

-----------------------------------------------------------------------------
(* Properties *)

\* A run whose start was seen is charged every token of it once, unless the last
\* inspection could not read them: then no number is shown.  A stream goes
\* unobserved for less than an interval.
TokensCounted ==
    /\ seen = session =>
          runTokens = IF runStartTokens # Unknown /\ legible THEN used ELSE Unknown
    /\ blind < streamingUpdateInterval

\* A run that is over its budget and streams is told to stop, at the first
\* inspection that can read it and once.
BudgetEnforced ==
    /\ streaming /\ runStartTokens # Unknown /\ legible /\ used >= maxRunTokens => abortIssued
    /\ aborts <= 1

\* The error that is shown is of this run's abort.
FailureIsCurrent == failure \in {0, run}
=============================================================================
