----------------------------- MODULE EventStream -----------------------------
(***************************************************************************)
(* What the API gateway makes of Pi's session events                        *)
(* (packages/api-gateway/src/index.ts, handleEvent): the phase of the run   *)
(* it reports by /api/status and on tool completions.  The events retained  *)
(* for the snapshots of /api/events are left out.                           *)
(*                                                                         *)
(* Pi is external: its flags change and its events come in the order of a   *)
(* run; calls of an aborted run never end; a branch summary compacts        *)
(* without events; another session may take over at any moment.             *)
(***************************************************************************)
EXTENDS Naturals, Sequences, SequencesExt, FiniteSets

CONSTANTS
    Sessions,                \* session ids
    Calls,                   \* tool call ids
    NoSession,               \* in an activity record: there is none
    MAX_PENDING_TOOL_CALLS

CallsAssumption == NoSession \notin Sessions /\ MAX_PENDING_TOOL_CALLS \in Nat \ {0}

VARIABLES
    current,           \* services.runtime.session.sessionId
    isStreaming,
    isCompacting,
    run,               \* where Pi's run is
    executing,         \* tool calls that have started and not ended
    summary,           \* the compaction is a branch summary
    toolCallStartedAt, \* its keys, in the order of insertion
    runActivity,       \* session and phase of the run
    runPhase,          \* the phase the last tool_execution_end carried
    reply,             \* the run in the last answer of /api/status
    dropped            \* history: this run had more calls than are kept

pi      == <<current, isStreaming, isCompacting, run, executing, summary>>
gateway == <<toolCallStartedAt, runActivity, runPhase, dropped>>
vars    == <<pi, gateway, reply>>

Phases == {"starting", "thinking", "responding", "tool", "compacting"}
Busy   == isStreaming \/ isCompacting
None   == [session |-> NoSession, phase |-> "starting"]
Activity(phase) == [session |-> current, phase |-> phase]

-----------------------------------------------------------------------------
Init ==
    /\ current \in Sessions
    /\ isStreaming = FALSE /\ isCompacting = FALSE
    /\ run = "none" /\ executing = {} /\ summary = FALSE
    /\ toolCallStartedAt = << >>
    /\ runActivity = None
    /\ runPhase = "starting" /\ reply = None /\ dropped = FALSE

\* The events that start, end or replace an activity.
Bounds(type) ==
    /\ runActivity' =
         CASE type = "agent_start" -> Activity("starting")
           [] type = "agent_settled" -> None
           [] type = "compaction_start" -> Activity("compacting")
           [] type = "compaction_end" -> IF isStreaming THEN Activity("starting") ELSE None
    /\ toolCallStartedAt' = IF type \in {"agent_start", "agent_settled"} THEN << >>
                            ELSE toolCallStartedAt
    /\ dropped' = (dropped /\ type # "agent_start")
    /\ UNCHANGED runPhase

\* The others move the activity of the session's run, if it has one.
HasRun == runActivity.session = current \/ isStreaming
Moves(phase) == runActivity' = IF HasRun THEN Activity(phase) ELSE runActivity

CurrentPhase == IF runActivity.session = current THEN runActivity.phase ELSE "starting"

\* message_update: shown live, not retained.
Delta(phase) ==
    /\ Moves(IF phase = "other" THEN CurrentPhase ELSE phase)
    /\ UNCHANGED <<toolCallStartedAt, runPhase, dropped>>

\* stampEvent of a start.
Noted(c) ==
    LET full == Len(toolCallStartedAt) >= MAX_PENDING_TOOL_CALLS
    IN Append(IF full THEN Tail(toolCallStartedAt) ELSE toolCallStartedAt, c)

ToolStart(c) ==
    /\ toolCallStartedAt' = Noted(c)
    /\ dropped' = (dropped \/ Len(toolCallStartedAt) >= MAX_PENDING_TOOL_CALLS)
    /\ Moves("tool")
    /\ UNCHANGED runPhase

ToolUpdate ==
    /\ Moves("tool")
    /\ UNCHANGED <<toolCallStartedAt, runPhase, dropped>>

\* A key is in the map once.
Deleted(c) ==
    IF c \in ToSet(toolCallStartedAt)
    THEN RemoveAt(toolCallStartedAt, CHOOSE i \in DOMAIN toolCallStartedAt : toolCallStartedAt[i] = c)
    ELSE toolCallStartedAt

\* Bug: any completion means the model is asked again.
PhaseAfter_Starting(left) == "starting"

PhaseAfter(left) == IF left # << >> THEN "tool" ELSE "starting"

ToolEnd(c) ==
    LET left == Deleted(c)
    IN /\ toolCallStartedAt' = left
       /\ runPhase' = IF HasRun THEN PhaseAfter(left) ELSE runPhase
       /\ Moves(PhaseAfter(left))
       /\ UNCHANGED dropped

-----------------------------------------------------------------------------
(* Pi's run *)

RunBegins ==
    /\ run = "none" /\ ~isCompacting
    /\ run' = "starting" /\ isStreaming' = TRUE
    /\ UNCHANGED <<current, isCompacting, executing, summary, gateway, reply>>

AgentStarts ==
    /\ run = "starting"
    /\ run' = "active" /\ Bounds("agent_start")
    /\ UNCHANGED <<current, isStreaming, isCompacting, executing, summary, reply>>

MessageUpdate ==
    /\ run = "active" /\ ~isCompacting
    /\ \E phase \in {"thinking", "responding", "other"} : Delta(phase)
    /\ UNCHANGED <<pi, reply>>

CallStarts(c) ==
    /\ run = "active" /\ ~isCompacting /\ c \notin executing
    /\ executing' = executing \cup {c} /\ ToolStart(c)
    /\ UNCHANGED <<current, isStreaming, isCompacting, run, summary, reply>>

CallProgresses(c) ==
    /\ c \in executing
    /\ ToolUpdate
    /\ UNCHANGED <<pi, reply>>

CallEnds(c) ==
    /\ c \in executing
    /\ executing' = executing \ {c} /\ ToolEnd(c)
    /\ UNCHANGED <<current, isStreaming, isCompacting, run, summary, reply>>

\* The run is over or aborted: the flag drops before or after agent_settled.
RunEnds ==
    /\ run = "active" /\ ~isCompacting
    /\ executing' = {}
    /\ \/ run' = "settling" /\ isStreaming' = FALSE /\ UNCHANGED gateway
       \/ run' = "stopping" /\ UNCHANGED isStreaming /\ Bounds("agent_settled")
    /\ UNCHANGED <<current, isCompacting, summary, reply>>

RunOver ==
    /\ \/ run = "settling" /\ Bounds("agent_settled")
       \/ run = "stopping" /\ UNCHANGED gateway
    /\ run' = "none" /\ isStreaming' = FALSE
    /\ UNCHANGED <<current, isCompacting, executing, summary, reply>>

CompactionBegins ==
    /\ run \in {"none", "active"} /\ executing = {} /\ ~isCompacting
    /\ isCompacting' = TRUE
    /\ \/ summary' = FALSE /\ Bounds("compaction_start")
       \/ run = "none" /\ summary' = TRUE /\ UNCHANGED gateway
    /\ UNCHANGED <<current, isStreaming, run, executing, reply>>

CompactionEnds ==
    /\ isCompacting
    /\ isCompacting' = FALSE
    /\ IF summary THEN UNCHANGED gateway ELSE Bounds("compaction_end")
    /\ UNCHANGED <<current, isStreaming, run, executing, summary, reply>>

\* Another session's object takes over; the old one's events are cut off.
SessionReplaced ==
    /\ current' \in Sessions \ {current}
    /\ isStreaming' = FALSE /\ isCompacting' = FALSE
    /\ run' = "none" /\ executing' = {} /\ summary' = FALSE
    /\ UNCHANGED <<gateway, reply>>

-----------------------------------------------------------------------------
\* Bug: an activity is kept as long as something is busy.
Reconciled_Kept == IF ~Busy THEN None ELSE runActivity

\* GET /api/status brings the activity in line with the flags.
Reconciled ==
    IF ~Busy THEN None
    ELSE IF \/ runActivity.session # current
            \/ isCompacting /\ runActivity.phase # "compacting"
         THEN Activity(IF isCompacting THEN "compacting" ELSE "starting")
         ELSE runActivity

\* Pi, then the gateway's answer built by createStatus.
Status ==
    /\ runActivity' = Reconciled
    /\ reply' = IF ~Busy \/ runActivity'.session # current THEN None
                ELSE Activity(IF isCompacting THEN "compacting" ELSE runActivity'.phase)
    /\ UNCHANGED <<pi, toolCallStartedAt, runPhase, dropped>>

Next ==
    \/ RunBegins \/ AgentStarts \/ MessageUpdate \/ RunEnds \/ RunOver
    \/ \E c \in Calls : CallStarts(c) \/ CallProgresses(c) \/ CallEnds(c)
    \/ CompactionBegins \/ CompactionEnds
    \/ SessionReplaced
    \/ Status

Spec == Init /\ [][Next]_vars

-----------------------------------------------------------------------------
(* Properties *)

\* The types and the limits.
TypeOK ==
    /\ current \in Sessions
    /\ isStreaming \in BOOLEAN /\ isCompacting \in BOOLEAN /\ summary \in BOOLEAN
    /\ run \in {"none", "starting", "active", "settling", "stopping"}
    /\ executing \subseteq Calls
    /\ Len(toolCallStartedAt) <= MAX_PENDING_TOOL_CALLS
    /\ ToSet(toolCallStartedAt) \subseteq Calls
    /\ runActivity \in [session : Sessions \cup {NoSession}, phase : Phases]
    /\ dropped \in BOOLEAN
    /\ runPhase \in {"starting", "tool"}

\* "completion events carry the authoritative remaining-work phase": while no
\* more calls overlap than are kept, a completion says "tool" exactly if
\* another call of the run is still executing, whatever earlier runs left.
CompletionPhase ==
    [][\A c \in Calls : c \in executing /\ executing' = executing \ {c} /\ run' = "active"
          => /\ executing' = {} => runPhase' = "starting"
             /\ executing' # {} /\ ~dropped => runPhase' = "tool"]_vars

\* The answer of /api/status has a run exactly while the session is busy, says
\* "compacting" exactly while it compacts, and "tool" only while a call of the
\* session executes, across aborts, branch summaries and replaced sessions.
\* Between a run's flag and its agent_start the phase may be a left-over.
StatusTruthful ==
    [][Status =>
         /\ (reply' # None) <=> Busy
         /\ reply' # None /\ run # "starting" =>
               /\ reply'.session = current
               /\ reply'.phase = "compacting" <=> isCompacting
               /\ reply'.phase = "tool" => executing # {}]_vars
=============================================================================
