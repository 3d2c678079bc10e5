----------------------------- MODULE TurnRewind -----------------------------
(* The turn-rewind plugin (packages/plugins/turn-rewind/src/index.ts): a     *)
(* navigation back to a user turn, which waits in a queue of one for the run  *)
(* to be over and must not reach the session that came after.                *)
EXTENDS Naturals

CONSTANTS MaxSession, MaxRuns  \* bounds on the session changes and the runs

VARIABLES
    session,   \* context.piRuntime.session
    idle,      \* its isIdle
    runs,
    queued,    \* the session the queued request is for, or 0
    idleWait,  \* the session whose waitForIdle is awaited, or 0
    due,       \* that promise is resolved, its continuation not run
    active,    \* the navigation: the sessions it was asked for and is in, 0 if none
    status,    \* latest.status
    disposed

rewindVars == <<session, idle, runs, queued, idleWait, due, active, status, disposed>>
env == <<session, idle, runs>>

None == [for |-> 0, in |-> 0]

Init ==
    /\ session = 1 /\ idle = TRUE /\ runs = 0
    /\ queued = 0 /\ idleWait = 0 /\ due = FALSE /\ active = None
    /\ status = "none" /\ disposed = FALSE

\* Bug: a request of an earlier session stays in the queue.
Stale_Kept == FALSE

Stale == queued # 0 /\ queued # session

\* cancelStaleQueue, and what is left of the queue after it
Kept == IF Stale THEN 0 ELSE queued
KeptStatus == IF Stale THEN "cancelled" ELSE status

\* Bug: the navigation starts while a run goes on.
Startable_Running(rest) == TRUE

Startable(rest) == rest

\* startQueuedIfIdle
StartQueued(rest) ==
    IF Kept # 0 /\ Startable(rest)
    THEN queued' = 0 /\ active' = [for |-> Kept, in |-> session] /\ status' = "running"
    ELSE queued' = Kept /\ status' = KeptStatus /\ UNCHANGED active

\* waitForQueuedIdle
WaitForIdle ==
    /\ queued' = Kept /\ status' = KeptStatus
    /\ idleWait' = IF Kept # 0 /\ idleWait = 0 THEN session ELSE idleWait
    /\ UNCHANGED active

\* Bug: a second rewind is accepted while one is queued.
Busy_Active == active # None

Busy == active # None \/ Kept # 0

\* execute: the tool runs inside a run, or outside of one.
Execute ==
    /\ ~disposed /\ ~Busy
    /\ IF idle
       THEN active' = [for |-> session, in |-> session] /\ status' = "running" /\ queued' = 0
       ELSE queued' = session /\ status' = "queued" /\ UNCHANGED active
    /\ UNCHANGED <<env, idleWait, due, disposed>>

\* The caller's signal, while its request waits.
AbortCall ==
    /\ queued # 0
    /\ queued' = 0 /\ status' = "cancelled"
    /\ UNCHANGED <<env, idleWait, due, active, disposed>>

NavigationEnds ==
    /\ active # None
    /\ active' = None
    /\ status' \in {"completed", "failed", "cancelled"}
    /\ UNCHANGED <<env, queued, idleWait, due, disposed>>

\* The promise of waitForIdle is settled; a run may start before its
\* continuation.
IdleDue ==
    /\ idleWait # 0 /\ ~due /\ (idle \/ idleWait # session)
    /\ due' = TRUE
    /\ UNCHANGED <<env, queued, idleWait, active, status, disposed>>

\* It fails when its session goes away.
IdleResolves ==
    /\ due /\ due' = FALSE /\ idleWait' = 0
    /\ \/ IF disposed THEN UNCHANGED <<queued, active, status>> ELSE StartQueued(idle)
       \/ /\ idleWait # session
          /\ queued' = IF queued = idleWait THEN 0 ELSE queued
          /\ status' = IF queued = idleWait THEN "failed" ELSE status
          /\ UNCHANGED active
    /\ UNCHANGED <<env, disposed>>

RunStarts ==
    /\ idle /\ runs < MaxRuns
    /\ idle' = FALSE /\ runs' = runs + 1
    /\ UNCHANGED <<session, queued, idleWait, due, active, status, disposed>>

\* agent_end: the session is not idle yet, and may go on.
AgentEnd ==
    /\ ~idle /\ ~disposed
    /\ WaitForIdle
    /\ UNCHANGED <<env, due, disposed>>

\* agent_settled, possibly with the next run under way
Settled ==
    /\ ~idle
    /\ \/ idle' = TRUE /\ UNCHANGED runs
       \/ idle' = FALSE /\ runs < MaxRuns /\ runs' = runs + 1
    /\ IF disposed THEN UNCHANGED <<queued, idleWait, active, status>>
       ELSE IF Kept # 0 /\ ~idle' THEN WaitForIdle
       ELSE StartQueued(idle') /\ UNCHANGED idleWait
    /\ UNCHANGED <<session, due, disposed>>

\* The runtime gets another session; nobody tells the plugin.
Switch ==
    /\ session < MaxSession
    /\ session' = session + 1 /\ idle' = TRUE
    /\ UNCHANGED <<runs, queued, idleWait, due, active, status, disposed>>

\* The panel reads, which is when a stale request is noticed.
ReadPanel ==
    /\ Stale /\ ~disposed
    /\ queued' = Kept /\ status' = KeptStatus
    /\ UNCHANGED <<env, idleWait, due, active, disposed>>

\* The lifecycle signal aborts what waits; a navigation goes on.
Dispose ==
    /\ ~disposed
    /\ disposed' = TRUE
    /\ queued' = 0
    /\ status' = IF queued # 0 THEN "cancelled" ELSE status
    /\ UNCHANGED <<env, idleWait, due, active>>

Next ==
    \/ RunStarts \/ AgentEnd \/ Settled \/ Switch
    \/ Execute \/ AbortCall \/ IdleDue \/ IdleResolves \/ NavigationEnds \/ ReadPanel \/ Dispose

\* A run settles, and promises that are due resolve.
Fairness == WF_rewindVars(Settled) /\ WF_rewindVars(IdleDue) /\ WF_rewindVars(IdleResolves) /\ WF_rewindVars(NavigationEnds)

-----------------------------------------------------------------------------
(* Properties *)

\* One rewind at a time, and the panel says where it is.
OneRewind ==
    /\ queued # 0 => active = None
    /\ (status = "queued") <=> (queued # 0)
    /\ (status = "running") <=> (active # None)

\* A rewind starts in the session it was asked for, at rest, and not for a
\* plugin that is gone.
RewindInPlace ==
    [][active' # active /\ active' # None => active'.for = active'.in /\ idle' /\ ~disposed']_rewindVars

\* Nothing is queued, but for a session that was left.
NoneAwaited == queued = 0 \/ queued # session
=============================================================================
