---------------------------- MODULE PluginReload ----------------------------
(* The plugin-dev plugin (packages/plugins/plugin-dev/src/index.ts): a reload *)
(* of the session's resources, at once or when the agent has settled.        *)
EXTENDS Naturals

CONSTANTS MaxSession, MaxRuns  \* bounds on the session changes and the runs

VARIABLES
    session,     \* context.piRuntime.session
    idle, runs,  \* its isIdle; the runs so far
    queued,      \* the session in which the queued request was made, or 0.  The plugin
                 \* keeps that there is one, not the session.
    active,      \* the reload that goes on: the sessions of its request and of its start
    status,      \* latest.status
    disposed

reloadVars == <<session, idle, runs, queued, active, status, disposed>>

None == [for |-> 0, in |-> 0]

Init ==
    /\ session = 1 /\ idle = TRUE /\ runs = 0
    /\ queued = 0 /\ active = None /\ status = "idle" /\ disposed = FALSE

\* Bug: only a reload that goes on counts.
Busy_Active == active # None

Busy == active # None \/ queued # 0

\* startReload, whose runtime may be missing
Start(asked) ==
    \/ active' = [for |-> asked, in |-> session] /\ status' = "running"
    \/ status' = "failed" /\ UNCHANGED active

\* The tool
Execute ==
    /\ ~disposed /\ ~Busy
    /\ \/ idle /\ Start(session) /\ UNCHANGED queued
       \/ ~idle /\ queued' = session /\ status' = "queued" /\ UNCHANGED active
       \/ ~idle /\ status' = "failed" /\ UNCHANGED <<queued, active>>
    /\ UNCHANGED <<session, idle, runs, disposed>>

\* A call that was cancelled before it started
ExecuteAborted ==
    /\ ~Busy /\ status' = "cancelled"
    /\ UNCHANGED <<session, idle, runs, queued, active, disposed>>

\* cancelQueued
AbortCall ==
    /\ queued # 0 /\ queued' = 0 /\ status' = "cancelled"
    /\ UNCHANGED <<session, idle, runs, active, disposed>>

RunStarts ==
    /\ idle /\ runs < MaxRuns
    /\ idle' = FALSE /\ runs' = runs + 1
    /\ UNCHANGED <<session, queued, active, status, disposed>>

\* Bug: what waits is not taken from the queue.
Left_Queued == queued

Left == 0

\* agent_settled of the present session, possibly with its next run under way:
\* what waits starts there.  Once disposed nothing is queued.
Settled ==
    /\ ~idle
    /\ \/ idle' = TRUE /\ UNCHANGED runs
       \/ idle' = FALSE /\ runs < MaxRuns /\ runs' = runs + 1
    /\ queued' = Left
    /\ IF queued # 0 THEN Start(queued) ELSE UNCHANGED <<active, status>>
    /\ UNCHANGED <<session, disposed>>

ReloadEnds ==
    /\ active # None /\ active' = None
    /\ status' \in {"reloaded", "failed"}
    /\ UNCHANGED <<session, idle, runs, queued, disposed>>

\* The runtime gets another session, whose runs settle instead; nobody tells the
\* plugin.
Switch ==
    /\ session < MaxSession
    /\ session' = session + 1 /\ idle' = TRUE
    /\ UNCHANGED <<runs, queued, active, status, disposed>>

\* Bug: disposal forgets what waits.
Dropped_Not == queued

Dropped == 0

Dispose ==
    /\ ~disposed /\ disposed' = TRUE
    /\ queued' = Dropped
    /\ status' = IF queued # 0 THEN "cancelled" ELSE status
    /\ UNCHANGED <<session, idle, runs, active>>

Next ==
    \/ Execute \/ ExecuteAborted \/ AbortCall \/ RunStarts \/ Settled \/ Switch
    \/ ReloadEnds \/ Dispose

\* A run settles, and a reload ends.
Fairness == WF_reloadVars(Settled) /\ WF_reloadVars(ReloadEnds)

-----------------------------------------------------------------------------
(* Properties *)

\* One reload at a time, and the panel says where it is.
OneReload ==
    /\ queued # 0 => active = None
    /\ (status = "queued") <=> (queued # 0)
    /\ (status = "running") <=> (active # None)

\* A reload starts once for its request, for a plugin that is there and for a
\* request that was not cancelled: at rest in the session of the call, or, if it
\* was queued, when a run of the present session settles.  That is the session
\* which asked only if none was opened in between.
ReloadAsked ==
    [][active' # active /\ active' # None =>
          /\ active = None /\ queued' = 0 /\ ~disposed'
          /\ active'.in = session'
          /\ IF status = "queued" THEN active'.for <= active'.in /\ ~idle
             ELSE active'.for = active'.in /\ idle']_reloadVars

\* Nothing is queued, but for a session that was left: such a request waits for
\* whatever run settles next, if one does.
NoneAwaited == queued = 0 \/ queued # session
=============================================================================
