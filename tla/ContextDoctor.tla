---------------------------- MODULE ContextDoctor ----------------------------
(* The context-doctor plugin (packages/plugins/context-doctor/src/index.ts):  *)
(* a confirmed compaction of the session's context, at once or when the agent *)
(* has settled, under the compaction slot of plugin-api/session-compaction.ts *)
(* that outlives a plugin which is disposed and applied again.                *)
EXTENDS Naturals, FiniteSets

CONSTANTS MaxSession, MaxRuns, MaxInstances  \* bounds: sessions, runs, times the plugin is applied

DoctorAssumption == MaxSession \in Nat \ {0} /\ MaxInstances \in Nat \ {0}

Sessions  == 1..MaxSession
Instances == 1..MaxInstances

VARIABLES
    session, idle, runs,  \* the runtime's session, whether it is idle, the runs so far
    native,      \* sessions the agent itself compacts
    slots,       \* activeSessions
    plugin,      \* the instance that is applied
    disposed,    \* or was, and is no more
    queued,      \* the session the queued request is for, or 0
    op,          \* the operation of each instance: its session or 0, the one it was asked for, whether it is aborted
    status       \* the state of each session that the applied instance shows

doctorVars == <<session, idle, runs, native, slots, plugin, disposed, queued, op, status>>
env == <<session, idle, runs, native>>

NoOp == [on |-> 0, for |-> 0, stop |-> FALSE]

Init ==
    /\ session = 1 /\ idle = TRUE /\ runs = 0 /\ native = {}
    /\ slots = {} /\ plugin = 1 /\ disposed = FALSE
    /\ queued = 0 /\ op = [i \in Instances |-> NoOp]
    /\ status = [s \in Sessions |-> "idle"]

Compacting(s) == s \in native \/ \E i \in Instances : op[i].on = s

\* Bug: a request of an earlier session is started in this one.
Stale_Kept == FALSE

Stale == queued # 0 /\ queued # session

\* cancelForSessionChange
KeptQueue == IF Stale THEN 0 ELSE queued
KeptStatus == IF Stale THEN [status EXCEPT ![queued] = "cancelled"] ELSE status
KeptOp == IF op[plugin].on \notin {0, session} THEN [op EXCEPT ![plugin].stop = TRUE] ELSE op

SlotFree(s) == ~Compacting(s) /\ s \notin slots

\* startCompaction: no other event comes before compact() is called.
Start(s, for) ==
    IF SlotFree(s)
    THEN /\ slots' = slots \cup {s}
         /\ op' = [op EXCEPT ![plugin] = [on |-> s, for |-> for, stop |-> FALSE]]
         /\ status' = [KeptStatus EXCEPT ![s] = "running"]
    ELSE /\ status' = [KeptStatus EXCEPT ![s] = "failed"]
         /\ op' = KeptOp /\ UNCHANGED slots

\* execute, with a confirmed compaction
Execute ==
    /\ ~disposed
    /\ IF op[plugin].on # 0 \/ KeptQueue # 0 \/ Compacting(session)
       THEN queued' = KeptQueue /\ op' = KeptOp /\ status' = KeptStatus /\ UNCHANGED slots
       ELSE IF idle THEN queued' = 0 /\ Start(session, session)
       ELSE /\ queued' = session
            /\ status' = [KeptStatus EXCEPT ![session] = "queued"]
            /\ op' = KeptOp /\ UNCHANGED slots
    /\ UNCHANGED <<env, plugin, disposed>>

\* Any other session event, or a read of the panel
Notice ==
    /\ ~disposed
    /\ queued' = KeptQueue /\ status' = KeptStatus /\ op' = KeptOp
    /\ UNCHANGED <<env, slots, plugin, disposed>>

\* agent_settled
Settled ==
    /\ ~idle /\ idle' = TRUE
    /\ IF disposed THEN UNCHANGED <<queued, op, status, slots>>
       ELSE /\ queued' = 0
            /\ IF KeptQueue # 0 THEN Start(session, KeptQueue)
               ELSE status' = KeptStatus /\ op' = KeptOp /\ UNCHANGED slots
    /\ UNCHANGED <<session, runs, native, plugin, disposed>>

\* The call's signal, while its request waits
AbortCall ==
    /\ queued # 0 /\ queued' = 0
    /\ status' = [status EXCEPT ![queued] = "cancelled"]
    /\ UNCHANGED <<env, slots, plugin, disposed, op>>

\* The signal of the call whose compaction runs
AbortRunning ==
    /\ op[plugin].on # 0
    /\ op' = [op EXCEPT ![plugin].stop = TRUE]
    /\ UNCHANGED <<env, slots, plugin, disposed, queued, status>>

\* pi/session-abort-requested: the user stops whatever the session does.
AbortRequested ==
    /\ ~disposed /\ (~idle \/ Compacting(session))
    /\ queued' = IF queued = session THEN 0 ELSE queued
    /\ status' = IF queued = session THEN [status EXCEPT ![queued] = "cancelled"] ELSE status
    /\ op' = IF op[plugin].on = session THEN [op EXCEPT ![plugin].stop = TRUE] ELSE op
    /\ UNCHANGED <<env, slots, plugin, disposed>>

\* Bug: the end does not look where the runtime is by now.
Changed_Not(i) == FALSE

Changed(i) == op[i].on # session

\* compact() resolves or rejects; the slot is free again.
CompactEnds(i) ==
    /\ op[i].on # 0
    /\ \E ok \in BOOLEAN :
         LET end == IF ok /\ ~Changed(i) THEN "completed"
                    ELSE IF Changed(i) \/ op[i].stop THEN "cancelled" ELSE "failed"
         IN status' = IF i = plugin THEN [status EXCEPT ![op[i].on] = end] ELSE status
    /\ op' = [op EXCEPT ![i] = NoOp]
    /\ slots' = slots \ {op[i].on}
    /\ UNCHANGED <<env, plugin, disposed, queued>>

RunStarts ==
    /\ idle /\ runs < MaxRuns
    /\ idle' = FALSE /\ runs' = runs + 1
    /\ UNCHANGED <<session, native, slots, plugin, disposed, queued, op, status>>

\* The agent compacts on its own, and is done.
NativeCompaction ==
    /\ \/ ~Compacting(session) /\ native' = native \cup {session}
       \/ \E s \in native : native' = native \ {s}
    /\ UNCHANGED <<session, idle, runs, slots, plugin, disposed, queued, op, status>>

Switch ==
    /\ session < MaxSession
    /\ session' = session + 1 /\ idle' = TRUE
    /\ UNCHANGED <<runs, native, slots, plugin, disposed, queued, op, status>>

Dispose ==
    /\ ~disposed /\ disposed' = TRUE /\ queued' = 0
    /\ op' = IF op[plugin].on # 0 THEN [op EXCEPT ![plugin].stop = TRUE] ELSE op
    /\ UNCHANGED <<env, slots, plugin, status>>

\* A new instance knows of nothing.
Apply ==
    /\ disposed /\ plugin < MaxInstances
    /\ disposed' = FALSE /\ plugin' = plugin + 1
    /\ status' = [s \in Sessions |-> "idle"]
    /\ UNCHANGED <<env, slots, queued, op>>

Next ==
    \/ Execute \/ Notice \/ Settled \/ AbortCall \/ AbortRunning \/ AbortRequested
    \/ \E i \in Instances : CompactEnds(i)
    \/ RunStarts \/ NativeCompaction \/ Switch \/ Dispose \/ Apply

Fairness == WF_doctorVars(Settled) /\ \A i \in Instances : WF_doctorVars(CompactEnds(i))

-----------------------------------------------------------------------------
(* Properties *)

\* A session is compacted by one instance at a time, whichever were disposed
\* meanwhile, and its slot is held exactly as long.
OneCompaction ==
    /\ \A i, j \in Instances : op[i].on # 0 /\ op[i].on = op[j].on => i = j
    /\ slots = {op[i].on : i \in Instances} \ {0}

\* What the panel shows of a session is what is queued or running for it.
CompactionStatus ==
    ~disposed => \A s \in Sessions :
        /\ (status[s] = "queued") <=> (queued = s)
        /\ (status[s] = "running") <=> (op[plugin].on = s)

\* A compaction starts in the session it was asked for, and is reported as
\* completed only while that is still the session.
CompactionInPlace ==
    [][/\ \A i \in Instances : op'[i].for = op'[i].on
       /\ \A s \in Sessions : status[s] = "running" /\ status'[s] = "completed" => s = session]_doctorVars

\* Nothing is queued, but for a session that was left, and the slots are free.
NoneAwaited == (queued = 0 \/ queued # session) /\ slots = {}
=============================================================================
