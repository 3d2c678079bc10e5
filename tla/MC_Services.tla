----------------------------- MODULE MC_Services -----------------------------
(* The services of the plugin API and the plugins that act on the agent.     *)
(* They share no state, so a behaviour exercises one of them and leaves the   *)
(* others at rest.  The planner has no steps: a behaviour is one catalog and  *)
(* one entry.                                                                *)
EXTENDS Naturals, Sequences, InstallPlan

-----------------------------------------------------------------------------
(* marketplaceInstallPlan against its reference definition, over every       *)
(* catalog of three entries that declare at most two dependencies each.      *)

Ids == {"app", "one", "two"}
Unknown == "unknown"
MaxDeclared == 2

(* isMarketplacePlugin refuses a list that names a dependency twice.         *)
Declarations == {d \in UNION {[1 .. n -> Ids \cup {Unknown}] : n \in 0 .. MaxDeclared} :
                   Cardinality(ToSet(d)) = Len(d)}
Catalogs == [Ids -> Declarations]

(* Reference definition: the ids a plugin needs, by closure.                 *)
NeedsOf(catalog, ids) == ids \cup UNION {ToSet(catalog[i]) : i \in ids \cap Ids}
Reachable(catalog, id) ==
  NeedsOf(catalog, NeedsOf(catalog, NeedsOf(catalog, NeedsOf(catalog, {id}))))
Below(catalog, id) == UNION {Reachable(catalog, d) : d \in ToSet(catalog[id])}

(* The plan holds the entry and everything it needs, each once and after all *)
(* of its dependencies; or the walk reports an error, exactly when something *)
(* needed is unknown or needs itself, and names what is really wrong.        *)
SoundPlan(catalog, entry) ==
    LET result  == marketplaceInstallPlan(catalog, entry)
        plan    == result.plan
        needed  == Reachable(catalog, entry)
        cyclic  == \E i \in needed \cap Ids : i \in Below(catalog, i)
    IN /\ result.error = "none" <=> ~cyclic /\ Unknown \notin needed
       /\ result.error = "cycle" => cyclic
       /\ result.error = "unknown" => Unknown \in needed
       /\ result.error = "none" =>
            /\ ToSet(plan) = needed /\ IsInjective(plan) /\ Last(plan) = entry
            /\ \A i \in DOMAIN plan : \A d \in ToSet(catalog[plan[i]]) :
                 \E j \in 1 .. i - 1 : plan[j] = d

-----------------------------------------------------------------------------
(* The services *)

CONSTANTS
    Processes, Leader, maxOutputBytes, MaxChunk,
    Panels, Callers, NoPanel, MaxRegistrations, MaxReads,
    Ops, Children, Nobody, MaxScope,
    MaxSession, MaxRuns, MaxInstances,
    MaxCalls, maxRedirects, MaxFetches

VARIABLES
    service,  \* the one this behaviour exercises
    alive, told, code, group, stubborn, holders, pipes, written, captured,
    failure, stopped, forced, listening, result,
    panels, disposers, pending, reads, calls,
    catalog, entry,
    server, starting, proc, ends, serverStatus, queue, ids, op, heard, scope, latest, gone,
    rewindSession, rewindIdle, rewindRuns, rewindQueued, idleWait, due, rewindActive,
    rewindStatus, rewindDisposed,
    reloadSession, reloadIdle, reloadRuns, reloadQueued, reloadActive, reloadStatus, reloadDisposed,
    session, idle, runs, native, slots, plugin, disposed, queued, compaction, status,
    job, closing, asked,
    phase, redirect, timer, dispatcher, then, closed, fetches, checked,
    sandboxSession, pc, for, cancelled, client, container, answer, sandboxGone, sandboxCalls

\* Two plugins use one panel id in turn.
panelId == [p \in Panels |-> "panel"]

Command == INSTANCE BoundedCommand
Panel   == INSTANCE PanelRegistry
Servers == INSTANCE McpServers WITH status <- serverStatus, told <- heard, disposed <- gone
Rewind  == INSTANCE TurnRewind WITH session <- rewindSession, idle <- rewindIdle,
               runs <- rewindRuns, queued <- rewindQueued, active <- rewindActive,
               status <- rewindStatus, disposed <- rewindDisposed
Reload  == INSTANCE PluginReload WITH session <- reloadSession, idle <- reloadIdle, runs <- reloadRuns,
               queued <- reloadQueued, active <- reloadActive, status <- reloadStatus,
               disposed <- reloadDisposed
Doctor  == INSTANCE ContextDoctor WITH op <- compaction
Browser == INSTANCE BrowserSession WITH gone <- closing, calls <- asked
Fetch   == INSTANCE BrowserFetch
Sandbox == INSTANCE DockerSandbox WITH session <- sandboxSession, gone <- sandboxGone,
               calls <- sandboxCalls

ASSUME PanelConstants == Panel!PanelAssumption
ASSUME ServersConstants == Servers!ServersAssumption
ASSUME DoctorConstants == Doctor!DoctorAssumption

commandVars == <<alive, told, code, group, stubborn, holders, pipes, written, captured,
                 failure, stopped, forced, listening, result>>
panelVars   == <<panels, disposers, pending, reads, calls>>
planVars    == <<catalog, entry>>
serversVars == <<server, starting, proc, ends, serverStatus, queue, ids, op, heard, scope, latest, gone>>
rewindVars  == <<rewindSession, rewindIdle, rewindRuns, rewindQueued, idleWait, due, rewindActive,
                 rewindStatus, rewindDisposed>>
reloadVars  == <<reloadSession, reloadIdle, reloadRuns, reloadQueued, reloadActive, reloadStatus,
                 reloadDisposed>>
doctorVars  == <<session, idle, runs, native, slots, plugin, disposed, queued, compaction, status>>
browserVars == <<job, closing, asked>>
fetchVars   == <<phase, redirect, timer, dispatcher, then, closed, fetches, checked>>
sandboxVars == <<sandboxSession, pc, for, cancelled, client, container, answer, sandboxGone,
                 sandboxCalls>>
vars == <<service, commandVars, panelVars, planVars, serversVars, rewindVars, reloadVars, doctorVars,
          browserVars, fetchVars, sandboxVars>>

\* A command that has returned: at rest, none of its steps is possible.
CommandReturned ==
    /\ alive = {} /\ told = {} /\ code = "zero"
    /\ group = {Leader} /\ stubborn = {} /\ holders = {}
    /\ pipes = "closed" /\ written = 0 /\ captured = 0
    /\ failure = "none" /\ stopped = FALSE /\ forced = "unset"
    /\ listening = FALSE /\ result = "resolved"

Init ==
    /\ service \in {"command", "panel", "planner", "servers", "rewind", "reload", "doctor",
                   "browser", "fetch", "sandbox"}
    /\ IF service = "command" THEN Command!Init ELSE CommandReturned
    /\ IF service = "planner" THEN catalog \in Catalogs /\ entry \in Ids
       ELSE catalog = [i \in Ids |-> << >>] /\ entry = "app"
    /\ Panel!Init /\ Servers!Init /\ Rewind!Init /\ Reload!Init /\ Doctor!Init
    /\ Browser!Init /\ Fetch!Init /\ Sandbox!Init

Next ==
    \/ /\ service = "command" /\ Command!Next
       /\ UNCHANGED <<service, panelVars, planVars, serversVars, rewindVars, reloadVars, doctorVars,
                      browserVars, fetchVars, sandboxVars>>
    \/ /\ service = "panel" /\ Panel!Next
       /\ UNCHANGED <<service, commandVars, planVars, serversVars, rewindVars, reloadVars, doctorVars,
                      browserVars, fetchVars, sandboxVars>>
    \/ /\ service = "servers" /\ Servers!Next
       /\ UNCHANGED <<service, commandVars, panelVars, planVars, rewindVars, reloadVars, doctorVars,
                      browserVars, fetchVars, sandboxVars>>
    \/ /\ service = "rewind" /\ Rewind!Next
       /\ UNCHANGED <<service, commandVars, panelVars, planVars, serversVars, reloadVars, doctorVars,
                      browserVars, fetchVars, sandboxVars>>
    \/ /\ service = "reload" /\ Reload!Next
       /\ UNCHANGED <<service, commandVars, panelVars, planVars, serversVars, rewindVars, doctorVars,
                      browserVars, fetchVars, sandboxVars>>
    \/ /\ service = "doctor" /\ Doctor!Next
       /\ UNCHANGED <<service, commandVars, panelVars, planVars, serversVars, rewindVars, reloadVars,
                      browserVars, fetchVars, sandboxVars>>
    \/ /\ service = "browser" /\ Browser!Next
       /\ UNCHANGED <<service, commandVars, panelVars, planVars, serversVars, rewindVars, reloadVars,
                      doctorVars, fetchVars, sandboxVars>>
    \/ /\ service = "fetch" /\ Fetch!Next
       /\ UNCHANGED <<service, commandVars, panelVars, planVars, serversVars, rewindVars, reloadVars,
                      doctorVars, browserVars, sandboxVars>>
    \/ /\ service = "sandbox" /\ Sandbox!Next
       /\ UNCHANGED <<service, commandVars, panelVars, planVars, serversVars, rewindVars, reloadVars,
                      doctorVars, browserVars, fetchVars>>
\* At rest none of the fair steps of a service is possible.
FairSpec ==
    /\ Init /\ [][Next]_vars
    /\ Command!Fairness /\ Panel!Fairness /\ Servers!Fairness
    /\ Rewind!Fairness /\ Reload!Fairness /\ Doctor!Fairness
    /\ Browser!Fairness /\ Fetch!Fairness /\ Sandbox!Fairness

-----------------------------------------------------------------------------
(* The properties of the services, under the names of the configuration.    *)

\* What an operation answers is whole and is the answer to what was asked: a
\* command's output, a tool server's results, however late they come, a browser's
\* command that was carried out once, and a page from an address that was checked.
\* A request that has ended, in whatever way, holds no socket, dispatcher or timer,
\* and an answered sandbox call no container that runs.
AnswersAreWhole ==
    /\ Command!ResolvedIsWhole /\ Servers!AnswersMatch
    /\ Browser!CommandOnce /\ Browser!NothingHeld
    /\ Fetch!CheckedBeforeAsked /\ Fetch!NothingHeld
    /\ Sandbox!NothingRuns

\* One at a time: the reads of a panel, the processes of a tool server, the
\* rewinds, the reloads, and the compactions of a session.
OneAtATime ==
    /\ Panel!OneReadAtATime /\ Servers!OneProcess
    /\ Rewind!OneRewind /\ Reload!OneReload /\ Doctor!OneCompaction

\* What waited does not start for a plugin that is gone, nor after its caller
\* cancelled it.  Rewinds and compactions start in the session they were asked for
\* and at rest, a container in its session; a reload that waited starts when a run
\* settles, in whatever session that is.
StartedInPlace ==
    /\ Servers!NotSentAfterCancel /\ Browser!NoneSentAfterCancel
    /\ Rewind!RewindInPlace /\ Reload!ReloadAsked /\ Doctor!CompactionInPlace
    /\ Sandbox!RunInPlace

\* A panel shows no data of a removed registration and none that is late, is
\* removed by its own disposer only, and shows the compaction that goes on.
PanelsAreCurrent ==
    Panel!DataIsCurrent /\ Panel!OwnDisposerOnly /\ []Doctor!CompactionStatus

\* marketplaceInstallPlan: the plan of the entry is complete and in order, or
\* its error is real.
PlanIsSound == service = "planner" => SoundPlan(catalog, entry)

\* A stopped command, and a disposed plugin, leave nothing running.
NoSurvivors == Command!NoSurvivors /\ Servers!NoProcessLeft

\* What is awaited returns, whoever keeps its pipes open and whatever its
\* callbacks do, and what is queued starts or is dropped unless its session was
\* left.  Consoles poll the panels for ever, each by itself; of the other services,
\* one of which acts in a behaviour, nothing is awaited again and again.
CallsReturn ==
    /\ Panel!SnapshotReturns
    /\ []<>(/\ Command!NoneAwaited /\ Servers!NoneAwaited
            /\ Rewind!NoneAwaited /\ Reload!NoneAwaited /\ Doctor!NoneAwaited
            /\ Browser!NoneAwaited /\ Fetch!NoneAwaited /\ Sandbox!NoneAwaited)
=============================================================================
