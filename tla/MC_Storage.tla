------------------------------ MODULE MC_Storage ------------------------------
(* What is kept: atomic file replacement, the files that requests of the       *)
(* gateway change (GatewayFiles), those that processes and plugins share       *)
(* (SharedFiles), and the counts plugins keep.                                *)
(* They share nothing, so a behaviour exercises one of them and leaves the    *)
(* others as they begin.                                                     *)
EXTENDS AtomicWrite, GatewayFiles, SharedFiles, Sequences, SequencesExt, FiniteSets

CONSTANTS
    maxRunTokens, streamingUpdateInterval, MaxRuns, MaxMessage, MaxTotal,
    Fingerprints, maxFailures, MaxObserved,
    Types, CompactionStart, Other, maxEventTypes, maxRecentEvents, MaxEvents

VARIABLES
    part,  \* the one this behaviour exercises
    guardSession, guardSeen, guardStreaming, total, unsaved, generation, runStartTokens, runTokens,
    exceeded, abortIssued, abortError, sampled, updates, aborting, run, spent, aborts, blind, legible,
    failures, indexed, observed, dropped, forgotten, last,
    insightSession, cached, eventTypes, recentEvents, eventCount, compactionCount, eventsSeen, lastSeen

Guard  == INSTANCE TokenGuard WITH session <- guardSession, seen <- guardSeen,
              streaming <- guardStreaming, failure <- abortError, used <- spent
Logger == INSTANCE FailLogger
Insights == INSTANCE ContextInsights WITH session <- insightSession, seen <- eventsSeen

ASSUME GuardLimits == Guard!LimitAssumption
ASSUME LoggerLimits == Logger!LimitAssumption
ASSUME InsightLimits == Insights!LimitAssumption

\* The shape of the shipped catalog: change-verifier depends on reviewer-bot and
\* test-harness.  "app" is the dependent, "one" and "two" its dependencies;
\* plans come from the planner.
Planner == INSTANCE InstallPlan
Catalog == [app |-> <<"one", "two">>, one |-> << >>, two |-> << >>]

CatalogPlugins == DOMAIN Catalog
CatalogPlan == [p \in CatalogPlugins |-> Planner!marketplaceInstallPlan(Catalog, p).plan]
CatalogDependencies == [p \in CatalogPlugins |-> ToSet(Catalog[p])]
CatalogTools == {"app", "two"}

write   == <<tail, prev, pc, mode, synced, temps, name, kept, before>>
guard   == <<guardSession, guardSeen, guardStreaming, total, unsaved, generation, runStartTokens,
             runTokens, exceeded, abortIssued, abortError, sampled, updates, aborting, run, spent,
             aborts, blind, legible>>
logger  == <<failures, indexed, observed, dropped, forgotten, last>>
insights == <<insightSession, cached, eventTypes, recentEvents, eventCount, compactionCount,
              eventsSeen, lastSeen>>
counts  == <<guard, logger, insights>>
storageVars == <<part, write, store, market, work, costs, memory, bridge, caps, counts>>

StorageInit ==
    /\ part \in {"write", "sessions", "market", "workspace", "ledger", "graph", "bridge", "guard",
                "failures", "insights", "capsules"}
    /\ Init /\ (part # "write" => name = NoFile)
    /\ Files!Init /\ (part # "sessions" => active = CHOOSE p \in Paths : TRUE)
    /\ Market!Init
    /\ IF part = "workspace" THEN Work!Init
       ELSE /\ head = Work!Empty /\ index = Work!Empty /\ tree = Work!Empty /\ born = TRUE
            /\ change = << >> /\ edits = 0
    /\ Ledger!Init
    /\ Memory!Init /\ (part # "graph" => graph = Memory!EmptyGraph)
    /\ Bridge!Init /\ (part # "bridge" => session = CHOOSE s \in Sessions : TRUE)
    /\ Caps!Init
    /\ Guard!Init /\ Logger!Init /\ Insights!Init

StorageNext ==
    \/ part = "write" /\ Next /\ UNCHANGED <<part, store, market, work, costs, memory, bridge, caps, counts>>
    \/ part = "sessions" /\ Files!Next /\ UNCHANGED <<part, write, market, work, costs, memory, bridge, caps, counts>>
    \/ part = "market" /\ Market!Next /\ UNCHANGED <<part, write, store, work, costs, memory, bridge, caps, counts>>
    \/ part = "workspace" /\ Work!Next /\ UNCHANGED <<part, write, store, market, costs, memory, bridge, caps, counts>>
    \/ part = "ledger" /\ Ledger!Next /\ UNCHANGED <<part, write, store, market, work, memory, bridge, caps, counts>>
    \/ part = "graph" /\ Memory!Next /\ UNCHANGED <<part, write, store, market, work, costs, bridge, caps, counts>>
    \/ part = "bridge" /\ Bridge!Next /\ UNCHANGED <<part, write, store, market, work, costs, memory, caps, counts>>
    \/ part = "capsules" /\ Caps!Next /\ UNCHANGED <<part, write, store, market, work, costs, memory, bridge, counts>>
    \/ /\ UNCHANGED <<part, write, store, market, work, costs, memory, bridge, caps>>
       /\ \/ part = "guard" /\ Guard!Next /\ UNCHANGED <<logger, insights>>
          \/ part = "failures" /\ Logger!Next /\ UNCHANGED <<guard, insights>>
          \/ part = "insights" /\ Insights!Next /\ UNCHANGED <<guard, logger>>

StorageSpec == StorageInit /\ [][StorageNext]_storageVars

\* A bound of the runs, not of the specification: once a rollback has failed in
\* silence, no other plugin change is followed past its checks before the next
\* start.
LostRollbackEnds == swallowed => \A r \in Changers : job[r].step # "check"

\* Likewise: the files of a workspace and the paths of sessions are alike, so of
\* what differs by their names only one is followed: how a workspace begins, and
\* which path is handed out first.
ByName ==
    LET First(S) == CHOOSE s \in S : TRUE
        Rank(t) == IF t = Absent THEN 0 ELSE IF t = Text THEN 1 ELSE 2
        Place(f) == 9 * Rank(head[f]) + 3 * Rank(index[f]) + Rank(tree[f])
    IN /\ part = "sessions" => First(Paths) \in used
       /\ part = "workspace" /\ change = << >> =>
              \A f \in WorkspaceFiles : Place(First(WorkspaceFiles)) <= Place(f)

-----------------------------------------------------------------------------
(* The properties of the parts, under the names of the configuration; those of *)
(* atomic writes have theirs from AtomicWrite.                                  *)

\* A part that a behaviour does not exercise stays as it begins, so its
\* invariants are those of the behaviours that do.

\* What the gateway keeps.  Every session file can be opened, a deleted session's
\* metadata is gone for good, every other confirmed pin is kept, and the gateway
\* never removes the file of the session it is running.  Between plugin changes,
\* and while no rollback has failed in silence, every enabled plugin has its dependencies enabled, and the loader runs
\* nothing the profile does not name.  A commit or a revert changes its own paths
\* only, and what its success tells of them is true.
GatewayFilesSound ==
    /\ part = "sessions" => /\ Files!TypeOK /\ Files!EveryFileOpens /\ Files!ActiveFileKept
                            /\ Files!DeletedStaysForgotten /\ Files!NoUpdateLost
    /\ part = "market" => Market!TypeOK /\ Market!DependenciesEnabled /\ Market!LoaderIsConfigured
    /\ part = "workspace" => Work!OnlyRequested /\ Work!CommitIsWhole /\ Work!RevertIsDone

\* Unless a rollback has failed in silence since the start: an install that
\* answers success has its dependencies enabled and its plugin written, enabled
\* but for one that was there and disabled, and one that fails leaves nothing.
\* A restore begins to write, and a cleanup removes capsules, only where and for
\* whom it was asked, and a cleanup never removes one of the newest it is to keep.
ChangesAsAsked == Market!InstallAllOrNothing /\ Caps!WrittenInPlace /\ Caps!NewestKept

\* Two processes change one file under a lock that may outlive its owner: what
\* one was told is written is neither lost nor counted twice by the other, unless
\* the lock was taken from a process that lives, or, of the graph, one with a
\* blank owner's file was reclaimed twice.  Two plugins change one directory: what
\* is said of a capture or of a restore is true, the directory stays one that can
\* be listed, and the panel shows the last cleanup.
SharedFilesSerial ==
    /\ part = "ledger" => Ledger!NeverOvercounts /\ Ledger!LedgerKeepsAll
    /\ part = "graph" => Memory!GraphIsSerial
    /\ part = "capsules" => Caps!ToldTrue /\ Caps!InventoryUsable /\ Caps!CleanupShown

\* A handoff is in its session once and no more are queued than may be; one that
\* was accepted is kept or the session is known to have failed, and what was
\* reported as done before is not any more.
HandoffsKept ==
    part = "bridge" => Bridge!ImportedOnce /\ Bridge!AcceptedIsKept /\ Bridge!FailureIsShown

\* What plugins count adds up, in whatever run, list or session it was counted,
\* and a run over its budget is told to stop, once, for what could be counted.
CountsAddUp ==
    /\ part = "guard" => Guard!TokensCounted /\ Guard!BudgetEnforced /\ Guard!FailureIsCurrent
    /\ part = "failures" => Logger!FailuresCounted
    /\ part = "insights" => Insights!EventsCounted
=============================================================================
