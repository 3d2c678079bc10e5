------------------------------- MODULE MC_Core -------------------------------
(* The process around the agent: the runtime plugin's gate, the launcher, its *)
(* supervisor, the harness home, the web server with the status it serves, and   *)
(* the queue of writes to a file.                                              *)
(* They meet only through the environment of each (disposal, signals, exit     *)
(* codes, a restart), so a behaviour exercises one of them and leaves the      *)
(* others as they begin.                                                       *)
EXTENDS RuntimeGate, Sequences, SequencesExt

CONSTANTS
    NoCode, MaxWrites,
    RESTART_WINDOW, RESTART_WINDOW_LIMIT, RESTART_BACKOFF, MaxTime, NoResult,
    Absent, Edited, MaxReleases, MaxCrashes,
    Requests, Owners, Nobody,
    Sessions, Calls, NoSession, MAX_PENDING_TOOL_CALLS,
    Exclusive, Pinned, Original, NoFile, NoCall

VARIABLES
    part,   \* the one this behaviour exercises
    main, resultCode, context, app, appCode, wroteOutput, signals, lastSignal, recent,
    listening, requested, closed, written, acked, target, broken, exit,
    now, child, relayed, restarts, result, history,
    manifest, builtin, current, seed, launch, crashes, touched,
    server, route, fallback, over, req, handler, heads,
    running, isStreaming, isCompacting, run, executing, summary, toolCallStartedAt, runActivity,
    runPhase, dropped, answer,
    lastCall, prev, call, mode, synced, temps, name, kept, before

Cli  == INSTANCE CliLifecycle
Sup  == INSTANCE Supervisor
Home == INSTANCE HarnessHome
Web  == INSTANCE WebServer
Stream == INSTANCE EventStream WITH current <- running, reply <- answer

Write == INSTANCE AtomicWrite WITH tail <- lastCall, pc <- call

ASSUME WriteConstants == Write!CallsAssumption
ASSUME CliConstants == Cli!NoCodeAssumption
ASSUME SupConstants == Sup!RestartAssumption
ASSUME HomeConstants == Home!ContentAssumption
ASSUME WebConstants == Web!OwnersAssumption
ASSUME StreamConstants == Stream!CallsAssumption

gate == <<tail, ready, ahead, pc, released, disposed, closer, session, lease, leases>>
cli  == <<main, resultCode, context, app, appCode, wroteOutput, signals, lastSignal, recent,
          listening, requested, closed, written, acked, target, broken, exit>>
sup  == <<now, child, relayed, restarts, result, history>>
home == <<manifest, builtin, current, seed, launch, crashes, touched>>
web  == <<server, route, fallback, over, req, handler, heads>>
stream == <<running, isStreaming, isCompacting, run, executing, summary, toolCallStartedAt,
            runActivity, runPhase, dropped, answer>>
writes == <<lastCall, prev, call, mode, synced, temps, name, kept, before>>
coreVars == <<part, gate, cli, sup, home, web, stream, writes>>

CoreInit ==
    /\ part \in {"gate", "cli", "supervisor", "home", "web", "stream", "writes"}
    /\ Init /\ Cli!Init /\ Sup!Init /\ Home!Init /\ Web!Init
    /\ Stream!Init /\ (part # "stream" => running = CHOOSE s \in Sessions : TRUE)
    /\ Write!Init /\ (part # "writes" => name = NoFile)

CoreNext ==
    \/ part = "gate" /\ Next /\ UNCHANGED <<part, cli, sup, home, web, stream, writes>>
    \/ part = "cli" /\ Cli!Next /\ UNCHANGED <<part, gate, sup, home, web, stream, writes>>
    \/ part = "supervisor" /\ Sup!Next /\ UNCHANGED <<part, gate, cli, home, web, stream, writes>>
    \/ part = "home" /\ Home!Next /\ UNCHANGED <<part, gate, cli, sup, web, stream, writes>>
    \/ part = "web" /\ Web!Next /\ UNCHANGED <<part, gate, cli, sup, home, stream, writes>>
    \/ part = "stream" /\ Stream!Next /\ UNCHANGED <<part, gate, cli, sup, home, web, writes>>
    \/ part = "writes" /\ Write!Next /\ UNCHANGED <<part, gate, cli, sup, home, web, stream>>

CoreSpec == CoreInit /\ [][CoreNext]_coreVars

\* At rest none of the fair steps of a part is possible.
CoreFairSpec == /\ CoreSpec /\ Fairness /\ Cli!Fairness /\ Web!Fairness
                /\ \A c \in Calls : WF_writes(Write!Continue(c))

-----------------------------------------------------------------------------
(* The properties of the parts, under the names of the configuration; those of *)
(* the gate have theirs from RuntimeGate.                                       *)

\* The launcher and its supervisor: what leaves with 0 has answered in full,
\* every exit code has a cause, nothing of the harness is left running, and
\* restarts keep to their rate.
ExitIsTruthful ==
    /\ Cli!SuccessIsDelivered /\ Cli!CodeIsDecided /\ Cli!NothingLeft
    /\ Sup!RestartsBounded /\ Sup!NoChildLeft

\* prepareHarnessProfile: no edit is lost, an inspection is right, and a copy that
\* nobody touched follows the releases.
EditsKept == Home!EditsKept /\ Home!ReportIsNextBoot /\ []Home!UntouchedFollows

\* The web server: a response has one head, and a path its owner.
OneHeadOneOwner == Web!HeadOnce /\ Web!RouteOwned

\* A signal ends the launcher, and closing the server ends.
StopsEnd == Cli!SignalEnds /\ Web!CloseReturns

\* Every write settles, unless the process dies first.
EveryWriteSettles == Write!EveryWriteSettles

\* The status and the completions that are served: the run is the session's,
\* and its phase is real.
StatusTruthful == Stream!CompletionPhase /\ Stream!StatusTruthful
=============================================================================
