---------------------------- MODULE DockerSandbox ----------------------------
(* sandbox_exec (packages/plugins/docker-sandbox/src/index.ts): one command  *)
(* in a container, whose client is killed when the time is over, the output   *)
(* too long or the caller gone, and whose container the tool then removes,     *)
(* known by the id the client may have written, or by its name.               *)
(*                                                                         *)
(* The daemon is external: it goes on with the request of a client that is     *)
(* dead, and removes a container that has ended (--rm) in its own time.        *)
EXTENDS Naturals

CONSTANTS MaxSession, MaxCalls  \* bounds on the session changes and the calls

VARIABLES
    session,
    pc,         \* where the call is: "idle" if there is none
    for,        \* the scope it was asked in
    cancelled,  \* its signal, or the plugin's
    client,     \* the process of docker run
    container,  \* as the daemon has it
    answer,     \* of the last call
    gone,       \* the plugin was disposed
    calls

sandboxVars == <<session, pc, for, cancelled, client, container, answer, gone, calls>>
call   == <<for, cancelled, calls>>
docker == <<client, container>>

Init ==
    /\ session = 1
    /\ pc = "idle" /\ for = 0 /\ cancelled = FALSE
    /\ client = "none" /\ container = "none"
    /\ answer = "none" /\ gone = FALSE /\ calls = 0

\* assertCurrent
Current == ~cancelled /\ for = session

Answer(a) == answer' = a /\ pc' = "idle"

-----------------------------------------------------------------------------
(* The tool *)

Execute ==
    /\ pc = "idle" /\ ~gone /\ calls < MaxCalls
    /\ pc' = "inspecting" /\ for' = session /\ cancelled' = FALSE /\ answer' = "none"
    /\ calls' = calls + 1
    /\ client' = "none" /\ container' = "none"
    /\ UNCHANGED <<session, gone>>

\* docker image inspect has ended; a missing image or daemon is the answer.
Inspected ==
    /\ pc = "inspecting"
    /\ \/ Current /\ pc' = "preparing" /\ UNCHANGED answer
       \/ Answer("refused")
    /\ UNCHANGED <<session, call, docker, gone>>

\* Bug: the scope is not looked at again once the directory is made.
MayRun_Made == ~cancelled

MayRun == Current

\* mkdtemp, which may fail, and the last look before the client starts
Run ==
    /\ pc = "preparing"
    /\ \/ MayRun /\ pc' = "running" /\ client' = "creating" /\ UNCHANGED answer
       \/ ~MayRun /\ pc' = "cleaning" /\ answer' = "refused" /\ UNCHANGED client
       \/ Answer("refused") /\ UNCHANGED client
    /\ UNCHANGED <<session, call, container, gone>>

\* The time is over, the output too long, or the signal has fired: SIGKILL.
Kill ==
    /\ pc = "running" /\ client \notin {"exited", "killed"}
    /\ client' = "killed"
    /\ UNCHANGED <<session, pc, call, container, answer, gone>>

\* Bug: only a client that failed by itself leaves a container to remove.
Suspect_Failed(zero) == client = "exited" /\ ~zero

\* Anything but a zero exit of a call that is still current
Suspect(zero) == client = "killed" \/ ~zero \/ ~Current

\* execFile has settled.
Settled ==
    /\ pc = "running" /\ client \in {"exited", "killed"}
    /\ \E zero \in BOOLEAN :
          \/ Suspect(zero) /\ pc' = "removing" /\ UNCHANGED answer
          \/ ~Suspect(zero) /\ pc' = "cleaning" /\ answer' = "completed"
    /\ UNCHANGED <<session, call, docker, gone>>

Refused == IF Current THEN IF client = "killed" THEN "timed_out" ELSE "failed" ELSE "refused"

\* containerId: a file of the id that is there and cannot be read is the answer,
\* and nothing is removed.
IdUnread ==
    /\ pc = "removing"
    /\ pc' = "cleaning" /\ answer' = "unread"
    /\ UNCHANGED <<session, call, docker, gone>>

\* docker rm --force, by id or name.  It may fail, and another removal may be
\* in progress already.
RemoveOwned ==
    /\ pc = "removing"
    /\ \/ /\ container \in {"none", "asked", "removed"}
          /\ pc' = "cleaning" /\ answer' = Refused /\ UNCHANGED container
       \/ /\ container \in {"created", "starting", "running", "ended"}
          /\ container' = "removed" /\ pc' = "cleaning" /\ answer' = Refused
       \/ /\ container = "ended" /\ pc' = "waiting" /\ UNCHANGED <<container, answer>>
       \/ pc' = "cleaning" /\ answer' = "unconfirmed" /\ UNCHANGED container
    /\ UNCHANGED <<session, call, client, gone>>

\* waitForContainerRemoval
Removal ==
    /\ pc = "waiting"
    /\ pc' = "cleaning" /\ answer' \in {Refused, "unconfirmed"}
    /\ answer' # "unconfirmed" => container = "removed"
    /\ UNCHANGED <<session, call, docker, gone>>

\* The directory is removed, or the failure of that is the answer; a run is
\* reported if it is still the session's.
Clean ==
    /\ pc = "cleaning"
    /\ \/ Answer(IF answer \in {"completed", "failed", "timed_out"} /\ ~Current THEN "refused" ELSE answer)
       \/ Answer("uncleaned")
    /\ UNCHANGED <<session, call, docker, gone>>

Cancel ==
    /\ pc # "idle" /\ ~cancelled /\ cancelled' = TRUE
    /\ UNCHANGED <<session, pc, for, calls, docker, answer, gone>>

Dispose ==
    /\ ~gone /\ gone' = TRUE /\ cancelled' = TRUE
    /\ UNCHANGED <<session, pc, for, calls, docker, answer>>

Switch ==
    /\ session < MaxSession /\ session' = session + 1
    /\ UNCHANGED <<pc, call, docker, answer, gone>>

-----------------------------------------------------------------------------
(* The client and the daemon *)

\* The client asks for a container, writes its id and asks to start it.
ClientAsks ==
    /\ pc = "running"
    /\ \/ client = "creating" /\ container = "none"
          /\ container' = "asked" /\ UNCHANGED client
       \/ client = "creating" /\ container = "created"
          /\ client' = "attached" /\ container' = "starting"
       \/ client = "creating" /\ container \in {"none", "asked"}
          /\ client' = "exited" /\ container' = "removed"
       \/ client = "attached" /\ container \in {"ended", "removed"}
          /\ client' = "exited" /\ UNCHANGED container
    /\ UNCHANGED <<session, pc, call, answer, gone>>

Daemon ==
    /\ container' = CASE container = "asked" -> "created"
                      [] container = "starting" -> "running"
                      [] container = "running" -> "ended"
                      [] container = "ended" -> "removed"
                      [] OTHER -> container
    /\ container' # container
    /\ UNCHANGED <<session, pc, call, client, answer, gone>>

Tool == Inspected \/ Run \/ Settled \/ IdUnread \/ RemoveOwned \/ Removal \/ Clean

Next ==
    \/ Execute \/ Tool \/ Kill \/ Cancel \/ Dispose \/ Switch
    \/ ClientAsks \/ Daemon

\* Every docker command of the tool has a time limit; a container may run on.
Fairness == WF_sandboxVars(Tool) /\ WF_sandboxVars(Kill)

-----------------------------------------------------------------------------
(* Properties *)

\* The answers about the run, or about why there was none.  The others are the
\* failures of the tool itself, to read the id, to confirm the removal or to clean
\* up, after which the container may run on.
AboutTheRun == {"refused", "completed", "failed", "timed_out"}

\* Once a call is answered about its run, nothing of it runs nor will; at worst
\* there is a container that was never started.
NothingRuns == pc = "idle" /\ answer \in AboutTheRun => container \notin {"starting", "running"}

\* A container starts only for the workspace of the session that asked, and a
\* run is reported to it alone.
RunInPlace ==
    [][/\ client = "none" /\ client' = "creating" => ~gone /\ ~cancelled /\ for = session
       /\ pc # "idle" /\ pc' = "idle" /\ answer' \in {"completed", "failed", "timed_out"} =>
             ~cancelled /\ for = session]_sandboxVars

\* The call was answered, whatever its command and the daemon do.
NoneAwaited == pc = "idle"
=============================================================================
