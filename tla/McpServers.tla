----------------------------- MODULE McpServers -----------------------------
(* The MCP client plugin (packages/plugins/mcp-client/src/index.ts): server  *)
(* processes, started under an id and kept or run for one call, the queue of *)
(* requests to a kept one, the router of their answers, time-outs,           *)
(* cancellation and the termination of the processes.                        *)
(*                                                                         *)
(* One id stands for the configured ones: the exclusions compare a start with *)
(* what runs under its own id.  A scope is a session with its directory.      *)
EXTENDS Naturals, Sequences, FiniteSets

CONSTANTS
    Ops,        \* calls of the plugin's tools that send one request
    Children,   \* numbers of the processes that may be spawned, in turn
    Nobody,
    MaxScope    \* bound on the session changes

ServersAssumption == Nobody \notin Children

VARIABLES
    server,     \* servers.get(id)
    starting,   \* the process startServer waits for
    proc,       \* each process: unused, alive, dead (exited), closed (its pipes too)
    ends,       \* how far terminateChild has come with it
    status,     \* ManagedServer.status
    queue,      \* the tasks of each process that are not over
    ids,        \* nextRequestId
    op,         \* each call: its task, its process, whether that is its own, its scope until it is over, its request id
    told,       \* what its caller was told: an answer names the call it is of
    scope, latest, \* the current scope; that of the listing the panel shows, or 0
    disposed

procVars == <<server, starting, proc, ends, status>>
opVars   == <<queue, ids, op, told>>
mcpVars  == <<procVars, opVars, scope, latest, disposed>>

Init ==
    /\ server = Nobody /\ starting = Nobody
    /\ proc = [c \in Children |-> "unused"]
    /\ ends = [c \in Children |-> "no"]
    /\ status = [c \in Children |-> "running"]
    /\ queue = [c \in Children |-> << >>]
    /\ ids = [c \in Children |-> 2]
    /\ op = [o \in Ops |-> [at |-> "idle", on |-> Nobody, own |-> FALSE, scope |-> 0, id |-> 0]]
    /\ told = [o \in Ops |-> "nothing"]
    /\ scope = 1 /\ latest = 0 /\ disposed = FALSE

Running(c) == proc[c] = "alive"
Spawned(c) == proc[c] = "unused" /\ \A d \in Children : d < c => proc[d] # "unused"

-----------------------------------------------------------------------------
(* Processes *)

\* terminateChild: SIGTERM, unless the process has exited.
Terminate(c) == [ends EXCEPT ![c] = IF @ # "no" THEN @
                                    ELSE IF Running(c) THEN "sigterm" ELSE "returned"]

\* It waits for the close event 250 ms, and 500 ms more after SIGKILL.
TerminateGoesOn(c) ==
    /\ \/ ends[c] = "sigterm" /\ ends' = [ends EXCEPT ![c] = IF proc[c] = "closed" THEN "returned" ELSE "sigkill"]
       \/ ends[c] = "sigkill" /\ ends' = [ends EXCEPT ![c] = "returned"]
    /\ UNCHANGED <<server, starting, proc, status, opVars, scope, latest, disposed>>

Exit(c) ==
    /\ Running(c)
    /\ proc' = [proc EXCEPT ![c] = "dead"]
    /\ UNCHANGED <<server, starting, ends, status, opVars, scope, latest, disposed>>

\* Whatever is pending with a process, or queued for it, is rejected.
Aborted(c) ==
    /\ told' = [o \in Ops |-> IF op[o].on = c /\ op[o].at \in {"queued", "sent"} /\ told[o] = "nothing"
                              THEN "error" ELSE told[o]]
    /\ op' = [o \in Ops |-> IF op[o].on = c /\ op[o].at = "sent"
                            THEN [op[o] EXCEPT !.at = "over", !.scope = 0] ELSE op[o]]
    /\ queue' = [queue EXCEPT ![c] = SelectSeq(@, LAMBDA o : op[o].at = "queued")]

\* The close event: the router fails, and the id is free.
Close(c) ==
    /\ proc[c] = "dead"
    /\ proc' = [proc EXCEPT ![c] = "closed"]
    /\ status' = [status EXCEPT ![c] = "stopping"]
    /\ server' = IF server = c THEN Nobody ELSE server
    /\ Aborted(c)
    /\ UNCHANGED <<starting, ends, ids, scope, latest, disposed>>

\* Bug: an id is free once its server was told to stop.
IdFree_Stopping == starting = Nobody /\ (server # Nobody => status[server] = "stopping")

IdFree == starting = Nobody /\ server = Nobody

\* startServer, up to the initialize request.
Start(c) ==
    /\ ~disposed /\ IdFree /\ Spawned(c)
    /\ proc' = [proc EXCEPT ![c] = "alive"]
    /\ starting' = c
    /\ UNCHANGED <<server, ends, status, opVars, scope, latest, disposed>>

Initialized(c) ==
    /\ starting = c /\ ends[c] = "no" /\ Running(c) /\ ~disposed
    /\ server' = c /\ starting' = Nobody
    /\ UNCHANGED <<proc, ends, status, opVars, scope, latest, disposed>>

\* A time-out, a cancellation, another scope, a bad answer, or a process that
\* ended: it is terminated before the id is released.
StartFails(c) ==
    /\ starting = c /\ ends[c] = "no"
    /\ ends' = Terminate(c)
    /\ UNCHANGED <<server, starting, proc, status, opVars, scope, latest, disposed>>

StartOver(c) ==
    /\ starting = c /\ ends[c] = "returned"
    /\ starting' = Nobody
    /\ UNCHANGED <<server, proc, ends, status, opVars, scope, latest, disposed>>

\* stopServer: the server stays tracked until it has closed.
Stop(c) ==
    /\ server = c /\ ~disposed
    /\ status' = [status EXCEPT ![c] = "stopping"]
    /\ Aborted(c)
    /\ UNCHANGED <<server, starting, proc, ends, ids, scope, latest, disposed>>

\* The stop goes on when the queue is empty.
Stopped(c) ==
    /\ server = c /\ status[c] = "stopping" /\ ends[c] = "no" /\ queue[c] = << >>
    /\ ends' = Terminate(c)
    /\ UNCHANGED <<server, starting, proc, status, opVars, scope, latest, disposed>>

-----------------------------------------------------------------------------
(* Requests *)

\* requestManaged chains the request to the queue of its server.
Submit(o) ==
    /\ ~disposed /\ op[o].at = "idle" /\ server # Nobody /\ status[server] = "running"
    /\ op' = [op EXCEPT ![o] = [at |-> "queued", on |-> server, own |-> FALSE, scope |-> scope, id |-> 0]]
    /\ queue' = [queue EXCEPT ![server] = Append(@, o)]
    /\ UNCHANGED <<procVars, ids, told, scope, latest, disposed>>

\* withServer: a process for one call, which answers initialize first.
OneShot(o, c) ==
    /\ ~disposed /\ op[o].at = "idle" /\ Spawned(c)
    /\ proc' = [proc EXCEPT ![c] = "alive"]
    /\ op' = [op EXCEPT ![o] = [at |-> "sent", on |-> c, own |-> TRUE, scope |-> scope, id |-> 2]]
    /\ UNCHANGED <<server, starting, ends, status, queue, ids, told, scope, latest, disposed>>

\* The finally block of withServer.
OneShotEnds(o) ==
    /\ op[o].at = "over" /\ op[o].own
    /\ ends[op[o].on] = "no"
    /\ ends' = Terminate(op[o].on)
    /\ UNCHANGED <<server, starting, proc, status, opVars, scope, latest, disposed>>

\* Bug: the task does not look at what happened while it was queued.
Sendable_Unchecked(o) == Running(op[o].on)

\* What a task checks when its turn comes: the caller's signal and scope, the
\* server's life cycle, the router.
Sendable(o) ==
    /\ told[o] = "nothing" /\ op[o].scope = scope /\ ~disposed
    /\ status[op[o].on] = "running" /\ proc[op[o].on] # "closed"

\* Bug: a request keeps the number of the one before.
NextId_Kept(c) == ids[c]

NextId(c) == ids[c] + 1

\* A task is over: the next one in the queue has its turn.
Over(o) ==
    /\ op' = [op EXCEPT ![o].at = "over", ![o].scope = 0]
    /\ queue' = [queue EXCEPT ![op[o].on] = SelectSeq(@, LAMBDA x : x # o)]

Turn(o) ==
    LET c == op[o].on IN
    /\ op[o].at = "queued"
    /\ Head(queue[c]) = o
    /\ IF Sendable(o)
       THEN /\ op' = [op EXCEPT ![o].at = "sent", ![o].id = ids[c]]
            /\ ids' = [ids EXCEPT ![c] = NextId(c)]
            /\ UNCHANGED <<told, queue>>
       ELSE /\ Over(o)
            /\ told' = [told EXCEPT ![o] = IF @ = "nothing" THEN "error" ELSE @]
            /\ UNCHANGED ids
    /\ UNCHANGED <<procVars, scope, latest, disposed>>

\* Bug: a listing is published without another look at the scope.
Current_Unchecked(o) == TRUE

Current(o) == op[o].scope = scope

\* The listing of an answer, or what was read from it, for the panel.
Publish(o) == latest' = IF Current(o) THEN op[o].scope ELSE latest

\* The server answers the request of o, late or not: what the router has
\* pending under that number is resolved, and a listing is published.
Answer(o) ==
    /\ op[o].id # 0 /\ Running(op[o].on)
    /\ \E p \in Ops :
          /\ op[p].on = op[o].on /\ op[p].at = "sent" /\ op[p].id = op[o].id
          /\ Over(p)
          /\ told' = [told EXCEPT ![p] = IF Current(p) THEN o ELSE "error"]
          /\ Publish(p)
    /\ UNCHANGED <<procVars, ids, scope, disposed>>

\* The request's timer, the caller's signal, a failed write, or an invalid answer.
Fails(o) ==
    /\ op[o].at = "sent"
    /\ Over(o)
    /\ told' = [told EXCEPT ![o] = "error"]
    /\ UNCHANGED <<procVars, ids, scope, latest, disposed>>

\* The agent aborts the call; its task stays in the queue.
Cancel(o) ==
    /\ op[o].at = "queued" /\ told[o] = "nothing"
    /\ told' = [told EXCEPT ![o] = "error"]
    /\ UNCHANGED <<procVars, queue, ids, op, scope, latest, disposed>>

\* Another session: whoever reads the listing drops it first.
SwitchScope ==
    /\ scope < MaxScope
    /\ scope' = scope + 1 /\ latest' = 0
    /\ UNCHANGED <<procVars, opVars, disposed>>

\* The plugin's effect: every caller is told, every tracked server terminated.
Dispose ==
    /\ ~disposed
    /\ disposed' = TRUE /\ server' = Nobody
    /\ status' = [c \in Children |-> IF server = c THEN "stopping" ELSE status[c]]
    /\ ends' = IF server = Nobody THEN ends ELSE Terminate(server)
    /\ told' = [o \in Ops |-> IF op[o].at \in {"queued", "sent"} /\ told[o] = "nothing" THEN "error" ELSE told[o]]
    /\ op' = [o \in Ops |-> IF op[o].at = "sent" THEN [op[o] EXCEPT !.at = "over", !.scope = 0] ELSE op[o]]
    /\ queue' = [c \in Children |-> SelectSeq(queue[c], LAMBDA o : op[o].at = "queued")]
    /\ UNCHANGED <<starting, proc, ids, scope, latest>>

Goes(c) == TerminateGoesOn(c) \/ Initialized(c) \/ StartFails(c) \/ StartOver(c) \/ Stopped(c)
Proceeds(o) == Turn(o) \/ Answer(o) \/ Fails(o) \/ OneShotEnds(o)

Next ==
    \/ \E c \in Children : Goes(c) \/ Exit(c) \/ Close(c) \/ Start(c) \/ Stop(c)
    \/ \E o \in Ops : Proceeds(o) \/ Submit(o) \/ Cancel(o) \/ \E c \in Children : OneShot(o, c)
    \/ SwitchScope \/ Dispose

\* Timers fire and continuations run; a process obeys only SIGKILL.
Fairness ==
    WF_mcpVars(\/ \E c \in Children : Goes(c) \/ (ends[c] \in {"sigkill", "returned"} /\ Exit(c))
               \/ \E o \in Ops : Proceeds(o))

-----------------------------------------------------------------------------
(* Properties *)

\* The id never has two processes: a start waits until the server under it has
\* closed, and a failed start until its process was dealt with.
OneProcess ==
    ~disposed => \A c, d \in Children :
        Running(c) /\ Running(d) /\ {c, d} \subseteq {server, starting} => c = d

\* Nobody gets the answer to another request, however late it comes, and
\* nothing of an earlier session is shown.
AnswersMatch ==
    /\ \A o \in Ops : told[o] \in {"nothing", "error", o}
    /\ latest \in {0, scope}

\* What was cancelled in the queue is never sent.
NotSentAfterCancel ==
    [][\A o \in Ops : op[o].at = "queued" /\ op'[o].at = "sent" => told'[o] = "nothing" /\ ~disposed]_mcpVars

\* Every call was answered, and disposal leaves no process.
NoneAwaited == \A o \in Ops : op[o].at # "idle" => told[o] # "nothing"
NoProcessLeft == disposed ~> \A c \in Children : ~Running(c)
=============================================================================
