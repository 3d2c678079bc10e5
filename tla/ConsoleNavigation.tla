-------------------------- MODULE ConsoleNavigation --------------------------
(***************************************************************************)
(* Session navigation in the browser console                                *)
(* (packages/client-web/src/react-room.tsx and session-navigation.ts).      *)
(* The gateway has one active session.  The console shows a copy of it,     *)
(* fed by polls and event-driven refreshes whose answers arrive in any      *)
(* order, and by the answers of its own switches: a promise chain of        *)
(* navigations, and a fork that opens its copy outside of that chain.       *)
(***************************************************************************)
EXTENDS Naturals, Sequences

CONSTANTS Sessions,     \* the sessions that exist when the page loads
          Created,      \* the sessions that creating and forking make
          None,         \* no session, no navigation
          Slots,        \* the session reads that may be in flight together
          MaxIntents,   \* how often the user navigates or creates
          MaxForeign,   \* how often another console or a plugin switches
          MaxFailures   \* how many requests fail

ASSUME NavigationAssumption ==
  /\ Sessions \cap Created = {} /\ None \notin Sessions \cup Created
  /\ None \notin Nat /\ None \notin [intent : Nat, accepted : BOOLEAN]
  /\ MaxIntents \in Nat /\ MaxForeign \in Nat /\ MaxFailures \in Nat

VARIABLES
  active,     \* gateway: the active session
  existing,   \* gateway: the sessions that exist
  shown,      \* console: data.session
  reads,      \* console: the reads of /api/session in flight
  due,        \* console: refreshQueuedRef, an event has asked for a refresh
  intent,     \* console: sessionNavigationIntentRef
  pending,    \* console: pendingSessionNavigationRef
  queue,      \* console: sessionNavigationRef, the chain of navigations
  fork,       \* console: the fork under way (sessionActionBusy)
  foreign,    \* how often another console has switched
  failures,   \* how many requests have failed
  wanted,     \* history: the session the user asked for last, None if disturbed
  settled     \* history: no switch since the one the console last accepted

serverVars == <<active, existing>>
historyVars == <<wanted, settled>>
boundVars == <<foreign, failures>>
vars == <<active, existing, shown, reads, due, intent, pending, queue, fork,
          foreign, failures, wanted, settled>>

AllSessions == Sessions \cup Created

(* A read is compared with two barriers by its sequence number.  Only the   *)
(* order matters, so a read knows which reads were issued before it, and is *)
(* void once a barrier has passed it: a later read was applied or an        *)
(* accepted switch reserved a newer number.  `mark` is the accepted         *)
(* navigation that was pending when the read started.                       *)
Free == [state |-> "free", value |-> None, void |-> FALSE, older |-> {},
         mark |-> None, awaited |-> FALSE]

InFlight == {i \in Slots : reads[i].state # "free"}

Job(kind, path, n) == [kind |-> kind, path |-> path, intent |-> n, step |-> "waiting",
                       current |-> None, latest |-> FALSE]
NoFork == Job("fork", None, None)

Init ==
  /\ active \in Sessions
  /\ existing = Sessions
  /\ shown = None
  /\ reads = [i \in Slots |-> Free]
  /\ due = TRUE
  /\ intent = 0
  /\ pending = None
  /\ \E path \in Sessions \cup {None} :
       /\ queue = IF path = None THEN <<>> ELSE <<Job("restore", path, 0)>>
       /\ wanted = path
  /\ fork = NoFork
  /\ foreign = 0 /\ failures = 0
  /\ settled = FALSE

(***************************************************************************)
(* Reads.                                                                   *)
(***************************************************************************)

Accepted(n) == [intent |-> n, accepted |-> TRUE]

(* refreshCore: a read with the next sequence number.                       *)
Issue(base, navigation, awaited) ==
  \E i \in {j \in Slots : base[j].state = "free"} :
     reads' = [j \in Slots |->
       IF j = i THEN [Free EXCEPT !.state = "sent", !.awaited = awaited,
                        !.older = {k \in Slots : base[k].state # "free"},
                        !.mark = IF navigation # None /\ navigation.accepted
                                 THEN navigation.intent ELSE None]
       ELSE [base[j] EXCEPT !.older = @ \ {i}]]

(* Bug: an accepted switch reserves no sequence number.                     *)
Voided_Not == reads

(* refreshSequenceRef.current.applied = ++refreshSequenceRef.current.requested *)
Voided == [i \in Slots |-> [reads[i] EXCEPT !.void = TRUE]]

(* The poll, and the refresh that an event has scheduled.                   *)
Poll ==
  /\ Issue(reads, pending, FALSE)
  /\ UNCHANGED <<serverVars, shown, due, intent, pending, queue, fork, boundVars, historyVars>>

ScheduledRefresh ==
  /\ due
  /\ due' = FALSE
  /\ Issue(reads, pending, FALSE)
  /\ UNCHANGED <<serverVars, shown, intent, pending, queue, fork, boundVars, historyVars>>

ReadServed(i) ==
  /\ reads[i].state = "sent"
  /\ reads' = [reads EXCEPT ![i].state = "answered", ![i].value = active]
  /\ UNCHANGED <<serverVars, shown, due, intent, pending, queue, fork, boundVars, historyVars>>

(* refresh() returns when the read it waits for has settled, applied or not. *)
Resumes(i, job) == IF reads[i].awaited /\ job.step = "refreshing"
                   THEN [job EXCEPT !.step = "over"] ELSE job

Settle(i) ==
  /\ reads' = [j \in Slots |->
       IF j = i THEN Free
       ELSE [reads[j] EXCEPT !.void = @ \/ (~reads[i].void /\ j \in reads[i].older)]]
  /\ queue' = [k \in DOMAIN queue |-> Resumes(i, queue[k])]
  /\ fork' = Resumes(i, fork)
  /\ UNCHANGED <<serverVars, due, intent, foreign, historyVars>>

(* applyLiveSession: a read behind a barrier is dropped; an applied one that *)
(* started after the pending navigation was accepted ends it.               *)
ReadArrives(i) ==
  /\ reads[i].state = "answered"
  /\ IF reads[i].void
     THEN UNCHANGED <<shown, pending>>
     ELSE /\ shown' = reads[i].value
          /\ pending' = IF reads[i].mark # None /\ pending = Accepted(reads[i].mark)
                        THEN None ELSE pending
  /\ Settle(i)
  /\ UNCHANGED failures

ReadFails(i) ==
  /\ reads[i].state \in {"sent", "answered"}
  /\ failures < MaxFailures
  /\ failures' = failures + 1
  /\ Settle(i)
  /\ UNCHANGED <<shown, pending>>

(***************************************************************************)
(* The gateway.  A switch is broadcast on the event stream, which makes a   *)
(* console schedule a refresh unless the frame is lost.                     *)
(***************************************************************************)
Outdated(job) == [job EXCEPT !.latest = FALSE]
OutdatedQueue == [k \in DOMAIN queue |-> Outdated(queue[k])]

Broadcast == due' \in {due, TRUE}

ForeignSwitch ==
  /\ foreign < MaxForeign
  /\ foreign' = foreign + 1
  /\ active' \in existing \ {active}
  /\ queue' = OutdatedQueue /\ fork' = Outdated(fork)
  /\ wanted' = None /\ settled' = FALSE
  /\ Broadcast
  /\ UNCHANGED <<existing, shown, reads, intent, pending, failures>>

(* The head of the chain and the fork wait for the gateway in these steps.  *)
Head1 == queue[1]
SetHead(rec) == queue' = [queue EXCEPT ![1] = rec]

GetServed ==
  /\ queue # <<>> /\ Head1.step = "getting"
  /\ SetHead([Head1 EXCEPT !.step = "got", !.current = active, !.latest = TRUE])
  /\ UNCHANGED <<serverVars, shown, reads, due, intent, pending, fork, boundVars, historyVars>>

OpenServed ==
  /\ queue # <<>> /\ Head1.step = "opening"
  /\ active' = Head1.path
  /\ existing' = existing \cup {Head1.path}
  /\ queue' = [OutdatedQueue EXCEPT ![1].step = "opened", ![1].latest = TRUE]
  /\ fork' = Outdated(fork)
  /\ settled' = FALSE
  /\ Broadcast
  /\ UNCHANGED <<shown, reads, intent, pending, boundVars, wanted>>

(* The fork makes the copy; only the second request of it switches.         *)
ForkServed ==
  /\ fork.step \in {"forking", "opening"}
  /\ existing' = existing \cup {fork.path}
  /\ IF fork.step = "forking"
     THEN fork' = [fork EXCEPT !.step = "opening"] /\ UNCHANGED <<active, queue, due, settled>>
     ELSE /\ active' = fork.path
          /\ fork' = [fork EXCEPT !.step = "opened", !.latest = TRUE]
          /\ queue' = OutdatedQueue
          /\ settled' = FALSE
          /\ Broadcast
  /\ UNCHANGED <<shown, reads, intent, pending, boundVars, wanted>>

(* A request is refused, or its answer is lost after it was carried out.    *)
RequestFails ==
  /\ failures < MaxFailures
  /\ failures' = failures + 1
  /\ \/ /\ queue # <<>> /\ Head1.step \in {"getting", "opening", "got", "opened"}
        /\ SetHead([Head1 EXCEPT !.step = "failed",
                     !.current = IF Head1.step \in {"opening", "opened"} THEN @ ELSE None])
        /\ UNCHANGED fork
     \/ /\ fork.step \in {"forking", "opening", "opened"}
        /\ fork' = [fork EXCEPT !.step = "failed"]
        /\ UNCHANGED queue
  /\ wanted' = None
  /\ UNCHANGED <<serverVars, shown, reads, due, intent, pending, foreign, settled>>

(***************************************************************************)
(* The user.                                                                *)
(***************************************************************************)
Unused == Created \ (existing \cup {queue[k].path : k \in DOMAIN queue} \cup {fork.path})

Intend(kind, path) ==
  /\ intent < MaxIntents
  /\ intent' = intent + 1
  /\ pending' = [intent |-> intent + 1, accepted |-> FALSE]
  /\ queue' = Append(queue, Job(kind, path, intent + 1))
  /\ wanted' = path
  /\ UNCHANGED <<serverVars, shown, reads, due, fork, boundVars, settled>>

(* A session row, a link or the browser's Back and Forward buttons.         *)
Navigate == \E path \in existing : Intend("open", path)

CreateNew == \E path \in Unused : Intend("create", path)

(* sessionOperationsBusy turns the fork button off during another action,   *)
(* while a navigation has not been accepted and until the session of the    *)
(* page's link is open; session rows and browser history stay on.           *)
Fork ==
  /\ fork.step = "waiting"
  /\ pending # None => pending.accepted
  /\ \A k \in DOMAIN queue : queue[k].kind = "restore" => queue[k].path = shown
  /\ \E path \in Unused :
       /\ fork' = [Job("fork", path, None) EXCEPT !.step = "forking"]
       /\ wanted' = path
  /\ UNCHANGED <<serverVars, shown, reads, due, intent, pending, queue, boundVars, settled>>

(***************************************************************************)
(* The chain of navigations: each starts when the one before it is over.    *)
(***************************************************************************)
Current(job) == pending # None /\ pending.intent = job.intent

(* Bug: a navigation is queued without asking for the active session first. *)
Begin_Stale ==
  /\ queue # <<>> /\ Head1.step = "waiting"
  /\ IF Head1.kind = "open"
     THEN SetHead([Head1 EXCEPT !.step = "got", !.current = shown])
     ELSE SetHead([Head1 EXCEPT !.step =
            IF Head1.kind = "restore" /\ intent > 0 THEN "over" ELSE "opening"])
  /\ UNCHANGED <<serverVars, shown, reads, due, intent, pending, fork, boundVars, historyVars>>

Begin ==
  /\ queue # <<>> /\ Head1.step = "waiting"
  /\ SetHead([Head1 EXCEPT !.step =
       IF Head1.kind = "open" THEN "getting"
       ELSE IF Head1.kind = "restore" /\ intent > 0 THEN "over" ELSE "opening"])
  /\ UNCHANGED <<serverVars, shown, reads, due, intent, pending, fork, boundVars, historyVars>>

(* enqueueSessionNavigation after its getSession: a superseded navigation   *)
(* ends, one to the active session is accepted, any other one opens.        *)
OpensNext == Current(Head1) /\ Head1.path # Head1.current

GotSession ==
  /\ queue # <<>> /\ Head1.step = "got"
  /\ OpensNext \/ ~Current(Head1)
  /\ SetHead([Head1 EXCEPT !.step = IF OpensNext THEN "opening" ELSE "over"])
  /\ UNCHANGED <<serverVars, shown, reads, due, intent, pending, fork, boundVars, historyVars>>

(* onAccepted and createNewSession: the answer is shown, every read in      *)
(* flight becomes void and a refresh starts, which only a create awaits.    *)
Apply(navigation, path, awaited, latest) ==
  /\ pending' = navigation
  /\ shown' = path
  /\ settled' = latest
  /\ Issue(Voided, navigation, awaited)

Accept ==
  /\ queue # <<>>
  /\ \/ Head1.kind = "open" /\ Head1.step = "opened" /\ Current(Head1)
     \/ Head1.step = "got" /\ Current(Head1) /\ Head1.path = Head1.current
     \/ Head1.kind = "restore" /\ Head1.step = "opened" /\ intent = 0
  /\ Apply(Accepted(Head1.intent), Head1.path, FALSE, Head1.latest)
  /\ SetHead([Head1 EXCEPT !.step = "over"])
  /\ UNCHANGED <<serverVars, due, intent, fork, boundVars, wanted>>

AcceptCreated ==
  /\ queue # <<>> /\ Head1.kind = "create" /\ Head1.step = "opened"
  /\ Apply(IF Current(Head1) THEN Accepted(Head1.intent) ELSE pending,
           Head1.path, TRUE, Head1.latest)
  /\ SetHead([Head1 EXCEPT !.step = "refreshing"])
  /\ UNCHANGED <<serverVars, due, intent, fork, boundVars, wanted>>


(* A switch carried out for a navigation that was superseded meanwhile.     *)
Supersede ==
  /\ queue # <<>> /\ Head1.step = "opened"
  /\ \/ Head1.kind = "open" /\ ~Current(Head1)
     \/ Head1.kind = "restore" /\ intent > 0
  /\ SetHead([Head1 EXCEPT !.step = "over"])
  /\ UNCHANGED <<serverVars, shown, reads, due, intent, pending, fork, boundVars, historyVars>>

(* Bug: the catch block forgets the navigation it gives up.                 *)
Reject_KeepsPending ==
  /\ queue # <<>> /\ Head1.step = "failed"
  /\ IF Current(Head1) /\ Head1.kind = "open" /\ Head1.current # None
     THEN reads' = Voided /\ shown' = Head1.current /\ settled' = FALSE
     ELSE UNCHANGED <<reads, shown, settled>>
  /\ SetHead([Head1 EXCEPT !.step = "over"])
  /\ UNCHANGED <<serverVars, due, intent, pending, fork, boundVars, wanted>>

(* The catch blocks: the latest navigation gives up, and one that had read  *)
(* the active session shows it again, past every read in flight.            *)
Reject ==
  /\ queue # <<>> /\ Head1.step = "failed"
  /\ pending' = IF Current(Head1) THEN None ELSE pending
  /\ IF Current(Head1) /\ Head1.kind = "open" /\ Head1.current # None
     THEN reads' = Voided /\ shown' = Head1.current /\ settled' = FALSE
     ELSE UNCHANGED <<reads, shown, settled>>
  /\ SetHead([Head1 EXCEPT !.step = "over"])
  /\ UNCHANGED <<serverVars, due, intent, fork, boundVars, wanted>>

Advance ==
  /\ queue # <<>> /\ Head1.step = "over"
  /\ queue' = Tail(queue)
  /\ UNCHANGED <<serverVars, shown, reads, due, intent, pending, fork, boundVars, historyVars>>

(* The fork's last step: the same, and sessionAction awaits its refresh.    *)
ForkOpened ==
  /\ fork.step = "opened"
  /\ Apply(pending, fork.path, TRUE, fork.latest)
  /\ fork' = [fork EXCEPT !.step = "refreshing"]
  /\ UNCHANGED <<serverVars, due, intent, queue, boundVars, wanted>>

ForkEnds ==
  /\ fork.step \in {"over", "failed"}
  /\ fork' = NoFork
  /\ UNCHANGED <<serverVars, shown, reads, due, intent, pending, queue, boundVars, historyVars>>

User == Navigate \/ CreateNew
Gateway == GetServed \/ OpenServed \/ \E i \in Slots : ReadServed(i)
Chain == Begin \/ GotSession \/ Accept \/ AcceptCreated \/ Supersede \/ Reject \/ Advance
Console == Chain \/ ScheduledRefresh
Fault == RequestFails \/ \E i \in Slots : ReadFails(i)

Navigating == User \/ Gateway \/ Console \/ Fault \/ Poll \/ ForeignSwitch
              \/ \E i \in Slots : ReadArrives(i)
Forking == Fork \/ ForkServed \/ ForkOpened \/ ForkEnds

Next == Navigating \/ Forking

Spec == Init /\ [][Next]_vars

(* The gateway answers, promises resume, and the poll's interval fires.     *)
(* Strong fairness is for the steps that start a read: only the bound on    *)
(* the number of reads in flight ever disables them.                        *)
Fairness == /\ WF_vars(GetServed) /\ WF_vars(OpenServed) /\ WF_vars(ForkServed)
            /\ SF_vars(Chain) /\ SF_vars(ForkOpened) /\ WF_vars(ForkEnds)
            /\ SF_vars(Poll) /\ SF_vars(ScheduledRefresh)
            /\ \A i \in Slots : WF_vars(ReadServed(i)) /\ WF_vars(ReadArrives(i))

FairSpec == Spec /\ Fairness

\* The console of a user who forks no session.
ForklessSpec == Init /\ [][Navigating]_vars /\ Fairness

(***************************************************************************)
(* Properties.                                                              *)
(***************************************************************************)

Steps == {"waiting", "getting", "got", "opening", "opened", "refreshing", "over", "failed",
          "forking"}
Jobs == [kind : {"open", "create", "restore", "fork"}, path : AllSessions \cup {None},
         intent : (0 .. MaxIntents) \cup {None}, step : Steps,
         current : AllSessions \cup {None}, latest : BOOLEAN]
Reads == [state : {"free", "sent", "answered"}, value : AllSessions \cup {None},
          void : BOOLEAN, older : SUBSET Slots, mark : (0 .. MaxIntents) \cup {None},
          awaited : BOOLEAN]

(* Every variable has its type, and the active session exists.              *)
TypeOK ==
  /\ existing \subseteq AllSessions /\ active \in existing
  /\ shown \in AllSessions \cup {None}
  /\ reads \in [Slots -> Reads]
  /\ due \in BOOLEAN /\ intent \in 0 .. MaxIntents
  /\ pending \in {None} \cup [intent : 0 .. MaxIntents, accepted : BOOLEAN]
  /\ queue \in Seq(Jobs) /\ fork \in Jobs
  /\ foreign \in 0 .. MaxForeign /\ failures \in 0 .. MaxFailures
  /\ wanted \in AllSessions \cup {None} /\ settled \in BOOLEAN

(* "so those batches cannot restore the old room": once the console has     *)
(* accepted the answer of a switch, it shows the gateway's active session   *)
(* until the gateway switches again, whatever reads were in flight before   *)
(* and in whatever order the answers come.                                  *)
SwitchSticks == settled => shown = active

(* What the page shows is well formed, and after an accepted switch no      *)
(* older answer brings the previous session back.                           *)
NavigationSound == TypeOK /\ SwitchSticks

(* "an earlier slow switch cannot finish after the user's latest intent and *)
(* replace it": when the chain is done, and no request failed and nobody    *)
(* else switched since, the gateway is on the session asked for last.       *)
LatestIntentWins ==
  queue = <<>> /\ fork = NoFork /\ wanted # None => active = wanted

(* The console ends up showing the gateway's session with no navigation     *)
(* pending, however many answers were lost, late or out of order.           *)
Converges == <>[](pending = None /\ shown = active)
=============================================================================
