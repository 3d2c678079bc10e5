--------------------------- MODULE ServicesProofs ---------------------------
(* What the services of MC_Services keep, for every value of its constants.   *)
(* They share no state: each has an inductive invariant of its own, which its  *)
(* initial states satisfy, its steps and the steps of the others preserve, and *)
(* which implies its properties; the last section puts them together.          *)
EXTENDS MC_Services, FiniteSetTheorems, SequenceTheorems, TLAPS

-----------------------------------------------------------------------------
(* A bounded command *)

\* While it has not settled it listens; what ended its pipes is that nobody holds
\* them; without a failure it was not stopped and nothing was cut off.
CommandInv ==
    /\ failure \in Command!Reasons \cup {Command!NoFailure}
    /\ listening <=> result = Command!Unsettled
    /\ pipes \in {"ended", "closed"} => alive \cap holders = {}
    /\ failure = Command!NoFailure => ~stopped /\ captured = written
    /\ forced # "unset" => stopped
    /\ result = "resolved" =>
          pipes = "closed" /\ Leader \notin alive /\ code = "zero" /\ failure = Command!NoFailure

LEMMA CommandBegins ==
    ASSUME Command!Init \/ CommandReturned
    PROVE  CommandInv
BY DEF Command!Init, CommandReturned, CommandInv, Command!Reasons, Command!NoFailure, Command!Unsettled

\* stop(), which only a command that has not settled calls.
LEMMA CommandStops ==
    ASSUME CommandInv, NEW reason \in Command!Reasons, Command!Stop(reason), result # "resolved",
           UNCHANGED <<alive, holders, code, pipes, listening, result>>
    PROVE  CommandInv'
<1>1. failure' \in Command!Reasons /\ failure' # Command!NoFailure /\ stopped'
  BY DEF Command!Stop, CommandInv, Command!Reasons, Command!NoFailure
<1> QED
  BY <1>1 DEF CommandInv

LEMMA CommandStep == ASSUME CommandInv, Command!Next PROVE CommandInv'
<1> USE DEF Command!nature, Command!outcome, Command!processes
<1>1. CASE Command!Abort \/ Command!Timeout
  <2>1. result # "resolved"
    BY <1>1 DEF Command!Abort, Command!Timeout, CommandInv, Command!Unsettled
  <2> QED
    BY <1>1, <2>1, CommandStops DEF Command!Abort, Command!Timeout, Command!Reasons
<1>2. CASE Command!Data
  <2>1. result # "resolved" /\ UNCHANGED <<alive, code, holders, pipes, listening, result>>
    BY <1>2 DEF Command!Data, CommandInv
  <2>2. PICK bytes \in 1 .. MaxChunk : written' = written + bytes /\ Command!Append(bytes)
    BY <1>2 DEF Command!Data
  <2>3. CASE bytes > maxOutputBytes - captured
    BY <2>1, <2>2, <2>3, CommandStops DEF Command!Append, Command!Reasons
  <2>4. CASE ~(bytes > maxOutputBytes - captured)
    <3>1. captured' = captured + bytes /\ UNCHANGED <<failure, stopped, forced>>
      BY <2>2, <2>4 DEF Command!Append
    <3>2. captured' = written'
      BY <1>2, <2>2, <3>1 DEF Command!Data
    <3> QED
      BY <2>1, <3>1, <3>2 DEF CommandInv
  <2> QED
    BY <2>3, <2>4
<1>3. CASE Command!Force
  <2>1. stopped /\ failure # Command!NoFailure /\ failure \in Command!Reasons
    BY <1>3 DEF Command!Force, CommandInv
  <2>2. /\ UNCHANGED <<holders, written, captured, failure, stopped>> /\ alive' \subseteq alive
        /\ pipes' \in {pipes, "destroyed"}
    BY <1>3 DEF Command!Force
  <2>3. /\ result' # "resolved"
        /\ listening' <=> result' = Command!Unsettled
    BY <1>3, <2>1 DEF Command!Force, Command!Finish, Command!Outcome, CommandInv, Command!Reasons, Command!Unsettled
  <2> QED
    BY <2>1, <2>2, <2>3 DEF CommandInv
<1>4. CASE Command!Close
  <2>1. /\ UNCHANGED <<alive, code, holders, written, captured, failure, stopped, forced>>
        /\ pipes = "ended" /\ pipes' = "closed" /\ Leader \notin alive /\ result # "resolved"
    BY <1>4 DEF Command!Close, Command!Closed, CommandInv
  <2>2. /\ listening' <=> result' = Command!Unsettled
        /\ result' = "resolved" => code = "zero" /\ failure = Command!NoFailure
    BY <1>4, <2>1
       DEF Command!Close, Command!Finish, Command!Outcome, CommandInv, Command!Reasons, Command!Unsettled, Command!NoFailure
  <2> QED
    BY <2>1, <2>2 DEF CommandInv
<1>5. CASE Command!PipesEnd
  BY <1>5 DEF Command!PipesEnd, CommandInv
<1>6. ASSUME NEW p \in Processes, Command!Exit(p) PROVE CommandInv'
  BY <1>6 DEF Command!Exit, CommandInv
<1> QED
  BY <1>1, <1>2, <1>3, <1>4, <1>5, <1>6 DEF Command!Next

LEMMA CommandStays == ASSUME CommandInv, UNCHANGED commandVars PROVE CommandInv'
BY DEF commandVars, CommandInv

LEMMA CommandSound == ASSUME CommandInv PROVE Command!ResolvedIsWhole
BY DEF CommandInv, Command!ResolvedIsWhole

-----------------------------------------------------------------------------
(* A page that is fetched *)

\* An open dispatcher is that of the current hop, whose addresses were checked;
\* a redirect that is to be followed was checked too.
FetchInv ==
    /\ redirect \in Nat
    /\ phase = "idle" => dispatcher = {} /\ ~timer
    /\ phase = "resolving" => (dispatcher = {} /\ redirect = 0) \/ (dispatcher = {redirect} /\ redirect \in checked)
    /\ phase \in {"requesting", "reading", "releasing"} => dispatcher = {redirect} /\ redirect \in checked
    /\ phase = "releasing" /\ then = "redirect" => redirect + 1 \in checked
    /\ phase \in {"idle", "resolving", "requesting", "reading", "releasing"}

LEMMA FetchBegins == ASSUME Fetch!Init PROVE FetchInv
BY DEF Fetch!Init, FetchInv

\* What a hop awaits is interrupted, whoever does that.
LEMMA FetchInterrupted ==
    ASSUME FetchInv, Fetch!Interrupted, UNCHANGED <<redirect, dispatcher, checked>>
    PROVE  FetchInv'
<1>1. CASE phase = "idle" \/ (phase = "releasing" /\ then = "ok")
  BY <1>1 DEF Fetch!Interrupted, FetchInv
<1>2. CASE ~(phase = "idle" \/ (phase = "releasing" /\ then = "ok"))
  <2>1. Fetch!Rejected
    BY <1>2 DEF Fetch!Interrupted
  <2>2. CASE dispatcher = {}
    BY <2>1, <2>2 DEF Fetch!Rejected, Fetch!Settle, FetchInv
  <2>3. CASE dispatcher # {}
    BY <1>2, <2>1, <2>3 DEF Fetch!Rejected, Fetch!Leave, FetchInv
  <2> QED
    BY <2>2, <2>3
<1> QED
  BY <1>1, <1>2

LEMMA FetchStep == ASSUME FetchInv, Fetch!Next PROVE FetchInv'
<1>1. CASE Fetch!Execute
  BY <1>1 DEF Fetch!Execute, FetchInv
<1>2. CASE Fetch!Resolved
  <2>1. phase = "resolving" /\ UNCHANGED redirect
    BY <1>2 DEF Fetch!Resolved
  <2>2. CASE Fetch!Rejected /\ UNCHANGED <<checked, dispatcher>>
    BY <2>1, <2>2 DEF Fetch!Rejected, Fetch!Settle, Fetch!Leave, FetchInv
  <2>3. CASE ~(Fetch!Rejected /\ UNCHANGED <<checked, dispatcher>>)
    BY <1>2, <2>1, <2>3 DEF Fetch!Resolved, Fetch!Leave, FetchInv
  <2> QED
    BY <2>2, <2>3
<1>3. CASE Fetch!Responds
  BY <1>3 DEF Fetch!Responds, Fetch!Follow, Fetch!Leave, FetchInv
<1>4. CASE Fetch!Read
  BY <1>4 DEF Fetch!Read, Fetch!Leave, FetchInv
<1>5. CASE Fetch!Released
  BY <1>5 DEF Fetch!Released, Fetch!Settle, FetchInv
<1>6. CASE Fetch!Stop \/ Fetch!Dispose
  BY <1>6, FetchInterrupted DEF Fetch!Stop, Fetch!Dispose
<1> QED
  BY <1>1, <1>2, <1>3, <1>4, <1>5, <1>6 DEF Fetch!Next

LEMMA FetchStays == ASSUME FetchInv, UNCHANGED fetchVars PROVE FetchInv'
BY DEF fetchVars, FetchInv

LEMMA FetchSound == ASSUME FetchInv PROVE Fetch!CheckedBeforeAsked /\ Fetch!NothingHeld
BY DEF FetchInv, Fetch!CheckedBeforeAsked, Fetch!NothingHeld

-----------------------------------------------------------------------------
(* The requests to a browser *)

Job == [kind : {"none", "tabs", "act", "navigate"}, at : 0 .. 6,
        phase : {"idle", "begin", "resolving", "fetching", "reading", "connecting", "waiting", "sleeping"},
        timer : BOOLEAN, socket : BOOLEAN, cancelled : BOOLEAN, late : BOOLEAN, ran : 0 .. 1,
        answer : {"none", "failed", "ok"}]

Length(kind) == CASE kind = "tabs" -> 1 [] kind = "act" -> 2 [] OTHER -> 6

\* What the request `at` of a call is.
Asks(kind, at) ==
    IF kind = "tabs" THEN "list"
    ELSE IF kind = "act" THEN IF at = 1 THEN "list" ELSE "act"
    ELSE CASE at = 1 -> "resolve" [] at = 3 -> "enable" [] at = 4 -> "navigate" [] at = 5 -> "ready" [] OTHER -> "list"

\* The command with an effect has been sent.
Carried(j) ==
    \/ j.kind = "act" /\ j.at = 2 /\ j.phase = "waiting"
    \/ j.kind = "navigate" /\ (j.at > 4 \/ (j.at = 4 /\ j.phase = "waiting"))

Open(j) == j.phase \in {"fetching", "reading", "connecting", "waiting"}

\* A call is in one of its requests, in a phase of such a request; it has carried
\* out its command once it was sent, and only then.
JobOk(j) ==
    /\ j \in Job
    /\ j.socket \/ j.timer => Open(j)
    /\ j.phase = "idle" /\ j.answer = "ok" => j.ran = (IF j.kind = "tabs" THEN 0 ELSE 1)
    /\ j.phase # "idle" =>
          /\ j.kind # "none" /\ j.at \in 1 .. Length(j.kind) /\ j.answer = "none"
          /\ j.ran = (IF Carried(j) THEN 1 ELSE 0)
          /\ j.phase = "resolving" => Asks(j.kind, j.at) = "resolve"
          /\ j.phase \in {"fetching", "reading"} => Asks(j.kind, j.at) = "list"
          /\ j.phase \in {"connecting", "waiting"} => Asks(j.kind, j.at) \in {"act", "enable", "navigate", "ready"}
          /\ j.phase = "sleeping" => Asks(j.kind, j.at) = "ready"

JobInv ==
    /\ job \in [Browser!Actors -> Job]
    /\ \A a \in Browser!Actors :
          JobOk(job[a]) /\ (job[a].phase = "connecting" => ~closing /\ ~job[a].cancelled)

\* What a job is before it is asked for.
LEMMA Idle ==
    /\ Browser!NoJob \in Job /\ Browser!NoJob.kind = "none" /\ Browser!NoJob.at = 0
    /\ Browser!NoJob.phase = "idle" /\ ~Browser!NoJob.timer /\ ~Browser!NoJob.socket
    /\ ~Browser!NoJob.cancelled /\ Browser!NoJob.ran = 0 /\ Browser!NoJob.answer = "none"
BY DEF Browser!NoJob, Job

LEMMA JobBegins == ASSUME Browser!Init PROVE JobInv
BY DEF Browser!Init, Browser!NoJob, JobInv, JobOk, Job, Open

\* The requests of each tool, in order.
LEMMA Plans ==
    ASSUME NEW kind \in {"tabs", "act", "navigate"}
    PROVE  /\ kind \in DOMAIN Browser!Plan /\ Len(Browser!Plan[kind]) = Length(kind)
           /\ \A at \in 1 .. Length(kind) : Browser!Plan[kind][at] = Asks(kind, at)
<1>1. DOMAIN Browser!Plan = {"tabs", "act", "navigate"}
  BY DEF Browser!Plan
<1>2. Browser!Plan["tabs"] = <<"list">> /\ Browser!Plan["act"] = <<"list", "act">>
  BY DEF Browser!Plan
<1>3. Browser!Plan["navigate"] = <<"resolve", "list", "enable", "navigate", "ready", "list">>
  BY DEF Browser!Plan
<1>4. CASE kind = "tabs"
  BY <1>1, <1>2, <1>4 DEF Length, Asks
<1>5. CASE kind = "act"
  BY <1>1, <1>2, <1>5 DEF Length, Asks
<1>6. CASE kind = "navigate"
  <2> DEFINE s == <<"resolve", "list", "enable", "navigate", "ready", "list">>
  <2>1. /\ Len(s) = 6 /\ s[1] = "resolve" /\ s[2] = "list" /\ s[3] = "enable" /\ s[4] = "navigate"
        /\ s[5] = "ready" /\ s[6] = "list"
    OBVIOUS
  <2> QED
    BY <1>1, <1>3, <1>6, <2>1 DEF Length, Asks
<1> QED
  BY <1>4, <1>5, <1>6

\* The step of a call that goes on, and whose call it is.
LEMMA Steps ==
    ASSUME NEW a \in Browser!Actors, JobOk(job[a]), Browser!Busy(a)
    PROVE  /\ job[a].kind \in {"tabs", "act", "navigate"} /\ job[a].at \in 1 .. Length(job[a].kind)
           /\ Browser!Step(a) = Asks(job[a].kind, job[a].at)
           /\ Len(Browser!Plan[job[a].kind]) = Length(job[a].kind)
BY Plans DEF Browser!Busy, Browser!Step, JobOk, Job

\* How a request can go on.
LEMMA Outcomes ==
    ASSUME NEW a \in Browser!Actors, JobOk(job[a]), Browser!Busy(a)
    PROVE  /\ JobOk(Browser!Answered(a, "failed")) /\ Browser!Answered(a, "failed").phase = "idle"
           /\ JobOk(Browser!Failed(a)) /\ Browser!Failed(a).phase # "connecting"
           /\ job[a].phase \in {"resolving", "reading", "waiting"} =>
                 JobOk(Browser!Advanced(a)) /\ Browser!Advanced(a).phase # "connecting"
<1> DEFINE j == job[a]
<1>1. /\ j \in Job /\ j.kind \in {"tabs", "act", "navigate"} /\ j.at \in 1 .. Length(j.kind)
      /\ Browser!Step(a) = Asks(j.kind, j.at) /\ Len(Browser!Plan[j.kind]) = Length(j.kind)
  BY Steps DEF JobOk
<1>2. ASSUME NEW ans \in {"failed", "ok"}, ans = "ok" => j.ran = (IF j.kind = "tabs" THEN 0 ELSE 1)
      PROVE  JobOk(Browser!Answered(a, ans)) /\ Browser!Answered(a, ans).phase = "idle"
  <2> DEFINE k == Browser!Answered(a, ans)
  <2>2. /\ k \in Job /\ k.phase = "idle" /\ k.kind = j.kind /\ k.ran = j.ran /\ k.answer = ans
        /\ ~k.timer /\ ~k.socket
    BY <1>1, <1>2, Idle DEF Browser!Answered, Job
  <2> HIDE DEF k
  <2>3. JobOk(k)
    BY <1>2, <2>2 DEF JobOk
  <2> QED
    BY <2>2, <2>3 DEF k
<1>3. JobOk(Browser!Answered(a, "failed")) /\ Browser!Answered(a, "failed").phase = "idle"
  BY <1>2
<1>4. JobOk(Browser!Failed(a)) /\ Browser!Failed(a).phase # "connecting"
  <2>1. CASE Browser!Step(a) = "ready"
    <3> DEFINE k == [Browser!Ended(a) EXCEPT !.phase = "sleeping"]
    <3>1. /\ k \in Job /\ k.phase = "sleeping" /\ k.kind = "navigate" /\ k.at = 5 /\ k.answer = "none"
          /\ ~k.socket /\ ~k.timer /\ k.ran = 1 /\ Asks(k.kind, k.at) = "ready"
      <4>1. j.kind = "navigate" /\ j.at = 5 /\ Asks(j.kind, j.at) = "ready"
        BY <1>1, <2>1 DEF Asks, Length
      <4>2. j.ran = 1 /\ j.answer = "none"
        BY <4>1 DEF Browser!Busy, JobOk, Carried
      <4> QED
        BY <1>1, <4>1, <4>2 DEF Browser!Ended, Job
    <3>2. JobOk(k)
      BY <3>1 DEF JobOk, Length, Carried
    <3> QED
      BY <2>1, <3>1, <3>2 DEF Browser!Failed
  <2>2. CASE Browser!Step(a) # "ready"
    BY <1>3, <2>2 DEF Browser!Failed
  <2> QED
    BY <2>1, <2>2
<1>5. ASSUME j.phase \in {"resolving", "reading", "waiting"}
      PROVE  JobOk(Browser!Advanced(a)) /\ Browser!Advanced(a).phase # "connecting"
  <2>1. CASE j.at = Length(j.kind)
    <3>1. j.ran = (IF j.kind = "tabs" THEN 0 ELSE 1)
      BY <1>1, <1>5, <2>1 DEF JobOk, Length, Asks, Carried
    <3> QED
      BY <1>1, <1>2, <2>1, <3>1 DEF Browser!Advanced
  <2>2. CASE j.at # Length(j.kind)
    <3> DEFINE k == [Browser!Ended(a) EXCEPT !.phase = "begin", !.at = @ + 1]
    <3>0. j.at + 1 \in 1 .. Length(j.kind) /\ j.at + 1 \in 0 .. 6
      BY <1>1, <2>2 DEF Length
    <3>1. /\ k \in Job /\ k.phase = "begin" /\ k.kind = j.kind /\ k.at = j.at + 1 /\ k.ran = j.ran
          /\ k.answer = j.answer /\ ~k.socket /\ ~k.timer
      BY <1>1, <3>0 DEF Browser!Ended, Job
    <3>2. Carried(k) <=> Carried(j)
      BY <1>1, <1>5, <2>2, <3>1 DEF Carried, JobOk, Length, Asks
    <3>3. JobOk(k)
      BY <1>5, <3>0, <3>1, <3>2 DEF JobOk
    <3> QED
      BY <1>1, <2>2, <3>1, <3>3 DEF Browser!Advanced
  <2> QED
    BY <2>1, <2>2
<1> QED
  BY <1>3, <1>4, <1>5

\* A call goes on as `rec`, and the other actor's is as it was.
LEMMA JobBecomes ==
    ASSUME JobInv, NEW a \in Browser!Actors, NEW rec, Browser!Is(a, rec), JobOk(rec),
           rec.phase = "connecting" => ~closing /\ ~rec.cancelled, UNCHANGED closing
    PROVE  /\ JobInv' /\ job'[a] = rec /\ \A b \in Browser!Actors \ {a} : job'[b] = job[b]
BY DEF Browser!Is, JobInv, JobOk

\* Every step keeps the invariant and sends no command for a call that was
\* cancelled.
JobGoes ==
    /\ JobInv'
    /\ \A a \in Browser!Actors :
          job[a].phase = "connecting" /\ job'[a].phase = "waiting" => ~Browser!Aborted(a)

\* A job that becomes a sound record leaves the others as they are.
LEMMA JobGoesOn ==
    ASSUME JobInv, NEW a \in Browser!Actors, NEW rec, Browser!Is(a, rec), JobOk(rec),
           rec.phase = "connecting" => ~closing /\ ~rec.cancelled,
           UNCHANGED closing
    PROVE  JobGoes
BY JobBecomes DEF JobGoes, JobInv, JobOk, Browser!Aborted

LEMMA JobStep == ASSUME JobInv, Browser!Next PROVE JobGoes
<1>0. \A a \in Browser!Actors : JobOk(job[a]) /\ job[a] \in Job
  BY DEF JobInv
<1>1. ASSUME NEW a \in Browser!Actors, Browser!Call(a) PROVE JobGoes
  <2>1. PICK kind \in {"tabs", "act", "navigate"} :
           Browser!Is(a, [Browser!NoJob EXCEPT !.kind = kind, !.at = 1, !.phase = "begin"])
    BY <1>1 DEF Browser!Call, Browser!Plan
  <2> DEFINE k == [Browser!NoJob EXCEPT !.kind = kind, !.at = 1, !.phase = "begin"]
  <2>2. JobOk(k) /\ k.phase = "begin"
    <3>1. /\ k \in Job /\ k.phase = "begin" /\ k.kind = kind /\ k.at = 1 /\ k.ran = 0 /\ k.answer = "none"
          /\ ~k.timer /\ ~k.socket
      <4>1. kind \in {"none", "tabs", "act", "navigate"} /\ 1 \in 0 .. 6
        OBVIOUS
      <4>2. k \in Job
        BY <4>1, Idle DEF Job
      <4>3. k.phase = "begin" /\ k.kind = kind /\ k.at = 1
        BY Idle DEF Job
      <4>4. k.ran = 0 /\ k.answer = "none" /\ ~k.timer /\ ~k.socket
        BY Idle DEF Job
      <4> QED
        BY <4>2, <4>3, <4>4
    <3> HIDE DEF k
    <3> QED
      BY <3>1 DEF JobOk, Length, Carried
  <2> QED
    BY <1>1, <2>1, <2>2, JobGoesOn DEF Browser!Call
<1>2. ASSUME NEW a \in Browser!Actors, Browser!Begin(a) PROVE JobGoes
  <2>1. job[a].phase = "begin" /\ Browser!Busy(a) /\ UNCHANGED closing
    BY <1>2 DEF Browser!Begin, Browser!Busy
  <2>2. /\ job[a].kind \in {"tabs", "act", "navigate"} /\ job[a].at \in 1 .. Length(job[a].kind)
        /\ Browser!Step(a) = Asks(job[a].kind, job[a].at)
    BY <1>0, <2>1, Steps
  <2>3. CASE Browser!Aborted(a) \/ (Browser!Step(a) = "ready" /\ job[a].late)
    <3>1. Browser!Is(a, Browser!Answered(a, "failed"))
      BY <1>2, <2>3 DEF Browser!Begin
    <3> QED
      BY <1>0, <2>1, <3>1, Outcomes, JobGoesOn
  <2>4. CASE ~(Browser!Aborted(a) \/ (Browser!Step(a) = "ready" /\ job[a].late))
    <3>1. ~closing /\ ~job[a].cancelled
      BY <2>4 DEF Browser!Aborted
    <3>2. ASSUME NEW k \in Job, k.kind = job[a].kind, k.at = job[a].at, k.ran = job[a].ran, k.answer = job[a].answer,
                 k.phase \in {"resolving", "fetching", "connecting"}, k.socket \/ k.timer => Open(k),
                 k.phase = "resolving" => Browser!Step(a) = "resolve", k.phase = "fetching" => Browser!Step(a) = "list",
                 k.phase = "connecting" => Browser!Step(a) \in {"act", "enable", "navigate", "ready"}
          PROVE  JobOk(k)
      <4>1. job[a].ran = (IF Carried(job[a]) THEN 1 ELSE 0) /\ job[a].answer = "none"
        BY <1>0, <2>1 DEF JobOk
      <4>2. Carried(k) <=> Carried(job[a])
        BY <2>1, <3>2 DEF Carried
      <4> QED
        BY <2>2, <3>2, <4>1, <4>2 DEF JobOk
    <3>3. ~job[a].timer /\ ~job[a].socket
      BY <1>0, <2>1 DEF JobOk, Open
    <3>4. CASE Browser!Step(a) = "resolve"
      <4> DEFINE k == [job[a] EXCEPT !.phase = "resolving"]
      <4>1. Browser!Is(a, k)
        BY <1>2, <2>4, <3>4 DEF Browser!Begin
      <4>2. /\ k \in Job /\ k.kind = job[a].kind /\ k.at = job[a].at /\ k.phase = "resolving"
            /\ k.ran = job[a].ran /\ k.answer = job[a].answer /\ ~k.timer /\ ~k.socket
        BY <1>0, <3>3 DEF Job
      <4> HIDE DEF k
      <4>3. JobOk(k) /\ k.phase # "connecting"
        BY <3>2, <3>4, <4>2
      <4> QED
        BY <2>1, <4>1, <4>3, JobGoesOn
    <3>5. CASE Browser!Step(a) = "list"
      <4> DEFINE k == [job[a] EXCEPT !.phase = "fetching", !.timer = TRUE]
      <4>1. Browser!Is(a, k)
        BY <1>2, <2>4, <3>5 DEF Browser!Begin
      <4>2. /\ k \in Job /\ k.kind = job[a].kind /\ k.at = job[a].at /\ k.phase = "fetching"
            /\ k.ran = job[a].ran /\ k.answer = job[a].answer
        BY <1>0 DEF Job
      <4> HIDE DEF k
      <4>3. JobOk(k) /\ k.phase # "connecting"
        BY <3>2, <3>5, <4>2 DEF Open
      <4> QED
        BY <2>1, <4>1, <4>3, JobGoesOn
    <3>6. CASE Browser!Step(a) \notin {"resolve", "list"}
      <4> DEFINE k == [job[a] EXCEPT !.phase = "connecting", !.timer = TRUE, !.socket = TRUE]
      <4>1. Browser!Is(a, k)
        BY <1>2, <2>4, <3>6 DEF Browser!Begin
      <4>2. Browser!Step(a) \in {"act", "enable", "navigate", "ready"}
        BY <2>2, <3>6 DEF Asks
      <4>3. /\ k \in Job /\ k.kind = job[a].kind /\ k.at = job[a].at /\ k.phase = "connecting"
            /\ k.ran = job[a].ran /\ k.answer = job[a].answer /\ k.cancelled = job[a].cancelled
        BY <1>0 DEF Job
      <4> HIDE DEF k
      <4>4. JobOk(k) /\ ~k.cancelled
        BY <3>1, <3>2, <4>2, <4>3 DEF Open
      <4> QED
        BY <2>1, <3>1, <4>1, <4>4, JobGoesOn
    <3> QED
      BY <3>4, <3>5, <3>6
  <2> QED
    BY <2>3, <2>4
<1>3. ASSUME NEW a \in Browser!Actors, Browser!Busy(a), UNCHANGED closing,
             \/ Browser!Is(a, Browser!Failed(a)) \/ Browser!Is(a, Browser!Answered(a, "failed"))
             \/ job[a].phase \in {"resolving", "reading", "waiting"} /\ Browser!Is(a, Browser!Advanced(a))
      PROVE  JobGoes
  BY <1>0, <1>3, Outcomes, JobGoesOn
<1>4. ASSUME NEW a \in Browser!Actors, Browser!Resolved(a) \/ Browser!Listed(a) \/ Browser!Answers(a) PROVE JobGoes
  BY <1>3, <1>4 DEF Browser!Resolved, Browser!Listed, Browser!Answers, Browser!Busy
<1>5. ASSUME NEW a \in Browser!Actors, Browser!Breaks(a) \/ Browser!TimesOut(a) PROVE JobGoes
  <2>1. Browser!Busy(a)
    BY <1>0, <1>5 DEF Browser!Breaks, Browser!TimesOut, Browser!Busy, JobOk, Open
  <2> QED
    BY <1>3, <1>5, <2>1 DEF Browser!Breaks, Browser!TimesOut
<1>6. ASSUME NEW a \in Browser!Actors, Browser!Headers(a) PROVE JobGoes
  <2>1. job[a].phase = "fetching" /\ Browser!Busy(a) /\ UNCHANGED closing
    BY <1>6 DEF Browser!Headers, Browser!Busy
  <2>2. CASE Browser!Is(a, Browser!Failed(a))
    BY <1>3, <2>1, <2>2
  <2>3. CASE ~Browser!Is(a, Browser!Failed(a))
    <3> DEFINE k == [job[a] EXCEPT !.phase = "reading"]
    <3>1. Browser!Is(a, k)
      BY <1>6, <2>3 DEF Browser!Headers
    <3>2. JobOk(k) /\ k.phase = "reading"
      BY <1>0, <2>1 DEF JobOk, Job, Open, Carried
    <3> QED
      BY <2>1, <3>1, <3>2, JobGoesOn
  <2> QED
    BY <2>2, <2>3
<1>7. ASSUME NEW a \in Browser!Actors, Browser!Opens(a) PROVE JobGoes
  <2>1. job[a].phase = "connecting" /\ Browser!Busy(a) /\ UNCHANGED closing
    BY <1>7 DEF Browser!Opens, Browser!Busy
  <2>2. /\ job[a].kind \in {"tabs", "act", "navigate"} /\ job[a].at \in 1 .. Length(job[a].kind)
        /\ Browser!Step(a) = Asks(job[a].kind, job[a].at)
    BY <1>0, <2>1, Steps
  <2> DEFINE r == IF Browser!Step(a) \in {"act", "navigate"} THEN job[a].ran + 1 ELSE job[a].ran
             k == [job[a] EXCEPT !.phase = "waiting", !.ran = r]
  <2>3. Browser!Is(a, k)
    BY <1>7 DEF Browser!Opens
  <2>4. /\ job[a].ran = (IF Carried(job[a]) THEN 1 ELSE 0)
        /\ Asks(job[a].kind, job[a].at) \in {"act", "enable", "navigate", "ready"}
    BY <1>0, <2>1 DEF JobOk
  <2>5. /\ r \in 0 .. 1 /\ k.ran = r
        /\ r = (IF Carried(k) THEN 1 ELSE 0)
    BY <1>0, <2>1, <2>2, <2>4 DEF Carried, Asks, Length, Job
  <2>6. JobOk(k) /\ k.phase = "waiting"
    <3>1. /\ k \in Job /\ k.phase = "waiting" /\ k.kind = job[a].kind /\ k.at = job[a].at
          /\ k.answer = job[a].answer
      <4> HIDE DEF r
      <4> QED
        BY <1>0, <2>2, <2>5 DEF Job
    <3> HIDE DEF k
    <3> QED
      BY <1>0, <2>1, <2>2, <2>4, <2>5, <3>1 DEF JobOk, Open
  <2> QED
    BY <2>1, <2>3, <2>6, JobGoesOn
<1>8. ASSUME NEW a \in Browser!Actors, Browser!Wakes(a) PROVE JobGoes
  <2> DEFINE k == [job[a] EXCEPT !.phase = "begin"]
  <2>1. JobOk(k) /\ k.phase = "begin"
    BY <1>0, <1>8 DEF Browser!Wakes, JobOk, Job, Open, Carried, Asks
  <2> QED
    BY <1>8, <2>1, JobGoesOn DEF Browser!Wakes
<1>9. ASSUME NEW a \in Browser!Actors, Browser!Expires(a) PROVE JobGoes
  <2> DEFINE k == [job[a] EXCEPT !.late = TRUE]
  <2>1. JobOk(k) /\ k.phase = job[a].phase /\ k.cancelled = job[a].cancelled
    BY <1>0 DEF JobOk, Job, Open, Carried
  <2> QED
    BY <1>9, <2>1, JobGoesOn DEF Browser!Expires, JobInv
<1>10. \A a \in Browser!Actors : JobOk(Browser!Stopped(a)) /\ Browser!Stopped(a).phase \notin {"connecting", "waiting"}
  BY <1>0, Outcomes DEF Browser!Stopped, Browser!Requesting, Browser!Busy
<1>11. CASE Browser!Cancel
  <2> DEFINE s == Browser!Stopped("tool")
             k == [s EXCEPT !.cancelled = TRUE]
  <2>1. "tool" \in Browser!Actors /\ JobOk(s) /\ s \in Job /\ s.phase # "connecting"
    BY <1>10 DEF Browser!Actors, JobOk
  <2>2. JobOk(k) /\ k.phase = s.phase
    BY <2>1 DEF JobOk, Job, Open, Carried
  <2>3. Browser!Is("tool", s) \/ Browser!Is("tool", k)
    BY <1>11 DEF Browser!Cancel
  <2>4. UNCHANGED closing
    BY <1>11 DEF Browser!Cancel
  <2> HIDE DEF s, k
  <2> QED
    BY <2>1, <2>2, <2>3, <2>4, JobGoesOn
<1>12. CASE Browser!Dispose
  BY <1>10, <1>12 DEF Browser!Dispose, JobGoes, JobInv, JobOk
<1> QED
  BY <1>1, <1>2, <1>4, <1>5, <1>6, <1>7, <1>8, <1>9, <1>11, <1>12 DEF Browser!Next

LEMMA JobStays == ASSUME JobInv, UNCHANGED browserVars PROVE JobInv'
BY DEF browserVars, JobInv

LEMMA JobSound == ASSUME JobInv PROVE Browser!CommandOnce /\ Browser!NothingHeld
<1>1. \A a \in Browser!Actors : JobOk(job[a])
  BY DEF JobInv
<1>2. \A a \in Browser!Actors : (job[a].socket \/ job[a].timer) => Browser!Requesting(a)
  BY <1>1 DEF JobOk, Open, Browser!Requesting
<1>3. ASSUME NEW a \in Browser!Actors
      PROVE  job[a].ran <= 1 /\ (job[a].answer = "ok" => job[a].ran = (IF job[a].kind = "tabs" THEN 0 ELSE 1))
  BY <1>1 DEF JobOk, Job
<1> QED
  BY <1>2, <1>3 DEF Browser!CommandOnce, Browser!NothingHeld

-----------------------------------------------------------------------------
(* A compaction of the context *)

States == {"idle", "queued", "running", "completed", "failed", "cancelled"}
Operation == [on : Doctor!Sessions \cup {0}, for : Doctor!Sessions \cup {0}, stop : BOOLEAN]

DoctorTyped ==
    /\ session \in Doctor!Sessions /\ queued \in Doctor!Sessions \cup {0}
    /\ plugin \in Doctor!Instances /\ disposed \in BOOLEAN
    /\ compaction \in [Doctor!Instances -> Operation]
    /\ status \in [Doctor!Sessions -> States]

\* An instance has one operation, for the session it was asked for; nothing
\* waits beside it, nor for an instance that is gone, and none of a later
\* instance is there.
InTurn ==
    /\ queued # 0 => compaction[plugin].on = 0
    /\ disposed => queued = 0
    /\ \A i \in Doctor!Instances :
          /\ compaction[i].for = compaction[i].on
          /\ i > plugin => compaction[i].on = 0

DoctorInv == DoctorTyped /\ InTurn /\ Doctor!OneCompaction /\ Doctor!CompactionStatus

LEMMA DoctorBegins == ASSUME Doctor!Init PROVE DoctorInv
<1>1. 1 \in Doctor!Sessions /\ 1 \in Doctor!Instances /\ 0 \notin Doctor!Sessions /\ Doctor!Instances \subseteq Nat
  BY DoctorConstants DEF Doctor!DoctorAssumption, Doctor!Sessions, Doctor!Instances
<1>2. Doctor!NoOp \in Operation /\ Doctor!NoOp.on = 0 /\ Doctor!NoOp.for = 0
  BY DEF Operation, Doctor!NoOp
<1>3. DoctorTyped
  BY <1>1, <1>2 DEF Doctor!Init, DoctorTyped, States
<1>4. \A i \in Doctor!Instances : compaction[i].on = 0 /\ compaction[i].for = 0
  BY <1>2 DEF Doctor!Init
<1>5. InTurn /\ Doctor!OneCompaction
  BY <1>1, <1>4 DEF Doctor!Init, InTurn, Doctor!OneCompaction
<1>6. Doctor!CompactionStatus
  BY <1>1, <1>4 DEF Doctor!Init, Doctor!CompactionStatus
<1> QED
  BY <1>3, <1>5, <1>6 DEF DoctorInv

\* A change of the operations that starts and ends none.
SameOperations ==
    /\ compaction' \in [Doctor!Instances -> Operation]
    /\ \A i \in Doctor!Instances : compaction'[i].on = compaction[i].on /\ compaction'[i].for = compaction[i].for

\* Sessions and instances are numbers, so that the next instance is one.
LEMMA Numbers ==
    /\ 0 \notin Doctor!Sessions /\ Doctor!Sessions \subseteq Nat /\ Doctor!Instances \subseteq Nat
    /\ \A i \in Doctor!Instances : i + 1 \in Nat
BY DEF Doctor!Sessions, Doctor!Instances

\* cancelForSessionChange
LEMMA DoctorKept ==
    ASSUME DoctorInv
    PROVE  /\ Doctor!KeptQueue \in {0, queued} /\ (Doctor!KeptQueue # 0 => Doctor!KeptQueue = session)
           /\ Doctor!KeptStatus \in [Doctor!Sessions -> States]
           /\ \A s \in Doctor!Sessions :
                 Doctor!KeptStatus[s] = (IF queued = s /\ Doctor!KeptQueue = 0 THEN "cancelled" ELSE status[s])
           /\ Doctor!KeptOp \in [Doctor!Instances -> Operation]
           /\ \A i \in Doctor!Instances :
                 Doctor!KeptOp[i].on = compaction[i].on /\ Doctor!KeptOp[i].for = compaction[i].for
<1> USE DEF DoctorInv, DoctorTyped
<1>1. /\ Doctor!KeptQueue \in {0, queued} /\ (Doctor!KeptQueue # 0 => Doctor!KeptQueue = session)
      /\ Doctor!Stale <=> queued # 0 /\ Doctor!KeptQueue = 0
  BY Numbers DEF Doctor!KeptQueue, Doctor!Stale
<1>2. /\ Doctor!KeptStatus \in [Doctor!Sessions -> States]
      /\ \A s \in Doctor!Sessions :
            Doctor!KeptStatus[s] = (IF queued = s /\ Doctor!KeptQueue = 0 THEN "cancelled" ELSE status[s])
  BY <1>1, Numbers DEF Doctor!KeptStatus, States
<1>3. /\ Doctor!KeptOp \in [Doctor!Instances -> Operation]
      /\ \A i \in Doctor!Instances :
            Doctor!KeptOp[i].on = compaction[i].on /\ Doctor!KeptOp[i].for = compaction[i].for
  BY DEF Doctor!KeptOp, Operation
<1> QED
  BY <1>1, <1>2, <1>3

\* A step that starts and ends no operation: the invariant is about the queue.
LEMMA DoctorQueues ==
    ASSUME DoctorInv, SameOperations, UNCHANGED <<slots, plugin>>,
           session' \in Doctor!Sessions, disposed' \in BOOLEAN, status' \in [Doctor!Sessions -> States],
           queued' \in Doctor!Sessions \cup {0},
           queued' # 0 => compaction[plugin].on = 0,
           disposed' => queued' = 0,
           ~disposed' => ~disposed /\ \A s \in Doctor!Sessions :
               /\ (status'[s] = "queued") <=> (queued' = s)
               /\ (status'[s] = "running") <=> (status[s] = "running")
    PROVE  DoctorInv'
<1> USE DEF DoctorInv, DoctorTyped
<1>1. \A i \in Doctor!Instances : compaction'[i].on = compaction[i].on /\ compaction'[i].for = compaction[i].for
  BY DEF SameOperations
<1>2. DoctorTyped'
  BY DEF SameOperations
<1>3. InTurn'
  BY <1>1 DEF InTurn
<1>4. Doctor!OneCompaction'
  <2>1. {compaction'[i].on : i \in Doctor!Instances} = {compaction[i].on : i \in Doctor!Instances}
    BY <1>1
  <2> QED
    BY <1>1, <2>1 DEF Doctor!OneCompaction
<1>5. Doctor!CompactionStatus'
  BY <1>1 DEF Doctor!CompactionStatus
<1> QED
  BY <1>2, <1>3, <1>4, <1>5

\* An operation is told to stop, and goes on.
LEMMA DoctorAborts ==
    ASSUME DoctorInv, compaction' \in {compaction, [compaction EXCEPT ![plugin].stop = TRUE]}
    PROVE  SameOperations
<1>1. compaction \in [Doctor!Instances -> Operation] /\ plugin \in Doctor!Instances
  BY DEF DoctorInv, DoctorTyped
<1> DEFINE o == [compaction[plugin] EXCEPT !.stop = TRUE]
<1>2. o \in Operation /\ o.on = compaction[plugin].on /\ o.for = compaction[plugin].for
  BY <1>1 DEF Operation
<1>3. CASE compaction' = compaction
  BY <1>1, <1>3 DEF SameOperations
<1>4. CASE compaction' = [compaction EXCEPT ![plugin] = o]
  <2> HIDE DEF o
  <2> QED
    BY <1>1, <1>2, <1>4 DEF SameOperations
<1> QED
  BY <1>3, <1>4

\* No session comes to be shown as completed.
NoneCompleted == \A s \in Doctor!Sessions : status[s] = "running" /\ status'[s] = "completed" => s = session

\* startCompaction, in the session it was asked for.
LEMMA DoctorStarts ==
    ASSUME DoctorInv, Doctor!Start(session, session), ~disposed, compaction[plugin].on = 0,
           Doctor!KeptQueue = 0 \/ queued = session, queued' = 0, UNCHANGED <<session, plugin, disposed>>
    PROVE  DoctorInv' /\ NoneCompleted
<1> USE DEF DoctorInv, DoctorTyped
<1>1. /\ Doctor!KeptStatus \in [Doctor!Sessions -> States] /\ Doctor!KeptOp \in [Doctor!Instances -> Operation]
      /\ \A s \in Doctor!Sessions :
            Doctor!KeptStatus[s] = (IF queued = s /\ Doctor!KeptQueue = 0 THEN "cancelled" ELSE status[s])
      /\ \A i \in Doctor!Instances :
            Doctor!KeptOp[i].on = compaction[i].on /\ Doctor!KeptOp[i].for = compaction[i].for
  BY DoctorKept
<1>2. \A s \in Doctor!Sessions \ {session} : Doctor!KeptStatus[s] # "queued" /\
         (Doctor!KeptStatus[s] = "running" => status[s] = "running")
  BY <1>1 DEF Doctor!CompactionStatus
<1>3. \A s \in Doctor!Sessions : status[s] # "running"
  BY Numbers DEF Doctor!CompactionStatus
<1>4. CASE Doctor!SlotFree(session)
  <2> DEFINE o == [on |-> session, for |-> session, stop |-> FALSE]
  <2>1. /\ slots' = slots \cup {session} /\ compaction' = [compaction EXCEPT ![plugin] = o]
        /\ status' = [Doctor!KeptStatus EXCEPT ![session] = "running"]
    BY <1>4 DEF Doctor!Start
  <2>2. o \in Operation /\ o.on = session /\ o.for = session
    BY DEF Operation
  <2> HIDE DEF o
  <2>3. /\ compaction' \in [Doctor!Instances -> Operation] /\ compaction'[plugin] = o
        /\ \A i \in Doctor!Instances \ {plugin} : compaction'[i] = compaction[i]
    BY <2>1, <2>2
  <2>4. /\ status' \in [Doctor!Sessions -> States] /\ status'[session] = "running"
        /\ \A s \in Doctor!Sessions \ {session} : status'[s] = Doctor!KeptStatus[s]
    BY <1>1, <2>1 DEF States
  <2>5. DoctorTyped'
    BY <2>3, <2>4
  <2>6. InTurn'
    BY <2>2, <2>3, Numbers DEF InTurn
  <2>7. \A i \in Doctor!Instances : compaction[i].on # session
    BY <1>4 DEF Doctor!SlotFree, Doctor!Compacting
  <2>8. Doctor!OneCompaction'
    <3>1. ASSUME NEW i \in Doctor!Instances, NEW j \in Doctor!Instances,
                 compaction'[i].on # 0, compaction'[i].on = compaction'[j].on
          PROVE  i = j
      BY <2>2, <2>3, <2>7, <3>1 DEF Doctor!OneCompaction
    <3>2. slots' = {compaction'[i].on : i \in Doctor!Instances} \ {0}
      <4>1. \A x : x \in {compaction'[i].on : i \in Doctor!Instances} <=>
                      x = session \/ \E i \in Doctor!Instances \ {plugin} : x = compaction[i].on
        BY <2>2, <2>3
      <4>2. \A x : x \in {compaction[i].on : i \in Doctor!Instances} <=>
                      x = 0 \/ \E i \in Doctor!Instances \ {plugin} : x = compaction[i].on
        OBVIOUS
      <4> QED
        BY <2>1, <4>1, <4>2, Numbers DEF Doctor!OneCompaction
    <3> QED
      BY <3>1, <3>2 DEF Doctor!OneCompaction
  <2>9. Doctor!CompactionStatus'
    <3>1. \A s \in Doctor!Sessions : status'[s] = "queued" <=> queued' = s
      BY <1>2, <2>4, Numbers
    <3>2. \A s \in Doctor!Sessions : status'[s] = "running" <=> compaction'[plugin].on = s
      BY <1>2, <1>3, <2>2, <2>3, <2>4
    <3> QED
      BY <3>1, <3>2 DEF Doctor!CompactionStatus
  <2> QED
    BY <1>3, <2>5, <2>6, <2>8, <2>9 DEF NoneCompleted
<1>5. CASE ~Doctor!SlotFree(session)
  <2>1. UNCHANGED slots /\ compaction' = Doctor!KeptOp /\ status' = [Doctor!KeptStatus EXCEPT ![session] = "failed"]
    BY <1>5 DEF Doctor!Start
  <2>2. /\ status' \in [Doctor!Sessions -> States] /\ status'[session] = "failed"
        /\ \A s \in Doctor!Sessions \ {session} : status'[s] = Doctor!KeptStatus[s]
    BY <1>1, <2>1 DEF States
  <2>3. SameOperations
    BY <1>1, <2>1 DEF SameOperations
  <2>4. \A s \in Doctor!Sessions : status'[s] # "queued" /\ status'[s] # "running" /\ queued' # s
    BY <1>2, <1>3, <2>2, Numbers
  <2>5. DoctorInv'
    BY <1>3, <2>1, <2>2, <2>3, <2>4, DoctorQueues
  <2> QED
    BY <1>3, <2>5 DEF NoneCompleted
<1> QED
  BY <1>4, <1>5

\* A stale request is cancelled, and whatever waits otherwise stays.
LEMMA DoctorNotices ==
    ASSUME DoctorInv, queued' = Doctor!KeptQueue, status' = Doctor!KeptStatus, compaction' = Doctor!KeptOp,
           UNCHANGED <<session, slots, plugin, disposed>>
    PROVE  DoctorInv' /\ NoneCompleted
<1> USE DEF DoctorInv, DoctorTyped
<1>1. /\ Doctor!KeptQueue \in {0, queued} /\ Doctor!KeptStatus \in [Doctor!Sessions -> States]
      /\ \A s \in Doctor!Sessions :
            Doctor!KeptStatus[s] = (IF queued = s /\ Doctor!KeptQueue = 0 THEN "cancelled" ELSE status[s])
  BY DoctorKept
<1>2. SameOperations
  BY DoctorKept DEF SameOperations
<1>3. ASSUME NEW s \in Doctor!Sessions, ~disposed
      PROVE  /\ (status'[s] = "queued") <=> (queued' = s)
             /\ (status'[s] = "running") <=> (status[s] = "running")
  BY <1>1, <1>3, Numbers DEF Doctor!CompactionStatus
<1>4. DoctorInv'
  BY <1>1, <1>2, <1>3, DoctorQueues DEF InTurn
<1> QED
  BY <1>1, <1>4 DEF NoneCompleted

\* compact() has ended.
LEMMA DoctorEnds ==
    ASSUME DoctorInv, NEW i \in Doctor!Instances, Doctor!CompactEnds(i)
    PROVE  DoctorInv' /\ NoneCompleted
<1> USE DEF DoctorInv, DoctorTyped, Doctor!env
<1>1. /\ compaction[i].on \in Doctor!Sessions /\ UNCHANGED <<session, plugin, disposed, queued>>
      /\ slots' = slots \ {compaction[i].on}
  BY DEF Doctor!CompactEnds, Operation
<1>2. Doctor!NoOp \in Operation /\ Doctor!NoOp.on = 0 /\ Doctor!NoOp.for = 0
  BY DEF Operation, Doctor!NoOp
<1>3. /\ compaction' \in [Doctor!Instances -> Operation] /\ compaction'[i].on = 0 /\ compaction'[i].for = 0
      /\ \A j \in Doctor!Instances \ {i} : compaction'[j] = compaction[j]
  <2>1. compaction' = [compaction EXCEPT ![i] = Doctor!NoOp]
    BY DEF Doctor!CompactEnds
  <2> QED
    BY <1>2, <2>1
<1>4. PICK end \in {"completed", "cancelled", "failed"} :
         /\ status' = IF i = plugin THEN [status EXCEPT ![compaction[i].on] = end] ELSE status
         /\ end = "completed" => compaction[i].on = session
  BY DEF Doctor!CompactEnds, Doctor!Changed
<1>5. /\ status' \in [Doctor!Sessions -> States]
      /\ i # plugin => status' = status
      /\ i = plugin => /\ status'[compaction[i].on] = end
                       /\ \A s \in Doctor!Sessions \ {compaction[i].on} : status'[s] = status[s]
  BY <1>1, <1>4 DEF States
<1>6. DoctorTyped'
  BY <1>1, <1>3, <1>5
<1>7. InTurn'
  BY <1>1, <1>3 DEF InTurn
<1>8. Doctor!OneCompaction'
  <2>1. ASSUME NEW j \in Doctor!Instances, NEW k \in Doctor!Instances,
               compaction'[j].on # 0, compaction'[j].on = compaction'[k].on
        PROVE  j = k
    BY <1>3, <2>1 DEF Doctor!OneCompaction
  <2>2. \A x : x \in slots' <=> x # 0 /\ x # compaction[i].on /\ \E j \in Doctor!Instances : x = compaction[j].on
    BY <1>1 DEF Doctor!OneCompaction
  <2>3. \A x : x # 0 => (x # compaction[i].on /\ (\E j \in Doctor!Instances : x = compaction[j].on)
                         <=> \E j \in Doctor!Instances : x = compaction'[j].on)
    BY <1>3 DEF Doctor!OneCompaction
  <2> QED
    <3>1. \A x : x \in slots' <=> x \in {compaction'[j].on : j \in Doctor!Instances} \ {0}
      <4> DEFINE C == {compaction'[j].on : j \in Doctor!Instances}
      <4>1. \A x : x \in C <=> \E j \in Doctor!Instances : x = compaction'[j].on
        OBVIOUS
      <4>2. \A x : x \in C \ {0} <=> x \in C /\ x # 0
        OBVIOUS
      <4> HIDE DEF C
      <4>3. \A x : x \in slots' <=> x \in C /\ x # 0
        BY <2>2, <2>3, <4>1
      <4> QED
        BY <4>2, <4>3 DEF C
    <3>2. slots' = {compaction'[j].on : j \in Doctor!Instances} \ {0}
      BY <3>1
    <3> QED
      BY <2>1, <3>2 DEF Doctor!OneCompaction
<1>9. Doctor!CompactionStatus'
  <2> SUFFICES ASSUME ~disposed, NEW s \in Doctor!Sessions
               PROVE  /\ (status'[s] = "queued") <=> (queued' = s)
                      /\ (status'[s] = "running") <=> (compaction'[plugin].on = s)
    BY <1>1 DEF Doctor!CompactionStatus
  <2>1. CASE i = plugin
    <3>1. queued = 0
      BY <1>1, <2>1, Numbers DEF InTurn
    <3> QED
      BY <1>1, <1>3, <1>5, <2>1, <3>1, Numbers DEF Doctor!CompactionStatus
  <2>2. CASE i # plugin
    BY <1>1, <1>3, <1>5, <2>2 DEF Doctor!CompactionStatus
  <2> QED
    BY <2>1, <2>2
<1>10. NoneCompleted
  BY <1>1, <1>4, <1>5 DEF NoneCompleted
<1> QED
  BY <1>6, <1>7, <1>8, <1>9, <1>10

LEMMA DoctorStep == ASSUME DoctorInv, Doctor!Next PROVE DoctorInv' /\ NoneCompleted
<1> USE DEF DoctorInv, DoctorTyped, Doctor!env
<1>0. /\ Doctor!KeptQueue \in {0, queued} /\ (Doctor!KeptQueue # 0 => Doctor!KeptQueue = session)
      /\ Doctor!KeptStatus \in [Doctor!Sessions -> States] /\ Doctor!KeptOp \in [Doctor!Instances -> Operation]
      /\ \A s \in Doctor!Sessions :
            Doctor!KeptStatus[s] = (IF queued = s /\ Doctor!KeptQueue = 0 THEN "cancelled" ELSE status[s])
      /\ \A i \in Doctor!Instances :
            Doctor!KeptOp[i].on = compaction[i].on /\ Doctor!KeptOp[i].for = compaction[i].for
  BY DoctorKept
<1>1. CASE Doctor!Execute
  <2>1. ~disposed /\ UNCHANGED <<session, plugin, disposed>>
    BY <1>1 DEF Doctor!Execute
  <2>2. CASE compaction[plugin].on # 0 \/ Doctor!KeptQueue # 0 \/ Doctor!Compacting(session)
    BY <1>1, <2>1, <2>2, DoctorNotices DEF Doctor!Execute
  <2>3. CASE /\ ~(compaction[plugin].on # 0 \/ Doctor!KeptQueue # 0 \/ Doctor!Compacting(session))
             /\ idle
    BY <1>1, <2>1, <2>3, DoctorStarts DEF Doctor!Execute
  <2>4. CASE /\ ~(compaction[plugin].on # 0 \/ Doctor!KeptQueue # 0 \/ Doctor!Compacting(session))
             /\ ~idle
    <3>1. /\ queued' = session /\ status' = [Doctor!KeptStatus EXCEPT ![session] = "queued"]
          /\ compaction' = Doctor!KeptOp /\ UNCHANGED slots
      BY <1>1, <2>4 DEF Doctor!Execute
    <3>2. SameOperations
      BY <1>0, <3>1 DEF SameOperations
    <3>3. /\ status' \in [Doctor!Sessions -> States] /\ status'[session] = "queued"
          /\ \A s \in Doctor!Sessions \ {session} : status'[s] = Doctor!KeptStatus[s]
      BY <1>0, <3>1 DEF States
    <3>4. ASSUME NEW s \in Doctor!Sessions
          PROVE  /\ (status'[s] = "queued") <=> (queued' = s)
                 /\ (status'[s] = "running") <=> (status[s] = "running")
      <4>1. status[s] # "running"
        BY <2>1, <2>4, Numbers DEF Doctor!CompactionStatus
      <4>2. CASE s = session
        BY <3>1, <3>3, <4>1, <4>2
      <4>3. CASE s # session
        BY <1>0, <2>1, <2>4, <3>1, <3>3, <4>1, <4>3 DEF Doctor!CompactionStatus
      <4> QED
        BY <4>2, <4>3
    <3>5. DoctorInv'
      BY <2>1, <2>4, <3>1, <3>2, <3>3, <3>4, DoctorQueues
    <3> QED
      BY <1>0, <3>3, <3>5 DEF NoneCompleted
  <2> QED
    BY <2>2, <2>3, <2>4
<1>2. CASE Doctor!Notice
  BY <1>2, DoctorNotices DEF Doctor!Notice
<1>3. CASE Doctor!Settled
  <2>1. UNCHANGED <<session, plugin, disposed>>
    BY <1>3 DEF Doctor!Settled
  <2>2. CASE disposed
    <3>1. UNCHANGED <<queued, compaction, status, slots>>
      BY <1>3, <2>2 DEF Doctor!Settled
    <3> QED
      BY <2>1, <3>1 DEF NoneCompleted, InTurn, Doctor!OneCompaction, Doctor!CompactionStatus
  <2>3. CASE ~disposed /\ Doctor!KeptQueue # 0
    <3>1. queued' = 0 /\ Doctor!Start(session, session) /\ queued = session
      BY <1>0, <1>3, <2>3 DEF Doctor!Settled
    <3> QED
      BY <2>1, <2>3, <3>1, Numbers, DoctorStarts DEF InTurn
  <2>4. CASE ~disposed /\ Doctor!KeptQueue = 0
    BY <1>3, <2>1, <2>4, DoctorNotices DEF Doctor!Settled
  <2> QED
    BY <2>2, <2>3, <2>4
<1>4. CASE Doctor!AbortCall
  <2>1. /\ queued \in Doctor!Sessions /\ queued' = 0 /\ UNCHANGED <<session, slots, plugin, disposed, compaction>>
        /\ status' = [status EXCEPT ![queued] = "cancelled"]
    BY <1>4 DEF Doctor!AbortCall
  <2>2. /\ status' \in [Doctor!Sessions -> States] /\ status'[queued] = "cancelled"
        /\ \A s \in Doctor!Sessions \ {queued} : status'[s] = status[s]
    BY <2>1 DEF States
  <2>3. SameOperations
    BY <2>1 DEF SameOperations
  <2>4. ASSUME NEW s \in Doctor!Sessions, ~disposed
        PROVE  /\ (status'[s] = "queued") <=> (queued' = s)
               /\ (status'[s] = "running") <=> (status[s] = "running")
    BY <2>1, <2>2, <2>4, Numbers DEF Doctor!CompactionStatus
  <2>5. DoctorInv'
    BY <2>1, <2>2, <2>3, <2>4, DoctorQueues
  <2> QED
    BY <2>2, <2>5 DEF NoneCompleted
<1>5. CASE Doctor!AbortRunning \/ Doctor!Dispose
  <2>1. /\ UNCHANGED <<session, slots, plugin, status>> /\ disposed' \in BOOLEAN /\ queued' \in {0, queued}
        /\ disposed' => queued' = 0
        /\ ~disposed' => ~disposed /\ queued' = queued
        /\ compaction' \in {compaction, [compaction EXCEPT ![plugin].stop = TRUE]}
    BY <1>5 DEF Doctor!AbortRunning, Doctor!Dispose, InTurn
  <2>2. SameOperations
    BY <2>1, DoctorAborts
  <2>3. DoctorInv'
    BY <2>1, <2>2, DoctorQueues DEF InTurn, Doctor!CompactionStatus
  <2> QED
    BY <2>1, <2>3 DEF NoneCompleted
<1>6. CASE Doctor!AbortRequested
  <2>1. /\ UNCHANGED <<session, slots, plugin, disposed>> /\ ~disposed
        /\ queued' = (IF queued = session THEN 0 ELSE queued)
        /\ status' = (IF queued = session THEN [status EXCEPT ![queued] = "cancelled"] ELSE status)
        /\ compaction' \in {compaction, [compaction EXCEPT ![plugin].stop = TRUE]}
    BY <1>6 DEF Doctor!AbortRequested
  <2>2. SameOperations
    BY <2>1, DoctorAborts
  <2>3. /\ status' \in [Doctor!Sessions -> States]
        /\ \A s \in Doctor!Sessions :
              status'[s] = (IF queued = session /\ s = session THEN "cancelled" ELSE status[s])
    BY <2>1 DEF States
  <2>4. \A s \in Doctor!Sessions : /\ status'[s] = "queued" <=> queued' = s
                                   /\ status'[s] = "running" <=> status[s] = "running"
    BY <2>1, <2>3, Numbers DEF Doctor!CompactionStatus
  <2>5. DoctorInv'
    BY <2>1, <2>2, <2>3, <2>4, DoctorQueues DEF InTurn
  <2> QED
    BY <2>3, <2>5 DEF NoneCompleted
<1>7. ASSUME NEW i \in Doctor!Instances, Doctor!CompactEnds(i) PROVE DoctorInv' /\ NoneCompleted
  BY <1>7, DoctorEnds
<1>8. CASE Doctor!RunStarts \/ Doctor!NativeCompaction
  <2>1. UNCHANGED <<session, slots, plugin, disposed, queued, compaction, status>>
    BY <1>8 DEF Doctor!RunStarts, Doctor!NativeCompaction
  <2> QED
    BY <2>1 DEF NoneCompleted, InTurn, Doctor!OneCompaction, Doctor!CompactionStatus
<1>9. CASE Doctor!Switch
  <2>1. session' \in Doctor!Sessions /\ UNCHANGED <<slots, plugin, disposed, queued, compaction, status>>
    BY <1>9, DoctorConstants DEF Doctor!Switch, Doctor!Sessions, Doctor!DoctorAssumption
  <2> QED
    BY <2>1 DEF NoneCompleted, InTurn, Doctor!OneCompaction, Doctor!CompactionStatus
<1>10. CASE Doctor!Apply
  <2>1. /\ plugin' = plugin + 1 /\ plugin' \in Doctor!Instances /\ queued = 0
        /\ status' = [s \in Doctor!Sessions |-> "idle"] /\ UNCHANGED <<session, slots, queued, compaction>>
        /\ disposed' = FALSE
    BY <1>10, DoctorConstants DEF Doctor!Apply, Doctor!Instances, Doctor!DoctorAssumption, InTurn
  <2>2. compaction[plugin'].on = 0
    BY <2>1, Numbers DEF InTurn
  <2>3. InTurn'
    BY <2>1, <2>2, Numbers DEF InTurn
  <2>4. DoctorTyped' /\ Doctor!CompactionStatus'
    BY <2>1, <2>2, Numbers DEF Doctor!CompactionStatus, States
  <2>5. Doctor!OneCompaction'
    BY <2>1 DEF Doctor!OneCompaction
  <2> QED
    BY <2>1, <2>3, <2>4, <2>5 DEF NoneCompleted
<1> QED
  BY <1>1, <1>2, <1>3, <1>4, <1>5, <1>6, <1>7, <1>8, <1>9, <1>10 DEF Doctor!Next

LEMMA DoctorStays == ASSUME DoctorInv, UNCHANGED doctorVars PROVE DoctorInv'
BY DEF doctorVars, DoctorInv, DoctorTyped, InTurn, Doctor!OneCompaction, Doctor!CompactionStatus

-----------------------------------------------------------------------------
(* The panels *)

Disposer == [panel : Panels, active : BOOLEAN]

PanelTyped ==
    /\ panels \in [Panel!PanelIds -> Panels \cup {NoPanel}]
    /\ disposers \in Seq(Disposer)
    /\ pending \in [Panels -> Nat]
    /\ reads \in [Panels -> Seq(Panel!Read)]

\* A disposer that is active is that of the panel which has its id, and no other
\* is; a panel that is registered has one.
Registrations ==
    /\ \A n \in DOMAIN disposers : disposers[n].active =>
          panels[panelId[disposers[n].panel]] = disposers[n].panel
    /\ \A m, n \in DOMAIN disposers :
          disposers[m].active /\ disposers[n].active /\ disposers[m].panel = disposers[n].panel => m = n
    /\ \A p \in Panel!Registered : \E n \in DOMAIN disposers : disposers[n].active /\ disposers[n].panel = p

\* The read that is pending is an unfinished one of a registered panel, and the
\* only one whose callers still wait.
PendingRead ==
    \A p \in Panels :
       /\ pending[p] # 0 =>
             p \in Panel!Registered /\ pending[p] \in DOMAIN reads[p] /\ ~reads[p][pending[p]].over
       /\ \A i \in DOMAIN reads[p] : reads[p][i].promise = "open" => i = pending[p]

\* The reads that go on for nobody, each left behind by a registration that ended.
Orphans(p) == {i \in DOMAIN reads[p] : ~reads[p][i].over /\ i # pending[p]}
Ended(p) == {n \in DOMAIN disposers : disposers[n].panel = p /\ ~disposers[n].active}
OrphansBounded == \A p \in Panels : Cardinality(Orphans(p)) <= Cardinality(Ended(p))

PanelInv == PanelTyped /\ Registrations /\ PendingRead /\ OrphansBounded

\* The reads of a panel that went on or ended can be counted.
LEMMA PanelSets ==
    ASSUME PanelTyped, NEW p \in Panels
    PROVE  /\ IsFiniteSet(Orphans(p)) /\ Cardinality(Orphans(p)) \in Nat
           /\ IsFiniteSet(Ended(p)) /\ Cardinality(Ended(p)) \in Nat
<1>1. DOMAIN reads[p] = 1 .. Len(reads[p]) /\ Len(reads[p]) \in Nat
  BY DEF PanelTyped
<1>2. DOMAIN disposers = 1 .. Len(disposers) /\ Len(disposers) \in Nat
  BY DEF PanelTyped
<1>3. IsFiniteSet(DOMAIN reads[p]) /\ IsFiniteSet(DOMAIN disposers)
  BY <1>1, <1>2, FS_Interval
<1>4. Orphans(p) \subseteq DOMAIN reads[p] /\ Ended(p) \subseteq DOMAIN disposers
  BY DEF Orphans, Ended
<1> QED
  BY <1>3, <1>4, FS_Subset, FS_CardinalityType

LEMMA PanelBegins == ASSUME Panel!Init PROVE PanelInv
<1> USE DEF Panel!Init
<1>1. PanelTyped
  BY DEF PanelTyped
<1>2. Registrations /\ PendingRead
  BY PanelConstants DEF Registrations, PendingRead, Panel!Registered, Panel!PanelIds, Panel!PanelAssumption
<1>3. ASSUME NEW p \in Panels PROVE Cardinality(Orphans(p)) <= Cardinality(Ended(p))
  <2>1. Orphans(p) = {} /\ Ended(p) = {}
    BY DEF Orphans, Ended
  <2> QED
    BY <2>1, FS_EmptySet
<1> QED
  BY <1>1, <1>2, <1>3 DEF PanelInv, OrphansBounded

LEMMA PanelRegisters == ASSUME PanelInv, NEW p \in Panels, Panel!register(p) PROVE PanelInv'
<1> USE DEF PanelInv, PanelTyped
<1> DEFINE d == [panel |-> p, active |-> TRUE]
           k == Len(disposers) + 1
<1>1. /\ panels[panelId[p]] = NoPanel /\ panels' = [panels EXCEPT ![panelId[p]] = p]
      /\ disposers' = Append(disposers, d) /\ UNCHANGED <<pending, reads>>
  BY DEF Panel!register
<1>2. d \in Disposer /\ d.panel = p /\ d.active
  BY DEF Disposer
<1> HIDE DEF d
<1>3. panelId[p] \in Panel!PanelIds /\ \A q \in Panels : panelId[q] \in Panel!PanelIds /\ q # NoPanel
  BY PanelConstants DEF Panel!PanelIds, Panel!PanelAssumption
<1>4. /\ panels' \in [Panel!PanelIds -> Panels \cup {NoPanel}] /\ panels'[panelId[p]] = p
      /\ \A id \in Panel!PanelIds \ {panelId[p]} : panels'[id] = panels[id]
  BY <1>1, <1>3
<1>5. /\ disposers' \in Seq(Disposer) /\ DOMAIN disposers' = DOMAIN disposers \cup {k} /\ k \notin DOMAIN disposers
      /\ disposers'[k] = d /\ \A n \in DOMAIN disposers : disposers'[n] = disposers[n]
  BY <1>1, <1>2
<1> HIDE DEF k
<1>6. PanelTyped'
  BY <1>1, <1>4, <1>5
<1>7. \A n \in DOMAIN disposers : disposers[n].panel \in Panels /\
         (disposers[n].active => panelId[disposers[n].panel] # panelId[p] /\ disposers[n].panel # p)
  <2>1. \A n \in DOMAIN disposers : disposers[n] \in Disposer
    OBVIOUS
  <2> QED
    BY <1>1, <1>3, <2>1 DEF Registrations, Disposer
<1>8. Registrations'
  <2>1. \A n \in DOMAIN disposers' : disposers'[n].active =>
           panels'[panelId[disposers'[n].panel]] = disposers'[n].panel
    BY <1>2, <1>3, <1>4, <1>5, <1>7 DEF Registrations
  <2>2. \A m, n \in DOMAIN disposers' :
           disposers'[m].active /\ disposers'[n].active /\ disposers'[m].panel = disposers'[n].panel => m = n
    BY <1>2, <1>5, <1>7 DEF Registrations
  <2>3. ASSUME NEW q \in Panel!Registered'
        PROVE  \E n \in DOMAIN disposers' : disposers'[n].active /\ disposers'[n].panel = q
    <3>1. CASE q = p
      BY <1>2, <1>5, <3>1
    <3>2. CASE q # p
      <4>1. q \in Panel!Registered
        BY <1>3, <1>4, <3>2 DEF Panel!Registered
      <4> QED
        BY <1>5, <4>1 DEF Registrations
    <3> QED
      BY <3>1, <3>2
  <2> QED
    BY <2>1, <2>2, <2>3 DEF Registrations
<1>9. \A q \in Panel!Registered : q \in Panel!Registered'
  BY <1>1, <1>3, <1>4 DEF Panel!Registered
<1>10. PendingRead'
  BY <1>1, <1>9 DEF PendingRead
<1>11. ASSUME NEW q \in Panels PROVE Orphans(q)' = Orphans(q) /\ Ended(q)' = Ended(q)
  BY <1>1, <1>2, <1>5 DEF Orphans, Ended
<1>12. OrphansBounded'
  BY <1>11 DEF OrphansBounded
<1> QED
  BY <1>6, <1>8, <1>10, <1>12

LEMMA PanelDisposes == ASSUME PanelInv, NEW n \in DOMAIN disposers, Panel!Dispose(n) PROVE PanelInv'
<1> USE DEF PanelInv, PanelTyped
<1>0. /\ \A m \in DOMAIN disposers : disposers[m] \in Disposer /\ disposers[m].panel \in Panels
      /\ \A q \in Panels : panelId[q] \in Panel!PanelIds /\ q # NoPanel
  <2>1. \A m \in DOMAIN disposers : disposers[m] \in Disposer
    OBVIOUS
  <2> QED
    BY <2>1, PanelConstants DEF Disposer, Panel!PanelIds, Panel!PanelAssumption
<1> PICK p \in Panels : p = disposers[n].panel
  BY <1>0
<1> PICK r : r = pending[p]
  OBVIOUS
<1>1. /\ disposers[n].active /\ panels[panelId[p]] = p /\ panels' = [panels EXCEPT ![panelId[p]] = NoPanel]
      /\ disposers' = [disposers EXCEPT ![n].active = FALSE]
      /\ Panel!CutPending(p)
  BY DEF Panel!Dispose, Panel!MayDispose
<1>2. /\ p \in Panels /\ panelId[p] \in Panel!PanelIds
      /\ \A q \in Panels : panelId[q] \in Panel!PanelIds /\ q # NoPanel
      /\ \A m \in DOMAIN disposers : disposers[m] \in Disposer /\ disposers[m].panel \in Panels
  BY <1>0
<1>3. /\ panels' \in [Panel!PanelIds -> Panels \cup {NoPanel}] /\ panels'[panelId[p]] = NoPanel
      /\ \A id \in Panel!PanelIds \ {panelId[p]} : panels'[id] = panels[id]
  BY <1>1, <1>2
<1>4. /\ disposers' \in Seq(Disposer) /\ DOMAIN disposers' = DOMAIN disposers
      /\ disposers'[n].panel = p /\ ~disposers'[n].active
      /\ \A m \in DOMAIN disposers \ {n} : disposers'[m] = disposers[m]
  <2> DEFINE d == [disposers[n] EXCEPT !.active = FALSE]
  <2>1. d \in Disposer /\ d.panel = p /\ ~d.active
    BY <1>2 DEF Disposer
  <2>2. disposers' = [disposers EXCEPT ![n] = d]
    BY <1>1
  <2> HIDE DEF d
  <2> QED
    BY <2>1, <2>2
<1>5. \A m \in DOMAIN disposers \ {n} : disposers[m].active => disposers[m].panel # p /\ panelId[disposers[m].panel] # panelId[p]
  BY <1>1, <1>2 DEF Registrations
<1>6. Registrations'
  <2>1. \A m \in DOMAIN disposers' : disposers'[m].active =>
           panels'[panelId[disposers'[m].panel]] = disposers'[m].panel
    <3> SUFFICES ASSUME NEW m \in DOMAIN disposers', disposers'[m].active
                 PROVE  panels'[panelId[disposers'[m].panel]] = disposers'[m].panel
      OBVIOUS
    <3>1. m \in DOMAIN disposers /\ m # n
      BY <1>4
    <3>2. disposers'[m] = disposers[m] /\ disposers[m].active /\ disposers[m].panel \in Panels
      BY <1>2, <1>4, <3>1
    <3>3. panelId[disposers[m].panel] # panelId[p] /\ panels[panelId[disposers[m].panel]] = disposers[m].panel
      BY <1>5, <3>1, <3>2 DEF Registrations
    <3> QED
      BY <1>2, <1>3, <3>2, <3>3
  <2>2. \A m, l \in DOMAIN disposers' :
           disposers'[m].active /\ disposers'[l].active /\ disposers'[m].panel = disposers'[l].panel => m = l
    BY <1>4 DEF Registrations
  <2>3. ASSUME NEW q \in Panel!Registered'
        PROVE  \E m \in DOMAIN disposers' : disposers'[m].active /\ disposers'[m].panel = q
    <3>1. q \in Panel!Registered /\ q # p
      BY <1>2, <1>3 DEF Panel!Registered
    <3>2. PICK m \in DOMAIN disposers : disposers[m].active /\ disposers[m].panel = q
      BY <3>1 DEF Registrations
    <3> QED
      BY <1>4, <3>1, <3>2
  <2> QED
    BY <2>1, <2>2, <2>3 DEF Registrations
<1>7. \A q \in Panels \ {p} : q \in Panel!Registered => q \in Panel!Registered'
  BY <1>1, <1>2, <1>3 DEF Panel!Registered
<1>8. ASSUME NEW q \in Panels \ {p} PROVE Ended(q)' = Ended(q)
  BY <1>4 DEF Ended
<1>9. n \notin Ended(p) /\ Ended(p)' = Ended(p) \cup {n}
  BY <1>1, <1>4 DEF Ended
<1>10. Cardinality(Ended(p)') = Cardinality(Ended(p)) + 1
  BY <1>2, <1>9, PanelSets, FS_AddElement
<1>11. CASE r = 0
  <2>1. UNCHANGED <<pending, reads>>
    BY <1>1, <1>11 DEF Panel!CutPending
  <2>2. PanelTyped' /\ PendingRead'
    BY <1>3, <1>4, <1>7, <1>11, <2>1 DEF PendingRead
  <2>3. \A q \in Panels : Orphans(q)' = Orphans(q)
    BY <2>1 DEF Orphans
  <2>4. Cardinality(Orphans(p)') <= Cardinality(Ended(p)')
    BY <1>2, <1>10, <2>3, PanelSets DEF OrphansBounded
  <2>5. OrphansBounded'
    BY <1>8, <2>3, <2>4 DEF OrphansBounded
  <2> QED
    BY <1>6, <2>2, <2>5
<1>12. CASE r # 0
  <2> DEFINE x == Panel!Settled(reads[p][r], "unregistered")
  <2>1. reads' = [reads EXCEPT ![p][r] = x] /\ pending' = [pending EXCEPT ![p] = 0]
    BY <1>1, <1>12 DEF Panel!CutPending
  <2>2. r \in DOMAIN reads[p] /\ reads[p] \in Seq(Panel!Read) /\ ~reads[p][r].over
    BY <1>2, <1>12 DEF PendingRead
  <2>3. x \in Panel!Read /\ x.promise # "open" /\ ~x.over
    <3>1. reads[p][r] \in Panel!Read
      BY <2>2
    <3> QED
      BY <2>2, <3>1 DEF Panel!Settled, Panel!Read, Panel!Promises
  <2> HIDE DEF x
  <2> DEFINE s == [reads[p] EXCEPT ![r] = x]
  <2>4. /\ s \in Seq(Panel!Read) /\ DOMAIN s = DOMAIN reads[p] /\ s[r] = x
        /\ \A i \in DOMAIN reads[p] \ {r} : s[i] = reads[p][i]
    BY <2>2, <2>3
  <2> HIDE DEF s
  <2>5. /\ reads' \in [Panels -> Seq(Panel!Read)] /\ reads'[p] = s
        /\ \A q \in Panels \ {p} : reads'[q] = reads[q]
    BY <1>2, <2>1, <2>4 DEF s
  <2>6. pending' \in [Panels -> Nat] /\ pending'[p] = 0 /\ \A q \in Panels \ {p} : pending'[q] = pending[q]
    BY <1>2, <2>1
  <2>7. PanelTyped'
    BY <1>3, <1>4, <2>5, <2>6
  <2>8. ASSUME NEW q \in Panels
        PROVE  /\ pending'[q] # 0 =>
                     q \in Panel!Registered' /\ pending'[q] \in DOMAIN reads'[q] /\ ~reads'[q][pending'[q]].over
               /\ \A i \in DOMAIN reads'[q] : reads'[q][i].promise = "open" => i = pending'[q]
    <3>1. CASE q = p
      <4>1. \A i \in DOMAIN s : s[i].promise # "open"
        BY <1>2, <2>3, <2>4 DEF PendingRead
      <4> QED
        BY <2>5, <2>6, <3>1, <4>1
    <3>2. CASE q # p
      BY <1>7, <2>5, <2>6, <3>2 DEF PendingRead
    <3> QED
      BY <3>1, <3>2
  <2>9. PendingRead'
    BY <2>8 DEF PendingRead
  <2>10. \A q \in Panels \ {p} : Orphans(q)' = Orphans(q)
    BY <2>5, <2>6 DEF Orphans
  <2>11. Orphans(p)' = Orphans(p) \cup {r} /\ r \notin Orphans(p)
    <3>1. \A i : i \in Orphans(p)' <=> i \in DOMAIN s /\ ~s[i].over /\ i # 0
      BY <2>5, <2>6 DEF Orphans
    <3>2. \A i \in DOMAIN reads[p] : i # 0
      BY <2>2
    <3>3. \A i : i \in Orphans(p) <=> i \in DOMAIN reads[p] /\ ~reads[p][i].over /\ i # r
      BY DEF Orphans
    <3>4. \A i : i \in Orphans(p)' <=> i \in Orphans(p) \/ i = r
      BY <2>2, <2>3, <2>4, <3>1, <3>2, <3>3
    <3> QED
      BY <3>3, <3>4
  <2>12. Cardinality(Orphans(p)') = Cardinality(Orphans(p)) + 1
    BY <1>2, <2>11, PanelSets, FS_AddElement
  <2>13. Cardinality(Orphans(p)') <= Cardinality(Ended(p)')
    BY <1>2, <1>10, <2>12, PanelSets DEF OrphansBounded
  <2>14. OrphansBounded'
    BY <1>8, <2>10, <2>13 DEF OrphansBounded
  <2> QED
    BY <1>6, <2>7, <2>9, <2>14
<1> QED
  BY <1>11, <1>12

\* A step of the reads, which leaves the registrations alone.
LEMMA ReadsGoOn ==
    ASSUME PanelInv, PanelTyped', UNCHANGED <<panels, disposers>>, PendingRead',
           \A p \in Panels : Orphans(p)' \subseteq Orphans(p)
    PROVE  PanelInv'
<1>1. Registrations'
  BY DEF PanelInv, Registrations, Panel!Registered
<1>2. ASSUME NEW p \in Panels PROVE Cardinality(Orphans(p)') <= Cardinality(Ended(p)')
  <2>1. Ended(p)' = Ended(p)
    BY DEF Ended
  <2>2. Cardinality(Orphans(p)') <= Cardinality(Orphans(p)) /\ Cardinality(Orphans(p)') \in Nat
    BY PanelSets, FS_Subset, FS_CardinalityType DEF PanelInv
  <2> QED
    BY <2>1, <2>2, PanelSets DEF PanelInv, OrphansBounded
<1>3. OrphansBounded'
  BY <1>2 DEF OrphansBounded
<1> QED
  BY <1>1, <1>3 DEF PanelInv

LEMMA PanelSnaps == ASSUME PanelInv, NEW c \in Callers, Panel!snapshot(c) PROVE PanelInv'
<1> USE DEF PanelInv, PanelTyped
<1>1. /\ reads' = [p \in Panels |-> IF Panel!Starts(p) THEN Append(reads[p], Panel!FreshRead) ELSE reads[p]]
      /\ pending' = [p \in Panels |-> IF Panel!Starts(p) THEN Len(reads'[p]) ELSE pending[p]]
      /\ UNCHANGED <<panels, disposers>>
  BY DEF Panel!snapshot
<1>2. Panel!FreshRead \in Panel!Read /\ ~Panel!FreshRead.over
  BY DEF Panel!FreshRead, Panel!Read, Panel!Promises
<1>3. ASSUME NEW p \in Panels, Panel!Starts(p)
      PROVE  LET k == Len(reads[p]) + 1 IN
             /\ reads'[p] \in Seq(Panel!Read) /\ DOMAIN reads'[p] = DOMAIN reads[p] \cup {k} /\ k \notin DOMAIN reads[p]
             /\ reads'[p][k] = Panel!FreshRead /\ pending'[p] = k /\ k \in Nat \ {0}
             /\ \A i \in DOMAIN reads[p] : reads'[p][i] = reads[p][i] /\ i # 0
             /\ pending[p] = 0 /\ p \in Panel!Registered
  BY <1>1, <1>2, <1>3 DEF Panel!Starts
<1>4. ASSUME NEW p \in Panels, ~Panel!Starts(p)
      PROVE  reads'[p] = reads[p] /\ pending'[p] = pending[p]
  BY <1>1, <1>4
<1>5. PanelTyped'
  <2>1. \A p \in Panels : reads'[p] \in Seq(Panel!Read) /\ pending'[p] \in Nat
    BY <1>3, <1>4
  <2> QED
    BY <1>1, <2>1
<1>6. Panel!Registered' = Panel!Registered
  BY <1>1 DEF Panel!Registered
<1>7. PendingRead'
  <2> SUFFICES ASSUME NEW p \in Panels
               PROVE  /\ pending'[p] # 0 =>
                           p \in Panel!Registered' /\ pending'[p] \in DOMAIN reads'[p] /\ ~reads'[p][pending'[p]].over
                      /\ \A i \in DOMAIN reads'[p] : reads'[p][i].promise = "open" => i = pending'[p]
    BY DEF PendingRead
  <2>1. CASE Panel!Starts(p)
    BY <1>2, <1>3, <1>6, <2>1 DEF PendingRead
  <2>2. CASE ~Panel!Starts(p)
    BY <1>4, <1>6, <2>2 DEF PendingRead
  <2> QED
    BY <2>1, <2>2
<1>8. ASSUME NEW p \in Panels PROVE Orphans(p)' \subseteq Orphans(p)
  <2>1. CASE Panel!Starts(p)
    BY <1>3, <2>1 DEF Orphans
  <2>2. CASE ~Panel!Starts(p)
    BY <1>4, <2>2 DEF Orphans
  <2> QED
    BY <2>1, <2>2
<1> QED
  BY <1>1, <1>5, <1>7, <1>8, ReadsGoOn

\* A read becomes x, which is over if it was, and waited for only if it was.
LEMMA ReadBecomes ==
    ASSUME PanelInv, NEW p \in Panels, NEW i \in DOMAIN reads[p], NEW x \in Panel!Read,
           x.promise = "open" => reads[p][i].promise = "open" /\ ~x.over,
           reads[p][i].over => x.over,
           reads' = [reads EXCEPT ![p][i] = x],
           pending' = [pending EXCEPT ![p] = IF x.over /\ @ = i THEN 0 ELSE @],
           UNCHANGED <<panels, disposers>>
    PROVE  /\ PanelInv'
           /\ \A q \in Panels : \A k \in DOMAIN reads[q] : reads'[q][k] = (IF q = p /\ k = i THEN x ELSE reads[q][k])
<1> USE DEF PanelInv, PanelTyped
<1> DEFINE s == [reads[p] EXCEPT ![i] = x]
<1>1. /\ s \in Seq(Panel!Read) /\ DOMAIN s = DOMAIN reads[p] /\ s[i] = x
      /\ \A k \in DOMAIN reads[p] \ {i} : s[k] = reads[p][k]
  OBVIOUS
<1> HIDE DEF s
<1>2. reads' \in [Panels -> Seq(Panel!Read)] /\ reads'[p] = s /\ \A q \in Panels \ {p} : reads'[q] = reads[q]
  BY <1>1 DEF s
<1>3. \A q \in Panels : \A k \in DOMAIN reads[q] : reads'[q][k] = (IF q = p /\ k = i THEN x ELSE reads[q][k])
  BY <1>1, <1>2
<1>4. /\ pending' \in [Panels -> Nat] /\ pending'[p] = (IF x.over /\ pending[p] = i THEN 0 ELSE pending[p])
      /\ \A q \in Panels \ {p} : pending'[q] = pending[q]
  OBVIOUS
<1>5. \A k \in DOMAIN reads[p] : k # 0
  OBVIOUS
<1>6. PanelTyped' /\ Panel!Registered' = Panel!Registered
  BY <1>2, <1>4 DEF Panel!Registered
<1>7. PendingRead'
  <2> SUFFICES ASSUME NEW q \in Panels
               PROVE  /\ pending'[q] # 0 =>
                           q \in Panel!Registered' /\ pending'[q] \in DOMAIN reads'[q] /\ ~reads'[q][pending'[q]].over
                      /\ \A k \in DOMAIN reads'[q] : reads'[q][k].promise = "open" => k = pending'[q]
    BY DEF PendingRead
  <2>1. CASE q = p
    <3>1. ASSUME pending'[p] # 0
          PROVE  p \in Panel!Registered' /\ pending'[p] \in DOMAIN reads'[p] /\ ~reads'[p][pending'[p]].over
      BY <1>1, <1>2, <1>4, <1>6, <3>1 DEF PendingRead
    <3>2. ASSUME NEW k \in DOMAIN reads'[p], reads'[p][k].promise = "open" PROVE k = pending'[p]
      <4>1. k \in DOMAIN reads[p] /\ reads[p][k].promise = "open" /\ k = pending[p]
        BY <1>1, <1>2, <3>2 DEF PendingRead
      <4> QED
        BY <1>1, <1>2, <1>4, <3>2, <4>1
    <3> QED
      BY <2>1, <3>1, <3>2
  <2>2. CASE q # p
    BY <1>2, <1>4, <1>6, <2>2 DEF PendingRead
  <2> QED
    BY <2>1, <2>2
<1>8. ASSUME NEW q \in Panels PROVE Orphans(q)' \subseteq Orphans(q)
  <2>1. CASE q = p
    <3> SUFFICES ASSUME NEW k \in Orphans(p)' PROVE k \in Orphans(p)
      BY <2>1
    <3>1. k \in DOMAIN s /\ ~s[k].over /\ k # pending'[p]
      BY <1>2 DEF Orphans
    <3>2. k \in DOMAIN reads[p] /\ ~reads[p][k].over /\ (k = i => ~x.over)
      BY <1>1, <3>1
    <3> QED
      BY <1>4, <1>5, <3>1, <3>2 DEF Orphans
  <2>2. CASE q # p
    BY <1>2, <1>4, <2>2 DEF Orphans
  <2> QED
    BY <2>1, <2>2
<1> QED
  BY <1>3, <1>6, <1>7, <1>8, ReadsGoOn

\* What the callers of a read are told, and when a registration ends.
PanelMoves ==
    /\ PanelInv'
    /\ \A w \in Panel!Reads :
          reads[w[1]][w[2]].promise # "data" /\ reads'[w[1]][w[2]].promise = "data"
             => w[1] \in Panel!Registered /\ ~reads[w[1]][w[2]].late
    /\ \A p \in Panel!Registered : p \notin Panel!Registered' =>
          \E n \in DOMAIN disposers :
             disposers[n].panel = p /\ disposers[n].active /\ ~disposers'[n].active

\* A read is of a panel and among its reads.
LEMMA ReadsIndexed ==
    ASSUME PanelInv, NEW w \in Panel!Reads
    PROVE  w[1] \in Panels /\ w[2] \in DOMAIN reads[w[1]]
BY DEF PanelInv, PanelTyped, Panel!Reads

LEMMA PanelStep == ASSUME PanelInv, Panel!Next PROVE PanelMoves
<1> USE DEF PanelInv, PanelTyped
<1>1. ASSUME NEW p \in Panels, Panel!register(p) PROVE PanelMoves
  <2>1. UNCHANGED reads /\ panels' = [panels EXCEPT ![panelId[p]] = p] /\ panels[panelId[p]] = NoPanel
    BY <1>1 DEF Panel!register
  <2>2. \A q \in Panel!Registered : q \in Panel!Registered'
    BY <2>1, PanelConstants DEF Panel!Registered, Panel!PanelIds, Panel!PanelAssumption
  <2> QED
    BY <1>1, <2>1, <2>2, PanelRegisters DEF PanelMoves
<1>2. ASSUME NEW n \in DOMAIN disposers, Panel!Dispose(n) PROVE PanelMoves
  <2> DEFINE p == disposers[n].panel
  <2>1. /\ disposers[n].active /\ panels[panelId[p]] = p /\ panels' = [panels EXCEPT ![panelId[p]] = NoPanel]
        /\ disposers' = [disposers EXCEPT ![n].active = FALSE]
        /\ Panel!CutPending(p)
    BY <1>2 DEF Panel!Dispose, Panel!MayDispose
  <2>2. p \in Panels /\ disposers[n] \in Disposer
    <3>1. disposers[n] \in Disposer
      OBVIOUS
    <3> QED
      BY <3>1 DEF Disposer
  <2>3. ~disposers'[n].active
    <3> DEFINE d == [disposers[n] EXCEPT !.active = FALSE]
    <3>1. ~d.active
      BY <2>2 DEF Disposer
    <3> HIDE DEF d
    <3>2. disposers' = [disposers EXCEPT ![n] = d]
      BY <2>1 DEF d
    <3> QED
      BY <3>1, <3>2
  <2>4. ASSUME NEW q \in Panel!Registered, q # p PROVE q \in Panel!Registered'
    BY <2>1, <2>4 DEF Panel!Registered, Panel!PanelIds
  <2>5. ASSUME NEW w \in Panel!Reads, reads[w[1]][w[2]].promise # "data" PROVE reads'[w[1]][w[2]].promise # "data"
    <3>1. CASE pending[p] = 0
      BY <2>1, <2>5, <3>1 DEF Panel!CutPending
    <3>2. CASE pending[p] # 0
      <4> DEFINE x == Panel!Settled(reads[p][pending[p]], "unregistered")
      <4>1. reads' = [reads EXCEPT ![p][pending[p]] = x]
        BY <2>1, <3>2 DEF Panel!CutPending
      <4>2. pending[p] \in DOMAIN reads[p] /\ reads[p][pending[p]] \in Panel!Read
        BY <2>2, <3>2 DEF PendingRead
      <4>3. x.promise = "data" => reads[p][pending[p]].promise = "data"
        BY <4>2 DEF Panel!Settled, Panel!Read
      <4>4. w[1] \in Panels /\ w[2] \in DOMAIN reads[w[1]]
        BY ReadsIndexed
      <4> HIDE DEF x
      <4>5. reads'[w[1]][w[2]] = (IF w[1] = p /\ w[2] = pending[p] THEN x ELSE reads[w[1]][w[2]])
        BY <2>2, <4>1, <4>2, <4>4
      <4> QED
        BY <2>5, <4>3, <4>5
    <3> QED
      BY <3>1, <3>2
  <2>6. PanelInv'
    BY <1>2, PanelDisposes
  <2> QED
    BY <2>1, <2>3, <2>4, <2>5, <2>6 DEF PanelMoves
<1>3. ASSUME NEW c \in Callers, Panel!snapshot(c) PROVE PanelMoves
  <2>1. UNCHANGED panels /\ reads' = [p \in Panels |-> IF Panel!Starts(p) THEN Append(reads[p], Panel!FreshRead) ELSE reads[p]]
    BY <1>3 DEF Panel!snapshot
  <2>2. ASSUME NEW w \in Panel!Reads PROVE reads'[w[1]][w[2]] = reads[w[1]][w[2]]
    <3>1. w[1] \in Panels /\ w[2] \in DOMAIN reads[w[1]] /\ reads[w[1]] \in Seq(Panel!Read)
      BY ReadsIndexed
    <3>2. Panel!FreshRead \in Panel!Read
      BY DEF Panel!FreshRead, Panel!Read, Panel!Promises
    <3>3. Append(reads[w[1]], Panel!FreshRead)[w[2]] = reads[w[1]][w[2]]
      BY <3>1, <3>2
    <3> QED
      BY <2>1, <3>1, <3>3
  <2>3. PanelInv'
    BY <1>3, PanelSnaps
  <2> QED
    BY <2>1, <2>2, <2>3 DEF PanelMoves, Panel!Registered
<1>4. ASSUME NEW c \in Callers, Panel!Returns(c) PROVE PanelMoves
  <2>1. UNCHANGED <<panels, disposers, pending, reads>>
    BY <1>4 DEF Panel!Returns
  <2>2. PanelInv'
    BY <2>1 DEF Registrations, PendingRead, OrphansBounded, Orphans, Ended, Panel!Registered
  <2> QED
    BY <2>1, <2>2 DEF PanelMoves, Panel!Registered
<1>5. ASSUME NEW w \in Panel!Reads, NEW x \in Panel!Read,
             x.promise = "open" => reads[w[1]][w[2]].promise = "open" /\ ~x.over,
             reads[w[1]][w[2]].over => x.over,
             x.promise = "data" /\ reads[w[1]][w[2]].promise # "data" =>
                reads[w[1]][w[2]].promise = "open" /\ ~reads[w[1]][w[2]].late,
             reads' = [reads EXCEPT ![w[1]][w[2]] = x],
             pending' = [pending EXCEPT ![w[1]] = IF x.over /\ @ = w[2] THEN 0 ELSE @],
             UNCHANGED <<panels, disposers>>
      PROVE  PanelMoves
  <2>1. w[1] \in Panels /\ w[2] \in DOMAIN reads[w[1]]
    BY ReadsIndexed
  <2> DEFINE p == w[1]
             i == w[2]
  <2>2. /\ PanelInv'
        /\ \A q \in Panels : \A k \in DOMAIN reads[q] : reads'[q][k] = (IF q = p /\ k = i THEN x ELSE reads[q][k])
    BY <1>5, <2>1, ReadBecomes
  <2>3. ASSUME NEW v \in Panel!Reads, reads[v[1]][v[2]].promise # "data", reads'[v[1]][v[2]].promise = "data"
        PROVE  v[1] \in Panel!Registered /\ ~reads[v[1]][v[2]].late
    <3>1. v[1] \in Panels /\ v[2] \in DOMAIN reads[v[1]]
      BY ReadsIndexed
    <3>2. v[1] = p /\ v[2] = i /\ x.promise = "data"
      BY <2>2, <2>3, <3>1
    <3>3. reads[p][i].promise = "open" /\ ~reads[p][i].late
      BY <1>5, <2>3, <3>2
    <3>4. i = pending[p] /\ i # 0
      BY <2>1, <3>3 DEF PendingRead
    <3> QED
      BY <2>1, <3>2, <3>3, <3>4 DEF PendingRead
  <2> QED
    BY <1>5, <2>2, <2>3 DEF PanelMoves, Panel!Registered
<1>6. ASSUME NEW w \in Panel!Reads, Panel!TimePasses(w[1], w[2]) PROVE PanelMoves
  <2> DEFINE r == reads[w[1]][w[2]]
             x == [r EXCEPT !.late = TRUE]
  <2>1. /\ ~r.over /\ reads' = [reads EXCEPT ![w[1]][w[2]] = x] /\ UNCHANGED <<panels, disposers, pending>>
    BY <1>6 DEF Panel!TimePasses
  <2>2. r \in Panel!Read /\ pending[w[1]] \in Nat
    BY ReadsIndexed
  <2>3. x \in Panel!Read /\ x.promise = r.promise /\ ~x.over
    BY <2>1, <2>2 DEF Panel!Read
  <2>4. pending' = [pending EXCEPT ![w[1]] = IF x.over /\ @ = w[2] THEN 0 ELSE @]
    BY <2>1, <2>3
  <2> HIDE DEF x
  <2> QED
    BY <2>1, <2>3, <2>4, <1>5
<1>7. ASSUME NEW w \in Panel!Reads, Panel!TimerFires(w[1], w[2]) PROVE PanelMoves
  <2> DEFINE r == reads[w[1]][w[2]]
             x == [r EXCEPT !.promise = "timed out"]
  <2>1. /\ r.promise = "open" /\ reads' = [reads EXCEPT ![w[1]][w[2]] = x] /\ UNCHANGED <<panels, disposers, pending>>
    BY <1>7 DEF Panel!TimerFires
  <2>2. r \in Panel!Read /\ w[1] \in Panels /\ w[2] \in DOMAIN reads[w[1]]
    BY ReadsIndexed
  <2>3. x \in Panel!Read /\ x.promise = "timed out" /\ x.over = r.over
    BY <2>2 DEF Panel!Read, Panel!Promises
  <2>4. ~r.over
    <3>1. w[2] = pending[w[1]]
      BY <2>1, <2>2 DEF PendingRead
    <3>2. reads[w[1]] \in Seq(Panel!Read) /\ w[2] # 0
      BY <2>2
    <3> QED
      BY <2>2, <3>1, <3>2 DEF PendingRead
  <2>5. pending' = [pending EXCEPT ![w[1]] = IF x.over /\ @ = w[2] THEN 0 ELSE @]
    BY <2>1, <2>3, <2>4
  <2> HIDE DEF x
  <2> QED
    BY <2>1, <2>3, <2>4, <2>5, <1>5
<1>8. ASSUME NEW w \in Panel!Reads, Panel!CallbackSettles(w[1], w[2]) PROVE PanelMoves
  <2> DEFINE r == reads[w[1]][w[2]]
  <2>1. PICK outcome \in {"data", "hidden", "error"} :
           reads' = [reads EXCEPT ![w[1]][w[2]] = [Panel!Settled(@, Panel!Outcome(@, outcome)) EXCEPT !.over = TRUE]]
    BY <1>8 DEF Panel!CallbackSettles
  <2> DEFINE y == Panel!Settled(r, Panel!Outcome(r, outcome))
             x == [y EXCEPT !.over = TRUE]
  <2>2. r \in Panel!Read
    BY ReadsIndexed
  <2>3. /\ y \in Panel!Read /\ y.promise # "open"
        /\ y.promise = "data" /\ r.promise # "data" => r.promise = "open" /\ ~r.late
    <3>1. Panel!Outcome(r, outcome) \in {"data", "hidden", "error", "timed out"} /\
            (r.late => Panel!Outcome(r, outcome) = "timed out")
      BY DEF Panel!Outcome
    <3> QED
      BY <2>2, <3>1 DEF Panel!Settled, Panel!Read, Panel!Promises
  <2> HIDE DEF y
  <2>4. x \in Panel!Read /\ x.promise = y.promise /\ x.over
    BY <2>3 DEF Panel!Read
  <2>5. reads' = [reads EXCEPT ![w[1]][w[2]] = x]
    BY <2>1 DEF y
  <2> HIDE DEF x
  <2>6. pending' = [pending EXCEPT ![w[1]] = IF x.over /\ @ = w[2] THEN 0 ELSE @]
    BY <1>8, <2>4 DEF Panel!CallbackSettles
  <2>7. UNCHANGED <<panels, disposers>>
    BY <1>8 DEF Panel!CallbackSettles
  <2> QED
    BY <2>3, <2>4, <2>5, <2>6, <2>7, <1>5
<1> QED
  BY <1>1, <1>2, <1>3, <1>4, <1>6, <1>7, <1>8 DEF Panel!Next

LEMMA PanelStays == ASSUME PanelInv, UNCHANGED panelVars PROVE PanelInv'
<1>1. UNCHANGED <<panels, disposers, pending, reads>>
  BY DEF panelVars
<1> QED
  BY <1>1 DEF PanelInv, PanelTyped, Registrations, PendingRead, OrphansBounded, Orphans, Ended, Panel!Registered

LEMMA PanelSound == ASSUME PanelInv PROVE Panel!OneReadAtATime
<1> SUFFICES ASSUME NEW p \in Panels
             PROVE  Cardinality({i \in DOMAIN reads[p] : ~reads[p][i].over})
                       <= Cardinality({n \in DOMAIN disposers : disposers[n].panel = p})
  <2>1. \A S : Panel!Cardinality(S) = Cardinality(S)
    BY DEF Panel!Cardinality, Cardinality
  <2> QED
    BY <2>1 DEF Panel!OneReadAtATime
<1> DEFINE U == {i \in DOMAIN reads[p] : ~reads[p][i].over}
           D == {n \in DOMAIN disposers : disposers[n].panel = p}
<1>0. /\ IsFiniteSet(Orphans(p)) /\ Cardinality(Orphans(p)) \in Nat
      /\ IsFiniteSet(Ended(p)) /\ Cardinality(Ended(p)) \in Nat /\ Cardinality(Orphans(p)) <= Cardinality(Ended(p))
  BY PanelSets DEF PanelInv, OrphansBounded
<1>1. IsFiniteSet(D) /\ Cardinality(D) \in Nat
  <2>1. DOMAIN disposers = 1 .. Len(disposers) /\ Len(disposers) \in Nat
    BY DEF PanelInv, PanelTyped
  <2> QED
    <3>1. IsFiniteSet(DOMAIN disposers) /\ D \subseteq DOMAIN disposers
      BY <2>1, FS_Interval
    <3> HIDE DEF D
    <3> QED
      BY <3>1, FS_Subset, FS_CardinalityType
<1>2. CASE pending[p] \notin U
  <2>1. U = Orphans(p)
    BY <1>2 DEF Orphans
  <2>2. Cardinality(Ended(p)) <= Cardinality(D)
    BY <1>1, FS_Subset DEF Ended
  <2> QED
    BY <1>0, <1>1, <2>1, <2>2
<1>3. CASE pending[p] \in U
  <2>1. U = Orphans(p) \cup {pending[p]} /\ pending[p] \notin Orphans(p)
    BY <1>3 DEF Orphans
  <2>2. Cardinality(U) = Cardinality(Orphans(p)) + 1
    BY <1>0, <2>1, FS_AddElement
  <2>3. p \in Panel!Registered
    BY <1>3 DEF PanelInv, PanelTyped, PendingRead
  <2>4. PICK n \in DOMAIN disposers : disposers[n].active /\ disposers[n].panel = p
    BY <2>3 DEF PanelInv, Registrations
  <2>5. n \notin Ended(p) /\ Ended(p) \cup {n} \subseteq D
    BY <2>4 DEF Ended
  <2>6. Cardinality(Ended(p) \cup {n}) = Cardinality(Ended(p)) + 1
    BY <1>0, <2>5, FS_AddElement
  <2>7. Cardinality(Ended(p) \cup {n}) <= Cardinality(D)
    BY <1>1, <2>5, FS_Subset
  <2> QED
    BY <1>0, <1>1, <2>2, <2>6, <2>7
<1> QED
  BY <1>2, <1>3

-----------------------------------------------------------------------------
(* The processes and requests of tool servers *)

Request == [at : {"idle", "queued", "sent", "over"}, on : Children \cup {Nobody}, own : BOOLEAN,
            scope : Nat, id : Nat]
ProcessStates == {"unused", "alive", "dead", "closed"}

ServersTyped ==
    /\ op \in [Ops -> Request] /\ ids \in [Children -> Nat]
    /\ server \in Children \cup {Nobody} /\ starting \in Children \cup {Nobody}
    /\ proc \in [Children -> ProcessStates]
    /\ heard \in [Ops -> {"nothing", "error"} \cup Ops] /\ scope \in Nat \ {0}

\* One process has the id, be it started or kept, and it was spawned.
OneOfTheId ==
    /\ server = Nobody \/ starting = Nobody
    /\ \A c \in Children : c \in {server, starting} => proc[c] # "unused"

\* A request is with a process that was spawned: one of its own, which has no
\* other, or the kept one, which counts the requests it was sent.
Numbered(o) ==
    /\ op[o].at = "idle" => op[o].id = 0 /\ ~op[o].own /\ op[o].on = Nobody
    /\ op[o].at # "idle" => op[o].on \in Children /\ proc[op[o].on] # "unused"
    /\ op[o].at = "queued" => op[o].id = 0 /\ ~op[o].own
    /\ op[o].own => op[o].on \notin {server, starting}
    /\ ~op[o].own /\ op[o].id # 0 => op[o].id < ids[op[o].on]

Requests ==
    /\ \A o \in Ops : Numbered(o)
    /\ \A o, q \in Ops : op[o].own /\ op[q].on = op[o].on => q = o
    /\ \A o, q \in Ops : op[o].on = op[q].on /\ op[o].id = op[q].id /\ op[o].id # 0 => o = q

ServersInv ==
    /\ ServersTyped /\ OneOfTheId /\ Requests
    /\ \A c \in Children : ids[c] # 0
    /\ \A o \in Ops : heard[o] \in {"nothing", "error", o}
    /\ latest \in {0, scope}

LEMMA ServersBegin == ASSUME Servers!Init PROVE ServersInv
<1> USE ServersConstants DEF Servers!Init, Servers!ServersAssumption
<1>1. ServersTyped
  BY DEF ServersTyped, Request, ProcessStates
<1>2. OneOfTheId
  BY DEF OneOfTheId
<1>3. ASSUME NEW o \in Ops
      PROVE  op[o].at = "idle" /\ op[o].id = 0 /\ ~op[o].own /\ op[o].on = Nobody
  OBVIOUS
<1>4. Requests
  BY <1>3 DEF Requests, Numbered
<1> QED
  BY <1>1, <1>2, <1>4 DEF ServersInv

\* What was cancelled in the queue is never sent.
NotSent ==
    \A o \in Ops : op[o].at = "queued" /\ op'[o].at = "sent" => heard'[o] = "nothing" /\ ~gone

\* A step that submits no request and sends none.
SameRequests ==
    /\ op' \in [Ops -> Request]
    /\ \A o \in Ops :
          /\ op'[o].on = op[o].on /\ op'[o].own = op[o].own /\ op'[o].id = op[o].id
          /\ op'[o].at = "idle" <=> op[o].at = "idle"
          /\ op'[o].at \in {"queued", "sent"} => op'[o].at = op[o].at
    /\ UNCHANGED ids

\* What callers are told is of their own request.
OwnAnswers == heard' \in [Ops -> {"nothing", "error"} \cup Ops] /\ \A o \in Ops : heard'[o] \in {"nothing", "error", o}

\* A step that only ends requests, and moves processes on, keeps the invariant.
LEMMA RequestsStay ==
    ASSUME ServersInv, SameRequests, OwnAnswers,
           proc' \in [Children -> ProcessStates],
           \A c \in Children : proc[c] # "unused" => proc'[c] # "unused",
           server' \in Children \cup {Nobody}, starting' \in Children \cup {Nobody},
           server' = Nobody \/ starting' = Nobody,
           \A c \in Children : c \in {server', starting'} =>
              proc'[c] # "unused" /\ (c \in {server, starting} \/ proc[c] = "unused"),
           scope' \in Nat \ {0}, latest' \in {0, scope'}
    PROVE  ServersInv' /\ NotSent
<1> USE DEF ServersInv, ServersTyped
<1>1. ServersTyped'
  BY DEF SameRequests, OwnAnswers
<1>2. OneOfTheId'
  BY DEF OneOfTheId
<1>3. ASSUME NEW o \in Ops PROVE Numbered(o)'
  <2>1. /\ op'[o].on = op[o].on /\ op'[o].own = op[o].own /\ op'[o].id = op[o].id
        /\ op'[o].at = "idle" <=> op[o].at = "idle"
        /\ op'[o].at = "queued" => op[o].at = "queued"
        /\ UNCHANGED ids
    BY DEF SameRequests
  <2>2. Numbered(o) /\ op[o] \in Request
    BY DEF Requests
  <2>3. op[o].own => op[o].on \in Children /\ proc[op[o].on] # "unused"
    BY <2>2 DEF Numbered, Request
  <2>4. op'[o].own => op'[o].on \notin {server', starting'}
    BY <2>1, <2>2, <2>3 DEF Numbered
  <2> QED
    BY <2>1, <2>2, <2>4 DEF Numbered
<1>4. Requests'
  BY <1>3 DEF Requests, SameRequests
<1>5. NotSent
  BY DEF SameRequests, NotSent
<1> QED
  BY <1>1, <1>2, <1>4, <1>5 DEF OwnAnswers, SameRequests

\* Requests that are over for their caller, of one process or of all.
LEMMA Ending ==
    ASSUME ServersInv, NEW over \in SUBSET Ops,
           op' = [o \in Ops |-> IF o \in over THEN [op[o] EXCEPT !.at = "over", !.scope = 0] ELSE op[o]],
           \A o \in over : op[o].at # "idle", UNCHANGED ids
    PROVE  SameRequests
<1>1. ASSUME NEW o \in Ops
      PROVE  /\ op'[o] \in Request
             /\ op'[o].on = op[o].on /\ op'[o].own = op[o].own /\ op'[o].id = op[o].id
             /\ op'[o].at = "idle" <=> op[o].at = "idle"
             /\ op'[o].at \in {"queued", "sent"} => op'[o].at = op[o].at
  <2>1. op[o] \in Request
    BY DEF ServersInv, ServersTyped
  <2>2. CASE o \in over
    <3>1. op'[o] = [op[o] EXCEPT !.at = "over", !.scope = 0]
      BY <2>2
    <3> QED
      BY <2>1, <2>2, <3>1 DEF Request
  <2>3. CASE o \notin over
    BY <2>1, <2>3
  <2> QED
    BY <2>2, <2>3
<1>2. op' \in [Ops -> Request]
  BY <1>1
<1> QED
  BY <1>1, <1>2 DEF SameRequests

\* A process that is aborted ends the requests that were sent to it.
LEMMA Aborts ==
    ASSUME ServersInv, NEW c \in Children, Servers!Aborted(c), UNCHANGED ids
    PROVE  SameRequests /\ OwnAnswers
<1> DEFINE over == {o \in Ops : op[o].on = c /\ op[o].at = "sent"}
<1>1. op' = [o \in Ops |-> IF o \in over THEN [op[o] EXCEPT !.at = "over", !.scope = 0] ELSE op[o]]
  BY DEF Servers!Aborted
<1>2. SameRequests
  <2>1. over \in SUBSET Ops /\ \A o \in over : op[o].at # "idle"
    OBVIOUS
  <2> HIDE DEF over
  <2> QED
    BY <1>1, <2>1, Ending
<1>3. OwnAnswers
  BY DEF Servers!Aborted, OwnAnswers, ServersInv, ServersTyped
<1> QED
  BY <1>2, <1>3

\* A request that ends keeps what it was.
LEMMA Overs ==
    ASSUME ServersInv, NEW o \in Ops, op[o].at # "idle", Servers!Over(o), UNCHANGED ids
    PROVE  SameRequests
<1>1. op' = [p \in Ops |-> IF p \in {o} THEN [op[p] EXCEPT !.at = "over", !.scope = 0] ELSE op[p]]
  <2>1. op \in [Ops -> Request] /\ op' = [op EXCEPT ![o].at = "over", ![o].scope = 0]
    BY DEF Servers!Over, ServersInv, ServersTyped
  <2> QED
    BY <2>1
<1> DEFINE over == {o}
<1>2. over \in SUBSET Ops /\ \A q \in over : op[q].at # "idle"
  OBVIOUS
<1>3. op' = [p \in Ops |-> IF p \in over THEN [op[p] EXCEPT !.at = "over", !.scope = 0] ELSE op[p]]
  BY <1>1
<1> HIDE DEF over
<1> QED
  BY <1>2, <1>3, Ending

\* Nothing happens to the requests.
LEMMA Unmoved ==
    ASSUME ServersInv, UNCHANGED <<op, ids>>
    PROVE  SameRequests
BY DEF SameRequests, ServersInv, ServersTyped

\* Nobody is answered, or with an error, or with the answer to its own request.
LEMMA Untold ==
    ASSUME ServersInv
    PROVE  /\ UNCHANGED heard => OwnAnswers
           /\ \A o \in Ops : \A a \in {"nothing", "error", o} : heard' = [heard EXCEPT ![o] = a] => OwnAnswers
BY DEF OwnAnswers, ServersInv, ServersTyped

\* What happens to the processes.
LEMMA ProcessesGo ==
    ASSUME ServersInv, NEW c \in Children,
           Servers!Goes(c) \/ Servers!Exit(c) \/ Servers!Close(c) \/ Servers!Start(c) \/ Servers!Stop(c)
    PROVE  ServersInv' /\ NotSent
<1> USE DEF Servers!opVars, Servers!procVars
<1>1. ServersTyped /\ OneOfTheId /\ latest \in {0, scope}
  BY DEF ServersInv
<1>2. CASE Servers!Close(c)
  <2>1. /\ proc[c] = "dead" /\ proc' = [proc EXCEPT ![c] = "closed"] /\ server' \in {server, Nobody}
        /\ UNCHANGED <<starting, ids, scope, latest>> /\ Servers!Aborted(c)
    BY <1>2 DEF Servers!Close
  <2>2. SameRequests /\ OwnAnswers
    BY <2>1, Aborts
  <2>3. proc' \in [Children -> ProcessStates] /\ \A d \in Children : proc[d] # "unused" => proc'[d] # "unused"
    BY <1>1, <2>1 DEF ServersTyped, ProcessStates
  <2>4. \A d \in Children : d \in {server', starting'} => d \in {server, starting} /\ proc'[d] # "unused"
    BY <1>1, <2>1, <2>3, ServersConstants DEF OneOfTheId, Servers!ServersAssumption
  <2> QED
    BY <1>1, <2>1, <2>2, <2>3, <2>4, RequestsStay DEF ServersTyped, OneOfTheId
<1>3. CASE Servers!Stop(c)
  <2>1. UNCHANGED <<proc, server, starting, ids, scope, latest>> /\ Servers!Aborted(c)
    BY <1>3 DEF Servers!Stop
  <2>2. SameRequests /\ OwnAnswers
    BY <2>1, Aborts
  <2> QED
    BY <1>1, <2>1, <2>2, RequestsStay DEF ServersTyped, OneOfTheId
<1>4. CASE ~Servers!Close(c) /\ ~Servers!Stop(c)
  <2>1. UNCHANGED <<op, ids, heard, scope, latest>>
    BY <1>4 DEF Servers!Goes, Servers!TerminateGoesOn, Servers!Initialized, Servers!StartFails, Servers!StartOver,
                Servers!Stopped, Servers!Exit, Servers!Start
  <2>2. SameRequests /\ OwnAnswers
    BY <2>1, Unmoved, Untold
  <2>3. CASE Servers!Exit(c)
    <3>1. proc[c] = "alive" /\ proc' = [proc EXCEPT ![c] = "dead"] /\ UNCHANGED <<server, starting>>
      BY <2>3 DEF Servers!Exit, Servers!Running
    <3>2. proc' \in [Children -> ProcessStates] /\ \A d \in Children : proc[d] # "unused" => proc'[d] # "unused"
      BY <1>1, <3>1 DEF ServersTyped, ProcessStates
    <3> QED
      BY <1>1, <2>1, <2>2, <3>1, <3>2, RequestsStay DEF ServersTyped, OneOfTheId
  <2>4. CASE Servers!Start(c)
    <3>1. /\ proc[c] = "unused" /\ proc' = [proc EXCEPT ![c] = "alive"] /\ server = Nobody /\ starting = Nobody
          /\ server' = Nobody /\ starting' = c
      BY <2>4 DEF Servers!Start, Servers!IdFree, Servers!Spawned
    <3>2. /\ proc' \in [Children -> ProcessStates] /\ proc'[c] = "alive"
          /\ \A d \in Children : proc[d] # "unused" => proc'[d] # "unused"
      BY <1>1, <3>1 DEF ServersTyped, ProcessStates
    <3>3. \A d \in Children : d \in {server', starting'} => d = c
      BY <3>1, ServersConstants DEF Servers!ServersAssumption
    <3> QED
      BY <1>1, <2>1, <2>2, <3>1, <3>2, <3>3, RequestsStay DEF ServersTyped
  <2>5. CASE ~Servers!Exit(c) /\ ~Servers!Start(c)
    <3>1. /\ UNCHANGED proc
          /\ server' = server \/ (server' = c /\ starting = c /\ starting' = Nobody)
          /\ starting' = starting \/ starting' = Nobody
      BY <1>4, <2>5 DEF Servers!Goes, Servers!TerminateGoesOn, Servers!Initialized, Servers!StartFails,
                Servers!StartOver, Servers!Stopped
    <3>2. \A d \in Children : d \in {server', starting'} => d \in {server, starting}
      BY <3>1, ServersConstants DEF Servers!ServersAssumption
    <3>3. server' = Nobody \/ starting' = Nobody
      BY <1>1, <3>1 DEF OneOfTheId
    <3> QED
      BY <1>1, <2>1, <2>2, <3>1, <3>2, <3>3, RequestsStay DEF ServersTyped, OneOfTheId
  <2> QED
    BY <2>3, <2>4, <2>5
<1> QED
  BY <1>2, <1>3, <1>4

\* A request is made, of a process that is not the own one of another.
LEMMA Asked ==
    ASSUME ServersInv, NEW o \in Ops, NEW r \in Request, NEW c \in Children,
           op[o].at = "idle" \/ (op[o].at = "queued" /\ op[o].on = c /\ ~r.own /\ heard[o] = "nothing" /\ ~gone),
           op' = [op EXCEPT ![o] = r], r.on = c, r.at \in {"queued", "sent"},
           r.at = "queued" => r.id = 0 /\ ~r.own,
           r.own => c \notin {server, starting} /\ proc[c] = "unused",
           ~r.own => (proc[c] # "unused" /\ c \in {server, starting}) \/ op[o].on = c,
           r.id # 0 /\ ~r.own => r.id = ids[c],
           ids' = IF r.id # 0 /\ ~r.own THEN [ids EXCEPT ![c] = ids[c] + 1] ELSE ids,
           proc' \in [Children -> ProcessStates], \A d \in Children : proc[d] # "unused" => proc'[d] # "unused",
           proc'[c] # "unused",
           UNCHANGED <<server, starting, heard, scope, latest>>
    PROVE  ServersInv' /\ NotSent
<1> USE DEF ServersInv, ServersTyped
<1>1. /\ op' \in [Ops -> Request] /\ op'[o] = r /\ \A q \in Ops \ {o} : op'[q] = op[q]
  OBVIOUS
<1>2. /\ ids' \in [Children -> Nat] /\ \A d \in Children : ids[d] <= ids'[d] /\ ids'[d] # 0
      /\ r.id # 0 /\ ~r.own => ids'[c] = ids[c] + 1
  OBVIOUS
<1>3. ServersTyped' /\ OneOfTheId' /\ (\A q \in Ops : heard'[q] \in {"nothing", "error", q}) /\ latest' \in {0, scope'}
  BY <1>1, <1>2 DEF OneOfTheId
<1>4. ASSUME NEW q \in Ops \ {o}, op[q].on = c
      PROVE  ~op[q].own /\ ~r.own /\ (op[q].id # 0 => op[q].id < ids[c])
  <2>1. Numbered(q) /\ Numbered(o) /\ op[q] \in Request
    BY DEF Requests
  <2>2. op[q].at # "idle" /\ proc[c] # "unused"
    BY <1>4, <2>1, ServersConstants DEF Numbered, Request, Servers!ServersAssumption
  <2>3. ~op[q].own
    BY <1>4, <2>1, <2>2 DEF Numbered, Requests
  <2> QED
    BY <1>4, <2>1, <2>2, <2>3 DEF Numbered
<1>5. Numbered(o)'
  <2>1. r.own => op'[o].on \notin {server', starting'}
    BY <1>1
  <2> QED
    BY <1>1, <1>2, <2>1 DEF Numbered
<1>6. ASSUME NEW q \in Ops \ {o} PROVE Numbered(q)'
  <2>1. Numbered(q) /\ op'[q] = op[q] /\ op[q] \in Request
    BY <1>1 DEF Requests
  <2>2. ~op[q].own /\ op[q].id # 0 => op[q].id < ids'[op[q].on]
    <3>1. op[q].id # 0 => op[q].on \in Children
      BY <2>1 DEF Numbered, Request
    <3> QED
      BY <1>2, <2>1, <3>1 DEF Numbered, Request
  <2> QED
    BY <2>1, <2>2 DEF Numbered
<1>7. \A p, q \in Ops : op'[p].own /\ op'[q].on = op'[p].on => q = p
  BY <1>1, <1>4 DEF Requests
<1>8. ASSUME NEW p \in Ops, NEW q \in Ops, op'[p].on = op'[q].on, op'[p].id = op'[q].id, op'[p].id # 0
      PROVE  p = q
  <2>1. CASE p # o /\ q # o
    BY <1>1, <1>8, <2>1 DEF Requests
  <2>2. CASE p # o /\ q = o
    BY <1>1, <1>4, <1>8, <2>2
  <2>3. CASE p = o /\ q # o
    BY <1>1, <1>4, <1>8, <2>3
  <2> QED
    BY <2>1, <2>2, <2>3
<1>9. Requests'
  BY <1>5, <1>6, <1>7, <1>8 DEF Requests
<1>10. NotSent
  BY <1>1 DEF NotSent
<1> QED
  BY <1>2, <1>3, <1>9, <1>10

LEMMA ServersStep == ASSUME ServersInv, Servers!Next PROVE ServersInv' /\ NotSent
<1> USE DEF Servers!opVars, Servers!procVars
<1>0. ServersTyped /\ OneOfTheId /\ Requests /\ latest \in {0, scope}
  BY DEF ServersInv
<1>1. ASSUME NEW o \in Ops, Servers!Submit(o) PROVE ServersInv' /\ NotSent
  <2> DEFINE r == [at |-> "queued", on |-> server, own |-> FALSE, scope |-> scope, id |-> 0]
  <2>1. /\ op[o].at = "idle" /\ server # Nobody /\ op' = [op EXCEPT ![o] = r]
        /\ UNCHANGED <<server, starting, proc, heard, ids, scope, latest>>
    BY <1>1 DEF Servers!Submit
  <2>2. server \in Children /\ proc[server] # "unused"
    BY <1>0, <2>1 DEF ServersTyped, OneOfTheId
  <2>3. r \in Request /\ r.on = server /\ r.at = "queued" /\ r.id = 0 /\ ~r.own
    BY <1>0, <2>2 DEF Request, ServersTyped
  <2> HIDE DEF r
  <2> QED
    BY <1>0, <2>1, <2>2, <2>3, Asked DEF ServersTyped
<1>2. ASSUME NEW o \in Ops, NEW c \in Children, Servers!OneShot(o, c) PROVE ServersInv' /\ NotSent
  <2> DEFINE r == [at |-> "sent", on |-> c, own |-> TRUE, scope |-> scope, id |-> 2]
  <2>1. /\ op[o].at = "idle" /\ proc[c] = "unused" /\ op' = [op EXCEPT ![o] = r]
        /\ proc' = [proc EXCEPT ![c] = "alive"]
        /\ UNCHANGED <<server, starting, heard, ids, scope, latest>>
    BY <1>2 DEF Servers!OneShot, Servers!Spawned
  <2>2. /\ proc' \in [Children -> ProcessStates] /\ proc'[c] = "alive"
        /\ \A d \in Children : proc[d] # "unused" => proc'[d] # "unused"
    BY <1>0, <2>1 DEF ServersTyped, ProcessStates
  <2>3. r \in Request /\ r.on = c /\ r.at = "sent" /\ r.own
    BY <1>0 DEF Request, ServersTyped
  <2>4. c \notin {server, starting}
    BY <1>0, <2>1 DEF OneOfTheId
  <2> HIDE DEF r
  <2> QED
    BY <2>1, <2>2, <2>3, <2>4, Asked
<1>3. ASSUME NEW o \in Ops, Servers!Turn(o) PROVE ServersInv' /\ NotSent
  <2>1. op[o].at = "queued" /\ UNCHANGED <<server, starting, proc, scope, latest>>
    BY <1>3 DEF Servers!Turn
  <2>2. Numbered(o) /\ op[o] \in Request
    BY <1>0 DEF Requests, ServersTyped
  <2>3. op[o].on \in Children /\ proc[op[o].on] # "unused" /\ ~op[o].own
    BY <2>1, <2>2 DEF Numbered
  <2>4. CASE Servers!Sendable(o)
    <3> DEFINE c == op[o].on
               r == [op[o] EXCEPT !.at = "sent", !.id = ids[c]]
    <3>1. /\ op' = [op EXCEPT ![o] = r] /\ ids' = [ids EXCEPT ![c] = ids[c] + 1] /\ UNCHANGED heard
      BY <1>0, <1>3, <2>4 DEF Servers!Turn, Servers!NextId, ServersTyped
    <3>2. heard[o] = "nothing" /\ ~gone
      BY <2>4 DEF Servers!Sendable
    <3>3. ids[c] \in Nat /\ ids[c] # 0
      BY <1>0, <2>3 DEF ServersTyped, ServersInv
    <3>4. r \in Request /\ r.on = c /\ r.at = "sent" /\ ~r.own /\ r.id = ids[c]
      BY <2>2, <2>3, <3>3 DEF Request
    <3> HIDE DEF r
    <3> QED
      BY <1>0, <2>1, <2>3, <3>1, <3>2, <3>3, <3>4, Asked DEF ServersTyped
  <2>5. CASE ~Servers!Sendable(o)
    <3>1. /\ Servers!Over(o) /\ UNCHANGED ids
          /\ heard' = [heard EXCEPT ![o] = IF @ = "nothing" THEN "error" ELSE @]
      BY <1>3, <2>5 DEF Servers!Turn
    <3>2. OwnAnswers
      <4>1. \E a \in {"nothing", "error", o} : heard' = [heard EXCEPT ![o] = a]
        BY <3>1 DEF ServersInv
      <4> QED
        BY <4>1, Untold
    <3>3. SameRequests
      BY <2>1, <3>1, Overs
    <3> QED
      BY <1>0, <2>1, <3>2, <3>3, RequestsStay DEF ServersTyped, OneOfTheId
  <2> QED
    BY <2>4, <2>5
<1>4. ASSUME NEW o \in Ops, Servers!Answer(o) PROVE ServersInv' /\ NotSent
  <2>1. PICK p \in Ops : /\ op[p].on = op[o].on /\ op[p].at = "sent" /\ op[p].id = op[o].id
                         /\ Servers!Over(p) /\ heard' = [heard EXCEPT ![p] = IF Servers!Current(p) THEN o ELSE "error"]
                         /\ Servers!Publish(p)
    BY <1>4 DEF Servers!Answer
  <2>2. p = o
    BY <1>0, <1>4, <2>1 DEF Requests, Servers!Answer
  <2>3. UNCHANGED <<server, starting, proc, ids, scope>> /\ latest' \in {0, scope'}
    BY <1>0, <1>4, <2>1 DEF Servers!Answer, Servers!Publish, Servers!Current
  <2>4. OwnAnswers
    BY <2>1, <2>2, Untold
  <2>5. SameRequests
    BY <2>1, <2>3, Overs
  <2> QED
    BY <1>0, <2>3, <2>4, <2>5, RequestsStay DEF ServersTyped, OneOfTheId
<1>5. ASSUME NEW o \in Ops, Servers!Fails(o) PROVE ServersInv' /\ NotSent
  <2>1. /\ op[o].at = "sent" /\ Servers!Over(o) /\ heard' = [heard EXCEPT ![o] = "error"]
        /\ UNCHANGED <<server, starting, proc, ids, scope, latest>>
    BY <1>5 DEF Servers!Fails
  <2>2. SameRequests /\ OwnAnswers
    BY <2>1, Overs, Untold
  <2> QED
    BY <1>0, <2>1, <2>2, RequestsStay DEF ServersTyped, OneOfTheId
<1>6. ASSUME NEW o \in Ops, Servers!OneShotEnds(o) \/ Servers!Cancel(o) PROVE ServersInv' /\ NotSent
  <2>1. /\ heard' = heard \/ heard' = [heard EXCEPT ![o] = "error"]
        /\ UNCHANGED <<server, starting, proc, op, ids, scope, latest>>
    BY <1>6 DEF Servers!OneShotEnds, Servers!Cancel
  <2>2. SameRequests /\ OwnAnswers
    BY <2>1, Unmoved, Untold
  <2> QED
    BY <1>0, <2>1, <2>2, RequestsStay DEF ServersTyped, OneOfTheId
<1>7. CASE Servers!SwitchScope
  <2>1. scope' = scope + 1 /\ latest' = 0 /\ UNCHANGED <<server, starting, proc, op, ids, heard>>
    BY <1>7 DEF Servers!SwitchScope
  <2>2. SameRequests /\ OwnAnswers /\ scope' \in Nat \ {0}
    BY <1>0, <2>1, Unmoved, Untold DEF ServersTyped
  <2> QED
    BY <1>0, <2>1, <2>2, RequestsStay DEF ServersTyped, OneOfTheId
<1>8. CASE Servers!Dispose
  <2> DEFINE over == {o \in Ops : op[o].at = "sent"}
  <2>1. /\ server' = Nobody /\ UNCHANGED <<starting, proc, ids, scope, latest>>
        /\ op' = [o \in Ops |-> IF o \in over THEN [op[o] EXCEPT !.at = "over", !.scope = 0] ELSE op[o]]
    BY <1>8 DEF Servers!Dispose
  <2>2. SameRequests
    <3>1. over \in SUBSET Ops /\ \A o \in over : op[o].at # "idle"
      OBVIOUS
    <3> HIDE DEF over
    <3> QED
      BY <2>1, <3>1, Ending
  <2>3. OwnAnswers
    BY <1>8 DEF Servers!Dispose, OwnAnswers, ServersInv, ServersTyped
  <2>4. \A c \in Children : c \in {server', starting'} => c \in {server, starting}
    BY <2>1, ServersConstants DEF Servers!ServersAssumption
  <2> QED
    BY <1>0, <2>1, <2>2, <2>3, <2>4, RequestsStay DEF ServersTyped, OneOfTheId
<1>9. ASSUME NEW c \in Children,
             Servers!Goes(c) \/ Servers!Exit(c) \/ Servers!Close(c) \/ Servers!Start(c) \/ Servers!Stop(c)
      PROVE  ServersInv' /\ NotSent
  BY <1>9, ProcessesGo
<1> QED
  BY <1>1, <1>2, <1>3, <1>4, <1>5, <1>6, <1>7, <1>8, <1>9 DEF Servers!Next, Servers!Proceeds

LEMMA ServersStay == ASSUME ServersInv, UNCHANGED serversVars PROVE ServersInv'
<1>1. UNCHANGED <<server, starting, proc, ids, op, heard, scope, latest>>
  BY DEF serversVars
<1> QED
  BY <1>1 DEF ServersInv, ServersTyped, OneOfTheId, Requests, Numbered

LEMMA ServersSound == ASSUME ServersInv PROVE Servers!AnswersMatch /\ Servers!OneProcess
<1>1. Servers!AnswersMatch
  BY DEF ServersInv, Servers!AnswersMatch
<1>2. Servers!OneProcess
  BY ServersConstants DEF ServersInv, OneOfTheId, Servers!OneProcess, Servers!ServersAssumption
<1> QED
  BY <1>1, <1>2

-----------------------------------------------------------------------------
(* A command in a container *)

Places == {"idle", "inspecting", "preparing", "running", "removing", "waiting", "cleaning"}

\* A client that has ended by itself leaves a container that has, too; a call
\* that is answered about its run has no container that runs, nor a client that
\* could still start one.
SandboxInv ==
    /\ pc \in Places /\ (sandboxGone => cancelled)
    /\ pc \in {"inspecting", "preparing"} => client = "none" /\ container = "none"
    /\ client = "exited" => container \in {"ended", "removed"}
    /\ pc \in {"removing", "waiting"} => client \in {"exited", "killed"}
    /\ pc = "cleaning" => answer \in Sandbox!AboutTheRun \cup {"unconfirmed", "unread"}
    /\ pc = "idle" => answer \in Sandbox!AboutTheRun \cup {"none", "unconfirmed", "unread", "uncleaned"}
    /\ pc \in {"cleaning", "idle"} /\ answer \in Sandbox!AboutTheRun =>
          container \notin {"starting", "running"} /\ client \in {"none", "exited", "killed"}

LEMMA SandboxBegins == ASSUME Sandbox!Init PROVE SandboxInv
BY DEF Sandbox!Init, SandboxInv, Sandbox!AboutTheRun, Places

LEMMA SandboxStep == ASSUME SandboxInv, Sandbox!Next PROVE SandboxInv'
<1> USE DEF SandboxInv, Sandbox!AboutTheRun, Places, Sandbox!call, Sandbox!docker
<1>1. CASE Sandbox!Execute
  BY <1>1 DEF Sandbox!Execute
<1>2. CASE Sandbox!Inspected
  BY <1>2 DEF Sandbox!Inspected, Sandbox!Answer
<1>3. CASE Sandbox!Run
  BY <1>3 DEF Sandbox!Run, Sandbox!Answer
<1>4. CASE Sandbox!Settled
  BY <1>4 DEF Sandbox!Settled, Sandbox!Suspect
<1>5. CASE Sandbox!RemoveOwned
  <2>1. Sandbox!Refused \in Sandbox!AboutTheRun
    BY DEF Sandbox!Refused
  <2> QED
    BY <1>5, <2>1 DEF Sandbox!RemoveOwned
<1>6. CASE Sandbox!Removal
  <2>1. Sandbox!Refused \in Sandbox!AboutTheRun
    BY DEF Sandbox!Refused
  <2> QED
    BY <1>6, <2>1 DEF Sandbox!Removal
<1>7. CASE Sandbox!Clean
  BY <1>7 DEF Sandbox!Clean, Sandbox!Answer
<1>8. CASE Sandbox!Kill
  BY <1>8 DEF Sandbox!Kill
<1>9. CASE Sandbox!Cancel \/ Sandbox!Dispose \/ Sandbox!Switch
  BY <1>9 DEF Sandbox!Cancel, Sandbox!Dispose, Sandbox!Switch
<1>10. CASE Sandbox!ClientAsks
  BY <1>10 DEF Sandbox!ClientAsks
<1>11. CASE Sandbox!Daemon
  BY <1>11 DEF Sandbox!Daemon
<1>12. CASE Sandbox!IdUnread
  BY <1>12 DEF Sandbox!IdUnread
<1> QED
  BY <1>1, <1>2, <1>3, <1>4, <1>5, <1>6, <1>7, <1>8, <1>9, <1>10, <1>11, <1>12 DEF Sandbox!Next, Sandbox!Tool

LEMMA SandboxStays == ASSUME SandboxInv, UNCHANGED sandboxVars PROVE SandboxInv'
BY DEF sandboxVars, SandboxInv

LEMMA SandboxSound == ASSUME SandboxInv PROVE Sandbox!NothingRuns
BY DEF SandboxInv, Sandbox!NothingRuns, Sandbox!AboutTheRun

\* The step in which a container is asked for, and that in which a run is reported.
LEMMA SandboxActs ==
    ASSUME SandboxInv, Sandbox!Next
    PROVE  /\ client = "none" /\ client' = "creating" => ~sandboxGone /\ ~cancelled /\ for = sandboxSession
           /\ pc # "idle" /\ pc' = "idle" /\ answer' \in {"completed", "failed", "timed_out"} =>
                ~cancelled /\ for = sandboxSession
<1> USE DEF Sandbox!call, Sandbox!docker
<1>1. client = "none" /\ client' = "creating" => ~sandboxGone /\ ~cancelled /\ for = sandboxSession
  BY DEF SandboxInv, Sandbox!Next, Sandbox!Tool, Sandbox!Execute, Sandbox!Inspected, Sandbox!Run, Sandbox!MayRun,
         Sandbox!Answer, Sandbox!Current, Sandbox!Settled, Sandbox!IdUnread, Sandbox!RemoveOwned, Sandbox!Removal, Sandbox!Clean, Sandbox!Kill,
         Sandbox!Cancel, Sandbox!Dispose, Sandbox!Switch, Sandbox!ClientAsks, Sandbox!Daemon
<1>2. ASSUME pc # "idle", pc' = "idle", answer' \in {"completed", "failed", "timed_out"}
      PROVE  ~cancelled /\ for = sandboxSession
  <2>1. Sandbox!Clean
    BY <1>2 DEF Sandbox!Next, Sandbox!Tool, Sandbox!Execute, Sandbox!Inspected, Sandbox!Answer, Sandbox!Run,
         Sandbox!Settled, Sandbox!IdUnread, Sandbox!RemoveOwned, Sandbox!Removal, Sandbox!Kill,
         Sandbox!Cancel, Sandbox!Dispose, Sandbox!Switch, Sandbox!ClientAsks, Sandbox!Daemon
  <2> QED
    BY <1>2, <2>1 DEF Sandbox!Clean, Sandbox!Answer, Sandbox!Current, SandboxInv
<1> QED
  BY <1>1, <1>2

-----------------------------------------------------------------------------
(* A rewind of the session *)

\* What waits is for a session there was, and for no plugin that is gone.
RewindInv ==
    /\ rewindSession \in Nat \ {0} /\ rewindQueued \in Nat /\ rewindIdle \in BOOLEAN
    /\ Rewind!OneRewind
    /\ due => idleWait # 0
    /\ rewindDisposed => rewindQueued = 0

LEMMA RewindBegins == ASSUME Rewind!Init PROVE RewindInv
BY DEF Rewind!Init, RewindInv, Rewind!OneRewind, Rewind!None

\* What is left of the queue when a stale request is dropped.
LEMMA RewindKept ==
    ASSUME RewindInv
    PROVE  /\ Rewind!Kept \in Nat /\ Rewind!Kept \in {0, rewindQueued}
           /\ Rewind!Kept # 0 => Rewind!Kept = rewindSession /\ Rewind!KeptStatus = rewindStatus
           /\ rewindQueued = 0 => Rewind!KeptStatus = rewindStatus
           /\ Rewind!Kept = 0 /\ rewindQueued # 0 => Rewind!KeptStatus = "cancelled"
BY DEF RewindInv, Rewind!Kept, Rewind!KeptStatus, Rewind!Stale

\* A queue that only loses a stale request.
LEMMA RewindDrops ==
    ASSUME RewindInv, rewindSession' \in Nat \ {0}, rewindIdle' \in BOOLEAN, rewindDisposed' => rewindDisposed,
           due' => idleWait' # 0,
           rewindQueued' = Rewind!Kept, rewindStatus' = Rewind!KeptStatus, UNCHANGED rewindActive
    PROVE  RewindInv'
BY RewindKept DEF RewindInv, Rewind!OneRewind

\* A queued rewind starts, in its own session and at rest, or is dropped.
LEMMA RewindStarts ==
    ASSUME RewindInv, NEW rest \in BOOLEAN, Rewind!StartQueued(rest),
           UNCHANGED <<rewindSession, rewindDisposed>>, rewindIdle' \in BOOLEAN, due' => idleWait' # 0
    PROVE  RewindInv' /\ (rewindActive' # rewindActive => rewindActive'.for = rewindActive'.in /\ rest)
<1>1. CASE Rewind!Kept # 0 /\ Rewind!Startable(rest)
  <2>1. /\ rewindQueued' = 0 /\ rewindStatus' = "running" /\ rest
        /\ rewindActive' = [for |-> Rewind!Kept, in |-> rewindSession] /\ rewindActive' # Rewind!None
        /\ Rewind!Kept = rewindSession
    BY <1>1, RewindKept DEF Rewind!StartQueued, Rewind!Startable, Rewind!None, RewindInv
  <2> QED
    BY <2>1 DEF RewindInv, Rewind!OneRewind
<1>2. CASE ~(Rewind!Kept # 0 /\ Rewind!Startable(rest))
  BY <1>2, RewindDrops DEF Rewind!StartQueued, RewindInv
<1> QED
  BY <1>1, <1>2

\* The wait for the agent's rest starts nothing.
LEMMA RewindWaits ==
    ASSUME RewindInv, Rewind!WaitForIdle, rewindIdle' \in BOOLEAN, UNCHANGED <<rewindSession, rewindDisposed, due>>
    PROVE  RewindInv' /\ UNCHANGED rewindActive
<1>1. due' => idleWait' # 0
  BY DEF Rewind!WaitForIdle, RewindInv
<1> QED
  BY <1>1, RewindDrops DEF Rewind!WaitForIdle, RewindInv

\* Every step keeps the invariant and starts a rewind only in its place.
LEMMA RewindStep ==
    ASSUME RewindInv, Rewind!Next
    PROVE  /\ RewindInv'
           /\ rewindActive' # rewindActive /\ rewindActive' # Rewind!None =>
                 rewindActive'.for = rewindActive'.in /\ rewindIdle' /\ ~rewindDisposed'
<1> USE DEF Rewind!env
<1>1. CASE Rewind!RunStarts
  BY <1>1 DEF Rewind!RunStarts, RewindInv, Rewind!OneRewind
<1>2. CASE Rewind!AgentEnd
  <2>1. UNCHANGED <<rewindSession, rewindDisposed, due>> /\ rewindIdle' \in BOOLEAN /\ Rewind!WaitForIdle
    BY <1>2 DEF Rewind!AgentEnd, RewindInv
  <2> QED
    BY <2>1, RewindWaits
<1>3. CASE Rewind!Settled
  <2>1. UNCHANGED <<rewindSession, rewindDisposed, due>> /\ rewindIdle' \in BOOLEAN
    BY <1>3 DEF Rewind!Settled
  <2>2. CASE rewindDisposed
    BY <1>3, <2>1, <2>2 DEF Rewind!Settled, RewindInv, Rewind!OneRewind
  <2>3. CASE ~rewindDisposed /\ Rewind!Kept # 0 /\ ~rewindIdle'
    BY <1>3, <2>1, <2>3, RewindWaits DEF Rewind!Settled
  <2>4. CASE ~rewindDisposed /\ ~(Rewind!Kept # 0 /\ ~rewindIdle')
    <3>1. Rewind!StartQueued(rewindIdle') /\ (due' => idleWait' # 0)
      BY <1>3, <2>1, <2>4 DEF Rewind!Settled, RewindInv
    <3>2. RewindInv' /\ (rewindActive' # rewindActive => rewindActive'.for = rewindActive'.in /\ rewindIdle')
      BY <2>1, <3>1, RewindStarts
    <3> QED
      BY <2>1, <2>4, <3>2
  <2> QED
    BY <2>2, <2>3, <2>4
<1>4. CASE Rewind!Switch
  BY <1>4 DEF Rewind!Switch, RewindInv, Rewind!OneRewind
<1>5. CASE Rewind!Execute
  <2>1. ~rewindDisposed /\ rewindActive = Rewind!None /\ Rewind!Kept = 0 /\ UNCHANGED <<rewindSession, rewindIdle, rewindDisposed, due, idleWait>>
    BY <1>5 DEF Rewind!Execute, Rewind!Busy
  <2>2. CASE rewindIdle
    <3>1. /\ rewindActive' = [for |-> rewindSession, in |-> rewindSession] /\ rewindActive' # Rewind!None
          /\ rewindQueued' = 0 /\ rewindStatus' = "running"
      BY <1>5, <2>2 DEF Rewind!Execute, Rewind!None, RewindInv
    <3> QED
      BY <2>1, <2>2, <3>1 DEF RewindInv, Rewind!OneRewind
  <2>3. CASE ~rewindIdle
    BY <1>5, <2>1, <2>3 DEF Rewind!Execute, RewindInv, Rewind!OneRewind
  <2> QED
    BY <2>2, <2>3
<1>6. CASE Rewind!AbortCall
  BY <1>6 DEF Rewind!AbortCall, RewindInv, Rewind!OneRewind
<1>7. CASE Rewind!IdleDue
  BY <1>7 DEF Rewind!IdleDue, RewindInv, Rewind!OneRewind
<1>8. CASE Rewind!IdleResolves
  <2>1. /\ due' = FALSE /\ UNCHANGED <<rewindSession, rewindIdle, rewindDisposed>>
    BY <1>8 DEF Rewind!IdleResolves
  <2>2. CASE ~rewindDisposed /\ Rewind!StartQueued(rewindIdle)
    <3>1. rewindIdle \in BOOLEAN /\ rewindIdle' \in BOOLEAN
      BY <2>1 DEF RewindInv
    <3>2. RewindInv' /\ (rewindActive' # rewindActive => rewindActive'.for = rewindActive'.in /\ rewindIdle)
      BY <2>1, <2>2, <3>1, RewindStarts
    <3> QED
      BY <2>1, <2>2, <3>2
  <2>3. CASE ~(~rewindDisposed /\ Rewind!StartQueued(rewindIdle))
    BY <1>8, <2>1, <2>3 DEF Rewind!IdleResolves, RewindInv, Rewind!OneRewind
  <2> QED
    BY <2>2, <2>3
<1>9. CASE Rewind!NavigationEnds
  BY <1>9 DEF Rewind!NavigationEnds, RewindInv, Rewind!OneRewind
<1>10. CASE Rewind!ReadPanel
  BY <1>10, RewindDrops DEF Rewind!ReadPanel, RewindInv
<1>11. CASE Rewind!Dispose
  BY <1>11 DEF Rewind!Dispose, RewindInv, Rewind!OneRewind
<1> QED
  BY <1>1, <1>2, <1>3, <1>4, <1>5, <1>6, <1>7, <1>8, <1>9, <1>10, <1>11 DEF Rewind!Next

LEMMA RewindStays == ASSUME RewindInv, UNCHANGED rewindVars PROVE RewindInv'
BY DEF rewindVars, RewindInv, Rewind!OneRewind

-----------------------------------------------------------------------------
(* A reload of the resources *)

\* A request was made in the present session or in an earlier one; one that goes
\* on was so when it started; nothing is queued once the plugin is gone.
ReloadInv ==
    /\ reloadSession \in Nat \ {0} /\ reloadIdle \in BOOLEAN
    /\ reloadQueued \in 0 .. reloadSession
    /\ Reload!OneReload
    /\ reloadDisposed => reloadQueued = 0

LEMMA ReloadBegins == ASSUME Reload!Init PROVE ReloadInv
BY DEF Reload!Init, ReloadInv, Reload!OneReload, Reload!None

\* Where a step starts a reload.
ReloadStarts ==
    reloadActive' # reloadActive /\ reloadActive' # Reload!None =>
       /\ reloadActive = Reload!None /\ reloadQueued' = 0 /\ ~reloadDisposed'
       /\ reloadActive'.in = reloadSession'
       /\ IF reloadStatus = "queued" THEN reloadActive'.for <= reloadActive'.in /\ ~reloadIdle
          ELSE reloadActive'.for = reloadActive'.in /\ reloadIdle'

\* A reload starts, or its runtime is missing, while nothing else is queued.
LEMMA ReloadStarted ==
    ASSUME ReloadInv, NEW origin \in 1 .. reloadSession, Reload!Start(origin), reloadActive = Reload!None,
           reloadIdle' \in BOOLEAN, reloadQueued' = 0, UNCHANGED <<reloadSession, reloadDisposed>>
    PROVE  /\ ReloadInv'
           /\ reloadActive' # reloadActive =>
                 reloadActive'.for = origin /\ reloadActive'.in = reloadSession'
<1>1. CASE reloadActive' = [for |-> origin, in |-> reloadSession] /\ reloadStatus' = "running"
  <2>1. reloadActive'.for = origin /\ reloadActive'.in = reloadSession /\ reloadActive' # Reload!None
    BY <1>1 DEF Reload!None, ReloadInv
  <2> QED
    BY <1>1, <2>1 DEF ReloadInv, Reload!OneReload
<1>2. CASE reloadStatus' = "failed" /\ UNCHANGED reloadActive
  BY <1>2 DEF ReloadInv, Reload!OneReload
<1> QED
  BY <1>1, <1>2 DEF Reload!Start

\* A reload starts at rest in the session that asked, or in its turn in the
\* present one, and for a plugin that is there.
LEMMA ReloadStep == ASSUME ReloadInv, Reload!Next PROVE ReloadInv' /\ ReloadStarts
<1>1. CASE Reload!Execute
  <2>1. /\ ~reloadDisposed /\ reloadActive = Reload!None /\ reloadQueued = 0 /\ reloadStatus # "queued"
        /\ UNCHANGED <<reloadSession, reloadIdle, reloadDisposed>>
    BY <1>1 DEF Reload!Execute, Reload!Busy, ReloadInv, Reload!OneReload
  <2>2. CASE reloadIdle /\ Reload!Start(reloadSession) /\ UNCHANGED reloadQueued
    <3>1. reloadSession \in 1 .. reloadSession /\ reloadIdle' \in BOOLEAN
      BY <2>1 DEF ReloadInv
    <3> QED
      BY <2>1, <2>2, <3>1, ReloadStarted DEF ReloadStarts
  <2>3. CASE ~reloadIdle /\ reloadQueued' = reloadSession /\ reloadStatus' = "queued" /\ UNCHANGED reloadActive
    BY <2>1, <2>3 DEF ReloadInv, Reload!OneReload, ReloadStarts
  <2>4. CASE ~reloadIdle /\ reloadStatus' = "failed" /\ UNCHANGED <<reloadQueued, reloadActive>>
    BY <2>1, <2>4 DEF ReloadInv, Reload!OneReload, ReloadStarts
  <2> QED
    BY <1>1, <2>2, <2>3, <2>4 DEF Reload!Execute
<1>2. CASE Reload!ExecuteAborted \/ Reload!AbortCall
  BY <1>2 DEF Reload!ExecuteAborted, Reload!Busy, Reload!AbortCall, ReloadInv, Reload!OneReload, ReloadStarts
<1>3. CASE Reload!RunStarts
  BY <1>3 DEF Reload!RunStarts, ReloadInv, Reload!OneReload, ReloadStarts
<1>4. CASE Reload!Settled
  <2>1. ~reloadIdle /\ reloadIdle' \in BOOLEAN /\ reloadQueued' = 0 /\ UNCHANGED <<reloadSession, reloadDisposed>>
    BY <1>4 DEF Reload!Settled, Reload!Left
  <2>2. CASE reloadQueued = 0
    BY <1>4, <2>1, <2>2 DEF Reload!Settled, ReloadInv, Reload!OneReload, ReloadStarts
  <2>3. CASE reloadQueued # 0
    <3>1. /\ Reload!Start(reloadQueued) /\ reloadActive = Reload!None /\ reloadStatus = "queued" /\ ~reloadDisposed
          /\ reloadQueued \in 1 .. reloadSession
      BY <1>4, <2>3 DEF Reload!Settled, ReloadInv, Reload!OneReload
    <3>2. /\ ReloadInv'
          /\ reloadActive' # reloadActive =>
                reloadActive'.for = reloadQueued /\ reloadActive'.in = reloadSession'
      BY <2>1, <3>1, ReloadStarted
    <3>3. reloadQueued <= reloadSession
      BY <3>1 DEF ReloadInv
    <3> QED
      BY <2>1, <3>1, <3>2, <3>3 DEF ReloadStarts
  <2> QED
    BY <2>2, <2>3
<1>5. CASE Reload!Dispose
  BY <1>5 DEF Reload!Dispose, Reload!Dropped, ReloadInv, Reload!OneReload, ReloadStarts
<1>6. CASE Reload!Switch
  BY <1>6 DEF Reload!Switch, ReloadInv, Reload!OneReload, ReloadStarts
<1>7. CASE Reload!ReloadEnds
  <2>1. /\ reloadActive' = Reload!None /\ reloadStatus' \notin {"queued", "running"} /\ reloadQueued = 0
        /\ UNCHANGED <<reloadSession, reloadIdle, reloadQueued, reloadDisposed>>
    BY <1>7 DEF Reload!ReloadEnds, ReloadInv, Reload!OneReload
  <2> QED
    BY <2>1 DEF ReloadInv, Reload!OneReload, ReloadStarts
<1> QED
  BY <1>1, <1>2, <1>3, <1>4, <1>5, <1>6, <1>7 DEF Reload!Next

LEMMA ReloadStays == ASSUME ReloadInv, UNCHANGED reloadVars PROVE ReloadInv'
BY DEF reloadVars, ReloadInv, Reload!OneReload

-----------------------------------------------------------------------------
(* The services together *)

ServicesInv ==
    /\ CommandInv /\ FetchInv /\ SandboxInv /\ JobInv
    /\ RewindInv /\ ReloadInv /\ DoctorInv
    /\ PanelInv /\ ServersInv

\* What the steps of the services do besides keeping the invariant.
ServicesMoves ==
    /\ PanelMoves \/ UNCHANGED panelVars
    /\ NotSent \/ UNCHANGED serversVars
    /\ NoneCompleted \/ UNCHANGED doctorVars
    /\ JobGoes \/ UNCHANGED browserVars
    /\ Rewind!Next \/ UNCHANGED rewindVars
    /\ Reload!Next \/ UNCHANGED reloadVars
    /\ Sandbox!Next \/ UNCHANGED sandboxVars

\* Every step of the specification is one of one service.
LEMMA ServicesStep == ASSUME ServicesInv, [Next]_vars PROVE ServicesInv' /\ ServicesMoves
<1> USE DEF ServicesInv
<1>1. CommandInv'
  <2>1. Command!Next \/ UNCHANGED commandVars
    BY DEF Next, vars
  <2> QED
    BY <2>1, CommandStep, CommandStays
<1>2. FetchInv'
  <2>1. Fetch!Next \/ UNCHANGED fetchVars
    BY DEF Next, vars
  <2> QED
    BY <2>1, FetchStep, FetchStays
<1>3. SandboxInv' /\ (Sandbox!Next \/ UNCHANGED sandboxVars)
  <2>1. Sandbox!Next \/ UNCHANGED sandboxVars
    BY DEF Next, vars
  <2> QED
    BY <2>1, SandboxStep, SandboxStays
<1>4. JobInv' /\ (JobGoes \/ UNCHANGED browserVars)
  <2>1. Browser!Next \/ UNCHANGED browserVars
    BY DEF Next, vars
  <2> QED
    BY <2>1, JobStep, JobStays DEF JobGoes
<1>5. RewindInv' /\ (Rewind!Next \/ UNCHANGED rewindVars)
  <2>1. Rewind!Next \/ UNCHANGED rewindVars
    BY DEF Next, vars
  <2> QED
    BY <2>1, RewindStep, RewindStays
<1>6. ReloadInv' /\ (Reload!Next \/ UNCHANGED reloadVars)
  <2>1. Reload!Next \/ UNCHANGED reloadVars
    BY DEF Next, vars
  <2> QED
    BY <2>1, ReloadStep, ReloadStays
<1>7. DoctorInv' /\ (NoneCompleted \/ UNCHANGED doctorVars)
  <2>1. Doctor!Next \/ UNCHANGED doctorVars
    BY DEF Next, vars
  <2> QED
    BY <2>1, DoctorStep, DoctorStays
<1>8. PanelInv' /\ (PanelMoves \/ UNCHANGED panelVars)
  <2>1. Panel!Next \/ UNCHANGED panelVars
    BY DEF Next, vars
  <2> QED
    BY <2>1, PanelStep, PanelStays DEF PanelMoves
<1>9. ServersInv' /\ (NotSent \/ UNCHANGED serversVars)
  <2>1. Servers!Next \/ UNCHANGED serversVars
    BY DEF Next, vars
  <2> QED
    BY <2>1, ServersStep, ServersStay
<1> QED
  BY <1>1, <1>2, <1>3, <1>4, <1>5, <1>6, <1>7, <1>8, <1>9 DEF ServicesMoves

\* The services' invariants hold of the specification.
LEMMA ServicesHold == FairSpec => []ServicesInv
<1>1. ASSUME Init PROVE ServicesInv
  <2>1. CommandInv
    BY <1>1, CommandBegins DEF Init
  <2> QED
    BY <1>1, <2>1, FetchBegins, SandboxBegins, JobBegins, RewindBegins, ReloadBegins, DoctorBegins, PanelBegins,
       ServersBegin DEF Init, ServicesInv
<1>2. ServicesInv /\ [Next]_vars => ServicesInv'
  BY ServicesStep
<1> QED
  BY <1>1, <1>2, PTL DEF FairSpec

\* What an operation answers is whole and is the answer to what was asked, however
\* late it comes and whatever the processes, servers and browsers do; a request
\* that has ended holds nothing, and an answered sandbox call no running container.
THEOREM AnswersWhole == FairSpec => []AnswersAreWhole
<1>1. ServicesInv => AnswersAreWhole
  BY CommandSound, ServersSound, JobSound, FetchSound, SandboxSound DEF ServicesInv, AnswersAreWhole
<1> QED
  BY <1>1, ServicesHold, PTL

\* One read of a panel for each of its registrations, one process of an id, one
\* rewind, one reload, one compaction of a session, whoever asks and whatever is
\* disposed meanwhile.
THEOREM OnlyOneAtATime == FairSpec => []OneAtATime
<1>1. ServicesInv => OneAtATime
  BY PanelSound, ServersSound DEF ServicesInv, OneAtATime, RewindInv, ReloadInv, DoctorInv
<1> QED
  BY <1>1, ServicesHold, PTL

\* What waited starts for a plugin that is there, and not after its caller
\* cancelled it.  A rewind or a compaction starts in the session it was asked for
\* and at rest, a container in its session.  A reload that waited starts when a
\* run settles, in the session that is present then.
THEOREM StartsInPlace == FairSpec => StartedInPlace
<1> DEFINE Sent ==
              \A o \in Ops : op[o].at = "queued" /\ op'[o].at = "sent" => heard'[o] = "nothing" /\ ~gone
           Left ==
              \A a \in Browser!Actors :
                 job[a].phase = "connecting" /\ job'[a].phase = "waiting" => ~Browser!Aborted(a)
           Rewound ==
              rewindActive' # rewindActive /\ rewindActive' # Rewind!None =>
                 rewindActive'.for = rewindActive'.in /\ rewindIdle' /\ ~rewindDisposed'
           Reloaded ==
              reloadActive' # reloadActive /\ reloadActive' # Reload!None =>
                 /\ reloadActive = Reload!None /\ reloadQueued' = 0 /\ ~reloadDisposed'
                 /\ reloadActive'.in = reloadSession'
                 /\ IF reloadStatus = "queued" THEN reloadActive'.for <= reloadActive'.in /\ ~reloadIdle
                    ELSE reloadActive'.for = reloadActive'.in /\ reloadIdle'
           Compacted ==
              /\ \A i \in Doctor!Instances : compaction'[i].for = compaction'[i].on
              /\ \A s \in Doctor!Sessions : status[s] = "running" /\ status'[s] = "completed" => s = session
           Ran ==
              /\ client = "none" /\ client' = "creating" => ~sandboxGone /\ ~cancelled /\ for = sandboxSession
              /\ pc # "idle" /\ pc' = "idle" /\ answer' \in {"completed", "failed", "timed_out"} =>
                    ~cancelled /\ for = sandboxSession
<1>1. ServicesInv /\ [Next]_vars =>
         [Sent]_(Servers!mcpVars) /\ [Left]_(Browser!browserVars) /\ [Compacted]_(Doctor!doctorVars)
  <2> SUFFICES ASSUME ServicesInv, [Next]_vars
               PROVE  [Sent]_(Servers!mcpVars) /\ [Left]_(Browser!browserVars) /\ [Compacted]_(Doctor!doctorVars)
    OBVIOUS
  <2>1. ServicesInv' /\ ServicesMoves
    BY ServicesStep
  <2>2. NotSent \/ UNCHANGED serversVars
    BY <2>1 DEF ServicesMoves
  <2>3. [Sent]_(Servers!mcpVars)
    BY <2>2 DEF NotSent, serversVars, Servers!mcpVars, Servers!procVars, Servers!opVars
  <2>4. JobGoes \/ UNCHANGED browserVars
    BY <2>1 DEF ServicesMoves
  <2>5. [Left]_(Browser!browserVars)
    BY <2>4 DEF JobGoes, browserVars, Browser!browserVars
  <2>6. NoneCompleted \/ UNCHANGED doctorVars
    BY <2>1 DEF ServicesMoves
  <2>7. \A i \in Doctor!Instances : compaction'[i].for = compaction'[i].on
    BY <2>1 DEF ServicesInv, DoctorInv, InTurn
  <2>8. [Compacted]_(Doctor!doctorVars)
    BY <2>6, <2>7 DEF NoneCompleted, doctorVars, Doctor!doctorVars
  <2> QED
    BY <2>3, <2>5, <2>8
<1>2. ServicesInv /\ [Next]_vars =>
         [Rewound]_(Rewind!rewindVars) /\ [Reloaded]_(Reload!reloadVars) /\ [Ran]_(Sandbox!sandboxVars)
  <2> SUFFICES ASSUME ServicesInv, [Next]_vars
               PROVE  [Rewound]_(Rewind!rewindVars) /\ [Reloaded]_(Reload!reloadVars) /\ [Ran]_(Sandbox!sandboxVars)
    OBVIOUS
  <2>1. RewindInv /\ ReloadInv /\ SandboxInv
    BY DEF ServicesInv
  <2>2. /\ Rewind!Next \/ UNCHANGED rewindVars
        /\ Reload!Next \/ UNCHANGED reloadVars
        /\ Sandbox!Next \/ UNCHANGED sandboxVars
    BY ServicesStep DEF ServicesMoves
  <2>3. [Rewound]_(Rewind!rewindVars)
    BY <2>1, <2>2, RewindStep DEF rewindVars, Rewind!rewindVars
  <2>4. [Reloaded]_(Reload!reloadVars)
    BY <2>1, <2>2, ReloadStep DEF ReloadStarts, reloadVars, Reload!reloadVars
  <2>5. [Ran]_(Sandbox!sandboxVars)
    BY <2>1, <2>2, SandboxActs DEF sandboxVars, Sandbox!sandboxVars
  <2> QED
    BY <2>3, <2>4, <2>5
<1> HIDE DEF Sent, Left, Rewound, Reloaded, Compacted, Ran
<1>3. FairSpec => [][Sent]_(Servers!mcpVars) /\ [][Left]_(Browser!browserVars) /\ [][Compacted]_(Doctor!doctorVars)
  BY <1>1, ServicesHold, PTL DEF FairSpec
<1>4. FairSpec => [][Rewound]_(Rewind!rewindVars) /\ [][Reloaded]_(Reload!reloadVars) /\ [][Ran]_(Sandbox!sandboxVars)
  BY <1>2, ServicesHold, PTL DEF FairSpec
<1> QED
  BY <1>3, <1>4, PTL
     DEF StartedInPlace, Servers!NotSentAfterCancel, Browser!NoneSentAfterCancel, Rewind!RewindInPlace,
         Reload!ReloadAsked, Doctor!CompactionInPlace, Sandbox!RunInPlace,
         Sent, Left, Rewound, Reloaded, Compacted, Ran

\* A panel shows no data of a removed registration and none that is late, is
\* removed by its own disposer only, and shows the compaction that goes on.
THEOREM PanelsCurrent == FairSpec => PanelsAreCurrent
<1> DEFINE Current ==
              \A w \in Panel!Reads :
                 reads[w[1]][w[2]].promise # "data" /\ reads'[w[1]][w[2]].promise = "data"
                    => w[1] \in Panel!Registered /\ ~reads[w[1]][w[2]].late
           Own ==
              \A p \in Panel!Registered : p \notin Panel!Registered' =>
                 \E n \in DOMAIN disposers :
                    /\ disposers[n].panel = p
                    /\ disposers[n].active /\ ~disposers'[n].active
<1>1. ServicesInv /\ [Next]_vars => [Current]_(Panel!vars) /\ [Own]_(Panel!vars)
  <2> SUFFICES ASSUME ServicesInv, [Next]_vars PROVE [Current]_(Panel!vars) /\ [Own]_(Panel!vars)
    OBVIOUS
  <2>1. PanelMoves \/ UNCHANGED panelVars
    BY ServicesStep DEF ServicesMoves
  <2>2. CASE PanelMoves
    BY <2>2 DEF PanelMoves
  <2>3. CASE UNCHANGED panelVars
    BY <2>3 DEF panelVars, Panel!vars
  <2> QED
    BY <2>1, <2>2, <2>3
<1>2. ServicesInv => Doctor!CompactionStatus
  BY DEF ServicesInv, DoctorInv
<1> HIDE DEF Current, Own
<1>3. FairSpec => [][Current]_(Panel!vars) /\ [][Own]_(Panel!vars) /\ []Doctor!CompactionStatus
  BY <1>1, <1>2, ServicesHold, PTL DEF FairSpec
<1> QED
  BY <1>3, PTL DEF PanelsAreCurrent, Panel!DataIsCurrent, Panel!OwnDisposerOnly, Current, Own
=============================================================================
