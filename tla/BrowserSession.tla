---------------------------- MODULE BrowserSession ----------------------------
(* The browser-session plugin (packages/plugins/browser-session/src/index.ts): *)
(* a tool call is a sequence of requests to a browser that may stall, fail or  *)
(* go away, each with a deadline of its own and a socket or a response body to *)
(* give back, under the signal of its caller and of the plugin.  The panel     *)
(* lists the tabs at the same time, under the plugin's signal alone.           *)
EXTENDS Naturals, Sequences

CONSTANTS MaxCalls  \* bound: the calls of the tools

VARIABLES
    job,    \* what the tool call and the panel's read are doing
    gone,   \* lifecycle is aborted
    calls   \* the calls so far

browserVars == <<job, gone, calls>>

Actors == {"tool", "panel"}

\* The requests of browser_tabs (and of the panel), of browser_read, browser_click
\* and browser_screenshot, and of browser_navigate: "resolve" looks the host up,
\* "list" fetches /json/list, and the others are one CDP command each.
Plan == [tabs     |-> <<"list">>,
         act      |-> <<"list", "act">>,
         navigate |-> <<"resolve", "list", "enable", "navigate", "ready", "list">>]

\* `phase`: "begin" before a request, "resolving", "fetching" the headers and
\* "reading" the body of a list, "connecting" and "waiting" on a socket,
\* "sleeping" between two polls.  `ran` counts the commands with an effect that
\* the browser was sent.
NoJob == [kind |-> "none", at |-> 0, phase |-> "idle", timer |-> FALSE, socket |-> FALSE,
          cancelled |-> FALSE, late |-> FALSE, ran |-> 0, answer |-> "none"]

Init ==
    /\ job = [a \in Actors |-> NoJob]
    /\ gone = FALSE /\ calls = 0

Step(a) == Plan[job[a].kind][job[a].at]
Busy(a) == job[a].phase # "idle"
Requesting(a) == job[a].phase \in {"fetching", "reading", "connecting", "waiting"}

\* executionSignal
Aborted(a) == gone \/ job[a].cancelled

Is(a, rec) == job' = [job EXCEPT ![a] = rec]

\* The promise of the call is settled.
Answered(a, answer) == [NoJob EXCEPT !.kind = job[a].kind, !.ran = job[a].ran, !.answer = answer]

\* cleanup and closeSocket, as every way a request can end does them.
Ended(a) == [job[a] EXCEPT !.timer = FALSE, !.socket = FALSE]

\* Bug: the listener of a request that fails navigates again.
Failed_Renavigates(a) ==
    IF Step(a) = "ready" THEN [Ended(a) EXCEPT !.phase = "begin", !.at = @ - 1]
    ELSE Answered(a, "failed")

\* A request has failed: the poll of ready() goes on, anything else rejects.
Failed(a) ==
    IF Step(a) = "ready" THEN [Ended(a) EXCEPT !.phase = "sleeping"]
    ELSE Answered(a, "failed")

\* The next request, or the answer.
Advanced(a) ==
    IF job[a].at = Len(Plan[job[a].kind]) THEN Answered(a, "ok")
    ELSE [Ended(a) EXCEPT !.phase = "begin", !.at = @ + 1]

\* execute of a tool (which a session may still hold after the plugin is
\* disposed), and read of the panel.
Call(a) ==
    /\ ~Busy(a) /\ calls < MaxCalls
    /\ calls' = calls + 1
    /\ \E kind \in IF a = "panel" THEN {"tabs"} ELSE DOMAIN Plan :
          Is(a, [NoJob EXCEPT !.kind = kind, !.at = 1, !.phase = "begin"])
    /\ UNCHANGED gone

\* Bug: a request that starts does not look at the signal.
Begin_Unchecked(a) ==
    /\ job[a].phase = "begin"
    /\ Is(a, IF Step(a) = "ready" /\ job[a].late THEN Answered(a, "failed")
             ELSE CASE Step(a) = "resolve" -> [job[a] EXCEPT !.phase = "resolving"]
                    [] Step(a) = "list" -> [job[a] EXCEPT !.phase = "fetching", !.timer = TRUE]
                    [] OTHER -> [job[a] EXCEPT !.phase = "connecting", !.timer = TRUE, !.socket = TRUE])
    /\ UNCHANGED <<gone, calls>>

\* tabs, cdp and the head of ready's loop: a signal that is aborted already
\* rejects before anything is opened.
Begin(a) ==
    /\ job[a].phase = "begin"
    /\ Is(a, IF Aborted(a) \/ (Step(a) = "ready" /\ job[a].late) THEN Answered(a, "failed")
             ELSE CASE Step(a) = "resolve" -> [job[a] EXCEPT !.phase = "resolving"]
                    [] Step(a) = "list" -> [job[a] EXCEPT !.phase = "fetching", !.timer = TRUE]
                    [] OTHER -> [job[a] EXCEPT !.phase = "connecting", !.timer = TRUE, !.socket = TRUE])
    /\ UNCHANGED <<gone, calls>>

\* navigationUrl: the host is public, or the call is refused.
Resolved(a) ==
    /\ job[a].phase = "resolving"
    /\ \E public \in BOOLEAN : Is(a, IF public THEN Advanced(a) ELSE Failed(a))
    /\ UNCHANGED <<gone, calls>>

\* The browser sends the headers, then the list; either may be refused.
Headers(a) ==
    /\ job[a].phase = "fetching"
    /\ \E ok \in BOOLEAN : Is(a, IF ok THEN [job[a] EXCEPT !.phase = "reading"] ELSE Failed(a))
    /\ UNCHANGED <<gone, calls>>

Listed(a) ==
    /\ job[a].phase = "reading"
    /\ \E ok \in BOOLEAN : Is(a, IF ok THEN Advanced(a) ELSE Failed(a))
    /\ UNCHANGED <<gone, calls>>

\* onOpen: the command is sent.
Opens(a) ==
    /\ job[a].phase = "connecting"
    /\ Is(a, [job[a] EXCEPT !.phase = "waiting",
                !.ran = IF Step(a) \in {"act", "navigate"} THEN @ + 1 ELSE @])
    /\ UNCHANGED <<gone, calls>>

\* onMessage with the id of the request: its result, which for ready() may be a
\* page that is still loading, or an error.
Answers(a) ==
    /\ job[a].phase = "waiting"
    /\ \/ Is(a, Advanced(a))
       \/ Is(a, Failed(a))
    /\ UNCHANGED <<gone, calls>>

\* onError and onClose.
Breaks(a) ==
    /\ job[a].phase \in {"connecting", "waiting"}
    /\ Is(a, Failed(a))
    /\ UNCHANGED <<gone, calls>>

\* Bug: the body of a list is read under the caller's signal only.
TimesOut_Headers(a) ==
    /\ job[a].timer /\ job[a].phase # "reading"
    /\ Is(a, Failed(a))
    /\ UNCHANGED <<gone, calls>>

\* requestTimeoutMs
TimesOut(a) ==
    /\ job[a].timer
    /\ Is(a, Failed(a))
    /\ UNCHANGED <<gone, calls>>

\* 50 ms between two polls, which no signal interrupts.
Wakes(a) ==
    /\ job[a].phase = "sleeping"
    /\ Is(a, [job[a] EXCEPT !.phase = "begin"])
    /\ UNCHANGED <<gone, calls>>

\* The deadline of ready() passes.
Expires(a) ==
    /\ Busy(a) /\ Step(a) = "ready" /\ ~job[a].late
    /\ Is(a, [job[a] EXCEPT !.late = TRUE])
    /\ UNCHANGED <<gone, calls>>

\* Bug: the socket of a cancelled request is left open.
Stopped_Open(a) ==
    IF Requesting(a) \/ job[a].phase = "resolving"
    THEN [Answered(a, "failed") EXCEPT !.socket = job[a].socket] ELSE job[a]

\* onAbort rejects what is in flight, and in ready() the catch then throws.
Stopped(a) ==
    IF Requesting(a) \/ job[a].phase = "resolving" THEN Answered(a, "failed") ELSE job[a]

\* The caller aborts the tool call.
Cancel ==
    /\ Busy("tool") /\ ~job["tool"].cancelled
    /\ LET stopped == Stopped("tool")
       IN Is("tool", IF stopped.phase = "idle" THEN stopped
                     ELSE [stopped EXCEPT !.cancelled = TRUE])
    /\ UNCHANGED <<gone, calls>>

\* The plugin is disposed.
Dispose ==
    /\ ~gone
    /\ gone' = TRUE
    /\ job' = [a \in Actors |-> Stopped(a)]
    /\ UNCHANGED calls

Next ==
    \/ \E a \in Actors :
          \/ Call(a) \/ Begin(a) \/ Resolved(a) \/ Headers(a) \/ Listed(a) \/ Opens(a)
          \/ Answers(a) \/ Breaks(a) \/ TimesOut(a) \/ Wakes(a) \/ Expires(a)
    \/ Cancel \/ Dispose

\* The timers fire, the lookup ends, and promises resume; the browser need not
\* do anything.
Fairness ==
    \A a \in Actors :
        /\ WF_browserVars(Begin(a)) /\ WF_browserVars(Resolved(a)) /\ WF_browserVars(TimesOut(a))
        /\ WF_browserVars(Wakes(a)) /\ WF_browserVars(Expires(a))

-----------------------------------------------------------------------------
(* Properties *)

\* A socket and a timer belong to a request that is waited for: however a
\* request ends, nothing of it is left behind.
NothingHeld ==
    \A a \in Actors : (job[a].socket \/ job[a].timer) => Requesting(a)

\* A call carries out its command once at most, whatever ready() retries, and an
\* answer of success tells that it was carried out.
CommandOnce ==
    \A a \in Actors :
        /\ job[a].ran <= 1
        /\ job[a].answer = "ok" => job[a].ran = (IF job[a].kind = "tabs" THEN 0 ELSE 1)

\* No command leaves for the browser once the caller has cancelled the call or
\* the plugin is disposed, not even between two polls.
NoneSentAfterCancel ==
    [][\A a \in Actors :
          job[a].phase = "connecting" /\ job'[a].phase = "waiting" => ~Aborted(a)]_browserVars

\* Every call has returned, whatever the browser does.
NoneAwaited == \A a \in Actors : ~Busy(a)
=============================================================================
