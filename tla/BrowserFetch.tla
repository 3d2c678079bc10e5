----------------------------- MODULE BrowserFetch -----------------------------
(* browser_fetch (packages/plugins/browser-fetch/src/index.ts) without         *)
(* allowPrivate: one page is fetched through at most maxRedirects redirects.   *)
(* The addresses of every target are checked before it is asked for, and it is *)
(* asked through a dispatcher that is pinned to them.  One timer covers it all. *)
EXTENDS Naturals

CONSTANTS maxRedirects, MaxFetches  \* the limit, and a bound on the calls

VARIABLES
    phase,       \* "idle", "resolving" a target, "requesting" it, "reading" its body, and "releasing" its dispatcher
    redirect,    \* the hop
    timer,       \* setTimeout of fetchPage is pending
    dispatcher,  \* the hops the open dispatchers are pinned to
    then,        \* what follows the release: "redirect", "ok" or "failed"
    closed,      \* lifecycle is aborted
    fetches,     \* the calls so far
    checked      \* history: the hops of this call whose addresses were public

fetchVars == <<phase, redirect, timer, dispatcher, then, closed, fetches, checked>>

Init ==
    /\ phase = "idle" /\ redirect = 0 /\ timer = FALSE /\ dispatcher = {} /\ then = "ok"
    /\ closed = FALSE /\ fetches = 0 /\ checked = {}

\* execute: a plugin that is disposed asks for nothing.
Execute ==
    /\ phase = "idle" /\ fetches < MaxFetches
    /\ fetches' = fetches + 1
    /\ redirect' = 0 /\ checked' = {}
    /\ IF closed THEN UNCHANGED <<phase, timer>>
       ELSE phase' = "resolving" /\ timer' = TRUE
    /\ UNCHANGED <<dispatcher, then, closed>>

\* The promise of the call settles.
Settle == phase' = "idle" /\ timer' = FALSE /\ UNCHANGED then

\* The finally of a hop destroys its dispatcher, whatever comes after.
Leave(next) == phase' = "releasing" /\ then' = next /\ UNCHANGED timer

\* Bug: a hop that fails ends the call without its finally.
Rejected_Kept == Settle

\* What a hop awaits rejects: before the first dispatcher that ends the call.
Rejected == IF dispatcher = {} THEN Settle ELSE Leave("failed")

\* validateTarget, of the first target or of the one a response points to: its
\* addresses are public, or the call fails.
Resolved ==
    /\ phase = "resolving"
    /\ \/ IF dispatcher = {}
          THEN /\ checked' = {0} /\ dispatcher' = {0}
               /\ phase' = "requesting" /\ UNCHANGED <<timer, then>>
          ELSE /\ checked' = checked \cup {redirect + 1}
               /\ Leave("redirect") /\ UNCHANGED dispatcher
       \/ Rejected /\ UNCHANGED <<checked, dispatcher>>
    /\ UNCHANGED <<redirect, closed, fetches>>

\* Bug: a redirect is followed as it is.
Follow_Unchecked == Leave("redirect")

\* A response with a Location: its target is validated like the first.
Follow == phase' = "resolving" /\ UNCHANGED <<timer, then>>

\* The response: a redirect, a body to read, or one that is refused.
Responds ==
    /\ phase = "requesting"
    /\ \/ redirect < maxRedirects /\ Follow
       \/ phase' = "reading" /\ UNCHANGED <<timer, then>>
       \/ Leave("failed")
    /\ UNCHANGED <<redirect, dispatcher, closed, fetches, checked>>

\* readBody: to its end or its limit, or to an error.
Read ==
    /\ phase = "reading"
    /\ Leave("ok") \/ Leave("failed")
    /\ UNCHANGED <<redirect, dispatcher, closed, fetches, checked>>

\* The dispatcher is gone: the next hop gets its own, or the call settles.
Released ==
    /\ phase = "releasing"
    /\ IF then = "redirect"
       THEN /\ redirect' = redirect + 1 /\ dispatcher' = {redirect + 1}
            /\ phase' = "requesting" /\ UNCHANGED <<timer, then>>
       ELSE Settle /\ dispatcher' = {} /\ UNCHANGED redirect
    /\ UNCHANGED <<closed, fetches, checked>>

\* requestSignal is aborted: the wait for a name, a response or a body rejects,
\* the hop that was to follow is refused, and a page that is read stays read.
Interrupted ==
    IF phase = "idle" \/ (phase = "releasing" /\ then = "ok")
    THEN UNCHANGED <<phase, timer, then>>
    ELSE Rejected

\* The timer fires, or the caller aborts.
Stop ==
    /\ phase # "idle" /\ Interrupted
    /\ UNCHANGED <<redirect, dispatcher, closed, fetches, checked>>

Dispose ==
    /\ ~closed
    /\ closed' = TRUE
    /\ Interrupted
    /\ UNCHANGED <<redirect, dispatcher, fetches, checked>>

Next == Execute \/ Resolved \/ Responds \/ Read \/ Released \/ Stop \/ Dispose

\* The timer fires and a dispatcher is destroyed; no server need answer.
Fairness == WF_fetchVars(Stop) /\ WF_fetchVars(Released)

-----------------------------------------------------------------------------
(* Properties *)

\* No target is asked for before its own addresses were checked, redirects
\* included, and it is asked for through the addresses of that check.
CheckedBeforeAsked ==
    phase \in {"requesting", "reading"} => dispatcher = {redirect} /\ redirect \in checked

\* A call that has ended leaves no dispatcher and no timer.
NothingHeld == phase = "idle" => dispatcher = {} /\ ~timer

\* The fetch has ended, whatever the servers on its way do.
NoneAwaited == phase = "idle"
=============================================================================
