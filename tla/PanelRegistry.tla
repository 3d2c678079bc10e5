---------------------------- MODULE PanelRegistry ----------------------------
(***************************************************************************)
(* PiPluginUiRegistry (packages/plugin-api/src/services.ts): plugins        *)
(* register panels, consoles ask for snapshots of all of them, and a        *)
(* snapshot calls every panel's visible() and read(), which may hang, fail, *)
(* ignore the abort signal, or be overtaken by the panel's removal.         *)
(***************************************************************************)
EXTENDS Naturals, Sequences, FiniteSets

CONSTANTS
    Panels,            \* panel objects
    panelId,           \* their ids; two plugins may use one id in turn
    Callers,           \* snapshot() calls in flight
    NoPanel,           \* an id that is free
    MaxRegistrations,  \* bound on registrations
    MaxReads           \* bound on the reads

PanelAssumption == NoPanel \notin Panels

VARIABLES
    panels,    \* #panels
    disposers, \* what register() returned, in order
    pending,   \* #pendingSnapshots: the read of a panel in flight, 0 for none
    reads,     \* every #startSnapshot of a panel
    calls      \* the reads each snapshot() call awaits

vars == <<panels, disposers, pending, reads, calls>>

PanelIds   == {panelId[p] : p \in Panels}
Registered == {p \in Panels : panels[panelId[p]] = p}
Promises   == {"open", "data", "hidden", "error", "timed out", "unregistered"}

\* over: the callbacks have settled; late: two seconds have passed since.
Read      == [over : BOOLEAN, late : BOOLEAN, promise : Promises]
FreshRead == [over |-> FALSE, late |-> FALSE, promise |-> "open"]
Reads     == {w \in Panels \X (1 .. MaxReads) : w[2] <= Len(reads[w[1]])}

-----------------------------------------------------------------------------
Init ==
    /\ panels = [id \in PanelIds |-> NoPanel]
    /\ disposers = << >>
    /\ pending = [p \in Panels |-> 0]
    /\ reads = [p \in Panels |-> << >>]
    /\ calls = [c \in Callers |-> {}]

register(p) ==
    /\ panels[panelId[p]] = NoPanel
    /\ Len(disposers) < MaxRegistrations
    /\ panels' = [panels EXCEPT ![panelId[p]] = p]
    /\ disposers' = Append(disposers, [panel |-> p, active |-> TRUE])
    /\ UNCHANGED <<pending, reads, calls>>

\* settle() of read i of panel p: the first outcome stays.
Settled(r, outcome) == IF r.promise = "open" THEN [r EXCEPT !.promise = outcome] ELSE r

\* The read of a removed panel is aborted and forgotten.
CutPending(p) ==
    IF pending[p] = 0 THEN UNCHANGED <<pending, reads>>
    ELSE /\ reads' = [reads EXCEPT ![p][pending[p]] = Settled(@, "unregistered")]
         /\ pending' = [pending EXCEPT ![p] = 0]

MayDispose(n) ==
    disposers[n].active /\ panels[panelId[disposers[n].panel]] = disposers[n].panel

\* The function register() returned is called, perhaps again.
Dispose(n) ==
    LET p == disposers[n].panel
    IN /\ MayDispose(n)
       /\ disposers' = [disposers EXCEPT ![n].active = FALSE]
       /\ panels' = [panels EXCEPT ![panelId[p]] = NoPanel]
       /\ CutPending(p)
       /\ UNCHANGED calls

-----------------------------------------------------------------------------
\* #snapshotPanel joins the read in flight or starts one.
Starts(p) == p \in Registered /\ pending[p] = 0

snapshot(c) ==
    /\ calls[c] = {} /\ Registered # {}
    /\ Cardinality(Reads) + Cardinality({p \in Panels : Starts(p)}) <= MaxReads
    /\ reads' = [p \in Panels |-> IF Starts(p) THEN Append(reads[p], FreshRead) ELSE reads[p]]
    /\ pending' = [p \in Panels |-> IF Starts(p) THEN Len(reads'[p]) ELSE pending[p]]
    /\ calls' = [calls EXCEPT ![c] = {<<p, pending'[p]>> : p \in Registered}]
    /\ UNCHANGED <<panels, disposers>>

\* snapshot() returns once every read it awaits has settled.
Returns(c) ==
    /\ calls[c] # {}
    /\ \A w \in calls[c] : reads[w[1]][w[2]].promise # "open"
    /\ calls' = [calls EXCEPT ![c] = {}]
    /\ UNCHANGED <<panels, disposers, pending, reads>>

-----------------------------------------------------------------------------
\* pluginPanelTimeoutMs pass.
TimePasses(p, i) ==
    /\ ~reads[p][i].late /\ ~reads[p][i].over
    /\ reads' = [reads EXCEPT ![p][i].late = TRUE]
    /\ UNCHANGED <<panels, disposers, pending, calls>>

\* Bug: a read that timed out is not waited for.
TimerFires_Forgets(p, i) ==
    /\ reads[p][i].late /\ reads[p][i].promise = "open"
    /\ reads' = [reads EXCEPT ![p][i].promise = "timed out"]
    /\ pending' = [pending EXCEPT ![p] = IF @ = i THEN 0 ELSE @]
    /\ UNCHANGED <<panels, disposers, calls>>

\* The timer: the callers get an error; the panel stays taken until the
\* callbacks settle.
TimerFires(p, i) ==
    /\ reads[p][i].late /\ reads[p][i].promise = "open"
    /\ reads' = [reads EXCEPT ![p][i].promise = "timed out"]
    /\ UNCHANGED <<panels, disposers, pending, calls>>

\* Bug: an answer that beats the timer's callback counts although it is late.
Outcome_OnTime(r, outcome) == outcome

\* The event loop may have been blocked: the age of the answer decides, not
\* whether the timer ran.
Outcome(r, outcome) == IF r.late THEN "timed out" ELSE outcome

\* visible() and read() settled, for a removed panel too.
CallbackSettles(p, i) ==
    /\ ~reads[p][i].over
    /\ \E outcome \in {"data", "hidden", "error"} :
          reads' = [reads EXCEPT ![p][i] =
                       [Settled(@, Outcome(@, outcome)) EXCEPT !.over = TRUE]]
    /\ pending' = [pending EXCEPT ![p] = IF @ = i THEN 0 ELSE @]
    /\ UNCHANGED <<panels, disposers, calls>>

Next ==
    \/ \E p \in Panels : register(p)
    \/ \E n \in DOMAIN disposers : Dispose(n)
    \/ \E c \in Callers : snapshot(c) \/ Returns(c)
    \/ \E w \in Reads : \/ TimePasses(w[1], w[2])
                        \/ TimerFires(w[1], w[2])
                        \/ CallbackSettles(w[1], w[2])

Spec == Init /\ [][Next]_vars

\* Time passes, timers fire and promises resolve; a panel's callbacks need not.
Fairness ==
    /\ WF_vars(\E w \in Reads : TimePasses(w[1], w[2]) \/ TimerFires(w[1], w[2]))
    /\ \A c \in Callers : WF_vars(Returns(c))

FairSpec == Spec /\ Fairness

-----------------------------------------------------------------------------
(* Properties *)

\* The types, and a pending read is an unfinished one of a registered panel.
TypeOK ==
    /\ panels \in [PanelIds -> Panels \cup {NoPanel}]
    /\ \A n \in DOMAIN disposers : disposers[n] \in [panel : Panels, active : BOOLEAN]
    /\ \A p \in Panels : \A i \in DOMAIN reads[p] : reads[p][i] \in Read
    /\ calls \in [Callers -> SUBSET Reads]
    /\ \A p \in Panels : pending[p] # 0 =>
          p \in Registered /\ pending[p] \in DOMAIN reads[p] /\ ~reads[p][pending[p]].over

\* However many consoles poll and however long a panel hangs, past the timeout
\* too, each registration has its callbacks running at most once at a time.
OneReadAtATime ==
    \A p \in Panels :
        Cardinality({i \in DOMAIN reads[p] : ~reads[p][i].over})
            <= Cardinality({n \in DOMAIN disposers : disposers[n].panel = p})

\* No caller is handed data of a panel that is no longer registered, nor data
\* that took longer than the timeout.
DataIsCurrent ==
    [][\A w \in Reads :
         reads[w[1]][w[2]].promise # "data" /\ reads'[w[1]][w[2]].promise = "data"
            => w[1] \in Registered /\ ~reads[w[1]][w[2]].late]_vars

\* A registration is ended by its own disposer only, also when the same panel
\* object was registered before.
OwnDisposerOnly ==
    [][\A p \in Registered : p \notin Registered' =>
         \E n \in DOMAIN disposers :
            /\ disposers[n].panel = p
            /\ disposers[n].active /\ ~disposers'[n].active]_vars

\* A snapshot returns, whatever the callbacks of the panels do.
SnapshotReturns == \A c \in Callers : calls[c] # {} ~> calls[c] = {}
=============================================================================
