----------------------------- MODULE RuntimeGate -----------------------------
(***************************************************************************)
(* The pi-runtime plugin (packages/core/src/plugins/runtime.ts), the       *)
(* PiRuntime it provides (packages/core/src/runtime.ts) and the leases it  *)
(* takes on the tool registry (packages/plugin-api/src/services.ts).       *)
(*                                                                         *)
(* Every activation of the plugin over one session manager enters a gate,  *)
(* a chain of promises, before it builds a session.  Cordis may dispose an *)
(* activation at any moment, also while apply is still waiting or          *)
(* building; an effect asked for after that throws into apply.             *)
(***************************************************************************)
EXTENDS Integers, FiniteSets

CONSTANTS
    Fibers,     \* activations of the plugin over one session manager
    NoFiber     \* sessionManagerGate has no entry

ASSUME FibersAssumption == IsFiniteSet(Fibers) /\ NoFiber \notin Fibers

VARIABLES
    tail,       \* the fiber whose promise sessionManagerGate holds
    ready,      \* the fiber each one waits for
    pc,         \* where apply is
    released,   \* gates that were released
    disposed,   \* fibers Cordis disposed
    closer,     \* the disposer of each fiber: not yet due, due, or over
    session,    \* the session each fiber built
    lease,      \* the lease of each fiber on the tool registry
    leases,     \* #leases of the registry
    ahead       \* history: the fibers that entered the gate before each one

gateVars == <<tail, ready, ahead>>
toolVars == <<lease, leases>>
vars     == <<gateVars, pc, released, disposed, closer, session, toolVars>>

Open == {f \in Fibers : session[f] \in {"live", "closing"}}

Go(f, s) == pc' = [pc EXCEPT ![f] = s]

-----------------------------------------------------------------------------
Init ==
    /\ tail = NoFiber
    /\ ready = [f \in Fibers |-> NoFiber]
    /\ pc = [f \in Fibers |-> "idle"]
    /\ released = {} /\ disposed = {}
    /\ closer = [f \in Fibers |-> "none"]
    /\ session = [f \in Fibers |-> "none"]
    /\ lease = [f \in Fibers |-> "none"]
    /\ leases = 0
    /\ ahead = [f \in Fibers |-> {}]

\* enterSessionManagerGate.
Apply(f) ==
    /\ pc[f] = "idle"
    /\ ready' = [ready EXCEPT ![f] = tail]
    /\ tail' = f
    /\ ahead' = [ahead EXCEPT ![f] = {g \in Fibers : pc[g] # "idle"}]
    /\ Go(f, "waiting")
    /\ UNCHANGED <<released, disposed, closer, session, toolVars>>

\* Bug: an activation starts as soon as it is applied.
Passes_NoGate(f) == TRUE

\* await gate.ready: settled once the fiber before has released its gate.
Passes(f) == ready[f] = NoFiber \/ ready[f] \in released

\* The registry is leased; in a disposed fiber the effect for it throws.
Acquire(f) ==
    /\ pc[f] = "waiting" /\ Passes(f)
    /\ lease' = [lease EXCEPT ![f] = "held"]
    /\ leases' = leases + 1
    /\ Go(f, IF f \in disposed THEN "failing" ELSE "building")
    /\ UNCHANGED <<gateVars, released, disposed, closer, session>>

\* createAgentSessionRuntime resolves; the disposer is registered unless the
\* fiber was disposed meanwhile.
Build(f) ==
    /\ pc[f] = "building"
    /\ session' = [session EXCEPT ![f] = "live"]
    /\ IF f \in disposed
       THEN Go(f, "failing") /\ UNCHANGED closer
       ELSE Go(f, "binding") /\ closer' = [closer EXCEPT ![f] = "registered"]
    /\ UNCHANGED <<gateVars, released, disposed, toolVars>>

BuildFails(f) ==
    /\ pc[f] = "building"
    /\ Go(f, "failing")
    /\ UNCHANGED <<gateVars, released, disposed, closer, session, toolVars>>

\* rebindSession: extensions bound, listed tools present, events forwarded.
Bind(f) ==
    /\ pc[f] = "binding"
    /\ Go(f, "running") \/ Go(f, "failing")
    /\ UNCHANGED <<gateVars, released, disposed, closer, session, toolVars>>

\* Bug: a second release of one lease is counted too.
Release_Uncounted(f) ==
    /\ leases' = IF lease[f] = "none" THEN leases ELSE leases - 1
    /\ lease' = [lease EXCEPT ![f] = IF @ = "none" THEN "none" ELSE "released"]

\* PiToolsLease.release, once per lease.
Release(f) ==
    IF lease[f] = "held"
    THEN lease' = [lease EXCEPT ![f] = "released"] /\ leases' = leases - 1
    ELSE UNCHANGED toolVars

\* Cordis disposes a fiber: the lease's effect runs at once, the disposer is due.
Dispose(f) ==
    /\ pc[f] # "idle" /\ f \notin disposed
    /\ disposed' = disposed \cup {f}
    /\ closer' = [closer EXCEPT ![f] = IF @ = "registered" THEN "due" ELSE @]
    /\ Release(f)
    /\ UNCHANGED <<gateVars, pc, released, session>>

\* PiRuntime.dispose by the disposer or by apply's catch block: memoised, so the
\* first caller starts it and both wait for it.
Close(f) ==
    /\ closer[f] = "due" \/ pc[f] = "failing"
    /\ session[f] = "live"
    /\ session' = [session EXCEPT ![f] = "closing"]
    /\ UNCHANGED <<gateVars, pc, released, disposed, closer, toolVars>>

\* The running turn is aborted and the session shut down, or one of them throws.
Closed(f) ==
    /\ session[f] = "closing"
    /\ session' = [session EXCEPT ![f] = "closed"]
    /\ UNCHANGED <<gateVars, pc, released, disposed, closer, toolVars>>

\* Bug: the gate is released before the session is closed.
OpenGate_Early(f) ==
    /\ closer[f] = "due"
    /\ closer' = [closer EXCEPT ![f] = "over"]
    /\ released' = released \cup {f}
    /\ UNCHANGED <<gateVars, pc, disposed, session, toolVars>>

\* The disposer's finally block.
OpenGate(f) ==
    /\ closer[f] = "due" /\ session[f] = "closed"
    /\ closer' = [closer EXCEPT ![f] = "over"]
    /\ released' = released \cup {f}
    /\ UNCHANGED <<gateVars, pc, disposed, session, toolVars>>

\* Bug: a failed activation keeps its gate.
Fail_KeepsGate(f) ==
    /\ pc[f] = "failing" /\ session[f] \in {"none", "closed"}
    /\ Go(f, "failed")
    /\ Release(f)
    /\ UNCHANGED <<gateVars, released, disposed, closer, session>>

\* The finally block of apply's catch.
Fail(f) ==
    /\ pc[f] = "failing" /\ session[f] \in {"none", "closed"}
    /\ Go(f, "failed")
    /\ Release(f)
    /\ released' = released \cup {f}
    /\ UNCHANGED <<gateVars, disposed, closer, session>>

Continue(f) ==
    \/ Acquire(f) \/ Build(f) \/ BuildFails(f) \/ Bind(f)
    \/ Close(f) \/ Closed(f) \/ OpenGate(f) \/ Fail(f)

Next == \E f \in Fibers : Apply(f) \/ Dispose(f) \/ Continue(f)

Spec == Init /\ [][Next]_vars

\* The event loop goes on, Pi settles its calls, and Cordis disposes what it
\* replaces: a fiber another one waits for.
Fairness ==
    /\ \A f \in Fibers : WF_vars(Continue(f))
    /\ \A f \in Fibers : WF_vars((\E g \in Fibers : ready[g] = f) /\ Dispose(f))

-----------------------------------------------------------------------------
(* Properties *)

\* The types; a session is closed before its gate is released.
TypeOK ==
    /\ tail \in Fibers \cup {NoFiber}
    /\ ready \in [Fibers -> Fibers \cup {NoFiber}]
    /\ pc \in [Fibers -> {"idle", "waiting", "building", "binding", "running", "failing", "failed"}]
    /\ released \subseteq Fibers /\ disposed \subseteq Fibers
    /\ closer \in [Fibers -> {"none", "registered", "due", "over"}]
    /\ session \in [Fibers -> {"none", "live", "closing", "closed"}]
    /\ lease \in [Fibers -> {"none", "held", "released"}]
    /\ leases \in Nat
    /\ ahead \in [Fibers -> SUBSET Fibers]
    /\ released \cap Open = {}

\* Two sessions over one manager would interleave two runs in one transcript.
OneSession == \A f, g \in Open : f = g

\* While an activation that is not disposed has a session, the registry refuses
\* new tools, whatever leases of other activations were released how often.
ToolsFrozen == (\E f \in Open \ disposed : pc[f] \in {"binding", "running"}) => leases > 0

\* No lease survives the activations that took one.
LeasesEnd == (\A f \in Fibers : pc[f] \in {"idle", "failed"} \/ closer[f] = "over") => leases = 0

\* The lease count is positive while it must be and zero once nobody is left,
\* whichever of the paths that can release a lease ran, and however often.
LeasesBalance == ToolsFrozen /\ LeasesEnd

\* A replacement is never stuck behind a fiber that failed or was disposed.
GatePasses == \A f \in Fibers : pc[f] = "waiting" ~> pc[f] # "waiting"

=============================================================================
