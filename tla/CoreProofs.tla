------------------------------ MODULE CoreProofs ------------------------------
(***************************************************************************)
(* What holds of each part of the process, for any value of the constants, *)
(* and then of the process: a step of CoreSpec is a step of one part and a *)
(* stutter of the others (PartSteps).                                      *)
(*                                                                         *)
(* The gate: an activation passes when the one it found there has released *)
(* it, which itself had passed only after all those ahead of it released   *)
(* theirs (PassedInTurn).  A gate is released only after the session is    *)
(* closed (ReleasedClosed).  Two open sessions would belong to two         *)
(* activations past the gate, one of them ahead of the other.              *)
(* The launcher: past the race of runCli an exit code is decided and has a *)
(* cause (Decided), and an application that is over has delivered          *)
(* (Delivered).                                                            *)
(* The supervisor: the window holds the last restarts that were granted,   *)
(* and those it has shed are older (Window).                               *)
(* The event stream: the calls that are kept execute, and all of them      *)
(* while none was dropped (CallsKept); a phase that is no longer true is   *)
(* a left-over from before the run's agent_start (PhaseReal).              *)
(***************************************************************************)
EXTENDS MC_Core, FiniteSetTheorems, SequenceTheorems, TLAPS

-----------------------------------------------------------------------------
(* The gate *)

Applied == {f \in Fibers : pc[f] # "idle"}
Past    == {f \in Fibers : pc[f] \notin {"idle", "waiting"}}
Held    == {f \in Fibers : lease[f] = "held"}

Typed ==
    /\ tail \in Fibers \cup {NoFiber}
    /\ ready \in [Fibers -> Fibers \cup {NoFiber}]
    /\ pc \in [Fibers -> {"idle", "waiting", "building", "binding", "running", "failing", "failed"}]
    /\ released \subseteq Fibers /\ disposed \subseteq Fibers
    /\ closer \in [Fibers -> {"none", "registered", "due", "over"}]
    /\ session \in [Fibers -> {"none", "live", "closing", "closed"}]
    /\ lease \in [Fibers -> {"none", "held", "released"}]
    /\ ahead \in [Fibers -> SUBSET Fibers]

\* Ahead of f are the fiber it waits for and those ahead of that one.
Chained ==
    \A f \in Applied :
        IF ready[f] = NoFiber
        THEN ahead[f] = {}
        ELSE ready[f] \in Applied /\ ahead[f] = ahead[ready[f]] \cup {ready[f]}

TailIsLast ==
    IF tail = NoFiber
    THEN Applied = {}
    ELSE tail \in Applied /\ Applied = ahead[tail] \cup {tail}

Ordered == \A f, g \in Applied : f = g \/ f \in ahead[g] \/ g \in ahead[f]

PassedInTurn == \A f \in Past : ahead[f] \subseteq released

ReleasedClosed ==
    \A f \in released :
        f \in Past /\ (session[f] = "closed" \/ (pc[f] = "failed" /\ session[f] = "none"))

\* A session belongs to an activation that has built it.
Built ==
    \A f \in Fibers :
        /\ session[f] # "none" => pc[f] \in {"binding", "running", "failing", "failed"}
        /\ pc[f] \in {"binding", "running"} => session[f] # "none"
        /\ pc[f] = "failed" => session[f] \in {"none", "closed"}

GateInv == Typed /\ Chained /\ TailIsLast /\ Ordered /\ PassedInTurn /\ ReleasedClosed /\ Built

\* The lease of each activation.
Leased ==
    \A f \in Fibers :
        /\ pc[f] \in {"idle", "waiting"} => lease[f] = "none" /\ closer[f] = "none"
        /\ pc[f] \in {"building", "binding", "running"} /\ f \notin disposed => lease[f] = "held"
        /\ closer[f] \in {"due", "over"} => lease[f] = "released"
        /\ closer[f] = "registered" => lease[f] # "none"
        /\ pc[f] = "building" => closer[f] = "none"
        /\ pc[f] = "failed" => lease[f] # "held"

LeaseInv == Leased /\ leases \in Nat /\ leases = Cardinality(Held)

-----------------------------------------------------------------------------
(* The gate *)

LEMMA InitGate == ASSUME Init PROVE GateInv
<1> USE DEF Init
<1>1. Applied = {} /\ Past = {} /\ released = {}
  BY DEF Applied, Past
<1>2. Typed /\ Built
  BY FibersAssumption DEF Typed, Built
<1> QED
  BY <1>1, <1>2 DEF GateInv, Chained, TailIsLast, Ordered, PassedInTurn, ReleasedClosed

LEMMA TypeStep == ASSUME Typed, [Next]_vars PROVE Typed'
<1> USE DEF Typed, gateVars, toolVars, Go
<1>1. CASE UNCHANGED vars
  BY <1>1 DEF vars
<1>2. ASSUME NEW f \in Fibers, Apply(f) PROVE Typed'
  BY <1>2 DEF Apply
<1>3. ASSUME NEW f \in Fibers, Acquire(f) PROVE Typed'
  BY <1>3 DEF Acquire
<1>4. ASSUME NEW f \in Fibers, Build(f) PROVE Typed'
  BY <1>4 DEF Build
<1>5. ASSUME NEW f \in Fibers, BuildFails(f) \/ Bind(f) \/ Close(f) \/ Closed(f) \/ OpenGate(f)
      PROVE  Typed'
  BY <1>5 DEF BuildFails, Bind, Close, Closed, OpenGate
<1>6. ASSUME NEW f \in Fibers, Fail(f) PROVE Typed'
  BY <1>6 DEF Fail, Release
<1>7. ASSUME NEW f \in Fibers, Dispose(f) PROVE Typed'
  BY <1>7 DEF Dispose, Release
<1> QED
  BY <1>1, <1>2, <1>3, <1>4, <1>5, <1>6, <1>7 DEF Next, Continue

\* A step of a fiber that is past the gate, or passes it in its turn.
LEMMA PastStep ==
    ASSUME GateInv, Typed', UNCHANGED gateVars, NEW f \in Applied,
           \A g \in Fibers \ {f} : pc'[g] = pc[g] /\ session'[g] = session[g],
           pc'[f] \notin {"idle", "waiting"}, ahead[f] \subseteq released,
           \/ released' = released
           \/ released' = released \cup {f} /\ f \in Past,
           f \in released' =>
               session'[f] = "closed" \/ (pc'[f] = "failed" /\ session'[f] = "none"),
           session'[f] # "none" => pc'[f] \in {"binding", "running", "failing", "failed"},
           pc'[f] \in {"binding", "running"} => session'[f] # "none",
           pc'[f] = "failed" => session'[f] \in {"none", "closed"}
    PROVE  GateInv'
<1>1. Applied' = Applied /\ Past' = Past \cup {f} /\ f \in Fibers
  BY DEF Applied, Past
<1>2. Chained' /\ TailIsLast' /\ Ordered'
  BY <1>1 DEF GateInv, Chained, TailIsLast, Ordered, gateVars
<1>3. PassedInTurn'
  BY <1>1 DEF GateInv, PassedInTurn, gateVars
<1>4. ReleasedClosed'
  BY <1>1 DEF GateInv, ReleasedClosed, Typed
<1>5. Built'
  BY <1>1 DEF GateInv, Built
<1> QED
  BY <1>2, <1>3, <1>4, <1>5 DEF GateInv

LEMMA GateStep == ASSUME GateInv, [Next]_vars PROVE GateInv'
<1>1. Typed /\ Typed'
  BY TypeStep DEF GateInv
<1>2. CASE UNCHANGED vars
  BY <1>2, <1>1 DEF GateInv, vars, gateVars, Chained, TailIsLast, Ordered, PassedInTurn,
     ReleasedClosed, Built, Applied, Past
<1>3. ASSUME NEW f \in Fibers, Apply(f) PROVE GateInv'
  <2>1. /\ f \notin Applied /\ Applied' = Applied \cup {f} /\ Past' = Past
        /\ ahead'[f] = Applied /\ ready'[f] = tail /\ tail' = f
        /\ \A g \in Applied : ahead'[g] = ahead[g] /\ ready'[g] = ready[g]
        /\ \A g \in Fibers \ {f} : pc'[g] = pc[g]
        /\ UNCHANGED <<session, released>>
    BY <1>1, <1>3 DEF Apply, Typed, Applied, Past, Go
  <2>2. Chained'
    <3>1. ASSUME NEW g \in Applied
          PROVE  IF ready'[g] = NoFiber
                 THEN ahead'[g] = {}
                 ELSE ready'[g] \in Applied' /\ ahead'[g] = ahead'[ready'[g]] \cup {ready'[g]}
      BY <2>1 DEF GateInv, Chained
    <3>2. IF ready'[f] = NoFiber
          THEN ahead'[f] = {}
          ELSE ready'[f] \in Applied' /\ ahead'[f] = ahead'[ready'[f]] \cup {ready'[f]}
      BY <2>1 DEF GateInv, TailIsLast
    <3> QED
      BY <2>1, <3>1, <3>2 DEF Chained
  <2>3. TailIsLast' /\ Ordered'
    BY <2>1, FibersAssumption DEF GateInv, TailIsLast, Ordered
  <2>4. Past \subseteq Applied
    BY DEF Past, Applied
  <2>5. PassedInTurn'
    BY <2>1, <2>4 DEF GateInv, PassedInTurn
  <2>6. ReleasedClosed'
    BY <2>1, <2>4, <1>1 DEF GateInv, ReleasedClosed, Typed
  <2>7. session[f] = "none"
    BY <1>1, <1>3 DEF Apply, GateInv, Built, Typed
  <2>8. Built'
    BY <2>1, <2>7, <1>1, <1>3 DEF GateInv, Built, Apply, Go, Typed
  <2> QED
    BY <1>1, <2>2, <2>3, <2>5, <2>6, <2>8 DEF GateInv
<1>4. ASSUME NEW f \in Fibers, Acquire(f) PROVE GateInv'
  <2>1. f \in Applied /\ pc'[f] \in {"building", "failing"} /\ UNCHANGED <<released, session>>
        /\ \A g \in Fibers \ {f} : pc'[g] = pc[g]
    BY <1>1, <1>4 DEF Acquire, Applied, Typed, Go
  <2>2. f \notin released /\ session[f] = "none"
    BY <1>1, <1>4 DEF Acquire, GateInv, ReleasedClosed, Past, Built, Typed
  <2>3. ahead[f] \subseteq released
    BY <1>4, <2>1 DEF Acquire, Passes, GateInv, Chained, ReleasedClosed, PassedInTurn
  <2>4. UNCHANGED gateVars /\ f \notin released' /\ session'[f] = "none"
        /\ \A g \in Fibers \ {f} : session'[g] = session[g]
    BY <1>4, <2>1, <2>2 DEF Acquire
  <2>5. /\ f \in released' =>
              session'[f] = "closed" \/ (pc'[f] = "failed" /\ session'[f] = "none")
        /\ session'[f] # "none" => pc'[f] \in {"binding", "running", "failing", "failed"}
        /\ pc'[f] \in {"binding", "running"} => session'[f] # "none"
        /\ pc'[f] = "failed" => session'[f] \in {"none", "closed"}
    BY <2>1, <2>4
  <2>6. pc'[f] \notin {"idle", "waiting"} /\ released' = released
        /\ \A g \in Fibers \ {f} : pc'[g] = pc[g] /\ session'[g] = session[g]
    BY <2>1, <2>4
  <2> QED
    BY <1>1, <2>1, <2>3, <2>4, <2>5, <2>6, PastStep
<1>5. ASSUME NEW f \in Fibers,
             Build(f) \/ BuildFails(f) \/ Bind(f) \/ Close(f) \/ Closed(f) \/ OpenGate(f) \/ Fail(f)
      PROVE  GateInv'
  <2>1. pc[f] \notin {"idle", "waiting"}
    <3>1. CASE session[f] # "none"
      BY <3>1 DEF GateInv, Built
    <3>2. CASE session[f] = "none"
      BY <1>5, <3>2 DEF Build, BuildFails, Bind, Close, Closed, OpenGate, Fail
    <3> QED
      BY <3>1, <3>2
  <2>2. f \in Applied /\ f \in Past /\ ahead[f] \subseteq released
    BY <2>1 DEF Applied, Past, GateInv, PassedInTurn
  <2>3. pc'[f] \notin {"idle", "waiting"} /\ UNCHANGED gateVars
        /\ \A g \in Fibers \ {f} : pc'[g] = pc[g] /\ session'[g] = session[g]
    BY <1>1, <1>5, <2>1
    DEF Build, BuildFails, Bind, Close, Closed, OpenGate, Fail, Go, Typed
  <2>4. released' = released \/ released' = released \cup {f}
    BY <1>5 DEF Build, BuildFails, Bind, Close, Closed, OpenGate, Fail
  <2>5. f \in released' => session'[f] = "closed" \/ (pc'[f] = "failed" /\ session'[f] = "none")
    BY <1>1, <1>5
    DEF Build, BuildFails, Bind, Close, Closed, OpenGate, Fail, Go, Typed, GateInv, ReleasedClosed,
        Built
  <2>6. /\ session'[f] # "none" => pc'[f] \in {"binding", "running", "failing", "failed"}
        /\ pc'[f] \in {"binding", "running"} => session'[f] # "none"
        /\ pc'[f] = "failed" => session'[f] \in {"none", "closed"}
    BY <1>1, <1>5
    DEF Build, BuildFails, Bind, Close, Closed, OpenGate, Fail, Go, Typed, GateInv, Built
  <2> QED
    BY <1>1, <2>2, <2>3, <2>4, <2>5, <2>6, PastStep
<1>6. ASSUME NEW f \in Fibers, Dispose(f) PROVE GateInv'
  BY <1>1, <1>6 DEF Dispose, GateInv, gateVars, Chained, TailIsLast, Ordered, PassedInTurn,
     ReleasedClosed, Built, Applied, Past
<1> QED
  BY <1>2, <1>3, <1>4, <1>5, <1>6 DEF Next, Continue

THEOREM GateSafe == Spec => []GateInv
BY InitGate, GateStep, PTL DEF Spec

\* Two sessions over one manager never run at a time.
THEOREM SessionIsUnique == Spec => []OneSession
<1>1. ASSUME GateInv PROVE OneSession
  <2>1. Open \subseteq Past /\ Open \cap released = {} /\ Past \subseteq Applied
    BY <1>1 DEF GateInv, Open, Past, Applied, Built, ReleasedClosed, Typed
  <2> QED
    BY <1>1, <2>1 DEF GateInv, OneSession, Ordered, PassedInTurn
<1> QED
  BY <1>1, GateSafe, PTL

-----------------------------------------------------------------------------
(* The leases *)

\* How a step changes the leases that are held, and their number.
LEMMA HeldStep ==
    ASSUME Typed, LeaseInv, NEW f \in Fibers,
           \/ Held' = Held /\ leases' = leases
           \/ f \notin Held /\ Held' = Held \cup {f} /\ leases' = leases + 1
           \/ f \in Held /\ Held' = Held \ {f} /\ leases' = leases - 1
    PROVE  leases' \in Nat /\ leases' = Cardinality(Held')
<1>1. IsFiniteSet(Held) /\ Cardinality(Held) \in Nat
  BY FibersAssumption, FS_Subset, FS_CardinalityType DEF Held
<1>2. CASE f \notin Held /\ Held' = Held \cup {f} /\ leases' = leases + 1
  <2>1. Cardinality(Held \cup {f}) = Cardinality(Held) + 1
    BY <1>1, <1>2, FS_AddElement
  <2> QED
    BY <1>1, <1>2, <2>1 DEF LeaseInv
<1>3. CASE f \in Held /\ Held' = Held \ {f} /\ leases' = leases - 1
  <2>1. Cardinality(Held') = Cardinality(Held) - 1
    BY <1>1, <1>3, FS_RemoveElement
  <2>2. Cardinality(Held) # 0
    BY <1>1, <1>3, FS_EmptySet
  <2> QED
    BY <1>1, <1>3, <2>1, <2>2 DEF LeaseInv
<1>4. CASE Held' = Held /\ leases' = leases
  BY <1>4 DEF LeaseInv
<1> QED
  BY <1>2, <1>3, <1>4

LEMMA ReleaseStep ==
    ASSUME Typed, NEW f \in Fibers, Release(f)
    PROVE  /\ lease'[f] # "held"
           /\ lease'[f] = IF lease[f] = "held" THEN "released" ELSE lease[f]
           /\ \A g \in Fibers \ {f} : lease'[g] = lease[g]
           /\ \/ Held' = Held /\ leases' = leases
              \/ f \in Held /\ Held' = Held \ {f} /\ leases' = leases - 1
<1>1. CASE lease[f] = "held"
  BY <1>1 DEF Typed, Release, Held
<1>2. CASE lease[f] # "held"
  BY <1>2 DEF Typed, Release, Held, toolVars
<1> QED
  BY <1>1, <1>2

LEMMA LeaseStep == ASSUME GateInv, LeaseInv, [Next]_vars PROVE LeaseInv'
<1>1. Typed /\ Typed' /\ Leased /\ Built
  BY TypeStep DEF GateInv, LeaseInv
<1>2. ASSUME UNCHANGED toolVars PROVE leases' \in Nat /\ leases' = Cardinality(Held')
  BY <1>2 DEF LeaseInv, toolVars, Held
<1>3. CASE UNCHANGED vars
  BY <1>1, <1>2, <1>3 DEF LeaseInv, Leased, vars, toolVars
<1>4. ASSUME NEW f \in Fibers, Apply(f) \/ Build(f) \/ BuildFails(f) \/ Bind(f) \/ Close(f)
                               \/ Closed(f)
      PROVE  LeaseInv'
  <2>1. UNCHANGED toolVars
    BY <1>4 DEF Apply, Build, BuildFails, Bind, Close, Closed
  <2>2. Leased'
    BY <1>1, <1>4, <2>1
    DEF Apply, Build, BuildFails, Bind, Close, Closed, Leased, Typed, Go, toolVars
  <2> QED
    BY <1>2, <2>1, <2>2 DEF LeaseInv
<1>5. ASSUME NEW f \in Fibers, OpenGate(f) PROVE LeaseInv'
  <2>1. Leased' /\ UNCHANGED toolVars
    BY <1>1, <1>5 DEF OpenGate, Leased, Typed, toolVars
  <2> QED
    BY <1>2, <2>1 DEF LeaseInv
<1>6. ASSUME NEW f \in Fibers, Acquire(f) PROVE LeaseInv'
  <2>1. f \notin Held /\ Held' = Held \cup {f} /\ leases' = leases + 1
    BY <1>1, <1>6 DEF Acquire, Leased, Typed, Held
  <2>2. Leased'
    BY <1>1, <1>6 DEF Acquire, Leased, Typed, Go
  <2> QED
    BY <1>1, <2>1, <2>2, HeldStep DEF LeaseInv
<1>7. ASSUME NEW f \in Fibers, Fail(f) PROVE LeaseInv'
  <2>1. Release(f) /\ pc[f] = "failing"
    BY <1>7 DEF Fail
  <2>2. Leased'
    BY <1>1, <1>7, <2>1, ReleaseStep DEF Fail, Leased, Typed, Go
  <2> QED
    BY <1>1, <2>1, <2>2, ReleaseStep, HeldStep DEF LeaseInv
<1>8. ASSUME NEW f \in Fibers, Dispose(f) PROVE LeaseInv'
  <2>1. Release(f)
    BY <1>8 DEF Dispose
  <2>2. Leased'
    BY <1>1, <1>8, <2>1, ReleaseStep DEF Dispose, Leased, Typed
  <2> QED
    BY <1>1, <2>1, <2>2, ReleaseStep, HeldStep DEF LeaseInv
<1> QED
  BY <1>3, <1>4, <1>5, <1>6, <1>7, <1>8 DEF Next, Continue

LEMMA InitLease == ASSUME Init PROVE LeaseInv
<1>1. Held = {}
  BY DEF Init, Held
<1> QED
  BY <1>1, FS_EmptySet DEF Init, LeaseInv, Leased

THEOREM LeasesSafe == Spec => []LeaseInv
<1>1. Init => LeaseInv
  BY InitLease
<1>2. GateInv /\ LeaseInv /\ [Next]_vars => LeaseInv'
  BY LeaseStep
<1> QED
  BY <1>1, <1>2, GateSafe, PTL DEF Spec

\* While an activation that is not disposed has a session, the registry is leased.
THEOREM RegistryFrozen == Spec => []ToolsFrozen
<1>1. ASSUME LeaseInv PROVE ToolsFrozen
  <2>1. IsFiniteSet(Held)
    BY FibersAssumption, FS_Subset DEF Held
  <2>2. ASSUME NEW f \in Open \ disposed, pc[f] \in {"binding", "running"} PROVE leases > 0
    <3>1. f \in Held
      BY <1>1, <2>2 DEF LeaseInv, Leased, Held, Open
    <3>2. Cardinality(Held) # 0
      BY <2>1, <3>1, FS_EmptySet
    <3> QED
      BY <1>1, <3>2 DEF LeaseInv
  <2> QED
    BY <2>2 DEF ToolsFrozen
<1> QED
  BY <1>1, LeasesSafe, PTL

\* No lease survives the activations that took one.
THEOREM LeasesAreReturned == Spec => []LeasesEnd
<1>1. ASSUME LeaseInv PROVE LeasesEnd
  <2>1. SUFFICES ASSUME \A f \in Fibers : pc[f] \in {"idle", "failed"} \/ closer[f] = "over"
                 PROVE  leases = 0
    BY DEF LeasesEnd
  <2>2. Held = {}
    BY <1>1, <2>1 DEF LeaseInv, Leased, Held
  <2> QED
    BY <1>1, <2>2, FS_EmptySet DEF LeaseInv
<1> QED
  BY <1>1, LeasesSafe, PTL

\* The two together: the count says whether an activation still needs the lease.
THEOREM LeasesBalanced == Spec => []LeasesBalance
<1>1. ToolsFrozen /\ LeasesEnd => LeasesBalance
  BY DEF LeasesBalance
<1> QED
  BY <1>1, RegistryFrozen, LeasesAreReturned, PTL

\* Every variable of the gate keeps its type, and no gate is open before its
\* session is closed.
THEOREM TypeCorrect == Spec => []TypeOK
<1>1. ASSUME GateInv, LeaseInv PROVE TypeOK
  BY <1>1 DEF GateInv, LeaseInv, Typed, TypeOK, ReleasedClosed, Open
<1> QED
  BY <1>1, GateSafe, LeasesSafe, PTL
-----------------------------------------------------------------------------
(* The launcher *)

Mains == {"booting", "bootSettling", "running", "aborting", "finishing", "disposing",
          "flushing", "returned"}
Codes == {0, 1, 2, 75, 130, 143}

CliTyped ==
    /\ main \in Mains /\ context \in {"mounting", "live", "closing", "disposed"}
    /\ app \in {"none", "reading", "prompting", "flushing", "over"}
    /\ appCode \in Codes \cup {NoCode} /\ requested \in {NoCode, 75}
    /\ signals \in Nat
    /\ written \in Nat /\ acked \in Nat /\ target \in Nat

CliFlags ==
    /\ wroteOutput \in BOOLEAN /\ listening \in BOOLEAN /\ closed \in BOOLEAN
    /\ broken \in BOOLEAN /\ recent \in BOOLEAN

\* The plugin tree and the application at each place of runCli.
Places ==
    /\ context = "mounting" => main = "booting"
    /\ main = "booting" => context \in {"mounting", "closing", "disposed"}
    /\ main \in {"booting", "bootSettling"} => app = "none"
    /\ main \in {"running", "aborting", "finishing"} => context = "live"
    /\ main = "disposing" => context = "closing" /\ app \in {"none", "over"}
    /\ main = "returned" => context = "disposed" /\ app \in {"none", "over"}
    /\ app = "none" => main \notin {"running", "aborting", "finishing"}

\* What the application has said, and what of it has reached the reader.
Delivered ==
    /\ acked <= written
    /\ broken => acked = written
    /\ appCode # NoCode <=> app \in {"flushing", "over"}
    /\ appCode = 0 => wroteOutput
    /\ app = "flushing" => target = written
    /\ app = "over" => broken \/ acked = written

Cause(code) ==
    \/ code = appCode /\ app = "over"
    \/ code = requested
    \/ code \in {Cli!signalExitCode(s) : s \in Cli!Signals} /\ (signals > 0 \/ ~listening)
    \/ code = 1 /\ app = "none"

\* Past the race of runCli a code is decided, and nothing else leaves.
Decided ==
    /\ IF main \in {"booting", "running"} THEN resultCode = NoCode
       ELSE resultCode # NoCode /\ Cause(resultCode)
    /\ main = "running" => requested = NoCode
    /\ exit # NoCode => Cause(exit)

CliInv == CliTyped /\ CliFlags /\ Places /\ Delivered /\ Decided
LEMMA SignalCodes == {Cli!signalExitCode(s) : s \in Cli!Signals} = {130, 143}
BY DEF Cli!signalExitCode, Cli!Signals

LEMMA CliInit == ASSUME Cli!Init PROVE CliInv
<1> USE CliConstants DEF Cli!NoCodeAssumption, Cli!Init
<1>1. CliTyped
  BY DEF CliTyped, Mains, Codes
<1>2. Places
  BY DEF Places
<1>3. Delivered
  BY DEF Delivered
<1>4. Decided
  BY DEF Decided
<1>5. CliFlags
  BY DEF CliFlags
<1> QED
  BY <1>1, <1>2, <1>3, <1>4, <1>5 DEF CliInv

LEMMA CliNextStep == ASSUME CliInv, Cli!Next PROVE CliInv'
<1> USE CliConstants, SignalCodes DEF CliInv, CliTyped, CliFlags, Places, Delivered, Decided, Cause, Mains, Codes,
       Cli!NoCodeAssumption, Cli!mainVars, Cli!appVars, Cli!signalVars, Cli!streamVars, Cli!Alive, Cli!shutdownAborted,
       Cli!Finally, Cli!Wrote, Cli!flush, Cli!Ends, Cli!Counts, Cli!Fresh, Cli!FinalCodes, Cli!Signals,
       Cli!PI_HARNESS_RESTART_EXIT_CODE, Cli!PROMPT_CANCELLED_EXIT_CODE, Cli!signalExitCode
<1>1. CASE Cli!WriteSettles
  BY <1>1 DEF Cli!WriteSettles
<1>2. CASE Cli!markBroken
  BY <1>2 DEF Cli!markBroken
<1>3. CASE Cli!TreeDisposed
  <2>1. CliTyped'
    BY <1>3 DEF Cli!TreeDisposed
  <2>2. Places'
    BY <1>3 DEF Cli!TreeDisposed
  <2>3. Delivered'
    BY <1>3 DEF Cli!TreeDisposed
  <2>4. Decided'
    BY <1>3 DEF Cli!TreeDisposed
  <2>5. CliFlags'
    BY <1>3 DEF Cli!TreeDisposed
  <2> QED
    BY <2>1, <2>2, <2>3, <2>4, <2>5 DEF CliInv
<1>4. CASE Cli!Deadline
  BY <1>4 DEF Cli!Deadline
<1>5. CASE Cli!FlushEnds
  BY <1>5 DEF Cli!FlushEnds
<1>6. CASE Cli!Exits
  BY <1>6 DEF Cli!Exits
<1>7. CASE Cli!Diagnostic
  BY <1>7 DEF Cli!Diagnostic
<1>8. CASE Cli!BootReady
  BY <1>8 DEF Cli!BootReady
<1>9. CASE Cli!BootWithoutApplication
  <2>1. CliTyped'
    BY <1>9 DEF Cli!BootWithoutApplication
  <2>2. Places'
    BY <1>9 DEF Cli!BootWithoutApplication
  <2>3. Delivered'
    BY <1>9 DEF Cli!BootWithoutApplication
  <2>4. Decided'
    BY <1>9 DEF Cli!BootWithoutApplication
  <2>5. CliFlags'
    BY <1>9 DEF Cli!BootWithoutApplication
  <2> QED
    BY <2>1, <2>2, <2>3, <2>4, <2>5 DEF CliInv
<1>10. CASE Cli!BootFails
  BY <1>10 DEF Cli!BootFails
<1>11. CASE Cli!RequestExit
  BY <1>11 DEF Cli!RequestExit
<1>12. CASE Cli!readPrompt
  BY <1>12 DEF Cli!readPrompt
<1>13. CASE Cli!question
  BY <1>13 DEF Cli!question
<1>14. CASE Cli!writeSessionEvent
  BY <1>14 DEF Cli!writeSessionEvent
<1>15. CASE Cli!prompt
  BY <1>15 DEF Cli!prompt
<1>16. CASE Cli!Cancelled
  BY <1>16 DEF Cli!Cancelled
<1>17. CASE Cli!AppReturns
  <2>1. CliTyped'
    BY <1>17 DEF Cli!AppReturns
  <2>2. Places'
    BY <1>17 DEF Cli!AppReturns
  <2>3. Delivered'
    BY <1>17 DEF Cli!AppReturns
  <2>4. Decided'
    BY <1>17 DEF Cli!AppReturns
  <2>5. CliFlags'
    BY <1>17 DEF Cli!AppReturns
  <2> QED
    BY <2>1, <2>2, <2>3, <2>4, <2>5 DEF CliInv
<1>18. CASE Cli!RuntimeAborted
  <2>1. CliTyped'
    BY <1>18 DEF Cli!RuntimeAborted
  <2>2. Places'
    BY <1>18 DEF Cli!RuntimeAborted
  <2>3. Delivered'
    BY <1>18 DEF Cli!RuntimeAborted
  <2>4. Decided'
    BY <1>18 DEF Cli!RuntimeAborted
  <2>5. CliFlags'
    BY <1>18 DEF Cli!RuntimeAborted
  <2> QED
    BY <2>1, <2>2, <2>3, <2>4, <2>5 DEF CliInv
<1>19. CASE Cli!WindowEnds
  <2>1. CliTyped'
    BY <1>19 DEF Cli!WindowEnds
  <2>2. Places'
    BY <1>19 DEF Cli!WindowEnds
  <2>3. Delivered'
    BY <1>19 DEF Cli!WindowEnds
  <2>4. Decided'
    BY <1>19 DEF Cli!WindowEnds
  <2>5. CliFlags'
    BY <1>19 DEF Cli!WindowEnds
  <2> QED
    BY <2>1, <2>2, <2>3, <2>4, <2>5 DEF CliInv
<1>20. ASSUME NEW s \in Cli!Signals, Cli!FirstSignal(s) PROVE CliInv'
  BY <1>20 DEF Cli!FirstSignal
<1>21. ASSUME NEW s \in Cli!Signals, Cli!SecondSignal(s) PROVE CliInv'
  BY <1>21 DEF Cli!SecondSignal
<1>22. ASSUME NEW s \in Cli!Signals, Cli!Killed(s) PROVE CliInv'
  BY <1>22 DEF Cli!Killed
<1> QED
  BY <1>1, <1>2, <1>3, <1>4, <1>5, <1>6, <1>7, <1>8, <1>9, <1>10, <1>11, <1>12, <1>13, <1>14, <1>15, <1>16, <1>17, <1>18, <1>19, <1>20, <1>21, <1>22, SMTT(20) DEF Cli!Next, Cli!Shutdown, Cli!Boot, Cli!Application, Cli!Signal, Cli!Stream

-----------------------------------------------------------------------------
(* The supervisor *)

SupTyped ==
    /\ now \in Nat /\ child \in {"running", "backoff", "gone"}
    /\ restarts \in Seq(Nat) /\ history \in Seq(Nat)
    /\ result \in Nat \cup {NoResult}

\* The window holds the last of the restarts that were granted; those it has
\* shifted out are older than the window.
Shed == Len(history) - Len(restarts)

Window ==
    /\ \A i \in 1..Len(history) : history[i] <= now
    /\ result = NoResult =>
         /\ Len(restarts) <= RESTART_WINDOW_LIMIT /\ Shed >= 0
         /\ \A i \in 1..Len(restarts) : restarts[i] = history[Shed + i]
         /\ \A i \in 1..Len(history) : i <= Shed => now - history[i] > RESTART_WINDOW

SupInv == SupTyped /\ Window /\ Sup!RestartsBounded /\ Sup!NoChildLeft

LEMMA SupInit == ASSUME Sup!Init PROVE SupInv
<1> USE SupConstants DEF Sup!RestartAssumption, Sup!Init
<1>1. SupTyped
  BY DEF SupTyped
<1>2. Window
  BY DEF Window, Shed
<1>3. Sup!RestartsBounded /\ Sup!NoChildLeft
  BY DEF Sup!RestartsBounded, Sup!NoChildLeft
<1> QED
  BY <1>1, <1>2, <1>3 DEF SupInv

\* The limit of restarts when a restart is granted: the one that is as far back
\* has left the window.
LEMMA Granted ==
    ASSUME SupInv, result = NoResult, NEW n \in 0..Len(restarts), Sup!Shifted(restarts, n),
           NEW times, times = Append(SubSeq(restarts, n + 1, Len(restarts)), now)
    PROVE  /\ times \in Seq(Nat) /\ Len(times) = Len(restarts) - n + 1
           /\ \A i \in 1..Len(times) : times[i] = IF i = Len(times) THEN now ELSE restarts[n + i]
           /\ times[1] + RESTART_WINDOW >= now
           /\ \A i \in 1..Len(history) : i <= Shed + n => now - history[i] > RESTART_WINDOW
<1> USE SupConstants DEF Sup!RestartAssumption, SupInv, SupTyped
<1> DEFINE left == SubSeq(restarts, n + 1, Len(restarts))
<1>0. /\ left \in Seq(Nat) /\ Len(left) = Len(restarts) - n
      /\ \A i \in 1..Len(left) : left[i] = restarts[n + i]
  <2>1. restarts \in Seq(Nat) /\ Len(restarts) \in Nat /\ n \in 0..Len(restarts)
    OBVIOUS
  <2> QED
    BY ONLY <2>1, SMTT(30) DEF left
<1> HIDE DEF left
<1>1. times \in Seq(Nat) /\ Len(times) = Len(restarts) - n + 1
  BY <1>0 DEF left
<1>2. \A i \in 1..Len(times) : times[i] = IF i = Len(times) THEN now ELSE restarts[n + i]
  BY <1>0, <1>1 DEF left
<1>3. times[1] + RESTART_WINDOW >= now
  BY <1>1, <1>2 DEF Sup!Shifted
<1>4. ASSUME NEW i \in 1..Len(history), i <= Shed + n PROVE now - history[i] > RESTART_WINDOW
  <2>1. CASE i <= Shed
    BY <2>1 DEF Window
  <2>2. CASE i > Shed
    <3>1. Shed \in Nat /\ i - Shed \in 1..n
      BY <1>4, <2>2 DEF Window, Shed
    <3>2. history[i] = restarts[i - Shed]
      BY <3>1 DEF Window
    <3> QED
      BY <3>1, <3>2 DEF Sup!Shifted
  <2> QED
    BY <2>1, <2>2 DEF Shed
<1> QED
  BY <1>1, <1>2, <1>3, <1>4

LEMMA SupNextStep == ASSUME SupInv, Sup!Next PROVE SupInv'
<1>1. /\ now \in Nat /\ Len(history) \in Nat /\ Len(restarts) \in Nat
      /\ \A i \in 1..Len(history) : history[i] \in Nat
      /\ \A i \in 1..Len(restarts) : restarts[i] \in Nat
      /\ RESTART_WINDOW \in Nat /\ RESTART_WINDOW_LIMIT \in Nat
  BY SupConstants DEF Sup!RestartAssumption, SupInv, SupTyped
<1>2. SupTyped /\ Window /\ Sup!RestartsBounded /\ Sup!NoChildLeft
  BY DEF SupInv
<1>3. CASE Sup!Tick
  <2>1. /\ Shed' = Shed /\ now' = now + 1 /\ history' = history /\ restarts' = restarts
        /\ result = NoResult /\ result' = result /\ child' = child
    BY <1>3 DEF Sup!Tick, Shed
  <2>2. SupTyped'
    BY <1>1, <1>2, <2>1 DEF SupTyped
  <2>3. Window'
    BY <1>1, <1>2, <2>1 DEF Window
  <2>4. Sup!RestartsBounded' /\ Sup!NoChildLeft'
    BY <1>1, <1>2, <2>1 DEF Window, Sup!RestartsBounded, Sup!NoChildLeft
  <2> QED
    BY <2>2, <2>3, <2>4 DEF SupInv
<1>4. ASSUME NEW code \in Sup!Codes, Sup!ChildExits(code) PROVE SupInv'
  <2>1. PICK n \in 0..Len(restarts) :
          LET times == Append(SubSeq(restarts, n + 1, Len(restarts)), now) IN
            /\ Sup!Shifted(restarts, n)
            /\ IF code # Sup!RESTART
               THEN child' = "gone" /\ result' = code /\ UNCHANGED <<restarts, history>>
               ELSE /\ restarts' = times
                    /\ IF Sup!GivesUp(times)
                       THEN child' = "gone" /\ result' = 1 /\ UNCHANGED history
                       ELSE child' = "backoff" /\ history' = Append(history, now) /\ UNCHANGED result
    BY <1>4 DEF Sup!ChildExits
  <2>2. result = NoResult /\ now' = now
    BY <1>4 DEF Sup!ChildExits
  <2>3. Shed \in Nat
    BY <1>1, <1>2, <2>2 DEF Window, Shed
  <2> DEFINE times == Append(SubSeq(restarts, n + 1, Len(restarts)), now)
  <2>4. /\ times \in Seq(Nat) /\ Len(times) = Len(restarts) - n + 1
        /\ \A i \in 1..Len(times) : times[i] = IF i = Len(times) THEN now ELSE restarts[n + i]
        /\ times[1] + RESTART_WINDOW >= now
        /\ \A i \in 1..Len(history) : i <= Shed + n => now - history[i] > RESTART_WINDOW
    BY <2>1, <2>2, Granted
  <2>5. CASE code # Sup!RESTART
    <3>1. restarts' = restarts /\ child' = "gone" /\ history' = history /\ result' = code
      BY <2>1, <2>5
    <3>2. code \in Nat /\ code # 75 /\ NoResult \notin Nat
      BY <2>5, SupConstants DEF Sup!RestartAssumption, Sup!Codes, Sup!RESTART
    <3> QED
      BY <1>1, <1>2, <2>2, <3>1, <3>2
      DEF Sup!RESTART, SupInv, SupTyped, Window, Sup!RestartsBounded, Sup!NoChildLeft
  <2>6. CASE code = Sup!RESTART /\ Sup!GivesUp(times)
    <3>1. restarts' = times /\ child' = "gone" /\ history' = history /\ result' = 1
      BY <2>1, <2>6
    <3>2. NoResult # 1
      BY SupConstants DEF Sup!RestartAssumption
    <3> HIDE DEF times
    <3>3. SupTyped' /\ Window' /\ Sup!NoChildLeft'
      BY <1>1, <1>2, <2>2, <2>4, <3>1, <3>2 DEF Sup!RESTART, SupTyped, Window, Sup!NoChildLeft
    <3>4. Sup!RestartsBounded'
      BY <1>1, <1>2, <2>2, <2>4, <3>1 DEF Sup!RestartsBounded
    <3> QED
      BY <3>3, <3>4 DEF SupInv
  <2>7. CASE code = Sup!RESTART /\ ~Sup!GivesUp(times)
    <3>1. restarts' = times /\ child' = "backoff" /\ history' = Append(history, now)
          /\ result' = NoResult
      BY <2>1, <2>2, <2>7
    <3>2. Len(times) <= RESTART_WINDOW_LIMIT
      BY <2>7, <2>4, <1>1 DEF Sup!GivesUp
    <3> HIDE DEF times
    <3>3. SupTyped'
      BY <1>2, <2>2, <2>4, <3>1 DEF SupTyped
    <3>4. Len(history') = Len(history) + 1
          /\ \A i \in 1..Len(history') : history'[i] = IF i = Len(history') THEN now ELSE history[i]
      BY <1>2, <3>1 DEF SupTyped
    <3>5. Shed' = Shed + n
      <4>1. Len(restarts') = Len(restarts) - n + 1 /\ Len(history') = Len(history) + 1
        BY <2>4, <3>1, <3>4
      <4>2. n \in Nat
        BY <1>1
      <4> QED
        BY <1>1, <4>1, <4>2 DEF Shed
    <3>6. Window'
      <4>1. ASSUME NEW i \in 1..Len(history') PROVE history'[i] <= now'
        BY <1>1, <1>2, <2>2, <3>4, SMTT(20) DEF Window
      <4>2. ASSUME NEW i \in 1..Len(restarts') PROVE restarts'[i] = history'[Shed' + i]
        <5>1. /\ i \in 1..Len(times)
              /\ restarts'[i] = IF i = Len(times) THEN now ELSE restarts[n + i]
          BY <2>4, <3>1
        <5>2. Shed + n + Len(times) = Len(history')
          BY <1>1, <2>4, <3>4 DEF Shed
        <5>3. CASE i = Len(times)
          BY <1>1, <2>3, <3>4, <3>5, <5>1, <5>2, <5>3
        <5>4. CASE i # Len(times)
          <6>1. n + i \in 1..Len(restarts)
            BY <1>1, <2>4, <5>1, <5>4, SMTT(20)
          <6>2. Shed + n + i \in 1..Len(history') /\ Shed + n + i # Len(history')
            <7>1. i \in Nat /\ i >= 1 /\ i < Len(times) /\ n \in Nat /\ Len(times) \in Nat
              <8>1. Len(times) = Len(restarts) - n + 1 /\ n \in Nat /\ i \in 1..Len(times)
                BY <1>1, <2>4, <5>1
              <8> QED
                BY <1>1, <8>1, <5>4
            <7>2. Len(history') \in Nat
              BY <1>1, <3>4
            <7> QED
              BY <2>3, <5>2, <7>1, <7>2
          <6>3. history'[Shed' + i] = history[Shed + n + i]
            BY <3>4, <3>5, <6>2
          <6>4. restarts[n + i] = history[Shed + (n + i)]
            BY <1>2, <2>2, <6>1 DEF Window
          <6>5. Shed + (n + i) = Shed + n + i
            BY <2>3, <5>1, <2>4
          <6> QED
            BY <5>1, <5>4, <6>3, <6>4, <6>5
        <5> QED
          BY <5>3, <5>4
      <4>3. ASSUME NEW i \in 1..Len(history'), i <= Shed' PROVE now' - history'[i] > RESTART_WINDOW
        <5>1. i # Len(history') /\ i \in 1..Len(history)
          BY <1>1, <2>3, <2>4, <3>4, <3>5, <4>3, SMTT(20) DEF Shed
        <5> QED
          BY <5>1, <4>3, <2>2, <2>4, <3>4, <3>5
      <4>4. Len(restarts') <= RESTART_WINDOW_LIMIT /\ Shed' >= 0
        BY <2>3, <3>1, <3>2, <3>5
      <4> QED
        BY <4>1, <4>2, <4>3, <4>4 DEF Window
    <3>7. Sup!RestartsBounded'
      <4>1. ASSUME NEW i \in 1..Len(history'), i + RESTART_WINDOW_LIMIT <= Len(history')
            PROVE  history'[i + RESTART_WINDOW_LIMIT] - history'[i] > RESTART_WINDOW
        <5>1. CASE i + RESTART_WINDOW_LIMIT = Len(history')
          <6>1. RESTART_WINDOW_LIMIT > 0 /\ Len(times) \in Nat
            BY <1>1, <2>4, <3>2
          <6>2. i \in 1..Len(history) /\ i # Len(history')
            BY <1>1, <3>4, <5>1, <6>1
          <6>3. Shed + n + Len(times) = Len(history')
            BY <1>1, <2>4, <3>4 DEF Shed
          <6>4. i <= Shed + n
            BY <1>1, <2>3, <3>2, <5>1, <6>1, <6>3
          <6> QED
            BY <2>4, <3>4, <5>1, <6>2, <6>4
        <5>2. CASE i + RESTART_WINDOW_LIMIT # Len(history')
          <6>1. i \in 1..Len(history) /\ i + RESTART_WINDOW_LIMIT \in 1..Len(history)
            BY <1>1, <3>4, <4>1, <5>2
          <6>2. history'[i] = history[i]
                /\ history'[i + RESTART_WINDOW_LIMIT] = history[i + RESTART_WINDOW_LIMIT]
            BY <1>1, <3>4, <6>1
          <6> QED
            BY <1>1, <1>2, <6>1, <6>2 DEF Sup!RestartsBounded
        <5> QED
          BY <5>1, <5>2
      <4>2. Len(restarts') <= RESTART_WINDOW_LIMIT /\ Len(times) \in Nat
        BY <2>4, <3>1, <3>2
      <4>3. ~(Len(restarts') > RESTART_WINDOW_LIMIT)
        BY <1>1, <3>1, <4>2
      <4> QED
        BY <4>1, <4>3 DEF Sup!RestartsBounded
    <3> QED
      BY <3>1, <3>3, <3>6, <3>7 DEF SupInv, Sup!NoChildLeft
  <2> QED
    BY <2>5, <2>6, <2>7
<1>5. CASE Sup!Error \/ Sup!Respawn \/ Sup!Signal
  <2>1. /\ now' = now /\ history' = history /\ restarts' = restarts /\ result = NoResult
        /\ result' \in {NoResult, 1, 130} /\ child' \in {"running", "backoff", "gone"}
        /\ result' # NoResult => child' = "gone"
    BY <1>2, <1>5 DEF SupTyped, Sup!Error, Sup!Respawn, Sup!Signal
  <2>2. SupTyped' /\ Shed' = Shed
    BY <1>2, <2>1 DEF SupTyped, Shed
  <2>3. Window'
    BY <1>2, <2>1, <2>2 DEF Window
  <2>4. Sup!RestartsBounded'
    BY <1>2, <2>1 DEF Sup!RestartsBounded
  <2>5. Sup!NoChildLeft'
    BY <2>1 DEF Sup!NoChildLeft, Sup!RESTART
  <2> QED
    BY <2>2, <2>3, <2>4, <2>5 DEF SupInv
<1> QED
  BY <1>3, <1>4, <1>5 DEF Sup!Next

-----------------------------------------------------------------------------
(* The harness home *)

HomeTyped ==
    /\ builtin \in Nat /\ current \in Nat \cup {Absent, Edited} /\ seed \in Nat \cup {Absent}
    /\ launch \in {"none", "booted", "reading", "seeding"}
    /\ crashes \in Nat /\ touched \in BOOLEAN

\* A content that is not a release's is an edit, and no seed is one.
EditsMarked == touched <=> current = Edited

\* The seed is behind the copy only between the two writes of a launch, until a
\* launch stops there.
SeedFollows ==
    /\ launch = "seeding" => current = builtin
    /\ crashes = 0 /\ ~touched /\ launch # "seeding" => seed = current

HomeInv == HomeTyped /\ EditsMarked /\ SeedFollows /\ Home!UntouchedFollows

-----------------------------------------------------------------------------
(* The web server *)

\* The heads that are written, by the place of the answer.
HeadsWritten ==
    /\ req \in [Requests -> {"idle", "handling", "streaming", "index", "body", "answered", "destroyed"}]
    /\ heads \in [Requests -> Nat]
    /\ \A r \in Requests :
         /\ req[r] \in {"idle", "handling", "index"} => heads[r] = 0
         /\ req[r] \in {"streaming", "body", "answered"} => heads[r] = 1
         /\ heads[r] <= 1

LEMMA HomeInit == ASSUME Home!Init PROVE HomeInv
<1> USE HomeConstants DEF Home!ContentAssumption, Home!Init
<1>1. HomeTyped
  BY DEF HomeTyped
<1>2. EditsMarked /\ SeedFollows /\ Home!UntouchedFollows
  BY DEF EditsMarked, SeedFollows, Home!UntouchedFollows
<1> QED
  BY <1>1, <1>2 DEF HomeInv

LEMMA HomeNextStep == ASSUME HomeInv, Home!Next PROVE HomeInv' /\ (touched => touched')
<1> USE HomeConstants
    DEF Home!ContentAssumption, HomeInv, HomeTyped, EditsMarked, SeedFollows, Home!UntouchedFollows
<1>1. CASE Home!Release
  BY <1>1 DEF Home!Release
<1>2. CASE Home!Begin
  BY <1>2 DEF Home!Begin
<1>3. CASE Home!WriteProfile
  BY <1>3 DEF Home!WriteProfile, Home!Replaced
<1>4. CASE Home!WriteSeed
  BY <1>4 DEF Home!WriteSeed, Home!Replaced, Home!Repaired
<1>5. CASE Home!LeaveAlone
  BY <1>5 DEF Home!LeaveAlone, Home!Replaced, Home!Repaired
<1>6. CASE Home!Crash
  BY <1>6 DEF Home!Crash
<1>7. CASE Home!Edit
  BY <1>7 DEF Home!Edit
<1> QED
  BY <1>1, <1>2, <1>3, <1>4, <1>5, <1>6, <1>7 DEF Home!Next

\* Whichever branch of prepareHarnessProfile is taken, the inspection has it.
LEMMA ReportStep ==
    ASSUME HomeInv, Home!Next, launch = "reading", launch' \in {"seeding", "booted"}
    PROVE  current' = Home!Report
<1> USE DEF Home!Report
<1>1. CASE Home!WriteProfile
  BY <1>1 DEF Home!WriteProfile, Home!Replaced
<1>2. CASE Home!WriteSeed \/ Home!LeaveAlone
  BY <1>2 DEF Home!WriteSeed, Home!LeaveAlone, Home!Replaced, Home!Repaired
<1>3. CASE Home!Release \/ Home!Begin \/ Home!Crash \/ Home!Edit
  BY <1>3 DEF Home!Release, Home!Begin, Home!Crash, Home!Edit
<1> QED
  BY <1>1, <1>2, <1>3 DEF Home!Next

LEMMA WebInit == ASSUME Web!Init PROVE HeadsWritten
BY DEF Web!Init, HeadsWritten

LEMMA WebNextStep == ASSUME HeadsWritten, Web!Next PROVE HeadsWritten'
<1> USE DEF HeadsWritten, Web!Answers
<1>1. ASSUME NEW o \in Owners, Web!Register(o) \/ Web!Dispose(o) PROVE HeadsWritten'
  BY <1>1 DEF Web!Register, Web!Dispose, Web!EndStreams
<1>2. ASSUME NEW r \in Requests, Web!Arrive(r) PROVE HeadsWritten'
  BY <1>2 DEF Web!Arrive
<1>3. ASSUME NEW r \in Requests, Web!WriteHead(r) \/ Web!FileFails(r) \/ Web!ClientGone(r)
      PROVE  HeadsWritten'
  BY <1>3 DEF Web!WriteHead, Web!FileFails, Web!ClientGone, Web!HeadersSent
<1>4. ASSUME NEW r \in Requests, Web!Proceeds(r) PROVE HeadsWritten'
  BY <1>4 DEF Web!Proceeds, Web!End, Web!Throws, Web!HeadersSent
<1>5. CASE Web!Close \/ Web!Closed
  BY <1>5 DEF Web!Close, Web!Closed
<1> QED
  BY <1>1, <1>2, <1>3, <1>4, <1>5 DEF Web!Next

\* The path changes hands through its owner's disposal only.
LEMMA RouteStep ==
    ASSUME Web!Next, NEW o \in Owners, route = o, route' # o PROVE o \in over'
<1>1. ASSUME NEW p \in Owners, Web!Register(p) \/ (route = p /\ Web!Dispose(p)) PROVE o \in over'
  BY <1>1, WebConstants DEF Web!OwnersAssumption, Web!Register, Web!Free, Web!Dispose
<1>2. ASSUME NEW r \in Requests, Web!Arrive(r) \/ Web!WriteHead(r) \/ Web!Proceeds(r)
             \/ Web!FileFails(r) \/ Web!ClientGone(r)
      PROVE  FALSE
  BY <1>2 DEF Web!Arrive, Web!WriteHead, Web!Proceeds, Web!End, Web!Throws, Web!FileFails, Web!ClientGone
<1>3. CASE Web!Close \/ Web!Closed
  BY <1>3 DEF Web!Close, Web!Closed
<1> QED
  BY <1>1, <1>2, <1>3 DEF Web!Next

-----------------------------------------------------------------------------
(* The event stream *)

StreamTyped ==
    /\ running \in Sessions
    /\ run \in {"none", "starting", "active", "settling", "stopping"}
    /\ executing \subseteq Calls
    /\ toolCallStartedAt \in Seq(Calls)
    /\ runActivity \in [session : Sessions \cup {NoSession}, phase : Stream!Phases]

\* Pi's flags at each place of its run.
RunFlags ==
    /\ isStreaming <=> run \in {"starting", "active", "stopping"}
    /\ isCompacting => run \in {"none", "active"} /\ executing = {}
    /\ isCompacting /\ summary => run = "none"
    /\ run # "active" => executing = {}

\* The calls that are kept are calls of this run that execute; all of them, while
\* none was dropped.
CallsKept ==
    /\ IsInjective(toolCallStartedAt)
    /\ run = "active" => /\ ToSet(toolCallStartedAt) \subseteq executing
                         /\ ~dropped => executing \subseteq ToSet(toolCallStartedAt)

\* A phase of the session that is no longer true is a left-over from before the
\* run's agent_start.
PhaseReal ==
    runActivity.session = running =>
        /\ runActivity.phase = "compacting" /\ ~isCompacting => run \in {"none", "starting"}
        /\ runActivity.phase = "tool" /\ run = "active" => executing # {}
        /\ run = "stopping" => runActivity.phase \notin {"tool", "compacting"}

StreamInv == StreamTyped /\ RunFlags /\ CallsKept /\ PhaseReal

LEMMA Appended ==
    ASSUME NEW S, NEW s \in Seq(S), IsInjective(s), NEW c \in S, c \notin ToSet(s)
    PROVE  /\ Append(s, c) \in Seq(S) /\ IsInjective(Append(s, c))
           /\ ToSet(Append(s, c)) = ToSet(s) \cup {c}
<1> DEFINE t == Append(s, c)
<1>1. t \in Seq(S) /\ Len(t) = Len(s) + 1 /\ DOMAIN t = 1..Len(t) /\ DOMAIN s = 1..Len(s)
      /\ Len(s) \in Nat /\ \A i \in 1..Len(t) : t[i] = IF i = Len(t) THEN c ELSE s[i]
  OBVIOUS
<1> HIDE DEF t
<1>2. IsInjective(t)
  BY <1>1 DEF IsInjective, ToSet
<1>3. ToSet(t) = ToSet(s) \cup {c}
  <2>1. \A i \in DOMAIN s : i \in DOMAIN t /\ t[i] = s[i]
    BY <1>1
  <2>2. Len(t) \in DOMAIN t /\ t[Len(t)] = c
    BY <1>1
  <2>3. \A i \in DOMAIN t : t[i] = c \/ (i \in DOMAIN s /\ t[i] = s[i])
    BY <1>1
  <2> QED
    BY <2>1, <2>2, <2>3 DEF ToSet
<1> QED
  BY <1>1, <1>2, <1>3 DEF t

LEMMA TailDropped ==
    ASSUME NEW S, NEW s \in Seq(S), IsInjective(s), Len(s) > 0
    PROVE  Tail(s) \in Seq(S) /\ IsInjective(Tail(s)) /\ ToSet(Tail(s)) \subseteq ToSet(s)
<1> DEFINE t == Tail(s)
<1>1. t \in Seq(S) /\ DOMAIN t = 1..(Len(s) - 1) /\ DOMAIN s = 1..Len(s) /\ Len(s) \in Nat
      /\ \A i \in DOMAIN t : t[i] = s[i + 1]
  OBVIOUS
<1> HIDE DEF t
<1>2. \A i \in DOMAIN t : i \in Nat /\ i + 1 \in DOMAIN s /\ t[i] = s[i + 1]
  BY <1>1
<1>3. IsInjective(t)
  BY <1>2 DEF IsInjective
<1>4. ToSet(t) \subseteq ToSet(s)
  BY <1>2 DEF ToSet
<1> QED
  BY <1>1, <1>3, <1>4 DEF t

LEMMA Removed ==
    ASSUME NEW S, NEW s \in Seq(S), IsInjective(s), NEW k \in DOMAIN s
    PROVE  /\ RemoveAt(s, k) \in Seq(S) /\ IsInjective(RemoveAt(s, k))
           /\ ToSet(RemoveAt(s, k)) = ToSet(s) \ {s[k]}
<1> DEFINE t == RemoveAt(s, k)
           a == SubSeq(s, 1, k - 1)
           b == SubSeq(s, k + 1, Len(s))
<1>1. Len(s) \in Nat /\ DOMAIN s = 1..Len(s) /\ k \in 1..Len(s)
  OBVIOUS
<1>2. a \in Seq(S) /\ Len(a) = k - 1 /\ \A i \in 1..Len(a) : a[i] = s[i]
  BY <1>1
<1>3. b \in Seq(S) /\ Len(b) = Len(s) - k /\ \A i \in 1..Len(b) : b[i] = s[k + i]
  BY <1>1
<1> HIDE DEF a, b
<1>4. t = a \o b
  BY DEF RemoveAt, a, b
<1>5. t \in Seq(S) /\ Len(t) = Len(a) + Len(b) /\ DOMAIN t = 1..Len(t)
      /\ \A i \in 1..Len(t) : t[i] = IF i <= Len(a) THEN a[i] ELSE b[i - Len(a)]
  BY <1>2, <1>3, <1>4, ConcatProperties
<1> HIDE DEF t
<1>6. \A i \in DOMAIN t : t[i] = s[IF i < k THEN i ELSE i + 1]
                          /\ (IF i < k THEN i ELSE i + 1) \in DOMAIN s \ {k}
  <2> TAKE i \in DOMAIN t
  <2>1. CASE i < k
    BY <1>1, <1>2, <1>5, <2>1, <1>3
  <2>2. CASE i >= k
    <3>1. i - Len(a) \in 1..Len(b) /\ k + (i - Len(a)) = i + 1 /\ ~(i <= Len(a))
      BY <1>1, <1>2, <1>3, <1>5, <2>2, SMTT(20)
    <3> QED
      BY <1>1, <1>3, <1>5, <2>2, <3>1, SMTT(20)
  <2> QED
    BY <1>1, <1>5, <2>1, <2>2
<1>7. \A j \in DOMAIN s \ {k} : \E i \in DOMAIN t : j = IF i < k THEN i ELSE i + 1
  <2> TAKE j \in DOMAIN s \ {k}
  <2>1. CASE j < k
    BY <1>1, <1>2, <1>3, <1>5, <2>1
  <2>2. CASE j > k
    <3>1. j - 1 \in DOMAIN t /\ ~(j - 1 < k) /\ j = (j - 1) + 1
      BY <1>1, <1>2, <1>3, <1>5, <2>2
    <3> QED
      BY <3>1
  <2> QED
    BY <1>1, <2>1, <2>2
<1>8. IsInjective(t)
  <2> SUFFICES ASSUME NEW i \in DOMAIN t, NEW j \in DOMAIN t, t[i] = t[j] PROVE i = j
    BY DEF IsInjective
  <2>1. (IF i < k THEN i ELSE i + 1) = (IF j < k THEN j ELSE j + 1)
    BY <1>6 DEF IsInjective
  <2>2. i \in Nat /\ j \in Nat /\ k \in Nat
    BY <1>1, <1>5
  <2> QED
    BY <2>1, <2>2
<1>9. ToSet(t) = ToSet(s) \ {s[k]}
  <2>1. ASSUME NEW i \in DOMAIN t PROVE t[i] \in ToSet(s) \ {s[k]}
    BY <1>6 DEF IsInjective, ToSet
  <2>2. ASSUME NEW j \in DOMAIN s, s[j] # s[k] PROVE s[j] \in ToSet(t)
    <3>1. PICK i \in DOMAIN t : j = IF i < k THEN i ELSE i + 1
      BY <1>7, <2>2
    <3>2. t[i] = s[j]
      BY <1>6, <3>1
    <3> QED
      BY <3>2 DEF ToSet
  <2> QED
    BY <2>1, <2>2 DEF ToSet
<1> QED
  BY <1>5, <1>8, <1>9 DEF t

LEMMA StreamInit == ASSUME Stream!Init PROVE StreamInv
<1> USE DEF Stream!Init
<1>1. StreamTyped
  BY DEF StreamTyped, Stream!None, Stream!Phases
<1>2. RunFlags
  BY DEF RunFlags
<1>3. CallsKept
  BY DEF CallsKept, IsInjective
<1>4. PhaseReal
  BY StreamConstants DEF Stream!CallsAssumption, PhaseReal, Stream!None
<1> QED
  BY <1>1, <1>2, <1>3, <1>4 DEF StreamInv

\* The calls that are noted, and those that are left when one ends.
LEMMA NotedKept ==
    ASSUME StreamInv, NEW c \in Calls, c \notin ToSet(toolCallStartedAt)
    PROVE  LET full == Len(toolCallStartedAt) >= MAX_PENDING_TOOL_CALLS IN
           /\ Stream!Noted(c) \in Seq(Calls) /\ IsInjective(Stream!Noted(c))
           /\ ToSet(Stream!Noted(c)) \subseteq ToSet(toolCallStartedAt) \cup {c}
           /\ ~full => ToSet(Stream!Noted(c)) = ToSet(toolCallStartedAt) \cup {c}
<1> USE DEF StreamInv, StreamTyped, CallsKept
<1>1. CASE Len(toolCallStartedAt) >= MAX_PENDING_TOOL_CALLS
  <2>1. Len(toolCallStartedAt) > 0
    BY <1>1, StreamConstants DEF Stream!CallsAssumption
  <2>2. /\ Tail(toolCallStartedAt) \in Seq(Calls) /\ IsInjective(Tail(toolCallStartedAt))
        /\ ToSet(Tail(toolCallStartedAt)) \subseteq ToSet(toolCallStartedAt)
    BY <2>1, TailDropped
  <2> QED
    <3>1. Stream!Noted(c) = Append(Tail(toolCallStartedAt), c)
      BY <1>1 DEF Stream!Noted
    <3>2. c \notin ToSet(Tail(toolCallStartedAt))
      BY <2>2
    <3>3. /\ Append(Tail(toolCallStartedAt), c) \in Seq(Calls)
          /\ IsInjective(Append(Tail(toolCallStartedAt), c))
          /\ ToSet(Append(Tail(toolCallStartedAt), c)) = ToSet(Tail(toolCallStartedAt)) \cup {c}
      BY <2>2, <3>2, Appended
    <3> QED
      BY <1>1, <2>2, <3>1, <3>3
<1>2. CASE ~(Len(toolCallStartedAt) >= MAX_PENDING_TOOL_CALLS)
  BY <1>2, Appended DEF Stream!Noted
<1> QED
  BY <1>1, <1>2

LEMMA DeletedKept ==
    ASSUME StreamInv, NEW c
    PROVE  /\ Stream!Deleted(c) \in Seq(Calls) /\ IsInjective(Stream!Deleted(c))
           /\ ToSet(Stream!Deleted(c)) = ToSet(toolCallStartedAt) \ {c}
           /\ Stream!Deleted(c) # << >> <=> ToSet(toolCallStartedAt) \ {c} # {}
<1> USE DEF StreamInv, StreamTyped, CallsKept
<1> DEFINE k == CHOOSE i \in DOMAIN toolCallStartedAt : toolCallStartedAt[i] = c
<1>1. /\ Stream!Deleted(c) \in Seq(Calls) /\ IsInjective(Stream!Deleted(c))
      /\ ToSet(Stream!Deleted(c)) = ToSet(toolCallStartedAt) \ {c}
  <2>1. CASE c \in ToSet(toolCallStartedAt)
    <3>1. k \in DOMAIN toolCallStartedAt /\ toolCallStartedAt[k] = c
      BY <2>1 DEF ToSet
    <3>2. Stream!Deleted(c) = RemoveAt(toolCallStartedAt, k)
      BY <2>1, Zenon DEF Stream!Deleted, Stream!ToSet, Stream!RemoveAt, ToSet, RemoveAt
    <3> HIDE DEF k
    <3> QED
      BY <3>1, <3>2, Removed
  <2>2. CASE c \notin ToSet(toolCallStartedAt)
    <3>1. Stream!Deleted(c) = toolCallStartedAt
      BY <2>2, Zenon DEF Stream!Deleted, Stream!ToSet, ToSet
    <3> QED
      BY <2>2, <3>1
  <2> QED
    BY <2>1, <2>2
<1>2. ASSUME NEW s \in Seq(Calls) PROVE s # << >> <=> ToSet(s) # {}
  <2>1. CASE s = << >>
    BY <2>1 DEF ToSet
  <2>2. CASE s # << >>
    <3>1. 1 \in DOMAIN s
      BY <2>2, EmptySeq
    <3> QED
      BY <2>2, <3>1 DEF ToSet
  <2> QED
    BY <2>1, <2>2
<1> QED
  BY <1>1, <1>2

LEMMA NoneTyped == Stream!None \in [session : Sessions \cup {NoSession}, phase : Stream!Phases]
BY DEF Stream!None, Stream!Phases

LEMMA EmptyCalls == << >> \in Seq(Calls) /\ IsInjective(<< >>) /\ ToSet(<< >>) = {}
BY DEF IsInjective, ToSet

LEMMA NotRunning == Stream!None.session = NoSession
BY DEF Stream!None

\* The end of a run, in its two orders, and what follows it.
LEMMA EndKept == ASSUME StreamInv, Stream!RunEnds PROVE StreamInv'
<1>1. /\ executing' = {} /\ running' = running /\ run = "active" /\ ~isCompacting
      /\ isCompacting' = isCompacting /\ summary' = summary
  BY DEF Stream!RunEnds
<1>2. CASE run' = "settling" /\ isStreaming' = FALSE /\ UNCHANGED Stream!gateway
  <2>1. toolCallStartedAt' = toolCallStartedAt /\ runActivity' = runActivity
    BY <1>2 DEF Stream!gateway
  <2>2. StreamTyped'
    BY <1>1, <1>2, <2>1 DEF StreamInv, StreamTyped
  <2>3. RunFlags'
    BY <1>1, <1>2 DEF RunFlags
  <2>4. CallsKept' /\ PhaseReal'
    BY <1>1, <1>2, <2>1 DEF StreamInv, CallsKept, PhaseReal
  <2> QED
    BY <2>2, <2>3, <2>4 DEF StreamInv
<1>3. CASE run' = "stopping" /\ UNCHANGED isStreaming /\ Stream!Bounds("agent_settled")
  <2>1. toolCallStartedAt' = << >> /\ runActivity' = Stream!None
    BY <1>3 DEF Stream!Bounds
  <2>2. StreamTyped'
    BY <1>1, <1>3, <2>1, NoneTyped, EmptyCalls DEF StreamInv, StreamTyped
  <2>3. RunFlags'
    <3>1. isStreaming
      BY <1>1 DEF StreamInv, RunFlags
    <3> QED
      BY <1>1, <1>3, <3>1 DEF RunFlags
  <2>4. CallsKept'
    BY <1>3, <2>1, EmptyCalls DEF CallsKept
  <2>5. PhaseReal'
    BY <1>1, <2>1, NotRunning, StreamConstants DEF StreamInv, StreamTyped, Stream!CallsAssumption, PhaseReal
  <2> QED
    BY <2>2, <2>3, <2>4, <2>5 DEF StreamInv
<1> QED
  BY <1>2, <1>3 DEF Stream!RunEnds

LEMMA OverKept == ASSUME StreamInv, Stream!RunOver PROVE StreamInv'
<1>1. /\ executing' = executing /\ run' = "none" /\ running' = running /\ run \in {"settling", "stopping"}
      /\ isCompacting' = isCompacting /\ summary' = summary /\ isStreaming' = FALSE
  BY DEF Stream!RunOver
<1>2. \/ toolCallStartedAt' = toolCallStartedAt /\ runActivity' = runActivity
      \/ toolCallStartedAt' = << >> /\ runActivity' = Stream!None
  BY DEF Stream!RunOver, Stream!Bounds, Stream!gateway
<1>3. StreamTyped'
  BY <1>1, <1>2, NoneTyped, EmptyCalls DEF StreamInv, StreamTyped
<1>4. RunFlags'
  BY <1>1 DEF StreamInv, RunFlags
<1>5. CallsKept'
  BY <1>1, <1>2, EmptyCalls DEF StreamInv, CallsKept
<1>6. PhaseReal'
  BY <1>1, <1>2, NotRunning, StreamConstants DEF StreamInv, StreamTyped, Stream!CallsAssumption, PhaseReal
<1> QED
  BY <1>3, <1>4, <1>5, <1>6 DEF StreamInv

LEMMA StreamNextStep == ASSUME StreamInv, Stream!Next PROVE StreamInv'
<1> USE StreamConstants
    DEF Stream!CallsAssumption, StreamInv, StreamTyped, RunFlags, CallsKept, PhaseReal, Stream!Phases,
        Stream!None, Stream!Activity, Stream!HasRun, Stream!Moves, Stream!pi, Stream!gateway
<1>1. CASE Stream!RunBegins
  BY <1>1 DEF Stream!RunBegins
<1>2. CASE Stream!AgentStarts
  BY <1>2 DEF Stream!AgentStarts, Stream!Bounds, IsInjective, ToSet
<1>3. CASE Stream!MessageUpdate
  BY <1>3 DEF Stream!MessageUpdate, Stream!Delta, Stream!CurrentPhase
<1>4. CASE Stream!RunEnds
  BY <1>4, EndKept
<1>5. CASE Stream!RunOver
  BY <1>5, OverKept
<1>6. ASSUME NEW c \in Calls, Stream!CallStarts(c) PROVE StreamInv'
  <2>1. c \notin ToSet(toolCallStartedAt)
    BY <1>6 DEF Stream!CallStarts
  <2> QED
    <3>1. /\ toolCallStartedAt' = Stream!Noted(c) /\ executing' = executing \cup {c}
          /\ dropped' = (dropped \/ Len(toolCallStartedAt) >= MAX_PENDING_TOOL_CALLS)
          /\ run = "active" /\ run' = run
      BY <1>6 DEF Stream!CallStarts, Stream!ToolStart
    <3>2. CallsKept'
      <4>1. IsInjective(Stream!Noted(c))
        BY <2>1, NotedKept
      <4>2. ToSet(Stream!Noted(c)) \subseteq executing'
        BY <2>1, <3>1, NotedKept
      <4>3. ASSUME ~dropped' PROVE executing' \subseteq ToSet(Stream!Noted(c))
        <5>1. ~dropped /\ ~(Len(toolCallStartedAt) >= MAX_PENDING_TOOL_CALLS)
          BY <3>1, <4>3, Zenon
        <5>2. executing \subseteq ToSet(toolCallStartedAt)
          BY <3>1, <5>1
        <5>3. ToSet(Stream!Noted(c)) = ToSet(toolCallStartedAt) \cup {c}
          BY <2>1, <5>1, NotedKept, Zenon
        <5> QED
          BY <3>1, <5>2, <5>3
      <4> QED
        BY <3>1, <4>1, <4>2, <4>3
    <3>3. StreamTyped'
      BY <1>6, <2>1, <3>1, NotedKept DEF Stream!CallStarts, Stream!ToolStart
    <3>4. RunFlags' /\ PhaseReal'
      BY <1>6 DEF Stream!CallStarts, Stream!ToolStart
    <3> QED
      BY <3>2, <3>3, <3>4
<1>7. ASSUME NEW c \in Calls, Stream!CallProgresses(c) PROVE StreamInv'
  BY <1>7 DEF Stream!CallProgresses, Stream!ToolUpdate
<1>8. ASSUME NEW c \in Calls, Stream!CallEnds(c) PROVE StreamInv'
  BY <1>8, DeletedKept DEF Stream!CallEnds, Stream!ToolEnd, Stream!PhaseAfter
<1>9. CASE Stream!CompactionBegins
  BY <1>9 DEF Stream!CompactionBegins, Stream!Bounds
<1>10. CASE Stream!CompactionEnds
  BY <1>10 DEF Stream!CompactionEnds, Stream!Bounds
<1>11. CASE Stream!SessionReplaced
  BY <1>11 DEF Stream!SessionReplaced
<1>12. CASE Stream!Status
  BY <1>12 DEF Stream!Status, Stream!Reconciled, Stream!Busy
<1> QED
  BY <1>1, <1>2, <1>3, <1>4, <1>5, <1>6, <1>7, <1>8, <1>9, <1>10, <1>11, <1>12 DEF Stream!Next

\* The phase a completion carries.
LEMMA CompletionStep ==
    ASSUME StreamInv, Stream!Next, NEW c \in Calls, c \in executing, executing' = executing \ {c},
           run' = "active"
    PROVE  /\ executing' = {} => runPhase' = "starting"
           /\ executing' # {} /\ ~dropped => runPhase' = "tool"
<1>1. PICK d \in Calls : Stream!CallEnds(d)
  BY DEF StreamInv, RunFlags, Stream!Next, Stream!RunBegins, Stream!AgentStarts, Stream!MessageUpdate,
     Stream!RunEnds, Stream!RunOver, Stream!CallStarts, Stream!CallProgresses, Stream!CompactionBegins,
     Stream!CompactionEnds, Stream!SessionReplaced, Stream!Status, Stream!pi
<1>2. d = c /\ run = "active" /\ isStreaming
  BY <1>1 DEF Stream!CallEnds, StreamInv, RunFlags
<1>3. runPhase' = Stream!PhaseAfter(Stream!Deleted(c))
  BY <1>1, <1>2 DEF Stream!CallEnds, Stream!ToolEnd, Stream!HasRun
<1>4. /\ Stream!Deleted(c) # << >> <=> ToSet(toolCallStartedAt) \ {c} # {}
      /\ ToSet(toolCallStartedAt) \subseteq executing
      /\ ~dropped => executing \subseteq ToSet(toolCallStartedAt)
  BY <1>2, DeletedKept DEF StreamInv, CallsKept
<1> QED
  BY <1>3, <1>4 DEF Stream!PhaseAfter

\* What /api/status answers.
LEMMA StatusStep ==
    ASSUME StreamInv, Stream!Status
    PROVE  /\ (answer' # Stream!None) <=> Stream!Busy
           /\ answer' # Stream!None /\ run # "starting" =>
                /\ answer'.session = running
                /\ answer'.phase = "compacting" <=> isCompacting
                /\ answer'.phase = "tool" => executing # {}
<1> USE StreamConstants
    DEF Stream!CallsAssumption, StreamInv, StreamTyped, RunFlags, PhaseReal, Stream!Status, Stream!Reconciled,
        Stream!Busy, Stream!None, Stream!Activity
<1>1. CASE ~Stream!Busy
  BY <1>1
<1>2. CASE Stream!Busy
  <2>1. runActivity'.session = running
    BY <1>2
  <2>2. answer' = [session |-> running,
                   phase |-> IF isCompacting THEN "compacting" ELSE runActivity'.phase]
    BY <1>2, <2>1
  <2>3. answer' # Stream!None
    BY <2>2
  <2>4. ~isCompacting /\ run # "starting" =>
          /\ runActivity'.phase # "compacting"
          /\ runActivity'.phase = "tool" => executing # {}
    BY <1>2
  <2> QED
    BY <1>2, <2>2, <2>3, <2>4
<1> QED
  BY <1>1, <1>2

-----------------------------------------------------------------------------
(* The process *)

\* A step of the process is a step of a part, or leaves it alone.
LEMMA PartSteps ==
    ASSUME [CoreNext]_coreVars
    PROVE  /\ [Next]_vars /\ [Cli!Next]_(Cli!cliVars) /\ [Sup!Next]_(Sup!supVars)
           /\ [Home!Next]_(Home!homeVars) /\ [Web!Next]_(Web!webVars) /\ [Stream!Next]_(Stream!vars)
<1> USE DEF gate, cli, sup, home, web, stream
<1>1. UNCHANGED gate \/ Next
  BY DEF CoreNext, coreVars
<1>2. UNCHANGED cli \/ Cli!Next
  BY DEF CoreNext, coreVars
<1>3. UNCHANGED sup \/ Sup!Next
  BY DEF CoreNext, coreVars
<1>4. UNCHANGED home \/ Home!Next
  BY DEF CoreNext, coreVars
<1>5. UNCHANGED web \/ Web!Next
  BY DEF CoreNext, coreVars
<1>6. UNCHANGED stream \/ Stream!Next
  BY DEF CoreNext, coreVars
<1>7. [Next]_vars
  BY <1>1 DEF vars, gateVars, toolVars
<1>8. [Cli!Next]_(Cli!cliVars)
  BY <1>2 DEF Cli!cliVars, Cli!mainVars, Cli!appVars, Cli!signalVars, Cli!streamVars
<1>9. [Sup!Next]_(Sup!supVars)
  BY <1>3 DEF Sup!supVars
<1>10. [Home!Next]_(Home!homeVars)
  BY <1>4 DEF Home!homeVars
<1>11. [Web!Next]_(Web!webVars)
  BY <1>5 DEF Web!webVars
<1>12. [Stream!Next]_(Stream!vars)
  BY <1>6 DEF Stream!vars, Stream!pi, Stream!gateway
<1> QED
  BY <1>7, <1>8, <1>9, <1>10, <1>11, <1>12

\* What holds at rest of a part holds after a stutter of it.
LEMMA CliStep == ASSUME CliInv, [Cli!Next]_(Cli!cliVars) PROVE CliInv'
<1>1. CASE UNCHANGED Cli!cliVars
  <2>1. UNCHANGED <<main, resultCode, context, app, appCode, wroteOutput, signals, recent, listening,
                    requested, closed, written, acked, target, broken, exit>>
    BY <1>1 DEF Cli!cliVars, Cli!mainVars, Cli!appVars, Cli!signalVars, Cli!streamVars
  <2>2. CliTyped' /\ CliFlags'
    BY <2>1 DEF CliInv, CliTyped, CliFlags
  <2>3. Places' /\ Delivered'
    BY <2>1 DEF CliInv, Places, Delivered
  <2>4. Decided'
    BY <2>1 DEF CliInv, Decided, Cause
  <2> QED
    BY <2>2, <2>3, <2>4 DEF CliInv
<1> QED
  BY <1>1, CliNextStep

LEMMA SupStep == ASSUME SupInv, [Sup!Next]_(Sup!supVars) PROVE SupInv'
<1>1. CASE UNCHANGED Sup!supVars
  BY <1>1 DEF Sup!supVars, SupInv, SupTyped, Window, Shed, Sup!RestartsBounded, Sup!NoChildLeft
<1> QED
  BY <1>1, SupNextStep

LEMMA HomeStep == ASSUME HomeInv, [Home!Next]_(Home!homeVars) PROVE HomeInv'
<1>1. CASE UNCHANGED Home!homeVars
  BY <1>1 DEF Home!homeVars, HomeInv, HomeTyped, EditsMarked, SeedFollows, Home!UntouchedFollows
<1> QED
  BY <1>1, HomeNextStep

LEMMA WebStep == ASSUME HeadsWritten, [Web!Next]_(Web!webVars) PROVE HeadsWritten'
<1>1. CASE UNCHANGED Web!webVars
  BY <1>1 DEF Web!webVars, HeadsWritten
<1> QED
  BY <1>1, WebNextStep

LEMMA StreamStep == ASSUME StreamInv, [Stream!Next]_(Stream!vars) PROVE StreamInv'
<1>1. CASE UNCHANGED Stream!vars
  BY <1>1 DEF Stream!vars, Stream!pi, Stream!gateway, StreamInv, StreamTyped, RunFlags, CallsKept, PhaseReal
<1> QED
  BY <1>1, StreamNextStep

THEOREM PartsSafe == CoreSpec => [](CliInv /\ SupInv /\ HomeInv /\ HeadsWritten /\ StreamInv)
<1> DEFINE PartsInv == CliInv /\ SupInv /\ HomeInv /\ HeadsWritten /\ StreamInv
<1>1. CoreInit => PartsInv
  BY CliInit, SupInit, HomeInit, WebInit, StreamInit DEF CoreInit
<1>2. PartsInv /\ [CoreNext]_coreVars => PartsInv'
  BY PartSteps, CliStep, SupStep, HomeStep, WebStep, StreamStep
<1> QED
  BY <1>1, <1>2, PTL DEF CoreSpec

\* The gate of a process is the gate: its theorems are about CoreSpec as well.
THEOREM GateOfTheProcess == CoreSpec => Spec
<1>1. CoreInit => Init
  BY DEF CoreInit
<1>2. [CoreNext]_coreVars => [Next]_vars
  BY PartSteps
<1> QED
  BY <1>1, <1>2, PTL DEF CoreSpec, Spec

\* What leaves with 0 has answered in full, every exit code has a cause, nothing
\* of the harness is left running, and restarts keep to their rate, however
\* signals, writes and disposals interleave.
THEOREM ExitsAreTruthful == CoreSpec => []ExitIsTruthful
<1>1. ASSUME CliInv, SupInv PROVE ExitIsTruthful
  <2>1. Cli!SuccessIsDelivered
    BY <1>1, CliConstants, SignalCodes
    DEF CliInv, CliTyped, Places, Delivered, Decided, Cause, Cli!SuccessIsDelivered, Cli!NoCodeAssumption, Codes
  <2>2. Cli!CodeIsDecided /\ Cli!NothingLeft
    BY <1>1 DEF CliInv, Places, Decided, Cause, Cli!CodeIsDecided, Cli!NothingLeft
  <2> QED
    BY <1>1, <2>1, <2>2 DEF SupInv, ExitIsTruthful
<1> QED
  BY <1>1, PartsSafe, PTL

\* No launch overwrites an edit, an inspection has what the next launch boots, and
\* a copy that nobody touched follows the releases.
THEOREM NoEditIsLost == CoreSpec => EditsKept
<1>1. HomeInv /\ [CoreNext]_coreVars => [touched => touched']_(Home!homeVars)
  BY PartSteps, HomeNextStep
<1>2. HomeInv /\ [CoreNext]_coreVars
         => [launch = "reading" /\ launch' \in {"seeding", "booted"} => current' = Home!Report]_(Home!homeVars)
  BY PartSteps, ReportStep
<1>3. HomeInv => Home!UntouchedFollows
  BY DEF HomeInv
<1> QED
  BY <1>1, <1>2, <1>3, PartsSafe, PTL DEF CoreSpec, EditsKept, Home!EditsKept, Home!ReportIsNextBoot

\* A response has one head, whoever writes it, and a path goes with its owner.
THEOREM HeadsAndRoutes == CoreSpec => OneHeadOneOwner
<1>1. HeadsWritten /\ [CoreNext]_coreVars
         => [\A r \in Requests : heads[r]' <= 1 /\ (req[r]' = "answered" => heads[r]' = 1)]_(Web!webVars)
  <2>1. HeadsWritten /\ [CoreNext]_coreVars => HeadsWritten'
    BY PartSteps, WebStep
  <2> QED
    BY <2>1 DEF HeadsWritten
<1>2. [CoreNext]_coreVars
         => [\A o \in Owners : route = o /\ route' # o => o \in over']_(Web!webVars)
  BY PartSteps, RouteStep
<1> QED
  BY <1>1, <1>2, PartsSafe, PTL DEF CoreSpec, OneHeadOneOwner, Web!HeadOnce, Web!RouteOwned

\* A completion and /api/status say what the session is doing, across aborts,
\* summaries, replaced sessions and calls that never end.
THEOREM StatusIsTruthful == CoreSpec => StatusTruthful
<1>1. StreamInv /\ [CoreNext]_coreVars
         => [\A c \in Calls : c \in executing /\ executing' = executing \ {c} /\ run' = "active"
               => /\ executing' = {} => runPhase' = "starting"
                  /\ executing' # {} /\ ~dropped => runPhase' = "tool"]_(Stream!vars)
  BY PartSteps, CompletionStep
<1>2. StreamInv /\ [CoreNext]_coreVars
         => [Stream!Status =>
               /\ (answer' # Stream!None) <=> Stream!Busy
               /\ answer' # Stream!None /\ run # "starting" =>
                     /\ answer'.session = running
                     /\ answer'.phase = "compacting" <=> isCompacting
                     /\ answer'.phase = "tool" => executing # {}]_(Stream!vars)
  BY StatusStep
<1> QED
  BY <1>1, <1>2, PartsSafe, PTL DEF CoreSpec, StatusTruthful, Stream!CompletionPhase, Stream!StatusTruthful
=============================================================================
