---------------------------- MODULE StorageProofs ----------------------------
(* What MC_Storage keeps, for every value of its constants.  The parts come    *)
(* with their invariants: those of GatewayFiles from GatewayFilesProofs, those *)
(* of SharedFiles from SharedFilesProofs, and those of the plugins that count  *)
(* from this module, which begins with what a sum over a function's values is. *)
EXTENDS MC_Storage, SharedFilesProofs, GatewayFilesProofs, SequenceTheorems, WellFoundedInduction

-----------------------------------------------------------------------------
(* Sums *)

\* A set of subsets of a finite set has a smallest one.
LEMMA SmallestSubset ==
    ASSUME NEW S, IsFiniteSet(S), NEW T, T \subseteq SUBSET S, T # {}
    PROVE  \E s \in T : \A t \in T : t \subseteq s => t = s
<1>1. IsWellFoundedOn(StrictSubsetOrdering(S), SUBSET S)
  BY FS_StrictSubsetOrderingWellFounded, FS_FiniteSubsetsOfFinite
<1>2. PICK s \in T : \A t \in T : ~(<<t, s>> \in StrictSubsetOrdering(S))
  BY <1>1, WFMin
<1>3. ASSUME NEW t \in T, t \subseteq s, t # s PROVE FALSE
  BY <1>2, <1>3 DEF StrictSubsetOrdering
<1> QED
  BY <1>2, <1>3

\* A function that adds up f over each set of its indices, in whatever order.
Adds(g, f) ==
    /\ g \in [SUBSET DOMAIN f -> Nat]
    /\ g[{}] = 0
    /\ \A s \in SUBSET DOMAIN f : \A x \in s : g[s] = f[x] + g[s \ {x}]

\* What SumFunction computes: the indices one after the other, as CHOOSE has them.
Unfolds(h, f) == h = [s \in SUBSET DOMAIN f |-> IF s = {} THEN 0
                        ELSE f[CHOOSE x \in s : TRUE] + h[s \ {CHOOSE x \in s : TRUE}]]

\* SumFunction is the value of such an unfolding at all indices.
LEMMA SumUnfolds ==
    ASSUME NEW f, NEW g, Unfolds(g, f)
    PROVE  \E h : Unfolds(h, f) /\ SumFunction(f) = h[DOMAIN f]
<1> DEFINE h == CHOOSE i : Unfolds(i, f)
<1>1. Unfolds(h, f)
  BY Zenon
<1>2. SumFunction(f) = h[DOMAIN f]
  BY DEF SumFunction, SumFunctionOnSet, FoldFunctionOnSet, MapThenFoldSet, Unfolds
<1> QED
  BY <1>1, <1>2

\* What adds up in every order unfolds in the order of CHOOSE.
LEMMA AddsUnfolds == ASSUME NEW f, NEW g, Adds(g, f) PROVE Unfolds(g, f)
<1>1. ASSUME NEW s \in SUBSET DOMAIN f, s # {}
      PROVE  g[s] = f[CHOOSE x \in s : TRUE] + g[s \ {CHOOSE x \in s : TRUE}]
  <2>1. (CHOOSE x \in s : TRUE) \in s
    BY <1>1
  <2> QED
    BY <2>1 DEF Adds
<1>2. g[{}] = 0 /\ g \in [SUBSET DOMAIN f -> Nat]
  BY DEF Adds
<1>3. g = [s \in SUBSET DOMAIN f |-> IF s = {} THEN 0
                        ELSE f[CHOOSE x \in s : TRUE] + g[s \ {CHOOSE x \in s : TRUE}]]
  BY <1>1, <1>2
<1> QED
  BY <1>3 DEF Unfolds

\* SumFunction is the total of whatever function adds up: a smallest set of
\* indices on which the two differed would be empty or have one of them less.
LEMMA SumIs ==
    ASSUME NEW f, IsFiniteSet(DOMAIN f), NEW g, Adds(g, f)
    PROVE  SumFunction(f) = g[DOMAIN f]
<1> DEFINE D == DOMAIN f
<1>1. PICK h : Unfolds(h, f) /\ SumFunction(f) = h[D]
  BY SumUnfolds, AddsUnfolds
<1> DEFINE T == {s \in SUBSET D : h[s] # g[s]}
<1>2. ASSUME T # {} PROVE FALSE
  <2>0. T \subseteq SUBSET D
    OBVIOUS
  <2>1. PICK s \in T : \A t \in T : t \subseteq s => t = s
    <3> HIDE DEF T
    <3> QED
      BY <1>2, <2>0, SmallestSubset
  <2>2. s # {}
    BY <1>1, <2>1 DEF Unfolds, Adds
  <2>3. PICK x \in s : x = CHOOSE y \in s : TRUE
    BY <2>2
  <2>4. h[s \ {x}] = g[s \ {x}]
    BY <2>1, <2>3
  <2>5. h[s] = f[x] + h[s \ {x}]
    BY <1>1, <2>2, <2>3 DEF Unfolds
  <2>6. g[s] = f[x] + g[s \ {x}]
    BY <2>3 DEF Adds
  <2> QED
    BY <2>4, <2>5, <2>6
<1> QED
  BY <1>1, <1>2

\* Such a function exists, by a smallest set of indices for which it did not.
LEMMA SomethingAdds ==
    ASSUME NEW S, IsFiniteSet(S), NEW f \in [S -> Nat]
    PROVE  \E g : Adds(g, f)
<1> DEFINE F(d) == [i \in d |-> f[i]]
           T == {d \in SUBSET S : ~ \E g : Adds(g, F(d))}
<1>1. ASSUME T # {} PROVE FALSE
  <2>0. T \subseteq SUBSET S
    OBVIOUS
  <2>1. PICK d \in T : \A e \in T : e \subseteq d => e = d
    <3> HIDE DEF T
    <3> QED
      BY <1>1, <2>0, SmallestSubset
  <2>2. CASE d = {}
    <3> DEFINE g == [s \in {{}} |-> 0]
    <3>1. Adds(g, F({}))
      BY DEF Adds
    <3> QED
      BY <2>1, <2>2, <3>1
  <2>3. CASE d # {}
    <3>1. PICK x \in d : TRUE
      BY <2>3
    <3>2. PICK g : Adds(g, F(d \ {x}))
      BY <2>1, <3>1
    <3>3. /\ g \in [SUBSET (d \ {x}) -> Nat] /\ g[{}] = 0
          /\ \A s \in SUBSET (d \ {x}) : \A y \in s : g[s] = f[y] + g[s \ {y}]
      BY <3>2 DEF Adds
    <3>4. d \subseteq S /\ \A y \in d : f[y] \in Nat
      OBVIOUS
    <3> DEFINE h == [s \in SUBSET d |-> IF x \in s THEN f[x] + g[s \ {x}] ELSE g[s]]
    <3>5. h \in [SUBSET d -> Nat]
      <4>1. ASSUME NEW s \in SUBSET d PROVE h[s] \in Nat
        <5>1. CASE x \in s
          BY <3>3, <3>4, <5>1
        <5>2. CASE x \notin s
          <6>1. s \in SUBSET (d \ {x})
            BY <5>2
          <6> QED
            BY <3>3, <5>2, <6>1
        <5> QED
          BY <5>1, <5>2
      <4> QED
        BY <4>1
    <3>6. h[{}] = 0
      BY <3>3
    <3>7. ASSUME NEW s \in SUBSET d, NEW y \in s PROVE h[s] = f[y] + h[s \ {y}]
      <4>1. CASE y = x
        BY <4>1
      <4>2. CASE y # x /\ x \in s
        <5>1. g[s \ {x}] = f[y] + g[(s \ {x}) \ {y}]
          BY <3>3, <4>2
        <5>2. (s \ {x}) \ {y} = (s \ {y}) \ {x}
          OBVIOUS
        <5>3. h[s \ {y}] = f[x] + g[(s \ {y}) \ {x}]
          BY <4>2
        <5>4. g[(s \ {y}) \ {x}] \in Nat /\ f[x] \in Nat /\ f[y] \in Nat
          BY <3>3, <3>4
        <5>5. h[s] = f[x] + g[s \ {x}]
          BY <4>2
        <5>6. PICK n \in Nat : n = g[(s \ {y}) \ {x}]
          BY <5>4
        <5>7. h[s] = f[x] + (f[y] + n) /\ h[s \ {y}] = f[x] + n
          BY <5>1, <5>2, <5>3, <5>5, <5>6, Zenon
        <5> HIDE DEF h
        <5> QED
          BY <5>4, <5>7
      <4>3. CASE x \notin s
        <5>1. s \in SUBSET (d \ {x})
          BY <4>3
        <5>2. g[s] = f[y] + g[s \ {y}]
          BY <3>3, <5>1
        <5>3. h[s] = g[s] /\ h[s \ {y}] = g[s \ {y}]
          BY <4>3
        <5> QED
          BY <5>2, <5>3
      <4> QED
        BY <4>1, <4>2, <4>3
    <3>8. DOMAIN F(d) = d /\ \A y \in d : F(d)[y] = f[y]
      OBVIOUS
    <3> HIDE DEF h, F
    <3>9. Adds(h, F(d))
      BY <3>5, <3>6, <3>7, <3>8 DEF Adds
    <3> QED
      BY <2>1, <3>9
  <2> QED
    BY <2>2, <2>3
<1>2. PICK g : Adds(g, F(S))
  BY <1>1
<1>3. F(S) = f
  OBVIOUS
<1> QED
  BY <1>2, <1>3

\* The two together.
LEMMA SumAdds ==
    ASSUME NEW S, IsFiniteSet(S), NEW f \in [S -> Nat]
    PROVE  \E g : Adds(g, f) /\ SumFunction(f) = g[S]
<1>1. PICK g : Adds(g, f)
  BY SomethingAdds
<1>2. DOMAIN f = S
  OBVIOUS
<1> QED
  BY <1>1, <1>2, SumIs

\* The sum over no index.
LEMMA SumEmpty == ASSUME NEW f \in [{} -> Nat] PROVE SumFunction(f) = 0
<1>1. PICK g : Adds(g, f) /\ SumFunction(f) = g[{}]
  BY SumAdds, FS_EmptySet
<1> QED
  BY <1>1 DEF Adds

\* One index is added last.
Peeled(S, f, x, e) ==
    /\ IsFiniteSet(S) /\ f \in [S -> Nat] /\ x \in S
    /\ e \in [S \ {x} -> Nat] /\ \A i \in S \ {x} : e[i] = f[i]

\* One index less is one value less.
LEMMA SumLess ==
    ASSUME NEW S, NEW f, NEW x, NEW e, Peeled(S, f, x, e)
    PROVE  SumFunction(f) = f[x] + SumFunction(e) /\ SumFunction(f) \in Nat /\ SumFunction(e) \in Nat
<1>0. /\ IsFiniteSet(S) /\ f \in [S -> Nat] /\ x \in S
      /\ e \in [S \ {x} -> Nat] /\ \A i \in S \ {x} : e[i] = f[i]
  BY DEF Peeled
<1>1. PICK g : Adds(g, f) /\ SumFunction(f) = g[S]
  BY <1>0, SumAdds
<1>2. /\ g \in [SUBSET S -> Nat] /\ g[{}] = 0
      /\ \A s \in SUBSET S : \A y \in s : g[s] = f[y] + g[s \ {y}]
  BY <1>0, <1>1 DEF Adds
<1> DEFINE h == [s \in SUBSET (S \ {x}) |-> g[s]]
<1>3. h \in [SUBSET (S \ {x}) -> Nat] /\ h[{}] = 0
  BY <1>2
<1>4. ASSUME NEW s \in SUBSET (S \ {x}), NEW y \in s PROVE h[s] = e[y] + h[s \ {y}]
  BY <1>0, <1>2
<1>5. Adds(h, e)
  <2>1. DOMAIN e = S \ {x}
    BY <1>0
  <2> HIDE DEF h
  <2> QED
    BY <1>3, <1>4, <2>1 DEF Adds
<1>6. IsFiniteSet(S \ {x})
  BY <1>0, FS_RemoveElement
<1>7. SumFunction(e) = h[S \ {x}]
  <2>1. DOMAIN e = S \ {x}
    BY <1>0
  <2> QED
    BY <1>5, <1>6, <2>1, SumIs
<1> QED
  BY <1>0, <1>1, <1>2, <1>3, <1>7

\* The order of the indices does not matter.
Renamed(S, f, R, b, e) ==
    /\ IsFiniteSet(S) /\ f \in [S -> Nat] /\ IsFiniteSet(R) /\ b \in [R -> S]
    /\ \A i, j \in R : b[i] = b[j] => i = j
    /\ \A j \in S : \E i \in R : b[i] = j
    /\ e \in [R -> Nat] /\ \A i \in R : e[i] = f[b[i]]

\* A sum does not depend on what the indices are called.
LEMMA SumMoved ==
    ASSUME NEW S, NEW f, NEW R, NEW b, NEW e, Renamed(S, f, R, b, e)
    PROVE  SumFunction(e) = SumFunction(f)
<1>0. /\ IsFiniteSet(S) /\ f \in [S -> Nat] /\ IsFiniteSet(R) /\ b \in [R -> S]
      /\ \A i, j \in R : b[i] = b[j] => i = j
      /\ \A j \in S : \E i \in R : b[i] = j
      /\ e \in [R -> Nat] /\ \A i \in R : e[i] = f[b[i]]
  BY DEF Renamed
<1> DEFINE B(s) == {b[i] : i \in s}
<1>1. PICK g : Adds(g, f) /\ SumFunction(f) = g[S]
  BY <1>0, SumAdds
<1>2. /\ g \in [SUBSET S -> Nat] /\ g[{}] = 0
      /\ \A s \in SUBSET S : \A y \in s : g[s] = f[y] + g[s \ {y}]
  BY <1>0, <1>1 DEF Adds
<1> DEFINE h == [s \in SUBSET R |-> g[B(s)]]
<1>3. h \in [SUBSET R -> Nat] /\ h[{}] = 0
  <2>1. ASSUME NEW s \in SUBSET R PROVE B(s) \in SUBSET S
    BY <1>0
  <2>2. B({}) = {}
    OBVIOUS
  <2> QED
    BY <1>2, <2>1, <2>2
<1>4. ASSUME NEW s \in SUBSET R, NEW y \in s PROVE h[s] = e[y] + h[s \ {y}]
  <2>1. B(s) \in SUBSET S /\ b[y] \in B(s)
    BY <1>0
  <2>2. B(s \ {y}) = B(s) \ {b[y]}
    BY <1>0
  <2>3. g[B(s)] = f[b[y]] + g[B(s) \ {b[y]}]
    BY <1>2, <2>1
  <2> QED
    BY <1>0, <2>2, <2>3
<1>5. B(R) = S
  BY <1>0
<1>6. Adds(h, e)
  <2>1. DOMAIN e = R
    BY <1>0
  <2> HIDE DEF h
  <2> QED
    BY <1>3, <1>4, <2>1 DEF Adds
<1>7. SumFunction(e) = h[R]
  <2>1. DOMAIN e = R
    BY <1>0
  <2> QED
    BY <1>0, <1>6, <2>1, SumIs
<1> QED
  BY <1>1, <1>5, <1>7

\* The parts' own SumFunction is the one of the lemmas.
LEMMA LoggerSum == ASSUME NEW f PROVE Logger!SumFunction(f) = SumFunction(f)
BY DEF Logger!SumFunction, Logger!SumFunctionOnSet, Logger!FoldFunctionOnSet, Logger!MapThenFoldSet,
       SumFunction, SumFunctionOnSet, FoldFunctionOnSet, MapThenFoldSet

\* The instance that ContextInsights takes of the community module is this one.
LEMMA InsightsSum == ASSUME NEW f PROVE Insights!SumFunction(f) = SumFunction(f)
BY DEF Insights!SumFunction, Insights!SumFunctionOnSet, Insights!FoldFunctionOnSet, Insights!MapThenFoldSet,
       SumFunction, SumFunctionOnSet, FoldFunctionOnSet, MapThenFoldSet

-----------------------------------------------------------------------------
(* The token guard *)

GuardTyped ==
    /\ guardSession \in {1, 2} /\ guardSeen \in {1, 2}
    /\ guardStreaming \in BOOLEAN /\ total \in Nat /\ unsaved \in Nat
    /\ run \in Nat /\ spent \in Nat /\ aborts \in {0, 1} /\ abortIssued \in BOOLEAN
    /\ sampled \in BOOLEAN /\ updates \in Nat /\ blind \in Nat /\ legible \in BOOLEAN

\* What the guard remembers is of the current run or of none, and of a session
\* that was there.
Remembered ==
    /\ guardSession = 1 => guardSeen = 1
    /\ generation = 0 \/ generation = run
    /\ abortError = 0 \/ abortError = run
    /\ runStartTokens = Guard!Unknown \/ runStartTokens \in Nat

\* The tokens of the run whose start was seen are those of its messages, of which
\* the last may not be in the statistics yet, whether or not the guard could read
\* them; it has a number for them when it could.
Charged ==
    /\ ~guardStreaming => unsaved = 0
    /\ runStartTokens # Guard!Unknown /\ guardSeen = guardSession =>
          runStartTokens + spent = total + unsaved
    /\ guardSeen = guardSession =>
          runTokens = IF runStartTokens # Guard!Unknown /\ legible THEN spent ELSE Guard!Unknown

\* A run is watched from its start to its end, and stopped once.
Watched ==
    /\ guardStreaming => guardSeen = guardSession
    /\ guardStreaming /\ runStartTokens # Guard!Unknown /\ legible /\ spent >= maxRunTokens => abortIssued
    /\ guardStreaming /\ ~abortIssued => aborts = 0
    /\ blind <= updates /\ updates < streamingUpdateInterval

GuardInv == GuardTyped /\ Remembered /\ Charged /\ Watched

LEMMA UnknownIsNone == Guard!Unknown \notin Nat
BY DEF Guard!Unknown

LEMMA GuardBegins == ASSUME Guard!Init PROVE GuardInv
<1>1. GuardTyped
  BY DEF Guard!Init, GuardTyped
<1>2. Charged
  BY DEF Guard!Init, Charged
<1>4. Remembered
  BY DEF Guard!Init, Remembered
<1>3. Watched
  BY GuardLimits DEF Guard!Init, Watched, Guard!LimitAssumption
<1> QED
  BY <1>1, <1>2, <1>3, <1>4 DEF GuardInv

LEMMA GuardStays == ASSUME GuardInv, UNCHANGED guard PROVE GuardInv'
BY DEF guard, GuardInv, GuardTyped, Remembered, Charged, Watched

\* An inspection of a run in the session it began in, where nothing is reset.
LEMMA Inspected ==
    ASSUME GuardInv, guardSeen = guardSession, guardSession' = guardSession, NEW n \in Nat, NEW told \in {n, Guard!Unknown},
           Guard!Inspect(FALSE, told, TRUE), run' = run, spent' \in Nat, guardStreaming' \in BOOLEAN,
           total' \in Nat, unsaved' \in Nat, sampled' \in BOOLEAN, updates' \in Nat,
           guardStreaming, unsaved' = n, n # 0 => guardStreaming',
           updates' < streamingUpdateInterval,
           spent' - spent = total' + unsaved' - (total + unsaved)
    PROVE  GuardInv'
<1> USE DEF GuardInv, GuardTyped, Remembered
<1>1. \E full \in BOOLEAN :
         LET over == full \/ (runTokens' # Guard!Unknown /\ runTokens' >= maxRunTokens)
             abort == over /\ guardStreaming' /\ ~abortIssued
         IN  /\ guardSeen' = guardSession' /\ runStartTokens' = runStartTokens
             /\ legible' \in BOOLEAN
             /\ runTokens' = IF runStartTokens # Guard!Unknown /\ legible'
                             THEN total' - runStartTokens + n ELSE Guard!Unknown
             /\ generation' = generation /\ abortIssued' = (abortIssued \/ abort)
             /\ abortError' = IF abort THEN 0 ELSE abortError
             /\ aborts' = aborts + (IF abort THEN 1 ELSE 0) /\ blind' = 0
  <2>1. told # Guard!Unknown => told = n
    OBVIOUS
  <2>2. \E full, readable \in BOOLEAN :
           LET spending == IF runStartTokens = Guard!Unknown \/ ~(readable /\ told # Guard!Unknown)
                           THEN Guard!Unknown ELSE total' - runStartTokens + told
               over == full \/ (spending # Guard!Unknown /\ spending >= maxRunTokens)
               abort == over /\ guardStreaming' /\ ~abortIssued
           IN  /\ guardSeen' = guardSession' /\ runStartTokens' = runStartTokens /\ runTokens' = spending
               /\ generation' = generation /\ abortIssued' = (abortIssued \/ abort)
               /\ abortError' = IF abort THEN 0 ELSE abortError
               /\ aborts' = aborts + (IF abort THEN 1 ELSE 0) /\ blind' = 0
               /\ legible' = (readable /\ told # Guard!Unknown)
    BY DEF Guard!Inspect, Guard!Counts, Guard!Spent
  <2> QED
    BY <2>1, <2>2
<1>2. Charged'
  BY <1>1, UnknownIsNone DEF Charged
<1>3. runStartTokens # Guard!Unknown /\ legible' => runTokens' = spent'
  BY <1>1, <1>2 DEF Charged
<1>4. Watched'
  BY <1>1, <1>3, GuardLimits, UnknownIsNone DEF Watched, Guard!LimitAssumption
<1>5. GuardTyped'
  BY <1>1 DEF Watched
<1>6. Remembered'
  BY <1>1 DEF Watched
<1> QED
  BY <1>2, <1>4, <1>5, <1>6

LEMMA GuardStep == ASSUME GuardInv, Guard!Next PROVE GuardInv'
<1> USE DEF Guard!NewStream, Guard!env
<1>a. GuardTyped /\ Remembered /\ Charged /\ Watched
  BY DEF GuardInv
<1>b. /\ total \in Nat /\ unsaved \in Nat /\ run \in Nat /\ spent \in Nat /\ updates \in Nat
      /\ guardStreaming \in BOOLEAN /\ sampled \in BOOLEAN /\ aborts \in {0, 1} /\ blind \in Nat
      /\ guardSession \in {1, 2}
  BY <1>a DEF GuardTyped
<1>c. GuardTyped' /\ Remembered' /\ Charged' /\ Watched' => GuardInv'
  BY DEF GuardInv
<1>0. maxRunTokens \in Nat \ {0} /\ streamingUpdateInterval \in Nat \ {0}
  BY GuardLimits DEF Guard!LimitAssumption
<1>1. CASE Guard!AgentStart
  <2>1. /\ guardStreaming' = TRUE /\ run' = run + 1 /\ spent' = 0 /\ total' = total /\ unsaved' = 0
        /\ guardSession' = guardSession /\ sampled' = FALSE /\ updates' = 0
    BY <1>1, <1>a, <1>b DEF Guard!AgentStart, Charged
  <2>2. PICK full \in BOOLEAN :
           /\ guardSeen' = guardSession' /\ legible' \in BOOLEAN
           /\ runStartTokens' = IF legible' THEN total' ELSE Guard!Unknown
           /\ runTokens' = IF legible' THEN 0 ELSE Guard!Unknown
           /\ generation' = run' /\ abortIssued' = full
           /\ abortError' = 0 /\ aborts' = (IF full THEN 1 ELSE 0) /\ blind' = 0
    <3>1. 0 # Guard!Unknown /\ total' # Guard!Unknown /\ ~(0 >= maxRunTokens)
      BY <1>0, <1>b, <2>1, UnknownIsNone
    <3>2. PICK full \in BOOLEAN, readable \in BOOLEAN :
             LET start == IF readable THEN total' ELSE Guard!Unknown
                 spending == IF start = Guard!Unknown \/ ~(readable /\ 0 # Guard!Unknown) THEN Guard!Unknown ELSE 0
                 over == full \/ (spending # Guard!Unknown /\ spending >= maxRunTokens)
             IN  /\ guardSeen' = guardSession' /\ runStartTokens' = start /\ runTokens' = spending
                 /\ generation' = run' /\ abortIssued' = over /\ abortError' = 0
                 /\ aborts' = 0 + (IF over THEN 1 ELSE 0) /\ blind' = 0
                 /\ legible' = (readable /\ 0 # Guard!Unknown)
      BY <1>1, <2>1 DEF Guard!AgentStart, Guard!Inspect, Guard!Counts
    <3>3. legible' = readable
      BY <3>1, <3>2
    <3>4. runTokens' = IF readable THEN 0 ELSE Guard!Unknown
      BY <3>1, <3>2
    <3>5. abortIssued' = full
      BY <3>1, <3>2
    <3> QED
      BY <3>2, <3>3, <3>4, <3>5
  <2>3. GuardInv'
    <3>0. /\ abortIssued' \in BOOLEAN /\ aborts' \in {0, 1} /\ blind' \in Nat /\ guardSeen' \in {1, 2}
          /\ run' \in Nat /\ spent' \in Nat /\ legible' \in BOOLEAN
      BY <1>b, <2>1, <2>2
    <3>1. GuardTyped'
      BY <1>b, <2>1, <3>0 DEF GuardTyped
    <3>4. Remembered'
      BY <1>b, <2>1, <2>2 DEF Remembered
    <3>2. Charged'
      BY <1>b, <2>1, <2>2, UnknownIsNone DEF Charged
    <3>3. Watched'
      BY <1>0, <1>b, <2>1, <2>2 DEF Watched
    <3> QED
      BY <1>c, <3>1, <3>2, <3>3, <3>4
  <2> QED
    BY <2>3
<1>2. CASE Guard!MessageUpdate
  <2>1. /\ guardStreaming /\ unsaved = 0 /\ guardSeen = guardSession /\ sampled' = TRUE
        /\ UNCHANGED <<guardSession, guardStreaming, total, unsaved, run, spent>>
    BY <1>2, <1>a DEF Guard!MessageUpdate, Watched
  <2>2. CASE ~sampled \/ Guard!Due
    <3>1. Guard!Inspect(FALSE, 0, TRUE) /\ (updates' = updates \/ updates' = 0)
      BY <1>2, <2>2 DEF Guard!MessageUpdate
    <3>2. updates' \in Nat /\ updates' < streamingUpdateInterval
      BY <1>0, <1>a, <1>b, <3>1 DEF Watched
    <3>3. total' \in Nat /\ spent' - spent = total' + unsaved' - (total + unsaved)
      BY <1>b, <2>1
    <3> QED
      BY <1>b, <2>1, <3>1, <3>2, <3>3, Inspected
  <2>3. CASE sampled /\ ~Guard!Due
    <3>1. updates' = updates + 1 /\ blind' = blind + 1 /\ Guard!NotInspected
      BY <1>2, <2>3 DEF Guard!MessageUpdate
    <3>2. GuardTyped'
      BY <1>a, <2>1, <3>1 DEF Guard!NotInspected, GuardTyped
    <3>3. Remembered'
      BY <1>a, <2>1, <3>1 DEF Guard!NotInspected, Remembered
    <3>4. Charged'
      BY <1>a, <2>1, <3>1 DEF Guard!NotInspected, Charged
    <3>5. Watched'
      BY <1>0, <1>a, <1>b, <2>1, <2>3, <3>1 DEF Guard!NotInspected, Guard!Due, Watched
    <3> QED
      BY <1>c, <3>2, <3>3, <3>4, <3>5
  <2> QED
    BY <2>2, <2>3
<1>3. ASSUME NEW n \in 1 .. MaxMessage, Guard!MessageEnd(n) PROVE GuardInv'
  <2>1. n \in Nat
    OBVIOUS
  <2>2. /\ guardStreaming /\ unsaved = 0 /\ unsaved' = n /\ spent' = spent + n /\ sampled' = FALSE /\ updates' = 0
        /\ UNCHANGED <<guardSession, guardStreaming, total, run>>
        /\ \E told \in {n, Guard!Unknown} : Guard!Inspect(FALSE, told, TRUE)
    BY <1>3 DEF Guard!MessageEnd
  <2>3. updates' < streamingUpdateInterval /\ updates' \in Nat /\ spent' \in Nat /\ n # 0
    BY <1>0, <1>b, <2>1, <2>2
  <2>4. spent' - spent = total' + unsaved' - (total + unsaved)
    BY <1>b, <2>1, <2>2
  <2> QED
    BY <1>a, <1>b, <2>1, <2>2, <2>3, <2>4, Inspected DEF Watched
<1>4. CASE Guard!EntryAppended
  <2>1. /\ guardStreaming /\ unsaved' = 0 /\ total' = total + unsaved /\ sampled' = FALSE /\ updates' = 0
        /\ UNCHANGED <<guardSession, guardStreaming, run, spent>> /\ Guard!Inspect(FALSE, 0, TRUE)
    <3>1. guardStreaming
      BY <1>4, <1>a, <1>b DEF Guard!EntryAppended, Charged
    <3> QED
      BY <1>4, <1>b, <3>1 DEF Guard!EntryAppended
  <2>2. updates' < streamingUpdateInterval /\ updates' \in Nat /\ total' \in Nat
    BY <1>0, <1>b, <2>1
  <2>3. spent' - spent = total' + unsaved' - (total + unsaved)
    BY <1>b, <2>1
  <2> QED
    BY <1>a, <1>b, <2>1, <2>2, <2>3, Inspected DEF Watched
<1>5. CASE Guard!AgentEnd
  <2>1. /\ guardStreaming /\ unsaved = 0 /\ unsaved' = 0 /\ total' = total /\ sampled' = FALSE /\ updates' = 0
        /\ guardStreaming' \in BOOLEAN
        /\ UNCHANGED <<guardSession, run, spent>> /\ Guard!Inspect(FALSE, 0, TRUE)
    BY <1>5, <1>b DEF Guard!AgentEnd
  <2>2. updates' < streamingUpdateInterval /\ updates' \in Nat /\ total' \in Nat
    BY <1>0, <1>b, <2>1
  <2>3. spent' - spent = total' + unsaved' - (total + unsaved)
    BY <1>b, <2>1
  <2> QED
    BY <1>a, <1>b, <2>1, <2>2, <2>3, Inspected DEF Watched
<1>6. CASE Guard!ReadPanel
  <2>1. /\ guardSeen # guardSession /\ ~guardStreaming
        /\ UNCHANGED <<guardSession, guardStreaming, total, unsaved, run, spent, sampled, updates>>
    BY <1>6, <1>a DEF Guard!ReadPanel, Watched
  <2>2. /\ guardSeen' = guardSession' /\ runStartTokens' = Guard!Unknown
        /\ generation' = 0 /\ abortIssued' = FALSE
        /\ abortError' = 0 /\ aborts' = aborts /\ blind' = 0
        /\ legible' \in BOOLEAN /\ runTokens' = Guard!Unknown
    <3>1. 0 # Guard!Unknown
      BY UnknownIsNone
    <3> QED
      BY <1>6, <1>b, <2>1, <3>1 DEF Guard!ReadPanel, Guard!Inspect, Guard!Counts
  <2>3. GuardInv'
    <3>1. GuardTyped'
      BY <1>b, <2>1, <2>2 DEF GuardTyped
    <3>4. Remembered'
      BY <1>b, <2>1, <2>2 DEF Remembered
    <3>2. Charged'
      BY <1>a, <1>b, <2>1, <2>2 DEF Charged
    <3>3. Watched'
      BY <1>0, <1>a, <1>b, <2>1, <2>2 DEF Watched
    <3> QED
      BY <1>c, <3>1, <3>2, <3>3, <3>4
  <2> QED
    BY <2>3
<1>7. ASSUME NEW n \in 0 .. 1, Guard!Switch(n) PROVE GuardInv'
  <2>1. GuardTyped'
    BY <1>a, <1>7 DEF Guard!Switch, Guard!NotInspected, GuardTyped
  <2>2. Remembered'
    BY <1>a, <1>7 DEF Guard!Switch, Guard!NotInspected, Remembered
  <2>3. Charged'
    BY <1>a, <1>b, <1>7 DEF Guard!Switch, Guard!NotInspected, Charged, Remembered
  <2>4. Watched'
    BY <1>a, <1>7 DEF Guard!Switch, Guard!NotInspected, Watched
  <2> QED
    BY <1>c, <2>1, <2>2, <2>3, <2>4
<1>8. ASSUME NEW g \in aborting, Guard!AbortSettles(g) PROVE GuardInv'
  <2>1. GuardTyped'
    BY <1>a, <1>8 DEF Guard!AbortSettles, Guard!Concerns, GuardTyped
  <2>2. Remembered'
    BY <1>a, <1>8 DEF Guard!AbortSettles, Guard!Concerns, Remembered
  <2>3. Charged'
    BY <1>a, <1>b, <1>8 DEF Guard!AbortSettles, Guard!Concerns, Charged, Remembered
  <2>4. Watched'
    BY <1>a, <1>8 DEF Guard!AbortSettles, Guard!Concerns, Watched
  <2> QED
    BY <1>c, <2>1, <2>2, <2>3, <2>4
<1> QED
  BY <1>1, <1>2, <1>3, <1>4, <1>5, <1>6, <1>7, <1>8 DEF Guard!Next

LEMMA GuardSound == ASSUME GuardInv PROVE Guard!TokensCounted /\ Guard!BudgetEnforced /\ Guard!FailureIsCurrent
BY GuardLimits DEF GuardInv, GuardTyped, Remembered, Charged, Watched, Guard!TokensCounted, Guard!BudgetEnforced,
                   Guard!FailureIsCurrent, Guard!LimitAssumption

-----------------------------------------------------------------------------
(* The failure logger *)

Failures == [print : Fingerprints, occurrences : Nat]

\* r is s without its element k.
Without(r, s, k) ==
    /\ Len(r) = Len(s) - 1
    /\ \A i \in 1 .. Len(r) : r[i] = IF i < k THEN s[i] ELSE s[i + 1]

\* RemoveAt takes one element out.
LEMMA RemovesAt ==
    ASSUME NEW S, NEW s \in Seq(S), NEW k \in 1 .. Len(s)
    PROVE  Logger!RemoveAt(s, k) \in Seq(S) /\ Without(Logger!RemoveAt(s, k), s, k)
<1> DEFINE a == SubSeq(s, 1, k - 1)
           b == SubSeq(s, k + 1, Len(s))
<1>0. Len(s) \in Nat /\ k \in Nat /\ k >= 1 /\ k <= Len(s) /\ \A i \in 1 .. Len(s) : s[i] \in S
  BY LenProperties, ElementOfSeq
<1>1. a \in Seq(S) /\ Len(a) = k - 1 /\ \A i \in 1 .. k - 1 : a[i] = s[i]
  <2>1. k - 1 \in Int /\ \A i \in 1 .. k - 1 : s[i] \in S
    BY <1>0
  <2>2. /\ a \in Seq(S) /\ Len(a) = IF 1 <= k - 1 THEN k - 1 - 1 + 1 ELSE 0
        /\ \A i \in 1 .. k - 1 - 1 + 1 : a[i] = s[1 + i - 1]
    BY <2>1, SubSeqProperties
  <2> QED
    BY <1>0, <2>2
<1>2. b \in Seq(S) /\ Len(b) = Len(s) - k /\ \A i \in 1 .. Len(s) - k : b[i] = s[k + i]
  <2>1. k + 1 \in Int /\ Len(s) \in Int /\ \A i \in k + 1 .. Len(s) : s[i] \in S
    BY <1>0
  <2>2. /\ b \in Seq(S) /\ Len(b) = IF k + 1 <= Len(s) THEN Len(s) - (k + 1) + 1 ELSE 0
        /\ \A i \in 1 .. Len(s) - (k + 1) + 1 : b[i] = s[k + 1 + i - 1]
    BY <2>1, SubSeqProperties
  <2> QED
    BY <1>0, <2>2
<1>3. Logger!RemoveAt(s, k) = a \o b
  BY DEF Logger!RemoveAt
<1> HIDE DEF a, b
<1>4. /\ a \o b \in Seq(S) /\ Len(a \o b) = Len(s) - 1
      /\ \A i \in 1 .. Len(s) - 1 : (a \o b)[i] = IF i <= k - 1 THEN a[i] ELSE b[i - (k - 1)]
  BY <1>0, <1>1, <1>2, ConcatProperties
<1>5. \A i \in 1 .. Len(s) - 1 : (a \o b)[i] = IF i < k THEN s[i] ELSE s[i + 1]
  <2>1. ASSUME NEW i \in 1 .. Len(s) - 1 PROVE (a \o b)[i] = IF i < k THEN s[i] ELSE s[i + 1]
    <3>1. CASE i < k
      <4>1. i <= k - 1 /\ i \in 1 .. k - 1
        BY <1>0, <3>1
      <4> QED
        BY <1>1, <1>4, <3>1, <4>1
    <3>2. CASE ~(i < k)
      <4>1. ~(i <= k - 1) /\ i - (k - 1) \in 1 .. Len(s) - k /\ k + (i - (k - 1)) = i + 1
        BY <1>0, <3>2
      <4>2. (a \o b)[i] = b[i - (k - 1)]
        BY <1>4, <4>1
      <4>3. b[i - (k - 1)] = s[k + (i - (k - 1))]
        BY <1>2, <4>1
      <4> QED
        BY <3>2, <4>1, <4>2, <4>3
    <3> QED
      BY <3>1, <3>2
  <2> QED
    BY <2>1
<1> QED
  BY <1>3, <1>4, <1>5 DEF Without

\* r is s with its element k replaced by e at the end.
MovedLast(r, s, k, e) ==
    /\ Len(r) = Len(s)
    /\ \A i \in 1 .. Len(s) : r[i] = IF i = Len(s) THEN e ELSE IF i < k THEN s[i] ELSE s[i + 1]

\* What is removed and appended again moves to the end.
LEMMA Moves ==
    ASSUME NEW S, NEW s \in Seq(S), NEW k \in 1 .. Len(s), NEW e \in S, NEW r \in Seq(S), Without(r, s, k)
    PROVE  Append(r, e) \in Seq(S) /\ MovedLast(Append(r, e), s, k, e)
<1>1. /\ Append(r, e) \in Seq(S) /\ Len(Append(r, e)) = Len(r) + 1
      /\ \A i \in 1 .. Len(r) : Append(r, e)[i] = r[i]
      /\ Append(r, e)[Len(r) + 1] = e
  BY AppendProperties
<1>2. Len(s) \in Nat /\ Len(r) = Len(s) - 1
  BY LenProperties DEF Without
<1> QED
  BY <1>1, <1>2 DEF MovedLast, Without

\* Tail takes the first element out.
LEMMA TailIsWithout ==
    ASSUME NEW S, NEW s \in Seq(S), s # << >>
    PROVE  Tail(s) \in Seq(S) /\ Without(Tail(s), s, 1) /\ Head(s) = s[1] /\ 1 \in 1 .. Len(s)
<1>1. Tail(s) \in Seq(S) /\ Len(Tail(s)) = Len(s) - 1 /\ \A i \in 1 .. Len(Tail(s)) : Tail(s)[i] = s[i + 1]
  BY HeadTailProperties
<1>2. Len(s) \in Nat /\ Len(s) >= 1
  BY EmptySeq, LenProperties
<1>3. \A i \in 1 .. Len(Tail(s)) : ~(i < 1)
  BY <1>1, <1>2
<1>4. Head(s) = s[1]
  OBVIOUS
<1> QED
  BY <1>1, <1>2, <1>3, <1>4 DEF Without

Occurrences(s) == [k \in DOMAIN s |-> s[k].occurrences]

\* The numbers of occurrences in a list are a function that can be summed.
LEMMA OccurrencesAre ==
    ASSUME NEW s \in Seq(Failures)
    PROVE  /\ DOMAIN s = 1 .. Len(s) /\ Len(s) \in Nat /\ IsFiniteSet(DOMAIN s)
           /\ Occurrences(s) \in [1 .. Len(s) -> Nat]
           /\ Logger!SumFunction(Occurrences(s)) = SumFunction(Occurrences(s))
<1>1. DOMAIN s = 1 .. Len(s) /\ Len(s) \in Nat /\ \A k \in 1 .. Len(s) : s[k] \in Failures
  BY LenProperties, ElementOfSeq
<1>2. IsFiniteSet(1 .. Len(s))
  BY <1>1, FS_Interval
<1> QED
  BY <1>1, <1>2, LoggerSum DEF Occurrences, Failures

\* Their sum is a number.
LEMMA SumIsNat == ASSUME NEW s \in Seq(Failures) PROVE SumFunction(Occurrences(s)) \in Nat
<1> DEFINE S == 1 .. Len(s)
           f == Occurrences(s)
<1>1. IsFiniteSet(S) /\ f \in [S -> Nat]
  BY OccurrencesAre
<1> HIDE DEF S, f
<1>2. PICK g : Adds(g, f) /\ SumFunction(f) = g[S]
  BY <1>1, SumAdds
<1>3. SumFunction(f) \in Nat
  BY <1>1, <1>2 DEF Adds
<1> QED
  BY <1>3 DEF f

\* A list without one of its entries counts that entry less.
LEMMA SumWithout ==
    ASSUME NEW s \in Seq(Failures), NEW k \in 1 .. Len(s), NEW r \in Seq(Failures), Without(r, s, k)
    PROVE  /\ SumFunction(Occurrences(s)) = s[k].occurrences + SumFunction(Occurrences(r))
           /\ SumFunction(Occurrences(s)) \in Nat /\ SumFunction(Occurrences(r)) \in Nat
<1> DEFINE S == 1 .. Len(s)
           R == 1 .. Len(r)
           f == Occurrences(s)
           rest == [i \in S \ {k} |-> f[i]]
           b == [i \in R |-> IF i < k THEN i ELSE i + 1]
<1>1. /\ S = DOMAIN s /\ IsFiniteSet(S) /\ f \in [S -> Nat] /\ Len(s) \in Nat
      /\ R = DOMAIN r /\ IsFiniteSet(R) /\ Occurrences(r) \in [R -> Nat] /\ Len(r) \in Nat
      /\ Len(r) = Len(s) - 1
  BY OccurrencesAre DEF Without
<1>6. rest \in [S \ {k} -> Nat] /\ IsFiniteSet(S \ {k})
  BY <1>1, FS_RemoveElement
<1>2. SumFunction(f) = f[k] + SumFunction(rest) /\ SumFunction(f) \in Nat /\ SumFunction(rest) \in Nat
  <2> HIDE DEF f, S
  <2>1. k \in S
    BY DEF S
  <2>2. IsFiniteSet(S) /\ f \in [S -> Nat] /\ rest \in [S \ {k} -> Nat]
    BY <1>1, <1>6
  <2>3. \A i \in S \ {k} : rest[i] = f[i]
    OBVIOUS
  <2>4. Peeled(S, f, k, rest)
    BY <2>1, <2>2, <2>3 DEF Peeled
  <2> HIDE DEF rest
  <2> QED
    BY <2>4, SumLess
<1>3. b \in [R -> S \ {k}]
  BY <1>1
<1>4. \A i, j \in R : b[i] = b[j] => i = j
  BY <1>1
<1>5. ASSUME NEW j \in S \ {k} PROVE \E i \in R : b[i] = j
  <2>1. CASE j < k
    <3>1. j \in R /\ b[j] = j
      BY <1>1, <2>1
    <3> QED
      BY <3>1
  <2>2. CASE ~(j < k)
    <3>1. j - 1 \in R /\ b[j - 1] = j
      BY <1>1, <2>2
    <3> QED
      BY <3>1
  <2> QED
    BY <2>1, <2>2
<1>7. \A i \in R : Occurrences(r)[i] = rest[b[i]]
  <2>1. ASSUME NEW i \in R PROVE Occurrences(r)[i] = rest[b[i]]
    <3>1. b[i] \in S \ {k} /\ r[i] = s[b[i]]
      BY <1>1, <1>3 DEF Without
    <3>2. rest[b[i]] = s[b[i]].occurrences
      BY <1>1, <3>1 DEF Occurrences
    <3> QED
      BY <1>1, <3>1, <3>2 DEF Occurrences
  <2> QED
    BY <2>1
<1>8. SumFunction(Occurrences(r)) = SumFunction(rest)
  <2> DEFINE Q == S \ {k}
             e == Occurrences(r)
  <2>1. /\ IsFiniteSet(Q) /\ rest \in [Q -> Nat] /\ b \in [R -> Q] /\ IsFiniteSet(R)
        /\ \A j \in Q : \E i \in R : b[i] = j
        /\ e \in [R -> Nat] /\ \A i \in R : e[i] = rest[b[i]]
    BY <1>1, <1>3, <1>5, <1>6, <1>7
  <2>2. \A i, j \in R : b[i] = b[j] => i = j
    BY <1>4
  <2> HIDE DEF rest, b, S, R, Q, e
  <2>4. Renamed(Q, rest, R, b, e)
    BY <2>1, <2>2 DEF Renamed
  <2>3. SumFunction(e) = SumFunction(rest)
    BY <2>4, SumMoved
  <2> QED
    BY <2>3 DEF e
<1>10. f[k] = s[k].occurrences
  BY <1>1 DEF Occurrences
<1> HIDE DEF f, rest, b
<1> QED
  BY <1>2, <1>8, <1>10 DEF f

\* A list with one more entry counts that entry more.
LEMMA SumAppended ==
    ASSUME NEW s \in Seq(Failures), NEW e \in Failures
    PROVE  /\ SumFunction(Occurrences(Append(s, e))) = SumFunction(Occurrences(s)) + e.occurrences
           /\ SumFunction(Occurrences(s)) \in Nat
<1> DEFINE t == Append(s, e)
<1>1. /\ t \in Seq(Failures) /\ Len(t) = Len(s) + 1 /\ Len(s) \in Nat
      /\ \A i \in 1 .. Len(s) : t[i] = s[i]
      /\ t[Len(s) + 1] = e
  BY AppendProperties, LenProperties
<1> HIDE DEF t
<1>2. Len(t) \in 1 .. Len(t) /\ Without(s, t, Len(t))
  BY <1>1 DEF Without
<1>3. /\ SumFunction(Occurrences(t)) = t[Len(t)].occurrences + SumFunction(Occurrences(s))
      /\ SumFunction(Occurrences(s)) \in Nat
  BY <1>1, <1>2, SumWithout
<1>4. t[Len(t)].occurrences = e.occurrences /\ e.occurrences \in Nat
  BY <1>1 DEF Failures
<1> QED
  BY <1>3, <1>4 DEF t

\* The prints of the list are the last ones of the distinct prints that were
\* seen, in order, and the index holds them.
InList ==
    /\ failures \in Seq(Failures) /\ last \in Seq(Fingerprints)
    /\ \A i, j \in 1 .. Len(last) : last[i] = last[j] => i = j
    /\ Len(failures) = IF Len(last) < maxFailures THEN Len(last) ELSE maxFailures
    /\ \A k \in 1 .. Len(failures) : failures[k].print = last[Len(last) - Len(failures) + k]
    /\ indexed = {failures[k].print : k \in 1 .. Len(failures)}

Totalled ==
    /\ observed \in Nat /\ forgotten \in Nat
    /\ observed = forgotten + SumFunction(Occurrences(failures))

LoggerInv == InList /\ Totalled

LEMMA LoggerBegins == ASSUME Logger!Init PROVE LoggerInv
<1>1. failures = << >> /\ last = << >> /\ indexed = {} /\ observed = 0 /\ forgotten = 0
  BY DEF Logger!Init
<1>2. failures \in Seq(Failures) /\ last \in Seq(Fingerprints) /\ Len(failures) = 0 /\ Len(last) = 0
  BY <1>1, EmptySeq
<1>3. InList
  BY <1>1, <1>2, LoggerLimits DEF InList, Logger!LimitAssumption
<1>4. SumFunction(Occurrences(failures)) = 0
  <2>1. Occurrences(failures) \in [{} -> Nat]
    <3>1. Occurrences(failures) \in [1 .. Len(failures) -> Nat]
      BY <1>2, OccurrencesAre
    <3>2. 1 .. Len(failures) = {}
      BY <1>2
    <3> QED
      BY <3>1, <3>2
  <2> QED
    BY <2>1, SumEmpty
<1> QED
  BY <1>1, <1>3, <1>4 DEF LoggerInv, Totalled

LEMMA LoggerStays == ASSUME LoggerInv, UNCHANGED logger PROVE LoggerInv'
BY DEF logger, LoggerInv, InList, Totalled, Occurrences

\* What was seen before moves to the end, and what was not is added there.
LEMMA LastSeen ==
    ASSUME InList, NEW f \in Fingerprints, last' = Append(Logger!RemoveFirst(last, f), f)
    PROVE  /\ last' \in Seq(Fingerprints)
           /\ \/ \E j \in 1 .. Len(last) : last[j] = f /\ MovedLast(last', last, j, f)
              \/ /\ \A j \in 1 .. Len(last) : last[j] # f
                 /\ Len(last') = Len(last) + 1 /\ last'[Len(last) + 1] = f
                 /\ \A i \in 1 .. Len(last) : last'[i] = last[i]
<1>1. last \in Seq(Fingerprints) /\ \A i, j \in 1 .. Len(last) : last[i] = last[j] => i = j
  BY DEF InList
<1>2. CASE \E j \in 1 .. Len(last) : last[j] = f
  <2>1. PICK j \in 1 .. Len(last) : last[j] = f
    BY <1>2
  <2> DEFINE I == {i \in 1 .. Len(last) : last[i] = f}
  <2>2. I = {j}
    BY <1>1, <2>1
  <2>3. Logger!Min(I) = j
    <3>1. j \in Nat
      BY <1>1, LenProperties
    <3>2. \A x \in {j} : \A y \in {j} : x <= y
      BY <3>1
    <3>3. Logger!Min({j}) \in {j}
      BY <3>2 DEF Logger!Min
    <3> QED
      BY <2>2, <3>3
  <2>4. Logger!SelectInSeq(last, LAMBDA v : v = f) = Logger!Min(I)
    BY <2>2 DEF Logger!SelectInSeq
  <2>5. Logger!RemoveFirst(last, f) = Logger!RemoveAt(last, j)
    BY <1>2, <2>3, <2>4 DEF Logger!RemoveFirst
  <2>6. Logger!RemoveAt(last, j) \in Seq(Fingerprints) /\ Without(Logger!RemoveAt(last, j), last, j)
    BY <1>1, RemovesAt
  <2>7. last' \in Seq(Fingerprints) /\ MovedLast(last', last, j, f)
    BY <1>1, <2>5, <2>6, Moves
  <2> QED
    BY <2>1, <2>7
<1>3. CASE ~ \E j \in 1 .. Len(last) : last[j] = f
  <2>1. Logger!RemoveFirst(last, f) = last
    BY <1>3 DEF Logger!RemoveFirst
  <2> QED
    BY <1>1, <1>3, <2>1, AppendProperties
<1> QED
  BY <1>2, <1>3

\* What an entry more adds to the books is what it adds to the sum.
LEMMA Balanced ==
    ASSUME NEW x \in Nat, NEW y \in Nat, NEW o \in Nat, NEW counted \in Nat, NEW g \in Nat,
           x + 1 = o + y, counted = g + x
    PROVE  counted + 1 = (g + o) + y
OBVIOUS

\* Positions counted from the end of a list move with what comes after them.
LEMMA OneFurther ==
    ASSUME NEW i \in Nat, NEW n \in Nat, NEW l \in Nat, i >= 1, i < n, l >= n
    PROVE  i + 1 \in 1 .. n /\ i + 1 # n + 1 /\ l - (n + 1) + (i + 1) = l - n + i /\ l - n + i > 0
OBVIOUS

\* The distinct prints stay distinct when one is moved to the end or added there.
LEMMA StillDistinct ==
    ASSUME InList, NEW f \in Fingerprints, last' = Append(Logger!RemoveFirst(last, f), f)
    PROVE  \A i, j \in 1 .. Len(last') : last'[i] = last'[j] => i = j
<1>1. last \in Seq(Fingerprints) /\ Len(last) \in Nat /\ \A i, j \in 1 .. Len(last) : last[i] = last[j] => i = j
  BY LenProperties DEF InList
<1>2. ASSUME NEW k \in 1 .. Len(last), last[k] = f, MovedLast(last', last, k, f)
      PROVE  \A i, j \in 1 .. Len(last') : last'[i] = last'[j] => i = j
  <2> DEFINE b(i) == IF i = Len(last) THEN k ELSE IF i < k THEN i ELSE i + 1
  <2>1. \A i \in 1 .. Len(last) : b(i) \in 1 .. Len(last)
    BY <1>1
  <2>2. \A i, j \in 1 .. Len(last) : b(i) = b(j) => i = j
    BY <1>1
  <2>3. Len(last') = Len(last) /\ \A i \in 1 .. Len(last) : last'[i] = last[b(i)]
    BY <1>2 DEF MovedLast
  <2> HIDE DEF b
  <2> SUFFICES ASSUME NEW i \in 1 .. Len(last'), NEW j \in 1 .. Len(last'), last'[i] = last'[j] PROVE i = j
    OBVIOUS
  <2>4. i \in 1 .. Len(last) /\ j \in 1 .. Len(last)
    BY <2>3
  <2>5. last[b(i)] = last[b(j)] /\ b(i) \in 1 .. Len(last) /\ b(j) \in 1 .. Len(last)
    BY <2>1, <2>3, <2>4
  <2>6. b(i) = b(j)
    BY <1>1, <2>5
  <2> QED
    BY <2>2, <2>4, <2>6
<1>3. ASSUME \A j \in 1 .. Len(last) : last[j] # f, Len(last') = Len(last) + 1, last'[Len(last) + 1] = f,
             \A i \in 1 .. Len(last) : last'[i] = last[i]
      PROVE  \A i, j \in 1 .. Len(last') : last'[i] = last'[j] => i = j
  <2> SUFFICES ASSUME NEW i \in 1 .. Len(last'), NEW j \in 1 .. Len(last'), last'[i] = last'[j] PROVE i = j
    OBVIOUS
  <2>1. (i = Len(last) + 1 \/ i \in 1 .. Len(last)) /\ (j = Len(last) + 1 \/ j \in 1 .. Len(last))
    BY <1>1, <1>3
  <2> QED
    BY <1>1, <1>3, <2>1
<1> QED
  BY <1>2, <1>3, LastSeen

\* An entry that is seen again moves to the end, with one occurrence more.
LEMMA LoggerRenews ==
    ASSUME InList, Totalled, NEW f \in Fingerprints, f \in indexed,
           last' = Append(Logger!RemoveFirst(last, f), f), failures' = Logger!Renewed(f)
    PROVE  /\ failures' \in Seq(Failures) /\ Len(failures') = Len(failures)
           /\ SumFunction(Occurrences(failures')) = SumFunction(Occurrences(failures)) + 1
           /\ \E k \in 1 .. Len(failures) :
                 /\ failures[k].print = f
                 /\ \A i \in 1 .. Len(failures) :
                       failures'[i].print = IF i = Len(failures) THEN f
                                            ELSE IF i < k THEN failures[i].print ELSE failures[i + 1].print
<1> DEFINE K == {i \in DOMAIN failures : failures[i].print = f}
           k == CHOOSE i \in DOMAIN failures : failures[i].print = f
           e == [failures[k] EXCEPT !.occurrences = @ + 1]
           r == Logger!RemoveAt(failures, k)
<1>1. failures \in Seq(Failures) /\ DOMAIN failures = 1 .. Len(failures) /\ Len(failures) \in Nat
  BY LenProperties DEF InList
<1>2. k \in 1 .. Len(failures) /\ failures[k].print = f
  <2>1. \E i \in DOMAIN failures : failures[i].print = f
    BY <1>1 DEF InList
  <2> QED
    BY <1>1, <2>1
<1>3. failures' = Append(r, e)
  BY DEF Logger!Renewed
<1> HIDE DEF k
<1>4. failures[k] \in Failures
  BY <1>1, <1>2, ElementOfSeq
<1>5. e \in Failures /\ e.print = f /\ e.occurrences = failures[k].occurrences + 1 /\ failures[k].occurrences \in Nat
  BY <1>2, <1>4 DEF Failures
<1>6. r \in Seq(Failures) /\ Without(r, failures, k)
  BY <1>1, <1>2, RemovesAt
<1> HIDE DEF r, e
<1>7. failures' \in Seq(Failures) /\ MovedLast(failures', failures, k, e)
  BY <1>1, <1>2, <1>3, <1>5, <1>6, Moves
<1>8. /\ SumFunction(Occurrences(failures)) = failures[k].occurrences + SumFunction(Occurrences(r))
      /\ SumFunction(Occurrences(r)) \in Nat
  BY <1>1, <1>2, <1>6, SumWithout
<1>9. SumFunction(Occurrences(failures')) = SumFunction(Occurrences(r)) + e.occurrences
  BY <1>3, <1>5, <1>6, SumAppended
<1>10. SumFunction(Occurrences(failures')) = SumFunction(Occurrences(failures)) + 1
  BY <1>5, <1>8, <1>9
<1>11. Len(failures') = Len(failures)
  BY <1>7 DEF MovedLast
<1>12. \A i \in 1 .. Len(failures) :
         failures'[i].print = IF i = Len(failures) THEN f
                              ELSE IF i < k THEN failures[i].print ELSE failures[i + 1].print
  BY <1>5, <1>7 DEF MovedLast
<1> QED
  BY <1>2, <1>7, <1>10, <1>11, <1>12

\* The step of an entry that is there.
LEMMA LoggerAgain ==
    ASSUME InList, Totalled, NEW f \in Fingerprints, f \in indexed,
           last' = Append(Logger!RemoveFirst(last, f), f), failures' = Logger!Renewed(f),
           UNCHANGED <<indexed, forgotten>>, observed' = observed + 1
    PROVE  LoggerInv'
<1> DEFINE n == Len(failures)
           d == Len(last) - n
<1>1. /\ n \in Nat /\ Len(last) \in Nat /\ d \in Nat /\ d + n = Len(last) /\ n = Len(failures)
      /\ \A i \in 1 .. n : failures[i].print = last[d + i]
      /\ \A i, j \in 1 .. Len(last) : last[i] = last[j] => i = j
      /\ indexed = {failures[i].print : i \in 1 .. n}
      /\ n = IF Len(last) < maxFailures THEN Len(last) ELSE maxFailures
  <2>1. n \in Nat /\ Len(last) \in Nat
    BY LenProperties DEF InList
  <2>2. n = (IF Len(last) < maxFailures THEN Len(last) ELSE maxFailures) /\ maxFailures \in Nat
    BY LoggerLimits DEF InList, Logger!LimitAssumption
  <2>3. \A i \in 1 .. n : failures[i].print = last[d + i]
    BY DEF InList
  <2>4. d \in Nat /\ d + n = Len(last)
    BY <2>1, <2>2
  <2> QED
    BY <2>1, <2>2, <2>3, <2>4 DEF InList
<1>2. failures' \in Seq(Failures) /\ Len(failures') = n /\ failures \in Seq(Failures)
      /\ SumFunction(Occurrences(failures')) = SumFunction(Occurrences(failures)) + 1
  BY LoggerRenews DEF InList
<1>3. PICK k \in 1 .. n :
         /\ failures[k].print = f
         /\ \A i \in 1 .. n :
               failures'[i].print = IF i = n THEN f ELSE IF i < k THEN failures[i].print ELSE failures[i + 1].print
  BY LoggerRenews
<1> HIDE DEF n, d
<1>4. PICK j \in 1 .. Len(last) : last[j] = f /\ MovedLast(last', last, j, f)
  <2>0. k \in Nat /\ k >= 1 /\ k <= n
    BY <1>1
  <2>1. d + k \in 1 .. Len(last)
    BY <1>1, <2>0
  <2>3. last[d + k] = f
    BY <1>1, <1>3
  <2> QED
    BY <2>1, <2>3, LastSeen
<1>5. j = d + k
  <2>0. k \in Nat /\ k >= 1 /\ k <= n
    BY <1>1
  <2>1. d + k \in 1 .. Len(last)
    BY <1>1, <2>0
  <2>3. last[d + k] = f
    BY <1>1, <1>3
  <2> QED
    BY <1>1, <1>4, <2>1, <2>3
<1>6. /\ Len(last') = Len(last)
      /\ \A i \in 1 .. Len(last) : last'[i] = IF i = Len(last) THEN f ELSE IF i < j THEN last[i] ELSE last[i + 1]
  BY <1>4 DEF MovedLast
<1>7. \A i \in 1 .. n : failures'[i].print = last'[d + i]
  <2> SUFFICES ASSUME NEW i \in 1 .. n PROVE failures'[i].print = last'[d + i]
    OBVIOUS
  <2>1. d + i \in 1 .. Len(last) /\ (d + i = Len(last) <=> i = n) /\ (d + i < j <=> i < k)
    BY <1>1, <1>5
  <2>2. CASE i = n
    BY <1>3, <1>6, <2>1, <2>2
  <2>3. CASE i # n /\ i < k
    BY <1>1, <1>3, <1>6, <2>1, <2>3
  <2>4. CASE i # n /\ ~(i < k)
    <3>1. i + 1 \in 1 .. n /\ d + (i + 1) = d + i + 1
      BY <1>1, <2>4
    <3>2. failures'[i].print = last[d + (i + 1)]
      BY <1>1, <1>3, <2>4, <3>1
    <3> QED
      BY <1>6, <2>1, <2>4, <3>1, <3>2
  <2> QED
    BY <2>2, <2>3, <2>4
<1>8. indexed = {failures'[i].print : i \in 1 .. n}
  <2>1. ASSUME NEW i \in 1 .. n PROVE \E m \in 1 .. n : failures'[i].print = failures[m].print
    <3>1. CASE i = n
      BY <1>3, <3>1
    <3>2. CASE i # n
      <4>1. i + 1 \in 1 .. n
        BY <1>1, <3>2
      <4>2. failures'[i].print = IF i < k THEN failures[i].print ELSE failures[i + 1].print
        BY <1>3, <3>2
      <4> QED
        BY <4>1, <4>2
    <3> QED
      BY <3>1, <3>2
  <2>2. ASSUME NEW m \in 1 .. n PROVE \E i \in 1 .. n : failures'[i].print = failures[m].print
    <3>1. CASE m = k
      <4>1. n \in 1 .. n
        BY <1>1
      <4> QED
        BY <1>3, <3>1, <4>1
    <3>2. CASE m < k
      <4>1. m # n
        BY <1>1, <3>2
      <4> QED
        BY <1>3, <3>2, <4>1
    <3>3. CASE k < m
      <4>1. n \in Nat /\ m \in Nat /\ k \in Nat /\ k >= 1 /\ m <= n
        BY <1>1
      <4>2. m - 1 \in 1 .. n /\ m - 1 # n /\ ~(m - 1 < k) /\ m - 1 + 1 = m
        <5> HIDE DEF n
        <5> QED
          BY <3>3, <4>1
      <4>3. failures'[m - 1].print = failures[m - 1 + 1].print
        BY <1>3, <4>2
      <4> QED
        BY <4>2, <4>3
    <3> QED
      BY <3>1, <3>2, <3>3
  <2> DEFINE P(i) == failures[i].print
             Q(i) == failures'[i].print
  <2>3. /\ \A i \in 1 .. n : \E m \in 1 .. n : Q(i) = P(m)
        /\ \A m \in 1 .. n : \E i \in 1 .. n : Q(i) = P(m)
    BY <2>1, <2>2
  <2>4. indexed = {P(i) : i \in 1 .. n}
    BY <1>1
  <2> HIDE DEF P, Q
  <2>5. indexed = {Q(i) : i \in 1 .. n}
    <3>1. ASSUME NEW x \in indexed PROVE x \in {Q(i) : i \in 1 .. n}
      <4>1. PICK m \in 1 .. n : x = P(m)
        BY <2>4
      <4>2. PICK i \in 1 .. n : Q(i) = P(m)
        BY <2>3
      <4> QED
        BY <4>1, <4>2
    <3>2. ASSUME NEW i \in 1 .. n PROVE Q(i) \in indexed
      <4>1. PICK m \in 1 .. n : Q(i) = P(m)
        BY <2>3
      <4> QED
        BY <2>4, <4>1
    <3> QED
      BY <3>1, <3>2
  <2> QED
    BY <2>5 DEF Q
<1>9. last' \in Seq(Fingerprints) /\ \A i, m \in 1 .. Len(last') : last'[i] = last'[m] => i = m
  BY LastSeen, StillDistinct
<1>10. \A i \in 1 .. Len(failures') : failures'[i].print = last'[Len(last') - Len(failures') + i]
  <2>1. Len(failures') = n /\ Len(last') = Len(last) /\ n \in Nat /\ d \in Nat /\ d + n = Len(last)
    BY <1>1, <1>2, <1>6
  <2>2. Len(last') - n = d
    BY <2>1
  <2>3. Len(last') - Len(failures') = d
    BY <2>1, <2>2, Zenon
  <2> QED
    BY <1>7, <2>1, <2>3
<1>11. indexed' = {failures'[i].print : i \in 1 .. Len(failures')}
  BY <1>2, <1>8
<1>12. Len(failures') = IF Len(last') < maxFailures THEN Len(last') ELSE maxFailures
  BY <1>1, <1>2, <1>6
<1>13. InList'
  BY <1>2, <1>9, <1>10, <1>11, <1>12 DEF InList
<1>14. Totalled'
  <2>1. SumFunction(Occurrences(failures)) \in Nat
    BY <1>2, SumIsNat
  <2>2. observed \in Nat /\ forgotten \in Nat /\ observed = forgotten + SumFunction(Occurrences(failures))
    BY DEF Totalled
  <2> DEFINE x == SumFunction(Occurrences(failures))
             y == SumFunction(Occurrences(failures'))
  <2>4. x \in Nat /\ y = x + 1 /\ observed = forgotten + x /\ observed \in Nat /\ forgotten \in Nat
    BY <1>2, <2>1, <2>2
  <2> HIDE DEF x, y
  <2>5. observed' \in Nat /\ forgotten' \in Nat /\ observed' = forgotten' + y
    BY <2>4
  <2>3. observed' \in Nat /\ forgotten' \in Nat /\ observed' = forgotten' + SumFunction(Occurrences(failures'))
    BY <2>5 DEF y
  <2> QED
    BY <2>3 DEF Totalled
<1> QED
  BY <1>13, <1>14 DEF LoggerInv

\* The step of an entry that is not there.
LEMMA LoggerAdds ==
    ASSUME InList, Totalled, NEW f \in Fingerprints, f \notin indexed,
           last' = Append(Logger!RemoveFirst(last, f), f), observed' = observed + 1,
           NEW all, all = Append(failures, [print |-> f, occurrences |-> 1]),
           \/ /\ Len(all) > maxFailures /\ failures' = Tail(all)
              /\ indexed' = (indexed \cup {f}) \ {Head(all).print}
              /\ forgotten' = forgotten + Head(all).occurrences
           \/ /\ ~(Len(all) > maxFailures) /\ failures' = all
              /\ indexed' = indexed \cup {f} /\ forgotten' = forgotten
    PROVE  LoggerInv'
<1> DEFINE n == Len(failures)
           d == Len(last) - n
           e == [print |-> f, occurrences |-> 1]
<1>1. /\ n \in Nat /\ Len(last) \in Nat /\ d \in Nat /\ d + n = Len(last) /\ maxFailures \in Nat
      /\ \A i \in 1 .. n : failures[i].print = last[d + i]
      /\ \A i, j \in 1 .. Len(last) : last[i] = last[j] => i = j
      /\ indexed = {failures[i].print : i \in 1 .. n}
      /\ n = IF Len(last) < maxFailures THEN Len(last) ELSE maxFailures
      /\ failures \in Seq(Failures)
  <2>1. n \in Nat /\ Len(last) \in Nat
    BY LenProperties DEF InList
  <2>2. n = (IF Len(last) < maxFailures THEN Len(last) ELSE maxFailures) /\ maxFailures \in Nat
    BY LoggerLimits DEF InList, Logger!LimitAssumption
  <2>3. \A i \in 1 .. n : failures[i].print = last[d + i]
    BY DEF InList
  <2>4. d \in Nat /\ d + n = Len(last)
    BY <2>1, <2>2
  <2> QED
    BY <2>1, <2>2, <2>3, <2>4 DEF InList
<1>2. e \in Failures /\ e.print = f /\ e.occurrences = 1
  BY DEF Failures
<1>3. /\ all \in Seq(Failures) /\ all # << >> /\ Len(all) = n + 1
      /\ \A i \in 1 .. n : all[i] = failures[i]
      /\ all[n + 1] = e
  <2> HIDE DEF e
  <2> QED
    BY <1>1, <1>2, AppendProperties DEF e
<1>4. SumFunction(Occurrences(all)) = SumFunction(Occurrences(failures)) + 1 /\ SumFunction(Occurrences(failures)) \in Nat
  <2> HIDE DEF e
  <2>1. SumFunction(Occurrences(Append(failures, e))) = SumFunction(Occurrences(failures)) + e.occurrences
    BY <1>1, <1>2, SumAppended
  <2>2. all = Append(failures, e)
    BY DEF e
  <2>3. SumFunction(Occurrences(failures)) \in Nat
    BY <1>1, SumIsNat
  <2> QED
    BY <1>2, <2>1, <2>2, <2>3
<1> HIDE DEF e
<1>5. last' \in Seq(Fingerprints) /\ \A i, m \in 1 .. Len(last') : last'[i] = last'[m] => i = m
  BY LastSeen, StillDistinct
<1>6. observed \in Nat /\ forgotten \in Nat /\ observed = forgotten + SumFunction(Occurrences(failures))
  BY DEF Totalled
<1> HIDE DEF n, d
\* The print of all's last entry, and its others: the last ones of last.
<1>7. \A i \in 1 .. n + 1 : all[i].print = IF i = n + 1 THEN f ELSE last[d + i]
  <2> SUFFICES ASSUME NEW i \in 1 .. n + 1 PROVE all[i].print = IF i = n + 1 THEN f ELSE last[d + i]
    OBVIOUS
  <2>1. CASE i = n + 1
    BY <1>2, <1>3, <2>1
  <2>2. CASE i # n + 1
    <3>1. i \in 1 .. n
      BY <1>1, <2>2
    <3> QED
      BY <1>1, <1>3, <2>2, <3>1
  <2> QED
    BY <2>1, <2>2
<1>9. indexed = {last[d + i] : i \in 1 .. n}
  <2>1. ASSUME NEW x \in indexed PROVE x \in {last[d + i] : i \in 1 .. n}
    <3>1. PICK i \in 1 .. n : x = failures[i].print
      BY <1>1
    <3> QED
      BY <1>1, <3>1
  <2>2. ASSUME NEW i \in 1 .. n PROVE last[d + i] \in indexed
    <3>1. failures[i].print \in indexed
      BY <1>1
    <3> QED
      BY <1>1, <3>1
  <2> QED
    BY <2>1, <2>2
<1>8. \A i \in 1 .. n : last[d + i] \in indexed /\ last[d + i] # f
  <2> SUFFICES ASSUME NEW i \in 1 .. n PROVE last[d + i] \in indexed
    OBVIOUS
  <2> QED
    BY <1>9
\* What last becomes: its last n entries are those after f's earlier place.
<1>10. /\ Len(last') \in Nat /\ Len(last') >= n
       /\ n = maxFailures => Len(last') >= maxFailures
       /\ n # maxFailures => Len(last') = n + 1 /\ d = 0
       /\ Len(last') > 0 /\ last'[Len(last')] = f
       /\ \A i \in 1 .. n : Len(last') - (n + 1) + i > 0 => last'[Len(last') - (n + 1) + i] = last[d + i]
  <2>1. CASE \A j \in 1 .. Len(last) : last[j] # f
    <3>1. Len(last') = Len(last) + 1 /\ last'[Len(last) + 1] = f /\ \A i \in 1 .. Len(last) : last'[i] = last[i]
      BY <2>1, LastSeen
    <3>2. Len(last') - (n + 1) = d
      <4>1. n \in Nat /\ d \in Nat /\ d + n = Len(last) /\ Len(last') = Len(last) + 1
        BY <1>1, <3>1
      <4> QED
        BY <4>1
    <3>3. ASSUME NEW i \in 1 .. n PROVE last'[Len(last') - (n + 1) + i] = last[d + i]
      <4>1. d + i \in 1 .. Len(last)
        BY <1>1
      <4> QED
        BY <3>1, <3>2, <4>1
    <3>4. n # maxFailures => d = 0
      BY <1>1
    <3>5. Len(last') \in Nat /\ Len(last') >= n /\ Len(last') > 0 /\ last'[Len(last')] = f
      BY <1>1, <3>1
    <3>6. (n = maxFailures => Len(last') >= maxFailures) /\ (n # maxFailures => Len(last') = n + 1)
      BY <1>1, <3>1, <3>4
    <3> QED
      BY <3>3, <3>4, <3>5, <3>6
  <2>2. CASE ~ \A j \in 1 .. Len(last) : last[j] # f
    <3>1. PICK j \in 1 .. Len(last) : last[j] = f /\ MovedLast(last', last, j, f)
      BY <2>2, LastSeen
    <3>2. j <= d /\ j \in Nat
      <4>1. CASE j > d
        <5>1. j - d \in 1 .. n /\ d + (j - d) = j
          BY <1>1, <4>1
        <5> QED
          BY <1>8, <3>1, <5>1
      <4>2. j \in Nat
        BY <1>1
      <4> QED
        BY <1>1, <4>1, <4>2
    <3>3. /\ Len(last') = Len(last)
          /\ \A i \in 1 .. Len(last) : last'[i] = IF i = Len(last) THEN f ELSE IF i < j THEN last[i] ELSE last[i + 1]
      BY <3>1 DEF MovedLast
    <3>4. d > 0 /\ n = maxFailures /\ Len(last) \in 1 .. Len(last)
      BY <1>1, <3>2
    <3>5. Len(last') - (n + 1) = d - 1
      BY <1>1, <3>3
    <3>6. ASSUME NEW i \in 1 .. n, d - 1 + i > 0 PROVE last'[d - 1 + i] = last[d + i]
      <4>1. CASE i = 1 /\ d - 1 + i < j
        BY <1>1, <3>2, <4>1
      <4>2. CASE ~(d - 1 + i < j)
        <5>1. d - 1 + i \in 1 .. Len(last) /\ d - 1 + i # Len(last) /\ d - 1 + i + 1 = d + i
          BY <1>1, <3>6
        <5> QED
          BY <3>3, <4>2, <5>1
      <4>3. i \in Nat /\ i >= 1
        BY <1>1
      <4>4. i = 1 \/ ~(d - 1 + i < j)
        BY <1>1, <3>2, <4>3
      <4> QED
        BY <4>1, <4>2, <4>4
    <3>7. \A i \in 1 .. n : Len(last') - (n + 1) + i > 0 => last'[Len(last') - (n + 1) + i] = last[d + i]
      BY <3>5, <3>6
    <3>8. last'[Len(last')] = f /\ Len(last') > 0 /\ Len(last') \in Nat /\ Len(last') >= n
      BY <1>1, <3>3, <3>4
    <3> QED
      BY <3>4, <3>7, <3>8
  <2> QED
    BY <2>1, <2>2
<1> DEFINE l == Len(last')
<1>11. CASE Len(all) > maxFailures
  <2>1. /\ failures' = Tail(all) /\ indexed' = (indexed \cup {f}) \ {Head(all).print}
        /\ forgotten' = forgotten + Head(all).occurrences
    BY <1>11
  <2>2. failures' \in Seq(Failures) /\ Without(failures', all, 1) /\ Head(all) = all[1] /\ 1 \in 1 .. Len(all)
    BY <1>3, <2>1, TailIsWithout
  <2>3. n = maxFailures
    BY <1>1, <1>3, <1>11
  <2>4. Len(failures') = n /\ \A i \in 1 .. n : failures'[i] = all[i + 1]
    <3>1. Len(failures') = n
      BY <1>1, <1>3, <2>2 DEF Without
    <3>2. \A i \in 1 .. n : ~(i < 1)
      BY <1>1
    <3> QED
      BY <2>2, <3>1, <3>2 DEF Without
  <2>5. ASSUME NEW i \in 1 .. n PROVE failures'[i].print = last'[l - n + i]
    <3>1. i + 1 \in 1 .. n + 1 /\ failures'[i].print = all[i + 1].print
      <4>1. i + 1 \in 1 .. n + 1
        BY <1>1
      <4> QED
        BY <2>4, <4>1
    <3>2. CASE i = n
      <4>1. l - n + i = l
        BY <1>1, <1>10, <3>2
      <4> QED
        BY <1>7, <1>10, <3>1, <3>2, <4>1
    <3>3. CASE i # n
      <4>1. i + 1 \in 1 .. n /\ i + 1 # n + 1 /\ l - (n + 1) + (i + 1) = l - n + i /\ l - n + i > 0
        <5>1. i \in Nat /\ i >= 1 /\ i < n /\ n \in Nat
          BY <1>1, <3>3
        <5>2. l \in Nat /\ l >= n
          BY <1>10
        <5> HIDE DEF l
        <5> QED
          BY <5>1, <5>2, OneFurther, Zenon
      <4>2. failures'[i].print = last[d + (i + 1)]
        BY <1>7, <3>1, <4>1
      <4>3. last'[l - (n + 1) + (i + 1)] = last[d + (i + 1)]
        BY <1>10, <4>1
      <4> QED
        BY <4>1, <4>2, <4>3
    <3> QED
      BY <3>2, <3>3
  <2>6. indexed' = {failures'[i].print : i \in 1 .. n}
    <3> DEFINE P(i) == all[i].print
    <3>1. indexed = {P(i) : i \in 1 .. n} /\ f = P(n + 1) /\ Head(all).print = P(1)
      <4>1. \A i \in 1 .. n : P(i) = last[d + i]
        BY <1>1, <1>3
      <4>2. f = P(n + 1)
        BY <1>2, <1>3
      <4>3. Head(all).print = P(1)
        BY <2>2
      <4> HIDE DEF P
      <4>4. \A x : (\E i \in 1 .. n : x = P(i)) <=> (\E i \in 1 .. n : x = last[d + i])
        BY <4>1
      <4>5. indexed = {P(i) : i \in 1 .. n}
        BY <1>9, <4>4
      <4> QED
        BY <4>2, <4>3, <4>5
    <3>2. \A i \in 1 .. n : failures'[i].print = P(i + 1)
      BY <2>4
    <3>3. \A i, j \in 1 .. n + 1 : P(i) = P(j) => i = j
      <4> SUFFICES ASSUME NEW i \in 1 .. n + 1, NEW j \in 1 .. n + 1, P(i) = P(j) PROVE i = j
        OBVIOUS
      <4>1. P(i) = (IF i = n + 1 THEN f ELSE last[d + i]) /\ P(j) = (IF j = n + 1 THEN f ELSE last[d + j])
        BY <1>7
      <4>2. /\ i = n + 1 \/ (i \in 1 .. n /\ d + i \in 1 .. Len(last))
            /\ j = n + 1 \/ (j \in 1 .. n /\ d + j \in 1 .. Len(last))
        <5>1. \A k \in 1 .. n + 1 : k = n + 1 \/ k \in 1 .. n
          BY <1>1
        <5>2. \A k \in 1 .. n : d + k \in 1 .. Len(last)
          BY <1>1
        <5> QED
          BY <5>1, <5>2
      <4>3. CASE i = n + 1
        BY <1>8, <4>1, <4>2, <4>3
      <4>4. CASE j = n + 1
        BY <1>8, <4>1, <4>2, <4>4
      <4>5. CASE i # n + 1 /\ j # n + 1
        <5>1. d + i = d + j
          BY <1>1, <4>1, <4>2, <4>5
        <5> QED
          BY <1>1, <4>2, <4>5, <5>1
      <4> QED
        BY <4>3, <4>4, <4>5
    <3> DEFINE Q(i) == failures'[i].print
    <3> HIDE DEF P
    <3>5. \A i \in 1 .. n : Q(i) = P(i + 1)
      BY <3>2
    <3> HIDE DEF Q
    <3>4. (indexed \cup {f}) \ {P(1)} = {Q(i) : i \in 1 .. n}
      <4>1. ASSUME NEW x \in (indexed \cup {f}) \ {P(1)} PROVE x \in {Q(i) : i \in 1 .. n}
        <5>1. PICK i \in 1 .. n + 1 : x = P(i) /\ i # 1
          <6>1. CASE x = f
            BY <1>1, <3>1, <4>1, <6>1
          <6>2. CASE x \in indexed
            <7>1. PICK m \in 1 .. n : x = P(m)
              BY <3>1, <6>2
            <7>2. m \in 1 .. n + 1 /\ m # 1
              BY <1>1, <4>1, <7>1
            <7> QED
              BY <7>1, <7>2
          <6> QED
            BY <4>1, <6>1, <6>2
        <5>2. i - 1 \in 1 .. n /\ (i - 1) + 1 = i
          BY <1>1, <5>1
        <5>3. x = Q(i - 1)
          BY <3>5, <5>1, <5>2
        <5> QED
          BY <5>2, <5>3
      <4>2. ASSUME NEW i \in 1 .. n PROVE Q(i) \in (indexed \cup {f}) \ {P(1)}
        <5>1. i + 1 \in 1 .. n + 1 /\ 1 \in 1 .. n + 1 /\ i + 1 # 1
          BY <1>1
        <5>2. P(i + 1) # P(1)
          BY <3>3, <5>1
        <5>3. i + 1 = n + 1 \/ i + 1 \in 1 .. n
          BY <1>1
        <5> QED
          BY <3>1, <3>5, <5>2, <5>3
      <4> QED
        BY <4>1, <4>2
    <3> QED
      BY <2>1, <3>1, <3>4 DEF Q
  <2>7. InList'
    <3>1. Len(failures') = IF l < maxFailures THEN l ELSE maxFailures
      BY <1>1, <1>10, <2>3, <2>4
    <3> QED
      BY <1>5, <2>2, <2>4, <2>5, <2>6, <3>1 DEF InList
  <2>8. Totalled'
    <3> DEFINE x == SumFunction(Occurrences(failures))
               y == SumFunction(Occurrences(failures'))
               a == SumFunction(Occurrences(all))
               o == all[1].occurrences
    <3>1. a = o + y /\ y \in Nat
      BY <1>3, <2>2, SumWithout
    <3>2. o \in Nat
      <4>1. all[1] \in Failures
        BY <1>3, <2>2, ElementOfSeq
      <4> QED
        BY <4>1 DEF Failures
    <3>3. /\ x \in Nat /\ a = x + 1 /\ observed = forgotten + x /\ observed \in Nat /\ forgotten \in Nat
          /\ forgotten' = forgotten + o
      BY <1>4, <1>6, <2>1, <2>2
    <3> HIDE DEF x, y, a, o
    <3>6. x + 1 = o + y
      BY <3>1, <3>3, Zenon
    <3>7. x \in Nat /\ y \in Nat /\ o \in Nat /\ observed \in Nat /\ forgotten \in Nat
      BY <3>1, <3>2, <3>3, Zenon
    <3>8. observed' = observed + 1 /\ observed = forgotten + x /\ forgotten' = forgotten + o
      BY <3>3, Zenon
    <3>9. observed + 1 = (forgotten + o) + y
      BY <3>6, <3>7, <3>8, Balanced, SMTT(60)
    <3>4. observed' \in Nat /\ forgotten' \in Nat /\ observed' = forgotten' + y
      BY <3>7, <3>8, <3>9
    <3>5. observed' \in Nat /\ forgotten' \in Nat /\ observed' = forgotten' + SumFunction(Occurrences(failures'))
      BY <3>4 DEF y
    <3> QED
      BY <3>5 DEF Totalled
  <2> QED
    BY <2>7, <2>8 DEF LoggerInv
<1>12. CASE ~(Len(all) > maxFailures)
  <2>1. failures' = all /\ indexed' = indexed \cup {f} /\ forgotten' = forgotten
    BY <1>12
  <2>2. n # maxFailures /\ l = n + 1 /\ d = 0
    BY <1>1, <1>3, <1>10, <1>12
  <2>3. ASSUME NEW i \in 1 .. n + 1 PROVE failures'[i].print = last'[i]
    <3>1. CASE i = n + 1
      BY <1>7, <1>10, <2>1, <2>2, <3>1
    <3>2. CASE i # n + 1
      <4>1. i \in 1 .. n /\ l - (n + 1) + i = i /\ i > 0
        BY <1>1, <2>2, <3>2
      <4>2. last'[i] = last[d + i]
        BY <1>10, <4>1
      <4> QED
        BY <1>7, <2>1, <3>2, <4>2
    <3> QED
      BY <3>1, <3>2
  <2>4. indexed' = {failures'[i].print : i \in 1 .. n + 1}
    <3> DEFINE P(i) == all[i].print
    <3>1. indexed = {P(i) : i \in 1 .. n} /\ f = P(n + 1)
      <4>1. \A i \in 1 .. n : P(i) = last[d + i]
        BY <1>1, <1>3
      <4>2. f = P(n + 1)
        BY <1>2, <1>3
      <4> HIDE DEF P
      <4>4. \A x : (\E i \in 1 .. n : x = P(i)) <=> (\E i \in 1 .. n : x = last[d + i])
        BY <4>1
      <4> QED
        BY <1>9, <4>2, <4>4
    <3> HIDE DEF P
    <3>2. indexed \cup {f} = {P(i) : i \in 1 .. n + 1}
      <4>1. \A i \in 1 .. n + 1 : i \in 1 .. n \/ i = n + 1
        BY <1>1
      <4>2. n + 1 \in 1 .. n + 1 /\ \A i \in 1 .. n : i \in 1 .. n + 1
        BY <1>1
      <4> QED
        BY <3>1, <4>1, <4>2
    <3> QED
      BY <2>1, <3>2 DEF P
  <2>5. InList'
    <3>1. Len(failures') = n + 1 /\ l - Len(failures') = 0
      BY <1>1, <1>3, <2>1, <2>2
    <3>2. \A k \in 1 .. Len(failures') : failures'[k].print = last'[l - Len(failures') + k]
      <4>1. \A k \in 1 .. n + 1 : 0 + k = k
        BY <1>1
      <4> QED
        BY <2>3, <3>1, <4>1
    <3>3. Len(failures') = IF l < maxFailures THEN l ELSE maxFailures
      BY <1>1, <1>3, <1>12, <2>2, <3>1
    <3> QED
      BY <1>3, <1>5, <2>1, <2>4, <3>1, <3>2, <3>3 DEF InList
  <2>6. Totalled'
    <3> DEFINE x == SumFunction(Occurrences(failures))
               y == SumFunction(Occurrences(failures'))
    <3>1. y = x + 1 /\ x \in Nat /\ observed = forgotten + x /\ observed \in Nat /\ forgotten \in Nat
      BY <1>4, <1>6, <2>1
    <3> HIDE DEF x, y
    <3>2. observed' \in Nat /\ forgotten' \in Nat /\ observed' = forgotten' + y
      BY <2>1, <3>1
    <3>3. observed' \in Nat /\ forgotten' \in Nat /\ observed' = forgotten' + SumFunction(Occurrences(failures'))
      BY <3>2 DEF y
    <3> QED
      BY <3>3 DEF Totalled
  <2> QED
    BY <2>5, <2>6 DEF LoggerInv
<1> QED
  BY <1>11, <1>12

LEMMA LoggerStep == ASSUME LoggerInv, Logger!Next PROVE LoggerInv'
<1>1. PICK f \in Fingerprints : Logger!Record(f)
  BY DEF Logger!Next
<1>2. last' = Append(Logger!RemoveFirst(last, f), f) /\ observed' = observed + 1 /\ InList /\ Totalled
  BY <1>1 DEF Logger!Record, LoggerInv
<1>3. CASE f \in indexed
  <2>1. failures' = Logger!Renewed(f) /\ UNCHANGED <<indexed, forgotten>>
    BY <1>1, <1>3 DEF Logger!Record
  <2> QED
    BY <1>2, <1>3, <2>1, LoggerAgain
<1>4. CASE f \notin indexed
  <2> DEFINE all == Append(failures, [print |-> f, occurrences |-> 1])
  <2>1. \/ /\ Len(all) > maxFailures /\ failures' = Tail(all)
           /\ indexed' = (indexed \cup {f}) \ {Head(all).print}
           /\ forgotten' = forgotten + Head(all).occurrences
        \/ /\ ~(Len(all) > maxFailures) /\ failures' = all
           /\ indexed' = indexed \cup {f} /\ forgotten' = forgotten
    BY <1>1, <1>4 DEF Logger!Record, Logger!Unindexed
  <2>2. all = Append(failures, [print |-> f, occurrences |-> 1])
    OBVIOUS
  <2> HIDE DEF all
  <2> QED
    BY <1>2, <1>4, <2>1, <2>2, LoggerAdds
<1> QED
  BY <1>3, <1>4

LEMMA LoggerSound == ASSUME LoggerInv PROVE Logger!FailuresCounted
<1> DEFINE n == Len(failures)
           m == Len(last)
           p == [k \in DOMAIN failures |-> failures[k].print]
           q == SubSeq(last, m - n + 1, m)
<1>1. /\ failures \in Seq(Failures) /\ n \in Nat /\ DOMAIN failures = 1 .. n
      /\ last \in Seq(Fingerprints) /\ m \in Nat
      /\ \A i \in 1 .. m : last[i] \in Fingerprints
      /\ \A i \in 1 .. n : failures[i] \in Failures /\ failures[i].print = last[m - n + i]
  BY LenProperties, ElementOfSeq DEF LoggerInv, InList
<1>2. n = (IF m < maxFailures THEN m ELSE maxFailures) /\ maxFailures \in Nat
  BY LoggerLimits DEF LoggerInv, InList, Logger!LimitAssumption
<1>3. Logger!Min({m, maxFailures}) = n
  <2> DEFINE S == {m, maxFailures}
  <2>1. n \in S /\ \A y \in S : n <= y
    BY <1>1, <1>2
  <2>2. \A x \in S : (\A y \in S : x <= y) => x = n
    BY <1>1, <1>2, <2>1
  <2> HIDE DEF S, n, m
  <2>3. Logger!Min(S) = n
    BY <2>1, <2>2, Zenon DEF Logger!Min
  <2> QED
    BY <2>3 DEF S
<1>4. observed = forgotten + Logger!SumFunction([k \in DOMAIN failures |-> failures[k].occurrences])
  <2>1. Logger!SumFunction(Occurrences(failures)) = SumFunction(Occurrences(failures))
    BY <1>1, OccurrencesAre
  <2> QED
    BY <2>1 DEF LoggerInv, Totalled, Occurrences
<1>5. p = q
  <2> HIDE DEF n, m
  <2>1. m - n + 1 \in Int /\ m \in Int /\ \A i \in m - n + 1 .. m : last[i] \in Fingerprints
    BY <1>1, <1>2
  <2>2. /\ q \in Seq(Fingerprints)
        /\ Len(q) = IF m - n + 1 <= m THEN m - (m - n + 1) + 1 ELSE 0
        /\ \A i \in 1 .. m - (m - n + 1) + 1 : q[i] = last[m - n + 1 + i - 1]
    BY <2>1, SubSeqProperties
  <2>3. Len(q) = n /\ \A i \in 1 .. n : q[i] = last[m - n + i]
    BY <1>1, <2>2
  <2>4. DOMAIN q = 1 .. n /\ q = [i \in 1 .. n |-> q[i]]
    BY <2>2, <2>3, LenProperties
  <2> HIDE DEF q
  <2> QED
    BY <1>1, <2>3, <2>4
<1> QED
  BY <1>3, <1>4, <1>5 DEF Logger!FailuresCounted

-----------------------------------------------------------------------------
(* The event counts of the context plugin *)

Kinds == Types \cup {Other}

\* A function that counts count events of at most maxEventTypes types.
Tally(types, count) ==
    /\ IsFiniteSet(DOMAIN types) /\ types \in [DOMAIN types -> Nat]
    /\ SumFunction(types) = count
    /\ Cardinality(DOMAIN types \ {Other}) <= maxEventTypes - 1

\* The last of what was seen, as many as are kept.
Latest(recent, past) ==
    /\ recent \in Seq(Kinds) /\ past \in Seq(Kinds)
    /\ Len(recent) = IF Len(past) < maxRecentEvents THEN Len(past) ELSE maxRecentEvents
    /\ \A i \in 1 .. Len(recent) : recent[i] = past[Len(past) - Len(recent) + i]

InsightsInv ==
    /\ cached = lastSeen /\ eventCount = Len(eventsSeen)
    /\ Tally(eventTypes, eventCount)
    /\ Latest(recentEvents, eventsSeen)

LEMMA InsightsCardinality == ASSUME NEW S PROVE Insights!Cardinality(S) = Cardinality(S)
BY DEF Insights!Cardinality, Cardinality

\* An empty summary is that of no event.
LEMMA NothingSeen == Tally(<< >>, 0) /\ Latest(<< >>, << >>)
<1>1. << >> \in Seq(Kinds) /\ Len(<< >>) = 0
  BY EmptySeq
<1>2. DOMAIN << >> = {} /\ << >> \in [{} -> Nat]
  OBVIOUS
<1>3. {} \ {Other} = {}
  OBVIOUS
<1>4. Tally(<< >>, 0)
  <2>1. SumFunction(<< >>) = 0
    BY <1>2, SumEmpty
  <2>2. Cardinality({}) <= maxEventTypes - 1
    BY FS_EmptySet, InsightLimits DEF Insights!LimitAssumption
  <2> QED
    BY <1>2, <1>3, <2>1, <2>2, FS_EmptySet DEF Tally
<1>5. Latest(<< >>, << >>)
  BY <1>1, InsightLimits DEF Latest, Insights!LimitAssumption
<1> QED
  BY <1>4, <1>5

LEMMA InsightsBegins == ASSUME Insights!Init PROVE InsightsInv
<1>1. /\ eventTypes = << >> /\ recentEvents = << >> /\ eventsSeen = << >>
      /\ eventCount = 0 /\ cached = lastSeen
  BY DEF Insights!Init
<1>2. Len(<< >>) = 0
  BY EmptySeq
<1> QED
  BY <1>1, <1>2, NothingSeen DEF InsightsInv

LEMMA InsightsStay == ASSUME InsightsInv, UNCHANGED insights PROVE InsightsInv'
BY DEF insights, InsightsInv, Tally, Latest

\* The counts with one event more.
Counted(new, types, kind) ==
    new = [u \in DOMAIN types \cup {kind} |->
             (IF u \in DOMAIN types THEN types[u] ELSE 0) + (IF u = kind THEN 1 ELSE 0)]

\* An event more is counted under its kind, within the bound on kinds.
LEMMA TallyGrows ==
    ASSUME NEW types, NEW count, Tally(types, count), NEW kind, NEW new, Counted(new, types, kind),
           kind \in DOMAIN types \/ kind = Other \/ Cardinality(DOMAIN types) < maxEventTypes - 1
    PROVE  Tally(new, count + 1)
<1> DEFINE D == DOMAIN types
           E == D \cup {kind}
           rest == [u \in D \ {kind} |-> types[u]]
<1>0. /\ IsFiniteSet(D) /\ types \in [D -> Nat] /\ SumFunction(types) = count
      /\ Cardinality(D \ {Other}) <= maxEventTypes - 1 /\ maxEventTypes \in Nat
      /\ new = [u \in E |-> (IF u \in D THEN types[u] ELSE 0) + (IF u = kind THEN 1 ELSE 0)]
  BY InsightLimits DEF Tally, Counted, Insights!LimitAssumption
<1> HIDE DEF D
<1>1. IsFiniteSet(E) /\ new \in [E -> Nat] /\ DOMAIN new = E
  <2>1. \A u \in E : (IF u \in D THEN types[u] ELSE 0) + (IF u = kind THEN 1 ELSE 0) \in Nat
    BY <1>0
  <2>2. IsFiniteSet(E)
    BY <1>0, FS_AddElement
  <2> QED
    BY <1>0, <2>1, <2>2
<1>2. E \ {kind} = D \ {kind} /\ kind \in E
  OBVIOUS
<1>3. rest \in [D \ {kind} -> Nat]
  BY <1>0
<1>4. Peeled(E, new, kind, rest)
  <2>1. \A u \in E \ {kind} : rest[u] = new[u]
    BY <1>0
  <2> HIDE DEF E, rest
  <2> QED
    BY <1>1, <1>2, <1>3, <2>1 DEF Peeled
<1>5. SumFunction(new) = new[kind] + SumFunction(rest) /\ SumFunction(rest) \in Nat
  BY <1>4, SumLess
<1>6. SumFunction(new) = count + 1
  <2>1. CASE kind \in D
    <3>1. Peeled(D, types, kind, rest)
      <4>1. \A u \in D \ {kind} : rest[u] = types[u]
        OBVIOUS
      <4> HIDE DEF rest
      <4> QED
        BY <1>0, <1>3, <2>1, <4>1 DEF Peeled
    <3>2. SumFunction(types) = types[kind] + SumFunction(rest)
      BY <3>1, SumLess
    <3>3. new[kind] = types[kind] + 1 /\ types[kind] \in Nat
      BY <1>0, <2>1
    <3> HIDE DEF rest
    <3> DEFINE x == SumFunction(rest)
               y == SumFunction(new)
    <3>4. x \in Nat /\ y = new[kind] + x /\ count = types[kind] + x
      BY <1>0, <1>5, <3>2
    <3> HIDE DEF x, y
    <3>5. y = count + 1
      BY <3>3, <3>4
    <3> QED
      BY <3>5 DEF y
  <2>2. CASE kind \notin D
    <3>1. rest = types
      BY <1>0, <2>2
    <3>2. new[kind] = 1
      BY <1>0, <2>2
    <3> HIDE DEF rest
    <3> DEFINE x == SumFunction(rest)
               y == SumFunction(new)
    <3>4. x \in Nat /\ y = new[kind] + x /\ count = x
      BY <1>0, <1>5, <3>1
    <3> HIDE DEF x, y
    <3>5. y = count + 1
      BY <3>2, <3>4
    <3> QED
      BY <3>5 DEF y
  <2> QED
    BY <2>1, <2>2
<1>7. Cardinality(E \ {Other}) <= maxEventTypes - 1
  <2>1. CASE kind \in D \/ kind = Other
    <3>1. E \ {Other} = D \ {Other}
      BY <2>1
    <3> QED
      BY <1>0, <3>1
  <2>2. CASE kind \notin D /\ kind # Other
    <3>1. Cardinality(D) < maxEventTypes - 1
      BY <2>2 DEF D
    <3>2. IsFiniteSet(D \ {Other}) /\ D \ {Other} \in SUBSET D
      BY <1>0, FS_RemoveElement
    <3>3. Cardinality(D \ {Other}) <= Cardinality(D)
      BY <1>0, <3>2, FS_Subset
    <3>4. E \ {Other} = (D \ {Other}) \cup {kind}
      BY <2>2
    <3>5. Cardinality((D \ {Other}) \cup {kind}) = Cardinality(D \ {Other}) + 1
      BY <2>2, <3>2, FS_AddElement
    <3>6. Cardinality(D) \in Nat /\ Cardinality(D \ {Other}) \in Nat
      BY <1>0, <3>2, FS_CardinalityType
    <3> DEFINE x == Cardinality(D)
               y == Cardinality(D \ {Other})
               z == Cardinality(E \ {Other})
    <3>7. z = y + 1 /\ y <= x /\ x < maxEventTypes - 1 /\ x \in Nat /\ y \in Nat /\ maxEventTypes \in Nat
      BY <1>0, <3>1, <3>3, <3>4, <3>5, <3>6
    <3> HIDE DEF x, y, z
    <3>8. z <= maxEventTypes - 1
      BY <3>7
    <3> QED
      BY <3>8 DEF z
  <2> QED
    BY <2>1, <2>2
<1> HIDE DEF E
<1> QED
  BY <1>1, <1>6, <1>7 DEF Tally

\* An event more is the last of those that are kept.
LEMMA LatestGrows ==
    ASSUME NEW recent, NEW past, Latest(recent, past), NEW kind \in Kinds,
           NEW longer, longer = Append(recent, kind), NEW new,
           new = IF Len(longer) > maxRecentEvents THEN Tail(longer) ELSE longer
    PROVE  Latest(new, Append(past, kind))
<1> DEFINE n == Len(recent)
           m == Len(past)
           after == Append(past, kind)
<1>1. /\ recent \in Seq(Kinds) /\ past \in Seq(Kinds) /\ n \in Nat /\ m \in Nat /\ maxRecentEvents \in Nat
      /\ n = IF m < maxRecentEvents THEN m ELSE maxRecentEvents
      /\ \A i \in 1 .. n : recent[i] = past[m - n + i]
  BY LenProperties, InsightLimits DEF Latest, Insights!LimitAssumption
<1>2. /\ longer \in Seq(Kinds) /\ longer # << >> /\ Len(longer) = n + 1
      /\ \A i \in 1 .. n : longer[i] = recent[i]
      /\ longer[n + 1] = kind
  BY <1>1, AppendProperties
<1>3. /\ after \in Seq(Kinds) /\ Len(after) = m + 1
      /\ \A i \in 1 .. m : after[i] = past[i]
      /\ after[m + 1] = kind
  BY <1>1, AppendProperties
<1> HIDE DEF after, n, m
<1>4. \A i \in 1 .. n + 1 : longer[i] = after[m - n + i]
  <2> SUFFICES ASSUME NEW i \in 1 .. n + 1 PROVE longer[i] = after[m - n + i]
    OBVIOUS
  <2>1. CASE i = n + 1
    <3>1. m - n + i = m + 1
      BY <1>1, <2>1
    <3> QED
      BY <1>2, <1>3, <2>1, <3>1
  <2>2. CASE i # n + 1
    <3>1. i \in 1 .. n /\ m - n + i \in 1 .. m
      BY <1>1, <2>2
    <3> QED
      BY <1>1, <1>2, <1>3, <3>1
  <2> QED
    BY <2>1, <2>2
<1>5. CASE Len(longer) > maxRecentEvents
  <2>1. new = Tail(longer)
    BY <1>5
  <2>2. new \in Seq(Kinds) /\ Len(new) = n /\ \A i \in 1 .. n : new[i] = longer[i + 1]
    <3>1. Len(new) = Len(longer) - 1
      BY <1>2, <2>1, HeadTailProperties
    <3>2. Len(new) = n
      BY <1>1, <1>2, <3>1
    <3> QED
      BY <1>2, <2>1, <3>2, HeadTailProperties
  <2>3. ASSUME NEW i \in 1 .. n PROVE new[i] = after[Len(after) - n + i]
    <3>1. i + 1 \in 1 .. n + 1 /\ m - n + (i + 1) = m + 1 - n + i
      <4>1. n \in Nat /\ m \in Nat
        BY <1>1
      <4> QED
        BY <4>1
    <3>2. longer[i + 1] = after[m - n + (i + 1)]
      BY <1>4, <3>1
    <3>3. new[i] = longer[i + 1] /\ Len(after) = m + 1
      BY <1>3, <2>2
    <3> DEFINE l == Len(after)
    <3>5. l = m + 1 /\ n \in Nat /\ m \in Nat /\ i \in Nat
      BY <1>1, <3>3
    <3> HIDE DEF l
    <3>6. l - n + i = m - n + (i + 1)
      BY <3>5
    <3>4. Len(after) - n + i = m - n + (i + 1)
      BY <3>6 DEF l
    <3> QED
      BY <3>2, <3>3, <3>4, Zenon
  <2>4. Len(new) = IF Len(after) < maxRecentEvents THEN Len(after) ELSE maxRecentEvents
    BY <1>1, <1>2, <1>3, <1>5, <2>2
  <2>5. Latest(new, after)
    BY <1>3, <2>2, <2>3, <2>4 DEF Latest
  <2> QED
    BY <2>5 DEF after
<1>6. CASE ~(Len(longer) > maxRecentEvents)
  <2>1. new = longer
    BY <1>6
  <2>2. Len(new) = IF Len(after) < maxRecentEvents THEN Len(after) ELSE maxRecentEvents
    BY <1>1, <1>2, <1>3, <1>6, <2>1
  <2>3. Len(after) - Len(new) = m - n
    <3>1. n \in Nat /\ m \in Nat /\ Len(after) = m + 1 /\ Len(new) = n + 1
      BY <1>1, <1>2, <1>3, <2>1
    <3>2. (m + 1) - (n + 1) = m - n
      BY <3>1
    <3> QED
      BY <3>1, <3>2, Zenon
  <2>4. \A i \in 1 .. Len(new) : new[i] = after[Len(after) - Len(new) + i]
    BY <1>2, <1>4, <2>1, <2>3
  <2>5. Latest(new, after)
    BY <1>2, <1>3, <2>1, <2>2, <2>4 DEF Latest
  <2> QED
    BY <2>5 DEF after
<1> QED
  BY <1>5, <1>6

LEMMA InsightsEvent == ASSUME InsightsInv, NEW t \in Types, Insights!Event(t) PROVE InsightsInv'
<1> DEFINE types  == IF Insights!Reset THEN << >> ELSE eventTypes
           recent == IF Insights!Reset THEN << >> ELSE recentEvents
           count  == IF Insights!Reset THEN 0 ELSE eventCount
           past   == IF Insights!Reset THEN << >> ELSE eventsSeen
           kind   == IF t \notin DOMAIN types /\ Insights!Full(types) THEN Other ELSE t
           longer == Append(recent, kind)
<1>1. /\ cached' = insightSession /\ lastSeen' = insightSession /\ eventCount' = count + 1
      /\ Counted(eventTypes', types, kind)
      /\ recentEvents' = IF Len(longer) > maxRecentEvents THEN Tail(longer) ELSE longer
      /\ eventsSeen' = IF lastSeen = insightSession THEN Append(eventsSeen, kind) ELSE <<kind>>
  BY DEF Insights!Event, Counted
<1>2. eventsSeen' = Append(past, kind)
  <2>1. Insights!Reset <=> lastSeen # insightSession
    BY DEF InsightsInv, Insights!Reset
  <2>2. Append(<< >>, kind) = <<kind>>
    OBVIOUS
  <2> HIDE DEF kind
  <2> QED
    BY <1>1, <2>1, <2>2
<1>3. Tally(types, count) /\ Latest(recent, past) /\ count = Len(past)
  <2>1. Len(<< >>) = 0
    BY EmptySeq
  <2>2. CASE Insights!Reset
    BY <2>1, <2>2, NothingSeen
  <2>3. CASE ~Insights!Reset
    BY <2>3 DEF InsightsInv
  <2> QED
    BY <2>2, <2>3
<1>4. kind \in DOMAIN types \/ kind = Other \/ Cardinality(DOMAIN types) < maxEventTypes - 1
  <2>1. Cardinality(DOMAIN types) \in Nat /\ maxEventTypes \in Nat
    BY <1>3, InsightLimits, FS_CardinalityType DEF Tally, Insights!LimitAssumption
  <2>2. Insights!Full(types) <=> Cardinality(DOMAIN types) >= maxEventTypes - 1
    BY InsightsCardinality DEF Insights!Full
  <2> HIDE DEF types
  <2> QED
    BY <2>1, <2>2
<1>5. kind \in Kinds
  BY DEF Kinds
<1> HIDE DEF types, recent, count, past, kind
<1>6. Tally(eventTypes', eventCount')
  BY <1>1, <1>3, <1>4, TallyGrows
<1>7. Latest(recentEvents', eventsSeen')
  BY <1>1, <1>2, <1>3, <1>5, LatestGrows
<1>8. eventCount' = Len(eventsSeen')
  <2>1. past \in Seq(Kinds)
    BY <1>3 DEF Latest
  <2>2. Len(eventsSeen') = Len(past) + 1
    BY <1>2, <1>5, <2>1, AppendProperties
  <2> QED
    BY <1>1, <1>3, <2>2
<1>9. cached' = lastSeen'
  BY <1>1
<1> QED
  BY <1>6, <1>7, <1>8, <1>9 DEF InsightsInv

LEMMA InsightsStep == ASSUME InsightsInv, Insights!Next PROVE InsightsInv'
<1>1. CASE Insights!Report
  <2>1. /\ eventTypes' = << >> /\ recentEvents' = << >> /\ eventsSeen' = << >>
        /\ eventCount' = 0 /\ cached' = lastSeen'
    BY <1>1 DEF Insights!Report
  <2>2. Len(<< >>) = 0
    BY EmptySeq
  <2>3. Tally(eventTypes', eventCount') /\ Latest(recentEvents', eventsSeen') /\ eventCount' = Len(eventsSeen')
    BY <2>1, <2>2, NothingSeen
  <2> QED
    BY <2>1, <2>3 DEF InsightsInv
<1>2. CASE Insights!Switch
  BY <1>2, InsightsStay DEF Insights!Switch, InsightsInv, Tally, Latest
<1>3. ASSUME NEW t \in Types, Insights!Event(t) PROVE InsightsInv'
  BY <1>3, InsightsEvent
<1> QED
  BY <1>1, <1>2, <1>3 DEF Insights!Next

LEMMA InsightsSound == ASSUME InsightsInv PROVE Insights!EventsCounted
<1> DEFINE r == recentEvents
           s == eventsSeen
<1>1. /\ r \in Seq(Kinds) /\ s \in Seq(Kinds) /\ Len(r) \in Nat /\ Len(s) \in Nat
      /\ Len(r) = IF Len(s) < maxRecentEvents THEN Len(s) ELSE maxRecentEvents
      /\ \A i \in 1 .. Len(r) : r[i] = s[Len(s) - Len(r) + i]
      /\ maxRecentEvents \in Nat /\ maxEventTypes \in Nat
  BY LenProperties, InsightLimits DEF InsightsInv, Latest, Insights!LimitAssumption
<1>2. Insights!IsSuffix(r, s)
  <2> DEFINE a == Insights!Reverse(r)
             b == Insights!Reverse(s)
             n == Len(r)
             m == Len(s)
  <2>1. a = [i \in 1 .. n |-> r[n - i + 1]] /\ b = [i \in 1 .. m |-> s[m - i + 1]]
    BY DEF Insights!Reverse
  <2>2. n <= m /\ n \in Nat /\ m \in Nat
    BY <1>1
  <2> HIDE DEF n, m
  <2>3. \A i \in 1 .. n : a[i] = b[i]
    <3> SUFFICES ASSUME NEW i \in 1 .. n PROVE a[i] = b[i]
      OBVIOUS
    <3>1. n - i + 1 \in 1 .. n /\ m - n + (n - i + 1) = m - i + 1 /\ i \in 1 .. m
      BY <2>2
    <3>2. r[n - i + 1] = s[m - n + (n - i + 1)]
      BY <1>1, <3>1 DEF n, m
    <3> HIDE DEF a, b
    <3> QED
      BY <2>1, <3>1, <3>2
  <2>4. Len(a) = n /\ Len(b) = m
    BY <2>1, <2>2
  <2>5. \A i \in 1 .. n : a[i] \in Kinds /\ b[i] \in Kinds
    <3> SUFFICES ASSUME NEW i \in 1 .. n PROVE a[i] \in Kinds
      BY <2>3
    <3>1. n - i + 1 \in 1 .. n
      BY <2>2
    <3>2. r[n - i + 1] \in Kinds
      BY <1>1, <3>1, ElementOfSeq DEF n
    <3> HIDE DEF a, b
    <3> QED
      BY <2>1, <3>2
  <2> HIDE DEF a, b
  <2>6. SubSeq(a, 1, n) = SubSeq(b, 1, n)
    <3>1. /\ SubSeq(a, 1, n) \in Seq(Kinds) /\ Len(SubSeq(a, 1, n)) = (IF 1 <= n THEN n - 1 + 1 ELSE 0)
          /\ \A i \in 1 .. n - 1 + 1 : SubSeq(a, 1, n)[i] = a[1 + i - 1]
      BY <2>2, <2>5, SubSeqProperties
    <3>2. /\ SubSeq(b, 1, n) \in Seq(Kinds) /\ Len(SubSeq(b, 1, n)) = (IF 1 <= n THEN n - 1 + 1 ELSE 0)
          /\ \A i \in 1 .. n - 1 + 1 : SubSeq(b, 1, n)[i] = b[1 + i - 1]
      BY <2>2, <2>5, SubSeqProperties
    <3>3. /\ Len(SubSeq(a, 1, n)) = n /\ Len(SubSeq(b, 1, n)) = n
          /\ \A i \in 1 .. n : SubSeq(a, 1, n)[i] = a[i] /\ SubSeq(b, 1, n)[i] = b[i]
      BY <2>2, <3>1, <3>2
    <3> QED
      BY <2>3, <3>1, <3>2, <3>3, SeqEqual
  <2>7. Insights!IsPrefix(a, b)
    BY <2>2, <2>4, <2>6 DEF Insights!IsPrefix
  <2> QED
    BY <2>7 DEF Insights!IsSuffix, a, b
<1>3. Cardinality(DOMAIN eventTypes) <= maxEventTypes
  <2> DEFINE D == DOMAIN eventTypes
  <2>1. IsFiniteSet(D) /\ Cardinality(D \ {Other}) <= maxEventTypes - 1
    BY DEF InsightsInv, Tally
  <2>2. Cardinality(D \ {Other}) = (IF Other \in D THEN Cardinality(D) - 1 ELSE Cardinality(D)) /\ Cardinality(D) \in Nat
    BY <2>1, FS_RemoveElement, FS_CardinalityType
  <2> QED
    BY <1>1, <2>1, <2>2
<1>4. Insights!SumFunction(eventTypes) = eventCount
  BY InsightsSum DEF InsightsInv, Tally
<1>5. eventCount = Len(eventsSeen)
  BY DEF InsightsInv
<1> QED
  BY <1>1, <1>2, <1>3, <1>4, <1>5, InsightsCardinality DEF Insights!EventsCounted

-----------------------------------------------------------------------------
(* The properties of the configuration *)

PartsInv ==
    /\ part = "sessions" => StoreInv
    /\ part = "market" => MarketInv
    /\ part = "workspace" => WorkInv
    /\ part = "bridge" => BridgeInv
    /\ part = "graph" => MemoryInv
    /\ part = "ledger" => LedgerInv
    /\ part = "capsules" => CapsInv
    /\ part = "guard" => GuardInv
    /\ part = "failures" => LoggerInv
    /\ part = "insights" => InsightsInv

\* The parts' invariants hold in every layer of the specification.
LEMMA PartsHold == StorageSpec => []PartsInv
<1>1. ASSUME StorageInit PROVE PartsInv
  BY <1>1, StoreBegins, MarketBegins, WorkBegins, BridgeBegins, MemoryBegins, LedgerBegins, CapsBegins,
     GuardBegins, LoggerBegins, InsightsBegins
     DEF StorageInit, PartsInv
<1>2. ASSUME PartsInv, [StorageNext]_storageVars PROVE PartsInv'
  <2>1. CASE StorageNext
    <3>1. UNCHANGED part
      BY <2>1 DEF StorageNext
    <3>2. CASE part = "bridge"
      BY <1>2, <2>1, <3>1, <3>2, BridgeStep DEF StorageNext, PartsInv
    <3>3. CASE part = "graph"
      BY <1>2, <2>1, <3>1, <3>3, MemoryStep DEF StorageNext, PartsInv
    <3>4. CASE part = "ledger"
      BY <1>2, <2>1, <3>1, <3>4, LedgerStep DEF StorageNext, PartsInv
    <3>5. CASE part = "capsules"
      BY <1>2, <2>1, <3>1, <3>5, CapsStep DEF StorageNext, PartsInv
    <3>6. CASE part = "sessions"
      BY <1>2, <2>1, <3>1, <3>6, StoreStep DEF StorageNext, PartsInv
    <3>7. CASE part = "market"
      BY <1>2, <2>1, <3>1, <3>7, MarketStep DEF StorageNext, PartsInv
    <3>8. CASE part = "workspace"
      BY <1>2, <2>1, <3>1, <3>8, WorkStep DEF StorageNext, PartsInv
    <3>9. CASE part = "guard"
      BY <1>2, <2>1, <3>1, <3>9, GuardStep DEF StorageNext, PartsInv
    <3>10. CASE part = "failures"
      BY <1>2, <2>1, <3>1, <3>10, LoggerStep DEF StorageNext, PartsInv
    <3>11. CASE part = "insights"
      BY <1>2, <2>1, <3>1, <3>11, InsightsStep DEF StorageNext, PartsInv
    <3> QED
      BY <3>1, <3>2, <3>3, <3>4, <3>5, <3>6, <3>7, <3>8, <3>9, <3>10, <3>11 DEF PartsInv
  <2>2. CASE UNCHANGED storageVars
    <3>1. UNCHANGED part /\ UNCHANGED bridge /\ UNCHANGED memory /\ UNCHANGED costs /\ UNCHANGED caps
      BY <2>2 DEF storageVars
    <3>2. UNCHANGED store /\ UNCHANGED market /\ UNCHANGED work
      BY <2>2 DEF storageVars
    <3>3. UNCHANGED guard /\ UNCHANGED logger /\ UNCHANGED insights
      BY <2>2 DEF storageVars, counts
    <3> QED
      BY <1>2, <3>1, <3>2, <3>3, StoreStays, MarketStays, WorkStays, BridgeStays, MemoryStays, LedgerStays, CapsStay,
         GuardStays, LoggerStays, InsightsStay DEF PartsInv
  <2> QED
    BY <1>2, <2>1, <2>2
<1> QED
  BY <1>1, <1>2, PTL DEF StorageSpec

\* A handoff is in its session once, whatever order its import, the session's
\* header and its writes come in, and one that was accepted is kept or the
\* session is known to have failed: what was reported as done before is not any
\* more, and only a preview of a given package or the import on its way is later.
THEOREM HandoffsAreKept == StorageSpec => []HandoffsKept
<1>1. PartsInv => HandoffsKept
  BY BridgeSound DEF PartsInv, HandoffsKept
<1> QED
  BY <1>1, PartsHold, PTL

\* Whatever requests of the gateway run beside each other: the session files can
\* be opened and the metadata of each is what was last confirmed; between two
\* plugin changes, however the last one ended, the plugins that are enabled find
\* what they depend on; and a commit or a revert tells the truth of the paths
\* it was asked to change, and changes no other.
THEOREM GatewayFilesAreSound == StorageSpec => []GatewayFilesSound
<1>1. PartsInv => GatewayFilesSound
  BY StoreSound, MarketSound, WorkSound DEF PartsInv, GatewayFilesSound
<1> QED
  BY <1>1, PartsHold, PTL

\* While no rollback has failed in silence since the start: an install that
\* answers success leaves every dependency enabled and its plugin written,
\* enabled too unless it was there and disabled, and one that fails leaves
\* nothing.  A restore writes and a cleanup removes only for a caller that still
\* waits, and the newest capsules stay.
THEOREM ChangesAreAsAsked == StorageSpec => ChangesAsAsked
<1> DEFINE Installed ==
              \A r \in Changers : ~swallowed' =>
                 /\ Market!Finishes(r, "install", "installed") =>
                      /\ \A q \in Market!Dependencies(job[r].plugin) : Market!Enabled(q)'
                      /\ job[r].plugin \in Market!Configured'
                      /\ job[r].plugin \in disabled' => job[r].plugin \in job[r].saved.disabled
                 /\ Market!Finishes(r, "install", "failed") =>
                      /\ \A q \in job[r].missing : loader'[q] = "absent" /\ ~Market!Contains(profile', q)
                      /\ packages' = job[r].manifest
           Written ==
              \A c \in Requests :
                 /\ ~Caps!Is(c, "restore", "applying") /\ req'[c].pc = "applying" =>
                       req[c].answer = "none" /\ "capsule" \notin gone /\ req[c].for = workspace
                 /\ capsules' \subseteq capsules /\ Caps!Is(c, "clean", "removing") /\ req'[c].todo # req[c].todo =>
                       req[c].answer = "none" /\ "cleaner" \notin gone
           Spared ==
              \A c \in Requests, x \in capsules \ capsules' :
                 req'[c].todo # req[c].todo => Caps!Newer(x, capsules) >= req[c].keep
<1>1. ASSUME PartsInv, [StorageNext]_storageVars PROVE [Installed]_(Market!vars)
  <2>1. CASE part = "market" /\ Market!Next
    <3>1. MarketInv /\ Market!Next
      BY <1>1, <2>1 DEF PartsInv
    <3>2. ASSUME NEW r \in Changers, ~swallowed'
          PROVE  /\ Market!Finishes(r, "install", "installed") =>
                      /\ \A q \in Market!Dependencies(job[r].plugin) : Market!Enabled(q)'
                      /\ job[r].plugin \in Market!Configured'
                      /\ job[r].plugin \in disabled' => job[r].plugin \in job[r].saved.disabled
                 /\ Market!Finishes(r, "install", "failed") =>
                      /\ \A q \in job[r].missing : loader'[q] = "absent" /\ ~Market!Contains(profile', q)
                      /\ packages' = job[r].manifest
      BY <3>1, <3>2, MarketActs, Zenon
    <3>3. Installed
      BY <3>2, Zenon
    <3> HIDE DEF Installed
    <3> QED
      BY <3>3
  <2>2. CASE UNCHANGED market
    BY <2>2 DEF market, Market!vars, Market!history
  <2> QED
    BY <1>1, <2>1, <2>2 DEF StorageNext, storageVars
<1>2. ASSUME PartsInv, [StorageNext]_storageVars PROVE [Written]_(Caps!capsuleVars) /\ [Spared]_(Caps!capsuleVars)
  <2>1. CASE part = "capsules" /\ Caps!Next
    <3>1. CapsInv
      BY <1>2, <2>1 DEF PartsInv
    <3>2. Written
      BY <2>1, <3>1, CapsActs
    <3>3. \A c \in Requests : \A x \in capsules \ capsules' :
             req'[c].todo # req[c].todo => Caps!Newer(x, capsules) >= req[c].keep
      BY <2>1, <3>1, CapsActs
    <3>4. Spared
      BY <3>3, Zenon
    <3> HIDE DEF Written, Spared
    <3> QED
      BY <3>2, <3>4
  <2>2. CASE UNCHANGED caps
    BY <2>2 DEF caps, Caps!capsuleVars
  <2> QED
    BY <1>2, <2>1, <2>2 DEF StorageNext, storageVars
<1> HIDE DEF Written, Spared, Installed
<1>3. StorageSpec => [][Installed]_(Market!vars)
  BY <1>1, PartsHold, PTL DEF StorageSpec
<1>4. StorageSpec => [][Written]_(Caps!capsuleVars) /\ [][Spared]_(Caps!capsuleVars)
  BY <1>2, PartsHold, PTL DEF StorageSpec
<1> QED
  BY <1>3, <1>4, PTL DEF ChangesAsAsked, Market!InstallAllOrNothing, Caps!WrittenInPlace, Caps!NewestKept,
     Written, Spared, Installed

\* The graph is changed by one process at a time, unless a lock whose owner's file
\* stayed blank was reclaimed of a living process or twice (`doubted`), and the
\* ledger, unless a lock was taken from a process that lives (`stolen`): none
\* undoes what another was told is written, and no cost counts twice in any case.
\* What is said of undo capsules is true, and their directory can always be
\* listed while one process writes to it.
THEOREM SharedFilesAreSerial == StorageSpec => []SharedFilesSerial
<1>1. ASSUME PartsInv PROVE SharedFilesSerial
  <2>1. part = "graph" => Memory!GraphIsSerial
    BY <1>1, MemorySound DEF PartsInv
  <2>2. part = "ledger" => Ledger!NeverOvercounts /\ Ledger!LedgerKeepsAll
    BY <1>1, LedgerSound DEF PartsInv
  <2>3. part = "capsules" => Caps!ToldTrue /\ Caps!InventoryUsable /\ Caps!CleanupShown
    BY <1>1, CapsSound DEF PartsInv
  <2> QED
    BY <2>1, <2>2, <2>3 DEF SharedFilesSerial
<1> QED
  BY <1>1, PartsHold, PTL

\* A run whose start was seen is charged every token of it once and is told to
\* stop, once, when it is over its budget, at an inspection that can read the
\* statistics and the usage it counts; the error that is shown is of its own
\* abort.  Every failure that was observed is counted in one entry or left with a
\* dropped one, and the list is the latest distinct ones in order.  The events
\* that are reported are those of the session that is named, add up, and stay
\* within their bounds.
THEOREM CountsAreTrue == StorageSpec => []CountsAddUp
<1>1. PartsInv => CountsAddUp
  BY GuardSound, LoggerSound, InsightsSound DEF PartsInv, CountsAddUp
<1> QED
  BY <1>1, PartsHold, PTL
=============================================================================
