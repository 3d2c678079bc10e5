-------------------------- MODULE SharedFilesProofs --------------------------
(* The files of SharedFiles, each with its inductive invariant: the handoffs  *)
(* in a session's file, the graph and the ledger under their locks, and the   *)
(* directory of undo capsules.  For every part the initial states satisfy the  *)
(* invariant, every step of the part and every step that leaves it alone       *)
(* preserves it, and it implies the part's properties, so that StorageProofs   *)
(* need only compose them.                                                   *)
EXTENDS SharedFiles, SequencesExt, FiniteSetTheorems, SequenceTheorems, TLAPS

-----------------------------------------------------------------------------
(* The handoffs *)

BridgeTyped ==
    /\ session \in Sessions /\ header \in Nat \ {0} /\ failed \in Nat /\ failed <= header
    /\ entries \in Seq(Digests) /\ journal \in [Sessions -> Seq(Digests)]
    /\ deferred \in Seq(Digests) /\ op.header \in Nat /\ op.header <= header

\* What the session's file and what waits for the end of the turn hold is there
\* once, whether or not the session has failed.
Once ==
    /\ \A s \in Sessions : IsInjective(journal[s])
    /\ IsInjective(deferred)
    /\ Range(journal[session]) \cap Range(deferred) = {}

\* The answer that is awaited tells of a handoff that is kept.
Awaited ==
    op.header = header /\ failed # header =>
        op.digest \in Range(journal[session]) \cup Range(deferred)

Kept ==
    failed # header =>
        /\ accepted \subseteq Range(journal[session]) \cup Range(deferred)
        /\ entries = journal[session] /\ queued = Range(deferred)

\* No more wait for the end of the turn than may.
FewWait == IsFiniteSet(queued) /\ Cardinality(queued) <= maxQueued

BridgeInv == BridgeTyped /\ Once /\ Awaited /\ Kept /\ FewWait /\ Bridge!FailureIsShown

LEMMA BridgeConstants == maxQueued \in Nat /\ \A S : Bridge!Cardinality(S) = Cardinality(S)
BY HandoffsAssumption DEF Bridge!BridgeAssumption, Bridge!Cardinality, Cardinality

LEMMA Injective ==
    ASSUME NEW s \in Seq(Digests), NEW t \in Seq(Digests)
    PROVE  /\ IsInjective(s \o t) <=>
                 IsInjective(s) /\ IsInjective(t) /\ Range(s) \cap Range(t) = {}
           /\ Range(s \o t) = Range(s) \cup Range(t)
<1> DEFINE c == s \o t
           n == Len(s)
           m == Len(t)
<1>1. /\ n \in Nat /\ m \in Nat
      /\ DOMAIN s = 1 .. n /\ DOMAIN t = 1 .. m /\ DOMAIN c = 1 .. n + m
      /\ \A i \in 1 .. n : c[i] = s[i]
      /\ \A i \in 1 .. m : c[n + i] = t[i]
  OBVIOUS
<1> HIDE DEF c, n, m
<1>2. ASSUME NEW i \in DOMAIN c
      PROVE  (i \in DOMAIN s /\ c[i] = s[i]) \/ (\E k \in DOMAIN t : i = n + k /\ c[i] = t[k])
  <2>1. CASE i <= n
    BY <2>1, <1>1
  <2>2. CASE ~(i <= n)
    <3>1. i - n \in DOMAIN t /\ n + (i - n) = i
      BY <2>2, <1>1
    <3> QED
      BY <3>1, <1>1
  <2> QED
    BY <2>1, <2>2
<1>3. Range(c) = Range(s) \cup Range(t)
  <2>1. \A x \in Range(c) : x \in Range(s) \cup Range(t)
    BY <1>2 DEF Range
  <2>2. \A x \in Range(s) : x \in Range(c)
    BY <1>1 DEF Range
  <2>3. ASSUME NEW k \in DOMAIN t PROVE t[k] \in Range(c)
    <3>1. n + k \in DOMAIN c /\ c[n + k] = t[k]
      BY <1>1
    <3> QED
      BY <3>1 DEF Range
  <2> QED
    BY <2>1, <2>2, <2>3 DEF Range
<1>4. ASSUME IsInjective(c)
      PROVE  IsInjective(s) /\ IsInjective(t) /\ Range(s) \cap Range(t) = {}
  <2>1. IsInjective(s)
    BY <1>1, <1>4 DEF IsInjective
  <2>2. \A k \in DOMAIN t : n + k \in DOMAIN c /\ c[n + k] = t[k]
    BY <1>1
  <2>3. \A k, l \in DOMAIN t : n + k = n + l => k = l
    BY <1>1
  <2>4. IsInjective(t)
    BY <2>2, <2>3, <1>4 DEF IsInjective
  <2>5. ASSUME NEW i \in DOMAIN s, NEW k \in DOMAIN t, s[i] = t[k] PROVE FALSE
    <3>1. i \in DOMAIN c /\ c[i] = c[n + k] /\ i # n + k
      BY <1>1, <2>2, <2>5
    <3> QED
      BY <3>1, <2>2, <1>4 DEF IsInjective
  <2> QED
    BY <2>1, <2>4, <2>5 DEF Range
<1>5. ASSUME IsInjective(s), IsInjective(t), Range(s) \cap Range(t) = {}
      PROVE  IsInjective(c)
  <2> SUFFICES ASSUME NEW i \in DOMAIN c, NEW j \in DOMAIN c, c[i] = c[j]
               PROVE  i = j
    BY DEF IsInjective
  <2>1. \A k \in DOMAIN s, l \in DOMAIN t : s[k] # t[l]
    BY <1>5 DEF Range
  <2> QED
    BY <2>1, <1>2, <1>5 DEF IsInjective
<1> QED
  BY <1>1, <1>3, <1>4, <1>5 DEF c

\* What one more makes of a sequence.
LEMMA OneMore ==
    ASSUME NEW s \in Seq(Digests), NEW d \in Digests
    PROVE  /\ Append(s, d) \in Seq(Digests) /\ Range(Append(s, d)) = Range(s) \cup {d}
           /\ IsInjective(Append(s, d)) <=> IsInjective(s) /\ d \notin Range(s)
<1>1. Append(s, d) = s \o <<d>> /\ <<d>> \in Seq(Digests) /\ Append(s, d) \in Seq(Digests)
  OBVIOUS
<1>2. Range(<<d>>) = {d} /\ IsInjective(<<d>>)
  BY DEF Range, IsInjective
<1>3. /\ IsInjective(s \o <<d>>) <=>
            IsInjective(s) /\ IsInjective(<<d>>) /\ Range(s) \cap Range(<<d>>) = {}
      /\ Range(s \o <<d>>) = Range(s) \cup Range(<<d>>)
  BY <1>1, Injective
<1> QED
  BY <1>1, <1>2, <1>3

LEMMA BridgeBegins == ASSUME Bridge!Init PROVE BridgeInv
<1> USE DEF Bridge!Init, Bridge!NoOp, Bridge!Status
<1>1. << >> \in Seq(Digests) /\ Range(<< >>) = {} /\ IsInjective(<< >>)
  BY DEF Range, IsInjective
<1>2. BridgeTyped /\ Once /\ Awaited
  BY <1>1 DEF BridgeTyped, Once, Awaited
<1>3. Kept
  BY <1>1 DEF Kept, Range
<1>4. FewWait /\ Bridge!FailureIsShown
  BY FS_EmptySet, BridgeConstants DEF FewWait, Bridge!FailureIsShown
<1> QED
  BY <1>2, <1>3, <1>4 DEF BridgeInv

\* A handoff is sent, or its sending fails.
LEMMA BridgeImports ==
    ASSUME BridgeInv, NEW d \in Digests, Bridge!Import(d)
    PROVE  BridgeInv'
<1> USE DEF BridgeInv
<1>1. failed # header /\ session' = session /\ header' = header /\ streaming' = streaming /\ op.header # header
  BY DEF Bridge!Import, Bridge!NoOp, BridgeTyped
<1>2. CASE Bridge!Rejected
  <2>1. /\ UNCHANGED <<entries, journal, deferred, queued, failed, op, accepted>>
        /\ status'.state # "completed"
    BY <1>2 DEF Bridge!Rejected, Bridge!Status
  <2> QED
    BY <1>1, <2>1 DEF BridgeTyped, Once, Awaited, Kept, FewWait, Bridge!FailureIsShown
<1>3. CASE ~Bridge!Duplicate(d) /\ ~Bridge!Full /\ Bridge!WriteFails(d)
  <2>1. /\ UNCHANGED <<journal, deferred, queued, op, accepted>> /\ failed' = header
        /\ entries' \in {entries, Append(entries, d)} /\ status'.state = "failed"
    BY <1>3 DEF Bridge!WriteFails, Bridge!Status, Bridge!Failed
  <2>2. entries \in Seq(Digests) /\ Append(entries, d) \in Seq(Digests)
    BY DEF BridgeTyped
  <2>3. BridgeTyped'
    <3>1. entries' \in Seq(Digests)
      BY <2>1, <2>2
    <3>2. UNCHANGED <<session, header, journal, deferred, op>> /\ failed' = header
      BY <1>1, <2>1
    <3> QED
      BY <3>1, <3>2 DEF BridgeTyped
  <2>4. Once' /\ Awaited' /\ Kept' /\ FewWait' /\ Bridge!FailureIsShown'
    BY <1>1, <2>1 DEF Once, Awaited, Kept, FewWait, Bridge!FailureIsShown
  <2> QED
    BY <2>3, <2>4
<1>4. CASE ~Bridge!Duplicate(d) /\ ~Bridge!Full /\ Bridge!Sent(d)
  <2>1. /\ op' = [digest |-> d, header |-> header] /\ UNCHANGED <<failed, accepted>>
        /\ status'.state = "running"
    BY <1>4 DEF Bridge!Sent, Bridge!Status
  <2>2. d \notin Range(journal[session]) /\ d \notin Range(deferred)
    BY <1>1, <1>4 DEF Bridge!Duplicate, Kept, Bridge!Range, Range
  <2>3. session \in Sessions /\ journal[session] \in Seq(Digests) /\ deferred \in Seq(Digests)
    BY DEF BridgeTyped
  <2>4. CASE streaming
    <3>1. /\ deferred' = Append(deferred, d) /\ queued' = queued \cup {d}
          /\ UNCHANGED <<entries, journal>>
      BY <1>4, <2>4 DEF Bridge!Sent
    <3>2. BridgeTyped' /\ Once'
      BY <1>1, <2>1, <2>2, <2>3, <3>1, OneMore DEF BridgeTyped, Once
    <3>3. Range(deferred') = Range(deferred) \cup {d}
      BY <2>3, <3>1, OneMore
    <3>4. Awaited'
      BY <1>1, <2>1, <3>1, <3>3 DEF Awaited
    <3>5. Kept'
      BY <1>1, <2>1, <3>1, <3>3 DEF Kept, Range
    <3>6. Cardinality(queued) < maxQueued /\ Cardinality(queued) \in Nat
      BY <1>4, <2>4, BridgeConstants, FS_CardinalityType DEF Bridge!Full, FewWait
    <3>7. /\ IsFiniteSet(queued \cup {d})
          /\ Cardinality(queued \cup {d}) \in {Cardinality(queued), Cardinality(queued) + 1}
      BY FS_AddElement DEF FewWait
    <3>8. FewWait'
      BY <3>1, <3>6, <3>7, BridgeConstants DEF FewWait
    <3>9. Bridge!FailureIsShown'
      BY <2>1 DEF Bridge!FailureIsShown
    <3> QED
      BY <3>2, <3>4, <3>5, <3>8, <3>9
  <2>5. CASE ~streaming
    <3>1. /\ entries' = Append(entries, d) /\ UNCHANGED <<deferred, queued>>
          /\ journal' = [journal EXCEPT ![session] = Append(@, d)]
      BY <1>4, <2>5 DEF Bridge!Sent
    <3>2. /\ journal' \in [Sessions -> Seq(Digests)] /\ entries' \in Seq(Digests)
          /\ journal'[session] = Append(journal[session], d)
          /\ \A s \in Sessions \ {session} : journal'[s] = journal[s]
      BY <2>3, <3>1, OneMore DEF BridgeTyped
    <3>3. /\ Range(journal'[session]) = Range(journal[session]) \cup {d}
          /\ IsInjective(journal'[session])
      BY <2>2, <2>3, <3>2, OneMore DEF Once
    <3>4. BridgeTyped' /\ Once'
      BY <1>1, <2>1, <2>2, <3>1, <3>2, <3>3 DEF BridgeTyped, Once
    <3>5. Awaited'
      BY <1>1, <2>1, <3>1, <3>3 DEF Awaited
    <3>6. Kept'
      BY <1>1, <2>1, <2>3, <3>1, <3>2, <3>3 DEF Kept
    <3>7. FewWait' /\ Bridge!FailureIsShown'
      BY <1>1, <2>1, <3>1 DEF FewWait, Bridge!FailureIsShown
    <3> QED
      BY <3>4, <3>5, <3>6, <3>7
  <2> QED
    BY <2>4, <2>5
<1> QED
  BY <1>2, <1>3, <1>4 DEF Bridge!Import

LEMMA BridgeReturns ==
    ASSUME BridgeInv, Bridge!ImportReturns
    PROVE  BridgeInv'
<1> USE DEF BridgeInv
<1>1. /\ UNCHANGED <<session, header, streaming, entries, journal, deferred, queued, failed>>
      /\ op'.header = 0
      /\ \/ /\ op.header = header /\ accepted' = accepted \cup {op.digest}
            /\ status'.known = (failed = header) /\ status'.operation = "import"
         \/ UNCHANGED <<status, accepted>>
  BY DEF Bridge!ImportReturns, Bridge!NoOp, Bridge!Status
<1>2. BridgeTyped' /\ Once' /\ Awaited'
  BY <1>1 DEF BridgeTyped, Once, Awaited
<1>3. Kept'
  BY <1>1 DEF Awaited, Kept, Range
<1>4. FewWait' /\ Bridge!FailureIsShown'
  BY <1>1 DEF FewWait, Bridge!FailureIsShown
<1> QED
  BY <1>2, <1>3, <1>4

\* The end of a turn: the writes stop at the n-th, and what is left is missed.
LEMMA BridgeFlushes ==
    ASSUME BridgeInv, Bridge!TurnEnds
    PROVE  BridgeInv'
<1> USE DEF BridgeInv
<1>1. PICK n \in 0 .. Len(deferred) :
        LET flushed == SubSeq(deferred, 1, n)
            missing == (queued \ Range(flushed)) \ Range(entries \o flushed)
        IN  /\ entries' = entries \o flushed
            /\ journal' = [journal EXCEPT ![session] = @ \o flushed]
            /\ deferred' = << >> /\ queued' = missing
            /\ failed' = IF missing # {} THEN header ELSE failed
            /\ status' = IF missing # {} THEN Bridge!Status("failed", "import") ELSE status
  BY DEF Bridge!TurnEnds, Bridge!Missing, Bridge!Reserved, Bridge!Range, Range
<1>2. UNCHANGED <<session, header, op, accepted>>
  BY DEF Bridge!TurnEnds
<1>3. /\ session \in Sessions /\ deferred \in Seq(Digests) /\ journal[session] \in Seq(Digests)
      /\ entries \in Seq(Digests)
  BY DEF BridgeTyped
<1> DEFINE flushed == SubSeq(deferred, 1, n)
<1>4. /\ flushed \in Seq(Digests) /\ DOMAIN flushed = 1 .. n /\ 1 .. n \subseteq DOMAIN deferred
      /\ \A i \in DOMAIN flushed : flushed[i] = deferred[i]
  BY <1>3
<1> HIDE DEF flushed
<1>5. Range(flushed) \subseteq Range(deferred) /\ IsInjective(flushed)
  BY <1>4 DEF Range, IsInjective, Once
<1>6. /\ journal' \in [Sessions -> Seq(Digests)] /\ entries' \in Seq(Digests)
      /\ journal'[session] = journal[session] \o flushed /\ entries' = entries \o flushed
      /\ \A s \in Sessions \ {session} : journal'[s] = journal[s]
  <2>1. \A s \in Seq(Digests) : s \o flushed \in Seq(Digests)
    BY <1>4
  <2> QED
    BY <1>1, <1>3, <2>1 DEF BridgeTyped, flushed
<1>7. IsInjective(journal'[session]) /\ Range(journal'[session]) = Range(journal[session]) \cup Range(flushed)
  BY <1>3, <1>4, <1>5, <1>6, Injective DEF Once
<1>8. /\ deferred' = << >> /\ Range(deferred') = {} /\ IsInjective(deferred') /\ deferred' \in Seq(Digests)
      /\ failed' \in {failed, header}
      /\ queued' = (queued \ Range(flushed)) \ Range(entries \o flushed)
      /\ failed' # header => queued' = {} /\ failed' = failed
  <2>1. /\ deferred' = << >> /\ queued' = (queued \ Range(flushed)) \ Range(entries \o flushed)
        /\ failed' = IF queued' # {} THEN header ELSE failed
    BY <1>1 DEF flushed
  <2>2. Range(<< >>) = {} /\ IsInjective(<< >>) /\ << >> \in Seq(Digests)
    BY DEF Range, IsInjective
  <2> QED
    BY <2>1, <2>2
<1>f. (failed' = failed /\ status' = status) \/ status'.state = "failed"
  <2>1. \/ failed' = failed /\ status' = status
        \/ status' = Bridge!Status("failed", "import")
    BY <1>1
  <2> QED
    BY <2>1 DEF Bridge!Status
<1>9. BridgeTyped' /\ Once'
  <2>1. BridgeTyped'
    BY <1>2, <1>6, <1>8 DEF BridgeTyped
  <2>2. Once'
    BY <1>2, <1>3, <1>6, <1>7, <1>8 DEF Once
  <2> QED
    BY <2>1, <2>2
<1>10. Awaited' /\ Kept'
  <2> SUFFICES ASSUME failed' # header PROVE Awaited' /\ Kept'
    BY <1>2 DEF Awaited, Kept
  <2>1. failed # header /\ queued = Range(deferred) /\ entries = journal[session]
        /\ accepted \subseteq Range(journal[session]) \cup Range(deferred)
    BY <1>8 DEF Kept, Range
  <2>2. Range(deferred) \subseteq Range(flushed)
    <3>1. Range(entries \o flushed) = Range(entries) \cup Range(flushed)
      BY <1>3, <1>4, Injective
    <3>2. Range(journal[session]) \cap Range(deferred) = {}
      BY DEF Once
    <3> QED
      BY <1>8, <2>1, <3>1, <3>2
  <2>3. Awaited'
    BY <1>2, <1>7, <2>1, <2>2 DEF Awaited
  <2>4. Kept'
    BY <1>2, <1>3, <1>6, <1>7, <1>8, <2>1, <2>2 DEF Kept
  <2> QED
    BY <2>3, <2>4
<1>11. FewWait' /\ Bridge!FailureIsShown'
  <2>1. queued' \subseteq queued
    BY <1>8
  <2>2. FewWait'
    BY <2>1, FS_Subset, FS_CardinalityType, BridgeConstants DEF FewWait
  <2>3. Bridge!FailureIsShown'
    BY <1>2, <1>f DEF Bridge!FailureIsShown
  <2> QED
    BY <2>2, <2>3
<1> QED
  BY <1>9, <1>10, <1>11

LEMMA BridgeLoads ==
    ASSUME BridgeInv, NEW s \in Sessions, Bridge!Load(s)
    PROVE  BridgeInv'
<1> USE DEF BridgeInv
<1>1. /\ session' = s /\ header' = header + 1 /\ entries' = journal[s] /\ deferred' = << >>
      /\ queued' = {} /\ accepted' = {} /\ UNCHANGED <<journal, failed, op>>
  BY DEF Bridge!Load
<1>2. Range(<< >>) = {} /\ IsInjective(<< >>) /\ << >> \in Seq(Digests)
  BY DEF Range, IsInjective
<1>3. BridgeTyped' /\ failed' # header'
  BY <1>1, <1>2 DEF BridgeTyped
<1>4. Once'
  BY <1>1, <1>2 DEF Once
<1>5. Awaited'
  BY <1>1 DEF Awaited, BridgeTyped
<1>6. Kept'
  BY <1>1, <1>2 DEF Kept, Range
<1>7. FewWait' /\ Bridge!FailureIsShown'
  BY <1>1, <1>3, FS_EmptySet, BridgeConstants DEF FewWait, Bridge!FailureIsShown
<1> QED
  BY <1>3, <1>4, <1>5, <1>6, <1>7

LEMMA BridgeStep == ASSUME BridgeInv, Bridge!Next PROVE BridgeInv'
<1>1. CASE Bridge!Export \/ Bridge!Preview
  <2>1. /\ UNCHANGED <<session, header, entries, journal, deferred, queued, failed, op, accepted>>
        /\ \/ status'.state # "completed"
           \/ failed # header
           \/ status'.operation = "preview" /\ status'.known = (failed = header)
    BY <1>1 DEF Bridge!Export, Bridge!Preview, Bridge!Reads, Bridge!Readable, Bridge!Status
  <2> QED
    BY <2>1 DEF BridgeInv, BridgeTyped, Once, Awaited, Kept, FewWait, Bridge!FailureIsShown
<1>2. CASE Bridge!RunStarts \/ Bridge!RunEnds
  <2>1. UNCHANGED <<session, header, entries, journal, deferred, queued, failed, op, status, accepted>>
    BY <1>2 DEF Bridge!RunStarts, Bridge!RunEnds
  <2> QED
    BY <2>1 DEF BridgeInv, BridgeTyped, Once, Awaited, Kept, FewWait, Bridge!FailureIsShown
<1> QED
  BY <1>1, <1>2, BridgeImports, BridgeReturns, BridgeFlushes, BridgeLoads DEF Bridge!Next

LEMMA BridgeStays == ASSUME BridgeInv, UNCHANGED bridge PROVE BridgeInv'
BY DEF BridgeInv, bridge, BridgeTyped, Once, Awaited, Kept, FewWait, Bridge!FailureIsShown

LEMMA BridgeSound ==
    ASSUME BridgeInv
    PROVE  Bridge!ImportedOnce /\ Bridge!AcceptedIsKept /\ Bridge!FailureIsShown
<1>1. << >> \in Seq(Digests) /\ Range(<< >>) = {} /\ IsInjective(<< >>)
  BY DEF Range, IsInjective
<1>2. ASSUME NEW s \in Sessions, NEW t \in Seq(Digests), t = IF s = session THEN deferred ELSE << >>
      PROVE  IsInjective(journal[s] \o t)
  <2>1. journal[s] \in Seq(Digests) /\ IsInjective(journal[s]) /\ IsInjective(t)
        /\ Range(journal[s]) \cap Range(t) = {}
    BY <1>1, <1>2 DEF BridgeInv, BridgeTyped, Once
  <2> QED
    BY <2>1, Injective
<1>3. Bridge!ImportedOnce
  BY <1>1, <1>2, BridgeConstants
     DEF Bridge!ImportedOnce, Bridge!IsInjective, IsInjective, BridgeInv, BridgeTyped, FewWait
<1> QED
  BY <1>3 DEF BridgeInv, Kept, Bridge!AcceptedIsKept, Bridge!Range, Range

-----------------------------------------------------------------------------
(* The graph *)

Graphs == [nodes : SUBSET Nodes, relations : SUBSET (Nodes \X Nodes)]

\* Every relation is between two nodes.
Closed(g) == \A r \in g.relations : r[1] # r[2] /\ {r[1], r[2]} \subseteq g.nodes

MemoryTyped ==
    /\ graph \in Graphs /\ lock \in Memory!Locks \cup {Absent} /\ locks \in Nat
    /\ mutator \in [Processes -> {"idle", "waiting", "made", "opened", "locked", "read", "written",
                                  "emptied", "inspected", "doubting", "reclaimed"}]
    /\ snap \in [Processes -> Graphs] /\ seen \in [Processes -> Nat]
    /\ taken \in BOOLEAN /\ doubted \in BOOLEAN

\* Lock directories are numbered as they are made, and each has one maker.
Numbered ==
    /\ lock # Absent => lock.n <= locks
    /\ \A p \in Processes : seen[p] <= locks
    /\ \A p, q \in Processes : Memory!Holds(p) /\ Memory!Holds(q) /\ seen[p] = seen[q] => p = q

\* As long as nobody lost it, who uses the lock has made the directory that is there.
UsedByMaker == \A p \in Processes : ~taken /\ Memory!Uses(p) => lock # Absent /\ lock.n = seen[p]

\* What was read under it is still the file.
ReadIsCurrent ==
    \A p \in Processes : Closed(snap[p]) /\ (~taken /\ mutator[p] = "read" => snap[p] = graph)

AtLock(p) == Memory!Holds(p) \/ mutator[p] = "reclaimed"

\* One at a time holds the lock or removes it.
OneAtTheLock == \A p, q \in Processes : AtLock(p) /\ AtLock(q) => p = q

\* The directory that is there is that of its holder, and has no file but its own.
LockOfHolder ==
    /\ lock # Absent => lock.owners \subseteq {lock.n}
    /\ \A p \in Processes :
          /\ AtLock(p) => lock # Absent
          /\ Memory!Holds(p) => lock.n = seen[p] /\ seen[p] \notin lock.dead
          /\ mutator[p] \in {"made", "reclaimed"} => lock.owners = {}

\* Who was found to be gone holds nothing.
GoneIsGone ==
    \A p, q \in Processes : mutator[p] = "inspected" /\ Memory!Holds(q) => seen[q] # seen[p]

\* As long as no blank file was reclaimed of a living process, or twice.
Undoubted == doubted \/ (~taken /\ OneAtTheLock /\ LockOfHolder /\ GoneIsGone)

MemoryInv ==
    /\ MemoryTyped /\ Numbered /\ UsedByMaker /\ ReadIsCurrent /\ Undoubted
    /\ graph = expected /\ Closed(graph)

LEMMA MemoryBegins == ASSUME Memory!Init PROVE MemoryInv
<1> USE DEF Memory!Init, Memory!EmptyGraph, Memory!EarlierGraph
<1>1. graph \in Graphs /\ Memory!EmptyGraph \in Graphs
  BY DEF Graphs
<1>2. Closed(graph) /\ Closed(Memory!EmptyGraph)
  BY DEF Closed
<1>3. MemoryTyped
  BY <1>1 DEF MemoryTyped
<1>n. Numbered
  BY DEF Numbered, Memory!Holds, Memory!Uses
<1>4. UsedByMaker /\ ReadIsCurrent
  BY <1>2 DEF UsedByMaker, ReadIsCurrent, Memory!Uses
<1>5. Undoubted
  BY DEF Undoubted, OneAtTheLock, LockOfHolder, GoneIsGone, AtLock, Memory!Holds, Memory!Uses
<1> QED
  BY <1>2, <1>3, <1>n, <1>4, <1>5 DEF MemoryInv

LEMMA AppliedTypes ==
    ASSUME NEW g \in Graphs, NEW m \in Memory!Mutations
    PROVE  Memory!Applied(g, m) \in Graphs
<1>1. CASE m.kind = "record"
  BY <1>1 DEF Memory!Applied, Graphs, Memory!Mutations
<1>2. CASE m.kind = "forget"
  BY <1>2 DEF Memory!Applied, Graphs, Memory!Incident, Memory!Mutations
<1>3. CASE m.kind = "link"
  BY <1>3 DEF Memory!Applied, Graphs, Memory!Mutations
<1> QED
  BY <1>1, <1>2, <1>3 DEF Memory!Mutations

\* What is applied keeps relations between the nodes of the graph.
LEMMA AppliedSound ==
    ASSUME NEW g \in Graphs, NEW m \in Memory!Mutations, Memory!Accepted(g, m), Closed(g)
    PROVE  Closed(Memory!Applied(g, m))
<1> USE DEF Closed
<1>1. CASE m.kind = "record"
  BY <1>1 DEF Memory!Applied, Graphs, Memory!Mutations
<1>2. CASE m.kind = "forget"
  BY <1>2 DEF Memory!Applied, Graphs, Memory!Incident, Memory!Mutations
<1>3. CASE m.kind = "link"
  BY <1>3 DEF Memory!Applied, Graphs, Memory!Mutations, Memory!Accepted, Memory!Linkable
<1> QED
  BY <1>1, <1>2, <1>3 DEF Memory!Mutations

\* A lock directory whose files change is still the one it was.
SameLock ==
    /\ lock' \in Memory!Locks \cup {Absent} /\ (lock' = Absent <=> lock = Absent)
    /\ lock # Absent => lock'.n = lock.n

LEMMA LockChanges ==
    ASSUME MemoryTyped, lock # Absent, NEW o \in SUBSET Nat, NEW b \in SUBSET Nat, NEW d \in SUBSET Nat,
           NEW a \in BOOLEAN,
           lock' = [lock EXCEPT !.owners = o, !.blank = b, !.dead = d, !.old = a]
    PROVE  SameLock /\ lock'.owners = o /\ lock'.blank = b /\ lock'.dead = d
<1>1. lock \in Memory!Locks /\ lock' \in Memory!Locks
  BY DEF MemoryTyped, Memory!Locks
<1> QED
  BY <1>1, MemoryAssumption DEF SameLock, Memory!Locks, Memory!LockAssumption

LEMMA Unlinks ==
    ASSUME MemoryTyped, NEW n \in Nat, Memory!Unlink(n)
    PROVE  SameLock /\ (lock # Absent => lock'.owners = lock.owners \ {n} /\ lock'.dead \subseteq lock.dead)
<1>1. CASE ~Memory!There(n)
  BY <1>1 DEF Memory!Unlink, Memory!There, MemoryTyped, SameLock
<1>2. CASE Memory!There(n)
  <2>1. lock # Absent /\ lock \in Memory!Locks
    BY <1>2 DEF Memory!There, MemoryTyped
  <2>2. /\ lock' = [lock EXCEPT !.owners = lock.owners \ {n}, !.blank = lock.blank \ {n},
                                !.dead = lock.dead \ {n}, !.old = FALSE]
        /\ {lock.owners \ {n}, lock.blank \ {n}, lock.dead \ {n}} \subseteq SUBSET Nat
    BY <1>2, <2>1 DEF Memory!Unlink, Memory!Locks
  <2>3. SameLock /\ lock'.owners = lock.owners \ {n} /\ lock'.dead = lock.dead \ {n}
    BY <2>1, <2>2, LockChanges
  <2> QED
    BY <2>3
<1> QED
  BY <1>1, <1>2

LEMMA MemoryTypes == ASSUME MemoryInv, Memory!Next PROVE MemoryTyped'
<1> USE DEF MemoryInv, MemoryTyped, Memory!At, Memory!history
<1>e. Memory!EmptyGraph \in Graphs
  BY DEF Memory!EmptyGraph, Graphs
<1>1. ASSUME NEW p \in Processes,
             Memory!Mutate(p) \/ Memory!Read(p) \/ Memory!Abandon(p) \/ Memory!OwnerFails(p) \/ Memory!GiveUp(p)
      PROVE  MemoryTyped'
  BY <1>1, <1>e
     DEF Memory!Mutate, Memory!Read, Memory!Abandon, Memory!OwnerFails, Memory!GiveUp
<1>2. ASSUME NEW p \in Processes, Memory!Write(p) PROVE MemoryTyped'
  BY <1>2, <1>e, AppliedTypes DEF Memory!Write
<1>3. ASSUME NEW p \in Processes, Memory!MakeLock(p) PROVE MemoryTyped'
  BY <1>3 DEF Memory!MakeLock, Memory!Locks
<1>4. ASSUME NEW p \in Processes, Memory!OpenOwner(p) PROVE MemoryTyped'
  <2>1. lock \in Memory!Locks /\ seen[p] \in Nat
    BY <1>4 DEF Memory!OpenOwner
  <2>2. lock' \in Memory!Locks
    BY <1>4, <2>1 DEF Memory!OpenOwner, Memory!Locks
  <2> QED
    BY <1>4, <2>2 DEF Memory!OpenOwner
<1>5. ASSUME NEW p \in Processes, Memory!FillOwner(p) PROVE MemoryTyped'
  BY <1>5 DEF Memory!FillOwner, Memory!There, Memory!Locks
<1>6. ASSUME NEW p \in Processes,
             Memory!RemoveOwner(p) \/ Memory!ReclaimOwner(p) \/ Memory!ReclaimBlank(p)
      PROVE  MemoryTyped'
  <2>1. SameLock
    BY <1>6, Unlinks DEF Memory!RemoveOwner, Memory!ReclaimOwner, Memory!ReclaimBlank
  <2>2. doubted' \in BOOLEAN
    BY <1>6 DEF Memory!RemoveOwner, Memory!ReclaimOwner, Memory!ReclaimBlank
  <2> QED
    BY <1>6, <2>1, <2>2 DEF Memory!RemoveOwner, Memory!ReclaimOwner, Memory!ReclaimBlank, SameLock
<1>7. ASSUME NEW p \in Processes, Memory!RemoveLock(p) \/ Memory!ReclaimLock(p) PROVE MemoryTyped'
  <2>1. lock' \in {lock, Absent} /\ taken' \in BOOLEAN
    BY <1>7 DEF Memory!RemoveLock, Memory!ReclaimLock, Memory!Rmdir
  <2> QED
    BY <1>7, <2>1 DEF Memory!RemoveLock, Memory!ReclaimLock
<1>8. ASSUME NEW p \in Processes, Memory!InspectLock(p) PROVE MemoryTyped'
  BY <1>8 DEF Memory!InspectLock
<1>9. ASSUME NEW p \in Processes, Memory!Crash(p) PROVE MemoryTyped'
  BY <1>9, <1>e DEF Memory!Crash, Memory!There, Memory!Locks
<1>10. ASSUME Memory!Age PROVE MemoryTyped'
  BY <1>10 DEF Memory!Age, Memory!Locks
<1> QED
  BY <1>1, <1>2, <1>3, <1>4, <1>5, <1>6, <1>7, <1>8, <1>9, <1>10 DEF Memory!Next

LEMMA MemoryStep == ASSUME MemoryInv, Memory!Next PROVE MemoryInv'
<1>t. MemoryTyped /\ MemoryTyped'
  BY MemoryTypes DEF MemoryInv
<1>e. Closed(Memory!EmptyGraph)
  BY DEF Closed, Memory!EmptyGraph
<1> USE DEF Memory!At, Memory!Uses, Memory!Holds, Memory!history, AtLock
<1> DEFINE Parts == /\ Numbered' /\ UsedByMaker' /\ ReadIsCurrent' /\ Undoubted'
                    /\ graph' = expected' /\ Closed(graph)'
<1>q. ASSUME Parts PROVE MemoryInv'
  BY <1>t, <1>q DEF MemoryInv
<1>1. ASSUME NEW p \in Processes,
             Memory!Mutate(p) \/ Memory!Abandon(p) \/ Memory!OwnerFails(p) \/ Memory!GiveUp(p)
      PROVE  MemoryInv'
  <2>1. /\ UNCHANGED <<graph, expected, lock, locks, seen, taken, doubted>>
        /\ snap' \in {snap, [snap EXCEPT ![p] = Memory!EmptyGraph]}
        /\ \A q \in Processes \ {p} : mutator'[q] = mutator[q]
        /\ Memory!Holds(p)' => Memory!Holds(p)
        /\ mutator'[p] \in {"waiting", "written", "emptied", "idle"}
    BY <1>1, <1>t DEF Memory!Mutate, Memory!Abandon, Memory!OwnerFails, Memory!GiveUp, MemoryTyped
  <2>2. Numbered' /\ UsedByMaker' /\ ReadIsCurrent'
    BY <2>1, <1>t, <1>e DEF MemoryInv, Numbered, UsedByMaker, ReadIsCurrent, MemoryTyped
  <2>3. Undoubted'
    BY <2>1, <1>t DEF MemoryInv, Undoubted, OneAtTheLock, LockOfHolder, GoneIsGone, MemoryTyped
  <2> QED
    BY <1>q, <2>1, <2>2, <2>3 DEF MemoryInv
<1>2. ASSUME NEW p \in Processes, Memory!Read(p) PROVE MemoryInv'
  <2>1. /\ UNCHANGED <<graph, expected, lock, locks, seen, taken, doubted>>
        /\ mutator[p] = "locked" /\ mutator' = [mutator EXCEPT ![p] = "read"]
        /\ snap' = [snap EXCEPT ![p] = graph]
    BY <1>2 DEF Memory!Read
  <2>2. Numbered' /\ UsedByMaker' /\ ReadIsCurrent'
    BY <2>1, <1>t DEF MemoryInv, Numbered, UsedByMaker, ReadIsCurrent, MemoryTyped
  <2>3. Undoubted'
    BY <2>1, <1>t DEF MemoryInv, Undoubted, OneAtTheLock, LockOfHolder, GoneIsGone, MemoryTyped
  <2> QED
    BY <1>q, <2>1, <2>2, <2>3 DEF MemoryInv
<1>3. ASSUME NEW p \in Processes, Memory!Write(p) PROVE MemoryInv'
  <2>1. PICK m \in Memory!Mutations :
          /\ Memory!Accepted(snap[p], m) /\ mutator[p] = "read"
          /\ mutator' = [mutator EXCEPT ![p] = "written"]
          /\ graph' = Memory!Applied(snap[p], m)
          /\ expected' = IF taken THEN graph' ELSE Memory!Applied(expected, m)
          /\ snap' = [snap EXCEPT ![p] = Memory!EmptyGraph]
          /\ UNCHANGED <<lock, locks, seen, taken, doubted>>
    BY <1>3 DEF Memory!Write
  <2>2. Closed(graph') /\ graph' = expected'
    BY <2>1, <1>t, AppliedSound DEF MemoryInv, ReadIsCurrent, MemoryTyped
  <2>3. ASSUME ~taken, NEW q \in Processes \ {p}, mutator[q] = "read" PROVE FALSE
    BY <2>1, <2>3 DEF MemoryInv, UsedByMaker, Numbered
  <2>4. Numbered' /\ UsedByMaker'
    BY <2>1, <1>t DEF MemoryInv, Numbered, UsedByMaker, MemoryTyped
  <2>5. ReadIsCurrent'
    BY <2>1, <2>3, <1>t, <1>e DEF MemoryInv, ReadIsCurrent, MemoryTyped
  <2>6. Undoubted'
    BY <2>1, <1>t DEF MemoryInv, Undoubted, OneAtTheLock, LockOfHolder, GoneIsGone, MemoryTyped
  <2> QED
    BY <1>q, <2>2, <2>4, <2>5, <2>6 DEF Closed
<1>4. ASSUME NEW p \in Processes, Memory!MakeLock(p) PROVE MemoryInv'
  <2>1. /\ lock = Absent /\ locks' = locks + 1 /\ lock' \in Memory!Locks /\ lock' # Absent
        /\ lock'.n = locks + 1 /\ lock'.owners = {} /\ lock'.dead = {}
        /\ seen' = [seen EXCEPT ![p] = locks + 1] /\ mutator[p] = "waiting"
        /\ mutator' = [mutator EXCEPT ![p] = "made"] /\ UNCHANGED <<graph, snap, expected, taken, doubted>>
    <3>1. /\ lock = Absent /\ locks' = locks + 1 /\ locks + 1 \in Nat
          /\ lock' = [n |-> locks + 1, owners |-> {}, blank |-> {}, dead |-> {}, old |-> FALSE]
          /\ seen' = [seen EXCEPT ![p] = locks + 1] /\ mutator[p] = "waiting"
          /\ mutator' = [mutator EXCEPT ![p] = "made"] /\ UNCHANGED <<graph, snap, expected, taken, doubted>>
      BY <1>4, <1>t DEF Memory!MakeLock, Memory!Free, MemoryTyped
    <3>2. lock' \in Memory!Locks
      BY <3>1 DEF Memory!Locks
    <3> QED
      BY <3>1, <3>2, MemoryAssumption DEF Memory!LockAssumption
  <2>2. Numbered'
    BY <2>1, <1>t DEF MemoryInv, Numbered, MemoryTyped
  <2>3. UsedByMaker' /\ ReadIsCurrent'
    BY <2>1, <1>t DEF MemoryInv, UsedByMaker, ReadIsCurrent, MemoryTyped
  <2>4. Undoubted'
    <3> SUFFICES ASSUME ~doubted PROVE ~taken /\ OneAtTheLock' /\ LockOfHolder' /\ GoneIsGone'
      BY <2>1 DEF Undoubted
    <3>1. ~taken /\ \A q \in Processes : ~AtLock(q)
      BY <2>1 DEF MemoryInv, Undoubted, LockOfHolder
    <3>2. OneAtTheLock' /\ LockOfHolder'
      BY <2>1, <3>1, <1>t DEF OneAtTheLock, LockOfHolder, MemoryTyped
    <3>3. GoneIsGone'
      BY <2>1, <3>1, <1>t DEF MemoryInv, Numbered, GoneIsGone, MemoryTyped
    <3> QED
      BY <3>1, <3>2, <3>3
  <2> QED
    BY <1>q, <2>1, <2>2, <2>3, <2>4 DEF MemoryInv
<1>5. ASSUME NEW p \in Processes, Memory!OpenOwner(p) \/ Memory!FillOwner(p) PROVE MemoryInv'
  <2>1. /\ Memory!Uses(p) /\ UNCHANGED <<graph, expected, locks, snap, seen, taken, doubted>>
        /\ mutator' \in {[mutator EXCEPT ![p] = "opened"], [mutator EXCEPT ![p] = "locked"]}
    BY <1>5 DEF Memory!OpenOwner, Memory!FillOwner
  <2>2. /\ SameLock
        /\ lock # Absent => lock'.owners \subseteq lock.owners \cup {seen[p]} /\ lock'.dead = lock.dead
    <3>1. CASE Memory!OpenOwner(p)
      <4>1. lock # Absent /\ lock \in Memory!Locks /\ seen[p] \in Nat
        BY <3>1, <1>t DEF Memory!OpenOwner, MemoryTyped
      <4>2. /\ lock' = [lock EXCEPT !.owners = lock.owners \cup {seen[p]},
                                    !.blank = lock.blank \cup {seen[p]}, !.dead = lock.dead, !.old = FALSE]
            /\ {lock.owners \cup {seen[p]}, lock.blank \cup {seen[p]}, lock.dead} \subseteq SUBSET Nat
        BY <3>1, <4>1 DEF Memory!OpenOwner, Memory!Locks
      <4> QED
        BY <1>t, <4>1, <4>2, LockChanges
    <3>2. CASE Memory!FillOwner(p) /\ Memory!There(seen[p])
      <4>1. lock # Absent /\ lock \in Memory!Locks
        BY <3>2, <1>t DEF Memory!There, MemoryTyped
      <4>2. /\ lock' = [lock EXCEPT !.owners = lock.owners, !.blank = lock.blank \ {seen[p]},
                                    !.dead = lock.dead, !.old = FALSE]
            /\ {lock.owners, lock.blank \ {seen[p]}, lock.dead} \subseteq SUBSET Nat
        BY <3>2, <4>1 DEF Memory!FillOwner, Memory!Locks
      <4> QED
        BY <1>t, <4>1, <4>2, LockChanges
    <3>3. CASE Memory!FillOwner(p) /\ ~Memory!There(seen[p])
      BY <3>3, <1>t DEF Memory!FillOwner, SameLock, MemoryTyped
    <3> QED
      BY <1>5, <3>1, <3>2, <3>3
  <2>3. Numbered' /\ UsedByMaker' /\ ReadIsCurrent'
    BY <2>1, <2>2, <1>t DEF MemoryInv, Numbered, UsedByMaker, ReadIsCurrent, MemoryTyped, SameLock
  <2>4. Undoubted'
    <3> SUFFICES ASSUME ~doubted PROVE ~taken /\ OneAtTheLock' /\ LockOfHolder' /\ GoneIsGone'
      BY <2>1 DEF Undoubted
    <3>1. ~taken /\ OneAtTheLock /\ LockOfHolder /\ GoneIsGone
      BY DEF MemoryInv, Undoubted
    <3>2. OneAtTheLock' /\ GoneIsGone'
      BY <2>1, <3>1, <1>t DEF OneAtTheLock, GoneIsGone, MemoryTyped
    <3>3. \A q \in Processes \ {p} : ~AtLock(q)
      BY <2>1, <3>1 DEF OneAtTheLock
    <3>4. lock # Absent /\ lock.n = seen[p] /\ lock.owners \subseteq {lock.n} /\ seen[p] \notin lock.dead
      BY <2>1, <3>1 DEF LockOfHolder
    <3>5. LockOfHolder'
      BY <2>1, <2>2, <3>3, <3>4, <1>t DEF LockOfHolder, MemoryTyped, SameLock
    <3> QED
      BY <3>1, <3>2, <3>5
  <2> QED
    BY <1>q, <2>1, <2>3, <2>4 DEF MemoryInv
<1>6. ASSUME NEW p \in Processes,
             Memory!RemoveOwner(p) \/ Memory!ReclaimOwner(p) \/ Memory!ReclaimBlank(p)
      PROVE  MemoryInv'
  <2>1. /\ Memory!Unlink(seen[p]) /\ mutator[p] \in {"written", "inspected", "doubting"}
        /\ UNCHANGED <<graph, expected, locks, snap, taken>> /\ (doubted => doubted')
        /\ mutator' \in {[mutator EXCEPT ![p] = "emptied"], [mutator EXCEPT ![p] = "idle"],
                         [mutator EXCEPT ![p] = "reclaimed"], [mutator EXCEPT ![p] = "waiting"]}
        /\ seen' \in {seen, [seen EXCEPT ![p] = 0]}
        /\ mutator'[p] = "emptied" => mutator[p] = "written" /\ seen' = seen
    BY <1>6, <1>t DEF Memory!RemoveOwner, Memory!ReclaimOwner, Memory!ReclaimBlank, MemoryTyped
  <2>2. SameLock /\ (lock # Absent => lock'.owners = lock.owners \ {seen[p]} /\ lock'.dead \subseteq lock.dead)
    BY <2>1, <1>t, Unlinks DEF MemoryTyped
  <2>3. Numbered' /\ UsedByMaker' /\ ReadIsCurrent'
    BY <2>1, <2>2, <1>t DEF MemoryInv, Numbered, UsedByMaker, ReadIsCurrent, MemoryTyped, SameLock
  <2>4. Undoubted'
    <3> SUFFICES ASSUME ~doubted' PROVE ~taken' /\ OneAtTheLock' /\ LockOfHolder' /\ GoneIsGone'
      BY DEF Undoubted
    <3>1. ~taken' /\ ~taken /\ OneAtTheLock /\ LockOfHolder /\ GoneIsGone
      BY <2>1 DEF MemoryInv, Undoubted
    <3>2. CASE mutator'[p] = "reclaimed"
      <4>1. /\ Memory!There(seen[p]) /\ seen' = [seen EXCEPT ![p] = 0]
            /\ \A q \in Processes : Memory!Holds(q) => seen[q] # seen[p]
            /\ mutator' = [mutator EXCEPT ![p] = "reclaimed"]
        BY <1>6, <3>1, <3>2, <1>t
           DEF Memory!RemoveOwner, Memory!ReclaimOwner, Memory!ReclaimBlank, Memory!Held, GoneIsGone, MemoryTyped
      <4>2. lock # Absent /\ lock.owners = {seen[p]} /\ lock.n = seen[p]
        BY <4>1, <3>1 DEF Memory!There, LockOfHolder
      <4>3. \A q \in Processes : ~AtLock(q)
        BY <4>1, <4>2, <3>1 DEF LockOfHolder
      <4>4. lock' # Absent /\ lock'.owners = {}
        BY <2>2, <4>2 DEF SameLock
      <4>5. OneAtTheLock' /\ LockOfHolder' /\ GoneIsGone'
        BY <4>1, <4>3, <4>4, <1>t DEF OneAtTheLock, LockOfHolder, GoneIsGone, MemoryTyped
      <4> QED
        BY <3>1, <4>5
    <3>3. CASE mutator'[p] # "reclaimed"
      <4>1. /\ \A q \in Processes : AtLock(q)' => AtLock(q) /\ seen'[q] = seen[q] /\ (Memory!Holds(q)' => Memory!Holds(q))
            /\ \A q \in Processes : mutator'[q] \in {"made", "reclaimed"} => mutator'[q] = mutator[q]
            /\ \A q \in Processes : mutator'[q] = "inspected" => mutator[q] = "inspected" /\ seen'[q] = seen[q]
        BY <2>1, <3>3, <1>t DEF MemoryTyped
      <4>2. OneAtTheLock' /\ GoneIsGone'
        BY <3>1, <4>1 DEF OneAtTheLock, GoneIsGone
      <4>3. LockOfHolder'
        BY <2>2, <3>1, <4>1 DEF LockOfHolder, SameLock
      <4> QED
        BY <3>1, <4>2, <4>3
    <3> QED
      BY <3>2, <3>3
  <2> QED
    BY <1>q, <2>1, <2>3, <2>4 DEF MemoryInv
<1>7. ASSUME NEW p \in Processes, Memory!RemoveLock(p) \/ Memory!ReclaimLock(p) PROVE MemoryInv'
  <2>1. /\ mutator[p] \in {"emptied", "reclaimed"}
        /\ mutator' \in {[mutator EXCEPT ![p] = "idle"], [mutator EXCEPT ![p] = "waiting"]}
        /\ seen' \in {seen, [seen EXCEPT ![p] = 0]}
        /\ UNCHANGED <<graph, expected, locks, snap, doubted>>
        /\ (lock' = lock /\ taken' = taken) \/
           (lock # Absent /\ lock' = Absent /\ taken' = (taken \/ Memory!Used(lock.n)))
    BY <1>7, <1>t DEF Memory!RemoveLock, Memory!ReclaimLock, Memory!Rmdir, Memory!Empty, MemoryTyped
  <2>2. \A q \in Processes : /\ Memory!Holds(q)' => Memory!Holds(q) /\ seen'[q] = seen[q] /\ q # p
                             /\ AtLock(q)' => AtLock(q) /\ mutator'[q] = mutator[q] /\ q # p
                             /\ mutator'[q] \in {"read", "inspected"} => mutator'[q] = mutator[q] /\ seen'[q] = seen[q]
    BY <2>1, <1>t DEF MemoryTyped
  <2>3. Numbered'
    BY <2>1, <2>2, <1>t DEF MemoryInv, Numbered, MemoryTyped
  <2>4. UsedByMaker'
    <3> SUFFICES ASSUME NEW q \in Processes, ~taken', Memory!Uses(q)'
                 PROVE  lock' # Absent /\ lock'.n = seen'[q]
      BY DEF UsedByMaker
    <3>1. Memory!Uses(q) /\ seen'[q] = seen[q] /\ ~taken
      BY <2>1, <2>2, <1>t DEF MemoryTyped
    <3>2. lock # Absent /\ lock.n = seen[q]
      BY <3>1 DEF MemoryInv, UsedByMaker
    <3> QED
      BY <2>1, <3>1, <3>2 DEF Memory!Used
  <2>5. ReadIsCurrent'
    BY <2>1, <2>2, <1>t DEF MemoryInv, ReadIsCurrent, MemoryTyped
  <2>6. Undoubted'
    <3> SUFFICES ASSUME ~doubted PROVE ~taken' /\ OneAtTheLock' /\ LockOfHolder' /\ GoneIsGone'
      BY <2>1 DEF Undoubted
    <3>1. ~taken /\ OneAtTheLock /\ LockOfHolder /\ GoneIsGone
      BY DEF MemoryInv, Undoubted
    <3>2. \A q \in Processes : ~AtLock(q)' /\ ~Memory!Uses(q)
      BY <2>1, <2>2, <3>1, <1>t DEF OneAtTheLock, MemoryTyped
    <3>3. ~taken'
      BY <2>1, <3>1, <3>2 DEF Memory!Used
    <3>4. OneAtTheLock' /\ LockOfHolder' /\ GoneIsGone'
      BY <2>1, <3>1, <3>2 DEF OneAtTheLock, LockOfHolder, GoneIsGone
    <3> QED
      BY <3>3, <3>4
  <2> QED
    BY <1>q, <2>1, <2>3, <2>4, <2>5, <2>6 DEF MemoryInv
<1>8. ASSUME NEW p \in Processes, Memory!InspectLock(p) PROVE MemoryInv'
  <2>1. PICK n \in 1 .. locks :
          /\ Memory!Stale(n) /\ mutator[p] = "waiting" /\ seen' = [seen EXCEPT ![p] = n]
          /\ mutator' = [mutator EXCEPT ![p] = IF n \in lock.blank THEN "doubting" ELSE "inspected"]
          /\ UNCHANGED <<graph, lock, locks, snap, expected, taken, doubted>>
    BY <1>8 DEF Memory!InspectLock
  <2>2. \A q \in Processes : AtLock(q)' => q # p
    BY <2>1, <1>t DEF MemoryTyped
  <2>3. \A q \in Processes \ {p} : mutator'[q] = mutator[q] /\ seen'[q] = seen[q]
    BY <2>1, <1>t DEF MemoryTyped
  <2>4. n \in Nat /\ n <= locks /\ seen'[p] = n
    BY <2>1, <1>t DEF MemoryTyped
  <2>5. Numbered'
    BY <2>1, <2>2, <2>3, <2>4 DEF MemoryInv, Numbered
  <2>6. UsedByMaker' /\ ReadIsCurrent'
    BY <2>1, <2>2, <2>3 DEF MemoryInv, UsedByMaker, ReadIsCurrent
  <2>7. Undoubted'
    <3> SUFFICES ASSUME ~doubted PROVE ~taken /\ OneAtTheLock' /\ LockOfHolder' /\ GoneIsGone'
      BY <2>1 DEF Undoubted
    <3>1. ~taken /\ OneAtTheLock /\ LockOfHolder /\ GoneIsGone
      BY DEF MemoryInv, Undoubted
    <3>2. OneAtTheLock' /\ LockOfHolder'
      BY <2>1, <2>2, <2>3, <3>1, <1>t DEF OneAtTheLock, LockOfHolder, MemoryTyped
    <3>3. mutator'[p] = "inspected" => n \in lock.dead
      BY <2>1, <1>t DEF Memory!Stale, Memory!Gone, MemoryTyped
    <3>4. GoneIsGone'
      BY <2>1, <2>2, <2>3, <2>4, <3>1, <3>3 DEF GoneIsGone, LockOfHolder
    <3> QED
      BY <3>1, <3>2, <3>4
  <2> QED
    BY <1>q, <2>1, <2>5, <2>6, <2>7 DEF MemoryInv
<1>9. ASSUME Memory!Age PROVE MemoryInv'
  <2>1. /\ lock \in Memory!Locks /\ lock' \in Memory!Locks /\ lock' # Absent /\ lock # Absent
        /\ lock'.n = lock.n /\ lock'.dead = lock.dead /\ lock'.owners = lock.owners
        /\ UNCHANGED <<graph, locks, mutator, snap, seen, expected, taken, doubted>>
    BY <1>9, <1>t, MemoryAssumption DEF Memory!Age, MemoryTyped, Memory!Locks, Memory!LockAssumption
  <2>2. Numbered' /\ UsedByMaker' /\ ReadIsCurrent'
    BY <2>1 DEF MemoryInv, Numbered, UsedByMaker, ReadIsCurrent
  <2>3. Undoubted'
    BY <2>1 DEF MemoryInv, Undoubted, OneAtTheLock, LockOfHolder, GoneIsGone
  <2> QED
    BY <1>q, <2>1, <2>2, <2>3 DEF MemoryInv
<1>10. ASSUME NEW p \in Processes, Memory!Crash(p) PROVE MemoryInv'
  <2>1. /\ mutator' = [mutator EXCEPT ![p] = "idle"] /\ seen' = [seen EXCEPT ![p] = 0]
        /\ snap' = [snap EXCEPT ![p] = Memory!EmptyGraph]
        /\ UNCHANGED <<graph, locks, expected, taken, doubted>>
        /\ lock' = IF Memory!Holds(p) /\ Memory!There(seen[p])
                   THEN [lock EXCEPT !.dead = @ \cup {seen[p]}] ELSE lock
    BY <1>10 DEF Memory!Crash
  <2>2. /\ SameLock /\ (lock # Absent => lock'.owners = lock.owners)
        /\ ~Memory!Holds(p) => lock' = lock
    <3>1. CASE ~(Memory!Holds(p) /\ Memory!There(seen[p]))
      BY <2>1, <3>1, <1>t DEF SameLock, MemoryTyped
    <3>2. CASE Memory!Holds(p) /\ Memory!There(seen[p])
      <4>1. lock # Absent /\ lock \in Memory!Locks /\ seen[p] \in Nat
        BY <3>2, <1>t DEF Memory!There, MemoryTyped
      <4>2. /\ lock' = [lock EXCEPT !.owners = lock.owners, !.blank = lock.blank,
                                    !.dead = lock.dead \cup {seen[p]}, !.old = lock.old]
            /\ {lock.owners, lock.blank, lock.dead \cup {seen[p]}} \subseteq SUBSET Nat /\ lock.old \in BOOLEAN
        BY <2>1, <3>2, <4>1 DEF Memory!Locks
      <4> QED
        BY <3>2, <1>t, <4>1, <4>2, LockChanges
    <3> QED
      BY <3>1, <3>2
  <2>3. /\ \A q \in Processes \ {p} : mutator'[q] = mutator[q] /\ seen'[q] = seen[q] /\ snap'[q] = snap[q]
        /\ mutator'[p] = "idle" /\ seen'[p] = 0 /\ snap'[p] = Memory!EmptyGraph
    BY <1>t, <2>1 DEF MemoryTyped
  <2>4. Numbered' /\ UsedByMaker' /\ ReadIsCurrent'
    BY <1>t, <1>e, <2>1, <2>2, <2>3
       DEF MemoryInv, Numbered, UsedByMaker, ReadIsCurrent, MemoryTyped, SameLock
  <2>5. Undoubted'
    <3> SUFFICES ASSUME ~doubted PROVE ~taken /\ OneAtTheLock' /\ LockOfHolder' /\ GoneIsGone'
      BY <2>1 DEF Undoubted
    <3>1. ~taken /\ OneAtTheLock /\ LockOfHolder /\ GoneIsGone
      BY DEF MemoryInv, Undoubted
    <3>2. OneAtTheLock' /\ GoneIsGone'
      BY <2>3, <3>1 DEF OneAtTheLock, GoneIsGone
    <3>3. \A q \in Processes \ {p} : Memory!Holds(q) => lock' = lock
      BY <2>2, <3>1 DEF OneAtTheLock
    <3>4. LockOfHolder'
      BY <2>2, <2>3, <3>1, <3>3 DEF LockOfHolder, SameLock
    <3> QED
      BY <3>1, <3>2, <3>4
  <2> QED
    BY <1>q, <2>1, <2>4, <2>5 DEF MemoryInv
<1> QED
  BY <1>1, <1>2, <1>3, <1>4, <1>5, <1>6, <1>7, <1>8, <1>9, <1>10 DEF Memory!Next

LEMMA MemoryStays == ASSUME MemoryInv, UNCHANGED memory PROVE MemoryInv'
<1> USE DEF MemoryInv, memory, Memory!Holds, Memory!Uses, AtLock
<1>1. MemoryTyped' /\ Numbered' /\ UsedByMaker' /\ ReadIsCurrent' /\ graph' = expected' /\ Closed(graph)'
  BY DEF MemoryTyped, Numbered, UsedByMaker, ReadIsCurrent, Closed
<1>2. Undoubted'
  BY DEF Undoubted, OneAtTheLock, LockOfHolder, GoneIsGone
<1> QED
  BY <1>1, <1>2

LEMMA MemorySound == ASSUME MemoryInv PROVE Memory!GraphIsSerial
BY DEF MemoryInv, Undoubted, Closed, Memory!GraphIsSerial

-----------------------------------------------------------------------------
(* The ledger *)

Days == Ledger!Days
Row == [Days -> Ledger!Entries \cup {NoEntry}]
Snapshot == [cost : Nat, day : Days]

\* The days that a session has entries of, and the cost at the end of the last
DaysOf(row) == {d \in Days : row[d] # NoEntry}
LastOf(row) == IF DaysOf(row) = {} THEN 0 ELSE row[Max(DaysOf(row))].sessionCost

LedgerTyped ==
    /\ cost \in [Processes -> Nat] /\ day \in Days
    /\ ledger \in [Processes -> Row] /\ disk \in [Processes -> [Processes -> Row]]
    /\ ledgerLock \in Ledger!Locks \cup {NoLock} /\ ledgerLocks \in Nat
    /\ recorder \in [Processes -> {"idle", "waiting", "statted", "reclaiming", "opened", "locked",
                                   "read", "written"}]
    /\ snapshots \in [Processes -> Seq(Snapshot)] /\ ledgerSeen \in [Processes -> Nat]
    /\ \A p \in Processes : recorder[p] # "idle" => snapshots[p] # << >>

\* What a session records, in the file or in what a process has read of it, adds
\* up to its cost at the last entry, which what is queued has not fallen behind.
Sums(row, total, today, waiting) ==
    /\ IsFiniteSet(Ledger!Units(row)) /\ Cardinality(Ledger!Units(row)) = LastOf(row)
    /\ LastOf(row) <= total
    /\ \A d \in DaysOf(row) : d <= today
    /\ \A i \in DOMAIN waiting :
          LastOf(row) <= waiting[i].cost /\ \A d \in DaysOf(row) : d <= waiting[i].day

RowsAddUp ==
    \A p \in Processes :
        /\ Sums(ledger[p], cost[p], day, snapshots[p])
        /\ \A q \in Processes : Sums(disk[q][p], cost[p], day, snapshots[p])

\* Snapshots are queued in the order of the days and the costs.
InOrder ==
    \A p \in Processes : \A i, j \in DOMAIN snapshots[p] :
        /\ snapshots[p][i].cost <= cost[p] /\ snapshots[p][i].day <= day
        /\ i < j => snapshots[p][i].cost <= snapshots[p][j].cost /\ snapshots[p][i].day <= snapshots[p][j].day

SumInv == LedgerTyped /\ RowsAddUp /\ InOrder

\* Lock files are numbered as they are made, and a number is of one process.
LocksNumbered ==
    /\ ledgerLock # NoLock => ledgerLock.n <= ledgerLocks
    /\ \A p \in Processes : ledgerSeen[p] <= ledgerLocks
    /\ \A p, q \in Processes :
          Ledger!Locked(p) /\ Ledger!Locked(q) /\ ledgerSeen[p] = ledgerSeen[q] => p = q

\* As long as no lock was taken from a process that lives, the lock is that of
\* the process that goes on under it, ...
LockKept ==
    ~stolen => \A p \in Processes : Ledger!Locked(p) =>
        ledgerLock # NoLock /\ ledgerLock.n = ledgerSeen[p] /\ ~ledgerLock.dead

\* ... what it has read is still the file, and what it has written is.
FileKept ==
    ~stolen => \A p \in Processes :
        /\ recorder[p] = "read" => disk[p] = ledger
        /\ recorder[p] = "written" => LastOf(ledger[p]) = Head(snapshots[p]).cost
        /\ acked[p] <= LastOf(ledger[p])

LedgerNoted == acked \in [Processes -> Nat] /\ stolen \in BOOLEAN

LedgerInv == SumInv /\ LedgerNoted /\ LocksNumbered /\ LockKept /\ FileKept

LEMMA LedgerConstants ==
    /\ NoLock \notin Ledger!Locks /\ NoEntry \notin Ledger!Entries
    /\ MaxDay \in Nat \ {0} /\ Days = 1 .. MaxDay
BY LedgerAssumption DEF Ledger!LedgerAssumption, Days, Ledger!Days

LEMMA SnapshotsTyped ==
    ASSUME NEW q \in Seq(Snapshot), NEW i \in DOMAIN q
    PROVE  q[i] \in Snapshot /\ q[i].day \in Days /\ q[i].day \in Nat /\ q[i].cost \in Nat
<1>1. q[i] \in Snapshot
  OBVIOUS
<1> QED
  BY <1>1, LedgerConstants DEF Snapshot

LEMMA Appended ==
    ASSUME NEW q \in Seq(Snapshot), NEW x \in Snapshot
    PROVE  /\ Append(q, x) \in Seq(Snapshot) /\ Append(q, x) # << >>
           /\ Len(q) \in Nat /\ DOMAIN q = 1 .. Len(q) /\ DOMAIN Append(q, x) = 1 .. Len(q) + 1
           /\ \A i \in DOMAIN q : Append(q, x)[i] = q[i]
           /\ Append(q, x)[Len(q) + 1] = x
BY AppendProperties

LEMMA EmptyRow ==
    ASSUME NEW p \in Processes, NEW c \in Nat, NEW d \in Nat, NEW q \in Seq(Snapshot)
    PROVE  /\ Ledger!Empty[p] \in Row /\ Sums(Ledger!Empty[p], c, d, q) /\ LastOf(Ledger!Empty[p]) = 0
<1>1. Ledger!Empty[p] = [e \in Days |-> NoEntry]
  BY DEF Ledger!Empty, Days
<1>2. DaysOf(Ledger!Empty[p]) = {} /\ LastOf(Ledger!Empty[p]) = 0
  BY <1>1 DEF DaysOf, LastOf
<1>3. Ledger!Units(Ledger!Empty[p]) = {}
  BY <1>1 DEF Ledger!Units, Days
<1>4. Ledger!Empty[p] \in Row
  BY <1>1 DEF Row
<1>5. Sums(Ledger!Empty[p], c, d, q)
  BY <1>2, <1>3, FS_EmptySet, SnapshotsTyped DEF Sums
<1> QED
  BY <1>2, <1>4, <1>5

LEMMA UnitsOf ==
    ASSUME NEW row \in Row
    PROVE  /\ \A d \in DaysOf(row) : \A n \in 1 .. row[d].cost : <<d, n>> \in Ledger!Units(row)
           /\ \A u \in Ledger!Units(row) : \E d \in DaysOf(row) : \E n \in 1 .. row[d].cost : u = <<d, n>>
<1> DEFINE upTo(d) == 1 .. row[d].cost
<1>1. Ledger!Units(row) = UNION {{d} \X upTo(d) : d \in DaysOf(row)}
  BY DEF Ledger!Units, DaysOf, Days
<1>2. /\ \A d \in DaysOf(row) : \A n \in upTo(d) : <<d, n>> \in Ledger!Units(row)
      /\ \A u \in Ledger!Units(row) : \E d \in DaysOf(row) : \E n \in upTo(d) : u = <<d, n>>
  <2> HIDE DEF upTo
  <2> QED
    BY <1>1
<1> QED
  BY <1>2

LEMMA UnitsAdded ==
    ASSUME NEW d \in Days, NEW a \in Nat, NEW k \in Nat
    PROVE  IsFiniteSet({d} \X (a + 1 .. a + k)) /\ Cardinality({d} \X (a + 1 .. a + k)) = k
<1> DEFINE S == a + 1 .. a + k
           T == {d} \X S
           f == [x \in S |-> <<d, x>>]
<1>1. PICK from \in Int, to \in Int : from = a + 1 /\ to = a + k
  OBVIOUS
<1>2. IsFiniteSet(from .. to) /\ Cardinality(from .. to) = IF from > to THEN 0 ELSE to - from + 1
  BY FS_Interval
<1>3. IsFiniteSet(S) /\ Cardinality(S) = k
  BY <1>1, <1>2
<1> HIDE DEF S
<1>4. f \in [S -> T] /\ \A t \in T : \E x \in S : f[x] = t
  OBVIOUS
<1>5. \A x, y \in S : f[x] = f[y] => x = y
  OBVIOUS
<1>6. DOMAIN f = S
  OBVIOUS
<1> HIDE DEF T, f
<1>7. f \in Surjection(S, T) /\ f \in Injection(S, T)
  BY <1>4, <1>5, <1>6 DEF Surjection, Injection, IsInjective
<1>8. IsFiniteSet(T) /\ Cardinality(T) = Cardinality(S)
  BY <1>3, <1>7, FS_Surjection
<1> QED
  BY <1>3, <1>8 DEF T, S

\* A row to which a process adds the cost of a snapshot
Added(row, s) == [row EXCEPT ![s.day] = Ledger!Entry(row, s)]
AddedUp(row, s) ==
    /\ Added(row, s) \in Row /\ LastOf(Added(row, s)) = s.cost
    /\ IsFiniteSet(Ledger!Units(Added(row, s))) /\ Cardinality(Ledger!Units(Added(row, s))) = s.cost
    /\ DaysOf(Added(row, s)) = DaysOf(row) \cup {s.day}

LEMMA EntryAdds ==
    ASSUME NEW c \in Nat, NEW d \in Nat, NEW q \in Seq(Snapshot), NEW row \in Row, Sums(row, c, d, q),
           NEW i \in DOMAIN q
    PROVE  AddedUp(row, q[i])
<1> DEFINE s   == q[i]
           e   == Ledger!Entry(row, s)
           new == [row EXCEPT ![s.day] = e]
           today == IF row[s.day] = NoEntry THEN 0 ELSE row[s.day].cost
           last == LastOf(row)
<1>1. s \in Snapshot /\ s.day \in Days /\ s.cost \in Nat
  BY SnapshotsTyped
<1>2. /\ \A x \in DaysOf(row) : x <= s.day
      /\ last \in Nat /\ last <= s.cost
      /\ IsFiniteSet(Ledger!Units(row)) /\ Cardinality(Ledger!Units(row)) = last
  BY FS_CardinalityType DEF Sums
<1>3. Ledger!Before(row, s.day) = DaysOf(row)
  BY <1>2 DEF Ledger!Before, DaysOf, Days
<1>4. today \in Nat /\ (s.day \in DaysOf(row) => row[s.day].cost = today)
      /\ (s.day \notin DaysOf(row) => today = 0)
  BY <1>1 DEF DaysOf, Row, Ledger!Entries
<1>5. e = [cost |-> today + (s.cost - last), sessionCost |-> s.cost] /\ s.cost - last \in Nat
  <2>1. e = LET counted == IF DaysOf(row) = {} THEN 0 ELSE row[Max(DaysOf(row))].sessionCost
                spent   == IF s.cost < counted THEN s.cost ELSE s.cost - counted
            IN  [cost |-> today + spent, sessionCost |-> s.cost]
    BY <1>3 DEF Ledger!Entry, Ledger!Max, Max
  <2> QED
    BY <2>1, <1>1, <1>2 DEF LastOf
<1> DEFINE spent == s.cost - last
<1>6. e \in Ledger!Entries /\ e # NoEntry /\ e.cost = today + spent /\ e.sessionCost = s.cost
  BY <1>1, <1>4, <1>5, LedgerConstants DEF Ledger!Entries
<1>7. /\ new \in Row /\ new[s.day] = e /\ \A x \in Days \ {s.day} : new[x] = row[x]
      /\ DaysOf(new) = DaysOf(row) \cup {s.day}
  BY <1>1, <1>6 DEF Row, DaysOf
<1> HIDE DEF new, e
<1>8. LastOf(new) = s.cost
  <2>1. Max(DaysOf(new)) = s.day
    BY <1>1, <1>2, <1>7, LedgerConstants DEF Max, DaysOf
  <2> QED
    BY <1>1, <1>6, <1>7, <2>1 DEF LastOf
<1> DEFINE more == {s.day} \X (today + 1 .. today + spent)
<1>9. Ledger!Units(new) = Ledger!Units(row) \cup more /\ Ledger!Units(row) \cap more = {}
  <2>1. spent \in Nat /\ today \in Nat /\ new[s.day].cost = today + spent /\ s.day \in Days
    BY <1>1, <1>4, <1>5, <1>6, <1>7
  <2>2. \A x \in DaysOf(row) \ {s.day} : new[x] = row[x] /\ x \in DaysOf(new)
    BY <1>7 DEF DaysOf
  <2>3. s.day \in DaysOf(new) /\ 1 .. today \subseteq 1 .. today + spent
        /\ today + 1 .. today + spent \subseteq 1 .. today + spent
    BY <1>7, <2>1
  <2>4. ASSUME NEW u \in Ledger!Units(row) PROVE u \in Ledger!Units(new) /\ u \notin more
    <3>1. PICK x \in DaysOf(row) : \E n \in 1 .. row[x].cost : u = <<x, n>>
      BY UnitsOf
    <3>5. PICK n \in 1 .. row[x].cost : u = <<x, n>>
      BY <3>1
    <3>2. CASE x = s.day
      <4>1. n \in 1 .. today /\ n \in 1 .. new[s.day].cost
        BY <1>4, <2>1, <2>3, <3>5, <3>2
      <4> QED
        BY <1>7, <2>1, <2>3, <3>5, <3>2, <4>1, UnitsOf
    <3>3. CASE x # s.day
      BY <1>7, <2>2, <3>5, <3>3, UnitsOf
    <3> QED
      BY <3>2, <3>3
  <2>5. ASSUME NEW u \in more PROVE u \in Ledger!Units(new)
    BY <1>7, <2>1, <2>3, UnitsOf
  <2>6. ASSUME NEW u \in Ledger!Units(new) PROVE u \in Ledger!Units(row) \/ u \in more
    <3>1. PICK x \in DaysOf(new) : \E n \in 1 .. new[x].cost : u = <<x, n>>
      BY <1>7, UnitsOf
    <3>5. PICK n \in 1 .. new[x].cost : u = <<x, n>>
      BY <3>1
    <3>2. CASE x = s.day /\ n <= today
      <4>1. s.day \in DaysOf(row) /\ n \in 1 .. row[s.day].cost
        BY <1>4, <2>1, <3>5, <3>2
      <4> QED
        BY <3>5, <3>2, <4>1, UnitsOf
    <3>3. CASE x = s.day /\ ~(n <= today)
      <4>1. n \in today + 1 .. today + spent
        BY <2>1, <3>5, <3>3
      <4> QED
        BY <3>5, <3>3, <4>1
    <3>4. CASE x # s.day
      BY <1>7, <2>2, <3>5, <3>4, UnitsOf
    <3> QED
      BY <3>2, <3>3, <3>4
  <2> QED
    BY <2>4, <2>5, <2>6
<1>10. IsFiniteSet(more) /\ Cardinality(more) = spent
  <2>1. today \in Nat /\ spent \in Nat /\ s.day \in Days
    BY <1>1, <1>4, <1>5
  <2> HIDE DEF today, spent, s
  <2> QED
    BY <2>1, UnitsAdded DEF more
<1>11. IsFiniteSet(Ledger!Units(new)) /\ Cardinality(Ledger!Units(new)) = s.cost
  <2>1. Cardinality(Ledger!Units(row) \cap more) = 0
    BY <1>9, FS_EmptySet
  <2>2. /\ IsFiniteSet(Ledger!Units(row) \cup more)
        /\ Cardinality(Ledger!Units(row) \cup more) = last + spent - 0
    <3> HIDE DEF more, spent, last, today
    <3>1. IsFiniteSet(Ledger!Units(row)) /\ IsFiniteSet(more)
      BY <1>2, <1>10
    <3> QED
      BY <1>2, <1>10, <2>1, <3>1, FS_Union
  <2> QED
    BY <1>1, <1>2, <1>9, <2>2
<1> QED
  BY <1>7, <1>8, <1>11 DEF new, e, AddedUp, Added

\* Every snapshot of a queue is of an earlier queue, or was taken since.
Onward(q, c, d, q2) ==
    \A j \in DOMAIN q2 : \/ \E i \in DOMAIN q : q2[j] = q[i]
                         \/ c <= q2[j].cost /\ d <= q2[j].day

\* Sums stay when costs, days and queues go on.
LEMMA SumsStay ==
    ASSUME NEW c \in Nat, NEW d \in Nat, NEW q \in Seq(Snapshot),
           NEW c2 \in Nat, NEW d2 \in Nat, NEW q2 \in Seq(Snapshot),
           c <= c2, d <= d2, Onward(q, c, d, q2)
    PROVE  \A row \in Row : Sums(row, c, d, q) => Sums(row, c2, d2, q2)
<1> SUFFICES ASSUME NEW row \in Row, Sums(row, c, d, q)
             PROVE  Sums(row, c2, d2, q2)
  OBVIOUS
<1>0. DaysOf(row) \subseteq Nat
  BY LedgerConstants DEF DaysOf
<1>1. LastOf(row) \in Nat
  BY FS_CardinalityType DEF Sums
<1>2. LastOf(row) <= c2 /\ \A x \in DaysOf(row) : x <= d2
  BY <1>0, <1>1 DEF Sums
<1>3. ASSUME NEW j \in DOMAIN q2
      PROVE  LastOf(row) <= q2[j].cost /\ \A x \in DaysOf(row) : x <= q2[j].day
  <2>1. q2[j].cost \in Nat /\ q2[j].day \in Nat
    BY SnapshotsTyped
  <2>2. CASE \E i \in DOMAIN q : q2[j] = q[i]
    BY <2>2 DEF Sums
  <2>3. CASE c <= q2[j].cost /\ d <= q2[j].day
    BY <1>0, <1>1, <2>1, <2>3 DEF Sums
  <2> QED
    BY <2>2, <2>3 DEF Onward
<1> QED
  BY <1>2, <1>3 DEF Sums

LEMMA Counts ==
    ASSUME LedgerTyped, NEW p \in Processes
    PROVE  /\ cost[p] \in Nat /\ day \in Nat /\ snapshots[p] \in Seq(Snapshot)
           /\ \A row \in Row : DaysOf(row) \subseteq Nat
BY LedgerConstants DEF LedgerTyped, DaysOf

LEMMA LedgerBegins == ASSUME Ledger!Init PROVE LedgerInv
<1> USE DEF Ledger!Init
<1>1. 0 \in Nat /\ 1 \in Days /\ << >> \in Seq(Snapshot) /\ 1 \in Nat
  BY LedgerConstants
<1>2. \A p \in Processes : /\ Ledger!Empty[p] \in Row /\ LastOf(Ledger!Empty[p]) = 0
                           /\ Sums(Ledger!Empty[p], 0, 1, << >>)
  BY <1>1, EmptyRow
<1>3. Ledger!Empty \in [Processes -> Row]
  BY <1>2 DEF Ledger!Empty
<1>4. LedgerTyped
  BY <1>1, <1>3 DEF LedgerTyped
<1>5. RowsAddUp /\ InOrder
  BY <1>2 DEF RowsAddUp, InOrder
<1>6. LedgerNoted /\ LocksNumbered /\ LockKept
  <2>1. \A p \in Processes : ~Ledger!Locked(p) /\ ledgerSeen[p] = 0
    BY DEF Ledger!Locked
  <2>2. acked \in [Processes -> Nat] /\ stolen = FALSE /\ 0 <= 0
    OBVIOUS
  <2>3. ledgerLock = NoLock /\ ledgerLocks = 0
    OBVIOUS
  <2> QED
    BY ONLY <2>1, <2>2, <2>3 DEF LedgerNoted, LocksNumbered, LockKept
<1>7. FileKept
  <2>1. \A p \in Processes : acked[p] = 0 /\ LastOf(ledger[p]) = 0 /\ recorder[p] = "idle"
    BY <1>2
  <2>2. 0 <= 0
    OBVIOUS
  <2> QED
    BY <2>1, <2>2 DEF FileKept
<1> QED
  BY <1>4, <1>5, <1>6, <1>7 DEF LedgerInv, SumInv

\* The steps that change neither costs nor records.
LEMMA SumsSame ==
    ASSUME SumInv, LedgerTyped', UNCHANGED <<cost, day, ledger, snapshots, disk>>
    PROVE  SumInv'
BY DEF SumInv, RowsAddUp, InOrder

LEMMA LedgerTypes == ASSUME SumInv, Ledger!Next PROVE LedgerTyped'
<1> USE DEF LedgerTyped, Ledger!At
<1>s. LedgerTyped /\ SumInv
  BY DEF SumInv
<1>e. Ledger!Empty \in [Processes -> Row]
  <2>1. << >> \in Seq(Snapshot)
    OBVIOUS
  <2>2. \A p \in Processes : Ledger!Empty[p] \in Row
    BY <2>1, EmptyRow
  <2> QED
    BY <2>2 DEF Ledger!Empty
<1>l. \A l \in Ledger!Locks, b \in BOOLEAN :
        {[l EXCEPT !.dead = b], [l EXCEPT !.written = b], [l EXCEPT !.old = b]} \subseteq Ledger!Locks
  BY DEF Ledger!Locks
<1>1. ASSUME NEW p \in Processes, Ledger!OpenLock(p) PROVE LedgerTyped'
  BY <1>1, <1>s DEF Ledger!OpenLock, Ledger!Locks
<1>2. ASSUME NEW p \in Processes, Ledger!StatLock(p) \/ Ledger!InspectLock(p) \/ Ledger!UnlinkLock(p)
                                  \/ Ledger!Begin(p)
      PROVE  LedgerTyped'
  BY <1>2, <1>s DEF Ledger!StatLock, Ledger!InspectLock, Ledger!UnlinkLock, Ledger!Begin
<1>3. ASSUME NEW p \in Processes, Ledger!WriteOwner(p) PROVE LedgerTyped'
  BY <1>3, <1>s, <1>l DEF Ledger!WriteOwner
<1>4. ASSUME Ledger!Age PROVE LedgerTyped'
  BY <1>4, <1>s, <1>l DEF Ledger!Age
<1>5. ASSUME NEW p \in Processes, Ledger!Record(p) PROVE LedgerTyped'
  <2>1. [cost |-> cost[p] + 1, day |-> day] \in Snapshot /\ cost'[p] = cost[p] + 1
    BY <1>5, <1>s DEF Ledger!Record, Snapshot
  <2>2. snapshots' = [snapshots EXCEPT ![p] = Append(@, [cost |-> cost[p] + 1, day |-> day])]
        /\ cost' = [cost EXCEPT ![p] = @ + 1]
        /\ UNCHANGED <<day, ledger, ledgerLock, ledgerLocks, recorder, disk, ledgerSeen>>
    BY <1>5, <2>1 DEF Ledger!Record
  <2>3. Append(snapshots[p], [cost |-> cost[p] + 1, day |-> day]) \in Seq(Snapshot) \ {<< >>}
    <3>1. PICK q \in Seq(Snapshot), x \in Snapshot :
            q = snapshots[p] /\ x = [cost |-> cost[p] + 1, day |-> day]
      BY <1>s, <2>1
    <3> QED
      BY <3>1, Appended
  <2> QED
    BY <1>s, <2>2, <2>3
<1>6. ASSUME NEW p \in Processes, Ledger!Read(p) PROVE LedgerTyped'
  BY <1>6, <1>s DEF Ledger!Read
<1>7. ASSUME NEW p \in Processes, Ledger!Write(p) PROVE LedgerTyped'
  <2>1. snapshots[p] \in Seq(Snapshot) /\ snapshots[p] # << >> /\ disk[p] \in [Processes -> Row]
    BY <1>7, <1>s DEF Ledger!Write
  <2>2. 1 \in DOMAIN snapshots[p] /\ Head(snapshots[p]) = snapshots[p][1]
    BY <2>1
  <2> DEFINE h == snapshots[p][1]
  <2>3. [disk[p][p] EXCEPT ![h.day] = Ledger!Entry(disk[p][p], h)] \in Row
    <3>1. PICK old \in Row, c \in Nat, d \in Nat, q \in Seq(Snapshot) :
            old = disk[p][p] /\ c = cost[p] /\ d = day /\ q = snapshots[p]
      BY <1>s, <2>1, Counts
    <3>2. Sums(old, c, d, q) /\ 1 \in DOMAIN q
      BY <2>2, <3>1 DEF SumInv, RowsAddUp
    <3>3. AddedUp(old, q[1])
      BY <3>2, EntryAdds
    <3> QED
      BY <3>1, <3>3 DEF AddedUp, Added
  <2>4. ledger' = [disk[p] EXCEPT ![p] = [disk[p][p] EXCEPT ![h.day] = Ledger!Entry(disk[p][p], h)]]
        /\ recorder' = [recorder EXCEPT ![p] = "written"] /\ recorder[p] = "read"
        /\ UNCHANGED <<cost, day, ledgerLock, ledgerLocks, snapshots, disk, ledgerSeen>>
    BY <1>7, <2>1, <2>2 DEF Ledger!Write
  <2>5. ledger' \in [Processes -> Row]
    BY <2>1, <2>3, <2>4
  <2> QED
    BY <1>s, <2>4, <2>5
<1>8. ASSUME NEW p \in Processes, Ledger!Release(p) \/ Ledger!GiveUp(p) PROVE LedgerTyped'
  <2>1. snapshots[p] \in Seq(Snapshot) /\ snapshots[p] # << >>
    BY <1>8, <1>s DEF Ledger!Release, Ledger!GiveUp
  <2>2. Tail(snapshots[p]) \in Seq(Snapshot)
    BY <2>1
  <2>3. /\ recorder' = [recorder EXCEPT ![p] = "idle"] /\ ledgerLock' \in {ledgerLock, NoLock}
        /\ snapshots' = [snapshots EXCEPT ![p] = Tail(snapshots[p])]
        /\ disk' = [disk EXCEPT ![p] = Ledger!Empty]
        /\ UNCHANGED <<cost, day, ledger, ledgerLocks, ledgerSeen>>
    BY <1>8 DEF Ledger!Release, Ledger!GiveUp
  <2>4. snapshots' \in [Processes -> Seq(Snapshot)] /\ disk' \in [Processes -> [Processes -> Row]]
    BY <1>s, <1>e, <2>2, <2>3
  <2>5. \A q \in Processes : recorder'[q] # "idle" => snapshots'[q] # << >>
    BY <1>s, <2>3
  <2> QED
    BY <1>s, <2>3, <2>4, <2>5
<1>9. ASSUME NEW p \in Processes, Ledger!Crash(p) PROVE LedgerTyped'
  <2>1. << >> \in Seq(Snapshot)
    OBVIOUS
  <2> QED
    BY <1>9, <1>s, <1>e, <1>l, <2>1 DEF Ledger!Crash
<1>10. ASSUME Ledger!NextDay PROVE LedgerTyped'
  BY <1>10, <1>s, LedgerConstants DEF Ledger!NextDay
<1> QED
  BY <1>1, <1>2, <1>3, <1>4, <1>5, <1>6, <1>7, <1>8, <1>9, <1>10 DEF Ledger!Next

LEMMA SumStep == ASSUME SumInv, Ledger!Next PROVE SumInv'
<1>t. LedgerTyped /\ LedgerTyped'
  BY LedgerTypes DEF SumInv
<1>c. \A p \in Processes : /\ cost[p] \in Nat /\ day \in Nat /\ snapshots[p] \in Seq(Snapshot)
                           /\ cost'[p] \in Nat /\ day' \in Nat /\ snapshots'[p] \in Seq(Snapshot)
  BY <1>t, LedgerConstants DEF LedgerTyped
<1>r. /\ \A p \in Processes : ledger[p] \in Row /\ \A q \in Processes : disk[q][p] \in Row
      /\ \A row \in Row : DaysOf(row) \subseteq Nat
  BY <1>t, LedgerConstants DEF LedgerTyped, DaysOf
<1>n. \A p \in Processes : \A i \in DOMAIN snapshots[p] :
        snapshots[p][i].cost \in Nat /\ snapshots[p][i].day \in Nat
  BY <1>c, SnapshotsTyped
<1>1. CASE UNCHANGED <<cost, day, ledger, snapshots, disk>>
  BY <1>1, <1>t, SumsSame
<1>2. ASSUME NEW p \in Processes, Ledger!Record(p) PROVE SumInv'
  <2> DEFINE x == [cost |-> cost[p] + 1, day |-> day]
  <2>1. /\ cost' = [cost EXCEPT ![p] = @ + 1] /\ cost'[p] = cost[p] + 1
        /\ snapshots' = [snapshots EXCEPT ![p] = Append(@, x)] /\ UNCHANGED <<day, ledger, disk>>
    BY <1>2, <1>t DEF Ledger!Record, LedgerTyped
  <2>2. x \in Snapshot /\ x.cost = cost[p] + 1 /\ x.day = day
    BY <1>t, <1>c DEF Snapshot, LedgerTyped
  <2> HIDE DEF x
  <2>3. /\ snapshots'[p] = Append(snapshots[p], x)
        /\ \A q \in Processes \ {p} : snapshots'[q] = snapshots[q] /\ cost'[q] = cost[q]
    BY <1>t, <2>1 DEF LedgerTyped
  <2>4. /\ DOMAIN snapshots'[p] = 1 .. Len(snapshots[p]) + 1 /\ DOMAIN snapshots[p] = 1 .. Len(snapshots[p])
        /\ Len(snapshots[p]) \in Nat
        /\ \A i \in DOMAIN snapshots[p] : snapshots'[p][i] = snapshots[p][i]
        /\ snapshots'[p][Len(snapshots[p]) + 1] = x
    <3>1. PICK q \in Seq(Snapshot), y \in Snapshot : q = snapshots[p] /\ y = x
      BY <1>c, <2>2
    <3> QED
      BY <2>3, <3>1, Appended
  <2>5. \A j \in DOMAIN snapshots'[p] :
            \/ \E i \in DOMAIN snapshots[p] : snapshots'[p][j] = snapshots[p][i]
            \/ cost[p] <= snapshots'[p][j].cost /\ day <= snapshots'[p][j].day
    <3>1. ASSUME NEW j \in DOMAIN snapshots'[p]
          PROVE  j \in DOMAIN snapshots[p] \/ j = Len(snapshots[p]) + 1
      BY <2>4
    <3>2. cost[p] <= cost[p] + 1 /\ day <= day
      BY <1>c
    <3> QED
      BY <2>2, <2>4, <3>1, <3>2
  <2>6. \A row \in Row : Sums(row, cost[p], day, snapshots[p]) => Sums(row, cost'[p], day', snapshots'[p])
    <3>1. PICK c \in Nat, c2 \in Nat, d \in Nat, q \in Seq(Snapshot), q2 \in Seq(Snapshot) :
            /\ c = cost[p] /\ c2 = cost'[p] /\ d = day /\ d = day'
            /\ q = snapshots[p] /\ q2 = snapshots'[p]
      BY <1>c, <2>1
    <3>2. Onward(q, c, d, q2)
      BY <2>5, <3>1 DEF Onward
    <3>4. c <= c2 /\ d <= d
      <4>1. c2 = c + 1
        BY <2>1, <3>1
      <4> QED
        BY <4>1
    <3>3. \A row \in Row : Sums(row, c, d, q) => Sums(row, c2, d, q2)
      BY <3>2, <3>4, SumsStay
    <3> QED
      BY <3>1, <3>3
  <2>7. RowsAddUp'
    BY <1>r, <2>1, <2>3, <2>6 DEF SumInv, RowsAddUp
  <2>8. InOrder'
    <3> SUFFICES ASSUME NEW q \in Processes, NEW i \in DOMAIN snapshots'[q], NEW j \in DOMAIN snapshots'[q]
                 PROVE  /\ snapshots'[q][i].cost <= cost'[q] /\ snapshots'[q][i].day <= day'
                        /\ i < j => /\ snapshots'[q][i].cost <= snapshots'[q][j].cost
                                    /\ snapshots'[q][i].day <= snapshots'[q][j].day
      BY DEF InOrder
    <3>1. CASE q # p
      BY <2>1, <2>3, <3>1 DEF SumInv, InOrder
    <3>2. CASE q = p
      <4>1. \A k \in DOMAIN snapshots[p] : snapshots[p][k].cost <= cost[p] /\ snapshots[p][k].day <= day
        BY DEF SumInv, InOrder
      <4>2. /\ i \in DOMAIN snapshots[p] \/ i = Len(snapshots[p]) + 1
            /\ j \in DOMAIN snapshots[p] \/ j = Len(snapshots[p]) + 1
        BY <2>4, <3>2
      <4>3. CASE i \in DOMAIN snapshots[p] /\ j \in DOMAIN snapshots[p]
        BY <1>c, <1>n, <2>1, <2>4, <3>2, <4>1, <4>3 DEF SumInv, InOrder
      <4>4. CASE i \in DOMAIN snapshots[p] /\ j = Len(snapshots[p]) + 1
        BY <1>c, <1>n, <2>1, <2>2, <2>4, <3>2, <4>1, <4>4
      <4>5. CASE i = Len(snapshots[p]) + 1
        BY <1>c, <2>1, <2>2, <2>4, <3>2, <4>2, <4>5
      <4> QED
        BY <4>2, <4>3, <4>4, <4>5
    <3> QED
      BY <3>1, <3>2
  <2> QED
    BY <1>t, <2>7, <2>8 DEF SumInv
<1>3. ASSUME NEW p \in Processes, Ledger!Read(p) PROVE SumInv'
  <2>1. disk' = [disk EXCEPT ![p] = ledger] /\ UNCHANGED <<cost, day, ledger, snapshots>>
    BY <1>3 DEF Ledger!Read
  <2>2. \A q, r \in Processes : disk'[q][r] = disk[q][r] \/ disk'[q][r] = ledger[r]
    BY <1>t, <2>1 DEF LedgerTyped
  <2> QED
    BY <1>t, <2>1, <2>2 DEF SumInv, RowsAddUp, InOrder
<1>4. ASSUME NEW p \in Processes, Ledger!Write(p) PROVE SumInv'
  <2> DEFINE h == snapshots[p][1]
             row == [disk[p][p] EXCEPT ![h.day] = Ledger!Entry(disk[p][p], h)]
  <2>1. snapshots[p] # << >> /\ 1 \in DOMAIN snapshots[p] /\ Head(snapshots[p]) = h
        /\ DOMAIN snapshots[p] \subseteq Nat /\ \A i \in DOMAIN snapshots[p] : i = 1 \/ 1 < i
    <3>1. snapshots[p] # << >>
      BY <1>4, <1>t DEF Ledger!Write, Ledger!At, LedgerTyped
    <3> QED
      BY <3>1, <1>c
  <2>2. ledger' = [disk[p] EXCEPT ![p] = row] /\ UNCHANGED <<cost, day, snapshots, disk>>
    BY <1>4, <2>1 DEF Ledger!Write
  <2>3. /\ row \in Row /\ LastOf(row) = h.cost /\ IsFiniteSet(Ledger!Units(row))
        /\ Cardinality(Ledger!Units(row)) = h.cost /\ DaysOf(row) = DaysOf(disk[p][p]) \cup {h.day}
    <3>1. PICK old \in Row, c \in Nat, d \in Nat, q \in Seq(Snapshot) :
            old = disk[p][p] /\ c = cost[p] /\ d = day /\ q = snapshots[p]
      BY <1>c, <1>r
    <3>2. Sums(old, c, d, q) /\ 1 \in DOMAIN q /\ h = q[1]
      BY <2>1, <3>1 DEF SumInv, RowsAddUp
    <3>3. row = [old EXCEPT ![q[1].day] = Ledger!Entry(old, q[1])]
      BY <3>1, <3>2
    <3>4. AddedUp(old, q[1])
      BY <3>2, EntryAdds
    <3> HIDE DEF h, row
    <3> QED
      BY <3>1, <3>2, <3>3, <3>4 DEF AddedUp, Added
  <2> HIDE DEF row
  <2>4. Sums(row, cost[p], day, snapshots[p])
    <3>1. \A i \in DOMAIN snapshots[p] : /\ h.cost <= snapshots[p][i].cost /\ h.day <= snapshots[p][i].day
                                         /\ h.cost <= cost[p] /\ h.day <= day
      BY <1>c, <1>n, <2>1 DEF SumInv, InOrder
    <3>2. Sums(disk[p][p], cost[p], day, snapshots[p])
      BY DEF SumInv, RowsAddUp
    <3> QED
      BY <2>1, <2>3, <3>1, <3>2 DEF Sums
  <2>5. ledger'[p] = row /\ \A q \in Processes \ {p} : ledger'[q] = disk[p][q]
    BY <1>t, <2>2 DEF LedgerTyped
  <2> QED
    BY <1>t, <2>2, <2>4, <2>5 DEF SumInv, RowsAddUp, InOrder
<1>5. ASSUME NEW p \in Processes, Ledger!Release(p) \/ Ledger!GiveUp(p) \/ Ledger!Crash(p) PROVE SumInv'
  <2>1. /\ disk' = [disk EXCEPT ![p] = Ledger!Empty] /\ UNCHANGED <<cost, day, ledger>>
        /\ \/ snapshots' = [snapshots EXCEPT ![p] = Tail(@)] /\ snapshots[p] # << >>
           \/ snapshots' = [snapshots EXCEPT ![p] = << >>]
    BY <1>5, <1>t DEF Ledger!Release, Ledger!GiveUp, Ledger!Crash, Ledger!At, LedgerTyped
  <2>2. \A q \in Processes \ {p} : snapshots'[q] = snapshots[q]
    BY <1>t, <2>1 DEF LedgerTyped
  <2>3. \A j \in DOMAIN snapshots'[p] :
          /\ j \in Nat /\ j + 1 \in DOMAIN snapshots[p] /\ snapshots'[p][j] = snapshots[p][j + 1]
    <3>1. CASE snapshots'[p] = Tail(snapshots[p]) /\ snapshots[p] # << >>
      BY <1>c, <3>1, HeadTailProperties
    <3>2. CASE snapshots'[p] = << >>
      BY <3>2
    <3> QED
      BY <1>t, <2>1, <3>1, <3>2 DEF LedgerTyped
  <2>4. \A row \in Row : Sums(row, cost[p], day, snapshots[p]) => Sums(row, cost'[p], day', snapshots'[p])
    <3>1. \A j \in DOMAIN snapshots'[p] : \E i \in DOMAIN snapshots[p] : snapshots'[p][j] = snapshots[p][i]
      BY <2>3
    <3> QED
      <4>1. PICK c \in Nat, d \in Nat, q \in Seq(Snapshot), q2 \in Seq(Snapshot) :
              /\ c = cost[p] /\ c = cost'[p] /\ d = day /\ d = day'
              /\ q = snapshots[p] /\ q2 = snapshots'[p]
        BY <1>c, <2>1
      <4>2. Onward(q, c, d, q2) /\ c <= c /\ d <= d
        BY <3>1, <4>1 DEF Onward
      <4>3. \A row \in Row : Sums(row, c, d, q) => Sums(row, c, d, q2)
        BY <4>2, SumsStay
      <4> QED
        BY <4>1, <4>3
  <2>5. \A q, r \in Processes : disk'[q][r] = disk[q][r] \/ disk'[q][r] = Ledger!Empty[r]
    BY <1>t, <2>1 DEF LedgerTyped
  <2>6. \A q \in Processes : Sums(Ledger!Empty[q], cost'[q], day', snapshots'[q])
    BY <1>c, EmptyRow
  <2>7. RowsAddUp'
    BY <1>r, <2>1, <2>2, <2>4, <2>5, <2>6 DEF SumInv, RowsAddUp
  <2>8. InOrder'
    BY <2>1, <2>2, <2>3 DEF SumInv, InOrder
  <2> QED
    BY <1>t, <2>7, <2>8 DEF SumInv
<1>6. ASSUME Ledger!NextDay PROVE SumInv'
  <2>1. day' = day + 1 /\ UNCHANGED <<cost, ledger, snapshots, disk>>
    BY <1>6 DEF Ledger!NextDay
  <2>2. ASSUME NEW p \in Processes, NEW row \in Row, Sums(row, cost[p], day, snapshots[p])
        PROVE  Sums(row, cost[p], day', snapshots[p])
    <3>1. day <= day' /\ \A j \in DOMAIN snapshots[p] : \E i \in DOMAIN snapshots[p] : snapshots[p][j] = snapshots[p][i]
      BY <1>c, <2>1
    <3> QED
      <4>1. PICK c \in Nat, d \in Nat, d2 \in Nat, q \in Seq(Snapshot) :
              c = cost[p] /\ d = day /\ d2 = day' /\ q = snapshots[p]
        BY <1>c
      <4>2. Onward(q, c, d, q) /\ c <= c /\ d <= d2
        BY <3>1, <4>1 DEF Onward
      <4>3. \A old \in Row : Sums(old, c, d, q) => Sums(old, c, d2, q)
        BY <4>2, SumsStay
      <4> QED
        BY <2>2, <4>1, <4>3
  <2>3. InOrder'
    BY <1>c, <1>n, <2>1 DEF SumInv, InOrder
  <2> QED
    BY <1>t, <1>r, <2>1, <2>2, <2>3 DEF SumInv, RowsAddUp
<1>7. ASSUME NEW p \in Processes,
             \/ Ledger!OpenLock(p) \/ Ledger!StatLock(p) \/ Ledger!InspectLock(p) \/ Ledger!UnlinkLock(p)
             \/ Ledger!WriteOwner(p) \/ Ledger!Begin(p)
      PROVE  UNCHANGED <<cost, day, ledger, snapshots, disk>>
  BY <1>7 DEF Ledger!OpenLock, Ledger!StatLock, Ledger!InspectLock, Ledger!UnlinkLock, Ledger!WriteOwner,
              Ledger!Begin
<1>8. ASSUME Ledger!Age PROVE UNCHANGED <<cost, day, ledger, snapshots, disk>>
  BY <1>8 DEF Ledger!Age
<1> QED
  BY <1>1, <1>2, <1>3, <1>4, <1>5, <1>6, <1>7, <1>8 DEF Ledger!Next

\* The lock: who goes on under it, and whose it is.
LEMMA LockStep ==
    ASSUME LedgerInv, Ledger!Next
    PROVE  LedgerNoted' /\ LocksNumbered' /\ LockKept'
<1>t. LedgerTyped /\ LedgerTyped' /\ LedgerNoted /\ LocksNumbered /\ LockKept
  BY LedgerTypes DEF LedgerInv, SumInv
<1>n. NoLock \notin Ledger!Locks
  BY LedgerConstants
<1>e. \A l \in Ledger!Locks :
        /\ [l EXCEPT !.written = TRUE] \in Ledger!Locks /\ [l EXCEPT !.written = TRUE].n = l.n
        /\ [l EXCEPT !.written = TRUE].dead = l.dead
        /\ [l EXCEPT !.old = TRUE] \in Ledger!Locks /\ [l EXCEPT !.old = TRUE].n = l.n
        /\ [l EXCEPT !.old = TRUE].dead = l.dead
        /\ [l EXCEPT !.dead = TRUE] \in Ledger!Locks /\ [l EXCEPT !.dead = TRUE].n = l.n
  BY DEF Ledger!Locks
<1>l. ledgerLock # NoLock => ledgerLock \in Ledger!Locks
  BY <1>t DEF LedgerTyped
<1>1. ASSUME NEW p \in Processes, Ledger!OpenLock(p) PROVE LedgerNoted' /\ LocksNumbered' /\ LockKept'
  <2>1. /\ ledgerLock = NoLock /\ ledgerLocks' = ledgerLocks + 1 /\ ledgerLocks \in Nat
        /\ ledgerLock' = [n |-> ledgerLocks', dead |-> FALSE, written |-> FALSE, old |-> FALSE]
        /\ ledgerSeen'[p] = ledgerLocks' /\ \A q \in Processes \ {p} : ledgerSeen'[q] = ledgerSeen[q]
        /\ UNCHANGED <<acked, stolen>>
    BY <1>1, <1>t DEF Ledger!OpenLock, Ledger!Openable, LedgerTyped
  <2>6. ledgerLock' # NoLock
    <3>1. ledgerLock' \in Ledger!Locks
      BY <2>1, <1>t DEF Ledger!Locks, LedgerTyped
    <3> QED
      BY <3>1, <1>n
  <2>2. \A q \in Processes \ {p} : Ledger!Locked(q)' => Ledger!Locked(q)
    BY <1>1, <1>t DEF Ledger!OpenLock, Ledger!At, Ledger!Locked, LedgerTyped
  <2>3. \A q \in Processes : ledgerSeen[q] \in Nat /\ ledgerSeen[q] <= ledgerLocks
    BY <1>t DEF LedgerTyped, LocksNumbered
  <2>4. LocksNumbered'
    BY <1>t, <2>1, <2>2, <2>3, <2>6 DEF LocksNumbered
  <2>5. LockKept'
    BY <1>t, <2>1, <2>2, <2>6 DEF LockKept
  <2> QED
    BY <1>t, <2>1, <2>4, <2>5 DEF LedgerNoted
<1>2. ASSUME NEW p \in Processes, Ledger!UnlinkLock(p) PROVE LedgerNoted' /\ LocksNumbered' /\ LockKept'
  <2>1. /\ ledgerLock' = NoLock /\ (stolen' <=> stolen \/ (ledgerLock # NoLock /\ ~ledgerLock.dead))
        /\ UNCHANGED <<ledgerLocks, ledgerSeen, acked>>
    BY <1>2 DEF Ledger!UnlinkLock
  <2>2. \A q \in Processes : Ledger!Locked(q)' => Ledger!Locked(q)
    BY <1>2, <1>t DEF Ledger!UnlinkLock, Ledger!At, Ledger!Locked, LedgerTyped
  <2>3. stolen' \in BOOLEAN
    BY <1>2 DEF Ledger!UnlinkLock
  <2>4. LocksNumbered'
    BY <1>t, <2>1, <2>2 DEF LocksNumbered
  <2>5. LockKept'
    BY <1>t, <2>1, <2>2 DEF LockKept
  <2> QED
    BY <1>t, <2>1, <2>3, <2>4, <2>5 DEF LedgerNoted
<1>3. ASSUME NEW p \in Processes, Ledger!WriteOwner(p) \/ Ledger!Age
      PROVE  LedgerNoted' /\ LocksNumbered' /\ LockKept'
  <2>1. /\ ledgerLock = NoLock => ledgerLock' = NoLock
        /\ ledgerLock # NoLock => /\ ledgerLock' # NoLock /\ ledgerLock'.n = ledgerLock.n
                                  /\ ledgerLock'.dead = ledgerLock.dead
        /\ UNCHANGED <<ledgerLocks, ledgerSeen, acked, stolen>>
    BY <1>3, <1>l, <1>e, <1>n DEF Ledger!WriteOwner, Ledger!Age
  <2>2. \A q \in Processes : Ledger!Locked(q)' => Ledger!Locked(q)
    BY <1>3, <1>t DEF Ledger!WriteOwner, Ledger!Age, Ledger!At, Ledger!Locked, LedgerTyped
  <2>4. LocksNumbered'
    BY <1>t, <2>1, <2>2 DEF LocksNumbered
  <2>5. LockKept'
    BY <1>t, <2>1, <2>2 DEF LockKept
  <2> QED
    BY <1>t, <2>1, <2>4, <2>5 DEF LedgerNoted
<1>4. ASSUME NEW p \in Processes, Ledger!Release(p) \/ Ledger!GiveUp(p)
      PROVE  LedgerNoted' /\ LocksNumbered' /\ LockKept'
  <2>1. /\ \/ ledgerLock' = ledgerLock
           \/ ledgerLock' = NoLock /\ ledgerLock.n = ledgerSeen[p] /\ Ledger!Locked(p)
        /\ UNCHANGED <<ledgerLocks, ledgerSeen, stolen>>
    BY <1>4 DEF Ledger!Release, Ledger!GiveUp, Ledger!At, Ledger!Locked
  <2>2. /\ \A q \in Processes : Ledger!Locked(q)' => Ledger!Locked(q)
        /\ ~Ledger!Locked(p)'
    BY <1>4, <1>t DEF Ledger!Release, Ledger!GiveUp, Ledger!At, Ledger!Locked, LedgerTyped
  <2>3. acked' \in [Processes -> Nat]
    <3>1. snapshots[p] \in Seq(Snapshot) /\ (Ledger!Release(p) => snapshots[p] # << >>)
      BY <1>4, <1>t DEF Ledger!Release, Ledger!At, LedgerTyped
    <3>2. Ledger!Release(p) => Head(snapshots[p]).cost \in Nat
      <4>1. snapshots[p] # << >> => Head(snapshots[p]) \in Snapshot
        BY <3>1
      <4> QED
        BY <3>1, <4>1 DEF Snapshot
    <3> QED
      BY <1>4, <1>t, <3>2 DEF Ledger!Release, Ledger!GiveUp, LedgerNoted
  <2>4. LocksNumbered'
    BY <1>t, <2>1, <2>2 DEF LocksNumbered
  <2>5. LockKept'
    BY <1>t, <2>1, <2>2 DEF LockKept, LocksNumbered
  <2> QED
    BY <1>t, <2>1, <2>3, <2>4, <2>5 DEF LedgerNoted
<1>5. ASSUME NEW p \in Processes, Ledger!Crash(p) PROVE LedgerNoted' /\ LocksNumbered' /\ LockKept'
  <2>1. /\ \/ ledgerLock' = ledgerLock
           \/ /\ ledgerLock # NoLock /\ ledgerLock' # NoLock /\ ledgerLock'.n = ledgerLock.n
              /\ ledgerLock.n = ledgerSeen[p] /\ Ledger!Locked(p)
        /\ ledgerSeen'[p] = 0 /\ \A q \in Processes \ {p} : ledgerSeen'[q] = ledgerSeen[q]
        /\ UNCHANGED <<ledgerLocks, acked, stolen>> /\ ledgerLocks \in Nat
    <3>1. \/ ledgerLock' = ledgerLock
          \/ /\ ledgerLock # NoLock /\ ledgerLock' = [ledgerLock EXCEPT !.dead = TRUE]
             /\ ledgerLock.n = ledgerSeen[p] /\ Ledger!Locked(p)
      BY <1>5 DEF Ledger!Crash
    <3>2. \/ ledgerLock' = ledgerLock
          \/ /\ ledgerLock # NoLock /\ ledgerLock' # NoLock /\ ledgerLock'.n = ledgerLock.n
             /\ ledgerLock.n = ledgerSeen[p] /\ Ledger!Locked(p)
      BY <3>1, <1>l, <1>e, <1>n
    <3> QED
      BY <1>5, <1>t, <3>2 DEF Ledger!Crash, LedgerTyped
  <2>2. /\ \A q \in Processes : Ledger!Locked(q)' => Ledger!Locked(q)
        /\ ~Ledger!Locked(p)'
    BY <1>5, <1>t DEF Ledger!Crash, Ledger!Locked, LedgerTyped
  <2>4. LocksNumbered'
    BY <1>t, <2>1, <2>2 DEF LocksNumbered
  <2>5. LockKept'
    BY <1>t, <2>1, <2>2 DEF LockKept, LocksNumbered
  <2> QED
    BY <1>t, <2>1, <2>4, <2>5 DEF LedgerNoted
<1>6. ASSUME NEW p \in Processes,
             \/ Ledger!StatLock(p) \/ Ledger!InspectLock(p) \/ Ledger!Begin(p)
             \/ Ledger!Record(p) \/ Ledger!Read(p) \/ Ledger!Write(p)
      PROVE  LedgerNoted' /\ LocksNumbered' /\ LockKept'
  <2>1. UNCHANGED <<ledgerLock, ledgerLocks, ledgerSeen, acked, stolen>>
    BY <1>6 DEF Ledger!StatLock, Ledger!InspectLock, Ledger!Begin, Ledger!Record, Ledger!Read, Ledger!Write
  <2>2. \A q \in Processes : Ledger!Locked(q)' => Ledger!Locked(q)
    BY <1>6, <1>t DEF Ledger!StatLock, Ledger!InspectLock, Ledger!Begin, Ledger!Record, Ledger!Read,
                      Ledger!Write, Ledger!At, Ledger!Locked, LedgerTyped
  <2> QED
    BY <1>t, <2>1, <2>2 DEF LedgerNoted, LocksNumbered, LockKept
<1>7. ASSUME Ledger!NextDay PROVE LedgerNoted' /\ LocksNumbered' /\ LockKept'
  BY <1>7, <1>t DEF Ledger!NextDay, Ledger!Locked, LedgerNoted, LocksNumbered, LockKept
<1>8. ASSUME Ledger!Age, Processes = {} PROVE LedgerNoted' /\ LocksNumbered' /\ LockKept'
  BY <1>8, <1>t, <1>n DEF Ledger!Age, LedgerTyped, Ledger!Locks, LedgerNoted, LocksNumbered, LockKept
<1> QED
  BY <1>1, <1>2, <1>3, <1>4, <1>5, <1>6, <1>7, <1>8 DEF Ledger!Next

\* The file: what was read under the lock is still in it, what was written is.
LEMMA FileStep == ASSUME LedgerInv, Ledger!Next PROVE FileKept'
<1>t. /\ LedgerTyped /\ LedgerTyped' /\ LedgerNoted /\ SumInv
      /\ LocksNumbered /\ LockKept /\ FileKept
  BY LedgerTypes DEF LedgerInv, SumInv
<1>s. stolen => stolen'
  BY DEF Ledger!Next, Ledger!OpenLock, Ledger!StatLock, Ledger!InspectLock, Ledger!UnlinkLock,
         Ledger!WriteOwner, Ledger!Age, Ledger!Record, Ledger!Begin, Ledger!Read, Ledger!Write,
         Ledger!Release, Ledger!GiveUp, Ledger!Crash, Ledger!NextDay
<1>a. \A p, q \in Processes : ~stolen /\ Ledger!Locked(p) /\ Ledger!Locked(q) => p = q
  BY <1>t DEF LocksNumbered, LockKept
<1>1. ASSUME NEW p \in Processes,
             \/ Ledger!OpenLock(p) \/ Ledger!StatLock(p) \/ Ledger!InspectLock(p) \/ Ledger!UnlinkLock(p)
             \/ Ledger!WriteOwner(p) \/ Ledger!Begin(p)
      PROVE  FileKept'
  <2>1. UNCHANGED <<ledger, disk, snapshots, acked>>
    BY <1>1 DEF Ledger!OpenLock, Ledger!StatLock, Ledger!InspectLock, Ledger!UnlinkLock,
                Ledger!WriteOwner, Ledger!Begin
  <2>2. \A q \in Processes : recorder'[q] \in {"read", "written"} => recorder[q] = recorder'[q]
    BY <1>1, <1>t DEF Ledger!OpenLock, Ledger!StatLock, Ledger!InspectLock, Ledger!UnlinkLock,
                Ledger!WriteOwner, Ledger!Begin, Ledger!At, LedgerTyped
  <2> QED
    BY <1>t, <1>s, <2>1, <2>2 DEF FileKept
<1>2. ASSUME Ledger!Age \/ Ledger!NextDay PROVE FileKept'
  BY <1>2, <1>t DEF Ledger!Age, Ledger!NextDay, FileKept
<1>3. ASSUME NEW p \in Processes, Ledger!Record(p) PROVE FileKept'
  <2>1. UNCHANGED <<ledger, disk, recorder, acked, stolen>>
    BY <1>3 DEF Ledger!Record
  <2>2. \A q \in Processes : recorder[q] = "written" => Head(snapshots'[q]) = Head(snapshots[q])
    <3> SUFFICES ASSUME NEW q \in Processes, recorder[q] = "written"
                 PROVE  Head(snapshots'[q]) = Head(snapshots[q])
      OBVIOUS
    <3>1. CASE q # p
      BY <1>3, <1>t, <3>1 DEF Ledger!Record, LedgerTyped
    <3>2. CASE q = p
      <4>1. PICK s \in Seq(Snapshot), x \in Snapshot :
              s = snapshots[p] /\ s # << >> /\ snapshots'[p] = Append(s, x)
        <5>1. [cost |-> cost'[p], day |-> day] \in Snapshot
          BY <1>t DEF LedgerTyped, Snapshot
        <5> QED
          BY <1>3, <1>t, <3>2, <5>1 DEF Ledger!Record, LedgerTyped
      <4>2. 1 \in DOMAIN s /\ Append(s, x)[1] = s[1] /\ Head(s) = s[1]
        BY <4>1, Appended
      <4>3. Head(Append(s, x)) = Append(s, x)[1]
        OBVIOUS
      <4> QED
        BY <3>2, <4>1, <4>2, <4>3
    <3> QED
      BY <3>1, <3>2
  <2> QED
    BY <1>t, <2>1, <2>2 DEF FileKept
<1>4. ASSUME NEW p \in Processes, Ledger!Read(p) PROVE FileKept'
  <2>1. /\ disk'[p] = ledger /\ recorder'[p] = "read" /\ UNCHANGED <<ledger, snapshots, acked, stolen>>
        /\ \A q \in Processes \ {p} : disk'[q] = disk[q] /\ recorder'[q] = recorder[q]
    BY <1>4, <1>t DEF Ledger!Read, Ledger!At, LedgerTyped
  <2> QED
    BY <1>t, <2>1 DEF FileKept
<1>5. ASSUME NEW p \in Processes, Ledger!Write(p) PROVE FileKept'
  <2> SUFFICES ASSUME ~stolen PROVE FileKept'
    BY <1>s DEF FileKept
  <2> DEFINE h == Head(snapshots[p])
  <2>1. /\ recorder[p] = "read" /\ recorder'[p] = "written"
        /\ \A q \in Processes \ {p} : recorder'[q] = recorder[q]
        /\ UNCHANGED <<snapshots, acked, disk, stolen>>
    BY <1>5, <1>t DEF Ledger!Write, Ledger!At, LedgerTyped
  <2>2. disk[p] = ledger
    BY <1>t, <2>1 DEF FileKept
  <2>3. \A q \in Processes \ {p} : recorder'[q] # "read"
    BY <1>a, <2>1 DEF Ledger!Locked
  <2>4. \A q \in Processes \ {p} : ledger'[q] = ledger[q]
    BY <1>5, <1>t, <2>2 DEF Ledger!Write, LedgerTyped
  <2>5. LastOf(ledger'[p]) = h.cost /\ LastOf(ledger[p]) <= h.cost /\ LastOf(ledger[p]) \in Nat /\ h.cost \in Nat
    <3>1. PICK old \in Row, c \in Nat, d \in Nat, q \in Seq(Snapshot) :
            old = ledger[p] /\ c = cost[p] /\ d = day /\ q = snapshots[p]
      BY <1>t, Counts DEF LedgerTyped
    <3>2. q # << >> /\ 1 \in DOMAIN q /\ h = q[1]
      BY <1>t, <2>1, <3>1 DEF LedgerTyped
    <3>3. Sums(old, c, d, q)
      BY <1>t, <3>1 DEF SumInv, RowsAddUp
    <3>4. AddedUp(old, q[1])
      BY <3>2, <3>3, EntryAdds
    <3>5. ledger'[p] = Added(old, q[1])
      BY <1>5, <1>t, <2>2, <3>1, <3>2 DEF Ledger!Write, LedgerTyped, Added
    <3> HIDE DEF h
    <3>6. LastOf(old) <= q[1].cost /\ LastOf(old) \in Nat /\ q[1].cost \in Nat
      BY <3>2, <3>3, SnapshotsTyped, FS_CardinalityType DEF Sums
    <3> QED
      BY <3>1, <3>2, <3>4, <3>5, <3>6 DEF AddedUp
  <2> HIDE DEF h
  <2>6. \A q \in Processes : acked[q] \in Nat /\ acked[q] <= LastOf(ledger[q])
    BY <1>t DEF LedgerNoted, FileKept
  <2>7. acked[p] <= h.cost
    BY <2>5, <2>6
  <2>8. \A q \in Processes : acked'[q] <= LastOf(ledger'[q])
    BY <2>1, <2>4, <2>5, <2>6, <2>7
  <2>9. \A q \in Processes : recorder'[q] = "written" => LastOf(ledger'[q]) = Head(snapshots'[q]).cost
    BY <1>t, <2>1, <2>4, <2>5 DEF FileKept, h
  <2> QED
    BY <2>1, <2>3, <2>8, <2>9 DEF FileKept
<1>6. ASSUME NEW p \in Processes, Ledger!Release(p) \/ Ledger!GiveUp(p) \/ Ledger!Crash(p) PROVE FileKept'
  <2>1. /\ recorder'[p] = "idle" /\ UNCHANGED <<ledger, stolen>>
        /\ \A q \in Processes \ {p} : /\ recorder'[q] = recorder[q] /\ disk'[q] = disk[q]
                                       /\ snapshots'[q] = snapshots[q] /\ acked'[q] = acked[q]
        /\ \/ acked'[p] = acked[p]
           \/ acked'[p] = Head(snapshots[p]).cost /\ recorder[p] = "written"
    BY <1>6, <1>t DEF Ledger!Release, Ledger!GiveUp, Ledger!Crash, Ledger!At, LedgerTyped, LedgerNoted
  <2>2. ~stolen /\ recorder[p] = "written" => LastOf(ledger[p]) <= LastOf(ledger[p])
    <3>1. LastOf(ledger[p]) \in Nat
      BY <1>t, FS_CardinalityType DEF SumInv, RowsAddUp, Sums
    <3> QED
      BY <3>1
  <2> QED
    BY <1>t, <2>1, <2>2 DEF FileKept
<1> QED
  BY <1>1, <1>2, <1>3, <1>4, <1>5, <1>6 DEF Ledger!Next

LEMMA LedgerStep == ASSUME LedgerInv, Ledger!Next PROVE LedgerInv'
BY SumStep, LockStep, FileStep DEF LedgerInv

LEMMA LedgerStays == ASSUME LedgerInv, UNCHANGED costs PROVE LedgerInv'
<1>1. UNCHANGED <<cost, day, ledger, ledgerLock, ledgerLocks, recorder, snapshots, disk, ledgerSeen,
                  acked, stolen>>
  BY DEF costs
<1>2. SumInv'
  BY <1>1 DEF LedgerInv, SumInv, LedgerTyped, RowsAddUp, InOrder
<1>3. LedgerNoted' /\ LocksNumbered' /\ LockKept' /\ FileKept'
  BY <1>1 DEF LedgerInv, LedgerNoted, LocksNumbered, LockKept, FileKept, Ledger!Locked
<1> QED
  BY <1>2, <1>3 DEF LedgerInv

\* What sessions are recorded to cost is what they cost, and what was told of it.
LEMMA LedgerSound == ASSUME LedgerInv PROVE Ledger!NeverOvercounts /\ Ledger!LedgerKeepsAll
<1>0. \A S : Ledger!Cardinality(S) = Cardinality(S)
  BY DEF Ledger!Cardinality, Cardinality
<1>1. \A p \in Processes : /\ Ledger!Recorded(p) = LastOf(ledger[p]) /\ LastOf(ledger[p]) <= cost[p]
  BY <1>0 DEF LedgerInv, SumInv, RowsAddUp, Sums, Ledger!Recorded
<1>2. Ledger!NeverOvercounts
  BY <1>1 DEF Ledger!NeverOvercounts
<1>3. \A p \in Processes : ~stolen => acked[p] <= Ledger!Recorded(p)
  BY <1>1 DEF LedgerInv, FileKept
<1>4. ASSUME ~stolen, NEW p \in Processes, NEW q \in Processes,
             {recorder[p], recorder[q]} \subseteq {"locked", "read", "written"}
      PROVE  p = q
  <2>1. Ledger!Locked(p) /\ Ledger!Locked(q)
    BY <1>4 DEF Ledger!Locked
  <2> QED
    BY <1>4, <2>1 DEF LedgerInv, LocksNumbered, LockKept
<1> QED
  BY <1>2, <1>3, <1>4 DEF Ledger!LedgerKeepsAll

-----------------------------------------------------------------------------
(* The capsules *)

CapsuleCalls ==
    [kind : {"capture", "restore", "clean"},
     pc : {"idle", "queued", "reading", "storing", "linking", "applying", "removing", "over"},
     for : Nat, aborted : BOOLEAN, answer : {"none", "ok", "failed", "uncertain"},
     effect : {"none", "part", "whole"}, keep : Nat, todo : SUBSET Nat, sequence : Nat]
Activities == [of : Nat, status : {"none", "running", "completed", "failed", "cancelled"}]

CapsTyped ==
    /\ workspace \in Nat /\ capsules \in SUBSET Nat /\ IsFiniteSet(capsules) /\ clock \in Nat
    /\ line \in [Caps!PluginNames -> Seq(Requests)] /\ gone \in SUBSET Caps!PluginNames
    /\ req \in [Requests -> CapsuleCalls] /\ cleanups \in Nat /\ activity \in Activities

\* A call between its question and its end, whose turn has come or not
Begun(r) == r.pc \notin {"idle", "over"}
Under(r) == r.pc \notin {"idle", "queued", "over"}
LineOf(r) == Caps!Plugin(r.kind)

\* How far a call has come, and what its caller can have been told by then.
StageOf(r) ==
    /\ r.pc = "applying" => r.kind = "restore"
    /\ r.pc \in {"storing", "linking"} => r.kind = "capture"
    /\ r.pc = "removing" => r.kind = "clean"
    /\ r.pc = "idle" => r.kind = "capture" /\ r.answer = "none" /\ ~r.aborted
    /\ r.pc # "over" => r.effect = "none"
    /\ r.pc = "over" => r.answer # "none"
    /\ Begun(r) => (r.answer # "none" <=> r.aborted)
    /\ r.answer = "ok" => r.pc = "over" /\ (r.kind # "clean" => r.effect = "whole")
    /\ r.kind = "restore" /\ r.answer = "failed" => r.effect = "none" /\ r.pc # "applying"

\* A call that nobody has cancelled is one of a plugin that was not disposed.
Staged ==
    \A c \in Requests :
        /\ StageOf(req[c])
        /\ Begun(req[c]) /\ ~req[c].aborted => LineOf(req[c]) \notin gone

\* A call that has not ended is in its plugin's chain; at the head, once begun.
Chained ==
    \A c \in Requests :
        /\ Begun(req[c]) => \E i \in DOMAIN line[LineOf(req[c])] : line[LineOf(req[c])][i] = c
        /\ Under(req[c]) => line[LineOf(req[c])] # << >> /\ line[LineOf(req[c])][1] = c

\* The room a capture has found is still there when it links.
RoomLeft ==
    /\ Cardinality(capsules) <= maxCapsules
    /\ \A c \in Requests :
          req[c].pc \in {"storing", "linking"} => Cardinality(capsules) < maxCapsules

\* What a cleanup is about to remove has as many newer ones as it is to keep.
NewerThan(x, set) == {y \in set : y > x}
NewestSpared ==
    \A c \in Requests : req[c].pc = "removing" =>
        /\ IsFiniteSet(req[c].todo)
        /\ \A x \in req[c].todo : Cardinality(NewerThan(x, capsules)) >= req[c].keep

\* Cleanups are numbered as they are asked for, and the panel has the last.
LastShown ==
    /\ activity.of = cleanups
    /\ \A c \in Requests : req[c].kind = "clean" =>
          /\ req[c].sequence <= cleanups /\ req[c].pc # "idle"
          /\ req[c].sequence = cleanups => /\ activity.status = "running" <=> req[c].answer = "none"
                                           /\ activity.status = "completed" <=> req[c].answer = "ok"
    /\ \A c, d \in Requests :
          req[c].kind = "clean" /\ req[d].kind = "clean" /\ req[c].sequence = req[d].sequence => c = d

CapsInv == CapsTyped /\ Staged /\ Chained /\ RoomLeft /\ NewestSpared /\ LastShown

LEMMA Counting ==
    /\ \A S : Caps!Cardinality(S) = Cardinality(S)
    /\ \A x, S : Caps!Newer(x, S) = Cardinality(NewerThan(x, S))
<1>1. \A S : Caps!Cardinality(S) = Cardinality(S)
  BY DEF Caps!Cardinality, Cardinality
<1> QED
  BY <1>1 DEF Caps!Newer, NewerThan

\* The head of a chain leaves it; the others stay in it.
LEMMA HeadLeaves ==
    ASSUME NEW q \in Seq(Requests), NEW c \in Requests, q # << >>, q[1] = c
    PROVE  /\ Caps!RemoveFirst(q, c) \in Seq(Requests)
           /\ \A i \in DOMAIN q : q[i] # c =>
                 \E j \in DOMAIN Caps!RemoveFirst(q, c) : Caps!RemoveFirst(q, c)[j] = q[i]
<1> DEFINE at == {i \in 1 .. Len(q) : q[i] = c}
<1>1. Len(q) \in Nat /\ 1 \in 1 .. Len(q) /\ DOMAIN q = 1 .. Len(q)
  OBVIOUS
<1>2. at # {} /\ Caps!Min(at) = 1
  BY <1>1 DEF Caps!Min
<1>3. Caps!RemoveFirst(q, c) = SubSeq(q, 1, 0) \o SubSeq(q, 2, Len(q))
  <2>1. Caps!RemoveFirst(q, c) = Caps!RemoveAt(q, Caps!Min(at))
    BY <1>1, <1>2 DEF Caps!RemoveFirst, Caps!SelectInSeq
  <2>2. 1 - 1 = 0 /\ 1 + 1 = 2
    OBVIOUS
  <2> QED
    BY <1>2, <2>1, <2>2 DEF Caps!RemoveAt
<1>4. SubSeq(q, 1, 0) = << >> /\ SubSeq(q, 2, Len(q)) = Tail(q)
  BY <1>1, SubSeqProperties, HeadTailProperties
<1>5. Caps!RemoveFirst(q, c) = Tail(q)
  BY <1>3, <1>4, HeadTailProperties, ConcatProperties
<1>6. Tail(q) \in Seq(Requests) /\ DOMAIN Tail(q) = 1 .. Len(q) - 1
      /\ \A j \in 1 .. Len(q) - 1 : Tail(q)[j] = q[j + 1]
  BY <1>1, HeadTailProperties
<1>7. ASSUME NEW i \in DOMAIN q, q[i] # c
      PROVE  i - 1 \in DOMAIN Tail(q) /\ Tail(q)[i - 1] = q[i]
  BY <1>1, <1>6, <1>7
<1> QED
  BY <1>5, <1>6, <1>7

LEMMA CapsBegins == ASSUME Caps!Init PROVE CapsInv
<1> USE DEF Caps!Init
<1>1. maxCapsules \in Nat /\ maxCapsules >= 1 /\ maxCapsules - 1 \in Nat
  BY CapsulesAssumption DEF Caps!CapsuleAssumption
<1>2. IsFiniteSet(capsules) /\ Cardinality(capsules) = maxCapsules - 1 /\ capsules \subseteq Nat
  <2>1. PICK from \in Int, to \in Int : from = 1 /\ to = maxCapsules - 1
    BY <1>1
  <2>2. IsFiniteSet(from .. to) /\ Cardinality(from .. to) = IF from > to THEN 0 ELSE to - from + 1
    BY FS_Interval
  <2> QED
    BY <1>1, <2>1, <2>2
<1>3. Caps!Untouched \in CapsuleCalls
  BY DEF Caps!Untouched, CapsuleCalls
<1>4. \A c \in Requests : req[c] = Caps!Untouched
  OBVIOUS
<1>5. CapsTyped
  <2>1. line \in [Caps!PluginNames -> Seq(Requests)]
    OBVIOUS
  <2>2. activity \in Activities
    BY DEF Activities
  <2> QED
    BY <1>1, <1>2, <1>3, <2>1, <2>2 DEF CapsTyped
<1>6. Staged /\ Chained /\ NewestSpared
  BY <1>4 DEF Staged, StageOf, Begun, Under, Chained, NewestSpared, Caps!Untouched
<1>7. RoomLeft
  BY <1>1, <1>2, <1>4 DEF RoomLeft, Caps!Untouched
<1>8. LastShown
  BY <1>4 DEF LastShown, Caps!Untouched
<1> QED
  BY <1>5, <1>6, <1>7, <1>8 DEF CapsInv

\* What steps do: a call goes on to its next stage, ...
SameCall(c) ==
    /\ req' \in [Requests -> CapsuleCalls] /\ \A d \in Requests \ {c} : req'[d] = req[d]
    /\ req'[c].kind = req[c].kind /\ req'[c].for = req[c].for
    /\ req'[c].keep = req[c].keep /\ req'[c].sequence = req[c].sequence

Moved(c) ==
    /\ SameCall(c) /\ UNCHANGED <<workspace, capsules, clock, line, gone, cleanups, activity>>
    /\ req'[c].answer = req[c].answer /\ req'[c].aborted = req[c].aborted
    /\ req'[c].effect = req[c].effect /\ req'[c].todo = req[c].todo
    /\ Caps!Fit(c)
    /\ \/ /\ req[c].pc = "queued" /\ req'[c].pc = "reading"
          /\ line[LineOf(req[c])] # << >> /\ line[LineOf(req[c])][1] = c
       \/ /\ Caps!Is(c, "capture", "reading") /\ req'[c].pc = "storing"
          /\ Cardinality(capsules) < maxCapsules
       \/ Caps!Is(c, "capture", "storing") /\ req'[c].pc = "linking"
       \/ Caps!Is(c, "restore", "reading") /\ req'[c].pc = "applying"

\* ... ends, ...
CallEnded(c) ==
    /\ SameCall(c) /\ req'[c].aborted = req[c].aborted /\ req'[c].todo = req[c].todo
    /\ Begun(req[c]) /\ req'[c].pc = "over"
    /\ line[LineOf(req[c])] # << >> /\ line[LineOf(req[c])][1] = c /\ Caps!Leave(c)
    /\ UNCHANGED <<workspace, gone, cleanups>>
    /\ \/ /\ req'[c].answer = Caps!First(c, Caps!Refusal(c)) /\ req'[c].effect = req[c].effect
          /\ UNCHANGED <<capsules, clock>>
          /\ Caps!Report(c, IF req[c].aborted THEN "cancelled" ELSE "failed")
       \/ /\ Caps!Is(c, "clean", "removing") /\ Caps!Fit(c)
          /\ req'[c].answer = Caps!First(c, "ok") /\ req'[c].effect = req[c].effect
          /\ UNCHANGED <<capsules, clock>> /\ Caps!Report(c, "completed")
       \/ /\ req[c].pc = "applying" /\ UNCHANGED <<capsules, clock, activity>>
          /\ \/ req'[c].answer = Caps!First(c, "ok") /\ req'[c].effect = "whole"
             \/ req'[c].answer = Caps!First(c, "uncertain")
       \/ /\ req[c].pc = "linking" /\ clock' = clock + 1 /\ capsules' = capsules \cup {clock'}
          /\ req'[c].answer \in {Caps!First(c, "ok"), Caps!First(c, "failed")} /\ req'[c].effect = "whole"
          /\ UNCHANGED activity

\* ... finds what it is to remove, removes one of it, ...
Listed(c) ==
    /\ SameCall(c) /\ UNCHANGED <<workspace, capsules, clock, line, gone, cleanups, activity>>
    /\ req'[c].answer = req[c].answer /\ req'[c].aborted = req[c].aborted
    /\ req'[c].effect = req[c].effect
    /\ Caps!Is(c, "clean", "reading") /\ Caps!Fit(c) /\ req'[c].pc = "removing"
    /\ req'[c].todo = {x \in capsules : Cardinality(NewerThan(x, capsules)) >= req[c].keep}

Removed(c, x) ==
    /\ SameCall(c) /\ UNCHANGED <<workspace, clock, line, gone, cleanups, activity>>
    /\ req'[c].answer = req[c].answer /\ req'[c].aborted = req[c].aborted
    /\ req'[c].effect = req[c].effect /\ req'[c].pc = req[c].pc
    /\ Caps!Is(c, "clean", "removing") /\ Caps!Fit(c)
    /\ x \in req[c].todo /\ Cardinality(NewerThan(x, req[c].todo)) = 0
    /\ capsules' = capsules \ {x} /\ req'[c].todo = req[c].todo \ {x}

\* ... or is answered before it ends.
Interrupted(cs) ==
    /\ \A c \in cs : Begun(req[c]) /\ ~req[c].aborted
    /\ gone \subseteq gone' /\ gone' \subseteq Caps!PluginNames
    /\ \A c \in Requests : Begun(req[c]) /\ ~req[c].aborted /\ LineOf(req[c]) \in gone' => c \in cs
    /\ Caps!Cancelled(cs)
    /\ UNCHANGED <<workspace, capsules, clock, line, cleanups>>

LEMMA RecordsOfCalls ==
    ASSUME NEW r \in CapsuleCalls
    PROVE  /\ r.kind \in {"capture", "restore", "clean"} /\ r.todo \in SUBSET Nat /\ r.keep \in Nat
           /\ r.answer \in {"none", "ok", "failed", "uncertain"} /\ r.aborted \in BOOLEAN
           /\ r.sequence \in Nat /\ LineOf(r) \in Caps!PluginNames
BY DEF CapsuleCalls, LineOf, Caps!Plugin, Caps!PluginNames

\* The records of calls that steps make
Changed(c, pc, answer, effect, todo) ==
    /\ SameCall(c) /\ req'[c].aborted = req[c].aborted
    /\ req'[c].pc = pc /\ req'[c].answer = answer /\ req'[c].effect = effect /\ req'[c].todo = todo

LEMMA CallChanges ==
    ASSUME CapsTyped, NEW c \in Requests,
           NEW pc \in {"idle", "queued", "reading", "storing", "linking", "applying", "removing", "over"},
           NEW answer \in {"none", "ok", "failed", "uncertain"}, NEW effect \in {"none", "part", "whole"},
           NEW todo \in SUBSET Nat
    PROVE  /\ req' = [req EXCEPT ![c].pc = pc] =>
                 Changed(c, pc, req[c].answer, req[c].effect, req[c].todo)
           /\ req' = [req EXCEPT ![c].pc = pc, ![c].answer = answer] =>
                 Changed(c, pc, answer, req[c].effect, req[c].todo)
           /\ req' = [req EXCEPT ![c].pc = pc, ![c].effect = effect, ![c].answer = answer] =>
                 Changed(c, pc, answer, effect, req[c].todo)
           /\ req' = [req EXCEPT ![c].pc = pc, ![c].todo = todo] =>
                 Changed(c, pc, req[c].answer, req[c].effect, todo)
           /\ req' = [req EXCEPT ![c].todo = todo] =>
                 Changed(c, req[c].pc, req[c].answer, req[c].effect, todo)
<1>1. req \in [Requests -> CapsuleCalls]
  BY DEF CapsTyped
<1>2. ASSUME req' = [req EXCEPT ![c].pc = pc]
      PROVE  Changed(c, pc, req[c].answer, req[c].effect, req[c].todo)
  BY <1>1, <1>2 DEF Changed, SameCall, CapsuleCalls
<1>3. ASSUME req' = [req EXCEPT ![c].pc = pc, ![c].answer = answer]
      PROVE  Changed(c, pc, answer, req[c].effect, req[c].todo)
  <2> DEFINE new == [req[c] EXCEPT !.pc = pc, !.answer = answer]
  <2>1. req[c] \in CapsuleCalls
    BY <1>1
  <2>2. /\ new \in CapsuleCalls /\ new.pc = pc /\ new.answer = answer
        /\ new.kind = req[c].kind /\ new.for = req[c].for /\ new.keep = req[c].keep
        /\ new.sequence = req[c].sequence /\ new.aborted = req[c].aborted /\ new.todo = req[c].todo
        /\ new.effect = req[c].effect
    BY <2>1 DEF CapsuleCalls
  <2>3. req'[c] = new /\ \A d \in Requests \ {c} : req'[d] = req[d]
    BY <1>1, <1>3
  <2>4. req' = [d \in Requests |-> IF d = c THEN new ELSE req[d]]
    BY <1>1, <1>3
  <2> HIDE DEF new
  <2>5. req' \in [Requests -> CapsuleCalls]
    BY <1>1, <2>2, <2>4
  <2> QED
    BY <2>2, <2>3, <2>5 DEF Changed, SameCall
<1>4. ASSUME req' = [req EXCEPT ![c].pc = pc, ![c].effect = effect, ![c].answer = answer]
      PROVE  Changed(c, pc, answer, effect, req[c].todo)
  <2> DEFINE new == [req[c] EXCEPT !.pc = pc, !.effect = effect, !.answer = answer]
  <2>1. req[c] \in CapsuleCalls
    BY <1>1
  <2>2. /\ new \in CapsuleCalls /\ new.pc = pc /\ new.answer = answer
        /\ new.kind = req[c].kind /\ new.for = req[c].for /\ new.keep = req[c].keep
        /\ new.sequence = req[c].sequence /\ new.aborted = req[c].aborted /\ new.todo = req[c].todo
        /\ new.effect = effect
    BY <2>1 DEF CapsuleCalls
  <2>3. req'[c] = new /\ \A d \in Requests \ {c} : req'[d] = req[d]
    BY <1>1, <1>4
  <2>4. req' = [d \in Requests |-> IF d = c THEN new ELSE req[d]]
    BY <1>1, <1>4
  <2> HIDE DEF new
  <2>5. req' \in [Requests -> CapsuleCalls]
    BY <1>1, <2>2, <2>4
  <2> QED
    BY <2>2, <2>3, <2>5 DEF Changed, SameCall
<1>5. ASSUME req' = [req EXCEPT ![c].pc = pc, ![c].todo = todo]
      PROVE  Changed(c, pc, req[c].answer, req[c].effect, todo)
  BY <1>1, <1>5 DEF Changed, SameCall, CapsuleCalls
<1>6. ASSUME req' = [req EXCEPT ![c].todo = todo]
      PROVE  Changed(c, req[c].pc, req[c].answer, req[c].effect, todo)
  BY <1>1, <1>6 DEF Changed, SameCall, CapsuleCalls
<1> QED
  BY <1>2, <1>3, <1>4, <1>5, <1>6

LEMMA FailEnds ==
    ASSUME CapsInv, NEW c \in Requests, Caps!Fail(c), Begun(req[c]),
           line[LineOf(req[c])] # << >>, line[LineOf(req[c])][1] = c,
           UNCHANGED <<workspace, gone, cleanups, capsules, clock>>
    PROVE  CallEnded(c)
<1>1. CapsTyped /\ req[c] \in CapsuleCalls
  BY DEF CapsInv, CapsTyped
<1>2. Caps!First(c, Caps!Refusal(c)) \in {"none", "ok", "failed", "uncertain"}
  BY <1>1, RecordsOfCalls DEF Caps!First, Caps!Refusal
<1>3. req' = [req EXCEPT ![c].pc = "over", ![c].answer = Caps!First(c, Caps!Refusal(c))]
      /\ Caps!Leave(c)
      /\ Caps!Report(c, IF req[c].aborted THEN "cancelled" ELSE "failed")
  BY DEF Caps!Fail, Caps!Over
<1>4. "none" \in {"none", "part", "whole"} /\ {} \in SUBSET Nat
  OBVIOUS
<1>5. Changed(c, "over", Caps!First(c, Caps!Refusal(c)), req[c].effect, req[c].todo)
  BY <1>1, <1>2, <1>3, <1>4, CallChanges
<1> QED
  BY <1>3, <1>5 DEF CallEnded, Changed

LEMMA CapsSteps ==
    ASSUME CapsInv, Caps!Next
    PROVE  \/ \E c \in Requests : Caps!Ask(c) \/ Moved(c) \/ CallEnded(c) \/ Listed(c)
           \/ \E c \in Requests : \E x \in Nat : Removed(c, x)
           \/ \E cs \in SUBSET Requests : Interrupted(cs)
           \/ Caps!Switch
<1>t. CapsTyped /\ Staged /\ Chained /\ \A c \in Requests : req[c] \in CapsuleCalls
  BY DEF CapsInv, CapsTyped
<1>h. \A c \in Requests : Under(req[c]) => /\ Begun(req[c])
                                           /\ line[LineOf(req[c])] # << >> /\ line[LineOf(req[c])][1] = c
  BY <1>t DEF Chained, Under, Begun
<1>e. "none" \in {"none", "part", "whole"} /\ "whole" \in {"none", "part", "whole"} /\ {} \in SUBSET Nat
      /\ "none" \in {"none", "ok", "failed", "uncertain"}
  OBVIOUS
<1>1. ASSUME NEW c \in Requests, Caps!Begin(c) PROVE Moved(c) \/ CallEnded(c)
  <2>1. Begun(req[c]) /\ req[c].pc = "queued" /\ UNCHANGED <<workspace, capsules, clock, gone, cleanups>>
    BY <1>1 DEF Caps!Begin, Begun
  <2>2. line[LineOf(req[c])] # << >> /\ line[LineOf(req[c])][1] = c
    <3>1. line[LineOf(req[c])] \in Seq(Requests)
      BY <1>t, RecordsOfCalls DEF CapsTyped
    <3>2. line[LineOf(req[c])] # << >>
      BY <1>t, <2>1 DEF Chained
    <3>3. Head(line[LineOf(req[c])]) = c
      BY <1>1 DEF Caps!Begin, Caps!Turn, LineOf
    <3> QED
      BY <3>1, <3>2, <3>3
  <2>3. CASE Caps!Fit(c)
    <3>1. req' = [req EXCEPT ![c].pc = "reading"] /\ UNCHANGED <<line, activity>>
      BY <1>1, <2>3 DEF Caps!Begin, Caps!Go
    <3>2. Changed(c, "reading", req[c].answer, req[c].effect, req[c].todo)
      BY <1>t, <1>e, <3>1, CallChanges
    <3> QED
      BY <2>1, <2>2, <2>3, <3>1, <3>2 DEF Moved, Changed
  <2>4. CASE ~Caps!Fit(c)
    BY <1>1, <2>1, <2>2, <2>4, FailEnds DEF Caps!Begin
  <2> QED
    BY <2>3, <2>4
<1>2. ASSUME NEW c \in Requests, Caps!ReadDiff(c) \/ Caps!Store(c) \/ Caps!Verify(c) PROVE Moved(c) \/ CallEnded(c)
  <2>1. Under(req[c]) /\ UNCHANGED <<workspace, capsules, clock, gone, cleanups>>
    BY <1>2 DEF Caps!ReadDiff, Caps!Store, Caps!Verify, Caps!Is, Under
  <2>2. CASE Caps!Fail(c)
    BY <1>h, <2>1, <2>2, FailEnds
  <2>3. CASE ~Caps!Fail(c)
    <3>1. PICK pc \in {"storing", "linking", "applying"} :
            req' = [req EXCEPT ![c].pc = pc] /\ UNCHANGED <<line, activity>> /\ Caps!Fit(c)
            /\ \/ pc = "storing" /\ Caps!Is(c, "capture", "reading") /\ Caps!Cardinality(capsules) < maxCapsules
               \/ pc = "linking" /\ Caps!Is(c, "capture", "storing")
               \/ pc = "applying" /\ Caps!Is(c, "restore", "reading")
      BY <1>2, <2>3 DEF Caps!ReadDiff, Caps!Store, Caps!Verify, Caps!Go, Caps!MayApply
    <3>2. Changed(c, pc, req[c].answer, req[c].effect, req[c].todo)
      BY <1>t, <1>e, <3>1, CallChanges
    <3> QED
      BY <2>1, <3>1, <3>2, Counting DEF Moved, Changed
  <2> QED
    BY <2>2, <2>3
<1>3. ASSUME NEW c \in Requests, Caps!Link(c) PROVE CallEnded(c)
  <2>1. Under(req[c]) /\ req[c].pc = "linking" /\ UNCHANGED <<workspace, gone, cleanups>>
    BY <1>3 DEF Caps!Link, Caps!Is, Under
  <2>2. CASE Caps!Fail(c) /\ UNCHANGED <<capsules, clock>>
    BY <1>h, <2>1, <2>2, FailEnds
  <2>3. CASE ~(Caps!Fail(c) /\ UNCHANGED <<capsules, clock>>)
    <3>1. PICK answer \in {"ok", "failed"} :
            /\ req' = [req EXCEPT ![c].pc = "over", ![c].effect = "whole", ![c].answer = Caps!First(c, answer)]
            /\ clock' = clock + 1 /\ capsules' = capsules \cup {clock'} /\ Caps!Leave(c)
            /\ UNCHANGED activity
      BY <1>3, <2>3 DEF Caps!Link
    <3>2. Caps!First(c, answer) \in {"none", "ok", "failed", "uncertain"}
      BY <1>t, RecordsOfCalls DEF Caps!First
    <3>3. Changed(c, "over", Caps!First(c, answer), "whole", req[c].todo)
      BY <1>t, <1>e, <3>1, <3>2, CallChanges
    <3> QED
      BY <1>h, <2>1, <3>1, <3>3 DEF CallEnded, Changed
  <2> QED
    BY <2>2, <2>3
<1>4. ASSUME NEW c \in Requests, Caps!Apply(c) PROVE CallEnded(c)
  <2>1. Under(req[c]) /\ Caps!Is(c, "restore", "applying")
        /\ UNCHANGED <<workspace, capsules, clock, gone, cleanups, activity>> /\ Caps!Leave(c)
    BY <1>4 DEF Caps!Apply, Caps!Is, Caps!Leave, Under
  <2>2. Caps!Refusal(c) = "uncertain"
    BY <2>1 DEF Caps!Refusal
  <2>3. PICK effect \in {"none", "part", "whole"} : \E answer \in {"ok", "uncertain"} :
          /\ req' = [req EXCEPT ![c].pc = "over", ![c].effect = effect, ![c].answer = Caps!First(c, answer)]
          /\ answer = "ok" => effect = "whole"
    BY <1>4, <2>2 DEF Caps!Apply
  <2>4. PICK answer \in {"ok", "uncertain"} :
          /\ req' = [req EXCEPT ![c].pc = "over", ![c].effect = effect, ![c].answer = Caps!First(c, answer)]
          /\ answer = "ok" => effect = "whole"
    BY <2>3
  <2>5. Caps!First(c, answer) \in {"none", "ok", "failed", "uncertain"}
    BY <1>t, RecordsOfCalls DEF Caps!First
  <2>6. Changed(c, "over", Caps!First(c, answer), effect, req[c].todo)
    BY <1>t, <1>e, <2>4, <2>5, CallChanges
  <2> QED
    BY <1>h, <2>1, <2>4, <2>6 DEF CallEnded, Changed, Caps!Is
<1>5. ASSUME NEW c \in Requests, Caps!List(c) PROVE Listed(c) \/ CallEnded(c)
  <2>1. Under(req[c]) /\ Caps!Is(c, "clean", "reading") /\ UNCHANGED <<workspace, capsules, clock, gone, cleanups>>
    BY <1>5 DEF Caps!List, Caps!Is, Under
  <2>2. CASE Caps!Fail(c)
    BY <1>h, <2>1, <2>2, FailEnds
  <2>3. CASE ~Caps!Fail(c)
    <3> DEFINE todo == {x \in capsules : Cardinality(NewerThan(x, capsules)) >= req[c].keep}
    <3>1. req' = [req EXCEPT ![c].pc = "removing", ![c].todo = todo] /\ UNCHANGED <<line, activity>> /\ Caps!Fit(c)
      BY <1>5, <2>3, Counting DEF Caps!List
    <3>2. todo \in SUBSET Nat
      BY <1>t DEF CapsTyped
    <3> HIDE DEF todo
    <3>3. Changed(c, "removing", req[c].answer, req[c].effect, todo)
      BY <1>t, <1>e, <3>1, <3>2, CallChanges
    <3> QED
      BY <2>1, <3>1, <3>3 DEF Listed, Changed, todo
  <2> QED
    BY <2>2, <2>3
<1>6. ASSUME NEW c \in Requests, Caps!Unlink(c) PROVE CallEnded(c) \/ \E x \in Nat : Removed(c, x)
  <2>1. Under(req[c]) /\ Caps!Is(c, "clean", "removing") /\ UNCHANGED <<workspace, clock, gone, cleanups>>
    BY <1>6 DEF Caps!Unlink, Caps!Is, Under
  <2>2. CASE Caps!Fail(c) /\ UNCHANGED capsules
    BY <1>h, <2>1, <2>2, FailEnds
  <2>3. CASE ~(Caps!Fail(c) /\ UNCHANGED capsules)
    <3>1. PICK x \in req[c].todo :
            /\ Caps!Newer(x, req[c].todo) = 0 /\ capsules' = capsules \ {x}
            /\ req' = [req EXCEPT ![c].todo = @ \ {x}] /\ UNCHANGED <<line, activity>> /\ Caps!Fit(c)
      BY <1>6, <2>3 DEF Caps!Unlink
    <3>2. req[c].todo \in SUBSET Nat /\ req[c].todo \ {x} \in SUBSET Nat /\ x \in Nat
      BY <1>t, RecordsOfCalls
    <3>3. req' = [req EXCEPT ![c].todo = req[c].todo \ {x}]
      BY <1>t, <3>1 DEF CapsTyped
    <3>4. Changed(c, req[c].pc, req[c].answer, req[c].effect, req[c].todo \ {x})
      BY <1>t, <1>e, <3>2, <3>3, CallChanges
    <3>5. Removed(c, x)
      BY <2>1, <3>1, <3>4, Counting DEF Removed, Changed
    <3> QED
      BY <3>2, <3>5
  <2> QED
    BY <2>2, <2>3
<1>7. ASSUME NEW c \in Requests, Caps!Count(c) PROVE CallEnded(c)
  <2>1. Under(req[c]) /\ Caps!Is(c, "clean", "removing") /\ UNCHANGED <<workspace, capsules, clock, gone, cleanups>>
    BY <1>7 DEF Caps!Count, Caps!Is, Under
  <2>2. CASE Caps!Fail(c)
    BY <1>h, <2>1, <2>2, FailEnds
  <2>3. CASE ~Caps!Fail(c)
    <3>1. req' = [req EXCEPT ![c].pc = "over", ![c].answer = Caps!First(c, "ok")]
          /\ Caps!Fit(c) /\ Caps!Leave(c) /\ Caps!Report(c, "completed")
      BY <1>7, <2>3 DEF Caps!Count, Caps!Over
    <3>2. Caps!First(c, "ok") \in {"none", "ok", "failed", "uncertain"}
      BY <1>t, RecordsOfCalls DEF Caps!First
    <3>3. Changed(c, "over", Caps!First(c, "ok"), req[c].effect, req[c].todo)
      BY <1>t, <1>e, <3>1, <3>2, CallChanges
    <3> QED
      BY <1>h, <2>1, <3>1, <3>3 DEF CallEnded, Changed
  <2> QED
    BY <2>2, <2>3
<1>8. ASSUME NEW c \in Requests, Caps!Abort(c) PROVE Interrupted({c})
  <2>1. /\ Begun(req[c]) /\ ~req[c].aborted /\ Caps!Cancelled({c})
        /\ UNCHANGED <<workspace, capsules, clock, line, gone, cleanups>>
    BY <1>8 DEF Caps!Abort, Caps!Cancellable, Begun
  <2>2. \A d \in Requests : Begun(req[d]) /\ ~req[d].aborted => LineOf(req[d]) \notin gone
    BY <1>t DEF Staged
  <2>3. gone \subseteq Caps!PluginNames
    BY <1>t DEF CapsTyped
  <2> QED
    BY <2>1, <2>2, <2>3 DEF Interrupted
<1>9. ASSUME NEW p \in Caps!PluginNames, Caps!Dispose(p)
      PROVE  Interrupted({c \in Requests : Caps!Cancellable(c) /\ LineOf(req[c]) = p})
  <2>1. /\ gone' = gone \cup {p} /\ UNCHANGED <<workspace, capsules, clock, line, cleanups>>
        /\ Caps!Cancelled({c \in Requests : Caps!Cancellable(c) /\ LineOf(req[c]) = p})
    BY <1>9 DEF Caps!Dispose, LineOf
  <2>2. \A d \in Requests : Begun(req[d]) /\ ~req[d].aborted => LineOf(req[d]) \notin gone /\ Caps!Cancellable(d)
    BY <1>t DEF Staged, Caps!Cancellable, Begun
  <2>3. gone \subseteq Caps!PluginNames
    BY <1>t DEF CapsTyped
  <2>4. \A c \in Requests : Caps!Cancellable(c) => Begun(req[c]) /\ ~req[c].aborted
    BY DEF Caps!Cancellable, Begun
  <2> QED
    BY <2>1, <2>2, <2>3, <2>4 DEF Interrupted
<1> QED
  BY <1>1, <1>2, <1>3, <1>4, <1>5, <1>6, <1>7, <1>8, <1>9 DEF Caps!Next, Caps!Step

\* ... is asked, ...
CallAsked(c, kind) ==
    /\ req' \in [Requests -> CapsuleCalls] /\ \A d \in Requests \ {c} : req'[d] = req[d]
    /\ req[c].pc = "idle" /\ req'[c].pc = "queued" /\ req'[c].kind = kind /\ Caps!Plugin(kind) \notin gone
    /\ req'[c].answer = "none" /\ req'[c].effect = "none" /\ req'[c].aborted = FALSE
    /\ req'[c].sequence = cleanups'
    /\ line' = [line EXCEPT ![Caps!Plugin(kind)] = Append(@, c)]
    /\ cleanups' = IF kind = "clean" THEN cleanups + 1 ELSE cleanups
    /\ activity' = IF kind = "clean" THEN [of |-> cleanups + 1, status |-> "running"] ELSE activity
    /\ UNCHANGED <<workspace, capsules, clock, gone>>

LEMMA Asking ==
    ASSUME CapsInv, NEW c \in Requests, Caps!Ask(c)
    PROVE  \E kind \in {"capture", "restore", "clean"} : CallAsked(c, kind)
<1>t. CapsTyped /\ activity.of = cleanups /\ cleanups \in Nat /\ workspace \in Nat /\ clock \in Nat
  BY DEF CapsInv, CapsTyped, LastShown
<1>1. PICK kind \in {"capture", "restore", "clean"}, keep \in {0, 1}, x \in 1 .. clock :
        /\ Caps!Plugin(kind) \notin gone
        /\ line' = [line EXCEPT ![Caps!Plugin(kind)] = Append(@, c)]
        /\ cleanups' = IF kind = "clean" THEN cleanups + 1 ELSE cleanups
        /\ activity' = IF kind = "clean" THEN Caps!Shown(cleanups', "running") ELSE activity
        /\ req' = [req EXCEPT ![c] = [Caps!Untouched EXCEPT !.kind = kind, !.pc = "queued",
                      !.for = IF kind = "clean" THEN 0 ELSE workspace, !.keep = keep, !.sequence = cleanups',
                      !.todo = IF kind = "restore" THEN {x} ELSE {}]]
  BY DEF Caps!Ask
<1> DEFINE new == [Caps!Untouched EXCEPT !.kind = kind, !.pc = "queued",
                      !.for = IF kind = "clean" THEN 0 ELSE workspace, !.keep = keep, !.sequence = cleanups',
                      !.todo = IF kind = "restore" THEN {x} ELSE {}]
<1>2. cleanups' \in Nat /\ x \in Nat /\ keep \in Nat
  BY <1>t, <1>1
<1>3. /\ new \in CapsuleCalls /\ new.kind = kind /\ new.pc = "queued" /\ new.answer = "none"
      /\ new.effect = "none" /\ new.aborted = FALSE /\ new.sequence = cleanups'
  <2>1. Caps!Untouched \in CapsuleCalls /\ Caps!Untouched.answer = "none"
        /\ Caps!Untouched.effect = "none" /\ Caps!Untouched.aborted = FALSE
    BY DEF Caps!Untouched, CapsuleCalls
  <2>2. (IF kind = "clean" THEN 0 ELSE workspace) \in Nat /\ (IF kind = "restore" THEN {x} ELSE {}) \in SUBSET Nat
    BY <1>t, <1>2
  <2> QED
    BY <1>2, <2>1, <2>2 DEF CapsuleCalls
<1>4. req' = [req EXCEPT ![c] = new]
  BY <1>1
<1> HIDE DEF new
<1>5. req' \in [Requests -> CapsuleCalls] /\ req'[c] = new /\ \A d \in Requests \ {c} : req'[d] = req[d]
  BY <1>t, <1>3, <1>4 DEF CapsTyped
<1>6. kind = "clean" => activity' = [of |-> cleanups + 1, status |-> "running"]
  BY <1>t, <1>1 DEF Caps!Shown
<1>7. req[c].pc = "idle" /\ UNCHANGED <<workspace, capsules, clock, gone>>
  BY DEF Caps!Ask
<1> QED
  BY <1>1, <1>3, <1>5, <1>6, <1>7 DEF CallAsked

LEMMA Interruption ==
    ASSUME CapsInv, NEW cs \in SUBSET Requests, Interrupted(cs)
    PROVE  /\ req' \in [Requests -> CapsuleCalls]
           /\ \A c \in Requests :
                 /\ req'[c].kind = req[c].kind /\ req'[c].pc = req[c].pc /\ req'[c].for = req[c].for
                 /\ req'[c].keep = req[c].keep /\ req'[c].sequence = req[c].sequence
                 /\ req'[c].effect = req[c].effect /\ req'[c].todo = req[c].todo
           /\ \A c \in cs : /\ req[c].answer = "none" /\ req'[c].aborted
                            /\ req'[c].answer = IF Caps!Is(c, "restore", "applying") THEN "uncertain" ELSE "failed"
           /\ \A c \in Requests \ cs : req'[c] = req[c]
<1>t. CapsTyped /\ Staged
  BY DEF CapsInv
<1>1. \A c \in cs : req[c].answer = "none"
  BY <1>t DEF Staged, StageOf, Interrupted
<1>2. req' = [c \in Requests |->
                IF c \in cs THEN [req[c] EXCEPT !.aborted = TRUE, !.answer = Caps!First(c, Caps!Refusal(c))]
                ELSE req[c]]
  BY DEF Interrupted, Caps!Cancelled
<1>3. ASSUME NEW c \in cs
      PROVE  /\ req'[c] \in CapsuleCalls
             /\ req'[c].kind = req[c].kind /\ req'[c].pc = req[c].pc /\ req'[c].for = req[c].for
             /\ req'[c].keep = req[c].keep /\ req'[c].sequence = req[c].sequence
             /\ req'[c].effect = req[c].effect /\ req'[c].todo = req[c].todo
             /\ req'[c].aborted
             /\ req'[c].answer = IF Caps!Is(c, "restore", "applying") THEN "uncertain" ELSE "failed"
  <2>1. Caps!First(c, Caps!Refusal(c)) = IF Caps!Is(c, "restore", "applying") THEN "uncertain" ELSE "failed"
    BY <1>1 DEF Caps!First, Caps!Refusal
  <2>2. PICK answer \in {"uncertain", "failed"} : answer = Caps!First(c, Caps!Refusal(c))
    BY <2>1
  <2>3. req'[c] = [req[c] EXCEPT !.aborted = TRUE, !.answer = answer] /\ req[c] \in CapsuleCalls
    BY <1>t, <1>2, <2>2 DEF CapsTyped
  <2> QED
    BY <2>1, <2>2, <2>3 DEF CapsuleCalls
<1>4. \A c \in Requests \ cs : req'[c] = req[c] /\ req'[c] \in CapsuleCalls
  BY <1>t, <1>2 DEF CapsTyped
<1>5. req' \in [Requests -> CapsuleCalls]
  <2>1. \A c \in Requests : req'[c] \in CapsuleCalls
    BY <1>3, <1>4
  <2> QED
    BY <1>2, <2>1
<1> QED
  BY <1>1, <1>3, <1>4, <1>5

LEMMA JoinsLine ==
    ASSUME NEW q \in Seq(Requests), NEW c \in Requests
    PROVE  /\ Append(q, c) \in Seq(Requests) /\ Append(q, c) # << >>
           /\ \A i \in DOMAIN q : i \in DOMAIN Append(q, c) /\ Append(q, c)[i] = q[i]
           /\ Len(q) + 1 \in DOMAIN Append(q, c) /\ Append(q, c)[Len(q) + 1] = c
           /\ q # << >> => 1 \in DOMAIN q
BY AppendProperties

LEMMA CapsTypes == ASSUME CapsInv, Caps!Next PROVE CapsTyped'
<1>t. /\ CapsTyped /\ LastShown /\ \A c \in Requests : req[c] \in CapsuleCalls
      /\ \A c \in Requests : LineOf(req[c]) \in Caps!PluginNames /\ req[c].sequence \in Nat
  BY RecordsOfCalls DEF CapsInv, CapsTyped
<1>1. ASSUME NEW c \in Requests, Caps!Ask(c) PROVE CapsTyped'
  <2>1. PICK kind \in {"capture", "restore", "clean"} : CallAsked(c, kind)
    BY <1>1, Asking
  <2>2. Caps!Plugin(kind) \in Caps!PluginNames /\ line[Caps!Plugin(kind)] \in Seq(Requests)
    BY <1>t DEF Caps!Plugin, Caps!PluginNames, CapsTyped
  <2>3. Append(line[Caps!Plugin(kind)], c) \in Seq(Requests)
    BY <2>2, JoinsLine
  <2>4. line' \in [Caps!PluginNames -> Seq(Requests)]
    BY <1>t, <2>1, <2>2, <2>3 DEF CapsTyped, CallAsked
  <2>5. cleanups' \in Nat /\ activity' \in Activities
    BY <1>t, <2>1 DEF CapsTyped, CallAsked, Activities
  <2> QED
    BY <1>t, <2>1, <2>4, <2>5 DEF CapsTyped, CallAsked
<1>2. ASSUME NEW c \in Requests, Moved(c) PROVE CapsTyped'
  BY <1>t, <1>2 DEF CapsTyped, Moved, SameCall
<1>3. ASSUME NEW c \in Requests, CallEnded(c) PROVE CapsTyped'
  <2>1. Caps!RemoveFirst(line[LineOf(req[c])], c) \in Seq(Requests)
    <3>1. PICK q \in Seq(Requests) : q = line[LineOf(req[c])]
      BY <1>t DEF CapsTyped
    <3> QED
      BY <1>3, <3>1, HeadLeaves DEF CallEnded
  <2>2. line' = [line EXCEPT ![LineOf(req[c])] = Caps!RemoveFirst(line[LineOf(req[c])], c)]
    BY <1>3 DEF CallEnded, Caps!Leave, LineOf
  <2>3. line' \in [Caps!PluginNames -> Seq(Requests)]
    BY <1>t, <2>1, <2>2 DEF CapsTyped
  <2>4. \A s \in {"failed", "cancelled", "completed"} : Caps!Report(c, s) => activity' \in Activities
    BY <1>t DEF Caps!Report, Caps!Shown, Activities, CapsTyped
  <2>5. activity' \in Activities
    BY <1>3, <1>t, <2>4 DEF CallEnded, CapsTyped
  <2>6. clock' \in Nat /\ capsules' \in SUBSET Nat /\ IsFiniteSet(capsules')
    <3>1. IsFiniteSet(capsules \cup {clock'})
      BY <1>t, FS_AddElement DEF CapsTyped
    <3>2. clock + 1 \in Nat
      BY <1>t DEF CapsTyped
    <3>3. /\ clock' = clock \/ clock' = clock + 1
          /\ capsules' = capsules \/ capsules' = capsules \cup {clock'}
      BY <1>3 DEF CallEnded
    <3> QED
      BY <1>t, <3>1, <3>2, <3>3 DEF CapsTyped
  <2> QED
    BY <1>t, <1>3, <2>3, <2>5, <2>6 DEF CapsTyped, CallEnded, SameCall
<1>4. ASSUME NEW c \in Requests, Listed(c) PROVE CapsTyped'
  BY <1>t, <1>4 DEF CapsTyped, Listed, SameCall
<1>5. ASSUME NEW c \in Requests, NEW x \in Nat, Removed(c, x) PROVE CapsTyped'
  <2>1. IsFiniteSet(capsules')
    BY <1>5, <1>t, FS_RemoveElement DEF Removed, CapsTyped
  <2> QED
    BY <1>t, <1>5, <2>1 DEF CapsTyped, Removed, SameCall
<1>6. ASSUME NEW cs \in SUBSET Requests, Interrupted(cs) PROVE CapsTyped'
  <2>1. activity' \in Activities
    BY <1>6, <1>t DEF Interrupted, Caps!Cancelled, CapsTyped, Activities
  <2> QED
    BY <1>6, <1>t, <2>1, Interruption DEF Interrupted, CapsTyped
<1>7. ASSUME Caps!Switch PROVE CapsTyped'
  BY <1>t, <1>7 DEF CapsTyped, Caps!Switch
<1> QED
  BY <1>1, <1>2, <1>3, <1>4, <1>5, <1>6, <1>7, CapsSteps

LEMMA StagedStep == ASSUME CapsInv, Caps!Next PROVE Staged'
<1>t. /\ CapsTyped /\ Staged /\ \A c \in Requests : req[c] \in CapsuleCalls
      /\ \A c \in Requests : StageOf(req[c]) /\ (Begun(req[c]) /\ ~req[c].aborted => LineOf(req[c]) \notin gone)
  BY DEF CapsInv, CapsTyped, Staged
<1>1. ASSUME NEW c \in Requests, Caps!Ask(c) PROVE Staged'
  <2>1. PICK kind \in {"capture", "restore", "clean"} : CallAsked(c, kind)
    BY <1>1, Asking
  <2>2. StageOf(req'[c]) /\ LineOf(req'[c]) \notin gone'
    BY <2>1 DEF CallAsked, StageOf, Begun, LineOf
  <2> QED
    BY <1>t, <2>1, <2>2 DEF Staged, CallAsked
<1>2. ASSUME NEW c \in Requests, Moved(c) PROVE Staged'
  <2>1. ~req[c].aborted /\ Begun(req[c]) /\ req[c].answer = "none"
    BY <1>2, <1>t DEF Moved, Caps!Fit, Caps!Is, Begun, StageOf
  <2>2. StageOf(req'[c]) /\ LineOf(req'[c]) \notin gone'
    BY <1>2, <1>t, <2>1 DEF Moved, SameCall, StageOf, Begun, LineOf, Caps!Is
  <2> QED
    BY <1>t, <1>2, <2>2 DEF Staged, Moved, SameCall
<1>3. ASSUME NEW c \in Requests, CallEnded(c) PROVE Staged'
  <2>1. req[c].answer = "none" <=> ~req[c].aborted
    BY <1>3, <1>t DEF CallEnded, StageOf
  <2>2. req[c].answer # "ok" /\ req[c].effect = "none"
    BY <1>3, <1>t DEF CallEnded, StageOf, Begun
  <2>3. StageOf(req'[c])
    BY <1>3, <1>t, <2>1, <2>2 DEF CallEnded, SameCall, StageOf, Begun, Caps!First, Caps!Refusal, Caps!Is, Caps!Fit
  <2> QED
    BY <1>t, <1>3, <2>3 DEF Staged, CallEnded, SameCall, Begun
<1>4. ASSUME NEW c \in Requests, Listed(c) PROVE Staged'
  <2>1. StageOf(req'[c]) /\ (~req'[c].aborted => LineOf(req'[c]) \notin gone')
    BY <1>4, <1>t DEF Listed, SameCall, StageOf, Begun, LineOf, Caps!Is
  <2> QED
    BY <1>t, <1>4, <2>1 DEF Staged, Listed, SameCall
<1>5. ASSUME NEW c \in Requests, NEW x \in Nat, Removed(c, x) PROVE Staged'
  <2>1. StageOf(req'[c]) /\ (~req'[c].aborted => LineOf(req'[c]) \notin gone')
    BY <1>5, <1>t DEF Removed, SameCall, StageOf, Begun, LineOf, Caps!Is
  <2> QED
    BY <1>t, <1>5, <2>1 DEF Staged, Removed, SameCall
<1>6. ASSUME NEW cs \in SUBSET Requests, Interrupted(cs) PROVE Staged'
  <2> SUFFICES ASSUME NEW c \in Requests
               PROVE  StageOf(req'[c]) /\ (Begun(req'[c]) /\ ~req'[c].aborted => LineOf(req'[c]) \notin gone')
    BY DEF Staged
  <2>1. CASE c \in cs
    BY <1>6, <1>t, <2>1, Interruption DEF Interrupted, StageOf, Begun, LineOf, Caps!Is
  <2>2. CASE c \notin cs
    BY <1>6, <1>t, <2>2, Interruption DEF Interrupted
  <2> QED
    BY <2>1, <2>2
<1>7. ASSUME Caps!Switch PROVE Staged'
  BY <1>t, <1>7 DEF Staged, Caps!Switch
<1> QED
  BY <1>1, <1>2, <1>3, <1>4, <1>5, <1>6, <1>7, CapsSteps

LEMMA ChainedStep == ASSUME CapsInv, Caps!Next PROVE Chained'
<1>t. /\ CapsTyped /\ Chained /\ \A c \in Requests : req[c] \in CapsuleCalls
      /\ \A c \in Requests : LineOf(req[c]) \in Caps!PluginNames /\ line[LineOf(req[c])] \in Seq(Requests)
  BY RecordsOfCalls DEF CapsInv, CapsTyped
<1>0. \A c \in Requests : Under(req[c]) => Begun(req[c])
  BY DEF Under, Begun
<1>1. ASSUME NEW c \in Requests, Caps!Ask(c) PROVE Chained'
  <2>1. PICK kind \in {"capture", "restore", "clean"} : CallAsked(c, kind)
    BY <1>1, Asking
  <2>2. Caps!Plugin(kind) \in Caps!PluginNames
    BY DEF Caps!Plugin, Caps!PluginNames
  <2>3. PICK q \in Seq(Requests) : q = line[Caps!Plugin(kind)]
    BY <1>t, <2>2 DEF CapsTyped
  <2>4. line'[Caps!Plugin(kind)] = Append(q, c)
        /\ \A p \in Caps!PluginNames \ {Caps!Plugin(kind)} : line'[p] = line[p]
    BY <1>t, <2>1, <2>2, <2>3 DEF CallAsked, CapsTyped
  <2>5. /\ Append(q, c) # << >>
        /\ \A i \in DOMAIN q : i \in DOMAIN Append(q, c) /\ Append(q, c)[i] = q[i]
        /\ Len(q) + 1 \in DOMAIN Append(q, c) /\ Append(q, c)[Len(q) + 1] = c
        /\ q # << >> => 1 \in DOMAIN q
    BY JoinsLine
  <2>6. /\ LineOf(req'[c]) = Caps!Plugin(kind) /\ ~Under(req'[c])
    BY <2>1 DEF CallAsked, LineOf, Under
  <2>7. ASSUME NEW d \in Requests \ {c}
        PROVE  /\ Begun(req'[d]) => \E i \in DOMAIN line'[LineOf(req'[d])] : line'[LineOf(req'[d])][i] = d
               /\ Under(req'[d]) => line'[LineOf(req'[d])] # << >> /\ line'[LineOf(req'[d])][1] = d
    <3>1. req'[d] = req[d] /\ LineOf(req[d]) \in Caps!PluginNames
      BY <1>t, <2>1 DEF CallAsked
    <3>2. CASE LineOf(req[d]) = Caps!Plugin(kind)
      BY <1>t, <2>3, <2>4, <2>5, <3>1, <3>2 DEF Chained
    <3>3. CASE LineOf(req[d]) # Caps!Plugin(kind)
      BY <1>t, <2>4, <3>1, <3>3 DEF Chained
    <3> QED
      BY <3>2, <3>3
  <2> QED
    BY <2>4, <2>5, <2>6, <2>7 DEF Chained
<1>2. ASSUME NEW c \in Requests, Moved(c) PROVE Chained'
  <2>1. Begun(req[c]) /\ line[LineOf(req[c])] # << >> /\ line[LineOf(req[c])][1] = c
        /\ LineOf(req'[c]) = LineOf(req[c])
    BY <1>2, <1>t DEF Moved, SameCall, Chained, Begun, Under, LineOf, Caps!Is
  <2> QED
    BY <1>t, <1>2, <2>1 DEF Chained, Moved, SameCall
<1>3. ASSUME NEW c \in Requests, CallEnded(c) PROVE Chained'
  <2>1. PICK q \in Seq(Requests) : q = line[LineOf(req[c])]
    BY <1>t
  <2>2. /\ line' = [line EXCEPT ![LineOf(req[c])] = Caps!RemoveFirst(@, c)]
        /\ q # << >> /\ q[1] = c
    BY <1>3, <2>1 DEF CallEnded, Caps!Leave, LineOf
  <2>3. line'[LineOf(req[c])] = Caps!RemoveFirst(q, c)
        /\ \A p \in Caps!PluginNames \ {LineOf(req[c])} : line'[p] = line[p]
    BY <1>t, <2>1, <2>2 DEF CapsTyped
  <2>4. \A i \in DOMAIN q : q[i] # c =>
           \E j \in DOMAIN Caps!RemoveFirst(q, c) : Caps!RemoveFirst(q, c)[j] = q[i]
    BY <2>2, HeadLeaves
  <2>5. ASSUME NEW d \in Requests \ {c}
        PROVE  /\ Begun(req'[d]) => \E i \in DOMAIN line'[LineOf(req'[d])] : line'[LineOf(req'[d])][i] = d
               /\ Under(req'[d]) => line'[LineOf(req'[d])] # << >> /\ line'[LineOf(req'[d])][1] = d
    <3>1. req'[d] = req[d] /\ LineOf(req[d]) \in Caps!PluginNames
      BY <1>t, <1>3 DEF CallEnded, SameCall
    <3>2. CASE LineOf(req[d]) = LineOf(req[c])
      <4>1. ~Under(req[d])
        BY <1>t, <2>1, <2>2, <3>2 DEF Chained
      <4>2. Begun(req[d]) => \E i \in DOMAIN q : q[i] = d
        BY <1>t, <2>1, <3>2 DEF Chained
      <4> QED
        BY <2>3, <2>4, <3>1, <3>2, <4>1, <4>2
    <3>3. CASE LineOf(req[d]) # LineOf(req[c])
      BY <1>t, <2>3, <3>1, <3>3 DEF Chained
    <3> QED
      BY <3>2, <3>3
  <2>6. ~Begun(req'[c]) /\ ~Under(req'[c])
    BY <1>3 DEF CallEnded, Begun, Under
  <2> QED
    BY <2>5, <2>6 DEF Chained
<1>4. ASSUME NEW c \in Requests, Listed(c) \/ \E x \in Nat : Removed(c, x) PROVE Chained'
  <2>1. /\ UNCHANGED line /\ \A d \in Requests \ {c} : req'[d] = req[d]
        /\ Under(req[c]) /\ LineOf(req'[c]) = LineOf(req[c])
    BY <1>4 DEF Listed, Removed, SameCall, Under, LineOf, Caps!Is
  <2> QED
    BY <1>t, <1>0, <2>1 DEF Chained
<1>5. ASSUME NEW cs \in SUBSET Requests, Interrupted(cs) PROVE Chained'
  <2>1. /\ UNCHANGED line
        /\ \A c \in Requests : req'[c].pc = req[c].pc /\ LineOf(req'[c]) = LineOf(req[c])
    BY <1>5, Interruption DEF Interrupted, LineOf
  <2> QED
    BY <1>t, <2>1 DEF Chained, Begun, Under
<1>6. ASSUME Caps!Switch PROVE Chained'
  BY <1>t, <1>6 DEF Chained, Caps!Switch
<1> QED
  BY <1>1, <1>2, <1>3, <1>4, <1>5, <1>6, CapsSteps

\* Two calls of one plugin are never both under way.
LEMMA OneUnder ==
    ASSUME CapsInv, NEW c \in Requests, NEW d \in Requests, Under(req[c]), Under(req[d]),
           LineOf(req[c]) = LineOf(req[d])
    PROVE  c = d
BY DEF CapsInv, Chained

LEMMA RoomStep == ASSUME CapsInv, Caps!Next PROVE RoomLeft'
<1>t. /\ CapsTyped /\ RoomLeft /\ \A c \in Requests : StageOf(req[c])
      /\ maxCapsules \in Nat /\ Cardinality(capsules) \in Nat /\ IsFiniteSet(capsules)
  BY CapsulesAssumption, FS_CardinalityType DEF CapsInv, CapsTyped, Staged, Caps!CapsuleAssumption
<1>1. ASSUME NEW c \in Requests, Caps!Ask(c) PROVE RoomLeft'
  <2>1. PICK kind \in {"capture", "restore", "clean"} : CallAsked(c, kind)
    BY <1>1, Asking
  <2> QED
    BY <1>t, <2>1 DEF RoomLeft, CallAsked
<1>2. ASSUME NEW c \in Requests, Moved(c) PROVE RoomLeft'
  BY <1>t, <1>2 DEF RoomLeft, Moved, SameCall, Caps!Is
<1>3. ASSUME NEW c \in Requests, CallEnded(c) PROVE RoomLeft'
  <2>1. CASE UNCHANGED capsules
    BY <1>t, <1>3, <2>1 DEF RoomLeft, CallEnded, SameCall
  <2>2. CASE req[c].pc = "linking" /\ capsules' = capsules \cup {clock'}
    <3>1. Cardinality(capsules) < maxCapsules
      BY <1>t, <2>2 DEF RoomLeft
    <3>2. Cardinality(capsules \cup {clock'}) \in {Cardinality(capsules), Cardinality(capsules) + 1}
      <4>1. PICK x : x = clock'
        OBVIOUS
      <4>2. \/ Cardinality(capsules \cup {x}) = Cardinality(capsules)
            \/ Cardinality(capsules \cup {x}) = Cardinality(capsules) + 1
        BY <1>t, FS_AddElement
      <4> QED
        BY <4>1, <4>2
    <3>3. Cardinality(capsules') <= maxCapsules
      BY <1>t, <2>2, <3>1, <3>2
    <3>4. ASSUME NEW d \in Requests, req'[d].pc \in {"storing", "linking"} PROVE FALSE
      <4>1. d # c /\ req'[d] = req[d]
        BY <1>3, <3>4 DEF CallEnded, SameCall
      <4>2. Under(req[d]) /\ Under(req[c]) /\ req[d].kind = "capture" /\ req[c].kind = "capture"
        BY <1>t, <2>2, <3>4, <4>1 DEF Under, StageOf
      <4> QED
        BY <4>1, <4>2, OneUnder DEF LineOf
    <3> QED
      BY <3>3, <3>4 DEF RoomLeft
  <2> QED
    BY <1>3, <2>1, <2>2 DEF CallEnded
<1>4. ASSUME NEW c \in Requests, Listed(c) PROVE RoomLeft'
  BY <1>t, <1>4 DEF RoomLeft, Listed, SameCall
<1>5. ASSUME NEW c \in Requests, NEW x \in Nat, Removed(c, x) PROVE RoomLeft'
  <2>1. Cardinality(capsules') <= Cardinality(capsules) /\ Cardinality(capsules') \in Nat
    <3>1. capsules' = capsules \ {x}
      BY <1>5 DEF Removed
    <3>2. capsules \ {x} \subseteq capsules
      OBVIOUS
    <3>3. IsFiniteSet(capsules \ {x}) /\ Cardinality(capsules \ {x}) <= Cardinality(capsules)
      BY <1>t, <3>2, FS_Subset
    <3> QED
      BY <3>1, <3>3, FS_CardinalityType
  <2>2. \A d \in Requests : req'[d].pc = req[d].pc
    BY <1>5 DEF Removed, SameCall
  <2> QED
    BY <1>t, <2>1, <2>2 DEF RoomLeft
<1>6. ASSUME NEW cs \in SUBSET Requests, Interrupted(cs) PROVE RoomLeft'
  <2>1. \A d \in Requests : req'[d].pc = req[d].pc
    BY <1>6, Interruption
  <2> QED
    BY <1>t, <1>6, <2>1 DEF RoomLeft, Interrupted
<1>7. ASSUME Caps!Switch PROVE RoomLeft'
  BY <1>t, <1>7 DEF RoomLeft, Caps!Switch
<1> QED
  BY <1>1, <1>2, <1>3, <1>4, <1>5, <1>6, <1>7, CapsSteps

\* A set in which there are more numbers has no fewer that are newer than one.
LEMMA MoreNewer ==
    ASSUME NEW S \in SUBSET Nat, NEW T \in SUBSET Nat, IsFiniteSet(T), S \subseteq T, NEW x \in Nat
    PROVE  /\ Cardinality(NewerThan(x, S)) <= Cardinality(NewerThan(x, T))
           /\ Cardinality(NewerThan(x, S)) \in Nat /\ Cardinality(NewerThan(x, T)) \in Nat
<1>1. NewerThan(x, S) \subseteq NewerThan(x, T) /\ NewerThan(x, T) \subseteq T
  BY DEF NewerThan
<1>2. IsFiniteSet(NewerThan(x, T))
  BY <1>1, FS_Subset
<1> QED
  BY <1>1, <1>2, FS_Subset, FS_CardinalityType

LEMMA NewestStep == ASSUME CapsInv, Caps!Next PROVE NewestSpared'
<1>t. /\ CapsTyped /\ NewestSpared /\ capsules \in SUBSET Nat /\ IsFiniteSet(capsules)
      /\ CapsTyped' /\ capsules' \in SUBSET Nat /\ IsFiniteSet(capsules')
  BY CapsTypes DEF CapsInv, CapsTyped
<1>r. \A c \in Requests : /\ req[c].todo \in SUBSET Nat /\ req[c].keep \in Nat
                          /\ req'[c].todo \in SUBSET Nat /\ req'[c].keep \in Nat
  BY <1>t, RecordsOfCalls DEF CapsTyped
<1>1. ASSUME NEW c \in Requests, Caps!Ask(c) PROVE NewestSpared'
  <2>1. PICK kind \in {"capture", "restore", "clean"} : CallAsked(c, kind)
    BY <1>1, Asking
  <2> QED
    BY <1>t, <2>1 DEF NewestSpared, CallAsked
<1>2. ASSUME NEW c \in Requests, Moved(c) PROVE NewestSpared'
  BY <1>t, <1>2 DEF NewestSpared, Moved, SameCall
<1>3. ASSUME NEW c \in Requests, CallEnded(c) PROVE NewestSpared'
  <2>1. capsules \subseteq capsules'
    BY <1>3 DEF CallEnded
  <2>2. ASSUME NEW d \in Requests, req'[d].pc = "removing", NEW x \in req'[d].todo
        PROVE  Cardinality(NewerThan(x, capsules')) >= req'[d].keep
    <3>1. req'[d] = req[d]
      BY <1>3, <2>2 DEF CallEnded, SameCall
    <3>2. Cardinality(NewerThan(x, capsules)) >= req[d].keep
      BY <1>t, <2>2, <3>1 DEF NewestSpared
    <3> QED
      <4>1. PICK S \in SUBSET Nat, T \in SUBSET Nat, z \in Nat : S = capsules /\ T = capsules' /\ z = x
        BY <1>t, <1>r, <2>2
      <4>2. /\ Cardinality(NewerThan(z, S)) <= Cardinality(NewerThan(z, T))
            /\ Cardinality(NewerThan(z, S)) \in Nat /\ Cardinality(NewerThan(z, T)) \in Nat
        BY <1>t, <2>1, <4>1, MoreNewer
      <4> QED
        BY <1>r, <3>1, <3>2, <4>1, <4>2
  <2>3. \A d \in Requests : req'[d].pc = "removing" => req'[d] = req[d]
    BY <1>3 DEF CallEnded, SameCall
  <2> QED
    BY <1>t, <2>2, <2>3 DEF NewestSpared
<1>4. ASSUME NEW c \in Requests, Listed(c) PROVE NewestSpared'
  <2>1. IsFiniteSet(req'[c].todo)
    <3>1. req'[c].todo \subseteq capsules
      BY <1>4 DEF Listed
    <3> QED
      BY <1>t, <3>1, FS_Subset
  <2> QED
    BY <1>t, <1>4, <2>1 DEF NewestSpared, Listed, SameCall
<1>5. ASSUME NEW c \in Requests, NEW x \in Nat, Removed(c, x) PROVE NewestSpared'
  <2>1. ASSUME NEW d \in Requests \ {c} PROVE req'[d].pc # "removing"
    <3>1. req'[d] = req[d] /\ Under(req[c]) /\ req[c].kind = "clean"
      BY <1>5 DEF Removed, SameCall, Caps!Is, Under
    <3>2. req[d].pc = "removing" => Under(req[d]) /\ req[d].kind = "clean"
      BY DEF CapsInv, Staged, StageOf, Under
    <3> QED
      BY <3>1, <3>2, OneUnder DEF LineOf
  <2>2. ASSUME NEW y \in req[c].todo \ {x} PROVE Cardinality(NewerThan(y, capsules \ {x})) >= req[c].keep
    <3>1. x \in req[c].todo /\ y \in Nat /\ y # x
      BY <1>5, <1>r, <2>2 DEF Removed
    <3>2. ~(y > x)
      <4>1. NewerThan(x, req[c].todo) \subseteq req[c].todo /\ req[c].todo \in SUBSET Nat
        BY <1>r DEF NewerThan
      <4>2. y > x => y \in NewerThan(x, req[c].todo)
        BY <2>2 DEF NewerThan
      <4>3. NewerThan(x, req[c].todo) = {}
        <5>1. IsFiniteSet(req[c].todo)
          BY <1>5, <1>t DEF Removed, Caps!Is, NewestSpared
        <5>2. IsFiniteSet(NewerThan(x, req[c].todo))
          BY <4>1, <5>1, FS_Subset
        <5> QED
          BY <1>5, <5>2, FS_EmptySet DEF Removed
      <4> QED
        BY <4>2, <4>3
    <3>3. Cardinality(NewerThan(x, capsules)) >= req[c].keep
      BY <1>5, <1>t, <3>1 DEF NewestSpared, Removed, Caps!Is
    <3>o. ASSUME NEW z \in capsules, z > x PROVE z > y /\ z # x
      BY ONLY <1>t, <3>1, <3>2, <3>o, SMTT(30)
    <3>4. NewerThan(x, capsules) \subseteq NewerThan(y, capsules \ {x})
          /\ NewerThan(y, capsules \ {x}) \subseteq capsules
      BY <3>o DEF NewerThan
    <3>5. IsFiniteSet(NewerThan(y, capsules \ {x}))
      BY <1>t, <3>4, FS_Subset
    <3>6. IsFiniteSet(NewerThan(x, capsules))
          /\ Cardinality(NewerThan(x, capsules)) <= Cardinality(NewerThan(y, capsules \ {x}))
      BY <3>4, <3>5, FS_Subset
    <3>7. Cardinality(NewerThan(x, capsules)) \in Nat /\ Cardinality(NewerThan(y, capsules \ {x})) \in Nat
      BY <3>5, <3>6, FS_CardinalityType
    <3> QED
      BY <1>r, <3>3, <3>6, <3>7
  <2>3. /\ capsules' = capsules \ {x} /\ req'[c].todo = req[c].todo \ {x} /\ req'[c].keep = req[c].keep
    BY <1>5 DEF Removed, SameCall
  <2>4. IsFiniteSet(req[c].todo \ {x})
    <3>1. IsFiniteSet(req[c].todo)
      BY <1>5, <1>t DEF Removed, Caps!Is, NewestSpared
    <3> QED
      BY <3>1, FS_RemoveElement
  <2> QED
    BY <2>1, <2>2, <2>3, <2>4 DEF NewestSpared
<1>6. ASSUME NEW cs \in SUBSET Requests, Interrupted(cs) PROVE NewestSpared'
  <2>1. /\ UNCHANGED capsules
        /\ \A c \in Requests : /\ req'[c].pc = req[c].pc /\ req'[c].todo = req[c].todo
                               /\ req'[c].keep = req[c].keep
    BY <1>6, Interruption DEF Interrupted
  <2> QED
    BY <1>t, <2>1 DEF NewestSpared
<1>7. ASSUME Caps!Switch PROVE NewestSpared'
  BY <1>t, <1>7 DEF NewestSpared, Caps!Switch
<1> QED
  BY <1>1, <1>2, <1>3, <1>4, <1>5, <1>6, <1>7, CapsSteps

LEMMA LastStep == ASSUME CapsInv, Caps!Next PROVE LastShown'
<1>t. /\ CapsTyped /\ LastShown /\ cleanups \in Nat /\ activity.of = cleanups
      /\ activity \in Activities
      /\ \A c \in Requests : /\ StageOf(req[c]) /\ req[c].sequence \in Nat
                             /\ req[c].answer \in {"none", "ok", "failed", "uncertain"}
  BY RecordsOfCalls DEF CapsInv, CapsTyped, Staged, LastShown
<1>1. ASSUME NEW c \in Requests, Caps!Ask(c) PROVE LastShown'
  <2>1. PICK kind \in {"capture", "restore", "clean"} : CallAsked(c, kind)
    BY <1>1, Asking
  <2>2. CASE kind = "clean"
    <3>1. /\ cleanups' = cleanups + 1 /\ activity'.of = cleanups' /\ activity'.status = "running"
          /\ req'[c].sequence = cleanups' /\ req'[c].answer = "none" /\ req'[c].pc = "queued"
          /\ \A d \in Requests \ {c} : req'[d] = req[d]
      BY <2>1, <2>2 DEF CallAsked
    <3>2. \A d \in Requests \ {c} : req[d].kind = "clean" =>
            req[d].sequence <= cleanups /\ req[d].sequence < cleanups' /\ req[d].pc # "idle"
      BY <1>t, <3>1 DEF LastShown
    <3> QED
      BY <1>t, <3>1, <3>2 DEF LastShown
  <2>3. CASE kind # "clean"
    <3>1. /\ UNCHANGED <<cleanups, activity>> /\ req'[c].kind # "clean"
          /\ \A d \in Requests \ {c} : req'[d] = req[d]
      BY <2>1, <2>3 DEF CallAsked
    <3> QED
      BY <1>t, <3>1 DEF LastShown
  <2> QED
    BY <2>2, <2>3
<1>2. ASSUME NEW c \in Requests, Moved(c) \/ Listed(c) \/ \E x \in Nat : Removed(c, x) PROVE LastShown'
  <2>1. /\ UNCHANGED <<cleanups, activity>> /\ \A d \in Requests \ {c} : req'[d] = req[d]
        /\ req'[c].kind = req[c].kind /\ req'[c].sequence = req[c].sequence
        /\ req'[c].answer = req[c].answer /\ req'[c].pc # "idle"
    BY <1>2 DEF Moved, Listed, Removed, SameCall, Caps!Is
  <2> QED
    BY <1>t, <2>1 DEF LastShown
<1>3. ASSUME NEW c \in Requests, CallEnded(c) PROVE LastShown'
  <2>1. /\ UNCHANGED cleanups /\ \A d \in Requests \ {c} : req'[d] = req[d]
        /\ req'[c].kind = req[c].kind /\ req'[c].sequence = req[c].sequence /\ req'[c].pc = "over"
    BY <1>3 DEF CallEnded, SameCall
  <2>2. req[c].kind = "clean" /\ req[c].sequence = cleanups =>
          /\ activity'.of = cleanups
          /\ activity'.status = "running" <=> req'[c].answer = "none"
          /\ activity'.status = "completed" <=> req'[c].answer = "ok"
    <3> SUFFICES ASSUME req[c].kind = "clean", req[c].sequence = cleanups
                 PROVE  /\ activity'.of = cleanups
                        /\ activity'.status = "running" <=> req'[c].answer = "none"
                        /\ activity'.status = "completed" <=> req'[c].answer = "ok"
      OBVIOUS
    <3>1. /\ req[c].answer = "none" <=> ~req[c].aborted
          /\ req[c].answer # "ok" /\ req[c].pc \notin {"applying", "linking"}
      BY <1>3, <1>t DEF CallEnded, StageOf, Begun
    <3>2. \A s \in {"failed", "cancelled", "completed"} :
            Caps!Report(c, s) => activity'.of = cleanups /\ activity'.status = s
      BY <1>t DEF Caps!Report, Caps!Shown
    <3>3. Caps!Refusal(c) = "failed"
      BY DEF Caps!Refusal, Caps!Is
    <3> QED
      BY <1>3, <1>t, <3>1, <3>2, <3>3 DEF CallEnded, Caps!First, Caps!Fit
  <2>3. ~(req[c].kind = "clean" /\ req[c].sequence = cleanups) => UNCHANGED activity
    <3>1. req[c].kind = "clean" /\ req[c].sequence # cleanups => req[c].sequence < activity.of
      BY <1>t DEF LastShown
    <3>2. \A s : Caps!Report(c, s) /\ ~(req[c].kind = "clean" /\ req[c].sequence = cleanups) => UNCHANGED activity
      BY <3>1 DEF Caps!Report, Caps!Shown
    <3> QED
      BY <1>3, <3>2 DEF CallEnded
  <2>4. activity'.of = cleanups
    BY <1>t, <2>2, <2>3
  <2>5. ASSUME NEW d \in Requests \ {c}, req[c].kind = "clean", req[c].sequence = cleanups
        PROVE  ~(req[d].kind = "clean" /\ req[d].sequence = cleanups)
    BY <1>t, <2>5 DEF LastShown
  <2>6. \A d \in Requests : req'[d].kind = "clean" =>
          /\ req'[d].sequence <= cleanups' /\ req'[d].pc # "idle"
          /\ req'[d].sequence = cleanups' =>
                /\ activity'.status = "running" <=> req'[d].answer = "none"
                /\ activity'.status = "completed" <=> req'[d].answer = "ok"
    BY <1>t, <2>1, <2>2, <2>3, <2>5 DEF LastShown
  <2> QED
    BY <1>t, <2>1, <2>4, <2>6 DEF LastShown
<1>4. ASSUME NEW cs \in SUBSET Requests, Interrupted(cs) PROVE LastShown'
  <2>1. UNCHANGED cleanups
    BY <1>4 DEF Interrupted
  <2>2. \A c \in Requests : /\ req'[c].kind = req[c].kind /\ req'[c].sequence = req[c].sequence
                            /\ req'[c].pc = req[c].pc
    BY <1>4, Interruption
  <2>3. \A c \in cs : req[c].answer = "none" /\ req'[c].answer \in {"uncertain", "failed"}
    BY <1>4, Interruption
  <2>4. \A c \in Requests \ cs : req'[c].answer = req[c].answer
    BY <1>4, Interruption
  <2>5. activity' = IF \E c \in cs : req[c].kind = "clean" /\ req[c].sequence = cleanups
                    THEN [activity EXCEPT !.status = "cancelled"] ELSE activity
    BY <1>4, <1>t, <2>3 DEF Interrupted, Caps!Cancelled
  <2>6. activity'.of = cleanups
    BY <1>t, <2>5 DEF Activities
  <2>7. ASSUME NEW c \in Requests, req[c].kind = "clean", req[c].sequence = cleanups
        PROVE  /\ activity'.status = "running" <=> req'[c].answer = "none"
               /\ activity'.status = "completed" <=> req'[c].answer = "ok"
    <3>1. CASE c \in cs
      <4>1. activity'.status = "cancelled"
        BY <1>t, <2>5, <2>7, <3>1 DEF Activities
      <4> QED
        BY <2>3, <3>1, <4>1
    <3>2. CASE c \notin cs
      <4>1. \A d \in cs : ~(req[d].kind = "clean" /\ req[d].sequence = cleanups)
        BY <1>t, <2>7, <3>2 DEF LastShown
      <4> QED
        BY <1>t, <2>4, <2>5, <2>7, <3>2, <4>1 DEF LastShown
    <3> QED
      BY <3>1, <3>2
  <2> QED
    BY <1>t, <2>1, <2>2, <2>6, <2>7 DEF LastShown
<1>5. ASSUME Caps!Switch PROVE LastShown'
  BY <1>t, <1>5 DEF LastShown, Caps!Switch
<1> QED
  BY <1>1, <1>2, <1>3, <1>4, <1>5, CapsSteps

LEMMA CapsStep == ASSUME CapsInv, Caps!Next PROVE CapsInv'
BY CapsTypes, StagedStep, ChainedStep, RoomStep, NewestStep, LastStep DEF CapsInv

LEMMA CapsStay == ASSUME CapsInv, UNCHANGED caps PROVE CapsInv'
<1>1. UNCHANGED <<workspace, capsules, clock, line, gone, req, cleanups, activity>>
  BY DEF caps
<1> QED
  BY <1>1 DEF CapsInv, CapsTyped, Staged, Chained, RoomLeft, NewestSpared, LastShown

\* What is said of a capture or a restore is true, the directory can be listed,
\* and the panel shows the last cleanup.
LEMMA CapsSound == ASSUME CapsInv PROVE Caps!ToldTrue /\ Caps!InventoryUsable /\ Caps!CleanupShown
<1>1. Caps!ToldTrue
  BY DEF CapsInv, Staged, StageOf, Caps!ToldTrue
<1>2. Caps!InventoryUsable
  BY Counting DEF CapsInv, RoomLeft, Caps!InventoryUsable
<1>3. Caps!CleanupShown
  BY DEF CapsInv, LastShown, Caps!CleanupShown
<1> QED
  BY <1>1, <1>2, <1>3

\* A step writes to the workspace, and removes capsules, only where it may.
LEMMA CapsActs ==
    ASSUME CapsInv, Caps!Next
    PROVE  /\ \A c \in Requests :
                 /\ ~Caps!Is(c, "restore", "applying") /\ req'[c].pc = "applying" =>
                       req[c].answer = "none" /\ "capsule" \notin gone /\ req[c].for = workspace
                 /\ capsules' \subseteq capsules /\ Caps!Is(c, "clean", "removing") /\ req'[c].todo # req[c].todo =>
                       req[c].answer = "none" /\ "cleaner" \notin gone
           /\ \A c \in Requests : \A x \in capsules \ capsules' :
                 req'[c].todo # req[c].todo => Caps!Newer(x, capsules) >= req[c].keep
<1>t. /\ CapsTyped /\ NewestSpared
      /\ \A c \in Requests : StageOf(req[c]) /\ (Begun(req[c]) /\ ~req[c].aborted => LineOf(req[c]) \notin gone)
  BY DEF CapsInv, Staged
<1> DEFINE Fine(c) ==
       /\ ~Caps!Is(c, "restore", "applying") /\ req'[c].pc = "applying" =>
             req[c].answer = "none" /\ "capsule" \notin gone /\ req[c].for = workspace
       /\ capsules' \subseteq capsules /\ Caps!Is(c, "clean", "removing") /\ req'[c].todo # req[c].todo =>
             req[c].answer = "none" /\ "cleaner" \notin gone
       /\ \A x \in capsules \ capsules' : req'[c].todo # req[c].todo => Caps!Newer(x, capsules) >= req[c].keep
<1>0. \A c \in Requests : req'[c] = req[c] => Fine(c)
  BY <1>t DEF StageOf, Caps!Is
<1>1. ASSUME NEW c \in Requests, Caps!Ask(c) PROVE \A d \in Requests : Fine(d)
  <2>1. PICK kind \in {"capture", "restore", "clean"} : CallAsked(c, kind)
    BY <1>1, Asking
  <2>2. Fine(c)
    BY <2>1 DEF CallAsked, Caps!Is
  <2> QED
    BY <1>0, <2>1, <2>2 DEF CallAsked
<1>2. ASSUME NEW c \in Requests, Moved(c) PROVE \A d \in Requests : Fine(d)
  <2>1. UNCHANGED capsules /\ req'[c].todo = req[c].todo /\ \A d \in Requests \ {c} : req'[d] = req[d]
    BY <1>2 DEF Moved, SameCall
  <2>2. req'[c].pc = "applying" =>
          req[c].answer = "none" /\ "capsule" \notin gone /\ req[c].for = workspace
    BY <1>2, <1>t DEF Moved, StageOf, Begun, LineOf, Caps!Plugin, Caps!Fit, Caps!Is
  <2> QED
    BY <1>0, <2>1, <2>2
<1>3. ASSUME NEW c \in Requests, CallEnded(c) \/ Listed(c) PROVE \A d \in Requests : Fine(d)
  <2>1. /\ capsules \subseteq capsules' /\ req'[c].pc # "applying"
        /\ (Caps!Is(c, "clean", "removing") => req'[c].todo = req[c].todo)
        /\ \A d \in Requests \ {c} : req'[d] = req[d]
    BY <1>3 DEF CallEnded, Listed, SameCall, Caps!Is
  <2> QED
    BY <1>0, <2>1
<1>4. ASSUME NEW c \in Requests, NEW x \in Nat, Removed(c, x) PROVE \A d \in Requests : Fine(d)
  <2>1. /\ capsules' = capsules \ {x} /\ req'[c].pc = "removing" /\ x \in req[c].todo
        /\ ~req[c].aborted /\ req[c].kind = "clean" /\ req[c].pc = "removing"
        /\ \A d \in Requests \ {c} : req'[d] = req[d]
    BY <1>4 DEF Removed, SameCall, Caps!Is, Caps!Fit
  <2>2. req[c].answer = "none" /\ "cleaner" \notin gone
    BY <1>t, <2>1 DEF StageOf, Begun, LineOf, Caps!Plugin
  <2>3. \A y \in capsules \ capsules' : Caps!Newer(y, capsules) >= req[c].keep
    BY <1>t, <2>1, Counting DEF NewestSpared
  <2> QED
    BY <1>0, <2>1, <2>2, <2>3
<1>5. ASSUME NEW cs \in SUBSET Requests, Interrupted(cs) PROVE \A d \in Requests : Fine(d)
  <2>1. UNCHANGED capsules
        /\ \A c \in Requests : req'[c].pc = req[c].pc /\ req'[c].todo = req[c].todo
    BY <1>5, Interruption DEF Interrupted
  <2> QED
    BY <1>t, <2>1 DEF StageOf, Caps!Is
<1>6. ASSUME Caps!Switch PROVE \A d \in Requests : Fine(d)
  BY <1>0, <1>6 DEF Caps!Switch
<1> HIDE DEF Fine
<1>7. \A c \in Requests : Fine(c)
  BY <1>1, <1>2, <1>3, <1>4, <1>5, <1>6, CapsSteps
<1> QED
  BY <1>7 DEF Fine
=============================================================================
