------------------------- MODULE GatewayFilesProofs -------------------------
(* Proofs about the files that requests of the gateway change: the session    *)
(* files and their metadata (SessionStore), the workspace (WorkspaceChanges)  *)
(* and the plugins (Marketplace).  Each part has an invariant, StoreInv,      *)
(* WorkInv and MarketInv, that holds at the start, that its steps keep and    *)
(* that nothing else disturbs; ...Sound and ...Acts draw from it what the     *)
(* gateway promises.                                                          *)
EXTENDS GatewayFiles, SequencesExt, FiniteSetTheorems, SequenceTheorems, TLAPS

-----------------------------------------------------------------------------
(* The session files                                                         *)

\* A job of the chain belongs to the one handler that awaits it; only the first
\* has begun, and what it read is still the map.
ChainInv ==
    /\ \A j \in DOMAIN queue :
          /\ queue[j].entry = "absent" => hand[queue[j].owner].gone = queue[j].paths
          /\ hand[queue[j].owner].pc = IF queue[j].entry = "absent" THEN "clearing" ELSE "pinning"
          /\ queue[j].read => j = 1 /\ queue[j].copy = meta
    /\ \A i, j \in DOMAIN queue : queue[i].owner = queue[j].owner => i = j

\* Where the paths of each handler may lie.
HandlerInv ==
    \A h \in Handlers :
        /\ hand[h].pc \in {"switching", "unlinking"} => hand[h].paths \subseteq used
        /\ hand[h].pc = "unlinking" => active \notin hand[h].paths
        /\ hand[h].gone \subseteq used /\ active \notin hand[h].gone /\ hand[h].gone \cap files = {}
        /\ hand[h].pc \notin {"unlinking", "clearing"} => hand[h].gone = {}
        /\ hand[h].pc \in {"opening", "forked", "staging", "published", "cleaning"} =>
              hand[h].paths \cap deleted = {}
        /\ hand[h].pc \in {"forked", "staging", "published", "cleaning"} =>
              (hand[h].paths \ {active}) \cap broken = {}
        /\ hand[h].pc \in {"forked", "staging", "published"} => active \notin hand[h].paths

\* A deleted path has no file, no entry, and no job that would make one, nor has
\* a path whose removal is in the chain one behind it.
DeletedInv ==
    /\ active \in used /\ deleted \subseteq used /\ broken \subseteq used
    /\ active \notin deleted /\ files \cap deleted = {}
    /\ \A p \in deleted : meta[p] = "absent"
    /\ \A j \in DOMAIN queue : \A p \in queue[j].paths \cap deleted : queue[j].entry = "absent"
    /\ \A i, j \in DOMAIN queue :
          i < j /\ queue[i].entry = "absent" =>
             \A p \in queue[i].paths \cap queue[j].paths : queue[j].entry = "absent"

\* The map and the history of confirmed requests change together.
MetaInv == \A p \in Paths \ deleted : meta[p] = lastPin[p]

FileInv == Files!ActiveFileKept /\ Files!EveryFileOpens

StoreInv == Files!TypeOK /\ ChainInv /\ HandlerInv /\ DeletedInv /\ MetaInv /\ FileInv

-----------------------------------------------------------------------------
(* Handlers and the chain                                                    *)

\* Every handler but h is where it was.
Others(h) == \A g \in Handlers \ {h} : hand'[g] = hand[g]

LEMMA HandGoes ==
    ASSUME Files!TypeOK, NEW h \in Handlers, NEW pc \in Files!Steps, Files!Go(h, pc)
    PROVE  /\ hand' \in [Handlers -> Files!Handler] /\ Others(h)
           /\ hand'[h].pc = pc /\ hand'[h].paths = hand[h].paths /\ hand'[h].gone = hand[h].gone
BY DEF Files!TypeOK, Files!Go, Others, Files!Handler

LEMMA HandBecomes ==
    ASSUME Files!TypeOK, NEW h \in Handlers, NEW pc \in Files!Steps, NEW ps \in SUBSET Paths,
           Files!Become(h, pc, ps)
    PROVE  /\ hand' \in [Handlers -> Files!Handler] /\ Others(h)
           /\ hand'[h].pc = pc /\ hand'[h].paths = ps /\ hand'[h].gone = {}
BY DEF Files!TypeOK, Files!Become, Others, Files!Handler

LEMMA ChainIndex ==
    ASSUME Files!TypeOK
    PROVE  /\ Len(queue) \in Nat /\ DOMAIN queue = 1 .. Len(queue)
           /\ \A j \in DOMAIN queue : queue[j] \in Files!Job /\ queue[j].owner \in Handlers
                                       /\ queue[j].paths \in SUBSET Paths /\ queue[j].entry \in Files!Entries
<1>1. queue \in Seq(Files!Job)
  BY DEF Files!TypeOK
<1>2. Len(queue) \in Nat /\ DOMAIN queue = 1 .. Len(queue)
  BY <1>1, LenProperties
<1>3. \A j \in DOMAIN queue : queue[j] \in Files!Job
  BY <1>1, <1>2, ElementOfSeq
<1> QED
  BY <1>2, <1>3 DEF Files!Job

\* A handler that awaits no job moves: the chain is as it was.
LEMMA ChainStays ==
    ASSUME Files!TypeOK, ChainInv, NEW h \in Handlers, hand[h].pc \notin {"pinning", "clearing"},
           Others(h), UNCHANGED <<queue, meta>>
    PROVE  ChainInv'
BY ChainIndex DEF ChainInv, Others

LEMMA ChainSame ==
    ASSUME ChainInv, UNCHANGED <<queue, meta, hand>>
    PROVE  ChainInv'
BY DEF ChainInv

\* h appends a job and awaits it.
LEMMA ChainEnqueued ==
    ASSUME Files!TypeOK, ChainInv, NEW h \in Handlers, NEW ps \in SUBSET Paths,
           NEW e \in Files!Entries, Files!Enqueue(h, ps, e), hand[h].pc \notin {"pinning", "clearing"},
           Others(h), e = "absent" => hand'[h].gone = ps, hand'[h].pc = IF e = "absent" THEN "clearing" ELSE "pinning",
           UNCHANGED meta
    PROVE  /\ queue' \in Seq(Files!Job) /\ ChainInv'
           /\ DOMAIN queue' = 1 .. Len(queue) + 1
           /\ \A j \in DOMAIN queue : queue'[j] = queue[j]
           /\ queue'[Len(queue) + 1].paths = ps /\ queue'[Len(queue) + 1].entry = e
<1> DEFINE mutation == [owner |-> h, paths |-> ps, entry |-> e, read |-> FALSE, copy |-> Files!Unset]
<1>1. mutation \in Files!Job
  BY DEF Files!Job, Files!MetaMap, Files!Unset, Files!Entries
<1>2. queue \in Seq(Files!Job) /\ queue' = Append(queue, mutation)
  BY DEF Files!TypeOK, Files!Enqueue
<1> HIDE DEF mutation
<1>3. /\ queue' \in Seq(Files!Job) /\ Len(queue') = Len(queue) + 1
      /\ \A j \in 1 .. Len(queue) : queue'[j] = queue[j]
      /\ queue'[Len(queue) + 1] = mutation
  BY <1>1, <1>2, AppendProperties
<1>4. DOMAIN queue' = 1 .. Len(queue) + 1
  BY <1>3, LenProperties
<1>5. mutation.paths = ps /\ mutation.entry = e /\ mutation.owner = h /\ ~mutation.read
  BY DEF mutation
<1>6. \A j \in DOMAIN queue : queue[j].owner # h
  BY ChainIndex DEF ChainInv
<1>7. ChainInv'
  BY <1>3, <1>4, <1>5, <1>6, ChainIndex DEF ChainInv, Others
<1> QED
  BY <1>3, <1>4, <1>5, <1>7, ChainIndex

\* The first job leaves the chain.
LEMMA ChainPopped ==
    ASSUME Files!TypeOK, 1 \in DOMAIN queue, queue' = Files!RemoveAt(queue, 1)
    PROVE  /\ queue' \in Seq(Files!Job)
           /\ DOMAIN queue' = 1 .. Len(queue) - 1
           /\ \A j \in DOMAIN queue' : j + 1 \in DOMAIN queue /\ queue'[j] = queue[j + 1]
<1>1. queue \in Seq(Files!Job) /\ Len(queue) \in Nat \ {0} /\ DOMAIN queue = 1 .. Len(queue)
  BY ChainIndex DEF Files!TypeOK
<1>2. queue' = SubSeq(queue, 1, 0) \o SubSeq(queue, 2, Len(queue))
  BY DEF Files!RemoveAt
<1>3. SubSeq(queue, 1, 0) = << >>
  BY <1>1, SubSeqProperties, EmptySeq
<1>4. /\ SubSeq(queue, 2, Len(queue)) \in Seq(Files!Job)
      /\ Len(SubSeq(queue, 2, Len(queue))) = Len(queue) - 1
      /\ \A j \in 1 .. Len(queue) - 1 : SubSeq(queue, 2, Len(queue))[j] = queue[j + 1]
  BY <1>1, SubSeqProperties
<1>5. queue' = SubSeq(queue, 2, Len(queue))
  BY <1>2, <1>3, <1>4, ConcatEmptySeq
<1>6. DOMAIN queue' = 1 .. Len(queue) - 1
  BY <1>4, <1>5, LenProperties
<1>7. \A j \in 1 .. Len(queue) - 1 : j + 1 \in 1 .. Len(queue) /\ queue'[j] = queue[j + 1]
  BY <1>1, <1>4, <1>5
<1> QED
  BY <1>1, <1>4, <1>5, <1>6, <1>7

-----------------------------------------------------------------------------
(* The initial states                                                       *)

LEMMA StoreBegins == ASSUME Files!Init PROVE StoreInv
<1>1. queue = << >> /\ DOMAIN queue = {}
  BY DEF Files!Init
<1>2. Files!TypeOK
  <2>1. << >> \in Seq(Files!Job)
    BY EmptySeq
  <2>2. hand \in [Handlers -> Files!Handler] /\ Files!SlotOwned
    BY FilesAssumption
       DEF Files!Init, Files!NobodyAssumption, Files!Handler, Files!Steps, Files!SlotOwned
  <2> QED
    BY <2>1, <2>2 DEF Files!Init, Files!TypeOK, Files!MetaMap, Files!Unset, Files!Entries
<1>3. ChainInv /\ HandlerInv /\ DeletedInv
  BY <1>1 DEF Files!Init, ChainInv, HandlerInv, DeletedInv
<1>4. MetaInv /\ FileInv
  BY DEF Files!Init, MetaInv, FileInv, Files!ActiveFileKept, Files!EveryFileOpens
<1> QED
  BY <1>2, <1>3, <1>4 DEF StoreInv

-----------------------------------------------------------------------------
(* The chain runs                                                           *)

LEMMA JobReads ==
    ASSUME StoreInv, NEW j \in DOMAIN queue, Files!JobRead(j)
    PROVE  StoreInv'
<1> USE DEF StoreInv
<1>1. j = 1
  BY DEF Files!JobRead, Files!MayRun
<1> DEFINE mutation == [queue[1] EXCEPT !.read = TRUE, !.copy = meta]
<1>2. mutation \in Files!Job /\ mutation.owner = queue[1].owner /\ mutation.paths = queue[1].paths
      /\ mutation.entry = queue[1].entry /\ mutation.copy = meta
  BY <1>1, ChainIndex DEF Files!Job, Files!TypeOK
<1>3. queue' = [queue EXCEPT ![1] = mutation]
  BY <1>1, ChainIndex DEF Files!JobRead, Files!Job
<1> HIDE DEF mutation
<1>4. /\ queue' \in Seq(Files!Job) /\ DOMAIN queue' = DOMAIN queue
      /\ queue'[1] = mutation /\ \A i \in DOMAIN queue \ {1} : queue'[i] = queue[i]
  BY <1>1, <1>2, <1>3, ChainIndex, ExceptSeq, LenProperties DEF Files!TypeOK
<1>5. Files!TypeOK'
  BY <1>4
     DEF Files!TypeOK, Files!SlotOwned, Files!JobRead, Files!sessions, Files!disk, Files!history
<1>6. ChainInv'
  BY <1>1, <1>2, <1>4 DEF ChainInv, Files!JobRead
<1>7. HandlerInv' /\ MetaInv' /\ FileInv'
  BY DEF HandlerInv, MetaInv, FileInv, Files!ActiveFileKept, Files!EveryFileOpens, Files!JobRead,
         Files!sessions, Files!disk, Files!history
<1>8. DeletedInv'
  BY <1>1, <1>2, <1>4 DEF DeletedInv, Files!JobRead, Files!sessions, Files!disk, Files!history
<1> QED
  BY <1>5, <1>6, <1>7, <1>8

\* The owner of the first job goes on, with or without its effect.
LEMMA ChainEnded ==
    ASSUME Files!TypeOK, ChainInv, 1 \in DOMAIN queue, queue' = Files!RemoveAt(queue, 1),
           Others(queue[1].owner)
    PROVE  /\ \A j \in DOMAIN queue' : hand'[queue'[j].owner] = hand[queue'[j].owner] /\ ~queue'[j].read
           /\ ChainInv'
<1>1. \A j \in DOMAIN queue' : queue'[j].owner \in Handlers \ {queue[1].owner}
  BY ChainPopped, ChainIndex DEF ChainInv
<1>2. \A j \in DOMAIN queue' : ~queue'[j].read
  BY ChainPopped, ChainIndex DEF ChainInv
<1>3. \A j \in DOMAIN queue' : hand'[queue'[j].owner] = hand[queue'[j].owner]
  BY <1>1 DEF Others
<1>4. ChainInv'
  BY <1>2, <1>3, ChainPopped, ChainIndex DEF ChainInv
<1> QED
  BY <1>2, <1>3, <1>4

LEMMA JobWrites ==
    ASSUME StoreInv, NEW j \in DOMAIN queue, Files!JobWrite(j)
    PROVE  StoreInv'
<1> USE DEF StoreInv
<1> DEFINE h == queue[1].owner
           ps == queue[1].paths
           e == queue[1].entry
<1>1. j = 1 /\ h \in Handlers /\ ps \in SUBSET Paths /\ e \in Files!Entries /\ queue[1] \in Files!Job
  BY ChainIndex DEF Files!JobWrite, Files!MayRun
<1>2. queue' = Files!RemoveAt(queue, 1) /\ meta' = Files!Set(meta, ps, e)
  BY <1>1 DEF Files!JobWrite, ChainInv
<1>3. /\ hand[h].pc = IF e = "absent" THEN "clearing" ELSE "pinning"
      /\ e = "absent" => hand[h].gone = ps
      /\ Files!Become(h, IF e = "absent" THEN "ending" ELSE "idle", {})
      /\ deleted' = IF e = "absent" THEN deleted \cup ps ELSE deleted
      /\ lastPin' = IF e = "absent" THEN lastPin ELSE Files!Set(lastPin, ps, e)
  BY <1>1 DEF Files!JobWrite, Files!Confirm, Files!Ends, ChainInv
<1> HIDE DEF h, ps, e
<1>4. /\ hand' \in [Handlers -> Files!Handler] /\ Others(h) /\ hand'[h].paths = {} /\ hand'[h].gone = {}
      /\ hand'[h].pc = IF e = "absent" THEN "ending" ELSE "idle"
  BY <1>1, <1>3, HandBecomes DEF Files!Steps
<1>5. UNCHANGED <<active, flushed, used, files, broken, slot, foreign>>
  BY DEF Files!JobWrite, Files!sessions, Files!disk
<1>6. Files!TypeOK'
  <2>1. Files!SlotOwned'
    BY <1>1, <1>3, <1>4, <1>5 DEF Files!TypeOK, Files!SlotOwned, Others
  <2>2. meta' \in Files!MetaMap /\ lastPin' \in Files!MetaMap /\ deleted' \subseteq Paths
    BY <1>1, <1>2, <1>3 DEF Files!TypeOK, Files!MetaMap, Files!Set
  <2> QED
    BY <1>1, <1>2, <1>4, <1>5, <2>1, <2>2, ChainPopped DEF Files!TypeOK
<1>7. ChainInv'
  BY <1>1, <1>2, <1>4, ChainEnded DEF h
<1>8. HandlerInv'
  <2>1. \A g \in Handlers \ {h} : hand'[g] = hand[g]
    BY <1>4 DEF Others
  <2>2. \A g \in Handlers \ {h} :
          e = "absent" => hand[g].pc \in {"idle", "pinning"}
    BY <1>1, <1>3 DEF Files!TypeOK, Files!SlotOwned
  <2> QED
    BY <1>1, <1>3, <1>4, <1>5, <2>1, <2>2 DEF HandlerInv
<1>9. DeletedInv'
  <2>1. e = "absent" => ps \subseteq used /\ active \notin ps /\ ps \cap files = {}
    BY <1>1, <1>3 DEF HandlerInv
  <2>2. e # "absent" => ps \cap deleted = {}
    BY <1>1 DEF DeletedInv, ps, e
  <2>3. \A q \in deleted' : meta'[q] = "absent"
    BY <1>1, <1>2, <1>3, <2>2 DEF DeletedInv, Files!TypeOK, Files!MetaMap, Files!Set
  <2>4. \A i \in DOMAIN queue' : \A q \in queue'[i].paths \cap deleted' : queue'[i].entry = "absent"
    <3> TAKE i \in DOMAIN queue'
    <3>1. i + 1 \in DOMAIN queue /\ 1 < i + 1 /\ queue'[i] = queue[i + 1]
      BY <1>1, <1>2, ChainPopped, ChainIndex
    <3> QED
      BY <1>1, <1>3, <3>1 DEF DeletedInv, ps, e
  <2>5. \A i, k \in DOMAIN queue' :
           i < k /\ queue'[i].entry = "absent" =>
              \A q \in queue'[i].paths \cap queue'[k].paths : queue'[k].entry = "absent"
    <3> TAKE i, k \in DOMAIN queue'
    <3>1. /\ i + 1 \in DOMAIN queue /\ k + 1 \in DOMAIN queue /\ i \in Int /\ k \in Int
          /\ queue'[i] = queue[i + 1] /\ queue'[k] = queue[k + 1]
      BY <1>1, <1>2, ChainPopped, ChainIndex
    <3>2. i < k => i + 1 < k + 1
      BY <3>1
    <3> QED
      BY <3>1, <3>2 DEF DeletedInv
  <2> QED
    BY <1>3, <1>5, <2>1, <2>3, <2>4, <2>5 DEF DeletedInv
<1>10. MetaInv'
  BY <1>1, <1>2, <1>3 DEF MetaInv, Files!TypeOK, Files!MetaMap, Files!Set
<1>11. FileInv'
  BY <1>5 DEF FileInv, Files!ActiveFileKept, Files!EveryFileOpens
<1> QED
  BY <1>6, <1>7, <1>8, <1>9, <1>10, <1>11

LEMMA JobFailures ==
    ASSUME StoreInv, NEW j \in DOMAIN queue, Files!JobFails(j)
    PROVE  StoreInv'
<1> USE DEF StoreInv
<1> DEFINE h == queue[1].owner
<1>1. j = 1 /\ h \in Handlers /\ queue' = Files!RemoveAt(queue, 1)
  BY ChainIndex DEF Files!JobFails, Files!MayRun
<1>2. /\ hand[h].pc \in {"clearing", "pinning"}
      /\ Files!Become(h, IF hand[h].pc = "clearing" THEN "ending" ELSE "idle", {})
  BY <1>1 DEF Files!JobFails, ChainInv
<1>3. UNCHANGED <<active, flushed, used, files, broken, meta, slot, lastPin, deleted, foreign>>
  BY DEF Files!JobFails, Files!sessions, Files!disk, Files!history
<1>4. ChainInv' /\ Others(h)
  BY <1>1, <1>2, HandBecomes, ChainEnded DEF Files!Steps
<1> HIDE DEF h
<1>5. /\ hand' \in [Handlers -> Files!Handler] /\ hand'[h].paths = {} /\ hand'[h].gone = {}
      /\ hand'[h].pc = IF hand[h].pc = "clearing" THEN "ending" ELSE "idle"
  BY <1>1, <1>2, HandBecomes DEF Files!Steps
<1>6. Files!TypeOK'
  <2>1. Files!SlotOwned'
    BY <1>1, <1>2, <1>3, <1>4, <1>5 DEF Files!TypeOK, Files!SlotOwned, Others
  <2> QED
    BY <1>1, <1>3, <1>5, <2>1, ChainPopped DEF Files!TypeOK
<1>7. HandlerInv'
  BY <1>1, <1>3, <1>4, <1>5 DEF HandlerInv, Others
<1>8. DeletedInv'
  <2>1. \A i \in DOMAIN queue' : i \in Int /\ i + 1 \in DOMAIN queue /\ queue'[i] = queue[i + 1]
    BY <1>1, ChainPopped, ChainIndex
  <2>2. \A i, k \in DOMAIN queue' : i < k => i + 1 < k + 1
    BY <2>1
  <2> QED
    BY <1>3, <2>1, <2>2 DEF DeletedInv
<1>9. MetaInv' /\ FileInv'
  BY <1>3 DEF MetaInv, FileInv, Files!ActiveFileKept, Files!EveryFileOpens
<1> QED
  BY <1>4, <1>6, <1>7, <1>8, <1>9

LEMMA Pins ==
    ASSUME StoreInv, NEW h \in Handlers, Files!Pin(h)
    PROVE  StoreInv'
<1> USE DEF StoreInv
<1>1. PICK ps \in SUBSET used, e \in {"pinned", "plain"} :
         (\A p \in ps : ~Files!Missing(p)) /\ Files!Enqueue(h, ps, e)
  BY DEF Files!Pin
<1>2. ps \in SUBSET Paths /\ e \in Files!Entries /\ e # "absent" /\ hand[h].pc = "idle"
  BY <1>1 DEF Files!TypeOK, Files!Entries, Files!Pin
<1>3. UNCHANGED <<active, flushed, used, files, broken, meta, slot, lastPin, deleted, foreign>>
  BY DEF Files!Pin, Files!sessions, Files!disk, Files!history
<1>4. /\ hand' \in [Handlers -> Files!Handler] /\ Others(h)
      /\ hand'[h].pc = "pinning" /\ hand'[h].paths = {} /\ hand'[h].gone = {}
  BY HandBecomes DEF Files!Pin, Files!Steps
<1>5. /\ queue' \in Seq(Files!Job) /\ ChainInv'
      /\ DOMAIN queue' = 1 .. Len(queue) + 1
      /\ \A j \in DOMAIN queue : queue'[j] = queue[j]
      /\ queue'[Len(queue) + 1].paths = ps /\ queue'[Len(queue) + 1].entry = e
  BY <1>1, <1>2, <1>3, <1>4, ChainEnqueued
<1>6. Files!TypeOK'
  BY <1>2, <1>3, <1>4, <1>5 DEF Files!TypeOK, Files!SlotOwned, Others
<1>7. HandlerInv'
  BY <1>3, <1>4 DEF HandlerInv, Others
<1>8. DeletedInv'
  <2>1. ps \cap deleted = {}
    BY <1>1 DEF DeletedInv, Files!Missing
  <2>2. \A j \in DOMAIN queue : queue[j].entry = "absent" => queue[j].paths \cap ps = {}
    BY <1>1, ChainIndex DEF ChainInv, HandlerInv, Files!Missing
  <2>3. \A j \in DOMAIN queue' : j \in DOMAIN queue \/ j = Len(queue) + 1
    BY <1>5, ChainIndex
  <2>4. \A i, j \in DOMAIN queue' : i < j => i \in DOMAIN queue
    BY <1>5, ChainIndex
  <2> QED
    BY <1>3, <1>5, <2>1, <2>2, <2>3, <2>4 DEF DeletedInv
<1>9. MetaInv' /\ FileInv'
  BY <1>3 DEF MetaInv, FileInv, Files!ActiveFileKept, Files!EveryFileOpens
<1> QED
  BY <1>5, <1>6, <1>7, <1>8, <1>9

-----------------------------------------------------------------------------
(* Writing the active session's file                                        *)

\* The active session's file appears, or is there already.
LEMMA Materialized ==
    ASSUME StoreInv, files' = files \cup {active}, broken' = broken, flushed' \in BOOLEAN,
           UNCHANGED <<active, used, meta, queue, slot, hand, Files!history>>
    PROVE  StoreInv'
<1> USE DEF StoreInv
<1>1. Files!TypeOK' /\ ChainInv'
  BY DEF Files!TypeOK, Files!SlotOwned, Files!history, ChainInv
<1>2. HandlerInv' /\ DeletedInv'
  BY DEF HandlerInv, DeletedInv, Files!history
<1>3. MetaInv' /\ FileInv'
  BY DEF MetaInv, FileInv, Files!ActiveFileKept, Files!EveryFileOpens, Files!history
<1> QED
  BY <1>1, <1>2, <1>3

LEMMA Persists ==
    ASSUME StoreInv, Files!Persist, UNCHANGED <<active, used, meta, queue, slot, hand, Files!history>>
    PROVE  StoreInv'
<1>1. files' = files \cup {active} /\ broken' = broken /\ flushed' \in BOOLEAN
  BY DEF Files!Persist, Files!disk, StoreInv, Files!TypeOK
<1> QED
  BY <1>1, Materialized

\* A manager that believes in its file has it, unless another process removed it.
LEMMA Appends ==
    ASSUME StoreInv, Files!ClearName
    PROVE  StoreInv'
<1> USE DEF StoreInv
<1>1. /\ UNCHANGED <<active, flushed, used, meta, queue, slot, hand, lastPin, deleted, foreign>>
      /\ files' = IF flushed THEN files \cup {active} ELSE files
      /\ broken' = IF flushed /\ active \notin files THEN broken \cup {active} ELSE broken
  BY DEF Files!ClearName, Files!BareAppend, Files!history
<1>2. Files!TypeOK' /\ ChainInv'
  BY <1>1 DEF Files!TypeOK, Files!SlotOwned, ChainInv
<1>3. HandlerInv' /\ DeletedInv'
  BY <1>1 DEF HandlerInv, DeletedInv
<1>4. MetaInv' /\ FileInv'
  BY <1>1 DEF MetaInv, FileInv, Files!ActiveFileKept, Files!EveryFileOpens
<1> QED
  BY <1>2, <1>3, <1>4

LEMMA Removals ==
    ASSUME StoreInv, Files!OtherConsoleDeletes
    PROVE  StoreInv'
<1> USE DEF StoreInv
<1>1. PICK p \in files : files' = files \ {p} /\ broken' = broken \ {p}
  BY DEF Files!OtherConsoleDeletes
<1>2. foreign' /\ UNCHANGED <<active, flushed, used, meta, queue, slot, hand, lastPin, deleted>>
  BY DEF Files!OtherConsoleDeletes, Files!sessions
<1>3. Files!TypeOK' /\ ChainInv'
  BY <1>1, <1>2 DEF Files!TypeOK, Files!SlotOwned, ChainInv
<1>4. HandlerInv' /\ DeletedInv'
  BY <1>1, <1>2 DEF HandlerInv, DeletedInv
<1>5. MetaInv' /\ FileInv'
  BY <1>2 DEF MetaInv, FileInv, Files!ActiveFileKept, Files!EveryFileOpens
<1> QED
  BY <1>3, <1>4, <1>5

-----------------------------------------------------------------------------
(* The operations, which hold the slot one at a time                        *)

Inside(h) == hand[h].pc \notin {"idle", "pinning"}

\* A handler inside an operation is the only one.
LEMMA Alone ==
    ASSUME Files!TypeOK, NEW h \in Handlers, Inside(h)
    PROVE  slot = h /\ \A g \in Handlers \ {h} : ~Inside(g)
BY DEF Files!TypeOK, Files!SlotOwned, Inside

\* None is inside while the slot is free.
LEMMA Entered ==
    ASSUME Files!TypeOK, NEW h \in Handlers, Files!Enter(h)
    PROVE  slot' = h /\ \A g \in Handlers : ~Inside(g)
BY FilesAssumption DEF Files!TypeOK, Files!SlotOwned, Inside, Files!Enter, Files!NobodyAssumption

LEMMA SwitchTypes == ASSUME NEW p, Files!SwitchTo(p) PROVE flushed' \in BOOLEAN
BY SMT DEF Files!SwitchTo

LEMMA SwitchFinds ==
    ASSUME NEW p, Files!SwitchTo(p)
    PROVE  active' = p /\ used' = used \cup {p} /\ (flushed' => p \in files)
<1>1. active' = p /\ used' = used \cup {p}
  BY DEF Files!SwitchTo
<1>2. flushed' => p \in files
  BY Zenon DEF Files!SwitchTo
<1> QED
  BY <1>1, <1>2

\* What an operation leaves to show: h is inside, alone, and only sessions, files
\* and h itself have changed.
Operated(h) ==
    /\ slot' = h /\ \A g \in Handlers \ {h} : ~Inside(g)
    /\ hand[h].pc \notin {"pinning", "clearing"}
    /\ hand' \in [Handlers -> Files!Handler] /\ Others(h)
    /\ hand'[h].pc \in Files!Steps \ {"idle", "pinning", "clearing"}
    /\ UNCHANGED <<meta, queue, Files!history>>
    /\ active' \in Paths /\ flushed' \in BOOLEAN /\ used \subseteq used' /\ used' \subseteq Paths
    /\ files' \subseteq Paths /\ broken' \subseteq files' \cap broken

\* The part of the invariants that such a step can disturb.
Placed(h) ==
    LET pc    == hand'[h].pc
        paths == hand'[h].paths
        gone  == hand'[h].gone
    IN  /\ pc \in {"switching", "unlinking"} => paths \subseteq used'
        /\ pc = "unlinking" => active' \notin paths
        /\ gone \subseteq used' /\ active' \notin gone /\ gone \cap files' = {}
        /\ pc # "unlinking" => gone = {}
        /\ pc \in {"opening", "forked", "staging", "published", "cleaning"} => paths \cap deleted = {}
        /\ pc \in {"forked", "staging", "published", "cleaning"} => (paths \ {active'}) \cap broken' = {}
        /\ pc \in {"forked", "staging", "published"} => active' \notin paths
        /\ active' \in used' /\ active' \notin deleted /\ files' \cap deleted = {}
        /\ ~foreign /\ flushed' => active' \in files'

LEMMA OperationStep ==
    ASSUME StoreInv, NEW h \in Handlers, Operated(h), Placed(h)
    PROVE  StoreInv'
<1> USE DEF StoreInv
<1>1. Files!TypeOK'
  BY DEF Files!TypeOK, Files!SlotOwned, Operated, Inside, Others, Files!history
<1>2. ChainInv'
  BY ChainStays DEF Operated
<1>3. HandlerInv'
  BY DEF HandlerInv, Operated, Placed, Inside, Others, Files!history
<1>4. DeletedInv'
  BY DEF DeletedInv, Operated, Placed, Files!history
<1>5. MetaInv' /\ FileInv'
  BY DEF MetaInv, FileInv, Files!ActiveFileKept, Files!EveryFileOpens, Operated, Placed,
         Files!history
<1> QED
  BY <1>1, <1>2, <1>3, <1>4, <1>5

LEMMA DeleteStarts ==
    ASSUME StoreInv, NEW h \in Handlers, Files!DeleteStart(h)
    PROVE  StoreInv'
<1> USE DEF StoreInv
<1>1. Files!Enter(h) /\ hand[h].pc = "idle"
  BY DEF Files!DeleteStart, Files!Enter
<1>2. slot' = h /\ \A g \in Handlers : ~Inside(g)
  BY <1>1, Entered
<1>3. PICK ps \in SUBSET used : Files!Become(h, IF active \in ps THEN "switching" ELSE "unlinking", ps)
  BY <1>1 DEF Files!DeleteStart
<1>4. /\ hand' \in [Handlers -> Files!Handler] /\ Others(h)
      /\ hand'[h].pc = (IF active \in ps THEN "switching" ELSE "unlinking")
      /\ hand'[h].paths = ps /\ hand'[h].gone = {}
  BY <1>3, HandBecomes DEF Files!Steps, Files!TypeOK
<1>5. Operated(h)
  BY <1>1, <1>2, <1>3, <1>4
     DEF Operated, Files!DeleteStart, Files!TypeOK, Files!Steps, Files!sessions, Files!disk,
         Files!history
<1>6. Placed(h)
  BY <1>3, <1>4
     DEF Placed, Files!DeleteStart, DeletedInv, HandlerInv, FileInv, Files!ActiveFileKept,
         Files!TypeOK, Files!sessions, Files!disk
<1> QED
  BY <1>5, <1>6, OperationStep

LEMMA OpenStarts ==
    ASSUME StoreInv, NEW h \in Handlers, Files!OpenStart(h)
    PROVE  StoreInv'
<1> USE DEF StoreInv
<1>1. Files!Enter(h) /\ hand[h].pc = "idle"
  BY DEF Files!OpenStart, Files!Enter
<1>2. slot' = h /\ \A g \in Handlers : ~Inside(g)
  BY <1>1, Entered
<1>3. PICK p \in (files \ broken) \cup (Paths \ used) : Files!Become(h, "opening", {p})
  BY <1>1 DEF Files!OpenStart
<1>4. /\ hand' \in [Handlers -> Files!Handler] /\ Others(h)
      /\ hand'[h].pc = "opening" /\ hand'[h].paths = {p} /\ hand'[h].gone = {}
  BY <1>3, HandBecomes DEF Files!Steps, Files!TypeOK
<1>5. Operated(h)
  BY <1>1, <1>2, <1>3, <1>4
     DEF Operated, Files!OpenStart, Files!TypeOK, Files!Steps, Files!sessions, Files!disk,
         Files!history
<1>6. Placed(h)
  BY <1>3, <1>4
     DEF Placed, Files!OpenStart, DeletedInv, HandlerInv, FileInv, Files!ActiveFileKept,
         Files!TypeOK, Files!sessions, Files!disk
<1> QED
  BY <1>5, <1>6, OperationStep

LEMMA ForkStarts ==
    ASSUME StoreInv, NEW h \in Handlers, Files!ForkStart(h)
    PROVE  StoreInv'
<1> USE DEF StoreInv
<1>1. Files!Enter(h) /\ hand[h].pc = "idle"
  BY DEF Files!ForkStart, Files!Enter
<1>2. slot' = h /\ \A g \in Handlers : ~Inside(g)
  BY <1>1, Entered
<1>3. PICK p \in used : Files!Become(h, "listing", {p})
  BY <1>1 DEF Files!ForkStart
<1>4. /\ hand' \in [Handlers -> Files!Handler] /\ Others(h)
      /\ hand'[h].pc = "listing" /\ hand'[h].paths = {p} /\ hand'[h].gone = {}
  BY <1>3, HandBecomes DEF Files!Steps, Files!TypeOK
<1>5. /\ files' \in {files, files \cup {active}} /\ broken' = broken /\ flushed' \in BOOLEAN
      /\ flushed' => flushed \/ active \in files'
      /\ UNCHANGED <<active, used, meta, queue, lastPin, deleted, foreign>>
  BY DEF Files!ForkStart, Files!Persist, Files!disk, Files!TypeOK, Files!history
<1>6. Operated(h)
  BY <1>1, <1>2, <1>4, <1>5 DEF Operated, Files!TypeOK, Files!Steps, Files!history
<1>7. Placed(h)
  BY <1>4, <1>5 DEF Placed, DeletedInv, FileInv, Files!ActiveFileKept
<1> QED
  BY <1>6, <1>7, OperationStep

\* The steps of a fork inside: nothing but the name of the copy, then its file.
LEMMA Forks ==
    ASSUME StoreInv, NEW h \in Handlers, Files!ForkList(h) \/ Files!ForkStage(h) \/ Files!ForkPublish(h)
    PROVE  StoreInv'
<1> USE DEF StoreInv
<1>1. hand[h].pc \in {"listing", "copying", "forked"} /\ Inside(h) /\ hand[h].paths \in SUBSET Paths
  BY DEF Files!ForkList, Files!ForkStage, Files!ForkPublish, Inside, Files!TypeOK, Files!Handler
<1>2. slot = h /\ \A g \in Handlers \ {h} : ~Inside(g)
  BY <1>1, Alone
<1>3. /\ UNCHANGED <<active, flushed, broken, meta, queue, slot, lastPin, deleted, foreign>>
      /\ used \subseteq used' /\ used' \subseteq Paths
      /\ files' = files \/ (files' = files \cup hand[h].paths /\ hand[h].pc = "forked")
  BY DEF Files!ForkList, Files!ForkStage, Files!ForkPublish, Files!sessions, Files!disk, Files!history,
         Files!TypeOK
<1>4. \/ Files!Go(h, "copying")
      \/ Files!Become(h, "ending", {})
      \/ \E p \in Paths \ used : Files!Become(h, "forked", {p})
  BY DEF Files!ForkList, Files!ForkStage, Files!ForkPublish, Files!Ends
<1>5. /\ hand' \in [Handlers -> Files!Handler] /\ Others(h) /\ hand'[h].gone = {}
      /\ hand'[h].pc \in {"copying", "ending", "forked"}
      /\ hand'[h].pc = "forked" => hand'[h].paths \cap used = {}
  <2>1. CASE Files!Go(h, "copying")
    BY <1>1, <2>1, HandGoes DEF Files!Steps, HandlerInv
  <2>2. CASE Files!Become(h, "ending", {})
    BY <2>2, HandBecomes DEF Files!Steps
  <2>3. CASE \E p \in Paths \ used : Files!Become(h, "forked", {p})
    <3>1. PICK p \in Paths \ used : Files!Become(h, "forked", {p})
      BY <2>3
    <3> QED
      BY <3>1, HandBecomes DEF Files!Steps
  <2> QED
    BY <1>4, <2>1, <2>2, <2>3
<1>6. Operated(h)
  BY <1>1, <1>2, <1>3, <1>5 DEF Operated, Files!TypeOK, Files!Steps, Files!history
<1>7. Placed(h)
  BY <1>1, <1>3, <1>5 DEF Placed, HandlerInv, DeletedInv, FileInv, Files!ActiveFileKept
<1> QED
  BY <1>6, <1>7, OperationStep

LEMMA ImportStarts ==
    ASSUME StoreInv, NEW h \in Handlers, Files!ImportStart(h)
    PROVE  StoreInv'
<1> USE DEF StoreInv
<1>1. Files!Enter(h) /\ hand[h].pc = "idle"
  BY DEF Files!ImportStart, Files!Enter
<1>2. slot' = h /\ \A g \in Handlers : ~Inside(g)
  BY <1>1, Entered
<1>3. PICK p \in Paths \ used : used' = used \cup {p} /\ Files!Become(h, "staging", {p})
  BY <1>1 DEF Files!ImportStart
<1>4. /\ hand' \in [Handlers -> Files!Handler] /\ Others(h)
      /\ hand'[h].pc = "staging" /\ hand'[h].paths = {p} /\ hand'[h].gone = {}
  BY <1>3, HandBecomes DEF Files!Steps, Files!TypeOK
<1>5. Operated(h)
  BY <1>1, <1>2, <1>3, <1>4
     DEF Operated, Files!ImportStart, Files!TypeOK, Files!Steps, Files!sessions, Files!disk,
         Files!history
<1>6. Placed(h)
  BY <1>3, <1>4
     DEF Placed, Files!ImportStart, DeletedInv, HandlerInv, FileInv, Files!ActiveFileKept,
         Files!TypeOK, Files!sessions, Files!disk
<1> QED
  BY <1>5, <1>6, OperationStep

LEMMA DeleteSwitches ==
    ASSUME StoreInv, NEW h \in Handlers, Files!DeleteSwitch(h)
    PROVE  StoreInv'
<1> USE DEF StoreInv
<1>1. hand[h].pc = "switching" /\ Inside(h) /\ hand[h].paths \in SUBSET Paths
  BY DEF Files!DeleteSwitch, Inside, Files!TypeOK, Files!Handler
<1>2. slot = h /\ \A g \in Handlers \ {h} : ~Inside(g)
  BY <1>1, Alone
<1>3. Files!Go(h, "unlinking") \/ Files!Become(h, "ending", {})
  BY DEF Files!DeleteSwitch, Files!Ends
<1>4. /\ hand' \in [Handlers -> Files!Handler] /\ Others(h) /\ hand'[h].gone = hand[h].gone /\ hand[h].gone = {}
      /\ (hand'[h].pc = "unlinking" /\ hand'[h].paths = hand[h].paths) \/ (hand'[h].pc = "ending" /\ hand'[h].paths = {})
  <2>1. hand[h].gone = {}
    BY <1>1 DEF HandlerInv
  <2>2. CASE Files!Go(h, "unlinking")
    BY <2>1, <2>2, HandGoes DEF Files!Steps
  <2>3. CASE Files!Become(h, "ending", {})
    BY <2>1, <2>3, HandBecomes DEF Files!Steps
  <2> QED
    BY <1>3, <2>2, <2>3
<1>5. Operated(h)
  <2>1. active' \in Paths /\ used \subseteq used' /\ used' \subseteq Paths
    BY <1>1 DEF Files!DeleteSwitch, Files!SwitchTo, Files!TypeOK, Files!sessions
  <2>2. (\E p \in Paths : Files!SwitchTo(p)) \/ UNCHANGED flushed
    BY <1>1 DEF Files!DeleteSwitch, Files!sessions
  <2>3. flushed' \in BOOLEAN
    BY <2>2, SwitchTypes DEF Files!TypeOK
  <2>4. UNCHANGED <<files, broken, meta, queue, slot, lastPin, deleted, foreign>>
    BY DEF Files!DeleteSwitch, Files!disk, Files!history
  <2> QED
    BY <1>1, <1>2, <1>4, <2>1, <2>3, <2>4 DEF Operated, Files!TypeOK, Files!Steps, Files!history
<1>6. Placed(h)
  <2>1. UNCHANGED <<files, broken, lastPin, deleted, foreign>>
    BY DEF Files!DeleteSwitch, Files!disk, Files!history
  <2>2. CASE Files!Ends(h) /\ UNCHANGED Files!sessions
    <3>1. hand'[h].pc = "ending"
      BY <2>2, HandBecomes DEF Files!Ends, Files!Steps
    <3> QED
      BY <1>1, <1>4, <2>1, <2>2, <3>1
         DEF Placed, Files!sessions, HandlerInv, DeletedInv, FileInv, Files!ActiveFileKept
  <2>3. CASE \E p \in Paths \ used : Files!SwitchTo(p)
    <3>1. PICK p \in Paths \ used : Files!SwitchTo(p)
      BY <2>3
    <3>2. active' = p /\ used' = used \cup {p} /\ (flushed' => p \in files)
      BY <3>1, SwitchFinds
    <3> QED
      BY <1>1, <1>4, <2>1, <3>1, <3>2
         DEF Placed, HandlerInv, DeletedInv, FileInv, Files!ActiveFileKept
  <2> QED
    BY <2>2, <2>3 DEF Files!DeleteSwitch
<1> QED
  BY <1>5, <1>6, OperationStep

LEMMA DeleteUnlinks ==
    ASSUME StoreInv, NEW h \in Handlers, Files!DeleteUnlink(h)
    PROVE  StoreInv'
<1> USE DEF StoreInv
<1>1. hand[h].pc = "unlinking" /\ Inside(h) /\ hand[h] \in Files!Handler
  BY DEF Files!DeleteUnlink, Inside, Files!TypeOK
<1>2. slot = h /\ \A g \in Handlers \ {h} : ~Inside(g)
  BY <1>1, Alone
<1>3. PICK p \in hand[h].paths :
        \/ /\ files' = files \ {p} /\ broken' = broken \ {p}
           /\ hand' = [hand EXCEPT ![h].paths = @ \ {p}, ![h].gone = @ \cup {p}]
        \/ /\ files' = files /\ broken' = broken
           /\ hand' = [hand EXCEPT ![h].paths = @ \ {p}]
  BY DEF Files!DeleteUnlink, Files!disk
<1>4. UNCHANGED <<active, flushed, used, meta, queue, slot, lastPin, deleted, foreign>>
  BY DEF Files!DeleteUnlink, Files!sessions, Files!history
<1>5. /\ hand' \in [Handlers -> Files!Handler] /\ Others(h)
      /\ hand'[h].pc = "unlinking" /\ hand'[h].paths = hand[h].paths \ {p}
      /\ \/ files' = files \ {p} /\ broken' = broken \ {p} /\ hand'[h].gone = hand[h].gone \cup {p}
         \/ files' = files /\ broken' = broken /\ hand'[h].gone = hand[h].gone
  BY <1>1, <1>3 DEF Files!TypeOK, Files!Handler, Others
<1>6. p \in used /\ p # active
  BY <1>1, <1>3 DEF HandlerInv
<1>7. Operated(h)
  BY <1>1, <1>2, <1>4, <1>5 DEF Operated, Files!TypeOK, Files!Steps, Files!history
<1>8. Placed(h)
  BY <1>1, <1>4, <1>5, <1>6 DEF Placed, HandlerInv, DeletedInv, FileInv, Files!ActiveFileKept
<1> QED
  BY <1>7, <1>8, OperationStep

LEMMA OpenSwitches ==
    ASSUME StoreInv, NEW h \in Handlers, Files!OpenSwitch(h)
    PROVE  StoreInv'
<1> USE DEF StoreInv
<1>1. hand[h].pc = "opening" /\ Inside(h) /\ hand[h].paths \in SUBSET Paths
  BY DEF Files!OpenSwitch, Inside, Files!TypeOK, Files!Handler
<1>2. slot = h /\ \A g \in Handlers \ {h} : ~Inside(g)
  BY <1>1, Alone
<1>3. Files!Become(h, "ending", {})
  BY DEF Files!OpenSwitch, Files!Ends
<1>4. /\ hand' \in [Handlers -> Files!Handler] /\ Others(h) /\ hand'[h].gone = {}
      /\ hand'[h].pc = "ending" /\ hand'[h].paths = {}
  BY <1>3, HandBecomes DEF Files!Steps
<1>5. Operated(h)
  <2>1. active' \in Paths /\ used \subseteq used' /\ used' \subseteq Paths
    BY <1>1 DEF Files!OpenSwitch, Files!SwitchTo, Files!TypeOK, Files!sessions
  <2>2. (\E p \in Paths : Files!SwitchTo(p)) \/ UNCHANGED flushed
    BY <1>1 DEF Files!OpenSwitch, Files!sessions
  <2>3. flushed' \in BOOLEAN
    BY <2>2, SwitchTypes DEF Files!TypeOK
  <2>4. UNCHANGED <<files, broken, meta, queue, slot, lastPin, deleted, foreign>>
    BY DEF Files!OpenSwitch, Files!disk, Files!history
  <2> QED
    BY <1>1, <1>2, <1>4, <2>1, <2>3, <2>4 DEF Operated, Files!TypeOK, Files!Steps, Files!history
<1>6. Placed(h)
  BY <1>1, <1>4
     DEF Placed, Files!OpenSwitch, Files!SwitchTo, HandlerInv, DeletedInv, FileInv,
         Files!ActiveFileKept, Files!TypeOK,
        Files!Handler, Files!sessions, Files!disk
<1> QED
  BY <1>5, <1>6, OperationStep

LEMMA ImportPublishes ==
    ASSUME StoreInv, NEW h \in Handlers, Files!ImportPublish(h)
    PROVE  StoreInv'
<1> USE DEF StoreInv
<1>1. hand[h].pc = "staging" /\ Inside(h) /\ hand[h].paths \in SUBSET Paths
  BY DEF Files!ImportPublish, Inside, Files!TypeOK, Files!Handler
<1>2. slot = h /\ \A g \in Handlers \ {h} : ~Inside(g)
  BY <1>1, Alone
<1>3. Files!Go(h, "published") \/ Files!Become(h, "ending", {})
  BY DEF Files!ImportPublish, Files!Ends
<1>4. /\ hand' \in [Handlers -> Files!Handler] /\ Others(h) /\ hand'[h].gone = hand[h].gone /\ hand[h].gone = {}
      /\ (hand'[h].pc = "published" /\ hand'[h].paths = hand[h].paths) \/ (hand'[h].pc = "ending" /\ hand'[h].paths = {})
  <2>1. hand[h].gone = {}
    BY <1>1 DEF HandlerInv
  <2>2. CASE Files!Go(h, "published")
    BY <2>1, <2>2, HandGoes DEF Files!Steps
  <2>3. CASE Files!Become(h, "ending", {})
    BY <2>1, <2>3, HandBecomes DEF Files!Steps
  <2> QED
    BY <1>3, <2>2, <2>3
<1>5. Operated(h)
  BY <1>1, <1>2, <1>4
     DEF Operated, Files!ImportPublish, Files!TypeOK, HandlerInv, Files!Steps, Files!sessions,
         Files!disk, Files!history
<1>6. Placed(h)
  BY <1>1, <1>4
     DEF Placed, Files!ImportPublish, HandlerInv, DeletedInv, FileInv,
         Files!ActiveFileKept, Files!TypeOK,
        Files!Handler, Files!sessions, Files!disk
<1> QED
  BY <1>5, <1>6, OperationStep

LEMMA ImportSwitches ==
    ASSUME StoreInv, NEW h \in Handlers, Files!ImportSwitch(h)
    PROVE  StoreInv'
<1> USE DEF StoreInv
<1>1. hand[h].pc = "published" /\ Inside(h) /\ hand[h].paths \in SUBSET Paths
  BY DEF Files!ImportSwitch, Inside, Files!TypeOK, Files!Handler
<1>2. slot = h /\ \A g \in Handlers \ {h} : ~Inside(g)
  BY <1>1, Alone
<1>3. Files!Go(h, "cleaning") \/ Files!Become(h, "ending", {})
  BY DEF Files!ImportSwitch, Files!Ends
<1>4. /\ hand' \in [Handlers -> Files!Handler] /\ Others(h) /\ hand'[h].gone = hand[h].gone /\ hand[h].gone = {}
      /\ (hand'[h].pc = "cleaning" /\ hand'[h].paths = hand[h].paths) \/ (hand'[h].pc = "ending" /\ hand'[h].paths = {})
  <2>1. hand[h].gone = {}
    BY <1>1 DEF HandlerInv
  <2>2. CASE Files!Go(h, "cleaning")
    BY <2>1, <2>2, HandGoes DEF Files!Steps
  <2>3. CASE Files!Become(h, "ending", {})
    BY <2>1, <2>3, HandBecomes DEF Files!Steps
  <2> QED
    BY <1>3, <2>2, <2>3
<1>5. Operated(h)
  <2>1. active' \in Paths /\ used \subseteq used' /\ used' \subseteq Paths
    BY <1>1 DEF Files!ImportSwitch, Files!SwitchTo, Files!TypeOK, Files!sessions
  <2>2. (\E p \in Paths : Files!SwitchTo(p)) \/ UNCHANGED flushed
    BY <1>1 DEF Files!ImportSwitch, Files!sessions
  <2>3. flushed' \in BOOLEAN
    BY <2>2, SwitchTypes DEF Files!TypeOK
  <2>4. UNCHANGED <<files, broken, meta, queue, slot, lastPin, deleted, foreign>>
    BY DEF Files!ImportSwitch, Files!disk, Files!history
  <2> QED
    BY <1>1, <1>2, <1>4, <2>1, <2>3, <2>4 DEF Operated, Files!TypeOK, Files!Steps, Files!history
<1>6. Placed(h)
  <2>1. UNCHANGED <<files, broken, lastPin, deleted, foreign>>
    BY DEF Files!ImportSwitch, Files!disk, Files!history
  <2>2. CASE UNCHANGED Files!sessions
    BY <1>1, <1>4, <2>1, <2>2
       DEF Placed, Files!sessions, HandlerInv, DeletedInv, FileInv, Files!ActiveFileKept
  <2>3. CASE \E p \in hand[h].paths : Files!SwitchTo(p)
    <3>1. PICK p \in hand[h].paths : Files!SwitchTo(p)
      BY <2>3
    <3>2. active' = p /\ used' = used \cup {p} /\ (flushed' => p \in files)
      BY <3>1, SwitchFinds
    <3> QED
      BY <1>1, <1>4, <2>1, <3>1, <3>2
         DEF Placed, HandlerInv, DeletedInv, FileInv, Files!ActiveFileKept
  <2> QED
    BY <2>2, <2>3 DEF Files!ImportSwitch
<1> QED
  BY <1>5, <1>6, OperationStep

LEMMA ImportCleansUp ==
    ASSUME StoreInv, NEW h \in Handlers, Files!ImportCleanup(h)
    PROVE  StoreInv'
<1> USE DEF StoreInv
<1>1. hand[h].pc = "cleaning" /\ Inside(h) /\ hand[h].paths \in SUBSET Paths
  BY DEF Files!ImportCleanup, Inside, Files!TypeOK, Files!Handler
<1>2. slot = h /\ \A g \in Handlers \ {h} : ~Inside(g)
  BY <1>1, Alone
<1>3. Files!Become(h, "ending", {})
  BY DEF Files!ImportCleanup, Files!Ends
<1>4. /\ hand' \in [Handlers -> Files!Handler] /\ Others(h) /\ hand'[h].gone = {}
      /\ hand'[h].pc = "ending" /\ hand'[h].paths = {}
  BY <1>3, HandBecomes DEF Files!Steps
<1>5. Operated(h)
  BY <1>1, <1>2, <1>4
     DEF Operated, Files!ImportCleanup, Files!TypeOK, HandlerInv, Files!Steps, Files!sessions,
         Files!disk, Files!history
<1>6. Placed(h)
  BY <1>1, <1>4
     DEF Placed, Files!ImportCleanup, HandlerInv, DeletedInv, FileInv,
         Files!ActiveFileKept, Files!TypeOK,
        Files!Handler, Files!sessions, Files!disk
<1> QED
  BY <1>5, <1>6, OperationStep

\* The removal of the metadata is put at the end of the chain, or left.
LEMMA DeleteClears ==
    ASSUME StoreInv, NEW h \in Handlers, Files!DeleteClear(h)
    PROVE  StoreInv'
<1> USE DEF StoreInv
<1> DEFINE ps == hand[h].gone
<1>1. hand[h].pc = "unlinking" /\ Inside(h) /\ ps \in SUBSET Paths
  BY DEF Files!DeleteClear, Inside, Files!TypeOK, Files!Handler
<1>2. slot = h /\ \A g \in Handlers \ {h} : ~Inside(g)
  BY <1>1, Alone
<1>3. UNCHANGED <<active, flushed, used, files, broken, meta, slot, lastPin, deleted, foreign>>
  BY DEF Files!DeleteClear, Files!sessions, Files!disk, Files!history
<1>a. CASE UNCHANGED queue /\ Files!Become(h, "ending", {})
  <2>1. /\ hand' \in [Handlers -> Files!Handler] /\ Others(h)
        /\ hand'[h].pc = "ending" /\ hand'[h].paths = {} /\ hand'[h].gone = {}
    BY <1>a, HandBecomes DEF Files!Steps
  <2>2. Operated(h)
    BY <1>1, <1>2, <1>3, <1>a, <2>1 DEF Operated, Files!TypeOK, Files!Steps, Files!history
  <2>3. Placed(h)
    BY <1>3, <2>1 DEF Placed, DeletedInv, FileInv, Files!ActiveFileKept
  <2> QED
    BY <2>2, <2>3, OperationStep
<1>b. CASE Files!Enqueue(h, ps, "absent") /\ Files!Go(h, "clearing")
  <2>4. /\ hand' \in [Handlers -> Files!Handler] /\ Others(h)
        /\ hand'[h].pc = "clearing" /\ hand'[h].gone = ps
    BY <1>b, HandGoes DEF Files!Steps
  <2>5. /\ queue' \in Seq(Files!Job) /\ ChainInv'
        /\ DOMAIN queue' = 1 .. Len(queue) + 1
        /\ \A j \in DOMAIN queue : queue'[j] = queue[j]
        /\ queue'[Len(queue) + 1].paths = ps /\ queue'[Len(queue) + 1].entry = "absent"
    BY <1>1, <1>3, <1>b, <2>4, ChainEnqueued DEF Files!Entries
  <2>6. Files!TypeOK'
    BY <1>1, <1>3, <2>4, <2>5 DEF Files!TypeOK, Files!SlotOwned, Others
  <2>7. HandlerInv'
    BY <1>1, <1>3, <2>4 DEF HandlerInv, Others
  <2>8. DeletedInv'
    <3>1. \A j \in DOMAIN queue' : j \in DOMAIN queue \/ j = Len(queue) + 1
      BY <2>5, ChainIndex
    <3>2. \A i, j \in DOMAIN queue' : i < j => i \in DOMAIN queue
      BY <2>5, ChainIndex
    <3> QED
      BY <1>3, <2>5, <3>1, <3>2 DEF DeletedInv
  <2>9. MetaInv' /\ FileInv'
    BY <1>3 DEF MetaInv, FileInv, Files!ActiveFileKept, Files!EveryFileOpens
  <2> QED
    BY <2>5, <2>6, <2>7, <2>8, <2>9
<1> QED
  BY <1>a, <1>b DEF Files!DeleteClear, Files!Ends

LEMMA Leaves ==
    ASSUME StoreInv, NEW h \in Handlers, Files!Leave(h)
    PROVE  StoreInv'
<1> USE DEF StoreInv
<1>1. hand[h].pc = "ending" /\ Inside(h)
  BY DEF Files!Leave, Inside
<1>2. slot = h /\ \A g \in Handlers \ {h} : ~Inside(g)
  BY <1>1, Alone
<1>3. /\ UNCHANGED <<active, flushed, used, files, broken, meta, queue, lastPin, deleted, foreign>>
      /\ slot' = Nobody
  BY DEF Files!Leave, Files!sessions, Files!disk, Files!history
<1>4. /\ hand' \in [Handlers -> Files!Handler] /\ Others(h)
      /\ hand'[h].pc = "idle" /\ hand'[h].paths = {} /\ hand'[h].gone = {}
  BY HandBecomes DEF Files!Leave, Files!Steps
<1>5. Files!TypeOK'
  BY FilesAssumption, <1>2, <1>3, <1>4 DEF Files!TypeOK, Files!SlotOwned, Inside, Others,
     Files!NobodyAssumption
<1>6. ChainInv'
  BY <1>1, <1>3, <1>4, ChainStays
<1>7. HandlerInv' /\ DeletedInv'
  BY <1>3, <1>4 DEF HandlerInv, DeletedInv, Others
<1>8. MetaInv' /\ FileInv'
  BY <1>3 DEF MetaInv, FileInv, Files!ActiveFileKept, Files!EveryFileOpens
<1> QED
  BY <1>5, <1>6, <1>7, <1>8

-----------------------------------------------------------------------------

LEMMA StoreStays == ASSUME StoreInv, UNCHANGED store PROVE StoreInv'
<1> USE DEF StoreInv, store, Files!sessions, Files!disk, Files!history
<1>1. Files!TypeOK' /\ ChainInv'
  BY DEF Files!TypeOK, Files!SlotOwned, ChainInv
<1>2. HandlerInv' /\ DeletedInv'
  BY DEF HandlerInv, DeletedInv
<1>3. MetaInv' /\ FileInv'
  BY DEF MetaInv, FileInv, Files!ActiveFileKept, Files!EveryFileOpens
<1> QED
  BY <1>1, <1>2, <1>3

LEMMA StoreStep == ASSUME StoreInv, Files!Next PROVE StoreInv'
<1>1. ASSUME NEW h \in Handlers, Files!Start(h) PROVE StoreInv'
  BY <1>1, Pins, DeleteStarts, OpenStarts, ForkStarts, ImportStarts DEF Files!Start
<1>2. ASSUME NEW h \in Handlers, Files!Continue(h) PROVE StoreInv'
  BY <1>2, Leaves, DeleteSwitches, DeleteUnlinks, DeleteClears, Forks, OpenSwitches, ImportPublishes,
     ImportSwitches, ImportCleansUp DEF Files!Continue
<1>3. ASSUME NEW j \in DOMAIN queue, Files!RunJob(j) PROVE StoreInv'
  BY <1>3, JobReads, JobWrites, JobFailures DEF Files!RunJob
<1>4. CASE Files!AssistantMessage \/ Files!RenameActive \/ Files!ExportActive
  BY <1>4, Persists DEF Files!AssistantMessage, Files!RenameActive, Files!ExportActive
<1>5. CASE Files!ClearName \/ Files!OtherConsoleDeletes
  BY <1>5, Appends, Removals
<1> QED
  BY <1>1, <1>2, <1>3, <1>4, <1>5 DEF Files!Next

LEMMA StoreSound ==
    ASSUME StoreInv
    PROVE  /\ Files!TypeOK /\ Files!EveryFileOpens /\ Files!ActiveFileKept
           /\ Files!DeletedStaysForgotten /\ Files!NoUpdateLost
BY DEF StoreInv, DeletedInv, MetaInv, FileInv, Files!DeletedStaysForgotten, Files!NoUpdateLost

LEMMA StoreHolds == Files!Spec => []StoreInv
<1>1. StoreInv /\ [Files!Next]_(Files!vars) => StoreInv'
  <2>1. UNCHANGED Files!vars => UNCHANGED store
    BY DEF Files!vars, Files!sessions, Files!disk, Files!history, store
  <2> QED
    BY <2>1, StoreStep, StoreStays
<1> QED
  BY <1>1, StoreBegins, PTL DEF Files!Spec

\* The variables keep their types, and the slot of the session operations is held
\* by the one handler inside an operation.
THEOREM SessionTypes == Files!Spec => []Files!TypeOK
<1>1. StoreInv => Files!TypeOK
  BY StoreSound
<1> QED
  BY <1>1, StoreHolds, PTL

\* However many pins and deletions wait in the chain, the metadata of a deleted
\* session is gone and stays gone.
THEOREM DeletedIsForgotten == Files!Spec => []Files!DeletedStaysForgotten
<1>1. StoreInv => Files!DeletedStaysForgotten
  BY StoreSound
<1> QED
  BY <1>1, StoreHolds, PTL

\* No mutation of the map overwrites the effect of another one.
THEOREM UpdatesAreKept == Files!Spec => []Files!NoUpdateLost
<1>1. StoreInv => Files!NoUpdateLost
  BY StoreSound
<1> QED
  BY <1>1, StoreHolds, PTL

\* The gateway's own operations leave the active session its file and every file
\* its header, unless another process removes files.
THEOREM FilesAreSound == Files!Spec => [](Files!ActiveFileKept /\ Files!EveryFileOpens)
<1>1. StoreInv => Files!ActiveFileKept /\ Files!EveryFileOpens
  BY StoreSound
<1> QED
  BY <1>1, StoreHolds, PTL

-----------------------------------------------------------------------------
(* The workspace.                                                            *)

ChangeJobs ==
    [kind : {"commit", "revert"}, paths : SUBSET WorkspaceFiles,
     pc : {"idle", "add", "commit", "others", "tracked", "restore", "remove"},
     others : SUBSET WorkspaceFiles, known : SUBSET WorkspaceFiles,
     answer : {"none", "ok", "refused", "failed"}, touched : SUBSET WorkspaceFiles, alone : BOOLEAN]

WorkTyped ==
    /\ head \in Work!Trees /\ index \in Work!Trees /\ tree \in Work!Trees
    /\ change \in Seq(ChangeJobs)

\* Which steps a request takes, and what it may touch at each of them.
Bounded(rec) ==
    /\ rec.pc \in {"add", "commit"} => rec.kind = "commit"
    /\ rec.pc \in {"others", "tracked", "restore", "remove"} => rec.kind = "revert"
    /\ rec.answer # "none" => rec.pc = "idle"
    /\ rec.others \subseteq rec.paths /\ rec.known \subseteq rec.paths
    /\ rec.touched \subseteq rec.paths
    /\ rec.pc \in {"others", "tracked", "restore"} => rec.touched = {}
    /\ rec.kind = "revert" /\ rec.answer = "refused" => rec.touched = {}

\* What a request that nobody disturbs has reached on file f, between the
\* listings and its answer.
Reached(rec, f, h, i, t) ==
    /\ rec.pc = "restore" => f \in rec.known \/ (i = h /\ f \in rec.others)
    /\ rec.pc = "remove" => i = h /\ (t = h \/ t = NoText \/ f \in rec.others)
    /\ rec.kind = "commit" /\ rec.answer = "ok" => h = t /\ i = t
    /\ rec.kind = "revert" /\ rec.answer = "ok" => i = h /\ (t = h \/ t = NoText)

OnCourse(rec) ==
    /\ Bounded(rec)
    /\ rec.alone => \A f \in rec.paths : Reached(rec, f, head[f], index[f], tree[f])

WorkInv == WorkTyped /\ \A c \in DOMAIN change : OnCourse(change[c])

LEMMA WorkBegins == ASSUME Work!Init PROVE WorkInv
<1>1. head \in Work!Trees /\ index \in Work!Trees /\ tree \in Work!Trees /\ change = << >>
  BY WorkAssumption DEF Work!Init, Work!Trees, Work!TextAssumption
<1>2. change \in Seq(ChangeJobs) /\ DOMAIN change = {}
  BY <1>1
<1> QED
  BY <1>1, <1>2 DEF WorkInv, WorkTyped

\* A request after a step of its own, which moves it on as rec.
Marked(rec) == [rec EXCEPT !.touched = @ \cup Work!Changed]
Arrives(rec) == rec.alone => \A f \in rec.paths : Reached(rec, f, head'[f], index'[f], tree'[f])

\* The requests go on: c's as rec, those of others remember whether one of
\* their files has changed.
LEMMA JobsStep ==
    ASSUME WorkInv, NEW c \in DOMAIN change, NEW rec \in ChangeJobs,
           head' \in Work!Trees, index' \in Work!Trees, tree' \in Work!Trees,
           Work!Step(c, rec), Work!Changed \subseteq rec.paths, Bounded(Marked(rec)), Arrives(rec)
    PROVE  WorkInv'
<1> DEFINE new == [rec EXCEPT !.touched = @ \cup Work!Changed]
           seen(d) == [change[d] EXCEPT !.alone = @ /\ Work!Changed \cap change[d].paths = {}]
<1>1. /\ WorkTyped /\ change \in Seq(ChangeJobs) /\ Work!Changed \in SUBSET WorkspaceFiles
      /\ rec.paths \in SUBSET WorkspaceFiles
  <2>1. WorkTyped
    BY DEF WorkInv
  <2>2. rec.paths \in SUBSET WorkspaceFiles
    BY DEF ChangeJobs
  <2> QED
    BY <2>1, <2>2 DEF WorkTyped
<1>2. new \in ChangeJobs /\ new.paths = rec.paths /\ new.alone = rec.alone /\ new.pc = rec.pc
      /\ new.kind = rec.kind /\ new.known = rec.known /\ new.others = rec.others /\ new.answer = rec.answer
  BY <1>1 DEF ChangeJobs
<1>3. ASSUME NEW d \in DOMAIN change
      PROVE  /\ seen(d) \in ChangeJobs /\ seen(d).paths = change[d].paths
             /\ seen(d).pc = change[d].pc /\ seen(d).kind = change[d].kind
             /\ seen(d).known = change[d].known /\ seen(d).others = change[d].others
             /\ seen(d).answer = change[d].answer /\ seen(d).touched = change[d].touched
             /\ seen(d).alone => change[d].alone /\ Work!Changed \cap change[d].paths = {}
  <2>1. change[d] \in ChangeJobs
    BY <1>1
  <2> QED
    BY <2>1 DEF ChangeJobs
<1>4. change' = [d \in DOMAIN change |-> IF d = c THEN new ELSE seen(d)]
  BY DEF Work!Step
<1> HIDE DEF new, seen
<1>5. change' \in Seq(ChangeJobs) /\ DOMAIN change' = DOMAIN change
  <2>1. Len(change) \in Nat /\ DOMAIN change = 1 .. Len(change)
    BY <1>1
  <2>2. \A d \in 1 .. Len(change) : change'[d] \in ChangeJobs
    BY <1>2, <1>3, <1>4, <2>1
  <2>3. change' = [d \in 1 .. Len(change) |-> change'[d]]
    BY <1>4, <2>1
  <2> QED
    BY <2>1, <2>2, <2>3
<1>6. WorkTyped'
  BY <1>1, <1>5 DEF WorkTyped
<1>7. ASSUME NEW d \in DOMAIN change PROVE OnCourse(change[d])'
  <2>1. CASE d = c
    <3>1. change'[d] = new
      BY <1>4, <2>1
    <3>2. Bounded(new)
      BY DEF new, Marked
    <3>3. new.alone => \A f \in new.paths : Reached(new, f, head'[f], index'[f], tree'[f])
      BY <1>2 DEF Reached, Arrives
    <3> QED
      BY <3>1, <3>2, <3>3 DEF OnCourse
  <2>2. CASE d # c
    <3>1. change'[d] = seen(d) /\ OnCourse(change[d]) /\ change[d] \in ChangeJobs
      BY <1>1, <1>4, <2>2 DEF WorkInv
    <3>2. Bounded(seen(d))
      BY <1>3, <3>1 DEF OnCourse, Bounded
    <3>3. ASSUME seen(d).alone, NEW f \in seen(d).paths PROVE Reached(seen(d), f, head'[f], index'[f], tree'[f])
      <4>1. f \in change[d].paths /\ f \in WorkspaceFiles /\ f \notin Work!Changed
        BY <1>3, <3>1, <3>3 DEF ChangeJobs
      <4>2. head'[f] = head[f] /\ index'[f] = index[f] /\ tree'[f] = tree[f]
        BY <4>1 DEF Work!Changed, Work!Differ
      <4>3. Reached(change[d], f, head[f], index[f], tree[f])
        BY <1>3, <3>1, <3>3, <4>1 DEF OnCourse
      <4> QED
        BY <1>3, <4>2, <4>3 DEF Reached
    <3> QED
      BY <3>1, <3>2, <3>3 DEF OnCourse
  <2> QED
    BY <2>1, <2>2
<1> QED
  BY <1>5, <1>6, <1>7 DEF WorkInv

LEMMA OverTyped ==
    ASSUME NEW t \in Work!Trees, NEW u \in Work!Trees, NEW F \in SUBSET WorkspaceFiles
    PROVE  /\ Work!Over(t, u, F) \in Work!Trees
           /\ \A f \in WorkspaceFiles : Work!Over(t, u, F)[f] = IF f \in F THEN u[f] ELSE t[f]
           /\ Work!Differ(t, Work!Over(t, u, F)) \subseteq F
BY DEF Work!Over, Work!Trees, Work!Differ

\* An answer ends the request; what it has touched and reached is as before.
LEMMA AnswerTyped ==
    ASSUME NEW c \in DOMAIN change, change[c] \in ChangeJobs, NEW answer \in {"ok", "refused", "failed"}
    PROVE  /\ Work!Answered(c, answer) \in ChangeJobs
           /\ Work!Answered(c, answer).pc = "idle" /\ Work!Answered(c, answer).answer = answer
           /\ Work!Answered(c, answer).kind = change[c].kind
           /\ Work!Answered(c, answer).paths = change[c].paths
           /\ Work!Answered(c, answer).touched = change[c].touched
           /\ Work!Answered(c, answer).alone = change[c].alone
           /\ Work!Answered(c, answer).others = {} /\ Work!Answered(c, answer).known = {}
BY DEF Work!Answered, ChangeJobs

LEMMA JobTyped ==
    ASSUME WorkInv, NEW c \in DOMAIN change
    PROVE  change[c] \in ChangeJobs /\ Bounded(change[c]) /\ change[c].paths \in SUBSET WorkspaceFiles
<1>1. change[c] \in ChangeJobs /\ Bounded(change[c])
  BY DEF WorkInv, WorkTyped, OnCourse
<1> QED
  BY <1>1 DEF ChangeJobs

\* A step that changes no file leaves every tree, and what was reached.
LEMMA NothingChanges ==
    ASSUME UNCHANGED <<head, index, tree>>
    PROVE  Work!Changed = {}
BY DEF Work!Changed, Work!Differ

\* A request that is answered without success, and changes nothing now.
LEMMA AnswerStep ==
    ASSUME WorkInv, NEW c \in DOMAIN change, NEW answer \in {"refused", "failed"}, Work!Unmoved,
           Work!Step(c, Work!Answered(c, answer)),
           change[c].kind = "revert" /\ answer = "refused" => change[c].touched = {}
    PROVE  WorkInv'
<1> DEFINE rec == Work!Answered(c, answer)
<1>1. change[c] \in ChangeJobs /\ Bounded(change[c]) /\ change[c].paths \in SUBSET WorkspaceFiles
  BY JobTyped
<1>2. /\ rec \in ChangeJobs /\ rec.pc = "idle" /\ rec.answer = answer /\ rec.kind = change[c].kind
      /\ rec.paths = change[c].paths /\ rec.touched = change[c].touched /\ rec.others = {} /\ rec.known = {}
  BY <1>1, AnswerTyped
<1>3. UNCHANGED <<head, index, tree>> /\ Work!Changed = {}
  BY NothingChanges DEF Work!Unmoved
<1>4. Work!Step(c, rec)
  OBVIOUS
<1> HIDE DEF rec
<1>5. head' \in Work!Trees /\ index' \in Work!Trees /\ tree' \in Work!Trees /\ Work!Changed \subseteq rec.paths
  BY <1>3 DEF WorkInv, WorkTyped
<1>6. Bounded(Marked(rec))
  BY <1>1, <1>2, <1>3 DEF Bounded, Marked, ChangeJobs
<1>7. Arrives(rec)
  BY <1>2 DEF Arrives, Reached
<1> QED
  BY <1>2, <1>4, <1>5, <1>6, <1>7, JobsStep

LEMMA RequestStep == ASSUME WorkInv, Work!Request PROVE WorkInv'
<1>1. PICK paths \in SUBSET WorkspaceFiles, kind \in {"commit", "revert"} :
         change' = Append(change, Work!NewJob(kind, paths, IF kind = "commit" THEN "add" ELSE "others"))
  BY DEF Work!Request
<1> DEFINE new == Work!NewJob(kind, paths, IF kind = "commit" THEN "add" ELSE "others")
<1>2. new \in ChangeJobs /\ OnCourse(new)
  BY DEF Work!NewJob, ChangeJobs, OnCourse, Bounded, Reached
<1>3. UNCHANGED <<head, index, tree>>
  BY DEF Work!Request
<1> HIDE DEF new
<1>4. change \in Seq(ChangeJobs)
  BY DEF WorkInv, WorkTyped
<1>5. /\ change' \in Seq(ChangeJobs)
      /\ \A d \in DOMAIN change' : change'[d] = new \/ (d \in DOMAIN change /\ change'[d] = change[d])
  <2>1. change' \in Seq(ChangeJobs) /\ Len(change') = Len(change) + 1
        /\ (\A i \in 1 .. Len(change) : change'[i] = change[i]) /\ change'[Len(change) + 1] = new
    BY <1>1, <1>2, <1>4, AppendProperties DEF new
  <2>2. Len(change) \in Nat /\ DOMAIN change = 1 .. Len(change) /\ DOMAIN change' = 1 .. Len(change) + 1
    BY <1>4, <2>1
  <2> QED
    BY <2>1, <2>2
<1>6. OnCourse(new)'
  BY <1>2, <1>3 DEF OnCourse
<1>7. \A d \in DOMAIN change : OnCourse(change[d]) 
  BY DEF WorkInv
<1> QED
  BY <1>2, <1>3, <1>5, <1>7 DEF WorkInv, WorkTyped, OnCourse

LEMMA EditStep == ASSUME WorkInv, Work!Edit PROVE WorkInv'
<1>1. PICK f \in WorkspaceFiles, text \in Texts \cup {NoText} :
        /\ tree' = [tree EXCEPT ![f] = text]
        /\ change' = [c \in DOMAIN change |-> [change[c] EXCEPT !.alone = @ /\ f \notin change[c].paths]]
  BY DEF Work!Edit
<1> DEFINE seen(d) == [change[d] EXCEPT !.alone = @ /\ f \notin change[d].paths]
<1>2. change \in Seq(ChangeJobs) /\ WorkTyped /\ UNCHANGED <<head, index>>
  BY DEF WorkInv, WorkTyped, Work!Edit
<1>3. ASSUME NEW d \in DOMAIN change
      PROVE  /\ seen(d) \in ChangeJobs /\ seen(d).paths = change[d].paths
             /\ seen(d).pc = change[d].pc /\ seen(d).kind = change[d].kind
             /\ seen(d).known = change[d].known /\ seen(d).others = change[d].others
             /\ seen(d).answer = change[d].answer /\ seen(d).touched = change[d].touched
             /\ seen(d).alone => change[d].alone /\ f \notin change[d].paths
  <2>1. change[d] \in ChangeJobs
    BY <1>2
  <2> QED
    BY <2>1 DEF ChangeJobs
<1>4. change' = [d \in DOMAIN change |-> seen(d)]
  BY <1>1
<1> HIDE DEF seen
<1>5. change' \in Seq(ChangeJobs) /\ DOMAIN change' = DOMAIN change
  <2>1. Len(change) \in Nat /\ DOMAIN change = 1 .. Len(change)
    BY <1>2
  <2>2. \A d \in 1 .. Len(change) : change'[d] \in ChangeJobs
    BY <1>3, <1>4, <2>1
  <2>3. change' = [d \in 1 .. Len(change) |-> change'[d]]
    BY <1>4, <2>1
  <2> QED
    BY <2>1, <2>2, <2>3
<1>6. WorkTyped'
  BY <1>1, <1>2, <1>5 DEF WorkTyped, Work!Trees
<1>7. ASSUME NEW d \in DOMAIN change PROVE OnCourse(change[d])'
  <2>1. change'[d] = seen(d) /\ OnCourse(change[d]) /\ change[d] \in ChangeJobs
    BY <1>2, <1>4 DEF WorkInv
  <2>2. Bounded(seen(d))
    BY <1>3, <2>1 DEF OnCourse, Bounded
  <2>3. ASSUME seen(d).alone, NEW g \in seen(d).paths PROVE Reached(seen(d), g, head'[g], index'[g], tree'[g])
    <3>1. g \in change[d].paths /\ g \in WorkspaceFiles /\ g # f
      BY <1>3, <2>1, <2>3 DEF ChangeJobs
    <3>2. head'[g] = head[g] /\ index'[g] = index[g] /\ tree'[g] = tree[g]
      BY <1>1, <1>2, <3>1 DEF WorkTyped, Work!Trees
    <3>3. Reached(change[d], g, head[g], index[g], tree[g])
      BY <1>3, <2>1, <2>3, <3>1 DEF OnCourse
    <3> QED
      BY <1>3, <3>2, <3>3 DEF Reached
  <2> QED
    BY <2>1, <2>2, <2>3 DEF OnCourse
<1> QED
  BY <1>5, <1>6, <1>7 DEF WorkInv

LEMMA AddStep == ASSUME WorkInv, NEW c \in DOMAIN change, Work!Add(c) PROVE WorkInv'
<1>1. change[c] \in ChangeJobs /\ Bounded(change[c]) /\ change[c].paths \in SUBSET WorkspaceFiles
  BY JobTyped
<1>2. change[c].pc = "add" /\ change[c].kind = "commit" /\ UNCHANGED <<head, tree>> /\ WorkTyped
  BY <1>1 DEF Work!Add, Bounded, Work!Unmoved, WorkInv
<1>3. CASE index' = Work!Over(index, tree, change[c].paths)
           /\ \E rec \in {[change[c] EXCEPT !.pc = "commit"], Work!Answered(c, "failed")} : Work!Step(c, rec)
  <2>1. PICK rec \in {[change[c] EXCEPT !.pc = "commit"], Work!Answered(c, "failed")} : Work!Step(c, rec)
    BY <1>3
  <2>2. /\ rec \in ChangeJobs /\ rec.paths = change[c].paths /\ rec.kind = "commit" /\ rec.answer # "ok"
        /\ rec.touched = change[c].touched /\ rec.others \subseteq rec.paths /\ rec.known \subseteq rec.paths
        /\ rec.pc \in {"commit", "idle"} /\ (rec.answer # "none" => rec.pc = "idle")
    BY <1>1, <1>2, AnswerTyped DEF ChangeJobs, Bounded
  <2>3. index' \in Work!Trees /\ Work!Changed \subseteq change[c].paths
    BY <1>1, <1>2, <1>3, OverTyped DEF WorkTyped, Work!Changed, Work!Differ
  <2>4. Bounded(Marked(rec))
    BY <1>1, <2>2, <2>3 DEF Bounded, Marked, ChangeJobs
  <2>5. Arrives(rec)
    BY <2>2 DEF Arrives, Reached
  <2>6. head' \in Work!Trees /\ tree' \in Work!Trees /\ Work!Changed \subseteq rec.paths
    BY <1>2, <2>2, <2>3 DEF WorkTyped
  <2> QED
    BY <2>1, <2>2, <2>3, <2>4, <2>5, <2>6, JobsStep
<1>4. CASE Work!Unmoved /\ \E answer \in {"refused", "failed"} : Work!Step(c, Work!Answered(c, answer))
  BY <1>2, <1>4, AnswerStep
<1> QED
  BY <1>3, <1>4 DEF Work!Add

LEMMA CommitStep == ASSUME WorkInv, NEW c \in DOMAIN change, Work!Commit(c) PROVE WorkInv'
<1>1. change[c] \in ChangeJobs /\ Bounded(change[c]) /\ change[c].paths \in SUBSET WorkspaceFiles
  BY JobTyped
<1>2. change[c].kind = "commit" /\ UNCHANGED tree /\ WorkTyped
  BY <1>1 DEF Work!Commit, Bounded, Work!Unmoved, WorkInv
<1>3. CASE /\ head' = Work!Over(head, tree, change[c].paths) /\ index' = Work!Over(index, tree, change[c].paths)
           /\ \E answer \in {"ok", "failed"} : Work!Step(c, Work!Answered(c, answer))
  <2>1. PICK answer \in {"ok", "failed"} : Work!Step(c, Work!Answered(c, answer))
    BY <1>3
  <2> DEFINE rec == Work!Answered(c, answer)
  <2>2. /\ rec \in ChangeJobs /\ rec.pc = "idle" /\ rec.answer = answer /\ rec.kind = "commit"
        /\ rec.paths = change[c].paths /\ rec.touched = change[c].touched /\ rec.others = {} /\ rec.known = {}
    BY <1>1, <1>2, AnswerTyped
  <2>3. /\ head' \in Work!Trees /\ index' \in Work!Trees /\ tree' \in Work!Trees
        /\ Work!Changed \subseteq change[c].paths
        /\ \A f \in change[c].paths : head'[f] = tree[f] /\ index'[f] = tree[f]
    BY <1>1, <1>2, <1>3, OverTyped DEF WorkTyped, Work!Changed, Work!Differ
  <2>4. Work!Step(c, rec)
    BY <2>1
  <2> HIDE DEF rec
  <2>5. Bounded(Marked(rec))
    BY <1>1, <2>2, <2>3 DEF Bounded, Marked, ChangeJobs
  <2>6. Arrives(rec)
    BY <1>2, <2>2, <2>3 DEF Arrives, Reached
  <2>7. Work!Changed \subseteq rec.paths
    BY <2>2, <2>3
  <2> QED
    BY <2>2, <2>3, <2>4, <2>5, <2>6, <2>7, JobsStep
<1>4. CASE Work!Unmoved /\ \E answer \in {"refused", "failed"} : Work!Step(c, Work!Answered(c, answer))
  BY <1>2, <1>4, AnswerStep
<1> QED
  BY <1>3, <1>4 DEF Work!Commit, Work!Committed

LEMMA ListOthersStep == ASSUME WorkInv, NEW c \in DOMAIN change, Work!ListOthers(c) PROVE WorkInv'
<1>1. change[c] \in ChangeJobs /\ Bounded(change[c]) /\ change[c].paths \in SUBSET WorkspaceFiles
  BY JobTyped
<1>2. /\ change[c].pc = "others" /\ change[c].kind = "revert" /\ change[c].touched = {}
      /\ change[c].answer = "none"
      /\ UNCHANGED <<head, index, tree>> /\ Work!Changed = {} /\ WorkTyped
  BY <1>1, NothingChanges DEF Work!ListOthers, Bounded, Work!Unmoved, WorkInv, ChangeJobs
<1> DEFINE rec == [change[c] EXCEPT !.pc = "tracked", !.others = Work!Untracked \cap change[c].paths]
<1>3. /\ rec \in ChangeJobs /\ rec.pc = "tracked" /\ rec.answer = "none" /\ rec.kind = "revert"
      /\ rec.paths = change[c].paths /\ rec.touched = {} /\ rec.others \subseteq rec.paths
      /\ rec.known = change[c].known
  BY <1>1, <1>2 DEF ChangeJobs
<1>4. Work!Step(c, rec)
  BY DEF Work!ListOthers
<1> HIDE DEF rec
<1>5. head' \in Work!Trees /\ index' \in Work!Trees /\ tree' \in Work!Trees /\ Work!Changed \subseteq rec.paths
  BY <1>2 DEF WorkTyped
<1>6. Bounded(Marked(rec))
  BY <1>1, <1>2, <1>3 DEF Bounded, Marked, ChangeJobs
<1>7. Arrives(rec)
  BY <1>3 DEF Arrives, Reached
<1> QED
  BY <1>3, <1>4, <1>5, <1>6, <1>7, JobsStep

\* What git does not know of the paths was listed as untracked, and is neither
\* in the index nor in HEAD.
LEMMA ListTrackedStep == ASSUME WorkInv, NEW c \in DOMAIN change, Work!ListTracked(c) PROVE WorkInv'
<1>1. change[c] \in ChangeJobs /\ Bounded(change[c]) /\ change[c].paths \in SUBSET WorkspaceFiles
  BY JobTyped
<1>2. /\ change[c].pc = "tracked" /\ change[c].kind = "revert" /\ change[c].touched = {}
      /\ change[c].answer = "none"
      /\ UNCHANGED <<head, index, tree>> /\ Work!Changed = {} /\ WorkTyped /\ Work!Unmoved
  BY <1>1, NothingChanges DEF Work!ListTracked, Bounded, Work!Unmoved, WorkInv, ChangeJobs
<1> DEFINE known == Work!Tracked \cap change[c].paths
           rec == [change[c] EXCEPT !.known = known, !.pc = IF known = {} THEN "remove" ELSE "restore"]
<1>3. CASE \E answer \in {"refused", "failed"} : Work!Step(c, Work!Answered(c, answer))
  BY <1>2, <1>3, AnswerStep
<1>4. CASE ~(change[c].paths \subseteq known \cup change[c].others) /\ Work!Step(c, Work!Answered(c, "refused"))
  BY <1>2, <1>4, AnswerStep
<1>5. CASE change[c].paths \subseteq known \cup change[c].others /\ Work!Step(c, rec)
  <2>1. /\ rec \in ChangeJobs /\ rec.pc \in {"remove", "restore"} /\ rec.answer = "none"
        /\ rec.kind = "revert" /\ rec.paths = change[c].paths /\ rec.touched = {}
        /\ rec.others = change[c].others /\ rec.known = known
        /\ (rec.pc = "remove" => known = {})
    BY <1>1, <1>2 DEF ChangeJobs
  <2>2. Work!Step(c, rec)
    BY <1>5
  <2> HIDE DEF rec
  <2>3. head' \in Work!Trees /\ index' \in Work!Trees /\ tree' \in Work!Trees /\ Work!Changed \subseteq rec.paths
    BY <1>2 DEF WorkTyped
  <2>4. Bounded(Marked(rec))
    BY <1>1, <1>2, <2>1 DEF Bounded, Marked, ChangeJobs
  <2>5. ASSUME NEW f \in rec.paths PROVE Reached(rec, f, head'[f], index'[f], tree'[f])
    <3>1. f \in WorkspaceFiles /\ f \in known \cup rec.others
      BY <1>1, <1>5, <2>1, <2>5
    <3>2. f \notin known => index[f] = head[f]
      BY <2>1, <2>5, <3>1 DEF Work!Tracked
    <3> QED
      BY <1>2, <2>1, <3>1, <3>2 DEF Reached
  <2>6. Arrives(rec)
    BY <2>5 DEF Arrives
  <2> QED
    BY <2>1, <2>2, <2>3, <2>4, <2>6, JobsStep
<1> QED
  BY <1>3, <1>4, <1>5 DEF Work!ListTracked

LEMMA RestoreStep == ASSUME WorkInv, NEW c \in DOMAIN change, Work!Restore(c) PROVE WorkInv'
<1>1. change[c] \in ChangeJobs /\ Bounded(change[c]) /\ change[c].paths \in SUBSET WorkspaceFiles
  BY JobTyped
<1>2. /\ change[c].pc = "restore" /\ change[c].kind = "revert" /\ change[c].touched = {}
      /\ change[c].answer = "none" /\ change[c].known \subseteq change[c].paths
      /\ UNCHANGED head /\ WorkTyped
  BY <1>1 DEF Work!Restore, Bounded, Work!Unmoved, WorkInv, ChangeJobs
<1>3. CASE /\ tree' = Work!Over(tree, head, change[c].known) /\ index' = Work!Over(index, head, change[c].known)
           /\ Work!Step(c, [change[c] EXCEPT !.pc = "remove"])
  <2> DEFINE rec == [change[c] EXCEPT !.pc = "remove"]
  <2>1. /\ rec \in ChangeJobs /\ rec.pc = "remove" /\ rec.answer = "none" /\ rec.kind = "revert"
        /\ rec.paths = change[c].paths /\ rec.touched = {} /\ rec.others = change[c].others
        /\ rec.known = change[c].known /\ rec.alone = change[c].alone
    BY <1>1, <1>2 DEF ChangeJobs
  <2>2. Work!Step(c, rec)
    BY <1>3
  <2> HIDE DEF rec
  <2>3. /\ head' \in Work!Trees /\ index' \in Work!Trees /\ tree' \in Work!Trees
        /\ Work!Changed \subseteq change[c].known
        /\ \A f \in WorkspaceFiles :
             /\ index'[f] = IF f \in change[c].known THEN head[f] ELSE index[f]
             /\ tree'[f] = IF f \in change[c].known THEN head[f] ELSE tree[f]
    BY <1>1, <1>2, <1>3, OverTyped DEF WorkTyped, Work!Changed, Work!Differ
  <2>4. Bounded(Marked(rec))
    BY <1>1, <1>2, <2>1, <2>3 DEF Bounded, Marked, ChangeJobs
  <2>5. ASSUME rec.alone, NEW f \in rec.paths PROVE Reached(rec, f, head'[f], index'[f], tree'[f])
    <3>1. Reached(change[c], f, head[f], index[f], tree[f]) /\ f \in WorkspaceFiles
      BY <1>1, <2>1, <2>5 DEF WorkInv, OnCourse
    <3> QED
      BY <1>2, <2>1, <2>3, <3>1 DEF Reached
  <2>6. Arrives(rec)
    BY <2>5 DEF Arrives
  <2>7. Work!Changed \subseteq rec.paths
    BY <1>2, <2>1, <2>3
  <2> QED
    BY <2>1, <2>2, <2>3, <2>4, <2>6, <2>7, JobsStep
<1>4. CASE /\ \E F \in SUBSET change[c].known : tree' = Work!Over(tree, head, F)
           /\ index' \in {index, Work!Over(index, head, change[c].known)}
           /\ Work!Step(c, Work!Answered(c, "failed"))
  <2> DEFINE rec == Work!Answered(c, "failed")
  <2>1. /\ rec \in ChangeJobs /\ rec.pc = "idle" /\ rec.answer = "failed" /\ rec.kind = "revert"
        /\ rec.paths = change[c].paths /\ rec.touched = {} /\ rec.others = {} /\ rec.known = {}
    BY <1>1, <1>2, AnswerTyped
  <2>2. Work!Step(c, rec)
    BY <1>4
  <2> HIDE DEF rec
  <2>3. PICK F \in SUBSET change[c].known : tree' = Work!Over(tree, head, F)
    BY <1>4
  <2>4. tree' \in Work!Trees /\ Work!Differ(tree, tree') \subseteq F
    BY <1>1, <1>2, <2>3, OverTyped DEF WorkTyped
  <2>5. index' \in Work!Trees /\ Work!Differ(index, index') \subseteq change[c].known
    <3>1. CASE index' = index
      BY <1>2, <3>1 DEF WorkTyped, Work!Differ
    <3>2. CASE index' = Work!Over(index, head, change[c].known)
      BY <1>1, <1>2, <3>2, OverTyped DEF WorkTyped
    <3> QED
      BY <1>4, <3>1, <3>2
  <2>6. head' \in Work!Trees /\ Work!Changed \subseteq rec.paths
    BY <1>2, <2>1, <2>4, <2>5 DEF WorkTyped, Work!Changed, Work!Differ
  <2>7. Bounded(Marked(rec))
    BY <1>1, <1>2, <2>1, <2>6 DEF Bounded, Marked, ChangeJobs
  <2>8. Arrives(rec)
    BY <2>1 DEF Arrives, Reached
  <2> QED
    BY <2>1, <2>2, <2>4, <2>5, <2>6, <2>7, <2>8, JobsStep
<1>5. CASE Work!Unmoved /\ Work!Step(c, Work!Answered(c, "refused"))
  BY <1>2, <1>5, AnswerStep
<1> QED
  BY <1>3, <1>4, <1>5 DEF Work!Restore, Work!Restored

LEMMA RemoveStep == ASSUME WorkInv, NEW c \in DOMAIN change, Work!Remove(c) PROVE WorkInv'
<1>1. change[c] \in ChangeJobs /\ Bounded(change[c]) /\ change[c].paths \in SUBSET WorkspaceFiles
  BY JobTyped
<1>2. /\ change[c].pc = "remove" /\ change[c].kind = "revert" /\ change[c].answer = "none"
      /\ UNCHANGED <<head, index>> /\ WorkTyped
  BY <1>1 DEF Work!Remove, Bounded, WorkInv, ChangeJobs
<1>3. \A f \in change[c].paths : change[c].alone => Reached(change[c], f, head[f], index[f], tree[f])
  BY DEF WorkInv, OnCourse
<1>4. CASE change[c].others = {} /\ UNCHANGED tree /\ Work!Step(c, Work!Answered(c, "ok"))
  <2> DEFINE rec == Work!Answered(c, "ok")
  <2>1. /\ rec \in ChangeJobs /\ rec.pc = "idle" /\ rec.answer = "ok" /\ rec.kind = "revert"
        /\ rec.paths = change[c].paths /\ rec.touched = change[c].touched /\ rec.others = {}
        /\ rec.known = {} /\ rec.alone = change[c].alone
    BY <1>1, <1>2, AnswerTyped
  <2>2. Work!Step(c, rec) /\ Work!Changed = {}
    BY <1>2, <1>4, NothingChanges
  <2> HIDE DEF rec
  <2>3. head' \in Work!Trees /\ index' \in Work!Trees /\ tree' \in Work!Trees /\ Work!Changed \subseteq rec.paths
    BY <1>2, <1>4, <2>2 DEF WorkTyped
  <2>4. Bounded(Marked(rec))
    BY <1>1, <2>1, <2>2 DEF Bounded, Marked, ChangeJobs
  <2>5. Arrives(rec)
    BY <1>2, <1>3, <1>4, <2>1 DEF Arrives, Reached
  <2> QED
    BY <2>1, <2>2, <2>3, <2>4, <2>5, JobsStep
<1>5. ASSUME NEW f \in change[c].others, tree' = [tree EXCEPT ![f] = NoText],
             Work!Step(c, [change[c] EXCEPT !.others = @ \ {f}])
      PROVE  WorkInv'
  <2> DEFINE rec == [change[c] EXCEPT !.others = @ \ {f}]
  <2>1. /\ rec \in ChangeJobs /\ rec.pc = "remove" /\ rec.answer = "none" /\ rec.kind = "revert"
        /\ rec.paths = change[c].paths /\ rec.touched = change[c].touched
        /\ rec.others = change[c].others \ {f} /\ rec.known = change[c].known /\ rec.alone = change[c].alone
    BY <1>1, <1>2 DEF ChangeJobs
  <2>2. Work!Step(c, rec)
    BY <1>5
  <2> HIDE DEF rec
  <2>3. f \in change[c].paths /\ f \in WorkspaceFiles
    BY <1>1, <1>5 DEF Bounded
  <2>4. /\ head' \in Work!Trees /\ index' \in Work!Trees /\ tree' \in Work!Trees
        /\ Work!Changed \subseteq rec.paths
        /\ \A g \in WorkspaceFiles : tree'[g] = IF g = f THEN NoText ELSE tree[g]
    BY <1>2, <1>5, <2>1, <2>3 DEF WorkTyped, Work!Trees, Work!Changed, Work!Differ
  <2>5. Bounded(Marked(rec))
    BY <1>1, <1>2, <2>1, <2>4 DEF Bounded, Marked, ChangeJobs
  <2>6. Arrives(rec)
    BY <1>1, <1>2, <1>3, <2>1, <2>4 DEF Arrives, Reached
  <2> QED
    BY <2>1, <2>2, <2>4, <2>5, <2>6, JobsStep
<1>6. CASE UNCHANGED tree /\ Work!Step(c, Work!Answered(c, "failed"))
  BY <1>2, <1>6, AnswerStep DEF Work!Unmoved, Work!Remove
<1> QED
  BY <1>4, <1>5, <1>6 DEF Work!Remove

LEMMA WorkStep == ASSUME WorkInv, Work!Next PROVE WorkInv'
BY RequestStep, EditStep, AddStep, CommitStep, ListOthersStep, ListTrackedStep, RestoreStep, RemoveStep
   DEF Work!Next

LEMMA WorkStays == ASSUME WorkInv, UNCHANGED work PROVE WorkInv'
BY DEF WorkInv, WorkTyped, OnCourse, work

LEMMA WorkSound == ASSUME WorkInv PROVE Work!OnlyRequested /\ Work!CommitIsWhole /\ Work!RevertIsDone
<1>1. ASSUME NEW c \in DOMAIN change PROVE OnCourse(change[c])
  BY DEF WorkInv
<1> QED
  BY <1>1 DEF Work!OnlyRequested, Work!CommitIsWhole, Work!RevertIsDone, Work!Undisturbed,
              OnCourse, Bounded, Reached

-----------------------------------------------------------------------------
(* The plugins.                                                              *)

ProfileEntries == Plugins \cup {Runtime}
In(prof) == {p \in Plugins : Market!Contains(prof, p)}

MarketJobs ==
    [op : {"idle", "install", "enable", "disable", "uninstall"}, plugin : Plugins \cup {NoPlugin},
     step : Market!Steps, missing : SUBSET Plugins, enable : SUBSET Plugins, deferred : BOOLEAN,
     known : SUBSET Plugins, index : Nat, anchor : Plugins \cup {Runtime, NoPlugin},
     saved : [profile : Seq(ProfileEntries), disabled : SUBSET Plugins],
     manifest : SUBSET Plugins, leased : BOOLEAN]

\* A profile file, and what it switches off.
Profile(prof, off) ==
    prof \in Seq(ProfileEntries) /\ Market!IsInjective(prof) /\ off \subseteq In(prof)

StoresTyped ==
    /\ Profile(profile, disabled)
    /\ loader \in [Plugins -> {"absent", "on", "off"}]
    /\ packages \subseteq Plugins

FlagsTyped == inFlight \in BOOLEAN /\ interrupted \in BOOLEAN /\ reply \in Market!Answers

\* What an enabled plugin depends on is enabled.
Whole(prof, off) ==
    \A p \in In(prof) \ off : DependsOn[p] \subseteq In(prof) \ off

\* Between two changes, and wherever a change may stop.
Calm ==
    /\ Market!Loaded \subseteq In(profile)
    /\ ~interrupted => Whole(profile, disabled)

\* The copy of the profile that a change goes back to when it fails.
Restorable(j) ==
    /\ Profile(j.saved.profile, j.saved.disabled)
    /\ ~interrupted => Whole(j.saved.profile, j.saved.disabled)

PlanOf(j) == Market!ToSet(Plan[j.plugin])
Needs(j) == Market!Dependencies(j.plugin)

\* Which steps a change takes.
Proper(j) ==
    /\ j.plugin \in Plugins /\ j.op # "idle" /\ (j.leased => j.step = "unwind")
    /\ j.op = "install" => j.step \in {"check", "npm", "enable", "write", "create", "unwind",
                                        "restoreProfile", "restoreManifest"}
    /\ j.op \in {"enable", "disable"} => j.step \in {"check", "update", "restoreProfile"}
    /\ j.op = "uninstall" => j.step \in {"check", "profile", "npm", "restoreProfile",
                                          "restoreManifest", "recreate"}

\* What an install has switched on in the profile so far are dependencies.
Trimmed(j) == disabled \subseteq j.saved.disabled /\ j.saved.disabled \ Needs(j) \subseteq disabled

\* The plan of an install is whole in the profile, but for the entries that the
\* loop has not come to.
WrittenFrom(j, n) ==
    /\ Trimmed(j) /\ Needs(j) \cap disabled = {}
    /\ j.known \subseteq In(profile) /\ In(profile) \subseteq j.known \cup PlanOf(j)
    /\ \A i \in DOMAIN Plan[j.plugin] : i > n => Plan[j.plugin][i] \in In(profile)

Installing(j) ==
    /\ j.missing = PlanOf(j) \ j.known /\ j.enable \subseteq Needs(j)
    /\ j.step = "npm" => /\ Calm /\ In(profile) = j.known /\ Needs(j) \cap disabled \subseteq j.enable
                         /\ j.index = Len(Plan[j.plugin])
    /\ j.step \in {"enable", "write", "create", "unwind", "restoreProfile"} =>
          /\ Restorable(j) /\ In(j.saved.profile) = j.known
          /\ Market!Loaded \subseteq j.known \cup j.missing
    /\ j.step \in {"enable", "write", "restoreProfile"} => Market!Loaded \subseteq j.known
    /\ j.step = "enable" => /\ profile = j.saved.profile /\ Trimmed(j)
                            /\ Needs(j) \cap disabled \subseteq j.enable
                            /\ j.index = Len(Plan[j.plugin])
    /\ j.step = "write" => j.index <= Len(Plan[j.plugin]) /\ WrittenFrom(j, j.index)
    /\ j.step = "create" \/ j.leased => WrittenFrom(j, 0)
    /\ j.step = "restoreManifest" => Calm /\ In(profile) = j.known

Toggling(j) ==
    /\ Restorable(j) /\ Market!Loaded \subseteq In(j.saved.profile)
    /\ j.step = "update" => Calm /\ In(j.saved.profile) = In(profile) /\ j.plugin \in Market!Loaded

Uninstalling(j) ==
    /\ Restorable(j) /\ Market!Loaded \subseteq In(j.saved.profile) \ {j.plugin}
    /\ ~j.deferred => j.plugin \in In(j.saved.profile)
    /\ j.step = "profile" => /\ profile = j.saved.profile /\ disabled = j.saved.disabled
                             /\ \A q \in In(profile) \ disabled : j.plugin \notin DependsOn[q]
    /\ j.step = "npm" => Calm
    /\ j.step \in {"restoreManifest", "recreate"} => Calm /\ j.plugin \in In(profile)

Changing(j) ==
    /\ Proper(j)
    /\ j.step = "check" => Calm
    /\ j.step # "check" => /\ j.op = "install" => Installing(j)
                           /\ j.op \in {"enable", "disable"} => Toggling(j)
                           /\ j.op = "uninstall" => Uninstalling(j)

OneChange ==
    /\ \A r \in Changers : job[r].step # "done" => inFlight
    /\ \A r, s \in Changers : job[r].step # "done" /\ job[s].step # "done" => r = s

\* As long as no step of a rollback has failed in silence.
ChangeInv ==
    /\ StoresTyped /\ FlagsTyped /\ job \in [Changers -> MarketJobs]
    /\ OneChange
    /\ \A r \in Changers : job[r].step # "done" => Changing(job[r])
    /\ (\A r \in Changers : job[r].step = "done") => Calm

\* What holds of a change whatever has been lost.
JobInv(j) ==
    /\ Profile(j.saved.profile, j.saved.disabled)
    /\ j.step # "done" => j.plugin \in Plugins
    /\ j.step \in {"npm", "enable", "write"} /\ j.op = "install" => j.index <= Len(Plan[j.plugin])

MarketTyped ==
    /\ StoresTyped /\ FlagsTyped /\ job \in [Changers -> MarketJobs]
    /\ swallowed \in BOOLEAN /\ (swallowed => interrupted)
    /\ \A r \in Changers : JobInv(job[r])

MarketInv == MarketTyped /\ (~swallowed => ChangeInv)

-----------------------------------------------------------------------------
(* Profiles                                                                  *)

LEMMA EntriesIn ==
    ASSUME NEW prof \in Seq(ProfileEntries)
    PROVE  /\ Len(prof) \in Nat /\ DOMAIN prof = 1 .. Len(prof)
           /\ \A i \in 1 .. Len(prof) : prof[i] \in ProfileEntries
           /\ \A p \in Plugins : p \in In(prof) <=> \E i \in 1 .. Len(prof) : prof[i] = p
BY DEF In, Market!Contains

Entries(s) == {s[i] : i \in DOMAIN s}

\* The entries of a profile that is written in two pieces.
LEMMA Joined ==
    ASSUME NEW s \in Seq(ProfileEntries), NEW t \in Seq(ProfileEntries)
    PROVE  /\ Market!IsInjective(s \o t) <=>
                 Market!IsInjective(s) /\ Market!IsInjective(t) /\ Entries(s) \cap Entries(t) = {}
           /\ Entries(s \o t) = Entries(s) \cup Entries(t)
<1> DEFINE c == s \o t
           n == Len(s)
           m == Len(t)
<1>1. /\ n \in Nat /\ m \in Nat
      /\ DOMAIN s = 1 .. n /\ DOMAIN t = 1 .. m /\ DOMAIN c = 1 .. n + m
      /\ \A i \in 1 .. n : c[i] = s[i]
      /\ \A i \in 1 .. m : c[n + i] = t[i]
  OBVIOUS
<1> HIDE DEF c, n, m
<1>2. ASSUME NEW i \in DOMAIN c
      PROVE  (i \in DOMAIN s /\ c[i] = s[i]) \/ (\E k \in DOMAIN t : i = n + k /\ c[i] = t[k])
  <2>1. CASE i <= n
    BY <2>1, <1>1
  <2>2. CASE ~(i <= n)
    <3>1. i - n \in DOMAIN t /\ n + (i - n) = i
      BY <2>2, <1>1
    <3> QED
      BY <3>1, <1>1
  <2> QED
    BY <2>1, <2>2
<1>3. Entries(c) = Entries(s) \cup Entries(t)
  <2>1. \A x \in Entries(c) : x \in Entries(s) \cup Entries(t)
    BY <1>2 DEF Entries
  <2>2. \A x \in Entries(s) : x \in Entries(c)
    BY <1>1 DEF Entries
  <2>3. ASSUME NEW k \in DOMAIN t PROVE t[k] \in Entries(c)
    <3>1. n + k \in DOMAIN c /\ c[n + k] = t[k]
      BY <1>1
    <3> QED
      BY <3>1 DEF Entries
  <2> QED
    BY <2>1, <2>2, <2>3 DEF Entries
<1>4. ASSUME Market!IsInjective(c)
      PROVE  Market!IsInjective(s) /\ Market!IsInjective(t) /\ Entries(s) \cap Entries(t) = {}
  <2>1. Market!IsInjective(s)
    BY <1>1, <1>4 DEF Market!IsInjective
  <2>2. \A k \in DOMAIN t : n + k \in DOMAIN c /\ c[n + k] = t[k]
    BY <1>1
  <2>3. \A k, l \in DOMAIN t : n + k = n + l => k = l
    BY <1>1
  <2>4. Market!IsInjective(t)
    BY <2>2, <2>3, <1>4 DEF Market!IsInjective
  <2>5. ASSUME NEW i \in DOMAIN s, NEW k \in DOMAIN t, s[i] = t[k] PROVE FALSE
    <3>1. i \in DOMAIN c /\ c[i] = c[n + k] /\ i # n + k
      BY <1>1, <2>2, <2>5
    <3> QED
      BY <3>1, <2>2, <1>4 DEF Market!IsInjective
  <2> QED
    BY <2>1, <2>4, <2>5 DEF Entries
<1>5. ASSUME Market!IsInjective(s), Market!IsInjective(t), Entries(s) \cap Entries(t) = {}
      PROVE  Market!IsInjective(c)
  <2> SUFFICES ASSUME NEW i \in DOMAIN c, NEW j \in DOMAIN c, c[i] = c[j]
               PROVE  i = j
    BY DEF Market!IsInjective
  <2>1. \A k \in DOMAIN s, l \in DOMAIN t : s[k] # t[l]
    BY <1>5 DEF Entries
  <2> QED
    BY <2>1, <1>2, <1>5 DEF Market!IsInjective
<1> QED
  BY <1>1, <1>3, <1>4, <1>5 DEF c

LEMMA OneEntry ==
    ASSUME NEW p \in Plugins
    PROVE  <<p>> \in Seq(ProfileEntries) /\ Market!IsInjective(<<p>>) /\ Entries(<<p>>) = {p}
BY DEF ProfileEntries, Entries, Market!IsInjective

LEMMA InEntries ==
    ASSUME NEW prof \in Seq(ProfileEntries)
    PROVE  In(prof) = Plugins \cap Entries(prof)
BY EntriesIn DEF Entries, In

\* A profile in two pieces.
LEMMA Pieces ==
    ASSUME NEW prof \in Seq(ProfileEntries), NEW k \in Nat, k <= Len(prof)
    PROVE  /\ SubSeq(prof, 1, k) \in Seq(ProfileEntries)
           /\ SubSeq(prof, k + 1, Len(prof)) \in Seq(ProfileEntries)
           /\ prof = SubSeq(prof, 1, k) \o SubSeq(prof, k + 1, Len(prof))
<1>1. PICK n \in Nat : n = Len(prof) /\ \A i \in 1 .. n : prof[i] \in ProfileEntries
  BY EntriesIn
<1>2. PICK m \in Nat : m = k + 1
  OBVIOUS
<1>3. SubSeq(prof, 1, k) \in Seq(ProfileEntries)
  <2>1. \A i \in 1 .. k : prof[i] \in ProfileEntries
    BY <1>1
  <2> QED
    BY <2>1, SubSeqProperties
<1>4. SubSeq(prof, m, n) \in Seq(ProfileEntries)
  <2>1. \A i \in m .. n : prof[i] \in ProfileEntries
    BY <1>1, <1>2
  <2> QED
    BY <2>1, SubSeqProperties
<1>5. SubSeq(prof, 1, k) \o SubSeq(prof, k + 1, n) = SubSeq(prof, 1, n)
  <2>1. PICK one \in 1 .. Len(prof) + 1 : one = 1
    BY <1>1
  <2>2. k \in one - 1 .. Len(prof) /\ n \in k .. Len(prof)
    BY <1>1, <2>1
  <2>3. SubSeq(prof, one, k) \o SubSeq(prof, k + 1, n) = SubSeq(prof, one, n)
    BY <2>2, ConcatAdjacentSubSeq
  <2> QED
    BY <2>1, <2>3
<1>6. SubSeq(prof, 1, Len(prof)) = prof
  BY SubSeqFull
<1> QED
  BY <1>1, <1>2, <1>3, <1>4, <1>5, <1>6

LEMMA EntryAppended ==
    ASSUME NEW prof \in Seq(ProfileEntries), Market!IsInjective(prof), NEW p \in Plugins, p \notin In(prof)
    PROVE  LET new == Append(prof, p)
           IN  new \in Seq(ProfileEntries) /\ Market!IsInjective(new) /\ In(new) = In(prof) \cup {p}
<1>1. Append(prof, p) = prof \o <<p>> /\ <<p>> \in Seq(ProfileEntries) /\ Append(prof, p) \in Seq(ProfileEntries)
  BY OneEntry, AppendIsConcat, AppendProperties DEF ProfileEntries
<1>2. /\ Market!IsInjective(prof \o <<p>>) <=>
            Market!IsInjective(prof) /\ Market!IsInjective(<<p>>) /\ Entries(prof) \cap Entries(<<p>>) = {}
      /\ Entries(prof \o <<p>>) = Entries(prof) \cup Entries(<<p>>)
  BY <1>1, Joined
<1>3. In(prof) = Plugins \cap Entries(prof) /\ In(Append(prof, p)) = Plugins \cap Entries(Append(prof, p))
  BY <1>1, InEntries
<1> QED
  BY <1>1, <1>2, <1>3, OneEntry

\* An entry is put in at a place where it is not yet.
LEMMA Inserted ==
    ASSUME NEW prof \in Seq(ProfileEntries), Market!IsInjective(prof), NEW p \in Plugins, p \notin In(prof),
           NEW at \in 1 .. Len(prof)
    PROVE  LET new == Market!InsertAt(prof, at, p)
           IN  new \in Seq(ProfileEntries) /\ Market!IsInjective(new) /\ In(new) = In(prof) \cup {p}
<1>1. PICK k \in Nat : k + 1 = at /\ k = at - 1 /\ k <= Len(prof)
  <2>1. Len(prof) \in Nat /\ at - 1 \in Nat /\ at - 1 + 1 = at /\ at - 1 <= Len(prof)
    BY EntriesIn
  <2> QED
    BY <2>1
<1>2. PICK s1 \in Seq(ProfileEntries) : s1 = SubSeq(prof, 1, k)
  BY <1>1, Pieces
<1>3. PICK s3 \in Seq(ProfileEntries) : s3 = SubSeq(prof, k + 1, Len(prof))
  BY <1>1, Pieces
<1>4. PICK s2 \in Seq(ProfileEntries) : s2 = <<p>> /\ Entries(s2) = {p} /\ Market!IsInjective(s2)
  BY OneEntry
<1>5. prof = s1 \o s3
  BY <1>1, <1>2, <1>3, Pieces
<1>6. Market!InsertAt(prof, at, p) = (s1 \o s2) \o s3
  BY <1>1, <1>2, <1>3, <1>4 DEF Market!InsertAt
<1>7. s1 \o s2 \in Seq(ProfileEntries) /\ (s1 \o s2) \o s3 \in Seq(ProfileEntries)
  BY ConcatProperties
<1>8. /\ Market!IsInjective(s1) /\ Market!IsInjective(s3) /\ Entries(s1) \cap Entries(s3) = {}
      /\ Entries(prof) = Entries(s1) \cup Entries(s3)
  BY <1>5, Joined
<1>9. In(prof) = Plugins \cap Entries(prof)
      /\ In((s1 \o s2) \o s3) = Plugins \cap Entries((s1 \o s2) \o s3)
  BY <1>7, InEntries
<1>10. Market!IsInjective(s1 \o s2) /\ Entries(s1 \o s2) = Entries(s1) \cup {p}
  <2>1. Entries(s1) \cap Entries(s2) = {}
    BY <1>4, <1>8, <1>9
  <2> QED
    BY <1>4, <1>8, <2>1, Joined
<1>11. Market!IsInjective((s1 \o s2) \o s3) /\ Entries((s1 \o s2) \o s3) = Entries(s1) \cup {p} \cup Entries(s3)
  <2>1. Entries(s1 \o s2) \cap Entries(s3) = {}
    BY <1>8, <1>9, <1>10
  <2> QED
    BY <1>7, <1>8, <1>10, <2>1, Joined
<1> QED
  BY <1>6, <1>7, <1>8, <1>9, <1>11

LEMMA Dropped ==
    ASSUME NEW prof \in Seq(ProfileEntries), Market!IsInjective(prof), NEW p \in Plugins, p \in In(prof)
    PROVE  LET new == Market!RemoveFirst(prof, p)
           IN  new \in Seq(ProfileEntries) /\ Market!IsInjective(new) /\ In(new) = In(prof) \ {p}
<1>1. /\ Len(prof) \in Nat /\ DOMAIN prof = 1 .. Len(prof)
      /\ \A i \in 1 .. Len(prof) : prof[i] \in ProfileEntries
  BY EntriesIn
<1>2. PICK at \in 1 .. Len(prof) : prof[at] = p
  BY EntriesIn
<1>3. {i \in 1 .. Len(prof) : prof[i] = p} = {at}
  BY <1>1, <1>2 DEF Market!IsInjective
<1>4. Market!Min({at}) = at
  BY <1>1, <1>2 DEF Market!Min
<1>5. PICK k \in Nat : k + 1 = at /\ k = at - 1 /\ k <= Len(prof) /\ at \in Nat /\ at <= Len(prof)
  <2>1. at - 1 \in Nat /\ at - 1 + 1 = at /\ at - 1 <= Len(prof) /\ at \in Nat /\ at <= Len(prof)
    BY <1>1, <1>2
  <2> QED
    BY <2>1
<1>6. PICK s1 \in Seq(ProfileEntries) : s1 = SubSeq(prof, 1, k)
  BY <1>5, Pieces
<1>7. PICK s3 \in Seq(ProfileEntries) : s3 = SubSeq(prof, at + 1, Len(prof))
  BY <1>5, Pieces
<1>8. PICK s2 \in Seq(ProfileEntries) : s2 = <<p>> /\ Entries(s2) = {p} /\ Market!IsInjective(s2)
  BY OneEntry
<1>9. Market!RemoveFirst(prof, p) = s1 \o s3
  BY <1>1, <1>2, <1>3, <1>4, <1>5, <1>6, <1>7 DEF Market!RemoveFirst, Market!SelectInSeq, Market!RemoveAt
<1>10. prof = (s1 \o s2) \o s3
  <2>1. SubSeq(prof, 1, at) = s1 \o s2
    <3>1. SubSeq(prof, 1, at) = SubSeq(prof, 1, at - 1) \o << prof[at] >>
      BY <1>1, <1>2, SubSeqRecursiveSecond
    <3> QED
      BY <1>2, <1>5, <1>6, <1>8, <3>1
  <2>2. prof = SubSeq(prof, 1, at) \o SubSeq(prof, at + 1, Len(prof))
    BY <1>5, Pieces
  <2> QED
    BY <1>7, <2>1, <2>2
<1>11. s1 \o s2 \in Seq(ProfileEntries) /\ s1 \o s3 \in Seq(ProfileEntries)
  BY ConcatProperties
<1>12. /\ Market!IsInjective(s1 \o s2) /\ Market!IsInjective(s3) /\ Entries(s1 \o s2) \cap Entries(s3) = {}
       /\ Entries(prof) = Entries(s1 \o s2) \cup Entries(s3)
  BY <1>10, <1>11, Joined
<1>13. /\ Market!IsInjective(s1) /\ Entries(s1) \cap {p} = {} /\ Entries(s1 \o s2) = Entries(s1) \cup {p}
  BY <1>8, <1>12, Joined
<1>14. Market!IsInjective(s1 \o s3) /\ Entries(s1 \o s3) = Entries(s1) \cup Entries(s3)
  BY <1>12, <1>13, Joined
<1>15. In(prof) = Plugins \cap Entries(prof) /\ In(s1 \o s3) = Plugins \cap Entries(s1 \o s3)
  BY <1>11, InEntries
<1> QED
  BY <1>9, <1>11, <1>12, <1>13, <1>14, <1>15

\* A plan holds what each of its entries needs, ahead of the plugin itself.
LEMMA Plans ==
    ASSUME NEW p \in Plugins
    PROVE  /\ Len(Plan[p]) \in Nat \ {0} /\ DOMAIN Plan[p] = 1 .. Len(Plan[p])
           /\ \A i \in DOMAIN Plan[p] : Plan[p][i] \in Plugins /\ Plan[p][i] \in Market!ToSet(Plan[p])
           /\ Market!ToSet(Plan[p]) \in SUBSET Plugins
           /\ Market!Dependencies(p) \subseteq Market!ToSet(Plan[p])
           /\ p \in Market!ToSet(Plan[p])
           /\ \A q \in Market!ToSet(Plan[p]) : \E i \in DOMAIN Plan[p] : Plan[p][i] = q
           /\ \A q \in Market!ToSet(Plan[p]) : DependsOn[q] \subseteq Market!Dependencies(p)
<1>1. /\ Plan[p] \in Seq(Plugins) /\ Plan[p] # << >> /\ Market!Last(Plan[p]) = p
      /\ \A q \in Market!ToSet(Plan[p]) : DependsOn[q] \subseteq Market!Dependencies(p)
  BY MarketAssumption DEF Market!CatalogAssumption, Market!Dependencies
<1>2. Len(Plan[p]) \in Nat \ {0} /\ DOMAIN Plan[p] = 1 .. Len(Plan[p])
      /\ \A i \in 1 .. Len(Plan[p]) : Plan[p][i] \in Plugins
  BY <1>1, EmptySeq
<1>3. Plan[p][Len(Plan[p])] = p
  BY <1>1 DEF Market!Last
<1> DEFINE s == Market!Front(Plan[p])
           m == Len(Plan[p]) - 1
<1>4. \A i \in DOMAIN s : \E k \in DOMAIN Plan[p] : s[i] = Plan[p][k]
  <2>1. m \in Int /\ \A i \in 1 .. m : Plan[p][i] \in Plugins
    BY <1>2
  <2>2. s \in Seq(Plugins) /\ Len(s) = (IF 1 <= m THEN m - 1 + 1 ELSE 0)
        /\ \A i \in 1 .. m - 1 + 1 : s[i] = Plan[p][1 + i - 1]
    BY <2>1, SubSeqProperties DEF Market!Front
  <2>3. DOMAIN s = 1 .. m
    BY <1>2, <2>2, LenProperties
  <2> QED
    BY <1>2, <2>2, <2>3
<1> QED
  BY <1>1, <1>2, <1>3, <1>4 DEF Market!ToSet, Market!Dependencies

-----------------------------------------------------------------------------
(* The changes                                                               *)

LEMMA AtRest ==
    /\ Market!Idle \in MarketJobs /\ JobInv(Market!Idle) /\ Market!Idle.step = "done"
    /\ \A op \in {"install", "enable", "disable", "uninstall"}, p \in Plugins :
          Market!Accepted(op, p) \in MarketJobs /\ JobInv(Market!Accepted(op, p))
<1>1. /\ Market!Idle.saved.profile = << >> /\ Market!Idle.saved.disabled = {}
      /\ Market!Idle.step = "done" /\ Market!Idle \in MarketJobs
  BY DEF Market!Idle, MarketJobs, Market!Steps, ProfileEntries
<1>2. Profile(<< >>, {})
  BY DEF Profile, Market!IsInjective
<1>3. JobInv(Market!Idle)
  BY <1>1, <1>2 DEF JobInv
<1>4. ASSUME NEW op \in {"install", "enable", "disable", "uninstall"}, NEW p \in Plugins
      PROVE  Market!Accepted(op, p) \in MarketJobs /\ JobInv(Market!Accepted(op, p))
  <2> DEFINE new == Market!Accepted(op, p)
  <2>1. new \in MarketJobs /\ new.plugin = p /\ new.step = "check" /\ new.saved = Market!Idle.saved
    <3> HIDE DEF Market!Idle
    <3> QED
      BY <1>1 DEF Market!Accepted, MarketJobs, Market!Steps
  <2> HIDE DEF new
  <2> QED
    BY <1>1, <1>2, <2>1 DEF JobInv, new
<1> QED
  BY <1>1, <1>3, <1>4

LEMMA MarketBegins == ASSUME Market!Init PROVE MarketInv
<1>1. profile = <<Runtime>> /\ disabled = {} /\ packages = {} /\ inFlight = FALSE /\ interrupted = FALSE
      /\ reply = "none" /\ swallowed = FALSE
      /\ loader = [p \in Plugins |-> "absent"] /\ job = [r \in Changers |-> Market!Idle]
  BY DEF Market!Init
<1>2. Runtime \notin Plugins
  BY MarketAssumption DEF Market!CatalogAssumption
<1>3. Profile(profile, disabled) /\ In(profile) = {}
  BY <1>1, <1>2 DEF Profile, ProfileEntries, In, Market!Contains, Market!IsInjective
<1>4. Market!Idle \in MarketJobs /\ Market!Idle.step = "done"
  BY DEF Market!Idle, MarketJobs, Market!Steps, ProfileEntries
<1>5. Calm
  BY <1>1, <1>3 DEF Calm, Whole, Market!Loaded
<1>6. StoresTyped /\ FlagsTyped
  BY <1>1, <1>3 DEF StoresTyped, FlagsTyped, Market!Answers
<1>7. JobInv(Market!Idle)
  BY AtRest
<1> HIDE DEF Market!Idle
<1>8. ChangeInv
  BY <1>1, <1>4, <1>5, <1>6 DEF ChangeInv, OneChange
<1> QED
  BY <1>1, <1>4, <1>6, <1>7, <1>8 DEF MarketInv, MarketTyped

\* The change that is under way.
LEMMA Busy ==
    ASSUME ChangeInv, NEW r \in Changers, job[r].step # "done"
    PROVE  /\ job[r] \in MarketJobs /\ Changing(job[r]) /\ job[r].plugin \in Plugins
           /\ StoresTyped /\ FlagsTyped
           /\ \A s \in Changers : s # r => job[s].step = "done"
BY DEF ChangeInv, Changing, Proper, OneChange

LEMMA Answering ==
    ASSUME ChangeInv, NEW r \in Changers, job[r].step # "done", NEW answer \in Market!Answers,
           Market!Answer(r, answer), UNCHANGED interrupted, StoresTyped', Calm'
    PROVE  ChangeInv'
<1>1. Market!Idle \in MarketJobs /\ Market!Idle.step = "done"
  BY DEF Market!Idle, MarketJobs, Market!Steps, ProfileEntries
<1>2. job' = [job EXCEPT ![r] = Market!Idle] /\ inFlight' = FALSE /\ reply' = answer
  BY DEF Market!Answer
<1> HIDE DEF Market!Idle
<1>3. job' \in [Changers -> MarketJobs] /\ \A s \in Changers : job'[s].step = "done"
  BY <1>1, <1>2, Busy DEF ChangeInv
<1>4. FlagsTyped'
  BY <1>2, Busy DEF FlagsTyped
<1> QED
  BY <1>3, <1>4 DEF ChangeInv, OneChange

LEMMA Continuing ==
    ASSUME ChangeInv, NEW r \in Changers, job[r].step # "done", NEW rec \in MarketJobs, rec.step # "done",
           Market!Continue(r, rec), UNCHANGED interrupted, StoresTyped', Changing(rec)'
    PROVE  ChangeInv'
<1>1. job' = [job EXCEPT ![r] = rec] /\ inFlight' = inFlight /\ reply' = "none"
  BY DEF Market!Continue
<1>2. job' \in [Changers -> MarketJobs] /\ job'[r] = rec
      /\ \A s \in Changers : s # r => job'[s].step = "done"
  BY <1>1, Busy DEF ChangeInv
<1>3. FlagsTyped'
  BY <1>1, Busy DEF FlagsTyped, Market!Answers
<1>4. OneChange'
  BY <1>1, <1>2 DEF ChangeInv, OneChange
<1>5. (\A s \in Changers : job[s].step # "done" => Changing(job[s]))'
  BY <1>2
<1> QED
  BY <1>2, <1>3, <1>4, <1>5 DEF ChangeInv

\* A change that goes on to another step.
SameBut(rec, j) ==
    /\ rec.op = j.op /\ rec.plugin = j.plugin /\ rec.missing = j.missing /\ rec.enable = j.enable
    /\ rec.deferred = j.deferred /\ rec.known = j.known /\ rec.index = j.index /\ rec.anchor = j.anchor
    /\ rec.saved = j.saved /\ rec.manifest = j.manifest /\ rec.leased = j.leased

LEMMA Going ==
    ASSUME NEW j \in MarketJobs, NEW step \in Market!Steps
    PROVE  \E rec \in MarketJobs : rec = [j EXCEPT !.step = step] /\ rec.step = step /\ SameBut(rec, j)
<1>1. [j EXCEPT !.step = step] \in MarketJobs
  BY DEF MarketJobs
<1> QED
  BY <1>1 DEF MarketJobs, SameBut

\* A rollback step that was not lost.
LEMMA Undone ==
    ASSUME ChangeInv, ~swallowed', NEW done, Market!Undo(done)
    PROVE  done /\ UNCHANGED interrupted
<1>1. interrupted' = (interrupted \/ ~done) /\ swallowed' = (swallowed \/ ~done)
  BY DEF Market!Undo
<1>2. interrupted \in BOOLEAN
  BY DEF ChangeInv, FlagsTyped
<1> QED
  BY <1>1, <1>2

\* What is at rest when nothing that is on disk or runs has changed.
LEMMA Still ==
    ASSUME UNCHANGED <<profile, disabled, loader, interrupted>>
    PROVE  /\ Calm' <=> Calm
           /\ Market!Loaded' = Market!Loaded /\ Market!Configured' = Market!Configured
BY DEF Calm, Market!Loaded, Market!Configured

LEMMA ArriveStep == ASSUME ChangeInv, Market!Arrive PROVE ChangeInv'
<1>1. PICK r \in Changers : job[r].step = "done" /\ Market!Accept(r)
  BY DEF Market!Arrive, Market!Free, Market!Accept
<1>2. PICK op \in {"install", "enable", "disable", "uninstall"}, p \in Plugins :
         job' = [job EXCEPT ![r] = Market!Accepted(op, p)]
  BY <1>1 DEF Market!Accept
<1>3. /\ ~inFlight /\ inFlight' /\ reply' = "none"
      /\ UNCHANGED <<profile, disabled, loader, packages, interrupted>>
  BY <1>1 DEF Market!Accept, Market!Stores, Market!history
<1>4. PICK rec \in MarketJobs : rec = Market!Accepted(op, p)
  <2>1. Market!Accepted(op, p) \in MarketJobs
    <3>1. Market!Idle \in MarketJobs
      BY DEF Market!Idle, MarketJobs, Market!Steps, ProfileEntries
    <3> QED
      BY <3>1 DEF Market!Accepted, MarketJobs, Market!Steps
  <2> QED
    BY <2>1
<1>5. rec.step = "check" /\ rec.op = op /\ rec.plugin = p /\ ~rec.leased
  BY <1>4 DEF Market!Accepted, Market!Idle
<1>6. (\A s \in Changers : job[s].step = "done") /\ Calm /\ StoresTyped /\ FlagsTyped
  BY <1>3 DEF ChangeInv, OneChange
<1>7. Changing(rec)'
  BY <1>3, <1>5, <1>6, Still DEF Changing, Proper
<1>8. StoresTyped' /\ FlagsTyped'
  BY <1>3, <1>6 DEF StoresTyped, FlagsTyped, Market!Answers
<1>9. job' \in [Changers -> MarketJobs] /\ job'[r] = rec /\ \A s \in Changers : s # r => job'[s].step = "done"
  BY <1>2, <1>4, <1>6 DEF ChangeInv
<1> QED
  BY <1>3, <1>5, <1>7, <1>8, <1>9 DEF ChangeInv, OneChange

\* A start makes good what a rollback has lost, but for what a change left half done.
LEMMA RestartStep == ASSUME MarketInv, Market!Restart PROVE ChangeInv'
<1>1. /\ loader' = [p \in Plugins |-> IF p \notin Market!Configured THEN "absent"
                                      ELSE IF p \in disabled THEN "off" ELSE "on"]
      /\ job' = [r \in Changers |-> Market!Idle] /\ reply' = "none" /\ inFlight' = FALSE
      /\ interrupted' = (interrupted \/ inFlight) /\ swallowed' = FALSE
      /\ UNCHANGED <<profile, disabled, packages>>
  BY DEF Market!Restart
<1>2. Market!Idle \in MarketJobs /\ Market!Idle.step = "done"
  BY DEF Market!Idle, MarketJobs, Market!Steps, ProfileEntries
<1>3. StoresTyped'
  BY <1>1 DEF MarketInv, MarketTyped, StoresTyped
<1>4. FlagsTyped'
  <2>1. (interrupted \/ inFlight) \in BOOLEAN
    OBVIOUS
  <2> QED
    BY <1>1, <2>1 DEF FlagsTyped, Market!Answers
<1>5. Market!Loaded' \subseteq In(profile')
  BY <1>1 DEF Market!Loaded, Market!Configured, In
<1>6. ASSUME ~interrupted' PROVE Whole(profile', disabled')
  <2>1. ~interrupted /\ ~inFlight
    BY <1>1, <1>6
  <2>2. Calm
    BY <2>1 DEF MarketInv, MarketTyped, ChangeInv, OneChange
  <2> QED
    BY <1>1, <2>1, <2>2 DEF Calm
<1>7. Calm'
  BY <1>5, <1>6 DEF Calm
<1> HIDE DEF Market!Idle
<1> QED
  BY <1>1, <1>2, <1>3, <1>4, <1>7 DEF ChangeInv, OneChange

-----------------------------------------------------------------------------
(* The install                                                               *)

\* Its plan is whole in the profile.
LEMMA PlanWhole ==
    ASSUME StoresTyped, NEW j \in MarketJobs, j.plugin \in Plugins, j.missing = PlanOf(j) \ j.known,
           Restorable(j), In(j.saved.profile) = j.known, WrittenFrom(j, 0),
           Market!Loaded \subseteq j.known \cup j.missing
    PROVE  Calm /\ Needs(j) \subseteq In(profile) \ disabled
<1>1. /\ PlanOf(j) \subseteq In(profile) /\ Needs(j) \subseteq PlanOf(j)
      /\ \A q \in PlanOf(j) : DependsOn[q] \subseteq Needs(j)
  <2>1. \A i \in DOMAIN Plan[j.plugin] : i > 0
    BY Plans
  <2> QED
    BY <2>1, Plans DEF WrittenFrom, PlanOf, Needs
<1>2. Needs(j) \subseteq In(profile) \ disabled
  BY <1>1 DEF WrittenFrom
<1>3. ASSUME ~interrupted, NEW p \in In(profile) \ disabled PROVE DependsOn[p] \subseteq In(profile) \ disabled
  <2>1. CASE p \in PlanOf(j)
    BY <1>1, <1>2, <2>1
  <2>2. CASE p \notin PlanOf(j)
    <3>1. p \in j.known \ j.saved.disabled
      BY <1>1, <1>3, <2>2 DEF WrittenFrom, Trimmed
    <3>2. DependsOn[p] \subseteq j.known \ j.saved.disabled
      BY <1>3, <3>1 DEF Restorable, Whole
    <3> QED
      BY <3>2 DEF WrittenFrom, Trimmed
  <2> QED
    BY <2>1, <2>2
<1>4. Market!Loaded \subseteq In(profile)
  BY <1>1 DEF WrittenFrom
<1> QED
  BY <1>2, <1>3, <1>4 DEF Calm, Whole

LEMMA InstallCheckStep ==
    ASSUME ChangeInv, NEW r \in Changers, Market!InstallCheck(r)
    PROVE  ChangeInv'
<1>1. job[r].op = "install" /\ job[r].step = "check"
      /\ UNCHANGED <<profile, disabled, loader, packages, interrupted>>
  BY DEF Market!InstallCheck, Market!At, Market!Stores, Market!history
<1>2. /\ job[r] \in MarketJobs /\ Changing(job[r]) /\ job[r].plugin \in Plugins /\ StoresTyped /\ Calm
      /\ ~job[r].leased
  BY <1>1, Busy DEF Changing, Proper
<1>3. StoresTyped' /\ Calm'
  BY <1>1, <1>2, Still DEF StoresTyped
<1> DEFINE p == job[r].plugin
           missing == Market!ToSet(Plan[p]) \ (Market!Loaded \cup Market!Configured)
           off == {q \in Market!Dependencies(p) : loader[q] = "off" \/ q \in disabled}
           pending == {q \in Market!Dependencies(p) : q \in Market!Configured \ Market!Loaded}
           new == [job[r] EXCEPT !.step = "npm", !.missing = missing, !.enable = off,
                      !.deferred = off # {} \/ pending # {}, !.known = Market!Configured,
                      !.manifest = packages, !.index = Len(Plan[p]), !.anchor = Market!runtimePlacement]
<1>4. CASE Market!Answer(r, "refused") \/ Market!Answer(r, "waiting")
  BY <1>1, <1>3, <1>4, Answering DEF Market!Answers
<1>5. CASE Market!Continue(r, new)
  <2>1. /\ missing \in SUBSET Plugins /\ off \in SUBSET Plugins /\ Market!Configured \in SUBSET Plugins
        /\ packages \in SUBSET Plugins /\ Len(Plan[p]) \in Nat
        /\ Market!runtimePlacement \in Plugins \cup {Runtime, NoPlugin}
        /\ (off # {} \/ pending # {}) \in BOOLEAN
    BY <1>2, Plans DEF Market!Configured, StoresTyped, Market!runtimePlacement
  <2>2. /\ new \in MarketJobs /\ new.step = "npm" /\ new.op = "install" /\ new.plugin = p
        /\ new.missing = missing /\ new.enable = off /\ new.known = Market!Configured
        /\ new.index = Len(Plan[p]) /\ new.leased = job[r].leased
    <3> HIDE DEF p, missing, off, pending
    <3> QED
      BY <1>1, <1>2, <2>1 DEF MarketJobs, Market!Steps, p
  <2>3. PICK rec \in MarketJobs : rec = new
    BY <2>2
  <2>4. /\ rec.missing = PlanOf(rec) \ rec.known /\ rec.enable \subseteq Needs(rec)
        /\ In(profile) = rec.known /\ Needs(rec) \cap disabled \subseteq rec.enable
        /\ rec.index = Len(Plan[rec.plugin])
    BY <1>2, <2>2, <2>3, Plans DEF Calm, PlanOf, Needs, Market!Configured, In
  <2>5. Changing(rec)'
    BY <1>1, <1>2, <1>3, <2>2, <2>3, <2>4 DEF Changing, Proper, Installing, PlanOf, Needs
  <2> HIDE DEF new
  <2> QED
    BY <1>1, <1>3, <1>5, <2>2, <2>3, <2>5, Continuing
<1> QED
  BY <1>4, <1>5 DEF Market!InstallCheck

LEMMA InstallNpmStep ==
    ASSUME ChangeInv, NEW r \in Changers, Market!InstallNpm(r)
    PROVE  ChangeInv'
<1>1. job[r].op = "install" /\ job[r].step = "npm" /\ UNCHANGED <<profile, disabled, loader, interrupted>>
  BY DEF Market!InstallNpm, Market!At, Market!history
<1>2. /\ job[r] \in MarketJobs /\ Changing(job[r]) /\ job[r].plugin \in Plugins /\ StoresTyped
      /\ ~job[r].leased /\ Installing(job[r]) /\ job[r].missing \in SUBSET Plugins
  <2>1. job[r] \in MarketJobs /\ Changing(job[r]) /\ job[r].plugin \in Plugins /\ StoresTyped
    BY <1>1, Busy
  <2>2. job[r].missing \in SUBSET Plugins
    BY <2>1 DEF MarketJobs
  <2> QED
    BY <1>1, <2>1, <2>2 DEF Changing, Proper
<1>3. Calm /\ Calm' /\ Market!Loaded' = Market!Loaded
  BY <1>1, <1>2, Still DEF Installing
<1>4. StoresTyped'
  <2>1. packages' \subseteq Plugins
    BY <1>2 DEF Market!InstallNpm, StoresTyped
  <2> QED
    BY <1>1, <1>2, <2>1 DEF StoresTyped
<1> DEFINE new == [job[r] EXCEPT !.step = "enable", !.saved = Market!Saved]
<1>5. CASE Market!Continue(r, new)
  <2>1. Market!Saved \in [profile : Seq(ProfileEntries), disabled : SUBSET Plugins]
        /\ Market!Saved.profile = profile /\ Market!Saved.disabled = disabled
    BY <1>2 DEF Market!Saved, StoresTyped, Profile, In
  <2>2. /\ new \in MarketJobs /\ new.step = "enable" /\ new.saved = Market!Saved /\ new.op = "install"
        /\ new.plugin = job[r].plugin /\ new.missing = job[r].missing /\ new.enable = job[r].enable
        /\ new.known = job[r].known /\ new.index = job[r].index /\ new.leased = job[r].leased
    <3> HIDE DEF Market!Saved
    <3> QED
      BY <1>1, <1>2, <2>1 DEF MarketJobs, Market!Steps
  <2>3. PICK rec \in MarketJobs : rec = new
    BY <2>2
  <2>4. Restorable(rec)'
    BY <1>1, <1>2, <1>3, <2>1, <2>2, <2>3 DEF Restorable, StoresTyped, Calm
  <2>5. rec.leased = FALSE /\ Proper(rec)
    BY <1>2, <2>2, <2>3 DEF Proper, MarketJobs
  <2>6. Installing(rec)'
    BY <1>1, <1>2, <1>3, <2>1, <2>2, <2>3, <2>4, <2>5
       DEF Installing, PlanOf, Needs, Trimmed, Calm
  <2> HIDE DEF new
  <2> QED
    BY <1>1, <1>4, <1>5, <2>2, <2>3, <2>5, <2>6, Continuing DEF Changing
<1>6. CASE Market!Goto(r, "restoreManifest")
  <2>1. PICK rec \in MarketJobs : /\ rec = [job[r] EXCEPT !.step = "restoreManifest"]
                                  /\ rec.step = "restoreManifest" /\ SameBut(rec, job[r])
    BY <1>2, Going DEF Market!Steps
  <2>2. Installing(rec)' /\ Proper(rec)
    BY <1>1, <1>2, <1>3, <2>1 DEF Installing, PlanOf, Needs, SameBut, Proper
  <2>3. Changing(rec)'
    BY <1>1, <2>1, <2>2 DEF Changing, SameBut
  <2> QED
    BY <1>1, <1>4, <1>6, <2>1, <2>3, Continuing DEF Market!Goto
<1> QED
  BY <1>5, <1>6 DEF Market!InstallNpm

LEMMA InstallEnableStep ==
    ASSUME ChangeInv, NEW r \in Changers, Market!InstallEnable(r)
    PROVE  ChangeInv'
<1>1. job[r].op = "install" /\ job[r].step = "enable" /\ UNCHANGED <<loader, packages, interrupted>>
  BY DEF Market!InstallEnable, Market!At, Market!history
<1>2. /\ job[r] \in MarketJobs /\ Changing(job[r]) /\ job[r].plugin \in Plugins /\ StoresTyped
      /\ ~job[r].leased /\ Installing(job[r]) /\ Proper(job[r])
  BY <1>1, Busy DEF Changing, Proper
<1>3. Market!Loaded' = Market!Loaded
  BY <1>1 DEF Market!Loaded
<1>4. CASE UNCHANGED <<profile, disabled>> /\ Market!Goto(r, "write") /\ job[r].enable = {}
  <2>1. PICK rec \in MarketJobs : /\ rec = [job[r] EXCEPT !.step = "write"]
                                  /\ rec.step = "write" /\ SameBut(rec, job[r])
    BY <1>2, Going DEF Market!Steps
  <2>2. rec.index <= Len(Plan[rec.plugin]) /\ \A i \in DOMAIN Plan[rec.plugin] : ~(i > rec.index)
    BY <1>1, <1>2, <2>1, Plans DEF Installing, SameBut
  <2>3. WrittenFrom(rec, rec.index)'
    BY <1>1, <1>2, <1>4, <2>1, <2>2 DEF WrittenFrom, Installing, Trimmed, PlanOf, Needs, SameBut
  <2>4. Installing(rec)'
    BY <1>1, <1>2, <1>3, <1>4, <2>1, <2>2, <2>3 DEF Installing, PlanOf, Needs, SameBut, Restorable
  <2>5. Changing(rec)' /\ StoresTyped'
    BY <1>1, <1>2, <1>4, <2>1, <2>4 DEF Changing, SameBut, Proper, StoresTyped
  <2> QED
    BY <1>1, <1>4, <2>1, <2>5, Continuing DEF Market!Goto
<1>5. CASE UNCHANGED <<profile, disabled>> /\ Market!Goto(r, "unwind")
  <2>1. PICK rec \in MarketJobs : /\ rec = [job[r] EXCEPT !.step = "unwind"]
                                  /\ rec.step = "unwind" /\ SameBut(rec, job[r])
    BY <1>2, Going DEF Market!Steps
  <2>2. Installing(rec)'
    BY <1>1, <1>2, <1>3, <1>5, <2>1 DEF Installing, PlanOf, Needs, SameBut, Restorable
  <2>3. Changing(rec)' /\ StoresTyped'
    BY <1>1, <1>2, <1>5, <2>1, <2>2 DEF Changing, SameBut, Proper, StoresTyped
  <2> QED
    BY <1>1, <1>5, <2>1, <2>3, Continuing DEF Market!Goto
<1>6. ASSUME NEW q \in job[r].enable, Market!MarkEntry(q, FALSE),
             Market!Continue(r, [job[r] EXCEPT !.enable = @ \ {q}])
      PROVE  ChangeInv'
  <2>1. disabled' = disabled \ {q} /\ UNCHANGED profile
    BY <1>6 DEF Market!MarkEntry
  <2> DEFINE new == [job[r] EXCEPT !.enable = @ \ {q}]
  <2>2. /\ new \in MarketJobs /\ new.step = "enable" /\ new.op = "install" /\ new.plugin = job[r].plugin
        /\ new.missing = job[r].missing /\ new.enable = job[r].enable \ {q} /\ new.saved = job[r].saved
        /\ new.known = job[r].known /\ new.index = job[r].index /\ new.leased = job[r].leased
    BY <1>1, <1>2 DEF MarketJobs
  <2>3. PICK rec \in MarketJobs : rec = new
    BY <2>2
  <2>4. q \in Needs(rec)
    BY <1>2, <1>6, <2>2, <2>3 DEF Installing, Needs
  <2>5. Trimmed(rec)' /\ (Needs(rec) \cap disabled') \subseteq rec.enable
    BY <1>1, <1>2, <2>1, <2>2, <2>3, <2>4 DEF Trimmed, Installing, Needs
  <2>6. Installing(rec)'
    BY <1>1, <1>2, <1>3, <2>1, <2>2, <2>3, <2>5 DEF Installing, PlanOf, Needs, Restorable
  <2>7. Changing(rec)' /\ StoresTyped'
    BY <1>1, <1>2, <2>1, <2>2, <2>3, <2>6 DEF Changing, Proper, StoresTyped, Profile
  <2> HIDE DEF new
  <2> QED
    BY <1>1, <1>6, <2>2, <2>3, <2>7, Continuing DEF new
<1> QED
  BY <1>4, <1>5, <1>6 DEF Market!InstallEnable

\* An entry is written ahead of the anchor, or at the end.
LEMMA AppendEntry ==
    ASSUME Profile(profile, disabled), NEW q \in Plugins, NEW anchor
    PROVE  LET new == Market!appendMarketplaceProfile(q, anchor)
           IN  Profile(new, disabled) /\ In(new) = In(profile) \cup {q}
<1>1. profile \in Seq(ProfileEntries) /\ Market!IsInjective(profile) /\ disabled \subseteq In(profile)
      /\ (Market!Contains(profile, q) <=> q \in In(profile))
  BY DEF Profile, In
<1>2. CASE q \in In(profile)
  BY <1>1, <1>2 DEF Market!appendMarketplaceProfile, Profile
<1>3. CASE q \notin In(profile) /\ Market!Contains(profile, anchor)
  <2>1. PICK at \in 1 .. Len(profile) : at = CHOOSE i \in DOMAIN profile : profile[i] = anchor
    <3>1. \E i \in DOMAIN profile : profile[i] = anchor
      BY <1>3 DEF Market!Contains
    <3> QED
      BY <1>1, <3>1, EntriesIn
  <2>2. Market!appendMarketplaceProfile(q, anchor) = Market!InsertAt(profile, at, q)
    BY <1>1, <1>3, <2>1 DEF Market!appendMarketplaceProfile
  <2> QED
    BY <1>1, <1>3, <2>2, Inserted DEF Profile
<1>4. CASE q \notin In(profile) /\ ~Market!Contains(profile, anchor)
  <2>1. Market!appendMarketplaceProfile(q, anchor) = Append(profile, q)
    BY <1>1, <1>4 DEF Market!appendMarketplaceProfile
  <2> QED
    BY <1>1, <1>4, <2>1, EntryAppended DEF Profile
<1> QED
  BY <1>2, <1>3, <1>4

LEMMA InstallWriteStep ==
    ASSUME ChangeInv, NEW r \in Changers, Market!InstallWrite(r)
    PROVE  ChangeInv'
<1> DEFINE i == job[r].index
           q == Plan[job[r].plugin][job[r].index]
           next == [job[r] EXCEPT !.index = @ - 1]
<1>1. /\ job[r].op = "install" /\ job[r].step = "write" /\ i > 0
      /\ UNCHANGED <<disabled, loader, packages, interrupted>>
      /\ \/ /\ IF q \in job[r].missing \ job[r].known
               THEN profile' = Market!appendMarketplaceProfile(q, job[r].anchor)
               ELSE UNCHANGED profile
            /\ Market!Continue(r, IF q \in job[r].known \cup job[r].missing
                          THEN [next EXCEPT !.anchor = q] ELSE next)
         \/ UNCHANGED profile /\ Market!Goto(r, "unwind")
  BY DEF Market!InstallWrite, Market!At, Market!history
<1>2. /\ job[r] \in MarketJobs /\ Changing(job[r]) /\ job[r].plugin \in Plugins /\ StoresTyped
      /\ ~job[r].leased /\ Installing(job[r]) /\ Proper(job[r])
      /\ WrittenFrom(job[r], i) /\ i \in Nat /\ i <= Len(Plan[job[r].plugin])
  <2>1. job[r] \in MarketJobs /\ Changing(job[r]) /\ job[r].plugin \in Plugins /\ StoresTyped
    BY <1>1, Busy
  <2>2. i \in Nat
    BY <2>1 DEF MarketJobs
  <2> QED
    BY <1>1, <2>1, <2>2 DEF Changing, Proper, Installing
<1>3. /\ i \in DOMAIN Plan[job[r].plugin] /\ q \in Plugins /\ q \in PlanOf(job[r]) /\ i - 1 \in Nat
      /\ i - 1 <= Len(Plan[job[r].plugin])
      /\ \A k \in DOMAIN Plan[job[r].plugin] : k \in Nat /\ (k > i - 1 <=> k = i \/ k > i)
  BY <1>1, <1>2, Plans DEF PlanOf
<1>4. CASE UNCHANGED profile /\ Market!Goto(r, "unwind")
  <2>1. PICK rec \in MarketJobs : /\ rec = [job[r] EXCEPT !.step = "unwind"]
                                  /\ rec.step = "unwind" /\ SameBut(rec, job[r])
    BY <1>2, Going DEF Market!Steps
  <2>2. Market!Loaded' = Market!Loaded
    BY <1>1 DEF Market!Loaded
  <2>3. Installing(rec)'
    BY <1>1, <1>2, <1>4, <2>1, <2>2 DEF Installing, PlanOf, Needs, SameBut, Restorable
  <2>4. Changing(rec)' /\ StoresTyped'
    BY <1>1, <1>2, <1>4, <2>1, <2>3 DEF Changing, SameBut, Proper, StoresTyped
  <2> QED
    BY <1>1, <1>4, <2>1, <2>4, Continuing DEF Market!Goto
<1>5. CASE /\ IF q \in job[r].missing \ job[r].known
              THEN profile' = Market!appendMarketplaceProfile(q, job[r].anchor)
              ELSE UNCHANGED profile
           /\ Market!Continue(r, IF q \in job[r].known \cup job[r].missing
                         THEN [next EXCEPT !.anchor = q] ELSE next)
  <2>1. \/ q \in job[r].known /\ profile' = profile
        \/ q \in job[r].missing \ job[r].known /\ profile' = Market!appendMarketplaceProfile(q, job[r].anchor)
    BY <1>2, <1>3, <1>5 DEF Installing
  <2>2. /\ Profile(profile', disabled') /\ In(profile') = In(profile) \cup {q}
    <3>1. CASE profile' = profile /\ q \in job[r].known
      BY <1>1, <1>2, <3>1 DEF StoresTyped, WrittenFrom
    <3>2. CASE profile' = Market!appendMarketplaceProfile(q, job[r].anchor)
      BY <1>1, <1>2, <1>3, <3>2, AppendEntry DEF StoresTyped
    <3> QED
      BY <2>1, <3>1, <3>2
  <2>3. PICK rec \in MarketJobs :
           /\ Market!Continue(r, rec) /\ rec.op = "install" /\ rec.step = "write" /\ rec.index = i - 1
           /\ rec.plugin = job[r].plugin /\ rec.missing = job[r].missing /\ rec.enable = job[r].enable
           /\ rec.known = job[r].known /\ rec.saved = job[r].saved /\ rec.leased = job[r].leased
    <3> DEFINE new == [next EXCEPT !.anchor = q]
    <3>1. q \in Plugins \cup {Runtime, NoPlugin}
      BY <1>3
    <3>2. /\ new \in MarketJobs /\ new.op = job[r].op /\ new.step = job[r].step /\ new.index = i - 1
          /\ new.plugin = job[r].plugin /\ new.missing = job[r].missing /\ new.enable = job[r].enable
          /\ new.known = job[r].known /\ new.saved = job[r].saved /\ new.leased = job[r].leased
      <4> HIDE DEF q
      <4> QED
        BY <1>2, <1>3, <3>1 DEF MarketJobs
    <3>3. Market!Continue(r, new)
      BY <1>5, <2>1
    <3> HIDE DEF new
    <3> QED
      BY <1>1, <3>2, <3>3
  <2>4. WrittenFrom(rec, rec.index)'
    <3>1. Trimmed(rec)' /\ (Needs(rec) \cap disabled)' = {}
      BY <1>1, <1>2, <2>3 DEF WrittenFrom, Trimmed, Needs
    <3>2. rec.known \subseteq In(profile') /\ In(profile') \subseteq rec.known \cup PlanOf(rec)
      BY <1>2, <1>3, <2>2, <2>3 DEF WrittenFrom, PlanOf
    <3>3. \A k \in DOMAIN Plan[rec.plugin] : k > rec.index => Plan[rec.plugin][k] \in In(profile')
      BY <1>2, <1>3, <2>2, <2>3 DEF WrittenFrom
    <3> QED
      BY <3>1, <3>2, <3>3 DEF WrittenFrom
  <2>5. Installing(rec)'
    <3>1. Market!Loaded' = Market!Loaded
      BY <1>1 DEF Market!Loaded
    <3> QED
      BY <1>1, <1>2, <1>3, <2>3, <2>4, <3>1 DEF Installing, PlanOf, Needs, Restorable
  <2>6. Changing(rec)' /\ StoresTyped'
    BY <1>1, <1>2, <2>2, <2>3, <2>5 DEF Changing, Proper, StoresTyped
  <2> QED
    BY <1>1, <2>3, <2>6, Continuing
<1> QED
  BY <1>1, <1>4, <1>5

LEMMA InstallWrittenStep ==
    ASSUME ChangeInv, NEW r \in Changers, Market!InstallWritten(r)
    PROVE  ChangeInv'
<1>1. /\ job[r].op = "install" /\ job[r].step = "write" /\ job[r].index = 0
      /\ UNCHANGED <<profile, disabled, loader, packages, interrupted>>
  BY DEF Market!InstallWritten, Market!At, Market!Stores, Market!history
<1>2. /\ job[r] \in MarketJobs /\ Changing(job[r]) /\ job[r].plugin \in Plugins /\ StoresTyped
      /\ ~job[r].leased /\ Installing(job[r]) /\ Proper(job[r]) /\ WrittenFrom(job[r], 0)
  BY <1>1, Busy DEF Changing, Proper, Installing
<1>3. StoresTyped' /\ Market!Loaded' = Market!Loaded
  BY <1>1, <1>2 DEF StoresTyped, Market!Loaded
<1>4. CASE Market!Answer(r, "installed")
  <2>1. Calm
    BY <1>1, <1>2, PlanWhole DEF Installing
  <2> QED
    BY <1>1, <1>3, <1>4, <2>1, Answering, Still DEF Market!Answers
<1>5. CASE Market!Continue(r, [job[r] EXCEPT !.step = "create", !.index = 1])
  <2> DEFINE new == [job[r] EXCEPT !.step = "create", !.index = 1]
  <2>1. /\ new \in MarketJobs /\ new.step = "create" /\ new.op = "install" /\ new.plugin = job[r].plugin
        /\ new.missing = job[r].missing /\ new.enable = job[r].enable /\ new.saved = job[r].saved
        /\ new.known = job[r].known /\ new.leased = job[r].leased
    BY <1>1, <1>2 DEF MarketJobs, Market!Steps
  <2>2. PICK rec \in MarketJobs : rec = new
    BY <2>1
  <2>3. WrittenFrom(rec, 0)'
    BY <1>1, <1>2, <2>1, <2>2 DEF WrittenFrom, Trimmed, PlanOf, Needs
  <2>4. Installing(rec)'
    BY <1>1, <1>2, <1>3, <2>1, <2>2, <2>3 DEF Installing, PlanOf, Needs, Restorable
  <2>5. Changing(rec)'
    BY <1>1, <1>2, <2>1, <2>2, <2>4 DEF Changing, Proper
  <2> HIDE DEF new
  <2> QED
    BY <1>1, <1>3, <1>5, <2>1, <2>2, <2>5, Continuing DEF new
<1> QED
  BY <1>4, <1>5 DEF Market!InstallWritten

LEMMA InstallCreateStep ==
    ASSUME ChangeInv, NEW r \in Changers, Market!InstallCreate(r)
    PROVE  ChangeInv'
<1>1. job[r].op = "install" /\ job[r].step = "create" /\ UNCHANGED <<profile, disabled, packages, interrupted>>
  BY DEF Market!InstallCreate, Market!At, Market!history
<1>2. /\ job[r] \in MarketJobs /\ Changing(job[r]) /\ job[r].plugin \in Plugins /\ StoresTyped
      /\ ~job[r].leased /\ Installing(job[r]) /\ Proper(job[r]) /\ WrittenFrom(job[r], 0)
  BY <1>1, Busy DEF Changing, Proper, Installing
<1>3. PICK i \in Market!Unstarted(r) :
        LET q == Plan[job[r].plugin][i]
        IN  /\ loader' = [loader EXCEPT ![q] = "on"]
            /\ \/ Market!Continue(r, [job[r] EXCEPT !.index = i + 1])
               \/ \E leased \in {FALSE, (q \in ToolPlugins)} :
                     Market!Continue(r, [job[r] EXCEPT !.step = "unwind", !.leased = leased])
  BY DEF Market!InstallCreate
<1> DEFINE q == Plan[job[r].plugin][i]
<1>4. i \in DOMAIN Plan[job[r].plugin] /\ q \in job[r].missing /\ q \in Plugins /\ i + 1 \in Nat
  BY <1>2, <1>3, Plans DEF Market!Unstarted
<1> HIDE DEF q
<1>5. StoresTyped' /\ Market!Loaded' \subseteq Market!Loaded \cup {q}
  <2>1. loader' = [loader EXCEPT ![q] = "on"]
    BY <1>3 DEF q
  <2>2. loader' \in [Plugins -> {"absent", "on", "off"}]
    BY <1>2, <1>4, <2>1 DEF StoresTyped
  <2>3. \A p \in Plugins : p # q => loader'[p] = loader[p]
    BY <1>2, <2>1 DEF StoresTyped
  <2> QED
    BY <1>1, <1>2, <2>2, <2>3 DEF StoresTyped, Market!Loaded
<1>6. CASE Market!Continue(r, [job[r] EXCEPT !.index = i + 1])
  <2> DEFINE new == [job[r] EXCEPT !.index = i + 1]
  <2>1. /\ new \in MarketJobs /\ new.step = "create" /\ new.op = "install" /\ new.plugin = job[r].plugin
        /\ new.missing = job[r].missing /\ new.enable = job[r].enable /\ new.saved = job[r].saved
        /\ new.known = job[r].known /\ new.leased = job[r].leased
    BY <1>1, <1>2, <1>4 DEF MarketJobs
  <2>2. PICK rec \in MarketJobs : rec = new
    BY <2>1
  <2>3. WrittenFrom(rec, 0)'
    BY <1>1, <1>2, <2>1, <2>2 DEF WrittenFrom, Trimmed, PlanOf, Needs
  <2>4. Installing(rec)'
    BY <1>1, <1>2, <1>4, <1>5, <2>1, <2>2, <2>3 DEF Installing, PlanOf, Needs, Restorable
  <2>5. Changing(rec)'
    BY <1>1, <1>2, <2>1, <2>2, <2>4 DEF Changing, Proper
  <2> HIDE DEF new
  <2> QED
    BY <1>1, <1>5, <1>6, <2>1, <2>2, <2>5, Continuing DEF new
<1>7. ASSUME NEW leased \in BOOLEAN, Market!Continue(r, [job[r] EXCEPT !.step = "unwind", !.leased = leased])
      PROVE  ChangeInv'
  <2> DEFINE new == [job[r] EXCEPT !.step = "unwind", !.leased = leased]
  <2>1. /\ new \in MarketJobs /\ new.step = "unwind" /\ new.op = "install" /\ new.plugin = job[r].plugin
        /\ new.missing = job[r].missing /\ new.enable = job[r].enable /\ new.saved = job[r].saved
        /\ new.known = job[r].known
    BY <1>1, <1>2 DEF MarketJobs, Market!Steps
  <2>2. PICK rec \in MarketJobs : rec = new
    BY <2>1
  <2>3. WrittenFrom(rec, 0)'
    BY <1>1, <1>2, <2>1, <2>2 DEF WrittenFrom, Trimmed, PlanOf, Needs
  <2>4. Installing(rec)'
    BY <1>1, <1>2, <1>4, <1>5, <2>1, <2>2, <2>3 DEF Installing, PlanOf, Needs, Restorable
  <2>5. Changing(rec)'
    BY <1>1, <1>2, <2>1, <2>2, <2>4 DEF Changing, Proper
  <2> HIDE DEF new
  <2> QED
    BY <1>1, <1>5, <1>7, <2>1, <2>2, <2>5, Continuing DEF new
<1>8. {FALSE, (q \in ToolPlugins)} \subseteq BOOLEAN
  OBVIOUS
<1> QED
  BY <1>3, <1>6, <1>7, <1>8 DEF q

LEMMA InstallCreatedStep ==
    ASSUME ChangeInv, NEW r \in Changers, Market!InstallCreated(r)
    PROVE  ChangeInv'
<1>1. /\ job[r].op = "install" /\ job[r].step = "create" /\ Market!Answer(r, "installed")
      /\ UNCHANGED <<profile, disabled, loader, packages, interrupted>>
  BY DEF Market!InstallCreated, Market!At, Market!Stores, Market!history
<1>2. /\ job[r] \in MarketJobs /\ Changing(job[r]) /\ job[r].plugin \in Plugins /\ StoresTyped
      /\ Installing(job[r]) /\ WrittenFrom(job[r], 0)
  BY <1>1, Busy DEF Changing, Proper, Installing
<1>3. Calm
  BY <1>1, <1>2, PlanWhole DEF Installing
<1> QED
  BY <1>1, <1>2, <1>3, Answering, Still DEF Market!Answers, StoresTyped

\* What runs after an install has taken back what it started.
LEMMA InstallUnwindStep ==
    ASSUME ChangeInv, ~swallowed', NEW r \in Changers, Market!InstallUnwind(r)
    PROVE  ChangeInv'
<1>1. /\ job[r].op = "install" /\ job[r].step = "unwind" /\ UNCHANGED <<profile, disabled, packages>>
      /\ UNCHANGED interrupted /\ loader' = [q \in Plugins |-> IF q \in job[r].missing THEN "absent" ELSE loader[q]]
      /\ IF job[r].leased THEN Market!Answer(r, "installed") ELSE Market!Goto(r, "restoreProfile")
  <2>1. PICK stuck \in SUBSET (job[r].missing \cap Market!Loaded) :
           /\ loader' = [q \in Plugins |-> IF q \in job[r].missing \ stuck THEN "absent" ELSE loader[q]]
           /\ Market!Undo(stuck = {})
    BY DEF Market!InstallUnwind
  <2>2. stuck = {} /\ UNCHANGED interrupted
    BY <2>1, Undone
  <2> QED
    BY <2>1, <2>2 DEF Market!InstallUnwind, Market!At
<1>2. /\ job[r] \in MarketJobs /\ Changing(job[r]) /\ job[r].plugin \in Plugins /\ StoresTyped
      /\ Installing(job[r]) /\ Proper(job[r])
  BY <1>1, Busy DEF Changing
<1>3. StoresTyped' /\ Market!Loaded' = Market!Loaded \ job[r].missing
  BY <1>1, <1>2 DEF StoresTyped, Market!Loaded
<1>4. CASE job[r].leased /\ Market!Answer(r, "installed")
  <2>1. Calm
    BY <1>1, <1>2, <1>4, PlanWhole DEF Installing
  <2>2. Calm'
    BY <1>1, <1>3, <2>1 DEF Calm
  <2> QED
    BY <1>1, <1>3, <1>4, <2>2, Answering DEF Market!Answers
<1>5. CASE ~job[r].leased /\ Market!Goto(r, "restoreProfile")
  <2>1. PICK rec \in MarketJobs : /\ rec = [job[r] EXCEPT !.step = "restoreProfile"]
                                  /\ rec.step = "restoreProfile" /\ SameBut(rec, job[r])
    BY <1>2, Going DEF Market!Steps
  <2>2. Installing(rec)'
    BY <1>1, <1>2, <1>3, <1>5, <2>1 DEF Installing, PlanOf, Needs, SameBut, Restorable
  <2>3. Changing(rec)'
    BY <1>1, <1>2, <1>5, <2>1, <2>2 DEF Changing, SameBut, Proper
  <2> QED
    BY <1>1, <1>3, <1>5, <2>1, <2>3, Continuing DEF Market!Goto
<1> QED
  BY <1>1, <1>4, <1>5

-----------------------------------------------------------------------------
(* The toggle and the uninstall                                              *)

LEMMA ToggleCheckStep ==
    ASSUME ChangeInv, NEW r \in Changers, Market!ToggleCheck(r)
    PROVE  ChangeInv'
<1> DEFINE p == job[r].plugin
<1>1. /\ job[r].op \in {"enable", "disable"} /\ job[r].step = "check"
      /\ UNCHANGED <<loader, packages, interrupted>>
  BY DEF Market!ToggleCheck, Market!history
<1>2. /\ job[r] \in MarketJobs /\ Changing(job[r]) /\ p \in Plugins /\ StoresTyped /\ Calm /\ job[r].leased = FALSE
  <2>1. job[r] \in MarketJobs /\ Changing(job[r]) /\ p \in Plugins /\ StoresTyped /\ Calm
    BY <1>1, Busy DEF Changing
  <2> QED
    BY <1>1, <2>1 DEF Changing, Proper, MarketJobs
<1>3. CASE Market!Answer(r, "refused") /\ UNCHANGED <<profile, disabled>>
  BY <1>1, <1>2, <1>3, Answering, Still DEF Market!Answers, StoresTyped
<1>4. ASSUME Market!ToggleAllowed(job[r].op, p), Market!MarkEntry(p, job[r].op = "disable"),
             Market!Continue(r, [job[r] EXCEPT !.step = "update", !.saved = Market!Saved])
      PROVE  ChangeInv'
  <2>1. /\ UNCHANGED profile /\ p \in In(profile) /\ p \in Market!Loaded
        /\ disabled' = IF job[r].op = "disable" THEN disabled \cup {p} ELSE disabled \ {p}
    BY <1>2, <1>4 DEF Market!MarkEntry, Market!ToggleAllowed, In
  <2>2. ASSUME job[r].op = "enable" PROVE Calm'
    <3>1. disabled' = disabled \ {p} /\ Market!Dependencies(p) \subseteq Market!marketplaceActivePackages
      BY <1>4, <2>1, <2>2 DEF Market!ToggleAllowed
    <3>2. Market!marketplaceActivePackages \subseteq In(profile) \ disabled
      BY <1>2 DEF Market!marketplaceActivePackages, Calm, Market!Loaded
    <3>3. DependsOn[p] \subseteq Market!Dependencies(p)
      BY <1>2, Plans
    <3> QED
      BY <1>1, <1>2, <2>1, <3>1, <3>2, <3>3 DEF Calm, Whole, Market!Loaded
  <2>3. ASSUME job[r].op = "disable" PROVE Calm'
    <3>1. disabled' = disabled \cup {p} /\ Market!marketplaceDependencyBlockers(p) = {}
      BY <1>4, <2>1, <2>3 DEF Market!ToggleAllowed
    <3>2. \A q \in In(profile) \ disabled : p \notin DependsOn[q]
      BY <3>1 DEF Market!marketplaceDependencyBlockers, Market!marketplaceEnabledPackages,
                  Market!Configured, In
    <3> QED
      BY <1>1, <1>2, <2>1, <3>1, <3>2 DEF Calm, Whole, Market!Loaded
  <2>4. Calm'
    BY <1>1, <2>2, <2>3
  <2>5. StoresTyped' /\ Market!Loaded' = Market!Loaded
    BY <1>1, <1>2, <2>1 DEF StoresTyped, Profile, Market!Loaded
  <2> DEFINE new == [job[r] EXCEPT !.step = "update", !.saved = Market!Saved]
  <2>6. Market!Saved \in [profile : Seq(ProfileEntries), disabled : SUBSET Plugins]
        /\ Market!Saved.profile = profile /\ Market!Saved.disabled = disabled
    BY <1>2 DEF Market!Saved, StoresTyped, Profile, In
  <2>7. /\ new \in MarketJobs /\ new.step = "update" /\ new.saved = Market!Saved /\ new.op = job[r].op
        /\ new.plugin = p /\ new.leased = job[r].leased
    <3> HIDE DEF Market!Saved
    <3> QED
      BY <1>1, <1>2, <2>6 DEF MarketJobs, Market!Steps
  <2>8. PICK rec \in MarketJobs : rec = new
    BY <2>7
  <2>9. Restorable(rec)'
    BY <1>1, <1>2, <2>6, <2>7, <2>8 DEF Restorable, StoresTyped, Calm
  <2>10. Toggling(rec)'
    BY <1>2, <2>1, <2>4, <2>5, <2>6, <2>7, <2>8, <2>9 DEF Toggling, Calm
  <2>11. Changing(rec)'
    BY <1>1, <1>2, <2>7, <2>8, <2>10 DEF Changing, Proper
  <2> HIDE DEF new
  <2> QED
    BY <1>1, <1>4, <2>5, <2>7, <2>8, <2>11, Continuing DEF new
<1> QED
  BY <1>3, <1>4 DEF Market!ToggleCheck

LEMMA ToggleUpdateStep ==
    ASSUME ChangeInv, NEW r \in Changers, Market!ToggleUpdate(r)
    PROVE  ChangeInv'
<1> DEFINE p == job[r].plugin
           wanted == IF job[r].op = "enable" THEN "on" ELSE "off"
<1>1. /\ job[r].op \in {"enable", "disable"} /\ job[r].step = "update"
      /\ UNCHANGED <<profile, disabled, packages, interrupted>>
      /\ loader' \in {loader, [loader EXCEPT ![p] = wanted]}
      /\ Market!Answer(r, "toggled") \/ Market!Goto(r, "restoreProfile")
  BY DEF Market!ToggleUpdate, Market!history
<1>2. /\ job[r] \in MarketJobs /\ Changing(job[r]) /\ p \in Plugins /\ StoresTyped
      /\ Toggling(job[r]) /\ Proper(job[r]) /\ Calm /\ p \in Market!Loaded
  BY <1>1, Busy DEF Changing, Toggling
<1>3. StoresTyped' /\ Market!Loaded' = Market!Loaded
  <2>1. loader' \in [Plugins -> {"absent", "on", "off"}] /\ loader'[p] # "absent" /\ loader[p] # "absent"
        /\ \A q \in Plugins : q # p => loader'[q] = loader[q]
    BY <1>1, <1>2 DEF StoresTyped, Market!Loaded
  <2> QED
    BY <1>1, <1>2, <2>1 DEF StoresTyped, Market!Loaded
<1>4. Calm'
  BY <1>1, <1>2, <1>3 DEF Calm
<1>5. CASE Market!Answer(r, "toggled")
  BY <1>1, <1>3, <1>4, <1>5, Answering DEF Market!Answers
<1>6. CASE Market!Goto(r, "restoreProfile")
  <2>1. PICK rec \in MarketJobs : /\ rec = [job[r] EXCEPT !.step = "restoreProfile"]
                                  /\ rec.step = "restoreProfile" /\ SameBut(rec, job[r])
    BY <1>2, Going DEF Market!Steps
  <2>2. Changing(rec)'
    BY <1>1, <1>2, <1>3, <2>1 DEF Changing, SameBut, Proper, Toggling, Restorable
  <2> QED
    BY <1>1, <1>3, <1>6, <2>1, <2>2, Continuing DEF Market!Goto
<1> QED
  BY <1>1, <1>5, <1>6

LEMMA UninstallCheckStep ==
    ASSUME ChangeInv, NEW r \in Changers, Market!UninstallCheck(r)
    PROVE  ChangeInv'
<1> DEFINE p == job[r].plugin
           new == [job[r] EXCEPT !.step = "profile", !.saved = Market!Saved,
                      !.manifest = packages, !.deferred = p \notin Market!Loaded]
<1>1. /\ job[r].op = "uninstall" /\ job[r].step = "check"
      /\ UNCHANGED <<profile, disabled, packages, interrupted>>
  BY DEF Market!UninstallCheck, Market!At, Market!history
<1>2. /\ job[r] \in MarketJobs /\ Changing(job[r]) /\ p \in Plugins /\ StoresTyped /\ Calm /\ job[r].leased = FALSE
  <2>1. job[r] \in MarketJobs /\ Changing(job[r]) /\ p \in Plugins /\ StoresTyped /\ Calm
    BY <1>1, Busy DEF Changing
  <2> QED
    BY <1>1, <2>1 DEF Changing, Proper, MarketJobs
<1>3. CASE Market!Answer(r, "refused") /\ UNCHANGED loader
  BY <1>1, <1>2, <1>3, Answering, Still DEF Market!Answers, StoresTyped
<1>4. ASSUME p \in Market!Loaded \cup Market!Configured, Market!marketplaceDependencyBlockers(p) = {},
             loader' = [loader EXCEPT ![p] = "absent"], Market!Continue(r, new)
      PROVE  ChangeInv'
  <2>1. StoresTyped' /\ Market!Loaded' = Market!Loaded \ {p}
    BY <1>1, <1>2, <1>4 DEF StoresTyped, Market!Loaded
  <2>2. \A q \in In(profile) \ disabled : p \notin DependsOn[q]
    BY <1>4 DEF Market!marketplaceDependencyBlockers, Market!marketplaceEnabledPackages,
                Market!Configured, In
  <2>3. Market!Saved \in [profile : Seq(ProfileEntries), disabled : SUBSET Plugins]
        /\ Market!Saved.profile = profile /\ Market!Saved.disabled = disabled
    BY <1>2 DEF Market!Saved, StoresTyped, Profile, In
  <2>4. packages \in SUBSET Plugins /\ (p \notin Market!Loaded) \in BOOLEAN
    BY <1>2 DEF StoresTyped
  <2>5. /\ new \in MarketJobs /\ new.step = "profile" /\ new.saved = Market!Saved /\ new.op = "uninstall"
        /\ new.plugin = p /\ new.leased = job[r].leased /\ (new.deferred <=> p \notin Market!Loaded)
    <3> HIDE DEF Market!Saved
    <3> QED
      BY <1>1, <1>2, <2>3, <2>4 DEF MarketJobs, Market!Steps
  <2>6. PICK rec \in MarketJobs : rec = new
    BY <2>5
  <2>7. Restorable(rec)'
    BY <1>1, <1>2, <2>3, <2>5, <2>6 DEF Restorable, StoresTyped, Calm
  <2>8. Uninstalling(rec)'
    BY <1>1, <1>2, <2>1, <2>2, <2>3, <2>5, <2>6, <2>7 DEF Uninstalling, Calm
  <2>9. Changing(rec)'
    BY <1>1, <1>2, <2>5, <2>6, <2>8 DEF Changing, Proper
  <2> HIDE DEF new
  <2> QED
    BY <1>1, <1>4, <2>1, <2>5, <2>6, <2>9, Continuing
<1> QED
  BY <1>3, <1>4 DEF Market!UninstallCheck

LEMMA UninstallProfileStep ==
    ASSUME ChangeInv, NEW r \in Changers, Market!UninstallProfile(r)
    PROVE  ChangeInv'
<1> DEFINE p == job[r].plugin
<1>1. /\ job[r].op = "uninstall" /\ job[r].step = "profile" /\ UNCHANGED <<loader, packages, interrupted>>
  BY DEF Market!UninstallProfile, Market!At, Market!history
<1>2. /\ job[r] \in MarketJobs /\ Changing(job[r]) /\ p \in Plugins /\ StoresTyped
      /\ Uninstalling(job[r]) /\ Proper(job[r])
  BY <1>1, Busy DEF Changing
<1>3. Market!Loaded' = Market!Loaded
  BY <1>1 DEF Market!Loaded
<1>4. CASE Market!RemoveEntry(p) /\ Market!Goto(r, "npm")
  <2>1. profile' = Market!RemoveFirst(profile, p) /\ disabled' = disabled \ {p} /\ p \in In(profile)
    BY <1>2, <1>4 DEF Market!RemoveEntry, In
  <2>2. Profile(profile', disabled') /\ In(profile') = In(profile) \ {p}
    BY <1>2, <2>1, Dropped DEF StoresTyped, Profile
  <2>3. StoresTyped' /\ Calm'
    BY <1>1, <1>2, <1>3, <2>1, <2>2 DEF StoresTyped, Calm, Uninstalling, Restorable, Whole
  <2>4. PICK rec \in MarketJobs : /\ rec = [job[r] EXCEPT !.step = "npm"]
                                  /\ rec.step = "npm" /\ SameBut(rec, job[r])
    BY <1>2, Going DEF Market!Steps
  <2>5. Changing(rec)'
    BY <1>1, <1>2, <1>3, <2>3, <2>4 DEF Changing, SameBut, Proper, Uninstalling, Restorable
  <2> QED
    BY <1>1, <1>4, <2>3, <2>4, <2>5, Continuing DEF Market!Goto
<1>5. CASE Market!Goto(r, "restoreProfile") /\ UNCHANGED <<profile, disabled>>
  <2>1. PICK rec \in MarketJobs : /\ rec = [job[r] EXCEPT !.step = "restoreProfile"]
                                  /\ rec.step = "restoreProfile" /\ SameBut(rec, job[r])
    BY <1>2, Going DEF Market!Steps
  <2>2. Changing(rec)' /\ StoresTyped'
    BY <1>1, <1>2, <1>3, <1>5, <2>1
       DEF Changing, SameBut, Proper, Uninstalling, Restorable, StoresTyped
  <2> QED
    BY <1>1, <1>5, <2>1, <2>2, Continuing DEF Market!Goto
<1> QED
  BY <1>4, <1>5 DEF Market!UninstallProfile

LEMMA UninstallNpmStep ==
    ASSUME ChangeInv, NEW r \in Changers, Market!UninstallNpm(r)
    PROVE  ChangeInv'
<1>1. /\ job[r].op = "uninstall" /\ job[r].step = "npm"
      /\ UNCHANGED <<profile, disabled, loader, interrupted>>
      /\ packages' \in {packages, packages \ {job[r].plugin}}
      /\ Market!Answer(r, "uninstalled") \/ Market!Goto(r, "restoreProfile")
  BY DEF Market!UninstallNpm, Market!At, Market!history
<1>2. /\ job[r] \in MarketJobs /\ Changing(job[r]) /\ StoresTyped
      /\ Uninstalling(job[r]) /\ Proper(job[r]) /\ Calm
  BY <1>1, Busy DEF Changing, Uninstalling
<1>3. StoresTyped' /\ Calm' /\ Market!Loaded' = Market!Loaded
  BY <1>1, <1>2, Still DEF StoresTyped
<1>4. CASE Market!Answer(r, "uninstalled")
  BY <1>1, <1>3, <1>4, Answering DEF Market!Answers
<1>5. CASE Market!Goto(r, "restoreProfile")
  <2>1. PICK rec \in MarketJobs : /\ rec = [job[r] EXCEPT !.step = "restoreProfile"]
                                  /\ rec.step = "restoreProfile" /\ SameBut(rec, job[r])
    BY <1>2, Going DEF Market!Steps
  <2>2. Changing(rec)'
    BY <1>1, <1>2, <1>3, <2>1 DEF Changing, SameBut, Proper, Uninstalling, Restorable
  <2> QED
    BY <1>1, <1>3, <1>5, <2>1, <2>2, Continuing DEF Market!Goto
<1> QED
  BY <1>1, <1>4, <1>5

LEMMA UninstallRecreateStep ==
    ASSUME ChangeInv, ~swallowed', NEW r \in Changers, Market!UninstallRecreate(r)
    PROVE  ChangeInv'
<1>1. /\ job[r].op = "uninstall" /\ job[r].step = "recreate" /\ Market!Answer(r, "failed")
      /\ UNCHANGED <<profile, disabled, packages, interrupted>>
      /\ loader' = [loader EXCEPT ![job[r].plugin] = "on"]
  BY Undone DEF Market!UninstallRecreate, Market!At
<1>2. /\ job[r].plugin \in Plugins /\ StoresTyped /\ Calm /\ job[r].plugin \in In(profile)
  BY <1>1, Busy DEF Changing, Uninstalling
<1>3. StoresTyped' /\ Market!Loaded' \subseteq Market!Loaded \cup {job[r].plugin}
  BY <1>1, <1>2 DEF StoresTyped, Market!Loaded
<1>4. Calm'
  BY <1>1, <1>2, <1>3 DEF Calm
<1> QED
  BY <1>1, <1>3, <1>4, Answering DEF Market!Answers

-----------------------------------------------------------------------------
(* Going back                                                                *)

LEMMA RestoreProfileStep ==
    ASSUME ChangeInv, ~swallowed', NEW r \in Changers, Market!RestoreProfile(r)
    PROVE  ChangeInv'
<1>1. /\ job[r].step = "restoreProfile" /\ UNCHANGED <<loader, packages, interrupted>>
      /\ profile' = job[r].saved.profile /\ disabled' = job[r].saved.disabled
      /\ \/ Market!Answer(r, "failed")
         \/ /\ job[r].op = "install" \/ (job[r].op = "uninstall" /\ ~job[r].deferred)
            /\ Market!Goto(r, "restoreManifest")
  BY Undone DEF Market!RestoreProfile
<1>2. /\ job[r] \in MarketJobs /\ Changing(job[r]) /\ StoresTyped /\ Proper(job[r])
      /\ job[r].op \in {"install", "enable", "disable", "uninstall"}
  BY <1>1, Busy DEF Changing, Proper, MarketJobs
<1>3. Restorable(job[r]) /\ Market!Loaded \subseteq In(job[r].saved.profile)
  BY <1>1, <1>2 DEF Changing, Installing, Toggling, Uninstalling
<1>4. StoresTyped' /\ Market!Loaded' = Market!Loaded
  BY <1>1, <1>2, <1>3 DEF StoresTyped, Restorable, Market!Loaded
<1>5. Calm'
  BY <1>1, <1>3, <1>4 DEF Calm, Restorable
<1>6. CASE Market!Answer(r, "failed")
  BY <1>1, <1>4, <1>5, <1>6, Answering DEF Market!Answers
<1>7. CASE /\ job[r].op = "install" \/ (job[r].op = "uninstall" /\ ~job[r].deferred)
           /\ Market!Goto(r, "restoreManifest")
  <2>1. PICK rec \in MarketJobs : /\ rec = [job[r] EXCEPT !.step = "restoreManifest"]
                                  /\ rec.step = "restoreManifest" /\ SameBut(rec, job[r])
    BY <1>2, Going DEF Market!Steps
  <2>2. Proper(rec) /\ Restorable(rec)'
    BY <1>1, <1>2, <1>3, <1>7, <2>1 DEF Proper, SameBut, Restorable
  <2>3. ASSUME job[r].op = "install" PROVE Changing(rec)'
    <3>1. Installing(rec)'
      BY <1>1, <1>2, <1>5, <2>1, <2>2, <2>3 DEF Changing, Installing, PlanOf, Needs, SameBut, Proper
    <3> QED
      BY <2>1, <2>2, <2>3, <3>1 DEF Changing, SameBut
  <2>4. ASSUME job[r].op = "uninstall", ~job[r].deferred PROVE Changing(rec)'
    <3>1. Uninstalling(rec)'
      BY <1>1, <1>2, <1>4, <1>5, <2>1, <2>2, <2>4 DEF Changing, Uninstalling, SameBut
    <3> QED
      BY <2>1, <2>2, <2>4, <3>1 DEF Changing, SameBut
  <2>5. Changing(rec)'
    BY <1>7, <2>3, <2>4
  <2> QED
    BY <1>1, <1>4, <1>7, <2>1, <2>5, Continuing DEF Market!Goto
<1> QED
  BY <1>1, <1>6, <1>7

LEMMA RestoreManifestStep ==
    ASSUME ChangeInv, ~swallowed', NEW r \in Changers, Market!RestoreManifest(r)
    PROVE  ChangeInv'
<1>1. /\ job[r].step = "restoreManifest" /\ UNCHANGED <<profile, disabled, loader, interrupted>>
      /\ packages' = job[r].manifest
      /\ \/ job[r].op = "install" /\ Market!Answer(r, "failed")
         \/ job[r].op # "install" /\ Market!Goto(r, "recreate")
  BY Undone DEF Market!RestoreManifest
<1>2. /\ job[r] \in MarketJobs /\ Changing(job[r]) /\ StoresTyped /\ Proper(job[r])
      /\ job[r].op \in {"install", "uninstall"} /\ job[r].manifest \in SUBSET Plugins
  <2>1. job[r] \in MarketJobs /\ Changing(job[r]) /\ StoresTyped
    BY <1>1, Busy
  <2>2. job[r].manifest \in SUBSET Plugins /\ job[r].op \in {"idle", "install", "enable", "disable", "uninstall"}
    BY <2>1 DEF MarketJobs
  <2> QED
    BY <1>1, <2>1, <2>2 DEF Changing, Proper
<1>3. StoresTyped' /\ Market!Loaded' = Market!Loaded
  BY <1>1, <1>2 DEF StoresTyped, Market!Loaded
<1>4. Calm /\ Calm'
  <2>1. Calm
    BY <1>1, <1>2 DEF Changing, Installing, Uninstalling
  <2> QED
    BY <1>1, <2>1, Still
<1>5. CASE Market!Answer(r, "failed")
  BY <1>1, <1>3, <1>4, <1>5, Answering DEF Market!Answers
<1>6. CASE job[r].op = "uninstall" /\ Market!Goto(r, "recreate")
  <2>1. PICK rec \in MarketJobs : /\ rec = [job[r] EXCEPT !.step = "recreate"]
                                  /\ rec.step = "recreate" /\ SameBut(rec, job[r])
    BY <1>2, Going DEF Market!Steps
  <2>2. Changing(rec)'
    BY <1>1, <1>2, <1>3, <1>4, <1>6, <2>1 DEF Changing, SameBut, Proper, Uninstalling, Restorable
  <2> QED
    BY <1>1, <1>3, <1>6, <2>1, <2>2, Continuing DEF Market!Goto
<1> QED
  BY <1>1, <1>2, <1>5, <1>6

-----------------------------------------------------------------------------

(* The types hold whatever is lost                                           *)

\* No rollback step, or one that may be lost.
Remembers == UNCHANGED Market!history \/ \E done \in BOOLEAN : Market!Undo(done)

LEMMA HistoryTyped ==
    ASSUME MarketTyped, Remembers
    PROVE  interrupted' \in BOOLEAN /\ swallowed' \in BOOLEAN /\ (swallowed' => interrupted')
<1>1. CASE UNCHANGED Market!history
  BY <1>1 DEF Market!history, MarketTyped, FlagsTyped
<1>2. CASE \E done \in BOOLEAN : Market!Undo(done)
  <2>1. PICK done \in BOOLEAN : interrupted' = (interrupted \/ ~done) /\ swallowed' = (swallowed \/ ~done)
    BY <1>2 DEF Market!Undo
  <2> QED
    BY <2>1 DEF MarketTyped, FlagsTyped
<1> QED
  BY <1>1, <1>2 DEF Remembers

LEMMA TypedAnswer ==
    ASSUME MarketTyped, NEW r \in Changers, NEW answer \in Market!Answers, Market!Answer(r, answer),
           StoresTyped', Remembers
    PROVE  MarketTyped'
<1> HIDE DEF Market!Idle
<1>1. job' = [job EXCEPT ![r] = Market!Idle] /\ inFlight' = FALSE /\ reply' = answer
  BY DEF Market!Answer
<1>2. job' \in [Changers -> MarketJobs] /\ \A q \in Changers : JobInv(job'[q])
  BY <1>1, AtRest DEF MarketTyped
<1> QED
  BY <1>1, <1>2, HistoryTyped DEF MarketTyped, FlagsTyped

LEMMA TypedGo ==
    ASSUME MarketTyped, NEW r \in Changers, NEW rec \in MarketJobs, JobInv(rec), Market!Continue(r, rec),
           StoresTyped', Remembers
    PROVE  MarketTyped'
<1>1. job' = [job EXCEPT ![r] = rec] /\ inFlight' = inFlight /\ reply' = "none"
  BY DEF Market!Continue
<1>2. job' \in [Changers -> MarketJobs] /\ \A q \in Changers : JobInv(job'[q])
  BY <1>1 DEF MarketTyped
<1> QED
  BY <1>1, <1>2, HistoryTyped DEF MarketTyped, FlagsTyped, Market!Answers

LEMMA TypedGoto ==
    ASSUME MarketTyped, NEW r \in Changers, NEW step \in Market!Steps, Market!Goto(r, step),
           job[r].step \notin {"done", "check"}, StoresTyped', Remembers,
           step \in {"npm", "enable", "write"} /\ job[r].op = "install" => job[r].step \in {"npm", "enable", "write"}
    PROVE  MarketTyped'
<1>1. job[r] \in MarketJobs /\ JobInv(job[r])
  BY DEF MarketTyped
<1>2. PICK rec \in MarketJobs : rec = [job[r] EXCEPT !.step = step] /\ rec.step = step /\ SameBut(rec, job[r])
  BY <1>1, Going
<1>3. JobInv(rec)
  BY <1>1, <1>2 DEF JobInv, SameBut
<1> QED
  BY <1>2, <1>3, TypedGo DEF Market!Goto

\* A change under way, and the copy of the profile it may take.
LEMMA TypedJob ==
    ASSUME MarketTyped, NEW r \in Changers
    PROVE  /\ job[r] \in MarketJobs /\ JobInv(job[r]) /\ StoresTyped
           /\ Market!Saved \in [profile : Seq(ProfileEntries), disabled : SUBSET Plugins]
           /\ Profile(Market!Saved.profile, Market!Saved.disabled)
BY DEF MarketTyped, Market!Saved, StoresTyped, Profile, In

LEMMA TypedBegin ==
    ASSUME MarketTyped, NEW r \in Changers, Market!InstallCheck(r) \/ Market!InstallNpm(r)
    PROVE  MarketTyped'
<1>1. job[r] \in MarketJobs /\ JobInv(job[r]) /\ StoresTyped
  BY TypedJob
<1>2. CASE Market!InstallCheck(r)
  <2> DEFINE p == job[r].plugin
             missing == Market!ToSet(Plan[p]) \ (Market!Loaded \cup Market!Configured)
             off == {q \in Market!Dependencies(p) : loader[q] = "off" \/ q \in disabled}
             pending == {q \in Market!Dependencies(p) : q \in Market!Configured \ Market!Loaded}
             new == [job[r] EXCEPT !.step = "npm", !.missing = missing, !.enable = off,
                        !.deferred = off # {} \/ pending # {}, !.known = Market!Configured,
                        !.manifest = packages, !.index = Len(Plan[p]), !.anchor = Market!runtimePlacement]
  <2>1. /\ job[r].op = "install" /\ job[r].step = "check" /\ StoresTyped' /\ Remembers
        /\ \/ Market!Answer(r, "refused") \/ Market!Answer(r, "waiting")
           \/ Market!Continue(r, new)
    BY <1>1, <1>2 DEF Market!InstallCheck, Market!At, Market!Stores, StoresTyped, Remembers
  <2>2. p \in Plugins
    BY <1>1, <2>1 DEF JobInv
  <2>3. /\ missing \in SUBSET Plugins /\ off \in SUBSET Plugins /\ Market!Configured \in SUBSET Plugins
        /\ packages \in SUBSET Plugins /\ Len(Plan[p]) \in Nat
        /\ Market!runtimePlacement \in Plugins \cup {Runtime, NoPlugin}
        /\ (off # {} \/ pending # {}) \in BOOLEAN
    BY <1>1, <2>2, Plans DEF Market!Configured, StoresTyped, Market!runtimePlacement
  <2>4. new \in MarketJobs /\ new.plugin = p /\ new.index = Len(Plan[p]) /\ new.saved = job[r].saved
    <3> HIDE DEF missing, off, pending
    <3> QED
      BY <1>1, <2>3 DEF MarketJobs, Market!Steps
  <2>5. JobInv(new)
    <3> HIDE DEF new
    <3> QED
      BY <1>1, <2>2, <2>3, <2>4 DEF JobInv
  <2> HIDE DEF new
  <2> QED
    BY <2>1, <2>4, <2>5, TypedAnswer, TypedGo DEF Market!Answers
<1>3. CASE Market!InstallNpm(r)
  <2> DEFINE new == [job[r] EXCEPT !.step = "enable", !.saved = Market!Saved]
  <2>1. /\ job[r].op = "install" /\ job[r].step = "npm" /\ StoresTyped' /\ Remembers
        /\ Market!Continue(r, new) \/ Market!Goto(r, "restoreManifest")
    <3>1. job[r].missing \subseteq Plugins
      BY <1>1 DEF MarketJobs
    <3> QED
      BY <1>1, <1>3, <3>1 DEF Market!InstallNpm, Market!At, StoresTyped, Remembers
  <2>2. new \in MarketJobs /\ new.plugin = job[r].plugin /\ new.index = job[r].index /\ new.saved = Market!Saved
    <3> HIDE DEF Market!Saved
    <3> QED
      BY <1>1, TypedJob DEF MarketJobs, Market!Steps
  <2>3. JobInv(new)
    <3> HIDE DEF new
    <3> QED
      BY <1>1, <2>1, <2>2, TypedJob DEF JobInv
  <2> HIDE DEF new
  <2> QED
    BY <2>1, <2>2, <2>3, TypedGo, TypedGoto DEF Market!Steps
<1> QED
  BY <1>2, <1>3

LEMMA TypedWrites ==
    ASSUME MarketTyped, NEW r \in Changers, Market!InstallEnable(r) \/ Market!InstallWrite(r)
    PROVE  MarketTyped'
<1>1. job[r] \in MarketJobs /\ JobInv(job[r]) /\ StoresTyped
  BY TypedJob
<1>2. CASE Market!InstallEnable(r)
  <2>1. /\ job[r].op = "install" /\ job[r].step = "enable" /\ Remembers
        /\ UNCHANGED <<profile, loader, packages>>
    BY <1>2 DEF Market!InstallEnable, Market!At, Market!MarkEntry, Remembers
  <2>2. CASE UNCHANGED disabled /\ (Market!Goto(r, "write") \/ Market!Goto(r, "unwind"))
    <3>1. StoresTyped'
      BY <1>1, <2>1, <2>2 DEF StoresTyped
    <3> QED
      BY <2>1, <2>2, <3>1, TypedGoto DEF Market!Steps
  <2>3. ASSUME NEW q \in job[r].enable, Market!MarkEntry(q, FALSE),
               Market!Continue(r, [job[r] EXCEPT !.enable = @ \ {q}])
        PROVE  MarketTyped'
    <3> DEFINE new == [job[r] EXCEPT !.enable = @ \ {q}]
    <3>1. StoresTyped'
      BY <1>1, <2>1, <2>3 DEF StoresTyped, Market!MarkEntry, Profile
    <3>2. new \in MarketJobs /\ new.plugin = job[r].plugin /\ new.index = job[r].index
          /\ new.saved = job[r].saved /\ new.step = job[r].step /\ new.op = job[r].op
      BY <1>1 DEF MarketJobs
    <3>3. JobInv(new)
      <4> HIDE DEF new
      <4> QED
        BY <1>1, <3>2 DEF JobInv
    <3> HIDE DEF new
    <3> QED
      BY <2>1, <2>3, <3>1, <3>2, <3>3, TypedGo DEF new
  <2> QED
    BY <1>2, <2>2, <2>3 DEF Market!InstallEnable
<1>3. CASE Market!InstallWrite(r)
  <2> DEFINE i == job[r].index
             q == Plan[job[r].plugin][job[r].index]
             next == [job[r] EXCEPT !.index = @ - 1]
             new == [next EXCEPT !.anchor = q]
  <2>1. /\ job[r].op = "install" /\ job[r].step = "write" /\ i > 0 /\ Remembers
        /\ UNCHANGED <<disabled, loader, packages>>
        /\ profile' \in {profile, Market!appendMarketplaceProfile(q, job[r].anchor)}
        /\ Market!Continue(r, new) \/ Market!Continue(r, next) \/ Market!Goto(r, "unwind")
    BY <1>3 DEF Market!InstallWrite, Market!At, Remembers
  <2>2. i \in Nat /\ i - 1 \in Nat /\ i <= Len(Plan[job[r].plugin]) /\ job[r].plugin \in Plugins /\ q \in Plugins
    <3>1. i \in Nat
      BY <1>1 DEF MarketJobs
    <3>2. i <= Len(Plan[job[r].plugin]) /\ job[r].plugin \in Plugins
      BY <1>1, <2>1 DEF JobInv
    <3> QED
      BY <2>1, <3>1, <3>2, Plans
  <2>3. StoresTyped'
    <3> HIDE DEF q
    <3> QED
      BY <1>1, <2>1, <2>2, AppendEntry DEF StoresTyped
  <2>4. /\ next \in MarketJobs /\ next.index = i - 1 /\ next.plugin = job[r].plugin /\ next.saved = job[r].saved
        /\ new \in MarketJobs /\ new.index = i - 1 /\ new.plugin = job[r].plugin /\ new.saved = job[r].saved
    <3>1. q \in Plugins \cup {Runtime, NoPlugin}
      BY <2>2
    <3> HIDE DEF q
    <3> QED
      BY <1>1, <2>2, <3>1 DEF MarketJobs
  <2>5. i - 1 <= Len(Plan[job[r].plugin])
    BY <2>2, Plans
  <2>6. JobInv(new) /\ JobInv(next)
    <3> HIDE DEF new, next
    <3> QED
      BY <1>1, <2>2, <2>4, <2>5 DEF JobInv
  <2> HIDE DEF new, next
  <2> QED
    BY <2>1, <2>3, <2>4, <2>6, TypedGo, TypedGoto DEF Market!Steps
<1> QED
  BY <1>2, <1>3

LEMMA TypedStarts ==
    ASSUME MarketTyped, NEW r \in Changers,
           Market!InstallWritten(r) \/ Market!InstallCreate(r) \/ Market!InstallCreated(r) \/ Market!InstallUnwind(r)
    PROVE  MarketTyped'
<1>1. job[r] \in MarketJobs /\ JobInv(job[r]) /\ StoresTyped
  BY TypedJob
<1>2. CASE Market!InstallWritten(r) \/ Market!InstallCreated(r)
  <2> DEFINE new == [job[r] EXCEPT !.step = "create", !.index = 1]
  <2>1. /\ job[r].step \in {"write", "create"} /\ Remembers /\ StoresTyped'
        /\ Market!Answer(r, "installed") \/ Market!Continue(r, new)
    BY <1>1, <1>2
       DEF Market!InstallWritten, Market!InstallCreated, Market!At, Market!Stores, StoresTyped, Remembers
  <2>2. new \in MarketJobs /\ new.step = "create" /\ new.plugin = job[r].plugin /\ new.saved = job[r].saved
    BY <1>1 DEF MarketJobs, Market!Steps
  <2>3. JobInv(new)
    <3> HIDE DEF new
    <3> QED
      BY <1>1, <2>1, <2>2 DEF JobInv
  <2> HIDE DEF new
  <2> QED
    BY <2>1, <2>2, <2>3, TypedAnswer, TypedGo DEF Market!Answers
<1>3. CASE Market!InstallCreate(r)
  <2>1. PICK i \in Market!Unstarted(r), q \in Plugins :
          /\ job[r].step = "create" /\ loader' = [loader EXCEPT ![q] = "on"]
          /\ \/ Market!Continue(r, [job[r] EXCEPT !.index = i + 1])
             \/ \E leased \in BOOLEAN :
                   Market!Continue(r, [job[r] EXCEPT !.step = "unwind", !.leased = leased])
          /\ UNCHANGED <<profile, disabled, packages>> /\ Remembers
    <3>1. PICK i \in Market!Unstarted(r) :
            LET q == Plan[job[r].plugin][i]
            IN  /\ loader' = [loader EXCEPT ![q] = "on"]
                /\ \/ Market!Continue(r, [job[r] EXCEPT !.index = i + 1])
                   \/ \E leased \in {FALSE, (q \in ToolPlugins)} :
                         Market!Continue(r, [job[r] EXCEPT !.step = "unwind", !.leased = leased])
      BY <1>3 DEF Market!InstallCreate
    <3>2. /\ job[r].step = "create" /\ UNCHANGED <<profile, disabled, packages>> /\ Remembers
      BY <1>3 DEF Market!InstallCreate, Market!At, Remembers
    <3>3. Plan[job[r].plugin][i] \in job[r].missing
      BY <3>1 DEF Market!Unstarted
    <3>4. Plan[job[r].plugin][i] \in Plugins
      BY <1>1, <3>3 DEF MarketJobs
    <3>5. {FALSE, (Plan[job[r].plugin][i] \in ToolPlugins)} \subseteq BOOLEAN
      OBVIOUS
    <3> QED
      BY <3>1, <3>2, <3>4, <3>5
  <2>2. StoresTyped'
    BY <1>1, <2>1 DEF StoresTyped
  <2>3. i + 1 \in Nat
    <3>1. job[r].plugin \in Plugins
      BY <1>1, <2>1 DEF JobInv
    <3>2. i \in DOMAIN Plan[job[r].plugin]
      BY <2>1 DEF Market!Unstarted
    <3> QED
      BY <3>1, <3>2, Plans
  <2>4. CASE Market!Continue(r, [job[r] EXCEPT !.index = i + 1])
    <3> DEFINE new == [job[r] EXCEPT !.index = i + 1]
    <3>1. new \in MarketJobs /\ new.step = job[r].step /\ new.plugin = job[r].plugin /\ new.saved = job[r].saved
      BY <1>1, <2>3 DEF MarketJobs
    <3> HIDE DEF new
    <3>2. JobInv(new)
      BY <1>1, <2>1, <3>1 DEF JobInv
    <3> QED
      BY <2>1, <2>2, <2>4, <3>1, <3>2, TypedGo DEF new
  <2>5. ASSUME NEW leased \in BOOLEAN, Market!Continue(r, [job[r] EXCEPT !.step = "unwind", !.leased = leased])
        PROVE  MarketTyped'
    <3> DEFINE new == [job[r] EXCEPT !.step = "unwind", !.leased = leased]
    <3>1. new \in MarketJobs /\ new.step = "unwind" /\ new.plugin = job[r].plugin /\ new.saved = job[r].saved
      BY <1>1 DEF MarketJobs, Market!Steps
    <3> HIDE DEF new
    <3>2. JobInv(new)
      BY <1>1, <2>1, <3>1 DEF JobInv
    <3> QED
      BY <2>1, <2>2, <2>5, <3>1, <3>2, TypedGo DEF new
  <2> QED
    BY <2>1, <2>4, <2>5
<1>4. CASE Market!InstallUnwind(r)
  <2>1. PICK stuck \in SUBSET (job[r].missing \cap Market!Loaded) :
          /\ loader' = [q \in Plugins |-> IF q \in job[r].missing \ stuck THEN "absent" ELSE loader[q]]
          /\ Market!Undo(stuck = {})
    BY <1>4 DEF Market!InstallUnwind
  <2>2. (stuck = {}) \in BOOLEAN
    OBVIOUS
  <2>3. /\ job[r].step = "unwind" /\ StoresTyped' /\ Remembers
        /\ Market!Answer(r, "installed") \/ Market!Goto(r, "restoreProfile")
    BY <1>1, <1>4, <2>1, <2>2 DEF Market!InstallUnwind, Market!At, StoresTyped, Remembers
  <2> QED
    BY <2>3, TypedAnswer, TypedGoto DEF Market!Answers, Market!Steps
<1> QED
  BY <1>2, <1>3, <1>4

LEMMA TypedToggle ==
    ASSUME MarketTyped, NEW r \in Changers, Market!Toggle(r)
    PROVE  MarketTyped'
<1>1. job[r] \in MarketJobs /\ JobInv(job[r]) /\ StoresTyped
  BY TypedJob
<1> DEFINE p == job[r].plugin
<1>2. CASE Market!ToggleCheck(r)
  <2> DEFINE new == [job[r] EXCEPT !.step = "update", !.saved = Market!Saved]
  <2>1. /\ job[r].step = "check" /\ Remembers /\ UNCHANGED <<profile, loader, packages>>
        /\ \/ Market!MarkEntry(p, job[r].op = "disable") /\ Market!Continue(r, new)
           \/ UNCHANGED disabled /\ Market!Answer(r, "refused")
    BY <1>2 DEF Market!ToggleCheck, Market!MarkEntry, Remembers
  <2>2. p \in Plugins
    BY <1>1, <2>1 DEF JobInv
  <2>3. StoresTyped'
    BY <1>1, <2>1, <2>2 DEF StoresTyped, Market!MarkEntry, Profile, In
  <2>4. new \in MarketJobs /\ new.step = "update" /\ new.plugin = p /\ new.saved = Market!Saved
    <3> HIDE DEF Market!Saved
    <3> QED
      BY <1>1, TypedJob DEF MarketJobs, Market!Steps
  <2>5. JobInv(new)
    <3> HIDE DEF new
    <3> QED
      BY <2>2, <2>4, TypedJob DEF JobInv
  <2> HIDE DEF new
  <2> QED
    BY <2>1, <2>3, <2>4, <2>5, TypedAnswer, TypedGo DEF Market!Answers
<1>3. CASE Market!ToggleUpdate(r)
  <2>1. /\ job[r].step = "update" /\ Remembers /\ StoresTyped'
        /\ Market!Answer(r, "toggled") \/ Market!Goto(r, "restoreProfile")
    BY <1>1, <1>3 DEF Market!ToggleUpdate, Remembers, StoresTyped
  <2> QED
    BY <2>1, TypedAnswer, TypedGoto DEF Market!Answers, Market!Steps
<1> QED
  BY <1>2, <1>3 DEF Market!Toggle

LEMMA TypedUninstall ==
    ASSUME MarketTyped, NEW r \in Changers, Market!Uninstall(r)
    PROVE  MarketTyped'
<1>1. job[r] \in MarketJobs /\ JobInv(job[r]) /\ StoresTyped
  BY TypedJob
<1> DEFINE p == job[r].plugin
<1>2. CASE Market!UninstallCheck(r)
  <2> DEFINE new == [job[r] EXCEPT !.step = "profile", !.saved = Market!Saved,
                      !.manifest = packages, !.deferred = p \notin Market!Loaded]
  <2>1. /\ job[r].step = "check" /\ Remembers /\ UNCHANGED <<profile, disabled, packages>>
        /\ \/ loader' = [loader EXCEPT ![p] = "absent"] /\ Market!Continue(r, new)
           \/ UNCHANGED loader /\ Market!Answer(r, "refused")
    BY <1>2 DEF Market!UninstallCheck, Market!At, Remembers
  <2>2. p \in Plugins /\ StoresTyped'
    BY <1>1, <2>1 DEF JobInv, StoresTyped
  <2>3. new \in MarketJobs /\ new.step = "profile" /\ new.plugin = p /\ new.saved = Market!Saved
    <3>1. packages \in SUBSET Plugins /\ (p \notin Market!Loaded) \in BOOLEAN
      BY <1>1 DEF StoresTyped
    <3> HIDE DEF Market!Saved
    <3> QED
      BY <1>1, <3>1, TypedJob DEF MarketJobs, Market!Steps
  <2>4. JobInv(new)
    <3> HIDE DEF new
    <3> QED
      BY <2>2, <2>3, TypedJob DEF JobInv
  <2> HIDE DEF new
  <2> QED
    BY <2>1, <2>2, <2>3, <2>4, TypedAnswer, TypedGo DEF Market!Answers
<1>3. CASE Market!UninstallProfile(r)
  <2>1. /\ job[r].op = "uninstall" /\ job[r].step = "profile" /\ Remembers /\ UNCHANGED <<loader, packages>>
        /\ \/ Market!RemoveEntry(p) /\ Market!Goto(r, "npm")
           \/ UNCHANGED <<profile, disabled>> /\ Market!Goto(r, "restoreProfile")
    BY <1>3 DEF Market!UninstallProfile, Market!At, Remembers
  <2>2. p \in Plugins
    BY <1>1, <2>1 DEF JobInv
  <2>3. StoresTyped'
    <3>1. CASE Market!RemoveEntry(p)
      <4>1. profile' = Market!RemoveFirst(profile, p) /\ disabled' = disabled \ {p} /\ p \in In(profile)
        BY <2>2, <3>1 DEF Market!RemoveEntry, In
      <4>2. /\ profile' \in Seq(ProfileEntries) /\ Market!IsInjective(profile')
            /\ In(profile') = In(profile) \ {p}
        BY <1>1, <2>2, <4>1, Dropped DEF StoresTyped, Profile
      <4>3. Profile(profile', disabled')
        BY <1>1, <4>1, <4>2 DEF StoresTyped, Profile
      <4> QED
        BY <1>1, <2>1, <4>3 DEF StoresTyped
    <3> QED
      BY <1>1, <2>1, <3>1 DEF StoresTyped
  <2> QED
    BY <2>1, <2>3, TypedGoto DEF Market!Steps
<1>4. CASE Market!UninstallNpm(r)
  <2>1. /\ job[r].step = "npm" /\ Remembers /\ StoresTyped'
        /\ Market!Answer(r, "uninstalled") \/ Market!Goto(r, "restoreProfile")
    BY <1>1, <1>4 DEF Market!UninstallNpm, Market!At, Remembers, StoresTyped
  <2> QED
    BY <2>1, TypedAnswer, TypedGoto DEF Market!Answers, Market!Steps
<1>5. CASE Market!UninstallRecreate(r)
  <2>1. StoresTyped' /\ Remembers /\ Market!Answer(r, "failed")
    BY <1>1, <1>5 DEF Market!UninstallRecreate, Remembers, StoresTyped
  <2> QED
    BY <2>1, TypedAnswer DEF Market!Answers
<1> QED
  BY <1>2, <1>3, <1>4, <1>5 DEF Market!Uninstall

LEMMA TypedRollback ==
    ASSUME MarketTyped, NEW r \in Changers, Market!Rollback(r)
    PROVE  MarketTyped'
<1>1. job[r] \in MarketJobs /\ JobInv(job[r]) /\ StoresTyped
  BY TypedJob
<1>2. job[r].step \in {"restoreProfile", "restoreManifest"} /\ Remembers
  BY DEF Market!Rollback, Market!RestoreProfile, Market!RestoreManifest, Remembers
<1>3. StoresTyped'
  <2>1. CASE Market!RestoreProfile(r)
    BY <1>1, <2>1 DEF Market!RestoreProfile, StoresTyped, JobInv
  <2>2. CASE Market!RestoreManifest(r)
    <3>1. job[r].manifest \in SUBSET Plugins
      BY <1>1 DEF MarketJobs
    <3> QED
      BY <1>1, <2>2, <3>1 DEF Market!RestoreManifest, StoresTyped
  <2> QED
    BY <2>1, <2>2 DEF Market!Rollback
<1>4. Market!Answer(r, "failed") \/ Market!Goto(r, "restoreManifest") \/ Market!Goto(r, "recreate")
  BY DEF Market!Rollback, Market!RestoreProfile, Market!RestoreManifest
<1> QED
  BY <1>2, <1>3, <1>4, TypedAnswer, TypedGoto DEF Market!Answers, Market!Steps

LEMMA TypedArrive == ASSUME MarketTyped, Market!Arrive PROVE MarketTyped'
<1>1. PICK r \in Changers : Market!Accept(r)
  BY DEF Market!Arrive, Market!Free
<1>2. PICK op \in {"install", "enable", "disable", "uninstall"}, p \in Plugins :
         job' = [job EXCEPT ![r] = Market!Accepted(op, p)]
  BY <1>1 DEF Market!Accept
<1>3. inFlight' = TRUE /\ reply' = "none" /\ UNCHANGED <<profile, disabled, loader, packages>> /\ Remembers
  BY <1>1 DEF Market!Accept, Market!Stores, Remembers
<1>4. job' \in [Changers -> MarketJobs] /\ \A q \in Changers : JobInv(job'[q])
  BY <1>2, AtRest DEF MarketTyped
<1> QED
  BY <1>3, <1>4, HistoryTyped DEF MarketTyped, FlagsTyped, StoresTyped, Market!Answers

LEMMA TypedRestart == ASSUME MarketTyped, Market!Restart PROVE MarketTyped'
<1> HIDE DEF Market!Idle
<1>1. job' \in [Changers -> MarketJobs] /\ \A q \in Changers : JobInv(job'[q])
  BY AtRest DEF Market!Restart
<1>2. StoresTyped'
  BY DEF Market!Restart, MarketTyped, StoresTyped
<1>3. (interrupted \/ inFlight) \in BOOLEAN
  OBVIOUS
<1> QED
  BY <1>1, <1>2, <1>3 DEF Market!Restart, MarketTyped, FlagsTyped, Market!Answers

-----------------------------------------------------------------------------

LEMMA ChangeStep == ASSUME ChangeInv, ~swallowed', Market!Arrive \/ \E r \in Changers : Market!Handler(r) PROVE ChangeInv'
<1>1. ASSUME NEW r \in Changers, Market!Install(r) PROVE ChangeInv'
  BY <1>1, InstallCheckStep, InstallNpmStep, InstallEnableStep, InstallWriteStep, InstallWrittenStep,
     InstallCreateStep, InstallCreatedStep, InstallUnwindStep DEF Market!Install
<1>2. ASSUME NEW r \in Changers, Market!Toggle(r) PROVE ChangeInv'
  BY <1>2, ToggleCheckStep, ToggleUpdateStep DEF Market!Toggle
<1>3. ASSUME NEW r \in Changers, Market!Uninstall(r) PROVE ChangeInv'
  BY <1>3, UninstallCheckStep, UninstallProfileStep, UninstallNpmStep, UninstallRecreateStep
     DEF Market!Uninstall
<1>4. ASSUME NEW r \in Changers, Market!Rollback(r) PROVE ChangeInv'
  BY <1>4, RestoreProfileStep, RestoreManifestStep DEF Market!Rollback
<1> QED
  BY <1>1, <1>2, <1>3, <1>4, ArriveStep DEF Market!Handler

\* What was lost stays lost until the next start.
LEMMA StaysLost ==
    ASSUME MarketTyped, Market!Arrive \/ \E r \in Changers : Market!Handler(r), swallowed
    PROVE  swallowed'
<1>1. Remembers
  <2>1. CASE Market!Arrive
    BY <2>1 DEF Market!Arrive, Market!Accept, Remembers
  <2>2. ASSUME NEW r \in Changers, Market!Install(r) PROVE Remembers
    <3>1. ASSUME Market!InstallUnwind(r) PROVE Remembers
      <4>1. PICK stuck \in SUBSET (job[r].missing \cap Market!Loaded) : Market!Undo(stuck = {})
        BY <3>1 DEF Market!InstallUnwind
      <4>2. (stuck = {}) \in BOOLEAN
        OBVIOUS
      <4> QED
        BY <4>1, <4>2 DEF Remembers
    <3> QED
      BY <2>2, <3>1 DEF Market!Install, Market!InstallCheck, Market!InstallNpm, Market!InstallEnable,
         Market!InstallWrite, Market!InstallWritten, Market!InstallCreate, Market!InstallCreated, Remembers
  <2>3. ASSUME NEW r \in Changers, Market!Toggle(r) \/ Market!Uninstall(r) \/ Market!Rollback(r) PROVE Remembers
    BY <2>3 DEF Market!Toggle, Market!Uninstall, Market!Rollback, Market!ToggleCheck, Market!ToggleUpdate,
       Market!UninstallCheck, Market!UninstallProfile, Market!UninstallNpm, Market!UninstallRecreate,
       Market!RestoreProfile, Market!RestoreManifest, Remembers
  <2> QED
    BY <2>1, <2>2, <2>3 DEF Market!Handler
<1> QED
  BY <1>1 DEF Remembers, Market!Undo, Market!history

LEMMA MarketStep == ASSUME MarketInv, Market!Next PROVE MarketInv'
<1>1. MarketTyped'
  BY TypedBegin, TypedWrites, TypedStarts, TypedToggle, TypedUninstall, TypedRollback, TypedArrive, TypedRestart
     DEF MarketInv, Market!Next, Market!Handler, Market!Install
<1>2. CASE Market!Restart
  BY <1>1, <1>2, RestartStep DEF MarketInv
<1>3. CASE Market!Arrive \/ \E r \in Changers : Market!Handler(r)
  BY <1>1, <1>3, ChangeStep, StaysLost DEF MarketInv
<1> QED
  BY <1>2, <1>3 DEF Market!Next

LEMMA ChangeStays == ASSUME ChangeInv, UNCHANGED market PROVE ChangeInv'
<1>1. /\ profile' = profile /\ disabled' = disabled /\ loader' = loader /\ packages' = packages
      /\ inFlight' = inFlight /\ job' = job /\ reply' = reply /\ interrupted' = interrupted
  BY DEF market
<1>2. /\ StoresTyped' <=> StoresTyped
      /\ FlagsTyped' <=> FlagsTyped
      /\ OneChange' <=> OneChange
      /\ Calm' <=> Calm
  BY <1>1 DEF StoresTyped, FlagsTyped, OneChange, Calm, Market!Loaded
<1>3. ASSUME NEW j \in MarketJobs, Changing(j) PROVE Changing(j)'
  <2>1. Market!Loaded' = Market!Loaded
    BY <1>1 DEF Market!Loaded
  <2>2. Installing(j)' <=> Installing(j)
    BY <1>1, <1>2, <2>1 DEF Installing, Restorable, WrittenFrom, Trimmed, PlanOf, Needs
  <2>3. Toggling(j)' <=> Toggling(j)
    BY <1>1, <1>2, <2>1 DEF Toggling, Restorable
  <2>4. Uninstalling(j)' <=> Uninstalling(j)
    BY <1>1, <1>2, <2>1 DEF Uninstalling, Restorable
  <2> QED
    BY <1>2, <1>3, <2>2, <2>3, <2>4 DEF Changing
<1>4. ASSUME NEW r \in Changers, job'[r].step # "done" PROVE Changing(job[r])'
  <2>1. PICK j \in MarketJobs : j = job[r] /\ j = job'[r] /\ Changing(j)
    BY <1>1, <1>4, Busy
  <2>2. Changing(j)'
    BY <1>3, <2>1
  <2> QED
    BY <2>1, <2>2
<1> QED
  BY <1>1, <1>2, <1>4 DEF ChangeInv

LEMMA MarketStays == ASSUME MarketInv, UNCHANGED market PROVE MarketInv'
<1>1. /\ profile' = profile /\ disabled' = disabled /\ loader' = loader /\ packages' = packages
      /\ inFlight' = inFlight /\ job' = job /\ reply' = reply /\ interrupted' = interrupted
      /\ swallowed' = swallowed
  BY DEF market
<1>2. MarketTyped'
  BY <1>1 DEF MarketInv, MarketTyped, StoresTyped, FlagsTyped
<1> QED
  BY <1>1, <1>2, ChangeStays DEF MarketInv

LEMMA MarketSound ==
    ASSUME MarketInv
    PROVE  Market!TypeOK /\ Market!DependenciesEnabled /\ Market!LoaderIsConfigured
<1>1. Market!Configured = In(profile)
  BY DEF Market!Configured, In
<1>2. Market!Settled => Calm
  BY DEF MarketInv, MarketTyped, ChangeInv, OneChange, Market!Settled
<1>3. \A r \in Changers : job[r].step \in Market!Steps
  BY DEF MarketInv, MarketTyped, MarketJobs
<1>4. Market!TypeOK
  BY <1>1, <1>3 DEF MarketInv, MarketTyped, StoresTyped, FlagsTyped, Profile, ProfileEntries, Market!TypeOK
<1>5. DependsOn \in [Plugins -> SUBSET Plugins]
  BY MarketAssumption DEF Market!CatalogAssumption
<1> QED
  BY <1>1, <1>2, <1>4, <1>5
     DEF Market!DependenciesEnabled, Market!LoaderIsConfigured, Market!Settled, Market!Enabled, Calm, Whole

\* An install that answers has done what it answers.
LEMMA InstallAnswers ==
    ASSUME ChangeInv, ~swallowed', Market!Next, NEW r \in Changers, job[r].op = "install", job[r].step # "done",
           job'[r].step = "done"
    PROVE  /\ reply' = "installed" => /\ Needs(job[r]) \subseteq In(profile') \ disabled'
                                      /\ job[r].plugin \in In(profile')
                                      /\ disabled' \subseteq job[r].saved.disabled
           /\ reply' = "failed" => /\ job[r].step = "restoreManifest" /\ packages' = job[r].manifest
                                   /\ UNCHANGED <<profile, loader>>
<1>1. CASE Market!Restart \/ Market!Arrive
  BY <1>1 DEF Market!Restart, Market!Arrive, Market!Accept
<1>2. ASSUME NEW s \in Changers, Market!Handler(s) PROVE job[s].step # "done"
  BY <1>2 DEF Market!Handler, Market!Install, Market!Toggle, Market!Uninstall, Market!Rollback,
     Market!At, Market!InstallCheck, Market!InstallNpm, Market!InstallEnable, Market!InstallWrite,
     Market!InstallWritten, Market!InstallCreate, Market!InstallCreated, Market!InstallUnwind,
     Market!ToggleCheck, Market!ToggleUpdate, Market!UninstallCheck, Market!UninstallProfile,
     Market!UninstallNpm, Market!UninstallRecreate, Market!RestoreProfile, Market!RestoreManifest
<1>3. ASSUME Market!Handler(r) PROVE Market!Install(r) \/ Market!Rollback(r)
  BY <1>3 DEF Market!Handler, Market!Toggle, Market!Uninstall, Market!At, Market!ToggleCheck,
     Market!ToggleUpdate, Market!UninstallCheck, Market!UninstallProfile, Market!UninstallNpm,
     Market!UninstallRecreate
<1>4. CASE Market!Install(r)
  <2>1. reply' # "failed"
    BY <1>4 DEF Market!Install, Market!InstallCheck, Market!InstallNpm, Market!InstallEnable,
       Market!InstallWrite, Market!InstallWritten, Market!InstallCreate, Market!InstallCreated,
       Market!InstallUnwind, Market!Answer, Market!Goto, Market!Continue
  <2>2. ASSUME reply' = "installed"
        PROVE  /\ UNCHANGED <<profile, disabled>>
               /\ \/ job[r].step = "write" /\ job[r].index = 0
                  \/ job[r].step = "create"
                  \/ job[r].step = "unwind" /\ job[r].leased
    <3>1. ~Market!InstallCheck(r) /\ ~Market!InstallNpm(r) /\ ~Market!InstallEnable(r) /\ ~Market!InstallWrite(r)
          /\ ~Market!InstallCreate(r)
      BY <2>2 DEF Market!InstallCheck, Market!InstallNpm, Market!InstallEnable,
         Market!InstallWrite, Market!InstallCreate, Market!Answer, Market!Goto, Market!Continue
    <3> QED
      BY <1>4, <2>2, <3>1 DEF Market!Install, Market!InstallWritten, Market!InstallCreated,
         Market!InstallUnwind, Market!At, Market!Goto, Market!Continue, Market!Stores
  <2>3. ASSUME reply' = "installed"
        PROVE  /\ Needs(job[r]) \subseteq In(profile) \ disabled
               /\ job[r].plugin \in In(profile) /\ disabled \subseteq job[r].saved.disabled
    <3>1. /\ job[r] \in MarketJobs /\ job[r].plugin \in Plugins /\ StoresTyped /\ Changing(job[r])
          /\ Installing(job[r])
      <4>1. job[r].step # "check"
        BY <2>2, <2>3
      <4> QED
        BY <4>1, Busy DEF Changing
    <3>2. WrittenFrom(job[r], 0) /\ Restorable(job[r]) /\ In(job[r].saved.profile) = job[r].known
          /\ Market!Loaded \subseteq job[r].known \cup job[r].missing
          /\ job[r].missing = PlanOf(job[r]) \ job[r].known
      BY <2>2, <2>3, <3>1 DEF Installing
    <3>3. job[r].plugin \in PlanOf(job[r]) /\ \A i \in DOMAIN Plan[job[r].plugin] : i > 0
      BY <3>1, Plans DEF PlanOf
    <3>4. job[r].plugin \in In(profile)
      BY <3>1, <3>2, <3>3, Plans DEF WrittenFrom, PlanOf
    <3> QED
      BY <3>1, <3>2, <3>4, PlanWhole DEF WrittenFrom, Trimmed
  <2> QED
    BY <2>1, <2>2, <2>3
<1>5. CASE Market!Rollback(r)
  BY <1>5, Undone
     DEF Market!Rollback, Market!RestoreProfile, Market!RestoreManifest, Market!Goto, Market!Continue,
         Market!Answer
<1> QED
  BY <1>1, <1>2, <1>3, <1>4, <1>5 DEF Market!Next, ChangeInv, OneChange

\* Installs are all or nothing.
LEMMA MarketActs ==
    ASSUME MarketInv, Market!Next, ~swallowed', NEW r \in Changers
    PROVE  /\ Market!Finishes(r, "install", "installed") =>
                 /\ \A q \in Market!Dependencies(job[r].plugin) : Market!Enabled(q)'
                 /\ job[r].plugin \in Market!Configured'
                 /\ job[r].plugin \in disabled' => job[r].plugin \in job[r].saved.disabled
           /\ Market!Finishes(r, "install", "failed") =>
                 /\ \A q \in job[r].missing : loader'[q] = "absent" /\ ~Market!Contains(profile', q)
                 /\ packages' = job[r].manifest
<1>1. CASE Market!Restart
  BY <1>1 DEF Market!Restart, Market!Finishes
<1>2. CASE ~Market!Restart
  <2>1. ChangeInv
    BY <1>2, StaysLost DEF MarketInv, Market!Next
  <2>2. ASSUME Market!Finishes(r, "install", "installed")
        PROVE  /\ \A q \in Market!Dependencies(job[r].plugin) : Market!Enabled(q)'
               /\ job[r].plugin \in Market!Configured'
               /\ job[r].plugin \in disabled' => job[r].plugin \in job[r].saved.disabled
    <3>1. /\ Needs(job[r]) \subseteq In(profile') \ disabled' /\ job[r].plugin \in In(profile')
          /\ disabled' \subseteq job[r].saved.disabled
      BY <2>1, <2>2, InstallAnswers DEF Market!Finishes
    <3> QED
      BY <3>1 DEF Needs, Market!Enabled, Market!Configured, In
  <2>3. ASSUME Market!Finishes(r, "install", "failed")
        PROVE  /\ \A q \in job[r].missing : loader'[q] = "absent" /\ ~Market!Contains(profile', q)
               /\ packages' = job[r].manifest
    <3>1. /\ job[r].op = "install" /\ job[r].step = "restoreManifest" /\ packages' = job[r].manifest
          /\ UNCHANGED <<profile, loader>>
      BY <2>1, <2>3, InstallAnswers DEF Market!Finishes
    <3>2. /\ Calm /\ In(profile) \cap job[r].missing = {} /\ job[r].missing \subseteq Plugins
      BY <2>1, <3>1, Busy, Plans DEF Changing, Installing, PlanOf
    <3> QED
      BY <3>1, <3>2 DEF Calm, Market!Loaded, In
  <2> QED
    BY <2>2, <2>3
<1> QED
  BY <1>1, <1>2
=============================================================================
