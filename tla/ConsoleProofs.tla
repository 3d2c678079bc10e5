---------------------------- MODULE ConsoleProofs ----------------------------
(***************************************************************************)
(* Proofs about the browser tab.                                            *)
(* ConsoleNavigation: for every set of sessions, every number of reads in   *)
(* flight and every number of intents, foreign switches and failures.       *)
(* PromptComposer: for every finite set of sessions, every set of           *)
(* annotations and every number of texts, submissions and reloads, with or  *)
(* without the tab's storage.                                               *)
(***************************************************************************)
EXTENDS MC_Console, FiniteSetTheorems, SequenceTheorems, TLAPS

-----------------------------------------------------------------------------
(* Jobs and the chain.                                                      *)

LEMMA JobType ==
    ASSUME NEW kind \in {"open", "create", "restore", "fork"},
           NEW path \in AllSessions \cup {None},
           NEW n \in (0 .. MaxIntents) \cup {None}
    PROVE  Job(kind, path, n) \in Jobs
BY DEF Job, Jobs, Steps

\* One field of a job changes.
LEMMA JobStep ==
    ASSUME NEW j \in Jobs, NEW s \in Steps
    PROVE  LET k == [j EXCEPT !.step = s]
           IN  /\ k \in Jobs /\ k.step = s
               /\ k.kind = j.kind /\ k.path = j.path /\ k.intent = j.intent
               /\ k.current = j.current /\ k.latest = j.latest
BY DEF Jobs

LEMMA JobOutdated ==
    ASSUME NEW j \in Jobs
    PROVE  /\ Outdated(j) \in Jobs /\ ~Outdated(j).latest
           /\ Outdated(j).kind = j.kind /\ Outdated(j).path = j.path
           /\ Outdated(j).intent = j.intent /\ Outdated(j).current = j.current
           /\ Outdated(j).step = j.step
BY DEF Jobs, Outdated

\* The head of the chain becomes rec, the rest stays.
LEMMA HeadOnly ==
    ASSUME queue \in Seq(Jobs), queue # <<>>, NEW rec \in Jobs, SetHead(rec)
    PROVE  /\ queue' \in Seq(Jobs)
           /\ DOMAIN queue' = DOMAIN queue /\ 1 \in DOMAIN queue
           /\ Len(queue') = Len(queue)
           /\ queue'[1] = rec
           /\ \A k \in DOMAIN queue \ {1} : queue'[k] = queue[k]
<1>1. Len(queue) \in Nat \ {0} /\ DOMAIN queue = 1 .. Len(queue)
  BY EmptySeq, LenProperties
<1>2. 1 \in 1 .. Len(queue)
  BY <1>1
<1>3. queue' = [queue EXCEPT ![1] = rec]
  BY DEF SetHead
<1>4. queue' \in Seq(Jobs) /\ Len(queue') = Len(queue)
  BY <1>2, <1>3, ExceptSeq
<1>5. \A j \in 1 .. Len(queue) : queue'[j] = IF j = 1 THEN rec ELSE queue[j]
  BY <1>2, <1>3, ExceptSeq
<1>6. DOMAIN queue' = 1 .. Len(queue')
  BY <1>4, LenProperties
<1> QED
  BY <1>1, <1>2, <1>4, <1>5, <1>6

LEMMA HeadIn ==
    ASSUME queue \in Seq(Jobs), queue # <<>>
    PROVE  Head1 \in Jobs /\ 1 \in DOMAIN queue
<1>1. Len(queue) \in Nat \ {0} /\ DOMAIN queue = 1 .. Len(queue)
  BY EmptySeq, LenProperties
<1> QED
  BY <1>1, ElementOfSeq DEF Head1

\* Every job of the chain changes, none is added or dropped.
LEMMA ChainMapped ==
    ASSUME queue \in Seq(Jobs), NEW f, f = [k \in DOMAIN queue |-> f[k]],
           \A k \in DOMAIN queue : f[k] \in Jobs
    PROVE  f \in Seq(Jobs) /\ DOMAIN f = DOMAIN queue /\ Len(f) = Len(queue)
<1>1. Len(queue) \in Nat /\ DOMAIN queue = 1 .. Len(queue)
  BY LenProperties
<1>2. f \in [1 .. Len(queue) -> Jobs]
  BY <1>1
<1>3. f \in Seq(Jobs)
  BY <1>1, <1>2, SMT
<1>4. Len(f) = Len(queue)
  BY <1>1, <1>2, <1>3, SMT
<1> QED
  BY <1>1, <1>2, <1>3, <1>4

LEMMA OutdatedChain ==
    ASSUME queue \in Seq(Jobs)
    PROVE  /\ OutdatedQueue \in Seq(Jobs)
           /\ DOMAIN OutdatedQueue = DOMAIN queue /\ Len(OutdatedQueue) = Len(queue)
           /\ \A k \in DOMAIN queue : OutdatedQueue[k] = Outdated(queue[k])
<1>1. \A k \in DOMAIN queue : queue[k] \in Jobs
  BY LenProperties, ElementOfSeq
<1>2. \A k \in DOMAIN queue : OutdatedQueue[k] = Outdated(queue[k])
  BY DEF OutdatedQueue
<1>3. \A k \in DOMAIN queue : OutdatedQueue[k] \in Jobs
  BY <1>1, <1>2, JobOutdated
<1>4. OutdatedQueue = [k \in DOMAIN queue |-> OutdatedQueue[k]]
  BY DEF OutdatedQueue
<1> QED
  BY <1>2, <1>3, <1>4, ChainMapped

\* A job that waits for a read goes on when the read has settled.
LEMMA ResumesJob ==
    ASSUME NEW i \in Slots, NEW j \in Jobs
    PROVE  /\ Resumes(i, j) \in Jobs
           /\ Resumes(i, j) = j \/ (j.step = "refreshing" /\ Resumes(i, j) = [j EXCEPT !.step = "over"])
BY JobStep DEF Resumes, Steps

LEMMA ResumedChain ==
    ASSUME queue \in Seq(Jobs), NEW i \in Slots
    PROVE  LET q == [k \in DOMAIN queue |-> Resumes(i, queue[k])]
           IN  /\ q \in Seq(Jobs)
               /\ DOMAIN q = DOMAIN queue /\ Len(q) = Len(queue)
               /\ \A k \in DOMAIN queue : q[k] = Resumes(i, queue[k])
<1> DEFINE q == [k \in DOMAIN queue |-> Resumes(i, queue[k])]
<1>1. \A k \in DOMAIN queue : queue[k] \in Jobs
  BY LenProperties, ElementOfSeq
<1>2. \A k \in DOMAIN queue : q[k] \in Jobs
  BY <1>1, ResumesJob
<1> QED
  BY <1>2, ChainMapped

-----------------------------------------------------------------------------
(* Reads.                                                                   *)

LEMMA FreeType == Free \in Reads
BY DEF Free, Reads

LEMMA ReadFields ==
    ASSUME NEW x \in Reads
    PROVE  /\ [x EXCEPT !.void = TRUE] \in Reads
           /\ \A i : [x EXCEPT !.older = @ \ {i}] \in Reads
           /\ \A v \in BOOLEAN : [x EXCEPT !.void = v] \in Reads
           /\ \A v \in AllSessions \cup {None} :
                 [x EXCEPT !.state = "answered", !.value = v] \in Reads
BY DEF Reads

PendingType == {None} \cup [intent : 0 .. MaxIntents, accepted : BOOLEAN]

LEMMA AcceptedType ==
    ASSUME NEW n \in 0 .. MaxIntents
    PROVE  Accepted(n) \in PendingType
BY DEF Accepted, PendingType

\* A read is started; the others keep what they hold.
LEMMA IssueKeeps ==
    ASSUME NEW base \in [Slots -> Reads], NEW navigation \in PendingType,
           NEW awaited \in BOOLEAN, Issue(base, navigation, awaited)
    PROVE  /\ reads' \in [Slots -> Reads]
           /\ \A j \in Slots :
                 \/ reads'[j].state = "sent"
                 \/ /\ reads'[j].state = base[j].state
                    /\ reads'[j].value = base[j].value
                    /\ reads'[j].void = base[j].void
<1>1. PICK i \in Slots :
         reads' = [j \in Slots |->
           IF j = i THEN [Free EXCEPT !.state = "sent", !.awaited = awaited,
                            !.older = {k \in Slots : base[k].state # "free"},
                            !.mark = IF navigation # None /\ navigation.accepted
                                     THEN navigation.intent ELSE None]
           ELSE [base[j] EXCEPT !.older = @ \ {i}]]
  BY DEF Issue
<1> DEFINE mark == IF navigation # None /\ navigation.accepted THEN navigation.intent ELSE None
           new == [Free EXCEPT !.state = "sent", !.awaited = awaited,
                     !.older = {k \in Slots : base[k].state # "free"}, !.mark = mark]
<1>2. mark \in (0 .. MaxIntents) \cup {None}
  BY DEF PendingType
<1> HIDE DEF mark
<1>3. new \in Reads /\ new.state = "sent"
  BY <1>2 DEF Free, Reads
<1>4. reads'[i] = new
  BY <1>1 DEF mark
<1>5. ASSUME NEW j \in Slots \ {i}
      PROVE  /\ reads'[j] \in Reads
             /\ reads'[j].state = base[j].state
             /\ reads'[j].value = base[j].value
             /\ reads'[j].void = base[j].void
  <2>1. reads'[j] = [base[j] EXCEPT !.older = @ \ {i}]
    BY <1>1, <1>5
  <2>2. base[j] \in Reads
    BY <1>5
  <2> QED
    BY <2>1, <2>2 DEF Reads
<1> HIDE DEF new
<1>6. \A j \in Slots : reads'[j] \in Reads
  BY <1>3, <1>4, <1>5
<1>7. reads' = [j \in Slots |-> reads'[j]]
  BY <1>1
<1>8. reads' \in [Slots -> Reads]
  BY <1>6, <1>7
<1> QED
  BY <1>3, <1>4, <1>5, <1>8

LEMMA VoidedReads ==
    ASSUME reads \in [Slots -> Reads]
    PROVE  Voided \in [Slots -> Reads] /\ \A i \in Slots : Voided[i].void
<1>1. ASSUME NEW x \in Reads PROVE [x EXCEPT !.void = TRUE].void
  BY DEF Reads
<1>2. \A i \in Slots : Voided[i] = [reads[i] EXCEPT !.void = TRUE]
  BY DEF Voided
<1>3. \A i \in Slots : Voided[i] \in Reads /\ Voided[i].void
  BY <1>1, <1>2, ReadFields
<1> QED
  BY <1>3 DEF Voided

\* A read settles; the others keep their answers, some become void.
LEMMA SettleKeeps ==
    ASSUME TypeOK, NEW i \in Slots, Settle(i)
    PROVE  /\ reads' \in [Slots -> Reads]
           /\ \A j \in Slots :
                 \/ reads'[j].state = "free"
                 \/ /\ reads'[j].state = reads[j].state
                    /\ reads'[j].value = reads[j].value
                    /\ reads[j].void => reads'[j].void
           /\ queue' \in Seq(Jobs) /\ DOMAIN queue' = DOMAIN queue
           /\ \A k \in DOMAIN queue : queue'[k] = Resumes(i, queue[k])
           /\ fork' \in Jobs /\ fork' = Resumes(i, fork)
<1>1. ASSUME NEW j \in Slots
      PROVE  /\ reads'[j] \in Reads
             /\ \/ reads'[j].state = "free"
                \/ /\ reads'[j].state = reads[j].state
                   /\ reads'[j].value = reads[j].value
                   /\ reads[j].void => reads'[j].void
  <2>1. CASE j = i
    BY <2>1, FreeType DEF Settle, Free
  <2>2. CASE j # i
    <3> DEFINE v == reads[j].void \/ (~reads[i].void /\ j \in reads[i].older)
    <3>1. reads'[j] = [reads[j] EXCEPT !.void = v]
      BY <2>2 DEF Settle
    <3>2. reads[j] \in Reads /\ v \in BOOLEAN /\ (reads[j].void => v)
      BY DEF TypeOK, Reads
    <3> HIDE DEF v
    <3> QED
      BY <3>1, <3>2 DEF Reads
  <2> QED
    BY <2>1, <2>2
<1>2. reads' \in [Slots -> Reads]
  BY <1>1 DEF Settle
<1>3. /\ queue' \in Seq(Jobs) /\ DOMAIN queue' = DOMAIN queue
      /\ \A k \in DOMAIN queue : queue'[k] = Resumes(i, queue[k])
  BY ResumedChain DEF Settle, TypeOK
<1>4. fork' \in Jobs /\ fork' = Resumes(i, fork)
  BY ResumesJob DEF Settle, TypeOK
<1> QED
  BY <1>1, <1>2, <1>3, <1>4

-----------------------------------------------------------------------------
(* Types.                                                                   *)

LEMMA TypeInit == Init => TypeOK
<1> SUFFICES ASSUME Init PROVE TypeOK
  OBVIOUS
<1>1. \A path \in AllSessions \cup {None} : Job("restore", path, 0) \in Jobs
  BY JobType, NavigationAssumption
<1>2. queue \in Seq(Jobs) /\ wanted \in AllSessions \cup {None}
  <2>1. PICK path \in Sessions \cup {None} :
           /\ queue = IF path = None THEN <<>> ELSE <<Job("restore", path, 0)>>
           /\ wanted = path
    BY DEF Init
  <2>2. Job("restore", path, 0) \in Jobs
    BY <1>1 DEF AllSessions
  <2>3. <<>> \in Seq(Jobs) /\ <<Job("restore", path, 0)>> \in Seq(Jobs)
    BY <2>2
  <2> QED
    BY <2>1, <2>3 DEF AllSessions
<1>3. fork \in Jobs
  BY JobType DEF Init, NoFork
<1>4. reads \in [Slots -> Reads]
  BY FreeType DEF Init
<1>5. intent \in 0 .. MaxIntents /\ foreign \in 0 .. MaxForeign /\ failures \in 0 .. MaxFailures
  BY NavigationAssumption DEF Init
<1> QED
  BY <1>2, <1>3, <1>4, <1>5 DEF Init, TypeOK, AllSessions

LEMMA IntendType ==
    ASSUME TypeOK, NEW kind \in {"open", "create"}, NEW path \in AllSessions, Intend(kind, path)
    PROVE  TypeOK'
<1>1. intent' \in 0 .. MaxIntents
  BY NavigationAssumption DEF Intend, TypeOK
<1>2. Job(kind, path, intent') \in Jobs
  BY <1>1, JobType
<1>3. queue' \in Seq(Jobs)
  BY <1>2 DEF Intend, TypeOK
<1>4. pending' \in [intent : 0 .. MaxIntents, accepted : BOOLEAN]
  BY <1>1 DEF Intend
<1> QED
  BY <1>1, <1>3, <1>4 DEF Intend, TypeOK, serverVars, boundVars

\* The head of the chain takes another step and nothing else changes.
LEMMA HeadStepType ==
    ASSUME TypeOK, queue # <<>>, NEW s \in Steps, SetHead([Head1 EXCEPT !.step = s])
    PROVE  /\ queue' \in Seq(Jobs)
           /\ DOMAIN queue' = DOMAIN queue /\ Len(queue') = Len(queue)
           /\ \A k \in DOMAIN queue \ {1} : queue'[k] = queue[k]
           /\ 1 \in DOMAIN queue
           /\ queue'[1] \in Jobs /\ queue'[1].step = s
           /\ queue'[1].kind = Head1.kind /\ queue'[1].path = Head1.path
           /\ queue'[1].intent = Head1.intent /\ queue'[1].current = Head1.current
           /\ queue'[1].latest = Head1.latest
<1>1. Head1 \in Jobs
  BY HeadIn DEF TypeOK
<1>2. [Head1 EXCEPT !.step = s] \in Jobs
  BY <1>1, JobStep
<1>3. /\ queue' \in Seq(Jobs)
      /\ DOMAIN queue' = DOMAIN queue /\ Len(queue') = Len(queue)
      /\ \A k \in DOMAIN queue \ {1} : queue'[k] = queue[k]
      /\ 1 \in DOMAIN queue
      /\ queue'[1] = [Head1 EXCEPT !.step = s]
  BY <1>2, HeadOnly DEF TypeOK
<1>4. LET k == [Head1 EXCEPT !.step = s]
      IN  /\ k \in Jobs /\ k.step = s
          /\ k.kind = Head1.kind /\ k.path = Head1.path /\ k.intent = Head1.intent
          /\ k.current = Head1.current /\ k.latest = Head1.latest
  BY <1>1, JobStep
<1> QED
  BY <1>3, <1>4

\* What the steps of the chain that only move the head have in common.
HeadMoves(s) ==
    /\ queue # <<>> /\ SetHead([Head1 EXCEPT !.step = s])
    /\ UNCHANGED <<serverVars, shown, reads, due, intent, pending, fork, boundVars, historyVars>>

LEMMA ChainMoves ==
    ASSUME Begin \/ GotSession \/ Supersede
    PROVE  \E s \in {"getting", "opening", "over"} :
              /\ HeadMoves(s)
              /\ queue # <<>> /\ Head1.step \in {"waiting", "got", "opened"}
<1>1. CASE Begin
  BY <1>1 DEF Begin, HeadMoves
<1>2. CASE GotSession
  BY <1>2 DEF GotSession, HeadMoves
<1>3. CASE Supersede
  BY <1>3 DEF Supersede, HeadMoves
<1> QED
  BY <1>1, <1>2, <1>3

LEMMA ApplyType ==
    ASSUME TypeOK, NEW navigation \in PendingType, NEW path \in AllSessions \cup {None},
           NEW awaited \in BOOLEAN, NEW latest \in BOOLEAN,
           Apply(navigation, path, awaited, latest)
    PROVE  /\ reads' \in [Slots -> Reads] /\ pending' \in PendingType
           /\ shown' \in AllSessions \cup {None} /\ settled' \in BOOLEAN
           /\ \A j \in Slots : reads'[j].state = "sent" \/ reads'[j].void
<1>1. Voided \in [Slots -> Reads] /\ \A i \in Slots : Voided[i].void
  BY VoidedReads DEF TypeOK
<1>2. Issue(Voided, navigation, awaited)
  BY DEF Apply
<1>3. /\ reads' \in [Slots -> Reads]
      /\ \A j \in Slots : reads'[j].state = "sent" \/ reads'[j].void = Voided[j].void
  BY <1>1, <1>2, IssueKeeps
<1> QED
  BY <1>1, <1>3 DEF Apply

-----------------------------------------------------------------------------
(* What keeps the page on the session it switched to: while no switch has   *)
(* come after the accepted one, everything that may still be shown, read or *)
(* remembered by the chain or the fork, is the gateway's session.           *)

RealJob(j) == j.path \in AllSessions /\ j.intent \in 0 .. MaxIntents

JobCurrent(j) ==
    /\ j.latest /\ j.step = "got" => j.current = active
    /\ j.latest /\ j.step = "opened" => j.path = active

ChainInv == \A k \in DOMAIN queue : RealJob(queue[k]) /\ JobCurrent(queue[k])

ForkInv == JobCurrent(fork) /\ (fork.step # "waiting" => fork.path \in AllSessions)

ReadsCurrent ==
    settled => \A i \in Slots :
                  reads[i].state = "answered" /\ ~reads[i].void => reads[i].value = active

NavInv == TypeOK /\ ChainInv /\ ForkInv /\ SwitchSticks /\ ReadsCurrent

LEMMA NavInit == Init => NavInv
<1> SUFFICES ASSUME Init PROVE NavInv
  OBVIOUS
<1>1. TypeOK
  BY TypeInit
<1>2. ForkInv
  BY DEF Init, NoFork, Job, ForkInv, JobCurrent
<1>3. SwitchSticks /\ ReadsCurrent
  BY DEF Init, SwitchSticks, ReadsCurrent
<1>4. ChainInv
  <2>1. PICK path \in Sessions \cup {None} :
           queue = IF path = None THEN <<>> ELSE <<Job("restore", path, 0)>>
    BY DEF Init
  <2>2. CASE path = None
    BY <2>1, <2>2 DEF ChainInv
  <2>3. CASE path # None
    <3>1. /\ ~Job("restore", path, 0).latest
          /\ Job("restore", path, 0).path = path /\ Job("restore", path, 0).intent = 0
      BY DEF Job
    <3>2. path \in AllSessions /\ 0 \in 0 .. MaxIntents
      BY <2>3, NavigationAssumption DEF AllSessions
    <3>3. queue = <<Job("restore", path, 0)>>
      BY <2>1, <2>3
    <3>4. \A k \in DOMAIN queue : queue[k] = Job("restore", path, 0)
      BY <3>3
    <3> QED
      BY <3>1, <3>2, <3>4 DEF ChainInv, RealJob, JobCurrent
  <2> QED
    BY <2>2, <2>3
<1> QED
  BY <1>1, <1>2, <1>3, <1>4 DEF NavInv

LEMMA HeadKeeps ==
    ASSUME NavInv, queue # <<>>, NEW rec \in Jobs, SetHead(rec), active' = active,
           RealJob(rec), JobCurrent(rec)
    PROVE  queue' \in Seq(Jobs) /\ ChainInv'
<1>1. /\ queue' \in Seq(Jobs) /\ DOMAIN queue' = DOMAIN queue
      /\ queue'[1] = rec
      /\ \A k \in DOMAIN queue \ {1} : queue'[k] = queue[k]
  BY HeadOnly DEF NavInv, TypeOK
<1>2. \A k \in DOMAIN queue' : RealJob(queue'[k]) /\ JobCurrent(queue'[k])
  BY <1>1 DEF NavInv, ChainInv
<1> QED
  BY <1>1, <1>2 DEF ChainInv, RealJob, JobCurrent

\* The head takes a step after which nothing rests on what it read.
LEMMA HeadMovesKeep ==
    ASSUME NavInv, queue # <<>>, active' = active,
           NEW s \in Steps \ {"got", "opened"}, SetHead([Head1 EXCEPT !.step = s])
    PROVE  queue' \in Seq(Jobs) /\ ChainInv'
<1>1. Head1 \in Jobs /\ RealJob(Head1)
  BY HeadIn DEF NavInv, TypeOK, ChainInv, Head1
<1> DEFINE rec == [Head1 EXCEPT !.step = s]
<1>2. rec \in Jobs /\ rec.step = s /\ rec.path = Head1.path /\ rec.intent = Head1.intent
  BY <1>1, JobStep
<1> HIDE DEF rec
<1>3. RealJob(rec) /\ JobCurrent(rec)
  BY <1>1, <1>2 DEF RealJob, JobCurrent
<1>4. SetHead(rec)
  BY DEF rec
<1> QED
  BY <1>2, <1>3, <1>4, HeadKeeps

LEMMA OutdatedKeeps ==
    ASSUME NavInv, queue' = OutdatedQueue
    PROVE  queue' \in Seq(Jobs) /\ ChainInv'
<1>1. /\ queue' \in Seq(Jobs) /\ DOMAIN queue' = DOMAIN queue
      /\ \A k \in DOMAIN queue : queue'[k] = Outdated(queue[k])
  BY OutdatedChain DEF NavInv, TypeOK
<1>2. \A k \in DOMAIN queue : queue[k] \in Jobs
  BY LenProperties, ElementOfSeq DEF NavInv, TypeOK
<1>3. \A k \in DOMAIN queue' : /\ ~queue'[k].latest
                               /\ queue'[k].path = queue[k].path
                               /\ queue'[k].intent = queue[k].intent
  BY <1>1, <1>2, JobOutdated
<1> QED
  BY <1>1, <1>3 DEF NavInv, ChainInv, RealJob, JobCurrent

LEMMA NavStep == NavInv /\ [Next]_vars => NavInv'
<1> SUFFICES ASSUME NavInv, [Next]_vars PROVE NavInv'
  OBVIOUS
<1>t. /\ TypeOK /\ ChainInv /\ ForkInv /\ SwitchSticks /\ ReadsCurrent
      /\ fork \in Jobs /\ pending \in PendingType /\ reads \in [Slots -> Reads]
      /\ queue \in Seq(Jobs)
  BY DEF NavInv, TypeOK, PendingType
<1>f. UNCHANGED <<fork, active>> => ForkInv'
  BY <1>t DEF ForkInv, JobCurrent
<1>q. UNCHANGED <<queue, active>> => ChainInv'
  BY <1>t DEF ChainInv, RealJob, JobCurrent
<1>1. CASE Poll \/ ScheduledRefresh
  <2>1. /\ Issue(reads, pending, FALSE)
        /\ due' \in BOOLEAN
        /\ UNCHANGED <<active, existing, shown, intent, pending, queue, fork, foreign, failures,
                       wanted, settled>>
    BY <1>1, <1>t DEF Poll, ScheduledRefresh, serverVars, boundVars, historyVars, TypeOK
  <2>2. /\ reads' \in [Slots -> Reads]
        /\ \A j \in Slots : \/ reads'[j].state = "sent"
                            \/ /\ reads'[j].state = reads[j].state
                               /\ reads'[j].value = reads[j].value
                               /\ reads'[j].void = reads[j].void
    BY <1>t, <2>1, IssueKeeps
  <2>3. TypeOK'
    BY <1>t, <2>1, <2>2 DEF TypeOK
  <2>4. ReadsCurrent' /\ SwitchSticks'
    BY <1>t, <2>1, <2>2 DEF ReadsCurrent, SwitchSticks
  <2> QED
    BY <1>f, <1>q, <2>1, <2>3, <2>4 DEF NavInv
<1>2. ASSUME NEW i \in Slots, ReadServed(i) PROVE NavInv'
  <2>1. UNCHANGED <<active, existing, shown, due, intent, pending, queue, fork, foreign, failures,
                    wanted, settled>>
    BY <1>2 DEF ReadServed, serverVars, boundVars, historyVars
  <2>2. /\ reads' \in [Slots -> Reads]
        /\ reads'[i].value = active
        /\ \A j \in Slots \ {i} : reads'[j] = reads[j]
    <3>1. reads' = [reads EXCEPT ![i] = [reads[i] EXCEPT !.state = "answered", !.value = active]]
      BY <1>2, <1>t DEF ReadServed
    <3>2. active \in AllSessions \cup {None}
      BY <1>t DEF TypeOK
    <3>3. /\ [reads[i] EXCEPT !.state = "answered", !.value = active] \in Reads
          /\ [reads[i] EXCEPT !.state = "answered", !.value = active].value = active
      <4>1. reads[i] \in Reads
        BY <1>t
      <4>2. [reads[i] EXCEPT !.state = "answered", !.value = active].value = active
        BY <4>1 DEF Reads
      <4> QED
        BY <3>2, <4>1, <4>2, ReadFields
    <3> QED
      BY <1>t, <3>1, <3>3
  <2>3. TypeOK'
    BY <1>t, <2>1, <2>2 DEF TypeOK
  <2>4. ReadsCurrent' /\ SwitchSticks'
    BY <1>t, <2>1, <2>2 DEF ReadsCurrent, SwitchSticks
  <2> QED
    BY <1>f, <1>q, <2>1, <2>3, <2>4 DEF NavInv
<1>3. ASSUME NEW i \in Slots, ReadArrives(i) \/ ReadFails(i) PROVE NavInv'
  <2>1. /\ Settle(i)
        /\ UNCHANGED <<active, existing, due, intent, foreign, wanted, settled>>
    BY <1>3 DEF ReadArrives, ReadFails, Settle, serverVars, historyVars
  <2>2. /\ reads' \in [Slots -> Reads]
        /\ \A j \in Slots :
              \/ reads'[j].state = "free"
              \/ /\ reads'[j].state = reads[j].state
                 /\ reads'[j].value = reads[j].value
                 /\ reads[j].void => reads'[j].void
        /\ queue' \in Seq(Jobs) /\ DOMAIN queue' = DOMAIN queue
        /\ \A k \in DOMAIN queue : queue'[k] = Resumes(i, queue[k])
        /\ fork' \in Jobs /\ fork' = Resumes(i, fork)
    BY <1>t, <2>1, SettleKeeps
  <2>3. /\ \/ shown' = shown
           \/ shown' = reads[i].value /\ reads[i].state = "answered" /\ ~reads[i].void
        /\ pending' \in {pending, None}
        /\ failures' \in 0 .. MaxFailures
    BY <1>3, <1>t, NavigationAssumption DEF ReadArrives, ReadFails, TypeOK
  <2>4. shown' \in AllSessions \cup {None}
    BY <1>t, <2>3 DEF TypeOK, Reads
  <2>5. TypeOK'
    BY <1>t, <2>1, <2>2, <2>3, <2>4 DEF TypeOK
  <2>6. ReadsCurrent' /\ SwitchSticks'
    BY <1>t, <2>1, <2>2, <2>3 DEF ReadsCurrent, SwitchSticks
  <2>7. ASSUME NEW j \in Jobs
        PROVE  /\ Resumes(i, j).path = j.path /\ Resumes(i, j).intent = j.intent
               /\ JobCurrent(j) => JobCurrent(Resumes(i, j))
               /\ j.step = "waiting" <=> Resumes(i, j).step = "waiting"
    <3>1. Resumes(i, j) = j \/ (j.step = "refreshing" /\ Resumes(i, j) = [j EXCEPT !.step = "over"])
      BY <2>7, ResumesJob
    <3>2. LET k == [j EXCEPT !.step = "over"]
          IN  k.step = "over" /\ k.path = j.path /\ k.intent = j.intent
      BY JobStep DEF Steps
    <3> QED
      BY <3>1, <3>2 DEF JobCurrent
  <2>8. ChainInv'
    <3>1. \A k \in DOMAIN queue : queue[k] \in Jobs
      BY <1>t, LenProperties, ElementOfSeq
    <3>2. \A k \in DOMAIN queue : /\ RealJob(Resumes(i, queue[k]))
                                  /\ JobCurrent(Resumes(i, queue[k]))
      BY <1>t, <2>7, <3>1 DEF ChainInv, RealJob
    <3> QED
      BY <2>1, <2>2, <3>2 DEF ChainInv, RealJob, JobCurrent
  <2>9. ForkInv'
    <3>1. JobCurrent(Resumes(i, fork)) /\ Resumes(i, fork).path = fork.path
      BY <1>t, <2>7 DEF ForkInv
    <3>2. Resumes(i, fork).step # "waiting" => fork.path \in AllSessions
      BY <1>t, <2>7 DEF ForkInv
    <3> QED
      BY <2>1, <2>2, <3>1, <3>2 DEF ForkInv, JobCurrent
  <2> QED
    BY <2>5, <2>6, <2>8, <2>9 DEF NavInv
<1>4. CASE ForeignSwitch
  <2>1. fork' \in Jobs /\ ~fork'.latest /\ fork'.path = fork.path /\ fork'.step = fork.step
    BY <1>4, <1>t, JobOutdated DEF ForeignSwitch
  <2>2. queue' \in Seq(Jobs) /\ ChainInv'
    BY <1>4, OutdatedKeeps DEF ForeignSwitch
  <2>3. foreign' \in 0 .. MaxForeign
    BY <1>4, <1>t, NavigationAssumption DEF ForeignSwitch, TypeOK
  <2>4. TypeOK'
    BY <1>4, <1>t, <2>1, <2>2, <2>3 DEF ForeignSwitch, Broadcast, TypeOK
  <2>5. ForkInv'
    BY <1>t, <2>1 DEF ForkInv, JobCurrent
  <2>6. SwitchSticks' /\ ReadsCurrent'
    BY <1>4 DEF ForeignSwitch, SwitchSticks, ReadsCurrent
  <2> QED
    BY <2>2, <2>4, <2>5, <2>6 DEF NavInv
<1>5. CASE GetServed
  <2> DEFINE rec == [Head1 EXCEPT !.step = "got", !.current = active, !.latest = TRUE]
  <2>1. UNCHANGED <<active, existing, shown, reads, due, intent, pending, fork, foreign, failures,
                    wanted, settled>>
    BY <1>5 DEF GetServed, serverVars, boundVars, historyVars
  <2>2. queue # <<>> /\ SetHead(rec)
    BY <1>5 DEF GetServed
  <2>3. Head1 \in Jobs /\ RealJob(Head1)
    BY <1>t, <2>2, HeadIn DEF ChainInv, Head1
  <2>4. /\ rec \in Jobs /\ rec.step = "got" /\ rec.current = active
        /\ rec.path = Head1.path /\ rec.intent = Head1.intent
    <3>1. active \in AllSessions
      BY <1>t DEF TypeOK
    <3> QED
      BY <2>3, <3>1 DEF Jobs, Steps
  <2> HIDE DEF rec
  <2>5. queue' \in Seq(Jobs) /\ ChainInv'
    BY <2>1, <2>2, <2>3, <2>4, HeadKeeps DEF RealJob, JobCurrent
  <2>6. TypeOK' /\ SwitchSticks' /\ ReadsCurrent'
    BY <1>t, <2>1, <2>5 DEF TypeOK, SwitchSticks, ReadsCurrent
  <2> QED
    BY <1>f, <2>1, <2>5, <2>6 DEF NavInv
<1>6. CASE OpenServed
  <2>1. /\ queue # <<>> /\ Head1.step = "opening"
        /\ active' = Head1.path /\ existing' = existing \cup {Head1.path}
        /\ queue' = [OutdatedQueue EXCEPT ![1].step = "opened", ![1].latest = TRUE]
        /\ fork' = Outdated(fork) /\ ~settled' /\ settled' \in BOOLEAN
        /\ due' \in BOOLEAN
        /\ UNCHANGED <<shown, reads, intent, pending, foreign, failures, wanted>>
    BY <1>6, <1>t DEF OpenServed, Broadcast, boundVars, TypeOK
  <2>2. /\ Head1 \in Jobs /\ RealJob(Head1) /\ 1 \in DOMAIN queue /\ Head1 = queue[1]
    BY <1>t, <2>1, HeadIn DEF ChainInv, Head1
  <2> DEFINE old == Outdated(Head1)
             rec == [old EXCEPT !.step = "opened", !.latest = TRUE]
  <2>3. /\ OutdatedQueue \in Seq(Jobs)
        /\ DOMAIN OutdatedQueue = DOMAIN queue
        /\ \A k \in DOMAIN queue : OutdatedQueue[k] = Outdated(queue[k])
    BY <1>t, OutdatedChain
  <2>4. old \in Jobs /\ old.path = Head1.path /\ old.intent = Head1.intent
    BY <2>2, JobOutdated
  <2>5. /\ rec \in Jobs /\ rec.step = "opened"
        /\ rec.path = Head1.path /\ rec.intent = Head1.intent
    <3> HIDE DEF old
    <3> QED
      BY <2>4 DEF Jobs, Steps
  <2>6. queue' = [OutdatedQueue EXCEPT ![1] = rec]
    <3>1. OutdatedQueue[1] = old
      BY <2>2, <2>3
    <3>2. queue' = [OutdatedQueue EXCEPT ![1] = [OutdatedQueue[1] EXCEPT !.step = "opened",
                                                                        !.latest = TRUE]]
      BY <2>1
    <3> QED
      BY <3>1, <3>2
  <2> HIDE DEF rec
  <2>7. /\ queue' \in Seq(Jobs)
        /\ \A k \in DOMAIN queue' : k \in DOMAIN queue
        /\ \A k \in DOMAIN queue' : queue'[k] = IF k = 1 THEN rec ELSE Outdated(queue[k])
    <3>1. DOMAIN OutdatedQueue = 1 .. Len(OutdatedQueue)
      BY <2>3, LenProperties
    <3>2. /\ queue' \in Seq(Jobs) /\ Len(queue') = Len(OutdatedQueue)
          /\ \A j \in 1 .. Len(OutdatedQueue) :
                queue'[j] = IF j = 1 THEN rec ELSE OutdatedQueue[j]
      BY <2>2, <2>3, <2>5, <2>6, <3>1, ExceptSeq
    <3>3. DOMAIN queue' = 1 .. Len(queue')
      BY <3>2, LenProperties
    <3> QED
      BY <2>3, <3>1, <3>2, <3>3
  <2>8. ChainInv'
    <3>1. ASSUME NEW k \in DOMAIN queue' PROVE RealJob(queue'[k]) /\ JobCurrent(queue[k])'
      <4>1. CASE k = 1
        BY <2>1, <2>2, <2>5, <2>7, <4>1 DEF RealJob, JobCurrent
      <4>2. CASE k # 1
        <5>1. queue[k] \in Jobs /\ RealJob(queue[k]) /\ queue'[k] = Outdated(queue[k])
          BY <1>t, <2>7, <3>1, <4>2, LenProperties, ElementOfSeq DEF ChainInv
        <5>2. /\ ~queue'[k].latest
              /\ queue'[k].path = queue[k].path /\ queue'[k].intent = queue[k].intent
          BY <5>1, JobOutdated
        <5> QED
          BY <5>1, <5>2 DEF RealJob, JobCurrent
      <4> QED
        BY <4>1, <4>2
    <3> QED
      BY <3>1 DEF ChainInv, RealJob
  <2>9. fork' \in Jobs /\ ~fork'.latest /\ fork'.path = fork.path /\ fork'.step = fork.step
    BY <1>t, <2>1, JobOutdated
  <2>10. ForkInv'
    BY <1>t, <2>9 DEF ForkInv, JobCurrent
  <2>11. TypeOK' /\ SwitchSticks' /\ ReadsCurrent'
    BY <1>t, <2>1, <2>2, <2>7, <2>9 DEF TypeOK, RealJob, SwitchSticks, ReadsCurrent
  <2> QED
    BY <2>8, <2>10, <2>11 DEF NavInv
<1>7. CASE ForkServed
  <2>1. /\ fork.step \in {"forking", "opening"}
        /\ existing' = existing \cup {fork.path}
        /\ UNCHANGED <<shown, reads, intent, pending, foreign, failures, wanted>>
    BY <1>7 DEF ForkServed, boundVars
  <2>2. fork.path \in AllSessions
    BY <1>t, <2>1 DEF ForkInv
  <2>3. CASE fork.step = "forking"
    <3>1. fork' = [fork EXCEPT !.step = "opening"] /\ UNCHANGED <<active, queue, due, settled>>
      BY <1>7, <2>3 DEF ForkServed
    <3>2. fork' \in Jobs /\ fork'.step = "opening" /\ fork'.path = fork.path
      BY <1>t, <3>1, JobStep DEF Steps
    <3>3. ForkInv'
      BY <2>2, <3>2 DEF ForkInv, JobCurrent
    <3>4. TypeOK' /\ SwitchSticks' /\ ReadsCurrent'
      BY <1>t, <2>1, <2>2, <3>1, <3>2 DEF TypeOK, SwitchSticks, ReadsCurrent
    <3> QED
      BY <1>q, <3>1, <3>3, <3>4 DEF NavInv
  <2>4. CASE fork.step # "forking"
    <3>1. /\ active' = fork.path
          /\ fork' = [fork EXCEPT !.step = "opened", !.latest = TRUE]
          /\ queue' = OutdatedQueue
          /\ ~settled' /\ settled' \in BOOLEAN
          /\ due' \in BOOLEAN
      BY <1>7, <1>t, <2>4 DEF ForkServed, Broadcast, TypeOK
    <3>2. fork' \in Jobs /\ fork'.step = "opened" /\ fork'.path = fork.path
      BY <1>t, <3>1 DEF Jobs, Steps
    <3>3. ForkInv'
      BY <2>2, <3>1, <3>2 DEF ForkInv, JobCurrent
    <3>4. queue' \in Seq(Jobs) /\ ChainInv'
      BY <3>1, OutdatedKeeps
    <3>5. TypeOK' /\ SwitchSticks' /\ ReadsCurrent'
      BY <1>t, <2>1, <2>2, <3>1, <3>2, <3>4 DEF TypeOK, SwitchSticks, ReadsCurrent
    <3> QED
      BY <3>3, <3>4, <3>5 DEF NavInv
  <2> QED
    BY <2>3, <2>4
<1>8. CASE RequestFails
  <2>1. /\ UNCHANGED <<active, existing, shown, reads, due, intent, pending, foreign, settled>>
        /\ wanted' = None
        /\ failures' \in 0 .. MaxFailures
    BY <1>8, <1>t, NavigationAssumption DEF RequestFails, serverVars, TypeOK
  <2>2. SwitchSticks' /\ ReadsCurrent'
    BY <1>t, <2>1 DEF SwitchSticks, ReadsCurrent
  <2>3. CASE /\ queue # <<>> /\ Head1.step \in {"getting", "opening", "got", "opened"}
             /\ SetHead([Head1 EXCEPT !.step = "failed",
                           !.current = IF Head1.step \in {"opening", "opened"} THEN @ ELSE None])
             /\ UNCHANGED fork
    <3>1. Head1 \in Jobs /\ RealJob(Head1)
      BY <1>t, <2>3, HeadIn DEF ChainInv, Head1
    <3> DEFINE rec == [Head1 EXCEPT !.step = "failed",
                         !.current = IF Head1.step \in {"opening", "opened"} THEN @ ELSE None]
    <3>2. rec \in Jobs /\ rec.step = "failed" /\ rec.path = Head1.path /\ rec.intent = Head1.intent
      BY <3>1 DEF Jobs, Steps
    <3> HIDE DEF rec
    <3>3. SetHead(rec)
      BY <2>3 DEF rec
    <3>4. queue' \in Seq(Jobs) /\ ChainInv'
      BY <2>1, <2>3, <3>1, <3>2, <3>3, HeadKeeps DEF RealJob, JobCurrent
    <3>5. TypeOK'
      BY <1>t, <2>1, <2>3, <3>4 DEF TypeOK
    <3> QED
      BY <1>f, <2>1, <2>2, <2>3, <3>4, <3>5 DEF NavInv
  <2>4. CASE /\ fork.step \in {"forking", "opening", "opened"}
             /\ fork' = [fork EXCEPT !.step = "failed"]
             /\ UNCHANGED queue
    <3>1. fork' \in Jobs /\ fork'.step = "failed" /\ fork'.path = fork.path
      BY <1>t, <2>4, JobStep DEF Steps
    <3>2. ForkInv'
      BY <1>t, <2>4, <3>1 DEF ForkInv, JobCurrent
    <3>3. TypeOK'
      BY <1>t, <2>1, <2>4, <3>1 DEF TypeOK
    <3> QED
      BY <1>q, <2>1, <2>2, <2>4, <3>2, <3>3 DEF NavInv
  <2> QED
    BY <1>8, <2>3, <2>4 DEF RequestFails
<1>9. CASE Navigate \/ CreateNew
  <2>1. PICK kind \in {"open", "create"}, path \in AllSessions : Intend(kind, path)
    BY <1>9, <1>t DEF Navigate, CreateNew, Unused, TypeOK, AllSessions
  <2>2. TypeOK'
    BY <1>t, <2>1, IntendType
  <2>3. UNCHANGED <<active, fork, shown, reads, settled>>
    BY <2>1 DEF Intend, serverVars
  <2> DEFINE new == Job(kind, path, intent')
  <2>4. /\ queue' = Append(queue, new)
        /\ new.path = path /\ new.intent = intent' /\ ~new.latest
    BY <2>1 DEF Intend, Job
  <2>5. intent' \in 0 .. MaxIntents
    BY <2>2 DEF TypeOK
  <2> HIDE DEF new
  <2>6. ASSUME NEW k \in DOMAIN queue' PROVE queue'[k] = new \/ (k \in DOMAIN queue /\ queue'[k] = queue[k])
    BY <1>t, <2>4, <2>6
  <2>7. ChainInv'
    BY <1>t, <2>3, <2>4, <2>5, <2>6 DEF ChainInv, RealJob, JobCurrent
  <2> QED
    BY <1>f, <1>t, <2>2, <2>3, <2>7 DEF NavInv, SwitchSticks, ReadsCurrent
<1>10. CASE Fork
  <2>1. PICK path \in AllSessions : /\ fork' = [Job("fork", path, None) EXCEPT !.step = "forking"]
                                    /\ wanted' = path
    BY <1>10, <1>t DEF Fork, Unused, AllSessions
  <2>2. UNCHANGED <<active, existing, shown, reads, due, intent, pending, queue, foreign, failures,
                    settled>>
    BY <1>10 DEF Fork, serverVars, boundVars
  <2>3. Job("fork", path, None) \in Jobs /\ Job("fork", path, None).path = path
    BY JobType DEF Job
  <2>4. fork' \in Jobs /\ fork'.step = "forking" /\ fork'.path = path
    BY <2>1, <2>3, JobStep DEF Steps
  <2>5. ForkInv'
    BY <2>4 DEF ForkInv, JobCurrent
  <2>6. TypeOK' /\ SwitchSticks' /\ ReadsCurrent'
    BY <1>t, <2>1, <2>2, <2>4 DEF TypeOK, SwitchSticks, ReadsCurrent
  <2> QED
    BY <1>q, <2>2, <2>5, <2>6 DEF NavInv
<1>11. CASE Begin \/ GotSession \/ Supersede
  <2>1. PICK s \in {"getting", "opening", "over"} : HeadMoves(s)
    BY <1>11, ChainMoves
  <2>2. /\ queue # <<>> /\ SetHead([Head1 EXCEPT !.step = s])
        /\ UNCHANGED <<active, existing, shown, reads, due, intent, pending, fork, foreign, failures,
                       wanted, settled>>
    BY <2>1 DEF HeadMoves, serverVars, boundVars, historyVars
  <2>3. s \in Steps \ {"got", "opened"}
    BY DEF Steps
  <2>4. queue' \in Seq(Jobs) /\ ChainInv'
    BY <2>2, <2>3, HeadMovesKeep
  <2>5. TypeOK' /\ SwitchSticks' /\ ReadsCurrent'
    BY <1>t, <2>2, <2>4 DEF TypeOK, SwitchSticks, ReadsCurrent
  <2> QED
    BY <1>f, <2>2, <2>4, <2>5 DEF NavInv
<1>12. CASE Accept \/ AcceptCreated
  <2>1. queue # <<>>
    BY <1>12 DEF Accept, AcceptCreated
  <2>2. Head1 \in Jobs /\ RealJob(Head1) /\ JobCurrent(Head1)
    BY <1>t, <2>1, HeadIn DEF ChainInv, Head1
  <2>3. Accepted(Head1.intent) \in PendingType
    BY <2>2, AcceptedType DEF RealJob
  <2>4. PICK navigation \in PendingType, awaited \in BOOLEAN, s \in {"over", "refreshing"} :
            /\ Apply(navigation, Head1.path, awaited, Head1.latest)
            /\ SetHead([Head1 EXCEPT !.step = s])
    <3>1. CASE Accept
      BY <2>3, <3>1 DEF Accept
    <3>2. CASE AcceptCreated
      BY <1>t, <2>3, <3>2 DEF AcceptCreated
    <3> QED
      BY <1>12, <3>1, <3>2
  <2>5. /\ UNCHANGED <<active, existing, due, intent, fork, foreign, failures, wanted>>
        /\ \/ Head1.step = "opened"
           \/ Head1.step = "got" /\ Head1.path = Head1.current
    BY <1>12 DEF Accept, AcceptCreated, serverVars, boundVars
  <2>6. /\ Head1.path \in AllSessions /\ Head1.latest \in BOOLEAN
        /\ s \in Steps \ {"got", "opened"}
    BY <2>2 DEF RealJob, Jobs, Steps
  <2>7. queue' \in Seq(Jobs) /\ ChainInv'
    BY <2>1, <2>4, <2>5, <2>6, HeadMovesKeep
  <2>8. /\ reads' \in [Slots -> Reads] /\ pending' \in PendingType
        /\ shown' \in AllSessions \cup {None} /\ settled' \in BOOLEAN
        /\ \A j \in Slots : reads'[j].state = "sent" \/ reads'[j].void
    BY <1>t, <2>4, <2>6, ApplyType
  <2>9. TypeOK'
    BY <1>t, <2>5, <2>7, <2>8 DEF TypeOK, PendingType
  <2>10. SwitchSticks' /\ ReadsCurrent'
    BY <2>2, <2>4, <2>5, <2>8 DEF Apply, JobCurrent, SwitchSticks, ReadsCurrent
  <2> QED
    BY <1>f, <2>5, <2>7, <2>9, <2>10 DEF NavInv
<1>13. CASE Reject
  <2>1. /\ queue # <<>> /\ SetHead([Head1 EXCEPT !.step = "over"])
        /\ UNCHANGED <<active, existing, due, intent, fork, foreign, failures, wanted>>
        /\ pending' \in {pending, None}
        /\ \/ UNCHANGED <<reads, shown, settled>>
           \/ reads' = Voided /\ shown' = Head1.current /\ settled' = FALSE
    BY <1>13 DEF Reject, serverVars, boundVars
  <2>2. Head1 \in Jobs
    BY <1>t, <2>1, HeadIn
  <2>3. queue' \in Seq(Jobs) /\ ChainInv'
    BY <2>1, HeadMovesKeep DEF Steps
  <2>4. reads' \in [Slots -> Reads] /\ shown' \in AllSessions \cup {None}
    BY <1>t, <2>1, <2>2, VoidedReads DEF Jobs, TypeOK
  <2>5. settled' \in BOOLEAN /\ pending' \in PendingType
    BY <1>t, <2>1 DEF TypeOK, PendingType
  <2>6. TypeOK'
    BY <1>t, <2>1, <2>3, <2>4, <2>5 DEF TypeOK, PendingType
  <2>7. SwitchSticks' /\ ReadsCurrent'
    BY <1>t, <2>1 DEF SwitchSticks, ReadsCurrent
  <2> QED
    BY <1>f, <2>1, <2>3, <2>6, <2>7 DEF NavInv
<1>14. CASE Advance
  <2>1. /\ queue # <<>> /\ queue' = Tail(queue)
        /\ UNCHANGED <<active, existing, shown, reads, due, intent, pending, fork, foreign, failures,
                       wanted, settled>>
    BY <1>14 DEF Advance, serverVars, boundVars, historyVars
  <2>2. queue' \in Seq(Jobs)
    BY <1>t, <2>1, HeadTailProperties
  <2>3. ASSUME NEW k \in DOMAIN queue' PROVE k + 1 \in DOMAIN queue /\ queue'[k] = queue[k + 1]
    <3>1. /\ DOMAIN queue = 1 .. Len(queue) /\ DOMAIN queue' = 1 .. Len(queue')
          /\ Len(queue) \in Nat
      BY <1>t, <2>2, LenProperties
    <3>2. Len(queue') = Len(queue) - 1 /\ \A j \in 1 .. Len(queue') : queue'[j] = queue[j + 1]
      BY <1>t, <2>1, HeadTailProperties
    <3> QED
      BY <2>3, <3>1, <3>2
  <2>4. ChainInv'
    BY <1>t, <2>1, <2>3 DEF ChainInv, RealJob, JobCurrent
  <2>5. TypeOK' /\ SwitchSticks' /\ ReadsCurrent'
    BY <1>t, <2>1, <2>2 DEF TypeOK, SwitchSticks, ReadsCurrent
  <2> QED
    BY <1>f, <2>1, <2>4, <2>5 DEF NavInv
<1>15. CASE ForkOpened
  <2>1. /\ fork.step = "opened"
        /\ Apply(pending, fork.path, TRUE, fork.latest)
        /\ fork' = [fork EXCEPT !.step = "refreshing"]
        /\ UNCHANGED <<active, existing, due, intent, queue, foreign, failures, wanted>>
    BY <1>15 DEF ForkOpened, serverVars, boundVars
  <2>2. fork.path \in AllSessions /\ fork.latest \in BOOLEAN /\ (fork.latest => fork.path = active)
    BY <1>t, <2>1 DEF ForkInv, JobCurrent, Jobs
  <2>3. /\ reads' \in [Slots -> Reads] /\ pending' \in PendingType
        /\ shown' \in AllSessions \cup {None} /\ settled' \in BOOLEAN
        /\ \A j \in Slots : reads'[j].state = "sent" \/ reads'[j].void
    BY <1>t, <2>1, <2>2, ApplyType
  <2>4. fork' \in Jobs /\ fork'.step = "refreshing" /\ fork'.path = fork.path
    BY <1>t, <2>1, JobStep DEF Steps
  <2>5. ForkInv'
    BY <2>2, <2>4 DEF ForkInv, JobCurrent
  <2>6. TypeOK'
    BY <1>t, <2>1, <2>3, <2>4 DEF TypeOK, PendingType
  <2>7. SwitchSticks' /\ ReadsCurrent'
    BY <2>1, <2>2, <2>3 DEF Apply, SwitchSticks, ReadsCurrent
  <2> QED
    BY <1>q, <2>1, <2>5, <2>6, <2>7 DEF NavInv
<1>16. CASE ForkEnds
  <2>1. /\ fork' = NoFork
        /\ UNCHANGED <<active, existing, shown, reads, due, intent, pending, queue, foreign, failures,
                       wanted, settled>>
    BY <1>16 DEF ForkEnds, serverVars, boundVars, historyVars
  <2>2. NoFork \in Jobs /\ NoFork.step = "waiting" /\ ~NoFork.latest
    <3>1. NoFork \in Jobs
      BY JobType DEF NoFork
    <3>2. NoFork.step = "waiting" /\ ~NoFork.latest
      BY DEF NoFork, Job
    <3> QED
      BY <3>1, <3>2
  <2>3. ForkInv'
    BY <2>1, <2>2 DEF ForkInv, JobCurrent
  <2>4. TypeOK' /\ SwitchSticks' /\ ReadsCurrent'
    BY <1>t, <2>1, <2>2 DEF TypeOK, SwitchSticks, ReadsCurrent
  <2> QED
    BY <1>q, <2>1, <2>3, <2>4 DEF NavInv
<1>17. CASE UNCHANGED vars
  BY <1>17, <1>t, <1>f, <1>q DEF vars, NavInv, TypeOK, SwitchSticks, ReadsCurrent
<1> QED
  BY <1>1, <1>2, <1>3, <1>4, <1>5, <1>6, <1>7, <1>8, <1>9, <1>10, <1>11, <1>12, <1>13, <1>14,
     <1>15, <1>16, <1>17
     DEF Next, Navigating, Forking, User, Gateway, Console, Chain, Fault

\* Whatever reads were in flight before a switch was accepted, however late and in
\* whatever order they are answered or fail, and whoever else switches, the page
\* shows the gateway's session until the gateway switches again.
THEOREM NavigationIsSound == Spec => []NavigationSound
<1>1. NavInv => NavigationSound
  BY DEF NavInv, NavigationSound
<1> QED
  BY <1>1, NavInit, NavStep, PTL DEF Spec

-----------------------------------------------------------------------------
(* The last intent wins, in a console without forks: the job of the latest   *)
(* intent is the last of the chain, nothing that an earlier job does ends    *)
(* it, and once it has opened its session nothing but a foreign switch, a    *)
(* failure or a newer intent comes between it and the end of the chain.      *)

LastJob == queue[Len(queue)]

ChainOrder ==
    /\ \A k \in DOMAIN queue : queue[k].intent \in 0 .. intent
    /\ \A k \in DOMAIN queue : k # Len(queue) => queue[k].intent # intent
    /\ \A k \in DOMAIN queue : k # 1 => queue[k].step = "waiting"
    /\ \A k \in DOMAIN queue : queue[k].kind = "restore" => queue[k].intent = 0
    /\ \A k \in DOMAIN queue : queue[k].step \in {"getting", "got"} => queue[k].kind = "open"

\* What the job of the last intent has come to; p is the pending navigation.
Wins(j, p) ==
    /\ j.step # "failed"
    /\ j.step = "got" => j.current = active
    /\ j.step \in {"opened", "refreshing", "over"} => active = wanted
    /\ j.kind = "open" /\ j.step \in {"waiting", "getting", "got", "opening", "opened"}
          => p = [intent |-> intent, accepted |-> FALSE]

LastWins == LastJob.path = wanted /\ LastJob.intent = intent /\ Wins(LastJob, pending)

WinInv ==
    /\ fork.step = "waiting"
    /\ ChainOrder
    /\ wanted # None /\ queue = <<>> => active = wanted
    /\ wanted # None /\ queue # <<>> => LastWins

LEMMA WinInit == Init => WinInv
<1> SUFFICES ASSUME Init PROVE WinInv
  OBVIOUS
<1>1. PICK path \in Sessions \cup {None} :
         /\ queue = IF path = None THEN <<>> ELSE <<Job("restore", path, 0)>>
         /\ wanted = path
  BY DEF Init
<1>f. fork.step = "waiting"
  BY DEF Init, NoFork, Job
<1>2. CASE path = None
  BY <1>1, <1>2, <1>f DEF WinInv, Init, ChainOrder
<1>3. CASE path # None
  <2> DEFINE j == Job("restore", path, 0)
  <2>1. /\ j.kind = "restore" /\ j.path = path /\ j.intent = 0 /\ j.step = "waiting"
    BY DEF Job
  <2> HIDE DEF j
  <2>2. queue = <<j>> /\ wanted = path /\ intent = 0
    BY <1>1, <1>3 DEF Init, j
  <2>3. Len(queue) = 1 /\ DOMAIN queue = {1} /\ queue[1] = j /\ queue # <<>>
    BY <2>2
  <2>4. ChainOrder
    BY <2>1, <2>2, <2>3 DEF ChainOrder
  <2>5. LastWins
    BY <2>1, <2>2, <2>3 DEF LastWins, LastJob, Wins
  <2> QED
    BY <1>f, <2>3, <2>4, <2>5 DEF WinInv
<1> QED
  BY <1>2, <1>3

\* A step that adds no job and drops none, and moves at most the head.
LEMMA ChainStep ==
    ASSUME TypeOK, WinInv, queue' \in Seq(Jobs), Len(queue') = Len(queue),
           \A k \in DOMAIN queue :
              /\ queue'[k].kind = queue[k].kind /\ queue'[k].path = queue[k].path
              /\ queue'[k].intent = queue[k].intent
              /\ k # 1 => queue'[k].step = queue[k].step,
           queue # <<>> /\ queue'[1].step \in {"getting", "got"} => queue'[1].kind = "open",
           intent' = intent, fork'.step = fork.step, wanted' \in {wanted, None},
           wanted' # None /\ queue = <<>> => active' = active,
           wanted' # None /\ queue # <<>> /\ LastJob.kind = "open" /\ LastWins
              /\ Head1.intent # intent => pending' = pending,
           wanted' # None /\ queue # <<>> /\ LastJob = Head1 /\ LastWins
              => Wins(queue[1], pending)'
    PROVE  WinInv'
<1>1. /\ Len(queue) \in Nat /\ DOMAIN queue = 1 .. Len(queue) /\ DOMAIN queue' = 1 .. Len(queue)
      /\ queue # <<>> <=> Len(queue) # 0
      /\ queue' # <<>> <=> Len(queue) # 0
  <2>1. Len(queue) \in Nat /\ DOMAIN queue = 1 .. Len(queue) /\ DOMAIN queue' = 1 .. Len(queue)
    BY LenProperties DEF TypeOK
  <2>2. (queue # <<>> => Len(queue) # 0) /\ (queue' # <<>> => Len(queue') # 0)
    BY EmptySeq DEF TypeOK
  <2>3. (queue = <<>> => Len(queue) = 0) /\ (queue' = <<>> => Len(queue') = 0)
    BY EmptySeq
  <2> QED
    BY <2>1, <2>2, <2>3
<1>2. ChainOrder'
  BY <1>1 DEF WinInv, ChainOrder
<1>3. ASSUME wanted' # None, queue' # <<>> PROVE LastWins'
  <2>1. /\ wanted' = wanted /\ wanted # None /\ queue # <<>> /\ LastWins
        /\ Len(queue) \in DOMAIN queue
    BY <1>1, <1>3 DEF WinInv
  <2>2. LastJob' = queue'[Len(queue)]
    BY DEF LastJob
  <2>3. LastJob'.path = wanted' /\ LastJob'.intent = intent'
    BY <2>1, <2>2 DEF LastWins, LastJob
  <2>4. CASE Len(queue) = 1
    <3>1. LastJob = Head1
      BY <2>4 DEF LastJob, Head1
    <3>2. Wins(queue[1], pending)'
      BY <1>3, <2>1, <3>1
    <3> QED
      BY <2>2, <2>3, <2>4, <3>2 DEF LastWins, Wins
  <2>5. CASE Len(queue) # 1
    <3>1. 1 \in DOMAIN queue /\ Head1.intent # intent
      BY <1>1, <2>1, <2>5 DEF WinInv, ChainOrder, Head1
    <3>2. LastJob.step = "waiting" /\ LastJob'.step = "waiting" /\ LastJob'.kind = LastJob.kind
      BY <2>1, <2>2, <2>5 DEF WinInv, ChainOrder, LastJob
    <3>3. LastJob.kind = "open" => pending' = [intent |-> intent, accepted |-> FALSE]
      BY <1>3, <2>1, <3>1, <3>2 DEF LastWins, Wins
    <3> QED
      BY <2>3, <3>2, <3>3 DEF LastWins, Wins
  <2> QED
    BY <2>4, <2>5
<1>4. wanted' # None /\ queue' = <<>> => active' = wanted'
  BY <1>1 DEF WinInv
<1> QED
  BY <1>2, <1>3, <1>4 DEF WinInv

\* The head of the chain moves, the sessions and the intents stay.
LEMMA HeadMoveWins ==
    ASSUME TypeOK, WinInv, queue # <<>>, NEW s \in Steps, SetHead([Head1 EXCEPT !.step = s]),
           UNCHANGED <<active, intent, fork, wanted>>,
           s \in {"getting", "got"} => Head1.kind = "open",
           wanted # None /\ LastJob.kind = "open" /\ LastWins /\ Head1.intent # intent
              => pending' = pending,
           wanted # None /\ LastJob = Head1 /\ LastWins /\ queue'[1].step = s
              /\ queue'[1].kind = Head1.kind /\ queue'[1].current = Head1.current
              => Wins(queue[1], pending)'
    PROVE  WinInv'
<1>1. /\ queue' \in Seq(Jobs) /\ Len(queue') = Len(queue)
      /\ \A k \in DOMAIN queue \ {1} : queue'[k] = queue[k]
      /\ queue'[1].step = s
      /\ queue'[1].kind = Head1.kind /\ queue'[1].path = Head1.path
      /\ queue'[1].intent = Head1.intent /\ queue'[1].current = Head1.current
  BY HeadStepType
<1>2. \A k \in DOMAIN queue :
         /\ queue'[k].kind = queue[k].kind /\ queue'[k].path = queue[k].path
         /\ queue'[k].intent = queue[k].intent
         /\ k # 1 => queue'[k].step = queue[k].step
  BY <1>1 DEF Head1
<1>3. wanted' # None /\ queue # <<>> /\ LastJob = Head1 /\ LastWins => Wins(queue[1], pending)'
  BY <1>1
<1> QED
  BY <1>1, <1>2, <1>3, ChainStep

\* While the last intent is a queued navigation, it is the pending one.
LEMMA LastIsPending ==
    ASSUME TypeOK, WinInv, queue # <<>>, wanted # None, LastWins, LastJob.kind = "open",
           LastJob = Head1 \/ Head1.intent # intent,
           LastJob = Head1 => Head1.step \in {"waiting", "getting", "got", "opening", "opened"}
    PROVE  /\ pending = [intent |-> intent, accepted |-> FALSE]
           /\ pending # None /\ pending.intent = intent /\ ~pending.accepted
           /\ Current(Head1) <=> Head1.intent = intent
<1>1. LastJob = Head1 \/ LastJob.step = "waiting"
  <2>1. Len(queue) \in Nat \ {0} /\ DOMAIN queue = 1 .. Len(queue)
    BY EmptySeq, LenProperties DEF TypeOK
  <2>2. Len(queue) \in DOMAIN queue
    BY <2>1
  <2> QED
    BY <2>2 DEF WinInv, ChainOrder, LastJob, Head1
<1>2. pending = [intent |-> intent, accepted |-> FALSE]
  BY <1>1 DEF LastWins, Wins
<1>3. intent \in Nat
  BY NavigationAssumption DEF TypeOK
<1>4. pending # None
  <2>1. pending \in [intent : Nat, accepted : BOOLEAN]
    BY <1>2, <1>3
  <2> QED
    BY <2>1, NavigationAssumption
<1>5. pending.intent = intent /\ ~pending.accepted
  BY <1>2
<1> QED
  BY <1>2, <1>4, <1>5 DEF Current

\* A new intent joins the chain as its last job.
LEMMA IntendWins ==
    ASSUME TypeOK, WinInv, NEW kind \in {"open", "create"}, NEW path \in AllSessions,
           Intend(kind, path)
    PROVE  WinInv'
<1> DEFINE new == Job(kind, path, intent')
<1>1. /\ new.kind = kind /\ new.path = path /\ new.intent = intent' /\ new.step = "waiting"
      /\ kind # "restore"
  BY DEF Job
<1>2. /\ intent' = intent + 1 /\ queue' = Append(queue, new)
      /\ pending' = [intent |-> intent', accepted |-> FALSE]
      /\ wanted' = path /\ UNCHANGED <<active, fork>>
  BY DEF Intend, serverVars
<1> HIDE DEF new
<1>3. queue \in Seq(Jobs) /\ Len(queue) \in Nat /\ intent \in Nat
  BY LenProperties, NavigationAssumption DEF TypeOK
<1>4. /\ DOMAIN queue = 1 .. Len(queue) /\ DOMAIN queue' = 1 .. (Len(queue) + 1)
      /\ Len(queue') = Len(queue) + 1 /\ queue' # <<>>
      /\ queue'[Len(queue) + 1] = new
      /\ \A k \in 1 .. Len(queue) : queue'[k] = queue[k]
  BY <1>2, <1>3
<1>5. ASSUME NEW k \in DOMAIN queue'
      PROVE  /\ queue'[k].intent \in 0 .. intent'
             /\ k # Len(queue') => queue'[k].intent # intent'
             /\ k # 1 => queue'[k].step = "waiting"
             /\ queue'[k].kind = "restore" => queue'[k].intent = 0
             /\ queue'[k].step \in {"getting", "got"} => queue'[k].kind = "open"
  <2>1. CASE k = Len(queue) + 1
    BY <1>1, <1>2, <1>3, <1>4, <2>1
  <2>2. CASE k # Len(queue) + 1
    <3>1. k \in DOMAIN queue /\ queue'[k] = queue[k] /\ queue[k].intent \in 0 .. intent
      BY <1>3, <1>4, <1>5, <2>2 DEF WinInv, ChainOrder
    <3> QED
      BY <1>2, <1>3, <3>1 DEF WinInv, ChainOrder
  <2> QED
    BY <2>1, <2>2
<1>6. ChainOrder'
  BY <1>5 DEF ChainOrder
<1>7. LastWins'
  <2>1. LastJob' = new
    BY <1>4 DEF LastJob
  <2> QED
    BY <1>1, <1>2, <2>1 DEF LastWins, Wins
<1> QED
  BY <1>2, <1>4, <1>6, <1>7 DEF WinInv

LEMMA WinStep == TypeOK /\ WinInv /\ [Navigating]_vars => WinInv'
<1> SUFFICES ASSUME TypeOK, WinInv, [Navigating]_vars PROVE WinInv'
  OBVIOUS
<1>t. /\ queue \in Seq(Jobs) /\ DOMAIN queue = 1 .. Len(queue) /\ Len(queue) \in Nat
      /\ \A k \in DOMAIN queue : queue[k] \in Jobs
      /\ fork \in Jobs /\ fork.step = "waiting" /\ ChainOrder
  BY LenProperties, ElementOfSeq DEF TypeOK, WinInv
<1>h. queue # <<>> => /\ Head1 \in Jobs /\ 1 \in DOMAIN queue /\ Head1 = queue[1]
                      /\ wanted # None => LastWins
  BY HeadIn DEF TypeOK, WinInv, Head1
<1>u. UNCHANGED <<active, intent, pending, queue, fork, wanted>> => WinInv'
  BY DEF WinInv, ChainOrder, LastWins, LastJob, Wins
<1>1. CASE Poll \/ ScheduledRefresh \/ \E i \in Slots : ReadServed(i)
  BY <1>1, <1>u DEF Poll, ScheduledRefresh, ReadServed, serverVars, historyVars
<1>2. ASSUME NEW i \in Slots, ReadArrives(i) \/ ReadFails(i) PROVE WinInv'
  <2>1. /\ Settle(i)
        /\ UNCHANGED <<active, intent, wanted>>
        /\ \/ pending' = pending
           \/ pending = Accepted(reads[i].mark)
    BY <1>2 DEF ReadArrives, ReadFails, Settle, serverVars, historyVars
  <2>2. /\ queue' \in Seq(Jobs) /\ DOMAIN queue' = DOMAIN queue
        /\ \A k \in DOMAIN queue : queue'[k] = Resumes(i, queue[k])
        /\ fork' = Resumes(i, fork)
    BY <2>1, SettleKeeps
  <2>3. fork'.step = fork.step
    BY <1>t, <2>2 DEF Resumes
  <2>4. ASSUME NEW k \in DOMAIN queue
        PROVE  /\ queue'[k].kind = queue[k].kind /\ queue'[k].path = queue[k].path
               /\ queue'[k].intent = queue[k].intent
               /\ \/ queue'[k] = queue[k]
                  \/ queue[k].step = "refreshing" /\ queue'[k].step = "over"
    <3>1. \/ queue'[k] = queue[k]
          \/ queue[k].step = "refreshing" /\ queue'[k] = [queue[k] EXCEPT !.step = "over"]
      BY <1>t, <2>2, ResumesJob
    <3>2. LET j == [queue[k] EXCEPT !.step = "over"]
          IN  /\ j.step = "over" /\ j.kind = queue[k].kind
              /\ j.path = queue[k].path /\ j.intent = queue[k].intent
      BY <1>t, JobStep DEF Steps
    <3> QED
      BY <3>1, <3>2
  <2>5. \A k \in DOMAIN queue : k # 1 => queue'[k].step = queue[k].step
    BY <1>t, <2>4 DEF ChainOrder
  <2>6. queue # <<>> /\ queue'[1].step \in {"getting", "got"} => queue'[1].kind = "open"
    BY <1>t, <1>h, <2>4 DEF ChainOrder
  <2>7. Accepted(reads[i].mark).accepted
    BY DEF Accepted
  <2>8. wanted' # None /\ queue # <<>> /\ LastJob.kind = "open" /\ LastWins
          /\ Head1.intent # intent => pending' = pending
    BY <2>1, <2>7, LastIsPending DEF LastWins
  <2>9. wanted' # None /\ queue # <<>> /\ LastJob = Head1 /\ LastWins
          => Wins(queue[1], pending)'
    <3> SUFFICES ASSUME wanted' # None, queue # <<>>, LastJob = Head1, LastWins
                 PROVE  Wins(queue[1], pending)'
      OBVIOUS
    <3>1. Wins(queue[1], pending)
      BY <1>h DEF LastWins
    <3>2. CASE queue'[1] = queue[1]
      BY <2>1, <2>7, <3>1, <3>2 DEF Wins
    <3>3. CASE queue[1].step = "refreshing" /\ queue'[1].step = "over"
      BY <2>1, <3>1, <3>3 DEF Wins
    <3> QED
      BY <1>h, <2>4, <3>2, <3>3
  <2>10. Len(queue') = Len(queue)
    BY <1>t, <2>2, LenProperties
  <2> QED
    BY <2>1, <2>2, <2>3, <2>4, <2>5, <2>6, <2>8, <2>9, <2>10, ChainStep
<1>3. CASE ForeignSwitch
  <2>1. queue' = OutdatedQueue /\ fork' = Outdated(fork) /\ wanted' = None /\ intent' = intent
    BY <1>3 DEF ForeignSwitch
  <2>2. /\ queue' \in Seq(Jobs) /\ Len(queue') = Len(queue)
        /\ \A k \in DOMAIN queue : queue'[k] = Outdated(queue[k])
    BY <1>t, <2>1, OutdatedChain
  <2>3. \A k \in DOMAIN queue :
           /\ queue'[k].kind = queue[k].kind /\ queue'[k].path = queue[k].path
           /\ queue'[k].intent = queue[k].intent /\ queue'[k].step = queue[k].step
    BY <1>t, <2>2, JobOutdated
  <2>4. queue # <<>> /\ queue'[1].step \in {"getting", "got"} => queue'[1].kind = "open"
    BY <1>t, <1>h, <2>3 DEF ChainOrder
  <2>5. fork'.step = fork.step
    BY <1>t, <2>1, JobOutdated
  <2> QED
    BY <2>1, <2>2, <2>3, <2>4, <2>5, ChainStep
<1>4. CASE GetServed
  <2> DEFINE rec == [Head1 EXCEPT !.step = "got", !.current = active, !.latest = TRUE]
  <2>1. /\ queue # <<>> /\ Head1.step = "getting" /\ SetHead(rec)
        /\ UNCHANGED <<active, intent, pending, fork, wanted>>
    BY <1>4 DEF GetServed, serverVars, historyVars
  <2>2. /\ rec \in Jobs /\ rec.step = "got" /\ rec.current = active
        /\ rec.path = Head1.path /\ rec.intent = Head1.intent /\ rec.kind = Head1.kind
    <3>1. active \in AllSessions
      BY DEF TypeOK
    <3> QED
      BY <1>h, <2>1, <3>1 DEF Jobs, Steps
  <2> HIDE DEF rec
  <2>3. /\ queue' \in Seq(Jobs) /\ Len(queue') = Len(queue) /\ queue'[1] = rec
        /\ \A k \in DOMAIN queue \ {1} : queue'[k] = queue[k]
    BY <1>t, <2>1, <2>2, HeadOnly
  <2>4. \A k \in DOMAIN queue :
           /\ queue'[k].kind = queue[k].kind /\ queue'[k].path = queue[k].path
           /\ queue'[k].intent = queue[k].intent
           /\ k # 1 => queue'[k].step = queue[k].step
    BY <1>h, <2>1, <2>2, <2>3
  <2>5. Head1.kind = "open"
    BY <1>t, <1>h, <2>1 DEF ChainOrder
  <2>6. wanted # None /\ LastJob = Head1 /\ LastWins => Wins(queue[1], pending)'
    BY <2>1, <2>2, <2>3, <2>5 DEF LastWins, Wins
  <2> QED
    BY <2>1, <2>2, <2>3, <2>4, <2>5, <2>6, ChainStep
<1>5. CASE OpenServed
  <2>1. /\ queue # <<>> /\ Head1.step = "opening" /\ active' = Head1.path
        /\ queue' = [OutdatedQueue EXCEPT ![1].step = "opened", ![1].latest = TRUE]
        /\ fork' = Outdated(fork)
        /\ UNCHANGED <<intent, pending, wanted>>
    BY <1>5 DEF OpenServed
  <2> DEFINE old == Outdated(Head1)
             rec == [old EXCEPT !.step = "opened", !.latest = TRUE]
  <2>2. /\ OutdatedQueue \in Seq(Jobs) /\ Len(OutdatedQueue) = Len(queue)
        /\ DOMAIN OutdatedQueue = DOMAIN queue
        /\ \A k \in DOMAIN queue : OutdatedQueue[k] = Outdated(queue[k])
    BY <1>t, OutdatedChain
  <2>3. /\ old \in Jobs /\ old.path = Head1.path /\ old.intent = Head1.intent
        /\ old.kind = Head1.kind
    BY <1>h, <2>1, JobOutdated
  <2>4. /\ rec \in Jobs /\ rec.step = "opened"
        /\ rec.path = Head1.path /\ rec.intent = Head1.intent /\ rec.kind = Head1.kind
    <3> HIDE DEF old
    <3> QED
      BY <2>3 DEF Jobs, Steps
  <2>5. queue' = [OutdatedQueue EXCEPT ![1] = rec]
    <3>1. OutdatedQueue[1] = old
      BY <1>h, <2>1, <2>2
    <3>2. queue' = [OutdatedQueue EXCEPT ![1] = [OutdatedQueue[1] EXCEPT !.step = "opened",
                                                                        !.latest = TRUE]]
      BY <2>1
    <3> QED
      BY <3>1, <3>2
  <2> HIDE DEF rec
  <2>6. /\ queue' \in Seq(Jobs) /\ Len(queue') = Len(queue) /\ queue'[1] = rec
        /\ \A k \in DOMAIN queue \ {1} : queue'[k] = Outdated(queue[k])
    <3>1. 1 \in 1 .. Len(OutdatedQueue)
      BY <1>t, <1>h, <2>1, <2>2
    <3>2. /\ queue' \in Seq(Jobs) /\ Len(queue') = Len(OutdatedQueue)
          /\ \A j \in 1 .. Len(OutdatedQueue) :
                queue'[j] = IF j = 1 THEN rec ELSE OutdatedQueue[j]
      BY <2>2, <2>4, <2>5, <3>1, ExceptSeq
    <3> QED
      BY <1>t, <1>h, <2>1, <2>2, <3>2
  <2>7. \A k \in DOMAIN queue :
           /\ queue'[k].kind = queue[k].kind /\ queue'[k].path = queue[k].path
           /\ queue'[k].intent = queue[k].intent
           /\ k # 1 => queue'[k].step = queue[k].step
    <3>1. ASSUME NEW k \in DOMAIN queue, k # 1
          PROVE  /\ queue'[k].kind = queue[k].kind /\ queue'[k].path = queue[k].path
                 /\ queue'[k].intent = queue[k].intent /\ queue'[k].step = queue[k].step
      <4>1. queue'[k] = Outdated(queue[k]) /\ queue[k] \in Jobs
        BY <1>t, <2>6, <3>1
      <4> QED
        BY <4>1, JobOutdated
    <3> QED
      BY <1>h, <2>1, <2>4, <2>6, <3>1
  <2>8. wanted # None /\ LastJob = Head1 /\ LastWins => Wins(queue[1], pending)'
    BY <2>1, <2>4, <2>6 DEF LastWins, Wins
  <2>9. fork'.step = fork.step
    BY <1>t, <2>1, JobOutdated
  <2> QED
    BY <2>1, <2>4, <2>6, <2>7, <2>8, <2>9, ChainStep
<1>6. CASE RequestFails
  <2>1. wanted' = None /\ UNCHANGED <<active, intent, pending>>
    BY <1>6 DEF RequestFails, serverVars
  <2> DEFINE rec == [Head1 EXCEPT !.step = "failed",
                       !.current = IF Head1.step \in {"opening", "opened"} THEN @ ELSE None]
  <2>2. queue # <<>> /\ SetHead(rec) /\ fork' = fork
    BY <1>6, <1>t DEF RequestFails
  <2>3. /\ rec \in Jobs /\ rec.step = "failed" /\ rec.path = Head1.path
        /\ rec.intent = Head1.intent /\ rec.kind = Head1.kind
    BY <1>h, <2>2 DEF Jobs, Steps
  <2> HIDE DEF rec
  <2>4. /\ queue' \in Seq(Jobs) /\ Len(queue') = Len(queue) /\ queue'[1] = rec
        /\ \A k \in DOMAIN queue \ {1} : queue'[k] = queue[k]
    BY <1>t, <2>2, <2>3, HeadOnly
  <2>5. \A k \in DOMAIN queue :
           /\ queue'[k].kind = queue[k].kind /\ queue'[k].path = queue[k].path
           /\ queue'[k].intent = queue[k].intent
           /\ k # 1 => queue'[k].step = queue[k].step
    BY <1>h, <2>2, <2>3, <2>4
  <2> QED
    BY <2>1, <2>2, <2>3, <2>4, <2>5, ChainStep
<1>7. CASE Navigate \/ CreateNew
  <2>1. PICK kind \in {"open", "create"}, path \in AllSessions : Intend(kind, path)
    BY <1>7 DEF Navigate, CreateNew, Unused, TypeOK, AllSessions
  <2> QED
    BY <2>1, IntendWins
<1>8. CASE Begin
  <2> DEFINE s == IF Head1.kind = "open" THEN "getting"
                  ELSE IF Head1.kind = "restore" /\ intent > 0 THEN "over" ELSE "opening"
  <2>1. /\ queue # <<>> /\ Head1.step = "waiting" /\ SetHead([Head1 EXCEPT !.step = s])
        /\ UNCHANGED <<active, intent, pending, fork, wanted>>
    BY <1>8 DEF Begin, serverVars, historyVars
  <2>2. s \in Steps /\ (s \in {"getting", "got"} => Head1.kind = "open")
    BY DEF Steps
  <2>3. LastWins /\ LastJob = Head1 => s # "over"
    BY <1>t, <1>h, <2>1 DEF LastWins, ChainOrder
  <2>4. s \in {"getting", "over", "opening"} /\ (s = "opening" => Head1.kind # "open")
    OBVIOUS
  <2> HIDE DEF s
  <2>5. wanted # None /\ LastJob = Head1 /\ LastWins /\ queue'[1].step = s
           /\ queue'[1].kind = Head1.kind /\ queue'[1].current = Head1.current
           => Wins(queue[1], pending)'
    BY <2>1, <2>3, <2>4 DEF LastWins, Wins
  <2> QED
    BY <2>1, <2>2, <2>5, HeadMoveWins
<1>9. CASE GotSession \/ Supersede
  <2>1. PICK s \in {"opening", "over"} :
           /\ queue # <<>> /\ SetHead([Head1 EXCEPT !.step = s])
           /\ \/ s = "opening" /\ Head1.step = "got"
              \/ s = "over" /\ Head1.step = "got" /\ ~Current(Head1)
              \/ s = "over" /\ Head1.step = "opened" /\ Head1.kind = "open" /\ ~Current(Head1)
              \/ s = "over" /\ Head1.step = "opened" /\ Head1.kind = "restore" /\ intent > 0
           /\ UNCHANGED <<active, intent, pending, fork, wanted>>
    BY <1>9 DEF GotSession, OpensNext, Supersede, serverVars, historyVars
  <2>2. ASSUME wanted # None, LastJob = Head1
        PROVE  s = "opening" /\ pending = [intent |-> intent, accepted |-> FALSE]
    <3>1. LastWins /\ Head1.intent = intent
      BY <1>h, <2>1, <2>2 DEF LastWins
    <3>2. Head1.kind = "restore" => intent = 0
      BY <1>t, <1>h, <2>1, <3>1 DEF ChainOrder
    <3>3. Head1.step = "got" => Head1.kind = "open"
      BY <1>t, <1>h, <2>1 DEF ChainOrder
    <3>4. Head1.kind = "open"
      BY <2>1, <3>2, <3>3, NavigationAssumption DEF TypeOK
    <3>5. Current(Head1) /\ pending = [intent |-> intent, accepted |-> FALSE]
      BY <2>1, <2>2, <3>1, <3>4, LastIsPending
    <3> QED
      BY <2>1, <3>4, <3>5
  <2>3. wanted # None /\ LastJob = Head1 /\ LastWins /\ queue'[1].step = s
           /\ queue'[1].kind = Head1.kind /\ queue'[1].current = Head1.current
           => Wins(queue[1], pending)'
    BY <2>1, <2>2 DEF Wins
  <2> QED
    BY <2>1, <2>3, HeadMoveWins DEF Steps
<1>10. CASE Accept \/ AcceptCreated
  <2>1. PICK s \in {"over", "refreshing"} :
           /\ queue # <<>> /\ SetHead([Head1 EXCEPT !.step = s])
           /\ \/ Head1.step = "opened"
              \/ Head1.step = "got" /\ Head1.path = Head1.current
           /\ Current(Head1) \/ pending' = pending \/ (Head1.kind = "restore" /\ intent = 0)
           /\ UNCHANGED <<active, intent, fork, wanted>>
    BY <1>10 DEF Accept, AcceptCreated, Apply, serverVars
  <2>2. Head1.kind = "restore" => Head1.intent = 0
    BY <1>t, <1>h, <2>1 DEF ChainOrder
  <2>3. wanted # None /\ LastJob.kind = "open" /\ LastWins /\ Head1.intent # intent
           => pending' = pending
    BY <2>1, <2>2, LastIsPending DEF LastWins
  <2>4. wanted # None /\ LastJob = Head1 /\ LastWins /\ queue'[1].step = s
           /\ queue'[1].kind = Head1.kind /\ queue'[1].current = Head1.current
           => Wins(queue[1], pending)'
    BY <2>1 DEF LastWins, Wins
  <2> QED
    BY <2>1, <2>3, <2>4, HeadMoveWins DEF Steps
<1>11. CASE Reject
  <2>1. /\ queue # <<>> /\ Head1.step = "failed" /\ SetHead([Head1 EXCEPT !.step = "over"])
        /\ Current(Head1) \/ pending' = pending
        /\ UNCHANGED <<active, intent, fork, wanted>>
    BY <1>11 DEF Reject, serverVars
  <2>2. wanted # None /\ LastJob.kind = "open" /\ LastWins /\ Head1.intent # intent
           => pending' = pending
    BY <2>1, LastIsPending DEF LastWins
  <2>3. ~(LastJob = Head1 /\ LastWins)
    BY <2>1 DEF LastWins, Wins
  <2> QED
    BY <2>1, <2>2, <2>3, HeadMoveWins DEF Steps
<1>12. CASE Advance
  <2>1. /\ queue # <<>> /\ Head1.step = "over" /\ queue' = Tail(queue)
        /\ UNCHANGED <<active, intent, pending, fork, wanted>>
    BY <1>12 DEF Advance, serverVars, historyVars
  <2>2. /\ queue' \in Seq(Jobs) /\ Len(queue') = Len(queue) - 1
        /\ \A j \in 1 .. Len(queue') : queue'[j] = queue[j + 1]
    BY <1>t, <2>1, HeadTailProperties
  <2>3. DOMAIN queue' = 1 .. Len(queue') /\ Len(queue') \in Nat
    BY <2>2, LenProperties
  <2>4. ASSUME NEW k \in DOMAIN queue'
        PROVE  /\ queue'[k] = queue[k + 1] /\ k + 1 \in DOMAIN queue \ {1}
               /\ k # Len(queue') => k + 1 # Len(queue)
    BY <1>t, <2>2, <2>3, <2>4
  <2>5. ChainOrder'
    BY <1>t, <2>1, <2>4 DEF ChainOrder
  <2>6. ASSUME wanted' # None, queue' # <<>> PROVE LastWins'
    <3>1. Len(queue') # 0
      BY <2>2, <2>6, EmptySeq
    <3>2. LastJob' = LastJob
      BY <1>t, <2>2, <2>3, <3>1 DEF LastJob
    <3> QED
      BY <1>h, <2>1, <2>6, <3>2 DEF LastWins, Wins
  <2>7. ASSUME wanted' # None, queue' = <<>> PROVE active' = wanted'
    <3>1. Len(queue') = 0
      BY <2>7
    <3>2. LastJob = Head1
      <4>1. Len(queue) = 1
        <5>1. Len(queue) \in Nat /\ 0 = Len(queue) - 1
          BY <1>t, <2>2, <3>1, Zenon
        <5> QED
          BY <5>1
      <4> QED
        BY <4>1 DEF LastJob, Head1
    <3>3. wanted # None /\ LastWins
      BY <1>h, <2>1, <2>7
    <3> QED
      BY <2>1, <3>2, <3>3 DEF LastWins, Wins
  <2>8. fork'.step = "waiting"
    BY <1>t, <2>1
  <2> QED
    BY <2>5, <2>6, <2>7, <2>8 DEF WinInv
<1>13. CASE UNCHANGED vars
  BY <1>13, <1>u DEF vars
<1> QED
  BY <1>1, <1>2, <1>3, <1>4, <1>5, <1>6, <1>7, <1>8, <1>9, <1>10, <1>11, <1>12, <1>13
     DEF Navigating, User, Gateway, Console, Chain, Fault

\* While nobody else switches and no request fails, a user who navigates and creates
\* as fast as he likes ends on the session he asked for last, in every interleaving
\* of the chain, the gateway and the reads in flight.
THEOREM LatestIntentIsKept == ForklessSpec => []LatestIntentWins
<1>1. Init => NavInv /\ WinInv
  BY NavInit, WinInit
<1>2. NavInv /\ WinInv /\ [Navigating]_vars => (NavInv /\ WinInv)'
  <2>1. [Navigating]_vars => [Next]_vars
    BY DEF Next
  <2> QED
    BY <2>1, NavStep, WinStep DEF NavInv
<1>3. NavInv /\ WinInv => LatestIntentWins
  BY DEF WinInv, LatestIntentWins
<1> QED
  BY <1>1, <1>2, <1>3, PTL DEF ForklessSpec

\* The same for the page, whose navigation does not change while the composer is used.
THEOREM PageShowsTheSession == PageSpec => []NavigationSound
<1>1. PageInit => Init
  BY DEF PageInit
<1>2. [PageNext]_<<part, vars, composer>> => [Next]_vars
  BY DEF PageNext
<1> QED
  BY <1>1, <1>2, NavigationIsSound, PTL DEF PageSpec, Spec

-----------------------------------------------------------------------------
(* The prompt composer: its inductive invariant.                            *)

SentCalls ==
    [session : Sessions, request : Nat \ {0}, text : Nat, items : SUBSET Annotations,
     steer : BOOLEAN, state : {"open", "refreshing", "over"},
     wire : {"sent", "run", "received", "refused"}, edit : Nat, alone : BOOLEAN]

UiStates   == [session : Sessions \cup {None}, draft : Nat, revision : Nat, submission : Nat]
NoteStates == [session : Sessions \cup {None}, items : SUBSET Annotations]
Stored     == [text : Nat, revision : Nat \ {0}, submission : Composer!Prompts] \cup {NoDraft}
SentNotes  == [request : Nat, items : SUBSET Annotations]
Writings   == [edit : Nat, text : Nat]

ComposerTyped ==
    /\ displayed \in Sessions \cup {None}
    /\ ui \in UiStates /\ notes \in NoteStates
    /\ drafts \in [Sessions -> Stored]
    /\ kept \in [Sessions -> SUBSET Annotations]
    /\ sent \in [Sessions -> SUBSET SentNotes]
    /\ calls \in Seq(SentCalls)
    /\ edits \in Nat /\ wrote \in [Sessions -> Writings]
    /\ attached \in [Sessions -> SUBSET Annotations]

Indices == DOMAIN calls
SentOf(s) == {i \in Indices : calls[i].session = s}
Of(s, rev) == {i \in SentOf(s) : calls[i].request = rev}
Done == {i \in Indices : calls[i].wire = "run"}
PromptOf(i) == [sends |-> TRUE, text |-> calls[i].text, items |-> calls[i].items, steer |-> calls[i].steer]

\* Without storage there is nothing stored, and a text only in the composer.
Bare ==
    blocked =>
        \A s \in Sessions :
            /\ drafts[s] = NoDraft /\ kept[s] = {} /\ sent[s] = {}
            /\ wrote[s].text # 0 => ui.session = s /\ displayed = s

\* A revision is one prompt of one session, wherever it is kept.
OneRevision ==
    /\ \A i, k \in Indices :
          calls[i].session = calls[k].session /\ calls[i].request = calls[k].request => PromptOf(i) = PromptOf(k)
    /\ \A i \in Indices : calls[i].text # 0 \/ calls[i].items # {}
    /\ \A s \in Sessions :
          /\ drafts[s] # NoDraft =>
               \A i \in Of(s, drafts[s].revision) :
                   drafts[s].text = calls[i].text /\ drafts[s].submission = PromptOf(i)
          /\ \A x \in sent[s] : /\ Of(s, x.request) # {}
                                /\ \A i \in Of(s, x.request) : calls[i].items = x.items
    /\ ui.submission # 0 => ui.submission \in SentOf(ui.session)

\* A revision is run once, and what is received or refreshed has run.
RunOnce ==
    /\ \A i, k \in Done :
          calls[i].session = calls[k].session /\ calls[i].request = calls[k].request => i = k
    /\ \A i \in Indices :
          /\ calls[i].wire = "received" => Of(calls[i].session, calls[i].request) \cap Done # {}
          /\ calls[i].state = "refreshing" => calls[i].wire \in {"run", "received"}

\* A text that has not run is stored and, where its session is composed, in the
\* composer or sent from it.
Awaited(s) ==
    wrote[s].text # 0 /\ \A i \in Done : calls[i].session = s => calls[i].text # wrote[s].text
TextSafe ==
    \A s \in Sessions : Awaited(s) =>
        /\ ~blocked => drafts[s] # NoDraft /\ drafts[s].text = wrote[s].text
        /\ ui.session = s =>
             \/ ui.draft = wrote[s].text
             \/ /\ ui.draft = 0
                /\ IF ui.submission = 0 THEN ~blocked ELSE calls[ui.submission].text = wrote[s].text

\* An annotation that has not run is stored, and attached where its session is composed.
Settling == UNION {calls[i].items : i \in Done}
NotesSafe ==
    /\ notes.session = None => notes.items = {}
    /\ ~blocked => \A s \in Sessions :
          /\ attached[s] \ Settling \subseteq kept[s]
          /\ notes.session = s => attached[s] \ Settling \subseteq notes.items

\* Between its edit and the next one a session that has nothing else under way keeps
\* what was sent last under its revision, or has cleared it from everywhere.
Latest(i) ==
    /\ calls[i].alone /\ wrote[calls[i].session].edit = calls[i].edit
    /\ \A k \in SentOf(calls[i].session) : k > i => calls[k].request = calls[i].request
LastKept(i) ==
    LET s == calls[i].session
        r == calls[i].request
    IN /\ drafts[s] # NoDraft => drafts[s].revision = r
       /\ ui.session = s /\ ui.draft # 0 => drafts[s] # NoDraft /\ ui.revision = r
       /\ drafts[s] = NoDraft => /\ calls[i].items \cap kept[s] = {}
                                 /\ notes.session = s => calls[i].items \cap notes.items = {}
       /\ \A k \in SentOf(s) : calls[k].state = "open" => calls[k].request = r
LastSafe ==
    /\ \A i \in Indices : calls[i].edit <= edits
    /\ \A s \in Sessions : wrote[s].edit <= edits
    /\ ~blocked => \A i \in Indices : Latest(i) => LastKept(i)

SameSent(i, j) ==
    /\ calls[i].session = calls[j].session /\ calls[i].edit = calls[j].edit
    /\ calls[i].text = calls[j].text /\ calls[i].items = calls[j].items
Again ==
    ~blocked => \A i, j \in Indices :
        /\ i < j /\ SameSent(i, j) /\ calls[i].alone
        /\ \A k \in SentOf(calls[i].session) : i < k /\ k < j => calls[k].request = calls[i].request
        => calls[i].request = calls[j].request

Flags == restoring \in BOOLEAN /\ blocked \in BOOLEAN

ComposerInv == /\ ComposerTyped /\ Flags /\ Bare /\ OneRevision /\ RunOnce
               /\ TextSafe /\ NotesSafe /\ LastSafe /\ Again

Same ==
    /\ Len(calls') = Len(calls) /\ DOMAIN calls' = DOMAIN calls
    /\ \A k \in DOMAIN calls :
          /\ calls'[k].session = calls[k].session /\ calls'[k].request = calls[k].request
          /\ calls'[k].text = calls[k].text /\ calls'[k].items = calls[k].items
          /\ calls'[k].steer = calls[k].steer /\ calls'[k].edit = calls[k].edit
          /\ calls'[k].alone = calls[k].alone

LEMMA CallTyped ==
    ASSUME ComposerTyped, NEW i \in Indices
    PROVE  /\ calls[i] \in SentCalls /\ calls[i].session \in Sessions /\ calls[i].request \in Nat \ {0}
           /\ calls[i].text \in Nat /\ calls[i].items \subseteq Annotations
           /\ i \in Nat \ {0} /\ Len(calls) \in Nat /\ i <= Len(calls)
<1>1. calls \in Seq(SentCalls) /\ i \in DOMAIN calls
  BY DEF ComposerTyped, Indices
<1>2. calls[i] \in SentCalls /\ i \in 1..Len(calls) /\ Len(calls) \in Nat
  BY <1>1
<1> QED
  BY <1>2 DEF SentCalls

LEMMA WireMoved ==
    ASSUME ComposerTyped, NEW i \in Indices, NEW w \in {"sent", "run", "received", "refused"},
           calls' = [calls EXCEPT ![i].wire = w]
    PROVE  /\ calls' \in Seq(SentCalls) /\ Same
           /\ calls'[i].wire = w /\ \A k \in Indices : calls'[k].state = calls[k].state
           /\ \A k \in Indices \ {i} : calls'[k].wire = calls[k].wire
<1>1. calls \in Seq(SentCalls) /\ i \in 1..Len(calls) /\ DOMAIN calls = 1..Len(calls) /\ Len(calls) \in Nat
  BY DEF ComposerTyped, Indices
<1>2. \A k \in Indices : calls[k] \in SentCalls
  BY CallTyped
<1> DEFINE new == [calls[i] EXCEPT !.wire = w]
<1>3. /\ new \in SentCalls /\ new.wire = w /\ new.state = calls[i].state
      /\ new.session = calls[i].session /\ new.request = calls[i].request /\ new.text = calls[i].text
      /\ new.items = calls[i].items /\ new.steer = calls[i].steer /\ new.edit = calls[i].edit
      /\ new.alone = calls[i].alone
  BY <1>2 DEF SentCalls
<1>4. calls' = [calls EXCEPT ![i] = new]
  OBVIOUS
<1> HIDE DEF new
<1>5. calls' \in Seq(SentCalls) /\ Len(calls') = Len(calls)
      /\ \A k \in 1..Len(calls) : calls'[k] = IF k = i THEN new ELSE calls[k]
  BY <1>1, <1>3, <1>4, ExceptSeq
<1>6. DOMAIN calls' = DOMAIN calls
  BY <1>1, <1>5
<1> QED
  BY <1>1, <1>3, <1>5, <1>6 DEF Same, Indices

LEMMA StateMoved ==
    ASSUME ComposerTyped, NEW i \in Indices, NEW w \in {"open", "refreshing", "over"},
           calls' = [calls EXCEPT ![i].state = w]
    PROVE  /\ calls' \in Seq(SentCalls) /\ Same
           /\ calls'[i].state = w /\ \A k \in Indices : calls'[k].wire = calls[k].wire
           /\ \A k \in Indices \ {i} : calls'[k].state = calls[k].state
<1>1. calls \in Seq(SentCalls) /\ i \in 1..Len(calls) /\ DOMAIN calls = 1..Len(calls) /\ Len(calls) \in Nat
  BY DEF ComposerTyped, Indices
<1>2. \A k \in Indices : calls[k] \in SentCalls
  BY CallTyped
<1> DEFINE new == [calls[i] EXCEPT !.state = w]
<1>3. /\ new \in SentCalls /\ new.state = w /\ new.wire = calls[i].wire
      /\ new.session = calls[i].session /\ new.request = calls[i].request /\ new.text = calls[i].text
      /\ new.items = calls[i].items /\ new.steer = calls[i].steer /\ new.edit = calls[i].edit
      /\ new.alone = calls[i].alone
  BY <1>2 DEF SentCalls
<1>4. calls' = [calls EXCEPT ![i] = new]
  OBVIOUS
<1> HIDE DEF new
<1>5. calls' \in Seq(SentCalls) /\ Len(calls') = Len(calls)
      /\ \A k \in 1..Len(calls) : calls'[k] = IF k = i THEN new ELSE calls[k]
  BY <1>1, <1>3, <1>4, ExceptSeq
<1>6. DOMAIN calls' = DOMAIN calls
  BY <1>1, <1>5
<1> QED
  BY <1>1, <1>3, <1>5, <1>6 DEF Same, Indices

LEMMA SameSets ==
    ASSUME Same
    PROVE  /\ Indices' = Indices /\ \A i \in Indices : PromptOf(i)' = PromptOf(i)
           /\ \A s : SentOf(s)' = SentOf(s) /\ \A rev : Of(s, rev)' = Of(s, rev)
           /\ \A i, j \in Indices : SameSent(i, j)' <=> SameSent(i, j)
BY DEF Same, Indices, SentOf, Of, PromptOf, SameSent

LEMMA Fresh ==
    ASSUME ComposerTyped
    PROVE  LET rev == Composer!NewRevision IN
           /\ rev \in Nat \ {0} /\ rev # ui.revision
           /\ \A i \in Indices : calls[i].request # rev
<1> DEFINE saved == {Composer!SavedRevision(s) : s \in Sessions}
           asked == {calls[i].request : i \in DOMAIN calls}
           used == {ui.revision} \cup saved \cup asked
<1>1. IsFiniteSet(used)
  <2>1. IsFiniteSet(saved)
    <3> DEFINE f == [s \in Sessions |-> Composer!SavedRevision(s)]
    <3>1. f \in Surjection(Sessions, saved)
      BY DEF Surjection
    <3>2. IsFiniteSet(Sessions)
      BY ComposerConstants DEF Composer!ComposerAssumption, Composer!IsFiniteSet, IsFiniteSet
    <3> QED
      BY <3>1, <3>2, FS_Surjection
  <2>2. DOMAIN calls = 1..Len(calls) /\ Len(calls) \in Nat
    BY DEF ComposerTyped
  <2>3. IsFiniteSet(DOMAIN calls)
    BY <2>2, FS_Interval
  <2>4. IsFiniteSet(asked)
    <3> DEFINE f == [i \in DOMAIN calls |-> calls[i].request]
    <3>1. f \in Surjection(DOMAIN calls, asked)
      BY DEF Surjection
    <3> QED
      BY <2>3, <3>1, FS_Surjection
  <2> HIDE DEF saved, asked
  <2>5. IsFiniteSet({ui.revision})
    BY FS_Singleton
  <2> QED
    BY <2>1, <2>4, <2>5, FS_Union
<1> HIDE DEF saved, asked
<1>2. \E rev \in 1 .. Cardinality(used) + 1 : rev \notin used
  <2> HIDE DEF used
  <2>1. Cardinality(used) \in Nat
    BY <1>1, FS_CardinalityType
  <2> DEFINE n == Cardinality(used) + 1
  <2>2. n \in Nat /\ n > Cardinality(used)
    BY <2>1
  <2>3. SUFFICES ASSUME 1 .. n \subseteq used PROVE FALSE
    OBVIOUS
  <2> HIDE DEF n
  <2>4. Cardinality(1 .. n) = n
    <3>1. Cardinality(1 .. n) = IF 1 > n THEN 0 ELSE n - 1 + 1
      BY <2>2, FS_Interval
    <3> QED
      BY <2>1, <2>2, <3>1
  <2>5. Cardinality(1 .. n) <= Cardinality(used)
    BY <1>1, <2>3, FS_Subset
  <2> QED
    BY <2>1, <2>2, <2>4, <2>5
<1>3. Composer!NewRevision \in 1 .. Cardinality(used) + 1 /\ Composer!NewRevision \notin used
  <2>1. Composer!NewRevision = CHOOSE rev \in 1 .. Cardinality(used) + 1 : rev \notin used
    BY DEF Composer!NewRevision, used, saved, asked, Composer!Cardinality, Cardinality
  <2> QED
    BY <1>2, <2>1
<1>4. Cardinality(used) \in Nat
  BY <1>1, FS_CardinalityType
<1> QED
  BY <1>3, <1>4 DEF used, asked, Indices

LEMMA UiHereIs ==
    ASSUME ComposerTyped
    PROVE  /\ Composer!UiHere \in UiStates /\ Composer!UiHere.session = displayed
           /\ ui.session = displayed => Composer!UiHere = ui
           /\ ui.session # displayed => /\ Composer!UiHere.draft = 0 /\ Composer!UiHere.revision = 0
                                        /\ Composer!UiHere.submission = 0
BY DEF ComposerTyped, UiStates, Composer!UiHere, Composer!EmptyUi, Composer!Blank

LEMMA NotesHereIs ==
    ASSUME ComposerTyped
    PROVE  /\ Composer!NotesHere \in NoteStates /\ Composer!NotesHere.session = displayed
           /\ notes.session = displayed => Composer!NotesHere = notes
           /\ notes.session # displayed => Composer!NotesHere.items = {}
BY DEF ComposerTyped, NoteStates, Composer!NotesHere, Composer!EmptyNotes

LEMMA SessionIsNone == None \notin Sessions /\ NoDraft \notin Composer!Drafts
BY ComposerConstants DEF Composer!ComposerAssumption

LEMMA WrittenIs ==
    ASSUME ComposerTyped, NEW s \in Sessions, NEW text \in Nat, NEW rev \in Nat,
           NEW submission \in Composer!Prompts, rev # 0 \/ (text = 0 /\ ~submission.sends)
    PROVE  LET d == Composer!Written(s, text, rev, submission) IN
           /\ d \in [Sessions -> Stored]
           /\ \A q \in Sessions \ {s} : d[q] = drafts[q]
           /\ blocked => d = drafts
           /\ ~blocked /\ text = 0 /\ ~submission.sends => d[s] = NoDraft
           /\ ~blocked /\ (text # 0 \/ submission.sends) =>
                /\ d[s] # NoDraft /\ d[s].text = text /\ d[s].revision = rev
                /\ d[s].submission = submission
BY SessionIsNone DEF ComposerTyped, Stored, Composer!Written, Composer!Blank, Composer!Drafts

LEMMA ClearedIs ==
    ASSUME ComposerTyped, Bare, NEW s \in Sessions, NEW rev \in Nat
    PROVE  LET d == Composer!Cleared(s, rev) IN
           /\ d \in [Sessions -> Stored]
           /\ \A q \in Sessions \ {s} : d[q] = drafts[q]
           /\ d[s] # drafts[s] => /\ ~blocked /\ d[s] = NoDraft /\ drafts[s] # NoDraft
                                  /\ drafts[s].revision = rev /\ rev # 0
           /\ drafts[s] # NoDraft /\ drafts[s].revision = rev /\ rev # 0 => d[s] = NoDraft
BY DEF ComposerTyped, Stored, Bare, Composer!Cleared, Composer!SavedRevision, Composer!Saved

LEMMA KeepIs ==
    ASSUME ComposerTyped, NEW s \in Sessions, NEW items \in SUBSET Annotations
    PROVE  LET d == Composer!Keep(s, items) IN
           /\ d \in [Sessions -> SUBSET Annotations]
           /\ \A q \in Sessions \ {s} : d[q] = kept[q]
           /\ blocked => d = kept
           /\ ~blocked => d[s] = items
BY DEF ComposerTyped, Composer!Keep

LEMMA NotSentIs == Composer!NotSent \in Composer!Prompts /\ ~Composer!NotSent.sends
BY DEF Composer!NotSent, Composer!Prompts, Composer!Blank

\* What was accepted comes back only with the failure of its answer.
LEMMA OutStays ==
    ASSUME \A i \in Indices : calls'[i].session = calls[i].session /\ calls'[i].request = calls[i].request,
           \A i \in Done :
               ui'.session = calls[i].session /\ ui'.draft # 0 /\ ui'.revision = calls[i].request =>
                 \/ ui.session = ui'.session /\ ui.draft # 0 /\ ui.revision = ui'.revision
                 \/ \E j \in Indices : /\ calls[j].request = calls[i].request
                                       /\ calls[j].state = "open" /\ calls'[j].state = "over"
    PROVE  Composer!StaysOut
BY DEF Composer!StaysOut, Composer!Offered, Composer!Ran, Composer!Blank, Indices, Done

-----------------------------------------------------------------------------
LEMMA ComposerStarts == ASSUME Composer!Init PROVE ComposerInv
<1> USE SessionIsNone DEF Composer!Init, Composer!Blank, Composer!EmptyUi, Composer!EmptyNotes
<1>1. ComposerTyped
  BY DEF ComposerTyped, UiStates, NoteStates, Stored, Writings
<1>2. Indices = {} /\ \A s : SentOf(s) = {}
  BY DEF Indices, SentOf
<1>3. Flags /\ Bare /\ OneRevision /\ RunOnce
  BY <1>2 DEF Flags, Bare, OneRevision, RunOnce, Done
<1>4. TextSafe /\ NotesSafe
  BY DEF TextSafe, Awaited, NotesSafe
<1>5. LastSafe /\ Again
  BY <1>2 DEF LastSafe, Again
<1> QED
  BY <1>1, <1>3, <1>4, <1>5 DEF ComposerInv

\* A text: under a revision that names nothing else.
LEMMA TypeKeeps == ASSUME ComposerInv, Composer!Type PROVE ComposerInv' /\ Composer!StaysOut
<1> DEFINE s == displayed
<1>1. /\ ComposerTyped /\ Flags /\ Bare /\ OneRevision /\ RunOnce /\ TextSafe /\ NotesSafe /\ LastSafe
      /\ Again /\ s \in Sessions
  BY DEF ComposerInv, Composer!Type, ComposerTyped
<1>2. PICK text \in {0, edits + 1} :
        LET rev == IF text = 0 THEN 0 ELSE Composer!NewRevision IN
        /\ drafts' = Composer!Written(s, text, rev, Composer!NotSent)
        /\ ui' = [Composer!UiHere EXCEPT !.draft = text, !.revision = rev]
        /\ wrote' = [wrote EXCEPT ![s] = [edit |-> edits + 1, text |-> text]]
  BY DEF Composer!Type, Composer!Blank
<1> DEFINE rev == IF text = 0 THEN 0 ELSE Composer!NewRevision
<1>3. /\ edits' = edits + 1 /\ edits \in Nat /\ text \in Nat /\ rev \in Nat /\ (rev # 0 \/ text = 0)
      /\ \A i \in Indices : calls[i].request # rev
  <2>1. edits \in Nat /\ text \in Nat
    BY <1>1 DEF ComposerTyped
  <2>2. \A i \in Indices : calls[i].request # 0
    BY <1>1, CallTyped
  <2> QED
    BY <1>1, <2>1, <2>2, Fresh DEF Composer!Type
<1>4. UNCHANGED <<displayed, restoring, notes, blocked, kept, sent, calls, attached>>
  BY DEF Composer!Type
<1>5. /\ ui'.session = s /\ ui'.draft = text /\ ui'.revision = rev /\ ui' \in UiStates
      /\ ui'.submission = Composer!UiHere.submission
  BY <1>1, <1>2, <1>3, UiHereIs DEF UiStates
<1>6. /\ wrote' \in [Sessions -> Writings] /\ wrote'[s].edit = edits + 1
      /\ wrote'[s].text = text /\ \A q \in Sessions \ {s} : wrote'[q] = wrote[q]
  BY <1>1, <1>2, <1>3 DEF ComposerTyped, Writings
<1>7. /\ drafts' \in [Sessions -> Stored]
      /\ \A q \in Sessions \ {s} : drafts'[q] = drafts[q]
      /\ blocked => drafts' = drafts
      /\ ~blocked /\ text = 0 => drafts'[s] = NoDraft
      /\ ~blocked /\ text # 0 => /\ drafts'[s] # NoDraft /\ drafts'[s].text = text
                                 /\ drafts'[s].revision = rev
  BY <1>1, <1>2, <1>3, WrittenIs, NotSentIs
<1> HIDE DEF rev, s
<1>8. /\ Indices' = Indices /\ Done' = Done /\ \A q : SentOf(q)' = SentOf(q)
      /\ \A q, r : Of(q, r)' = Of(q, r)
      /\ \A i : PromptOf(i)' = PromptOf(i)
  BY <1>4 DEF Indices, Done, SentOf, Of, PromptOf
<1>9. ComposerTyped' /\ Flags'
  <2>1. ComposerTyped'
    BY <1>1, <1>3, <1>4, <1>5, <1>6, <1>7 DEF ComposerTyped
  <2>2. Flags'
    BY <1>1, <1>4 DEF Flags
  <2> QED
    BY <2>1, <2>2
<1>10. Bare'
  BY <1>1, <1>4, <1>5, <1>6, <1>7 DEF Bare, s
<1>11. OneRevision'
  <2>1. Of(s, rev) = {}
    BY <1>3 DEF Of, SentOf
  <2>2. ASSUME NEW q \in Sessions, drafts'[q] # NoDraft, NEW i \in Of(q, drafts'[q].revision)
        PROVE  drafts'[q].text = calls[i].text /\ drafts'[q].submission = PromptOf(i)
    <3>1. CASE q = s /\ ~blocked
      BY <1>7, <2>1, <2>2, <3>1
    <3>2. CASE q # s \/ blocked
      <4>1. drafts'[q] = drafts[q]
        BY <1>7, <2>2, <3>2
      <4> QED
        BY <1>1, <2>2, <4>1 DEF OneRevision
    <3> QED
      BY <3>1, <3>2
  <2>3. ui'.submission # 0 => ui'.submission \in SentOf(ui'.session)
    BY <1>1, <1>5, UiHereIs DEF OneRevision, s
  <2> QED
    BY <1>1, <1>4, <1>8, <2>2, <2>3 DEF OneRevision
<1>12. RunOnce'
  BY <1>1, <1>4, <1>8 DEF RunOnce
<1>13. TextSafe'
  <2> SUFFICES ASSUME NEW q \in Sessions, Awaited(q)'
               PROVE  /\ ~blocked => drafts'[q] # NoDraft /\ drafts'[q].text = wrote'[q].text
                      /\ ui'.session = q => ui'.draft = wrote'[q].text
    BY <1>4 DEF TextSafe
  <2>1. CASE q = s
    BY <1>5, <1>6, <1>7, <2>1 DEF Awaited
  <2>2. CASE q # s
    <3>1. Awaited(q)
      BY <1>4, <1>6, <1>8, <2>2 DEF Awaited
    <3> QED
      BY <1>1, <1>5, <1>6, <1>7, <2>2, <3>1 DEF TextSafe
  <2> QED
    BY <2>1, <2>2
<1>14. NotesSafe'
  BY <1>1, <1>4, <1>8 DEF NotesSafe, Settling
<1>15. LastSafe'
  <2>1. \A i \in Indices : calls[i].edit \in Nat /\ calls[i].session \in Sessions
    BY <1>1, CallTyped DEF SentCalls
  <2>2. \A q \in Sessions : wrote[q].edit \in Nat
    BY <1>1 DEF ComposerTyped, Writings
  <2>3. ASSUME NEW i \in Indices, Latest(i)' PROVE Latest(i) /\ calls[i].session # s
    <3>1. calls[i].edit <= edits
      BY <1>1 DEF LastSafe
    <3>2. calls[i].session # s
      BY <1>3, <1>4, <1>6, <2>1, <2>3, <3>1 DEF Latest
    <3> QED
      BY <1>4, <1>6, <1>8, <2>1, <2>3, <3>2 DEF Latest
  <2>4. ASSUME NEW i \in Indices, LastKept(i), calls[i].session # s PROVE LastKept(i)'
    BY <1>4, <1>5, <1>7, <1>8, <2>1, <2>4 DEF LastKept
  <2> QED
    BY <1>1, <1>3, <1>4, <1>6, <1>8, <2>1, <2>2, <2>3, <2>4 DEF LastSafe
<1>16. Again'
  BY <1>1, <1>4, <1>8 DEF Again, SameSent
<1>17. Composer!StaysOut
  <2>1. \A i \in Indices : calls'[i] = calls[i] /\ ui'.revision # calls[i].request
    BY <1>3, <1>4, <1>5
  <2> QED
    BY <2>1, OutStays DEF Done
<1> QED
  BY <1>9, <1>10, <1>11, <1>12, <1>13, <1>14, <1>15, <1>16, <1>17 DEF ComposerInv

\* An annotation is attached, or taken back.
LEMMA NotesKeep ==
    ASSUME ComposerInv, NEW a \in Annotations, Composer!Attach(a) \/ Composer!TakeBack(a)
    PROVE  ComposerInv' /\ Composer!StaysOut
<1> DEFINE s == displayed
           here == Composer!NotesHere.items
<1>1. /\ ComposerTyped /\ Flags /\ Bare /\ OneRevision /\ RunOnce /\ TextSafe /\ NotesSafe /\ LastSafe /\ Again
      /\ notes.session = s => here = notes.items
      /\ notes.session # s => here = {}
      /\ here \subseteq Annotations
  BY NotesHereIs DEF ComposerInv, NoteStates
<1>2. s \in Sessions
  <2>1. CASE Composer!Attach(a)
    BY <1>1, <2>1 DEF Composer!Attach, ComposerTyped
  <2>2. CASE Composer!TakeBack(a)
    <3>1. notes.session = s /\ notes.items # {}
      BY <1>1, <2>2 DEF Composer!TakeBack
    <3> QED
      BY <1>1, <3>1 DEF ComposerTyped, NotesSafe
  <2> QED
    BY <2>1, <2>2
<1>3. UNCHANGED <<displayed, restoring, ui, blocked, drafts, sent, calls, edits, wrote>>
  BY DEF Composer!Attach, Composer!TakeBack
<1>4. /\ Indices' = Indices /\ Done' = Done /\ \A q : SentOf(q)' = SentOf(q)
      /\ \A q, r : Of(q, r)' = Of(q, r)
      /\ \A i : PromptOf(i)' = PromptOf(i)
      /\ Settling' = Settling
  BY <1>3 DEF Indices, Done, SentOf, Of, PromptOf, Settling
<1>5. PICK now \in SUBSET Annotations :
        /\ \/ /\ now = here \cup {a} /\ (\A i \in Indices : a \notin calls[i].items)
              /\ attached' = [attached EXCEPT ![s] = (IF notes.session = s THEN @ ELSE {}) \cup {a}]
           \/ now = here \ {a} /\ notes.session = s
              /\ attached' = [attached EXCEPT ![s] = @ \ {a}]
        /\ notes' = [Composer!NotesHere EXCEPT !.items = now] /\ kept' = Composer!Keep(s, now)
  <2>1. CASE Composer!Attach(a)
    <3>1. \A i \in Indices : a \notin calls[i].items
      <4>1. a \notin Composer!Used
        BY <2>1 DEF Composer!Attach
      <4> QED
        BY <4>1 DEF Composer!Used, Indices
    <3>2. notes' = [Composer!NotesHere EXCEPT !.items = here \cup {a}] /\ kept' = Composer!Keep(s, notes'.items)
      BY <2>1 DEF Composer!Attach
    <3>3. notes'.items = here \cup {a}
      BY <1>1, <3>2, NotesHereIs DEF NoteStates
    <3>4. attached' = [attached EXCEPT ![s] = (IF notes.session = s THEN @ ELSE {}) \cup {a}]
      BY <2>1 DEF Composer!Attach
    <3> QED
      BY <1>1, <3>1, <3>2, <3>3, <3>4
  <2>2. CASE Composer!TakeBack(a)
    <3>1. notes' = [Composer!NotesHere EXCEPT !.items = here \ {a}] /\ kept' = Composer!Keep(s, notes'.items)
      BY <2>2 DEF Composer!TakeBack
    <3>2. notes'.items = here \ {a}
      BY <1>1, <3>1, NotesHereIs DEF NoteStates
    <3>3. attached' = [attached EXCEPT ![s] = @ \ {a}]
      BY <2>2 DEF Composer!TakeBack
    <3>4. notes.session = s
      BY <1>1, <2>2 DEF Composer!TakeBack
    <3> QED
      BY <1>1, <3>1, <3>2, <3>3, <3>4
  <2> QED
    BY <2>1, <2>2
<1>6. notes' \in NoteStates /\ notes'.session = s /\ notes'.items = now
  BY <1>1, <1>5, NotesHereIs DEF NoteStates
<1> HIDE DEF here, s
<1>7. /\ kept' \in [Sessions -> SUBSET Annotations] /\ \A q \in Sessions \ {s} : kept'[q] = kept[q]
      /\ blocked => kept' = kept
      /\ ~blocked => kept'[s] = now
  BY <1>1, <1>2, <1>5, KeepIs
<1>8. /\ attached' \in [Sessions -> SUBSET Annotations]
      /\ \A q \in Sessions \ {s} : attached'[q] = attached[q]
      /\ \/ now = here \cup {a} /\ attached'[s] \subseteq {a} \cup (IF notes.session = s THEN attached[s] ELSE {})
         \/ now = here \ {a} /\ attached'[s] = attached[s] \ {a} /\ notes.session = s
  <2>1. attached \in [Sessions -> SUBSET Annotations]
    BY <1>1 DEF ComposerTyped
  <2>2. CASE attached' = [attached EXCEPT ![s] = @ \ {a}] /\ now = here \ {a} /\ notes.session = s
    BY <1>2, <2>1, <2>2
  <2>3. CASE /\ attached' = [attached EXCEPT ![s] = (IF notes.session = s THEN @ ELSE {}) \cup {a}]
             /\ now = here \cup {a}
    BY <1>2, <2>1, <2>3
  <2> QED
    BY <1>5, <2>2, <2>3
<1> HIDE DEF s, here
<1>9. ComposerTyped'
  BY <1>1, <1>3, <1>6, <1>7, <1>8 DEF ComposerTyped
<1>10. Flags' /\ Bare'
  BY <1>1, <1>3, <1>7 DEF Flags, Bare
<1>11. OneRevision'
  BY <1>1, <1>3, <1>4 DEF OneRevision
<1>12. RunOnce' /\ TextSafe'
  BY <1>1, <1>3, <1>4 DEF RunOnce, TextSafe, Awaited
<1>13. NotesSafe'
  <2>1. ~blocked /\ notes.session = s => attached[s] \ Settling \subseteq here
    BY <1>1, <1>2 DEF NotesSafe
  <2>2. ~blocked => attached'[s] \ Settling \subseteq now
    BY <1>5, <1>8, <2>1
  <2> QED
    BY <1>1, <1>2, <1>3, <1>4, <1>6, <1>7, <1>8, <2>2, SessionIsNone DEF NotesSafe
<1>14. LastSafe'
  <2>1. \A i \in Indices : calls[i].session \in Sessions
    BY <1>1, CallTyped
  <2>2. ASSUME ~blocked, NEW i \in Indices, LastKept(i) PROVE LastKept(i)'
    <3>1. ASSUME drafts[calls[i].session] = NoDraft
          PROVE  /\ calls[i].items \cap kept'[calls[i].session] = {}
                 /\ notes'.session = calls[i].session => calls[i].items \cap notes'.items = {}
      <4>1. CASE calls[i].session = s
        <5>1. calls[i].items \cap here = {}
          BY <1>1, <2>2, <3>1, <4>1 DEF LastKept
        <5> QED
          BY <1>5, <1>6, <1>7, <2>2, <4>1, <5>1
      <4>2. CASE calls[i].session # s
        BY <1>6, <1>7, <2>1, <2>2, <3>1, <4>2 DEF LastKept
      <4> QED
        BY <4>1, <4>2
    <3> QED
      BY <1>3, <1>4, <2>2, <3>1 DEF LastKept
  <2> QED
    BY <1>1, <1>3, <1>4, <2>2 DEF LastSafe, Latest
<1>15. Again'
  BY <1>1, <1>3, <1>4 DEF Again, SameSent
<1>16. Composer!StaysOut
  BY <1>3, <1>4, OutStays
<1> QED
  BY <1>9, <1>10, <1>11, <1>12, <1>13, <1>14, <1>15, <1>16 DEF ComposerInv

\* A step that moves submissions along and leaves what they say: what it must show.
LEMMA MovedKeep ==
    ASSUME ComposerInv, Same, calls' \in Seq(SentCalls), ComposerTyped', UNCHANGED <<edits, wrote, blocked>>,
           \A i \in Indices : calls[i].state # "open" => calls'[i].state # "open"
    PROVE  /\ Again' /\ \A i \in Indices : Latest(i)' <=> Latest(i)
           /\ \A i \in Indices : calls'[i].edit <= edits'
           /\ \A s \in Sessions : wrote'[s].edit <= edits'
<1>1. /\ Indices' = Indices /\ \A s : SentOf(s)' = SentOf(s)
      /\ \A i, j \in Indices : SameSent(i, j)' <=> SameSent(i, j)
      /\ \A s : SentOf(s) \subseteq Indices
  BY SameSets DEF SentOf
<1>2. Again'
  BY <1>1 DEF ComposerInv, Again, Same, Indices
<1>3. \A i \in Indices : Latest(i)' <=> Latest(i)
  BY <1>1 DEF Latest, Same, Indices
<1> QED
  BY <1>1, <1>2, <1>3 DEF ComposerInv, LastSafe, Same, Indices

LEMMA RevisionKeep ==
    ASSUME ComposerTyped, OneRevision, Same,
           \A s \in Sessions :
               \/ drafts'[s] = drafts[s] \/ drafts'[s] = NoDraft
               \/ \E k \in SentOf(s) : /\ drafts'[s].revision = calls[k].request
                                       /\ drafts'[s].text = calls[k].text
                                       /\ drafts'[s].submission = PromptOf(k),
           \A s \in Sessions : sent'[s] \subseteq sent[s],
           ui'.submission # 0 => ui'.submission = ui.submission /\ ui'.session = ui.session
    PROVE  OneRevision'
<1>1. /\ Indices' = Indices /\ \A i \in Indices : PromptOf(i)' = PromptOf(i)
      /\ \A s : SentOf(s)' = SentOf(s) /\ \A rev : Of(s, rev)' = Of(s, rev)
      /\ \A i \in Indices : /\ calls'[i].session = calls[i].session /\ calls'[i].request = calls[i].request
                            /\ calls'[i].text = calls[i].text /\ calls'[i].items = calls[i].items
      /\ \A s, rev : Of(s, rev) \subseteq Indices
  BY SameSets DEF Same, Indices, Of, SentOf
<1>2. ASSUME NEW s \in Sessions, drafts'[s] # NoDraft, NEW i \in Of(s, drafts'[s].revision)
      PROVE  drafts'[s].text = calls[i].text /\ drafts'[s].submission = PromptOf(i)
  <2>1. CASE drafts'[s] = drafts[s]
    BY <1>2, <2>1 DEF OneRevision
  <2>2. CASE drafts'[s] # drafts[s]
    <3>1. PICK k \in SentOf(s) : /\ drafts'[s].revision = calls[k].request
                                 /\ drafts'[s].text = calls[k].text
                                 /\ drafts'[s].submission = PromptOf(k)
      BY <1>2, <2>2
    <3>2. k \in Indices /\ i \in Indices /\ calls[k].session = s /\ calls[i].session = s
          /\ calls[i].request = calls[k].request
      BY <1>2, <3>1 DEF SentOf, Of
    <3>3. PromptOf(k) = PromptOf(i)
      BY <3>2 DEF OneRevision
    <3>4. calls[k].text = calls[i].text
      BY <3>3 DEF PromptOf
    <3> QED
      BY <3>1, <3>3, <3>4
  <2> QED
    BY <2>1, <2>2
<1>3. \A i, k \in Indices :
          calls'[i].session = calls'[k].session /\ calls'[i].request = calls'[k].request
            => PromptOf(i)' = PromptOf(k)'
  BY <1>1 DEF OneRevision
<1>4. \A i \in Indices : calls'[i].text # 0 \/ calls'[i].items # {}
  BY <1>1 DEF OneRevision
<1>5. ASSUME NEW s \in Sessions, NEW x \in sent'[s]
      PROVE  Of(s, x.request) # {} /\ \A i \in Of(s, x.request) : calls'[i].items = x.items
  BY <1>1 DEF OneRevision
<1>6. ui'.submission # 0 => ui'.submission \in SentOf(ui'.session)
  BY DEF OneRevision
<1> QED
  BY <1>1, <1>2, <1>3, <1>4, <1>5, <1>6 DEF OneRevision

\* What the gateway has answered for has run.
LEMMA Answered ==
    ASSUME ComposerInv, NEW i \in Indices, calls[i].wire \in {"run", "received"}
    PROVE  /\ \E k \in Done : calls[k].session = calls[i].session /\ calls[k].text = calls[i].text
           /\ calls[i].items \subseteq Settling
<1>1. PICK k \in Done : calls[k].session = calls[i].session /\ calls[k].request = calls[i].request
  BY DEF ComposerInv, RunOnce, Done, Of, SentOf
<1>2. PromptOf(k) = PromptOf(i)
  BY <1>1 DEF ComposerInv, OneRevision, Done
<1>3. calls[k].text = calls[i].text /\ calls[k].items = calls[i].items
  BY <1>2 DEF PromptOf
<1> QED
  BY <1>1, <1>3 DEF Settling

\* The gateway's decision.
LEMMA ArriveKeeps == ASSUME ComposerInv, NEW i \in Indices, Composer!Arrive(i) PROVE ComposerInv' /\ Composer!StaysOut
<1>1. /\ ComposerTyped /\ Flags /\ Bare /\ OneRevision /\ RunOnce /\ TextSafe /\ NotesSafe /\ LastSafe /\ Again
      /\ calls[i].wire = "sent"
  BY DEF ComposerInv, Composer!Arrive
<1>2. UNCHANGED <<displayed, restoring, ui, notes, blocked, drafts, kept, sent, edits, wrote, attached>>
  BY DEF Composer!Arrive, Composer!storage, Composer!history
<1>3. PICK w \in {"run", "received", "refused"} :
        /\ w = "run" => Of(calls[i].session, calls[i].request) \cap Done = {}
        /\ w = "received" => Of(calls[i].session, calls[i].request) \cap Done # {}
        /\ calls' = [calls EXCEPT ![i].wire = w]
  BY DEF Composer!Arrive, Composer!Ran, Of, SentOf, Done, Indices
<1>4. /\ calls' \in Seq(SentCalls) /\ Same
      /\ calls'[i].wire = w /\ \A k \in Indices : calls'[k].state = calls[k].state
      /\ \A k \in Indices \ {i} : calls'[k].wire = calls[k].wire
  BY <1>1, <1>3, WireMoved
<1>5. /\ Indices' = Indices /\ \A q : SentOf(q)' = SentOf(q) /\ \A rev : Of(q, rev)' = Of(q, rev)
      /\ \A q, rev : Of(q, rev) \subseteq SentOf(q) /\ SentOf(q) \subseteq Indices
      /\ i \in Of(calls[i].session, calls[i].request)
  BY <1>4, SameSets DEF Of, SentOf
<1>6. Done' = IF w = "run" THEN Done \cup {i} ELSE Done
  BY <1>1, <1>4, <1>5 DEF Done
<1>7. /\ \A k \in Indices : /\ calls'[k].session = calls[k].session /\ calls'[k].request = calls[k].request
                            /\ calls'[k].text = calls[k].text /\ calls'[k].items = calls[k].items
      /\ Done \subseteq Indices /\ Done \subseteq Done'
  BY <1>4, <1>6 DEF Same, Indices, Done
<1>8. ComposerTyped'
  BY <1>1, <1>2, <1>4 DEF ComposerTyped
<1>9. Flags' /\ Bare'
  BY <1>1, <1>2 DEF Flags, Bare
<1>10. OneRevision'
  BY <1>1, <1>2, <1>4, RevisionKeep
<1>11. RunOnce'
  <2>1. ASSUME NEW j \in Done', NEW k \in Done', calls[j].session = calls[k].session,
               calls[j].request = calls[k].request
        PROVE  j = k
    BY <1>1, <1>3, <1>6, <1>7, <2>1 DEF RunOnce, Of, SentOf
  <2>2. ASSUME NEW j \in Indices, calls'[j].wire = "received"
        PROVE  Of(calls[j].session, calls[j].request) \cap Done' # {}
    BY <1>1, <1>3, <1>4, <1>7, <2>2 DEF RunOnce
  <2>3. ASSUME NEW j \in Indices, calls'[j].state = "refreshing" PROVE calls'[j].wire \in {"run", "received"}
    BY <1>1, <1>4, <2>3 DEF RunOnce
  <2> QED
    BY <1>5, <1>7, <2>1, <2>2, <2>3, <1>6 DEF RunOnce
<1>12. TextSafe'
  <2>1. \A q \in Sessions : Awaited(q)' => Awaited(q)
    BY <1>2, <1>7 DEF Awaited
  <2>2. ui.submission # 0 => calls'[ui.submission].text = calls[ui.submission].text
    BY <1>1, <1>5, <1>7 DEF OneRevision
  <2> QED
    BY <1>1, <1>2, <2>1, <2>2 DEF TextSafe
<1>13. NotesSafe'
  <2>1. Settling \subseteq Settling'
    BY <1>7 DEF Settling
  <2> QED
    BY <1>1, <1>2, <2>1 DEF NotesSafe
<1>14. Again' /\ LastSafe'
  <2>1. /\ Again' /\ \A j \in Indices : Latest(j)' <=> Latest(j)
        /\ \A j \in Indices : calls'[j].edit <= edits'
        /\ \A q \in Sessions : wrote'[q].edit <= edits'
    BY <1>2, <1>4, <1>8, MovedKeep
  <2>2. ASSUME NEW j \in Indices, LastKept(j) PROVE LastKept(j)'
    BY <1>2, <1>4, <1>5, <1>7, <2>2 DEF LastKept
  <2> QED
    BY <1>1, <1>2, <1>5, <2>1, <2>2 DEF LastSafe
<1>15. Composer!StaysOut
  BY <1>2, <1>7, OutStays
<1> QED
  BY <1>8, <1>9, <1>10, <1>11, <1>12, <1>13, <1>14, <1>15 DEF ComposerInv

\* What a step of an answer shows of the submissions: only the state of i moves on.
LEMMA OnlyState ==
    ASSUME ComposerInv, NEW i \in Indices, NEW w \in {"refreshing", "over"},
           calls' = [calls EXCEPT ![i].state = w]
    PROVE  /\ calls' \in Seq(SentCalls) /\ Same /\ Done' = Done /\ Settling' = Settling
           /\ calls'[i].state = w /\ \A k \in Indices : calls'[k].wire = calls[k].wire
           /\ \A k \in Indices \ {i} : calls'[k].state = calls[k].state
           /\ Indices' = Indices /\ \A q : SentOf(q)' = SentOf(q) /\ \A rev : Of(q, rev)' = Of(q, rev)
           /\ \A q, rev : Of(q, rev) \subseteq SentOf(q) /\ SentOf(q) \subseteq Indices
           /\ i \in Of(calls[i].session, calls[i].request)
           /\ \A k \in Indices : /\ calls'[k].session = calls[k].session /\ calls'[k].request = calls[k].request
                                 /\ calls'[k].text = calls[k].text /\ calls'[k].items = calls[k].items
           /\ Done \subseteq Indices
<1>1. /\ calls' \in Seq(SentCalls) /\ Same
      /\ calls'[i].state = w /\ \A k \in Indices : calls'[k].wire = calls[k].wire
      /\ \A k \in Indices \ {i} : calls'[k].state = calls[k].state
  BY StateMoved DEF ComposerInv
<1>2. Indices' = Indices /\ \A q : SentOf(q)' = SentOf(q) /\ \A rev : Of(q, rev)' = Of(q, rev)
  BY <1>1, SameSets
<1>3. Done' = Done
  BY <1>1, <1>2 DEF Done
<1>4. \A k \in Indices : /\ calls'[k].session = calls[k].session /\ calls'[k].request = calls[k].request
                         /\ calls'[k].text = calls[k].text /\ calls'[k].items = calls[k].items
  BY <1>1 DEF Same, Indices
<1>5. Settling' = Settling
  BY <1>3, <1>4 DEF Settling, Done
<1> QED
  BY <1>1, <1>2, <1>3, <1>4, <1>5 DEF Of, SentOf, Done

\* The answer, or a receipt.
LEMMA AcceptedKeeps == ASSUME ComposerInv, NEW i \in Indices, Composer!Accepted(i) PROVE ComposerInv' /\ Composer!StaysOut
<1> DEFINE s == calls[i].session
           r == calls[i].request
           cleared == drafts[s] # NoDraft /\ drafts[s].revision = r
<1>1. /\ ComposerTyped /\ Flags /\ Bare /\ OneRevision /\ RunOnce /\ TextSafe /\ NotesSafe /\ LastSafe /\ Again
      /\ calls[i].wire \in {"run", "received"}
      /\ s \in Sessions /\ r \in Nat \ {0} /\ calls[i].items \in SUBSET Annotations
      /\ ui \in UiStates /\ notes \in NoteStates
  BY CallTyped DEF ComposerInv, Composer!Accepted, ComposerTyped
<1>2. UNCHANGED <<displayed, restoring, blocked, edits, wrote, attached>>
  BY DEF Composer!Accepted, Composer!history
<1>3. calls' = [calls EXCEPT ![i].state = "refreshing"]
  BY DEF Composer!Accepted
<1>4. /\ calls' \in Seq(SentCalls) /\ Same /\ Done' = Done /\ Settling' = Settling
      /\ calls'[i].state = "refreshing" /\ \A k \in Indices : calls'[k].wire = calls[k].wire
      /\ \A k \in Indices \ {i} : calls'[k].state = calls[k].state
      /\ Indices' = Indices /\ \A q : SentOf(q)' = SentOf(q) /\ \A rev : Of(q, rev)' = Of(q, rev)
      /\ \A q, rev : Of(q, rev) \subseteq SentOf(q) /\ SentOf(q) \subseteq Indices
      /\ i \in Of(s, r)
      /\ \A k \in Indices : /\ calls'[k].session = calls[k].session /\ calls'[k].request = calls[k].request
                            /\ calls'[k].text = calls[k].text /\ calls'[k].items = calls[k].items
      /\ Done \subseteq Indices
  BY <1>3, OnlyState
<1>5. /\ drafts' \in [Sessions -> Stored] /\ \A q \in Sessions \ {s} : drafts'[q] = drafts[q]
      /\ drafts'[s] = IF cleared THEN NoDraft ELSE drafts[s]
      /\ cleared => ~blocked
  <2>1. drafts' = Composer!Cleared(s, r)
    BY DEF Composer!Accepted
  <2>2. cleared => ~blocked
    BY <1>1 DEF Bare
  <2> QED
    BY <1>1, <2>1, <2>2, ClearedIs
<1>6. /\ ui' \in UiStates /\ ui'.session = ui.session /\ ui'.submission = ui.submission
      /\ IF cleared /\ ui.session = s /\ ui.revision = r THEN ui'.draft = 0 ELSE ui' = ui
  <2>1. ui' = Composer!ClearedUi(ui, s, r)
    BY DEF Composer!Accepted
  <2>2. Composer!SavedRevision(s) = r <=> cleared
    BY <1>1, <1>5 DEF Composer!SavedRevision, Composer!Saved, Bare
  <2> QED
    BY <1>1, <2>1, <2>2 DEF Composer!ClearedUi, UiStates, Composer!Blank
<1>7. /\ notes' \in NoteStates /\ notes'.session = notes.session
      /\ notes'.items = IF notes.session = s THEN notes.items \ calls[i].items ELSE notes.items
  BY <1>1 DEF Composer!Accepted, Composer!Detach, NoteStates
<1>8. /\ kept' \in [Sessions -> SUBSET Annotations] /\ \A q \in Sessions \ {s} : kept'[q] = kept[q]
      /\ blocked => kept' = kept
      /\ ~blocked => kept'[s] = kept[s] \ calls[i].items
  <2>1. kept[s] \ calls[i].items \in SUBSET Annotations
    BY <1>1 DEF ComposerTyped
  <2> QED
    BY <1>1, <2>1, KeepIs DEF Composer!Accepted
<1>9. sent' \in [Sessions -> SUBSET SentNotes] /\ \A q \in Sessions : sent'[q] \subseteq sent[q]
  <2>1. sent' = [sent EXCEPT ![s] = {x \in @ : x.request # r}]
    BY DEF Composer!Accepted
  <2> QED
    BY <1>1, <2>1 DEF ComposerTyped
<1>10. /\ calls[i].items \subseteq Settling
       /\ \E k \in Done : calls[k].session = s /\ calls[k].text = calls[i].text
  BY <1>1, Answered
<1>11. cleared => drafts[s].text = calls[i].text
  BY <1>1, <1>4 DEF OneRevision
<1> HIDE DEF s, r, cleared
<1>12. ComposerTyped'
  BY <1>1, <1>2, <1>4, <1>5, <1>6, <1>7, <1>8, <1>9 DEF ComposerTyped
<1>13. Flags'
  BY <1>1, <1>2 DEF Flags
<1>14. Bare'
  BY <1>1, <1>2, <1>5, <1>6, <1>8, <1>9 DEF Bare
<1>15. OneRevision'
  <2>1. \A q \in Sessions : drafts'[q] = drafts[q] \/ drafts'[q] = NoDraft
    BY <1>5
  <2> QED
    BY <1>1, <1>4, <1>6, <1>9, <2>1, RevisionKeep
<1>16. RunOnce'
  <2>1. \A j \in Indices : calls'[j].state = "refreshing" => calls'[j].wire \in {"run", "received"}
    BY <1>1, <1>4 DEF RunOnce
  <2> QED
    BY <1>1, <1>4, <2>1 DEF RunOnce
<1>17. TextSafe'
  <2> SUFFICES ASSUME NEW q \in Sessions, Awaited(q)'
               PROVE  /\ ~blocked => drafts'[q] # NoDraft /\ drafts'[q].text = wrote[q].text
                      /\ ui'.session = q =>
                           \/ ui'.draft = wrote[q].text
                           \/ /\ ui'.draft = 0
                              /\ IF ui'.submission = 0 THEN ~blocked ELSE calls'[ui'.submission].text = wrote[q].text
    BY <1>2 DEF TextSafe
  <2>1. Awaited(q)
    BY <1>2, <1>4 DEF Awaited
  <2>2. q = s => ~cleared
    BY <1>1, <1>5, <1>10, <1>11, <2>1 DEF TextSafe, Awaited
  <2>3. ui'.session = q => ui' = ui
    BY <1>6, <2>2
  <2>4. ui.submission # 0 => calls'[ui.submission].text = calls[ui.submission].text
    BY <1>1, <1>4 DEF OneRevision
  <2>5. drafts'[q] = drafts[q]
    BY <1>5, <2>2
  <2> QED
    BY <1>1, <2>1, <2>3, <2>4, <2>5 DEF TextSafe
<1>18. NotesSafe'
  <2>1. notes'.session = None => notes'.items = {}
    BY <1>1, <1>7 DEF NotesSafe
  <2>2. ASSUME ~blocked, NEW q \in Sessions
        PROVE  /\ attached[q] \ Settling \subseteq kept'[q]
               /\ notes'.session = q => attached[q] \ Settling \subseteq notes'.items
    BY <1>1, <1>7, <1>8, <1>10, <2>2 DEF NotesSafe
  <2> QED
    BY <1>2, <1>4, <2>1, <2>2 DEF NotesSafe
<1>19. Again' /\ LastSafe'
  <2>1. /\ Again' /\ \A j \in Indices : Latest(j)' <=> Latest(j)
        /\ \A j \in Indices : calls'[j].edit <= edits'
        /\ \A q \in Sessions : wrote'[q].edit <= edits'
    BY <1>2, <1>4, <1>12, MovedKeep
  <2>2. ASSUME ~blocked, NEW j \in Indices, LastKept(j) PROVE LastKept(j)'
    <3> DEFINE q == calls[j].session
    <3>1. /\ q \in Sessions /\ calls'[j].session = q /\ calls'[j].request = calls[j].request
          /\ calls'[j].items = calls[j].items
      BY <1>1, <1>4, CallTyped
    <3>2. drafts'[q] # NoDraft => drafts'[q].revision = calls[j].request
      BY <1>5, <2>2, <3>1 DEF LastKept
    <3>3. ui'.session = q /\ ui'.draft # 0 => drafts'[q] # NoDraft /\ ui'.revision = calls[j].request
      BY <1>5, <1>6, <2>2, <3>1 DEF LastKept, cleared
    <3>4. drafts'[q] = NoDraft => /\ calls[j].items \cap kept'[q] = {}
                                  /\ notes'.session = q => calls[j].items \cap notes'.items = {}
      <4>1. CASE drafts[q] = NoDraft
        BY <1>7, <1>8, <2>2, <3>1, <4>1 DEF LastKept
      <4>2. CASE drafts[q] # NoDraft /\ drafts'[q] = NoDraft
        <5>1. q = s /\ cleared
          BY <1>5, <3>1, <4>2
        <5>2. calls[j].request = r
          BY <2>2, <4>2, <5>1 DEF LastKept, cleared
        <5>3. PromptOf(i) = PromptOf(j)
          BY <1>1, <5>1, <5>2 DEF OneRevision, s, r
        <5>4. calls[j].items = calls[i].items
          BY <5>3 DEF PromptOf
        <5> QED
          BY <1>7, <1>8, <2>2, <5>1, <5>4
      <4> QED
        BY <4>1, <4>2
    <3>5. \A k \in SentOf(q) : calls'[k].state = "open" => calls'[k].request = calls[j].request
      BY <1>4, <2>2 DEF LastKept
    <3> QED
      BY <1>4, <3>1, <3>2, <3>3, <3>4, <3>5 DEF LastKept
  <2> QED
    BY <1>1, <1>2, <1>4, <2>1, <2>2 DEF LastSafe
<1>20. Composer!StaysOut
  BY <1>4, <1>6, OutStays
<1> QED
  BY <1>12, <1>13, <1>14, <1>15, <1>16, <1>17, <1>18, <1>19, <1>20 DEF ComposerInv

\* The refresh that follows an answer is over.
LEMMA SettledKeeps == ASSUME ComposerInv, NEW i \in Indices, Composer!Settled(i) PROVE ComposerInv' /\ Composer!StaysOut
<1> DEFINE s == calls[i].session
<1>1. /\ ComposerTyped /\ Flags /\ Bare /\ OneRevision /\ RunOnce /\ TextSafe /\ NotesSafe /\ LastSafe /\ Again
      /\ calls[i].state = "refreshing" /\ calls' = [calls EXCEPT ![i].state = "over"]
      /\ s \in Sessions /\ calls[i].request \in Nat \ {0} /\ calls[i].text \in Nat
      /\ calls[i].items \in SUBSET Annotations /\ i # 0 /\ ui \in UiStates
  BY CallTyped DEF ComposerInv, Composer!Settled, ComposerTyped
<1>2. UNCHANGED <<displayed, restoring, notes, blocked, drafts, kept, sent, edits, wrote, attached>>
  BY DEF Composer!Settled, Composer!storage, Composer!history
<1>3. /\ calls' \in Seq(SentCalls) /\ Same /\ Done' = Done /\ Settling' = Settling
      /\ calls'[i].state = "over" /\ (\A k \in Indices : calls'[k].wire = calls[k].wire)
      /\ (\A k \in Indices \ {i} : calls'[k].state = calls[k].state)
      /\ Indices' = Indices /\ \A q : SentOf(q)' = SentOf(q) /\ \A rev : Of(q, rev)' = Of(q, rev)
      /\ \A q, rev : Of(q, rev) \subseteq SentOf(q) /\ SentOf(q) \subseteq Indices
      /\ i \in SentOf(s)
      /\ \A k \in Indices : /\ calls'[k].session = calls[k].session /\ calls'[k].request = calls[k].request
                            /\ calls'[k].text = calls[k].text /\ calls'[k].items = calls[k].items
      /\ Done \subseteq Indices
  BY <1>1, OnlyState DEF Of
<1>4. /\ ui' \in UiStates /\ ui'.session = ui.session /\ ui'.draft = ui.draft /\ ui'.revision = ui.revision
      /\ ui'.submission = IF ui.submission = i THEN 0 ELSE ui.submission
  BY <1>1 DEF Composer!Settled, Composer!Finished, UiStates
<1>5. \E k \in Done : calls[k].session = s /\ calls[k].text = calls[i].text
  BY <1>1, Answered DEF RunOnce
<1>6. ui.submission # 0 => ui.submission \in Indices /\ calls[ui.submission].session = ui.session
  BY <1>1 DEF OneRevision, SentOf
<1> HIDE DEF s
<1>7. ComposerTyped'
  BY <1>1, <1>2, <1>3, <1>4 DEF ComposerTyped
<1>8. Flags' /\ Bare'
  BY <1>1, <1>2, <1>4 DEF Flags, Bare
<1>9. OneRevision'
  <2>1. \A q \in Sessions : drafts'[q] = drafts[q] /\ sent'[q] \subseteq sent[q]
    BY <1>2
  <2>2. ui'.submission # 0 => ui'.submission = ui.submission /\ ui'.session = ui.session
    BY <1>4
  <2> QED
    BY <1>1, <1>3, <2>1, <2>2, RevisionKeep
<1>10. RunOnce'
  BY <1>1, <1>3 DEF RunOnce
<1>11. TextSafe'
  <2> SUFFICES ASSUME NEW q \in Sessions, Awaited(q)'
               PROVE  /\ ~blocked => drafts[q] # NoDraft /\ drafts[q].text = wrote[q].text
                      /\ ui.session = q =>
                           \/ ui.draft = wrote[q].text
                           \/ /\ ui.draft = 0
                              /\ IF ui'.submission = 0 THEN ~blocked ELSE calls'[ui'.submission].text = wrote[q].text
    BY <1>2, <1>4 DEF TextSafe
  <2>1. Awaited(q)
    BY <1>2, <1>3 DEF Awaited
  <2>2. ui.session = q /\ ui.submission = i => calls[i].text # wrote[q].text
    BY <1>1, <1>5, <1>6, <2>1 DEF Awaited, s
  <2> QED
    BY <1>1, <1>3, <1>4, <1>6, <2>1, <2>2 DEF TextSafe
<1>12. NotesSafe'
  BY <1>1, <1>2, <1>3 DEF NotesSafe
<1>13. Again' /\ LastSafe'
  <2>1. /\ Again' /\ \A j \in Indices : Latest(j)' <=> Latest(j)
        /\ \A j \in Indices : calls'[j].edit <= edits'
        /\ \A q \in Sessions : wrote'[q].edit <= edits'
    BY <1>2, <1>3, <1>7, MovedKeep
  <2>2. ASSUME NEW j \in Indices, LastKept(j) PROVE LastKept(j)'
    BY <1>2, <1>3, <1>4, <2>2 DEF LastKept
  <2> QED
    BY <1>1, <1>2, <1>3, <2>1, <2>2 DEF LastSafe
<1>14. Composer!StaysOut
  BY <1>3, <1>4, OutStays
<1> QED
  BY <1>7, <1>8, <1>9, <1>10, <1>11, <1>12, <1>13, <1>14 DEF ComposerInv

\* No answer, or a refusal: the draft is back where nothing newer is stored.
LEMMA RejectedKeeps == ASSUME ComposerInv, NEW i \in Indices, Composer!Rejected(i) PROVE ComposerInv' /\ Composer!StaysOut
<1> DEFINE s == calls[i].session
<1>1. /\ ComposerTyped /\ Flags /\ Bare /\ OneRevision /\ RunOnce /\ TextSafe /\ NotesSafe /\ LastSafe /\ Again
      /\ calls[i].state = "open" /\ calls' = [calls EXCEPT ![i].state = "over"]
      /\ s \in Sessions /\ calls[i].request \in Nat \ {0} /\ calls[i].text \in Nat
      /\ calls[i].items \in SUBSET Annotations /\ i # 0 /\ ui \in UiStates
  BY CallTyped DEF ComposerInv, Composer!Rejected, ComposerTyped
<1>2. UNCHANGED <<displayed, restoring, notes, blocked, kept, sent, edits, wrote, attached>>
  BY DEF Composer!Rejected, Composer!history
<1>3. /\ calls' \in Seq(SentCalls) /\ Same /\ Done' = Done /\ Settling' = Settling
      /\ calls'[i].state = "over" /\ (\A k \in Indices : calls'[k].wire = calls[k].wire)
      /\ (\A k \in Indices \ {i} : calls'[k].state = calls[k].state)
      /\ Indices' = Indices /\ \A q : SentOf(q)' = SentOf(q) /\ \A rev : Of(q, rev)' = Of(q, rev)
      /\ \A q, rev : Of(q, rev) \subseteq SentOf(q) /\ SentOf(q) \subseteq Indices
      /\ i \in SentOf(s)
      /\ \A k \in Indices : /\ calls'[k].session = calls[k].session /\ calls'[k].request = calls[k].request
                            /\ calls'[k].text = calls[k].text /\ calls'[k].items = calls[k].items
      /\ Done \subseteq Indices
  BY <1>1, OnlyState DEF Of
<1>4. /\ drafts' \in [Sessions -> Stored] /\ \A q \in Sessions \ {s} : drafts'[q] = drafts[q]
      /\ blocked \/ drafts[s] # NoDraft => drafts' = drafts
      /\ ~blocked /\ drafts[s] = NoDraft =>
           /\ drafts'[s] # NoDraft /\ drafts'[s].text = calls[i].text
           /\ drafts'[s].revision = calls[i].request /\ drafts'[s].submission = PromptOf(i)
  <2>1. PromptOf(i) \in Composer!Prompts /\ PromptOf(i).sends
    <3>1. calls[i].steer \in BOOLEAN
      BY <1>1, CallTyped DEF SentCalls
    <3> QED
      BY <1>1, <3>1 DEF PromptOf, Composer!Prompts
  <2>2. drafts' = IF ~blocked /\ drafts[s] = NoDraft
                  THEN Composer!Written(s, calls[i].text, calls[i].request, PromptOf(i)) ELSE drafts
    BY <1>1 DEF Composer!Rejected, Composer!Saved, PromptOf, Composer!Written
  <2> QED
    BY <1>1, <2>1, <2>2, WrittenIs DEF ComposerTyped
<1>5. /\ ui' \in UiStates /\ ui'.session = ui.session
      /\ ui.submission # i => ui' = ui
      /\ ui.submission = i =>
           /\ ui'.submission = 0
           /\ ui.draft # 0 => ui'.draft = ui.draft /\ ui'.revision = ui.revision
           /\ ui.draft = 0 => ui'.draft = calls[i].text /\ ui'.revision = calls[i].request
  <2>1. CASE ui.submission # i
    BY <1>1, <2>1 DEF Composer!Rejected, Composer!Finished, Composer!Failed
  <2>2. CASE ui.submission = i /\ ui.draft # 0
    BY <1>1, <2>2 DEF Composer!Rejected, Composer!Finished, Composer!Failed, Composer!Blank, UiStates
  <2>3. CASE ui.submission = i /\ ui.draft = 0
    BY <1>1, <2>3 DEF Composer!Rejected, Composer!Finished, Composer!Failed, Composer!Blank, UiStates
  <2> QED
    BY <2>1, <2>2, <2>3
<1>6. ui.submission # 0 => ui.submission \in Indices /\ calls[ui.submission].session = ui.session
  BY <1>1 DEF OneRevision, SentOf
<1> HIDE DEF s
<1>7. ComposerTyped'
  BY <1>1, <1>2, <1>3, <1>4, <1>5 DEF ComposerTyped
<1>8. Flags' /\ Bare'
  BY <1>1, <1>2, <1>4, <1>5 DEF Flags, Bare
<1>9. OneRevision'
  <2>1. \A q \in Sessions :
          \/ drafts'[q] = drafts[q] \/ drafts'[q] = NoDraft
          \/ \E k \in SentOf(q) : /\ drafts'[q].revision = calls[k].request
                                  /\ drafts'[q].text = calls[k].text
                                  /\ drafts'[q].submission = PromptOf(k)
    BY <1>3, <1>4
  <2>2. \A q \in Sessions : sent'[q] \subseteq sent[q]
    BY <1>2
  <2>3. ui'.submission # 0 => ui'.submission = ui.submission /\ ui'.session = ui.session
    BY <1>5
  <2> QED
    BY <1>1, <1>3, <2>1, <2>2, <2>3, RevisionKeep
<1>10. RunOnce'
  BY <1>1, <1>3 DEF RunOnce
<1>11. TextSafe'
  <2> SUFFICES ASSUME NEW q \in Sessions, Awaited(q)'
               PROVE  /\ ~blocked => drafts'[q] # NoDraft /\ drafts'[q].text = wrote[q].text
                      /\ ui'.session = q =>
                           \/ ui'.draft = wrote[q].text
                           \/ /\ ui'.draft = 0
                              /\ IF ui'.submission = 0 THEN ~blocked ELSE calls'[ui'.submission].text = wrote[q].text
    BY <1>2 DEF TextSafe
  <2>1. Awaited(q) /\ wrote[q].text # 0
    BY <1>2, <1>3 DEF Awaited
  <2>2. ~blocked => drafts'[q] # NoDraft /\ drafts'[q].text = wrote[q].text
    BY <1>1, <1>4, <2>1 DEF TextSafe
  <2>3. CASE ui.submission # i
    BY <1>1, <1>3, <1>5, <1>6, <2>1, <2>2, <2>3 DEF TextSafe
  <2>4. CASE ui.submission = i
    BY <1>1, <1>5, <2>1, <2>2, <2>4 DEF TextSafe
  <2> QED
    BY <2>3, <2>4
<1>12. NotesSafe'
  BY <1>1, <1>2, <1>3 DEF NotesSafe
<1>13. Again' /\ LastSafe'
  <2>1. /\ Again' /\ \A j \in Indices : Latest(j)' <=> Latest(j)
        /\ \A j \in Indices : calls'[j].edit <= edits'
        /\ \A q \in Sessions : wrote'[q].edit <= edits'
    BY <1>2, <1>3, <1>7, MovedKeep
  <2>2. ASSUME ~blocked, NEW j \in Indices, LastKept(j) PROVE LastKept(j)'
    <3> DEFINE q == calls[j].session
    <3>1. /\ q \in Sessions /\ calls'[j].session = q /\ calls'[j].request = calls[j].request
          /\ calls'[j].items = calls[j].items
      BY <1>1, <1>3, CallTyped
    <3>2. CASE q = s
      <4>1. calls[i].request = calls[j].request
        BY <1>1, <1>3, <2>2, <3>2 DEF LastKept
      <4>2. drafts'[q] # NoDraft /\ drafts'[q].revision = calls[j].request
        BY <1>4, <2>2, <3>2, <4>1 DEF LastKept
      <4>3. ui'.session = q /\ ui'.draft # 0 => ui'.revision = calls[j].request
        BY <1>5, <2>2, <3>2, <4>1 DEF LastKept
      <4> QED
        BY <1>3, <2>2, <3>1, <4>2, <4>3 DEF LastKept
    <3>3. CASE q # s
      <4>1. drafts'[q] = drafts[q] /\ (ui.session = q => ui' = ui)
        BY <1>4, <1>5, <1>6, <1>1, <3>1, <3>3 DEF s
      <4> QED
        BY <1>2, <1>3, <1>5, <2>2, <3>1, <4>1, SMTT(20) DEF LastKept
    <3> QED
      BY <3>2, <3>3
  <2> QED
    BY <1>1, <1>2, <1>3, <2>1, <2>2 DEF LastSafe
<1>14. Composer!StaysOut
  <2> SUFFICES ASSUME NEW k \in Done, ui'.session = calls[k].session, ui'.draft # 0,
                      ui'.revision = calls[k].request
               PROVE  \/ ui.session = ui'.session /\ ui.draft # 0 /\ ui.revision = ui'.revision
                      \/ \E j \in Indices : /\ calls[j].request = calls[k].request
                                            /\ calls[j].state = "open" /\ calls'[j].state = "over"
    BY <1>3, OutStays
  <2>1. CASE ui.submission = i /\ ui.draft = 0
    BY <1>1, <1>3, <1>5, <2>1
  <2>2. CASE ~(ui.submission = i /\ ui.draft = 0)
    BY <1>5, <2>2
  <2> QED
    BY <2>1, <2>2
<1> QED
  BY <1>7, <1>8, <1>9, <1>10, <1>11, <1>12, <1>13, <1>14 DEF ComposerInv

\* Two prompts that differ in their delivery only.
LEMMA SteerOnly ==
    ASSUME NEW p \in Composer!Prompts, NEW q \in Composer!Prompts,
           p.sends = q.sends, p.text = q.text, p.items = q.items
    PROVE  [p EXCEPT !.steer = q.steer] = q
BY DEF Composer!Prompts

\* What is sent: a prompt that was not answered keeps its revision, another one has a new one.
LEMMA SubmitKeeps == ASSUME ComposerInv, Composer!Submit PROVE ComposerInv' /\ Composer!StaysOut
<1> DEFINE u == Composer!UiHere
           here == Composer!NotesHere.items
<1>0. PICK s, n : s = displayed /\ n = Len(calls) + 1
  OBVIOUS
<1>1. /\ ComposerTyped /\ Flags /\ Bare /\ OneRevision /\ RunOnce /\ TextSafe /\ NotesSafe /\ LastSafe
      /\ Again /\ s \in Sessions
  BY <1>0 DEF ComposerInv, Composer!Submit, ComposerTyped
<1>2. UNCHANGED <<displayed, restoring, notes, blocked, kept, edits, attached>>
  BY DEF Composer!Submit
<1> DEFINE Prompt(steering) == [sends |-> TRUE, text |-> u.draft, items |-> here, steer |-> steering]
<1>p. PICK steering \in BOOLEAN :
        LET again == Composer!Unchanged(s, Prompt(steering))
            rev   == IF again THEN drafts[s].revision ELSE Composer!NewRevision
            sends == IF again THEN drafts[s].submission ELSE Prompt(steering)
        IN
        /\ drafts' = Composer!Written(s, u.draft, rev, sends)
        /\ sent' = Composer!Remembered(s, rev, sends.items)
        /\ ui' = [u EXCEPT !.draft = 0, !.revision = rev, !.submission = n]
        /\ calls' = Append(calls,
             [session |-> s, request |-> rev, text |-> sends.text, items |-> sends.items,
              steer |-> sends.steer, state |-> "open", wire |-> "sent",
              edit |-> wrote[s].edit, alone |-> Composer!Alone(s, rev)])
  BY <1>0 DEF Composer!Submit, Composer!Blank
<1>3. PICK rev, sends :
        LET again == Composer!Unchanged(s, Prompt(steering)) IN
        /\ rev = IF again THEN drafts[s].revision ELSE Composer!NewRevision
        /\ sends = IF again THEN drafts[s].submission ELSE Prompt(steering)
        /\ drafts' = Composer!Written(s, u.draft, rev, sends)
        /\ sent' = Composer!Remembered(s, rev, sends.items)
        /\ ui' = [u EXCEPT !.draft = 0, !.revision = rev, !.submission = n]
        /\ calls' = Append(calls,
             [session |-> s, request |-> rev, text |-> sends.text, items |-> sends.items,
              steer |-> sends.steer, state |-> "open", wire |-> "sent",
              edit |-> wrote[s].edit, alone |-> Composer!Alone(s, rev)])
  BY <1>p
<1> DEFINE prompt == Prompt(steering)
           again  == Composer!Unchanged(s, prompt)
           call   == [session |-> s, request |-> rev, text |-> sends.text, items |-> sends.items,
                      steer |-> sends.steer, state |-> "open", wire |-> "sent",
                      edit |-> wrote[s].edit, alone |-> Composer!Alone(s, rev)]
<1>4. /\ u \in UiStates /\ u.session = s /\ u.draft \in Nat /\ here \in SUBSET Annotations
      /\ ui.session = s => u = ui
      /\ ui.session # s => u.draft = 0
      /\ notes.session = s => here = notes.items
      /\ notes.session # s => here = {}
      /\ u.draft # 0 \/ here # {}
  BY <1>0, <1>1, UiHereIs, NotesHereIs DEF UiStates, NoteStates, Composer!Submit, Composer!Blank
<1>5. again => /\ ~blocked /\ drafts[s] # NoDraft /\ drafts[s] \in Stored
               /\ drafts[s].submission = sends /\ drafts[s].revision = rev
               /\ sends \in Composer!Prompts /\ sends.sends /\ sends.text = u.draft /\ sends.items = here
  <2>0. again => sends = drafts[s].submission /\ rev = drafts[s].revision
    BY <1>3
  <2> SUFFICES ASSUME again
               PROVE  /\ ~blocked /\ drafts[s] # NoDraft /\ drafts[s] \in Stored
                      /\ drafts[s].submission \in Composer!Prompts
                      /\ drafts[s].submission.sends /\ drafts[s].submission.text = u.draft
                      /\ drafts[s].submission.items = here
    BY <2>0
  <2>1. ~blocked /\ drafts[s] # NoDraft /\ [drafts[s].submission EXCEPT !.steer = prompt.steer] = prompt
    BY <1>1 DEF Composer!Unchanged, Composer!Saved
  <2>2. drafts[s] \in Stored /\ drafts[s].submission \in Composer!Prompts
    BY <1>1, <2>1 DEF ComposerTyped, Stored
  <2>3. [drafts[s].submission EXCEPT !.steer = steering] = prompt
    BY <2>1
  <2>4. /\ prompt.sends = TRUE /\ prompt.text = u.draft /\ prompt.items = here
    OBVIOUS
  <2> HIDE DEF prompt
  <2>5. /\ drafts[s].submission.sends = prompt.sends /\ drafts[s].submission.text = prompt.text
        /\ drafts[s].submission.items = prompt.items
    BY <2>2, <2>3 DEF Composer!Prompts
  <2> QED
    BY <2>1, <2>2, <2>4, <2>5
<1>6. ~again => /\ sends = prompt /\ sends \in Composer!Prompts /\ sends.sends /\ sends.text = u.draft
                /\ sends.items = here /\ \A k \in Indices : calls[k].request # rev
                /\ rev \in Nat \ {0}
  BY <1>1, <1>3, <1>4, Fresh DEF Composer!Prompts
<1>7. again => rev \in Nat \ {0}
  BY <1>5, SessionIsNone DEF Stored
<1>11. /\ drafts' = Composer!Written(s, u.draft, rev, sends)
       /\ sent' = Composer!Remembered(s, rev, sends.items)
       /\ ui' = [u EXCEPT !.draft = 0, !.revision = rev, !.submission = n]
       /\ calls' = Append(calls, call)
  BY <1>3
<1> HIDE DEF again, prompt
<1>8. /\ rev \in Nat \ {0} /\ sends \in Composer!Prompts /\ sends.sends = TRUE /\ sends.text = u.draft /\ sends.items = here
      /\ sends.steer \in BOOLEAN
      /\ sends = [sends |-> TRUE, text |-> sends.text, items |-> sends.items, steer |-> sends.steer]
  <2>1. rev \in Nat \ {0} /\ sends \in Composer!Prompts /\ sends.sends /\ sends.text = u.draft /\ sends.items = here
    BY <1>5, <1>6, <1>7
  <2> QED
    BY <2>1 DEF Composer!Prompts
<1>9. \A k \in SentOf(s) : calls[k].request = rev => PromptOf(k) = sends
  BY <1>1, <1>5, <1>6 DEF OneRevision, Of, SentOf
<1>10. Composer!Alone(s, rev) \in BOOLEAN
  BY DEF Composer!Alone
<1>12. /\ call \in SentCalls /\ call.session = s /\ call.request = rev /\ call.text = sends.text
       /\ call.items = sends.items /\ call.steer = sends.steer /\ call.state = "open" /\ call.wire = "sent"
       /\ call.edit = wrote[s].edit /\ call.alone = Composer!Alone(s, rev)
  BY <1>1, <1>4, <1>8, <1>10 DEF SentCalls, ComposerTyped, Writings
<1> HIDE DEF call
<1>13. /\ calls' \in Seq(SentCalls) /\ calls'[n] = call /\ n \in Nat \ {0}
       /\ Indices' = Indices \cup {n} /\ n \notin Indices /\ (\A k \in Indices : k \in Nat /\ k < n)
       /\ (\A k \in Indices : calls'[k] = calls[k] /\ PromptOf(k)' = PromptOf(k))
       /\ Done' = Done /\ Settling' = Settling
       /\ (\A q : SentOf(q)' = IF q = s THEN SentOf(q) \cup {n} ELSE SentOf(q))
       /\ (\A q, r : Of(q, r)' = IF q = s /\ r = rev THEN Of(q, r) \cup {n} ELSE Of(q, r))
       /\ (\A q, r : Of(q, r) \subseteq SentOf(q) /\ SentOf(q) \subseteq Indices)
       /\ Done \subseteq Indices
  <2>1. calls \in Seq(SentCalls) /\ Len(calls) \in Nat /\ DOMAIN calls = 1..Len(calls)
    BY <1>1 DEF ComposerTyped
  <2> HIDE DEF u, here, Prompt
  <2>2. /\ calls' \in Seq(SentCalls) /\ Len(calls') = n /\ DOMAIN calls' = 1..n
        /\ calls'[n] = call /\ \A k \in 1..Len(calls) : calls'[k] = calls[k]
    BY <1>0, <1>11, <1>12, <2>1
  <2>3. n \in Nat \ {0} /\ Indices' = Indices \cup {n} /\ n \notin Indices /\ \A k \in Indices : k \in Nat /\ k < n
    BY <1>0, <2>1, <2>2 DEF Indices
  <2>4. \A k \in Indices : calls'[k] = calls[k] /\ PromptOf(k)' = PromptOf(k)
    BY <2>1, <2>2 DEF Indices, PromptOf
  <2>5. Done' = Done
    BY <1>12, <2>2, <2>3, <2>4 DEF Done
  <2>6. Settling' = Settling
    BY <2>4, <2>5 DEF Settling, Done
  <2>7. ASSUME NEW q PROVE SentOf(q)' = IF q = s THEN SentOf(q) \cup {n} ELSE SentOf(q)
    BY <1>12, <2>2, <2>3, <2>4 DEF SentOf
  <2>8. ASSUME NEW q, NEW r
        PROVE  Of(q, r)' = IF q = s /\ r = rev THEN Of(q, r) \cup {n} ELSE Of(q, r)
    <3>1. \A k \in SentOf(q) : calls'[k].request = calls[k].request /\ k # n
      BY <2>3, <2>4 DEF SentOf
    <3>2. calls'[n].request = rev
      BY <1>12, <2>2
    <3>3. Of(q, r)' = {k \in SentOf(q)' : calls'[k].request = r}
      BY DEF Of
    <3> QED
      BY <2>7, <3>1, <3>2, <3>3 DEF Of
  <2> QED
    BY <2>2, <2>3, <2>4, <2>5, <2>6, <2>7, <2>8 DEF Of, SentOf, Done
<1>14. PromptOf(n)' = sends
  BY <1>8, <1>12, <1>13 DEF PromptOf
<1>15. /\ drafts' \in [Sessions -> Stored] /\ (\A q \in Sessions \ {s} : drafts'[q] = drafts[q])
       /\ blocked => drafts' = drafts
       /\ ~blocked => /\ drafts'[s] # NoDraft /\ drafts'[s].text = u.draft /\ drafts'[s].revision = rev
                       /\ drafts'[s].submission = sends
  BY <1>1, <1>4, <1>8, <1>11, WrittenIs
<1>16. ui' \in UiStates /\ ui'.session = s /\ ui'.draft = 0 /\ ui'.revision = rev /\ ui'.submission = n
  BY <1>4, <1>8, <1>11, <1>13 DEF UiStates
<1>17. /\ sent' \in [Sessions -> SUBSET SentNotes] /\ (\A q \in Sessions \ {s} : sent'[q] = sent[q])
       /\ blocked => sent' = sent
       /\ \A x \in sent'[s] : x \in sent[s] \/ (x.request = rev /\ x.items = sends.items)
  <2>1. CASE blocked \/ sends.items = {}
    BY <1>1, <1>11, <2>1 DEF ComposerTyped, Composer!Remembered
  <2>2. CASE ~(blocked \/ sends.items = {})
    <3> DEFINE new == [request |-> rev, items |-> sends.items]
    <3>1. new \in SentNotes /\ new.request = rev /\ new.items = sends.items
      BY <1>4, <1>8 DEF SentNotes
    <3>2. sent' = [sent EXCEPT ![s] = {x \in @ : x.request # rev /\ x.items \cap sends.items # {}} \cup {new}]
      BY <1>11, <2>2 DEF Composer!Remembered
    <3> HIDE DEF new
    <3> QED
      BY <1>1, <2>2, <3>1, <3>2 DEF ComposerTyped
  <2> QED
    BY <2>1, <2>2
<1>18. /\ wrote' \in [Sessions -> Writings] /\ (\A q \in Sessions \ {s} : wrote'[q] = wrote[q])
       /\ wrote'[s].edit = wrote[s].edit /\ wrote[s].edit \in Nat
       /\ u.draft # 0 => wrote' = wrote
       /\ u.draft = 0 => wrote'[s].text = 0
  BY <1>0, <1>1 DEF ComposerTyped, Writings, Composer!Submit, Composer!Blank
<1> HIDE DEF u, here
<1>19. ComposerTyped'
  BY <1>1, <1>2, <1>13, <1>15, <1>16, <1>17, <1>18 DEF ComposerTyped
<1>20. Flags' /\ Bare'
  <2>1. Flags'
    BY <1>1, <1>2 DEF Flags
  <2>2. \A q \in Sessions : wrote'[q].text # 0 => wrote[q].text # 0
    BY <1>18
  <2>3. Bare'
    BY <1>1, <1>2, <1>15, <1>16, <1>17, <2>2, <1>0 DEF Bare
  <2> QED
    BY <2>1, <2>3
<1>21. OneRevision'
  <2>1. ASSUME NEW i \in Indices', NEW k \in Indices', calls'[i].session = calls'[k].session,
               calls'[i].request = calls'[k].request
        PROVE  PromptOf(i)' = PromptOf(k)'
    <3>1. CASE i \in Indices /\ k \in Indices
      BY <1>1, <1>13, <2>1, <3>1 DEF OneRevision
    <3>2. CASE i = n /\ k \in Indices
      BY <1>9, <1>12, <1>13, <1>14, <2>1, <3>2 DEF SentOf
    <3>3. CASE i \in Indices /\ k = n
      BY <1>9, <1>12, <1>13, <1>14, <2>1, <3>3 DEF SentOf
    <3> QED
      BY <1>13, <3>1, <3>2, <3>3
  <2>2. ASSUME NEW i \in Indices' PROVE calls'[i].text # 0 \/ calls'[i].items # {}
    BY <1>1, <1>4, <1>8, <1>12, <1>13 DEF OneRevision
  <2>3. \A i \in Of(s, rev)' : calls'[i].text = u.draft /\ PromptOf(i)' = sends /\ calls'[i].items = sends.items
    <3>1. \A i \in Of(s, rev) : PromptOf(i) = sends /\ PromptOf(i).text = calls[i].text /\ PromptOf(i).items = calls[i].items
      BY <1>9 DEF Of, PromptOf
    <3> QED
      BY <1>8, <1>12, <1>13, <1>14, <3>1
  <2>4. ASSUME NEW q \in Sessions, drafts'[q] # NoDraft, NEW i \in Of(q, drafts[q].revision)'
        PROVE  drafts'[q].text = calls'[i].text /\ drafts'[q].submission = PromptOf(i)'
    <3>1. CASE q = s /\ ~blocked
      BY <1>15, <2>3, <2>4, <3>1
    <3>2. CASE q = s /\ blocked
      BY <1>1, <1>15, <2>4, <3>2 DEF Bare
    <3>3. CASE q # s
      <4>1. drafts'[q] = drafts[q] /\ i \in Of(q, drafts[q].revision) /\ i \in Indices
        BY <1>13, <1>15, <2>4, <3>3
      <4> QED
        BY <1>1, <1>13, <2>4, <4>1 DEF OneRevision
    <3> QED
      BY <3>1, <3>2, <3>3
  <2>5. ASSUME NEW q \in Sessions, NEW x \in sent'[q]
        PROVE  Of(q, x.request)' # {} /\ \A i \in Of(q, x.request)' : calls'[i].items = x.items
    <3>1. CASE x \in sent[q] /\ ~(q = s /\ x.request = rev)
      BY <1>1, <1>13, <3>1 DEF OneRevision
    <3>2. CASE q = s /\ x.request = rev /\ x \in sent[q]
      <4>1. PICK i \in Of(s, rev) : calls[i].items = x.items
        BY <1>1, <3>2 DEF OneRevision
      <4>2. x.items = sends.items
        BY <1>13, <2>3, <4>1
      <4> QED
        BY <1>13, <2>3, <3>2, <4>2
    <3>3. CASE q = s /\ x.request = rev /\ x.items = sends.items
      BY <1>13, <2>3, <3>3
    <3> QED
      BY <1>1, <1>17, <2>5, <3>1, <3>2, <3>3
  <2>6. ui'.submission \in SentOf(ui.session)'
    BY <1>13, <1>16
  <2> QED
    BY <2>1, <2>2, <2>4, <2>5, <2>6 DEF OneRevision
<1>22. RunOnce'
  <2>1. ASSUME NEW i \in Indices'
        PROVE  /\ calls'[i].wire = "received" => Of(calls[i].session, calls[i].request)' \cap Done # {}
               /\ calls'[i].state = "refreshing" => calls'[i].wire \in {"run", "received"}
    <3>1. CASE i = n
      BY <1>12, <1>13, <3>1
    <3>2. CASE i \in Indices
      <4>1. \A q, r : Of(q, r) \subseteq Of(q, r)'
        BY <1>13
      <4> QED
        BY <1>1, <1>13, <3>2, <4>1 DEF RunOnce
    <3> QED
      BY <1>13, <3>1, <3>2
  <2>2. \A i, k \in Done : calls'[i] = calls[i] /\ calls'[k] = calls[k]
    BY <1>13
  <2> QED
    BY <1>1, <1>13, <2>1, <2>2 DEF RunOnce
<1>23. TextSafe'
  <2> SUFFICES ASSUME NEW q \in Sessions, Awaited(q)'
               PROVE  /\ ~blocked => drafts'[q] # NoDraft /\ drafts'[q].text = wrote'[q].text
                      /\ ui'.session = q =>
                           /\ ui'.draft = 0
                           /\ IF ui'.submission = 0 THEN ~blocked ELSE calls'[ui'.submission].text = wrote'[q].text
    BY <1>2 DEF TextSafe
  <2>1. wrote'[q] = wrote[q] /\ (q = s => u.draft # 0)
    BY <1>18 DEF Awaited
  <2>2. Awaited(q)
    BY <1>13, <2>1 DEF Awaited
  <2>3. CASE q = s
    <3>1. ui.session = s /\ ui.draft = u.draft /\ ui.draft # 0
      BY <1>4, <2>1, <2>3
    <3>2. u.draft = wrote[q].text
      BY <1>1, <2>2, <2>3, <3>1 DEF TextSafe
    <3> QED
      BY <1>8, <1>12, <1>13, <1>15, <1>16, <2>1, <2>3, <3>2
  <2>4. CASE q # s
    BY <1>1, <1>15, <1>16, <2>1, <2>2, <2>4 DEF TextSafe
  <2> QED
    BY <2>3, <2>4
<1>24. NotesSafe'
  BY <1>1, <1>2, <1>13 DEF NotesSafe
<1>25. \A k \in Indices : calls[k].session \in Sessions
  BY <1>1, CallTyped
<1>26. LastSafe'
  <2>1. ASSUME NEW k \in Indices' PROVE calls'[k].edit <= edits'
    BY <1>1, <1>2, <1>12, <1>13 DEF LastSafe
  <2>2. ASSUME NEW q \in Sessions PROVE wrote'[q].edit <= edits'
    BY <1>1, <1>2, <1>18 DEF LastSafe
  <2>3. ASSUME ~blocked, NEW i \in Indices', Latest(i)' PROVE LastKept(i)'
    <3>1. CASE i = n
      <4>1. \A k \in SentOf(s) : calls[k].state = "open" => calls[k].request = rev
        <5>1. Composer!Alone(s, rev)
          BY <1>12, <1>13, <2>3, <3>1 DEF Latest
        <5> QED
          BY <5>1 DEF Composer!Alone, SentOf, Indices
      <4>2. \A k \in SentOf(s)' : calls'[k].state = "open" => calls'[k].request = rev
        BY <1>12, <1>13, <4>1
      <4> QED
        BY <1>12, <1>13, <1>15, <1>16, <2>3, <3>1, <4>2 DEF LastKept
    <3>2. CASE i \in Indices
      <4>1. calls'[i] = calls[i]
        BY <1>13, <3>2
      <4>2. Latest(i)
        <5>1. wrote'[calls[i].session].edit = wrote[calls[i].session].edit
          BY <1>18, <1>25, <3>2
        <5>2. \A k \in SentOf(calls[i].session) : k > i => calls[k].request = calls[i].request
          BY <1>13, <2>3, <4>1 DEF Latest
        <5> QED
          BY <2>3, <4>1, <5>1, <5>2 DEF Latest
      <4>3. LastKept(i)
        BY <1>1, <2>3, <3>2, <4>2 DEF LastSafe
      <4>4. CASE calls[i].session = s
        <5>1. calls[i].request = rev
          <6>1. n \in SentOf(s)' /\ n > i
            BY <1>13, <3>2
          <6> QED
            BY <1>12, <1>13, <2>3, <4>1, <4>4, <6>1 DEF Latest
        <5>2. \A k \in SentOf(s)' : calls'[k].state = "open" => calls'[k].request = rev
          BY <1>12, <1>13, <4>3, <4>4, <5>1 DEF LastKept
        <5> QED
          BY <1>15, <1>16, <2>3, <4>1, <4>4, <5>1, <5>2 DEF LastKept
      <4>5. CASE calls[i].session # s
        <5>1. drafts'[calls[i].session] = drafts[calls[i].session]
          BY <1>15, <1>25, <3>2, <4>5
        <5>2. \A k \in SentOf(calls[i].session)' : calls'[k].state = "open" => calls'[k].request = calls[i].request
          BY <1>13, <4>1, <4>3, <4>5 DEF LastKept
        <5> QED
          BY <1>2, <1>16, <4>1, <4>3, <4>5, <5>1, <5>2 DEF LastKept
      <4> QED
        BY <4>4, <4>5
    <3> QED
      BY <1>13, <3>1, <3>2
  <2> QED
    BY <1>2, <2>1, <2>2, <2>3 DEF LastSafe
<1>27. Again'
  <2> SUFFICES ASSUME ~blocked, NEW i \in Indices', NEW j \in Indices', i < j, SameSent(i, j)', calls'[i].alone,
                      \A k \in SentOf(calls[i].session)' : i < k /\ k < j => calls'[k].request = calls'[i].request
               PROVE  calls'[i].request = calls'[j].request
    BY <1>2 DEF Again
  <2>1. i \in Indices /\ calls'[i] = calls[i]
    BY <1>13
  <2>2. CASE j \in Indices
    <3>1. SameSent(i, j)
      BY <1>13, <2>1, <2>2 DEF SameSent
    <3>2. \A k \in SentOf(calls[i].session) : i < k /\ k < j => calls[k].request = calls[i].request
      BY <1>13, <2>1
    <3> QED
      BY <1>1, <1>13, <2>1, <2>2, <3>1, <3>2 DEF Again
  <2>3. CASE j = n
    <3>1. /\ calls[i].session = s /\ calls[i].edit = wrote[s].edit
          /\ calls[i].text = u.draft /\ calls[i].items = here
      BY <1>8, <1>12, <1>13, <2>1, <2>3 DEF SameSent
    <3>2. Latest(i)
      <4>1. \A k \in SentOf(s) : k > i => calls[k].request = calls[i].request
        BY <1>13, <2>1, <2>3, <3>1
      <4> QED
        BY <2>1, <3>1, <4>1 DEF Latest
    <3>3. LastKept(i)
      BY <1>1, <2>1, <3>2 DEF LastSafe
    <3>4. CASE again
      BY <1>5, <1>12, <1>13, <2>1, <2>3, <3>1, <3>3, <3>4 DEF LastKept
    <3>5. CASE ~again
      <4>1. CASE drafts[s] = NoDraft
        <5>1. u.draft = 0
          BY <1>4, <3>1, <3>3, <4>1 DEF LastKept
        <5>2. here # {} /\ notes.session = s /\ here = notes.items
          BY <1>4, <5>1
        <5>3. calls[i].items \cap notes.items = {}
          BY <3>1, <3>3, <4>1, <5>2 DEF LastKept
        <5> QED
          BY <3>1, <5>2, <5>3
      <4>2. CASE drafts[s] # NoDraft
        <5>1. i \in Of(s, drafts[s].revision)
          BY <2>1, <3>1, <3>3, <4>2 DEF LastKept, Of, SentOf
        <5>2. drafts[s].text = calls[i].text /\ drafts[s].submission = PromptOf(i)
          BY <1>1, <4>2, <5>1 DEF OneRevision
        <5>3. [PromptOf(i) EXCEPT !.steer = prompt.steer] = prompt /\ prompt.text = u.draft
          <6>1. calls[i] \in SentCalls
            BY <1>1, <2>1, CallTyped
          <6>2. /\ PromptOf(i) \in Composer!Prompts /\ PromptOf(i).sends = TRUE
                /\ PromptOf(i).text = u.draft /\ PromptOf(i).items = here
            BY <3>1, <6>1 DEF PromptOf, SentCalls, Composer!Prompts
          <6>3. /\ prompt \in Composer!Prompts /\ prompt.sends = TRUE
                /\ prompt.text = u.draft /\ prompt.items = here
            BY <1>4 DEF prompt, Composer!Prompts
          <6> QED
            BY <6>2, <6>3, SteerOnly
        <5>4. again
          BY <3>1, <4>2, <5>2, <5>3 DEF again, Composer!Unchanged, Composer!Saved
        <5> QED
          BY <3>5, <5>4
      <4> QED
        BY <4>1, <4>2
    <3> QED
      BY <3>4, <3>5
  <2> QED
    BY <1>13, <2>2, <2>3
<1>28. Composer!StaysOut
  BY <1>13, <1>16, OutStays
<1> QED
  BY <1>19, <1>20, <1>21, <1>22, <1>23, <1>24, <1>26, <1>27, <1>28 DEF ComposerInv

\* What a commit of the page takes out of the composer and of the storage has run.
LEMMA CommitKeeps ==
    ASSUME ComposerInv, NEW s \in Sessions, NEW state \in UiStates, NEW items \in NoteStates,
           Composer!Commit(s, state, items), UNCHANGED <<blocked, calls, edits, attached>>,
           restoring' \in BOOLEAN, displayed' \in Sessions,
           \/ state = ui
           \/ /\ state.session = s /\ state.submission = 0
              /\ IF drafts[s] = NoDraft THEN state.draft = 0
                 ELSE state.draft = drafts[s].text /\ state.revision = drafts[s].revision,
           \/ items = notes
           \/ items.session = s /\ items.items = kept[s],
           wrote' \in [Sessions -> Writings],
           \A q \in Sessions :
               /\ wrote'[q].edit = wrote[q].edit
               /\ wrote'[q].text \in {0, wrote[q].text}
               /\ blocked /\ wrote'[q].text # 0 => state = ui /\ ui.session = q /\ displayed' = q
    PROVE  ComposerInv' /\ Composer!StaysOut
<1>1. /\ ComposerTyped /\ Flags /\ Bare /\ OneRevision /\ RunOnce /\ TextSafe /\ NotesSafe /\ LastSafe /\ Again
  BY DEF ComposerInv
<1> DEFINE over == Composer!Over(s)
           done == {x \in sent[s] : Composer!Receipt(s, x.request)}
           gone == (UNION {x.items : x \in done})
                   \cup (IF over THEN drafts[s].submission.items ELSE {})
<1>2. ASSUME NEW rev PROVE Composer!Receipt(s, rev) <=> Of(s, rev) \cap Done # {}
  BY DEF Composer!Receipt, Composer!Ran, Of, SentOf, Done, Indices
<1>3. over <=> /\ ~blocked /\ drafts[s] # NoDraft
               /\ Of(s, drafts[s].revision) \cap Done # {}
  BY <1>2 DEF Composer!Over, Composer!Saved, Composer!SavedRevision
<1>4. drafts[s] # NoDraft => /\ drafts[s].revision \in Nat \ {0} /\ drafts[s].text \in Nat
                             /\ drafts[s].submission.items \subseteq Annotations
  BY <1>1 DEF ComposerTyped, Stored, Composer!Prompts
<1>5. /\ drafts' = IF over THEN Composer!Cleared(s, drafts[s].revision) ELSE drafts
      /\ ui' = IF over THEN Composer!ClearedUi(state, s, drafts[s].revision) ELSE state
      /\ notes' = Composer!Detach(items, s, gone)
      /\ kept' = Composer!Keep(s, kept[s] \ gone)
      /\ sent' = [sent EXCEPT ![s] = @ \ done]
  <2>1. over => Composer!SavedRevision(s) = drafts[s].revision
    BY <1>3 DEF Composer!SavedRevision, Composer!Saved
  <2> QED
    BY <2>1 DEF Composer!Commit
<1>6. gone \subseteq Settling
  <2>1. ASSUME NEW x \in done PROVE x.items \subseteq Settling
    <3>1. PICK i \in Of(s, x.request) : i \in Done
      BY <1>2, <2>1
    <3>2. x.items = calls[i].items
      BY <1>1, <2>1, <3>1 DEF OneRevision
    <3> QED
      BY <3>1, <3>2 DEF Settling
  <2>2. ASSUME over PROVE drafts[s].submission.items \subseteq Settling
    <3>1. PICK i \in Of(s, drafts[s].revision) : i \in Done
      BY <1>3, <2>2
    <3>2. drafts[s].submission = PromptOf(i)
      BY <1>1, <1>3, <2>2, <3>1 DEF OneRevision
    <3>3. drafts[s].submission.items = calls[i].items
      BY <3>2 DEF PromptOf
    <3> QED
      BY <3>1, <3>3 DEF Settling
  <2> QED
    BY <2>1, <2>2
<1>7. over => drafts[s].submission.items \subseteq gone
  OBVIOUS
<1>8. done \subseteq sent[s]
  OBVIOUS
<1>9. ASSUME over, NEW i \in Of(s, drafts[s].revision)
      PROVE  drafts[s].text = calls[i].text /\ drafts[s].submission.items = calls[i].items
  <2>1. drafts[s].text = calls[i].text /\ drafts[s].submission = PromptOf(i)
    BY <1>1, <1>3, <1>9 DEF OneRevision
  <2> QED
    BY <2>1 DEF PromptOf
<1> HIDE DEF over, done, gone
<1>10. /\ drafts' \in [Sessions -> Stored] /\ \A q \in Sessions \ {s} : drafts'[q] = drafts[q]
       /\ drafts'[s] = IF over THEN NoDraft ELSE drafts[s]
  BY <1>1, <1>3, <1>4, <1>5, ClearedIs DEF ComposerTyped
<1>11. /\ ui' \in UiStates /\ ui'.session = state.session /\ ui'.submission = state.submission
       /\ IF over /\ state.session = s /\ state.revision = drafts[s].revision THEN ui'.draft = 0 ELSE ui' = state
  BY <1>3, <1>5 DEF Composer!ClearedUi, UiStates, Composer!Blank, Composer!SavedRevision, Composer!Saved
<1>12. /\ notes' \in NoteStates /\ notes'.session = items.session
       /\ notes'.items = IF items.session = s THEN items.items \ gone ELSE items.items
  BY <1>5 DEF Composer!Detach, NoteStates
<1>13. /\ kept' \in [Sessions -> SUBSET Annotations] /\ \A q \in Sessions \ {s} : kept'[q] = kept[q]
       /\ blocked => kept' = kept
       /\ ~blocked => kept'[s] = kept[s] \ gone
  <2>1. kept[s] \ gone \in SUBSET Annotations
    BY <1>1 DEF ComposerTyped
  <2> QED
    BY <1>1, <1>5, <2>1, KeepIs
<1>14. sent' \in [Sessions -> SUBSET SentNotes] /\ \A q \in Sessions : sent'[q] \subseteq sent[q]
  BY <1>1, <1>5 DEF ComposerTyped
<1>15. Same /\ Indices' = Indices /\ Done' = Done /\ Settling' = Settling
       /\ \A q : SentOf(q)' = SentOf(q) /\ \A rev : Of(q, rev)' = Of(q, rev)
  BY DEF Same, Indices, Done, Settling, SentOf, Of
<1>16. ComposerTyped'
  BY <1>1, <1>10, <1>11, <1>12, <1>13, <1>14 DEF ComposerTyped
<1>17. Flags' /\ Bare'
  <2>1. Flags'
    BY <1>1 DEF Flags
  <2>2. Bare'
    BY <1>1, <1>3, <1>10, <1>11, <1>13, <1>14 DEF Bare
  <2> QED
    BY <2>1, <2>2
<1>18. OneRevision'
  <2>1. \A q \in Sessions : drafts'[q] = drafts[q] \/ drafts'[q] = NoDraft
    BY <1>10
  <2>2. ui'.submission # 0 => ui'.submission = ui.submission /\ ui'.session = ui.session
    BY <1>11
  <2> QED
    BY <1>1, <1>14, <1>15, <2>1, <2>2, RevisionKeep
<1>19. RunOnce'
  BY <1>1, <1>15 DEF RunOnce
<1>20. TextSafe'
  <2> SUFFICES ASSUME NEW q \in Sessions, Awaited(q)'
               PROVE  /\ ~blocked => drafts'[q] # NoDraft /\ drafts'[q].text = wrote'[q].text
                      /\ ui'.session = q =>
                           \/ ui'.draft = wrote'[q].text
                           \/ /\ ui'.draft = 0
                              /\ IF ui'.submission = 0 THEN ~blocked ELSE calls[ui'.submission].text = wrote'[q].text
    BY DEF TextSafe
  <2>1. wrote'[q].text = wrote[q].text /\ wrote'[q].text # 0
    BY DEF Awaited
  <2>2. Awaited(q)
    BY <1>15, <2>1 DEF Awaited
  <2>3. ~(over /\ q = s)
    <3> SUFFICES ASSUME over, q = s PROVE FALSE
      OBVIOUS
    <3>1. PICK i \in Of(s, drafts[s].revision) : i \in Done
      BY <1>3
    <3>2. calls[i].text = wrote[s].text /\ calls[i].session = s
      BY <1>1, <1>3, <1>9, <2>2, <3>1 DEF TextSafe, Of, SentOf
    <3> QED
      BY <2>2, <3>1, <3>2 DEF Awaited
  <2>4. drafts'[q] = drafts[q] /\ (ui'.session = q => ui' = state)
    BY <1>10, <1>11, <2>3
  <2>5. CASE state = ui
    BY <1>1, <2>1, <2>2, <2>4, <2>5 DEF TextSafe
  <2>6. CASE state # ui
    BY <1>1, <2>1, <2>2, <2>4, <2>6 DEF TextSafe
  <2> QED
    BY <2>5, <2>6
<1>21. NotesSafe'
  <2>1. notes'.session = None => notes'.items = {}
    <3>1. notes'.session = None => items.session = None /\ None # s
      BY <1>12, SessionIsNone
    <3>2. notes'.session = None => items = notes /\ notes.session = None
      BY <3>1
    <3>3. notes.session = None => notes.items = {}
      BY <1>1 DEF NotesSafe
    <3> QED
      BY <1>12, <3>1, <3>2, <3>3
  <2>2. ASSUME ~blocked, NEW q \in Sessions
        PROVE  /\ attached[q] \ Settling \subseteq kept'[q]
               /\ notes'.session = q => attached[q] \ Settling \subseteq notes'.items
    BY <1>1, <1>6, <1>12, <1>13, <2>2 DEF NotesSafe
  <2> QED
    BY <1>15, <2>1, <2>2 DEF NotesSafe
<1>22. LastSafe'
  <2>1. /\ \A i \in Indices : calls[i].edit <= edits
        /\ \A q \in Sessions : wrote'[q].edit <= edits
    BY <1>1 DEF LastSafe
  <2>2. ASSUME NEW j \in Indices, Latest(j)' PROVE Latest(j)
    BY <1>1, <1>15, <2>2, CallTyped DEF Latest
  <2>3. ASSUME ~blocked, NEW j \in Indices, LastKept(j) PROVE LastKept(j)'
    <3> DEFINE q == calls[j].session
    <3>1. q \in Sessions /\ j \in Of(q, calls[j].request)
      BY <1>1, CallTyped DEF Of, SentOf
    <3>2. drafts[q] # NoDraft => drafts[q].revision = calls[j].request
      BY <2>3 DEF LastKept
    <3>3. drafts'[q] # NoDraft => drafts'[q].revision = calls[j].request
      BY <1>10, <3>1, <3>2
    <3>4. ui'.session = q /\ ui'.draft # 0 => drafts'[q] # NoDraft /\ ui'.revision = calls[j].request
      <4> SUFFICES ASSUME ui'.session = q, ui'.draft # 0
                   PROVE  drafts'[q] # NoDraft /\ ui'.revision = calls[j].request
        OBVIOUS
      <4>1. ui' = state
        BY <1>11
      <4>2. drafts[q] # NoDraft /\ state.revision = calls[j].request
        <5>1. CASE state = ui
          BY <2>3, <4>1, <5>1 DEF LastKept
        <5>2. CASE state # ui
          BY <3>2, <4>1, <5>2
        <5> QED
          BY <5>1, <5>2
      <4>3. ~(q = s /\ over)
        BY <1>11, <3>2, <4>1, <4>2
      <4> QED
        BY <1>10, <3>1, <4>1, <4>2, <4>3
    <3>5. drafts'[q] = NoDraft => /\ calls[j].items \cap kept'[q] = {}
                                  /\ notes'.session = q => calls[j].items \cap notes'.items = {}
      <4>1. CASE drafts[q] = NoDraft
        BY <1>12, <1>13, <2>3, <3>1, <4>1 DEF LastKept
      <4>2. CASE drafts[q] # NoDraft /\ drafts'[q] = NoDraft
        <5>1. q = s /\ over
          BY <1>10, <3>1, <4>2
        <5>2. calls[j].items \subseteq gone
          BY <1>7, <1>9, <3>1, <3>2, <4>2, <5>1
        <5> QED
          BY <1>12, <1>13, <2>3, <5>1, <5>2
      <4> QED
        BY <4>1, <4>2
    <3>6. \A k \in SentOf(q) : calls[k].state = "open" => calls[k].request = calls[j].request
      BY <2>3 DEF LastKept
    <3> QED
      BY <1>15, <3>3, <3>4, <3>5, <3>6 DEF LastKept
  <2> QED
    BY <1>1, <1>15, <2>1, <2>2, <2>3 DEF LastSafe
<1>23. Again'
  BY <1>1, <1>15 DEF Again, SameSent
<1>24. Composer!StaysOut
  <2> SUFFICES ASSUME NEW i \in Done, ui'.session = calls[i].session, ui'.draft # 0, ui'.revision = calls[i].request
               PROVE  ui.session = ui'.session /\ ui.draft # 0 /\ ui.revision = ui'.revision
    BY OutStays
  <2>1. ui' = state
    BY <1>11
  <2>2. CASE state = ui
    BY <2>1, <2>2
  <2>3. CASE state # ui
    <3>1. /\ calls[i].session = s /\ drafts[s] # NoDraft /\ drafts[s].revision = calls[i].request
          /\ state.session = s /\ state.revision = drafts[s].revision
      BY <2>1, <2>3
    <3>2. i \in Of(s, drafts[s].revision)
      BY <3>1 DEF Of, SentOf, Done
    <3>3. ~blocked
      BY <1>1, <3>1 DEF Bare
    <3>4. over
      BY <1>3, <3>1, <3>2, <3>3
    <3> QED
      BY <1>11, <3>1, <3>4
  <2> QED
    BY <2>2, <2>3
<1> QED
  BY <1>16, <1>17, <1>18, <1>19, <1>20, <1>21, <1>22, <1>23, <1>24 DEF ComposerInv

\* What the composer shows of a session that was not shown.
LEMMA RestoredIs ==
    ASSUME ComposerInv, NEW s \in Sessions, restoring' \in BOOLEAN
    PROVE  LET state == Composer!Restored(s)
               items == Composer!RestoredNotes(s)
           IN /\ state \in UiStates /\ items \in NoteStates
              /\ \/ state = ui
                 \/ /\ state.session = s /\ state.submission = 0 /\ ui.session # s
                    /\ IF drafts[s] = NoDraft THEN state.draft = 0
                       ELSE state.draft = drafts[s].text /\ state.revision = drafts[s].revision
              /\ \/ items = notes
                 \/ items.session = s /\ items.items = kept[s]
<1>1. /\ ui \in UiStates /\ notes \in NoteStates /\ kept[s] \in SUBSET Annotations
      /\ blocked => drafts[s] = NoDraft /\ kept[s] = {}
      /\ drafts[s] # NoDraft => drafts[s].text \in Nat /\ drafts[s].revision \in Nat
  BY DEF ComposerInv, ComposerTyped, Bare, Stored
<1>2. Composer!Saved(s) = drafts[s]
  BY <1>1 DEF Composer!Saved
<1>3. Composer!EmptyUi(s) = [session |-> s, draft |-> 0, revision |-> 0, submission |-> 0]
  BY DEF Composer!EmptyUi, Composer!Blank
<1>4. /\ Composer!EmptyUi(s) \in UiStates /\ Composer!EmptyUi(s).session = s
      /\ Composer!EmptyUi(s).draft = 0 /\ Composer!EmptyUi(s).submission = 0
  BY <1>3 DEF UiStates
<1> DEFINE state == Composer!Restored(s)
           items == Composer!RestoredNotes(s)
<1>5. CASE restoring' \/ ui.session = s
  <2>1. state = ui
    BY <1>5 DEF Composer!Restored
  <2> HIDE DEF state
  <2>2. items \in NoteStates /\ (items = notes \/ (items.session = s /\ items.items = kept[s]))
    BY <1>1 DEF Composer!RestoredNotes, NoteStates
  <2> QED
    BY <1>1, <2>1, <2>2 DEF state
<1>6. CASE ~(restoring' \/ ui.session = s)
  <2>1. drafts[s] = NoDraft => state = Composer!EmptyUi(s)
    BY <1>2, <1>6 DEF Composer!Restored
  <2>2. drafts[s] # NoDraft =>
          state = [Composer!EmptyUi(s) EXCEPT !.draft = drafts[s].text, !.revision = drafts[s].revision]
    BY <1>2, <1>6 DEF Composer!Restored
  <2> HIDE DEF state
  <2>3. drafts[s] # NoDraft =>
          /\ state \in UiStates /\ state.session = s /\ state.submission = 0
          /\ state.draft = drafts[s].text /\ state.revision = drafts[s].revision
    BY <1>1, <1>4, <2>2 DEF UiStates
  <2>4. items \in NoteStates /\ (items = notes \/ (items.session = s /\ items.items = kept[s]))
    BY <1>1 DEF Composer!RestoredNotes, NoteStates
  <2> HIDE DEF items
  <2> QED
    BY <1>4, <1>6, <2>1, <2>3, <2>4 DEF state, items
<1> QED
  BY <1>5, <1>6

\* Without storage the texts that are not in the composer are not expected to come back.
LEMMA ExpectedIs ==
    ASSUME ComposerTyped
    PROVE  /\ Composer!Expected \in [Sessions -> Writings]
           /\ \A q \in Sessions : /\ Composer!Expected[q].edit = wrote[q].edit
                                  /\ Composer!Expected[q].text = IF blocked THEN 0 ELSE wrote[q].text
BY DEF ComposerTyped, Composer!Expected, Composer!Blank, Writings

LEMMA ShowKeeps ==
    ASSUME ComposerInv, NEW s \in Sessions,
           Composer!Show(s) \/ (s = displayed /\ (Composer!RestoreEnds \/ Composer!Refresh))
    PROVE  ComposerInv' /\ Composer!StaysOut
<1>1. ComposerTyped /\ Flags /\ Bare /\ restoring' \in BOOLEAN
  BY DEF ComposerInv, Flags, Composer!Show, Composer!RestoreEnds, Composer!Refresh
<1>2. ui \in UiStates /\ notes \in NoteStates /\ wrote \in [Sessions -> Writings]
  BY <1>1 DEF ComposerTyped
<1>3. CASE Composer!Show(s)
  <2> DEFINE state == Composer!Restored(s)
             items == Composer!RestoredNotes(s)
  <2>1. /\ displayed' = s /\ Composer!Commit(s, state, items) /\ wrote' = Composer!Expected
        /\ UNCHANGED <<blocked, calls, edits, attached>>
    BY <1>3 DEF Composer!Show
  <2>2. /\ wrote' \in [Sessions -> Writings]
        /\ \A q \in Sessions : /\ wrote'[q].edit = wrote[q].edit
                                /\ wrote'[q].text = IF blocked THEN 0 ELSE wrote[q].text
    BY <1>1, <2>1, ExpectedIs
  <2>3. /\ state \in UiStates /\ items \in NoteStates
        /\ \/ state = ui
           \/ /\ state.session = s /\ state.submission = 0
              /\ IF drafts[s] = NoDraft THEN state.draft = 0
                 ELSE state.draft = drafts[s].text /\ state.revision = drafts[s].revision
        /\ \/ items = notes
           \/ items.session = s /\ items.items = kept[s]
    BY <1>1, RestoredIs
  <2> HIDE DEF state, items
  <2> QED
    BY <1>1, <2>1, <2>2, <2>3, CommitKeeps
<1>4. CASE s = displayed /\ Composer!RestoreEnds
  <2> DEFINE state == Composer!Restored(s)
             items == Composer!RestoredNotes(s)
  <2>1. /\ displayed' = s /\ Composer!Commit(s, state, items)
        /\ UNCHANGED <<blocked, calls, edits, attached, wrote>>
    BY <1>4 DEF Composer!RestoreEnds, Composer!history
  <2>2. /\ state \in UiStates /\ items \in NoteStates
        /\ \/ state = ui
           \/ /\ state.session = s /\ state.submission = 0 /\ ui.session # s
              /\ IF drafts[s] = NoDraft THEN state.draft = 0
                 ELSE state.draft = drafts[s].text /\ state.revision = drafts[s].revision
        /\ \/ items = notes
           \/ items.session = s /\ items.items = kept[s]
    BY <1>1, RestoredIs
  <2> HIDE DEF state, items
  <2>3. \A q \in Sessions : blocked /\ wrote'[q].text # 0 => state = ui /\ ui.session = q /\ displayed' = q
    BY <1>1, <1>4, <2>1, <2>2 DEF Bare
  <2> QED
    BY <1>1, <1>2, <2>1, <2>2, <2>3, CommitKeeps
<1>5. CASE s = displayed /\ Composer!Refresh
  <2>1. /\ displayed' = s /\ Composer!Commit(s, ui, notes)
        /\ UNCHANGED <<blocked, calls, edits, attached, wrote>>
    BY <1>5 DEF Composer!Refresh, Composer!history
  <2>2. \A q \in Sessions : blocked /\ wrote'[q].text # 0 => ui.session = q /\ displayed' = q
    BY <1>1, <1>5, <2>1 DEF Bare
  <2> QED
    BY <1>1, <1>2, <2>1, <2>2, CommitKeeps
<1> QED
  BY <1>3, <1>4, <1>5

\* The page is loaded again.
LEMMA ReloadKeeps == ASSUME ComposerInv, Composer!Reload PROVE ComposerInv' /\ Composer!StaysOut
<1>1. /\ ComposerTyped /\ Flags /\ Bare /\ OneRevision /\ RunOnce /\ TextSafe /\ NotesSafe /\ LastSafe /\ Again
  BY DEF ComposerInv
<1>2. /\ UNCHANGED <<blocked, drafts, kept, sent, edits, attached>>
      /\ displayed' = None /\ restoring' \in BOOLEAN
      /\ ui' = [session |-> None, draft |-> 0, revision |-> 0, submission |-> 0]
      /\ notes' = [session |-> None, items |-> {}]
      /\ calls' = [i \in Indices |-> [calls[i] EXCEPT !.state = "over"]] /\ wrote' = Composer!Expected
  BY DEF Composer!Reload, Composer!storage, Composer!EmptyUi, Composer!EmptyNotes, Composer!Blank, Indices
<1>3. /\ wrote' \in [Sessions -> Writings]
      /\ \A q \in Sessions : /\ wrote'[q].edit = wrote[q].edit
                              /\ wrote'[q].text = IF blocked THEN 0 ELSE wrote[q].text
  BY <1>1, <1>2, ExpectedIs
<1>4. /\ calls \in Seq(SentCalls) /\ Indices = 1..Len(calls) /\ Len(calls) \in Nat
      /\ \A i \in Indices : calls[i] \in SentCalls
  BY <1>1, CallTyped DEF ComposerTyped, Indices
<1>5. \A i \in Indices :
        /\ calls'[i] \in SentCalls /\ calls'[i].state = "over" /\ calls'[i].wire = calls[i].wire
        /\ calls'[i].session = calls[i].session /\ calls'[i].request = calls[i].request
        /\ calls'[i].text = calls[i].text /\ calls'[i].items = calls[i].items
        /\ calls'[i].steer = calls[i].steer /\ calls'[i].edit = calls[i].edit
        /\ calls'[i].alone = calls[i].alone
  BY <1>2, <1>4 DEF SentCalls
<1>6. calls' \in Seq(SentCalls) /\ Len(calls') = Len(calls) /\ DOMAIN calls' = Indices
  <2>1. calls' \in [1..Len(calls) -> SentCalls]
    BY <1>2, <1>4, <1>5
  <2>2. calls' \in Seq(SentCalls)
    BY <1>4, <2>1, SeqDef
  <2> QED
    BY <1>4, <2>1, <2>2
<1>7. Same /\ Indices' = Indices
  BY <1>5, <1>6 DEF Same, Indices
<1>8. /\ \A q : SentOf(q)' = SentOf(q) /\ \A rev : Of(q, rev)' = Of(q, rev)
      /\ \A q, rev : Of(q, rev) \subseteq SentOf(q) /\ SentOf(q) \subseteq Indices
      /\ Done' = Done /\ Done \subseteq Indices
  BY <1>5, <1>7, SameSets DEF Done, Of, SentOf
<1>9. Settling' = Settling
  BY <1>5, <1>8 DEF Settling
<1>10. ComposerTyped'
  BY <1>1, <1>2, <1>3, <1>6 DEF ComposerTyped, UiStates, NoteStates
<1>11. Flags' /\ Bare'
  BY <1>1, <1>2, <1>3 DEF Flags, Bare
<1>12. OneRevision'
  BY <1>1, <1>2, <1>7, RevisionKeep
<1>13. RunOnce'
  BY <1>1, <1>5, <1>7, <1>8 DEF RunOnce
<1>14. TextSafe'
  <2>1. \A q \in Sessions : Awaited(q)' => Awaited(q) /\ wrote'[q].text = wrote[q].text /\ ~blocked
    BY <1>3, <1>5, <1>8 DEF Awaited
  <2> QED
    BY <1>1, <1>2, <2>1, SessionIsNone DEF TextSafe
<1>15. NotesSafe'
  BY <1>1, <1>2, <1>9, SessionIsNone DEF NotesSafe
<1>16. Again' /\ LastSafe'
  <2>1. Again'
    <3>1. \A i, j \in Indices : SameSent(i, j)' <=> SameSent(i, j)
      BY <1>5, <1>7 DEF SameSent
    <3>2. \A i \in Indices : /\ SentOf(calls[i].session)' = SentOf(calls[i].session)
                            /\ \A k \in SentOf(calls[i].session) : calls'[k].request = calls[k].request
      BY <1>5, <1>8
    <3> SUFFICES ASSUME ~blocked', NEW i \in Indices', NEW j \in Indices', i < j, SameSent(i, j)', calls'[i].alone,
                        \A k \in SentOf(calls[i].session)' : i < k /\ k < j => calls'[k].request = calls'[i].request
                 PROVE  calls'[i].request = calls'[j].request
      BY DEF Again
    <3>3. /\ ~blocked /\ i \in Indices /\ j \in Indices /\ SameSent(i, j) /\ calls[i].alone
          /\ calls'[i].session = calls[i].session /\ calls'[i].request = calls[i].request
          /\ calls'[j].request = calls[j].request
      BY <1>2, <1>5, <1>7, <3>1
    <3>4. \A k \in SentOf(calls[i].session) : i < k /\ k < j => calls[k].request = calls[i].request
      BY <1>8, <3>2, <3>3
    <3> QED
      BY <1>1, <3>3, <3>4 DEF Again
  <2>2. ASSUME NEW j \in Indices, Latest(j)' PROVE Latest(j)
    <3>1. calls[j].session \in Sessions
      BY <1>1, CallTyped
    <3>2. /\ calls'[j].session = calls[j].session /\ calls'[j].edit = calls[j].edit
          /\ calls'[j].alone = calls[j].alone /\ calls'[j].request = calls[j].request
          /\ wrote'[calls[j].session].edit = wrote[calls[j].session].edit
          /\ \A k \in SentOf(calls[j].session) : calls'[k].request = calls[k].request
          /\ SentOf(calls[j].session)' = SentOf(calls[j].session)
      BY <1>3, <1>5, <1>8, <3>1
    <3> QED
      BY <2>2, <3>2 DEF Latest
  <2>3. ASSUME NEW j \in Indices, LastKept(j) PROVE LastKept(j)'
    <3>1. calls[j].session \in Sessions
      BY <1>1, CallTyped
    <3> QED
      BY <1>2, <1>5, <1>8, <2>3, <3>1, SessionIsNone DEF LastKept
  <2>4. /\ \A i \in Indices : calls'[i].edit <= edits
        /\ \A q \in Sessions : wrote'[q].edit <= edits
    BY <1>1, <1>3, <1>5 DEF LastSafe
  <2> QED
    BY <1>1, <1>2, <1>7, <2>1, <2>2, <2>3, <2>4 DEF LastSafe
<1>17. Composer!StaysOut
  BY <1>2, <1>5, OutStays
<1> QED
  BY <1>10, <1>11, <1>12, <1>13, <1>14, <1>15, <1>16, <1>17 DEF ComposerInv

-----------------------------------------------------------------------------
pageVars == <<part, vars, composer>>

LEMMA ComposerStutters == ASSUME ComposerInv, UNCHANGED composer PROVE ComposerInv'
<1>1. /\ ComposerTyped /\ Flags /\ Bare /\ OneRevision /\ RunOnce /\ TextSafe /\ NotesSafe /\ LastSafe /\ Again
  BY DEF ComposerInv
<1>2. UNCHANGED <<displayed, restoring, ui, notes, blocked, drafts, kept, sent, calls, reloads, edits, wrote, attached>>
  BY DEF composer
<1>3. /\ Indices' = Indices /\ Done' = Done /\ Settling' = Settling
      /\ (\A q : SentOf(q)' = SentOf(q)) /\ (\A q, rev : Of(q, rev)' = Of(q, rev))
      /\ (\A i : PromptOf(i)' = PromptOf(i)) /\ (\A i, j : SameSent(i, j)' <=> SameSent(i, j))
      /\ (\A i : Latest(i)' <=> Latest(i)) /\ (\A i : LastKept(i)' <=> LastKept(i))
      /\ (\A q : Awaited(q)' <=> Awaited(q))
  <2>1. Indices' = Indices /\ Done' = Done /\ Settling' = Settling
    BY <1>2 DEF Indices, Done, Settling
  <2>2. (\A q : SentOf(q)' = SentOf(q)) /\ (\A q, rev : Of(q, rev)' = Of(q, rev))
    BY <1>2 DEF Indices, SentOf, Of
  <2>3. (\A i : PromptOf(i)' = PromptOf(i)) /\ (\A i, j : SameSent(i, j)' <=> SameSent(i, j))
    BY <1>2 DEF PromptOf, SameSent
  <2>4. \A i : Latest(i)' <=> Latest(i)
    BY <1>2, <2>2 DEF Latest
  <2>5. \A i : LastKept(i)' <=> LastKept(i)
    BY <1>2, <2>2 DEF LastKept
  <2>6. \A q : Awaited(q)' <=> Awaited(q)
    BY <1>2, <2>1 DEF Awaited
  <2> QED
    BY <2>1, <2>2, <2>3, <2>4, <2>5, <2>6
<1>4. ComposerTyped' /\ Flags' /\ Bare'
  BY <1>1, <1>2 DEF ComposerTyped, Flags, Bare
<1>5. OneRevision' /\ RunOnce'
  BY <1>1, <1>2, <1>3 DEF OneRevision, RunOnce
<1>6. TextSafe'
  BY <1>1, <1>2, <1>3 DEF TextSafe
<1>7. NotesSafe'
  BY <1>1, <1>2, <1>3 DEF NotesSafe
<1>8. LastSafe'
  BY <1>1, <1>2, <1>3 DEF LastSafe
<1>9. Again'
  BY <1>1, <1>2, <1>3 DEF Again
<1> QED
  BY <1>4, <1>5, <1>6, <1>7, <1>8, <1>9 DEF ComposerInv

LEMMA ComposerSteps == ASSUME ComposerInv, Composer!Next PROVE ComposerInv' /\ Composer!StaysOut
<1>1. CASE Composer!Type
  BY <1>1, TypeKeeps
<1>2. CASE Composer!Submit
  BY <1>2, SubmitKeeps
<1>3. CASE Composer!RestoreEnds \/ Composer!Refresh
  <2>1. displayed \in Sessions
    BY <1>3 DEF ComposerInv, ComposerTyped, Composer!RestoreEnds, Composer!Refresh
  <2> QED
    BY <1>3, <2>1, ShowKeeps
<1>4. CASE Composer!Reload
  BY <1>4, ReloadKeeps
<1>5. CASE \E a \in Annotations : Composer!Attach(a) \/ Composer!TakeBack(a)
  BY <1>5, NotesKeep
<1>6. ASSUME NEW i \in DOMAIN calls, Composer!Arrive(i) \/ Composer!Accepted(i) \/ Composer!Settled(i) \/ Composer!Rejected(i)
      PROVE  ComposerInv' /\ Composer!StaysOut
  <2>1. i \in Indices
    BY DEF Indices
  <2> QED
    BY <1>6, <2>1, ArriveKeeps, AcceptedKeeps, SettledKeeps, RejectedKeeps
<1>7. CASE \E s \in Sessions : Composer!Show(s)
  BY <1>7, ShowKeeps
<1> QED
  BY <1>1, <1>2, <1>3, <1>4, <1>5, <1>6, <1>7 DEF Composer!Next

\* Every state of the page.
THEOREM ComposerIsSound == PageSpec => []ComposerInv
<1>1. PageInit => ComposerInv
  BY ComposerStarts DEF PageInit
<1>2. ASSUME ComposerInv, [PageNext]_pageVars PROVE ComposerInv'
  <2>1. CASE Composer!Next
    BY <1>2, <2>1, ComposerSteps
  <2>2. CASE UNCHANGED composer
    BY <1>2, <2>2, ComposerStutters
  <2> QED
    BY <1>2, <2>1, <2>2 DEF PageNext, pageVars
<1> QED
  BY <1>1, <1>2, PTL DEF PageSpec, pageVars

\* A prompt that is sent again because its answer was lost runs once.
THEOREM PromptsRunOnce == PageSpec => []SentOnce
<1>1. ASSUME ComposerInv PROVE SentOnce
  <2> SUFFICES ASSUME ~blocked, NEW j \in DOMAIN calls, NEW i \in 1 .. j - 1,
                      Composer!Ran(i), Composer!Ran(j), SameSent(i, j), calls[i].alone,
                      ~ \E k \in i + 1 .. j - 1 : calls[k].session = calls[i].session
                                                  /\ calls[k].request # calls[i].request
               PROVE  FALSE
    BY DEF SentOnce, Composer!SentOnce, SameSent
  <2>1. DOMAIN calls = 1 .. Len(calls) /\ Len(calls) \in Nat
    BY <1>1 DEF ComposerInv, ComposerTyped
  <2>2. i \in Indices /\ j \in Indices /\ i < j /\ i \in Nat /\ j \in Nat
    BY <2>1 DEF Indices
  <2>3. \A k \in SentOf(calls[i].session) : i < k /\ k < j => calls[k].request = calls[i].request
    BY <2>1, <2>2 DEF SentOf, Indices
  <2>4. calls[i].request = calls[j].request /\ calls[i].session = calls[j].session
    BY <1>1, <2>2, <2>3 DEF ComposerInv, Again, SameSent
  <2>5. i \in Done /\ j \in Done
    BY <2>2 DEF Composer!Ran, Done
  <2> QED
    BY <1>1, <2>2, <2>4, <2>5 DEF ComposerInv, RunOnce
<1> QED
  BY <1>1, ComposerIsSound, PTL

LEMMA WritingsAreKept ==
    ASSUME ComposerInv PROVE \A s \in Sessions : Composer!TextKept(s) /\ Composer!NotesKept(s)
<1> SUFFICES ASSUME NEW s \in Sessions PROVE Composer!TextKept(s) /\ Composer!NotesKept(s)
  OBVIOUS
<1>1. TextSafe /\ NotesSafe /\ OneRevision
  BY DEF ComposerInv
<1>2. Composer!TextKept(s)
  <2> SUFFICES ASSUME wrote[s].text # 0,
                      ~ \E i \in DOMAIN calls : /\ Composer!Ran(i) /\ calls[i].session = s
                                                /\ calls[i].text = wrote[s].text
               PROVE  IF blocked
                      THEN ui.session = s =>
                             \/ ui.draft = wrote[s].text
                             \/ ui.submission # 0 /\ calls[ui.submission].session = s
                                                  /\ calls[ui.submission].text = wrote[s].text
                      ELSE drafts[s] # NoDraft /\ drafts[s].text = wrote[s].text
    BY DEF Composer!TextKept, Composer!Blank
  <2>1. Awaited(s)
    BY DEF Awaited, Done, Indices, Composer!Ran
  <2>2. ui.submission # 0 => calls[ui.submission].session = ui.session
    BY <1>1 DEF OneRevision, SentOf
  <2> QED
    BY <1>1, <2>1, <2>2 DEF TextSafe
<1>3. Composer!NotesKept(s)
  BY <1>1 DEF NotesSafe, Composer!NotesKept, Settling, Done, Indices, Composer!Ran
<1> QED
  BY <1>2, <1>3

\* What the user wrote is kept until it is accepted, and then it is gone.
THEOREM WritingIsKept == PageSpec => DraftsKept
<1> DEFINE Kept == \A s \in Sessions : Composer!TextKept(s) /\ Composer!NotesKept(s)
<1>1. ComposerInv => Kept
  BY WritingsAreKept
<1>2. ASSUME ComposerInv, Kept', [PageNext]_pageVars
      PROVE  [(\A s \in Sessions : Composer!TextKept(s)' /\ Composer!NotesKept(s)') /\ Composer!StaysOut]_(Composer!composerVars)
  <2>1. \A s \in Sessions : Composer!TextKept(s)' /\ Composer!NotesKept(s)'
    BY <1>2
  <2> HIDE DEF Kept
  <2>2. CASE Composer!Next
    BY <1>2, <2>1, <2>2, ComposerSteps
  <2>3. CASE UNCHANGED composer
    BY <2>3 DEF composer, Composer!composerVars, Composer!storage, Composer!history
  <2> QED
    BY <1>2, <2>2, <2>3 DEF PageNext, pageVars
<1> HIDE DEF Kept
<1> QED
  BY <1>1, <1>2, ComposerIsSound, PTL DEF PageSpec, pageVars, DraftsKept, Composer!DraftsKept
=============================================================================
