-------------------------- MODULE AtomicWriteProofs --------------------------
(***************************************************************************)
(* The write queue serialises the writes of a target, and atomicWriteFile  *)
(* implements AtomicFile.                                                  *)
(*                                                                         *)
(* The argument: a call starts when the call it found at the tail of the   *)
(* queue has ended, and that call had started only after all the calls     *)
(* before it ended.  So every started call has only ended calls before it  *)
(* (StartedInTurn); as of two calls one is before the other, at most one   *)
(* call works on the target at a time.                                     *)
(***************************************************************************)
EXTENDS AtomicWrite, TLAPS

Working == {"opening", "writing", "staged", "linked", "committed", "cleaning"}

\* The calls before c are its predecessor in the queue and those before that one.
Chained ==
    \A c \in Asked :
        IF prev[c] = NoCall
        THEN before[c] \subseteq Ended
        ELSE prev[c] \in Asked /\ before[c] = before[prev[c]] \cup {prev[c]}

\* The queue's entry is the last call, and is missing only when all have ended.
TailIsLast ==
    IF tail = NoCall
    THEN Asked \subseteq Ended
    ELSE tail \in Asked /\ Asked = before[tail] \cup {tail}

StartedInTurn == \A c \in Asked : pc[c] # "queued" => before[c] \subseteq Ended

Ordered == \A c, d \in Asked : c = d \/ c \in before[d] \/ d \in before[c]

QueueInv == TypeOK /\ Chained /\ TailIsLast /\ StartedInTurn /\ Ordered

-----------------------------------------------------------------------------
(* Where a step leaves the calls *)

\* A step of one call that is under way keeps the set of calls, and adds to the
\* ended ones at most that call.
LEMMA StepSets ==
    ASSUME TypeOK, NEW c \in Asked, NEW s \in Steps \ {"idle", "lost"}, Go(c, s),
           pc[c] \notin {"ok", "failed"}
    PROVE  /\ Asked' = Asked
           /\ Ended' = IF s \in {"ok", "failed"} THEN Ended \cup {c} ELSE Ended
BY DEF TypeOK, Asked, Ended, Go

\* Asking adds one call.
LEMMA AskSets ==
    ASSUME TypeOK, NEW c \in Calls, Ask(c)
    PROVE  c \notin Asked /\ Asked' = Asked \cup {c} /\ Ended' = Ended
BY DEF TypeOK, Ask, Asked, Ended, Go

\* The initial state.
LEMMA InitQueue == ASSUME Init PROVE QueueInv
<1> USE DEF Init
<1>1. TypeOK
  BY CallsAssumption DEF TypeOK, Steps, Modes, Inodes
<1>2. Asked = {} /\ Ended = {}
  BY DEF Asked, Ended
<1> QED
  BY <1>1, <1>2 DEF QueueInv, Chained, TailIsLast, StartedInTurn, Ordered

-----------------------------------------------------------------------------
(* Types *)

LEMMA TypeStep == ASSUME TypeOK, [Next]_vars PROVE TypeOK'
<1> USE DEF TypeOK, Steps, Modes, queueVars, fileVars, Go
<1>1. CASE UNCHANGED vars
  BY <1>1 DEF vars
<1>2. ASSUME NEW c \in Calls, Ask(c) PROVE TypeOK'
  BY <1>2 DEF Ask, Asked
<1>3. ASSUME NEW c \in Calls, Start(c) PROVE TypeOK'
  <2>1. c \in Inodes
    BY DEF Inodes
  <2>2. mode' \in [Inodes -> Modes]
    BY <1>3, <2>1 DEF Start
  <2> QED
    BY <1>3, <2>2 DEF Start
<1>4. ASSUME NEW c \in Calls, Refuse(c) \/ Open(c) \/ StageFails(c) \/ Unlink(c) \/ Cleanup(c)
      PROVE  TypeOK'
  BY <1>4 DEF Refuse, Open, StageFails, Unlink, Cleanup
<1>5. ASSUME NEW c \in Calls, Stage(c) PROVE TypeOK'
  BY <1>5 DEF Stage, Inodes
<1>6. ASSUME NEW c \in Calls, Commit(c) PROVE TypeOK'
  BY <1>6 DEF Commit, Inodes
<1>7. ASSUME NEW c \in Calls, SyncDirectory(c) \/ Forget(c) PROVE TypeOK'
  BY <1>7 DEF SyncDirectory, Forget
<1>8. CASE Crash
  BY <1>8 DEF Crash
<1> QED
  BY <1>1, <1>2, <1>3, <1>4, <1>5, <1>6, <1>7, <1>8 DEF Next, Continue

-----------------------------------------------------------------------------
(* The queue *)

\* A step of a call under way that leaves the queue's variables alone.
LEMMA WorkStep ==
    ASSUME QueueInv, TypeOK', UNCHANGED queueVars,
           NEW c \in Asked, NEW s \in Steps \ {"idle", "lost"}, Go(c, s),
           pc[c] \notin {"ok", "failed"}, before[c] \subseteq Ended
    PROVE  QueueInv'
<1>1. Asked' = Asked /\ Ended \subseteq Ended'
  BY StepSets DEF QueueInv
<1>2. Chained' /\ TailIsLast' /\ Ordered'
  BY <1>1 DEF QueueInv, Chained, TailIsLast, Ordered, queueVars
<1>3. StartedInTurn'
  BY <1>1 DEF QueueInv, StartedInTurn, queueVars, Go, TypeOK, Asked
<1> QED
  BY <1>2, <1>3 DEF QueueInv

\* A call that may start has only ended calls before it.
LEMMA MayStartInTurn ==
    ASSUME QueueInv, NEW c \in Asked, MayStart(c)
    PROVE  before[c] \subseteq Ended
<1>1. CASE prev[c] = NoCall
  BY <1>1 DEF QueueInv, Chained
<1>2. CASE prev[c] \in Ended /\ prev[c] # NoCall
  <2>1. prev[c] \in Asked /\ pc[prev[c]] # "queued"
    BY <1>2 DEF Ended, Asked
  <2>2. before[prev[c]] \subseteq Ended
    BY <2>1 DEF QueueInv, StartedInTurn
  <2> QED
    BY <1>2, <2>2 DEF QueueInv, Chained
<1> QED
  BY <1>1, <1>2 DEF MayStart

LEMMA QueueStep == ASSUME QueueInv, [Next]_vars PROVE QueueInv'
<1>1. TypeOK /\ TypeOK'
  BY TypeStep DEF QueueInv
<1>2. CASE UNCHANGED vars
  BY <1>2, <1>1 DEF QueueInv, vars, queueVars, Chained, TailIsLast, StartedInTurn, Ordered,
     Asked, Ended
<1>3. ASSUME NEW c \in Calls, Ask(c) PROVE QueueInv'
  <2>1. c \notin Asked /\ Asked' = Asked \cup {c} /\ Ended' = Ended
    BY <1>1, <1>3, AskSets
  <2>2. /\ before' = [before EXCEPT ![c] = Asked]
        /\ prev' = [prev EXCEPT ![c] = tail]
        /\ tail' = c /\ pc' = [pc EXCEPT ![c] = "queued"]
    BY <1>3 DEF Ask, Go
  <2>3. /\ before \in [Calls -> SUBSET Calls] /\ prev \in [Calls -> Calls \cup {NoCall}]
        /\ pc \in [Calls -> Steps] /\ Asked \subseteq Calls
    BY <1>1 DEF TypeOK, Asked
  <2>4. /\ before'[c] = Asked /\ prev'[c] = tail /\ pc'[c] = "queued"
        /\ \A d \in Asked : before'[d] = before[d] /\ prev'[d] = prev[d] /\ pc'[d] = pc[d]
    BY <2>1, <2>2, <2>3
  <2>5. Chained'
    <3>1. ASSUME NEW d \in Asked
          PROVE  IF prev'[d] = NoCall
                 THEN before'[d] \subseteq Ended'
                 ELSE prev'[d] \in Asked' /\ before'[d] = before'[prev'[d]] \cup {prev'[d]}
      BY <2>1, <2>4 DEF QueueInv, Chained
    <3>2. IF prev'[c] = NoCall
          THEN before'[c] \subseteq Ended'
          ELSE prev'[c] \in Asked' /\ before'[c] = before'[prev'[c]] \cup {prev'[c]}
      BY <2>1, <2>4 DEF QueueInv, TailIsLast
    <3> QED
      BY <2>1, <3>1, <3>2 DEF Chained
  <2>6. TailIsLast'
    BY <2>1, <2>2, <2>4, CallsAssumption DEF TailIsLast
  <2>7. StartedInTurn'
    BY <2>1, <2>4 DEF QueueInv, StartedInTurn
  <2>8. Ordered'
    BY <2>1, <2>4 DEF QueueInv, Ordered
  <2> QED
    BY <1>1, <2>5, <2>6, <2>7, <2>8 DEF QueueInv
<1>4. ASSUME NEW c \in Calls, Start(c) PROVE QueueInv'
  BY <1>1, <1>4, MayStartInTurn, WorkStep DEF Start, Steps, Go, Asked
<1>5. ASSUME NEW c \in Calls, Refuse(c) PROVE QueueInv'
  <2>1. c \in Asked /\ pc[c] \in {"queued", "opening"} /\ Go(c, "failed") /\ UNCHANGED queueVars
    BY <1>5 DEF Refuse, Asked
  <2>2. before[c] \subseteq Ended
    BY <1>5, <2>1, MayStartInTurn DEF Refuse, QueueInv, StartedInTurn
  <2> QED
    BY <1>1, <2>1, <2>2, WorkStep DEF Steps
<1>6. ASSUME NEW c \in Calls,
             \/ Open(c) \/ Stage(c) \/ StageFails(c) \/ Commit(c)
             \/ Unlink(c) \/ SyncDirectory(c) \/ Cleanup(c)
      PROVE  QueueInv'
  <2>1. c \in Asked /\ pc[c] \in Working /\ UNCHANGED queueVars
    BY <1>6 DEF Open, Stage, StageFails, Commit, Unlink, SyncDirectory, Cleanup, Asked, Working
  <2>2. \E s \in Steps \ {"idle", "lost"} : Go(c, s)
    BY <1>6 DEF Open, Stage, StageFails, Commit, Unlink, SyncDirectory, Cleanup, Steps
  <2>3. before[c] \subseteq Ended
    BY <2>1 DEF QueueInv, StartedInTurn, Working
  <2> QED
    BY <1>1, <2>1, <2>2, <2>3, WorkStep DEF Working
<1>7. ASSUME NEW c \in Calls, Forget(c) PROVE QueueInv'
  <2>1. Asked' = Asked /\ Ended' = Ended /\ tail = c /\ tail' = NoCall /\ c \in Ended
    BY <1>7 DEF Forget, Asked, Ended
  <2>2. c \in Asked /\ pc[c] # "queued"
    BY <2>1 DEF Asked, Ended
  <2>3. Asked \subseteq Ended
    BY <2>1, <2>2, CallsAssumption DEF QueueInv, StartedInTurn, TailIsLast
  <2>4. UNCHANGED <<prev, before, pc>>
    BY <1>7 DEF Forget
  <2> QED
    BY <1>1, <2>1, <2>3, <2>4 DEF QueueInv, Chained, TailIsLast, StartedInTurn, Ordered
<1>8. CASE Crash
  <2>1. Asked' = {} /\ tail' = NoCall
    BY <1>8, <1>1 DEF Crash, Asked, TypeOK
  <2> QED
    BY <1>1, <2>1 DEF QueueInv, Chained, TailIsLast, StartedInTurn, Ordered
<1> QED
  BY <1>2, <1>3, <1>4, <1>5, <1>6, <1>7, <1>8 DEF Next, Continue

THEOREM QueueSafe == Spec => []QueueInv
BY InitQueue, QueueStep, PTL DEF Spec

\* Every variable of atomicWriteFile keeps its type.
THEOREM TypeCorrect == Spec => []TypeOK
<1>1. QueueInv => TypeOK
  BY DEF QueueInv
<1> QED
  BY <1>1, QueueSafe, PTL

-----------------------------------------------------------------------------
(* One call at a time *)

\* Two calls are never both past the queue and short of their end.
LEMMA OneAtATime ==
    ASSUME QueueInv, NEW c \in Calls, NEW d \in Calls,
           pc[c] \in Working, pc[d] \in Working
    PROVE  c = d
<1>1. c \in Asked /\ d \in Asked /\ c \notin Ended /\ d \notin Ended
  BY DEF Asked, Ended, Working
<1>2. before[c] \subseteq Ended /\ before[d] \subseteq Ended
  BY <1>1 DEF QueueInv, StartedInTurn, Working
<1> QED
  BY <1>1, <1>2 DEF QueueInv, Ordered

-----------------------------------------------------------------------------
(* Durability *)

DurableInv ==
    /\ NeverTorn
    /\ \A c \in Calls : pc[c] = "staged" => c \in synced

LEMMA DurableStep == ASSUME TypeOK, DurableInv, [Next]_vars PROVE DurableInv'
<1> USE DEF DurableInv, NeverTorn, TypeOK, queueVars, fileVars, Go
<1>1. CASE UNCHANGED vars
  BY <1>1 DEF vars
<1>2. ASSUME NEW c \in Calls, Ask(c) \/ Start(c) \/ Refuse(c) \/ Open(c) PROVE DurableInv'
  BY <1>2 DEF Ask, Start, Refuse, Open
<1>3. ASSUME NEW c \in Calls, Stage(c) \/ StageFails(c) PROVE DurableInv'
  BY <1>3 DEF Stage, StageFails
<1>4. ASSUME NEW c \in Calls, Commit(c) PROVE DurableInv'
  BY <1>4 DEF Commit
<1>5. ASSUME NEW c \in Calls, Unlink(c) \/ SyncDirectory(c) \/ Cleanup(c) \/ Forget(c)
      PROVE  DurableInv'
  BY <1>5 DEF Unlink, SyncDirectory, Cleanup, Forget
<1>6. CASE Crash
  BY <1>6 DEF Crash
<1> QED
  BY <1>1, <1>2, <1>3, <1>4, <1>5, <1>6 DEF Next, Continue

\* Whatever a power loss brings back under the target's name is whole.
THEOREM TargetNeverTorn == Spec => []NeverTorn
<1>1. Init => DurableInv
  BY DEF Init, DurableInv, NeverTorn
<1>2. TypeOK /\ DurableInv /\ [Next]_vars => DurableInv'
  BY DurableStep
<1>3. DurableInv => NeverTorn
  BY DEF DurableInv
<1> QED
  BY <1>1, <1>2, <1>3, TypeCorrect, PTL DEF Spec

-----------------------------------------------------------------------------
(* Permission bits *)

\* A call that is still staging has not been published, and what it will publish
\* carries the bits the target has now.
ModeInv ==
    /\ \A c \in Calls :
          pc[c] \in {"idle", "queued", "opening", "writing", "staged"} => c \notin kept
    /\ \A c \in Calls \ Pinned :
          pc[c] \in {"opening", "writing", "staged"} /\ name # NoFile => mode[c] = mode[name]

LEMMA ModeStep == ASSUME QueueInv, ModeInv, [Next]_vars PROVE ModeInv'
<1> USE DEF ModeInv, TypeOK, queueVars, fileVars, Go
<1>1. TypeOK
  BY DEF QueueInv
<1>2. CASE UNCHANGED vars
  BY <1>2 DEF vars
<1>3. ASSUME NEW c \in Calls, Ask(c) \/ Refuse(c) \/ Open(c) \/ Stage(c) \/ StageFails(c)
      PROVE  ModeInv'
  BY <1>1, <1>3 DEF Ask, Refuse, Open, Stage, StageFails
<1>4. ASSUME NEW c \in Calls, Start(c) PROVE ModeInv'
  <2>1. c # name /\ c \in Inodes /\ name \in Inodes
    BY <1>1, <1>4 DEF Start, Inodes
  <2>2. c \notin Pinned /\ name # NoFile => mode'[c] = mode[name]
    BY <1>1, <1>4, <2>1 DEF Start
  <2>3. \A i \in Inodes \ {c} : mode'[i] = mode[i]
    BY <1>1, <1>4, <2>1 DEF Start
  <2>4. name' = name /\ kept' = kept /\ pc' = [pc EXCEPT ![c] = "opening"]
    BY <1>4 DEF Start
  <2>5. Calls \subseteq Inodes
    BY DEF Inodes
  <2>6. ASSUME NEW d \in Calls,
               pc'[d] \in {"idle", "queued", "opening", "writing", "staged"}
        PROVE  d \notin kept'
    BY <1>1, <1>4, <2>4, <2>6 DEF Start
  <2>7. ASSUME NEW d \in Calls \ Pinned,
               pc'[d] \in {"opening", "writing", "staged"}, name' # NoFile
        PROVE  mode'[d] = mode'[name']
    <3>1. CASE d = c
      BY <3>1, <2>1, <2>2, <2>3, <2>4, <2>7
    <3>2. CASE d # c
      BY <1>1, <3>2, <2>1, <2>3, <2>4, <2>5, <2>7
    <3> QED
      BY <3>1, <3>2
  <2> QED
    BY <2>6, <2>7
<1>5. ASSUME NEW c \in Calls, Commit(c) PROVE ModeInv'
  <2>1. pc[c] \in Working /\ pc'[c] \in {"linked", "committed"}
        /\ \A d \in Calls \ {c} : pc'[d] = pc[d]
    BY <1>1, <1>5 DEF Commit, Working
  <2>2. \A d \in Calls : pc'[d] \notin {"opening", "writing", "staged"}
    BY <2>1, OneAtATime DEF Working
  <2> QED
    BY <1>1, <1>5, <2>1, <2>2 DEF Commit
<1>6. ASSUME NEW c \in Calls, Unlink(c) \/ SyncDirectory(c) \/ Cleanup(c) \/ Forget(c)
      PROVE  ModeInv'
  BY <1>1, <1>6 DEF Unlink, SyncDirectory, Cleanup, Forget
<1>7. CASE Crash
  BY <1>1, <1>7 DEF Crash
<1> QED
  BY <1>2, <1>3, <1>4, <1>5, <1>6, <1>7 DEF Next, Continue

\* A call that does not pin the mode publishes an inode with the bits of the one
\* it replaces.
THEOREM ModeIsCarried == Spec => ModeCarried
<1>1. Init => ModeInv
  BY CallsAssumption DEF Init, ModeInv
<1>2. QueueInv /\ ModeInv /\ [Next]_vars => ModeInv'
  BY ModeStep
<1>3. ModeInv => [\A c \in Calls \ Pinned :
          name' = c /\ name \notin {c, NoFile} /\ pc[c] = "staged" => mode[c] = mode[name]]_vars
  BY DEF ModeInv
<1> QED
  BY <1>1, <1>2, <1>3, QueueSafe, PTL DEF Spec, ModeCarried

-----------------------------------------------------------------------------
(* Refinement *)

Status == [c \in Calls |-> StatusOf(pc[c])]

\* What the abstract specification knows of the calls.
LEMMA StatusSets ==
    ASSUME TypeOK
    PROVE  /\ Abstract!Asked = Asked
           /\ Abstract!Ended = Ended
           /\ \A c \in Calls :
                 /\ StatusOf(pc[c]) = "idle" <=> pc[c] = "idle"
                 /\ StatusOf(pc[c]) \in {"idle", "waiting", "applied", "done", "failed", "lost"}
BY DEF TypeOK, Steps, StatusOf, Asked, Ended, Abstract!Asked, Abstract!Ended

\* A step of one call maps to a step of its status.
LEMMA StatusStep ==
    ASSUME TypeOK, NEW c \in Calls, NEW s \in Steps, Go(c, s)
    PROVE  Status' = [Status EXCEPT ![c] = StatusOf(s)]
BY DEF TypeOK, Go, Status

LEMMA AbstractInit == ASSUME Init PROVE Abstract!Init
BY DEF Init, Abstract!Init, StatusOf

LEMMA AbstractStep == ASSUME QueueInv, [Next]_vars PROVE [Abstract!Next]_(Abstract!vars)
<1> USE DEF Status
<1>1. TypeOK
  BY DEF QueueInv
<1>2. CASE UNCHANGED vars
  BY <1>2 DEF vars, queueVars, fileVars, Abstract!vars
<1>3. ASSUME NEW c \in Calls, Ask(c) PROVE Abstract!Ask(c)
  <2>1. Status' = [Status EXCEPT ![c] = "waiting"]
    BY <1>1, <1>3, StatusStep DEF Ask, Steps, StatusOf
  <2>2. Abstract!Asked = Asked /\ StatusOf(pc[c]) = "idle"
    BY <1>1, <1>3, StatusSets DEF Ask
  <2> QED
    BY <1>3, <2>1, <2>2 DEF Abstract!Ask, Ask, fileVars
<1>4. ASSUME NEW c \in Calls, Start(c) \/ Open(c) \/ Stage(c) \/ StageFails(c) \/ Unlink(c)
      PROVE  UNCHANGED Abstract!vars
  <2>1. PICK s \in Steps : Go(c, s) /\ StatusOf(s) = StatusOf(pc[c])
    BY <1>4 DEF Start, Open, Stage, StageFails, Unlink, Steps, StatusOf
  <2>2. Status' = Status
    BY <1>1, <2>1, StatusStep
  <2> QED
    BY <1>4, <2>2 DEF Abstract!vars, Start, Open, Stage, StageFails, Unlink, queueVars, fileVars
<1>5. ASSUME NEW c \in Calls, Refuse(c) PROVE Abstract!Reject(c)
  <2>1. Status' = [Status EXCEPT ![c] = "failed"] /\ StatusOf(pc[c]) = "waiting"
    BY <1>1, <1>5, StatusStep DEF Refuse, Steps, StatusOf
  <2>2. before[c] \subseteq Ended
    BY <1>5, MayStartInTurn DEF Refuse, QueueInv, StartedInTurn, Asked
  <2> QED
    BY <1>1, <1>5, <2>1, <2>2, StatusSets
    DEF Abstract!Reject, Abstract!InTurn, Refuse, queueVars, fileVars
<1>6. ASSUME NEW c \in Calls, Cleanup(c) PROVE Abstract!Reject(c)
  <2>1. Status' = [Status EXCEPT ![c] = "failed"] /\ StatusOf(pc[c]) = "waiting"
    BY <1>1, <1>6, StatusStep DEF Cleanup, Steps, StatusOf
  <2>2. before[c] \subseteq Ended
    BY <1>6 DEF Cleanup, QueueInv, StartedInTurn, Asked
  <2> QED
    BY <1>1, <1>6, <2>1, <2>2, StatusSets
    DEF Abstract!Reject, Abstract!InTurn, Cleanup, queueVars
<1>7. ASSUME NEW c \in Calls, Commit(c) PROVE Abstract!Apply(c)
  <2>1. Status' = [Status EXCEPT ![c] = "applied"] /\ StatusOf(pc[c]) = "waiting"
    BY <1>1, <1>7, StatusStep DEF Commit, Steps, StatusOf
  <2>2. before[c] \subseteq Ended
    BY <1>7 DEF Commit, QueueInv, StartedInTurn, Asked
  <2> QED
    BY <1>1, <1>7, <2>1, <2>2, StatusSets
    DEF Abstract!Apply, Abstract!InTurn, Commit, queueVars
<1>8. ASSUME NEW c \in Calls, SyncDirectory(c) PROVE Abstract!Settle(c)
  <2>1. Status' = [Status EXCEPT ![c] = "done"] /\ StatusOf(pc[c]) = "applied"
    BY <1>1, <1>8, StatusStep DEF SyncDirectory, Steps, StatusOf
  <2> QED
    BY <1>8, <2>1 DEF Abstract!Settle, SyncDirectory, queueVars
<1>9. ASSUME NEW c \in Calls, Forget(c) PROVE UNCHANGED Abstract!vars
  BY <1>9 DEF Forget, Abstract!vars, fileVars
<1>10. CASE Crash
  <2>1. Status' = [c \in Calls |-> IF Status[c] = "idle" THEN "idle" ELSE "lost"]
    BY <1>1, <1>10, StatusSets DEF Crash, StatusOf
  <2>2. Abstract!Crash
    BY <1>10, <2>1 DEF Abstract!Crash, Crash
  <2> QED
    BY <2>2 DEF Abstract!Next
<1> QED
  BY <1>2, <1>3, <1>4, <1>5, <1>6, <1>7, <1>8, <1>9, <1>10 DEF Next, Continue, Abstract!Next

\* atomicWriteFile implements AtomicFile: each write of a target takes effect
\* whole, in its turn, or not at all.
THEOREM Implementation == Spec => ImplementsAtomicFile
<1>1. Init => Abstract!Init
  BY AbstractInit
<1>2. QueueInv /\ [Next]_vars => [Abstract!Next]_(Abstract!vars)
  BY AbstractStep
<1> QED
  BY <1>1, <1>2, QueueSafe, PTL DEF Spec, ImplementsAtomicFile, Abstract!Spec

=============================================================================
