------------------------ MODULE PromptGatewayProofs ------------------------
(***************************************************************************)
(* Proofs about PromptGateway, for every set of requests, operations,      *)
(* sessions, ids and prompts, every assignment of bodies to requests and   *)
(* every set of storage faults.                                            *)
(***************************************************************************)
EXTENDS PromptGateway, TLAPS

-----------------------------------------------------------------------------
(* Types *)

LEMMA SubmittedTypes ==
    ASSUME NEW r \in Requests
    PROVE  /\ Session(r) \in Sessions
           /\ Steer(r) \in BOOLEAN
           /\ Digest(r) \in Digests
           /\ Digest(r) # NoDigest
           /\ Id(r) # NoId => /\ Id(r) \in RequestIds
                              /\ Key(r) \in Keys
                              /\ \A b \in BOOLEAN : ReceiptOf(r, b) \in Receipt
BY SubmittedAssumption, NoDigestAssumption
   DEF Session, Steer, Digest, Digests, Id, Ids, Key, Keys, Receipt, ReceiptOf, Submission

\* What is in memory reaches the file with the types it had.
LEMMA PersistedType ==
    ASSUME TypeOK, NEW s \in Sessions
    PROVE  Persisted(s) \in SUBSET Receipt
BY DEF TypeOK, Persisted

\* Updating the fields of a handler leaves a handler.
LEMMA HandlerFields ==
    ASSUME NEW h \in Handler
    PROVE  /\ [h EXCEPT !.accepted = TRUE] \in Handler
           /\ [h EXCEPT !.accepted = TRUE, !.receiptError = TRUE] \in Handler
           /\ \A b \in BOOLEAN : [h EXCEPT !.stale = b] \in Handler
           /\ \A pc \in Steps :
                /\ [h EXCEPT !.pc = pc] \in Handler
                /\ \A b \in BOOLEAN : /\ [h EXCEPT !.pc = pc, !.threw = b] \in Handler
                                      /\ [h EXCEPT !.pc = pc, !.ownsBusy = b] \in Handler
                /\ \A a \in Answers : [h EXCEPT !.pc = pc, !.answer = a] \in Handler
                /\ \A e \in Effects : [h EXCEPT !.pc = pc, !.effect = e] \in Handler
BY DEF Handler

LEMMA BecomeType ==
    ASSUME TypeOK, NEW r \in Requests, NEW h \in Handler, Become(r, h)
    PROVE  req' \in [Requests -> Handler]
BY DEF TypeOK, Become

LEMMA AcceptType ==
    ASSUME TypeOK, NEW r \in Requests, NEW h \in Handler, Accept(r, h)
    PROVE  /\ entries' \subseteq Receipt
           /\ file' \subseteq Sessions
           /\ disk' \in [Sessions -> SUBSET Receipt]
           /\ req' \in [Requests -> Handler]
<1>1. CASE Id(r) = NoId
  BY <1>1, HandlerFields, BecomeType DEF Accept, TypeOK, storage
<1>2. CASE Id(r) # NoId
  <2>1. Persisted(Session(r)) \in SUBSET Receipt
    BY PersistedType, SubmittedTypes
  <2>2. req' \in [Requests -> Handler]
    BY <1>2, HandlerFields, BecomeType DEF Accept
  <2>3. CASE Stored(r)
    BY <1>2, <2>1, <2>2, <2>3, SubmittedTypes DEF Stored, TypeOK
  <2>4. CASE AppendFailed(r)
    BY <1>2, <2>1, <2>2, <2>4, SubmittedTypes DEF AppendFailed, TypeOK
  <2>5. CASE PersistFailed(r)
    BY <2>2, <2>5 DEF PersistFailed, TypeOK, storage
  <2> QED
    BY <1>2, <2>3, <2>4, <2>5 DEF Accept
<1> QED
  BY <1>1, <1>2

LEMMA RunWritesType ==
    ASSUME TypeOK, RunWrites
    PROVE  file' \subseteq Sessions /\ disk' \in [Sessions -> SUBSET Receipt]
<1>1. Persisted(active) \in SUBSET Receipt
  BY PersistedType DEF TypeOK
<1> QED
  BY <1>1 DEF RunWrites, TypeOK, storage

LEMMA TypeInit == Init => TypeOK
<1>1. NewHandler \in Handler
  BY DEF NewHandler, Handler, Steps, Effects, Answers
<1>2. Init => /\ active \in Sessions /\ used \subseteq Sessions
              /\ disk \in [Sessions -> SUBSET Receipt]
              /\ req \in [Requests -> Handler]
  BY <1>1 DEF Init
<1>3. Init => /\ pending \in [Keys -> Digests \cup {NoDigest}]
              /\ entries \subseteq Receipt /\ file \subseteq Sessions
              /\ op \in [Operations -> {"idle", "inside", "switched"}]
  BY DEF Init
<1>4. Init => restarts \in 0 .. MaxRestarts
  BY RestartAssumption DEF Init
<1> QED
  BY <1>2, <1>3, <1>4 DEF Init, TypeOK

LEMMA ReplyType ==
    ASSUME TypeOK, NEW r \in Requests, NEW a \in Answers, Reply(r, a)
    PROVE  req' \in [Requests -> Handler]
BY HandlerFields, BecomeType DEF TypeOK, Reply, Steps

LEMMA FinalAnswerType ==
    ASSUME NEW h \in Handler
    PROVE  FinalAnswer(h) \in Answers
BY DEF FinalAnswer, Answers

LEMMA ReplayAnswerType ==
    ASSUME NEW r \in Requests, NEW a \in ReplayAnswer(r)
    PROVE  a \in Answers
BY DEF ReplayAnswer, Answers

LEMMA TypeStep == TypeOK /\ [Next]_vars => TypeOK'
<1> SUFFICES ASSUME TypeOK, [Next]_vars PROVE TypeOK'
  OBVIOUS
<1>1. ASSUME NEW r \in Requests, Replay(r) PROVE TypeOK'
  <2>1. req' \in [Requests -> Handler]
    BY <1>1, ReplayAnswerType, ReplyType DEF Replay
  <2> QED
    BY <1>1, <2>1 DEF Replay, TypeOK, session, slots, storage
<1>2. ASSUME NEW r \in Requests, Refuse(r) PROVE TypeOK'
  <2>1. req' \in [Requests -> Handler]
    BY <1>2, ReplyType DEF Refuse, Answers
  <2> QED
    BY <1>2, <2>1 DEF Refuse, TypeOK, session, slots, storage
<1>3. ASSUME NEW r \in Requests, AdmitSteer(r) PROVE TypeOK'
  <2>1. req' \in [Requests -> Handler]
    BY <1>3, HandlerFields, BecomeType DEF AdmitSteer, TypeOK, Steps
  <2>2. pending' \in [Keys -> Digests \cup {NoDigest}]
    BY <1>3, SubmittedTypes DEF AdmitSteer, Claim, TypeOK
  <2> QED
    BY <1>3, <2>1, <2>2 DEF AdmitSteer, TypeOK, session, storage
<1>4. ASSUME NEW r \in Requests, AdmitPrompt(r) PROVE TypeOK'
  <2>1. req' \in [Requests -> Handler]
    BY <1>4, HandlerFields, BecomeType DEF AdmitPrompt, TypeOK, Steps
  <2>2. pending' \in [Keys -> Digests \cup {NoDigest}]
    BY <1>4, SubmittedTypes DEF AdmitPrompt, Claim, TypeOK
  <2> QED
    BY <1>4, <2>1, <2>2 DEF AdmitPrompt, TypeOK, session, storage
<1>5. ASSUME NEW r \in Requests, Finish(r) PROVE TypeOK'
  <2>1. req' \in [Requests -> Handler]
    BY <1>5, FinalAnswerType, ReplyType DEF Finish, TypeOK
  <2>2. pending' \in [Keys -> Digests \cup {NoDigest}]
    BY <1>5, SubmittedTypes DEF Finish, TypeOK
  <2> QED
    BY <1>5, <2>1, <2>2 DEF Finish, TypeOK, session, storage
<1>6. ASSUME NEW r \in Requests, LibReject(r) PROVE TypeOK'
  <2>1. req' \in [Requests -> Handler]
    BY <1>6, HandlerFields, BecomeType DEF LibReject, TypeOK, Steps
  <2> QED
    BY <1>6, <2>1 DEF LibReject, TypeOK, session, slots, storage
<1>7. ASSUME NEW r \in Requests, LibHandle(r) PROVE TypeOK'
  <2>1. req' \in [Requests -> Handler]
    BY <1>7, HandlerFields, BecomeType DEF LibHandle, TypeOK, Steps, Effects
  <2> QED
    BY <1>7, <2>1 DEF LibHandle, TypeOK, session, slots, storage
<1>8. ASSUME NEW r \in Requests, LibAcceptHandled(r) PROVE TypeOK'
  <2>1. PICK threw \in BOOLEAN :
            Accept(r, [req[r] EXCEPT !.pc = "settled", !.threw = threw])
    BY <1>8 DEF LibAcceptHandled
  <2>2. [req[r] EXCEPT !.pc = "settled", !.threw = threw] \in Handler
    BY HandlerFields DEF TypeOK, Steps
  <2> QED
    BY <1>8, <2>1, <2>2, AcceptType DEF LibAcceptHandled, TypeOK, slots
<1>9. ASSUME NEW r \in Requests, LibRun(r) PROVE TypeOK'
  <2>1. [req[r] EXCEPT !.pc = "running", !.effect = "run"] \in Handler
    BY HandlerFields DEF TypeOK, Steps, Effects
  <2> QED
    BY <1>9, <2>1, AcceptType DEF LibRun, TypeOK, slots
<1>10. ASSUME NEW r \in Requests, LibRunEnds(r) PROVE TypeOK'
  <2>1. req' \in [Requests -> Handler]
    BY <1>10, HandlerFields, BecomeType DEF LibRunEnds, TypeOK, Steps
  <2>3. /\ streaming' \in BOOLEAN
        /\ file' \subseteq Sessions
        /\ disk' \in [Sessions -> SUBSET Receipt]
    BY <1>10, RunWritesType DEF LibRunEnds, TypeOK, storage
  <2> QED
    BY <1>10, <2>1, <2>3 DEF LibRunEnds, TypeOK, slots
<1>11. CASE OtherRunStarts
  BY <1>11 DEF OtherRunStarts, TypeOK, slots, storage
<1>12. CASE OtherRunEnds
  BY <1>12, RunWritesType DEF OtherRunEnds, TypeOK, slots
<1>13. CASE Compaction
  BY <1>13 DEF Compaction, TypeOK, slots, storage
<1>14. ASSUME NEW o \in Operations, OpStart(o) PROVE TypeOK'
  BY <1>14 DEF OpStart, TypeOK, session, storage
<1>15. ASSUME NEW o \in Operations, OpSwitch(o) PROVE TypeOK'
  <2>1. PICK s \in Sessions : Switch(s)
    BY <1>15 DEF OpSwitch, TypeOK
  <2>2. req' \in [Requests -> Handler]
    <3>1. \A r \in Requests : /\ (InFlight(r) \/ req[r].stale) \in BOOLEAN
                              /\ req[r] \in Handler
      BY DEF TypeOK, Handler
    <3>2. req' = [r \in Requests |-> [req[r] EXCEPT !.stale = InFlight(r) \/ req[r].stale]]
      BY <2>1 DEF Switch
    <3> QED
      BY <3>1, <3>2, HandlerFields
  <2> QED
    BY <1>15, <2>1, <2>2 DEF OpSwitch, Switch, TypeOK, slots, storage
<1>16. ASSUME NEW o \in Operations, OpEnd(o) PROVE TypeOK'
  BY <1>16 DEF OpEnd, TypeOK, session, storage
<1>17. CASE Restart
  <2>1. req' \in [Requests -> Handler]
    <3>1. \A r \in Requests : [req[r] EXCEPT !.pc = "done", !.answer = "lost"] \in Handler
      BY HandlerFields DEF TypeOK, Steps, Answers
    <3> QED
      BY <1>17, <3>1 DEF Restart, TypeOK
  <2>2. PICK s \in Sessions : active' = s /\ entries' = disk[s] /\ used' = used \cup {s}
    BY <1>17 DEF Restart, TypeOK
  <2>3. restarts' \in 0 .. MaxRestarts
    <3>1. restarts \in 0 .. MaxRestarts
      BY DEF TypeOK
    <3>2. restarts < MaxRestarts /\ restarts' = restarts + 1
      BY <1>17 DEF Restart
    <3> QED
      BY <3>1, <3>2, RestartAssumption
  <2>4. /\ pending' \in [Keys -> Digests \cup {NoDigest}]
        /\ op' \in [Operations -> {"idle", "inside", "switched"}]
    BY <1>17 DEF Restart
  <2> QED
    BY <1>17, <2>1, <2>2, <2>3, <2>4 DEF Restart, TypeOK, storage
<1>18. CASE UNCHANGED vars
  BY <1>18 DEF vars, session, slots, storage, TypeOK
<1> QED
  BY <1>1, <1>2, <1>3, <1>4, <1>5, <1>6, <1>7, <1>8, <1>9, <1>10, <1>11, <1>12,
     <1>13, <1>14, <1>15, <1>16, <1>17, <1>18
     DEF Next, Gateway, Library, Operation, Environment

\* Type correctness of the gateway's prompt and session slots, the pending map,
\* the receipts and every handler.
THEOREM TypeCorrect == Spec => []TypeOK
<1>1. Init => TypeOK
  BY TypeInit
<1>2. TypeOK /\ [Next]_vars => TypeOK'
  BY TypeStep
<1> QED
  BY <1>1, <1>2, PTL DEF Spec

-----------------------------------------------------------------------------
(* The slots, the pending map and the session object of the slot's owner:   *)
(* three invariants that are inductive only together.                       *)

\* Before it is admitted a handler neither owns the slot nor is stale.
IdleFresh == \A r \in Requests : req[r].pc = "idle" => ~req[r].ownsBusy /\ ~req[r].stale

SlotInv == TypeOK /\ SlotsExclusive /\ PendingOwned /\ OwnerNeverStale /\ IdleFresh

LEMMA SlotInit == Init => SlotInv
<1> SUFFICES ASSUME Init PROVE SlotInv
  OBVIOUS
<1>1. \A r \in Requests : ~InFlight(r) /\ ~Owner(r)
  BY DEF Init, InFlight, Owner, NewHandler
<1>2. \A o \in Operations : ~Inside(o)
  BY DEF Init, Inside
<1>3. SlotsExclusive
  BY <1>1, <1>2 DEF Init, SlotsExclusive
<1>4. PendingOwned
  BY <1>1 DEF Init, PendingOwned
<1>5. OwnerNeverStale
  BY <1>1 DEF OwnerNeverStale
<1>6. IdleFresh
  BY DEF Init, IdleFresh, NewHandler
<1> QED
  BY <1>3, <1>4, <1>5, <1>6, TypeInit DEF SlotInv

\* What the three invariants read of a handler.
SameView(r) ==
    /\ InFlight(r)' = InFlight(r)
    /\ req'[r].ownsBusy = req[r].ownsBusy
    /\ req'[r].stale = req[r].stale
    /\ req'[r].pc = "idle" => req[r].pc = "idle"

\* A step that changes nothing the invariants read keeps them.
LEMMA QuietStep ==
    ASSUME SlotInv, TypeOK', UNCHANGED <<slots, op>>, \A r \in Requests : SameView(r)
    PROVE  SlotInv'
<1>1. /\ busy' = busy /\ opBusy' = opBusy /\ pending' = pending /\ op' = op
  BY DEF slots
<1>2. \A r \in Requests : Owner(r)' = Owner(r)
  BY DEF SameView, Owner
<1>3. \A o \in Operations : Inside(o)' = Inside(o)
  BY <1>1 DEF Inside
<1>4. SlotsExclusive'
  BY <1>1, <1>2, <1>3 DEF SlotInv, SlotsExclusive
<1>5. PendingOwned'
  BY <1>1 DEF SlotInv, PendingOwned, SameView
<1>6. OwnerNeverStale'
  BY <1>2 DEF SlotInv, OwnerNeverStale, SameView, Owner
<1>7. IdleFresh'
  BY DEF SlotInv, IdleFresh, SameView
<1> QED
  BY <1>4, <1>5, <1>6, <1>7 DEF SlotInv

\* One handler becomes h, the others are as they were.
LEMMA BecomeOnly ==
    ASSUME TypeOK, NEW r \in Requests, NEW h, Become(r, h)
    PROVE  /\ req'[r] = h
           /\ \A q \in Requests \ {r} : req'[q] = req[q]
BY DEF TypeOK, Become

LEMMA QuietBecome ==
    ASSUME TypeOK, NEW r \in Requests, NEW h \in Handler, Become(r, h),
           h.ownsBusy = req[r].ownsBusy, h.stale = req[r].stale,
           InFlight(r) = (h.pc \in {"preflight", "handled", "running", "settled"}),
           h.pc # "idle"
    PROVE  \A q \in Requests : SameView(q)
BY BecomeOnly DEF SameView, InFlight

LEMMA QuietAccept ==
    ASSUME TypeOK, NEW r \in Requests, NEW h \in Handler, Accept(r, h),
           h.ownsBusy = req[r].ownsBusy, h.stale = req[r].stale,
           InFlight(r), h.pc \in {"preflight", "handled", "running", "settled"}
    PROVE  \A q \in Requests : SameView(q)
<1> DEFINE k1 == [h EXCEPT !.accepted = TRUE]
           k2 == [h EXCEPT !.accepted = TRUE, !.receiptError = TRUE]
<1>1. Become(r, k1) \/ Become(r, k2)
  BY DEF Accept
<1>2. /\ k1 \in Handler
      /\ k1.ownsBusy = h.ownsBusy /\ k1.stale = h.stale /\ k1.pc = h.pc
  <2>1. k1 \in Handler
    BY HandlerFields
  <2>2. k1.ownsBusy = h.ownsBusy /\ k1.stale = h.stale /\ k1.pc = h.pc
    BY DEF Handler
  <2> QED
    BY <2>1, <2>2
<1>3. /\ k2 \in Handler
      /\ k2.ownsBusy = h.ownsBusy /\ k2.stale = h.stale /\ k2.pc = h.pc
  <2>1. k2 \in Handler
    BY HandlerFields
  <2>2. k2.ownsBusy = h.ownsBusy /\ k2.stale = h.stale /\ k2.pc = h.pc
    BY DEF Handler
  <2> QED
    BY <2>1, <2>2
<1> QED
  BY <1>1, <1>2, <1>3, QuietBecome

\* Claiming an unknown key and dropping one's own claim keep the pending map.
LEMMA ClaimKeepsOwners ==
    ASSUME TypeOK, PendingOwned, NEW r \in Requests, ~InFlight(r), ~Known(r), Claim(r),
           req'[r].pc = "preflight", \A q \in Requests \ {r} : req'[q] = req[q]
    PROVE  PendingOwned'
<1>1. /\ InFlight(r)'
      /\ \A q \in Requests \ {r} : InFlight(q)' = InFlight(q)
  BY DEF InFlight
<1>2. CASE Id(r) = NoId
  BY <1>1, <1>2 DEF PendingOwned, Claim, Same
<1>3. CASE Id(r) # NoId
  <2>1. /\ pending[Key(r)] = NoDigest
        /\ pending' = [pending EXCEPT ![Key(r)] = Digest(r)]
    BY <1>3 DEF Known, Claim
  <2>2. \A q \in Requests : InFlight(q) /\ Id(q) # NoId => Key(q) # Key(r)
    BY <2>1, SubmittedTypes DEF PendingOwned
  <2>3. \A q \in Requests : InFlight(q)' /\ Id(q) # NoId => pending'[Key(q)] = Digest(q)
    BY <1>1, <2>1, <2>2, SubmittedTypes DEF PendingOwned, TypeOK
  <2>4. \A q, x \in Requests : InFlight(q)' /\ InFlight(x)' /\ Same(q, x) => q = x
    BY <1>1, <2>2 DEF PendingOwned, Same
  <2>5. ASSUME NEW k \in Keys, pending'[k] # NoDigest
        PROVE  \E q \in Requests : InFlight(q)' /\ Id(q) # NoId /\ Key(q) = k
    BY <1>1, <1>3, <2>1, <2>5, SubmittedTypes DEF PendingOwned, TypeOK
  <2> QED
    BY <2>3, <2>4, <2>5 DEF PendingOwned
<1> QED
  BY <1>2, <1>3

LEMMA DropKeepsOwners ==
    ASSUME TypeOK, PendingOwned, NEW r \in Requests, InFlight(r), ~InFlight(r)',
           \A q \in Requests \ {r} : req'[q] = req[q],
           pending' = IF Id(r) = NoId THEN pending ELSE [pending EXCEPT ![Key(r)] = NoDigest]
    PROVE  PendingOwned'
<1>1. \A q \in Requests \ {r} : InFlight(q)' = InFlight(q)
  BY DEF InFlight
<1>2. CASE Id(r) = NoId
  BY <1>1, <1>2 DEF PendingOwned, Same
<1>3. CASE Id(r) # NoId
  <2>1. pending' = [pending EXCEPT ![Key(r)] = NoDigest]
    BY <1>3
  <2>2. \A q \in Requests : InFlight(q)' /\ Id(q) # NoId => Key(q) # Key(r)
    BY <1>1, <1>3 DEF PendingOwned, Same
  <2>3. \A q \in Requests : InFlight(q)' /\ Id(q) # NoId => pending'[Key(q)] = Digest(q)
    BY <1>1, <2>1, <2>2, SubmittedTypes DEF PendingOwned, TypeOK
  <2>4. \A q, x \in Requests : InFlight(q)' /\ InFlight(x)' /\ Same(q, x) => q = x
    BY <1>1 DEF PendingOwned
  <2>5. ASSUME NEW k \in Keys, pending'[k] # NoDigest
        PROVE  \E q \in Requests : InFlight(q)' /\ Id(q) # NoId /\ Key(q) = k
    BY <1>1, <1>3, <2>1, <2>5, SubmittedTypes DEF PendingOwned, TypeOK
  <2> QED
    BY <2>3, <2>4, <2>5 DEF PendingOwned
<1> QED
  BY <1>2, <1>3

LEMMA SlotStep == SlotInv /\ [Next]_vars => SlotInv'
<1> SUFFICES ASSUME SlotInv, [Next]_vars PROVE SlotInv'
  OBVIOUS
<1>t. TypeOK /\ TypeOK'
  BY TypeStep DEF SlotInv
<1>h. \A r \in Requests : req[r] \in Handler
  BY <1>t DEF TypeOK
<1>1. ASSUME NEW r \in Requests, Replay(r) \/ Refuse(r) PROVE SlotInv'
  <2>1. PICK a \in Answers : Become(r, [req[r] EXCEPT !.pc = "done", !.answer = a])
    <3>1. CASE Replay(r)
      BY <3>1, ReplayAnswerType DEF Replay, Reply
    <3>2. CASE Refuse(r)
      BY <3>2 DEF Refuse, Reply, Answers
    <3> QED
      BY <1>1, <3>1, <3>2
  <2>2. ~InFlight(r)
    BY <1>1 DEF Replay, Refuse, InFlight
  <2> DEFINE h == [req[r] EXCEPT !.pc = "done", !.answer = a]
  <2>3. /\ h \in Handler /\ h.ownsBusy = req[r].ownsBusy /\ h.stale = req[r].stale
        /\ h.pc = "done"
    BY <1>h DEF Handler, Steps
  <2>4. \A q \in Requests : SameView(q)
    <3> HIDE DEF h
    <3>1. Become(r, h)
      BY <2>1 DEF h
    <3>2. InFlight(r) = (h.pc \in {"preflight", "handled", "running", "settled"})
      BY <2>2, <2>3 DEF InFlight
    <3> QED
      BY <1>t, <2>3, <3>1, <3>2, QuietBecome
  <2> QED
    BY <1>1, <1>t, <2>4, QuietStep DEF Replay, Refuse
<1>2. ASSUME NEW r \in Requests, LibReject(r) PROVE SlotInv'
  <2> DEFINE h == [req[r] EXCEPT !.pc = "settled", !.threw = TRUE]
  <2>1. /\ h \in Handler /\ h.ownsBusy = req[r].ownsBusy /\ h.stale = req[r].stale
        /\ h.pc = "settled"
    BY <1>h DEF Handler, Steps
  <2>2. InFlight(r)
    BY <1>2 DEF LibReject, InFlight
  <2>3. \A q \in Requests : SameView(q)
    BY <1>2, <1>t, <2>1, <2>2, QuietBecome DEF LibReject
  <2> QED
    BY <1>2, <1>t, <2>3, QuietStep DEF LibReject
<1>3. ASSUME NEW r \in Requests, LibHandle(r) PROVE SlotInv'
  <2> DEFINE h == [req[r] EXCEPT !.pc = "handled", !.effect = "command"]
  <2>1. /\ h \in Handler /\ h.ownsBusy = req[r].ownsBusy /\ h.stale = req[r].stale
        /\ h.pc = "handled"
    BY <1>h DEF Handler, Steps, Effects
  <2>2. InFlight(r)
    BY <1>3 DEF LibHandle, InFlight
  <2>3. \A q \in Requests : SameView(q)
    BY <1>3, <1>t, <2>1, <2>2, QuietBecome DEF LibHandle
  <2> QED
    BY <1>3, <1>t, <2>3, QuietStep DEF LibHandle
<1>4. ASSUME NEW r \in Requests, LibAcceptHandled(r) PROVE SlotInv'
  <2>1. PICK threw \in BOOLEAN :
            Accept(r, [req[r] EXCEPT !.pc = "settled", !.threw = threw])
    BY <1>4 DEF LibAcceptHandled
  <2> DEFINE h == [req[r] EXCEPT !.pc = "settled", !.threw = threw]
  <2>2. /\ h \in Handler /\ h.ownsBusy = req[r].ownsBusy /\ h.stale = req[r].stale
        /\ h.pc = "settled"
    BY <1>h DEF Handler, Steps
  <2>3. InFlight(r)
    BY <1>4 DEF LibAcceptHandled, InFlight
  <2>4. \A q \in Requests : SameView(q)
    BY <1>t, <2>1, <2>2, <2>3, QuietAccept
  <2> QED
    BY <1>4, <1>t, <2>4, QuietStep DEF LibAcceptHandled
<1>5. ASSUME NEW r \in Requests, LibRun(r) PROVE SlotInv'
  <2> DEFINE h == [req[r] EXCEPT !.pc = "running", !.effect = "run"]
  <2>1. /\ h \in Handler /\ h.ownsBusy = req[r].ownsBusy /\ h.stale = req[r].stale
        /\ h.pc = "running"
    BY <1>h DEF Handler, Steps, Effects
  <2>2. InFlight(r)
    BY <1>5 DEF LibRun, InFlight
  <2>3. Accept(r, h)
    BY <1>5 DEF LibRun
  <2>4. \A q \in Requests : SameView(q)
    BY <1>t, <2>1, <2>2, <2>3, QuietAccept
  <2> QED
    BY <1>5, <1>t, <2>4, QuietStep DEF LibRun
<1>6. ASSUME NEW r \in Requests, LibRunEnds(r) PROVE SlotInv'
  <2>1. PICK threw \in BOOLEAN :
            Become(r, [req[r] EXCEPT !.pc = "settled", !.threw = threw])
    BY <1>6 DEF LibRunEnds
  <2> DEFINE h == [req[r] EXCEPT !.pc = "settled", !.threw = threw]
  <2>2. /\ h \in Handler /\ h.ownsBusy = req[r].ownsBusy /\ h.stale = req[r].stale
        /\ h.pc = "settled"
    BY <1>h DEF Handler, Steps
  <2>3. InFlight(r)
    BY <1>6 DEF LibRunEnds, InFlight
  <2>4. \A q \in Requests : SameView(q)
    BY <1>t, <2>1, <2>2, <2>3, QuietBecome
  <2> QED
    BY <1>6, <1>t, <2>4, QuietStep DEF LibRunEnds
<1>7. CASE OtherRunStarts \/ OtherRunEnds \/ Compaction \/ UNCHANGED vars
  <2>1. UNCHANGED <<slots, op, req>>
    BY <1>7 DEF OtherRunStarts, OtherRunEnds, Compaction, vars, slots
  <2>2. \A q \in Requests : SameView(q)
    BY <2>1 DEF SameView, InFlight
  <2> QED
    BY <1>t, <2>1, <2>2, QuietStep
<1>8. ASSUME NEW r \in Requests, AdmitSteer(r) PROVE SlotInv'
  <2> DEFINE h == [req[r] EXCEPT !.pc = "preflight"]
  <2>1. /\ h.ownsBusy = req[r].ownsBusy /\ h.stale = req[r].stale
        /\ h.pc = "preflight"
    BY <1>h DEF Handler, Steps
  <2>2. /\ req'[r] = h /\ \A q \in Requests \ {r} : req'[q] = req[q]
    BY <1>8, <1>t, BecomeOnly DEF AdmitSteer
  <2>3. PendingOwned'
    BY <1>8, <1>t, <2>1, <2>2, ClaimKeepsOwners DEF AdmitSteer, Admissible, SlotInv, InFlight
  <2>4. ~req[r].ownsBusy /\ ~req[r].stale
    BY <1>8 DEF AdmitSteer, Admissible, SlotInv, IdleFresh
  <2>5. \A q \in Requests : Owner(q)' = Owner(q) /\ req'[q].stale = req[q].stale
    BY <2>1, <2>2, <2>4 DEF Owner, InFlight
  <2>6. SlotsExclusive'
    BY <1>8, <2>5 DEF AdmitSteer, SlotInv, SlotsExclusive, Inside
  <2>7. OwnerNeverStale'
    BY <2>5 DEF SlotInv, OwnerNeverStale
  <2>8. IdleFresh'
    BY <2>1, <2>2 DEF SlotInv, IdleFresh
  <2> QED
    BY <1>t, <2>3, <2>6, <2>7, <2>8 DEF SlotInv
<1>9. ASSUME NEW r \in Requests, AdmitPrompt(r) PROVE SlotInv'
  <2> DEFINE h == [req[r] EXCEPT !.pc = "preflight", !.ownsBusy = TRUE]
  <2>1. h.ownsBusy /\ h.stale = req[r].stale /\ h.pc = "preflight"
    BY <1>h DEF Handler, Steps
  <2>2. /\ req'[r] = h /\ \A q \in Requests \ {r} : req'[q] = req[q]
    BY <1>9, <1>t, BecomeOnly DEF AdmitPrompt
  <2>3. PendingOwned'
    BY <1>9, <1>t, <2>1, <2>2, ClaimKeepsOwners DEF AdmitPrompt, Admissible, SlotInv, InFlight
  <2>4. ~req[r].stale
    BY <1>9 DEF AdmitPrompt, Admissible, SlotInv, IdleFresh
  <2>5. /\ Owner(r)' /\ \A q \in Requests \ {r} : Owner(q)' = Owner(q)
        /\ \A q \in Requests : req'[q].stale = req[q].stale
    BY <2>1, <2>2 DEF Owner, InFlight
  <2>6. /\ \A q \in Requests : ~Owner(q)
        /\ \A o \in Operations : ~Inside(o)
        /\ busy' /\ ~opBusy' /\ op' = op
    BY <1>9 DEF AdmitPrompt, Admissible, SlotInv, SlotsExclusive
  <2>7. SlotsExclusive'
    BY <1>t, <2>5, <2>6 DEF SlotsExclusive, Inside, TypeOK
  <2>8. OwnerNeverStale'
    BY <2>4, <2>5 DEF SlotInv, OwnerNeverStale
  <2>9. IdleFresh'
    BY <2>1, <2>2 DEF SlotInv, IdleFresh
  <2> QED
    BY <1>t, <2>3, <2>7, <2>8, <2>9 DEF SlotInv
<1>10. ASSUME NEW r \in Requests, Finish(r) PROVE SlotInv'
  <2>1. PICK a \in Answers : Become(r, [req[r] EXCEPT !.pc = "done", !.answer = a])
    BY <1>10, <1>h, FinalAnswerType DEF Finish, Reply
  <2> DEFINE h == [req[r] EXCEPT !.pc = "done", !.answer = a]
  <2>2. h.pc = "done" /\ h.stale = req[r].stale
    BY <1>h DEF Handler, Steps
  <2>3. /\ req'[r] = h /\ \A q \in Requests \ {r} : req'[q] = req[q]
    BY <1>t, <2>1, BecomeOnly
  <2>4. InFlight(r) /\ ~InFlight(r)'
    BY <1>10, <2>2, <2>3 DEF Finish, InFlight
  <2>5. PendingOwned'
    BY <1>10, <1>t, <2>3, <2>4, DropKeepsOwners DEF Finish, SlotInv
  <2>6. /\ ~Owner(r)' /\ \A q \in Requests \ {r} : Owner(q)' = Owner(q)
        /\ Owner(r) = req[r].ownsBusy
        /\ \A q \in Requests : req'[q].stale = req[q].stale
    BY <1>h, <2>2, <2>3, <2>4 DEF Owner, InFlight, Handler
  <2>7. /\ busy' = IF Owner(r) THEN FALSE ELSE busy
        /\ opBusy' = opBusy /\ op' = op
    BY <1>10, <2>6 DEF Finish
  <2>8. SlotsExclusive'
    <3>1. \A o \in Operations : Inside(o)' = Inside(o)
      BY <2>7 DEF Inside
    <3> QED
      BY <2>6, <2>7, <3>1 DEF SlotInv, SlotsExclusive
  <2>9. OwnerNeverStale'
    BY <2>6 DEF SlotInv, OwnerNeverStale
  <2>10. IdleFresh'
    BY <2>2, <2>3 DEF SlotInv, IdleFresh
  <2> QED
    BY <1>t, <2>5, <2>8, <2>9, <2>10 DEF SlotInv
<1>11. ASSUME NEW o \in Operations, OpStart(o) \/ OpEnd(o) PROVE SlotInv'
  <2>1. req' = req /\ pending' = pending /\ busy' = busy
    BY <1>11 DEF OpStart, OpEnd
  <2>2. PendingOwned' /\ OwnerNeverStale' /\ IdleFresh'
    BY <2>1 DEF SlotInv, PendingOwned, OwnerNeverStale, IdleFresh, InFlight, Owner
  <2>3. \A r \in Requests : Owner(r)' = Owner(r)
    BY <2>1 DEF Owner, InFlight
  <2>4. \A p \in Operations \ {o} : Inside(p)' = Inside(p)
    BY <1>11, <1>t DEF OpStart, OpEnd, Inside, TypeOK
  <2>5. CASE OpStart(o)
    <3>1. Inside(o)' /\ opBusy' /\ ~opBusy /\ ~busy
      BY <1>t, <2>5 DEF OpStart, Inside, TypeOK
    <3> QED
      BY <1>t, <2>1, <2>2, <2>3, <2>4, <3>1 DEF SlotInv, SlotsExclusive
  <2>6. CASE OpEnd(o)
    <3>1. Inside(o) /\ ~Inside(o)' /\ ~opBusy'
      BY <1>t, <2>6 DEF OpEnd, Inside, TypeOK
    <3> QED
      BY <1>t, <2>1, <2>2, <2>3, <2>4, <3>1 DEF SlotInv, SlotsExclusive, TypeOK
  <2> QED
    BY <1>11, <2>5, <2>6
<1>12. ASSUME NEW o \in Operations, OpSwitch(o) PROVE SlotInv'
  <2>1. PICK s \in Sessions : Switch(s)
    BY <1>12, <1>t DEF OpSwitch, TypeOK
  <2>2. \A r \in Requests : /\ req'[r].pc = req[r].pc
                            /\ req'[r].ownsBusy = req[r].ownsBusy
                            /\ req[r].pc = "idle" => req'[r].stale = req[r].stale
    BY <1>h, <2>1 DEF Switch, Handler, InFlight
  <2>3. \A r \in Requests : InFlight(r)' = InFlight(r) /\ Owner(r)' = Owner(r)
    BY <2>2 DEF InFlight, Owner
  <2>4. /\ busy' = busy /\ opBusy' = opBusy /\ pending' = pending
        /\ \A p \in Operations : Inside(p)' = Inside(p)
        /\ Inside(o)
    BY <1>12, <1>t DEF OpSwitch, slots, Inside, TypeOK
  <2>5. SlotsExclusive'
    BY <2>3, <2>4 DEF SlotInv, SlotsExclusive
  <2>6. PendingOwned'
    BY <2>3, <2>4 DEF SlotInv, PendingOwned
  <2>7. \A r \in Requests : ~Owner(r)
    BY <2>4 DEF SlotInv, SlotsExclusive
  <2>8. OwnerNeverStale' /\ IdleFresh'
    BY <2>2, <2>3, <2>7 DEF SlotInv, OwnerNeverStale, IdleFresh
  <2> QED
    BY <1>t, <2>5, <2>6, <2>8 DEF SlotInv
<1>13. CASE Restart
  <2>1. \A r \in Requests : /\ ~InFlight(r)' /\ ~Owner(r)'
                            /\ req'[r].pc = "idle" => req'[r] = req[r]
    BY <1>13, <1>h DEF Restart, InFlight, Owner, Handler
  <2>2. /\ \A o \in Operations : ~Inside(o)'
        /\ ~busy' /\ ~opBusy' /\ \A k \in Keys : pending'[k] = NoDigest
    BY <1>13 DEF Restart, Inside
  <2>3. SlotsExclusive' /\ PendingOwned' /\ OwnerNeverStale'
    BY <1>t, <2>1, <2>2 DEF SlotsExclusive, PendingOwned, OwnerNeverStale, TypeOK
  <2>4. IdleFresh'
    BY <2>1 DEF SlotInv, IdleFresh
  <2> QED
    BY <1>t, <2>3, <2>4 DEF SlotInv
<1> QED
  BY <1>1, <1>2, <1>3, <1>4, <1>5, <1>6, <1>7, <1>8, <1>9, <1>10, <1>11, <1>12, <1>13
     DEF Next, Gateway, Library, Operation, Environment

LEMMA SlotAlways == Spec => []SlotInv
BY SlotInit, SlotStep, PTL DEF Spec

\* The prompt slot and the session slot exclude each other, each is held by at
\* most one handler, and a taken slot has a holder.
THEOREM SlotsSafe == Spec => []SlotsExclusive
BY SlotAlways, PTL DEF SlotInv

\* Every pending key belongs to exactly one unanswered request.
THEOREM PendingSafe == Spec => []PendingOwned
BY SlotAlways, PTL DEF SlotInv

\* The session is never replaced under a request that holds the prompt slot.
THEOREM OwnerSafe == Spec => []OwnerNeverStale
BY SlotAlways, PTL DEF SlotInv

-----------------------------------------------------------------------------
(* At most one run per request id, across restarts, among the runs whose    *)
(* receipt could be written.  Such a run leaves a receipt in the session's  *)
(* file and, while that session is the active one, in memory; so a request  *)
(* that is admitted later finds it.                                         *)

Ran(r) == Id(r) # NoId /\ req[r].effect = "run" /\ ~req[r].receiptError

RunRecorded ==
    \A r \in Requests : Ran(r) =>
        /\ \E e \in disk[Session(r)] : e.id = Id(r)
        /\ active = Session(r) => \E e \in entries : e.id = Id(r)

RanBefore ==
    \A q, r \in Requests : Same(q, r) /\ Ran(q) /\ InFlight(r) => q = r

FreshOnActive ==
    \A r \in Requests : InFlight(r) /\ ~req[r].stale /\ Id(r) # NoId => Session(r) = active

NoFileNoReceipts == \A s \in Sessions : s \notin file => disk[s] = {}

IdleNoRun == \A r \in Requests : req[r].pc = "idle" => ~Ran(r)

RunInv == RunAtMostOnce /\ RunRecorded /\ RanBefore /\ FreshOnActive /\ NoFileNoReceipts /\ IdleNoRun

LEMMA RunInit == Init => RunInv
<1> SUFFICES ASSUME Init PROVE RunInv
  OBVIOUS
<1>1. \A r \in Requests : ~Ran(r) /\ ~InFlight(r)
  BY DEF Init, Ran, InFlight, NewHandler
<1>2. RunAtMostOnce
  BY <1>1 DEF RunAtMostOnce, Ran, Same
<1>3. NoFileNoReceipts
  BY DEF Init, NoFileNoReceipts
<1> QED
  BY <1>1, <1>2, <1>3 DEF RunInv, RunRecorded, RanBefore, FreshOnActive, IdleNoRun

\* Receipts of the sessions are only added to.
Grows == /\ \A s \in Sessions : disk[s] \subseteq disk'[s]
         /\ active' = active /\ entries \subseteq entries'
         /\ NoFileNoReceipts'

\* A step that starts no run, admits nothing and only adds receipts.
LEMMA RunQuiet ==
    ASSUME RunInv, TypeOK, Grows,
           \A r \in Requests : /\ Ran(r)' => Ran(r)
                               /\ InFlight(r)' => InFlight(r) /\ req'[r].stale = req[r].stale
                               /\ req'[r].pc = "idle" => req[r].pc = "idle"
    PROVE  RunInv'
<1>1. RunAtMostOnce'
  BY DEF RunInv, RunAtMostOnce, Ran, Same
<1>2. RunRecorded'
  <2> SUFFICES ASSUME NEW r \in Requests, Ran(r)'
               PROVE  /\ \E e \in disk'[Session(r)] : e.id = Id(r)
                      /\ active' = Session(r) => \E e \in entries' : e.id = Id(r)
    BY DEF RunRecorded
  <2>1. Ran(r)
    OBVIOUS
  <2>2. Session(r) \in Sessions
    BY SubmittedTypes
  <2> QED
    BY <2>1, <2>2 DEF RunInv, RunRecorded, Grows
<1>3. RanBefore'
  BY DEF RunInv, RanBefore, Same
<1>4. FreshOnActive'
  BY DEF RunInv, FreshOnActive, Grows
<1>5. IdleNoRun'
  BY DEF RunInv, IdleNoRun
<1> QED
  BY <1>1, <1>2, <1>3, <1>4, <1>5 DEF RunInv, Grows

\* persistSessionBeforeFirstAssistant forgets nothing that was on disk.
LEMMA PersistedGrows ==
    ASSUME NoFileNoReceipts, NEW s \in Sessions
    PROVE  disk[s] \subseteq Persisted(s)
BY DEF NoFileNoReceipts, Persisted

LEMMA RunWritesGrows ==
    ASSUME TypeOK, RunInv, RunWrites, active' = active, entries' = entries
    PROVE  Grows
<1>1. active \in Sessions /\ disk[active] \subseteq Persisted(active)
  BY PersistedGrows DEF RunInv, TypeOK
<1>2. CASE UNCHANGED storage
  BY <1>2 DEF Grows, storage, RunInv, NoFileNoReceipts
<1>3. CASE file' = file \cup {active} /\ disk' = [disk EXCEPT ![active] = Persisted(active)]
  BY <1>1, <1>3 DEF Grows, RunInv, NoFileNoReceipts, TypeOK
<1> QED
  BY <1>2, <1>3 DEF RunWrites

\* The acceptance callback adds receipts, or notes that it could not.
LEMMA AcceptGrows ==
    ASSUME TypeOK, RunInv, NEW r \in Requests, NEW h,
           Accept(r, h), active' = active
    PROVE  /\ Grows
           /\ \/ /\ Become(r, [h EXCEPT !.accepted = TRUE])
                 /\ Id(r) # NoId => /\ ReceiptOf(r, FALSE) \in disk'[Session(r)]
                                    /\ ~req[r].stale => ReceiptOf(r, FALSE) \in entries'
              \/ Become(r, [h EXCEPT !.accepted = TRUE, !.receiptError = TRUE])
<1>s. disk[Session(r)] \subseteq Persisted(Session(r)) /\ Session(r) \in Sessions
  BY PersistedGrows, SubmittedTypes DEF RunInv
<1>1. CASE Id(r) = NoId
  BY <1>1 DEF Accept, Grows, storage, RunInv, NoFileNoReceipts
<1>2. CASE Id(r) # NoId /\ Stored(r) /\ Become(r, [h EXCEPT !.accepted = TRUE])
  <2>1. /\ \A s \in Sessions : disk[s] \subseteq disk'[s]
        /\ ReceiptOf(r, FALSE) \in disk'[Session(r)]
        /\ entries \subseteq entries'
        /\ ~req[r].stale => ReceiptOf(r, FALSE) \in entries'
    BY <1>2, <1>s DEF Stored, TypeOK
  <2>2. NoFileNoReceipts'
    BY <1>2, <1>s DEF Stored, TypeOK, RunInv, NoFileNoReceipts
  <2> QED
    BY <1>2, <2>1, <2>2 DEF Grows
<1>3. CASE /\ Id(r) # NoId /\ AppendFailed(r)
           /\ Become(r, [h EXCEPT !.accepted = TRUE, !.receiptError = TRUE])
  <2>1. /\ \A s \in Sessions : disk[s] \subseteq disk'[s]
        /\ entries \subseteq entries'
    BY <1>3, <1>s DEF AppendFailed, TypeOK
  <2>2. NoFileNoReceipts'
    BY <1>3, <1>s DEF AppendFailed, TypeOK, RunInv, NoFileNoReceipts
  <2> QED
    BY <1>3, <2>1, <2>2 DEF Grows
<1>4. CASE /\ Id(r) # NoId /\ PersistFailed(r)
           /\ Become(r, [h EXCEPT !.accepted = TRUE, !.receiptError = TRUE])
  BY <1>4 DEF PersistFailed, Grows, storage, RunInv, NoFileNoReceipts
<1> QED
  BY <1>1, <1>2, <1>3, <1>4 DEF Accept

LEMMA RunStep == SlotInv /\ RunInv /\ [Next]_vars => RunInv'
<1> SUFFICES ASSUME SlotInv, RunInv, [Next]_vars PROVE RunInv'
  OBVIOUS
<1>t. TypeOK /\ TypeOK'
  BY TypeStep DEF SlotInv
<1>h. \A r \in Requests : req[r] \in Handler
  BY <1>t DEF TypeOK
<1>g. UNCHANGED <<active, entries, storage>> => Grows
  BY DEF Grows, storage, RunInv, NoFileNoReceipts
<1>1. ASSUME NEW r \in Requests, Replay(r) \/ Refuse(r) \/ Finish(r) PROVE RunInv'
  <2>1. PICK a : Become(r, [req[r] EXCEPT !.pc = "done", !.answer = a])
    BY <1>1 DEF Replay, Refuse, Finish, Reply
  <2>2. /\ req'[r].pc = "done" /\ req'[r].effect = req[r].effect
        /\ req'[r].receiptError = req[r].receiptError
        /\ \A q \in Requests \ {r} : req'[q] = req[q]
    <3> DEFINE h == [req[r] EXCEPT !.pc = "done", !.answer = a]
    <3>1. h.pc = "done" /\ h.effect = req[r].effect /\ h.receiptError = req[r].receiptError
      BY <1>h DEF Handler
    <3>2. Become(r, h)
      BY <2>1
    <3>3. /\ req'[r] = h
          /\ \A q \in Requests \ {r} : req'[q] = req[q]
      BY <1>t, <3>2, BecomeOnly
    <3> QED
      BY <3>1, <3>3
  <2>3. Grows
    BY <1>1, <1>g DEF Replay, Refuse, Finish, session
  <2> QED
    BY <1>t, <2>2, <2>3, RunQuiet DEF Ran, InFlight
<1>2. ASSUME NEW r \in Requests, LibReject(r) \/ LibHandle(r) PROVE RunInv'
  <2>1. /\ req'[r].pc \in {"settled", "handled"}
        /\ req'[r].effect \in {"command", req[r].effect}
        /\ req'[r].receiptError = req[r].receiptError
        /\ req'[r].stale = req[r].stale
        /\ \A q \in Requests \ {r} : req'[q] = req[q]
        /\ InFlight(r)
    <3>1. CASE LibReject(r)
      <4> DEFINE h == [req[r] EXCEPT !.pc = "settled", !.threw = TRUE]
      <4>1. /\ h.pc = "settled" /\ h.effect = req[r].effect /\ h.stale = req[r].stale
            /\ h.receiptError = req[r].receiptError
        BY <1>h DEF Handler
      <4>2. Become(r, h)
        BY <3>1 DEF LibReject
      <4>3. /\ req'[r] = h
            /\ \A q \in Requests \ {r} : req'[q] = req[q]
        BY <1>t, <4>2, BecomeOnly
      <4> QED
        BY <3>1, <4>1, <4>3 DEF LibReject, InFlight
    <3>2. CASE LibHandle(r)
      <4> DEFINE h == [req[r] EXCEPT !.pc = "handled", !.effect = "command"]
      <4>1. /\ h.pc = "handled" /\ h.effect = "command" /\ h.stale = req[r].stale
            /\ h.receiptError = req[r].receiptError
        BY <1>h DEF Handler
      <4>2. Become(r, h)
        BY <3>2 DEF LibHandle
      <4>3. /\ req'[r] = h
            /\ \A q \in Requests \ {r} : req'[q] = req[q]
        BY <1>t, <4>2, BecomeOnly
      <4> QED
        BY <3>2, <4>1, <4>3 DEF LibHandle, InFlight
    <3> QED
      BY <1>2, <3>1, <3>2
  <2>2. Grows
    BY <1>2, <1>g DEF LibReject, LibHandle, session
  <2> QED
    BY <1>t, <2>1, <2>2, RunQuiet DEF Ran, InFlight
<1>3. ASSUME NEW r \in Requests, LibAcceptHandled(r) PROVE RunInv'
  <2>1. PICK threw \in BOOLEAN :
            Accept(r, [req[r] EXCEPT !.pc = "settled", !.threw = threw])
    BY <1>3 DEF LibAcceptHandled
  <2> DEFINE h == [req[r] EXCEPT !.pc = "settled", !.threw = threw]
             h1 == [h EXCEPT !.accepted = TRUE]
             h2 == [h EXCEPT !.accepted = TRUE, !.receiptError = TRUE]
  <2>2. Accept(r, h) /\ active' = active
    BY <1>3, <2>1 DEF LibAcceptHandled
  <2> HIDE DEF h
  <2>3. Grows /\ (Become(r, h1) \/ Become(r, h2))
    BY <1>t, <2>2, AcceptGrows
  <2>4. /\ h1.pc = "settled" /\ h1.effect = req[r].effect
        /\ h1.stale = req[r].stale /\ h1.receiptError = req[r].receiptError
        /\ h2.pc = "settled" /\ h2.effect = req[r].effect
        /\ h2.stale = req[r].stale /\ h2.receiptError
    BY <1>h DEF h, Handler
  <2>5. /\ req'[r] \in {h1, h2}
        /\ \A q \in Requests \ {r} : req'[q] = req[q]
    BY <1>t, <2>3, BecomeOnly
  <2>6. /\ req'[r].pc = "settled" /\ req'[r].effect = req[r].effect
        /\ req'[r].stale = req[r].stale
        /\ req[r].receiptError => req'[r].receiptError
        /\ InFlight(r)
    <3> HIDE DEF h1, h2
    <3> QED
      BY <1>3, <1>h, <2>4, <2>5 DEF LibAcceptHandled, InFlight, Handler
  <2> QED
    BY <1>t, <2>3, <2>5, <2>6, RunQuiet DEF Ran, InFlight
<1>4. ASSUME NEW r \in Requests, LibRunEnds(r) PROVE RunInv'
  <2>1. PICK threw \in BOOLEAN :
            Become(r, [req[r] EXCEPT !.pc = "settled", !.threw = threw])
    BY <1>4 DEF LibRunEnds
  <2>2. /\ req'[r].pc = "settled" /\ req'[r].effect = req[r].effect
        /\ req'[r].receiptError = req[r].receiptError
        /\ req'[r].stale = req[r].stale
        /\ \A q \in Requests \ {r} : req'[q] = req[q]
        /\ InFlight(r)
    <3> DEFINE h == [req[r] EXCEPT !.pc = "settled", !.threw = threw]
    <3>1. /\ h.pc = "settled" /\ h.effect = req[r].effect /\ h.stale = req[r].stale
          /\ h.receiptError = req[r].receiptError
      BY <1>h DEF Handler
    <3>2. Become(r, h)
      BY <2>1
    <3>3. /\ req'[r] = h
          /\ \A q \in Requests \ {r} : req'[q] = req[q]
      BY <1>t, <3>2, BecomeOnly
    <3> QED
      BY <3>1, <3>3, <1>4 DEF LibRunEnds, InFlight
  <2>4. Grows
    <3>1. CASE UNCHANGED storage
      BY <1>4, <1>g, <3>1 DEF LibRunEnds
    <3>2. CASE RunWrites
      BY <1>4, <1>t, <3>2, RunWritesGrows DEF LibRunEnds
    <3> QED
      BY <1>4, <3>1, <3>2 DEF LibRunEnds, storage
  <2> QED
    BY <1>t, <2>2, <2>4, RunQuiet DEF Ran, InFlight
<1>5. ASSUME NEW r \in Requests, AdmitSteer(r) \/ AdmitPrompt(r) PROVE RunInv'
  <2>1. /\ req[r].pc = "idle" /\ ~WrongSession(r) /\ ~Known(r)
        /\ UNCHANGED <<active, entries, storage>>
    BY <1>5 DEF AdmitSteer, AdmitPrompt, Admissible, session
  <2>2. /\ req'[r].pc = "preflight" /\ req'[r].effect = req[r].effect
        /\ req'[r].receiptError = req[r].receiptError
        /\ \A q \in Requests \ {r} : req'[q] = req[q]
    <3>1. CASE AdmitSteer(r)
      <4> DEFINE h == [req[r] EXCEPT !.pc = "preflight"]
      <4>1. h.pc = "preflight" /\ h.effect = req[r].effect /\ h.receiptError = req[r].receiptError
        BY <1>h DEF Handler
      <4>2. Become(r, h)
        BY <3>1 DEF AdmitSteer
      <4>3. /\ req'[r] = h
            /\ \A q \in Requests \ {r} : req'[q] = req[q]
        BY <1>t, <4>2, BecomeOnly
      <4> QED
        BY <3>1, <4>1, <4>3 DEF AdmitSteer
    <3>2. CASE AdmitPrompt(r)
      <4> DEFINE h == [req[r] EXCEPT !.pc = "preflight", !.ownsBusy = TRUE]
      <4>1. h.pc = "preflight" /\ h.effect = req[r].effect /\ h.receiptError = req[r].receiptError
        BY <1>h DEF Handler
      <4>2. Become(r, h)
        BY <3>2 DEF AdmitPrompt
      <4>3. /\ req'[r] = h
            /\ \A q \in Requests \ {r} : req'[q] = req[q]
        BY <1>t, <4>2, BecomeOnly
      <4> QED
        BY <3>2, <4>1, <4>3 DEF AdmitPrompt
    <3> QED
      BY <1>5, <3>1, <3>2
  <2>3. \A q \in Requests : Ran(q)' = Ran(q)
    BY <2>2 DEF Ran
  <2>4. ~Ran(r)
    BY <2>1 DEF RunInv, IdleNoRun
  <2>5. ASSUME NEW q \in Requests, Same(q, r), Ran(q) PROVE FALSE
    <3>1. active = Session(q)
      BY <2>1, <2>5 DEF Same, Key, WrongSession
    <3>2. \E e \in entries : e.id = Id(r)
      BY <2>5, <3>1 DEF RunInv, RunRecorded, Same, Key
    <3> QED
      BY <2>1, <2>5, <3>2 DEF Known, Recorded, Same
  <2>6. RunAtMostOnce' /\ IdleNoRun'
    BY <2>2, <2>3 DEF RunInv, RunAtMostOnce, IdleNoRun, Ran, Same
  <2>7. RunRecorded' /\ NoFileNoReceipts'
    BY <2>1, <2>3 DEF RunInv, RunRecorded, NoFileNoReceipts, storage
  <2>8. \A q \in Requests \ {r} : InFlight(q)' = InFlight(q)
    BY <2>2 DEF InFlight
  <2>9. RanBefore'
    BY <2>3, <2>5, <2>8 DEF RunInv, RanBefore, Same
  <2>10. FreshOnActive'
    BY <2>1, <2>2, <2>8 DEF RunInv, FreshOnActive, WrongSession
  <2> QED
    BY <2>6, <2>7, <2>9, <2>10 DEF RunInv
<1>6. ASSUME NEW r \in Requests, LibRun(r) PROVE RunInv'
  <2> DEFINE h == [req[r] EXCEPT !.pc = "running", !.effect = "run"]
             h1 == [h EXCEPT !.accepted = TRUE]
             h2 == [h EXCEPT !.accepted = TRUE, !.receiptError = TRUE]
  <2>0. Accept(r, h) /\ active' = active /\ ~req[r].stale /\ req[r].pc = "preflight"
    BY <1>6 DEF LibRun
  <2> HIDE DEF h
  <2>a. /\ Grows
        /\ \/ /\ Become(r, h1)
              /\ Id(r) # NoId => /\ ReceiptOf(r, FALSE) \in disk'[Session(r)]
                                 /\ ReceiptOf(r, FALSE) \in entries'
           \/ Become(r, h2)
    BY <1>t, <2>0, AcceptGrows
  <2>b. /\ h1.pc = "running" /\ h1.stale = req[r].stale
        /\ h2.pc = "running" /\ h2.stale = req[r].stale /\ h2.receiptError
    BY <1>h DEF h, Handler
  <2>c. /\ Become(r, h1) => req'[r] = h1
        /\ Become(r, h2) => req'[r] = h2
        /\ \A q \in Requests \ {r} : req'[q] = req[q]
    BY <1>t, <2>a, BecomeOnly
  <2>1. /\ Grows
        /\ Ran(r)' => /\ ReceiptOf(r, FALSE) \in disk'[Session(r)]
                      /\ ReceiptOf(r, FALSE) \in entries'
    <3> HIDE DEF h1, h2
    <3> QED
      BY <2>a, <2>b, <2>c DEF Ran
  <2>2. /\ req'[r].pc = "running" /\ req'[r].stale = req[r].stale /\ ~req[r].stale
        /\ \A q \in Requests \ {r} : req'[q] = req[q]
        /\ InFlight(r)
    <3> HIDE DEF h1, h2
    <3> QED
      BY <2>0, <2>a, <2>b, <2>c DEF InFlight
  <2>3. /\ \A q \in Requests \ {r} : Ran(q)' = Ran(q)
        /\ \A q \in Requests : InFlight(q)' = InFlight(q)
    BY <2>2 DEF Ran, InFlight
  <2>4. RunAtMostOnce'
    BY <2>2, <2>3 DEF RunInv, RunAtMostOnce, RanBefore, Ran, Same
  <2>5. RanBefore'
    <3>1. ASSUME NEW q \in Requests, NEW x \in Requests, Same(q, x), Ran(q)', InFlight(x)'
          PROVE  q = x
      <4>1. CASE q = r
        BY <2>2, <2>3, <3>1, <4>1 DEF SlotInv, PendingOwned
      <4>2. CASE q # r
        BY <2>3, <3>1, <4>2 DEF RunInv, RanBefore
      <4> QED
        BY <4>1, <4>2
    <3> QED
      BY <3>1 DEF RanBefore, Same
  <2>6. RunRecorded'
    <3> SUFFICES ASSUME NEW q \in Requests, Ran(q)'
                 PROVE  /\ \E e \in disk'[Session(q)] : e.id = Id(q)
                        /\ active' = Session(q) => \E e \in entries' : e.id = Id(q)
      BY DEF RunRecorded
    <3>1. CASE q = r
      BY <2>1, <3>1 DEF ReceiptOf, Ran
    <3>2. CASE q # r
      BY <2>1, <2>3, <3>2, SubmittedTypes DEF RunInv, RunRecorded, Grows
    <3> QED
      BY <3>1, <3>2
  <2>7. FreshOnActive' /\ NoFileNoReceipts' /\ IdleNoRun'
    BY <2>1, <2>2, <2>3 DEF RunInv, FreshOnActive, Grows, IdleNoRun
  <2> QED
    BY <2>4, <2>5, <2>6, <2>7 DEF RunInv
<1>7. CASE OtherRunStarts \/ OtherRunEnds \/ Compaction \/ UNCHANGED vars
  <2>1. UNCHANGED <<active, entries, req>>
    BY <1>7 DEF OtherRunStarts, OtherRunEnds, Compaction, vars, session
  <2>2. Grows
    <3>1. CASE OtherRunEnds
      BY <1>t, <2>1, <3>1, RunWritesGrows DEF OtherRunEnds
    <3>2. CASE UNCHANGED storage
      BY <1>g, <2>1, <3>2
    <3> QED
      BY <1>7, <3>1, <3>2 DEF OtherRunStarts, Compaction, vars
  <2> QED
    BY <1>t, <2>1, <2>2, RunQuiet DEF Ran, InFlight
<1>8. ASSUME NEW o \in Operations, OpStart(o) \/ OpEnd(o) PROVE RunInv'
  <2>1. UNCHANGED <<active, entries, storage, req>>
    BY <1>8 DEF OpStart, OpEnd, session
  <2> QED
    BY <1>t, <1>g, <2>1, RunQuiet DEF Ran, InFlight
<1>9. ASSUME NEW s \in Sessions, active' = s, entries' = disk[s], UNCHANGED storage,
             \A r \in Requests : /\ Ran(r)' = Ran(r)
                                 /\ InFlight(r)' => InFlight(r) /\ req'[r].stale
                                 /\ req'[r].pc = "idle" => req[r].pc = "idle"
      PROVE  RunInv'
  <2>1. RunAtMostOnce' /\ IdleNoRun'
    BY <1>9 DEF RunInv, RunAtMostOnce, IdleNoRun, Ran, Same
  <2>2. RunRecorded' /\ NoFileNoReceipts'
    BY <1>9 DEF RunInv, RunRecorded, NoFileNoReceipts, storage
  <2>3. RanBefore'
    BY <1>9 DEF RunInv, RanBefore, Same
  <2>4. FreshOnActive'
    BY <1>9 DEF FreshOnActive
  <2> QED
    BY <2>1, <2>2, <2>3, <2>4 DEF RunInv
<1>10. ASSUME NEW o \in Operations, OpSwitch(o) PROVE RunInv'
  <2>1. PICK s \in Sessions : Switch(s)
    BY <1>10, <1>t DEF OpSwitch, TypeOK
  <2>2. \A r \in Requests : /\ req'[r].pc = req[r].pc /\ req'[r].effect = req[r].effect
                            /\ req'[r].receiptError = req[r].receiptError
                            /\ InFlight(r) => req'[r].stale
    BY <1>h, <2>1 DEF Switch, Handler
  <2> QED
    BY <1>9, <1>10, <2>1, <2>2 DEF OpSwitch, Switch, Ran, InFlight
<1>11. CASE Restart
  <2>1. \A r \in Requests : /\ req'[r].effect = req[r].effect
                            /\ req'[r].receiptError = req[r].receiptError
                            /\ ~InFlight(r)'
                            /\ req'[r].pc = "idle" => req[r].pc = "idle"
    BY <1>11, <1>h DEF Restart, Handler, InFlight
  <2>2. PICK s \in Sessions : active' = s /\ entries' = disk[s]
    BY <1>11, <1>t DEF Restart, TypeOK
  <2> QED
    BY <1>9, <1>11, <2>1, <2>2 DEF Restart, Ran
<1> QED
  BY <1>1, <1>2, <1>3, <1>4, <1>5, <1>6, <1>7, <1>8, <1>10, <1>11
     DEF Next, Gateway, Library, Operation, Environment

\* A request id starts at most one run in its session among those whose receipt
\* could be written, however many requests carry it, whatever else fails and
\* however often the process restarts.
THEOREM RunOnce == Spec => []RunAtMostOnce
<1>1. Init => RunInv
  BY RunInit
<1>2. SlotInv /\ RunInv /\ [Next]_vars => RunInv'
  BY RunStep
<1>3. RunInv => RunAtMostOnce
  BY DEF RunInv
<1> QED
  BY <1>1, <1>2, <1>3, SlotAlways, PTL DEF Spec

-----------------------------------------------------------------------------
(***************************************************************************)
(* What the receipts are worth: a run that started has its receipt on disk, *)
(* what the answers tell a client is so, and no submission takes effect      *)
(* twice.  The invariants above say who may write a receipt; those below     *)
(* follow a receipt back to the submission it stands for, through memory,    *)
(* the session's file and a restart.                                         *)
(***************************************************************************)

\* How far a handler is, against what it did and said.
Shape(h) ==
    /\ h.pc \in {"idle", "preflight"} => h.effect = "none"
    /\ h.pc \in {"idle", "preflight", "handled"} => ~h.accepted
    /\ h.pc = "running" => h.effect = "run" /\ h.accepted
    /\ h.pc = "settled" /\ ~h.accepted => h.effect = "none"
    /\ h.pc # "done" => h.answer = "none"
    /\ h.pc = "done" /\ h.answer # "lost" /\ ~h.accepted => h.effect = "none"

Shaped == \A r \in Requests : Shape(req[r])

\* The receipt e of session s stands for an accepted submission.
Origin(s, e) ==
    \E q \in Requests : /\ Id(q) # NoId /\ Session(q) = s
                        /\ Id(q) = e.id /\ Digest(q) = e.digest
                        /\ req[q].accepted

Origins ==
    /\ \A e \in entries : e.failed \/ Origin(active, e)
    /\ \A s \in Sessions : \A e \in disk[s] : e.failed \/ Origin(s, e)

Received(r) ==
    \E q \in Requests : Same(q, r) /\ Digest(q) = Digest(r) /\ req[q].accepted

ReceivedReally == \A r \in Requests : req[r].answer = "received" => Received(r)

ReceiptKept == \A r \in Requests : Ran(r) => ReceiptOf(r, FALSE) \in disk[Session(r)]

\* The submission took effect and left its receipt in its session's memory.
Delivered(r) ==
    /\ Id(r) # NoId
    /\ req[r].effect # "none" /\ req[r].accepted
    /\ ~req[r].receiptError /\ ~req[r].stale

DeliveredRecorded ==
    \A r \in Requests : Delivered(r) =>
        /\ ReceiptOf(r, FALSE) \in disk[Session(r)]
        /\ active = Session(r) => ReceiptOf(r, FALSE) \in entries

DeliveredBefore ==
    \A q, r \in Requests : Same(q, r) /\ Delivered(q) /\ InFlight(r) => q = r

LostByRestart == \A r \in Requests : req[r].answer = "lost" => restarts # 0

AnswerInv ==
    /\ Shaped /\ Origins /\ ReceivedReally /\ ReceiptKept
    /\ DeliveredRecorded /\ DeliveredBefore /\ LostByRestart
    /\ EffectAtMostOnce

LEMMA AnswerInit == Init => AnswerInv
<1> SUFFICES ASSUME Init PROVE AnswerInv
  OBVIOUS
<1>1. \A r \in Requests : req[r] = NewHandler
  BY DEF Init
<1>2. Shaped /\ ReceivedReally /\ ReceiptKept
  <2>1. Shape(NewHandler)
    BY DEF Shape, NewHandler
  <2>2. NewHandler.answer = "none" /\ NewHandler.effect = "none"
    BY DEF NewHandler
  <2> QED
    BY <1>1, <2>1, <2>2 DEF Shaped, ReceivedReally, ReceiptKept, Ran
<1>4. DeliveredRecorded /\ DeliveredBefore /\ LostByRestart /\ EffectAtMostOnce
  <2>1. NewHandler.answer = "none" /\ NewHandler.effect = "none"
    BY DEF NewHandler
  <2>2. \A r \in Requests : req[r].effect = "none" /\ req[r].answer = "none"
    BY <1>1, <2>1
  <2>3. DeliveredRecorded /\ DeliveredBefore
    BY <2>2 DEF DeliveredRecorded, DeliveredBefore, Delivered
  <2>4. LostByRestart /\ EffectAtMostOnce
    BY <2>2 DEF LostByRestart, EffectAtMostOnce
  <2> QED
    BY <2>3, <2>4
<1>3. Origins
  BY DEF Init, Origins
<1> QED
  BY <1>2, <1>3, <1>4 DEF AnswerInv

-----------------------------------------------------------------------------
(* What a step does to one handler, and what it does to the receipts.       *)

Moved(r) ==
    /\ Shape(req'[r])
    /\ req[r].accepted => req'[r].accepted
    /\ req'[r].answer = "received" => req[r].answer = "received" \/ Received(r)
    /\ Ran(r)' => Ran(r) \/ ReceiptOf(r, FALSE) \in disk'[Session(r)]
    /\ Delivered(r)' => \/ Delivered(r)
                        \/ /\ InFlight(r)
                           /\ ReceiptOf(r, FALSE) \in disk'[Session(r)]
                           /\ ReceiptOf(r, FALSE) \in entries'
    /\ InFlight(r)' => InFlight(r) \/ (~Known(r) /\ ~WrongSession(r))
    /\ req'[r].effect # "none" => req[r].effect # "none" \/ InFlight(r)'
    /\ req'[r].answer = "lost" => req[r].answer = "lost" \/ restarts' # 0
    /\ req[r].receiptError => req'[r].receiptError
    /\ req[r].stale => req'[r].stale

\* The receipt e is one that this step writes for an accepted submission.
Fresh(s, e) ==
    \E q \in Requests : /\ Id(q) # NoId /\ Session(q) = s
                        /\ e = ReceiptOf(q, FALSE) /\ req'[q].accepted

Flow ==
    /\ \A s \in Sessions : disk[s] \subseteq disk'[s]
    /\ \A s \in Sessions : \A e \in disk'[s] :
          e.failed \/ e \in disk[s] \/ (s = active /\ e \in entries) \/ Fresh(s, e)
    /\ \A e \in entries' :
          \/ e.failed
          \/ active' = active /\ e \in entries
          \/ e \in disk[active']
          \/ Fresh(active', e)
    /\ (active' = active /\ entries \subseteq entries') \/ entries' = disk'[active']
    /\ restarts' = 0 => restarts = 0

\* Together they carry the invariant over a step.
LEMMA AnswerCarried ==
    ASSUME SlotInv, SlotInv', AnswerInv, Flow, \A r \in Requests : Moved(r)
    PROVE  AnswerInv'
<1>1. Shaped'
  BY DEF Moved, Shaped
<1>2. ASSUME NEW s, NEW e, Origin(s, e) PROVE Origin(s, e)'
  BY <1>2 DEF Origin, Moved, Id, Session, Digest
<1>3. ASSUME NEW s, NEW e, Fresh(s, e) PROVE Origin(s, e)'
  BY <1>3 DEF Origin, Fresh, ReceiptOf, Id, Session, Digest
<1>4. Origins'
  <2>1. ASSUME NEW s \in Sessions, NEW e \in disk'[s] PROVE e.failed \/ Origin(s, e)'
    BY <1>2, <1>3, <2>1 DEF Flow, AnswerInv, Origins
  <2>2. ASSUME NEW e \in entries' PROVE e.failed \/ Origin(active, e)'
    <3>1. active' \in Sessions
      BY DEF SlotInv, TypeOK
    <3>2. e.failed \/ Origin(active', e) \/ Fresh(active', e)
      BY <2>2, <3>1 DEF Flow, AnswerInv, Origins
    <3>3. Origin(active', e) => Origin(active, e)'
      BY DEF Origin, Moved, Id, Session, Digest
    <3>4. Fresh(active', e) => Origin(active, e)'
      BY DEF Origin, Fresh, ReceiptOf, Id, Session, Digest
    <3> QED
      BY <3>2, <3>3, <3>4
  <2> QED
    BY <2>1, <2>2 DEF Origins
<1>5. ReceivedReally'
  BY DEF Moved, AnswerInv, ReceivedReally, Received, Same, Key, Id, Session, Digest
<1>6. ReceiptKept'
  BY SubmittedTypes DEF Moved, Flow, AnswerInv, ReceiptKept
<1>7. DeliveredRecorded'
  <2> SUFFICES ASSUME NEW r \in Requests, Delivered(r)'
               PROVE  /\ ReceiptOf(r, FALSE) \in disk'[Session(r)]
                      /\ active' = Session(r) => ReceiptOf(r, FALSE) \in entries'
    BY DEF DeliveredRecorded
  <2>1. CASE Delivered(r)
    BY <2>1, SubmittedTypes DEF AnswerInv, DeliveredRecorded, Flow
  <2>2. CASE ReceiptOf(r, FALSE) \in disk'[Session(r)] /\ ReceiptOf(r, FALSE) \in entries'
    BY <2>2
  <2> QED
    BY <2>1, <2>2 DEF Moved
<1>8. DeliveredBefore'
  <2>1. ASSUME NEW q \in Requests, NEW r \in Requests,
               Same(q, r), Delivered(q)', InFlight(r)', q # r
        PROVE  FALSE
    <3>1. Id(q) # NoId /\ Id(r) = Id(q) /\ Session(r) = Session(q) /\ Key(r) = Key(q)
      BY <2>1 DEF Same, Key
    <3>2. CASE Delivered(q) /\ InFlight(r)
      BY <2>1, <3>2 DEF AnswerInv, DeliveredBefore
    <3>3. CASE Delivered(q) /\ ~Known(r) /\ ~WrongSession(r)
      <4>1. active = Session(q)
        BY <3>1, <3>3 DEF WrongSession
      <4>2. ReceiptOf(q, FALSE) \in entries /\ ReceiptOf(q, FALSE).id = Id(r)
        BY <3>1, <3>3, <4>1 DEF AnswerInv, DeliveredRecorded, ReceiptOf
      <4> QED
        BY <3>1, <3>3, <4>2 DEF Known, Recorded
    <3>4. CASE InFlight(q) /\ InFlight(r)
      BY <2>1, <3>4 DEF SlotInv, PendingOwned
    <3>5. CASE InFlight(q) /\ ~Known(r)
      <4>1. pending[Key(r)] # NoDigest
        BY <3>1, <3>5, SubmittedTypes DEF SlotInv, PendingOwned
      <4> QED
        BY <3>1, <3>5, <4>1 DEF Known
    <3> QED
      BY <2>1, <3>2, <3>3, <3>4, <3>5 DEF Moved
  <2> QED
    BY <2>1 DEF DeliveredBefore, Same, Key, Id, Session
<1>9. LostByRestart'
  BY DEF Moved, Flow, AnswerInv, LostByRestart
<1>10. EffectAtMostOnce'
  <2>1. ASSUME NEW r \in Requests, restarts' = 0, req'[r].effect # "none",
               Id(r) # NoId, ~req'[r].stale, ~req'[r].receiptError
        PROVE  Delivered(r)' \/ InFlight(r)'
    <3>1. Shape(req'[r]) /\ req'[r].pc \in Steps /\ req'[r].answer # "lost"
      BY <1>9, <2>1 DEF Moved, SlotInv, TypeOK, Handler, LostByRestart
    <3> QED
      BY <2>1, <3>1 DEF Shape, Steps, Delivered, InFlight, Id
  <2>2. ASSUME NEW q \in Requests, NEW r \in Requests, Same(q, r), restarts' = 0,
               req'[q].effect # "none", req'[r].effect # "none",
               ~req'[q].stale, ~req'[r].stale,
               ~req'[q].receiptError, ~req'[r].receiptError
        PROVE  q = r
    <3>1. Same(q, r)' /\ Same(r, q)' /\ Id(q) # NoId /\ Id(r) # NoId
      BY <2>2 DEF Same, Key, Id, Session
    <3>2. CASE InFlight(q)' /\ InFlight(r)'
      BY <3>1, <3>2 DEF SlotInv, PendingOwned
    <3>3. CASE Delivered(q)' /\ InFlight(r)'
      BY <1>8, <3>1, <3>3 DEF DeliveredBefore
    <3>4. CASE InFlight(q)' /\ Delivered(r)'
      BY <1>8, <3>1, <3>4 DEF DeliveredBefore
    <3>5. CASE ~InFlight(q)' /\ ~InFlight(r)'
      <4>1. req[q].effect # "none" /\ req[r].effect # "none"
        BY <2>2, <3>5 DEF Moved
      <4>2. /\ ~req[q].stale /\ ~req[r].stale
            /\ ~req[q].receiptError /\ ~req[r].receiptError
            /\ restarts = 0
        BY <2>2 DEF Moved, Flow
      <4> QED
        BY <2>2, <4>1, <4>2 DEF AnswerInv, EffectAtMostOnce
    <3> QED
      BY <2>1, <2>2, <3>1, <3>2, <3>3, <3>4, <3>5
  <2> QED
    BY <2>2 DEF EffectAtMostOnce, Same, Key, Id, Session
<1> QED
  BY <1>1, <1>4, <1>5, <1>6, <1>7, <1>8, <1>9, <1>10 DEF AnswerInv

\* One handler becomes h; what h says of the others is what they said before.
LEMMA MovedBecome ==
    ASSUME TypeOK, Shaped, NEW r \in Requests, NEW h, Become(r, h),
           Shape(h),
           req[r].accepted => h.accepted,
           h.answer = "received" => Received(r),
           h.stale = req[r].stale,
           req[r].receiptError => h.receiptError,
           h.answer = "lost" => req[r].answer = "lost",
           h.pc \in {"preflight", "handled", "running", "settled"}
               => InFlight(r) \/ (~Known(r) /\ ~WrongSession(r)),
           h.effect # "none" => req[r].effect # "none" \/ h.pc \in {"preflight", "handled", "running", "settled"},
           Id(r) # NoId /\ h.effect = "run" /\ ~h.receiptError
               => Ran(r) \/ ReceiptOf(r, FALSE) \in disk'[Session(r)],
           Id(r) # NoId /\ h.effect # "none" /\ h.accepted /\ ~h.receiptError /\ ~h.stale
               => \/ Delivered(r)
                  \/ /\ InFlight(r)
                     /\ ReceiptOf(r, FALSE) \in disk'[Session(r)]
                     /\ ReceiptOf(r, FALSE) \in entries'
    PROVE  \A q \in Requests : Moved(q)
<1>1. /\ req'[r] = h
      /\ \A q \in Requests \ {r} : req'[q] = req[q]
  BY BecomeOnly
<1>2. Moved(r)
  <2>1. InFlight(r)' = (h.pc \in {"preflight", "handled", "running", "settled"})
    BY <1>1 DEF InFlight
  <2>2. /\ Ran(r)' = (Id(r) # NoId /\ h.effect = "run" /\ ~h.receiptError)
        /\ Delivered(r)' = (/\ Id(r) # NoId /\ h.effect # "none" /\ h.accepted
                            /\ ~h.receiptError /\ ~h.stale)
    BY <1>1 DEF Ran, Delivered, Id
  <2> QED
    BY <1>1, <2>1, <2>2 DEF Moved
<1>3. ASSUME NEW q \in Requests \ {r} PROVE Moved(q)
  BY <1>1, <1>3 DEF Moved, Ran, Delivered, InFlight, Shaped, Id
<1> QED
  BY <1>2, <1>3

LEMMA FlowQuiet ==
    ASSUME UNCHANGED <<active, entries, storage, restarts>>
    PROVE  Flow
BY DEF Flow, storage

\* What is in memory may reach the file of the active session.
LEMMA PersistedFrom ==
    ASSUME NEW s \in Sessions, NEW e \in Persisted(s)
    PROVE  e \in disk[s] \/ (s = active /\ e \in entries)
BY DEF Persisted

LEMMA FlowWrites ==
    ASSUME TypeOK, RunInv, RunWrites, active' = active, entries' = entries,
           restarts' = restarts
    PROVE  Flow
<1>1. \A s \in Sessions : disk[s] \subseteq disk'[s]
  BY RunWritesGrows DEF Grows
<1>2. ASSUME NEW s \in Sessions, NEW e \in disk'[s]
      PROVE  e \in disk[s] \/ (s = active /\ e \in entries)
  <2>1. CASE UNCHANGED storage
    BY <1>2, <2>1 DEF storage
  <2>2. CASE disk' = [disk EXCEPT ![active] = Persisted(active)]
    BY <1>2, <2>2, PersistedFrom DEF TypeOK
  <2> QED
    BY <2>1, <2>2 DEF RunWrites
<1> QED
  BY <1>1, <1>2 DEF Flow

\* The acceptance callback writes the receipt of the request it accepts, into
\* the session the request names.
LEMMA FlowAccept ==
    ASSUME TypeOK, RunInv, NEW r \in Requests, NEW h \in Handler, InFlight(r),
           Accept(r, h), active' = active, restarts' = restarts
    PROVE  Flow
<1>t. /\ Session(r) \in Sessions
      /\ ReceiptOf(r, TRUE).failed
  BY SubmittedTypes DEF ReceiptOf
<1>1. /\ \A s \in Sessions : disk[s] \subseteq disk'[s]
      /\ entries \subseteq entries'
  BY AcceptGrows DEF Grows
<1>2. CASE Id(r) = NoId
  BY <1>2, FlowQuiet DEF Accept
<1>3. CASE Id(r) # NoId /\ Stored(r) /\ Become(r, [h EXCEPT !.accepted = TRUE])
  <2>1. Fresh(Session(r), ReceiptOf(r, FALSE))
    <3>1. [h EXCEPT !.accepted = TRUE].accepted
      BY DEF Handler
    <3>2. req'[r] = [h EXCEPT !.accepted = TRUE]
      BY <1>3, BecomeOnly
    <3>3. req'[r].accepted
      BY <3>1, <3>2
    <3> QED
      BY <1>3, <3>3 DEF Fresh
  <2>2. ASSUME NEW s \in Sessions, NEW e \in disk'[s]
        PROVE  e \in disk[s] \/ (s = active /\ e \in entries) \/ Fresh(s, e)
    <3>1. CASE s = Session(r)
      BY <1>3, <1>t, <2>1, <2>2, <3>1, PersistedFrom DEF Stored, TypeOK
    <3>2. CASE s # Session(r)
      BY <1>3, <1>t, <2>2, <3>2 DEF Stored, TypeOK
    <3> QED
      BY <3>1, <3>2
  <2>3. ASSUME NEW e \in entries' PROVE e \in entries \/ Fresh(active', e)
    <3>1. ~req[r].stale => Session(r) = active
      BY <1>3 DEF RunInv, FreshOnActive
    <3> QED
      BY <1>3, <2>1, <2>3, <3>1 DEF Stored
  <2> QED
    BY <1>1, <2>2, <2>3 DEF Flow
<1>4. CASE Id(r) # NoId /\ AppendFailed(r)
  <2>1. ASSUME NEW s \in Sessions, NEW e \in disk'[s]
        PROVE  e \in disk[s] \/ (s = active /\ e \in entries)
    BY <1>4, <1>t, <2>1, PersistedFrom DEF AppendFailed, TypeOK
  <2>2. ASSUME NEW e \in entries' PROVE e \in entries \/ e.failed
    BY <1>4, <1>t, <2>2 DEF AppendFailed
  <2> QED
    BY <1>1, <2>1, <2>2 DEF Flow
<1>5. CASE Id(r) # NoId /\ PersistFailed(r)
  BY <1>5, FlowQuiet DEF PersistFailed
<1> QED
  BY <1>2, <1>3, <1>4, <1>5 DEF Accept

\* The session is replaced, here or by a restart: memory is read from its file.
LEMMA FlowSwitch ==
    ASSUME NEW s \in Sessions, active' = s, entries' = disk[s], UNCHANGED storage,
           restarts' = 0 => restarts = 0
    PROVE  Flow
BY DEF Flow, storage
LEMMA AcceptFields ==
    ASSUME NEW h \in Handler
    PROVE  /\ LET k == [h EXCEPT !.accepted = TRUE]
              IN  /\ k.pc = h.pc /\ k.effect = h.effect /\ k.answer = h.answer
                  /\ k.accepted /\ k.receiptError = h.receiptError /\ k.stale = h.stale
           /\ LET k == [h EXCEPT !.accepted = TRUE, !.receiptError = TRUE]
              IN  /\ k.pc = h.pc /\ k.effect = h.effect /\ k.answer = h.answer
                  /\ k.accepted /\ k.receiptError /\ k.stale = h.stale
BY DEF Handler

\* Every handler that the acceptance callback leaves keeps its shape, and a run
\* without an error has its receipt on disk.
LEMMA MovedAccept ==
    ASSUME TypeOK, RunInv, Shaped, NEW r \in Requests, NEW h \in Handler,
           Accept(r, h), active' = active,
           h.pc \in {"running", "settled"}, h.answer = "none",
           h.pc = "running" => h.effect = "run",
           h.effect = "run" /\ h.pc = "settled" => req[r].effect = "run",
           InFlight(r), h.stale = req[r].stale,
           req[r].receiptError => h.receiptError
    PROVE  \A q \in Requests : Moved(q)
<1> DEFINE k1 == [h EXCEPT !.accepted = TRUE]
           k2 == [h EXCEPT !.accepted = TRUE, !.receiptError = TRUE]
<1>1. \/ /\ Become(r, k1)
         /\ Id(r) # NoId => /\ ReceiptOf(r, FALSE) \in disk'[Session(r)]
                            /\ ~req[r].stale => ReceiptOf(r, FALSE) \in entries'
      \/ Become(r, k2)
  BY AcceptGrows
<1>2. /\ k1.pc = h.pc /\ k1.effect = h.effect /\ k1.answer = h.answer
      /\ k1.accepted /\ k1.receiptError = h.receiptError /\ k1.stale = h.stale
      /\ k2.pc = h.pc /\ k2.effect = h.effect /\ k2.answer = h.answer
      /\ k2.accepted /\ k2.receiptError /\ k2.stale = h.stale
  BY AcceptFields
<1> HIDE DEF k1, k2
<1>3. Shape(k1) /\ Shape(k2)
  BY <1>2 DEF Shape
<1>4. CASE /\ Become(r, k1)
           /\ Id(r) # NoId => /\ ReceiptOf(r, FALSE) \in disk'[Session(r)]
                              /\ ~req[r].stale => ReceiptOf(r, FALSE) \in entries'
  BY <1>2, <1>3, <1>4, MovedBecome
<1>5. CASE Become(r, k2)
  BY <1>2, <1>3, <1>5, MovedBecome
<1> QED
  BY <1>1, <1>4, <1>5

\* A step that leaves the handlers alone.
LEMMA MovedQuiet ==
    ASSUME Shaped, req' = req
    PROVE  \A q \in Requests : Moved(q)
BY DEF Moved, Shaped, Ran, Delivered, InFlight, Id

LEMMA AnswerStep == SlotInv /\ RunInv /\ AnswerInv /\ [Next]_vars => AnswerInv'
<1> SUFFICES ASSUME SlotInv, RunInv, AnswerInv, [Next]_vars PROVE AnswerInv'
  OBVIOUS
<1>t. TypeOK /\ TypeOK' /\ Shaped
  BY TypeStep DEF SlotInv, AnswerInv
<1>h. \A r \in Requests : req[r] \in Handler /\ Shape(req[r])
  BY <1>t DEF TypeOK, Shaped
<1> SUFFICES Flow /\ \A r \in Requests : Moved(r)
  BY SlotStep, AnswerCarried
<1>1. ASSUME NEW r \in Requests, Replay(r) \/ Refuse(r) \/ Finish(r)
      PROVE  Flow /\ \A q \in Requests : Moved(q)
  <2>1. PICK a \in Answers :
             /\ Become(r, [req[r] EXCEPT !.pc = "done", !.answer = a])
             /\ a # "lost"
             /\ a = "received" => Received(r)
             /\ req[r].pc = "idle" \/ req[r].pc = "settled"
    <3>1. CASE Replay(r)
      <4>1. PICK a \in ReplayAnswer(r) : Reply(r, a)
        BY <3>1 DEF Replay
      <4>2. ASSUME a = "received" PROVE Received(r)
        <5>1. PICK e \in Recorded(r) : e.digest = Digest(r) /\ ~e.failed
          BY <4>2 DEF ReplayAnswer
        <5>2. Id(r) # NoId /\ Session(r) = active
          BY <3>1 DEF Replay, Known, WrongSession
        <5>3. e \in entries /\ e.id = Id(r)
          BY <5>1 DEF Recorded
        <5>4. Origin(active, e)
          BY <5>1, <5>3 DEF AnswerInv, Origins
        <5> QED
          BY <5>1, <5>2, <5>3, <5>4 DEF Origin, Received, Same, Key
      <4>3. a \in Answers /\ a # "lost"
        BY <4>1, ReplayAnswerType DEF ReplayAnswer
      <4>4. Become(r, [req[r] EXCEPT !.pc = "done", !.answer = a])
        BY <4>1 DEF Reply
      <4> QED
        BY <3>1, <4>2, <4>3, <4>4 DEF Replay
    <3>2. CASE Refuse(r)
      BY <3>2 DEF Refuse, Reply, Answers
    <3>3. CASE Finish(r)
      BY <3>3 DEF Finish, Reply, FinalAnswer, Answers
    <3> QED
      BY <1>1, <3>1, <3>2, <3>3
  <2> DEFINE h == [req[r] EXCEPT !.pc = "done", !.answer = a]
  <2>2. /\ h.pc = "done" /\ h.answer = a /\ h.effect = req[r].effect
        /\ h.accepted = req[r].accepted /\ h.receiptError = req[r].receiptError
        /\ h.stale = req[r].stale
    BY <1>h DEF Handler
  <2>3. Become(r, h)
    BY <2>1
  <2> HIDE DEF h
  <2>4. Shape(h)
    BY <1>h, <2>1, <2>2 DEF Shape
  <2>5. \A q \in Requests : Moved(q)
    BY <1>t, <2>1, <2>2, <2>3, <2>4, MovedBecome DEF Ran, Delivered
  <2> QED
    BY <1>1, <2>5, FlowQuiet DEF Replay, Refuse, Finish, session
<1>2. ASSUME NEW r \in Requests, AdmitSteer(r) \/ AdmitPrompt(r)
      PROVE  Flow /\ \A q \in Requests : Moved(q)
  <2>1. PICK h : /\ Become(r, h)
                 /\ h.pc = "preflight" /\ h.answer = req[r].answer /\ h.effect = req[r].effect
                 /\ h.accepted = req[r].accepted /\ h.receiptError = req[r].receiptError
                 /\ h.stale = req[r].stale
                 /\ req[r].pc = "idle" /\ ~Known(r) /\ ~WrongSession(r)
    <3>1. CASE AdmitSteer(r)
      <4> DEFINE k == [req[r] EXCEPT !.pc = "preflight"]
      <4>1. /\ k.pc = "preflight" /\ k.answer = req[r].answer /\ k.effect = req[r].effect
            /\ k.accepted = req[r].accepted /\ k.receiptError = req[r].receiptError
            /\ k.stale = req[r].stale
        BY <1>h DEF Handler
      <4>2. Become(r, k) /\ req[r].pc = "idle" /\ ~Known(r) /\ ~WrongSession(r)
        BY <3>1 DEF AdmitSteer, Admissible
      <4> QED
        BY <4>1, <4>2
    <3>2. CASE AdmitPrompt(r)
      <4> DEFINE k == [req[r] EXCEPT !.pc = "preflight", !.ownsBusy = TRUE]
      <4>1. /\ k.pc = "preflight" /\ k.answer = req[r].answer /\ k.effect = req[r].effect
            /\ k.accepted = req[r].accepted /\ k.receiptError = req[r].receiptError
            /\ k.stale = req[r].stale
        BY <1>h DEF Handler
      <4>2. Become(r, k) /\ req[r].pc = "idle" /\ ~Known(r) /\ ~WrongSession(r)
        BY <3>2 DEF AdmitPrompt, Admissible
      <4> QED
        BY <4>1, <4>2
    <3> QED
      BY <1>2, <3>1, <3>2
  <2>2. Shape(h)
    BY <1>h, <2>1 DEF Shape
  <2>3. h.answer = "none"
    BY <1>h, <2>1 DEF Shape
  <2>4. \A q \in Requests : Moved(q)
    BY <1>t, <1>h, <2>1, <2>2, <2>3, MovedBecome DEF Ran, Delivered, InFlight, Shape
  <2> QED
    BY <1>2, <2>4, FlowQuiet DEF AdmitSteer, AdmitPrompt, session
<1>3. ASSUME NEW r \in Requests, LibReject(r) \/ LibHandle(r)
      PROVE  Flow /\ \A q \in Requests : Moved(q)
  <2>1. PICK h : /\ Become(r, h)
                 /\ \/ h.pc = "settled" /\ h.effect = req[r].effect
                    \/ h.pc = "handled" /\ h.effect = "command"
                 /\ h.answer = req[r].answer
                 /\ h.accepted = req[r].accepted /\ h.receiptError = req[r].receiptError
                 /\ h.stale = req[r].stale
                 /\ req[r].pc = "preflight"
    <3>1. CASE LibReject(r)
      <4> DEFINE k == [req[r] EXCEPT !.pc = "settled", !.threw = TRUE]
      <4>1. /\ k.pc = "settled" /\ k.effect = req[r].effect /\ k.answer = req[r].answer
            /\ k.accepted = req[r].accepted /\ k.receiptError = req[r].receiptError
            /\ k.stale = req[r].stale
        BY <1>h DEF Handler
      <4>2. Become(r, k) /\ req[r].pc = "preflight"
        BY <3>1 DEF LibReject
      <4> QED
        BY <4>1, <4>2
    <3>2. CASE LibHandle(r)
      <4> DEFINE k == [req[r] EXCEPT !.pc = "handled", !.effect = "command"]
      <4>1. /\ k.pc = "handled" /\ k.effect = "command" /\ k.answer = req[r].answer
            /\ k.accepted = req[r].accepted /\ k.receiptError = req[r].receiptError
            /\ k.stale = req[r].stale
        BY <1>h DEF Handler
      <4>2. Become(r, k) /\ req[r].pc = "preflight"
        BY <3>2 DEF LibHandle
      <4> QED
        BY <4>1, <4>2
    <3> QED
      BY <1>3, <3>1, <3>2
  <2>2. Shape(h)
    BY <1>h, <2>1 DEF Shape
  <2>3. h.answer = "none"
    BY <1>h, <2>1 DEF Shape
  <2>4. \A q \in Requests : Moved(q)
    BY <1>t, <1>h, <2>1, <2>2, <2>3, MovedBecome DEF Ran, Delivered, InFlight, Shape
  <2> QED
    BY <1>3, <2>4, FlowQuiet DEF LibReject, LibHandle, session
<1>4. ASSUME NEW r \in Requests, LibAcceptHandled(r)
      PROVE  Flow /\ \A q \in Requests : Moved(q)
  <2>1. PICK threw \in BOOLEAN :
            Accept(r, [req[r] EXCEPT !.pc = "settled", !.threw = threw])
    BY <1>4 DEF LibAcceptHandled
  <2> DEFINE h == [req[r] EXCEPT !.pc = "settled", !.threw = threw]
  <2>2. h \in Handler
    BY <1>h, HandlerFields DEF Steps
  <2>3. /\ h.pc = "settled" /\ h.answer = req[r].answer /\ h.effect = req[r].effect
        /\ h.receiptError = req[r].receiptError /\ h.stale = req[r].stale
    BY <1>h DEF Handler
  <2>4. Accept(r, h) /\ UNCHANGED <<active, restarts>> /\ req[r].pc = "handled" /\ InFlight(r)
    BY <1>4, <2>1 DEF LibAcceptHandled, InFlight
  <2> HIDE DEF h
  <2>5. h.answer = "none"
    BY <1>h, <2>3, <2>4 DEF Shape
  <2>6. \A q \in Requests : Moved(q)
    BY <1>t, <2>2, <2>3, <2>4, <2>5, MovedAccept
  <2> QED
    BY <1>t, <2>2, <2>4, <2>6, FlowAccept
<1>5. ASSUME NEW r \in Requests, LibRun(r)
      PROVE  Flow /\ \A q \in Requests : Moved(q)
  <2> DEFINE h == [req[r] EXCEPT !.pc = "running", !.effect = "run"]
  <2>1. h \in Handler
    BY <1>h, HandlerFields DEF Steps, Effects
  <2>2. /\ h.pc = "running" /\ h.answer = req[r].answer /\ h.effect = "run"
        /\ h.receiptError = req[r].receiptError /\ h.stale = req[r].stale
    BY <1>h DEF Handler
  <2>3. Accept(r, h) /\ UNCHANGED <<active, restarts>> /\ req[r].pc = "preflight" /\ InFlight(r)
    BY <1>5 DEF LibRun, InFlight
  <2> HIDE DEF h
  <2>4. h.answer = "none"
    BY <1>h, <2>2, <2>3 DEF Shape
  <2>5. \A q \in Requests : Moved(q)
    BY <1>t, <2>1, <2>2, <2>3, <2>4, MovedAccept
  <2> QED
    BY <1>t, <2>1, <2>3, <2>5, FlowAccept
<1>6. ASSUME NEW r \in Requests, LibRunEnds(r)
      PROVE  Flow /\ \A q \in Requests : Moved(q)
  <2>1. PICK threw \in BOOLEAN :
            Become(r, [req[r] EXCEPT !.pc = "settled", !.threw = threw])
    BY <1>6 DEF LibRunEnds
  <2> DEFINE h == [req[r] EXCEPT !.pc = "settled", !.threw = threw]
  <2>2. /\ h.pc = "settled" /\ h.answer = req[r].answer /\ h.effect = req[r].effect
        /\ h.accepted = req[r].accepted /\ h.receiptError = req[r].receiptError
        /\ h.stale = req[r].stale
    BY <1>h DEF Handler
  <2>3. Become(r, h) /\ req[r].pc = "running"
    BY <1>6, <2>1 DEF LibRunEnds
  <2> HIDE DEF h
  <2>4. Shape(h) /\ h.answer = "none"
    BY <1>h, <2>2, <2>3 DEF Shape
  <2>5. \A q \in Requests : Moved(q)
    BY <1>t, <2>2, <2>3, <2>4, MovedBecome DEF Ran, Delivered, InFlight
  <2>6. Flow
    <3>1. active' = active /\ entries' = entries /\ restarts' = restarts
      BY <1>6 DEF LibRunEnds
    <3>2. CASE UNCHANGED storage
      BY <3>1, <3>2, FlowQuiet
    <3>3. CASE RunWrites
      BY <1>t, <3>1, <3>3, FlowWrites
    <3> QED
      BY <1>6, <3>2, <3>3 DEF LibRunEnds, storage
  <2> QED
    BY <2>5, <2>6
<1>7. CASE OtherRunStarts \/ OtherRunEnds \/ Compaction \/ UNCHANGED vars
  <2>1. active' = active /\ entries' = entries /\ req' = req /\ restarts' = restarts
    BY <1>7 DEF OtherRunStarts, OtherRunEnds, Compaction, vars, session
  <2>2. Flow
    <3>1. CASE OtherRunEnds
      BY <1>t, <2>1, <3>1, FlowWrites DEF OtherRunEnds
    <3>2. CASE UNCHANGED storage
      BY <2>1, <3>2, FlowQuiet
    <3> QED
      BY <1>7, <3>1, <3>2 DEF OtherRunStarts, Compaction, vars
  <2> QED
    BY <1>t, <2>1, <2>2, MovedQuiet
<1>8. ASSUME NEW o \in Operations, OpStart(o) \/ OpEnd(o)
      PROVE  Flow /\ \A q \in Requests : Moved(q)
  BY <1>t, <1>8, FlowQuiet, MovedQuiet DEF OpStart, OpEnd, session
<1>9. ASSUME NEW o \in Operations, OpSwitch(o)
      PROVE  Flow /\ \A q \in Requests : Moved(q)
  <2>1. PICK s \in Sessions : Switch(s)
    BY <1>9, <1>t DEF OpSwitch, TypeOK
  <2>2. ASSUME NEW q \in Requests PROVE Moved(q)
    <3>1. /\ req'[q].pc = req[q].pc /\ req'[q].effect = req[q].effect
          /\ req'[q].answer = req[q].answer /\ req'[q].accepted = req[q].accepted
          /\ req'[q].receiptError = req[q].receiptError
          /\ req[q].stale => req'[q].stale
      BY <1>h, <2>1 DEF Switch, Handler
    <3> QED
      BY <1>h, <3>1 DEF Moved, Shape, Ran, Delivered, InFlight, Id
  <2>3. Flow
    BY <1>9, <2>1, FlowSwitch DEF OpSwitch, Switch
  <2> QED
    BY <2>2, <2>3
<1>10. CASE Restart
  <2>0. restarts' # 0
    <3>1. restarts \in 0 .. MaxRestarts
      BY <1>t DEF TypeOK
    <3>2. restarts' = restarts + 1
      BY <1>10 DEF Restart
    <3> QED
      BY <3>1, <3>2, RestartAssumption
  <2>1. ASSUME NEW q \in Requests PROVE Moved(q)
    <3>1. /\ req'[q].effect = req[q].effect /\ req'[q].accepted = req[q].accepted
          /\ req'[q].receiptError = req[q].receiptError
          /\ req'[q].stale = req[q].stale
          /\ \/ req'[q].pc = req[q].pc /\ req'[q].answer = req[q].answer
             \/ req'[q].pc = "done" /\ req'[q].answer = "lost"
      BY <1>h, <1>10 DEF Restart, Handler
    <3> QED
      BY <1>h, <2>0, <3>1 DEF Moved, Shape, Ran, Delivered, InFlight, Id
  <2>2. PICK s \in Sessions : active' = s /\ entries' = disk[s]
    BY <1>10, <1>t DEF Restart, TypeOK
  <2>3. Flow
    BY <1>10, <2>0, <2>2, FlowSwitch DEF Restart
  <2> QED
    BY <2>1, <2>3
<1> QED
  BY <1>1, <1>2, <1>3, <1>4, <1>5, <1>6, <1>7, <1>8, <1>9, <1>10
     DEF Next, Gateway, Library, Operation, Environment

LEMMA AnswerAlways == Spec => []AnswerInv
<1>1. SlotInv /\ RunInv /\ [Next]_vars => RunInv'
  BY RunStep
<1>2. SlotInv /\ RunInv /\ AnswerInv /\ [Next]_vars => AnswerInv'
  BY AnswerStep
<1> QED
  BY <1>1, <1>2, RunInit, AnswerInit, SlotAlways, PTL DEF Spec

-----------------------------------------------------------------------------

\* A run that was started for an identified submission has its receipt in the
\* session's file for as long as it runs: no crash, whenever it comes, lets a
\* retry of the submission find nothing.
THEOREM RunsAreReceipted == Spec => []ReceiptBeforeRun
<1>1. AnswerInv => ReceiptBeforeRun
  BY DEF AnswerInv, ReceiptKept, Shaped, Shape, Ran, ReceiptBeforeRun
<1> QED
  BY <1>1, AnswerAlways, PTL

\* Within one process a submission takes effect at most once, whether it starts
\* a run, runs an extension command or joins the current run's queue.
THEOREM EffectsAreOnce == Spec => []EffectAtMostOnce
BY AnswerAlways, PTL DEF AnswerInv

\* "Received" names a submission with the same content that was accepted, by
\* this process or by one before it, and an answer without the accepted flag
\* comes from a request that had no effect.
THEOREM AnswersAreTrue == Spec => []AnswersTruthful
<1>1. SlotInv /\ AnswerInv => AnswersTruthful
  <2> SUFFICES ASSUME SlotInv, AnswerInv, NEW r \in Requests
               PROVE  /\ req[r].answer = "received" => Received(r)
                      /\ req[r].answer \in Answers \ {"none", "lost"} /\ ~req[r].accepted
                            => req[r].effect = "none"
    BY DEF AnswersTruthful, Received
  <2>1. req[r].answer = "received" => Received(r)
    BY DEF AnswerInv, ReceivedReally
  <2>2. Shape(req[r])
    BY DEF AnswerInv, Shaped
  <2> QED
    BY <2>1, <2>2 DEF Shape
<1> QED
  BY <1>1, SlotAlways, AnswerAlways, PTL
=============================================================================
