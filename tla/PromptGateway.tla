--------------------------- MODULE PromptGateway ---------------------------
(***************************************************************************)
(* Admission of prompts by the API gateway                                 *)
(* (packages/api-gateway/src/index.ts, POST /api/prompt) against the       *)
(* session operations (runSessionOperation) that replace the session the   *)
(* prompts address.                                                        *)
(*                                                                         *)
(* The gateway is one JavaScript thread: a handler runs without            *)
(* interruption from one await to the next, and that is the grain of the   *)
(* actions below.  A request is admitted (or answered) in the synchronous  *)
(* stretch after its body was read, then waits for the runtime's prompt(), *)
(* which calls the gateway back (preflightResult) when it accepts the      *)
(* prompt, and is answered in the stretch after that promise settles.      *)
(*                                                                         *)
(* The Pi library behind runtime.prompt() is not part of the repository.   *)
(* The Lib actions model it as loosely as the gateway's use of it allows:  *)
(* it may refuse, it may run an extension command or queue the text on the *)
(* current run before it reports acceptance, or report acceptance and then *)
(* start a run.                                                            *)
(***************************************************************************)
EXTENDS Integers, FiniteSets

CONSTANTS
    Requests,       \* POST /api/prompt exchanges; each is one run of the handler
    Operations,     \* session operation handlers (new, open, delete, fork, ...)
    Sessions,       \* session ids
    RequestIds,     \* client-chosen submission ids
    Prompts,        \* prompt texts
    Submitted,      \* the body each request carries
    NoId,           \* a submission that carries no requestId
    NoDigest,       \* no pending submission under a key
    StorageFaults,  \* receipt writes that may fail: "persist", "append"
    MaxRestarts     \* bound on process restarts

VARIABLES
    active,      \* services.runtime.session.sessionId
    streaming,   \* session.isStreaming
    compacting,  \* session.isCompacting
    busy,        \* the gateway's prompt slot
    opBusy,      \* sessionOperationBusy
    pending,     \* pendingPromptRequests
    entries,     \* receipts among the entries of the active session manager
    file,        \* sessions whose JSONL file exists
    disk,        \* receipts in each session's file
    used,        \* session ids handed out so far
    req,         \* the handlers of the prompt requests
    op,          \* the handlers of the session operations
    restarts

session == <<active, streaming, compacting, entries, used>>
slots   == <<busy, opBusy, pending>>
storage == <<file, disk>>
vars    == <<session, slots, storage, req, op, restarts>>

-----------------------------------------------------------------------------
(* Data *)

Ids     == RequestIds \cup {NoId}
Keys    == Sessions \X RequestIds
Digests == Prompts \X BOOLEAN

\* The parsed body; session matters only to a submission with a requestId.
Submission == [id : Ids, session : Sessions, prompt : Prompts, steer : BOOLEAN]

ASSUME NoIdAssumption == NoId \notin RequestIds
ASSUME NoDigestAssumption == NoDigest \notin Digests
ASSUME SubmittedAssumption == Submitted \in [Requests -> Submission]
ASSUME FaultAssumption == StorageFaults \subseteq {"persist", "append"}
ASSUME RestartAssumption == MaxRestarts \in Nat

Id(r)      == Submitted[r].id
Session(r) == Submitted[r].session
Steer(r)   == Submitted[r].steer

\* The sha256 of [prompt, streamingBehavior].
Digest(r) == <<Submitted[r].prompt, Submitted[r].steer>>

\* candidateKey, of a submission with a requestId.
Key(r) == <<Session(r), Id(r)>>

\* A pi-harness.prompt-receipt entry; failed stands for its persistenceError.
Receipt == [id : RequestIds, digest : Digests, failed : BOOLEAN]

ReceiptOf(r, failed) == [id |-> Id(r), digest |-> Digest(r), failed |-> failed]

Recorded(r) == {e \in entries : e.id = Id(r)}

Steps   == {"idle", "preflight", "handled", "running", "settled", "done"}
Effects == {"none", "command", "run"}
Answers == {"none", "refused", "conflict", "checking", "received",
            "receiptFailed", "ok", "failed", "lost"}

\* stale says that the session object the handler captured has been replaced.
Handler == [pc : Steps, ownsBusy : BOOLEAN, accepted : BOOLEAN,
            receiptError : BOOLEAN, threw : BOOLEAN, stale : BOOLEAN,
            effect : Effects, answer : Answers]

NewHandler == [pc |-> "idle", ownsBusy |-> FALSE, accepted |-> FALSE,
               receiptError |-> FALSE, threw |-> FALSE, stale |-> FALSE,
               effect |-> "none", answer |-> "none"]

Become(r, h) == req' = [req EXCEPT ![r] = h]

InFlight(r) == req[r].pc \in {"preflight", "handled", "running", "settled"}

-----------------------------------------------------------------------------
(* Initial state: a fresh process on a session that has no file yet. *)

Init ==
    /\ active \in Sessions
    /\ streaming = FALSE
    /\ compacting = FALSE
    /\ busy = FALSE
    /\ opBusy = FALSE
    /\ pending = [k \in Keys |-> NoDigest]
    /\ entries = {}
    /\ file = {}
    /\ disk = [s \in Sessions |-> {}]
    /\ used = {active}
    /\ req = [r \in Requests |-> NewHandler]
    /\ op = [o \in Operations |-> "idle"]
    /\ restarts = 0

-----------------------------------------------------------------------------
(* The synchronous stretch of POST /api/prompt after the body was read. *)

Reply(r, a) == Become(r, [req[r] EXCEPT !.pc = "done", !.answer = a])

WrongSession(r) == Id(r) # NoId /\ Session(r) # active

\* Bug: only the receipts are looked at.
Known_NoPending(r) == Id(r) # NoId /\ Recorded(r) # {}

\* The submission is known: by a receipt in the session or as a pending one.
Known(r) == Id(r) # NoId /\ (Recorded(r) # {} \/ pending[Key(r)] # NoDigest)

\* Bug: the digests are not compared.
ReplayAnswer_AnyDigest(r) ==
    IF Recorded(r) # {}
    THEN {IF e.failed THEN "receiptFailed" ELSE "received" : e \in Recorded(r)}
    ELSE {"checking"}

\* A receipt decides before the pending map is consulted.
ReplayAnswer(r) ==
    IF Recorded(r) # {}
    THEN {IF e.digest # Digest(r) THEN "conflict"
          ELSE IF e.failed THEN "receiptFailed" ELSE "received" : e \in Recorded(r)}
    ELSE {IF pending[Key(r)] # Digest(r) THEN "conflict" ELSE "checking"}

Replay(r) ==
    /\ req[r].pc = "idle"
    /\ ~WrongSession(r) /\ Known(r)
    /\ \E a \in ReplayAnswer(r) : Reply(r, a)
    /\ UNCHANGED <<session, slots, storage, op, restarts>>

Refuse(r) ==
    /\ req[r].pc = "idle"
    /\ \/ WrongSession(r)
       \/ /\ ~Known(r)
          /\ \/ compacting \/ opBusy
             \/ streaming /\ ~Steer(r)
             \/ ~streaming /\ busy
    /\ Reply(r, "refused")
    /\ UNCHANGED <<session, slots, storage, op, restarts>>

\* Bug: the session slot is not looked at.
Admissible_DuringOperation(r) ==
    /\ req[r].pc = "idle"
    /\ ~WrongSession(r) /\ ~Known(r)
    /\ ~compacting

Admissible(r) ==
    /\ req[r].pc = "idle"
    /\ ~WrongSession(r) /\ ~Known(r)
    /\ ~compacting /\ ~opBusy

\* Bug: the prompt is remembered instead of its digest.
Claim_RawPrompt(r) ==
    pending' = IF Id(r) = NoId THEN pending
               ELSE [pending EXCEPT ![Key(r)] = Submitted[r].prompt]

\* claimRequest: nothing else holds the key, or the request were Known.
Claim(r) ==
    pending' = IF Id(r) = NoId THEN pending ELSE [pending EXCEPT ![Key(r)] = Digest(r)]

\* Delivered to the current run; the prompt slot is not taken.
AdmitSteer(r) ==
    /\ Admissible(r)
    /\ streaming /\ Steer(r)
    /\ Claim(r)
    /\ Become(r, [req[r] EXCEPT !.pc = "preflight"])
    /\ UNCHANGED <<session, busy, opBusy, storage, op, restarts>>

AdmitPrompt(r) ==
    /\ Admissible(r)
    /\ ~streaming /\ ~busy
    /\ busy' = TRUE
    /\ Claim(r)
    /\ Become(r, [req[r] EXCEPT !.pc = "preflight", !.ownsBusy = TRUE])
    /\ UNCHANGED <<session, opBusy, storage, op, restarts>>

-----------------------------------------------------------------------------
(* preflightResult(true), called by the library: the receipt is written     *)
(* through the session object the handler captured.                         *)

\* What the file holds once persistSessionBeforeFirstAssistant has run.
Persisted(s) == IF s \in file THEN disk[s] ELSE IF s = active THEN entries ELSE {}

\* Bug: the receipt stays in memory.
Stored_MemoryOnly(r) ==
    /\ entries' = IF req[r].stale THEN entries ELSE entries \cup {ReceiptOf(r, FALSE)}
    /\ UNCHANGED storage

Stored(r) ==
    /\ file' = file \cup {Session(r)}
    /\ disk' = [disk EXCEPT ![Session(r)] =
                   Persisted(Session(r)) \cup {ReceiptOf(r, FALSE)}]
    /\ entries' = IF req[r].stale THEN entries ELSE entries \cup {ReceiptOf(r, FALSE)}

\* The entry joined the session's tree, the append to the file threw.
AppendFailed(r) ==
    /\ "append" \in StorageFaults
    /\ file' = file \cup {Session(r)}
    /\ disk' = [disk EXCEPT ![Session(r)] = Persisted(Session(r))]
    /\ entries' = IF req[r].stale THEN entries ELSE entries \cup {ReceiptOf(r, TRUE)}

\* Creating the session's file threw, before the entry was made.
PersistFailed(r) ==
    /\ "persist" \in StorageFaults
    /\ Session(r) \notin file
    /\ UNCHANGED <<storage, entries>>

\* Accept(r, h): the callback runs and leaves the handler as h, with the
\* outcome of the receipt noted.
Accept(r, h) ==
    IF Id(r) = NoId
    THEN /\ Become(r, [h EXCEPT !.accepted = TRUE])
         /\ UNCHANGED <<storage, entries>>
    ELSE \/ /\ Stored(r)
            /\ Become(r, [h EXCEPT !.accepted = TRUE])
         \/ /\ AppendFailed(r) \/ PersistFailed(r)
            /\ Become(r, [h EXCEPT !.accepted = TRUE, !.receiptError = TRUE])

-----------------------------------------------------------------------------
(* runtime.prompt(): the library's steps for request r. *)

\* Refused before acceptance: preflightResult(false), then the promise rejects.
LibReject(r) ==
    /\ req[r].pc = "preflight"
    /\ Become(r, [req[r] EXCEPT !.pc = "settled", !.threw = TRUE])
    /\ UNCHANGED <<session, slots, storage, op, restarts>>

\* An extension command ran, or the text joined the queue of the current run.
LibHandle(r) ==
    /\ req[r].pc = "preflight" /\ ~req[r].stale
    /\ Become(r, [req[r] EXCEPT !.pc = "handled", !.effect = "command"])
    /\ UNCHANGED <<session, slots, storage, op, restarts>>

LibAcceptHandled(r) ==
    /\ req[r].pc = "handled"
    /\ \E threw \in BOOLEAN :
          Accept(r, [req[r] EXCEPT !.pc = "settled", !.threw = threw])
    /\ UNCHANGED <<active, streaming, compacting, used, slots, op, restarts>>

\* An ordinary prompt: accepted first, then its run starts.
LibRun(r) ==
    /\ req[r].pc = "preflight" /\ ~req[r].stale
    /\ ~streaming
    /\ Accept(r, [req[r] EXCEPT !.pc = "running", !.effect = "run"])
    /\ streaming' = TRUE
    /\ UNCHANGED <<active, compacting, used, slots, op, restarts>>

\* A run that produced an assistant message left its session with a file.
RunWrites ==
    \/ UNCHANGED storage
    \/ /\ file' = file \cup {active}
       /\ disk' = [disk EXCEPT ![active] = Persisted(active)]

\* The run is over: finished, failed or aborted.
LibRunEnds(r) ==
    /\ req[r].pc = "running"
    /\ \E threw \in BOOLEAN :
          Become(r, [req[r] EXCEPT !.pc = "settled", !.threw = threw])
    /\ IF req[r].stale
       THEN UNCHANGED <<storage, streaming>>
       ELSE streaming' = FALSE /\ RunWrites
    /\ UNCHANGED <<active, compacting, entries, used, slots, op, restarts>>

\* Runs and compactions the gateway did not start: other plugins prompt too.
OtherRunStarts ==
    /\ ~streaming /\ streaming' = TRUE
    /\ UNCHANGED <<active, compacting, entries, used, slots, storage, req, op, restarts>>

OtherRunEnds ==
    /\ streaming /\ \A r \in Requests : req[r].pc = "running" => req[r].stale
    /\ streaming' = FALSE /\ RunWrites
    /\ UNCHANGED <<active, compacting, entries, used, slots, req, op, restarts>>

Compaction ==
    /\ compacting' = ~compacting
    /\ UNCHANGED <<active, streaming, entries, used, slots, storage, req, op, restarts>>

-----------------------------------------------------------------------------
(* The stretch after the promise settled, with the finally block. *)

FinalAnswer(h) == IF h.threw THEN "failed" ELSE IF h.receiptError THEN "receiptFailed" ELSE "ok"

\* Bug: no catch, a rejected prompt is never answered.
Finish_NoCatch(r) ==
    /\ req[r].pc = "settled" /\ ~req[r].threw
    /\ Reply(r, FinalAnswer(req[r]))
    /\ pending' = IF Id(r) = NoId THEN pending ELSE [pending EXCEPT ![Key(r)] = NoDigest]
    /\ busy' = IF req[r].ownsBusy THEN FALSE ELSE busy
    /\ UNCHANGED <<session, opBusy, storage, op, restarts>>

\* Bug: the claim is never dropped.
Finish_KeepsClaim(r) ==
    /\ req[r].pc = "settled"
    /\ Reply(r, FinalAnswer(req[r]))
    /\ busy' = IF req[r].ownsBusy THEN FALSE ELSE busy
    /\ UNCHANGED <<session, pending, opBusy, storage, op, restarts>>

Finish(r) ==
    /\ req[r].pc = "settled"
    /\ Reply(r, FinalAnswer(req[r]))
    /\ pending' = IF Id(r) = NoId THEN pending ELSE [pending EXCEPT ![Key(r)] = NoDigest]
    /\ busy' = IF req[r].ownsBusy THEN FALSE ELSE busy
    /\ UNCHANGED <<session, opBusy, storage, op, restarts>>

-----------------------------------------------------------------------------
(* runSessionOperation.  A refused operation (409) changes nothing. *)

\* Bug: only the runtime's state is asked, not the prompt slot.
OpStart_OnlyRuntime(o) ==
    /\ op[o] = "idle"
    /\ ~streaming /\ ~compacting
    /\ ~opBusy
    /\ opBusy' = TRUE
    /\ op' = [op EXCEPT ![o] = "inside"]
    /\ UNCHANGED <<session, busy, pending, storage, req, restarts>>

OpStart(o) ==
    /\ op[o] = "idle"
    /\ ~busy /\ ~streaming /\ ~compacting
    /\ ~opBusy
    /\ opBusy' = TRUE
    /\ op' = [op EXCEPT ![o] = "inside"]
    /\ UNCHANGED <<session, busy, pending, storage, req, restarts>>

\* newSession or switchSession: the runtime's session object is replaced.  The
\* handlers that captured the old one keep it.
Switch(s) ==
    /\ active' = s
    /\ entries' = disk[s]
    /\ streaming' = FALSE
    /\ compacting' = FALSE
    /\ used' = used \cup {s}
    /\ req' = [r \in Requests |-> [req[r] EXCEPT !.stale = InFlight(r) \/ @]]

OpSwitch(o) ==
    /\ op[o] = "inside"
    /\ \E s \in file \cup (Sessions \ used) : Switch(s)
    /\ op' = [op EXCEPT ![o] = "switched"]
    /\ UNCHANGED <<slots, storage, restarts>>

\* Done, cancelled by an extension, or failed: the finally block runs.
OpEnd(o) ==
    /\ op[o] \in {"inside", "switched"}
    /\ opBusy' = FALSE
    /\ op' = [op EXCEPT ![o] = "idle"]
    /\ UNCHANGED <<session, busy, pending, storage, req, restarts>>

-----------------------------------------------------------------------------
\* The process dies and comes back on a session whose file exists or on a new
\* one: what was in memory is gone, in-flight requests never get an answer.
Restart ==
    /\ restarts < MaxRestarts
    /\ restarts' = restarts + 1
    /\ \E s \in file \cup (Sessions \ used) :
          /\ active' = s
          /\ entries' = disk[s]
          /\ used' = used \cup {s}
    /\ streaming' = FALSE
    /\ compacting' = FALSE
    /\ busy' = FALSE
    /\ opBusy' = FALSE
    /\ pending' = [k \in Keys |-> NoDigest]
    /\ req' = [r \in Requests |->
                 IF InFlight(r) THEN [req[r] EXCEPT !.pc = "done", !.answer = "lost"] ELSE req[r]]
    /\ op' = [o \in Operations |-> "idle"]
    /\ UNCHANGED storage

-----------------------------------------------------------------------------
Gateway(r) == Replay(r) \/ Refuse(r) \/ AdmitSteer(r) \/ AdmitPrompt(r) \/ Finish(r)

Library(r) ==
    LibReject(r) \/ LibHandle(r) \/ LibAcceptHandled(r) \/ LibRun(r) \/ LibRunEnds(r)

Operation(o) == OpStart(o) \/ OpSwitch(o) \/ OpEnd(o)

Environment == OtherRunStarts \/ OtherRunEnds \/ Compaction \/ Restart

Next ==
    \/ \E r \in Requests : Gateway(r) \/ Library(r)
    \/ \E o \in Operations : Operation(o)
    \/ Environment

Spec == Init /\ [][Next]_vars

\* The event loop runs every ready continuation, and the library settles every
\* prompt it was given; nobody has to send a request or to restart anything.
Fairness ==
    /\ \A r \in Requests : WF_vars(Finish(r)) /\ WF_vars(Library(r))
    /\ \A o \in Operations : WF_vars(OpEnd(o))

FairSpec == Spec /\ Fairness

-----------------------------------------------------------------------------
(* Properties *)

\* Every variable stays within its type.
TypeOK ==
    /\ active \in Sessions
    /\ streaming \in BOOLEAN /\ compacting \in BOOLEAN
    /\ busy \in BOOLEAN /\ opBusy \in BOOLEAN
    /\ pending \in [Keys -> Digests \cup {NoDigest}]
    /\ entries \subseteq Receipt
    /\ file \subseteq Sessions /\ used \subseteq Sessions
    /\ disk \in [Sessions -> SUBSET Receipt]
    /\ req \in [Requests -> Handler]
    /\ op \in [Operations -> {"idle", "inside", "switched"}]
    /\ restarts \in 0 .. MaxRestarts

Owner(r)  == InFlight(r) /\ req[r].ownsBusy
Inside(o) == op[o] # "idle"

\* The prompt slot and the session slot exclude each other, each has at most
\* one holder, and a slot that is taken has a holder that will give it back
\* (busy and sessionOperationBusy, set and cleared by different handlers).
SlotsExclusive ==
    /\ busy = (\E r \in Requests : Owner(r))
    /\ opBusy = (\E o \in Operations : Inside(o))
    /\ ~(busy /\ opBusy)
    /\ \A q, r \in Requests : Owner(q) /\ Owner(r) => q = r
    /\ \A p, o \in Operations : Inside(p) /\ Inside(o) => p = o

Same(q, r) == Id(q) # NoId /\ Id(r) # NoId /\ Key(q) = Key(r)

\* A pending key belongs to exactly one unanswered request, whose digest it
\* holds: the finally block of one request never drops the claim of another,
\* and no claim survives its request.
PendingOwned ==
    /\ \A r \in Requests : InFlight(r) /\ Id(r) # NoId => pending[Key(r)] = Digest(r)
    /\ \A q, r \in Requests : InFlight(q) /\ InFlight(r) /\ Same(q, r) => q = r
    /\ \A k \in Keys : pending[k] # NoDigest =>
          \E r \in Requests : InFlight(r) /\ Id(r) # NoId /\ Key(r) = k

\* No session operation replaces the session under a request that holds the
\* prompt slot: its receipt and its run address the session it was sent to.
OwnerNeverStale == \A r \in Requests : Owner(r) => ~req[r].stale

\* However often a submission is retried, and across restarts, at most one run
\* is started for a requestId in a session, if their receipts could be written.
RunAtMostOnce ==
    \A q, r \in Requests :
        (/\ Same(q, r)
         /\ req[q].effect = "run" /\ req[r].effect = "run"
         /\ ~req[q].receiptError /\ ~req[r].receiptError)
            => q = r

\* Within one process a submission takes effect at most once, extension
\* commands and queued prompts included, as long as the session object it was
\* delivered to stays the runtime's and the receipts could be written.
EffectAtMostOnce ==
    \A q, r \in Requests :
        (/\ restarts = 0
         /\ Same(q, r)
         /\ req[q].effect # "none" /\ req[r].effect # "none"
         /\ ~req[q].stale /\ ~req[r].stale
         /\ ~req[q].receiptError /\ ~req[r].receiptError)
            => q = r

\* "records accepted prompt IDs and suppresses replay after a lost response":
\* a submission the gateway accepted is not accepted again when it is retried.
ReplaySuppressed ==
    \A q, r \in Requests :
        (/\ Same(q, r)
         /\ req[q].accepted /\ req[r].accepted
         /\ ~req[q].stale /\ ~req[r].stale)
            => q = r

\* A run that was started for an identified submission has its receipt in the
\* session's file while it runs, so that a crash cannot forget it.
ReceiptBeforeRun ==
    \A r \in Requests :
        req[r].pc = "running" /\ Id(r) # NoId /\ ~req[r].receiptError
            => ReceiptOf(r, FALSE) \in disk[Session(r)]

\* What the answers tell the client is so: "received" names a submission with
\* the same content that was accepted, and an answer without the accepted flag
\* comes from a request that had no effect.
AnswersTruthful ==
    \A r \in Requests :
        /\ req[r].answer = "received" =>
              \E q \in Requests : Same(q, r) /\ Digest(q) = Digest(r) /\ req[q].accepted
        /\ req[r].answer \in Answers \ {"none", "lost"} /\ ~req[r].accepted
              => req[r].effect = "none"

\* An admitted request is answered (or lost with the process), and with it the
\* slot it held comes back: no wait of the handler is for ever.
Answered == \A r \in Requests : InFlight(r) ~> req[r].pc = "done"

=============================================================================
