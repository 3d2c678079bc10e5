--------------------------- MODULE PromptComposer ---------------------------
(***************************************************************************)
(* The prompt composer of a browser tab (packages/client-web/src/prompt-ui, *)
(* annotation-ui and their use in react-room.tsx).                          *)
(* What the user writes for a session is in the page, in the tab's          *)
(* sessionStorage and, once it is sent, in submissions whose answers may    *)
(* come late, wrong or never.  A revision names what is sent; the gateway   *)
(* runs a revision once and leaves a receipt among the session's entries,   *)
(* which the console looks for when an answer did not tell.                 *)
(* The user types each text once, so a text is the number of its edit; all  *)
(* fit into the storage.                                                    *)
(***************************************************************************)
EXTENDS Naturals, Sequences, FiniteSets

CONSTANTS Sessions, NoSession,
          Annotations,      \* what the user may attach
          NoDraft,
          MaxWritten,       \* bound on the edits and annotations
          MaxSubmissions, MaxReloads

Prompts == [sends : BOOLEAN, text : Nat, items : SUBSET Annotations, steer : BOOLEAN]
Drafts  == [text : Nat, revision : Nat, submission : Prompts]

ComposerAssumption ==
  /\ IsFiniteSet(Sessions) /\ NoSession \notin Sessions
  /\ NoDraft \notin Drafts
  /\ MaxWritten \in Nat /\ MaxSubmissions \in Nat /\ MaxReloads \in Nat

VARIABLES
  displayed,  \* the session of data.session
  restoring,  \* initialSessionRestorePending: the page's link names another one
  ui,         \* storedPromptUi
  notes,      \* storedAnnotationDraft
  blocked,    \* whether sessionStorage refuses every access
  drafts,     \* sessionStorage: the draft of each session
  kept,       \* sessionStorage: the annotations of each session
  sent,       \* sessionStorage: the annotation submissions of each session
  calls,      \* the submissions, in their order
  reloads,
  edits,      \* history: how often the user wrote
  wrote,      \* history: the last edit of each session, and its text if it must be there
  attached    \* history: what the user attached and has not taken back

storage == <<blocked, drafts, kept, sent>>
history == <<edits, wrote, attached>>
composerVars == <<displayed, restoring, ui, notes, storage, calls, reloads, history>>

Blank == 0

EmptyUi(s) == [session |-> s, draft |-> Blank, revision |-> 0, submission |-> 0]
EmptyNotes(s) == [session |-> s, items |-> {}]

\* The page has just shown its first session.
Init ==
  /\ displayed \in Sessions /\ restoring = FALSE
  /\ ui = EmptyUi(displayed) /\ notes = EmptyNotes(displayed)
  /\ blocked \in BOOLEAN
  /\ drafts = [s \in Sessions |-> NoDraft]
  /\ kept = [s \in Sessions |-> {}]
  /\ sent = [s \in Sessions |-> {}]
  /\ calls = <<>> /\ reloads = 0
  /\ edits = 0
  /\ wrote = [s \in Sessions |-> [edit |-> 0, text |-> Blank]]
  /\ attached = [s \in Sessions |-> {}]

(***************************************************************************)
(* sessionStorage.                                                          *)
(***************************************************************************)
NotSent == [sends |-> FALSE, text |-> Blank, items |-> {}, steer |-> FALSE]

\* readStoredPromptDraftSnapshot.
Saved(s) == IF blocked THEN NoDraft ELSE drafts[s]
SavedRevision(s) == IF Saved(s) = NoDraft THEN 0 ELSE drafts[s].revision

\* writeStoredPromptDraft: a blank draft that is not being sent is removed.
Written(s, text, rev, submission) ==
  IF blocked THEN drafts
  ELSE [drafts EXCEPT ![s] =
         IF text = Blank /\ ~submission.sends THEN NoDraft
         ELSE [text |-> text, revision |-> rev, submission |-> submission]]

Keep(s, items) == IF blocked THEN kept ELSE [kept EXCEPT ![s] = items]

\* Bug: an accepted submission clears whatever is stored.
Cleared_Any(s, rev) == [drafts EXCEPT ![s] = NoDraft]

\* clearSubmittedPromptDraft: only the version that was sent.
Cleared(s, rev) ==
  IF rev # 0 /\ SavedRevision(s) = rev THEN [drafts EXCEPT ![s] = NoDraft] ELSE drafts

\* clearAcceptedPromptDraft, in the page.
ClearedUi(state, s, rev) ==
  IF SavedRevision(s) = rev /\ state.session = s /\ state.revision = rev
  THEN [state EXCEPT !.draft = Blank, !.revision = 0] ELSE state

\* clearSubmittedAnnotations.
Detach(state, s, items) ==
  IF state.session = s THEN [state EXCEPT !.items = @ \ items] ELSE state

(***************************************************************************)
(* The user.                                                                *)
(***************************************************************************)

\* promptUiForSession, annotationDraftForSession: what the composer shows.
UiHere == IF ui.session = displayed THEN ui ELSE EmptyUi(displayed)
NotesHere == IF notes.session = displayed THEN notes ELSE EmptyNotes(displayed)

Used == UNION ({attached[s] : s \in Sessions} \cup {calls[i].items : i \in DOMAIN calls})

\* createPromptDraftRevision: one that names nothing else.
NewRevision ==
  LET used == {ui.revision} \cup {SavedRevision(s) : s \in Sessions}
              \cup {calls[i].request : i \in DOMAIN calls}
  IN CHOOSE rev \in 1 .. Cardinality(used) + 1 : rev \notin used

\* setDraft: another text, or none.
Type ==
  /\ displayed # NoSession /\ edits + Cardinality(Used) < MaxWritten
  /\ \E text \in {Blank, edits + 1} :
       LET rev == IF text = Blank THEN 0 ELSE NewRevision IN
       /\ drafts' = Written(displayed, text, rev, NotSent)
       /\ ui' = [UiHere EXCEPT !.draft = text, !.revision = rev]
       /\ wrote' = [wrote EXCEPT ![displayed] = [edit |-> edits + 1, text |-> text]]
  /\ edits' = edits + 1
  /\ UNCHANGED <<displayed, restoring, notes, blocked, kept, sent, calls, reloads, attached>>

\* addAnnotation, and the effect that stores the state.  While a link is being
\* restored the composer hides what is stored, and this replaces it.
Attach(a) ==
  /\ displayed # NoSession /\ edits + Cardinality(Used) < MaxWritten
  /\ a \notin Used
  /\ notes' = [NotesHere EXCEPT !.items = @ \cup {a}]
  /\ kept' = Keep(displayed, notes'.items)
  /\ attached' = [attached EXCEPT ![displayed] =
                   (IF notes.session = displayed THEN @ ELSE {}) \cup {a}]
  /\ UNCHANGED <<displayed, restoring, ui, blocked, drafts, sent, calls, reloads, edits, wrote>>

TakeBack(a) ==
  /\ a \in NotesHere.items
  /\ notes' = [NotesHere EXCEPT !.items = @ \ {a}]
  /\ kept' = Keep(displayed, notes'.items)
  /\ attached' = [attached EXCEPT ![displayed] = @ \ {a}]
  /\ UNCHANGED <<displayed, restoring, ui, blocked, drafts, sent, calls, reloads, edits, wrote>>

(***************************************************************************)
(* A submission.                                                            *)
(***************************************************************************)

\* Bug: every submission has a revision of its own.
Unchanged_Never(s, prompt) == FALSE

\* promptSubmissionIdentity: what was sent and not answered keeps its revision
\* and its delivery.
Unchanged(s, prompt) ==
  /\ Saved(s) # NoDraft
  /\ drafts[s].text = prompt.text
  /\ [drafts[s].submission EXCEPT !.steer = prompt.steer] = prompt

\* rememberAnnotationSubmission drops those that share nothing with this one.
Remembered(s, rev, items) ==
  IF blocked \/ items = {} THEN sent
  ELSE [sent EXCEPT ![s] =
         {x \in @ : x.request # rev /\ x.items \cap items # {}}
         \cup {[request |-> rev, items |-> items]}]

\* history: no other prompt of the session awaits its answer.
Alone(s, rev) ==
  \A k \in DOMAIN calls : calls[k].session = s /\ calls[k].state = "open" => calls[k].request = rev

\* The stored draft stays until there is an answer; annotations that are sent
\* without a text take its place.
Submit ==
  /\ displayed # NoSession /\ Len(calls) < MaxSubmissions
  /\ UiHere.draft # Blank \/ NotesHere.items # {}
  /\ \E steering \in BOOLEAN :    \* whether the console takes the agent to be running
       LET prompt == [sends |-> TRUE, text |-> UiHere.draft, items |-> NotesHere.items,
                      steer |-> steering]
           again  == Unchanged(displayed, prompt)
           rev    == IF again THEN drafts[displayed].revision ELSE NewRevision
           sends  == IF again THEN drafts[displayed].submission ELSE prompt
       IN
       /\ UiHere.submission # 0 => steering
       /\ drafts' = Written(displayed, UiHere.draft, rev, sends)
       /\ sent' = Remembered(displayed, rev, sends.items)
       /\ ui' = [UiHere EXCEPT !.draft = Blank, !.revision = rev, !.submission = Len(calls) + 1]
       /\ calls' = Append(calls,
            [session |-> displayed, request |-> rev, text |-> sends.text, items |-> sends.items,
             steer |-> sends.steer, state |-> "open", wire |-> "sent",
             edit |-> wrote[displayed].edit, alone |-> Alone(displayed, rev)])
  /\ wrote' = IF UiHere.draft = Blank THEN [wrote EXCEPT ![displayed].text = Blank] ELSE wrote
  /\ UNCHANGED <<displayed, restoring, notes, blocked, kept, reloads, edits, attached>>

\* A receipt is what a submission that ran has left.
Ran(i) == calls[i].wire = "run"
Receipt(s, rev) == \E i \in DOMAIN calls : Ran(i) /\ calls[i].session = s /\ calls[i].request = rev

\* The gateway: a revision with a receipt is not run again, and must still be
\* the same prompt; another one runs or is refused.
Arrive(i) ==
  LET call == calls[i]
      before == {j \in DOMAIN calls : /\ Ran(j) /\ calls[j].session = call.session
                                      /\ calls[j].request = call.request}
      same(j) == /\ calls[j].text = call.text /\ calls[j].items = call.items
                 /\ calls[j].steer = call.steer
  IN
  /\ call.wire = "sent"
  /\ \E answer \in {"run", "received", "refused"} :
       /\ (answer = "run") => before = {}
       /\ (answer = "received") => \E j \in before : same(j)
       /\ (answer = "refused") => \A j \in before : ~same(j)
       /\ calls' = [calls EXCEPT ![i].wire = answer]
  /\ UNCHANGED <<displayed, restoring, ui, notes, storage, reloads, history>>

\* accepted(): the answer, or the receipt that api.prompt looks up after a
\* failed answer.  A refresh follows.
Accepted(i) ==
  LET call == calls[i] IN
  /\ call.state = "open" /\ call.wire \in {"run", "received"}
  /\ calls' = [calls EXCEPT ![i].state = "refreshing"]
  /\ drafts' = Cleared(call.session, call.request)
  /\ ui' = ClearedUi(ui, call.session, call.request)
  /\ notes' = Detach(notes, call.session, call.items)
  /\ kept' = Keep(call.session, kept[call.session] \ call.items)
  /\ sent' = [sent EXCEPT ![call.session] = {x \in @ : x.request # call.request}]
  /\ UNCHANGED <<displayed, restoring, blocked, reloads, history>>

\* finishPromptSubmission and failPromptSubmission act on the last submission.
Finished(state, i) == IF state.submission = i THEN [state EXCEPT !.submission = 0] ELSE state

Failed(state, i) ==
  IF state.submission = i /\ state.draft = Blank
  THEN [state EXCEPT !.draft = calls[i].text, !.revision = calls[i].request] ELSE state

Settled(i) ==
  /\ calls[i].state = "refreshing"
  /\ calls' = [calls EXCEPT ![i].state = "over"]
  /\ ui' = Finished(ui, i)
  /\ UNCHANGED <<displayed, restoring, notes, storage, reloads, history>>

\* rejected(): a refusal, or no answer and no receipt.  restoreRejectedPromptDraft
\* puts the draft back where nothing newer is stored.
Rejected(i) ==
  LET call == calls[i]
      prompt == [sends |-> TRUE, text |-> call.text, items |-> call.items, steer |-> call.steer]
  IN
  /\ call.state = "open"
  /\ calls' = [calls EXCEPT ![i].state = "over"]
  /\ drafts' = IF Saved(call.session) = NoDraft
               THEN Written(call.session, call.text, call.request, prompt) ELSE drafts
  /\ ui' = Finished(Failed(ui, i), i)
  /\ UNCHANGED <<displayed, restoring, notes, blocked, kept, sent, reloads, history>>

(***************************************************************************)
(* The session that is shown.                                               *)
(***************************************************************************)

\* Bug: the stored draft is not compared with the receipts.
Over_Never(s) == FALSE

Over(s) == Saved(s) # NoDraft /\ Receipt(s, SavedRevision(s))

\* The effects of a commit of the page: what is stored for the session has come
\* into the composer, and what has a receipt leaves it.
Commit(s, state, items) ==
  LET done == {x \in sent[s] : Receipt(s, x.request)}
      gone == (UNION {x.items : x \in done}) \cup (IF Over(s) THEN drafts[s].submission.items ELSE {})
  IN
  /\ drafts' = IF Over(s) THEN Cleared(s, SavedRevision(s)) ELSE drafts
  /\ ui' = IF Over(s) THEN ClearedUi(state, s, SavedRevision(s)) ELSE state
  /\ notes' = Detach(items, s, gone)
  /\ kept' = Keep(s, kept[s] \ gone)
  /\ sent' = [sent EXCEPT ![s] = @ \ done]

\* promptUiDuringSessionRestore, annotationDraftDuringSessionRestore.
Restored(s) ==
  IF restoring' \/ ui.session = s THEN ui
  ELSE IF Saved(s) = NoDraft THEN EmptyUi(s)
  ELSE [EmptyUi(s) EXCEPT !.draft = drafts[s].text, !.revision = drafts[s].revision]

RestoredNotes(s) ==
  IF restoring' \/ notes.session = s THEN notes
  ELSE [session |-> s, items |-> IF blocked THEN {} ELSE kept[s]]

\* Without storage a text is the page's alone, and goes with the session.
Expected == IF blocked THEN [s \in Sessions |-> [wrote[s] EXCEPT !.text = Blank]] ELSE wrote

\* A navigation of this console or of another one.
Show(s) ==
  /\ displayed # s
  /\ displayed' = s /\ UNCHANGED restoring
  /\ Commit(s, Restored(s), RestoredNotes(s))
  /\ wrote' = Expected
  /\ UNCHANGED <<blocked, calls, reloads, edits, attached>>

\* The session of the page's link is open, or given up.
RestoreEnds ==
  /\ restoring /\ displayed # NoSession
  /\ restoring' = FALSE /\ UNCHANGED displayed
  /\ Commit(displayed, Restored(displayed), RestoredNotes(displayed))
  /\ UNCHANGED <<blocked, calls, reloads, history>>

\* A poll or a refresh brings the entries of the session.
Refresh ==
  /\ displayed # NoSession
  /\ Commit(displayed, ui, notes)
  /\ UNCHANGED <<displayed, restoring, blocked, calls, reloads, history>>

\* The page is loaded again: the tab keeps its sessionStorage only.
Reload ==
  /\ reloads < MaxReloads
  /\ reloads' = reloads + 1
  /\ displayed' = NoSession /\ restoring' \in BOOLEAN
  /\ ui' = EmptyUi(NoSession) /\ notes' = EmptyNotes(NoSession)
  /\ calls' = [i \in DOMAIN calls |-> [calls[i] EXCEPT !.state = "over"]]
  /\ wrote' = Expected
  /\ UNCHANGED <<storage, edits, attached>>

Next ==
  \/ Type \/ Submit \/ RestoreEnds \/ Refresh \/ Reload
  \/ \E a \in Annotations : Attach(a) \/ TakeBack(a)
  \/ \E i \in DOMAIN calls : Arrive(i) \/ Accepted(i) \/ Settled(i) \/ Rejected(i)
  \/ \E s \in Sessions : Show(s)

(***************************************************************************)
(* Properties.                                                              *)
(***************************************************************************)

\* The last text of a session is offered again after any navigation or reload
\* until a submission with it was accepted, whatever became of the others; a
\* page without storage keeps it while it stays on the session.
TextKept(s) ==
  LET text == wrote[s].text
      mine(i) == calls[i].session = s /\ calls[i].text = text
  IN text # Blank /\ ~(\E i \in DOMAIN calls : Ran(i) /\ mine(i)) =>
       IF blocked
       THEN ui.session = s => ui.draft = text \/ (ui.submission # 0 /\ mine(ui.submission))
       ELSE drafts[s] # NoDraft /\ drafts[s].text = text

\* An annotation stays attached until a submission with it was accepted.
NotesKept(s) ==
  ~blocked => attached[s] \ UNION {calls[i].items : i \in {j \in DOMAIN calls : Ran(j)}}
                \subseteq kept[s]

Offered(s, rev) == ui.session = s /\ ui.draft # Blank /\ ui.revision = rev

\* What was accepted comes back into the composer only by the failure of the
\* answer that should have said so, never by a navigation or a reload.
StaysOut ==
  \A i \in DOMAIN calls : Ran(i) /\ ~Offered(calls[i].session, calls[i].request) =>
    \/ ~Offered(calls[i].session, calls[i].request)'
    \/ \E j \in DOMAIN calls : /\ calls[j].request = calls[i].request
                               /\ calls[j].state = "open" /\ calls'[j].state = "over"

\* What the user wrote is kept until it is accepted, and then it is gone.
DraftsKept == [][(\A s \in Sessions : TextKept(s)' /\ NotesKept(s)') /\ StaysOut]_composerVars

\* The same text with the same annotations, sent again because its answer was
\* lost, is run once, across navigations and reloads: unless the session had
\* another prompt under way when it was sent first, or sent one since.
SentOnce ==
  ~blocked => \A j \in DOMAIN calls : \A i \in 1 .. j - 1 : Ran(i) /\ Ran(j) =>
    \/ calls[i].session # calls[j].session \/ calls[i].edit # calls[j].edit
    \/ calls[i].text # calls[j].text \/ calls[i].items # calls[j].items
    \/ ~calls[i].alone
    \/ \E k \in i + 1 .. j - 1 : calls[k].session = calls[i].session
                                 /\ calls[k].request # calls[i].request
=============================================================================
