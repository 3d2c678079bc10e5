------------------------------ MODULE Capsules ------------------------------
(* The undo capsules of the agent directory: git_snapshot makes one,         *)
(* git_restore applies one to the workspace                                  *)
(* (packages/plugins/git-time-capsule/src/index.ts), clean_harness_artifacts  *)
(* removes the oldest (packages/plugins/cleaner/src/index.ts).  Each plugin   *)
(* has a chain of its own.  A caller that cancels is answered at once, while   *)
(* its operation goes on until it notices.                                   *)
EXTENDS Naturals, Sequences, FiniteSets, SequencesExt

CONSTANTS
    Requests,     \* tool calls
    maxCapsules,  \* maxCapsuleInventory
    MaxSession    \* bound on the session changes

CapsuleAssumption == maxCapsules \in Nat \ {0}

VARIABLES
    session,   \* the session, and with it the workspace
    capsules,  \* the directory; a capsule is named by its time
    clock,     \* the last such name
    line,      \* operationTail and cleanupQueue: what is not over, in order
    gone,      \* plugins that were disposed
    req,       \* the calls
    cleanups,  \* sequence
    activity   \* lastCleanup: whose it is, and its status

capsuleVars == <<session, capsules, clock, line, gone, req, cleanups, activity>>

PluginNames == {"capsule", "cleaner"}
Plugin(kind) == IF kind = "clean" THEN "cleaner" ELSE "capsule"

Untouched == [kind |-> "capture", pc |-> "idle", for |-> 0, aborted |-> FALSE, answer |-> "none",
              effect |-> "none", keep |-> 0, todo |-> {}, sequence |-> 0]

Init ==
    /\ session = 1
    /\ capsules = 1..(maxCapsules - 1) /\ clock = maxCapsules - 1
    /\ line = [p \in PluginNames |-> << >>] /\ gone = {}
    /\ req = [c \in Requests |-> Untouched]
    /\ cleanups = 0 /\ activity = [of |-> 0, status |-> "none"]

Is(c, kind, pc) == req[c].kind = kind /\ req[c].pc = pc
Go(c, pc) == req' = [req EXCEPT ![c].pc = pc]

\* throwIfAborted and assertCurrent
Fit(c) == ~req[c].aborted /\ (req[c].kind = "clean" \/ req[c].for = session)

\* updateActivity: an older cleanup does not hide a newer one.
Shown(seq, status) == IF seq < activity.of THEN activity ELSE [of |-> seq, status |-> status]
Report(c, status) ==
    activity' = IF req[c].kind = "clean" THEN Shown(req[c].sequence, status) ELSE activity

\* Bug: a restore that fails is taken for one that has not begun.
Refusal_Plain(c) == "failed"

\* restoreStarted: from there on nobody knows what was written.
Refusal(c) == IF Is(c, "restore", "applying") THEN "uncertain" ELSE "failed"

First(c, answer) == IF req[c].answer = "none" THEN answer ELSE req[c].answer

\* The chain goes on with the next one.
Leave(c) == line' = [line EXCEPT ![Plugin(req[c].kind)] = RemoveFirst(@, c)]

Over(c, answer) ==
    /\ req' = [req EXCEPT ![c].pc = "over", ![c].answer = First(c, answer)]
    /\ Leave(c)

Fail(c) == Over(c, Refusal(c)) /\ Report(c, IF req[c].aborted THEN "cancelled" ELSE "failed")

-----------------------------------------------------------------------------
(* The calls *)

\* Until runExclusive the three tools run in one stretch.
Ask(c) ==
    /\ req[c].pc = "idle"
    /\ \E kind \in {"capture", "restore", "clean"}, keep \in {0, 1}, x \in 1..clock :
          /\ Plugin(kind) \notin gone
          /\ kind # "clean" => keep = 0
          /\ kind # "restore" => x = 1
          /\ line' = [line EXCEPT ![Plugin(kind)] = Append(@, c)]
          /\ cleanups' = IF kind = "clean" THEN cleanups + 1 ELSE cleanups
          /\ activity' = IF kind = "clean" THEN Shown(cleanups', "running") ELSE activity
          /\ req' = [req EXCEPT ![c] = [Untouched EXCEPT !.kind = kind, !.pc = "queued",
                         !.for = IF kind = "clean" THEN 0 ELSE session, !.keep = keep, !.sequence = cleanups',
                         !.todo = IF kind = "restore" THEN {x} ELSE {}]]
    /\ UNCHANGED <<session, capsules, clock, gone>>

\* Bug: the chain is not awaited.
Turn_Any(c) == TRUE

Turn(c) == Head(line[Plugin(req[c].kind)]) = c

Begin(c) ==
    /\ req[c].pc = "queued" /\ Turn(c)
    /\ IF Fit(c) THEN Go(c, "reading") /\ UNCHANGED <<line, activity>> ELSE Fail(c)
    /\ UNCHANGED <<session, capsules, clock, gone, cleanups>>

\* git_snapshot: git diff, then the listing that must leave room for one more.
ReadDiff(c) ==
    /\ Is(c, "capture", "reading")
    /\ \/ /\ Fit(c) /\ Cardinality(capsules) < maxCapsules
          /\ Go(c, "storing") /\ UNCHANGED <<line, activity>>
       \/ Fail(c)
    /\ UNCHANGED <<session, capsules, clock, gone, cleanups>>

\* It is written under another name and counted.
Store(c) ==
    /\ Is(c, "capture", "storing")
    /\ \/ Fit(c) /\ Go(c, "linking") /\ UNCHANGED <<line, activity>>
       \/ Fail(c)
    /\ UNCHANGED <<session, capsules, clock, gone, cleanups>>

\* link; then only the session and the plugin's life are looked at.
Link(c) ==
    /\ Is(c, "capture", "linking")
    /\ \/ /\ clock' = clock + 1 /\ capsules' = capsules \cup {clock'}
          /\ LET fine == "capsule" \notin gone /\ req[c].for = session
             IN /\ req' = [req EXCEPT ![c].pc = "over", ![c].effect = "whole",
                                      ![c].answer = First(c, IF fine THEN "ok" ELSE "failed")]
                /\ Leave(c)
          /\ UNCHANGED activity
       \/ Fail(c) /\ UNCHANGED <<capsules, clock>>
    /\ UNCHANGED <<session, gone, cleanups>>

\* Bug: the check before the write is left out.
MayApply_Unchecked(c) == TRUE

\* beforeApply
MayApply(c) == Fit(c)

\* git_restore: the capsule is read, counted and tried, and the write begins.
Verify(c) ==
    /\ Is(c, "restore", "reading")
    /\ \/ req[c].todo \subseteq capsules /\ MayApply(c) /\ Go(c, "applying") /\ UNCHANGED <<line, activity>>
       \/ Fail(c)
    /\ UNCHANGED <<session, capsules, clock, gone, cleanups>>

\* git apply has ended by itself, by its time-out or by the caller's signal.
Apply(c) ==
    /\ Is(c, "restore", "applying")
    /\ \E effect \in {"none", "part", "whole"} :
          LET answer == IF effect = "whole" /\ Fit(c) THEN "ok" ELSE Refusal(c)
          IN req' = [req EXCEPT ![c].pc = "over", ![c].effect = effect, ![c].answer = First(c, answer)]
    /\ Leave(c)
    /\ UNCHANGED <<session, capsules, clock, gone, cleanups, activity>>

Newer(x, set) == Cardinality({y \in set : y > x})

\* The inventory, newest first, without those to keep.
List(c) ==
    /\ Is(c, "clean", "reading")
    /\ \/ /\ Fit(c)
          /\ req' = [req EXCEPT ![c].pc = "removing",
                         ![c].todo = {x \in capsules : Newer(x, capsules) >= req[c].keep}]
          /\ UNCHANGED <<line, activity>>
       \/ Fail(c)
    /\ UNCHANGED <<session, capsules, clock, gone, cleanups>>

\* One capsule, if it is still there; the checks and unlinkSync are one stretch.
Unlink(c) ==
    /\ Is(c, "clean", "removing") /\ req[c].todo # {}
    /\ \/ /\ Fit(c)
          /\ \E x \in req[c].todo :
                /\ Newer(x, req[c].todo) = 0
                /\ capsules' = capsules \ {x}
                /\ req' = [req EXCEPT ![c].todo = @ \ {x}]
          /\ UNCHANGED <<line, activity>>
       \/ Fail(c) /\ UNCHANGED capsules
    /\ UNCHANGED <<session, clock, gone, cleanups>>

\* The final inventory
Count(c) ==
    /\ Is(c, "clean", "removing") /\ req[c].todo = {}
    /\ \/ Fit(c) /\ Over(c, "ok") /\ Report(c, "completed")
       \/ Fail(c)
    /\ UNCHANGED <<session, capsules, clock, gone, cleanups>>

\* withCancellation: the caller is answered, its operation goes on.
Cancelled(cs) ==
    /\ req' = [c \in Requests |->
         IF c \in cs THEN [req[c] EXCEPT !.aborted = TRUE, !.answer = First(c, Refusal(c))]
         ELSE req[c]]
    /\ activity' = LET last == {c \in cs : req[c].kind = "clean" /\ req[c].answer = "none"
                                           /\ req[c].sequence = activity.of}
                   IN IF last = {} THEN activity ELSE [activity EXCEPT !.status = "cancelled"]

Cancellable(c) == req[c].pc \notin {"idle", "over"} /\ ~req[c].aborted

Abort(c) ==
    /\ Cancellable(c) /\ Cancelled({c})
    /\ UNCHANGED <<session, capsules, clock, line, gone, cleanups>>

\* The lifecycle signal of a plugin
Dispose(p) ==
    /\ p \notin gone /\ gone' = gone \cup {p}
    /\ Cancelled({c \in Requests : Cancellable(c) /\ Plugin(req[c].kind) = p})
    /\ UNCHANGED <<session, capsules, clock, line, cleanups>>

Switch ==
    /\ session < MaxSession /\ session' = session + 1
    /\ UNCHANGED <<capsules, clock, line, gone, req, cleanups, activity>>

Step(c) ==
    Begin(c) \/ ReadDiff(c) \/ Store(c) \/ Link(c) \/ Verify(c) \/ Apply(c) \/ List(c) \/ Unlink(c) \/ Count(c)

Next ==
    \/ \E c \in Requests : Ask(c) \/ Step(c) \/ Abort(c)
    \/ \E p \in PluginNames : Dispose(p)
    \/ Switch

-----------------------------------------------------------------------------
(* Properties *)

\* A call that is told success was carried out, and a restore whose refusal does
\* not call the workspace uncertain has written nothing, however late it ends.
ToldTrue ==
    \A c \in Requests :
        /\ req[c].answer = "ok" /\ req[c].kind # "clean" => req[c].effect = "whole"
        /\ req[c].answer = "failed" /\ req[c].kind = "restore" => req[c].effect = "none"

\* "before the bounded inventory becomes unusable": captures, which list before
\* they link, never make more capsules than a listing reads, while the plugins of
\* one process alone write to the directory.
InventoryUsable == Cardinality(capsules) <= maxCapsules

\* A restore begins to write, and a cleanup removes, for a caller that waits, a
\* plugin that lives and, a restore, in the session it was asked for.
WrittenInPlace ==
    [][\A c \in Requests :
         /\ ~Is(c, "restore", "applying") /\ req'[c].pc = "applying" =>
               req[c].answer = "none" /\ "capsule" \notin gone /\ req[c].for = session
         /\ capsules' \subseteq capsules /\ Is(c, "clean", "removing") /\ req'[c].todo # req[c].todo =>
               req[c].answer = "none" /\ "cleaner" \notin gone]_capsuleVars

\* A cleanup leaves the newest, as many as it was asked to keep, of whatever
\* others make or remove meanwhile.
NewestKept ==
    [][\A c \in Requests, x \in capsules \ capsules' :
         req'[c].todo # req[c].todo => Newer(x, capsules) >= req[c].keep]_capsuleVars

\* The panel shows the cleanup that was asked for last, and its outcome.
CleanupShown ==
    \A c \in Requests :
        req[c].kind = "clean" /\ req[c].sequence = cleanups /\ cleanups > 0 =>
            /\ activity.of = cleanups
            /\ activity.status = "running" <=> req[c].answer = "none"
            /\ activity.status = "completed" <=> req[c].answer = "ok"
=============================================================================
