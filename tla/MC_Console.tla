------------------------------ MODULE MC_Console ------------------------------
(* What one browser tab does: its navigation between the sessions, and its    *)
(* prompt composer, for which any navigation is a step that shows a session.   *)
(* A behaviour exercises one of them and leaves the other as it begins.        *)
EXTENDS ConsoleNavigation, TLC

\* Two sessions and two reads in flight are interchangeable.
NavigationSymmetry == Permutations(Sessions) \cup Permutations(Slots)

CONSTANTS Annotations, NoDraft, MaxWritten, MaxSubmissions, MaxReloads

VARIABLES part, displayed, restoring, ui, notes, blocked, drafts, kept, sent, calls, reloads,
          edits, wrote, attached

Composer == INSTANCE PromptComposer WITH NoSession <- None

ASSUME ComposerConstants == Composer!ComposerAssumption

composer == <<displayed, restoring, ui, notes, blocked, drafts, kept, sent, calls, reloads,
              edits, wrote, attached>>

PageInit ==
    /\ part \in {"navigation", "composer"}
    /\ Init /\ Composer!Init
    /\ part = "navigation" => displayed = active /\ ~blocked
    /\ part = "composer" => active = displayed /\ queue = <<>>

PageNext ==
    \/ part = "navigation" /\ Next /\ UNCHANGED <<part, composer>>
    \/ part = "composer" /\ Composer!Next /\ UNCHANGED <<part, vars>>

PageSpec == PageInit /\ [][PageNext]_<<part, vars, composer>>

\* What the user wrote is kept until it is accepted, and then it is gone.
DraftsKept == Composer!DraftsKept

\* A prompt sent again because its answer was lost is run once.
SentOnce == Composer!SentOnce
=============================================================================
