--------------------------- MODULE WorkspaceChanges ---------------------------
(* POST /api/files/commit and /api/files/revert (packages/api-gateway/src/     *)
(* index.ts): each is a sequence of git commands, awaited one by one, on a     *)
(* repository that the other requests and the agent change in between.  A      *)
(* command that is terminated may or may not have taken effect.                *)
EXTENDS Naturals, Sequences

CONSTANTS
    WorkspaceFiles,      \* the files of the workspace
    Texts, Text,         \* what a file may hold, and one of these
    Absent,              \* not in a commit, the index or the working tree
    MaxActs              \* bound: the requests and the changes by the agent, together

TextAssumption == Text \in Texts

VARIABLES
    born,              \* the repository has a commit
    head, index, tree, \* what HEAD, the index and the working tree hold
    job,               \* the requests, in the order in which they came
    edits              \* the changes by the agent so far

workspaceVars == <<born, head, index, tree, job, edits>>

Trees == [WorkspaceFiles -> Texts \cup {Absent}]
Empty == [f \in WorkspaceFiles |-> Absent]

\* `touched` and `alone` are history: the files this request has changed, and
\* whether nobody else has changed one of its files since it began.
NewJob(kind, paths, pc) ==
    [kind |-> kind, paths |-> paths, pc |-> pc, others |-> {}, known |-> {},
     answer |-> "none", touched |-> {}, alone |-> TRUE]

\* A working copy may be in any state that git can hold; the first text of a file
\* is called Text.
Init ==
    /\ head \in [WorkspaceFiles -> {Text, Absent}] /\ index \in Trees /\ tree \in Trees
    /\ \A f \in WorkspaceFiles : head[f] = Absent =>
          index[f] \in {Text, Absent} /\ (index[f] = Absent => tree[f] \in {Text, Absent})
    /\ born \in {b \in BOOLEAN : b \/ head = Empty}
    /\ job = << >> /\ edits = 0

-----------------------------------------------------------------------------
(* Git, external: the pathspecs are literal.                                  *)

Untracked == {f \in WorkspaceFiles : index[f] = Absent /\ tree[f] # Absent}
Tracked == {f \in WorkspaceFiles : index[f] # Absent \/ head[f] # Absent}

\* What holds the contents of `there` on the files of F, and of `here` elsewhere.
Over(here, there, F) == [f \in WorkspaceFiles |-> IF f \in F THEN there[f] ELSE here[f]]

Differ(t, u) == {f \in WorkspaceFiles : t[f] # u[f]}
Changed == Differ(head, head') \cup Differ(index, index') \cup Differ(tree, tree')

-----------------------------------------------------------------------------
(* The handlers.                                                              *)

\* A step of c's request that goes on as `rec`; it disturbs whoever asked for a
\* file that it changes.
Step(c, rec) ==
    /\ job' = [d \in DOMAIN job |->
                 IF d = c THEN [rec EXCEPT !.touched = @ \cup Changed]
                 ELSE [job[d] EXCEPT !.alone = @ /\ Changed \cap job[d].paths = {}]]
    /\ UNCHANGED edits

\* sendJson of 200, of 409 or 400, and of 500.
Answered(c, answer) ==
    [job[c] EXCEPT !.pc = "idle", !.answer = answer, !.others = {}, !.known = {}]

Unmoved == UNCHANGED <<born, head, index, tree>>

\* Either handler, once the body is read and its paths are found inside.
Request ==
    /\ Len(job) + edits < MaxActs
    /\ \E paths \in SUBSET WorkspaceFiles \ {{}} :
          job' \in {Append(job, NewJob("commit", paths, "add")), Append(job, NewJob("revert", paths, "others"))}
    /\ UNCHANGED <<born, head, index, tree, edits>>

\* git add -A: refused as a whole if one path is neither in the index nor in the
\* working tree.  Terminated, it has written the index or not.
Add(c) ==
    /\ job[c].pc = "add"
    /\ \/ /\ \A f \in job[c].paths : index[f] # Absent \/ tree[f] # Absent
          /\ index' = Over(index, tree, job[c].paths)
          /\ UNCHANGED <<born, head, tree>>
          /\ \E rec \in {[job[c] EXCEPT !.pc = "commit"], Answered(c, "failed")} : Step(c, rec)
       \/ Unmoved /\ \E answer \in {"refused", "failed"} : Step(c, Answered(c, answer))

\* Bug: git commit without the paths takes the whole index.
Committed_Index(F) == index

\* git commit -- paths: HEAD gets the working tree's state of the paths only.
Committed(F) == Over(head, tree, F)

\* git commit: refused if a path is unknown, nothing has changed or a hook says
\* so.  Terminated, it has committed or not.
Commit(c) ==
    /\ job[c].pc = "commit"
    /\ \/ /\ job[c].paths \subseteq Tracked
          /\ Committed(job[c].paths) # head
          /\ head' = Committed(job[c].paths) /\ born' = TRUE
          /\ index' = Over(index, tree, job[c].paths)
          /\ UNCHANGED tree
          /\ \E answer \in {"ok", "failed"} : Step(c, Answered(c, answer))
       \/ Unmoved /\ \E answer \in {"refused", "failed"} : Step(c, Answered(c, answer))

\* git ls-files --others, then git ls-files --with-tree=HEAD, or without it
\* where there is no HEAD.
ListOthers(c) ==
    /\ job[c].pc = "others" /\ Unmoved
    /\ Step(c, [job[c] EXCEPT !.pc = "tracked", !.others = Untracked \cap job[c].paths])

\* A listing that failed is answered; a path that neither knows is refused; then
\* the tracked ones are restored, if there are any.
ListTracked(c) ==
    /\ job[c].pc = "tracked" /\ Unmoved
    /\ LET known == Tracked \cap job[c].paths
       IN \/ \E answer \in {"refused", "failed"} : Step(c, Answered(c, answer))
          \/ Step(c, IF ~(job[c].paths \subseteq known \cup job[c].others) THEN Answered(c, "refused")
                     ELSE [job[c] EXCEPT !.known = known, !.pc = IF known = {} THEN "remove" ELSE "restore"])

\* Bug: restored from the index, as `git restore` without --staged does.
Restored_FromIndex == index

\* --staged takes the contents of HEAD.
Restored == head

\* git restore --worktree --staged: refused without a HEAD and if a path is
\* unknown by now.  Terminated, it has restored some of the files and has
\* written the index or not.
Restore(c) ==
    /\ job[c].pc = "restore"
    /\ \/ /\ born /\ job[c].known \subseteq Tracked
          /\ UNCHANGED <<born, head>>
          /\ \/ /\ tree' = Over(tree, Restored, job[c].known)
                /\ index' = Over(index, Restored, job[c].known)
                /\ Step(c, [job[c] EXCEPT !.pc = "remove"])
             \/ /\ \E F \in SUBSET job[c].known : tree' = Over(tree, Restored, F)
                /\ index' \in {index, Over(index, Restored, job[c].known)}
                /\ Step(c, Answered(c, "failed"))
       \/ Unmoved /\ Step(c, Answered(c, "refused"))

\* rm of the files that were untracked when they were listed, one by one.
Remove(c) ==
    /\ job[c].pc = "remove"
    /\ UNCHANGED <<born, head, index>>
    /\ \/ job[c].others = {} /\ UNCHANGED tree /\ Step(c, Answered(c, "ok"))
       \/ \E f \in job[c].others :
             \/ /\ tree' = [tree EXCEPT ![f] = Absent]
                /\ Step(c, [job[c] EXCEPT !.others = @ \ {f}])
             \/ UNCHANGED tree /\ Step(c, Answered(c, "failed"))

\* A tool of the agent, or an editor, changes a file.
Edit ==
    /\ job # << >> /\ Len(job) + edits < MaxActs
    /\ edits' = edits + 1
    /\ \E f \in WorkspaceFiles, text \in Texts \cup {Absent} :
          /\ tree' = [tree EXCEPT ![f] = text]
          /\ job' = [c \in DOMAIN job |-> [job[c] EXCEPT !.alone = @ /\ f \notin job[c].paths]]
    /\ UNCHANGED <<born, head, index>>

Next ==
    \/ Request \/ Edit
    \/ \E c \in DOMAIN job :
          Add(c) \/ Commit(c) \/ ListOthers(c) \/ ListTracked(c) \/ Restore(c) \/ Remove(c)

Spec == Init /\ [][Next]_workspaceVars

-----------------------------------------------------------------------------
(* Properties *)

\* A commit or a revert changes nothing but the paths it was asked for, whatever
\* else is staged and however it ends; a revert that is refused has changed
\* nothing at all, so no untracked file is lost to a request that did not work.
OnlyRequested ==
    \A c \in DOMAIN job :
        /\ job[c].touched \subseteq job[c].paths
        /\ job[c].kind = "revert" /\ job[c].answer = "refused" => job[c].touched = {}

\* A request that nobody disturbed.
Undisturbed(c, kind) == job[c].kind = kind /\ job[c].answer = "ok" /\ job[c].alone

\* What a successful commit tells is true: HEAD, the index and the working tree
\* agree on its paths, untracked files and deletions included.
CommitIsWhole ==
    \A c \in DOMAIN job : Undisturbed(c, "commit") =>
        \A f \in job[c].paths : head[f] = tree[f] /\ index[f] = tree[f]

\* And a successful revert leaves no change of its paths in the index, nor in
\* the working tree of a file that HEAD does not have.
RevertIsDone ==
    \A c \in DOMAIN job : Undisturbed(c, "revert") =>
        \A f \in job[c].paths :
            index[f] = head[f] /\ (tree[f] # head[f] => tree[f] = Absent)

\* What the reference says: a revert discards the changes of its paths.  A file
\* that was removed from the index only is listed twice, restored as a tracked
\* one and removed as an untracked one: its deletion remains.
RevertDiscards ==
    \A c \in DOMAIN job : Undisturbed(c, "revert") =>
        \A f \in job[c].paths : index[f] = head[f] /\ tree[f] = head[f]
=============================================================================
