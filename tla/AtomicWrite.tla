----------------------------- MODULE AtomicWrite -----------------------------
(***************************************************************************)
(* atomicWriteFile (packages/plugin-api/src/atomic-write.ts): the write    *)
(* queue of one target, the temporary file, and the commit by rename or,   *)
(* for overwrite: false, by link.  Targets share nothing: writeQueues has  *)
(* one entry per target, so one target is modelled.                        *)
(*                                                                         *)
(* A file name refers to an inode; an inode is named after the write that  *)
(* created it.  A power loss keeps the inodes that were synced whole and   *)
(* any binding of the target since its directory was last synced.          *)
(***************************************************************************)
CONSTANTS
    Calls,      \* calls of atomicWriteFile
    Exclusive,  \* those with overwrite: false
    Pinned,     \* those with options.mode
    Original,   \* the inode before any call
    NoFile,     \* the target does not exist
    NoCall      \* writeQueues has no entry

ASSUME CallsAssumption ==
    /\ Exclusive \subseteq Calls /\ Pinned \subseteq Calls
    /\ Original \notin Calls /\ NoFile \notin Calls /\ NoCall \notin Calls
    /\ Original # NoFile

VARIABLES
    tail,      \* writeQueues.get(target)
    prev,      \* previous, as each call found it
    pc,        \* where each call is
    mode,      \* permission bits: of the inodes, and chosen by the calls
    synced,    \* inodes whose data is durable
    temps,     \* temporary names that exist
    name,      \* the inode the target refers to
    kept,      \* the inodes it may refer to after a power loss
    before     \* history: the calls of this process made before each call

queueVars == <<tail, prev, before>>
fileVars  == <<mode, synced, temps, name, kept>>
vars      == <<queueVars, pc, fileVars>>

Inodes == Calls \cup {Original, NoFile}
Modes  == {"default", "pinned"}
Steps  == {"idle", "queued", "opening", "writing", "staged", "linked", "committed",
           "cleaning", "ok", "failed", "lost"}

Ended   == {c \in Calls : pc[c] \in {"ok", "failed"}}
Asked   == {c \in Calls : pc[c] \notin {"idle", "lost"}}
Go(c, s) == pc' = [pc EXCEPT ![c] = s]

-----------------------------------------------------------------------------
Init ==
    /\ tail = NoCall
    /\ prev = [c \in Calls |-> NoCall]
    /\ pc = [c \in Calls |-> "idle"]
    /\ mode = [i \in Inodes |-> "default"]
    /\ synced = {Original}
    /\ temps = {}
    /\ name \in {Original, NoFile}
    /\ kept = {name}
    /\ before = [c \in Calls |-> {}]

\* atomicWriteFile: chained behind the entry of the target.
Ask(c) ==
    /\ pc[c] = "idle"
    /\ prev' = [prev EXCEPT ![c] = tail]
    /\ tail' = c
    /\ before' = [before EXCEPT ![c] = Asked]
    /\ Go(c, "queued")
    /\ UNCHANGED fileVars

\* Bug: a call behind a rejected one never starts.
MayStart_AfterSuccess(c) == prev[c] # NoCall => pc[prev[c]] = "ok"

\* previous.catch(...).then(...): settled either way.
MayStart(c) == prev[c] = NoCall \/ prev[c] \in Ended

\* The bits of the target are read, unless the caller pins them.
Start(c) ==
    /\ pc[c] = "queued" /\ MayStart(c)
    /\ mode' = [mode EXCEPT ![c] =
           IF c \in Pinned THEN "pinned" ELSE IF name = NoFile THEN "default" ELSE mode[name]]
    /\ Go(c, "opening")
    /\ UNCHANGED <<queueVars, synced, temps, name, kept>>

\* Aborted before anything was created, or open failed.
Refuse(c) ==
    /\ \/ pc[c] = "queued" /\ MayStart(c)
       \/ pc[c] = "opening"
    /\ Go(c, "failed")
    /\ UNCHANGED <<queueVars, fileVars>>

Open(c) ==
    /\ pc[c] = "opening"
    /\ temps' = temps \cup {c}
    /\ Go(c, "writing")
    /\ UNCHANGED <<queueVars, mode, synced, name, kept>>

\* Bug: the data is left in the page cache.
Stage_NoSync(c) ==
    /\ pc[c] = "writing"
    /\ Go(c, "staged")
    /\ UNCHANGED <<queueVars, fileVars>>

\* chmod, writeFile, sync and close.
Stage(c) ==
    /\ pc[c] = "writing"
    /\ synced' = synced \cup {c}
    /\ Go(c, "staged")
    /\ UNCHANGED <<queueVars, mode, temps, name, kept>>

\* An operation of the staging fails, the signal aborts it, or beforeCommit throws.
StageFails(c) ==
    /\ pc[c] \in {"writing", "staged"}
    /\ Go(c, "cleaning")
    /\ UNCHANGED <<queueVars, fileVars>>

\* Bug: every write is published by link, which leaves the temporary name.
Commit_Links(c) ==
    /\ pc[c] = "staged"
    /\ name' = c /\ kept' = kept \cup {c}
    /\ Go(c, "linked")
    /\ UNCHANGED <<queueVars, mode, synced, temps>>

\* rename replaces the target and consumes the temporary name; link needs the
\* target to be absent and leaves both names.
Commit(c) ==
    /\ pc[c] = "staged"
    /\ c \in Exclusive => name = NoFile
    /\ name' = c /\ kept' = kept \cup {c}
    /\ IF c \in Exclusive
       THEN UNCHANGED temps /\ Go(c, "linked")
       ELSE temps' = temps \ {c} /\ Go(c, "committed")
    /\ UNCHANGED <<queueVars, mode, synced>>

\* The second name of a linked inode; failing to remove it is no failure.
Unlink(c) ==
    /\ pc[c] = "linked"
    /\ temps' \in {temps, temps \ {c}}
    /\ Go(c, "committed")
    /\ UNCHANGED <<queueVars, mode, synced, name, kept>>

\* syncDirectory, whose failure is tolerated; the operation resolves.
SyncDirectory(c) ==
    /\ pc[c] = "committed"
    /\ kept' \in {kept, {name}}
    /\ Go(c, "ok")
    /\ UNCHANGED <<queueVars, mode, synced, temps, name>>

\* The finally block of an uncommitted write; the operation rejects.
Cleanup(c) ==
    /\ pc[c] = "cleaning"
    /\ temps' \in {temps, temps \ {c}}
    /\ Go(c, "failed")
    /\ UNCHANGED <<queueVars, mode, synced, name, kept>>

\* Bug: the entry is dropped although a later call has replaced it.
Forget_Always(c) ==
    /\ c \in Ended /\ tail # NoCall
    /\ tail' = NoCall
    /\ UNCHANGED <<prev, before, pc, fileVars>>

\* operation.finally: the entry is dropped while it is still this call's.
Forget(c) ==
    /\ c \in Ended /\ tail = c
    /\ tail' = NoCall
    /\ UNCHANGED <<prev, before, pc, fileVars>>

\* The process dies, or the machine loses power.
Crash ==
    /\ \/ UNCHANGED <<name, kept>>
       \/ name' \in kept /\ kept' = {name'}
    /\ tail' = NoCall
    /\ pc' = [c \in Calls |-> IF pc[c] = "idle" THEN "idle" ELSE "lost"]
    /\ UNCHANGED <<prev, before, mode, synced, temps>>

Continue(c) ==
    \/ Start(c) \/ Refuse(c) \/ Open(c) \/ Stage(c) \/ StageFails(c) \/ Commit(c)
    \/ Unlink(c) \/ SyncDirectory(c) \/ Cleanup(c) \/ Forget(c)

Next == (\E c \in Calls : Ask(c) \/ Continue(c)) \/ Crash

Spec == Init /\ [][Next]_vars

\* File operations settle: a started call goes on until it ends.
FairSpec == Spec /\ \A c \in Calls : WF_vars(Continue(c))

-----------------------------------------------------------------------------
(* Properties *)

\* The types, and a rename consumed the temporary name it published.
TypeOK ==
    /\ tail \in Calls \cup {NoCall}
    /\ prev \in [Calls -> Calls \cup {NoCall}]
    /\ pc \in [Calls -> Steps]
    /\ mode \in [Inodes -> Modes]
    /\ synced \subseteq Inodes
    /\ temps \subseteq Calls
    /\ \A c \in Calls \ Exclusive : pc[c] \in {"linked", "committed"} => c \notin temps
    /\ name \in Inodes
    /\ kept \subseteq Inodes /\ name \in kept
    /\ before \in [Calls -> SUBSET Calls]

\* Whatever a power loss brings back under the target's name is whole.
NeverTorn == kept \subseteq synced \cup {NoFile}

\* A call that does not pin the mode leaves the target's mode as it was, also
\* when the call before it in the queue set it.
ModeCarried ==
    [][\A c \in Calls \ Pinned :
          name' = c /\ name \notin {c, NoFile} /\ pc[c] = "staged" => mode[c] = mode[name]]_vars

StatusOf(s) ==
    CASE s = "idle"   -> "idle"
      [] s = "lost"   -> "lost"
      [] s = "ok"     -> "done"
      [] s = "failed" -> "failed"
      [] s \in {"linked", "committed"} -> "applied"
      [] OTHER        -> "waiting"

Abstract == INSTANCE AtomicFile WITH
    content <- name,
    status  <- [c \in Calls |-> StatusOf(pc[c])]

\* The writes of a target take effect whole, in the order they were asked for.
ImplementsAtomicFile == Abstract!Spec

\* Every write settles, unless the process dies first.
EveryWriteSettles ==
    \A c \in Calls : pc[c] = "queued" ~> pc[c] \in {"ok", "failed", "lost"}

=============================================================================
