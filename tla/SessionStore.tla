---------------------------- MODULE SessionStore ----------------------------
(***************************************************************************)
(* The session files, their metadata map and the routes of the API gateway *)
(* that change them (packages/api-gateway/src/index.ts): new, open, delete, *)
(* import, fork, export, rename and pin/archive.                           *)
(*                                                                         *)
(* A session is named by the path of its JSONL file.  Pi creates that file *)
(* only at the first assistant message, so the active session may have     *)
(* none.  Operations that replace or remove sessions run one at a time     *)
(* (runSessionOperation); rename, export and metadata requests do not take *)
(* that slot and interleave with them at every await.  The metadata of all *)
(* sessions is one JSON file, read and rewritten under a FIFO chain of     *)
(* promises (withSessionMetadataLock).                                     *)
(***************************************************************************)
EXTENDS Integers, Sequences, FiniteSets, SequencesExt

CONSTANTS
    Handlers,       \* request handlers that may be in flight together
    Paths,          \* session paths, each given to one session ever
    Nobody          \* the free operation slot

NobodyAssumption == Nobody \notin Handlers

VARIABLES
    active,    \* services.runtime.session.sessionFile
    flushed,   \* the active manager believes its file exists: appends go in bare
    used,      \* paths handed out so far
    files,     \* session files in the directory
    broken,    \* files without a header, which nothing can open
    meta,      \* .pi-harness-session-meta.json
    queue,     \* sessionMetadataQueue: mutations in the order they were asked for
    slot,      \* the handler inside runSessionOperation
    hand,      \* the handlers
    lastPin,   \* history: the value the last confirmed metadata request set
    deleted,   \* history: paths whose deletion was confirmed
    foreign    \* history: another process removed a file of the directory

sessions == <<active, flushed, used>>
disk     == <<files, broken>>
history  == <<lastPin, deleted, foreign>>
vars     == <<sessions, disk, meta, queue, slot, hand, history>>

-----------------------------------------------------------------------------
(* Data *)

\* A metadata entry: absent, or present with pinned true or false.
Entries == {"absent", "pinned", "plain"}
MetaMap == [Paths -> Entries]

Unset == [p \in Paths |-> "absent"]

\* A mutation of the map, which gives the entry to all of the paths; copy is what it
\* read, once it has.
Job == [owner : Handlers, paths : SUBSET Paths, entry : Entries, read : BOOLEAN, copy : MetaMap]

Steps == {"idle", "pinning", "switching", "unlinking", "clearing", "opening", "listing",
          "copying", "forked", "staging", "published", "cleaning", "ending"}

\* A handler's path, or those a deletion has left to unlink, and those it has removed
\* (removed).
Handler == [pc : Steps, paths : SUBSET Paths, gone : SUBSET Paths]

\* sessionMissing: the active session may have no file yet.
Missing(p) == p # active /\ p \notin files

Become(h, pc, ps) == hand' = [hand EXCEPT ![h] = [pc |-> pc, paths |-> ps, gone |-> {}]]
Go(h, pc)         == hand' = [hand EXCEPT ![h].pc = pc]
Ends(h)           == Become(h, "ending", {})

-----------------------------------------------------------------------------
Init ==
    /\ active \in Paths
    /\ flushed = FALSE
    /\ used = {active}
    /\ files = {} /\ broken = {}
    /\ meta = Unset
    /\ queue = << >>
    /\ slot = Nobody
    /\ hand = [h \in Handlers |-> [pc |-> "idle", paths |-> {}, gone |-> {}]]
    /\ lastPin = Unset
    /\ deleted = {}
    /\ foreign = FALSE

-----------------------------------------------------------------------------
(* The metadata chain *)

Enqueue(h, ps, e) ==
    queue' = Append(queue,
                 [owner |-> h, paths |-> ps, entry |-> e, read |-> FALSE, copy |-> Unset])

\* Bug: no chain, a mutation runs as soon as it is asked for.
MayRun_Unlocked(j) == TRUE

\* A mutation starts when all those before it are over.
MayRun(j) == j = 1

JobRead(j) ==
    /\ MayRun(j) /\ ~queue[j].read
    /\ queue' = [queue EXCEPT ![j].read = TRUE, ![j].copy = meta]
    /\ UNCHANGED <<sessions, disk, meta, slot, hand, history>>

\* A map whose paths have the entry.
Set(m, ps, e) == [p \in Paths |-> IF p \in ps THEN e ELSE m[p]]

\* Where the owner of a finished mutation goes on; a deletion is confirmed.
Confirm(job) ==
    IF hand[job.owner].pc = "clearing"
    THEN /\ Ends(job.owner)
         /\ deleted' = deleted \cup job.paths
         /\ UNCHANGED lastPin
    ELSE /\ Become(job.owner, "idle", {})
         /\ lastPin' = Set(lastPin, job.paths, job.entry)
         /\ UNCHANGED deleted

JobWrite(j) ==
    /\ MayRun(j) /\ queue[j].read
    /\ meta' = Set(queue[j].copy, queue[j].paths, queue[j].entry)
    /\ Confirm(queue[j])
    /\ queue' = RemoveAt(queue, j)
    /\ UNCHANGED <<sessions, disk, slot, foreign>>

\* The read or the atomic write threw: the map stays, the chain goes on.
JobFails(j) ==
    /\ MayRun(j)
    /\ Become(queue[j].owner, IF hand[queue[j].owner].pc = "clearing" THEN "ending" ELSE "idle", {})
    /\ queue' = RemoveAt(queue, j)
    /\ UNCHANGED <<sessions, disk, meta, slot, history>>

\* /api/session/metadata and the pin and archive actions of /api/sessions/batch:
\* the check and the enqueueing are one synchronous stretch.
Pin(h) ==
    /\ hand[h].pc = "idle"
    /\ \E ps \in SUBSET used \ {{}}, e \in {"pinned", "plain"} :
          /\ \A p \in ps : ~Missing(p)
          /\ Enqueue(h, ps, e)
    /\ Become(h, "pinning", {})
    /\ UNCHANGED <<sessions, disk, meta, slot, history>>

-----------------------------------------------------------------------------
(* Writing the active session's file *)

\* persistSessionBeforeFirstAssistant: header and entries, then reopened.
Persist ==
    IF active \in files
    THEN UNCHANGED <<disk, flushed>>
    ELSE /\ files' = files \cup {active}
         /\ flushed' = TRUE
         /\ UNCHANGED broken

\* Pi's append: deferred before the first flush, bare after it.
BareAppend ==
    /\ files' = IF flushed THEN files \cup {active} ELSE files
    /\ broken' = IF flushed /\ active \notin files THEN broken \cup {active} ELSE broken
    /\ UNCHANGED flushed

\* The first assistant message of a run creates the file.
AssistantMessage ==
    /\ active \notin files /\ ~flushed
    /\ Persist
    /\ UNCHANGED <<active, used, meta, queue, slot, hand, history>>

\* /api/session/rename of the active session to a name: materialized, then
\* appended to.
RenameActive ==
    /\ Persist
    /\ UNCHANGED <<active, used, meta, queue, slot, hand, history>>

\* The same request with an empty name, which clears it, appends at once.
ClearName ==
    /\ BareAppend
    /\ UNCHANGED <<active, used, meta, queue, slot, hand, history>>

\* GET /api/session/export of the active session.
ExportActive ==
    /\ Persist
    /\ UNCHANGED <<active, used, meta, queue, slot, hand, history>>

-----------------------------------------------------------------------------
(* Operations inside runSessionOperation *)

Enter(h) ==
    /\ hand[h].pc = "idle" /\ slot = Nobody
    /\ slot' = h

\* Bug: the slot is not freed on the way out of a failed operation.
Leave_KeepsSlot(h) ==
    /\ hand[h].pc = "ending"
    /\ Become(h, "idle", {})
    /\ UNCHANGED <<sessions, disk, meta, queue, slot, history>>

\* The finally block of runSessionOperation.
Leave(h) ==
    /\ hand[h].pc = "ending"
    /\ slot' = Nobody
    /\ Become(h, "idle", {})
    /\ UNCHANGED <<sessions, disk, meta, queue, history>>

SwitchTo(p) ==
    /\ active' = p
    /\ flushed' = (p \in files)
    /\ used' = used \cup {p}

\* /api/session/delete, of one path, and the delete action of /api/sessions/batch.
DeleteStart(h) ==
    /\ Enter(h)
    /\ \E ps \in SUBSET used \ {{}} :
          Become(h, IF active \in ps THEN "switching" ELSE "unlinking", ps)
    /\ UNCHANGED <<sessions, disk, meta, queue, history>>

\* Bug: the active session is removed without being replaced first.
DeleteSwitch_Skipped(h) ==
    /\ hand[h].pc = "switching"
    /\ Go(h, "unlinking")
    /\ UNCHANGED <<sessions, disk, meta, queue, slot, history>>

\* The active session is replaced by a new one before its file goes.  newSession may
\* be cancelled, or throw before or after it replaced the session.
DeleteSwitch(h) ==
    /\ hand[h].pc = "switching"
    /\ \/ \E p \in Paths \ used : SwitchTo(p) /\ (Go(h, "unlinking") \/ Ends(h))
       \/ Ends(h) /\ UNCHANGED sessions
    /\ UNCHANGED <<disk, meta, queue, slot, history>>

\* unlink, one path after the other: a missing file is no error, and one that
\* cannot be removed stays.
DeleteUnlink(h) ==
    /\ hand[h].pc = "unlinking"
    /\ \E p \in hand[h].paths :
          \/ /\ files' = files \ {p}
             /\ broken' = broken \ {p}
             /\ hand' = [hand EXCEPT ![h].paths = @ \ {p}, ![h].gone = @ \cup {p}]
          \/ hand' = [hand EXCEPT ![h].paths = @ \ {p}] /\ UNCHANGED disk
    /\ UNCHANGED <<sessions, meta, queue, slot, history>>

\* Then one mutation for all that are gone, unless the directory is another one now.
DeleteClear(h) ==
    /\ hand[h].pc = "unlinking" /\ hand[h].paths = {}
    /\ \/ hand[h].gone # {} /\ Enqueue(h, hand[h].gone, "absent") /\ Go(h, "clearing")
       \/ Ends(h) /\ UNCHANGED queue
    /\ UNCHANGED <<sessions, disk, meta, slot, history>>

\* /api/session/new and /api/session/open.
OpenStart(h) ==
    /\ Enter(h)
    /\ \E p \in (files \ broken) \cup (Paths \ used) : Become(h, "opening", {p})
    /\ UNCHANGED <<sessions, disk, meta, queue, history>>

OpenSwitch(h) ==
    /\ hand[h].pc = "opening"
    /\ (\E p \in hand[h].paths : SwitchTo(p)) \/ UNCHANGED sessions
    /\ Ends(h)
    /\ UNCHANGED <<disk, meta, queue, slot, history>>

\* /api/session/fork: the active session is materialized if it is the source.
ForkStart(h) ==
    /\ Enter(h)
    /\ \E p \in used :
          /\ IF p = active THEN Persist ELSE UNCHANGED <<disk, flushed>>
          /\ Become(h, "listing", {p})
    /\ UNCHANGED <<active, used, meta, queue, history>>

\* The source is listed and its version read.
ForkList(h) ==
    /\ hand[h].pc = "listing"
    /\ \/ hand[h].paths \subseteq files \ broken /\ Go(h, "copying")
       \/ Ends(h)
    /\ UNCHANGED <<sessions, disk, meta, queue, slot, history>>

\* forkFrom copies it to a staging directory, which names the copy.
ForkStage(h) ==
    /\ hand[h].pc = "copying"
    /\ \/ /\ hand[h].paths \subseteq files \ broken
          /\ \E p \in Paths \ used : used' = used \cup {p} /\ Become(h, "forked", {p})
       \/ Ends(h) /\ UNCHANGED used
    /\ UNCHANGED <<active, flushed, disk, meta, queue, slot, history>>

ForkPublish(h) ==
    /\ hand[h].pc = "forked"
    /\ files' \in {files, files \cup hand[h].paths} /\ Ends(h)
    /\ UNCHANGED <<sessions, broken, meta, queue, slot, history>>

\* /api/session/import: stage, publish, switch; adopted or taken back.
ImportStart(h) ==
    /\ Enter(h)
    /\ \E p \in Paths \ used :
          /\ used' = used \cup {p}
          /\ Become(h, "staging", {p})
    /\ UNCHANGED <<active, flushed, disk, meta, queue, history>>

ImportPublish(h) ==
    /\ hand[h].pc = "staging"
    /\ \/ files' = files \cup hand[h].paths /\ Go(h, "published")
       \/ Ends(h) /\ UNCHANGED files
    /\ UNCHANGED <<sessions, broken, meta, queue, slot, history>>

\* switchSession adopts the file, refuses it, or throws before or after it
\* replaced the session.
ImportSwitch(h) ==
    /\ hand[h].pc = "published"
    /\ \/ \E p \in hand[h].paths : SwitchTo(p) /\ (Ends(h) \/ Go(h, "cleaning"))
       \/ Go(h, "cleaning") /\ UNCHANGED sessions
    /\ UNCHANGED <<disk, meta, queue, slot, history>>

\* Bug: the file is removed although the session was switched to.
ImportCleanup_Always(h) ==
    /\ hand[h].pc = "cleaning"
    /\ files' = files \ hand[h].paths
    /\ Ends(h)
    /\ UNCHANGED <<sessions, broken, meta, queue, slot, history>>

ImportCleanup(h) ==
    /\ hand[h].pc = "cleaning"
    /\ files' = files \ (hand[h].paths \ {active})
    /\ Ends(h)
    /\ UNCHANGED <<sessions, broken, meta, queue, slot, history>>

-----------------------------------------------------------------------------
\* Another console, a process of its own, removes a file of the directory.
OtherConsoleDeletes ==
    /\ \E p \in files :
          /\ files' = files \ {p}
          /\ broken' = broken \ {p}
    /\ foreign' = TRUE
    /\ UNCHANGED <<sessions, meta, queue, slot, hand, lastPin, deleted>>

RunJob(j) == JobRead(j) \/ JobWrite(j) \/ JobFails(j)

Continue(h) ==
    \/ Leave(h) \/ DeleteSwitch(h) \/ DeleteUnlink(h) \/ DeleteClear(h)
    \/ ForkList(h) \/ ForkStage(h) \/ ForkPublish(h)
    \/ OpenSwitch(h) \/ ImportPublish(h) \/ ImportSwitch(h) \/ ImportCleanup(h)

Start(h) == Pin(h) \/ DeleteStart(h) \/ OpenStart(h) \/ ForkStart(h) \/ ImportStart(h)

Next ==
    \/ \E h \in Handlers : Start(h) \/ Continue(h)
    \/ \E j \in DOMAIN queue : RunJob(j)
    \/ AssistantMessage \/ RenameActive \/ ClearName \/ ExportActive
    \/ OtherConsoleDeletes

Spec == Init /\ [][Next]_vars

-----------------------------------------------------------------------------
(* Properties *)

\* The slot of the session operations belongs to the handler that is inside one,
\* and is given back on every way out.
SlotOwned == \A h \in Handlers : slot = h <=> hand[h].pc \notin {"idle", "pinning"}

\* The types, and the slot is held by the one handler inside an operation.
TypeOK ==
    /\ active \in Paths /\ flushed \in BOOLEAN
    /\ used \subseteq Paths /\ files \subseteq Paths /\ broken \subseteq files
    /\ meta \in MetaMap
    /\ queue \in Seq(Job)
    /\ slot \in Handlers \cup {Nobody}
    /\ hand \in [Handlers -> Handler]
    /\ SlotOwned
    /\ lastPin \in MetaMap
    /\ deleted \subseteq Paths /\ foreign \in BOOLEAN

Waiting(p) == \E j \in DOMAIN queue : p \in queue[j].paths

\* A deletion that was confirmed leaves no metadata behind, and none comes back:
\* a pin that raced it was either refused or ordered before the removal.
DeletedStaysForgotten ==
    \A p \in deleted :
        /\ meta[p] = "absent"
        /\ \A j \in DOMAIN queue : p \in queue[j].paths => queue[j].entry = "absent"

\* Every confirmed pin or unpin is in the map until a later one or a deletion.
NoUpdateLost ==
    \A p \in Paths : ~Waiting(p) /\ p \notin deleted => meta[p] = lastPin[p]

\* The gateway never removes the file of the session it is running: unless
\* another process did, the file its manager appends to is there.
ActiveFileKept == ~foreign /\ flushed => active \in files

\* No sequence of the gateway's own operations leaves a file without its
\* header, which nothing could open again.
EveryFileOpens == ~foreign => broken = {}

\* "writing it out first leaves the append landing in a file that parses":
\* nor does one after another process removed the active session's file.
AppendsLandInFiles == broken = {}

=============================================================================
