----------------------------- MODULE CostLedger -----------------------------
(* The cost-meter plugin (packages/plugins/cost-meter/src/index.ts): a ledger *)
(* of the costs of each session and day, shared by the processes of the       *)
(* harness under a lock file, which outlives a process that crashes.         *)
(*                                                                         *)
(* Each process has a session of its own, whose cumulative cost survives it.  *)
EXTENDS Integers, Sequences, FiniteSets, FiniteSetsExt

CONSTANTS
    Processes,
    NoLock, NoEntry,
    MaxCost, MaxDay, MaxCrashes  \* bounds: cost of a session, days, crashes

Days == 1..MaxDay

\* A lock file and an entry, for which NoLock and NoEntry stand when there is none
Locks   == [n : Nat, dead : BOOLEAN, written : BOOLEAN, old : BOOLEAN]
Entries == [cost : Nat, sessionCost : Nat]
LedgerAssumption == NoLock \notin Locks /\ NoEntry \notin Entries /\ MaxDay \in Nat \ {0}

VARIABLES
    cost, day,  \* the cost of each session so far; today
    ledger,     \* the file: the entry of each session and day
    lock,       \* the lock file: its number, whether its process is gone, its owner written, its age
    locks,      \* lock files created so far
    pc,         \* what the head of each writeQueue is at
    queue,      \* the snapshots in it: cost and day
    disk,       \* the entries it has read
    seen,       \* the lock it has created
    crashes,
    acked,      \* history: the cost each session was told is recorded
    stolen      \* history: the lock of a process that lives was removed

ledgerVars == <<cost, day, ledger, lock, locks, pc, queue, disk, seen, crashes, acked, stolen>>

Empty == [p \in Processes |-> [d \in Days |-> NoEntry]]

Init ==
    /\ cost = [p \in Processes |-> 0] /\ day = 1
    /\ ledger = Empty /\ lock = NoLock /\ locks = 0
    /\ pc = [p \in Processes |-> "idle"]
    /\ queue = [p \in Processes |-> << >>]
    /\ disk = [p \in Processes |-> Empty]
    /\ seen = [p \in Processes |-> 0]
    /\ crashes = 0
    /\ acked = [p \in Processes |-> 0] /\ stolen = FALSE

At(p, from, to) == pc[p] = from /\ pc' = [pc EXCEPT ![p] = to]

-----------------------------------------------------------------------------
(* The lock *)

\* Bug: the lock file is opened whether it is there or not.
Openable_Always == TRUE

Openable == lock = NoLock

\* open(lockPath, "wx")
OpenLock(p) ==
    /\ Openable /\ At(p, "waiting", "opened")
    /\ locks' = locks + 1
    /\ lock' = [n |-> locks', dead |-> FALSE, written |-> FALSE, old |-> FALSE]
    /\ seen' = [seen EXCEPT ![p] = locks']
    /\ UNCHANGED <<cost, day, ledger, queue, disk, crashes, acked, stolen>>

\* The lock was taken by then: its age
StatLock(p) ==
    /\ lock # NoLock /\ lock.old
    /\ At(p, "waiting", "statted")
    /\ UNCHANGED <<cost, day, ledger, lock, locks, queue, disk, seen, crashes, acked, stolen>>

\* mayReclaimLock reads its owner after: of a process that is gone, not there
\* yet, or gone with the lock
MayReclaim == lock = NoLock \/ ~lock.written \/ lock.dead

InspectLock(p) ==
    /\ At(p, "statted", IF MayReclaim THEN "reclaiming" ELSE "waiting")
    /\ UNCHANGED <<cost, day, ledger, lock, locks, queue, disk, seen, crashes, acked, stolen>>

\* The unlink goes by the path, whichever lock is there by now.
UnlinkLock(p) ==
    /\ At(p, "reclaiming", "waiting")
    /\ stolen' = (stolen \/ (lock # NoLock /\ ~lock.dead))
    /\ lock' = NoLock
    /\ UNCHANGED <<cost, day, ledger, locks, queue, disk, seen, crashes, acked>>

WriteOwner(p) ==
    /\ At(p, "opened", "locked")
    /\ lock' = IF lock # NoLock /\ lock.n = seen[p] THEN [lock EXCEPT !.written = TRUE] ELSE lock
    /\ UNCHANGED <<cost, day, ledger, locks, queue, disk, seen, crashes, acked, stolen>>

\* Thirty seconds go by; a process that lives writes its owner well before.
Age ==
    /\ lock # NoLock /\ ~lock.old /\ (lock.written \/ lock.dead)
    /\ lock' = [lock EXCEPT !.old = TRUE]
    /\ UNCHANGED <<cost, day, ledger, locks, pc, queue, disk, seen, crashes, acked, stolen>>

-----------------------------------------------------------------------------
(* A record *)

\* agent_end: the statistics of the session, with the time
Record(p) ==
    /\ cost[p] < MaxCost /\ Len(queue[p]) < 2
    /\ cost' = [cost EXCEPT ![p] = @ + 1]
    /\ queue' = [queue EXCEPT ![p] = Append(@, [cost |-> cost'[p], day |-> day])]
    /\ UNCHANGED <<day, ledger, lock, locks, pc, disk, seen, crashes, acked, stolen>>

Begin(p) ==
    /\ queue[p] # << >> /\ At(p, "idle", "waiting")
    /\ UNCHANGED <<cost, day, ledger, lock, locks, queue, disk, seen, crashes, acked, stolen>>

Read(p) ==
    /\ At(p, "locked", "read")
    /\ disk' = [disk EXCEPT ![p] = ledger]
    /\ UNCHANGED <<cost, day, ledger, lock, locks, queue, seen, crashes, acked, stolen>>

\* Bug: the increment of another day is the whole cost of the session.
Before_SameDay(entries, d) == {e \in Days : e = d /\ entries[e] # NoEntry}

\* The days of a session's entries that an increment counts from
Before(entries, d) == {e \in Days : e <= d /\ entries[e] # NoEntry}

\* costEntryFor: what was spent since the entry of the day, or of the one before
Entry(entries, snapshot) ==
    LET before  == Before(entries, snapshot.day)
        counted == IF before = {} THEN 0 ELSE entries[Max(before)].sessionCost
        spent   == IF snapshot.cost < counted THEN snapshot.cost ELSE snapshot.cost - counted
        today   == IF entries[snapshot.day] = NoEntry THEN 0 ELSE entries[snapshot.day].cost
    IN  [cost |-> today + spent, sessionCost |-> snapshot.cost]

\* The entries that were read, with the new one, are renamed over the ledger.
Write(p) ==
    LET snapshot == Head(queue[p]) IN
    /\ At(p, "read", "written")
    /\ ledger' = [disk[p] EXCEPT ![p][snapshot.day] = Entry(disk[p][p], snapshot)]
    /\ UNCHANGED <<cost, day, lock, locks, queue, disk, seen, crashes, acked, stolen>>

\* releaseOwnedLock, then the record resolves
Release(p) ==
    /\ At(p, "written", "idle")
    /\ lock' = IF lock # NoLock /\ lock.n = seen[p] THEN NoLock ELSE lock
    /\ acked' = [acked EXCEPT ![p] = Head(queue[p]).cost]
    /\ queue' = [queue EXCEPT ![p] = Tail(@)]
    /\ disk' = [disk EXCEPT ![p] = Empty]
    /\ UNCHANGED <<cost, day, ledger, locks, seen, crashes, stolen>>

\* Too many attempts, or the plugin is disposed: lastError says so.
GiveUp(p) ==
    /\ pc[p] \in {"waiting", "locked", "read"} /\ pc' = [pc EXCEPT ![p] = "idle"]
    /\ lock' = IF pc[p] # "waiting" /\ lock # NoLock /\ lock.n = seen[p] THEN NoLock ELSE lock
    /\ queue' = [queue EXCEPT ![p] = Tail(@)]
    /\ disk' = [disk EXCEPT ![p] = Empty]
    /\ UNCHANGED <<cost, day, ledger, locks, seen, crashes, acked, stolen>>

Locked(p) == pc[p] \in {"opened", "locked", "read", "written"}

\* A process ends anywhere, and another one goes on with its session.
Crash(p) ==
    /\ crashes < MaxCrashes
    /\ crashes' = crashes + 1
    /\ pc' = [pc EXCEPT ![p] = "idle"]
    /\ queue' = [queue EXCEPT ![p] = << >>]
    /\ disk' = [disk EXCEPT ![p] = Empty]
    /\ lock' = IF lock # NoLock /\ Locked(p) /\ lock.n = seen[p] THEN [lock EXCEPT !.dead = TRUE] ELSE lock
    /\ seen' = [seen EXCEPT ![p] = 0]
    /\ UNCHANGED <<cost, day, ledger, locks, acked, stolen>>

NextDay ==
    /\ day < MaxDay /\ day' = day + 1
    /\ UNCHANGED <<cost, ledger, lock, locks, pc, queue, disk, seen, crashes, acked, stolen>>

Next ==
    \/ \E p \in Processes :
          \/ OpenLock(p) \/ StatLock(p) \/ InspectLock(p) \/ UnlinkLock(p) \/ WriteOwner(p)
          \/ Record(p) \/ Begin(p) \/ Read(p) \/ Write(p) \/ Release(p) \/ GiveUp(p) \/ Crash(p)
    \/ Age \/ NextDay

Spec == Init /\ [][Next]_ledgerVars

-----------------------------------------------------------------------------
(* Properties *)

\* The units of cost that the entries of a session record, each with its day
Units(entries) == UNION {{d} \X (1..entries[d].cost) : d \in {e \in Days : entries[e] # NoEntry}}
Recorded(p) == Cardinality(Units(ledger[p]))

\* No cost is counted twice, whatever crashed and whoever took a lock.
NeverOvercounts == \A p \in Processes : Recorded(p) <= cost[p]

\* Two processes never write the ledger at once, and what was reported as
\* recorded is in it, as long as no lock was taken from a process that lives.
LedgerKeepsAll ==
    ~stolen =>
        /\ \A p, q \in Processes : {pc[p], pc[q]} \subseteq {"locked", "read", "written"} => p = q
        /\ \A p \in Processes : acked[p] <= Recorded(p)

\* What the test "merges concurrent writers that share one ledger" says of any
\* two writers: it is false of two that both found the lock of a crashed one.
LedgerMerges == \A p \in Processes : acked[p] <= Recorded(p)
=============================================================================
