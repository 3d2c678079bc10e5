----------------------------- MODULE GraphMemory -----------------------------
(* The graph-memory plugin (packages/plugins/graph-memory/src/index.ts): typed *)
(* nodes and relations in one file, which the processes of the harness change *)
(* under a lock directory that holds a file of its owner.                    *)
EXTENDS Naturals, FiniteSets

CONSTANTS
    Processes, Nodes,
    Absent,
    maxNodes,
    MaxLocks, MaxCrashes  \* bounds: lock directories made, crashes

VARIABLES
    graph,      \* the file: its nodes and relations
    lock,       \* the lock directory: its number, the files of owners it holds, which of
                \* them are blank or of a process that is gone, whether all is old
    locks,      \* lock directories made so far
    pc,         \* what the head of each mutationQueue is at
    snap,       \* the state it has read
    seen,       \* the lock directory it has made, or the owner's file it will reclaim
    crashes,
    expected,   \* history: the mutations that were written, one after the other, until
    taken,      \* history: a living process lost its directory while it used it
    doubted     \* history: a blank file was reclaimed of a living process, or twice

\* A lock directory, for which Absent stands when there is none.  A file of an owner
\* bears the number of the directory that was made for it, as its token.
Locks == [n : Nat, owners : SUBSET Nat, blank : SUBSET Nat, dead : SUBSET Nat, old : BOOLEAN]
LockAssumption == Absent \notin Locks

memoryVars == <<graph, lock, locks, pc, snap, seen, crashes, expected, taken, doubted>>
history    == <<expected, taken, doubted>>

EmptyGraph == [nodes |-> {}, relations |-> {}]
Mutations ==
    [kind : {"record", "forget"}, node : Nodes, to : {Absent}] \cup
    {[kind |-> "link", node |-> n, to |-> m] : n \in Nodes, m \in Nodes}

\* What an earlier process may have left in the file: every relation there can be.
EarlierGraph == [nodes |-> Nodes, relations |-> {e \in Nodes \X Nodes : e[1] # e[2]}]

Init ==
    /\ graph \in {EmptyGraph, EarlierGraph} /\ lock = Absent /\ locks = 0
    /\ pc = [p \in Processes |-> "idle"]
    /\ snap = [p \in Processes |-> EmptyGraph] /\ seen = [p \in Processes |-> 0]
    /\ crashes = 0 /\ expected = graph /\ taken = FALSE /\ doubted = FALSE

At(p, from, to) == pc[p] = from /\ pc' = [pc EXCEPT ![p] = to]

-----------------------------------------------------------------------------
(* Mutations *)

\* Bug: a forgotten node leaves its relations behind.
Incident_None(g, n) == {}

Incident(g, n) == {r \in g.relations : n \in {r[1], r[2]}}

\* Bug: a relation is made to whatever identifier is given.
Linkable_Always(g, m) == TRUE

Linkable(g, m) == m.node # m.to /\ {m.node, m.to} \subseteq g.nodes

Accepted(g, m) ==
    CASE m.kind = "record" -> m.node \in g.nodes \/ Cardinality(g.nodes) < maxNodes
      [] m.kind = "link"   -> Linkable(g, m)
      [] OTHER             -> TRUE

Applied(g, m) ==
    CASE m.kind = "record" -> [g EXCEPT !.nodes = @ \cup {m.node}]
      [] m.kind = "link"   -> [g EXCEPT !.relations = @ \cup {<<m.node, m.to>>}]
      [] m.kind = "forget" -> [nodes |-> g.nodes \ {m.node}, relations |-> g.relations \ Incident(g, m.node)]

Mutate(p) ==
    /\ At(p, "idle", "waiting")
    /\ UNCHANGED <<graph, lock, locks, snap, seen, crashes, history>>

Read(p) ==
    /\ At(p, "locked", "read") /\ snap' = [snap EXCEPT ![p] = graph]
    /\ UNCHANGED <<graph, lock, locks, seen, crashes, history>>

\* What the mutation asks for shows here for the first time.
Write(p) ==
    \E m \in Mutations :
       /\ Accepted(snap[p], m) /\ At(p, "read", "written")
       /\ graph' = Applied(snap[p], m)
       /\ expected' = IF taken THEN graph' ELSE Applied(expected, m)
       /\ snap' = [snap EXCEPT ![p] = EmptyGraph]
       /\ UNCHANGED <<lock, locks, seen, crashes, taken, doubted>>

\* Cancelled, or refused by what was read: nothing is written.
Abandon(p) ==
    /\ At(p, "read", "written") /\ snap' = [snap EXCEPT ![p] = EmptyGraph]
    /\ UNCHANGED <<graph, lock, locks, seen, crashes, history>>

-----------------------------------------------------------------------------
(* The lock *)

\* The process uses the lock whose number it has seen, or will give it up.
Uses(p)  == pc[p] \in {"made", "opened", "locked", "read"}
Holds(p) == Uses(p) \/ pc[p] \in {"written", "emptied"}

Used(n) == \E p \in Processes : Uses(p) /\ seen[p] = n
Held(n) == \E p \in Processes : Holds(p) /\ seen[p] = n

There(n) == lock # Absent /\ n \in lock.owners
Empty    == lock # Absent /\ lock.owners = {}

\* unlink of the file that bears n, in whatever directory is there
Unlink(n) ==
    lock' = IF There(n) THEN [lock EXCEPT !.owners = @ \ {n}, !.blank = @ \ {n}, !.dead = @ \ {n},
                                          !.old = FALSE]
            ELSE lock

\* rmdir of whatever directory is there, if it is empty
Rmdir ==
    /\ lock' = IF Empty THEN Absent ELSE lock
    /\ taken' = (taken \/ (Empty /\ Used(lock.n)))

\* Bug: the directory is made whether it is there or not.
Free_Always == TRUE

Free == lock = Absent

MakeLock(p) ==
    /\ Free /\ locks < MaxLocks /\ At(p, "waiting", "made")
    /\ locks' = locks + 1
    /\ lock' = [n |-> locks', owners |-> {}, blank |-> {}, dead |-> {}, old |-> FALSE]
    /\ seen' = [seen EXCEPT ![p] = locks']
    /\ UNCHANGED <<graph, snap, crashes, history>>

\* The owner's file is made in whatever directory is there, and is blank at first.
OpenOwner(p) ==
    /\ lock # Absent /\ At(p, "made", "opened")
    /\ lock' = [lock EXCEPT !.owners = @ \cup {seen[p]}, !.blank = @ \cup {seen[p]}, !.old = FALSE]
    /\ UNCHANGED <<graph, locks, snap, seen, crashes, history>>

FillOwner(p) ==
    /\ At(p, "opened", "locked")
    /\ lock' = IF There(seen[p]) THEN [lock EXCEPT !.blank = @ \ {seen[p]}, !.old = FALSE] ELSE lock
    /\ UNCHANGED <<graph, locks, snap, seen, crashes, history>>

\* The file cannot be made or written: nothing is left to do but the rmdir.
OwnerFails(p) ==
    /\ At(p, "made", "emptied") \/ At(p, "opened", "emptied")
    /\ UNCHANGED <<graph, lock, locks, snap, seen, crashes, history>>

\* release: the owner's file, then the directory; without the file, an error
RemoveOwner(p) ==
    /\ At(p, "written", IF There(seen[p]) THEN "emptied" ELSE "idle")
    /\ Unlink(seen[p])
    /\ seen' = IF There(seen[p]) THEN seen ELSE [seen EXCEPT ![p] = 0]
    /\ UNCHANGED <<graph, locks, snap, crashes, history>>

RemoveLock(p) ==
    /\ At(p, "emptied", "idle") /\ Rmdir
    /\ seen' = [seen EXCEPT ![p] = 0]
    /\ UNCHANGED <<graph, locks, snap, crashes, expected, doubted>>

\* Bug: a stale lock is removed while its owner lives.
Gone_Not(n) == TRUE

Gone(n) == n \in lock.dead

\* A lock that may be reclaimed is old and has the file of one owner, which is blank
\* or names a process that is gone.
Stale(n) == lock # Absent /\ lock.old /\ lock.owners = {n} /\ (n \in lock.blank \/ Gone(n))

InspectLock(p) ==
    \E n \in 1..locks :
       /\ Stale(n) /\ At(p, "waiting", IF n \in lock.blank THEN "doubting" ELSE "inspected")
       /\ seen' = [seen EXCEPT ![p] = n]
       /\ UNCHANGED <<graph, lock, locks, snap, crashes, history>>

\* The file has a name of its own: who finds another one, or none, gives up.
ReclaimOwner(p) ==
    /\ At(p, "inspected", IF There(seen[p]) THEN "reclaimed" ELSE "waiting")
    /\ Unlink(seen[p]) /\ seen' = [seen EXCEPT ![p] = 0]
    /\ UNCHANGED <<graph, locks, snap, crashes, history>>

\* A file that cannot be parsed: who finds none goes on all the same.
ReclaimBlank(p) ==
    /\ At(p, "doubting", "reclaimed")
    /\ Unlink(seen[p]) /\ seen' = [seen EXCEPT ![p] = 0]
    /\ doubted' = (doubted \/ ~There(seen[p]) \/ Held(seen[p]))
    /\ UNCHANGED <<graph, locks, snap, crashes, expected, taken>>

ReclaimLock(p) ==
    /\ At(p, "reclaimed", "waiting") /\ Rmdir
    /\ UNCHANGED <<graph, locks, snap, seen, crashes, expected, doubted>>

\* The time-out of the wait, or its cancellation
GiveUp(p) ==
    /\ At(p, "waiting", "idle")
    /\ UNCHANGED <<graph, lock, locks, snap, seen, crashes, history>>

\* Thirty seconds
Age ==
    /\ lock # Absent /\ ~lock.old /\ lock' = [lock EXCEPT !.old = TRUE]
    /\ UNCHANGED <<graph, locks, pc, snap, seen, crashes, history>>

\* A process ends anywhere, and is started again.
Crash(p) ==
    /\ crashes < MaxCrashes /\ crashes' = crashes + 1
    /\ pc' = [pc EXCEPT ![p] = "idle"]
    /\ snap' = [snap EXCEPT ![p] = EmptyGraph] /\ seen' = [seen EXCEPT ![p] = 0]
    /\ lock' = IF Holds(p) /\ There(seen[p]) THEN [lock EXCEPT !.dead = @ \cup {seen[p]}] ELSE lock
    /\ UNCHANGED <<graph, locks, history>>

Next ==
    \/ \E p \in Processes :
          \/ Mutate(p) \/ Read(p) \/ Write(p) \/ Abandon(p)
          \/ MakeLock(p) \/ OpenOwner(p) \/ FillOwner(p) \/ OwnerFails(p)
          \/ RemoveOwner(p) \/ RemoveLock(p) \/ InspectLock(p) \/ ReclaimOwner(p)
          \/ ReclaimBlank(p) \/ ReclaimLock(p) \/ GiveUp(p) \/ Crash(p)
    \/ Age

-----------------------------------------------------------------------------
(* Properties *)

\* The file is what the written mutations make of it, one after the other, as long
\* as no process lost the lock while it used it.  None does, but for an owner's file
\* that stayed blank for as long as a stale one, when its owner lives or two others
\* find it.  Every relation is between two nodes of the file in any case.
GraphIsSerial ==
    /\ graph = expected
    /\ taken => doubted
    /\ \A r \in graph.relations : r[1] # r[2] /\ {r[1], r[2]} \subseteq graph.nodes
=============================================================================
