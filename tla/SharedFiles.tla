----------------------------- MODULE SharedFiles -----------------------------
(* The files that more than one process or plugin changes: the graph and the *)
(* ledger that processes share under a lock, the session's file under the    *)
(* handoffs that are imported into it, and the directory of undo capsules.   *)
(* Each has variables of its own.                                            *)
EXTENDS Naturals

CONSTANTS
    Requests,
    Processes, NoLock, NoEntry, MaxCost, MaxDay, MaxCrashes,
    Nodes, Absent, maxNodes, MaxLocks,
    Sessions, Digests, None, MaxHeaders, maxQueued,
    MaxSession, maxCapsules

VARIABLES
    cost, day, ledger, ledgerLock, ledgerLocks, recorder, snapshots, disk, ledgerSeen,
    ledgerCrashes, acked, stolen,
    graph, lock, locks, mutator, snap, seen, crashes, expected, taken, doubted,
    session, header, streaming, entries, journal, deferred, queued, failed, op, status, accepted,
    workspace, capsules, clock, line, gone, req, cleanups, activity

Ledger == INSTANCE CostLedger WITH lock <- ledgerLock, locks <- ledgerLocks, pc <- recorder,
              queue <- snapshots, seen <- ledgerSeen, crashes <- ledgerCrashes
Memory == INSTANCE GraphMemory WITH pc <- mutator
Bridge == INSTANCE SessionBridge
Caps   == INSTANCE Capsules WITH session <- workspace

ASSUME LedgerAssumption == Ledger!LedgerAssumption
ASSUME MemoryAssumption == Memory!LockAssumption
ASSUME HandoffsAssumption == Bridge!BridgeAssumption
ASSUME CapsulesAssumption == Caps!CapsuleAssumption

costs   == <<cost, day, ledger, ledgerLock, ledgerLocks, recorder, snapshots, disk, ledgerSeen,
             ledgerCrashes, acked, stolen>>
memory  == <<graph, lock, locks, mutator, snap, seen, crashes, expected, taken, doubted>>
bridge  == <<session, header, streaming, entries, journal, deferred, queued, failed, op, status, accepted>>
caps    == <<workspace, capsules, clock, line, gone, req, cleanups, activity>>
=============================================================================
