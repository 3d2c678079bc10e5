---------------------------- MODULE SessionBridge ----------------------------
(* The session-bridge plugin (packages/plugins/session-bridge/src/index.ts):  *)
(* handoff packages imported into the current session, appended at once or,   *)
(* during a run, queued by the agent until the turn ends.                    *)
EXTENDS Naturals, FiniteSets, Sequences, SequencesExt

CONSTANTS
    Sessions, Digests, None,
    MaxHeaders,  \* bound on the times a session is loaded
    maxQueued    \* handoffs that may be queued

VARIABLES
    session, header,  \* the runtime's session; the number of its load (its header)
    streaming,        \* isStreaming
    entries,          \* the session's entries in memory
    journal,          \* its file, of each session
    deferred,         \* custom messages the agent holds until the turn ends
    queued,           \* the digests reserved for this header
    failed,           \* failedManagers: the header whose writes failed, or 0
    op,               \* the import that is awaited
    status,           \* status, with the header it is about
    accepted          \* history: the imports of this header its callers were told of

BridgeAssumption == maxQueued \in Nat

bridgeVars == <<session, header, streaming, entries, journal, deferred, queued, failed, op, status, accepted>>

NoOp == [digest |-> None, header |-> 0]

\* known is history: whether the session had failed when the status was set.
Status(s, operation) ==
    [state |-> s, operation |-> operation, header |-> header, known |-> failed = header]

Init ==
    /\ session \in Sessions /\ header = 1 /\ streaming = FALSE
    /\ entries = << >> /\ journal = [s \in Sessions |-> << >>]
    /\ deferred = << >> /\ queued = {} /\ failed = 0
    /\ op = NoOp /\ status = Status("idle", "none") /\ accepted = {}

\* Bug: a handoff that is still queued does not count.
Duplicate_Journal(d) == d \in Range(entries)

Duplicate(d) == d \in Range(entries) \/ d \in queued

\* Bug: one more than the limit.
Full_Late == streaming /\ Cardinality(queued) > maxQueued

Full == streaming /\ Cardinality(queued) >= maxQueued

\* A check fails, or the call was cancelled.
Rejected ==
    /\ status' \in {Status("failed", "import"), Status("cancelled", "import")}
    /\ UNCHANGED <<entries, journal, deferred, queued, failed, op, accepted>>

\* Bug: nobody remembers that the write failed.
Failed_Forgotten == failed

Failed == header

\* sendCustomMessage threw: what it did to the memory stays.
WriteFails(d) ==
    /\ entries' \in {entries, IF streaming THEN entries ELSE Append(entries, d)}
    /\ failed' = Failed
    /\ status' = Status("failed", "import")
    /\ UNCHANGED <<journal, deferred, queued, op, accepted>>

Sent(d) ==
    /\ IF streaming
       THEN /\ deferred' = Append(deferred, d) /\ queued' = queued \cup {d}
            /\ UNCHANGED <<entries, journal>>
       ELSE /\ entries' = Append(entries, d)
            /\ journal' = [journal EXCEPT ![session] = Append(@, d)]
            /\ UNCHANGED <<deferred, queued>>
    /\ op' = [digest |-> d, header |-> header]
    /\ status' = Status("running", "import")
    /\ UNCHANGED <<failed, accepted>>

\* session_bridge_import: nothing comes between its checks and the send.
Import(d) ==
    /\ op = NoOp /\ failed # header
    /\ Rejected \/ (~Duplicate(d) /\ ~Full /\ (WriteFails(d) \/ Sent(d)))
    /\ UNCHANGED <<session, header, streaming>>

\* The send resolves: the caller learns of it if this is still the session, even
\* if its writes have failed meanwhile.
ImportReturns ==
    /\ op # NoOp /\ op' = NoOp
    /\ IF op.header = header
       THEN status' = Status("completed", "import") /\ accepted' = accepted \cup {op.digest}
       ELSE UNCHANGED <<status, accepted>>
    /\ UNCHANGED <<session, header, streaming, entries, journal, deferred, queued, failed>>

\* Bug: the session is not asked whether its writes failed.
Readable_Always == TRUE

\* activeManager
Readable == failed # header

\* A tool that changes nothing; its calls do not overlap those of the import.
Reads(operation, may) ==
    /\ op.header # header
    /\ \/ may /\ status' = Status("completed", operation)
       \/ status' \in {Status("failed", operation), Status("cancelled", operation)}
    /\ UNCHANGED <<session, header, streaming, entries, journal, deferred, queued, failed, op, accepted>>

\* session_bridge_export
Export == Reads("export", Readable)

\* session_bridge_preview, which may be given its package instead of reading the session
Preview == \E given \in BOOLEAN : Reads("preview", given \/ Readable)

\* message_end of what was appended drops its reservation.
Reserved(appended) == queued \ Range(appended)

\* Bug: the end of a turn clears the reservations without a look at the entries.
Missing_None(left, kept) == {}

\* reconcileQueuedImport: what is reserved and not in the entries
Missing(left, kept) == left \ Range(kept)

\* At turn_end the agent appends what it holds, as far as its writes go, with a
\* message_end for each; then the microtask of turn_end looks at what is there.
TurnEnds ==
    /\ streaming
    /\ \E n \in 0..Len(deferred) :
         LET appended == SubSeq(deferred, 1, n)
             missing == Missing(Reserved(appended), entries \o appended)
         IN  /\ entries' = entries \o appended
             /\ journal' = [journal EXCEPT ![session] = @ \o appended]
             /\ deferred' = << >> /\ queued' = missing
             /\ failed' = IF missing # {} THEN header ELSE failed
             /\ status' = IF missing # {} THEN Status("failed", "import") ELSE status
    /\ UNCHANGED <<session, header, streaming, op, accepted>>

RunStarts ==
    /\ ~streaming /\ streaming' = TRUE
    /\ UNCHANGED <<session, header, entries, journal, deferred, queued, failed, op, status, accepted>>

RunEnds ==
    /\ streaming /\ deferred = << >> /\ streaming' = FALSE
    /\ UNCHANGED <<session, header, entries, journal, deferred, queued, failed, op, status, accepted>>

\* A session is opened, or the same one loaded again: its entries are its file.
Load(s) ==
    /\ header < MaxHeaders
    /\ session' = s /\ header' = header + 1 /\ streaming' = FALSE
    /\ entries' = journal[s] /\ deferred' = << >> /\ queued' = {}
    /\ status' = [state |-> "idle", operation |-> "none", header |-> header', known |-> FALSE]
    /\ accepted' = {}
    /\ UNCHANGED <<journal, failed, op>>

Next ==
    \/ \E d \in Digests : Import(d)
    \/ ImportReturns \/ Export \/ Preview \/ TurnEnds \/ RunStarts \/ RunEnds
    \/ \E s \in Sessions : Load(s)

-----------------------------------------------------------------------------
(* Properties *)

\* A handoff is in a session once, whether it was appended or queued, and no more
\* than maxQueued wait for the end of the turn.
ImportedOnce ==
    /\ \A s \in Sessions : IsInjective(journal[s] \o IF s = session THEN deferred ELSE << >>)
    /\ Cardinality(queued) <= maxQueued

\* An import its caller was told of is in the file or held for the end of the
\* turn, unless the session is known to have failed; and a session whose
\* entries are not those of its file is.
AcceptedIsKept ==
    failed # header =>
        /\ accepted \subseteq Range(journal[session]) \cup Range(deferred)
        /\ entries = journal[session]
        /\ queued = Range(deferred)

\* What was reported as done before the session was found to have failed is not
\* any more.  Later only a preview, of a package it was given, or the import that
\* was on its way is.
FailureIsShown ==
    failed = header /\ status.state = "completed" =>
        status.known /\ status.operation \in {"preview", "import"}
=============================================================================
