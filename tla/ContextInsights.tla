--------------------------- MODULE ContextInsights ---------------------------
(* The context plugin (packages/plugins/context/src/index.ts): counts of the  *)
(* events of the current session, by type, over a bounded set of types.      *)
EXTENDS Naturals, Sequences, SequencesExt

CONSTANTS
    Types,         \* event types; one of them is the start of a compaction
    CompactionStart, Other,
    maxEventTypes, maxRecentEvents,
    MaxSession, MaxEvents  \* bounds

LimitAssumption == maxEventTypes \in Nat \ {0} /\ maxRecentEvents \in Nat

VARIABLES
    session, cached,   \* the runtime's session; cachedSession, with its snapshot
    eventTypes, recentEvents, eventCount, compactionCount,
    seen, lastSeen     \* history: events of the session since it was cached; the types of the last ones

insightVars == <<session, cached, eventTypes, recentEvents, eventCount, compactionCount, seen, lastSeen>>

Init ==
    /\ session = 1 /\ cached = 1
    /\ eventTypes = << >> /\ recentEvents = << >> /\ eventCount = 0 /\ compactionCount = 0
    /\ seen = << >> /\ lastSeen = 1

\* Bug: the counts go on from one session to the next.
Reset_Never == FALSE

\* ensureCurrentSession: another session starts from nothing.
Reset == cached # session

\* Bug: one type too many before the rest counts as other.
Full_Late(types) == Cardinality(DOMAIN types) >= maxEventTypes

Full(types) == Cardinality(DOMAIN types) >= maxEventTypes - 1

\* onEvent
Event(t) ==
    LET types  == IF Reset THEN << >> ELSE eventTypes
        recent == IF Reset THEN << >> ELSE recentEvents
        count  == IF Reset THEN 0 ELSE eventCount
        starts == IF Reset THEN 0 ELSE compactionCount
        type   == IF t \notin DOMAIN types /\ Full(types) THEN Other ELSE t
        longer == Append(recent, type)
    IN  /\ Len(seen) < MaxEvents
        /\ cached' = session
        /\ eventCount' = count + 1
        /\ eventTypes' = [u \in DOMAIN types \cup {type} |->
                            (IF u \in DOMAIN types THEN types[u] ELSE 0) + (IF u = type THEN 1 ELSE 0)]
        /\ recentEvents' = IF Len(longer) > maxRecentEvents THEN Tail(longer) ELSE longer
        /\ compactionCount' = starts + (IF type = CompactionStart THEN 1 ELSE 0)
        /\ seen' = IF lastSeen = session THEN Append(seen, type) ELSE <<type>>
        /\ lastSeen' = session
        /\ UNCHANGED session

\* The tool or the panel reads: a report of the session that is current.
Report ==
    /\ Reset /\ cached' = session
    /\ eventTypes' = << >> /\ recentEvents' = << >> /\ eventCount' = 0 /\ compactionCount' = 0
    /\ seen' = << >> /\ lastSeen' = session
    /\ UNCHANGED session

Switch ==
    /\ session < MaxSession /\ session' = session + 1
    /\ UNCHANGED <<cached, eventTypes, recentEvents, eventCount, compactionCount, seen, lastSeen>>

Next == Report \/ Switch \/ \E t \in Types : Event(t)

\* What is reported is of the events of the session it names only, adds up, and
\* stays within its bounds.
EventsCounted ==
    /\ cached = lastSeen => eventCount = Len(seen)
    /\ SumFunction(eventTypes) = eventCount
    /\ Cardinality(DOMAIN eventTypes) <= maxEventTypes
    /\ IsSuffix(recentEvents, seen)
    /\ Len(recentEvents) = IF eventCount < maxRecentEvents THEN eventCount ELSE maxRecentEvents
=============================================================================
