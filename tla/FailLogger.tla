----------------------------- MODULE FailLogger -----------------------------
(* The fail-logger plugin (packages/plugins/fail-logger/src/index.ts): the    *)
(* most recent distinct failures, each with how often it was seen.           *)
EXTENDS Naturals, Sequences, SequencesExt, FiniteSetsExt

CONSTANTS
    Fingerprints,  \* source and message of a failure
    maxFailures,
    MaxObserved    \* bound on the failures

LimitAssumption == maxFailures \in Nat

VARIABLES
    failures,  \* the list, the most recent at the end
    indexed,   \* fingerprints in the index
    observed, dropped,
    forgotten, \* history: occurrences that left with a dropped entry
    last       \* history: the fingerprint of the latest failure, and the number of its occurrences so far

loggerVars == <<failures, indexed, observed, dropped, forgotten, last>>

Init ==
    /\ failures = << >> /\ indexed = {} /\ observed = 0 /\ dropped = 0
    /\ forgotten = 0 /\ last = << >>

\* Bug: what is seen again keeps its place.
Renewed_InPlace(f) ==
    [k \in DOMAIN failures |-> IF failures[k].print = f THEN [failures[k] EXCEPT !.occurrences = @ + 1] ELSE failures[k]]

\* An entry that is seen again moves to the end.
Renewed(f) ==
    LET k == CHOOSE i \in DOMAIN failures : failures[i].print = f
    IN Append(RemoveAt(failures, k), [failures[k] EXCEPT !.occurrences = @ + 1])

Unindexed(e) == {e.print}

\* record, for an extension error, a failed turn or a failed compaction
Record(f) ==
    /\ observed < MaxObserved
    /\ observed' = observed + 1
    /\ last' = Append(RemoveFirst(last, f), f)
    /\ IF f \in indexed
       THEN failures' = Renewed(f) /\ UNCHANGED <<indexed, dropped, forgotten>>
       ELSE LET all == Append(failures, [print |-> f, occurrences |-> 1])
                out == Head(all)
            IN IF Len(all) > maxFailures
               THEN /\ failures' = Tail(all)
                    /\ indexed' = (indexed \cup {f}) \ Unindexed(out)
                    /\ dropped' = dropped + 1
                    /\ forgotten' = forgotten + out.occurrences
               ELSE failures' = all /\ indexed' = indexed \cup {f} /\ UNCHANGED <<dropped, forgotten>>

Next == \E f \in Fingerprints : Record(f)

\* Every failure that was observed is in the count of one entry or went with a
\* dropped one, and the entries are the most recent distinct failures in order.
FailuresCounted ==
    /\ observed = forgotten + SumFunction([k \in DOMAIN failures |-> failures[k].occurrences])
    /\ [k \in DOMAIN failures |-> failures[k].print] =
         SubSeq(last, Len(last) - Len(failures) + 1, Len(last))
    /\ Len(failures) = Min({Len(last), maxFailures})
=============================================================================
