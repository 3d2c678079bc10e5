----------------------------- MODULE AtomicFile -----------------------------
(***************************************************************************)
(* What atomicWriteFile promises the callers that share one target: each   *)
(* write takes effect whole and in the turn it was asked for, or not at    *)
(* all, and after a crash the target is one of the contents since the last *)
(* directory sync.                                                         *)
(***************************************************************************)
CONSTANTS
    Calls,      \* writes, each asked at most once; the content of one is its name
    Exclusive,  \* the writes that must create the target (overwrite: false)
    Original,   \* the content before any write
    NoFile      \* no content: the target does not exist

VARIABLES
    content,    \* what a reader of the target gets
    kept,       \* contents a power loss may bring back
    status,     \* of each write
    before      \* the writes of this process asked before each write

vars == <<content, kept, status, before>>

Ended    == {c \in Calls : status[c] \in {"done", "failed"}}
Asked    == {c \in Calls : status[c] \notin {"idle", "lost"}}
InTurn(c) == before[c] \subseteq Ended

Init ==
    /\ content \in {Original, NoFile}
    /\ kept = {content}
    /\ status = [c \in Calls |-> "idle"]
    /\ before = [c \in Calls |-> {}]

Ask(c) ==
    /\ status[c] = "idle"
    /\ status' = [status EXCEPT ![c] = "waiting"]
    /\ before' = [before EXCEPT ![c] = Asked]
    /\ UNCHANGED <<content, kept>>

Apply(c) ==
    /\ status[c] = "waiting" /\ InTurn(c)
    /\ c \in Exclusive => content = NoFile
    /\ content' = c
    /\ kept' = kept \cup {c}
    /\ status' = [status EXCEPT ![c] = "applied"]
    /\ UNCHANGED before

Settle(c) ==
    /\ status[c] = "applied"
    /\ status' = [status EXCEPT ![c] = "done"]
    /\ kept' \in {kept, {content}}
    /\ UNCHANGED <<content, before>>

Reject(c) ==
    /\ status[c] = "waiting" /\ InTurn(c)
    /\ status' = [status EXCEPT ![c] = "failed"]
    /\ UNCHANGED <<content, kept, before>>

Crash ==
    /\ \/ UNCHANGED <<content, kept>>
       \/ content' \in kept /\ kept' = {content'}
    /\ status' = [c \in Calls |-> IF status[c] = "idle" THEN "idle" ELSE "lost"]
    /\ UNCHANGED before

Next ==
    \/ \E c \in Calls : Ask(c) \/ Apply(c) \/ Settle(c) \/ Reject(c)
    \/ Crash

Spec == Init /\ [][Next]_vars

=============================================================================
