----------------------------- MODULE Supervisor -----------------------------
(* superviseDevelopmentProcess (packages/cli/src/relaunch.ts): the parent    *)
(* that starts the launcher, relays signals to it, and starts it again when  *)
(* it leaves with the restart code.  The clock is read in ticks.             *)
EXTENDS Naturals, Sequences

CONSTANTS
    RESTART_WINDOW, RESTART_WINDOW_LIMIT, RESTART_BACKOFF,
    MaxTime,    \* bound on the clock
    NoResult

RestartAssumption == RESTART_WINDOW \in Nat /\ RESTART_WINDOW_LIMIT \in Nat /\ NoResult \notin Nat

VARIABLES
    now,
    child,      \* where the child is, or the code it left with
    relayed,    \* signals the child was sent
    restarts,   \* times of the restarts the window still holds
    result,     \* what the supervisor leaves with
    history     \* times of all the restarts that were granted

supVars == <<now, child, relayed, restarts, result, history>>

RESTART == 75
Codes == {0, 1, RESTART, 130}   \* 130 stands for a child that a signal ended

Init ==
    /\ now = 0 /\ child = "running" /\ relayed = FALSE
    /\ restarts = << >> /\ history = << >> /\ result = NoResult

Tick ==
    /\ result = NoResult /\ now < MaxTime
    /\ now' = now + 1
    /\ UNCHANGED <<child, relayed, restarts, result, history>>

\* Bug: the window is not pruned.
Shifted_None(times, n) == n = 0

\* The loop shifts the first n: those before the window.
Shifted(times, n) ==
    /\ \A i \in 1..n : now - times[i] > RESTART_WINDOW
    /\ n < Len(times) => now - times[n + 1] <= RESTART_WINDOW

\* Bug: one restart more is granted.
GivesUp_Late(times) == Len(times) > RESTART_WINDOW_LIMIT + 1

GivesUp(times) == Len(times) > RESTART_WINDOW_LIMIT

\* The child leaves: its code is the supervisor's, or it asks for a restart.
ChildExits(code) ==
    /\ result = NoResult /\ child = "running"
    /\ code = 130 => relayed
    /\ relayed' = FALSE
    /\ \E n \in 0..Len(restarts) :
       LET times == Append(SubSeq(restarts, n + 1, Len(restarts)), now) IN
       /\ Shifted(restarts, n)
       /\ IF code # RESTART
          THEN child' = "gone" /\ result' = code /\ UNCHANGED <<restarts, history>>
          ELSE /\ restarts' = times
               /\ IF GivesUp(times)
                  THEN child' = "gone" /\ result' = 1 /\ UNCHANGED history
                  ELSE child' = "backoff" /\ history' = Append(history, now) /\ UNCHANGED result
    /\ UNCHANGED now

\* spawn fails, or a signal cannot be relayed: the child is killed.
Error ==
    /\ result = NoResult /\ child = "running"
    /\ child' = "gone" /\ result' = 1
    /\ UNCHANGED <<now, relayed, restarts, history>>

\* The delay ends and the child is started again.
Respawn ==
    /\ result = NoResult /\ child = "backoff"
    /\ now >= history[Len(history)] + RESTART_BACKOFF
    /\ child' = "running"
    /\ UNCHANGED <<now, relayed, restarts, result, history>>

\* The listeners relay a signal while there is a child; without one the default
\* disposition ends the supervisor.
Signal ==
    /\ result = NoResult
    /\ IF child = "running"
       THEN relayed' = TRUE /\ UNCHANGED <<child, result>>
       ELSE result' = 130 /\ child' = "gone" /\ UNCHANGED relayed
    /\ UNCHANGED <<now, restarts, history>>

Next == Tick \/ (\E code \in Codes : ChildExits(code)) \/ Error \/ Respawn \/ Signal

-----------------------------------------------------------------------------
\* A child that leaves with the restart code at once is started again at most
\* RESTART_WINDOW_LIMIT times in any window, and one that restarts rarely is
\* started again each time.
RestartsBounded ==
    /\ \A i \in 1..Len(history) : i + RESTART_WINDOW_LIMIT <= Len(history) =>
           history[i + RESTART_WINDOW_LIMIT] - history[i] > RESTART_WINDOW
    /\ Len(restarts) > RESTART_WINDOW_LIMIT => restarts[1] + RESTART_WINDOW >= now

\* The supervisor leaves without a child, and never with the code that asks
\* whoever runs it to start it again.
NoChildLeft == result # NoResult => child = "gone" /\ result # RESTART
=============================================================================
