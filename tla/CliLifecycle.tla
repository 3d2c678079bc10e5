---------------------------- MODULE CliLifecycle ----------------------------
(***************************************************************************)
(* One run of the launcher (packages/cli/src/main.ts, runCli): the boot of  *)
(* the plugin tree (packages/core/src/boot.ts), the terminal application    *)
(* (packages/core/src/stdio.ts) on the process's streams                    *)
(* (packages/cli/src/node-stdio.ts), the signals, the exit a plugin asks    *)
(* for, and the deadlines of the shutdown.                                  *)
(*                                                                         *)
(* A promise that settles and what its awaiter does next are one step:      *)
(* nothing but another callback runs between them.  A timer is a step that  *)
(* may come at any moment of the wait it bounds.  Plugins, the agent and    *)
(* the reader of stdout are external: each may take forever.                *)
(***************************************************************************)
EXTENDS Naturals

CONSTANTS
    NoCode,     \* no exit code yet
    MaxWrites   \* bound on the writes to stdout, before the last newline

NoCodeAssumption == NoCode \notin Nat

VARIABLES
    main,        \* where runCli is
    resultCode,
    context,     \* the plugin tree
    app,         \* where application.run() is
    appCode,     \* what it returns
    wroteOutput, \* #wroteOutput
    signals,     \* signalCount
    lastSignal,
    recent,      \* the duplicate window of lastSignal is open
    listening,   \* removeSignals() was not called
    requested,   \* requestedExit
    closed,      \* stdio.close() was called
    written, acked, target, \* stdout: writes, their callbacks, what a flush waits for
    broken,
    exit         \* the exit code of the process

mainVars   == <<main, resultCode, context, listening, closed>>
appVars    == <<app, appCode, wroteOutput>>
signalVars == <<signals, lastSignal, recent>>
streamVars == <<written, acked, target, broken>>
cliVars    == <<mainVars, appVars, signalVars, streamVars, requested, exit>>

Signals == {"SIGINT", "SIGTERM"}
signalExitCode(s) == IF s = "SIGINT" THEN 130 ELSE 143
PI_HARNESS_RESTART_EXIT_CODE == 75
PROMPT_CANCELLED_EXIT_CODE == 130

Alive == exit = NoCode
shutdownAborted == main \in {"aborting", "finishing", "flushing"}

Init ==
    /\ main = "booting" /\ resultCode = NoCode /\ context = "mounting"
    /\ listening = TRUE /\ closed = FALSE
    /\ app = "none" /\ appCode = NoCode /\ wroteOutput = FALSE
    /\ signals = 0 /\ lastSignal = "none" /\ recent = FALSE
    /\ requested = NoCode
    /\ written = 0 /\ acked = 0 /\ target = 0 /\ broken = FALSE
    /\ exit = NoCode

-----------------------------------------------------------------------------
(* The streams *)

\* #write: nothing reaches a broken stream.
Wrote == written' = IF broken THEN written ELSE written + 1

WriteSettles ==
    /\ Alive /\ acked < written
    /\ acked' = acked + 1
    /\ UNCHANGED <<mainVars, appVars, signalVars, requested, written, target, broken, exit>>

\* #markBroken: the reader is gone; every pending write counts as settled.
markBroken ==
    /\ Alive /\ ~broken
    /\ broken' = TRUE /\ acked' = written
    /\ UNCHANGED <<mainVars, appVars, signalVars, requested, written, target, exit>>

\* Bug: a flush sees no pending write of a stream that was never flushed.
flush_Skipped == TRUE

\* flush() waits for the writes that were pending when it was called.
flush == broken \/ acked >= target

-----------------------------------------------------------------------------
(* The finally block of runCli *)

Finally ==
    /\ listening' = FALSE /\ closed' = TRUE
    /\ IF context \in {"mounting", "live"}
       THEN main' = "disposing" /\ context' = "closing"
       ELSE main' = "returned" /\ UNCHANGED context

\* The plugin tree is gone, which ends the wait of whoever asked for it:
\* bootHarness throws, and harness.dispose() resolves.
TreeDisposed ==
    /\ Alive /\ context = "closing"
    /\ context' = "disposed"
    /\ IF main \in {"booting", "bootSettling", "disposing"}
       THEN main' = "returned" /\ listening' = FALSE /\ closed' = TRUE
       ELSE UNCHANGED <<main, listening, closed>>
    /\ resultCode' = IF main = "booting" THEN 1 ELSE resultCode
    /\ UNCHANGED <<appVars, signalVars, requested, streamVars, exit>>

\* forceExit: what is buffered gets FLUSH_TIMEOUT_MS to reach the reader.
Deadline ==
    /\ Alive /\ main \in {"bootSettling", "aborting", "finishing", "disposing"}
    /\ main' = "flushing" /\ target' = written
    /\ UNCHANGED <<resultCode, context, listening, closed, appVars, signalVars, requested,
                   written, acked, broken, exit>>

FlushEnds ==
    /\ Alive /\ main = "flushing"
    /\ exit' = resultCode
    /\ UNCHANGED <<mainVars, appVars, signalVars, requested, streamVars>>

\* Node exits by itself when no write is pending.
Exits ==
    /\ Alive /\ main = "returned" /\ (broken \/ acked = written)
    /\ exit' = resultCode
    /\ UNCHANGED <<mainVars, appVars, signalVars, requested, streamVars>>

-----------------------------------------------------------------------------
(* The boot *)

\* Plugins report resource diagnostics while they start.
Diagnostic ==
    /\ Alive /\ context = "mounting" /\ written < MaxWrites
    /\ Wrote
    /\ UNCHANGED <<mainVars, appVars, signalVars, requested, acked, target, broken, exit>>

\* Every entry is active: run() starts, and an exit that was asked for during
\* the boot is honoured first.
BootReady ==
    /\ Alive /\ main = "booting" /\ context = "mounting"
    /\ context' = "live"
    /\ app' \in {"reading", "prompting"}
    /\ main' = IF requested = NoCode THEN "running" ELSE "aborting"
    /\ resultCode' = requested
    /\ UNCHANGED <<listening, closed, appCode, wroteOutput, signalVars, requested, streamVars, exit>>

\* The profile provides no application; the catch block reports it.
BootWithoutApplication ==
    /\ Alive /\ main = "booting" /\ context = "mounting"
    /\ resultCode' = 1
    /\ Finally
    /\ UNCHANGED <<appVars, signalVars, requested, streamVars, exit>>

\* An entry failed: the tree is disposed before bootHarness throws.
BootFails ==
    /\ Alive /\ main = "booting" /\ context = "mounting"
    /\ context' = "closing"
    /\ UNCHANGED <<main, resultCode, listening, closed, appVars, signalVars, requested, streamVars, exit>>

\* A plugin asks for an exit, or Cordis for a full reload of a supervised
\* process; the first one counts.
RequestExit ==
    /\ Alive /\ requested = NoCode /\ context \in {"mounting", "live"}
    /\ requested' = PI_HARNESS_RESTART_EXIT_CODE
    /\ IF main = "running"
       THEN main' = "aborting" /\ resultCode' = PI_HARNESS_RESTART_EXIT_CODE
       ELSE UNCHANGED <<main, resultCode>>
    /\ UNCHANGED <<context, listening, closed, appVars, signalVars, streamVars, exit>>

-----------------------------------------------------------------------------
(* The application *)

\* run() ends: a line that was begun is ended, and its finally block flushes.
Ends(code) ==
    /\ app' = "flushing" /\ appCode' = code
    /\ IF wroteOutput THEN Wrote \/ UNCHANGED written ELSE UNCHANGED written
    /\ target' = written'

\* A prompt, or an empty, oversized or unreadable one.
readPrompt ==
    /\ Alive /\ app = "reading" /\ ~closed /\ ~shutdownAborted
    /\ \/ app' = "prompting" /\ UNCHANGED <<appCode, written, target>>
       \/ Ends(2)
    /\ UNCHANGED <<mainVars, wroteOutput, signalVars, requested, acked, broken, exit>>

\* Ctrl-C at the terminal's prompt reaches readline, not the process.
question ==
    /\ Alive /\ app = "reading" /\ ~closed
    /\ closed' = TRUE
    /\ UNCHANGED <<main, resultCode, context, listening, appVars, signalVars, requested, streamVars, exit>>

\* A text delta of the answer.
writeSessionEvent ==
    /\ Alive /\ app = "prompting" /\ written < MaxWrites
    /\ wroteOutput' = TRUE /\ Wrote
    /\ UNCHANGED <<mainVars, app, appCode, signalVars, requested, acked, target, broken, exit>>

\* Bug: the final message decides alone.
FinalCodes_Silent == {0, 1}

\* The stop reason of the last assistant message, and whether anything was said.
FinalCodes == IF wroteOutput THEN {0, 1} ELSE {1}

prompt ==
    /\ Alive /\ app = "prompting" /\ ~shutdownAborted
    /\ \E code \in FinalCodes : Ends(code)
    /\ UNCHANGED <<mainVars, wroteOutput, signalVars, requested, acked, broken, exit>>

\* The shutdown signal ends both waits, a closed input that for the prompt.
Cancelled ==
    /\ Alive
    /\ \/ app = "reading" /\ (closed \/ shutdownAborted)
       \/ app = "prompting" /\ shutdownAborted
    /\ Ends(PROMPT_CANCELLED_EXIT_CODE)
    /\ UNCHANGED <<mainVars, wroteOutput, signalVars, requested, acked, broken, exit>>

\* run() returns: it decides the race of runCli, or ends the wait for it.
AppReturns ==
    /\ Alive /\ app = "flushing" /\ flush
    /\ app' = "over"
    /\ resultCode' = IF main = "running" THEN appCode ELSE resultCode
    /\ IF main \in {"running", "finishing"} THEN Finally ELSE UNCHANGED <<main, context, listening, closed>>
    /\ UNCHANGED <<appCode, wroteOutput, signalVars, requested, streamVars, exit>>

\* runtime.abort() settled.
RuntimeAborted ==
    /\ Alive /\ main = "aborting"
    /\ IF app = "over" THEN Finally ELSE main' = "finishing" /\ UNCHANGED <<context, listening, closed>>
    /\ UNCHANGED <<resultCode, appVars, signalVars, requested, streamVars, exit>>

-----------------------------------------------------------------------------
(* The signals *)

Fresh(s) == s # lastSignal \/ ~recent

Counts(s) ==
    /\ Alive /\ listening /\ Fresh(s)
    /\ signals' = signals + 1 /\ lastSignal' = s /\ recent' = TRUE

\* Signals that arrive within DUPLICATE_SIGNAL_WINDOW_MS are one key press.
WindowEnds ==
    /\ Alive /\ recent
    /\ recent' = FALSE
    /\ UNCHANGED <<mainVars, appVars, signals, lastSignal, requested, streamVars, exit>>

\* The first one aborts the boot, or decides the race of the run; in a shutdown
\* that is under way it changes nothing.
FirstSignal(s) ==
    /\ signals = 0 /\ Counts(s)
    /\ closed' = TRUE
    /\ IF main \in {"booting", "running"}
       THEN /\ main' = IF main = "booting" THEN "bootSettling" ELSE "aborting"
            /\ resultCode' = signalExitCode(s)
       ELSE UNCHANGED <<main, resultCode>>
    /\ context' = IF context = "mounting" THEN "closing" ELSE context
    /\ UNCHANGED <<listening, appVars, requested, streamVars, exit>>

\* A repeated one leaves now, unless a forced exit has begun.
SecondSignal(s) ==
    /\ signals = 1 /\ Counts(s)
    /\ exit' = IF main = "flushing" THEN NoCode ELSE signalExitCode(s)
    /\ UNCHANGED <<mainVars, appVars, requested, streamVars>>

\* Once the listener is gone the default disposition applies.
Killed(s) ==
    /\ Alive /\ ~listening
    /\ exit' = signalExitCode(s)
    /\ UNCHANGED <<mainVars, appVars, signalVars, requested, streamVars>>

Shutdown == TreeDisposed \/ Deadline \/ FlushEnds \/ Exits
Boot == Diagnostic \/ BootReady \/ BootWithoutApplication \/ BootFails \/ RequestExit
Application == readPrompt \/ question \/ writeSessionEvent \/ prompt \/ Cancelled
               \/ AppReturns \/ RuntimeAborted
Signal == WindowEnds \/ \E s \in Signals : FirstSignal(s) \/ SecondSignal(s) \/ Killed(s)
Stream == WriteSettles \/ markBroken

Next == Shutdown \/ Boot \/ Application \/ Signal \/ Stream

Spec == Init /\ [][Next]_cliVars

\* Timers fire, and a cancelled wait ends.  Nothing else need ever happen.
Fairness == WF_cliVars(Deadline) /\ WF_cliVars(FlushEnds)

FairSpec == Spec /\ Fairness

-----------------------------------------------------------------------------
(* Properties *)

\* A process that leaves with 0 delivered the whole answer to whoever still
\* reads it, and disposed the plugin tree.
SuccessIsDelivered ==
    exit = 0 => /\ appCode = 0 /\ app = "over" /\ wroteOutput
                /\ broken \/ acked = written

\* Whoever decided first names the exit code: the application, a plugin, or a
\* signal; a supervisor restarts the process only when asked to.
CodeIsDecided ==
    exit # NoCode =>
        \/ exit = appCode /\ app = "over"
        \/ exit = requested
        \/ exit \in {signalExitCode(s) : s \in Signals} /\ (signals > 0 \/ ~listening)
        \/ exit = 1 /\ app = "none"

\* When runCli returns by itself neither the plugin tree nor the application
\* is left running.
NothingLeft == main = "returned" => context = "disposed" /\ app \in {"none", "over"}

\* A signal ends the launcher, whatever a plugin, the agent or the reader of
\* stdout never answers.
SignalEnds == (signals > 0) ~> (exit # NoCode \/ main = "returned")
=============================================================================
