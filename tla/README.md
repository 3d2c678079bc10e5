# Verification of pi-harness

pi-harness runs the Pi coding agent as a set of Cordis plugins and puts an HTTP gateway, a browser console, a terminal application and a
plugin marketplace around it. This directory holds TLA+ models of the parts of it that are stateful and concurrent, the configurations that
check them with TLC, and proofs checked with TLAPS. Paths below are relative to the repository's `packages/` directory unless they say otherwise.

Contents: [the system](#the-system), [the modules](#the-modules), [the runs](#the-runs), [bounds](#bounds), [fairness](#fairness),
[what is assumed of code outside the repository](#assumptions-about-code-outside-the-repository), [the proofs](#the-proofs),
[findings](#findings), [what is not modelled](#what-is-not-modelled), [plan](#plan), [running the checks](#running-the-checks).

## The system

One Node process holds everything except the browser. JavaScript runs one callback at a time, so a handler is atomic from one `await` to the
next and interleaves with every other handler at each `await`. That is the grain of every model here: an action is the stretch of code between
two awaits, with all the state changes in it.

| component | state it keeps | operations | what makes it correct |
|---|---|---|---|
| API gateway, prompts (`api-gateway/src/index.ts`, `POST /api/prompt`) | `promptBusy`, `sessionOperationBusy`, `pendingPromptRequests`, receipts in the session file | submit, the acceptance callback, the answer; session operations | one prompt and one session operation at a time and never both; a client that retries a submission id never starts a second run; every request is answered |
| API gateway, sessions (same file) | session files, the metadata map (pinned, archived), the active session | new, open, delete, fork, import, export, rename, pin | no metadata update is lost; a deleted session leaves nothing behind; every file opens; the active session keeps its file |
| API gateway, workspace changes (same file, `/api/files/commit`, `/api/files/revert`) | git's HEAD, index and working tree | commit, revert | only the requested paths change, and what success tells of them is true |
| API gateway, marketplace (same file, `marketplace.ts`) | the profile file, `package.json`, the loader, `pluginMutationBusy` | install, toggle, uninstall, rollback, restart | an enabled plugin has its dependencies enabled; an install takes effect in whole or not at all |
| API gateway, event stream and status (same file) | phase, running tool calls | session events, status | the phase told is that of the run in progress |
| atomic file replacement (`plugin-api/src/atomic-write.ts`) | the queue per target, temporary files, the target | `atomicWriteFile` | a reader or a restart sees a whole old or a whole new file; calls take effect in order; modes survive |
| runtime activation (`core/src/plugins/runtime.ts`, `core/src/runtime.ts`) | the gate per session manager, tool leases | apply, dispose, close | two activations never write one transcript; tools are frozen while a session runs and free afterwards |
| bounded command (`plugin-api/src/bounded-command.ts`) | a process group, captured output, timers | run, abort, timeout, escalate | it settles, leaves no process behind, and returns whole output or an error |
| panel registry (`plugin-api/src/services.ts`) | panels, pending reads | register, dispose, snapshot | one read of a panel at a time, no answer of a removed panel, a hanging panel does not hang the console |
| browser console, navigation (`client-web/src/react-room.tsx`, `session-navigation.ts`) | the shown session, reads in flight, the chain of navigations | poll, refresh, open, create, fork | an old answer never brings back an old session; the last choice of the user wins |
| browser console, composer (`prompt-ui.ts`, `annotation-ui.ts`, `react-room.tsx`) | drafts, annotations and submissions, in the page and in the tab's storage | type, attach, submit, settle, recover, reload | nothing written is lost before it was accepted, nothing accepted comes back, a repeated submission runs once |
| launcher (`cli/src/main.ts`, `node-stdio.ts`, `core/src/stdio.ts`, `boot.ts`) | boot, application, disposal, streams, exit code | boot, prompt, signal, exit request, deadline | an exit code with a cause and an exit, whatever the order of signals, boot and disposal |
| supervisor (`cli/src/relaunch.ts`) | the child, the recent restarts | spawn, relay, restart | restarts keep to their rate and no child is left |
| harness home (`core/src/harness-home.ts`) | the user's profile and the seed it came from | seed, update, repair, inspect | an edit is never lost, and an untouched copy follows the releases |
| web server (`host-webserver/src`, `bundle-web-app/src`) | the handlers by path, open responses | register, dispatch, fall back, close | one head per response, a path belongs to its owner, closing ends |
| plugins (`plugins/*`) | child processes, queues of deferred work, ledgers and graphs shared by processes, counts | tools, panels, session events | bounded, cancellable, in the session they were asked for, one mutation at a time |

Interactions. The console calls the gateway over HTTP and receives its events over SSE; the gateway calls the runtime's session and is called
back by it inside `prompt()`; the runtime is replaced by Cordis when the profile changes, which the marketplace causes; session metadata, receipts,
the profile seed and plugin ledgers are written through `atomicWriteFile`; plugins register tools and panels that the runtime and the gateway read,
and several of them act on the session only when the agent is at rest.

What is hard in it: handlers that check a flag, await and act; retries of requests whose answer was lost; restarts between two writes; Cordis
disposing an activation in the middle of its `apply`; three stores changed by one install; process groups; a console with several requests in
flight; locks that outlive the process that made them; work that waits for the end of a run and must not reach the session that comes
after it. `PROJECT.json` lists each of these as a hazard with its line and the properties that cover it.

## The modules

Correspondence, line by line, is in `PROJECT.json` under `map`. An operator whose name ends in `_Something` next to a definition of the code is a wrong
variant of that definition; nothing refers to it, and each property is known to fail when its variant is put in its place.

### The gateway

**PromptGateway** (core). State: `active`, `streaming`, `compacting`, `entries` and `used` (Pi's session), `busy` and `opBusy` (the two flags),
`pending` (the map of unanswered submission ids, with digests), `file` and `disk` (which sessions have a file and the receipts in it), one record
per request handler and per session operation. Actions follow the handler: admission (every early return that depends on state: replay of
a receipt, a pending twin, another session, a taken slot, compaction, an ordinary prompt during a run), the library's four outcomes, the acceptance callback with its two writes (create the file, append the receipt), the
stretch after `prompt()` settles, and `Restart`. Session operations occupy the other slot and replace the session. A receipt counts for a key
(session, id) and stores the digest of the body. `MC_PromptGateway` gives the bodies: one submission sent twice (r1, r2), its id used again for a steering message
(r3), and a prompt without an id (r4).

**SessionStore**. Session files, the metadata map and its FIFO chain of promises (`withSessionMetadataLock`). A handler moves through the awaits
of delete, open, fork, import, and a batch deletion through its paths, of which some may stay; the library's switches of the session may throw
before or after they replaced it. A pin, of one path or of a batch, enqueues a job that reads the map, confirms that the session exists, and writes its copy. Rename and export
do not take the operation slot and are atomic. `OtherConsoleDeletes` is another process removing a file. The job's write is one step because
`AtomicWrite` implements `AtomicFile`.

**Marketplace** with **InstallPlan**. The profile (an ordered list), the disabled flags, the loader, and package.json are four variables; each of the three
handlers is a record that moves through its awaits, holding what it has read. Every write of an install, a toggle and an uninstall may fail, and so may the writes of their rollbacks, whose failure the code
drops; the history variable `swallowed` says that this has happened since the last start. `Restart` may fall between any two steps and rebuilds the loader from
the profile. `InstallPlan` is the walk that orders dependencies, written as a recursive function; `MC_Services` compares it with a declarative definition over all
catalogues of three entries. Marketplace takes the plans as a constant and assumes them closed under dependencies (`CatalogAssumption`), which is what the
planner gives and `PlanIsSound` checks.

**WorkspaceChanges**. HEAD, index and working tree are functions from files to texts or `Absent`; a request is the sequence of git commands of its
route, each awaited, refused or terminated with or without effect, while another request or the agent changes the same repository.

**EventStream**. Pi's events in the order of a run, for the current session and one that was replaced, and the activity record that `handleEvent` keeps from them and
`/api/status` and the completion events tell.

### Files and the process

**AtomicFile** is the abstract specification of a file replaced in whole: calls that are queued, take effect in order or have no effect, and
a crash that keeps an old or a new version. **AtomicWrite** is the code: the queue per target, staging with `fsync`, commit by rename or by
link (`overwrite: false`), directory sync, cleanup, and the removal of the queue's entry. A file name refers to an inode, an inode is named after the
call that made it; `kept` is the set of inodes the target may name after a power loss. `AtomicWrite!Abstract` is the refinement mapping.

**RuntimeGate**. Each fiber is an activation of the pi-runtime plugin over one session manager. `Apply` enters the gate (a chain of promises),
`Acquire` takes the lease on the tool registry, `Build`, `Bind`, then `Dispose` at any moment, `Close`, `OpenGate`; `Fail` is the catch block. A
disposed fiber throws at its next `ctx.effect`.

**CliLifecycle** is one run of the launcher: the boot raced by signals and exit requests, the application with its prompt, abort and disposal
with their deadlines, the forced exit, and stdout as its pending writes with a reader that may go away. **Supervisor** is the parent that relays
signals and restarts the child within a window. **HarnessHome** follows the two files of a profile over releases, edits and crashes between
the two writes. **WebServer** is the registration of the gateway's path by successive activations, dispatch, the static files that may break off, event
streams and the closing of the server.

**BoundedCommand** is a process group with its pipes, timers and signals. **PanelRegistry** is the registry of panels with the reads that are
pending, shared or timed out.

### Plugins

**McpServers** (`mcp-client`): server processes kept under an id or run for one call, the queue of requests, the router of their answers, time-outs,
cancellation, session changes and termination. **TurnRewind**, **PluginReload**, **ContextDoctor**: work that waits for the agent to be idle or
settled, cancellation, session changes, disposal, and for the last one the compaction slot that outlives the plugin instance. A queued reload keeps no session: it starts
in whatever session settles next, which the model has as the sessions of its request and of its start.
**BrowserSession** and **BrowserFetch**: calls as sequences of requests with deadlines, sockets and dispatchers to give back; redirects whose target is
checked before it is asked. **DockerSandbox**: one command in a container, the death of its client at every moment, and the removal of the
container that the daemon may go on with, unless its identifier cannot be read. **CostLedger** and **GraphMemory**: several processes on one file, under a lock file and a lock directory that go
stale; the owner's file of a lock directory is made and then written, so that a process which dies or is slow between the two leaves one that cannot be parsed.
**SessionBridge**: handoffs imported once into the session they were accepted for, and what the status tells after a write has failed. **TokenGuard**, **FailLogger**,
**ContextInsights**: what is counted from the session's events, over dropped entries, changes of session and statistics that cannot be read. **Capsules** (`git-time-capsule` and `cleaner`): snapshots, restores and cleanups over one directory, each plugin with
a chain of its own, and cancellation that answers a caller before its operation ends; a capsule is named by its time.

### The console

**ConsoleNavigation**. The gateway's active session, what the page shows, reads in flight (each with the barriers issued since it was sent), the
chain of navigations, the pending intent, and the fork that opens its copy outside of the chain. Sequence numbers of reads are abstracted to
"issued before" and a void mark, so the state space is finite. **PromptComposer** holds the page's drafts, annotations and submissions by session, the copy in the tab's
storage, the gateway's receipts, and the answers that are late, lost or refused; a text is the number of its edit.

### Harnesses

**GatewayFiles** (session files, marketplace, workspace) and **SharedFiles** (ledger, graph, handoffs, capsules) instantiate the parts that keep files, each with
variables of its own, and state the parts' assumptions about their constants. `MC_Storage` extends them, and the proofs are about their instances.

Parts that share no state are checked in one run: **MC_Storage**, **MC_Core**, **MC_Services** and **MC_Console** start with the choice of a part, exercise
it and leave the others as they begin. The parts are never interleaved with each other, so a property of one is checked of every behaviour of
that part alone. The invariants under the names of the configuration are conjunctions of the parts' invariants, each guarded by its part; the parts' own
definitions carry the statements and the comments.

## The runs

| run | checks | states |
|---|---|---|
| PromptRestart | at most one run per submission id, its receipt is on disk before it starts, answers say what happened, effects are not repeated | 479k |
| PromptSlots | types, slot exclusion, ownership of pending keys, no owner with a replaced session, every request is answered | 642k |
| PromptReplay | expects a violation, see [findings](#findings) | |
| Storage | atomic writes: types, no torn target, modes, refinement of AtomicFile. Sessions: no lost update, deleted sessions stay forgotten, files open, the active file survives. Marketplace: dependencies of enabled plugins, loader within profile, installs with all they need or not at all, while no rollback has failed in silence. Workspace: only the requested paths, whole commits, finished reverts. Ledger and graph: nothing counted twice, nothing lost and mutations in series unless a lock was lost in the ways the properties name. Handoffs: imported once, kept, failures shown. Capsules: true answers, a directory that can be listed, restores and cleanups only as asked. Counters: tokens, budget, failures, events | 1.27M |
| SessionClear | expects a violation | |
| CoreProcess | runtime gate: types, one session, leases balance, every gate passes. Launcher: success has delivered its answer, every code has a cause, nothing is left running, a signal ends it. Supervisor: bounded restarts, no child left. Harness home: edits kept, true reports, untouched copies follow. Web server: one head, owned routes, closing returns. Status and completion phases are true. Every atomic write settles | 198k |
| RevertDiscards | expects a violation | |
| Services | answers are whole and to what was asked; one read, process, rewind, reload, compaction at a time; deferred work starts in its session (a reload: where a run settles) and not after its cancellation; panels are current; the planner is sound; no survivors, not even in a container; calls return | 118k |
| ConsolePage | a switch is not undone by an old answer; drafts are kept and sent once | 1.12M |
| ConsoleIntents | the last intent wins, navigation and page converge | 409k |
| ConsoleFork | expects a violation | |
| LedgerMerges | expects a violation | |

## Bounds

The guards compare one request with one other that has the same key, the same slot or the same session, so two of each kind
meet every branch; the third request or call is there because a retry may come after one that has already failed or because the queue's tail
may be one, two or none ahead. One restart separates "before" from "after"; a second only repeats the first from a state the first reaches.
Every bound is a CONSTANT or a definition of an MC module and is named where it cuts.

- Prompts: three requests, two operations, two sessions, one restart; PromptRestart with both receipt writes failing, PromptSlots with none and with liveness.
- Storage: three writes (one exclusive, one with a pinned mode); two handlers and two paths (a batch deletion of both needs a third for the new session, which the theorem has and TLC's instance does not; a batch of pins has both); two plugin requests over a plugin with two dependencies, and, by the configuration's `CONSTRAINT LostRollbackEnds`, no further plugin change between a rollback that failed in silence and the next start, since nothing is claimed there and the restart begins anew from whatever was left; `MaxActs` = 2 requests and edits together in every state of two files; two processes, `MaxCrashes` = 1, for the ledger two days and costs up to 2, for the graph `MaxLocks` = 3 lock directories; two sessions, three digests, so that one handoff more is offered than the queue of two may hold, and `MaxHeaders` = 2, a session and one load after it; a budget of 3 tokens that messages of 1 and 2 reach from below and cross, 4 failure fingerprints for a list of 2, 3 event types with one beyond the limit; two capsule calls of any kind over a directory of `maxCapsules` = 3 that begins one short of full.
- Core: three fibers; two writes to stdout; nine ticks around a window of 3 with a limit of 2 restarts; three releases and two crashes, so that a crash may follow a crash and an update an unfinished update; two requests, two owners; two sessions, three tool calls of which two are kept, which exercises the eviction.
- Services: two processes and an output limit with a chunk below, at and above it; two panels under one id, two callers, two registrations, and two reads in total, so that a stale disposer meets a new owner and a late answer a new read; two calls and two server processes, two scopes; two sessions, three runs, two plugin instances; two browser calls, two sandbox calls; two redirects, all catalogues of three entries.
- Console: two sessions and one created, two reads in flight, one intent against a foreign switch and a fork (ConsolePage), three intents with a failure and a foreign switch (ConsoleIntents); two edits, two submissions, one annotation, one reload.

Symmetry is used where no liveness property is checked: the submissions that carry the same body in PromptRestart and the
sessions and slots of the console runs without fairness. `CHECK_DEADLOCK FALSE` appears where the system really stops: all writes done, all
fibers over, all handlers returned, a console whose user and clock are at their bound.

## Fairness

JavaScript's event loop runs every callback that is ready, timers fire, and promises that settle resume their awaiters: weak fairness of every step
that continues a handler. Nothing else is fair. In particular:

- PromptGateway: `Finish`, `Library` and `OpEnd` are fair, because `Answered` is relative to a library that settles `prompt()`. Submissions and restarts are not fair.
- AtomicWrite and RuntimeGate: the steps of a call or a fiber, and the disposal of a fiber that another waits for (Cordis replaces the outgoing one). Asking and crashing are not fair.
- CliLifecycle: the deadlines of the shutdown and the flush of a stream whose reader takes it. The boot, the agent and the disposal may hang. WebServer: the steps of a request that does not wait for its client, and the close callback.
- BoundedCommand: the two timers, the end of the pipes once their holders are gone, the close event, and the death of a process once it was told SIGKILL or obeys SIGTERM. A process that ignores SIGTERM or keeps a pipe may do so forever.
- PanelRegistry: timers and the return of a snapshot. A panel's callback is not fair: it may hang, which is the hazard.
- McpServers: time-outs, the escalation of a termination, and the exit of a process that was killed. A server need not answer. TurnRewind, PluginReload, ContextDoctor: the agent's settling resumes its waiters, and the library's navigation, reload or compaction ends. BrowserSession, BrowserFetch, DockerSandbox: deadlines and what follows them; the browser, the remote host and a container may go on.
- `CallsReturn` asks of the panels that each snapshot returns, since consoles poll them for ever, and of the other services that again and again nothing is awaited: one service acts in a behaviour and its calls are finitely many, so this is that every call returns, in one formula for TLC instead of one for each service and call.
- ConsoleNavigation: answers arrive, the chain goes on. Polls, the chain's reads and a fork's opening have strong fairness, only because the model bounds the reads in flight: a step that needs a free slot is enabled again and again instead of continuously, while in the code there is no such bound.

## Assumptions about code outside the repository

- The Pi library (`@earendil-works/pi-coding-agent`): `prompt()` may refuse, run an extension command, queue the text, or call back and start a run. A session object that was replaced accepts no new prompt. The session file appears with the first assistant message. Events come in the order of a run; calls of an aborted run may never end. Token statistics of a session only grow, and may be missing or invalid at any reading. Handoffs queued during a run are appended at its turn's end, each followed by its `message_end`; an append that fails has none.
- Cordis may dispose a fiber at any moment, and an effect requested by a disposed fiber throws. `entry.update` may fail with the loader's options changed either way.
- npm may fail after it has rewritten package.json. A `writeFile` of the profile or of package.json that fails leaves the file as it was: a partial write is not modelled.
- git commands act on HEAD, index and working tree as documented, and one that is terminated has taken effect or not.
- POSIX: rename and link are atomic, `fsync` of a file keeps its data, `fsync` of a directory keeps its names, a kill of a process group reaches the members still in it. Exclusive creation of a file or directory succeeds once.
- The plugins of one process write to a directory of undo capsules; with two processes `InventoryUsable` is not claimed.
- The tab's sessionStorage survives a reload and is not shared between tabs.

Definitions of such code are marked external in `PROJECT.json`.

## The proofs

TLAPS proves the following for every number of requests, operations, sessions, calls, fibers, processes, plugins, files, reads and submissions, and every value of the
bounds. No step is left out. The only assumptions are the ASSUMEs on the constants: distinct markers (`PanelAssumption` and
`ServersAssumption` among them: no panel is "no panel", no process "nobody"), typed bodies, a finite set of fibers (`RuntimeGate`), plans that are closed under
dependencies and end in what was asked for (`CatalogAssumption`), limits and numbers of sessions that are numbers (`CapsuleAssumption`, `DoctorAssumption`, the `LimitAssumption`s of
TokenGuard, FailLogger and ContextInsights), lock tokens that differ from "no lock" (`LedgerAssumption`, `LockAssumption`). TLC evaluates each of them on every run
that uses the module. Thirty-seven theorems are listed, in eight proof modules.

A harness is proved in two layers. Each part has an inductive invariant, proved of the part alone: its initial states satisfy it, every action keeps it, and so does
a step that leaves the part's variables as they are. The last theorem of a harness combines them for the specification that the run checks.

**PromptGatewayProofs.** `TypeCorrect`, `SlotsSafe`, `PendingSafe` and `OwnerSafe` follow from one inductive invariant,

    SlotInv == TypeOK /\ SlotsExclusive /\ PendingOwned /\ OwnerNeverStale /\ IdleFresh

None of the conjuncts is inductive alone: the slot is free only if no handler record believes to hold it (SlotsExclusive), releasing it is right only
if the handler that releases is the one that took it, and a key leaves the map by the handler that put it there (PendingOwned). `RunOnce` needs more:
a run may be started only by the handler that owns the pending key, and the receipt it leaves must still be found by the next retry,
in memory or, after a restart, on disk. `RunInv` says that a run whose receipt was written has it on disk and, while its session is
active, in memory; that no second request with its key is in flight behind it; that an unanswered request that no operation has overtaken addresses the active session;
and that a session without a file has no receipts. `RunsAreReceipted`, `AnswersAreTrue` and `EffectsAreOnce` rest on `AnswerInv`, which adds to `RunInv` where a
handler's record may stand with which marks, and that an answer of each kind has its cause: a receipt of the same digest for "received", an effect for "accepted",
and for a lost submission either a restart or a failure of the write. `Flow` and `Moved` reduce an action to the records it moves, so that each conjunct is
argued once for every action.

**AtomicWriteProofs.** `QueueInv` (calls form a chain, the map's entry is the last of it, nobody starts before the one ahead has ended) gives the order;
`DurableInv` relates the names a crash may expose to the inodes that were synced and gives `TargetNeverTorn`; `ModeInv` gives `ModeIsCarried`.
`Implementation` is the refinement: initial states map to initial states, and under `QueueInv` each step maps to a step of AtomicFile or to a stutter.

**GatewayFilesProofs** has the invariants of three parts.

- Session files: `StoreInv`. A job of the metadata chain belongs to the one handler that awaits it, only the first job has begun, and what it read is still the
  map (`ChainInv`); a path that is being deleted is not the active one and, once unlinked, has no file, and a copy or an import that is on its way is not the active session (`HandlerInv`); and no job behind a removal puts an entry of its path
  back (`DeletedInv`), because the check of a pin and its place in the chain are one stretch. `Operation` reduces every step inside the slot to what it does to the
  session, the files and its own handler. Theorems `SessionTypes`, `DeletedIsForgotten`, `UpdatesAreKept`, `FilesAreSound`.
- Workspace: `WorkInv` says of each request which commands it may be at and which paths it has touched there (`Bounded`), and, as long as nobody else has changed one of its
  files, what has been reached on each of them: what a revert has still to restore, where the index already is that of HEAD, and that tree, index and HEAD agree at a
  successful commit (`Reached`). `OnlyRequested`, `CommitIsWhole` and `RevertIsDone` are what it says at the answer.
- Marketplace: `MarketInv` is `ChangeInv` as long as no rollback has failed in silence, and the types (`MarketTyped`) in any case. In `ChangeInv`, one change at a time holds the flag (`OneChange`). Between changes the loader runs only what the profile names and, unless a change was interrupted, every
  enabled plugin has what it needs (`Calm`). During a change each step of the handler has its own clause (`Installing`, `Toggling`, `Uninstalling`), because in the middle of an
  install the target is in the profile before what it needs, so that `DependenciesEnabled` itself is not inductive: while the loop runs, what is missing is
  what it has not reached (`WrittenFrom`), and the copy that a failed change goes back to is sound (`Restorable`). That the plan is whole at its end needs the plan to be
  closed. `MarketActs` proves `InstallAllOrNothing` as an action property from the same clauses.

**SharedFilesProofs** has those of the other four.

- Handoffs: `BridgeInv`: no more are queued than may be (`FewWait`); journal and deferred handoffs are injective and disjoint (`Once`); the answer that is awaited tells of a handoff that is in one of them (`Awaited`); unless the
  header that failed is the present one, everything accepted is in one of them and the queue is what is deferred (`Kept`).
- Graph: `MemoryInv`: as long as no blank owner's file was reclaimed of a living process or twice (`Undoubted`), a lock directory is that of the process that made it and has no file but its
  own (`LockOfHolder`), one that was found dead holds nothing (`GoneIsGone`), and one process at a time holds the lock or removes it (`OneAtTheLock`). As long as nobody lost a directory it used,
  who uses the lock made the one that is there (`UsedByMaker`), so what was read under it is still the file (`ReadIsCurrent`). That relations have both their nodes holds in any case (`Closed`).
- Ledger: `LedgerInv`: the rows add up and the snapshots of a process are in order, of days and of costs (`SumInv`), which gives `NeverOvercounts` whatever happens to the lock; as long as no
  lock was taken from a process that lives, the lock is that of the process that goes on under it, what it read is still the file, and no acknowledged cost is above the
  file's (`LockKept`, `FileKept`). The exception is real, see LedgerMerges.
- Capsules: `CapsInv`: a call that has not ended stands in its plugin's chain and at the head once begun (`Chained`), although its caller may have been answered; the room that a capture found is
  there when it links (`RoomLeft`); what a cleanup is about to remove has as many newer ones as it is to keep (`NewestSpared`); the panel has the last cleanup. `CapsActs` proves the
  two action properties.

**StorageProofs** combines the seven for MC_Storage's layers (`PartsInv`): `GatewayFilesAreSound`, `ChangesAreAsAsked`, `SharedFilesAreSerial`, `HandoffsAreKept`. It has the
invariants of the plugins that count too, for `CountsAreTrue`:

- Token guard: `GuardInv`. While the session's statistics lag behind by the last message, the tokens at the run's start and those spent since are the total and that
  message, whether or not the guard could read them (`Charged`), which is what makes the check at the next event charge each token once; what is remembered is of the current run (`Remembered`), and a run over its budget has been
  stopped, once, at the first inspection that could read what it counts (`Watched`).
- Failure logger: `LoggerInv`. The list has the latest distinct fingerprints in order, and the index those of the list (`InList`); what was observed is what the list's entries count
  and what left with dropped ones (`Totalled`). The order is needed for the sum: an entry that is renewed moves to the end, so that what is dropped is what was not seen for longest.
- Context insights: `InsightsInv`. The kinds add up to the events of the session that is named, within their number (`Tally`), and the recent ones are the last of them (`Latest`).

The last two are about sums over functions. The community modules define `SumFunction` by a fold over a `CHOOSE` of the next index; that it is a number, loses what one index
is worth with the index (`SumLess`) and does not depend on the names of the indices (`SumMoved`) is proved without the library's induction theorems: that a
function which adds up exists, and that only one does, follows from looking at a smallest subset of the indices where it failed (`SmallestSubset`).

**ServicesProofs.** The services share nothing, so each has an invariant of its own; `ServicesInv` is their conjunction, and `ServicesMoves` says what a step of each does, for the
action properties. Theorems `AnswersWhole`, `OnlyOneAtATime`, `StartsInPlace`, `PanelsCurrent`.

- `CommandInv`: pipes that have ended are held by nobody, and without a failure everything written was captured, so that a command which resolves is whole.
- `FetchInv`: the open dispatcher is that of the present hop, and its target was checked, as is that of a redirect which will be followed.
- `JobInv`: a call is in one of its plan's requests and in a phase of such a request, which alone has a socket or a timer; its command was carried out once it was sent, and only then.
- `SandboxInv`: a client that ended by itself leaves a container that has ended, and, unless the container's identifier could not be read or its removal was not confirmed, which its error then is, a call that is answered with certainty has neither a container that runs nor a client that could start one.
- `RewindInv`, `ReloadInv`, `DoctorInv`: nothing waits for a plugin that is gone, and what runs is of the session it was asked for; a reload that was queued is of the session whose run settles. The doctor's compaction outlives its instance, so its invariant ranges over
  all instances: only the present one has a queue, and no later one has anything (`InTurn`).
- `PanelInv`: the active disposer is that of the panel that has its id (`Registrations`); the pending read is the only one whose callers wait (`PendingRead`); every other read that goes on was left behind by a
  registration that ended, which bounds them (`OrphansBounded`), and is what makes "one read at a time" inductive over re-registrations.
- `ServersInv`: numbers of requests differ at one process, a process run for one call has that call only, and what was heard is the answer to one's own request (`Requests`).

**CoreProofs.** `GateInv` orders the fibers along the chain: one that passed the gate has everything ahead of it released, and a
released fiber has closed its session; hence `SessionIsUnique`. `LeasesBalanced` rests on `leases = Cardinality(Held)` (`LeaseInv`), where Held is the set of fibers whose
release has not run yet. `ExitsAreTruthful` rests on two. `CliInv` gives the place of plugin tree and application at each place of the launcher, that an application which is over has had its output read or
its reader gone, and that every code has its cause from the moment it is decided. `SupInv` says that the restarts which the parent has shifted out of its list are older than the window, without which the bound on the
list says nothing of the history. `NoEditIsLost` rests on `HomeInv`: the seed is behind the copy only between the two writes of a launch, until a launch
stops there. `HeadsAndRoutes` counts the heads at each place of an answer (`HeadsWritten`). `StatusIsTruthful` rests on `StreamInv`: the calls that are kept are calls
of this run that execute, all of them while none was dropped, and a phase that is no longer true is left from before the run's start.

**ConsoleProofs.** `NavigationIsSound`: the page shows the gateway's session after an accepted switch. Its invariant says that while no switch has
come after the accepted one, every read that may still be applied, and everything that the chain and the fork remember as latest, is the gateway's session. `LatestIntentIsKept`
is about a console without forks: the job of the latest intent is the last of the chain, only the head of the chain has begun, and what an earlier job does
(accept, give up, be superseded) never ends the pending navigation of a later one. With forks it is false, see ConsoleFork.
`PromptsRunOnce` and `WritingIsKept` rest on `ComposerInv`: what is on its way, what the page holds and what the tab's storage holds of a session agree on one revision under which the
gateway may know it (`OneRevision`, `RunOnce`); and text, annotations and the last submission are each somewhere from where the page, or after a reload the storage, brings them back
(`TextSafe`, `NotesSafe`, `LastSafe`, `Again`).

`SentOnce` covers a prompt that was submitted while no other prompt of its session was under way and that was sent again before any other prompt of that session was. Outside of that a prompt can get
a new revision and run twice (`client-web/src/prompt-ui.ts:187-200`, `react-room.tsx:10507-10513`); two submissions do not reach it, three do. The statement and the invariant were also checked, outside of
the configured runs, with four submissions in one session and three in two.

Model-checked only:

- liveness (`Answered`, `EveryWriteSettles`, `GatePasses`, `StopsEnd`, `NoSurvivors`, `CallsReturn`, `Converges`), because the prover does not handle fairness;
- the planner (`PlanIsSound`), because what a recursive walk computes over every catalogue takes an induction over data, whose theorem the installed provers cannot instantiate. Marketplace's
  proofs take what it says as `CatalogAssumption`.

## Findings

Five runs show that the code does something other than its documents, comments or tests say. Each is a run of its own that checks the one statement.

- **PromptReplay** (`api-gateway/src/index.ts:2747`): a receipt that cannot be written makes a retry run the prompt again.
- **SessionClear** (`api-gateway/src/index.ts:2994`): Pi believes that a session's file exists after it was removed, and an append makes a file without header.
- **RevertDiscards** (`api-gateway/src/index.ts:2634`): the revert of a file that is removed from the index and kept in the working tree answers success and leaves the file deleted.
- **ConsoleFork** (`client-web/src/react-room.tsx:11674`): a fork opens its copy outside of the chain of navigations and can replace the user's later choice.
- **LedgerMerges** (`plugins/cost-meter/src/index.ts:360`): a process that waits for a stale lock removes, by its path, the lock that another has made meanwhile; a record is lost.

Noted while modelling, without a run:

- `api-gateway/src/index.ts:3082-3084`: metadata of an active session without a file outlives the session.
- `index.ts:2086` calls the written profile dependency-first while the target is written before what it needs (2077-2085), which `Marketplace!InstallAllOrNothing` therefore states of the answer and not of each moment. The rollback of a failed uninstall starts an entry that was disabled (2276 and 2293). The profile is rewritten in place (1021).
- `index.ts:2039-2089`: an install of a plugin that is configured and disabled re-enables its dependencies, answers `installed: true`, and leaves the plugin itself disabled. `InstallAllOrNothing` says so.
- `index.ts:2109`, 2115-2120, 2196, 2254 and 2287-2297: the steps of a rollback drop their failure (`.catch(() => {})`), and the answer is that of the first failure. The profile can be left half-way through the change, or an entry running that the profile does not name; `DependenciesEnabled` and `LoaderIsConfigured` are claimed until then, `InstallAllOrNothing` until then and again from the next start on.
- `index.ts:2350-2382`: the model route awaits between its busy check and its effect, although its refusal says "Cannot change model while a session operation is running".
- `index.ts:2561`: the commit of a path that `git rm` removed is refused, because `git add -A` knows no such path, while the console sends every listed path.
- `index.ts:1490`: a scan of the workspace's files that started earlier and ended later replaces a newer catalogue. 3349: a session replaced by a plugin does not reset the retained events.
- `core/src/harness-home.ts:66-67`: an update that stops between its two writes never recognises the copy again.
- `cli/src/main.ts:173` and 202: the forced exit sets its flag only on the second signal, other than the comment says.
- `plugins/graph-memory/src/index.ts:463-465`: a lock directory whose owner died before it made the owner file is never reclaimed. 484-494: an owner's file that stays blank for thirty seconds is reclaimed whether its process lives or not, the failure of the unlink is dropped, and the rmdir goes by path: of two processes that found it, or with an owner that is only slow, one can remove the directory another has just made, and a mutation is lost. `GraphIsSerial` names that case (`doubted`).
- `plugins/plugin-dev/src/index.ts:117-123`, 145, 152-164: a queued reload keeps no session. After a change of session it starts in whatever session settles next, without a look at `isIdle`, and until a run settles there every other reload is refused.
- `plugins/docker-sandbox/src/index.ts:150-158` and 348: an error, other than a missing file, in reading the container's identifier skips its removal, and the answer tells of the error and not that the container may run on. 361-363: a failure to remove the call's directory hides the outcome of the call.
- `plugins/token-guard/src/index.ts:77-105` and 193-197: what cannot be read is not counted and does not stop the run, as the plugin's README says.
- `plugins/session-bridge/src/index.ts:520` and 573: after a failed write, the preview of a package it is given replaces the failed status by "completed"; imports and exports stay refused.
- `plugins/recall-unread/src/index.ts`: the scan at startup runs beside the plugin's queue of scans and may replace what a later one has found. `plugins/sql-lens/src/index.ts`: of two overlapping calls the earlier one's end replaces the "running" of the later one on the panel.
- `client-web/src/prompt-ui.ts:127`: a submitted draft over the size limit is refused when the tab is reloaded, other than the comment says. `react-room.tsx:10508`: annotations sent without text replace the stored draft of an uncertain submission. Text typed before the first snapshot of the session is dropped, and while a linked session is being restored typing replaces the stored draft.

## What is not modelled

- Parts with one actor and no state of their own: argument parsing, path checks, bounded reads, catalogue parsing, rendering, translations, the update check. A unit test reaches every branch.
- Wording of answers, sizes and formats, malformed bodies (all of them are refused before any state is touched).
- Within the modelled parts: the library's queue of steering messages; listings and exports of sessions; the other ten resources the console reads (they use the same barrier); the retained events of the snapshots; Windows' tree kill; `npm` itself.
- Targets of `atomicWriteFile` other than one, and session managers other than one: the code keeps one queue and one gate per target and manager and they share nothing.
- Tools that read the workspace or ask a remote host once per call: their command runner and their writes are BoundedCommand and AtomicWrite.
- Generated code: the Tauri shells, locales, the documentation site.

Each component is listed with its reason in `PROJECT.json`.

## Plan

Every safety property of the passing runs is a theorem, but for the planner's. Next, as models: the retained events of the gateway with their merge in the console
(`client-web/src/runtime-events.ts`), composed with EventStream; the model route; the MCP listing's pages.

## Running the checks

    tlc -config PromptSlots.cfg MC_PromptGateway.tla
    tlapm PromptGatewayProofs.tla

`PROJECT.json` names the module of every configuration. Each run ends within five minutes on two workers.
