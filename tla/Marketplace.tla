----------------------------- MODULE Marketplace -----------------------------
(***************************************************************************)
(* Plugin changes: the install, toggle and uninstall handlers of the API    *)
(* gateway (packages/api-gateway/src/index.ts).  One change edits three     *)
(* stores that nothing keeps together: package.json (through npm), the      *)
(* profile file the next start reads, and the loader of the running         *)
(* process.  Each store is written in steps separated by awaits, and a      *)
(* restart may fall between any two of them.                                *)
(***************************************************************************)
EXTENDS Naturals, Sequences, SequencesExt

CONSTANTS Plugins,       \* the marketplace catalog
          Runtime,       \* the profile entry of pi-runtime
          Plan,          \* marketplaceInstallPlan: a plugin's dependencies, itself last
          DependsOn,     \* the direct dependencies each catalog entry declares
          ToolPlugins,   \* the plugins that register tools when they start
          Requests,      \* the HTTP requests being handled
          NoEntry        \* no profile entry

(* What isMarketplacePlugin and the planner give of a catalog: a plan holds *)
(* what its entries need, and nothing in it needs the plugin itself.        *)
CatalogAssumption ==
  /\ Runtime \notin Plugins /\ NoEntry \notin Plugins \cup {Runtime}
  /\ ToolPlugins \subseteq Plugins
  /\ DependsOn \in [Plugins -> SUBSET Plugins]
  /\ \A p \in Plugins : /\ Plan[p] \in Seq(Plugins) /\ Plan[p] # <<>> /\ Last(Plan[p]) = p
                        /\ \A q \in ToSet(Plan[p]) : DependsOn[q] \subseteq ToSet(Front(Plan[p]))

VARIABLES
  profile,      \* the entries of the profile file, in order
  disabled,     \* the profile entries written with `disabled: true`
  loader,       \* the running entry of each plugin: "absent", "on" or "off"
  manifest,     \* the plugins package.json depends on
  inFlight,     \* marketplaceMutationInFlight
  job,          \* what each request is doing
  reply,        \* the answer given by the step just taken, "none" if it gave none
  interrupted,  \* history: a change ended half way, by a restart or a lost rollback
  swallowed     \* history: since the last start, a rollback step failed in silence

history == <<interrupted, swallowed>>
vars    == <<profile, disabled, loader, manifest, inFlight, job, reply, history>>

Configured == {p \in Plugins : Contains(profile, p)}
Loaded == {p \in Plugins : loader[p] # "absent"}
Enabled(p) == p \in Configured \ disabled
Dependencies(p) == ToSet(Front(Plan[p]))
Saved == [profile |-> profile, disabled |-> disabled]

(* A request between two changes, and one that has just been accepted.  The *)
(* fields are the handler's locals: the plan's missing entries, whether the *)
(* activation is deferred, the cursor and anchor of the loop, the loader    *)
(* entries it created, and the copies it restores from.                     *)
Idle == [op |-> "idle", plugin |-> NoEntry, step |-> "done", missing |-> {},
         enable |-> {}, deferred |-> FALSE, known |-> {}, index |-> 0,
         anchor |-> NoEntry, saved |-> [profile |-> <<>>, disabled |-> {}],
         manifest |-> {}, leased |-> FALSE]

Accepted(op, p) == [Idle EXCEPT !.op = op, !.plugin = p, !.step = "check"]

Init ==
  /\ profile = <<Runtime>>
  /\ disabled = {}
  /\ loader = [p \in Plugins |-> "absent"]
  /\ manifest = {}
  /\ inFlight = FALSE
  /\ job = [r \in Requests |-> Idle]
  /\ reply = "none"
  /\ interrupted = FALSE /\ swallowed = FALSE

(***************************************************************************)
(* Helpers of the handlers.                                                 *)
(***************************************************************************)

(* Profile entries decide for the plugins they name, the loader for others. *)
marketplaceEnabledPackages ==
  (Configured \ disabled) \cup {p \in Loaded \ Configured : loader[p] = "on"}

marketplaceActivePackages == {p \in Plugins : loader[p] = "on" /\ p \notin disabled}

(* Bug: only running plugins block, not those waiting for a restart.         *)
Blockers_OfLoaded(p) == {q \in Loaded : loader[q] = "on" /\ p \in DependsOn[q]}

marketplaceDependencyBlockers(p) ==
  {q \in marketplaceEnabledPackages : p \in DependsOn[q]}

(* The profile with p inserted ahead of the anchor, at its end without one. *)
appendMarketplaceProfile(p, anchor) ==
  IF Contains(profile, p) THEN profile
  ELSE IF Contains(profile, anchor)
       THEN InsertAt(profile, CHOOSE i \in DOMAIN profile : profile[i] = anchor, p)
       ELSE Append(profile, p)

(* updateMarketplaceProfile throws when the profile has no such entry.      *)
RemoveEntry(p) == /\ Contains(profile, p)
                  /\ profile' = RemoveFirst(profile, p)
                  /\ disabled' = disabled \ {p}

MarkEntry(p, off) == /\ Contains(profile, p)
                     /\ disabled' = IF off THEN disabled \cup {p} ELSE disabled \ {p}
                     /\ UNCHANGED profile

runtimePlacement == IF Contains(profile, Runtime) THEN Runtime ELSE NoEntry

At(r, op, step) == job[r].op = op /\ job[r].step = step

Continue(r, rec) == /\ job' = [job EXCEPT ![r] = rec]
                    /\ reply' = "none"
                    /\ UNCHANGED inFlight

Goto(r, step) == Continue(r, [job[r] EXCEPT !.step = step])

(* The answer of a handler, whose `finally` releases the lock.              *)
Answer(r, answer) == /\ job' = [job EXCEPT ![r] = Idle]
                     /\ reply' = answer
                     /\ inFlight' = FALSE

(* A step of a rollback whose failure is caught and dropped.                *)
Undo(done) == /\ interrupted' = (interrupted \/ ~done)
              /\ swallowed' = (swallowed \/ ~done)

Stores == <<profile, disabled, loader, manifest>>

(* Bug: the lock is taken but a request that finds it taken goes on.        *)
Accept_Unlocked(r) ==
  /\ job[r].step = "done"
  /\ inFlight' = TRUE
  /\ \E op \in {"install", "enable", "disable", "uninstall"}, p \in Plugins :
        job' = [job EXCEPT ![r] = Accepted(op, p)]
  /\ reply' = "none"
  /\ UNCHANGED <<Stores, history>>

(***************************************************************************)
(* Every handler: the lock is tested and taken before the body is awaited;  *)
(* a request that finds it taken answers 409 and changes nothing.           *)
(***************************************************************************)
Accept(r) ==
  /\ job[r].step = "done"
  /\ ~inFlight
  /\ inFlight' = TRUE
  /\ \E op \in {"install", "enable", "disable", "uninstall"}, p \in Plugins :
        job' = [job EXCEPT ![r] = Accepted(op, p)]
  /\ reply' = "none"
  /\ UNCHANGED <<Stores, history>>

(***************************************************************************)
(* POST /api/marketplace/install                                            *)
(***************************************************************************)
(* Bug: only the loader is asked whether a dependency is disabled.          *)
InstallCheck_LoaderOnly(r) ==
  LET p == job[r].plugin
      missing == ToSet(Plan[p]) \ (Loaded \cup Configured)
      off == {q \in Dependencies(p) : loader[q] = "off"}
      pending == {q \in Dependencies(p) : q \in Configured \ Loaded}
  IN /\ At(r, "install", "check")
     /\ IF missing = {} /\ off = {}
        THEN Answer(r, IF pending = {} /\ p \in Loaded THEN "refused" ELSE "waiting")
        ELSE Continue(r, [job[r] EXCEPT
               !.step = "npm", !.missing = missing, !.enable = off,
               !.deferred = off # {} \/ pending # {}, !.known = Configured,
               !.manifest = manifest, !.index = Len(Plan[p]),
               !.anchor = runtimePlacement])
     /\ UNCHANGED <<Stores, history>>

InstallCheck(r) ==
  LET p == job[r].plugin
      missing == ToSet(Plan[p]) \ (Loaded \cup Configured)
      off == {q \in Dependencies(p) : loader[q] = "off" \/ q \in disabled}
      pending == {q \in Dependencies(p) : q \in Configured \ Loaded}
  IN /\ At(r, "install", "check")
     /\ IF missing = {} /\ off = {}
        THEN Answer(r, IF pending = {} /\ p \in Loaded THEN "refused" ELSE "waiting")
        ELSE Continue(r, [job[r] EXCEPT
               !.step = "npm", !.missing = missing, !.enable = off,
               !.deferred = off # {} \/ pending # {}, !.known = Configured,
               !.manifest = manifest, !.index = Len(Plan[p]),
               !.anchor = runtimePlacement])
     /\ UNCHANGED <<Stores, history>>

(* npm install, skipped when no package is missing, and a copy of the       *)
(* profile; when either fails, package.json may be written already.         *)
InstallNpm(r) ==
  /\ At(r, "install", "npm")
  /\ \/ /\ manifest' = manifest \cup job[r].missing
        /\ Continue(r, [job[r] EXCEPT !.step = "enable", !.saved = Saved])
     \/ /\ manifest' \in {manifest, manifest \cup job[r].missing}
        /\ Goto(r, "restoreManifest")
  /\ UNCHANGED <<profile, disabled, loader, history>>

(* The disabled dependencies are re-enabled one profile write at a time,    *)
(* which throws when it finds no entry or cannot write.                     *)
InstallEnable(r) ==
  /\ At(r, "install", "enable")
  /\ \/ /\ job[r].enable = {}
        /\ Goto(r, "write") /\ UNCHANGED <<profile, disabled>>
     \/ \E q \in job[r].enable \cap job[r].known :
           /\ MarkEntry(q, FALSE)
           /\ Continue(r, [job[r] EXCEPT !.enable = @ \ {q}])
     \/ /\ job[r].enable # {}
        /\ Goto(r, "unwind") /\ UNCHANGED <<profile, disabled>>
  /\ UNCHANGED <<loader, manifest, history>>

(* The plan is walked backwards: a configured entry becomes the anchor, a   *)
(* missing one is written ahead of the anchor and becomes the anchor.  The  *)
(* write may fail.                                                          *)
InstallWrite(r) ==
  LET q == Plan[job[r].plugin][job[r].index]
      next == [job[r] EXCEPT !.index = @ - 1]
  IN /\ At(r, "install", "write")
     /\ job[r].index > 0
     /\ \/ /\ IF q \in job[r].missing \ job[r].known
              THEN profile' = appendMarketplaceProfile(q, job[r].anchor)
              ELSE UNCHANGED profile
           /\ Continue(r, IF q \in job[r].known \cup job[r].missing
                          THEN [next EXCEPT !.anchor = q] ELSE next)
        \/ /\ q \in job[r].missing \ job[r].known
           /\ Goto(r, "unwind") /\ UNCHANGED profile
     /\ UNCHANGED <<disabled, loader, manifest, history>>

(* A complete profile with re-enabled or waiting dependencies is left to    *)
(* the next start; otherwise the missing entries are started in plan order. *)
InstallWritten(r) ==
  /\ At(r, "install", "write")
  /\ job[r].index = 0
  /\ IF job[r].deferred
     THEN Answer(r, "installed")
     ELSE Continue(r, [job[r] EXCEPT !.step = "create", !.index = 1])
  /\ UNCHANGED <<Stores, history>>

(* The places in the plan of the missing entries that are yet to start.     *)
Unstarted(r) == {i \in DOMAIN Plan[job[r].plugin] :
                   i >= job[r].index /\ Plan[job[r].plugin][i] \in job[r].missing}

(* loader.create and the wait for its fiber.  The running runtime holds the *)
(* tool registry, so an entry that registers tools fails as leased.         *)
InstallCreate(r) ==
  /\ At(r, "install", "create")
  /\ \E i \in Unstarted(r) :
       LET q == Plan[job[r].plugin][i]
       IN /\ \A k \in Unstarted(r) : i <= k
          /\ loader' = [loader EXCEPT ![q] = "on"]
          /\ \/ /\ q \notin ToolPlugins
                /\ Continue(r, [job[r] EXCEPT !.index = i + 1])
             \/ \E leased \in {FALSE, (q \in ToolPlugins)} :
                  Continue(r, [job[r] EXCEPT !.step = "unwind", !.leased = leased])
  /\ UNCHANGED <<profile, disabled, manifest, history>>

InstallCreated(r) ==
  /\ At(r, "install", "create")
  /\ Unstarted(r) = {}
  /\ Answer(r, "installed")
  /\ UNCHANGED <<Stores, history>>

(* The catch block removes the entries it created, those that let it; a     *)
(* leased registry keeps the packages and the profile for the next start.   *)
InstallUnwind(r) ==
  /\ At(r, "install", "unwind")
  /\ \E stuck \in SUBSET (job[r].missing \cap Loaded) :
        /\ loader' = [q \in Plugins |->
                        IF q \in job[r].missing \ stuck THEN "absent" ELSE loader[q]]
        /\ Undo(stuck = {})
  /\ IF job[r].leased THEN Answer(r, "installed") ELSE Goto(r, "restoreProfile")
  /\ UNCHANGED <<profile, disabled, manifest>>

(***************************************************************************)
(* POST /api/plugins/toggle                                                 *)
(***************************************************************************)
ToggleAllowed(op, p) ==
  /\ p \in Loaded
  /\ IF op = "enable" THEN Dependencies(p) \subseteq marketplaceActivePackages
                      ELSE marketplaceDependencyBlockers(p) = {}

(* The entry must be loaded, its dependencies active or its dependents off; *)
(* then the profile is written and the running entry updated.  A profile    *)
(* that cannot be read or written ends the change too.                      *)
ToggleCheck(r) ==
  LET op == job[r].op
      p == job[r].plugin
  IN /\ op \in {"enable", "disable"} /\ job[r].step = "check"
     /\ \/ /\ ToggleAllowed(op, p)
           /\ MarkEntry(p, op = "disable")
           /\ Continue(r, [job[r] EXCEPT !.step = "update", !.saved = Saved])
        \/ Answer(r, "refused") /\ UNCHANGED <<profile, disabled>>
     /\ UNCHANGED <<loader, manifest, history>>

(* entry.update.  A failed update may have changed the entry's options; a   *)
(* leased registry keeps the profile, any other failure restores it.        *)
ToggleUpdate(r) ==
  LET op == job[r].op
      p == job[r].plugin
      wanted == IF op = "enable" THEN "on" ELSE "off"
      leased == op = "enable" /\ p \in ToolPlugins /\ loader[p] = "off"
  IN /\ op \in {"enable", "disable"} /\ job[r].step = "update"
     /\ \/ /\ ~leased
           /\ loader' = [loader EXCEPT ![p] = wanted]
           /\ Answer(r, "toggled")
        \/ /\ loader' \in {loader, [loader EXCEPT ![p] = wanted]}
           /\ (leased /\ Answer(r, "toggled")) \/ Goto(r, "restoreProfile")
     /\ UNCHANGED <<profile, disabled, manifest, history>>

(***************************************************************************)
(* POST /api/plugins/uninstall                                              *)
(***************************************************************************)

(* A plugin that no enabled plugin requires: its loader entry, if it has    *)
(* one, is removed before anything on disk changes, unless that fails.      *)
UninstallCheck(r) ==
  LET p == job[r].plugin
  IN /\ At(r, "uninstall", "check")
     /\ \/ /\ p \in Loaded \cup Configured /\ marketplaceDependencyBlockers(p) = {}
           /\ loader' = [loader EXCEPT ![p] = "absent"]
           /\ Continue(r, [job[r] EXCEPT !.step = "profile", !.saved = Saved,
                 !.manifest = manifest, !.deferred = p \notin Loaded])
        \/ Answer(r, "refused") /\ UNCHANGED loader
     /\ UNCHANGED <<profile, disabled, manifest, history>>

UninstallProfile(r) ==
  /\ At(r, "uninstall", "profile")
  /\ \/ RemoveEntry(job[r].plugin) /\ Goto(r, "npm")
     \/ Goto(r, "restoreProfile") /\ UNCHANGED <<profile, disabled>>
  /\ UNCHANGED <<loader, manifest, history>>

UninstallNpm(r) ==
  /\ At(r, "uninstall", "npm")
  /\ \/ manifest' = manifest \ {job[r].plugin} /\ Answer(r, "uninstalled")
     \/ /\ manifest' \in {manifest, manifest \ {job[r].plugin}}
        /\ Goto(r, "restoreProfile")
  /\ UNCHANGED <<profile, disabled, loader, history>>

(* The rollback of a loaded plugin recreates its entry from id, name and    *)
(* config: the entry is started, whatever its `disabled` was, if it can be. *)
UninstallRecreate(r) ==
  /\ At(r, "uninstall", "recreate")
  /\ \/ loader' = [loader EXCEPT ![job[r].plugin] = "on"] /\ Undo(TRUE)
     \/ UNCHANGED loader /\ Undo(FALSE)
  /\ Answer(r, "failed")
  /\ UNCHANGED <<profile, disabled, manifest>>

(***************************************************************************)
(* Rollback steps the handlers share.                                       *)
(***************************************************************************)

(* The copy of the profile is written back, or the failure to do so is      *)
(* dropped.  A toggle and the uninstall of a plugin that was not loaded     *)
(* restore nothing else.                                                    *)
RestoreProfile(r) ==
  /\ job[r].step = "restoreProfile"
  /\ \/ /\ profile' = job[r].saved.profile
        /\ disabled' = job[r].saved.disabled
        /\ Undo(TRUE)
     \/ UNCHANGED <<profile, disabled>> /\ Undo(FALSE)
  /\ IF job[r].op = "install" \/ (job[r].op = "uninstall" /\ ~job[r].deferred)
     THEN Goto(r, "restoreManifest")
     ELSE Answer(r, "failed")
  /\ UNCHANGED <<loader, manifest>>

RestoreManifest(r) ==
  /\ job[r].step = "restoreManifest"
  /\ \/ manifest' = job[r].manifest /\ Undo(TRUE)
     \/ UNCHANGED manifest /\ Undo(FALSE)
  /\ IF job[r].op = "install" THEN Answer(r, "failed") ELSE Goto(r, "recreate")
  /\ UNCHANGED <<profile, disabled, loader>>

(***************************************************************************)
(* The process ends and starts again: the loader is built from the profile. *)
(***************************************************************************)
Restart ==
  /\ loader' = [p \in Plugins |-> IF p \notin Configured THEN "absent"
                                  ELSE IF p \in disabled THEN "off" ELSE "on"]
  /\ job' = [r \in Requests |-> Idle]
  /\ reply' = "none"
  /\ inFlight' = FALSE
  /\ interrupted' = (interrupted \/ inFlight) /\ swallowed' = FALSE
  /\ UNCHANGED <<profile, disabled, manifest>>

Install(r) == InstallCheck(r) \/ InstallNpm(r) \/ InstallEnable(r) \/ InstallWrite(r)
              \/ InstallWritten(r) \/ InstallCreate(r) \/ InstallCreated(r) \/ InstallUnwind(r)
Toggle(r) == ToggleCheck(r) \/ ToggleUpdate(r)
Uninstall(r) == UninstallCheck(r) \/ UninstallProfile(r) \/ UninstallNpm(r) \/ UninstallRecreate(r)
Rollback(r) == RestoreProfile(r) \/ RestoreManifest(r)
Handler(r) == Install(r) \/ Toggle(r) \/ Uninstall(r) \/ Rollback(r)

(* Requests at rest are alike: any of them stands for the next one.         *)
Free == {r \in Requests : job[r].step = "done"}
Arrive == Free # {} /\ Accept(CHOOSE r \in Free : TRUE)

Next == Restart \/ Arrive \/ \E r \in Requests : Handler(r)

Spec == Init /\ [][Next]_vars

(***************************************************************************)
(* Properties.                                                              *)
(***************************************************************************)

Answers == {"none", "refused", "waiting", "installed", "toggled", "uninstalled", "failed"}
Steps == {"done", "check", "npm", "enable", "write", "create", "unwind", "update",
          "profile", "recreate", "restoreProfile", "restoreManifest"}

(* Every variable has its type: the profile holds each entry at most once.  *)
TypeOK ==
  /\ profile \in Seq(Plugins \cup {Runtime}) /\ IsInjective(profile)
  /\ disabled \subseteq Configured
  /\ loader \in [Plugins -> {"absent", "on", "off"}]
  /\ manifest \subseteq Plugins
  /\ inFlight \in BOOLEAN /\ interrupted \in BOOLEAN /\ swallowed \in BOOLEAN
  /\ \A r \in Requests : job[r].step \in Steps
  /\ reply \in Answers

Settled == ~inFlight /\ ~interrupted

(* The dependency contract of the marketplace: between changes, a plugin    *)
(* the profile enables finds every plugin it depends on enabled there too,  *)
(* whatever installs, toggles, uninstalls, rollbacks and restarts led here. *)
DependenciesEnabled ==
  Settled => \A p \in Plugins : Enabled(p) => \A q \in DependsOn[p] : Enabled(q)

(* Between changes the loader runs nothing the profile does not name, so    *)
(* every running plugin can be switched off and uninstalled.                *)
LoaderIsConfigured == Settled => Loaded \subseteq Configured

(* The change a request is making, and the answer its last step gave.       *)
Finishes(r, op, answer) ==
  job[r].op = op /\ job[r].step # "done" /\ job'[r].step = "done" /\ reply' = answer

(* An install is all or nothing, as long as no rollback has failed in        *)
(* silence since the start.  One that answers success has every dependency   *)
(* enabled in the profile and the plugin itself written there, enabled too   *)
(* but for one that was there and disabled before, which stays disabled;     *)
(* also when it repairs an interrupted install.  One that fails leaves       *)
(* package.json as it found it and none of its entries in the profile or in  *)
(* the loader.                                                               *)
InstallAllOrNothing ==
  [][\A r \in Requests : ~swallowed' =>
       /\ Finishes(r, "install", "installed") =>
            /\ \A q \in Dependencies(job[r].plugin) : Enabled(q)'
            /\ job[r].plugin \in Configured'
            /\ job[r].plugin \in disabled' => job[r].plugin \in job[r].saved.disabled
       /\ Finishes(r, "install", "failed") =>
            /\ \A q \in job[r].missing : loader'[q] = "absent" /\ ~Contains(profile', q)
            /\ manifest' = job[r].manifest]_vars
=============================================================================
