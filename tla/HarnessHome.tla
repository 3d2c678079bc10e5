----------------------------- MODULE HarnessHome -----------------------------
(* The user's copy of a shipped profile (packages/core/src/harness-home.ts): *)
(* prepareHarnessProfile seeds it, updates it as long as it is untouched,    *)
(* and readHarnessProfile reports it.  A content is the number of the        *)
(* release that ships it, or Edited.  The writes are atomic (AtomicFile).    *)
EXTENDS Naturals

CONSTANTS
    Absent, Edited,
    MaxReleases,    \* bound on the releases that are installed in turn
    MaxCrashes      \* bound on the launches that stop halfway

ContentAssumption == Absent \notin Nat /\ Edited \notin Nat /\ Absent # Edited

VARIABLES
    manifest,
    builtin,        \* the profile the installation ships
    current, seed,  \* cordis.yml and cordis.seed.yml
    launch,         \* where prepareHarnessProfile is
    crashes,
    touched         \* history: the user or the marketplace changed the copy

homeVars == <<manifest, builtin, current, seed, launch, crashes, touched>>

Init ==
    /\ manifest = FALSE /\ builtin = 1
    /\ current = Absent /\ seed = Absent
    /\ launch = "none" /\ crashes = 0 /\ touched = FALSE

\* npm replaces the installation.
Release ==
    /\ launch \in {"none", "booted"} /\ builtin < MaxReleases
    /\ builtin' = builtin + 1 /\ launch' = "none"
    /\ UNCHANGED <<manifest, current, seed, crashes, touched>>

Begin ==
    /\ launch \in {"none", "booted"}
    /\ manifest' = TRUE /\ launch' = "reading"
    /\ UNCHANGED <<builtin, current, seed, crashes, touched>>

\* Bug: a copy that was never seeded counts as untouched.
Replaced_NoSeed == current = Absent \/ (seed \in {current, Absent} /\ current # builtin)

\* Bug: a copy is replaced whatever was written into it.
Replaced_Always == current # builtin

\* The copy is missing, or untouched since an earlier release.
Replaced == current = Absent \/ (current = seed /\ current # builtin)

\* A missing seed of a current copy is written again.
Repaired == seed = Absent /\ current = builtin

WriteProfile ==
    /\ launch = "reading" /\ Replaced
    /\ current' = builtin /\ touched' = FALSE
    /\ launch' = "seeding"
    /\ UNCHANGED <<manifest, builtin, seed, crashes>>

WriteSeed ==
    /\ launch = "seeding" \/ (launch = "reading" /\ ~Replaced /\ Repaired)
    /\ seed' = builtin /\ launch' = "booted"
    /\ UNCHANGED <<manifest, builtin, current, crashes, touched>>

LeaveAlone ==
    /\ launch = "reading" /\ ~Replaced /\ ~Repaired
    /\ launch' = "booted"
    /\ UNCHANGED <<manifest, builtin, current, seed, crashes, touched>>

Crash ==
    /\ launch \in {"reading", "seeding"} /\ crashes < MaxCrashes
    /\ crashes' = crashes + 1 /\ launch' = "none"
    /\ UNCHANGED <<manifest, builtin, current, seed, touched>>

\* The marketplace or the user writes into the copy, between launches.
Edit ==
    /\ launch \in {"none", "booted"} /\ current # Absent
    /\ current' = Edited /\ touched' = TRUE
    /\ UNCHANGED <<manifest, builtin, seed, launch, crashes>>

\* Bug: the report looks at the copy alone.
Report_CopyOnly == IF current = Absent THEN builtin ELSE current

\* readHarnessProfile: the document it prints.
Report ==
    CASE current = Absent -> builtin
      [] current = builtin -> current
      [] current = seed -> builtin
      [] OTHER -> current

Next == Release \/ Begin \/ WriteProfile \/ WriteSeed \/ LeaveAlone \/ Crash \/ Edit

Spec == Init /\ [][Next]_homeVars

-----------------------------------------------------------------------------
\* What was written into the copy is never overwritten, whatever releases come
\* and wherever an earlier launch stopped.
EditsKept == [][touched => touched']_homeVars

\* What an inspection prints is the document the next launch boots.
ReportIsNextBoot ==
    [][launch = "reading" /\ launch' \in {"seeding", "booted"} => current' = Report]_homeVars

\* A copy nobody touched runs what the release boots, as long as no launch stopped
\* between its two writes: after such a launch the copy counts as edited.
UntouchedFollows == launch = "booted" /\ ~touched /\ crashes = 0 => current = builtin
=============================================================================
