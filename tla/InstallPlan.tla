----------------------------- MODULE InstallPlan -----------------------------
(***************************************************************************)
(* marketplaceInstallPlan (packages/api-gateway/src/marketplace.ts): the    *)
(* depth-first walk that turns a catalog entry into the list of entries an  *)
(* install writes.  The walk is sequential; one action visits, and the      *)
(* catalogs are enumerated as initial states.                               *)
(***************************************************************************)
EXTENDS Naturals, Sequences, SequencesExt, FiniteSets

(* The walk's result: the plan so far, or the error that ended it.          *)
Failed(kind) == [plan |-> <<>>, error |-> kind]
Visited(plan) == [plan |-> plan, error |-> "none"]

(* Bug: nobody remembers which entries are completed. *)
Completed_Never(plan, entry) == FALSE

Completed(plan, entry) == Contains(plan, entry)

(* The inner function visit: `plan` holds the completed entries in order,   *)
(* `visiting` the path from the requested entry, `catalog` the declared     *)
(* dependencies of each known entry.                                        *)
visit(catalog) ==
  LET Ids == DOMAIN catalog
      walk[entry \in Ids, visiting \in Seq(Ids), plan \in Seq(Ids)] ==
        LET Dependency(result, id) ==
              IF result.error # "none" THEN result
              ELSE IF id \notin Ids THEN Failed("unknown")
              ELSE walk[id, Append(visiting, entry), result.plan]
            below == FoldLeft(Dependency, Visited(plan), catalog[entry])
        IN  IF Completed(plan, entry) THEN Visited(plan)
            ELSE IF Contains(visiting, entry) THEN Failed("cycle")
            ELSE IF below.error # "none" THEN below
            ELSE Visited(Append(below.plan, entry))
  IN walk

marketplaceInstallPlan(catalog, entry) == visit(catalog)[entry, << >>, << >>]
=============================================================================
