----------------------------- MODULE GatewayFiles -----------------------------
(* The files that the requests of the gateway change: the session files and  *)
(* their metadata, the profile and package.json under the plugins that run,  *)
(* and the workspace that consoles commit and revert while the agent edits    *)
(* it.  Each has variables of its own.                                       *)
EXTENDS Naturals

CONSTANTS
    Handlers, Paths, Nobody,
    Plugins, Runtime, Plan, DependsOn, ToolPlugins, Changers, NoPlugin,
    WorkspaceFiles, Texts, Text, NoText, MaxActs

VARIABLES
    active, flushed, used, files, broken, meta, queue, slot, hand, lastPin, deleted, foreign,
    profile, disabled, loader, packages, inFlight, job, reply, interrupted, swallowed,
    born, head, index, tree, change, edits

Files  == INSTANCE SessionStore
Market == INSTANCE Marketplace WITH Requests <- Changers, NoEntry <- NoPlugin, manifest <- packages
Work   == INSTANCE WorkspaceChanges WITH job <- change, Absent <- NoText

ASSUME FilesAssumption == Files!NobodyAssumption
ASSUME MarketAssumption == Market!CatalogAssumption
ASSUME WorkAssumption == Work!TextAssumption

store   == <<active, flushed, used, files, broken, meta, queue, slot, hand, lastPin, deleted, foreign>>
market  == <<profile, disabled, loader, packages, inFlight, job, reply, interrupted, swallowed>>
work    == <<born, head, index, tree, change, edits>>
=============================================================================
