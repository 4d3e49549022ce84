------------------------------- MODULE MCWorkspaces ---------------------------
(***************************************************************************)
(* What happens to the worktrees and the executions of a workspace: the    *)
(* worktree manager, the periodic clean-up beside the requests of the      *)
(* user, and the life of the execution processes of a session.             *)
(*                                                                         *)
(* Each component is instantiated for one or more questions, named by      *)
(* focus, which is chosen initially. The components share no variable, so  *)
(* a behaviour in which one of them moves and the others rest shows        *)
(* everything that it can do.                                              *)
(*                                                                         *)
(* Worktrees is extended, with the constants of the configuration: two     *)
(* requests at a time on two workspaces with two repositories each, where  *)
(* git fails once ("trees").                                               *)
(***************************************************************************)
EXTENDS Worktrees
VARIABLES
  \* WorkspaceCleanup
  ws, age, runs, dir, pane, jan, req, arc, del, review, working, running,
  used,
  \* ExecutionLifecycle
  row, child, store, os, start, mon, saw, ctx, skipped, drained, stop, slot,
  hooks, notes, stops, faults, crashes, up,
  focus  \* the component that moves

\* Two requests of any kind while steps of the clean-up fail.
Cleanup == INSTANCE WorkspaceCleanup WITH
  Grace <- 1, ArchivedTtl <- 1, IdleTtl <- 2, KeepTtl <- 3, MaxOps <- 2,
  MaxOutputs <- 1, MaxArchives <- 1, MaxCrashes <- 0,
  Switches <- {"open", "view", "exec", "dev", "detach", "pin", "archive", "delete", "fails"}

\* A workspace that is left alone in the end, after a crash.
Aged == INSTANCE WorkspaceCleanup WITH
  Grace <- 1, ArchivedTtl <- 1, IdleTtl <- 2, KeepTtl <- 3, MaxOps <- 2,
  MaxOutputs <- 1, MaxArchives <- 1, MaxCrashes <- 1,
  Switches <- {"open", "detach", "archive", "delete"}

\* The same without tmux.
Bare == INSTANCE WorkspaceCleanup WITH
  Grace <- 1, ArchivedTtl <- 1, IdleTtl <- 2, KeepTtl <- 3, MaxOps <- 2,
  MaxOutputs <- 0, MaxArchives <- 1, MaxCrashes <- 0,
  Switches <- {"view", "exec", "archive", "no_tmux"}

\* A list of archived workspaces that has become old.
Bulk == INSTANCE WorkspaceCleanup WITH
  Grace <- 1, ArchivedTtl <- 1, IdleTtl <- 2, KeepTtl <- 3, MaxOps <- 4,
  MaxOutputs <- 0, MaxArchives <- 2, MaxCrashes <- 0,
  Switches <- {"archive", "bulk"}

\* A setup script, an agent and a clean-up script; a stop, a failed start or
\* kill, and a crash.
Runs == INSTANCE ExecutionLifecycle WITH
  Chain <- <<"script", "agent", "script">>, Sends <- FALSE, MaxStops <- 1,
  Faults <- {"spawn", "kill"}, MaxFaults <- 1, MaxCrashes <- 1

\* A message that is sent while the agent runs, and steps of the database
\* that fail.
Sends == INSTANCE ExecutionLifecycle WITH
  Chain <- <<"agent", "script">>, Sends <- TRUE, MaxStops <- 0,
  Faults <- {"turn", "update"}, MaxFaults <- 1, MaxCrashes <- 0

cleanupVars == <<ws, age, runs, dir, pane, jan, req, arc, del, review,
                 working, running, used>>
runsVars == <<row, child, store, os, start, mon, saw, ctx, skipped, drained,
              stop, slot, hooks, notes, stops, faults, crashes, up>>
workspacesVars == <<vars, cleanupVars, runsVars, focus>>

WorkspacesInit ==
  /\ focus \in {"trees", "cleanup", "aged", "bare", "bulk", "runs", "sends"}
  /\ Init
  /\ Cleanup!Init
  /\ Runs!Init

OnlyTrees == UNCHANGED <<cleanupVars, runsVars, focus>>
OnlyCleanup == UNCHANGED <<vars, runsVars, focus>>
OnlyRuns == UNCHANGED <<vars, cleanupVars, focus>>

InTrees == focus = "trees"
InCleanup == focus = "cleanup"
InAged == focus = "aged"
InBare == focus = "bare"
InBulk == focus = "bulk"
InRuns == focus = "runs"
InSends == focus = "sends"

TreesMoves == InTrees /\ Next /\ OnlyTrees
CleanupMoves == InCleanup /\ Cleanup!Next /\ OnlyCleanup
AgedMoves == InAged /\ Aged!Next /\ OnlyCleanup
BareMoves == InBare /\ Bare!Next /\ OnlyCleanup
BulkMoves == InBulk /\ Bulk!Next /\ OnlyCleanup
RunsMoves == InRuns /\ Runs!Next /\ OnlyRuns
SendsMoves == InSends /\ Sends!Next /\ OnlyRuns
WorkspacesNext == TreesMoves \/ CleanupMoves \/ AgedMoves \/ BareMoves \/ BulkMoves \/ RunsMoves \/ SendsMoves

WorkspacesSpec ==
  /\ WorkspacesInit /\ [][WorkspacesNext]_workspacesVars
  /\ WF_workspacesVars(InAged /\ Aged!Janitor /\ OnlyCleanup)
  /\ WF_workspacesVars(InAged /\ Aged!Requests /\ OnlyCleanup)
  /\ WF_workspacesVars(InAged /\ Aged!Tick /\ OnlyCleanup)
  /\ WF_workspacesVars(InBare /\ Bare!Janitor /\ OnlyCleanup)
  /\ WF_workspacesVars(InBare /\ Bare!Requests /\ OnlyCleanup)
  /\ WF_workspacesVars(InBare /\ Bare!Tick /\ OnlyCleanup)
  /\ \A x \in 1..4 : WF_workspacesVars(InRuns /\ Runs!Starter(x) /\ OnlyRuns)
  /\ \A x \in 1..4 : WF_workspacesVars(InRuns /\ Runs!Monitor(x) /\ OnlyRuns)
  /\ \A x \in 1..4 : WF_workspacesVars(InRuns /\ Runs!Exits(x) /\ OnlyRuns)
  /\ \A x \in 1..4 :
       WF_workspacesVars(InRuns /\ (Runs!MarkKilled(x) \/ Runs!KillGroup(x)) /\ OnlyRuns)
  /\ WF_workspacesVars(InRuns /\ Runs!DrainAll /\ OnlyRuns)
  /\ WF_workspacesVars(InRuns /\ Runs!Restart /\ OnlyRuns)

-----------------------------------------------------------------------------
\* A chain left alone ends with one notification, the completion hook runs at
\* most once for a process, and a row that says Running has somebody who will
\* end it (spawn_exit_monitor, finalize_task).
EndsNotified ==
  /\ focus = "runs" => Runs!EndsNotified
  /\ focus \in {"runs", "sends"} => Runs!HookOnce /\ Runs!RunningIsOwned

\* A round of the clean-up does not touch what is at work since before it
\* began, and a deletion from a list spares what was used after the list was
\* shown (reap_idle_cli_sessions, bulk_delete_archived_workspaces).
WorkSpared ==
  [][/\ focus = "cleanup" => Cleanup!SparesWork
     /\ focus = "bulk" => Bulk!DeletesReviewed]_workspacesVars

\* In the end no expired worktree, no session without a workspace and no
\* directory of a deleted workspace is left (cleanup_expired_workspaces,
\* reap_idle_cli_sessions, cleanup_orphan_workspaces).
NothingLeftBehind ==
  <>[]((focus = "aged" => Aged!Tidy) /\ (focus = "bare" => Bare!Tidy))

\* Every running row ends: completed, failed, killed, or failed at the next
\* start of the server.
RunningEnds == <>[](focus = "runs" => Runs!NothingRuns)
=============================================================================
