------------------------- MODULE ExecutionLifecycle -------------------------
(***************************************************************************)
(* The life of the execution processes of one session: start_execution     *)
(* (crates/services/src/services/container.rs), start_execution_inner,     *)
(* stop_execution and the exit monitor                                     *)
(* (crates/local-deployment/src/container.rs), and the clean-up of         *)
(* orphaned rows at the next start of the server.                          *)
(*                                                                         *)
(* The processes 1 .. Len(Chain) are the actions of one chain: each        *)
(* successful one starts the next from its exit monitor.  The last process *)
(* is a follow-up turn of the coding agent, sent by the user or drained    *)
(* from the durable message slot.  Every process has a row in the          *)
(* database, a child handle in the child store, an operating-system        *)
(* process, a starter and an exit monitor, and the user may stop it.  The  *)
(* monitor's database reads and writes, the stop's and the starter's are   *)
(* separate steps, as they are separate awaits in the code.                *)
(***************************************************************************)
EXTENDS Integers, Sequences, FiniteSets, FiniteSetsExt

CONSTANTS
  Chain,       \* the kinds of the chain's actions: "script" or "agent"
  Sends,       \* BOOLEAN: the user sends a follow-up message
  MaxStops,    \* how many stops the user asks for
  Faults,      \* which steps may fail: "turn", "spawn", "update", "kill"
  MaxFaults,   \* how many of them fail in one behaviour
  MaxCrashes   \* how many times the server dies

VARIABLES
  row,      \* the status column of each process; "none" before its row exists
  child,    \* its child handle is in child_store
  store,    \* its message store is registered
  os,       \* its operating-system process: "none", "alive" or "dead"
  start,    \* where start_execution is
  mon,      \* where its exit monitor is
  saw,      \* the exit the monitor saw: "ok", "bad" or "lost"; "none" before
  ctx,      \* the status in the context the monitor loaded
  skipped,  \* skipped_cleanup
  drained,  \* started_queued_follow_up
  stop,     \* where the user's stop of it is
  slot,     \* the session's message slot: "none", "queued", "held" or "sent"
  hooks,    \* how many times on_executor_finished ran for it
  notes,    \* how many completion notifications it raised
  stops, faults, crashes,
  up        \* the server is running

vars == <<row, child, store, os, start, mon, saw, ctx, skipped, drained, stop, slot,
          hooks, notes, stops, faults, crashes, up>>

FollowUp == Len(Chain) + 1
Procs == 1 .. FollowUp
HasNext(i) == i < Len(Chain)
Kind(i) == IF i = FollowUp THEN "agent" ELSE Chain[i]

(* The run reason: of the first action from who starts it, of every other  *)
(* from the pair of action types.                                          *)
NextRunReason(from, to) ==
  IF to = "agent" THEN "CodingAgent"
  ELSE IF from = "agent" THEN "CleanupScript" ELSE "SetupScript"

Reason(i) ==
  IF i \in {1, FollowUp}
  THEN IF Kind(i) = "agent" THEN "CodingAgent" ELSE "SetupScript"
  ELSE NextRunReason(Kind(i - 1), Kind(i))

AgentRunning == \E i \in Procs : Reason(i) = "CodingAgent" /\ row[i] = "Running"

Init ==
  /\ row = [i \in Procs |-> "none"]
  /\ child = [i \in Procs |-> FALSE]
  /\ store = [i \in Procs |-> FALSE]
  /\ os = [i \in Procs |-> "none"]
  /\ start = [i \in Procs |-> IF i = 1 THEN "asked" ELSE "idle"]
  /\ mon = [i \in Procs |-> "none"]
  /\ saw = [i \in Procs |-> "none"]
  /\ ctx = [i \in Procs |-> "none"]
  /\ skipped = [i \in Procs |-> FALSE]
  /\ drained = [i \in Procs |-> FALSE]
  /\ stop = [i \in Procs |-> "idle"]
  /\ slot = "none"
  /\ hooks = [i \in Procs |-> 0]
  /\ notes = [i \in Procs |-> 0]
  /\ stops = 0 /\ faults = 0 /\ crashes = 0
  /\ up = TRUE

Fails(kind) == kind \in Faults /\ faults < MaxFaults /\ faults' = faults + 1
Works == UNCHANGED faults

-----------------------------------------------------------------------------
(* start_execution.                                                        *)

(* The row is created Running and the message store registered.            *)
CreateRow(i) ==
  /\ up /\ start[i] = "asked"
  /\ row' = [row EXCEPT ![i] = "Running"]
  /\ store' = [store EXCEPT ![i] = TRUE]
  /\ start' = [start EXCEPT ![i] = "row"]
  /\ UNCHANGED <<child, os, mon, saw, ctx, skipped, drained, stop, slot, hooks, notes,
                 stops, faults, crashes, up>>

(* The workspace is unarchived and the agent's turn recorded.  A failure   *)
(* removes the store and returns; the row stays as it is.                  *)
PrepareTurn(i) ==
  /\ up /\ start[i] = "row"
  /\ \/ Works /\ start' = [start EXCEPT ![i] = "turn"] /\ UNCHANGED store
     \/ Fails("turn") /\ start' = [start EXCEPT ![i] = "err"]
        /\ store' = [store EXCEPT ![i] = FALSE]
  /\ UNCHANGED <<row, child, os, mon, saw, ctx, skipped, drained, stop, slot, hooks, notes,
                 stops, crashes, up>>

SpawnFailsRunning(i) ==
  /\ up /\ start[i] = "turn"
  /\ \/ /\ Works
        /\ os' = [os EXCEPT ![i] = "alive"]
        /\ child' = [child EXCEPT ![i] = TRUE]
        /\ mon' = [mon EXCEPT ![i] = "wait"]
        /\ start' = [start EXCEPT ![i] = "spawned"]
        /\ UNCHANGED <<row, store>>
     \/ /\ Fails("spawn")
        /\ store' = [store EXCEPT ![i] = FALSE]
        /\ start' = [start EXCEPT ![i] = "err"]
        /\ UNCHANGED <<row, os, child, mon>>
  /\ UNCHANGED <<saw, ctx, skipped, drained, stop, slot, hooks, notes, stops, crashes, up>>

(* start_execution_inner: the process is spawned, its handle stored, its   *)
(* monitor started.  A failure marks the row Failed.                       *)
Spawn(i) ==
  /\ up /\ start[i] = "turn"
  /\ \/ /\ Works
        /\ os' = [os EXCEPT ![i] = "alive"]
        /\ child' = [child EXCEPT ![i] = TRUE]
        /\ mon' = [mon EXCEPT ![i] = "wait"]
        /\ start' = [start EXCEPT ![i] = "spawned"]
        /\ UNCHANGED <<row, store>>
     \/ /\ Fails("spawn")
        /\ row' = [row EXCEPT ![i] = "Failed"]
        /\ store' = [store EXCEPT ![i] = FALSE]
        /\ start' = [start EXCEPT ![i] = "err"]
        /\ UNCHANGED <<os, child, mon>>
  /\ UNCHANGED <<saw, ctx, skipped, drained, stop, slot, hooks, notes, stops, crashes, up>>

(* Normalisation needs the store again: when the process has ended and its *)
(* monitor removed it, the start of an agent is reported as failed.        *)
NormalizeStarts(i) ==
  /\ up /\ start[i] = "spawned"
  /\ start' = [start EXCEPT ![i] = IF Kind(i) = "agent" /\ ~store[i] THEN "err" ELSE "ok"]
  /\ UNCHANGED <<row, child, store, os, mon, saw, ctx, skipped, drained, stop, slot, hooks,
                 notes, stops, faults, crashes, up>>

-----------------------------------------------------------------------------
(* The process and its exit monitor.                                       *)

MonitorTo(i, pc) == mon' = [mon EXCEPT ![i] = pc]

(* The process exits by itself, after a cancellation or not.               *)
Exits(i) ==
  /\ os[i] = "alive"
  /\ os' = [os EXCEPT ![i] = "dead"]
  /\ UNCHANGED <<row, child, store, start, mon, saw, ctx, skipped, drained, stop, slot,
                 hooks, notes, stops, faults, crashes, up>>

(* The OS watcher reports the exit, or that the handle is gone.            *)
WatcherReports(i) ==
  /\ up /\ mon[i] = "wait"
  /\ \/ child[i] /\ os[i] = "dead" /\ \E s \in {"ok", "bad"} : saw' = [saw EXCEPT ![i] = s]
     \/ ~child[i] /\ saw' = [saw EXCEPT ![i] = "lost"]
  /\ MonitorTo(i, "seen")
  /\ UNCHANGED <<row, child, store, os, start, ctx, skipped, drained, stop, slot, hooks,
                 notes, stops, faults, crashes, up>>

(* The executor signals the end of the turn: the process group is killed   *)
(* if its handle is there; a failure to kill it is only logged.            *)
ExecutorSignals(i) ==
  /\ up /\ mon[i] = "wait" /\ Kind(i) = "agent" /\ os[i] = "alive"
  /\ \E s \in {"ok", "bad"} : saw' = [saw EXCEPT ![i] = s]
  /\ \/ Works /\ os' = [os EXCEPT ![i] = IF child[i] THEN "dead" ELSE @]
     \/ child[i] /\ Fails("kill") /\ UNCHANGED os
  /\ MonitorTo(i, "seen")
  /\ UNCHANGED <<row, child, store, start, ctx, skipped, drained, stop, slot, hooks,
                 notes, stops, crashes, up>>

(* was_stopped: Killed or Completed.                                       *)
WasStopped(i) == row[i] \in {"Killed", "Completed"}

ChecksStopped(i) ==
  /\ up /\ mon[i] = "seen"
  /\ MonitorTo(i, IF WasStopped(i) THEN "load" ELSE "write")
  /\ UNCHANGED <<row, child, store, os, start, saw, ctx, skipped, drained, stop, slot,
                 hooks, notes, stops, faults, crashes, up>>

(* update_completion, whose statement has no condition on the status.      *)
WritesCompletion(i) ==
  /\ up /\ mon[i] = "write"
  /\ \/ Works /\ row' = [row EXCEPT ![i] = IF saw[i] = "ok" THEN "Completed" ELSE "Failed"]
     \/ Fails("update") /\ UNCHANGED row
  /\ MonitorTo(i, "load")
  /\ UNCHANGED <<child, store, os, start, saw, ctx, skipped, drained, stop, slot, hooks,
                 notes, stops, crashes, up>>

(* load_context, and whether the next action is to be considered.          *)
LoadsContext(i) ==
  /\ up /\ mon[i] = "load"
  /\ ctx' = [ctx EXCEPT ![i] = row[i]]
  /\ LET success == row[i] = "Completed" /\ saw[i] = "ok"
         cleanupDone == Reason(i) = "CleanupScript" /\ row[i] # "Running"
     IN MonitorTo(i, IF success \/ cleanupDone THEN "commit" ELSE "hook")
  /\ UNCHANGED <<row, child, store, os, start, saw, skipped, drained, stop, slot, hooks,
                 notes, stops, faults, crashes, up>>

(* Changes are committed.  An agent's turn without changes skips the next  *)
(* action; otherwise try_start_next_action runs, and the monitor waits.    *)
CommitsAndChains(i) ==
  /\ up /\ mon[i] = "commit"
  /\ \/ /\ Reason(i) = "CodingAgent"
        /\ skipped' = [skipped EXCEPT ![i] = TRUE]
        /\ MonitorTo(i, "hook") /\ UNCHANGED start
     \/ /\ HasNext(i)
        /\ start' = [start EXCEPT ![i + 1] = "asked"]
        /\ MonitorTo(i, "chain") /\ UNCHANGED skipped
     \/ /\ ~HasNext(i)
        /\ MonitorTo(i, "hook") /\ UNCHANGED <<start, skipped>>
  /\ UNCHANGED <<row, child, store, os, saw, ctx, drained, stop, slot, hooks, notes, stops,
                 faults, crashes, up>>

ChainStarted(i) ==
  /\ up /\ mon[i] = "chain" /\ start[i + 1] \in {"ok", "err"}
  /\ MonitorTo(i, "hook")
  /\ UNCHANGED <<row, child, store, os, start, saw, ctx, skipped, drained, stop, slot,
                 hooks, notes, stops, faults, crashes, up>>

ShouldFinalize(i, status) ==
  /\ Reason(i) # "DevServer"
  /\ ~(Reason(i) = "SetupScript" /\ ~HasNext(i))
  /\ status \in {"Failed", "Killed"} \/ ~HasNext(i)

FinalizesEndsOnly(i) == ShouldFinalize(i, ctx[i])
Finalizes(i) == skipped[i] \/ ShouldFinalize(i, ctx[i])
ReleasesWriter(i) == Finalizes(i) \/ Reason(i) = "SetupScript"

(* hold_after_abnormal_writer: a message queued before a coding agent      *)
(* failed or was killed waits for the user.                                *)
AbnormalAgent == \E i \in Procs : Reason(i) = "CodingAgent" /\ row[i] \in {"Failed", "Killed"}
Held == IF slot = "queued" /\ AbnormalAgent THEN "held" ELSE slot

(* dispatch_executor_locked for the follow-up.                             *)
Dispatch == start' = [start EXCEPT ![FollowUp] = "asked"] /\ slot' = "sent"

(* The completion hook: holds the message, or drains it when no agent is   *)
(* running, or leaves it.                                                  *)
RunsHook(i) ==
  /\ up /\ mon[i] = "hook"
  /\ hooks' = [hooks EXCEPT ![i] = @ + 1]
  /\ \/ /\ ReleasesWriter(i) /\ ctx[i] \in {"Failed", "Killed"}
        /\ slot' = Held /\ MonitorTo(i, "final") /\ UNCHANGED start
     \/ /\ ReleasesWriter(i) /\ ctx[i] \notin {"Failed", "Killed"}
        /\ slot = "queued" /\ ~AgentRunning /\ ~AbnormalAgent
        /\ Dispatch /\ MonitorTo(i, "drain")
     \/ /\ ~(/\ ReleasesWriter(i)
             /\ ctx[i] \in {"Failed", "Killed"} \/ (slot = "queued" /\ ~AgentRunning /\ ~AbnormalAgent))
        /\ MonitorTo(i, "final") /\ UNCHANGED <<start, slot>>
  /\ UNCHANGED <<row, child, store, os, saw, ctx, skipped, drained, stop, notes, stops,
                 faults, crashes, up>>

(* The drain returns: Started, or the prompt kept in the queue.            *)
Drained(i) ==
  /\ up /\ mon[i] = "drain" /\ start[FollowUp] \in {"ok", "err"}
  /\ drained' = [drained EXCEPT ![i] = start[FollowUp] = "ok"]
  /\ slot' = IF start[FollowUp] = "ok" THEN slot ELSE "held"
  /\ MonitorTo(i, "final")
  /\ UNCHANGED <<row, child, store, os, start, saw, ctx, skipped, stop, hooks, notes, stops,
                 faults, crashes, up>>

(* finalize_task: no notification for a killed or a still running process. *)
FinalizesTask(i) ==
  /\ up /\ mon[i] = "final"
  /\ notes' = [notes EXCEPT ![i] =
       IF Finalizes(i) /\ ~drained[i] /\ ctx[i] \notin {"Killed", "Running"} THEN @ + 1 ELSE @]
  /\ MonitorTo(i, "tidy")
  /\ UNCHANGED <<row, child, store, os, start, saw, ctx, skipped, drained, stop, slot, hooks,
                 stops, faults, crashes, up>>

(* The store is removed, what is left of the group killed, the handle      *)
(* removed.                                                                *)
Tidies(i) ==
  /\ up /\ mon[i] = "tidy"
  /\ store' = [store EXCEPT ![i] = FALSE]
  /\ os' = [os EXCEPT ![i] = IF child[i] THEN "dead" ELSE @]
  /\ child' = [child EXCEPT ![i] = FALSE]
  /\ MonitorTo(i, "done")
  /\ UNCHANGED <<row, start, saw, ctx, skipped, drained, stop, slot, hooks, notes, stops,
                 faults, crashes, up>>

-----------------------------------------------------------------------------
(* The user.                                                               *)

(* A running process is stopped, from its route or from try_stop.          *)
AskStop(i) ==
  /\ up /\ stops < MaxStops /\ stop[i] = "idle" /\ row[i] = "Running"
  /\ stops' = stops + 1
  /\ stop' = [stop EXCEPT ![i] = "asked"]
  /\ UNCHANGED <<row, child, store, os, start, mon, saw, ctx, skipped, drained, slot, hooks,
                 notes, faults, crashes, up>>

(* stop_execution needs the handle, then marks the row.                    *)
MarkKilled(i) ==
  /\ up /\ stop[i] = "asked"
  /\ \/ child[i] /\ row' = [row EXCEPT ![i] = "Killed"]
        /\ stop' = [stop EXCEPT ![i] = "marked"]
     \/ ~child[i] /\ stop' = [stop EXCEPT ![i] = "refused"] /\ UNCHANGED row
  /\ UNCHANGED <<child, store, os, start, mon, saw, ctx, skipped, drained, slot, hooks,
                 notes, stops, faults, crashes, up>>

(* After the cancellation and a wait of at most five seconds for the       *)
(* monitor, the group is killed and the handle removed.                    *)
KillGroup(i) ==
  /\ up /\ stop[i] = "marked"
  /\ \/ /\ Works
        /\ os' = [os EXCEPT ![i] = "dead"]
        /\ child' = [child EXCEPT ![i] = FALSE]
        /\ store' = [store EXCEPT ![i] = FALSE]
        /\ stop' = [stop EXCEPT ![i] = "done"]
     \/ /\ Fails("kill")
        /\ stop' = [stop EXCEPT ![i] = "failed"]
        /\ UNCHANGED <<os, child, store>>
  /\ UNCHANGED <<row, start, mon, saw, ctx, skipped, drained, slot, hooks, notes, stops,
                 crashes, up>>

(* A follow-up message: queued behind a running agent, dispatched when the *)
(* lease is free.                                                          *)
SendMessage ==
  /\ up /\ Sends /\ slot = "none" /\ row[1] # "none"
  /\ \/ AgentRunning /\ slot' = "queued" /\ UNCHANGED start
     \/ ~AgentRunning /\ Dispatch
  /\ UNCHANGED <<row, child, store, os, mon, saw, ctx, skipped, drained, stop, hooks, notes,
                 stops, faults, crashes, up>>

(* drain_all, once a second: holds or dispatches the queued message.       *)
DrainAll ==
  /\ up /\ slot = "queued"
  /\ \/ AbnormalAgent /\ slot' = "held" /\ UNCHANGED start
     \/ ~AbnormalAgent /\ ~AgentRunning /\ Dispatch
  /\ UNCHANGED <<row, child, store, os, mon, saw, ctx, skipped, drained, stop, hooks, notes,
                 stops, faults, crashes, up>>

-----------------------------------------------------------------------------
(* The server dies: its processes end with their pipes, its tasks and its  *)
(* maps are gone.  Rows and the slot survive.                              *)
Crash ==
  /\ up /\ crashes < MaxCrashes
  /\ crashes' = crashes + 1
  /\ up' = FALSE
  /\ child' = [i \in Procs |-> FALSE]
  /\ store' = [i \in Procs |-> FALSE]
  /\ os' = [i \in Procs |-> IF os[i] = "alive" THEN "dead" ELSE os[i]]
  /\ start' = [i \in Procs |-> IF start[i] \in {"asked", "row", "turn", "spawned"} THEN "lost"
                               ELSE start[i]]
  /\ mon' = [i \in Procs |-> IF mon[i] \in {"none", "done"} THEN mon[i] ELSE "lost"]
  /\ stop' = [i \in Procs |-> IF stop[i] \in {"asked", "marked"} THEN "lost" ELSE stop[i]]
  /\ UNCHANGED <<row, saw, ctx, skipped, drained, slot, hooks, notes, stops, faults>>

(* cleanup_orphan_executions, before the server answers requests.          *)
Restart ==
  /\ ~up /\ up' = TRUE
  /\ row' = [i \in Procs |-> IF row[i] = "Running" THEN "Failed" ELSE row[i]]
  /\ hooks' = [i \in Procs |-> IF row[i] = "Running" THEN hooks[i] + 1 ELSE hooks[i]]
  /\ slot' = IF slot = "queued" /\ \E i \in Procs : row[i] = "Running" /\ Reason(i) = "CodingAgent"
             THEN "held" ELSE slot
  /\ UNCHANGED <<child, store, os, start, mon, saw, ctx, skipped, drained, stop, notes, stops,
                 faults, crashes>>

Next ==
  \/ \E i \in Procs :
       \/ CreateRow(i) \/ PrepareTurn(i) \/ Spawn(i) \/ NormalizeStarts(i) \/ Exits(i)
       \/ WatcherReports(i) \/ ExecutorSignals(i) \/ ChecksStopped(i) \/ WritesCompletion(i)
       \/ LoadsContext(i) \/ CommitsAndChains(i) \/ ChainStarted(i) \/ RunsHook(i)
       \/ Drained(i) \/ FinalizesTask(i) \/ Tidies(i) \/ AskStop(i) \/ MarkKilled(i) \/ KillGroup(i)
  \/ SendMessage \/ DrainAll \/ Crash \/ Restart

Spec == Init /\ [][Next]_vars

(* Every task goes on, processes exit and a dead server is started again.  *)
Starter(i) == CreateRow(i) \/ PrepareTurn(i) \/ Spawn(i) \/ NormalizeStarts(i)
Monitor(i) ==
  \/ WatcherReports(i) \/ ChecksStopped(i) \/ WritesCompletion(i) \/ LoadsContext(i)
  \/ CommitsAndChains(i) \/ ChainStarted(i) \/ RunsHook(i) \/ Drained(i) \/ FinalizesTask(i)
  \/ Tidies(i)

-----------------------------------------------------------------------------
(* The completion hook runs at most once for a process, whoever ends it:   *)
(* its monitor, a stop, or the clean-up after a crash.                     *)
HookOnce == \A i \in Procs : hooks[i] <= 1

(* A row that says Running has somebody who will end it: its starter or    *)
(* its monitor.  The exceptions are the failures that return between the   *)
(* row and the spawn, and a completion that could not be written.          *)
RunningIsOwned ==
  up => \A i \in Procs : row[i] = "Running" =>
          \/ start[i] \in {"row", "turn", "spawned"}
          \/ mon[i] \in {"wait", "seen", "write"}
          \/ faults > 0

Idle ==
  \A i \in Procs : /\ start[i] \in {"idle", "ok", "err"} /\ mon[i] \in {"none", "done"}
                   /\ os[i] # "alive" /\ stop[i] \in {"idle", "done", "refused", "failed"}

(* A chain left alone ends with one notification: when everything has come *)
(* to rest and nothing was stopped, failed to start or crashed, exactly    *)
(* one process of the session told the user.                               *)
EndsNotified ==
  Idle /\ stops = 0 /\ faults = 0 /\ crashes = 0
    => Cardinality({i \in Procs : notes[i] > 0}) = 1

(* No row says Running.                                                    *)
NothingRuns == \A i \in Procs : row[i] # "Running"
=============================================================================
