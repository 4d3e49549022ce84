------------------------------ MODULE CliCollab ------------------------------
(***************************************************************************)
(* Delivery of the user's messages to one session: CliCollabService of     *)
(* crates/services/src/services/cli_collab.rs over the durable slot of     *)
(* SessionQueuedMessage, with routing enabled.                             *)
(*                                                                         *)
(* A send takes the session lock, derives who may write to the             *)
(* conversation, and pastes the prompt into the live terminal agent,       *)
(* starts a headless executor with it, or leaves it queued.  A loop        *)
(* reconciles interrupted deliveries and drains the queue.  The transcript *)
(* ingester acknowledges a paste when it imports the agent's user record.  *)
(* What runs under the session lock is the program of `task`; the imports, *)
(* the reconcile statements, the executor's exit and the terminal pane     *)
(* take no lock and may step between any two of its steps.  The server may *)
(* crash, and a client may disconnect, which drops the request's future.   *)
(***************************************************************************)
EXTENDS SessionQueuedMessage

CONSTANT MaxMsgs  \* bound: messages the user sends

ASSUME CollabAssumption == MaxMsgs \in Nat

Msgs == 1..MaxMsgs

VARIABLES
    slot,   \* the session's active queue row
    task,   \* the holder of the session lock
    loop,   \* drain_all
    sent,   \* messages sent so far
    exec,   \* the running executor: of this server process, of an other, earlier
            \* one, or a ghost, a process row that is running with no process
    hooks,  \* finished executors whose hook has not run yet
    pane,   \* the workspace's CLI pane
    trail,  \* what happened to the message in the slot, outside the slot
    owed    \* messages whose sender was told "queued" or "routed", and that
            \* were neither delivered nor replaced or cancelled by the user

vars == <<slot, task, loop, sent, exec, hooks, pane, trail, owed>>

Idle == [pc |-> "idle", by |-> "gate", msg |-> 0, retry |-> FALSE,
         id |-> 0, unacked |-> FALSE]

Tasks == [pc : {"idle", "replace", "lease", "enqueue", "store", "claimPaste", "paste",
                "markPasted", "unpaste", "reserve", "recheck", "claimExec",
                "dispatch", "consume", "failed", "hold"},
          by : {"gate", "loop", "hook"}, msg : Nat, retry : BOOLEAN,
          id : Nat, unacked : BOOLEAN]

\* runs: what runs in the pane; bound: a binding of this session is active;
\* launching: the pane of a launch is up and its binding is not recorded yet.
Panes == [runs : {"none", "shell", "agent"}, bound : BOOLEAN, launching : BOOLEAN]

NoLoop == [pc |-> "idle", id |-> 0, drain |-> FALSE]

Loops == [pc : {"idle", "panes", "imported", "pasting", "pasted", "evidence", "drain"},
          id : Nat, drain : BOOLEAN]

\* The trail of the message in the slot.
\*   bound   a native record is bound to the row
\*   inbox   the prompt is in the agent's composer or input queue
\*   rec     a user record of it awaits import and can acknowledge the row
\*   missed  a user record of it was imported and bound no row
\*   taken   it was pasted into the agent that runs now, under the binding
\*           that is active now or under an earlier one
\*   ran     an executor was started with it
\*   torn    a crash or an interruption cut its delivery in two
\* What is under way for a message that left the slot has no effect.
Trails == [bound : BOOLEAN, inbox : BOOLEAN, rec : BOOLEAN, missed : BOOLEAN,
           taken : {"no", "earlier", "now"}, ran : BOOLEAN, torn : BOOLEAN]

NoTrail == [bound |-> FALSE, inbox |-> FALSE, rec |-> FALSE, missed |-> FALSE,
            taken |-> "no", ran |-> FALSE, torn |-> FALSE]

TypeOK ==
    /\ slot \in Rows
    /\ task \in Tasks
    /\ loop \in Loops
    /\ sent \in 0..MaxMsgs
    /\ exec \in {"none", "this", "other", "ghost"}
    /\ hooks \subseteq {"ok", "drain", "abnormal"}
    /\ pane \in Panes
    /\ trail \in Trails
    /\ owed \subseteq Msgs

\* The service starts over an empty slot, or over a claim written before the
\* columns for claim owners existed.  The session's first executor is started
\* with the workspace and not through the gate.
LegacyClaim == [Fresh(1, 1, FALSE) EXCEPT !.state = "pasting"]

Init ==
    /\ \/ slot = NoRow /\ sent = 0 /\ owed = {}
       \/ MaxMsgs > 0 /\ slot = LegacyClaim /\ sent = 1 /\ owed = {1}
    /\ task = Idle
    /\ loop = NoLoop
    /\ exec \in {"none", "this"}
    /\ hooks = {}
    /\ pane = [runs |-> "none", bound |-> FALSE, launching |-> FALSE]
    /\ trail = NoTrail

-----------------------------------------------------------------------------

LockFree == task.pc = "idle"

Goto(pc) == task' = [task EXCEPT !.pc = pc]

\* The end of a task; only a request has a sender to answer.
Finish == task' = Idle

Accept ==
    /\ task' = Idle
    /\ owed' = owed \cup IF task.by = "gate" THEN {task.msg} ELSE {}

\* The row reaches a terminal state: its message is delivered or cancelled.
Settle ==
    /\ slot' = NoRow
    /\ trail' = NoTrail
    /\ owed' = owed \ {slot.msg}

\* The writer lease that derive_lease_locked may find: any of its reads may
\* fail, and a pane agent is ours only through our binding and session id.
Leases ==
    {"busy"} \cup
    IF exec # "none" THEN {"executor"}
    ELSE CASE pane.runs = "none"  -> {"free"}
           [] pane.runs = "shell" -> {"free"} \cup IF pane.bound THEN {"ambiguous"} ELSE {}
           [] pane.runs = "agent" -> {"ambiguous"} \cup IF pane.bound THEN {"cli"} ELSE {}

\* The probe of a pane that is gone releases its binding.
Probed(lease) ==
    pane' = IF lease = "free" /\ pane.runs = "none" THEN [pane EXCEPT !.bound = FALSE] ELSE pane

-----------------------------------------------------------------------------
(* dispatch_gate_with_context, under the session lock *)

\* prepare_existing_slot: an occupied slot is a conflict unless the user asked
\* to replace a message that is still queued.
GateBegin(retry, replace) ==
    /\ LockFree
    /\ sent < MaxMsgs
    /\ sent' = sent + 1
    /\ task' = IF Conflicts(slot, replace) THEN Idle
               ELSE [Idle EXCEPT !.pc = IF slot.state = "none" THEN "lease" ELSE "replace",
                                 !.msg = sent', !.retry = retry]
    /\ UNCHANGED <<slot, loop, exec, hooks, pane, trail, owed>>

\* The replacement; the row may have been acknowledged since it was read.
GateReplace ==
    /\ task.pc = "replace"
    /\ slot' = Store(slot, task.msg, task.retry, TRUE)
    /\ trail' = NoTrail
    /\ owed' = owed \ {slot.msg}
    /\ task' = [task EXCEPT !.pc = "lease", !.id = slot'.id]
    /\ UNCHANGED <<loop, sent, exec, hooks, pane>>

\* Where the derived lease sends a request.
GateTarget(lease) ==
    CASE lease = "free" -> "reserve"
      [] lease = "cli" /\ ~ task.retry -> IF task.id = 0 THEN "store" ELSE "claimPaste"
      [] OTHER -> "enqueue"

GateLease(lease) ==
    /\ task.pc = "lease" /\ task.by = "gate"
    /\ Probed(lease)
    /\ Goto(GateTarget(lease))
    /\ UNCHANGED <<slot, loop, sent, exec, hooks, trail, owed>>

\* queue_or_status: an existing row stays as it is.
Enqueue ==
    /\ task.pc = "enqueue"
    /\ slot' = IF task.id = 0 THEN Store(slot, task.msg, task.retry, FALSE) ELSE slot
    /\ Accept
    /\ UNCHANGED <<loop, sent, exec, hooks, pane, trail>>

StoreForPaste ==
    /\ task.pc = "store"
    /\ slot' = Store(slot, task.msg, FALSE, FALSE)
    /\ task' = [task EXCEPT !.pc = "claimPaste", !.id = slot'.id]
    /\ UNCHANGED <<loop, sent, exec, hooks, pane, trail, owed>>

\* queue_message: store without deriving a lease.
QueueMessage(replace) ==
    /\ LockFree
    /\ sent < MaxMsgs
    /\ sent' = sent + 1
    /\ slot' = Store(slot, sent', FALSE, replace)
    /\ IF Conflicts(slot, replace) THEN UNCHANGED <<trail, owed>>
         ELSE trail' = NoTrail /\ owed' = (owed \ {slot.msg}) \cup {sent'}
    /\ UNCHANGED <<task, loop, exec, hooks, pane>>

CancelQueued ==
    /\ LockFree
    /\ slot.state = "queued"
    /\ Settle
    /\ UNCHANGED <<task, loop, sent, exec, hooks, pane>>

-----------------------------------------------------------------------------
(* paste_slot *)

ClaimPaste ==
    /\ task.pc = "claimPaste"
    /\ IF Claimable(slot, task.id)
         THEN slot' = ClaimForPaste(slot) /\ task' = [task EXCEPT !.pc = "paste", !.msg = slot.msg]
         ELSE Finish /\ UNCHANGED slot
    /\ UNCHANGED <<loop, sent, exec, hooks, pane, trail, owed>>

\* The keystrokes reach the agent that is live under the send lock.
Delivered ==
    /\ pane.runs = "agent"
    /\ trail' = [trail EXCEPT !.inbox = TRUE, !.taken = "now"]

\* paste_and_submit reports whether the text reached the pane.
Paste ==
    /\ task.pc = "paste"
    /\ \/ Delivered /\ Goto("markPasted")
       \/ UNCHANGED trail /\ Goto("unpaste")
    /\ UNCHANGED <<slot, loop, sent, exec, hooks, pane, owed>>

\* A record written more than five seconds before pasted_at is out of the
\* acknowledgement window.  PasteClaimLost is returned when the claim is gone.
MarkPastedStep(slow) ==
    /\ task.pc = "markPasted"
    /\ IF PasteClaimed(slot, task.id)
         THEN /\ slot' = MarkPasted(slot)
              /\ trail' = [trail EXCEPT !.rec = trail.rec /\ ~ slow]
              /\ Accept
         ELSE Finish /\ UNCHANGED <<slot, trail, owed>>
    /\ UNCHANGED <<loop, sent, exec, hooks, pane>>

\* A paste that did not reach the pane goes back to the queue.
RequeuePaste ==
    /\ task.pc = "unpaste"
    /\ slot' = Requeue(slot, task.id, "retry")
    /\ Accept
    /\ UNCHANGED <<loop, sent, exec, hooks, pane, trail>>

-----------------------------------------------------------------------------
(* dispatch_executor_locked *)

\* The workspace's spawn reservation (SpawnReservation) is granted or not.
Reserve ==
    /\ task.pc = "reserve"
    /\ Goto("recheck") \/ Goto("enqueue")
    /\ UNCHANGED <<slot, loop, sent, exec, hooks, pane, trail, owed>>

\* The lease is derived again under the reservation.
Recheck(lease) ==
    /\ task.pc = "recheck"
    /\ Probed(lease)
    /\ Goto(IF lease # "free" THEN "enqueue" ELSE IF task.id = 0 THEN "dispatch" ELSE "claimExec")
    /\ UNCHANGED <<slot, loop, sent, exec, hooks, trail, owed>>

ClaimExec ==
    /\ task.pc = "claimExec"
    /\ IF Claimable(slot, task.id)
         THEN slot' = ClaimForExecutor(slot) /\ Goto("dispatch")
         ELSE Finish /\ UNCHANGED slot
    /\ UNCHANGED <<loop, sent, exec, hooks, pane, trail, owed>>

\* start_execution registered a running process and spawned it.
ExecutorStarts ==
    /\ exec' = "this"
    /\ trail' = [trail EXCEPT !.ran = (task.id # 0)]

\* A failed start may have recorded a failed process, or may leave its
\* process row running with nothing behind it.
StartFails ==
    /\ \/ exec' = exec /\ slot' \in {slot, [slot EXCEPT !.failed = (slot.state # "none")]}
       \/ exec' = "ghost" /\ slot' = slot
    /\ UNCHANGED trail

Dispatch ==
    /\ task.pc = "dispatch"
    /\ \/ ExecutorStarts /\ UNCHANGED slot /\ IF task.id # 0 THEN Goto("consume") ELSE Finish
       \/ StartFails /\ Goto("failed")
    /\ UNCHANGED <<loop, sent, hooks, pane, owed>>

\* ExecutorClaimLost is returned when the claim is gone.
Consume ==
    /\ task.pc = "consume"
    /\ IF ExecutorClaimed(slot, task.id) THEN Settle ELSE UNCHANGED <<slot, trail, owed>>
    /\ Finish
    /\ UNCHANGED <<loop, sent, exec, hooks, pane>>

\* The prompt is preserved: the claim is requeued, an unstored prompt stored;
\* after a destructive reset the stored row also gets a reason.
DispatchFailed(reset) ==
    /\ task.pc = "failed"
    /\ reset => task.retry
    /\ slot' = IF task.id # 0 THEN Requeue(slot, task.id, "retry")
               ELSE LET stored == Store(slot, task.msg, task.retry, FALSE)
                    IN  IF reset THEN SetFailureReason(stored, stored.id, "retry") ELSE stored
    /\ Accept
    /\ UNCHANGED <<loop, sent, exec, hooks, pane, trail>>

-----------------------------------------------------------------------------
(* drain_session, for the loop and for the finish hook *)

\* A drain that does not look at the hold.
DrainTaskUnheld(by) ==
    IF slot.state # "queued" THEN Idle
    ELSE [Idle EXCEPT !.pc = "lease", !.by = by, !.msg = slot.msg, !.retry = slot.retry,
                      !.id = slot.id, !.unacked = WasRequeuedFromPasted(slot)]

\* Only a queued row is drained, and not one that waits for the user; after a
\* failed or killed writer (hold_after_abnormal_writer) it is held first.
DrainTask(by) ==
    IF slot.state # "queued" \/ slot.reason = "hold" THEN Idle
    ELSE [Idle EXCEPT !.pc = IF slot.failed THEN "hold" ELSE "lease",
                      !.by = by, !.msg = slot.msg, !.retry = slot.retry,
                      !.id = slot.id, !.unacked = WasRequeuedFromPasted(slot)]

\* The hold is written only to a row that is still queued; when it is not,
\* the drain goes on and its claim fails.
DrainHold ==
    /\ task.pc = "hold"
    /\ slot' = SetFailureReason(slot, task.id, "hold")
    /\ task' = IF Claimable(slot, task.id) THEN Idle ELSE [task EXCEPT !.pc = "lease"]
    /\ UNCHANGED <<loop, sent, exec, hooks, pane, trail, owed>>

\* The age of the pane's binding is not looked at.
AnyPasteBinding == FALSE

\* original_paste_binding_is_active: the pane that got the first paste is
\* still bound, so the prompt may yet be acknowledged.
OriginalPasteBindingActive == task.unacked /\ pane.bound /\ ~ slot.rebound

DrainLease(lease) ==
    /\ task.pc = "lease" /\ task.by # "gate"
    /\ Probed(lease)
    /\ task' = CASE lease = "free" -> [task EXCEPT !.pc = "reserve"]
               [] lease = "cli" /\ ~ task.retry /\ ~ OriginalPasteBindingActive ->
                    [task EXCEPT !.pc = "claimPaste"]
               [] OTHER -> Idle
    /\ UNCHANGED <<slot, loop, sent, exec, hooks, trail, owed>>

-----------------------------------------------------------------------------
(* on_executor_finished *)

\* A failed or killed writer holds the queued message for the user.
HookAbnormal ==
    /\ LockFree
    /\ "abnormal" \in hooks
    /\ hooks' = hooks \ {"abnormal"}
    /\ slot' = IF slot.failed /\ slot.reason # "hold"
                 THEN SetFailureReason(slot, slot.id, "hold") ELSE slot
    /\ UNCHANGED <<task, loop, sent, exec, pane, trail, owed>>

\* A normal finish leaves the conversation to a bound pane that is alive
\* (hold_or_resume_bound_pane_locked); otherwise it drains the queue.
HookOk(drain) ==
    /\ LockFree
    /\ "ok" \in hooks
    /\ drain => exec = "none" /\ (pane.runs = "none" \/ ~ pane.bound)
    /\ hooks' = (hooks \ {"ok"}) \cup IF drain THEN {"drain"} ELSE {}
    /\ pane' = IF drain THEN [pane EXCEPT !.bound = FALSE] ELSE pane
    /\ UNCHANGED <<slot, task, loop, sent, exec, trail, owed>>

\* The lock is released in between.
HookDrain ==
    /\ LockFree
    /\ "drain" \in hooks
    /\ hooks' = hooks \ {"drain"}
    /\ task' = DrainTask("hook")
    /\ UNCHANGED <<slot, loop, sent, exec, pane, trail, owed>>

-----------------------------------------------------------------------------
(* drain_all; reconcile's three statements take no session lock *)

\* The scan of the active rows.
LoopScan ==
    /\ loop.pc = "idle"
    /\ task.by # "loop"
    /\ slot.state # "none" \/ pane.bound
    /\ loop' = [pc |-> IF pane.bound THEN "panes" ELSE "imported",
                id |-> IF slot.state = "pasted" THEN slot.id ELSE 0,
                drain |-> (slot.state = "queued")]
    /\ UNCHANGED <<slot, task, sent, exec, hooks, pane, trail, owed>>

\* reconcile_waiting_panes: once no executor runs, a bound pane that is gone
\* loses its binding, unless an earlier check fails; one that waits is told
\* to resume (AgentStarts).
ReconcilePanes(release) ==
    /\ LockFree
    /\ loop.pc = "panes"
    /\ release => exec = "none" /\ pane.runs = "none"
    /\ loop' = [loop EXCEPT !.pc = "imported"]
    /\ pane' = IF release THEN [pane EXCEPT !.bound = FALSE] ELSE pane
    /\ UNCHANGED <<slot, task, sent, exec, hooks, trail, owed>>

\* First statement: a row with a bound record is imported.  The import
\* acknowledges in the transaction that binds, so this finds such a row only
\* when that changes.
ReconcileImported ==
    /\ loop.pc = "imported"
    /\ loop' = [loop EXCEPT !.pc = "pasting"]
    /\ IF Ackable(slot) /\ trail.bound THEN Settle ELSE UNCHANGED <<slot, trail, owed>>
    /\ UNCHANGED <<task, sent, exec, hooks, pane, trail>>

\* Second statement: abandoned claims go back to the queue.
ReconcilePasting ==
    /\ loop.pc = "pasting"
    /\ loop' = [loop EXCEPT !.pc = "pasted"]
    /\ slot' = IF Abandoned(slot) THEN Recover(slot) ELSE slot
    /\ UNCHANGED <<task, sent, exec, hooks, pane, trail, owed>>

\* Third statement: pastes past the hard cap go back to the queue.
ReconcilePasted ==
    /\ loop.pc = "pasted"
    /\ loop' = [loop EXCEPT !.pc = "evidence"]
    /\ slot' = IF Expired(slot) THEN Unacknowledged(slot) ELSE slot
    /\ UNCHANGED <<task, sent, exec, hooks, pane, trail, owed>>

\* reconcile_pasted_delivery: a pasted row whose pane is unbound, relaunched,
\* gone or without an agent lost its evidence.  The probe may fail.
EvidenceLost(probe) ==
    ~ pane.bound \/ slot.rebound \/ (probe /\ pane.runs # "agent")

ReconcileEvidence(probe) ==
    /\ LockFree
    /\ loop.pc = "evidence"
    /\ loop' = [loop EXCEPT !.pc = "drain", !.id = 0]
    /\ IF slot.state = "pasted" /\ slot.id = loop.id
         THEN /\ slot' = IF EvidenceLost(probe) THEN Requeue(slot, slot.id, "unacked") ELSE slot
              /\ pane' = IF probe /\ pane.runs = "none" /\ ~ slot.rebound
                           THEN [pane EXCEPT !.bound = FALSE] ELSE pane
         ELSE UNCHANGED <<slot, pane>>
    /\ UNCHANGED <<task, sent, exec, hooks, trail, owed>>

LoopDrain ==
    /\ LockFree
    /\ loop.pc = "drain"
    /\ loop' = NoLoop
    /\ task' = IF loop.drain THEN DrainTask("loop") ELSE task
    /\ UNCHANGED <<slot, sent, exec, hooks, pane, trail, owed>>

-----------------------------------------------------------------------------
(* The transcript, the executor and the terminal pane; no session lock *)

\* The agent writes the user record of a prompt it took.  ok: the record is
\* of the expected conversation and not already bound to an executor turn,
\* and its time is within fifteen minutes of the paste; any other record can
\* acknowledge nothing.
RecordWritten(ok) ==
    /\ trail.inbox
    /\ ok => ~ (slot.pasted /\ slot.aged)
    /\ trail' = [trail EXCEPT !.inbox = FALSE, !.rec = ok \/ @]
    /\ UNCHANGED <<slot, task, loop, sent, exec, hooks, pane, owed>>

\* An acknowledgement that matches the prompt whatever the row's state.
AcksAnyState == slot.state # "none"

\* The row that the record acknowledges.
Acks == Ackable(slot) /\ slot.pasted

\* import_batch_in_transaction: binding the record and acknowledging the row
\* are one transaction.
Import ==
    /\ trail.rec
    /\ IF Acks THEN Settle
         ELSE trail' = [trail EXCEPT !.rec = FALSE, !.missed = TRUE] /\ UNCHANGED <<slot, owed>>
    /\ UNCHANGED <<task, loop, sent, exec, hooks, pane>>

\* Time passes: a paste reaches the hard cap, an ownerless claim its grace.
\* A launch is registered in less time than that (wait_for_cli_session).
Age ==
    /\ slot.pasted \/ (slot.state = "pasting" /\ slot.exec = "none" /\ slot.paste = "none")
    /\ ~ pane.launching
    /\ ~ slot.aged
    /\ slot' = [slot EXCEPT !.aged = TRUE]
    /\ UNCHANGED <<task, loop, sent, exec, hooks, pane, trail, owed>>

\* The completion is recorded first; the hook follows.
Completed(status) ==
    /\ exec' = "none"
    /\ hooks' = hooks \cup {status}
    /\ slot' = IF status = "abnormal" /\ slot.state # "none"
                 THEN [slot EXCEPT !.failed = TRUE] ELSE slot
    /\ UNCHANGED <<task, loop, sent, pane, trail, owed>>

ExecutorExits(status) == exec = "this" /\ Completed(status)

\* cleanup_orphan_executions after a restart.
CleanupOrphan == exec = "other" /\ Completed("abnormal")

\* A terminal attach or a restart creates the pane; the agent may be up
\* before the launch is registered (spawn_terminal).
PaneLaunched(runs) ==
    /\ pane.runs = "none" /\ ~ pane.launching
    /\ pane' = [pane EXCEPT !.runs = runs, !.launching = TRUE]
    /\ UNCHANGED <<slot, task, loop, sent, exec, hooks, trail, owed>>

\* register_cli_launch: record_launch releases the old binding.
LaunchRegistered ==
    /\ pane.launching
    /\ pane' = [pane EXCEPT !.launching = FALSE, !.bound = TRUE]
    /\ slot' = [slot EXCEPT !.rebound = slot.pasted]
    /\ trail' = [trail EXCEPT !.taken = IF @ = "no" THEN "no" ELSE "earlier"]
    /\ UNCHANGED <<task, loop, sent, exec, hooks, owed>>

\* The tmux session did not come up in time or the launch could not be
\* recorded: spawn_terminal kills the pane.
LaunchFails(bound) ==
    /\ pane.launching
    /\ bound => pane.bound
    /\ pane' = [runs |-> "none", bound |-> bound, launching |-> FALSE]
    /\ trail' = [trail EXCEPT !.inbox = FALSE, !.taken = "no"]
    /\ UNCHANGED <<slot, task, loop, sent, exec, hooks, owed>>

\* The bootstrap, a resume handoff or the user starts an agent in the pane.
AgentStarts ==
    /\ pane.runs = "shell"
    /\ pane' = [pane EXCEPT !.runs = "agent"]
    /\ UNCHANGED <<slot, task, loop, sent, exec, hooks, trail, owed>>

\* The agent exits, or its tmux session ends; its input is gone with it.
AgentEnds(runs) ==
    /\ pane.runs = "agent" \/ (pane.runs = "shell" /\ runs = "none")
    /\ pane' = [pane EXCEPT !.runs = runs]
    /\ trail' = [trail EXCEPT !.inbox = FALSE, !.taken = "no"]
    /\ UNCHANGED <<slot, task, loop, sent, exec, hooks, owed>>

-----------------------------------------------------------------------------
(* Interruptions *)

\* The side effect of the step under way may have happened, unrecorded.
CutShort == task.id # 0 /\ task.pc \in {"paste", "markPasted", "dispatch", "consume"}

Torn(t) == [t EXCEPT !.torn = @ \/ CutShort]

\* The server stops and comes up again: what it held in memory is gone, its
\* claims and its executor belong to an earlier process.
Crash ==
    /\ slot' = Orphaned(slot)
    /\ exec' = IF exec = "none" THEN "none" ELSE "other"
    /\ task' = Idle
    /\ loop' = NoLoop
    /\ hooks' = {}
    /\ pane' = [pane EXCEPT !.launching = FALSE]
    /\ trail' = Torn(trail)
    /\ UNCHANGED <<sent, owed>>

\* A task ends half way: a database error returns early, or the client
\* disconnects and the request's future is dropped.
Interrupted ==
    /\ ~ LockFree
    /\ Finish
    /\ trail' = Torn(trail)
    /\ UNCHANGED <<slot, loop, sent, exec, hooks, pane, owed>>

-----------------------------------------------------------------------------

UserStep ==
    \/ \E retry, replace \in BOOLEAN : GateBegin(retry, replace)
    \/ \E replace \in BOOLEAN : QueueMessage(replace)
    \/ CancelQueued

TaskStep ==
    \/ GateReplace
    \/ \E lease \in Leases : GateLease(lease) \/ DrainLease(lease) \/ Recheck(lease)
    \/ Enqueue \/ StoreForPaste
    \/ ClaimPaste \/ Paste \/ RequeuePaste
    \/ \E slow \in BOOLEAN : MarkPastedStep(slow)
    \/ Reserve \/ ClaimExec \/ Dispatch \/ Consume
    \/ \E reset \in BOOLEAN : DispatchFailed(reset)
    \/ DrainHold

LoopStep ==
    \/ LoopScan \/ ReconcileImported \/ ReconcilePasting \/ ReconcilePasted
    \/ \E release \in BOOLEAN : ReconcilePanes(release)
    \/ \E probe \in BOOLEAN : ReconcileEvidence(probe)
    \/ LoopDrain

HookStep ==
    \/ HookAbnormal \/ HookDrain
    \/ \E drain \in BOOLEAN : HookOk(drain)

EnvironmentStep ==
    \/ Import \/ \E ok \in BOOLEAN : RecordWritten(ok)
    \/ Age
    \/ \E status \in {"ok", "abnormal"} : ExecutorExits(status)
    \/ CleanupOrphan
    \/ \E runs \in {"shell", "agent"} : PaneLaunched(runs)
    \/ LaunchRegistered \/ AgentStarts
    \/ \E bound \in BOOLEAN : LaunchFails(bound)
    \/ \E runs \in {"none", "shell"} : AgentEnds(runs)

Next == UserStep \/ TaskStep \/ LoopStep \/ HookStep \/ EnvironmentStep \/ Crash \/ Interrupted

Spec == Init /\ [][Next]_vars

\* The lock holder and the loop are tokio tasks that are always polled again.
FairSpec == Spec /\ WF_vars(TaskStep) /\ WF_vars(LoopStep)

-----------------------------------------------------------------------------
(* Properties *)

\* A task that pastes or starts an executor still owns the row it claimed:
\* no import, reconcile statement, crash or other task can take the claim
\* from under it, so PasteClaimLost and ExecutorClaimLost are never returned.
ClaimNeverLost ==
    /\ task.pc \in {"paste", "markPasted", "unpaste"} => PasteClaimed(slot, task.id)
    /\ task.pc \in {"dispatch", "consume", "failed"} /\ task.id # 0 =>
         ExecutorClaimed(slot, task.id)

\* A message whose sender was told that it is queued or routed is still in
\* the slot until it is delivered or the user replaces or cancels it.
AcceptedIsKept == owed \subseteq {slot.msg}

\* An executor is started with a message once, unless a crash or an
\* interruption cut its delivery in two.
ExecutorRunsOnce ==
    [][task.pc = "dispatch" /\ task'.pc = "consume" =>
         trail.torn \/ ~ trail.ran]_vars

\* A message is pasted once into an agent under one binding, unless a crash
\* or an interruption cut its delivery in two: the requeue after the hard cap
\* does not paste again while the pane of the first paste is bound.
PastedOnce ==
    [][task.pc = "paste" /\ task'.pc = "markPasted" =>
         trail.torn \/ trail.taken # "now"]_vars

\* A message held after an abnormal writer leaves the slot only when the user
\* replaces or cancels it; no drain, hook or recovery dispatches it.
HoldNeedsUser ==
    [][slot.reason = "hold" =>
         \/ slot'.reason = "hold" /\ slot'.state = "queued" /\ slot'.msg = slot.msg
         \/ GateReplace \/ CancelQueued \/ QueueMessage(TRUE)]_vars

\* A paste that stays unacknowledged past the hard cap does not stay pasted,
\* once the server stops crashing.
PasteResolves ==
    <>[][~ Crash]_vars =>
        (slot.state = "pasted" /\ slot.aged ~> slot.state # "pasted")

-----------------------------------------------------------------------------
(* What comments and tests of the code say, and the code does not do *)

\* A delivery that a crash cut in two is not pasted again once the user record
\* of the prompt is imported: the comment on reconcile rules out a blind
\* re-paste.  A record imported before mark_pasted binds nothing.
NoBlindRepaste ==
    [][trail.torn /\ trail.missed /\ ~ trail.inbox => ~ trail'.inbox]_vars

\* A drain does not dispatch a message after a writer of its session failed
\* or was killed: the message is held for the user.  drain_session looks for
\* the abnormal completion before it derives the lease, and not again.
NoDrainAfterAbnormal ==
    [][task.pc = "claimExec" /\ task.by # "gate" /\ task'.pc = "dispatch" => ~ slot.failed]_vars

\* A claim with this server's owner is a delivery that is still in flight in
\* this server, which is why reconcile leaves it alone.
OwnedClaimIsLive ==
    slot.state = "pasting" /\ "this" \in {slot.exec, slot.paste} =>
        task.pc \in {"paste", "markPasted", "unpaste", "dispatch", "consume", "failed"}

\* A delivered prompt is not delivered again to the same agent, unless a crash
\* or an interruption cut its delivery in two.  A launch recorded after the
\* paste counts as a pane that lost it.
PastedOncePerAgent ==
    [][task.pc = "paste" /\ task'.pc = "markPasted" =>
         trail.torn \/ trail.taken = "no"]_vars

=============================================================================
