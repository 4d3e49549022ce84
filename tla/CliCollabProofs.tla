---------------------------- MODULE CliCollabProofs ----------------------------
(***************************************************************************)
(* Safety of the message delivery of CliCollab, for any number of messages *)
(* and any number of crashes, launches and retries.                        *)
(*                                                                         *)
(* The inductive invariant ties the program counter of the lock holder to  *)
(* the slot (Program, Unclaimed, ClaimedMsg, ClaimNeverLost), the slot to  *)
(* the promise made to senders (AcceptedIsKept), and both to what happened *)
(* outside the database (RanOnce, TakenOnce).                              *)
(***************************************************************************)
EXTENDS CliCollab, TLAPS

\* Where the lock holder has a paste claim, and where it starts an executor.
Pasting == {"paste", "markPasted", "unpaste"}
Dispatching == {"dispatch", "consume", "failed"}

\* The columns that a row has in each state of the table.  A claim has no paste
\* time and at most one owner; only a queued row is on hold; an empty slot has no
\* history.
RowShape ==
    /\ slot.state = "none" => slot = NoRow /\ trail = NoTrail
    /\ slot.state # "none" => slot.id # 0 /\ slot.msg # 0
    /\ slot.state = "queued" => slot.exec = "none" /\ slot.paste = "none"
    /\ slot.state = "pasting" => ~ slot.pasted /\ (slot.exec = "none" \/ slot.paste = "none")
    /\ slot.state = "pasted" => slot.pasted /\ slot.exec = "none" /\ slot.paste = "none"
    /\ ~ slot.pasted => ~ slot.rebound
    /\ slot.reason = "hold" => slot.state = "queued"
    /\ ~ trail.bound

\* Which tasks there are at which place of the code.
Program ==
    /\ task.by # "gate" => task.pc # "idle" /\ task.id # 0
    /\ task.by = "gate" /\ task.pc # "idle" => task.msg \in Msgs
    /\ task.pc = "hold" => task.by # "gate"
    /\ task.pc = "replace" => task.by = "gate" /\ task.id = 0
    /\ task.pc = "store" => task.by = "gate" /\ task.id = 0
    /\ task.pc \in Pasting \cup {"claimPaste", "claimExec", "consume"} => task.id # 0

\* While the lock holder has not claimed the row, the row is queued, or an import
\* took it; it is not on hold, and a sender's row is the one the sender stored.
Unclaimed ==
    task.pc \notin Pasting \cup {"idle"} /\ (task.pc \in Dispatching => task.id = 0) =>
      /\ slot.state \in {"none", "queued"}
      /\ task.pc # "replace" => slot.reason # "hold"
      /\ task.by = "gate" /\ task.pc # "replace" =>
           IF task.id = 0 THEN slot.state = "none"
           ELSE /\ slot.state = "queued" /\ ~ slot.pasted
                /\ slot.id = task.id /\ slot.msg = task.msg

\* What a sender has claimed is the sender's message.
ClaimedMsg ==
    task.by = "gate" /\ task.id # 0 /\ task.pc \in Pasting \cup Dispatching => slot.msg = task.msg

\* An executor that ran with the message in the slot is about to be recorded,
\* unless the delivery was cut in two.
RanOnce == trail.ran => trail.torn \/ task.pc = "consume"

\* A message that the present agent took is still with that agent, and whoever
\* looks at it will see a paste under the agent's own binding.
TakenOnce ==
    trail.taken = "now" /\ ~ trail.torn =>
      /\ pane.runs = "agent"
      /\ \/ task.pc \in {"idle", "markPasted", "replace"}
         \/ task.pc \in {"hold", "lease"} /\ task.by # "gate" /\ task.unacked
      /\ task.pc # "markPasted" =>
           /\ slot.pasted /\ ~ slot.rebound
           /\ \/ slot.state = "pasted"
              \/ slot.state = "queued" /\ slot.reason \in {"unacked", "hold"}

\* The inductive invariant, without and with the types.
Safe ==
    /\ RowShape /\ Program /\ ClaimNeverLost /\ Unclaimed
    /\ ClaimedMsg /\ AcceptedIsKept /\ RanOnce /\ TakenOnce

IInv == TypeOK /\ Safe

-----------------------------------------------------------------------------
(* The statements of the slot map rows to rows *)

\* The types of a row's columns.
LEMMA RowFields ==
  ASSUME NEW row \in Rows
  PROVE  /\ row.id \in Nat /\ row.msg \in Nat /\ row.retry \in BOOLEAN
         /\ row.state \in States /\ row.reason \in Reasons
         /\ row.exec \in Owners /\ row.paste \in Owners
         /\ row.pasted \in BOOLEAN /\ row.aged \in BOOLEAN
         /\ row.failed \in BOOLEAN /\ row.rebound \in BOOLEAN
  BY DEF Rows

\* store_with_context leaves a row.
LEMMA StoreType ==
  ASSUME NEW row \in Rows, NEW msg \in Nat, NEW retry \in BOOLEAN, NEW replace
  PROVE  Store(row, msg, retry, replace) \in Rows
  <1>1. \A id \in Nat : Fresh(id, msg, retry) \in Rows
    BY Zenon DEF Fresh, NoRow, Rows, States, Reasons, Owners
  <1>2. row.id \in Nat
    BY RowFields
  <1> QED
    BY <1>1, <1>2 DEF Store

\* The claims and mark_pasted leave a row.
LEMMA ClaimType ==
  ASSUME NEW row \in Rows
  PROVE  ClaimForPaste(row) \in Rows /\ ClaimForExecutor(row) \in Rows /\ MarkPasted(row) \in Rows
  BY Zenon DEF ClaimForPaste, ClaimForExecutor, MarkPasted, Rows, States, Reasons, Owners

\* requeue leaves a row.
LEMMA RequeueType ==
  ASSUME NEW row \in Rows, NEW id, NEW reason \in Reasons
  PROVE  Requeue(row, id, reason) \in Rows
  <1>1. CASE row.id = id /\ InFlight(row)
    <2>1. /\ (row.state = "pasted") \in BOOLEAN
          /\ (row.aged /\ row.state = "pasted") \in BOOLEAN
          /\ (row.rebound /\ row.state = "pasted") \in BOOLEAN
      OBVIOUS
    <2>2. ASSUME NEW pasted \in BOOLEAN, NEW aged \in BOOLEAN, NEW rebound \in BOOLEAN
          PROVE  [row EXCEPT !.state = "queued", !.reason = reason, !.exec = "none", !.paste = "none",
                             !.pasted = pasted, !.aged = aged, !.rebound = rebound,
                             !.failed = FALSE] \in Rows
      BY Zenon DEF Rows, States, Owners
    <2> QED
      BY <1>1, <2>1, <2>2, Zenon DEF Requeue
  <1>2. CASE ~ (row.id = id /\ InFlight(row))
    BY <1>2 DEF Requeue
  <1> QED
    BY <1>1, <1>2

\* set_failure_reason leaves a row.
LEMMA SetFailureReasonType ==
  ASSUME NEW row \in Rows, NEW id, NEW reason \in Reasons
  PROVE  SetFailureReason(row, id, reason) \in Rows
  <1>1. CASE Claimable(row, id)
    BY <1>1, Zenon DEF SetFailureReason, Rows
  <1>2. CASE ~ Claimable(row, id)
    BY <1>2 DEF SetFailureReason
  <1> QED
    BY <1>1, <1>2

\* The recoveries of reconcile and the change of process leave a row.
LEMMA RecoverType ==
  ASSUME NEW row \in Rows
  PROVE  Recover(row) \in Rows /\ Unacknowledged(row) \in Rows /\ Orphaned(row) \in Rows
  <1>1. Recover(row) \in Rows
    <2> DEFINE reason == IF row.exec = "other" /\ row.failed THEN "hold"
                         ELSE IF row.pasted THEN "unacked" ELSE "retry"
               aged == row.aged /\ row.pasted
    <2>1. reason \in Reasons /\ aged \in BOOLEAN
      BY DEF Reasons
    <2>2. Recover(row) = [row EXCEPT !.state = "queued", !.exec = "none", !.paste = "none",
                                     !.failed = FALSE, !.aged = aged, !.reason = reason]
      BY DEF Recover
    <2> HIDE DEF reason, aged
    <2> QED
      BY <2>1, <2>2 DEF Rows, States, Owners
  <1>2. Unacknowledged(row) \in Rows
    BY Zenon DEF Unacknowledged, Rows, States, Reasons
  <1>3. Orphaned(row) \in Rows
    BY Zenon DEF Orphaned, Former, Rows, Owners
  <1> QED
    BY <1>1, <1>2, <1>3


-----------------------------------------------------------------------------
(* Type correctness *)

\* The empty values have their types.
LEMMA EmptyTypes == Idle \in Tasks /\ NoTrail \in Trails /\ NoLoop \in Loops /\ NoRow \in Rows
  BY DEF Idle, Tasks, NoTrail, Trails, NoLoop, Loops, NoRow, Rows, States, Reasons,
         Owners

\* The types of the fields of the task.
LEMMA TaskFields ==
  ASSUME TypeOK
  PROVE  /\ task.msg \in Nat /\ task.id \in Nat
         /\ task.retry \in BOOLEAN /\ task.unacked \in BOOLEAN
  BY DEF TypeOK, Tasks

\* The Boolean values that are computed from the state.
LEMMA BooleanTypes ==
  ASSUME NEW b
  PROVE  /\ (trail.rec /\ ~ b) \in BOOLEAN
         /\ (b \/ trail.rec) \in BOOLEAN
         /\ (trail.torn \/ CutShort) \in BOOLEAN
         /\ WasRequeuedFromPasted(slot) \in BOOLEAN
  BY DEF CutShort, WasRequeuedFromPasted

\* Accepting keeps the set of owed messages among the messages.
LEMMA SenderAccepted ==
  ASSUME TypeOK, Program, task.pc # "idle", Accept
  PROVE  task' \in Tasks /\ owed' \subseteq Msgs
  BY EmptyTypes DEF TypeOK, Program, Accept

\* The task that drain_session starts.
LEMMA DrainTaskType ==
  ASSUME TypeOK, NEW by \in {"loop", "hook"}
  PROVE  DrainTask(by) \in Tasks
  BY RowFields, BooleanTypes, ZenonT(30) DEF TypeOK, DrainTask, Idle, Tasks

\* Every step keeps the types.
LEMMA TypeStep == TypeOK /\ Program /\ [Next]_vars => TypeOK'
  <1> SUFFICES ASSUME TypeOK, Program, [Next]_vars PROVE TypeOK'
    OBVIOUS
  <1> USE CollabAssumption DEF TypeOK
  <1>1. ASSUME NEW retry \in BOOLEAN, NEW replace \in BOOLEAN, GateBegin(retry, replace) PROVE TypeOK'
    <2>1. sent' \in Nat /\ sent' \in 0..MaxMsgs /\ sent' \in Msgs
      BY <1>1 DEF GateBegin, Msgs
    <2>2. task' \in Tasks
      BY <1>1, <2>1, EmptyTypes, Zenon DEF GateBegin, Tasks, Idle
    <2> QED
      BY <1>1, <2>1, <2>2 DEF GateBegin
  <1>2. ASSUME GateReplace PROVE TypeOK'
    <2>1. slot' \in Rows /\ trail' \in Trails
      BY <1>2, TaskFields, StoreType, EmptyTypes, Zenon DEF GateReplace
    <2>2. task' \in Tasks
      BY <1>2, <2>1, RowFields, Zenon DEF GateReplace, Tasks
    <2> QED
      BY <1>2, <2>1, <2>2, Zenon DEF GateReplace
  <1>3. ASSUME NEW lease \in Leases, GateLease(lease) PROVE TypeOK'
    <2>1. task' \in Tasks
      BY <1>3 DEF GateLease, Goto, GateTarget, Tasks
    <2>2. pane' \in Panes
      BY <1>3, Zenon DEF GateLease, Probed, Panes
    <2> QED
      BY <1>3, <2>1, <2>2 DEF GateLease
  <1>4. ASSUME Enqueue PROVE TypeOK'
    <2>1. slot' \in Rows
      BY <1>4, TaskFields, StoreType, Zenon DEF Enqueue
    <2>2. task' \in Tasks /\ owed' \subseteq Msgs
      BY <1>4, SenderAccepted DEF Enqueue
    <2> QED
      BY <1>4, <2>1, <2>2, Zenon DEF Enqueue
  <1>5. ASSUME StoreForPaste PROVE TypeOK'
    <2>1. slot' \in Rows
      BY <1>5, TaskFields, StoreType, Zenon DEF StoreForPaste
    <2>2. task' \in Tasks
      BY <1>5, <2>1, RowFields, Zenon DEF StoreForPaste, Tasks
    <2> QED
      BY <1>5, <2>1, <2>2, Zenon DEF StoreForPaste
  <1>6. ASSUME NEW replace \in BOOLEAN, QueueMessage(replace) PROVE TypeOK'
    <2>1. sent' \in Nat /\ sent' \in 0..MaxMsgs /\ sent' \in Msgs
      BY <1>6 DEF QueueMessage, Msgs
    <2>2. slot' \in Rows
      BY <1>6, <2>1, StoreType, Zenon DEF QueueMessage
    <2>3. trail' \in Trails
      BY <1>6, EmptyTypes DEF QueueMessage
    <2>4. owed' \subseteq Msgs
      BY <1>6, <2>1, Zenon DEF QueueMessage
    <2> QED
      BY <1>6, <2>1, <2>2, <2>3, <2>4, Zenon DEF QueueMessage
  <1>7. ASSUME CancelQueued PROVE TypeOK'
    BY <1>7, EmptyTypes DEF Settle, CancelQueued
  <1>8. ASSUME ClaimPaste PROVE TypeOK'
    <2>1. slot' \in Rows
      BY <1>8, ClaimType DEF ClaimPaste
    <2>2. task' \in Tasks
      BY <1>8, EmptyTypes, RowFields, Zenon DEF ClaimPaste, Finish, Tasks
    <2> QED
      BY <1>8, <2>1, <2>2 DEF ClaimPaste
  <1>9. ASSUME Paste PROVE TypeOK'
    <2>1. task' \in Tasks
      BY <1>9 DEF Paste, Goto, Tasks
    <2>2. trail' \in Trails
      BY <1>9, Zenon DEF Paste, Delivered, Trails
    <2> QED
      BY <1>9, <2>1, <2>2 DEF Paste
  <1>10. ASSUME NEW slow \in BOOLEAN, MarkPastedStep(slow) PROVE TypeOK'
    <2>1. slot' \in Rows
      BY <1>10, ClaimType DEF MarkPastedStep
    <2>2. trail' \in Trails
      BY <1>10, BooleanTypes, Zenon DEF MarkPastedStep, Trails
    <2>3. task' \in Tasks /\ owed' \subseteq Msgs
      BY <1>10, SenderAccepted, EmptyTypes DEF MarkPastedStep, Finish
    <2> QED
      BY <1>10, <2>1, <2>2, <2>3 DEF MarkPastedStep
  <1>11. ASSUME RequeuePaste PROVE TypeOK'
    <2>1. slot' \in Rows
      BY <1>11, RequeueType DEF RequeuePaste, Reasons
    <2>2. task' \in Tasks /\ owed' \subseteq Msgs
      BY <1>11, SenderAccepted DEF RequeuePaste
    <2> QED
      BY <1>11, <2>1, <2>2 DEF RequeuePaste
  <1>12. ASSUME Reserve PROVE TypeOK'
    BY <1>12 DEF Reserve, Goto, Tasks
  <1>13. ASSUME NEW lease \in Leases, Recheck(lease) PROVE TypeOK'
    <2>1. task' \in Tasks
      BY <1>13 DEF Recheck, Goto, Tasks
    <2>2. pane' \in Panes
      BY <1>13, Zenon DEF Recheck, Probed, Panes
    <2> QED
      BY <1>13, <2>1, <2>2 DEF Recheck
  <1>14. ASSUME ClaimExec PROVE TypeOK'
    <2>1. slot' \in Rows
      BY <1>14, ClaimType DEF ClaimExec
    <2>2. task' \in Tasks
      BY <1>14, EmptyTypes DEF ClaimExec, Goto, Finish, Tasks
    <2> QED
      BY <1>14, <2>1, <2>2 DEF ClaimExec
  <1>15. ASSUME Dispatch PROVE TypeOK'
    <2>1. exec' \in {"none", "this", "other", "ghost"}
      BY <1>15 DEF Dispatch, ExecutorStarts, StartFails
    <2>2. slot' \in Rows
      BY <1>15, Zenon DEF Dispatch, StartFails, Rows
    <2>3. trail' \in Trails
      BY <1>15, Zenon DEF Dispatch, ExecutorStarts, StartFails, Trails
    <2>4. task' \in Tasks
      BY <1>15, EmptyTypes DEF Dispatch, Goto, Finish, Tasks
    <2> QED
      BY <1>15, <2>1, <2>2, <2>3, <2>4 DEF Dispatch
  <1>16. ASSUME Consume PROVE TypeOK'
    BY <1>16, EmptyTypes DEF Settle, Finish, Consume
  <1>17. ASSUME NEW reset \in BOOLEAN, DispatchFailed(reset) PROVE TypeOK'
    <2>1. slot' \in Rows
      BY <1>17, TaskFields, RequeueType, StoreType, SetFailureReasonType, Zenon DEF
         DispatchFailed, Reasons
    <2>2. task' \in Tasks /\ owed' \subseteq Msgs
      BY <1>17, SenderAccepted DEF DispatchFailed
    <2> QED
      BY <1>17, <2>1, <2>2, Zenon DEF DispatchFailed
  <1>18. ASSUME DrainHold PROVE TypeOK'
    <2>1. slot' \in Rows
      BY <1>18, SetFailureReasonType DEF DrainHold, Reasons
    <2>2. task' \in Tasks
      BY <1>18, EmptyTypes DEF DrainHold, Tasks
    <2> QED
      BY <1>18, <2>1, <2>2 DEF DrainHold
  <1>19. ASSUME NEW lease \in Leases, DrainLease(lease) PROVE TypeOK'
    <2>1. task' \in Tasks
      BY <1>19, EmptyTypes DEF DrainLease, Tasks
    <2>2. pane' \in Panes
      BY <1>19, Zenon DEF DrainLease, Probed, Panes
    <2> QED
      BY <1>19, <2>1, <2>2 DEF DrainLease
  <1>20. ASSUME HookAbnormal PROVE TypeOK'
    BY <1>20, SetFailureReasonType DEF HookAbnormal, Reasons
  <1>21. ASSUME NEW drain \in BOOLEAN, HookOk(drain) PROVE TypeOK'
    <2>1. pane' \in Panes
      BY <1>21, Zenon DEF HookOk, Panes
    <2>2. hooks' \subseteq {"ok", "drain", "abnormal"}
      BY <1>21 DEF HookOk
    <2> QED
      BY <1>21, <2>1, <2>2 DEF HookOk
  <1>22. ASSUME HookDrain PROVE TypeOK'
    BY <1>22, DrainTaskType DEF HookDrain
  <1>23. ASSUME LoopScan PROVE TypeOK'
    BY <1>23, RowFields DEF LoopScan, Loops
  <1>24. ASSUME NEW release \in BOOLEAN, ReconcilePanes(release) PROVE TypeOK'
    BY <1>24, Zenon DEF ReconcilePanes, Loops, Panes
  <1>25. ASSUME ReconcileImported PROVE TypeOK'
    <2>1. loop' \in Loops
      BY <1>25 DEF ReconcileImported, Loops
    <2>2. slot' \in Rows /\ trail' \in Trails /\ owed' \subseteq Msgs
      BY <1>25, EmptyTypes DEF ReconcileImported, Settle
    <2> QED
      BY <1>25, <2>1, <2>2 DEF ReconcileImported
  <1>26. ASSUME ReconcilePasting PROVE TypeOK'
    <2>1. loop' \in Loops
      BY <1>26 DEF ReconcilePasting, Loops
    <2>2. slot' \in Rows
      BY <1>26, RecoverType DEF ReconcilePasting
    <2> QED
      BY <1>26, <2>1, <2>2 DEF ReconcilePasting
  <1>27. ASSUME ReconcilePasted PROVE TypeOK'
    <2>1. loop' \in Loops
      BY <1>27 DEF ReconcilePasted, Loops
    <2>2. slot' \in Rows
      BY <1>27, RecoverType DEF ReconcilePasted
    <2> QED
      BY <1>27, <2>1, <2>2 DEF ReconcilePasted
  <1>28. ASSUME NEW probe \in BOOLEAN, ReconcileEvidence(probe) PROVE TypeOK'
    <2>1. loop' \in Loops
      BY <1>28, Zenon DEF ReconcileEvidence, Loops
    <2>2. slot' \in Rows
      BY <1>28, RequeueType DEF ReconcileEvidence, Reasons
    <2>3. pane' \in Panes
      BY <1>28, Zenon DEF ReconcileEvidence, Panes
    <2> QED
      BY <1>28, <2>1, <2>2, <2>3 DEF ReconcileEvidence
  <1>29. ASSUME LoopDrain PROVE TypeOK'
    <2>1. loop' \in Loops
      BY <1>29, EmptyTypes DEF LoopDrain
    <2>2. task' \in Tasks
      BY <1>29, DrainTaskType DEF LoopDrain
    <2> QED
      BY <1>29, <2>1, <2>2 DEF LoopDrain
  <1>30. ASSUME NEW ok \in BOOLEAN, RecordWritten(ok) PROVE TypeOK'
    BY <1>30, BooleanTypes, Zenon DEF RecordWritten, Trails
  <1>31. ASSUME Import PROVE TypeOK'
    <2>1. slot' \in Rows /\ owed' \subseteq Msgs
      BY <1>31, EmptyTypes DEF Import, Settle
    <2>2. trail' \in Trails
      BY <1>31, EmptyTypes, Zenon DEF Import, Settle, Trails
    <2> QED
      BY <1>31, <2>1, <2>2 DEF Import
  <1>32. ASSUME Age PROVE TypeOK'
    BY <1>32, Zenon DEF Age, Rows
  <1>33. ASSUME NEW status \in {"ok", "abnormal"}, ExecutorExits(status) PROVE TypeOK'
    BY <1>33, Zenon DEF ExecutorExits, Completed, Rows
  <1>34. ASSUME CleanupOrphan PROVE TypeOK'
    BY <1>34, Zenon DEF CleanupOrphan, Completed, Rows
  <1>35. ASSUME NEW runs \in {"shell", "agent"}, PaneLaunched(runs) PROVE TypeOK'
    BY <1>35, Zenon DEF PaneLaunched, Panes
  <1>36. ASSUME LaunchRegistered PROVE TypeOK'
    <2>1. pane' \in Panes
      BY <1>36, Zenon DEF LaunchRegistered, Panes
    <2>2. slot' \in Rows
      BY <1>36, RowFields DEF LaunchRegistered, Rows
    <2>3. trail' \in Trails
      BY <1>36 DEF LaunchRegistered, Trails
    <2> QED
      BY <1>36, <2>1, <2>2, <2>3 DEF LaunchRegistered
  <1>37. ASSUME NEW bound \in BOOLEAN, LaunchFails(bound) PROVE TypeOK'
    <2>1. pane' \in Panes
      BY <1>37 DEF LaunchFails, Panes
    <2>2. trail' \in Trails
      BY <1>37, Zenon DEF LaunchFails, Trails
    <2> QED
      BY <1>37, <2>1, <2>2 DEF LaunchFails
  <1>38. ASSUME AgentStarts PROVE TypeOK'
    BY <1>38 DEF AgentStarts, Panes
  <1>39. ASSUME NEW runs \in {"none", "shell"}, AgentEnds(runs) PROVE TypeOK'
    <2>1. pane' \in Panes
      BY <1>39 DEF AgentEnds, Panes
    <2>2. trail' \in Trails
      BY <1>39, Zenon DEF AgentEnds, Trails
    <2> QED
      BY <1>39, <2>1, <2>2 DEF AgentEnds
  <1>40. ASSUME Crash PROVE TypeOK'
    <2>1. slot' \in Rows
      BY <1>40, RecoverType DEF Crash
    <2>2. pane' \in Panes
      BY <1>40, Zenon DEF Crash, Panes
    <2>3. trail' \in Trails
      BY <1>40, BooleanTypes, Zenon DEF Crash, Torn, Trails
    <2>4. task' \in Tasks /\ loop' \in Loops
      BY <1>40, EmptyTypes DEF Crash
    <2> QED
      BY <1>40, <2>1, <2>2, <2>3, <2>4 DEF Crash
  <1>41. ASSUME Interrupted PROVE TypeOK'
    <2>1. trail' \in Trails
      BY <1>41, BooleanTypes, Zenon DEF Interrupted, Torn, Trails
    <2>2. task' \in Tasks
      BY <1>41, EmptyTypes DEF Interrupted, Finish
    <2> QED
      BY <1>41, <2>1, <2>2 DEF Interrupted
  <1>42. CASE UNCHANGED vars
    BY <1>42 DEF vars
  <1> QED
    BY <1>1, <1>2, <1>3, <1>4, <1>5, <1>6, <1>7, <1>8, <1>9, <1>10, <1>11, <1>12,
       <1>13, <1>14, <1>15, <1>16, <1>17, <1>18, <1>19, <1>20, <1>21, <1>22, <1>23,
       <1>24, <1>25, <1>26, <1>27, <1>28, <1>29, <1>30, <1>31, <1>32, <1>33, <1>34,
       <1>35, <1>36, <1>37, <1>38, <1>39, <1>40, <1>41, <1>42
       DEF Next, UserStep, TaskStep, LoopStep, HookStep, EnvironmentStep

-----------------------------------------------------------------------------
(* What the statements do to the columns that the invariant is about *)

\* A claim keeps the message and has one owner, this process.
LEMMA ClaimedRow ==
  ASSUME NEW row \in Rows
  PROVE  /\ ClaimForPaste(row).id = row.id /\ ClaimForPaste(row).msg = row.msg
         /\ ClaimForPaste(row).state = "pasting" /\ ClaimForPaste(row).reason = "none"
         /\ ClaimForPaste(row).exec = "none" /\ ClaimForPaste(row).paste = "this"
         /\ ~ ClaimForPaste(row).pasted /\ ~ ClaimForPaste(row).rebound
         /\ ClaimForExecutor(row).id = row.id /\ ClaimForExecutor(row).msg = row.msg
         /\ ClaimForExecutor(row).state = "pasting" /\ ClaimForExecutor(row).reason = "none"
         /\ ClaimForExecutor(row).exec = "this" /\ ClaimForExecutor(row).paste = "none"
         /\ ~ ClaimForExecutor(row).pasted /\ ~ ClaimForExecutor(row).rebound
  BY DEF ClaimForPaste, ClaimForExecutor, Rows

\* mark_pasted keeps the message and gives up the claim.
LEMMA PastedRow ==
  ASSUME NEW row \in Rows
  PROVE  /\ MarkPasted(row).id = row.id /\ MarkPasted(row).msg = row.msg
         /\ MarkPasted(row).state = "pasted" /\ MarkPasted(row).reason = row.reason
         /\ MarkPasted(row).exec = row.exec /\ MarkPasted(row).paste = "none"
         /\ MarkPasted(row).pasted /\ MarkPasted(row).rebound = row.rebound
  BY DEF MarkPasted, Rows

\* requeue keeps the message, and the paste evidence of a pasted row only.
LEMMA RequeuedRow ==
  ASSUME NEW row \in Rows, NEW reason, InFlight(row)
  PROVE  LET new == Requeue(row, row.id, reason)
         IN  /\ new.id = row.id /\ new.msg = row.msg
             /\ new.state = "queued" /\ new.reason = reason
             /\ new.exec = "none" /\ new.paste = "none"
             /\ new.pasted <=> row.state = "pasted"
             /\ new.rebound <=> row.rebound /\ row.state = "pasted"
  BY Zenon DEF Requeue, Rows

\* reconcile's recoveries keep the message and the paste evidence.
LEMMA RecoveredRow ==
  ASSUME NEW row \in Rows
  PROVE  /\ Recover(row).id = row.id /\ Recover(row).msg = row.msg
         /\ Recover(row).state = "queued"
         /\ Recover(row).exec = "none" /\ Recover(row).paste = "none"
         /\ Recover(row).pasted = row.pasted /\ Recover(row).rebound = row.rebound
         /\ Unacknowledged(row).id = row.id /\ Unacknowledged(row).msg = row.msg
         /\ Unacknowledged(row).state = "queued" /\ Unacknowledged(row).reason = "unacked"
         /\ Unacknowledged(row).exec = row.exec /\ Unacknowledged(row).paste = row.paste
         /\ Unacknowledged(row).pasted = row.pasted
         /\ Unacknowledged(row).rebound = row.rebound
  BY DEF Recover, Unacknowledged, Rows

\* A restart changes the owner of a claim and nothing else.
LEMMA OrphanedRow ==
  ASSUME NEW row \in Rows
  PROVE  /\ Orphaned(row).id = row.id /\ Orphaned(row).msg = row.msg
         /\ Orphaned(row).state = row.state /\ Orphaned(row).reason = row.reason
         /\ Orphaned(row).pasted = row.pasted /\ Orphaned(row).rebound = row.rebound
         /\ Orphaned(row).exec = "none" <=> row.exec = "none"
         /\ Orphaned(row).paste = "none" <=> row.paste = "none"
  BY DEF Orphaned, Former, Rows, Owners

\* What leaves the row and the trail of an empty slot as they are.
LEMMA EmptySlot ==
  /\ [NoTrail EXCEPT !.inbox = FALSE, !.taken = "no"] = NoTrail
  /\ [NoTrail EXCEPT !.taken = IF @ = "no" THEN "no" ELSE "earlier"] = NoTrail
  /\ ~ CutShort => Torn(NoTrail) = NoTrail
  /\ Orphaned(NoRow) = NoRow
  /\ [NoRow EXCEPT !.rebound = NoRow.pasted] = NoRow
  <1>1. NoTrail.inbox = FALSE /\ NoTrail.taken = "no" /\ NoTrail.torn = FALSE
    BY DEF NoTrail
  <1>2. NoRow.pasted = NoRow.rebound
    BY DEF NoRow
  <1>3. ASSUME NEW t \in Trails, t.inbox = FALSE, t.taken = "no"
        PROVE  [t EXCEPT !.inbox = FALSE, !.taken = "no"] = t
    BY <1>3, Zenon DEF Trails
  <1>4. ASSUME NEW t \in Trails PROVE [t EXCEPT !.torn = t.torn] = t
    BY <1>4 DEF Trails
  <1>5. ASSUME ~ CutShort PROVE Torn(NoTrail) = NoTrail
    <2>1. (NoTrail.torn \/ CutShort) = NoTrail.torn
      BY <1>1, <1>5, Zenon
    <2> QED
      BY <1>4, <2>1, EmptyTypes DEF Torn
  <1>6. [NoTrail EXCEPT !.taken = IF @ = "no" THEN "no" ELSE "earlier"] = NoTrail
    BY DEF NoTrail
  <1>7. Orphaned(NoRow) = NoRow
    BY Zenon DEF Orphaned, Former, NoRow
  <1>8. ASSUME NEW r \in Rows PROVE [r EXCEPT !.rebound = r.rebound] = r
    BY <1>8 DEF Rows
  <1> QED
    BY <1>1, <1>2, <1>3, <1>5, <1>6, <1>7, <1>8, EmptyTypes, Zenon

\* claim_for_paste takes a queued row for this process, or the task ends.
LEMMA SafeClaimPaste ==
  ASSUME IInv, ClaimPaste
  PROVE  Safe'
  <1> USE DEF IInv, TypeOK, Safe, Program, Unclaimed, Pasting, Dispatching, Rows, Tasks
  <1>1. CASE Claimable(slot, task.id)
    <2>1. /\ slot' = ClaimForPaste(slot) /\ slot.state = "queued" /\ slot.id = task.id
          /\ task.pc = "claimPaste" /\ task' = [task EXCEPT !.pc = "paste", !.msg = slot.msg]
          /\ UNCHANGED <<pane, trail, owed>>
      BY <1>1 DEF ClaimPaste, Claimable
    <2>2. /\ task'.pc = "paste" /\ task'.by = task.by /\ task'.id = task.id
          /\ task'.msg = slot.msg
      BY <2>1
    <2>3. RowShape'
      BY <2>1, ClaimedRow DEF RowShape
    <2>4. Program' /\ Unclaimed'
      BY <2>1, <2>2
    <2>5. ClaimNeverLost' /\ ClaimedMsg'
      BY <2>1, <2>2, ClaimedRow DEF ClaimNeverLost, ClaimedMsg, PasteClaimed
    <2>6. AcceptedIsKept' /\ RanOnce' /\ TakenOnce'
      BY <2>1, <2>2, ClaimedRow DEF AcceptedIsKept, RanOnce, TakenOnce
    <2> QED
      BY <2>3, <2>4, <2>5, <2>6
  <1>2. CASE ~ Claimable(slot, task.id)
    BY <1>2 DEF ClaimPaste, Finish, Idle, RowShape, ClaimNeverLost, ClaimedMsg,
                AcceptedIsKept, RanOnce, TakenOnce
  <1> QED
    BY <1>1, <1>2

\* claim_for_executor takes a queued row for this process, or the task ends.
LEMMA SafeClaimExec ==
  ASSUME IInv, ClaimExec
  PROVE  Safe'
  <1>1. RowShape'
    BY ClaimedRow DEF IInv, TypeOK, Safe, ClaimExec, Claimable, RowShape
  <1>2. Program' /\ ClaimNeverLost' /\ Unclaimed' /\ ClaimedMsg'
    BY ClaimedRow DEF IInv, TypeOK, Safe, ClaimExec, Claimable, Goto, Finish, Idle,
                      ClaimNeverLost, Unclaimed, ClaimedMsg, Program, Pasting,
                      Dispatching, Tasks, ExecutorClaimed
  <1>3. AcceptedIsKept'
    BY ClaimedRow DEF IInv, TypeOK, Safe, ClaimExec, AcceptedIsKept
  <1>4. RanOnce' /\ TakenOnce'
    BY ClaimedRow DEF IInv, Safe, ClaimExec, RanOnce, TakenOnce
  <1> QED
    BY <1>1, <1>2, <1>3, <1>4 DEF Safe

\* queue_or_status stores the prompt of a sender whose slot is still empty.
LEMMA SafeEnqueue ==
  ASSUME IInv, Enqueue
  PROVE  Safe'
  <1>1. CASE task.id = 0
    <2>1. task.by = "gate" /\ slot.state = "none" /\ task.msg # 0 /\ task.msg \in Nat
      BY <1>1 DEF IInv, Safe, Program, Unclaimed, Enqueue, Msgs
    <2>2. slot' = Fresh(task.msg, task.msg, task.retry)
      BY <1>1, <2>1 DEF Enqueue, Store, Conflicts
    <2>3. /\ slot'.id # 0 /\ slot'.msg = task.msg /\ slot'.state = "queued" /\ slot'.reason = "none"
          /\ slot'.exec = "none" /\ slot'.paste = "none" /\ ~ slot'.pasted /\ ~ slot'.rebound
      BY <2>1, <2>2 DEF Fresh, NoRow
    <2>4. RowShape'
      BY <2>1, <2>3, Zenon DEF IInv, Safe, RowShape, Enqueue
    <2>5. AcceptedIsKept'
      <3>1. owed = {}
        BY <2>1 DEF IInv, TypeOK, Safe, RowShape, AcceptedIsKept, NoRow, Msgs
      <3> QED
        BY <2>1, <2>3, <3>1, Zenon DEF AcceptedIsKept, Enqueue, Accept
    <2> QED
      BY <2>1, <2>3, <2>4, <2>5, Zenon DEF IInv, TypeOK, Safe, Program, ClaimNeverLost,
                                    ClaimedMsg, Unclaimed, RanOnce, TakenOnce, RowShape,
                                    NoTrail, Enqueue, Accept, Idle, Pasting, Dispatching
  <1>2. CASE task.id # 0
    BY <1>2 DEF IInv, Safe, Program, ClaimNeverLost, ClaimedMsg, Unclaimed,
                AcceptedIsKept, RanOnce, TakenOnce, RowShape, Enqueue, Accept, Idle,
                Pasting
  <1> QED
    BY <1>1, <1>2

\* The keystrokes are sent under the paste claim.
LEMMA SafePaste ==
  ASSUME IInv, Paste
  PROVE  Safe'
  <1>1. RowShape'
    BY Zenon DEF IInv, TypeOK, Safe, Paste, Delivered, Goto, RowShape, NoRow, NoTrail, Rows,
           Trails, Unclaimed, ClaimNeverLost, PasteClaimed, ExecutorClaimed, Pasting,
           Dispatching, Program
  <1>2. Program' /\ ClaimNeverLost' /\ Unclaimed' /\ ClaimedMsg'
    BY DEF IInv, TypeOK, Safe, Paste, Goto, ClaimNeverLost, Unclaimed, ClaimedMsg,
           Program, Pasting, Tasks
  <1>3. AcceptedIsKept'
    BY DEF IInv, Safe, Paste, AcceptedIsKept
  <1>4. RanOnce' /\ TakenOnce'
    <2>1. RanOnce /\ TakenOnce /\ task.pc = "paste" /\ UNCHANGED <<slot, pane>>
      BY DEF IInv, Safe, Paste
    <2>2. trail \in Trails /\ task \in Tasks
      BY DEF IInv, TypeOK
    <2>3. CASE Delivered /\ Goto("markPasted")
      <3>1. /\ pane.runs = "agent" /\ task'.pc = "markPasted"
            /\ trail'.ran = trail.ran /\ trail'.torn = trail.torn
        BY <2>2, <2>3 DEF Delivered, Goto, Trails, Tasks
      <3> QED
        BY <2>1, <3>1 DEF RanOnce, TakenOnce
    <2>4. CASE UNCHANGED trail /\ Goto("unpaste")
      BY <2>1, <2>2, <2>4 DEF RanOnce, TakenOnce
    <2> QED
      BY <2>3, <2>4 DEF Paste
  <1> QED
    BY <1>1, <1>2, <1>3, <1>4 DEF Safe

\* mark_pasted finds the claim, and the paste is under the latest binding.
LEMMA SafeMarkPasted ==
  ASSUME IInv, NEW slow \in BOOLEAN, MarkPastedStep(slow)
  PROVE  Safe'
  <1>1. RowShape'
    BY PastedRow DEF IInv, TypeOK, Safe, MarkPastedStep, RowShape, Trails, PasteClaimed
  <1>2. Program' /\ ClaimNeverLost' /\ Unclaimed' /\ ClaimedMsg'
    BY PastedRow DEF MarkPastedStep, Accept, Finish, Idle, ClaimNeverLost, Unclaimed,
                     ClaimedMsg, Program, Pasting
  <1>3. AcceptedIsKept'
    BY PastedRow DEF IInv, TypeOK, Safe, MarkPastedStep, Accept, AcceptedIsKept,
                     ClaimedMsg, Program, Pasting
  <1>4. RanOnce' /\ TakenOnce'
    BY PastedRow DEF IInv, TypeOK, Safe, MarkPastedStep, Accept, Idle, RanOnce,
                     TakenOnce, RowShape, ClaimNeverLost, Trails, PasteClaimed
  <1> QED
    BY <1>1, <1>2, <1>3, <1>4 DEF Safe

\* mark_consumed finds the claim, and the message leaves the slot.
LEMMA SafeConsume ==
  ASSUME IInv, Consume
  PROVE  Safe'
  <1>1. RowShape'
    BY DEF IInv, Safe, Consume, Settle, RowShape, NoRow, NoTrail
  <1>2. Program' /\ ClaimNeverLost' /\ Unclaimed' /\ ClaimedMsg'
    BY DEF Consume, Finish, Idle, ClaimNeverLost, Unclaimed, ClaimedMsg, Program,
           Pasting
  <1>3. AcceptedIsKept'
    BY Zenon DEF IInv, TypeOK, Safe, Consume, Settle, Finish, Idle, AcceptedIsKept, RowShape,
           Msgs, ClaimNeverLost, Unclaimed, ClaimedMsg, Program, Pasting, Dispatching,
           Rows, Tasks, NoRow, PasteClaimed, ExecutorClaimed
  <1>4. RanOnce' /\ TakenOnce'
    BY DEF IInv, Safe, Consume, Settle, RanOnce, TakenOnce, ClaimNeverLost, NoTrail,
           Program
  <1> QED
    BY <1>1, <1>2, <1>3, <1>4 DEF Safe

\* A request starts over an empty slot or over a queued message to replace.
LEMMA SafeGateBegin ==
  ASSUME IInv, NEW retry \in BOOLEAN, NEW replace \in BOOLEAN, GateBegin(retry, replace)
  PROVE  Safe'
  <1>1. RowShape'
    BY DEF IInv, Safe, GateBegin, RowShape
  <1>2. Program' /\ ClaimNeverLost' /\ Unclaimed' /\ ClaimedMsg'
    <2>1. sent' \in Msgs
      BY CollabAssumption DEF IInv, TypeOK, GateBegin, Msgs
    <2> QED
      BY <2>1 DEF IInv, Safe, GateBegin, Conflicts, Idle, RowShape, Program,
                  ClaimNeverLost, Unclaimed, ClaimedMsg, Pasting
  <1>3. AcceptedIsKept'
    BY DEF IInv, Safe, GateBegin, AcceptedIsKept
  <1>4. RanOnce' /\ TakenOnce'
    BY DEF IInv, Safe, GateBegin, LockFree, Idle, RanOnce, TakenOnce
  <1> QED
    BY <1>1, <1>2, <1>3, <1>4 DEF Safe

\* reconcile recovers only claims that no task of this process works on.
LEMMA SafeReconcilePasting ==
  ASSUME IInv, ReconcilePasting
  PROVE  Safe'
  <1>1. RowShape'
    BY RecoveredRow, ZenonT(30) DEF IInv, TypeOK, Safe, ReconcilePasting, Abandoned, RowShape,
                        NoRow, NoTrail, Rows, Trails, Unclaimed, ClaimNeverLost,
                        PasteClaimed, ExecutorClaimed, Pasting, Dispatching, Program
  <1>2. Program' /\ ClaimNeverLost' /\ Unclaimed' /\ ClaimedMsg'
    BY RecoveredRow DEF IInv, TypeOK, Safe, ReconcilePasting, Abandoned, RowShape,
                        ClaimNeverLost, Unclaimed, ClaimedMsg, Program, PasteClaimed,
                        ExecutorClaimed
  <1>3. AcceptedIsKept'
    BY RecoveredRow DEF IInv, TypeOK, Safe, ReconcilePasting, AcceptedIsKept
  <1>4. RanOnce' /\ TakenOnce'
    BY RecoveredRow DEF IInv, Safe, ReconcilePasting, Abandoned, RanOnce, TakenOnce
  <1> QED
    BY <1>1, <1>2, <1>3, <1>4 DEF Safe

\* reconcile gives a paste past the hard cap back with its evidence.
LEMMA SafeReconcilePasted ==
  ASSUME IInv, ReconcilePasted
  PROVE  Safe'
  <1>1. RowShape'
    <2>1. RowShape /\ slot \in Rows /\ UNCHANGED trail
      BY DEF IInv, TypeOK, Safe, ReconcilePasted
    <2>2. CASE UNCHANGED slot
      BY <2>1, <2>2 DEF RowShape
    <2>3. CASE Expired(slot) /\ slot' = Unacknowledged(slot)
      BY <2>1, <2>3, RecoveredRow DEF RowShape, Expired
    <2> QED
      BY <2>2, <2>3 DEF ReconcilePasted
  <1>2. Program' /\ ClaimNeverLost' /\ Unclaimed' /\ ClaimedMsg'
    BY RecoveredRow DEF IInv, TypeOK, Safe, ReconcilePasted, Expired, ClaimNeverLost,
                        Unclaimed, ClaimedMsg, Program, PasteClaimed, ExecutorClaimed
  <1>3. AcceptedIsKept'
    BY RecoveredRow DEF IInv, TypeOK, Safe, ReconcilePasted, AcceptedIsKept
  <1>4. RanOnce' /\ TakenOnce'
    BY RecoveredRow DEF IInv, TypeOK, Safe, ReconcilePasted, RanOnce, TakenOnce
  <1> QED
    BY <1>1, <1>2, <1>3, <1>4 DEF Safe

\* A paste that lost its evidence goes back to the queue.
LEMMA SafeReconcileEvidence ==
  ASSUME IInv, NEW probe \in BOOLEAN, ReconcileEvidence(probe)
  PROVE  Safe'
  <1>1. RowShape'
    BY RequeuedRow DEF IInv, TypeOK, Safe, ReconcileEvidence, InFlight, RowShape
  <1>2. Program' /\ ClaimNeverLost' /\ Unclaimed' /\ ClaimedMsg'
    BY RequeuedRow DEF IInv, TypeOK, Safe, ReconcileEvidence, LockFree, InFlight,
                       ClaimNeverLost, Unclaimed, ClaimedMsg, Program
  <1>3. AcceptedIsKept'
    BY RequeuedRow DEF IInv, TypeOK, Safe, ReconcileEvidence, InFlight, AcceptedIsKept
  <1>4. RanOnce' /\ TakenOnce'
    BY RequeuedRow DEF IInv, TypeOK, Safe, ReconcileEvidence, InFlight, RanOnce,
                       TakenOnce
  <1> QED
    BY <1>1, <1>2, <1>3, <1>4 DEF Safe

\* An acknowledgement cannot meet a claim, which has no paste time.
LEMMA SafeImport ==
  ASSUME IInv, Import
  PROVE  Safe'
  <1>1. CASE Acks
    <2>1. /\ slot.pasted /\ slot.state # "pasting"
          /\ slot' = NoRow /\ trail' = NoTrail /\ owed' = owed \ {slot.msg}
          /\ UNCHANGED <<task, pane>>
      BY <1>1 DEF Import, Settle, Acks, IInv, Safe, RowShape
    <2>2. task.pc \notin Pasting /\ (task.pc \in Dispatching => task.id = 0)
      BY <2>1 DEF IInv, Safe, ClaimNeverLost, Pasting, Dispatching, PasteClaimed,
                  ExecutorClaimed
    <2>3. RowShape' /\ RanOnce' /\ TakenOnce'
      BY <2>1 DEF RowShape, RanOnce, TakenOnce, NoRow, NoTrail
    <2>4. Program' /\ ClaimNeverLost' /\ ClaimedMsg' /\ Unclaimed'
      BY <2>1, <2>2 DEF IInv, Safe, Program, ClaimNeverLost, ClaimedMsg, Unclaimed,
                        NoRow, Pasting, Dispatching
    <2>5. AcceptedIsKept'
      BY <2>1 DEF IInv, Safe, AcceptedIsKept
    <2> QED
      BY <2>3, <2>4, <2>5 DEF Safe
  <1>2. CASE ~ Acks
    <2>1. /\ trail' = [trail EXCEPT !.rec = FALSE, !.missed = TRUE] /\ trail.rec
          /\ UNCHANGED <<slot, task, pane, owed>>
      BY <1>2 DEF Import
    <2>2. RowShape'
      BY <2>1 DEF IInv, Safe, RowShape, NoTrail
    <2>3. RanOnce' /\ TakenOnce'
      BY <2>1 DEF IInv, Safe, RanOnce, TakenOnce
    <2> QED
      BY <2>1, <2>2, <2>3 DEF IInv, Safe, Program, ClaimNeverLost, ClaimedMsg,
                              Unclaimed, AcceptedIsKept
  <1> QED
    BY <1>1, <1>2

\* A completion changes nothing that the invariant looks at.
LEMMA SafeExecutorExits ==
  ASSUME IInv, NEW status \in {"ok", "abnormal"}, Completed(status)
  PROVE  Safe'
  <1>1. RowShape'
    BY Zenon DEF IInv, TypeOK, Safe, Completed, RowShape, NoRow, NoTrail, Rows, Trails,
           Unclaimed, ClaimNeverLost, PasteClaimed, ExecutorClaimed, Pasting,
           Dispatching, Program
  <1>2. Program' /\ ClaimNeverLost' /\ Unclaimed' /\ ClaimedMsg'
    BY DEF IInv, Safe, Completed, ClaimNeverLost, Unclaimed, ClaimedMsg, Program,
           PasteClaimed, ExecutorClaimed
  <1>3. AcceptedIsKept'
    BY DEF IInv, Safe, Completed, AcceptedIsKept
  <1>4. RanOnce' /\ TakenOnce'
    BY DEF IInv, Safe, Completed, RanOnce, TakenOnce
  <1> QED
    BY <1>1, <1>2, <1>3, <1>4 DEF Safe

\* A new binding makes every paste one under an earlier binding.
LEMMA SafeLaunchRegistered ==
  ASSUME IInv, LaunchRegistered
  PROVE  Safe'
  <1>1. RowShape'
    BY EmptySlot, ZenonT(30) DEF IInv, TypeOK, Safe, LaunchRegistered, RowShape, NoRow, NoTrail,
                     Rows, Trails, Unclaimed, ClaimNeverLost, PasteClaimed,
                     ExecutorClaimed, Pasting, Dispatching, Program
  <1>2. Program' /\ ClaimNeverLost' /\ Unclaimed' /\ ClaimedMsg'
    BY EmptySlot DEF IInv, Safe, LaunchRegistered, ClaimNeverLost, Unclaimed,
                     ClaimedMsg, Program, PasteClaimed, ExecutorClaimed
  <1>3. AcceptedIsKept'
    BY EmptySlot DEF IInv, Safe, LaunchRegistered, AcceptedIsKept
  <1>4. RanOnce' /\ TakenOnce'
    BY EmptySlot DEF IInv, Safe, LaunchRegistered, RanOnce, TakenOnce
  <1> QED
    BY <1>1, <1>2, <1>3, <1>4 DEF Safe

\* A pane that is killed takes the agent's input with it.
LEMMA SafeLaunchFails ==
  ASSUME IInv, NEW bound \in BOOLEAN, LaunchFails(bound)
  PROVE  Safe'
  <1>1. RowShape'
    BY EmptySlot, Zenon DEF IInv, TypeOK, Safe, LaunchFails, RowShape, NoRow, NoTrail, Rows,
                     Trails, Unclaimed, ClaimNeverLost, PasteClaimed, ExecutorClaimed,
                     Pasting, Dispatching, Program
  <1>2. Program' /\ ClaimNeverLost' /\ Unclaimed' /\ ClaimedMsg'
    BY EmptySlot DEF IInv, Safe, LaunchFails, ClaimNeverLost, Unclaimed, ClaimedMsg,
                     Program
  <1>3. AcceptedIsKept'
    BY EmptySlot DEF IInv, Safe, LaunchFails, AcceptedIsKept
  <1>4. RanOnce' /\ TakenOnce'
    BY EmptySlot DEF IInv, Safe, LaunchFails, RanOnce, TakenOnce
  <1> QED
    BY <1>1, <1>2, <1>3, <1>4 DEF Safe

\* An agent that ends takes its input with it.
LEMMA SafeAgentEnds ==
  ASSUME IInv, NEW runs \in {"none", "shell"}, AgentEnds(runs)
  PROVE  Safe'
  <1>1. RowShape'
    BY EmptySlot, Zenon DEF IInv, TypeOK, Safe, AgentEnds, RowShape, NoRow, NoTrail, Rows,
                     Trails, Unclaimed, ClaimNeverLost, PasteClaimed, ExecutorClaimed,
                     Pasting, Dispatching, Program
  <1>2. Program' /\ ClaimNeverLost' /\ Unclaimed' /\ ClaimedMsg'
    BY EmptySlot DEF IInv, Safe, AgentEnds, ClaimNeverLost, Unclaimed, ClaimedMsg,
                     Program
  <1>3. AcceptedIsKept'
    BY EmptySlot DEF IInv, Safe, AgentEnds, AcceptedIsKept
  <1>4. RanOnce' /\ TakenOnce'
    BY EmptySlot DEF IInv, Safe, AgentEnds, RanOnce, TakenOnce
  <1> QED
    BY <1>1, <1>2, <1>3, <1>4 DEF Safe

\* A crash in the middle of a delivery tears it; elsewhere it changes no fact.
LEMMA SafeCrash ==
  ASSUME IInv, Crash
  PROVE  Safe'
  <1>1. RowShape'
    <2>1. slot.state = "none" => ~ CutShort
      BY DEF IInv, Safe, ClaimNeverLost, PasteClaimed, ExecutorClaimed, CutShort
    <2>2. slot.state = "none" => slot' = NoRow /\ trail' = NoTrail
      BY <2>1, EmptySlot DEF IInv, Safe, RowShape, Crash
    <2>3. trail'.bound = trail.bound
      BY DEF Crash, Torn
    <2> QED
      BY <2>2, <2>3, OrphanedRow DEF IInv, TypeOK, Safe, RowShape, Crash
  <1>2. Program' /\ ClaimNeverLost' /\ Unclaimed' /\ ClaimedMsg'
    BY OrphanedRow, EmptySlot DEF Crash, Idle, ClaimNeverLost, Unclaimed, ClaimedMsg,
                                  Program, Pasting
  <1>3. AcceptedIsKept'
    BY OrphanedRow, EmptySlot DEF IInv, TypeOK, Safe, Crash, AcceptedIsKept
  <1>4. RanOnce' /\ TakenOnce'
    <2>1. slot'.state = slot.state /\ slot'.pasted = slot.pasted /\ slot'.rebound = slot.rebound
          /\ slot'.reason = slot.reason
      BY OrphanedRow DEF IInv, TypeOK, Crash
    <2>2. /\ trail'.ran = trail.ran /\ trail'.taken = trail.taken
          /\ trail'.torn <=> trail.torn \/ CutShort
      BY Zenon DEF IInv, TypeOK, Crash, Torn, Trails
    <2>3. pane'.runs = pane.runs /\ task'.pc = "idle"
      BY DEF Crash, Idle
    <2>4. task.pc \in {"consume", "markPasted"} => CutShort
      BY DEF IInv, Safe, Program, Pasting, CutShort
    <2> QED
      BY <2>1, <2>2, <2>3, <2>4 DEF IInv, Safe, RanOnce, TakenOnce
  <1> QED
    BY <1>1, <1>2, <1>3, <1>4 DEF Safe

\* An interruption in the middle of a delivery tears it.
LEMMA SafeInterrupted ==
  ASSUME IInv, Interrupted
  PROVE  Safe'
  <1>1. RowShape'
    BY EmptySlot, Zenon DEF IInv, TypeOK, Safe, Interrupted, LockFree, Finish, Idle, RowShape,
                     NoRow, NoTrail, Rows, Trails, Unclaimed, ClaimNeverLost,
                     PasteClaimed, ExecutorClaimed, Pasting, Dispatching, Program, Torn,
                     CutShort
  <1>2. Program' /\ ClaimNeverLost' /\ Unclaimed' /\ ClaimedMsg'
    BY EmptySlot DEF Interrupted, Finish, Idle, ClaimNeverLost, Unclaimed, ClaimedMsg,
                     Program, Pasting
  <1>3. AcceptedIsKept'
    BY EmptySlot DEF IInv, Safe, Interrupted, AcceptedIsKept
  <1>4. RanOnce' /\ TakenOnce'
    BY EmptySlot, ZenonT(30) DEF IInv, TypeOK, Safe, Interrupted, LockFree, Finish, Idle, RanOnce,
                     TakenOnce, RowShape, ClaimNeverLost, Unclaimed, NoTrail, Trails,
                     Panes, Program, Pasting, Dispatching, Rows, Tasks, NoRow,
                     PasteClaimed, ExecutorClaimed, Torn, CutShort
  <1> QED
    BY <1>1, <1>2, <1>3, <1>4 DEF Safe

-----------------------------------------------------------------------------
(* The invariant is inductive *)

\* It holds initially.
LEMMA InitIInv == Init => IInv
  <1> SUFFICES ASSUME Init PROVE IInv
    OBVIOUS
  <1>1. slot \in Rows
    <2>1. LegacyClaim \in Rows
      BY Zenon DEF LegacyClaim, Fresh, NoRow, Rows, States, Reasons, Owners
    <2> QED
      BY <2>1, EmptyTypes DEF Init
  <1>2. TypeOK
    BY <1>1, EmptyTypes, CollabAssumption DEF Init, TypeOK, Panes, Msgs
  <1>3. RowShape /\ AcceptedIsKept
    <2>1. /\ LegacyClaim.id = 1 /\ LegacyClaim.msg = 1 /\ LegacyClaim.state = "pasting"
          /\ LegacyClaim.reason = "none" /\ LegacyClaim.exec = "none"
          /\ ~ LegacyClaim.pasted /\ ~ LegacyClaim.rebound
      BY DEF LegacyClaim, Fresh, NoRow
    <2>2. CASE slot = LegacyClaim /\ owed = {1}
      BY <2>1, <2>2 DEF Init, RowShape, AcceptedIsKept, NoTrail
    <2>3. CASE slot = NoRow /\ owed = {}
      BY <2>3, Zenon DEF Init, RowShape, AcceptedIsKept, NoRow, NoTrail
    <2> QED
      BY <2>2, <2>3 DEF Init
  <1>4. /\ Program /\ ClaimNeverLost /\ Unclaimed /\ ClaimedMsg
        /\ RanOnce /\ TakenOnce
    BY DEF Init, Idle, NoTrail, Program, ClaimNeverLost, Unclaimed, ClaimedMsg, RanOnce,
           TakenOnce, Pasting, Dispatching
  <1> QED
    BY <1>2, <1>3, <1>4 DEF IInv, Safe

\* Every step keeps its safety part.
LEMMA SafeStep == IInv /\ [Next]_vars => Safe'
  <1> SUFFICES ASSUME IInv, [Next]_vars PROVE Safe'
    OBVIOUS
  <1>1. ASSUME NEW retry \in BOOLEAN, NEW replace \in BOOLEAN, GateBegin(retry, replace) PROVE Safe'
    BY <1>1, SafeGateBegin
  <1>2. ASSUME Enqueue PROVE Safe'
    BY <1>2, SafeEnqueue
  <1>3. ASSUME ClaimPaste PROVE Safe'
    BY <1>3, SafeClaimPaste
  <1>4. ASSUME Paste PROVE Safe'
    BY <1>4, SafePaste
  <1>5. ASSUME NEW slow \in BOOLEAN, MarkPastedStep(slow) PROVE Safe'
    BY <1>5, SafeMarkPasted
  <1>6. ASSUME ClaimExec PROVE Safe'
    BY <1>6, SafeClaimExec
  <1>7. ASSUME Consume PROVE Safe'
    BY <1>7, SafeConsume
  <1>8. ASSUME ReconcilePasting PROVE Safe'
    BY <1>8, SafeReconcilePasting
  <1>9. ASSUME ReconcilePasted PROVE Safe'
    BY <1>9, SafeReconcilePasted
  <1>10. ASSUME NEW probe \in BOOLEAN, ReconcileEvidence(probe) PROVE Safe'
    BY <1>10, SafeReconcileEvidence
  <1>11. ASSUME Import PROVE Safe'
    BY <1>11, SafeImport
  <1>12. ASSUME NEW status \in {"ok", "abnormal"}, ExecutorExits(status) PROVE Safe'
    BY <1>12, SafeExecutorExits DEF ExecutorExits
  <1>13. ASSUME CleanupOrphan PROVE Safe'
    BY <1>13, SafeExecutorExits DEF CleanupOrphan
  <1>14. ASSUME LaunchRegistered PROVE Safe'
    BY <1>14, SafeLaunchRegistered
  <1>15. ASSUME NEW bound \in BOOLEAN, LaunchFails(bound) PROVE Safe'
    BY <1>15, SafeLaunchFails
  <1>16. ASSUME NEW runs \in {"none", "shell"}, AgentEnds(runs) PROVE Safe'
    BY <1>16, SafeAgentEnds
  <1>17. ASSUME Crash PROVE Safe'
    BY <1>17, SafeCrash
  <1>18. ASSUME Interrupted PROVE Safe'
    BY <1>18, SafeInterrupted
  <1> USE DEF IInv, Safe, TypeOK, RowShape, Program, ClaimNeverLost, Unclaimed, ClaimedMsg,
              AcceptedIsKept, RanOnce, TakenOnce, Pasting, Dispatching, PasteClaimed, Msgs,
              ExecutorClaimed, Rows, Tasks, Panes, Trails, NoRow, NoTrail
  <1>19. ASSUME GateReplace PROVE Safe'
    BY <1>19 DEF GateReplace, Store, Conflicts, Fresh
  <1>20. ASSUME NEW lease \in Leases, GateLease(lease) PROVE Safe'
    BY <1>20 DEF GateLease, GateTarget, Goto, Probed, Leases
  <1>21. ASSUME StoreForPaste PROVE Safe'
    BY <1>21, SMTT(30) DEF StoreForPaste, Store, Conflicts, Fresh
  <1>22. ASSUME NEW replace \in BOOLEAN, QueueMessage(replace) PROVE Safe'
    BY <1>22 DEF QueueMessage, LockFree, Store, Conflicts, Fresh
  <1>23. ASSUME CancelQueued PROVE Safe'
    BY <1>23, Zenon DEF CancelQueued, LockFree, Settle
  <1>24. ASSUME RequeuePaste PROVE Safe'
    BY <1>24, Zenon DEF RequeuePaste, Requeue, InFlight, Accept, Idle
  <1>25. ASSUME Reserve PROVE Safe'
    BY <1>25 DEF Reserve, Goto
  <1>26. ASSUME NEW lease \in Leases, Recheck(lease) PROVE Safe'
    BY <1>26, SMTT(30) DEF Recheck, Goto, Probed, Leases
  <1>27. ASSUME Dispatch PROVE Safe'
    BY <1>27 DEF Dispatch, ExecutorStarts, StartFails, Goto, Finish, Idle
  <1>28. ASSUME NEW reset \in BOOLEAN, DispatchFailed(reset) PROVE Safe'
    BY <1>28, SMTT(30) DEF DispatchFailed, Requeue, InFlight, Store, Conflicts, Fresh,
                 SetFailureReason, Claimable, Accept, Idle
  <1>29. ASSUME DrainHold PROVE Safe'
    BY <1>29, ZenonT(30) DEF DrainHold, SetFailureReason, Claimable, Idle
  <1>30. ASSUME NEW lease \in Leases, DrainLease(lease) PROVE Safe'
    BY <1>30 DEF DrainLease, Probed, Leases, OriginalPasteBindingActive, Idle
  <1>31. ASSUME HookAbnormal PROVE Safe'
    BY <1>31, ZenonT(30) DEF HookAbnormal, LockFree, SetFailureReason, Claimable
  <1>32. ASSUME NEW drain \in BOOLEAN, HookOk(drain) PROVE Safe'
    BY <1>32 DEF HookOk, LockFree
  <1>33. ASSUME HookDrain PROVE Safe'
    BY <1>33, SMTT(30) DEF HookDrain, LockFree, DrainTask, WasRequeuedFromPasted, Idle
  <1>34. ASSUME LoopScan PROVE Safe'
    BY <1>34, SMTT(30) DEF LoopScan
  <1>35. ASSUME NEW release \in BOOLEAN, ReconcilePanes(release) PROVE Safe'
    BY <1>35, Zenon DEF ReconcilePanes, LockFree
  <1>36. ASSUME ReconcileImported PROVE Safe'
    BY <1>36, SMTT(30) DEF ReconcileImported
  <1>37. ASSUME LoopDrain PROVE Safe'
    BY <1>37, SMTT(30) DEF LoopDrain, LockFree, NoLoop, DrainTask, WasRequeuedFromPasted, Idle
  <1>38. ASSUME NEW ok \in BOOLEAN, RecordWritten(ok) PROVE Safe'
    BY <1>38, SMTT(30) DEF RecordWritten
  <1>39. ASSUME Age PROVE Safe'
    BY <1>39, SMTT(30) DEF Age
  <1>40. ASSUME NEW runs \in {"shell", "agent"}, PaneLaunched(runs) PROVE Safe'
    BY <1>40, SMTT(30) DEF PaneLaunched
  <1>41. ASSUME AgentStarts PROVE Safe'
    BY <1>41, SMTT(30) DEF AgentStarts
  <1>42. CASE UNCHANGED vars
    BY <1>42, SMTT(30) DEF vars
  <1> HIDE DEF IInv, Safe, TypeOK, RowShape, Program, ClaimNeverLost, Unclaimed, ClaimedMsg,
               AcceptedIsKept, RanOnce, TakenOnce, Pasting, Dispatching, PasteClaimed, Msgs,
               ExecutorClaimed, Rows, Tasks, Panes, Trails, NoRow, NoTrail
  <1> QED
    BY <1>1, <1>2, <1>3, <1>4, <1>5, <1>6, <1>7, <1>8, <1>9, <1>10, <1>11, <1>12,
       <1>13, <1>14, <1>15, <1>16, <1>17, <1>18, <1>19, <1>20, <1>21, <1>22, <1>23, <1>24,
       <1>25, <1>26, <1>27, <1>28, <1>29, <1>30, <1>31, <1>32, <1>33, <1>34, <1>35, <1>36,
       <1>37, <1>38, <1>39, <1>40, <1>41, <1>42 DEF Next, UserStep, TaskStep, LoopStep,
       HookStep, EnvironmentStep

\* A behaviour of the service keeps the invariant.
LEMMA Invariance == Spec => []IInv
  <1>1. IInv /\ [Next]_vars => IInv'
    BY TypeStep, SafeStep DEF IInv, Safe
  <1> QED
    BY InitIInv, <1>1, PTL DEF Spec

-----------------------------------------------------------------------------
(* Theorems *)

\* The slot, the task and what surrounds them keep their types, so every
\* state that a statement writes is one that the code can read.
THEOREM DeliveryTypes == Spec => []TypeOK
  <1>1. IInv => TypeOK
    BY DEF IInv
  <1> QED
    BY <1>1, Invariance, PTL

\* PasteClaimLost and ExecutorClaimLost are never returned: a delivery keeps
\* its claim whatever imports, reconciliations and completions do meanwhile.
THEOREM ClaimsSurvive == Spec => []ClaimNeverLost
  <1>1. IInv => ClaimNeverLost
    BY DEF IInv, Safe
  <1> QED
    BY <1>1, Invariance, PTL

\* A message reported as queued or routed stays in the slot until it is
\* delivered or the user gives it up.
THEOREM MessagesSurvive == Spec => []AcceptedIsKept
  <1>1. IInv => AcceptedIsKept
    BY DEF IInv, Safe
  <1> QED
    BY <1>1, Invariance, PTL

\* No undisturbed delivery starts an executor twice with one message.
THEOREM ExecutorOnce == Spec => ExecutorRunsOnce
  <1>1. IInv => (task.pc = "dispatch" => trail.torn \/ ~ trail.ran)
    BY DEF IInv, Safe, RanOnce
  <1>2. IInv /\ [Next]_vars =>
          [task.pc = "dispatch" /\ task'.pc = "consume" => trail.torn \/ ~ trail.ran]_vars
    BY <1>1
  <1> QED
    BY <1>2, Invariance, PTL DEF Spec, ExecutorRunsOnce

\* No undisturbed delivery pastes a message twice into one agent under one
\* binding.
THEOREM PasteOnce == Spec => PastedOnce
  <1>1. IInv => (task.pc = "paste" => trail.torn \/ trail.taken # "now")
    BY DEF IInv, Safe, TakenOnce
  <1>2. IInv /\ [Next]_vars =>
          [task.pc = "paste" /\ task'.pc = "markPasted" => trail.torn \/ trail.taken # "now"]_vars
    BY <1>1
  <1> QED
    BY <1>2, Invariance, PTL DEF Spec, PastedOnce

\* No step but the user's takes a held message away.
LEMMA HoldStep ==
  ASSUME IInv, [Next]_vars, slot.reason = "hold"
  PROVE  \/ slot'.reason = "hold" /\ slot'.state = "queued" /\ slot'.msg = slot.msg
         \/ GateReplace \/ CancelQueued \/ QueueMessage(TRUE)
  <1> DEFINE Kept == slot'.reason = "hold" /\ slot'.state = "queued" /\ slot'.msg = slot.msg
  <1>1. slot \in Rows /\ slot.state = "queued"
    BY DEF IInv, TypeOK, Safe, RowShape
  <1>2. ASSUME UNCHANGED slot PROVE Kept
    BY <1>1, <1>2
  \* A held message is not the business of any task but a replacement.
  <1>3. task.pc \in {"idle", "replace"}
    BY <1>1 DEF IInv, TypeOK, Safe, Unclaimed, ClaimNeverLost, PasteClaimed,
                ExecutorClaimed,
                Pasting, Dispatching
  <1>4. ASSUME UserStep PROVE Kept \/ CancelQueued \/ QueueMessage(TRUE)
    <2>1. ASSUME NEW retry \in BOOLEAN, NEW replace \in BOOLEAN, GateBegin(retry, replace)
          PROVE  Kept
      BY <1>2, <2>1, Zenon DEF GateBegin
    <2>2. ASSUME QueueMessage(FALSE) PROVE Kept
      BY <1>1, <1>2, <2>2 DEF QueueMessage, Store, Conflicts
    <2> QED
      BY <1>4, <2>1, <2>2, Zenon DEF UserStep
  <1>5. ASSUME TaskStep PROVE Kept \/ GateReplace
    BY <1>3, <1>5, Zenon DEF TaskStep, GateLease, DrainLease, Recheck, Enqueue, StoreForPaste,
                      ClaimPaste,
                      Paste, RequeuePaste, MarkPastedStep, Reserve, ClaimExec, Dispatch, Consume,
                      DispatchFailed, DrainHold
  <1>6. ASSUME LoopStep PROVE Kept
    <2>1. ~ (Ackable(slot) /\ trail.bound) /\ ~ Abandoned(slot) /\ ~ Expired(slot)
      BY <1>1 DEF Abandoned, Expired, IInv, Safe, RowShape
    <2> QED
      BY <1>1, <1>2, <1>6, <2>1, Zenon DEF LoopStep, LoopScan, ReconcilePanes,
                                    ReconcileImported,
         ReconcilePasting, ReconcilePasted, ReconcileEvidence, LoopDrain
  <1>7. ASSUME HookStep PROVE Kept
    BY <1>2, <1>7 DEF HookStep, HookAbnormal, HookDrain, HookOk
  <1>8. ASSUME EnvironmentStep PROVE Kept
    <2>1. ~ Acks
      BY <1>1 DEF Acks, Ackable, InFlight, WasRequeuedFromPasted
    <2>2. CASE Age \/ LaunchRegistered \/ CleanupOrphan \/ \E status \in {"ok", "abnormal"} : ExecutorExits(status)
      BY <1>1, <2>2 DEF Age, LaunchRegistered, CleanupOrphan, ExecutorExits, Completed,
                        Rows
    <2> QED
      BY <1>2, <1>8, <2>1, <2>2, Zenon DEF EnvironmentStep, Import, RecordWritten,
                                    PaneLaunched,
         AgentStarts, LaunchFails, AgentEnds
  <1>9. ASSUME Crash \/ Interrupted PROVE Kept
    BY <1>1, <1>2, <1>9, OrphanedRow DEF Crash, Interrupted
  <1> QED
    BY <1>2, <1>4, <1>5, <1>6, <1>7, <1>8, <1>9, Zenon DEF Next, vars

\* A held message waits for the user: no drain, hook, import or recovery
\* dispatches or discards it.
THEOREM HoldsWait == Spec => HoldNeedsUser
  <1>1. IInv /\ [Next]_vars =>
          [slot.reason = "hold" =>
             \/ slot'.reason = "hold" /\ slot'.state = "queued" /\ slot'.msg = slot.msg
             \/ GateReplace \/ CancelQueued \/ QueueMessage(TRUE)]_vars
    BY HoldStep, Zenon
  <1> QED
    BY <1>1, Invariance, PTL DEF Spec, HoldNeedsUser

==============================================================================
