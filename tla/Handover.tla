------------------------------ MODULE Handover ------------------------------
(***************************************************************************)
(* The handover of a workspace's CLI pane from a predecessor session to a  *)
(* successor (routes/session_handover.rs): begin journals the operation    *)
(* and replaces the pane's process, the successor confirms before a        *)
(* deadline, and a monitor otherwise resumes the predecessor's             *)
(* conversation as a fallback.                                             *)
(*                                                                         *)
(* One operation is followed.  Deadlines count down; a handler of the      *)
(* server holds the workspace's lifecycle lock from its first step to its  *)
(* last; hook reports, probes of the writer lease, processes and headless  *)
(* runs are outside that lock.                                             *)
(***************************************************************************)
EXTENDS Integers

CONSTANTS
  Deadline,      \* confirm_deadline_secs
  MaxCrashes,    \* crashes of the server
  MaxNewer,      \* launches by attach, restart and switch
  Headless,      \* sessions that the executor may run
  SlowStart      \* may a launch take longer than respawn waits?

VARIABLES
  op,       \* the row of session_handovers
  binding,  \* the active row of cli_pane_bindings
  owner,    \* the session that claude_session_links gives the fallback id to
  pane,     \* what the tmux pane runs, for whom, as which process
  exits,    \* exit files: "succ", "fall"
  hooks,    \* SessionStart reports on their way, by sender
  inited,   \* processes that have sent theirs
  exec,     \* sessions with a running headless agent
  h,        \* the step of the handler that holds the lifecycle lock
  resv,     \* holder of the workspace's spawn reservation
  used      \* crashes and newer launches so far

vars == <<op, binding, owner, pane, exits, hooks, inited, exec, h, resv, used>>
procs == <<exits, hooks, inited>>

Null == -1
Ours == 2         \* binding_id of the operation; the predecessor's is 1

NoOp == [phase |-> "none", rb |-> FALSE, left |-> Deadline, fb |-> Null,
         ready |-> "no", pid |-> 0]

Init ==
  /\ op = NoOp
  /\ binding = [id |-> 1, session |-> "pred"]
  /\ owner \in {"none", "pred"}
  /\ pane = [run |-> "agent", who |-> "pred", pid |-> 1]
  /\ exits = {} /\ hooks = {} /\ inited = {}
  /\ exec = {}
  /\ h = "free" /\ resv = "none"
  /\ used = [crashes |-> 0, newer |-> 0]

Unfinished == op.phase \in {"starting", "awaiting_confirmation"}
AgentUp(who) == pane.run = "agent" /\ pane.who = who

\* SessionHandover::set_phase, which keeps a finished phase.
SetPhase(p) == IF Unfinished THEN [op EXCEPT !.phase = p] ELSE op

\* respawn-pane -k: a new process in the place of the old one.
Respawned(who) == [run |-> "boot", who |-> who, pid |-> pane.pid + 1]

-----------------------------------------------------------------------------
(* The pane's processes.                                                   *)

\* The bootstrap runs the agent, or finds that it cannot.
AgentStarts ==
  /\ pane.run = "boot"
  /\ \E ok \in BOOLEAN :
       /\ pane' = [pane EXCEPT !.run = IF ok THEN "agent" ELSE "shell"]
       /\ exits' = IF ok \/ pane.who = "newer" THEN exits ELSE exits \union {pane.who}
  /\ UNCHANGED <<op, binding, owner, hooks, inited, exec, h, resv, used>>

\* The agent exits and leaves the fallback shell and its exit file.
AgentExits ==
  /\ pane.run = "agent"
  /\ pane' = [pane EXCEPT !.run = "shell"]
  /\ exits' = IF pane.who \in {"succ", "fall"} THEN exits \union {pane.who} ELSE exits
  /\ UNCHANGED <<op, binding, owner, hooks, inited, exec, h, resv, used>>

\* The tmux session ends.
PaneGone ==
  /\ pane.run = "shell"
  /\ pane' = [pane EXCEPT !.run = "gone"]
  /\ UNCHANGED <<op, binding, owner, procs, exec, h, resv, used>>

\* The fallback agent has initialised and reports SessionStart.
SendHook ==
  /\ AgentUp("fall") /\ pane.pid \notin inited
  /\ inited' = inited \union {pane.pid}
  /\ hooks' = hooks \union {pane.pid}
  /\ UNCHANGED <<op, binding, owner, pane, exits, exec, h, resv, used>>

\* fallback_ready and record_fallback_ready: the process found in the pane, not
\* the sender, is recorded.
FallbackReady(p) ==
  /\ p \in hooks
  /\ hooks' = hooks \ {p}
  /\ op' = IF AgentUp("fall") /\ op.rb /\ op.fb # Null /\ Unfinished /\ binding.id = Ours
           THEN [op EXCEPT !.ready = IF op.fb = 0 THEN "late" ELSE "ok", !.pid = pane.pid]
           ELSE op
  /\ UNCHANGED <<binding, owner, pane, exits, inited, exec, h, resv, used>>

-----------------------------------------------------------------------------
(* The rest of the system.                                                 *)

\* A headless run starts under the reservation when the writer lease is free,
\* that is when no agent runs in the pane.
ExecutorStarts(s) ==
  /\ s \notin exec /\ resv = "none" /\ pane.run # "agent"
  /\ exec' = exec \union {s}
  /\ UNCHANGED <<op, binding, owner, pane, procs, h, resv, used>>

ExecutorEnds(s) ==
  /\ s \in exec
  /\ exec' = exec \ {s}
  /\ UNCHANGED <<op, binding, owner, pane, procs, h, resv, used>>

\* The lease probe releases the binding of a pane that is gone.
ReleaseBinding ==
  /\ pane.run = "gone" /\ binding.id # 0
  /\ binding' = [binding EXCEPT !.id = 0]
  /\ UNCHANGED <<op, owner, pane, procs, exec, h, resv, used>>

\* The user gives the fallback's transcript to another session.
LinkMoves ==
  /\ Unfinished /\ owner # "other"
  /\ owner' = "other"
  /\ UNCHANGED <<op, binding, pane, procs, exec, h, resv, used>>

\* Time passes until the deadlines.
Tick ==
  /\ Unfinished /\ (op.left > 0 \/ op.fb > 0)
  /\ op' = [op EXCEPT !.left = IF @ > 0 THEN @ - 1 ELSE 0, !.fb = IF @ > 0 THEN @ - 1 ELSE @]
  /\ UNCHANGED <<binding, owner, pane, procs, exec, h, resv, used>>

Crash ==
  /\ used.crashes < MaxCrashes
  /\ h # "free"
  /\ used' = [used EXCEPT !.crashes = @ + 1]
  /\ h' = "free"
  /\ resv' = IF resv = "handler" THEN "dead" ELSE resv
  /\ UNCHANGED <<op, binding, owner, pane, procs, exec>>

\* A dead server's reservation expires.
ReservationExpires ==
  /\ resv = "dead"
  /\ resv' = "none"
  /\ UNCHANGED <<op, binding, owner, pane, procs, exec, h, used>>

\* switch_agent_session: under the reservation, the pane closes and a new
\* binding is recorded; the next attach launches the agent.
Switch ==
  \/ /\ h = "free" /\ resv = "none" /\ used.newer < MaxNewer /\ binding.id \in {1, Ours}
     /\ pane' = [pane EXCEPT !.run = "gone"]
     /\ h' = "switch" /\ resv' = "handler"
     /\ used' = [used EXCEPT !.newer = @ + 1]
     /\ UNCHANGED <<op, binding, owner, procs, exec>>
  \/ /\ h = "switch"
     /\ binding' = [id |-> 3, session |-> "other"]
     /\ h' = "free" /\ resv' = "none"
     /\ UNCHANGED <<op, owner, pane, procs, exec, used>>

\* spawn_cli_terminal with no pane: launch under the reservation, then
\* register_cli_launch; a restart does the same to a pane without an agent,
\* with no reservation of its own.
Attach ==
  \/ /\ h = "free" /\ used.newer < MaxNewer
     /\ \/ pane.run = "gone" /\ resv = "none" /\ resv' = "handler"
        \/ pane.run = "shell" /\ exec = {} /\ UNCHANGED resv
     /\ pane' = Respawned("newer")
     /\ h' = "attach"
     /\ used' = [used EXCEPT !.newer = @ + 1]
     /\ UNCHANGED <<op, binding, owner, procs, exec>>
  \/ /\ h = "attach"
     /\ binding' = [id |-> 3, session |-> binding.session]
     /\ h' = "free" /\ resv' = IF resv = "handler" THEN "none" ELSE resv
     /\ UNCHANGED <<op, owner, pane, procs, exec, used>>

-----------------------------------------------------------------------------
(* The handover's own handlers.                                            *)

\* begin up to SessionHandover::insert, one transaction with the binding.
Begin ==
  /\ h = "free" /\ resv = "none" /\ op.phase = "none"
  /\ binding.id = 1 /\ exec = {} /\ pane.run # "gone"
  /\ op' = [op EXCEPT !.phase = "starting"]
  /\ binding' = [id |-> Ours, session |-> "succ"]
  /\ h' = "launch" /\ resv' = "handler"
  /\ UNCHANGED <<owner, pane, procs, exec, used>>

Release == h' = "free" /\ resv' = "none"

\* The process that reported its start is the one that runs.
Restorable == op.ready = "ok" /\ AgentUp("fall") /\ op.pid = pane.pid

\* The receipt came late, the fallback has exited, its transcript has another
\* owner, or there is no receipt at the deadline.
GivesUp ==
  \/ op.ready = "late" \/ "fall" \in exits
  \/ Restorable /\ owner = "other"
  \/ ~Restorable /\ op.fb = 0

\* finish_fallback: fail, restore the predecessor's ownership, or wait.
FinishFallback ==
  LET restore == Restorable /\ ~GivesUp IN
  /\ op' = IF GivesUp THEN SetPhase("failed")
           ELSE IF restore /\ binding.id = Ours THEN SetPhase("rolled_back") ELSE op
  /\ owner' = IF restore THEN "pred" ELSE owner
  /\ binding' = IF restore /\ binding.id = Ours THEN [binding EXCEPT !.session = "pred"]
                ELSE binding
  /\ UNCHANGED <<pane, procs, exec, used>>

\* A launched fallback that lives, was identified or has exited.
FallbackSeen == op.fb # Null /\ (AgentUp("fall") \/ op.pid # 0 \/ "fall" \in exits)

RollbackOverHeadless ==
  IF binding.id # Ours
  THEN op' = SetPhase("failed") /\ Release /\ UNCHANGED <<binding, owner, pane, procs, exec, used>>
  ELSE \/ /\ FallbackSeen \/ op.fb = 0
          /\ FinishFallback /\ Release
       \/ /\ ~FallbackSeen /\ op.fb # 0
          /\ op' = IF op.fb = Null THEN [op EXCEPT !.rb = TRUE, !.fb = Deadline] ELSE op
          /\ h' = "fallback" /\ resv' = "handler"
          /\ UNCHANGED <<binding, owner, pane, procs, exec, used>>

\* rollback, called with the reservation: superseded or refused; a fallback
\* launched before is finished; an unreadable pane is left for the next pass;
\* otherwise the intent is recorded and the fallback launched.
Rollback ==
  IF binding.id # Ours \/ exec # {}
  THEN op' = SetPhase("failed") /\ Release /\ UNCHANGED <<binding, owner, pane, procs, exec, used>>
  ELSE \/ /\ FallbackSeen \/ op.fb = 0
          /\ FinishFallback /\ Release
       \/ /\ ~FallbackSeen /\ op.fb > 0
          /\ Release /\ UNCHANGED <<op, binding, owner, pane, procs, exec, used>>
       \/ /\ ~FallbackSeen /\ op.fb # 0
          /\ op' = IF op.fb = Null THEN [op EXCEPT !.rb = TRUE, !.fb = Deadline] ELSE op
          /\ h' = "fallback" /\ resv' = "handler"
          /\ UNCHANGED <<binding, owner, pane, procs, exec, used>>

\* respawn in begin: the successor's bootstrap replaces the pane's process.
Launch ==
  /\ h = "launch"
  /\ IF pane.run = "gone" THEN UNCHANGED pane /\ h' = "rollback"
     ELSE pane' = Respawned("succ") /\ h' = "wait"
  /\ UNCHANGED <<op, binding, owner, procs, exec, resv, used>>

\* The wait in respawn: the agent is up, its exit file is there, or, with a
\* slow start, the polls run out.
Launched ==
  /\ h = "wait"
  /\ \/ /\ AgentUp("succ") /\ "succ" \notin exits
        /\ op' = SetPhase("awaiting_confirmation") /\ Release
     \/ /\ "succ" \in exits \/ SlowStart \/ pane.run = "gone"
        /\ h' = "rollback" /\ UNCHANGED <<op, resv>>
  /\ UNCHANGED <<binding, owner, pane, procs, exec, used>>

LaunchFailed == h = "rollback" /\ Rollback

\* respawn in rollback, which a pane that is gone fails.
LaunchFallback ==
  /\ h = "fallback"
  /\ IF pane.run = "gone"
     THEN op' = SetPhase("failed") /\ Release /\ UNCHANGED pane
     ELSE pane' = Respawned("fall") /\ h' = "fallback_wait" /\ UNCHANGED <<op, resv>>
  /\ UNCHANGED <<binding, owner, procs, exec, used>>

\* Its wait; the identity of the process is recorded if it still lives.
FallbackLaunched ==
  /\ h = "fallback_wait"
  /\ \/ /\ AgentUp("fall") /\ "fall" \notin exits
        /\ op' = [op EXCEPT !.pid = pane.pid]
     \/ /\ "fall" \in exits \/ SlowStart \/ pane.run = "gone"
        /\ op' = SetPhase("failed")
  /\ Release
  /\ UNCHANGED <<binding, owner, pane, procs, exec, used>>

ConfirmLate ==
  /\ h = "free"
  /\ binding.id = Ours /\ op.phase = "awaiting_confirmation"
  /\ "succ" \notin exits /\ AgentUp("succ")
  /\ op' = [op EXCEPT !.phase = "confirmed"]
  /\ UNCHANGED <<binding, owner, pane, procs, exec, h, resv, used>>

\* confirm, called with the capability that only the successor was given.
Confirm ==
  /\ h = "free"
  /\ binding.id = Ours /\ op.phase = "awaiting_confirmation"
  /\ ~op.rb /\ op.left > 0 /\ "succ" \notin exits /\ AgentUp("succ")
  /\ op' = [op EXCEPT !.phase = "confirmed"]
  /\ UNCHANGED <<binding, owner, pane, procs, exec, h, resv, used>>

\* The monitor's pass over an unfinished operation.  The agent of a readable
\* pane is absent while the bootstrap runs.
Reconcile ==
  /\ h = "free" /\ Unfinished
  /\ \/ /\ binding.id # Ours
        /\ op' = SetPhase("failed")
        /\ UNCHANGED <<binding, owner, pane, procs, exec, h, resv, used>>
     \/ /\ binding.id = Ours /\ FallbackSeen
        /\ FinishFallback /\ UNCHANGED <<h, resv>>
     \/ /\ binding.id = Ours /\ ~FallbackSeen /\ resv = "none"
        /\ \/ op.phase = "starting" \/ op.rb \/ op.left = 0 \/ "succ" \in exits
           \/ pane.run # "agent"
        /\ Rollback

-----------------------------------------------------------------------------
Handler ==
  \/ Launch \/ Launched \/ LaunchFailed \/ LaunchFallback \/ FallbackLaunched
  \/ h = "switch" /\ Switch
  \/ h = "attach" /\ Attach

Environment ==
  \/ AgentStarts \/ AgentExits \/ PaneGone \/ SendHook
  \/ \E p \in hooks : FallbackReady(p)
  \/ \E s \in Headless : ExecutorStarts(s) \/ ExecutorEnds(s)
  \/ ReleaseBinding \/ LinkMoves \/ Tick \/ Crash \/ ReservationExpires
  \/ h = "free" /\ (Switch \/ Attach)

Next == Environment \/ Handler \/ Begin \/ Confirm \/ Reconcile

Spec == Init /\ [][Next]_vars

-----------------------------------------------------------------------------
\* A conversation has one writer: the agent that begin or rollback puts into
\* the pane never runs beside a headless run of the session it continues.
OneWriter ==
  /\ AgentUp("succ") => "succ" \notin exec
  /\ AgentUp("fall") => "pred" \notin exec

\* A finished operation is never reopened, and a confirmed one never had a
\* fallback: confirmation and rollback exclude each other over restarts.
Final ==
  /\ op.phase \in {"confirmed", "rolled_back", "failed"} => op'.phase = op.phase
  /\ op'.phase = "confirmed" => ~op'.rb

\* The fallback replaces only what this operation put into the pane: a newer
\* launch that has been registered is never killed for it.
NewerPaneKept ==
  pane'.who = "fall" /\ pane'.pid # pane.pid => binding.id = Ours /\ Unfinished

\* A rollback is recorded for a live fallback that sent its own start report,
\* with the pane and the transcript given back to the predecessor.
RolledBackHasReceipt ==
  op.phase # "rolled_back" /\ op'.phase = "rolled_back" =>
    /\ AgentUp("fall") /\ pane.pid \in inited
    /\ binding'.session = "pred" /\ owner' = "pred"
=============================================================================
