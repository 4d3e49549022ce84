----------------------------- MODULE CliActivity -----------------------------
(***************************************************************************)
(* The sidebar state of a workspace's CLI session.  Two writers share one  *)
(* column: the hook reports of the agent (report_cli_activity), reduced    *)
(* against the row and stored, and the tmux poller (CliActivityMonitor),   *)
(* which observes the pane, reads the rows and corrects what differs.      *)
(*                                                                         *)
(* Reports can overtake each other and get lost.  The hook events are      *)
(* grouped by what reduce_hook makes of them, the phases by their bucket   *)
(* and by what an idle notification may replace; an unknown task count     *)
(* counts as none.  The manual marks and the sizing sweep are left out.    *)
(***************************************************************************)
EXTENDS Integers

CONSTANTS
  Events,      \* hook events that the agents fire: "start", "work", "ask",
               \* "idle_prompt", "stop", "stop_busy", "stop_failure",
               \* "subagent_stop", "end"
  MaxReports,  \* reports in all
  MaxMoves,    \* attaches, detaches, launches and exits
  MaxFaults    \* lost reports, failed reads, writes and snapshots, restarts

VARIABLES
  row,      \* workspace_cli_activity: the poller's column and the hook state
  pane,     \* the tmux session: up, agent alive, client attached, output flowing
  agent,    \* the session id of the current agent
  reports,  \* fired events: on the way, or reduced by their handler
  poll,     \* the tick of the poller
  mem,      \* what the poller remembers between ticks
  used      \* stamps minted, moves and faults

vars == <<row, pane, agent, reports, poll, mem, used>>

NoHook == [sess |-> 0, phase |-> "none", tasks |-> 0, seq |-> 0]
NoPane == [up |-> FALSE, agent |-> FALSE, attached |-> FALSE, active |-> FALSE]
Waiting == [pc |-> "wait", obs |-> NoPane, complete |-> FALSE, hook |-> NoHook]
Forgotten == [acked |-> 0, detached |-> FALSE, state |-> "idle"]

Init ==
  /\ row = [state |-> "idle", hook |-> NoHook, fresh |-> FALSE]
  /\ pane = [NoPane EXCEPT !.up = TRUE, !.agent = TRUE, !.attached = TRUE]
  /\ agent = 1
  /\ reports = {}
  /\ poll = Waiting
  /\ mem = Forgotten
  /\ used = [seq |-> 0, moves |-> 0, faults |-> 0]

Move == used.moves < MaxMoves /\ used' = [used EXCEPT !.moves = @ + 1]
Fault == used.faults < MaxFaults /\ used' = [used EXCEPT !.faults = @ + 1]

-----------------------------------------------------------------------------
(* Hook reports.                                                           *)

\* hook_bucket
Bucket(h) ==
  CASE h.phase = "working" \/ (h.phase = "stopped" /\ h.tasks > 0) -> "running"
    [] h.phase \in {"waiting", "failed"} \/ (h.phase = "stopped" /\ h.tasks = 0) -> "attention"
    [] OTHER -> "idle"

\* The reports that reduce_hook drops: not newer than the row, from another
\* session, or after the end, unless they start a session.
Dropped(h, e) ==
  /\ h.sess # 0
  /\ \/ e.seq <= h.seq
     \/ e.event # "start" /\ (e.sess # h.sess \/ h.phase = "ended")

\* reduce_hook, for a report that is not dropped.
Reduced(h, e) ==
  LET kept == h.sess # 0 /\ e.event # "start"
      phase == IF kept /\ h.phase # "none" THEN h.phase ELSE "ready"
  IN  [sess |-> e.sess, seq |-> e.seq,
       tasks |-> CASE e.event = "stop_busy" -> 1
                   [] e.event \in {"stop", "subagent_stop"} -> 0
                   [] OTHER -> IF kept THEN h.tasks ELSE 0,
       phase |-> CASE e.event = "start" -> "ready"
                   [] e.event = "work" -> "working"
                   [] e.event = "ask" -> "waiting"
                   [] e.event = "idle_prompt" ->
                        IF phase \in {"stopped", "failed"} THEN phase ELSE "waiting"
                   [] e.event \in {"stop", "stop_busy"} -> "stopped"
                   [] e.event = "stop_failure" -> "failed"
                   [] e.event = "end" -> "ended"
                   [] OTHER -> phase]

\* The agent's hook posts an event, stamped when it fires.
Fire(event) ==
  /\ pane.agent /\ used.seq < MaxReports
  /\ used' = [used EXCEPT !.seq = @ + 1]
  /\ reports' = reports \union
       {[pc |-> "sent", event |-> event, sess |-> agent, seq |-> used.seq + 1, next |-> NoHook]}
  /\ UNCHANGED <<row, pane, agent, poll, mem>>

\* report_cli_activity reads the row and reduces; it answers 204 whatever
\* happens.
Reduce(r) ==
  /\ r.pc = "sent"
  /\ reports' = (reports \ {r}) \union
       (IF Dropped(row.hook, r) THEN {}
        ELSE {[r EXCEPT !.pc = "reduced", !.next = Reduced(row.hook, r)]})
  /\ UNCHANGED <<row, pane, agent, poll, mem, used>>

\* upsert_hook, guarded by the stamp: the phase and, with it, the bucket.
UpsertHook(r) ==
  /\ r.pc = "reduced"
  /\ reports' = reports \ {r}
  /\ row' = IF r.seq < row.hook.seq THEN row
            ELSE [state |-> Bucket(r.next), hook |-> r.next, fresh |-> TRUE]
  /\ UNCHANGED <<pane, agent, poll, mem, used>>

\* The post fails, or the read or the write of its handler.
ReportLost(r) ==
  /\ Fault
  /\ reports' = reports \ {r}
  /\ UNCHANGED <<row, pane, agent, poll, mem>>

\* An hour without a report: fresh_phase.
Expire ==
  /\ row.fresh
  /\ row' = [row EXCEPT !.fresh = FALSE]
  /\ UNCHANGED <<pane, agent, reports, poll, mem, used>>

-----------------------------------------------------------------------------
(* The poller.                                                             *)

\* A snapshot of the pane, which is incomplete when tmux cannot be read.
Observe ==
  /\ poll.pc = "wait"
  /\ \/ /\ poll' = [poll EXCEPT !.pc = "read", !.obs = pane, !.complete = TRUE]
        /\ UNCHANGED used
     \/ /\ Fault
        /\ poll' = [poll EXCEPT !.pc = "read", !.obs = NoPane, !.complete = FALSE]
  /\ UNCHANGED <<row, pane, agent, reports, mem>>

ReadRowsOnce ==
  /\ poll.pc = "read"
  /\ poll' = [poll EXCEPT !.pc = "record", !.hook = IF row.fresh THEN row.hook ELSE NoHook]
  /\ UNCHANGED <<row, pane, agent, reports, mem, used>>

\* find_all, every tick; a failed read keeps the last states and has no hooks.
ReadRows ==
  /\ poll.pc = "read"
  /\ \/ /\ poll' = [poll EXCEPT !.pc = "record", !.hook = IF row.fresh THEN row.hook ELSE NoHook]
        /\ mem' = [mem EXCEPT !.state = row.state]
        /\ UNCHANGED used
     \/ /\ Fault
        /\ poll' = [poll EXCEPT !.pc = "record", !.hook = NoHook]
        /\ UNCHANGED mem
  /\ UNCHANGED <<row, pane, agent, reports>>

\* next_state; a hook with a phase decides, otherwise the pane's output does.
NextState(prev, obs, ran, hook, acked) ==
  CASE ~obs.agent -> "idle"
    [] obs.agent /\ hook.phase # "none" ->
         IF Bucket(hook) = "attention" /\ (obs.attached \/ hook.seq <= acked) THEN "idle"
         ELSE Bucket(hook)
    [] obs.agent /\ hook.phase = "none" /\ obs.active -> "running"
    [] OTHER -> CASE prev = "running" -> IF ~obs.attached /\ ran THEN "attention" ELSE "idle"
                  [] prev = "attention" -> IF obs.attached THEN "idle" ELSE "attention"
                  [] OTHER -> "idle"

\* The state machine of a session that was observed; a session that a complete
\* snapshot does not have goes idle.  Output after the detach was settled
\* needs a detach that an earlier tick has seen.  The write may fail.
Record ==
  LET obs == poll.obs
      acked == IF obs.up /\ obs.attached /\ poll.hook.phase # "none"
               THEN poll.hook.seq ELSE mem.acked
  IN
  /\ poll.pc = "record"
  /\ poll' = Waiting
  /\ \E ran \in IF mem.detached THEN BOOLEAN ELSE {FALSE} :
       LET next == IF obs.up THEN NextState(mem.state, obs, ran, poll.hook, acked)
                   ELSE IF poll.complete THEN "idle" ELSE mem.state
           seen == [mem EXCEPT !.acked = acked,
                      !.detached = IF obs.up THEN ~obs.attached ELSE @]
       IN  \/ /\ row' = IF next # mem.state THEN [row EXCEPT !.state = next] ELSE row
              /\ mem' = [seen EXCEPT !.state = next]
              /\ UNCHANGED used
           \/ /\ next # mem.state /\ Fault
              /\ mem' = seen /\ UNCHANGED row
  /\ UNCHANGED <<pane, agent, reports>>

\* The server restarts: the tick, the handlers and the poller's memory go.
Restart ==
  /\ Fault
  /\ reports' = {} /\ poll' = Waiting /\ mem' = Forgotten
  /\ UNCHANGED <<row, pane, agent>>

-----------------------------------------------------------------------------
(* The pane.                                                               *)

\* A client attaches, which starts the agent when there is none
\* (clear_ended_phase), or detaches.
Attach ==
  /\ Move /\ ~pane.attached
  /\ pane' = [pane EXCEPT !.up = TRUE, !.agent = pane.up => @, !.attached = TRUE]
  /\ IF pane.up THEN UNCHANGED <<agent, row>>
     ELSE /\ agent' = agent + 1
          /\ row' = IF row.hook.phase = "ended"
                    THEN [row EXCEPT !.hook.phase = "none", !.hook.tasks = 0] ELSE row
  /\ UNCHANGED <<reports, poll, mem>>

Detach ==
  /\ Move /\ pane.attached
  /\ pane' = [pane EXCEPT !.attached = FALSE]
  /\ UNCHANGED <<row, agent, reports, poll, mem>>

\* The agent leaves the pane to its shell, or the session ends.
Exit(up) ==
  /\ Move /\ pane.agent
  /\ pane' = IF up THEN [pane EXCEPT !.agent = FALSE, !.active = FALSE] ELSE NoPane
  /\ UNCHANGED <<row, agent, reports, poll, mem>>

\* The pane starts to produce output, or has been quiet for the window.
Output ==
  /\ Move /\ pane.agent /\ pane' = [pane EXCEPT !.active = ~@]
  /\ UNCHANGED <<row, agent, reports, poll, mem>>

-----------------------------------------------------------------------------
Handle == \E r \in reports : Reduce(r) \/ UpsertHook(r)
Tick == Observe \/ ReadRows \/ Record

Next ==
  \/ \E event \in Events : Fire(event)
  \/ Handle \/ \E r \in reports : ReportLost(r)
  \/ Expire
  \/ Tick \/ Restart
  \/ Attach \/ Detach \/ \E up \in BOOLEAN : Exit(up)
  \/ Output

\* Requests that arrived are handled, and the poller polls every two seconds.
Spec == Init /\ [][Next]_vars /\ WF_vars(Handle) /\ WF_vars(Tick)

-----------------------------------------------------------------------------
\* The bucket that the sidebar should show: idle without an agent; what a fresh
\* report says, with its hand lowered once the user has been at the pane;
\* otherwise what the pane's output says.
BucketIsRight ==
  IF ~pane.agent THEN row.state = "idle"
  ELSE IF row.fresh /\ row.hook.phase # "none"
  THEN row.state = IF Bucket(row.hook) = "attention" /\ (pane.attached \/ row.hook.seq <= mem.acked)
                   THEN "idle" ELSE Bucket(row.hook)
  ELSE /\ pane.active = (row.state = "running")
       /\ pane.attached => row.state # "attention"

\* Once the agent and the user rest, the bucket comes to be right, whichever
\* of the two writers wrote last, from whatever it had read.
BucketConverges == <>[]BucketIsRight
=============================================================================
