----------------------------- MODULE PaneSwitch -----------------------------
(***************************************************************************)
(* Which app session owns the CLI pane of a workspace, and which native    *)
(* conversation its agent runs: the launch by an attach, the restart of a  *)
(* dead agent and the switch to another session                            *)
(* (crates/server/src/routes/cli_agent.rs), the adoption of a running      *)
(* agent (crates/server/src/routes/session_adoption.rs), the discovery of  *)
(* the conversation a pane runs (claude_transcript_ingest.rs) and the      *)
(* bindings and links in the database                                      *)
(* (crates/db/src/models/cli_pane_binding.rs), beside executor runs.       *)
(*                                                                         *)
(* An attach is one step here; BusyPane and PaneLaunch take it apart.      *)
(* Attach, restart, switch and adoption hold the lifecycle lock; all but   *)
(* the restart also hold the spawn reservation, as a run does that starts. *)
(***************************************************************************)
EXTENDS Naturals, FiniteSets

CONSTANTS
  Sessions,   \* the app sessions of the workspace
  Natives,    \* native conversation ids
  Kinds,      \* what happens: "restart", "switch", "adopt", "wait" (an attach
              \* during a run), "codex" (the agents report their switches)
  MaxLaunch,  \* agents started in the pane
  MaxRuns,    \* executor runs of a session
  MaxBindings \* bindings

None == "none"

VARIABLES
  pane,      \* the tmux session: "none", "shell", "waiting" for a run, "agent"
  agent,     \* the conversation of the pane's agent, None without one
  pid,       \* the identity of the pane's last agent process
  binding,   \* the workspace's latest binding
  last,      \* per session, the conversation of its latest binding that has
             \* one and is not older than a run of the session
  newer,     \* a run of the bound session started after the binding
  link,      \* the session each conversation is linked to
  latestLink,
  turn,      \* the session that ran each conversation with an executor
  latestTurn,
  exec,      \* per session, the conversation its executor is running
  resv,      \* the holder of the spawn reservation
  req,       \* the request under the lifecycle lock
  view,      \* what the user last saw: the binding's id and the agent process
  found,     \* a discovery that has read the binding
  probe,     \* the binding a writer probe found without a pane, or 0
  seen,      \* per session, the conversation last known to run in it
  runs       \* per session, how many runs it had

vars == <<pane, agent, pid, binding, last, newer, link, latestLink, turn,
          latestTurn, exec, resv, req, view, found, probe, seen, runs>>

owners == <<link, latestLink, turn, latestTurn>>

Idle == [kind |-> None]

Init ==
  /\ pane = "none" /\ agent = None /\ pid = 0
  /\ binding = [id |-> 0, s |-> None, n |-> None, active |-> FALSE]
  /\ last = [s \in Sessions |-> None] /\ newer = FALSE
  /\ link = [n \in Natives |-> None] /\ latestLink = [s \in Sessions |-> None]
  /\ turn = [n \in Natives |-> None] /\ latestTurn = [s \in Sessions |-> None]
  /\ exec = [s \in Sessions |-> None]
  /\ resv = None /\ req = Idle /\ view = [id |-> 0, pid |-> 0]
  /\ found = Idle /\ probe = 0
  /\ seen = [s \in Sessions |-> None] /\ runs = [s \in Sessions |-> 0]

Running(s) == exec[s] # None
ActiveId == IF binding.active THEN binding.id ELSE 0

(* A conversation that has not started yet.                                *)
Unused == {n \in Natives : link[n] = None /\ turn[n] = None /\ n # agent}

(* The conversations an agent may run that is launched to resume n.        *)
Opens(n) == IF n = None THEN Unused ELSE {n}

(* resume_session_id                                                       *)
Resume(s) ==
  IF last[s] # None THEN last[s]
  ELSE IF latestTurn[s] # None THEN latestTurn[s] ELSE latestLink[s]

(* record_launch: the active binding is released and a new one inserted.   *)
RecordLaunch(s, n) ==
  /\ binding' = [id |-> binding.id + 1, s |-> s, n |-> n, active |-> TRUE]
  /\ last' = IF n = None THEN last ELSE [last EXCEPT ![s] = n]
  /\ newer' = FALSE

LinkTo(n, s) ==
  /\ link' = [link EXCEPT ![n] = s]
  /\ latestLink' = IF link[n] = s THEN latestLink ELSE [latestLink EXCEPT ![s] = n]

Knows(s, n) == seen' = IF n = None THEN seen ELSE [seen EXCEPT ![s] = n]

MoreBindings == binding.id < MaxBindings

-----------------------------------------------------------------------------
(* An attach creates the pane of the session find_for_cli returns: the one *)
(* bound last, or the requested one.  During a run of it the pane waits.   *)
Attach(s) ==
  /\ pane = "none" /\ req = Idle /\ resv = None /\ pid < MaxLaunch /\ MoreBindings
  /\ binding.s \in {None, s}
  /\ LET n == Resume(s) IN
       \/ /\ ~Running(s)
          /\ pane' = "agent" /\ pid' = pid + 1
          /\ \E r \in Opens(n) : agent' = r
          /\ RecordLaunch(s, n) /\ Knows(s, n)
          /\ IF n = None THEN UNCHANGED <<link, latestLink>> ELSE LinkTo(n, s)
       \/ /\ Running(s) /\ "wait" \in Kinds
          /\ pane' = "waiting"
          /\ RecordLaunch(s, n)
          /\ IF n = None THEN UNCHANGED <<link, latestLink>> ELSE LinkTo(n, s)
          /\ UNCHANGED <<agent, pid, seen>>
  /\ UNCHANGED <<turn, latestTurn, exec, resv, req, view, found, probe, runs>>

(* The waiting pane resumes the executor's conversation.                   *)
Wakes ==
  /\ pane = "waiting" /\ resv = None /\ pid < MaxLaunch /\ ~Running(binding.s)
  /\ pane' = "agent" /\ pid' = pid + 1
  /\ agent' = latestTurn[binding.s]
  /\ Knows(binding.s, agent')
  /\ UNCHANGED <<binding, last, newer, owners, exec, resv, req, view, found, probe, runs>>

(* The agent exits to a shell; the tmux session ends.                      *)
AgentExits ==
  /\ pane = "agent" /\ pane' = "shell" /\ agent' = None
  /\ UNCHANGED <<pid, binding, last, newer, owners, exec, resv, req, view, found, probe,
                 seen, runs>>

PaneEnds ==
  /\ pane # "none" /\ pane' = "none" /\ agent' = None
  /\ UNCHANGED <<pid, binding, last, newer, owners, exec, resv, req, view, found, probe,
                 seen, runs>>

(* The user opens another conversation inside the TUI, not one a run has.  *)
TuiSwitches ==
  /\ pane = "agent"
  /\ \E n \in Natives \ ({agent} \cup {exec[s] : s \in Sessions}) : agent' = n
  /\ UNCHANGED <<pane, pid, binding, last, newer, owners, exec, resv, req, view, found,
                 probe, seen, runs>>

-----------------------------------------------------------------------------
(* Discovery reads the binding and finds the conversation the pane runs:   *)
(* from the transcript of a fresh Claude, or from a Codex thread, that of  *)
(* a fresh pane or the one its hook reports after a switch.                *)
Finds ==
  /\ found = Idle /\ pane = "agent" /\ binding.active /\ agent # binding.n
  /\ found' = [kind |-> "found", id |-> binding.id, s |-> binding.s, cur |-> binding.n,
               n |-> agent, runs |-> runs[binding.s]]
  /\ UNCHANGED <<pane, agent, pid, binding, last, newer, owners, exec, resv, req, view,
                 probe, seen, runs>>

FindsFreshClaude == "codex" \notin Kinds /\ binding.n = None /\ Finds

FindsCodexThread == "codex" \in Kinds /\ Finds

OwnedBy(n, s) == link[n] \in {None, s} /\ turn[n] \in {None, s}

(* assign_discovered_session                                               *)
Discover(owned) ==
  /\ found # Idle
  /\ found' = Idle
  /\ IF owned /\ ActiveId = found.id /\ binding.n = found.cur
     THEN /\ binding' = [binding EXCEPT !.n = found.n]
          /\ last' = IF newer THEN last ELSE [last EXCEPT ![found.s] = found.n]
          /\ LinkTo(found.n, found.s)
          /\ Knows(found.s, IF runs[found.s] = found.runs THEN found.n ELSE None)
     ELSE UNCHANGED <<binding, last, link, latestLink, seen>>
  /\ UNCHANGED <<pane, agent, pid, newer, turn, latestTurn, exec, resv, req, view, probe,
                 runs>>

DiscoverAssigns == found # Idle /\ Discover(OwnedBy(found.n, found.s))

(* The writer probe reads the binding, finds no pane, and releases it.     *)
ProbeSees ==
  /\ probe = 0 /\ pane = "none" /\ binding.active
  /\ probe' = binding.id
  /\ UNCHANGED <<pane, agent, pid, binding, last, newer, owners, exec, resv, req, view,
                 found, seen, runs>>

ProbeReleasesAny ==
  /\ probe # 0
  /\ probe' = 0
  /\ binding' = [binding EXCEPT !.active = FALSE]
  /\ UNCHANGED <<pane, agent, pid, last, newer, owners, exec, resv, req, view, found, seen,
                 runs>>

ProbeReleases ==
  /\ probe # 0
  /\ probe' = 0
  /\ binding' = [binding EXCEPT !.active = binding.active /\ binding.id # probe]
  /\ UNCHANGED <<pane, agent, pid, last, newer, owners, exec, resv, req, view, found, seen,
                 runs>>

-----------------------------------------------------------------------------
(* An executor run: the reservation, then the lease and the row, then the  *)
(* release.  It continues the session's latest turn or starts one.         *)
ExecReserves(s) ==
  /\ resv = None /\ runs[s] < MaxRuns
  /\ resv' = s
  /\ UNCHANGED <<pane, agent, pid, binding, last, newer, owners, exec, req, view, found,
                 probe, seen, runs>>

LeaseFree(s) == ~Running(s) /\ pane # "agent"

ExecDispatches(s) ==
  /\ resv = s
  /\ resv' = None
  /\ \/ /\ LeaseFree(s)
        /\ \E n \in IF latestTurn[s] # None THEN {latestTurn[s]} ELSE Unused :
             /\ exec' = [exec EXCEPT ![s] = n]
             /\ turn' = [turn EXCEPT ![n] = s]
             /\ latestTurn' = [latestTurn EXCEPT ![s] = n]
             /\ Knows(s, n)
        /\ last' = [last EXCEPT ![s] = None]
        /\ newer' = (newer \/ binding.s = s)
        /\ runs' = [runs EXCEPT ![s] = @ + 1]
     \/ ~LeaseFree(s) /\ UNCHANGED <<exec, turn, latestTurn, seen, last, newer, runs>>
  /\ UNCHANGED <<pane, agent, pid, binding, link, latestLink, req, view, found, probe>>

ExecEnds(s) ==
  /\ Running(s) /\ exec' = [exec EXCEPT ![s] = None]
  /\ UNCHANGED <<pane, agent, pid, binding, last, newer, owners, resv, req, view, found,
                 probe, seen, runs>>

-----------------------------------------------------------------------------
(* get_agent_status: what the user confirms a switch against.              *)
StatusRead ==
  /\ req = Idle /\ "switch" \in Kinds
  /\ view' = [id |-> ActiveId, pid |-> IF pane = "agent" THEN pid ELSE 0]
  /\ UNCHANGED <<pane, agent, pid, binding, last, newer, owners, exec, resv, req, found,
                 probe, seen, runs>>

(* restart_agent: the session's context, with the run's state; the probe   *)
(* of the pane and the respawn; the record of the launch.                  *)
RestartReads ==
  /\ "restart" \in Kinds /\ req = Idle /\ binding.s # None /\ ~Running(binding.s)
  /\ req' = [kind |-> "restart", n |-> Resume(binding.s)]
  /\ UNCHANGED <<pane, agent, pid, binding, last, newer, owners, exec, resv, view, found,
                 probe, seen, runs>>

CanRespawn == pane \in {"shell", "waiting"} /\ pid < MaxLaunch /\ MoreBindings

RestartRespawns ==
  /\ req.kind = "restart"
  /\ \/ /\ CanRespawn
        /\ pane' = "agent" /\ pid' = pid + 1
        /\ \E r \in Opens(req.n) : agent' = r
        /\ req' = [req EXCEPT !.kind = "respawned"]
     \/ ~CanRespawn /\ req' = Idle /\ UNCHANGED <<pane, agent, pid>>
  /\ UNCHANGED <<binding, last, newer, owners, exec, resv, view, found, probe, seen, runs>>

RestartRecords ==
  /\ req.kind = "respawned"
  /\ req' = Idle
  /\ IF binding.active
     THEN RecordLaunch(binding.s, req.n) /\ Knows(binding.s, req.n)
     ELSE UNCHANGED <<binding, last, newer, seen>>
  /\ UNCHANGED <<pane, agent, pid, owners, exec, resv, view, found, probe, runs>>

-----------------------------------------------------------------------------
(* switch_agent_session: the reservation; the binding the user confirmed,  *)
(* the run's state and the conversation; the kill; the record.             *)
SwitchReserves(s) ==
  /\ "switch" \in Kinds /\ req = Idle /\ resv = None /\ MoreBindings
  /\ req' = [kind |-> "switch", s |-> s, id |-> view.id, pid |-> view.pid]
  /\ resv' = "cli"
  /\ UNCHANGED <<pane, agent, pid, binding, last, newer, owners, exec, view, found, probe,
                 seen, runs>>

Release == req' = Idle /\ resv' = None

SwitchGoesOn(ok) ==
  /\ req.kind = "switch"
  /\ \/ /\ ok
        /\ req' = [kind |-> "kill", s |-> req.s, pid |-> req.pid, n |-> Resume(req.s)]
        /\ UNCHANGED resv
     \/ ~ok /\ Release
  /\ UNCHANGED <<pane, agent, pid, binding, last, newer, owners, exec, view, found, probe,
                 seen, runs>>

SwitchChecks == req.kind = "switch" /\ SwitchGoesOn(ActiveId = req.id /\ ~Running(req.s))

SwitchKills ==
  /\ req.kind = "kill"
  /\ pane' = "none" /\ agent' = None
  /\ req' = [req EXCEPT !.kind = "killed"]
  /\ UNCHANGED <<pid, binding, last, newer, owners, exec, resv, view, found, probe, seen,
                 runs>>

SwitchRecords ==
  /\ req.kind = "killed"
  /\ RecordLaunch(req.s, req.n)
  /\ Release
  /\ UNCHANGED <<pane, agent, pid, owners, exec, view, found, probe, seen, runs>>

-----------------------------------------------------------------------------
(* adopt: the request names the binding it replaces, the process and its   *)
(* conversation; adopt_checked proves the process twice, and the           *)
(* transaction the binding and the owners of the conversation.             *)
AdoptReserves(s) ==
  /\ "adopt" \in Kinds /\ req = Idle /\ resv = None /\ MoreBindings
  /\ pane = "agent" /\ binding.active
  /\ req' = [kind |-> "adopt", s |-> s, id |-> binding.id, os |-> binding.s,
             cur |-> binding.n, n |-> agent, pid |-> pid]
  /\ resv' = "cli"
  /\ UNCHANGED <<pane, agent, pid, binding, last, newer, owners, exec, view, found, probe,
                 seen, runs>>

Evidence == pane = "agent" /\ agent = req.n /\ pid = req.pid

AdoptChecks ==
  /\ req.kind = "adopt"
  /\ \/ Evidence /\ req' = [req EXCEPT !.kind = "proved"] /\ UNCHANGED resv
     \/ ~Evidence /\ Release
  /\ UNCHANGED <<pane, agent, pid, binding, last, newer, owners, exec, view, found, probe,
                 seen, runs>>

Eligible == /\ ActiveId = req.id /\ binding.s = req.os /\ binding.n = req.cur
            /\ ~Running(req.s) /\ ~Running(req.os)

Adopts(ok) ==
  /\ req.kind = "proved"
  /\ Release
  /\ IF ok
     THEN LinkTo(req.n, req.s) /\ RecordLaunch(req.s, req.n) /\ Knows(req.s, req.n)
     ELSE UNCHANGED <<binding, last, newer, link, latestLink, seen>>
  /\ UNCHANGED <<pane, agent, pid, turn, latestTurn, exec, view, found, probe, runs>>

AdoptAssigns == req.kind = "proved" /\ Adopts(Eligible /\ OwnedBy(req.n, req.s))

-----------------------------------------------------------------------------
Next ==
  \/ \E s \in Sessions :
       \/ Attach(s) \/ ExecReserves(s) \/ ExecDispatches(s) \/ ExecEnds(s)
       \/ SwitchReserves(s) \/ AdoptReserves(s)
  \/ Wakes \/ AgentExits \/ PaneEnds \/ TuiSwitches
  \/ FindsFreshClaude \/ FindsCodexThread \/ DiscoverAssigns \/ ProbeSees \/ ProbeReleases
  \/ StatusRead \/ RestartReads \/ RestartRespawns \/ RestartRecords
  \/ SwitchChecks \/ SwitchKills \/ SwitchRecords \/ AdoptChecks \/ AdoptAssigns

Spec == Init /\ [][Next]_vars

-----------------------------------------------------------------------------
(* "Respawning would put a second agent on the same transcript and fork    *)
(* it": no conversation is written by the pane's agent and by an executor. *)
OneWriter == \A s \in Sessions : Running(s) => exec[s] # agent

(* A conversation belongs to one session: it is not linked to one and run  *)
(* by another, whatever is discovered, adopted or resumed.                 *)
OneOwner ==
  \A n \in Natives : link[n] # None /\ turn[n] # None => link[n] = turn[n]

(* The link of a conversation never moves to another session.              *)
LinksStay == \A n \in Natives : link[n] # None => link'[n] = link[n]

(* A live agent is always the agent of an active binding, except while a   *)
(* request is changing it: a stale probe never releases a new binding.     *)
AgentIsBound == pane = "agent" /\ req = Idle => binding.active

(* A switch ends only the agent process the user had seen.                 *)
KillsTheSeenAgent ==
  req.kind = "kill" /\ req'.kind = "killed" /\ pane = "agent" => pid = req.pid

(* "the conversation its pane ran last, then the executor's latest turn":  *)
(* a launch resumes the conversation last known to run in the session.     *)
ResumesLast == \A s \in Sessions : seen[s] # None => Resume(s) = seen[s]
=============================================================================
