--------------------------------- MODULE MCPrompts ----------------------------
(***************************************************************************)
(* What reaches the agent of a CLI pane, and what the sidebar says of it:  *)
(* the launch of the pane with its parked prompt, the sends into it, the   *)
(* loop supervisor, and the two writers of the pane's activity.            *)
(*                                                                         *)
(* Each component is instantiated for one or more questions, named by      *)
(* focus, which is chosen initially. The components share no variable, so  *)
(* a behaviour in which one of them moves and the others rest shows        *)
(* everything that it can do.                                              *)
(*                                                                         *)
(* CliSend is extended, with the constants of the configuration: two       *)
(* senders, failing commands, callers that leave and repeat, an agent that *)
(* exits ("send").                                                         *)
(***************************************************************************)
EXTENDS CliSend
VARIABLES
  \* PaneLaunch
  rows, slot, file, pane, known, fresh, lock, claim, att, parks, took, used,
  \* LoopSupervisor
  policy, wakes, loopPane, loopSlot, loopClaim, sup, got, auto, loopUsed,
  \* CliActivity
  row, activityPane, activityAgent, reports, poll, mem, activityUsed,
  focus  \* the component that moves

\* A parked prompt, whatever fails on its way.
Launch == INSTANCE PaneLaunch WITH
  Attaches <- {"a1", "a2"}, Small <- {"s"}, Big <- {"b"}, MaxParks <- 1,
  MaxExits <- 1, MaxCrashes <- 0,
  May <- {"missing", "exec_fails", "spawn_fails", "register_fails", "clear_fails", "hasty", "busy", "restart", "switch"}

\* The same with one attach at a time and a crash.
Crashed == INSTANCE PaneLaunch WITH
  Attaches <- {"a1"}, Small <- {"s"}, Big <- {"b"}, MaxParks <- 1,
  MaxExits <- 1, MaxCrashes <- 1,
  May <- {"missing", "exec_fails", "spawn_fails", "register_fails", "clear_fails", "hasty", "busy", "restart", "switch"}

\* Attaches that race while nothing fails.
Calm == INSTANCE PaneLaunch WITH
  Attaches <- {"a1", "a2"}, Small <- {"s"}, Big <- {"b"}, MaxParks <- 2,
  MaxExits <- 0, MaxCrashes <- 0,
  May <- {"busy", "missing", "no_conversation"}

\* A user who keeps opening the terminal.
Reopen == INSTANCE PaneLaunch WITH
  Attaches <- {"a1", "a2"}, Small <- {"s"}, Big <- {"b"}, MaxParks <- 2,
  MaxExits <- 0, MaxCrashes <- 1, May <- {"busy"}

\* Wake-ups and limits while the database answers.
Loop == INSTANCE LoopSupervisor WITH
  MaxWakes <- 2, MaxDelay <- 1, Kinds <- {"rate_limit_retry"}, Caps <- {1},
  MaxEdits <- 1, MaxBanners <- 1, MaxReaps <- 1, MaxCrashes <- 0,
  Switches <- {"send_fails"}, pane <- loopPane, slot <- loopSlot,
  claim <- loopClaim, used <- loopUsed

\* Failing reads and writes, and a loop that is switched off.
LoopFaults == INSTANCE LoopSupervisor WITH
  MaxWakes <- 2, MaxDelay <- 1, Kinds <- {"rate_limit_retry"}, Caps <- {1},
  MaxEdits <- 1, MaxBanners <- 1, MaxReaps <- 0, MaxCrashes <- 0,
  Switches <- {"no_session", "db_fails", "tick_fails", "disables"},
  pane <- loopPane, slot <- loopSlot, claim <- loopClaim, used <- loopUsed

\* An uncapped loop through a crash.
LoopLive == INSTANCE LoopSupervisor WITH
  MaxWakes <- 2, MaxDelay <- 1, Kinds <- {"rate_limit_retry"}, Caps <- {0},
  MaxEdits <- 1, MaxBanners <- 1, MaxReaps <- 0, MaxCrashes <- 1,
  Switches <- {}, pane <- loopPane, slot <- loopSlot, claim <- loopClaim,
  used <- loopUsed

\* Two agents, one after the other, lost and overtaking reports, failing
\* ticks and a restart.
Activity == INSTANCE CliActivity WITH
  Events <- {"start", "work", "stop"}, MaxReports <- 2, MaxMoves <- 2,
  MaxFaults <- 1, pane <- activityPane, agent <- activityAgent,
  used <- activityUsed

\* The other hook events.
Phases == INSTANCE CliActivity WITH

  Events <- {"ask", "idle_prompt", "stop_busy", "stop_failure", "subagent_stop", "end"},
  MaxReports <- 2, MaxMoves <- 1, MaxFaults <- 0, pane <- activityPane,
  agent <- activityAgent, used <- activityUsed

launchVars == <<rows, slot, file, pane, known, fresh, lock, claim, att, parks,
                took, used>>
loopVars == <<policy, wakes, loopPane, loopSlot, loopClaim, sup, got, auto,
              loopUsed>>
activityVars == <<row, activityPane, activityAgent, reports, poll, mem,
                  activityUsed>>
promptsVars == <<launchVars, sendVars, loopVars, activityVars, focus>>

PromptsInit ==
  /\ focus \in {"launch", "crashed", "calm", "reopen", "send", "loop", "loop_faults", "loop_live", "activity", "phases"}
  /\ IF focus = "crashed" THEN Crashed!Init ELSE Launch!Init
  /\ focus \notin {"launch", "crashed", "calm", "reopen"} => slot[1] = Launch!Blank
  /\ SendInit
  /\ IF focus = "loop_live" THEN LoopLive!Init ELSE Loop!Init
  /\ focus \notin {"loop", "loop_faults", "loop_live"} => loopSlot = 0
  /\ Activity!Init

OnlyLaunch == UNCHANGED <<sendVars, loopVars, activityVars, focus>>
OnlySending == UNCHANGED <<launchVars, loopVars, activityVars, focus>>
OnlyLoop == UNCHANGED <<launchVars, sendVars, activityVars, focus>>
OnlyActivity == UNCHANGED <<launchVars, sendVars, loopVars, focus>>

InLaunch == focus = "launch"
InCrashed == focus = "crashed"
InCalm == focus = "calm"
InReopen == focus = "reopen"
InSending == focus = "send"
InLoop == focus = "loop"
InLoopFaults == focus = "loop_faults"
InLoopLive == focus = "loop_live"
InActivity == focus = "activity"
InPhases == focus = "phases"

LaunchMoves == InLaunch /\ Launch!Next /\ OnlyLaunch
CrashedMoves == InCrashed /\ Crashed!Next /\ OnlyLaunch
CalmMoves == InCalm /\ Calm!Next /\ OnlyLaunch
ReopenMoves == InReopen /\ Reopen!Next /\ OnlyLaunch
SendingMoves == InSending /\ SendNext /\ OnlySending
LoopMoves == InLoop /\ Loop!Next /\ OnlyLoop
LoopFaultsMoves == InLoopFaults /\ LoopFaults!Next /\ OnlyLoop
LoopLiveMoves == InLoopLive /\ LoopLive!Next /\ OnlyLoop
ActivityMoves == InActivity /\ Activity!Next /\ OnlyActivity
PhasesMoves == InPhases /\ Phases!Next /\ OnlyActivity
PromptsNext == LaunchMoves \/ CrashedMoves \/ CalmMoves \/ ReopenMoves \/ SendingMoves \/ LoopMoves \/ LoopFaultsMoves \/ LoopLiveMoves \/ ActivityMoves \/ PhasesMoves

PromptsSpec ==
  /\ PromptsInit /\ [][PromptsNext]_promptsVars
  /\ \A x \in {"a1", "a2"} :
       SF_promptsVars(InReopen /\ Reopen!Enter(x) /\ OnlyLaunch)
  /\ \A x \in {"a1", "a2"} :
       WF_promptsVars(InReopen /\ Reopen!Attach(x) /\ OnlyLaunch)
  /\ \A x \in {"a1", "a2"} :
       WF_promptsVars(InReopen /\ Reopen!Delivers(x) /\ OnlyLaunch)
  /\ WF_promptsVars(InReopen /\ Reopen!PaneRuns /\ OnlyLaunch)
  /\ WF_promptsVars(InLoopLive /\ LoopLive!Tick /\ OnlyLoop)
  /\ WF_promptsVars(InLoopLive /\ LoopLive!Supervisor /\ OnlyLoop)
  /\ WF_promptsVars(InLoopLive /\ LoopLive!Time /\ OnlyLoop)
  /\ WF_promptsVars(InLoopLive /\ LoopLive!Open /\ OnlyLoop)
  /\ SF_promptsVars(InLoopLive /\ LoopLive!AttachClaims /\ OnlyLoop)
  /\ WF_promptsVars(InLoopLive /\ LoopLive!AttachDelivers /\ OnlyLoop)
  /\ WF_promptsVars(InActivity /\ Activity!Handle /\ OnlyActivity)
  /\ WF_promptsVars(InActivity /\ Activity!Tick /\ OnlyActivity)
  /\ WF_promptsVars(InPhases /\ Phases!Handle /\ OnlyActivity)
  /\ WF_promptsVars(InPhases /\ Phases!Tick /\ OnlyActivity)

-----------------------------------------------------------------------------
\* No failure between the attach and the agent destroys the only copy of a
\* parked prompt (peek_pending_cli_prompt, confirm_baked_prompt_consumed).
NeverLost == focus \in {"launch", "crashed", "reopen"} => Launch!NeverLost

\* When nothing fails on the way, no prompt is handed over twice: the claim
\* is held for the whole of a delivery (CliPromptDelivery).
HandedOnce == focus = "calm" => Calm!HandedOnce

\* At most one retry of a limit is pending, whatever fails
\* (detect_and_schedule); and while the database answers, no prompt reaches
\* the agent twice, automatic ones stay under the cap and no manual wake-up
\* is dropped (deliver_due_wakeups).
SentAsAsked ==
  /\ focus \in {"loop", "loop_faults", "loop_live"} => Loop!OneRetry
  /\ focus = "loop" => Loop!SentAsAsked

\* A parked prompt is handed to an agent in the end, whichever row holds it.
ParkedIsDelivered == <>[](focus = "reopen" => Reopen!NothingWaits)

\* An agent that stays at a limit is prompted, as long as the loop is on.
LimitRetried == []<>(focus = "loop_live" => LoopLive!Retried)

\* Once the agent and the user rest, the sidebar bucket comes to be right,
\* whichever of the poller and the hook reports wrote last
\* (CliActivityMonitor, upsert_hook).
BucketConverges ==
  <>[](focus \in {"activity", "phases"} => Activity!BucketIsRight)
=============================================================================
