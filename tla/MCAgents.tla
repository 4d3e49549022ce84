--------------------------------- MODULE MCAgents -----------------------------
(***************************************************************************)
(* The agents of a session and who may write to them: the approvals that a *)
(* run waits for, the message store that its readers follow, and the       *)
(* requests that start, switch, adopt and hand over the agent of the CLI   *)
(* pane.                                                                   *)
(*                                                                         *)
(* Each component is instantiated for one or more questions, named by      *)
(* focus, which is chosen initially. The components share no variable, so  *)
(* a behaviour in which one of them moves and the others rest shows        *)
(* everything that it can do.                                              *)
(*                                                                         *)
(* Approvals and LogStore are extended, with the constants of the          *)
(* configuration: an approval and a question, two tabs that answer,        *)
(* rightly or not, a stop, a crash of the agent and cut lines ("ask"); a   *)
(* store whose history and ring are shorter than the output ("logs").      *)
(***************************************************************************)
EXTENDS Approvals, LogStore
VARIABLES
  \* BusyPane
  exec, hook, released, pane, execd, att, binding, bindings, signalled,
  busyFile, svc, busyQueue, sends, attaches, crashes, up,
  \* PaneSwitch
  switchPane, switchAgent, pid, switchBinding, last, newer, switchLink,
  latestLink, turn, latestTurn, switchExec, resv, req, switchView, found,
  probe, seen, runs,
  \* Handover
  op, handBinding, owner, handPane, exits, hooks, inited, handExec, h,
  handResv, used,
  focus  \* the component that moves

\* Answers of the right kind and whole lines.
Answering == INSTANCE Approvals WITH
  Asks <- 2, Questions <- {2}, Tabs <- {"t1", "t2"}, MaxAnswers <- 1,
  Capacity <- 2, Kinds <- {"stop", "crash"}

\* A viewer, a ring that nobody falls behind, and failing writes.
Followed == INSTANCE LogStore WITH
  MaxOut <- 1, HistoryMax <- 2, Ring <- 8, Attempts <- 2,
  Viewers <- TRUE, MaxFaults <- 2

\* Panes that are opened beside runs, closed and left to a shell.
Busy == INSTANCE BusyPane WITH
  Kinds <- {"close", "shell", "torn"}, MaxSends <- 3, MaxAttach <- 3,
  MaxCrashes <- 1, file <- busyFile, queue <- busyQueue

\* Panes that wait for a run, through a crash.
Waiting == INSTANCE BusyPane WITH
  Kinds <- {"close"}, MaxSends <- 3, MaxAttach <- 2, MaxCrashes <- 1,
  file <- busyFile, queue <- busyQueue

\* Switches and adoptions beside runs.
Switching == INSTANCE PaneSwitch WITH
  Sessions <- {"a", "b"}, Natives <- {"n1", "n2"}, MaxLaunch <- 2,
  Kinds <- {"switch", "adopt"}, MaxRuns <- 1, MaxBindings <- 2,
  pane <- switchPane, agent <- switchAgent, binding <- switchBinding,
  link <- switchLink, exec <- switchExec, view <- switchView

\* Restarts of a dead agent.
Restarting == INSTANCE PaneSwitch WITH
  Sessions <- {"a", "b"}, Natives <- {"n1", "n2"}, MaxLaunch <- 2,
  Kinds <- {"restart"}, MaxRuns <- 1, MaxBindings <- 3, pane <- switchPane,
  agent <- switchAgent, binding <- switchBinding, link <- switchLink,
  exec <- switchExec, view <- switchView

\* Panes that wait for runs.
Sharing == INSTANCE PaneSwitch WITH
  Sessions <- {"a", "b"}, Natives <- {"n1", "n2"}, MaxLaunch <- 2,
  Kinds <- {"wait"}, MaxRuns <- 2, MaxBindings <- 3, pane <- switchPane,
  agent <- switchAgent, binding <- switchBinding, link <- switchLink,
  exec <- switchExec, view <- switchView

\* Agents that report their conversation.
Reporting == INSTANCE PaneSwitch WITH
  Sessions <- {"a", "b"}, Natives <- {"n1", "n2"}, MaxLaunch <- 2,
  Kinds <- {"codex"}, MaxRuns <- 2, MaxBindings <- 2, pane <- switchPane,
  agent <- switchAgent, binding <- switchBinding, link <- switchLink,
  exec <- switchExec, view <- switchView

\* A handover beside headless runs of both sessions.
Handing == INSTANCE Handover WITH
  Deadline <- 2, MaxCrashes <- 0, MaxNewer <- 1,
  Headless <- {"pred", "succ"}, SlowStart <- FALSE, binding <- handBinding,
  pane <- handPane, exec <- handExec, resv <- handResv

\* A handover through a crash, with slow starts.
Crashing == INSTANCE Handover WITH
  Deadline <- 1, MaxCrashes <- 1, MaxNewer <- 1, Headless <- {"pred"},
  SlowStart <- TRUE, binding <- handBinding, pane <- handPane,
  exec <- handExec, resv <- handResv

busyVars == <<exec, hook, released, pane, execd, att, binding, bindings,
              signalled, busyFile, svc, busyQueue, sends, attaches, crashes,
              up>>
switchingVars == <<switchPane, switchAgent, pid, switchBinding, last, newer,
                   switchLink, latestLink, turn, latestTurn, switchExec, resv,
                   req, switchView, found, probe, seen, runs>>
handingVars == <<op, handBinding, owner, handPane, exits, hooks, inited,
                 handExec, h, handResv, used>>
agentsVars == <<vars, logVars, busyVars, switchingVars, handingVars, focus>>

AgentsInit ==
  /\ focus \in {"ask", "answer", "logs", "followed", "busy", "waiting", "switch", "restart", "share", "report", "hand", "crash"}
  /\ Init
  /\ LogInit
  /\ Busy!Init
  /\ Switching!Init
  /\ IF focus = "crash" THEN Crashing!Init ELSE Handing!Init
  /\ focus \notin {"hand", "crash"} => owner = "none"

OnlyAsking == UNCHANGED <<logVars, busyVars, switchingVars, handingVars, focus>>
OnlyLogs == UNCHANGED <<vars, busyVars, switchingVars, handingVars, focus>>
OnlyBusy == UNCHANGED <<vars, logVars, switchingVars, handingVars, focus>>
OnlySwitching == UNCHANGED <<vars, logVars, busyVars, handingVars, focus>>
OnlyHanding == UNCHANGED <<vars, logVars, busyVars, switchingVars, focus>>

InAsking == focus = "ask"
InAnswering == focus = "answer"
InLogs == focus = "logs"
InFollowed == focus = "followed"
InBusy == focus = "busy"
InWaiting == focus = "waiting"
InSwitching == focus = "switch"
InRestarting == focus = "restart"
InSharing == focus = "share"
InReporting == focus = "report"
InHanding == focus = "hand"
InCrashing == focus = "crash"

AskingMoves == InAsking /\ Next /\ OnlyAsking
AnsweringMoves == InAnswering /\ Answering!Next /\ OnlyAsking
LogsMoves == InLogs /\ LogNext /\ OnlyLogs
FollowedMoves == InFollowed /\ Followed!LogNext /\ OnlyLogs
BusyMoves == InBusy /\ Busy!Next /\ OnlyBusy
WaitingMoves == InWaiting /\ Waiting!Next /\ OnlyBusy
SwitchingMoves == InSwitching /\ Switching!Next /\ OnlySwitching
RestartingMoves == InRestarting /\ Restarting!Next /\ OnlySwitching
SharingMoves == InSharing /\ Sharing!Next /\ OnlySwitching
ReportingMoves == InReporting /\ Reporting!Next /\ OnlySwitching
HandingMoves == InHanding /\ Handing!Next /\ OnlyHanding
CrashingMoves == InCrashing /\ Crashing!Next /\ OnlyHanding
AgentsNext == AskingMoves \/ AnsweringMoves \/ LogsMoves \/ FollowedMoves \/ BusyMoves \/ WaitingMoves \/ SwitchingMoves \/ RestartingMoves \/ SharingMoves \/ ReportingMoves \/ HandingMoves \/ CrashingMoves

AgentsSpec ==
  /\ AgentsInit /\ [][AgentsNext]_agentsVars
  /\ WF_agentsVars(InAnswering /\ Answering!Stream /\ OnlyAsking)
  /\ WF_agentsVars(InAnswering /\ Answering!AgentResumes /\ OnlyAsking)
  /\ WF_agentsVars(InAnswering /\ Answering!AgentAsks /\ OnlyAsking)
  /\ WF_agentsVars(InAnswering /\ Answering!AskedEnds /\ OnlyAsking)
  /\ WF_agentsVars(InAnswering /\ Answering!ReadLoop /\ OnlyAsking)
  /\ \A x \in 1..2 :
       WF_agentsVars(InAnswering /\ Answering!WatcherSees(x) /\ OnlyAsking)
  /\ \A x \in 1..2 :
       WF_agentsVars(InAnswering /\ Answering!DeadlinePasses(x) /\ OnlyAsking)
  /\ \A x \in 1..2 :
       WF_agentsVars(InAnswering /\ Answering!TimesOut(x) /\ OnlyAsking)
  /\ \A x \in {"t1", "t2"} :
       WF_agentsVars(InAnswering /\ (Answering!RespondRefuses(x) \/ Answering!RespondResolves(x)) /\ OnlyAsking)
  /\ WF_agentsVars(InFollowed /\ Followed!Starts /\ OnlyLogs)
  /\ WF_agentsVars(InFollowed /\ Followed!Exits /\ OnlyLogs)
  /\ WF_agentsVars(InFollowed /\ Followed!Forward /\ OnlyLogs)
  /\ \A x \in {"normalizer", "output", "metadata", "viewer"} :
       WF_agentsVars(InFollowed /\ Followed!Follows(x) /\ OnlyLogs)
  /\ WF_agentsVars(InFollowed /\ Followed!Normalizer /\ OnlyLogs)
  /\ WF_agentsVars(InFollowed /\ Followed!OutputReads /\ OnlyLogs)
  /\ WF_agentsVars(InFollowed /\ Followed!MetadataReads /\ OnlyLogs)
  /\ WF_agentsVars(InFollowed /\ Followed!ViewerReads /\ OnlyLogs)
  /\ WF_agentsVars(InFollowed /\ Followed!Monitor /\ OnlyLogs)
  /\ WF_agentsVars(InWaiting /\ Waiting!AttachGoesOn /\ OnlyBusy)
  /\ SF_agentsVars(InWaiting /\ Waiting!Dispatch /\ OnlyBusy)
  /\ SF_agentsVars(InWaiting /\ Waiting!Paste /\ OnlyBusy)
  /\ WF_agentsVars(InWaiting /\ Waiting!ExecEnds /\ OnlyBusy)
  /\ WF_agentsVars(InWaiting /\ Waiting!HookBegins /\ OnlyBusy)
  /\ SF_agentsVars(InWaiting /\ Waiting!ReconcileBegins /\ OnlyBusy)
  /\ WF_agentsVars(InWaiting /\ Waiting!Service /\ OnlyBusy)
  /\ WF_agentsVars(InWaiting /\ Waiting!Polls /\ OnlyBusy)
  /\ WF_agentsVars(InWaiting /\ Waiting!AgentUp /\ OnlyBusy)
  /\ WF_agentsVars(InWaiting /\ Waiting!Restart /\ OnlyBusy)
  /\ WF_agentsVars(InCrashing /\ Crashing!AgentStarts /\ OnlyHanding)
  /\ WF_agentsVars(InCrashing /\ Crashing!Handler /\ OnlyHanding)
  /\ WF_agentsVars(InCrashing /\ Crashing!Reconcile /\ OnlyHanding)
  /\ WF_agentsVars(InCrashing /\ Crashing!Tick /\ OnlyHanding)
  /\ WF_agentsVars(InCrashing /\ Crashing!ReservationExpires /\ OnlyHanding)

-----------------------------------------------------------------------------
\* A live agent is the agent of an active binding, a conversation belongs to
\* one session, and a launch resumes the conversation that the session ran
\* last (cli_pane_binding.rs, resume_session_id).
AgentIsBound ==
  /\ focus \in {"switch", "restart"} => Switching!AgentIsBound
  /\ focus = "switch" => Switching!OneOwner
  /\ focus = "report" => Switching!ResumesLast

\* A conversation has one writer: the agent of the pane never runs beside a
\* headless run of its conversation (derive_lease_locked, the spawn
\* reservation).
OneWriter ==
  /\ Busy!OneWriter
  /\ focus = "share" => Sharing!OneWriter
  /\ focus = "hand" => Handing!OneWriter

\* What a request may never do: leave an approval behind that nobody waits
\* for; kill an agent that the user has not seen, or move the link of a
\* conversation; reopen a finished handover, confirm one that has a fallback,
\* kill a newer launch for the fallback, or record a rollback without the
\* start report of the fallback.
NoOverreach ==
  [][/\ focus \in {"ask", "answer"} => WithdrawnOnStop
     /\ focus \in {"switch", "restart"} => Switching!KillsTheSeenAgent /\ Switching!LinksStay
     /\ focus \in {"hand", "crash"} => Handing!Final /\ Handing!NewerPaneKept
     /\ focus = "hand" => Handing!RolledBackHasReceipt]_agentsVars

\* In the end nothing waits: an approval is answered, withdrawn or timed out,
\* the readers of the store have ended, the waiting pane and the message have
\* gone on, and the handover is settled.
NothingWaits ==
  <>[](/\ focus = "answer" => Answering!Settled
       /\ focus = "followed" => Followed!ReadersEnded
       /\ focus = "waiting" => Waiting!NothingWaits
       /\ focus = "crash" => ~Crashing!Unfinished)
=============================================================================
