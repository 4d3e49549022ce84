------------------------------ MODULE BusyPane ------------------------------
(***************************************************************************)
(* The hand-over of a conversation from a headless run to the CLI pane     *)
(* that waits for it.  A terminal opened while the executor runs the       *)
(* session gets a pane whose bootstrap polls for a ready file              *)
(* (crates/local-deployment/src/pty.rs); when the executor has finished    *)
(* the collaboration service writes that file, once per pane binding, and  *)
(* the bootstrap consumes it and execs the agent                           *)
(* (hold_or_resume_bound_pane_locked and reconcile_waiting_panes in        *)
(* crates/services/src/services/cli_collab.rs).  Messages of the chat meet *)
(* the same pane through the writer lease.                                 *)
(*                                                                         *)
(* One workspace, one session.  The tmux server, the ready file and the    *)
(* database outlive a crash of the server; the set of signalled bindings   *)
(* does not.                                                               *)
(***************************************************************************)
EXTENDS Naturals, FiniteSets

CONSTANTS
  Kinds,       \* what may happen: "race", "torn", "shell", "close"
  MaxSends,    \* messages the user sends from the chat
  MaxAttach,   \* terminals that create a pane
  MaxCrashes   \* times the server dies

VARIABLES
  exec,       \* "idle" or "running": the coding agent's row
  hook,       \* a completion hook is to run
  released,   \* an executor completed at or after the binding's creation
  pane,       \* "none", "wait", "starting", "agent" or "shell"
  execd,      \* the agent replaced its bootstrap, so the pane ends with it
  att,        \* the attach: "idle", "busy", "free" (what it read) or "spawned"
  binding,    \* the active binding's id, 0 when there is none
  bindings,   \* how many bindings were recorded
  signalled,  \* resume_signaled_bindings
  file,       \* the ready file: "none", "empty", "fresh" or "stale"
  svc,        \* the service under the session lock: "idle", "probe", "open", "write", "mark"
  queue,      \* a message waits in the durable slot
  sends, attaches, crashes,
  up          \* the server is running

vars == <<exec, hook, released, pane, execd, att, binding, bindings, signalled, file, svc,
          queue, sends, attaches, crashes, up>>

Init ==
  /\ exec = "idle" /\ hook = FALSE /\ released = FALSE
  /\ pane = "none" /\ execd = FALSE /\ att = "idle"
  /\ binding = 0 /\ bindings = 0 /\ signalled = {}
  /\ file = "none" /\ svc = "idle"
  /\ queue = FALSE /\ sends = 0 /\ attaches = 0 /\ crashes = 0
  /\ up = TRUE

AgentRunning == pane = "agent"

-----------------------------------------------------------------------------
(* The terminal attach that creates the pane, under the lifecycle lock and *)
(* the spawn reservation.                                                  *)

(* prepare_cli_attach: the executor is running or not, and an old ready    *)
(* file is removed when it is.                                             *)
AttachChecks ==
  /\ up /\ att = "idle" /\ pane = "none" /\ attaches < MaxAttach
  /\ attaches' = attaches + 1
  /\ att' = IF exec = "running" THEN "busy" ELSE "free"
  /\ file' = IF exec = "running" THEN "none" ELSE file
  /\ UNCHANGED <<exec, hook, released, pane, execd, binding, bindings, signalled, svc, queue,
                 sends, crashes, up>>

(* create_session: the pane waits for the file or starts the agent.        *)
AttachSpawns ==
  /\ up /\ att \in {"busy", "free"}
  /\ pane' = IF att = "busy" THEN "wait" ELSE "agent"
  /\ execd' = FALSE
  /\ att' = "spawned"
  /\ UNCHANGED <<exec, hook, released, binding, bindings, signalled, file, svc, queue, sends,
                 attaches, crashes, up>>

(* register_cli_launch: the older binding is released, a new one recorded. *)
AttachRegisters ==
  /\ up /\ att = "spawned"
  /\ att' = "idle"
  /\ bindings' = bindings + 1
  /\ binding' = bindings + 1
  /\ released' = FALSE
  /\ UNCHANGED <<exec, hook, pane, execd, signalled, file, svc, queue, sends, attaches, crashes, up>>

-----------------------------------------------------------------------------
(* The executor and the chat.                                              *)

SendMessage ==
  /\ up /\ sends < MaxSends /\ ~queue
  /\ queue' = TRUE /\ sends' = sends + 1
  /\ UNCHANGED <<exec, hook, released, pane, execd, att, binding, bindings, signalled, file,
                 svc, attaches, crashes, up>>

(* derive_lease_locked: Free when no executor runs and the pane is absent  *)
(* or has no agent and no hand-over is pending.                            *)
LeaseFree ==
  /\ exec = "idle"
  /\ \/ pane = "none"
     \/ ~AgentRunning /\ binding \notin signalled

(* drain_session with the lease Free: the executor starts, under the       *)
(* reservation.                                                            *)
Dispatch ==
  /\ up /\ queue /\ svc = "idle" /\ att = "idle" /\ LeaseFree
  /\ exec' = "running" /\ queue' = FALSE
  /\ UNCHANGED <<hook, released, pane, execd, att, binding, bindings, signalled, file, svc,
                 sends, attaches, crashes, up>>

(* drain_session with the lease of the pane: the message is pasted, and    *)
(* the running agent ends a pending hand-over.                             *)
Paste ==
  /\ up /\ queue /\ svc = "idle" /\ exec = "idle" /\ AgentRunning /\ binding # 0
  /\ queue' = FALSE
  /\ signalled' = signalled \ {binding}
  /\ UNCHANGED <<exec, hook, released, pane, execd, att, binding, bindings, file, svc, sends,
                 attaches, crashes, up>>

ExecEnds ==
  /\ up /\ exec = "running"
  /\ "race" \in Kinds \/ att = "idle"
  /\ exec' = "idle" /\ hook' = TRUE
  /\ released' = (released \/ binding # 0)
  /\ UNCHANGED <<pane, execd, att, binding, bindings, signalled, file, svc, queue, sends,
                 attaches, crashes, up>>

-----------------------------------------------------------------------------
(* The service: the completion hook, or the reconciliation of the drain    *)
(* that runs once a second, both under the session lock.                   *)

HookBegins ==
  /\ up /\ hook /\ svc = "idle"
  /\ hook' = FALSE
  /\ svc' = IF exec = "idle" /\ binding # 0 THEN "probe" ELSE "idle"
  /\ UNCHANGED <<exec, released, pane, execd, att, binding, bindings, signalled, file, queue,
                 sends, attaches, crashes, up>>

ReconcileBegins ==
  /\ up /\ svc = "idle" /\ binding # 0 /\ exec = "idle" /\ released
  /\ pane # "agent" \/ binding \in signalled   \* otherwise it changes nothing
  /\ svc' = "probe"
  /\ UNCHANGED <<exec, hook, released, pane, execd, att, binding, bindings, signalled, file,
                 queue, sends, attaches, crashes, up>>

(* hold_or_resume_bound_pane_locked up to the signal: a dead pane releases *)
(* the binding, a running agent ends the hand-over, a signalled pane is    *)
(* left alone.                                                             *)
ProbesPane ==
  /\ up /\ svc = "probe"
  /\ \/ /\ pane = "none"
        /\ binding' = 0 /\ signalled' = signalled \ {binding} /\ svc' = "idle"
     \/ /\ pane = "agent"
        /\ signalled' = signalled \ {binding} /\ svc' = "idle" /\ UNCHANGED binding
     \/ /\ pane \notin {"none", "agent"} /\ binding \in signalled
        /\ svc' = "idle" /\ UNCHANGED <<binding, signalled>>
     \/ /\ pane \notin {"none", "agent"} /\ binding \notin signalled
        /\ svc' = "open" /\ UNCHANGED <<binding, signalled>>
  /\ UNCHANGED <<exec, hook, released, pane, execd, att, bindings, file, queue, sends,
                 attaches, crashes, up>>

(* write_private_file creates or truncates the file, then writes it.  What *)
(* the bootstrap unlinked in between is written to no path.                *)
OpensFile ==
  /\ up /\ svc = "open"
  /\ file' = "empty" /\ svc' = "write"
  /\ UNCHANGED <<exec, hook, released, pane, execd, att, binding, bindings, signalled, queue,
                 sends, attaches, crashes, up>>

WritesFile ==
  /\ up /\ svc = "write"
  /\ file' = IF file = "empty" THEN "fresh" ELSE file
  /\ svc' = "mark"
  /\ UNCHANGED <<exec, hook, released, pane, execd, att, binding, bindings, signalled, queue,
                 sends, attaches, crashes, up>>

Marks ==
  /\ up /\ svc = "mark"
  /\ signalled' = signalled \cup {binding}
  /\ svc' = "idle"
  /\ UNCHANGED <<exec, hook, released, pane, execd, att, binding, bindings, file, queue, sends,
                 attaches, crashes, up>>

-----------------------------------------------------------------------------
(* The pane.                                                               *)

(* The bootstrap polls: a fresh file is consumed and the agent exec'd; an  *)
(* empty, torn or old one is removed.                                      *)
Polls ==
  /\ pane = "wait" /\ file # "none"
  /\ file = "empty" /\ svc = "write" => "torn" \in Kinds
  /\ file' = "none"
  /\ pane' = IF file = "fresh" THEN "starting" ELSE "wait"
  /\ execd' = (file = "fresh")
  /\ UNCHANGED <<exec, hook, released, att, binding, bindings, signalled, svc, queue, sends,
                 attaches, crashes, up>>

AgentUp ==
  /\ pane = "starting"
  /\ pane' = "agent"
  /\ UNCHANGED <<exec, hook, released, execd, att, binding, bindings, signalled, file, svc,
                 queue, sends, attaches, crashes, up>>

(* The agent exits: an exec'd one ends the pane, any other leaves a shell. *)
AgentExits ==
  /\ pane = "agent" /\ att = "idle"
  /\ \/ execd /\ pane' = "none"
     \/ ~execd /\ "shell" \in Kinds /\ pane' = "shell"
  /\ UNCHANGED <<exec, hook, released, execd, att, binding, bindings, signalled, file, svc,
                 queue, sends, attaches, crashes, up>>

(* The user closes the pane.                                               *)
PaneCloses ==
  /\ "close" \in Kinds /\ pane # "none" /\ att = "idle"
  /\ pane' = "none"
  /\ UNCHANGED <<exec, hook, released, execd, att, binding, bindings, signalled, file, svc,
                 queue, sends, attaches, crashes, up>>

(* Sixty seconds pass over a file nobody polls.                            *)
Expires ==
  /\ file = "fresh" /\ pane # "wait"
  /\ file' = "stale"
  /\ UNCHANGED <<exec, hook, released, pane, execd, att, binding, bindings, signalled, svc,
                 queue, sends, attaches, crashes, up>>

(* The server dies outside an attach, and starts again: that takes longer  *)
(* than a poll of the pane.  A run it had going is marked Failed.          *)
Crash ==
  /\ up /\ att = "idle" /\ crashes < MaxCrashes
  /\ up' = FALSE /\ crashes' = crashes + 1
  /\ svc' = "idle" /\ hook' = FALSE /\ signalled' = {}
  /\ UNCHANGED <<exec, released, pane, execd, att, binding, bindings, file, queue, sends,
                 attaches>>

Restart ==
  /\ ~up /\ ~(pane = "wait" /\ file \in {"fresh", "stale"}) /\ pane # "starting"
  /\ up' = TRUE
  /\ exec' = "idle"
  /\ released' = (released \/ (exec = "running" /\ binding # 0))
  /\ UNCHANGED <<hook, pane, execd, att, binding, bindings, signalled, file, svc, queue, sends,
                 attaches, crashes>>

Next ==
  \/ AttachChecks \/ AttachSpawns \/ AttachRegisters
  \/ SendMessage \/ Dispatch \/ Paste \/ ExecEnds
  \/ HookBegins \/ ReconcileBegins \/ ProbesPane \/ OpensFile \/ WritesFile \/ Marks
  \/ Polls \/ AgentUp \/ AgentExits \/ PaneCloses \/ Expires
  \/ Crash \/ Restart

Spec == Init /\ [][Next]_vars

(* An attach that has begun, and the service under the session lock.       *)
AttachGoesOn == AttachSpawns \/ AttachRegisters
Service == ProbesPane \/ OpensFile \/ WritesFile \/ Marks

-----------------------------------------------------------------------------
(* The conversation has one writer: the pane's agent is not started on it  *)
(* while the executor runs it, and no run starts beside the agent.         *)
OneWriter == ~(exec = "running" /\ pane \in {"starting", "agent"})

(* No pane waits for the executor, and no message waits behind a hand-over *)
(* that was signalled.                                                     *)
NothingWaits == pane # "wait" /\ ~queue
=============================================================================
