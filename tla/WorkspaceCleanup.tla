-------------------------- MODULE WorkspaceCleanup --------------------------
(***************************************************************************)
(* The periodic clean-up of local-deployment/container.rs, beside the       *)
(* requests that open, archive and delete a workspace.  One workspace is    *)
(* followed: its row, its worktree directory, its executions and the tmux   *)
(* session of its CLI pane.                                                 *)
(*                                                                          *)
(* The clean-up is one task.  A round first removes the worktree of an      *)
(* expired workspace and then reaps tmux sessions; each looks at the world  *)
(* several times before it acts, and the requests run between any two of    *)
(* its steps.  Ages count up and stop at the first value that is too old    *)
(* for every limit.                                                         *)
(***************************************************************************)
EXTENDS Integers

CONSTANTS
  Grace,        \* ACTIVITY_GRACE_SECS
  ArchivedTtl,  \* an archived workspace expires after this age
  IdleTtl,      \* IDLE_REAP_HOURS
  KeepTtl,      \* any workspace expires after this age
  MaxOps,       \* requests of the user
  MaxOutputs,   \* times that the pane prints something
  MaxArchives,  \* times that the workspace is archived
  MaxCrashes,   \* crashes of the server
  Switches      \* what may happen: a subset of Events

Events == {"open", "view", "exec", "dev", "detach", "pin", "archive", "delete", "bulk", "fails", "no_tmux"}

VARIABLES
  ws,     \* the row of workspaces; archived_at is the number of the archiving
  age,    \* time since last_activity
  runs,   \* which executions of the workspace run: a subset of Reasons
  dir,    \* does the worktree directory exist?
  pane,   \* the tmux session
  jan,    \* the clean-up task
  req,    \* a request that opens the terminal, shows the changes or starts an execution
  arc,    \* a request that archives the workspace
  del,    \* a request that deletes it, and the clean-up that it spawns
  review, \* the archived_at that the user saw in the list of archived workspaces
  working,\* has the agent of the pane been at work, and not silent for IdleTtl, since the round began?
  running,\* is an execution running since before the round?
  used    \* requests, outputs, archivings and crashes so far

vars == <<ws, age, runs, dir, pane, jan, req, arc, del, review, working, running, used>>

Uses == {"open", "view", "exec", "dev"}
Reasons == {"agent", "dev_server", "archive_script"}
NotDev == {"agent", "archive_script"}
Never == 0
Oldest == KeepTtl + 1
NoPane == [up |-> FALSE, attached |-> FALSE, busy |-> FALSE, idle |-> 0]
NoRow == [here |-> FALSE, archived |-> FALSE, archived_at |-> Never, pinned |-> FALSE, gone |-> FALSE]
Asleep == [pc |-> "asleep", row |-> NoRow, attached |-> FALSE, idle |-> 0]
Idle == [pc |-> "idle", kind |-> "open", row |-> NoRow]

Init ==
  /\ ws = [NoRow EXCEPT !.here = TRUE]
  /\ age = 0 /\ runs = {} /\ dir = TRUE /\ pane = NoPane
  /\ jan = [Asleep EXCEPT !.pc = "sweep"]
  /\ req = Idle /\ arc = "idle" /\ del = "idle" /\ review = Never
  /\ working = FALSE /\ running = FALSE
  /\ used = [ops |-> 0, outputs |-> 0, archives |-> 0, crashes |-> 0]

May(what) == what \in Switches
Fails == May("fails")
Op(what) == May(what) /\ used.ops < MaxOps
Spend == used' = [used EXCEPT !.ops = @ + 1]

Killed == pane' = NoPane /\ working' = FALSE
\* kill-session is best effort.
KillsBestEffort ==
  \/ Killed
  \/ Fails /\ UNCHANGED <<pane, working>>

-----------------------------------------------------------------------------
(* The world around the server. *)

Tick ==
  /\ \/ age < Oldest
     \/ pane.up /\ pane.idle < IdleTtl + 1
  /\ age' = IF age < Oldest THEN age + 1 ELSE age
  /\ pane' = IF pane.up /\ pane.idle < IdleTtl + 1 THEN [pane EXCEPT !.idle = @ + 1] ELSE pane
  /\ working' = (working /\ pane'.idle <= IdleTtl)
  /\ UNCHANGED <<ws, runs, dir, jan, req, arc, del, review, running, used>>

\* The agent of the pane starts to work or goes on working: it prints
\* something, and the poller notes the transition.
Output ==
  /\ pane.up /\ used.outputs < MaxOutputs
  /\ used' = [used EXCEPT !.outputs = @ + 1]
  /\ pane' = [pane EXCEPT !.busy = TRUE, !.idle = 0]
  /\ age' = IF ws.here THEN 0 ELSE age
  /\ UNCHANGED <<ws, runs, dir, jan, req, arc, del, review, working, running>>

\* The agent ends and leaves the shell.
AgentEnds ==
  /\ pane.busy
  /\ pane' = [pane EXCEPT !.busy = FALSE]
  /\ working' = FALSE
  /\ UNCHANGED <<ws, age, runs, dir, jan, req, arc, del, review, running, used>>

Detach ==
  /\ May("detach") /\ pane.attached
  /\ pane' = [pane EXCEPT !.attached = FALSE]
  /\ UNCHANGED <<ws, age, runs, dir, jan, req, arc, del, review, working, running, used>>

ExecutionEnds(r) ==
  /\ r \in runs
  /\ runs' = runs \ {r}
  /\ running' = (running /\ runs' # {})
  /\ age' = IF ws.here THEN 0 ELSE age
  /\ UNCHANGED <<ws, dir, pane, jan, req, arc, del, review, working, used>>

-----------------------------------------------------------------------------
(* Requests that use the workspace. *)

\* The route loads the row.  The terminal refuses to open without the directory.
Load(kind) ==
  /\ Op(kind) /\ req.pc = "idle" /\ ws.here /\ (kind = "open" => dir)
  /\ Spend
  /\ req' = [pc |-> IF kind = "open" THEN "start" ELSE "ensure", kind |-> kind, row |-> ws]
  /\ UNCHANGED <<ws, age, runs, dir, pane, jan, arc, del, review, working, running>>

\* ensure_container_exists: touches the row, recreates the worktree, and clears
\* worktree_deleted if the row that was loaded had it.
EnsureContainerExists ==
  /\ req.pc = "ensure"
  /\ req' = IF req.kind = "view" THEN Idle ELSE [req EXCEPT !.pc = "start"]
  /\ dir' = TRUE
  /\ age' = IF ws.here THEN 0 ELSE age
  /\ ws' = IF ws.here /\ req.row.gone THEN [ws EXCEPT !.gone = FALSE] ELSE ws
  /\ UNCHANGED <<runs, pane, jan, arc, del, review, working, running, used>>

\* Attaches to the session, which it creates if there is none; without tmux
\* the terminal is a plain shell.
AttachPane ==
  /\ req.pc = "start" /\ req.kind = "open"
  /\ req' = Idle
  /\ pane' = IF May("no_tmux") THEN pane
             ELSE IF pane.up THEN [pane EXCEPT !.attached = TRUE]
             ELSE [NoPane EXCEPT !.up = TRUE, !.attached = TRUE]
  /\ UNCHANGED <<ws, age, runs, dir, jan, arc, del, review, working, running, used>>

\* The execution's row needs the session's; a workspace that is used is not archived.
StartExecution ==
  /\ req.pc = "start" /\ req.kind \in {"exec", "dev"}
  /\ req' = Idle
  /\ IF ws.here
     THEN /\ ws' = [ws EXCEPT !.archived = FALSE, !.archived_at = Never]
          /\ runs' = runs \cup {IF req.kind = "dev" THEN "dev_server" ELSE "agent"}
          /\ age' = 0
     ELSE UNCHANGED <<ws, runs, age>>
  /\ UNCHANGED <<dir, pane, jan, arc, del, review, working, running, used>>

Pin ==
  /\ Op("pin") /\ ws.here
  /\ Spend
  /\ ws' = [ws EXCEPT !.pinned = ~@] /\ age' = 0
  /\ UNCHANGED <<runs, dir, pane, jan, req, arc, del, review, working, running>>

Unarchive ==
  /\ Op("archive") /\ ws.archived
  /\ Spend
  /\ ws' = [ws EXCEPT !.archived = FALSE, !.archived_at = Never] /\ age' = 0
  /\ UNCHANGED <<runs, dir, pane, jan, req, arc, del, review, working, running>>

-----------------------------------------------------------------------------
(* update_workspace with archived = true, and archive_workspace. *)

Archive ==
  /\ Op("archive") /\ arc = "idle" /\ ws.here /\ ~ws.archived
  /\ used.archives < MaxArchives
  /\ used' = [used EXCEPT !.ops = @ + 1, !.archives = @ + 1]
  /\ ws' = [ws EXCEPT !.archived = TRUE, !.archived_at = used.archives + 1]
  /\ age' = 0
  /\ arc' = "servers"
  /\ UNCHANGED <<runs, dir, pane, jan, req, del, review, working, running>>

StopDevServers ==
  \/ runs' = runs \ {"dev_server"} /\ running' = (running /\ runs' # {})
  \/ Fails /\ UNCHANGED <<runs, running>>

ArchiveStopsServers ==
  /\ arc = "servers"
  /\ arc' = "kill"
  /\ StopDevServers
  /\ UNCHANGED <<ws, age, dir, pane, jan, req, del, review, working, used>>

ArchiveKills ==
  /\ arc = "kill"
  /\ arc' = "script"
  /\ KillsBestEffort
  /\ UNCHANGED <<ws, age, runs, dir, jan, req, del, review, running, used>>

\* try_run_archive_script: not while another execution runs.
ArchiveScript ==
  /\ arc = "script"
  /\ arc' = "idle"
  /\ IF ws.here /\ runs \cap NotDev = {}
     THEN /\ dir' = TRUE /\ age' = 0
          /\ ws' = [ws EXCEPT !.gone = FALSE]
          /\ runs' = runs \cup {"archive_script"}
     ELSE UNCHANGED <<ws, age, runs, dir>>
  /\ UNCHANGED <<pane, jan, req, del, review, working, running, used>>

-----------------------------------------------------------------------------
(* delete_workspace_core, for one workspace or from a list of archived ones. *)

\* The user looks at the list of archived workspaces.
Review ==
  /\ May("bulk") /\ ws.archived /\ del = "idle" /\ review # ws.archived_at
  /\ review' = ws.archived_at
  /\ UNCHANGED <<ws, age, runs, dir, pane, jan, req, arc, del, working, running, used>>

AsReviewed == ws.archived /\ ws.archived_at = review

BulkDelete ==
  /\ Op("bulk") /\ del = "idle" /\ ws.here /\ review # Never
  /\ Spend
  /\ del' = IF AsReviewed THEN "check" ELSE "idle"
  /\ UNCHANGED <<ws, age, runs, dir, pane, jan, req, arc, review, working, running>>

Delete ==
  /\ Op("delete") /\ del = "idle" /\ ws.here
  /\ Spend
  /\ del' = "check"
  /\ UNCHANGED <<ws, age, runs, dir, pane, jan, req, arc, review, working, running>>

\* Refuses while an execution runs, and stops dev servers.
DeleteChecks ==
  /\ del = "check"
  /\ IF runs \cap NotDev # {}
     THEN del' = "idle" /\ UNCHANGED <<runs, running>>
     ELSE del' = "kill" /\ StopDevServers
  /\ UNCHANGED <<ws, age, dir, pane, jan, req, arc, review, working, used>>

DeleteKills ==
  /\ del = "kill"
  /\ del' = "row"
  /\ KillsBestEffort
  /\ UNCHANGED <<ws, age, runs, dir, jan, req, arc, review, running, used>>

\* The rows of its sessions and executions go with it.
DeleteRecord ==
  /\ del = "row"
  /\ del' = IF ws.here THEN "files" ELSE "idle"
  /\ ws' = NoRow /\ runs' = {} /\ running' = FALSE
  /\ UNCHANGED <<age, dir, pane, jan, req, arc, review, working, used>>

\* spawn_workspace_deletion_cleanup.
DeleteFiles ==
  /\ del = "files"
  /\ del' = "idle" /\ dir' = FALSE
  /\ UNCHANGED <<ws, age, runs, pane, jan, req, arc, review, working, running, used>>

-----------------------------------------------------------------------------
(* The clean-up task. *)

JanTo(pc) == jan' = [jan EXCEPT !.pc = pc]
JanRests == jan' = Asleep
OnlyJan == UNCHANGED <<ws, age, runs, dir, pane, req, arc, del, review, working, running, used>>

\* cleanup_orphan_workspaces, once after the start: removes a directory that no row names.
Sweep ==
  /\ jan.pc = "sweep"
  /\ JanRests
  /\ dir' = (dir /\ ws.here)
  /\ UNCHANGED <<ws, age, runs, pane, req, arc, del, review, working, running, used>>

\* The interval elapses.  From here on we watch what is at work.
Wake ==
  /\ jan.pc = "asleep"
  /\ JanTo("query")
  /\ working' = (pane.busy /\ pane.idle <= IdleTtl)
  /\ running' = (runs # {})
  /\ UNCHANGED <<ws, age, runs, dir, pane, req, arc, del, review, used>>

Ttl == IF ws.archived THEN ArchivedTtl ELSE KeepTtl

\* find_expired_for_cleanup.
Expired == ws.here /\ ~ws.gone /\ ~ws.pinned /\ runs = {} /\ age > Ttl

Query ==
  /\ jan.pc = "query"
  /\ \/ JanTo(IF Expired THEN "reload" ELSE "list")
     \/ Fails /\ JanTo("list")
  /\ OnlyJan

\* The candidate is loaded again.
Reload ==
  /\ jan.pc = "reload"
  /\ \/ JanTo(IF ws.here /\ ~ws.pinned /\ ~ws.gone THEN "probe" ELSE "list")
     \/ Fails /\ JanTo("list")
  /\ OnlyJan

\* probe_workspace_pane_busy: what it may report.
Presence ==
  (IF Fails \/ May("no_tmux") THEN {"Unknown"} ELSE {}) \cup
  (IF May("no_tmux") THEN {}
   ELSE {IF pane.busy THEN "Alive" ELSE IF pane.up THEN "Absent" ELSE "NoSession"})

SafeToDeleteSession(presence) == May("no_tmux") \/ presence = "Absent"
SafeToDelete(presence) == May("no_tmux") \/ presence \in {"Absent", "NoSession"}

Probe ==
  /\ jan.pc = "probe"
  /\ \E presence \in Presence : JanTo(IF SafeToDelete(presence) THEN "kill" ELSE "list")
  /\ OnlyJan

\* cleanup_workspace: the session, the directory, the flag.
CleanupKills ==
  /\ jan.pc = "kill"
  /\ JanTo("remove")
  /\ KillsBestEffort
  /\ UNCHANGED <<ws, age, runs, dir, req, arc, del, review, running, used>>

CleanupRemoves ==
  /\ jan.pc = "remove"
  /\ JanTo("mark")
  /\ \/ dir' = FALSE
     \/ Fails /\ UNCHANGED dir
  /\ UNCHANGED <<ws, age, runs, pane, req, arc, del, review, working, running, used>>

CleanupMarks ==
  /\ jan.pc = "mark"
  /\ JanTo("list")
  /\ \/ IF ws.here THEN ws' = [ws EXCEPT !.gone = TRUE] /\ age' = 0 ELSE UNCHANGED <<ws, age>>
     \/ Fails /\ UNCHANGED <<ws, age>>
  /\ UNCHANGED <<runs, dir, pane, req, arc, del, review, working, running, used>>

\* list_cli_tmux_sessions: a snapshot of the session, which may fail.
List ==
  /\ jan.pc = "list"
  /\ \/ pane.up /\ jan' = [jan EXCEPT !.pc = "load", !.attached = pane.attached, !.idle = pane.idle]
     \/ ~pane.up /\ JanRests
     \/ Fails /\ JanRests
  /\ OnlyJan

\* The row as the reaper read it.
Terminal(row) == ~row.here \/ row.gone

\* An attached session must be silent for the whole limit; a live workspace
\* that is neither archived nor idle is left alone.
LoadRow ==
  /\ jan.pc = "load"
  /\ \/ IF jan.attached /\ jan.idle <= IdleTtl THEN JanRests
        ELSE IF Terminal(ws) \/ ws.archived \/ jan.idle > IdleTtl
             THEN jan' = [jan EXCEPT !.pc = "busy", !.row = ws]
             ELSE JanRests
     \/ Fails /\ JanRests
  /\ OnlyJan

\* Is the session left alone, for what the process tree of the pane shows?
SparesOrphansNot(presence) == ~Terminal(jan.row) /\ (presence = "Unknown" \/ (presence = "Alive" /\ jan.idle <= IdleTtl))
Spares(presence) == presence = "Unknown" \/ (presence = "Alive" /\ jan.idle <= IdleTtl)

Busy ==
  /\ jan.pc = "busy"
  /\ \E presence \in Presence :
       IF Spares(presence) THEN JanRests
       ELSE IF Terminal(jan.row) THEN JanTo("recheck")
       ELSE IF jan.idle < Grace THEN JanRests
       ELSE JanTo("running")
  /\ OnlyJan

Running ==
  /\ jan.pc = "running"
  /\ \/ IF runs \cap NotDev = {} THEN JanTo("recheck") ELSE JanRests
     \/ Fails /\ JanRests
  /\ OnlyJan

Permits(attached, idle) == idle >= (IF attached THEN IdleTtl ELSE Grace)

Recheck ==
  /\ jan.pc = "recheck"
  /\ \/ IF pane.up /\ Permits(pane.attached, pane.idle) THEN JanTo("reap") ELSE JanRests
     \/ Fails /\ JanRests
  /\ OnlyJan

Reap ==
  /\ jan.pc = "reap"
  /\ JanRests
  /\ KillsBestEffort
  /\ UNCHANGED <<ws, age, runs, dir, req, arc, del, review, running, used>>

-----------------------------------------------------------------------------
\* The server stops; the sessions of tmux go on, and the executions are marked failed.
Crash ==
  /\ used.crashes < MaxCrashes
  /\ used' = [used EXCEPT !.crashes = @ + 1]
  /\ jan' = [Asleep EXCEPT !.pc = "sweep"]
  /\ req' = Idle /\ arc' = "idle" /\ del' = "idle"
  /\ runs' = {} /\ running' = FALSE
  /\ age' = IF runs # {} THEN 0 ELSE age
  /\ pane' = [pane EXCEPT !.attached = FALSE]
  /\ UNCHANGED <<ws, dir, review, working>>

Janitor ==
  \/ Sweep \/ Wake \/ Query \/ Reload \/ Probe
  \/ CleanupKills \/ CleanupRemoves \/ CleanupMarks
  \/ List \/ LoadRow \/ Busy \/ Running \/ Recheck \/ Reap

Requests ==
  \/ EnsureContainerExists \/ AttachPane \/ StartExecution
  \/ ArchiveStopsServers \/ ArchiveKills \/ ArchiveScript
  \/ DeleteChecks \/ DeleteKills \/ DeleteRecord \/ DeleteFiles

User ==
  \/ \E kind \in Uses : Load(kind)
  \/ Pin \/ Archive \/ Unarchive \/ Review \/ BulkDelete \/ Delete \/ Detach

World == Tick \/ Output \/ AgentEnds \/ (\E r \in Reasons : ExecutionEnds(r))

Next == Janitor \/ Requests \/ User \/ World \/ Crash

Spec == Init /\ [][Next]_vars

-----------------------------------------------------------------------------
(* Properties *)

\* Does the clean-up task kill the session in this step?
JanitorKills == jan.pc \in {"kill", "reap"} /\ pane.up /\ ~pane'.up /\ jan'.pc # jan.pc

\* A round does not touch what is at work since before it began: it kills no
\* session whose agent prints and goes on working (cleanup_expired_workspaces,
\* reap_idle_cli_sessions: "NEVER kill a pane that is still doing something"),
\* and it removes no worktree under an execution that goes on running.
SparesWork ==
  /\ JanitorKills => ~working
  /\ jan.pc = "remove" /\ dir /\ ~dir' /\ jan'.pc = "mark" => ~running

\* A workspace that was used after the user looked at the list of archived
\* workspaces survives a deletion from that list, also when it was archived
\* again since (bulk_delete_archived_workspaces).
DeletesReviewed == BulkDelete /\ del' = "check" => ws.archived_at = review

\* Nothing is left behind: no worktree that has expired (cleanup_expired_workspaces),
\* no session whose workspace or worktree is gone (reap_idle_cli_sessions), and no
\* directory of a deleted workspace (cleanup_orphan_workspaces).
Tidy == ~Expired /\ (pane.up => ~Terminal(ws)) /\ (ws.here \/ ~dir)
=============================================================================
