----------------------------- MODULE PaneLaunch -----------------------------
(***************************************************************************)
(* The launch of a workspace's CLI pane (routes/terminal.rs, pty.rs) and   *)
(* the delivery of the prompt parked for it.  A prompt is parked on a      *)
(* session row; an attach peeks it under an in-process claim and either    *)
(* bakes it into the bootstrap of a new tmux session through a file, or    *)
(* pastes it once the agent owns the pane.  A background task confirms the *)
(* delivery and only then clears the row.                                  *)
(*                                                                         *)
(* tmux, the file and the database outlive the server; the claim, the lock *)
(* and the attaches do not.  Whatever may go wrong besides a crash is      *)
(* switched on by the constant May.                                        *)
(***************************************************************************)
EXTENDS Integers, FiniteSets

CONSTANTS
  Attaches,    \* terminal attaches that can be under way at once
  Small, Big,  \* prompts that fit the launch's argv, and that do not
  MaxParks,    \* prompts parked, the first one included
  MaxExits,    \* exits of an agent or of the pane's shell
  MaxCrashes,  \* crashes of the server
  May          \* what else may happen, a subset of Events

Events == {"missing", "exec_fails", "spawn_fails", "register_fails", "clear_fails",
           "hasty", "no_conversation", "busy", "restart", "switch", "dies_at_paste",
           "replaced_early"}

Prompts == Small \cup Big
None == "none"
Blank == "blank"   \* a prompt of white space only
Rows == 1..2       \* session rows of the workspace, the newest last

VARIABLES
  rows,    \* number of session rows
  slot,    \* pending_cli_prompt of each row
  file,    \* the staged prompt file
  pane,    \* the tmux session and what its pane runs
  known,   \* is an agent session id to resume known?
  fresh,   \* is the active binding cli-fresh and not yet bound to a session?
  lock,    \* who holds the workspace's lifecycle lock
  claim,   \* who holds the CliPromptDelivery claim
  att,     \* the attaches and the delivery task that each leaves behind
  parks,   \* how often each prompt was parked
  took,    \* how often each prompt was handed to an agent process
  used     \* exits and crashes so far

vars == <<rows, slot, file, pane, known, fresh, lock, claim, att, parks, took, used>>

NoPane == [run |-> "down", form |-> None, holds |-> None]
Idle == [pc |-> "idle", only |-> FALSE, reg |-> FALSE, form |-> None,
         row |-> 1, text |-> None, baked |-> FALSE]

\* The workspace was created with a prompt: start_workspace_cli.
Init ==
  /\ rows = 1
  /\ \E p \in Prompts \cup {Blank} :
       /\ slot = [r \in Rows |-> IF r = 1 THEN p ELSE None]
       /\ parks = [q \in Prompts |-> IF q = p THEN 1 ELSE 0]
  /\ file = None /\ pane = NoPane
  /\ known = FALSE /\ fresh = FALSE
  /\ lock = None /\ claim = None
  /\ att = [a \in Attaches |-> Idle]
  /\ took = [q \in Prompts |-> 0]
  /\ used = [parks |-> 1, exits |-> 0, crashes |-> 0]

---------------------------------------------------------------------------
Up == pane.run # "down"

\* cli_pane_agent_running_at: the first leg of "--continue || fresh" has the
\* agent's name too.
AgentRuns == pane.run \in {"agent", "doomed"}

ParkedOnLatest == {r \in {rows} : slot[r] # None}
Parked == {r \in 1..rows : slot[r] # None}

\* peek_pending_cli_prompt_for_workspace: the newest row with a prompt.
PeekRow == CHOOSE r \in Parked : \A s \in Parked : s <= r

\* try_claim, then the peek; without a prompt the claim is dropped at once.
CarriesUnclaimed == Parked # {}
Carries == claim = None /\ Parked # {}

Routable(p) == p # Blank

Cleared(row, p) == [slot EXCEPT ![row] = IF @ = p THEN None ELSE @]

\* cli_bootstrap: the launch form of a new pane.
LaunchForm(busy, resume, staged, deferred) ==
  CASE busy -> "busy"
    [] ~busy /\ resume -> "resume"
    [] ~busy /\ ~resume /\ staged -> "prompt"
    [] ~busy /\ ~resume /\ ~staged /\ deferred -> "fresh"
    [] OTHER -> "continue"

\* The pane's process goes away, or the pane gets another bootstrap.  Between
\* the probe of a send and its paste, and for a bootstrap while a baked prompt
\* is still being confirmed, only if May says so.
MayEnd == (\E a \in Attaches : att[a].pc = "paste") => "dies_at_paste" \in May
MayReplace ==
  MayEnd /\ ((\E a \in Attaches : att[a].pc = "confirm") => "replaced_early" \in May)

\* Handed to an agent once more; counted up to one more than it was parked.
Handed(p) == [took EXCEPT ![p] = IF @ <= MaxParks THEN @ + 1 ELSE @]

Boot(form) == [run |-> "boot", form |-> form, holds |-> None]

\* The attach is over: its delivery, if any, lets go of the claim.
Drop(a) ==
  /\ att' = [att EXCEPT ![a] = Idle]
  /\ claim' = IF claim = a THEN None ELSE claim
  /\ lock' = IF lock = a THEN None ELSE lock

---------------------------------------------------------------------------
(* A terminal attach, from the lifecycle lock to the delivery task.        *)

\* spawn_cli_terminal takes the lock; a session that exists is only attached
\* to, otherwise the reservation is taken.
Enter(a) ==
  /\ att[a].pc = "idle" /\ lock = None
  /\ lock' = a
  /\ att' = [att EXCEPT ![a] = [Idle EXCEPT !.pc = "prepare", !.only = Up]]
  /\ UNCHANGED <<rows, slot, file, pane, known, fresh, claim, parks, took, used>>

\* prepare_cli_attach: busy is the answer of the executor probe.
Prepare(a, busy) ==
  LET resume  == known /\ ~busy
      row     == PeekRow
      text    == slot[row]
      first   == ~resume /\ ~Up
      baked   == first /\ text \notin Big
      defer   == IF Carries /\ Routable(text) /\ ~baked THEN ~resume ELSE fresh
      next    == [att[a] EXCEPT !.pc = "spawn", !.reg = ~att[a].only /\ ~Up]
  IN
  /\ att[a].pc = "prepare"
  /\ busy => "busy" \in May
  /\ \/ /\ Carries /\ Routable(text)
        /\ claim' = a
        /\ att' = [att EXCEPT ![a] = [next EXCEPT !.row = row, !.text = text, !.baked = baked,
                                        !.form = LaunchForm(busy, resume, baked, defer)]]
        /\ slot' = slot
     \/ /\ ~(Carries /\ Routable(text))
        /\ slot' = IF Carries THEN Cleared(row, Blank) ELSE slot
        /\ claim' = claim
        /\ att' = [att EXCEPT ![a] = [next EXCEPT !.form = LaunchForm(busy, resume, FALSE, defer)]]
  /\ UNCHANGED <<rows, file, pane, known, fresh, lock, parks, took, used>>

\* create_session: stage the file, then new-session -A (or attach-session).
Spawn(a) ==
  /\ att[a].pc = "spawn"
  /\ file' = IF att[a].baked THEN att[a].text ELSE file
  /\ pane' = IF Up \/ att[a].only THEN pane ELSE Boot(att[a].form)
  /\ att' = [att EXCEPT ![a].pc = "settle"]
  /\ UNCHANGED <<rows, slot, known, fresh, lock, claim, parks, took, used>>

SpawnFails(a) ==
  /\ att[a].pc = "spawn" /\ "spawn_fails" \in May
  /\ file' = IF att[a].text # None THEN None ELSE file
  /\ Drop(a)
  /\ UNCHANGED <<rows, slot, pane, known, fresh, parks, took, used>>

\* spawn_terminal registers the launch and hands the prompt to its task.
Settle(a) ==
  /\ att[a].pc = "settle" /\ Up
  /\ fresh' = IF att[a].reg THEN ~known ELSE fresh
  /\ IF att[a].text = None THEN Drop(a)
     ELSE /\ att' = [att EXCEPT ![a].pc = IF att[a].baked THEN "confirm" ELSE "deliver"]
          /\ lock' = None /\ claim' = claim
  /\ UNCHANGED <<rows, slot, file, pane, known, parks, took, used>>

\* The session did not come up, or registering it failed: a launch is killed
\* and its file removed, then the attach fails.
SettleFails(a) ==
  /\ att[a].pc = "settle"
  /\ \/ ~Up
     \/ att[a].reg /\ "register_fails" \in May /\ MayReplace
  /\ pane' = IF att[a].reg THEN NoPane ELSE pane
  /\ file' = IF att[a].reg \/ att[a].text # None THEN None ELSE file
  /\ Drop(a)
  /\ UNCHANGED <<rows, slot, known, fresh, parks, took, used>>

---------------------------------------------------------------------------
(* The delivery task.                                                      *)

\* The confirmed prompt is cleared from its row, or the update fails.
Confirmed(a) ==
  /\ \/ slot' = Cleared(att[a].row, att[a].text)
     \/ slot' = slot /\ "clear_fails" \in May
  /\ Drop(a)
  /\ UNCHANGED <<rows, pane, known, fresh, parks, took, used>>

LeftParked(a) ==
  /\ Drop(a)
  /\ UNCHANGED <<rows, slot, pane, known, fresh, parks, took, used>>

\* A poll loop gives up: too early, or on a pane where what it waits for will
\* not happen.
GivesUp(stuck) == "hasty" \in May \/ stuck

ConfirmBakedFileGone(a) ==
  /\ att[a].pc = "confirm" /\ file = None
  /\ Confirmed(a) /\ UNCHANGED file

\* confirm_baked_prompt_consumed: the file is gone and the agent owns the pane.
ConfirmBaked(a) ==
  /\ att[a].pc = "confirm" /\ file = None /\ AgentRuns
  /\ Confirmed(a) /\ UNCHANGED file

ConfirmTimeout(a) ==
  /\ att[a].pc = "confirm"
  /\ GivesUp(pane.run \notin {"boot", "read", "doomed"} /\ ~(file = None /\ AgentRuns))
  /\ file' = None
  /\ LeftParked(a)

\* deliver_deferred_prompt: the agent is up on two polls and after the grace.
DeliverReady(a) ==
  /\ att[a].pc = "deliver" /\ AgentRuns
  /\ att' = [att EXCEPT ![a].pc = "send"]
  /\ UNCHANGED <<rows, slot, file, pane, known, fresh, lock, claim, parks, took, used>>

DeliverTimeout(a) ==
  /\ att[a].pc = "deliver" /\ GivesUp(pane.run \in {"down", "shell", "busy"})
  /\ LeftParked(a) /\ UNCHANGED file

\* send_cli_keys_to_live_agent probes under the send lock, then pastes.
SendProbe(a) ==
  /\ att[a].pc = "send"
  /\ \/ /\ AgentRuns
        /\ att' = [att EXCEPT ![a].pc = "paste"]
        /\ UNCHANGED <<rows, slot, pane, known, fresh, lock, claim, parks, took, used>>
     \/ ~AgentRuns /\ LeftParked(a)
  /\ UNCHANGED file

\* paste-buffer: the text goes to whatever reads the pane's terminal.
Paste(a) ==
  /\ att[a].pc = "paste"
  /\ \/ /\ Up
        /\ att' = [att EXCEPT ![a].pc = "ack"]
        /\ took' = IF pane.run = "agent" THEN Handed(att[a].text) ELSE took
        /\ UNCHANGED <<rows, slot, pane, known, fresh, lock, claim, parks, used>>
     \/ ~Up /\ LeftParked(a)
  /\ UNCHANGED file

Ack(a) ==
  /\ att[a].pc = "ack"
  /\ \/ AgentRuns /\ Confirmed(a)
     \/ ~AgentRuns /\ LeftParked(a)
  /\ UNCHANGED file

---------------------------------------------------------------------------
(* The pane.                                                               *)

\* The bootstrap finds the program and runs the launch.
BootRuns ==
  /\ pane.run = "boot"
  /\ IF pane.form = "prompt"
       THEN /\ pane' = [pane EXCEPT !.run = "read", !.holds = file]
            /\ file' = None
       ELSE /\ pane' = [pane EXCEPT !.run =
                 CASE pane.form = "busy" -> "busy"
                   [] pane.form = "continue" /\ "no_conversation" \in May /\ ~known -> "doomed"
                   [] OTHER -> "agent"]
            /\ file' = file
  /\ UNCHANGED <<rows, slot, known, fresh, lock, claim, att, parks, took, used>>

\* "command -v" does not find it.
BootMissing ==
  /\ pane.run = "boot" /\ "missing" \in May
  /\ pane' = [pane EXCEPT !.run = "shell"]
  /\ UNCHANGED <<rows, slot, file, known, fresh, lock, claim, att, parks, took, used>>

\* The agent is started with the text that was read.
Exec ==
  /\ pane.run = "read"
  /\ \/ /\ pane' = [pane EXCEPT !.run = "agent", !.holds = None]
        /\ took' = IF pane.holds = None THEN took ELSE Handed(pane.holds)
     \/ /\ "exec_fails" \in May
        /\ pane' = [pane EXCEPT !.run = "shell", !.holds = None]
        /\ took' = took
  /\ UNCHANGED <<rows, slot, file, known, fresh, lock, claim, att, parks, used>>

\* "--continue" found no conversation: the other leg starts a fresh agent.
ContinueFails ==
  /\ pane.run = "doomed"
  /\ pane' = [pane EXCEPT !.run = "boot", !.form = "fresh"]
  /\ UNCHANGED <<rows, slot, file, known, fresh, lock, claim, att, parks, took, used>>

\* The ready file is there: the waiting pane resumes the conversation.
BusyResumes ==
  /\ pane.run = "busy"
  /\ pane' = [pane EXCEPT !.run = "agent"]
  /\ UNCHANGED <<rows, slot, file, known, fresh, lock, claim, att, parks, took, used>>

\* The agent exits and leaves the pane to a shell, or the shell exits.
Exits ==
  /\ used.exits < MaxExits
  /\ \/ pane.run = "agent" /\ MayEnd /\ pane' = [pane EXCEPT !.run = "shell"]
     \/ pane.run = "shell" /\ MayReplace /\ pane' = NoPane
  /\ used' = [used EXCEPT !.exits = @ + 1]
  /\ UNCHANGED <<rows, slot, file, known, fresh, lock, claim, att, parks, took>>

\* Discovery binds the agent's session to the pane.
Discover ==
  /\ pane.run = "agent" /\ ~known
  /\ known' = TRUE /\ fresh' = FALSE
  /\ UNCHANGED <<rows, slot, file, pane, lock, claim, att, parks, took, used>>

---------------------------------------------------------------------------
(* Everything else that touches the pane or the rows.                      *)

\* A session row without a prompt.
NewSession ==
  /\ rows < 2
  /\ rows' = rows + 1
  /\ UNCHANGED <<slot, file, pane, known, fresh, lock, claim, att, parks, took, used>>

\* repark_prompt: only when no row of the workspace has a prompt.
Repark(p) ==
  /\ used.parks < MaxParks /\ Parked = {}
  /\ slot' = [slot EXCEPT ![rows] = p]
  /\ parks' = [parks EXCEPT ![p] = @ + 1]
  /\ used' = [used EXCEPT !.parks = @ + 1]
  /\ UNCHANGED <<rows, file, pane, known, fresh, lock, claim, att, took>>

\* restart_agent: the probe finds a session without the agent.
Restart ==
  /\ "restart" \in May /\ lock = None
  /\ Up /\ ~AgentRuns /\ MayReplace
  /\ pane' = Boot(LaunchForm(FALSE, known, FALSE, FALSE))
  /\ UNCHANGED <<rows, slot, file, known, fresh, lock, claim, att, parks, took, used>>

\* switch_agent_session closes the pane (and with it the prompt file) and
\* registers the other conversation, whose id may or may not be known.
Switch(otherKnown) ==
  /\ "switch" \in May /\ lock = None
  /\ Up /\ MayReplace
  /\ pane' = NoPane /\ file' = None
  /\ known' = otherKnown /\ fresh' = ~otherKnown
  /\ UNCHANGED <<rows, slot, lock, claim, att, parks, took, used>>

\* The server dies; tmux goes on.
Crash ==
  /\ used.crashes < MaxCrashes
  /\ att' = [a \in Attaches |-> Idle] /\ claim' = None /\ lock' = None
  /\ used' = [used EXCEPT !.crashes = @ + 1]
  /\ UNCHANGED <<rows, slot, file, pane, known, fresh, parks, took>>

---------------------------------------------------------------------------
Delivers(a) ==
  \/ ConfirmBaked(a) \/ ConfirmTimeout(a) \/ DeliverReady(a) \/ DeliverTimeout(a)
  \/ SendProbe(a) \/ Paste(a) \/ Ack(a)
Attach(a) ==
  \/ \E busy \in BOOLEAN : Prepare(a, busy)
  \/ Spawn(a) \/ SpawnFails(a) \/ Settle(a) \/ SettleFails(a)
PaneRuns == BootRuns \/ BootMissing \/ Exec \/ ContinueFails \/ BusyResumes

Next ==
  \/ \E a \in Attaches : Enter(a) \/ Attach(a) \/ Delivers(a)
  \/ PaneRuns \/ Exits \/ Discover
  \/ NewSession \/ \E p \in Prompts : Repark(p)
  \/ Restart \/ \E k \in BOOLEAN : Switch(k)
  \/ Crash

Spec == Init /\ [][Next]_vars

\* Steps that have begun go on, the pane's processes run, and the user opens
\* the terminal again and again.
Fairness ==
  /\ \A a \in Attaches :
       /\ SF_vars(Enter(a)) /\ WF_vars(Attach(a)) /\ WF_vars(Delivers(a))
  /\ WF_vars(PaneRuns)

FairSpec == Spec /\ Fairness

---------------------------------------------------------------------------
\* Every prompt that was parked is still parked or was handed to an agent, as
\* often as it was parked: no failure between the attach and the agent
\* destroys the only copy (Session::peek_pending_cli_prompt's contract).
NeverLost ==
  \A p \in Prompts :
    parks[p] <= took[p] + Cardinality({r \in Rows : slot[r] = p})

\* When nothing fails on the way, no prompt is handed over twice, whatever the
\* attaches that race for it: the claim (CliPromptDelivery) is held for the
\* whole of a delivery.
HandedOnce ==
  /\ \A p \in Prompts : took[p] <= parks[p]
  /\ \A a \in Attaches : att[a].text # None => claim = a

\* Whatever is parked was handed over and only waits for its row to be cleared.
NothingWaits ==
  \A p \in Prompts : (\E r \in Rows : slot[r] = p) => took[p] >= parks[p]

\* A parked prompt is handed to an agent in the end.
ParkedIsDelivered == <>[]NothingWaits
=============================================================================
