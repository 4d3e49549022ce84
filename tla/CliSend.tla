------------------------------ MODULE CliSend ------------------------------
(***************************************************************************)
(* Typing a text into the agent of a workspace's pane (send_detached and    *)
(* send_cli_keys_locked, local-deployment/pty.rs).  A send is several tmux  *)
(* commands: probe the pane, load a buffer, paste it, press Enter.  Senders *)
(* (the collab router, the loop supervisor, a rename, a parked prompt, the  *)
(* composer) take the workspace's send lock, which lives in a table that    *)
(* every lookup prunes.  The caller of a send may go away; its task goes    *)
(* on.  A caller that is told of a failed delivery sends again.             *)
(***************************************************************************)
EXTENDS Integers, Sequences, FiniteSets

CONSTANTS
  Senders,
  MaxRetries,  \* deliveries that a caller repeats
  MaxExits,    \* times the agent exits
  Faults       \* subset of {"load", "paste", "enter"}: commands that fail

NoResult == "none"
VARIABLES
  task,    \* the task of each sender: where it is and the lock it holds an Arc of
  result,  \* what its last send came to
  entry,   \* the lock in the table, 0 when there is none
  locks,   \* locks made so far
  agent,   \* does an agent own the pane?
  box,     \* the texts in the agent's input box
  turns,   \* the submitted turns
  buffers, \* tmux buffers that are loaded
  caller,  \* callers that still wait
  sendUsed \* retries of each sender and exits

sendVars == <<task, result, entry, locks, agent, box, turns, buffers, caller, sendUsed>>

NoSend == [pc |-> "idle", lock |-> 0]

SendInit ==
  /\ task = [s \in Senders |-> NoSend]
  /\ result = [s \in Senders |-> NoResult]
  /\ entry = 0 /\ locks = 0
  /\ agent = TRUE /\ box = <<>> /\ turns = <<>>
  /\ buffers = {} /\ caller = Senders
  /\ sendUsed = [retries |-> [s \in Senders |-> 0], exits |-> 0]

---------------------------------------------------------------------------
Step(s, pc) == task' = [task EXCEPT ![s].pc = pc]

\* The task ends: the guard and its Arc go.
Ends(s, r) ==
  /\ task' = [task EXCEPT ![s] = [pc |-> "done", lock |-> 0]]
  /\ result' = [result EXCEPT ![s] = r]

Inside(s) == task[s].pc \in {"probe", "load", "paste", "enter", "again"}

\* cli_send_lock: an entry that no sender holds an Arc of is pruned.
KeepsEntryNever == FALSE
KeepsEntry == entry # 0 /\ \E s \in Senders : task[s].lock = entry

Lookup(s) ==
  /\ task[s].pc = "idle"
  /\ IF KeepsEntry
       THEN UNCHANGED <<entry, locks>>
       ELSE entry' = locks + 1 /\ locks' = locks + 1
  /\ task' = [task EXCEPT ![s] = [pc |-> "wait", lock |-> entry']]
  /\ UNCHANGED <<result, agent, box, turns, buffers, caller, sendUsed>>

Acquire(s) ==
  /\ task[s].pc = "wait"
  /\ \A o \in Senders : Inside(o) => task[o].lock # task[s].lock
  /\ Step(s, "probe")
  /\ UNCHANGED <<result, entry, locks, agent, box, turns, buffers, caller, sendUsed>>

\* pane_owner_among, under the lock.
Probe(s) ==
  /\ task[s].pc = "probe"
  /\ \/ agent /\ Step(s, "load") /\ result' = result
     \/ ~agent /\ Ends(s, "no_agent")
  /\ UNCHANGED <<entry, locks, agent, box, turns, buffers, caller, sendUsed>>

\* load_cli_tmux_buffer; a failed load deletes what it may have left.
Load(s) ==
  /\ task[s].pc = "load"
  /\ \/ buffers' = buffers \cup {s} /\ Step(s, "paste") /\ result' = result
     \/ "load" \in Faults /\ buffers' = buffers /\ Ends(s, "not_delivered")
  /\ UNCHANGED <<entry, locks, agent, box, turns, caller, sendUsed>>

Paste(s) ==
  /\ task[s].pc = "paste"
  /\ buffers' = buffers \ {s}
  /\ \/ /\ box' = IF agent THEN Append(box, s) ELSE box
        /\ Step(s, "enter") /\ result' = result
     \/ "paste" \in Faults /\ box' = box /\ Ends(s, "not_delivered")
  /\ UNCHANGED <<entry, locks, agent, turns, caller, sendUsed>>

Submits == turns' = (IF box = <<>> THEN turns ELSE Append(turns, box)) /\ box' = <<>>

\* Enter is tried twice; then the text is delivered but not submitted.
Enter(s) ==
  /\ task[s].pc \in {"enter", "again"}
  /\ \/ Submits /\ Ends(s, "submitted")
     \/ /\ "enter" \in Faults
        /\ IF task[s].pc = "enter" THEN Step(s, "again") /\ result' = result
                                   ELSE Ends(s, "unsubmitted")
        /\ UNCHANGED <<box, turns>>
  /\ UNCHANGED <<entry, locks, agent, buffers, caller, sendUsed>>

---------------------------------------------------------------------------
\* CliSendResult::delivered
Delivered(r) == r \in {"unsubmitted", "submitted"}

\* A caller that learns of a failed delivery sends again; text that reached
\* the pane is not sent again.
Retry(s) ==
  /\ task[s].pc = "done" /\ s \in caller
  /\ ~Delivered(result[s])
  /\ sendUsed.retries[s] < MaxRetries
  /\ task' = [task EXCEPT ![s] = NoSend]
  /\ result' = [result EXCEPT ![s] = NoResult]
  /\ sendUsed' = [sendUsed EXCEPT !.retries[s] = @ + 1]
  /\ UNCHANGED <<entry, locks, agent, box, turns, buffers, caller>>

\* The caller's future is dropped; the spawned task is not.
CallerGone(s) ==
  /\ s \in caller /\ task[s].pc \notin {"idle", "done"}
  /\ caller' = caller \ {s}
  /\ UNCHANGED <<task, result, entry, locks, agent, box, turns, buffers, sendUsed>>

\* The agent leaves the pane to the shell, or is started again.
AgentExits ==
  /\ agent /\ sendUsed.exits < MaxExits
  /\ agent' = FALSE /\ box' = <<>>
  /\ sendUsed' = [sendUsed EXCEPT !.exits = @ + 1]
  /\ UNCHANGED <<task, result, entry, locks, turns, buffers, caller>>

AgentStarts ==
  /\ ~agent /\ agent' = TRUE
  /\ UNCHANGED <<task, result, entry, locks, box, turns, buffers, caller, sendUsed>>

\* The user presses Enter on what is in the box.
UserSubmits ==
  /\ agent /\ box # <<>> /\ Submits
  /\ UNCHANGED <<task, result, entry, locks, agent, buffers, caller, sendUsed>>

Run(s) == Lookup(s) \/ Acquire(s) \/ Probe(s) \/ Load(s) \/ Paste(s) \/ Enter(s)

Done == \A s \in Senders : task[s].pc = "done"

SendNext ==
  \/ \E s \in Senders : Run(s) \/ Retry(s) \/ CallerGone(s)
  \/ AgentExits \/ AgentStarts \/ UserSubmits
  \/ Done /\ UNCHANGED sendVars

SendSpec == SendInit /\ [][SendNext]_sendVars

---------------------------------------------------------------------------
\* Texts of two senders share a turn only when the earlier one was reported as
\* left unsubmitted in the box (or its Enter is still being tried).  However
\* often callers repeat failed deliveries, no text is in the pane twice, and a
\* buffer holds a prompt only between its load and its paste.
OwnTurn ==
  LET texts == Append(turns, box) IN
  /\ \A i \in 1..Len(turns) : \A j \in 1..(Len(turns[i]) - 1) :
       result[turns[i][j]] = "unsubmitted"
  /\ \A i, k \in 1..Len(texts) : \A j \in 1..Len(texts[i]), l \in 1..Len(texts[k]) :
       texts[i][j] = texts[k][l] => i = k /\ j = l
  /\ buffers = {s \in Senders : task[s].pc = "paste"}
=============================================================================
