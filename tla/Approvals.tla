----------------------------- MODULE Approvals -----------------------------
(***************************************************************************)
(* Tool approvals and questions of a Claude run: the agent's control       *)
(* requests read by the protocol loop                                      *)
(* (crates/executors/src/executors/claude/protocol.rs, client.rs), the     *)
(* bridge of the run (services/approvals/executor_approvals.rs), the store *)
(* of pending approvals with its timeout watchers (services/approvals.rs)  *)
(* and the stream of pending approvals to a browser                        *)
(* (crates/server/src/routes/approvals.rs).                                *)
(*                                                                         *)
(* The agent asks for one approval at a time and waits.  A line of its     *)
(* output arrives in two parts.  Tabs are the browsers that answer.        *)
(***************************************************************************)
EXTENDS Naturals, Sequences, FiniteSets

CONSTANTS
  Asks,       \* how many approvals the agent asks for
  Questions,  \* the approvals that are questions, a subset of 1..Asks
  Tabs,       \* browsers that answer
  MaxAnswers, \* answers each tab sends
  Capacity,   \* patches the broadcast channel keeps
  Kinds       \* what happens: "invalid" answers, "gap" between the snapshot
              \* and the subscription, "stop" of the run, "crash" of the agent,
              \* "split" lines

None == "none"
Ids == 1..Asks
Statuses == {"approved", "denied", "answered"}

VARIABLES
  agent,     \* "work", "asked", "resulted" or "gone"
  asked,     \* the last approval asked for
  got,       \* what the agent was told, per approval
  pipe,      \* the lines on the agent's stdout
  part,      \* the first part of the next line has been read
  reader,    \* the protocol loop: "read", "handle", "wait", "done"
  cancelled, \* the run's cancellation token
  interrupts,\* interrupts written to the agent
  pending, completed,
  answer,    \* the oneshot: None, "dropped", or the outcome sent
  watcher,   \* per approval: "off", "armed", "late" or "done"
  tab,       \* per tab: the approval and the status it is answering
  answers,
  told,      \* per approval, what a tab was told has been recorded
  ui, view, queue, lagged

store == <<pending, completed, answer, watcher>>
agents == <<agent, asked, got, pipe>>
loop == <<part, reader, cancelled, interrupts>>
users == <<tab, answers, told>>
client == <<ui, view, queue, lagged>>
vars == <<store, agents, loop, users, client>>

Free == [id |-> 0]

Init ==
  /\ agent = "work" /\ asked = 0 /\ got = [i \in Ids |-> None] /\ pipe = <<>>
  /\ part = FALSE /\ reader = "read" /\ cancelled = FALSE /\ interrupts = 0
  /\ pending = {} /\ completed = {}
  /\ answer = [i \in Ids |-> None] /\ watcher = [i \in Ids |-> "off"]
  /\ tab = [t \in Tabs |-> Free] /\ answers = [t \in Tabs |-> 0]
  /\ told = [i \in Ids |-> None]
  /\ ui = "off" /\ view = {} /\ queue = <<>> /\ lagged = FALSE

-----------------------------------------------------------------------------
(* The broadcast channel: a subscriber that is behind by more than its     *)
(* capacity loses the oldest patches.                                      *)
Publish(op, id) ==
  /\ IF ui # "on" THEN UNCHANGED <<queue, lagged>>
     ELSE IF Len(queue) < Capacity
     THEN queue' = Append(queue, [op |-> op, id |-> id]) /\ UNCHANGED lagged
     ELSE queue' = Append(Tail(queue), [op |-> op, id |-> id]) /\ lagged' = TRUE
  /\ UNCHANGED <<ui, view>>

(* patch_stream: the snapshot, then the subscription.                      *)
Snapshot ==
  /\ ui = "off"
  /\ view' = pending
  /\ ui' = IF "gap" \in Kinds THEN "snapshot" ELSE "on"
  /\ UNCHANGED <<store, agents, loop, users, queue, lagged>>

Subscribe ==
  /\ ui = "snapshot" /\ ui' = "on"
  /\ UNCHANGED <<store, agents, loop, users, view, queue, lagged>>

Deliver ==
  /\ ui = "on"
  /\ \/ /\ lagged
        /\ view' = pending /\ lagged' = FALSE /\ UNCHANGED queue
     \/ /\ ~lagged /\ queue # <<>>
        /\ queue' = Tail(queue)
        /\ view' = IF Head(queue).op = "created" THEN view \cup {Head(queue).id}
                   ELSE view \ {Head(queue).id}
        /\ UNCHANGED lagged
  /\ UNCHANGED <<store, agents, loop, users, ui>>

-----------------------------------------------------------------------------
(* The agent writes a control request and waits, or its result; it exits   *)
(* once its stdin is closed, or dies.                                      *)
AgentAsks ==
  /\ agent = "work" /\ asked < Asks /\ interrupts = 0
  /\ agent' = "asked" /\ asked' = asked + 1
  /\ pipe' = Append(pipe, asked + 1)
  /\ UNCHANGED <<store, got, loop, users, client>>

(* The permission result for an outcome: the agent uses the tool, goes on  *)
(* without it, or is told to stop.                                         *)
Permission(outcome) ==
  CASE outcome \in {"approved", "answered"} -> "allow"
    [] outcome = "denied" -> "deny"
    [] outcome = "timed_out" -> "interrupt"
    [] OTHER -> None

(* It goes on once it was answered; an interrupt ends its turn.            *)
AgentResumes ==
  /\ agent = "asked" /\ Permission(got[asked]) \in {"allow", "deny"}
  /\ agent' = "work"
  /\ UNCHANGED <<store, asked, got, pipe, loop, users, client>>

Result == Asks + 1

AgentEnds ==
  /\ \/ agent = "work"
     \/ agent = "asked" /\ (interrupts > 0 \/ Permission(got[asked]) = "interrupt")
  /\ agent' = "resulted" /\ pipe' = Append(pipe, Result)
  /\ UNCHANGED <<store, asked, got, loop, users, client>>

AgentExits ==
  /\ \/ agent = "resulted" /\ reader = "done"
     \/ agent # "gone" /\ "crash" \in Kinds
  /\ agent' = "gone"
  /\ UNCHANGED <<store, asked, got, pipe, loop, users, client>>

-----------------------------------------------------------------------------
(* read_loop: the cancellation is looked at first; a line is read whole,   *)
(* or its first part is.                                                   *)
NoticesCancel == cancelled /\ interrupts = 0

Interrupt ==
  /\ reader = "read" /\ NoticesCancel
  /\ interrupts' = interrupts + 1
  /\ IF part THEN pipe' = <<0>> \o Tail(pipe) ELSE UNCHANGED pipe
  /\ part' = FALSE
  /\ UNCHANGED <<store, agent, asked, got, reader, cancelled, users, client>>

ReadPart ==
  /\ reader = "read" /\ ~NoticesCancel /\ "split" \in Kinds
  /\ pipe # <<>> /\ ~part /\ part' = TRUE
  /\ UNCHANGED <<store, agents, reader, cancelled, interrupts, users, client>>

(* A whole line: a request is handled inline, the result ends the loop,    *)
(* and the rest of a line whose beginning was dropped is ignored.          *)
ReadLine ==
  /\ reader = "read" /\ ~NoticesCancel /\ pipe # <<>>
  /\ part' = FALSE
  /\ pipe' = Tail(pipe)
  /\ reader' = IF Head(pipe) = 0 THEN "read" ELSE IF Head(pipe) = Result THEN "done" ELSE "handle"
  /\ UNCHANGED <<store, agent, asked, got, cancelled, interrupts, users, client>>

ReadEof ==
  /\ reader = "read" /\ ~NoticesCancel /\ pipe = <<>> /\ agent = "gone"
  /\ reader' = "done"
  /\ UNCHANGED <<store, agents, part, cancelled, interrupts, users, client>>

(* create_with_waiter                                                      *)
CreateUnwatched ==
  /\ reader = "handle" /\ reader' = "wait"
  /\ pending' = pending \cup {asked}
  /\ Publish("created", asked)
  /\ UNCHANGED <<completed, answer, watcher, agents, part, cancelled, interrupts, users>>

Create ==
  /\ reader = "handle" /\ reader' = "wait"
  /\ pending' = pending \cup {asked}
  /\ watcher' = [watcher EXCEPT ![asked] = "armed"]
  /\ Publish("created", asked)
  /\ UNCHANGED <<completed, answer, agents, part, cancelled, interrupts, users>>

(* wait_internal: the outcome reaches the agent, as a permission result,   *)
(* or the cancellation withdraws the approval and the agent is not told.   *)
Outcome(i) == IF answer[i] = "dropped" THEN "timed_out" ELSE answer[i]

Answered ==
  /\ reader = "wait" /\ answer[asked] # None
  /\ reader' = "read"
  /\ got' = IF agent = "gone" THEN got ELSE [got EXCEPT ![asked] = Outcome(asked)]
  /\ UNCHANGED <<store, agent, asked, pipe, part, cancelled, interrupts, users, client>>

ApprovalEnds == asked \notin Questions /\ Answered

QuestionEnds == asked \in Questions /\ Answered

Cancel ==
  /\ reader = "wait" /\ cancelled
  /\ reader' = "read"
  /\ IF asked \in pending
     THEN /\ pending' = pending \ {asked}
          /\ completed' = completed \cup {asked}
          /\ answer' = [answer EXCEPT ![asked] = "dropped"]
          /\ Publish("resolved", asked)
     ELSE UNCHANGED <<pending, completed, answer, client>>
  /\ UNCHANGED <<watcher, agents, part, cancelled, interrupts, users>>

(* stop_execution cancels the token.                                       *)
Stop ==
  /\ "stop" \in Kinds /\ ~cancelled /\ cancelled' = TRUE
  /\ UNCHANGED <<store, agents, part, reader, interrupts, users, client>>

-----------------------------------------------------------------------------
(* The watcher takes the answer, or, without one at the deadline, resolves *)
(* the approval as timed out.                                              *)
WatcherSees(i) ==
  /\ watcher[i] = "armed" /\ answer[i] # None
  /\ watcher' = [watcher EXCEPT ![i] = "done"]
  /\ completed' = completed \cup {i}
  /\ UNCHANGED <<pending, answer, agents, loop, users, client>>

DeadlinePasses(i) ==
  /\ watcher[i] = "armed" /\ answer[i] = None
  /\ watcher' = [watcher EXCEPT ![i] = "late"]
  /\ UNCHANGED <<pending, completed, answer, agents, loop, users, client>>

TimesOutAnyway(i) ==
  /\ watcher[i] = "late"
  /\ watcher' = [watcher EXCEPT ![i] = "done"]
  /\ completed' = completed \cup {i}
  /\ pending' = pending \ {i}
  /\ IF answer[i] = None THEN answer' = [answer EXCEPT ![i] = "timed_out"] ELSE UNCHANGED answer
  /\ Publish("resolved", i)
  /\ UNCHANGED <<agents, loop, users>>

TimesOut(i) ==
  /\ watcher[i] = "late"
  /\ watcher' = [watcher EXCEPT ![i] = "done"]
  /\ completed' = completed \cup {i}
  /\ IF i \in pending
     THEN /\ pending' = pending \ {i}
          /\ answer' = [answer EXCEPT ![i] = "timed_out"]
          /\ Publish("resolved", i)
     ELSE UNCHANGED <<pending, answer, client>>
  /\ UNCHANGED <<agents, loop, users>>

-----------------------------------------------------------------------------
(* respond: the approval is taken out of the store, the status validated,  *)
(* and the approval put back or resolved.                                  *)
Valid(i, status) == (status = "answered") = (i \in Questions)

RespondTakes(t) ==
  /\ tab[t] = Free /\ answers[t] < MaxAnswers
  /\ \E i \in pending, status \in Statuses :
       /\ Valid(i, status) \/ "invalid" \in Kinds
       /\ pending' = pending \ {i}
       /\ tab' = [tab EXCEPT ![t] = [id |-> i, status |-> status]]
  /\ answers' = [answers EXCEPT ![t] = @ + 1]
  /\ UNCHANGED <<completed, answer, watcher, agents, loop, told, client>>

RespondRefuses(t) ==
  /\ tab[t] # Free /\ ~Valid(tab[t].id, tab[t].status)
  /\ pending' = pending \cup {tab[t].id}
  /\ tab' = [tab EXCEPT ![t] = Free]
  /\ UNCHANGED <<completed, answer, watcher, agents, loop, answers, told, client>>

RespondResolves(t) ==
  /\ tab[t] # Free /\ Valid(tab[t].id, tab[t].status)
  /\ LET i == tab[t].id IN
       /\ completed' = completed \cup {i}
       /\ answer' = IF answer[i] = None THEN [answer EXCEPT ![i] = tab[t].status] ELSE answer
       /\ told' = [told EXCEPT ![i] = tab[t].status]
       /\ Publish("resolved", i)
  /\ tab' = [tab EXCEPT ![t] = Free]
  /\ UNCHANGED <<pending, watcher, agents, loop, answers>>

-----------------------------------------------------------------------------
Next ==
  \/ Snapshot \/ Subscribe \/ Deliver
  \/ AgentAsks \/ AgentResumes \/ AgentEnds \/ AgentExits
  \/ Interrupt \/ ReadPart \/ ReadLine \/ ReadEof \/ Create
  \/ ApprovalEnds \/ QuestionEnds \/ Cancel \/ Stop
  \/ \E i \in Ids : WatcherSees(i) \/ DeadlinePasses(i) \/ TimesOut(i)
  \/ \E t \in Tabs : RespondTakes(t) \/ RespondRefuses(t) \/ RespondResolves(t)

Spec == Init /\ [][Next]_vars

(* The stream of the browser, and the protocol loop while no line is cut.  *)
Stream == Snapshot \/ Subscribe \/ Deliver
ReadLoop ==
  Interrupt \/ ReadLine \/ ReadEof \/ Create \/ ApprovalEnds \/ QuestionEnds \/ Cancel
AskedEnds == agent = "asked" /\ AgentEnds

-----------------------------------------------------------------------------
(* An answer that was accepted is the one the agent gets, unless the run   *)
(* was stopped: the timeout, the other tab and the refusal of an answer of *)
(* the wrong kind never replace it.                                        *)
AgreesWithUser ==
  \A i \in Ids : told[i] # None /\ got[i] # None => got[i] = told[i]

(* A stopped run's approval is withdrawn: once the loop has left it,       *)
(* nobody can answer it.                                                   *)
WithdrawnOnStop == reader = "wait" /\ reader' = "read" => asked \notin pending'

(* Nothing waits: the loop "Blocks until approved/denied/timed out" and no *)
(* longer, it ends with the agent's result, a stop has interrupted the     *)
(* agent, and the browser shows the approvals that are pending.            *)
Settled ==
  /\ reader # "wait" /\ (agent = "resulted" => reader = "done")
  /\ cancelled => interrupts = 1 \/ reader = "done"
  /\ ui = "on" /\ view = pending
=============================================================================
