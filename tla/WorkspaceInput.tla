--------------------------- MODULE WorkspaceInput ---------------------------
(***************************************************************************)
(* One Input of a workspace: a question that an agent asks and the owner   *)
(* answers.  workspace_input.rs keeps it as an append-only ledger with a   *)
(* projection, and as one availability row per time it became due;         *)
(* input_availability.rs turns due rows into notifications.                *)
(*                                                                         *)
(* A client composes a request from what it has read and may send it       *)
(* again when the response was lost.  The hash of an event is modelled by  *)
(* its sequence number; event ids and generations are sequence numbers.    *)
(***************************************************************************)
EXTENDS Integers, Sequences, FiniteSets

CONSTANTS
  Requests,    \* request ids, each composed once and sent any number of times
  Workers,     \* availability loops, of one or more servers
  MaxTime,     \* the clock stops here
  ClaimTime,   \* how long a claim lasts
  MaxLosses    \* ticks cut off by a crash or a database error

VARIABLES
  input,    \* the row of workspace_inputs
  ledger,   \* workspace_input_events, in order of insertion
  avail,    \* workspace_input_availability, a set of rows
  alive,    \* the workspace exists
  now,
  req,      \* what each request asks for
  resp,     \* the last response to each request
  worker,   \* each worker's step, claim and what it has shown
  ghost     \* notices shown and claims lost, per generation

vars == <<input, ledger, avail, alive, now, req, resp, worker, ghost>>

Keep == -1        \* a publish that leaves show_at alone
Always == 0       \* show_at is null

Body == [op : {"create"}, by : {"agent"}, ask : {TRUE}, show : {Always, 1}]
  \union [op : {"publish"}, by : {"agent"}, ask : BOOLEAN, show : {Keep, Always}]
  \union [op : {"cancelled"}, by : {"agent"}, ask : {TRUE}, show : {Keep}]
  \union [op : {"closed"}, by : {"agent", "owner"}, ask : {TRUE}, show : {Keep}]
  \union [op : {"answer"}, by : {"owner"}, ask : BOOLEAN, show : {Keep}]
  \union [op : {"snooze"}, by : {"owner"}, ask : {TRUE}, show : {Always, 1}]
  \union [op : {"undo"}, by : {"owner"}, ask : {TRUE}, show : {Keep}]

NoInput == [status |-> "none", version |-> 0, seq |-> 0, show |-> Always, gen |-> 0]
NoReq == [op |-> "none", by |-> "none", ask |-> TRUE, show |-> Keep, seq |-> 0, version |-> 0]
Idle == [pc |-> "idle", gen |-> 0, token |-> 0]

Init ==
  /\ input = NoInput
  /\ ledger = <<>>
  /\ avail = {}
  /\ alive = TRUE
  /\ now = 0
  /\ req = [id \in Requests |-> NoReq]
  /\ resp = [id \in Requests |-> 0]
  /\ worker = [w \in Workers |-> Idle]
  /\ ghost = [shown |-> <<>>, lapsed |-> {}, losses |-> 0, token |-> 0]

-----------------------------------------------------------------------------
(* Requests.                                                               *)

\* A client reads the Input and decides what to write.
Compose(id, body) ==
  /\ req[id] = NoReq
  /\ alive
  /\ (body.op = "create") = (input.status = "none")
  /\ req' = [req EXCEPT ![id] = [op |-> body.op, by |-> body.by, ask |-> body.ask,
              show |-> body.show, seq |-> input.seq, version |-> input.version]]
  /\ UNCHANGED <<input, ledger, avail, alive, now, resp, worker, ghost>>

LastEvent == ledger[Len(ledger)]

\* What write refuses, beyond a dead workspace and a stale expected_sequence.
Refused(r) ==
  CASE r.op = "create" -> input.status # "none"
    [] r.op = "publish" -> input.status \notin {"open", "answered"}
    [] r.op = "snooze" -> input.status # "open"
    [] r.op = "answer" -> r.version # input.version \/ input.status # "open"
    [] r.op \in {"closed", "cancelled"} -> input.status \notin {"open", "answered"}
    [] r.op = "undo" -> \/ input.status # "closed"
                        \/ LastEvent.type # "closed" \/ LastEvent.by # "owner"

\* An answer with ask = FALSE is "no answer yet" and leaves the Input open.
NewStatus(r) ==
  CASE r.op = "create" -> "open"
    [] r.op = "publish" -> IF r.ask THEN "open" ELSE input.status
    [] r.op = "snooze" -> "open"
    [] r.op = "answer" -> IF r.ask THEN "answered" ELSE "open"
    [] r.op \in {"closed", "cancelled"} -> r.op
    [] r.op = "undo" -> LastEvent.prior

\* Does the write start a new availability generation?
NewGeneration(r) ==
  CASE r.op \in {"create", "snooze"} -> TRUE
    [] r.op = "publish" -> r.show # Keep \/ (r.ask /\ input.status = "answered")
    [] r.op = "undo" -> NewStatus(r) = "open"
    [] OTHER -> FALSE

\* The projection that the write leaves.
After(r) ==
  [status  |-> NewStatus(r),
   version |-> IF r.op \in {"create", "publish", "undo"} THEN input.version + 1
               ELSE input.version,
   seq     |-> input.seq + 1,
   show    |-> IF r.show = Keep THEN input.show ELSE r.show,
   gen     |-> IF NewGeneration(r) THEN input.seq + 1 ELSE input.gen]

EventType(r) == CASE r.op = "create" -> "created"
                  [] r.op \in {"publish", "undo"} -> "version_published"
                  [] r.op = "answer" -> "answer_submitted"
                  [] r.op = "snooze" -> "snoozed"
                  [] OTHER -> r.op

Event(type, by, id, seen, i) ==
  [seq |-> i.seq, type |-> type, by |-> by, req |-> id, seen |-> seen,
   version |-> i.version, status |-> i.status, prior |-> input.status,
   prev |-> IF ledger = <<>> THEN 0 ELSE LastEvent.seq]

Row(gen, available) == [gen |-> gen, available |-> available, finished |-> FALSE,
                        token |-> 0, until |-> 0]

\* Rows that the write finishes: superseded, or nothing to answer any more.
Settled(r) ==
  IF NewGeneration(r) \/ After(r).status # "open"
  THEN {[a EXCEPT !.finished = TRUE] : a \in avail} ELSE avail

Committed(id) == {k \in DOMAIN ledger : ledger[k].req = id}

WriteBlind(id) ==
  LET r == req[id]
      i == After(r)
      done == Committed(id)
      refused == ~alive \/ Refused(r)
  IN  /\ r # NoReq
      /\ resp' = [resp EXCEPT ![id] =
           IF alive /\ done # {} THEN ledger[CHOOSE k \in done : TRUE].seq
           ELSE IF refused THEN -1 ELSE i.seq]
      /\ IF refused \/ done # {} THEN UNCHANGED <<input, ledger, avail>>
         ELSE /\ input' = i
              /\ ledger' = Append(ledger, Event(EventType(r), r.by, id, r.seq, i))
              /\ avail' = Settled(r) \union
                   (IF NewGeneration(r) /\ i.status = "open"
                    THEN {Row(i.seq, i.show <= now)} ELSE {})
      /\ UNCHANGED <<alive, now, req, worker, ghost>>

\* WorkspaceInput::write, one immediate transaction: the receipt of an earlier
\* delivery, a refusal, or an event with the new projection and availability.
Write(id) ==
  LET r == req[id]
      i == After(r)
      done == Committed(id)
      refused == ~alive \/ r.seq # input.seq \/ Refused(r)
  IN  /\ r # NoReq
      /\ resp' = [resp EXCEPT ![id] =
           IF alive /\ done # {} THEN ledger[CHOOSE k \in done : TRUE].seq
           ELSE IF refused THEN -1 ELSE i.seq]
      /\ IF refused \/ done # {} THEN UNCHANGED <<input, ledger, avail>>
         ELSE /\ input' = i
              /\ ledger' = Append(ledger, Event(EventType(r), r.by, id, r.seq, i))
              /\ avail' = Settled(r) \union
                   (IF NewGeneration(r) /\ i.status = "open"
                    THEN {Row(i.seq, i.show <= now)} ELSE {})
      /\ UNCHANGED <<alive, now, req, worker, ghost>>

\* The workspace is deleted; its ledger is retained.
DeleteWorkspace ==
  /\ alive /\ input.status # "none"
  /\ alive' = FALSE
  /\ UNCHANGED <<input, ledger, avail, now, req, resp, worker, ghost>>

Clock ==
  /\ now < MaxTime
  /\ now' = now + 1
  /\ UNCHANGED <<input, ledger, avail, alive, req, resp, worker, ghost>>

-----------------------------------------------------------------------------
(* Availability.                                                           *)

\* The conditions that release_due, claim_notification and
\* notification_is_current share.
Live(a) ==
  /\ alive
  /\ a.gen = input.gen /\ ~a.finished
  /\ input.status = "open" /\ input.show <= now

Due == {a \in avail : Live(a) /\ ~a.available}

\* release_due: an event for the due generation, which becomes available.
ReleaseDue(w) ==
  LET i == [input EXCEPT !.seq = @ + 1] IN
  /\ worker[w].pc = "idle" /\ Due # {}
  /\ input' = i
  /\ ledger' = Append(ledger, Event("available", "system", "none", input.seq, i))
  /\ avail' = {IF a \in Due THEN [a EXCEPT !.available = TRUE] ELSE a : a \in avail}
  /\ UNCHANGED <<alive, now, req, resp, worker, ghost>>

ClaimableTwice(a) == Live(a) /\ a.available

ClaimableUnclaimed(a) == Live(a) /\ a.available /\ a.until = 0

\* The notification is unclaimed, or its claim has run out.
Claimable(a) == Live(a) /\ a.available /\ a.until <= now

\* claim_notification: a fresh token for ClaimTime, over a lapsed one if any.
ClaimNotification(w, a) ==
  LET t == ghost.token + 1 IN
  /\ worker[w].pc = "idle" /\ Claimable(a)
  /\ avail' = (avail \ {a}) \union {[a EXCEPT !.token = t, !.until = now + ClaimTime]}
  /\ worker' = [worker EXCEPT ![w] = [pc |-> "check", gen |-> a.gen, token |-> t]]
  /\ ghost' = [ghost EXCEPT !.token = t,
       !.lapsed = IF a.token # 0 /\ a.until <= now THEN @ \union {a.gen} ELSE @]
  /\ UNCHANGED <<input, ledger, alive, now, req, resp>>

Held(w, a) == /\ a.gen = worker[w].gen /\ ~a.finished
              /\ a.token = worker[w].token /\ a.until > now

\* notification_is_current, immediately before the call.
NotificationIsCurrent(w) ==
  /\ worker[w].pc = "check"
  /\ worker' = [worker EXCEPT ![w].pc =
       IF \E a \in avail : Held(w, a) /\ Live(a) /\ a.available
       THEN "notify" ELSE "finish"]
  /\ UNCHANGED <<input, ledger, avail, alive, now, req, resp, ghost>>

\* The call, which may time out before anything is shown.
Notify(w) ==
  /\ worker[w].pc = "notify"
  /\ \E shown \in BOOLEAN :
       ghost' = IF shown THEN [ghost EXCEPT !.shown = Append(@, worker[w].gen)] ELSE ghost
  /\ worker' = [worker EXCEPT ![w].pc = "finish"]
  /\ UNCHANGED <<input, ledger, avail, alive, now, req, resp>>

\* finish_notification: only while the claim is still held.
FinishNotification(w) ==
  /\ worker[w].pc = "finish"
  /\ avail' = {IF Held(w, a) THEN [a EXCEPT !.finished = TRUE, !.token = 0, !.until = 0]
               ELSE a : a \in avail}
  /\ worker' = [worker EXCEPT ![w] = Idle]
  /\ UNCHANGED <<input, ledger, alive, now, req, resp, ghost>>

\* A crash or a database error ends the tick; a claim then has to run out.
TickLost(w) ==
  /\ worker[w].pc # "idle"
  /\ ghost.losses < MaxLosses
  /\ now + ClaimTime <= MaxTime
  /\ worker' = [worker EXCEPT ![w] = Idle]
  /\ ghost' = [ghost EXCEPT !.losses = @ + 1]
  /\ UNCHANGED <<input, ledger, avail, alive, now, req, resp>>

-----------------------------------------------------------------------------
Tick(w) ==
  \/ ReleaseDue(w)
  \/ \E a \in avail : ClaimNotification(w, a)
  \/ NotificationIsCurrent(w)
  \/ Notify(w)
  \/ FinishNotification(w)

Next ==
  \/ \E id \in Requests, body \in Body : Compose(id, body)
  \/ \E id \in Requests : Write(id)
  \/ DeleteWorkspace
  \/ Clock
  \/ \E w \in Workers : Tick(w) \/ TickLost(w)

Fairness == WF_vars(Clock) /\ \A w \in Workers : WF_vars(Tick(w))

Spec == Init /\ [][Next]_vars /\ Fairness

-----------------------------------------------------------------------------
\* The ledger verifies: it has no gap, and the projection is its last event's.
\* Nobody wrote over an event they had not seen, whether the other party's
\* write or a release.  However often a request is sent it has one event, and
\* every response after that event is its receipt.
LedgerIsExact ==
  /\ input.seq = Len(ledger)
  /\ ledger # <<>> => input.status = LastEvent.status /\ input.version = LastEvent.version
  /\ \A k \in DOMAIN ledger :
       ledger[k].seq = k /\ ledger[k].prev = k - 1 /\ ledger[k].seen = k - 1
  /\ \A id \in Requests :
       /\ Cardinality(Committed(id)) <= 1
       /\ alive => \A k \in Committed(id) : resp[id] = ledger[k].seq

\* Unfinished availability belongs to the current generation of an open Input,
\* so what was answered, closed or rescheduled never notifies; and a
\* generation is shown once, unless a claim ran out before it was finished.
NoticesAreDue ==
  /\ \A a \in avail : ~a.finished => a.gen = input.gen /\ input.status = "open"
  /\ \A j, k \in DOMAIN ghost.shown :
       ghost.shown[j] = ghost.shown[k] /\ j # k => ghost.shown[j] \in ghost.lapsed

\* No open, due Input waits for its notification.
NothingDue == ~ \E a \in avail : Live(a)
=============================================================================
