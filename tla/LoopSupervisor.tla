--------------------------- MODULE LoopSupervisor ---------------------------
(***************************************************************************)
(* The loop supervisor (local-deployment/loop_supervisor.rs): a poller that *)
(* re-prompts the agent of a workspace's CLI pane when it stopped at a      *)
(* provider limit, and delivers the wake-ups a user scheduled.  One         *)
(* workspace is followed.                                                   *)
(*                                                                          *)
(* The supervisor is one task that works through a snapshot of the due      *)
(* wake-ups; the routes that change the policy and the wake-ups, the        *)
(* terminal attach that delivers a parked prompt and the agent in the pane  *)
(* run beside it.  A wake-up's fire time counts down.                       *)
(***************************************************************************)
EXTENDS Integers, Sequences, FiniteSets, SequencesExt

CONSTANTS
  Kinds,        \* the limits that the agent runs into
  MaxWakes,     \* rows of scheduled_wakeups
  MaxDelay,     \* largest delay of a wake-up
  Caps,         \* values of max_attempts that the user sets
  MaxEdits,     \* edits of the policy
  MaxBanners,   \* limits that the agent runs into
  MaxReaps,     \* sessions of the pane that end
  MaxCrashes,   \* crashes of the server
  Switches      \* what may happen besides: a subset of Events

Events == {"send_fails", "db_fails", "tick_fails", "disables", "no_session"}

Manual == "manual"
None == 0
Wakes == 1..MaxWakes
Prompt == MaxWakes + 1   \* the prompt the workspace was created with

\* Counts stop at the first value above every cap.
Most == 1 + Max(Caps)
Bump(n) == IF n < Most THEN n + 1 ELSE n

VARIABLES
  policy,  \* the row of loop_automations
  wakes,   \* the rows of scheduled_wakeups, in the order of their creation
  pane,    \* the tmux session and the banner that its screen shows
  slot,    \* the parked prompt: a wake-up, Prompt or None
  claim,   \* who holds the CliPromptDelivery claim
  sup,     \* the supervisor's task
  got,     \* how often each prompt reached the agent
  auto,    \* automatic prompts sent since the policy was last edited
  used     \* edits, banners, ended sessions and crashes so far

vars == <<policy, wakes, pane, slot, claim, sup, got, auto, used>>

Asleep == [pc |-> "asleep", due |-> <<>>, seen |-> "clear"]

Init ==
  /\ policy \in [on : {FALSE}, max : Caps, used : {0}]
  /\ wakes = <<>>
  /\ pane = [up |-> FALSE, banner |-> "clear"]
  /\ slot \in {None, Prompt}
  /\ claim = "free" /\ sup = Asleep
  /\ got = [p \in Wakes \cup {Prompt} |-> 0]
  /\ auto = 0
  /\ used = [edits |-> 0, banners |-> 0, reaps |-> 0, crashes |-> 0]

---------------------------------------------------------------------------
IsLimit(w) == wakes[w].kind # Manual

CapReachedZero(p) == p.used >= p.max
\* cap_reached: 0 is no cap.
CapReached(p) == p.max > 0 /\ p.used >= p.max

Pending(w) == w \in DOMAIN wakes /\ wakes[w].st = "pending"

\* The snapshots list_due may return: the due rows by fire time, which the
\* countdown does not keep, hence in any order.
DueLists ==
  LET due == {w \in DOMAIN wakes : Pending(w) /\ wakes[w].left = 0}
  IN SetToSeqs(due)

HasPending(kind) == \E w \in DOMAIN wakes : Pending(w) /\ wakes[w].kind = kind

FiredNever(w) == wakes
\* mark_fired: a row that was deleted meanwhile stays deleted.
Fired(w) == [wakes EXCEPT ![w].st = IF @ = "pending" THEN "fired" ELSE @]

Current == Head(sup.due)
Step(pc) == sup' = [sup EXCEPT !.pc = pc]

\* The next wake-up of the snapshot, or detection.
Advance == sup' = [sup EXCEPT !.pc = IF Len(sup.due) > 1 THEN "wake" ELSE "detect",
                              !.due = Tail(@)]
LoopLetsGo == claim' = IF claim = "loop" THEN "free" ELSE claim

\* The text reaches the agent.
Reaches(p) == got' = [got EXCEPT ![p] = IF @ < 2 THEN @ + 1 ELSE @]

---------------------------------------------------------------------------
(* deliver_due_wakeups                                                      *)

Tick ==
  /\ sup.pc = "asleep"
  /\ \E due \in DueLists :
       sup' = [sup EXCEPT !.pc = IF due = <<>> THEN "detect" ELSE "wake", !.due = due]
  /\ UNCHANGED <<policy, wakes, pane, slot, claim, got, auto, used>>

\* The policy is read (a failed read is no policy); a limit wake-up of a
\* disabled or exhausted loop is marked without being sent.
ReadPolicy ==
  LET w == Current
      live == policy.on /\ ~CapReached(policy)
  IN
  /\ sup.pc = "wake"
  /\ \/ (IsLimit(w) => live) /\ wakes' = wakes /\ Step("probe")
     \/ /\ IsLimit(w)
        /\ ~live \/ "db_fails" \in Switches
        /\ wakes' = Fired(w) /\ Advance
  /\ UNCHANGED <<policy, pane, slot, claim, got, auto, used>>

ProbeSession ==
  /\ sup.pc = "probe"
  /\ Step(IF ~pane.up THEN "repark" ELSE IF IsLimit(Current) THEN "capture" ELSE "claim")
  /\ UNCHANGED <<policy, wakes, pane, slot, claim, got, auto, used>>

\* Only while the same limit is showing.
Matches(w) == pane.banner = wakes[w].kind

Capture ==
  LET w == Current IN
  /\ sup.pc = "capture"
  /\ \/ ~pane.up /\ wakes' = wakes /\ Advance       \* capture failed: retried later
     \/ pane.up /\ Matches(w) /\ wakes' = wakes /\ Step("claim")
     \/ pane.up /\ ~Matches(w) /\ wakes' = Fired(w) /\ Advance
  /\ UNCHANGED <<policy, pane, slot, claim, got, auto, used>>

TryClaim ==
  /\ sup.pc = "claim"
  /\ \/ claim = "free" /\ claim' = "loop" /\ Step("peek")
     \/ claim # "free" /\ claim' = claim /\ Advance
  /\ UNCHANGED <<policy, wakes, pane, slot, got, auto, used>>

\* A parked prompt goes first.
Peek ==
  /\ sup.pc = "peek"
  /\ \/ slot = None /\ claim' = claim /\ Step("send")
     \/ slot # None /\ LoopLetsGo /\ Advance
     \/ "db_fails" \in Switches /\ LoopLetsGo /\ Advance
  /\ UNCHANGED <<policy, wakes, pane, slot, got, auto, used>>

\* send_cli_keys
Send ==
  LET w == Current IN
  /\ sup.pc = "send"
  /\ \/ /\ pane.up
        /\ Reaches(w)
        /\ auto' = IF IsLimit(w) THEN Bump(auto) ELSE auto
        /\ Step(IF IsLimit(w) THEN "count" ELSE "fire")
     \/ /\ ~pane.up \/ "send_fails" \in Switches
        /\ Step("repark")
        /\ UNCHANGED <<got, auto>>
  /\ UNCHANGED <<policy, wakes, pane, slot, claim, used>>

\* increment_attempts
Count ==
  /\ sup.pc = "count"
  /\ policy' = [policy EXCEPT !.used = Bump(@)]
  /\ Step("fire")
  /\ UNCHANGED <<wakes, pane, slot, claim, got, auto, used>>

StaysPending(outcome, w) ==
  outcome = "failed" \/ (outcome = "already_parked" /\ ~IsLimit(w))

Repark ==
  LET w == Current IN
  \E outcome \in {"parked", "already_parked", "no_session", "failed"} :
    /\ sup.pc = "repark"
    /\ CASE outcome = "parked" -> slot = None
         [] outcome = "already_parked" -> slot # None
         [] outcome = "no_session" -> slot = None /\ "no_session" \in Switches
         [] OTHER -> "db_fails" \in Switches
    /\ slot' = IF outcome = "parked" THEN w ELSE slot
    /\ IF StaysPending(outcome, w)
         THEN LoopLetsGo /\ Advance
         ELSE claim' = claim /\ Step("fire")
    /\ UNCHANGED <<policy, wakes, pane, got, auto, used>>

MarkFired ==
  /\ sup.pc = "fire"
  /\ wakes' = Fired(Current)
  /\ LoopLetsGo /\ Advance
  /\ UNCHANGED <<policy, pane, slot, got, auto, used>>

\* A failing mark_fired, or a failing read or insert of detection, ends the
\* tick where it stands.
TickFails ==
  /\ "tick_fails" \in Switches
  /\ sup.pc \in {"wake", "capture", "fire", "detect", "insert"}
  /\ sup' = Asleep /\ LoopLetsGo
  /\ UNCHANGED <<policy, wakes, pane, slot, got, auto, used>>

---------------------------------------------------------------------------
(* detect_and_schedule                                                      *)

\* The policy comes from the list of enabled ones.
Detect ==
  /\ sup.pc = "detect"
  /\ IF policy.on /\ ~CapReached(policy) THEN Step("look") ELSE sup' = Asleep
  /\ UNCHANGED <<policy, wakes, pane, slot, claim, got, auto, used>>

Look ==
  /\ sup.pc = "look"
  /\ sup' = IF pane.up /\ pane.banner # "clear"
              THEN [sup EXCEPT !.pc = "insert", !.seen = pane.banner] ELSE Asleep
  /\ UNCHANGED <<policy, wakes, pane, slot, claim, got, auto, used>>

\* A row for the limit that was seen, unless one is pending; the delay depends
\* on the limit (the retry interval, the overload backoff, usage_wake_at).
Schedule(left) ==
  /\ sup.pc = "insert"
  /\ wakes' = IF HasPending(sup.seen) \/ Len(wakes) = MaxWakes THEN wakes
              ELSE Append(wakes, [kind |-> sup.seen, left |-> left, st |-> "pending"])
  /\ sup' = Asleep
  /\ UNCHANGED <<policy, pane, slot, claim, got, auto, used>>

---------------------------------------------------------------------------
(* The routes.                                                              *)

\* upsert_policy re-arms the loop; switching it off drops pending wake-ups.
Swept == [w \in DOMAIN wakes |->
            IF wakes[w].st = "pending" THEN [wakes[w] EXCEPT !.st = "swept"] ELSE wakes[w]]

UpsertPolicy(on, max) ==
  /\ used.edits < MaxEdits
  /\ on \/ "disables" \in Switches
  /\ policy' = [on |-> on, max |-> max, used |-> 0]
  /\ auto' = 0
  /\ wakes' = IF on THEN wakes ELSE Swept
  /\ used' = [used EXCEPT !.edits = @ + 1]
  /\ UNCHANGED <<pane, slot, claim, sup, got>>

\* create_wakeup and delete_wakeup
CreateWakeup(left) ==
  /\ Len(wakes) < MaxWakes
  /\ wakes' = Append(wakes, [kind |-> Manual, left |-> left, st |-> "pending"])
  /\ UNCHANGED <<policy, pane, slot, claim, sup, got, auto, used>>

DeleteWakeup(w) ==
  /\ Pending(w)
  /\ wakes' = [wakes EXCEPT ![w].st = "deleted"]
  /\ UNCHANGED <<policy, pane, slot, claim, sup, got, auto, used>>

---------------------------------------------------------------------------
(* The pane and the terminal attach.                                        *)

\* An attach opens the pane when it is gone, and pastes the parked prompt.
Open ==
  /\ ~pane.up
  /\ pane' = [up |-> TRUE, banner |-> "clear"]
  /\ UNCHANGED <<policy, wakes, slot, claim, sup, got, auto, used>>

AttachClaims ==
  /\ pane.up /\ claim = "free" /\ slot # None
  /\ claim' = "attach"
  /\ UNCHANGED <<policy, wakes, pane, slot, sup, got, auto, used>>

AttachDelivers ==
  /\ claim = "attach"
  /\ claim' = "free"
  /\ IF pane.up THEN Reaches(slot) /\ slot' = None ELSE UNCHANGED <<got, slot>>
  /\ UNCHANGED <<policy, wakes, pane, sup, auto, used>>

Limited(kind) ==
  /\ pane.up /\ pane.banner # kind /\ used.banners < MaxBanners
  /\ pane' = [pane EXCEPT !.banner = kind]
  /\ used' = [used EXCEPT !.banners = @ + 1]
  /\ UNCHANGED <<policy, wakes, slot, claim, sup, got, auto>>

\* The agent works again: the user resumed it, or a prompt did.
Resumed ==
  /\ pane.up /\ pane.banner # "clear"
  /\ pane' = [pane EXCEPT !.banner = "clear"]
  /\ UNCHANGED <<policy, wakes, slot, claim, sup, got, auto, used>>

\* The idle session is reaped, or ends.
Reaped ==
  /\ pane.up /\ used.reaps < MaxReaps
  /\ pane' = [up |-> FALSE, banner |-> "clear"]
  /\ used' = [used EXCEPT !.reaps = @ + 1]
  /\ UNCHANGED <<policy, wakes, slot, claim, sup, got, auto>>

Time ==
  /\ \E w \in DOMAIN wakes : Pending(w) /\ wakes[w].left > 0
  /\ wakes' = [w \in DOMAIN wakes |->
       IF wakes[w].left > 0 THEN [wakes[w] EXCEPT !.left = @ - 1] ELSE wakes[w]]
  /\ UNCHANGED <<policy, pane, slot, claim, sup, got, auto, used>>

Crash ==
  /\ used.crashes < MaxCrashes
  /\ sup' = Asleep /\ claim' = "free"
  /\ used' = [used EXCEPT !.crashes = @ + 1]
  /\ UNCHANGED <<policy, wakes, pane, slot, got, auto>>

---------------------------------------------------------------------------
Supervisor ==
  \/ ReadPolicy \/ ProbeSession \/ Capture \/ TryClaim \/ Peek \/ Send \/ Count
  \/ Repark \/ MarkFired \/ TickFails \/ Detect \/ Look
  \/ \E d \in 1..MaxDelay : Schedule(d)

Next ==
  \/ Tick \/ Supervisor
  \/ \E on \in BOOLEAN, max \in Caps : UpsertPolicy(on, max)
  \/ \E d \in 0..MaxDelay : CreateWakeup(d)
  \/ \E w \in Wakes : DeleteWakeup(w)
  \/ Open \/ AttachClaims \/ AttachDelivers
  \/ \E k \in Kinds : Limited(k)
  \/ Resumed \/ Reaped \/ Time \/ Crash

Spec == Init /\ [][Next]_vars

\* The poller polls, time passes, and the user opens the terminal.
Fairness ==
  /\ WF_vars(Tick) /\ WF_vars(Supervisor) /\ WF_vars(Time)
  /\ WF_vars(Open) /\ SF_vars(AttachClaims) /\ WF_vars(AttachDelivers)

FairSpec == Spec /\ Fairness

---------------------------------------------------------------------------
\* At most one wake-up of a limit kind is pending, so the agent is not prompted
\* several times for one limit.
OneRetry ==
  \A v, w \in DOMAIN wakes :
    v # w /\ Pending(v) /\ Pending(w) /\ IsLimit(v) => wakes[v].kind # wakes[w].kind

\* While the database answers and the server stays up: no prompt reaches the
\* agent twice, the automatic prompts since the policy was edited stay under
\* its cap, and a manual wake-up ("the user's explicit prompt and must not be
\* dropped") is marked fired only once it was sent or is parked.
SentAsAsked ==
  /\ \A p \in DOMAIN got : got[p] <= 1
  /\ policy.max > 0 => auto <= policy.max
  /\ \A w \in DOMAIN wakes :
       wakes[w].kind = Manual /\ wakes[w].st = "fired" => got[w] > 0 \/ slot = w

\* The agent has been prompted for a limit that it stays at, unless the loop is
\* off (or no row is left in this instance).
Retried ==
  pane.up /\ pane.banner # "clear" /\ policy.on => auto > 0 \/ Len(wakes) = MaxWakes

\* An agent that stays at a limit is prompted, as long as the loop is on and
\* under its cap.
LimitRetried == []<>Retried
=============================================================================
