------------------------- MODULE SessionQueuedMessage -------------------------
(***************************************************************************)
(* The rows of session_queued_messages and the SQL statements of           *)
(* crates/db/src/models/session_queued_message.rs, as functions of the     *)
(* one active row a session may have (a unique index allows no second).    *)
(*                                                                         *)
(* A row in a terminal state is no longer looked at, so the active row     *)
(* becomes NoRow when it reaches one.  Timestamps are kept as the          *)
(* comparisons the code makes with them:                                   *)
(*   pasted  pasted_at IS NOT NULL                                         *)
(*   aged    the paste is older than PASTE_ACK_HARD_CAP; for an ownerless  *)
(*           claim, updated_at is older than PASTING_STARTUP_GRACE         *)
(*   failed  a failed or killed coding agent of the session completed at   *)
(*           or after updated_at                                           *)
(*   rebound the latest pane binding was created after pasted_at           *)
(* A claim owner is "none" (NULL), "this" server process or an "other",    *)
(* earlier one: the only thing the code compares owners for.  Id 0 is no   *)
(* row; a row has the id of the message that was inserted with it.         *)
(***************************************************************************)
EXTENDS Integers

States  == {"none", "queued", "pasting", "pasted"}
Reasons == {"none",        \* NULL
            "retry",       \* any reason that the code only displays
            "unacked",     \* PASTED_REQUEUE_FAILURE_REASON
            "hold"}        \* ABNORMAL_EXECUTOR_QUEUE_HOLD

Owners == {"none", "this", "other"}

NoRow == [id |-> 0, msg |-> 0, retry |-> FALSE, state |-> "none",
          reason |-> "none", exec |-> "none", paste |-> "none",
          pasted |-> FALSE, aged |-> FALSE, failed |-> FALSE, rebound |-> FALSE]

Rows == [id : Nat, msg : Nat, retry : BOOLEAN, state : States,
         reason : Reasons, exec : Owners, paste : Owners,
         pasted : BOOLEAN, aged : BOOLEAN, failed : BOOLEAN, rebound : BOOLEAN]

-----------------------------------------------------------------------------

\* store_with_context: with replace a queued row takes the new prompt and
\* keeps its id; otherwise an active row is a conflict and is left alone.
Fresh(id, msg, retry) ==
    [NoRow EXCEPT !.id = id, !.msg = msg, !.retry = retry, !.state = "queued"]

Conflicts(row, replace) ==
    /\ row.state # "none"
    /\ ~ (replace /\ row.state = "queued")

\* A replacement that takes over a row in flight.
StoreOverAny(row, msg, retry, replace) ==
    Fresh(IF row.state = "none" THEN msg ELSE row.id, msg, retry)

Store(row, msg, retry, replace) ==
    IF Conflicts(row, replace) THEN row
    ELSE Fresh(IF row.state = "none" THEN msg ELSE row.id, msg, retry)

\* claim: only a row that is still queued, and it forgets the earlier paste.
Claimable(row, id) == row.id = id /\ row.state = "queued"

ClaimForPaste(row) ==
    [row EXCEPT !.state = "pasting", !.exec = "none", !.paste = "this",
                !.pasted = FALSE, !.aged = FALSE, !.rebound = FALSE,
                !.reason = "none", !.failed = FALSE]

ClaimForExecutor(row) ==
    [row EXCEPT !.state = "pasting", !.exec = "this", !.paste = "none",
                !.pasted = FALSE, !.aged = FALSE, !.rebound = FALSE,
                !.reason = "none", !.failed = FALSE]

\* mark_pasted and mark_consumed: only the claim of this owner.
PasteClaimed(row, id) ==
    row.id = id /\ row.state = "pasting" /\ row.exec = "none" /\ row.paste = "this"

ExecutorClaimed(row, id) ==
    row.id = id /\ row.state = "pasting" /\ row.exec = "this"

\* A delivery state that the table does not have.
MarkSubmitted(row) ==
    [row EXCEPT !.state = "submitted", !.paste = "none",
                !.pasted = TRUE, !.aged = FALSE, !.failed = FALSE]

MarkPasted(row) ==
    [row EXCEPT !.state = "pasted", !.paste = "none",
                !.pasted = TRUE, !.aged = FALSE, !.failed = FALSE]

\* requeue: a pasted row keeps its paste evidence, a claim has none to keep.
InFlight(row) == row.state \in {"pasting", "pasted"}

Requeue(row, id, reason) ==
    IF row.id = id /\ InFlight(row)
      THEN [row EXCEPT !.state = "queued", !.reason = reason, !.exec = "none", !.paste = "none",
                       !.pasted = (row.state = "pasted"),
                       !.aged = row.aged /\ row.state = "pasted",
                       !.rebound = row.rebound /\ row.state = "pasted", !.failed = FALSE]
      ELSE row

\* set_failure_reason: only a queued row.
SetFailureReason(row, id, reason) ==
    IF Claimable(row, id) THEN [row EXCEPT !.reason = reason, !.failed = FALSE] ELSE row

\* was_requeued_from_pasted.
WasRequeuedFromPasted(row) ==
    row.state = "queued" /\ row.pasted /\ row.reason = "unacked"

-----------------------------------------------------------------------------

\* The rows a native user record may acknowledge (the ack of
\* import_batch_in_transaction and the first statement of reconcile); the
\* import also asks for pasted_at.
Ackable(row) == InFlight(row) \/ WasRequeuedFromPasted(row)

\* A recovery that takes every claim for abandoned.
AnyClaim(row) == row.state = "pasting"

\* reconcile, second statement: a claim without an owner is abandoned after
\* the grace, a claim of another server process at once, a claim of this
\* process never.
Abandoned(row) ==
    /\ row.state = "pasting"
    /\ \/ row.exec = "none" /\ row.paste = "none" /\ row.aged
       \/ row.exec = "other"
       \/ row.paste = "other"

\* A foreign executor claim is older than this process, so the earlier of
\* updated_at and the tick's start is updated_at.
Recover(row) ==
    [row EXCEPT !.state = "queued", !.exec = "none", !.paste = "none", !.failed = FALSE,
                !.aged = row.aged /\ row.pasted,
                !.reason = IF row.exec = "other" /\ row.failed THEN "hold"
                           ELSE IF row.pasted THEN "unacked" ELSE "retry"]

\* The server process is gone: its claims are an earlier process's now.
Former(owner) == IF owner = "this" THEN "other" ELSE owner

Orphaned(row) ==
    [row EXCEPT !.exec = Former(@), !.paste = Former(@)]

\* A hard cap that only counts for a pane that was launched again.
ExpiredRebound(row) == row.state = "pasted" /\ row.aged /\ row.rebound

\* reconcile, third statement: a paste past the hard cap.
Expired(row) == row.state = "pasted" /\ row.aged

Unacknowledged(row) == [row EXCEPT !.state = "queued", !.reason = "unacked", !.failed = FALSE]

=============================================================================
