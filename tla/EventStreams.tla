---------------------------- MODULE EventStreams ----------------------------
(***************************************************************************)
(* Live views of database rows: the update hook of events.rs, the message  *)
(* store it pushes to, and the streams of events/streams.rs that a socket  *)
(* reads.  Two kinds of row share the machinery:                           *)
(*   "reports" - the report tabs of a workspace, written by                *)
(*     workspace_report.rs with an optional expected timestamp, published  *)
(*     again after the commit and filtered by timestamp in the stream;     *)
(*   "status" - a workspace or execution process, announced by the hook    *)
(*     alone, with the snapshot read before the stream is subscribed.      *)
(* One report tab is modelled; at = 0 means that it does not exist.        *)
(***************************************************************************)
EXTENDS Integers, Sequences

CONSTANTS
  Kind,
  Writers,
  Values,        \* what a tab can say
  MaxViewWrites,     \* transactions that change the row
  MaxConnects,   \* sockets opened, one after the other
  ChannelCap     \* capacity of the broadcast channel

VARIABLES
  viewRow,       \* the committed row: its stamp and its tab
  rev,       \* committed changes, to tell rows with equal stamps apart
  writer,    \* request handlers
  hook,      \* one task per fired update hook, in order of firing
  viewer,    \* the socket and the view behind it
  viewWrites, connects,
  lastWrite  \* what the last change was based on

viewVars == <<viewRow, rev, writer, hook, viewer, viewWrites, connects, lastWrite>>

NoTab == [val |-> "none", at |-> 0]
NoView == [stamp |-> 0, tab |-> NoTab]
IdleWriting == [pc |-> "idle", val |-> "none", expected |-> 0, base |-> 0, next |-> NoView]
Gone == [pc |-> "gone", queue |-> <<>>, lagged |-> FALSE, view |-> NoView]

\* The row may exist already.
ViewInit ==
  /\ viewRow \in {NoView} \union {[stamp |-> 1, tab |-> [val |-> v, at |-> 1]] : v \in Values}
  /\ rev = 0
  /\ writer = [w \in Writers |-> IdleWriting]
  /\ hook = <<>>
  /\ viewer = Gone
  /\ viewWrites = 0 /\ connects = 0
  /\ lastWrite = [conditional |-> FALSE, seen |-> 0, found |-> 0]

-----------------------------------------------------------------------------
(* Writing.                                                                *)

\* A viewer reads the tab and sends a write, with the timestamp it read or
\* without any; val = "none" deletes.  Only reports know the timestamp.
SendWrite(w, val, conditional) ==
  /\ writer[w].pc = "idle"
  /\ conditional => Kind = "reports"
  /\ viewWrites < MaxViewWrites
  /\ viewWrites' = viewWrites + 1
  /\ writer' = [writer EXCEPT ![w] = [IdleWriting EXCEPT !.pc = "begin", !.val = val,
       !.expected = IF conditional THEN viewRow.tab.at ELSE 0, !.base = rev]]
  /\ UNCHANGED <<viewRow, rev, hook, viewer, connects, lastWrite>>

Locked == \E w \in Writers : writer[w].pc = "commit"

NextStampIsNow(now) == now

\* Later than every stamp before it, wherever the clock stands.
NextStamp(now) == IF now > viewRow.stamp THEN now ELSE viewRow.stamp + 1

Unchanged(w) == /\ writer[w].val = viewRow.tab.val
                /\ viewRow.tab.at = 0 => writer[w].expected = 0

\* WorkspaceReport::write up to its commit: an equal row succeeds as it is, a
\* stale timestamp is refused, anything else updates the row, which fires the
\* update hook inside the transaction.  A status row is written without any
\* check.
WriteReport(w, now) ==
  LET t == NextStamp(now)
      new == [stamp |-> t, tab |-> IF writer[w].val = "none" THEN NoTab
                                   ELSE [val |-> writer[w].val, at |-> t]]
      conflict == writer[w].expected # 0 /\ writer[w].expected # viewRow.tab.at
  IN  /\ writer[w].pc = "begin" /\ ~Locked
      /\ IF Kind = "reports" /\ (Unchanged(w) \/ conflict)
         THEN /\ writer' = [writer EXCEPT ![w] =
                   IF Unchanged(w) THEN [IdleWriting EXCEPT !.pc = "load"] ELSE IdleWriting]
              /\ UNCHANGED hook
         ELSE /\ writer' = [writer EXCEPT ![w].pc = "commit", ![w].next = new]
              /\ hook' = Append(hook, [pc |-> "read", row |-> NoView])
      /\ UNCHANGED <<viewRow, rev, viewer, viewWrites, connects, lastWrite>>

Commit(w) ==
  /\ writer[w].pc = "commit"
  /\ viewRow' = writer[w].next
  /\ rev' = rev + 1
  /\ lastWrite' = [conditional |-> writer[w].expected # 0,
                   seen |-> writer[w].base, found |-> rev]
  /\ writer' = [writer EXCEPT ![w] =
       IF Kind = "reports" THEN [IdleWriting EXCEPT !.pc = "load"] ELSE IdleWriting]
  /\ UNCHANGED <<hook, viewer, viewWrites, connects>>

-----------------------------------------------------------------------------
(* Announcing.                                                             *)

\* MsgStore::push to the subscribed socket.
Push(r) ==
  IF viewer.pc \notin {"subscribed", "live"} THEN viewer
  ELSE IF Len(viewer.queue) = ChannelCap
  THEN [viewer EXCEPT !.queue = Append(Tail(@), r), !.lagged = TRUE]
  ELSE [viewer EXCEPT !.queue = Append(@, r)]

\* publish_workspace_reports: read the committed row, then push it.
LoadForPublish(w) ==
  /\ writer[w].pc = "load"
  /\ writer' = [writer EXCEPT ![w] = [IdleWriting EXCEPT !.pc = "push", !.next = viewRow]]
  /\ UNCHANGED <<viewRow, rev, hook, viewer, viewWrites, connects, lastWrite>>

Publish(w) ==
  /\ writer[w].pc = "push"
  /\ viewer' = IF writer[w].next = NoView THEN viewer ELSE Push(writer[w].next)
  /\ writer' = [writer EXCEPT ![w] = IdleWriting]
  /\ UNCHANGED <<viewRow, rev, hook, viewWrites, connects, lastWrite>>

\* The task spawned by the update hook reads the row on a connection of its
\* own, perhaps before the commit that fired it, and pushes what it read.
HookReads(k) ==
  /\ hook[k].pc = "read"
  /\ hook' = [hook EXCEPT ![k] = [pc |-> "push", row |-> viewRow]]
  /\ UNCHANGED <<viewRow, rev, writer, viewer, viewWrites, connects, lastWrite>>

HookPushes(k) ==
  /\ hook[k].pc = "push"
  /\ viewer' = IF hook[k].row = NoView THEN viewer ELSE Push(hook[k].row)
  /\ hook' = [hook EXCEPT ![k] = [pc |-> "done", row |-> NoView]]
  /\ UNCHANGED <<viewRow, rev, writer, viewWrites, connects, lastWrite>>

-----------------------------------------------------------------------------
(* The socket.                                                             *)

ConnectLoadingFirst ==
  /\ viewer.pc = "gone"
  /\ connects < MaxConnects
  /\ connects' = connects + 1
  /\ viewer' = [Gone EXCEPT !.pc = "loaded", !.view = viewRow]
  /\ UNCHANGED <<viewRow, rev, writer, hook, viewWrites, lastWrite>>

\* A report stream subscribes first; the others load their snapshot first.
Connect ==
  /\ viewer.pc = "gone"
  /\ connects < MaxConnects
  /\ connects' = connects + 1
  /\ viewer' = IF Kind = "reports" THEN [Gone EXCEPT !.pc = "subscribed", !.view = viewer.view]
               ELSE [Gone EXCEPT !.pc = "loaded", !.view = viewRow]
  /\ UNCHANGED <<viewRow, rev, writer, hook, viewWrites, lastWrite>>

LoadSnapshot ==
  /\ viewer.pc = "subscribed"
  /\ viewer' = [viewer EXCEPT !.pc = "live", !.view = viewRow]
  /\ UNCHANGED <<viewRow, rev, writer, hook, viewWrites, connects, lastWrite>>

Subscribe ==
  /\ viewer.pc = "loaded"
  /\ viewer' = [viewer EXCEPT !.pc = "live"]
  /\ UNCHANGED <<viewRow, rev, writer, hook, viewWrites, connects, lastWrite>>

\* report_timestamp drops what is not newer than the view.
Accepts(r) == Kind = "reports" => r.stamp > viewer.view.stamp

\* A report stream ends on lag, for the socket to reconnect; the others lose
\* the messages without a trace.
Receive ==
  /\ viewer.pc = "live" /\ viewer.queue # <<>>
  /\ viewer' =
       IF viewer.lagged /\ Kind = "reports" THEN [Gone EXCEPT !.view = viewer.view]
       ELSE [viewer EXCEPT !.queue = Tail(@), !.lagged = FALSE,
               !.view = IF Accepts(Head(viewer.queue)) THEN Head(viewer.queue) ELSE @]
  /\ UNCHANGED <<viewRow, rev, writer, hook, viewWrites, connects, lastWrite>>

-----------------------------------------------------------------------------
WriterStep(w) ==
  \/ \E now \in 1..2 : WriteReport(w, now)
  \/ Commit(w) \/ LoadForPublish(w) \/ Publish(w)

HookStep == \E k \in DOMAIN hook : HookReads(k) \/ HookPushes(k)

ClientStep == LoadSnapshot \/ Subscribe \/ Receive

ViewNext ==
  \/ \E w \in Writers, val \in Values \union {"none"}, c \in BOOLEAN : SendWrite(w, val, c)
  \/ \E w \in Writers : WriterStep(w)
  \/ HookStep
  \/ Connect
  \/ ClientStep

ViewFairness ==
  /\ \A w \in Writers : WF_viewVars(WriterStep(w))
  /\ WF_viewVars(HookStep)
  /\ WF_viewVars(ClientStep)

ViewSpec == ViewInit /\ [][ViewNext]_viewVars /\ ViewFairness

-----------------------------------------------------------------------------
\* A write that carries a timestamp changes only the row its author read, even
\* when the tab was deleted and created again in between or the clock went
\* back.
ConditionalWriteIsCurrent == lastWrite.conditional => lastWrite.seen = lastWrite.found

\* An open view shows the row.
ViewIsCurrent == viewer.pc = "gone" \/ viewer.view = viewRow
=============================================================================
