----------------------------- MODULE NativeFeed -----------------------------
(***************************************************************************)
(* From imported records to a browser: the outbox of cli_ingest_outbox.rs, *)
(* the links of claude_session_link.rs, the publisher, the revisions and   *)
(* the cached projection of claude_transcript_ingest.rs, and the feed      *)
(* socket of native_transcripts.rs.                                        *)
(*                                                                         *)
(* A record is <<sid, generation, line>>; a row of the feed is a record    *)
(* with its origin.  One client watches the session Watched; every other   *)
(* session is there for transcripts to move to.                            *)
(***************************************************************************)
EXTENDS Integers, Sequences, SequencesExt, FiniteSets, FiniteSetsExt

CONSTANTS
  Sessions, Watched,
  Sids,
  MaxRecords,     \* records imported
  MaxRescans,     \* generations replaced
  MaxMoves,       \* links assigned
  MaxOrigins,     \* records attributed to an executor
  MaxConnects,    \* feed sockets opened, one after the other
  MaxCrashes,     \* restarts
  ChannelCap,     \* capacity of the broadcast channel
  RevisionRace    \* may a revision change between publisher's read and send?

VARIABLES
  link,       \* claude_session_links: sid -> session or NoSession
  file,       \* sid -> latest generation and its number of records
  outbox,     \* cli_ingest_outbox rows
  watermark,  \* cli_ingest_publisher_watermarks
  linkedTo,   \* records with an execution_native_links row
  revision,   \* revisions of this server, per session
  prune,      \* outbox_prune_pending
  notify,     \* the permit of publisher_notify
  task,       \* what each actor still has to do after its transaction
  pub,        \* the publisher
  cell,       \* the cached projection of Watched
  client,     \* the feed socket and what its browser holds
  ghost       \* counters of the bounds

vars == <<link, file, outbox, watermark, linkedTo, revision, prune, notify,
          task, pub, cell, client, ghost>>

NoSession == "none"
Actors == Sids \union {"launch", "linker"}
NoTask == [pc |-> "idle", known |-> NoSession, notify |-> FALSE,
           prune |-> FALSE, inv |-> <<>>]
NoCell == [built |-> FALSE, rev |-> 0, links |-> {}, rows |-> <<>>]
PubIdle == [pc |-> "idle", todo |-> {}, session |-> NoSession, rev |-> 0]
Gone == [pc |-> "gone", queue |-> <<>>, lagged |-> FALSE, rev |-> 0, seq |-> 0,
         view |-> <<>>, full |-> TRUE,
         rdRev |-> 0, rdSeq |-> 0, rdLinks |-> {}]

Init ==
  /\ link \in [Sids -> Sessions \union {NoSession}]
  /\ file = [s \in Sids |-> [gen |-> 1, n |-> 0]]
  /\ outbox = {}
  /\ watermark = [s \in Sessions |-> 0]
  /\ linkedTo = {}
  /\ revision = [s \in Sessions |-> 0]
  /\ prune = TRUE
  /\ notify = FALSE
  /\ task = [a \in Actors |-> NoTask]
  /\ pub = PubIdle
  /\ cell = NoCell
  /\ client = Gone
  /\ ghost = [records |-> 0, rescans |-> 0, moves |-> 0, origins |-> 0,
              crashes |-> 0, connects |-> 0]

-----------------------------------------------------------------------------
(* The database.                                                           *)

Seqs(s) == {r.seq : r \in {r \in outbox : r.session = s}}

LatestSeq(s) == Max(Seqs(s) \union {watermark[s]})
NextSeq(s) == LatestSeq(s) + 1

\* A record is current when its generation is the file's latest.
Current(rec) == rec[2] = file[rec[1]].gen

\* The rows that list_for_session_after returns.
RowsAfter(s, seq) ==
  LET rows == {r \in outbox : /\ r.session = s
                              /\ r.seq > seq
                              /\ link[r.rec[1]] = s
                              /\ Current(r.rec)}
  IN  [k \in 1..Cardinality(rows) |->
         LET r == CHOOSE x \in rows :
                    Cardinality({y \in rows : y.seq <= x.seq}) = k
         IN  [seq |-> r.seq, rec |-> r.rec, exec |-> r.rec \in linkedTo]]

Rows(s) == RowsAfter(s, 0)
LinkedSids(s) == {x \in Sids : link[x] = s}

\* A broadcast reaches the client's receiver, which keeps the latest messages.
\* The client skips messages about other sessions, so they are left out.
Broadcast(msg) ==
  IF client.pc = "gone" \/ msg.session # Watched THEN client
  ELSE IF Len(client.queue) = ChannelCap
  THEN [client EXCEPT !.queue = Append(Tail(@), msg), !.lagged = TRUE]
  ELSE [client EXCEPT !.queue = Append(@, msg)]

Appended(s, seq, rev) == [kind |-> "appended", session |-> s, seq |-> seq, rev |-> rev]
Invalidated(s, rev) == [kind |-> "invalidated", session |-> s, seq |-> 0, rev |-> rev]

-----------------------------------------------------------------------------
(* Importing a transcript, one task per sid.                               *)

\* process_native_path_inner reads the link before it reads the file; only a
\* rescan uses what it read.
RescanStart(x) ==
  /\ task[x].pc = "idle"
  /\ ghost.rescans < MaxRescans
  /\ file[x].n > 0
  /\ task' = [task EXCEPT ![x] = [NoTask EXCEPT !.pc = "rescan", !.known = link[x]]]
  /\ ghost' = [ghost EXCEPT !.rescans = @ + 1]
  /\ UNCHANGED <<link, file, outbox, watermark, linkedTo, revision, prune, notify,
                 pub, cell, client>>

\* Adds a record's outbox row for the session that owns the sid now.
Published(rows, s, seq, rec) ==
  IF s = NoSession THEN rows ELSE rows \union {[session |-> s, seq |-> seq, rec |-> rec]}

\* import_batch: the record and its outbox row in one transaction.
ImportBatch(x) ==
  LET s == link[x]
      seq == IF s = NoSession THEN 0 ELSE NextSeq(s)
      rec == <<x, file[x].gen, file[x].n + 1>>
  IN  /\ task[x].pc = "idle"
      /\ ghost.records < MaxRecords
      /\ file' = [file EXCEPT ![x].n = @ + 1]
      /\ outbox' = Published(outbox, s, seq, rec)
      /\ task' = [task EXCEPT ![x] = [NoTask EXCEPT !.pc = "after",
                                        !.notify = s # NoSession]]
      /\ ghost' = [ghost EXCEPT !.records = @ + 1]
      /\ UNCHANGED <<link, watermark, linkedTo, revision, prune, notify,
                     pub, cell, client>>

\* replace_generation_and_import_batch: the old generation's rows go by
\* cascade, the new ones get a seq above them.
ReplaceGeneration(x) ==
  LET s == link[x]
      seq == IF s = NoSession THEN 0 ELSE NextSeq(s)
      rec == <<x, file[x].gen + 1, 1>>
  IN  /\ task[x].pc = "rescan"
      /\ file' = [file EXCEPT ![x] = [gen |-> @.gen + 1, n |-> 1]]
      /\ outbox' = Published({r \in outbox : r.rec[1] # x}, s, seq, rec)
      /\ task' = [task EXCEPT ![x] = [NoTask EXCEPT !.pc = "after",
           !.notify = s # NoSession, !.prune = TRUE,
           !.inv = IF task[x].known = NoSession THEN <<>> ELSE <<task[x].known>>]]
      /\ UNCHANGED <<link, watermark, linkedTo, revision, prune, notify,
                     pub, cell, client, ghost>>

-----------------------------------------------------------------------------
(* Links.                                                                  *)

\* Records of a sid, in the order an assignment publishes the missing ones.
Missing(x, s) ==
  {<<x, file[x].gen, k>> : k \in 1..file[x].n} \
    {r.rec : r \in {r \in outbox : r.session = s}}

Position(rec, recs) == Cardinality({y \in recs : y[3] <= rec[3]})

Republish(x, s) ==
  {[session |-> s, seq |-> NextSeq(s) + Position(rec, Missing(x, s)) - 1,
    rec |-> rec] : rec \in Missing(x, s)}

\* assign_cli, assign_manual, resolve_or_bind_executor: ClaudeSessionLink::upsert
\* and, when the session changed, what apply_link_mutation has to do.
AssignLink(x, s) ==
  LET moved == link[x] # s
      new == Republish(x, s)
  IN  /\ task["launch"].pc = "idle"
      /\ ghost.moves < MaxMoves
      /\ link' = [link EXCEPT ![x] = s]
      /\ outbox' = outbox \union new
      /\ task' = [task EXCEPT !["launch"] = [NoTask EXCEPT !.pc = "after",
           !.notify = new # {}, !.prune = moved,
           !.inv = IF ~moved THEN <<>>
                   ELSE IF link[x] = NoSession THEN <<s>> ELSE <<link[x], s>>]]
      /\ ghost' = [ghost EXCEPT !.moves = @ + 1]
      /\ UNCHANGED <<file, watermark, linkedTo, revision, prune, notify,
                     pub, cell, client>>

\* An executor claims a record by its uuid; the event goes to the listener.
PersistNativeLink(rec) ==
  /\ task["linker"].pc = "idle"
  /\ ghost.origins < MaxOrigins
  /\ rec \notin linkedTo
  /\ linkedTo' = linkedTo \union {rec}
  /\ task' = [task EXCEPT !["linker"] = [NoTask EXCEPT !.pc = "after",
       !.inv = IF link[rec[1]] = NoSession THEN <<>> ELSE <<link[rec[1]]>>]]
  /\ ghost' = [ghost EXCEPT !.origins = @ + 1]
  /\ UNCHANGED <<link, file, outbox, watermark, revision, prune, notify,
                 pub, cell, client>>

\* The signals after a transaction: wake the publisher, ask for a prune.
Signal(a) ==
  /\ task[a].pc = "after"
  /\ notify' = (notify \/ task[a].notify)
  /\ prune' = (prune \/ task[a].prune)
  /\ task' = [task EXCEPT ![a] = IF @.inv = <<>> THEN NoTask
                                 ELSE [@ EXCEPT !.pc = "invalidate"]]
  /\ UNCHANGED <<link, file, outbox, watermark, linkedTo, revision,
                 pub, cell, client, ghost>>

\* invalidate_revision: a new revision, then its broadcast.
InvalidateRevision(a) ==
  LET s == Head(task[a].inv) IN
  /\ task[a].pc = "invalidate"
  /\ RevisionRace \/ ~(pub.pc = "send" /\ pub.session = s)
  /\ revision' = [revision EXCEPT ![s] = @ + 1]
  /\ client' = Broadcast(Invalidated(s, revision'[s]))
  /\ task' = [task EXCEPT ![a] = IF Len(@.inv) = 1 THEN NoTask
                                 ELSE [@ EXCEPT !.inv = Tail(@)]]
  /\ UNCHANGED <<link, file, outbox, watermark, linkedTo, prune, notify,
                 pub, cell, ghost>>

-----------------------------------------------------------------------------
(* The publisher.                                                          *)

UnpublishedOffByOne == {s \in Sessions : \E q \in Seqs(s) : q > watermark[s] + 1}

\* The sessions of session_maxima: rows above the watermark.
Unpublished == {s \in Sessions : \E q \in Seqs(s) : q > watermark[s]}
Maxima == {<<s, Max(Seqs(s))>> : s \in Unpublished}

\* A notification wakes it and the outbox is polled.
PublisherWakes ==
  /\ pub.pc = "idle"
  /\ notify
  /\ notify' = FALSE
  /\ pub' = [pub EXCEPT !.pc = "next", !.todo = Maxima]
  /\ UNCHANGED <<link, file, outbox, watermark, linkedTo, revision, prune,
                 task, cell, client, ghost>>

\* The safety tick first invalidates a cached session whose links moved
\* behind the service's back (an update in progress checks them itself, and
\* is over by the next tick), then polls.
SafetyTick ==
  LET moved == /\ cell.built /\ cell.links # LinkedSids(Watched)
               /\ client.pc = "wait" /\ client.queue = <<>>
  IN
  /\ pub.pc = "idle"
  /\ moved \/ Unpublished # {} \/ prune
  /\ revision' = IF moved THEN [revision EXCEPT ![Watched] = @ + 1] ELSE revision
  /\ client' = IF moved THEN Broadcast(Invalidated(Watched, revision'[Watched])) ELSE client
  /\ prune' = (prune \/ moved)
  /\ pub' = [pub EXCEPT !.pc = "next", !.todo = Maxima]
  /\ UNCHANGED <<link, file, outbox, watermark, linkedTo, notify,
                 task, cell, ghost>>

PublisherReads(p) ==
  /\ pub.pc = "next" /\ p \in pub.todo
  /\ pub' = [pub EXCEPT !.pc = "send", !.session = p[1], !.rev = revision[p[1]]]
  /\ UNCHANGED <<link, file, outbox, watermark, linkedTo, revision, prune, notify,
                 task, cell, client, ghost>>

\* The broadcast; the watermark is persisted after it.
PublisherSends ==
  LET p == CHOOSE p \in pub.todo : p[1] = pub.session IN
  /\ pub.pc = "send"
  /\ client' = Broadcast(Appended(p[1], p[2], pub.rev))
  /\ pub' = [pub EXCEPT !.pc = "mark"]
  /\ UNCHANGED <<link, file, outbox, watermark, linkedTo, revision, prune, notify,
                 task, cell, ghost>>

MarkPublished ==
  LET p == CHOOSE p \in pub.todo : p[1] = pub.session IN
  /\ pub.pc = "mark"
  /\ watermark' = [watermark EXCEPT ![p[1]] = Max({@, p[2]})]
  /\ pub' = [PubIdle EXCEPT !.pc = "next", !.todo = pub.todo \ {p}]
  /\ UNCHANGED <<link, file, outbox, linkedTo, revision, prune, notify,
                 task, cell, client, ghost>>

\* prune_superseded keeps the rows that the projection of an owner can show.
Superseded(r) == ~(link[r.rec[1]] = r.session /\ Current(r.rec))

PruneOutboxIfPending ==
  /\ pub.pc = "next" /\ pub.todo = {}
  /\ outbox' = IF prune THEN {r \in outbox : ~Superseded(r)} ELSE outbox
  /\ prune' = FALSE
  /\ pub' = PubIdle
  /\ UNCHANGED <<link, file, watermark, linkedTo, revision, notify,
                 task, cell, client, ghost>>

-----------------------------------------------------------------------------
(* The feed socket.                                                        *)

\* Subscribe before the snapshot.
Connect ==
  /\ client.pc = "gone"
  /\ ghost.connects < MaxConnects
  /\ ghost' = [ghost EXCEPT !.connects = @ + 1]
  /\ client' = [Gone EXCEPT !.pc = "feed"]
  /\ UNCHANGED <<link, file, outbox, watermark, linkedTo, revision, prune, notify,
                 task, pub, cell>>

\* feed_since takes both watermarks before it reads anything else.
FeedWatermarks ==
  /\ client.pc = "feed"
  /\ client' = [client EXCEPT !.pc = "links", !.rdRev = revision[Watched],
                              !.rdSeq = LatestSeq(Watched)]
  /\ UNCHANGED <<link, file, outbox, watermark, linkedTo, revision, prune, notify,
                 task, pub, cell, ghost>>

FeedLinks ==
  /\ client.pc = "links"
  /\ client' = [client EXCEPT !.pc = "rows", !.rdLinks = LinkedSids(Watched)]
  /\ UNCHANGED <<link, file, outbox, watermark, linkedTo, revision, prune, notify,
                 task, pub, cell, ghost>>

LastRowSeq(rows) == IF rows = <<>> THEN 0 ELSE Last(rows).seq

\* can_extend: no row of a newer generation of a projected file.
CanExtend(old, new) ==
  \A i \in DOMAIN new, j \in DOMAIN old :
    new[i].rec[1] = old[j].rec[1] => new[i].rec[2] = old[j].rec[2]

Extends(new) ==
  /\ cell.built
  /\ cell.rev = client.rdRev
  /\ cell.links = client.rdLinks
  /\ CanExtend(cell.rows, new)

\* Extend the cached projection by the new rows, or build it from all rows,
\* and send the change: a delta of the appended rows when the projection is
\* still the one the client's cursor belongs to, all rows otherwise.
FeedRows ==
  LET new == RowsAfter(Watched, LastRowSeq(cell.rows)) IN
  /\ client.pc = "rows"
  /\ cell' = IF Extends(new) THEN [cell EXCEPT !.rows = @ \o new]
             ELSE [built |-> TRUE, rev |-> client.rdRev,
                   links |-> client.rdLinks, rows |-> Rows(Watched)]
  /\ client' = [client EXCEPT
       !.pc = "wait", !.rev = client.rdRev, !.seq = client.rdSeq,
       !.view = IF ~client.full /\ Extends(new)
                THEN @ \o SubSeq(cell'.rows, Len(@) + 1, Len(cell'.rows))
                ELSE cell'.rows,
       !.full = TRUE, !.rdRev = 0, !.rdSeq = 0, !.rdLinks = {}]
  /\ UNCHANGED <<link, file, outbox, watermark, linkedTo, revision, prune, notify,
                 task, pub, ghost>>

\* drain_latest_update keeps the last message of the session.
LatestUpdate == Last(client.queue)

\* resnapshot_reason: is the update newer than what the client holds?
Newer(u) ==
  \/ u.rev > client.rev
  \/ u.kind = "appended" /\ u.rev = client.rev /\ u.seq > client.seq

HandleUpdates ==
  /\ client.pc = "wait" /\ client.queue # <<>>
  /\ client' = [client EXCEPT
       !.queue = <<>>, !.lagged = FALSE,
       !.pc = IF client.lagged \/ Newer(LatestUpdate) THEN "feed" ELSE "wait",
       !.full = client.lagged \/ LatestUpdate.rev > client.rev]
  /\ UNCHANGED <<link, file, outbox, watermark, linkedTo, revision, prune, notify,
                 task, pub, cell, ghost>>

\* The browser leaves; the last claim on the projection drops it.
Disconnect ==
  /\ client.pc = "wait"
  /\ client' = Gone
  /\ cell' = NoCell
  /\ UNCHANGED <<link, file, outbox, watermark, linkedTo, revision, prune, notify,
                 task, pub, ghost>>

\* A restart keeps the database and nothing else.
Crash ==
  /\ ghost.crashes < MaxCrashes
  /\ ghost' = [ghost EXCEPT !.crashes = @ + 1]
  /\ revision' = [s \in Sessions |-> 0]
  /\ prune' = TRUE
  /\ notify' = FALSE
  /\ task' = [a \in Actors |-> NoTask]
  /\ pub' = PubIdle
  /\ cell' = NoCell
  /\ client' = Gone
  /\ UNCHANGED <<link, file, outbox, watermark, linkedTo>>

-----------------------------------------------------------------------------
PublisherStep ==
  \/ PublisherWakes
  \/ SafetyTick
  \/ \E p \in pub.todo : PublisherReads(p)
  \/ PublisherSends
  \/ MarkPublished
  \/ PruneOutboxIfPending

FeedStep == FeedWatermarks \/ FeedLinks \/ FeedRows \/ HandleUpdates

Next ==
  \/ \E x \in Sids : RescanStart(x) \/ ImportBatch(x) \/ ReplaceGeneration(x)
  \/ \E x \in Sids, s \in Sessions : AssignLink(x, s)
  \/ \E x \in Sids : \E k \in 1..file[x].n : PersistNativeLink(<<x, file[x].gen, k>>)
  \/ \E a \in Actors : Signal(a) \/ InvalidateRevision(a)
  \/ PublisherStep
  \/ Connect \/ FeedStep \/ Disconnect
  \/ Crash

Fairness ==
  /\ WF_vars(PublisherStep)
  /\ WF_vars(FeedStep)
  /\ \A a \in Actors : WF_vars(Signal(a) \/ InvalidateRevision(a))

Spec == Init /\ [][Next]_vars /\ Fairness

-----------------------------------------------------------------------------
\* An open feed shows the records that the database has for its session.
FeedIsCurrent == client.pc = "gone" \/ client.view = Rows(Watched)

\* Once imports and moves stop, an open feed comes to show the database's
\* records, whichever notifications, lagged messages and restarts came before.
FeedConverges == <>[]FeedIsCurrent
=============================================================================
