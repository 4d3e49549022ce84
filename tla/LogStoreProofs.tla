--------------------------- MODULE LogStoreProofs ---------------------------
(***************************************************************************)
(* The message store, for any size of its history and of its ring.  A      *)
(* reader gets every message once and in order until it lags, and the      *)
(* metadata task sees to every UUID.                                       *)
(*                                                                         *)
(* While a reader copies the history it holds the read lock, so nothing is *)
(* pushed between the end of its copy and the first message it gets from   *)
(* the broadcast.  The metadata task ends when nobody is left who could    *)
(* push; from then on nobody can, for the store leaves the map once and    *)
(* only who holds it pushes.                                               *)
(***************************************************************************)
EXTENDS LogStore, TLAPS

ReaderStates == {"off", "copy", "on", "ended"}
ReaderType ==
  [st : ReaderStates, hist : Nat, end : Nat, live : Nat, first : Nat, last : Nat,
   lagged : BOOLEAN, torn : BOOLEAN]

\* A reader q of a store with top messages goes on with the message after the last
\* one that it had, unless it has lagged.
Follower(q, top) ==
  /\ 1 <= q.first /\ q.first <= q.last + 1 /\ 1 <= q.hist
  /\ q.end < q.live /\ q.live <= top + 1
  /\ q.hist <= q.end => q.last = q.hist - 1 /\ q.live = q.end + 1 /\ ~q.lagged
  /\ q.hist > q.end => q.last < q.live /\ (~q.lagged => q.last = q.live - 1)

ReaderOk(q, top) ==
  /\ q \in ReaderType /\ ~q.torn
  /\ q.st \in {"off", "copy"} => ~q.lagged
  /\ q.st = "copy" => q.live = top + 1
  /\ q.st \in {"on", "ended"} => Follower(q, top)

LEMMA CopiedOk ==
  ASSUME NEW top \in Nat, NEW q, ReaderOk(q, top), q.st = "copy", NEW old \in Nat,
         1 <= old, old <= top + 1
  PROVE  ReaderOk([q EXCEPT !.st = "on", !.hist = old, !.end = top, !.first = old,
                            !.last = old - 1], top)
<1> DEFINE p == [q EXCEPT !.st = "on", !.hist = old, !.end = top, !.first = old, !.last = old - 1]
<1>1. q \in ReaderType /\ ~q.torn /\ ~q.lagged /\ q.live = top + 1
  BY DEF ReaderOk
<1>2. /\ p \in ReaderType /\ p.st = "on" /\ p.hist = old /\ p.end = top /\ p.first = old
      /\ p.last = old - 1 /\ p.live = q.live /\ p.lagged = q.lagged /\ p.torn = q.torn
  <2>1. old - 1 \in Nat
    OBVIOUS
  <2>2. QED
    BY <1>1, <2>1, Zenon DEF ReaderType, ReaderStates
<1> HIDE DEF p
<1>3. Follower(p, top)
  BY <1>1, <1>2 DEF Follower
<1>4. ReaderOk(p, top)
  BY <1>1, <1>2, <1>3 DEF ReaderOk
<1>5. QED
  BY <1>4 DEF p

LEMMA SkippedOk ==
  ASSUME NEW top \in Nat, NEW q, ReaderOk(q, top), q.st = "on", q.hist > q.end,
         q.live + Ring <= top
  PROVE  ReaderOk([q EXCEPT !.live = top - Ring + 1, !.lagged = TRUE], top)
<1> DEFINE p == [q EXCEPT !.live = top - Ring + 1, !.lagged = TRUE]
<1>1. q \in ReaderType /\ ~q.torn /\ Follower(q, top)
  BY DEF ReaderOk
<1>2. q.live \in Nat /\ top - Ring + 1 \in Nat /\ q.live < top - Ring + 1
      /\ top - Ring + 1 <= top + 1
  BY <1>1, StoreSizes DEF ReaderType
<1>3. /\ p \in ReaderType /\ p.st = "on" /\ p.hist = q.hist /\ p.end = q.end
      /\ p.first = q.first /\ p.last = q.last /\ p.live = top - Ring + 1 /\ p.lagged
      /\ p.torn = q.torn
  BY <1>1, <1>2, Zenon DEF ReaderType
<1> HIDE DEF p
<1>4. Follower(p, top)
  BY <1>1, <1>2, <1>3 DEF Follower, ReaderType
<1>5. ReaderOk(p, top)
  BY <1>1, <1>3, <1>4 DEF ReaderOk
<1>6. QED
  BY <1>5 DEF p

\* Reader r of the store goes on to the message that it awaits.
LEMMA HadOk ==
  ASSUME NEW r \in Readers, NEW n, n = Awaits(r), n # 0, Top \in Nat,
         ReaderOk(logReader[r], Top), logReader[r].st = "on"
  PROVE  /\ n \in 1..Top /\ ReaderOk(Had(r, n), Top) /\ Had(r, n).st = "on"
         /\ Had(r, n).first = logReader[r].first /\ Had(r, n).lagged = logReader[r].lagged
         /\ Had(r, n).last = n /\ (~logReader[r].lagged => n = logReader[r].last + 1)
<1> DEFINE q == logReader[r]
           p == Had(r, n)
<1>1. q \in ReaderType /\ ~q.torn /\ Follower(q, Top)
  BY DEF ReaderOk
<1>2. /\ q.st = "on" /\ q.hist \in Nat /\ q.end \in Nat /\ q.live \in Nat /\ q.first \in Nat
      /\ q.last \in Nat /\ q.lagged \in BOOLEAN /\ q.torn \in BOOLEAN
  BY <1>1 DEF ReaderType
<1>3. /\ q.hist <= q.end => n = q.hist
      /\ q.hist > q.end => n = q.live /\ q.live <= Top
  BY <1>2 DEF Awaits
<1>4. /\ n \in 1..Top /\ n > q.last /\ (~q.lagged => n = q.last + 1)
  BY <1>1, <1>2, <1>3 DEF Follower
<1>5. p = [q EXCEPT !.hist = IF q.hist <= q.end THEN q.hist + 1 ELSE q.hist,
                    !.live = IF q.hist <= q.end THEN q.live ELSE q.live + 1,
                    !.last = n, !.torn = FALSE]
  <2>1. (q.torn \/ n <= q.last \/ (n > q.last + 1 /\ ~q.lagged)) = FALSE
    BY <1>1, <1>2, <1>4
  <2>2. QED
    BY <2>1, Zenon DEF Had
<1>6. /\ p \in ReaderType /\ p.st = "on" /\ p.end = q.end /\ p.first = q.first /\ p.last = n
      /\ p.lagged = q.lagged /\ ~p.torn
      /\ p.hist = IF q.hist <= q.end THEN q.hist + 1 ELSE q.hist
      /\ p.live = IF q.hist <= q.end THEN q.live ELSE q.live + 1
  <2> DEFINE h == IF q.hist <= q.end THEN q.hist + 1 ELSE q.hist
             v == IF q.hist <= q.end THEN q.live ELSE q.live + 1
  <2>1. h \in Nat /\ v \in Nat /\ n \in Nat
    BY <1>2, <1>4
  <2>2. p = [q EXCEPT !.hist = h, !.live = v, !.last = n, !.torn = FALSE]
    BY <1>5
  <2> HIDE DEF h, v, p, q
  <2>3. /\ p \in ReaderType /\ p.st = "on" /\ p.end = q.end /\ p.first = q.first /\ p.last = n
        /\ p.lagged = q.lagged /\ p.torn = FALSE /\ p.hist = h /\ p.live = v
    BY <1>1, <1>2, <2>1, <2>2, Zenon DEF ReaderType
  <2>4. QED
    BY <2>3 DEF h, v
<1> HIDE DEF p, q
<1>7. Follower(p, Top)
  <2>1. CASE q.hist <= q.end
    BY <1>1, <1>2, <1>3, <1>4, <1>6, <2>1 DEF Follower
  <2>2. CASE q.hist > q.end
    BY <1>1, <1>2, <1>3, <1>4, <1>6, <2>2 DEF Follower
  <2>3. QED
    BY <1>2, <2>1, <2>2
<1>8. ReaderOk(p, Top)
  BY <1>6, <1>7 DEF ReaderOk
<1>9. QED
  BY <1>4, <1>6, <1>8 DEF p, q

LEMMA PushedOk ==
  ASSUME NEW top \in Nat, NEW q, ReaderOk(q, top), q.st # "copy"
  PROVE  ReaderOk(q, top + 1)
<1>1. q \in ReaderType /\ q.live \in Nat
  BY DEF ReaderOk, ReaderType
<1>2. ASSUME Follower(q, top)
      PROVE  Follower(q, top + 1)
  BY <1>1, <1>2 DEF Follower
<1>3. QED
  BY <1>1, <1>2 DEF ReaderOk

LEMMA EndedOk ==
  ASSUME NEW top \in Nat, NEW q, ReaderOk(q, top), q.st = "on"
  PROVE  ReaderOk([q EXCEPT !.st = "ended"], top)
<1> DEFINE p == [q EXCEPT !.st = "ended"]
<1>1. q \in ReaderType /\ ~q.torn /\ Follower(q, top)
  BY DEF ReaderOk
<1>2. /\ p \in ReaderType /\ p.st = "ended" /\ p.hist = q.hist /\ p.end = q.end
      /\ p.first = q.first /\ p.last = q.last /\ p.live = q.live /\ p.lagged = q.lagged
      /\ p.torn = q.torn
  BY <1>1 DEF ReaderType, ReaderStates
<1> HIDE DEF p
<1>3. Follower(p, top)
  BY <1>1, <1>2 DEF Follower
<1>4. ReaderOk(p, top)
  BY <1>1, <1>2, <1>3 DEF ReaderOk
<1>5. QED
  BY <1>4 DEF p

Messages == {"out", "uuid", "fin"}

Followers ==
  /\ pushed \in Seq(Messages)
  /\ logReader \in [Readers -> ReaderType]
  /\ \A r \in Readers : ReaderOk(logReader[r], Top)
  /\ copying = {r \in Readers : logReader[r].st = "copy"}

\* What the start of the execution and its monitor have done so far.  The store is
\* removed once, before the last message is pushed; nobody registers it again.
Started ==
  /\ starter \in {"insert", "spawn", "normalize"} => logReader["normalizer"].st = "off"
  /\ starter \in {"insert", "spawn", "normalize", "persist"} =>
       logReader["output"].st = "off" /\ logReader["metadata"].st = "off"
  /\ starter = "insert" => monitor = "none"
  /\ starter = "spawn" => registered /\ monitor = "none"
  /\ starter \notin {"insert", "spawn"} =>
       \/ registered /\ monitor \in {"wait", "remove"}
       \/ ~registered /\ monitor \in {"finish", "done"}
  /\ todo \in Nat /\ (todo > 0 => logReader["normalizer"].st = "on")

\* The metadata task has seen to every UUID that it has read.
Links == [done : SUBSET Nat, lost : SUBSET Nat, tries : Nat]
Stored ==
  LET m == logReader["metadata"] IN
  /\ link \in Links
  /\ m.st \in {"on", "ended"} /\ ~m.lagged =>
       \A n \in m.first..m.last : pushed[n] = "uuid" => n \in link.done \union link.lost

\* It ends when all is read and nobody is left to push.
Drained ==
  LET m == logReader["metadata"] IN
  m.st = "ended" => Closed /\ m.hist > m.end /\ m.live > Top

StoreInv == Followers /\ Started /\ Stored /\ Drained

LEMMA OneReader ==
  ASSUME Followers, NEW r \in Readers, NEW q, ReaderOk(q, Top), pushed' = pushed,
         logReader' = [logReader EXCEPT ![r] = q],
         copying' = IF q.st = "copy" THEN copying \union {r} ELSE copying \ {r}
  PROVE  Followers' /\ logReader'[r] = q /\ \A o \in Readers : o # r => logReader'[o] = logReader[o]
<1>1. q \in ReaderType
  BY DEF ReaderOk
<1>2. /\ logReader' \in [Readers -> ReaderType] /\ logReader'[r] = q
      /\ \A o \in Readers : o # r => logReader'[o] = logReader[o]
  BY <1>1, Zenon DEF Followers
<1>3. Top' = Top
  BY DEF Top
<1>4. \A o \in Readers : ReaderOk(logReader'[o], Top')
  BY <1>2, <1>3, Zenon DEF Followers
<1>5. copying' = {o \in Readers : logReader'[o].st = "copy"}
  <2>1. \A o \in Readers : o \in copying' <=> logReader'[o].st = "copy"
    BY <1>2 DEF Followers
  <2>2. copying' \subseteq Readers
    BY DEF Followers
  <2>3. QED
    BY <2>1, <2>2
<1>6. QED
  BY <1>2, <1>4, <1>5 DEF Followers

LEMMA Unread ==
  ASSUME Followers, UNCHANGED <<pushed, logReader, copying>>
  PROVE  Followers'
BY DEF Followers, Top

LEMMA Pushes ==
  ASSUME Followers, NEW k \in Messages, Push(k), UNCHANGED <<logReader, copying>>
  PROVE  /\ Followers' /\ Top' = Top + 1 /\ Top \in Nat
         /\ \A n \in 1..Top : pushed'[n] = pushed[n]
<1>1. /\ pushed' \in Seq(Messages) /\ Len(pushed) \in Nat /\ Len(pushed') = Len(pushed) + 1
      /\ \A n \in 1..Len(pushed) : pushed'[n] = pushed[n]
  BY DEF Push, Followers
<1>2. Top' = Top + 1 /\ Top \in Nat /\ \A n \in 1..Top : pushed'[n] = pushed[n]
  BY <1>1 DEF Top
<1>3. \A r \in Readers : logReader[r].st # "copy"
  BY DEF Push, Followers
<1>4. \A r \in Readers : ReaderOk(logReader[r], Top + 1)
  BY <1>2, <1>3, PushedOk DEF Followers
<1>5. \A r \in Readers : ReaderOk(logReader'[r], Top')
  BY <1>2, <1>4, Zenon
<1>6. copying' = {o \in Readers : logReader'[o].st = "copy"}
  BY DEF Followers
<1>7. QED
  BY <1>1, <1>2, <1>5, <1>6 DEF Followers

\* The UUIDs that were read stay so, whatever is pushed.
LEMMA StoredStays ==
  ASSUME StoreInv, logReader'["metadata"] = logReader["metadata"], link' = link,
         \A n \in 1..Top : pushed'[n] = pushed[n]
  PROVE  Stored'
<1> DEFINE m == logReader["metadata"]
<1>1. Followers /\ Stored
  BY DEF StoreInv
<1>2. "metadata" \in Readers /\ Top \in Nat
  BY <1>1 DEF Readers, Followers, Top
<1>3. ReaderOk(m, Top)
  BY <1>1, <1>2 DEF Followers
<1>4. SUFFICES ASSUME m.st \in {"on", "ended"}, ~m.lagged,
                      NEW n \in m.first..m.last, pushed'[n] = "uuid"
               PROVE  n \in link.done \union link.lost
  BY <1>1 DEF Stored
<1> HIDE DEF m
<1>5. n \in 1..Top
  BY <1>2, <1>3, <1>4 DEF ReaderOk, ReaderType, Follower
<1> USE DEF m
<1>6. pushed[n] = "uuid"
  BY <1>4, <1>5
<1>7. QED
  BY <1>1, <1>4, <1>6 DEF Stored

Starting == {"insert", "spawn", "normalize"}

\* Once nobody can push, nobody can again.
LEMMA ClosedStays ==
  ASSUME Closed, ~registered', forwarder' # "on", monitor' # "finish", starter' \notin Starting,
         \A o \in Readers : \/ logReader'[o].st = logReader[o].st
                            \/ logReader'[o].st # "copy" /\ o # "normalizer"
                            \/ logReader'[o].st \notin {"copy", "on"}
  PROVE  Closed'
<1>1. \A o \in Readers : ~HoldsStore(o)
  BY DEF Closed
<1>2. \A o \in Readers : ~HoldsStore(o)'
  BY <1>1 DEF HoldsStore
<1>3. QED
  BY <1>2 DEF Closed, Starting

\* A step of others than the metadata task.
LEMMA DrainedStays ==
  ASSUME StoreInv, logReader'["metadata"] = logReader["metadata"],
         Closed => Closed' /\ pushed' = pushed
  PROVE  Drained'
<1>1. Drained
  BY DEF StoreInv
<1>2. Closed => Closed' /\ Top' = Top
  BY DEF Top
<1>3. QED
  BY <1>1, <1>2 DEF Drained

LEMMA Parts ==
  ASSUME StoreInv
  PROVE  /\ Followers /\ Started /\ Stored /\ Drained
         /\ Readers = {"normalizer", "output", "metadata", "viewer"}
         /\ "normalizer" \in Readers /\ "output" \in Readers /\ "metadata" \in Readers
         /\ "viewer" \in Readers
         /\ Top \in Nat /\ \A r \in Readers : ReaderOk(logReader[r], Top)
BY DEF StoreInv, Followers, Readers, Top

\* A step that leaves the messages and the readers alone.
LEMMA Elsewhere ==
  ASSUME StoreInv, UNCHANGED <<pushed, logReader, copying, link>>, Started',
         Closed => ~registered' /\ forwarder' # "on" /\ monitor' # "finish" /\ starter' \notin Starting
  PROVE  StoreInv'
<1>1. Followers'
  BY Unread DEF StoreInv
<1>2. Stored'
  BY StoredStays
<1>3. Drained'
  BY ClosedStays, DrainedStays
<1>4. QED
  BY <1>1, <1>2, <1>3 DEF StoreInv

\* A message is pushed, by someone who keeps the store open.
LEMMA PushKeeps ==
  ASSUME StoreInv, NEW k \in Messages, Push(k), UNCHANGED <<logReader, copying, link>>,
         Started', ~Closed
  PROVE  StoreInv'
<1>1. Followers' /\ Top' = Top + 1 /\ Top \in Nat /\ \A n \in 1..Top : pushed'[n] = pushed[n]
  BY Pushes DEF StoreInv
<1>2. Stored' /\ Drained'
  BY <1>1, StoredStays, DrainedStays
<1>3. QED
  BY <1>1, <1>2 DEF StoreInv

LEMMA StartKeeps ==
  ASSUME StoreInv, Insert \/ Spawn
  PROVE  StoreInv'
<1>1. Started'
  BY Parts DEF Started, Insert, Spawn
<1>2. UNCHANGED <<pushed, logReader, copying, link>> /\ starter \in Starting
  BY DEF Insert, Spawn, Starting
<1>3. ~Closed
  BY <1>2 DEF Closed, Starting
<1>4. QED
  BY <1>1, <1>2, <1>3, Elsewhere

LEMMA ProcessKeeps ==
  ASSUME StoreInv, Writes \/ Exits \/ SeesExit \/ RemoveStore
  PROVE  StoreInv'
<1>1. Started'
  BY Parts DEF Started, Writes, Exits, SeesExit, RemoveStore
<1>2. UNCHANGED <<pushed, logReader, copying, link, starter, forwarder>>
  BY DEF Writes, Exits, SeesExit, RemoveStore
<1>3. ASSUME Closed
      PROVE  ~registered' /\ forwarder' # "on" /\ monitor' # "finish" /\ starter' \notin Starting
  BY <1>2, <1>3, Parts DEF Closed, Started, Starting, Writes, Exits, SeesExit, RemoveStore
<1>4. QED
  BY <1>1, <1>2, <1>3, Elsewhere

LEMMA PushersKeep ==
  ASSUME StoreInv, Forward \/ NormalizerPushes \/ PushFinished
  PROVE  StoreInv'
<1>1. CASE Forward /\ pushed' = pushed
  <2>1. UNCHANGED <<pushed, logReader, copying, link, starter, monitor, registered, todo>>
        /\ forwarder' # "on"
    BY <1>1, Parts DEF Forward, Push, Followers
  <2>2. Started'
    BY <2>1, Parts DEF Started
  <2>3. QED
    BY <2>1, <2>2, Elsewhere DEF Closed, Starting
<1>2. CASE Forward /\ pushed' # pushed
  <2>1. Push("out") /\ UNCHANGED <<logReader, copying, link, starter, monitor, registered, todo>>
    BY <1>2 DEF Forward
  <2>2. Started'
    BY <2>1, Parts DEF Started
  <2>3. QED
    BY <1>2, <2>1, <2>2, PushKeeps DEF Forward, Closed, Messages
<1>3. CASE NormalizerPushes
  <2>1. Push("uuid") /\ UNCHANGED <<logReader, copying, link, starter, monitor, registered>>
        /\ todo > 0 /\ todo' = todo - 1
    BY <1>3 DEF NormalizerPushes
  <2>2. Started'
    BY <2>1, Parts DEF Started
  <2>3. HoldsStore("normalizer")
    BY <2>1, Parts DEF Started, HoldsStore
  <2>4. ~Closed
    BY <2>3, Parts DEF Closed
  <2>5. QED
    BY <2>1, <2>2, <2>4, PushKeeps DEF Messages
<1>4. CASE PushFinished
  <2>1. Push("fin") /\ UNCHANGED <<logReader, copying, link, starter, registered, todo>>
        /\ monitor = "finish" /\ monitor' = "done"
    BY <1>4 DEF PushFinished
  <2>2. Started'
    BY <2>1, Parts DEF Started
  <2>3. QED
    BY <2>1, <2>2, PushKeeps DEF Closed, Messages
<1>5. QED
  BY <1>1, <1>2, <1>3, <1>4

\* A step of a reader other than the metadata task.
LEMMA ReaderKeeps ==
  ASSUME StoreInv, NEW r \in Readers, r # "metadata", NEW q, ReaderOk(q, Top),
         logReader' = [logReader EXCEPT ![r] = q],
         copying' = IF q.st = "copy" THEN copying \union {r} ELSE copying \ {r},
         UNCHANGED <<pushed, link>>, Started',
         Closed => /\ UNCHANGED <<registered, forwarder, monitor, starter>>
                   /\ q.st # "copy" /\ (r = "normalizer" => q.st # "on")
  PROVE  StoreInv'
<1>1. /\ Followers' /\ logReader'[r] = q
      /\ \A o \in Readers : o # r => logReader'[o] = logReader[o]
  BY Parts, OneReader, Zenon
<1>2. logReader'["metadata"] = logReader["metadata"]
  BY <1>1, Parts
<1>3. Stored'
  BY <1>2, StoredStays
<1>4. ASSUME Closed
      PROVE  Closed'
  <2>1. ~registered' /\ forwarder' # "on" /\ monitor' # "finish" /\ starter' \notin Starting
    BY <1>4 DEF Closed, Starting
  <2>2. \A o \in Readers : \/ logReader'[o].st = logReader[o].st
                           \/ logReader'[o].st # "copy" /\ o # "normalizer"
                           \/ logReader'[o].st \notin {"copy", "on"}
    BY <1>1, <1>4
  <2>3. QED
    BY <1>4, <2>1, <2>2, ClosedStays
<1>5. Drained'
  BY <1>2, <1>4, DrainedStays
<1>6. QED
  BY <1>1, <1>3, <1>5 DEF StoreInv

\* history_plus_stream subscribes under the read lock.
LEMMA SubscribedOk ==
  ASSUME NEW top \in Nat, NEW q, ReaderOk(q, top), q.st = "off"
  PROVE  ReaderOk([q EXCEPT !.st = "copy", !.live = top + 1], top)
<1> DEFINE p == [q EXCEPT !.st = "copy", !.live = top + 1]
<1>1. q \in ReaderType /\ ~q.torn /\ ~q.lagged
  BY DEF ReaderOk
<1>2. p \in ReaderType /\ p.st = "copy" /\ p.live = top + 1 /\ p.lagged = q.lagged /\ p.torn = q.torn
  <2>1. top + 1 \in Nat
    OBVIOUS
  <2>2. QED
    BY <1>1, <2>1, Zenon DEF ReaderType, ReaderStates
<1> HIDE DEF p
<1>3. ReaderOk(p, top)
  BY <1>1, <1>2 DEF ReaderOk
<1>4. QED
  BY <1>3 DEF p

LEMMA SubscribesKeeps ==
  ASSUME StoreInv, NEW r \in {"normalizer", "viewer"}, logReader[r].st = "off", Subscribes(r),
         registered, UNCHANGED <<pushed, link, registered, monitor, todo>>,
         \/ starter' = starter /\ r = "viewer"
         \/ starter = "normalize" /\ starter' = "persist"
  PROVE  StoreInv'
<1> DEFINE q == [logReader[r] EXCEPT !.st = "copy", !.live = Top + 1]
<1>1. r \in Readers /\ r # "metadata" /\ r # "output" /\ logReader \in [Readers -> ReaderType]
  BY Parts DEF Followers
<1>2. ReaderOk(q, Top)
  BY <1>1, Parts, SubscribedOk, Zenon
<1>3. logReader' = [logReader EXCEPT ![r] = q]
  BY <1>1, Zenon DEF Subscribes
<1>4. q.st = "copy"
  BY <1>1 DEF ReaderType
<1> HIDE DEF q
<1>5. copying' = IF q.st = "copy" THEN copying \union {r} ELSE copying \ {r}
  BY <1>4 DEF Subscribes
<1>6. \A o \in Readers : o # r => logReader'[o] = logReader[o]
  BY <1>1, <1>3
<1>7. Started'
  BY <1>1, <1>6, Parts DEF Started
<1>8. ~Closed
  BY DEF Closed
<1>9. QED
  BY <1>1, <1>2, <1>3, <1>5, <1>7, <1>8, ReaderKeeps, Zenon

LEMMA NormalizeKeeps ==
  ASSUME StoreInv, Normalize
  PROVE  StoreInv'
<1>1. logReader["normalizer"].st = "off" /\ starter = "normalize"
  BY Parts DEF Normalize, Started
<1>2. CASE registered
  BY <1>1, <1>2, SubscribesKeeps DEF Normalize
<1>3. CASE ~registered
  <2>1. /\ starter' = "error"
        /\ UNCHANGED <<logReader, copying, pushed, registered, todo, link, monitor, forwarder>>
    BY <1>3 DEF Normalize
  <2>2. Started' /\ ~Closed
    BY <1>1, <2>1, Parts DEF Started, Closed
  <2>3. QED
    BY <2>1, <2>2, Elsewhere
<1>4. QED
  BY <1>2, <1>3

LEMMA ViewerOpensKeeps ==
  ASSUME StoreInv, ViewerOpens
  PROVE  StoreInv'
BY SubscribesKeeps, Zenon DEF ViewerOpens

LEMMA PersistKeeps ==
  ASSUME StoreInv, Persist
  PROVE  StoreInv'
<1> DEFINE q == [logReader["output"] EXCEPT !.st = "copy", !.live = Top + 1]
           m == [logReader["metadata"] EXCEPT !.st = "copy", !.live = Top + 1]
<1>1. /\ starter = "persist" /\ starter' = "done"
      /\ UNCHANGED <<pushed, link, registered, todo, monitor, forwarder>>
  BY DEF Persist
<1>2. CASE UNCHANGED <<logReader, copying>>
  <2>1. Started'
    BY <1>1, <1>2, Parts, Zenon DEF Started
  <2>2. QED
    BY <1>1, <1>2, <2>1, Elsewhere DEF Closed, Starting
<1>3. CASE /\ registered /\ copying' = copying \union {"output", "metadata"}
           /\ logReader' = [logReader EXCEPT !["output"].st = "copy", !["output"].live = Top + 1,
                                             !["metadata"].st = "copy", !["metadata"].live = Top + 1]
  <2>1. logReader["output"].st = "off" /\ logReader["metadata"].st = "off"
    BY <1>1, Parts, Zenon DEF Started
  <2>2. ReaderOk(q, Top) /\ ReaderOk(m, Top)
    BY <2>1, Parts, SubscribedOk, Zenon
  <2>3. logReader \in [Readers -> ReaderType]
    BY Parts DEF Followers
  <2>4. logReader' = [[logReader EXCEPT !["output"] = q] EXCEPT !["metadata"] = m]
    BY <1>3, <2>3, Parts, Zenon
  <2>5. q.st = "copy" /\ m.st = "copy"
    BY <2>3, Parts DEF ReaderType
  <2> HIDE DEF q, m
  <2>6. q \in ReaderType /\ m \in ReaderType
    BY <2>2 DEF ReaderOk
  <2>7. /\ logReader' \in [Readers -> ReaderType]
        /\ logReader'["output"] = q /\ logReader'["metadata"] = m
        /\ logReader'["normalizer"] = logReader["normalizer"]
        /\ logReader'["viewer"] = logReader["viewer"]
    BY <2>3, <2>4, <2>6, Parts
  <2>8. Top' = Top
    BY <1>1 DEF Top
  <2>9. \A r \in Readers : ReaderOk(logReader'[r], Top')
    BY <2>2, <2>7, <2>8, Parts
  <2>10. copying' = {r \in Readers : logReader'[r].st = "copy"}
    BY <1>3, <2>5, <2>7, Parts DEF Followers
  <2>11. Followers'
    BY <1>1, <2>7, <2>9, <2>10, Parts DEF Followers
  <2>12. Started'
    BY <1>1, <2>7, Parts DEF Started
  <2>13. Stored' /\ Drained'
    BY <1>1, <2>5, <2>7, Parts, Zenon DEF Stored, Drained
  <2>14. QED
    BY <2>11, <2>12, <2>13 DEF StoreInv
<1>4. QED
  BY <1>2, <1>3, Zenon DEF Persist

\* A step of the metadata task, after it has subscribed.
LEMMA MetadataKeeps ==
  ASSUME StoreInv, NEW q, ReaderOk(q, Top), logReader' = [logReader EXCEPT !["metadata"] = q],
         logReader["metadata"].st \in {"copy", "on"}, q.st \in {"on", "ended"},
         copying' = copying \ {"metadata"},
         UNCHANGED <<pushed, registered, forwarder, monitor, starter, todo>>, link' \in Links,
         ~q.lagged => \A n \in q.first..q.last :
                        pushed[n] = "uuid" => n \in link'.done \union link'.lost,
         q.st = "ended" => Closed /\ q.hist > q.end /\ q.live > Top
  PROVE  StoreInv'
<1>1. /\ Followers' /\ logReader'["metadata"] = q
      /\ \A o \in Readers : o # "metadata" => logReader'[o] = logReader[o]
  BY Parts, OneReader, Zenon
<1>2. Started'
  BY <1>1, Parts DEF Started
<1>3. Stored'
  BY <1>1, Zenon DEF Stored
<1>4. ASSUME Closed
      PROVE  Closed'
  <2>1. ~registered' /\ forwarder' # "on" /\ monitor' # "finish" /\ starter' \notin Starting
    BY <1>4 DEF Closed, Starting
  <2>2. \A o \in Readers : \/ logReader'[o].st = logReader[o].st
                           \/ logReader'[o].st # "copy" /\ o # "normalizer"
                           \/ logReader'[o].st \notin {"copy", "on"}
    BY <1>1
  <2>3. QED
    BY <1>4, <2>1, <2>2, ClosedStays
<1>5. Top' = Top
  BY DEF Top
<1>6. Drained'
  BY <1>1, <1>4, <1>5 DEF Drained
<1>7. QED
  BY <1>1, <1>2, <1>3, <1>6 DEF StoreInv

LEMMA CopyHistoryKeeps ==
  ASSUME StoreInv, NEW r \in Readers, CopyHistory(r)
  PROVE  StoreInv'
<1> DEFINE q == [logReader[r] EXCEPT !.st = "on", !.hist = Oldest, !.end = Top, !.first = Oldest,
                                     !.last = Oldest - 1]
<1>1. /\ logReader[r].st = "copy" /\ logReader \in [Readers -> ReaderType]
      /\ UNCHANGED <<pushed, registered, forwarder, monitor, starter, todo, link>>
      /\ copying' = copying \ {r}
  BY Parts DEF CopyHistory, Followers
<1>2. Oldest \in Nat /\ 1 <= Oldest /\ Oldest <= Top + 1
  BY Parts, StoreSizes, SMTT(30) DEF Oldest
<1>3. ReaderOk(q, Top)
  BY <1>1, <1>2, Parts, CopiedOk, Zenon
<1>4. logReader' = [logReader EXCEPT ![r] = q]
  BY <1>1, Zenon DEF CopyHistory
<1>5. q.st = "on" /\ q.first = Oldest /\ q.last = Oldest - 1
  BY <1>1 DEF ReaderType
<1> HIDE DEF q
<1>6. HoldsStore(r) /\ ~Closed
  BY <1>1, Zenon DEF HoldsStore, Closed
<1>7. CASE r = "metadata"
  <2>1. q.first..q.last = {}
    BY <1>2, <1>5
  <2>2. link' \in Links
    BY <1>1, Parts DEF Stored
  <2>3. QED
    BY <1>1, <1>3, <1>4, <1>5, <1>7, <2>1, <2>2, MetadataKeeps, Zenon
<1>8. CASE r # "metadata"
  <2>1. \A o \in Readers : o # r => logReader'[o] = logReader[o]
    BY <1>1, <1>4
  <2>2. logReader'[r].st = "on"
    BY <1>1, <1>4, <1>5
  <2>3. Started'
    BY <1>1, <2>1, <2>2, Parts DEF Started
  <2>4. QED
    BY <1>1, <1>3, <1>4, <1>5, <1>6, <1>8, <2>3, ReaderKeeps, Zenon
<1>9. QED
  BY <1>7, <1>8

LEMMA SkipKeeps ==
  ASSUME StoreInv, NEW r \in Readers, Skip(r)
  PROVE  StoreInv'
<1> DEFINE q == [logReader[r] EXCEPT !.live = Top - Ring + 1, !.lagged = TRUE]
<1>1. /\ logReader[r].st = "on" /\ logReader \in [Readers -> ReaderType]
      /\ logReader[r].hist > logReader[r].end /\ logReader[r].live + Ring <= Top
      /\ UNCHANGED <<pushed, registered, forwarder, monitor, starter, todo, link, copying>>
  BY Parts, Zenon DEF Skip, Followers, Lags
<1>2. ReaderOk(q, Top)
  BY <1>1, Parts, SkippedOk, Zenon
<1>3. logReader' = [logReader EXCEPT ![r] = q]
  BY <1>1, Zenon DEF Skip
<1>4. q.st = "on" /\ q.lagged
  BY <1>1 DEF ReaderType
<1> HIDE DEF q
<1>5. copying' = copying \ {r}
  BY <1>1, Parts, Zenon DEF Followers
<1>6. CASE r = "metadata"
  <2>1. link' \in Links
    BY <1>1, Parts, Zenon DEF Stored
  <2>2. QED
    BY <1>1, <1>2, <1>3, <1>4, <1>5, <1>6, <2>1, MetadataKeeps, Zenon
<1>7. CASE r # "metadata"
  <2>1. \A o \in Readers : logReader'[o].st = logReader[o].st
    BY <1>1, <1>3, <1>4, Zenon
  <2>2. Started'
    BY <1>1, <2>1, Parts, Zenon DEF Started
  <2>3. r = "normalizer" => HoldsStore(r) /\ ~Closed
    BY <1>1, Zenon DEF HoldsStore, Closed
  <2>4. QED
    BY <1>1, <1>2, <1>3, <1>4, <1>5, <1>7, <2>2, <2>3, ReaderKeeps, Zenon
<1>8. QED
  BY <1>6, <1>7

\* The output task and the viewers read a message, or end.
LEMMA GoesOnKeeps ==
  ASSUME StoreInv, NEW r \in {"output", "viewer"}, logReader[r].st = "on",
         \/ Awaits(r) # 0 /\ logReader' = [logReader EXCEPT ![r] = Had(r, Awaits(r))]
         \/ logReader' = Ended(r),
         UNCHANGED <<pushed, registered, forwarder, monitor, starter, todo, link, copying>>
  PROVE  StoreInv'
<1>1. r \in Readers /\ r # "metadata" /\ r # "normalizer" /\ logReader \in [Readers -> ReaderType]
  BY Parts, Zenon DEF Followers
<1>2. PICK q : ReaderOk(q, Top) /\ logReader' = [logReader EXCEPT ![r] = q] /\ q.st \in {"on", "ended"}
  <2>1. CASE Awaits(r) # 0 /\ logReader' = [logReader EXCEPT ![r] = Had(r, Awaits(r))]
    <3>1. ReaderOk(Had(r, Awaits(r)), Top) /\ Had(r, Awaits(r)).st = "on"
      BY <1>1, <2>1, HadOk, Parts, Zenon
    <3>2. QED
      BY <2>1, <3>1, Zenon
  <2>2. CASE logReader' = Ended(r)
    <3>1. logReader' = [logReader EXCEPT ![r] = [logReader[r] EXCEPT !.st = "ended"]]
      BY <1>1, <2>2 DEF Ended
    <3>2. ReaderOk([logReader[r] EXCEPT !.st = "ended"], Top)
      BY <1>1, EndedOk, Parts
    <3>3. [logReader[r] EXCEPT !.st = "ended"].st = "ended"
      BY <1>1, Zenon DEF ReaderType
    <3>4. QED
      BY <3>1, <3>2, <3>3, Zenon
  <2>3. QED
    BY <2>1, <2>2
<1>3. copying' = copying \ {r}
  BY <1>1, Parts, Zenon DEF Followers
<1>4. \A o \in Readers : o # r => logReader'[o] = logReader[o]
  BY <1>1, <1>2, Zenon
<1>5. Started'
  <2>1. starter \in {"insert", "spawn", "normalize", "persist"} => r # "output"
    BY Parts DEF Started
  <2>2. QED
    BY <1>1, <1>4, <2>1, Parts, Zenon DEF Started
<1>6. QED
  BY <1>1, <1>2, <1>3, <1>5, ReaderKeeps, Zenon

LEMMA NormalizerKeeps ==
  ASSUME StoreInv, NormalizerReads \/ NormalizerEnds
  PROVE  StoreInv'
<1> DEFINE r == "normalizer"
           e == [logReader[r] EXCEPT !.st = "ended"]
<1>1. /\ r \in Readers /\ logReader \in [Readers -> ReaderType] /\ logReader[r].st = "on"
      /\ todo = 0 /\ Awaits(r) # 0
      /\ UNCHANGED <<pushed, registered, forwarder, monitor, starter, link, copying>>
  BY Parts, Zenon DEF Followers, NormalizerReads, NormalizerEnds
<1>2. HoldsStore(r) /\ ~Closed
  BY <1>1 DEF HoldsStore, Closed
<1>3. copying' = copying \ {r}
  BY <1>1, Parts, Zenon DEF Followers
<1>4. starter \notin Starting
  BY <1>1, Parts, Zenon DEF Started, Starting
<1>5. CASE NormalizerReads
  <2>1. ReaderOk(Had(r, Awaits(r)), Top) /\ Had(r, Awaits(r)).st = "on"
    BY <1>1, HadOk, Parts
  <2>2. logReader' = [logReader EXCEPT ![r] = Had(r, Awaits(r))] /\ todo' \in {0, 1}
    BY <1>5 DEF NormalizerReads
  <2>3. logReader'[r].st = "on" /\ \A o \in Readers : o # r => logReader'[o] = logReader[o]
    BY <1>1, <2>1, <2>2, Zenon
  <2>4. Started'
    BY <1>1, <1>4, <2>2, <2>3, Parts, SMTT(30) DEF Started, Starting
  <2>5. QED
    BY <1>1, <1>2, <1>3, <2>1, <2>2, <2>4, ReaderKeeps, Zenon
<1>6. CASE NormalizerEnds
  <2>1. logReader' = [logReader EXCEPT ![r] = e] /\ todo' = todo
    BY <1>1, <1>6 DEF NormalizerEnds, Ended
  <2>2. ReaderOk(e, Top)
    BY <1>1, EndedOk, Parts
  <2>3. e.st = "ended"
    BY <1>1 DEF ReaderType
  <2> HIDE DEF e
  <2>4. \A o \in Readers : o # r => logReader'[o] = logReader[o]
    BY <1>1, <2>1, Zenon
  <2>5. Started'
    BY <1>1, <1>4, <2>1, <2>4, Parts, SMTT(30) DEF Started, Starting
  <2>6. QED
    BY <1>1, <1>2, <1>3, <2>1, <2>2, <2>3, <2>5, ReaderKeeps, Zenon
<1>7. QED
  BY <1>5, <1>6, Zenon

\* persist_execution_metadata reads a message that is no UUID, or one that it has
\* stored or given up.
LEMMA MetadataHadKeeps ==
  ASSUME StoreInv, logReader["metadata"].st = "on", Awaits("metadata") # 0,
         logReader' = [logReader EXCEPT !["metadata"] = Had("metadata", Awaits("metadata"))],
         UNCHANGED <<pushed, registered, forwarder, monitor, starter, todo, copying>>,
         link' \in Links, link.done \subseteq link'.done, link.lost \subseteq link'.lost,
         pushed[Awaits("metadata")] = "uuid" => Awaits("metadata") \in link'.done \union link'.lost
  PROVE  StoreInv'
<1> DEFINE m == logReader["metadata"]
           n == Awaits("metadata")
           q == Had("metadata", n)
<1>1. /\ n \in 1..Top /\ ReaderOk(q, Top) /\ q.st = "on" /\ q.first = m.first
      /\ q.lagged = m.lagged /\ q.last = n /\ (~m.lagged => n = m.last + 1)
  BY HadOk, Parts, SMTT(30)
<1>2. m.first \in Nat /\ m.last \in Nat
  BY Parts, Zenon DEF ReaderOk, ReaderType
<1>3. ~m.lagged => \A i \in m.first..m.last : pushed[i] = "uuid" => i \in link.done \union link.lost
  BY Parts DEF Stored
<1>4. copying' = copying \ {"metadata"}
  BY Parts DEF Followers
<1> HIDE DEF q, n, m
<1>5. ASSUME ~q.lagged, NEW i \in q.first..q.last, pushed[i] = "uuid"
      PROVE  i \in link'.done \union link'.lost
  <2>1. i \in m.first..m.last \/ i = n
    BY <1>1, <1>2, <1>5
  <2>2. CASE i \in m.first..m.last
    BY <1>1, <1>3, <1>5, <2>2
  <2>3. CASE i = n
    BY <1>5, <2>3 DEF n
  <2>4. QED
    BY <2>1, <2>2, <2>3
<1>6. q.st # "ended"
  BY <1>1
<1> USE DEF q, n
<1>7. QED
  BY <1>1, <1>4, <1>5, <1>6, MetadataKeeps, Zenon

LEMMA MetadataReadsKeeps ==
  ASSUME StoreInv, MetadataReads
  PROVE  StoreInv'
<1> DEFINE m == logReader["metadata"]
           n == Awaits("metadata")
           had == logReader' = [logReader EXCEPT !["metadata"] = Had("metadata", n)]
<1>1. /\ m.st = "on" /\ link \in Links
      /\ UNCHANGED <<pushed, registered, forwarder, monitor, starter, todo, copying>>
  BY Parts DEF MetadataReads, Stored
<1>2. CASE n # 0 /\ pushed[n] # "uuid" /\ had /\ link' = link
  BY <1>1, <1>2, MetadataHadKeeps
<1>3. n # 0 => n \in Nat
  BY <1>1, HadOk, Parts
<1>4. CASE n # 0 /\ had /\ link' = [link EXCEPT !.done = @ \union {n}, !.tries = 0]
  <2>1. /\ link' \in Links /\ link.done \subseteq link'.done /\ link.lost \subseteq link'.lost
        /\ n \in link'.done \union link'.lost
    BY <1>1, <1>3, <1>4 DEF Links
  <2>2. QED
    BY <1>1, <1>4, <2>1, MetadataHadKeeps
<1>5. CASE n # 0 /\ had /\ link' = [link EXCEPT !.lost = @ \union {n}, !.tries = 0]
  <2>1. /\ link' \in Links /\ link.done \subseteq link'.done /\ link.lost \subseteq link'.lost
        /\ n \in link'.done \union link'.lost
    BY <1>1, <1>3, <1>5 DEF Links
  <2>2. QED
    BY <1>1, <1>5, <2>1, MetadataHadKeeps
<1>6. CASE link' = [link EXCEPT !.tries = @ + 1] /\ UNCHANGED logReader
  <2>1. link' \in Links /\ link'.done = link.done /\ link'.lost = link.lost
    BY <1>1, <1>6 DEF Links
  <2>2. Followers' /\ Started'
    BY <1>1, <1>6, Parts, Unread DEF Started
  <2>3. Stored'
    BY <1>1, <1>6, <2>1, Parts DEF Stored
  <2>4. Drained'
    BY <1>1, <1>6 DEF Drained
  <2>5. QED
    BY <2>2, <2>3, <2>4 DEF StoreInv
<1>7. CASE MetadataEnds(n) /\ logReader' = Ended("metadata") /\ link' = link
  <2> DEFINE e == [m EXCEPT !.st = "ended"]
  <2>1. logReader \in [Readers -> ReaderType]
    BY Parts DEF Followers
  <2>2. logReader' = [logReader EXCEPT !["metadata"] = e]
    BY <1>7, <2>1, Parts DEF Ended
  <2>3. ReaderOk(e, Top)
    BY <1>1, EndedOk, Parts
  <2>4. /\ e.st = "ended" /\ e.hist = m.hist /\ e.end = m.end /\ e.live = m.live
        /\ e.first = m.first /\ e.last = m.last /\ e.lagged = m.lagged
    BY <2>1, Parts DEF ReaderType
  <2>5. Closed /\ m.hist > m.end /\ m.live > Top
    BY <1>7 DEF MetadataEnds, AtEnd
  <2>6. ~m.lagged => \A i \in m.first..m.last : pushed[i] = "uuid" => i \in link.done \union link.lost
    BY <1>1, Parts DEF Stored
  <2>7. copying' = copying \ {"metadata"}
    BY <1>1, Parts DEF Followers
  <2> HIDE DEF e
  <2>8. QED
    BY <1>1, <1>7, <2>2, <2>3, <2>4, <2>5, <2>6, <2>7, MetadataKeeps
<1>8. QED
  BY <1>2, <1>4, <1>5, <1>6, <1>7 DEF MetadataReads

LEMMA StoreInitInv == LogInit => StoreInv
<1>1. SUFFICES ASSUME LogInit
               PROVE  StoreInv
  OBVIOUS
<1>2. pushed = <<>> /\ Top = 0 /\ \A r \in Readers : logReader[r] = NoReader
  BY <1>1 DEF LogInit, Top
<1>3. NoReader \in ReaderType /\ NoReader.st = "off" /\ ~NoReader.lagged /\ ~NoReader.torn
  BY DEF NoReader, ReaderType, ReaderStates
<1>4. ReaderOk(NoReader, 0)
  BY <1>3 DEF ReaderOk
<1>5. Followers
  BY <1>1, <1>2, <1>3, <1>4 DEF LogInit, Followers
<1>6. Started /\ Drained
  BY <1>1, <1>2, <1>3 DEF LogInit, Started, Drained, Readers
<1>7. Stored
  BY <1>1, <1>2, <1>3 DEF LogInit, Stored, Readers, Links
<1>8. QED
  BY <1>5, <1>6, <1>7 DEF StoreInv

LEMMA StoreNextInv == StoreInv /\ [LogNext]_logVars => StoreInv'
<1>1. SUFFICES ASSUME StoreInv, [LogNext]_logVars
               PROVE  StoreInv'
  OBVIOUS
<1>2. CASE Insert \/ Spawn
  BY <1>1, <1>2, StartKeeps
<1>3. CASE Normalize
  BY <1>1, <1>3, NormalizeKeeps
<1>4. CASE Persist
  BY <1>1, <1>4, PersistKeeps
<1>5. CASE Writes \/ Exits \/ SeesExit \/ RemoveStore
  BY <1>1, <1>5, ProcessKeeps
<1>6. CASE Forward \/ NormalizerPushes \/ PushFinished
  BY <1>1, <1>6, PushersKeep
<1>7. ASSUME NEW r \in Readers, CopyHistory(r)
      PROVE  StoreInv'
  BY <1>1, <1>7, CopyHistoryKeeps
<1>8. ASSUME NEW r \in Readers, Skip(r)
      PROVE  StoreInv'
  BY <1>1, <1>8, SkipKeeps
<1>9. CASE NormalizerReads \/ NormalizerEnds
  BY <1>1, <1>9, NormalizerKeeps
<1>10. CASE OutputReads
  BY <1>1, <1>10, GoesOnKeeps DEF OutputReads
<1>11. CASE ViewerReads
  BY <1>1, <1>11, GoesOnKeeps DEF ViewerReads
<1>12. CASE MetadataReads
  BY <1>1, <1>12, MetadataReadsKeeps
<1>13. CASE ViewerOpens
  BY <1>1, <1>13, ViewerOpensKeeps
<1>14. CASE UNCHANGED logVars
  <2>1. UNCHANGED <<pushed, logReader, copying, link, starter, registered, forwarder, monitor, todo>>
    BY <1>14 DEF logVars
  <2>2. Started'
    BY <1>1, <2>1, Parts DEF Started
  <2>3. QED
    BY <1>1, <2>1, <2>2, Elsewhere DEF Closed, Starting
<1>15. QED
  BY <1>1, <1>2, <1>3, <1>4, <1>5, <1>6, <1>7, <1>8, <1>9, <1>10, <1>11, <1>12, <1>13, <1>14
     DEF LogNext

LEMMA StoreInvGetsAll ==
  ASSUME StoreInv
  PROVE  ReadersGetAll
<1> DEFINE m == logReader["metadata"]
<1>1. NoGap
  BY Parts DEF NoGap, ReaderOk
<1>2. ReaderOk(m, Top) /\ Stored /\ Drained /\ Top \in Nat
  BY Parts
<1>3. ASSUME m.st = "ended", ~m.lagged, NEW n \in m.first..Top, pushed[n] = "uuid"
      PROVE  n \in link.done \union link.lost
  <2>1. m.hist > m.end /\ m.live > Top
    BY <1>2, <1>3 DEF Drained
  <2>2. \A i \in m.first..m.last : pushed[i] = "uuid" => i \in link.done \union link.lost
    BY <1>2, <1>3 DEF Stored
  <2> HIDE DEF m
  <2>3. n \in m.first..m.last
    BY <1>2, <1>3, <2>1 DEF ReaderOk, ReaderType, Follower
  <2>4. QED
    BY <1>3, <2>2, <2>3
<1>4. UuidsDrained
  BY <1>3 DEF UuidsDrained
<1>5. QED
  BY <1>1, <1>4 DEF ReadersGetAll

\* Whatever the sizes of the history and of the ring, however much is printed and
\* whichever writes fail: a reader gets every message once and in order until it
\* lags, and when the metadata task has ended every UUID since it subscribed is in
\* the database or was tried to the last attempt (history_plus_stream,
\* persist_execution_metadata).
THEOREM LogIsRead == LogSpec => []ReadersGetAll
<1>1. LogInit => StoreInv
  BY StoreInitInv
<1>2. StoreInv /\ [LogNext]_logVars => StoreInv'
  BY StoreNextInv
<1>3. StoreInv => ReadersGetAll
  BY StoreInvGetsAll
<1>4. QED
  BY <1>1, <1>2, <1>3, PTL DEF LogSpec
=============================================================================
