--------------------------- MODULE ExclusionProofs ---------------------------
(***************************************************************************)
(* Three ways in which the server keeps writers apart, for any number of   *)
(* writers.                                                                *)
(*                                                                         *)
(* The reservation of a workspace for a spawn (SpawnReservation): a fence  *)
(* is drawn once, so a row that still has it belongs to the request.       *)
(*                                                                         *)
(* The conditional write of a report tab (EventStreams): timestamps only   *)
(* grow, whatever the clock says, so a timestamp that still matches means  *)
(* that nothing was written since it was read.                             *)
(*                                                                         *)
(* The send lock of a pane (CliSend): an entry of the table stays while    *)
(* anyone holds its lock, so all who hold a lock hold the same one.        *)
(***************************************************************************)
EXTENDS SpawnReservation, EventStreams, CliSend, TLAPS

\* A request's clock reading is never ahead of the clock.
ClockReadings == \A c \in Clients : client[c].at <= now

\* Every fence in use was drawn, so the next one differs from all of them.
FencesDrawn ==
    /\ \A w \in Workspaces : table[w].fence <= fences
    /\ \A c \in Clients : client[c].fence <= fences

\* A holder's fence is never 0, and no two holders share one.
FencesDistinct ==
    /\ \A c \in Clients : client[c].pc = "holding" => client[c].fence # 0
    /\ \A c, d \in Clients :
         client[c].pc = "holding" /\ client[d].pc = "holding"
            /\ client[c].fence = client[d].fence => c = d

IInv ==
    /\ TypeOK
    /\ ClockReadings
    /\ FencesDrawn
    /\ FencesDistinct
    /\ ValidHolderOwnsRow
    /\ BlocksAtMostTTL

\* The inductive invariant holds initially.
LEMMA InitIInv == Init => IInv
  <1> SUFFICES ASSUME Init PROVE IInv
    OBVIOUS
  <1> USE ReservationAssumption
  <1>1. TypeOK
    BY DEF Init, TypeOK, Row, NoRow, Client
  <1>2. ClockReadings /\ FencesDrawn /\ FencesDistinct
    BY DEF Init, ClockReadings, FencesDrawn, FencesDistinct, NoRow
  <1>3. ValidHolderOwnsRow /\ BlocksAtMostTTL
    BY DEF Init, ValidHolderOwnsRow, ValidHolder, Holding, BlocksAtMostTTL, NoRow
  <1> QED
    BY <1>1, <1>2, <1>3 DEF IInv

\* Every step keeps it.
LEMMA NextIInv == IInv /\ [Next]_vars => IInv'
  <1> SUFFICES ASSUME IInv, [Next]_vars PROVE IInv'
    OBVIOUS
  <1> USE ReservationAssumption
  <1> USE DEF IInv, TypeOK, ClockReadings, FencesDrawn, FencesDistinct, Expiry,
              ValidHolderOwnsRow, ValidHolder, Holding, BlocksAtMostTTL, Row, Client
  <1>1. ASSUME NEW c \in Clients, NEW w \in Workspaces, Ask(c, w) PROVE IInv'
    BY <1>1 DEF Ask
  <1>2. ASSUME NEW c \in Clients, AcquireAt(c) PROVE IInv'
    <2> DEFINE ws == client[c].ws
    <2>1. ws \in Workspaces /\ client[c].at \in Nat
      OBVIOUS
    <2>2. CASE Granted(c)
      <3>1. /\ table' = [table EXCEPT ![ws] = [fence |-> fences + 1,
                                               expires |-> client[c].at + TTL]]
            /\ client' = [client EXCEPT ![c].pc = "holding",
                                        ![c].fence = fences + 1,
                                        ![c].expires = client[c].at + TTL]
            /\ fences' = fences + 1 /\ now' = now
        BY <1>2, <2>2 DEF AcquireAt
      \* Granted over no row or an expired one, so no holder was valid.
      <3>2. \A d \in Clients : ~ ValidHolder(d, ws)
        BY <2>1, <2>2 DEF Granted, Purged, NoRow
      <3>3. TypeOK'
        BY <3>1, <2>1
      <3>4. ClockReadings' /\ FencesDrawn' /\ FencesDistinct'
        BY <3>1, <2>1
      <3>5. ValidHolderOwnsRow'
        BY <3>1, <3>2, <2>1
      <3>6. BlocksAtMostTTL'
        BY <3>1, <2>1
      <3> QED
        BY <3>3, <3>4, <3>5, <3>6
    <2>3. CASE ~ Granted(c)
      <3>1. /\ table' = [table EXCEPT ![ws] = Purged(table[ws], client[c].at)]
            /\ client' = [client EXCEPT ![c].pc = "idle"]
            /\ fences' = fences + 1 /\ now' = now
        BY <1>2, <2>3 DEF AcquireAt
      \* Refused means that the purge left the row as it was.
      <3>2. Purged(table[ws], client[c].at) = table[ws]
        BY <2>3 DEF Granted, Purged, NoRow
      <3>3. UNCHANGED <<table, now>>
        BY <3>1, <3>2, <2>1
      <3>4. TypeOK'
        BY <3>1, <3>3
      <3>5. ClockReadings' /\ FencesDrawn' /\ FencesDistinct'
        BY <3>1, <3>3
      <3>6. ValidHolderOwnsRow' /\ BlocksAtMostTTL'
        BY <3>1, <3>3
      <3> QED
        BY <3>4, <3>5, <3>6
    <2> QED
      BY <2>2, <2>3
  <1>3. ASSUME NEW c \in Clients, Release(c) PROVE IInv'
    <2>1. TypeOK' /\ ClockReadings' /\ FencesDrawn' /\ FencesDistinct'
      BY <1>3 DEF Release, Unfenced, NoRow
    <2>2. ValidHolderOwnsRow' /\ BlocksAtMostTTL'
      BY <1>3 DEF Release, Unfenced, NoRow
    <2> QED
      BY <2>1, <2>2
  <1>4. ASSUME NEW c \in Clients, Abandon(c) PROVE IInv'
    BY <1>4 DEF Abandon
  <1>5. CASE Tick
    BY <1>5 DEF Tick
  <1>6. CASE UNCHANGED vars
    BY <1>6 DEF vars
  <1> QED
    BY <1>1, <1>2, <1>3, <1>4, <1>5, <1>6, Zenon DEF Next

\* Two requests never both hold an unexpired reservation of one workspace
\* (acquire_at), whatever the TTL, the clients and the delays of SQLite.
THEOREM ReservationExclusive == Spec => []OneValidHolder
  <1>1. IInv => OneValidHolder
    BY DEF IInv, OneValidHolder, ValidHolderOwnsRow, ValidHolder, Holding,
           FencesDistinct, TypeOK, Client, Row
  <1> QED
    BY InitIInv, NextIInv, <1>1, PTL DEF Spec

\* Until its TTL runs out a holder's row stays in the table: no stale acquire
\* and no late release of an overstayed holder removes it (release's fence).
THEOREM ReservationOwned == Spec => []ValidHolderOwnsRow
  <1>1. IInv => ValidHolderOwnsRow
    BY DEF IInv
  <1> QED
    BY InitIInv, NextIInv, <1>1, PTL DEF Spec

\* A dead request's row blocks its workspace for at most one TTL (acquire_at).
THEOREM ReservationLapses == Spec => []BlocksAtMostTTL
  <1>1. IInv => BlocksAtMostTTL
    BY DEF IInv
  <1> QED
    BY InitIInv, NextIInv, <1>1, PTL DEF Spec

\* A row leaves the table only by its own holder's release or once expired.
THEOREM ReservationFenced == Spec => RowLeavesByOwnerOrExpiry
  <1> DEFINE Leaves ==
        \A w \in Workspaces :
          table[w].fence # 0 /\ table'[w] # table[w] =>
            \/ table[w].expires <= now
            \/ \E c \in Clients :
                 /\ Holding(c, w) /\ client[c].fence = table[w].fence
                 /\ client'[c].pc = "idle"
  <1>1. IInv /\ [Next]_vars => [Leaves]_vars
    <2> SUFFICES ASSUME IInv, [Next]_vars PROVE [Leaves]_vars
      OBVIOUS
    <2> USE DEF IInv, TypeOK, ClockReadings, FencesDistinct, Row, Client, Holding
    <2>1. ASSUME NEW c \in Clients, NEW w \in Workspaces, Ask(c, w) PROVE Leaves
      BY <2>1 DEF Ask
    <2>2. ASSUME NEW c \in Clients, AcquireAt(c) PROVE Leaves
      <3>1. /\ client[c].ws \in Workspaces
            /\ \A w \in Workspaces \ {client[c].ws} : table'[w] = table[w]
        BY <2>2 DEF AcquireAt
      <3>2. CASE Granted(c)
        <4>1. LET row == table[client[c].ws] IN row.fence # 0 => row.expires <= now
          BY <3>1, <3>2 DEF Granted, Purged, NoRow
        <4> QED
          BY <3>1, <4>1
      <3>3. CASE ~ Granted(c)
        <4>1. Purged(table[client[c].ws], client[c].at) = table[client[c].ws]
          BY <3>3 DEF Granted, Purged, NoRow
        <4>2. table'[client[c].ws] = table[client[c].ws]
          BY <2>2, <3>1, <3>3, <4>1 DEF AcquireAt
        <4> QED
          BY <3>1, <4>2
      <3> QED
        BY <3>2, <3>3
    <2>3. ASSUME NEW c \in Clients, Release(c) PROVE Leaves
      BY <2>3 DEF Release, Unfenced, NoRow
    <2>4. ASSUME NEW c \in Clients, Abandon(c) PROVE Leaves
      BY <2>4 DEF Abandon
    <2>5. CASE Tick
      BY <2>5 DEF Tick
    <2> QED
      BY <2>1, <2>2, <2>3, <2>4, <2>5 DEF Next
  <1> QED
    BY InitIInv, NextIInv, <1>1, PTL DEF Spec, RowLeavesByOwnerOrExpiry

\* The reservation table implements the lapsing mutual exclusion: a grant is
\* made only when no unexpired holder is left.
THEOREM ReservationImplementsMutex == Spec => ImplementsMutex
  <1>1. Init => Mutex!Init
    BY DEF Init, Mutex!Init, Valid, ValidHolder, Holding
  <1>2. IInv /\ [Next]_vars => [Mutex!Next]_Valid
    <2> SUFFICES ASSUME IInv, [Next]_vars PROVE Mutex!Next \/ UNCHANGED Valid
      BY DEF Mutex!Next
    <2> USE DEF IInv, TypeOK, Row, Client, Expiry
    <2>0. Valid' \in [Workspaces -> SUBSET Clients]
      BY DEF Valid
    <2>1. ASSUME \A w \in Workspaces : Valid'[w] \subseteq Valid[w] PROVE Mutex!Next
      BY <2>0, <2>1 DEF Mutex!Next, Mutex!Lapse
    <2>2. ASSUME NEW c \in Clients, NEW w \in Workspaces, Ask(c, w)
          PROVE \A x \in Workspaces : Valid'[x] \subseteq Valid[x]
      BY <2>2 DEF Ask, Valid, ValidHolder, Holding
    <2>3. ASSUME NEW c \in Clients, AcquireAt(c) PROVE Mutex!Next
      <3>1. CASE Granted(c)
        <4>0. PICK ws \in Workspaces : ws = client[c].ws
          OBVIOUS
        <4>1. Valid[ws] = {}
          BY <3>1, <4>0, <2>3, ReservationAssumption
             DEF Granted, Purged, NoRow, Valid, ValidHolder, Holding,
                 ValidHolderOwnsRow, ClockReadings, FencesDistinct
        <4>2. \A d \in Clients, x \in Workspaces :
                d # c => (ValidHolder(d, x)' <=> ValidHolder(d, x))
          BY <3>1, <2>3 DEF AcquireAt, ValidHolder, Holding
        <4>3. \A x \in Workspaces : x # ws => ~ ValidHolder(c, x)'
          BY <3>1, <4>0, <2>3 DEF AcquireAt, ValidHolder, Holding
        <4>4. \A x \in Workspaces : ~ ValidHolder(c, x)
          BY <2>3 DEF AcquireAt, ValidHolder, Holding
        <4>5. \A x \in Workspaces : x # ws => Valid'[x] = Valid[x]
          BY <4>2, <4>3, <4>4 DEF Valid
        <4>6. CASE ValidHolder(c, ws)'
          <5>1. Valid'[ws] = {c}
            BY <4>1, <4>2, <4>6 DEF Valid
          <5>2. Valid' = [Valid EXCEPT ![ws] = {c}]
            BY <4>1, <4>5, <5>1, Zenon DEF Valid
          <5> QED
            BY <4>1, <5>2, Zenon DEF Mutex!Next, Mutex!Grant
        <4>7. CASE ~ ValidHolder(c, ws)'
          <5>1. Valid'[ws] \subseteq Valid[ws]
            BY <4>1, <4>2, <4>7 DEF Valid
          <5> QED
            BY <4>5, <5>1, <2>1
        <4> QED
          BY <4>6, <4>7
      <3>2. CASE ~ Granted(c)
        <4>1. \A x \in Workspaces : Valid'[x] \subseteq Valid[x]
          BY <3>2, <2>3 DEF AcquireAt, Valid, ValidHolder, Holding
        <4> QED
          BY <4>1, <2>1
      <3> QED
        BY <3>1, <3>2
    <2>4. ASSUME NEW c \in Clients, Release(c) \/ Abandon(c)
          PROVE \A x \in Workspaces : Valid'[x] \subseteq Valid[x]
      BY <2>4 DEF Release, Abandon, Valid, ValidHolder, Holding
    <2>5. CASE Tick
      <3>1. \A x \in Workspaces : Valid'[x] \subseteq Valid[x]
        BY <2>5 DEF Tick, Valid, ValidHolder, Holding
      <3> QED
        BY <3>1, <2>1
    <2>6. CASE UNCHANGED vars
      BY <2>6 DEF vars, Valid, ValidHolder, Holding
    <2> QED
      BY <2>1, <2>2, <2>3, <2>4, <2>5, <2>6 DEF Next
  <1> QED
    BY InitIInv, NextIInv, <1>1, <1>2, PTL DEF Spec, ImplementsMutex, Mutex!Spec

-----------------------------------------------------------------------------
(* The conditional write of a report tab. *)

Tab == [val : Values \union {"none"}, at : Nat]
ViewRow == [stamp : Nat, tab : Tab]
Writer ==
  [pc : {"idle", "begin", "commit", "load", "push"}, val : Values \union {"none"},
   expected : Nat, base : Nat, next : ViewRow]

ViewTypes ==
  /\ viewRow \in ViewRow
  /\ rev \in Nat
  /\ writer \in [Writers -> Writer]

\* The tab's timestamp is not newer than the row's.
Stamped(r) == r.tab.at <= r.stamp

\* A pending write that carries the tab's timestamp has read the current row.
Fresh(w) ==
  /\ writer[w].expected <= viewRow.stamp
  /\ writer[w].expected # 0 /\ writer[w].expected = viewRow.tab.at => writer[w].base = rev

\* An open transaction holds the only lock, its timestamps are new, and it
\* has made its comparison.
Checked(w) ==
  /\ \A v \in Writers : writer[v].pc = "commit" => v = w
  /\ writer[w].next.stamp > viewRow.stamp
  /\ writer[w].next.tab.at \in {0, writer[w].next.stamp}
  /\ writer[w].expected # 0 => writer[w].expected = viewRow.tab.at

StampInv ==
  /\ ViewTypes
  /\ ConditionalWriteIsCurrent
  /\ Stamped(viewRow)
  /\ \A w \in Writers : writer[w].pc \in {"begin", "commit"} => Fresh(w)
  /\ \A w \in Writers : writer[w].pc = "commit" => Checked(w)

LEMMA EmptyRow == NoTab \in Tab /\ NoView \in ViewRow
BY DEF NoTab, NoView, Tab, ViewRow

LEMMA IdleWriter ==
  /\ IdleWriting \in Writer
  /\ \A p \in {"load", "push"}, r \in ViewRow :
       /\ [IdleWriting EXCEPT !.pc = p] \in Writer
       /\ [IdleWriting EXCEPT !.pc = p, !.next = r] \in Writer
BY EmptyRow, Zenon DEF IdleWriting, Writer

\* Stamp gives a timestamp later than the row's.
LEMMA StampGrows ==
  ASSUME viewRow.stamp \in Nat, NEW clk \in 1..2
  PROVE  NextStamp(clk) \in Nat /\ NextStamp(clk) > viewRow.stamp
BY DEF NextStamp

\* A step that commits nothing, in which writers other than one keep still.
LEMMA WriterMoves ==
  ASSUME StampInv, ViewTypes', NEW w \in Writers, UNCHANGED <<viewRow, rev, lastWrite>>,
         \A v \in Writers \ {w} : writer'[v] = writer[v],
         writer'[w].pc \in {"begin", "commit"} => Fresh(w)',
         writer'[w].pc # "commit"
  PROVE  StampInv'
<1>1. ConditionalWriteIsCurrent' /\ Stamped(viewRow')
  BY DEF StampInv, ConditionalWriteIsCurrent, Stamped
<1>2. \A v \in Writers : writer'[v].pc \in {"begin", "commit"} => Fresh(v)'
  BY DEF StampInv, Fresh
<1>3. \A v \in Writers : writer'[v].pc = "commit" => Checked(v)'
  BY DEF StampInv, Checked
<1>4. QED
  BY <1>1, <1>2, <1>3 DEF StampInv

\* WorkspaceReport::write up to its commit.
LEMMA WriteStep ==
  ASSUME Kind = "reports", StampInv, NEW w \in Writers, NEW clk \in 1..2, WriteReport(w, clk)
  PROVE  StampInv'
<1> DEFINE t == NextStamp(clk)
           new == [stamp |-> t, tab |-> IF writer[w].val = "none" THEN NoTab
                                        ELSE [val |-> writer[w].val, at |-> t]]
<1>1. /\ viewRow \in ViewRow /\ rev \in Nat /\ writer \in [Writers -> Writer]
      /\ writer[w].pc = "begin" /\ UNCHANGED <<viewRow, rev, lastWrite>>
  BY DEF StampInv, ViewTypes, WriteReport
<1>2. CASE writer' = [writer EXCEPT ![w] =
             IF Unchanged(w) THEN [IdleWriting EXCEPT !.pc = "load"] ELSE IdleWriting]
  <2>1. writer'[w] \in Writer /\ writer'[w].pc \in {"idle", "load"}
    BY <1>1, <1>2, IdleWriter, EmptyRow, Zenon DEF IdleWriting
  <2>2. ViewTypes'
    BY <1>1, <1>2, <2>1 DEF ViewTypes
  <2>3. QED
    BY <1>1, <1>2, <2>1, <2>2, WriterMoves
<1>3. CASE /\ ~(writer[w].expected # 0 /\ writer[w].expected # viewRow.tab.at)
           /\ ~Locked
           /\ writer' = [writer EXCEPT ![w].pc = "commit", ![w].next = new]
  <2>1. t \in Nat /\ t > viewRow.stamp
    BY <1>1, StampGrows DEF ViewRow
  <2> HIDE DEF t
  <2>2. writer[w].val \in Values \union {"none"} /\ writer[w] \in Writer
    BY <1>1 DEF Writer
  <2>3. new \in ViewRow /\ new.stamp = t /\ new.tab.at \in {0, t}
    BY <2>1, <2>2, EmptyRow DEF ViewRow, Tab, NoTab
  <2> HIDE DEF new
  <2>4. /\ writer'[w] \in Writer /\ writer'[w].pc = "commit" /\ writer'[w].next = new
        /\ writer'[w].expected = writer[w].expected /\ writer'[w].base = writer[w].base
        /\ \A v \in Writers \ {w} : writer'[v] = writer[v]
    BY <1>1, <1>3, <2>2, <2>3, Zenon DEF Writer
  <2>5. ViewTypes'
    BY <1>1, <1>3, <2>4 DEF ViewTypes
  <2>6. ConditionalWriteIsCurrent' /\ Stamped(viewRow')
    BY <1>1 DEF StampInv, ConditionalWriteIsCurrent, Stamped
  <2>7. \A v \in Writers : writer'[v].pc \in {"begin", "commit"} => Fresh(v)'
    BY <1>1, <2>4 DEF StampInv, Fresh
  <2>8. \A v \in Writers : writer'[v].pc = "commit" => Checked(v)'
    BY <1>1, <1>3, <2>1, <2>3, <2>4 DEF Checked, Locked
  <2>9. QED
    BY <2>5, <2>6, <2>7, <2>8 DEF StampInv
<1>4. QED
  BY <1>2, <1>3 DEF WriteReport

\* The commit makes every timestamp that another writer carries stale.
LEMMA CommitWriteStep ==
  ASSUME Kind = "reports", StampInv, NEW w \in Writers, Commit(w)
  PROVE  StampInv'
<1> DEFINE n == writer[w].next
<1>1. /\ viewRow \in ViewRow /\ rev \in Nat /\ writer \in [Writers -> Writer]
      /\ writer[w].pc = "commit" /\ Checked(w) /\ Fresh(w)
  BY DEF StampInv, ViewTypes, Commit
<1>2. /\ viewRow' = n /\ rev' = rev + 1
      /\ writer' = [writer EXCEPT ![w] = [IdleWriting EXCEPT !.pc = "load"]]
      /\ lastWrite' = [conditional |-> writer[w].expected # 0,
                       seen |-> writer[w].base, found |-> rev]
  BY DEF Commit
<1>3. n \in ViewRow /\ n.stamp > viewRow.stamp /\ n.tab.at \in {0, n.stamp}
  BY <1>1 DEF Writer, Checked
<1>4. n.stamp \in Nat /\ viewRow.stamp \in Nat /\ n.tab.at \in Nat /\ viewRow.tab.at \in Nat
  BY <1>1, <1>3 DEF ViewRow, Tab
<1>5. writer'[w] \in Writer /\ writer'[w].pc = "load"
  BY <1>1, <1>2, IdleWriter, EmptyRow, Zenon DEF IdleWriting
<1>6. ViewTypes'
  BY <1>1, <1>2, <1>3, <1>5 DEF ViewTypes
<1>7. ConditionalWriteIsCurrent'
  BY <1>1, <1>2, Zenon DEF ConditionalWriteIsCurrent, Checked, Fresh
<1>8. Stamped(viewRow')
  BY <1>2, <1>3, <1>4 DEF Stamped
<1>9. ASSUME NEW v \in Writers, writer'[v].pc \in {"begin", "commit"}
      PROVE  Fresh(v)' /\ writer'[v].pc # "commit"
  <2>1. v # w /\ writer'[v] = writer[v]
    BY <1>1, <1>2, <1>5, <1>9
  <2>2. writer[v].expected \in Nat /\ writer[v].expected <= viewRow.stamp
    BY <1>1, <1>9, <2>1 DEF StampInv, Fresh, Writer
  <2>3. writer'[v].pc # "commit"
    BY <1>1, <2>1 DEF Checked
  <2>4. QED
    BY <1>2, <1>3, <1>4, <2>1, <2>2, <2>3 DEF Fresh
<1>10. QED
  BY <1>6, <1>7, <1>8, <1>9 DEF StampInv

LEMMA StampStep ==
  ASSUME Kind = "reports", StampInv, [ViewNext]_viewVars
  PROVE  StampInv'
<1>1. viewRow \in ViewRow /\ rev \in Nat /\ writer \in [Writers -> Writer]
  BY DEF StampInv, ViewTypes
<1>u. ASSUME UNCHANGED <<viewRow, rev, writer, lastWrite>>
      PROVE  StampInv'
  BY <1>u DEF StampInv, ViewTypes, ConditionalWriteIsCurrent, Stamped, Fresh, Checked
<1>2. ASSUME NEW w \in Writers, NEW val \in Values \union {"none"}, NEW c \in BOOLEAN,
             SendWrite(w, val, c)
      PROVE  StampInv'
  <2> DEFINE x == IF c THEN viewRow.tab.at ELSE 0
             new == [IdleWriting EXCEPT !.pc = "begin", !.val = val, !.expected = x, !.base = rev]
  <2>1. writer' = [writer EXCEPT ![w] = new] /\ UNCHANGED <<viewRow, rev, lastWrite>>
    BY <1>2 DEF SendWrite
  <2>2. x \in Nat /\ viewRow.stamp \in Nat
    BY <1>1 DEF ViewRow, Tab
  <2>3. /\ new \in Writer /\ new.pc = "begin" /\ new.expected = x /\ new.base = rev
    BY <1>1, <2>2, EmptyRow, Zenon DEF IdleWriting, Writer
  <2>4. x <= viewRow.stamp
    BY <2>2 DEF StampInv, Stamped
  <2> HIDE DEF x, new
  <2>5. /\ writer'[w] = new
        /\ \A v \in Writers \ {w} : writer'[v] = writer[v]
    BY <1>1, <2>1
  <2>6. ViewTypes'
    BY <1>1, <2>1, <2>3 DEF ViewTypes
  <2>7. Fresh(w)'
    BY <2>1, <2>3, <2>4, <2>5 DEF Fresh
  <2>8. QED
    BY <2>1, <2>3, <2>5, <2>6, <2>7, WriterMoves
<1>3. ASSUME NEW w \in Writers, NEW clk \in 1..2, WriteReport(w, clk)
      PROVE  StampInv'
  BY <1>3, WriteStep
<1>4. ASSUME NEW w \in Writers, Commit(w)
      PROVE  StampInv'
  BY <1>4, CommitWriteStep
<1>5. ASSUME NEW w \in Writers, NEW x \in Writer, x.pc \in {"idle", "push"},
             writer' = [writer EXCEPT ![w] = x], UNCHANGED <<viewRow, rev, lastWrite>>
      PROVE  StampInv'
  <2>1. ViewTypes' /\ writer'[w] = x /\ \A v \in Writers \ {w} : writer'[v] = writer[v]
    BY <1>1, <1>5 DEF ViewTypes
  <2>2. QED
    BY <1>5, <2>1, WriterMoves
<1>6. ASSUME NEW w \in Writers, LoadForPublish(w)
      PROVE  StampInv'
  <2>1. [IdleWriting EXCEPT !.pc = "push", !.next = viewRow] \in Writer
    BY <1>1, IdleWriter, Zenon
  <2>2. [IdleWriting EXCEPT !.pc = "push", !.next = viewRow].pc = "push"
    BY DEF IdleWriting
  <2>3. QED
    BY <1>5, <1>6, <2>1, <2>2, Zenon DEF LoadForPublish
<1>7. ASSUME NEW w \in Writers, Publish(w)
      PROVE  StampInv'
  <2>1. IdleWriting \in Writer /\ IdleWriting.pc = "idle"
    BY IdleWriter, Zenon DEF IdleWriting
  <2>2. QED
    BY <1>5, <1>7, <2>1, Zenon DEF Publish
<1>8. CASE HookStep
  BY <1>8, <1>u DEF HookStep, HookReads, HookPushes
<1>9. CASE Connect \/ ClientStep
  BY <1>9, <1>u DEF Connect, ClientStep, LoadSnapshot, Subscribe, Receive
<1>10. CASE UNCHANGED viewVars
  BY <1>10, <1>u DEF viewVars
<1>11. QED
  BY <1>2, <1>3, <1>4, <1>6, <1>7, <1>8, <1>9, <1>10 DEF ViewNext, WriterStep

\* A write of a report tab with an expected timestamp replaces the row that its
\* author read and no other, although the comparison is of timestamps, the
\* clock may go back and a tab may be deleted and written again.
THEOREM ConditionalWriteCurrent ==
  ASSUME Kind = "reports"
  PROVE  ViewSpec => []ConditionalWriteIsCurrent
<1>1. ViewInit => StampInv
  <2>1. SUFFICES ASSUME ViewInit PROVE StampInv
    OBVIOUS
  <2>2. viewRow \in ViewRow /\ Stamped(viewRow)
    <3>1. CASE viewRow = NoView
      BY <3>1, EmptyRow DEF NoView, NoTab, Stamped
    <3>2. CASE \E v \in Values : viewRow = [stamp |-> 1, tab |-> [val |-> v, at |-> 1]]
      BY <3>2 DEF ViewRow, Tab, Stamped
    <3>3. QED
      BY <2>1, <3>1, <3>2 DEF ViewInit
  <2>3. /\ writer \in [Writers -> Writer] /\ rev \in Nat
        /\ \A w \in Writers : writer[w].pc = "idle"
    BY <2>1, IdleWriter, Zenon DEF ViewInit, IdleWriting
  <2>4. QED
    BY <2>1, <2>2, <2>3 DEF ViewInit, StampInv, ViewTypes, ConditionalWriteIsCurrent
<1>2. StampInv /\ [ViewNext]_viewVars => StampInv'
  BY StampStep
<1>3. StampInv => ConditionalWriteIsCurrent
  BY DEF StampInv
<1>4. QED
  BY <1>1, <1>2, <1>3, PTL DEF ViewSpec

-----------------------------------------------------------------------------
(* The send lock. *)

SendPcs == {"idle", "wait", "probe", "load", "paste", "enter", "again", "done"}
SendResults == {"none", "no_agent", "not_delivered", "unsubmitted", "submitted"}

SendTypes ==
  /\ task \in [Senders -> [pc : SendPcs, lock : Nat]]
  /\ result \in [Senders -> SendResults]
  /\ entry \in Nat /\ locks \in Nat /\ entry <= locks

\* Whoever holds a lock holds that of the entry, and one of them is inside.
OneLock ==
  /\ \A s \in Senders : task[s].lock # 0 => task[s].lock = entry
  /\ \A s \in Senders : task[s].pc = "wait" \/ Inside(s) => task[s].lock # 0
  /\ \A s, o \in Senders : Inside(s) /\ Inside(o) => s = o

\* A text that reached the pane is reported so, and is not sent again.
Reported == \A s \in Senders : Delivered(result[s]) => task[s].pc = "done"

Buffered == buffers = {s \in Senders : task[s].pc = "paste"}

\* The senders whose text may be in the pane.
Entering(s) == task[s].pc \in {"enter", "again"}
Placed == {s \in Senders : Entering(s) \/ Delivered(result[s])}

\* The box holds texts that were left in it, and last the one that is being
\* submitted.
BoxInv ==
  /\ box \in Seq(Senders)
  /\ \A j \in 1..Len(box) :
       result[box[j]] = "unsubmitted" \/ (j = Len(box) /\ Entering(box[j]))
  /\ \A j, l \in 1..Len(box) : box[j] = box[l] => j = l

\* A submitted text is in no other place, and was left in the box if others
\* follow it in its turn.
TurnOf(i, j) ==
  /\ turns[i][j] \in Placed
  /\ j < Len(turns[i]) => result[turns[i][j]] = "unsubmitted"
  /\ \A l \in 1..Len(box) : turns[i][j] # box[l]
  /\ \A k \in 1..Len(turns) : \A l \in 1..Len(turns[k]) :
       turns[i][j] = turns[k][l] => i = k /\ j = l

TurnsInv ==
  /\ turns \in Seq(Seq(Senders))
  /\ \A i \in 1..Len(turns) : \A j \in 1..Len(turns[i]) : TurnOf(i, j)

SendInv == SendTypes /\ OneLock /\ Reported /\ Buffered /\ BoxInv /\ TurnsInv

\* What a step of one sender keeps of its task, the lock and the buffers.
LEMMA TaskMoves ==
  ASSUME SendInv, NEW s \in Senders, NEW p \in SendPcs, NEW r \in SendResults,
         task' \in [Senders -> [pc : SendPcs, lock : Nat]], task'[s].pc = p,
         \A o \in Senders : o # s => task'[o] = task[o],
         result' = [result EXCEPT ![s] = r],
         entry' \in Nat, locks' \in Nat, entry' <= locks',
         \A o \in Senders : task'[o].lock # 0 => task'[o].lock = entry',
         p \notin {"idle", "done"} => task'[s].lock # 0,
         p \notin {"idle", "wait", "done"} => \A o \in Senders : o # s => ~Inside(o),
         Delivered(r) => p = "done",
         buffers' = IF p = "paste" THEN buffers \union {s} ELSE buffers \ {s}
  PROVE  SendTypes' /\ OneLock' /\ Reported' /\ Buffered'
<1>1. SendTypes /\ OneLock /\ Reported /\ Buffered
  BY DEF SendInv
<1>2. /\ result' \in [Senders -> SendResults] /\ result'[s] = r
      /\ \A o \in Senders : o # s => result'[o] = result[o]
  BY <1>1, Zenon DEF SendTypes
<1>3. SendTypes'
  BY <1>2 DEF SendTypes
<1>4. Reported'
  BY <1>1, <1>2, Zenon DEF Reported, Delivered
<1>5. Buffered'
  <2>1. ASSUME NEW o \in Senders
        PROVE  o \in buffers' <=> task'[o].pc = "paste"
    BY <1>1, <2>1 DEF Buffered
  <2>2. buffers' \subseteq Senders
    BY <1>1 DEF Buffered
  <2>3. QED
    BY <2>1, <2>2 DEF Buffered
<1>6. \A o \in Senders : o # s => (Inside(o)' <=> Inside(o))
  BY Zenon DEF Inside
<1>7. Inside(s)' => p \notin {"idle", "wait", "done"}
  BY DEF Inside
<1>8. OneLock'
  <2>1. ASSUME NEW o \in Senders, (task[o].pc = "wait")' \/ Inside(o)'
        PROVE  task'[o].lock # 0
    <3>1. CASE o = s
      BY <2>1, <3>1, <1>7
    <3>2. CASE o # s
      BY <1>1, <1>6, <2>1, <3>2, Zenon DEF OneLock
    <3>3. QED
      BY <3>1, <3>2
  <2>2. ASSUME NEW a \in Senders, NEW b \in Senders, Inside(a)', Inside(b)'
        PROVE  a = b
    BY <1>1, <1>6, <1>7, <2>2, Zenon DEF OneLock
  <2>3. QED
    BY <2>1, <2>2, Zenon DEF OneLock
<1>9. QED
  BY <1>3, <1>4, <1>5, <1>8

\* The turns that were submitted stay.
LEMMA TurnsStay ==
  ASSUME TurnsInv, turns' = turns, box' = box \/ box' = <<>>, Placed \subseteq Placed',
         \A o \in Senders : result[o] = "unsubmitted" => result'[o] = "unsubmitted"
  PROVE  TurnsInv'
<1>1. turns' \in Seq(Seq(Senders))
  BY DEF TurnsInv
<1>2. box' = <<>> => 1..Len(box') = {}
  OBVIOUS
<1>3. ASSUME NEW i \in 1..Len(turns'), NEW j \in 1..Len(turns'[i])
      PROVE  TurnOf(i, j)'
  <2>1. i \in 1..Len(turns) /\ j \in 1..Len(turns[i])
    BY <1>3, Zenon
  <2>2. TurnOf(i, j)
    BY <2>1, Zenon DEF TurnsInv
  <2>3. turns[i][j] \in Senders
    BY <2>2, Zenon DEF TurnOf, Placed
  <2>4. \A l \in 1..Len(box') : turns'[i][j] # box'[l]
    BY <1>2, <2>2, Zenon DEF TurnOf
  <2>5. QED
    BY <2>2, <2>3, <2>4, Zenon DEF TurnOf
<1>4. QED
  BY <1>1, <1>3, Zenon DEF TurnsInv

\* What it keeps of the texts in the pane.
LEMMA TextsStay ==
  ASSUME SendInv, UNCHANGED <<box, turns>>,
         \A o \in Senders : result[o] = "unsubmitted" => result'[o] = "unsubmitted",
         \A o \in Senders : Entering(o) => Entering(o)' \/ result'[o] = "unsubmitted",
         \A o \in Senders : Delivered(result[o]) => Delivered(result'[o])
  PROVE  BoxInv' /\ TurnsInv'
<1>1. BoxInv /\ TurnsInv
  BY DEF SendInv
<1>2. \A j \in 1..Len(box) : box[j] \in Senders
  BY <1>1 DEF BoxInv
<1>3. BoxInv'
  BY <1>1, <1>2, Zenon DEF BoxInv
<1>4. Placed \subseteq Placed'
  BY Zenon DEF Placed, Delivered
<1>5. TurnsInv'
  BY <1>1, <1>4, TurnsStay
<1>6. QED
  BY <1>3, <1>5

\* The box becomes a turn.
LEMMA TextsSubmitted ==
  ASSUME SendInv, Submits,
         \A o \in Senders : result[o] = "unsubmitted" => result'[o] = "unsubmitted",
         Placed \subseteq Placed'
  PROVE  BoxInv' /\ TurnsInv'
<1>1. BoxInv /\ TurnsInv
  BY DEF SendInv
<1>2. box' = <<>> /\ BoxInv'
  BY DEF Submits, BoxInv
<1>3. \A j \in 1..Len(box) : box[j] \in Senders
  BY <1>1 DEF BoxInv
<1>4. \A i \in 1..Len(turns) : \A j \in 1..Len(turns[i]) : turns[i][j] \in Senders
  BY <1>1, Zenon DEF TurnsInv, TurnOf, Placed
<1>5. 1..Len(box') = {}
  BY <1>2
<1>6. CASE box = <<>>
  <2>1. turns' = turns
    BY <1>6 DEF Submits
  <2>2. QED
    BY <1>1, <1>2, <2>1, TurnsStay
<1>7. CASE box # <<>>
  <2>1. turns' = Append(turns, box)
    BY <1>7 DEF Submits
  <2>2. /\ turns' \in Seq(Seq(Senders)) /\ Len(turns') = Len(turns) + 1 /\ Len(turns) \in Nat
        /\ turns'[Len(turns) + 1] = box /\ \A i \in 1..Len(turns) : turns'[i] = turns[i]
    BY <1>1, <2>1 DEF BoxInv, TurnsInv
  <2>3. \A i \in 1..Len(turns') : i \in 1..Len(turns) \/ i = Len(turns) + 1
    BY <2>2
  <2>4. Len(turns) + 1 \notin 1..Len(turns)
    BY <2>2
  <2>5. \A j \in 1..Len(box) : box[j] \in Placed' /\ (j < Len(box) => result'[box[j]] = "unsubmitted")
    <3>1. SUFFICES ASSUME NEW j \in 1..Len(box)
                   PROVE  box[j] \in Placed' /\ (j < Len(box) => result'[box[j]] = "unsubmitted")
      OBVIOUS
    <3>2. result[box[j]] = "unsubmitted" \/ (j = Len(box) /\ Entering(box[j]))
      BY <1>1 DEF BoxInv
    <3>3. box[j] \in Placed
      BY <1>3, <3>2 DEF Placed, Delivered
    <3>4. j < Len(box) => j # Len(box)
      BY <1>1 DEF BoxInv
    <3>5. QED
      BY <1>3, <3>2, <3>3, <3>4, Zenon
  <2>6. ASSUME NEW i \in 1..Len(turns'), NEW j \in 1..Len(turns'[i])
        PROVE  TurnOf(i, j)'
    <3>1. CASE i \in 1..Len(turns)
      <4>1. turns'[i] = turns[i]
        BY <2>2, <3>1, Zenon
      <4>2. j \in 1..Len(turns[i])
        BY <2>6, <4>1, Zenon
      <4>3. TurnOf(i, j)
        BY <1>1, <3>1, <4>2, Zenon DEF TurnsInv
      <4>4. turns[i][j] \in Placed' /\ (j < Len(turns[i]) => result'[turns[i][j]] = "unsubmitted")
        BY <1>4, <3>1, <4>2, <4>3, Zenon DEF TurnOf
      <4>5. ASSUME NEW k \in 1..Len(turns'), NEW l \in 1..Len(turns'[k]),
                   turns'[i][j] = turns'[k][l]
            PROVE  i = k /\ j = l
        <5>1. CASE k \in 1..Len(turns)
          <6>1. turns'[k] = turns[k]
            BY <2>2, <5>1, Zenon
          <6>2. l \in 1..Len(turns[k]) /\ turns[i][j] = turns[k][l]
            BY <4>1, <4>5, <6>1, Zenon
          <6>3. QED
            BY <4>3, <5>1, <6>2, Zenon DEF TurnOf
        <5>2. CASE k = Len(turns) + 1
          <6>1. l \in 1..Len(box) /\ turns[i][j] = box[l]
            BY <2>2, <4>1, <4>5, <5>2, Zenon
          <6>2. QED
            BY <4>3, <6>1, Zenon DEF TurnOf
        <5>3. QED
          BY <2>3, <5>1, <5>2, Zenon
      <4>6. QED
        BY <1>5, <4>1, <4>4, <4>5, Zenon DEF TurnOf
    <3>2. CASE i = Len(turns) + 1
      <4>1. turns'[i] = box
        BY <2>2, <3>2, Zenon
      <4>2. ASSUME NEW k \in 1..Len(turns'), NEW l \in 1..Len(turns'[k]),
                   turns'[i][j] = turns'[k][l]
            PROVE  i = k /\ j = l
        <5>1. j \in 1..Len(box)
          BY <2>6, <4>1, Zenon
        <5>2. CASE k \in 1..Len(turns)
          <6>1. turns'[k] = turns[k]
            BY <2>2, <5>2, Zenon
          <6>2. l \in 1..Len(turns[k]) /\ box[j] = turns[k][l]
            BY <4>1, <4>2, <6>1, Zenon
          <6>3. TurnOf(k, l)
            BY <1>1, <5>2, <6>2, Zenon DEF TurnsInv
          <6>4. QED
            BY <5>1, <6>2, <6>3, Zenon DEF TurnOf
        <5>3. CASE k = Len(turns) + 1
          <6>1. l \in 1..Len(box) /\ box[j] = box[l]
            BY <2>2, <4>1, <4>2, <5>3, Zenon
          <6>2. QED
            BY <1>1, <3>2, <5>1, <5>3, <6>1, Zenon DEF BoxInv
        <5>4. QED
          BY <2>3, <5>2, <5>3, Zenon
      <4>3. QED
        BY <1>5, <2>5, <2>6, <4>1, <4>2, Zenon DEF TurnOf
    <3>3. QED
      BY <2>3, <3>1, <3>2, Zenon
  <2>7. TurnsInv'
    BY <2>2, <2>6, Zenon DEF TurnsInv
  <2>8. QED
    BY <1>2, <2>7
<1>8. QED
  BY <1>6, <1>7

\* A paste adds a text that is not in the pane.
LEMMA TextPasted ==
  ASSUME SendInv, NEW s \in Senders, task[s].pc = "paste", box' = Append(box, s),
         turns' = turns, result' = result, task' = [task EXCEPT ![s].pc = "enter"]
  PROVE  BoxInv' /\ TurnsInv'
<1>1. SendTypes /\ OneLock /\ Reported /\ BoxInv /\ TurnsInv
  BY DEF SendInv
<1>2. s \notin Placed
  BY <1>1 DEF Placed, Entering, Reported
<1>3. /\ task'[s].pc = "enter" /\ \A o \in Senders : o # s => task'[o] = task[o]
  BY <1>1 DEF SendTypes
<1>4. /\ box' \in Seq(Senders) /\ Len(box') = Len(box) + 1 /\ Len(box) \in Nat
      /\ box'[Len(box) + 1] = s /\ \A j \in 1..Len(box) : box'[j] = box[j]
  BY <1>1 DEF BoxInv
<1>5. /\ \A j \in 1..Len(box') : j \in 1..Len(box) \/ j = Len(box) + 1
      /\ Len(box) + 1 \notin 1..Len(box)
  BY <1>4
<1>6. ASSUME NEW j \in 1..Len(box)
      PROVE  result[box[j]] = "unsubmitted" /\ box[j] # s
  <2>1. box[j] \in Senders
    BY <1>1, <1>6 DEF BoxInv
  <2>2. ~Entering(box[j])
    <3>1. Entering(box[j]) => Inside(box[j])
      BY DEF Entering, Inside
    <3>2. Inside(s) /\ ~Entering(s)
      BY DEF Inside, Entering
    <3>3. QED
      BY <1>1, <2>1, <3>1, <3>2, Zenon DEF OneLock
  <2>3. result[box[j]] = "unsubmitted"
    BY <1>1, <1>6, <2>2, Zenon DEF BoxInv
  <2>4. QED
    BY <1>2, <2>1, <2>3 DEF Placed, Delivered
<1>7. BoxInv'
  <2>1. ASSUME NEW j \in 1..Len(box')
        PROVE  result'[box'[j]] = "unsubmitted" \/ (j = Len(box') /\ Entering(box[j])')
    <3>1. CASE j \in 1..Len(box)
      BY <1>4, <1>6, <3>1, Zenon
    <3>2. CASE j = Len(box) + 1
      BY <1>3, <1>4, <3>2 DEF Entering
    <3>3. QED
      BY <1>5, <3>1, <3>2, Zenon
  <2>2. ASSUME NEW j \in 1..Len(box'), NEW l \in 1..Len(box'), box'[j] = box'[l]
        PROVE  j = l
    <3>1. CASE j \in 1..Len(box) /\ l \in 1..Len(box)
      BY <1>1, <1>4, <2>2, <3>1, Zenon DEF BoxInv
    <3>2. CASE j = Len(box) + 1 \/ l = Len(box) + 1
      BY <1>4, <1>5, <1>6, <2>2, <3>2, Zenon
    <3>3. QED
      BY <1>5, <3>1, <3>2, Zenon
  <2>3. QED
    BY <1>4, <2>1, <2>2, Zenon DEF BoxInv
<1>8. Placed \subseteq Placed'
  BY <1>2, <1>3, Zenon DEF Placed, Entering
<1>9. TurnsInv'
  <2>1. turns' \in Seq(Seq(Senders))
    BY <1>1 DEF TurnsInv
  <2>2. ASSUME NEW i \in 1..Len(turns'), NEW j \in 1..Len(turns'[i])
        PROVE  TurnOf(i, j)'
    <3>1. i \in 1..Len(turns) /\ j \in 1..Len(turns[i])
      BY <2>2, Zenon
    <3>2. TurnOf(i, j)
      BY <1>1, <3>1, Zenon DEF TurnsInv
    <3>3. ASSUME NEW l \in 1..Len(box')
          PROVE  turns'[i][j] # box'[l]
      <4>1. CASE l \in 1..Len(box)
        BY <1>4, <3>2, <4>1, Zenon DEF TurnOf
      <4>2. CASE l = Len(box) + 1
        BY <1>2, <1>4, <3>2, <4>2, Zenon DEF TurnOf
      <4>3. QED
        BY <1>5, <3>3, <4>1, <4>2, Zenon
    <3>4. QED
      BY <1>8, <3>2, <3>3, Zenon DEF TurnOf
  <2>3. QED
    BY <2>1, <2>2, Zenon DEF TurnsInv
<1>10. QED
  BY <1>7, <1>9

\* A step of one sender that puts nothing into the pane and submits nothing.
LEMMA SenderMoves ==
  ASSUME SendInv, NEW s \in Senders, NEW p \in SendPcs, NEW r \in SendResults, NEW l \in Nat,
         task' = [task EXCEPT ![s] = [pc |-> p, lock |-> l]],
         result' = [result EXCEPT ![s] = r], UNCHANGED <<box, turns>>,
         entry' \in Nat, locks' \in Nat, entry' <= locks',
         l # 0 => l = entry',
         \A o \in Senders : o # s /\ task[o].lock # 0 => task[o].lock = entry',
         p \notin {"idle", "done"} => l # 0,
         p \notin {"idle", "wait", "done"} => \A o \in Senders : o # s => ~Inside(o),
         Delivered(r) => p = "done",
         Delivered(result[s]) => r = result[s],
         Entering(s) => p \in {"enter", "again"} \/ r = "unsubmitted",
         buffers' = IF p = "paste" THEN buffers \union {s} ELSE buffers \ {s}
  PROVE  SendInv'
<1>1. SendTypes
  BY DEF SendInv
<1>2. /\ task' \in [Senders -> [pc : SendPcs, lock : Nat]] /\ task'[s].pc = p /\ task'[s].lock = l
      /\ \A o \in Senders : o # s => task'[o] = task[o]
  BY <1>1 DEF SendTypes
<1>3. result'[s] = r /\ \A o \in Senders : o # s => result'[o] = result[o]
  BY <1>1, Zenon DEF SendTypes
<1>4. SendTypes' /\ OneLock' /\ Reported' /\ Buffered'
  <2>1. \A o \in Senders : task'[o].lock # 0 => task'[o].lock = entry'
    BY <1>2, Zenon
  <2>2. p \notin {"idle", "done"} => task'[s].lock # 0
    BY <1>2, Zenon
  <2>3. QED
    BY <1>2, <2>1, <2>2, TaskMoves, Zenon
<1>5. \A o \in Senders : Delivered(result[o]) => result'[o] = result[o]
  BY <1>3, Zenon
<1>6. \A o \in Senders : Entering(o) => Entering(o)' \/ result'[o] = "unsubmitted"
  BY <1>2, <1>3, Zenon DEF Entering
<1>7. \A o \in Senders : /\ result[o] = "unsubmitted" => result'[o] = "unsubmitted"
                         /\ Delivered(result[o]) => Delivered(result'[o])
  BY <1>5, Zenon DEF Delivered
<1>8. BoxInv' /\ TurnsInv'
  BY <1>6, <1>7, TextsStay, Zenon
<1>9. QED
  BY <1>4, <1>8, Zenon DEF SendInv

\* The same for a sender that keeps its lock, or leaves it.
LEMMA SenderGoesOn ==
  ASSUME SendInv, NEW s \in Senders, NEW p \in SendPcs, NEW r \in SendResults, NEW l \in {0, task[s].lock},
         task' = [task EXCEPT ![s] = [pc |-> p, lock |-> l]],
         result' = [result EXCEPT ![s] = r], UNCHANGED <<box, turns, entry, locks>>,
         task[s].pc \notin {"idle", "wait", "done"} \/ p = "idle",
         p \notin {"idle", "done"} => l = task[s].lock,
         p # "wait", Delivered(r) => p = "done",
         ~Delivered(result[s]),
         Entering(s) => p \in {"enter", "again"} \/ r = "unsubmitted",
         buffers' = IF p = "paste" THEN buffers \union {s} ELSE buffers \ {s}
  PROVE  SendInv'
<1>1. SendTypes /\ OneLock
  BY DEF SendInv
<1>2. l \in Nat /\ entry' \in Nat /\ locks' \in Nat /\ entry' <= locks'
  BY <1>1 DEF SendTypes
<1>3. \A o \in Senders : task[o].lock # 0 => task[o].lock = entry'
  BY <1>1, Zenon DEF OneLock
<1>4. l # 0 => l = entry'
  BY <1>3
<1>5. ASSUME p \notin {"idle", "done"}
      PROVE  l # 0 /\ \A o \in Senders : o # s => ~Inside(o)
  <2>1. Inside(s)
    BY <1>1, <1>5 DEF Inside, SendTypes, SendPcs
  <2>2. task[s].lock # 0 /\ \A o \in Senders : o # s => ~Inside(o)
    BY <1>1, <2>1, Zenon DEF OneLock
  <2>3. QED
    BY <1>5, <2>2
<1>6. QED
  BY <1>2, <1>3, <1>4, <1>5, SenderMoves, Zenon

LEMMA StepMoves ==
  ASSUME SendTypes, NEW s \in Senders, NEW p \in SendPcs, Step(s, p)
  PROVE  task' = [task EXCEPT ![s] = [pc |-> p, lock |-> task[s].lock]]
<1>1. task[s] = [pc |-> task[s].pc, lock |-> task[s].lock]
  BY DEF SendTypes
<1>2. [task[s] EXCEPT !.pc = p] = [pc |-> p, lock |-> task[s].lock]
  BY <1>1
<1>3. QED
  BY <1>2, Zenon DEF Step

LEMMA LookupKeeps ==
  ASSUME SendInv, NEW s \in Senders, Lookup(s)
  PROVE  SendInv'
<1>1. SendTypes /\ OneLock /\ Reported /\ Buffered
  BY DEF SendInv
<1>2. result' = [result EXCEPT ![s] = result[s]] /\ result[s] \in SendResults
  BY <1>1 DEF Lookup, SendTypes
<1>3. ~Delivered(result[s])
  BY <1>1 DEF Lookup, Reported
<1>4. /\ entry' \in Nat /\ locks' \in Nat /\ entry' <= locks' /\ entry' # 0
      /\ \A o \in Senders : task[o].lock # 0 => task[o].lock = entry'
  <2>1. CASE KeepsEntry
    BY <1>1, <2>1 DEF Lookup, SendTypes, OneLock, KeepsEntry
  <2>2. CASE ~KeepsEntry
    <3>1. \A o \in Senders : task[o].lock = 0
      BY <1>1, <2>2, Zenon DEF OneLock, KeepsEntry
    <3>2. QED
      BY <1>1, <2>2, <3>1 DEF Lookup, SendTypes
  <2>3. QED
    BY <2>1, <2>2
<1>5. buffers' = buffers \ {s}
  BY <1>1 DEF Lookup, Buffered
<1>6. ~Entering(s)
  BY DEF Lookup, Entering
<1>7. task' = [task EXCEPT ![s] = [pc |-> "wait", lock |-> entry']] /\ UNCHANGED <<box, turns>>
  BY DEF Lookup
<1>8. "wait" \in SendPcs
  BY DEF SendPcs
<1>9. QED
  BY <1>2, <1>3, <1>4, <1>5, <1>6, <1>7, <1>8, SenderMoves, Zenon

LEMMA AcquireKeeps ==
  ASSUME SendInv, NEW s \in Senders, Acquire(s)
  PROVE  SendInv'
<1>1. SendTypes /\ OneLock /\ Reported /\ Buffered
  BY DEF SendInv
<1>2. result' = [result EXCEPT ![s] = result[s]] /\ result[s] \in SendResults
  BY <1>1, Zenon DEF Acquire, SendTypes
<1>3. ~Delivered(result[s]) /\ ~Entering(s)
  BY <1>1 DEF Acquire, Reported, Entering
<1>4. "probe" \in SendPcs /\ Step(s, "probe")
  BY DEF Acquire, SendPcs
<1>5. task' = [task EXCEPT ![s] = [pc |-> "probe", lock |-> task[s].lock]]
  BY <1>1, <1>4, StepMoves, Zenon
<1>6. task[s].lock \in Nat /\ task[s].lock # 0
  BY <1>1, Zenon DEF Acquire, SendTypes, OneLock
<1>7. \A o \in Senders : task[o].lock # 0 => task[o].lock = entry
  BY <1>1 DEF OneLock
<1>8. \A o \in Senders : ~Inside(o)
  <2>1. ASSUME NEW o \in Senders, Inside(o)
        PROVE  task[o].lock = task[s].lock
    BY <1>1, <1>6, <1>7, <2>1, Zenon DEF OneLock
  <2>2. QED
    BY <2>1, Zenon DEF Acquire
<1>9. /\ buffers' = buffers \ {s} /\ UNCHANGED <<box, turns>>
      /\ entry' = entry /\ locks' = locks /\ entry' \in Nat /\ locks' \in Nat /\ entry' <= locks'
  BY <1>1, Zenon DEF Acquire, Buffered, SendTypes
<1>10. QED
  BY <1>2, <1>3, <1>4, <1>5, <1>6, <1>7, <1>8, <1>9, SenderMoves, Zenon

\* A send that ends in the middle reports so and lets go of its lock.
LEMMA EndsKeeps ==
  ASSUME SendInv, NEW s \in Senders, NEW r \in SendResults, Ends(s, r), Inside(s),
         Entering(s) => r = "unsubmitted", UNCHANGED <<box, turns, entry, locks>>,
         buffers' = buffers \ {s}
  PROVE  SendInv'
<1>1. Reported
  BY Zenon DEF SendInv
<1>2. ~Delivered(result[s])
  BY <1>1, Zenon DEF Reported, Inside
<1>3. task[s].pc \notin {"idle", "wait", "done"}
  BY DEF Inside
<1>4. /\ task' = [task EXCEPT ![s] = [pc |-> "done", lock |-> 0]]
      /\ result' = [result EXCEPT ![s] = r]
  BY Zenon DEF Ends
<1>5. "done" \in SendPcs
  BY Zenon DEF SendPcs
<1>6. QED
  BY <1>2, <1>3, <1>4, <1>5, SenderGoesOn, Zenon

\* A send that goes on inside the lock, without touching the pane.
LEMMA StepKeeps ==
  ASSUME SendInv, NEW s \in Senders, NEW p \in SendPcs, Step(s, p), Inside(s),
         p \notin {"idle", "wait", "done"}, Entering(s) => p \in {"enter", "again"},
         UNCHANGED <<result, box, turns, entry, locks>>,
         buffers' = IF p = "paste" THEN buffers \union {s} ELSE buffers \ {s}
  PROVE  SendInv'
<1>1. SendTypes /\ Reported
  BY Zenon DEF SendInv
<1>2. ~Delivered(result[s])
  BY <1>1, Zenon DEF Reported, Inside
<1>3. task[s].pc \notin {"idle", "wait", "done"}
  BY Zenon DEF Inside
<1>4. task' = [task EXCEPT ![s] = [pc |-> p, lock |-> task[s].lock]]
  BY <1>1, StepMoves
<1>5. result' = [result EXCEPT ![s] = result[s]] /\ result[s] \in SendResults
  BY <1>1, Zenon DEF SendTypes
<1>6. QED
  BY <1>2, <1>3, <1>4, <1>5, SenderGoesOn, Zenon

LEMMA ProbeKeeps ==
  ASSUME SendInv, NEW s \in Senders, Probe(s)
  PROVE  SendInv'
<1>1. Inside(s) /\ ~Entering(s)
  BY DEF Probe, Inside, Entering
<1>2. UNCHANGED <<box, turns, entry, locks>> /\ buffers' = buffers \ {s}
  BY DEF Probe, SendInv, Buffered
<1>3. "load" \in SendPcs /\ "no_agent" \in SendResults
  BY DEF SendPcs, SendResults
<1>4. CASE Step(s, "load") /\ result' = result
  BY <1>1, <1>2, <1>3, <1>4, StepKeeps, Zenon
<1>5. CASE Ends(s, "no_agent")
  BY <1>1, <1>2, <1>3, <1>5, EndsKeeps, Zenon
<1>6. QED
  BY <1>4, <1>5, Zenon DEF Probe

LEMMA LoadKeeps ==
  ASSUME SendInv, NEW s \in Senders, Load(s)
  PROVE  SendInv'
<1>1. Inside(s) /\ ~Entering(s)
  BY DEF Load, Inside, Entering
<1>2. UNCHANGED <<box, turns, entry, locks>> /\ buffers = buffers \ {s}
  BY Zenon DEF Load, SendInv, Buffered
<1>3. "paste" \in SendPcs /\ "not_delivered" \in SendResults
  BY DEF SendPcs, SendResults
<1>4. CASE buffers' = buffers \union {s} /\ Step(s, "paste") /\ result' = result
  BY <1>1, <1>2, <1>3, <1>4, StepKeeps, Zenon
<1>5. CASE buffers' = buffers /\ Ends(s, "not_delivered")
  BY <1>1, <1>2, <1>3, <1>5, EndsKeeps, Zenon
<1>6. QED
  BY <1>4, <1>5, Zenon DEF Load

LEMMA PasteKeeps ==
  ASSUME SendInv, NEW s \in Senders, Paste(s)
  PROVE  SendInv'
<1>1. Inside(s) /\ ~Entering(s)
  BY DEF Paste, Inside, Entering
<1>2. UNCHANGED <<turns, entry, locks>> /\ buffers' = buffers \ {s}
  BY DEF Paste
<1>3. "enter" \in SendPcs /\ "not_delivered" \in SendResults
  BY DEF SendPcs, SendResults
<1>4. CASE box' = box /\ Step(s, "enter") /\ result' = result
  BY <1>1, <1>2, <1>3, <1>4, StepKeeps, Zenon
<1>5. CASE box' = box /\ Ends(s, "not_delivered")
  BY <1>1, <1>2, <1>3, <1>5, EndsKeeps
<1>6. CASE box' = Append(box, s) /\ Step(s, "enter") /\ result' = result
  <2>1. SendTypes /\ OneLock /\ Reported
    BY DEF SendInv
  <2>2. BoxInv' /\ TurnsInv'
    BY <1>2, <1>6, TextPasted, Zenon DEF Paste, Step
  <2>3. task' = [task EXCEPT ![s] = [pc |-> "enter", lock |-> task[s].lock]]
    BY <1>3, <1>6, <2>1, StepMoves, Zenon
  <2>4. /\ task' \in [Senders -> [pc : SendPcs, lock : Nat]] /\ task'[s].pc = "enter"
        /\ \A o \in Senders : o # s => task'[o] = task[o]
        /\ \A o \in Senders : task'[o].lock = task[o].lock
    BY <1>3, <2>1, <2>3 DEF SendTypes
  <2>5. result' = [result EXCEPT ![s] = result[s]] /\ result[s] \in SendResults
    BY <1>6, <2>1 DEF SendTypes
  <2>6. ~Delivered(result[s])
    BY <1>1, <2>1 DEF Reported, Inside
  <2>7. entry' \in Nat /\ locks' \in Nat /\ entry' <= locks'
    BY <1>2, <2>1 DEF SendTypes
  <2>8. task'[s].lock # 0 /\ \A o \in Senders : o # s => ~Inside(o)
    BY <1>1, <2>1, <2>4, Zenon DEF OneLock
  <2>9. \A o \in Senders : task'[o].lock # 0 => task'[o].lock = entry'
    BY <1>2, <2>1, <2>4, Zenon DEF OneLock
  <2>10. SendTypes' /\ OneLock' /\ Reported' /\ Buffered'
    BY <1>2, <1>3, <2>4, <2>5, <2>6, <2>7, <2>8, <2>9, TaskMoves, Zenon
  <2>11. QED
    BY <2>2, <2>10 DEF SendInv
<1>7. QED
  BY <1>4, <1>5, <1>6, Zenon DEF Paste

LEMMA EnterKeeps ==
  ASSUME SendInv, NEW s \in Senders, Enter(s)
  PROVE  SendInv'
<1>1. Inside(s) /\ Entering(s)
  BY Zenon DEF Enter, Inside, Entering
<1>2. UNCHANGED <<entry, locks>> /\ buffers' = buffers \ {s}
  BY DEF Enter, SendInv, Buffered
<1>3. /\ "again" \in SendPcs /\ "done" \in SendPcs
      /\ "submitted" \in SendResults /\ "unsubmitted" \in SendResults
  BY Zenon DEF SendPcs, SendResults
<1>4. CASE Step(s, "again") /\ result' = result /\ UNCHANGED <<box, turns>>
  BY <1>1, <1>2, <1>3, <1>4, StepKeeps, Zenon
<1>5. CASE Ends(s, "unsubmitted") /\ UNCHANGED <<box, turns>>
  BY <1>1, <1>2, <1>3, <1>5, EndsKeeps, Zenon
<1>6. CASE Submits /\ Ends(s, "submitted")
  <2>1. SendTypes /\ OneLock /\ Reported
    BY DEF SendInv
  <2>2. /\ task' \in [Senders -> [pc : SendPcs, lock : Nat]] /\ task'[s].pc = "done"
        /\ task'[s].lock = 0
        /\ \A o \in Senders : o # s => task'[o] = task[o]
    BY <1>3, <1>6, <2>1, Zenon DEF Ends, SendTypes
  <2>3. /\ result' = [result EXCEPT ![s] = "submitted"] /\ result'[s] = "submitted"
        /\ \A o \in Senders : o # s => result'[o] = result[o]
    BY <1>6, <2>1, Zenon DEF Ends, SendTypes
  <2>4. ~Delivered(result[s])
    BY <1>1, <2>1 DEF Reported, Inside
  <2>5. Delivered("submitted")
    BY DEF Delivered
  <2>6. \A o \in Senders : result[o] = "unsubmitted" => result'[o] = "unsubmitted"
    BY <2>3, <2>4, Zenon DEF Delivered
  <2>7. Placed \subseteq Placed'
    <3>1. \A o \in Senders : o # s => (Entering(o)' <=> Entering(o))
      BY <2>2, Zenon DEF Entering
    <3>2. \A o \in Senders : o # s /\ Delivered(result[o]) => Delivered(result'[o])
      BY <2>3, Zenon
    <3>3. Delivered(result'[s])
      BY <2>3, <2>5, Zenon
    <3>4. QED
      BY <3>1, <3>2, <3>3, Zenon DEF Placed
  <2>8. BoxInv' /\ TurnsInv'
    BY <1>6, <2>6, <2>7, TextsSubmitted, Zenon
  <2>9. entry' \in Nat /\ locks' \in Nat /\ entry' <= locks'
    BY <1>2, <2>1 DEF SendTypes
  <2>10. ASSUME NEW o \in Senders, task'[o].lock # 0
         PROVE  task'[o].lock = entry'
    <3>1. task'[s].lock = 0 /\ (o # s => task'[o] = task[o])
      BY <2>2, Zenon
    <3>2. o # s
      BY <2>10, <3>1, Zenon
    <3>3. QED
      BY <1>2, <2>1, <2>10, <3>1, <3>2, Zenon DEF OneLock
  <2>11. SendTypes' /\ OneLock' /\ Reported' /\ Buffered'
    BY <1>2, <1>3, <2>2, <2>3, <2>9, <2>10, TaskMoves, Zenon
  <2>12. QED
    BY <2>8, <2>11 DEF SendInv
<1>7. QED
  BY <1>4, <1>5, <1>6, Zenon DEF Enter

LEMMA RetryKeeps ==
  ASSUME SendInv, NEW s \in Senders, Retry(s)
  PROVE  SendInv'
<1>1. /\ task' = [task EXCEPT ![s] = [pc |-> "idle", lock |-> 0]]
      /\ result' = [result EXCEPT ![s] = "none"] /\ ~Delivered(result[s])
      /\ UNCHANGED <<box, turns, entry, locks>>
  BY DEF Retry, NoSend, NoResult
<1>2. ~Entering(s) /\ ~Delivered("none") /\ "idle" \in SendPcs /\ "none" \in SendResults
  BY DEF Retry, Entering, Delivered, SendPcs, SendResults
<1>3. buffers' = buffers \ {s}
  BY DEF Retry, SendInv, Buffered
<1>4. QED
  BY <1>1, <1>2, <1>3, SenderGoesOn, Zenon

\* Steps of others than the senders: their tasks, the lock and the buffers stay.
LEMMA OthersKeep ==
  ASSUME SendInv, UNCHANGED <<task, result, entry, locks, buffers>>,
         \/ UNCHANGED <<box, turns>>
         \/ box' = <<>> /\ turns' = turns
         \/ Submits
  PROVE  SendInv'
<1>1. SendTypes /\ OneLock /\ Reported /\ Buffered /\ BoxInv /\ TurnsInv
  BY Zenon DEF SendInv
<1>2. SendTypes' /\ Buffered'
  BY <1>1 DEF SendTypes, Buffered
<1>3. \A o \in Senders : (Inside(o)' <=> Inside(o)) /\ (Entering(o)' <=> Entering(o))
  BY Zenon DEF Inside, Entering
<1>4. OneLock' /\ Reported'
  BY <1>1, <1>3, Zenon DEF OneLock, Reported
<1>5. Placed \subseteq Placed'
  BY <1>3, Zenon DEF Placed
<1>6. CASE UNCHANGED <<box, turns>>
  <2>1. BoxInv' /\ TurnsInv'
    BY <1>3, <1>6, TextsStay, Zenon
  <2>2. QED
    BY <1>2, <1>4, <2>1 DEF SendInv
<1>7. CASE box' = <<>> /\ turns' = turns
  <2>1. BoxInv'
    BY <1>7, SMTT(30) DEF BoxInv
  <2>2. TurnsInv'
    BY <1>1, <1>5, <1>7, TurnsStay, Zenon
  <2>3. QED
    BY <1>2, <1>4, <2>1, <2>2, Zenon DEF SendInv
<1>8. CASE Submits
  <2>1. BoxInv' /\ TurnsInv'
    BY <1>5, <1>8, TextsSubmitted, Zenon
  <2>2. QED
    BY <1>2, <1>4, <2>1 DEF SendInv
<1>9. QED
  BY <1>6, <1>7, <1>8

LEMMA SendInitInv == SendInit => SendInv
<1>1. SUFFICES ASSUME SendInit
               PROVE  SendInv
  OBVIOUS
<1>2. /\ \A s \in Senders : task[s] = NoSend /\ task[s].pc = "idle" /\ task[s].lock = 0
      /\ \A s \in Senders : result[s] = "none"
  BY <1>1, Zenon DEF SendInit, NoSend, NoResult
<1>3. SendTypes
  BY <1>1, SMTT(30) DEF SendInit, SendTypes, NoSend, NoResult, SendPcs, SendResults
<1>4. OneLock /\ Reported /\ Buffered
  BY <1>1, <1>2, Zenon DEF OneLock, Reported, Buffered, Inside, Delivered, SendInit
<1>5. BoxInv /\ TurnsInv
  BY <1>1 DEF SendInit, BoxInv, TurnsInv
<1>6. QED
  BY <1>3, <1>4, <1>5, Zenon DEF SendInv

LEMMA SendNextInv == SendInv /\ [SendNext]_sendVars => SendInv'
<1>1. SUFFICES ASSUME SendInv, [SendNext]_sendVars
               PROVE  SendInv'
  OBVIOUS
<1>2. ASSUME NEW s \in Senders, Run(s)
      PROVE  SendInv'
  BY <1>1, <1>2, LookupKeeps, AcquireKeeps, ProbeKeeps, LoadKeeps, PasteKeeps, EnterKeeps, Zenon DEF Run
<1>3. ASSUME NEW s \in Senders, Retry(s)
      PROVE  SendInv'
  BY <1>1, <1>3, RetryKeeps, Zenon
<1>4. ASSUME NEW s \in Senders, CallerGone(s)
      PROVE  SendInv'
  BY <1>1, <1>4, OthersKeep, Zenon DEF CallerGone
<1>5. CASE AgentExits
  BY <1>1, <1>5, OthersKeep, Zenon DEF AgentExits
<1>6. CASE AgentStarts
  BY <1>1, <1>6, OthersKeep, Zenon DEF AgentStarts
<1>7. CASE UserSubmits
  BY <1>1, <1>7, OthersKeep DEF UserSubmits
<1>8. CASE UNCHANGED sendVars
  BY <1>1, <1>8, OthersKeep DEF sendVars
<1>9. QED
  BY <1>1, <1>2, <1>3, <1>4, <1>5, <1>6, <1>7, <1>8, Zenon DEF SendNext

LEMMA SendInvOwnTurn ==
  ASSUME SendInv
  PROVE  OwnTurn
<1> DEFINE texts == Append(turns, box)
<1>1. BoxInv /\ TurnsInv /\ Buffered
  BY Zenon DEF SendInv
<1>2. /\ Len(turns) \in Nat /\ Len(texts) = Len(turns) + 1 /\ texts[Len(turns) + 1] = box
      /\ \A i \in 1..Len(turns) : texts[i] = turns[i]
  BY <1>1 DEF BoxInv, TurnsInv
<1>3. \A i \in 1..Len(turns) : Len(turns[i]) \in Nat
  <2>1. SUFFICES ASSUME NEW i \in 1..Len(turns)
                 PROVE  Len(turns[i]) \in Nat
    OBVIOUS
  <2>2. turns[i] \in Seq(Senders)
    BY <1>1, SMTT(30) DEF TurnsInv
  <2>3. QED
    BY <2>2
<1>4. ASSUME NEW i \in 1..Len(turns), NEW j \in 1..(Len(turns[i]) - 1)
      PROVE  result[turns[i][j]] = "unsubmitted"
  <2>1. j \in 1..Len(turns[i]) /\ j < Len(turns[i])
    BY <1>3, <1>4
  <2>2. TurnOf(i, j)
    BY <1>1, <2>1, Zenon DEF TurnsInv
  <2>3. QED
    BY <2>1, <2>2 DEF TurnOf
<1>5. \A i \in 1..Len(texts) : i \in 1..Len(turns) \/ i = Len(turns) + 1
  BY <1>2
<1> HIDE DEF texts
<1>6. ASSUME NEW i \in 1..Len(texts), NEW k \in 1..Len(texts),
             NEW j \in 1..Len(texts[i]), NEW l \in 1..Len(texts[k]), texts[i][j] = texts[k][l]
      PROVE  i = k /\ j = l
  <2>1. CASE i \in 1..Len(turns)
    <3>1. texts[i] = turns[i] /\ j \in 1..Len(turns[i])
      BY <1>2, <1>6, <2>1, Zenon
    <3>2. TurnOf(i, j)
      BY <1>1, <2>1, <3>1, Zenon DEF TurnsInv
    <3>3. CASE k \in 1..Len(turns)
      <4>1. texts[k] = turns[k] /\ l \in 1..Len(turns[k])
        BY <1>2, <1>6, <3>3, Zenon
      <4>2. turns[i][j] = turns[k][l]
        BY <1>6, <3>1, <4>1, Zenon
      <4>3. QED
        BY <3>2, <3>3, <4>1, <4>2, Zenon DEF TurnOf
    <3>4. CASE k = Len(turns) + 1
      <4>1. texts[k] = box /\ l \in 1..Len(box)
        BY <1>2, <1>6, <3>4, Zenon
      <4>2. turns[i][j] = box[l]
        BY <1>6, <3>1, <4>1, Zenon
      <4>3. QED
        BY <3>2, <4>1, <4>2, Zenon DEF TurnOf
    <3>5. QED
      BY <1>5, <3>3, <3>4, Zenon
  <2>2. CASE i = Len(turns) + 1 /\ k \in 1..Len(turns)
    <3>1. texts[k] = turns[k] /\ l \in 1..Len(turns[k])
      BY <1>2, <1>6, <2>2, Zenon
    <3>2. TurnOf(k, l)
      BY <1>1, <2>2, <3>1, Zenon DEF TurnsInv
    <3>3. texts[i] = box /\ j \in 1..Len(box)
      BY <1>2, <1>6, <2>2, Zenon
    <3>4. turns[k][l] = box[j]
      BY <1>6, <3>1, <3>3, Zenon
    <3>5. QED
      BY <3>2, <3>3, <3>4, Zenon DEF TurnOf
  <2>3. CASE i = Len(turns) + 1 /\ k = Len(turns) + 1
    BY <1>1, <1>2, <1>6, <2>3, Zenon DEF BoxInv
  <2>4. QED
    BY <1>5, <2>1, <2>2, <2>3, Zenon
<1> USE DEF texts
<1>7. buffers = {s \in Senders : task[s].pc = "paste"}
  BY <1>1 DEF Buffered
<1>8. QED
  BY <1>4, <1>6, <1>7, Zenon DEF OwnTurn

\* Whatever the number of senders, of repeated deliveries and of exits, and
\* whichever commands fail: a text shares its turn only with texts that were
\* reported as left unsubmitted, is in the pane once, and its buffer goes with the
\* paste (send_detached under cli_send_lock).
THEOREM TextsOwnTurn == SendSpec => []OwnTurn
<1>1. SendInit => SendInv
  BY SendInitInv
<1>2. SendInv /\ [SendNext]_sendVars => SendInv'
  BY SendNextInv
<1>3. SendInv => OwnTurn
  BY SendInvOwnTurn
<1>4. QED
  BY <1>1, <1>2, <1>3, PTL DEF SendSpec
=============================================================================
