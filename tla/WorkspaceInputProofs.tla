------------------------ MODULE WorkspaceInputProofs ------------------------
(***************************************************************************)
(* Proofs about the ledger and the notifications of an Input, for any      *)
(* number of requests, workers, clock ticks and lost ticks.                *)
(***************************************************************************)
EXTENDS WorkspaceInput, TLAPS, FiniteSetTheorems

Show == {Keep, Always, 1}
Status == {"none", "open", "answered", "closed", "cancelled"}
Party == {"agent", "owner", "system"}
Type == {"created", "version_published", "answer_submitted", "snoozed", "closed", "cancelled",
         "available"}
Ops == {"create", "publish", "snooze", "answer", "closed", "cancelled", "undo"}

InputRow == [status : Status, version : Nat, seq : Nat, show : Show, gen : Nat]
LedgerRow ==
  [seq : Nat, type : Type, by : Party, req : Requests \union {"none"}, seen : Nat,
   version : Nat, status : Status, prior : Status, prev : Nat]
AvailRow == [gen : Nat, available : BOOLEAN, finished : BOOLEAN, token : Nat, until : Nat]
Request == [op : Ops, by : Party, ask : BOOLEAN, show : Show, seq : Nat, version : Nat]
Claim == [pc : {"idle", "check", "notify", "finish"}, gen : Nat, token : Nat]

Types ==
  /\ input \in InputRow
  /\ ledger \in Seq(LedgerRow)
  /\ ledger = <<>> => input.status = "none"
  /\ avail \subseteq AvailRow
  /\ now \in Nat
  /\ req \in [Requests -> Request \union {NoReq}]
  /\ resp \in [Requests -> Int]
  /\ worker \in [Workers -> Claim]
  /\ ghost \in [shown : Seq(Nat), lapsed : SUBSET Nat, losses : Nat, token : Nat]

-----------------------------------------------------------------------------
(* The ledger. *)

\* LedgerIsExact without the size of a set: two events of a request are one.
LedgerInv ==
  /\ Types
  /\ input.seq = Len(ledger)
  /\ ledger # <<>> => input.status = LastEvent.status /\ input.version = LastEvent.version
  /\ \A k \in DOMAIN ledger :
       ledger[k].seq = k /\ ledger[k].prev = k - 1 /\ ledger[k].seen = k - 1
  /\ \A id \in Requests :
       /\ \A j, k \in Committed(id) : j = k
       /\ alive => \A k \in Committed(id) : resp[id] = ledger[k].seq

\* Updates of a row keep its type.
LEMMA RowUpdates ==
  /\ \A i \in InputRow : [i EXCEPT !.seq = @ + 1] \in InputRow
  /\ \A a \in AvailRow : /\ [a EXCEPT !.finished = TRUE] \in AvailRow
                         /\ [a EXCEPT !.available = TRUE] \in AvailRow
                         /\ [a EXCEPT !.finished = TRUE, !.token = 0, !.until = 0] \in AvailRow
<1>1. ASSUME NEW i \in InputRow PROVE [i EXCEPT !.seq = @ + 1] \in InputRow
  BY DEF InputRow
<1>2. ASSUME NEW a \in AvailRow PROVE [a EXCEPT !.finished = TRUE] \in AvailRow
  BY Zenon DEF AvailRow
<1>3. ASSUME NEW a \in AvailRow PROVE [a EXCEPT !.available = TRUE] \in AvailRow
  BY Zenon DEF AvailRow
<1>4. ASSUME NEW a \in AvailRow, NEW t \in Nat
      PROVE  [a EXCEPT !.finished = TRUE, !.token = t, !.until = t] \in AvailRow
  BY Zenon DEF AvailRow
<1>5. QED
  BY <1>1, <1>2, <1>3, <1>4, Zenon

\* The last event of a ledger that has one.
LEMMA LastIsRow ==
  ASSUME Types, ledger # <<>>
  PROVE  LastEvent \in LedgerRow
BY DEF Types, LastEvent

\* What a write that is not refused leaves in the projection and the ledger.
LEMMA WriteTypes ==
  ASSUME Types, NEW id \in Requests, req[id] # NoReq, ~Refused(req[id]), req[id].seq = input.seq
  PROVE  /\ After(req[id]) \in InputRow
         /\ Event(EventType(req[id]), req[id].by, id, req[id].seq, After(req[id])) \in LedgerRow
<1> DEFINE r == req[id]
<1>1. r \in Request
  BY DEF Types
<1>2. r.op = "undo" => ledger # <<>> /\ LastEvent \in LedgerRow
  <2>1. SUFFICES ASSUME r.op = "undo" PROVE ledger # <<>> /\ LastEvent \in LedgerRow
    OBVIOUS
  <2>2. input.status = "closed"
    BY <2>1 DEF Refused
  <2>3. ledger # <<>>
    BY <2>2 DEF Types
  <2>4. QED
    BY <2>3, LastIsRow
<1>3. NewStatus(r) \in Status
  BY <1>1, <1>2, Zenon DEF NewStatus, Types, Request, Ops, InputRow, Status, LedgerRow
<1>4. After(r) \in InputRow
  BY <1>1, <1>3 DEF After, Types, InputRow, Request
<1>5. EventType(r) \in Type
  BY <1>1 DEF EventType, Request, Ops, Type
<1>6. (IF ledger = <<>> THEN 0 ELSE LastEvent.seq) \in Nat
  BY LastIsRow DEF LedgerRow
<1>7. Event(EventType(r), r.by, id, r.seq, After(r)) \in LedgerRow
  BY <1>1, <1>4, <1>5, <1>6 DEF Event, LedgerRow, InputRow, Request, Types
<1>8. QED
  BY <1>4, <1>7

\* A write either leaves the rows as they are or adds an event.
LEMMA Appended ==
  ASSUME NEW S, NEW s \in Seq(S), NEW x \in S
  PROVE  Append(s, x) \in Seq(S) /\ Append(s, x) # <<>>
<1>1. Append(s, x) \in Seq(S) /\ Len(Append(s, x)) = Len(s) + 1 /\ Len(s) \in Nat
  OBVIOUS
<1>2. QED
  BY <1>1

LEMMA WriteCases ==
  ASSUME NEW id \in Requests, Write(id)
  PROVE  /\ req[id] # NoReq
         /\ UNCHANGED <<alive, now, req, worker, ghost>>
         /\ \/ UNCHANGED <<input, ledger, avail>>
            \/ /\ alive /\ req[id].seq = input.seq /\ ~Refused(req[id]) /\ Committed(id) = {}
               /\ input' = After(req[id])
               /\ ledger' = Append(ledger, Event(EventType(req[id]), req[id].by, id, req[id].seq,
                                                After(req[id])))
               /\ avail' = Settled(req[id]) \union
                    (IF NewGeneration(req[id]) /\ After(req[id]).status = "open"
                     THEN {Row(After(req[id]).seq, After(req[id]).show <= now)} ELSE {})
BY DEF Write

LEMMA TypesInit == Init => Types
BY DEF Init, Types, NoInput, NoReq, Idle, InputRow, Status, Claim, Show

\* Every step keeps the types.
LEMMA TypesStep ==
  ASSUME ClaimTime \in Nat, Types, Next
  PROVE  Types'
<1>t. /\ input \in InputRow /\ ledger \in Seq(LedgerRow) /\ avail \subseteq AvailRow
      /\ now \in Nat /\ worker \in [Workers -> Claim]
      /\ req \in [Requests -> Request \union {NoReq}] /\ resp \in [Requests -> Int]
  BY DEF Types
<1>g. ghost \in [shown : Seq(Nat), lapsed : SUBSET Nat, losses : Nat, token : Nat]
  BY DEF Types
<1>1. ASSUME NEW id \in Requests, NEW body \in Body, Compose(id, body)
      PROVE  Types'
  <2>1. body.op \in Ops /\ body.by \in Party /\ body.ask \in BOOLEAN /\ body.show \in Show
    <3>1. body.op \in Ops
      BY Zenon DEF Body, Ops
    <3>2. body.by \in Party
      BY Zenon DEF Body, Party
    <3>3. body.ask \in BOOLEAN
      BY Zenon DEF Body
    <3>4. body.show \in Show
      BY Zenon DEF Body, Show
    <3>5. QED
      BY <3>1, <3>2, <3>3, <3>4
  <2>2. input.seq \in Nat /\ input.version \in Nat
    BY <1>t DEF InputRow
  <2>3. [op |-> body.op, by |-> body.by, ask |-> body.ask, show |-> body.show,
         seq |-> input.seq, version |-> input.version] \in Request
    BY <2>1, <2>2 DEF Request
  <2>4. req' \in [Requests -> Request \union {NoReq}]
    BY <1>1, <1>t, <2>3 DEF Compose
  <2>5. QED
    BY <1>1, <2>4 DEF Compose, Types
<1>2. ASSUME NEW id \in Requests, Write(id)
      PROVE  Types'
  <2> DEFINE e == Event(EventType(req[id]), req[id].by, id, req[id].seq, After(req[id]))
  <2>1. resp' \in [Requests -> Int]
    <3>1. \A k \in DOMAIN ledger : ledger[k] \in LedgerRow
      BY <1>t
    <3>2. \A k \in Committed(id) : ledger[k].seq \in Int
      BY <3>1 DEF Committed, LedgerRow
    <3>3. (CHOOSE k \in Committed(id) : TRUE) \in Committed(id) \/ Committed(id) = {}
      OBVIOUS
    <3>4. After(req[id]).seq \in Int
      BY <1>t DEF After, InputRow
    <3>5. QED
      BY <1>2, <1>t, <3>2, <3>3, <3>4 DEF Write
  <2>2. CASE UNCHANGED <<input, ledger, avail>>
    BY <1>2, <2>1, <2>2, WriteCases DEF Types
  <2>3. CASE ~UNCHANGED <<input, ledger, avail>>
    <3>1. /\ req[id] # NoReq /\ req[id].seq = input.seq /\ ~Refused(req[id])
          /\ input' = After(req[id]) /\ ledger' = Append(ledger, e)
          /\ UNCHANGED <<now, req, worker, ghost>>
          /\ avail' = Settled(req[id]) \union
               (IF NewGeneration(req[id]) /\ After(req[id]).status = "open"
                THEN {Row(After(req[id]).seq, After(req[id]).show <= now)} ELSE {})
      BY <1>2, <2>3, WriteCases
    <3>2. input' \in InputRow /\ e \in LedgerRow
      BY <3>1, WriteTypes
    <3>3. ledger' \in Seq(LedgerRow) /\ ledger' # <<>>
      BY <1>t, <3>1, <3>2, Appended, Zenon
    <3>4. avail' \subseteq AvailRow
      <4>1. Settled(req[id]) \subseteq AvailRow
        BY <1>t, Zenon DEF Settled, AvailRow
      <4>2. Row(After(req[id]).seq, After(req[id]).show <= now) \in AvailRow
        BY <3>1, <3>2 DEF Row, AvailRow, InputRow
      <4>3. QED
        BY <3>1, <4>1, <4>2
    <3>5. QED
      BY <2>1, <3>1, <3>2, <3>3, <3>4 DEF Types
  <2>4. QED
    BY <2>2, <2>3
<1>3. CASE DeleteWorkspace
  BY <1>3 DEF DeleteWorkspace, Types
<1>4. CASE Clock
  BY <1>4 DEF Clock, Types
<1>5. ASSUME NEW w \in Workers, ReleaseDue(w)
      PROVE  Types'
  <2> DEFINE i == [input EXCEPT !.seq = @ + 1]
             e == Event("available", "system", "none", input.seq, i)
  <2>0. input.seq \in Nat /\ input.status \in Status
    BY <1>t DEF InputRow
  <2>1. i \in InputRow
    BY <1>t, RowUpdates, Zenon
  <2>2. (IF ledger = <<>> THEN 0 ELSE LastEvent.seq) \in Nat
    BY LastIsRow DEF LedgerRow
  <2>3. e \in LedgerRow
    BY <2>0, <2>1, <2>2 DEF Event, LedgerRow, InputRow, Type, Party
  <2>4. ledger' = Append(ledger, e) /\ input' = i
    BY <1>5 DEF ReleaseDue
  <2>5. ledger' \in Seq(LedgerRow) /\ ledger' # <<>>
    BY <1>t, <2>3, <2>4
  <2>6. avail' \subseteq AvailRow
    BY <1>5, <1>t, Zenon DEF ReleaseDue, AvailRow
  <2>7. QED
    BY <1>5, <2>1, <2>4, <2>5, <2>6 DEF ReleaseDue, Types
<1>6. ASSUME NEW w \in Workers, NEW a \in avail, ClaimNotification(w, a)
      PROVE  Types'
  <2>1. ghost.token + 1 \in Nat /\ now + ClaimTime \in Nat /\ a \in AvailRow /\ a.gen \in Nat
    BY <1>t, <1>g DEF AvailRow
  <2>2. [a EXCEPT !.token = ghost.token + 1, !.until = now + ClaimTime] \in AvailRow
    BY <2>1, Zenon DEF AvailRow
  <2>3. avail' \subseteq AvailRow
    BY <1>6, <1>t, <2>2 DEF ClaimNotification
  <2>4. worker' \in [Workers -> Claim]
    BY <1>6, <1>t, <2>1 DEF ClaimNotification, Claim
  <2>5. ghost' \in [shown : Seq(Nat), lapsed : SUBSET Nat, losses : Nat, token : Nat]
    <3>1. (IF a.token # 0 /\ a.until <= now THEN ghost.lapsed \union {a.gen} ELSE ghost.lapsed)
            \in SUBSET Nat
      BY <1>g, <2>1
    <3>2. QED
      BY <1>6, <1>g, <2>1, <3>1, Zenon DEF ClaimNotification
  <2>6. QED
    BY <1>6, <2>3, <2>4, <2>5 DEF ClaimNotification, Types
<1>7. ASSUME NEW w \in Workers, NotificationIsCurrent(w)
      PROVE  Types'
  <2>1. worker' \in [Workers -> Claim]
    BY <1>7, <1>t, ZenonT(30) DEF NotificationIsCurrent, Claim
  <2>2. QED
    BY <1>7, <2>1 DEF NotificationIsCurrent, Types
<1>8. ASSUME NEW w \in Workers, Notify(w)
      PROVE  Types'
  <2>1. worker[w].gen \in Nat /\ worker' \in [Workers -> Claim]
    BY <1>8, <1>t, Zenon DEF Notify, Claim
  <2>2. Append(ghost.shown, worker[w].gen) \in Seq(Nat)
    BY <1>g, <2>1
  <2>3. ghost' \in [shown : Seq(Nat), lapsed : SUBSET Nat, losses : Nat, token : Nat]
    BY <1>8, <1>g, <2>2, Zenon DEF Notify
  <2>4. QED
    BY <1>8, <2>1, <2>3, Zenon DEF Notify, Types
<1>9. ASSUME NEW w \in Workers, FinishNotification(w)
      PROVE  Types'
  <2>1. worker' \in [Workers -> Claim]
    BY <1>9, <1>t, Zenon DEF FinishNotification, Claim, Idle
  <2>2. avail' \subseteq AvailRow
    BY <1>9, <1>t, RowUpdates, Zenon DEF FinishNotification
  <2>3. QED
    BY <1>9, <2>1, <2>2, Zenon DEF FinishNotification, Types
<1>10. ASSUME NEW w \in Workers, TickLost(w)
       PROVE  Types'
  <2>1. worker' \in [Workers -> Claim]
    BY <1>10, <1>t DEF TickLost, Claim, Idle
  <2>2. ghost' \in [shown : Seq(Nat), lapsed : SUBSET Nat, losses : Nat, token : Nat]
    <3>1. ghost.losses + 1 \in Nat
      BY <1>g
    <3>2. ghost' = [ghost EXCEPT !.losses = ghost.losses + 1]
      BY <1>10 DEF TickLost
    <3>3. QED
      BY <1>g, <3>1, <3>2, Zenon
  <2>3. QED
    BY <1>10, <2>1, <2>2, Zenon DEF TickLost, Types
<1>11. QED
  BY <1>1, <1>2, <1>3, <1>4, <1>5, <1>6, <1>7, <1>8, <1>9, <1>10 DEF Next, Tick

\* An event with the next number keeps the chain of the ledger.
LEMMA AppendEvent ==
  ASSUME LedgerInv, NEW e \in LedgerRow, ledger' = Append(ledger, e),
         input'.seq = input.seq + 1, input'.status = e.status, input'.version = e.version,
         e.seq = input.seq + 1, e.prev = input.seq, e.seen = input.seq
  PROVE  /\ input'.seq = Len(ledger')
         /\ LastEvent' = e
         /\ \A k \in DOMAIN ledger' :
              ledger'[k].seq = k /\ ledger'[k].prev = k - 1 /\ ledger'[k].seen = k - 1
         /\ \A id : Committed(id)' = IF e.req = id THEN Committed(id) \union {Len(ledger')}
                                     ELSE Committed(id)
         /\ \A k \in DOMAIN ledger : ledger'[k] = ledger[k] /\ k # Len(ledger')
<1>1. ledger \in Seq(LedgerRow) /\ input.seq = Len(ledger) /\ Len(ledger) \in Nat
  BY DEF LedgerInv, Types
<1>2. /\ Len(ledger') = Len(ledger) + 1 /\ DOMAIN ledger' = 1..(Len(ledger) + 1)
      /\ DOMAIN ledger = 1..Len(ledger)
      /\ ledger'[Len(ledger) + 1] = e
      /\ \A k \in 1..Len(ledger) : ledger'[k] = ledger[k]
  BY <1>1
<1>3. LastEvent' = e
  BY <1>2 DEF LastEvent
<1>4. \A k \in DOMAIN ledger' :
        ledger'[k].seq = k /\ ledger'[k].prev = k - 1 /\ ledger'[k].seen = k - 1
  <2>1. \A k \in DOMAIN ledger :
          ledger[k].seq = k /\ ledger[k].prev = k - 1 /\ ledger[k].seen = k - 1
    BY DEF LedgerInv
  <2>2. QED
    BY <1>1, <1>2, <2>1
<1>5. \A k \in DOMAIN ledger : ledger'[k] = ledger[k] /\ k # Len(ledger')
  BY <1>1, <1>2
<1>6. ASSUME NEW id
      PROVE  Committed(id)' = IF e.req = id THEN Committed(id) \union {Len(ledger')}
                              ELSE Committed(id)
  BY <1>1, <1>2 DEF Committed
<1>7. QED
  BY <1>1, <1>2, <1>3, <1>4, <1>5, <1>6

\* Every step keeps the ledger exact.
LEMMA LedgerStep ==
  ASSUME "none" \notin Requests, ClaimTime \in Nat, LedgerInv, [Next]_vars
  PROVE  LedgerInv'
<1>t. Types'
  <2>1. CASE Next
    BY <2>1, TypesStep DEF LedgerInv
  <2>2. CASE UNCHANGED vars
    BY <2>2 DEF LedgerInv, Types, vars
  <2>3. QED
    BY <2>1, <2>2
<1>u. ASSUME UNCHANGED <<input, ledger, resp>>, alive' => alive
      PROVE  LedgerInv'
  <2>1. LastEvent' = LastEvent /\ \A id : Committed(id)' = Committed(id)
    BY <1>u DEF LastEvent, Committed
  <2>2. QED
    BY <1>t, <1>u, <2>1 DEF LedgerInv
<1>1. ASSUME NEW id \in Requests, NEW body \in Body, Compose(id, body)
      PROVE  LedgerInv'
  BY <1>1, <1>u DEF Compose
<1>2. ASSUME NEW id \in Requests, Write(id)
      PROVE  LedgerInv'
  <2> DEFINE r == req[id]
             i == After(r)
             e == Event(EventType(r), r.by, id, r.seq, i)
  <2>0. /\ \A rid \in Requests : \A j, k \in Committed(rid) : j = k
        /\ alive => \A rid \in Requests : \A k \in Committed(rid) : resp[rid] = ledger[k].seq
        /\ resp \in [Requests -> Int]
    BY DEF LedgerInv, Types
  <2>1. CASE UNCHANGED <<input, ledger, avail>>
    <3>1. LastEvent' = LastEvent /\ \A rid : Committed(rid)' = Committed(rid)
      BY <2>1 DEF LastEvent, Committed
    <3>2. alive => \A rid \in Requests : \A k \in Committed(rid) : resp'[rid] = ledger[k].seq
      <4>1. ASSUME alive, NEW rid \in Requests, NEW k \in Committed(rid)
            PROVE  resp'[rid] = ledger[k].seq
        <5>1. CASE rid = id
          <6>1. (CHOOSE j \in Committed(id) : TRUE) = k
            BY <2>0, <4>1, <5>1
          <6>2. QED
            BY <1>2, <2>0, <4>1, <5>1, <6>1 DEF Write
        <5>2. CASE rid # id
          BY <1>2, <2>0, <4>1, <5>2, Zenon DEF Write
        <5>3. QED
          BY <5>1, <5>2
      <4>2. QED
        BY <4>1
    <3>3. QED
      BY <1>2, <1>t, <2>1, <3>1, <3>2, WriteCases DEF LedgerInv
  <2>2. CASE ~UNCHANGED <<input, ledger, avail>>
    <3>1. /\ r # NoReq /\ r.seq = input.seq /\ ~Refused(r) /\ alive /\ Committed(id) = {}
          /\ input' = i /\ ledger' = Append(ledger, e) /\ alive' = alive
      BY <1>2, <2>2, WriteCases
    <3>2. e \in LedgerRow /\ i \in InputRow
      BY <3>1, WriteTypes DEF LedgerInv
    <3>3. /\ i.seq = input.seq + 1 /\ e.seq = i.seq /\ e.status = i.status
          /\ e.version = i.version /\ e.seen = input.seq /\ e.req = id
      BY <3>1, Zenon DEF After, Event
    <3>4. e.prev = input.seq
      <4>1. CASE ledger = <<>>
        BY <4>1 DEF Event, LedgerInv
      <4>2. CASE ledger # <<>>
        BY <4>2 DEF Event, LedgerInv, Types, LastEvent
      <4>3. QED
        BY <4>1, <4>2
    <3> HIDE DEF e, i
    <3>5. /\ input'.seq = Len(ledger')
          /\ LastEvent' = e
          /\ \A k \in DOMAIN ledger' :
               ledger'[k].seq = k /\ ledger'[k].prev = k - 1 /\ ledger'[k].seen = k - 1
          /\ \A rid : Committed(rid)' = IF e.req = rid THEN Committed(rid) \union {Len(ledger')}
                                        ELSE Committed(rid)
          /\ \A k \in DOMAIN ledger : ledger'[k] = ledger[k] /\ k # Len(ledger')
      BY <3>1, <3>2, <3>3, <3>4, AppendEvent
    <3>6. Committed(id)' = {Len(ledger')}
      BY <3>1, <3>3, <3>5
    <3>7. \A rid \in Requests \ {id} : Committed(rid)' = Committed(rid)
      BY <3>3, <3>5
    <3>8. \A rid \in Requests : \A j, k \in Committed(rid)' : j = k
      BY <2>0, <3>6, <3>7
    <3>9. ASSUME NEW rid \in Requests, NEW k \in Committed(rid)'
          PROVE  resp'[rid] = ledger'[k].seq
      <4>1. CASE rid = id
        <5>1. resp'[id] = i.seq
          BY <1>2, <2>0, <3>1 DEF Write, i
        <5>2. k = Len(ledger') /\ k \in DOMAIN ledger'
          BY <3>6, <4>1 DEF Committed
        <5>3. QED
          BY <3>1, <3>5, <4>1, <5>1, <5>2
      <4>2. CASE rid # id
        <5>1. k \in Committed(rid) /\ k \in DOMAIN ledger
          BY <3>7, <4>2 DEF Committed
        <5>2. resp'[rid] = resp[rid]
          BY <1>2, <2>0, <4>2 DEF Write
        <5>3. QED
          BY <2>0, <3>1, <3>5, <5>1, <5>2
      <4>3. QED
        BY <4>1, <4>2, Zenon
    <3>10. input'.status = LastEvent'.status /\ input'.version = LastEvent'.version
      BY <3>1, <3>3, <3>5
    <3>11. QED
      BY <1>t, <3>5, <3>8, <3>9, <3>10 DEF LedgerInv
  <2>3. QED
    BY <2>1, <2>2
<1>3. CASE DeleteWorkspace
  BY <1>3, <1>u DEF DeleteWorkspace
<1>4. CASE Clock
  BY <1>4, <1>u DEF Clock
<1>5. ASSUME NEW w \in Workers, ReleaseDue(w)
      PROVE  LedgerInv'
  <2> DEFINE i == [input EXCEPT !.seq = @ + 1]
             e == Event("available", "system", "none", input.seq, i)
  <2>1. input' = i /\ ledger' = Append(ledger, e) /\ UNCHANGED <<alive, resp>>
    BY <1>5 DEF ReleaseDue
  <2>2. input \in InputRow /\ ledger \in Seq(LedgerRow) /\ input.seq = Len(ledger)
    BY DEF LedgerInv, Types
  <2>3. i \in InputRow /\ i.seq = input.seq + 1
    BY <2>2, RowUpdates, Zenon DEF InputRow
  <2>4. /\ e.seq = i.seq /\ e.status = i.status /\ e.version = i.version
        /\ e.seen = input.seq /\ e.req = "none"
    BY DEF Event
  <2>5. e.prev = input.seq
    <3>1. CASE ledger = <<>>
      BY <2>2, <3>1 DEF Event
    <3>2. CASE ledger # <<>>
      BY <2>2, <3>2 DEF Event, LedgerInv, LastEvent
    <3>3. QED
      BY <3>1, <3>2
  <2>6. e \in LedgerRow
    <3>1. (IF ledger = <<>> THEN 0 ELSE LastEvent.seq) \in Nat
      BY LastIsRow DEF LedgerRow, LedgerInv
    <3>2. input.seq \in Nat /\ input.status \in Status
      BY <2>2, Zenon DEF InputRow
    <3>3. QED
      BY <2>3, <3>1, <3>2 DEF Event, LedgerRow, InputRow, Type, Party
  <2> HIDE DEF e, i
  <2>7. /\ input'.seq = Len(ledger')
        /\ LastEvent' = e
        /\ \A k \in DOMAIN ledger' :
             ledger'[k].seq = k /\ ledger'[k].prev = k - 1 /\ ledger'[k].seen = k - 1
        /\ \A rid : Committed(rid)' = IF e.req = rid THEN Committed(rid) \union {Len(ledger')}
                                      ELSE Committed(rid)
        /\ \A k \in DOMAIN ledger : ledger'[k] = ledger[k] /\ k # Len(ledger')
    BY <2>1, <2>3, <2>4, <2>5, <2>6, AppendEvent
  <2>8. \A rid \in Requests : Committed(rid)' = Committed(rid)
    BY <2>4, <2>7
  <2>9. \A rid \in Requests : Committed(rid) \subseteq DOMAIN ledger
    BY DEF Committed
  <2>10. \A rid \in Requests :
           /\ \A j, k \in Committed(rid)' : j = k
           /\ alive' => \A k \in Committed(rid)' : resp'[rid] = ledger'[k].seq
    BY <2>1, <2>7, <2>8, <2>9 DEF LedgerInv
  <2>11. QED
    BY <1>t, <2>1, <2>4, <2>7, <2>10, Zenon DEF LedgerInv
<1>6. ASSUME NEW w \in Workers, NEW a \in avail, ClaimNotification(w, a)
      PROVE  LedgerInv'
  BY <1>6, <1>u DEF ClaimNotification
<1>7. ASSUME NEW w \in Workers, NotificationIsCurrent(w)
      PROVE  LedgerInv'
  BY <1>7, <1>u DEF NotificationIsCurrent
<1>8. ASSUME NEW w \in Workers, Notify(w)
      PROVE  LedgerInv'
  BY <1>8, <1>u DEF Notify
<1>9. ASSUME NEW w \in Workers, FinishNotification(w)
      PROVE  LedgerInv'
  BY <1>9, <1>u, Zenon DEF FinishNotification
<1>10. ASSUME NEW w \in Workers, TickLost(w)
       PROVE  LedgerInv'
  BY <1>10, <1>u DEF TickLost
<1>11. CASE UNCHANGED vars
  BY <1>11, <1>u DEF vars
<1>12. QED
  BY <1>1, <1>2, <1>3, <1>4, <1>5, <1>6, <1>7, <1>8, <1>9, <1>10, <1>11 DEF Next, Tick

\* A set whose elements are all equal has at most one.
LEMMA AtMostOne ==
  ASSUME NEW S, \A j, k \in S : j = k
  PROVE  Cardinality(S) <= 1
<1>1. CASE S = {}
  BY <1>1, FS_EmptySet
<1>2. CASE S # {}
  <2>1. PICK x \in S : TRUE
    BY <1>2
  <2>2. S = {x}
    BY <2>1
  <2>3. QED
    BY <2>2, FS_Singleton
<1>3. QED
  BY <1>1, <1>2

LEMMA LedgerInvImplies == LedgerInv => LedgerIsExact
<1>1. SUFFICES ASSUME LedgerInv PROVE LedgerIsExact
  OBVIOUS
<1>2. \A id \in Requests : Cardinality(Committed(id)) <= 1
  BY <1>1, AtMostOne DEF LedgerInv
<1>3. QED
  BY <1>1, <1>2 DEF LedgerInv, LedgerIsExact

\* WorkspaceInput::write and release_due keep the ledger exact: no gap, the
\* projection of the last event, nothing written over an event that its author
\* had not seen, and one event and one receipt for a request however often it
\* is sent.
THEOREM LedgerExact ==
  ASSUME "none" \notin Requests, ClaimTime \in Nat
  PROVE  Spec => []LedgerIsExact
<1>1. Init => LedgerInv
  <2>1. SUFFICES ASSUME Init PROVE LedgerInv
    OBVIOUS
  <2>2. Types
    BY <2>1, TypesInit
  <2>3. ledger = <<>> /\ input.seq = 0
    BY <2>1 DEF Init, NoInput
  <2>4. DOMAIN ledger = {} /\ Len(ledger) = 0
    BY <2>3
  <2>5. QED
    BY <2>2, <2>3, <2>4 DEF LedgerInv, Committed
<1>2. LedgerInv /\ [Next]_vars => LedgerInv'
  BY LedgerStep
<1>3. QED
  BY <1>1, <1>2, LedgerInvImplies, PTL DEF Spec

-----------------------------------------------------------------------------
(* The notifications. *)

Works(w) == worker[w].pc # "idle"
Shown(g) == \E j \in DOMAIN ghost.shown : ghost.shown[j] = g

\* Generations are sequence numbers that have been given out.
GenerationsGiven ==
  /\ \A a \in avail : a.gen <= input.seq
  /\ \A w \in Workers : Works(w) => worker[w].gen <= input.seq
  /\ \A j \in DOMAIN ghost.shown : ghost.shown[j] <= input.seq

RowPerGeneration == \A a, b \in avail : a.gen = b.gen => a = b

\* Nobody has claimed a row that has no token and is not finished.
UnclaimedIsNew ==
  \A a \in avail : a.token = 0 /\ ~a.finished =>
    ~Shown(a.gen) /\ \A w \in Workers : Works(w) => worker[w].gen # a.gen

\* Until a claim on it runs out, one worker at most has a generation, and has
\* not shown it before it says so.
ClaimedOnce ==
  \A w \in Workers : Works(w) /\ worker[w].gen \notin ghost.lapsed =>
    /\ worker[w].pc # "finish" => ~Shown(worker[w].gen)
    /\ \A v \in Workers : Works(v) /\ worker[v].gen = worker[w].gen => v = w

OpenRows == \A a \in avail : ~a.finished => a.gen = input.gen /\ input.status = "open"

ShownOnce ==
  \A j, k \in DOMAIN ghost.shown :
    ghost.shown[j] = ghost.shown[k] /\ j # k => ghost.shown[j] \in ghost.lapsed

NoticeInv ==
  /\ Types
  /\ OpenRows /\ ShownOnce
  /\ GenerationsGiven
  /\ RowPerGeneration
  /\ UnclaimedIsNew
  /\ ClaimedOnce

\* A committed write gives a new generation the next sequence number, and
\* leaves no unfinished row of an older one.
LEMMA NoticeWrite ==
  ASSUME ClaimTime \in Nat, NoticeInv, Types', NEW id \in Requests, Write(id)
  PROVE  NoticeInv'
<1> DEFINE r == req[id]
           i == After(r)
           new == Row(i.seq, i.show <= now)
<1>1. CASE UNCHANGED <<input, ledger, avail>>
  BY <1>1, WriteCases
     DEF NoticeInv, OpenRows, ShownOnce, GenerationsGiven, RowPerGeneration, UnclaimedIsNew,
         ClaimedOnce, Works, Shown
<1>2. CASE ~UNCHANGED <<input, ledger, avail>>
  <2>1. /\ input' = i
        /\ avail' = Settled(r) \union
             (IF NewGeneration(r) /\ i.status = "open" THEN {new} ELSE {})
        /\ UNCHANGED <<worker, ghost>>
    BY <1>2, WriteCases
  <2>2. /\ avail \subseteq AvailRow /\ input \in InputRow /\ worker \in [Workers -> Claim]
        /\ ghost.shown \in Seq(Nat)
    BY DEF NoticeInv, Types
  <2>3. /\ i.seq = input.seq + 1 /\ input.seq \in Nat
        /\ i.gen = IF NewGeneration(r) THEN input.seq + 1 ELSE input.gen
    BY <2>2 DEF After, InputRow
  <2>4. new.gen = i.seq /\ new.token = 0 /\ ~new.finished
    BY DEF Row
  <2>5. ASSUME NEW b \in Settled(r)
        PROVE  \E a \in avail : /\ b.gen = a.gen /\ b.token = a.token
                                /\ ~b.finished => b = a /\ ~NewGeneration(r) /\ i.status = "open"
                                /\ \A c \in Settled(r) : c.gen = b.gen => c = b
    <3>1. CASE NewGeneration(r) \/ i.status # "open"
      <4>1. Settled(r) = {[a EXCEPT !.finished = TRUE] : a \in avail}
        BY <3>1 DEF Settled
      <4>2. \A a \in avail : /\ [a EXCEPT !.finished = TRUE].gen = a.gen
                             /\ [a EXCEPT !.finished = TRUE].token = a.token
                             /\ [a EXCEPT !.finished = TRUE].finished
        BY <2>2 DEF AvailRow
      <4>3. PICK a \in avail : b = [a EXCEPT !.finished = TRUE]
        BY <4>1, <2>5
      <4>4. ASSUME NEW c \in Settled(r), c.gen = b.gen
            PROVE  c = b
        <5>1. PICK d \in avail : c = [d EXCEPT !.finished = TRUE]
          BY <4>1
        <5>2. d = a
          BY <4>2, <4>3, <4>4, <5>1 DEF NoticeInv, RowPerGeneration
        <5>3. QED
          BY <4>3, <5>1, <5>2
      <4>5. QED
        BY <4>2, <4>3, <4>4
    <3>2. CASE ~NewGeneration(r) /\ i.status = "open"
      BY <2>5, <3>2 DEF Settled, NoticeInv, RowPerGeneration
    <3>3. QED
      BY <3>1, <3>2
  <2> HIDE DEF i, new
  <2>6. \A b \in avail' : b \in Settled(r) \/ (b = new /\ NewGeneration(r) /\ i.status = "open")
    BY <2>1, Zenon
  <2>7. OpenRows'
    BY <2>1, <2>3, <2>4, <2>5, <2>6 DEF NoticeInv, OpenRows
  <2>8. ShownOnce' /\ ClaimedOnce'
    BY <2>1 DEF NoticeInv, ShownOnce, ClaimedOnce, Works, Shown
  <2>9. \A a \in avail : a.gen \in Nat
    BY <2>2 DEF AvailRow
  <2>10. \A b \in Settled(r) : b.gen <= input.seq /\ b.gen \in Nat
    BY <2>5, <2>9 DEF NoticeInv, GenerationsGiven
  <2>11. \A w \in Workers : worker[w].gen \in Nat
    BY <2>2 DEF Claim
  <2>12. \A j \in DOMAIN ghost.shown : ghost.shown[j] \in Nat
    BY <2>2
  <2>13. GenerationsGiven'
    <3>1. \A b \in avail' : b.gen <= input'.seq
      BY <2>1, <2>3, <2>4, <2>6, <2>10
    <3>2. \A w \in Workers : Works(w)' => worker'[w].gen <= input'.seq
      BY <2>1, <2>3, <2>11 DEF NoticeInv, GenerationsGiven, Works
    <3>3. \A j \in DOMAIN ghost'.shown : ghost'.shown[j] <= input'.seq
      BY <2>1, <2>3, <2>12 DEF NoticeInv, GenerationsGiven
    <3>4. QED
      BY <3>1, <3>2, <3>3 DEF GenerationsGiven
  <2>14. RowPerGeneration'
    <3>1. \A b \in Settled(r) : b.gen # new.gen
      BY <2>3, <2>4, <2>10
    <3>2. QED
      BY <2>5, <2>6, <3>1 DEF RowPerGeneration
  <2>15. UnclaimedIsNew'
    <3>1. \A g : Shown(g)' = Shown(g)
      BY <2>1 DEF Shown
    <3>2. \A w \in Workers : Works(w)' = Works(w)
      BY <2>1 DEF Works
    <3>3. ~Shown(new.gen) /\ \A w \in Workers : Works(w) => worker[w].gen # new.gen
      BY <2>3, <2>4, <2>11, <2>12 DEF NoticeInv, GenerationsGiven, Shown
    <3>4. \A b \in Settled(r) : b.token = 0 /\ ~b.finished =>
            ~Shown(b.gen) /\ \A w \in Workers : Works(w) => worker[w].gen # b.gen
      BY <2>5 DEF NoticeInv, UnclaimedIsNew
    <3>5. QED
      BY <2>1, <2>6, <3>1, <3>2, <3>3, <3>4 DEF UnclaimedIsNew
  <2>16. QED
    BY <2>7, <2>8, <2>13, <2>14, <2>15, Zenon DEF NoticeInv
<1>3. QED
  BY <1>1, <1>2, Zenon

\* A claim on a row that nobody had is the only one; a claim over another one
\* puts the generation among the lapsed.
LEMMA NoticeClaim ==
  ASSUME ClaimTime \in Nat, NoticeInv, Types', NEW w \in Workers, NEW a \in avail,
         ClaimNotification(w, a)
  PROVE  NoticeInv'
<1> DEFINE t == ghost.token + 1
           c == [a EXCEPT !.token = t, !.until = now + ClaimTime]
<1>1. /\ avail \subseteq AvailRow /\ worker \in [Workers -> Claim] /\ now \in Nat
      /\ ghost \in [shown : Seq(Nat), lapsed : SUBSET Nat, losses : Nat, token : Nat]
  BY DEF NoticeInv, Types
<1>2. /\ avail' = (avail \ {a}) \union {c} /\ input' = input
      /\ worker' = [worker EXCEPT ![w] = [pc |-> "check", gen |-> a.gen, token |-> t]]
      /\ Live(a) /\ a.until <= now
  BY DEF ClaimNotification, Claimable
<1>3. /\ ghost'.shown = ghost.shown
      /\ ghost'.lapsed = IF a.token # 0 /\ a.until <= now
                         THEN ghost.lapsed \union {a.gen} ELSE ghost.lapsed
  BY <1>1 DEF ClaimNotification
<1>4. c.gen = a.gen /\ c.token = t /\ c.finished = a.finished /\ t # 0
  BY <1>1 DEF AvailRow
<1> HIDE DEF c, t
<1>5. \A b \in avail' : b = c \/ (b \in avail /\ b # a /\ b.gen # a.gen)
  BY <1>2, Zenon DEF NoticeInv, RowPerGeneration
<1>6. OpenRows' /\ RowPerGeneration'
  BY <1>2, <1>4, <1>5 DEF NoticeInv, OpenRows, RowPerGeneration
<1>7. ShownOnce'
  BY <1>3, Zenon DEF NoticeInv, ShownOnce
<1>8. /\ Works(w)' /\ worker'[w].gen = a.gen
      /\ \A v \in Workers \ {w} : worker'[v] = worker[v] /\ Works(v)' = Works(v)
      /\ \A g : Shown(g)' = Shown(g)
  BY <1>1, <1>2, <1>3, Zenon DEF Works, Shown
<1>9. GenerationsGiven'
  BY <1>2, <1>3, <1>4, <1>5, <1>8, Zenon DEF NoticeInv, GenerationsGiven
<1>10. UnclaimedIsNew'
  <2>1. ASSUME NEW b \in avail', b.token = 0, ~b.finished
        PROVE  ~Shown(b.gen)' /\ \A v \in Workers : Works(v)' => worker'[v].gen # b.gen
    <3>1. b \in avail /\ b.gen # a.gen
      BY <1>4, <1>5, <2>1
    <3>2. QED
      BY <1>8, <2>1, <3>1 DEF NoticeInv, UnclaimedIsNew
  <2>2. QED
    BY <2>1 DEF UnclaimedIsNew
<1>11. ClaimedOnce'
  <2>1. CASE a.token = 0
    <3>1. ~Shown(a.gen) /\ \A v \in Workers : Works(v) => worker[v].gen # a.gen
      BY <1>2, <2>1, Zenon DEF NoticeInv, UnclaimedIsNew, Live
    <3>2. ghost'.lapsed = ghost.lapsed
      BY <1>3, <2>1
    <3>3. QED
      BY <1>8, <3>1, <3>2 DEF NoticeInv, ClaimedOnce
  <2>2. CASE a.token # 0
    <3>1. ghost'.lapsed = ghost.lapsed \union {a.gen}
      BY <1>2, <1>3, <2>2, Zenon
    <3>2. QED
      BY <1>8, <3>1, Zenon DEF NoticeInv, ClaimedOnce
  <2>3. QED
    BY <2>1, <2>2, Zenon
<1>12. QED
  BY <1>6, <1>7, <1>9, <1>10, <1>11 DEF NoticeInv

\* A step that leaves the rows alone, and lets workers stop or go on to check
\* or finish, shows nothing new.
LEMMA NoticeQuiet ==
  ASSUME NoticeInv, Types', UNCHANGED <<input, avail>>,
         ghost'.shown = ghost.shown, ghost'.lapsed = ghost.lapsed,
         \A w \in Workers : Works(w)' => /\ Works(w) /\ worker'[w].gen = worker[w].gen
                                         /\ worker'[w].pc # "finish" => worker[w].pc # "finish"
  PROVE  NoticeInv'
<1>1. \A g : Shown(g)' = Shown(g)
  BY DEF Shown
<1>2. OpenRows' /\ RowPerGeneration' /\ ShownOnce' /\ GenerationsGiven'
  BY DEF NoticeInv, OpenRows, RowPerGeneration, ShownOnce, GenerationsGiven
<1>3. UnclaimedIsNew'
  BY <1>1 DEF NoticeInv, UnclaimedIsNew
<1>4. ClaimedOnce'
  BY <1>1 DEF NoticeInv, ClaimedOnce
<1>5. QED
  BY <1>2, <1>3, <1>4, Zenon DEF NoticeInv

\* A step that only moves rows towards released or finished.
LEMMA NoticeRows ==
  ASSUME NoticeInv, Types', RowPerGeneration',
         \A b \in avail' : \E a \in avail :
           b.gen = a.gen /\ (~b.finished => ~a.finished /\ b.token = a.token),
         input'.gen = input.gen, input'.status = input.status,
         input'.seq = input.seq \/ input'.seq = input.seq + 1,
         UNCHANGED ghost,
         \A w \in Workers : Works(w)' => Works(w) /\ worker'[w] = worker[w]
  PROVE  NoticeInv'
<1>1. OpenRows'
  BY Zenon DEF NoticeInv, OpenRows
<1>2. \A g : Shown(g)' = Shown(g)
  BY DEF Shown
<1>3. ShownOnce' /\ ClaimedOnce'
  BY <1>2, Zenon DEF NoticeInv, ShownOnce, ClaimedOnce
<1>4. UnclaimedIsNew'
  BY <1>2 DEF NoticeInv, UnclaimedIsNew
<1>5. GenerationsGiven'
  <2>1. /\ input.seq \in Nat /\ \A a \in avail : a.gen \in Nat
        /\ \A w \in Workers : worker[w].gen \in Nat
        /\ \A j \in DOMAIN ghost.shown : ghost.shown[j] \in Nat
    BY DEF NoticeInv, Types, InputRow, AvailRow, Claim
  <2>2. \A b \in avail' : b.gen <= input'.seq
    BY <2>1 DEF NoticeInv, GenerationsGiven
  <2>3. \A w \in Workers : Works(w)' => worker'[w].gen <= input'.seq
    BY <2>1 DEF NoticeInv, GenerationsGiven
  <2>4. \A j \in DOMAIN ghost'.shown : ghost'.shown[j] <= input'.seq
    BY <2>1 DEF NoticeInv, GenerationsGiven
  <2>5. QED
    BY <2>2, <2>3, <2>4, Zenon DEF GenerationsGiven
<1>6. QED
  BY <1>1, <1>3, <1>4, <1>5 DEF NoticeInv

\* The notice that is shown is its generation's first, unless a claim on it
\* had run out.
LEMMA NoticeNotify ==
  ASSUME NoticeInv, Types', NEW w \in Workers, Notify(w)
  PROVE  NoticeInv'
<1> DEFINE g == worker[w].gen
<1>1. /\ worker \in [Workers -> Claim] /\ ghost.shown \in Seq(Nat) /\ ghost.lapsed \subseteq Nat
      /\ ghost \in [shown : Seq(Nat), lapsed : SUBSET Nat, losses : Nat, token : Nat]
  BY DEF NoticeInv, Types
<1>2. /\ worker[w].pc = "notify" /\ UNCHANGED <<input, avail>>
      /\ worker' = [worker EXCEPT ![w].pc = "finish"]
  BY DEF Notify
<1>3. /\ Works(w) /\ Works(w)' /\ worker'[w].gen = g /\ worker'[w].pc = "finish"
      /\ \A v \in Workers \ {w} : worker'[v] = worker[v] /\ Works(v)' = Works(v)
  BY <1>1, <1>2 DEF Works, Claim
<1>4. CASE UNCHANGED ghost
  <2>1. \A v \in Workers : Works(v)' => /\ Works(v) /\ worker'[v].gen = worker[v].gen
                                        /\ worker'[v].pc # "finish" => worker[v].pc # "finish"
    BY <1>3
  <2>2. QED
    BY <1>2, <1>4, <2>1, NoticeQuiet
<1>5. CASE ghost' = [ghost EXCEPT !.shown = Append(@, g)]
  <2>1. ghost'.shown = Append(ghost.shown, g) /\ ghost'.lapsed = ghost.lapsed
    BY <1>1, <1>5
  <2>2. g \in Nat
    BY <1>1 DEF Claim
  <2>3. /\ \A j \in DOMAIN ghost'.shown :
             \/ j \in DOMAIN ghost.shown /\ ghost'.shown[j] = ghost.shown[j]
             \/ j = Len(ghost.shown) + 1 /\ ghost'.shown[j] = g
    BY <1>1, <2>1, <2>2
  <2>4. \A h : Shown(h)' => Shown(h) \/ h = g
    BY <2>3 DEF Shown
  <2>5. g \notin ghost.lapsed => /\ ~Shown(g)
                                 /\ \A v \in Workers : Works(v) /\ worker[v].gen = g => v = w
    BY <1>2, <1>3 DEF NoticeInv, ClaimedOnce
  <2>6. ShownOnce'
    <3>1. ASSUME NEW j \in DOMAIN ghost'.shown, NEW k \in DOMAIN ghost'.shown,
                 ghost'.shown[j] = ghost'.shown[k], j # k, ghost'.shown[j] \notin ghost.lapsed
          PROVE  FALSE
      <4>1. CASE j \in DOMAIN ghost.shown /\ ghost'.shown[j] = ghost.shown[j]
        <5>1. CASE k \in DOMAIN ghost.shown /\ ghost'.shown[k] = ghost.shown[k]
          BY <3>1, <4>1, <5>1, Zenon DEF NoticeInv, ShownOnce
        <5>2. CASE ghost'.shown[k] = g
          BY <2>5, <3>1, <4>1, <5>2, Zenon DEF Shown
        <5>3. QED
          BY <2>3, <5>1, <5>2
      <4>2. CASE j = Len(ghost.shown) + 1 /\ ghost'.shown[j] = g
        <5>1. k \in DOMAIN ghost.shown /\ ghost'.shown[k] = ghost.shown[k]
          BY <2>3, <3>1, <4>2
        <5>2. QED
          BY <2>5, <3>1, <4>2, <5>1 DEF Shown
      <4>3. QED
        BY <2>3, <4>1, <4>2
    <3>2. QED
      BY <2>1, <3>1 DEF ShownOnce
  <2>7. OpenRows' /\ RowPerGeneration'
    BY <1>2 DEF NoticeInv, OpenRows, RowPerGeneration
  <2>8. GenerationsGiven'
    BY <1>2, <1>3, <2>3 DEF NoticeInv, GenerationsGiven
  <2>9. UnclaimedIsNew'
    <3>1. ASSUME NEW a \in avail, a.token = 0, ~a.finished
          PROVE  ~Shown(a.gen)' /\ \A v \in Workers : Works(v)' => worker'[v].gen # a.gen
      <4>1. ~Shown(a.gen) /\ \A v \in Workers : Works(v) => worker[v].gen # a.gen
        BY <3>1, Zenon DEF NoticeInv, UnclaimedIsNew
      <4>2. QED
        BY <1>3, <2>4, <4>1
    <3>2. QED
      BY <1>2, <3>1 DEF UnclaimedIsNew
  <2>10. ClaimedOnce'
    <3>1. ASSUME NEW v \in Workers, Works(v)', worker'[v].gen \notin ghost.lapsed
          PROVE  /\ worker'[v].pc # "finish" => ~Shown(worker[v].gen)'
                 /\ \A u \in Workers : Works(u)' /\ worker'[u].gen = worker'[v].gen => u = v
      <4>1. CASE v = w
        BY <1>3, <2>5, <3>1, <4>1
      <4>2. CASE v # w
        <5>1. /\ Works(v) /\ worker'[v] = worker[v] /\ worker[v].gen # g
              /\ worker[v].pc # "finish" => ~Shown(worker[v].gen)
              /\ \A u \in Workers : Works(u) /\ worker[u].gen = worker[v].gen => u = v
          BY <1>3, <3>1, <4>2 DEF NoticeInv, ClaimedOnce
        <5>2. QED
          BY <1>3, <2>4, <5>1, Zenon
      <4>3. QED
        BY <4>1, <4>2, Zenon
    <3>2. QED
      BY <2>1, <3>1 DEF ClaimedOnce
  <2>11. QED
    BY <2>6, <2>7, <2>8, <2>9, <2>10 DEF NoticeInv
<1>6. QED
  BY <1>4, <1>5 DEF Notify

\* Every step keeps the notices due.
LEMMA NoticeStep ==
  ASSUME ClaimTime \in Nat, NoticeInv, [Next]_vars
  PROVE  NoticeInv'
<1>t. Types'
  <2>1. CASE Next
    BY <2>1, TypesStep DEF NoticeInv
  <2>2. CASE UNCHANGED vars
    BY <2>2 DEF NoticeInv, Types, vars
  <2>3. QED
    BY <2>1, <2>2
<1>w. worker \in [Workers -> Claim] /\ avail \subseteq AvailRow /\ input \in InputRow
      /\ ghost \in [shown : Seq(Nat), lapsed : SUBSET Nat, losses : Nat, token : Nat]
  BY DEF NoticeInv, Types
<1>u. ASSUME UNCHANGED <<input, avail, worker, ghost>>
      PROVE  NoticeInv'
  BY <1>t, <1>u, NoticeQuiet DEF Works
<1>1. ASSUME NEW id \in Requests, NEW body \in Body, Compose(id, body)
      PROVE  NoticeInv'
  BY <1>1, <1>u DEF Compose
<1>2. ASSUME NEW id \in Requests, Write(id)
      PROVE  NoticeInv'
  BY <1>2, <1>t, NoticeWrite
<1>3. CASE DeleteWorkspace
  BY <1>3, <1>u DEF DeleteWorkspace
<1>4. CASE Clock
  BY <1>4, <1>u DEF Clock
<1>5. ASSUME NEW w \in Workers, ReleaseDue(w)
      PROVE  NoticeInv'
  <2> DEFINE F(a) == [a EXCEPT !.available = TRUE]
  <2>1. /\ avail' = {IF a \in Due THEN F(a) ELSE a : a \in avail}
        /\ input' = [input EXCEPT !.seq = @ + 1] /\ UNCHANGED <<worker, ghost>>
    BY <1>5 DEF ReleaseDue
  <2>2. input'.gen = input.gen /\ input'.status = input.status /\ input'.seq = input.seq + 1
    BY <1>w, <2>1 DEF InputRow
  <2>3. \A a \in avail :
          F(a).gen = a.gen /\ F(a).finished = a.finished /\ F(a).token = a.token
    BY <1>w DEF AvailRow
  <2> HIDE DEF F
  <2>4. \A b \in avail' : \E a \in avail :
          b.gen = a.gen /\ (~b.finished => ~a.finished /\ b.token = a.token)
    BY <2>1, <2>3
  <2>5. RowPerGeneration'
    BY <2>1, <2>3 DEF NoticeInv, RowPerGeneration
  <2>6. \A v \in Workers : Works(v)' => Works(v) /\ worker'[v] = worker[v]
    BY <2>1 DEF Works
  <2>7. QED
    BY <1>t, <2>1, <2>2, <2>4, <2>5, <2>6, NoticeRows
<1>6. ASSUME NEW w \in Workers, NEW a \in avail, ClaimNotification(w, a)
      PROVE  NoticeInv'
  BY <1>6, <1>t, NoticeClaim
<1>7. ASSUME NEW w \in Workers, NotificationIsCurrent(w)
      PROVE  NoticeInv'
  <2>1. \A v \in Workers : Works(v)' => /\ Works(v) /\ worker'[v].gen = worker[v].gen
                                        /\ worker'[v].pc # "finish" => worker[v].pc # "finish"
    BY <1>7, <1>w DEF NotificationIsCurrent, Works, Claim
  <2>2. QED
    BY <1>7, <1>t, <2>1, NoticeQuiet DEF NotificationIsCurrent
<1>8. ASSUME NEW w \in Workers, Notify(w)
      PROVE  NoticeInv'
  BY <1>8, <1>t, NoticeNotify, Zenon
<1>9. ASSUME NEW w \in Workers, FinishNotification(w)
      PROVE  NoticeInv'
  <2> DEFINE F(a) == [a EXCEPT !.finished = TRUE, !.token = 0, !.until = 0]
  <2>1. /\ avail' = {IF Held(w, a) THEN F(a) ELSE a : a \in avail}
        /\ UNCHANGED <<input, ghost>>
    BY <1>9, Zenon DEF FinishNotification
  <2>2. \A a \in avail : F(a).gen = a.gen /\ F(a).finished
    BY <1>w DEF AvailRow
  <2> HIDE DEF F
  <2>3. \A b \in avail' : \E a \in avail :
          b.gen = a.gen /\ (~b.finished => ~a.finished /\ b.token = a.token)
    BY <2>1, <2>2
  <2>4. RowPerGeneration'
    BY <2>1, <2>2 DEF NoticeInv, RowPerGeneration
  <2>5. \A v \in Workers : Works(v)' => Works(v) /\ worker'[v] = worker[v]
    BY <1>9, <1>w, Zenon DEF FinishNotification, Works, Idle
  <2>6. QED
    BY <1>t, <2>1, <2>3, <2>4, <2>5, NoticeRows
<1>10. ASSUME NEW w \in Workers, TickLost(w)
       PROVE  NoticeInv'
  <2>1. \A v \in Workers : Works(v)' => /\ Works(v) /\ worker'[v].gen = worker[v].gen
                                        /\ worker'[v].pc # "finish" => worker[v].pc # "finish"
    BY <1>10, <1>w DEF TickLost, Works, Idle
  <2>2. ghost'.shown = ghost.shown /\ ghost'.lapsed = ghost.lapsed
    BY <1>10, <1>w DEF TickLost
  <2>3. QED
    BY <1>10, <1>t, <2>1, <2>2, NoticeQuiet DEF TickLost
<1>11. CASE UNCHANGED vars
  BY <1>11, <1>u, Zenon DEF vars
<1>12. QED
  BY <1>1, <1>2, <1>3, <1>4, <1>5, <1>6, <1>7, <1>8, <1>9, <1>10, <1>11, Zenon DEF Next, Tick

\* An unfinished availability row always belongs to the current generation of
\* an open Input, and input_availability shows a generation twice only when a
\* claim on it ran out before finish_notification.
THEOREM NoticesDue ==
  ASSUME ClaimTime \in Nat
  PROVE  Spec => []NoticesAreDue
<1>1. Init => NoticeInv
  BY TypesInit DEF Init, NoticeInv, OpenRows, ShownOnce, GenerationsGiven, RowPerGeneration,
                   UnclaimedIsNew, ClaimedOnce, Works, Idle
<1>2. NoticeInv /\ [Next]_vars => NoticeInv'
  BY NoticeStep
<1>3. NoticeInv => NoticesAreDue
  BY DEF NoticeInv, OpenRows, ShownOnce, NoticesAreDue
<1>4. QED
  BY <1>1, <1>2, <1>3, PTL DEF Spec
=============================================================================
