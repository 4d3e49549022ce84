--------------------------- MODULE ApprovalsProofs ---------------------------
(***************************************************************************)
(* The answer that the user was told has been recorded is the one that the *)
(* agent gets, and a wait that ends leaves no approval behind.             *)
(*                                                                         *)
(* The argument is that an approval is in one place at a time: asked for   *)
(* and not stored yet, pending, with the one tab that took it out, or      *)
(* answered for good.  The timeout, the cancellation and a tab find it     *)
(* only when it is pending.                                                *)
(***************************************************************************)
EXTENDS Approvals, TLAPS

Answer == Statuses \union {None, "timed_out", "dropped"}

Types ==
  /\ agent \in {"work", "asked", "resulted", "gone"}
  /\ asked \in 0..Asks
  /\ got \in [Ids -> Answer]
  /\ pipe \in Seq(Nat)
  /\ reader \in {"read", "handle", "wait", "done"}
  /\ interrupts \in Nat
  /\ pending \subseteq Ids
  /\ answer \in [Ids -> Answer]
  /\ tab \in [Tabs -> {Free} \union [id : Ids, status : Statuses]]
  /\ told \in [Ids -> Statuses \union {None}]

\* The pipe begins with the request of the agent.
Request == pipe # <<>> /\ pipe[1] \notin {0, Result}

\* The request is in the pipe, being handled or waiting for its answer.
Open == Request \/ reader \in {"handle", "wait"}

\* Over is the agent that asks for nothing more.
Over == agent \in {"resulted", "gone"}

\* What the agent may have written and the loop not read.
Written ==
  /\ \A k \in 1..Len(pipe) : pipe[k] = Result => Over
  /\ \A k \in 1..Len(pipe) : k > 1 => pipe[k] = Result
  /\ pipe # <<>> => pipe[1] \in {0, asked, Result}
  /\ pipe # <<>> /\ pipe[1] = 0 => interrupts > 0
  /\ part => pipe # <<>>

\* One request at a time, of an agent that waits.
Dialogue ==
  /\ Open => agent # "work" /\ asked \in Ids /\ got[asked] = None
  /\ Request => reader = "read"
  /\ reader = "done" => Over

\* The approval has not been created.
Unborn(i) == i > asked \/ (i = asked /\ (Request \/ reader = "handle"))

Holds(t, i) == tab[t] # Free /\ tab[t].id = i

\* An approval is in one place at a time.
OnePlace ==
  /\ \A i \in Ids : Unborn(i) =>
       /\ i \notin pending /\ answer[i] = None /\ told[i] = None /\ got[i] = None
       /\ \A t \in Tabs : ~Holds(t, i)
  /\ \A i \in pending : answer[i] = None /\ \A t \in Tabs : ~Holds(t, i)
  /\ \A i \in Ids, t \in Tabs : Holds(t, i) =>
       answer[i] = None /\ \A u \in Tabs : Holds(u, i) => u = t

\* Who was told of an answer was told the one that counts.
Told ==
  \A i \in Ids :
    /\ told[i] # None => answer[i] = told[i]
    /\ got[i] # None => answer[i] # None /\ got[i] = Outcome(i)

Inv == Types /\ Written /\ Dialogue /\ OnePlace /\ Told

\* What the invariant is about.
subject == <<agent, asked, got, pipe, part, reader, interrupts, pending, answer, tab, told>>

-----------------------------------------------------------------------------
LEMMA InvInit ==
  ASSUME Asks \in Nat, Init
  PROVE  Inv
<1>1. Types
  BY DEF Init, Types, Answer, Ids, Free, None
<1>2. ~Request /\ pipe = <<>>
  BY DEF Init, Request
<1>3. Written /\ Dialogue
  BY <1>2 DEF Init, Written, Dialogue, Open
<1>4. OnePlace
  BY DEF Init, OnePlace, Holds
<1>5. Told
  BY DEF Init, Told
<1>6. QED
  BY <1>1, <1>3, <1>4, <1>5 DEF Inv

LEMMA Unmoved ==
  ASSUME Inv, UNCHANGED subject
  PROVE  Inv'
<1>1. Types'
  BY DEF Inv, Types, subject
<1>2. Written' /\ Dialogue'
  BY DEF Inv, Written, Dialogue, Over, Open, Request, subject
<1>3. OnePlace' /\ Told'
  BY DEF Inv, OnePlace, Told, Unborn, Request, Holds, Outcome, subject
<1>4. QED
  BY <1>1, <1>2, <1>3 DEF Inv

\* A line at the end of the pipe.
LEMMA Appended ==
  ASSUME NEW s \in Seq(Nat), NEW x \in Nat
  PROVE  /\ Append(s, x) \in Seq(Nat) /\ Append(s, x) # <<>>
         /\ Len(Append(s, x)) = Len(s) + 1
         /\ \A k \in 1..Len(s) : Append(s, x)[k] = s[k]
         /\ Append(s, x)[Len(s) + 1] = x
         /\ Append(s, x)[1] = IF s = <<>> THEN x ELSE s[1]
OBVIOUS

\* The agent asks with an empty pipe.
LEMMA AgentAsksStep ==
  ASSUME Asks \in Nat, Inv, AgentAsks
  PROVE  Inv'
<1>1. agent = "work" /\ agent' = "asked" /\ asked' = asked + 1 /\ asked' \in Ids
  BY DEF AgentAsks, Inv, Types, Ids
<1>2. UNCHANGED <<got, part, reader, interrupts, pending, answer, tab, told>>
  BY DEF AgentAsks, store, loop, users
<1>3. pipe = <<>>
  <2>1. ~Open /\ interrupts = 0
    BY <1>1 DEF Inv, Dialogue, AgentAsks
  <2>2. pipe # <<>> => pipe[1] = Result /\ 1 \in 1..Len(pipe)
    BY <2>1 DEF Inv, Types, Written, Open, Request
  <2>3. ~Over
    BY <1>1 DEF Over
  <2>4. QED
    BY <2>2, <2>3 DEF Inv, Written
<1>4. /\ pipe' \in Seq(Nat) /\ pipe' # <<>> /\ Len(pipe') = 1
      /\ pipe'[1] = asked'
  BY <1>1, <1>3, Appended DEF AgentAsks, Inv, Types, Ids
<1>5. asked' \notin {0, Result}
  BY <1>1 DEF Ids, Result
<1>6. reader = "read"
  BY <1>1 DEF Inv, Types, Dialogue, Open, Over
<1>7. Unborn(asked')
  BY <1>1 DEF Unborn, Inv, Types
<1>8. Types'
  BY <1>1, <1>2, <1>4 DEF Inv, Types, Ids
<1>9. Written'
  BY <1>4, <1>5 DEF Written, Result
<1>10. Dialogue'
  BY <1>1, <1>2, <1>6, <1>7 DEF Dialogue, Inv, OnePlace
<1>11. \A i \in Ids : Unborn(i)' => Unborn(i)
  BY <1>1 DEF Unborn, Inv, Types, Ids
<1>12. OnePlace'
  BY <1>2, <1>11 DEF Inv, OnePlace, Holds
<1>13. Told'
  BY <1>2 DEF Inv, Told, Outcome
<1>14. QED
  BY <1>8, <1>9, <1>10, <1>12, <1>13 DEF Inv

\* The agent goes on, ends or dies.
LEMMA AgentStep ==
  ASSUME Asks \in Nat, Inv, AgentResumes \/ AgentEnds \/ AgentExits
  PROVE  Inv'
<1>1. UNCHANGED <<asked, got, part, reader, interrupts, pending, answer, tab, told>>
  BY DEF AgentResumes, AgentEnds, AgentExits, store, loop, users
<1>2. CASE AgentResumes
  <2>1. ~Open
    BY <1>2 DEF AgentResumes, Permission, Inv, Dialogue, None
  <2>2. agent = "asked" /\ agent' = "work" /\ UNCHANGED pipe
    BY <1>2 DEF AgentResumes
  <2>3. Types' /\ Written' /\ Dialogue'
    BY <1>1, <2>1, <2>2 DEF Inv, Types, Written, Dialogue, Open, Request, Over
  <2>4. OnePlace' /\ Told'
    BY <1>1, <2>2 DEF Inv, OnePlace, Told, Unborn, Request, Holds, Outcome
  <2>5. QED
    BY <2>3, <2>4 DEF Inv
<1>3. CASE AgentEnds
  <2>1. agent' = "resulted" /\ pipe' = Append(pipe, Result) /\ Result \in Nat
    BY <1>3 DEF AgentEnds, Result
  <2>2. /\ pipe' \in Seq(Nat) /\ pipe' # <<>> /\ Len(pipe') = Len(pipe) + 1
        /\ \A k \in 1..Len(pipe) : pipe'[k] = pipe[k]
        /\ pipe'[Len(pipe) + 1] = Result
        /\ pipe'[1] = IF pipe = <<>> THEN Result ELSE pipe[1]
    BY <2>1, Appended DEF Inv, Types
  <2>3. Request' = Request
    BY <2>2 DEF Request
  <2>4. Types'
    BY <1>1, <2>1, <2>2 DEF Inv, Types
  <2>5. Written'
    <3>1. Over'
      BY <2>1 DEF Over
    <3>2. ASSUME NEW k \in 1..Len(pipe'), k > 1
          PROVE  pipe'[k] = Result
      <4>1. k \in 1..Len(pipe) \/ k = Len(pipe) + 1
        BY <2>2 DEF Inv, Types
      <4>2. QED
        BY <2>2, <3>2, <4>1 DEF Inv, Written
    <3>3. pipe'[1] \in {0, asked, Result} /\ (pipe'[1] = 0 => interrupts > 0)
      BY <2>2 DEF Inv, Written, Result
    <3>4. QED
      BY <1>1, <2>2, <3>1, <3>2, <3>3 DEF Written, Result
  <2>6. Dialogue'
    BY <1>1, <2>1, <2>3 DEF Inv, Dialogue, Open, Over
  <2>7. OnePlace' /\ Told'
    BY <1>1, <2>3 DEF Inv, OnePlace, Told, Unborn, Holds, Outcome
  <2>8. QED
    BY <2>4, <2>5, <2>6, <2>7 DEF Inv
<1>4. CASE AgentExits
  <2>1. agent' = "gone" /\ UNCHANGED pipe
    BY <1>4 DEF AgentExits
  <2>2. Types' /\ Written' /\ Dialogue'
    BY <1>1, <2>1 DEF Inv, Types, Written, Dialogue, Open, Request, Over
  <2>3. OnePlace' /\ Told'
    BY <1>1, <2>1 DEF Inv, OnePlace, Told, Unborn, Request, Holds, Outcome
  <2>4. QED
    BY <2>2, <2>3 DEF Inv
<1>5. QED
  BY <1>2, <1>3, <1>4

\* The loop reads: a line leaves the pipe, or its beginning is dropped.
LEMMA ReadStep ==
  ASSUME Asks \in Nat, Inv, Interrupt \/ ReadPart \/ ReadLine \/ ReadEof
  PROVE  Inv'
<1>1. UNCHANGED <<agent, asked, got, pending, answer, tab, told>> /\ reader = "read"
  BY DEF Interrupt, ReadPart, ReadLine, ReadEof, store, agents, users
<1>2. Told'
  BY <1>1 DEF Inv, Told, Outcome
<1>3. ASSUME \A i \in Ids : Unborn(i)' => Unborn(i)
      PROVE  OnePlace'
  BY <1>1, <1>3 DEF Inv, OnePlace, Holds
<1>4. CASE Interrupt
  <2>1. interrupts' = interrupts + 1 /\ reader' = "read" /\ part' = FALSE
    BY <1>1, <1>4 DEF Interrupt
  <2>2. CASE pipe' = pipe
    <3>1. Types' /\ Written' /\ Dialogue'
      BY <1>1, <2>1, <2>2 DEF Inv, Types, Written, Dialogue, Open, Request, Over
    <3>2. \A i \in Ids : Unborn(i)' => Unborn(i)
      BY <1>1, <2>1, <2>2 DEF Unborn, Request
    <3>3. QED
      BY <1>2, <1>3, <3>1, <3>2 DEF Inv
  <2>3. CASE pipe' = <<0>> \o Tail(pipe) /\ pipe # <<>>
    <3>1. /\ pipe' \in Seq(Nat) /\ pipe' # <<>> /\ Len(pipe') = Len(pipe)
          /\ pipe'[1] = 0 /\ \A k \in 1..Len(pipe) : k > 1 => pipe'[k] = pipe[k]
      BY <2>3 DEF Inv, Types
    <3>2. ~Request'
      BY <3>1 DEF Request
    <3>3. Types'
      BY <1>1, <2>1, <3>1 DEF Inv, Types
    <3>4. Written'
      BY <1>1, <2>1, <3>1 DEF Inv, Types, Written, Over, Result
    <3>5. Dialogue'
      BY <2>1, <3>2 DEF Dialogue, Open
    <3>6. \A i \in Ids : Unborn(i)' => Unborn(i)
      BY <1>1, <2>1, <3>2 DEF Unborn
    <3>7. QED
      BY <1>2, <1>3, <3>3, <3>4, <3>5, <3>6 DEF Inv
  <2>4. QED
    BY <1>4, <2>2, <2>3 DEF Interrupt, Inv, Written
<1>5. CASE ReadLine
  <2>1. pipe # <<>> /\ pipe' = Tail(pipe) /\ UNCHANGED interrupts /\ part' = FALSE
    BY <1>5 DEF ReadLine
  <2>2. /\ pipe' \in Seq(Nat) /\ Len(pipe') = Len(pipe) - 1
        /\ \A k \in 1..Len(pipe') : pipe'[k] = pipe[k + 1]
    BY <2>1 DEF Inv, Types
  <2>3. ASSUME NEW k \in 1..Len(pipe')
        PROVE  pipe'[k] = Result
    <3>1. k + 1 \in 1..Len(pipe) /\ k + 1 > 1
      BY <2>2 DEF Inv, Types
    <3>2. QED
      BY <2>2, <3>1 DEF Inv, Written
  <2>4. Len(pipe') > 0 => Over
    BY <2>2 DEF Inv, Types, Written
  <2>5. pipe' # <<>> => Len(pipe') > 0 /\ pipe'[1] = Result
    BY <2>2, <2>3
  <2>6. ~Request'
    BY <2>5 DEF Request
  <2>7. /\ reader' \in {"read", "handle", "done"}
        /\ reader' = "handle" => Request
        /\ reader' = "done" => pipe[1] = Result /\ 1 \in 1..Len(pipe)
    BY <2>1, <1>5 DEF ReadLine, Request, Inv, Types, Result
  <2>8. Types'
    BY <1>1, <2>1, <2>2, <2>7 DEF Inv, Types
  <2>9. Written'
    BY <1>1, <2>1, <2>2, <2>3, <2>4, <2>5 DEF Written, Over, Result
  <2>10. Dialogue'
    <3>1. Open' => reader' = "handle" /\ Open
      BY <2>6, <2>7 DEF Open
    <3>2. reader' = "done" => Over'
      BY <1>1, <2>7 DEF Inv, Written, Over
    <3>3. QED
      BY <1>1, <2>6, <3>1, <3>2 DEF Inv, Dialogue
  <2>11. \A i \in Ids : Unborn(i)' => Unborn(i)
    BY <1>1, <2>6, <2>7 DEF Unborn
  <2>12. QED
    BY <1>2, <1>3, <2>8, <2>9, <2>10, <2>11 DEF Inv
<1>6. CASE ReadEof
  <2>1. agent = "gone" /\ reader' = "done" /\ UNCHANGED <<pipe, part, interrupts>> /\ pipe = <<>>
    BY <1>6 DEF ReadEof, agents
  <2>2. Types' /\ Written' /\ Dialogue'
    BY <1>1, <2>1 DEF Inv, Types, Written, Dialogue, Open, Request, Over
  <2>3. \A i \in Ids : Unborn(i)' => Unborn(i)
    BY <1>1, <2>1 DEF Unborn, Request
  <2>4. QED
    BY <1>2, <1>3, <2>2, <2>3 DEF Inv
<1>7. CASE ReadPart
  <2>1. UNCHANGED <<pipe, reader, interrupts>> /\ pipe # <<>>
    BY <1>7 DEF ReadPart, agents
  <2>2. Types' /\ Written' /\ Dialogue'
    BY <1>1, <2>1 DEF Inv, Types, Written, Dialogue, Open, Request, Over
  <2>3. \A i \in Ids : Unborn(i)' => Unborn(i)
    BY <1>1, <2>1 DEF Unborn, Request
  <2>4. QED
    BY <1>2, <1>3, <2>2, <2>3 DEF Inv
<1>8. QED
  BY <1>4, <1>5, <1>6, <1>7

LEMMA CreateStep ==
  ASSUME Inv, Create
  PROVE  Inv'
<1>1. /\ UNCHANGED <<agent, asked, got, pipe, part, interrupts, answer, tab, told>>
      /\ reader = "handle" /\ reader' = "wait" /\ pending' = pending \union {asked}
  BY DEF Create, agents, users
<1>2. Unborn(asked) /\ asked \in Ids /\ Open
  BY <1>1 DEF Unborn, Open, Inv, Dialogue
<1>3. Types' /\ Written' /\ Dialogue'
  BY <1>1, <1>2 DEF Inv, Types, Written, Dialogue, Open, Request, Over
<1>4. \A i \in Ids : Unborn(i)' => Unborn(i) /\ i # asked
  BY <1>1 DEF Unborn, Request, Inv, Dialogue, Types
<1>5. OnePlace'
  BY <1>1, <1>2, <1>4 DEF Inv, OnePlace, Holds
<1>6. Told'
  BY <1>1 DEF Inv, Told, Outcome
<1>7. QED
  BY <1>3, <1>5, <1>6 DEF Inv

\* The answer reaches the agent.
LEMMA AnsweredStep ==
  ASSUME Inv, Answered
  PROVE  Inv'
<1>1. /\ UNCHANGED <<agent, asked, pipe, part, interrupts, pending, answer, tab, told>>
      /\ reader = "wait" /\ reader' = "read" /\ answer[asked] # None
      /\ got' = IF agent = "gone" THEN got ELSE [got EXCEPT ![asked] = Outcome(asked)]
  BY DEF Answered, store, users
<1>2. asked \in Ids /\ ~Request /\ Open
  BY <1>1 DEF Open, Inv, Dialogue
<1>3. ~Open' /\ ~Request'
  BY <1>1, <1>2 DEF Open, Request
<1>4. Outcome(asked) \in Answer \ {None} /\ ~Unborn(asked)
  BY <1>1, <1>2 DEF Outcome, Inv, Types, Answer, None, Unborn
<1>5. got' \in [Ids -> Answer] /\ \A i \in Ids : (got'[i] = got[i] \/ (i = asked /\ got'[i] = Outcome(i)))
  BY <1>1, <1>2, <1>4 DEF Inv, Types
<1>6. Types' /\ Written'
  BY <1>1, <1>5 DEF Inv, Types, Written, Over
<1>7. Dialogue'
  BY <1>1, <1>3 DEF Dialogue
<1>8. \A i \in Ids : Unborn(i)' => Unborn(i)
  BY <1>1, <1>3 DEF Unborn
<1>9. OnePlace'
  BY <1>1, <1>4, <1>5, <1>8 DEF Inv, OnePlace, Holds
<1>10. Told'
  BY <1>1, <1>5 DEF Inv, Told, Outcome
<1>11. QED
  BY <1>6, <1>7, <1>9, <1>10 DEF Inv

\* Who resolves a pending approval without an answer: the cancellation and
\* the timeout.
LEMMA Resolved ==
  ASSUME Inv, NEW i \in pending, NEW o \in {"timed_out", "dropped"},
         pending' = pending \ {i}, answer' = [answer EXCEPT ![i] = o],
         UNCHANGED <<agent, asked, got, pipe, part, interrupts, tab, told>>,
         reader' = reader \/ (reader = "wait" /\ reader' = "read")
  PROVE  Inv'
<1>1. i \in Ids /\ ~Unborn(i)
  BY DEF Inv, Types, OnePlace
<1>2. Types' /\ Written'
  BY <1>1 DEF Inv, Types, Written, Over, Answer
<1>3. Dialogue'
  BY DEF Inv, Dialogue, Open, Request, Over
<1>4. \A j \in Ids : Unborn(j)' => Unborn(j)
  BY DEF Unborn, Request
<1>5. \A j \in Ids : answer'[j] = IF j = i THEN o ELSE answer[j]
  BY DEF Inv, Types
<1>6. told[i] = None /\ got[i] = None /\ \A t \in Tabs : ~Holds(t, i)
  BY <1>1, Zenon DEF Inv, OnePlace, Told
<1>7. OnePlace'
  BY <1>1, <1>4, <1>5, <1>6 DEF Inv, OnePlace, Holds
<1>8. Told'
  BY <1>5, <1>6 DEF Inv, Told, Outcome
<1>9. QED
  BY <1>2, <1>3, <1>7, <1>8 DEF Inv

LEMMA CancelStep ==
  ASSUME Inv, Cancel
  PROVE  Inv'
<1>1. /\ UNCHANGED <<agent, asked, got, pipe, part, interrupts, tab, told>>
      /\ reader = "wait" /\ reader' = "read"
  BY DEF Cancel, agents, users
<1>2. CASE asked \in pending
  <2>1. pending' = pending \ {asked} /\ answer' = [answer EXCEPT ![asked] = "dropped"]
    BY <1>2 DEF Cancel
  <2>2. QED
    BY <1>1, <1>2, <2>1, Resolved, Zenon
<1>3. CASE asked \notin pending
  <2>1. UNCHANGED <<pending, answer>>
    BY <1>3 DEF Cancel
  <2>2. Types' /\ Written' /\ Dialogue'
    BY <1>1, <2>1, Zenon DEF Inv, Types, Written, Dialogue, Open, Request, Over
  <2>3. OnePlace' /\ Told'
    BY <1>1, <2>1 DEF Inv, OnePlace, Told, Unborn, Request, Holds, Outcome
  <2>4. QED
    BY <2>2, <2>3 DEF Inv
<1>4. QED
  BY <1>2, <1>3

LEMMA TimesOutStep ==
  ASSUME Inv, NEW i \in Ids, TimesOut(i)
  PROVE  Inv'
<1>1. UNCHANGED <<agent, asked, got, pipe, part, reader, interrupts, tab, told>>
  BY DEF TimesOut, agents, loop, users
<1>2. CASE i \in pending
  <2>1. pending' = pending \ {i} /\ answer' = [answer EXCEPT ![i] = "timed_out"]
    BY <1>2 DEF TimesOut
  <2>2. QED
    BY <1>1, <1>2, <2>1, Resolved, Zenon
<1>3. CASE i \notin pending
  <2>1. UNCHANGED subject
    BY <1>1, <1>3 DEF TimesOut, subject
  <2>2. QED
    BY <2>1, Unmoved
<1>4. QED
  BY <1>2, <1>3

\* A tab takes a pending approval out, puts it back or answers it.
LEMMA RespondStep ==
  ASSUME Asks \in Nat, Inv, NEW t \in Tabs,
         RespondTakes(t) \/ RespondRefuses(t) \/ RespondResolves(t)
  PROVE  Inv'
<1>1. UNCHANGED <<agent, asked, got, pipe, part, reader, interrupts>>
  BY DEF RespondTakes, RespondRefuses, RespondResolves, agents, loop
<1>2. Written' /\ Dialogue'
  BY <1>1 DEF Inv, Written, Dialogue, Open, Request, Over
<1>3. \A i \in Ids : Unborn(i)' = Unborn(i)
  BY <1>1 DEF Unborn, Request
<1>4. CASE RespondTakes(t)
  <2>1. PICK i \in pending, status \in Statuses :
          /\ pending' = pending \ {i} /\ tab' = [tab EXCEPT ![t] = [id |-> i, status |-> status]]
          /\ UNCHANGED <<answer, told>>
    BY <1>4, Zenon DEF RespondTakes
  <2>2. i \in Ids /\ ~Unborn(i) /\ answer[i] = None /\ \A u \in Tabs : ~Holds(u, i)
    BY DEF Inv, Types, OnePlace
  <2>3. \A u \in Tabs, j \in Ids : Holds(u, j)' <=> (IF u = t THEN j = i ELSE Holds(u, j))
    BY <2>1, <2>2 DEF Holds, Inv, Types, Free, Ids
  <2>4. Types'
    BY <1>1, <2>1, <2>2, Zenon DEF Inv, Types
  <2>5. OnePlace'
    <3>1. ASSUME NEW j \in Ids, Unborn(j)'
          PROVE  /\ j \notin pending' /\ answer'[j] = None /\ told'[j] = None /\ got'[j] = None
                 /\ \A u \in Tabs : ~Holds(u, j)'
      <4>1. Unborn(j) /\ j # i
        BY <1>3, <2>2, <3>1, Zenon
      <4>2. /\ j \notin pending /\ answer[j] = None /\ told[j] = None /\ got[j] = None
            /\ \A u \in Tabs : ~Holds(u, j)
        BY <4>1 DEF Inv, OnePlace
      <4>3. QED
        BY <1>1, <2>1, <2>3, <4>1, <4>2, Zenon
    <3>2. \A j \in pending' : answer'[j] = None /\ \A u \in Tabs : ~Holds(u, j)'
      BY <2>1, <2>2, <2>3, Zenon DEF Inv, OnePlace, Types
    <3>3. ASSUME NEW j \in Ids, NEW u \in Tabs, Holds(u, j)'
          PROVE  answer'[j] = None /\ \A v \in Tabs : Holds(v, j)' => v = u
      <4>1. CASE u = t
        BY <2>1, <2>2, <2>3, <3>3, <4>1
      <4>2. CASE u # t
        <5>1. Holds(u, j) /\ j # i
          BY <2>2, <2>3, <3>3, <4>2
        <5>2. answer[j] = None /\ \A v \in Tabs : Holds(v, j) => v = u
          BY <5>1, Zenon DEF Inv, OnePlace
        <5>3. QED
          BY <2>1, <2>3, <5>1, <5>2
      <4>3. QED
        BY <4>1, <4>2
    <3>4. QED
      BY <3>1, <3>2, <3>3 DEF OnePlace
  <2>6. Told'
    BY <1>1, <2>1 DEF Inv, Told, Outcome
  <2>7. QED
    BY <1>2, <2>4, <2>5, <2>6 DEF Inv
<1>5. ASSUME tab[t] # Free, tab' = [tab EXCEPT ![t] = Free]
      PROVE  /\ tab[t].id \in Ids /\ tab[t].status \in Statuses
             /\ tab' \in [Tabs -> {Free} \union [id : Ids, status : Statuses]]
             /\ answer[tab[t].id] = None /\ tab[t].id \notin pending /\ ~Unborn(tab[t].id)
             /\ \A u \in Tabs, j \in Ids : Holds(u, j)' <=> (u # t /\ Holds(u, j))
             /\ \A u \in Tabs : u # t => ~Holds(u, tab[t].id)
  <2>1. tab[t].id \in Ids /\ tab[t].status \in Statuses /\ Holds(t, tab[t].id)
    BY <1>5 DEF Inv, Types, Holds
  <2>2. tab' \in [Tabs -> {Free} \union [id : Ids, status : Statuses]]
    BY <1>5 DEF Inv, Types
  <2>3. \A u \in Tabs, j \in Ids : Holds(u, j)' <=> (u # t /\ Holds(u, j))
    BY <1>5 DEF Holds, Inv, Types
  <2>4. QED
    BY <2>1, <2>2, <2>3 DEF Inv, OnePlace
<1>6. CASE RespondRefuses(t)
  <2>1. /\ tab[t] # Free /\ pending' = pending \union {tab[t].id}
        /\ tab' = [tab EXCEPT ![t] = Free] /\ UNCHANGED <<answer, told>>
    BY <1>6, Zenon DEF RespondRefuses
  <2>2. Types'
    BY <1>1, <1>5, <2>1, Zenon DEF Inv, Types
  <2>a. PICK i \in Ids :
          /\ i = tab[t].id /\ answer[i] = None /\ ~Unborn(i)
          /\ \A u \in Tabs, j \in Ids : Holds(u, j)' <=> (u # t /\ Holds(u, j))
          /\ \A u \in Tabs : u # t => ~Holds(u, i)
    BY <1>5, <2>1
  <2>3. OnePlace'
    <3>1. ASSUME NEW j \in Ids, Unborn(j)'
          PROVE  /\ j \notin pending' /\ answer'[j] = None /\ told'[j] = None /\ got'[j] = None
                 /\ \A u \in Tabs : ~Holds(u, j)'
      <4>1. Unborn(j) /\ j # i
        BY <1>3, <2>a, <3>1, Zenon
      <4>2. /\ j \notin pending /\ answer[j] = None /\ told[j] = None /\ got[j] = None
            /\ \A u \in Tabs : ~Holds(u, j)
        BY <4>1 DEF Inv, OnePlace
      <4>3. QED
        BY <1>1, <2>1, <2>a, <4>1, <4>2
    <3>2. ASSUME NEW j \in pending'
          PROVE  answer'[j] = None /\ \A u \in Tabs : ~Holds(u, j)'
      <4>1. CASE j = i
        BY <2>1, <2>a, <4>1
      <4>2. CASE j \in pending
        <5>1. j \in Ids /\ answer[j] = None /\ \A u \in Tabs : ~Holds(u, j)
          BY <4>2 DEF Inv, OnePlace, Types
        <5>2. QED
          BY <2>1, <2>a, <5>1
      <4>3. QED
        BY <2>1, <2>a, <4>1, <4>2, Zenon
    <3>3. \A j \in Ids, u \in Tabs : Holds(u, j)' =>
            answer'[j] = None /\ \A v \in Tabs : Holds(v, j)' => v = u
      BY <2>1, <2>a, ZenonT(30) DEF Inv, OnePlace
    <3>4. QED
      BY <3>1, <3>2, <3>3, Zenon DEF OnePlace
  <2>4. Told'
    BY <1>1, <2>1 DEF Inv, Told, Outcome
  <2>5. QED
    BY <1>2, <2>2, <2>3, <2>4 DEF Inv
<1>7. CASE RespondResolves(t)
  <2>1. /\ tab[t] # Free /\ tab' = [tab EXCEPT ![t] = Free] /\ UNCHANGED pending
        /\ answer' = IF answer[tab[t].id] = None
                     THEN [answer EXCEPT ![tab[t].id] = tab[t].status] ELSE answer
        /\ told' = [told EXCEPT ![tab[t].id] = tab[t].status]
    BY <1>7, Zenon DEF RespondResolves
  <2>a. PICK i \in Ids :
          /\ i = tab[t].id /\ i \notin pending /\ ~Unborn(i)
          /\ \A u \in Tabs, j \in Ids : Holds(u, j)' <=> (u # t /\ Holds(u, j))
          /\ \A u \in Tabs : u # t => ~Holds(u, i)
    BY <1>5, <2>1
  <2>2. /\ \A j \in Ids : answer'[j] = IF j = i THEN tab[t].status ELSE answer[j]
        /\ \A j \in Ids : told'[j] = IF j = i THEN tab[t].status ELSE told[j]
        /\ answer' \in [Ids -> Answer] /\ told' \in [Ids -> Statuses \union {None}]
    BY <1>5, <2>1, <2>a, Zenon DEF Inv, Types, Answer
  <2>3. Types'
    BY <1>1, <1>5, <2>1, <2>2, Zenon DEF Inv, Types
  <2>4. OnePlace'
    <3>1. ASSUME NEW j \in Ids, Unborn(j)'
          PROVE  /\ j \notin pending' /\ answer'[j] = None /\ told'[j] = None /\ got'[j] = None
                 /\ \A u \in Tabs : ~Holds(u, j)'
      <4>1. Unborn(j) /\ j # i
        BY <1>3, <2>a, <3>1
      <4>2. /\ j \notin pending /\ answer[j] = None /\ told[j] = None /\ got[j] = None
            /\ \A u \in Tabs : ~Holds(u, j)
        BY <4>1 DEF Inv, OnePlace
      <4>3. QED
        BY <1>1, <2>1, <2>2, <2>a, <4>1, <4>2
    <3>2. \A j \in pending' : answer'[j] = None /\ \A u \in Tabs : ~Holds(u, j)'
      BY <2>1, <2>2, <2>a, Zenon DEF Inv, OnePlace, Types
    <3>3. \A j \in Ids, u \in Tabs : Holds(u, j)' =>
            answer'[j] = None /\ \A v \in Tabs : Holds(v, j)' => v = u
      <4>1. \A j \in Ids, u \in Tabs : Holds(u, j)' => j # i /\ Holds(u, j)
        BY <2>a, Zenon
      <4>2. QED
        BY <2>2, <4>1, Zenon DEF Inv, OnePlace
    <3>4. QED
      BY <3>1, <3>2, <3>3, Zenon DEF OnePlace
  <2>5. Told'
    <3>1. got[i] = None
      BY <1>5, <2>1, <2>a DEF Inv, Told
    <3>2. QED
      BY <1>1, <2>2, <2>a, <3>1, ZenonT(30) DEF Inv, Told, Outcome
  <2>6. QED
    BY <1>2, <2>3, <2>4, <2>5 DEF Inv
<1>8. QED
  BY <1>4, <1>6, <1>7

LEMMA InvStep ==
  ASSUME Asks \in Nat, Inv, [Next]_vars
  PROVE  Inv'
<1>1. CASE Snapshot \/ Subscribe \/ Deliver \/ Stop
  <2>1. UNCHANGED subject
    BY <1>1, SMTT(30) DEF Snapshot, Subscribe, Deliver, Stop, store, agents, users, loop, subject
  <2>2. QED
    BY <2>1, Unmoved, Zenon
<1>2. CASE \E i \in Ids : WatcherSees(i) \/ DeadlinePasses(i)
  <2>1. UNCHANGED subject
    BY <1>2 DEF WatcherSees, DeadlinePasses, agents, loop, users, subject
  <2>2. QED
    BY <2>1, Unmoved, Zenon
<1>3. CASE UNCHANGED vars
  <2>1. UNCHANGED subject
    BY <1>3 DEF vars, store, agents, users, loop, subject
  <2>2. QED
    BY <2>1, Unmoved
<1>4. CASE AgentAsks \/ AgentResumes \/ AgentEnds \/ AgentExits
  BY <1>4, AgentAsksStep, AgentStep, Zenon
<1>5. CASE Interrupt \/ ReadPart \/ ReadLine \/ ReadEof \/ Create
  BY <1>5, ReadStep, CreateStep, Zenon
<1>6. CASE ApprovalEnds \/ QuestionEnds \/ Cancel
  BY <1>6, AnsweredStep, CancelStep, Zenon DEF ApprovalEnds, QuestionEnds
<1>7. CASE \E i \in Ids : TimesOut(i)
  BY <1>7, TimesOutStep, Zenon
<1>8. CASE \E t \in Tabs : RespondTakes(t) \/ RespondRefuses(t) \/ RespondResolves(t)
  BY <1>8, RespondStep, Zenon
<1>9. QED
  BY <1>1, <1>2, <1>3, <1>4, <1>5, <1>6, <1>7, <1>8, Zenon DEF Next

LEMMA Invariance ==
  ASSUME Asks \in Nat
  PROVE  Spec => []Inv
<1>1. Init => Inv
  BY InvInit
<1>2. Inv /\ [Next]_vars => Inv'
  BY InvStep
<1>3. QED
  BY <1>1, <1>2, PTL DEF Spec

\* The answer that a tab was told has been recorded is the one that the agent
\* gets: the timeout, the other tab and the refusal of an answer of the wrong
\* kind never replace it (ApprovalService::respond, the watcher of an approval).
THEOREM UserIsHeard ==
  ASSUME Asks \in Nat
  PROVE  Spec => []AgreesWithUser
<1>1. Inv => AgreesWithUser
  BY DEF Inv, Types, Told, AgreesWithUser, Outcome, Statuses, None
<1>2. QED
  BY <1>1, Invariance, PTL

\* When the protocol loop leaves a wait, answered or cancelled, the approval
\* is not pending any more and nobody can answer it (wait_internal, cancel).
THEOREM WaitsEndClean ==
  ASSUME Asks \in Nat
  PROVE  Spec => [][WithdrawnOnStop]_vars
<1>1. Inv /\ [Next]_vars => WithdrawnOnStop
  <2>1. SUFFICES ASSUME Inv, [Next]_vars, reader = "wait", reader' = "read"
                 PROVE  asked \notin pending'
    BY DEF WithdrawnOnStop
  <2>2. CASE Cancel
    BY <2>2, Zenon DEF Cancel
  <2>3. CASE Answered
    BY <2>1, <2>3, Zenon DEF Answered, store, Inv, OnePlace
  <2>4. Cancel \/ Answered
    BY <2>1, Zenon DEF Next, vars, store, agents, loop, users, client, Snapshot, Subscribe, Deliver, AgentAsks,
       AgentResumes, AgentEnds, AgentExits, Interrupt, ReadPart, ReadLine, ReadEof, Create, ApprovalEnds,
       QuestionEnds, Stop, WatcherSees, DeadlinePasses, TimesOut, RespondTakes, RespondRefuses, RespondResolves
  <2>5. QED
    BY <2>2, <2>3, <2>4
<1>2. QED
  BY <1>1, Invariance, PTL DEF Spec
=============================================================================
