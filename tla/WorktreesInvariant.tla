-------------------------- MODULE WorktreesInvariant --------------------------
(***************************************************************************)
(* The invariant of the worktrees, which relates the entries of git's, the *)
(* checkouts and what is known of them to what each task is about to do,   *)
(* and that the steps keep it which build nothing: those that only move a  *)
(* task on, those that remove what is at a path, and those that begin to   *)
(* remove a lane.                                                          *)
(***************************************************************************)
EXTENDS Worktrees, TLAPS

Setting ==
  /\ IsFiniteSet(Lanes) /\ NoLane \notin Lanes /\ Free \notin Tasks
  /\ RepoCount \in Nat \ {0}

Building == {"create", "ensure"}
Making == {"remove", "meta", "rmdir", "add", "fill"}
Clearing == {"repo", "clean", "metas", "rmtree"}
Pcs == Making \union Clearing \union
       {"idle", "branch", "lock", "check", "rmempty", "rmall", "branches", "snap", "next"}

Task ==
  [op : AllOps \union {"none", "undo"}, lane : Lanes \union {NoLane}, i : Repo, pc : Pcs,
   made : SUBSET Repo, tried : BOOLEAN, known : SUBSET Lanes, crossed : BOOLEAN]

Types ==
  /\ entries \in [Repo -> [Names -> Lanes \union {NoLane}]]
  /\ checkout \in [Lanes -> [Repo -> Names \union {None}]]
  /\ folder \subseteq Lanes
  /\ rows \in [Lanes -> {"none", "made", "registered", "gone"}]
  /\ pathLock \in [Lanes -> [Repo -> Tasks \union {Free}]]
  /\ task \in [Tasks -> Task]
  /\ ready \in [Lanes -> {"no", "yes"}]

\* What a task does at a step of it.
Phase(t) ==
  /\ At(t, "idle") => task[t] = Idle
  /\ ~At(t, "idle") => task[t].op # "none"
  /\ task[t].pc \in {"branch", "check"} \union Making => task[t].op \in Building
  /\ task[t].pc \in Clearing => task[t].op \in Removals \union {"undo"}
  /\ task[t].pc \in {"rmall", "branches"} => task[t].op \in Removals
  /\ At(t, "rmempty") => task[t].op = "undo" /\ task[t].made = {}
  /\ task[t].pc \in {"snap", "next"} => task[t].op = "sweep" /\ Lane(t) = NoLane
  /\ task[t].pc \notin {"idle", "snap", "next"} => Lane(t) \in Lanes

\* A task that works on a path holds its lock.
Locking(t) == task[t].pc \in {"check"} \union Making \union Clearing => pathLock[Lane(t)][I(t)] = t

OneEntry ==
  \A r \in Repo, m, n \in Names :
    entries[r][m] \in Lanes /\ entries[r][m] = entries[r][n] => m = n

\* The clean-up before an add has left no entry of the path.
Cleared(t) == task[t].pc \in {"rmdir", "add"} => NamesOf(Lane(t), I(t)) = {}

Works(t, l, r) == Lane(t) = l /\ I(t) = r

\* A checkout without its entry is about to be removed.
Dangling ==
  \A l \in Lanes, r \in Repo : checkout[l][r] # None =>
    Whole(l, r) \/ \E t \in Tasks : task[t].pc \in {"rmdir", "rmtree"} /\ Works(t, l, r)

\* A lane without a row has nothing.
Unborn ==
  \A l \in Lanes : rows[l] = "none" =>
    /\ l \notin folder /\ ready[l] = "no"
    /\ \A t \in Tasks : Lane(t) # l
    /\ \A r \in Repo : checkout[l][r] = None

\* Beside a creation, or its rollback, there are only removals of the lane.
Alone ==
  \A t \in Tasks : task[t].op \in {"create", "undo"} =>
    /\ ready[Lane(t)] = "no"
    /\ \A u \in Tasks : u # t /\ Lane(u) = Lane(t) => task[u].op \in Removals

\* A removal is known to the operations that it crosses.
Crossing ==
  \A t \in Tasks : task[t].op \in Removals /\ Lane(t) \in Lanes =>
    /\ ready[Lane(t)] = "no"
    /\ \A u \in Tasks : Lane(u) = Lane(t) /\ task[u].op \in Building => task[u].crossed

\* A creation knows the worktrees that it has made.
Recorded ==
  \A t \in Tasks : task[t].op \in {"create", "undo"} =>
    \A r \in Repo : checkout[Lane(t)][r] # None => r \in task[t].made

\* The lane was reported as set up, or a builder that nothing crossed is past r.
Claimed(l, r) ==
  \/ ready[l] = "yes"
  \/ \E t \in Tasks : /\ task[t].op \in Building /\ Lane(t) = l /\ ~task[t].crossed
                      /\ r < I(t)

Claims ==
  \A l \in Lanes, r \in Repo : Claimed(l, r) =>
    /\ Whole(l, r)
    /\ \A t \in Tasks : Works(t, l, r) => task[t].pc \notin Making

Inv ==
  /\ Types
  /\ \A t \in Tasks : Phase(t) /\ Locking(t) /\ Cleared(t)
  /\ OneEntry /\ Dangling
  /\ Unborn /\ Alone /\ Crossing
  /\ Recorded
  /\ Claims

-----------------------------------------------------------------------------
(* Types. *)

LEMMA IdleTask ==
  ASSUME Setting
  PROVE  Idle \in Task
BY DEF Setting, Idle, Task, Repo, Pcs, AllOps

LEMMA IdleFields ==
  Idle.op = "none" /\ Idle.lane = NoLane /\ Idle.pc = "idle" /\ Idle.made = {} /\ Idle.crossed = FALSE
BY DEF Idle

\* The task moves on, and nothing else about it changes.
Stays(t) ==
  /\ task'[t].op = task[t].op /\ task'[t].lane = task[t].lane /\ task'[t].i = task[t].i
  /\ task'[t].made = task[t].made /\ task'[t].crossed = task[t].crossed

Others(t) == \A u \in Tasks \ {t} : task'[u] = task[u]

LEMMA GoMoves ==
  ASSUME Types, NEW t \in Tasks, NEW pc \in Pcs, Go(t, pc)
  PROVE  /\ task' \in [Tasks -> Task] /\ Others(t)
         /\ task'[t].pc = pc /\ Stays(t)
<1>1. task \in [Tasks -> Task] /\ task[t] \in Task
  BY DEF Types
<1>2. task' = [task EXCEPT ![t] = [task[t] EXCEPT !.pc = pc]]
  BY <1>1 DEF Go
<1>3. [task[t] EXCEPT !.pc = pc] \in Task
  BY <1>1 DEF Task
<1>4. QED
  BY <1>1, <1>2, <1>3 DEF Others, Stays, Task

\* The task gets a new record.
LEMMA SetMoves ==
  ASSUME Types, NEW t \in Tasks, NEW x \in Task, task' = [task EXCEPT ![t] = x]
  PROVE  task' \in [Tasks -> Task] /\ Others(t) /\ task'[t] = x
BY DEF Types, Others

\* NextRepo, when there is another repository, and when there is none.
LEMMA NextRepoMoves ==
  ASSUME Setting, Types, NEW t \in Tasks, NextRepo(t)
  PROVE  /\ task' \in [Tasks -> Task] /\ Others(t)
         /\ \/ /\ I(t) < RepoCount /\ UNCHANGED <<rows, ready>>
               /\ task'[t].i = I(t) + 1 /\ task'[t].pc = "branch"
               /\ task'[t].made = task[t].made \union {I(t)}
               /\ task'[t].op = task[t].op /\ task'[t].lane = Lane(t)
               /\ task'[t].crossed = task[t].crossed
            \/ I(t) = RepoCount /\ task'[t] = Idle /\ Finished(t)
<1>1. task \in [Tasks -> Task] /\ task[t] \in Task
  BY DEF Types
<1>2. I(t) \in Repo /\ RepoCount \in Nat /\ task[t].made \subseteq Repo
  BY <1>1 DEF I, Task, Setting
<1>3. CASE I(t) < RepoCount
  <2> DEFINE x == [task[t] EXCEPT !.i = I(t) + 1, !.pc = "branch", !.tried = FALSE,
                                  !.made = task[t].made \union {I(t)}]
  <2>1. task' = [task EXCEPT ![t] = x] /\ UNCHANGED <<rows, ready>>
    BY <1>1, <1>3, Zenon DEF NextRepo, I, Task
  <2>2. I(t) + 1 \in Repo /\ task[t].made \union {I(t)} \subseteq Repo
    BY <1>2, <1>3 DEF Repo
  <2>3. x \in Task /\ x.i = I(t) + 1 /\ x.pc = "branch" /\ x.made = task[t].made \union {I(t)}
        /\ x.op = task[t].op /\ x.lane = task[t].lane /\ x.crossed = task[t].crossed
    BY <1>1, <2>2, Zenon DEF Task, Pcs
  <2> HIDE DEF x
  <2>4. QED
    BY <1>3, <2>1, <2>3, SetMoves, Zenon DEF Lane
<1>4. CASE ~(I(t) < RepoCount)
  <2>1. Finished(t) /\ I(t) = RepoCount
    BY <1>2, <1>4 DEF NextRepo, Repo
  <2>2. QED
    BY <2>1, IdleTask, SetMoves, Zenon DEF Finished
<1>5. QED
  BY <1>3, <1>4

-----------------------------------------------------------------------------
(* Facts about a state. *)

\* Two tasks do not work on a path at a time.
LEMMA Exclusive ==
  ASSUME Inv, NEW t \in Tasks, NEW u \in Tasks, Lane(u) = Lane(t), I(u) = I(t),
         task[t].pc \in {"check"} \union Making \union Clearing,
         task[u].pc \in {"check"} \union Making \union Clearing
  PROVE  u = t
BY DEF Inv, Locking

LEMMA Working ==
  ASSUME Inv, NEW t \in Tasks, task[t].op \in Building \union {"undo"}
  PROVE  Lane(t) \in Lanes
<1>1. Phase(t)
  BY DEF Inv
<1>2. ~At(t, "idle")
  BY <1>1 DEF Phase, Idle, Building
<1>3. task[t].pc \notin {"snap", "next"}
  BY <1>1 DEF Phase, Building
<1>4. QED
  BY <1>1, <1>2, <1>3 DEF Phase, At

\* Nobody counts on a lane that is being removed or rolled back.
LEMMA RemovedUnclaimed ==
  ASSUME Inv, NEW t \in Tasks, task[t].op \in Removals \union {"undo"}, NEW l \in Lanes,
         l = Lane(t), NEW r \in Repo
  PROVE  ~Claimed(l, r)
<1>1. CASE task[t].op \in Removals
  BY <1>1 DEF Inv, Crossing, Claimed
<1>2. CASE task[t].op = "undo"
  <2>1. ready[l] = "no" /\ \A u \in Tasks : u # t /\ Lane(u) = l => task[u].op \in Removals
    BY <1>2 DEF Inv, Alone
  <2>2. \A u \in Tasks : Lane(u) = l => task[u].op \notin Building
    BY <1>2, <2>1 DEF Removals, Building
  <2>3. QED
    BY <2>1, <2>2 DEF Claimed
<1>3. QED
  BY <1>1, <1>2

-----------------------------------------------------------------------------
(* A step of one task that reports nothing. *)

\* The task of t goes on with its lane l, rolls its creation back or leaves it.
MovesOn(t, l) ==
  /\ \/ task'[t].lane = NoLane /\ task'[t].op \notin Building \union {"undo"}
     \/ /\ task'[t].lane = l /\ task'[t].crossed = task[t].crossed
        /\ \/ task'[t].op = task[t].op
           \/ task[t].op = "create" /\ task'[t].op = "undo"
  /\ task'[t].op \in {"create", "undo"} =>
       \A q \in Repo : checkout'[l][q] # None => q \in task'[t].made
  /\ task'[t].op \in Building => task'[t].i = I(t)
  /\ task'[t].pc \in Making =>
       task'[t].i = I(t) /\ (task[t].pc \in Making \/ ~Claimed(l, I(t)))

\* Nothing appears but the folder of l, and what was claimed of l stays whole.
Spares(t, l) ==
  /\ folder' \subseteq folder \union {l}
  /\ \A k \in Lanes, q \in Repo :
       pathLock[k][q] \in Tasks \ {t} => pathLock'[k][q] = pathLock[k][q]
  /\ \A k \in Lanes, q \in Repo :
       checkout'[k][q] = checkout[k][q] \/ (k = l /\ checkout'[k][q] = None)
  /\ \A q \in Repo, n \in Names :
       entries'[q][n] = entries[q][n] \/ (entries[q][n] = l /\ entries'[q][n] = NoLane)
  /\ \A q \in Repo : l \in Lanes /\ checkout'[l][q] # None =>
       Whole(l, q)' \/ \E u \in Tasks : task'[u].pc \in {"rmdir", "rmtree"} /\ Works(u, l, q)'
  /\ \A q \in Repo : l \in Lanes /\ Claimed(l, q) => Whole(l, q)'

\* What a step has to establish for the lane l of its task.
LEMMA StepFrame ==
  ASSUME Setting, Inv, Types', NEW t \in Tasks, Others(t), UNCHANGED <<rows, ready>>,
         Phase(t)', Locking(t)', Cleared(t)', NEW l, l = Lane(t), MovesOn(t, l), Spares(t, l)
  PROVE  Inv'
<1>a. \/ task'[t].lane = NoLane /\ task'[t].op \notin Building \union {"undo"}
      \/ /\ task'[t].lane = l /\ task'[t].crossed = task[t].crossed
         /\ \/ task'[t].op = task[t].op
            \/ task[t].op = "create" /\ task'[t].op = "undo"
  BY DEF MovesOn
<1>b. /\ \A k \in Lanes, q \in Repo :
           checkout'[k][q] = checkout[k][q] \/ (k = l /\ checkout'[k][q] = None)
      /\ \A q \in Repo, n \in Names :
           entries'[q][n] = entries[q][n] \/ (entries[q][n] = l /\ entries'[q][n] = NoLane)
  BY DEF Spares
<1>0. /\ task \in [Tasks -> Task] /\ checkout \in [Lanes -> [Repo -> Names \union {None}]]
      /\ entries \in [Repo -> [Names -> Lanes \union {NoLane}]] /\ NoLane \notin Lanes
      /\ None \notin Names
  BY DEF Inv, Types, Setting, None, Names
<1>1. \A u \in Tasks : Phase(u)'
  BY DEF Inv, Phase, Others, At, Lane
<1>2. \A u \in Tasks : Locking(u)'
  <2>1. ASSUME NEW u \in Tasks \ {t}, task[u].pc \in {"check"} \union Making \union Clearing
        PROVE  pathLock'[Lane(u)][I(u)] = u
    <3>1. pathLock[Lane(u)][I(u)] = u
      BY <2>1 DEF Inv, Locking
    <3>2. Phase(u)
      BY DEF Inv
    <3>3. Lane(u) \in Lanes /\ I(u) \in Repo
      BY <1>0, <2>1, <3>2 DEF Phase, Making, Clearing, I, Task
    <3>4. QED
      BY <3>1, <3>3 DEF Spares
  <2>2. QED
    BY <2>1 DEF Locking, Others, Lane, I
<1>3. \A u \in Tasks : Cleared(u)'
  <2>1. ASSUME NEW u \in Tasks \ {t}, task[u].pc \in {"rmdir", "add"},
               NEW n \in Names, entries'[I(u)][n] = Lane(u)
        PROVE  FALSE
    <3>1. Lane(u) \in Lanes /\ I(u) \in Repo /\ NamesOf(Lane(u), I(u)) = {}
      BY <1>0, <2>1, Zenon DEF Inv, Phase, Cleared, I, Task
    <3>2. QED
      BY <1>0, <1>b, <2>1, <3>1 DEF NamesOf
  <2>2. QED
    BY <2>1 DEF Cleared, Others, Lane, I, NamesOf
<1>4. OneEntry'
  BY <1>0, <1>b DEF Inv, OneEntry
<1>5. \A k \in Lanes \ {l}, q \in Repo : Whole(k, q) => Whole(k, q)'
  <2>1. ASSUME NEW k \in Lanes \ {l}, NEW q \in Repo, Whole(k, q)
        PROVE  Whole(k, q)'
    <3>1. checkout'[k][q] = checkout[k][q] /\ checkout[k][q] \in Names
      BY <1>0, <1>b, <2>1 DEF Whole
    <3>2. entries'[q][checkout[k][q]] = k
      BY <1>b, <2>1, <3>1 DEF Whole
    <3>3. QED
      BY <1>0, <3>1, <3>2 DEF Whole
  <2>2. QED
    BY <2>1
<1>6. Dangling'
  <2>1. ASSUME NEW k \in Lanes, NEW q \in Repo, checkout'[k][q] # None
        PROVE  \/ Whole(k, q)'
               \/ \E u \in Tasks : task'[u].pc \in {"rmdir", "rmtree"} /\ Works(u, k, q)'
    <3>1. CASE k = l
      BY <2>1, <3>1 DEF Spares
    <3>2. CASE k # l
      <4>1. checkout[k][q] # None
        BY <1>b, <2>1, <3>2
      <4>2. CASE Whole(k, q)
        BY <1>5, <3>2, <4>2
      <4>3. CASE \E u \in Tasks : task[u].pc \in {"rmdir", "rmtree"} /\ Works(u, k, q)
        <5>1. PICK u \in Tasks : task[u].pc \in {"rmdir", "rmtree"} /\ Works(u, k, q)
          BY <4>3
        <5>2. u # t
          BY <3>2, <5>1 DEF Works
        <5>3. QED
          BY <5>1, <5>2 DEF Others, Works, Lane, I
      <4>4. QED
        BY <4>1, <4>2, <4>3 DEF Inv, Dangling
    <3>3. QED
      BY <3>1, <3>2
  <2>2. QED
    BY <2>1 DEF Dangling
<1>7. Unborn'
  <2>1. ASSUME NEW k \in Lanes, rows[k] = "none"
        PROVE  /\ k \notin folder' /\ ready[k] = "no"
               /\ \A u \in Tasks : task'[u].lane # k
               /\ \A r \in Repo : checkout'[k][r] = None
    <3>1. /\ k \notin folder /\ ready[k] = "no"
          /\ \A u \in Tasks : task[u].lane # k
          /\ \A r \in Repo : checkout[k][r] = None
      BY <2>1 DEF Inv, Unborn, Lane
    <3>2. QED
      BY <1>0, <1>a, <1>b, <3>1 DEF Others, Lane, Spares
  <2>2. QED
    BY <2>1, Zenon DEF Unborn, Lane
<1>8. Alone'
  <2>1. ASSUME NEW u \in Tasks, task'[u].op \in {"create", "undo"}, NEW v \in Tasks, v # u,
               task'[v].lane = task'[u].lane
        PROVE  task'[v].op \in Removals
    <3>1. task[u].op \in {"create", "undo"} /\ task'[u].lane = Lane(u) /\ Lane(u) \in Lanes
      BY <1>a, <2>1, Working DEF Others, Building, Lane
    <3>2. task[v].lane = Lane(u) /\ (v = t => task'[v].lane # NoLane)
      BY <1>0, <1>a, <2>1, <3>1 DEF Others, Lane
    <3>3. task[v].op \in Removals
      BY <2>1, <3>1, <3>2 DEF Inv, Alone, Lane
    <3>4. QED
      BY <1>a, <3>2, <3>3 DEF Others, Removals
  <2>2. ASSUME NEW u \in Tasks, task'[u].op \in {"create", "undo"}
        PROVE  ready[task'[u].lane] = "no"
    <3>1. task[u].op \in {"create", "undo"} /\ task'[u].lane = Lane(u)
      BY <1>a, <2>2 DEF Others, Building, Lane
    <3>2. QED
      BY <3>1 DEF Inv, Alone
  <2>3. QED
    BY <2>1, <2>2 DEF Alone, Lane
<1>9. Crossing'
  <2>1. ASSUME NEW u \in Tasks, task'[u].op \in Removals, task'[u].lane \in Lanes
        PROVE  /\ ready[task'[u].lane] = "no"
               /\ \A v \in Tasks : task'[v].lane = task'[u].lane /\ task'[v].op \in Building =>
                    task'[v].crossed
    <3>1. task[u].op \in Removals /\ task'[u].lane = Lane(u)
      BY <1>0, <1>a, <2>1 DEF Others, Lane, Removals
    <3>2. /\ ready[Lane(u)] = "no"
          /\ \A v \in Tasks : Lane(v) = Lane(u) /\ task[v].op \in Building => task[v].crossed
      BY <2>1, <3>1 DEF Inv, Crossing
    <3>3. \A v \in Tasks : task'[v].op \in Building =>
            task[v].op \in Building /\ task'[v].lane = Lane(v) /\ task'[v].crossed = task[v].crossed
      BY <1>a DEF Others, Building, Lane
    <3>4. QED
      BY <3>1, <3>2, <3>3
  <2>2. QED
    BY <2>1 DEF Crossing, Lane
<1>10. Recorded'
  <2>1. ASSUME NEW u \in Tasks, task'[u].op \in {"create", "undo"}, NEW q \in Repo,
               checkout'[task'[u].lane][q] # None
        PROVE  q \in task'[u].made
    <3>1. task[u].op \in {"create", "undo"} /\ task'[u].lane = Lane(u) /\ Lane(u) \in Lanes
      BY <1>a, <2>1, Working DEF Others, Building, Lane
    <3>2. CASE u = t
      BY <2>1, <3>1, <3>2 DEF MovesOn
    <3>3. CASE u # t
      <4>1. checkout[Lane(u)][q] # None
        BY <1>b, <2>1, <3>1
      <4>2. QED
        BY <3>1, <3>3, <4>1 DEF Inv, Recorded, Others
    <3>4. QED
      BY <3>2, <3>3
  <2>2. QED
    BY <2>1 DEF Recorded, Lane
<1>11. Claims'
  <2>1. \A u \in Tasks : task'[u].op \in Building =>
          /\ task[u].op \in Building /\ task'[u].lane = Lane(u)
          /\ task'[u].crossed = task[u].crossed /\ task'[u].i = I(u)
    BY <1>a, Zenon DEF MovesOn, Others, Building, Lane, I
  <2>2. \A k \in Lanes, q \in Repo : Claimed(k, q)' => Claimed(k, q)
    BY <2>1, Zenon DEF Claimed, Lane, I
  <2>3. \A k \in Lanes, q \in Repo : Claimed(k, q) => Whole(k, q)'
    BY <1>5 DEF Inv, Claims, Spares
  <2>4. ASSUME NEW k \in Lanes, NEW q \in Repo, Claimed(k, q), NEW u \in Tasks,
               task'[u].lane = k, task'[u].i = q, task'[u].pc \in Making
        PROVE  FALSE
    <3>1. \A v \in Tasks : Lane(v) = k /\ I(v) = q => task[v].pc \notin Making
      BY <2>4, Zenon DEF Inv, Claims, Works
    <3>2. CASE u # t
      BY <2>4, <3>1, <3>2 DEF Others, Lane, I
    <3>3. CASE u = t
      <4>1. task'[t].lane = Lane(t)
        BY <1>0, <1>a, <2>4, <3>3
      <4>2. QED
        BY <2>4, <3>1, <3>3, <4>1, Zenon DEF MovesOn
    <3>4. QED
      BY <3>2, <3>3
  <2>5. QED
    BY <2>2, <2>3, <2>4 DEF Claims, Works, Lane, I
<1>12. QED
  BY <1>1, <1>2, <1>3, <1>4, <1>6, <1>7, <1>8, <1>9, <1>10, <1>11 DEF Inv

\* A step that leaves the repositories alone.
LEMMA QuietStep ==
  ASSUME Setting, Inv, Types', NEW t \in Tasks, Others(t),
         UNCHANGED <<entries, checkout, rows, ready>>, Phase(t)', Locking(t)',
         task[t].pc \notin {"rmdir", "rmtree"}, task'[t].pc \notin {"rmdir", "add"},
         \/ task'[t].lane = NoLane /\ task'[t].op \notin Building \union {"undo"}
         \/ /\ task'[t].lane = Lane(t) /\ task'[t].crossed = task[t].crossed
            /\ \/ task'[t].op = task[t].op
               \/ task[t].op = "create" /\ task'[t].op = "undo",
         task'[t].op \in {"create", "undo"} => task'[t].made = task[t].made,
         task'[t].op \in Building => task'[t].i = I(t),
         task'[t].pc \in Making =>
           task'[t].i = I(t) /\ (task[t].pc \in Making \/ ~Claimed(Lane(t), I(t))),
         folder' \subseteq folder \union {Lane(t)},
         \A k \in Lanes, q \in Repo :
           pathLock[k][q] \in Tasks \ {t} => pathLock'[k][q] = pathLock[k][q]
  PROVE  Inv'
<1>0. SUFFICES ASSUME NEW l, l = Lane(t) PROVE Inv'
  OBVIOUS
<1>1. Cleared(t)'
  BY Zenon DEF Cleared
<1>2. \A k, q : Whole(k, q)' = Whole(k, q)
  BY DEF Whole
<1>3. task'[t].op \in {"create", "undo"} =>
        \A q \in Repo : checkout'[l][q] # None => q \in task'[t].made
  BY <1>0, Zenon DEF Inv, Recorded, Building
<1>4. ASSUME NEW q \in Repo, l \in Lanes, checkout'[l][q] # None
      PROVE  \/ Whole(l, q)'
             \/ \E u \in Tasks : task'[u].pc \in {"rmdir", "rmtree"} /\ Works(u, l, q)'
  <2>1. Whole(l, q) \/ \E u \in Tasks : task[u].pc \in {"rmdir", "rmtree"} /\ Works(u, l, q)
    BY <1>4, Zenon DEF Inv, Dangling
  <2>2. CASE Whole(l, q)
    BY <1>2, <2>2, Zenon
  <2>3. CASE \E u \in Tasks : task[u].pc \in {"rmdir", "rmtree"} /\ Works(u, l, q)
    BY <2>3, Zenon DEF Others, Works, Lane, I
  <2>4. QED
    BY <2>1, <2>2, <2>3, Zenon
<1>5. \A q \in Repo : l \in Lanes /\ Claimed(l, q) => Whole(l, q)'
  BY <1>2 DEF Inv, Claims
<1>6. MovesOn(t, l)
  BY <1>0, <1>3, Zenon DEF MovesOn
<1>7. Spares(t, l)
  BY <1>0, <1>4, <1>5 DEF Spares
<1>8. QED
  BY <1>0, <1>1, <1>6, <1>7, StepFrame, Zenon

\* A lock that a task takes or gives back is not another task's.
LEMMA LockTypes ==
  ASSUME Setting, Types, NEW t \in Tasks, NEW l \in Lanes, NEW r \in Repo, NEW x \in {t, Free},
         pathLock[l][r] \in {t, Free}, pathLock' = [pathLock EXCEPT ![l][r] = x]
  PROVE  /\ pathLock' \in [Lanes -> [Repo -> Tasks \union {Free}]]
         /\ pathLock'[l][r] = x
         /\ \A k \in Lanes, q \in Repo :
              pathLock[k][q] \in Tasks \ {t} => pathLock'[k][q] = pathLock[k][q]
<1>1. pathLock \in [Lanes -> [Repo -> Tasks \union {Free}]] /\ Free \notin Tasks
  BY DEF Types, Setting
<1>2. pathLock'[l][r] = x /\ \A k \in Lanes, q \in Repo :
        ~(k = l /\ q = r) => pathLock'[k][q] = pathLock[k][q]
  BY <1>1
<1>3. pathLock' \in [Lanes -> [Repo -> Tasks \union {Free}]]
  BY <1>1
<1>4. \A k \in Lanes, q \in Repo : pathLock[k][q] \in Tasks \ {t} => ~(k = l /\ q = r)
  BY <1>1
<1>5. QED
  BY <1>2, <1>3, <1>4

LEMMA UnlockMoves ==
  ASSUME Setting, Inv, NEW t \in Tasks, UnlockPath(t),
         task[t].pc \in {"check"} \union Making \union Clearing
  PROVE  /\ pathLock' \in [Lanes -> [Repo -> Tasks \union {Free}]]
         /\ \A k \in Lanes, q \in Repo :
              pathLock[k][q] \in Tasks \ {t} => pathLock'[k][q] = pathLock[k][q]
<1>1. Types /\ Phase(t) /\ pathLock[Lane(t)][I(t)] = t
  BY DEF Inv, Locking
<1>2. SUFFICES ASSUME NEW l \in Lanes, NEW r \in Repo, l = Lane(t), r = I(t)
               PROVE  /\ pathLock' \in [Lanes -> [Repo -> Tasks \union {Free}]]
                      /\ \A k \in Lanes, q \in Repo :
                           pathLock[k][q] \in Tasks \ {t} => pathLock'[k][q] = pathLock[k][q]
  BY <1>1 DEF Phase, Types, Task, I, Making, Clearing
<1>3. pathLock' = [pathLock EXCEPT ![l][r] = Free] /\ pathLock[l][r] = t
  BY <1>1, <1>2, ZenonT(30) DEF UnlockPath
<1>4. QED
  BY <1>1, <1>3, LockTypes, Zenon

LEMMA LockPathStep ==
  ASSUME Setting, Inv, NEW t \in Tasks, LockPath(t)
  PROVE  Inv'
<1> DEFINE p == IF task[t].op \in Building THEN "check" ELSE "repo"
<1>1. /\ At(t, "lock") /\ pathLock[Lane(t)][I(t)] = Free /\ Go(t, p)
      /\ pathLock' = [pathLock EXCEPT ![Lane(t)][I(t)] = t]
      /\ UNCHANGED <<entries, checkout, branch, folder, rows, repoLock, ready, begun, hidden>>
  BY DEF LockPath, Building
<1>2. Types /\ Phase(t) /\ task[t] \in Task /\ Free \notin Tasks
  BY DEF Inv, Types, Setting
<1>3. Lane(t) \in Lanes /\ I(t) \in Repo /\ task[t].op # "none"
  BY <1>1, <1>2 DEF Phase, At, I, Task
<1>4. task' \in [Tasks -> Task] /\ Others(t) /\ task'[t].pc = p /\ Stays(t)
  BY <1>1, <1>2, GoMoves DEF Pcs, Making, Clearing
<1>5. /\ pathLock' \in [Lanes -> [Repo -> Tasks \union {Free}]] /\ pathLock'[Lane(t)][I(t)] = t
      /\ \A k \in Lanes, q \in Repo :
           pathLock[k][q] \in Tasks \ {t} => pathLock'[k][q] = pathLock[k][q]
  BY <1>1, <1>2, <1>3, LockTypes, ZenonT(30)
<1>6. Types'
  BY <1>1, <1>2, <1>4, <1>5 DEF Types
<1>7. task[t].op \in Building \union Removals \union {"undo"}
  BY <1>2, <1>3, Zenon DEF Task, AllOps, Building, Removals
<1>8. Phase(t)'
  BY <1>2, <1>3, <1>4, <1>7, Zenon DEF Phase, At, Lane, Stays, Making, Clearing
<1>9. Locking(t)'
  BY <1>4, <1>5 DEF Locking, Stays, Lane, I
<1>10. p \in {"check", "repo"} /\ task[t].pc = "lock"
  BY <1>1 DEF At
<1>11. QED
  BY <1>1, <1>4, <1>5, <1>6, <1>8, <1>9, <1>10, QuietStep DEF Stays, Lane, I, Making

LEMMA SkipsMissingStep ==
  ASSUME Setting, Inv, NEW t \in Tasks, SkipsMissing(t)
  PROVE  Inv'
<1> DEFINE x == [task[t] EXCEPT !.i = IF I(t) < RepoCount THEN I(t) + 1 ELSE 1,
                                !.pc = IF I(t) < RepoCount THEN "lock" ELSE "rmall"]
<1>1. /\ At(t, "lock") /\ task[t].op = "sweep"
      /\ UNCHANGED <<entries, checkout, branch, folder, rows, pathLock, repoLock, ready, begun,
                     hidden>>
  BY DEF SkipsMissing
<1>2. Types /\ Phase(t) /\ task[t] \in Task /\ task \in [Tasks -> Task]
  BY DEF Inv, Types
<1>3. Lane(t) \in Lanes /\ I(t) \in Repo /\ RepoCount \in Nat \ {0}
  BY <1>1, <1>2 DEF Phase, At, I, Task, Setting
<1>4. task' = [task EXCEPT ![t] = x]
  BY <1>2, Zenon DEF SkipsMissing, I
<1>5. (IF I(t) < RepoCount THEN I(t) + 1 ELSE 1) \in Repo
  BY <1>3 DEF Repo
<1>6. /\ x \in Task /\ x.op = "sweep" /\ x.lane = Lane(t) /\ x.pc \in {"lock", "rmall"}
      /\ x.crossed = task[t].crossed
  BY <1>1, <1>2, <1>5, Zenon DEF Task, Pcs, Lane
<1> HIDE DEF x
<1>7. task' \in [Tasks -> Task] /\ Others(t) /\ task'[t] = x
  BY <1>2, <1>4, <1>6, SetMoves, Zenon
<1>8. Types' /\ Locking(t)'
  BY <1>1, <1>2, <1>6, <1>7, Zenon DEF Types, Locking, Making, Clearing
<1>9. Phase(t)'
  BY <1>3, <1>6, <1>7, ZenonT(30) DEF Phase, At, Lane, Making, Clearing, Removals
<1>10. QED
  BY <1>1, <1>6, <1>7, <1>8, <1>9, QuietStep DEF At, Making, Building

\* The path is set up for a lane that somebody counts on.
LEMMA CheckFails ==
  ASSUME Setting, Inv, NEW t \in Tasks, At(t, "check"), ~ProperlySetUp(Lane(t), I(t)),
         Go(t, "remove"), UNCHANGED <<entries, checkout, folder, rows, ready, pathLock>>
  PROVE  Inv'
<1>1. Types /\ Phase(t) /\ Locking(t) /\ task[t] \in Task
  BY DEF Inv, Types
<1>2. Lane(t) \in Lanes /\ I(t) \in Repo /\ task[t].op \in Building
  BY <1>1, Zenon DEF Phase, At, I, Task
<1>3. task' \in [Tasks -> Task] /\ Others(t) /\ task'[t].pc = "remove" /\ Stays(t)
  BY <1>1, GoMoves DEF Pcs, Making
<1>4. Types'
  BY <1>1, <1>3, Zenon DEF Types
<1>5. Phase(t)' /\ Locking(t)'
  BY <1>1, <1>2, <1>3 DEF Phase, Locking, At, Lane, I, Stays, Making, Clearing
<1>6. ~Claimed(Lane(t), I(t))
  <2>1. SUFFICES ASSUME Claimed(Lane(t), I(t)) PROVE FALSE
    OBVIOUS
  <2>2. Whole(Lane(t), I(t))
    BY <1>2, <2>1, Zenon DEF Inv, Claims
  <2>3. checkout[Lane(t)][I(t)] \in Names
    BY <1>1, <1>2, <2>2 DEF Types, Whole
  <2>4. QED
    BY <2>2, <2>3 DEF Whole, ProperlySetUp, NamesOf
<1>7. QED
  BY <1>3, <1>4, <1>5, <1>6, QuietStep DEF At, Stays, Lane, I, Making

LEMMA LockRepoStep ==
  ASSUME Setting, Inv, NEW t \in Tasks, LockRepo(t)
  PROVE  Inv'
<1>1. /\ task[t].pc = "repo" /\ (Go(t, "clean") \/ Go(t, "rmtree"))
      /\ UNCHANGED <<entries, checkout, folder, rows, pathLock, ready>>
  BY DEF LockRepo, At
<1>2. Types /\ Phase(t) /\ Locking(t) /\ task[t] \in Task
  BY DEF Inv, Types
<1>3. /\ task' \in [Tasks -> Task] /\ Others(t) /\ task'[t].pc \in {"clean", "rmtree"}
      /\ Stays(t)
  BY <1>1, <1>2, GoMoves DEF Pcs, Clearing
<1>4. Types'
  BY <1>1, <1>2, <1>3, Zenon DEF Types
<1>5. Phase(t)' /\ Locking(t)'
  BY <1>1, <1>2, <1>3 DEF Phase, Locking, At, Lane, I, Stays, Making, Clearing
<1>6. QED
  BY <1>1, <1>3, <1>4, <1>5, QuietStep, Zenon DEF Stays, Lane, I, Making

\* The task ends, or takes up its next repository, without touching any.
LEMMA EndStep ==
  ASSUME Setting, Inv, NEW t \in Tasks, task' = [task EXCEPT ![t] = Idle],
         UNCHANGED <<entries, checkout, rows, ready, pathLock>>, folder' \subseteq folder,
         task[t].pc \notin {"rmdir", "rmtree"}
  PROVE  Inv'
<1>1. Types
  BY DEF Inv
<1>2. task' \in [Tasks -> Task] /\ Others(t) /\ task'[t] = Idle
  BY <1>1, IdleTask, SetMoves, Zenon
<1>3. task'[t].pc = "idle" /\ task'[t].op = "none" /\ task'[t].lane = NoLane
  BY <1>2 DEF Idle
<1>4. Types'
  BY <1>1, <1>2 DEF Types
<1>5. Phase(t)' /\ Locking(t)'
  BY <1>2, <1>3 DEF Phase, Locking, At, Making, Clearing
<1>6. QED
  BY <1>2, <1>3, <1>4, <1>5, QuietStep DEF Making, Building

LEMMA DeletesBranchesStep ==
  ASSUME Setting, Inv, NEW t \in Tasks, DeletesBranches(t)
  PROVE  Inv'
<1>1. task[t].pc = "branches" /\ UNCHANGED <<entries, checkout, folder, rows, pathLock, ready>>
  BY Zenon DEF DeletesBranches, At
<1>2. CASE I(t) < RepoCount
  <2> DEFINE x == [task[t] EXCEPT !.i = I(t) + 1]
  <2>1. Types /\ Phase(t) /\ task[t] \in Task /\ RepoCount \in Nat
    BY DEF Inv, Types, Setting
  <2>2. task' = [task EXCEPT ![t] = x]
    BY <1>2, <2>1 DEF DeletesBranches, I
  <2>3. I(t) + 1 \in Repo
    BY <1>2, <2>1 DEF I, Task, Repo
  <2>4. /\ x \in Task /\ x.pc = "branches" /\ x.op = task[t].op /\ x.lane = task[t].lane
        /\ x.made = task[t].made /\ x.crossed = task[t].crossed
    BY <1>1, <2>1, <2>3 DEF Task
  <2> HIDE DEF x
  <2>5. task' \in [Tasks -> Task] /\ Others(t) /\ task'[t] = x
    BY <2>1, <2>2, <2>4, SetMoves, Zenon
  <2>6. task[t].op \in Removals
    BY <1>1, <2>1, Zenon DEF Phase
  <2>7. Types' /\ Locking(t)'
    BY <1>1, <2>1, <2>4, <2>5 DEF Types, Locking, Making, Clearing
  <2>8. Phase(t)'
    BY <1>1, <2>1, <2>4, <2>5 DEF Phase, At, Lane, Making, Clearing
  <2>9. QED
    BY <1>1, <2>4, <2>5, <2>6, <2>7, <2>8, QuietStep DEF Lane, Making, Building, Removals
<1>3. CASE ~(I(t) < RepoCount)
  BY <1>1, <1>3, EndStep, Zenon DEF DeletesBranches
<1>4. QED
  BY <1>2, <1>3, Zenon

-----------------------------------------------------------------------------
(* Removals of a path's entry and checkout. *)

LEMMA WithoutPathEntries ==
  ASSUME Types, NEW l \in Lanes, NEW r \in Repo,
         entries' = [entries EXCEPT ![r] = WithoutPath(l, r)]
  PROVE  /\ entries' \in [Repo -> [Names -> Lanes \union {NoLane}]]
         /\ \A q \in Repo, n \in Names :
              entries'[q][n] = IF q = r /\ entries[q][n] = l THEN NoLane ELSE entries[q][n]
<1>1. entries \in [Repo -> [Names -> Lanes \union {NoLane}]]
  BY DEF Types
<1>2. /\ WithoutPath(l, r) \in [Names -> Lanes \union {NoLane}]
      /\ \A n \in Names : WithoutPath(l, r)[n] = IF entries[r][n] = l THEN NoLane ELSE entries[r][n]
  BY <1>1 DEF WithoutPath
<1>3. QED
  BY <1>1, <1>2

LEMMA NoCheckout ==
  ASSUME Types, NEW l \in Lanes, NEW r \in Repo, checkout' = [checkout EXCEPT ![l][r] = None]
  PROVE  /\ checkout' \in [Lanes -> [Repo -> Names \union {None}]]
         /\ \A k \in Lanes, q \in Repo :
              checkout'[k][q] = IF k = l /\ q = r THEN None ELSE checkout[k][q]
<1>1. checkout \in [Lanes -> [Repo -> Names \union {None}]]
  BY Zenon DEF Types
<1>2. QED
  BY <1>1

\* Nothing of git's changes but the path of l in r, and nothing appears there.
OnlyPath(l, r) ==
  /\ folder' \subseteq folder \union {l}
  /\ \A k \in Lanes, q \in Repo :
       checkout'[k][q] = checkout[k][q] \/ (k = l /\ q = r /\ checkout'[k][q] = None)
  /\ \A q \in Repo, n \in Names :
       \/ entries'[q][n] = entries[q][n]
       \/ q = r /\ entries[q][n] = l /\ entries'[q][n] = NoLane

\* A step that works on the path (l, r) leaves the other paths of l as they are.
LEMMA PathStep ==
  ASSUME Setting, Inv, Types', NEW t \in Tasks, Others(t), UNCHANGED <<rows, ready, pathLock>>,
         Phase(t)', Locking(t)', Cleared(t)', Stays(t),
         NEW l \in Lanes, l = Lane(t), NEW r \in Repo, r = I(t),
         task[t].pc \in Making \union Clearing,
         task'[t].pc \in Making => task[t].pc \in Making,
         OnlyPath(l, r), checkout'[l][r] = None \/ task'[t].pc \in {"rmdir", "rmtree"}
  PROVE  Inv'
<1>1. ~Claimed(l, r)
  <2>1. CASE task[t].pc \in Making
    BY <2>1, Zenon DEF Inv, Claims, Works
  <2>2. CASE task[t].pc \in Clearing
    BY <2>2, RemovedUnclaimed, Zenon DEF Inv, Phase
  <2>3. QED
    BY <2>1, <2>2, Zenon
<1>2. \A q \in Repo \ {r} : Whole(l, q) => Whole(l, q)'
  <2>1. checkout[l] \in [Repo -> Names \union {None}]
    BY Zenon DEF Inv, Types
  <2>2. ASSUME NEW q \in Repo, q # r, Whole(l, q)
        PROVE  Whole(l, q)'
    <3>1. checkout'[l][q] = checkout[l][q]
      BY <2>2, Zenon DEF OnlyPath
    <3>2. checkout[l][q] \in Names /\ entries[q][checkout[l][q]] = l
      BY <2>1, <2>2, Zenon DEF Whole
    <3>3. entries'[q][checkout[l][q]] = l
      BY <2>2, <3>2, Zenon DEF OnlyPath
    <3>4. QED
      BY <2>2, <3>1, <3>3, Zenon DEF Whole
  <2>3. QED
    BY <2>2, Zenon
<1>3. \A q \in Repo : l \in Lanes /\ Claimed(l, q) => Whole(l, q)'
  BY <1>1, <1>2, Zenon DEF Inv, Claims
<1>4. ASSUME NEW q \in Repo, checkout'[l][q] # None
      PROVE  \/ Whole(l, q)'
             \/ \E u \in Tasks : task'[u].pc \in {"rmdir", "rmtree"} /\ Works(u, l, q)'
  <2>1. CASE q = r
    BY <1>4, <2>1, Zenon DEF Stays, Works, Lane, I
  <2>2. CASE q # r
    <3>1. checkout[l][q] # None
      BY <1>4, <2>2, Zenon DEF OnlyPath
    <3>2. CASE Whole(l, q)
      BY <1>2, <2>2, <3>2, Zenon
    <3>3. CASE \E u \in Tasks : task[u].pc \in {"rmdir", "rmtree"} /\ Works(u, l, q)
      BY <2>2, <3>3, Zenon DEF Others, Works, Lane, I
    <3>4. QED
      BY <3>1, <3>2, <3>3, Zenon DEF Inv, Dangling
  <2>3. QED
    BY <2>1, <2>2, Zenon
<1>5. task'[t].op \in {"create", "undo"} =>
        \A q \in Repo : checkout'[l][q] # None => q \in task'[t].made
  <2>1. task'[t].op \in {"create", "undo"} =>
          \A q \in Repo : checkout[l][q] # None => q \in task[t].made
    BY Zenon DEF Inv, Recorded, Stays
  <2>2. QED
    BY <2>1, Zenon DEF Stays, OnlyPath
<1>6. MovesOn(t, l)
  BY <1>5, Zenon DEF MovesOn, Stays, Lane, I
<1>7. Spares(t, l)
  BY <1>3, <1>4, Zenon DEF Spares, OnlyPath
<1>8. QED
  BY <1>6, <1>7, StepFrame

\* What each step of a task on its path starts from.
LEMMA OnPath ==
  ASSUME Inv, NEW t \in Tasks, task[t].pc \in {"check"} \union Making \union Clearing
  PROVE  /\ Types /\ Phase(t) /\ Locking(t) /\ task[t] \in Task
         /\ Lane(t) \in Lanes /\ I(t) \in Repo
<1>1. Types /\ Phase(t) /\ Locking(t) /\ task[t] \in Task
  BY DEF Inv, Types
<1>2. QED
  BY <1>1 DEF Phase, I, Task, Making, Clearing

\* A task that goes on along its path keeps its phase and its lock.
LEMMA GoesOn ==
  ASSUME Inv, NEW t \in Tasks, NEW pc \in Making \union Clearing, Go(t, pc),
         task[t].pc \in Making \union Clearing, pc \in Making <=> task[t].pc \in Making,
         UNCHANGED pathLock
  PROVE  /\ task' \in [Tasks -> Task] /\ Others(t) /\ task'[t].pc = pc /\ Stays(t)
         /\ Phase(t)' /\ Locking(t)'
<1>1. Types /\ Phase(t) /\ Locking(t)
  BY OnPath, Zenon
<1>2. task' \in [Tasks -> Task] /\ Others(t) /\ task'[t].pc = pc /\ Stays(t)
  BY <1>1, GoMoves, Zenon DEF Pcs
<1>3. Phase(t)'
  BY <1>1, <1>2, Zenon DEF Phase, At, Lane, Stays, Making, Clearing
<1>4. Locking(t)'
  BY <1>1, <1>2 DEF Locking, Lane, I, Stays, Making, Clearing
<1>5. QED
  BY <1>2, <1>3, <1>4

LEMMA RemovesStep ==
  ASSUME Setting, Inv, NEW t \in Tasks,
         Removes(t, "remove", "meta") \/ Removes(t, "clean", "metas")
  PROVE  Inv'
<1>1. /\ \/ task[t].pc = "remove" /\ Go(t, "meta")
         \/ task[t].pc = "clean" /\ Go(t, "metas")
      /\ GitRemove(Lane(t), I(t)) \/ UNCHANGED <<entries, checkout>>
      /\ UNCHANGED <<folder, rows, pathLock, ready>>
  BY DEF Removes, At
<1>2. Types /\ Lane(t) \in Lanes /\ I(t) \in Repo
  BY <1>1, OnPath, Zenon DEF Making, Clearing
<1>3. PICK p \in {"meta", "metas"} : Go(t, p) /\ (p = "meta" <=> task[t].pc = "remove")
                                     /\ task[t].pc \in {"remove", "clean"}
  BY <1>1, Zenon
<1>4. /\ task' \in [Tasks -> Task] /\ Others(t) /\ task'[t].pc = p /\ Stays(t)
      /\ Phase(t)' /\ Locking(t)'
  BY <1>1, <1>3, GoesOn, Zenon DEF Making, Clearing
<1>5. CASE UNCHANGED <<entries, checkout>>
  <2>1. Types'
    BY <1>1, <1>2, <1>4, <1>5, Zenon DEF Types
  <2>2. QED
    BY <1>1, <1>3, <1>4, <1>5, <2>1, QuietStep, Zenon DEF Stays, Lane, I, Making
<1>6. CASE /\ entries' = [entries EXCEPT ![I(t)] = WithoutPath(Lane(t), I(t))]
           /\ checkout' = [checkout EXCEPT ![Lane(t)][I(t)] = None]
  <2>1. SUFFICES ASSUME NEW l \in Lanes, l = Lane(t), NEW r \in Repo, r = I(t) PROVE Inv'
    BY <1>2
  <2>2. /\ entries' \in [Repo -> [Names -> Lanes \union {NoLane}]]
        /\ \A q \in Repo, n \in Names :
             entries'[q][n] = IF q = r /\ entries[q][n] = l THEN NoLane ELSE entries[q][n]
    <3>1. entries' = [entries EXCEPT ![r] = WithoutPath(l, r)]
      BY <1>6, <2>1
    <3>2. QED
      BY <1>2, <3>1, WithoutPathEntries, ZenonT(30)
  <2>3. /\ checkout' \in [Lanes -> [Repo -> Names \union {None}]]
        /\ \A k \in Lanes, q \in Repo :
             checkout'[k][q] = IF k = l /\ q = r THEN None ELSE checkout[k][q]
    BY <1>2, <1>6, <2>1, NoCheckout, ZenonT(30)
  <2>4. Types'
    BY <1>1, <1>2, <1>4, <2>2, <2>3 DEF Types
  <2>5. Cleared(t)'
    BY <1>3, <1>4, Zenon DEF Cleared
  <2>6. task[t].pc \in Making \union Clearing /\ (task'[t].pc \in Making => task[t].pc \in Making)
    BY <1>3, <1>4, Zenon DEF Making, Clearing
  <2>7. checkout'[l][r] = None
    BY <2>3
  <2>8. OnlyPath(l, r)
    BY <1>1, <2>2, <2>3, Zenon DEF OnlyPath
  <2>9. QED
    BY <1>1, <1>4, <2>1, <2>4, <2>5, <2>6, <2>7, <2>8, PathStep
<1>7. QED
  BY <1>1, <1>5, <1>6, Zenon DEF GitRemove

LEMMA CleansMetadataStep ==
  ASSUME Setting, Inv, NEW t \in Tasks,
         CleansMetadata(t, "meta", "rmdir") \/ CleansMetadata(t, "metas", "rmtree")
  PROVE  Inv'
<1>1. /\ \/ task[t].pc = "meta" /\ Go(t, "rmdir")
         \/ task[t].pc = "metas" /\ Go(t, "rmtree")
      /\ entries' = [entries EXCEPT ![I(t)] = WithoutPath(Lane(t), I(t))]
      /\ UNCHANGED <<checkout, folder, rows, pathLock, ready>>
  BY Zenon DEF CleansMetadata, CleanMetadata, At
<1>2. Types /\ Lane(t) \in Lanes /\ I(t) \in Repo
  BY <1>1, OnPath, Zenon DEF Making, Clearing
<1>3. PICK p \in {"rmdir", "rmtree"} : Go(t, p) /\ (p = "rmdir" <=> task[t].pc = "meta")
                                       /\ task[t].pc \in {"meta", "metas"}
  BY <1>1, SMTT(30)
<1>4. /\ task' \in [Tasks -> Task] /\ Others(t) /\ task'[t].pc = p /\ Stays(t)
      /\ Phase(t)' /\ Locking(t)'
  BY <1>1, <1>3, GoesOn DEF Making, Clearing
<1>5. SUFFICES ASSUME NEW l \in Lanes, l = Lane(t), NEW r \in Repo, r = I(t) PROVE Inv'
  BY <1>2
<1>6. /\ entries' \in [Repo -> [Names -> Lanes \union {NoLane}]]
      /\ \A q \in Repo, n \in Names :
           entries'[q][n] = IF q = r /\ entries[q][n] = l THEN NoLane ELSE entries[q][n]
  <2>1. entries' = [entries EXCEPT ![r] = WithoutPath(l, r)]
    BY <1>1, <1>5
  <2>2. QED
    BY <1>2, <2>1, WithoutPathEntries, ZenonT(30)
<1>7. Types'
  BY <1>1, <1>2, <1>4, <1>6 DEF Types
<1>8. Cleared(t)'
  <2>1. \A n \in Names : entries'[r][n] # l
    BY <1>6 DEF Setting
  <2>2. Lane(t)' = l /\ I(t)' = r
    BY <1>4, <1>5 DEF Stays, Lane, I
  <2>3. NamesOf(Lane(t), I(t))' = {}
    BY <2>1, <2>2, Zenon DEF NamesOf
  <2>4. QED
    BY <2>3 DEF Cleared
<1>9. /\ task[t].pc \in Making \union Clearing /\ (task'[t].pc \in Making => task[t].pc \in Making)
      /\ task'[t].pc \in {"rmdir", "rmtree"}
  BY <1>3, <1>4, Zenon DEF Making, Clearing
<1>10. OnlyPath(l, r)
  BY <1>1, <1>6, Zenon DEF OnlyPath
<1>11. QED
  BY <1>1, <1>4, <1>5, <1>7, <1>8, <1>9, <1>10, PathStep, Zenon

LEMMA RemovesDirStep ==
  ASSUME Setting, Inv, NEW t \in Tasks, RemovesDir(t)
  PROVE  Inv'
<1>1. /\ task[t].pc = "rmdir" /\ Go(t, "add") /\ folder' = folder \union {Lane(t)}
      /\ checkout' = [checkout EXCEPT ![Lane(t)][I(t)] = None]
      /\ UNCHANGED <<entries, rows, pathLock, ready>>
  BY DEF RemovesDir, At
<1>2. Types /\ Lane(t) \in Lanes /\ I(t) \in Repo
  BY <1>1, OnPath DEF Making, Clearing
<1>3. /\ task' \in [Tasks -> Task] /\ Others(t) /\ task'[t].pc = "add" /\ Stays(t)
      /\ Phase(t)' /\ Locking(t)'
  BY <1>1, GoesOn DEF Making, Clearing
<1>4. SUFFICES ASSUME NEW l \in Lanes, l = Lane(t), NEW r \in Repo, r = I(t) PROVE Inv'
  BY <1>2
<1>5. /\ checkout' \in [Lanes -> [Repo -> Names \union {None}]]
      /\ \A k \in Lanes, q \in Repo :
           checkout'[k][q] = IF k = l /\ q = r THEN None ELSE checkout[k][q]
  BY <1>1, <1>2, <1>4, NoCheckout, ZenonT(30)
<1>6. Types'
  BY <1>1, <1>2, <1>3, <1>5 DEF Types
<1>7. Cleared(t)'
  <2>1. NamesOf(Lane(t), I(t)) = {}
    BY <1>1, Zenon DEF Inv, Cleared
  <2>2. QED
    BY <1>1, <1>3, <2>1 DEF Cleared, NamesOf, Stays, Lane, I
<1>8. task[t].pc \in Making /\ checkout'[l][r] = None
  BY <1>1, <1>5, Zenon DEF Making
<1>9. OnlyPath(l, r)
  BY <1>1, <1>4, <1>5 DEF OnlyPath
<1>10. QED
  BY <1>1, <1>3, <1>4, <1>6, <1>7, <1>8, <1>9, PathStep

LEMMA RemovesAllStep ==
  ASSUME Setting, Inv, NEW t \in Tasks, RemovesAll(t)
  PROVE  Inv'
<1> DEFINE x == IF task[t].op = "delete" THEN [task[t] EXCEPT !.pc = "branches"]
                ELSE IF task[t].op = "sweep" THEN [task[t] EXCEPT !.lane = NoLane, !.pc = "next"]
                ELSE Idle
<1>1. /\ task[t].pc = "rmall" /\ task' = [task EXCEPT ![t] = x]
      /\ checkout' = [checkout EXCEPT ![Lane(t)] = [r \in Repo |-> None]]
      /\ folder' = folder \ {Lane(t)} /\ UNCHANGED <<entries, rows, pathLock, ready>>
  BY DEF RemovesAll, At
<1>2. Types /\ Phase(t) /\ task[t] \in Task
  BY DEF Inv, Types
<1>3. task[t].op \in Removals /\ Lane(t) \in Lanes
  BY <1>1, <1>2 DEF Phase
<1>4. /\ x \in Task
      /\ \/ x.lane = Lane(t) /\ x.op = task[t].op /\ x.pc = "branches" /\ x.crossed = task[t].crossed
         \/ x.lane = NoLane /\ x.op = "sweep" /\ x.pc = "next"
         \/ x = Idle
  BY <1>2, IdleTask, ZenonT(30) DEF Task, Pcs, Lane
<1> HIDE DEF x
<1>5. task' \in [Tasks -> Task] /\ Others(t) /\ task'[t] = x
  BY <1>1, <1>2, <1>4, SetMoves, Zenon
<1>6. SUFFICES ASSUME NEW l \in Lanes, l = Lane(t) PROVE Inv'
  BY <1>3
<1>7. /\ checkout' \in [Lanes -> [Repo -> Names \union {None}]]
      /\ \A k \in Lanes, q \in Repo :
           checkout'[k][q] = IF k = l THEN None ELSE checkout[k][q]
  BY <1>1, <1>2, <1>6 DEF Types
<1>8. Types'
  BY <1>1, <1>2, <1>5, <1>7 DEF Types
<1>9. x.pc \in {"branches", "next", "idle"} /\ x.op \in Removals \union {"none"}
  BY <1>3, <1>4, IdleFields, Zenon DEF Removals
<1>10. Phase(t)'
  <2>1. CASE x.lane \in Lanes /\ x.op \in Removals /\ x.pc = "branches"
    BY <1>5, <2>1, Zenon DEF Phase, At, Lane, Making, Clearing, Removals
  <2>2. CASE x.lane = NoLane /\ x.op = "sweep" /\ x.pc = "next"
    BY <1>5, <2>2, Zenon DEF Phase, At, Lane, Making, Clearing
  <2>3. CASE x = Idle
    BY <1>5, <2>3, IdleFields, Zenon DEF Phase, At, Making, Clearing
  <2>4. QED
    BY <1>3, <1>4, <2>1, <2>2, <2>3
<1>11. Locking(t)' /\ Cleared(t)'
  BY <1>5, <1>9 DEF Locking, Cleared, Making, Clearing
<1>12. \A q \in Repo : ~Claimed(l, q)
  BY <1>3, <1>6, RemovedUnclaimed, Zenon
<1>13. \/ x.lane = NoLane
       \/ x.lane = l /\ x.op = task[t].op /\ x.crossed = task[t].crossed
  BY <1>4, <1>6 DEF Idle
<1>14. x.op \notin Building \union {"create", "undo"} /\ x.pc \notin Making
  BY <1>9, Zenon DEF Removals, Building, Making
<1>15. MovesOn(t, l)
  BY <1>5, <1>6, <1>13, <1>14, Zenon DEF MovesOn
<1>16. Spares(t, l)
  BY <1>1, <1>6, <1>7, <1>12 DEF Spares
<1>17. QED
  BY <1>1, <1>5, <1>6, <1>8, <1>10, <1>11, <1>15, <1>16, StepFrame

LEMMA RemovesEmptyStep ==
  ASSUME Setting, Inv, NEW t \in Tasks, RemovesEmpty(t)
  PROVE  Inv'
<1>1. /\ task[t].pc = "rmempty" /\ task' = [task EXCEPT ![t] = Idle] /\ folder' \subseteq folder
      /\ UNCHANGED <<entries, checkout, rows, ready, pathLock>>
  BY DEF RemovesEmpty, At
<1>2. QED
  BY <1>1, EndStep, Zenon

-----------------------------------------------------------------------------
(* Removals begin. *)

\* A removal of lane l begins.
LEMMA RemovalBegins ==
  ASSUME Setting, Inv, NEW t \in Tasks, task[t].pc \in {"idle", "snap", "next"}, NEW l \in Lanes,
         task' \in [Tasks -> Task], task'[t].op \in Removals, task'[t].lane = l,
         task'[t].pc \in {"lock", "branches"},
         \A u \in Tasks \ {t} : task'[u] = Crossed(l)[u],
         UNCHANGED <<entries, checkout, folder, pathLock>>, ready' = [ready EXCEPT ![l] = "no"],
         rows' \in [Lanes -> {"none", "made", "registered", "gone"}], rows[l] # "none",
         \A k \in Lanes : rows'[k] = "none" => rows[k] = "none"
  PROVE  Inv'
<1>1. Types /\ NoLane \notin Lanes /\ task \in [Tasks -> Task] /\ ready \in [Lanes -> {"no", "yes"}]
      /\ Lane(t) = NoLane
  BY SMTT(30) DEF Inv, Types, Setting, Phase, At, Idle, Lane
<1>2. \A k \in Lanes : ready'[k] = IF k = l THEN "no" ELSE ready[k]
  BY <1>1
<1>3. Types'
  BY <1>1, <1>2, Zenon DEF Types
<1>4. ASSUME NEW u \in Tasks \ {t}
      PROVE  /\ task'[u].op = task[u].op /\ task'[u].lane = task[u].lane /\ task'[u].i = task[u].i
             /\ task'[u].pc = task[u].pc /\ task'[u].made = task[u].made
             /\ task'[u].crossed = (task[u].crossed \/ task[u].lane = l)
             /\ task[u].lane # l => task'[u] = task[u]
  <2>1. task[u] \in Task
    BY <1>1, Zenon
  <2>2. task'[u] = IF task[u].lane = l THEN [task[u] EXCEPT !.crossed = TRUE] ELSE task[u]
    BY <1>4, Zenon DEF Crossed
  <2>3. QED
    BY <2>1, <2>2, ZenonT(30) DEF Task
<1>5. \A u \in Tasks : Phase(u)' /\ Locking(u)' /\ Cleared(u)'
  <2>1. Phase(t)' /\ Locking(t)' /\ Cleared(t)'
    BY SMTT(30) DEF Phase, Locking, Cleared, At, Lane, Making, Clearing, Removals
  <2>2. ASSUME NEW u \in Tasks \ {t} PROVE Phase(u)' /\ Locking(u)' /\ Cleared(u)'
    <3>1. Phase(u) /\ Locking(u) /\ Cleared(u)
      BY ZenonT(30) DEF Inv
    <3>2. At(u, "idle")' => task'[u] = Idle
      <4>1. At(u, "idle")' => task[u] = Idle
        BY <1>4, <3>1, Zenon DEF Phase, At
      <4>2. Idle.lane # l
        BY <1>1, Zenon DEF Idle
      <4>3. QED
        BY <1>4, <4>1, <4>2, Zenon
    <3>3. Phase(u)'
      BY <1>4, <3>1, <3>2, Zenon DEF Phase, At, Lane
    <3>4. QED
      <4>1. Lane(u)' = Lane(u) /\ I(u)' = I(u) /\ task'[u].pc = task[u].pc
        BY <1>4, Zenon DEF Lane, I
      <4>2. NamesOf(Lane(u), I(u))' = NamesOf(Lane(u), I(u))
        BY <4>1, Zenon DEF NamesOf
      <4>3. QED
        BY <3>1, <3>3, <4>1, <4>2, Zenon DEF Locking, Cleared
  <2>3. QED
    BY <2>1, <2>2, Zenon
<1>6. OneEntry'
  BY Zenon DEF Inv, OneEntry
<1>7. Dangling'
  <2>1. \A k \in Lanes, q \in Repo : Whole(k, q)' <=> Whole(k, q)
    BY Zenon DEF Whole
  <2>2. ASSUME NEW u \in Tasks, task[u].pc \in {"rmdir", "rmtree"}
        PROVE  task'[u].pc = task[u].pc /\ Lane(u)' = Lane(u) /\ I(u)' = I(u)
    <3>1. u # t
      BY <2>2
    <3>2. QED
      BY <1>4, <3>1, Zenon DEF Lane, I
  <2>3. ASSUME NEW k \in Lanes, NEW q \in Repo, checkout[k][q] # None, ~Whole(k, q)
        PROVE  \E u \in Tasks : task'[u].pc \in {"rmdir", "rmtree"} /\ Works(u, k, q)'
    <3>1. PICK u \in Tasks : task[u].pc \in {"rmdir", "rmtree"} /\ Works(u, k, q)
      BY <2>3, Zenon DEF Inv, Dangling
    <3>2. QED
      BY <2>2, <3>1, Zenon DEF Works
  <2>4. QED
    BY <2>1, <2>3, Zenon DEF Dangling
<1>8. Unborn'
  <2>1. ASSUME NEW k \in Lanes, rows'[k] = "none"
        PROVE  /\ k \notin folder /\ ready'[k] = "no"
               /\ \A u \in Tasks : task'[u].lane # k
               /\ \A q \in Repo : checkout[k][q] = None
    <3>1. /\ k \notin folder /\ ready[k] = "no" /\ k # l
          /\ \A u \in Tasks : task[u].lane # k
          /\ \A q \in Repo : checkout[k][q] = None
      BY <2>1, SMTT(30) DEF Inv, Unborn, Lane
    <3>2. QED
      BY <1>2, <1>4, <3>1, SMTT(30)
  <2>2. QED
    BY <2>1, Zenon DEF Unborn, Lane
<1>9. Alone'
  <2>1. ASSUME NEW u \in Tasks, task'[u].op \in {"create", "undo"}
        PROVE  /\ ready'[task'[u].lane] = "no"
               /\ \A v \in Tasks : v # u /\ task'[v].lane = task'[u].lane => task'[v].op \in Removals
    <3>1. u # t /\ task[u].op \in {"create", "undo"} /\ task'[u].lane = Lane(u)
      BY <1>4, <2>1, Zenon DEF Removals, Lane
    <3>2. Lane(u) \in Lanes /\ ready[Lane(u)] = "no"
          /\ \A v \in Tasks : v # u /\ Lane(v) = Lane(u) => task[v].op \in Removals
      BY <3>1, Working, SMTT(30) DEF Inv, Alone, Building
    <3>3. ready'[Lane(u)] = "no"
      BY <1>2, <3>2
    <3>4. ASSUME NEW v \in Tasks, v # u, task'[v].lane = Lane(u) PROVE task'[v].op \in Removals
      <4>1. CASE v = t
        BY <4>1
      <4>2. CASE v # t
        BY <1>4, <3>2, <3>4, <4>2, SMTT(30) DEF Lane
      <4>3. QED
        BY <4>1, <4>2, Zenon
    <3>5. QED
      BY <3>1, <3>3, <3>4, Zenon
  <2>2. QED
    BY <2>1 DEF Alone, Lane
<1>10. Crossing'
  <2>1. ASSUME NEW u \in Tasks, task'[u].op \in Removals, task'[u].lane \in Lanes
        PROVE  ready'[task'[u].lane] = "no"
    <3>1. CASE task'[u].lane = l
      BY <1>2, <3>1
    <3>2. CASE task'[u].lane # l
      <4>1. u # t /\ task[u].op \in Removals /\ task'[u].lane = Lane(u)
        BY <1>4, <2>1, <3>2, SMTT(30) DEF Lane
      <4>2. ready[Lane(u)] = "no"
        BY <2>1, <4>1, SMTT(30) DEF Inv, Crossing
      <4>3. QED
        BY <1>2, <2>1, <3>2, <4>1, <4>2, Zenon
    <3>3. QED
      BY <3>1, <3>2
  <2>2. ASSUME NEW u \in Tasks, task'[u].op \in Removals, task'[u].lane \in Lanes,
               NEW v \in Tasks, task'[v].lane = task'[u].lane, task'[v].op \in Building
        PROVE  task'[v].crossed
    <3>1. v # t
      BY <2>2, Zenon DEF Building, Removals
    <3>2. CASE task'[v].lane = l
      <4>1. task'[v].crossed = (task[v].crossed \/ task[v].lane = l) /\ task[v].lane = l
        BY <1>4, <3>1, <3>2, Zenon
      <4>2. QED
        BY <4>1, Zenon
    <3>3. CASE task'[v].lane # l
      <4>1. u # t /\ task[u].op \in Removals /\ Lane(u) \in Lanes /\ Lane(v) = Lane(u)
            /\ task[v].op \in Building
        BY <1>4, <2>2, <3>1, <3>3, SMTT(30) DEF Lane
      <4>2. task[v].crossed
        BY <4>1 DEF Inv, Crossing
      <4>3. task'[v].crossed = (task[v].crossed \/ task[v].lane = l)
        BY <1>4, <3>1, Zenon
      <4>4. QED
        BY <4>2, <4>3, Zenon
    <3>4. QED
      BY <3>2, <3>3
  <2>3. QED
    BY <2>1, <2>2 DEF Crossing, Lane
<1>11. Recorded'
  BY <1>4, SMTT(30) DEF Inv, Recorded, Lane, Removals
<1>12. Claims'
  <2>1. ASSUME NEW k \in Lanes, NEW q \in Repo, Claimed(k, q)'
        PROVE  Claimed(k, q)
    <3>1. CASE ready'[k] = "yes"
      BY <1>2, <3>1 DEF Claimed
    <3>2. CASE \E u \in Tasks : /\ task'[u].op \in Building /\ task'[u].lane = k
                                /\ ~task'[u].crossed /\ q < task'[u].i
      <4>1. PICK u \in Tasks : /\ task'[u].op \in Building /\ task'[u].lane = k
                               /\ ~task'[u].crossed /\ q < task'[u].i
        BY <3>2, Zenon
      <4>2. u # t
        BY <4>1, Zenon DEF Building, Removals
      <4>3. QED
        BY <1>4, <4>1, <4>2, ZenonT(30) DEF Claimed, Lane, I
    <3>3. QED
      BY <2>1, <3>1, <3>2, Zenon DEF Claimed, Lane, I
  <2>2. ASSUME NEW k \in Lanes, NEW q \in Repo, Claimed(k, q)'
        PROVE  Whole(k, q)' /\ \A u \in Tasks : Works(u, k, q)' => task'[u].pc \notin Making
    <3>1. Whole(k, q) /\ \A u \in Tasks : Works(u, k, q) => task[u].pc \notin Making
      BY <2>1, <2>2, Zenon DEF Inv, Claims
    <3>2. Whole(k, q)'
      BY <3>1, Zenon DEF Whole
    <3>3. ASSUME NEW u \in Tasks, Works(u, k, q)' PROVE task'[u].pc \notin Making
      BY <1>4, <3>1, <3>3 DEF Works, Lane, I, Making
    <3>4. QED
      BY <3>2, <3>3
  <2>3. QED
    BY <2>2, Zenon DEF Claims
<1>13. QED
  BY <1>3, <1>5, <1>6, <1>7, <1>8, <1>9, <1>10, <1>11, <1>12, ZenonT(30) DEF Inv

LEMMA CrossedTypes ==
  ASSUME NEW l, task \in [Tasks -> Task]
  PROVE  Crossed(l) \in [Tasks -> Task]
<1>1. ASSUME NEW u \in Tasks
      PROVE  (IF task[u].lane = l THEN [task[u] EXCEPT !.crossed = TRUE] ELSE task[u]) \in Task
  BY Zenon DEF Task
<1>2. QED
  BY <1>1 DEF Crossed

LEMMA SweepNextStep ==
  ASSUME Setting, Inv, NEW t \in Tasks, SweepNext(t)
  PROVE  Inv'
<1>1. /\ task[t].pc \in {"snap", "next"}
      /\ UNCHANGED <<entries, checkout, folder, rows, pathLock>>
  BY ZenonT(30) DEF SweepNext
<1>2. /\ Types /\ task \in [Tasks -> Task] /\ NoLane \notin Lanes /\ folder \subseteq Lanes
      /\ rows \in [Lanes -> {"none", "made", "registered", "gone"}]
      /\ task[t].op = "sweep" /\ task[t].lane = NoLane
  BY <1>1, Zenon DEF Inv, Types, Setting, Phase, Lane
<1>3. CASE \E l \in folder \ task[t].known :
             /\ task' = [Crossed(l) EXCEPT ![t].lane = l, ![t].i = 1, ![t].pc = "lock"]
             /\ ready' = [ready EXCEPT ![l] = "no"]
  <2>1. PICK l \in folder :
          /\ task' = [Crossed(l) EXCEPT ![t].lane = l, ![t].i = 1, ![t].pc = "lock"]
          /\ ready' = [ready EXCEPT ![l] = "no"]
    BY <1>3, ZenonT(30)
  <2> DEFINE x == [task[t] EXCEPT !.lane = l, !.i = 1, !.pc = "lock"]
  <2>2. l \in Lanes /\ rows[l] # "none"
    BY <1>2 DEF Inv, Unborn
  <2>3. Crossed(l) \in [Tasks -> Task] /\ Crossed(l)[t] = task[t]
    <3>1. Crossed(l) \in [Tasks -> Task]
      BY <1>2, CrossedTypes
    <3>2. task[t].lane # l
      BY <1>2, <2>2
    <3>3. Crossed(l)[t] = task[t]
      BY <3>2 DEF Crossed
    <3>4. QED
      BY <3>1, <3>3
  <2>4. task' = [Crossed(l) EXCEPT ![t] = x]
    BY <2>1, <2>3, Zenon
  <2>5. 1 \in Repo
    BY DEF Repo, Setting
  <2>6. x \in Task /\ x.op = "sweep" /\ x.lane = l /\ x.pc = "lock"
    BY <1>2, <2>2, <2>5, ZenonT(30) DEF Task, Pcs
  <2> HIDE DEF x
  <2>7. task' \in [Tasks -> Task] /\ task'[t] = x /\ \A u \in Tasks \ {t} : task'[u] = Crossed(l)[u]
    BY <2>3, <2>4, <2>6
  <2>8. task'[t].op \in Removals /\ task'[t].lane = l /\ task'[t].pc \in {"lock", "branches"}
    BY <2>6, <2>7 DEF Removals
  <2>9. QED
    BY <1>1, <1>2, <2>1, <2>2, <2>7, <2>8, RemovalBegins, Zenon
<1>4. CASE task' = [task EXCEPT ![t] = Idle] /\ UNCHANGED ready
  BY <1>1, <1>4, EndStep, Zenon
<1>5. QED
  BY <1>3, <1>4, Zenon DEF SweepNext

=============================================================================
