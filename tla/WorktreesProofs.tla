--------------------------- MODULE WorktreesProofs ---------------------------
(***************************************************************************)
(* Worktrees of any number of workspaces in any number of repositories,    *)
(* with any number of requests at a time: a workspace that was reported as *)
(* set up stays whole, no two checkouts share an entry of git's, and a     *)
(* creation that fails leaves nothing.                                     *)
(***************************************************************************)
EXTENDS WorktreesInvariant, FiniteSetTheorems, WellFoundedInduction

-----------------------------------------------------------------------------
(* A path is whole, and operations begin. *)

\* What comes up to a number is the number or comes before it.
LEMMA UpTo ==
  \A q, i \in Nat : q <= i \/ q < i + 1 => q = i \/ q < i
  OBVIOUS

\* The path is whole: the operation goes on to the next repository, or reports
\* the lane as set up.
LEMMA PathDone ==
  ASSUME Setting, Inv, NEW t \in Tasks, task[t].pc \in {"check", "fill"}, NextRepo(t),
         UnlockPath(t), UNCHANGED entries, NEW l \in Lanes, l = Lane(t), NEW r \in Repo, r = I(t),
         folder' \in {folder, folder \union {l}},
         checkout' \in [Lanes -> [Repo -> Names \union {None}]],
         \A k \in Lanes, q \in Repo : ~(k = l /\ q = r) => checkout'[k][q] = checkout[k][q],
         Whole(l, r)'
  PROVE  Inv'
<1>1. Types /\ Phase(t) /\ task \in [Tasks -> Task] /\ task[t].op \in Building
      /\ NoLane \notin Lanes
  BY Zenon DEF Inv, Types, Phase, Making, Setting
<1>2. /\ task' \in [Tasks -> Task] /\ Others(t)
      /\ \/ /\ I(t) < RepoCount /\ UNCHANGED <<rows, ready>>
            /\ task'[t].i = I(t) + 1 /\ task'[t].pc = "branch"
            /\ task'[t].made = task[t].made \union {I(t)}
            /\ task'[t].op = task[t].op /\ task'[t].lane = Lane(t)
            /\ task'[t].crossed = task[t].crossed
         \/ I(t) = RepoCount /\ task'[t] = Idle /\ Finished(t)
  BY <1>1, NextRepoMoves, Zenon
<1>3. /\ pathLock' \in [Lanes -> [Repo -> Tasks \union {Free}]]
      /\ \A k \in Lanes, q \in Repo :
           pathLock[k][q] \in Tasks \ {t} => pathLock'[k][q] = pathLock[k][q]
  BY UnlockMoves DEF Making
<1>4. /\ rows' \in [Lanes -> {"none", "made", "registered", "gone"}]
      /\ ready' \in [Lanes -> {"no", "yes"}]
      /\ \A k \in Lanes : rows'[k] = "none" => rows[k] = "none"
      /\ \A k \in Lanes \ {l} : ready'[k] = ready[k]
  <2>1. /\ rows \in [Lanes -> {"none", "made", "registered", "gone"}]
        /\ ready \in [Lanes -> {"no", "yes"}]
    BY <1>1 DEF Types
  <2>2. CASE UNCHANGED <<rows, ready>>
    BY <2>1, <2>2, Zenon
  <2>3. CASE Finished(t)
    BY <2>1, <2>3, Zenon DEF Finished
  <2>4. QED
    BY <1>2, <2>2, <2>3
<1>5. Types'
  BY <1>1, <1>2, <1>3, <1>4 DEF Types
<1>6. /\ task'[t].pc \in {"branch", "idle"}
      /\ task'[t].op = "none" \/ task'[t].op = task[t].op
      /\ task'[t].lane = NoLane \/ task'[t].lane = l
  <2>1. CASE task'[t] = Idle
    BY <2>1, IdleFields, Zenon
  <2>2. CASE task'[t].pc = "branch" /\ task'[t].op = task[t].op /\ task'[t].lane = Lane(t)
    BY <2>2, Zenon
  <2>3. QED
    BY <1>2, <2>1, <2>2, Zenon
<1>on. task'[t].op # "none" =>
         /\ I(t) < RepoCount /\ UNCHANGED <<rows, ready>> /\ task'[t].i = I(t) + 1
         /\ task'[t].made = task[t].made \union {I(t)} /\ task'[t].op = task[t].op
         /\ task'[t].lane = Lane(t) /\ task'[t].crossed = task[t].crossed
  BY <1>2, IdleFields, Zenon
<1>7. Phase(t)' /\ Locking(t)' /\ Cleared(t)'
  <2>1. Phase(t)'
    <3>1. CASE task'[t] = Idle
      BY <3>1, IdleFields DEF Phase, At, Making, Clearing
    <3>2. CASE task'[t].pc = "branch" /\ task'[t].op = task[t].op /\ task'[t].lane = Lane(t)
      BY <1>1, <3>2 DEF Phase, At, Lane, Making, Clearing, Building
    <3>3. QED
      BY <1>2, <3>1, <3>2, Zenon
  <2>2. QED
    BY <1>6, <2>1 DEF Locking, Cleared, Making, Clearing
<1>8. \A u \in Tasks : Phase(u)'
  <2>1. ASSUME NEW u \in Tasks \ {t}
        PROVE  Phase(u)'
    <3>1. task'[u] = task[u] /\ Phase(u)
      BY <1>2, Zenon DEF Inv, Others
    <3>2. QED
      BY <3>1, Zenon DEF Phase, At, Lane
  <2>2. QED
    BY <1>7, <2>1, Zenon
<1>9. \A u \in Tasks : Locking(u)'
  <2>1. ASSUME NEW u \in Tasks \ {t}, task[u].pc \in {"check"} \union Making \union Clearing
        PROVE  pathLock'[Lane(u)][I(u)] = u
    <3>1. pathLock[Lane(u)][I(u)] = u /\ Lane(u) \in Lanes /\ I(u) \in Repo
      BY <2>1, OnPath, Zenon DEF Locking
    <3>2. QED
      BY <1>3, <3>1
  <2>2. QED
    BY <1>2, <1>7, <2>1, Zenon DEF Locking, Others, Lane, I
<1>10. \A u \in Tasks : Cleared(u)'
  BY <1>2, <1>7 DEF Inv, Others, Cleared, NamesOf, Lane, I
<1>11. OneEntry'
  BY Zenon DEF Inv, OneEntry
<1>12. \A k \in Lanes, q \in Repo : Whole(k, q) => Whole(k, q)'
  BY DEF Whole
<1>13. Dangling'
  <2>1. ASSUME NEW k \in Lanes, NEW q \in Repo, checkout'[k][q] # None
        PROVE  Whole(k, q)' \/ \E u \in Tasks : task'[u].pc \in {"rmdir", "rmtree"} /\ Works(u, k, q)'
    <3>1. CASE Whole(k, q) \/ (k = l /\ q = r)
      BY <1>12, <3>1, Zenon
    <3>2. CASE ~(k = l /\ q = r) /\ \E u \in Tasks : task[u].pc \in {"rmdir", "rmtree"} /\ Works(u, k, q)
      BY <1>2, <3>2 DEF Others, Works, Lane, I
    <3>3. QED
      BY <2>1, <3>1, <3>2, Zenon DEF Inv, Dangling
  <2>2. QED
    BY <2>1, Zenon DEF Dangling
<1>14. Unborn'
  <2>1. ASSUME NEW k \in Lanes, rows'[k] = "none"
        PROVE  /\ k \notin folder' /\ ready'[k] = "no"
               /\ \A u \in Tasks : task'[u].lane # k
               /\ \A q \in Repo : checkout'[k][q] = None
    <3>1. /\ k \notin folder /\ ready[k] = "no"
          /\ \A u \in Tasks : task[u].lane # k
          /\ \A q \in Repo : checkout[k][q] = None
      BY <1>4, <2>1, Zenon DEF Inv, Unborn, Lane
    <3>2. k # l
      BY <3>1 DEF Lane
    <3>3. k \notin folder' /\ ready'[k] = "no"
      BY <1>4, <3>1, <3>2, Zenon
    <3>4. \A q \in Repo : checkout'[k][q] = None
      BY <3>1, <3>2
    <3>5. ASSUME NEW u \in Tasks PROVE task'[u].lane # k
      <4>1. CASE u = t
        BY <1>1, <1>6, <3>2, <4>1, Zenon
      <4>2. CASE u # t
        BY <1>2, <3>1, <4>2, Zenon DEF Others
      <4>3. QED
        BY <4>1, <4>2, Zenon
    <3>6. QED
      BY <3>3, <3>4, <3>5
  <2>2. QED
    BY <2>1, Zenon DEF Unborn, Lane
<1>15. \A u \in Tasks \ {t} : Lane(u) = l => task[u].op \notin {"create", "undo"}
  BY <1>1 DEF Inv, Alone, Building, Removals
<1>16. ~task[t].crossed => \A u \in Tasks : Lane(u) = l => task[u].op \notin Removals
  BY <1>1, Zenon DEF Inv, Crossing
<1>17. ready'[l] = "yes" => \/ ready[l] = "yes" /\ I(t) < RepoCount
                            \/ ~task[t].crossed /\ I(t) = RepoCount
  <2>1. CASE UNCHANGED ready /\ I(t) < RepoCount
    BY <2>1, Zenon
  <2>2. CASE Finished(t) /\ I(t) = RepoCount
    BY <1>1, <2>2 DEF Finished, Types
  <2>3. QED
    BY <1>2, <2>1, <2>2, Zenon
<1>18. Alone'
  <2>1. ASSUME NEW u \in Tasks, task'[u].op \in {"create", "undo"}
        PROVE  /\ ready'[task'[u].lane] = "no"
               /\ \A v \in Tasks : v # u /\ task'[v].lane = task'[u].lane => task'[v].op \in Removals
    <3>1. /\ task[u].op \in {"create", "undo"} /\ task'[u].lane = Lane(u) /\ Lane(u) \in Lanes
          /\ ready[Lane(u)] = "no"
          /\ \A v \in Tasks : v # u /\ Lane(v) = Lane(u) => task[v].op \in Removals
      <4>1. task[u].op \in {"create", "undo"} /\ task'[u].lane = Lane(u)
        <5>1. CASE u = t
          BY <1>2, <2>1, <5>1, IdleFields, Zenon DEF Lane
        <5>2. CASE u # t
          BY <1>2, <2>1, <5>2, Zenon DEF Others, Lane
        <5>3. QED
          BY <5>1, <5>2
      <4>2. QED
        BY <4>1, Working, Zenon DEF Inv, Alone, Building
    <3>2. CASE u = t
      <4>1. UNCHANGED ready
        BY <1>2, <2>1, <3>2, IdleFields, Zenon
      <4>2. \A v \in Tasks : v # u => task'[v] = task[v]
        BY <1>2, <3>2, Zenon DEF Others
      <4>3. QED
        BY <3>1, <4>1, <4>2, Zenon DEF Lane
    <3>3. CASE u # t
      <4>1. Lane(u) # l
        BY <1>15, <3>1, <3>3
      <4>2. QED
        BY <1>1, <1>2, <1>4, <1>6, <3>1, <4>1, SMTT(30) DEF Others, Lane
    <3>4. QED
      BY <3>2, <3>3, Zenon
  <2>2. QED
    BY <2>1, Zenon DEF Alone, Lane
<1>19. Crossing'
  <2>1. ASSUME NEW u \in Tasks, task'[u].op \in Removals, task'[u].lane \in Lanes
        PROVE  /\ ready'[task'[u].lane] = "no"
               /\ \A v \in Tasks : task'[v].lane = task'[u].lane /\ task'[v].op \in Building =>
                    task'[v].crossed
    <3>1. u # t /\ task'[u] = task[u]
      BY <1>1, <1>2, <1>6, <2>1, Zenon DEF Others, Building, Removals
    <3>2. /\ ready[Lane(u)] = "no"
          /\ \A v \in Tasks : Lane(v) = Lane(u) /\ task[v].op \in Building => task[v].crossed
      BY <2>1, <3>1 DEF Inv, Crossing, Lane
    <3>3. ready'[Lane(u)] = "no"
      <4>1. CASE Lane(u) = l
        <5>1. task[t].crossed
          BY <1>16, <2>1, <3>1, <4>1, Zenon
        <5>2. ready'[l] \in {"no", "yes"}
          BY <1>4, Zenon
        <5>3. QED
          BY <1>17, <3>2, <4>1, <5>1, <5>2
      <4>2. CASE Lane(u) # l
        BY <1>4, <2>1, <3>1, <3>2, <4>2, Zenon DEF Lane
      <4>3. QED
        BY <4>1, <4>2, Zenon
    <3>4. \A v \in Tasks : task'[v].op \in Building =>
            task[v].op \in Building /\ task'[v].lane = Lane(v) /\ task'[v].crossed = task[v].crossed
      <4>1. ASSUME NEW v \in Tasks \ {t}
            PROVE  task'[v] = task[v]
        BY <1>2 DEF Others
      <4>2. CASE task'[t] = Idle
        BY <4>1, <4>2, IdleFields, Zenon DEF Building, Lane
      <4>3. CASE task'[t].op = task[t].op /\ task'[t].lane = Lane(t) /\ task'[t].crossed = task[t].crossed
        BY <4>1, <4>3, Zenon DEF Lane
      <4>4. QED
        BY <1>2, <4>2, <4>3, Zenon
    <3>5. QED
      BY <3>1, <3>2, <3>3, <3>4, Zenon DEF Lane
  <2>2. QED
    BY <2>1, Zenon DEF Crossing, Lane
<1>20. Recorded'
  <2>1. ASSUME NEW u \in Tasks, task'[u].op \in {"create", "undo"}, NEW q \in Repo,
               checkout'[task'[u].lane][q] # None
        PROVE  q \in task'[u].made
    <3>1. task[u].op \in {"create", "undo"} /\ task'[u].lane = Lane(u)
      <4>1. CASE u = t
        BY <1>on, <2>1, <4>1, Zenon
      <4>2. CASE u # t
        BY <1>2, <2>1, <4>2, Zenon DEF Others, Lane
      <4>3. QED
        BY <4>1, <4>2
    <3>2. Lane(u) \in Lanes
      BY <3>1, Working, Zenon DEF Building
    <3>3. checkout[Lane(u)][q] # None => q \in task[u].made
      BY <3>1 DEF Inv, Recorded
    <3>4. CASE u = t
      <4>1. task'[t].made = task[t].made \union {I(t)}
        BY <1>on, <2>1, <3>4, Zenon
      <4>2. CASE q = r
        BY <3>4, <4>1, <4>2, Zenon
      <4>3. CASE q # r
        BY <2>1, <3>1, <3>2, <3>3, <3>4, <4>1, <4>3
      <4>4. QED
        BY <4>2, <4>3
    <3>5. CASE u # t
      <4>1. Lane(u) # l
        BY <1>15, <3>1, <3>5
      <4>2. QED
        BY <1>2, <2>1, <3>1, <3>2, <3>3, <3>5, <4>1, ZenonT(30) DEF Others
    <3>6. QED
      BY <3>4, <3>5
  <2>2. QED
    BY <2>1 DEF Recorded, Lane
<1>21. Claims'
  <2>1. I(t) \in Nat /\ RepoCount \in Nat /\ \A q \in Repo : q \in Nat /\ q <= RepoCount
    BY <1>1 DEF I, Task, Repo, Setting
  <2>2. ASSUME NEW k \in Lanes, NEW q \in Repo, Claimed(k, q)'
        PROVE  Claimed(k, q) \/ (k = l /\ q = r)
    <3>1. CASE ready'[k] = "yes"
      <4>1. CASE k = l
        <5>1. CASE ready[l] = "yes"
          BY <4>1, <5>1, Zenon DEF Claimed
        <5>2. CASE ~task[t].crossed /\ I(t) = RepoCount
          <6>1. q = r \/ q < I(t)
            <7>1. q \in Nat /\ q <= RepoCount /\ RepoCount \in Nat
              BY <2>1, Zenon
            <7>2. q = RepoCount \/ q < RepoCount
              BY <7>1, UpTo, Zenon
            <7>3. QED
              BY <5>2, <7>2, Zenon
          <6>2. QED
            BY <1>1, <4>1, <5>2, <6>1, Zenon DEF Claimed
        <5>3. QED
          BY <1>17, <3>1, <4>1, <5>1, <5>2, Zenon
      <4>2. CASE k # l
        BY <1>4, <3>1, <4>2, Zenon DEF Claimed
      <4>3. QED
        BY <4>1, <4>2, Zenon
    <3>2. CASE \E u \in Tasks : /\ task'[u].op \in Building /\ task'[u].lane = k
                                /\ ~task'[u].crossed /\ q < task'[u].i
      <4>1. PICK u \in Tasks : /\ task'[u].op \in Building /\ task'[u].lane = k
                               /\ ~task'[u].crossed /\ q < task'[u].i
        BY <3>2, Zenon
      <4>2. CASE u # t
        BY <1>2, <4>1, <4>2, Zenon DEF Others, Claimed, Lane, I
      <4>3. CASE u = t
        <5>1. /\ task'[t].i = I(t) + 1 /\ task[t].op \in Building /\ k = l /\ ~task[t].crossed
          BY <1>1, <1>on, <4>1, <4>3, Zenon DEF Building
        <5>2. q \in Nat /\ I(t) \in Nat /\ q < I(t) + 1
          BY <2>1, <4>1, <4>3, <5>1, Zenon
        <5>3. q = r \/ q < I(t)
          BY <5>2, UpTo, Zenon
        <5>4. QED
          BY <5>1, <5>3, Zenon DEF Claimed
      <4>4. QED
        BY <4>2, <4>3, Zenon
    <3>3. QED
      BY <2>2, <3>1, <3>2, Zenon DEF Claimed, Lane, I
  <2>3. ASSUME NEW k \in Lanes, NEW q \in Repo, Claimed(k, q)'
        PROVE  Whole(k, q)' /\ \A u \in Tasks : task'[u].lane = k /\ task'[u].i = q =>
                                 task'[u].pc \notin Making
    <3>1. CASE Claimed(k, q)
      <4>1. Whole(k, q) /\ \A u \in Tasks : Lane(u) = k /\ I(u) = q => task[u].pc \notin Making
        BY <3>1, Zenon DEF Inv, Claims, Works
      <4>2. QED
        BY <1>2, <1>6, <1>12, <4>1, Zenon DEF Others, Lane, I, Making
    <3>2. CASE k = l /\ q = r
      <4>1. \A u \in Tasks \ {t} : Lane(u) = l /\ I(u) = r => task[u].pc \notin Making
        BY Exclusive DEF Making
      <4>2. QED
        BY <1>2, <1>6, <3>2, <4>1, Zenon DEF Others, Lane, I, Making
    <3>3. QED
      BY <2>2, <2>3, <3>1, <3>2, Zenon
  <2>4. QED
    BY <2>3, Zenon DEF Claims, Works, Lane, I
<1>22. QED
  BY <1>5, <1>8, <1>9, <1>10, <1>11, <1>13, <1>14, <1>18, <1>19, <1>20, <1>21, Zenon DEF Inv

LEMMA CheckSetUpStep ==
  ASSUME Setting, Inv, NEW t \in Tasks, CheckSetUp(t)
  PROVE  Inv'
<1>1. /\ At(t, "check") /\ UNCHANGED <<entries, checkout, folder>> /\ task[t].pc = "check"
      /\ IF ProperlySetUp(Lane(t), I(t)) THEN NextRepo(t) /\ UnlockPath(t)
         ELSE Go(t, "remove") /\ UNCHANGED <<rows, ready, pathLock>>
  BY DEF CheckSetUp, At
<1>2. CASE ~ProperlySetUp(Lane(t), I(t))
  BY <1>1, <1>2, CheckFails, Zenon
<1>3. CASE ProperlySetUp(Lane(t), I(t))
  <2>1. Lane(t) \in Lanes /\ I(t) \in Repo
    BY <1>1, OnPath
  <2>2. SUFFICES ASSUME NEW l \in Lanes, l = Lane(t), NEW r \in Repo, r = I(t)
                 PROVE  Inv'
    BY <2>1
  <2>3. \A u \in Tasks : task[u].pc \in {"rmdir", "rmtree"} => ~Works(u, l, r)
    <3>1. ASSUME NEW u \in Tasks, task[u].pc \in {"rmdir", "rmtree"}, Works(u, l, r)
          PROVE  FALSE
      <4>1. Lane(u) = Lane(t) /\ I(u) = I(t)
        BY <2>2, <3>1, Zenon DEF Works
      <4>2. u = t
        BY <1>1, <3>1, <4>1, Exclusive DEF Making, Clearing
      <4>3. QED
        BY <1>1, <3>1, <4>2
    <3>2. QED
      BY <3>1, Zenon
  <2>4. checkout[l][r] # None
    BY <1>3, <2>2, Zenon DEF ProperlySetUp
  <2>5. Whole(l, r)
    BY <2>3, <2>4 DEF Inv, Dangling
  <2>6. Whole(l, r)'
    BY <1>1, <2>5 DEF Whole
  <2>7. checkout' \in [Lanes -> [Repo -> Names \union {None}]]
    BY <1>1 DEF Inv, Types
  <2>8. QED
    BY <1>1, <1>3, <2>2, <2>6, <2>7, PathDone, Zenon
<1>4. QED
  BY <1>2, <1>3, Zenon

-----------------------------------------------------------------------------
(* Operations begin. *)

\* A creation, or an ensure, of lane l begins.
Builds(t, l) ==
  /\ task'[t].op \in Building /\ task'[t].lane = l /\ task'[t].i = 1 /\ task'[t].pc = "branch"
  /\ folder' = folder \union {l}
  /\ rows' \in [Lanes -> {"none", "made", "registered", "gone"}] /\ rows'[l] # "none"
  /\ \A k \in Lanes : rows'[k] = "none" => rows[k] = "none"
  /\ \A u \in Tasks : Lane(u) = l => task[u].op \notin {"create", "undo"}
  /\ \A u \in Tasks : Lane(u) = l /\ task[u].op \in Removals => task'[t].crossed
  /\ task'[t].op = "create" => rows[l] = "none"

LEMMA BuildingBegins ==
  ASSUME Setting, Inv, NEW t \in Tasks, task[t] = Idle, NEW l \in Lanes,
         task' \in [Tasks -> Task], Others(t), Builds(t, l),
         UNCHANGED <<entries, checkout, ready, pathLock>>
  PROVE  Inv'
<1>0. task'[t].op \in Building /\ task'[t].lane = l /\ task'[t].i = 1 /\ task'[t].pc = "branch"
  BY Zenon DEF Builds
<1>1. Types /\ NoLane \notin Lanes /\ Lane(t) = NoLane /\ task[t].pc = "idle" /\ task[t].op = "none"
  BY DEF Inv, Setting, Idle, Lane
<1>2. Types'
  BY <1>1 DEF Types, Builds
<1>3. \A u \in Tasks : Phase(u)' /\ Locking(u)' /\ Cleared(u)'
  <2>1. Phase(t)' /\ Locking(t)' /\ Cleared(t)'
    BY <1>0 DEF Phase, Locking, Cleared, At, Lane, Making, Clearing, Building
  <2>2. ASSUME NEW u \in Tasks \ {t} PROVE Phase(u)' /\ Locking(u)' /\ Cleared(u)'
    <3>1. Phase(u) /\ Locking(u) /\ Cleared(u) /\ task'[u] = task[u]
      BY Zenon DEF Inv, Others
    <3>2. Phase(u)'
      BY <3>1, Zenon DEF Phase, At, Lane
    <3>3. Locking(u)' /\ Cleared(u)'
      BY <3>1 DEF Locking, Cleared, NamesOf, Lane, I
    <3>4. QED
      BY <3>2, <3>3, Zenon
  <2>3. QED
    BY <2>1, <2>2, Zenon
<1>4. OneEntry'
  BY Zenon DEF Inv, OneEntry
<1>5. Dangling'
  <2>1. \A k \in Lanes, q \in Repo : Whole(k, q)' <=> Whole(k, q)
    BY DEF Whole
  <2>2. \A u \in Tasks : task[u].pc \in {"rmdir", "rmtree"} => task'[u] = task[u]
    BY <1>1, Zenon DEF Others
  <2>3. QED
    BY <2>1, <2>2 DEF Inv, Dangling, Works, Lane, I
<1>6. Unborn'
  <2>1. ASSUME NEW k \in Lanes, rows'[k] = "none"
        PROVE  /\ k \notin folder' /\ ready'[k] = "no"
               /\ \A u \in Tasks : task'[u].lane # k
               /\ \A q \in Repo : checkout'[k][q] = None
    <3>1. /\ k \notin folder /\ ready[k] = "no" /\ k # l
          /\ \A u \in Tasks : task[u].lane # k
          /\ \A q \in Repo : checkout[k][q] = None
      BY <2>1 DEF Inv, Unborn, Lane, Builds
    <3>2. QED
      BY <1>0, <3>1, Zenon DEF Others, Builds
  <2>2. QED
    BY <2>1, Zenon DEF Unborn, Lane
<1>7. task'[t].op = "create" =>
        /\ ready[l] = "no" /\ \A u \in Tasks : task[u].lane # l
        /\ \A q \in Repo : checkout[l][q] = None
  BY Zenon DEF Inv, Unborn, Lane, Builds
<1>8. Alone'
  <2>1. ASSUME NEW u \in Tasks, task'[u].op \in {"create", "undo"}
        PROVE  /\ ready[task'[u].lane] = "no"
               /\ \A v \in Tasks : v # u /\ task'[v].lane = task'[u].lane => task'[v].op \in Removals
    <3>1. CASE u = t
      BY <1>0, <1>7, <2>1, <3>1, Zenon DEF Others, Building
    <3>2. CASE u # t
      <4>1. task'[u] = task[u] /\ Lane(u) # l
        BY <2>1, <3>2, Zenon DEF Others, Lane, Builds
      <4>2. ready[Lane(u)] = "no" /\ \A v \in Tasks : v # u /\ Lane(v) = Lane(u) => task[v].op \in Removals
        BY <2>1, <4>1, Zenon DEF Inv, Alone
      <4>3. QED
        BY <1>0, <4>1, <4>2, Zenon DEF Others, Lane
    <3>3. QED
      BY <3>1, <3>2, Zenon
  <2>2. QED
    BY <2>1 DEF Alone, Lane
<1>9. Crossing'
  <2>1. ASSUME NEW u \in Tasks, task'[u].op \in Removals, task'[u].lane \in Lanes
        PROVE  /\ ready[task'[u].lane] = "no"
               /\ \A v \in Tasks : task'[v].lane = task'[u].lane /\ task'[v].op \in Building =>
                    task'[v].crossed
    <3>1. u # t /\ task'[u] = task[u]
      BY <1>0, <2>1 DEF Others, Building, Removals
    <3>2. /\ ready[Lane(u)] = "no"
          /\ \A v \in Tasks : Lane(v) = Lane(u) /\ task[v].op \in Building => task[v].crossed
      BY <2>1, <3>1, Zenon DEF Inv, Crossing, Lane
    <3>3. QED
      BY <2>1, <3>1, <3>2, Zenon DEF Others, Lane, Builds
  <2>2. QED
    BY <2>1 DEF Crossing, Lane
<1>10. Recorded'
  <2>1. ASSUME NEW u \in Tasks, task'[u].op \in {"create", "undo"}, NEW q \in Repo,
               checkout[task'[u].lane][q] # None
        PROVE  q \in task'[u].made
    <3>1. CASE u = t
      BY <1>0, <1>7, <2>1, <3>1, Zenon DEF Building
    <3>2. CASE u # t
      BY <2>1, <3>2 DEF Inv, Recorded, Others, Lane
    <3>3. QED
      BY <3>1, <3>2, Zenon
  <2>2. QED
    BY <2>1 DEF Recorded, Lane
<1>11. Claims'
  <2>1. \A q \in Repo : ~(q < 1)
    BY DEF Repo
  <2>2. ASSUME NEW k \in Lanes, NEW q \in Repo, Claimed(k, q)'
        PROVE  Claimed(k, q)
    BY <1>0, <2>1, <2>2, Zenon DEF Claimed, Others, Lane, I
  <2>3. ASSUME NEW k \in Lanes, NEW q \in Repo, Claimed(k, q)'
        PROVE  Whole(k, q)' /\ \A u \in Tasks : Works(u, k, q)' => task'[u].pc \notin Making
    <3>1. Whole(k, q) /\ \A u \in Tasks : Works(u, k, q) => task[u].pc \notin Making
      BY <2>2, <2>3 DEF Inv, Claims
    <3>2. \A u \in Tasks : task'[u].pc \in Making => task'[u] = task[u]
      BY <1>0, Zenon DEF Others, Making
    <3>3. Whole(k, q)'
      BY <3>1 DEF Whole
    <3>4. QED
      BY <3>1, <3>2, <3>3, Zenon DEF Works, Lane, I
  <2>4. QED
    BY <2>3 DEF Claims
<1>12. QED
  BY <1>2, <1>3, <1>4, <1>5, <1>6, <1>8, <1>9, <1>10, <1>11, Zenon DEF Inv

LEMMA BeginStep ==
  ASSUME Setting, Inv, NEW t \in Tasks, NEW op \in AllOps, NEW l \in Lanes, Begin(t, op, l)
  PROVE  Inv'
<1>1. /\ Types /\ task \in [Tasks -> Task] /\ Idle \in Task /\ NoLane \notin Lanes
      /\ rows \in [Lanes -> {"none", "made", "registered", "gone"}]
  BY IdleTask DEF Inv, Types, Setting
<1>2. task[t].pc = "idle" /\ task[t] = Idle
  BY DEF Begin, At, Inv, Phase
<1>3. UNCHANGED <<entries, checkout, pathLock>>
  BY DEF Begin
<1>4. 1 \in Repo
  BY DEF Repo, Setting
<1>5. CASE op = "create"
  <2> DEFINE x == [Idle EXCEPT !.op = op, !.lane = l, !.pc = "branch"]
  <2>1. /\ rows[l] = "none" /\ task' = [task EXCEPT ![t] = x] /\ folder' = folder \union {l}
        /\ rows' = [rows EXCEPT ![l] = "made"] /\ UNCHANGED ready
    BY <1>5 DEF Begin
  <2>2. x \in Task /\ x.op = "create" /\ x.lane = l /\ x.i = 1 /\ x.pc = "branch"
    BY <1>4, <1>5, Zenon DEF Task, Idle, Pcs, AllOps
  <2> HIDE DEF x
  <2>3. task' \in [Tasks -> Task] /\ Others(t) /\ task'[t] = x
    BY <1>1, <2>1, <2>2, SetMoves, Zenon
  <2>4. \A u \in Tasks : Lane(u) # l
    BY <2>1 DEF Inv, Unborn
  <2>5. /\ rows' \in [Lanes -> {"none", "made", "registered", "gone"}] /\ rows'[l] # "none"
        /\ \A k \in Lanes : rows'[k] = "none" => rows[k] = "none"
    BY <1>1, <2>1
  <2>6. task'[t].op \in Building /\ task'[t].lane = l /\ task'[t].i = 1 /\ task'[t].pc = "branch"
    BY <2>2, <2>3, Zenon DEF Building
  <2>7. Builds(t, l)
    BY <2>1, <2>4, <2>5, <2>6, Zenon DEF Builds
  <2>8. QED
    BY <1>2, <1>3, <2>1, <2>3, <2>7, BuildingBegins, Zenon
<1>6. CASE op = "ensure"
  <2> DEFINE x == [Idle EXCEPT !.op = op, !.lane = l, !.pc = "branch", !.crossed = Removing(l)]
  <2>1. /\ rows[l] \in {"made", "registered"} /\ task' = [task EXCEPT ![t] = x]
        /\ \A u \in Tasks : ~(task[u].lane = l /\ task[u].op \in {"create", "undo"})
        /\ folder' = folder \union {l} /\ UNCHANGED <<rows, ready>>
    BY <1>6 DEF Begin
  <2>2. Removing(l) \in BOOLEAN
    BY DEF Removing
  <2>3. x \in Task /\ x.op = "ensure" /\ x.lane = l /\ x.i = 1 /\ x.pc = "branch"
        /\ x.crossed = Removing(l)
    BY <1>4, <1>6, <2>2, Zenon DEF Task, Idle, Pcs, AllOps
  <2> HIDE DEF x
  <2>4. task' \in [Tasks -> Task] /\ Others(t) /\ task'[t] = x
    BY <1>1, <2>1, <2>3, SetMoves, Zenon
  <2>5. ASSUME NEW u \in Tasks, Lane(u) = l, task[u].op \in Removals
        PROVE  task'[t].crossed
    <3>1. Removing(l)
      BY <2>5 DEF Removing, Lane
    <3>2. task'[t].crossed = Removing(l)
      BY <2>3, <2>4
    <3>3. QED
      BY <3>1, <3>2, Zenon
  <2>6. /\ rows' \in [Lanes -> {"none", "made", "registered", "gone"}] /\ rows'[l] # "none"
        /\ \A k \in Lanes : rows'[k] = "none" => rows[k] = "none"
    BY <1>1, <2>1, Zenon
  <2>7. task'[t].op \in Building /\ task'[t].lane = l /\ task'[t].i = 1 /\ task'[t].pc = "branch"
        /\ task'[t].op # "create"
    BY <2>3, <2>4 DEF Building
  <2>8. \A u \in Tasks : Lane(u) = l => task[u].op \notin {"create", "undo"}
    BY <2>1, Zenon DEF Lane
  <2>9. Builds(t, l)
    BY <2>1, <2>5, <2>6, <2>7, <2>8 DEF Builds
  <2>10. QED
    BY <1>2, <1>3, <2>1, <2>4, <2>9, BuildingBegins, Zenon
<1>7. CASE op \in {"delete", "expire"}
  <2> DEFINE x == [Idle EXCEPT !.op = op, !.lane = l,
                               !.pc = IF rows[l] = "made" THEN "branches" ELSE "lock"]
  <2>1. /\ rows[l] \in {"made", "registered"} /\ task' = [Crossed(l) EXCEPT ![t] = x]
        /\ rows' = IF op = "delete" THEN [rows EXCEPT ![l] = "gone"] ELSE rows
        /\ ready' = [ready EXCEPT ![l] = "no"] /\ UNCHANGED folder
    BY <1>7 DEF Begin
  <2>2. x \in Task /\ x.op \in Removals /\ x.lane = l /\ x.pc \in {"lock", "branches"}
    BY <1>4, <1>7, Zenon DEF Task, Idle, Pcs, AllOps, Removals
  <2> HIDE DEF x
  <2>3. Crossed(l) \in [Tasks -> Task]
    BY <1>1, CrossedTypes
  <2>4. task' \in [Tasks -> Task] /\ task'[t] = x /\ \A u \in Tasks \ {t} : task'[u] = Crossed(l)[u]
    BY <2>1, <2>2, <2>3
  <2>5. /\ rows' \in [Lanes -> {"none", "made", "registered", "gone"}] /\ rows[l] # "none"
        /\ \A k \in Lanes : rows'[k] = "none" => rows[k] = "none"
    BY <1>1, <2>1
  <2>6. task'[t].op \in Removals /\ task'[t].lane = l /\ task'[t].pc \in {"lock", "branches"}
    BY <2>2, <2>4, Zenon
  <2>7. QED
    BY <1>2, <1>3, <2>1, <2>4, <2>5, <2>6, RemovalBegins, Zenon
<1>8. CASE op = "sweep"
  <2> DEFINE x == [Idle EXCEPT !.op = op, !.pc = "snap", !.known = Registered]
  <2>1. task' = [task EXCEPT ![t] = x] /\ UNCHANGED <<folder, rows, ready>>
    BY <1>8 DEF Begin
  <2>2. Registered \subseteq Lanes
    BY DEF Registered
  <2>3. x \in Task /\ x.op = "sweep" /\ x.lane = NoLane /\ x.pc = "snap"
    BY <1>4, <1>8, <2>2, Zenon DEF Task, Idle, Pcs, AllOps
  <2> HIDE DEF x
  <2>4. task' \in [Tasks -> Task] /\ Others(t) /\ task'[t] = x
    BY <1>1, <2>1, <2>3, SetMoves, Zenon
  <2>5. Types'
    BY <1>1, <1>3, <2>1, <2>4, Zenon DEF Types
  <2>6. Phase(t)' /\ Locking(t)'
    BY <2>3, <2>4, Zenon DEF Phase, Locking, At, Lane, Making, Clearing
  <2>7. task'[t].pc = "snap" /\ task'[t].op = "sweep" /\ task'[t].lane = NoLane
    BY <2>3, <2>4
  <2>8. QED
    BY <1>2, <1>3, <2>1, <2>4, <2>5, <2>6, <2>7, QuietStep DEF Building, Making
<1>9. QED
  BY <1>5, <1>6, <1>7, <1>8 DEF AllOps

-----------------------------------------------------------------------------
(* Failures, and the rollback of a creation. *)

\* A set of numbers that is not empty has a least one.
LEMMA MinIn ==
  ASSUME NEW S \in SUBSET Nat, S # {}
  PROVE  Min(S) \in S
<1> DEFINE R == {p \in Nat \X Nat : p[1] < p[2]}
<1>1. IsWellFoundedOn(R, Nat)
  BY NatLessThanWellFounded DEF OpToRel
<1> HIDE DEF R
<1>2. \E x \in S : \A y \in S : <<y, x>> \notin R
  BY <1>1, WFMin, Zenon
<1>3. \E x \in S : \A y \in S : x <= y
  <2>1. \A x, y \in Nat : <<y, x>> \notin R => x <= y
    BY DEF R
  <2>2. QED
    BY <1>2, <2>1, Zenon
<1>4. QED
  BY <1>3, Zenon DEF Min

\* GivesUp ends an ensure, and turns a creation into its rollback.
LEMMA GivesUpMoves ==
  ASSUME Setting, Types, NEW t \in Tasks, GivesUp(t)
  PROVE  /\ task' \in [Tasks -> Task] /\ Others(t) /\ UNCHANGED <<rows, ready>>
         /\ IF task[t].op = "ensure" THEN task'[t] = Idle
            ELSE /\ task'[t].op = "undo" /\ task'[t].lane = Lane(t)
                 /\ task'[t].made = task[t].made /\ task'[t].crossed = task[t].crossed
                 /\ task'[t].pc \in {"rmempty", "lock"}
                 /\ task'[t].pc = "rmempty" => task[t].made = {}
<1>1. task \in [Tasks -> Task] /\ task[t] \in Task /\ UNCHANGED <<rows, ready>>
  BY DEF Types, GivesUp
<1>2. CASE task[t].op = "ensure"
  BY <1>1, <1>2, IdleTask, SetMoves, Zenon DEF GivesUp
<1>3. CASE task[t].op # "ensure" /\ task[t].made = {}
  <2> DEFINE x == [task[t] EXCEPT !.op = "undo", !.pc = "rmempty"]
  <2>1. task' = [task EXCEPT ![t] = x]
    BY <1>3 DEF GivesUp
  <2>2. x \in Task /\ x.op = "undo" /\ x.pc = "rmempty" /\ x.lane = task[t].lane
        /\ x.made = task[t].made /\ x.crossed = task[t].crossed
    BY <1>1, Zenon DEF Task, Pcs
  <2> HIDE DEF x
  <2>3. QED
    BY <1>1, <1>3, <2>1, <2>2, SetMoves, Zenon DEF Lane
<1>4. CASE task[t].op # "ensure" /\ task[t].made # {}
  <2> DEFINE x == [task[t] EXCEPT !.op = "undo", !.i = Min(task[t].made), !.pc = "lock"]
  <2>1. task' = [task EXCEPT ![t] = x]
    BY <1>4, Zenon DEF GivesUp
  <2>2. Min(task[t].made) \in Repo
    BY <1>1, <1>4, MinIn DEF Task, Repo
  <2>3. x \in Task /\ x.op = "undo" /\ x.pc = "lock" /\ x.lane = task[t].lane
        /\ x.made = task[t].made /\ x.crossed = task[t].crossed
    BY <1>1, <2>2, Zenon DEF Task, Pcs
  <2> HIDE DEF x
  <2>4. QED
    BY <1>1, <1>4, <2>1, <2>3, SetMoves, Zenon DEF Lane
<1>5. QED
  BY <1>2, <1>3, <1>4

\* A creation or an ensure that gives up, with or without a lock.
LEMMA GivesUpStep ==
  ASSUME Setting, Inv, NEW t \in Tasks, GivesUp(t), task[t].pc \in {"branch", "add", "fill"},
         UNCHANGED <<entries, checkout, folder>>,
         UNCHANGED pathLock \/ (task[t].pc # "branch" /\ UnlockPath(t))
  PROVE  Inv'
<1>1. Types /\ Phase(t) /\ task[t] \in Task
  BY DEF Inv, Types
<1>2. Lane(t) \in Lanes /\ I(t) \in Repo /\ task[t].op \in Building
  BY <1>1, Zenon DEF Phase, I, Task, Making
<1>3. /\ task' \in [Tasks -> Task] /\ Others(t) /\ UNCHANGED <<rows, ready>>
      /\ IF task[t].op = "ensure" THEN task'[t] = Idle
         ELSE /\ task'[t].op = "undo" /\ task'[t].lane = Lane(t)
              /\ task'[t].made = task[t].made /\ task'[t].crossed = task[t].crossed
              /\ task'[t].pc \in {"rmempty", "lock"}
              /\ task'[t].pc = "rmempty" => task[t].made = {}
  BY <1>1, GivesUpMoves
<1>4. /\ pathLock' \in [Lanes -> [Repo -> Tasks \union {Free}]]
      /\ \A k \in Lanes, q \in Repo :
           pathLock[k][q] \in Tasks \ {t} => pathLock'[k][q] = pathLock[k][q]
  <2>1. CASE UNCHANGED pathLock
    BY <1>1, <2>1 DEF Types
  <2>2. CASE task[t].pc # "branch" /\ UnlockPath(t)
    BY <2>2, UnlockMoves, Zenon DEF Making
  <2>3. QED
    BY <2>1, <2>2, Zenon
<1>5. Types'
  BY <1>1, <1>3, <1>4, Zenon DEF Types
<1>6. CASE task[t].op = "ensure"
  <2>1. task'[t].pc = "idle" /\ task'[t].op = "none" /\ task'[t].lane = NoLane /\ task'[t] = Idle
    BY <1>3, <1>6, SMTT(30) DEF Idle
  <2>2. Phase(t)' /\ Locking(t)'
    BY <2>1 DEF Phase, Locking, At, Making, Clearing
  <2>3. QED
    BY <1>3, <1>4, <1>5, <2>1, <2>2, QuietStep, ZenonT(30) DEF Making, Building
<1>7. CASE task[t].op # "ensure"
  <2>1. task[t].op = "create"
    BY <1>2, <1>7, ZenonT(30) DEF Building
  <2>2. Phase(t)' /\ Locking(t)'
    BY <1>2, <1>3, <1>7 DEF Phase, Locking, At, Lane, Making, Clearing
  <2>3. QED
    BY <1>3, <1>4, <1>5, <1>7, <2>1, <2>2, QuietStep, Zenon DEF Making, Building
<1>8. QED
  BY <1>6, <1>7, Zenon

LEMMA CreateBranchStep ==
  ASSUME Setting, Inv, NEW t \in Tasks, CreateBranch(t)
  PROVE  Inv'
<1>1. /\ task[t].pc = "branch"
      /\ UNCHANGED <<entries, checkout, folder, pathLock>>
      /\ GivesUp(t) \/ (Go(t, "lock") /\ UNCHANGED <<rows, ready>>)
  BY DEF CreateBranch, At
<1>2. CASE GivesUp(t)
  BY <1>1, <1>2, GivesUpStep, ZenonT(30)
<1>3. CASE Go(t, "lock") /\ UNCHANGED <<rows, ready>>
  <2>1. Types /\ Phase(t) /\ task[t] \in Task
    BY DEF Inv, Types
  <2>2. task' \in [Tasks -> Task] /\ Others(t) /\ task'[t].pc = "lock" /\ Stays(t)
    BY <1>3, <2>1, GoMoves, Zenon DEF Pcs
  <2>3. Types' /\ Locking(t)'
    BY <1>1, <1>3, <2>1, <2>2, ZenonT(30) DEF Types, Locking, Making, Clearing
  <2>4. Phase(t)'
    BY <1>1, <2>1, <2>2 DEF Phase, At, Lane, Stays, Making, Clearing
  <2>5. QED
    BY <1>1, <1>3, <2>2, <2>3, <2>4, QuietStep DEF Stays, Lane, I, Making
<1>4. QED
  BY <1>1, <1>2, <1>3, ZenonT(30)

LEMMA AddFailsStep ==
  ASSUME Setting, Inv, NEW t \in Tasks, AddFails(t)
  PROVE  Inv'
<1>1. task[t].pc \in {"add", "fill"} /\ UNCHANGED <<entries, checkout, folder>>
  BY DEF AddFails, At
<1>2. CASE task[t].tried
  BY <1>1, <1>2, GivesUpStep, SMTT(30) DEF AddFails
<1>3. CASE ~task[t].tried
  <2> DEFINE x == [task[t] EXCEPT !.pc = "meta", !.tried = TRUE]
  <2>1. Types /\ Phase(t) /\ Locking(t) /\ task[t] \in Task /\ task \in [Tasks -> Task]
    BY DEF Inv, Types
  <2>2. task' = [task EXCEPT ![t] = x] /\ UNCHANGED <<rows, ready, pathLock>>
    BY <1>3, <2>1, Zenon DEF AddFails
  <2>3. /\ x \in Task /\ x.pc = "meta" /\ x.op = task[t].op /\ x.lane = task[t].lane
        /\ x.i = task[t].i /\ x.made = task[t].made /\ x.crossed = task[t].crossed
    BY <2>1, Zenon DEF Task, Pcs, Making
  <2> HIDE DEF x
  <2>4. task' \in [Tasks -> Task] /\ Others(t) /\ task'[t] = x
    BY <2>1, <2>2, <2>3, SetMoves, Zenon
  <2>5. Types'
    BY <1>1, <2>1, <2>2, <2>4, ZenonT(30) DEF Types
  <2>6. Phase(t)' /\ Locking(t)'
    BY <1>1, <2>1, <2>2, <2>3, <2>4, SMTT(30) DEF Phase, Locking, At, Lane, I, Making, Clearing
  <2>7. QED
    BY <1>1, <2>2, <2>3, <2>4, <2>5, <2>6, QuietStep, ZenonT(30) DEF Lane, I, Making
<1>4. QED
  BY <1>2, <1>3

LEMMA AfterRemovalTask ==
  ASSUME Setting, NEW t \in Tasks, task[t] \in Task, task[t].op \in Removals \union {"undo"}
  PROVE  LET x == AfterRemoval(t) IN
         /\ x \in Task /\ x.op = task[t].op /\ x.lane = task[t].lane
         /\ x.crossed = task[t].crossed /\ x.pc \in {"lock", "rmempty", "rmall"}
         /\ x.pc = "rmempty" => x.op = "undo" /\ x.made = {}
         /\ x.pc = "rmall" => x.op \in Removals
         /\ x.op = "undo" => x.made = task[t].made \ {I(t)}
<1> DEFINE rest == task[t].made \ {I(t)}
<1>1. I(t) \in Repo /\ RepoCount \in Nat \ {0} /\ rest \subseteq Repo /\ {} \subseteq Repo
  BY DEF I, Task, Setting
<1>2. CASE task[t].op = "undo" /\ rest = {}
  <2>1. AfterRemoval(t) = [task[t] EXCEPT !.made = {}, !.pc = "rmempty"]
    BY <1>2 DEF AfterRemoval
  <2>2. QED
    BY <1>1, <1>2, <2>1, Zenon DEF Task, Pcs
<1>3. CASE task[t].op = "undo" /\ rest # {}
  <2>1. AfterRemoval(t) = [task[t] EXCEPT !.made = rest, !.i = Min(rest), !.pc = "lock"]
    BY <1>3 DEF AfterRemoval
  <2>2. Min(rest) \in Repo
    BY <1>1, <1>3, MinIn DEF Repo
  <2> HIDE DEF rest
  <2>3. [task[t] EXCEPT !.made = rest, !.i = Min(rest), !.pc = "lock"] \in Task
    BY <1>1, <2>2, Zenon DEF Task, Pcs
  <2>4. QED
    BY <1>3, <2>1, <2>3 DEF Task, rest
<1>4. CASE task[t].op # "undo" /\ I(t) < RepoCount
  <2>1. AfterRemoval(t) = [task[t] EXCEPT !.i = I(t) + 1, !.pc = "lock"]
    BY <1>4 DEF AfterRemoval, I
  <2>2. I(t) + 1 \in Repo
    BY <1>1, <1>4 DEF Repo
  <2>3. QED
    BY <1>4, <2>1, <2>2, Zenon DEF Task, Pcs
<1>5. CASE task[t].op # "undo" /\ ~(I(t) < RepoCount)
  <2>1. AfterRemoval(t) = [task[t] EXCEPT !.i = 1, !.pc = "rmall"]
    BY <1>5 DEF AfterRemoval
  <2>2. 1 \in Repo
    BY <1>1 DEF Repo
  <2>3. QED
    BY <1>5, <2>1, <2>2, Zenon DEF Task, Pcs
<1>6. QED
  BY <1>2, <1>3, <1>4, <1>5

LEMMA RemovesTreeStep ==
  ASSUME Setting, Inv, NEW t \in Tasks, RemovesTree(t)
  PROVE  Inv'
<1> DEFINE x == AfterRemoval(t)
<1>1. /\ task[t].pc = "rmtree" /\ task' = [task EXCEPT ![t] = x] /\ UnlockPath(t)
      /\ checkout' = [checkout EXCEPT ![Lane(t)][I(t)] = None]
      /\ UNCHANGED <<entries, folder, rows, ready>>
  BY DEF RemovesTree, At
<1>2. Types /\ Phase(t) /\ task[t] \in Task /\ Lane(t) \in Lanes /\ I(t) \in Repo
  BY <1>1, OnPath, Zenon DEF Clearing
<1>3. task[t].op \in Removals \union {"undo"}
  BY <1>1, <1>2, Zenon DEF Phase, Clearing
<1>4. /\ x \in Task /\ x.op = task[t].op /\ x.lane = task[t].lane
      /\ x.crossed = task[t].crossed /\ x.pc \in {"lock", "rmempty", "rmall"}
      /\ x.pc = "rmempty" => x.op = "undo" /\ x.made = {}
      /\ x.pc = "rmall" => x.op \in Removals
      /\ x.op = "undo" => x.made = task[t].made \ {I(t)}
  BY <1>2, <1>3, AfterRemovalTask
<1> HIDE DEF x
<1>5. task' \in [Tasks -> Task] /\ Others(t) /\ task'[t] = x
  BY <1>1, <1>2, <1>4, SetMoves, Zenon
<1>6. /\ pathLock' \in [Lanes -> [Repo -> Tasks \union {Free}]]
      /\ \A k \in Lanes, q \in Repo :
           pathLock[k][q] \in Tasks \ {t} => pathLock'[k][q] = pathLock[k][q]
  BY <1>1, UnlockMoves DEF Clearing
<1>7. SUFFICES ASSUME NEW l \in Lanes, l = Lane(t), NEW r \in Repo, r = I(t) PROVE Inv'
  BY <1>2
<1>8. /\ checkout' \in [Lanes -> [Repo -> Names \union {None}]]
      /\ \A k \in Lanes, q \in Repo :
           checkout'[k][q] = IF k = l /\ q = r THEN None ELSE checkout[k][q]
  BY <1>1, <1>2, <1>7, NoCheckout, ZenonT(30)
<1>9. Types'
  BY <1>1, <1>2, <1>5, <1>6, <1>8, Zenon DEF Types
<1>10. Phase(t)' /\ Locking(t)' /\ Cleared(t)'
  <2>1. task'[t].lane \in Lanes /\ task'[t].op # "none"
    BY <1>3, <1>4, <1>5, <1>7, Zenon DEF Lane, Removals
  <2>2. QED
    BY <1>4, <1>5, <2>1, Zenon DEF Phase, Locking, Cleared, At, Lane, Making, Clearing
<1>11. task'[t].op \in {"create", "undo"} =>
         \A q \in Repo : checkout'[l][q] # None => q \in task'[t].made
  <2>1. task[t].op # "create"
    BY <1>3 DEF Removals
  <2>2. task[t].op = "undo" => \A q \in Repo : checkout[l][q] # None => q \in task[t].made
    BY <1>7, ZenonT(30) DEF Inv, Recorded
  <2>3. QED
    BY <1>4, <1>5, <1>7, <1>8, <2>1, <2>2
<1>12. ASSUME NEW q \in Repo, checkout'[l][q] # None
       PROVE  \/ Whole(l, q)'
              \/ \E u \in Tasks : task'[u].pc \in {"rmdir", "rmtree"} /\ Works(u, l, q)'
  <2>1. q # r /\ checkout'[l][q] = checkout[l][q]
    BY <1>8, <1>12, Zenon
  <2>2. CASE Whole(l, q)
    BY <1>1, <2>1, <2>2 DEF Whole
  <2>3. CASE \E u \in Tasks : task[u].pc \in {"rmdir", "rmtree"} /\ Works(u, l, q)
    BY <1>5, <1>7, <2>1, <2>3, Zenon DEF Others, Works, Lane, I
  <2>4. QED
    BY <1>12, <2>1, <2>2, <2>3 DEF Inv, Dangling
<1>13. \A q \in Repo : ~Claimed(l, q)
  BY <1>3, <1>7, RemovedUnclaimed
<1>14. task'[t].op \notin Building /\ task'[t].pc \notin Making
  BY <1>3, <1>4, <1>5, Zenon DEF Removals, Building, Making
<1>15. MovesOn(t, l)
  BY <1>4, <1>5, <1>7, <1>11, <1>14, Zenon DEF MovesOn, Lane
<1>16. Spares(t, l)
  BY <1>1, <1>6, <1>8, <1>12, <1>13, Zenon DEF Spares
<1>17. QED
  BY <1>1, <1>5, <1>7, <1>9, <1>10, <1>15, <1>16, StepFrame, Zenon

-----------------------------------------------------------------------------
(* git worktree add. *)

\* Names are one more than lanes and a lane has one entry at most, so that git
\* finds a free name.
LEMMA FreeName ==
  ASSUME Setting, Types, OneEntry, NEW r \in Repo
  PROVE  Min(FreeNames(r)) \in Names /\ entries[r][Min(FreeNames(r))] = NoLane
<1>1. Cardinality(Lanes) \in Nat
  BY FS_CardinalityType DEF Setting
<1>2. /\ Names \subseteq Nat /\ IsFiniteSet(Names)
      /\ Cardinality(Lanes) < Cardinality(Names)
  BY <1>1, FS_Interval DEF Names
<1>3. FreeNames(r) # {}
  <2>1. SUFFICES ASSUME FreeNames(r) = {} PROVE FALSE
    OBVIOUS
  <2>2. entries[r] \in [Names -> Lanes]
    BY <2>1 DEF Types, FreeNames
  <2>3. \E m, n \in Names : m # n /\ entries[r][m] = entries[r][n]
    <3> DEFINE f == entries[r]
    <3>1. IsFiniteSet(Lanes) /\ f \in [Names -> Lanes]
      BY <2>2 DEF Setting
    <3> HIDE DEF f
    <3>2. \E m, n \in Names : m # n /\ f[m] = f[n]
      BY <1>2, <3>1, FS_PigeonHole, Zenon
    <3>3. QED
      BY <3>2 DEF f
  <2>4. QED
    BY <2>2, <2>3 DEF OneEntry
<1>4. FreeNames(r) \in SUBSET Nat
  BY <1>2, Zenon DEF FreeNames
<1>5. Min(FreeNames(r)) \in FreeNames(r)
  BY <1>3, <1>4, MinIn, Zenon
<1>6. QED
  BY <1>5 DEF FreeNames

LEMMA AddEntryStep ==
  ASSUME Setting, Inv, NEW t \in Tasks, AddEntry(t)
  PROVE  Inv'
<1>1. /\ task[t].pc = "add" /\ Go(t, "fill")
      /\ entries' = [entries EXCEPT ![I(t)][Min(FreeNames(I(t)))] = Lane(t)]
      /\ UNCHANGED <<checkout, folder, rows, pathLock, ready>>
  BY Zenon DEF AddEntry, At
<1>2. Types /\ OneEntry /\ Lane(t) \in Lanes /\ I(t) \in Repo
  BY <1>1, OnPath, Zenon DEF Making, Inv
<1>3. /\ task' \in [Tasks -> Task] /\ Others(t) /\ task'[t].pc = "fill" /\ Stays(t)
      /\ Phase(t)' /\ Locking(t)'
  BY <1>1, GoesOn, Zenon DEF Making, Clearing
<1>4. SUFFICES ASSUME NEW l \in Lanes, l = Lane(t), NEW r \in Repo, r = I(t), NEW n \in Names,
                      entries[r][n] = NoLane, n = Min(FreeNames(r))
               PROVE  Inv'
  BY <1>2, FreeName
<1>5. /\ entries \in [Repo -> [Names -> Lanes \union {NoLane}]] /\ NoLane \notin Lanes
      /\ checkout \in [Lanes -> [Repo -> Names \union {None}]] /\ None \notin Names
      /\ task \in [Tasks -> Task]
  BY <1>2 DEF Types, Setting, None, Names
<1>6. entries' = [entries EXCEPT ![r][n] = l]
  BY <1>1, <1>4
<1>7. /\ entries' \in [Repo -> [Names -> Lanes \union {NoLane}]]
      /\ \A q \in Repo, m \in Names :
           entries'[q][m] = IF q = r /\ m = n THEN l ELSE entries[q][m]
  BY <1>5, <1>6, Zenon
<1>8. Types'
  BY <1>1, <1>2, <1>3, <1>7 DEF Types
<1>9. \A m \in Names : entries[r][m] # l
  BY <1>1, <1>4, Zenon DEF Inv, Cleared, NamesOf
<1>10. OneEntry'
  <2>1. ASSUME NEW q \in Repo, NEW m1 \in Names, NEW m2 \in Names,
               entries'[q][m1] \in Lanes, entries'[q][m1] = entries'[q][m2]
        PROVE  m1 = m2
    <3>1. CASE q = r /\ (m1 = n \/ m2 = n)
      BY <1>7, <1>9, <2>1, <3>1
    <3>2. CASE ~(q = r /\ (m1 = n \/ m2 = n))
      <4>1. entries'[q][m1] = entries[q][m1] /\ entries'[q][m2] = entries[q][m2]
        BY <1>7, <3>2
      <4>2. QED
        BY <1>2, <2>1, <4>1, Zenon DEF OneEntry
    <3>3. QED
      BY <3>1, <3>2, Zenon
  <2>2. QED
    BY <2>1, Zenon DEF OneEntry
<1>11. \A k \in Lanes, q \in Repo : Whole(k, q) => Whole(k, q)'
  <2>1. ASSUME NEW k \in Lanes, NEW q \in Repo, Whole(k, q)
        PROVE  Whole(k, q)'
    <3>1. checkout[k][q] \in Names /\ entries[q][checkout[k][q]] = k
      BY <1>5, <2>1, SMTT(30) DEF Whole
    <3>2. entries'[q][checkout[k][q]] = k
      BY <1>4, <1>5, <1>7, <3>1, ZenonT(30)
    <3>3. QED
      BY <1>1, <1>5, <3>1, <3>2 DEF Whole
  <2>2. QED
    BY <2>1, Zenon
<1>12. \A u \in Tasks : Phase(u)' /\ Locking(u)'
  BY <1>1, <1>3, SMTT(30) DEF Inv, Others, Phase, Locking, At, Lane, I
<1>13. \A u \in Tasks : Cleared(u)'
  <2>1. ASSUME NEW u \in Tasks, task'[u].pc \in {"rmdir", "add"}
        PROVE  \A m \in Names : entries'[task'[u].i][m] # task'[u].lane
    <3>1. u # t /\ task'[u] = task[u]
      BY <1>3, <2>1 DEF Others
    <3>2. Lane(u) \in Lanes /\ I(u) \in Repo /\ task[u].pc \in Making
      BY <2>1, <3>1, OnPath, Zenon DEF Making
    <3>3. ~(Lane(u) = l /\ I(u) = r)
      BY <1>1, <1>4, <3>1, <3>2, Exclusive DEF Making
    <3>4. \A m \in Names : entries[I(u)][m] # Lane(u)
      BY <2>1, <3>1, Zenon DEF Inv, Cleared, NamesOf
    <3>5. QED
      BY <1>7, <3>1, <3>2, <3>3, <3>4, ZenonT(30) DEF Lane, I
  <2>2. QED
    BY <2>1 DEF Cleared, NamesOf, Lane, I
<1>14. Dangling'
  <2>1. ASSUME NEW k \in Lanes, NEW q \in Repo, checkout[k][q] # None
        PROVE  Whole(k, q)' \/ \E u \in Tasks : task'[u].pc \in {"rmdir", "rmtree"} /\ Works(u, k, q)'
    <3>1. CASE Whole(k, q)
      BY <1>11, <3>1
    <3>2. CASE \E u \in Tasks : task[u].pc \in {"rmdir", "rmtree"} /\ Works(u, k, q)
      BY <1>1, <1>3, <3>2, Zenon DEF Others, Works, Lane, I
    <3>3. QED
      BY <2>1, <3>1, <3>2, Zenon DEF Inv, Dangling
  <2>2. QED
    BY <1>1, <2>1 DEF Dangling
<1>15. \A u \in Tasks : /\ task'[u].op = task[u].op /\ task'[u].lane = task[u].lane
                        /\ task'[u].i = task[u].i /\ task'[u].made = task[u].made
                        /\ task'[u].crossed = task[u].crossed
                        /\ task'[u].pc \in Making => task[u].pc \in Making
  BY <1>1, <1>3, SMTT(30) DEF Others, Stays, Making
<1>16. Unborn' /\ Alone' /\ Crossing' /\ Recorded'
  BY <1>1, <1>15, SMTT(30) DEF Inv, Unborn, Alone, Crossing, Recorded, Lane
<1>17. Claims'
  <2>1. \A k \in Lanes, q \in Repo : Claimed(k, q)' => Claimed(k, q)
    BY <1>1, <1>15, ZenonT(30) DEF Claimed, Lane, I
  <2>2. QED
    BY <1>11, <1>15, <2>1, SMTT(30) DEF Inv, Claims, Works, Lane, I
<1>18. QED
  BY <1>8, <1>10, <1>12, <1>13, <1>14, <1>16, <1>17, SMTT(30) DEF Inv

LEMMA AddCheckoutStep ==
  ASSUME Setting, Inv, NEW t \in Tasks, AddCheckout(t)
  PROVE  Inv'
<1>1. /\ task[t].pc = "fill" /\ NamesOf(Lane(t), I(t)) # {}
      /\ checkout' = [checkout EXCEPT ![Lane(t)][I(t)] = Min(NamesOf(Lane(t), I(t)))]
      /\ folder' = folder \union {Lane(t)} /\ NextRepo(t) /\ UnlockPath(t) /\ UNCHANGED entries
  BY DEF AddCheckout, At
<1>2. Lane(t) \in Lanes /\ I(t) \in Repo /\ Types
  BY <1>1, OnPath, Zenon DEF Making
<1>3. Min(NamesOf(Lane(t), I(t))) \in NamesOf(Lane(t), I(t))
  <2>1. NamesOf(Lane(t), I(t)) \in SUBSET Nat
    BY FS_CardinalityType DEF Setting, NamesOf, Names
  <2>2. QED
    BY <1>1, <2>1, MinIn
<1>4. SUFFICES ASSUME NEW l \in Lanes, l = Lane(t), NEW r \in Repo, r = I(t), NEW n \in Names,
                      entries[r][n] = l, n = Min(NamesOf(Lane(t), I(t)))
               PROVE  Inv'
  BY <1>2, <1>3, Zenon DEF NamesOf
<1>5. checkout' = [checkout EXCEPT ![l][r] = n] /\ folder' = folder \union {l}
  BY <1>1, <1>4, Zenon
<1>6. checkout \in [Lanes -> [Repo -> Names \union {None}]] /\ n # None
  BY <1>2 DEF Types, None, Names
<1>7. /\ checkout' \in [Lanes -> [Repo -> Names \union {None}]]
      /\ \A k \in Lanes, q \in Repo : ~(k = l /\ q = r) => checkout'[k][q] = checkout[k][q]
      /\ checkout'[l][r] = n
  BY <1>5, <1>6, Zenon
<1>8. Whole(l, r)'
  BY <1>1, <1>4, <1>6, <1>7, Zenon DEF Whole
<1>9. QED
  BY <1>1, <1>4, <1>5, <1>7, <1>8, PathDone, SMTT(30)

-----------------------------------------------------------------------------
(* The invariant, and what follows from it. *)

\* Only what the step of the model adds to the world changes.
LEMMA Unchanged ==
  ASSUME Inv, UNCHANGED <<entries, checkout, folder, rows, pathLock, task, ready>>
  PROVE  Inv'
<1>1. Types' /\ OneEntry' /\ Unborn' /\ Alone' /\ Crossing' /\ Recorded'
  BY Zenon DEF Inv, Types, OneEntry, Unborn, Alone, Crossing, Recorded, Lane
<1>2. \A t \in Tasks : Phase(t)' /\ Locking(t)' /\ Cleared(t)'
  BY ZenonT(30) DEF Inv, Phase, Locking, Cleared, NamesOf, At, Lane, I
<1>3. Dangling' /\ Claims'
  BY SMTT(30) DEF Inv, Dangling, Claims, Claimed, Whole, Works, Lane, I
<1>4. QED
  BY <1>1, <1>2, <1>3, Zenon DEF Inv

LEMMA InvInit ==
  ASSUME Setting, Init
  PROVE  Inv
<1>1. Idle \in Task /\ RepoCount \in Nat \ {0} /\ NoLane \notin Lanes
  BY IdleTask DEF Setting
<1>2. Types
  BY <1>1 DEF Init, Types
<1>3. \A t \in Tasks : task[t] = Idle
  BY Zenon DEF Init
<1>4. \A t \in Tasks : /\ task[t].op = "none" /\ task[t].pc = "idle" /\ task[t].lane = NoLane
  BY <1>3 DEF Idle
<1>5. \A t \in Tasks : Phase(t) /\ Locking(t) /\ Cleared(t)
  BY <1>3, <1>4, Zenon DEF Phase, Locking, Cleared, At, Lane, Making, Clearing
<1>6. OneEntry
  BY <1>1 DEF Init, OneEntry
<1>7. \A l \in Lanes : ready[l] = "no" /\ \A r \in Repo : checkout[l][r] = None
  BY Zenon DEF Init
<1>8. Dangling /\ Unborn
  BY <1>1, <1>4, <1>7, SMTT(30) DEF Init, Dangling, Unborn, Lane
<1>9. Alone /\ Crossing /\ Recorded
  BY <1>4, Zenon DEF Alone, Crossing, Recorded, Removals
<1>10. Claims
  BY <1>4, <1>7, Zenon DEF Claims, Claimed, Building
<1>11. QED
  BY <1>2, <1>5, <1>6, <1>8, <1>9, <1>10, Zenon DEF Inv

LEMMA InvStep ==
  ASSUME Setting, Inv, [Next]_vars
  PROVE  Inv'
<1>1. ASSUME NEW t \in Tasks, Step(t)
      PROVE  Inv'
  <2>1. CASE CreateBranch(t)
    BY <2>1, CreateBranchStep
  <2>2. CASE LockPath(t)
    BY <2>2, LockPathStep
  <2>3. CASE SkipsMissing(t)
    BY <2>3, SkipsMissingStep, Zenon
  <2>4. CASE CheckSetUp(t)
    BY <2>4, CheckSetUpStep
  <2>5. CASE Removes(t, "remove", "meta") \/ Removes(t, "clean", "metas")
    BY <2>5, RemovesStep
  <2>6. CASE CleansMetadata(t, "meta", "rmdir") \/ CleansMetadata(t, "metas", "rmtree")
    BY <2>6, CleansMetadataStep, ZenonT(30)
  <2>7. CASE RemovesDir(t)
    BY <2>7, RemovesDirStep
  <2>8. CASE AddEntry(t)
    BY <2>8, AddEntryStep
  <2>9. CASE AddCheckout(t)
    BY <2>9, AddCheckoutStep
  <2>10. CASE AddFails(t)
    BY <2>10, AddFailsStep
  <2>11. CASE LockRepo(t)
    BY <2>11, LockRepoStep
  <2>12. CASE RemovesTree(t)
    BY <2>12, RemovesTreeStep
  <2>13. CASE RemovesEmpty(t)
    BY <2>13, RemovesEmptyStep
  <2>14. CASE RemovesAll(t)
    BY <2>14, RemovesAllStep
  <2>15. CASE DeletesBranches(t)
    BY <2>15, DeletesBranchesStep
  <2>16. CASE SweepNext(t)
    BY <2>16, SweepNextStep
  <2>17. QED
    BY <1>1, <2>1, <2>2, <2>3, <2>4, <2>5, <2>6, <2>7, <2>8, <2>9, <2>10, <2>11, <2>12, <2>13,
       <2>14, <2>15, <2>16, Zenon DEF Step
<1>2. ASSUME NEW t \in Tasks, NEW op \in AllOps, NEW l \in Lanes, Begin(t, op, l)
      PROVE  Inv'
  BY <1>2, BeginStep, Zenon
<1>3. ASSUME NEW l \in Lanes, Vanishes(l) \/ Reappears(l)
      PROVE  Inv'
  <2>1. UNCHANGED <<entries, checkout, folder, rows, pathLock, task, ready>>
    BY <1>3 DEF Vanishes, Reappears
  <2>2. QED
    BY <2>1, Unchanged, SMTT(30)
<1>4. CASE UNCHANGED vars
  <2>1. UNCHANGED <<entries, checkout, folder, rows, pathLock, task, ready>>
    BY <1>4 DEF vars
  <2>2. QED
    BY <2>1, Unchanged
<1>5. QED
  BY <1>1, <1>2, <1>3, <1>4, Zenon DEF Next

LEMMA Invariance ==
  ASSUME Setting
  PROVE  Spec => []Inv
<1>1. Init => Inv
  BY InvInit
<1>2. Inv /\ [Next]_vars => Inv'
  BY InvStep
<1>3. QED
  BY <1>1, <1>2, PTL DEF Spec

\* Checkouts of two workspaces name one entry only while one of them is being
\* removed or remade under its lock, and no path has two entries.
LEMMA EntriesNotShared ==
  ASSUME Setting, Inv
  PROVE  NoSharedEntry
<1>1. ASSUME NEW r \in Repo, NEW l \in Lanes
      PROVE  Cardinality(NamesOf(l, r)) <= 1
  <2> DEFINE S == NamesOf(l, r)
  <2>1. \A m, n \in S : m = n
    BY DEF Inv, OneEntry, NamesOf
  <2> HIDE DEF S
  <2>2. CASE S = {}
    BY <2>2, FS_EmptySet DEF S
  <2>3. ASSUME NEW n \in S PROVE Cardinality(S) <= 1
    <3>1. S = {n}
      BY <2>1, Zenon
    <3>2. QED
      BY <3>1, FS_Singleton
  <2>4. QED
    BY <2>2, <2>3 DEF S
<1>2. ASSUME NEW r \in Repo, NEW l \in Lanes, checkout[l][r] # None, ~Whole(l, r)
      PROVE  pathLock[l][r] # Free
  <2>1. PICK t \in Tasks : task[t].pc \in {"rmdir", "rmtree"} /\ Works(t, l, r)
    BY <1>2, Zenon DEF Inv, Dangling
  <2>2. pathLock[l][r] = t
    BY <2>1, Zenon DEF Inv, Locking, Works, Making, Clearing
  <2>3. QED
    BY <2>2, Zenon DEF Setting
<1>3. ASSUME NEW r \in Repo, NEW l \in Lanes, NEW k \in Lanes, l # k, checkout[l][r] # None,
             checkout[l][r] = checkout[k][r]
      PROVE  pathLock[l][r] # Free \/ pathLock[k][r] # Free
  <2>1. ~Whole(l, r) \/ ~Whole(k, r)
    BY <1>3, Zenon DEF Whole
  <2>2. QED
    BY <1>2, <1>3, <2>1, Zenon
<1>4. QED
  BY <1>1, <1>3, Zenon DEF NoSharedEntry

\* A workspace that was reported as set up has, in every repository, a checkout
\* and an entry of git's that name each other, until its own removal begins,
\* whatever is created, ensured, removed, swept or fails beside it (worktree
\* manager: the lock of a path, and a clean-up that touches that path alone);
\* and workspaces share no entry.
THEOREM ReadyStaysWhole ==
  ASSUME Setting
  PROVE  Spec => []ReadyIsWhole
<1>1. Inv => StaysWhole
  BY DEF Inv, Claims, Claimed, StaysWhole
<1>2. Inv => ReadyIsWhole
  BY <1>1, EntriesNotShared DEF ReadyIsWhole
<1>3. QED
  BY <1>2, Invariance, PTL

\* When the rollback of a failed creation ends, none of the worktrees that the
\* creation had made is left (create_workspace).
THEOREM CreationRollsBack ==
  ASSUME Setting
  PROVE  Spec => RolledBack
<1>1. Inv => RollsBack
  <2>1. ASSUME Inv, NEW t \in Tasks, At(t, "rmempty"), NEW r \in Repo
        PROVE  checkout[Lane(t)][r] = None
    <3>1. task[t].op = "undo" /\ task[t].made = {}
      BY <2>1 DEF Inv, Phase
    <3>2. QED
      BY <2>1, <3>1, ZenonT(30) DEF Inv, Recorded
  <2>2. QED
    BY <2>1 DEF RollsBack
<1>2. QED
  BY <1>1, Invariance, PTL DEF RolledBack

=============================================================================
