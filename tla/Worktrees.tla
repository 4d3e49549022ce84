----------------------------- MODULE Worktrees ------------------------------
(***************************************************************************)
(* The workspace manager and the worktree manager: the worktrees that a     *)
(* workspace (a lane) has in each of its repositories.                      *)
(*                                                                          *)
(* Of a repository we keep git's administrative entries, each with the path *)
(* of the checkout that it belongs to, and its branches; of a checkout the  *)
(* entry that its .git file names.  Tasks create, ensure and remove the     *)
(* worktrees of a lane.  They lock a path while they work on it; a removal  *)
(* locks the repository too.                                                *)
(***************************************************************************)
EXTENDS Integers, FiniteSets, FiniteSetsExt

CONSTANTS
  Tasks,     \* concurrent requests
  Lanes,     \* workspaces
  RepoCount, \* the repositories of every workspace are 1..RepoCount
  MaxOps,    \* operations that are begun
  Ops,       \* which operations are begun
  MaxFaults  \* git worktree add fails so often

AllOps == {"create", "ensure", "delete", "expire", "sweep"}
Removals == {"delete", "expire", "sweep"}

VARIABLES
  entries,  \* entries[r][n]: the lane whose path git's entry n of r names
  checkout, \* checkout[l][r]: the entry that the .git file of the checkout names
  branch,   \* the lanes whose branch exists in a repository
  folder,   \* the lanes whose workspace directory exists
  rows,     \* the row of a lane: registered when it has its container_ref
  pathLock, \* who holds WORKTREE_CREATION_LOCKS
  repoLock, \* who holds REPO_MUTATION_LOCKS
  task,     \* the running operations
  ready,    \* was the lane reported as set up, and no removal crossed that or began since?
  hidden,   \* the lanes whose checkouts cannot be seen for the moment
  begun     \* operations begun, and faults so far

vars == <<entries, checkout, branch, folder, rows, pathLock, repoLock, task, ready, hidden, begun>>

Repo == 1..RepoCount
None == 0
Names == 1..Cardinality(Lanes) + 1
NoLane == "no lane"
Free == "free"
Idle == [op |-> "none", lane |-> NoLane, i |-> 1, pc |-> "idle", made |-> {}, tried |-> FALSE, known |-> {},
         crossed |-> FALSE]

Init ==
  /\ entries = [r \in Repo |-> [n \in Names |-> NoLane]]
  /\ checkout = [l \in Lanes |-> [r \in Repo |-> None]]
  /\ branch = [r \in Repo |-> {}]
  /\ folder = {} /\ rows = [l \in Lanes |-> "none"]
  /\ pathLock = [l \in Lanes |-> [r \in Repo |-> Free]]
  /\ repoLock = [r \in Repo |-> Free]
  /\ task = [t \in Tasks |-> Idle]
  /\ ready = [l \in Lanes |-> "no"]
  /\ hidden = {}
  /\ begun = [ops |-> 0, faults |-> 0]

-----------------------------------------------------------------------------
(* Git. *)

\* find_worktree_git_internal_name: the entries that name the path.
NamesOf(l, r) == {n \in Names : entries[r][n] = l}

\* is_worktree_properly_set_up: the path exists and an entry names it.
ProperlySetUp(l, r) == checkout[l][r] # None /\ NamesOf(l, r) # {}

\* The entry and the checkout name each other.
Whole(l, r) == checkout[l][r] # None /\ entries[r][checkout[l][r]] = l

\* The entries of r without those that name the path.
WithoutPath(l, r) == [n \in Names |-> IF entries[r][n] = l THEN NoLane ELSE entries[r][n]]

\* What `git worktree prune` would leave: it drops the entries whose checkout it
\* cannot see.
Pruned(l, r) ==
  [n \in Names |-> IF entries[r][n] \in hidden \cup {l} THEN NoLane ELSE entries[r][n]]

FreeNames(r) == {n \in Names : entries[r][n] = NoLane}

-----------------------------------------------------------------------------
Go(t, pc) == task' = [task EXCEPT ![t].pc = pc]
At(t, pc) == task[t].pc = pc
Lane(t) == task[t].lane
I(t) == task[t].i
MayFail == begun.faults < MaxFaults
Fault == begun' = [begun EXCEPT !.faults = @ + 1]

Removing(l) == \E t \in Tasks : task[t].op \in Removals /\ task[t].lane = l

UnlockPath(t) == pathLock' = [pathLock EXCEPT ![Lane(t)][I(t)] = Free]
UnlockRepo(t) == repoLock' = [r \in Repo |-> IF repoLock[r] = t THEN Free ELSE repoLock[r]]

\* A removal of lane l begins: the operations on it have been crossed by it.
Crossed(l) == [u \in Tasks |-> IF task[u].lane = l THEN [task[u] EXCEPT !.crossed = TRUE] ELSE task[u]]

Registered == {l \in Lanes : rows[l] = "registered"}

\* A request: create makes the row of a new lane, delete takes it out; the sweep
\* takes the lanes that are registered now.  A lane is ensured once its creation
\* has ended, well or not.
Begin(t, op, l) ==
  /\ op \in Ops /\ At(t, "idle") /\ begun.ops < MaxOps /\ l \notin hidden
  /\ begun' = [begun EXCEPT !.ops = @ + 1]
  /\ \/ /\ op = "create" /\ rows[l] = "none"
        /\ task' = [task EXCEPT ![t] = [Idle EXCEPT !.op = op, !.lane = l, !.pc = "branch"]]
        /\ folder' = folder \cup {l}
        /\ rows' = [rows EXCEPT ![l] = "made"]
        /\ UNCHANGED ready
     \/ /\ op = "ensure" /\ rows[l] \in {"made", "registered"}
        /\ \A u \in Tasks : ~(task[u].lane = l /\ task[u].op \in {"create", "undo"})
        /\ task' = [task EXCEPT ![t] = [Idle EXCEPT !.op = op, !.lane = l, !.pc = "branch", !.crossed = Removing(l)]]
        /\ folder' = folder \cup {l}
        /\ UNCHANGED <<rows, ready>>
     \/ /\ op \in {"delete", "expire"}
        /\ rows[l] = "registered" \/ (op = "delete" /\ rows[l] = "made")
        /\ task' = [Crossed(l) EXCEPT ![t] =
             [Idle EXCEPT !.op = op, !.lane = l, !.pc = IF rows[l] = "made" THEN "branches" ELSE "lock"]]
        /\ rows' = IF op = "delete" THEN [rows EXCEPT ![l] = "gone"] ELSE rows
        /\ ready' = [ready EXCEPT ![l] = "no"]
        /\ UNCHANGED folder
     \/ /\ op = "sweep" /\ (\A u \in Tasks : task[u].op # "sweep")
        /\ task' = [task EXCEPT ![t] = [Idle EXCEPT !.op = op, !.pc = "snap", !.known = Registered]]
        /\ UNCHANGED <<folder, rows, ready>>
  /\ UNCHANGED <<entries, checkout, branch, pathLock, repoLock, hidden>>

-----------------------------------------------------------------------------
(* create_workspace and ensure_workspace_exists, one repository at a time. *)

\* The last repository is done, and the directory is registered.
Finished(t) ==
  /\ task' = [task EXCEPT ![t] = Idle]
  /\ rows' = IF rows[Lane(t)] = "made" THEN [rows EXCEPT ![Lane(t)] = "registered"] ELSE rows
  /\ ready' = [ready EXCEPT ![Lane(t)] = IF task[t].crossed THEN "no" ELSE "yes"]

NextRepo(t) ==
  IF I(t) < RepoCount
  THEN /\ task' = [task EXCEPT ![t].i = @ + 1, ![t].pc = "branch", ![t].tried = FALSE,
                               ![t].made = @ \cup {I(t)}]
       /\ UNCHANGED <<rows, ready>>
  ELSE Finished(t)

\* The operation fails, and leaves what it has made.
GivesUpLeaves(t) ==
  /\ task' = [task EXCEPT ![t] = IF task[t].op = "ensure" THEN Idle ELSE [task[t] EXCEPT !.op = "undo", !.pc = "rmempty"]]
  /\ UNCHANGED <<rows, ready>>

\* The operation fails: create takes back what it has made.
GivesUp(t) ==
  /\ task' = [task EXCEPT ![t] =
       IF task[t].op = "ensure" THEN Idle
       ELSE IF task[t].made = {} THEN [task[t] EXCEPT !.op = "undo", !.pc = "rmempty"]
       ELSE [task[t] EXCEPT !.op = "undo", !.i = Min(task[t].made), !.pc = "lock"]]
  /\ UNCHANGED <<rows, ready>>

\* create_branch; ensure creates the branch only if it is missing.
CreateBranch(t) ==
  /\ At(t, "branch")
  /\ IF Lane(t) \notin branch[I(t)]
     THEN /\ branch' = [branch EXCEPT ![I(t)] = @ \cup {Lane(t)}]
          /\ Go(t, "lock") /\ UNCHANGED <<rows, ready>>
     ELSE /\ UNCHANGED branch
          /\ IF task[t].op = "ensure" THEN Go(t, "lock") /\ UNCHANGED <<rows, ready>> ELSE GivesUp(t)
  /\ UNCHANGED <<entries, checkout, folder, pathLock, repoLock, begun, hidden>>

\* Waits for the lock of the path.
LockPath(t) ==
  /\ At(t, "lock") /\ pathLock[Lane(t)][I(t)] = Free
  /\ pathLock' = [pathLock EXCEPT ![Lane(t)][I(t)] = t]
  /\ Go(t, IF task[t].op \in {"create", "ensure"} THEN "check" ELSE "repo")
  /\ UNCHANGED <<entries, checkout, branch, folder, rows, repoLock, ready, begun, hidden>>

\* cleanup_workspace_without_repos passes over what has no checkout.
SkipsMissing(t) ==
  /\ At(t, "lock") /\ task[t].op = "sweep" /\ checkout[Lane(t)][I(t)] = None
  /\ task' = [task EXCEPT ![t].i = IF I(t) < RepoCount THEN @ + 1 ELSE 1,
                          ![t].pc = IF I(t) < RepoCount THEN "lock" ELSE "rmall"]
  /\ UNCHANGED <<entries, checkout, branch, folder, rows, pathLock, repoLock, ready, begun, hidden>>

CheckSetUp(t) ==
  /\ At(t, "check")
  /\ IF ProperlySetUp(Lane(t), I(t))
     THEN NextRepo(t) /\ UnlockPath(t)
     ELSE Go(t, "remove") /\ UNCHANGED <<rows, ready, pathLock>>
  /\ UNCHANGED <<entries, checkout, branch, folder, repoLock, begun, hidden>>

\* git worktree remove --force: its failure is not fatal.
GitRemove(l, r) ==
  IF NamesOf(l, r) # {}
  THEN /\ entries' = [entries EXCEPT ![r] = WithoutPath(l, r)]
       /\ checkout' = [checkout EXCEPT ![l][r] = None]
  ELSE UNCHANGED <<entries, checkout>>

Removes(t, pc, next) ==
  /\ At(t, pc)
  /\ Go(t, next)
  /\ \/ GitRemove(Lane(t), I(t)) /\ UNCHANGED begun
     \/ MayFail /\ Fault /\ UNCHANGED <<entries, checkout>>
  /\ UNCHANGED <<branch, folder, rows, pathLock, repoLock, ready, hidden>>

\* force_cleanup_worktree_metadata.
CleanMetadataPrunes(l, r) == entries' = [entries EXCEPT ![r] = Pruned(l, r)]
CleanMetadata(l, r) == entries' = [entries EXCEPT ![r] = WithoutPath(l, r)]

CleansMetadata(t, pc, next) ==
  /\ At(t, pc)
  /\ Go(t, next)
  /\ CleanMetadata(Lane(t), I(t))
  /\ UNCHANGED <<checkout, branch, folder, rows, pathLock, repoLock, ready, begun, hidden>>

RemovesDir(t) ==
  /\ At(t, "rmdir")
  /\ Go(t, "add")
  /\ checkout' = [checkout EXCEPT ![Lane(t)][I(t)] = None]
  /\ folder' = folder \cup {Lane(t)}
  /\ UNCHANGED <<entries, branch, rows, pathLock, repoLock, ready, begun, hidden>>

\* git worktree add takes the first free name for its entry ...
AddEntry(t) ==
  /\ At(t, "add") /\ Lane(t) \in branch[I(t)]
  /\ Go(t, "fill")
  /\ entries' = [entries EXCEPT ![I(t)][Min(FreeNames(I(t)))] = Lane(t)]
  /\ UNCHANGED <<checkout, branch, folder, rows, pathLock, repoLock, ready, begun, hidden>>

\* ... and then checks the branch out.
AddCheckout(t) ==
  LET own == NamesOf(Lane(t), I(t)) IN
  /\ At(t, "fill") /\ own # {}
  /\ checkout' = [checkout EXCEPT ![Lane(t)][I(t)] = Min(own)]
  /\ folder' = folder \cup {Lane(t)}
  /\ NextRepo(t) /\ UnlockPath(t)
  /\ UNCHANGED <<entries, branch, repoLock, begun, hidden>>

\* It fails, and may leave its entry behind.  The first failure is retried
\* after another clean-up of what is left.
AddFails(t) ==
  /\ \/ At(t, "add") /\ Lane(t) \notin branch[I(t)] /\ UNCHANGED begun
     \/ At(t, "add") /\ MayFail /\ Fault
     \/ At(t, "fill") /\ MayFail /\ Fault
     \/ At(t, "fill") /\ NamesOf(Lane(t), I(t)) = {} /\ UNCHANGED begun
  /\ IF task[t].tried
     THEN GivesUp(t) /\ UnlockPath(t)
     ELSE /\ task' = [task EXCEPT ![t].pc = "meta", ![t].tried = TRUE]
          /\ UNCHANGED <<rows, ready, pathLock>>
  /\ UNCHANGED <<entries, checkout, branch, folder, repoLock, hidden>>

-----------------------------------------------------------------------------
(* cleanup_worktree, under both locks, for each repository. *)

\* The repository of an orphan is inferred from its checkout.
Inferred(t) ==
  LET name == checkout[Lane(t)][I(t)] IN
  task[t].op = "sweep" => name # None /\ entries[I(t)][name] # NoLane

LockRepo(t) ==
  /\ At(t, "repo")
  /\ IF Inferred(t)
     THEN /\ repoLock[I(t)] = Free
          /\ repoLock' = [repoLock EXCEPT ![I(t)] = t]
          /\ Go(t, "clean")
     ELSE Go(t, "rmtree") /\ UNCHANGED repoLock
  /\ UNCHANGED <<entries, checkout, branch, folder, rows, pathLock, ready, begun, hidden>>

AfterRemoval(t) ==
  IF task[t].op = "undo"
  THEN LET rest == task[t].made \ {I(t)} IN
       IF rest = {} THEN [task[t] EXCEPT !.made = {}, !.pc = "rmempty"]
       ELSE [task[t] EXCEPT !.made = rest, !.i = Min(rest), !.pc = "lock"]
  ELSE IF I(t) < RepoCount THEN [task[t] EXCEPT !.i = @ + 1, !.pc = "lock"]
  ELSE [task[t] EXCEPT !.i = 1, !.pc = "rmall"]

RemovesTree(t) ==
  /\ At(t, "rmtree")
  /\ checkout' = [checkout EXCEPT ![Lane(t)][I(t)] = None]
  /\ task' = [task EXCEPT ![t] = AfterRemoval(t)]
  /\ UnlockPath(t) /\ UnlockRepo(t)
  /\ UNCHANGED <<entries, branch, folder, rows, ready, begun, hidden>>

\* The rollback removes the directory if it is empty.
RemovesEmpty(t) ==
  /\ At(t, "rmempty")
  /\ task' = [task EXCEPT ![t] = Idle]
  /\ folder' = IF \A r \in Repo : checkout[Lane(t)][r] = None THEN folder \ {Lane(t)} ELSE folder
  /\ UNCHANGED <<entries, checkout, branch, rows, pathLock, repoLock, ready, begun, hidden>>

\* cleanup_workspace removes the directory with all that is in it; no lock is held.
RemovesAll(t) ==
  /\ At(t, "rmall")
  /\ checkout' = [checkout EXCEPT ![Lane(t)] = [r \in Repo |-> None]]
  /\ folder' = folder \ {Lane(t)}
  /\ task' = [task EXCEPT ![t] =
       IF task[t].op = "delete" THEN [task[t] EXCEPT !.pc = "branches"]
       ELSE IF task[t].op = "sweep" THEN [task[t] EXCEPT !.lane = NoLane, !.pc = "next"]
       ELSE Idle]
  /\ UNCHANGED <<entries, branch, rows, pathLock, repoLock, ready, begun, hidden>>

\* Git refuses to delete a branch that is checked out.
DeletesBranches(t) ==
  /\ At(t, "branches") /\ repoLock[I(t)] = Free
  /\ branch' = IF NamesOf(Lane(t), I(t)) = {} THEN [branch EXCEPT ![I(t)] = @ \ {Lane(t)}] ELSE branch
  /\ task' = [task EXCEPT ![t] = IF I(t) < RepoCount THEN [task[t] EXCEPT !.i = @ + 1] ELSE Idle]
  /\ UNCHANGED <<entries, checkout, folder, rows, pathLock, repoLock, ready, begun, hidden>>

\* cleanup_orphans_in_directory: the next directory that no row names.
SweepNext(t) ==
  /\ task[t].pc \in {"snap", "next"}
  /\ \/ \E l \in folder \ task[t].known :
          /\ task' = [Crossed(l) EXCEPT ![t].lane = l, ![t].i = 1, ![t].pc = "lock"]
          /\ ready' = [ready EXCEPT ![l] = "no"]
     \/ /\ folder \subseteq task[t].known
        /\ task' = [task EXCEPT ![t] = Idle]
        /\ UNCHANGED ready
  /\ UNCHANGED <<entries, checkout, branch, folder, rows, pathLock, repoLock, begun, hidden>>

-----------------------------------------------------------------------------
Step(t) ==
  \/ CreateBranch(t) \/ LockPath(t) \/ SkipsMissing(t) \/ CheckSetUp(t)
  \/ Removes(t, "remove", "meta") \/ CleansMetadata(t, "meta", "rmdir") \/ RemovesDir(t)
  \/ AddEntry(t) \/ AddCheckout(t) \/ AddFails(t)
  \/ LockRepo(t) \/ Removes(t, "clean", "metas") \/ CleansMetadata(t, "metas", "rmtree")
  \/ RemovesTree(t) \/ RemovesEmpty(t) \/ RemovesAll(t) \/ DeletesBranches(t) \/ SweepNext(t)

\* The directory of a lane that nothing works on cannot be read for a while.
Vanishes(l) ==
  /\ MayFail /\ Fault
  /\ ready[l] = "yes" /\ l \notin hidden /\ (\A t \in Tasks : task[t].lane # l)
  /\ hidden' = hidden \cup {l}
  /\ UNCHANGED <<entries, checkout, branch, folder, rows, pathLock, repoLock, task, ready>>

Reappears(l) ==
  /\ l \in hidden
  /\ hidden' = hidden \ {l}
  /\ UNCHANGED <<entries, checkout, branch, folder, rows, pathLock, repoLock, task, ready, begun>>

Next ==
  \/ \E t \in Tasks : Step(t) \/ \E op \in AllOps, l \in Lanes : Begin(t, op, l)
  \/ \E l \in Lanes : Vanishes(l) \/ Reappears(l)

Spec == Init /\ [][Next]_vars

-----------------------------------------------------------------------------
(* Properties *)

\* No two checkouts of a repository name the same entry, unless one of them is
\* being removed or remade under its lock, and no path has two entries: lanes
\* that share one share an index and a HEAD (comprehensive_worktree_cleanup
\* does not prune).
NoSharedEntry ==
  \A r \in Repo :
    /\ \A l, k \in Lanes :
         l # k /\ checkout[l][r] # None /\ checkout[l][r] = checkout[k][r] =>
            pathLock[l][r] # Free \/ pathLock[k][r] # Free
    /\ \A l \in Lanes : Cardinality(NamesOf(l, r)) <= 1

\* A lane that was reported as set up stays whole until it is removed itself,
\* whatever is created, removed or fails beside it in the same repositories.
StaysWhole == \A l \in Lanes : ready[l] = "yes" => \A r \in Repo : Whole(l, r)

\* Both: what was set up is whole, and shares nothing with another lane.
ReadyIsWhole == StaysWhole /\ NoSharedEntry

\* A creation that fails leaves none of the worktrees that it had made
\* (create_workspace rolls back).
RollsBack ==
  \A t \in Tasks : At(t, "rmempty") /\ task'[t] = Idle =>
     \A r \in Repo : checkout[Lane(t)][r] = None

RolledBack == [][RollsBack]_vars

=============================================================================
