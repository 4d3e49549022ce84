------------------------------ MODULE SpawnMutex ------------------------------
(***************************************************************************)
(* What a spawn reservation promises its callers: per workspace, at most   *)
(* one request is granted the right to start a writer, a grant is made     *)
(* only while nobody has it, and it may lapse at any time.                 *)
(***************************************************************************)

CONSTANTS Clients, Workspaces

VARIABLE held  \* the requests that have the right, per workspace

Init == held = [w \in Workspaces |-> {}]

Grant(w, c) ==
    /\ held[w] = {}
    /\ held' = [held EXCEPT ![w] = {c}]

\* A release, a crash or the passing of time takes grants away.
Lapse ==
    /\ held' \in [Workspaces -> SUBSET Clients]
    /\ \A w \in Workspaces : held'[w] \subseteq held[w]

Next == Lapse \/ \E w \in Workspaces, c \in Clients : Grant(w, c)

Spec == Init /\ [][Next]_held

=============================================================================
