--------------------------- MODULE SpawnReservation ---------------------------
(***************************************************************************)
(* The per-workspace spawn reservation: the SQLite table                   *)
(* workspace_spawn_reservations and the calls acquire and release of       *)
(* crates/db/src/models/workspace_spawn_reservation.rs.                    *)
(*                                                                         *)
(* A client is one in-flight request that wants to start a writer in a     *)
(* workspace: an executor dispatch, a terminal attach, a conversation      *)
(* switch, a session handover.  acquire reads the wall clock before it     *)
(* opens its transaction, so a request that waits for SQLite's write lock  *)
(* runs the transaction with a stale time; Ask and AcquireAt are the two   *)
(* halves.  A reservation is never renewed, and its holder never checks    *)
(* it again before it releases it.                                         *)
(*                                                                         *)
(* A fence (a fresh UUID) is a number drawn from a counter; 0 is no row.   *)
(***************************************************************************)
EXTENDS Integers

CONSTANTS
    Clients,     \* requests that may spawn a writer
    Workspaces,  \* workspaces with a CLI pane
    TTL,         \* DEFAULT_TTL, in clock ticks
    MaxTime,     \* bound: the clock stops here
    MaxFence     \* bound: reservations granted in one behaviour

ASSUME ReservationAssumption ==
    /\ TTL \in Nat \ {0}
    /\ MaxTime \in Nat
    /\ MaxFence \in Nat

VARIABLES
    table,   \* the row of each workspace: its fence and its expiry
    client,  \* the progress of each request
    now,     \* the wall clock
    fences   \* fences drawn so far

vars == <<table, client, now, fences>>

NoRow == [fence |-> 0, expires |-> 0]

Row == [fence : Nat, expires : Nat]

Client == [pc : {"idle", "asked", "holding"}, ws : Workspaces,
           at : Nat, fence : Nat, expires : Nat]

TypeOK ==
    /\ table \in [Workspaces -> Row]
    /\ client \in [Clients -> Client]
    /\ now \in Nat
    /\ fences \in Nat

Init ==
    /\ table = [w \in Workspaces |-> NoRow]
    /\ client \in [Clients -> {[pc |-> "idle", ws |-> w, at |-> 0,
                                fence |-> 0, expires |-> 0] : w \in Workspaces}]
    /\ now = 0
    /\ fences = 0

-----------------------------------------------------------------------------

\* acquire: Utc::now() is evaluated before the transaction begins.
Ask(c, w) ==
    /\ client[c].pc = "idle"
    /\ client' = [client EXCEPT ![c] = [pc |-> "asked", ws |-> w, at |-> now,
                                        fence |-> 0, expires |-> 0]]
    /\ UNCHANGED <<table, now, fences>>

\* A purge that forgets the expiry test and takes any row.
PurgedAny(row, at) == NoRow

\* The row the DELETE of expired reservations leaves, at the caller's time.
Purged(row, at) == IF row.expires <= at THEN NoRow ELSE row

\* INSERT OR IGNORE: the primary key admits one row per workspace.
Granted(c) == Purged(table[client[c].ws], client[c].at).fence = 0

\* The expiry one tick too late.
ExpiryLate(at) == at + TTL + 1

\* expires_at counts from the caller's reading of the clock.
Expiry(at) == at + TTL

AcquireAt(c) ==
    /\ client[c].pc = "asked"
    /\ fences < MaxFence
    /\ fences' = fences + 1
    /\ LET w == client[c].ws
           expires == Expiry(client[c].at)
       IN  IF Granted(c)
             THEN /\ table' = [table EXCEPT ![w] = [fence |-> fences',
                                                    expires |-> expires]]
                  /\ client' = [client EXCEPT ![c].pc = "holding",
                                              ![c].fence = fences',
                                              ![c].expires = expires]
             ELSE /\ table' = [table EXCEPT ![w] = Purged(table[w], client[c].at)]
                  /\ client' = [client EXCEPT ![c].pc = "idle"]
    /\ UNCHANGED now

\* A release keyed by the workspace alone.
UnfencedAny(row, fence) == NoRow

\* release deletes the row only while it carries the caller's fence.
Unfenced(row, fence) == IF row.fence = fence THEN NoRow ELSE row

Release(c) ==
    /\ client[c].pc = "holding"
    /\ table' = [table EXCEPT ![client[c].ws] = Unfenced(@, client[c].fence)]
    /\ client' = [client EXCEPT ![c].pc = "idle"]
    /\ UNCHANGED <<now, fences>>

\* The request dies (server crash, or a failed release that is only logged):
\* the row stays until a later acquire finds it expired.
Abandon(c) ==
    /\ client[c].pc # "idle"
    /\ client' = [client EXCEPT ![c].pc = "idle"]
    /\ UNCHANGED <<table, now, fences>>

Tick ==
    /\ now < MaxTime
    /\ now' = now + 1
    /\ UNCHANGED <<table, client, fences>>

Next ==
    \/ \E c \in Clients, w \in Workspaces : Ask(c, w)
    \/ \E c \in Clients : AcquireAt(c) \/ Release(c) \/ Abandon(c)
    \/ Tick

Spec == Init /\ [][Next]_vars

-----------------------------------------------------------------------------

Holding(c, w) == client[c].pc = "holding" /\ client[c].ws = w

\* A holder whose TTL has not run out.
ValidHolder(c, w) == Holding(c, w) /\ client[c].expires > now

\* Two requests never both hold an unexpired reservation of one workspace:
\* acquire_at grants only over no row or a row expired at a time already past.
OneValidHolder ==
    \A w \in Workspaces : \A c, d \in Clients :
        ValidHolder(c, w) /\ ValidHolder(d, w) => c = d

\* Until its TTL runs out a holder's row is the one in the table: neither an
\* acquire with a stale clock nor the late release of an earlier holder that
\* overstayed its TTL removes it.
ValidHolderOwnsRow ==
    \A w \in Workspaces : \A c \in Clients :
        ValidHolder(c, w) => table[w] = [fence |-> client[c].fence,
                                         expires |-> client[c].expires]

\* A row that leaves the table was released by the request that holds its
\* fence, or had expired (DELETE ... WHERE fence = $2, and the expiry purge).
RowLeavesByOwnerOrExpiry ==
    [][\A w \in Workspaces :
         table[w].fence # 0 /\ table'[w] # table[w] =>
            \/ table[w].expires <= now
            \/ \E c \in Clients :
                 /\ Holding(c, w) /\ client[c].fence = table[w].fence
                 /\ client'[c].pc = "idle"]_vars

\* A row a dead request left behind blocks its workspace for at most one TTL,
\* however long the transaction that wrote it waited.
BlocksAtMostTTL ==
    \A w \in Workspaces : table[w].fence # 0 => table[w].expires <= now + TTL

\* The design's wording: the reservation is held until the new process is
\* registered.  The code lets it lapse under a request that is still starting.
HeldUntilReleased ==
    \A w \in Workspaces : \A c \in Clients :
        Holding(c, w) => table[w].fence = client[c].fence

-----------------------------------------------------------------------------

\* The abstract promise: a mutual exclusion that may lapse by itself.
Valid == [w \in Workspaces |-> {c \in Clients : ValidHolder(c, w)}]

Mutex == INSTANCE SpawnMutex WITH held <- Valid

\* The reservation table implements that mutual exclusion.
ImplementsMutex == Mutex!Spec

=============================================================================
