--------------------------------- MODULE MCRecords ----------------------------
(***************************************************************************)
(* What the server records and shows: the import of an agent's transcript  *)
(* into the ledger, the feed that shows the ledger to a browser, the       *)
(* Inputs that an agent puts to the owner, and the live views of rows.     *)
(*                                                                         *)
(* Each component is instantiated for one or more questions, named by      *)
(* focus, which is chosen initially. The components share no variable, so  *)
(* a behaviour in which one of them moves and the others rest shows        *)
(* everything that it can do.                                              *)
(*                                                                         *)
(* Three of them are extended, with the constants of the configuration: a  *)
(* file that is appended to and rewritten while imports fail and the       *)
(* server crashes ("import"), three requests without time passing, enough  *)
(* to close an Input and undo it ("ledger"), and concurrent writes of one  *)
(* report tab, deletions included ("writes").                              *)
(***************************************************************************)
EXTENDS WorkspaceInput, EventStreams, TranscriptImport
VARIABLES
  \* NativeFeed
  link, file, outbox, watermark, linkedTo, revision, prune, notify, task, pub,
  cell, feedClient, feedGhost,
  focus  \* the component that moves

\* A session whose records are replaced and attributed while it is watched.
Feed == INSTANCE NativeFeed WITH
  Sessions <- {"s1", "s2"}, Watched <- "s1", Sids <- {"a"}, MaxRecords <- 1,
  MaxRescans <- 1, MaxMoves <- 0, MaxOrigins <- 1, MaxConnects <- 1,
  MaxCrashes <- 0, ChannelCap <- 2, RevisionRace <- FALSE,
  client <- feedClient, ghost <- feedGhost

\* A transcript that is assigned to another session.
Moves == INSTANCE NativeFeed WITH
  Sessions <- {"s1", "s2"}, Watched <- "s1", Sids <- {"a"}, MaxRecords <- 1,
  MaxRescans <- 0, MaxMoves <- 1, MaxOrigins <- 0, MaxConnects <- 1,
  MaxCrashes <- 0, ChannelCap <- 2, RevisionRace <- FALSE,
  client <- feedClient, ghost <- feedGhost

\* A crash between an import and its publication.
Restarts == INSTANCE NativeFeed WITH
  Sessions <- {"s1", "s2"}, Watched <- "s1", Sids <- {"a"}, MaxRecords <- 1,
  MaxRescans <- 1, MaxMoves <- 0, MaxOrigins <- 0, MaxConnects <- 1,
  MaxCrashes <- 1, ChannelCap <- 2, RevisionRace <- FALSE,
  client <- feedClient, ghost <- feedGhost

\* Two servers notify; a claim can run out and a tick can be lost.
Input == INSTANCE WorkspaceInput WITH
  Requests <- {"r1", "r2"}, Workers <- {"n1", "n2"}, MaxTime <- 1,
  ClaimTime <- 1, MaxLosses <- 1

\* A report view that lags and reconnects.
Reports == INSTANCE EventStreams WITH
  Kind <- "reports", Writers <- {"w1", "w2"}, Values <- {"x"},
  MaxViewWrites <- 2, MaxConnects <- 2, ChannelCap <- 1

\* A view of a workspace or an execution process.
Status == INSTANCE EventStreams WITH
  Kind <- "status", Writers <- {"w1", "w2"}, Values <- {"x"}, MaxViewWrites <- 2,
  MaxConnects <- 1, ChannelCap <- 1

feedVars == <<link, file, outbox, watermark, linkedTo, revision, prune,
              notify, task, pub, cell, feedClient, feedGhost>>
recordsVars == <<importVars, feedVars, vars, viewVars, focus>>

RecordsInit ==
  /\ focus \in {"import", "feed", "moves", "restarts", "input", "ledger", "writes", "reports", "status"}
  /\ ImportInit
  /\ Feed!Init
  /\ focus \notin {"feed", "moves", "restarts"} => link["a"] = "s1"
  /\ IF focus = "ledger" THEN Init ELSE Input!Init
  /\ ViewInit
  /\ focus \notin {"writes", "reports", "status"} => viewRow = NoView

OnlyImport == UNCHANGED <<feedVars, vars, viewVars, focus>>
OnlyFeed == UNCHANGED <<importVars, vars, viewVars, focus>>
OnlyInput == UNCHANGED <<importVars, feedVars, viewVars, focus>>
OnlyWrites == UNCHANGED <<importVars, feedVars, vars, focus>>

InImport == focus = "import"
InFeed == focus = "feed"
InMoves == focus = "moves"
InRestarts == focus = "restarts"
InInput == focus = "input"
InLedger == focus = "ledger"
InWrites == focus = "writes"
InReports == focus = "reports"
InStatus == focus = "status"

ImportMoves == InImport /\ ImportNext /\ OnlyImport
FeedMoves == InFeed /\ Feed!Next /\ OnlyFeed
MovesMoves == InMoves /\ Moves!Next /\ OnlyFeed
RestartsMoves == InRestarts /\ Restarts!Next /\ OnlyFeed
InputMoves == InInput /\ Input!Next /\ OnlyInput
LedgerMoves == InLedger /\ Next /\ OnlyInput
WritesMoves == InWrites /\ ViewNext /\ OnlyWrites
ReportsMoves == InReports /\ Reports!ViewNext /\ OnlyWrites
StatusMoves == InStatus /\ Status!ViewNext /\ OnlyWrites
RecordsNext == ImportMoves \/ FeedMoves \/ MovesMoves \/ RestartsMoves \/ InputMoves \/ LedgerMoves \/ WritesMoves \/ ReportsMoves \/ StatusMoves

RecordsSpec ==
  /\ RecordsInit /\ [][RecordsNext]_recordsVars
  /\ WF_recordsVars(InImport /\ RegistryScan /\ OnlyImport)
  /\ \A x \in {"watcher", "registry", "request"} :
       WF_recordsVars(InImport /\ ImportStep(x) /\ OnlyImport)
  /\ WF_recordsVars(InFeed /\ Feed!PublisherStep /\ OnlyFeed)
  /\ WF_recordsVars(InFeed /\ Feed!FeedStep /\ OnlyFeed)
  /\ \A x \in {"a", "launch", "linker"} :
       WF_recordsVars(InFeed /\ (Feed!Signal(x) \/ Feed!InvalidateRevision(x)) /\ OnlyFeed)
  /\ WF_recordsVars(InMoves /\ Moves!PublisherStep /\ OnlyFeed)
  /\ WF_recordsVars(InMoves /\ Moves!FeedStep /\ OnlyFeed)
  /\ \A x \in {"a", "launch", "linker"} :
       WF_recordsVars(InMoves /\ (Moves!Signal(x) \/ Moves!InvalidateRevision(x)) /\ OnlyFeed)
  /\ WF_recordsVars(InRestarts /\ Restarts!PublisherStep /\ OnlyFeed)
  /\ WF_recordsVars(InRestarts /\ Restarts!FeedStep /\ OnlyFeed)
  /\ \A x \in {"a", "launch", "linker"} :
       WF_recordsVars(InRestarts /\ (Restarts!Signal(x) \/ Restarts!InvalidateRevision(x)) /\ OnlyFeed)
  /\ WF_recordsVars(InInput /\ Input!Clock /\ OnlyInput)
  /\ \A x \in {"n1", "n2"} : WF_recordsVars(InInput /\ Input!Tick(x) /\ OnlyInput)
  /\ \A x \in {"w1", "w2"} :
       WF_recordsVars(InReports /\ Reports!WriterStep(x) /\ OnlyWrites)
  /\ WF_recordsVars(InReports /\ Reports!HookStep /\ OnlyWrites)
  /\ WF_recordsVars(InReports /\ Reports!ClientStep /\ OnlyWrites)

-----------------------------------------------------------------------------
\* Once the agent stops writing, the reconcile pass brings the ledger to the
\* lines of the file.
Converges == <>[](focus = "import" => LedgerHasFile)

\* Once imports and moves stop, an open feed comes to show the records of its
\* session, whichever notifications, lagged messages and restarts came before
\* (stream_native_feed).
FeedConverges == <>[](focus \in {"feed", "moves", "restarts"} => Feed!FeedIsCurrent)

\* No due Input waits for its notification for ever, whichever server lost a
\* tick (input_availability.rs).
DueIsNotified == <>[](focus = "input" => Input!NothingDue)

\* Once writing stops, an open report view comes to show the row, through
\* early reads of the update hook, reordered pushes and lag
\* (stream_workspace_reports).
ViewConverges == <>[](focus = "reports" => Reports!ViewIsCurrent)
=============================================================================
