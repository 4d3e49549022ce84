-------------------------- MODULE TranscriptImport --------------------------
(***************************************************************************)
(* The import of one native transcript file into the database: the tail   *)
(* protocol of claude_transcript_ingest.rs and tail.rs, the row of         *)
(* cli_native_file.rs and the transactions of cli_native_record.rs.        *)
(*                                                                         *)
(* An agent writes the file while three callers (the directory watcher,    *)
(* the registry pass and the request that assigns a transcript by hand)    *)
(* ask for its import.  A line is a number that is used once, so two       *)
(* writes never have equal bytes; all lines have the same length.          *)
(***************************************************************************)
EXTENDS Integers, Sequences

CONSTANTS
  MaxWrites,        \* writes of the agent
  MaxFaults,        \* errors, dropped futures and restarts of the server
  BatchLimit,       \* IMPORT_BATCH_LINE_LIMIT
  Codex,            \* is the file a Codex rollout (skipped while unchanged)?
  RewriteDuringImport  \* may an in-place rewrite hit a running import?

VARIABLES
  disk,       \* content of every inode the path has had
  inode,      \* the inode the path names now
  row,        \* the latest cli_native_files row and its records, or NoRow
  importing,  \* the path's entry in importing_paths, or NoEntry
  seen,       \* the path's stamp in codex_seen, or NoStamp
  job,        \* the import each caller is running
  writes, faults, aborted,
  versions,   \* every sequence of complete lines the file has held (history)
  noticed     \* the writes the last accepted request had seen (history)

importVars == <<disk, inode, row, importing, seen, job,
                writes, faults, aborted, versions, noticed>>

Callers == {"watcher", "registry", "request"}

NoRow == [gen |-> 0, inode |-> 0, cursor |-> 0, hash |-> 0, recs |-> <<>>]
NoEntry == [active |-> FALSE, pending |-> FALSE, force |-> FALSE]
NoStamp == <<0, 0, FALSE>>
NoImport == [pc |-> "idle", force |-> FALSE, inode |-> 0, size |-> 0,
             stamp |-> NoStamp, row |-> NoRow, replace |-> FALSE, cursor |-> 0,
             batch |-> <<>>, trailing |-> FALSE]

Lines == disk[inode].lines

\* Size and modification time of the file the path names.
Stamp == <<Len(Lines), writes, disk[inode].partial>>

ImportInit ==
  /\ disk = <<[lines |-> <<>>, partial |-> FALSE]>>
  /\ inode = 1
  /\ row = NoRow
  /\ importing = NoEntry
  /\ seen = NoStamp
  /\ job = [c \in Callers |-> NoImport]
  /\ writes = 0 /\ faults = 0 /\ aborted = FALSE
  /\ versions = {<<>>} /\ noticed = 0

-----------------------------------------------------------------------------
(* The agent that owns the file.                                           *)

\* The first or second new line of a write.
NewLine(k) == 3 * writes + k

Written(content, i) ==
  /\ writes < MaxWrites
  /\ writes' = writes + 1
  /\ inode' = i
  /\ disk' = [k \in DOMAIN disk \union {i} |-> IF k = i THEN content ELSE disk[k]]
  /\ versions' = versions \union {content.lines}
  /\ UNCHANGED <<row, importing, seen, job, faults, aborted, noticed>>

\* A line arrives whole, or completes the partial line at the end.
AppendLine ==
  Written([lines |-> Append(Lines, NewLine(1)), partial |-> FALSE], inode)

AppendPartial ==
  /\ ~disk[inode].partial
  /\ Written([lines |-> Lines, partial |-> TRUE], inode)

Running == \E c \in Callers : job[c].pc \in {"verify", "read", "commit"}

\* The file is cut in place and may get new lines in the same write.
RewriteInPlace(keep, more) ==
  /\ RewriteDuringImport \/ ~Running
  /\ keep < Len(Lines)
  /\ Written([lines |-> SubSeq(Lines, 1, keep) \o
                        [k \in 1..more |-> NewLine(k)],
              partial |-> FALSE], inode)

\* The file is replaced by another one (a new inode under the same path).
ReplaceFile(keep) ==
  Written([lines |-> Append(SubSeq(Lines, 1, keep), NewLine(1)),
           partial |-> FALSE], Len(disk) + 1)

-----------------------------------------------------------------------------
(* process_native_path: one import per path, later requests coalesce.      *)

ProcessNativePath(c, force) ==
  /\ job[c].pc = "idle"
  /\ IF importing.active
     THEN /\ importing' = [importing EXCEPT !.pending = TRUE,
                                            !.force = @ \/ force]
          /\ UNCHANGED job
     ELSE /\ importing' = [NoEntry EXCEPT !.active = TRUE]
          /\ job' = [job EXCEPT ![c] = [NoImport EXCEPT !.pc = "open",
                                                        !.force = force]]

\* A scan skips a Codex rollout whose stamp it has already imported.
ScanImports(force) == force \/ ~Codex \/ seen # Stamp

\* The registry pass, every REGISTRY_RECONCILE_INTERVAL, scans without force.
RegistryScan ==
  /\ ScanImports(FALSE)
  /\ ProcessNativePath("registry", FALSE)
  /\ noticed' = writes
  /\ UNCHANGED <<disk, inode, row, seen, writes, faults, aborted, versions>>

\* A watcher event scans.
WatcherEvent ==
  /\ ScanImports(FALSE)
  /\ ProcessNativePath("watcher", FALSE)
  /\ noticed' = writes
  /\ UNCHANGED <<disk, inode, row, seen, writes, faults, aborted, versions>>

\* A watcher error forces a rescan.
WatcherError ==
  /\ faults < MaxFaults
  /\ faults' = faults + 1
  /\ ScanImports(TRUE)
  /\ ProcessNativePath("watcher", TRUE)
  /\ noticed' = writes
  /\ UNCHANGED <<disk, inode, row, seen, writes, aborted, versions>>

\* assign_manual imports the file of the transcript it has just linked.
AssignManual ==
  /\ row.gen > 0
  /\ ProcessNativePath("request", FALSE)
  /\ noticed' = writes
  /\ UNCHANGED <<disk, inode, row, seen, writes, faults, aborted, versions>>

-----------------------------------------------------------------------------
(* process_native_path_inner.                                              *)

\* CliNativeFile::register: the latest generation, or a first empty one.
Register == IF row.gen = 0 THEN [NoRow EXCEPT !.gen = 1, !.inode = inode] ELSE row

\* Open and stat the file, register it, find its link and probe the pane.
OpenAndRegister(c) ==
  /\ job[c].pc = "open"
  /\ row' = Register
  /\ seen' = IF Codex THEN NoStamp ELSE seen
  /\ job' = [job EXCEPT ![c] = [@ EXCEPT !.pc = "verify", !.inode = inode,
                                         !.size = Len(Lines), !.stamp = Stamp,
                                         !.row = row']]
  /\ UNCHANGED <<disk, inode, importing, writes, faults, aborted, versions, noticed>>

Handle(c) == disk[job[c].inode]

\* verify_last_line_hash: the bytes now at the last imported line, 0 for none.
VerifiedHash(c) ==
  LET stored == job[c].row IN
  IF stored.cursor = 0 \/ job[c].size < stored.cursor THEN 0
  ELSE Handle(c).lines[stored.cursor]

\* The read of those bytes hits the end of a file cut after it was stated.
VerifyFails(c) ==
  /\ job[c].row.cursor > 0
  /\ job[c].size >= job[c].row.cursor
  /\ Len(Handle(c).lines) < job[c].row.cursor

RescanReason(c) ==
  LET stored == job[c].row IN
  \/ job[c].force
  \/ stored.inode # job[c].inode
  \/ job[c].size < stored.cursor
  \/ stored.cursor > 0 /\ stored.hash # VerifiedHash(c)

Verify(c) ==
  /\ job[c].pc = "verify"
  /\ job' = [job EXCEPT ![c] =
       IF VerifyFails(c) THEN [@ EXCEPT !.pc = "done"]
       ELSE [@ EXCEPT !.pc = "read", !.replace = RescanReason(c),
                      !.cursor = IF RescanReason(c) THEN 0 ELSE job[c].row.cursor]]
  /\ noticed' = IF VerifyFails(c) THEN 0 ELSE noticed
  /\ UNCHANGED <<disk, inode, row, importing, seen,
                 writes, faults, aborted, versions>>

\* A stamp taken at the end of the import.
SeenAfterNow(c, next) == IF Codex /\ next = "done" THEN Stamp ELSE seen

\* The stamp the import started from marks a rollout as current.
SeenAfter(c, next) ==
  IF Codex /\ next = "done" THEN job[c].stamp ELSE seen

\* read_complete_line_batch on the open file.
ReadBatch(c) ==
  LET lines == Handle(c).lines
      last == IF job[c].cursor + BatchLimit < Len(lines)
              THEN job[c].cursor + BatchLimit ELSE Len(lines)
      batch == SubSeq(lines, job[c].cursor + 1, last)
      next == IF batch = <<>> THEN "done" ELSE "commit"
  IN  /\ job[c].pc = "read"
      /\ job' = [job EXCEPT ![c] = [@ EXCEPT
           !.pc = next, !.batch = batch,
           !.trailing = Len(batch) < BatchLimit /\ Handle(c).partial]]
      /\ seen' = SeenAfter(c, next)
      /\ UNCHANGED <<disk, inode, row, importing,
                     writes, faults, aborted, versions, noticed>>

\* Records and cursor after a batch, in one transaction.  A line_seq that
\* exists already is kept (INSERT OR IGNORE).
Imported(stored, c) ==
  LET cursor == job[c].cursor + Len(job[c].batch)
      held == IF Len(stored.recs) > job[c].cursor
              THEN Len(stored.recs) - job[c].cursor ELSE 0
  IN  [stored EXCEPT !.cursor = cursor, !.hash = job[c].batch[Len(job[c].batch)],
                     !.recs = @ \o SubSeq(job[c].batch, held + 1, Len(job[c].batch))]

\* A rescan that writes into the generation it found.
CommitBatchInPlace(c) ==
  LET next == IF job[c].trailing THEN "done" ELSE "read" IN
  /\ job[c].pc = "commit"
  /\ row' = Imported([row EXCEPT !.inode = job[c].inode], c)
  /\ job' = [job EXCEPT ![c] = [@ EXCEPT
       !.pc = next, !.replace = FALSE,
       !.cursor = job[c].cursor + Len(job[c].batch), !.batch = <<>>]]
  /\ seen' = SeenAfter(c, next)
  /\ UNCHANGED <<disk, inode, importing, writes, faults, aborted, versions, noticed>>

\* replace_generation_and_import_batch, or import_batch; a trailing partial
\* line ends the loop.
CommitBatch(c) ==
  LET next == IF job[c].trailing THEN "done" ELSE "read" IN
  /\ job[c].pc = "commit"
  /\ row' = IF job[c].replace
            THEN Imported([NoRow EXCEPT !.gen = row.gen + 1,
                                        !.inode = job[c].inode], c)
            ELSE Imported(row, c)
  /\ job' = [job EXCEPT ![c] = [@ EXCEPT
       !.pc = next, !.replace = FALSE,
       !.cursor = job[c].cursor + Len(job[c].batch), !.batch = <<>>]]
  /\ seen' = SeenAfter(c, next)
  /\ UNCHANGED <<disk, inode, importing, writes, faults, aborted, versions, noticed>>

\* An I/O or database error leaves the import at any of its steps.
ImportFails(c) ==
  /\ job[c].pc \in {"open", "verify", "read", "commit"}
  /\ faults < MaxFaults
  /\ faults' = faults + 1
  /\ job' = [job EXCEPT ![c] = [@ EXCEPT !.pc = "done"]]
  /\ noticed' = 0
  /\ UNCHANGED <<disk, inode, row, importing, seen, writes, aborted, versions>>

\* An end of a pass that forgets the request that came in meanwhile.
FinishForgetting(c) ==
  /\ job[c].pc = "done"
  /\ job' = [job EXCEPT ![c] = NoImport]
  /\ importing' = NoEntry
  /\ UNCHANGED <<disk, inode, row, seen, writes, faults, aborted, versions, noticed>>

\* The end of one pass: start over for a request that came in meanwhile.
FinishOrRepeat(c) ==
  /\ job[c].pc = "done"
  /\ IF importing.pending
     THEN /\ job' = [job EXCEPT ![c] = [NoImport EXCEPT !.pc = "open",
                                                        !.force = importing.force]]
          /\ importing' = [NoEntry EXCEPT !.active = TRUE]
     ELSE /\ job' = [job EXCEPT ![c] = NoImport]
          /\ importing' = NoEntry
  /\ UNCHANGED <<disk, inode, row, seen, writes, faults, aborted, versions, noticed>>

\* The future of an import is dropped: reconcile_directories aborts a stale
\* watcher's task, a client closes the connection of its assign request.
Abandon(c) ==
  /\ c \in {"watcher", "request"}
  /\ job[c].pc # "idle"
  /\ faults < MaxFaults
  /\ faults' = faults + 1
  /\ aborted' = TRUE
  /\ job' = [job EXCEPT ![c] = NoImport]
  /\ UNCHANGED <<disk, inode, row, importing, seen, writes, versions, noticed>>

Crash ==
  /\ faults < MaxFaults
  /\ faults' = faults + 1
  /\ job' = [c \in Callers |-> NoImport]
  /\ importing' = NoEntry
  /\ seen' = NoStamp
  /\ noticed' = 0
  /\ aborted' = FALSE
  /\ UNCHANGED <<disk, inode, row, writes, versions>>

-----------------------------------------------------------------------------
ImportStep(c) ==
  \/ OpenAndRegister(c)
  \/ Verify(c)
  \/ ReadBatch(c)
  \/ CommitBatch(c)
  \/ FinishOrRepeat(c)

ImportNext ==
  \/ AppendLine
  \/ AppendPartial
  \/ \E keep \in 0..Len(Lines), more \in 0..2 : RewriteInPlace(keep, more)
  \/ \E keep \in 0..Len(Lines) : ReplaceFile(keep)
  \/ RegistryScan
  \/ WatcherEvent
  \/ WatcherError
  \/ AssignManual
  \/ \E c \in Callers : ImportStep(c) \/ ImportFails(c) \/ Abandon(c)
  \/ Crash

\* The registry pass repeats for ever and a started import is scheduled; no
\* watcher event and no request is counted on.
ImportFairness ==
  /\ WF_importVars(RegistryScan)
  /\ \A c \in Callers : WF_importVars(ImportStep(c))

ImportSpec == ImportInit /\ [][ImportNext]_importVars /\ ImportFairness

-----------------------------------------------------------------------------
\* Whatever is appended, rewritten or replaced while imports, failures and
\* restarts go on, the stored generation is the beginning of a content that
\* the file has had: no line is missing, repeated or mixed with those of
\* another content.  The cursor and the hash are those of its last record, so
\* the next import goes on exactly there.
RecordsAreFaithful ==
  /\ \E v \in versions : \E n \in 0..Len(v) : row.recs = SubSeq(v, 1, n)
  /\ row.cursor = Len(row.recs)
  /\ row.cursor > 0 => row.hash = row.recs[Len(row.recs)]

\* A request that is coalesced into a running import is not lost: when the
\* path is free again and the last request came after the last write, every
\* complete line is stored, unless an import failed.
NoticedIsImported ==
  (~importing.active /\ noticed = writes /\ Lines # <<>>) => row.recs = Lines

\* The database has the file's complete lines (an emptied file keeps its last
\* generation), unless an import whose future was dropped keeps the path
\* claimed.
LedgerHasFile == Lines = <<>> \/ row.recs = Lines \/ aborted
=============================================================================
