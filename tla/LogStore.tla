------------------------------ MODULE LogStore ------------------------------
(***************************************************************************)
(* The message store of one execution and the tasks around it: the         *)
(* forwarder that pushes what the process prints, the normalizer that      *)
(* derives native UUIDs from it, the two persistence tasks, viewers, and   *)
(* the exit monitor that removes the store.                                *)
(*                                                                         *)
(* Messages are numbered in the order they are pushed.  The store keeps    *)
(* the last of them as history and broadcasts each; a reader gets a copy   *)
(* of the history and then what is broadcast, and loses what it does not   *)
(* read before the ring of the broadcast wraps.                            *)
(***************************************************************************)
EXTENDS Integers, Sequences, FiniteSets

CONSTANTS
  MaxOut,     \* chunks the process prints
  HistoryMax, \* messages in the history (HISTORY_BYTES)
  Ring,   \* messages in the ring (BROADCAST_CAPACITY)
  Attempts,   \* NATIVE_LINK_INSERT_ATTEMPTS
  Viewers,    \* does someone view the log?
  MaxFaults   \* the log file or the database fails so often

ASSUME StoreSizes == HistoryMax \in Nat /\ Ring \in Nat

VARIABLES
  starter,    \* where start_execution is
  process,    \* "none", "running" or "exited"
  logPipe,    \* chunks written and not yet forwarded, and chunks written in all
  forwarder,  \* "none", "on" or "ended"
  pushed,     \* the kinds of all messages pushed so far
  registered, \* is the store in the map?
  copying,    \* the readers that hold the read lock of the store
  logReader,  \* the readers of the store
  todo,       \* UUIDs that the normalizer has derived and not yet pushed
  file,       \* the messages in the log file
  link,       \* the UUIDs in the database, the ones given up, and the attempts for the current one
  monitor,    \* where the exit monitor is
  faults      \* faults so far

logVars == <<starter, process, logPipe, forwarder, pushed, registered, copying, logReader, todo,
             file, link, monitor, faults>>

Readers == {"normalizer", "output", "metadata", "viewer"}
NoReader == [st |-> "off", hist |-> 1, end |-> 0, live |-> 1, first |-> 1, last |-> 0,
             lagged |-> FALSE, torn |-> FALSE]
Top == Len(pushed)

\* The history is the last HistoryMax messages.
Oldest == IF Top > HistoryMax THEN Top - HistoryMax + 1 ELSE 1

LogInit ==
  /\ starter = "insert" /\ process = "none" /\ logPipe = [here |-> 0, all |-> 0]
  /\ forwarder = "none" /\ pushed = << >> /\ registered = FALSE /\ copying = {}
  /\ logReader = [r \in Readers |-> NoReader]
  /\ todo = 0 /\ file = {} /\ link = [done |-> {}, lost |-> {}, tries |-> 0]
  /\ monitor = "none" /\ faults = 0

-----------------------------------------------------------------------------
(* MsgStore *)

\* push: into the history and to the broadcast, under the write lock.
PushUnlocked(k) == pushed' = Append(pushed, k)
Push(k) == copying = {} /\ pushed' = Append(pushed, k)

HoldsStore(r) == logReader[r].st = "copy" \/ (r = "normalizer" /\ logReader[r].st = "on")
Closed ==
  /\ ~registered /\ forwarder # "on" /\ monitor # "finish" /\ starter \notin {"insert", "spawn", "normalize"}
  /\ \A r \in Readers : ~HoldsStore(r)

\* history_plus_stream: subscribes and copies the history under the read lock.
Subscribes(r) ==
  /\ logReader' = [logReader EXCEPT ![r].st = "copy", ![r].live = Top + 1]
  /\ copying' = copying \cup {r}

CopyHistory(r) ==
  /\ logReader[r].st = "copy"
  /\ logReader' = [logReader EXCEPT ![r].st = "on", ![r].hist = Oldest, ![r].end = Top,
                              ![r].first = Oldest, ![r].last = Oldest - 1]
  /\ copying' = copying \ {r}
  /\ UNCHANGED <<starter, process, logPipe, forwarder, pushed, registered, todo, file, link, monitor, faults>>

\* The ring has lost what reader r awaits.
Lags(r) == logReader[r].live + Ring <= Top

\* The next message for reader r, or none.
Awaits(r) ==
  IF logReader[r].hist <= logReader[r].end THEN logReader[r].hist
  ELSE IF logReader[r].live <= Top /\ ~Lags(r) THEN logReader[r].live
  ELSE 0

\* Reader r has had message n.
Had(r, n) ==
  [logReader[r] EXCEPT
     !.hist = IF @ <= logReader[r].end THEN @ + 1 ELSE @,
     !.live = IF logReader[r].hist <= logReader[r].end THEN @ ELSE @ + 1,
     !.last = n,
     !.torn = @ \/ n <= logReader[r].last \/ (n > logReader[r].last + 1 /\ ~logReader[r].lagged)]

\* A reader that has lagged is set to the oldest message of the ring.
Skip(r) ==
  /\ logReader[r].st = "on" /\ logReader[r].hist > logReader[r].end /\ Lags(r)
  /\ logReader' = [logReader EXCEPT ![r].live = Top - Ring + 1, ![r].lagged = TRUE]
  /\ UNCHANGED <<starter, process, logPipe, forwarder, pushed, registered, copying, todo, file, link, monitor, faults>>

\* All read, and nobody is left to push.
AtEnd(r) == logReader[r].hist > logReader[r].end /\ logReader[r].live > Top /\ Closed

Ended(r) == [logReader EXCEPT ![r].st = "ended"]

-----------------------------------------------------------------------------
(* start_execution, the process and its forwarder *)

Insert ==
  /\ starter = "insert"
  /\ starter' = "spawn" /\ registered' = TRUE
  /\ UNCHANGED <<process, logPipe, forwarder, pushed, copying, logReader, todo, file, link, monitor, faults>>

\* start_execution_inner: the child, its forwarder and its monitor.
Spawn ==
  /\ starter = "spawn"
  /\ starter' = "normalize" /\ process' = "running" /\ forwarder' = "on" /\ monitor' = "wait"
  /\ UNCHANGED <<logPipe, pushed, registered, copying, logReader, todo, file, link, faults>>

\* The normalizer subscribes, if the store is still there.
Normalize ==
  /\ starter = "normalize"
  /\ IF registered
     THEN starter' = "persist" /\ Subscribes("normalizer")
     ELSE starter' = "error" /\ UNCHANGED <<logReader, copying>>
  /\ UNCHANGED <<process, logPipe, forwarder, pushed, registered, todo, file, link, monitor, faults>>

\* spawn_stream_raw_logs_to_storage: opens the file and looks the store up.
Persist ==
  /\ starter = "persist"
  /\ starter' = "done"
  /\ \/ /\ registered
        /\ logReader' = [logReader EXCEPT !["output"].st = "copy", !["output"].live = Top + 1,
                                    !["metadata"].st = "copy", !["metadata"].live = Top + 1]
        /\ copying' = copying \cup {"output", "metadata"}
        /\ UNCHANGED faults
     \/ ~registered /\ UNCHANGED <<logReader, copying, faults>>
     \/ faults < MaxFaults /\ faults' = faults + 1 /\ UNCHANGED <<logReader, copying>>
  /\ UNCHANGED <<process, logPipe, forwarder, pushed, registered, todo, file, link, monitor>>

Writes ==
  /\ process = "running" /\ logPipe.all < MaxOut
  /\ logPipe' = [here |-> logPipe.here + 1, all |-> logPipe.all + 1]
  /\ UNCHANGED <<starter, process, forwarder, pushed, registered, copying, logReader, todo, file, link, monitor, faults>>

Exits ==
  /\ process = "running" /\ process' = "exited"
  /\ UNCHANGED <<starter, logPipe, forwarder, pushed, registered, copying, logReader, todo, file, link, monitor, faults>>

\* spawn_forwarder: until the pipe is closed and empty.
Forward ==
  /\ forwarder = "on"
  /\ \/ logPipe.here > 0 /\ Push("out") /\ logPipe' = [logPipe EXCEPT !.here = @ - 1] /\ UNCHANGED forwarder
     \/ logPipe.here = 0 /\ process = "exited" /\ forwarder' = "ended" /\ UNCHANGED <<pushed, logPipe>>
  /\ UNCHANGED <<starter, process, registered, copying, logReader, todo, file, link, monitor, faults>>

-----------------------------------------------------------------------------
(* Readers *)

\* The normalizer reads up to Finished and pushes a UUID for each chunk.
NormalizerReads ==
  LET n == Awaits("normalizer") IN
  /\ logReader["normalizer"].st = "on" /\ n # 0 /\ todo = 0
  /\ pushed[n] # "fin"
  /\ logReader' = [logReader EXCEPT !["normalizer"] = Had("normalizer", n)]
  /\ todo' = IF pushed[n] = "out" THEN 1 ELSE 0
  /\ UNCHANGED <<starter, process, logPipe, forwarder, pushed, registered, copying, file, link, monitor, faults>>

NormalizerPushes ==
  /\ todo > 0 /\ Push("uuid") /\ todo' = todo - 1
  /\ UNCHANGED <<starter, process, logPipe, forwarder, registered, copying, logReader, file, link, monitor, faults>>

NormalizerEnds ==
  LET n == Awaits("normalizer") IN
  /\ logReader["normalizer"].st = "on" /\ n # 0 /\ todo = 0 /\ pushed[n] = "fin"
  /\ logReader' = Ended("normalizer")
  /\ UNCHANGED <<starter, process, logPipe, forwarder, pushed, registered, copying, todo, file, link, monitor, faults>>

\* persist_output: writes what was printed, up to Finished; a line that cannot
\* be written is skipped.
OutputReads ==
  LET n == Awaits("output") IN
  /\ logReader["output"].st = "on"
  /\ \/ /\ n # 0 /\ pushed[n] # "fin"
        /\ logReader' = [logReader EXCEPT !["output"] = Had("output", n)]
        /\ \/ file' = (IF pushed[n] = "out" THEN file \cup {n} ELSE file) /\ UNCHANGED faults
           \/ pushed[n] = "out" /\ faults < MaxFaults /\ faults' = faults + 1 /\ UNCHANGED file
     \/ (IF n = 0 THEN AtEnd("output") ELSE pushed[n] = "fin") /\ logReader' = Ended("output") /\ UNCHANGED <<file, faults>>
  /\ UNCHANGED <<starter, process, logPipe, forwarder, pushed, registered, copying, todo, link, monitor>>

\* It reads until nobody is left to push.
MetadataEnds(n) == n = 0 /\ AtEnd("metadata")

TriesAgain(k) == k < Attempts

\* Tries a UUID so often, then gives it up.
MetadataReads ==
  LET n == Awaits("metadata") IN
  /\ logReader["metadata"].st = "on"
  /\ \/ /\ n # 0 /\ ~MetadataEnds(n) /\ pushed[n] # "uuid"
        /\ logReader' = [logReader EXCEPT !["metadata"] = Had("metadata", n)]
        /\ UNCHANGED <<link, faults>>
     \/ /\ n # 0 /\ pushed[n] = "uuid"
        /\ logReader' = [logReader EXCEPT !["metadata"] = Had("metadata", n)]
        /\ link' = [link EXCEPT !.done = @ \cup {n}, !.tries = 0]
        /\ UNCHANGED faults
     \/ /\ n # 0 /\ pushed[n] = "uuid" /\ faults < MaxFaults
        /\ faults' = faults + 1
        /\ IF TriesAgain(link.tries + 1)
           THEN link' = [link EXCEPT !.tries = @ + 1] /\ UNCHANGED logReader
           ELSE /\ link' = [link EXCEPT !.lost = @ \cup {n}, !.tries = 0]
                /\ logReader' = [logReader EXCEPT !["metadata"] = Had("metadata", n)]
     \/ MetadataEnds(n) /\ logReader' = Ended("metadata") /\ UNCHANGED <<link, faults>>
  /\ UNCHANGED <<starter, process, logPipe, forwarder, pushed, registered, copying, todo, file, monitor>>

\* A viewer reads the store while it is there (and else the log file).
ViewerOpens ==
  /\ Viewers /\ registered /\ logReader["viewer"].st = "off"
  /\ Subscribes("viewer")
  /\ UNCHANGED <<starter, process, logPipe, forwarder, pushed, registered, todo, file, link, monitor, faults>>

ViewerReads ==
  LET n == Awaits("viewer") IN
  /\ logReader["viewer"].st = "on"
  /\ \/ n # 0 /\ pushed[n] # "fin" /\ logReader' = [logReader EXCEPT !["viewer"] = Had("viewer", n)]
     \/ (IF n = 0 THEN AtEnd("viewer") ELSE pushed[n] = "fin") /\ logReader' = Ended("viewer")
  /\ UNCHANGED <<starter, process, logPipe, forwarder, pushed, registered, copying, todo, file, link, monitor, faults>>

-----------------------------------------------------------------------------
(* The exit monitor: no handle of the persistence task is ever stored, so it *)
(* has none to wait for.                                                     *)

SeesExit ==
  /\ monitor = "wait" /\ process = "exited"
  /\ monitor' = "remove"
  /\ UNCHANGED <<starter, process, logPipe, forwarder, pushed, registered, copying, logReader, todo, file, link, faults>>

RemoveStore ==
  /\ monitor = "remove"
  /\ monitor' = "finish" /\ registered' = FALSE
  /\ UNCHANGED <<starter, process, logPipe, forwarder, pushed, copying, logReader, todo, file, link, faults>>

PushFinished ==
  /\ monitor = "finish"
  /\ monitor' = "done" /\ Push("fin")
  /\ UNCHANGED <<starter, process, logPipe, forwarder, registered, copying, logReader, todo, file, link, faults>>

-----------------------------------------------------------------------------
LogNext ==
  \/ Insert \/ Spawn \/ Normalize \/ Persist
  \/ Writes \/ Exits \/ Forward
  \/ \E r \in Readers : CopyHistory(r) \/ Skip(r)
  \/ NormalizerReads \/ NormalizerPushes \/ NormalizerEnds
  \/ OutputReads \/ MetadataReads \/ ViewerOpens \/ ViewerReads
  \/ SeesExit \/ RemoveStore \/ PushFinished

LogSpec == LogInit /\ [][LogNext]_logVars

Starts == Insert \/ Spawn \/ Normalize \/ Persist
Follows(r) == CopyHistory(r) \/ Skip(r)
Normalizer == NormalizerReads \/ NormalizerPushes \/ NormalizerEnds
Monitor == SeesExit \/ RemoveStore \/ PushFinished

-----------------------------------------------------------------------------
(* Properties *)

\* A reader that does not lag gets every message once and in order, from the
\* history and then from the broadcast (history_plus_stream).
NoGap == \A r \in Readers : ~logReader[r].torn

\* When the metadata task has ended, every UUID that was pushed after it
\* subscribed is in the database or was tried to the last attempt, also those
\* that came after Finished (persist_execution_metadata).
UuidsDrained ==
  LET m == logReader["metadata"] IN
  m.st = "ended" /\ ~m.lagged =>
    \A n \in m.first..Top : pushed[n] = "uuid" => n \in link.done \cup link.lost

\* A reader that does not lag gets every message once and in order
\* (history_plus_stream), and every UUID is stored or tried to the last
\* attempt, also those that came after Finished (persist_execution_metadata).
ReadersGetAll == NoGap /\ UuidsDrained

\* No task reads the store any more.
ReadersEnded == \A r \in Readers : logReader[r].st \in {"off", "ended"}
=============================================================================
