----------------------- MODULE TranscriptImportProofs -----------------------
(***************************************************************************)
(* The import of a transcript, for any number of writes, failures and      *)
(* restarts and any batch size.  A line says which content of the file it  *)
(* belongs to, so the one hash that an import compares vouches for all     *)
(* lines before it; and as one import of a path runs at a time, the row it *)
(* has read is the row it writes.                                          *)
(***************************************************************************)
EXTENDS TranscriptImport, SequenceTheorems, TLAPS

File == [lines : Seq(Nat), partial : BOOLEAN]
LedgerRow == [gen : Nat, inode : Nat, cursor : Nat, hash : Nat, recs : Seq(Nat)]
ImportJob ==
  [pc : {"idle", "open", "verify", "read", "commit", "done"}, force : BOOLEAN,
   inode : Nat, size : Nat, stamp : Nat \X Nat \X BOOLEAN, row : LedgerRow,
   replace : BOOLEAN, cursor : Nat, batch : Seq(Nat), trailing : BOOLEAN]

ImportTypes ==
  /\ disk \in Seq(File) /\ inode \in 1..Len(disk)
  /\ row \in LedgerRow
  /\ importing \in [active : BOOLEAN, pending : BOOLEAN, force : BOOLEAN]
  /\ job \in [Callers -> ImportJob]
  /\ writes \in Nat /\ noticed \in 0..writes

\* s is the beginning of t.
Begins(s, t) == Len(s) <= Len(t) /\ \A k \in 1..Len(s) : s[k] = t[k]

\* A line says which content it belongs to: two contents with the same line at
\* a place have the same lines before it.
Contents ==
  /\ versions \subseteq Seq(Nat)
  /\ \A i \in 1..Len(disk) : disk[i].lines \in versions
  /\ \A v \in versions : \A k \in 1..Len(v) : v[k] <= 3 * writes
  /\ \A v, w \in versions : \A k \in 1..Len(v) :
       k <= Len(w) /\ v[k] = w[k] => \A m \in 1..k : v[m] = w[m]
  /\ writes = 0 => Lines = <<>>

\* The row of the file.
Stored ==
  /\ \E v \in versions : Begins(row.recs, v)
  /\ row.cursor = Len(row.recs)
  /\ row.cursor > 0 => row.hash = row.recs[row.cursor]

\* One import of the path runs at a time.
OneImport ==
  /\ \A c \in Callers : job[c].pc # "idle" => importing.active
  /\ \A c, d \in Callers : job[c].pc # "idle" /\ job[d].pc # "idle" => c = d
  /\ importing.pending => importing.active

\* Where an import goes on, and what it is about to store.
Progress(c) ==
  /\ job[c].pc \in {"verify", "read", "commit"} => job[c].inode \in 1..Len(disk)
  /\ job[c].pc = "verify" => job[c].row = row /\ job[c].size <= Len(Handle(c).lines)
  /\ job[c].pc \in {"read", "commit"} =>
       IF job[c].replace THEN job[c].cursor = 0
       ELSE job[c].cursor = row.cursor /\ Begins(row.recs, Handle(c).lines)
  /\ job[c].pc = "commit" =>
       /\ Len(job[c].batch) > 0
       /\ job[c].cursor + Len(job[c].batch) <= Len(Handle(c).lines)
       /\ \A k \in 1..Len(job[c].batch) :
            job[c].batch[k] = Handle(c).lines[job[c].cursor + k]

\* The import that the last request started, or was answered by, sees the
\* file as the request saw it.
Answers(c) ==
  /\ job[c].pc \in {"verify", "read", "commit"} => job[c].inode = inode
  /\ job[c].pc = "commit" /\ job[c].trailing =>
       job[c].cursor + Len(job[c].batch) = Len(Lines)
  /\ job[c].pc = "done" => row.recs = Lines

Noticed ==
  noticed = writes /\ Lines # <<>> /\ ~importing.pending =>
    /\ ~importing.active => row.recs = Lines
    /\ \A c \in Callers : Answers(c)

ImportInv ==
  /\ ImportTypes /\ Contents /\ Stored /\ OneImport
  /\ \A c \in Callers : Progress(c)
  /\ Noticed

\* The setting of the theorems: batches are not empty, and no in-place rewrite
\* hits a running import.
ImportSetting == BatchLimit \in Nat \ {0} /\ RewriteDuringImport = FALSE

-----------------------------------------------------------------------------
\* A beginning of the same length is the whole.
LEMMA BeginsAll ==
  ASSUME NEW s \in Seq(Nat), NEW t \in Seq(Nat), Begins(s, t), Len(t) <= Len(s)
  PROVE  s = t
<1>1. Len(s) \in Nat /\ Len(t) \in Nat
  BY LenProperties
<1>2. Len(s) = Len(t) /\ \A k \in 1..Len(s) : s[k] = t[k]
  BY <1>1 DEF Begins
<1>3. QED
  BY <1>2, SeqEqual

LEMMA BeginsTransitive ==
  ASSUME NEW s \in Seq(Nat), NEW t \in Seq(Nat), NEW u \in Seq(Nat), Begins(s, t), Begins(t, u)
  PROVE  Begins(s, u)
<1>1. Len(s) \in Nat /\ Len(t) \in Nat /\ Len(u) \in Nat
  BY LenProperties
<1>2. QED
  BY <1>1 DEF Begins

\* A number of lines is a place among them.
LEMMA LastPlace == \A n \in Nat : n > 0 => n \in 1..n
  OBVIOUS

LEMMA NewLines ==
  \A w \in Nat, m \in 0..2 : \A k \in 1..m : 3 * w + k \in 3 * w + 1..3 * w + 2
  OBVIOUS

LEMMA MoreLines == \A a, n \in Nat : n > 0 => a + n > 0 /\ a + n \in Nat
  OBVIOUS

\* The lines after the first a and up to the b-th.
LEMMA Piece ==
  ASSUME NEW s \in Seq(Nat), NEW a \in Nat, NEW b \in Nat, a <= b, b <= Len(s)
  PROVE  /\ SubSeq(s, a + 1, b) \in Seq(Nat)
         /\ Len(SubSeq(s, a + 1, b)) = b - a
         /\ \A k \in 1..Len(SubSeq(s, a + 1, b)) : SubSeq(s, a + 1, b)[k] = s[a + k]
<1> DEFINE t == SubSeq(s, a + 1, b)
<1>1. Len(s) \in Nat /\ \A i \in a + 1..b : s[i] \in Nat
  BY LenProperties, ElementOfSeq
<1>2. /\ t \in Seq(Nat)
      /\ Len(t) = IF a + 1 <= b THEN b - (a + 1) + 1 ELSE 0
      /\ \A i \in 1..b - (a + 1) + 1 : t[i] = s[a + 1 + i - 1]
  BY <1>1, SubSeqProperties
<1> HIDE DEF t
<1>3. Len(t) = b - a
  BY <1>2
<1>4. ASSUME NEW k \in 1..Len(t)
      PROVE  t[k] = s[a + k]
  <2>1. k \in 1..b - (a + 1) + 1 /\ a + 1 + k - 1 = a + k
    BY <1>3, <1>4
  <2>2. t[k] = s[a + 1 + k - 1]
    BY <1>2, <2>1, Zenon
  <2>3. QED
    BY <2>1, <2>2, Zenon
<1>5. QED
  BY <1>2, <1>3, <1>4, Zenon DEF t

\* A batch of at most b lines after line a, as ReadBatch takes it.
Batch(s, a, b) == SubSeq(s, a + 1, IF a + b < Len(s) THEN a + b ELSE Len(s))

LEMMA BatchRead ==
  ASSUME NEW s \in Seq(Nat), NEW a \in Nat, NEW b \in Nat, b > 0, a <= Len(s)
  PROVE  /\ Batch(s, a, b) \in Seq(Nat)
         /\ \A k \in 1..Len(Batch(s, a, b)) : Batch(s, a, b)[k] = s[a + k]
         /\ Batch(s, a, b) = <<>> => a = Len(s)
         /\ Batch(s, a, b) # <<>> => Len(Batch(s, a, b)) > 0
         /\ a + Len(Batch(s, a, b)) <= Len(s)
         /\ Len(Batch(s, a, b)) < b => a + Len(Batch(s, a, b)) = Len(s)
<1> DEFINE last == IF a + b < Len(s) THEN a + b ELSE Len(s)
           t == SubSeq(s, a + 1, last)
<1>1. Len(s) \in Nat
  BY LenProperties
<1>2. /\ last \in Nat /\ a <= last /\ last <= Len(s)
      /\ a < Len(s) => a < last
      /\ last < Len(s) => last = a + b
  BY <1>1
<1> HIDE DEF last
<1>3. t \in Seq(Nat) /\ Len(t) = last - a /\ \A k \in 1..Len(t) : t[k] = s[a + k]
  BY <1>2, Piece
<1>4. t = <<>> <=> Len(t) = 0
  BY <1>3, EmptySeq
<1> HIDE DEF t
<1>5. /\ t = <<>> => a = Len(s)
      /\ t # <<>> => Len(t) > 0
      /\ a + Len(t) <= Len(s)
      /\ Len(t) < b => a + Len(t) = Len(s)
  BY <1>1, <1>2, <1>3, <1>4
<1>6. QED
  BY <1>3, <1>5 DEF t, last, Batch

LEMMA WholePiece ==
  ASSUME NEW s \in Seq(Nat)
  PROVE  SubSeq(s, 1, Len(s)) = s
<1> DEFINE t == SubSeq(s, 0 + 1, Len(s))
<1>1. Len(s) \in Nat
  BY LenProperties
<1>2. t \in Seq(Nat) /\ Len(t) = Len(s) - 0 /\ \A k \in 1..Len(t) : t[k] = s[0 + k]
  BY <1>1, Piece
<1>3. t = SubSeq(s, 1, Len(s))
  OBVIOUS
<1> HIDE DEF t
<1>4. Len(t) = Len(s) /\ \A k \in 1..Len(t) : t[k] = s[k]
  BY <1>1, <1>2
<1>5. QED
  BY <1>2, <1>3, <1>4, SeqEqual

\* A beginning and the lines that follow it are a longer beginning.
LEMMA BeginsFurther ==
  ASSUME NEW s \in Seq(Nat), NEW t \in Seq(Nat), NEW u \in Seq(Nat), Begins(s, u),
         Len(s) + Len(t) <= Len(u), \A k \in 1..Len(t) : t[k] = u[Len(s) + k]
  PROVE  /\ s \o t \in Seq(Nat) /\ Len(s \o t) = Len(s) + Len(t)
         /\ Begins(s \o t, u)
<1> DEFINE st == s \o t
<1>1. Len(s) \in Nat /\ Len(t) \in Nat /\ Len(u) \in Nat
  BY LenProperties
<1>2. /\ st \in Seq(Nat) /\ Len(st) = Len(s) + Len(t)
      /\ \A k \in 1..Len(s) + Len(t) : st[k] = IF k <= Len(s) THEN s[k] ELSE t[k - Len(s)]
  BY ConcatProperties
<1> HIDE DEF st
<1>3. ASSUME NEW k \in 1..Len(st)
      PROVE  st[k] = u[k]
  <2>1. CASE k <= Len(s)
    <3>1. k \in 1..Len(s) /\ k \in 1..Len(s) + Len(t)
      BY <1>1, <1>2, <1>3, <2>1
    <3>2. QED
      BY <1>2, <2>1, <3>1, Zenon DEF Begins
  <2>2. CASE ~(k <= Len(s))
    <3>1. k - Len(s) \in 1..Len(t) /\ Len(s) + (k - Len(s)) = k
      BY <1>1, <1>2, <1>3, <2>2
    <3>2. st[k] = t[k - Len(s)] /\ t[k - Len(s)] = u[Len(s) + (k - Len(s))]
      BY <1>2, <1>3, <2>2, <3>1
    <3>3. QED
      BY <3>1, <3>2, Zenon
  <2>3. QED
    BY <2>1, <2>2
<1>4. QED
  BY <1>2, <1>3 DEF Begins, st

\* The empty row.
LEMMA NoRowStored ==
  NoRow \in LedgerRow /\ NoRow.recs = <<>> /\ NoRow.cursor = 0 /\ NoRow.gen = 0
BY EmptySeq DEF NoRow, LedgerRow

LEMMA NoImportTypes ==
  NoImport \in ImportJob /\ NoImport.pc = "idle" /\ NoImport.force = FALSE
BY NoRowStored, EmptySeq, Zenon DEF NoImport, NoStamp, ImportJob

\* What the path names is a content of the file.
LEMMA LinesAreContent ==
  ASSUME ImportTypes, Contents
  PROVE  Lines \in versions /\ Lines \in Seq(Nat) /\ Len(Lines) \in Nat
<1>1. Lines \in versions /\ Lines \in Seq(Nat)
  BY DEF ImportTypes, Contents, Lines
<1>2. QED
  BY <1>1, LenProperties

LEMMA HandleIsContent ==
  ASSUME ImportTypes, Contents, NEW c \in Callers, job[c].inode \in 1..Len(disk)
  PROVE  /\ Handle(c).lines \in versions /\ Handle(c).lines \in Seq(Nat)
         /\ Len(Handle(c).lines) \in Nat /\ Handle(c) \in File
<1>1. Handle(c).lines \in versions /\ Handle(c).lines \in Seq(Nat)
  BY DEF Contents, Handle
<1>2. Handle(c) \in File
  BY ElementOfSeq DEF ImportTypes, Handle
<1>3. QED
  BY <1>1, <1>2, LenProperties

-----------------------------------------------------------------------------
(* The agent writes. *)

\* The file of inode i gets a content, and all others keep theirs.
LEMMA DiskWritten ==
  ASSUME ImportTypes, NEW content \in File, NEW i \in {inode, Len(disk) + 1}, Written(content, i)
  PROVE  /\ disk' \in Seq(File) /\ Len(disk') \in Nat /\ Len(disk) \in Nat /\ Len(disk) <= Len(disk')
         /\ i \in 1..Len(disk') /\ inode' = i
         /\ \A k \in 1..Len(disk') : k # i => k \in 1..Len(disk) /\ disk'[k] = disk[k]
         /\ disk'[i] = content
<1> DEFINE n == IF i = inode THEN Len(disk) ELSE Len(disk) + 1
           d == [k \in 1..n |-> IF k = i THEN content ELSE disk[k]]
<1>1. Len(disk) \in Nat /\ DOMAIN disk = 1..Len(disk) /\ inode \in 1..Len(disk)
      /\ \A k \in 1..Len(disk) : disk[k] \in File
  BY LenProperties, ElementOfSeq DEF ImportTypes
<1>2. n \in Nat /\ DOMAIN disk \union {i} = 1..n /\ i \in 1..n
  BY <1>1
<1>3. disk' = d /\ inode' = i
  BY <1>2 DEF Written
<1>4. \A k \in 1..n : k # i => k \in 1..Len(disk)
  BY <1>1
<1> HIDE DEF n
<1>5. d \in [1..n -> File]
  BY <1>1, <1>4
<1>6. d \in Seq(File) /\ Len(d) = n
  BY <1>2, <1>5
<1>7. QED
  BY <1>1, <1>2, <1>3, <1>4, <1>6 DEF n

\* A content that begins with lines of the file and goes on with new ones.
LEMMA ContentsGrow ==
  ASSUME ImportTypes, Contents, NEW content \in File, NEW i \in {inode, Len(disk) + 1},
         Written(content, i), NEW keep \in 0..Len(Lines), keep <= Len(content.lines),
         \A k \in 1..keep : content.lines[k] = Lines[k],
         \A k \in keep + 1..Len(content.lines) : content.lines[k] \in 3 * writes + 1..3 * writes + 2
  PROVE  Contents'
<1> DEFINE new == content.lines
<1>1. new \in Seq(Nat) /\ Len(new) \in Nat
  BY LenProperties DEF File
<1>2. /\ versions' = versions \union {new} /\ writes' = writes + 1 /\ writes \in Nat
      /\ Lines \in versions /\ Len(Lines) \in Nat
  BY LinesAreContent DEF Written, ImportTypes
<1>3. versions' \subseteq Seq(Nat)
  BY <1>1, <1>2 DEF Contents
<1>4. ASSUME NEW k \in 1..Len(disk')
      PROVE  disk'[k].lines \in versions'
  BY <1>2, DiskWritten, Zenon DEF Contents
<1>5. \A v \in versions : Len(v) \in Nat /\ \A k \in 1..Len(v) : v[k] \in Nat /\ v[k] <= 3 * writes
  BY LenProperties, ElementOfSeq DEF Contents
<1>6. \A k \in 1..Len(new) : new[k] \in Nat /\ new[k] <= 3 * writes + 2
      /\ (k > keep => new[k] > 3 * writes)
  <2>1. SUFFICES ASSUME NEW k \in 1..Len(new)
                 PROVE  new[k] \in Nat /\ new[k] <= 3 * writes + 2 /\ (k > keep => new[k] > 3 * writes)
    OBVIOUS
  <2>2. CASE k <= keep
    <3>1. k \in 1..keep /\ k \in 1..Len(Lines)
      BY <1>1, <1>2, <2>2
    <3>2. QED
      BY <1>2, <1>5, <2>2, <3>1
  <2>3. CASE k > keep
    <3>1. k \in keep + 1..Len(new)
      BY <1>1, <2>3
    <3>2. QED
      BY <1>2, <3>1
  <2>4. QED
    BY <2>2, <2>3
<1> HIDE DEF new
<1>7. ASSUME NEW v \in versions', NEW k \in 1..Len(v)
      PROVE  v[k] <= 3 * writes'
  BY <1>2, <1>5, <1>6, <1>7
<1>8. ASSUME NEW v \in versions, NEW k \in 1..Len(v), k <= Len(new), v[k] = new[k]
      PROVE  k <= keep /\ \A m \in 1..k : v[m] = new[m]
  <2>1. k \in 1..Len(new) /\ k <= keep
    BY <1>1, <1>2, <1>5, <1>6, <1>8
  <2>2. k \in 1..Len(Lines) /\ Lines[k] = v[k] /\ \A m \in 1..k : m \in 1..keep /\ Lines[m] = new[m]
    BY <1>2, <1>8, <2>1 DEF new
  <2>3. \A m \in 1..k : v[m] = Lines[m]
    BY <1>2, <1>8, <2>2 DEF Contents
  <2>4. QED
    BY <2>1, <2>2, <2>3
<1>9. ASSUME NEW v \in versions', NEW w \in versions', NEW k \in 1..Len(v), k <= Len(w), v[k] = w[k]
      PROVE  \A m \in 1..k : v[m] = w[m]
  <2>1. CASE v \in versions /\ w \in versions
    BY <1>9, <2>1, Zenon DEF Contents
  <2>2. CASE v \in versions /\ w = new
    BY <1>8, <1>9, <2>2
  <2>3. CASE v = new /\ w \in versions
    <3>1. k \in 1..Len(w)
      BY <1>5, <1>9, <2>3
    <3>2. k <= Len(new)
      BY <1>1, <2>3
    <3>3. QED
      BY <1>8, <1>9, <2>3, <3>1, <3>2
  <2>4. CASE v = new /\ w = new
    BY <2>4
  <2>5. QED
    BY <1>2, <2>1, <2>2, <2>3, <2>4
<1>10. writes' # 0
  BY <1>2
<1>11. QED
  BY <1>3, <1>4, <1>7, <1>9, <1>10, Zenon DEF Contents

\* The files that an import has open only grow.
LEMMA WriteKeeps ==
  ASSUME ImportInv, NEW content \in File, NEW i \in {inode, Len(disk) + 1},
         Written(content, i), Contents',
         i = inode => Begins(Lines, content.lines) \/ ~Running
  PROVE  ImportInv'
<1>1. /\ ImportTypes /\ Contents /\ Stored /\ OneImport /\ Noticed
      /\ \A c \in Callers : Progress(c)
  BY DEF ImportInv
<1>2. /\ versions \subseteq versions' /\ writes' = writes + 1
      /\ UNCHANGED <<row, importing, job, noticed>>
  BY DEF Written
<1>3. ImportTypes'
  BY <1>1, <1>2, DiskWritten DEF ImportTypes
<1>4. Stored' /\ OneImport'
  BY <1>1, <1>2, Zenon DEF Stored, OneImport
<1>5. ASSUME NEW c \in Callers
      PROVE  Progress(c)'
  <2>1. CASE job[c].pc \notin {"verify", "read", "commit"}
    BY <1>2, <2>1 DEF Progress
  <2>2. CASE job[c].pc \in {"verify", "read", "commit"}
    <3>1. Running /\ job[c].inode \in 1..Len(disk) /\ job'[c] = job[c] /\ row' = row
      BY <1>1, <1>2, <2>2 DEF Running, Progress
    <3>2. job'[c].inode \in 1..Len(disk')
      BY <1>1, <3>1, DiskWritten
    <3>3. Handle(c).lines \in Seq(Nat) /\ Handle(c)'.lines \in Seq(Nat)
      BY <1>1, <1>3, <3>1, <3>2, HandleIsContent DEF Handle, Contents
    <3>4. Begins(Handle(c).lines, Handle(c)'.lines)
      <4>1. CASE job[c].inode = i
        <5>1. i = inode /\ Handle(c)' = content /\ Handle(c).lines = Lines
          BY <1>1, <3>1, <4>1, DiskWritten DEF Handle, Lines
        <5>2. QED
          BY <3>1, <5>1
      <4>2. CASE job[c].inode # i
        <5>1. Handle(c)' = Handle(c)
          BY <1>1, <3>1, <3>2, <4>2, DiskWritten DEF Handle
        <5>2. QED
          BY <3>3, <5>1, LenProperties DEF Begins
      <4>3. QED
        BY <4>1, <4>2
    <3>5. row.recs \in Seq(Nat) /\ job[c] \in ImportJob
      BY <1>1 DEF ImportTypes, LedgerRow
    <3>6. /\ Len(Handle(c).lines) \in Nat /\ Len(Handle(c)'.lines) \in Nat
          /\ Len(Handle(c).lines) <= Len(Handle(c)'.lines)
          /\ \A k \in 1..Len(Handle(c).lines) : Handle(c)'.lines[k] = Handle(c).lines[k]
      BY <3>3, <3>4, LenProperties, Zenon DEF Begins
    <3>7. Begins(row.recs, Handle(c).lines) => Begins(row.recs, Handle(c)'.lines)
      BY <3>3, <3>4, <3>5, BeginsTransitive
    <3>8. job[c].pc = "verify" => job[c].size <= Len(Handle(c)'.lines)
      <4>1. job[c].pc = "verify" => job[c].size <= Len(Handle(c).lines)
        BY <1>1, Zenon DEF Progress
      <4>2. job[c].size \in Nat
        BY <3>5, Zenon DEF ImportJob
      <4>3. QED
        BY <3>6, <4>1, <4>2
    <3>9. ASSUME job[c].pc = "commit"
          PROVE  /\ job[c].cursor + Len(job[c].batch) <= Len(Handle(c)'.lines)
                 /\ \A k \in 1..Len(job[c].batch) :
                      job[c].batch[k] = Handle(c)'.lines[job[c].cursor + k]
      <4>1. job[c].cursor \in Nat /\ Len(job[c].batch) \in Nat
        BY <3>5, LenProperties DEF ImportJob
      <4>2. /\ job[c].cursor + Len(job[c].batch) <= Len(Handle(c).lines)
            /\ \A k \in 1..Len(job[c].batch) :
                      job[c].batch[k] = Handle(c).lines[job[c].cursor + k]
        BY <1>1, <3>9 DEF Progress
      <4>3. ASSUME NEW k \in 1..Len(job[c].batch)
            PROVE  job[c].batch[k] = Handle(c)'.lines[job[c].cursor + k]
        <5>1. job[c].cursor + k \in 1..Len(Handle(c).lines)
          BY <3>6, <4>1, <4>2
        <5>2. QED
          BY <3>6, <4>2, <5>1
      <4>4. job[c].cursor + Len(job[c].batch) <= Len(Handle(c)'.lines)
        BY <3>6, <4>1, <4>2
      <4>5. QED
        BY <4>3, <4>4
    <3>10. QED
      BY <1>1, <3>1, <3>2, <3>7, <3>8, <3>9 DEF Progress
  <2>3. QED
    BY <2>1, <2>2
<1>6. noticed' # writes'
  BY <1>1, <1>2 DEF ImportTypes
<1>7. QED
  BY <1>3, <1>4, <1>5, <1>6 DEF ImportInv, Noticed

\* A line arrives, the file is cut, or another file takes its place.
LEMMA WriteSteps ==
  ASSUME ImportSetting, ImportInv,
         \/ AppendLine \/ AppendPartial
         \/ \E keep \in 0..Len(Lines), more \in 0..2 : RewriteInPlace(keep, more)
         \/ \E keep \in 0..Len(Lines) : ReplaceFile(keep)
  PROVE  ImportInv'
<1>1. ImportTypes /\ Contents /\ writes \in Nat /\ inode \in 1..Len(disk) /\ disk[inode] \in File
  BY ElementOfSeq DEF ImportInv, ImportTypes
<1>2. Lines \in Seq(Nat) /\ Len(Lines) \in Nat /\ \A k \in 1..Len(Lines) : Lines[k] \in Nat
  BY <1>1, LinesAreContent, ElementOfSeq
<1>3. NewLine(1) \in Nat /\ NewLine(1) = 3 * writes + 1
  BY <1>1 DEF NewLine
<1>4. CASE AppendLine
  <2> DEFINE new == Append(Lines, NewLine(1))
             content == [lines |-> new, partial |-> FALSE]
  <2>1. /\ new \in Seq(Nat) /\ Len(new) = Len(Lines) + 1
        /\ \A k \in 1..Len(Lines) : new[k] = Lines[k]
        /\ new[Len(Lines) + 1] = NewLine(1)
    BY <1>2, <1>3, AppendProperties
  <2>2. Written(content, inode) /\ content \in File
    BY <1>4, <2>1 DEF AppendLine, File
  <2>3. content.lines = new
    OBVIOUS
  <2> HIDE DEF new, content
  <2>4. \A k \in Len(Lines) + 1..Len(new) : new[k] \in 3 * writes + 1..3 * writes + 2
    BY <1>1, <1>2, <1>3, <2>1
  <2>5. Begins(Lines, new)
    BY <1>2, <2>1 DEF Begins
  <2>6. Contents'
    <3>1. /\ Len(Lines) \in 0..Len(Lines) /\ Len(Lines) <= Len(content.lines)
          /\ \A k \in 1..Len(Lines) : content.lines[k] = Lines[k]
          /\ \A k \in Len(Lines) + 1..Len(content.lines) :
               content.lines[k] \in 3 * writes + 1..3 * writes + 2
      BY <1>2, <2>1, <2>3, <2>4
    <3>2. QED
      BY <1>1, <2>2, <3>1, ContentsGrow
  <2>7. QED
    BY <2>2, <2>3, <2>5, <2>6, WriteKeeps
<1>5. CASE AppendPartial
  <2> DEFINE content == [lines |-> Lines, partial |-> TRUE]
  <2>1. Written(content, inode) /\ content \in File
    BY <1>2, <1>5 DEF AppendPartial, File
  <2>2. content.lines = Lines
    OBVIOUS
  <2> HIDE DEF content
  <2>3. Begins(Lines, Lines)
    BY <1>2 DEF Begins
  <2>4. Contents'
    BY <1>1, <1>2, <2>1, <2>2, ContentsGrow, SMTT(30)
  <2>5. QED
    BY <2>1, <2>2, <2>3, <2>4, WriteKeeps
<1>6. ASSUME NEW keep \in 0..Len(Lines), NEW more \in 0..2, RewriteInPlace(keep, more)
      PROVE  ImportInv'
  <2> DEFINE old == SubSeq(Lines, 1, keep)
             more2 == [k \in 1..more |-> NewLine(k)]
             new == old \o more2
             content == [lines |-> new, partial |-> FALSE]
  <2>1. old \in Seq(Nat) /\ Len(old) = keep /\ \A k \in 1..keep : old[k] = Lines[k]
    BY <1>2, SubSeqProperties
  <2>2. more2 \in Seq(Nat) /\ Len(more2) = more /\ \A k \in 1..more : more2[k] = 3 * writes + k
    BY <1>1 DEF NewLine
  <2> HIDE DEF old, more2
  <2>3. /\ new \in Seq(Nat) /\ Len(new) = keep + more
        /\ \A k \in 1..keep + more : new[k] = IF k <= keep THEN old[k] ELSE more2[k - keep]
    BY <2>1, <2>2, ConcatProperties
  <2>4. Written(content, inode) /\ content \in File /\ ~Running
    BY <1>6, <2>3 DEF RewriteInPlace, ImportSetting, File, old, more2
  <2>5. content.lines = new
    OBVIOUS
  <2> HIDE DEF new, content
  <2>6. \A k \in 1..keep : new[k] = Lines[k]
    BY <2>1, <2>3
  <2>7. ASSUME NEW k \in keep + 1..Len(new)
        PROVE  new[k] \in 3 * writes + 1..3 * writes + 2
    <3>1. new[k] = more2[k - keep] /\ k - keep \in 1..more
      BY <2>3
    <3>2. new[k] = 3 * writes + (k - keep) /\ writes \in Nat /\ more \in 0..2
      BY <1>1, <2>2, <3>1, Zenon DEF ImportTypes
    <3>3. QED
      BY <3>1, <3>2, NewLines, Zenon
  <2>8. Contents'
    <3>1. keep <= Len(content.lines)
      BY <1>2, <2>3, <2>5
    <3>2. /\ \A k \in 1..keep : content.lines[k] = Lines[k]
          /\ \A k \in keep + 1..Len(content.lines) :
               content.lines[k] \in 3 * writes + 1..3 * writes + 2
      BY <2>5, <2>6, <2>7, Zenon
    <3>3. QED
      BY <1>1, <2>4, <3>1, <3>2, ContentsGrow
  <2>9. QED
    BY <2>4, <2>8, WriteKeeps
<1>7. ASSUME NEW keep \in 0..Len(Lines), ReplaceFile(keep)
      PROVE  ImportInv'
  <2> DEFINE old == SubSeq(Lines, 1, keep)
             new == Append(old, NewLine(1))
             content == [lines |-> new, partial |-> FALSE]
  <2>1. old \in Seq(Nat) /\ Len(old) = keep /\ \A k \in 1..keep : old[k] = Lines[k]
    BY <1>2, SubSeqProperties
  <2> HIDE DEF old
  <2>2. /\ new \in Seq(Nat) /\ Len(new) = keep + 1
        /\ \A k \in 1..keep : new[k] = old[k]
        /\ new[keep + 1] = NewLine(1)
    BY <1>3, <2>1, AppendProperties
  <2>3. Written(content, Len(disk) + 1) /\ content \in File
    BY <1>7, <2>2 DEF ReplaceFile, File, old
  <2>4. content.lines = new
    OBVIOUS
  <2> HIDE DEF new, content
  <2>5. \A k \in keep + 1..Len(new) : new[k] \in 3 * writes + 1..3 * writes + 2
    BY <1>1, <1>3, <2>2
  <2>6. Contents'
    <3>1. /\ keep <= Len(content.lines)
          /\ \A k \in 1..keep : content.lines[k] = Lines[k]
          /\ \A k \in keep + 1..Len(content.lines) :
               content.lines[k] \in 3 * writes + 1..3 * writes + 2
      BY <2>1, <2>2, <2>4, <2>5
    <3>2. QED
      BY <1>1, <2>3, <3>1, ContentsGrow
  <2>7. Len(disk) + 1 # inode
    BY <1>1, LenProperties DEF ImportTypes
  <2>8. QED
    BY <2>3, <2>6, <2>7, WriteKeeps
<1>8. QED
  BY <1>4, <1>5, <1>6, <1>7

-----------------------------------------------------------------------------
(* Requests and imports. *)

\* Another request joins the import that runs, or starts one.
LEMMA RequestStep ==
  ASSUME ImportInv, NEW c \in Callers, NEW force \in BOOLEAN, ProcessNativePath(c, force),
         noticed' = writes, UNCHANGED <<disk, inode, row, writes, versions>>
  PROVE  ImportInv'
<1>1. /\ ImportTypes /\ Contents /\ Stored /\ OneImport /\ Noticed
      /\ \A d \in Callers : Progress(d)
  BY DEF ImportInv
<1>2. Contents' /\ Stored'
  BY <1>1, Zenon DEF Contents, Stored, Lines
<1>3. noticed' \in 0..writes'
  BY <1>1 DEF ImportTypes
<1>4. CASE importing.active
  <2>1. /\ importing' = [importing EXCEPT !.pending = TRUE, !.force = @ \/ force]
        /\ job' = job
    BY <1>4 DEF ProcessNativePath
  <2>2. /\ importing' \in [active : BOOLEAN, pending : BOOLEAN, force : BOOLEAN]
        /\ importing'.active /\ importing'.pending
    BY <1>1, <1>4, <2>1, Zenon DEF ImportTypes
  <2>3. ImportTypes'
    BY <1>1, <1>3, <2>1, <2>2 DEF ImportTypes
  <2>4. OneImport' /\ \A d \in Callers : Progress(d)'
    BY <1>1, <2>1, <2>2, ZenonT(30) DEF OneImport, Progress, Handle
  <2>5. QED
    BY <1>2, <2>2, <2>3, <2>4, Zenon DEF ImportInv, Noticed
<1>5. CASE ~importing.active
  <2> DEFINE x == [NoImport EXCEPT !.pc = "open", !.force = force]
  <2>1. importing' = [NoEntry EXCEPT !.active = TRUE] /\ job' = [job EXCEPT ![c] = x]
    BY <1>5 DEF ProcessNativePath
  <2>2. x \in ImportJob /\ x.pc = "open"
    BY NoImportTypes, Zenon DEF ImportJob
  <2>3. /\ importing' \in [active : BOOLEAN, pending : BOOLEAN, force : BOOLEAN]
        /\ importing'.active
    BY <2>1, Zenon DEF NoEntry
  <2> HIDE DEF x
  <2>4. /\ job' \in [Callers -> ImportJob] /\ job'[c].pc = "open"
        /\ \A d \in Callers : d # c => job'[d].pc = "idle"
    BY <1>1, <1>5, <2>1, <2>2, Zenon DEF ImportTypes, OneImport
  <2>5. ImportTypes'
    BY <1>1, <1>3, <2>3, <2>4 DEF ImportTypes
  <2>6. OneImport'
    BY <2>3, <2>4, Zenon DEF OneImport
  <2>7. \A d \in Callers : job'[d].pc \in {"open", "idle"}
    BY <2>4, Zenon
  <2>8. \A d \in Callers : Progress(d)' /\ Answers(d)'
    BY <2>7 DEF Progress, Answers
  <2>9. QED
    BY <1>2, <2>3, <2>5, <2>6, <2>8, Zenon DEF ImportInv, Noticed
<1>6. QED
  BY <1>4, <1>5

\* The import of one caller goes on; no other runs.
LEMMA ImportGoesOn ==
  ASSUME ImportInv, NEW c \in Callers, job[c].pc # "idle", NEW x \in ImportJob,
         job' = [job EXCEPT ![c] = x],
         UNCHANGED <<disk, inode, versions, writes, importing>>,
         row' \in LedgerRow, Stored', noticed' \in {noticed, 0}, Progress(c)',
         noticed' = writes /\ Lines # <<>> /\ ~importing.pending => Answers(c)'
  PROVE  ImportInv'
<1>1. /\ ImportTypes /\ Contents /\ OneImport
      /\ \A d \in Callers : Progress(d)
  BY DEF ImportInv
<1>2. Contents' /\ Lines' = Lines
  BY <1>1, Zenon DEF Contents, Lines
<1>3. job' \in [Callers -> ImportJob] /\ job'[c] = x
      /\ \A d \in Callers : d # c => job'[d].pc = "idle"
  BY <1>1, Zenon DEF ImportTypes, OneImport
<1>4. noticed' \in 0..writes'
  BY <1>1 DEF ImportTypes
<1>5. ImportTypes'
  BY <1>1, <1>3, <1>4 DEF ImportTypes
<1>6. OneImport' /\ importing'.active
  BY <1>1, <1>3, Zenon DEF OneImport
<1>7. \A d \in Callers : d # c => Progress(d)' /\ Answers(d)'
  <2>1. SUFFICES ASSUME NEW d \in Callers, d # c
                 PROVE  Progress(d)' /\ Answers(d)'
    OBVIOUS
  <2>2. job'[d].pc = "idle"
    BY <1>3, <2>1, Zenon
  <2>3. QED
    BY <2>2 DEF Progress, Answers
<1>8. QED
  BY <1>2, <1>5, <1>6, <1>7, Zenon DEF ImportInv, Noticed

\* The file is opened and registered.
LEMMA OpenStep ==
  ASSUME ImportInv, NEW c \in Callers, OpenAndRegister(c)
  PROVE  ImportInv'
<1> DEFINE x == [job[c] EXCEPT !.pc = "verify", !.inode = inode, !.size = Len(Lines),
                               !.stamp = Stamp, !.row = row']
<1>1. /\ ImportTypes /\ Contents /\ Stored /\ job[c].pc = "open" /\ row' = Register
      /\ UNCHANGED <<disk, inode, versions, writes, importing, noticed>>
      /\ job' = [job EXCEPT ![c] = x]
  BY DEF ImportInv, OpenAndRegister
<1>2. Len(Lines) \in Nat /\ writes \in Nat /\ disk[inode] \in File /\ inode \in Nat
      /\ inode \in 1..Len(disk) /\ job[c] \in ImportJob
  BY <1>1, LinesAreContent, ElementOfSeq DEF ImportTypes
<1>3. row' \in LedgerRow /\ (row' = row \/ (row'.recs = <<>> /\ row'.cursor = 0))
  <2>1. CASE row.gen = 0
    <3>1. row' = [NoRow EXCEPT !.gen = 1, !.inode = inode]
      BY <1>1, <2>1 DEF Register
    <3>2. QED
      BY <1>2, <3>1, NoRowStored, Zenon DEF LedgerRow
  <2>2. CASE row.gen # 0
    <3>1. row' = row /\ row \in LedgerRow
      BY <1>1, <2>2, Zenon DEF Register, ImportTypes
    <3>2. QED
      BY <3>1, Zenon
  <2>3. QED
    BY <2>1, <2>2
<1>4. Stored'
  <2>1. CASE row' = row
    BY <1>1, <2>1, Zenon DEF Stored
  <2>2. CASE row'.recs = <<>> /\ row'.cursor = 0
    <3>1. Len(<<>>) = 0 /\ Lines \in versions' /\ Len(Lines) \in Nat
      BY <1>1, LinesAreContent
    <3>2. Begins(<<>>, Lines)
      BY <3>1 DEF Begins
    <3>3. QED
      BY <2>2, <3>1, <3>2 DEF Stored
  <2>3. QED
    BY <1>3, <2>1, <2>2
<1>5. Stamp \in Nat \X Nat \X BOOLEAN
  BY <1>2 DEF Stamp, File
<1>6. /\ x \in ImportJob /\ x.pc = "verify" /\ x.inode = inode /\ x.size = Len(Lines)
      /\ x.row = row'
  BY <1>2, <1>3, <1>5, Zenon DEF ImportJob
<1> HIDE DEF x
<1>7. job'[c] = x /\ Lines' = Lines
  BY <1>1, Zenon DEF ImportTypes, Lines
<1>8. Handle(c)'.lines = Lines
  BY <1>1, <1>6, <1>7, Zenon DEF Handle, Lines
<1>9. Progress(c)'
  BY <1>1, <1>2, <1>6, <1>7, <1>8 DEF Progress
<1>10. Answers(c)'
  BY <1>1, <1>6, <1>7 DEF Answers
<1>11. QED
  BY <1>1, <1>3, <1>4, <1>6, <1>9, <1>10, ImportGoesOn, Zenon

\* The line at the cursor is compared with the stored one: when it is the
\* same, all lines before it are.
LEMMA VerifyStep ==
  ASSUME ImportInv, NEW c \in Callers, Verify(c)
  PROVE  ImportInv'
<1> DEFINE rescan == RescanReason(c)
           x == IF VerifyFails(c) THEN [job[c] EXCEPT !.pc = "done"]
                ELSE [job[c] EXCEPT !.pc = "read", !.replace = rescan,
                                    !.cursor = IF rescan THEN 0 ELSE job[c].row.cursor]
<1>1. /\ ImportTypes /\ Contents /\ Stored /\ job[c].pc = "verify" /\ Progress(c) /\ Noticed
      /\ UNCHANGED <<disk, inode, row, versions, writes, importing>>
      /\ job' = [job EXCEPT ![c] = x]
      /\ noticed' = IF VerifyFails(c) THEN 0 ELSE noticed
  BY DEF ImportInv, Verify
<1>2. job[c] \in ImportJob /\ row \in LedgerRow /\ job[c].row = row
      /\ job[c].inode \in 1..Len(disk)
  BY <1>1 DEF ImportTypes, Progress
<1>3. Stored' /\ row' \in LedgerRow /\ noticed' \in {noticed, 0} /\ rescan \in BOOLEAN
  BY <1>1, <1>2, Zenon DEF Stored, RescanReason
<1>4. Handle(c).lines \in versions /\ Handle(c).lines \in Seq(Nat) /\ Len(Handle(c).lines) \in Nat
  BY <1>1, <1>2, HandleIsContent
<1>5. row.recs \in Seq(Nat) /\ Len(row.recs) \in Nat /\ row.cursor = Len(row.recs)
  BY <1>1, <1>2, LenProperties DEF LedgerRow, Stored
<1>6. CASE VerifyFails(c)
  <2>1. x \in ImportJob /\ x.pc = "done"
    BY <1>2, <1>6, Zenon DEF ImportJob
  <2> HIDE DEF x
  <2>2. job'[c].pc = "done"
    BY <1>1, <2>1, Zenon DEF ImportTypes
  <2>3. Progress(c)'
    BY <2>2 DEF Progress
  <2>4. noticed' # writes \/ Lines = <<>>
    BY <1>1, <1>6 DEF Contents, ImportTypes
  <2>5. QED
    BY <1>1, <1>3, <2>1, <2>3, <2>4, ImportGoesOn, Zenon
<1>7. CASE ~VerifyFails(c)
  <2>1. /\ x \in ImportJob /\ x.pc = "read" /\ x.replace = rescan /\ x.inode = job[c].inode
        /\ x.cursor = IF rescan THEN 0 ELSE row.cursor
    BY <1>2, <1>3, <1>5, <1>7, Zenon DEF ImportJob
  <2>2. ASSUME ~rescan
        PROVE  Begins(row.recs, Handle(c).lines)
    <3>1. CASE row.cursor = 0
      BY <1>4, <1>5, <3>1 DEF Begins
    <3>2. CASE row.cursor # 0
      <4>1. job[c].size >= row.cursor /\ row.hash = Handle(c).lines[row.cursor]
        BY <1>2, <1>5, <2>2, <3>2, SMTT(30) DEF RescanReason, VerifiedHash, ImportJob
      <4> DEFINE h == Handle(c).lines
      <4>2. row.cursor \in 1..Len(h) /\ row.cursor \in 1..Len(row.recs)
        <5>1. job[c].size <= Len(h) /\ job[c].size \in Nat
          BY <1>1, <1>2, Zenon DEF Progress, ImportJob
        <5>2. QED
          BY <1>4, <1>5, <3>2, <4>1, <5>1
      <4>3. PICK v \in versions : Begins(row.recs, v)
        BY <1>1 DEF Stored
      <4>4. Len(v) \in Nat /\ row.cursor \in 1..Len(v) /\ v[row.cursor] = row.recs[row.cursor]
        <5>1. v \in Seq(Nat) /\ Len(v) \in Nat
          BY <1>1, LenProperties DEF Contents
        <5>2. Len(row.recs) <= Len(v) /\ Len(row.recs) \in Nat
          BY <1>5, <4>2, <4>3, Zenon DEF Begins
        <5>3. row.cursor \in 1..Len(v)
          BY <4>2, <5>1, <5>2
        <5>4. QED
          BY <4>2, <4>3, <5>1, <5>3, Zenon DEF Begins
      <4>5. v[row.cursor] = Handle(c).lines[row.cursor]
        BY <1>1, <1>5, <3>2, <4>1, <4>4 DEF Stored
      <4>6. \A m \in 1..row.cursor : v[m] = Handle(c).lines[m]
        <5>1. h \in versions /\ v[row.cursor] = h[row.cursor]
          BY <1>4, <4>5
        <5>2. row.cursor <= Len(h)
          BY <1>4, <4>2
        <5>3. QED
          BY <1>1, <4>4, <5>1, <5>2, Zenon DEF Contents
      <4>7. QED
        BY <1>4, <1>5, <4>2, <4>3, <4>6 DEF Begins
    <3>3. QED
      BY <3>1, <3>2
  <2> HIDE DEF x, rescan
  <2>3. job'[c] = x
    BY <1>1, Zenon DEF ImportTypes
  <2>4. Handle(c)' = Handle(c)
    BY <1>1, <2>1, <2>3, Zenon DEF Handle
  <2>5. Progress(c)'
    BY <1>1, <1>2, <2>1, <2>2, <2>3, <2>4 DEF Progress
  <2>6. noticed' = noticed
    BY <1>1, <1>7
  <2>7. noticed' = writes /\ Lines # <<>> /\ ~importing.pending => Answers(c)'
    BY <1>1, <2>1, <2>3, <2>6 DEF Noticed, Answers
  <2>8. QED
    BY <1>1, <1>3, <2>1, <2>5, <2>7, ImportGoesOn, Zenon
<1>8. QED
  BY <1>6, <1>7

\* The next lines are read: the read that finds none has imported them all.
LEMMA ReadStep ==
  ASSUME ImportSetting, ImportInv, NEW c \in Callers, ReadBatch(c)
  PROVE  ImportInv'
<1> DEFINE lines == Handle(c).lines
           last == IF job[c].cursor + BatchLimit < Len(lines)
                   THEN job[c].cursor + BatchLimit ELSE Len(lines)
           batch == SubSeq(lines, job[c].cursor + 1, last)
           next == IF batch = <<>> THEN "done" ELSE "commit"
           trailing == Len(batch) < BatchLimit /\ Handle(c).partial
           x == [job[c] EXCEPT !.pc = next, !.batch = batch, !.trailing = trailing]
<1>1. /\ ImportTypes /\ Contents /\ Stored /\ job[c].pc = "read" /\ Progress(c) /\ Noticed
      /\ UNCHANGED <<disk, inode, row, versions, writes, importing, noticed>>
      /\ job' = [job EXCEPT ![c] = x]
  BY DEF ImportInv, ReadBatch
<1>2. job[c] \in ImportJob /\ row \in LedgerRow /\ job[c].inode \in 1..Len(disk)
  BY <1>1 DEF ImportTypes, Progress
<1>3. lines \in Seq(Nat) /\ Len(lines) \in Nat /\ Handle(c) \in File
  BY <1>1, <1>2, HandleIsContent
<1>4. Stored' /\ row' \in LedgerRow /\ noticed' \in {noticed, 0} /\ Lines' = Lines
  BY <1>1, <1>2, Zenon DEF Stored, Lines
<1>5. /\ row.recs \in Seq(Nat) /\ Len(row.recs) \in Nat /\ row.cursor = Len(row.recs)
      /\ job[c].cursor \in Nat /\ BatchLimit \in Nat /\ BatchLimit > 0
  <2>1. row.recs \in Seq(Nat) /\ job[c].cursor \in Nat /\ row.cursor = Len(row.recs)
    BY <1>1, <1>2, Zenon DEF LedgerRow, ImportJob, Stored
  <2>2. BatchLimit \in Nat /\ BatchLimit > 0
    BY DEF ImportSetting
  <2>3. QED
    BY <2>1, <2>2, LenProperties
<1>6. /\ (job[c].replace /\ job[c].cursor = 0)
           \/ (~job[c].replace /\ job[c].cursor = row.cursor /\ Begins(row.recs, lines))
      /\ job[c].cursor <= Len(lines)
  <2>1. CASE job[c].replace
    <3>1. job[c].cursor = 0
      BY <1>1, <2>1, Zenon DEF Progress
    <3>2. QED
      BY <1>3, <2>1, <3>1
  <2>2. CASE ~job[c].replace
    <3>1. job[c].cursor = row.cursor /\ Begins(row.recs, lines)
      BY <1>1, <2>2, Zenon DEF Progress
    <3>2. QED
      BY <1>3, <1>5, <2>2, <3>1, Zenon DEF Begins
  <2>3. QED
    BY <2>1, <2>2
<1>7. batch = Batch(lines, job[c].cursor, BatchLimit)
  BY DEF Batch
<1> HIDE DEF batch
<1>8. /\ batch \in Seq(Nat)
      /\ \A k \in 1..Len(batch) : batch[k] = lines[job[c].cursor + k]
  BY <1>3, <1>5, <1>6, <1>7, BatchRead, Zenon
<1>9. /\ batch = <<>> => job[c].cursor = Len(lines)
      /\ batch # <<>> => Len(batch) > 0
      /\ job[c].cursor + Len(batch) <= Len(lines)
      /\ Len(batch) < BatchLimit => job[c].cursor + Len(batch) = Len(lines)
  BY <1>3, <1>5, <1>6, <1>7, BatchRead, Zenon
<1>10. trailing \in BOOLEAN /\ next \in {"done", "commit"}
  OBVIOUS
<1> HIDE DEF trailing, next
<1>11. /\ x \in ImportJob /\ x.pc = next /\ x.batch = batch /\ x.trailing = trailing
       /\ x.replace = job[c].replace /\ x.cursor = job[c].cursor /\ x.inode = job[c].inode
  BY <1>2, <1>8, <1>10, Zenon DEF ImportJob
<1> HIDE DEF x
<1>12. job'[c] = x
  BY <1>1, Zenon DEF ImportTypes
<1>13. Handle(c)' = Handle(c)
  BY <1>1, <1>11, <1>12, Zenon DEF Handle
<1> HIDE DEF lines
<1>14. next = "commit" => Len(batch) > 0 /\ job[c].cursor + Len(batch) <= Len(lines)
  BY <1>9, Zenon DEF next
<1>15. Progress(c)'
  <2>1. Handle(c)'.lines = lines /\ row' = row /\ disk' = disk
    BY <1>1, <1>13 DEF lines
  <2>2. QED
    BY <1>2, <1>6, <1>8, <1>10, <1>11, <1>12, <1>14, <2>1, Zenon DEF Progress
<1>16. ASSUME noticed' = writes /\ Lines # <<>> /\ ~importing.pending
       PROVE  Answers(c)'
  <2>1. job[c].inode = inode /\ lines = Lines
    BY <1>1, <1>16, Zenon DEF Noticed, Answers, lines, Handle, Lines
  <2>2. ASSUME trailing
        PROVE  job[c].cursor + Len(batch) = Len(Lines)
    BY <1>9, <2>1, <2>2, Zenon DEF trailing
  <2>3. ASSUME next = "done"
        PROVE  row.recs = Lines
    <3>1. job[c].cursor = Len(lines)
      BY <1>9, <2>3, Zenon DEF next
    <3>2. Len(Lines) # 0
      BY <1>3, <1>16, <2>1, EmptySeq
    <3>3. row.cursor = Len(lines) /\ Begins(row.recs, lines)
      BY <1>6, <2>1, <3>1, <3>2, Zenon
    <3>4. QED
      <4>1. Len(lines) <= Len(row.recs)
        BY <1>3, <1>5, <3>3
      <4>2. QED
        BY <1>3, <1>5, <2>1, <3>3, <4>1, BeginsAll, Zenon
  <2>4. QED
    BY <1>1, <1>4, <1>11, <1>12, <2>1, <2>2, <2>3, Zenon DEF Answers
<1>17. QED
  BY <1>1, <1>4, <1>11, <1>15, <1>16, ImportGoesOn, Zenon

\* The lines read are stored behind those the row has, or alone in a new
\* generation.
LEMMA CommitStep ==
  ASSUME ImportInv, NEW c \in Callers, CommitBatch(c)
  PROVE  ImportInv'
<1> DEFINE lines == Handle(c).lines
           batch == job[c].batch
           n == job[c].cursor + Len(batch)
           base == IF job[c].replace
                   THEN [NoRow EXCEPT !.gen = row.gen + 1, !.inode = job[c].inode] ELSE row
           next == IF job[c].trailing THEN "done" ELSE "read"
           x == [job[c] EXCEPT !.pc = next, !.replace = FALSE, !.cursor = n, !.batch = <<>>]
<1>1. /\ ImportTypes /\ Contents /\ Stored /\ job[c].pc = "commit" /\ Progress(c) /\ Noticed
      /\ UNCHANGED <<disk, inode, versions, writes, importing, noticed>>
      /\ job' = [job EXCEPT ![c] = x] /\ row' = Imported(base, c)
  <2>1. /\ ImportTypes /\ Contents /\ Stored /\ job[c].pc = "commit" /\ Progress(c) /\ Noticed
        /\ UNCHANGED <<disk, inode, versions, writes, importing, noticed>>
        /\ job' = [job EXCEPT ![c] = x]
    BY DEF ImportInv, CommitBatch
  <2>2. CASE job[c].replace
    BY <2>1, <2>2, Zenon DEF CommitBatch
  <2>3. CASE ~job[c].replace
    BY <2>1, <2>3, Zenon DEF CommitBatch
  <2>4. QED
    BY <2>1, <2>2, <2>3
<1>2. /\ job[c] \in ImportJob /\ row \in LedgerRow /\ job[c].inode \in 1..Len(disk)
      /\ job[c].inode \in Nat /\ job[c].cursor \in Nat /\ batch \in Seq(Nat)
      /\ row.recs \in Seq(Nat) /\ row.gen \in Nat /\ row.cursor = Len(row.recs)
  BY <1>1, Zenon DEF ImportTypes, Progress, ImportJob, LedgerRow, Stored
<1>3. lines \in versions /\ lines \in Seq(Nat) /\ Len(lines) \in Nat
  BY <1>1, <1>2, HandleIsContent, Zenon
<1>4. /\ Len(batch) \in Nat /\ Len(batch) > 0 /\ n <= Len(lines) /\ n \in Nat
      /\ \A k \in 1..Len(batch) : batch[k] = lines[job[c].cursor + k]
  <2>1. /\ Len(batch) > 0 /\ n <= Len(lines)
        /\ \A k \in 1..Len(batch) : batch[k] = lines[job[c].cursor + k]
    BY <1>1, Zenon DEF Progress
  <2>2. Len(batch) \in Nat
    BY <1>2, LenProperties
  <2>3. n \in Nat
    BY <1>2, <2>1, <2>2, MoreLines, Zenon
  <2>4. QED
    BY <2>1, <2>2, <2>3, Zenon
<1>5. base \in LedgerRow /\ Len(base.recs) = job[c].cursor /\ Begins(base.recs, lines)
  <2>1. CASE job[c].replace
    <3>1. base = [NoRow EXCEPT !.gen = row.gen + 1, !.inode = job[c].inode]
          /\ job[c].cursor = 0
      BY <1>1, <2>1, Zenon DEF Progress
    <3>2. row.gen + 1 \in Nat
      BY <1>2
    <3>3. base \in LedgerRow /\ base.recs = <<>>
      BY <1>2, <3>1, <3>2, NoRowStored, Zenon DEF LedgerRow
    <3>4. QED
      BY <1>3, <3>1, <3>3, EmptySeq DEF Begins
  <2>2. CASE ~job[c].replace
    <3>1. base = row
      BY <2>2
    <3>2. job[c].cursor = row.cursor /\ Begins(row.recs, lines)
      BY <1>1, <2>2, Zenon DEF Progress
    <3>3. QED
      BY <1>2, <3>1, <3>2, Zenon
  <2>3. QED
    BY <2>1, <2>2
<1> HIDE DEF base
<1>6. base.recs \in Seq(Nat)
  BY <1>5 DEF LedgerRow
<1>7. (IF Len(base.recs) > job[c].cursor THEN Len(base.recs) - job[c].cursor ELSE 0) + 1 = 1
  BY <1>2, <1>5
<1>8. SubSeq(batch, 1, Len(batch)) = batch
  BY <1>2, WholePiece
<1>9. row' = [base EXCEPT !.cursor = n, !.hash = batch[Len(batch)], !.recs = @ \o batch]
  BY <1>1, <1>7, <1>8, Zenon DEF Imported
<1>10. /\ base.recs \o batch \in Seq(Nat) /\ Len(base.recs \o batch) = n
       /\ Begins(base.recs \o batch, lines)
  <2>1. Len(base.recs) + Len(batch) <= Len(lines)
        /\ \A k \in 1..Len(batch) : batch[k] = lines[Len(base.recs) + k]
    BY <1>4, <1>5, Zenon
  <2>2. QED
    BY <1>2, <1>3, <1>5, <1>6, <2>1, BeginsFurther, Zenon
<1>11. batch[Len(batch)] \in Nat /\ batch[Len(batch)] = (base.recs \o batch)[n]
  <2>1. Len(batch) \in 1..Len(batch) /\ n \in 1..n
    BY <1>2, <1>4, LastPlace, MoreLines, Zenon
  <2>2. batch[Len(batch)] = lines[n] /\ batch[Len(batch)] \in Nat
    BY <1>2, <1>4, <2>1, ElementOfSeq, Zenon
  <2>3. QED
    BY <1>10, <2>1, <2>2, Zenon DEF Begins
<1> HIDE DEF n
<1>12. /\ row' \in LedgerRow /\ row'.recs = base.recs \o batch /\ row'.cursor = n
       /\ row'.hash = batch[Len(batch)]
  BY <1>4, <1>5, <1>9, <1>10, <1>11, Zenon DEF LedgerRow
<1>13. Stored'
  <2>1. lines \in versions' /\ Begins(row'.recs, lines) /\ row'.cursor = Len(row'.recs)
    BY <1>1, <1>3, <1>10, <1>12, Zenon
  <2>2. row'.hash = row'.recs[row'.cursor]
    BY <1>11, <1>12, Zenon
  <2>3. QED
    BY <2>1, <2>2, Zenon DEF Stored
<1>14. /\ x \in ImportJob /\ x.pc = next /\ x.replace = FALSE /\ x.cursor = n
       /\ x.inode = job[c].inode /\ next \in {"done", "read"}
  BY <1>2, <1>4, EmptySeq, Zenon DEF ImportJob
<1> HIDE DEF x, next
<1>15. job'[c] = x
  BY <1>1, Zenon DEF ImportTypes
<1>16. Handle(c)'.lines = lines /\ disk' = disk
  BY <1>1, <1>14, <1>15, Zenon DEF Handle
<1>17. Begins(row'.recs, lines)
  BY <1>10, <1>12, Zenon
<1> HIDE DEF lines
<1>18. Progress(c)'
  BY <1>2, <1>12, <1>14, <1>15, <1>16, <1>17, Zenon DEF Progress
<1>19. ASSUME noticed' = writes /\ Lines # <<>> /\ ~importing.pending
       PROVE  Answers(c)'
  <2>1. job[c].inode = inode /\ lines = Lines /\ Lines' = Lines
        /\ (job[c].trailing => n = Len(Lines))
    BY <1>1, <1>19, Zenon DEF Noticed, Answers, lines, Handle, Lines, n
  <2>2. ASSUME next = "done"
        PROVE  row'.recs = Lines
    <3>1. job[c].trailing
      BY <2>2 DEF next
    <3>2. row'.recs \in Seq(Nat) /\ Len(lines) <= Len(row'.recs)
      <4>1. row'.recs \in Seq(Nat) /\ Len(row'.recs) = Len(lines)
        BY <1>10, <1>12, <2>1, <3>1, Zenon
      <4>2. QED
        BY <1>3, <4>1, SMT
    <3>3. QED
      BY <1>3, <1>17, <2>1, <3>2, BeginsAll, Zenon
  <2>3. QED
    BY <1>1, <1>14, <1>15, <2>1, <2>2, Zenon DEF Answers
<1>20. QED
  BY <1>1, <1>12, <1>13, <1>14, <1>18, <1>19, ImportGoesOn, Zenon

\* An import that fails takes back what the last request was promised.
LEMMA FailStep ==
  ASSUME ImportInv, NEW c \in Callers, ImportFails(c)
  PROVE  ImportInv'
<1> DEFINE x == [job[c] EXCEPT !.pc = "done"]
<1>1. /\ ImportTypes /\ Contents /\ Stored /\ job[c].pc \in {"open", "verify", "read", "commit"}
      /\ UNCHANGED <<disk, inode, row, versions, writes, importing>>
      /\ job' = [job EXCEPT ![c] = x] /\ noticed' = 0
  BY DEF ImportInv, ImportFails
<1>2. Stored' /\ row' \in LedgerRow /\ noticed' \in {noticed, 0}
  BY <1>1, Zenon DEF Stored, ImportTypes
<1>3. x \in ImportJob /\ x.pc = "done"
  BY <1>1, ZenonT(30) DEF ImportJob, ImportTypes
<1> HIDE DEF x
<1>4. job'[c].pc = "done" /\ job[c].pc # "idle"
  BY <1>1, <1>3, Zenon DEF ImportTypes
<1>5. Progress(c)'
  BY <1>4 DEF Progress
<1>6. ~(noticed' = writes /\ Lines # <<>>)
  BY <1>1 DEF Contents
<1>7. QED
  BY <1>1, <1>2, <1>3, <1>4, <1>5, <1>6, ImportGoesOn, Zenon

\* The import of one caller ends, or starts over, and no other runs.
LEMMA PassEnds ==
  ASSUME ImportInv, NEW c \in Callers, job[c].pc # "idle", NEW x \in ImportJob,
         x.pc \in {"idle", "open"}, job' = [job EXCEPT ![c] = x],
         UNCHANGED <<disk, inode, row, versions, writes, noticed>>,
         importing' \in [active : BOOLEAN, pending : BOOLEAN, force : BOOLEAN],
         importing'.pending => importing'.active,
         x.pc = "open" => importing'.active,
         noticed = writes /\ Lines # <<>> /\ ~importing'.active => row.recs = Lines
  PROVE  ImportInv'
<1>1. ImportTypes /\ Contents /\ Stored /\ OneImport
  BY DEF ImportInv
<1>2. Contents' /\ Stored' /\ Lines' = Lines
  BY <1>1, Zenon DEF Contents, Stored, Lines
<1>3. /\ job' \in [Callers -> ImportJob] /\ job'[c] = x
      /\ \A d \in Callers : d # c => job'[d].pc = "idle"
  BY <1>1, Zenon DEF ImportTypes, OneImport
<1>4. ImportTypes'
  BY <1>1, <1>3, Zenon DEF ImportTypes
<1>5. OneImport'
  BY <1>3, Zenon DEF OneImport
<1>6. \A d \in Callers : job'[d].pc \in {"open", "idle"}
  BY <1>3, Zenon
<1>7. \A d \in Callers : Progress(d)' /\ Answers(d)'
  BY <1>6 DEF Progress, Answers
<1>8. QED
  BY <1>2, <1>4, <1>5, <1>7, Zenon DEF ImportInv, Noticed

LEMMA FinishStep ==
  ASSUME ImportInv, NEW c \in Callers, FinishOrRepeat(c)
  PROVE  ImportInv'
<1>1. /\ ImportTypes /\ OneImport /\ Noticed /\ job[c].pc = "done"
      /\ UNCHANGED <<disk, inode, row, versions, writes, noticed>>
  BY DEF ImportInv, FinishOrRepeat
<1>2. job[c].pc # "idle" /\ importing.active
  BY <1>1 DEF OneImport
<1>3. CASE importing.pending
  <2> DEFINE x == [NoImport EXCEPT !.pc = "open", !.force = importing.force]
  <2>1. importing' = [NoEntry EXCEPT !.active = TRUE] /\ job' = [job EXCEPT ![c] = x]
    BY <1>3 DEF FinishOrRepeat
  <2>2. importing.force \in BOOLEAN
    BY <1>1 DEF ImportTypes
  <2>3. x \in ImportJob /\ x.pc = "open"
    BY <2>2, NoImportTypes, Zenon DEF ImportJob
  <2>4. /\ importing' \in [active : BOOLEAN, pending : BOOLEAN, force : BOOLEAN]
        /\ importing'.active
    BY <2>1, Zenon DEF NoEntry
  <2> HIDE DEF x
  <2>5. QED
    BY <1>1, <1>2, <2>1, <2>3, <2>4, PassEnds, Zenon
<1>4. CASE ~importing.pending
  <2>1. importing' = NoEntry /\ job' = [job EXCEPT ![c] = NoImport]
    BY <1>4, Zenon DEF FinishOrRepeat
  <2>2. /\ importing' \in [active : BOOLEAN, pending : BOOLEAN, force : BOOLEAN]
        /\ ~importing'.active /\ ~importing'.pending
    BY <2>1 DEF NoEntry
  <2>3. noticed = writes /\ Lines # <<>> => row.recs = Lines
    BY <1>1, <1>4, Zenon DEF Noticed, Answers
  <2>4. QED
    BY <1>1, <1>2, <2>1, <2>2, <2>3, NoImportTypes, PassEnds, Zenon
<1>5. QED
  BY <1>3, <1>4

\* The entry of an import that is dropped stays, and no request gets through.
LEMMA AbandonStep ==
  ASSUME ImportInv, NEW c \in Callers, Abandon(c)
  PROVE  ImportInv'
<1>1. /\ ImportTypes /\ OneImport /\ job[c].pc # "idle"
      /\ UNCHANGED <<disk, inode, row, importing, versions, writes, noticed>>
      /\ job' = [job EXCEPT ![c] = NoImport]
  BY DEF ImportInv, Abandon
<1>2. importing'.active /\ importing' \in [active : BOOLEAN, pending : BOOLEAN, force : BOOLEAN]
  BY <1>1, Zenon DEF OneImport, ImportTypes
<1>3. QED
  BY <1>1, <1>2, NoImportTypes, PassEnds, Zenon

LEMMA CrashStep ==
  ASSUME ImportInv, Crash
  PROVE  ImportInv'
<1>1. /\ ImportTypes /\ Contents /\ Stored
      /\ UNCHANGED <<disk, inode, row, versions, writes>> /\ noticed' = 0
      /\ job' = [c \in Callers |-> NoImport] /\ importing' = NoEntry
  BY DEF ImportInv, Crash
<1>2. Contents' /\ Stored' /\ Lines' = Lines
  BY <1>1, Zenon DEF Contents, Stored, Lines
<1>3. /\ job' \in [Callers -> ImportJob] /\ \A d \in Callers : job'[d].pc = "idle"
      /\ importing' \in [active : BOOLEAN, pending : BOOLEAN, force : BOOLEAN]
      /\ importing'.pending = FALSE
  BY <1>1, NoImportTypes, Zenon DEF NoEntry
<1>4. ImportTypes'
  <2>1. 0 \in 0..writes
    BY <1>1 DEF ImportTypes
  <2>2. QED
    BY <1>1, <1>3, <2>1, Zenon DEF ImportTypes
<1>5. OneImport' /\ \A d \in Callers : Progress(d)'
  BY <1>3, Zenon DEF OneImport, Progress
<1>6. ~(noticed' = writes' /\ Lines' # <<>>)
  BY <1>1, <1>2 DEF Contents
<1>7. QED
  BY <1>2, <1>4, <1>5, <1>6, Zenon DEF ImportInv, Noticed

\* At the start there is an empty file and no row.
LEMMA ImportStarts == ASSUME ImportInit PROVE ImportInv
<1> DEFINE empty == [lines |-> <<>>, partial |-> FALSE]
<1>1. empty \in File /\ empty.lines = <<>>
  BY EmptySeq DEF File
<1>2. /\ disk = <<empty>> /\ inode = 1 /\ row = NoRow /\ importing = NoEntry
      /\ job = [c \in Callers |-> NoImport] /\ writes = 0 /\ versions = {<<>>} /\ noticed = 0
  BY Zenon DEF ImportInit
<1> HIDE DEF empty
<1>3. /\ disk \in Seq(File) /\ Len(disk) = 1 /\ disk[1] = empty
  <2>1. \A e \in File : <<e>> \in Seq(File) /\ Len(<<e>>) = 1 /\ <<e>>[1] = e
    OBVIOUS
  <2>2. QED
    BY <1>1, <1>2, <2>1, Zenon
<1>4. /\ job \in [Callers -> ImportJob] /\ \A c \in Callers : job[c].pc = "idle"
      /\ importing \in [active : BOOLEAN, pending : BOOLEAN, force : BOOLEAN]
      /\ importing.pending = FALSE
  BY <1>2, NoImportTypes, Zenon DEF NoEntry
<1>5. Lines = <<>>
  BY <1>1, <1>2, <1>3, Zenon DEF Lines
<1>6. ImportTypes
  BY <1>2, <1>3, <1>4, NoRowStored DEF ImportTypes
<1>7. Contents
  <2>1. versions \subseteq Seq(Nat) /\ \A v \in versions : v = <<>> /\ Len(v) = 0
    BY <1>2, EmptySeq, Zenon
  <2>2. \A i \in 1..Len(disk) : disk[i].lines \in versions
    BY <1>1, <1>2, <1>3
  <2>3. \A v \in versions : 1..Len(v) = {}
    BY <2>1
  <2>4. QED
    BY <1>5, <2>1, <2>2, <2>3, Zenon DEF Contents
<1>8. Stored
  <2>1. row.recs = <<>> /\ row.cursor = 0 /\ Len(<<>>) = 0 /\ <<>> \in versions
    BY <1>2, NoRowStored, EmptySeq, Zenon
  <2>2. QED
    BY <2>1 DEF Stored, Begins
<1>9. OneImport /\ \A c \in Callers : Progress(c)
  BY <1>4, Zenon DEF OneImport, Progress
<1>10. QED
  BY <1>5, <1>6, <1>7, <1>8, <1>9, Zenon DEF ImportInv, Noticed

LEMMA ImportStepKeeps ==
  ASSUME ImportSetting, ImportInv, [ImportNext]_importVars
  PROVE  ImportInv'
<1>1. CASE \/ AppendLine \/ AppendPartial
           \/ \E keep \in 0..Len(Lines), more \in 0..2 : RewriteInPlace(keep, more)
           \/ \E keep \in 0..Len(Lines) : ReplaceFile(keep)
  BY <1>1, WriteSteps, Zenon
<1>2. "registry" \in Callers /\ "watcher" \in Callers /\ "request" \in Callers
  BY DEF Callers
<1>3. CASE RegistryScan
  BY <1>2, <1>3, RequestStep, Zenon DEF RegistryScan
<1>4. CASE WatcherEvent
  BY <1>2, <1>4, RequestStep, Zenon DEF WatcherEvent
<1>5. CASE WatcherError
  BY <1>2, <1>5, RequestStep, Zenon DEF WatcherError
<1>6. CASE AssignManual
  BY <1>2, <1>6, RequestStep, Zenon DEF AssignManual
<1>7. CASE \E c \in Callers : ImportStep(c) \/ ImportFails(c) \/ Abandon(c)
  BY <1>7, OpenStep, VerifyStep, ReadStep, CommitStep, FinishStep, FailStep, AbandonStep, Zenon
     DEF ImportStep
<1>8. CASE Crash
  BY <1>8, CrashStep, Zenon
<1>9. CASE UNCHANGED importVars
  <2>1. UNCHANGED <<disk, inode, row, importing, job, writes, versions, noticed>>
    BY <1>9 DEF importVars
  <2>2. QED
    BY <2>1, ZenonT(30) DEF ImportInv, ImportTypes, Contents, Stored, OneImport, Progress, Noticed,
       Answers, Handle, Lines
<1>10. QED
  BY <1>1, <1>3, <1>4, <1>5, <1>6, <1>7, <1>8, <1>9, Zenon DEF ImportNext

LEMMA ImportInvariant == ASSUME ImportSetting PROVE ImportSpec => []ImportInv
<1>1. ImportInit => ImportInv
  BY ImportStarts
<1>2. ImportInv /\ [ImportNext]_importVars => ImportInv'
  BY ImportStepKeeps
<1>3. QED
  BY <1>1, <1>2, PTL DEF ImportSpec

\* For any number of writes, failures and restarts and any batch size: the
\* stored generation is the beginning of a content the file has had, and its
\* cursor and hash are those of its last record.
THEOREM RecordsFaithful ==
  ASSUME ImportSetting
  PROVE  ImportSpec => []RecordsAreFaithful
<1>1. ASSUME ImportInv PROVE RecordsAreFaithful
  <2>1. /\ row.recs \in Seq(Nat) /\ row.cursor = Len(row.recs) /\ versions \subseteq Seq(Nat)
        /\ row.cursor > 0 => row.hash = row.recs[row.cursor]
    BY <1>1, Zenon DEF ImportInv, ImportTypes, Stored, Contents, LedgerRow
  <2>2. PICK v \in versions : Begins(row.recs, v)
    BY <1>1, Zenon DEF ImportInv, Stored
  <2>3. \E n \in 0..Len(v) : row.recs = SubSeq(v, 1, n)
    <3>1. v \in Seq(Nat) /\ Len(v) \in Nat /\ Len(row.recs) \in Nat /\ Len(row.recs) <= Len(v)
      BY <2>1, <2>2, LenProperties, Zenon DEF Begins
    <3> DEFINE s == SubSeq(v, 0 + 1, Len(row.recs))
    <3>2. /\ s \in Seq(Nat) /\ Len(s) = Len(row.recs) - 0
          /\ \A k \in 1..Len(s) : s[k] = v[0 + k]
      <4>1. 0 \in Nat /\ 0 <= Len(row.recs)
        BY <3>1
      <4>2. QED
        BY <3>1, <4>1, Piece, Zenon
    <3>3. s = SubSeq(v, 1, Len(row.recs))
      OBVIOUS
    <3> HIDE DEF s
    <3>4. Len(s) = Len(row.recs) /\ \A k \in 1..Len(s) : s[k] = row.recs[k]
      <4>1. Len(row.recs) - 0 = Len(row.recs) /\ \A k \in 1..Len(row.recs) : 0 + k = k
        BY <3>1
      <4>2. Len(s) = Len(row.recs) /\ \A k \in 1..Len(row.recs) : s[k] = v[k]
        BY <3>2, <4>1, Zenon
      <4>3. QED
        BY <2>2, <4>2, Zenon DEF Begins
    <3>5. s = row.recs
      BY <2>1, <3>2, <3>4, SeqEqual, Zenon
    <3>6. Len(row.recs) \in 0..Len(v)
      BY <3>1
    <3>7. QED
      BY <3>3, <3>5, <3>6, Zenon
  <2>4. QED
    BY <2>1, <2>3, Zenon DEF RecordsAreFaithful
<1>2. QED
  BY <1>1, ImportInvariant, PTL

\* Under the same conditions a request that came after the last write has its
\* lines stored once the path is free again, whatever it was coalesced into.
THEOREM NoticedImported ==
  ASSUME ImportSetting
  PROVE  ImportSpec => []NoticedIsImported
<1>1. ASSUME ImportInv PROVE NoticedIsImported
  BY <1>1, Zenon DEF ImportInv, Noticed, OneImport, NoticedIsImported
<1>2. QED
  BY <1>1, ImportInvariant, PTL
=============================================================================
