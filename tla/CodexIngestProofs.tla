------------------------- MODULE CodexIngestProofs -------------------------
(***************************************************************************)
(* Proofs about CodexIngest for any set of paths and records, any bounds   *)
(* and any behaviour of the native tool; and, for tools that only append   *)
(* or never replace a file, what a replayed import makes of a line.        *)
(***************************************************************************)
EXTENDS CodexIngest, TLAPS

\* A generation's lines below n are all stored.
Backed(g, n) == \A i \in 0 .. n - 1 : \E row \in rows : row.gen = g /\ row.offset = i

\* Why a commit cannot leave a hole: the chunk in hand starts at a line below
\* which its own generation is stored already.
JobSound == pc = "prepared" => job.next = job.start /\ Backed(job.gen, job.start)

IInv == TypeOK /\ CursorBacked /\ BlobBacked /\ EvidenceMatches /\ JobSound

-----------------------------------------------------------------------------
(***************************************************************************)
(* Types.                                                                  *)
(***************************************************************************)
LEMMA NoJobType == NoJob \in Job
  BY CodexAssumption DEF NoJob, Job, Maybe, Generation

\* A path that has a file has a typed one.
LEMMA FileOf ==
  ASSUME TypeOK, NEW p \in Paths, fs[p] # None
  PROVE  /\ fs[p] \in File
         /\ fs[p].ino \in Nat /\ fs[p].lines \in Seq(Record) /\ fs[p].tail \in Maybe(Record)
         /\ Len(fs[p].lines) \in Nat
  BY DEF TypeOK, Maybe, File

\* A source that has a cursor has a typed one.
LEMMA CursorAt ==
  ASSUME TypeOK, NEW p \in Paths, cursors[p] # None
  PROVE  /\ cursors[p] \in Cursor
         /\ cursors[p].offset \in Nat /\ cursors[p].next \in Nat
         /\ cursors[p].gen \in Generation
  BY DEF TypeOK, Maybe, Cursor

\* What is left after the first n lines is a sequence of records, the shorter
\* by n.
LEMMA DropType ==
  ASSUME NEW s \in Seq(Record), NEW n \in Nat
  PROVE  Drop(s, n) \in Seq(Record)
  BY DEF Drop

\* What the transaction writes has the types of its tables.
LEMMA BatchType ==
  ASSUME TypeOK, pc # "idle"
  PROVE  /\ RawOf(job) \subseteq Row
         /\ EventsOf(job) \subseteq Event
         /\ CursorOf(job) \in Cursor
  <1>1. /\ job.gen \in Generation /\ job.start \in Nat /\ job.next \in Nat
        /\ job.chunk \in Seq(Record) /\ job.rest \in Maybe(Record)
        /\ version \in Nat
    BY DEF TypeOK, Job
  <1>2. \A i \in DOMAIN job.chunk : i \in Nat \ {0} /\ job.chunk[i] \in Record
    BY <1>1
  <1>3. Len(job.chunk) \in Nat
    BY <1>1
  <1>4. RawOf(job) \subseteq Row
    BY <1>1, <1>2 DEF RawOf, Row
  <1>5. EventsOf(job) \subseteq Event
    BY <1>1, <1>2 DEF EventsOf, Event, SessionOf
  <1>6. CursorOf(job) \in Cursor
    BY <1>1, <1>3 DEF CursorOf, Cursor
  <1> QED BY <1>4, <1>5, <1>6

\* The part of TypeOK the native tool can disturb.
NativeType ==
  /\ fs \in [Paths -> Maybe(File)]
  /\ inodes \in Nat /\ edits \in Nat
  /\ written \subseteq Nat \X Nat \X Record

\* The native tool keeps the types.
LEMMA WriterType == TypeOK /\ Writer => TypeOK'
  <1> SUFFICES ASSUME TypeOK, Writer PROVE TypeOK'
    OBVIOUS
  <1>0. UNCHANGED <<durableVars, taskVars, version, faults>>
    BY DEF Writer
  <1>1. SUFFICES NativeType'
    BY <1>0 DEF TypeOK, NativeType, durableVars, taskVars
  <1>2. PICK p \in Paths :
          \/ \E r \in Record : AppendLine(p, r) \/ AppendPart(p, r)
          \/ FinishLine(p)
          \/ \E q \in Paths : Rename(p, q)
          \/ Replace(p)
          \/ \E n \in 0 .. MaxLines : Truncate(p, n)
    BY DEF Writer
  <1>0b. /\ fs \in [Paths -> Maybe(File)] /\ NativeType
    BY DEF TypeOK, NativeType
  <1>3. ASSUME NEW r \in Record, AppendLine(p, r) PROVE NativeType'
    <2>1. /\ fs[p] \in File /\ fs[p].ino \in Nat
          /\ fs[p].lines \in Seq(Record) /\ Len(fs[p].lines) \in Nat
      BY <1>3, FileOf DEF AppendLine
    <2>2. Append(fs[p].lines, r) \in Seq(Record)
      BY <2>1
    <2>3. [fs[p] EXCEPT !.lines = Append(@, r)] \in File
      BY <2>1, <2>2 DEF File
    <2>4. fs' \in [Paths -> Maybe(File)]
      BY <1>0b, <1>3, <2>3 DEF AppendLine, Maybe
    <2> QED BY <1>0b, <1>3, <2>1, <2>4 DEF AppendLine, NativeType
  <1>4. ASSUME NEW r \in Record, AppendPart(p, r) PROVE NativeType'
    <2>1. fs[p] \in File
      BY <1>4, FileOf DEF AppendPart
    <2>2. [fs[p] EXCEPT !.tail = r] \in File
      BY <2>1 DEF File, Maybe
    <2> QED BY <1>0b, <1>4, <2>2 DEF AppendPart, Maybe, NativeType
  <1>5. CASE FinishLine(p)
    <2>1. /\ fs[p] \in File /\ fs[p].ino \in Nat /\ fs[p].tail \in Record
          /\ fs[p].lines \in Seq(Record) /\ Len(fs[p].lines) \in Nat
      BY <1>5, FileOf DEF FinishLine, Maybe
    <2>2. Append(fs[p].lines, fs[p].tail) \in Seq(Record)
      BY <2>1
    <2>3. [fs[p] EXCEPT !.lines = Append(@, fs[p].tail), !.tail = None] \in File
      BY <2>1, <2>2 DEF File, Maybe
    <2>4. fs' \in [Paths -> Maybe(File)]
      BY <1>0b, <1>5, <2>3 DEF FinishLine, Maybe
    <2> QED BY <1>0b, <1>5, <2>1, <2>4 DEF FinishLine, NativeType
  <1>6. ASSUME NEW q \in Paths, Rename(p, q) PROVE NativeType'
    BY <1>0b, <1>6 DEF Rename, Maybe, NativeType
  <1>7. CASE Replace(p)
    <2>1. NewFile(inodes + 1) \in File
      BY <1>0b DEF NativeType, NewFile, File, Maybe
    <2> QED BY <1>0b, <1>7, <2>1 DEF Replace, Maybe, NativeType
  <1>8. ASSUME NEW n \in 0 .. MaxLines, Truncate(p, n) PROVE NativeType'
    <2>1. /\ fs[p] \in File /\ fs[p].lines \in Seq(Record) /\ n \in Nat
          /\ Len(fs[p].lines) \in Nat
      BY <1>8, FileOf, CodexAssumption DEF Truncate
    <2>2. SubSeq(fs[p].lines, 1, n) \in Seq(Record)
      BY <2>1, <1>8 DEF Truncate
    <2>3. [fs[p] EXCEPT !.lines = SubSeq(@, 1, n), !.tail = None] \in File
      BY <2>1, <2>2 DEF File, Maybe
    <2> QED BY <1>0b, <1>8, <2>3 DEF Truncate, Maybe, NativeType
  <1> QED BY <1>2, <1>3, <1>4, <1>5, <1>6, <1>7, <1>8

\* resume_position answers with natural numbers.
LEMMA ResumeType ==
  ASSUME TypeOK, NEW p \in Paths, NEW g, NEW n \in Nat
  PROVE  LET at == ResumePosition(cursors[p], g, n)
         IN  at.start \in Nat /\ at.next \in Nat
  BY CursorAt DEF ResumePosition

\* Every step of the ingestion task, and every fault, keeps the types.
LEMMA TaskType == TypeOK /\ (Scan \/ Fault) => TypeOK'
  <1> SUFFICES ASSUME TypeOK, Scan \/ Fault PROVE TypeOK'
    OBVIOUS
  <1>0. /\ UNCHANGED nativeVars
        /\ NoJob \in Job
        /\ pc # "idle" => job.path \in Paths /\ job \in Job
    BY NoJobType DEF Scan, Fault, TypeOK
  <1>1. ASSUME NEW p \in Paths, Stamp(p), UNCHANGED <<version, faults>> PROVE TypeOK'
    <2>1. fs[p] \in File
      BY <1>1, FileOf DEF Stamp
    <2>2. [NoJob EXCEPT !.path = p, !.stamp = fs[p]] \in Job
      BY <1>0, <2>1 DEF Job, Maybe
    <2>3. [NoJob EXCEPT !.path = p, !.stamp = fs[p]].path = p
      BY DEF NoJob
    <2> QED BY <1>0, <1>1, <2>2, <2>3
        DEF Stamp, TypeOK, nativeVars, durableVars, PcValues
  <1>2. CASE Examine /\ UNCHANGED <<version, faults>>
    <2>1. AtPath \in File /\ AtPath.ino \in Nat /\ Len(AtPath.lines) \in Nat
      BY <1>0, <1>2, FileOf DEF Examine, AtPath
    <2>2. job' \in Job /\ job'.path = job.path
      BY <1>0, <1>2, <2>1 DEF Examine, Job
    <2> QED BY <1>0, <1>2, <2>2 DEF Examine, TypeOK, nativeVars, durableVars, PcValues
  <1>3. CASE ReadGeneration /\ UNCHANGED <<version, faults>>
    <2>1. AtPath \in File /\ AtPath.lines \in Seq(Record)
      BY <1>0, <1>3, FileOf DEF ReadGeneration, AtPath
    <2>2. FirstLine(AtPath) \in Maybe(Record)
      BY <2>1 DEF FirstLine, Maybe
    <2>3. job.ino \in Nat
      BY <1>0, <1>3 DEF ReadGeneration, Job
    <2>4. SourceGeneration(job.ino, AtPath) \in Generation
      BY <2>2, <2>3 DEF SourceGeneration, Generation
    <2>5. job' \in Job /\ job'.path = job.path
      BY <1>0, <1>3, <2>4 DEF ReadGeneration, Job
    <2> QED BY <1>0, <1>3, <2>5 DEF ReadGeneration, TypeOK, nativeVars, durableVars, PcValues
  <1>4. CASE ReadBytes /\ UNCHANGED <<version, faults>>
    <2> DEFINE at == ResumePosition(cursors[job.path], job.gen, job.size)
    <2>1. /\ AtPath \in File /\ AtPath.lines \in Seq(Record)
          /\ AtPath.tail \in Maybe(Record)
      BY <1>0, <1>4, FileOf DEF ReadBytes, AtPath
    <2>2. job.path \in Paths /\ job.size \in Nat
      BY <1>0, <1>4 DEF ReadBytes, Job
    <2>3. at.start \in Nat /\ at.next \in Nat
      BY <2>2, ResumeType
    <2>4. /\ Drop(AtPath.lines, at.start) \in Seq(Record)
          /\ ReadRest(AtPath, at.start) \in Maybe(Record)
      BY <2>1, <2>3, DropType DEF ReadRest, Maybe
    <2>5. job' \in Job /\ job'.path = job.path
      <3> HIDE DEF at
      <3>1. \/ job' = job
            \/ job' = [job EXCEPT !.start = at.start, !.next = at.next,
                                  !.chunk = Drop(AtPath.lines, at.start),
                                  !.rest = ReadRest(AtPath, at.start)]
        BY <1>4 DEF ReadBytes, at
      <3> QED BY <1>0, <1>4, <2>3, <2>4, <3>1 DEF ReadBytes, Job
    <2>6. pc' \in PcValues /\ pc' # "idle" /\ UNCHANGED <<durableVars, remembered>>
      BY <1>4 DEF ReadBytes, PcValues
    <2> QED BY <1>0, <1>4, <2>2, <2>5, <2>6 DEF TypeOK, nativeVars, durableVars
  <1>5. CASE ReadAgain /\ UNCHANGED <<version, faults>>
    <2>1. AtPath \in File /\ AtPath.lines \in Seq(Record) /\ AtPath.tail \in Maybe(Record)
      BY <1>0, <1>5, FileOf DEF ReadAgain, AtPath
    <2>2. job' \in Job /\ job'.path = job.path
      BY <1>0, <1>5, <2>1 DEF ReadAgain, Job
    <2> QED BY <1>0, <1>5, <2>2 DEF ReadAgain, TypeOK, nativeVars, durableVars, PcValues
  <1>6. CASE PutBlob /\ UNCHANGED <<version, faults>>
    <2>1. Missing \subseteq Record
      BY <1>0, <1>6 DEF PutBlob, Missing, Job
    <2> QED BY <1>0, <1>6, <2>1 DEF PutBlob, TypeOK, nativeVars
  <1>7. CASE Commit /\ UNCHANGED <<version, faults>>
    <2>1. /\ RawOf(job) \subseteq Row /\ EventsOf(job) \subseteq Event
          /\ CursorOf(job) \in Cursor
      BY <1>7, BatchType DEF Commit
    <2>2. NewRows(RawOf(job)) \subseteq Row
      BY <2>1 DEF NewRows
    <2> QED BY <1>0, <1>7, <2>1, <2>2 DEF Commit, TypeOK, nativeVars, Maybe, PcValues
  <1>8. CASE CommitRefused /\ UNCHANGED <<version, faults>>
    BY <1>0, <1>8 DEF CommitRefused, TypeOK, nativeVars, durableVars, PcValues
  <1>9. CASE Remember /\ UNCHANGED <<version, faults>>
    <2>1. job.path \in Paths /\ job.stamp \in Maybe(File)
      BY <1>0, <1>9 DEF Remember, Job
    <2> QED BY <1>0, <1>9, <2>1 DEF Remember, TypeOK, nativeVars, durableVars, PcValues
  <1>10. CASE Vanished /\ UNCHANGED <<version, faults>>
    BY <1>0, <1>10 DEF Vanished, TypeOK, nativeVars, durableVars, PcValues
  <1>11. CASE IoError
    BY <1>0, <1>11 DEF IoError, TypeOK, nativeVars, durableVars, PcValues
  <1>12. CASE Restart
    <2>1. version' \in Nat
      BY <1>12, CodexAssumption DEF Restart, TypeOK
    <2> QED BY <1>0, <1>12, <2>1 DEF Restart, TypeOK, nativeVars, durableVars, PcValues, Maybe
  <1> QED BY <1>1, <1>2, <1>3, <1>4, <1>5, <1>6, <1>7, <1>8, <1>9, <1>10, <1>11, <1>12
      DEF Scan, Fault, Ingest

-----------------------------------------------------------------------------
(***************************************************************************)
(* The invariant.                                                          *)
(***************************************************************************)
LEMMA InitIInv == Init => IInv
  <1> SUFFICES ASSUME Init PROVE IInv
    OBVIOUS
  <1>1. PICK p \in Paths : fs = [q \in Paths |-> IF q = p THEN NewFile(1) ELSE None]
    BY DEF Init
  <1>2. NewFile(1) \in File
    BY DEF NewFile, File, Maybe
  <1>3. fs \in [Paths -> Maybe(File)]
    BY <1>1, <1>2 DEF Maybe
  <1>4. TypeOK
    BY <1>3, NoJobType DEF Init, TypeOK, Maybe, PcValues
  <1>5. CursorBacked /\ BlobBacked /\ EvidenceMatches /\ JobSound
    BY DEF Init, CursorBacked, BlobBacked, EvidenceMatches, JobSound
  <1> QED BY <1>4, <1>5 DEF IInv

\* Steps that write nothing durable and do not arrive at "prepared".
LEMMA QuietStep ==
  ASSUME IInv, TypeOK', UNCHANGED durableVars,
         pc' # "prepared" \/ UNCHANGED <<pc, job>>
  PROVE  IInv'
  BY DEF IInv, durableVars, CursorBacked, BlobBacked, EvidenceMatches, JobSound, Backed

\* Reading the file leaves a sound job: either it starts at line zero, or at
\* the boundary of a cursor of the same generation.
LEMMA ReadStep ==
  ASSUME IInv, TypeOK', ReadBytes \/ ReadAgain
  PROVE  IInv'
  <1>1. UNCHANGED durableVars
    BY DEF ReadBytes, ReadAgain
  <1>2. CursorBacked' /\ BlobBacked' /\ EvidenceMatches'
    BY <1>1 DEF IInv, durableVars, CursorBacked, BlobBacked, EvidenceMatches
  <1>3. rows' = rows /\ cursors' = cursors
    BY <1>1 DEF durableVars
  <1>4. ASSUME pc' = "prepared" PROVE job'.next = job'.start /\ Backed(job'.gen, job'.start)
    <2>1. CASE ReadAgain
      <3>1. job'.start = 0 /\ job'.next = 0
        BY <2>1 DEF ReadAgain, IInv, TypeOK, Job
      <3> QED BY <3>1 DEF Backed
    <2>2. CASE ReadBytes
      <3> DEFINE prior == cursors[job.path]
                 at == ResumePosition(prior, job.gen, job.size)
      <3>1. job.path \in Paths /\ job \in Job
        BY <2>2 DEF ReadBytes, IInv, TypeOK
      <3>2. job'.start = at.start /\ job'.next = at.next /\ job'.gen = job.gen
        BY <1>4, <2>2, <3>1 DEF ReadBytes, Job
      <3>3. CASE at = [start |-> 0, next |-> 0, reset |-> TRUE]
        BY <3>2, <3>3 DEF Backed
      <3>4. CASE /\ prior # None /\ prior.gen = job.gen
                 /\ at = [start |-> prior.offset, next |-> prior.next, reset |-> FALSE]
        <4>1. Backed(job.gen, prior.offset) /\ prior.next = prior.offset
          BY <3>1, <3>4 DEF IInv, CursorBacked, Backed
        <4> QED BY <3>2, <3>4, <4>1
      <3> QED BY <3>3, <3>4 DEF ResumePosition
    <2> QED BY <2>1, <2>2
  <1>5. JobSound'
    BY <1>3, <1>4 DEF JobSound, Backed
  <1> QED BY <1>2, <1>5 DEF IInv

\* A batch covers every line it read, whether its raw object was there or not.
LEMMA RawStored ==
  ASSUME NEW raw \in RawOf(job), rows' = rows \cup NewRows(RawOf(job))
  PROVE  \E row \in rows' : /\ row.gen = raw.gen /\ row.offset = raw.offset
                            /\ row.rec = raw.rec
  BY DEF NewRows

\* The transaction of commit_batch keeps the invariant: the only step that
\* moves a cursor.
LEMMA CommitStep ==
  ASSUME IInv, TypeOK', Commit
  PROVE  IInv'
  <1>1. /\ pc = "prepared" /\ job \in Job /\ job.path \in Paths
        /\ rows' = rows \cup NewRows(RawOf(job))
        /\ events' = events \cup EventsOf(job)
        /\ cursors' = [cursors EXCEPT ![job.path] = CursorOf(job)]
        /\ blobs' = blobs /\ pc' = "committed"
        /\ cursors \in [Paths -> Maybe(Cursor)]
    BY DEF Commit, IInv, TypeOK
  <1>2. /\ job.start \in Nat /\ job.next \in Nat /\ job.chunk \in Seq(Record)
        /\ Len(job.chunk) \in Nat /\ DOMAIN job.chunk = 1 .. Len(job.chunk)
    BY <1>1 DEF Job
  <1>3. job.next = job.start /\ Backed(job.gen, job.start)
    BY <1>1 DEF IInv, JobSound
  <1>4. CursorBacked'
    <2> SUFFICES ASSUME NEW p \in Paths, cursors'[p] # None
                 PROVE  /\ cursors'[p].next = cursors'[p].offset
                        /\ \A i \in 0 .. cursors'[p].offset - 1 :
                             \E row \in rows' : row.gen = cursors'[p].gen /\ row.offset = i
      BY DEF CursorBacked
    <2>1. CASE p # job.path
      BY <1>1, <2>1 DEF IInv, CursorBacked
    <2>2. CASE p = job.path
      <3>1. cursors'[p] = CursorOf(job)
        BY <1>1, <2>2
      <3>2. /\ cursors'[p].gen = job.gen
            /\ cursors'[p].offset = job.start + Len(job.chunk)
            /\ cursors'[p].next = job.next + Len(job.chunk)
        BY <3>1 DEF CursorOf
      <3>3. ASSUME NEW i \in 0 .. (job.start + Len(job.chunk)) - 1
            PROVE  \E row \in rows' : row.gen = job.gen /\ row.offset = i
        <4>1. CASE i < job.start
          BY <1>1, <1>2, <1>3, <4>1 DEF Backed
        <4>2. CASE i >= job.start
          <5> DEFINE k == i - job.start + 1
                     raw == [gen |-> job.gen, offset |-> job.start + k - 1,
                             rec |-> job.chunk[k], ver |-> version]
          <5>1. k \in DOMAIN job.chunk /\ job.start + k - 1 = i
            BY <1>2, <3>3, <4>2
          <5>2. raw \in RawOf(job)
            BY <5>1 DEF RawOf
          <5>3. raw.gen = job.gen /\ raw.offset = i
            BY <5>1
          <5> HIDE DEF raw
          <5> QED BY <1>1, <5>2, <5>3, RawStored
        <4> QED BY <1>2, <3>3, <4>1, <4>2
      <3> QED BY <1>2, <1>3, <3>2, <3>3
    <2> QED BY <2>1, <2>2
  <1>5. BlobBacked'
    <2>1. \A i \in DOMAIN job.chunk : job.chunk[i] \in blobs
      BY DEF Commit, Missing
    <2>2. \A raw \in RawOf(job) : raw.rec \in blobs
      BY <2>1 DEF RawOf
    <2>3. \A row \in NewRows(RawOf(job)) : row.rec \in blobs
      BY <2>2 DEF NewRows
    <2> QED BY <1>1, <2>3 DEF IInv, BlobBacked
  <1>6. ASSUME NEW e \in events'
        PROVE  \E row \in rows' : row.gen = e.gen /\ row.offset = e.offset /\ row.rec = e.rec
    <2>1. CASE e \in events
      BY <1>1, <2>1 DEF IInv, EvidenceMatches
    <2>2. CASE e \in EventsOf(job)
      <3>1. PICK i \in DOMAIN job.chunk :
              e.gen = job.gen /\ e.offset = job.start + i - 1 /\ e.rec = job.chunk[i]
        BY <2>2 DEF EventsOf
      <3> DEFINE raw == [gen |-> job.gen, offset |-> job.start + i - 1,
                         rec |-> job.chunk[i], ver |-> version]
      <3>2. raw \in RawOf(job) /\ raw.gen = e.gen /\ raw.offset = e.offset /\ raw.rec = e.rec
        BY <3>1 DEF RawOf
      <3> HIDE DEF raw
      <3> QED BY <1>1, <3>2, RawStored
    <2> QED BY <1>1, <1>6, <2>1, <2>2
  <1>7. ASSUME NEW row \in rows', row.rec \notin Malformed
        PROVE  \E e \in events' : row.gen = e.gen /\ row.offset = e.offset /\ row.rec = e.rec
    <2>1. CASE row \in rows
      BY <1>1, <1>7, <2>1 DEF IInv, EvidenceMatches
    <2>2. CASE row \in RawOf(job)
      <3>1. PICK i \in DOMAIN job.chunk :
              row = [gen |-> job.gen, offset |-> job.start + i - 1,
                     rec |-> job.chunk[i], ver |-> version]
        BY <2>2 DEF RawOf
      <3> DEFINE e == [gen |-> job.gen, offset |-> job.start + i - 1,
                       rec |-> job.chunk[i], seq |-> job.next + i - 1,
                       session |-> SessionOf(job.chunk, i)]
      <3>2. e \in EventsOf(job)
        BY <1>7, <3>1 DEF EventsOf
      <3>3. row.gen = e.gen /\ row.offset = e.offset /\ row.rec = e.rec
        BY <3>1
      <3> HIDE DEF e
      <3> QED BY <1>1, <3>2, <3>3
    <2> QED BY <1>1, <1>7, <2>1, <2>2 DEF NewRows
  <1>8. JobSound'
    BY <1>1 DEF JobSound
  <1> QED BY <1>4, <1>5, <1>6, <1>7, <1>8 DEF IInv, EvidenceMatches

\* The strengthened invariant is inductive.
LEMMA NextIInv == IInv /\ [Next]_vars => IInv'
  <1> SUFFICES ASSUME IInv, [Next]_vars PROVE IInv'
    OBVIOUS
  <1> USE DEF IInv
  <1>1. CASE UNCHANGED vars
    <2>1. TypeOK'
      BY <1>1 DEF vars, nativeVars, durableVars, taskVars, TypeOK
    <2> QED BY <1>1, <2>1, QuietStep DEF vars, taskVars
  <1>2. CASE Writer
    <2>1. TypeOK'
      BY <1>2, WriterType
    <2> QED BY <1>2, <2>1, QuietStep DEF Writer, taskVars
  <1>3. CASE Scan
    <2>1. TypeOK'
      BY <1>3, TaskType
    <2>2. CASE \E p \in Paths : Stamp(p)
      BY <2>1, <2>2, QuietStep DEF Stamp
    <2>3. CASE Examine \/ ReadGeneration \/ CommitRefused \/ Remember \/ Vanished
      BY <2>1, <2>3, QuietStep
         DEF Examine, ReadGeneration, CommitRefused, Remember, Vanished
    <2>4. CASE ReadBytes \/ ReadAgain
      BY <2>1, <2>4, ReadStep
    <2>5. CASE PutBlob
      BY <2>1, <2>5
         DEF PutBlob, CursorBacked, BlobBacked, EvidenceMatches, JobSound, Backed
    <2>6. CASE Commit
      BY <2>1, <2>6, CommitStep
    <2> QED BY <1>3, <2>2, <2>3, <2>4, <2>5, <2>6 DEF Scan, Ingest
  <1>4. CASE Fault
    <2>1. TypeOK'
      BY <1>4, TaskType
    <2> QED BY <1>4, <2>1, QuietStep DEF Fault, IoError, Restart
  <1> QED BY <1>1, <1>2, <1>3, <1>4 DEF Next

\* The strengthened invariant holds in every state the import can reach.
LEMMA Invariance == Spec => []IInv
  BY InitIInv, NextIInv, PTL DEF Spec

-----------------------------------------------------------------------------
(***************************************************************************)
(* The theorems.                                                           *)
(***************************************************************************)

\* Every variable of the import keeps its type under any writer and fault.
THEOREM TypeCorrect == Spec => []TypeOK
  <1>1. IInv => TypeOK
    BY DEF IInv
  <1> QED BY <1>1, Invariance, PTL

\* Recorded progress never passes the stored records (incremental.rs,
\* commit_batch), for every writer, every interleaving and every restart.
THEOREM ProgressIsBacked == Spec => []CursorBacked
  <1>1. IInv => CursorBacked
    BY DEF IInv
  <1> QED BY <1>1, Invariance, PTL

\* No committed raw object misses its blob (commit_batch).
THEOREM BlobsPrecedeRows == Spec => []BlobBacked
  <1>1. IInv => BlobBacked
    BY DEF IInv
  <1> QED BY <1>1, Invariance, PTL

\* Raw objects and events always match (commit_batch, insert_raw, insert_event).
THEOREM EvidenceIsComplete == Spec => []EvidenceMatches
  <1>1. IInv => EvidenceMatches
    BY DEF IInv
  <1> QED BY <1>1, Invariance, PTL

-----------------------------------------------------------------------------
(***************************************************************************)
(* CodexIngest implements IngestLedger.                                    *)
(***************************************************************************)
Stored == { <<row.gen, row.offset>> : row \in rows }

Mark == [p \in Paths |-> IF cursors[p] = None THEN None
                         ELSE <<cursors[p].gen, cursors[p].offset>>]

\* An empty database is an empty ledger.
LEMMA LedgerInit == Init => Ledger!Init
  BY DEF Init, Ledger!Init

\* A step that writes neither rows nor cursors is a stutter of the ledger.
LEMMA LedgerStutter == UNCHANGED <<rows, cursors>> => UNCHANGED Ledger!vars
  BY DEF Ledger!vars

\* A commit is one batch of the ledger.
LEMMA LedgerCommit ==
  ASSUME IInv, IInv', Commit
  PROVE  Ledger!Advance(job.path)
  <1>1. /\ job.path \in Paths
        /\ rows' = rows \cup NewRows(RawOf(job))
        /\ cursors' = [cursors EXCEPT ![job.path] = CursorOf(job)]
        /\ cursors \in [Paths -> Maybe(Cursor)]
    BY DEF Commit, IInv, TypeOK
  <1>2. Stored \subseteq Stored'
    BY <1>1 DEF Stored
  <1>3. \A q \in Paths \ {job.path} : Mark'[q] = Mark[q]
    BY <1>1 DEF Mark
  <1>4. cursors'[job.path] = CursorOf(job)
    BY <1>1
  <1>5. CursorOf(job) \in Cursor /\ CursorOf(job) # None
    BY BatchType, NoneAssumption DEF IInv, Commit
  <1>6. Mark'[job.path] = <<CursorOf(job).gen, CursorOf(job).offset>>
    BY <1>1, <1>4, <1>5 DEF Mark
  <1>7. Mark'[job.path] # None
    BY <1>5, <1>6, NoneAssumption DEF Cursor
  <1>8. Ledger!Covered(Mark'[job.path], Stored')
    <2>1. \A i \in 0 .. CursorOf(job).offset - 1 :
            \E row \in rows' : row.gen = CursorOf(job).gen /\ row.offset = i
      BY <1>1, <1>4, <1>5 DEF IInv, CursorBacked
    <2>2. \A i \in 0 .. CursorOf(job).offset - 1 : <<CursorOf(job).gen, i>> \in Stored'
      BY <2>1 DEF Stored
    <2> QED BY <1>6, <2>2 DEF Ledger!Covered
  <1> QED BY <1>2, <1>3, <1>7, <1>8 DEF Ledger!Advance, Stored, Mark

\* Every step of the import is a step of the ledger or leaves it alone.
THEOREM ImplementsLedger == Spec => LedgerSpec
  <1>1. IInv /\ IInv' /\ [Next]_vars => [Ledger!Next]_(Ledger!vars)
    <2> SUFFICES ASSUME IInv, IInv', [Next]_vars PROVE [Ledger!Next]_(Ledger!vars)
      OBVIOUS
    <2>1. CASE Commit
      <3>1. job.path \in Paths
        BY <2>1 DEF Commit, IInv, TypeOK
      <3>2. Ledger!Advance(job.path)
        BY <2>1, LedgerCommit
      <3>3. Ledger!Next
        BY <3>1, <3>2 DEF Ledger!Next, Ledger!Advance
      <3> QED BY <3>3
    <2>2. CASE UNCHANGED <<rows, cursors>>
      BY <2>2, LedgerStutter
    <2>3. Commit \/ UNCHANGED <<rows, cursors>>
      BY DEF Next, vars, durableVars, Writer, Scan, Ingest, Fault, Stamp, Examine,
             ReadGeneration, ReadBytes, ReadAgain, PutBlob, CommitRefused, Remember,
             Vanished, IoError, Restart
    <2> QED BY <2>1, <2>2, <2>3
  <1> QED BY <1>1, LedgerInit, Invariance, PTL DEF Spec, LedgerSpec, Ledger!Spec

-----------------------------------------------------------------------------
(***************************************************************************)
(* A well-behaved native tool: a raw record tells the truth about a file   *)
(* that is never replaced, and a file that is only appended to is          *)
(* interpreted once.  Section 4 of the README has a counterexample for     *)
(* each kind of write that the assumptions exclude.                        *)
(***************************************************************************)
\* The lines left after the first n are those lines, in order.
LEMMA DropAt ==
  ASSUME NEW s \in Seq(Record), NEW n \in Nat
  PROVE  /\ \A i \in DOMAIN Drop(s, n) : /\ i \in Nat \ {0}
                                         /\ n + i \in DOMAIN s
                                         /\ Drop(s, n)[i] = s[n + i]
         /\ n <= Len(s) => n + Len(Drop(s, n)) = Len(s)
  BY DEF Drop

-----------------------------------------------------------------------------
(***************************************************************************)
(* A tool that never puts another file in the place of one.                *)
(***************************************************************************)

\* There is one file, and its lines are what it was written with.
OneFile ==
  /\ inodes = 1
  /\ \A p \in Paths : fs[p] # None =>
       /\ fs[p].ino = 1
       /\ \A i \in DOMAIN fs[p].lines : <<1, i - 1, fs[p].lines[i]>> \in written

\* Whatever the job holds, it holds of that file, at the offset it read it.
ReadFromIt ==
  /\ pc \in {"examined", "identified", "mismatched", "prepared"} => job.ino = 1
  /\ pc \in {"identified", "mismatched", "prepared"} => job.gen[1] = 1
  /\ pc = "prepared" =>
       \A i \in DOMAIN job.chunk : <<1, job.start + i - 1, job.chunk[i]>> \in written

AInv == OneFile /\ ReadFromIt /\ RowAuthentic

LEMMA InitAInv == Init => AInv
  BY DEF Init, AInv, OneFile, ReadFromIt, RowAuthentic, NewFile

\* What was written stays written, so only the file itself is to be looked at.
LEMMA WriterAInv ==
  ASSUME "replace" \notin WriterOps, TypeOK, AInv, Writer
  PROVE  AInv'
  <1>0. UNCHANGED <<durableVars, taskVars>>
    BY DEF Writer
  <1>1. PICK p \in Paths :
          \/ \E r \in Record : AppendLine(p, r) \/ AppendPart(p, r)
          \/ FinishLine(p)
          \/ \E q \in Paths : Rename(p, q)
          \/ Replace(p)
          \/ \E n \in 0 .. MaxLines : Truncate(p, n)
    BY DEF Writer
  <1>2. written \subseteq written' /\ inodes' = inodes
    BY <1>1 DEF AppendLine, AppendPart, FinishLine, Rename, Replace, Truncate
  <1>3. ReadFromIt' /\ RowAuthentic'
    BY <1>0, <1>2 DEF AInv, ReadFromIt, RowAuthentic, durableVars, taskVars
  <1>4. fs \in [Paths -> Maybe(File)] /\ OneFile
    BY DEF TypeOK, AInv
  <1> DEFINE True(f) == /\ f.ino = 1
                        /\ \A i \in DOMAIN f.lines : <<1, i - 1, f.lines[i]>> \in written'
  <1>5. \A q \in Paths : fs[q] # None => True(fs[q])
    BY <1>2, <1>4 DEF OneFile
  <1>6. ASSUME NEW r \in Record,
               \/ AppendLine(p, r)
               \/ FinishLine(p) /\ r = fs[p].tail
        PROVE  OneFile'
    <2>1. /\ fs[p] \in File /\ fs[p].lines \in Seq(Record) /\ fs[p].ino = 1
          /\ Len(fs[p].lines) \in Nat
      BY <1>4, <1>6, FileOf DEF AppendLine, FinishLine, OneFile
    <2>2. /\ fs'[p].ino = fs[p].ino /\ fs'[p].lines = Append(fs[p].lines, r)
          /\ \A q \in Paths \ {p} : fs'[q] = fs[q]
          /\ <<1, Len(fs[p].lines), r>> \in written'
      BY <1>4, <1>6, <2>1 DEF AppendLine, FinishLine, File
    <2>3. \A i \in DOMAIN fs'[p].lines :
            \/ i \in DOMAIN fs[p].lines /\ fs'[p].lines[i] = fs[p].lines[i]
            \/ i - 1 = Len(fs[p].lines) /\ fs'[p].lines[i] = r
      BY <2>1, <2>2
    <2>4. True(fs'[p])
      BY <1>5, <1>6, <2>1, <2>2, <2>3 DEF AppendLine, FinishLine
    <2> QED BY <1>2, <1>4, <1>5, <2>2, <2>4 DEF OneFile
  <1>7. ASSUME NEW r \in Record, AppendPart(p, r)
        PROVE  OneFile'
    <2>1. fs[p] # None /\ fs[p] \in File
      BY <1>7, FileOf DEF AppendPart
    <2>2. /\ fs'[p].ino = fs[p].ino /\ fs'[p].lines = fs[p].lines
          /\ \A q \in Paths \ {p} : fs'[q] = fs[q]
      BY <1>4, <1>7, <2>1 DEF AppendPart, File
    <2> QED BY <1>2, <1>4, <1>5, <2>1, <2>2 DEF OneFile
  <1>8. ASSUME NEW q \in Paths, Rename(p, q)
        PROVE  OneFile'
    <2>1. \A z \in Paths : fs'[z] \in {None, fs[p], fs[z]}
      BY <1>4, <1>8 DEF Rename
    <2>2. \A z \in Paths : fs'[z] # None => True(fs'[z])
      <3> HIDE DEF True
      <3> QED BY <1>5, <2>1
    <2> QED BY <1>2, <1>4, <2>2 DEF OneFile
  <1>9. ASSUME NEW n \in 0 .. MaxLines, Truncate(p, n)
        PROVE  OneFile'
    <2>1. /\ fs[p] # None /\ fs[p] \in File /\ fs[p].lines \in Seq(Record)
          /\ n \in Nat /\ n <= Len(fs[p].lines) /\ Len(fs[p].lines) \in Nat
      BY <1>9, FileOf, CodexAssumption DEF Truncate
    <2>2. /\ fs'[p].ino = fs[p].ino /\ fs'[p].lines = SubSeq(fs[p].lines, 1, n)
          /\ \A q \in Paths \ {p} : fs'[q] = fs[q]
      BY <1>4, <1>9, <2>1 DEF Truncate, File
    <2>3. \A i \in DOMAIN fs'[p].lines :
            i \in DOMAIN fs[p].lines /\ fs'[p].lines[i] = fs[p].lines[i]
      BY <2>1, <2>2
    <2>4. True(fs'[p])
      BY <1>5, <2>1, <2>2, <2>3
    <2> QED BY <1>2, <1>4, <1>5, <2>2, <2>4 DEF OneFile
  <1>10. ASSUME FinishLine(p) PROVE OneFile'
    <2>1. fs[p].tail \in Record
      BY <1>10, FileOf DEF FinishLine, Maybe
    <2> QED BY <1>6, <1>10, <2>1
  <1>11. ~ Replace(p)
    BY DEF Replace
  <1>12. OneFile'
    BY <1>1, <1>6, <1>7, <1>8, <1>9, <1>10, <1>11
  <1> QED BY <1>3, <1>12 DEF AInv

\* Steps that neither write rows nor read the file.
LEMMA QuietAInv ==
  ASSUME AInv, UNCHANGED <<nativeVars, rows>>,
         pc' \in {"idle", "stamped", "committed"} \/ UNCHANGED <<pc, job>>
  PROVE  AInv'
  BY DEF AInv, OneFile, ReadFromIt, RowAuthentic, nativeVars

\* The four reads of the import see the one file.
LEMMA ReadsAInv ==
  ASSUME TypeOK, AInv, UNCHANGED nativeVars,
         Examine \/ ReadGeneration \/ ReadBytes \/ ReadAgain
  PROVE  AInv'
  <1>0. /\ OneFile' /\ RowAuthentic' /\ OneFile /\ ReadFromIt
        /\ written' = written /\ job \in Job
    BY DEF AInv, OneFile, RowAuthentic, nativeVars, TypeOK, Examine, ReadGeneration,
           ReadBytes, ReadAgain, durableVars
  <1>1. /\ job.path \in Paths /\ AtPath # None
        /\ AtPath.lines \in Seq(Record) /\ AtPath.ino = 1
        /\ \A i \in DOMAIN AtPath.lines : <<1, i - 1, AtPath.lines[i]>> \in written
    BY <1>0, FileOf DEF TypeOK, OneFile, AtPath, Examine, ReadGeneration, ReadBytes, ReadAgain
  <1>2. CASE Examine
    BY <1>0, <1>1, <1>2 DEF Examine, ReadFromIt, AInv, Job
  <1>3. CASE ReadGeneration
    <2>1. job'.gen[1] = job.ino /\ job'.ino = job.ino /\ pc' = "identified"
      BY <1>0, <1>3 DEF ReadGeneration, SourceGeneration, Job
    <2> QED BY <1>0, <1>3, <2>1 DEF ReadGeneration, ReadFromIt, AInv
  <1>4. CASE ReadBytes
    <2> DEFINE at == ResumePosition(cursors[job.path], job.gen, job.size)
    <2>1. at.start \in Nat
      BY <1>0, <1>1, ResumeType DEF Job
    <2> HIDE DEF at
    <2>2. \/ pc' = "mismatched" /\ job' = job
          \/ /\ pc' = "prepared" /\ job'.ino = job.ino /\ job'.gen = job.gen
             /\ job'.start = at.start /\ job'.chunk = Drop(AtPath.lines, at.start)
      BY <1>0, <1>4 DEF ReadBytes, at, Job
    <2>3. ASSUME NEW i \in DOMAIN Drop(AtPath.lines, at.start)
          PROVE  <<1, at.start + i - 1, Drop(AtPath.lines, at.start)[i]>> \in written
      <3>1. /\ i \in Nat \ {0} /\ at.start + i \in DOMAIN AtPath.lines
            /\ Drop(AtPath.lines, at.start)[i] = AtPath.lines[at.start + i]
        BY <1>1, <2>1, DropAt
      <3>2. <<1, (at.start + i) - 1, AtPath.lines[at.start + i]>> \in written
        BY <1>1, <3>1
      <3> QED BY <2>1, <3>1, <3>2
    <2>4. pc \in {"identified"}
      BY <1>4 DEF ReadBytes
    <2>5. ReadFromIt'
      BY <1>0, <2>2, <2>3, <2>4 DEF ReadFromIt
    <2> QED BY <1>0, <2>5 DEF AInv
  <1>5. CASE ReadAgain
    <2>1. /\ pc = "mismatched" /\ pc' = "prepared"
          /\ job'.ino = job.ino /\ job'.gen = job.gen
          /\ job'.start = 0 /\ job'.chunk = AtPath.lines
      BY <1>0, <1>5 DEF ReadAgain, Job
    <2>2. \A i \in DOMAIN AtPath.lines : i \in Nat /\ 0 + i - 1 = i - 1
      BY <1>1
    <2> QED BY <1>0, <1>1, <2>1, <2>2 DEF ReadFromIt, AInv
  <1> QED BY <1>2, <1>3, <1>4, <1>5

\* A commit adds only rows of the chunk in hand.
LEMMA CommitAInv ==
  ASSUME AInv, Commit, UNCHANGED nativeVars
  PROVE  AInv'
  <1>1. /\ pc = "prepared" /\ pc' = "committed"
        /\ rows' = rows \cup NewRows(RawOf(job)) /\ written' = written
    BY DEF Commit, nativeVars
  <1>2. ASSUME NEW row \in RawOf(job) PROVE <<row.gen[1], row.offset, row.rec>> \in written
    BY <1>1 DEF RawOf, AInv, ReadFromIt
  <1>3. RowAuthentic'
    BY <1>1, <1>2 DEF RowAuthentic, AInv, NewRows
  <1> QED BY <1>1, <1>3 DEF AInv, OneFile, ReadFromIt, nativeVars

LEMMA NextAInv ==
  ASSUME "replace" \notin WriterOps, TypeOK, AInv, [Next]_vars
  PROVE  AInv'
  <1>1. CASE UNCHANGED vars
    BY <1>1, QuietAInv DEF vars, durableVars, taskVars
  <1>2. CASE Writer
    BY <1>2, WriterAInv
  <1>3. CASE Scan
    <2>0. UNCHANGED nativeVars
      BY <1>3 DEF Scan
    <2>1. CASE Examine \/ ReadGeneration \/ ReadBytes \/ ReadAgain
      BY <2>0, <2>1, ReadsAInv
    <2>2. CASE Commit
      BY <2>0, <2>2, CommitAInv
    <2>3. CASE PutBlob \/ CommitRefused \/ Remember \/ Vanished \/ \E p \in Paths : Stamp(p)
      BY <2>0, <2>3, QuietAInv
         DEF PutBlob, CommitRefused, Remember, Vanished, Stamp, durableVars
    <2> QED BY <1>3, <2>1, <2>2, <2>3 DEF Scan, Ingest
  <1>4. CASE Fault
    BY <1>4, QuietAInv DEF Fault, IoError, Restart, durableVars
  <1> QED BY <1>1, <1>2, <1>3, <1>4 DEF Next

\* If no file is ever replaced by another, every raw record was read from the
\* file its generation names, at its offset (read_after, RawObject), whatever
\* is appended, renamed or truncated between the reads.
THEOREM RowsAreAuthentic ==
  ASSUME "replace" \notin WriterOps
  PROVE  Spec => []RowAuthentic
  <1>1. AInv /\ TypeOK /\ [Next]_vars => AInv'
    BY NextAInv
  <1>2. AInv => RowAuthentic
    BY DEF AInv
  <1> QED BY <1>1, <1>2, InitAInv, TypeCorrect, PTL DEF Spec

-----------------------------------------------------------------------------
(***************************************************************************)
(* A tool that only appends.                                               *)
(***************************************************************************)

\* The one file stays where it is.
OnePlace == \A p, q \in Paths : fs[p] # None /\ fs[q] # None => p = q

\* The generation was taken from this file, maybe before its first line was
\* complete.
Begun(f, gen) ==
  /\ gen[1] = f.ino
  /\ gen[2] # None => f.lines # << >> /\ gen[2] = f.lines[1]

\* A boundary reached in this file: the partial line kept there is still what
\* comes next.
Reached(f, gen, n, partial) ==
  /\ Begun(f, gen)
  /\ n <= Len(f.lines)
  /\ partial # None => BeginsWith(f, n, partial)

Resumable ==
  \A p \in Paths : cursors[p] # None =>
    /\ fs[p] # None
    /\ Reached(fs[p], cursors[p].gen, cursors[p].offset, cursors[p].partial)

\* An event the import will not produce again: it lies below the boundary, or
\* the generation it was read under has ended.
Past(e, cursor) ==
  \/ e.gen = cursor.gen /\ e.offset < cursor.offset
  \/ e.gen[2] = None /\ cursor.gen[2] # None

Interpreted ==
  \A p \in Paths : fs[p] # None =>
    \A e \in events : cursors[p] # None /\ Past(e, cursors[p])

\* Where resume_position starts while the file does not shrink.
StartOf(cursor, gen) == IF cursor # None /\ cursor.gen = gen THEN cursor.offset ELSE 0

\* A job whose generation is still without a first line was there first.
Early(j) ==
  j.gen[2] = None =>
    /\ events = {}
    /\ cursors[j.path] # None => cursors[j.path].gen = j.gen

Reading ==
  /\ pc # "mismatched"
  /\ pc # "idle" => AtPath # None
  /\ pc = "examined" => job.ino = AtPath.ino
  /\ pc \in {"examined", "identified"} /\ cursors[job.path] # None =>
       cursors[job.path].offset <= job.size
  /\ pc \in {"identified", "prepared"} => Begun(AtPath, job.gen) /\ Early(job)
  /\ pc = "prepared" =>
       /\ job.start = StartOf(cursors[job.path], job.gen)
       /\ Reached(AtPath, job.gen, job.start + Len(job.chunk), job.rest)

RInv == OnePlace /\ Resumable /\ Interpreted /\ Reading /\ ReplayIdempotent

LEMMA InitRInv == Init => RInv
  BY DEF Init, RInv, OnePlace, Resumable, Interpreted, Reading, ReplayIdempotent

\* g is f after some more writing.
Grown(f, g) ==
  /\ g.ino = f.ino
  /\ Len(f.lines) <= Len(g.lines)
  /\ \A i \in 1 .. Len(f.lines) : g.lines[i] = f.lines[i]
  /\ f.tail # None => BeginsWith(g, Len(f.lines), f.tail)

\* Writing more takes nothing back.
LEMMA GrownBegun ==
  ASSUME NEW f \in File, NEW g \in File, Grown(f, g), NEW gen, Begun(f, gen)
  PROVE  Begun(g, gen)
  <1>1. f.lines \in Seq(Record) /\ g.lines \in Seq(Record)
    BY DEF File
  <1>2. f.lines # << >> => Len(f.lines) >= 1 /\ Len(g.lines) >= 1 /\ g.lines # << >>
    BY <1>1 DEF Grown
  <1>3. f.lines # << >> => g.lines[1] = f.lines[1]
    BY <1>1, <1>2 DEF Grown
  <1> QED BY <1>2, <1>3 DEF Begun, Grown

LEMMA GrownReached ==
  ASSUME NEW f \in File, NEW g \in File, Grown(f, g), NEW gen, NEW n \in Nat, NEW partial,
         Reached(f, gen, n, partial)
  PROVE  Reached(g, gen, n, partial)
  <1>1. f.lines \in Seq(Record) /\ g.lines \in Seq(Record)
    BY DEF File
  <1>2. Len(f.lines) \in Nat /\ Len(g.lines) \in Nat /\ n <= Len(f.lines)
    BY <1>1 DEF Reached
  <1>3. ASSUME partial # None PROVE BeginsWith(g, n, partial)
    <2>1. CASE n < Len(f.lines)
      <3>1. f.lines[n + 1] = partial
        BY <1>3, <2>1 DEF Reached, BeginsWith
      <3>2. n + 1 \in 1 .. Len(f.lines) /\ n < Len(g.lines)
        BY <1>2, <2>1 DEF Grown
      <3> QED BY <3>1, <3>2 DEF Grown, BeginsWith
    <2>2. CASE n = Len(f.lines)
      BY <1>2, <1>3, <2>2 DEF Reached, BeginsWith, Grown
    <2> QED BY <1>2, <2>1, <2>2
  <1>4. Begun(g, gen)
    BY GrownBegun DEF Reached
  <1> QED BY <1>2, <1>3, <1>4 DEF Reached, Grown

\* An appending tool makes its files grow, in place.
LEMMA WriterGrows ==
  ASSUME WriterOps \subseteq {"append"}, TypeOK, Writer, NEW q \in Paths
  PROVE  /\ fs'[q] # None <=> fs[q] # None
         /\ fs[q] # None => Grown(fs[q], fs'[q])
  <1>1. PICK p \in Paths :
          \/ \E r \in Record : AppendLine(p, r) \/ AppendPart(p, r)
          \/ FinishLine(p)
    BY DEF Writer, Rename, Replace, Truncate
  <1>2. /\ fs[p] # None /\ fs[p] \in File
        /\ fs[p].lines \in Seq(Record) /\ fs[p].tail \in Maybe(Record)
        /\ Len(fs[p].lines) \in Nat /\ fs \in [Paths -> Maybe(File)]
    BY <1>1, FileOf DEF AppendLine, AppendPart, FinishLine, TypeOK
  <1>4. ASSUME NEW r \in Record, AppendLine(p, r) \/ (FinishLine(p) /\ r = fs[p].tail)
        PROVE  /\ fs'[p].ino = fs[p].ino /\ fs'[p].lines = Append(fs[p].lines, r)
               /\ fs[p].tail # None => fs[p].tail = r
               /\ fs' = [fs EXCEPT ![p] = fs'[p]] /\ fs'[p] \in File
    <2>1. Append(fs[p].lines, r) \in Seq(Record)
      BY <1>2
    <2>2. CASE AppendLine(p, r)
      <3>1. fs'[p] = [fs[p] EXCEPT !.lines = Append(@, r)] /\ fs' = [fs EXCEPT ![p] = fs'[p]]
        BY <1>2, <2>2 DEF AppendLine
      <3>2. fs[p].tail = None
        BY <2>2 DEF AppendLine, MayWrite
      <3> QED BY <1>2, <2>1, <3>1, <3>2 DEF File
    <2>3. CASE FinishLine(p) /\ r = fs[p].tail
      <3>1. /\ fs'[p] = [fs[p] EXCEPT !.lines = Append(@, fs[p].tail), !.tail = None]
            /\ fs' = [fs EXCEPT ![p] = fs'[p]]
        BY <1>2, <2>3 DEF FinishLine
      <3> QED BY <1>2, <2>1, <2>3, <3>1 DEF File, Maybe
    <2> QED BY <1>4, <2>2, <2>3
  <1>5. ASSUME NEW r \in Record, AppendLine(p, r) \/ (FinishLine(p) /\ r = fs[p].tail)
        PROVE  Grown(fs[p], fs'[p])
    <2>1. /\ Len(fs'[p].lines) = Len(fs[p].lines) + 1
          /\ fs'[p].lines[Len(fs[p].lines) + 1] = r
          /\ \A i \in 1 .. Len(fs[p].lines) : fs'[p].lines[i] = fs[p].lines[i]
      BY <1>2, <1>4, <1>5
    <2> QED BY <1>2, <1>4, <1>5, <2>1 DEF Grown, BeginsWith
  <1>6. ASSUME NEW r \in Record, AppendPart(p, r)
        PROVE  /\ Grown(fs[p], fs'[p])
               /\ fs' = [fs EXCEPT ![p] = fs'[p]] /\ fs'[p] \in File
    <2>1. /\ fs'[p].ino = fs[p].ino /\ fs'[p].lines = fs[p].lines
          /\ fs[p].tail = None
          /\ fs' = [fs EXCEPT ![p] = fs'[p]] /\ fs'[p] \in File
      BY <1>2, <1>6 DEF AppendPart, MayWrite, File, Maybe
    <2> QED BY <1>2, <2>1 DEF Grown
  <1>7. Grown(fs[p], fs'[p]) /\ fs' = [fs EXCEPT ![p] = fs'[p]] /\ fs'[p] \in File
    <2>1. ASSUME FinishLine(p) PROVE fs[p].tail \in Record
      BY <1>2, <2>1 DEF FinishLine, Maybe
    <2> QED BY <1>1, <1>4, <1>5, <1>6, <2>1
  <1>8. CASE q = p
    BY <1>2, <1>7, <1>8, NoneAssumption
  <1>9. CASE q # p
    <2>1. fs'[q] = fs[q]
      BY <1>2, <1>7, <1>9
    <2>2. fs[q] # None => fs[q].lines \in Seq(Record) /\ Len(fs[q].lines) \in Nat
      BY FileOf
    <2> QED BY <2>1, <2>2 DEF Grown, BeginsWith
  <1> QED BY <1>8, <1>9

LEMMA WriterRInv ==
  ASSUME WriterOps \subseteq {"append"}, TypeOK, TypeOK', RInv, Writer
  PROVE  RInv'
  <1>0. /\ events' = events /\ cursors' = cursors /\ pc' = pc /\ job' = job
        /\ job.start + Len(job.chunk) \in Nat
    BY DEF Writer, durableVars, taskVars, TypeOK, Job
  <1>1. \A q \in Paths : /\ fs'[q] # None <=> fs[q] # None
                         /\ fs[q] # None => Grown(fs[q], fs'[q])
    BY WriterGrows
  <1>2. \A q \in Paths : fs[q] # None => fs[q] \in File /\ fs'[q] \in File
    BY <1>1 DEF TypeOK, Maybe
  <1>3. OnePlace' /\ Interpreted' /\ ReplayIdempotent'
    BY <1>0, <1>1 DEF RInv, OnePlace, Interpreted, ReplayIdempotent
  <1>4. Resumable'
    <2> SUFFICES ASSUME NEW q \in Paths, cursors[q] # None
                 PROVE  /\ fs'[q] # None
                        /\ Reached(fs'[q], cursors[q].gen, cursors[q].offset, cursors[q].partial)
      BY <1>0 DEF Resumable
    <2>1. /\ fs[q] # None
          /\ Reached(fs[q], cursors[q].gen, cursors[q].offset, cursors[q].partial)
      BY DEF RInv, Resumable
    <2>2. cursors[q].offset \in Nat
      BY CursorAt
    <2> QED BY <1>1, <1>2, <2>1, <2>2, GrownReached
  <1>5. Reading'
    <2>1. CASE pc = "idle"
      BY <1>0, <2>1 DEF Reading
    <2>2. CASE pc # "idle"
      <3>1. job.path \in Paths /\ AtPath # None
        BY <2>2 DEF TypeOK, RInv, Reading
      <3>2. /\ AtPath \in File /\ AtPath' \in File /\ AtPath' # None
            /\ Grown(AtPath, AtPath')
        BY <1>0, <1>1, <1>2, <3>1 DEF AtPath
      <3>3. Begun(AtPath, job.gen) => Begun(AtPath', job.gen)
        BY <3>2, GrownBegun
      <3>4. Reached(AtPath, job.gen, job.start + Len(job.chunk), job.rest)
              => Reached(AtPath', job.gen, job.start + Len(job.chunk), job.rest)
        BY <1>0, <3>2, GrownReached
      <3>5. AtPath'.ino = AtPath.ino
        BY <3>2 DEF Grown
      <3>6. Early(job)' <=> Early(job)
        BY <1>0 DEF Early
      <3> QED BY <1>0, <3>2, <3>3, <3>4, <3>5, <3>6 DEF RInv, Reading
    <2> QED BY <2>1, <2>2
  <1> QED BY <1>3, <1>4, <1>5 DEF RInv

\* Steps of the task that leave the file, the events and the cursors alone
\* keep all but Reading.
LEMMA StillRInv ==
  ASSUME RInv, UNCHANGED <<nativeVars, events, cursors>>, Reading'
  PROVE  RInv'
  BY DEF RInv, OnePlace, Resumable, Interpreted, ReplayIdempotent, nativeVars

\* Steps that end or begin a job, or stay in it.
LEMMA QuietRInv ==
  ASSUME RInv, UNCHANGED <<nativeVars, events, cursors>>,
         \/ pc' = "idle"
         \/ pc' = "stamped" /\ fs[job'.path] # None
         \/ UNCHANGED <<pc, job>>
  PROVE  RInv'
  <1>1. Reading'
    BY DEF RInv, Reading, nativeVars, AtPath, Early
  <1> QED BY <1>1, StillRInv

\* The reads: the job has the generation of the file it reads, and starts
\* where the last one stopped.
LEMMA ReadsRInv ==
  ASSUME TypeOK, RInv, UNCHANGED nativeVars,
         Examine \/ ReadGeneration \/ ReadBytes \/ ReadAgain
  PROVE  RInv'
  <1>0. /\ job \in Job /\ job.path \in Paths /\ AtPath # None
        /\ fs' = fs /\ cursors' = cursors /\ events' = events
        /\ Reading /\ Resumable /\ Interpreted
    BY DEF RInv, TypeOK, nativeVars, durableVars, Examine, ReadGeneration, ReadBytes, ReadAgain
  <1>1. /\ AtPath \in File /\ AtPath.lines \in Seq(Record) /\ AtPath.ino \in Nat
        /\ AtPath.tail \in Maybe(Record) /\ Len(AtPath.lines) \in Nat
    BY <1>0, FileOf DEF AtPath
  <1> DEFINE prior == cursors[job.path]
  <1>2. prior # None =>
          /\ prior \in Cursor /\ prior.offset \in Nat /\ prior.gen \in Generation
          /\ Reached(AtPath, prior.gen, prior.offset, prior.partial)
    BY <1>0, CursorAt DEF Resumable, AtPath
  <1> HIDE DEF prior
  <1>3. ASSUME Examine PROVE Reading'
    <2>1. /\ job'.path = job.path /\ job'.ino = AtPath.ino
          /\ job'.size = Len(AtPath.lines) /\ pc' = "examined"
      BY <1>0, <1>3 DEF Examine, Job
    <2>2. prior # None => prior.offset <= Len(AtPath.lines)
      BY <1>2 DEF Reached
    <2> QED BY <1>0, <2>1, <2>2 DEF Reading, AtPath, prior
  <1>4. ASSUME ReadGeneration PROVE Reading'
    <2>1. /\ job'.path = job.path /\ job'.size = job.size /\ pc' = "identified"
          /\ job'.gen = <<AtPath.ino, FirstLine(AtPath)>> /\ pc = "examined"
      BY <1>0, <1>4 DEF ReadGeneration, SourceGeneration, Job, Reading
    <2>2. Begun(AtPath, job'.gen)
      BY <2>1 DEF Begun, FirstLine
    <2>3. ASSUME job'.gen[2] = None
          PROVE  events = {} /\ (prior # None => prior.gen = job'.gen)
      <3>1. AtPath.lines = << >>
        <4>1. AtPath.lines # << >> => AtPath.lines[1] \in Record
          BY <1>1
        <4> QED BY <2>1, <2>3, <4>1, CodexAssumption DEF FirstLine
      <3>2. Len(AtPath.lines) = 0
        BY <3>1
      <3>3. prior # None => prior.gen[2] = None /\ prior.gen[1] = AtPath.ino /\ prior.offset = 0
        BY <1>1, <1>2, <3>1, <3>2 DEF Reached, Begun
      <3>4. prior # None => prior.gen = <<AtPath.ino, None>>
        BY <1>2, <3>3 DEF Generation
      <3>5. events = {}
        <4>1. \A e \in events : prior # None /\ Past(e, prior)
          BY <1>0 DEF Interpreted, AtPath, prior
        <4>2. \A e \in events : e.offset \in Nat
          BY DEF TypeOK, Event
        <4> QED BY <3>3, <4>1, <4>2 DEF Past
      <3> QED BY <2>1, <2>3, <3>4, <3>5
    <2>4. Early(job)'
      BY <1>0, <2>1, <2>3 DEF Early, prior
    <2> QED BY <1>0, <2>1, <2>2, <2>4 DEF Reading, AtPath
  <1>5. ASSUME ReadBytes PROVE Reading'
    <2> DEFINE at == ResumePosition(prior, job.gen, job.size)
    <2>0. /\ pc = "identified" /\ Begun(AtPath, job.gen) /\ Early(job) /\ job.size \in Nat
          /\ prior # None => prior.offset <= job.size
      BY <1>0, <1>5 DEF ReadBytes, Reading, Job, prior
    <2>1. /\ at.start = StartOf(prior, job.gen) /\ at.start \in Nat
          /\ at.start <= Len(AtPath.lines)
          /\ ~ at.reset => prior # None /\ at.start = prior.offset
      <3>1. prior # None => ~ (job.size < prior.offset)
        BY <1>2, <2>0
      <3>2. prior # None => prior.offset <= Len(AtPath.lines)
        BY <1>2 DEF Reached
      <3> QED BY <1>1, <1>2, <3>1, <3>2 DEF ResumePosition, StartOf
    <2> HIDE DEF at
    <2>2. ~ (/\ ~ at.reset /\ prior.partial # None
             /\ ~ BeginsWith(AtPath, at.start, prior.partial))
      BY <1>2, <2>1 DEF Reached
    <2>3. /\ pc' = "prepared" /\ job'.path = job.path /\ job'.gen = job.gen
          /\ job'.start = at.start /\ job'.chunk = Drop(AtPath.lines, at.start)
          /\ job'.rest = ReadRest(AtPath, at.start)
      BY <1>0, <1>5, <2>2 DEF ReadBytes, Job, at, prior
    <2>4. job'.start + Len(job'.chunk) = Len(AtPath.lines) /\ job'.rest = AtPath.tail
      BY <1>1, <2>1, <2>3, DropAt DEF ReadRest
    <2>5. Reached(AtPath, job'.gen, job'.start + Len(job'.chunk), job'.rest)
      BY <1>1, <2>0, <2>3, <2>4 DEF Reached, BeginsWith
    <2>6. Early(job)'
      BY <1>0, <2>0, <2>3 DEF Early
    <2>7. AtPath' = AtPath
      BY <1>0, <2>3 DEF AtPath
    <2>8. job'.start = StartOf(cursors'[job'.path], job'.gen)
      BY <1>0, <2>1, <2>3 DEF prior
    <2> QED BY <1>0, <2>0, <2>3, <2>5, <2>6, <2>7, <2>8 DEF Reading
  <1>6. ~ ReadAgain
    BY <1>0 DEF ReadAgain, Reading
  <1>7. Reading'
    BY <1>3, <1>4, <1>5, <1>6
  <1> QED BY <1>0, <1>7, StillRInv

\* What a commit knows: it moves the cursor of the one file there is to a
\* boundary reached in it, not below the last one of the same generation.
LEMMA CommitKnows ==
  ASSUME TypeOK, RInv, Commit, UNCHANGED nativeVars
  PROVE  /\ job.path \in Paths /\ AtPath # None /\ fs' = fs
         /\ job.start \in Nat /\ job.chunk \in Seq(Record)
         /\ job.start + Len(job.chunk) \in Nat
         /\ Early(job) /\ Begun(AtPath, job.gen)
         /\ job.start = StartOf(cursors[job.path], job.gen)
         /\ Reached(AtPath, job.gen, job.start + Len(job.chunk), job.rest)
         /\ cursors' = [cursors EXCEPT ![job.path] = CursorOf(job)]
         /\ cursors \in [Paths -> Maybe(Cursor)]
         /\ CursorOf(job) # None
         /\ CursorOf(job) = [gen |-> job.gen, offset |-> job.start + Len(job.chunk),
                             next |-> job.next + Len(job.chunk), partial |-> job.rest]
         /\ events' = events \cup EventsOf(job)
         /\ pc' = "committed" /\ job' = job
  <1>1. pc = "prepared" /\ job \in Job
    BY DEF Commit, TypeOK
  <1>2. CursorOf(job) # None
    BY <1>1, BatchType, NoneAssumption
  <1> QED BY <1>1, <1>2 DEF Commit, TypeOK, Job, RInv, Reading, nativeVars, CursorOf

\* Each new event lies at or above the start of the chunk and below its end.
LEMMA NewEvents ==
  ASSUME TypeOK, NEW e \in EventsOf(job), pc # "idle"
  PROVE  \E i \in DOMAIN job.chunk :
           /\ i \in Nat \ {0} /\ i <= Len(job.chunk)
           /\ e = [gen |-> job.gen, offset |-> job.start + i - 1, rec |-> job.chunk[i],
                   seq |-> job.next + i - 1, session |-> SessionOf(job.chunk, i)]
  <1>1. job.chunk \in Seq(Record)
    BY DEF TypeOK, Job
  <1> QED BY <1>1 DEF EventsOf

\* An event that was interpreted before is not among the new ones, and stays
\* behind the boundary the commit sets.
LEMMA OldEvents ==
  ASSUME TypeOK, RInv, Commit, UNCHANGED nativeVars, NEW e \in events
  PROVE  /\ Past(e, CursorOf(job))
         /\ e.gen = job.gen => e.offset < job.start
  <1> DEFINE prior == cursors[job.path]
  <1>1. /\ job.path \in Paths /\ AtPath # None /\ job.start \in Nat
        /\ Len(job.chunk) \in Nat
        /\ Early(job) /\ Begun(AtPath, job.gen) /\ job.start = StartOf(prior, job.gen)
        /\ CursorOf(job).gen = job.gen
        /\ CursorOf(job).offset = job.start + Len(job.chunk)
    BY CommitKnows DEF CursorOf
  <1>2. prior # None /\ Past(e, prior)
    BY <1>1 DEF RInv, Interpreted, AtPath
  <1>3. /\ prior.offset \in Nat /\ prior.gen \in Generation
        /\ Begun(AtPath, prior.gen) /\ e.offset \in Nat /\ job.gen \in Generation
    BY <1>1, <1>2, CursorAt DEF RInv, Resumable, Reached, AtPath, TypeOK, Event, Job
  <1> HIDE DEF prior
  <1>4. job.gen[2] # None
    BY <1>1 DEF Early
  <1>5. CASE e.gen = prior.gen /\ e.offset < prior.offset
    <2>1. CASE prior.gen = job.gen
      BY <1>1, <1>2, <1>3, <1>5, <2>1 DEF Past, StartOf
    <2>2. CASE prior.gen # job.gen
      <3>1. prior.gen[2] = None
        BY <1>1, <1>3, <1>4, <2>2 DEF Begun, Generation
      <3> QED BY <1>1, <1>4, <1>5, <2>2, <3>1 DEF Past
    <2> QED BY <2>1, <2>2
  <1>6. CASE e.gen[2] = None /\ prior.gen[2] # None
    BY <1>1, <1>4, <1>6 DEF Past
  <1> QED BY <1>2, <1>5, <1>6 DEF Past

LEMMA CommitRInv ==
  ASSUME TypeOK, RInv, Commit, UNCHANGED nativeVars
  PROVE  RInv'
  <1>1. /\ job.path \in Paths /\ AtPath # None /\ fs' = fs
        /\ job.start \in Nat /\ Len(job.chunk) \in Nat
        /\ Reached(AtPath, job.gen, job.start + Len(job.chunk), job.rest)
        /\ cursors' = [cursors EXCEPT ![job.path] = CursorOf(job)]
        /\ cursors \in [Paths -> Maybe(Cursor)]
        /\ CursorOf(job) # None
        /\ CursorOf(job).gen = job.gen /\ CursorOf(job).partial = job.rest
        /\ CursorOf(job).offset = job.start + Len(job.chunk)
        /\ events' = events \cup EventsOf(job)
        /\ pc' = "committed" /\ job' = job /\ pc # "idle"
    BY CommitKnows DEF CursorOf, Commit
  <1>2. OnePlace' /\ OnePlace
    BY <1>1 DEF RInv, OnePlace
  <1>3. Reading'
    BY <1>1 DEF Reading, AtPath
  <1>4. Resumable'
    BY <1>1 DEF RInv, Resumable, AtPath
  <1>5. ASSUME NEW e \in EventsOf(job)
        PROVE  /\ e.gen = job.gen /\ Past(e, CursorOf(job))
               /\ ~ (e.offset < job.start)
    BY <1>1, <1>5, NewEvents DEF Past
  <1>6. Interpreted'
    <2> SUFFICES ASSUME NEW p \in Paths, fs[p] # None, NEW e \in events'
                 PROVE  cursors'[p] # None /\ Past(e, cursors'[p])
      BY <1>1 DEF Interpreted
    <2>1. p = job.path
      BY <1>1, <1>2 DEF OnePlace, AtPath
    <2>2. cursors'[p] = CursorOf(job)
      BY <1>1, <2>1
    <2>3. Past(e, CursorOf(job))
      BY <1>1, <1>5, OldEvents
    <2> QED BY <1>1, <2>2, <2>3
  <1>7. ReplayIdempotent'
    <2> SUFFICES ASSUME NEW e1 \in events', NEW e2 \in events',
                        e1.gen = e2.gen, e1.offset = e2.offset
                 PROVE  e1 = e2
      BY DEF ReplayIdempotent
    <2>1. CASE e1 \in events /\ e2 \in events
      BY <2>1 DEF RInv, ReplayIdempotent
    <2>2. CASE e1 \in EventsOf(job) /\ e2 \in EventsOf(job)
      <3>1. PICK i \in DOMAIN job.chunk :
              /\ i \in Nat \ {0}
              /\ e1 = [gen |-> job.gen, offset |-> job.start + i - 1, rec |-> job.chunk[i],
                       seq |-> job.next + i - 1, session |-> SessionOf(job.chunk, i)]
        BY <1>1, <2>2, NewEvents
      <3>2. PICK k \in DOMAIN job.chunk :
              /\ k \in Nat \ {0}
              /\ e2 = [gen |-> job.gen, offset |-> job.start + k - 1, rec |-> job.chunk[k],
                       seq |-> job.next + k - 1, session |-> SessionOf(job.chunk, k)]
        BY <1>1, <2>2, NewEvents
      <3>3. i = k
        BY <1>1, <3>1, <3>2
      <3> QED BY <3>1, <3>2, <3>3
    <2>3. CASE e1 \in events /\ e2 \in EventsOf(job)
      BY <1>5, <2>3, OldEvents
    <2>4. CASE e1 \in EventsOf(job) /\ e2 \in events
      BY <1>5, <2>4, OldEvents
    <2> QED BY <1>1, <2>1, <2>2, <2>3, <2>4
  <1> QED BY <1>2, <1>3, <1>4, <1>6, <1>7 DEF RInv

LEMMA NextRInv ==
  ASSUME WriterOps \subseteq {"append"}, TypeOK, TypeOK', RInv, [Next]_vars
  PROVE  RInv'
  <1>1. CASE UNCHANGED vars
    BY <1>1, QuietRInv DEF vars, durableVars, taskVars
  <1>2. CASE Writer
    BY <1>2, WriterRInv
  <1>3. CASE Scan
    <2>0. UNCHANGED nativeVars
      BY <1>3 DEF Scan
    <2>1. CASE Examine \/ ReadGeneration \/ ReadBytes \/ ReadAgain
      BY <2>0, <2>1, ReadsRInv
    <2>2. CASE Commit
      BY <2>0, <2>2, CommitRInv
    <2>3. CASE PutBlob \/ CommitRefused \/ Remember \/ Vanished
      BY <2>0, <2>3, QuietRInv DEF PutBlob, CommitRefused, Remember, Vanished, durableVars
    <2>4. CASE \E p \in Paths : Stamp(p)
      <3>1. PICK p \in Paths : Stamp(p)
        BY <2>4
      <3>2. job'.path = p
        BY <3>1 DEF Stamp, NoJob
      <3> QED BY <2>0, <3>1, <3>2, QuietRInv DEF Stamp, durableVars
    <2> QED BY <1>3, <2>1, <2>2, <2>3, <2>4 DEF Scan, Ingest
  <1>4. CASE Fault
    BY <1>4, QuietRInv DEF Fault, IoError, Restart, durableVars
  <1> QED BY <1>1, <1>2, <1>3, <1>4 DEF Next

LEMMA ReplayInvariance ==
  ASSUME WriterOps \subseteq {"append"}
  PROVE  Spec => []RInv
  <1>1. RInv /\ TypeOK /\ TypeOK' /\ [Next]_vars => RInv'
    BY NextRInv
  <1> QED BY <1>1, InitRInv, TypeCorrect, PTL DEF Spec

\* While its tool only appends, a line is interpreted once: no second event
\* for it after a partial line, a repeated scan, a fault or a restart, in any
\* interleaving of the writes with the reads (resume_position, insert_event).
THEOREM ReplaysAreIdempotent ==
  ASSUME WriterOps \subseteq {"append"}
  PROVE  Spec => []ReplayIdempotent
  <1>1. RInv => ReplayIdempotent
    BY DEF RInv
  <1> QED BY <1>1, ReplayInvariance, PTL

\* And the committed boundary never moves back (IngestionCursor).
THEOREM CursorAdvances ==
  ASSUME WriterOps \subseteq {"append"}
  PROVE  Spec => CursorNeverBack
  <1> DEFINE Ahead ==
        \A p \in Paths :
          cursors[p] # None /\ cursors'[p] # None /\ cursors'[p].gen = cursors[p].gen
            => cursors'[p].offset >= cursors[p].offset
  <1>1. TypeOK /\ RInv /\ [Next]_vars => [Ahead]_cursors
    <2> SUFFICES ASSUME TypeOK, RInv, Next, cursors' # cursors PROVE Ahead
      BY DEF vars, durableVars
    <2>1. Commit /\ UNCHANGED nativeVars
      BY DEF Next, Writer, Scan, Ingest, Fault, durableVars, Stamp, Examine, ReadGeneration,
             ReadBytes, ReadAgain, PutBlob, CommitRefused, Remember, Vanished, IoError, Restart
    <2>2. /\ job.path \in Paths /\ job.start \in Nat /\ Len(job.chunk) \in Nat
          /\ job.start = StartOf(cursors[job.path], job.gen)
          /\ cursors' = [cursors EXCEPT ![job.path] = CursorOf(job)]
          /\ cursors \in [Paths -> Maybe(Cursor)]
          /\ CursorOf(job).gen = job.gen
          /\ CursorOf(job).offset = job.start + Len(job.chunk)
      BY <2>1, CommitKnows DEF CursorOf
    <2> SUFFICES ASSUME NEW p \in Paths, cursors[p] # None, cursors'[p].gen = cursors[p].gen
                 PROVE  cursors'[p].offset >= cursors[p].offset
      OBVIOUS
    <2>3. cursors[p].offset \in Nat
      BY CursorAt
    <2>4. CASE p = job.path
      BY <2>2, <2>4 DEF StartOf
    <2>5. CASE p # job.path
      BY <2>2, <2>3, <2>5
    <2> QED BY <2>4, <2>5
  <1> QED BY <1>1, ReplayInvariance, TypeCorrect, PTL DEF Spec, CursorNeverBack
=============================================================================
