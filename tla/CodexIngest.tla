---------------------------- MODULE CodexIngest ----------------------------
(***************************************************************************)
(* Incremental import of one tool's rollout files by the daemon:           *)
(* sessionmesh-ingest/src/codex/incremental.rs, the scan loop of           *)
(* sessionmesh-daemon/src/main.rs and Storage::commit_batch.               *)
(*                                                                         *)
(* A native tool writes rollout files whenever it likes.  The daemon looks *)
(* at them with several separate system calls (stat, stat again, open for  *)
(* the first line, open for the rest), so the writer acts between any two  *)
(* of them, and the daemon may fail or be restarted between any two.       *)
(*                                                                         *)
(* Data abstraction: every complete line has length one, so a byte offset  *)
(* is a number of complete lines; an unterminated last line adds less than *)
(* one to the size.  A hash is the value it hashes.  The pair (size,mtime) *)
(* identifies the content of a file at a path.                             *)
(***************************************************************************)
EXTENDS Naturals, Sequences, FiniteSets

CONSTANTS
  Paths,        \* places a rollout file may be found at
  Meta,         \* the session_meta record, which names the native session
  Plain,        \* records that normalise to an event
  Malformed,    \* records that are kept raw but yield no event
  None,         \* absence of a file, a cursor, a partial line, ...
  WriterOps,    \* what the native tool does: see Writer below
  MaxLines,     \* bound: lines in one file
  MaxInodes,    \* bound: files ever created
  MaxEdits,     \* bound: renames, replacements and truncations
  MaxFaults,    \* bound: failed steps and crashes
  MaxVersion    \* bound: releases of the daemon (adapter_version)

Record == {Meta} \cup Plain \cup Malformed

ASSUME CodexAssumption ==
  /\ None \notin Record
  /\ None \notin Paths
  /\ Meta \notin Plain \cup Malformed
  /\ WriterOps \subseteq {"append", "rename", "replace", "truncate"}
  /\ {MaxLines, MaxInodes, MaxEdits, MaxFaults} \subseteq Nat
  /\ MaxVersion \in Nat \ {0}

VARIABLES
  fs,           \* the file at each path, or None
  inodes,       \* number of files created so far
  edits,        \* renames, replacements and truncations so far
  written,      \* history: <<inode, offset, record>> of every line ever completed
  blobs,        \* durable: contents in the blob store
  rows,         \* durable: table raw_objects
  events,       \* durable: table native_events
  cursors,      \* durable: table ingestion_cursors, one source per path
  version,      \* adapter_version of the running daemon
  remembered,   \* ScanMemory: the stamp of the last successful ingest
  pc,           \* where the ingestion task is
  job,          \* the locals of the ingest in progress
  faults        \* failed steps and crashes so far

nativeVars  == <<fs, inodes, edits, written>>
durableVars == <<blobs, rows, events, cursors>>
taskVars    == <<remembered, pc, job>>
vars        == <<nativeVars, durableVars, taskVars, version, faults>>

Maybe(S)    == S \cup {None}
File        == [ino : Nat, lines : Seq(Record), tail : Maybe(Record)]
Generation  == Nat \X Maybe(Record)
Cursor      == [gen : Generation, offset : Nat, next : Nat, partial : Maybe(Record)]
Row         == [gen : Generation, offset : Nat, rec : Record, ver : Nat]
Event       == [gen : Generation, offset : Nat, rec : Record, seq : Nat,
                session : {"declared", "fallback"}]
Job         == [path : Maybe(Paths), stamp : Maybe(File), ino : Nat, size : Nat,
                gen : Generation, start : Nat, next : Nat,
                chunk : Seq(Record), rest : Maybe(Record)]

\* Absence is not one of the values it stands beside.
ASSUME NoneAssumption == None \notin File /\ None \notin Cursor /\ None \notin Generation \X Nat

PcValues == {"idle", "stamped", "examined", "identified", "mismatched",
             "prepared", "committed"}

NoJob == [path |-> None, stamp |-> None, ino |-> 0, size |-> 0,
          gen |-> <<0, None>>, start |-> 0, next |-> 0,
          chunk |-> << >>, rest |-> None]

TypeOK ==
  /\ fs \in [Paths -> Maybe(File)]
  /\ inodes \in Nat /\ edits \in Nat /\ faults \in Nat
  /\ written \subseteq Nat \X Nat \X Record
  /\ blobs \subseteq Record
  /\ rows \subseteq Row
  /\ events \subseteq Event
  /\ cursors \in [Paths -> Maybe(Cursor)]
  /\ version \in Nat
  /\ remembered \in [Paths -> Maybe(File)]
  /\ pc \in PcValues
  /\ job \in Job
  /\ pc # "idle" => job.path \in Paths

-----------------------------------------------------------------------------
(***************************************************************************)
(* The native tool.                                                        *)
(***************************************************************************)
MayWrite(f, r) ==
  /\ Len(f.lines) < MaxLines
  /\ f.tail = None
  /\ (r = Meta) <=> (f.lines = << >>)

NewFile(ino) == [ino |-> ino, lines |-> << >>, tail |-> None]

\* One write holding a whole line.
AppendLine(p, r) ==
  /\ "append" \in WriterOps
  /\ fs[p] # None /\ MayWrite(fs[p], r)
  /\ fs' = [fs EXCEPT ![p].lines = Append(@, r)]
  /\ written' = written \cup {<<fs[p].ino, Len(fs[p].lines), r>>}
  /\ UNCHANGED <<inodes, edits>>

\* A write that stops before the newline.
AppendPart(p, r) ==
  /\ "append" \in WriterOps
  /\ fs[p] # None /\ MayWrite(fs[p], r)
  /\ fs' = [fs EXCEPT ![p].tail = r]
  /\ UNCHANGED <<inodes, edits, written>>

FinishLine(p) ==
  /\ fs[p] # None /\ fs[p].tail # None
  /\ fs' = [fs EXCEPT ![p].lines = Append(@, fs[p].tail), ![p].tail = None]
  /\ written' = written \cup {<<fs[p].ino, Len(fs[p].lines), fs[p].tail>>}
  /\ UNCHANGED <<inodes, edits>>

\* The tool moves a rollout, as when it archives a session.
Rename(p, q) ==
  /\ "rename" \in WriterOps /\ edits < MaxEdits
  /\ fs[p] # None /\ fs[q] = None
  /\ fs' = [fs EXCEPT ![p] = None, ![q] = fs[p]]
  /\ edits' = edits + 1
  /\ UNCHANGED <<inodes, written>>

\* A new file takes the place of the old one.
Replace(p) ==
  /\ "replace" \in WriterOps /\ edits < MaxEdits /\ inodes < MaxInodes
  /\ fs[p] # None
  /\ fs' = [fs EXCEPT ![p] = NewFile(inodes + 1)]
  /\ inodes' = inodes + 1
  /\ edits' = edits + 1
  /\ UNCHANGED written

Truncate(p, n) ==
  /\ "truncate" \in WriterOps /\ edits < MaxEdits
  /\ fs[p] # None
  /\ n < Len(fs[p].lines) \/ (n = Len(fs[p].lines) /\ fs[p].tail # None)
  /\ fs' = [fs EXCEPT ![p].lines = SubSeq(@, 1, n), ![p].tail = None]
  /\ edits' = edits + 1
  /\ UNCHANGED <<inodes, written>>

Writer ==
  /\ \E p \in Paths :
       \/ \E r \in Record : AppendLine(p, r) \/ AppendPart(p, r)
       \/ FinishLine(p)
       \/ \E q \in Paths : Rename(p, q)
       \/ Replace(p)
       \/ \E n \in 0 .. MaxLines : Truncate(p, n)
  /\ UNCHANGED <<durableVars, taskVars, version, faults>>

-----------------------------------------------------------------------------
(***************************************************************************)
(* What the code computes from what it reads.                              *)
(***************************************************************************)
FirstLine(f) == IF f.lines = << >> THEN None ELSE f.lines[1]

\* Stable identity of a file: the inode stat returned, and the first complete
\* line of whatever file is at the path when it is opened.
SourceGeneration(ino, f) == <<ino, FirstLine(f)>>

\* Slip: only the size is compared, so a replaced file keeps the old boundary.
ResumeIgnoringGeneration(prior, gen, size) ==
  IF prior = None \/ size < prior.offset
  THEN [start |-> 0, next |-> 0, reset |-> TRUE]
  ELSE [start |-> prior.offset, next |-> prior.next, reset |-> FALSE]

\* resume_position: where to read from, and whether this is a reset.
ResumePosition(prior, gen, size) ==
  IF prior = None \/ prior.gen # gen \/ size < prior.offset
  THEN [start |-> 0, next |-> 0, reset |-> TRUE]
  ELSE [start |-> prior.offset, next |-> prior.next, reset |-> FALSE]

Drop(s, n) == SubSeq(s, n + 1, Len(s))

\* The bytes from `start' begin with the partial line the cursor keeps.
BeginsWith(f, start, partial) ==
  IF start < Len(f.lines) THEN f.lines[start + 1] = partial
  ELSE start = Len(f.lines) /\ f.tail = partial

\* What read_to_end returns when the file is read from `start'.
ReadRest(f, start) == IF start <= Len(f.lines) THEN f.tail ELSE None

\* The parser starts every chunk with the fallback identity and switches to
\* the declared one at a session_meta record of the same chunk.
SessionOf(chunk, i) ==
  IF \E j \in 1 .. i : chunk[j] = Meta THEN "declared" ELSE "fallback"

RawOf(j) ==
  { [gen |-> j.gen, offset |-> j.start + i - 1, rec |-> j.chunk[i], ver |-> version]
      : i \in DOMAIN j.chunk }

EventsOf(j) ==
  { [gen |-> j.gen, offset |-> j.start + i - 1, rec |-> j.chunk[i],
     seq |-> j.next + i - 1, session |-> SessionOf(j.chunk, i)]
      : i \in { k \in DOMAIN j.chunk : j.chunk[k] \notin Malformed } }

\* Slips: the boundary passes the partial line; or repeats the last line; or
\* forgets where the chunk started.
CursorPastPartial(j) ==
  LET n == Len(j.chunk) + (IF j.rest = None THEN 0 ELSE 1)
  IN  [gen |-> j.gen, offset |-> j.start + n, next |-> j.next + n, partial |-> None]

CursorOneShort(j) ==
  LET n == IF j.chunk = << >> THEN 0 ELSE Len(j.chunk) - 1
  IN  [gen |-> j.gen, offset |-> j.start + n, next |-> j.next + n, partial |-> j.rest]

CursorFromZero(j) == [gen |-> j.gen, offset |-> Len(j.chunk),
                      next |-> Len(j.chunk), partial |-> j.rest]

CursorOf(j) == [gen |-> j.gen, offset |-> j.start + Len(j.chunk),
                next |-> j.next + Len(j.chunk), partial |-> j.rest]

\* insert_raw refuses an identity that is stored with other metadata.
ImmutableConflict(raws) ==
  \E old \in rows, new \in raws :
    /\ old.gen = new.gen /\ old.offset = new.offset /\ old.rec = new.rec
    /\ old.ver # new.ver

\* The raw objects of a batch that are not stored yet.
NewRows(raws) ==
  { new \in raws : ~ \E old \in rows :
      old.gen = new.gen /\ old.offset = new.offset /\ old.rec = new.rec }

-----------------------------------------------------------------------------
(***************************************************************************)
(* The ingestion task: one pass of scan_codex_once over one file.          *)
(***************************************************************************)
AtPath == fs[job.path]

\* The loop head: stat the file, skip it if its stamp is the remembered one.
Stamp(p) ==
  /\ pc = "idle"
  /\ fs[p] # None
  /\ remembered[p] # fs[p]
  /\ pc' = "stamped"
  /\ job' = [NoJob EXCEPT !.path = p, !.stamp = fs[p]]
  /\ UNCHANGED <<durableVars, remembered>>

\* get_cursor, then the second stat.
Examine ==
  /\ pc = "stamped" /\ AtPath # None
  /\ pc' = "examined"
  /\ job' = [job EXCEPT !.ino = AtPath.ino, !.size = Len(AtPath.lines)]
  /\ UNCHANGED <<durableVars, remembered>>

\* source_generation opens the path again to read the first line.
ReadGeneration ==
  /\ pc = "examined" /\ AtPath # None
  /\ pc' = "identified"
  /\ job' = [job EXCEPT !.gen = SourceGeneration(job.ino, AtPath)]
  /\ UNCHANGED <<durableVars, remembered>>

\* Slip: the unterminated last line is parsed as a record.
ReadBytesWithTail ==
  LET at == ResumePosition(cursors[job.path], job.gen, job.size)
      tail == IF AtPath.tail = None THEN << >> ELSE <<AtPath.tail>>
  IN  /\ pc = "identified" /\ AtPath # None
      /\ pc' = "prepared"
      /\ job' = [job EXCEPT !.start = at.start, !.next = at.next,
                            !.chunk = Drop(AtPath.lines \o tail, at.start),
                            !.rest = None]
      /\ UNCHANGED <<durableVars, remembered>>

\* resume_position and the first read_after, with its partial-line check.
ReadBytes ==
  LET prior == cursors[job.path]
      at    == ResumePosition(prior, job.gen, job.size)
      mismatch == /\ ~ at.reset
                  /\ prior.partial # None
                  /\ ~ BeginsWith(AtPath, at.start, prior.partial)
  IN  /\ pc = "identified" /\ AtPath # None
      /\ pc' = IF mismatch THEN "mismatched" ELSE "prepared"
      /\ job' = IF mismatch THEN job
                ELSE [job EXCEPT !.start = at.start, !.next = at.next,
                                 !.chunk = Drop(AtPath.lines, at.start),
                                 !.rest = ReadRest(AtPath, at.start)]
      /\ UNCHANGED <<durableVars, remembered>>

\* The second read_after, from the beginning, when the partial line changed.
ReadAgain ==
  /\ pc = "mismatched" /\ AtPath # None
  /\ pc' = "prepared"
  /\ job' = [job EXCEPT !.start = 0, !.next = 0,
                        !.chunk = AtPath.lines, !.rest = AtPath.tail]
  /\ UNCHANGED <<durableVars, remembered>>

Missing == { job.chunk[i] : i \in DOMAIN job.chunk } \ blobs

\* commit_batch writes the blobs first, one file at a time.
PutBlob ==
  /\ pc = "prepared"
  /\ \E b \in Missing : blobs' = blobs \cup {b}
  /\ UNCHANGED <<rows, events, cursors, remembered, pc, job>>

\* Slip: the rows are committed while blobs are still being written.
CommitBeforeBlobs ==
  /\ pc = "prepared"
  /\ ~ ImmutableConflict(RawOf(job))
  /\ rows' = rows \cup NewRows(RawOf(job))
  /\ events' = events \cup EventsOf(job)
  /\ cursors' = [cursors EXCEPT ![job.path] = CursorOf(job)]
  /\ pc' = "committed"
  /\ UNCHANGED <<blobs, remembered, job>>

\* The transaction of commit_batch: raw objects, events and cursor together.
Commit ==
  /\ pc = "prepared" /\ Missing = {}
  /\ ~ ImmutableConflict(RawOf(job))
  /\ rows' = rows \cup NewRows(RawOf(job))
  /\ events' = events \cup EventsOf(job)
  /\ cursors' = [cursors EXCEPT ![job.path] = CursorOf(job)]
  /\ pc' = "committed"
  /\ UNCHANGED <<blobs, remembered, job>>

\* Slip: the events of a refused batch are written outside its transaction.
CommitRefusedKeepsEvents ==
  /\ pc = "prepared" /\ Missing = {}
  /\ ImmutableConflict(RawOf(job))
  /\ events' = events \cup EventsOf(job)
  /\ pc' = "idle" /\ job' = NoJob
  /\ UNCHANGED <<blobs, rows, cursors, remembered>>

\* The same transaction rolled back by insert_raw.
CommitRefused ==
  /\ pc = "prepared" /\ Missing = {}
  /\ ImmutableConflict(RawOf(job))
  /\ pc' = "idle" /\ job' = NoJob
  /\ UNCHANGED <<durableVars, remembered>>

\* Slips: the stamp is taken after the ingest; or the job is not finished.
RememberLateStamp ==
  /\ pc = "committed"
  /\ remembered' = [remembered EXCEPT ![job.path] = AtPath]
  /\ pc' = "idle" /\ job' = NoJob
  /\ UNCHANGED durableVars

RememberUnfinished ==
  /\ pc = "committed"
  /\ remembered' = [remembered EXCEPT ![job.path] = job.stamp]
  /\ job' = NoJob
  /\ UNCHANGED <<pc, durableVars>>

\* ingest_file returned Ok: the stamp taken before it is remembered.
Remember ==
  /\ pc = "committed"
  /\ remembered' = [remembered EXCEPT ![job.path] = job.stamp]
  /\ pc' = "idle" /\ job' = NoJob
  /\ UNCHANGED durableVars

\* A stat or an open finds no file any more: ingest_file returns Err.
Vanished ==
  /\ pc \in {"stamped", "examined", "identified", "mismatched"}
  /\ AtPath = None
  /\ pc' = "idle" /\ job' = NoJob
  /\ UNCHANGED <<durableVars, remembered>>

Ingest ==
  Examine \/ ReadGeneration \/ ReadBytes \/ ReadAgain \/ PutBlob
    \/ Commit \/ CommitRefused \/ Remember \/ Vanished

\* Any step may return an I/O or database error: nothing is remembered.
IoError ==
  /\ faults < MaxFaults /\ faults' = faults + 1
  /\ pc \notin {"idle", "committed"}
  /\ pc' = "idle" /\ job' = NoJob
  /\ UNCHANGED <<durableVars, remembered, version>>

\* The process stops and a daemon, maybe a later release, starts.
Restart ==
  /\ faults < MaxFaults /\ faults' = faults + 1
  /\ pc' = "idle" /\ job' = NoJob
  /\ remembered' = [p \in Paths |-> None]
  /\ version' \in version .. MaxVersion
  /\ UNCHANGED durableVars

-----------------------------------------------------------------------------
Init ==
  /\ \E p \in Paths :
       fs = [q \in Paths |-> IF q = p THEN NewFile(1) ELSE None]
  /\ inodes = 1 /\ edits = 0 /\ faults = 0
  /\ written = {} /\ blobs = {} /\ rows = {} /\ events = {}
  /\ cursors = [p \in Paths |-> None]
  /\ version = 1
  /\ remembered = [p \in Paths |-> None]
  /\ pc = "idle"
  /\ job = NoJob

Scan == (Ingest \/ \E p \in Paths : Stamp(p)) /\ UNCHANGED <<nativeVars, version, faults>>

Fault == (IoError \/ Restart) /\ UNCHANGED nativeVars

Next == Writer \/ Scan \/ Fault

\* The scan loop never stops, and every tick visits every discovered file, so
\* a file that keeps a new stamp is picked up again and again.
Fairness ==
  /\ WF_vars(Ingest /\ UNCHANGED <<nativeVars, version, faults>>)
  /\ \A p \in Paths : SF_vars(Stamp(p) /\ UNCHANGED <<nativeVars, version, faults>>)

Spec == Init /\ [][Next]_vars /\ Fairness

-----------------------------------------------------------------------------
(***************************************************************************)
(* Safety.                                                                 *)
(***************************************************************************)

\* Recorded progress is backed by evidence: every line below the committed
\* boundary of a source is a stored raw record of the cursor's generation, and
\* the next native sequence has not drifted from that boundary.  It must
\* survive resets, renames, replacements between two reads, and restarts.
CursorBacked ==
  \A p \in Paths : cursors[p] # None =>
    /\ cursors[p].next = cursors[p].offset
    /\ \A i \in 0 .. cursors[p].offset - 1 :
         \E row \in rows : row.gen = cursors[p].gen /\ row.offset = i

\* A raw record never refers to a blob that was not written: blobs go to the
\* file system before the transaction that mentions them (commit_batch).
BlobBacked == \A row \in rows : row.rec \in blobs

\* Raw records and events appear together: each event has the raw record it
\* was read from, and each well-formed raw record has its event, although a
\* batch may be refused, repeated or cut off at any step.
EvidenceMatches ==
  /\ \A e \in events : \E row \in rows :
       row.gen = e.gen /\ row.offset = e.offset /\ row.rec = e.rec
  /\ \A row \in rows : row.rec \notin Malformed =>
       \E e \in events : row.gen = e.gen /\ row.offset = e.offset /\ row.rec = e.rec

\* A raw record says where it was read: its generation's file did hold that
\* record at that offset (codex.md: "Every canonical event points back to that
\* record through source path, generation, and offset").
RowAuthentic == \A row \in rows : <<row.gen[1], row.offset, row.rec>> \in written

\* A line is interpreted once per generation: no replay, retry, restart or
\* notification yields a second, different event for it (storage.md:
\* "Deterministic event IDs make repeated imports idempotent").
ReplayIdempotent ==
  \A e1, e2 \in events : e1.gen = e2.gen /\ e1.offset = e2.offset => e1 = e2

\* Every event of a rollout whose first record declares the session belongs
\* to that session (parser.rs: the fallback is "Session identity used only if
\* metadata is absent").
OneSession == \A e \in events : e.session = "declared"

\* The committed boundary of a source does not move back while its file is
\* only appended to or moved.
CursorNeverBack ==
  [][\A p \in Paths :
       cursors[p] # None /\ cursors'[p] # None /\ cursors'[p].gen = cursors[p].gen
         => cursors'[p].offset >= cursors[p].offset]_cursors

(***************************************************************************)
(* Liveness: once the tool is quiet, every complete line of every file is  *)
(* stored under the file's own generation, and interpreted.                *)
(***************************************************************************)
FullyIngested(f) ==
  \A i \in DOMAIN f.lines :
    /\ \E row \in rows : /\ row.gen = SourceGeneration(f.ino, f)
                         /\ row.offset = i - 1 /\ row.rec = f.lines[i]
    /\ f.lines[i] \notin Malformed =>
         \E e \in events : e.gen = SourceGeneration(f.ino, f) /\ e.offset = i - 1

Ingested == \A p \in Paths : <>[](fs[p] # None => FullyIngested(fs[p]))

(***************************************************************************)
(* The import implements the ledger.                                       *)
(***************************************************************************)
Ledger == INSTANCE IngestLedger WITH
  Sources <- Paths,
  stored  <- { <<row.gen, row.offset>> : row \in rows },
  mark    <- [p \in Paths |-> IF cursors[p] = None THEN None
                              ELSE <<cursors[p].gen, cursors[p].offset>>]

LedgerSpec == Ledger!Spec
=============================================================================
