--------------------------- MODULE SnapshotIngest ---------------------------
(***************************************************************************)
(* Import of the tools whose stores are not rollouts: Claude Code          *)
(* transcripts, read on from a cursor; Continue sessions and the Agy       *)
(* history, read whole when a fingerprint changed (external.rs); and the   *)
(* OpenCode database, read by session above a watermark (opencode.rs).     *)
(*                                                                         *)
(* One source of one of the four kinds is imported by the scan loop, with  *)
(* a stat, one or two reads and a transaction as separate steps, while the *)
(* tool writes.                                                            *)
(*                                                                         *)
(* Data abstraction: an item (line, message or part) has length one, and   *)
(* every line of a transcript yields an event.  The stamp of a file stands *)
(* for its size and modification time and is new after each write.  An     *)
(* OpenCode part keeps its place in the order of creation, its id and its  *)
(* time of creation are that place, and it may be empty until the model    *)
(* has answered.  Its text stands for the role in the message, too, which  *)
(* is written with it; the title and the directory of its session, which   *)
(* change, are a field of their own.  What else is in the message is only  *)
(* in the raw bytes, and left out.                                         *)
(***************************************************************************)
EXTENDS Naturals, Sequences, FiniteSets

CONSTANTS
  Kinds,      \* the kinds of source to consider
  Texts,      \* contents of an item
  Empty,      \* the text of an OpenCode part that has none yet
  Undated,    \* the texts of lines without a timestamp
  Abouts,     \* titles and directories of an OpenCode session
  Threads,    \* OpenCode sessions
  None,       \* absence
  NewFirst,   \* texts a transcript that replaces another may begin with
  Gaps,       \* whether an OpenCode part is followed while it is empty
  MaxItems,   \* bound: items of the source
  MaxWrites,  \* bound: writes of the tool
  MaxVersion, \* bound: releases of the daemon (parser_version)
  MaxFaults   \* bound: failed steps and restarts

AllKinds == {"claude", "continue", "agy", "opencode"}

Maybe(S) == S \cup {None}

\* Fingerprints, and append identities: the first line, and whether it was
\* complete.
Mark   == (Nat \X Nat) \cup (Maybe(Texts) \X BOOLEAN)
Cursor == [mark : Mark, offset : Nat, next : Nat]

ASSUME SnapshotAssumption ==
  /\ Kinds \subseteq AllKinds
  /\ NewFirst \subseteq Texts /\ Gaps \in BOOLEAN
  /\ {MaxItems, MaxWrites, MaxFaults} \subseteq Nat
  /\ MaxVersion \in Nat \ {0}
  /\ Empty \notin Texts /\ Undated \subseteq Texts
  /\ Threads # {} /\ Abouts # {}
  /\ None \notin Texts \cup {Empty} \cup Nat \cup Mark \cup Cursor \cup ({"source"} \X Nat)

VARIABLES
  kind,     \* which kind of source this is
  disk,     \* what a read of the path returns
  wal,      \* OpenCode: all parts, those only in the write-ahead log included
  clock,    \* the clock of the tool, in part.time_updated
  writes,   \* writes so far
  rows,     \* durable: raw_objects of the source
  events,   \* durable: native_events of the source
  cursor,   \* durable: the row of ingestion_cursors
  version,  \* release of the running daemon
  memory,   \* ScanMemory: the stamp of the last successful scan
  pc, job,  \* the scan in progress
  faults

native  == <<kind, disk, wal, clock, writes>>
durable == <<rows, events, cursor>>
vars    == <<native, durable, version, memory, pc, job, faults>>

Content  == Texts \cup {Empty}
Item     == [text : Content, thread : Threads, about : Abouts, upd : Nat]
File     == [items : Seq(Item), tail : Maybe(Texts), stamp : Nat]
Log      == [items : Seq(Item), stamp : Nat]
Row      == [offset : Nat, text : Texts, about : Abouts, ver : Nat]
Event    == [offset : Nat, text : Texts, about : Abouts, thread : Threads, seq : Nat,
             stamp : Nat]
Job      == [seen : Nat, stamp : Nat, log : Nat, size : Nat, partial : BOOLEAN,
             mark : Maybe(Mark), newest : Nat, next : Nat, batch : SUBSET Event]

NoJob == [seen |-> 0, stamp |-> 0, log |-> 0, size |-> 0, partial |-> FALSE,
          mark |-> None, newest |-> 0, next |-> 0, batch |-> {}]

TypeOK ==
  /\ kind \in AllKinds
  /\ disk \in File /\ wal \in Log
  /\ clock \in Nat /\ writes \in Nat /\ version \in Nat /\ faults \in Nat
  /\ rows \subseteq Row /\ events \subseteq Event
  /\ cursor \in Maybe(Cursor) /\ memory \in Maybe(Nat)
  /\ pc \in {"idle", "visited", "examined", "identified", "prepared", "done"}
  /\ job.seen \in Nat /\ job.mark \in Maybe(Mark) /\ job.batch \subseteq Event
  /\ pc = "prepared" => job.mark # None

-----------------------------------------------------------------------------
(***************************************************************************)
(* The tool.                                                               *)
(***************************************************************************)
Write == writes < MaxWrites /\ writes' = writes + 1

Items == IF kind = "opencode" THEN wal.items ELSE disk.items

\* OpenCode writes to the log, the others to the file itself.
Put(items) ==
  IF kind = "opencode"
  THEN wal' = [items |-> items, stamp |-> writes + 1] /\ UNCHANGED disk
  ELSE disk' = [disk EXCEPT !.items = items, !.stamp = writes + 1] /\ UNCHANGED wal

\* Time may stand still between two updates of a part.
Tick == IF kind = "opencode" THEN clock' \in {clock, clock + 1} ELSE UNCHANGED clock

Thread0 == CHOOSE thread \in Threads : TRUE
About0  == CHOOSE about \in Abouts : TRUE

\* The title and directory of a session: those of its parts.
AboutOf(thread) ==
  LET parts == { j \in DOMAIN Items : Items[j].thread = thread }
  IN  IF parts = {} THEN About0 ELSE Items[CHOOSE j \in parts : TRUE].about

AppendItem(t, thread) ==
  /\ Write /\ Tick
  /\ Len(Items) < MaxItems /\ disk.tail = None
  /\ kind # "opencode" => t # Empty /\ thread = Thread0
  /\ Items # << >> => (Gaps \/ Items[Len(Items)].text # Empty)
  /\ Put(Append(Items, [text |-> t, thread |-> thread, about |-> AboutOf(thread),
                        upd |-> clock']))

\* A transcript line whose newline has not been written yet.
AppendPart(t) ==
  /\ kind = "claude" /\ Write
  /\ Len(disk.items) < MaxItems /\ disk.tail = None
  /\ disk' = [disk EXCEPT !.tail = t, !.stamp = writes + 1]
  /\ UNCHANGED <<wal, clock>>

FinishLine ==
  /\ disk.tail # None /\ writes' = writes + 1
  /\ disk' = [items |-> Append(disk.items, [text |-> disk.tail, thread |-> Thread0,
                                            about |-> About0, upd |-> 0]),
              tail |-> None, stamp |-> writes + 1]
  /\ UNCHANGED <<wal, clock>>

\* Continue rewrites a message, OpenCode the text of a part.
EditItem(i, t) ==
  /\ kind \in {"continue", "opencode"} /\ Write /\ Tick
  /\ i \in DOMAIN Items /\ Items[i].text # t
  /\ Put([Items EXCEPT ![i].text = t, ![i].upd = clock'])

\* OpenCode gives a session another title or directory.  No part is updated.
Describe(thread, about) ==
  /\ kind = "opencode" /\ Write
  /\ \E i \in DOMAIN Items : Items[i].thread = thread /\ Items[i].about # about
  /\ Put([i \in DOMAIN Items |-> IF Items[i].thread = thread
                                 THEN [Items[i] EXCEPT !.about = about] ELSE Items[i]])
  /\ UNCHANGED clock

\* Continue drops messages, the Agy history is trimmed.
Cut(n) ==
  /\ kind \in {"continue", "agy"} /\ Write
  /\ n < Len(disk.items)
  /\ disk' = [disk EXCEPT !.items = SubSeq(disk.items, 1, n), !.stamp = writes + 1]
  /\ UNCHANGED <<wal, clock>>

\* Another transcript takes the place of a transcript.
Replace(t) ==
  /\ kind = "claude" /\ Write
  /\ disk.items # << >> /\ disk.items[1].text # t
  /\ disk' = [items |-> << [disk.items[1] EXCEPT !.text = t] >>, tail |-> None,
              stamp |-> writes + 1]
  /\ UNCHANGED <<wal, clock>>

\* SQLite copies the log into the database.
Checkpoint ==
  /\ kind = "opencode" /\ disk.items # wal.items /\ writes' = writes + 1
  /\ disk' = [disk EXCEPT !.items = wal.items, !.stamp = writes + 1]
  /\ wal' = [wal EXCEPT !.stamp = writes + 1]
  /\ UNCHANGED clock

Tool ==
  /\ \/ \E t \in Content, thread \in Threads : AppendItem(t, thread)
     \/ \E t \in Texts : AppendPart(t)
     \/ FinishLine
     \/ \E i \in 1 .. MaxItems, t \in Texts : EditItem(i, t)
     \/ \E thread \in Threads, about \in Abouts : Describe(thread, about)
     \/ \E n \in 0 .. MaxItems : Cut(n)
     \/ \E t \in NewFirst : Replace(t)
     \/ Checkpoint
  /\ UNCHANGED <<kind, durable, version, memory, pc, job, faults>>

-----------------------------------------------------------------------------
(***************************************************************************)
(* What the adapters compute.                                              *)
(***************************************************************************)
\* metadata_fingerprint, and database_fingerprint with the log's metadata.
Fingerprint == <<disk.stamp, wal.stamp>>

\* append_identity: the first line as it is now, complete or not.
AppendIdentity ==
  IF disk.items = << >> THEN <<disk.tail, FALSE>> ELSE <<disk.items[1].text, TRUE>>

\* Slip: every event is stamped with the time of the file.
EventStampOfFile(i) == job.stamp

\* The fallback timestamp is the modification time.  parse_continue gives it to
\* every message, the parsers of lines to a line that has none of its own; a
\* part has the time of its creation.
EventStamp(i) ==
  IF kind = "continue" \/ (kind \in {"claude", "agy"} /\ disk.items[i].text \in Undated)
  THEN job.stamp ELSE 0

\* The event of item i when the sequence of the item is seq.
EventOf(i, seq) ==
  [offset |-> i - 1, text |-> disk.items[i].text, about |-> disk.items[i].about,
   thread |-> disk.items[i].thread, seq |-> seq, stamp |-> EventStamp(i)]

\* Rank of part i among the parts of its session that have a text.
Rank(i) ==
  Cardinality({ j \in 1 .. i - 1 : /\ disk.items[j].thread = disk.items[i].thread
                                  /\ disk.items[j].text # Empty })

UpdatedSince(thread, mark) ==
  \E j \in DOMAIN disk.items : disk.items[j].thread = thread /\ disk.items[j].upd >= mark

\* The newest part.time_updated, zero without parts.
NewestUpdate ==
  LET upds == { disk.items[j].upd : j \in DOMAIN disk.items } \cup {0}
  IN  CHOOSE u \in upds : \A v \in upds : v <= u

Watermark ==
  IF cursor # None /\ cursor.offset <= job.newest THEN cursor.offset ELSE 0

\* prepare_claude_append: where to read on.
Resume ==
  IF cursor # None /\ cursor.mark = job.mark /\ cursor.offset <= job.size
  THEN [start |-> cursor.offset, next |-> cursor.next]
  ELSE [start |-> 0, next |-> 0]

RowsOf(batch) ==
  { [offset |-> e.offset, text |-> e.text, about |-> e.about, ver |-> version] : e \in batch }

\* The same bytes at the same place; an OpenCode record holds title and directory.
SameRecord(r, s) == r.offset = s.offset /\ r.text = s.text /\ r.about = s.about

\* insert_raw: the id is generation, offset and bytes; the version is compared.
ImmutableConflict ==
  \E old \in rows, e \in job.batch : SameRecord(old, e) /\ old.ver # version

-----------------------------------------------------------------------------
(***************************************************************************)
(* One scan: scan_external_once, scan_opencode_once.                       *)
(***************************************************************************)
\* A file whose stamp is remembered is not even looked up in the database.
Visit ==
  /\ pc = "idle" /\ (kind = "opencode" \/ memory # disk.stamp)
  /\ job' = [NoJob EXCEPT !.seen = disk.stamp]
  /\ pc' = "visited"
  /\ UNCHANGED <<durable, memory>>

Nothing == pc' = "done" /\ UNCHANGED <<durable, memory, job>>

\* get_cursor and stat; nothing more is done when the fingerprint is known.
Stat ==
  /\ pc = "visited"
  /\ IF kind # "claude" /\ cursor # None /\ cursor.mark = Fingerprint
     THEN Nothing
     ELSE /\ job' = [job EXCEPT !.stamp = disk.stamp, !.log = wal.stamp,
                       !.size = Len(disk.items), !.partial = (disk.tail # None)]
          /\ pc' = "examined"
          /\ UNCHANGED <<durable, memory>>

\* The second read: the first line of a transcript, MAX(time_updated) of the
\* database.
Identify ==
  /\ pc = "examined" /\ kind \in {"claude", "opencode"}
  /\ job' = IF kind = "claude" THEN [job EXCEPT !.mark = AppendIdentity]
            ELSE [job EXCEPT !.newest = NewestUpdate]
  /\ pc' = "identified"
  /\ UNCHANGED <<durable, memory>>

Prepare(mark, batch, next) ==
  /\ job' = [job EXCEPT !.mark = mark, !.batch = batch, !.next = next]
  /\ pc' = "prepared"
  /\ UNCHANGED <<durable, memory>>

\* The lines after the cursor, up to the last newline.
ReadClaude ==
  LET at == Resume
      added == at.start + 1 .. Len(disk.items)
  IN
  /\ pc = "identified" /\ kind = "claude"
  /\ IF (at.start = job.size /\ ~ job.partial /\ at.start > 0) \/ added = {}
     THEN Nothing
     ELSE Prepare(job.mark, { EventOf(i, at.next + i - at.start - 1) : i \in added },
                  at.next + Cardinality(added))

\* prepare_external: the whole file, under the fingerprint of the stat.
ReadWhole ==
  /\ pc = "examined" /\ kind \in {"continue", "agy"}
  /\ Prepare(<<job.stamp, job.log>>, { EventOf(i, i - 1) : i \in DOMAIN disk.items },
             Len(disk.items))

\* prepare_opencode: every part of a session updated since the mark, numbered
\* within its session; empty parts are left out and not counted.
ReadSessions ==
  LET read == { i \in DOMAIN disk.items : /\ disk.items[i].text # Empty
                                          /\ UpdatedSince(disk.items[i].thread, Watermark) }
  IN
  /\ pc = "identified" /\ kind = "opencode"
  /\ Prepare(<<job.stamp, job.log>>, { EventOf(i, Rank(i)) : i \in read }, Cardinality(read))

\* The cursor of a batch: end of the last complete line, size, or watermark.
CursorOf ==
  [mark |-> job.mark,
   offset |-> IF kind = "opencode" THEN job.newest
              ELSE IF kind = "claude" THEN job.next ELSE job.size,
   next |-> job.next]

\* Slip: the cursor is written before the records.
CommitCursorFirst ==
  /\ cursor' = CursorOf /\ UNCHANGED <<rows, events>>

\* commit_batch, one transaction; records that are known are left alone.
CommitBatch ==
  /\ rows' = rows \cup { r \in RowsOf(job.batch) :
                           ~ \E old \in rows : SameRecord(old, r) }
  /\ events' = events \cup job.batch
  /\ cursor' = CursorOf

Commit ==
  /\ pc = "prepared" /\ ~ ImmutableConflict
  /\ CommitBatch
  /\ pc' = "done" /\ UNCHANGED <<memory, job>>

\* Slip: the stamp of the file after the import is remembered.
RememberLate ==
  /\ pc = "done"
  /\ memory' = IF kind = "opencode" THEN memory ELSE disk.stamp
  /\ pc' = "idle" /\ job' = NoJob /\ UNCHANGED durable

\* The stamp taken before the import is remembered after it.
Remember ==
  /\ pc = "done"
  /\ memory' = IF kind = "opencode" THEN memory ELSE job.seen
  /\ pc' = "idle" /\ job' = NoJob /\ UNCHANGED durable

\* Slip: the stamp is remembered although the import failed.
LeaveRemembered ==
  memory' = job.seen /\ pc' = "idle" /\ job' = NoJob /\ UNCHANGED durable

\* An import that fails, or meets a record of another release, leaves nothing.
Leave == pc' = "idle" /\ job' = NoJob /\ UNCHANGED <<durable, memory>>

CommitRefused == pc = "prepared" /\ ImmutableConflict /\ Leave

Scan ==
  /\ \/ Visit \/ Stat \/ Identify \/ ReadClaude \/ ReadWhole \/ ReadSessions
     \/ Commit \/ CommitRefused \/ Remember
  /\ UNCHANGED <<native, version, faults>>

Fails == pc \notin {"idle", "done"} /\ Leave /\ UNCHANGED version

\* The daemon stops, and starts again in the same or in a later release.
Restart ==
  /\ version' \in version .. MaxVersion
  /\ memory' = None
  /\ pc' = "idle" /\ job' = NoJob /\ UNCHANGED durable

Fault ==
  /\ faults < MaxFaults /\ faults' = faults + 1
  /\ Fails \/ Restart
  /\ UNCHANGED native

-----------------------------------------------------------------------------
Init ==
  /\ kind \in Kinds
  /\ disk = [items |-> << >>, tail |-> None, stamp |-> 0]
  /\ wal = [items |-> << >>, stamp |-> 0]
  /\ clock = 0 /\ writes = 0
  /\ rows = {} /\ events = {} /\ cursor = None
  /\ version = 1 /\ memory = None
  /\ pc = "idle" /\ job = NoJob /\ faults = 0

Next == Tool \/ Scan \/ Fault

\* The scan loop of run_ingestion goes on for ever, and faults are finitely many.
Spec == Init /\ [][Next]_vars /\ WF_vars(Scan)

-----------------------------------------------------------------------------
(***************************************************************************)
(* Properties.                                                             *)
(***************************************************************************)
Stored == \A i \in DOMAIN disk.items :
  disk.items[i].text = Empty \/
  \E r \in rows : r.offset = i - 1 /\ r.text = disk.items[i].text

\* A source is passed over, by the memory of the loop, by its fingerprint or at
\* the end of its transcript, only when all it holds is stored: whatever was
\* written between the stat, the reads and the commit of an earlier scan is
\* found by a later one.
SkipSound ==
  \/ Stored
  \/ /\ kind # "opencode" => memory # disk.stamp
     /\ cursor # None =>
          IF kind = "claude"
          THEN cursor.mark # AppendIdentity \/ cursor.offset # Len(disk.items)
          ELSE cursor.mark # Fingerprint

\* The event of a record is stamped with the time of its file.
Restamped(e) ==
  kind = "continue" \/ (kind \in {"claude", "agy"} /\ e.text \in Undated)

\* A record that is read again, byte for byte the same, makes the event that it
\* made before (external.rs:236, opencode.rs:120): a transcript line read by
\* append or from the start, a history line after others were cut, an OpenCode
\* part when its session is read again.  Left out are messages of Continue and
\* lines without a timestamp.
OneEvent ==
  \A e, f \in events : SameRecord(e, f) /\ ~ Restamped(e) => e = f

\* What those places say without an exception, and what does not hold.
\* "Rewritten snapshots are safely reprocessed; deterministic event IDs keep the
\* import idempotent." (docs/adapters/continue.md:14)
Idempotent == kind = "continue" => \A e, f \in events : SameRecord(e, f) => e = f

\* A transcript line or history line without a timestamp makes one event.
LineIdempotent ==
  kind \in {"claude", "agy"} => \A e, f \in events : SameRecord(e, f) => e = f

\* A part makes one event for each text, whatever its session is called.
PartIdempotent ==
  kind = "opencode" =>
    \A e, f \in events : e.offset = f.offset /\ e.text = f.text => e = f

\* All texts that a tool has written are imported in the end, through failed
\* scans and restarts, unless a record of an earlier release is stored.
Imported == <>[](Stored \/ \E r \in rows : r.ver # version)

(***************************************************************************)
(* Snapshots fill the same ledger as rollouts.  A watermark covers no      *)
(* definite number of records.                                             *)
(***************************************************************************)
Ledger == INSTANCE IngestLedger WITH
  Sources <- {"source"},
  stored  <- { <<"source", r.offset>> : r \in rows },
  mark    <- [s \in {"source"} |->
                IF cursor = None THEN None
                ELSE <<s, IF kind = "opencode" THEN 0 ELSE cursor.next>>]

LedgerSpec == Ledger!Spec
=============================================================================
