------------------------ MODULE SnapshotIngestProofs ------------------------
(***************************************************************************)
(* Proofs about SnapshotIngest for any number of texts, threads, items,    *)
(* writes, releases and faults.                                            *)
(***************************************************************************)
EXTENDS SnapshotIngest, FiniteSetTheorems, SequenceTheorems,
        WellFoundedInduction, TLAPS

\* Only OpenCode has items without a text.
Written == kind # "opencode" => \A i \in DOMAIN disk.items : disk.items[i].text \in Texts

\* No item has been updated later than now.
Dated ==
  /\ \A i \in DOMAIN disk.items : disk.items[i].upd <= clock
  /\ \A i \in DOMAIN wal.items : wal.items[i].upd <= clock

\* The locals of a scan, and what is known of them from step to step.
Scanning ==
  /\ job \in Job
  /\ pc = "identified" /\ kind = "claude" => job.mark # None
  /\ pc = "prepared" => job.mark # None

\* Records up to a mark are stored, or about to be stored with it.
HasRow(offset) == \E r \in rows : r.offset = offset
Marked ==
  /\ cursor # None /\ kind # "opencode" => \A i \in Nat : i < cursor.next => HasRow(i)
  /\ cursor # None /\ kind = "claude" => cursor.offset = cursor.next
  /\ pc = "prepared" /\ kind # "opencode" =>
       \A i \in Nat : i < job.next => HasRow(i) \/ \E e \in job.batch : e.offset = i

\* An item is stored, or about to be.
Held(items, i)  == items[i].text = Empty \/ \E r \in rows : r.offset = i - 1 /\ r.text = items[i].text
Going(items, i) == Held(items, i) \/ \E e \in job.batch : e.offset = i - 1 /\ e.text = items[i].text

\* What may be passed over is stored; stamps and fingerprints are never newer
\* than the files.
Remembered ==
  /\ disk.stamp <= writes /\ wal.stamp <= writes
  /\ memory # None => memory <= disk.stamp
  /\ kind # "opencode" => wal.stamp = 0
  /\ kind # "claude" => disk.tail = None
  /\ kind # "claude" /\ cursor # None => cursor.mark \in (0 .. disk.stamp) \X (0 .. wal.stamp)
  /\ kind # "opencode" /\ memory = disk.stamp => Stored
  /\ kind # "claude" /\ cursor # None /\ cursor.mark = Fingerprint => Stored

\* OpenCode: what was updated before the watermark is stored, in the database
\* or in its log, and what is only in the log was updated last.
Alike(x, y) == x.text = y.text /\ x.upd = y.upd
SameItem(i) == i \in DOMAIN disk.items /\ Alike(disk.items[i], wal.items[i])
Watermarked ==
  kind = "opencode" =>
    /\ cursor # None =>
         /\ cursor.offset <= clock
         /\ \A i \in DOMAIN disk.items : disk.items[i].upd < cursor.offset => Held(disk.items, i)
         /\ \A i \in DOMAIN wal.items : wal.items[i].upd < cursor.offset => Held(wal.items, i)
    /\ \A i \in DOMAIN wal.items :
         SameItem(i) \/ \A j \in DOMAIN disk.items : disk.items[j].upd <= wal.items[i].upd

\* Transcripts: an identity belongs to this transcript, or to one that it has
\* replaced for good; the lines before a cursor of this one are stored.
Begun(m) ==
  \A x \in Texts : m = <<x, TRUE>> =>
    disk.items # << >> /\ (disk.items[1].text = x \/ disk.items[1].text \in NewFirst)
Appended ==
  kind = "claude" /\ cursor # None =>
    /\ Begun(cursor.mark)
    /\ cursor.mark = AppendIdentity /\ disk.items # << >> =>
         cursor.offset <= Len(disk.items) /\ \A i \in 1 .. cursor.offset : Held(disk.items, i)

\* The same of the scan in progress.
InScan ==
  /\ job.seen <= disk.stamp
  /\ pc \in {"examined", "identified", "prepared"} =>
       job.seen <= job.stamp /\ job.stamp <= disk.stamp /\ job.log <= wal.stamp
  /\ pc = "prepared" /\ kind # "claude" => job.mark = <<job.stamp, job.log>>
  /\ pc = "done" /\ kind # "opencode" /\ job.seen = disk.stamp => Stored
  /\ pc = "prepared" /\ job.stamp = disk.stamp /\ job.log = wal.stamp =>
       \A i \in DOMAIN disk.items : Going(disk.items, i)
InOpenCode ==
  kind = "opencode" =>
    /\ pc \in {"identified", "prepared"} => job.newest <= clock
    /\ pc = "identified" =>
         \A i \in DOMAIN wal.items : SameItem(i) \/ job.newest <= wal.items[i].upd
    /\ pc = "prepared" =>
         /\ \A i \in DOMAIN disk.items : disk.items[i].upd < job.newest => Going(disk.items, i)
         /\ \A i \in DOMAIN wal.items : wal.items[i].upd < job.newest => Going(wal.items, i)
InClaude ==
  kind = "claude" =>
    /\ pc \in {"examined", "identified"} /\ job.stamp = disk.stamp => job.size = Len(disk.items)
    /\ pc \in {"identified", "prepared"} => Begun(job.mark)
    /\ pc = "identified" /\ job.stamp = disk.stamp => job.mark = AppendIdentity
    /\ pc = "prepared" /\ job.mark = AppendIdentity /\ disk.items # << >> =>
         job.next <= Len(disk.items) /\ \A i \in 1 .. job.next : Going(disk.items, i)

\* A transcript that replaces another begins with a text of its own.
OneFirst == \A x, y \in NewFirst : x = y

IInv == TypeOK /\ Written /\ Dated /\ Scanning /\ Marked

SInv == Remembered /\ Watermarked /\ Appended /\ InScan /\ InOpenCode /\ InClaude

-----------------------------------------------------------------------------
(***************************************************************************)
(* The tool.                                                               *)
(***************************************************************************)
LEMMA InitIInv == Init => IInv
  <1> SUFFICES ASSUME Init PROVE IInv
    OBVIOUS
  <1> USE SnapshotAssumption DEF Init
  <1>1. disk \in File
    BY DEF File, Maybe
  <1>2. wal \in Log
    BY DEF Log
  <1>3. NoJob \in Job
    BY DEF NoJob, Job, Maybe
  <1>4. TypeOK
    BY <1>1, <1>2, <1>3 DEF TypeOK, AllKinds, Maybe, NoJob
  <1>5. Written /\ Dated /\ Scanning /\ Marked
    BY <1>3 DEF Written, Dated, Scanning, Marked
  <1> QED BY <1>4, <1>5 DEF IInv

\* A write leaves a file.
LEMMA RewrittenType ==
  ASSUME NEW file \in File, NEW items \in Seq(Item), NEW stamp \in Nat
  PROVE  /\ [file EXCEPT !.items = items, !.stamp = stamp] \in File
         /\ [file EXCEPT !.items = items, !.stamp = stamp].items = items
  BY DEF File

LEMMA TailType ==
  ASSUME NEW file \in File, NEW tail \in Maybe(Texts), NEW stamp \in Nat
  PROVE  /\ [file EXCEPT !.tail = tail, !.stamp = stamp] \in File
         /\ [file EXCEPT !.tail = tail, !.stamp = stamp].items = file.items
  BY DEF File

LEMMA ItemsType ==
  ASSUME IInv
  PROVE  /\ Items \in Seq(Item) /\ disk.items \in Seq(Item) /\ wal.items \in Seq(Item)
         /\ disk.tail \in Maybe(Texts) /\ disk.stamp \in Nat /\ wal.stamp \in Nat
         /\ kind # "opencode" => \A i \in DOMAIN Items : Items[i].text \in Texts
  BY DEF IInv, TypeOK, Written, Items, File, Log

LEMMA DatedLater ==
  ASSUME IInv, clock' \in Nat, clock <= clock'
  PROVE  /\ \A i \in DOMAIN disk.items : disk.items[i].upd <= clock'
         /\ \A i \in DOMAIN wal.items : wal.items[i].upd <= clock'
  <1>1. clock \in Nat
    BY DEF IInv, TypeOK
  <1>2. /\ \A i \in DOMAIN disk.items : disk.items[i].upd \in Nat
        /\ \A i \in DOMAIN wal.items : wal.items[i].upd \in Nat
    <2>1. /\ \A i \in DOMAIN disk.items : disk.items[i] \in Item
          /\ \A i \in DOMAIN wal.items : wal.items[i] \in Item
      BY ItemsType
    <2> QED BY <2>1 DEF Item
  <1> QED BY <1>1, <1>2 DEF IInv, Dated

\* The items a write leaves are items, and have a text unless the tool is
\* OpenCode.
LEMMA PutStep ==
  ASSUME IInv, NEW items \in Seq(Item), Put(items), writes' \in Nat,
         kind # "opencode" => \A i \in DOMAIN items : items[i].text \in Texts,
         clock' \in Nat, clock <= clock', \A i \in DOMAIN items : items[i].upd <= clock'
  PROVE  /\ disk' \in File /\ wal' \in Log /\ Dated'
         /\ kind # "opencode" => \A i \in DOMAIN disk'.items : disk'.items[i].text \in Texts
  <1>1. disk \in File /\ wal \in Log /\ writes \in Nat
    BY DEF IInv, TypeOK
  <1>0. /\ \A i \in DOMAIN disk.items : disk.items[i].upd <= clock'
        /\ \A i \in DOMAIN wal.items : wal.items[i].upd <= clock'
    BY DatedLater
  <1>2. CASE kind = "opencode"
    <2>1. wal' = [items |-> items, stamp |-> writes + 1] /\ disk' = disk
      BY <1>2 DEF Put
    <2> QED BY <1>0, <1>1, <1>2, <2>1 DEF Log, Dated
  <1>3. CASE kind # "opencode"
    <2>1. writes + 1 \in Nat /\ disk.tail \in Maybe(Texts)
      BY <1>1 DEF File
    <2>2. wal' = wal /\ disk' = [disk EXCEPT !.items = items, !.stamp = writes + 1]
      BY <1>3 DEF Put
    <2>3. /\ [disk EXCEPT !.items = items, !.stamp = writes + 1] \in File
          /\ [disk EXCEPT !.items = items, !.stamp = writes + 1].items = items
      BY <1>1, <2>1, RewrittenType
    <2> QED BY <1>0, <1>1, <1>3, <2>2, <2>3 DEF Dated
  <1> QED BY <1>2, <1>3

LEMMA AboutOfType ==
  ASSUME IInv, NEW thread
  PROVE  AboutOf(thread) \in Abouts /\ About0 \in Abouts
  <1>1. About0 \in Abouts
    BY SnapshotAssumption DEF About0
  <1>2. \A j \in DOMAIN Items : Items[j].about \in Abouts
    <2>1. \A j \in DOMAIN Items : Items[j] \in Item
      BY ItemsType
    <2> QED BY <2>1 DEF Item
  <1> DEFINE parts == { j \in DOMAIN Items : Items[j].thread = thread }
  <1>3. parts # {} => (CHOOSE j \in parts : TRUE) \in DOMAIN Items
    OBVIOUS
  <1> QED BY <1>1, <1>2, <1>3 DEF AboutOf

\* What a session is called is a matter of its parts, which stay as they are.
LEMMA Described ==
  ASSUME IInv, NEW thread \in Threads, NEW about \in Abouts, Describe(thread, about)
  PROVE  /\ kind = "opencode" /\ disk' = disk /\ clock' = clock /\ writes' = writes + 1
         /\ Put(wal'.items) /\ wal'.stamp = writes + 1 /\ wal'.items \in Seq(Item)
         /\ DOMAIN wal'.items = DOMAIN wal.items /\ Len(wal'.items) = Len(wal.items)
         /\ \A j \in DOMAIN wal.items : /\ Alike(wal'.items[j], wal.items[j])
                                       /\ wal'.items[j].thread = wal.items[j].thread
  <1> DEFINE items == [j \in DOMAIN wal.items |->
                         IF wal.items[j].thread = thread
                         THEN [wal.items[j] EXCEPT !.about = about] ELSE wal.items[j]]
  <1>1. /\ kind = "opencode" /\ Put(items) /\ clock' = clock /\ writes' = writes + 1
        /\ wal' = [items |-> items, stamp |-> writes + 1] /\ disk' = disk
    BY DEF Describe, Write, Items, Put
  <1>2. /\ wal.items \in Seq(Item) /\ DOMAIN wal.items = 1 .. Len(wal.items)
        /\ Len(wal.items) \in Nat
    BY ItemsType
  <1>3. \A j \in DOMAIN wal.items :
          /\ items[j] \in Item
          /\ items[j].text = wal.items[j].text /\ items[j].upd = wal.items[j].upd
          /\ items[j].thread = wal.items[j].thread
    <2> SUFFICES ASSUME NEW j \in DOMAIN wal.items
                 PROVE  /\ items[j] \in Item
                        /\ items[j].text = wal.items[j].text /\ items[j].upd = wal.items[j].upd
                        /\ items[j].thread = wal.items[j].thread
      OBVIOUS
    <2>1. wal.items[j] \in Item
      BY <1>2
    <2> QED BY <2>1 DEF Item
  <1>4. DOMAIN items = DOMAIN wal.items
    OBVIOUS
  <1> HIDE DEF items
  <1>5. items \in Seq(Item) /\ Len(items) = Len(wal.items)
    <2>1. items \in [1 .. Len(wal.items) -> Item]
      <3>1. items = [j \in DOMAIN items |-> items[j]]
        BY DEF items
      <3> QED BY <1>2, <1>3, <1>4, <3>1
    <2> QED BY <1>2, <2>1
  <1>6. wal'.items = items /\ wal'.stamp = writes + 1
    BY <1>1
  <1> QED BY <1>1, <1>3, <1>4, <1>5, <1>6 DEF Alike

LEMMA ToolStep ==
  ASSUME IInv, Tool
  PROVE  IInv'
  <1>1. UNCHANGED <<kind, durable, version, memory, pc, job, faults>>
    BY DEF Tool
  <1>2. clock \in Nat /\ writes \in Nat /\ disk \in File /\ wal \in Log
    BY DEF IInv, TypeOK
  <1>3. ASSUME writes' \in Nat, clock' \in Nat, disk' \in File, wal' \in Log,
               kind # "opencode" => \A i \in DOMAIN disk'.items : disk'.items[i].text \in Texts,
               Dated'
        PROVE  IInv'
    BY <1>1, <1>3 DEF IInv, TypeOK, Written, Scanning, Marked, HasRow, durable
  <1>4. ASSUME NEW t \in Content, NEW thread \in Threads, AppendItem(t, thread)
        PROVE  IInv'
    <2>1. writes' \in Nat /\ clock' \in Nat /\ clock <= clock'
      BY <1>2, <1>4 DEF AppendItem, Write, Tick
    <2> DEFINE item == [text |-> t, thread |-> thread, about |-> AboutOf(thread),
                        upd |-> clock']
    <2>2. item \in Item /\ item.text = t /\ item.upd = clock'
      BY <2>1, AboutOfType DEF Item
    <2>3. Put(Append(Items, item)) /\ (kind # "opencode" => t \in Texts)
      BY <1>4 DEF AppendItem, Content
    <2> HIDE DEF item
    <2>4. /\ Append(Items, item) \in Seq(Item)
          /\ kind # "opencode" =>
               \A i \in DOMAIN Append(Items, item) : Append(Items, item)[i].text \in Texts
      BY <2>2, <2>3, ItemsType
    <2>5. \A i \in DOMAIN Append(Items, item) : Append(Items, item)[i].upd <= clock'
      <3>1. \A i \in DOMAIN Items : Items[i].upd <= clock'
        BY <2>1, DatedLater DEF Items
      <3> QED BY <2>1, <2>2, <3>1, ItemsType
    <2> QED BY <1>3, <2>1, <2>3, <2>4, <2>5, PutStep
  <1>5. ASSUME NEW t \in Texts, AppendPart(t)
        PROVE  IInv'
    <2>1. /\ writes' \in Nat /\ writes + 1 \in Nat /\ clock' = clock /\ wal' = wal
          /\ disk' = [disk EXCEPT !.tail = t, !.stamp = writes + 1]
      BY <1>2, <1>5 DEF AppendPart, Write
    <2>2. t \in Maybe(Texts) /\ disk.items \in Seq(Item)
      BY ItemsType DEF Maybe
    <2>3. disk' \in File /\ disk'.items = disk.items
      BY <1>2, <2>1, <2>2, TailType
    <2> QED BY <1>2, <1>3, <2>1, <2>3 DEF IInv, Written, Dated
  <1>6. CASE FinishLine
    <2> DEFINE item == [text |-> disk.tail, thread |-> Thread0, about |-> About0, upd |-> 0]
    <2>1. disk.tail \in Texts /\ Thread0 \in Threads
      BY <1>6, ItemsType, SnapshotAssumption DEF FinishLine, Maybe, Thread0
    <2>2. item \in Item /\ item.text \in Texts /\ item.upd = 0
      BY <2>1, AboutOfType DEF Item, Content
    <2> HIDE DEF item
    <2>3. /\ disk' = [items |-> Append(disk.items, item), tail |-> None, stamp |-> writes + 1]
          /\ wal' = wal /\ clock' = clock /\ writes' \in Nat
      BY <1>2, <1>6 DEF FinishLine, item
    <2>4. /\ disk'.items \in Seq(Item)
          /\ kind # "opencode" => \A i \in DOMAIN disk'.items : disk'.items[i].text \in Texts
      BY <2>2, <2>3, ItemsType DEF IInv, Written
    <2>5. disk' \in File
      BY <1>2, <2>3, <2>4 DEF File, Maybe
    <2>6. Dated'
      BY <1>2, <2>2, <2>3, ItemsType DEF IInv, Dated
    <2> QED BY <1>2, <1>3, <2>3, <2>4, <2>5, <2>6
  <1>7. ASSUME NEW i \in 1 .. MaxItems, NEW t \in Texts, EditItem(i, t)
        PROVE  IInv'
    <2>1. writes' \in Nat /\ clock' \in Nat /\ clock <= clock'
      BY <1>2, <1>7 DEF EditItem, Write, Tick
    <2> DEFINE items == [Items EXCEPT ![i].text = t, ![i].upd = clock']
    <2>2. Put(items) /\ i \in DOMAIN Items
      BY <1>7 DEF EditItem
    <2>3. /\ items \in Seq(Item)
          /\ kind # "opencode" => \A j \in DOMAIN items : items[j].text \in Texts
          /\ \A j \in DOMAIN items : items[j].upd <= clock'
      <3>1. Items[i] \in Item
        BY <2>2, ItemsType
      <3> DEFINE item == [Items[i] EXCEPT !.text = t, !.upd = clock']
      <3>2. item \in Item /\ item.text = t /\ item.upd = clock'
        BY <2>1, <3>1 DEF Item, Content
      <3>3. items = [Items EXCEPT ![i] = item]
        BY ItemsType, <2>2
      <3> HIDE DEF item, items
      <3>4. \A j \in DOMAIN Items : Items[j].upd <= clock'
        BY <2>1, DatedLater DEF Items
      <3>5. items \in Seq(Item) /\ (kind # "opencode" => \A j \in DOMAIN items : items[j].text \in Texts)
        BY <2>2, <3>2, <3>3, ItemsType
      <3>6. \A j \in DOMAIN items : j \in DOMAIN Items /\ (items[j] = item \/ items[j] = Items[j])
        BY <2>2, <3>3, ItemsType
      <3> QED BY <2>1, <3>2, <3>4, <3>5, <3>6
    <2> HIDE DEF items
    <2> QED BY <1>3, <2>1, <2>2, <2>3, PutStep
  <1>8. ASSUME NEW n \in 0 .. MaxItems, Cut(n)
        PROVE  IInv'
    <2>1. /\ writes' \in Nat /\ clock' = clock /\ wal' = wal
          /\ disk' = [disk EXCEPT !.items = SubSeq(disk.items, 1, n), !.stamp = writes + 1]
          /\ n < Len(disk.items) /\ n \in Nat
      BY <1>2, <1>8 DEF Cut, Write
    <2>2. /\ SubSeq(disk.items, 1, n) \in Seq(Item)
          /\ \A j \in DOMAIN SubSeq(disk.items, 1, n) :
               j \in DOMAIN disk.items /\ SubSeq(disk.items, 1, n)[j] = disk.items[j]
      <3>1. /\ \A j \in 1 .. n : j \in DOMAIN disk.items /\ disk.items[j] \in Item
            /\ 1 \in Int /\ n \in Int
        BY <2>1, ItemsType
      <3>2. /\ SubSeq(disk.items, 1, n) \in Seq(Item)
            /\ Len(SubSeq(disk.items, 1, n)) = IF 1 <= n THEN n - 1 + 1 ELSE 0
            /\ \A j \in 1 .. n - 1 + 1 : SubSeq(disk.items, 1, n)[j] = disk.items[1 + j - 1]
        BY <3>1, SubSeqProperties
      <3>3. DOMAIN SubSeq(disk.items, 1, n) = 1 .. n
        BY <2>1, <3>2
      <3>4. \A j \in 1 .. n : j \in 1 .. n - 1 + 1 /\ 1 + j - 1 = j
        BY <2>1
      <3> QED BY <3>1, <3>2, <3>3, <3>4
    <2>3. disk' \in File /\ disk'.items = SubSeq(disk.items, 1, n)
      <3>1. writes + 1 \in Nat /\ disk.tail \in Maybe(Texts)
        BY <1>2, ItemsType
      <3> DEFINE items == SubSeq(disk.items, 1, n)
      <3>2. items \in Seq(Item)
        BY <2>2
      <3> HIDE DEF items
      <3>3. /\ [disk EXCEPT !.items = items, !.stamp = writes + 1] \in File
            /\ [disk EXCEPT !.items = items, !.stamp = writes + 1].items = items
        BY <1>2, <3>1, <3>2, RewrittenType
      <3> QED BY <2>1, <3>3 DEF items
    <2> QED BY <1>2, <1>3, <2>1, <2>2, <2>3 DEF IInv, Written, Dated
  <1>9. ASSUME NEW t \in NewFirst, Replace(t)
        PROVE  IInv'
    <2>1. t \in Texts /\ disk.items[1] \in Item /\ 1 \in DOMAIN disk.items
      BY <1>9, ItemsType, SnapshotAssumption DEF Replace
    <2> DEFINE item == [disk.items[1] EXCEPT !.text = t]
    <2>2. item \in Item /\ item.text = t /\ item.upd <= clock
      BY <2>1 DEF Item, Content, IInv, Dated
    <2> HIDE DEF item
    <2>3. /\ disk' = [items |-> << item >>, tail |-> None, stamp |-> writes + 1]
          /\ wal' = wal /\ clock' = clock /\ writes' \in Nat
      BY <1>2, <1>9 DEF Replace, Write, item
    <2>4. disk' \in File /\ \A j \in DOMAIN disk'.items : disk'.items[j] = item
      BY <1>2, <2>2, <2>3 DEF File, Maybe
    <2>5. Dated'
      BY <2>2, <2>3, <2>4 DEF IInv, Dated
    <2> QED BY <1>2, <1>3, <2>1, <2>2, <2>3, <2>4, <2>5
  <1>10. CASE Checkpoint
    <2>1. disk' = [disk EXCEPT !.items = wal.items, !.stamp = writes + 1]
          /\ wal' = [wal EXCEPT !.stamp = writes + 1] /\ clock' = clock /\ writes' \in Nat
          /\ kind = "opencode"
      BY <1>2, <1>10 DEF Checkpoint
    <2>2. disk' \in File /\ wal' \in Log
      <3>1. writes + 1 \in Nat /\ disk.tail \in Maybe(Texts) /\ wal.items \in Seq(Item)
        BY <1>2, ItemsType
      <3>2. wal' \in Log
        BY <1>2, <2>1, <3>1 DEF Log
      <3> QED BY <1>2, <2>1, <3>1, <3>2, RewrittenType
    <2>3. disk'.items = wal.items /\ wal'.items = wal.items
      BY <1>2, <2>1 DEF File, Log
    <2>4. Dated'
      BY <2>1, <2>3 DEF IInv, Dated
    <2> QED BY <1>2, <1>3, <2>1, <2>2, <2>4
  <1>11. ASSUME NEW thread \in Threads, NEW about \in Abouts, Describe(thread, about)
         PROVE  IInv'
    <2>1. /\ kind = "opencode" /\ disk' = disk /\ clock' = clock /\ writes' \in Nat
          /\ Put(wal'.items) /\ wal'.items \in Seq(Item)
          /\ DOMAIN wal'.items = DOMAIN wal.items
          /\ \A j \in DOMAIN wal.items : wal'.items[j].upd = wal.items[j].upd
      BY <1>2, <1>11, Described DEF Alike
    <2>2. clock' \in Nat /\ clock <= clock' /\ \A j \in DOMAIN wal'.items : wal'.items[j].upd <= clock'
      BY <1>2, <2>1 DEF IInv, Dated
    <2> QED BY <1>3, <2>1, <2>2, PutStep
  <1> QED BY <1>4, <1>5, <1>6, <1>7, <1>8, <1>9, <1>10, <1>11 DEF Tool

-----------------------------------------------------------------------------
(***************************************************************************)
(* What the adapters compute.                                              *)
(***************************************************************************)
LEMMA LeastExists ==
  ASSUME NEW I \in SUBSET Nat, I # {}
  PROVE  \E least \in I : \A i \in I : least <= i
  <1>1. PICK least \in I : \A i \in I : ~ (<<i, least>> \in OpToRel(<, Nat))
    BY NatLessThanWellFounded, WFMin
  <1>2. \A i \in Nat, j \in Nat : i < j => <<i, j>> \in OpToRel(<, Nat)
    BY DEF OpToRel
  <1>3. \A i \in I : ~ (i < least)
    BY <1>1, <1>2, ZenonT(30)
  <1> QED BY <1>3

\* The newest update is one of the updates, or zero, and not in the future.
LEMMA NewestUpdateIs ==
  ASSUME IInv
  PROVE  /\ NewestUpdate \in Nat /\ NewestUpdate <= clock
         /\ \A i \in DOMAIN disk.items : disk.items[i].upd <= NewestUpdate
         /\ NewestUpdate = 0 \/ \E i \in DOMAIN disk.items : disk.items[i].upd = NewestUpdate
  <1> DEFINE upds == { disk.items[j].upd : j \in DOMAIN disk.items } \cup {0}
             ages == { clock - u : u \in upds }
  <1>1. clock \in Nat /\ \A i \in DOMAIN disk.items : disk.items[i] \in Item
    BY ItemsType DEF IInv, TypeOK
  <1>2. \A u \in upds : u \in Nat /\ u <= clock
    BY <1>1 DEF Item, IInv, Dated
  <1>3. PICK least \in ages : \A age \in ages : least <= age
    <2>1. \A u \in upds : clock - u \in Nat
      <3> HIDE DEF upds
      <3> QED BY <1>1, <1>2
    <2>2. 0 \in upds
      OBVIOUS
    <2>3. ages \in SUBSET Nat /\ ages # {}
      <3> HIDE DEF upds
      <3> QED BY <2>1, <2>2
    <2> HIDE DEF ages
    <2> QED BY <2>3, LeastExists
  <1>4. \E u \in upds : \A v \in upds : v <= u
    <2>1. PICK u \in upds : least = clock - u
      BY <1>3
    <2>2. \A v \in upds : clock - u <= clock - v
      BY <1>3, <2>1
    <2> HIDE DEF upds
    <2> QED BY <1>1, <1>2, <2>2
  <1>5. NewestUpdate \in upds /\ \A v \in upds : v <= NewestUpdate
    BY <1>4 DEF NewestUpdate
  <1> QED BY <1>2, <1>5

\* An item makes an event of its text and offset.
LEMMA EventOfType ==
  ASSUME IInv, NEW i \in DOMAIN disk.items, NEW seq \in Nat, disk.items[i].text \in Texts
  PROVE  /\ EventOf(i, seq) \in Event
         /\ EventOf(i, seq).offset = i - 1 /\ EventOf(i, seq).text = disk.items[i].text
  <1>1. i \in Nat \ {0} /\ disk.items[i] \in Item
    BY ItemsType
  <1>2. EventStamp(i) \in Nat
    BY DEF EventStamp, IInv, Scanning, Job
  <1>3. disk.items[i].thread \in Threads /\ disk.items[i].about \in Abouts
    BY <1>1 DEF Item
  <1> QED BY <1>1, <1>2, <1>3 DEF EventOf, Event

LEMMA RankType ==
  ASSUME NEW i \in Nat
  PROVE  Rank(i) \in Nat
  <1> DEFINE before == { j \in 1 .. i - 1 : /\ disk.items[j].thread = disk.items[i].thread
                                            /\ disk.items[j].text # Empty }
  <1>1. IsFiniteSet(1 .. i - 1) /\ before \in SUBSET (1 .. i - 1)
    BY FS_Interval
  <1>2. IsFiniteSet(before)
    BY <1>1, FS_Subset
  <1> HIDE DEF before
  <1>3. Cardinality(before) \in Nat
    BY <1>2, FS_CardinalityType
  <1> QED BY <1>3 DEF Rank, before

LEMMA IntervalSize ==
  ASSUME NEW a \in Nat, NEW b \in Nat, a + 1 <= b
  PROVE  a + Cardinality(a + 1 .. b) = b
  <1>1. Cardinality(a + 1 .. b) = b - (a + 1) + 1
    BY FS_Interval
  <1> QED BY <1>1

LEMMA IdentityType ==
  ASSUME IInv, kind = "claude"
  PROVE  AppendIdentity \in Mark
  <1>1. CASE disk.items = << >>
    BY <1>1, ItemsType DEF AppendIdentity, Mark
  <1>2. CASE disk.items # << >>
    <2>1. 1 \in DOMAIN disk.items
      BY <1>2, ItemsType
    <2>2. disk.items[1].text \in Texts
      BY <2>1 DEF IInv, Written
    <2> QED BY <1>2, <2>2 DEF AppendIdentity, Mark, Maybe
  <1> QED BY <1>1, <1>2

\* A scan of a transcript goes on where the cursor ends, or from the beginning.
LEMMA ResumeIs ==
  ASSUME IInv, kind = "claude"
  PROVE  /\ Resume.start \in Nat /\ Resume.next = Resume.start
         /\ Resume.start = 0
              \/ (cursor # None /\ cursor.mark = job.mark /\ Resume.start = cursor.offset)
  <1>1. CASE cursor # None /\ cursor.mark = job.mark /\ cursor.offset <= job.size
    <2>1. Resume = [start |-> cursor.offset, next |-> cursor.next]
      BY <1>1 DEF Resume
    <2>2. cursor.offset \in Nat /\ cursor.next = cursor.offset
      BY <1>1 DEF IInv, TypeOK, Marked, Maybe, Cursor
    <2> QED BY <1>1, <2>1, <2>2
  <1>2. CASE ~ (cursor # None /\ cursor.mark = job.mark /\ cursor.offset <= job.size)
    BY <1>2 DEF Resume
  <1> QED BY <1>1, <1>2

-----------------------------------------------------------------------------
(***************************************************************************)
(* Scans.                                                                  *)
(***************************************************************************)
Places == {"idle", "visited", "examined", "identified", "prepared", "done"}

\* A step that stores nothing.
LEMMA QuietStep ==
  ASSUME IInv, UNCHANGED <<native, durable>>, job' \in Job, pc' \in Places,
         version' \in Nat, faults' \in Nat, memory' \in Maybe(Nat),
         pc' = "identified" /\ kind = "claude" => job'.mark # None,
         pc' = "prepared" => job'.mark # None,
         pc' = "prepared" /\ kind # "opencode" =>
           \A i \in Nat : i < job'.next => HasRow(i) \/ \E e \in job'.batch : e.offset = i
  PROVE  IInv'
  <1>1. job'.seen \in Nat /\ job'.mark \in Maybe(Mark) /\ job'.batch \subseteq Event
    BY DEF Job
  <1>2. TypeOK'
    BY <1>1 DEF IInv, TypeOK, native, durable, Places
  <1>3. Written' /\ Dated' /\ Scanning'
    BY DEF IInv, Written, Dated, Scanning, native
  <1>4. Marked'
    BY DEF IInv, Marked, HasRow, native, durable
  <1> QED BY <1>2, <1>3, <1>4 DEF IInv

LEMMA NoJobType == NoJob \in Job /\ NoJob.seen = 0 /\ NoJob.stamp = 0
  BY DEF NoJob, Job, Maybe

LEMMA LocalTypes ==
  ASSUME IInv
  PROVE  /\ job \in Job /\ version \in Nat /\ faults \in Nat /\ memory \in Maybe(Nat)
         /\ disk.stamp \in Nat /\ wal.stamp \in Nat /\ Len(disk.items) \in Nat
         /\ job.seen \in Nat
  <1>1. Len(disk.items) \in Nat /\ disk.stamp \in Nat /\ wal.stamp \in Nat
    BY ItemsType
  <1> QED BY <1>1 DEF IInv, TypeOK, Scanning

LEMMA PrepareStep ==
  ASSUME IInv, UNCHANGED <<native, version, faults>>,
         NEW m \in Mark, NEW batch \in SUBSET Event, NEW next \in Nat, Prepare(m, batch, next),
         kind # "opencode" =>
           \A i \in Nat : i < next => HasRow(i) \/ \E e \in batch : e.offset = i
  PROVE  IInv'
  <1>1. /\ job' = [job EXCEPT !.mark = m, !.batch = batch, !.next = next]
        /\ pc' = "prepared" /\ UNCHANGED <<durable, memory>>
    BY DEF Prepare
  <1>2. job \in Job
    BY LocalTypes
  <1>3. /\ job' \in Job /\ job'.mark = m /\ job'.batch = batch /\ job'.next = next
    BY <1>1, <1>2 DEF Job, Maybe
  <1>4. m # None
    BY SnapshotAssumption
  <1> QED BY <1>1, <1>3, <1>4, LocalTypes, QuietStep DEF Places

LEMMA ScanStep ==
  ASSUME IInv, Scan, ~ Commit
  PROVE  IInv'
  <1>1. UNCHANGED <<native, version, faults>>
    BY DEF Scan
  <1> USE LocalTypes
  <1>2. CASE Visit
    <2>1. job' = [NoJob EXCEPT !.seen = disk.stamp] /\ pc' = "visited" /\ UNCHANGED <<durable, memory>>
      BY <1>2 DEF Visit
    <2>2. job' \in Job
      BY <2>1, NoJobType DEF Job
    <2> QED BY <1>1, <2>1, <2>2, QuietStep DEF Places
  <1>3. CASE Stat
    <2>1. CASE Nothing
      BY <1>1, <2>1, QuietStep DEF Nothing, Places
    <2>2. CASE ~ Nothing
      <3>1. /\ job' = [job EXCEPT !.stamp = disk.stamp, !.log = wal.stamp,
                         !.size = Len(disk.items), !.partial = (disk.tail # None)]
            /\ pc' = "examined" /\ UNCHANGED <<durable, memory>>
        BY <1>3, <2>2 DEF Stat
      <3>2. job' \in Job
        BY <3>1 DEF Job
      <3> QED BY <1>1, <3>1, <3>2, QuietStep DEF Places
    <2> QED BY <2>1, <2>2
  <1>4. CASE Identify
    <2>1. CASE kind = "claude"
      <3>1. /\ job' = [job EXCEPT !.mark = AppendIdentity]
            /\ pc' = "identified" /\ UNCHANGED <<durable, memory>>
        BY <1>4, <2>1 DEF Identify
      <3>2. AppendIdentity \in Mark /\ AppendIdentity # None
        BY <2>1, IdentityType, SnapshotAssumption
      <3>3. job' \in Job /\ job'.mark # None
        BY <3>1, <3>2 DEF Job, Maybe
      <3> QED BY <1>1, <3>1, <3>3, QuietStep DEF Places
    <2>2. CASE kind # "claude"
      <3>1. /\ job' = [job EXCEPT !.newest = NewestUpdate]
            /\ pc' = "identified" /\ UNCHANGED <<durable, memory>>
        BY <1>4, <2>2 DEF Identify
      <3>2. job' \in Job
        BY <3>1, NewestUpdateIs DEF Job
      <3> QED BY <1>1, <2>2, <3>1, <3>2, QuietStep DEF Places
    <2> QED BY <2>1, <2>2
  <1>5. CASE ReadClaude
    <2> DEFINE added == Resume.start + 1 .. Len(disk.items)
               batch == { EventOf(i, Resume.next + i - Resume.start - 1) : i \in added }
               next  == Resume.next + Cardinality(added)
    <2>1. pc = "identified" /\ kind = "claude" /\ (Nothing \/ (added # {} /\ Prepare(job.mark, batch, next)))
      BY <1>5 DEF ReadClaude
    <2>2. CASE Nothing
      BY <1>1, <2>2, QuietStep DEF Nothing, Places
    <2>3. CASE added # {} /\ Prepare(job.mark, batch, next)
      <3>1. Resume.start \in Nat /\ Resume.next = Resume.start
        BY <2>1, ResumeIs
      <3>2. \A i \in added : i \in DOMAIN disk.items /\ i \in Nat
        BY <3>1, ItemsType
      <3>3. \A i \in added : /\ EventOf(i, Resume.next + i - Resume.start - 1) \in Event
                             /\ EventOf(i, Resume.next + i - Resume.start - 1).offset = i - 1
        <4> SUFFICES ASSUME NEW i \in added
                     PROVE  /\ EventOf(i, Resume.next + i - Resume.start - 1) \in Event
                            /\ EventOf(i, Resume.next + i - Resume.start - 1).offset = i - 1
          OBVIOUS
        <4>1. Resume.next + i - Resume.start - 1 \in Nat
          BY <3>1
        <4>2. disk.items[i].text \in Texts
          BY <2>1, <3>2 DEF IInv, Written
        <4> QED BY <3>2, <4>1, <4>2, EventOfType
      <3>4. next = Len(disk.items) /\ next \in Nat
        <4>1. Len(disk.items) \in Nat /\ Resume.start + 1 <= Len(disk.items)
          BY <2>3, <3>1
        <4>2. Resume.start + Cardinality(Resume.start + 1 .. Len(disk.items)) = Len(disk.items)
          BY <3>1, <4>1, IntervalSize
        <4> QED BY <3>1, <4>1, <4>2
      <3>5. batch \in SUBSET Event
        BY <3>3
      <3>6. job.mark \in Mark
        BY <2>1 DEF IInv, Scanning, Job, Maybe
      <3>7. \A i \in Nat : i < next => HasRow(i) \/ \E e \in batch : e.offset = i
        <4> SUFFICES ASSUME NEW i \in Nat, i < next
                     PROVE  HasRow(i) \/ \E e \in batch : e.offset = i
          OBVIOUS
        <4>1. CASE i < Resume.start
          <5>1. cursor # None /\ Resume.start = cursor.offset
            BY <2>1, <4>1, ResumeIs
          <5> QED BY <2>1, <4>1, <5>1 DEF IInv, Marked
        <4>2. CASE ~ (i < Resume.start)
          <5>1. i + 1 \in added /\ i + 1 - 1 = i
            BY <3>1, <3>4, <4>2
          <5> QED BY <3>3, <5>1
        <4> QED BY <4>1, <4>2
      <3> HIDE DEF batch, next
      <3> QED BY <1>1, <2>3, <3>4, <3>5, <3>6, <3>7, PrepareStep
    <2> QED BY <2>1, <2>2, <2>3
  <1>6. CASE ReadWhole
    <2> DEFINE batch == { EventOf(i, i - 1) : i \in DOMAIN disk.items }
    <2>1. kind # "opencode" /\ Prepare(<<job.stamp, job.log>>, batch, Len(disk.items))
      BY <1>6 DEF ReadWhole
    <2>2. \A i \in DOMAIN disk.items : EventOf(i, i - 1) \in Event /\ EventOf(i, i - 1).offset = i - 1
      <3>1. \A i \in DOMAIN disk.items : i - 1 \in Nat /\ disk.items[i].text \in Texts
        BY <2>1, ItemsType DEF IInv, Written
      <3> QED BY <3>1, EventOfType
    <2>3. batch \in SUBSET Event
      BY <2>2
    <2>4. <<job.stamp, job.log>> \in Mark
      BY DEF Job, Mark
    <2>5. \A i \in Nat : i < Len(disk.items) => \E e \in batch : e.offset = i
      <3> SUFFICES ASSUME NEW i \in Nat, i < Len(disk.items)
                   PROVE  \E e \in batch : e.offset = i
        OBVIOUS
      <3>1. i + 1 \in DOMAIN disk.items /\ i + 1 - 1 = i
        BY ItemsType
      <3> QED BY <2>2, <3>1
    <2> HIDE DEF batch
    <2> QED BY <1>1, <2>1, <2>3, <2>4, <2>5, PrepareStep
  <1>7. CASE ReadSessions
    <2> DEFINE read == { i \in DOMAIN disk.items :
                           /\ disk.items[i].text # Empty
                           /\ UpdatedSince(disk.items[i].thread, Watermark) }
               batch == { EventOf(i, Rank(i)) : i \in read }
    <2>1. kind = "opencode" /\ Prepare(<<job.stamp, job.log>>, batch, Cardinality(read))
      BY <1>7 DEF ReadSessions
    <2>2. \A i \in read : EventOf(i, Rank(i)) \in Event
      <3>1. \A i \in read : i \in DOMAIN disk.items /\ i \in Nat /\ disk.items[i] \in Item
        BY ItemsType
      <3>2. \A i \in read : disk.items[i].text \in Texts
        BY <3>1 DEF Item, Content
      <3> QED BY <3>1, <3>2, RankType, EventOfType
    <2>3. batch \in SUBSET Event
      BY <2>2
    <2>4. <<job.stamp, job.log>> \in Mark
      BY DEF Job, Mark
    <2>5. Cardinality(read) \in Nat
      <3>1. IsFiniteSet(DOMAIN disk.items) /\ read \in SUBSET (DOMAIN disk.items)
        <4>1. DOMAIN disk.items = 1 .. Len(disk.items) /\ 1 \in Int /\ Len(disk.items) \in Int
          BY ItemsType
        <4>2. IsFiniteSet(1 .. Len(disk.items))
          BY <4>1, FS_Interval
        <4> QED BY <4>1, <4>2
      <3> HIDE DEF read
      <3> QED BY <3>1, FS_Subset, FS_CardinalityType
    <2> HIDE DEF batch, read
    <2> QED BY <1>1, <2>1, <2>3, <2>4, <2>5, PrepareStep
  <1>8. CASE CommitRefused
    BY <1>1, <1>8, NoJobType, QuietStep DEF CommitRefused, Leave, Places
  <1>9. CASE Remember
    <2>1. memory' \in Maybe(Nat)
      BY <1>9 DEF Remember, Maybe
    <2> QED BY <1>1, <1>9, <2>1, NoJobType, QuietStep DEF Remember, Places
  <1> QED BY <1>2, <1>3, <1>4, <1>5, <1>6, <1>7, <1>8, <1>9 DEF Scan

\* A commit stores the records of its batch together with its cursor.
LEMMA CommitStep ==
  ASSUME IInv, Commit, UNCHANGED <<native, version, faults>>
  PROVE  /\ IInv' /\ rows \subseteq rows' /\ cursor' = CursorOf /\ cursor' \in Cursor
         /\ \A e \in job.batch : \E r \in rows' : r.offset = e.offset /\ r.text = e.text
  <1>1. /\ job \in Job /\ version \in Nat /\ job.batch \subseteq Event
        /\ rows \subseteq Row /\ events \subseteq Event
        /\ job.mark \in Mark /\ pc = "prepared"
    BY DEF Commit, IInv, TypeOK, Scanning, Maybe
  <1>2. /\ rows' = rows \cup { r \in RowsOf(job.batch) :
                                 ~ \E old \in rows : SameRecord(old, r) }
        /\ events' = events \cup job.batch /\ cursor' = CursorOf
        /\ pc' = "done" /\ UNCHANGED <<memory, job>>
    BY DEF Commit, CommitBatch
  <1>3. RowsOf(job.batch) \subseteq Row
    BY <1>1 DEF RowsOf, Row, Event
  <1>4. rows' \subseteq Row /\ events' \subseteq Event /\ rows \subseteq rows'
    BY <1>1, <1>2, <1>3
  <1>5. cursor' \in Cursor /\ cursor' # None
    <2>1. job.newest \in Nat /\ job.next \in Nat /\ job.size \in Nat
      BY <1>1 DEF Job
    <2>2. cursor' \in Cursor
      BY <1>1, <1>2, <2>1 DEF CursorOf, Cursor
    <2> QED BY <2>2, SnapshotAssumption
  <1>6. \A e \in job.batch : \E r \in rows' : r.offset = e.offset /\ r.text = e.text
    <2> SUFFICES ASSUME NEW e \in job.batch
                 PROVE  \E r \in rows' : r.offset = e.offset /\ r.text = e.text
      OBVIOUS
    <2> DEFINE r == [offset |-> e.offset, text |-> e.text, about |-> e.about,
                     ver |-> version]
    <2>1. r \in RowsOf(job.batch) /\ r.offset = e.offset /\ r.text = e.text
      BY DEF RowsOf
    <2> HIDE DEF r
    <2> QED BY <1>2, <2>1 DEF SameRecord
  <1>7. TypeOK'
    BY <1>2, <1>4, <1>5 DEF IInv, TypeOK, native, Maybe
  <1>8. Written' /\ Dated' /\ Scanning'
    BY <1>2 DEF IInv, Written, Dated, Scanning, native
  <1>9. Marked'
    <2>1. kind' = kind
      BY DEF native
    <2>2. cursor'.next = job.next /\ (kind = "claude" => cursor'.offset = job.next)
      BY <1>2 DEF CursorOf
    <2>3. kind # "opencode" => \A i \in Nat : i < job.next => HasRow(i)'
      BY <1>1, <1>4, <1>6 DEF IInv, Marked, HasRow
    <2> QED BY <1>2, <2>1, <2>2, <2>3 DEF Marked
  <1> QED BY <1>2, <1>4, <1>5, <1>6, <1>7, <1>8, <1>9 DEF IInv

LEMMA FaultStep ==
  ASSUME IInv, Fault
  PROVE  IInv'
  <1>1. UNCHANGED <<native, durable>> /\ job' = NoJob /\ pc' = "idle"
    BY DEF Fault, Fails, Leave, Restart
  <1>2. faults' \in Nat /\ memory' \in Maybe(Nat)
    BY LocalTypes DEF Fault, Fails, Leave, Restart, Maybe
  <1>3. version' \in Nat
    BY LocalTypes, SnapshotAssumption DEF Fault, Fails, Leave, Restart
  <1> QED BY <1>1, <1>2, <1>3, NoJobType, QuietStep DEF Places

LEMMA NextStep ==
  ASSUME IInv, [Next]_vars
  PROVE  IInv'
  <1>1. CASE Scan
    <2>1. UNCHANGED <<native, version, faults>>
      BY <1>1 DEF Scan
    <2> QED BY <1>1, <2>1, ScanStep, CommitStep
  <1>2. CASE UNCHANGED vars
    BY <1>2, LocalTypes DEF vars, native, durable, IInv, TypeOK, Written, Dated, Scanning, Marked, HasRow
  <1> QED BY <1>1, <1>2, ToolStep, FaultStep DEF Next

LEMMA Invariant == Spec => []IInv
  BY InitIInv, NextStep, PTL DEF Spec

-----------------------------------------------------------------------------
(***************************************************************************)
(* What is passed over is stored.                                          *)
(***************************************************************************)
LEMMA InitSInv == Init => SInv
  <1> SUFFICES ASSUME Init PROVE SInv
    OBVIOUS
  <1>1. disk.items = << >> /\ wal.items = << >> /\ disk.stamp = 0 /\ wal.stamp = 0
    BY DEF Init
  <1>2. Stored
    BY <1>1 DEF Stored
  <1>3. Remembered /\ Watermarked /\ Appended
    BY <1>1, <1>2, SnapshotAssumption DEF Init, Remembered, Watermarked, Appended
  <1>4. InScan /\ InOpenCode /\ InClaude
    BY <1>1, <1>2, NoJobType DEF Init, InScan, InOpenCode, InClaude
  <1> QED BY <1>3, <1>4 DEF SInv

\* A step of a scan that stores nothing may forget, or remember what it has
\* found stored.
LEMMA LookStep ==
  ASSUME IInv, SInv, UNCHANGED <<native, durable>>,
         memory' = memory \/ memory' = None
           \/ (pc = "done" /\ kind # "opencode" /\ memory' = job.seen),
         InScan', InOpenCode', InClaude'
  PROVE  SInv'
  <1>1. Stored' = Stored
    BY DEF Stored, native, durable
  <1>2. disk.stamp \in Nat /\ None \notin Nat /\ job.seen \in Nat
    BY LocalTypes, SnapshotAssumption
  <1>3. Remembered'
    BY <1>1, <1>2 DEF SInv, Remembered, InScan, Fingerprint, native, durable
  <1>4. Watermarked'
    BY DEF SInv, Watermarked, Held, SameItem, native, durable
  <1>5. Appended'
    BY DEF SInv, Appended, Held, Begun, AppendIdentity, native, durable
  <1> QED BY <1>3, <1>4, <1>5 DEF SInv

LEMMA EndStep ==
  ASSUME IInv, SInv, UNCHANGED <<native, durable>>, pc' = "idle", job' = NoJob,
         memory' = memory \/ memory' = None
           \/ (pc = "done" /\ kind # "opencode" /\ memory' = job.seen)
  PROVE  SInv'
  <1>1. InScan' /\ InOpenCode' /\ InClaude'
    BY NoJobType, LocalTypes DEF InScan, InOpenCode, InClaude, native
  <1> QED BY <1>1, LookStep

LEMMA VisitStep ==
  ASSUME IInv, SInv, Visit, UNCHANGED native
  PROVE  SInv'
  <1>1. /\ job' = [NoJob EXCEPT !.seen = disk.stamp] /\ pc' = "visited"
        /\ UNCHANGED <<durable, memory>>
    BY DEF Visit
  <1>2. job'.seen = disk.stamp
    BY <1>1, NoJobType DEF Job
  <1>3. InScan' /\ InOpenCode' /\ InClaude'
    BY <1>1, <1>2, LocalTypes DEF InScan, InOpenCode, InClaude, native
  <1> QED BY <1>1, <1>3, LookStep

LEMMA StatStep ==
  ASSUME IInv, SInv, Stat, UNCHANGED native
  PROVE  SInv'
  <1>1. CASE kind # "claude" /\ cursor # None /\ cursor.mark = Fingerprint
    <2>1. pc' = "done" /\ UNCHANGED <<durable, memory, job>>
      BY <1>1 DEF Stat, Nothing
    <2>2. Stored'
      BY <1>1, <2>1 DEF SInv, Remembered, Stored, native, durable
    <2>3. InScan' /\ InOpenCode' /\ InClaude'
      BY <2>1, <2>2 DEF SInv, InScan, InOpenCode, InClaude, native
    <2> QED BY <2>1, <2>3, LookStep
  <1>2. CASE ~ (kind # "claude" /\ cursor # None /\ cursor.mark = Fingerprint)
    <2>1. /\ job' = [job EXCEPT !.stamp = disk.stamp, !.log = wal.stamp,
                       !.size = Len(disk.items), !.partial = (disk.tail # None)]
          /\ pc' = "examined" /\ UNCHANGED <<durable, memory>>
      BY <1>2 DEF Stat
    <2>2. /\ job'.stamp = disk.stamp /\ job'.log = wal.stamp /\ job'.size = Len(disk.items)
          /\ job'.seen = job.seen
      BY <2>1, LocalTypes DEF Job
    <2>3. InScan' /\ InOpenCode' /\ InClaude'
      BY <2>1, <2>2, LocalTypes DEF SInv, InScan, InOpenCode, InClaude, native
    <2> QED BY <2>1, <2>3, LookStep
  <1> QED BY <1>1, <1>2

\* The identity of a transcript is its own.
LEMMA IdentityBegun ==
  ASSUME IInv
  PROVE  Begun(AppendIdentity)
  BY DEF Begun, AppendIdentity

LEMMA IdentifyStep ==
  ASSUME IInv, SInv, Identify, UNCHANGED native
  PROVE  SInv'
  <1>0. pc = "examined" /\ pc' = "identified" /\ UNCHANGED <<durable, memory>>
    BY DEF Identify
  <1>1. CASE kind = "claude"
    <2>1. job' = [job EXCEPT !.mark = AppendIdentity]
      BY <1>1 DEF Identify
    <2>2. /\ job'.seen = job.seen /\ job'.stamp = job.stamp /\ job'.log = job.log
          /\ job'.size = job.size /\ job'.mark = AppendIdentity
      BY <2>1, LocalTypes DEF Job
    <2>3. InScan'
      BY <1>0, <2>2 DEF SInv, InScan, native
    <2>4. Begun(job.mark)'
      BY <2>2, IdentityBegun DEF Begun, native
    <2>5. kind' = "claude" /\ AppendIdentity' = AppendIdentity /\ disk' = disk
      BY <1>1 DEF AppendIdentity, native
    <2>6. InClaude'
      BY <1>0, <1>1, <2>2, <2>4, <2>5 DEF SInv, InClaude
    <2>7. InOpenCode'
      BY <2>5 DEF InOpenCode
    <2> QED BY <1>0, <2>3, <2>6, <2>7, LookStep
  <1>2. CASE kind # "claude"
    <2>1. job' = [job EXCEPT !.newest = NewestUpdate]
      BY <1>2 DEF Identify
    <2>2. /\ job'.seen = job.seen /\ job'.stamp = job.stamp /\ job'.log = job.log
          /\ job'.newest = NewestUpdate
      BY <2>1, LocalTypes DEF Job
    <2>3. InScan'
      BY <1>0, <2>2 DEF SInv, InScan, native
    <2>4. kind = "opencode" => \A i \in DOMAIN wal.items : SameItem(i) \/ NewestUpdate <= wal.items[i].upd
      <3>1. \A i \in DOMAIN wal.items : wal.items[i].upd \in Nat
        <4>1. \A i \in DOMAIN wal.items : wal.items[i] \in Item
          BY ItemsType
        <4> QED BY <4>1 DEF Item
      <3> QED BY <3>1, NewestUpdateIs DEF SInv, Watermarked
    <2>5. InOpenCode' /\ InClaude'
      BY <1>0, <1>2, <2>2, <2>4, NewestUpdateIs DEF InOpenCode, InClaude, SameItem, native
    <2> QED BY <1>0, <2>3, <2>5, LookStep
  <1> QED BY <1>1, <1>2

\* What is before the place to read on is stored, if the transcript is the one
\* that was identified.
LEMMA ResumeHeld ==
  ASSUME IInv, SInv, kind = "claude", job.mark = AppendIdentity, disk.items # << >>
  PROVE  /\ Resume.start <= Len(disk.items)
         /\ \A i \in 1 .. Resume.start : Held(disk.items, i)
  <1>1. Resume.start \in Nat /\ Len(disk.items) \in Nat
    BY ResumeIs, LocalTypes
  <1>2. CASE Resume.start = 0
    BY <1>1, <1>2
  <1>3. CASE Resume.start # 0
    <2>1. cursor # None /\ cursor.mark = AppendIdentity /\ Resume.start = cursor.offset
      BY <1>3, ResumeIs
    <2> QED BY <2>1 DEF SInv, Appended
  <1> QED BY <1>2, <1>3

LEMMA EventOfIs ==
  ASSUME NEW i, NEW seq
  PROVE  EventOf(i, seq).offset = i - 1 /\ EventOf(i, seq).text = disk.items[i].text
  BY DEF EventOf

LEMMA ReadClaudeStep ==
  ASSUME IInv, SInv, ReadClaude, UNCHANGED native
  PROVE  SInv'
  <1> DEFINE s == Resume.start
             added == s + 1 .. Len(disk.items)
             batch == { EventOf(i, Resume.next + i - s - 1) : i \in added }
             next  == Resume.next + Cardinality(added)
  <1>1. /\ pc = "identified" /\ kind = "claude"
        /\ IF (s = job.size /\ ~ job.partial /\ s > 0) \/ added = {}
           THEN Nothing ELSE Prepare(job.mark, batch, next)
    BY DEF ReadClaude
  <1>2. /\ s \in Nat /\ Len(disk.items) \in Nat /\ DOMAIN disk.items = 1 .. Len(disk.items)
        /\ job \in Job /\ job.stamp \in Nat /\ job.seen \in Nat /\ disk.stamp \in Nat
    BY <1>1, ResumeIs, ItemsType, LocalTypes DEF Job
  <1>3. CASE Nothing
    <2>1. (s = job.size /\ s > 0) \/ s >= Len(disk.items)
      <3>1. CASE (s = job.size /\ ~ job.partial /\ s > 0) \/ added = {}
        <4>1. s < Len(disk.items) => s + 1 \in added
          BY <1>2
        <4> HIDE DEF added, s
        <4> QED BY <1>2, <3>1, <4>1
      <3>2. CASE ~ ((s = job.size /\ ~ job.partial /\ s > 0) \/ added = {})
        BY <1>1, <1>3, <3>2 DEF Nothing, Prepare
      <3> QED BY <3>1, <3>2
    <2>2. pc' = "done" /\ UNCHANGED <<durable, memory, job>>
      BY <1>3 DEF Nothing
    <2>3. job.seen = disk.stamp => Stored
      <3> SUFFICES ASSUME job.seen = disk.stamp, disk.items # << >> PROVE Stored
        BY DEF Stored
      <3>1. job.stamp = disk.stamp
        BY <1>1, <1>2 DEF SInv, InScan
      <3>2. job.mark = AppendIdentity /\ job.size = Len(disk.items)
        BY <1>1, <3>1 DEF SInv, InClaude
      <3>3. s <= Len(disk.items) /\ \A i \in 1 .. s : Held(disk.items, i)
        BY <1>1, <3>2, ResumeHeld
      <3>4. s = Len(disk.items)
        BY <1>2, <2>1, <3>2, <3>3
      <3> HIDE DEF s
      <3> QED BY <1>2, <3>3, <3>4 DEF Stored, Held
    <2>4. Stored' = Stored
      BY <2>2 DEF Stored, durable, native
    <2> HIDE DEF s
    <2>5. InScan' /\ InOpenCode' /\ InClaude'
      BY <1>1, <2>2, <2>3, <2>4 DEF SInv, InScan, InOpenCode, InClaude, native
    <2> QED BY <2>2, <2>5, LookStep
  <1>4. CASE ~ Nothing
    <2>1. added # {} /\ Prepare(job.mark, batch, next)
      BY <1>1, <1>4
    <2>2. next = Len(disk.items) /\ disk.items # << >>
      <3>1. s + 1 <= Len(disk.items)
        BY <1>2, <2>1
      <3>2. s + Cardinality(s + 1 .. Len(disk.items)) = Len(disk.items)
        BY <1>2, <3>1, IntervalSize
      <3>3. Resume.next = s
        BY <1>1, ResumeIs
      <3> QED BY <1>2, <3>1, <3>2, <3>3
    <2>3. \A i \in added : \E e \in batch : e.offset = i - 1 /\ e.text = disk.items[i].text
      BY EventOfIs
    <2> HIDE DEF batch, next
    <2>4. /\ job'.seen = job.seen /\ job'.stamp = job.stamp /\ job'.log = job.log
          /\ job'.mark = job.mark /\ job'.batch = batch /\ job'.next = Len(disk.items)
          /\ pc' = "prepared" /\ UNCHANGED <<durable, memory>>
      BY <1>2, <2>1, <2>2 DEF Prepare, Job
    <2>5. job.mark = AppendIdentity => \A i \in DOMAIN disk.items :
            Held(disk.items, i) \/ \E e \in batch : e.offset = i - 1 /\ e.text = disk.items[i].text
      <3> SUFFICES ASSUME job.mark = AppendIdentity, NEW i \in 1 .. Len(disk.items)
                   PROVE  Held(disk.items, i)
                            \/ \E e \in batch : e.offset = i - 1 /\ e.text = disk.items[i].text
        BY <1>2
      <3>1. \A j \in 1 .. s : Held(disk.items, j)
        BY <1>1, <2>2, ResumeHeld
      <3>2. i \in 1 .. s \/ i \in added
        BY <1>2
      <3> HIDE DEF s, added
      <3> QED BY <2>3, <3>1, <3>2
    <2> HIDE DEF s, added
    <2>6. job.mark = AppendIdentity => \A i \in DOMAIN disk.items : Going(disk.items, i)'
      BY <2>4, <2>5 DEF Going, Held, durable, native
    <2>7. job.stamp = disk.stamp => job.mark = AppendIdentity
      BY <1>1 DEF SInv, InClaude
    <2>8. kind' = "claude" /\ disk' = disk /\ wal' = wal /\ AppendIdentity' = AppendIdentity
      BY <1>1 DEF AppendIdentity, native
    <2>9. InScan'
      BY <1>1, <2>4, <2>6, <2>7, <2>8 DEF SInv, InScan
    <2>10. Begun(job.mark)'
      BY <1>1, <2>4, <2>8 DEF SInv, InClaude, Begun
    <2>11. InClaude'
      BY <1>2, <2>4, <2>6, <2>8, <2>10 DEF InClaude
    <2>12. InOpenCode'
      BY <2>8 DEF InOpenCode
    <2> QED BY <2>4, <2>9, <2>11, <2>12, LookStep
  <1> QED BY <1>3, <1>4

LEMMA ReadWholeStep ==
  ASSUME IInv, SInv, ReadWhole, UNCHANGED native
  PROVE  SInv'
  <1> DEFINE batch == { EventOf(i, i - 1) : i \in DOMAIN disk.items }
  <1>1. /\ pc = "examined" /\ kind # "opencode" /\ kind # "claude"
        /\ Prepare(<<job.stamp, job.log>>, batch, Len(disk.items))
    BY DEF ReadWhole
  <1>2. \A i \in DOMAIN disk.items : \E e \in batch : e.offset = i - 1 /\ e.text = disk.items[i].text
    BY EventOfIs
  <1> HIDE DEF batch
  <1>3. /\ job'.seen = job.seen /\ job'.stamp = job.stamp /\ job'.log = job.log
        /\ job'.mark = <<job.stamp, job.log>> /\ job'.batch = batch
        /\ pc' = "prepared" /\ UNCHANGED <<durable, memory>>
    BY <1>1, LocalTypes DEF Prepare, Job
  <1>4. \A i \in DOMAIN disk.items : Going(disk.items, i)'
    BY <1>2, <1>3 DEF Going, native
  <1>5. InScan'
    BY <1>1, <1>3, <1>4 DEF SInv, InScan, native
  <1>6. InOpenCode' /\ InClaude'
    BY <1>1 DEF InOpenCode, InClaude, native
  <1> QED BY <1>3, <1>5, <1>6, LookStep

LEMMA ReadSessionsStep ==
  ASSUME IInv, SInv, ReadSessions, UNCHANGED native
  PROVE  SInv'
  <1> DEFINE read == { i \in DOMAIN disk.items :
                         /\ disk.items[i].text # Empty
                         /\ UpdatedSince(disk.items[i].thread, Watermark) }
             batch == { EventOf(i, Rank(i)) : i \in read }
  <1>1. /\ pc = "identified" /\ kind = "opencode"
        /\ Prepare(<<job.stamp, job.log>>, batch, Cardinality(read))
    BY DEF ReadSessions
  <1>2. \A i \in read : \E e \in batch : e.offset = i - 1 /\ e.text = disk.items[i].text
    BY EventOfIs
  <1>3. \A i \in DOMAIN disk.items : Held(disk.items, i) \/ i \in read
    <2> SUFFICES ASSUME NEW i \in DOMAIN disk.items, disk.items[i].text # Empty, i \notin read
                 PROVE  Held(disk.items, i)
      BY DEF Held
    <2>1. ~ (disk.items[i].upd >= Watermark)
      BY DEF UpdatedSince
    <2>2. disk.items[i].upd \in Nat
      <3>1. disk.items[i] \in Item
        BY ItemsType
      <3> QED BY <3>1 DEF Item
    <2>3. CASE cursor # None /\ cursor.offset <= job.newest
      <3>1. cursor.offset \in Nat /\ Watermark = cursor.offset
        BY <2>3 DEF Watermark, IInv, TypeOK, Maybe, Cursor
      <3>2. disk.items[i].upd < cursor.offset
        BY <2>1, <2>2, <3>1
      <3> QED BY <1>1, <2>3, <3>2 DEF SInv, Watermarked
    <2>4. CASE ~ (cursor # None /\ cursor.offset <= job.newest)
      <3>1. Watermark = 0
        BY <2>4 DEF Watermark
      <3> QED BY <2>1, <2>2, <3>1
    <2> QED BY <2>3, <2>4
  <1> HIDE DEF batch, read
  <1>4. /\ job'.seen = job.seen /\ job'.stamp = job.stamp /\ job'.log = job.log
        /\ job'.mark = <<job.stamp, job.log>> /\ job'.batch = batch /\ job'.newest = job.newest
        /\ pc' = "prepared" /\ UNCHANGED <<durable, memory>>
    BY <1>1, LocalTypes DEF Prepare, Job
  <1>5. \A i \in DOMAIN disk.items : Going(disk.items, i)'
    BY <1>2, <1>3, <1>4 DEF Going, Held, durable, native
  <1>6. InScan'
    BY <1>1, <1>4, <1>5 DEF SInv, InScan, native
  <1>7. \A i \in DOMAIN wal.items : wal.items[i].upd < job.newest => Going(wal.items, i)'
    <2> SUFFICES ASSUME NEW i \in DOMAIN wal.items, wal.items[i].upd < job.newest
                 PROVE  Going(wal.items, i)'
      OBVIOUS
    <2>1. wal.items[i].upd \in Nat /\ job.newest \in Nat
      <3>1. wal.items[i] \in Item
        BY ItemsType
      <3> QED BY <3>1, LocalTypes DEF Item, Job
    <2>2. SameItem(i)
      BY <1>1, <2>1 DEF SInv, InOpenCode
    <2> QED BY <1>5, <2>2 DEF SameItem, Alike, Going, Held, native
  <1>8. InOpenCode' /\ InClaude'
    BY <1>1, <1>4, <1>5, <1>7 DEF SInv, InOpenCode, InClaude, native
  <1> QED BY <1>4, <1>6, <1>8, LookStep

LEMMA CommitSInv ==
  ASSUME IInv, SInv, Commit, UNCHANGED <<native, version, faults>>
  PROVE  SInv'
  <1>1. /\ pc = "prepared" /\ pc' = "done" /\ UNCHANGED <<memory, job>>
        /\ kind' = kind /\ disk' = disk /\ wal' = wal /\ clock' = clock /\ writes' = writes
    BY DEF Commit, native
  <1>2. /\ rows \subseteq rows' /\ cursor' = CursorOf
        /\ \A e \in job.batch : \E r \in rows' : r.offset = e.offset /\ r.text = e.text
    BY CommitStep
  <1>3. /\ \A i : Going(disk.items, i) => Held(disk.items, i)'
        /\ \A i : Going(wal.items, i) => Held(wal.items, i)'
        /\ \A i : Held(disk.items, i) => Held(disk.items, i)'
    BY <1>1, <1>2 DEF Going, Held
  <1>4. /\ cursor'.mark = job.mark
        /\ cursor'.offset = IF kind = "opencode" THEN job.newest
                            ELSE IF kind = "claude" THEN job.next ELSE job.size
    BY <1>2 DEF CursorOf
  <1>5. /\ job.stamp \in Nat /\ job.log \in Nat /\ job.seen \in Nat
        /\ disk.stamp \in Nat /\ wal.stamp \in Nat
    BY LocalTypes DEF Job
  <1>6. Stored => Stored'
    BY <1>1, <1>3 DEF Stored, Held
  <1>7. job.stamp = disk.stamp /\ job.log = wal.stamp => Stored'
    <2> SUFFICES ASSUME job.stamp = disk.stamp, job.log = wal.stamp PROVE Stored'
      OBVIOUS
    <2>1. \A i \in DOMAIN disk.items : Going(disk.items, i)
      BY <1>1 DEF SInv, InScan
    <2>2. \A i \in DOMAIN disk.items : Held(disk.items, i)'
      BY <1>3, <2>1
    <2> QED BY <1>1, <2>2 DEF Stored, Held
  <1>8. Remembered'
    <2>1. kind # "claude" => /\ cursor'.mark = <<job.stamp, job.log>>
                             /\ job.stamp <= disk.stamp /\ job.log <= wal.stamp
      BY <1>1, <1>4 DEF SInv, InScan
    <2>2. kind # "claude" => cursor'.mark \in (0 .. disk.stamp) \X (0 .. wal.stamp)
      BY <1>5, <2>1
    <2>3. kind # "claude" /\ cursor'.mark = Fingerprint => Stored'
      BY <1>7, <2>1 DEF Fingerprint
    <2> QED BY <1>1, <1>6, <2>2, <2>3 DEF SInv, Remembered, Fingerprint
  <1>9. Watermarked'
    <2>1. kind = "opencode" =>
            /\ job.newest <= clock
            /\ \A i \in DOMAIN disk.items : disk.items[i].upd < job.newest => Held(disk.items, i)'
            /\ \A i \in DOMAIN wal.items : wal.items[i].upd < job.newest => Held(wal.items, i)'
      BY <1>1, <1>3 DEF SInv, InOpenCode
    <2> QED BY <1>1, <1>4, <2>1 DEF SInv, Watermarked, SameItem, Held
  <1>10. Appended'
    <2>1. kind = "claude" => Begun(job.mark)
      BY <1>1 DEF SInv, InClaude
    <2>2. kind = "claude" => Begun(cursor.mark)'
      BY <1>1, <1>4, <2>1 DEF Begun
    <2>3. kind = "claude" /\ job.mark = AppendIdentity /\ disk.items # << >> =>
            job.next <= Len(disk.items) /\ \A i \in 1 .. job.next : Held(disk.items, i)'
      BY <1>1, <1>3 DEF SInv, InClaude
    <2>4. AppendIdentity' = AppendIdentity
      BY <1>1 DEF AppendIdentity
    <2> QED BY <1>1, <1>4, <2>2, <2>3, <2>4 DEF Appended
  <1>11. InScan'
    <2>1. kind # "opencode" /\ job.seen = disk.stamp => job.stamp = disk.stamp /\ job.log = wal.stamp
      BY <1>1, <1>5 DEF SInv, InScan, Remembered
    <2> QED BY <1>1, <1>7, <2>1 DEF SInv, InScan
  <1>12. InOpenCode' /\ InClaude'
    BY <1>1 DEF InOpenCode, InClaude
  <1> QED BY <1>8, <1>9, <1>10, <1>11, <1>12 DEF SInv

-----------------------------------------------------------------------------
(***************************************************************************)
(* What a write of the tool does to a source of each kind.                 *)
(***************************************************************************)
LEMMA WriteCounts ==
  ASSUME Tool
  PROVE  writes' = writes + 1 /\ UNCHANGED <<kind, durable, version, memory, pc, job, faults>>
  BY DEF Tool, AppendItem, AppendPart, FinishLine, EditItem, Describe, Cut, Replace, Checkpoint,
         Write

\* A write to the file itself gives it a new stamp.
LEMMA FileWrite ==
  ASSUME IInv, Remembered, Tool, kind # "opencode"
  PROVE  /\ wal' = wal /\ disk'.stamp = writes + 1
         /\ kind # "claude" => disk'.tail = None
  <1>1. disk \in File
    BY DEF IInv, TypeOK
  <1>2. ASSUME NEW items, Put(items)
        PROVE  wal' = wal /\ disk'.stamp = writes + 1 /\ disk'.tail = disk.tail
    BY <1>1, <1>2 DEF Put, File
  <1>3. ASSUME NEW t \in Content, NEW thread \in Threads, AppendItem(t, thread)
        PROVE  wal' = wal /\ disk'.stamp = writes + 1 /\ disk'.tail = disk.tail
    BY <1>2, <1>3 DEF AppendItem
  <1>4. ASSUME NEW i \in 1 .. MaxItems, NEW t \in Texts, EditItem(i, t)
        PROVE  wal' = wal /\ disk'.stamp = writes + 1 /\ disk'.tail = disk.tail
    BY <1>2, <1>4 DEF EditItem
  <1>5. ASSUME NEW n \in 0 .. MaxItems, Cut(n)
        PROVE  wal' = wal /\ disk'.stamp = writes + 1 /\ disk'.tail = disk.tail
    BY <1>1, <1>5 DEF Cut, File
  <1>6. ASSUME NEW t \in Texts, AppendPart(t)
        PROVE  wal' = wal /\ disk'.stamp = writes + 1 /\ kind = "claude"
    BY <1>1, <1>6 DEF AppendPart, File
  <1>7. CASE FinishLine
    BY <1>7 DEF FinishLine
  <1>8. ASSUME NEW t \in NewFirst, Replace(t)
        PROVE  wal' = wal /\ disk'.stamp = writes + 1 /\ disk'.tail = None
    BY <1>8 DEF Replace
  <1>9. ~ Checkpoint /\ \A thread \in Threads, about \in Abouts : ~ Describe(thread, about)
    BY DEF Checkpoint, Describe
  <1> QED BY <1>3, <1>4, <1>5, <1>6, <1>7, <1>8, <1>9 DEF Tool, Remembered

\* OpenCode adds or updates one part in its log, or none, or copies the log.
Logged ==
  /\ disk' = disk /\ clock' \in Nat /\ clock <= clock'
  /\ \A j \in DOMAIN wal'.items :
       \/ j \in DOMAIN wal.items /\ Alike(wal'.items[j], wal.items[j])
       \/ wal'.items[j].upd = clock'
Copied ==
  /\ disk'.stamp = writes + 1 /\ disk'.items = wal.items /\ wal'.items = wal.items
  /\ clock' = clock /\ disk'.tail = disk.tail

LEMMA LogWrite ==
  ASSUME IInv, Remembered, Tool, kind = "opencode"
  PROVE  wal'.stamp = writes + 1 /\ (Logged \/ Copied) /\ disk'.tail = None
  <1>1. disk \in File /\ wal \in Log /\ clock \in Nat /\ wal.items \in Seq(Item) /\ Items = wal.items
    BY ItemsType DEF IInv, TypeOK, Items
  <1>2. ASSUME NEW items, Put(items)
        PROVE  wal'.stamp = writes + 1 /\ wal'.items = items /\ disk' = disk
    BY <1>2 DEF Put
  <1>3. ASSUME NEW t \in Content, NEW thread \in Threads, AppendItem(t, thread)
        PROVE  wal'.stamp = writes + 1 /\ Logged
    <2> DEFINE item == [text |-> t, thread |-> thread, about |-> AboutOf(thread),
                        upd |-> clock']
    <2>1. Put(Append(Items, item)) /\ Tick
      BY <1>3 DEF AppendItem
    <2>2. clock' \in Nat /\ clock <= clock'
      BY <1>1, <2>1 DEF Tick
    <2>3. item.upd = clock' /\ item \in Item
      BY <2>2, AboutOfType DEF Item
    <2> HIDE DEF item
    <2>4. \A j \in DOMAIN Append(Items, item) :
            (j \in DOMAIN wal.items /\ Append(Items, item)[j] = wal.items[j])
              \/ Append(Items, item)[j] = item
      BY <1>1, <2>3
    <2> QED BY <1>2, <2>1, <2>2, <2>3, <2>4 DEF Logged, Alike
  <1>4. ASSUME NEW i \in 1 .. MaxItems, NEW t \in Texts, EditItem(i, t)
        PROVE  wal'.stamp = writes + 1 /\ Logged
    <2> DEFINE item  == [Items[i] EXCEPT !.text = t, !.upd = clock']
               items == [Items EXCEPT ![i] = item]
    <2>1. Put(items) /\ Tick /\ i \in DOMAIN Items
      BY <1>4 DEF EditItem
    <2>2. clock' \in Nat /\ clock <= clock'
      BY <1>1, <2>1 DEF Tick
    <2>3. item.upd = clock'
      <3>1. Items[i] \in Item
        BY <1>1, <2>1
      <3> QED BY <3>1 DEF Item
    <2> HIDE DEF item
    <2>4. \A j \in DOMAIN items : j \in DOMAIN wal.items /\ (items[j] = wal.items[j] \/ items[j] = item)
      BY <1>1, <2>1
    <2> HIDE DEF items
    <2> QED BY <1>2, <2>1, <2>2, <2>3, <2>4 DEF Logged, Alike
  <1>5. CASE Checkpoint
    <2>1. /\ disk' = [disk EXCEPT !.items = wal.items, !.stamp = writes + 1]
          /\ wal' = [wal EXCEPT !.stamp = writes + 1] /\ clock' = clock
      BY <1>5 DEF Checkpoint
    <2>2. disk'.items = wal.items /\ disk'.stamp = writes + 1 /\ disk'.tail = disk.tail
      BY <1>1, <2>1 DEF File
    <2>3. wal'.items = wal.items /\ wal'.stamp = writes + 1
      BY <1>1, <2>1 DEF Log
    <2>4. disk.tail = None
      BY DEF Remembered
    <2> QED BY <2>1, <2>2, <2>3, <2>4 DEF Copied
  <1>6. /\ \A t \in Texts : ~ AppendPart(t)
        /\ ~ FinishLine
        /\ \A n \in 0 .. MaxItems : ~ Cut(n)
        /\ \A t \in NewFirst : ~ Replace(t)
    BY DEF AppendPart, FinishLine, Cut, Replace, Remembered
  <1>7. disk.tail = None
    BY DEF Remembered
  <1>8. ASSUME NEW thread \in Threads, NEW about \in Abouts, Describe(thread, about)
        PROVE  wal'.stamp = writes + 1 /\ Logged
    BY <1>1, <1>8, Described DEF Logged
  <1> QED BY <1>3, <1>4, <1>5, <1>6, <1>7, <1>8 DEF Tool, Logged, Copied

\* A transcript grows, or another takes its place.
Grown ==
  /\ Len(disk.items) <= Len(disk'.items)
  /\ \A i \in DOMAIN disk.items : i \in DOMAIN disk'.items /\ disk'.items[i] = disk.items[i]
Replaced ==
  /\ disk.items # << >> /\ disk'.items # << >>
  /\ disk'.items[1].text \in NewFirst /\ disk.items[1].text # disk'.items[1].text

LEMMA TranscriptWrite ==
  ASSUME IInv, Tool, kind = "claude"
  PROVE  Grown \/ Replaced
  <1>1. disk \in File /\ disk.items \in Seq(Item) /\ Items = disk.items /\ clock \in Nat
    BY ItemsType DEF IInv, TypeOK, Items
  <1>2. ASSUME NEW item, disk'.items = Append(disk.items, item)
        PROVE  Grown
    BY <1>1, <1>2 DEF Grown
  <1>3. ASSUME NEW t \in Content, NEW thread \in Threads, AppendItem(t, thread)
        PROVE  Grown
    <2>1. disk'.items = Append(disk.items, [text |-> t, thread |-> thread,
                                             about |-> AboutOf(thread), upd |-> clock'])
      BY <1>1, <1>3 DEF AppendItem, Put, File
    <2> QED BY <1>2, <2>1
  <1>4. ASSUME NEW t \in Texts, AppendPart(t)
        PROVE  Grown
    <2>1. disk'.items = disk.items
      BY <1>1, <1>4 DEF AppendPart, File
    <2> QED BY <1>1, <2>1 DEF Grown
  <1>5. CASE FinishLine
    <2>1. disk'.items = Append(disk.items, [text |-> disk.tail, thread |-> Thread0, about |-> About0, upd |-> 0])
      BY <1>5 DEF FinishLine
    <2> QED BY <1>2, <2>1
  <1>6. ASSUME NEW t \in NewFirst, Replace(t)
        PROVE  Replaced
    <2> DEFINE item == [disk.items[1] EXCEPT !.text = t]
    <2>1. disk.items # << >> /\ disk.items[1].text # t /\ disk'.items = << item >>
      BY <1>6 DEF Replace
    <2>2. item.text = t
      <3>1. disk.items[1] \in Item
        BY <1>1, <2>1
      <3> QED BY <3>1 DEF Item
    <2> HIDE DEF item
    <2> QED BY <2>1, <2>2 DEF Replaced
  <1>7. /\ \A i \in 1 .. MaxItems, t \in Texts : ~ EditItem(i, t)
        /\ \A n \in 0 .. MaxItems : ~ Cut(n)
        /\ ~ Checkpoint /\ \A thread \in Threads, about \in Abouts : ~ Describe(thread, about)
    BY DEF EditItem, Describe, Cut, Checkpoint
  <1> QED BY <1>3, <1>4, <1>5, <1>6, <1>7 DEF Tool

-----------------------------------------------------------------------------
(***************************************************************************)
(* Writes do not make anything pass for stored that is not.                *)
(***************************************************************************)
\* After a write the stamp of the file, or of the log, is a new one.
LEMMA WriteRemembered ==
  ASSUME IInv, SInv, Tool
  PROVE  Remembered' /\ InScan'
  <1>1. /\ writes' = writes + 1
        /\ UNCHANGED <<kind, cursor, memory, pc, job>>
    BY WriteCounts DEF durable
  <1>2. /\ writes \in Nat /\ disk.stamp \in Nat /\ wal.stamp \in Nat /\ job.seen \in Nat
        /\ job.stamp \in Nat /\ job.log \in Nat /\ memory \in Maybe(Nat)
        /\ disk.stamp <= writes /\ wal.stamp <= writes
    BY LocalTypes DEF IInv, TypeOK, SInv, Remembered, Job
  <1>3. CASE kind # "opencode"
    <2>1. /\ wal' = wal /\ disk'.stamp = writes + 1
          /\ kind # "claude" => disk'.tail = None
      BY <1>3, FileWrite DEF SInv
    <2>2. disk'.stamp \in Nat /\ disk.stamp < disk'.stamp
      BY <1>2, <2>1
    <2>3. memory' # disk'.stamp /\ job'.seen # disk'.stamp
      BY <1>1, <1>2, <2>2, SnapshotAssumption DEF SInv, Remembered, InScan, Maybe
    <2>4. kind # "claude" /\ cursor # None => cursor'.mark \in (0 .. disk'.stamp) \X (0 .. wal'.stamp)
      BY <1>1, <1>2, <2>1, <2>2 DEF SInv, Remembered
    <2>5. kind # "claude" /\ cursor # None => cursor'.mark # Fingerprint'
      BY <1>1, <1>2, <2>1, <2>2 DEF SInv, Remembered, Fingerprint
    <2>6. memory' # None => memory' <= disk'.stamp
      BY <1>1, <1>2, <2>2 DEF SInv, Remembered, Maybe
    <2>7. Remembered'
      BY <1>1, <1>2, <1>3, <2>1, <2>3, <2>4, <2>5, <2>6 DEF SInv, Remembered
    <2>8. InScan'
      BY <1>1, <1>2, <2>1, <2>2, <2>3 DEF SInv, InScan
    <2> QED BY <2>7, <2>8
  <1>4. CASE kind = "opencode"
    <2>1. wal'.stamp = writes + 1 /\ disk'.tail = None
          /\ (disk'.stamp = disk.stamp \/ disk'.stamp = writes + 1)
      BY <1>4, LogWrite DEF SInv, Logged, Copied
    <2>2. /\ wal'.stamp \in Nat /\ wal.stamp < wal'.stamp
          /\ disk'.stamp \in Nat /\ disk.stamp <= disk'.stamp /\ disk'.stamp <= writes'
      BY <1>1, <1>2, <2>1
    <2>4. cursor # None => cursor'.mark \in (0 .. disk'.stamp) \X (0 .. wal'.stamp)
      BY <1>1, <1>2, <1>4, <2>2 DEF SInv, Remembered
    <2>5. cursor # None => cursor'.mark # Fingerprint'
      BY <1>1, <1>2, <1>4, <2>2 DEF SInv, Remembered, Fingerprint
    <2>6. memory' # None => memory' <= disk'.stamp
      BY <1>1, <1>2, <2>2 DEF SInv, Remembered, Maybe
    <2>7. Remembered'
      BY <1>1, <1>2, <1>4, <2>1, <2>2, <2>4, <2>5, <2>6 DEF Remembered
    <2>8. InScan'
      BY <1>1, <1>2, <1>4, <2>2 DEF SInv, InScan
    <2> QED BY <2>7, <2>8
  <1> QED BY <1>3, <1>4

\* What OpenCode writes is not older than any watermark.
LEMMA WriteWatermarked ==
  ASSUME IInv, SInv, Tool
  PROVE  Watermarked' /\ InOpenCode'
  <1>1. kind' = kind /\ UNCHANGED <<rows, cursor, pc, job>>
    BY WriteCounts DEF durable
  <1>2. CASE kind # "opencode"
    BY <1>1, <1>2 DEF Watermarked, InOpenCode
  <1>3. CASE kind = "opencode"
    <2>1. /\ clock \in Nat /\ job.newest \in Nat /\ (cursor # None => cursor.offset \in Nat)
          /\ \A i \in DOMAIN disk.items : disk.items[i].upd \in Nat /\ disk.items[i].upd <= clock
          /\ \A i \in DOMAIN wal.items : wal.items[i].upd \in Nat /\ wal.items[i].upd <= clock
      <3>1. /\ \A i \in DOMAIN disk.items : disk.items[i] \in Item
            /\ \A i \in DOMAIN wal.items : wal.items[i] \in Item
        BY ItemsType
      <3>2. /\ \A i \in DOMAIN disk.items : disk.items[i].upd \in Nat
            /\ \A i \in DOMAIN wal.items : wal.items[i].upd \in Nat
        BY <3>1 DEF Item
      <3>3. cursor # None => cursor.offset \in Nat
        BY DEF IInv, TypeOK, Maybe, Cursor
      <3> QED BY <3>2, <3>3, LocalTypes DEF IInv, TypeOK, Dated, Job
    <2>2. CASE Logged
      <3>1. /\ disk' = disk /\ clock' \in Nat /\ clock <= clock'
            /\ \A j \in DOMAIN wal'.items :
                 \/ j \in DOMAIN wal.items /\ Alike(wal'.items[j], wal.items[j])
                 \/ wal'.items[j].upd = clock'
        BY <2>2 DEF Logged
      <3>2. ASSUME cursor # None
            PROVE  /\ cursor'.offset <= clock'
                   /\ \A i \in DOMAIN disk'.items :
                        disk'.items[i].upd < cursor'.offset => Held(disk.items, i)'
                   /\ \A i \in DOMAIN wal'.items :
                        wal'.items[i].upd < cursor'.offset => Held(wal.items, i)'
        <4>1. cursor.offset <= clock
          BY <1>3, <3>2 DEF SInv, Watermarked
        <4>2. cursor'.offset <= clock'
          BY <1>1, <2>1, <3>1, <3>2, <4>1
        <4>3. \A i \in DOMAIN disk'.items : disk'.items[i].upd < cursor'.offset => Held(disk.items, i)'
          BY <1>1, <1>3, <3>1, <3>2 DEF SInv, Watermarked, Held
        <4>4. ASSUME NEW i \in DOMAIN wal'.items, wal'.items[i].upd < cursor'.offset
              PROVE  Held(wal.items, i)'
          <5>1. i \in DOMAIN wal.items /\ Alike(wal'.items[i], wal.items[i])
            BY <1>1, <2>1, <3>1, <3>2, <4>2, <4>4 DEF Alike
          <5> QED BY <1>1, <1>3, <3>2, <4>4, <5>1 DEF SInv, Watermarked, Held, Alike
        <4> QED BY <4>2, <4>3, <4>4
      <3>3. ASSUME NEW i \in DOMAIN wal'.items
            PROVE  SameItem(i)' \/ \A j \in DOMAIN disk'.items : disk'.items[j].upd <= wal'.items[i].upd
        <4>1. CASE wal'.items[i].upd = clock'
          BY <2>1, <3>1, <4>1
        <4>2. CASE i \in DOMAIN wal.items /\ Alike(wal'.items[i], wal.items[i])
          BY <1>3, <3>1, <4>2 DEF SInv, Watermarked, SameItem, Alike
        <4> QED BY <3>1, <3>3, <4>1, <4>2
      <3>4. Watermarked'
        BY <1>1, <3>2, <3>3 DEF Watermarked
      <3>5. pc \in {"identified", "prepared"} => job.newest <= clock /\ job'.newest <= clock'
        BY <1>1, <1>3, <2>1, <3>1 DEF SInv, InOpenCode
      <3>6. ASSUME pc = "identified", NEW i \in DOMAIN wal'.items
            PROVE  SameItem(i)' \/ job'.newest <= wal'.items[i].upd
        <4>1. CASE wal'.items[i].upd = clock'
          BY <3>5, <3>6, <4>1
        <4>2. CASE i \in DOMAIN wal.items /\ Alike(wal'.items[i], wal.items[i])
          BY <1>1, <1>3, <3>1, <3>6, <4>2 DEF SInv, InOpenCode, SameItem, Alike
        <4> QED BY <3>1, <3>6, <4>1, <4>2
      <3>7. ASSUME pc = "prepared", NEW i \in DOMAIN wal'.items, wal'.items[i].upd < job'.newest
            PROVE  Going(wal.items, i)'
        <4>1. i \in DOMAIN wal.items /\ Alike(wal'.items[i], wal.items[i])
          BY <1>1, <2>1, <3>1, <3>5, <3>7 DEF Alike
        <4> QED BY <1>1, <1>3, <3>7, <4>1 DEF SInv, InOpenCode, Going, Held, Alike
      <3>8. pc = "prepared" => \A i \in DOMAIN disk'.items :
              disk'.items[i].upd < job'.newest => Going(disk.items, i)'
        BY <1>1, <1>3, <3>1 DEF SInv, InOpenCode, Going, Held
      <3>9. InOpenCode'
        BY <1>1, <3>5, <3>6, <3>7, <3>8 DEF InOpenCode
      <3> QED BY <3>4, <3>9
    <2>3. CASE Copied
      <3>1. disk'.items = wal.items /\ wal'.items = wal.items /\ clock' = clock
        BY <2>3 DEF Copied
      <3>2. \A i \in DOMAIN wal'.items : SameItem(i)'
        BY <3>1 DEF SameItem, Alike
      <3>3. Watermarked'
        BY <1>1, <1>3, <3>1, <3>2 DEF SInv, Watermarked, Held
      <3>4. InOpenCode'
        BY <1>1, <1>3, <3>1, <3>2 DEF SInv, InOpenCode, Going, Held
      <3> QED BY <3>3, <3>4
    <2> QED BY <1>3, <2>2, <2>3, LogWrite DEF SInv
  <1> QED BY <1>2, <1>3

\* A transcript that was replaced does not come back.
LEMMA BegunKept ==
  ASSUME OneFirst, IInv, NEW m, Begun(m), Grown \/ Replaced
  PROVE  /\ \A x \in Texts : m = <<x, TRUE>> =>
              disk'.items # << >> /\ (disk'.items[1].text = x \/ disk'.items[1].text \in NewFirst)
         /\ Replaced => m # <<disk'.items[1].text, TRUE>>
  <1>1. disk.items \in Seq(Item)
    BY ItemsType
  <1>2. CASE Grown
    <2>1. disk.items # << >> =>
            disk'.items # << >> /\ 1 \in DOMAIN disk.items /\ disk'.items[1] = disk.items[1]
      BY <1>1, <1>2 DEF Grown
    <2>2. ~ Replaced
      BY <2>1 DEF Replaced
    <2> QED BY <2>1, <2>2 DEF Begun
  <1>3. CASE Replaced
    <2>1. disk'.items[1].text \in Texts
      BY <1>3, SnapshotAssumption DEF Replaced
    <2> QED BY <1>3, <2>1 DEF Replaced, Begun, OneFirst
  <1> QED BY <1>2, <1>3

LEMMA WriteAppended ==
  ASSUME OneFirst, IInv, SInv, Tool, IInv', InScan'
  PROVE  Appended' /\ InClaude'
  <1>1. kind' = kind /\ UNCHANGED <<rows, cursor, pc, job>> /\ writes' = writes + 1
    BY WriteCounts DEF durable
  <1>2. CASE kind # "claude"
    BY <1>1, <1>2 DEF Appended, InClaude
  <1>3. CASE kind = "claude"
    <2>1. Grown \/ Replaced
      BY <1>3, TranscriptWrite
    <2>2. /\ disk.items \in Seq(Item) /\ disk'.items \in Seq(Item)
          /\ Len(disk.items) \in Nat /\ Len(disk'.items) \in Nat
      <3>1. disk.items \in Seq(Item) /\ disk'.items \in Seq(Item)
        BY DEF IInv, TypeOK, File
      <3> QED BY <3>1
    <2>3. ASSUME NEW m, Begun(m), m = AppendIdentity', disk'.items # << >>
          PROVE  Grown /\ disk.items # << >> => m = AppendIdentity
      <3> SUFFICES ASSUME Grown, disk.items # << >> PROVE m = AppendIdentity
        OBVIOUS
      <3>1. 1 \in DOMAIN disk.items
        BY <2>2
      <3>2. disk'.items[1] = disk.items[1]
        BY <3>1 DEF Grown
      <3> QED BY <2>3, <3>2 DEF AppendIdentity
    <2>4. ASSUME NEW m, Begun(m), m = AppendIdentity', disk'.items # << >>
          PROVE  Grown /\ disk.items # << >>
      <3>1. m = <<disk'.items[1].text, TRUE>>
        BY <2>4 DEF AppendIdentity
      <3>2. disk'.items[1].text \in Texts
        <4>1. 1 \in DOMAIN disk'.items
          BY <2>2, <2>4
        <4> QED BY <1>1, <1>3, <4>1 DEF IInv, Written
      <3>3. disk.items # << >>
        BY <2>4, <3>1, <3>2 DEF Begun
      <3>4. ~ Replaced
        BY <2>1, <2>4, <3>1, BegunKept
      <3> QED BY <2>1, <3>3, <3>4
    <2>5. Appended'
      <3> SUFFICES ASSUME cursor # None
                   PROVE  /\ Begun(cursor.mark)'
                          /\ cursor'.mark = AppendIdentity' /\ disk'.items # << >> =>
                               /\ cursor'.offset <= Len(disk'.items)
                               /\ \A i \in 1 .. cursor'.offset : Held(disk.items, i)'
        BY <1>1, <1>3 DEF Appended
      <3>1. Begun(cursor.mark)
        BY <1>3 DEF SInv, Appended
      <3>2. Begun(cursor.mark)'
        BY <1>1, <2>1, <3>1, BegunKept DEF Begun
      <3>3. ASSUME cursor'.mark = AppendIdentity', disk'.items # << >>
            PROVE  /\ cursor'.offset <= Len(disk'.items)
                   /\ \A i \in 1 .. cursor'.offset : Held(disk.items, i)'
        <4>1. Grown /\ disk.items # << >> /\ cursor.mark = AppendIdentity
          BY <1>1, <2>3, <2>4, <3>1, <3>3
        <4>2. cursor.offset <= Len(disk.items) /\ \A i \in 1 .. cursor.offset : Held(disk.items, i)
          BY <1>3, <4>1 DEF SInv, Appended
        <4>3. cursor.offset \in Nat
          BY DEF IInv, TypeOK, Maybe, Cursor
        <4>4. \A i \in 1 .. cursor.offset : i \in DOMAIN disk.items /\ disk'.items[i] = disk.items[i]
          BY <2>2, <4>1, <4>2, <4>3 DEF Grown
        <4>5. \A i \in 1 .. cursor.offset : Held(disk.items, i)'
          BY <1>1, <4>2, <4>4 DEF Held
        <4> QED BY <1>1, <2>2, <4>1, <4>2, <4>3, <4>5 DEF Grown
      <3> QED BY <3>2, <3>3
    <2>6. pc \in {"identified", "prepared"} => Begun(job.mark) /\ Begun(job.mark)'
      <3>1. pc \in {"identified", "prepared"} => Begun(job.mark)
        BY <1>3 DEF SInv, InClaude
      <3> QED BY <1>1, <2>1, <3>1, BegunKept DEF Begun
    <2>7. pc \in {"examined", "identified"} => job'.stamp # disk'.stamp
      <3>1. disk'.stamp = writes + 1
        BY <1>3, FileWrite DEF SInv
      <3>2. /\ job.stamp \in Nat /\ disk.stamp \in Nat /\ writes \in Nat
            /\ disk.stamp <= writes
            /\ pc \in {"examined", "identified"} => job.stamp <= disk.stamp
        BY LocalTypes DEF IInv, TypeOK, SInv, Remembered, InScan, Job
      <3> QED BY <1>1, <3>1, <3>2
    <2>8. ASSUME pc = "prepared", job'.mark = AppendIdentity', disk'.items # << >>
          PROVE  job'.next <= Len(disk'.items) /\ \A i \in 1 .. job'.next : Going(disk.items, i)'
      <3>1. Grown /\ disk.items # << >> /\ job.mark = AppendIdentity
        BY <1>1, <2>3, <2>4, <2>6, <2>8
      <3>2. job.next <= Len(disk.items) /\ \A i \in 1 .. job.next : Going(disk.items, i)
        BY <1>3, <2>8, <3>1 DEF SInv, InClaude
      <3>3. job.next \in Nat
        BY LocalTypes DEF Job
      <3>4. \A i \in 1 .. job.next : i \in DOMAIN disk.items /\ disk'.items[i] = disk.items[i]
        BY <2>2, <3>1, <3>2, <3>3 DEF Grown
      <3>5. \A i \in 1 .. job.next : Going(disk.items, i)'
        BY <1>1, <3>2, <3>4 DEF Going, Held
      <3> QED BY <1>1, <2>2, <3>1, <3>2, <3>3, <3>5 DEF Grown
    <2>9. InClaude'
      BY <1>1, <2>6, <2>7, <2>8 DEF InClaude
    <2> QED BY <2>5, <2>9
  <1> QED BY <1>2, <1>3

LEMMA NextSInv ==
  ASSUME OneFirst, IInv, SInv, [Next]_vars
  PROVE  SInv'
  <1>1. CASE Tool
    <2>1. IInv'
      BY <1>1, ToolStep
    <2> QED BY <1>1, <2>1, WriteRemembered, WriteWatermarked, WriteAppended DEF SInv
  <1>2. CASE Scan
    <2>1. UNCHANGED <<native, version, faults>>
      BY <1>2 DEF Scan
    <2>2. CASE CommitRefused
      BY <2>1, <2>2, EndStep DEF CommitRefused, Leave
    <2>3. CASE Remember
      BY <2>1, <2>3, EndStep DEF Remember
    <2> QED BY <1>2, <2>1, <2>2, <2>3, VisitStep, StatStep, IdentifyStep, ReadClaudeStep,
               ReadWholeStep, ReadSessionsStep, CommitSInv DEF Scan
  <1>3. CASE Fault
    BY <1>3, EndStep DEF Fault, Fails, Leave, Restart
  <1>4. CASE UNCHANGED vars
    <2>1. UNCHANGED <<native, durable, memory, pc, job>>
      BY <1>4 DEF vars
    <2>2. InScan'
      BY <2>1 DEF SInv, InScan, Stored, Going, Held, native, durable
    <2>3. InOpenCode'
      BY <2>1 DEF SInv, InOpenCode, Going, Held, SameItem, native, durable
    <2>4. InClaude'
      BY <2>1 DEF SInv, InClaude, Going, Held, Begun, AppendIdentity, native, durable
    <2> QED BY <2>1, <2>2, <2>3, <2>4, LookStep
  <1> QED BY <1>1, <1>2, <1>3, <1>4 DEF Next

-----------------------------------------------------------------------------
(***************************************************************************)
(* A record that is read again makes the same event.                       *)
(***************************************************************************)
\* Files hold one thread, and an OpenCode part is only added after parts that
\* have their texts; the database is a copy that the log has outgrown.
Unmixed == kind # "opencode" => \A i \in DOMAIN disk.items : disk.items[i].thread = Thread0

Filled ==
  kind = "opencode" =>
    /\ disk.tail = None
    /\ Len(disk.items) <= Len(wal.items)
    /\ \A i \in DOMAIN disk.items : disk.items[i].thread = wal.items[i].thread
    /\ \A i \in 1 .. Len(disk.items) - 1 : disk.items[i].text # Empty
    /\ \A i \in 1 .. Len(wal.items) - 1 : wal.items[i].text # Empty

\* So the place of a record says all of its event that its text does not.
Settled(e) ==
  /\ Restamped(e) \/ e.stamp = 0
  /\ kind # "opencode" => e.thread = Thread0 /\ e.seq = e.offset
  /\ kind = "opencode" =>
       /\ e.offset + 1 \in DOMAIN disk.items
       /\ e.thread = disk.items[e.offset + 1].thread
       /\ e.seq = Cardinality({ j \in 1 .. e.offset : disk.items[j].thread = e.thread })

EventsSettled == kind # "continue" => \A e \in events \cup job.batch : Settled(e)

EInv == kind \in Kinds /\ Unmixed /\ Filled /\ EventsSettled

\* OpenCode parts are followed only once they have a text.
NoGaps == Gaps = FALSE \/ "opencode" \notin Kinds

LEMMA FileThreads ==
  ASSUME IInv, Unmixed, Tool, kind # "opencode"
  PROVE  Unmixed'
  <1>1. disk \in File /\ disk.items \in Seq(Item) /\ Items = disk.items /\ kind' = kind
    BY ItemsType DEF IInv, TypeOK, Items, Tool
  <1>2. ASSUME NEW item, item.thread = Thread0, disk'.items = Append(disk.items, item)
        PROVE  Unmixed'
    BY <1>1, <1>2 DEF Unmixed
  <1>3. ASSUME NEW t \in Content, NEW thread \in Threads, AppendItem(t, thread)
        PROVE  Unmixed'
    <2> DEFINE item == [text |-> t, thread |-> thread, about |-> AboutOf(thread),
                        upd |-> clock']
    <2>1. disk'.items = Append(disk.items, item) /\ item.thread = Thread0
      BY <1>1, <1>3 DEF AppendItem, Put, File
    <2> HIDE DEF item
    <2> QED BY <1>2, <2>1
  <1>4. ASSUME NEW t \in Texts, AppendPart(t)
        PROVE  Unmixed'
    <2>1. disk'.items = disk.items
      BY <1>1, <1>4 DEF AppendPart, File
    <2> QED BY <1>1, <2>1 DEF Unmixed
  <1>5. CASE FinishLine
    <2> DEFINE item == [text |-> disk.tail, thread |-> Thread0, about |-> About0, upd |-> 0]
    <2>1. disk'.items = Append(disk.items, item) /\ item.thread = Thread0
      BY <1>5 DEF FinishLine
    <2> HIDE DEF item
    <2> QED BY <1>2, <2>1
  <1>6. ASSUME NEW i \in 1 .. MaxItems, NEW t \in Texts, EditItem(i, t)
        PROVE  Unmixed'
    <2> DEFINE item  == [Items[i] EXCEPT !.text = t, !.upd = clock']
               items == [Items EXCEPT ![i] = item]
    <2>1. Put(items) /\ i \in DOMAIN disk.items /\ Items[i] \in Item
      <3>1. Put(items) /\ i \in DOMAIN Items
        BY <1>6 DEF EditItem
      <3> HIDE DEF item, items
      <3> QED BY <1>1, <3>1
    <2>2. item.thread = Thread0
      BY <1>1, <2>1 DEF Item, Unmixed
    <2> HIDE DEF item, items
    <2>3. disk'.items = items
      BY <1>1, <2>1 DEF Put, File
    <2> USE DEF items
    <2> HIDE DEF item
    <2>4. \A j \in DOMAIN items : j \in DOMAIN disk.items /\ (items[j] = item \/ items[j] = disk.items[j])
      BY <1>1, <2>1
    <2> HIDE DEF items
    <2> QED BY <1>1, <2>2, <2>3, <2>4 DEF Unmixed
  <1>7. ASSUME NEW n \in 0 .. MaxItems, Cut(n)
        PROVE  Unmixed'
    <2>1. disk'.items = SubSeq(disk.items, 1, n) /\ n \in Nat /\ n < Len(disk.items)
      BY <1>1, <1>7, SnapshotAssumption DEF Cut, File
    <2>2. \A j \in DOMAIN SubSeq(disk.items, 1, n) :
            j \in DOMAIN disk.items /\ SubSeq(disk.items, 1, n)[j] = disk.items[j]
      BY <1>1, <2>1
    <2> QED BY <1>1, <2>1, <2>2 DEF Unmixed
  <1>8. ASSUME NEW t \in NewFirst, Replace(t)
        PROVE  Unmixed'
    <2> DEFINE item == [disk.items[1] EXCEPT !.text = t]
    <2>1. disk.items # << >> /\ disk'.items = << item >>
      BY <1>8 DEF Replace
    <2>2. 1 \in DOMAIN disk.items /\ disk.items[1] \in Item
      BY <1>1, <2>1
    <2>3. item.thread = Thread0
      BY <1>1, <2>2 DEF Item, Unmixed
    <2> HIDE DEF item
    <2> QED BY <1>1, <2>1, <2>3 DEF Unmixed
  <1>9. ~ Checkpoint /\ \A thread \in Threads, about \in Abouts : ~ Describe(thread, about)
    BY DEF Checkpoint, Describe
  <1> QED BY <1>3, <1>4, <1>5, <1>6, <1>7, <1>8, <1>9 DEF Tool

\* A part never changes its session, and the database only gains parts.
SameThreads ==
  \A i \in DOMAIN disk.items :
    i \in DOMAIN disk'.items /\ disk'.items[i].thread = disk.items[i].thread

LEMMA LogThreads ==
  ASSUME IInv, Filled, Gaps = FALSE, Tool, kind = "opencode"
  PROVE  Filled' /\ SameThreads
  <1>1. /\ disk \in File /\ wal \in Log /\ Items = wal.items /\ kind' = kind
        /\ wal.items \in Seq(Item) /\ disk.items \in Seq(Item)
        /\ Len(wal.items) \in Nat /\ Len(disk.items) \in Nat
        /\ DOMAIN wal.items = 1 .. Len(wal.items) /\ DOMAIN disk.items = 1 .. Len(disk.items)
    BY ItemsType DEF IInv, TypeOK, Items, Tool
  <1>2. /\ disk.tail = None /\ Len(disk.items) <= Len(wal.items)
        /\ \A i \in DOMAIN disk.items : disk.items[i].thread = wal.items[i].thread
        /\ \A i \in 1 .. Len(disk.items) - 1 : disk.items[i].text # Empty
        /\ \A i \in 1 .. Len(wal.items) - 1 : wal.items[i].text # Empty
    BY DEF Filled
  <1>3. ASSUME NEW items \in Seq(Item), disk' = disk, wal'.items = items,
               Len(items) \in Nat, DOMAIN items = 1 .. Len(items),
               Len(wal.items) <= Len(items),
               \A i \in DOMAIN wal.items : items[i].thread = wal.items[i].thread,
               \A i \in 1 .. Len(items) - 1 : items[i].text # Empty
        PROVE  Filled' /\ SameThreads
    <2>1. SameThreads
      BY <1>3 DEF SameThreads
    <2>2. \A i \in 1 .. Len(wal'.items) - 1 : wal'.items[i].text # Empty
      BY <1>3
    <2>3. /\ disk'.tail = None /\ disk'.items = disk.items
          /\ Len(disk'.items) <= Len(wal'.items)
      BY <1>1, <1>2, <1>3
    <2>4. \A i \in DOMAIN disk.items : disk.items[i].thread = wal'.items[i].thread
      BY <1>1, <1>2, <1>3
    <2>5. Filled'
      BY <1>2, <2>2, <2>3, <2>4 DEF Filled
    <2> QED BY <2>1, <2>5
  <1>4. ASSUME NEW t \in Content, NEW thread \in Threads, AppendItem(t, thread)
        PROVE  Filled' /\ SameThreads
    <2> DEFINE item == [text |-> t, thread |-> thread, about |-> AboutOf(thread),
                        upd |-> clock']
    <2>1. disk' = disk /\ wal'.items = Append(wal.items, item)
      BY <1>1, <1>4 DEF AppendItem, Put
    <2>2. wal.items # << >> => wal.items[Len(wal.items)].text # Empty
      BY <1>1, <1>4 DEF AppendItem
    <2>3. item \in Item
      <3>1. clock' \in Nat
        BY <1>4 DEF AppendItem, Tick, IInv, TypeOK
      <3> QED BY <3>1, AboutOfType DEF Item
    <2> HIDE DEF item
    <2>4. /\ Append(wal.items, item) \in Seq(Item)
          /\ Len(Append(wal.items, item)) = Len(wal.items) + 1
          /\ \A i \in DOMAIN wal.items : Append(wal.items, item)[i] = wal.items[i]
      BY <1>1, <2>3
    <2>5. \A i \in 1 .. Len(wal.items) : wal.items[i].text # Empty
      BY <1>1, <1>2, <2>2
    <2>6. \A i \in 1 .. Len(Append(wal.items, item)) - 1 :
            Append(wal.items, item)[i].text # Empty
      BY <1>1, <2>4, <2>5
    <2> DEFINE items == Append(wal.items, item)
    <2>7. /\ items \in Seq(Item) /\ DOMAIN items = 1 .. Len(items) /\ Len(items) \in Nat
          /\ Len(wal.items) <= Len(items)
          /\ \A i \in DOMAIN wal.items : items[i].thread = wal.items[i].thread
      BY <1>1, <2>4
    <2>8. disk' = disk /\ wal'.items = items /\ \A i \in 1 .. Len(items) - 1 : items[i].text # Empty
      BY <2>1, <2>6
    <2> HIDE DEF items
    <2> QED BY <1>3, <2>7, <2>8
  <1>5. ASSUME NEW n \in 1 .. MaxItems, NEW t \in Texts, EditItem(n, t)
        PROVE  Filled' /\ SameThreads
    <2> DEFINE item  == [Items[n] EXCEPT !.text = t, !.upd = clock']
               items == [Items EXCEPT ![n] = item]
    <2>1. Put(items) /\ n \in DOMAIN wal.items /\ Items[n] \in Item
      <3>1. Put(items) /\ n \in DOMAIN Items
        BY <1>5 DEF EditItem
      <3> HIDE DEF item, items
      <3> QED BY <1>1, <3>1
    <2>2. clock' \in Nat
      BY <1>5 DEF EditItem, Tick, IInv, TypeOK
    <2>3. item \in Item /\ item.thread = wal.items[n].thread /\ item.text = t /\ t # Empty
      BY <1>1, <2>1, <2>2, SnapshotAssumption DEF Item, Content
    <2> HIDE DEF item, items
    <2>4. disk' = disk /\ wal'.items = items
      BY <2>1 DEF Put
    <2> USE DEF items
    <2>5. /\ items \in Seq(Item) /\ Len(items) = Len(wal.items)
          /\ DOMAIN items = 1 .. Len(items)
          /\ \A i \in DOMAIN wal.items : items[i] = wal.items[i] \/ (i = n /\ items[i] = item)
      BY <1>1, <2>1, <2>3
    <2> HIDE DEF items
    <2>6. \A i \in DOMAIN wal.items : items[i].thread = wal.items[i].thread
      BY <2>3, <2>5
    <2>7. \A i \in 1 .. Len(items) - 1 : items[i].text # Empty
      <3> TAKE i \in 1 .. Len(items) - 1
      <3>1. i \in DOMAIN wal.items /\ i \in 1 .. Len(wal.items) - 1
        BY <1>1, <2>5
      <3> QED BY <1>2, <2>3, <2>5, <3>1
    <2> QED BY <1>1, <1>3, <2>4, <2>5, <2>6, <2>7
  <1>6. CASE Checkpoint
    <2>1. /\ disk' = [disk EXCEPT !.items = wal.items, !.stamp = writes + 1]
          /\ wal' = [wal EXCEPT !.stamp = writes + 1]
      BY <1>6 DEF Checkpoint
    <2>2. disk'.items = wal.items /\ disk'.tail = disk.tail
      BY <1>1, <2>1 DEF File
    <2>3. wal'.items = wal.items
      BY <1>1, <2>1 DEF Log
    <2>4. SameThreads
      BY <1>1, <1>2, <2>2 DEF SameThreads
    <2>5. Filled'
      BY <1>1, <1>2, <2>2, <2>3 DEF Filled
    <2> QED BY <2>4, <2>5
  <1>7. /\ \A t \in Texts : ~ AppendPart(t)
        /\ ~ FinishLine
        /\ \A n \in 0 .. MaxItems : ~ Cut(n)
        /\ \A t \in NewFirst : ~ Replace(t)
    BY <1>2 DEF AppendPart, FinishLine, Cut, Replace
  <1>8. ASSUME NEW thread \in Threads, NEW about \in Abouts, Describe(thread, about)
        PROVE  Filled' /\ SameThreads
    <2> DEFINE items == wal'.items
    <2>1. /\ disk' = disk /\ items \in Seq(Item) /\ Len(items) = Len(wal.items)
          /\ DOMAIN items = DOMAIN wal.items
          /\ \A j \in DOMAIN wal.items : /\ items[j].text = wal.items[j].text
                                        /\ items[j].thread = wal.items[j].thread
      BY <1>8, Described DEF Alike
    <2>2. wal'.items = items
      OBVIOUS
    <2> HIDE DEF items
    <2>3. \A i \in 1 .. Len(items) - 1 : i \in DOMAIN wal.items /\ items[i].text # Empty
      BY <1>1, <1>2, <2>1
    <2> QED BY <1>1, <1>3, <2>1, <2>2, <2>3
  <1> QED BY <1>4, <1>5, <1>6, <1>7, <1>8 DEF Tool

\* What is settled stays so: no write moves a part or its session.
LEMMA SettledStays ==
  ASSUME IInv, kind' = kind, kind = "opencode" => SameThreads,
         NEW e \in Event, Settled(e)
  PROVE  Settled(e)'
  <1>1. CASE kind # "opencode"
    BY <1>1 DEF Settled, Restamped
  <1>2. CASE kind = "opencode"
    <2>1. /\ e.offset \in Nat /\ e.offset + 1 \in DOMAIN disk.items
          /\ DOMAIN disk.items = 1 .. Len(disk.items) /\ Len(disk.items) \in Nat
      BY <1>2, ItemsType DEF Settled, Restamped, Event
    <2>2. \A j \in 1 .. e.offset + 1 :
            j \in DOMAIN disk.items /\ j \in DOMAIN disk'.items
              /\ disk'.items[j].thread = disk.items[j].thread
      BY <1>2, <2>1 DEF SameThreads
    <2>3. { j \in 1 .. e.offset : disk.items[j].thread = e.thread }
            = { j \in 1 .. e.offset : disk'.items[j].thread = e.thread }
      BY <2>1, <2>2
    <2>4. e.offset + 1 \in 1 .. e.offset + 1
      BY <2>1
    <2> QED BY <1>2, <2>2, <2>3, <2>4 DEF Settled, Restamped
  <1> QED BY <1>1, <1>2

LEMMA ToolEvents ==
  ASSUME NoGaps, IInv, EInv, Tool
  PROVE  EInv'
  <1>1. UNCHANGED <<kind, events, job>>
    BY DEF Tool, durable
  <1>2. events \subseteq Event /\ job.batch \subseteq Event
    BY DEF IInv, TypeOK
  <1>3. CASE kind # "opencode"
    <2>1. Unmixed' /\ Filled'
      BY <1>1, <1>3, FileThreads DEF EInv, Filled
    <2>2. EventsSettled'
      BY <1>1, <1>2, <1>3, SettledStays DEF EInv, EventsSettled
    <2> QED BY <1>1, <2>1, <2>2 DEF EInv
  <1>4. CASE kind = "opencode"
    <2>1. Gaps = FALSE
      BY <1>4 DEF NoGaps, EInv
    <2>2. Filled' /\ SameThreads
      BY <1>4, <2>1, LogThreads DEF EInv
    <2>3. Unmixed'
      BY <1>1, <1>4 DEF Unmixed
    <2>4. EventsSettled'
      BY <1>1, <1>2, <2>2, SettledStays DEF EInv, EventsSettled
    <2> QED BY <1>1, <2>2, <2>3, <2>4 DEF EInv
  <1> QED BY <1>3, <1>4

\* The event of an item, field by field.
LEMMA EventFields ==
  ASSUME NEW i, NEW seq
  PROVE  LET e == EventOf(i, seq) IN
         /\ e.offset = i - 1 /\ e.thread = disk.items[i].thread
         /\ e.text = disk.items[i].text /\ e.seq = seq /\ e.stamp = EventStamp(i)
  BY DEF EventOf

\* Only what a scan prepares is new.
LEMMA PreparedEvents ==
  ASSUME IInv, EInv, UNCHANGED native, NEW m, NEW batch, NEW next, Prepare(m, batch, next),
         kind # "continue" => \A e \in batch : Settled(e)
  PROVE  EInv'
  <1>1. job \in Job /\ job' = [job EXCEPT !.mark = m, !.batch = batch, !.next = next]
        /\ UNCHANGED events
    BY LocalTypes DEF Prepare, durable
  <1>2. job'.batch = batch
    BY <1>1 DEF Job
  <1>3. UNCHANGED <<kind, disk, wal>>
    BY DEF native
  <1>4. EventsSettled'
    BY <1>1, <1>2, <1>3 DEF EInv, EventsSettled, Settled, Restamped
  <1> QED BY <1>3, <1>4 DEF EInv, Unmixed, Filled

LEMMA ScanEvents ==
  ASSUME IInv, EInv, Scan
  PROVE  EInv'
  <1>1. UNCHANGED <<native, kind, disk, wal>> /\ job \in Job
    BY LocalTypes DEF Scan, native
  <1>2. /\ disk.items \in Seq(Item) /\ Len(disk.items) \in Nat
        /\ DOMAIN disk.items = 1 .. Len(disk.items)
    BY ItemsType
  <1>3. ASSUME events' \cup job'.batch \subseteq events \cup job.batch
        PROVE  EInv'
    BY <1>1, <1>3 DEF EInv, Unmixed, Filled, EventsSettled, Settled, Restamped
  <1>4. NoJob.batch = {}
    BY DEF NoJob
  <1>5. CASE Visit
    <2>1. job'.batch = {} /\ events' = events
      BY <1>5 DEF Visit, NoJob, durable
    <2> QED BY <1>3, <2>1
  <1>6. CASE Stat \/ Identify
    <2>1. job'.batch = job.batch /\ events' = events
      BY <1>1, <1>6 DEF Stat, Identify, Nothing, Job, durable
    <2> QED BY <1>3, <2>1
  <1>7. CASE Commit
    <2>1. job' = job /\ events' = events \cup job.batch
      BY <1>7 DEF Commit, CommitBatch
    <2> QED BY <1>3, <2>1
  <1>8. CASE CommitRefused \/ Remember
    <2>1. job' = NoJob /\ events' = events
      BY <1>8 DEF CommitRefused, Leave, Remember, durable
    <2> QED BY <1>3, <1>4, <2>1
  <1>9. ASSUME Nothing
        PROVE  EInv'
    <2>1. job' = job /\ events' = events
      BY <1>9 DEF Nothing, durable
    <2> QED BY <1>3, <2>1
  <1>10. CASE ReadClaude
    <2> DEFINE added == Resume.start + 1 .. Len(disk.items)
               batch == { EventOf(i, Resume.next + i - Resume.start - 1) : i \in added }
    <2>1. kind = "claude" /\ \A i : EventStamp(i) = 0 \/ disk.items[i].text \in Undated
      BY <1>10 DEF ReadClaude, EventStamp
    <2>2. Resume.start \in Nat /\ Resume.next = Resume.start
      BY <2>1, ResumeIs
    <2>3. \A i \in added : Settled(EventOf(i, Resume.next + i - Resume.start - 1))
      <3> TAKE i \in added
      <3>1. i \in DOMAIN disk.items /\ Resume.next + i - Resume.start - 1 = i - 1
        BY <1>2, <2>2
      <3> QED BY <2>1, <3>1, EventFields DEF Settled, Restamped, EInv, Unmixed
    <2>4. Nothing \/ Prepare(job.mark, batch, Resume.next + Cardinality(added))
      BY <1>10 DEF ReadClaude
    <2>5. \A e \in batch : Settled(e)
      BY <2>3
    <2> HIDE DEF batch, added
    <2> QED BY <1>1, <1>9, <2>4, <2>5, PreparedEvents
  <1>11. CASE ReadWhole
    <2> DEFINE batch == { EventOf(i, i - 1) : i \in DOMAIN disk.items }
    <2>1. kind \in {"continue", "agy"}
          /\ Prepare(<<job.stamp, job.log>>, batch, Len(disk.items))
      BY <1>11 DEF ReadWhole
    <2>2. ASSUME kind # "continue", NEW i \in DOMAIN disk.items
          PROVE  Settled(EventOf(i, i - 1))
      BY <2>1, <2>2, EventFields DEF Settled, Restamped, EInv, Unmixed, EventStamp
    <2>3. kind # "continue" => \A e \in batch : Settled(e)
      BY <2>2
    <2> HIDE DEF batch
    <2> QED BY <1>1, <2>1, <2>3, PreparedEvents
  <1>12. CASE ReadSessions
    <2> DEFINE read  == { i \in DOMAIN disk.items :
                            /\ disk.items[i].text # Empty
                            /\ UpdatedSince(disk.items[i].thread, Watermark) }
               batch == { EventOf(i, Rank(i)) : i \in read }
    <2>1. kind = "opencode" /\ Prepare(<<job.stamp, job.log>>, batch, Cardinality(read))
      BY <1>12 DEF ReadSessions
    <2>2. ASSUME NEW i \in DOMAIN disk.items
          PROVE  Settled(EventOf(i, Rank(i)))
      <3> DEFINE e == EventOf(i, Rank(i))
      <3>1. /\ e.offset = i - 1 /\ e.thread = disk.items[i].thread
            /\ e.seq = Rank(i) /\ e.stamp = 0 /\ i \in Nat
        BY <1>2, <2>1, <2>2, EventFields DEF EventStamp
      <3>2. \A j \in 1 .. i - 1 : disk.items[j].text # Empty
        BY <1>2, <2>1, <2>2 DEF EInv, Filled
      <3>3. { j \in 1 .. i - 1 : /\ disk.items[j].thread = disk.items[i].thread
                                 /\ disk.items[j].text # Empty }
              = { j \in 1 .. e.offset : disk.items[j].thread = e.thread }
        BY <3>1, <3>2
      <3>4. e.seq = Cardinality({ j \in 1 .. e.offset : disk.items[j].thread = e.thread })
        BY <3>1, <3>3 DEF Rank
      <3>5. e.offset + 1 = i
        BY <3>1
      <3> HIDE DEF e
      <3>6. Settled(e)
        BY <2>1, <2>2, <3>1, <3>4, <3>5 DEF Settled, Restamped
      <3> QED BY <3>6 DEF e
    <2>3. \A e \in batch : Settled(e)
      BY <2>2
    <2> HIDE DEF batch, read
    <2> QED BY <1>1, <2>1, <2>3, PreparedEvents
  <1> QED BY <1>5, <1>6, <1>7, <1>8, <1>10, <1>11, <1>12 DEF Scan

LEMMA FaultEvents ==
  ASSUME IInv, EInv, Fault
  PROVE  EInv'
  <1>1. UNCHANGED <<kind, disk, wal, events>> /\ job' = NoJob
    BY DEF Fault, Fails, Restart, Leave, native, durable
  <1>2. job'.batch = {}
    BY <1>1 DEF NoJob
  <1> QED BY <1>1, <1>2 DEF EInv, Unmixed, Filled, EventsSettled, Settled, Restamped

-----------------------------------------------------------------------------
(***************************************************************************)
(* Snapshots fill the ledger.                                              *)
(***************************************************************************)
\* What is stored, and the mark of the source, as the ledger sees them.
LedgerStored == { <<"source", r.offset>> : r \in rows }
LedgerMark   == [s \in {"source"} |->
                  IF cursor = None THEN None
                  ELSE <<s, IF kind = "opencode" THEN 0 ELSE cursor.next>>]

LEMMA LedgerStep ==
  ASSUME IInv, Commit, UNCHANGED <<native, version, faults>>
  PROVE  Ledger!Advance("source")
  <1>1. /\ IInv' /\ rows \subseteq rows' /\ cursor' \in Cursor
    BY CommitStep
  <1>2. LedgerStored \subseteq LedgerStored'
    BY <1>1 DEF LedgerStored
  <1>3. cursor' # None /\ cursor'.next \in Nat
    BY <1>1, SnapshotAssumption DEF Cursor
  <1> DEFINE n == IF kind' = "opencode" THEN 0 ELSE cursor'.next
  <1>4. LedgerMark'["source"] = <<"source", n>> /\ n \in Nat
    BY <1>3 DEF LedgerMark
  <1>5. LedgerMark'["source"] # None
    <2>1. <<"source", n>> \in {"source"} \X Nat
      BY <1>4
    <2> QED BY <1>4, <2>1, SnapshotAssumption
  <1>6. \A i \in 0 .. n - 1 : <<"source", i>> \in LedgerStored'
    <2> SUFFICES ASSUME NEW i \in 0 .. n - 1
                 PROVE  <<"source", i>> \in LedgerStored'
      OBVIOUS
    <2>1. kind' # "opencode" /\ i \in Nat /\ i < cursor'.next
      BY <1>3
    <2>2. HasRow(i)'
      BY <1>1, <1>3, <2>1 DEF IInv, Marked
    <2> QED BY <2>2 DEF HasRow, LedgerStored
  <1> HIDE DEF n
  <1>7. Ledger!Covered(LedgerMark'["source"], LedgerStored')
    BY <1>4, <1>6 DEF Ledger!Covered
  <1> QED BY <1>2, <1>5, <1>7 DEF Ledger!Advance, LedgerStored, LedgerMark

\* Snapshots keep the promises of the ledger, whatever kind of source.
THEOREM ImplementsLedger == Spec => LedgerSpec
  <1>1. Init => Ledger!Init
    BY DEF Init, Ledger!Init
  <1>2. ASSUME IInv, [Next]_vars
        PROVE  [Ledger!Next]_(Ledger!vars)
    <2>1. CASE Scan /\ Commit
      <3>1. Ledger!Advance("source")
        BY <1>2, <2>1, LedgerStep DEF Scan
      <3> QED BY <3>1 DEF Ledger!Next
    <2>2. CASE UNCHANGED <<rows, cursor, kind>>
      BY <2>2 DEF Ledger!vars
    <2>3. CASE Scan /\ ~ Commit
      <3>1. UNCHANGED <<rows, cursor, kind>>
        BY <2>3 DEF Scan, Visit, Stat, Nothing, Identify, ReadClaude, ReadWhole, ReadSessions,
                    Prepare, CommitRefused, Leave, Remember, native, durable
      <3> QED BY <2>2, <3>1
    <2>4. CASE Tool
      BY <2>2, <2>4 DEF Tool, durable
    <2>5. CASE Fault
      BY <2>2, <2>5 DEF Fault, Fails, Restart, Leave, native, durable
    <2>6. CASE UNCHANGED vars
      BY <2>2, <2>6 DEF vars, native, durable
    <2> QED BY <1>2, <2>1, <2>3, <2>4, <2>5, <2>6 DEF Next
  <1> QED BY <1>1, <1>2, Invariant, PTL DEF Spec, LedgerSpec, Ledger!Spec

\* The tables, the files and the locals of a scan keep their types.
THEOREM TypeCorrect == Spec => []TypeOK
  <1>1. IInv => TypeOK
    BY DEF IInv
  <1> QED BY <1>1, Invariant, PTL

\* A source is passed over only when all it holds is stored, provided that no
\* transcript is replaced by one with the first line of an earlier one.
THEOREM SkipsAreSound ==
  ASSUME OneFirst
  PROVE  Spec => []SkipSound
  <1>1. Init => IInv /\ SInv
    BY InitIInv, InitSInv
  <1>2. ASSUME IInv /\ SInv, [Next]_vars
        PROVE  (IInv /\ SInv)'
    BY <1>2, NextStep, NextSInv
  <1>3. ASSUME IInv, SInv
        PROVE  SkipSound
    <2> SUFFICES ASSUME ~ Stored PROVE SkipSound
      BY DEF SkipSound
    <2>1. kind # "opencode" => memory # disk.stamp
      BY <1>3 DEF SInv, Remembered
    <2>2. ASSUME cursor # None, kind # "claude"
          PROVE  cursor.mark # Fingerprint
      BY <1>3, <2>2 DEF SInv, Remembered
    <2>3. ASSUME cursor # None, kind = "claude", cursor.mark = AppendIdentity
          PROVE  cursor.offset # Len(disk.items)
      <3>1. disk.items # << >> /\ DOMAIN disk.items = 1 .. Len(disk.items)
        BY <1>3, ItemsType DEF Stored
      <3>2. \A i \in 1 .. cursor.offset : Held(disk.items, i)
        BY <1>3, <2>3, <3>1 DEF SInv, Appended
      <3> QED BY <3>1, <3>2 DEF Stored, Held
    <2> QED BY <2>1, <2>2, <2>3 DEF SkipSound
  <1> QED BY <1>1, <1>2, <1>3, PTL DEF Spec

\* A record that is read again, byte for byte, makes the event it made before, for
\* transcripts, histories and the parts of OpenCode, whatever is added, edited,
\* retitled, trimmed or checkpointed between the reads, unless it is stamped with
\* the time of its file; provided that no part is followed while it is empty, for
\* then the numbers of the later ones change.  (compute_event_id, insert_raw.)
THEOREM ReplaysMakeOneEvent ==
  ASSUME NoGaps
  PROVE  Spec => []OneEvent
  <1>1. Init => EInv
    <2> SUFFICES ASSUME Init PROVE EInv
      OBVIOUS
    <2>1. /\ disk.items = << >> /\ wal.items = << >> /\ disk.tail = None
          /\ events = {} /\ job.batch = {}
      BY DEF Init, NoJob
    <2> QED BY <2>1 DEF Init, EInv, Unmixed, Filled, EventsSettled
  <1>2. ASSUME IInv, EInv, [Next]_vars
        PROVE  EInv'
    <2>1. CASE UNCHANGED vars
      BY <1>2, <2>1 DEF vars, native, durable, EInv, Unmixed, Filled, EventsSettled, Settled, Restamped
    <2> QED BY <1>2, <2>1, ToolEvents, ScanEvents, FaultEvents DEF Next
  <1>3. ASSUME IInv, EInv
        PROVE  OneEvent
    <2> SUFFICES ASSUME NEW e \in events, NEW f \in events, SameRecord(e, f), ~ Restamped(e)
                 PROVE  e = f
      BY DEF OneEvent
    <2>1. kind # "continue" /\ e.offset = f.offset /\ e.text = f.text /\ e.about = f.about
          /\ ~ Restamped(f)
      BY DEF SameRecord, Restamped
    <2>2. e \in Event /\ f \in Event /\ Settled(e) /\ Settled(f)
      BY <1>3, <2>1 DEF IInv, TypeOK, EInv, EventsSettled
    <2>3. e.thread = f.thread
      BY <2>1, <2>2 DEF Settled
    <2>4. e.seq = f.seq /\ e.stamp = f.stamp
      BY <2>1, <2>2, <2>3 DEF Settled
    <2> QED BY <2>1, <2>2, <2>3, <2>4 DEF Event
  <1>4. Spec => []EInv
    <2>1. IInv /\ EInv /\ [Next]_vars => EInv'
      BY <1>2
    <2> QED BY <1>1, <2>1, Invariant, PTL DEF Spec
  <1>5. IInv /\ EInv => OneEvent
    BY <1>3
  <1> QED BY <1>4, <1>5, Invariant, PTL
=============================================================================
