------------------------- MODULE RemoteIngestProofs -------------------------
(***************************************************************************)
(* Proofs about RemoteIngest for any number of collectors, sources,        *)
(* requests in flight, attempts and faults.                                *)
(***************************************************************************)
EXTENDS RemoteIngest, TLAPS

\* n is a boundary in source x with everything before it stored.
Boundary(x, n, ls, rs) ==
  n <= ls[x] /\ \A k \in 0 .. n - 1 : <<x, k>> \in rs

\* The batch [from, to) continues what is stored of x with lines that x has.
Continues(x, from, to, ls, rs) ==
  Boundary(x, from, ls, rs) /\ from <= to /\ to <= ls[x]

\* What holds of a request wherever it is, however late it is handled.
Sound(r, ls, rs, revokedNow) ==
  /\ Continues(<<r.owner, r.name>>, r.from, r.to, ls, rs)
  /\ r.cursor # None => Boundary(<<r.owner, r.name>>, r.cursor, ls, rs)
  /\ r.late => /\ r.owner \in revokedNow
               /\ r.stage # "admitted" /\ r.outcome # "accepted"

Requests ==
  \A i \in 1 .. Slots : requests[i] # None => Sound(requests[i], lines, rows, revoked)

\* A batch that will be sent again is as sound as the first time.
Scans ==
  \A c \in Collectors : Continues(<<c, scan[c].name>>, scan[c].from, scan[c].to, lines, rows)

Cursors ==
  \A x \in Sources : cursors[x] # None => Boundary(x, cursors[x], lines, rows)

\* A collector waits for a request of its own, which no other one takes away.
Waiters ==
  \A c \in Collectors : Waiting(c) =>
    /\ scan[c].slot \in 1 .. Slots
    /\ requests[scan[c].slot] # None
    /\ requests[scan[c].slot].owner = c
    /\ requests[scan[c].slot].name = scan[c].name
    /\ requests[scan[c].slot].live

IInv == TypeOK /\ Requests /\ Scans /\ Cursors /\ Waiters

-----------------------------------------------------------------------------
(***************************************************************************)
(* Lines, boundaries and requests.                                         *)
(***************************************************************************)
\* Line numbers are natural numbers, and 0 is one where there is a source.
LEMMA LinesNat == Lines \subseteq Nat
  BY RemoteAssumption DEF Lines

LEMMA ZeroLine ==
  ASSUME NEW x \in Sources, NEW n \in 0 .. MaxLines[x]
  PROVE  n \in Lines /\ 0 \in Lines
  <1>1. MaxLines[x] \in Nat
    BY RemoteAssumption
  <1>2. 0 \in 0 .. MaxLines[x]
    BY <1>1
  <1> QED BY <1>2 DEF Lines

\* The initial name is a name.
LEMMA SomeName == (CHOOSE s \in Names : TRUE) \in Names
  <1>1. \E s \in Names : TRUE
    BY RemoteAssumption
  <1> QED BY <1>1

LEMMA FreeSlotType ==
  ASSUME FreeSlots # {}
  PROVE  FreeSlot \in 1 .. Slots /\ requests[FreeSlot] = None
  <1>1. \E i \in FreeSlots : TRUE
    OBVIOUS
  <1>2. FreeSlot \in FreeSlots
    BY <1>1 DEF FreeSlot
  <1> QED BY <1>2 DEF FreeSlots

\* What is sound stays sound while sources grow, rows accumulate and tokens
\* are revoked.
LEMMA SoundKept ==
  ASSUME TypeOK, TypeOK', \A x \in Sources : lines[x] <= lines'[x],
         rows \subseteq rows', revoked \subseteq revoked'
  PROVE  /\ \A x \in Sources, n \in Lines : Boundary(x, n, lines, rows) =>
              Boundary(x, n, lines', rows')
         /\ \A x \in Sources, from \in Lines, to \in Lines :
              Continues(x, from, to, lines, rows) => Continues(x, from, to, lines', rows')
         /\ \A r \in Request : Sound(r, lines, rows, revoked) => Sound(r, lines', rows', revoked')
  <1>1. \A x \in Sources : lines[x] \in Nat /\ lines'[x] \in Nat
    BY LinesNat DEF TypeOK
  <1>2. \A x \in Sources, n \in Lines : Boundary(x, n, lines, rows) =>
          Boundary(x, n, lines', rows')
    BY <1>1, LinesNat DEF Boundary
  <1>3. \A x \in Sources, from \in Lines, to \in Lines :
          Continues(x, from, to, lines, rows) => Continues(x, from, to, lines', rows')
    BY <1>1, <1>2, LinesNat DEF Continues
  <1>4. \A r \in Request : Sound(r, lines, rows, revoked) => Sound(r, lines', rows', revoked')
    <2> SUFFICES ASSUME NEW r \in Request, Sound(r, lines, rows, revoked)
                 PROVE  Sound(r, lines', rows', revoked')
      OBVIOUS
    <2>1. /\ <<r.owner, r.name>> \in Sources /\ r.from \in Lines /\ r.to \in Lines
          /\ r.cursor # None => r.cursor \in Lines
      BY DEF Request, Sources
    <2> QED BY <1>2, <1>3, <2>1 DEF Sound
  <1> QED BY <1>2, <1>3, <1>4

\* Line 0 is a boundary of every source.
LEMMA ZeroBoundary ==
  ASSUME TypeOK, NEW x \in Sources
  PROVE  0 \in Lines /\ Continues(x, 0, 0, lines, rows)
  <1>1. lines[x] \in Nat
    BY LinesNat DEF TypeOK
  <1>2. 0 \in Lines
    <2>1. MaxLines[x] \in Nat
      BY RemoteAssumption
    <2>2. 0 \in 0 .. MaxLines[x]
      BY <2>1
    <2> QED BY <2>2 DEF Lines
  <1> QED BY <1>1, <1>2 DEF Continues, Boundary

\* A request as it is sent.
LEMMA NewRequestType ==
  ASSUME TypeOK, NEW c \in Collectors, NEW kind \in {"cursor", "batch"}, NEW s \in Names,
         NEW from \in Lines, NEW to \in Lines, NEW attempt \in Nat,
         Continues(<<c, s>>, from, to, lines, rows)
  PROVE  LET r == NewRequest(c, kind, s, from, to, attempt) IN
         /\ r \in Request /\ r # None /\ Sound(r, lines, rows, revoked)
         /\ r.owner = c /\ r.name = s /\ r.live
  <1> DEFINE r == NewRequest(c, kind, s, from, to, attempt)
  <1>1. (attempt = MaxAttempts) \in BOOLEAN /\ (c \in revoked) \in BOOLEAN
    OBVIOUS
  <1>2. r \in Request
    BY <1>1 DEF NewRequest, Request, Stage
  <1>3. /\ r.owner = c /\ r.name = s /\ r.live /\ r.from = from /\ r.to = to /\ r.cursor = None
        /\ r.stage = "sent" /\ r.outcome = None /\ r.late = (c \in revoked)
    BY DEF NewRequest
  <1>4. None # "accepted"
    BY RemoteAssumption DEF Outcome
  <1>5. Sound(r, lines, rows, revoked)
    BY <1>3, <1>4 DEF Sound
  <1>6. r # None
    BY <1>2, RemoteAssumption
  <1> QED BY <1>2, <1>3, <1>5, <1>6

-----------------------------------------------------------------------------
(***************************************************************************)
(* Init, and steps of a collector.                                         *)
(***************************************************************************)
\* Nothing is stored, nobody waits.
LEMMA InitIInv == Init => IInv
  <1> SUFFICES ASSUME Init PROVE IInv
    OBVIOUS
  <1>1. \A x \in Sources : 0 \in Lines
    <2> SUFFICES ASSUME NEW x \in Sources PROVE 0 \in Lines
      OBVIOUS
    <2>1. MaxLines[x] \in Nat
      BY RemoteAssumption
    <2>2. 0 \in 0 .. MaxLines[x]
      BY <2>1
    <2> QED BY <2>2 DEF Lines
  <1>2. lines = [x \in Sources |-> 0] /\ lines \in [Sources -> Lines]
    BY <1>1 DEF Init
  <1>3. \A c \in Collectors : /\ scan[c].name \in Names /\ scan[c].from = 0 /\ scan[c].to = 0
                              /\ scan[c].slot = 0 /\ scan[c].attempt = 0
                              /\ <<c, scan[c].name>> \in Sources
    BY SomeName DEF Init, Sources
  <1>4. scan \in [Collectors -> Scan]
    <2> SUFFICES ASSUME NEW c \in Collectors PROVE scan[c] \in Scan
      BY DEF Init
    <2>1. 0 \in Lines
      BY <1>1, <1>3
    <2>2. 0 \in 0 .. Slots
      BY RemoteAssumption
    <2> QED BY <2>1, <2>2, SomeName DEF Init, Scan
  <1>5. TypeOK
    BY <1>2, <1>4 DEF Init, TypeOK
  <1>6. Scans
    BY <1>3, <1>5, ZeroBoundary DEF Scans
  <1>7. Requests /\ Cursors /\ Waiters
    BY DEF Init, Requests, Cursors, Waiters, Waiting
  <1> QED BY <1>5, <1>6, <1>7 DEF IInv

\* A scan that is left holds no batch.
LEMMA LeaveType ==
  ASSUME TypeOK, NEW c \in Collectors, Leave(c)
  PROVE  /\ pc' = [pc EXCEPT ![c] = "idle"]
         /\ scan' \in [Collectors -> Scan]
         /\ scan'[c].from = 0 /\ scan'[c].to = 0 /\ scan'[c].name = scan[c].name
         /\ \A e \in Collectors \ {c} : scan'[e] = scan[e]
  <1> DEFINE left == [scan[c] EXCEPT !.slot = 0, !.from = 0, !.to = 0, !.attempt = 0]
  <1>1. pc' = [pc EXCEPT ![c] = "idle"]
    BY DEF Leave
  <1>2. scan' = [scan EXCEPT ![c] = left]
    BY DEF Leave, TypeOK
  <1>3. scan[c] \in Scan
    BY DEF TypeOK
  <1>4. 0 \in Lines
    <2>1. <<c, scan[c].name>> \in Sources
      BY <1>3 DEF Scan, Sources
    <2> QED BY <2>1, ZeroBoundary
  <1>5. 0 \in 0 .. Slots
    BY RemoteAssumption
  <1>6. left \in Scan /\ left.from = 0 /\ left.to = 0 /\ left.name = scan[c].name
    BY <1>3, <1>4, <1>5 DEF Scan
  <1> HIDE DEF left
  <1>7. scan' \in [Collectors -> Scan] /\ scan'[c] = left
        /\ \A e \in Collectors \ {c} : scan'[e] = scan[e]
    BY <1>6, <1>2 DEF TypeOK
  <1> QED BY <1>1, <1>6, <1>7

\* A collector sends a sound request into a free slot, which nobody awaits.
LEMMA SendStep ==
  ASSUME IInv, NEW c \in Collectors, NEW kind \in {"cursor", "batch"}, NEW s \in Names,
         NEW from \in Lines, NEW to \in Lines, NEW attempt \in Nat,
         NEW at \in {"looking", "pushing"},
         Continues(<<c, s>>, from, to, lines, rows),
         Send(c, kind, s, from, to, attempt, at), UNCHANGED <<lines, durable, faults>>
  PROVE  IInv'
  <1> DEFINE r == NewRequest(c, kind, s, from, to, attempt)
             next == [name |-> s, attempt |-> attempt, slot |-> FreeSlot, from |-> from, to |-> to]
  <1>1. /\ r \in Request /\ r # None /\ Sound(r, lines, rows, revoked)
        /\ r.owner = c /\ r.name = s /\ r.live
    BY NewRequestType DEF IInv
  <1>2. FreeSlot \in 1 .. Slots /\ requests[FreeSlot] = None
    BY FreeSlotType DEF Send
  <1> HIDE DEF r
  <1>3. /\ requests' = [requests EXCEPT ![FreeSlot] = r]
        /\ scan' = [scan EXCEPT ![c] = next]
        /\ pc' = [pc EXCEPT ![c] = at]
    BY DEF Send, r
  <1>4. next \in Scan /\ next.name = s /\ next.slot = FreeSlot /\ next.from = from /\ next.to = to
    BY <1>2, RemoteAssumption DEF Scan
  <1> HIDE DEF next
  <1>5. /\ requests' \in [1 .. Slots -> Request \cup {None}] /\ requests'[FreeSlot] = r
        /\ \A i \in 1 .. Slots : i # FreeSlot => requests'[i] = requests[i]
    BY <1>1, <1>2, <1>3 DEF IInv, TypeOK
  <1>6. /\ scan' \in [Collectors -> Scan] /\ scan'[c] = next
        /\ \A e \in Collectors \ {c} : scan'[e] = scan[e]
    BY <1>3, <1>4 DEF IInv, TypeOK
  <1>7. /\ pc' \in [Collectors -> {"idle", "looking", "pushing", "retrying"}]
        /\ \A e \in Collectors \ {c} : pc'[e] = pc[e]
    BY <1>3 DEF IInv, TypeOK
  <1>8. Requests'
    BY <1>1, <1>2, <1>5 DEF IInv, Requests, durable
  <1>9. Scans'
    BY <1>4, <1>6 DEF IInv, Scans, durable
  <1>10. Cursors'
    BY DEF IInv, Cursors, durable
  <1>11. Waiters'
    <2> SUFFICES ASSUME NEW e \in Collectors, Waiting(e)'
                 PROVE  /\ scan'[e].slot \in 1 .. Slots
                        /\ requests'[scan'[e].slot] # None
                        /\ requests'[scan'[e].slot].owner = e
                        /\ requests'[scan'[e].slot].name = scan'[e].name
                        /\ requests'[scan'[e].slot].live
      BY DEF Waiters
    <2>1. CASE e = c
      BY <1>1, <1>2, <1>4, <1>5, <1>6, <2>1
    <2>2. CASE e # c
      <3>1. Waiting(e) /\ scan'[e] = scan[e]
        BY <1>6, <1>7, <2>2 DEF Waiting
      <3>2. scan[e].slot # FreeSlot /\ scan[e].slot \in 1 .. Slots
        BY <1>2, <3>1 DEF IInv, Waiters
      <3> QED BY <1>5, <3>1, <3>2 DEF IInv, Waiters
    <2> QED BY <2>1, <2>2
  <1>12. TypeOK'
    BY <1>5, <1>6, <1>7, <1>11 DEF IInv, TypeOK, durable, Waiters, Waiting
  <1> QED BY <1>8, <1>9, <1>10, <1>11, <1>12 DEF IInv

\* A collector stops waiting: its request is gone, or goes on without it.
LEMMA ReleaseStep ==
  ASSUME IInv, NEW c \in Collectors,
         UNCHANGED <<lines, durable>>, faults' \in Nat,
         requests' \in [1 .. Slots -> Request \cup {None}],
         \A i \in 1 .. Slots : requests'[i] # requests[i] => Waiting(c) /\ i = scan[c].slot,
         Waiting(c) /\ requests'[scan[c].slot] # None =>
           Sound(requests'[scan[c].slot], lines, rows, revoked),
         \/ Leave(c)
         \/ pc' = [pc EXCEPT ![c] = "retrying"] /\ UNCHANGED scan
  PROVE  IInv'
  <1>1. /\ scan' \in [Collectors -> Scan]
        /\ \A e \in Collectors \ {c} : scan'[e] = scan[e]
        /\ scan'[c].name = scan[c].name
        /\ \/ scan'[c].from = 0 /\ scan'[c].to = 0
           \/ scan'[c].from = scan[c].from /\ scan'[c].to = scan[c].to
    BY LeaveType DEF IInv, TypeOK
  <1>2. /\ pc' \in [Collectors -> {"idle", "looking", "pushing", "retrying"}]
        /\ pc'[c] \in {"idle", "retrying"}
        /\ \A e \in Collectors \ {c} : pc'[e] = pc[e]
    BY DEF IInv, TypeOK, Leave
  <1>3. Requests'
    BY DEF IInv, Requests, durable
  <1>4. Cursors'
    BY DEF IInv, Cursors, durable
  <1>5. Scans'
    <2>1. scan[c].name \in Names
      BY DEF IInv, TypeOK, Scan
    <2>2. Continues(<<c, scan[c].name>>, 0, 0, lines, rows)
      BY <2>1, ZeroBoundary DEF IInv, Sources
    <2> QED BY <1>1, <2>2 DEF IInv, Scans, durable
  <1>6. Waiters'
    <2> SUFFICES ASSUME NEW e \in Collectors, Waiting(e)'
                 PROVE  /\ scan'[e].slot \in 1 .. Slots
                        /\ requests'[scan'[e].slot] # None
                        /\ requests'[scan'[e].slot].owner = e
                        /\ requests'[scan'[e].slot].name = scan'[e].name
                        /\ requests'[scan'[e].slot].live
      BY DEF Waiters
    <2>1. e # c
      BY <1>2 DEF Waiting
    <2>2. Waiting(e) /\ scan'[e] = scan[e]
      BY <1>1, <1>2, <2>1 DEF Waiting
    <2>3. (Waiting(c) => scan[e].slot # scan[c].slot) /\ scan[e].slot \in 1 .. Slots
      BY <2>1, <2>2 DEF IInv, Waiters
    <2> QED BY <2>2, <2>3 DEF IInv, Waiters
  <1>7. TypeOK'
    BY <1>1, <1>2, <1>6 DEF IInv, TypeOK, durable, Waiters, Waiting
  <1> QED BY <1>3, <1>4, <1>5, <1>6, <1>7 DEF IInv

\* StartScan asks for the cursor: a batch of nothing.
LEMMA StartScanStep ==
  ASSUME IInv, NEW c \in Collectors, NEW s \in Names, Begin(c, s)
  PROVE  IInv'
  <1>1. <<c, s>> \in Sources
    BY DEF Sources
  <1>2. 0 \in Lines /\ Continues(<<c, s>>, 0, 0, lines, rows)
    BY <1>1, ZeroBoundary DEF IInv
  <1> QED BY <1>2, SendStep DEF Begin, StartScan

\* The awaited request is the collector's own, and sound.
LEMMA AwaitedType ==
  ASSUME IInv, NEW c \in Collectors, Waiting(c)
  PROVE  /\ scan[c].slot \in 1 .. Slots /\ scan[c] \in Scan
         /\ Awaited(c) = requests[scan[c].slot] /\ Awaited(c) \in Request
         /\ Awaited(c).owner = c /\ Awaited(c).name = scan[c].name /\ scan[c].name \in Names
         /\ Sound(Awaited(c), lines, rows, revoked)
  BY DEF IInv, TypeOK, Waiters, Requests, Awaited, Scan

\* The batch that is prepared from a cursor continues what is stored.
LEMMA PreparedBatch ==
  ASSUME IInv, NEW c \in Collectors, pc[c] = "looking",
         ~ NothingNew(c, Awaited(c).name, Awaited(c).cursor)
  PROVE  LET from == FirstLine(c, Awaited(c).name, Awaited(c).cursor)
             to   == lines[<<c, Awaited(c).name>>]
         IN /\ from \in Lines /\ to \in Lines
            /\ Continues(<<c, scan[c].name>>, from, to, lines, rows)
  <1> DEFINE r == Awaited(c)
             from == FirstLine(c, r.name, r.cursor)
             to == lines[<<c, r.name>>]
             x == <<c, r.name>>
  <1>1. /\ r \in Request /\ r.owner = c /\ r.name = scan[c].name
        /\ Sound(r, lines, rows, revoked)
    BY AwaitedType DEF Waiting
  <1>2. x \in Sources /\ r.cursor \in Lines \cup {None}
    BY <1>1 DEF Request, Sources
  <1> HIDE DEF r
  <1>3. to \in Lines /\ to \in Nat
    BY <1>2, LinesNat DEF IInv, TypeOK
  <1>4. 0 \in Lines /\ Continues(x, 0, 0, lines, rows)
    BY <1>2, ZeroBoundary DEF IInv
  <1>5. r.cursor # None => Boundary(x, r.cursor, lines, rows) /\ r.cursor \in Nat
    BY <1>1, <1>2, LinesNat DEF Sound
  <1>6. from \in Lines /\ Boundary(x, from, lines, rows)
    BY <1>2, <1>4, <1>5 DEF FirstLine, Continues
  <1>7. from \in Nat /\ from <= to
    BY <1>3, <1>6, LinesNat DEF Boundary
  <1> QED BY <1>1, <1>3, <1>6, <1>7 DEF Continues, r

\* A collector goes on with the batch in the slot of the lookup.
LEMMA GetCursorStep ==
  ASSUME IInv, NEW c \in Collectors, GetCursor(c), UNCHANGED <<lines, durable, faults>>
  PROVE  IInv'
  <1> DEFINE at == scan[c].slot
             from == FirstLine(c, Awaited(c).name, Awaited(c).cursor)
             to == lines[<<c, Awaited(c).name>>]
  <1>1. Waiting(c) /\ pc[c] = "looking"
    BY DEF GetCursor, Waiting
  <1>2. /\ at \in 1 .. Slots /\ scan[c] \in Scan /\ scan[c].name \in Names
        /\ Awaited(c).name = scan[c].name
    BY <1>1, AwaitedType
  <1>3. CASE NothingNew(c, Awaited(c).name, Awaited(c).cursor)
    <2>1. requests' = [requests EXCEPT ![at] = None] /\ Leave(c)
      BY <1>3 DEF GetCursor
    <2>2. /\ requests' \in [1 .. Slots -> Request \cup {None}] /\ requests'[at] = None
          /\ \A i \in 1 .. Slots : requests'[i] # requests[i] => Waiting(c) /\ i = scan[c].slot
      BY <1>1, <1>2, <2>1 DEF IInv, TypeOK
    <2>3. faults' \in Nat
      BY DEF IInv, TypeOK
    <2> QED BY <1>1, <2>1, <2>2, <2>3, ReleaseStep
  <1>4. CASE ~ NothingNew(c, Awaited(c).name, Awaited(c).cursor)
    <2> DEFINE r == NewRequest(c, "batch", Awaited(c).name, from, to, 0)
               next == [scan[c] EXCEPT !.attempt = 0, !.from = from, !.to = to]
    <2>1. from \in Lines /\ to \in Lines /\ Continues(<<c, scan[c].name>>, from, to, lines, rows)
      BY <1>1, <1>4, PreparedBatch
    <2> HIDE DEF from, to
    <2>2. /\ r \in Request /\ r # None /\ Sound(r, lines, rows, revoked)
          /\ r.owner = c /\ r.name = scan[c].name /\ r.live
      BY <1>2, <2>1, NewRequestType DEF IInv
    <2>3. /\ next \in Scan /\ next.name = scan[c].name /\ next.slot = at
          /\ next.from = from /\ next.to = to
      BY <1>2, <2>1 DEF Scan
    <2>4. /\ requests' = [requests EXCEPT ![at] = r]
          /\ scan' = [scan EXCEPT ![c] = next]
          /\ pc' = [pc EXCEPT ![c] = "pushing"]
      BY <1>4 DEF GetCursor, from, to, IInv, TypeOK
    <2> HIDE DEF r, next
    <2>5. /\ requests' \in [1 .. Slots -> Request \cup {None}] /\ requests'[at] = r
          /\ \A i \in 1 .. Slots : i # at => requests'[i] = requests[i]
      BY <1>2, <2>2, <2>4 DEF IInv, TypeOK
    <2>6. /\ scan' \in [Collectors -> Scan] /\ scan'[c] = next
          /\ \A e \in Collectors \ {c} : scan'[e] = scan[e]
      BY <2>3, <2>4 DEF IInv, TypeOK
    <2>7. /\ pc' \in [Collectors -> {"idle", "looking", "pushing", "retrying"}]
          /\ \A e \in Collectors \ {c} : pc'[e] = pc[e]
      BY <2>4 DEF IInv, TypeOK
    <2>8. Requests'
      BY <1>2, <2>2, <2>5 DEF IInv, Requests, durable
    <2>9. Scans'
      BY <2>1, <2>3, <2>6 DEF IInv, Scans, durable
    <2>10. Cursors'
      BY DEF IInv, Cursors, durable
    <2>11. Waiters'
      <3> SUFFICES ASSUME NEW e \in Collectors, Waiting(e)'
                   PROVE  /\ scan'[e].slot \in 1 .. Slots
                          /\ requests'[scan'[e].slot] # None
                          /\ requests'[scan'[e].slot].owner = e
                          /\ requests'[scan'[e].slot].name = scan'[e].name
                          /\ requests'[scan'[e].slot].live
        BY DEF Waiters
      <3>1. CASE e = c
        BY <1>2, <2>2, <2>3, <2>5, <2>6, <3>1
      <3>2. CASE e # c
        <4>1. Waiting(e) /\ scan'[e] = scan[e]
          BY <2>6, <2>7, <3>2 DEF Waiting
        <4>2. scan[e].slot # at /\ scan[e].slot \in 1 .. Slots
          BY <1>1, <3>2, <4>1 DEF IInv, Waiters
        <4> QED BY <2>5, <4>1, <4>2 DEF IInv, Waiters
      <3> QED BY <3>1, <3>2
    <2>12. TypeOK'
      BY <2>5, <2>6, <2>7, <2>11 DEF IInv, TypeOK, durable, Waiters, Waiting
    <2> QED BY <2>8, <2>9, <2>10, <2>11, <2>12 DEF IInv
  <1> QED BY <1>3, <1>4

\* An answer ends the attempt, or the scan of the source.
LEMMA GetAnswerStep ==
  ASSUME IInv, NEW c \in Collectors, GetAnswer(c) \/ RetryAnswer(c),
         UNCHANGED <<lines, durable, faults>>
  PROVE  IInv'
  <1>1. /\ Waiting(c) /\ requests' = [requests EXCEPT ![scan[c].slot] = None]
        /\ Leave(c) \/ (pc' = [pc EXCEPT ![c] = "retrying"] /\ UNCHANGED scan)
    BY DEF GetAnswer, RetryAnswer
  <1>2. scan[c].slot \in 1 .. Slots
    BY <1>1, AwaitedType
  <1>3. /\ requests' \in [1 .. Slots -> Request \cup {None}] /\ requests'[scan[c].slot] = None
        /\ \A i \in 1 .. Slots : requests'[i] # requests[i] => Waiting(c) /\ i = scan[c].slot
    BY <1>1, <1>2 DEF IInv, TypeOK
  <1>4. faults' \in Nat
    BY DEF IInv, TypeOK
  <1> QED BY <1>1, <1>3, <1>4, ReleaseStep

\* A request that nobody waits for any more is otherwise the same.
LEMMA HungUpType ==
  ASSUME NEW r \in Request, Sound(r, lines, rows, revoked)
  PROVE  /\ [r EXCEPT !.live = FALSE] \in Request
         /\ Sound([r EXCEPT !.live = FALSE], lines, rows, revoked)
  <1> DEFINE dropped == [r EXCEPT !.live = FALSE]
  <1>1. /\ dropped \in Request /\ dropped.owner = r.owner /\ dropped.name = r.name
        /\ dropped.from = r.from /\ dropped.to = r.to /\ dropped.cursor = r.cursor
        /\ dropped.late = r.late /\ dropped.stage = r.stage /\ dropped.outcome = r.outcome
    BY DEF Request
  <1> HIDE DEF dropped
  <1>2. Sound(dropped, lines, rows, revoked)
    BY <1>1 DEF Sound
  <1> QED BY <1>1, <1>2 DEF dropped

LEMMA HangUpStep ==
  ASSUME IInv, NEW c \in Collectors, HangUp(c), UNCHANGED <<lines, durable>>, faults' \in Nat
  PROVE  IInv'
  <1> DEFINE at == scan[c].slot
             dropped == [requests[at] EXCEPT !.live = FALSE]
  <1>1. /\ Waiting(c)
        /\ Leave(c) \/ (pc' = [pc EXCEPT ![c] = "retrying"] /\ UNCHANGED scan)
    BY DEF HangUp
  <1>2. at \in 1 .. Slots /\ requests[at] \in Request /\ Sound(requests[at], lines, rows, revoked)
    BY <1>1, AwaitedType
  <1>3. dropped \in Request /\ Sound(dropped, lines, rows, revoked)
    BY <1>2, HungUpType
  <1>4. requests' = [requests EXCEPT ![at] = dropped]
    BY DEF HangUp, IInv, TypeOK
  <1> HIDE DEF dropped
  <1>5. /\ requests' \in [1 .. Slots -> Request \cup {None}] /\ requests'[at] = dropped
        /\ \A i \in 1 .. Slots : requests'[i] # requests[i] => Waiting(c) /\ i = scan[c].slot
    BY <1>1, <1>2, <1>3, <1>4 DEF IInv, TypeOK
  <1> QED BY <1>1, <1>3, <1>5, ReleaseStep

\* The same batch, or the same lookup, again.
LEMMA ResendStep ==
  ASSUME IInv, NEW c \in Collectors, Resend(c), UNCHANGED <<lines, durable, faults>>
  PROVE  IInv'
  <1>1. /\ scan[c] \in Scan /\ scan[c].name \in Names /\ scan[c].attempt + 1 \in Nat
        /\ scan[c].from \in Lines /\ scan[c].to \in Lines
        /\ Continues(<<c, scan[c].name>>, scan[c].from, scan[c].to, lines, rows)
    BY DEF IInv, TypeOK, Scan, Scans
  <1>2. <<c, scan[c].name>> \in Sources
    BY <1>1 DEF Sources
  <1>3. 0 \in Lines /\ Continues(<<c, scan[c].name>>, 0, 0, lines, rows)
    BY <1>2, ZeroBoundary DEF IInv
  <1>4. CASE scan[c].to = 0
    BY <1>1, <1>3, <1>4, SendStep DEF Resend
  <1>5. CASE scan[c].to # 0
    BY <1>1, <1>5, SendStep DEF Resend
  <1> QED BY <1>4, <1>5

-----------------------------------------------------------------------------
(***************************************************************************)
(* Steps of the listener.                                                  *)
(***************************************************************************)
\* Whatever the listener does to a request, its owner goes on waiting for it.
LEMMA HandlerStep ==
  ASSUME IInv, NEW i \in 1 .. Slots, requests[i] # None,
         UNCHANGED <<lines, revoked, pc, scan>>, faults' \in Nat,
         rows \subseteq rows', rows' \subseteq Sources \X Nat,
         cursors' \in [Sources -> Lines \cup {None}], Cursors',
         DOMAIN origin' = DOMAIN origin,
         \A n \in DOMAIN origin : origin'[n] \in Collectors \cup {None},
         requests' \in [1 .. Slots -> Request \cup {None}],
         \A j \in 1 .. Slots : j # i => requests'[j] = requests[j],
         requests'[i] # None, requests'[i].owner = requests[i].owner,
         requests'[i].name = requests[i].name, requests'[i].live = requests[i].live,
         Sound(requests'[i], lines, rows', revoked)
  PROVE  IInv'
  <1>1. Waiters'
    <2> SUFFICES ASSUME NEW e \in Collectors, Waiting(e)'
                 PROVE  /\ scan'[e].slot \in 1 .. Slots
                        /\ requests'[scan'[e].slot] # None
                        /\ requests'[scan'[e].slot].owner = e
                        /\ requests'[scan'[e].slot].name = scan'[e].name
                        /\ requests'[scan'[e].slot].live
      BY DEF Waiters
    <2>1. Waiting(e) /\ scan'[e] = scan[e]
      BY DEF Waiting
    <2> QED BY <2>1 DEF IInv, Waiters
  <1>2. TypeOK'
    <2>1. \A c \in Collectors : pc'[c] \in {"looking", "pushing"} =>
            /\ scan'[c].slot \in 1 .. Slots
            /\ requests'[scan'[c].slot] # None => requests'[scan'[c].slot].owner = c
      BY <1>1 DEF Waiters, Waiting
    <2> QED BY <2>1 DEF IInv, TypeOK
  <1>3. \A x \in Sources : lines[x] <= lines'[x]
    <2>1. lines \in [Sources -> Lines]
      BY DEF IInv, TypeOK
    <2>2. \A x \in Sources : lines[x] \in Nat
      BY <2>1, LinesNat
    <2> QED BY <2>2
  <1>4. Requests'
    <2> SUFFICES ASSUME NEW j \in 1 .. Slots, requests'[j] # None
                 PROVE  Sound(requests'[j], lines', rows', revoked')
      BY DEF Requests
    <2>1. CASE j = i
      BY <2>1
    <2>2. CASE j # i
      <3>1. requests'[j] = requests[j] /\ requests[j] \in Request
            /\ Sound(requests[j], lines, rows, revoked)
        BY <2>2 DEF IInv, TypeOK, Requests
      <3> QED BY <1>2, <1>3, <3>1, SoundKept DEF IInv
    <2> QED BY <2>1, <2>2
  <1>5. Scans'
    <2> SUFFICES ASSUME NEW c \in Collectors
                 PROVE  Continues(<<c, scan'[c].name>>, scan'[c].from, scan'[c].to, lines', rows')
      BY DEF Scans
    <2>1. /\ <<c, scan[c].name>> \in Sources /\ scan[c].from \in Lines /\ scan[c].to \in Lines
          /\ Continues(<<c, scan[c].name>>, scan[c].from, scan[c].to, lines, rows)
      BY DEF IInv, TypeOK, Scan, Scans, Sources
    <2> QED BY <1>2, <1>3, <2>1, SoundKept DEF IInv
  <1> QED BY <1>1, <1>2, <1>4, <1>5 DEF IInv

\* The answer to a late request is a refusal; a cursor in an answer is backed.
LEMMA AnswerType ==
  ASSUME IInv, NEW i \in 1 .. Slots, requests[i] # None,
         NEW outcome \in Outcome, NEW cursor \in Lines \cup {None},
         requests[i].late => outcome # "accepted",
         cursor # None => Boundary(<<requests[i].owner, requests[i].name>>, cursor, lines, rows),
         Answer(i, outcome, cursor)
  PROVE  /\ requests' \in [1 .. Slots -> Request \cup {None}]
         /\ \A j \in 1 .. Slots : j # i => requests'[j] = requests[j]
         /\ requests'[i] # None /\ requests'[i] \in Request
         /\ requests'[i].owner = requests[i].owner
         /\ requests'[i].name = requests[i].name /\ requests'[i].live = requests[i].live
         /\ Sound(requests'[i], lines, rows, revoked)
  <1> DEFINE r == requests[i]
             answer == [r EXCEPT !.stage = "answered", !.outcome = outcome, !.cursor = cursor]
  <1>1. r \in Request /\ Sound(r, lines, rows, revoked)
    BY DEF IInv, TypeOK, Requests
  <1>2. requests' = [requests EXCEPT ![i] = answer]
    BY DEF Answer, IInv, TypeOK
  <1> HIDE DEF r
  <1>3. /\ answer \in Request /\ answer.owner = r.owner /\ answer.name = r.name
        /\ answer.live = r.live /\ answer.from = r.from /\ answer.to = r.to
        /\ answer.late = r.late /\ answer.stage = "answered" /\ answer.outcome = outcome
        /\ answer.cursor = cursor
    BY <1>1 DEF Request, Stage
  <1> HIDE DEF answer
  <1>4. Sound(answer, lines, rows, revoked)
    BY <1>1, <1>3 DEF Sound, r
  <1>5. answer # None
    BY <1>3, RemoteAssumption
  <1>6. /\ requests' \in [1 .. Slots -> Request \cup {None}] /\ requests'[i] = answer
        /\ \A j \in 1 .. Slots : j # i => requests'[j] = requests[j]
    BY <1>2, <1>3 DEF IInv, TypeOK
  <1> QED BY <1>3, <1>4, <1>5, <1>6 DEF r

\* An answer that stores nothing.
LEMMA AnswerStep ==
  ASSUME IInv, NEW i \in 1 .. Slots, requests[i] # None,
         NEW outcome \in Outcome, NEW cursor \in Lines \cup {None},
         requests[i].late => outcome # "accepted",
         cursor # None => Boundary(<<requests[i].owner, requests[i].name>>, cursor, lines, rows),
         Answer(i, outcome, cursor), UNCHANGED <<lines, durable, pc, scan>>, faults' \in Nat
  PROVE  IInv'
  <1>1. /\ requests' \in [1 .. Slots -> Request \cup {None}]
        /\ \A j \in 1 .. Slots : j # i => requests'[j] = requests[j]
        /\ requests'[i] # None /\ requests'[i] \in Request
        /\ requests'[i].owner = requests[i].owner
        /\ requests'[i].name = requests[i].name /\ requests'[i].live = requests[i].live
        /\ Sound(requests'[i], lines, rows, revoked)
    BY AnswerType
  <1>2. /\ rows \subseteq rows' /\ rows' \subseteq Sources \X Nat
        /\ cursors' \in [Sources -> Lines \cup {None}]
        /\ DOMAIN origin' = DOMAIN origin
        /\ \A n \in DOMAIN origin : origin'[n] \in Collectors \cup {None}
    BY DEF IInv, TypeOK, durable
  <1>3. Cursors'
    BY DEF IInv, Cursors, durable
  <1> QED BY <1>1, <1>2, <1>3, HandlerStep DEF durable

\* Admission: a revoked token is refused before anything is read or stored.
LEMMA AdmitStep ==
  ASSUME IInv, NEW i \in 1 .. Slots, Admit(i), UNCHANGED <<lines, pc, scan, faults>>
  PROVE  IInv'
  <1> DEFINE r == requests[i]
             x == <<r.owner, r.name>>
  <1>1. /\ requests[i] # None /\ r \in Request /\ Sound(r, lines, rows, revoked)
        /\ x \in Sources /\ UNCHANGED durable /\ faults' \in Nat
    BY DEF Admit, IInv, TypeOK, Requests, Request, Sources
  <1>2. None \in Lines \cup {None}
    OBVIOUS
  <1>3. r.late => r.owner \in revoked
    BY <1>1 DEF Sound
  <1>4. CASE Refuse(i)
    <2>1. PICK outcome \in {"unauthorized", "rate_limited"} : Answer(i, outcome, None)
      BY <1>4 DEF Refuse
    <2> QED BY <1>1, <1>2, <2>1, AnswerStep DEF Outcome
  <1>5. CASE Accept(i) /\ r.kind = "cursor"
    <2>1. ~ r.late /\ Answer(i, "accepted", cursors[x])
      BY <1>3, <1>5 DEF Accept, AuthenticateCollector, ScopedSourceId
    <2>2. cursors[x] \in Lines \cup {None}
          /\ (cursors[x] # None => Boundary(x, cursors[x], lines, rows))
      BY <1>1 DEF IInv, TypeOK, Cursors
    <2> QED BY <1>1, <2>1, <2>2, AnswerStep DEF Outcome
  <1>6. CASE Accept(i) /\ r.kind = "batch" /\ Verdict(r) = "accepted"
    <2> DEFINE admitted == [r EXCEPT !.stage = "admitted"]
    <2>1. ~ r.late
      BY <1>3, <1>6 DEF Accept, AuthenticateCollector
    <2>2. requests' = [requests EXCEPT ![i] = admitted]
      BY <1>6 DEF Accept, IInv, TypeOK
    <2> HIDE DEF r
    <2>3. /\ admitted \in Request /\ admitted.owner = r.owner /\ admitted.name = r.name
          /\ admitted.live = r.live /\ admitted.from = r.from /\ admitted.to = r.to
          /\ admitted.late = r.late /\ admitted.cursor = r.cursor
      BY <1>1 DEF Request, Stage
    <2> HIDE DEF admitted
    <2>4. Sound(admitted, lines, rows, revoked) /\ admitted # None
      BY <1>1, <2>1, <2>3, RemoteAssumption DEF Sound
    <2>5. /\ requests' \in [1 .. Slots -> Request \cup {None}] /\ requests'[i] = admitted
          /\ \A j \in 1 .. Slots : j # i => requests'[j] = requests[j]
      BY <2>2, <2>3 DEF IInv, TypeOK
    <2>6. /\ rows \subseteq rows' /\ rows' \subseteq Sources \X Nat
          /\ cursors' \in [Sources -> Lines \cup {None}]
          /\ DOMAIN origin' = DOMAIN origin
          /\ \A n \in DOMAIN origin : origin'[n] \in Collectors \cup {None}
      BY <1>1 DEF IInv, TypeOK, durable
    <2>7. Cursors'
      BY <1>1 DEF IInv, Cursors, durable
    <2> QED BY <1>1, <2>3, <2>4, <2>5, <2>6, <2>7, HandlerStep DEF durable, r
  <1>7. CASE Accept(i) /\ r.kind = "batch" /\ Verdict(r) # "accepted"
    <2>1. Answer(i, Verdict(r), None)
      BY <1>7 DEF Accept
    <2>2. Verdict(r) \in Outcome
      BY DEF Verdict, Outcome
    <2> QED BY <1>1, <1>2, <1>7, <2>1, <2>2, AnswerStep
  <1>8. Refuse(i) \/ (Accept(i) /\ r.kind \in {"cursor", "batch"})
    BY DEF Admit, Accept
  <1> QED BY <1>4, <1>5, <1>6, <1>7, <1>8

\* A commit stores the lines of the batch with the boundary behind them.
LEMMA CommitStep ==
  ASSUME IInv, NEW i \in 1 .. Slots, CommitBatch(i), UNCHANGED <<lines, pc, scan, faults>>
  PROVE  /\ IInv'
         /\ LET x == <<requests[i].owner, requests[i].name>> IN
            /\ x \in Sources /\ rows \subseteq rows'
            /\ cursors'[x] \in Lines /\ Boundary(x, cursors'[x], lines', rows')
            /\ \A y \in Sources \ {x} : cursors'[y] = cursors[y]
  <1> DEFINE r == requests[i]
             x == <<r.owner, r.name>>
  <1>1. /\ requests[i] # None /\ r \in Request /\ Sound(r, lines, rows, revoked)
        /\ x \in Sources /\ r.from \in Lines /\ r.to \in Lines
        /\ r.stage = "admitted" /\ UNCHANGED revoked
    BY DEF CommitBatch, IInv, TypeOK, Requests, Request, Sources
  <1>2. ~ r.late
    BY <1>1 DEF Sound
  <1>3. Answer(i, "accepted", None) /\ "accepted" \in Outcome /\ None \in Lines \cup {None}
    BY DEF CommitBatch, Outcome
  <1>4. /\ requests' \in [1 .. Slots -> Request \cup {None}]
        /\ \A j \in 1 .. Slots : j # i => requests'[j] = requests[j]
        /\ requests'[i] # None /\ requests'[i] \in Request
        /\ requests'[i].owner = requests[i].owner
        /\ requests'[i].name = requests[i].name /\ requests'[i].live = requests[i].live
        /\ Sound(requests'[i], lines, rows, revoked)
    BY <1>1, <1>2, <1>3, AnswerType
  <1>5. /\ rows' = rows \cup Content(r)
        /\ cursors' = [cursors EXCEPT ![x] = r.to]
    BY DEF CommitBatch, ScopedSourceId
  <1>6. /\ DOMAIN origin' = DOMAIN origin
        /\ \A n \in DOMAIN origin : origin'[n] \in Collectors \cup {None}
    <2>1. r.owner \in Collectors
      BY <1>1 DEF Request
    <2>2. origin' = [origin EXCEPT ![Session[x]] = IF @ = None THEN r.owner ELSE @]
      BY DEF CommitBatch
    <2> QED BY <2>1, <2>2 DEF IInv, TypeOK
  <1> HIDE DEF r
  <1>7. rows \subseteq rows' /\ rows' \subseteq Sources \X Nat
    <2>1. r.from \in Nat /\ r.to \in Nat
      BY <1>1, LinesNat
    <2>2. \A k \in r.from .. r.to - 1 : k \in Nat
      BY <2>1
    <2> QED BY <1>1, <1>5, <2>2 DEF Content, ScopedSourceId, IInv, TypeOK
  <1>8. Boundary(x, r.to, lines, rows')
    <2>1. r.from \in Nat /\ r.to \in Nat
      BY <1>1, LinesNat
    <2>2. r.to <= lines[x] /\ \A k \in 0 .. r.from - 1 : <<x, k>> \in rows
      BY <1>1 DEF Sound, Continues, Boundary
    <2>3. \A k \in r.from .. r.to - 1 : <<x, k>> \in rows'
      BY <1>5 DEF Content, ScopedSourceId
    <2>4. \A k \in 0 .. r.to - 1 : k \in 0 .. r.from - 1 \/ k \in r.from .. r.to - 1
      BY <2>1
    <2> QED BY <1>7, <2>2, <2>3, <2>4 DEF Boundary
  <1>9. /\ cursors' \in [Sources -> Lines \cup {None}] /\ cursors'[x] = r.to
        /\ \A y \in Sources \ {x} : cursors'[y] = cursors[y]
    BY <1>1, <1>5 DEF IInv, TypeOK
  <1>10. Cursors'
    <2> SUFFICES ASSUME NEW y \in Sources, cursors'[y] # None
                 PROVE  Boundary(y, cursors'[y], lines', rows')
      BY DEF Cursors
    <2>1. CASE y = x
      BY <1>8, <1>9, <2>1
    <2>2. CASE y # x
      BY <1>7, <1>9, <2>2 DEF IInv, Cursors, Boundary
    <2> QED BY <2>1, <2>2
  <1>11. Sound(requests'[i], lines, rows', revoked)
    <2> DEFINE a == requests'[i]
    <2>1. Sound(a, lines, rows, revoked)
      BY <1>4
    <2> HIDE DEF a
    <2>2. Sound(a, lines, rows', revoked)
      BY <1>7, <2>1 DEF Sound, Continues, Boundary
    <2> QED BY <2>2 DEF a
  <1>12. faults' \in Nat
    BY DEF IInv, TypeOK
  <1>13. IInv'
    BY <1>1, <1>4, <1>6, <1>7, <1>9, <1>10, <1>11, <1>12, HandlerStep
  <1> QED BY <1>1, <1>7, <1>8, <1>9, <1>13 DEF r

\* A handler is dropped only when its client has hung up.
LEMMA ForgetStep ==
  ASSUME IInv, NEW i \in 1 .. Slots, Forget(i), UNCHANGED <<lines, pc, scan, faults>>
  PROVE  IInv'
  <1>1. /\ requests' \in [1 .. Slots -> Request \cup {None}] /\ requests'[i] = None
        /\ \A j \in 1 .. Slots : j # i => requests'[j] = requests[j]
        /\ UNCHANGED durable /\ requests[i] # None /\ ~ requests[i].live
    BY DEF Forget, IInv, TypeOK
  <1>2. Waiters'
    <2> SUFFICES ASSUME NEW e \in Collectors, Waiting(e)'
                 PROVE  /\ scan'[e].slot \in 1 .. Slots
                        /\ requests'[scan'[e].slot] # None
                        /\ requests'[scan'[e].slot].owner = e
                        /\ requests'[scan'[e].slot].name = scan'[e].name
                        /\ requests'[scan'[e].slot].live
      BY DEF Waiters
    <2>1. Waiting(e) /\ scan'[e] = scan[e]
      BY DEF Waiting
    <2>2. scan[e].slot # i /\ scan[e].slot \in 1 .. Slots
      BY <1>1, <2>1 DEF IInv, Waiters
    <2> QED BY <1>1, <2>1, <2>2 DEF IInv, Waiters
  <1>3. TypeOK'
    BY <1>1, <1>2 DEF IInv, TypeOK, durable, Waiters, Waiting
  <1>4. Requests'
    BY <1>1 DEF IInv, Requests, durable
  <1>5. Scans' /\ Cursors'
    BY <1>1 DEF IInv, Scans, Cursors, durable
  <1> QED BY <1>2, <1>3, <1>4, <1>5 DEF IInv

-----------------------------------------------------------------------------
(***************************************************************************)
(* Steps of the environment.                                               *)
(***************************************************************************)
\* Sources grow and tokens are revoked while requests are on their way.
LEMMA GrowthStep ==
  ASSUME IInv, UNCHANGED <<rows, cursors, origin, requests, pc, scan, faults>>,
         lines' \in [Sources -> Lines], \A x \in Sources : lines[x] <= lines'[x],
         revoked' \subseteq Collectors, revoked \subseteq revoked'
  PROVE  IInv'
  <1>1. TypeOK'
    BY DEF IInv, TypeOK
  <1>2. Requests'
    <2> SUFFICES ASSUME NEW j \in 1 .. Slots, requests'[j] # None
                 PROVE  Sound(requests'[j], lines', rows', revoked')
      BY DEF Requests
    <2>1. requests'[j] = requests[j] /\ requests[j] \in Request
          /\ Sound(requests[j], lines, rows, revoked)
      BY DEF IInv, TypeOK, Requests
    <2> QED BY <1>1, <2>1, SoundKept DEF IInv
  <1>3. Scans'
    <2> SUFFICES ASSUME NEW c \in Collectors
                 PROVE  Continues(<<c, scan'[c].name>>, scan'[c].from, scan'[c].to, lines', rows')
      BY DEF Scans
    <2>1. /\ <<c, scan[c].name>> \in Sources /\ scan[c].from \in Lines /\ scan[c].to \in Lines
          /\ Continues(<<c, scan[c].name>>, scan[c].from, scan[c].to, lines, rows)
      BY DEF IInv, TypeOK, Scan, Scans, Sources
    <2> QED BY <1>1, <2>1, SoundKept DEF IInv
  <1>4. Cursors'
    <2> SUFFICES ASSUME NEW x \in Sources, cursors'[x] # None
                 PROVE  Boundary(x, cursors'[x], lines', rows')
      BY DEF Cursors
    <2>1. cursors'[x] = cursors[x] /\ cursors[x] \in Lines /\ Boundary(x, cursors[x], lines, rows)
      BY DEF IInv, TypeOK, Cursors
    <2> QED BY <1>1, <2>1, SoundKept DEF IInv
  <1>5. Waiters'
    BY DEF IInv, Waiters, Waiting
  <1> QED BY <1>1, <1>2, <1>3, <1>4, <1>5 DEF IInv

LEMMA GrowStep ==
  ASSUME IInv, NEW x \in Sources, Grow(x)
  PROVE  IInv'
  <1>1. lines \in [Sources -> Lines] /\ lines[x] \in Nat /\ revoked \subseteq Collectors
    <2>1. lines \in [Sources -> Lines] /\ revoked \subseteq Collectors
      BY DEF IInv, TypeOK
    <2> QED BY <2>1, LinesNat
  <1>2. PICK n \in lines[x] + 1 .. MaxLines[x] : lines' = [lines EXCEPT ![x] = n]
    BY DEF Grow
  <1>3. MaxLines[x] \in Nat
    BY RemoteAssumption
  <1>4. n \in 0 .. MaxLines[x] /\ lines[x] <= n
    BY <1>1, <1>2, <1>3
  <1>5. n \in Lines
    BY <1>4, ZeroLine
  <1>6. \A y \in Sources : lines[y] \in Nat
    BY <1>1, LinesNat
  <1>7. lines' \in [Sources -> Lines] /\ \A y \in Sources : lines[y] <= lines'[y]
    BY <1>1, <1>2, <1>4, <1>5, <1>6
  <1> QED BY <1>1, <1>7, GrowthStep DEF Grow, durable

LEMMA RevokeStep ==
  ASSUME IInv, NEW c \in Collectors, Revoke(c)
  PROVE  IInv'
  <1>1. lines \in [Sources -> Lines] /\ revoked \subseteq Collectors
    BY DEF IInv, TypeOK
  <1>2. \A x \in Sources : lines[x] \in Nat
    BY <1>1, LinesNat
  <1>3. lines' \in [Sources -> Lines] /\ \A x \in Sources : lines[x] <= lines'[x]
    BY <1>1, <1>2 DEF Revoke
  <1> QED BY <1>1, <1>3, GrowthStep DEF Revoke

\* A statement fails: nothing of the request is stored.
LEMMA StatementStep ==
  ASSUME IInv, StatementFails, UNCHANGED lines, faults' \in Nat
  PROVE  IInv'
  <1>1. PICK i \in 1 .. Slots : /\ requests[i] # None
                                /\ Answer(i, "internal_error", None)
                                /\ UNCHANGED <<durable, pc, scan>>
    BY DEF StatementFails
  <1>2. "internal_error" \in Outcome /\ None \in Lines \cup {None}
    BY DEF Outcome
  <1> QED BY <1>1, <1>2, AnswerStep

\* A collector that restarts has forgotten its scan; its request goes on.
LEMMA CollectorRestartsStep ==
  ASSUME IInv, CollectorRestarts, UNCHANGED lines, faults' \in Nat
  PROVE  IInv'
  <1>1. PICK c \in Collectors :
          /\ requests' = [i \in 1 .. Slots |->
               IF Waiting(c) /\ i = scan[c].slot /\ requests[i] # None
               THEN [requests[i] EXCEPT !.live = FALSE] ELSE requests[i]]
          /\ Leave(c)
          /\ UNCHANGED durable
    BY DEF CollectorRestarts
  <1>2. CASE Waiting(c)
    <2> DEFINE at == scan[c].slot
               dropped == [requests[at] EXCEPT !.live = FALSE]
    <2>1. /\ at \in 1 .. Slots /\ requests[at] \in Request /\ requests[at] # None
          /\ Sound(requests[at], lines, rows, revoked)
      BY <1>2, AwaitedType, RemoteAssumption
    <2>2. dropped \in Request /\ Sound(dropped, lines, rows, revoked)
      BY <2>1, HungUpType
    <2>3. requests'[at] = dropped /\ \A i \in 1 .. Slots : i # at => requests'[i] = requests[i]
      BY <1>1, <1>2, <2>1
    <2>4. \A i \in 1 .. Slots : requests'[i] \in Request \cup {None}
      BY <2>2, <2>3 DEF IInv, TypeOK
    <2>5. requests' \in [1 .. Slots -> Request \cup {None}]
      BY <1>1, <2>4
    <2>6. \A i \in 1 .. Slots : requests'[i] # requests[i] => Waiting(c) /\ i = scan[c].slot
      BY <1>2, <2>3
    <2> QED BY <1>1, <2>2, <2>3, <2>5, <2>6, ReleaseStep
  <1>3. CASE ~ Waiting(c)
    <2>1. \A i \in 1 .. Slots : requests'[i] = requests[i]
      BY <1>1, <1>3
    <2>2. requests' \in [1 .. Slots -> Request \cup {None}]
      BY <1>1, <2>1 DEF IInv, TypeOK
    <2> QED BY <1>1, <1>3, <2>1, <2>2, ReleaseStep
  <1> QED BY <1>2, <1>3

\* A daemon that restarts has forgotten every request.
LEMMA ListenerRestartsStep ==
  ASSUME IInv, ListenerRestarts, UNCHANGED lines, faults' \in Nat
  PROVE  IInv'
  <1> DEFINE left(c) == [scan[c] EXCEPT !.slot = 0, !.from = 0, !.to = 0, !.attempt = 0]
  <1>1. PICK again \in SUBSET Collectors :
          /\ pc' = [c \in Collectors |-> IF ~ Waiting(c) THEN pc[c]
                    ELSE IF c \in again /\ scan[c].attempt < MaxAttempts THEN "retrying"
                    ELSE "idle"]
          /\ scan' = [c \in Collectors |-> IF pc'[c] = "idle" THEN left(c) ELSE scan[c]]
    BY DEF ListenerRestarts
  <1>2. requests' = [i \in 1 .. Slots |-> None] /\ UNCHANGED durable
    BY DEF ListenerRestarts
  <1>3. \A c \in Collectors :
          /\ <<c, scan[c].name>> \in Sources /\ scan[c] \in Scan
          /\ Continues(<<c, scan[c].name>>, scan[c].from, scan[c].to, lines, rows)
    BY DEF IInv, TypeOK, Scan, Scans, Sources
  <1>4. \A c \in Collectors : 0 \in Lines /\ Continues(<<c, scan[c].name>>, 0, 0, lines, rows)
    BY <1>3, ZeroBoundary DEF IInv
  <1>5. 0 \in 0 .. Slots
    BY RemoteAssumption
  <1>6. \A c \in Collectors : left(c) \in Scan /\ left(c).name = scan[c].name
                              /\ left(c).from = 0 /\ left(c).to = 0
    BY <1>3, <1>4, <1>5 DEF Scan
  <1> HIDE DEF left
  <1>7. scan' \in [Collectors -> Scan]
    BY <1>1, <1>3, <1>6
  <1>8. pc' \in [Collectors -> {"idle", "looking", "pushing", "retrying"}]
        /\ \A c \in Collectors : pc'[c] \notin {"looking", "pushing"}
    BY <1>1 DEF IInv, TypeOK, Waiting
  <1>9. TypeOK'
    BY <1>2, <1>7, <1>8 DEF IInv, TypeOK, durable
  <1>10. Requests' /\ Waiters'
    BY <1>2, <1>8 DEF Requests, Waiters, Waiting
  <1>11. Scans'
    BY <1>1, <1>2, <1>3, <1>4, <1>6 DEF Scans, durable
  <1>12. Cursors'
    BY <1>2 DEF IInv, Cursors, durable
  <1> QED BY <1>9, <1>10, <1>11, <1>12 DEF IInv

-----------------------------------------------------------------------------
(***************************************************************************)
(* The theorems.                                                           *)
(***************************************************************************)
\* IInv is inductive.
LEMMA NextIInv == IInv /\ [Next]_vars => IInv'
  <1> SUFFICES ASSUME IInv, [Next]_vars PROVE IInv'
    OBVIOUS
  <1>1. ASSUME NEW c \in Collectors, Collect(c) PROVE IInv'
    BY <1>1, GetCursorStep, GetAnswerStep, ResendStep DEF Collect
  <1>2. ASSUME NEW c \in Collectors, NEW s \in Names, Begin(c, s) PROVE IInv'
    BY <1>2, StartScanStep
  <1>3. ASSUME NEW c \in Collectors, Revoke(c) PROVE IInv'
    BY <1>3, RevokeStep
  <1>4. ASSUME NEW i \in 1 .. Slots, Listen(i) PROVE IInv'
    BY <1>4, AdmitStep, CommitStep, ForgetStep DEF Listen, Handle
  <1>5. ASSUME NEW x \in Sources, Grow(x) PROVE IInv'
    BY <1>5, GrowStep
  <1>6. CASE Fault
    <2>1. faults' \in Nat /\ UNCHANGED lines
      BY <1>6 DEF Fault, IInv, TypeOK
    <2>2. CASE AnswerLost
      BY <2>1, <2>2, HangUpStep DEF AnswerLost
    <2> QED BY <1>6, <2>1, <2>2, StatementStep, CollectorRestartsStep, ListenerRestartsStep
            DEF Fault
  <1>7. CASE UNCHANGED vars
    <2>1. UNCHANGED <<lines, rows, cursors, origin, revoked, requests, pc, scan, faults>>
      BY <1>7 DEF vars, durable
    <2> QED BY <2>1 DEF IInv, TypeOK, Requests, Scans, Cursors, Waiters, Waiting
  <1> QED BY <1>1, <1>2, <1>3, <1>4, <1>5, <1>6, <1>7 DEF Next

LEMMA Invariance == Spec => []IInv
  BY InitIInv, NextIInv, PTL DEF Spec

\* The variables keep their types, for any number of collectors, sources and
\* requests in flight.
THEOREM TypeCorrect == Spec => []TypeOK
  <1>1. IInv => TypeOK
    BY DEF IInv
  <1> QED BY <1>1, Invariance, PTL

\* The cursor of a source never passes the end of that source, whichever pushes
\* of whichever collectors commit in whichever order.
THEOREM CursorsAreOwn == Spec => []CursorOwn
  <1>1. IInv => CursorOwn
    BY DEF IInv, Cursors, CursorOwn, Boundary
  <1> QED BY <1>1, Invariance, PTL

\* No line before a cursor, or before the start of a batch on its way, is missing.
THEOREM ResumesAreCovered == Spec => []ResumeCovered
  <1>1. IInv => ResumeCovered
    BY DEF IInv, Cursors, Requests, ResumeCovered, Boundary, Sound, Continues
  <1> QED BY <1>1, Invariance, PTL

\* A request sent with a revoked token is neither admitted nor accepted.
THEOREM RevokedIsRefused == Spec => []RevokedRefused
  <1>1. IInv => RevokedRefused
    BY DEF IInv, Requests, RevokedRefused, Sound
  <1> QED BY <1>1, Invariance, PTL

-----------------------------------------------------------------------------
(***************************************************************************)
(* What a step may do to the tables.                                       *)
(***************************************************************************)
\* Only a commit writes rows, cursors or origins.
LEMMA OnlyCommits ==
  ASSUME [Next]_vars
  PROVE  \/ \E i \in 1 .. Slots : CommitBatch(i) /\ UNCHANGED <<lines, pc, scan, faults>>
         \/ UNCHANGED <<rows, cursors, origin>>
  <1>1. ASSUME NEW c \in Collectors, Collect(c) \/ Revoke(c) \/ \E s \in Names : Begin(c, s)
        PROVE  UNCHANGED <<rows, cursors, origin>>
    BY <1>1 DEF Collect, Revoke, Begin, durable
  <1>2. ASSUME NEW i \in 1 .. Slots, Listen(i)
        PROVE  \/ CommitBatch(i) /\ UNCHANGED <<lines, pc, scan, faults>>
               \/ UNCHANGED <<rows, cursors, origin>>
    BY <1>2 DEF Listen, Handle, Admit, Forget, durable
  <1>3. ASSUME NEW x \in Sources, Grow(x) PROVE UNCHANGED <<rows, cursors, origin>>
    BY <1>3 DEF Grow, durable
  <1>4. CASE Fault
    BY <1>4 DEF Fault, StatementFails, AnswerLost, CollectorRestarts, ListenerRestarts, durable
  <1>5. CASE UNCHANGED vars
    BY <1>5 DEF vars, durable
  <1> QED BY <1>1, <1>2, <1>3, <1>4, <1>5 DEF Next

\* The first batch of a session decides its origin.
THEOREM OriginsStay == Spec => OriginStable
  <1> DEFINE Stay == \A n \in DOMAIN origin : origin[n] # None => origin'[n] = origin[n]
  <1>1. ASSUME [Next]_vars PROVE [Stay]_origin
    <2>1. ASSUME NEW i \in 1 .. Slots, CommitBatch(i) PROVE Stay
      <3> DEFINE n0 == Session[<<requests[i].owner, requests[i].name>>]
      <3>1. origin' = [origin EXCEPT ![n0] = IF @ = None THEN requests[i].owner ELSE @]
        BY <2>1 DEF CommitBatch
      <3> QED BY <3>1
    <2> QED BY <1>1, <2>1, OnlyCommits
  <1> QED BY <1>1, PTL DEF Spec, OriginStable

\* Mapped to the ledger, the tables start empty.
LEMMA LedgerInit == Init => Ledger!Init
  BY DEF Init, Ledger!Init

\* A commit is a batch of the ledger.
LEMMA LedgerCommit ==
  ASSUME IInv, NEW i \in 1 .. Slots, CommitBatch(i), UNCHANGED <<lines, pc, scan, faults>>
  PROVE  Ledger!Next
  <1> DEFINE x == <<requests[i].owner, requests[i].name>>
             Mark == [y \in Sources |-> IF cursors[y] = None THEN None ELSE <<y, cursors[y]>>]
  <1>1. /\ x \in Sources /\ rows \subseteq rows'
        /\ cursors'[x] \in Lines /\ Boundary(x, cursors'[x], lines', rows')
        /\ \A y \in Sources \ {x} : cursors'[y] = cursors[y]
    BY CommitStep
  <1> HIDE DEF x
  <1>2. cursors'[x] # None /\ <<x, cursors'[x]>> # None
    BY <1>1, RemoteAssumption
  <1>3. Mark'[x] = <<x, cursors'[x]>>
    BY <1>1, <1>2
  <1>4. \A y \in Sources \ {x} : Mark'[y] = Mark[y]
    BY <1>1
  <1>5. Ledger!Covered(Mark'[x], rows')
    BY <1>1, <1>3 DEF Ledger!Covered, Boundary
  <1>6. Ledger!Advance(x)
    BY <1>1, <1>2, <1>3, <1>4, <1>5 DEF Ledger!Advance
  <1> QED BY <1>1, <1>6 DEF Ledger!Next, Ledger!Advance

\* Remote ingestion keeps the promise of the ledger, as local import does.
THEOREM ImplementsLedger == Spec => LedgerSpec
  <1>1. ASSUME IInv, [Next]_vars PROVE [Ledger!Next]_(Ledger!vars)
    <2>1. CASE UNCHANGED <<rows, cursors, origin>>
      BY <2>1 DEF Ledger!vars
    <2> QED BY <1>1, <2>1, OnlyCommits, LedgerCommit
  <1> QED BY <1>1, LedgerInit, Invariance, PTL DEF Spec, LedgerSpec, Ledger!Spec
=============================================================================
