---------------------------- MODULE RemoteIngest ----------------------------
(***************************************************************************)
(* Ingestion over the network: the stateless sessionmesh-collector on each *)
(* dedicated system, the requests in flight, and the daemon's ingestion    *)
(* listener (second half of sessionmesh-api/src/lib.rs) with its token and *)
(* cursor tables.                                                          *)
(*                                                                         *)
(* A collector asks for the cursor of a source, prepares a batch from it   *)
(* and pushes the batch.  An attempt whose answer does not come is sent    *)
(* again while the listener may still be working on the first one, so      *)
(* pushes are repeated and may commit late and out of order.  The handler  *)
(* of a request yields at each access to the database; it may be dropped   *)
(* there when its client has hung up.                                      *)
(*                                                                         *)
(* Data abstraction: a source is its number of complete lines, which only  *)
(* grows (CodexIngest models what else a tool does to its files); a raw    *)
(* object is a line number with its generation.  Every event of a batch    *)
(* comes with its raw object.  Wire forms carry the same values, without   *)
(* the scope of the cursor.  Nothing reads the audit log, and a failure to  *)
(* write it changes no answer: it is left out.                             *)
(***************************************************************************)
EXTENDS Naturals

CONSTANTS
  Collectors,   \* registered collectors, each with its own token and host
  Names,        \* source ids as collectors choose them; two may choose the same
  Kind,         \* Kind[<<c, s>>]: which adapter reads source s of collector c
  Session,      \* Session[<<c, s>>]: the native session those lines belong to
  None,         \* absence
  MaxLines,     \* bound: lines of each source
  Revocable,    \* bound: the collectors an operator may revoke
  Slots,        \* bound: requests in flight
  MaxAttempts,  \* MAX_RETRY_ATTEMPTS
  Limited,      \* rate_limit_per_minute is not zero
  PausesRefill, \* the pauses of with_retry are worth one token of the budget
  BatchLimit,   \* max_batch_bytes and max_events_per_batch, in lines
  MaxFaults     \* bound: lost answers, failed statements, restarts

Sources == Collectors \X Names
Lines == UNION { 0 .. MaxLines[x] : x \in Sources }

Outcome == {"accepted", "unauthorized", "rate_limited", "too_large",
            "identity_mismatch", "internal_error"}
Stage == {"sent", "admitted", "answered"}

\* A batch is the lines from `from' up to `to' of the collector's source.
Request == [from : Lines, to : Lines, owner : Collectors, name : Names,
            kind : {"cursor", "batch"}, stage : Stage,
            outcome : Outcome \cup {None},
            cursor : Lines \cup {None},  \* the answer to a lookup
            rested : BOOLEAN,            \* sent after the pauses of with_retry
            live : BOOLEAN,              \* its client still waits
            late : BOOLEAN]              \* sent after its token was revoked

ASSUME RemoteAssumption ==
  /\ MaxLines \in [Sources -> Nat] /\ Revocable \subseteq Collectors
  /\ Slots \in Nat /\ MaxAttempts \in Nat
  /\ {Limited, PausesRefill} \subseteq BOOLEAN
  /\ BatchLimit \in Nat /\ MaxFaults \in Nat
  /\ None \notin Outcome \cup Collectors \cup Lines \cup Request \cup (Sources \X Lines)
  /\ Names # {}
  /\ Kind \in [Sources -> {"codex", "snapshot"}]
  /\ DOMAIN Session = Sources

VARIABLES
  lines,     \* lines in the source of each collector
  rows,      \* durable: <<source, line>> in raw_objects, with its event
  cursors,   \* durable: ingestion_cursors, under the scoped source id
  origin,    \* durable: native_sessions.origin_collector_id
  revoked,   \* durable: collectors with a revoked_at
  requests,  \* the requests on the wire or in a handler
  pc,        \* where each collector is in its scan loop
  scan,      \* the locals of that scan
  faults

durable == <<rows, cursors, origin, revoked>>
vars == <<lines, durable, requests, pc, scan, faults>>

Scan == [name : Names, attempt : Nat, slot : 0 .. Slots, from : Lines, to : Lines]

TypeOK ==
  /\ lines \in [Sources -> Lines]
  /\ rows \subseteq Sources \X Nat
  /\ cursors \in [Sources -> Lines \cup {None}]
  /\ DOMAIN origin = {Session[x] : x \in Sources}
  /\ \A n \in DOMAIN origin : origin[n] \in Collectors \cup {None}
  /\ revoked \subseteq Collectors
  /\ requests \in [1 .. Slots -> Request \cup {None}]
  /\ pc \in [Collectors -> {"idle", "looking", "pushing", "retrying"}]
  /\ scan \in [Collectors -> Scan]
  /\ faults \in Nat
  /\ \A c \in Collectors : pc[c] \in {"looking", "pushing"} =>
       /\ scan[c].slot \in 1 .. Slots
       /\ requests[scan[c].slot] # None => requests[scan[c].slot].owner = c

-----------------------------------------------------------------------------
(***************************************************************************)
(* What is read and computed on either side.                               *)
(***************************************************************************)
\* Slip: a cursor names the last line stored.
FirstLineAfter(c, s, cursor) ==
  IF Kind[<<c, s>>] = "snapshot" \/ cursor = None THEN 0 ELSE cursor + 1

\* prepare_incremental reads on from the cursor; prepare_external reads a
\* snapshot whole, and not at all when the cursor holds its fingerprint.
FirstLine(c, s, cursor) ==
  IF Kind[<<c, s>>] = "snapshot" \/ cursor = None THEN 0 ELSE cursor

NothingNew(c, s, cursor) ==
  IF Kind[<<c, s>>] = "snapshot" THEN cursor = lines[<<c, s>>]
  ELSE lines[<<c, s>>] = FirstLine(c, s, cursor)

\* The adapters derive a raw id in two ways: sha256: over a big-endian offset
\* (codex/incremental.rs) and raw_ over a little-endian one (external.rs,
\* opencode.rs); raw_object_identity of the listener knows the first.
DeclaredIdentity(kind) == IF kind = "codex" THEN "sha256:be" ELSE "raw_:le"
RawObjectIdentity == "sha256:be"

\* Slip: the source id of the request is used as it came.
UnscopedSourceId(c, s) == <<CHOOSE d \in Collectors : TRUE, s>>

ScopedSourceId(c, s) == <<c, s>>

\* Slip: revoked_at is not looked at.
AuthenticateAnyone(c) == TRUE

AuthenticateCollector(c) == c \notin revoked

\* check_rate_limit: how full the bucket of a collector is depends on when its
\* requests came.  The pauses before the last attempt, 12.4 seconds in all, are
\* worth a token if the limit is at least five a minute.
MayExceed(r) == Limited /\ ~ (PausesRefill /\ r.rested)

Verdict(r) ==
  IF r.to - r.from > BatchLimit THEN "too_large"
  ELSE IF DeclaredIdentity(Kind[<<r.owner, r.name>>]) # RawObjectIdentity THEN "identity_mismatch"
  ELSE "accepted"

Content(r) == { <<ScopedSourceId(r.owner, r.name), i>> : i \in r.from .. r.to - 1 }

FreeSlots == { i \in 1 .. Slots : requests[i] = None }
FreeSlot == CHOOSE i \in FreeSlots : TRUE

NewRequest(c, kind, s, from, to, attempt) ==
  [owner |-> c, kind |-> kind, name |-> s, from |-> from, to |-> to,
   stage |-> "sent", outcome |-> None,
   cursor |-> None, live |-> TRUE, rested |-> attempt = MaxAttempts, late |-> c \in revoked]

-----------------------------------------------------------------------------
(***************************************************************************)
(* The collector.                                                          *)
(***************************************************************************)
\* with_retry sends the request of the scan; the answer is awaited in `slot'.
Send(c, kind, s, from, to, attempt, at) ==
  /\ FreeSlots # {}
  /\ requests' = [requests EXCEPT ![FreeSlot] = NewRequest(c, kind, s, from, to, attempt)]
  /\ scan' = [scan EXCEPT ![c] = [name |-> s, attempt |-> attempt,
                                  slot |-> FreeSlot, from |-> from, to |-> to]]
  /\ pc' = [pc EXCEPT ![c] = at]

Awaited(c) == requests[scan[c].slot]
Waiting(c) == pc[c] \in {"looking", "pushing"}

\* fetch_cursor
StartScan(c, s) ==
  /\ pc[c] = "idle"
  /\ Send(c, "cursor", s, 0, 0, 0, "looking")

\* The next source of the scan; nothing of this one is kept.
Leave(c) ==
  /\ pc' = [pc EXCEPT ![c] = "idle"]
  /\ scan' = [scan EXCEPT ![c] = [@ EXCEPT !.slot = 0, !.from = 0, !.to = 0, !.attempt = 0]]

\* The answer to a lookup: prepare, and push what there is.
GetCursor(c) ==
  LET r    == Awaited(c)
      from == FirstLine(c, r.name, r.cursor)
      to   == lines[<<c, r.name>>]
  IN
  /\ pc[c] = "looking" /\ r # None /\ r.stage = "answered" /\ r.outcome = "accepted"
  /\ \/ /\ NothingNew(c, r.name, r.cursor)
        /\ requests' = [requests EXCEPT ![scan[c].slot] = None]
        /\ Leave(c)
     \/ /\ ~ NothingNew(c, r.name, r.cursor)
        /\ requests' = [requests EXCEPT ![scan[c].slot] = NewRequest(c, "batch", r.name, from, to, 0)]
        /\ scan' = [scan EXCEPT ![c] = [@ EXCEPT !.attempt = 0, !.from = from, !.to = to]]
        /\ pc' = [pc EXCEPT ![c] = "pushing"]

\* Slip: the answer is used up and the collector goes on waiting for it.
GetAnswerAndWait(c) ==
  LET r == Awaited(c) IN
  /\ Waiting(c) /\ r # None /\ r.stage = "answered"
  /\ requests' = [requests EXCEPT ![scan[c].slot] = None]
  /\ UNCHANGED <<pc, scan>>

\* 200 to a push, or an error that is not retried: the scan goes on.
GetAnswer(c) ==
  LET r == Awaited(c) IN
  /\ Waiting(c) /\ r # None /\ r.stage = "answered"
  /\ \/ pc[c] = "pushing" /\ r.outcome = "accepted"
     \/ r.outcome \in {"unauthorized", "too_large", "identity_mismatch"}
  /\ requests' = [requests EXCEPT ![scan[c].slot] = None]
  /\ Leave(c)

\* 5xx and 429: again after a pause, unless it was the last attempt.
RetryAnswer(c) ==
  LET r == Awaited(c) IN
  /\ Waiting(c) /\ r # None /\ r.stage = "answered"
  /\ r.outcome \in {"rate_limited", "internal_error"}
  /\ requests' = [requests EXCEPT ![scan[c].slot] = None]
  /\ IF scan[c].attempt < MaxAttempts
     THEN /\ pc' = [pc EXCEPT ![c] = "retrying"]
          /\ UNCHANGED scan
     ELSE Leave(c)

\* A timeout or a lost connection: the listener may or may not go on.  Only
\* timeouts and failures to connect are tried again.
HangUp(c) ==
  /\ Waiting(c) /\ Awaited(c) # None
  /\ requests' = [requests EXCEPT ![scan[c].slot].live = FALSE]
  /\ \/ /\ scan[c].attempt < MaxAttempts
        /\ pc' = [pc EXCEPT ![c] = "retrying"]
        /\ UNCHANGED scan
     \/ Leave(c)

Resend(c) ==
  /\ pc[c] = "retrying"
  /\ IF scan[c].to = 0
     THEN Send(c, "cursor", scan[c].name, 0, 0, scan[c].attempt + 1, "looking")
     ELSE Send(c, "batch", scan[c].name, scan[c].from, scan[c].to,
               scan[c].attempt + 1, "pushing")

Collect(c) ==
  /\ \/ GetCursor(c) \/ GetAnswer(c) \/ RetryAnswer(c) \/ Resend(c)
  /\ UNCHANGED <<lines, durable, faults>>

-----------------------------------------------------------------------------
(***************************************************************************)
(* The listener, one handler per request.                                  *)
(***************************************************************************)
\* authenticate_collector, and the checks up to the next access to the
\* database: rate limit, size, event count, event and raw identities.  A lookup
\* reads its cursor in the same step: nothing that could happen between its two
\* reads changes what it may answer.
Answer(i, outcome, cursor) ==
  requests' = [requests EXCEPT ![i] = [@ EXCEPT !.stage = "answered", !.outcome = outcome,
                                                !.cursor = cursor]]

Refuse(i) ==
  LET r == requests[i] IN
  \/ ~ AuthenticateCollector(r.owner) /\ Answer(i, "unauthorized", None)
  \/ AuthenticateCollector(r.owner) /\ MayExceed(r) /\ Answer(i, "rate_limited", None)

Accept(i) ==
  LET r == requests[i] IN
  /\ AuthenticateCollector(r.owner)
  /\ \/ r.kind = "cursor" /\ Answer(i, "accepted", cursors[ScopedSourceId(r.owner, r.name)])
     \/ /\ r.kind = "batch"
        /\ IF Verdict(r) = "accepted"
           THEN requests' = [requests EXCEPT ![i].stage = "admitted"]
           ELSE Answer(i, Verdict(r), None)

Admit(i) ==
  /\ requests[i] # None /\ requests[i].stage = "sent"
  /\ Refuse(i) \/ Accept(i)
  /\ UNCHANGED durable

\* Slips: the cursor is committed and the rows are not; the cursor advances by
\* the length of the batch; the newest batch claims the session.
CommitCursorOnly(i) ==
  LET r == requests[i] IN
  /\ r # None /\ r.stage = "admitted"
  /\ cursors' = [cursors EXCEPT ![ScopedSourceId(r.owner, r.name)] = r.to]
  /\ Answer(i, "accepted", None)
  /\ UNCHANGED <<rows, origin, revoked>>

CommitAdvances(i) ==
  LET r == requests[i]
      at == cursors[ScopedSourceId(r.owner, r.name)]
  IN
  /\ r # None /\ r.stage = "admitted"
  /\ rows' = rows \cup Content(r)
  /\ origin' = [origin EXCEPT ![Session[<<r.owner, r.name>>]] = IF @ = None THEN r.owner ELSE @]
  /\ cursors' = [cursors EXCEPT ![ScopedSourceId(r.owner, r.name)] =
                    IF at = None THEN r.to ELSE at + (r.to - r.from)]
  /\ Answer(i, "accepted", None)
  /\ UNCHANGED revoked

CommitClaims(i) ==
  LET r == requests[i] IN
  /\ r # None /\ r.stage = "admitted"
  /\ rows' = rows \cup Content(r)
  /\ origin' = [origin EXCEPT ![Session[<<r.owner, r.name>>]] = r.owner]
  /\ cursors' = [cursors EXCEPT ![ScopedSourceId(r.owner, r.name)] = r.to]
  /\ Answer(i, "accepted", None)
  /\ UNCHANGED revoked

\* commit_batch: raw objects, the session on its first event, events and the
\* cursor, which is overwritten whatever it was.
CommitBatch(i) ==
  LET r == requests[i] IN
  /\ r # None /\ r.stage = "admitted"
  /\ rows' = rows \cup Content(r)
  /\ origin' = [origin EXCEPT ![Session[<<r.owner, r.name>>]] = IF @ = None THEN r.owner ELSE @]
  /\ cursors' = [cursors EXCEPT ![ScopedSourceId(r.owner, r.name)] = r.to]
  /\ Answer(i, "accepted", None)
  /\ UNCHANGED revoked

\* A handler whose client hung up is done, or is dropped at an await.
Forget(i) ==
  /\ requests[i] # None /\ ~ requests[i].live
  /\ requests' = [requests EXCEPT ![i] = None]
  /\ UNCHANGED durable

Handle(i) == Admit(i) \/ CommitBatch(i)

Listen(i) ==
  /\ Handle(i) \/ Forget(i)
  /\ UNCHANGED <<lines, pc, scan, faults>>

-----------------------------------------------------------------------------
(***************************************************************************)
(* The environment.                                                        *)
(***************************************************************************)
\* The native tool completes lines.
Grow(x) ==
  /\ \E n \in lines[x] + 1 .. MaxLines[x] : lines' = [lines EXCEPT ![x] = n]
  /\ UNCHANGED <<durable, requests, pc, scan, faults>>

\* revoke_collector, from the CLI.
Revoke(c) ==
  /\ c \in Revocable
  /\ revoked' = revoked \cup {c}
  /\ UNCHANGED <<lines, rows, cursors, origin, requests, pc, scan, faults>>

\* A statement of the handler fails: 500, with nothing of the batch stored.
StatementFails ==
  \E i \in 1 .. Slots :
    /\ requests[i] # None /\ requests[i].stage \in {"sent", "admitted"}
    /\ Answer(i, "internal_error", None)
    /\ UNCHANGED <<durable, pc, scan>>

AnswerLost ==
  \E c \in Collectors : HangUp(c) /\ UNCHANGED durable

\* A new process asks for every cursor again; the old requests go on.
CollectorRestarts ==
  \E c \in Collectors :
    /\ pc[c] # "idle"
    /\ requests' = [i \in 1 .. Slots |->
         IF Waiting(c) /\ i = scan[c].slot /\ requests[i] # None
         THEN [requests[i] EXCEPT !.live = FALSE] ELSE requests[i]]
    /\ Leave(c)
    /\ UNCHANGED durable

\* The daemon restarts: every handler is gone; clients fail to connect or lose their connection.
ListenerRestarts ==
  /\ requests' = [i \in 1 .. Slots |-> None]
  /\ \E again \in SUBSET Collectors :
       /\ pc' = [c \in Collectors |-> IF ~ Waiting(c) THEN pc[c]
                 ELSE IF c \in again /\ scan[c].attempt < MaxAttempts THEN "retrying"
                 ELSE "idle"]
       /\ scan' = [c \in Collectors |->
            IF pc'[c] = "idle" THEN [scan[c] EXCEPT !.slot = 0, !.from = 0, !.to = 0, !.attempt = 0]
            ELSE scan[c]]
  /\ UNCHANGED durable

Fault ==
  /\ faults < MaxFaults /\ faults' = faults + 1
  /\ StatementFails \/ AnswerLost \/ CollectorRestarts \/ ListenerRestarts
  /\ UNCHANGED lines

-----------------------------------------------------------------------------
Init ==
  /\ lines = [x \in Sources |-> 0]
  /\ rows = {} /\ revoked = {}
  /\ cursors = [x \in Sources |-> None]
  /\ origin = [n \in {Session[x] : x \in Sources} |-> None]
  /\ requests = [i \in 1 .. Slots |-> None]
  /\ pc = [c \in Collectors |-> "idle"]
  /\ scan = [c \in Collectors |-> [name |-> CHOOSE s \in Names : TRUE, attempt |-> 0,
                                   slot |-> 0, from |-> 0, to |-> 0]]
  /\ faults = 0

Begin(c, s) == StartScan(c, s) /\ UNCHANGED <<lines, durable, faults>>

Next ==
  \/ \E c \in Collectors : \/ Collect(c) \/ Revoke(c)
                           \/ \E s \in Names : Begin(c, s)
  \/ \E i \in 1 .. Slots : Listen(i)
  \/ \E x \in Sources : Grow(x)
  \/ Fault

\* The scan loop visits each source again and again; handlers and
\* collectors go on.  The faults are finitely many: the link is up in the end.
Fairness ==
  /\ \A c \in Collectors : WF_vars(Collect(c))
  /\ \A x \in Sources : SF_vars(Begin(x[1], x[2]))
  /\ \A i \in 1 .. Slots : WF_vars(Listen(i))

Spec == Init /\ [][Next]_vars /\ Fairness

-----------------------------------------------------------------------------
(***************************************************************************)
(* Properties.                                                             *)
(***************************************************************************)

\* Two collectors that report the same source id do not touch each other's
\* progress: a cursor is a boundary in the source of its own collector
\* (docs/api/ingest.md:56), although pushes commit late and repeated.
CursorOwn == \A x \in Sources : cursors[x] # None => cursors[x] <= lines[x]

\* No line is skipped: all lines before a cursor, and before the first line of a
\* batch on its way, are stored.  A late push may move the cursor back, but
\* never past what is stored.
ResumeCovered ==
  /\ \A x \in Sources : cursors[x] # None =>
       \A n \in 0 .. cursors[x] - 1 : <<x, n>> \in rows
  /\ \A i \in 1 .. Slots : requests[i] # None =>
       \A n \in 0 .. requests[i].from - 1 :
         <<<<requests[i].owner, requests[i].name>>, n>> \in rows

\* A revoked token stops working at once, except for requests that were sent
\* before (docs/security/threat-model.md:57): none sent after it reads a
\* cursor or stores anything.
RevokedRefused ==
  \A i \in 1 .. Slots : requests[i] # None /\ requests[i].late =>
    requests[i].stage # "admitted" /\ requests[i].outcome # "accepted"

\* The origin of a session is decided by its first batch and no later batch,
\* of another collector or sent again, changes it.
OriginStable == [][\A n \in DOMAIN origin : origin[n] # None => origin'[n] = origin[n]]_origin

\* A source whose collector keeps its token and whose backlog fits in a batch is
\* stored completely, through lost answers, retries, rate limits and restarts.
Stored(x) == \A n \in 0 .. lines[x] - 1 : <<x, n>> \in rows
Backlog(x) == lines[x] - (IF cursors[x] = None THEN 0 ELSE cursors[x])

Delivered ==
  \A x \in Sources : <>[](Stored(x) \/ x[1] \in revoked \/ Backlog(x) > BatchLimit)

(***************************************************************************)
(* Remote ingestion implements the same ledger as local import.            *)
(***************************************************************************)
Ledger == INSTANCE IngestLedger WITH
  stored <- rows,
  mark   <- [x \in Sources |-> IF cursors[x] = None THEN None ELSE <<x, cursors[x]>>]

LedgerSpec == Ledger!Spec
=============================================================================
