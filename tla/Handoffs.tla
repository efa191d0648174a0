------------------------------ MODULE Handoffs ------------------------------
(***************************************************************************)
(* The compact handoff of one global session: who generates it, from what, *)
(* and what is served as the latest one.                                   *)
(*                                                                         *)
(* A refresh (ApiState::refresh_global_handoff) reads the members, then    *)
(* their events, then the records, generates the handoff, stamps it with   *)
(* the time and stores it under the hash of its content.  The reconciler   *)
(* refreshes after each pass; the HTTP endpoint and accepted reviews       *)
(* refresh at any time.  MCP processes record decisions and tasks.         *)
(*                                                                         *)
(* Data abstraction: a fact is a number, in the lexicographic order of the *)
(* texts.  A handoff has the four fields that are made of facts, each with *)
(* the places of its facts (events first, in their order, then records)    *)
(* and of the sources in its provenance; its size is the number of facts.  *)
(* A query without ORDER BY returns events in the order of the log.        *)
(* Which global session the reconciler chooses is the subject of           *)
(* Correlation; here a pass may place a session in this one or in another. *)
(* All other global sessions are one.                                      *)
(***************************************************************************)
EXTENDS Naturals, Sequences, FiniteSets

CONSTANTS
  Sessions,     \* native sessions
  FieldOf,      \* the field of each fact, or "user", "assistant" for messages
  Suggestions,  \* tasks the local model may suggest; none: no model
  Outranked,    \* sessions whose other global session is listed after this one
  Requests,     \* refreshes asked for over HTTP
  Hosts,        \* MCP processes allowed to write
  Ids,          \* request ids of MCP records
  Budget,       \* facts that fit into the token budget
  None,
  MaxEvents,    \* bound: events
  MaxActs       \* bound: requests, reviews, record calls and faults together

\* In the order in which the budget takes them away.
FieldOrder == <<"relevant_files", "completed", "decisions", "open_tasks">>
Fields == { FieldOrder[i] : i \in 1 .. 4 }

Facts == DOMAIN FieldOf     \* what events and records can say

ASSUME HandoffAssumption ==
  /\ FieldOf \in Seq(Fields \cup {"user", "assistant"})
  /\ Suggestions \subseteq Facts
  /\ {Budget, MaxEvents, MaxActs} \subseteq Nat
  /\ Outranked \subseteq Sessions
  /\ "pass" \notin Requests

Refreshers == Requests \cup {"pass"}

VARIABLES
  log,       \* table native_events: the session and the fact of each event
  members,   \* table global_session_members
  away,      \* table global_session_members: members of another global session
  rejected,  \* user_overrides: sessions that may not be linked here
  barred,    \* user_overrides: sessions that may not be linked there
  records,   \* table session_records
  handoffs,  \* table handoffs: content and created_at; the content is the key
  clock,     \* the time of the last stamp
  refresh,   \* the refresh in progress of each refresher
  pass,      \* the pass of the reconciler, and what it remembers
  call,      \* the record call in progress of each MCP process
  answers,   \* the requests whose clients were told that they are recorded
  acts,      \* counter for the bound
  owed,      \* history: sessions with an event that no stored handoff has read
  overlooked, \* history: those of owed whose change a pass took for another's
  skipped,   \* history: a pass of this process has lost a refresh
  during     \* history: sessions that were members since the refresh began

others   == <<away, barred>>
evidence == <<log, members, rejected, records, others>>
history  == <<owed, overlooked, skipped, during>>
vars == <<evidence, handoffs, clock, refresh, pass, call, answers, acts, history>>

Maybe(S) == S \cup {None}
Record   == [id : Ids, fact : Facts]
Step     == {"idle", "members", "events", "records", "stamped"}
NoRefresh == [step |-> "idle", members |-> {}, seen |-> 0, recs |-> 0, at |-> 0,
              content |-> None]
NewProcess == [pc |-> "idle", mark |-> 0, next |-> 0, changed |-> {}, here |-> {},
               there |-> {}, touched |-> FALSE, booted |-> FALSE]

-----------------------------------------------------------------------------
(***************************************************************************)
(* generate: the handoff of a set of events I (indices of the log) and the *)
(* first n records.                                                        *)
(***************************************************************************)
FieldOfRecord(r) == IF FieldOf[r.fact] = "open_tasks" THEN "open_tasks" ELSE "decisions"

Saying(I, field) == { i \in I : FieldOf[log[i].fact] = field }

\* push_fact: the first event that says a fact is its provenance.
FirstToSay(I, field) ==
  { i \in Saying(I, field) : \A j \in Saying(I, field) : log[j].fact = log[i].fact => i <= j }

\* Without tasks the latest user message is the task; without completed work
\* the latest answer is.
Fallback(I, field) ==
  LET kind == IF field = "open_tasks" THEN "user" ELSE "assistant"
      said == Saying(I, kind)
  IN  IF field \in {"open_tasks", "completed"} /\ Saying(I, field) = {}
      THEN { i \in said : \A j \in said : j <= i }
      ELSE {}

Supporting(I, field) == FirstToSay(I, field) \cup Fallback(I, field)

\* apply_recorded_facts: records add what events have not said, in their order.
Added(I, n, field) ==
  { k \in 1 .. n :
      /\ FieldOfRecord(records[k]) = field
      /\ \A i \in Supporting(I, field) : log[i].fact # records[k].fact
      /\ \A j \in 1 .. k - 1 : FieldOfRecord(records[j]) = field
                                 => records[j].fact # records[k].fact }

Items(I, n, field) ==
  { log[i].fact : i \in Supporting(I, field) } \cup { Len(FieldOf) + k : k \in Added(I, n, field) }

Sources(I, n, field) ==
  Supporting(I, field) \cup { MaxEvents + k : k \in Added(I, n, field) }

\* apply_suggestions: the model is heard only when there is no task.
Full(I, n, suggested) ==
  [field \in Fields |->
     IF field = "open_tasks" /\ Items(I, n, field) = {}
     THEN [items |-> suggested, sources |-> {}]
     ELSE [items |-> Items(I, n, field), sources |-> Sources(I, n, field)]]

Count(full, k) == Cardinality(full[FieldOrder[k]].items)
Size(full)     == Count(full, 1) + Count(full, 2) + Count(full, 3) + Count(full, 4)
Minus(x, y)    == IF x < y THEN 0 ELSE x - y
Smaller(x, y)  == IF x < y THEN x ELSE y

\* How many facts of field k must go: all of the fields before it have gone
\* by then, and one task stays.
Excess(full, k) ==
  LET before == CASE k = 1 -> 0
                  [] k = 2 -> Count(full, 1)
                  [] k = 3 -> Count(full, 1) + Count(full, 2)
                  [] k = 4 -> Count(full, 1) + Count(full, 2) + Count(full, 3)
  IN  Smaller(Minus(Minus(Size(full), Budget), before),
              IF k = 4 THEN Minus(Count(full, 4), 1) ELSE Count(full, k))

\* pop and rposition: the last entries go.
WithoutLast(S, k) == { x \in S : Cardinality({ y \in S : y > x }) >= k }

\* Slip: the facts go, their provenance stays.
EnforceFactsOnly(full) ==
  [field \in Fields |->
     LET k == CHOOSE i \in 1 .. 4 : FieldOrder[i] = field
     IN  [items   |-> WithoutLast(full[field].items, Excess(full, k)),
          sources |-> full[field].sources]]

\* enforce_budget
Enforce(full) ==
  [field \in Fields |->
     LET k == CHOOSE i \in 1 .. 4 : FieldOrder[i] = field
     IN  [items   |-> WithoutLast(full[field].items, Excess(full, k)),
          sources |-> WithoutLast(full[field].sources, Excess(full, k))]]

\* None when there is no provenance, or the budget is too small.
Fitting(full) ==
  IF (\A field \in Fields : full[field].sources = {}) \/ Size(Enforce(full)) > Budget
  THEN None ELSE Enforce(full)

\* The model may suggest a task, time out or send nonsense.
Outcomes(I, n) ==
  { Fitting(full) : full \in { Full(I, n, suggested) :
      suggested \in {{}} \cup { {f} : f \in Suggestions } } }

-----------------------------------------------------------------------------
(***************************************************************************)
(* One refresh.                                                            *)
(***************************************************************************)
Goto(r, job) == refresh' = [refresh EXCEPT ![r] = job]

\* list_global_sessions and list_session_members
ReadMembers(r) ==
  /\ Goto(r, [NoRefresh EXCEPT !.step = "members", !.members = members])
  /\ during' = [during EXCEPT ![r] = members]

\* Slip: the events of all sessions are read.
ReadAllEvents(r) ==
  /\ refresh[r].step = "members"
  /\ Goto(r, [refresh[r] EXCEPT !.step = "events", !.seen = Len(log), !.members = Sessions])
  /\ UNCHANGED <<handoffs, clock, owed>>

\* list_canonical_events_for_sessions
ReadEvents(r) ==
  /\ refresh[r].step = "members"
  /\ Goto(r, [refresh[r] EXCEPT !.step = "events", !.seen = Len(log)])
  /\ UNCHANGED <<handoffs, clock, owed>>

ReadRecords(r) ==
  /\ refresh[r].step = "events"
  /\ Goto(r, [refresh[r] EXCEPT !.step = "records", !.recs = Len(records)])
  /\ UNCHANGED <<handoffs, clock, owed>>

EventsRead(r) == { i \in 1 .. refresh[r].seen : log[i].session \in refresh[r].members }

\* generate, and created_at, when the model has answered or not.
Stamp(r) ==
  /\ refresh[r].step = "records"
  /\ \E content \in Outcomes(EventsRead(r), refresh[r].recs) \ {None} :
       /\ clock' = clock + 1
       /\ Goto(r, [refresh[r] EXCEPT !.step = "stamped", !.content = content, !.at = clock'])
  /\ UNCHANGED <<handoffs, owed>>

ReadAll(r, s) == \A i \in DOMAIN log : log[i].session = s => i <= refresh[r].seen

\* store_handoff: a content that is stored already is left alone, with its
\* time; the identity of the handoff is its hash.
Store(r) ==
  LET job == refresh[r] IN
  /\ job.step = "stamped"
  /\ handoffs' = IF \E h \in handoffs : h.content = job.content THEN handoffs
                 ELSE handoffs \cup {[content |-> job.content, at |-> job.at]}
  /\ owed' = { s \in owed : s \notin job.members \/ ~ ReadAll(r, s) }
  /\ Goto(r, NoRefresh)
  /\ UNCHANGED clock

\* Nothing to show: MissingProvenance, BudgetTooSmall.
NothingToShow(r) ==
  /\ refresh[r].step = "records"
  /\ None \in Outcomes(EventsRead(r), refresh[r].recs)
  /\ Goto(r, NoRefresh)
  /\ owed' = { s \in owed : s \notin refresh[r].members \/ ~ ReadAll(r, s) }
  /\ UNCHANGED <<handoffs, clock>>

Refreshing(r) ==
  /\ ReadEvents(r) \/ ReadRecords(r) \/ Stamp(r) \/ Store(r) \/ NothingToShow(r)
  /\ during' = IF refresh'[r] = NoRefresh THEN [during EXCEPT ![r] = {}] ELSE during
  /\ overlooked' = overlooked \cap owed'
  /\ UNCHANGED <<evidence, pass, call, answers, acts, skipped>>

\* latest_handoff: ORDER BY created_at DESC
Latest == { h \in handoffs : \A g \in handoffs : g.at <= h.at }

-----------------------------------------------------------------------------
(***************************************************************************)
(* The evidence grows and changes.                                         *)
(***************************************************************************)
Elsewhere == UNCHANGED <<handoffs, clock, refresh, pass, call, answers, skipped>>

Act == acts < MaxActs /\ acts' = acts + 1

\* commit_batch
AppendEvent(s, f) ==
  /\ Len(log) < MaxEvents
  /\ log' = Append(log, [session |-> s, fact |-> f])
  /\ owed' = IF s \in members THEN owed \cup {s} ELSE owed
  /\ overlooked' = overlooked \ {s}
  /\ UNCHANGED <<members, rejected, records, others, acts, during>> /\ Elsewhere

Join(added) ==
  /\ members' = members \cup added
  /\ during' = [r \in Refreshers |-> IF refresh[r].step = "idle" THEN {} ELSE during[r] \cup added]

Recorded(s) == \E i \in DOMAIN log : log[i].session = s

\* link_session, by the link endpoint or an accepted candidate.
LinkByUser(s) ==
  /\ s \notin members \cup rejected /\ Recorded(s)
  /\ Join({s})
  /\ UNCHANGED <<rejected, others, owed, overlooked>>

LinkAwayByUser(s) ==
  /\ s \notin away \cup barred /\ Recorded(s)
  /\ away' = away \cup {s}
  /\ UNCHANGED <<members, rejected, barred, owed, overlooked, during>>

\* unlink_session and reject_membership; neither refreshes the handoff.
RemoveByUser(s, rejection) ==
  /\ s \in members
  /\ members' = members \ {s} /\ owed' = owed \ {s} /\ overlooked' = overlooked \ {s}
  /\ rejected' = IF rejection THEN rejected \cup {s} ELSE rejected
  /\ UNCHANGED <<others, during>>

RemoveAwayByUser(s, rejection) ==
  /\ s \in away
  /\ away' = away \ {s}
  /\ barred' = IF rejection THEN barred \cup {s} ELSE barred
  /\ UNCHANGED <<members, rejected, owed, overlooked, during>>

User(s) ==
  /\ Act
  /\ \/ LinkByUser(s) \/ LinkAwayByUser(s)
     \/ \E rejection \in BOOLEAN : RemoveByUser(s, rejection) \/ RemoveAwayByUser(s, rejection)
  /\ UNCHANGED <<log, records>> /\ Elsewhere

\* POST /api/v1/handoffs/{id}, and the refresh at the end of an accepted review.
Ask(r) ==
  /\ Act /\ refresh[r].step = "idle"
  /\ ReadMembers(r)
  /\ UNCHANGED <<evidence, handoffs, clock, pass, call, answers, owed, overlooked, skipped>>

-----------------------------------------------------------------------------
(***************************************************************************)
(* The pass of the reconciler (Reconciler::reconcile).                     *)
(***************************************************************************)
ChangedSince(mark) == { log[i].session : i \in mark + 1 .. Len(log) }

\* native_sessions_changed_since
ReadChanged ==
  /\ pass.pc = "idle"
  /\ pass.mark < Len(log) \/ ~ pass.booted
  /\ pass' = [pass EXCEPT !.pc = "changed", !.next = Len(log),
                          !.changed = ChangedSince(pass.mark)]
  /\ UNCHANGED <<members, away, refresh, owed, overlooked, during>>

\* list_all_session_members, once for the whole pass.  member_global keeps one
\* global session of each native session: the last in the list.
ReadMemberships ==
  LET here == members \ (away \cap Outranked) IN
  /\ pass.pc = "changed"
  /\ pass' = [pass EXCEPT !.pc = "placing", !.here = here, !.there = away \ here,
                          !.touched = ~ pass.booted /\ members # {}]
  /\ UNCHANGED <<members, away, refresh, owed, overlooked, during>>

Handled(s, touched) ==
  pass' = [pass EXCEPT !.changed = @ \ {s}, !.touched = @ \/ touched]

Attribute(s) ==
  /\ s \in pass.here \cup pass.there
  /\ Handled(s, s \in pass.here)
  /\ overlooked' = IF s \in pass.there THEN overlooked \cup ({s} \cap owed) ELSE overlooked
  /\ UNCHANGED <<members, away, owed, during>>

\* link_session refuses a pair that was rejected, and the pass ends there: it
\* refreshes nothing, and begins again from the same watermark.
GiveUp == pass' = [NewProcess EXCEPT !.mark = pass.mark, !.booted = pass.booted]

PlaceHere(s) ==
  /\ s \notin rejected
  /\ Join({s}) /\ owed' = owed \cup {s}
  /\ Handled(s, TRUE)
  /\ UNCHANGED <<away, overlooked>>

PlaceAway(s) ==
  /\ s \notin barred
  /\ away' = away \cup {s}
  /\ Handled(s, FALSE)
  /\ UNCHANGED <<members, owed, overlooked, during>>

PlaceRefused(s) ==
  /\ s \in rejected \cup barred
  /\ GiveUp
  /\ UNCHANGED <<members, away, owed, overlooked, during>>

Place(s) ==
  /\ pass.pc = "placing" /\ s \in pass.changed
  /\ \/ Attribute(s)
     \/ /\ s \notin pass.here \cup pass.there
        /\ PlaceHere(s) \/ PlaceAway(s) \/ PlaceRefused(s)
  /\ UNCHANGED refresh

\* The handoff is refreshed when a changed session was found or placed here, and
\* once per process.
RefreshTouched ==
  /\ pass.pc = "placing" /\ pass.changed = {} /\ pass.touched
  /\ ReadMembers("pass")
  /\ pass' = [pass EXCEPT !.pc = "refreshing"]
  /\ UNCHANGED <<members, away, owed, overlooked>>

PassDone ==
  \/ pass.pc = "placing" /\ pass.changed = {} /\ ~ pass.touched
  \/ pass.pc = "refreshing" /\ refresh["pass"].step = "idle"


\* The watermark passes whatever became of the refresh.
EndPass ==
  /\ PassDone
  /\ pass' = [NewProcess EXCEPT !.mark = pass.next, !.booted = TRUE]
  /\ UNCHANGED <<members, away, refresh, owed, overlooked, during>>

Pass ==
  /\ \/ ReadChanged \/ ReadMemberships \/ RefreshTouched \/ EndPass
     \/ \E s \in Sessions : Place(s)
  /\ UNCHANGED <<log, rejected, barred, records, handoffs, clock, call, answers, acts, skipped>>

-----------------------------------------------------------------------------
(***************************************************************************)
(* MCP: McpServer::record and Storage::store_session_record.               *)
(***************************************************************************)
Known(id) == { k \in DOMAIN records : records[k].id = id }

\* The client learns that its request is recorded, or gets an error.
Accepted(request) == answers' = answers \cup {request}
Refused           == UNCHANGED answers

\* The existing row is looked up and compared.
Check(h, id, f) ==
  LET request == [id |-> id, fact |-> f] IN
  /\ call[h] = None
  /\ UNCHANGED records
  /\ IF Known(id) = {} THEN call' = [call EXCEPT ![h] = request] /\ Refused
     ELSE /\ UNCHANGED call
          /\ IF \E k \in Known(id) : records[k] = request THEN Accepted(request) ELSE Refused

\* Slip: the column is not UNIQUE.
InsertAgain(h) ==
  /\ call[h] # None /\ call' = [call EXCEPT ![h] = None]
  /\ records' = Append(records, call[h]) /\ Accepted(call[h])

\* A separate statement: request_id is UNIQUE.
Insert(h) ==
  /\ call[h] # None /\ call' = [call EXCEPT ![h] = None]
  /\ IF Known(call[h].id) = {}
     THEN records' = Append(records, call[h]) /\ Accepted(call[h])
     ELSE UNCHANGED records /\ Refused

Mcp ==
  /\ \E h \in Hosts :
       \/ Insert(h) /\ UNCHANGED acts
       \/ Act /\ \E id \in Ids, f \in Facts :
            FieldOf[f] \in {"decisions", "open_tasks"} /\ Check(h, id, f)
  /\ UNCHANGED <<log, members, rejected, others, handoffs, clock, refresh, pass, history>>

-----------------------------------------------------------------------------
\* A read or the transaction of a refresh fails; a pass ignores it.
RefreshFails(r) ==
  /\ refresh[r].step # "idle"
  /\ Goto(r, NoRefresh)
  /\ skipped' = (skipped \/ r = "pass")
  /\ during' = [during EXCEPT ![r] = {}]
  /\ UNCHANGED <<pass, call>>

\* A query of the pass fails.
PassFails ==
  /\ pass.pc \in {"changed", "placing"}
  /\ GiveUp
  /\ UNCHANGED <<refresh, call, skipped, during>>

Restart ==
  /\ refresh' = [r \in Refreshers |-> NoRefresh]
  /\ during' = [r \in Refreshers |-> {}]
  /\ pass' = NewProcess /\ skipped' = FALSE
  /\ call' = [h \in Hosts |-> None]

Fault ==
  /\ Act
  /\ Restart \/ PassFails \/ \E r \in Refreshers : RefreshFails(r)
  /\ UNCHANGED <<evidence, handoffs, clock, answers, owed, overlooked>>

-----------------------------------------------------------------------------
Init ==
  /\ log = << >> /\ members = {} /\ rejected = {} /\ records = << >>
  /\ away = {} /\ barred = {}
  /\ handoffs = {} /\ clock = 0
  /\ refresh = [r \in Refreshers |-> NoRefresh]
  /\ pass = NewProcess
  /\ call = [h \in Hosts |-> None] /\ answers = {}
  /\ acts = 0
  /\ owed = {} /\ overlooked = {} /\ skipped = FALSE /\ during = [r \in Refreshers |-> {}]

Next ==
  \/ \E s \in Sessions, f \in Facts : AppendEvent(s, f)
  \/ \E s \in Sessions : User(s)
  \/ \E r \in Requests : Ask(r)
  \/ \E r \in Refreshers : Refreshing(r)
  \/ Pass \/ Mcp \/ Fault

\* The reconciler ticks for ever and finishes its refresh; a request may be
\* given up by its client.
Fairness == WF_vars(Pass \/ Refreshing("pass"))

Spec == Init /\ [][Next]_vars /\ Fairness

-----------------------------------------------------------------------------
(***************************************************************************)
(* Properties.                                                             *)
(***************************************************************************)
Content == [Fields -> [items : SUBSET Nat, sources : SUBSET Nat]]

TypeOK ==
  /\ \A i \in DOMAIN log : log[i].session \in Sessions /\ log[i].fact \in Facts
  /\ members \subseteq Sessions /\ away \subseteq Sessions
  /\ rejected \subseteq Sessions /\ barred \subseteq Sessions
  /\ records \in Seq(Record)
  /\ \A h \in handoffs : h.content \in Content /\ h.at \in 1 .. clock
  /\ \A r \in Refreshers : /\ refresh[r].step \in Step
                           /\ refresh[r].seen <= Len(log) /\ refresh[r].recs <= Len(records)
                           /\ refresh[r].step = "stamped" => refresh[r].content \in Content
  /\ pass.mark <= Len(log)
  /\ call \in [Hosts -> Maybe(Record)] /\ answers \subseteq Record

\* A handoff that is about to be stored shows no session that has been out of
\* the global session since its refresh began, whoever else refreshes: what a
\* user removed does not come back in a refresh asked for afterwards.
RemovedStayOut ==
  \A r \in Refreshers : refresh[r].step = "stamped" =>
    \A field \in Fields : \A i \in refresh[r].content[field].sources :
      i <= MaxEvents => log[i].session \in during[r]

\* The budget removes provenance together with facts: every field of a stored
\* handoff has one source for each of its facts, tasks of the model excepted.
ProvenanceCounted ==
  \A h \in handoffs :
    /\ Size(h.content) <= Budget
    /\ \A field \in Fields :
         \/ Cardinality(h.content[field].sources) = Cardinality(h.content[field].items)
         \/ /\ field = "open_tasks" /\ h.content[field].sources = {}
            /\ h.content[field].items \subseteq Suggestions

\* An MCP client is told the truth, also when two processes record under one
\* request id at the same time: a request id has one record, and whoever was
\* answered that it was created, or existed, finds what it asked for.
RecordHonest ==
  /\ \A j, k \in DOMAIN records : records[j].id = records[k].id => j = k
  /\ \A request \in answers : \E k \in DOMAIN records : records[k] = request

\* A changed session without a global session that a user has rejected somewhere:
\* link_session may refuse it again in every pass.
Blocked ==
  \E s \in ChangedSince(pass.mark) : s \notin members \cup away /\ s \in rejected \cup barred


\* "Reconciliation cost is proportional to the sessions that gained events [...]
\* and only their global sessions get a refreshed handoff" (main.rs:337-340): they
\* do, also when a session has two of them.
EveryGlobalShown == <>[](owed = {} \/ skipped \/ Blocked)

\* "`POST /api/v1/handoffs/{globalSessionId}` refreshes and atomically stores the
\* snapshot and handoff. `GET` returns the latest immutable version"
\* (docs/architecture/handoffs.md:60): the refresh that was stamped last is
\* what is served once it is stored.
RefreshServed ==
  [][\A r \in Refreshers :
       refresh[r].step = "stamped" /\ refresh[r].at = clock /\ handoffs' # {}
         /\ refresh'[r].step = "idle" /\ acts' = acts
       => \E h \in Latest' : h.content = refresh[r].content]_vars

\* "Each derived field retains canonical event provenance"
\* (docs/architecture/handoffs.md:27): what a handoff still shows, it attributes.
Attributed ==
  \A h \in handoffs : \A field \in {"decisions", "relevant_files"} :
    \A x \in h.content[field].items :
      \E i \in h.content[field].sources :
        IF i <= MaxEvents THEN log[i].fact = x ELSE i - MaxEvents = x - Len(FieldOf)
=============================================================================
