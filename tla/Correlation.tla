---------------------------- MODULE Correlation ----------------------------
(***************************************************************************)
(* The reconciler of sessionmesh-daemon/src/main.rs, which places native   *)
(* sessions in global sessions, running against the membership and review  *)
(* endpoints of sessionmesh-api/src/lib.rs and against remote collectors   *)
(* that add events.  They share only the tables of Membership, and each of *)
(* them awaits the database between any two of its reads and writes.       *)
(*                                                                         *)
(* Data abstraction: which membership scores best for a session, and       *)
(* whether the score reaches the threshold, is left open.  Handoffs, which *)
(* the reconciler and a review refresh from these tables, are not modelled *)
(* here.                                                                   *)
(***************************************************************************)
EXTENDS Membership

CONSTANTS
  Family,       \* tool family of each session
  Seed,         \* global_id: the isolated global session of each session
  Requests,     \* bound: API requests ever made
  Operations,   \* what the requests may be: see Serve
  AsksAt,       \* which event of a session is its first user message
  MaxEvents,    \* bound: events ever stored
  MaxFaults     \* bound: failed passes, abandoned requests, crashes

ASSUME CorrelationAssumption ==
  /\ Family \in [Sessions -> STRING]
  /\ Seed \in [Sessions -> Globals]
  /\ \A s, t \in Sessions : Seed[s] = Seed[t] => s = t
  /\ Operations \subseteq {"create", "link", "unlink", "reject", "accept", "refuse"}
  /\ {AsksAt, MaxEvents, MaxFaults} \subseteq Nat

VARIABLES
  watermark,    \* Reconciler.watermark
  bootstrapped, \* Reconciler.bootstrapped
  summaries,    \* Reconciler.summaries: the objective each was loaded with
  pc,           \* where the reconciler is
  pass,         \* the locals of the pass in progress
  requests,     \* the requests of the API: where each is, and its locals
  faults

reconcilerVars == <<watermark, bootstrapped, summaries, pc, pass>>
vars == <<tables, reconcilerVars, requests, faults>>

Pass == [next : Nat, changed : SUBSET Sessions, load : SUBSET Sessions,
         todo : SUBSET Sessions, snap : SUBSET Pairs, review : SUBSET Couples,
         cur : Maybe(Sessions), goal : Maybe(Globals), how : Automatic]

Request == [pc : {"new", "reviewing", "dropping", "rejecting", "checking",
                  "linking", "deciding", "done"},
            session : Maybe(Sessions), global : Maybe(Globals),
            couple : Maybe(Couples), right : Maybe(Sessions),
            drop : SUBSET Globals, version : Manual, verdict : {"accepted", "rejected"}]

PcValues == {"idle", "loading", "listing", "working", "creating", "linking", "storing"}

NoPass == [next |-> 0, changed |-> {}, load |-> {}, todo |-> {}, snap |-> {},
           review |-> {}, cur |-> None, goal |-> None, how |-> "seed"]

NoRequest == [pc |-> "new", session |-> None, global |-> None, couple |-> None,
              right |-> None, drop |-> {}, version |-> "manual", verdict |-> "accepted"]

TypeOK ==
  /\ TablesOK
  /\ watermark \in Nat /\ faults \in Nat
  /\ bootstrapped \in BOOLEAN
  /\ summaries \in [Sessions -> Maybe(Objective)]
  /\ pc \in PcValues
  /\ pass \in Pass
  /\ pc \in {"creating", "linking", "storing"} => pass.cur # None /\ pass.goal # None
  /\ requests \in [Requests -> Request]

-----------------------------------------------------------------------------
(***************************************************************************)
(* The reconciler: one pass of Reconciler::reconcile.                      *)
(***************************************************************************)
\* summarize_session: the objective comes from the first user message.
ObjectiveOf(s) ==
  IF Cardinality({ i \in DOMAIN log : log[i] = s }) >= AsksAt THEN "asked" ELSE "fallback"

\* native_sessions_changed_since; an idle tick does nothing.
Detect ==
  LET changed == ChangedSince(watermark)
  IN  /\ pc = "idle"
      /\ changed # {} \/ ~ bootstrapped
      /\ pc' = "loading"
      /\ pass' = [NoPass EXCEPT !.next = Len(log), !.changed = changed,
                                !.load = changed, !.todo = changed]
      /\ UNCHANGED <<tables, watermark, bootstrapped, summaries>>

LoadSummary ==
  /\ pc = "loading"
  /\ \E s \in pass.load :
       /\ summaries' = [summaries EXCEPT ![s] = ObjectiveOf(s)]
       /\ pass' = [pass EXCEPT !.load = @ \ {s}]
  /\ UNCHANGED <<tables, watermark, bootstrapped, pc>>

\* list_all_session_members: decisions are taken on this copy of the table.
ListMembers ==
  /\ pc = "loading" /\ pass.load = {}
  /\ pc' = "listing"
  /\ pass' = [pass EXCEPT !.snap = Memberships]
  /\ UNCHANGED <<tables, watermark, bootstrapped, summaries>>

\* refresh_pending_candidate_evidence reads the candidates once; the scope is
\* the changed sessions in the first pass and everything afterwards.
ListCandidates ==
  LET scope == IF bootstrapped THEN Sessions ELSE pass.changed
  IN  /\ pc = "listing"
      /\ pc' = "working"
      /\ pass' = [pass EXCEPT !.review =
           { c \in Listed("pending") : /\ c \cap scope # {}
                                       /\ \A s \in c : summaries[s] # None }]
      /\ UNCHANGED <<tables, watermark, bootstrapped, summaries>>

\* ... and rewrites each of those, as pending, in a transaction of its own.
RefreshCandidate ==
  /\ pc = "working"
  /\ \E c \in pass.review :
       /\ UpsertCandidate(candidates[c].left, candidates[c].right, "pending")
       /\ pass' = [pass EXCEPT !.review = @ \ {c}]
  /\ UNCHANGED <<watermark, bootstrapped, summaries, pc>>

Placed(s) == \E g \in Globals : <<g, s>> \in pass.snap

\* A changed session that had a membership keeps it.
Skip(s) ==
  /\ Placed(s)
  /\ pass' = [pass EXCEPT !.todo = @ \ {s}]
  /\ UNCHANGED <<tables, pc>>

\* Memberships of summarised sessions of another tool family.
Others(s) == { m \in pass.snap : summaries[m[2]] # None /\ Family[m[2]] # Family[s] }

\* The best other membership becomes a candidate; at the threshold the session
\* joins that global session, and otherwise it gets one of its own.
Choose(s) ==
  \/ /\ Others(s) = {}
     /\ pc' = "creating"
     /\ pass' = [pass EXCEPT !.cur = s, !.goal = Seed[s], !.how = "seed"]
     /\ UNCHANGED tables
  \/ \E m \in Others(s), accepted \in BOOLEAN :
       /\ UpsertCandidate(s, m[2], IF accepted THEN "accepted" ELSE "pending")
       /\ pc' = IF accepted THEN "linking" ELSE "creating"
       /\ pass' = [pass EXCEPT !.cur = s,
                               !.goal = IF accepted THEN m[1] ELSE Seed[s],
                               !.how = IF accepted THEN "content" ELSE "seed"]

\* Slip: a session is placed again although the pass knows a membership.
PlaceAgain ==
  /\ pc = "working" /\ pass.review = {}
  /\ \E s \in pass.todo : Choose(s)
  /\ UNCHANGED <<watermark, bootstrapped, summaries>>

\* The body of the loop over the changed sessions, up to the first write
\* after the candidate.
PlaceNext ==
  /\ pc = "working" /\ pass.review = {}
  /\ \E s \in pass.todo : Skip(s) \/ (~ Placed(s) /\ Choose(s))
  /\ UNCHANGED <<watermark, bootstrapped, summaries>>

CreateSeed ==
  /\ pc = "creating" /\ Creatable(pass.goal, summaries[pass.cur])
  /\ CreateGlobal(pass.goal, summaries[pass.cur])
  /\ pc' = "linking"
  /\ UNCHANGED <<watermark, bootstrapped, summaries, pass>>

CheckRejection ==
  /\ pc = "linking" /\ Linkable(pass.goal, pass.cur)
  /\ pc' = "storing"
  /\ UNCHANGED <<tables, watermark, bootstrapped, summaries, pass>>

\* Slip: the loop does not go on to the next session.
StoreLinkAgain ==
  /\ pc = "storing"
  /\ Link(pass.goal, pass.cur, pass.how)
  /\ pass' = [pass EXCEPT !.snap = @ \cup {<<pass.goal, pass.cur>>},
                          !.todo = @ \ {pass.cur}, !.cur = None, !.goal = None]
  /\ UNCHANGED <<pc, watermark, bootstrapped, summaries>>

\* The transaction of link_session; the pass remembers the new membership.
StoreLink ==
  /\ pc = "storing"
  /\ Link(pass.goal, pass.cur, pass.how)
  /\ pc' = "working"
  /\ pass' = [pass EXCEPT !.snap = @ \cup {<<pass.goal, pass.cur>>},
                          !.todo = @ \ {pass.cur}, !.cur = None, !.goal = None]
  /\ UNCHANGED <<watermark, bootstrapped, summaries>>

\* Slip: the watermark covers events that arrived during the pass.
FinishAtEnd ==
  /\ pc = "working" /\ pass.review = {} /\ pass.todo = {}
  /\ pc' = "idle" /\ pass' = NoPass
  /\ watermark' = Len(log)
  /\ bootstrapped' = TRUE
  /\ UNCHANGED <<tables, summaries>>

\* After the handoffs are refreshed, whose failures are ignored.
Finish ==
  /\ pc = "working" /\ pass.review = {} /\ pass.todo = {}
  /\ pc' = "idle" /\ pass' = NoPass
  /\ watermark' = pass.next
  /\ bootstrapped' = TRUE
  /\ UNCHANGED <<tables, summaries>>

\* Slip: the watermark of a failed pass is kept.
AbortAdvances ==
  /\ pc' = "idle" /\ pass' = NoPass
  /\ watermark' = pass.next
  /\ UNCHANGED <<tables, bootstrapped, summaries>>

\* An error leaves the pass: what it wrote stays, the watermark stays too.
Abort ==
  /\ pc' = "idle" /\ pass' = NoPass
  /\ UNCHANGED <<tables, watermark, bootstrapped, summaries>>

CreateRefused ==
  pc = "creating" /\ ~ Creatable(pass.goal, summaries[pass.cur]) /\ Abort

LinkRefused == pc = "linking" /\ ~ Linkable(pass.goal, pass.cur) /\ Abort

Reconcile ==
  \/ Detect \/ LoadSummary \/ ListMembers \/ ListCandidates \/ RefreshCandidate
  \/ PlaceNext \/ CreateSeed \/ CreateRefused
  \/ CheckRejection \/ LinkRefused \/ StoreLink \/ Finish

-----------------------------------------------------------------------------
(***************************************************************************)
(* The API: what a user asks for, one request at a time or several.        *)
(***************************************************************************)
Goes(r, where) == requests' = [requests EXCEPT ![r].pc = where]

\* POST /global-sessions draws a fresh random identity.
Create(r) ==
  /\ "create" \in Operations /\ requests[r].pc = "new"
  /\ \E g \in Globals :
       /\ g \notin { Seed[s] : s \in Sessions } /\ globals[g] = None
       /\ CreateGlobal(g, "given")
  /\ Goes(r, "done")

\* link_member and accept_correlation: link_session with version manual-v1.
AskLink(r) ==
  /\ "link" \in Operations /\ requests[r].pc = "new"
  /\ \E g \in Globals, s \in Sessions :
       requests' = [requests EXCEPT ![r] =
         [requests[r] EXCEPT !.pc = "checking", !.global = g, !.session = s]]
  /\ UNCHANGED tables

CheckRequest(r) ==
  /\ requests[r].pc = "checking"
  /\ Goes(r, IF Linkable(requests[r].global, requests[r].session) THEN "linking" ELSE "done")
  /\ UNCHANGED tables

StoreRequest(r) ==
  LET q == requests[r]
  IN  /\ q.pc = "linking"
      /\ \/ /\ Link(q.global, q.session, q.version)
            /\ Goes(r, IF q.version = "candidate" THEN "deciding" ELSE "done")
         \/ /\ ~ KeysExist(q.global, q.session)
            /\ Goes(r, "done")
            /\ UNCHANGED tables

AskUnlink(r) ==
  /\ "unlink" \in Operations /\ requests[r].pc = "new"
  /\ \E g \in Globals, s \in Sessions : Unlink(g, s, "unlink")
  /\ Goes(r, "done")

\* reject_correlation.
AskReject(r) ==
  /\ "reject" \in Operations /\ requests[r].pc = "new"
  /\ \E g \in Globals, s \in Sessions : RejectMembership(g, s)
  /\ Goes(r, "done")

\* review_correlation_candidate reads the candidate ...
AskReview(r) ==
  /\ requests[r].pc = "new"
  /\ \E c \in Couples, verdict \in {"accepted", "rejected"} :
       /\ (IF verdict = "accepted" THEN "accept" ELSE "refuse") \in Operations
       /\ candidates[c] # None
       /\ requests' = [requests EXCEPT ![r] =
            [requests[r] EXCEPT !.pc = "reviewing", !.couple = c,
                      !.session = candidates[c].left, !.right = candidates[c].right,
                      !.version = "candidate", !.verdict = verdict]]
  /\ UNCHANGED tables

\* ... then the memberships: the target is one of the right session's, and an
\* acceptance will drop the left session's automatic seeds elsewhere.
ReadReview(r) ==
  LET q == requests[r]
  IN  /\ q.pc = "reviewing"
      /\ \/ GlobalsOf(q.right) = {} /\ Goes(r, "done")
         \/ \E g \in GlobalsOf(q.right) :
              requests' = [requests EXCEPT ![r] =
                [q EXCEPT !.global = g,
                          !.pc = IF q.verdict = "accepted" THEN "dropping" ELSE "rejecting",
                          !.drop = { h \in Globals \ {g} : members[<<h, q.session>>] = "seed" }]]
      /\ UNCHANGED tables

\* Slip: the review is recorded without the link.
DropSeedOnly(r) ==
  LET q == requests[r]
  IN  /\ q.pc = "dropping"
      /\ \/ \E h \in q.drop :
              /\ Unlink(h, q.session, "replace")
              /\ requests' = [requests EXCEPT ![r].drop = @ \ {h}]
         \/ q.drop = {} /\ Goes(r, "deciding") /\ UNCHANGED tables

DropSeed(r) ==
  LET q == requests[r]
  IN  /\ q.pc = "dropping"
      /\ \/ \E h \in q.drop :
              /\ Unlink(h, q.session, "replace")
              /\ requests' = [requests EXCEPT ![r].drop = @ \ {h}]
         \/ q.drop = {} /\ Goes(r, "checking") /\ UNCHANGED tables

RejectReview(r) ==
  LET q == requests[r]
  IN  /\ q.pc = "rejecting"
      /\ RejectMembership(q.global, q.session)
      /\ Goes(r, "deciding")

DecideReview(r) ==
  LET q == requests[r]
  IN  /\ q.pc = "deciding"
      /\ SetStatus(q.couple, q.verdict)
      /\ Goes(r, "done")

Serve(r) ==
  \/ Create(r) \/ AskLink(r) \/ CheckRequest(r) \/ StoreRequest(r)
  \/ AskUnlink(r) \/ AskReject(r)
  \/ AskReview(r) \/ ReadReview(r) \/ DropSeed(r) \/ RejectReview(r) \/ DecideReview(r)

-----------------------------------------------------------------------------
(***************************************************************************)
(* Events and faults.                                                      *)
(***************************************************************************)
Ingest ==
  /\ Len(log) < MaxEvents
  /\ \E s \in Sessions : AppendEvent(s)
  /\ UNCHANGED <<reconcilerVars, requests, faults>>

\* A database error in a pass.
PassFails ==
  /\ faults < MaxFaults /\ faults' = faults + 1
  /\ pc # "idle" /\ Abort
  /\ UNCHANGED requests

\* A database error in a request, or its client hangs up and the handler is
\* dropped at an await.
Abandon(r) ==
  /\ faults < MaxFaults /\ faults' = faults + 1
  /\ requests[r].pc \notin {"new", "done"}
  /\ Goes(r, "done")
  /\ UNCHANGED <<tables, reconcilerVars>>

\* The daemon stops, and starts with a default Reconciler.
Restart ==
  /\ faults < MaxFaults /\ faults' = faults + 1
  /\ watermark' = 0 /\ bootstrapped' = FALSE
  /\ summaries' = [s \in Sessions |-> None]
  /\ pc' = "idle" /\ pass' = NoPass
  /\ requests' = [r \in Requests |->
       IF requests[r].pc = "new" THEN requests[r] ELSE [requests[r] EXCEPT !.pc = "done"]]
  /\ UNCHANGED tables

-----------------------------------------------------------------------------
Init ==
  /\ NoTables
  /\ watermark = 0 /\ bootstrapped = FALSE
  /\ summaries = [s \in Sessions |-> None]
  /\ pc = "idle" /\ pass = NoPass
  /\ requests = [r \in Requests |-> NoRequest]
  /\ faults = 0

Next ==
  \/ Ingest
  \/ Reconcile /\ UNCHANGED <<requests, faults>>
  \/ \E r \in Requests : Serve(r) /\ UNCHANGED <<reconcilerVars, faults>>
  \/ PassFails \/ Restart \/ \E r \in Requests : Abandon(r)

\* The reconcile interval ticks for ever and a pass runs to its end.
Spec == Init /\ [][Next]_vars /\ WF_vars(Reconcile /\ UNCHANGED <<requests, faults>>)

-----------------------------------------------------------------------------
(***************************************************************************)
(* Safety.  AuditMatchesMembers, NoRejectedMember and SingleAutomatic of   *)
(* Membership are checked of this specification too.                       *)
(***************************************************************************)
Decided(s) == \E g \in Globals : audit[<<g, s>>] # None

\* The watermark skips nobody: every session with an event at or below it has
\* had a membership decision, although passes fail, sessions gain events while
\* a pass runs, and memberships are copied before they are used (main.rs: "The
\* watermark advances only after the pass succeeds").
WatermarkSound ==
  /\ watermark <= Len(log)
  /\ \A i \in 1 .. watermark : Decided(log[i])

Busy(s) == \E r \in Requests :
  requests[r].session = s /\ requests[r].pc \notin {"new", "done"}

\* Accepting a candidate replaces an isolated seed by another membership: when
\* no request works on a session any more, one whose seed a review dropped is
\* in some global session (repository-correlation.md: "Accepted decisions
\* replace only an isolated automatic seed"), however reviews and links of it
\* interleaved.  A user may have taken it out again, and a review that is cut
\* short leaves it to the next bootstrap.
TakenOut(s) == \E g \in Globals : audit[<<g, s>>] \in {"unlink", "reject"}

ReplacedIsPlaced ==
  faults = 0 =>
    \A s \in Sessions :
      /\ ~ Busy(s) /\ ~ TakenOut(s)
      /\ \E g \in Globals : audit[<<g, s>>] = "replace"
      => GlobalsOf(s) # {}

Rejected(c) == candidates[c] # None /\ candidates[c].status = "rejected"
Accepted(c) == candidates[c] # None /\ candidates[c].status = "accepted"

\* A rejected candidate is reopened by a request or not at all: no pass, however
\* old the copy it works from, undoes it (session-timeline.md: "manually
\* accepted or rejected decisions remain unchanged").
RejectedSurvives ==
  [][\A c \in Couples : Rejected(c) /\ ~ Rejected(c)' => requests' # requests]_vars

\* The same of an accepted candidate.
AcceptedSurvives ==
  [][\A c \in Couples : Accepted(c) /\ ~ Accepted(c)' => requests' # requests]_vars

\* A membership a user decided on ends, or turns automatic, only by an unlink or
\* a reject of that pair (repository-correlation.md: "manual memberships are
\* preserved").
ManualSurvives ==
  [][\A p \in Pairs :
       members[p] \in Manual /\ members'[p] \notin Manual
         => audit'[p] \in {"unlink", "reject"}]_vars

(***************************************************************************)
(* Liveness: every session that has events is eventually placed or decided *)
(* upon ("a failure is retried on the next interval").                     *)
(***************************************************************************)
EventuallyDecided ==
  \A s \in Sessions : (\E i \in DOMAIN log : log[i] = s) ~> Decided(s)
=============================================================================
