------------------------- MODULE CorrelationProofs -------------------------
(***************************************************************************)
(* Proofs about Correlation for any sessions, global sessions, requests    *)
(* and bounds.                                                             *)
(***************************************************************************)
EXTENDS Correlation, TLAPS

\* What the locals of the pass and of the requests refer to is there.
Reviewing(q) == q.pc \in {"reviewing", "dropping", "rejecting", "deciding"}
                  \/ (q.pc \in {"checking", "linking"} /\ q.version = "candidate")

RequestOK(q, table) ==
  /\ q.pc = "new" => q.version = "manual"
  /\ Reviewing(q) => /\ q.couple \in Couples /\ table[q.couple] # None
                     /\ q.session \in Sessions /\ q.right \in Sessions
  /\ q.pc \in {"dropping", "rejecting", "checking", "linking"} =>
       q.global \in Globals /\ q.session \in Sessions

LocalsOK ==
  /\ \A c \in pass.review : candidates[c] # None
  /\ \A r \in Requests : RequestOK(requests[r], candidates)

Typed == TypeOK /\ LocalsOK

-----------------------------------------------------------------------------
(***************************************************************************)
(* The writes of Membership keep the types of its tables, and never remove *)
(* a candidate.                                                            *)
(***************************************************************************)
CandidatesStay == \A c \in Couples : candidates[c] # None => candidates'[c] # None

\* A link, an unlink or a rejection writes a decision and a version.
LEMMA DecisionType ==
  ASSUME TablesOK, NEW g \in Globals, NEW s \in Sessions,
         NEW v \in Version, NEW why \in Decision,
         Link(g, s, v) \/ Unlink(g, s, why) \/ RejectMembership(g, s)
  PROVE  TablesOK' /\ CandidatesStay
  <1>1. <<g, s>> \in Pairs
    BY DEF Pairs
  <1>2. CASE Link(g, s, v)
    BY <1>1, <1>2 DEF TablesOK, Link, Maybe, Decision, CandidatesStay
  <1>3. CASE Unlink(g, s, why)
    BY <1>1, <1>3 DEF TablesOK, Unlink, Maybe, CandidatesStay
  <1>4. CASE RejectMembership(g, s)
    BY <1>1, <1>4 DEF TablesOK, RejectMembership, Maybe, Decision, CandidatesStay
  <1> QED BY <1>2, <1>3, <1>4

\* An upsert leaves a typed candidate at its couple.
LEMMA UpsertType ==
  ASSUME TablesOK, NEW s \in Sessions, NEW t \in Sessions, NEW status \in Status,
         UpsertCandidate(s, t, status)
  PROVE  TablesOK' /\ CandidatesStay
  <1> DEFINE c == {s, t}
             old == candidates[c]
             kept == IF old # None /\ old.status = "rejected" THEN "rejected" ELSE status
             new == IF old = None THEN [left |-> s, right |-> t, status |-> status]
                    ELSE [old EXCEPT !.status = kept]
  <1>1. c \in Couples
    BY DEF Couples
  <1>2. old \in Maybe(Candidate)
    BY <1>1 DEF TablesOK
  <1>3. new \in Candidate
    BY <1>2 DEF Maybe, Candidate, Status
  <1>4. new # None
    BY <1>3, MembershipAssumption
  <1>5. candidates' = [candidates EXCEPT ![c] = new]
    BY DEF UpsertCandidate
  <1>6. candidates \in [Couples -> Maybe(Candidate)]
    BY DEF TablesOK
  <1> HIDE DEF c, old, kept, new
  <1>7. candidates' \in [Couples -> Maybe(Candidate)]
    BY <1>1, <1>3, <1>5, <1>6 DEF Maybe
  <1>8. CandidatesStay
    BY <1>1, <1>4, <1>5, <1>6 DEF CandidatesStay
  <1> QED BY <1>7, <1>8 DEF TablesOK, UpsertCandidate

\* A candidate read from the table has its fields.
LEMMA CandidateAt ==
  ASSUME TablesOK, NEW c \in Couples, candidates[c] # None
  PROVE  /\ candidates[c] \in Candidate
         /\ candidates[c].left \in Sessions /\ candidates[c].right \in Sessions
  BY DEF TablesOK, Maybe, Candidate

\* A review's verdict keeps the candidate.
LEMMA SetStatusType ==
  ASSUME TablesOK, NEW c \in Couples, candidates[c] # None, NEW status \in Status,
         SetStatus(c, status)
  PROVE  TablesOK' /\ CandidatesStay
  <1>1. [candidates[c] EXCEPT !.status = status] \in Candidate
    BY CandidateAt DEF Candidate
  <1>2. candidates' = [candidates EXCEPT ![c] = [candidates[c] EXCEPT !.status = status]]
    BY DEF SetStatus
  <1>3. candidates \in [Couples -> Maybe(Candidate)]
    BY DEF TablesOK
  <1>4. /\ candidates' \in [Couples -> Maybe(Candidate)]
        /\ CandidatesStay
    BY <1>1, <1>2, <1>3, MembershipAssumption DEF Maybe, CandidatesStay
  <1> QED BY <1>4 DEF TablesOK, SetStatus

\* The initial pass and request are typed.
LEMMA NoLocalsType == NoPass \in Pass /\ NoRequest \in Request
  BY DEF NoPass, Pass, NoRequest, Request, Maybe, Automatic, Manual

-----------------------------------------------------------------------------
(***************************************************************************)
(* Types are kept by every step.                                           *)
(***************************************************************************)
\* The types of the reconciler's own state.
ReconcilerOK ==
  /\ watermark \in Nat /\ bootstrapped \in BOOLEAN
  /\ summaries \in [Sessions -> Maybe(Objective)]
  /\ pc \in PcValues /\ pass \in Pass
  /\ pc \in {"creating", "linking", "storing"} => pass.cur # None /\ pass.goal # None

\* A pass that reads or writes no candidate: the requests' couples stay.
LEMMA RequestsKept ==
  ASSUME LocalsOK, CandidatesStay, UNCHANGED requests,
         \A c \in pass'.review : candidates'[c] # None
  PROVE  LocalsOK'
  BY DEF LocalsOK, RequestOK, Reviewing, CandidatesStay

\* Sessions, globals and couples named by the pass exist.
LEMMA PassFields ==
  ASSUME TypeOK
  PROVE  /\ pass.next \in Nat /\ pass.changed \subseteq Sessions
         /\ pass.load \subseteq Sessions /\ pass.todo \subseteq Sessions
         /\ pass.snap \subseteq Pairs /\ pass.review \subseteq Couples
         /\ pass.cur \in Maybe(Sessions) /\ pass.goal \in Maybe(Globals)
         /\ pass.how \in Automatic
  BY DEF TypeOK, Pass

\* A pass reads sessions of the log and couples of the candidates, and writes
\* typed rows.
LEMMA ReconcileType ==
  Typed /\ Reconcile /\ UNCHANGED <<requests, faults>> => Typed'
  <1> SUFFICES ASSUME Typed, Reconcile, UNCHANGED <<requests, faults>> PROVE Typed'
    OBVIOUS
  <1> USE DEF Typed
  <1>1. /\ TablesOK /\ ReconcilerOK /\ TypeOK /\ LocalsOK
        /\ faults' \in Nat /\ requests' \in [Requests -> Request]
    BY DEF TypeOK, ReconcilerOK
  <1>2. SUFFICES /\ TablesOK' /\ ReconcilerOK' /\ CandidatesStay
                 /\ \A c \in pass'.review : candidates'[c] # None
    BY <1>1, RequestsKept DEF TypeOK, ReconcilerOK
  <1>3. /\ pass.next \in Nat /\ pass.changed \subseteq Sessions
        /\ pass.load \subseteq Sessions /\ pass.todo \subseteq Sessions
        /\ pass.snap \subseteq Pairs /\ pass.review \subseteq Couples
        /\ pass.cur \in Maybe(Sessions) /\ pass.goal \in Maybe(Globals)
        /\ pass.how \in Automatic /\ pass \in Pass
    BY <1>1, PassFields DEF ReconcilerOK
  <1>4. \A c \in pass.review : candidates[c] # None
    BY <1>1 DEF LocalsOK
  <1>5. UNCHANGED tables => TablesOK' /\ CandidatesStay /\ UNCHANGED candidates
    BY <1>1 DEF tables, TablesOK, CandidatesStay
  <1>6. CASE Detect
    <2>1. Len(log) \in Nat /\ ChangedSince(watermark) \subseteq Sessions
      BY <1>1 DEF TablesOK, ReconcilerOK, ChangedSince
    <2>2. pass' \in Pass /\ pass'.review = {}
      BY <1>6, <2>1, NoLocalsType DEF Detect, Pass, NoPass
    <2> QED BY <1>1, <1>5, <1>6, <2>2 DEF Detect, ReconcilerOK, PcValues
  <1>7. CASE LoadSummary
    <2>1. \A s \in Sessions : ObjectiveOf(s) \in Objective
      BY DEF ObjectiveOf, Objective
    <2>2. pass' \in Pass /\ pass'.review = pass.review
      BY <1>7, <1>3 DEF LoadSummary, Pass
    <2>3. summaries' \in [Sessions -> Maybe(Objective)]
      BY <1>1, <1>3, <1>7, <2>1 DEF LoadSummary, ReconcilerOK, Maybe
    <2>4. pc = "loading" /\ pc' = pc /\ UNCHANGED <<tables, watermark, bootstrapped>>
      BY <1>7 DEF LoadSummary
    <2> QED BY <1>1, <1>4, <1>5, <2>2, <2>3, <2>4 DEF ReconcilerOK
  <1>8. CASE ListMembers
    <2>1. pass' \in Pass /\ pass'.review = pass.review
      BY <1>8, <1>3 DEF ListMembers, Memberships, Pass
    <2> QED BY <1>1, <1>4, <1>5, <1>8, <2>1 DEF ListMembers, ReconcilerOK, PcValues
  <1>9. CASE ListCandidates
    <2>1. /\ pass' \in Pass
          /\ \A c \in pass'.review : candidates[c] # None
      BY <1>9, <1>3 DEF ListCandidates, Listed, Pass
    <2> QED BY <1>1, <1>5, <1>9, <2>1 DEF ListCandidates, ReconcilerOK, PcValues
  <1>10. CASE RefreshCandidate
    <2>1. PICK c \in pass.review :
            /\ UpsertCandidate(candidates[c].left, candidates[c].right, "pending")
            /\ pass' = [pass EXCEPT !.review = @ \ {c}]
      BY <1>10 DEF RefreshCandidate
    <2>2. TablesOK' /\ CandidatesStay
      BY <1>1, <1>3, <1>4, <2>1, CandidateAt, UpsertType DEF Status
    <2>3. pass' \in Pass /\ pass'.review \subseteq pass.review
      BY <2>1, <1>3 DEF Pass
    <2> QED BY <1>1, <1>3, <1>4, <1>10, <2>2, <2>3
            DEF RefreshCandidate, ReconcilerOK, CandidatesStay
  <1>11. CASE PlaceNext
    <2>1. PICK s \in pass.todo : Skip(s) \/ (~ Placed(s) /\ Choose(s))
      BY <1>11 DEF PlaceNext
    <2>2. pc = "working" /\ UNCHANGED <<watermark, bootstrapped, summaries>>
      BY <1>11 DEF PlaceNext
    <2>3. s \in Sessions /\ Seed[s] \in Globals
      BY <1>3, CorrelationAssumption
    <2>4. CASE Skip(s)
      <3>1. pass' \in Pass /\ pass'.review = pass.review
        BY <2>4, <1>3 DEF Skip, Pass
      <3> QED BY <1>1, <1>4, <1>5, <2>2, <2>4, <3>1 DEF Skip, ReconcilerOK
    <2>5. CASE Choose(s)
      <3>1. CASE Others(s) = {} /\ pc' = "creating" /\ UNCHANGED tables
                 /\ pass' = [pass EXCEPT !.cur = s, !.goal = Seed[s], !.how = "seed"]
        <4>1. /\ pass' \in Pass /\ pass'.review = pass.review
              /\ pass'.cur = s /\ pass'.goal = Seed[s]
          BY <1>3, <2>3, <3>1 DEF Pass, Maybe, Automatic
        <4> QED BY <1>1, <1>4, <1>5, <2>2, <2>3, <3>1, <4>1, MembershipAssumption DEF ReconcilerOK, PcValues
      <3>2. CASE \E m \in Others(s), accepted \in BOOLEAN :
               /\ UpsertCandidate(s, m[2], IF accepted THEN "accepted" ELSE "pending")
               /\ pc' = IF accepted THEN "linking" ELSE "creating"
               /\ pass' = [pass EXCEPT !.cur = s,
                                       !.goal = IF accepted THEN m[1] ELSE Seed[s],
                                       !.how = IF accepted THEN "content" ELSE "seed"]
        <4>1. PICK m \in Others(s), accepted \in BOOLEAN :
               /\ UpsertCandidate(s, m[2], IF accepted THEN "accepted" ELSE "pending")
               /\ pc' = IF accepted THEN "linking" ELSE "creating"
               /\ pass' = [pass EXCEPT !.cur = s,
                                       !.goal = IF accepted THEN m[1] ELSE Seed[s],
                                       !.how = IF accepted THEN "content" ELSE "seed"]
          BY <3>2
        <4>2. m[1] \in Globals /\ m[2] \in Sessions
          BY <1>3 DEF Others, Pairs
        <4>3. TablesOK' /\ CandidatesStay
          BY <1>1, <2>3, <4>1, <4>2, UpsertType DEF Status
        <4>4. /\ pass' \in Pass /\ pass'.review = pass.review
              /\ pass'.cur = s /\ pass'.goal \in Globals
          BY <1>3, <2>3, <4>1, <4>2 DEF Pass, Maybe, Automatic
        <4> QED BY <1>1, <1>3, <1>4, <2>2, <2>3, <4>1, <4>3, <4>4, MembershipAssumption
                DEF ReconcilerOK, PcValues, CandidatesStay
      <3> QED BY <2>5, <3>1, <3>2 DEF Choose
    <2> QED BY <2>1, <2>4, <2>5
  <1>12. CASE CreateSeed
    <2>1. pass.cur \in Sessions /\ pass.goal \in Globals
      BY <1>1, <1>3, <1>12 DEF CreateSeed, ReconcilerOK, Maybe
    <2>2. TablesOK' /\ CandidatesStay /\ UNCHANGED candidates
      BY <1>1, <1>12, <2>1
         DEF CreateSeed, CreateGlobal, TablesOK, ReconcilerOK, CandidatesStay
    <2> QED BY <1>1, <1>4, <1>12, <2>2 DEF CreateSeed, ReconcilerOK, PcValues
  <1>13. CASE CheckRejection
    BY <1>1, <1>4, <1>5, <1>13 DEF CheckRejection, ReconcilerOK, PcValues
  <1>14. CASE StoreLink
    <2>1. pass.cur \in Sessions /\ pass.goal \in Globals
      BY <1>1, <1>3, <1>14 DEF StoreLink, ReconcilerOK, Maybe
    <2>2. TablesOK' /\ CandidatesStay /\ UNCHANGED candidates
      BY <1>1, <1>3, <1>14, <2>1, DecisionType DEF StoreLink, Version, Link, Decision
    <2>3. /\ pass.snap \cup {<<pass.goal, pass.cur>>} \in SUBSET Pairs
          /\ pass.todo \ {pass.cur} \in SUBSET Sessions
      BY <1>3, <2>1 DEF Pairs
    <2>4. pass' = [pass EXCEPT !.snap = pass.snap \cup {<<pass.goal, pass.cur>>},
                               !.todo = pass.todo \ {pass.cur},
                               !.cur = None, !.goal = None]
      BY <1>14 DEF StoreLink
    <2>5. pass' \in Pass /\ pass'.review = pass.review
      BY <1>3, <2>3, <2>4 DEF Pass, Maybe
    <2> QED BY <1>1, <1>4, <1>14, <2>2, <2>5 DEF StoreLink, ReconcilerOK, PcValues
  <1>15. CASE Finish
    BY <1>1, <1>3, <1>5, <1>15, NoLocalsType DEF Finish, ReconcilerOK, PcValues, NoPass
  <1>16. CASE CreateRefused \/ LinkRefused
    BY <1>1, <1>5, <1>16, NoLocalsType
       DEF CreateRefused, LinkRefused, Abort, ReconcilerOK, PcValues, NoPass
  <1> QED BY <1>6, <1>7, <1>8, <1>9, <1>10, <1>11, <1>12, <1>13, <1>14, <1>15, <1>16
          DEF Reconcile

\* A request that goes on with sound locals keeps everything else sound.
LEMMA RequestWritten ==
  ASSUME Typed, TablesOK', CandidatesStay, UNCHANGED <<reconcilerVars, faults>>,
         NEW r \in Requests, NEW q \in Request, RequestOK(q, candidates'),
         requests' = [requests EXCEPT ![r] = q]
  PROVE  Typed'
  <1>1. requests' \in [Requests -> Request]
    BY DEF Typed, TypeOK
  <1>2. \A o \in Requests : o # r => requests'[o] = requests[o]
    BY DEF Typed, TypeOK
  <1>3. requests'[r] = q
    BY DEF Typed, TypeOK
  <1>4. \A o \in Requests : RequestOK(requests[o], candidates')
    BY DEF Typed, LocalsOK, RequestOK, Reviewing, CandidatesStay
  <1>5. \A o \in Requests : RequestOK(requests'[o], candidates')
    BY <1>2, <1>3, <1>4
  <1>6. pass.review \subseteq Couples
    BY PassFields DEF Typed
  <1>7. LocalsOK'
    BY <1>5, <1>6 DEF Typed, LocalsOK, CandidatesStay, reconcilerVars
  <1> QED BY <1>1, <1>7 DEF Typed, TypeOK, reconcilerVars

\* Every step of a request reads typed rows and leaves sound locals.
LEMMA ServeType ==
  ASSUME Typed, NEW r \in Requests, Serve(r), UNCHANGED <<reconcilerVars, faults>>
  PROVE  Typed'
  <1> DEFINE q == requests[r]
             To(where) == [requests[r] EXCEPT !.pc = where]
             Places == {"new", "reviewing", "dropping", "rejecting", "checking",
                        "linking", "deciding", "done"}
  <1>1. /\ TablesOK /\ TypeOK /\ LocalsOK /\ q \in Request
        /\ RequestOK(q, candidates)
    BY DEF Typed, TypeOK, LocalsOK
  <1>2. UNCHANGED tables => TablesOK' /\ CandidatesStay /\ UNCHANGED candidates
    BY <1>1 DEF tables, TablesOK, CandidatesStay
  <1>3. \A where \in Places : To(where) \in Request
    BY <1>1 DEF Request
  <1>4. RequestOK(To("done"), candidates')
    BY <1>1 DEF RequestOK, Reviewing, Request
  <1>5. ASSUME TablesOK', CandidatesStay, Goes(r, "done") PROVE Typed'
    BY <1>3, <1>4, <1>5, RequestWritten DEF Goes
  <1>6. CASE Create(r)
    <2>1. PICK g \in Globals : CreateGlobal(g, "given")
      BY <1>6 DEF Create
    <2>2. TablesOK' /\ CandidatesStay
      BY <1>1, <2>1 DEF CreateGlobal, TablesOK, Maybe, Objective, CandidatesStay
    <2> QED BY <1>5, <1>6, <2>2 DEF Create
  <1>7. CASE AskLink(r)
    <2>1. PICK g \in Globals, s \in Sessions :
            requests' = [requests EXCEPT ![r] =
              [requests[r] EXCEPT !.pc = "checking", !.global = g, !.session = s]]
      BY <1>7 DEF AskLink
    <2>2. q.version = "manual"
      BY <1>1, <1>7 DEF AskLink, RequestOK
    <2>3. LET n == [requests[r] EXCEPT !.pc = "checking", !.global = g, !.session = s]
          IN  n \in Request /\ RequestOK(n, candidates')
      BY <1>1, <2>2 DEF Request, RequestOK, Reviewing, Maybe
    <2> QED BY <1>2, <1>7, <2>1, <2>3, RequestWritten DEF AskLink
  <1>8. CASE CheckRequest(r)
    <2>1. RequestOK(To("linking"), candidates')
      BY <1>1, <1>2, <1>8 DEF CheckRequest, RequestOK, Reviewing, Request
    <2>2. CASE Goes(r, "linking")
      BY <1>2, <1>3, <1>8, <2>1, <2>2, RequestWritten DEF Goes, CheckRequest
    <2> QED BY <1>2, <1>5, <1>8, <2>2 DEF CheckRequest
  <1>9. CASE StoreRequest(r)
    <2>1. q.pc = "linking" /\ q.global \in Globals /\ q.session \in Sessions
          /\ q.version \in Version
      BY <1>1, <1>9 DEF StoreRequest, RequestOK, Request, Version
    <2>2. CASE Link(q.global, q.session, q.version)
      <3>1. TablesOK' /\ CandidatesStay
        BY <1>1, <2>1, <2>2, DecisionType DEF Decision
      <3>2. UNCHANGED candidates
        BY <2>2 DEF Link
      <3>3. q.version = "candidate" => RequestOK(To("deciding"), candidates')
        BY <1>1, <2>1, <3>2 DEF RequestOK, Reviewing, Request
      <3>4. CASE q.version = "candidate" /\ Goes(r, "deciding")
        BY <1>3, <3>1, <3>3, <3>4, RequestWritten DEF Goes
      <3>5. CASE Goes(r, "done")
        BY <1>5, <3>1, <3>5
      <3>6. \/ q.version = "candidate" /\ Goes(r, "deciding")
            \/ Goes(r, "done")
        BY <1>9 DEF StoreRequest
      <3> QED BY <3>4, <3>5, <3>6
    <2>3. CASE Goes(r, "done") /\ UNCHANGED tables
      BY <1>2, <1>5, <2>3
    <2> QED BY <1>9, <2>2, <2>3 DEF StoreRequest
  <1>10. CASE AskUnlink(r)
    <2>1. PICK g \in Globals, s \in Sessions : Unlink(g, s, "unlink")
      BY <1>10 DEF AskUnlink
    <2>2. TablesOK' /\ CandidatesStay
      BY <1>1, <2>1, DecisionType DEF Decision, Version, Manual
    <2> QED BY <1>5, <1>10, <2>2 DEF AskUnlink
  <1>11. CASE AskReject(r)
    <2>1. PICK g \in Globals, s \in Sessions : RejectMembership(g, s)
      BY <1>11 DEF AskReject
    <2>2. TablesOK' /\ CandidatesStay
      BY <1>1, <2>1, DecisionType DEF Decision, Version, Manual
    <2> QED BY <1>5, <1>11, <2>2 DEF AskReject
  <1>12. CASE AskReview(r)
    <2>1. PICK c \in Couples, verdict \in {"accepted", "rejected"} :
            /\ candidates[c] # None
            /\ requests' = [requests EXCEPT ![r] =
                 [requests[r] EXCEPT !.pc = "reviewing", !.couple = c,
                           !.session = candidates[c].left, !.right = candidates[c].right,
                           !.version = "candidate", !.verdict = verdict]]
      BY <1>12 DEF AskReview
    <2> DEFINE n == [requests[r] EXCEPT !.pc = "reviewing", !.couple = c,
                       !.session = candidates[c].left, !.right = candidates[c].right,
                       !.version = "candidate", !.verdict = verdict]
    <2>2. candidates[c].left \in Sessions /\ candidates[c].right \in Sessions
      BY <1>1, <2>1, CandidateAt
    <2>3. n \in Request
      BY <1>1, <2>2 DEF Request, Maybe, Manual
    <2>4. candidates' = candidates
      BY <1>2, <1>12 DEF AskReview
    <2>5. RequestOK(n, candidates')
      BY <1>1, <2>1, <2>2, <2>4 DEF RequestOK, Reviewing, Request
    <2> QED BY <1>2, <1>12, <2>1, <2>3, <2>5, RequestWritten DEF AskReview
  <1>13. CASE ReadReview(r)
    <2>1. /\ q.pc = "reviewing" /\ UNCHANGED tables
          /\ \/ Goes(r, "done")
             \/ \E g \in GlobalsOf(q.right) :
                 requests' = [requests EXCEPT ![r] =
                   [q EXCEPT !.global = g,
                             !.pc = IF q.verdict = "accepted" THEN "dropping" ELSE "rejecting",
                             !.drop = { h \in Globals \ {g} : members[<<h, q.session>>] = "seed" }]]
      BY <1>13 DEF ReadReview
    <2>2. ASSUME NEW g \in Globals, NEW where \in {"dropping", "rejecting"},
                 NEW d \in SUBSET Globals,
                 requests' = [requests EXCEPT ![r] =
                   [q EXCEPT !.global = g, !.pc = where, !.drop = d]]
          PROVE  Typed'
      <3>1. [q EXCEPT !.global = g, !.pc = where, !.drop = d] \in Request
        BY <1>1 DEF Request, Maybe
      <3>2. RequestOK([q EXCEPT !.global = g, !.pc = where, !.drop = d], candidates')
        BY <1>1, <1>2, <2>1 DEF RequestOK, Reviewing, Request
      <3> QED BY <1>2, <2>1, <2>2, <3>1, <3>2, RequestWritten
    <2>3. GlobalsOf(q.right) \subseteq Globals
      BY DEF GlobalsOf
    <2>4. CASE \E g \in GlobalsOf(q.right) :
                 requests' = [requests EXCEPT ![r] =
                   [q EXCEPT !.global = g,
                             !.pc = IF q.verdict = "accepted" THEN "dropping" ELSE "rejecting",
                             !.drop = { h \in Globals \ {g} : members[<<h, q.session>>] = "seed" }]]
      <3>1. PICK g \in Globals :
                 requests' = [requests EXCEPT ![r] =
                   [q EXCEPT !.global = g,
                             !.pc = IF q.verdict = "accepted" THEN "dropping" ELSE "rejecting",
                             !.drop = { h \in Globals \ {g} : members[<<h, q.session>>] = "seed" }]]
        BY <2>3, <2>4
      <3>2. { h \in Globals \ {g} : members[<<h, q.session>>] = "seed" } \in SUBSET Globals
        OBVIOUS
      <3>3. (IF q.verdict = "accepted" THEN "dropping" ELSE "rejecting") \in {"dropping", "rejecting"}
        OBVIOUS
      <3> QED BY <2>2, <3>1, <3>2, <3>3
    <2>5. CASE Goes(r, "done")
      BY <1>2, <1>5, <2>1, <2>5
    <2> QED BY <2>1, <2>4, <2>5
  <1>14. CASE DropSeed(r)
    <2>1. q.pc = "dropping" /\ q.global \in Globals /\ q.session \in Sessions
          /\ q.drop \subseteq Globals
      BY <1>1, <1>14 DEF DropSeed, RequestOK, Request
    <2>2. ASSUME NEW h \in q.drop, Unlink(h, q.session, "replace"),
                 requests' = [requests EXCEPT ![r].drop = @ \ {h}]
          PROVE  Typed'
      <3>1. TablesOK' /\ CandidatesStay
        BY <1>1, <2>1, <2>2, DecisionType DEF Decision, Version, Manual
      <3>2. UNCHANGED candidates
        BY <2>2 DEF Unlink
      <3>3. [requests[r] EXCEPT !.drop = requests[r].drop \ {h}] \in Request
        BY <1>1 DEF Request
      <3>4. RequestOK([requests[r] EXCEPT !.drop = requests[r].drop \ {h}], candidates')
        BY <1>1, <2>1, <3>2 DEF RequestOK, Reviewing, Request
      <3>5. requests' = [requests EXCEPT ![r] =
                           [requests[r] EXCEPT !.drop = requests[r].drop \ {h}]]
        BY <2>2
      <3> QED BY <3>1, <3>3, <3>4, <3>5, RequestWritten
    <2>3. CASE Goes(r, "checking") /\ UNCHANGED tables
      <3>1. RequestOK(To("checking"), candidates')
        BY <1>1, <1>2, <2>1, <2>3 DEF RequestOK, Reviewing, Request
      <3> QED BY <1>2, <1>3, <2>3, <3>1, RequestWritten DEF Goes
    <2> QED BY <1>14, <2>2, <2>3 DEF DropSeed
  <1>15. CASE RejectReview(r)
    <2>1. q.global \in Globals /\ q.session \in Sessions /\ q.pc = "rejecting"
      BY <1>1, <1>15 DEF RejectReview, RequestOK
    <2>2. TablesOK' /\ CandidatesStay /\ UNCHANGED candidates
      BY <1>1, <1>15, <2>1, DecisionType
         DEF RejectReview, Decision, Version, Manual, RejectMembership
    <2>3. RequestOK(To("deciding"), candidates')
      BY <1>1, <2>1, <2>2 DEF RequestOK, Reviewing, Request
    <2> QED BY <1>3, <1>15, <2>2, <2>3, RequestWritten DEF RejectReview, Goes
  <1>16. CASE DecideReview(r)
    <2>1. /\ q.couple \in Couples /\ candidates[q.couple] # None
          /\ q.verdict \in Status
      BY <1>1, <1>16 DEF DecideReview, RequestOK, Reviewing, Request, Status
    <2>2. TablesOK' /\ CandidatesStay
      BY <1>1, <1>16, <2>1, SetStatusType DEF DecideReview
    <2> QED BY <1>5, <1>16, <2>2 DEF DecideReview
  <1> QED BY <1>6, <1>7, <1>8, <1>9, <1>10, <1>11, <1>12, <1>13, <1>14, <1>15, <1>16
          DEF Serve

\* New events, failures and restarts keep the types too.
LEMMA FaultType ==
  ASSUME Typed, Ingest \/ PassFails \/ Restart \/ \E r \in Requests : Abandon(r)
  PROVE  Typed'
  <1>1. TablesOK /\ TypeOK /\ LocalsOK /\ faults \in Nat /\ faults + 1 \in Nat
    BY DEF Typed, TypeOK
  <1>2. CASE Ingest
    <2>1. PICK s \in Sessions : AppendEvent(s)
      BY <1>2 DEF Ingest
    <2>2. TablesOK' /\ UNCHANGED candidates
      BY <1>1, <2>1 DEF AppendEvent, TablesOK
    <2> QED BY <1>1, <1>2, <2>2 DEF Ingest, Typed, TypeOK, LocalsOK, reconcilerVars
  <1>3. CASE PassFails
    <2>1. TablesOK' /\ UNCHANGED <<candidates, requests, watermark, bootstrapped, summaries>>
      BY <1>1, <1>3 DEF PassFails, Abort, tables, TablesOK
    <2>2. pc' = "idle" /\ pass' = NoPass /\ faults' = faults + 1
      BY <1>3 DEF PassFails, Abort
    <2>3. pass'.review = {}
      BY <2>2 DEF NoPass
    <2> QED BY <1>1, <2>1, <2>2, <2>3, NoLocalsType DEF Typed, TypeOK, LocalsOK, PcValues
  <1>4. CASE Restart
    <2>1. TablesOK' /\ UNCHANGED candidates
      BY <1>1, <1>4 DEF Restart, tables, TablesOK
    <2>2. /\ pc' = "idle" /\ pass' = NoPass /\ faults' = faults + 1
          /\ watermark' = 0 /\ bootstrapped' = FALSE
          /\ summaries' \in [Sessions -> Maybe(Objective)]
      BY <1>4 DEF Restart, Maybe
    <2>3. pass'.review = {}
      BY <2>2 DEF NoPass
    <2>4. \A r \in Requests :
            /\ requests'[r] \in Request
            /\ RequestOK(requests'[r], candidates)
      <3> SUFFICES ASSUME NEW r \in Requests
                   PROVE  /\ requests'[r] \in Request
                          /\ RequestOK(requests'[r], candidates)
        OBVIOUS
      <3>1. requests[r] \in Request /\ RequestOK(requests[r], candidates)
        BY <1>1 DEF TypeOK, LocalsOK
      <3>2. \/ requests'[r] = requests[r]
            \/ requests'[r] = [requests[r] EXCEPT !.pc = "done"]
        BY <1>4 DEF Restart
      <3>3. [requests[r] EXCEPT !.pc = "done"] \in Request
        BY <3>1 DEF Request
      <3>4. RequestOK([requests[r] EXCEPT !.pc = "done"], candidates)
        BY <3>1 DEF Request, RequestOK, Reviewing
      <3> QED BY <3>1, <3>2, <3>3, <3>4
    <2>5. requests' \in [Requests -> Request]
      BY <1>4, <2>4 DEF Restart
    <2> QED BY <1>1, <2>1, <2>2, <2>3, <2>4, <2>5, NoLocalsType
            DEF Typed, TypeOK, LocalsOK, PcValues
  <1>5. CASE \E r \in Requests : Abandon(r)
    <2>1. PICK r \in Requests : Abandon(r)
      BY <1>5
    <2>2. TablesOK' /\ UNCHANGED <<candidates, reconcilerVars>> /\ faults' = faults + 1
      BY <1>1, <2>1 DEF Abandon, tables, TablesOK
    <2>3. /\ requests[r] \in Request
          /\ RequestOK(requests[r], candidates)
      BY <1>1 DEF TypeOK, LocalsOK
    <2>4. /\ [requests[r] EXCEPT !.pc = "done"] \in Request
          /\ RequestOK([requests[r] EXCEPT !.pc = "done"], candidates)
      BY <2>3 DEF Request, RequestOK, Reviewing
    <2>5. requests' = [requests EXCEPT ![r] = [requests[r] EXCEPT !.pc = "done"]]
      BY <2>1 DEF Abandon, Goes
    <2>6. requests' \in [Requests -> Request]
      BY <1>1, <2>4, <2>5 DEF TypeOK
    <2>7. \A o \in Requests : RequestOK(requests'[o], candidates)
      BY <1>1, <2>4, <2>5 DEF TypeOK, LocalsOK
    <2> QED BY <1>1, <2>2, <2>6, <2>7 DEF Typed, TypeOK, LocalsOK, reconcilerVars
  <1> QED BY <1>2, <1>3, <1>4, <1>5

\* The tables and locals start typed.
LEMMA InitType == Init => Typed
  <1> SUFFICES ASSUME Init PROVE Typed
    OBVIOUS
  <1>1. TablesOK
    BY DEF Init, NoTables, TablesOK, Maybe
  <1>2. TypeOK
    BY <1>1, NoLocalsType DEF Init, TypeOK, Maybe, PcValues
  <1>3. pass.review = {}
    BY DEF Init, NoPass
  <1>4. \A r \in Requests : RequestOK(requests[r], candidates)
    BY DEF Init, NoRequest, RequestOK, Reviewing
  <1> QED BY <1>2, <1>3, <1>4 DEF Typed, LocalsOK

\* Every step keeps the types, those of the locals included.
LEMMA TypeStep == Typed /\ [Next]_vars => Typed'
  <1> SUFFICES ASSUME Typed, [Next]_vars PROVE Typed'
    OBVIOUS
  <1>1. CASE Next
    BY <1>1, ReconcileType, ServeType, FaultType DEF Next
  <1>2. CASE UNCHANGED vars
    BY <1>2 DEF vars, tables, reconcilerVars, Typed, TypeOK, TablesOK, LocalsOK,
                RequestOK, Reviewing
  <1> QED BY <1>1, <1>2

\* Tables and locals keep their types, whatever runs concurrently.
THEOREM TypeCorrect == Spec => []TypeOK
  <1>1. Spec => []Typed
    BY InitType, TypeStep, PTL DEF Spec
  <1> QED BY <1>1, PTL DEF Typed

-----------------------------------------------------------------------------
(***************************************************************************)
(* Who writes memberships.                                                 *)
(***************************************************************************)
UserWrite(g, s) ==
  \/ \E v \in Manual : Link(g, s, v)
  \/ Unlink(g, s, "unlink") \/ Unlink(g, s, "replace")
  \/ RejectMembership(g, s)

\* A request writes at most one pair, and never an automatic version.
LEMMA ServeWrites ==
  ASSUME Typed, NEW r \in Requests, Serve(r)
  PROVE  \/ UNCHANGED <<members, audit>>
         \/ \E g \in Globals, s \in Sessions : UserWrite(g, s)
  <1> DEFINE q == requests[r]
  <1>1. q \in Request /\ RequestOK(q, candidates)
    BY DEF Typed, TypeOK, LocalsOK
  <1>2. CASE StoreRequest(r)
    <2>1. q.global \in Globals /\ q.session \in Sessions /\ q.version \in Manual
      BY <1>1, <1>2 DEF StoreRequest, RequestOK, Request
    <2> QED BY <1>2, <2>1 DEF StoreRequest, UserWrite, tables
  <1>3. CASE DropSeed(r)
    <2>1. q.session \in Sessions /\ q.drop \subseteq Globals
      BY <1>1, <1>3 DEF DropSeed, RequestOK, Request
    <2> QED BY <1>3, <2>1 DEF DropSeed, UserWrite, tables
  <1>4. CASE RejectReview(r)
    <2>1. q.global \in Globals /\ q.session \in Sessions
      BY <1>1, <1>4 DEF RejectReview, RequestOK
    <2> QED BY <1>4, <2>1 DEF RejectReview, UserWrite
  <1>5. CASE AskUnlink(r) \/ AskReject(r)
    BY <1>5 DEF AskUnlink, AskReject, UserWrite
  <1>6. CASE Create(r) \/ DecideReview(r)
    BY <1>6 DEF Create, CreateGlobal, DecideReview, SetStatus
  <1>7. CASE AskLink(r) \/ CheckRequest(r) \/ AskReview(r) \/ ReadReview(r)
    BY <1>7 DEF AskLink, CheckRequest, AskReview, ReadReview, tables
  <1> QED BY <1>2, <1>3, <1>4, <1>5, <1>6, <1>7 DEF Serve

\* The reconciler writes memberships in one place.
LEMMA ReconcileWrites ==
  ASSUME Typed, Reconcile
  PROVE  \/ UNCHANGED <<members, audit>>
         \/ StoreLink /\ pass.cur \in Sessions /\ pass.goal \in Globals
  <1>1. CASE StoreLink
    BY <1>1, PassFields DEF Typed, TypeOK, StoreLink, Maybe
  <1>2. CASE RefreshCandidate \/ PlaceNext
    BY <1>2 DEF RefreshCandidate, PlaceNext, Skip, Choose, UpsertCandidate, tables
  <1>3. CASE CreateSeed
    BY <1>3 DEF CreateSeed, CreateGlobal
  <1>4. CASE Detect \/ LoadSummary \/ ListMembers \/ ListCandidates
    BY <1>4 DEF Detect, LoadSummary, ListMembers, ListCandidates, tables
  <1>5. CASE CreateRefused \/ CheckRejection \/ LinkRefused \/ Finish
    BY <1>5 DEF CreateRefused, CheckRejection, LinkRefused, Finish, Abort, tables
  <1> QED BY <1>1, <1>2, <1>3, <1>4, <1>5 DEF Reconcile

\* Both together.
LEMMA Writes ==
  ASSUME Typed, [Next]_vars
  PROVE  \/ UNCHANGED <<members, audit>>
         \/ StoreLink /\ pass.cur \in Sessions /\ pass.goal \in Globals
         \/ /\ UNCHANGED reconcilerVars
            /\ \E g \in Globals, s \in Sessions : UserWrite(g, s)
  <1>1. CASE Reconcile /\ UNCHANGED <<requests, faults>>
    BY <1>1, ReconcileWrites
  <1>2. CASE \E r \in Requests : Serve(r) /\ UNCHANGED <<reconcilerVars, faults>>
    BY <1>2, ServeWrites
  <1>3. CASE Ingest
    BY <1>3 DEF Ingest, AppendEvent
  <1>4. CASE PassFails \/ Restart \/ \E r \in Requests : Abandon(r)
    BY <1>4 DEF PassFails, Abort, Restart, Abandon, tables
  <1>5. CASE UNCHANGED vars
    BY <1>5 DEF vars, tables
  <1> QED BY <1>1, <1>2, <1>3, <1>4, <1>5 DEF Next

\* The tables' part of those writes.
LEMMA WrittenPair ==
  ASSUME TablesOK, NEW g \in Globals, NEW s \in Sessions
  PROVE  /\ <<g, s>> \in Pairs
         /\ \A v \in Version : Link(g, s, v) =>
              /\ members' = [members EXCEPT ![<<g, s>>] = v]
              /\ audit' = [audit EXCEPT ![<<g, s>>] = "link"]
              /\ v # None
         /\ UserWrite(g, s) =>
              \/ \E v \in Manual : /\ members' = [members EXCEPT ![<<g, s>>] = v]
                                   /\ audit' = [audit EXCEPT ![<<g, s>>] = "link"]
                                   /\ v # None
              \/ \E why \in Decision \ {"link"} :
                   /\ members' = [members EXCEPT ![<<g, s>>] = None]
                   /\ audit' = [audit EXCEPT ![<<g, s>>] = why]
  <1>1. <<g, s>> \in Pairs
    BY DEF Pairs
  <1>2. \A v \in Version : v # None
    BY MembershipAssumption
  <1>3. \A v \in Version : Link(g, s, v) =>
              /\ members' = [members EXCEPT ![<<g, s>>] = v]
              /\ audit' = [audit EXCEPT ![<<g, s>>] = "link"]
              /\ v # None
    BY <1>2 DEF Link
  <1>4. ASSUME UserWrite(g, s)
        PROVE  \/ \E v \in Manual : /\ members' = [members EXCEPT ![<<g, s>>] = v]
                                     /\ audit' = [audit EXCEPT ![<<g, s>>] = "link"]
                                     /\ v # None
               \/ \E why \in Decision \ {"link"} :
                    /\ members' = [members EXCEPT ![<<g, s>>] = None]
                    /\ audit' = [audit EXCEPT ![<<g, s>>] = why]
    <2>1. CASE \E v \in Manual : Link(g, s, v)
      BY <1>3, <2>1 DEF Version
    <2>2. CASE Unlink(g, s, "unlink") \/ Unlink(g, s, "replace")
      BY <2>2 DEF Unlink, Decision
    <2>3. CASE RejectMembership(g, s)
      BY <2>3 DEF RejectMembership, Decision
    <2> QED BY <1>4, <2>1, <2>2, <2>3 DEF UserWrite
  <1> QED BY <1>1, <1>3, <1>4

-----------------------------------------------------------------------------
(***************************************************************************)
(* The audit log accounts for every membership.                            *)
(***************************************************************************)
\* One written pair keeps the agreement of the two tables.
LEMMA AuditStep ==
  ASSUME Typed, AuditMatchesMembers, [Next]_vars
  PROVE  AuditMatchesMembers'
  <1>1. TablesOK /\ members \in [Pairs -> Maybe(Version)] /\ audit \in [Pairs -> Maybe(Decision)]
    BY DEF Typed, TypeOK, TablesOK
  <1>2. CASE UNCHANGED <<members, audit>>
    BY <1>2 DEF AuditMatchesMembers
  <1>3. ASSUME NEW g \in Globals, NEW s \in Sessions, NEW v \in Version, Link(g, s, v)
        PROVE  AuditMatchesMembers'
    BY <1>1, <1>3, WrittenPair DEF AuditMatchesMembers
  <1>4. CASE StoreLink /\ pass.cur \in Sessions /\ pass.goal \in Globals
    <2>1. pass.how \in Version
      BY PassFields DEF Typed, Version
    <2> QED BY <1>3, <1>4, <2>1 DEF StoreLink
  <1>5. ASSUME NEW g \in Globals, NEW s \in Sessions, UserWrite(g, s)
        PROVE  AuditMatchesMembers'
    <2>1. \A why \in Decision \ {"link"} : why # "link"
      OBVIOUS
    <2> QED BY <1>1, <1>5, <2>1, WrittenPair DEF AuditMatchesMembers
  <1> QED BY <1>2, <1>4, <1>5, Writes

\* A pair is a member exactly when the last audited decision on it is a link:
\* the invariant needs nothing but types, since each transaction writes both.
THEOREM AuditAccounts == Spec => []AuditMatchesMembers
  <1>1. Init => AuditMatchesMembers
    BY MembershipAssumption DEF Init, NoTables, AuditMatchesMembers, Decision
  <1>2. Typed /\ AuditMatchesMembers /\ [Next]_vars => AuditMatchesMembers'
    BY AuditStep
  <1> QED BY <1>1, <1>2, InitType, TypeStep, PTL DEF Spec

-----------------------------------------------------------------------------
(***************************************************************************)
(* The watermark skips no session.                                         *)
(***************************************************************************)
\* Why a pass may advance the watermark: whatever it has taken off its list
\* is decided, and so is every membership it copied.
PassSound ==
  /\ \A p \in pass.snap : audit[p] # None
  /\ pc # "idle" =>
       /\ pass.next <= Len(log)
       /\ pc = "loading" => pass.snap = {}
       /\ \A i \in 1 .. pass.next : log[i] \in pass.todo \/ Decided(log[i])

WInv == WatermarkSound /\ PassSound

\* A decision is never forgotten, and a new event changes no earlier one.
LEMMA DecisionsStay ==
  ASSUME Typed, [Next]_vars
  PROVE  \A p \in Pairs : audit[p] # None => audit'[p] # None
  <1>1. TablesOK /\ audit \in [Pairs -> Maybe(Decision)]
    BY DEF Typed, TypeOK, TablesOK
  <1>2. \A why \in Decision : why # None
    BY MembershipAssumption
  <1>3. "link" \in Decision
    BY DEF Decision
  <1>4. CASE StoreLink /\ pass.cur \in Sessions /\ pass.goal \in Globals
    BY <1>1, <1>2, <1>3, <1>4 DEF StoreLink, Link
  <1>5. ASSUME NEW g \in Globals, NEW s \in Sessions, UserWrite(g, s)
        PROVE  \A p \in Pairs : audit[p] # None => audit'[p] # None
    BY <1>1, <1>2, <1>3, <1>5, WrittenPair
  <1> QED BY <1>4, <1>5, Writes

\* The reconciler adds no event.
LEMMA ReconcileKeepsLog == Reconcile => UNCHANGED log
  BY DEF Reconcile, Detect, LoadSummary, ListMembers, ListCandidates,
         RefreshCandidate, PlaceNext, Skip, Choose, UpsertCandidate, CreateSeed,
         CreateGlobal, CreateRefused, CheckRejection, LinkRefused, StoreLink, Link,
         Finish, Abort, tables

\* The event table is append-only, whoever steps.
LEMMA LogGrows ==
  ASSUME Typed, [Next]_vars
  PROVE  /\ log \in Seq(Sessions) /\ log' \in Seq(Sessions)
         /\ Len(log) \in Nat /\ Len(log') \in Nat /\ Len(log) <= Len(log')
         /\ \A i \in 1 .. Len(log) : log'[i] = log[i]
  <1>1. Typed'
    BY TypeStep
  <1>2. log \in Seq(Sessions) /\ log' \in Seq(Sessions)
    BY <1>1 DEF Typed, TypeOK, TablesOK
  <1>3. CASE Ingest
    BY <1>2, <1>3 DEF Ingest, AppendEvent
  <1>4. ASSUME Reconcile PROVE UNCHANGED log
    BY <1>4, ReconcileKeepsLog
  <1>5. ASSUME NEW r \in Requests, Serve(r) PROVE UNCHANGED log
    BY <1>5 DEF Serve, Create, CreateGlobal, AskLink, CheckRequest, StoreRequest, Link,
         AskUnlink, Unlink, AskReject, RejectMembership, AskReview, ReadReview, DropSeed,
         RejectReview, DecideReview, SetStatus, tables
  <1>6. ASSUME PassFails \/ Restart \/ \E r \in Requests : Abandon(r) PROVE UNCHANGED log
    BY <1>6 DEF PassFails, Abort, Restart, Abandon, tables
  <1>7. ASSUME UNCHANGED vars PROVE UNCHANGED log
    BY <1>7 DEF vars, tables
  <1>8. CASE UNCHANGED log
    BY <1>2, <1>8
  <1> QED BY <1>3, <1>4, <1>5, <1>6, <1>7, <1>8 DEF Next

\* What the reconciler does to its list, its copy and its watermark.
LEMMA PassStep ==
  ASSUME Typed, AuditMatchesMembers, PassSound, Reconcile, UNCHANGED log,
         \A p \in Pairs : audit[p] # None => audit'[p] # None
  PROVE  /\ \A p \in pass'.snap : audit'[p] # None
         /\ watermark' = watermark \/ (pc # "idle" /\ pass.todo = {} /\ watermark' = pass.next)
         /\ pc' # "idle" =>
              /\ pass'.next <= Len(log)
              /\ pc' = "loading" => pass'.snap = {}
              /\ \/ pc = "idle" /\ pass'.next = Len(log) /\ pass'.todo = ChangedSince(watermark)
                 \/ /\ pc # "idle" /\ pass'.next = pass.next
                    /\ \A s \in pass.todo \ pass'.todo : Decided(s)'
  <1>1. /\ pass.next \in Nat /\ pass.todo \subseteq Sessions
        /\ pass.snap \subseteq Pairs /\ pass \in Pass
        /\ Len(log) \in Nat /\ watermark \in Nat
        /\ audit \in [Pairs -> Maybe(Decision)]
    BY PassFields DEF Typed, TypeOK, TablesOK
  <1>2. \A p \in pass.snap : audit'[p] # None
    BY <1>1 DEF PassSound
  <1>3. CASE Detect
    BY <1>1, <1>3 DEF Detect, NoPass
  <1>4. CASE LoadSummary
    <2>1. PICK s \in pass.load : pass' = [pass EXCEPT !.load = @ \ {s}]
      BY <1>4 DEF LoadSummary
    <2>2. pass'.snap = pass.snap /\ pass'.next = pass.next /\ pass'.todo = pass.todo
      BY <1>1, <2>1 DEF Pass
    <2> QED BY <1>2, <1>4, <2>2 DEF LoadSummary, PassSound
  <1>5. CASE ListMembers
    <2>1. /\ pass'.snap = Memberships /\ pass'.next = pass.next /\ pass'.todo = pass.todo
          /\ pc = "loading" /\ pc' = "listing" /\ UNCHANGED <<audit, watermark>>
      BY <1>1, <1>5 DEF ListMembers, Pass, tables
    <2>2. \A p \in Memberships : audit[p] # None
      BY MembershipAssumption DEF Memberships, AuditMatchesMembers, Decision
    <2> QED BY <2>1, <2>2 DEF PassSound
  <1>6. CASE ListCandidates
    <2>1. /\ pass'.snap = pass.snap /\ pass'.next = pass.next /\ pass'.todo = pass.todo
          /\ pc = "listing" /\ pc' = "working" /\ UNCHANGED watermark
      BY <1>1, <1>6 DEF ListCandidates, Pass
    <2> QED BY <1>2, <2>1 DEF PassSound
  <1>7. CASE RefreshCandidate
    <2>1. PICK c \in pass.review : pass' = [pass EXCEPT !.review = @ \ {c}]
      BY <1>7 DEF RefreshCandidate
    <2>2. pass'.snap = pass.snap /\ pass'.next = pass.next /\ pass'.todo = pass.todo
      BY <1>1, <2>1 DEF Pass
    <2> QED BY <1>2, <1>7, <2>2 DEF RefreshCandidate, PassSound
  <1>8. CASE PlaceNext
    <2>1. PICK s \in pass.todo : Skip(s) \/ Choose(s)
      BY <1>8 DEF PlaceNext
    <2>2. pc = "working" /\ UNCHANGED watermark
      BY <1>8 DEF PlaceNext
    <2>3. CASE Skip(s)
      <3>1. pass'.snap = pass.snap /\ pass'.next = pass.next /\ pass'.todo = pass.todo \ {s}
            /\ pc' = pc
        BY <1>1, <2>3 DEF Skip, Pass
      <3>2. Decided(s)'
        BY <1>2, <2>3 DEF Skip, Placed, Decided
      <3> QED BY <1>2, <2>2, <3>1, <3>2 DEF PassSound
    <2>4. CASE Choose(s)
      <3>1. pass'.snap = pass.snap /\ pass'.next = pass.next /\ pass'.todo = pass.todo
        BY <1>1, <2>4 DEF Choose, Pass
      <3>2. pc' \in {"creating", "linking"}
        BY <2>4 DEF Choose
      <3> QED BY <1>2, <2>2, <3>1, <3>2 DEF PassSound
    <2> QED BY <2>1, <2>3, <2>4
  <1>9. CASE CreateSeed \/ CheckRejection
    BY <1>2, <1>9 DEF CreateSeed, CheckRejection, PassSound
  <1>10. CASE StoreLink
    <2>1. pass.cur \in Sessions /\ pass.goal \in Globals
      BY <1>10 DEF StoreLink, Typed, TypeOK, Pass, Maybe
    <2>2. /\ pass'.snap = pass.snap \cup {<<pass.goal, pass.cur>>}
          /\ pass'.next = pass.next /\ pass'.todo = pass.todo \ {pass.cur}
          /\ pc = "storing" /\ pc' = "working" /\ UNCHANGED watermark
      BY <1>1, <1>10 DEF StoreLink, Pass
    <2>3. audit'[<<pass.goal, pass.cur>>] # None
      BY <1>1, <1>10, <2>1, MembershipAssumption DEF StoreLink, Link, Pairs, Decision
    <2>4. \A s \in Sessions : s = pass.cur => Decided(s)'
      BY <2>1, <2>3 DEF Decided
    <2> QED BY <1>1, <1>2, <2>2, <2>3, <2>4 DEF PassSound
  <1>11. CASE Finish
    BY <1>11 DEF Finish, NoPass
  <1>12. CASE CreateRefused \/ LinkRefused
    BY <1>12 DEF CreateRefused, LinkRefused, Abort, NoPass
  <1> QED BY <1>3, <1>4, <1>5, <1>6, <1>7, <1>8, <1>9, <1>10, <1>11, <1>12 DEF Reconcile

\* Every step keeps the watermark sound, with what the pass still owes.
LEMMA WatermarkStep ==
  ASSUME Typed, AuditMatchesMembers, WInv, [Next]_vars
  PROVE  WInv'
  <1>1. /\ log \in Seq(Sessions) /\ log' \in Seq(Sessions)
        /\ Len(log) \in Nat /\ Len(log') \in Nat /\ Len(log) <= Len(log')
        /\ \A i \in 1 .. Len(log) : log'[i] = log[i]
    BY LogGrows
  <1>2. \A p \in Pairs : audit[p] # None => audit'[p] # None
    BY DecisionsStay
  <1>3. \A s \in Sessions : Decided(s) => Decided(s)'
    BY <1>2 DEF Decided, Pairs
  <1>4. /\ watermark \in Nat /\ pass.next \in Nat /\ pass.snap \subseteq Pairs
        /\ watermark <= Len(log)
    BY PassFields DEF Typed, TypeOK, WInv, WatermarkSound
  <1>5. ASSUME NEW i \in 1 .. Len(log), Decided(log[i]) PROVE Decided(log[i])'
    <2>1. log[i] \in Sessions /\ log'[i] = log[i]
      BY <1>1
    <2> QED BY <1>2, <1>5, <2>1 DEF Decided, Pairs
  <1>6. ASSUME UNCHANGED watermark PROVE WatermarkSound'
    <2> SUFFICES ASSUME NEW i \in 1 .. watermark PROVE Decided(log[i])'
      BY <1>1, <1>4, <1>6 DEF WatermarkSound
    <2> QED BY <1>1, <1>4, <1>5 DEF WInv, WatermarkSound
  <1>7. ASSUME UNCHANGED <<pc, pass>> PROVE PassSound'
    <2>1. \A p \in pass'.snap : audit'[p] # None
      BY <1>2, <1>4, <1>7 DEF WInv, PassSound
    <2>2. CASE pc # "idle"
      <3>1. pass.next <= Len(log)
        BY <2>2 DEF WInv, PassSound
      <3>2. \A i \in 1 .. pass'.next : (log[i] \in pass.todo \/ Decided(log[i]))'
        <4> SUFFICES ASSUME NEW i \in 1 .. pass.next
                     PROVE  log'[i] \in pass'.todo \/ Decided(log[i])'
          BY <1>7
        <4>1. i \in 1 .. Len(log) /\ log'[i] = log[i]
          BY <1>1, <1>4, <3>1
        <4>2. log[i] \in pass.todo \/ Decided(log[i])
          BY <2>2 DEF WInv, PassSound
        <4> QED BY <1>5, <1>7, <4>1, <4>2
      <3>3. pass'.next <= Len(log') /\ (pc' = "loading" => pass'.snap = {})
        BY <1>1, <1>4, <1>7, <2>2, <3>1 DEF WInv, PassSound
      <3> QED BY <2>1, <3>2, <3>3 DEF PassSound
    <2> QED BY <1>7, <2>1, <2>2 DEF PassSound
  <1>8. CASE Reconcile
    <2>1. /\ UNCHANGED log
          /\ \A p \in pass'.snap : audit'[p] # None
          /\ watermark' = watermark \/ (pc # "idle" /\ pass.todo = {} /\ watermark' = pass.next)
          /\ pc' # "idle" =>
              /\ pass'.next <= Len(log)
              /\ pc' = "loading" => pass'.snap = {}
              /\ \/ pc = "idle" /\ pass'.next = Len(log) /\ pass'.todo = ChangedSince(watermark)
                 \/ /\ pc # "idle" /\ pass'.next = pass.next
                    /\ \A s \in pass.todo \ pass'.todo : Decided(s)'
      BY <1>2, <1>8, PassStep, ReconcileKeepsLog DEF WInv
    <2>2. WatermarkSound'
      <3>1. CASE pc # "idle" /\ pass.todo = {} /\ watermark' = pass.next
        <4>1. pass.next <= Len(log) /\ \A i \in 1 .. pass.next : Decided(log[i])
          BY <3>1 DEF WInv, PassSound
        <4>2. \A i \in 1 .. pass.next : Decided(log[i])'
          BY <1>1, <1>4, <1>5, <4>1
        <4> QED BY <1>1, <2>1, <3>1, <4>1, <4>2 DEF WatermarkSound
      <3> QED BY <1>6, <2>1, <3>1
    <2>3. ASSUME pc' # "idle", NEW i \in 1 .. pass'.next
          PROVE  log'[i] \in pass'.todo \/ Decided(log[i])'
      <3>1. pass'.next \in Nat /\ pass'.next <= Len(log)
        BY <2>1, <2>3, <1>1, <1>4
      <3>2. i \in 1 .. Len(log) /\ log'[i] = log[i] /\ log[i] \in Sessions
        BY <1>1, <3>1
      <3>3. CASE pc = "idle" /\ pass'.todo = ChangedSince(watermark)
        <4>1. i \in 1 .. watermark \/ i \in watermark + 1 .. Len(log)
          BY <1>1, <1>4, <3>2
        <4>2. i \in 1 .. watermark => Decided(log[i])
          BY DEF WInv, WatermarkSound
        <4>3. i \in watermark + 1 .. Len(log) => log[i] \in pass'.todo
          BY <3>3 DEF ChangedSince
        <4> QED BY <1>5, <3>2, <4>1, <4>2, <4>3
      <3>4. CASE pc # "idle" /\ pass'.next = pass.next
                 /\ \A s \in pass.todo \ pass'.todo : Decided(s)'
        <4>1. log[i] \in pass.todo \/ Decided(log[i])
          BY <2>3, <3>4 DEF WInv, PassSound
        <4>2. ASSUME log[i] \in pass.todo, log[i] \notin pass'.todo
              PROVE  Decided(log[i])'
          BY <3>2, <3>4, <4>2 DEF Decided
        <4> QED BY <1>5, <3>2, <4>1, <4>2
      <3> QED BY <2>1, <2>3, <3>3, <3>4
    <2>4. PassSound'
      BY <1>1, <2>1, <2>3 DEF PassSound
    <2> QED BY <2>2, <2>4 DEF WInv
  <1>9. CASE \E r \in Requests : Serve(r) /\ UNCHANGED <<reconcilerVars, faults>>
    BY <1>6, <1>7, <1>9 DEF WInv, reconcilerVars
  <1>10. CASE Ingest \/ UNCHANGED vars
    BY <1>6, <1>7, <1>10 DEF WInv, Ingest, vars, reconcilerVars
  <1>11. CASE PassFails
    <2>1. watermark' = watermark /\ pc' = "idle" /\ pass'.snap = {}
      BY <1>11 DEF PassFails, Abort, NoPass
    <2> QED BY <1>6, <2>1 DEF WInv, PassSound
  <1>12. CASE Restart
    <2>1. watermark' = 0 /\ pc' = "idle" /\ pass'.snap = {}
      BY <1>12 DEF Restart, NoPass
    <2> QED BY <1>1, <2>1 DEF WInv, WatermarkSound, PassSound
  <1>13. CASE \E r \in Requests : Abandon(r)
    BY <1>6, <1>7, <1>13 DEF WInv, Abandon, reconcilerVars
  <1> QED BY <1>8, <1>9, <1>10, <1>11, <1>12, <1>13 DEF Next

\* The watermark never covers an event of a session that has had no membership
\* decision.  The invariant adds why: a pass in progress still lists every
\* session between the two watermarks that is not decided, and decisions are
\* never forgotten.
THEOREM WatermarkIsSound == Spec => []WatermarkSound
  <1>1. Init => WInv
    BY DEF Init, NoTables, NoPass, WInv, WatermarkSound, PassSound
  <1>2. Init => AuditMatchesMembers
    BY MembershipAssumption DEF Init, NoTables, AuditMatchesMembers, Decision
  <1>3. Typed /\ AuditMatchesMembers /\ WInv /\ [Next]_vars => WInv'
    BY WatermarkStep
  <1>4. Typed /\ AuditMatchesMembers /\ [Next]_vars => AuditMatchesMembers'
    BY AuditStep
  <1>5. Spec => []WInv
    BY <1>1, <1>2, <1>3, <1>4, InitType, TypeStep, PTL DEF Spec
  <1> QED BY <1>5, PTL DEF WInv

-----------------------------------------------------------------------------
(***************************************************************************)
(* A session is placed once.                                               *)
(***************************************************************************)
Using == {"listing", "working", "creating", "linking", "storing"}

\* Why a pass does not place a session a second time: the copy of the table it
\* works from is old, but only the pass itself adds automatic memberships.
SnapCovers ==
  pc \in Using =>
    /\ \A g \in Globals, s \in Sessions : members[<<g, s>>] \in Automatic => Placed(s)
    /\ pc \in {"creating", "linking", "storing"} => ~ Placed(pass.cur)

SInv == SingleAutomatic /\ SnapCovers

\* A user's write makes no membership automatic.
LEMMA UserWriteManual ==
  ASSUME TablesOK, NEW g \in Globals, NEW s \in Sessions, UserWrite(g, s)
  PROVE  \A p \in Pairs : members'[p] \in Automatic => members[p] \in Automatic
  <1>1. members \in [Pairs -> Maybe(Version)]
    BY DEF TablesOK
  <1>2. None \notin Automatic
    BY MembershipAssumption DEF Version
  <1>3. \A v \in Manual : v \notin Automatic
    BY DEF Manual, Automatic
  <1> QED BY <1>1, <1>2, <1>3, WrittenPair

\* Of the other steps of a pass, one copies the table and one picks a session
\* the copy does not mention.
LEMMA SnapStep ==
  ASSUME Typed, SnapCovers, Reconcile, ~ StoreLink
  PROVE  SnapCovers'
  <1>1. /\ pass \in Pass /\ pass.snap \subseteq Pairs
    BY PassFields DEF Typed, TypeOK
  <1>2. CASE Detect \/ LoadSummary \/ CreateRefused \/ LinkRefused \/ Finish
    <2>1. pc' \in {"idle", "loading"}
      BY <1>2 DEF Detect, LoadSummary, CreateRefused, LinkRefused, Abort, Finish
    <2> QED BY <2>1 DEF SnapCovers, Using
  <1>3. CASE ListMembers
    <2>1. pass'.snap = Memberships /\ pc' = "listing" /\ UNCHANGED members
      BY <1>1, <1>3 DEF ListMembers, Pass, tables
    <2>2. \A g \in Globals, s \in Sessions :
            members[<<g, s>>] \in Automatic => <<g, s>> \in Memberships
      BY MembershipAssumption DEF Memberships, Pairs, Version
    <2> QED BY <2>1, <2>2 DEF SnapCovers, Placed
  <1>4. ASSUME UNCHANGED members, pass'.snap = pass.snap, pc \in Using,
               pc' \in {"listing", "working"}
        PROVE  SnapCovers'
    BY <1>4 DEF SnapCovers, Placed
  <1>5. CASE ListCandidates
    <2>1. pass'.snap = pass.snap
      BY <1>1, <1>5 DEF ListCandidates, Pass
    <2> QED BY <1>4, <1>5, <2>1 DEF ListCandidates, Using, tables
  <1>6. CASE RefreshCandidate
    <2>1. pass'.snap = pass.snap /\ UNCHANGED members
      BY <1>1, <1>6 DEF RefreshCandidate, UpsertCandidate, Pass
    <2> QED BY <1>4, <1>6, <2>1 DEF RefreshCandidate, Using
  <1>7. CASE PlaceNext
    <2>1. PICK s \in pass.todo : Skip(s) \/ (~ Placed(s) /\ Choose(s))
      BY <1>7 DEF PlaceNext
    <2>2. pc = "working"
      BY <1>7 DEF PlaceNext
    <2>3. CASE Skip(s)
      <3>1. pass'.snap = pass.snap /\ UNCHANGED <<members, pc>>
        BY <1>1, <2>3 DEF Skip, Pass, tables
      <3> QED BY <1>4, <2>2, <3>1 DEF Using
    <2>4. CASE ~ Placed(s) /\ Choose(s)
      <3>1. pass'.snap = pass.snap /\ pass'.cur = s /\ UNCHANGED members
        BY <1>1, <2>4 DEF Choose, UpsertCandidate, Pass, tables
      <3>2. ~ \E g \in Globals : <<g, pass'.cur>> \in pass'.snap
        BY <2>4, <3>1 DEF Placed
      <3>3. \A g \in Globals, t \in Sessions :
              members[<<g, t>>] \in Automatic => \E h \in Globals : <<h, t>> \in pass.snap
        BY <2>2 DEF SnapCovers, Using, Placed
      <3> QED BY <3>1, <3>2, <3>3 DEF SnapCovers, Placed
    <2> QED BY <2>1, <2>3, <2>4
  <1>8. CASE CreateSeed \/ CheckRejection
    BY <1>8 DEF CreateSeed, CreateGlobal, CheckRejection, SnapCovers, Using, Placed, tables
  <1> QED BY <1>2, <1>3, <1>5, <1>6, <1>7, <1>8 DEF Reconcile

\* The one automatic write adds the first automatic membership of its session.
LEMMA PlaceStep ==
  ASSUME Typed, SInv, StoreLink
  PROVE  SInv'
  <1>1. /\ pass \in Pass /\ pass.snap \subseteq Pairs
        /\ pass.cur \in Sessions /\ pass.goal \in Globals /\ pass.how \in Automatic
        /\ members \in [Pairs -> Maybe(Version)]
    BY PassFields DEF Typed, TypeOK, TablesOK, StoreLink, Maybe
  <1>2. /\ pass'.snap = pass.snap \cup {<<pass.goal, pass.cur>>}
        /\ pc = "storing" /\ pc' = "working"
        /\ members' = [members EXCEPT ![<<pass.goal, pass.cur>>] = pass.how]
        /\ <<pass.goal, pass.cur>> \in Pairs
    BY <1>1 DEF StoreLink, Link, Pass, Pairs
  <1>3. \A g \in Globals : members[<<g, pass.cur>>] \notin Automatic
    BY <1>1, <1>2 DEF SInv, SnapCovers, Using
  <1>4. \A g \in Globals, s \in Sessions :
          members'[<<g, s>>] \in Automatic =>
            \/ g = pass.goal /\ s = pass.cur
            \/ s # pass.cur /\ members[<<g, s>>] \in Automatic
    BY <1>1, <1>2, <1>3 DEF Pairs
  <1>5. SingleAutomatic'
    BY <1>4 DEF SInv, SingleAutomatic
  <1>6. \A g \in Globals, s \in Sessions :
          members'[<<g, s>>] \in Automatic => \E h \in Globals : <<h, s>> \in pass'.snap
    BY <1>1, <1>2, <1>4 DEF SInv, SnapCovers, Using, Placed
  <1>7. SnapCovers'
    BY <1>2, <1>6 DEF SnapCovers, Placed
  <1> QED BY <1>5, <1>7 DEF SInv

\* Every step keeps a session in one automatic membership, whatever the copy a
\* pass works from.
LEMMA SingleStep ==
  ASSUME Typed, SInv, [Next]_vars
  PROVE  SInv'
  <1>1. TablesOK
    BY DEF Typed, TypeOK
  <1>2. CASE StoreLink
    BY <1>2, PlaceStep
  <1>3. ASSUME \A p \in Pairs : members'[p] \in Automatic => members[p] \in Automatic
        PROVE  SingleAutomatic'
    BY <1>3 DEF SInv, SingleAutomatic, Pairs
  <1>4. ASSUME \A p \in Pairs : members'[p] \in Automatic => members[p] \in Automatic,
               UNCHANGED <<pc, pass>>
        PROVE  SnapCovers'
    BY <1>4 DEF SInv, SnapCovers, Placed, Pairs
  <1>5. CASE UNCHANGED reconcilerVars /\ \E g \in Globals, s \in Sessions : UserWrite(g, s)
    BY <1>1, <1>3, <1>4, <1>5, UserWriteManual DEF SInv, reconcilerVars
  <1>6. CASE UNCHANGED <<members, audit>> /\ ~ StoreLink
    <2>1. SingleAutomatic'
      BY <1>3, <1>6
    <2>2. CASE Reconcile
      BY <1>6, <2>1, <2>2, SnapStep DEF SInv
    <2>3. CASE UNCHANGED <<pc, pass>>
      BY <1>4, <1>6, <2>1, <2>3 DEF SInv
    <2>4. CASE pc' = "idle"
      BY <2>1, <2>4 DEF SInv, SnapCovers, Using
    <2>5. Reconcile \/ UNCHANGED <<pc, pass>> \/ pc' = "idle"
      BY DEF Next, vars, reconcilerVars, Ingest, Abandon, PassFails, Abort, Restart
    <2> QED BY <2>2, <2>3, <2>4, <2>5
  <1> QED BY <1>2, <1>5, <1>6, Writes

\* The correlator never gives a session two memberships, for any number of
\* sessions, requests, failures and restarts.
THEOREM PlacedOnce == Spec => []SingleAutomatic
  <1>1. Init => SInv
    BY MembershipAssumption
       DEF Init, NoTables, SInv, SingleAutomatic, SnapCovers, Using, Pairs, Version
  <1>2. Typed /\ SInv /\ [Next]_vars => SInv'
    BY SingleStep
  <1>3. Spec => []SInv
    BY <1>1, <1>2, InitType, TypeStep, PTL DEF Spec
  <1> QED BY <1>3, PTL DEF SInv

-----------------------------------------------------------------------------
(***************************************************************************)
(* A rejected candidate stays rejected unless a request decides again.     *)
(***************************************************************************)
\* An upsert leaves a rejected candidate rejected.
LEMMA UpsertKeepsRejected ==
  ASSUME TablesOK, NEW s \in Sessions, NEW t \in Sessions, NEW status,
         UpsertCandidate(s, t, status), NEW c \in Couples, Rejected(c)
  PROVE  Rejected(c)'
  <1>1. candidates \in [Couples -> Maybe(Candidate)] /\ {s, t} \in Couples
    BY DEF TablesOK, Couples
  <1>2. candidates[c] \in Candidate
    BY <1>1 DEF Rejected, Maybe
  <1>3. CASE c = {s, t}
    <2>1. candidates'[c] = [candidates[c] EXCEPT !.status = "rejected"]
      BY <1>1, <1>3 DEF UpsertCandidate, Rejected
    <2>2. candidates'[c] \in Candidate /\ candidates'[c].status = "rejected"
      BY <1>2, <2>1 DEF Candidate, Status
    <2> QED BY <2>2, MembershipAssumption DEF Rejected
  <1>4. CASE c # {s, t}
    <2>1. candidates'[c] = candidates[c]
      BY <1>1, <1>4 DEF UpsertCandidate
    <2> QED BY <2>1 DEF Rejected
  <1> QED BY <1>3, <1>4

\* No step of the reconciler, nor a fault, reopens a rejected candidate.
LEMMA RejectedStep ==
  ASSUME Typed, [Next]_vars, UNCHANGED requests, NEW c \in Couples, Rejected(c)
  PROVE  Rejected(c)'
  <1>1. /\ TablesOK /\ pass.review \subseteq Couples
        /\ pass.snap \subseteq Pairs /\ pass.todo \subseteq Sessions
        /\ requests \in [Requests -> Request]
    BY PassFields DEF Typed, TypeOK
  <1>2. CASE UNCHANGED candidates
    BY <1>2 DEF Rejected
  <1>3. CASE RefreshCandidate
    <2>1. PICK d \in pass.review :
            UpsertCandidate(candidates[d].left, candidates[d].right, "pending")
      BY <1>3 DEF RefreshCandidate
    <2>2. candidates[d].left \in Sessions /\ candidates[d].right \in Sessions
      BY <1>1, <2>1, CandidateAt DEF Typed, LocalsOK
    <2> QED BY <1>1, <2>1, <2>2, UpsertKeepsRejected
  <1>4. CASE PlaceNext
    <2>1. PICK s \in pass.todo : Skip(s) \/ Choose(s)
      BY <1>4 DEF PlaceNext
    <2>2. CASE UNCHANGED tables
      BY <1>2, <2>2 DEF tables
    <2>3. CASE \E m \in Others(s), status \in Status : UpsertCandidate(s, m[2], status)
      <3>1. PICK m \in Others(s), status \in Status : UpsertCandidate(s, m[2], status)
        BY <2>3
      <3>2. m[2] \in Sessions
        BY <1>1 DEF Others, Pairs
      <3> QED BY <1>1, <2>1, <3>1, <3>2, UpsertKeepsRejected
    <2> QED BY <2>1, <2>2, <2>3 DEF Skip, Choose, Status
  <1>5. ASSUME Reconcile, ~ RefreshCandidate, ~ PlaceNext PROVE UNCHANGED candidates
    BY <1>5 DEF Reconcile, Detect, LoadSummary, ListMembers, ListCandidates, CreateSeed,
         CreateGlobal, CreateRefused, CheckRejection, LinkRefused, StoreLink, Link,
         Finish, Abort, tables
  <1>6. ASSUME NEW r \in Requests, Serve(r) PROVE UNCHANGED candidates
    <2>1. CASE DecideReview(r)
      <3>1. requests' = [requests EXCEPT ![r].pc = "done"] /\ requests[r].pc = "deciding"
        BY <2>1 DEF DecideReview, Goes
      <3>2. requests'[r].pc = "done"
        BY <1>1, <3>1 DEF Request
      <3> QED BY <3>1, <3>2
    <2>2. CASE ~ DecideReview(r)
      BY <1>6, <2>2 DEF Serve, Create, CreateGlobal, AskLink, CheckRequest, StoreRequest,
           Link, AskUnlink, Unlink, AskReject, RejectMembership, AskReview, ReadReview,
           DropSeed, RejectReview, tables
    <2> QED BY <2>1, <2>2
  <1>7. ASSUME Ingest \/ PassFails \/ Restart \/ (\E r \in Requests : Abandon(r))
               \/ UNCHANGED vars
        PROVE  UNCHANGED candidates
    BY <1>7 DEF Ingest, AppendEvent, PassFails, Abort, Restart, Abandon, vars, tables
  <1> QED BY <1>2, <1>3, <1>4, <1>5, <1>6, <1>7 DEF Next

\* No pass reopens a rejected candidate, however old what it read.
THEOREM RejectionsSurvive == Spec => RejectedSurvives
  <1>1. Typed /\ [Next]_vars =>
          [\A c \in Couples : Rejected(c) /\ ~ Rejected(c)' => requests' # requests]_vars
    BY RejectedStep
  <1> QED BY <1>1, InitType, TypeStep, PTL DEF Spec, RejectedSurvives
-----------------------------------------------------------------------------
(***************************************************************************)
(* A session whose seed a review has dropped is placed.                    *)
(***************************************************************************)
\* A review drops the automatic seed of its session, for another global session.
DropsSeeds ==
  \A r \in Requests :
    LET q == requests[r] IN
    q.pc = "dropping" =>
      q.drop \subseteq {Seed[q.session]} \ {q.global} /\ globals[q.global] # None

\* What can be "seed", and therefore what can be replaced.
SeedsOwn ==
  \A g \in Globals, s \in Sessions :
    /\ members[<<g, s>>] = "seed" => g = Seed[s]
    /\ audit[<<g, s>>] = "replace" => g = Seed[s]

PassSeeds ==
  pc \in {"creating", "linking", "storing"} /\ pass.how = "seed" => pass.goal = Seed[pass.cur]

\* A decision needs both its keys, and a rejection is one.
DecisionsHeld ==
  \A g \in Globals, s \in Sessions :
    /\ audit[<<g, s>>] # None => KeysExist(g, s)
    /\ <<g, s>> \in rejected => audit[<<g, s>>] # None

\* A session without its seed, and without any other membership ...
Owed(s) == audit[<<Seed[s], s>>] = "replace" /\ GlobalsOf(s) = {} /\ ~ TakenOut(s)

\* ... is on its way to another global session.
PlacesIn(q, s) ==
  /\ q.session = s /\ q.pc \in {"dropping", "checking", "linking"}
  /\ q.global # Seed[s] /\ globals[q.global] # None

OwedIsPlaced ==
  faults = 0 => \A s \in Sessions : Owed(s) => \E r \in Requests : PlacesIn(requests[r], s)

RInv == DropsSeeds /\ SeedsOwn /\ PassSeeds /\ DecisionsHeld /\ OwedIsPlaced

\* The unlink of a seed by a review in progress.
Drops(r) ==
  \E h \in requests[r].drop :
    /\ requests[r].pc = "dropping"
    /\ Unlink(h, requests[r].session, "replace")
    /\ requests' = [requests EXCEPT ![r].drop = @ \ {h}]

\* The writes of memberships once more, with who makes them.
TakesOut(g, s) == Unlink(g, s, "unlink") \/ RejectMembership(g, s)

LEMMA WritesTold ==
  ASSUME Typed, [Next]_vars
  PROVE  \/ UNCHANGED <<members, audit, rejected>>
         \/ StoreLink /\ pass.cur \in Sessions /\ pass.goal \in Globals
         \/ \E g \in Globals, s \in Sessions, v \in Manual : Link(g, s, v)
         \/ \E g \in Globals, s \in Sessions : TakesOut(g, s)
         \/ \E r \in Requests : Drops(r)
  <1>1. ASSUME NEW r \in Requests, Serve(r)
        PROVE  \/ UNCHANGED <<members, audit, rejected>>
               \/ \E g \in Globals, s \in Sessions, v \in Manual : Link(g, s, v)
               \/ \E g \in Globals, s \in Sessions : TakesOut(g, s)
               \/ Drops(r)
    <2> DEFINE q == requests[r]
    <2>1. q \in Request /\ RequestOK(q, candidates)
      BY DEF Typed, TypeOK, LocalsOK
    <2>2. CASE StoreRequest(r)
      <3>1. q.global \in Globals /\ q.session \in Sessions /\ q.version \in Manual
        BY <2>1, <2>2 DEF StoreRequest, RequestOK, Request
      <3> QED BY <2>2, <3>1 DEF StoreRequest, tables
    <2>3. CASE DropSeed(r)
      BY <2>3 DEF DropSeed, Drops, tables
    <2>4. CASE RejectReview(r)
      <3>1. q.global \in Globals /\ q.session \in Sessions
        BY <2>1, <2>4 DEF RejectReview, RequestOK
      <3> QED BY <2>4, <3>1 DEF RejectReview, TakesOut
    <2>5. CASE AskUnlink(r) \/ AskReject(r)
      BY <2>5 DEF AskUnlink, AskReject, TakesOut
    <2>6. CASE Create(r) \/ DecideReview(r)
      BY <2>6 DEF Create, CreateGlobal, DecideReview, SetStatus
    <2>7. CASE AskLink(r) \/ CheckRequest(r) \/ AskReview(r) \/ ReadReview(r)
      BY <2>7 DEF AskLink, CheckRequest, AskReview, ReadReview, tables
    <2> QED BY <1>1, <2>2, <2>3, <2>4, <2>5, <2>6, <2>7 DEF Serve
  <1>2. ASSUME Reconcile, ~ StoreLink PROVE UNCHANGED <<members, audit, rejected>>
    BY <1>2 DEF Reconcile, RefreshCandidate, PlaceNext, Skip, Choose, UpsertCandidate,
         CreateSeed, CreateGlobal, Detect, LoadSummary, ListMembers, ListCandidates,
         CreateRefused, CheckRejection, LinkRefused, Finish, Abort, tables
  <1>3. ASSUME StoreLink PROVE pass.cur \in Sessions /\ pass.goal \in Globals
    BY <1>3, PassFields DEF Typed, TypeOK, StoreLink, Maybe
  <1>4. CASE Ingest \/ PassFails \/ Restart \/ (\E r \in Requests : Abandon(r))
             \/ UNCHANGED vars
    BY <1>4 DEF Ingest, AppendEvent, PassFails, Abort, Restart, Abandon, vars, tables
  <1> QED BY <1>1, <1>2, <1>3, <1>4 DEF Next

\* Those writes, as the tables see them.
LEMMA WrittenRows ==
  ASSUME TablesOK, NEW g \in Globals, NEW s \in Sessions
  PROVE  /\ \A v \in Version : Link(g, s, v) =>
              /\ KeysExist(g, s) /\ rejected' = rejected
              /\ members' = [members EXCEPT ![<<g, s>>] = v]
              /\ audit' = [audit EXCEPT ![<<g, s>>] = "link"]
         /\ TakesOut(g, s) =>
              /\ KeysExist(g, s)
              /\ members' = [members EXCEPT ![<<g, s>>] = None]
              /\ \E why \in {"unlink", "reject"} :
                   audit' = [audit EXCEPT ![<<g, s>>] = why]
              /\ rejected' \subseteq rejected \cup {<<g, s>>}
         /\ Unlink(g, s, "replace") =>
              /\ KeysExist(g, s) /\ rejected' = rejected
              /\ members' = [members EXCEPT ![<<g, s>>] = None]
              /\ audit' = [audit EXCEPT ![<<g, s>>] = "replace"]
  BY DEF Link, TakesOut, Unlink, RejectMembership

\* Drops of a typed request are of a pair.
LEMMA DroppedPair ==
  ASSUME Typed, DropsSeeds, NEW r \in Requests, Drops(r)
  PROVE  LET s == requests[r].session IN
         /\ requests[r].pc = "dropping" /\ s \in Sessions /\ Seed[s] \in Globals
         /\ requests[r].global # Seed[s] /\ globals[requests[r].global] # None
         /\ Unlink(Seed[s], s, "replace")
         /\ requests' = [requests EXCEPT ![r].drop = @ \ {Seed[s]}]
  <1>1. requests[r].pc = "dropping" /\ requests[r].session \in Sessions
    BY DEF Drops, Typed, LocalsOK, RequestOK
  <1>2. \A h \in requests[r].drop :
          h = Seed[requests[r].session] /\ h # requests[r].global
    BY <1>1 DEF DropsSeeds
  <1>3. globals[requests[r].global] # None
    BY <1>1 DEF DropsSeeds
  <1> QED BY <1>1, <1>2, <1>3, CorrelationAssumption DEF Drops

\* A global session stays, and so do the keys of a decision.
LEMMA GlobalsStay ==
  ASSUME Typed, [Next]_vars
  PROVE  \A g \in Globals : globals[g] # None => globals'[g] # None
  <1>1. globals \in [Globals -> Maybe(Objective)]
    BY DEF Typed, TypeOK, TablesOK
  <1>2. CASE CreateSeed
    <2>1. globals[pass.goal] \in {None, summaries[pass.cur]}
          /\ globals' = [globals EXCEPT ![pass.goal] = summaries[pass.cur]]
      BY <1>2 DEF CreateSeed, Creatable, CreateGlobal
    <2> QED BY <1>1, <2>1
  <1>3. ASSUME Reconcile, ~ CreateSeed PROVE UNCHANGED globals
    BY <1>3 DEF Reconcile, RefreshCandidate, PlaceNext, Skip, Choose, UpsertCandidate,
         StoreLink, Link, Detect, LoadSummary, ListMembers, ListCandidates,
         CreateRefused, CheckRejection, LinkRefused, Finish, Abort, tables
  <1>4. ASSUME NEW r \in Requests, Create(r)
        PROVE  \A g \in Globals : globals[g] # None => globals'[g] # None
    <2>1. PICK g \in Globals : globals[g] = None /\ globals' = [globals EXCEPT ![g] = "given"]
      BY <1>4 DEF Create, CreateGlobal
    <2> QED BY <1>1, <2>1
  <1>5. ASSUME NEW r \in Requests, Serve(r), ~ Create(r) PROVE UNCHANGED globals
    BY <1>5 DEF Serve, AskLink, CheckRequest, StoreRequest, Link, AskUnlink, Unlink,
         AskReject, RejectMembership, AskReview, ReadReview, DropSeed, RejectReview,
         DecideReview, SetStatus, tables
  <1>6. ASSUME Ingest \/ PassFails \/ Restart \/ (\E r \in Requests : Abandon(r))
               \/ UNCHANGED vars
        PROVE  UNCHANGED globals
    BY <1>6 DEF Ingest, AppendEvent, PassFails, Abort, Restart, Abandon, vars, tables
  <1> QED BY <1>2, <1>3, <1>4, <1>5, <1>6 DEF Next

LEMMA KeysStay ==
  ASSUME Typed, [Next]_vars
  PROVE  \A g \in Globals, s \in Sessions : KeysExist(g, s) => KeysExist(g, s)'
  <1>1. /\ log \in Seq(Sessions) /\ log' \in Seq(Sessions)
        /\ Len(log) \in Nat /\ Len(log') \in Nat /\ Len(log) <= Len(log')
        /\ \A i \in 1 .. Len(log) : log'[i] = log[i]
    BY LogGrows
  <1>2. DOMAIN log = 1 .. Len(log) /\ DOMAIN log' = 1 .. Len(log')
    BY <1>1
  <1>3. \A i \in DOMAIN log : i \in DOMAIN log' /\ log'[i] = log[i]
    BY <1>1, <1>2
  <1> QED BY <1>3, GlobalsStay DEF KeysExist

\* Only a pass writes a seed, and only a review replaces one.
LEMMA SeedsStep ==
  ASSUME Typed, RInv, [Next]_vars
  PROVE  SeedsOwn' /\ DecisionsHeld'
  <1>1. /\ TablesOK /\ members \in [Pairs -> Maybe(Version)]
        /\ audit \in [Pairs -> Maybe(Decision)]
        /\ \A g \in Globals, s \in Sessions : <<g, s>> \in Pairs
    BY DEF Typed, TypeOK, TablesOK, Pairs
  <1>2. \A g \in Globals, s \in Sessions : KeysExist(g, s) => KeysExist(g, s)'
    BY KeysStay
  <1>3. /\ None # "seed" /\ None \notin {"link", "unlink", "reject", "replace"}
        /\ \A v \in Manual : v # "seed" /\ v \in Version
    BY MembershipAssumption DEF Version, Automatic, Manual, Decision
  <1>4. CASE UNCHANGED <<members, audit, rejected>>
    <2>1. SeedsOwn'
      BY <1>4 DEF RInv, SeedsOwn
    <2>2. DecisionsHeld'
      BY <1>2, <1>4 DEF RInv, DecisionsHeld
    <2> QED BY <2>1, <2>2
  <1>5. ASSUME NEW g \in Globals, NEW s \in Sessions, NEW v \in Version, Link(g, s, v),
               v = "seed" => g = Seed[s]
        PROVE  SeedsOwn' /\ DecisionsHeld'
    <2>1. /\ KeysExist(g, s) /\ rejected' = rejected
          /\ members' = [members EXCEPT ![<<g, s>>] = v]
          /\ audit' = [audit EXCEPT ![<<g, s>>] = "link"]
      BY <1>1, <1>5, WrittenRows
    <2>2. SeedsOwn'
      BY <1>1, <1>5, <2>1 DEF RInv, SeedsOwn
    <2>3. DecisionsHeld'
      BY <1>1, <1>2, <1>3, <2>1 DEF RInv, DecisionsHeld
    <2> QED BY <2>2, <2>3
  <1>6. CASE StoreLink /\ pass.cur \in Sessions /\ pass.goal \in Globals
    <2>1. pass.how \in Version
      BY PassFields DEF Typed, Version
    <2>2. pass.how = "seed" => pass.goal = Seed[pass.cur]
      BY <1>6 DEF RInv, PassSeeds, StoreLink
    <2> QED BY <1>5, <1>6, <2>1, <2>2 DEF StoreLink
  <1>7. ASSUME NEW g \in Globals, NEW s \in Sessions, TakesOut(g, s)
        PROVE  SeedsOwn' /\ DecisionsHeld'
    <2>1. PICK why \in {"unlink", "reject"} :
            /\ KeysExist(g, s)
            /\ members' = [members EXCEPT ![<<g, s>>] = None]
            /\ audit' = [audit EXCEPT ![<<g, s>>] = why]
            /\ rejected' \subseteq rejected \cup {<<g, s>>}
      BY <1>1, <1>7, WrittenRows
    <2>2. why # None /\ why # "replace"
      BY <1>3
    <2>3. SeedsOwn'
      BY <1>1, <1>3, <2>1, <2>2 DEF RInv, SeedsOwn
    <2>4. DecisionsHeld'
      BY <1>1, <1>2, <2>1, <2>2 DEF RInv, DecisionsHeld
    <2> QED BY <2>3, <2>4
  <1>8. ASSUME NEW r \in Requests, Drops(r)
        PROVE  SeedsOwn' /\ DecisionsHeld'
    <2> DEFINE s == requests[r].session
    <2>1. s \in Sessions /\ Seed[s] \in Globals /\ Unlink(Seed[s], s, "replace")
      BY <1>8, DroppedPair DEF RInv
    <2> HIDE DEF s
    <2>2. /\ KeysExist(Seed[s], s) /\ rejected' = rejected
          /\ members' = [members EXCEPT ![<<Seed[s], s>>] = None]
          /\ audit' = [audit EXCEPT ![<<Seed[s], s>>] = "replace"]
      BY <1>1, <2>1, WrittenRows
    <2>3. SeedsOwn'
      BY <1>1, <1>3, <2>1, <2>2 DEF RInv, SeedsOwn
    <2>4. DecisionsHeld'
      BY <1>1, <1>2, <1>3, <2>1, <2>2 DEF RInv, DecisionsHeld
    <2> QED BY <2>3, <2>4
  <1> QED BY <1>3, <1>4, <1>5, <1>6, <1>7, <1>8, WritesTold

\* A pass that places a session in a seed places it in its own.
LEMMA PassSeedsStep ==
  ASSUME Typed, PassSeeds, [Next]_vars
  PROVE  PassSeeds'
  <1>1. pass \in Pass /\ pass.todo \subseteq Sessions
    BY PassFields DEF Typed, TypeOK
  <1>2. CASE PlaceNext
    <2>1. PICK s \in pass.todo : Skip(s) \/ Choose(s)
      BY <1>2 DEF PlaceNext
    <2>2. CASE Skip(s)
      BY <1>2, <2>2 DEF Skip, PlaceNext, PassSeeds
    <2>3. CASE Choose(s)
      <3>1. \/ pass'.cur = s /\ pass'.goal = Seed[s]
            \/ pass'.how = "content"
        BY <1>1, <2>3 DEF Choose, Pass
      <3> QED BY <3>1 DEF PassSeeds
    <2> QED BY <2>1, <2>2, <2>3
  <1>3. CASE CreateSeed \/ CheckRejection
    BY <1>3 DEF CreateSeed, CheckRejection, PassSeeds
  <1>4. ASSUME Reconcile, ~ PlaceNext, ~ CreateSeed, ~ CheckRejection
        PROVE  pc' \in {"idle", "loading", "listing", "working"}
    BY <1>4 DEF Reconcile, Detect, LoadSummary, ListMembers, ListCandidates,
         RefreshCandidate, CreateRefused, LinkRefused, StoreLink, Finish, Abort
  <1>5. CASE UNCHANGED <<pc, pass>> \/ pc' \in {"idle", "loading", "listing", "working"}
    BY <1>5 DEF PassSeeds
  <1>6. Reconcile \/ UNCHANGED <<pc, pass>> \/ pc' = "idle"
    BY DEF Next, vars, reconcilerVars, Ingest, Abandon, PassFails, Abort, Restart
  <1> QED BY <1>2, <1>3, <1>4, <1>5, <1>6

\* A review reads which seeds to drop, and its target, from the tables.
LEMMA DropsStep ==
  ASSUME Typed, RInv, AuditMatchesMembers, [Next]_vars
  PROVE  DropsSeeds'
  <1>1. /\ requests \in [Requests -> Request]
        /\ \A r \in Requests : requests[r] \in Request /\ RequestOK(requests[r], candidates)
    BY DEF Typed, TypeOK, LocalsOK
  <1>2. \A g \in Globals : globals[g] # None => globals'[g] # None
    BY GlobalsStay
  <1>3. \A r \in Requests : requests[r].pc = "dropping" => requests[r].global \in Globals
    BY <1>1 DEF RequestOK
  <1>4. ASSUME NEW r \in Requests, requests'[r].pc # "dropping" \/ requests'[r] = requests[r]
        PROVE  requests'[r].pc = "dropping" =>
                 /\ requests'[r].drop \subseteq
                      {Seed[requests'[r].session]} \ {requests'[r].global}
                 /\ globals'[requests'[r].global] # None
    BY <1>2, <1>3, <1>4 DEF RInv, DropsSeeds
  <1>5. CASE UNCHANGED requests
    BY <1>4, <1>5 DEF DropsSeeds
  <1>6. CASE Restart
    <2>1. \A r \in Requests : requests'[r].pc # "dropping"
      <3> TAKE r \in Requests
      <3>1. CASE requests[r].pc = "new"
        BY <1>6, <3>1 DEF Restart
      <3>2. CASE requests[r].pc # "new"
        <4>1. requests'[r] = [requests[r] EXCEPT !.pc = "done"]
          BY <1>6, <3>2 DEF Restart
        <4> QED BY <1>1, <4>1 DEF Request
      <3> QED BY <3>1, <3>2
    <2> QED BY <1>4, <2>1 DEF DropsSeeds
  <1>7. ASSUME NEW r \in Requests, NEW q, requests' = [requests EXCEPT ![r] = q],
               q.pc = "dropping" =>
                 /\ q.drop \subseteq {Seed[q.session]} \ {q.global}
                 /\ globals'[q.global] # None
        PROVE  DropsSeeds'
    <2>1. requests'[r] = q /\ \A o \in Requests \ {r} : requests'[o] = requests[o]
      BY <1>1, <1>7
    <2>2. \A o \in Requests \ {r} :
            requests'[o].pc = "dropping" =>
                 /\ requests'[o].drop \subseteq
                      {Seed[requests'[o].session]} \ {requests'[o].global}
                 /\ globals'[requests'[o].global] # None
      BY <1>4, <2>1
    <2> QED BY <1>7, <2>1, <2>2 DEF DropsSeeds
  <1>8. ASSUME NEW r \in Requests, NEW where, Goes(r, where), where # "dropping"
        PROVE  DropsSeeds'
    <2>1. [requests[r] EXCEPT !.pc = where].pc = where
      BY <1>1 DEF Request
    <2> QED BY <1>7, <1>8, <2>1 DEF Goes
  <1>9. ASSUME NEW r \in Requests, Serve(r) PROVE DropsSeeds'
    <2>1. CASE ReadReview(r)
      <3>1. CASE Goes(r, "done")
        BY <1>8, <3>1
      <3>2. ASSUME NEW g \in GlobalsOf(requests[r].right),
                   requests' = [requests EXCEPT ![r] =
                     [requests[r] EXCEPT
                        !.global = g,
                        !.pc = IF requests[r].verdict = "accepted" THEN "dropping" ELSE "rejecting",
                        !.drop = { h \in Globals \ {g} :
                                     members[<<h, requests[r].session>>] = "seed" }]]
            PROVE  DropsSeeds'
        <4> DEFINE d == { h \in Globals \ {g} : members[<<h, requests[r].session>>] = "seed" }
                   w == IF requests[r].verdict = "accepted" THEN "dropping" ELSE "rejecting"
                   q == [requests[r] EXCEPT !.global = g, !.pc = w, !.drop = d]
        <4>1. /\ requests[r].session \in Sessions /\ requests[r].right \in Sessions
              /\ g \in Globals /\ members[<<g, requests[r].right>>] # None
          BY <1>1, <2>1, <3>2 DEF ReadReview, RequestOK, Reviewing, GlobalsOf
        <4>2. audit[<<g, requests[r].right>>] # None
          BY <4>1, MembershipAssumption DEF AuditMatchesMembers, Pairs, Decision
        <4>3. globals[g] # None
          BY <4>1, <4>2 DEF RInv, DecisionsHeld, KeysExist
        <4>4. d \subseteq {Seed[requests[r].session]} \ {g}
          BY <4>1 DEF RInv, SeedsOwn
        <4>5. q.drop = d /\ q.session = requests[r].session /\ q.global = g
          BY <1>1 DEF Request
        <4> HIDE DEF d, w
        <4>6. requests' = [requests EXCEPT ![r] = q]
          BY <3>2 DEF d, w
        <4> HIDE DEF q
        <4> QED BY <1>2, <1>7, <4>1, <4>3, <4>4, <4>5, <4>6
      <3> QED BY <2>1, <3>1, <3>2 DEF ReadReview
    <2>2. CASE DropSeed(r)
      <3>1. CASE Goes(r, "checking")
        BY <1>8, <3>1
      <3>2. ASSUME NEW h, requests[r].pc = "dropping",
                   requests' = [requests EXCEPT ![r].drop = @ \ {h}]
            PROVE  DropsSeeds'
        <4> DEFINE q == [requests[r] EXCEPT !.drop = requests[r].drop \ {h}]
        <4>1. /\ q.drop = requests[r].drop \ {h} /\ q.session = requests[r].session
              /\ q.global = requests[r].global
          BY <1>1 DEF Request
        <4>2. requests' = [requests EXCEPT ![r] = q]
          BY <3>2
        <4> HIDE DEF q
        <4>3. /\ requests[r].drop \subseteq {Seed[requests[r].session]} \ {requests[r].global}
              /\ globals'[requests[r].global] # None
          BY <1>2, <1>3, <3>2 DEF RInv, DropsSeeds
        <4> QED BY <1>7, <4>1, <4>2, <4>3
      <3> QED BY <2>2, <3>1, <3>2 DEF DropSeed
    <2>3. CASE AskLink(r)
      <3>1. PICK g \in Globals, s \in Sessions :
              requests' = [requests EXCEPT ![r] =
                [requests[r] EXCEPT !.pc = "checking", !.global = g, !.session = s]]
        BY <2>3 DEF AskLink
      <3>2. [requests[r] EXCEPT !.pc = "checking", !.global = g, !.session = s].pc = "checking"
        BY <1>1 DEF Request
      <3> QED BY <1>7, <3>1, <3>2
    <2>4. CASE AskReview(r)
      <3>1. PICK c \in Couples, verdict \in {"accepted", "rejected"} :
              requests' = [requests EXCEPT ![r] =
                [requests[r] EXCEPT !.pc = "reviewing", !.couple = c,
                      !.session = candidates[c].left, !.right = candidates[c].right,
                      !.version = "candidate", !.verdict = verdict]]
        BY <2>4 DEF AskReview
      <3> DEFINE q == [requests[r] EXCEPT !.pc = "reviewing", !.couple = c,
                      !.session = candidates[c].left, !.right = candidates[c].right,
                      !.version = "candidate", !.verdict = verdict]
      <3>2. q.pc = "reviewing"
        BY <1>1 DEF Request
      <3> HIDE DEF q
      <3>3. requests' = [requests EXCEPT ![r] = q]
        BY <3>1 DEF q
      <3> QED BY <1>7, <3>2, <3>3
    <2>5. ASSUME ~ ReadReview(r), ~ DropSeed(r), ~ AskLink(r), ~ AskReview(r)
          PROVE  \E where \in {"linking", "done", "deciding"} : Goes(r, where)
      BY <1>9, <2>5 DEF Serve, Create, CheckRequest, StoreRequest, AskUnlink, AskReject,
           RejectReview, DecideReview
    <2>6. \A where \in {"linking", "done", "deciding"} : where # "dropping"
      OBVIOUS
    <2> QED BY <1>8, <2>1, <2>2, <2>3, <2>4, <2>5, <2>6
  <1>10. ASSUME NEW r \in Requests, Abandon(r) PROVE DropsSeeds'
    BY <1>8, <1>10 DEF Abandon
  <1> QED BY <1>5, <1>6, <1>9, <1>10 DEF Next, Ingest, PassFails, vars

\* A session comes to be owed a place by the review that drops its seed.
LEMMA OwedSince ==
  ASSUME Typed, RInv, [Next]_vars, NEW s \in Sessions, Owed(s)'
  PROVE  Owed(s) \/ \E r \in Requests : requests[r].session = s /\ Drops(r)
  <1>1. /\ TablesOK /\ members \in [Pairs -> Maybe(Version)]
        /\ audit \in [Pairs -> Maybe(Decision)] /\ Seed[s] \in Globals
        /\ \A g \in Globals, t \in Sessions : <<g, t>> \in Pairs
    BY CorrelationAssumption DEF Typed, TypeOK, TablesOK, Pairs
  <1>2. ASSUME \A g \in Globals : /\ members'[<<g, s>>] = members[<<g, s>>]
                                  /\ audit'[<<g, s>>] = audit[<<g, s>>]
        PROVE  Owed(s)
    BY <1>1, <1>2 DEF Owed, GlobalsOf, TakenOut
  <1>3. ASSUME NEW g \in Globals, NEW t \in Sessions, t # s,
               NEW v, members' = [members EXCEPT ![<<g, t>>] = v],
               NEW why, audit' = [audit EXCEPT ![<<g, t>>] = why]
        PROVE  Owed(s)
    <2>1. \A h \in Globals : <<h, s>> # <<g, t>>
      BY <1>3
    <2> QED BY <1>1, <1>2, <1>3, <2>1
  <1>4. ASSUME NEW g \in Globals, NEW t \in Sessions, NEW v \in Version, Link(g, t, v)
        PROVE  Owed(s)
    <2>1. /\ members' = [members EXCEPT ![<<g, t>>] = v]
          /\ audit' = [audit EXCEPT ![<<g, t>>] = "link"] /\ v # None
      BY <1>1, <1>4, WrittenPair
    <2>2. t # s
      <3> SUFFICES ASSUME t = s PROVE FALSE
        OBVIOUS
      <3>1. members'[<<g, s>>] # None
        BY <1>1, <2>1
      <3> QED BY <3>1 DEF Owed, GlobalsOf
    <2> QED BY <1>3, <2>1, <2>2
  <1>5. CASE StoreLink /\ pass.cur \in Sessions /\ pass.goal \in Globals
    <2>1. pass.how \in Version
      BY PassFields DEF Typed, Version
    <2> QED BY <1>4, <1>5, <2>1 DEF StoreLink
  <1>6. ASSUME NEW g \in Globals, NEW t \in Sessions, TakesOut(g, t)
        PROVE  Owed(s)
    <2>1. PICK why \in {"unlink", "reject"} :
            /\ members' = [members EXCEPT ![<<g, t>>] = None]
            /\ audit' = [audit EXCEPT ![<<g, t>>] = why]
      BY <1>1, <1>6, WrittenRows
    <2>2. t # s
      <3> SUFFICES ASSUME t = s PROVE FALSE
        OBVIOUS
      <3>1. audit'[<<g, s>>] \in {"unlink", "reject"}
        BY <1>1, <2>1
      <3> QED BY <3>1 DEF Owed, TakenOut
    <2> QED BY <1>3, <2>1, <2>2
  <1>7. ASSUME NEW r \in Requests, Drops(r), requests[r].session # s
        PROVE  Owed(s)
    <2> DEFINE t == requests[r].session
    <2>1. t \in Sessions /\ t # s /\ Seed[t] \in Globals /\ Unlink(Seed[t], t, "replace")
      BY <1>7, DroppedPair DEF RInv
    <2> HIDE DEF t
    <2>2. /\ members' = [members EXCEPT ![<<Seed[t], t>>] = None]
          /\ audit' = [audit EXCEPT ![<<Seed[t], t>>] = "replace"]
      BY <1>1, <2>1, WrittenRows
    <2> QED BY <1>3, <2>1, <2>2
  <1>8. \A v \in Manual : v \in Version
    BY DEF Version
  <1> QED BY <1>2, <1>4, <1>5, <1>6, <1>7, <1>8, WritesTold

\* A request that is to place a session goes on until it has: neither its check
\* nor its transaction can fail on a session that is still owed a place.
LEMMA PlacingGoesOn ==
  ASSUME Typed, RInv, AuditMatchesMembers, [Next]_vars, faults' = 0, faults = 0,
         NEW s \in Sessions, Owed(s), Owed(s)',
         NEW r \in Requests, PlacesIn(requests[r], s)
  PROVE  PlacesIn(requests[r], s)'
  <1> DEFINE q == requests[r]
  <1>1. /\ requests \in [Requests -> Request] /\ q \in Request /\ RequestOK(q, candidates)
        /\ TablesOK
    BY DEF Typed, TypeOK, LocalsOK
  <1>2. q.global \in Globals /\ q.session = s
    BY <1>1 DEF PlacesIn, RequestOK
  <1>3. globals'[q.global] # None
    BY <1>2, GlobalsStay DEF PlacesIn
  <1>4. ASSUME requests'[r].session = q.session, requests'[r].global = q.global,
               requests'[r].pc \in {"dropping", "checking", "linking"}
        PROVE  PlacesIn(requests[r], s)'
    BY <1>3, <1>4 DEF PlacesIn
  <1>5. CASE requests'[r] = q
    BY <1>4, <1>5 DEF PlacesIn
  <1>6. ASSUME NEW where \in {"dropping", "checking", "linking"}, Goes(r, where)
        PROVE  PlacesIn(requests[r], s)'
    <2>1. requests'[r] = [q EXCEPT !.pc = where]
      BY <1>1, <1>6 DEF Goes
    <2>2. /\ requests'[r].session = q.session /\ requests'[r].global = q.global
          /\ requests'[r].pc = where
      BY <1>1, <2>1 DEF Request
    <2> QED BY <1>4, <2>2
  <1>7. CASE CheckRequest(r)
    <2>1. Linkable(q.global, s)
      <3> SUFFICES ASSUME <<q.global, s>> \in rejected PROVE FALSE
        BY DEF Linkable
      <3>1. audit[<<q.global, s>>] # None
        BY <1>2 DEF RInv, DecisionsHeld
      <3>2. audit[<<q.global, s>>] # "replace"
        BY <1>2 DEF RInv, SeedsOwn, PlacesIn
      <3>3. audit[<<q.global, s>>] \notin {"unlink", "reject"}
        BY <1>2 DEF Owed, TakenOut
      <3>4. <<q.global, s>> \in Pairs /\ audit[<<q.global, s>>] \in Maybe(Decision)
        BY <1>1, <1>2 DEF TablesOK, Pairs
      <3>5. audit[<<q.global, s>>] = "link"
        BY <3>1, <3>2, <3>3, <3>4 DEF Maybe, Decision
      <3>6. members[<<q.global, s>>] # None
        BY <3>4, <3>5 DEF AuditMatchesMembers
      <3> QED BY <1>2, <3>6 DEF Owed, GlobalsOf
    <2>2. Goes(r, "linking")
      BY <1>2, <1>7, <2>1 DEF CheckRequest
    <2> QED BY <1>6, <2>2
  <1>8. CASE StoreRequest(r)
    <2>1. audit[<<Seed[s], s>>] # None /\ Seed[s] \in Globals
      BY MembershipAssumption, CorrelationAssumption DEF Owed, Decision
    <2>2. \E i \in DOMAIN log : log[i] = s
      BY <2>1 DEF RInv, DecisionsHeld, KeysExist
    <2>3. KeysExist(q.global, s)
      BY <2>2 DEF KeysExist, PlacesIn
    <2>4. Link(q.global, s, q.version) /\ q.version \in Version
      BY <1>1, <1>2, <1>8, <2>3 DEF StoreRequest, Request, Version
    <2>5. members' = [members EXCEPT ![<<q.global, s>>] = q.version] /\ q.version # None
      BY <1>1, <1>2, <2>4, WrittenPair
    <2>6. members'[<<q.global, s>>] # None
      BY <1>1, <1>2, <2>5 DEF TablesOK, Pairs
    <2> QED BY <1>2, <2>6 DEF Owed, GlobalsOf
  <1>9. CASE DropSeed(r)
    <2>1. CASE Goes(r, "checking")
      BY <1>6, <2>1
    <2>2. ASSUME NEW h, requests' = [requests EXCEPT ![r].drop = @ \ {h}]
          PROVE  PlacesIn(requests[r], s)'
      <3>1. requests'[r] = [q EXCEPT !.drop = q.drop \ {h}]
        BY <1>1, <2>2
      <3>2. /\ requests'[r].session = q.session /\ requests'[r].global = q.global
            /\ requests'[r].pc = q.pc
        BY <1>1, <3>1 DEF Request
      <3> QED BY <1>4, <3>2 DEF PlacesIn
    <2> QED BY <1>9, <2>1, <2>2 DEF DropSeed
  <1>10. ASSUME Serve(r), ~ CheckRequest(r), ~ StoreRequest(r), ~ DropSeed(r)
         PROVE  FALSE
    <2>1. q.pc \in {"new", "reviewing", "rejecting", "deciding"}
      BY <1>10 DEF Serve, Create, AskLink, AskUnlink, AskReject, AskReview, ReadReview,
           RejectReview, DecideReview
    <2> QED BY <2>1 DEF PlacesIn
  <1>11. ASSUME NEW o \in Requests, Serve(o), o # r PROVE requests'[r] = q
    BY <1>1, <1>11 DEF Serve, Create, AskLink, CheckRequest, StoreRequest, AskUnlink,
         AskReject, AskReview, ReadReview, DropSeed, RejectReview, DecideReview, Goes
  <1>12. ASSUME PassFails \/ Restart \/ \E o \in Requests : Abandon(o) PROVE FALSE
    <2>1. faults' = faults + 1
      BY <1>12 DEF PassFails, Restart, Abandon
    <2> QED BY <2>1
  <1>13. ASSUME UNCHANGED requests PROVE requests'[r] = q
    BY <1>13
  <1> QED BY <1>5, <1>7, <1>8, <1>9, <1>10, <1>11, <1>12, <1>13 DEF Next, Ingest, vars

\* Without faults, whoever is owed a place has a request that sees to it.
LEMMA OwedStep ==
  ASSUME Typed, RInv, AuditMatchesMembers, [Next]_vars
  PROVE  OwedIsPlaced'
  <1> SUFFICES ASSUME faults' = 0, NEW s \in Sessions, Owed(s)'
               PROVE  \E r \in Requests : PlacesIn(requests[r], s)'
    BY DEF OwedIsPlaced
  <1>1. faults \in Nat /\ requests \in [Requests -> Request]
    BY DEF Typed, TypeOK
  <1>2. faults = 0
    <2>1. UNCHANGED faults \/ faults' = faults + 1
      BY DEF Next, Ingest, PassFails, Restart, Abandon, vars
    <2> QED BY <1>1, <2>1
  <1>3. CASE Owed(s)
    <2>1. PICK r \in Requests : PlacesIn(requests[r], s)
      BY <1>2, <1>3 DEF RInv, OwedIsPlaced
    <2> QED BY <1>2, <1>3, <2>1, PlacingGoesOn
  <1>4. CASE \E r \in Requests : requests[r].session = s /\ Drops(r)
    <2>1. PICK r \in Requests : requests[r].session = s /\ Drops(r)
      BY <1>4
    <2>2. /\ requests[r].pc = "dropping" /\ requests[r].global # Seed[s]
          /\ globals[requests[r].global] # None
          /\ requests' = [requests EXCEPT ![r].drop = @ \ {Seed[s]}]
      BY <2>1, DroppedPair DEF RInv
    <2>3. requests[r].global \in Globals
      BY <2>2 DEF Typed, LocalsOK, RequestOK
    <2>4. requests'[r] = [requests[r] EXCEPT !.drop = requests[r].drop \ {Seed[s]}]
      BY <1>1, <2>2
    <2>5. /\ requests'[r].session = s /\ requests'[r].pc = "dropping"
          /\ requests'[r].global = requests[r].global
      BY <1>1, <2>1, <2>2, <2>4 DEF Request
    <2> QED BY <2>2, <2>3, <2>5, GlobalsStay DEF PlacesIn
  <1> QED BY <1>3, <1>4, OwedSince

\* A review never leaves a session nowhere: as long as nothing fails, one whose
\* automatic seed it dropped ends in some global session, unless a user takes
\* it out, whatever reviews, links and passes do at the same time
\* (review_correlation_candidate).
THEOREM ReplacedArePlaced == Spec => []ReplacedIsPlaced
  <1>1. Init => RInv
    <2> SUFFICES ASSUME Init PROVE RInv
      OBVIOUS
    <2>1. DropsSeeds /\ PassSeeds
      BY DEF Init, NoRequest, DropsSeeds, PassSeeds
    <2>2. \A g \in Globals, s \in Sessions :
            members[<<g, s>>] = None /\ audit[<<g, s>>] = None /\ rejected = {}
      BY DEF Init, NoTables, Pairs
    <2>3. None # "seed" /\ None # "replace"
      BY MembershipAssumption DEF Version, Automatic, Decision
    <2>4. SeedsOwn /\ DecisionsHeld
      BY <2>2, <2>3 DEF SeedsOwn, DecisionsHeld
    <2>5. OwedIsPlaced
      BY <2>2, <2>3, CorrelationAssumption DEF OwedIsPlaced, Owed
    <2> QED BY <2>1, <2>4, <2>5 DEF RInv
  <1>2. Init => AuditMatchesMembers
    BY MembershipAssumption DEF Init, NoTables, AuditMatchesMembers, Decision
  <1>3. Typed /\ AuditMatchesMembers /\ [Next]_vars => AuditMatchesMembers'
    BY AuditStep
  <1>4. Typed /\ RInv /\ AuditMatchesMembers /\ [Next]_vars => RInv'
    <2> SUFFICES ASSUME Typed, RInv, AuditMatchesMembers, [Next]_vars PROVE RInv'
      OBVIOUS
    <2>1. SeedsOwn' /\ DecisionsHeld'
      BY SeedsStep
    <2>2. PassSeeds'
      BY PassSeedsStep DEF RInv
    <2>3. DropsSeeds' /\ OwedIsPlaced'
      BY DropsStep, OwedStep
    <2> QED BY <2>1, <2>2, <2>3 DEF RInv
  <1>5. RInv => ReplacedIsPlaced
    <2> SUFFICES ASSUME RInv, faults = 0, NEW s \in Sessions, ~ Busy(s), ~ TakenOut(s),
                        NEW g \in Globals, audit[<<g, s>>] = "replace"
                 PROVE  GlobalsOf(s) # {}
      BY DEF ReplacedIsPlaced
    <2>1. audit[<<Seed[s], s>>] = "replace"
      BY DEF RInv, SeedsOwn
    <2>2. ~ \E r \in Requests : PlacesIn(requests[r], s)
      BY DEF Busy, PlacesIn
    <2> QED BY <2>1, <2>2 DEF RInv, OwedIsPlaced, Owed
  <1>6. Spec => []RInv
    BY <1>1, <1>2, <1>3, <1>4, InitType, TypeStep, PTL DEF Spec
  <1> QED BY <1>5, <1>6, PTL
=============================================================================
