----------------------------- MODULE Membership -----------------------------
(***************************************************************************)
(* The tables of sessionmesh-storage that say which native session belongs *)
(* to which global session.  Every operator below is one transaction, or   *)
(* one SQL statement, of Storage; the modules that EXTEND this one say who *)
(* calls them and in which order.                                          *)
(***************************************************************************)
EXTENDS Naturals, Sequences, FiniteSets

CONSTANTS
  Sessions,     \* native sessions
  Globals,      \* identities a global session may have
  None          \* an absent row

VARIABLES
  log,          \* table native_events in rowid order: the session of each event
  globals,      \* table global_sessions: the objective of each, or None
  members,      \* table global_session_members: the correlation_version, or None
  rejected,     \* table user_overrides, type membership_rejection
  audit,        \* table membership_audit_log: the last action on each pair
  candidates    \* table correlation_candidates, by the couple they relate

tables == <<log, globals, members, rejected, audit, candidates>>

Maybe(S)  == S \cup {None}
Pairs     == Globals \X Sessions
Couples   == { {s, t} : s \in Sessions, t \in Sessions }   \* candidate_id is symmetric

\* The objective of a session before and after its first user message, and
\* that of a global session made by hand.
Objective == {"fallback", "asked", "given"}

\* Who decided a membership: the seed of an isolated session or a content
\* match (both automatic), the link endpoint, or an accepted candidate.
Automatic == {"seed", "content"}
Manual    == {"manual", "candidate"}
Version   == Automatic \cup Manual
Decision  == {"link", "unlink", "replace", "reject"}   \* replace: unlink by a review
Status    == {"pending", "accepted", "rejected"}
Candidate == [left : Sessions, right : Sessions, status : Status]

ASSUME MembershipAssumption ==
  /\ None \notin Objective \cup Version \cup Decision
  /\ None \notin Candidate /\ None \notin Couples
  /\ None \notin Sessions /\ None \notin Globals

TablesOK ==
  /\ log \in Seq(Sessions)
  /\ globals \in [Globals -> Maybe(Objective)]
  /\ members \in [Pairs -> Maybe(Version)]
  /\ rejected \subseteq Pairs
  /\ audit \in [Pairs -> Maybe(Decision)]
  /\ candidates \in [Couples -> Maybe(Candidate)]

NoTables ==
  /\ log = << >>
  /\ globals = [g \in Globals |-> None]
  /\ members = [p \in Pairs |-> None]
  /\ rejected = {}
  /\ audit = [p \in Pairs |-> None]
  /\ candidates = [c \in Couples |-> None]

-----------------------------------------------------------------------------
(***************************************************************************)
(* Reads.                                                                  *)
(***************************************************************************)
ChangedSince(mark)   == { log[i] : i \in mark + 1 .. Len(log) }
Memberships          == { p \in Pairs : members[p] # None }
GlobalsOf(s)         == { g \in Globals : members[<<g, s>>] # None }
Listed(status)       == { c \in Couples : candidates[c] # None /\ candidates[c].status = status }

\* The foreign keys of global_session_members and membership_audit_log.
KeysExist(g, s) == globals[g] # None /\ \E i \in DOMAIN log : log[i] = s

-----------------------------------------------------------------------------
(***************************************************************************)
(* Writes.                                                                 *)
(***************************************************************************)
\* commit_batch, from a scan or from a remote collector, adds an event.
AppendEvent(s) ==
  /\ log' = Append(log, s)
  /\ UNCHANGED <<globals, members, rejected, audit, candidates>>

\* create_global_session is idempotent, and refuses a different objective.
Creatable(g, objective) == globals[g] \in {None, objective}

CreateGlobal(g, objective) ==
  /\ globals' = [globals EXCEPT ![g] = objective]
  /\ UNCHANGED <<log, members, rejected, audit, candidates>>

\* link_session looks for a rejection before its transaction begins.
Linkable(g, s) == <<g, s>> \notin rejected

\* Slip: the decision is not audited.
LinkUnaudited(g, s, v) ==
  /\ KeysExist(g, s)
  /\ members' = [members EXCEPT ![<<g, s>>] = v]
  /\ UNCHANGED <<log, globals, rejected, audit, candidates>>

\* The transaction of link_session.
Link(g, s, v) ==
  /\ KeysExist(g, s)
  /\ members' = [members EXCEPT ![<<g, s>>] = v]
  /\ audit' = [audit EXCEPT ![<<g, s>>] = "link"]
  /\ UNCHANGED <<log, globals, rejected, candidates>>

\* unlink_session; `why' tells a review's replacement from a user's unlink.
Unlink(g, s, why) ==
  /\ KeysExist(g, s)
  /\ members' = [members EXCEPT ![<<g, s>>] = None]
  /\ audit' = [audit EXCEPT ![<<g, s>>] = why]
  /\ UNCHANGED <<log, globals, rejected, candidates>>

RejectMembership(g, s) ==
  /\ KeysExist(g, s)
  /\ members' = [members EXCEPT ![<<g, s>>] = None]
  /\ rejected' = rejected \cup {<<g, s>>}
  /\ audit' = [audit EXCEPT ![<<g, s>>] = "reject"]
  /\ UNCHANGED <<log, globals, candidates>>

\* Slip: the status is always replaced.
UpsertAnyStatus(s, t, status) ==
  LET old == candidates[{s, t}]
  IN  /\ candidates' = [candidates EXCEPT ![{s, t}] =
           IF old = None THEN [left |-> s, right |-> t, status |-> status]
           ELSE [old EXCEPT !.status = status]]
      /\ UNCHANGED <<log, globals, members, rejected, audit>>

\* upsert_correlation_candidate keeps the sides of a known candidate, and
\* keeps its status when that is "rejected".
UpsertCandidate(s, t, status) ==
  LET old == candidates[{s, t}]
      kept == IF old # None /\ old.status = "rejected" THEN "rejected" ELSE status
  IN  /\ candidates' = [candidates EXCEPT ![{s, t}] =
           IF old = None THEN [left |-> s, right |-> t, status |-> status]
           ELSE [old EXCEPT !.status = kept]]
      /\ UNCHANGED <<log, globals, members, rejected, audit>>

\* set_correlation_candidate_status: an UPDATE that reads nothing.
SetStatus(c, status) ==
  /\ candidates' = [candidates EXCEPT ![c].status = status]
  /\ UNCHANGED <<log, globals, members, rejected, audit>>

-----------------------------------------------------------------------------
(***************************************************************************)
(* What the tables must agree on.                                          *)
(***************************************************************************)

\* The audit log accounts for every membership: a pair is linked exactly when
\* the last decision recorded for it is a link (repository-correlation.md:
\* "transactional and recorded in an append-only audit log").
AuditMatchesMembers ==
  \A p \in Pairs : members[p] # None <=> audit[p] = "link"

\* A rejected pair is not a member (Storage::link_session: "Rejected pairs
\* cannot be linked until `reverse_rejection` is called").
NoRejectedMember == \A p \in rejected : members[p] = None

\* The correlator places a session once: whatever the interleaving with
\* reviews, restarts and repeated passes, a session never has two memberships
\* that were decided automatically.
SingleAutomatic ==
  \A s \in Sessions : \A g, h \in Globals :
    members[<<g, s>>] \in Automatic /\ members[<<h, s>>] \in Automatic => g = h
=============================================================================
