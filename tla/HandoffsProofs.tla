---------------------------- MODULE HandoffsProofs ----------------------------
(***************************************************************************)
(* Proofs about Handoffs for any number of sessions, facts, requests, MCP  *)
(* processes and request ids, and any budget.                              *)
(***************************************************************************)
EXTENDS Handoffs, FiniteSetTheorems, TLAPS

Entry     == [session : Sessions, fact : Facts]
Job       == [step : Step, members : SUBSET Sessions, seen : Nat, recs : Nat, at : Nat,
              content : Maybe(Content)]
PassState == [pc : {"idle", "changed", "placing", "refreshing"}, mark : Nat, next : Nat,
              changed : SUBSET Sessions, here : SUBSET Sessions, there : SUBSET Sessions,
              touched : BOOLEAN, booted : BOOLEAN]

\* The types of what the code keeps in the locals of a refresh and of a pass.
Typed ==
  /\ TypeOK
  /\ log \in Seq(Entry)
  /\ clock \in Nat
  /\ refresh \in [Refreshers -> Job]
  /\ \A r \in Refreshers : refresh[r].step = "stamped" => refresh[r].at \in 1 .. clock
  /\ pass \in PassState /\ pass.next <= Len(log)
  /\ during \in [Refreshers -> SUBSET Sessions]

\* The members that a refresh has read were members since it began, and so were
\* the sessions of the events it has put into a handoff.
Watching ==
  \A r \in Refreshers :
    /\ refresh[r].step # "idle" => refresh[r].members \subseteq during[r]
    /\ refresh[r].step = "stamped" =>
         \A field \in Fields : \A i \in refresh[r].content[field].sources :
           i <= MaxEvents => i \in DOMAIN log /\ log[i].session \in during[r]

IInv == Typed /\ Watching /\ RecordHonest

-----------------------------------------------------------------------------
(***************************************************************************)
(* What a handoff is made of.                                              *)
(***************************************************************************)
\* The budget only takes away.
LEMMA WithoutLastShrinks ==
  ASSUME NEW S, NEW k
  PROVE  WithoutLast(S, k) \subseteq S
  BY DEF WithoutLast

LEMMA EnforceShrinks ==
  ASSUME NEW full \in Content
  PROVE  /\ Enforce(full) \in Content
         /\ \A field \in Fields : Enforce(full)[field].sources \subseteq full[field].sources
  <1> DEFINE K(field) == CHOOSE i \in 1 .. 4 : FieldOrder[i] = field
             Kept(field) == [items   |-> WithoutLast(full[field].items, Excess(full, K(field))),
                             sources |-> WithoutLast(full[field].sources, Excess(full, K(field)))]
  <1>1. Enforce(full) = [field \in Fields |-> Kept(field)]
    BY DEF Enforce
  <1>2. ASSUME NEW field \in Fields
        PROVE  /\ Kept(field) \in [items : SUBSET Nat, sources : SUBSET Nat]
               /\ Kept(field).sources \subseteq full[field].sources
    <2>1. full[field] \in [items : SUBSET Nat, sources : SUBSET Nat]
      BY DEF Content
    <2>2. /\ WithoutLast(full[field].items, Excess(full, K(field))) \subseteq full[field].items
          /\ WithoutLast(full[field].sources, Excess(full, K(field))) \subseteq full[field].sources
      BY WithoutLastShrinks
    <2> QED BY <2>1, <2>2
  <1> HIDE DEF Kept
  <1> QED BY <1>1, <1>2 DEF Content

\* The events of a handoff are among those that were read, whatever the model
\* has suggested.
LEMMA OutcomeSources ==
  ASSUME Typed, NEW I \in SUBSET DOMAIN log, NEW n \in 0 .. Len(records),
         NEW content \in Outcomes(I, n) \ {None}
  PROVE  /\ content \in Content
         /\ \A field \in Fields : \A i \in content[field].sources :
              i <= MaxEvents => i \in I
  <1>0. Facts \subseteq Nat
    <2>1. DOMAIN FieldOf = 1 .. Len(FieldOf) /\ Len(FieldOf) \in Nat
      BY HandoffAssumption
    <2> QED BY <2>1 DEF Facts
  <1>1. PICK suggested \in {{}} \cup { {f} : f \in Suggestions } :
             content = Fitting(Full(I, n, suggested))
    BY DEF Outcomes
  <1> DEFINE full == Full(I, n, suggested)
  <1>2. content = Enforce(full)
    BY <1>1 DEF Fitting
  <1>3. I \subseteq Nat /\ \A i \in I : log[i].fact \in Nat
    <2>1. I \subseteq 1 .. Len(log) /\ Len(log) \in Nat
      BY DEF Typed
    <2>2. \A i \in 1 .. Len(log) : log[i].fact \in Facts
      <3>1. \A i \in 1 .. Len(log) : log[i] \in Entry
        BY DEF Typed
      <3> QED BY <3>1 DEF Entry
    <2>3. I \subseteq Nat
      BY <2>1
    <2>4. \A i \in I : log[i].fact \in Facts
      BY <2>1, <2>2
    <2> QED BY <1>0, <2>3, <2>4
  <1>4. suggested \subseteq Nat
    BY <1>0, HandoffAssumption
  <1>5. ASSUME NEW field \in Fields
        PROVE  /\ Sources(I, n, field) \in SUBSET Nat /\ Items(I, n, field) \in SUBSET Nat
               /\ \A i \in Sources(I, n, field) : i <= MaxEvents => i \in I
    <2>1. Supporting(I, field) \subseteq I
      BY DEF Supporting, FirstToSay, Fallback, Saying
    <2>2. Added(I, n, field) \subseteq 1 .. n
      BY DEF Added
    <2>3. Len(FieldOf) \in Nat /\ MaxEvents \in Nat
      BY HandoffAssumption
    <2> QED BY <1>3, <2>1, <2>2, <2>3 DEF Sources, Items
  <1>6. full \in Content
    BY <1>4, <1>5 DEF Full, Content
  <1>7. \A field \in Fields : \A i \in full[field].sources : i <= MaxEvents => i \in I
    BY <1>5 DEF Full
  <1> HIDE DEF full
  <1> QED BY <1>2, <1>6, <1>7, EnforceShrinks

LEMMA InitIInv == Init => IInv
  BY HandoffAssumption
  DEF Init, IInv, Typed, TypeOK, Watching, RecordHonest, NoRefresh, NewProcess, Job, PassState,
      Step, Maybe, Refreshers, Entry, Record

-----------------------------------------------------------------------------
(***************************************************************************)
(* One refresh.                                                            *)
(***************************************************************************)
\* A refresh that goes on leaves the others, the members and the records alone.
LEMMA JobStep ==
  ASSUME IInv, NEW r \in Refreshers, NEW job \in Job, Goto(r, job),
         UNCHANGED <<evidence, pass, call, answers>>,
         during' = IF refresh'[r] = NoRefresh THEN [during EXCEPT ![r] = {}] ELSE during,
         clock' \in Nat, clock <= clock',
         \A h \in handoffs' : h.content \in Content /\ h.at \in 1 .. clock',
         job.seen <= Len(log), job.recs <= Len(records),
         job.step # "idle" => job # NoRefresh /\ job.members = refresh[r].members,
         job.step # "idle" => refresh[r].step # "idle",
         job.step = "stamped" =>
           /\ job.content \in Content /\ job.at \in 1 .. clock'
           /\ \A field \in Fields : \A i \in job.content[field].sources :
                i <= MaxEvents => i \in DOMAIN log /\ log[i].session \in refresh[r].members
  PROVE  IInv'
  <1> USE DEF IInv
  <1>1. refresh' = [refresh EXCEPT ![r] = job] /\ refresh' \in [Refreshers -> Job]
    BY DEF Goto, Typed
  <1>2. during' \in [Refreshers -> SUBSET Sessions]
    BY DEF Typed
  <1>3. TypeOK'
    BY <1>1 DEF Typed, TypeOK, evidence, others, Job
  <1>4. Typed'
    BY <1>1, <1>2, <1>3 DEF Typed, evidence
  <1>5. Watching'
    <2> SUFFICES ASSUME NEW q \in Refreshers
                 PROVE  /\ refresh'[q].step # "idle" => refresh'[q].members \subseteq during'[q]
                        /\ refresh'[q].step = "stamped" =>
                             \A field \in Fields : \A i \in refresh'[q].content[field].sources :
                               i <= MaxEvents => i \in DOMAIN log' /\ log'[i].session \in during'[q]
      BY DEF Watching
    <2>1. CASE q # r
      <3>1. refresh'[q] = refresh[q] /\ during'[q] = during[q] /\ log' = log
        BY <1>1, <2>1 DEF Typed, evidence
      <3> QED BY <3>1 DEF Watching
    <2>2. CASE q = r
      <3>1. refresh'[q] = job /\ log' = log
        BY <1>1, <2>2 DEF Typed, evidence
      <3>2. CASE job.step = "idle"
        BY <3>1, <3>2
      <3>3. CASE job.step # "idle"
        <4>1. during'[q] = during[q] /\ refresh[q].members \subseteq during[q]
          BY <3>1, <3>3, <2>2 DEF Watching
        <4> QED BY <3>1, <3>3, <4>1, <2>2
      <3> QED BY <3>2, <3>3
    <2> QED BY <2>1, <2>2
  <1>6. RecordHonest'
    BY DEF RecordHonest, evidence
  <1> QED BY <1>4, <1>5, <1>6

LEMMA NoRefreshType == NoRefresh \in Job /\ NoRefresh.step = "idle"
  BY DEF NoRefresh, Job, Step, Maybe

LEMMA RefreshStep ==
  ASSUME IInv, NEW r \in Refreshers, Refreshing(r)
  PROVE  IInv'
  <1>1. /\ UNCHANGED <<evidence, pass, call, answers>>
        /\ during' = IF refresh'[r] = NoRefresh THEN [during EXCEPT ![r] = {}] ELSE during
    BY DEF Refreshing
  <1>2. /\ refresh[r] \in Job /\ clock \in Nat
        /\ refresh[r].seen <= Len(log) /\ refresh[r].recs <= Len(records)
        /\ \A h \in handoffs : h.content \in Content /\ h.at \in 1 .. clock
        /\ Len(log) \in Nat /\ Len(records) \in Nat
    BY DEF IInv, Typed, TypeOK
  <1>3. CASE ReadEvents(r)
    <2> DEFINE job == [refresh[r] EXCEPT !.step = "events", !.seen = Len(log)]
    <2>1. job \in Job
      BY <1>2 DEF Job, Step
    <2>2. job.step = "events" /\ job.members = refresh[r].members /\ job # NoRefresh
      BY <1>2 DEF Job, NoRefresh
    <2>3. job.seen <= Len(log) /\ job.recs <= Len(records)
      BY <1>2 DEF Job
    <2>4. Goto(r, job) /\ UNCHANGED <<handoffs, clock>> /\ refresh[r].step # "idle"
      BY <1>3 DEF ReadEvents
    <2>5. /\ clock' \in Nat /\ clock <= clock'
          /\ \A h \in handoffs' : h.content \in Content /\ h.at \in 1 .. clock'
      BY <1>2, <2>4
    <2> HIDE DEF job
    <2> QED BY <1>1, <2>1, <2>2, <2>3, <2>4, <2>5, JobStep
  <1>4. CASE ReadRecords(r)
    <2> DEFINE job == [refresh[r] EXCEPT !.step = "records", !.recs = Len(records)]
    <2>1. job \in Job
      BY <1>2 DEF Job, Step
    <2>2. job.step = "records" /\ job.members = refresh[r].members /\ job # NoRefresh
      BY <1>2 DEF Job, NoRefresh
    <2>3. job.seen <= Len(log) /\ job.recs <= Len(records)
      BY <1>2 DEF Job
    <2>4. Goto(r, job) /\ UNCHANGED <<handoffs, clock>> /\ refresh[r].step # "idle"
      BY <1>4 DEF ReadRecords
    <2>5. /\ clock' \in Nat /\ clock <= clock'
          /\ \A h \in handoffs' : h.content \in Content /\ h.at \in 1 .. clock'
      BY <1>2, <2>4
    <2> HIDE DEF job
    <2> QED BY <1>1, <2>1, <2>2, <2>3, <2>4, <2>5, JobStep
  <1>5. CASE Stamp(r)
    <2>1. PICK content \in Outcomes(EventsRead(r), refresh[r].recs) \ {None} :
            /\ clock' = clock + 1
            /\ Goto(r, [refresh[r] EXCEPT !.step = "stamped", !.content = content, !.at = clock'])
      BY <1>5 DEF Stamp
    <2> DEFINE job == [refresh[r] EXCEPT !.step = "stamped", !.content = content, !.at = clock']
    <2>2. EventsRead(r) \in SUBSET DOMAIN log /\ refresh[r].recs \in 0 .. Len(records)
      <3>1. refresh[r].seen \in Nat /\ refresh[r].recs \in Nat
        BY <1>2 DEF Job
      <3>2. DOMAIN log = 1 .. Len(log)
        BY DEF IInv, Typed
      <3> QED BY <1>2, <3>1, <3>2 DEF EventsRead
    <2>3. /\ content \in Content
          /\ \A field \in Fields : \A i \in content[field].sources :
               i <= MaxEvents => i \in EventsRead(r)
      BY <2>2, OutcomeSources DEF IInv
    <2>4. \A field \in Fields : \A i \in content[field].sources :
            i <= MaxEvents => i \in DOMAIN log /\ log[i].session \in refresh[r].members
      BY <2>2, <2>3 DEF EventsRead
    <2>5. clock' \in Nat /\ clock <= clock' /\ clock' \in 1 .. clock'
      BY <1>2, <2>1
    <2>6. job \in Job
      BY <1>2, <2>3, <2>5 DEF Job, Step, Maybe
    <2>7. /\ job.step = "stamped" /\ job.members = refresh[r].members /\ job # NoRefresh
          /\ job.content = content /\ job.at = clock'
          /\ job.seen <= Len(log) /\ job.recs <= Len(records)
      BY <1>2 DEF Job, NoRefresh
    <2>8. Goto(r, job) /\ handoffs' = handoffs /\ refresh[r].step # "idle"
      BY <1>5, <2>1 DEF Stamp
    <2>9. \A h \in handoffs' : h.content \in Content /\ h.at \in 1 .. clock'
      BY <1>2, <2>5, <2>8
    <2> HIDE DEF job
    <2> QED BY <1>1, <2>3, <2>4, <2>5, <2>6, <2>7, <2>8, <2>9, JobStep
  <1>6. CASE Store(r)
    <2>1. Goto(r, NoRefresh) /\ clock' = clock
      BY <1>6 DEF Store
    <2>2. \A h \in handoffs' : h.content \in Content /\ h.at \in 1 .. clock
      <3>1. refresh[r].step = "stamped"
        BY <1>6 DEF Store
      <3>2. refresh[r].content \in Content /\ refresh[r].at \in 1 .. clock
        BY <3>1 DEF IInv, Typed, TypeOK
      <3> QED BY <1>2, <1>6, <3>2 DEF Store
    <2>3. NoRefresh.seen <= Len(log) /\ NoRefresh.recs <= Len(records)
      BY <1>2 DEF NoRefresh
    <2>4. /\ clock' \in Nat /\ clock <= clock'
          /\ \A h \in handoffs' : h.content \in Content /\ h.at \in 1 .. clock'
      BY <1>2, <2>1, <2>2
    <2> QED BY <1>1, <2>1, <2>3, <2>4, NoRefreshType, JobStep
  <1>7. CASE NothingToShow(r)
    <2>1. Goto(r, NoRefresh) /\ UNCHANGED <<clock, handoffs>>
      BY <1>7 DEF NothingToShow
    <2>2. NoRefresh.seen <= Len(log) /\ NoRefresh.recs <= Len(records)
      BY <1>2 DEF NoRefresh
    <2>3. /\ clock' \in Nat /\ clock <= clock'
          /\ \A h \in handoffs' : h.content \in Content /\ h.at \in 1 .. clock'
      BY <1>2, <2>1
    <2> QED BY <1>1, <2>1, <2>2, <2>3, NoRefreshType, JobStep
  <1> QED BY <1>3, <1>4, <1>5, <1>6, <1>7 DEF Refreshing

-----------------------------------------------------------------------------
(***************************************************************************)
(* Steps of the others.                                                    *)
(***************************************************************************)
\* Refreshes in progress stay what they are while events are added and sessions
\* join.
LEMMA WatchingKept ==
  ASSUME IInv, UNCHANGED refresh,
         log' = log \/ \E e \in Entry : log' = Append(log, e),
         \A r \in Refreshers : refresh[r].step # "idle" => during[r] \subseteq during'[r]
  PROVE  Watching'
  <1>1. \A i \in DOMAIN log : i \in DOMAIN log' /\ log'[i] = log[i]
    <2>1. log \in Seq(Entry)
      BY DEF IInv, Typed
    <2> QED BY <2>1
  <1>2. \A r \in Refreshers : refresh[r].step = "stamped" => refresh[r].step # "idle"
    OBVIOUS
  <1> QED BY <1>1, <1>2 DEF IInv, Watching

\* A refresh begins with the members of the moment.
LEMMA BeginStep ==
  ASSUME IInv, NEW r \in Refreshers, ReadMembers(r), UNCHANGED <<log, records, clock>>
  PROVE  /\ refresh' \in [Refreshers -> Job] /\ during' \in [Refreshers -> SUBSET Sessions]
         /\ \A q \in Refreshers :
              /\ refresh'[q].seen <= Len(log') /\ refresh'[q].recs <= Len(records')
              /\ refresh'[q].step = "stamped" =>
                   refresh'[q].content \in Content /\ refresh'[q].at \in 1 .. clock'
         /\ Watching'
  <1> DEFINE job == [NoRefresh EXCEPT !.step = "members", !.members = members]
  <1>1. /\ refresh \in [Refreshers -> Job] /\ during \in [Refreshers -> SUBSET Sessions]
        /\ members \subseteq Sessions /\ Len(log) \in Nat /\ Len(records) \in Nat
        /\ \A q \in Refreshers :
              /\ refresh[q].seen <= Len(log) /\ refresh[q].recs <= Len(records)
              /\ refresh[q].step = "stamped" =>
                   refresh[q].content \in Content /\ refresh[q].at \in 1 .. clock
    BY DEF IInv, Typed, TypeOK
  <1>2. /\ job \in Job /\ job.step = "members" /\ job.members = members
        /\ job.seen <= Len(log) /\ job.recs <= Len(records)
    <2>1. NoRefresh \in Job /\ NoRefresh.seen = 0 /\ NoRefresh.recs = 0
      BY NoRefreshType DEF NoRefresh
    <2>2. job \in Job /\ job.step = "members" /\ job.members = members
      BY <1>1, <2>1 DEF Job, Step
    <2>3. job.seen = NoRefresh.seen /\ job.recs = NoRefresh.recs
      BY <2>1 DEF Job
    <2> QED BY <1>1, <2>1, <2>2, <2>3
  <1> HIDE DEF job
  <1>3. refresh' = [refresh EXCEPT ![r] = job] /\ during' = [during EXCEPT ![r] = members]
    BY DEF ReadMembers, Goto, job
  <1>4. Watching'
    <2> SUFFICES ASSUME NEW q \in Refreshers
                 PROVE  /\ refresh'[q].step # "idle" => refresh'[q].members \subseteq during'[q]
                        /\ refresh'[q].step = "stamped" =>
                             \A field \in Fields : \A i \in refresh'[q].content[field].sources :
                               i <= MaxEvents => i \in DOMAIN log' /\ log'[i].session \in during'[q]
      BY DEF Watching
    <2>1. CASE q = r
      BY <1>1, <1>2, <1>3, <2>1
    <2>2. CASE q # r
      <3>1. refresh'[q] = refresh[q] /\ during'[q] = during[q]
        BY <1>1, <1>3, <2>2
      <3> QED BY <3>1 DEF IInv, Watching
    <2> QED BY <2>1, <2>2
  <1> QED BY <1>1, <1>2, <1>3, <1>4

\* Sessions that join have been members since every refresh began that runs.
LEMMA JoinStep ==
  ASSUME IInv, NEW added \in SUBSET Sessions, Join(added), UNCHANGED <<log, refresh>>
  PROVE  /\ members' \subseteq Sessions /\ during' \in [Refreshers -> SUBSET Sessions]
         /\ Watching'
  <1>1. members' \subseteq Sessions /\ during' \in [Refreshers -> SUBSET Sessions]
    BY DEF Join, IInv, Typed, TypeOK
  <1>2. \A r \in Refreshers : refresh[r].step # "idle" => during[r] \subseteq during'[r]
    BY DEF Join
  <1> QED BY <1>1, <1>2, WatchingKept

LEMMA EvidenceStep ==
  ASSUME IInv,
         (\E s \in Sessions, f \in Facts : AppendEvent(s, f)) \/ \E s \in Sessions : User(s)
  PROVE  IInv'
  <1>1. ASSUME NEW s \in Sessions, NEW f \in Facts, AppendEvent(s, f)
        PROVE  IInv'
    <2> DEFINE e == [session |-> s, fact |-> f]
    <2>1. e \in Entry /\ e.session = s /\ e.fact = f
      BY DEF Entry
    <2>2. log' = Append(log, e) /\ UNCHANGED <<members, rejected, records, others, during>> /\ Elsewhere
      BY <1>1 DEF AppendEvent
    <2> HIDE DEF e
    <2>3. log \in Seq(Entry) /\ log' \in Seq(Entry) /\ Len(log') = Len(log) + 1
      BY <2>1, <2>2 DEF IInv, Typed
    <2>4. \A i \in DOMAIN log' : log'[i].session \in Sessions /\ log'[i].fact \in Facts
      <3>1. \A i \in DOMAIN log' : log'[i] \in Entry
        BY <2>3
      <3> QED BY <3>1 DEF Entry
    <2>5. Len(log) \in Nat
      BY <2>3
    <2>6. \A r \in Refreshers : refresh[r].seen \in Nat
      BY DEF IInv, Typed, Job
    <2>7. pass.mark \in Nat /\ pass.next \in Nat
      BY DEF IInv, Typed, PassState
    <2>8. TypeOK'
      BY <2>2, <2>3, <2>4, <2>5, <2>6, <2>7 DEF IInv, Typed, TypeOK, others, Elsewhere
    <2>9. Typed'
      BY <2>2, <2>3, <2>5, <2>7, <2>8 DEF IInv, Typed, Elsewhere
    <2>10. Watching'
      BY <2>1, <2>2, WatchingKept DEF Elsewhere
    <2>11. RecordHonest'
      BY <2>2 DEF IInv, RecordHonest, Elsewhere
    <2> QED BY <2>9, <2>10, <2>11 DEF IInv
  <1>2. ASSUME NEW s \in Sessions, User(s)
        PROVE  IInv'
    <2>1. UNCHANGED <<log, records>> /\ Elsewhere
      BY <1>2 DEF User
    <2>2. /\ members' \subseteq Sessions /\ away' \subseteq Sessions
          /\ rejected' \subseteq Sessions /\ barred' \subseteq Sessions
          /\ during' \in [Refreshers -> SUBSET Sessions] /\ Watching'
      <3>1. CASE LinkByUser(s)
        <4>1. Join({s}) /\ UNCHANGED <<rejected, others>>
          BY <3>1 DEF LinkByUser
        <4> QED BY <2>1, <4>1, JoinStep DEF Elsewhere, IInv, Typed, TypeOK, others
      <3>2. CASE LinkAwayByUser(s)
        <4>1. /\ away' = away \cup {s}
              /\ UNCHANGED <<members, rejected, barred, during>>
          BY <3>2 DEF LinkAwayByUser
        <4> QED BY <2>1, <4>1, WatchingKept DEF Elsewhere, IInv, Typed, TypeOK
      <3>3. ASSUME NEW rejection \in BOOLEAN, RemoveByUser(s, rejection)
            PROVE  /\ members' \subseteq Sessions /\ away' \subseteq Sessions
                   /\ rejected' \subseteq Sessions /\ barred' \subseteq Sessions
                   /\ during' \in [Refreshers -> SUBSET Sessions] /\ Watching'
        <4>1. /\ members' = members \ {s}
              /\ rejected' = IF rejection THEN rejected \cup {s} ELSE rejected
              /\ UNCHANGED <<others, during>>
          BY <3>3 DEF RemoveByUser
        <4> QED BY <2>1, <4>1, WatchingKept DEF Elsewhere, IInv, Typed, TypeOK, others
      <3>4. ASSUME NEW rejection \in BOOLEAN, RemoveAwayByUser(s, rejection)
            PROVE  /\ members' \subseteq Sessions /\ away' \subseteq Sessions
                   /\ rejected' \subseteq Sessions /\ barred' \subseteq Sessions
                   /\ during' \in [Refreshers -> SUBSET Sessions] /\ Watching'
        <4>1. /\ away' = away \ {s}
              /\ barred' = IF rejection THEN barred \cup {s} ELSE barred
              /\ UNCHANGED <<members, rejected, during>>
          BY <3>4 DEF RemoveAwayByUser
        <4> QED BY <2>1, <4>1, WatchingKept DEF Elsewhere, IInv, Typed, TypeOK
      <3> QED BY <1>2, <3>1, <3>2, <3>3, <3>4 DEF User
    <2>3. Typed'
      BY <2>1, <2>2 DEF IInv, Typed, TypeOK, Elsewhere
    <2>4. RecordHonest'
      BY <2>1 DEF IInv, RecordHonest, Elsewhere
    <2> QED BY <2>2, <2>3, <2>4 DEF IInv
  <1> QED BY <1>1, <1>2

LEMMA AskStep ==
  ASSUME IInv, NEW r \in Requests, Ask(r)
  PROVE  IInv'
  <1>1. /\ ReadMembers(r) /\ r \in Refreshers
        /\ UNCHANGED <<evidence, handoffs, clock, pass, call, answers>>
    BY DEF Ask, Refreshers
  <1>2. /\ refresh' \in [Refreshers -> Job] /\ during' \in [Refreshers -> SUBSET Sessions]
        /\ \A q \in Refreshers :
              /\ refresh'[q].seen <= Len(log') /\ refresh'[q].recs <= Len(records')
              /\ refresh'[q].step = "stamped" =>
                   refresh'[q].content \in Content /\ refresh'[q].at \in 1 .. clock'
        /\ Watching'
    BY <1>1, BeginStep DEF evidence
  <1>3. \A q \in Refreshers : refresh'[q].step \in Step
    BY <1>2 DEF Job
  <1>4. Typed'
    BY <1>1, <1>2, <1>3 DEF IInv, Typed, TypeOK, evidence, others
  <1>5. RecordHonest'
    BY <1>1 DEF IInv, RecordHonest, evidence
  <1> QED BY <1>2, <1>4, <1>5 DEF IInv

\* A pass that gives up is as it was before it began.
LEMMA GaveUp ==
  ASSUME IInv, GiveUp
  PROVE  pass' \in PassState /\ pass'.next <= Len(log) /\ pass'.mark = pass.mark
  <1>1. pass \in PassState /\ Len(log) \in Nat
    BY DEF IInv, Typed
  <1>2. pass' = [pc |-> "idle", mark |-> pass.mark, next |-> 0, changed |-> {}, here |-> {},
                 there |-> {}, touched |-> FALSE, booted |-> pass.booted]
    BY DEF GiveUp, NewProcess
  <1> QED BY <1>1, <1>2 DEF PassState

\* A pass finds the session placed, places it or gives up.
LEMMA PlaceStep ==
  ASSUME IInv, NEW s \in Sessions, Place(s), UNCHANGED log
  PROVE  /\ members' \subseteq Sessions /\ away' \subseteq Sessions
         /\ during' \in [Refreshers -> SUBSET Sessions] /\ Watching'
         /\ pass' \in PassState /\ pass'.next <= Len(log) /\ pass'.mark = pass.mark
  <1>1. pass \in PassState /\ pass.next <= Len(log) /\ UNCHANGED refresh
    BY DEF IInv, Typed, Place
  <1>2. members \subseteq Sessions /\ away \subseteq Sessions
        /\ during \in [Refreshers -> SUBSET Sessions]
    BY DEF IInv, Typed, TypeOK
  <1>3. ASSUME NEW touched \in BOOLEAN, Handled(s, touched)
        PROVE  pass' \in PassState /\ pass'.next <= Len(log) /\ pass'.mark = pass.mark
    BY <1>1, <1>3 DEF Handled, PassState
  <1>4. CASE Attribute(s)
    <2>1. Handled(s, s \in pass.here) /\ UNCHANGED <<members, away, during>>
      BY <1>4 DEF Attribute
    <2>2. (s \in pass.here) \in BOOLEAN
      OBVIOUS
    <2> QED BY <1>1, <1>2, <1>3, <2>1, <2>2, WatchingKept
  <1>5. CASE PlaceHere(s)
    <2>1. Join({s}) /\ Handled(s, TRUE) /\ away' = away
      BY <1>5 DEF PlaceHere
    <2> QED BY <1>1, <1>2, <1>3, <2>1, JoinStep
  <1>6. CASE PlaceAway(s)
    <2>1. away' = away \cup {s} /\ Handled(s, FALSE) /\ UNCHANGED <<members, during>>
      BY <1>6 DEF PlaceAway
    <2> QED BY <1>1, <1>2, <1>3, <2>1, WatchingKept
  <1>7. CASE PlaceRefused(s)
    <2>1. GiveUp /\ UNCHANGED <<members, away, during>>
      BY <1>7 DEF PlaceRefused
    <2> QED BY <1>1, <1>2, <2>1, GaveUp, WatchingKept
  <1> QED BY <1>4, <1>5, <1>6, <1>7 DEF Place

LEMMA PassStep ==
  ASSUME IInv, Pass
  PROVE  IInv'
  <1>1. UNCHANGED <<log, rejected, barred, records, handoffs, clock, call, answers>>
    BY DEF Pass
  <1>2. pass \in PassState /\ Len(log) \in Nat
    BY DEF IInv, Typed
  <1>3. RecordHonest'
    BY <1>1 DEF IInv, RecordHonest
  <1>4. CASE ReadChanged
    <2>1. ChangedSince(pass.mark) \subseteq Sessions
      <3>1. pass.mark + 1 .. Len(log) \subseteq DOMAIN log
        <4>1. pass.mark \in Nat /\ DOMAIN log = 1 .. Len(log)
          BY DEF IInv, Typed, PassState
        <4> QED BY <1>2, <4>1
      <3> QED BY <3>1 DEF ChangedSince, IInv, Typed, TypeOK
    <2>2. /\ pass' \in PassState /\ pass'.next <= Len(log) /\ pass'.mark = pass.mark
          /\ UNCHANGED <<members, away, refresh, during>>
      <3>1. /\ pass' = [pass EXCEPT !.pc = "changed", !.next = Len(log),
                                     !.changed = ChangedSince(pass.mark)]
            /\ UNCHANGED <<members, away, refresh, during>>
        BY <1>4 DEF ReadChanged
      <3>2. pass' \in PassState /\ pass'.next = Len(log) /\ pass'.mark = pass.mark
        BY <1>2, <2>1, <3>1 DEF PassState
      <3> QED BY <1>2, <3>1, <3>2
    <2>3. Typed'
      BY <1>1, <2>2 DEF IInv, Typed, TypeOK
    <2>4. Watching'
      BY <1>1, <2>2, WatchingKept
    <2> QED BY <1>3, <2>3, <2>4 DEF IInv
  <1>5. CASE ReadMemberships
    <2> DEFINE here == members \ (away \cap Outranked)
    <2>1. /\ pass' = [pass EXCEPT !.pc = "placing", !.here = here, !.there = away \ here,
                                  !.touched = ~ pass.booted /\ members # {}]
          /\ UNCHANGED <<members, away, refresh, during>>
      BY <1>5 DEF ReadMemberships
    <2>2. here \subseteq Sessions /\ away \ here \subseteq Sessions
      BY DEF IInv, Typed, TypeOK
    <2> HIDE DEF here
    <2>3. pass' \in PassState /\ pass'.next = pass.next /\ pass'.mark = pass.mark
      BY <1>2, <2>1, <2>2 DEF PassState
    <2>4. Typed'
      BY <1>1, <2>1, <2>3 DEF IInv, Typed, TypeOK
    <2>5. Watching'
      BY <1>1, <2>1, WatchingKept
    <2> QED BY <1>3, <2>4, <2>5 DEF IInv
  <1>6. ASSUME NEW s \in Sessions, Place(s)
        PROVE  IInv'
    <2>1. /\ members' \subseteq Sessions /\ away' \subseteq Sessions
          /\ during' \in [Refreshers -> SUBSET Sessions] /\ Watching'
          /\ pass' \in PassState /\ pass'.next <= Len(log) /\ pass'.mark = pass.mark
          /\ UNCHANGED refresh
      BY <1>1, <1>6, PlaceStep DEF Place
    <2>2. Typed'
      BY <1>1, <2>1 DEF IInv, Typed, TypeOK
    <2> QED BY <1>3, <2>1, <2>2 DEF IInv
  <1>7. CASE RefreshTouched
    <2>1. ReadMembers("pass") /\ "pass" \in Refreshers /\ UNCHANGED <<members, away>>
      BY <1>7 DEF RefreshTouched, Refreshers
    <2>2. /\ refresh' \in [Refreshers -> Job] /\ during' \in [Refreshers -> SUBSET Sessions]
          /\ \A q \in Refreshers :
                /\ refresh'[q].seen <= Len(log') /\ refresh'[q].recs <= Len(records')
                /\ refresh'[q].step = "stamped" =>
                     refresh'[q].content \in Content /\ refresh'[q].at \in 1 .. clock'
          /\ Watching'
      BY <1>1, <2>1, BeginStep
    <2>3. \A q \in Refreshers : refresh'[q].step \in Step
      BY <2>2 DEF Job
    <2>4. pass' \in PassState /\ pass'.next = pass.next /\ pass'.mark = pass.mark
      BY <1>2, <1>7 DEF RefreshTouched, PassState
    <2>5. Typed'
      BY <1>1, <2>1, <2>2, <2>3, <2>4 DEF IInv, Typed, TypeOK
    <2> QED BY <1>3, <2>2, <2>5 DEF IInv
  <1>8. CASE EndPass
    <2>1. /\ pass' \in PassState /\ pass'.next <= Len(log) /\ pass'.mark = pass.next
          /\ UNCHANGED <<members, away, refresh, during>>
      <3>1. /\ pass' = [pc |-> "idle", mark |-> pass.next, next |-> 0, changed |-> {}, here |-> {},
                        there |-> {}, touched |-> FALSE, booted |-> TRUE]
            /\ UNCHANGED <<members, away, refresh, during>>
        BY <1>8 DEF EndPass, NewProcess
      <3>2. pass.next \in Nat
        BY <1>2 DEF PassState
      <3> QED BY <1>2, <3>1, <3>2 DEF PassState
    <2>2. Typed'
      BY <1>1, <2>1 DEF IInv, Typed, TypeOK
    <2>3. Watching'
      BY <1>1, <2>1, WatchingKept
    <2> QED BY <1>3, <2>2, <2>3 DEF IInv
  <1> QED BY <1>4, <1>5, <1>6, <1>7, <1>8 DEF Pass

-----------------------------------------------------------------------------
(***************************************************************************)
(* Records, and faults.                                                    *)
(***************************************************************************)
LEMMA McpStep ==
  ASSUME IInv, Mcp
  PROVE  IInv'
  <1>1. UNCHANGED <<log, members, rejected, others, handoffs, clock, refresh, pass, history>>
    BY DEF Mcp
  <1>2. /\ records \in Seq(Record) /\ call \in [Hosts -> Maybe(Record)] /\ answers \subseteq Record
        /\ Len(records) \in Nat
    BY DEF IInv, Typed, TypeOK
  <1>3. /\ records' \in Seq(Record) /\ call' \in [Hosts -> Maybe(Record)] /\ answers' \subseteq Record
        /\ Len(records) <= Len(records') /\ RecordHonest'
    <2>1. ASSUME NEW h \in Hosts, Insert(h)
          PROVE  /\ records' \in Seq(Record) /\ call' \in [Hosts -> Maybe(Record)] /\ answers' \subseteq Record
                 /\ Len(records) <= Len(records') /\ RecordHonest'
      <3>1. call[h] \in Record /\ call' \in [Hosts -> Maybe(Record)]
        BY <1>2, <2>1 DEF Insert, Maybe
      <3>2. CASE Known(call[h].id) = {}
        <4>1. records' = Append(records, call[h]) /\ answers' = answers \cup {call[h]}
          BY <2>1, <3>2 DEF Insert, Accepted
        <4>2. /\ records' \in Seq(Record) /\ Len(records') = Len(records) + 1
              /\ \A k \in DOMAIN records : k \in DOMAIN records' /\ records'[k] = records[k]
              /\ Len(records') \in DOMAIN records' /\ records'[Len(records')] = call[h]
              /\ \A k \in DOMAIN records' : k = Len(records') \/ k \in DOMAIN records
          BY <1>2, <3>1, <4>1
        <4>3. \A k \in DOMAIN records : records[k].id # call[h].id
          BY <3>2 DEF Known
        <4>4. \A j, k \in DOMAIN records' : records'[j].id = records'[k].id => j = k
          BY <4>2, <4>3 DEF IInv, RecordHonest
        <4>5. \A request \in answers' : \E k \in DOMAIN records' : records'[k] = request
          BY <4>1, <4>2 DEF IInv, RecordHonest
        <4> QED BY <1>2, <3>1, <4>1, <4>2, <4>4, <4>5 DEF RecordHonest
      <3>3. CASE Known(call[h].id) # {}
        <4>1. UNCHANGED <<records, answers>>
          BY <2>1, <3>3 DEF Insert, Refused
        <4> QED BY <1>2, <3>1, <4>1 DEF IInv, RecordHonest
      <3> QED BY <3>2, <3>3
    <2>2. ASSUME NEW h \in Hosts, NEW id \in Ids, NEW f \in Facts, Check(h, id, f)
          PROVE  /\ records' \in Seq(Record) /\ call' \in [Hosts -> Maybe(Record)] /\ answers' \subseteq Record
                 /\ Len(records) <= Len(records') /\ RecordHonest'
      <3> DEFINE request == [id |-> id, fact |-> f]
      <3>1. request \in Record /\ records' = records
        BY <2>2 DEF Record, Check
      <3>2. call' \in [Hosts -> Maybe(Record)]
        BY <1>2, <2>2, <3>1 DEF Check, Maybe
      <3>3. answers' = answers \/ (answers' = answers \cup {request}
                                     /\ \E k \in DOMAIN records : records[k] = request)
        BY <2>2 DEF Check, Accepted, Refused, Known
      <3> HIDE DEF request
      <3>4. RecordHonest'
        BY <3>1, <3>3 DEF IInv, RecordHonest
      <3> QED BY <1>2, <3>1, <3>2, <3>3, <3>4
    <2> QED BY <2>1, <2>2 DEF Mcp
  <1>4. \A r \in Refreshers : refresh[r].recs \in Nat
    BY DEF IInv, Typed, Job
  <1>5. Len(records') \in Nat
    BY <1>3
  <1>6. Typed'
    BY <1>1, <1>2, <1>3, <1>4, <1>5 DEF IInv, Typed, TypeOK, others, history
  <1>7. Watching'
    BY <1>1, WatchingKept DEF history
  <1> QED BY <1>3, <1>6, <1>7 DEF IInv

LEMMA FaultStep ==
  ASSUME IInv, Fault
  PROVE  IInv'
  <1>1. UNCHANGED <<evidence, handoffs, clock, answers>>
    BY DEF Fault
  <1>2. RecordHonest'
    BY <1>1 DEF IInv, RecordHonest, evidence
  <1>3. /\ NoRefresh \in Job /\ NoRefresh.step = "idle" /\ NoRefresh.seen = 0 /\ NoRefresh.recs = 0
        /\ Len(log) \in Nat /\ Len(records) \in Nat
    BY NoRefreshType DEF NoRefresh, IInv, Typed, TypeOK
  <1>4. ASSUME NEW r \in Refreshers, RefreshFails(r)
        PROVE  IInv'
    <2>1. /\ refresh' = [refresh EXCEPT ![r] = NoRefresh]
          /\ during' = [during EXCEPT ![r] = {}]
          /\ UNCHANGED <<pass, call>>
      BY <1>4 DEF RefreshFails, Goto
    <2>2. /\ refresh' \in [Refreshers -> Job] /\ during' \in [Refreshers -> SUBSET Sessions]
          /\ \A q \in Refreshers :
               \/ refresh'[q] = NoRefresh
               \/ refresh'[q] = refresh[q] /\ during'[q] = during[q]
      BY <1>3, <2>1 DEF IInv, Typed
    <2>3. TypeOK'
      BY <1>1, <1>3, <2>1, <2>2 DEF IInv, Typed, TypeOK, evidence, others, Step
    <2>4. Typed'
      BY <1>1, <1>3, <2>1, <2>2, <2>3 DEF IInv, Typed, evidence
    <2>5. Watching'
      BY <1>1, <1>3, <2>2 DEF IInv, Watching, evidence
    <2> QED BY <1>2, <2>4, <2>5 DEF IInv
  <1>5. CASE Restart
    <2>1. /\ refresh' = [r \in Refreshers |-> NoRefresh]
          /\ during' = [r \in Refreshers |-> {}]
          /\ pass' = NewProcess /\ call' = [h \in Hosts |-> None]
      BY <1>5 DEF Restart
    <2>2. /\ refresh' \in [Refreshers -> Job] /\ during' \in [Refreshers -> SUBSET Sessions]
          /\ \A q \in Refreshers : refresh'[q] = NoRefresh
          /\ pass' \in PassState /\ pass'.mark = 0 /\ pass'.next = 0
          /\ call' \in [Hosts -> Maybe(Record)]
      BY <1>3, <2>1 DEF NewProcess, PassState, Maybe
    <2>3. TypeOK'
      BY <1>1, <1>3, <2>2 DEF IInv, Typed, TypeOK, evidence, others, Step
    <2>4. Typed'
      BY <1>1, <1>3, <2>2, <2>3 DEF IInv, Typed, evidence
    <2>5. Watching'
      BY <1>3, <2>2 DEF Watching
    <2> QED BY <1>2, <2>4, <2>5 DEF IInv
  <1>6. CASE PassFails
    <2>1. /\ pass' \in PassState /\ pass'.next <= Len(log) /\ pass'.mark = pass.mark
          /\ UNCHANGED <<refresh, call, during>>
      BY <1>6, GaveUp DEF PassFails
    <2>2. Typed'
      BY <1>1, <2>1 DEF IInv, Typed, TypeOK, evidence, others
    <2>3. Watching'
      BY <1>1, <2>1, WatchingKept DEF evidence
    <2> QED BY <1>2, <2>2, <2>3 DEF IInv
  <1> QED BY <1>4, <1>5, <1>6 DEF Fault

LEMMA StutterStep ==
  ASSUME IInv, UNCHANGED vars
  PROVE  IInv'
  BY DEF vars, evidence, others, history, IInv, Typed, TypeOK, Watching, RecordHonest

-----------------------------------------------------------------------------
(***************************************************************************)
(* The theorems.                                                           *)
(***************************************************************************)
\* The inductive invariant holds throughout.
LEMMA Invariant == Spec => []IInv
  <1>1. ASSUME IInv, [Next]_vars
        PROVE  IInv'
    BY <1>1, RefreshStep, EvidenceStep, AskStep, PassStep, McpStep, FaultStep, StutterStep DEF Next
  <1> QED BY InitIInv, <1>1, PTL DEF Spec

\* The tables and the locals of refreshes, passes and record calls keep their
\* types.
THEOREM TypeCorrect == Spec => []TypeOK
  <1>1. IInv => TypeOK
    BY DEF IInv, Typed
  <1> QED BY <1>1, Invariant, PTL

\* No refresh shows a session that has been out of the global session since the
\* refresh began, however many refreshes, reviews and passes run at once.
THEOREM RemovedStaysOut == Spec => []RemovedStayOut
  <1>1. IInv => RemovedStayOut
    BY DEF IInv, Watching, RemovedStayOut
  <1> QED BY <1>1, Invariant, PTL

\* What an MCP client is told is true, however many processes record at once.
THEOREM RecordsAreHonest == Spec => []RecordHonest
  <1>1. IInv => RecordHonest
    BY DEF IInv
  <1> QED BY <1>1, Invariant, PTL

-----------------------------------------------------------------------------
(***************************************************************************)
(* How many facts and sources the budget leaves.                           *)
(***************************************************************************)
\* The place of x in S, counted from the last one.
FromLast(S, x) == Cardinality({ y \in S : y > x })

\* Places count down, from below the number of elements.
LEMMA PlacesCountDown ==
  ASSUME NEW S \in SUBSET Nat, IsFiniteSet(S), NEW x \in S, NEW z \in S
  PROVE  /\ FromLast(S, x) \in 0 .. Cardinality(S) - 1
         /\ x < z => FromLast(S, z) < FromLast(S, x)
  <1> DEFINE Over(d) == { y \in S : y > d }
  <1>1. \A d \in S : IsFiniteSet(Over(d)) /\ Cardinality(Over(d)) \in Nat
    BY FS_Subset, FS_CardinalityType
  <1>2. \A d \in S : ~(d > d)
    OBVIOUS
  <1>3. Cardinality(S) \in Nat
    BY FS_CardinalityType
  <1>4. Cardinality(Over(x)) <= Cardinality(S) /\ Cardinality(Over(x)) # Cardinality(S)
    <2>1. Over(x) \in SUBSET S /\ x \notin Over(x)
      BY <1>2
    <2> QED BY <2>1, FS_Subset
  <1>5. ASSUME x < z PROVE Cardinality(Over(z)) < Cardinality(Over(x))
    <2>1. (\A y \in S : y > z => y > x) /\ z > x /\ ~(z > z)
      <3>1. \A d \in S : d \in Int
        OBVIOUS
      <3> QED BY <1>5, <3>1
    <2>2. Over(z) \in SUBSET Over(x) /\ z \in Over(x) /\ z \notin Over(z)
      BY <2>1
    <2>3. Cardinality(Over(z)) <= Cardinality(Over(x)) /\ Cardinality(Over(z)) # Cardinality(Over(x))
      BY <1>1, <2>2, FS_Subset
    <2> QED BY <1>1, <2>3
  <1> QED BY <1>1, <1>3, <1>4, <1>5 DEF FromLast

\* What is left of S has one element for each place that is not taken away.
LEMMA LeftByPlace ==
  ASSUME NEW S \in SUBSET Nat, IsFiniteSet(S), NEW k
  PROVE  LET places == { i \in 0 .. Cardinality(S) - 1 : i >= k }
         IN  /\ IsFiniteSet(WithoutLast(S, k)) /\ IsFiniteSet(places)
             /\ Cardinality(WithoutLast(S, k)) = Cardinality(places)
  <1> DEFINE n == Cardinality(S)
             places == { i \in 0 .. n - 1 : i >= k }
             place == [x \in S |-> FromLast(S, x)]
             kept == [x \in WithoutLast(S, k) |-> FromLast(S, x)]
  <1>1. n \in Nat
    BY FS_CardinalityType
  <1>2. IsFiniteSet(0 .. n - 1) /\ Cardinality(0 .. n - 1) = n
    <2>1. /\ IsFiniteSet(0 .. n - 1)
          /\ Cardinality(0 .. n - 1) = IF 0 > n - 1 THEN 0 ELSE n - 1 - 0 + 1
      BY <1>1, FS_Interval
    <2> QED BY <1>1, <2>1
  <1>3. \A x \in S : FromLast(S, x) \in 0 .. n - 1
    BY PlacesCountDown
  <1>4. \A x, z \in S : FromLast(S, x) = FromLast(S, z) => x = z
    <2> TAKE x, z \in S
    <2>1. /\ x < z => FromLast(S, z) < FromLast(S, x)
          /\ z < x => FromLast(S, x) < FromLast(S, z)
      BY PlacesCountDown
    <2>2. x \in Int /\ z \in Int /\ FromLast(S, x) \in Int /\ FromLast(S, z) \in Int
      <3>1. \A d \in S : d \in Int
        OBVIOUS
      <3>2. \A i \in 0 .. n - 1 : i \in Int
        BY <1>1
      <3> QED BY <1>3, <3>1, <3>2
    <2> QED BY <2>1, <2>2
  <1>5. place \in Injection(S, 0 .. n - 1)
    BY <1>3, <1>4 DEF Injection, IsInjective
  <1>6. place \in Surjection(S, 0 .. n - 1)
    BY <1>2, <1>5, FS_Injection
  <1>7. \A i \in 0 .. n - 1 : \E x \in S : FromLast(S, x) = i
    BY <1>6 DEF Surjection
  <1>8. WithoutLast(S, k) = { x \in S : FromLast(S, x) >= k }
    BY DEF WithoutLast, FromLast
  <1>9. IsFiniteSet(places) /\ IsFiniteSet(WithoutLast(S, k))
    BY <1>2, <1>8, FS_Subset
  <1>10. kept \in Injection(WithoutLast(S, k), places)
    BY <1>3, <1>4, <1>8 DEF Injection, IsInjective
  <1>11. kept \in Surjection(WithoutLast(S, k), places)
    <2>1. \A i \in places : \E x \in WithoutLast(S, k) : kept[x] = i
      BY <1>7, <1>8
    <2> QED BY <2>1, <1>10 DEF Surjection, Injection
  <1>12. ExistsBijection(WithoutLast(S, k), places)
    BY <1>10, <1>11 DEF ExistsBijection, Bijection
  <1>13. Cardinality(WithoutLast(S, k)) = Cardinality(places)
    BY <1>9, <1>12, FS_Bijection
  <1> QED BY <1>9, <1>13

\* The budget leaves as many sources as facts when there were as many.
LEMMA SameCountLeft ==
  ASSUME NEW S \in SUBSET Nat, IsFiniteSet(S), NEW T \in SUBSET Nat, IsFiniteSet(T), NEW k,
         Cardinality(S) = Cardinality(T)
  PROVE  Cardinality(WithoutLast(S, k)) = Cardinality(WithoutLast(T, k))
  BY LeftByPlace

\* The events that support a field say different things.
LEMMA SupportingDiffer ==
  ASSUME NEW I \in SUBSET Nat, NEW field,
         NEW i \in Supporting(I, field), NEW j \in Supporting(I, field),
         log[i].fact = log[j].fact
  PROVE  i = j
  <1>1. FirstToSay(I, field) \subseteq Saying(I, field) /\ Saying(I, field) \subseteq I
    BY DEF FirstToSay, Saying
  <1>2. CASE Saying(I, field) # {}
    <2>1. i \in FirstToSay(I, field) /\ j \in FirstToSay(I, field)
      BY <1>2 DEF Supporting, Fallback
    <2>2. i <= j /\ j <= i /\ i \in Nat /\ j \in Nat
      BY <1>1, <2>1 DEF FirstToSay
    <2> QED BY <2>2
  <1>3. CASE Saying(I, field) = {}
    <2>1. i \in Fallback(I, field) /\ j \in Fallback(I, field)
      BY <1>1, <1>3 DEF Supporting
    <2>2. i <= j /\ j <= i /\ i \in Nat /\ j \in Nat
      BY <2>1 DEF Fallback, Saying
    <2> QED BY <2>2
  <1> QED BY <1>2, <1>3

\* Before the budget each fact of a field has a source of its own: the event
\* that says it first, or the record.
LEMMA OneSourceEach ==
  ASSUME Typed, Len(log) <= MaxEvents, NEW I \in SUBSET DOMAIN log,
         NEW n \in 0 .. Len(records), NEW field
  PROVE  /\ Items(I, n, field) \in SUBSET Nat /\ IsFiniteSet(Items(I, n, field))
         /\ Sources(I, n, field) \in SUBSET Nat /\ IsFiniteSet(Sources(I, n, field))
         /\ Cardinality(Sources(I, n, field)) = Cardinality(Items(I, n, field))
  <1> DEFINE A == Supporting(I, field)
             B == Added(I, n, field)
             sources == Sources(I, n, field)
             items == Items(I, n, field)
             said == [x \in sources |-> IF x <= MaxEvents THEN log[x].fact
                                        ELSE Len(FieldOf) + (x - MaxEvents)]
  <1>1. Len(FieldOf) \in Nat /\ MaxEvents \in Nat /\ n \in Nat /\ Len(log) \in Nat
    BY HandoffAssumption DEF Typed, TypeOK
  <1>2. A \subseteq I /\ I \subseteq 1 .. Len(log)
    <2>1. A \subseteq I
      BY DEF Supporting, FirstToSay, Fallback, Saying
    <2>2. DOMAIN log = 1 .. Len(log)
      BY DEF Typed
    <2> QED BY <2>1, <2>2
  <1>3. \A i \in A : i \in Nat /\ 1 <= i /\ i <= MaxEvents
    BY <1>1, <1>2
  <1>4. \A i \in A : log[i].fact \in Nat /\ 1 <= log[i].fact /\ log[i].fact <= Len(FieldOf)
    <2>1. \A i \in 1 .. Len(log) : log[i].fact \in Facts
      <3>1. \A i \in 1 .. Len(log) : log[i] \in Entry
        BY DEF Typed
      <3> QED BY <3>1 DEF Entry
    <2>2. Facts = 1 .. Len(FieldOf)
      BY HandoffAssumption DEF Facts
    <2>3. \A f \in 1 .. Len(FieldOf) : f \in Nat /\ 1 <= f /\ f <= Len(FieldOf)
      BY <1>1
    <2> QED BY <1>2, <2>1, <2>2, <2>3
  <1>5. \A k \in B : k \in Nat /\ 1 <= k /\ k <= n
    BY <1>1 DEF Added
  <1>6. \A i, j \in A : log[i].fact = log[j].fact => i = j
    <2>1. I \in SUBSET Nat
      BY <1>1, <1>2
    <2> QED BY <2>1, SupportingDiffer
  <1>7. sources = A \cup { MaxEvents + k : k \in B }
    BY DEF Sources
  <1>8. items = { log[i].fact : i \in A } \cup { Len(FieldOf) + k : k \in B }
    BY DEF Items
  <1> HIDE DEF A, B, sources, items
  <1>9. \A x \in sources : \/ x \in A /\ x <= MaxEvents /\ said[x] = log[x].fact
                           \/ \E k \in B : /\ x = MaxEvents + k /\ ~(x <= MaxEvents)
                                           /\ said[x] = Len(FieldOf) + k
    <2> TAKE x \in sources
    <2>1. CASE x \in A
      BY <1>3, <2>1
    <2>2. ASSUME NEW k \in B, x = MaxEvents + k
          PROVE  ~(x <= MaxEvents) /\ said[x] = Len(FieldOf) + k
      <3>1. ~(x <= MaxEvents) /\ x - MaxEvents = k
        BY <1>1, <1>5, <2>2
      <3> QED BY <3>1
    <2> QED BY <1>7, <2>1, <2>2
  <1> HIDE DEF said
  <1>10. said \in [sources -> items]
    <2>1. \A x \in sources : said[x] \in items
      BY <1>8, <1>9
    <2> QED BY <2>1 DEF said
  <1>11. \A x, z \in sources : said[x] = said[z] => x = z
    <2> SUFFICES ASSUME NEW x \in sources, NEW z \in sources, said[x] = said[z]
                 PROVE  x = z
      OBVIOUS
    <2>1. CASE x \in A /\ said[x] = log[x].fact /\ z \in A /\ said[z] = log[z].fact
      BY <1>6, <2>1
    <2>2. ASSUME NEW i \in A, NEW k \in B, log[i].fact = Len(FieldOf) + k
          PROVE  FALSE
      BY <1>1, <1>4, <1>5, <2>2
    <2>3. ASSUME NEW k \in B, NEW l \in B, Len(FieldOf) + k = Len(FieldOf) + l
          PROVE  k = l
      BY <1>1, <1>5, <2>3
    <2> QED BY <1>9, <2>1, <2>2, <2>3
  <1>12. \A y \in items : \E x \in sources : said[x] = y
    <2> SUFFICES ASSUME NEW y \in items PROVE \E x \in sources : said[x] = y
      OBVIOUS
    <2>1. ASSUME NEW i \in A, y = log[i].fact
          PROVE  i \in sources /\ said[i] = y
      BY <1>3, <1>7, <2>1 DEF said
    <2>2. ASSUME NEW k \in B, y = Len(FieldOf) + k
          PROVE  MaxEvents + k \in sources /\ said[MaxEvents + k] = y
      <3>1. MaxEvents + k \in sources
        BY <1>7
      <3>2. ~(MaxEvents + k <= MaxEvents) /\ (MaxEvents + k) - MaxEvents = k
        BY <1>1, <1>5
      <3> QED BY <2>2, <3>1, <3>2 DEF said
    <2> QED BY <1>8, <2>1, <2>2
  <1>13. \A x \in sources : x \in 1 .. (MaxEvents + n)
    <2>1. \A k \in B : MaxEvents + k \in 1 .. (MaxEvents + n)
      BY <1>1, <1>5
    <2>2. \A i \in A : i \in 1 .. (MaxEvents + n)
      BY <1>1, <1>3
    <2> QED BY <1>7, <2>1, <2>2
  <1>14. sources \in SUBSET Nat /\ IsFiniteSet(sources)
    <2>0. 1 \in Int /\ MaxEvents + n \in Int /\ 1 .. (MaxEvents + n) \subseteq Nat
      BY <1>1
    <2>1. IsFiniteSet(1 .. (MaxEvents + n))
      BY <2>0, FS_Interval
    <2>2. sources \in SUBSET (1 .. (MaxEvents + n))
      BY <1>13
    <2> QED BY <2>0, <2>1, <2>2, FS_Subset
  <1>15. items \in SUBSET Nat
    <2>1. \A k \in B : Len(FieldOf) + k \in Nat
      BY <1>1, <1>5
    <2> QED BY <1>4, <1>8, <2>1
  <1>16. ExistsBijection(sources, items)
    <2>1. said \in Injection(sources, items)
      BY <1>10, <1>11 DEF Injection, IsInjective
    <2>2. said \in Surjection(sources, items)
      BY <1>10, <1>12 DEF Surjection
    <2> QED BY <2>1, <2>2 DEF ExistsBijection, Bijection
  <1>17. IsFiniteSet(items) /\ Cardinality(items) = Cardinality(sources)
    BY <1>14, <1>16, FS_Bijection
  <1> QED BY <1>14, <1>15, <1>17 DEF sources, items

\* What ProvenanceCounted says of one handoff.
Counted(content) ==
  /\ Size(content) <= Budget
  /\ \A field \in Fields :
       \/ Cardinality(content[field].sources) = Cardinality(content[field].items)
       \/ /\ field = "open_tasks" /\ content[field].sources = {}
          /\ content[field].items \subseteq Suggestions

LEMMA OutcomeCounted ==
  ASSUME Typed, Len(log) <= MaxEvents, NEW I \in SUBSET DOMAIN log,
         NEW n \in 0 .. Len(records), NEW content \in Outcomes(I, n) \ {None}
  PROVE  Counted(content)
  <1>1. PICK suggested \in {{}} \cup { {f} : f \in Suggestions } :
             content = Fitting(Full(I, n, suggested))
    BY DEF Outcomes
  <1> DEFINE full == Full(I, n, suggested)
             K(field) == CHOOSE i \in 1 .. 4 : FieldOrder[i] = field
  <1>2. content = Enforce(full) /\ ~(Size(content) > Budget)
    BY <1>1 DEF Fitting
  <1>3. suggested \in SUBSET Nat /\ IsFiniteSet(suggested) /\ suggested \subseteq Suggestions
    <2>1. Suggestions \subseteq Nat
      <3>1. DOMAIN FieldOf = 1 .. Len(FieldOf) /\ Len(FieldOf) \in Nat
        BY HandoffAssumption
      <3> QED BY <3>1, HandoffAssumption DEF Facts
    <2>2. CASE suggested = {}
      BY <2>2, FS_EmptySet
    <2>3. ASSUME NEW f \in Suggestions, suggested = {f}
          PROVE  suggested \in SUBSET Nat /\ IsFiniteSet(suggested) /\ suggested \subseteq Suggestions
      <3>1. IsFiniteSet({f})
        BY FS_Singleton
      <3> QED BY <2>1, <2>3, <3>1
    <2> QED BY <1>1, <2>2, <2>3
  <1>4. ASSUME NEW field \in Fields
        PROVE  /\ full[field].items \in SUBSET Nat /\ IsFiniteSet(full[field].items)
               /\ full[field].sources \in SUBSET Nat /\ IsFiniteSet(full[field].sources)
               /\ \/ Cardinality(full[field].sources) = Cardinality(full[field].items)
                  \/ /\ field = "open_tasks" /\ full[field].sources = {}
                     /\ full[field].items \subseteq Suggestions
    <2>1. CASE field = "open_tasks" /\ Items(I, n, field) = {}
      <3>1. full[field].items = suggested /\ full[field].sources = {}
        BY <2>1 DEF Full
      <3> QED BY <1>3, <2>1, <3>1, FS_EmptySet
    <2>2. CASE ~(field = "open_tasks" /\ Items(I, n, field) = {})
      <3>1. full[field].items = Items(I, n, field) /\ full[field].sources = Sources(I, n, field)
        BY <2>2 DEF Full
      <3>2. /\ Items(I, n, field) \in SUBSET Nat /\ IsFiniteSet(Items(I, n, field))
            /\ Sources(I, n, field) \in SUBSET Nat /\ IsFiniteSet(Sources(I, n, field))
            /\ Cardinality(Sources(I, n, field)) = Cardinality(Items(I, n, field))
        BY OneSourceEach
      <3> QED BY <3>1, <3>2
    <2> QED BY <2>1, <2>2
  <1> HIDE DEF full
  <1>5. ASSUME NEW field \in Fields
        PROVE  \E k : /\ content[field].items = WithoutLast(full[field].items, k)
                      /\ content[field].sources = WithoutLast(full[field].sources, k)
    <2>1. /\ content[field].items = WithoutLast(full[field].items, Excess(full, K(field)))
          /\ content[field].sources = WithoutLast(full[field].sources, Excess(full, K(field)))
      BY <1>2 DEF Enforce
    <2> HIDE DEF K
    <2> QED BY <2>1
  <1>6. ASSUME NEW field \in Fields
        PROVE  /\ IsFiniteSet(content[field].items)
               /\ \/ Cardinality(content[field].sources) = Cardinality(content[field].items)
                  \/ /\ field = "open_tasks" /\ content[field].sources = {}
                     /\ content[field].items \subseteq Suggestions
    <2>1. PICK k : /\ content[field].items = WithoutLast(full[field].items, k)
                   /\ content[field].sources = WithoutLast(full[field].sources, k)
      BY <1>5
    <2>2. /\ full[field].items \in SUBSET Nat /\ IsFiniteSet(full[field].items)
          /\ full[field].sources \in SUBSET Nat /\ IsFiniteSet(full[field].sources)
      BY <1>4
    <2>3. IsFiniteSet(content[field].items)
      <3>1. \A S \in SUBSET Nat : IsFiniteSet(S) => IsFiniteSet(WithoutLast(S, k))
        BY LeftByPlace
      <3> QED BY <2>1, <2>2, <3>1
    <2>4. CASE Cardinality(full[field].sources) = Cardinality(full[field].items)
      <3>1. \A S, T \in SUBSET Nat :
              IsFiniteSet(S) /\ IsFiniteSet(T) /\ Cardinality(S) = Cardinality(T)
                => Cardinality(WithoutLast(S, k)) = Cardinality(WithoutLast(T, k))
        BY SameCountLeft
      <3> QED BY <2>1, <2>2, <2>3, <2>4, <3>1
    <2>5. CASE /\ field = "open_tasks" /\ full[field].sources = {}
               /\ full[field].items \subseteq Suggestions
      <3>1. content[field].sources = {} /\ content[field].items \subseteq Suggestions
        BY <2>1, <2>5, WithoutLastShrinks
      <3> QED BY <2>3, <2>5, <3>1
    <2> QED BY <1>4, <2>3, <2>4, <2>5
  <1>7. Size(content) \in Nat
    <2>1. ASSUME NEW k \in 1 .. 4 PROVE Count(content, k) \in Nat
      <3>1. FieldOrder[k] \in Fields
        BY DEF Fields
      <3> QED BY <1>6, <3>1, FS_CardinalityType DEF Count
    <2> QED BY <2>1 DEF Size
  <1>8. Size(content) <= Budget
    BY <1>2, <1>7, HandoffAssumption
  <1> QED BY <1>6, <1>8 DEF Counted

(***************************************************************************)
(* The inductive invariant: a handoff that waits to be stored is counted   *)
(* like those that are, and events and records do not share places.        *)
(***************************************************************************)
CountInv ==
  /\ Len(log) <= MaxEvents
  /\ \A r \in Refreshers : refresh[r].step = "stamped" => Counted(refresh[r].content)
  /\ \A h \in handoffs : Counted(h.content)

LEMMA InitCountInv == Init => CountInv
  BY HandoffAssumption DEF Init, CountInv, NoRefresh

LEMMA GotoCounted ==
  ASSUME IInv, CountInv, NEW r \in Refreshers, NEW job, Goto(r, job),
         job.step = "stamped" => Counted(job.content)
  PROVE  \A q \in Refreshers : refresh'[q].step = "stamped" => Counted(refresh'[q].content)
  <1>1. refresh \in [Refreshers -> Job]
    BY DEF IInv, Typed
  <1>2. \A q \in Refreshers : refresh'[q] = IF q = r THEN job ELSE refresh[q]
    BY <1>1 DEF Goto
  <1> QED BY <1>2 DEF CountInv

LEMMA RefreshCounted ==
  ASSUME IInv, CountInv, NEW r \in Refreshers, Refreshing(r)
  PROVE  CountInv'
  <1>0. /\ log' = log /\ refresh[r] \in Job
        /\ refresh[r].seen <= Len(log) /\ refresh[r].recs <= Len(records)
    BY DEF Refreshing, evidence, IInv, Typed, TypeOK
  <1>1. CASE ReadEvents(r)
    <2> DEFINE job == [refresh[r] EXCEPT !.step = "events", !.seen = Len(log)]
    <2>1. job.step = "events" /\ Goto(r, job) /\ handoffs' = handoffs
      BY <1>0, <1>1 DEF ReadEvents, Job
    <2> HIDE DEF job
    <2> QED BY <1>0, <2>1, GotoCounted DEF CountInv
  <1>2. CASE ReadRecords(r)
    <2> DEFINE job == [refresh[r] EXCEPT !.step = "records", !.recs = Len(records)]
    <2>1. job.step = "records" /\ Goto(r, job) /\ handoffs' = handoffs
      BY <1>0, <1>2 DEF ReadRecords, Job
    <2> HIDE DEF job
    <2> QED BY <1>0, <2>1, GotoCounted DEF CountInv
  <1>3. CASE Stamp(r)
    <2>1. PICK content \in Outcomes(EventsRead(r), refresh[r].recs) \ {None} :
            Goto(r, [refresh[r] EXCEPT !.step = "stamped", !.content = content, !.at = clock'])
      BY <1>3 DEF Stamp
    <2> DEFINE job == [refresh[r] EXCEPT !.step = "stamped", !.content = content, !.at = clock']
    <2>2. job.content = content /\ Goto(r, job) /\ handoffs' = handoffs
      BY <1>0, <1>3, <2>1 DEF Stamp, Job
    <2>3. EventsRead(r) \in SUBSET DOMAIN log /\ refresh[r].recs \in 0 .. Len(records)
      <3>1. refresh[r].seen \in Nat /\ refresh[r].recs \in Nat
        BY <1>0 DEF Job
      <3>2. DOMAIN log = 1 .. Len(log) /\ Len(log) \in Nat /\ Len(records) \in Nat
        BY DEF IInv, Typed, TypeOK
      <3> QED BY <1>0, <3>1, <3>2 DEF EventsRead
    <2>4. Counted(content)
      BY <2>3, OutcomeCounted DEF IInv, CountInv
    <2> HIDE DEF job
    <2> QED BY <1>0, <2>2, <2>4, GotoCounted DEF CountInv
  <1>4. CASE Store(r)
    <2>1. Goto(r, NoRefresh) /\ Counted(refresh[r].content)
      BY <1>4 DEF Store, CountInv
    <2>2. \A h \in handoffs' : Counted(h.content)
      BY <1>4, <2>1 DEF Store, CountInv
    <2> QED BY <1>0, <2>1, <2>2, NoRefreshType, GotoCounted DEF CountInv
  <1>5. CASE NothingToShow(r)
    <2>1. Goto(r, NoRefresh) /\ handoffs' = handoffs
      BY <1>5 DEF NothingToShow
    <2> QED BY <1>0, <2>1, NoRefreshType, GotoCounted DEF CountInv
  <1> QED BY <1>1, <1>2, <1>3, <1>4, <1>5 DEF Refreshing

LEMMA BeginCounted ==
  ASSUME IInv, CountInv, NEW r \in Refreshers, ReadMembers(r)
  PROVE  \A q \in Refreshers : refresh'[q].step = "stamped" => Counted(refresh'[q].content)
  <1> DEFINE job == [NoRefresh EXCEPT !.step = "members", !.members = members]
  <1>1. Goto(r, job) /\ job.step = "members"
    BY DEF ReadMembers, NoRefresh
  <1> HIDE DEF job
  <1> QED BY <1>1, GotoCounted

LEMMA NextCounted ==
  ASSUME IInv, CountInv, [Next]_vars
  PROVE  CountInv'
  <1>1. ASSUME NEW s \in Sessions, NEW f \in Facts, AppendEvent(s, f)
        PROVE  CountInv'
    <2>1. /\ Len(log) < MaxEvents /\ log' = Append(log, [session |-> s, fact |-> f])
          /\ UNCHANGED <<handoffs, refresh>>
      BY <1>1 DEF AppendEvent, Elsewhere
    <2>2. Len(log') <= MaxEvents
      <3>1. log \in Seq(Entry) /\ MaxEvents \in Nat
        BY HandoffAssumption DEF IInv, Typed
      <3>2. Len(log') = Len(log) + 1 /\ Len(log) \in Nat
        BY <2>1, <3>1
      <3> QED BY <2>1, <3>1, <3>2
    <2> QED BY <2>1, <2>2 DEF CountInv
  <1>2. ASSUME NEW s \in Sessions, User(s)
        PROVE  CountInv'
    BY <1>2 DEF User, Elsewhere, CountInv
  <1>3. ASSUME NEW r \in Requests, Ask(r)
        PROVE  CountInv'
    <2>1. ReadMembers(r) /\ r \in Refreshers /\ UNCHANGED <<log, handoffs>>
      BY <1>3 DEF Ask, Refreshers, evidence
    <2> QED BY <2>1, BeginCounted DEF CountInv
  <1>4. ASSUME NEW r \in Refreshers, Refreshing(r)
        PROVE  CountInv'
    BY <1>4, RefreshCounted
  <1>5. CASE Pass
    <2>1. UNCHANGED <<log, handoffs>>
      BY <1>5 DEF Pass
    <2>2. CASE RefreshTouched
      <3>1. ReadMembers("pass") /\ "pass" \in Refreshers
        BY <2>2 DEF RefreshTouched, Refreshers
      <3> QED BY <2>1, <3>1, BeginCounted DEF CountInv
    <2>3. CASE UNCHANGED refresh
      BY <2>1, <2>3 DEF CountInv
    <2> QED BY <1>5, <2>2, <2>3 DEF Pass, ReadChanged, ReadMemberships, Place, EndPass
  <1>6. CASE Mcp
    BY <1>6 DEF Mcp, CountInv
  <1>7. CASE Fault
    <2>1. UNCHANGED <<log, handoffs>>
      BY <1>7 DEF Fault, evidence
    <2>2. CASE Restart
      BY <2>1, <2>2, NoRefreshType DEF Restart, CountInv
    <2>3. ASSUME NEW r \in Refreshers, RefreshFails(r)
          PROVE  CountInv'
      <3>1. Goto(r, NoRefresh)
        BY <2>3 DEF RefreshFails
      <3> QED BY <2>1, <3>1, NoRefreshType, GotoCounted DEF CountInv
    <2>4. CASE PassFails
      BY <2>1, <2>4 DEF PassFails, CountInv
    <2> QED BY <1>7, <2>2, <2>3, <2>4 DEF Fault
  <1>8. CASE UNCHANGED vars
    BY <1>8 DEF vars, evidence, CountInv
  <1> QED BY <1>1, <1>2, <1>3, <1>4, <1>5, <1>6, <1>7, <1>8 DEF Next

\* Every stored handoff is within the budget, and each of its fields has as many
\* sources as facts, whatever enforce_budget has removed; only tasks that the
\* model has suggested have none.
THEOREM SourcesAreCounted == Spec => []ProvenanceCounted
  <1>1. CountInv => ProvenanceCounted
    BY DEF CountInv, Counted, ProvenanceCounted
  <1>2. IInv /\ CountInv /\ [Next]_vars => CountInv'
    BY NextCounted
  <1> QED BY <1>1, <1>2, InitCountInv, Invariant, PTL DEF Spec
=============================================================================
