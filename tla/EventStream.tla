---------------------------- MODULE EventStream ----------------------------
(***************************************************************************)
(* The live event stream (GET /api/v1/events/stream) and the timeline of   *)
(* one native session that the web client builds from it.                  *)
(*                                                                         *)
(* The ingestion loop commits a batch of local events and then publishes   *)
(* them one by one; events of remote collectors are committed by another   *)
(* listener and never published.  A connection reads the stored history,   *)
(* subscribes, sends the history after the client's last id and then what  *)
(* was published, until it lags behind the bounded channel.  The client    *)
(* merges what it receives into a page it has loaded, and connects again   *)
(* whenever that list changes, a connection ends, or one breaks.           *)
(*                                                                         *)
(* Data abstraction: an event is its rank in the total order of            *)
(* sorted_events (timestamp, sequence, ..., id); 0 is "no event id".       *)
(* Sending an item and receiving it are one step: what a broken connection *)
(* had in transit is lost with what it had not yet sent.                   *)
(***************************************************************************)
EXTENDS Naturals, Sequences, FiniteSets, SequencesExt, FiniteSetsExt

CONSTANTS
  Mine,        \* events of the session that the timeline shows
  Others,      \* events of other sessions
  Capacity,    \* places in the broadcast channel
  PageSize,    \* events on a page
  MaxReplays,  \* bound: batches that repeat a stored event
  MaxPages,    \* bound: times the page is loaded
  MaxBreaks    \* bound: broken connections and daemon restarts

Events == Mine \cup Others

ASSUME EventStreamAssumption ==
  /\ Events \subseteq Nat \ {0} /\ IsFiniteSet(Events)
  /\ Mine \cap Others = {}
  /\ {Capacity, PageSize} \subseteq Nat \ {0}
  /\ {MaxReplays, MaxPages, MaxBreaks} \subseteq Nat

VARIABLES
  stored,  \* table native_events
  outbox,  \* the committed batch that the ingestion loop is publishing
  stream,  \* the client's connection and its receiver
  resume,  \* consumeEventStream: the id that the next connection sends
  items,   \* the timeline: the cached list of the session's events
  stale,   \* the list has changed and the subscription has not followed yet
  pages,   \* the page on its way to the client, if any
  spent,   \* counters for the bounds
  dropped, \* history: what a page took off the list since it was last followed
  hidden,  \* history: what a page took off and an event received since then hides
  gaps     \* history: the events that no connection has to deliver any more

client == <<resume, items, stale, pages, dropped, hidden>>
vars == <<stored, outbox, stream, client, spent, gaps>>

NoId == 0
Id   == Events \cup {NoId}

Off == [at |-> "off", history |-> <<>>, queue |-> <<>>, lagged |-> FALSE, last |-> NoId]

-----------------------------------------------------------------------------
(***************************************************************************)
(* Listings.                                                               *)
(***************************************************************************)
SortedEvents(S) ==
  CHOOSE list \in [1 .. Cardinality(S) -> S] :
    \A i, j \in DOMAIN list : i < j => list[i] < list[j]

AfterId(S, id) == { e \in S : e > id }

\* page_events: the first n events of S.
PageOf(S, n) == { e \in S : Cardinality({ f \in S : f < e }) < n }

LastItem(S) == IF S = {} THEN NoId ELSE Max(S)

-----------------------------------------------------------------------------
(***************************************************************************)
(* Ingestion.                                                              *)
(***************************************************************************)
Connected == stream.at \in {"read", "open"}

\* Events of a batch that sort before one that is already stored, or before
\* one that their own batch publishes first.
Late(batch) ==
  { batch[i] : i \in { j \in DOMAIN batch :
      /\ batch[j] \notin stored
      /\ \/ \E e \in stored : e > batch[j]
         \/ \E k \in 1 .. (j - 1) : batch[k] > batch[j] } }

\* A local import commits a batch.  A source that is read again repeats events.
CommitBatch(batch) ==
  LET repeats == \E e \in Range(batch) : e \in stored IN
  /\ outbox = <<>>
  /\ repeats => spent.replays < MaxReplays
  /\ stored' = stored \cup Range(batch)
  /\ outbox' = batch
  /\ gaps' = gaps \cup Late(batch)
  /\ spent' = [spent EXCEPT !.replays = IF repeats THEN @ + 1 ELSE @]
  /\ UNCHANGED <<stream, client>>

\* A collector's event: stored, and not published.
CommitRemote(e) ==
  /\ e \notin stored
  /\ stored' = stored \cup {e}
  /\ gaps' = gaps \cup Late(<<e>>) \cup (IF Connected THEN {e} ELSE {})
  /\ UNCHANGED <<outbox, stream, client, spent>>

\* A full channel drops its oldest event for every receiver that still needs it.
Send(queue, e) ==
  IF Len(queue) < Capacity THEN Append(queue, e) ELSE Append(Tail(queue), e)

\* publish: a connection that has read the history and not yet subscribed
\* has neither.
Publish ==
  /\ outbox # <<>>
  /\ LET e == Head(outbox) IN
     /\ stream' = IF stream.at # "open" THEN stream
                  ELSE [stream EXCEPT !.queue = Send(@, e),
                                      !.lagged = @ \/ Len(stream.queue) >= Capacity]
     /\ gaps' = IF /\ stream.at = "read"
                   /\ e \notin Range(stream.history) \cup items
                THEN gaps \cup {e} ELSE gaps
  /\ outbox' = Tail(outbox)
  /\ UNCHANGED <<stored, client, spent>>

-----------------------------------------------------------------------------
(***************************************************************************)
(* The connection.                                                         *)
(***************************************************************************)
Connect ==
  /\ stream.at = "off"
  /\ stream' = [Off EXCEPT !.at = "asked", !.last = resume]
  /\ UNCHANGED <<stored, outbox, client, spent, gaps>>

\* An unknown id is refused, whatever the client does next.
ReadHistory ==
  /\ stream.at = "asked"
  /\ resume # NoId => resume \in stored
  /\ stream' = [stream EXCEPT !.at = "read",
                              !.history = SortedEvents(AfterId(stored, resume))]
  /\ UNCHANGED <<stored, outbox, client, spent, gaps>>

Subscribe ==
  /\ stream.at = "read"
  /\ stream' = [stream EXCEPT !.at = "open"]
  /\ UNCHANGED <<stored, outbox, client, spent, gaps>>

\* readSse and mergeChronologicalEvents: events of other sessions are ignored.
\* The list is resumed after its last event, which may be one that follows what a
\* page has taken off.
Receive(e) ==
  /\ items' = items \cup ({e} \cap Mine)
  /\ stale' = (stale \/ e \in Mine \ items)
  /\ dropped' = dropped \ {e}
  /\ hidden' = IF e \in Mine THEN (hidden \ {e}) \cup { f \in dropped : f < e } ELSE hidden
  /\ UNCHANGED <<stored, outbox, resume, pages, spent, gaps>>

SendHistory ==
  /\ stream.at = "open"
  /\ stream.history # <<>>
  /\ stream' = [stream EXCEPT !.history = Tail(@), !.last = Head(stream.history)]
  /\ Receive(Head(stream.history))

SendLive ==
  /\ stream.at = "open"
  /\ stream.history = <<>> /\ ~stream.lagged /\ stream.queue # <<>>
  /\ stream' = [stream EXCEPT !.queue = Tail(@), !.last = Head(stream.queue)]
  /\ Receive(Head(stream.queue))

\* Slip: the receiver goes on with what the channel still has.
SkipLagged ==
  /\ stream.at = "open"
  /\ stream.history = <<>> /\ stream.lagged
  /\ stream' = [stream EXCEPT !.lagged = FALSE]
  /\ UNCHANGED <<stored, outbox, client, spent, gaps>>

\* recv reports the lag before anything that is left, and the stream ends.
EndLagged ==
  /\ stream.at = "open"
  /\ stream.history = <<>> /\ stream.lagged
  /\ stream' = Off
  /\ resume' = stream.last
  /\ UNCHANGED <<stored, outbox, items, stale, pages, dropped, hidden, spent, gaps>>

\* The id of a stream that failed instead of ending is the one it began with.
Break ==
  /\ stream.at # "off"
  /\ spent.breaks < MaxBreaks
  /\ stream' = Off
  /\ resume' \in {resume, stream.last}
  /\ spent' = [spent EXCEPT !.breaks = @ + 1]
  /\ UNCHANGED <<stored, outbox, items, stale, pages, dropped, hidden, gaps>>

\* What was committed and not published is not published any more.
Restart ==
  /\ spent.breaks < MaxBreaks
  /\ stream' = Off
  /\ resume' \in {resume, IF stream.at = "off" THEN resume ELSE stream.last}
  /\ outbox' = <<>>
  /\ pages' = {}
  /\ spent' = [spent EXCEPT !.breaks = @ + 1]
  /\ UNCHANGED <<stored, items, stale, dropped, hidden, gaps>>

-----------------------------------------------------------------------------
(***************************************************************************)
(* The timeline.                                                           *)
(***************************************************************************)
\* listEvents asks for the first page of the session, once and on refocus.
ReadPage ==
  /\ pages = {}
  /\ spent.pages < MaxPages
  /\ pages' = {PageOf(Mine \cap stored, PageSize)}
  /\ spent' = [spent EXCEPT !.pages = @ + 1]
  /\ UNCHANGED <<stored, outbox, stream, resume, items, stale, dropped, hidden, gaps>>

\* The page replaces the list, with all that the stream has added to it.
ShowPage ==
  \E page \in pages :
    /\ items' = page
    /\ stale' = (stale \/ page # items)
    /\ dropped' = (dropped \cup items) \ page
    /\ hidden' = hidden \ page
    /\ pages' = {}
    /\ UNCHANGED <<stored, outbox, stream, resume, spent, gaps>>

\* Slip: the new subscription follows the last one instead of the list.
ResubscribeFromLast ==
  /\ stale
  /\ stale' = FALSE
  /\ resume' = IF stream.at = "off" THEN resume ELSE stream.last
  /\ stream' = Off
  /\ dropped' = {}
  /\ UNCHANGED <<stored, outbox, items, pages, hidden, spent, gaps>>

\* The effect runs again: it aborts the subscription and makes another, from
\* the last item of the list.
Resubscribe ==
  /\ stale
  /\ stale' = FALSE
  /\ resume' = LastItem(items)
  /\ stream' = Off
  /\ dropped' = {}
  /\ UNCHANGED <<stored, outbox, items, pages, hidden, spent, gaps>>

-----------------------------------------------------------------------------
Init ==
  /\ stored = {}
  /\ outbox = <<>>
  /\ stream = Off
  /\ resume = NoId
  /\ items = {}
  /\ stale = FALSE
  /\ pages = {}
  /\ dropped = {} /\ hidden = {}
  /\ spent = [replays |-> 0, pages |-> 0, breaks |-> 0]
  /\ gaps = {}

Batches == { <<e>> : e \in Events } \cup { b \in Events \X Events : b[1] # b[2] }

Import == \E batch \in Batches : CommitBatch(batch)
ImportRemote == \E e \in Events : CommitRemote(e)

Serve == ReadHistory \/ Subscribe \/ SendHistory \/ SendLive \/ EndLagged

Next ==
  \/ Import \/ ImportRemote \/ Publish
  \/ Connect \/ Serve \/ Break \/ Restart
  \/ ReadPage \/ ShowPage \/ Resubscribe

\* The ingestion loop publishes what it has committed, the client connects
\* again, the server answers and the client renders.
Fairness ==
  /\ WF_vars(Publish)
  /\ WF_vars(Connect)
  /\ WF_vars(Serve)
  /\ WF_vars(ShowPage)
  /\ WF_vars(Resubscribe)

Spec == Init /\ [][Next]_vars /\ Fairness

-----------------------------------------------------------------------------
(***************************************************************************)
(* Properties.                                                             *)
(***************************************************************************)
TypeOK ==
  /\ stored \subseteq Events /\ gaps \cup dropped \cup hidden \subseteq stored
  /\ outbox \in BoundedSeq(stored, 2)
  /\ stream.at \in {"off", "asked", "read", "open"}
  /\ Range(stream.history) \subseteq stored
  /\ stream.queue \in BoundedSeq(stored, Capacity)
  /\ {resume, stream.last} \subseteq stored \cup {NoId}
  /\ items \subseteq Mine \cap stored
  /\ stale \in BOOLEAN
  /\ \A page \in pages : page \subseteq Mine \cap stored
  /\ spent \in [replays : 0 .. MaxReplays, pages : 0 .. MaxPages, breaks : 0 .. MaxBreaks]

\* The id after which the client will have everything sent again, if it
\* connects once more.
NextResume ==
  IF stale THEN LastItem(items)
  ELSE IF stream.at = "open" THEN stream.last ELSE resume

\* An event that will reach the client without another event being stored.
Due(e) ==
  \/ e \in Range(outbox)
  \/ stream.at # "open" /\ e > NextResume
  \/ stream.at = "read" /\ e \in Range(stream.history)
  \/ stale /\ e > LastItem(items)
  \/ /\ stream.at = "open"
     /\ \/ e \in Range(stream.history) \cup Range(stream.queue)
        \/ stream.lagged /\ e > stream.last

(***************************************************************************)
(* The timeline misses four kinds of events.  Three a connection has no    *)
(* way to deliver (gaps): an event that sorts before one stored earlier, a *)
(* remote event stored while the client is connected, and one published    *)
(* between the reading of the history and the subscription.  The fourth    *)
(* the client loses itself (hidden): a page takes an event off the list,   *)
(* and before the effect has followed the list the old subscription adds a *)
(* later one, after which the new one resumes (App.tsx:204-225).  Lagging, *)
(* broken connections, daemon restarts before the publication, repeated    *)
(* batches and the client's other reconnections lose nothing.              *)
(***************************************************************************)
OnlyKnownGaps == \A e \in (Mine \cap stored) \ (gaps \cup hidden \cup items) : Due(e)

(***************************************************************************)
(* Every event but those four kinds is shown in the end, also when a page  *)
(* has taken it off the list and the effect has followed the list at once. *)
(***************************************************************************)
Shown ==
  \A e \in Mine :
    [](e \in stored \ (gaps \cup hidden) => <>(e \in items \cup gaps \cup hidden))

(***************************************************************************)
(* "page --> merge" (docs/ui/session-timeline.md:12): a page is merged     *)
(* with what the stream has delivered, so it hides no event for good.      *)
(***************************************************************************)
PagesKeepEvents == \A e \in Mine : [](e \in stored \ gaps => <>(e \in items \cup gaps))
=============================================================================
