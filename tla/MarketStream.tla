----------------------------- MODULE MarketStream -----------------------------
(***************************************************************************)
(* How one market's committed events reach a page: the NOTIFY hints and the   *)
(* relay (notifications.py), the updates an embedded processor publishes,    *)
(* the broadcaster's queues (broadcast.py), the WebSocket handlers            *)
(* (market_stream, _consume_market_stream), the snapshots they read           *)
(* (market_data.py), and what the page makes of it (App.tsx, market.ts).     *)
(*                                                                         *)
(* The market is the environment here, and as free as MarketLog, which the    *)
(* processors implement: it makes every step MarketLog allows, so what holds  *)
(* here holds of any market that keeps that promise.  A book is known by the  *)
(* sequence of the last command it includes, an outcome by its event id;      *)
(* prices and trades are left out.                                          *)
(*                                                                         *)
(* A notification under way is one the relay has yet to take from its queue;  *)
(* one that a lost connection swallows was sent while the relay was down.     *)
(***************************************************************************)
EXTENDS Integers, Sequences, FiniteSetsExt

CONSTANTS
    Handler,         \* WebSocket handlers
    NoHandler,       \* the link of a page without a socket
    Deployment,      \* where the processors may run: see Inside and Outside
    Disturbance,     \* the kinds of disturbance that may happen
    QueueSize,       \* websocket_queue_size
    RelaySize,       \* maxsize of the relay's queue
    MaxConnections,  \* max_websocket_connections
    ReplayLimit,     \* websocket_replay_limit
    ChannelSize,     \* messages a socket takes before a send waits
    MaxEvent,        \* bound on the ids of market_events
    MaxSequence,     \* bound on the sequences of commands
    MaxDisturbances  \* bound on disturbances

ASSUME StreamAssumption ==
    /\ NoHandler \notin Handler
    /\ QueueSize \in Nat \ {0} /\ RelaySize \in Nat \ {0}
    /\ MaxConnections \in Nat \ {0} /\ ReplayLimit \in Nat \ {0}
    /\ ChannelSize \in Nat \ {0}
    /\ MaxEvent \in Nat /\ MaxSequence \in Nat /\ MaxDisturbances \in Nat

VARIABLES
    deployment,   \* where the processors of this system run; it never changes
    events, lastEvent, lastSequence,  \* the market
    committed,    \* the update an embedded processor has committed, not yet published
    relayUp,      \* does the relay listen?
    hints,        \* the relay's queue: event ids
    queue,        \* each handler's queue in the broadcaster
    handler,      \* each handler: [stage, cursor, sequence]
    channel,      \* messages under way to the page
    page,         \* the page: see NewPage
    answers,      \* REST books under way to the page
    disturbances  \* disturbances so far

market == <<deployment, events, lastEvent, lastSequence>>
relay == <<relayUp, hints>>
svars == <<market, committed, relay, queue, handler, channel, page, answers, disturbances>>

Log == INSTANCE MarketLog

Inside == {"embedded", "mixed"}  \* a processor runs in the API process
Outside == {"worker", "mixed"}   \* a processor runs in a worker

None == -1  \* no cursor, no sequence, no book yet

Latest == Max(DOMAIN events \cup {0})
LatestSequence == IF Latest = 0 THEN 0 ELSE events[Latest]

Idle == [stage |-> "none", cursor |-> None, sequence |-> 0]
Subscribed == {"reading", "waiting"}
Subscribers == {h \in Handler : handler[h].stage \in Subscribed}

(* retry: connect(true) is next.  last, applied and book are the refs         *)
(* lastReceivedEventId, lastEventSequence and lastBookSequence, the last of   *)
(* which always goes with the book; sequence is the number the page shows.    *)
(* outcomes and since are what the page has told its user: the events        *)
(* applied, and the event up to which it need not tell any.                  *)
NewPage ==
    [link |-> NoHandler, retry |-> FALSE, last |-> 0, applied |-> None,
     book |-> None, sequence |-> 0, outcomes |-> {}, since |-> 0]

Update(e, q) == [type |-> "market_update", event |-> e, sequence |-> q]
LiveRefresh(e) == [type |-> "live_refresh_required", event |-> e, sequence |-> 0]
Resync == [type |-> "resync_required", event |-> 0, sequence |-> 0]

Init ==
    /\ deployment \in Deployment
    /\ Log!Init
    /\ committed = <<>>
    /\ relayUp = FALSE /\ hints = <<>>
    /\ queue = [h \in Handler |-> <<>>]
    /\ handler = [h \in Handler |-> Idle]
    /\ channel = <<>>
    /\ page = NewPage
    /\ answers = {}
    /\ disturbances = 0

Disturb(kind) ==
    /\ kind \in Disturbance
    /\ disturbances < MaxDisturbances
    /\ disturbances' = disturbances + 1

-----------------------------------------------------------------------------
(* Processors and the relay *)

(* _received: a full queue loses its oldest hint.                           *)
Received(hs, e) == Append(IF Len(hs) = RelaySize THEN Tail(hs) ELSE hs, e)

(* Other markets and rolled back attempts use ids and sequences too.         *)
FreshEvents == (lastEvent + 1)..MaxEvent
FreshSequences == (lastSequence + 1)..MaxSequence

(* A command's event is committed, and NOTIFY sent with the commit.          *)
Commit(e, q) ==
    /\ Log!Append(e, q)
    /\ lastEvent' = e /\ lastSequence' = q
    /\ hints' = IF relayUp THEN Received(hints, e) ELSE hints
    /\ UNCHANGED <<deployment, relayUp, queue, handler, channel, page, answers>>

CommitByWorker ==
    /\ deployment \in Outside
    /\ \E e \in FreshEvents, q \in FreshSequences : Commit(e, q)
    /\ UNCHANGED <<committed, disturbances>>

(* An embedded processor publishes what it committed before it goes on.      *)
CommitEmbedded ==
    /\ deployment \in Inside /\ committed = <<>>
    /\ \E e \in FreshEvents, q \in FreshSequences :
          Commit(e, q) /\ committed' = <<Update(e, q)>>
    /\ UNCHANGED disturbances

(* The commit succeeds, and the embedded processor sees an exception.        *)
CommitUnheard ==
    /\ deployment \in Inside /\ committed = <<>>
    /\ \E e \in FreshEvents, q \in FreshSequences : Commit(e, q)
    /\ Disturb("unheard")
    /\ UNCHANGED committed

(* publish: a full queue is emptied, and told to resynchronize.             *)
Fanout(update) ==
    [h \in Handler |->
        IF h \notin Subscribers THEN queue[h]
        ELSE IF Len(queue[h]) = QueueSize THEN <<Resync>>
        ELSE Append(queue[h], update)]

PublishUpdate ==
    /\ committed # <<>>
    /\ queue' = Fanout(Head(committed))
    /\ committed' = <<>>
    /\ UNCHANGED <<market, relay, handler, channel, page, answers, disturbances>>

(* The loop of the relay's run.                                             *)
RelayPublish ==
    /\ relayUp /\ hints # <<>>
    /\ queue' = Fanout(LiveRefresh(Head(hints)))
    /\ hints' = Tail(hints)
    /\ UNCHANGED <<market, committed, relayUp, handler, channel, page, answers,
                   disturbances>>

(* The relay connects; it keeps the hints of an earlier connection.          *)
RelayConnect ==
    /\ ~relayUp
    /\ relayUp' = TRUE
    /\ UNCHANGED <<market, committed, hints, queue, handler, channel, page, answers,
                   disturbances>>

RelayDisconnect ==
    /\ relayUp
    /\ Disturb("relay")
    /\ relayUp' = FALSE
    /\ UNCHANGED <<market, committed, hints, queue, handler, channel, page, answers>>

-----------------------------------------------------------------------------
(* The WebSocket handlers *)

(* The handler returns, and its queue leaves the broadcaster.               *)
End(h) ==
    /\ handler' = [handler EXCEPT ![h] = Idle]
    /\ queue' = [queue EXCEPT ![h] = <<>>]

(* A send waits while the socket is full, and raises once the page is gone.  *)
Deliver(h, message, next) ==
    IF page.link = h
    THEN /\ Len(channel) < ChannelSize
         /\ channel' = Append(channel, message)
         /\ handler' = [handler EXCEPT ![h] = next]
         /\ UNCHANGED queue
    ELSE End(h) /\ UNCHANGED channel

(* subscribe, for a page that has been accepted.                            *)
Subscribe(h) ==
    /\ handler[h].stage = "accepted"
    /\ Cardinality(Subscribers) < MaxConnections
    /\ handler' = [handler EXCEPT ![h].stage = "reading"]
    /\ UNCHANGED <<market, committed, relay, queue, channel, page, answers, disturbances>>

Unlinked(p) == [p EXCEPT !.link = NoHandler, !.retry = TRUE]

(* StreamCapacityError: the socket is closed, and the page will retry.       *)
Refuse(h) ==
    /\ handler[h].stage = "accepted"
    /\ Cardinality(Subscribers) >= MaxConnections
    /\ End(h)
    /\ page' = IF page.link = h THEN Unlinked(page) ELSE page
    /\ UNCHANGED <<market, committed, relay, channel, answers, disturbances>>

(* Mutant of Recovered: the oldest missed events are taken.                 *)
RecoveredOldest(after) ==
    {e \in DOMAIN events :
        e > after /\ Cardinality({f \in DOMAIN events : f > after /\ f < e}) < ReplayLimit}

(* recover_market_events: the newest missed events, as many as are replayed. *)
Recovered(after) ==
    {e \in DOMAIN events :
        e > after /\ Cardinality({f \in DOMAIN events : f > e}) < ReplayLimit}

(* Mutant of Snapshot: a commit comes between its book and its event cursor.  *)
SnapshotTorn(after) ==
    LET missed == {e \in DOMAIN events : e > after}
        before == DOMAIN events \ {Latest}
    IN  [type |-> "snapshot", event |-> Latest,
         sequence |-> IF before = {} THEN 0 ELSE events[Max(before)],
         initial |-> after = None,
         recovered |-> IF after = None THEN {} ELSE Recovered(after),
         truncated |-> after # None /\ Cardinality(missed) > ReplayLimit]

(* build_stream_snapshot, in one version of the database.                   *)
Snapshot(after) ==
    LET missed == {e \in DOMAIN events : e > after}
    IN  [type |-> "snapshot", event |-> Latest, sequence |-> LatestSequence,
         initial |-> after = None,
         recovered |-> IF after = None THEN {} ELSE Recovered(after),
         truncated |-> after # None /\ Cardinality(missed) > ReplayLimit]

(* _send_snapshot, and the handler's cursor moves to what it has sent.       *)
SendSnapshot(h) ==
    /\ handler[h].stage = "reading"
    /\ Deliver(h, Snapshot(handler[h].cursor),
               [stage |-> "waiting", cursor |-> Latest, sequence |-> LatestSequence])
    /\ UNCHANGED <<market, committed, relay, page, answers, disturbances>>

(* A marker is taken from the queue.                                        *)
TakeMarker(h) ==
    /\ handler[h].stage = "waiting" /\ queue[h] # <<>>
    /\ Head(queue[h]).type # "market_update"
    /\ handler' = [handler EXCEPT ![h].stage = "reading"]
    /\ queue' = [queue EXCEPT ![h] = Tail(@)]
    /\ UNCHANGED <<market, committed, relay, channel, page, answers, disturbances>>

IsNewEvent(update, cursor) == update.event > cursor

(* An update the cursor has passed is dropped.                              *)
DropUpdate(h) ==
    /\ handler[h].stage = "waiting" /\ queue[h] # <<>>
    /\ Head(queue[h]).type = "market_update"
    /\ ~IsNewEvent(Head(queue[h]), handler[h].cursor)
    /\ queue' = [queue EXCEPT ![h] = Tail(@)]
    /\ UNCHANGED <<market, committed, relay, handler, channel, page, answers,
                   disturbances>>

SendUpdate(h) ==
    /\ handler[h].stage = "waiting" /\ queue[h] # <<>>
    /\ LET update == Head(queue[h])
       IN  /\ update.type = "market_update"
           /\ IsNewEvent(update, handler[h].cursor)
           /\ IF page.link = h
              THEN /\ Len(channel) < ChannelSize
                   /\ channel' = Append(channel, update)
                   /\ handler' = [handler EXCEPT ![h].cursor = update.event,
                                                 ![h].sequence = update.sequence]
                   /\ queue' = [queue EXCEPT ![h] = Tail(@)]
              ELSE End(h) /\ UNCHANGED channel
    /\ UNCHANGED <<market, committed, relay, page, answers, disturbances>>

Heartbeat(h) ==
    [type |-> "heartbeat", event |-> handler[h].cursor, sequence |-> handler[h].sequence]

(* Mutant of FindMissed: only hints and updates move the handler.           *)
FindNever(h) == FALSE

(* No update for heartbeat_seconds: the durable cursor is ahead ...          *)
FindMissed(h) ==
    /\ handler[h].stage = "waiting" /\ queue[h] = <<>>
    /\ Latest > handler[h].cursor
    /\ handler' = [handler EXCEPT ![h].stage = "reading"]
    /\ UNCHANGED <<market, committed, relay, queue, channel, page, answers, disturbances>>

(* Mutant of SendHeartbeat: on a quiet market the handler only waits.        *)
KeepQuiet(h) == FALSE

(* ... or it is not, and a heartbeat is sent.                               *)
SendHeartbeat(h) ==
    /\ handler[h].stage = "waiting" /\ queue[h] = <<>>
    /\ Latest <= handler[h].cursor
    /\ Deliver(h, Heartbeat(h), handler[h])
    /\ UNCHANGED <<market, committed, relay, page, answers, disturbances>>

-----------------------------------------------------------------------------
(* The page *)

(* connect: a reconnecting page resumes after the last event it received.    *)
Connect(h) ==
    /\ page.link = NoHandler
    /\ handler[h].stage = "none"
    /\ page' = [page EXCEPT !.link = h]
    /\ handler' = [handler EXCEPT ![h] =
          [Idle EXCEPT !.stage = "accepted",
                       !.cursor = IF page.retry THEN page.last ELSE None]]
    /\ UNCHANGED <<market, committed, relay, queue, channel, answers, disturbances>>

(* Mutant of shouldApplyBookSnapshot: the last book is not looked at.        *)
ShouldApplyAnyBook(q, p) == q >= p.applied

(* Mutant of shouldApplyBookSnapshot: a strict comparison with the stream.   *)
ShouldApplyLaterBook(q, p) == q > p.applied /\ q > p.book

ShouldApplyBookSnapshot(q, p) == q >= p.applied /\ q > p.book

Larger(a, b) == IF a >= b THEN a ELSE b

(* applyFreshBook                                                           *)
WithBook(p, q) ==
    IF ShouldApplyBookSnapshot(q, p)
    THEN [p EXCEPT !.book = q, !.sequence = Larger(@, q)]
    ELSE p

(* The end of onmessage, for a snapshot or an update that is not ignored.    *)
WithCurrent(p, m) ==
    WithBook([p EXCEPT !.applied = Larger(@, m.sequence),
                       !.sequence = Larger(@, m.sequence),
                       !.last = Larger(@, m.event)],
             m.sequence)

OnHeartbeat(p, m) ==
    [p EXCEPT !.sequence = Larger(@, m.sequence), !.last = Larger(@, m.event)]

(* The outcomes a snapshot brings along come first, and are kept even when    *)
(* its book is older than the stream.                                       *)
WithRecovered(p, m) ==
    LET unseen == {e \in m.recovered : e > p.last}
    IN  [p EXCEPT !.outcomes = @ \cup unseen,
                  !.last = Max({@} \cup unseen),
                  !.since = IF m.initial THEN m.event
                            ELSE IF m.truncated THEN Larger(@, Min(m.recovered) - 1)
                            ELSE @]

OnSnapshot(p, m) ==
    LET told == WithRecovered(p, m)
    IN  IF m.sequence < p.applied THEN told ELSE WithCurrent(told, m)

OnUpdate(p, m) ==
    IF m.event <= p.last \/ m.sequence <= p.applied
    THEN p
    ELSE [WithCurrent(p, m) EXCEPT !.outcomes = @ \cup {m.event}]

Receive ==
    /\ channel # <<>>
    /\ LET m == Head(channel)
       IN  page' = CASE m.type = "heartbeat" -> OnHeartbeat(page, m)
                     [] m.type = "snapshot" -> OnSnapshot(page, m)
                     [] m.type = "market_update" -> OnUpdate(page, m)
    /\ channel' = Tail(channel)
    /\ UNCHANGED <<market, committed, relay, queue, handler, answers, disturbances>>

(* refreshMarket: a REST read of the book, and its answer.                  *)
AskBook ==
    /\ Disturb("rest")
    /\ answers' = answers \cup {LatestSequence}
    /\ UNCHANGED <<market, committed, relay, queue, handler, channel, page>>

AnswerBook ==
    /\ \E q \in answers :
          /\ page' = WithBook(page, q)
          /\ answers' = answers \ {q}
    /\ UNCHANGED <<market, committed, relay, queue, handler, channel, disturbances>>

-----------------------------------------------------------------------------
(* Disturbances *)

(* The socket breaks: what is under way is lost, the handler does not know.  *)
Break ==
    /\ page.link # NoHandler
    /\ Disturb("link")
    /\ page' = Unlinked(page)
    /\ channel' = <<>>
    /\ UNCHANGED <<market, committed, relay, queue, handler, answers>>

(* The page leaves the market and comes back: its refs are reset; answers to  *)
(* earlier questions are still of the market it shows.                      *)
Reopen ==
    /\ Disturb("reopen")
    /\ page' = NewPage
    /\ channel' = <<>>
    /\ UNCHANGED <<market, committed, relay, queue, handler, answers>>

(* The API process dies with everything it holds in memory.                 *)
Restart ==
    /\ Disturb("restart")
    /\ committed' = <<>> /\ relayUp' = FALSE /\ hints' = <<>>
    /\ queue' = [h \in Handler |-> <<>>]
    /\ handler' = [h \in Handler |-> Idle]
    /\ channel' = <<>> /\ answers' = {}
    /\ page' = IF page.link = NoHandler THEN page ELSE Unlinked(page)
    /\ UNCHANGED market

(* Mutant of Reset: TRUNCATE ... RESTART IDENTITY.                          *)
ResetIdentities ==
    /\ Disturb("reset")
    /\ Log!Erase
    /\ lastEvent' = 0 /\ lastSequence' = 0
    /\ UNCHANGED <<deployment, committed, relay, queue, handler, channel, page, answers>>

(* reset_demo_state: the tables are emptied, their identities go on.         *)
Reset ==
    /\ Disturb("reset")
    /\ Log!Erase
    /\ UNCHANGED <<deployment, lastEvent, lastSequence, committed, relay, queue, handler,
                   channel, page, answers>>

-----------------------------------------------------------------------------

Serve(h) ==
    \/ Subscribe(h) \/ Refuse(h) \/ SendSnapshot(h) \/ TakeMarker(h)
    \/ DropUpdate(h) \/ SendUpdate(h) \/ FindMissed(h) \/ SendHeartbeat(h)

Next ==
    \/ CommitByWorker \/ CommitEmbedded \/ CommitUnheard
    \/ PublishUpdate \/ RelayPublish \/ RelayConnect \/ RelayDisconnect
    \/ \E h \in Handler : Serve(h) \/ Connect(h)
    \/ Receive \/ AskBook \/ AnswerBook
    \/ Break \/ Reopen \/ Restart \/ Reset

Spec == Init /\ [][Next]_svars

(* Handlers are served and heartbeats come; the page reads what arrives and   *)
(* reconnects.  Nothing is asked of the relay, of the publications, or of     *)
(* the REST answers: hints may all be late.                                 *)
FairSpec ==
    /\ Spec
    /\ \A h \in Handler : WF_svars(Serve(h))
    /\ WF_svars(Receive)
    /\ WF_svars(\E h \in Handler : Connect(h))

-----------------------------------------------------------------------------
(* Properties *)

(* The types of the state; queues and the channel stay within their sizes.    *)
TypeOK ==
    /\ DOMAIN events \subseteq 1..lastEvent
    /\ \A e \in DOMAIN events : events[e] \in 1..lastSequence
    /\ lastEvent \in 0..MaxEvent /\ lastSequence \in 0..MaxSequence
    /\ Len(committed) <= 1
    /\ relayUp \in BOOLEAN /\ Len(hints) <= RelaySize
    /\ \A h \in Handler :
          /\ Len(queue[h]) <= QueueSize
          /\ handler[h].stage \in {"none", "accepted"} \cup Subscribed
          /\ handler[h].stage \notin Subscribed => queue[h] = <<>>
          /\ handler[h].cursor \in None..MaxEvent
    /\ Cardinality(Subscribers) <= MaxConnections
    /\ Len(channel) <= ChannelSize
    /\ page.link \in Handler \cup {NoHandler}
    /\ page.book \in None..lastSequence /\ page.applied \in None..lastSequence
    /\ answers \subseteq 0..lastSequence
    /\ disturbances \in 0..MaxDisturbances

(* The sequence a page shows beside the book is the sequence of that book,    *)
(* whatever order REST answers, snapshots, updates and heartbeats come in.    *)
SequenceOfBook == page.sequence = Larger(page.book, 0)

(* As long as it is not opened anew, a page never shows an older book than    *)
(* before, and never resumes from an earlier event: not across reconnects,   *)
(* restarts of the API or resets of the market.                             *)
NeverBack ==
    [][page' # NewPage => page'.book >= page.book /\ page'.last >= page.last]_svars

(* A page never resumes after an event that its book does not include: the    *)
(* two are moved by four kinds of messages, in branches that each may leave   *)
(* one of them alone, and after a cursor that had run ahead no snapshot, no    *)
(* replay and no heartbeat would ask for the missing book again.             *)
BookIncludesLast ==
    \A e \in DOMAIN events : e <= page.last => events[e] <= page.book

(* recovered_events restore missed command outcomes (domain-contract.md:88),  *)
(* and a missed notification is a latency event, not a data-loss event        *)
(* (architecture.md:103).  A page has been told every outcome up to the event *)
(* it resumes after, but those before it was opened, and those it was told    *)
(* are beyond the replay.                                                   *)
OutcomesTold ==
    \A e \in DOMAIN events :
        e > page.since /\ e <= page.last => e \in page.outcomes

(* Once no more is committed, and disturbances end, the page shows the        *)
(* market's latest book for good, though every hint and update be late or     *)
(* lost.  An erased market without a new event sends nothing.               *)
CatchesUp ==
    <>[](events # Log!NoEvents => page.book = LatestSequence /\ page.last = Latest)

(* The place of a page that is gone becomes free, on a quiet market too.      *)
PlacesReturn ==
    \A h \in Handler :
        handler[h].stage \in Subscribed /\ page.link # h ~> handler[h].stage \notin Subscribed
=============================================================================
