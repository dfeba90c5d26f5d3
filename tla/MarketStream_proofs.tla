------------------------- MODULE MarketStream_proofs -------------------------
(***************************************************************************)
(* Theorems about MarketStream, for any number of handlers, any sizes of the  *)
(* queues and of the socket, any replay limit and any disturbances.          *)
(***************************************************************************)
EXTENDS MarketStream, FiniteSetTheorems, SequenceTheorems, TLAPS

QueueItem ==
    [type : {"market_update", "live_refresh_required", "resync_required"},
     event : Nat, sequence : Nat]
UpdateMessage == [type : {"market_update"}, event : Nat, sequence : Nat]
HeartbeatMessage == [type : {"heartbeat"}, event : Int, sequence : Nat]
SnapshotMessage ==
    {m \in [type : {"snapshot"}, event : Nat, sequence : Nat, initial : BOOLEAN,
            recovered : SUBSET (1..MaxEvent), truncated : BOOLEAN] :
        m.truncated => m.recovered # {}}
Message == UpdateMessage \cup HeartbeatMessage \cup SnapshotMessage

HandlerState ==
    [stage : {"none", "accepted", "reading", "waiting"}, cursor : Int, sequence : Nat]

PageState ==
    [link : Handler \cup {NoHandler}, retry : BOOLEAN, last : Int, applied : Int,
     book : Int, sequence : Int, outcomes : SUBSET Int, since : Int]

MarketTypes ==
    /\ lastEvent \in 0..MaxEvent /\ lastSequence \in 0..MaxSequence
    /\ DOMAIN events \subseteq 1..MaxEvent
    /\ events \in [DOMAIN events -> Nat]

Types ==
    /\ MarketTypes
    /\ committed \in Seq(UpdateMessage)
    /\ hints \in Seq(Nat)
    /\ queue \in [Handler -> Seq(QueueItem)]
    /\ handler \in [Handler -> HandlerState]
    /\ channel \in Seq(Message)
    /\ page \in PageState
    /\ answers \subseteq Nat

-----------------------------------------------------------------------------
(* A set of integers with an upper bound has a greatest element.             *)
LEMMA MaxOfBounded ==
  ASSUME NEW S \in SUBSET Int, S # {}, NEW n \in Int, \A x \in S : x <= n
  PROVE  Max(S) \in S /\ \A x \in S : Max(S) >= x
<1> DEFINE T == {k \in Nat : \E x \in S : k = n - x}
<1>1. T \subseteq Nat /\ T # {}
  <2>1. PICK x \in S : x \in Int /\ x <= n
    OBVIOUS
  <2>2. n - x \in T
    BY <2>1
  <2> QED BY <2>2
<1>2. PICK t \in T : \A u \in T : <<u, t>> \notin OpToRel(<, Nat)
  <2> HIDE DEF T
  <2> QED BY <1>1, NatLessThanWellFounded, WFMin
<1>3. ASSUME NEW u \in T PROVE u >= t
  <2>1. u \in Nat /\ t \in Nat
    BY <1>1
  <2>2. ~(u < t)
    <3> HIDE DEF T
    <3> QED BY <1>2, <2>1, Zenon DEF OpToRel
  <2> QED BY <2>1, <2>2
<1>4. PICK m \in S : t = n - m
  OBVIOUS
<1>5. ASSUME NEW x \in S PROVE m >= x
  <2>1. x \in Int /\ m \in Int /\ n - x \in T
    OBVIOUS
  <2>2. n - x >= n - m
    BY <1>3, <1>4, <2>1
  <2> QED BY <2>1, <2>2
<1> QED BY <1>5 DEF Max

(* The latest event and its sequence are numbers.                           *)
LEMMA LatestTypes ==
  ASSUME StreamAssumption, MarketTypes
  PROVE  Latest \in 0..MaxEvent /\ LatestSequence \in Nat
<1>1. MaxEvent \in Nat BY DEF StreamAssumption
<1>2. Latest \in DOMAIN events \cup {0}
  <2> DEFINE S == DOMAIN events \cup {0}
  <2>1. S \in SUBSET Int /\ S # {} /\ \A x \in S : x <= MaxEvent
    BY <1>1 DEF MarketTypes
  <2> HIDE DEF S
  <2>2. Max(S) \in S
    BY <1>1, <2>1, MaxOfBounded
  <2> QED BY <2>2 DEF Latest, S
<1> QED BY <1>1, <1>2 DEF LatestSequence, MarketTypes

LEMMA MinOfNumbers ==
  ASSUME NEW S \in SUBSET Nat, S # {}
  PROVE  Min(S) \in S
<1>1. PICK m \in S : \A x \in S : <<x, m>> \notin OpToRel(<, Nat)
  BY NatLessThanWellFounded, WFMin
<1>2. ASSUME NEW x \in S PROVE m <= x
  <2>1. x \in Nat /\ m \in Nat
    OBVIOUS
  <2>2. ~(x < m)
    BY <1>1, <2>1, Zenon DEF OpToRel
  <2> QED BY <2>1, <2>2
<1> QED BY <1>2 DEF Min

(* If more was missed than is replayed, something is replayed.               *)
LEMMA RecoveredOfMissed ==
  ASSUME StreamAssumption, MarketTypes, NEW after \in Int,
         Cardinality({e \in DOMAIN events : e > after}) > ReplayLimit
  PROVE  Recovered(after) # {}
<1> DEFINE missed == {e \in DOMAIN events : e > after}
<1>1. MaxEvent \in Nat /\ ReplayLimit \in Nat \ {0} BY DEF StreamAssumption
<1>2. missed # {}
  BY <1>1, FS_EmptySet
<1>3. /\ Max(missed) \in missed
      /\ \A e \in missed : Max(missed) >= e
  <2>1. missed \in SUBSET Int /\ \A e \in missed : e <= MaxEvent
    BY <1>1 DEF MarketTypes
  <2> HIDE DEF missed
  <2> QED BY <1>1, <1>2, <2>1, MaxOfBounded
<1>4. {f \in DOMAIN events : f > Max(missed)} = {}
  <2> SUFFICES ASSUME NEW f \in DOMAIN events, f > Max(missed) PROVE FALSE
    OBVIOUS
  <2>1. f \in Int /\ Max(missed) \in Int /\ Max(missed) > after
    BY <1>1, <1>3 DEF MarketTypes
  <2>2. f \in missed
    BY <2>1
  <2> QED BY <1>3, <2>1, <2>2
<1>5. Cardinality({f \in DOMAIN events : f > Max(missed)}) < ReplayLimit
  BY <1>1, <1>4, FS_EmptySet
<1>6. Max(missed) \in DOMAIN events /\ Max(missed) > after
  BY <1>3
<1> QED BY <1>5, <1>6 DEF Recovered

LEMMA SnapshotTypes ==
  ASSUME StreamAssumption, MarketTypes, NEW after \in Int
  PROVE  Snapshot(after) \in SnapshotMessage
<1> DEFINE m == Snapshot(after)
<1>1. /\ m.type = "snapshot" /\ m.initial \in BOOLEAN /\ m.truncated \in BOOLEAN
      /\ m.event \in Nat /\ m.sequence \in Nat
  BY LatestTypes DEF Snapshot, StreamAssumption
<1>2. m.recovered \in SUBSET (1..MaxEvent)
  BY DEF Snapshot, Recovered, MarketTypes
<1>3. m.truncated => m.recovered # {}
  BY RecoveredOfMissed DEF Snapshot
<1>4. m = [type |-> m.type, event |-> m.event, sequence |-> m.sequence,
           initial |-> m.initial, recovered |-> m.recovered,
           truncated |-> m.truncated]
  BY DEF Snapshot
<1> HIDE DEF m
<1>5. m \in SnapshotMessage
  BY <1>1, <1>2, <1>3, <1>4 DEF SnapshotMessage
<1> QED BY <1>5 DEF m

-----------------------------------------------------------------------------
(* What a message or an answer does to the page                              *)

LEMMA PageWithBook ==
  ASSUME NEW p \in PageState, NEW b \in Int, NEW s \in Int
  PROVE  LET r == [p EXCEPT !.book = b, !.sequence = s]
         IN  r \in PageState /\ r.book = b /\ r.last = p.last
  BY DEF PageState

LEMMA PageWithOutcomes ==
  ASSUME NEW p \in PageState, NEW o \in SUBSET Int
  PROVE  LET r == [p EXCEPT !.outcomes = o]
         IN  r \in PageState /\ r.book = p.book /\ r.last = p.last
  BY DEF PageState

LEMMA WithBookForward ==
  ASSUME NEW p \in PageState, NEW q \in Nat
  PROVE  /\ WithBook(p, q) \in PageState
         /\ WithBook(p, q).book >= p.book
         /\ WithBook(p, q).last = p.last
<1>1. p.sequence \in Int /\ p.book \in Int /\ p.applied \in Int
  BY DEF PageState
<1>2. Larger(p.sequence, q) \in Int
  BY <1>1 DEF Larger
<1>3. CASE ShouldApplyBookSnapshot(q, p)
  <2> DEFINE n == [p EXCEPT !.book = q, !.sequence = Larger(@, q)]
  <2>1. WithBook(p, q) = n
    BY <1>3 DEF WithBook
  <2>2. n \in PageState /\ n.book = q /\ n.last = p.last
    <3> DEFINE s == Larger(p.sequence, q)
    <3>1. n = [p EXCEPT !.book = q, !.sequence = s]
      OBVIOUS
    <3>2. s \in Int /\ q \in Int
      BY <1>2
    <3> HIDE DEF s, n
    <3>3. LET r == [p EXCEPT !.book = q, !.sequence = s]
          IN  r \in PageState /\ r.book = q /\ r.last = p.last
      BY <3>2, PageWithBook
    <3> QED BY <3>1, <3>3
  <2>3. q >= p.book
    BY <1>1, <1>3 DEF ShouldApplyBookSnapshot
  <2> QED BY <2>1, <2>2, <2>3
<1>4. CASE ~ShouldApplyBookSnapshot(q, p)
  BY <1>1, <1>4 DEF WithBook, PageState
<1> QED BY <1>3, <1>4

LEMMA WithCurrentForward ==
  ASSUME NEW p \in PageState, NEW m, m.event \in Int, m.sequence \in Nat
  PROVE  /\ WithCurrent(p, m) \in PageState
         /\ WithCurrent(p, m).book >= p.book
         /\ WithCurrent(p, m).last >= p.last
<1> DEFINE n == [p EXCEPT !.applied = Larger(@, m.sequence),
                          !.sequence = Larger(@, m.sequence),
                          !.last = Larger(@, m.event)]
<1>1. p.sequence \in Int /\ p.book \in Int /\ p.applied \in Int /\ p.last \in Int
  BY DEF PageState
<1>2. /\ Larger(p.applied, m.sequence) \in Int
      /\ Larger(p.sequence, m.sequence) \in Int
      /\ Larger(p.last, m.event) \in Int
      /\ Larger(p.last, m.event) >= p.last
  BY <1>1 DEF Larger
<1>3. n \in PageState /\ n.book = p.book /\ n.last >= p.last
  BY <1>1, <1>2 DEF PageState
<1>4. WithCurrent(p, m) = WithBook(n, m.sequence)
  BY DEF WithCurrent
<1> HIDE DEF n
<1> QED BY <1>3, <1>4, WithBookForward

LEMMA WithRecoveredForward ==
  ASSUME StreamAssumption, NEW p \in PageState, NEW m \in SnapshotMessage
  PROVE  /\ WithRecovered(p, m) \in PageState
         /\ WithRecovered(p, m).book = p.book
         /\ WithRecovered(p, m).applied = p.applied
         /\ WithRecovered(p, m).last >= p.last
<1> DEFINE unseen == {e \in m.recovered : e > p.last}
           since == IF m.initial THEN m.event
                    ELSE IF m.truncated THEN Larger(p.since, Min(m.recovered) - 1)
                    ELSE p.since
<1>1. MaxEvent \in Nat BY DEF StreamAssumption
<1>2. /\ m.recovered \in SUBSET (1..MaxEvent) /\ m.event \in Nat
      /\ m.truncated => m.recovered # {}
  BY DEF SnapshotMessage
<1>3. p.last \in Int /\ p.since \in Int /\ p.outcomes \in SUBSET Int
  BY DEF PageState
<1>4. Max({p.last} \cup unseen) \in Int /\ Max({p.last} \cup unseen) >= p.last
  <2>1. \E n \in Int : \A x \in {p.last} \cup unseen : x <= n
    <3>1. CASE p.last <= MaxEvent BY <1>1, <1>2, <1>3, <3>1
    <3>2. CASE ~(p.last <= MaxEvent) BY <1>1, <1>2, <1>3, <3>2
    <3> QED BY <3>1, <3>2
  <2>2. {p.last} \cup unseen \in SUBSET Int
    BY <1>1, <1>2, <1>3
  <2> HIDE DEF unseen
  <2> QED BY <2>1, <2>2, MaxOfBounded
<1>5. since \in Int
  <2>1. m.truncated => Min(m.recovered) \in Int
    <3>1. m.recovered \in SUBSET Nat BY <1>1, <1>2
    <3> QED BY <1>2, <3>1, MinOfNumbers
  <2>2. m.truncated => Larger(p.since, Min(m.recovered) - 1) \in Int
    BY <1>3, <2>1 DEF Larger
  <2> QED BY <1>2, <1>3, <2>2
<1>6. WithRecovered(p, m) = [p EXCEPT !.outcomes = p.outcomes \cup unseen,
                                      !.last = Max({p.last} \cup unseen),
                                      !.since = since]
  BY DEF WithRecovered, PageState
<1>7. p.outcomes \cup unseen \in SUBSET Int
  BY <1>1, <1>2, <1>3
<1> HIDE DEF unseen, since
<1> QED BY <1>4, <1>5, <1>6, <1>7 DEF PageState

LEMMA ReceiveForward ==
  ASSUME StreamAssumption, Types, Receive
  PROVE  /\ page' \in PageState
         /\ page'.book >= page.book /\ page'.last >= page.last
         /\ channel' \in Seq(Message)
<1> DEFINE m == Head(channel)
<1>1. channel # <<>> /\ channel \in Seq(Message) /\ page \in PageState
  BY DEF Receive, Types
<1>2. m \in Message /\ channel' \in Seq(Message)
  BY <1>1, HeadTailProperties DEF Receive
<1> HIDE DEF m
<1>3. CASE m \in HeartbeatMessage
  <2>1. page' = OnHeartbeat(page, m)
    BY <1>3 DEF Receive, HeartbeatMessage, m
  <2>2. m.event \in Int /\ m.sequence \in Int
    BY <1>3 DEF HeartbeatMessage
  <2>3. page.sequence \in Int /\ page.last \in Int /\ page.book \in Int
    BY <1>1 DEF PageState
  <2>4. /\ Larger(page.sequence, m.sequence) \in Int
        /\ Larger(page.last, m.event) \in Int
        /\ Larger(page.last, m.event) >= page.last
    BY <2>2, <2>3 DEF Larger
  <2>5. page' = [page EXCEPT !.sequence = Larger(page.sequence, m.sequence),
                             !.last = Larger(page.last, m.event)]
    BY <2>1 DEF OnHeartbeat
  <2>6. /\ page' \in PageState /\ page'.book = page.book
        /\ page'.last = Larger(page.last, m.event)
    <3> DEFINE s == Larger(page.sequence, m.sequence)
               l == Larger(page.last, m.event)
    <3>1. s \in Int /\ l \in Int
      BY <2>4
    <3>2. page' = [page EXCEPT !.sequence = s, !.last = l]
      BY <2>5
    <3> HIDE DEF s, l
    <3>3. LET r == [page EXCEPT !.sequence = s, !.last = l]
          IN  r \in PageState /\ r.book = page.book /\ r.last = l
      BY <1>1, <3>1 DEF PageState
    <3>4. page' \in PageState /\ page'.book = page.book /\ page'.last = l
      BY <3>2, <3>3
    <3> QED BY <3>4 DEF l
  <2> QED BY <1>2, <2>3, <2>4, <2>6
<1>4. CASE m \in SnapshotMessage
  <2> DEFINE told == WithRecovered(page, m)
  <2>1. page' = OnSnapshot(page, m)
    BY <1>4 DEF Receive, SnapshotMessage, m
  <2>2. m.event \in Int /\ m.sequence \in Nat
    BY <1>4 DEF SnapshotMessage
  <2>3. told \in PageState /\ told.book = page.book /\ told.last >= page.last
    BY <1>1, <1>4, WithRecoveredForward
  <2>4. page' = told \/ page' = WithCurrent(told, m)
    BY <2>1 DEF OnSnapshot
  <2> HIDE DEF told
  <2>5. /\ WithCurrent(told, m) \in PageState
        /\ WithCurrent(told, m).book >= told.book
        /\ WithCurrent(told, m).last >= told.last
    BY <2>2, <2>3, WithCurrentForward
  <2>6. page.book \in Int /\ page.last \in Int /\ told.last \in Int
    BY <1>1, <2>3 DEF PageState
  <2>7. WithCurrent(told, m).last \in Int
    BY <2>5 DEF PageState
  <2> QED BY <1>2, <2>3, <2>4, <2>5, <2>6, <2>7
<1>5. CASE m \in UpdateMessage
  <2> DEFINE n == WithCurrent(page, m)
  <2>1. page' = OnUpdate(page, m)
    BY <1>5 DEF Receive, UpdateMessage, m
  <2>2. m.event \in Int /\ m.sequence \in Nat
    BY <1>5 DEF UpdateMessage
  <2>3. n \in PageState /\ n.book >= page.book /\ n.last >= page.last
    BY <1>1, <2>2, WithCurrentForward
  <2>4. page' = page \/ page' = [n EXCEPT !.outcomes = @ \cup {m.event}]
    BY <2>1 DEF OnUpdate
  <2> HIDE DEF n
  <2>5. page.book \in Int /\ page.last \in Int /\ n.outcomes \in SUBSET Int
    BY <1>1, <2>3 DEF PageState
  <2>6. n.outcomes \cup {m.event} \in SUBSET Int
    BY <2>2, <2>5
  <2>7. LET r == [n EXCEPT !.outcomes = n.outcomes \cup {m.event}]
        IN  r \in PageState /\ r.book = n.book /\ r.last = n.last
    BY <2>3, <2>6, PageWithOutcomes
  <2>8. n.book >= page.book /\ n.last >= page.last /\ page.book >= page.book
        /\ page.last >= page.last
    BY <2>3, <2>5
  <2>9. CASE page' = page
    BY <1>1, <1>2, <2>8, <2>9
  <2>10. CASE page' = [n EXCEPT !.outcomes = @ \cup {m.event}]
    <3>1. page' = [n EXCEPT !.outcomes = n.outcomes \cup {m.event}]
      BY <2>10
    <3>2. page' \in PageState /\ page'.book = n.book /\ page'.last = n.last
      BY <2>7, <3>1
    <3> QED BY <1>2, <2>8, <3>2
  <2> QED BY <2>4, <2>9, <2>10
<1> QED BY <1>2, <1>3, <1>4, <1>5 DEF Message

-----------------------------------------------------------------------------
(* What every step does: it keeps the types, takes the page forward unless it *)
(* opens the page anew, and never takes the market's numbers back.           *)
PageForward == page' # NewPage => page'.book >= page.book /\ page'.last >= page.last

LEMMA InitTypes ==
  ASSUME StreamAssumption, Init
  PROVE  Types
<1>1. MarketTypes
  BY DEF StreamAssumption, Init, Log!Init, Log!NoEvents, MarketTypes
<1>2. handler \in [Handler -> HandlerState]
  BY DEF Init, Idle, None, HandlerState
<1>3. page \in PageState
  BY DEF Init, NewPage, None, PageState
<1>4. queue \in [Handler -> Seq(QueueItem)]
  BY DEF Init
<1> QED BY <1>1, <1>2, <1>3, <1>4 DEF Init, Types

LEMMA CommitTypes ==
  ASSUME StreamAssumption, Types, NEW e \in FreshEvents,
         NEW q \in FreshSequences, Commit(e, q)
  PROVE  /\ MarketTypes' /\ hints' \in Seq(Nat)
         /\ Log!NumbersGoOn
         /\ Update(e, q) \in UpdateMessage
         /\ UNCHANGED <<queue, handler, channel, page, answers>>
<1>1. /\ MaxEvent \in Nat /\ lastEvent \in 0..MaxEvent
      /\ MaxSequence \in Nat /\ lastSequence \in 0..MaxSequence
      /\ DOMAIN events \subseteq 1..MaxEvent /\ events \in [DOMAIN events -> Nat]
      /\ hints \in Seq(Nat)
  BY DEF StreamAssumption, Types, MarketTypes
<1>2. events' = Log!WithEvent(events, e, q) /\ lastEvent' = e /\ lastSequence' = q
  BY DEF Commit, Log!Append
<1>3. /\ e \in 1..MaxEvent /\ e > lastEvent /\ e \in Nat
      /\ q \in 1..MaxSequence /\ q > lastSequence /\ q \in Nat
  BY <1>1 DEF FreshEvents, FreshSequences
<1>4. /\ DOMAIN events' = DOMAIN events \cup {e}
      /\ events' \in [DOMAIN events \cup {e} -> Nat]
  BY <1>1, <1>2, <1>3 DEF Log!WithEvent
<1>5. MarketTypes'
  BY <1>1, <1>2, <1>3, <1>4 DEF MarketTypes
<1>6. hints' \in Seq(Nat)
  <2>1. CASE hints' = hints BY <1>1, <2>1
  <2>2. CASE hints' = Received(hints, e)
    <3>1. hints # <<>> => Tail(hints) \in Seq(Nat)
      BY <1>1
    <3>2. Len(hints) = RelaySize => hints # <<>>
      BY <1>1 DEF StreamAssumption
    <3> QED BY <1>1, <1>3, <2>2, <3>1, <3>2 DEF Received
  <2> QED BY <2>1, <2>2 DEF Commit
<1>7. Log!NumbersGoOn
  BY <1>1, <1>2, <1>3 DEF Log!NumbersGoOn
<1>8. Update(e, q) \in UpdateMessage
  BY <1>3 DEF Update, UpdateMessage
<1> QED BY <1>5, <1>6, <1>7, <1>8 DEF Commit

LEMMA FanoutTypes ==
  ASSUME StreamAssumption, Types, NEW u \in QueueItem
  PROVE  Fanout(u) \in [Handler -> Seq(QueueItem)]
<1>1. Resync \in QueueItem
  BY DEF Resync, QueueItem
<1>2. \A h \in Handler : queue[h] \in Seq(QueueItem)
  BY DEF Types
<1> QED BY <1>1, <1>2 DEF Fanout

LEMMA EndTypes ==
  ASSUME Types, NEW h \in Handler, End(h)
  PROVE  /\ handler' \in [Handler -> HandlerState]
         /\ queue' \in [Handler -> Seq(QueueItem)]
<1>1. Idle \in HandlerState
  BY DEF Idle, None, HandlerState
<1> QED BY <1>1 DEF Types, End

LEMMA DeliverTypes ==
  ASSUME Types, NEW h \in Handler, NEW m \in Message, NEW next \in HandlerState,
         Deliver(h, m, next)
  PROVE  /\ handler' \in [Handler -> HandlerState]
         /\ queue' \in [Handler -> Seq(QueueItem)]
         /\ channel' \in Seq(Message)
<1>1. CASE page.link = h
  <2>1. /\ channel' = Append(channel, m) /\ channel \in Seq(Message)
        /\ handler' = [handler EXCEPT ![h] = next] /\ queue' = queue
    BY <1>1 DEF Types, Deliver
  <2>2. channel' \in Seq(Message)
    BY <2>1
  <2>3. handler' \in [Handler -> HandlerState] /\ queue' \in [Handler -> Seq(QueueItem)]
    BY <2>1 DEF Types
  <2> QED BY <2>2, <2>3
<1>2. CASE page.link # h
  <2>1. End(h) /\ channel' = channel
    BY <1>2 DEF Deliver
  <2>2. channel' \in Seq(Message)
    BY <2>1 DEF Types
  <2> QED BY <2>1, <2>2, EndTypes
<1> QED BY <1>1, <1>2

LEMMA UnlinkedForward ==
  ASSUME Types
  PROVE  /\ Unlinked(page) \in PageState
         /\ Unlinked(page).book = page.book /\ Unlinked(page).last = page.last
  BY DEF Types, Unlinked, PageState

(* Steps that leave market and page alone.                                  *)
LEMMA QuietStep ==
  ASSUME Types, UNCHANGED <<events, lastEvent, lastSequence, page>>
  PROVE  MarketTypes' /\ page' \in PageState /\ PageForward /\ Log!NumbersGoOn
<1>1. page.book \in Int /\ page.last \in Int
  BY DEF Types, PageState
<1> QED BY <1>1 DEF Types, MarketTypes, PageForward, Log!NumbersGoOn

LEMMA MarketStep ==
  ASSUME StreamAssumption, Types,
         CommitByWorker \/ CommitEmbedded \/ CommitUnheard \/ Reset
  PROVE  Types' /\ PageForward /\ Log!NumbersGoOn
<1>0. page.book \in Int /\ page.last \in Int
  BY DEF Types, PageState
<1>1. CASE CommitByWorker
  <2>1. PICK e \in FreshEvents, q \in FreshSequences : Commit(e, q)
    BY <1>1 DEF CommitByWorker
  <2>2. /\ MarketTypes' /\ hints' \in Seq(Nat) /\ Log!NumbersGoOn
        /\ UNCHANGED <<queue, handler, channel, page, answers, committed>>
    BY <1>1, <2>1, CommitTypes DEF CommitByWorker
  <2> QED BY <1>0, <2>2 DEF Types, PageForward
<1>2. CASE CommitEmbedded
  <2>1. PICK e \in FreshEvents, q \in FreshSequences :
           /\ Commit(e, q)
           /\ committed' = <<Update(e, q)>>
    BY <1>2 DEF CommitEmbedded
  <2>2. /\ MarketTypes' /\ hints' \in Seq(Nat) /\ Log!NumbersGoOn
        /\ UNCHANGED <<queue, handler, channel, page, answers>>
        /\ Update(e, q) \in UpdateMessage
    BY <2>1, CommitTypes
  <2>3. committed' \in Seq(UpdateMessage)
    BY <2>1, <2>2
  <2> QED BY <1>0, <2>2, <2>3 DEF Types, PageForward
<1>3. CASE CommitUnheard
  <2>1. PICK e \in FreshEvents, q \in FreshSequences : Commit(e, q)
    BY <1>3 DEF CommitUnheard
  <2>2. /\ MarketTypes' /\ hints' \in Seq(Nat) /\ Log!NumbersGoOn
        /\ UNCHANGED <<queue, handler, channel, page, answers, committed>>
    BY <1>3, <2>1, CommitTypes DEF CommitUnheard
  <2> QED BY <1>0, <2>2 DEF Types, PageForward
<1>4. CASE Reset
  <2>1. MarketTypes'
    BY <1>4 DEF Reset, Log!Erase, Log!NoEvents, Types, MarketTypes
  <2>2. Log!NumbersGoOn
    BY <1>4 DEF Reset, Types, MarketTypes, Log!NumbersGoOn
  <2> QED BY <1>0, <1>4, <2>1, <2>2 DEF Reset, relay, Types, PageForward
<1> QED BY <1>1, <1>2, <1>3, <1>4

LEMMA PublicationStep ==
  ASSUME StreamAssumption, Types,
         PublishUpdate \/ RelayPublish \/ RelayConnect \/ RelayDisconnect \/ AskBook
  PROVE  Types' /\ PageForward /\ Log!NumbersGoOn
<1>0. /\ UNCHANGED <<events, lastEvent, lastSequence, page, handler, channel>>
  BY DEF PublishUpdate, RelayPublish, RelayConnect, RelayDisconnect, AskBook, market
<1>1. MarketTypes' /\ page' \in PageState /\ PageForward /\ Log!NumbersGoOn
  BY <1>0, QuietStep
<1>2. CASE PublishUpdate
  <2>1. Head(committed) \in QueueItem
    <3>1. Head(committed) \in UpdateMessage
      BY <1>2, HeadTailProperties DEF PublishUpdate, Types
    <3> QED BY <3>1 DEF UpdateMessage, QueueItem
  <2>2. queue' \in [Handler -> Seq(QueueItem)]
    BY <1>2, <2>1, FanoutTypes DEF PublishUpdate
  <2> QED BY <1>0, <1>1, <1>2, <2>2 DEF PublishUpdate, relay, Types
<1>3. CASE RelayPublish
  <2>1. Head(hints) \in Nat /\ Tail(hints) \in Seq(Nat)
    BY <1>3 DEF RelayPublish, Types
  <2>2. LiveRefresh(Head(hints)) \in QueueItem
    BY <2>1 DEF LiveRefresh, QueueItem
  <2>3. queue' \in [Handler -> Seq(QueueItem)]
    BY <1>3, <2>2, FanoutTypes DEF RelayPublish
  <2> QED BY <1>0, <1>1, <1>3, <2>1, <2>3 DEF RelayPublish, Types
<1>4. CASE RelayConnect \/ RelayDisconnect
  BY <1>0, <1>1, <1>4 DEF RelayConnect, RelayDisconnect, Types
<1>5. CASE AskBook
  <2>1. LatestSequence \in Nat
    BY LatestTypes DEF Types
  <2> QED BY <1>0, <1>1, <1>5, <2>1 DEF AskBook, relay, Types
<1> QED BY <1>2, <1>3, <1>4, <1>5

(* The head of a handler's queue and what is left of it.                     *)
LEMMA QueueTypes ==
  ASSUME Types, NEW h \in Handler, queue[h] # <<>>
  PROVE  /\ Head(queue[h]) \in QueueItem
         /\ [queue EXCEPT ![h] = Tail(@)] \in [Handler -> Seq(QueueItem)]
<1>1. queue \in [Handler -> Seq(QueueItem)] /\ queue[h] \in Seq(QueueItem)
  BY DEF Types
<1>2. Head(queue[h]) \in QueueItem /\ Tail(queue[h]) \in Seq(QueueItem)
  BY <1>1, HeadTailProperties
<1> QED BY <1>1, <1>2

LEMMA ServeStep ==
  ASSUME StreamAssumption, Types, NEW h \in Handler,
         \/ SendSnapshot(h) \/ TakeMarker(h) \/ DropUpdate(h) \/ SendUpdate(h)
         \/ FindMissed(h) \/ SendHeartbeat(h) \/ Subscribe(h)
  PROVE  Types' /\ PageForward /\ Log!NumbersGoOn
<1>0. /\ UNCHANGED <<events, lastEvent, lastSequence, committed, hints, page, answers>>
  BY DEF SendSnapshot, TakeMarker, DropUpdate, SendUpdate, FindMissed, SendHeartbeat,
         Subscribe, market, relay
<1>1. MarketTypes' /\ page' \in PageState /\ PageForward /\ Log!NumbersGoOn
  BY <1>0, QuietStep
<1>2. SUFFICES /\ handler' \in [Handler -> HandlerState]
               /\ queue' \in [Handler -> Seq(QueueItem)]
               /\ channel' \in Seq(Message)
  BY <1>0, <1>1 DEF Types
<1>3. /\ handler \in [Handler -> HandlerState] /\ handler[h] \in HandlerState
      /\ queue \in [Handler -> Seq(QueueItem)] /\ channel \in Seq(Message)
  BY DEF Types
<1>4. handler[h].cursor \in Int /\ handler[h].sequence \in Nat
  BY <1>3 DEF HandlerState
<1>5. Latest \in Int /\ LatestSequence \in Nat
  BY LatestTypes DEF Types
<1>6. [handler EXCEPT ![h].stage = "reading"] \in [Handler -> HandlerState]
  BY <1>3 DEF HandlerState
<1>7. CASE SendSnapshot(h)
  <2> DEFINE next == [stage |-> "waiting", cursor |-> Latest, sequence |-> LatestSequence]
  <2>1. next \in HandlerState
    BY <1>5 DEF HandlerState
  <2>2. Snapshot(handler[h].cursor) \in Message
    BY <1>4, SnapshotTypes DEF Types, Message
  <2>3. Deliver(h, Snapshot(handler[h].cursor), next)
    BY <1>7 DEF SendSnapshot
  <2> HIDE DEF next
  <2> QED BY <2>1, <2>2, <2>3, DeliverTypes
<1>8. CASE TakeMarker(h)
  BY <1>3, <1>6, <1>8, QueueTypes DEF TakeMarker
<1>9. CASE DropUpdate(h)
  BY <1>3, <1>9, QueueTypes DEF DropUpdate
<1>10. CASE SendUpdate(h)
  <2> DEFINE update == Head(queue[h])
  <2>1. update \in QueueItem /\ update.type = "market_update"
    BY <1>10, QueueTypes DEF SendUpdate
  <2>2. update \in Message /\ update.event \in Int /\ update.sequence \in Nat
    BY <2>1 DEF QueueItem, UpdateMessage, Message
  <2>3. CASE page.link = h
    <3>1. /\ channel' = Append(channel, update)
          /\ handler' = [handler EXCEPT ![h].cursor = update.event,
                                        ![h].sequence = update.sequence]
          /\ queue' = [queue EXCEPT ![h] = Tail(@)] /\ queue[h] # <<>>
      BY <1>10, <2>3 DEF SendUpdate
    <3> HIDE DEF update
    <3>2. channel' \in Seq(Message)
      BY <1>3, <2>2, <3>1
    <3>3. handler' \in [Handler -> HandlerState]
      <4> DEFINE u == update.event
                 v == update.sequence
      <4>1. u \in Int /\ v \in Nat
        BY <2>2
      <4>2. handler' = [handler EXCEPT ![h] = [@ EXCEPT !.cursor = u, !.sequence = v]]
        BY <1>3, <3>1
      <4> HIDE DEF u, v
      <4>3. [handler[h] EXCEPT !.cursor = u, !.sequence = v] \in HandlerState
        BY <1>3, <4>1 DEF HandlerState
      <4> QED BY <1>3, <4>2, <4>3
    <3> QED BY <3>1, <3>2, <3>3, QueueTypes
  <2>4. CASE page.link # h
    <3>1. End(h) /\ channel' = channel
      BY <1>10, <2>4 DEF SendUpdate
    <3> QED BY <1>3, <3>1, EndTypes
  <2> QED BY <2>3, <2>4
<1>11. CASE FindMissed(h)
  BY <1>3, <1>6, <1>11 DEF FindMissed
<1>12. CASE SendHeartbeat(h)
  <2>1. Heartbeat(h) \in Message
    BY <1>4 DEF Heartbeat, HeartbeatMessage, Message
  <2>2. Deliver(h, Heartbeat(h), handler[h])
    BY <1>12 DEF SendHeartbeat
  <2> QED BY <1>3, <2>1, <2>2, DeliverTypes
<1>13. CASE Subscribe(h)
  BY <1>3, <1>6, <1>13 DEF Subscribe
<1> QED BY <1>7, <1>8, <1>9, <1>10, <1>11, <1>12, <1>13

LEMMA LinkStep ==
  ASSUME StreamAssumption, Types, NEW h \in Handler, Refuse(h) \/ Connect(h)
  PROVE  Types' /\ PageForward /\ Log!NumbersGoOn
<1>0. UNCHANGED <<events, lastEvent, lastSequence, committed, hints, channel, answers>>
  BY DEF Refuse, Connect, market, relay
<1>1. MarketTypes' /\ Log!NumbersGoOn
  BY <1>0 DEF Types, MarketTypes, Log!NumbersGoOn
<1>2. page \in PageState /\ page.book \in Int /\ page.last \in Int
  BY DEF Types, PageState
<1>3. CASE Refuse(h)
  <2>1. page' \in PageState /\ PageForward
    BY <1>2, <1>3, UnlinkedForward DEF Refuse, PageForward
  <2>2. /\ handler' \in [Handler -> HandlerState]
        /\ queue' \in [Handler -> Seq(QueueItem)]
    BY <1>3, EndTypes DEF Refuse
  <2> QED BY <1>0, <1>1, <2>1, <2>2 DEF Types
<1>4. CASE Connect(h)
  <2>1. /\ [page EXCEPT !.link = h] \in PageState
        /\ [page EXCEPT !.link = h].book = page.book
        /\ [page EXCEPT !.link = h].last = page.last
    BY <1>2 DEF PageState
  <2>2. page' \in PageState /\ PageForward
    BY <1>2, <1>4, <2>1 DEF Connect, PageForward
  <2> DEFINE cursor == IF page.retry THEN page.last ELSE None
             next == [Idle EXCEPT !.stage = "accepted", !.cursor = cursor]
  <2>3. next \in HandlerState
    <3>1. cursor \in Int
      BY <1>2 DEF None
    <3> HIDE DEF cursor
    <3>2. Idle \in HandlerState
      BY DEF Idle, None, HandlerState
    <3> QED BY <3>1, <3>2 DEF HandlerState
  <2>4. handler' = [handler EXCEPT ![h] = next] /\ queue' = queue
    BY <1>4 DEF Connect
  <2> HIDE DEF next
  <2>5. handler' \in [Handler -> HandlerState]
    BY <2>3, <2>4 DEF Types
  <2> QED BY <1>0, <1>1, <2>2, <2>4, <2>5 DEF Types
<1> QED BY <1>3, <1>4

LEMMA PageStep ==
  ASSUME StreamAssumption, Types, Receive \/ AnswerBook \/ Break \/ Reopen \/ Restart
  PROVE  Types' /\ PageForward /\ Log!NumbersGoOn
<1>0. UNCHANGED <<events, lastEvent, lastSequence>>
  BY DEF Receive, AnswerBook, Break, Reopen, Restart, market
<1>1. MarketTypes' /\ Log!NumbersGoOn
  BY <1>0 DEF Types, MarketTypes, Log!NumbersGoOn
<1>2. page \in PageState /\ page.book \in Int /\ page.last \in Int
  BY DEF Types, PageState
<1>3. CASE Receive
  <2>1. /\ page' \in PageState /\ PageForward /\ channel' \in Seq(Message)
    BY <1>3, ReceiveForward DEF PageForward
  <2> QED BY <1>1, <1>3, <2>1 DEF Receive, relay, Types
<1>4. CASE AnswerBook
  <2>1. PICK q \in answers : page' = WithBook(page, q) /\ answers' = answers \ {q}
    BY <1>4 DEF AnswerBook
  <2>2. q \in Nat
    BY DEF Types
  <2>3. page' \in PageState /\ page'.book >= page.book /\ page'.last = page.last
    BY <1>2, <2>1, <2>2, WithBookForward
  <2>4. PageForward
    BY <1>2, <2>3 DEF PageForward
  <2> QED BY <1>1, <1>4, <2>1, <2>3, <2>4 DEF AnswerBook, relay, Types
<1>5. CASE Break
  <2>1. page' \in PageState /\ PageForward
    BY <1>2, <1>5, UnlinkedForward DEF Break, PageForward
  <2> QED BY <1>1, <1>5, <2>1 DEF Break, relay, Types
<1>6. CASE Reopen
  <2>1. page' \in PageState /\ PageForward
    BY <1>6 DEF Reopen, NewPage, None, PageState, PageForward
  <2> QED BY <1>1, <1>6, <2>1 DEF Reopen, relay, Types
<1>7. CASE Restart
  <2>1. page' \in PageState /\ PageForward
    BY <1>2, <1>7, UnlinkedForward DEF Restart, PageForward
  <2>2. handler' \in [Handler -> HandlerState]
    BY <1>7 DEF Restart, Idle, None, HandlerState
  <2> QED BY <1>1, <1>7, <2>1, <2>2 DEF Restart, Types
<1> QED BY <1>3, <1>4, <1>5, <1>6, <1>7

LEMMA Step ==
  ASSUME StreamAssumption, Types, [Next]_svars
  PROVE  Types' /\ PageForward /\ Log!NumbersGoOn
<1>1. CASE \/ CommitByWorker \/ CommitEmbedded \/ CommitUnheard \/ Reset
  BY <1>1, MarketStep
<1>2. CASE \/ PublishUpdate \/ RelayPublish \/ RelayConnect \/ RelayDisconnect \/ AskBook
  BY <1>2, PublicationStep
<1>3. CASE \E h \in Handler : Serve(h) \/ Connect(h)
  BY <1>3, ServeStep, LinkStep DEF Serve
<1>4. CASE Receive \/ AnswerBook \/ Break \/ Reopen \/ Restart
  BY <1>4, PageStep
<1>5. CASE UNCHANGED svars
  <2>1. MarketTypes' /\ page' \in PageState /\ PageForward /\ Log!NumbersGoOn
    BY <1>5, QuietStep DEF svars, market
  <2> QED BY <1>5, <2>1 DEF svars, market, relay, Types
<1> QED BY <1>1, <1>2, <1>3, <1>4, <1>5 DEF Next

-----------------------------------------------------------------------------
(* Every message on its way, every cursor and everything the page holds is    *)
(* what the code declares it to be, and a snapshot that says more was missed  *)
(* than it replays does replay something: the page takes the least of it.    *)
THEOREM StreamTypes == Spec => []Types
<1>1. Init => Types
  BY StreamAssumption, InitTypes
<1>2. Types /\ [Next]_svars => Types'
  BY StreamAssumption, Step
<1> QED BY <1>1, <1>2, PTL DEF Spec

(* A page that is not opened anew never goes back to an older book (App.tsx,  *)
(* shouldApplyBookSnapshot) or to an earlier event to resume after, whatever  *)
(* is late, lost, refused, restarted or erased.                             *)
THEOREM StreamNeverBack == Spec => NeverBack
<1>1. Types /\ [Next]_svars => PageForward
  BY StreamAssumption, Step
<1> QED BY <1>1, StreamTypes, PTL DEF Spec, NeverBack, PageForward

-----------------------------------------------------------------------------
(* What is on its way to a page                                              *)

(* e is after everything that a page which has received last will have         *)
(* received when the first i - 1 messages of ch have arrived.                 *)
Ahead(last, ch, e, i) == e > last /\ \A j \in 1..(i - 1) : e > ch[j].event

(* The i-th message skips none of the events D: a heartbeat tells nothing new,  *)
(* an update is the next of them, and a snapshot brings along what it passes   *)
(* or says that it does not; only a new page's first snapshot need not.        *)
Tells(D, last, ch, i) ==
    LET m == ch[i]
    IN  /\ m.type = "heartbeat" => ~Ahead(last, ch, m.event, i)
        /\ m.type = "market_update" =>
              \A e \in D : Ahead(last, ch, e, i) => e >= m.event
        /\ m.type = "snapshot" =>
              /\ \A e \in m.recovered : e <= m.event
              /\ m.initial => i = 1 /\ last = 0
              /\ ~m.initial =>
                    \A e \in D :
                        Ahead(last, ch, e, i) /\ e <= m.event =>
                            e \in m.recovered \/ (m.truncated /\ e < Min(m.recovered))

ChannelTells(D, last, ch) == \A i \in 1..Len(ch) : Tells(D, last, ch, i)

LEMMA MessageEvent ==
  ASSUME NEW m \in Message
  PROVE  m.event \in Int /\ m.sequence \in Nat /\ m.type \in {"market_update", "heartbeat", "snapshot"}
  BY DEF Message, UpdateMessage, HeartbeatMessage, SnapshotMessage

LEMMA AppendTells ==
  ASSUME NEW D, NEW last \in Int, NEW ch \in Seq(Message), NEW m \in Message,
         ChannelTells(D, last, ch), Tells(D, last, Append(ch, m), Len(ch) + 1)
  PROVE  ChannelTells(D, last, Append(ch, m))
<1> DEFINE n == Append(ch, m)
<1>1. Len(ch) \in Nat /\ Len(n) = Len(ch) + 1 /\ \A i \in 1..Len(ch) : n[i] = ch[i]
  OBVIOUS
<1> HIDE DEF n
<1>2. ASSUME NEW i \in 1..Len(ch) PROVE Tells(D, last, n, i)
  <2>1. \A j \in 1..(i - 1) : j \in 1..Len(ch)
    BY <1>1
  <2>2. \A e : Ahead(last, n, e, i) <=> Ahead(last, ch, e, i)
    BY <1>1, <2>1 DEF Ahead
  <2>3. n[i] = ch[i] /\ Tells(D, last, ch, i)
    BY <1>1 DEF ChannelTells
  <2> QED BY <2>2, <2>3 DEF Tells
<1>3. Tells(D, last, n, Len(ch) + 1)
  BY DEF n
<1>4. ASSUME NEW i \in 1..Len(n) PROVE Tells(D, last, n, i)
  <2>1. i \in 1..Len(ch) \/ i = Len(ch) + 1
    BY <1>1
  <2> QED BY <1>2, <1>3, <2>1
<1> QED BY <1>4 DEF ChannelTells, n

LEMMA AheadOfTail ==
  ASSUME NEW last \in Int, NEW ch \in Seq(Message), ch # <<>>, NEW e \in Int,
         NEW i \in Nat, i <= Len(ch), i > 0
  PROVE  Ahead(Larger(last, Head(ch).event), Tail(ch), e, i) <=> Ahead(last, ch, e, i + 1)
<1> DEFINE q == Tail(ch)
           l == Larger(last, Head(ch).event)
<1>1. /\ Len(ch) \in Nat \ {0} /\ Head(ch) = ch[1]
      /\ \A j \in 1..(Len(ch) - 1) : q[j] = ch[j + 1]
  BY EmptySeq
<1>2. Head(ch).event \in Int
  BY <1>1, ElementOfSeq, MessageEvent
<1>3. e > l <=> (e > last /\ e > Head(ch).event)
  BY <1>2 DEF Larger
<1> HIDE DEF q, l
<1>4. ASSUME e > ch[1].event, \A j \in 1..(i - 1) : e > q[j].event
      PROVE  \A j \in 1..i : e > ch[j].event
  <2> SUFFICES ASSUME NEW j \in 1..i, j # 1 PROVE e > ch[j].event
    BY <1>4
  <2>1. j - 1 \in 1..(i - 1) /\ j - 1 \in 1..(Len(ch) - 1) /\ (j - 1) + 1 = j
    BY <1>1
  <2> QED BY <1>1, <1>4, <2>1
<1>5. ASSUME \A j \in 1..i : e > ch[j].event
      PROVE  e > ch[1].event /\ \A j \in 1..(i - 1) : e > q[j].event
  <2>1. 1 \in 1..i
    OBVIOUS
  <2>2. ASSUME NEW j \in 1..(i - 1) PROVE e > q[j].event
    <3>1. j + 1 \in 1..i /\ j \in 1..(Len(ch) - 1)
      BY <1>1
    <3> QED BY <1>1, <1>5, <3>1
  <2> QED BY <1>5, <2>1, <2>2
<1>6. (i + 1) - 1 = i
  OBVIOUS
<1> QED BY <1>1, <1>3, <1>4, <1>5, <1>6 DEF Ahead, q, l

LEMMA TailTells ==
  ASSUME NEW D \in SUBSET Int, NEW last \in Int, NEW ch \in Seq(Message), ch # <<>>,
         ChannelTells(D, last, ch)
  PROVE  ChannelTells(D, Larger(last, Head(ch).event), Tail(ch))
<1> DEFINE q == Tail(ch)
           l == Larger(last, Head(ch).event)
<1>1. /\ Len(ch) \in Nat \ {0} /\ Len(q) = Len(ch) - 1
      /\ \A j \in 1..(Len(ch) - 1) : q[j] = ch[j + 1]
  BY EmptySeq
<1>2. ASSUME NEW i \in 1..Len(q) PROVE Tells(D, l, q, i)
  <2>1. i + 1 \in 1..Len(ch) /\ i \in Nat /\ i <= Len(ch) /\ i > 0 /\ i + 1 # 1
    BY <1>1
  <2>2. q[i] = ch[i + 1] /\ Tells(D, last, ch, i + 1)
    BY <1>1, <2>1 DEF ChannelTells
  <2>3. ASSUME NEW e \in Int PROVE Ahead(l, q, e, i) <=> Ahead(last, ch, e, i + 1)
    BY <2>1, AheadOfTail
  <2>4. ch[i + 1].event \in Int
    BY <2>1, ElementOfSeq, MessageEvent
  <2> HIDE DEF q, l
  <2> QED BY <2>1, <2>2, <2>3, <2>4 DEF Tells
<1> QED BY <1>2 DEF ChannelTells

(* An event later than every message changes nothing for them.                *)
LEMMA MoreTells ==
  ASSUME NEW D, NEW E, NEW last \in Int, NEW ch \in Seq(Message),
         ChannelTells(D, last, ch),
         \A e \in E : e \in D \/ \A i \in 1..Len(ch) : e > ch[i].event /\ e \in Int
  PROVE  ChannelTells(E, last, ch)
<1>1. ASSUME NEW i \in 1..Len(ch) PROVE Tells(E, last, ch, i)
  <2>1. Tells(D, last, ch, i)
    BY DEF ChannelTells
  <2>2. ch[i].event \in Int
    BY ElementOfSeq, MessageEvent
  <2>3. \A e \in E : e \in D \/ (e > ch[i].event /\ e \in Int)
    OBVIOUS
  <2>4. ASSUME NEW e \in E, e \notin D PROVE e >= ch[i].event /\ ~(e <= ch[i].event)
    BY <2>2, <2>3, <2>4
  <2> QED BY <2>1, <2>4 DEF Tells
<1> QED BY <1>1 DEF ChannelTells

LEMMA EmptyTells ==
  ASSUME NEW D, NEW last
  PROVE  ChannelTells(D, last, <<>>)
<1>1. 1..Len(<<>>) = {}
  OBVIOUS
<1> QED BY <1>1 DEF ChannelTells
(* The same for a handler that waits with a cursor c and a queue q, up to the   *)
(* first marker in it: no update skips an event of D, and if there is no       *)
(* marker, only the events X can be missing.                                *)
Plain(q, n) == \A j \in 1..n : q[j].type = "market_update"
After(c, q, e, n) == e > c /\ \A j \in 1..n : e > q[j].event

NoGap(D, c, q) ==
    \A i \in 1..Len(q) :
        Plain(q, i) => \A e \in D : After(c, q, e, i - 1) => e >= q[i].event
NothingMissing(D, c, q, X) ==
    Plain(q, Len(q)) => \A e \in D : After(c, q, e, Len(q)) => e \in X

LEMMA QueueEvent ==
  ASSUME NEW q \in Seq(QueueItem), NEW i \in 1..Len(q)
  PROVE  q[i] \in QueueItem /\ q[i].event \in Nat /\ q[i].sequence \in Nat
<1>1. q[i] \in QueueItem
  BY ElementOfSeq
<1> QED BY <1>1 DEF QueueItem

LEMMA AppendQueue ==
  ASSUME NEW D, NEW c \in Int, NEW q \in Seq(QueueItem), NEW u \in QueueItem, NoGap(D, c, q),
         u.type = "market_update" /\ Plain(q, Len(q)) =>
             \A e \in D : After(c, q, e, Len(q)) => e >= u.event
  PROVE  NoGap(D, c, Append(q, u))
<1> DEFINE r == Append(q, u)
<1>1. /\ Len(q) \in Nat /\ Len(r) = Len(q) + 1 /\ r[Len(q) + 1] = u
      /\ \A i \in 1..Len(q) : r[i] = q[i]
  OBVIOUS
<1> HIDE DEF r
<1>2. ASSUME NEW n \in 0..Len(q)
      PROVE (Plain(r, n) <=> Plain(q, n)) /\ \A e : After(c, r, e, n) <=> After(c, q, e, n)
  <2>1. \A j \in 1..n : r[j] = q[j]
    BY <1>1
  <2> QED BY <2>1 DEF Plain, After
<1>3. ASSUME NEW i \in 1..Len(r), Plain(r, i), NEW e \in D, After(c, r, e, i - 1)
      PROVE  e >= r[i].event
  <2>1. CASE i \in 1..Len(q)
    <3>1. Plain(q, i) /\ After(c, q, e, i - 1) /\ r[i] = q[i]
      <4>1. i \in 0..Len(q) /\ i - 1 \in 0..Len(q)
        BY <1>1, <2>1
      <4> QED BY <1>1, <1>2, <1>3, <2>1, <4>1
    <3> QED BY <2>1, <3>1 DEF NoGap
  <2>2. CASE i = Len(q) + 1
    <3>1. Len(q) \in 0..Len(q) /\ i - 1 = Len(q)
      BY <1>1, <2>2
    <3>2. After(c, q, e, Len(q))
      BY <1>2, <1>3, <3>1
    <3>3. Plain(r, Len(q)) /\ u.type = "market_update"
      <4>1. \A j \in 1..Len(q) : j \in 1..i
        BY <1>1, <2>2
      <4>2. i \in 1..i /\ r[i] = u
        BY <1>1, <2>2
      <4> QED BY <1>3, <4>1, <4>2 DEF Plain
    <3>4. Plain(q, Len(q))
      BY <1>2, <3>1, <3>3
    <3> QED BY <1>1, <2>2, <3>2, <3>3, <3>4
  <2> QED BY <1>1, <2>1, <2>2
<1> QED BY <1>3 DEF NoGap, r

(* A queue with a marker in it lacks nothing.                                *)
LEMMA MarkedQueue ==
  ASSUME NEW D, NEW c, NEW X, NEW q, NEW i \in 1..Len(q), q[i].type # "market_update"
  PROVE  NothingMissing(D, c, q, X)
BY DEF NothingMissing, Plain

LEMMA ResyncQueue ==
  ASSUME NEW D, NEW c, NEW X
  PROVE  NoGap(D, c, <<Resync>>) /\ NothingMissing(D, c, <<Resync>>, X)
<1> DEFINE q == <<Resync>>
<1>1. Len(q) = 1 /\ q[1].type # "market_update" /\ \A i \in 1..Len(q) : i = 1
  BY DEF Resync
<1> HIDE DEF q
<1>2. 1 \in 1..Len(q)
  BY <1>1
<1>3. \A i \in 1..Len(q) : ~Plain(q, i)
  <2>1. \A i \in 1..Len(q) : 1 \in 1..i
    BY <1>1
  <2> QED BY <1>1, <2>1 DEF Plain
<1> QED BY <1>1, <1>2, <1>3, MarkedQueue DEF NoGap, q

LEMMA PublishedQueue ==
  ASSUME NEW D, NEW c \in Int, NEW q \in Seq(QueueItem), NEW u \in QueueItem,
         u.type = "market_update", NothingMissing(D, c, q, {u.event})
  PROVE  NothingMissing(D, c, Append(q, u), {})
<1> DEFINE r == Append(q, u)
<1>1. /\ Len(q) \in Nat /\ Len(r) = Len(q) + 1 /\ r[Len(q) + 1] = u
      /\ \A i \in 1..Len(q) : r[i] = q[i]
  OBVIOUS
<1> HIDE DEF r
<1>2. u.event \in Nat
  BY DEF QueueItem
<1>3. ASSUME Plain(r, Len(r)), NEW e \in D, After(c, r, e, Len(r)) PROVE FALSE
  <2>1. \A j \in 1..Len(q) : j \in 1..Len(r) /\ r[j] = q[j]
    BY <1>1
  <2>2. Plain(q, Len(q)) /\ After(c, q, e, Len(q))
    BY <1>3, <2>1 DEF Plain, After
  <2>3. e = u.event
    BY <2>2 DEF NothingMissing
  <2>4. Len(r) \in 1..Len(r) /\ r[Len(r)] = u
    BY <1>1
  <2>5. e > u.event
    BY <1>3, <2>4 DEF After
  <2> QED BY <1>2, <2>3, <2>5
<1> QED BY <1>3 DEF NothingMissing, r

(* An update is taken: the cursor has passed it, or moves to it.               *)
LEMMA TakenQueue ==
  ASSUME NEW D \in SUBSET Int, NEW c \in Int, NEW q \in Seq(QueueItem), q # <<>>, NEW X,
         Head(q).type = "market_update", NEW b \in Int, b >= c, b >= Head(q).event,
         b = c \/ b = Head(q).event
  PROVE  /\ NoGap(D, c, q) => NoGap(D, b, Tail(q))
         /\ NothingMissing(D, c, q, X) => NothingMissing(D, b, Tail(q), X)
<1> DEFINE r == Tail(q)
<1>1. /\ Len(q) \in Nat \ {0} /\ Len(r) = Len(q) - 1 /\ Head(q) = q[1]
      /\ \A j \in 1..(Len(q) - 1) : r[j] = q[j + 1]
  BY EmptySeq
<1> HIDE DEF r
<1>2. 1 \in 1..Len(q)
  BY <1>1
<1>3. q[1].event \in Nat
  BY <1>2, QueueEvent
<1>4. ASSUME NEW n \in 0..Len(r), Plain(r, n) PROVE Plain(q, n + 1)
  <2> SUFFICES ASSUME NEW j \in 1..(n + 1), j # 1 PROVE q[j].type = "market_update"
    BY <1>1 DEF Plain
  <2>1. j - 1 \in 1..n /\ j - 1 \in 1..(Len(q) - 1) /\ (j - 1) + 1 = j
    BY <1>1
  <2>2. r[j - 1].type = "market_update" /\ r[j - 1] = q[j]
    BY <1>1, <1>4, <2>1 DEF Plain
  <2> QED BY <2>2
<1>5. ASSUME NEW n \in 0..Len(r), NEW e \in D, After(b, r, e, n) PROVE After(c, q, e, n + 1)
  <2>1. e > c /\ e > q[1].event /\ e \in Int
    BY <1>1, <1>3, <1>5 DEF After
  <2> SUFFICES ASSUME NEW j \in 1..(n + 1), j # 1 PROVE e > q[j].event
    BY <2>1 DEF After
  <2>2. j - 1 \in 1..n /\ j - 1 \in 1..(Len(q) - 1) /\ (j - 1) + 1 = j
    BY <1>1
  <2>3. e > r[j - 1].event /\ r[j - 1] = q[j]
    BY <1>1, <1>5, <2>2 DEF After
  <2> QED BY <2>3
<1>6. ASSUME NoGap(D, c, q) PROVE NoGap(D, b, r)
  <2> SUFFICES ASSUME NEW i \in 1..Len(r), Plain(r, i), NEW e \in D, After(b, r, e, i - 1)
               PROVE  e >= r[i].event
    BY DEF NoGap
  <2>1. i \in 0..Len(r) /\ i - 1 \in 0..Len(r) /\ (i - 1) + 1 = i /\ (i + 1) - 1 = i
    BY <1>1
  <2>2. Plain(q, i + 1) /\ After(c, q, e, i)
    BY <1>4, <1>5, <2>1
  <2>3. i + 1 \in 1..Len(q) /\ r[i] = q[i + 1]
    BY <1>1
  <2> QED BY <1>6, <2>1, <2>2, <2>3 DEF NoGap
<1>7. ASSUME NothingMissing(D, c, q, X) PROVE NothingMissing(D, b, r, X)
  <2> SUFFICES ASSUME Plain(r, Len(r)), NEW e \in D, After(b, r, e, Len(r)) PROVE e \in X
    BY DEF NothingMissing
  <2>1. Len(r) \in 0..Len(r) /\ Len(r) + 1 = Len(q)
    BY <1>1
  <2>2. Plain(q, Len(q)) /\ After(c, q, e, Len(q))
    BY <1>4, <1>5, <2>1
  <2> QED BY <1>7, <2>2 DEF NothingMissing
<1> QED BY <1>6, <1>7 DEF r

(* A cursor that no event is after; a new event later than every update.       *)
LEMMA CaughtUp ==
  ASSUME NEW D, NEW c, NEW q, NEW X, \A e \in D : ~(e > c)
  PROVE  NoGap(D, c, q) /\ NothingMissing(D, c, q, X)
BY DEF NoGap, NothingMissing, After

LEMMA MoreQueued ==
  ASSUME NEW D, NEW E, NEW c \in Int, NEW q \in Seq(QueueItem), NEW X, NEW Y,
         \A e \in E : e \in D \/ (e \in Y /\ e \in Int /\ \A i \in 1..Len(q) :
                                   q[i].type = "market_update" => e > q[i].event),
         X \subseteq Y
  PROVE  /\ NoGap(D, c, q) => NoGap(E, c, q)
         /\ NothingMissing(D, c, q, X) => NothingMissing(E, c, q, Y)
<1>1. ASSUME NoGap(D, c, q), NEW i \in 1..Len(q), Plain(q, i),
             NEW e \in E, After(c, q, e, i - 1)
      PROVE  e >= q[i].event
  <2>1. i \in 1..i /\ q[i].event \in Nat
    BY QueueEvent
  <2>2. q[i].type = "market_update"
    BY <1>1, <2>1 DEF Plain
  <2> QED BY <1>1, <2>1, <2>2 DEF NoGap
<1>2. ASSUME NothingMissing(D, c, q, X), Plain(q, Len(q)), NEW e \in E, After(c, q, e, Len(q))
      PROVE  e \in Y
  BY <1>2 DEF NothingMissing
<1> QED BY <1>1, <1>2 DEF NoGap, NothingMissing
-----------------------------------------------------------------------------
(* What the page makes of it                                                 *)

BookSound(p) == p.applied <= p.book /\ p.sequence = Larger(p.book, 0)

SameUser(r, p) == r.link = p.link /\ r.retry = p.retry /\ r.outcomes = p.outcomes /\ r.since = p.since

LEMMA LargerIs ==
  ASSUME NEW a \in Int, NEW b \in Int
  PROVE  /\ Larger(a, b) \in Int /\ Larger(a, b) \in {a, b}
         /\ Larger(a, b) >= a /\ Larger(a, b) >= b
BY DEF Larger

LEMMA AnswerSound ==
  ASSUME NEW p \in PageState, BookSound(p), NEW q \in Nat
  PROVE  LET r == WithBook(p, q)
         IN  /\ BookSound(r) /\ SameUser(r, p)
             /\ r.last = p.last /\ r.applied = p.applied /\ r.sequence >= p.sequence
<1>1. p.sequence \in Int /\ p.book \in Int /\ p.applied \in Int
  BY DEF PageState
<1>2. CASE ShouldApplyBookSnapshot(q, p)
  <2> DEFINE s == Larger(p.sequence, q)
             r == [p EXCEPT !.book = q, !.sequence = s]
  <2>1. WithBook(p, q) = r
    BY <1>2 DEF WithBook
  <2> HIDE DEF s
  <2>2. /\ r.book = q /\ r.sequence = s /\ r.last = p.last /\ r.applied = p.applied
        /\ r.link = p.link /\ r.retry = p.retry /\ r.outcomes = p.outcomes /\ r.since = p.since
    BY DEF PageState
  <2> HIDE DEF r
  <2>3. q >= p.applied /\ q > p.book
    BY <1>2 DEF ShouldApplyBookSnapshot
  <2>4. s = q /\ Larger(q, 0) = q /\ s >= p.sequence
    BY <1>1, <2>3 DEF BookSound, Larger, s
  <2>5. BookSound(r)
    BY <1>1, <2>2, <2>3, <2>4 DEF BookSound
  <2> QED BY <2>1, <2>2, <2>4, <2>5 DEF SameUser
<1>3. CASE ~ShouldApplyBookSnapshot(q, p)
  <2>1. WithBook(p, q) = p
    BY <1>3 DEF WithBook
  <2>2. p.sequence >= p.sequence
    BY <1>1
  <2> QED BY <2>1, <2>2 DEF SameUser
<1> QED BY <1>2, <1>3

LEMMA CurrentIs ==
  ASSUME NEW p \in PageState, BookSound(p), NEW m, m.event \in Int, m.sequence \in Nat
  PROVE  LET r == WithCurrent(p, m)
         IN  /\ BookSound(r) /\ SameUser(r, p)
             /\ r.last = Larger(p.last, m.event)
             /\ r.applied = Larger(p.applied, m.sequence)
             /\ r.sequence = Larger(p.sequence, m.sequence)
<1> DEFINE q == m.sequence
           a == Larger(p.applied, q)
           s == Larger(p.sequence, q)
           l == Larger(p.last, m.event)
           n == [p EXCEPT !.applied = a, !.sequence = s, !.last = l]
           r == WithBook(n, q)
<1>1. p.sequence \in Int /\ p.book \in Int /\ p.applied \in Int /\ p.last \in Int /\ q \in Nat
  BY DEF PageState
<1>2. WithCurrent(p, m) = r
  BY DEF WithCurrent
<1>3. a \in Int /\ s \in Int /\ l \in Int
  BY <1>1 DEF Larger
<1>4. a = Larger(p.applied, q) /\ s = Larger(p.sequence, q) /\ l = Larger(p.last, m.event)
  OBVIOUS
<1> HIDE DEF q, a, s, l
<1>5. /\ n.applied = a /\ n.sequence = s /\ n.last = l /\ n.book = p.book
      /\ n.link = p.link /\ n.retry = p.retry /\ n.outcomes = p.outcomes /\ n.since = p.since
      /\ n \in PageState
  BY <1>3 DEF PageState
<1> HIDE DEF n
<1>6. CASE q > p.book
  <2>1. a = q /\ s = q /\ Larger(s, q) = s /\ Larger(q, 0) = q
    BY <1>1, <1>4, <1>6 DEF BookSound, Larger
  <2>2. ShouldApplyBookSnapshot(q, n)
    BY <1>1, <1>5, <1>6, <2>1 DEF ShouldApplyBookSnapshot
  <2>3. r = [n EXCEPT !.book = q, !.sequence = Larger(s, q)]
    BY <1>5, <2>2 DEF WithBook
  <2>4. r = [n EXCEPT !.book = q, !.sequence = s]
    BY <2>1, <2>3
  <2>5. /\ r.book = q /\ r.sequence = s /\ r.applied = a /\ r.last = l
        /\ r.link = p.link /\ r.retry = p.retry /\ r.outcomes = p.outcomes /\ r.since = p.since
    BY <1>5, <2>4 DEF PageState
  <2> HIDE DEF r
  <2>6. BookSound(r)
    BY <1>1, <2>1, <2>5 DEF BookSound
  <2> QED BY <1>2, <1>4, <2>5, <2>6 DEF SameUser, q
<1>7. CASE ~(q > p.book)
  <2>1. ~ShouldApplyBookSnapshot(q, n)
    BY <1>5, <1>7 DEF ShouldApplyBookSnapshot
  <2>2. r = n
    BY <2>1 DEF WithBook
  <2>3. a <= p.book /\ s = p.sequence
    BY <1>1, <1>4, <1>7 DEF BookSound, Larger
  <2> HIDE DEF r
  <2>4. BookSound(r)
    BY <1>1, <1>5, <2>2, <2>3 DEF BookSound
  <2> QED BY <1>2, <1>4, <1>5, <2>2, <2>4 DEF SameUser, q
<1> QED BY <1>6, <1>7

(* The outcomes of a snapshot that is not earlier than they are.               *)
LEMMA RecoveredIs ==
  ASSUME StreamAssumption, NEW p \in PageState, NEW m \in SnapshotMessage,
         \A e \in m.recovered : e <= m.event
  PROVE  LET r == WithRecovered(p, m)
             unseen == {e \in m.recovered : e > p.last}
         IN  /\ r.link = p.link /\ r.retry = p.retry /\ r.book = p.book
             /\ r.applied = p.applied /\ r.sequence = p.sequence
             /\ r.outcomes = p.outcomes \cup unseen
             /\ r.since = IF m.initial THEN m.event
                          ELSE IF m.truncated THEN Larger(p.since, Min(m.recovered) - 1)
                          ELSE p.since
             /\ r.last \in Int /\ r.last >= p.last
             /\ r.last = p.last \/ (r.last <= m.event /\ r.last > p.last)
<1> DEFINE unseen == {e \in m.recovered : e > p.last}
           o == p.outcomes \cup unseen
           l == Max({p.last} \cup unseen)
           s == IF m.initial THEN m.event
                ELSE IF m.truncated THEN Larger(p.since, Min(m.recovered) - 1)
                ELSE p.since
           r == [p EXCEPT !.outcomes = o, !.last = l, !.since = s]
<1>1. MaxEvent \in Nat BY DEF StreamAssumption
<1>2. m.recovered \in SUBSET (1..MaxEvent) /\ m.event \in Nat
  BY DEF SnapshotMessage
<1>3. p.last \in Int
  BY DEF PageState
<1>4. l \in {p.last} \cup unseen /\ l \in Int /\ l >= p.last
  <2>1. \E n \in Int : \A x \in {p.last} \cup unseen : x <= n
    <3>1. CASE p.last <= MaxEvent BY <1>1, <1>2, <1>3, <3>1
    <3>2. CASE ~(p.last <= MaxEvent) BY <1>1, <1>2, <1>3, <3>2
    <3> QED BY <3>1, <3>2
  <2>2. {p.last} \cup unseen \in SUBSET Int
    BY <1>1, <1>2, <1>3
  <2> HIDE DEF unseen
  <2> QED BY <2>1, <2>2, MaxOfBounded
<1>5. l = p.last \/ (l <= m.event /\ l > p.last)
  BY <1>4
<1>6. WithRecovered(p, m) = r
  BY DEF WithRecovered
<1> HIDE DEF o, l, s, unseen
<1>7. /\ r.link = p.link /\ r.retry = p.retry /\ r.book = p.book /\ r.applied = p.applied
      /\ r.sequence = p.sequence /\ r.outcomes = o /\ r.last = l /\ r.since = s
  BY DEF PageState
<1> HIDE DEF r
<1> QED BY <1>4, <1>5, <1>6, <1>7 DEF o, s, unseen
-----------------------------------------------------------------------------
(* The invariant of every stream                                             *)

HeldIn(s, types, e, q) ==
    \E i \in 1..Len(s) : s[i].type \in types /\ s[i].event = e /\ s[i].sequence = q

Updates == {"market_update"}
AnyMessage == {"market_update", "heartbeat", "snapshot"}

Waits(s, e, q) == s.stage = "waiting" /\ s.cursor = e /\ s.sequence = q

(* e and q go together: an event and its command's sequence, or the zeros of a  *)
(* market without events, wherever they are still held.                      *)
IsPair(e, q) ==
    \/ e = 0 /\ q = 0
    \/ e \in DOMAIN events /\ q = events[e]
    \/ HeldIn(channel, AnyMessage, e, q)
    \/ \E h \in Handler : HeldIn(queue[h], Updates, e, q)
    \/ HeldIn(committed, Updates, e, q)
    \/ \E h \in Handler : Waits(handler[h], e, q)

(* Pairs are of the past, and in one order.                                  *)
PairsPast == \A e, q : IsPair(e, q) => e \in 0..lastEvent /\ q \in 0..lastSequence
PairsOrdered ==
    \A e, q, f, r : IsPair(e, q) /\ IsPair(f, r) => ((q <= r) <=> (e <= f))

(* The page agrees with every pair: what its stream has applied it has          *)
(* received, and what it has received the sequence it shows includes.         *)
PageInv ==
    /\ page.last \in 0..lastEvent /\ page.applied <= lastSequence /\ BookSound(page)
    /\ \A e, q : IsPair(e, q) =>
          /\ q <= page.applied => e <= page.last
          /\ e <= page.last => q <= page.sequence

(* The handler of a linked page: nothing is under way before it begins, and its  *)
(* cursor is not ahead of what it has sent.                                  *)
Linked(s, last, ch) ==
    /\ s.stage # "none"
    /\ s.stage = "accepted" => ch = <<>>
    /\ ~Ahead(last, ch, s.cursor, Len(ch) + 1)
    /\ s.cursor = None => ch = <<>> /\ last = 0

LinkInv ==
    /\ page.link = NoHandler => channel = <<>> /\ (page.retry \/ page.last = 0)
    /\ page.link \in Handler => Linked(handler[page.link], page.last, channel)

Rest == PairsPast /\ PairsOrdered /\ PageInv /\ LinkInv /\ ChannelTells({}, page.last, channel)
StreamInv == Types /\ Rest

LEMMA HeldAppend ==
  ASSUME NEW S, NEW s \in Seq(S), NEW m \in S, NEW types, NEW e, NEW q,
         HeldIn(Append(s, m), types, e, q)
  PROVE  HeldIn(s, types, e, q) \/ (m.type \in types /\ m.event = e /\ m.sequence = q)
<1>1. /\ Len(s) \in Nat /\ Len(Append(s, m)) = Len(s) + 1 /\ Append(s, m)[Len(s) + 1] = m
      /\ \A i \in 1..Len(s) : Append(s, m)[i] = s[i]
  BY AppendProperties, LenProperties
<1>2. PICK i \in 1..Len(Append(s, m)) :
         LET u == Append(s, m)[i] IN u.type \in types /\ u.event = e /\ u.sequence = q
  BY DEF HeldIn
<1>3. i \in 1..Len(s) \/ i = Len(s) + 1
  BY <1>1
<1> QED BY <1>1, <1>2, <1>3 DEF HeldIn

LEMMA HeldTail ==
  ASSUME NEW S, NEW s \in Seq(S), s # <<>>, NEW types, NEW e, NEW q,
         HeldIn(Tail(s), types, e, q)
  PROVE  HeldIn(s, types, e, q)
<1>1. /\ Len(s) \in Nat \ {0} /\ Len(Tail(s)) = Len(s) - 1
      /\ \A i \in 1..(Len(s) - 1) : Tail(s)[i] = s[i + 1]
  BY EmptySeq, HeadTailProperties
<1>2. PICK i \in 1..Len(Tail(s)) :
         LET u == Tail(s)[i] IN u.type \in types /\ u.event = e /\ u.sequence = q
  BY DEF HeldIn
<1>3. i + 1 \in 1..Len(s) /\ Tail(s)[i] = s[i + 1]
  BY <1>1
<1> QED BY <1>2, <1>3 DEF HeldIn

LEMMA HeldHead ==
  ASSUME NEW S, NEW s \in Seq(S), s # <<>>, NEW types, Head(s).type \in types
  PROVE  HeldIn(s, types, Head(s).event, Head(s).sequence)
<1>1. Len(s) \in Nat \ {0} /\ Head(s) = s[1]
  BY EmptySeq
<1>2. 1 \in 1..Len(s)
  BY <1>1
<1> QED BY <1>1, <1>2 DEF HeldIn

LEMMA HeldNowhere ==
  ASSUME NEW types, NEW e, NEW q
  PROVE  ~HeldIn(<<>>, types, e, q)
<1>1. 1..Len(<<>>) = {}
  OBVIOUS
<1> QED BY <1>1 DEF HeldIn

(* Nothing new is held, unless a pair.                                       *)
PairsFrom ==
    /\ \A e \in DOMAIN events' : e \in DOMAIN events /\ events'[e] = events[e]
    /\ \A e, q : HeldIn(channel', AnyMessage, e, q) => IsPair(e, q)
    /\ \A h \in Handler : \A e, q : HeldIn(queue'[h], Updates, e, q) => IsPair(e, q)
    /\ \A e, q : HeldIn(committed', Updates, e, q) => IsPair(e, q)
    /\ \A h \in Handler :
          handler'[h].stage = "waiting" => IsPair(handler'[h].cursor, handler'[h].sequence)

LEMMA NoNewPair ==
  ASSUME PairsFrom, NEW e, NEW q, IsPair(e, q)'
  PROVE  IsPair(e, q)
<1>1. CASE e = 0 /\ q = 0
  BY <1>1 DEF IsPair
<1>2. CASE e \in DOMAIN events' /\ q = events'[e]
  BY <1>2 DEF IsPair, PairsFrom
<1>3. CASE HeldIn(channel', AnyMessage, e, q)
  BY <1>3 DEF PairsFrom
<1>4. CASE \E h \in Handler : HeldIn(queue'[h], Updates, e, q)
  BY <1>4 DEF PairsFrom
<1>5. CASE HeldIn(committed', Updates, e, q)
  BY <1>5 DEF PairsFrom
<1>6. CASE \E h \in Handler : Waits(handler'[h], e, q)
  BY <1>6 DEF PairsFrom, Waits
<1>7. \/ e = 0 /\ q = 0
      \/ e \in DOMAIN events' /\ q = events'[e]
      \/ HeldIn(channel', AnyMessage, e, q)
      \/ \E h \in Handler : HeldIn(queue'[h], Updates, e, q)
      \/ HeldIn(committed', Updates, e, q)
      \/ \E h \in Handler : Waits(handler'[h], e, q)
  BY DEF IsPair, HeldIn, Waits
<1> QED BY <1>1, <1>2, <1>3, <1>4, <1>5, <1>6, <1>7

LEMMA PairsKept ==
  ASSUME Rest, PairsFrom, lastEvent' = lastEvent, lastSequence' = lastSequence
  PROVE  PairsPast' /\ PairsOrdered'
<1>1. \A e, q : IsPair(e, q)' => IsPair(e, q)
  BY NoNewPair
<1> QED BY <1>1 DEF Rest, PairsPast, PairsOrdered

LEMMA PageKept ==
  ASSUME Types, Rest, PairsFrom, lastEvent' = lastEvent, lastSequence' = lastSequence,
         page' \in PageState, page'.last = page.last, page'.applied = page.applied,
         BookSound(page'), page'.sequence >= page.sequence
  PROVE  PageInv'
<1>1. \A e, q : IsPair(e, q)' => IsPair(e, q)
  BY NoNewPair
<1>2. ASSUME NEW e, NEW q, IsPair(e, q)'
      PROVE  /\ q <= page'.applied => e <= page'.last
             /\ e <= page'.last => q <= page'.sequence
  <2>1. IsPair(e, q) /\ q \in Int
    BY <1>1, <1>2 DEF Rest, PairsPast
  <2>2. /\ q <= page.applied => e <= page.last
        /\ e <= page.last => q <= page.sequence
    BY <2>1 DEF Rest, PageInv
  <2>3. page.sequence \in Int /\ page'.sequence \in Int
    BY DEF Types, PageState
  <2> QED BY <2>1, <2>2, <2>3
<1> QED BY <1>2 DEF Rest, PageInv
-----------------------------------------------------------------------------
(* Every step keeps the invariant                                            *)

ToldNothingNew == ChannelTells({}, page.last, channel)

(* Market, page and channel stay; the page's handler at most begins to read.   *)
LEMMA QuietRest ==
  ASSUME Types, Types', Rest, PairsFrom,
         lastEvent' = lastEvent, lastSequence' = lastSequence,
         page' = page, channel' = channel,
         page.link \in Handler =>
            LET s == handler[page.link]
                t == handler'[page.link]
            IN  t = s \/ (s.stage # "none" /\ t.stage = "reading" /\ t.cursor = s.cursor)
  PROVE  Rest'
<1>1. PairsPast' /\ PairsOrdered'
  BY PairsKept
<1>2. PageInv'
  <2>1. BookSound(page') /\ page'.last = page.last /\ page'.applied = page.applied
    BY DEF Rest, PageInv
  <2>2. page' \in PageState /\ page'.sequence >= page.sequence
    <3>1. page \in PageState
      BY DEF Types
    <3>2. page.sequence \in Int
      BY <3>1 DEF PageState
    <3> QED BY <3>1, <3>2
  <2> QED BY <2>1, <2>2, PageKept
<1>3. LinkInv'
  <2>1. page'.link = NoHandler => channel' = <<>> /\ (page'.retry \/ page'.last = 0)
    BY DEF Rest, LinkInv
  <2>2. ASSUME page.link \in Handler PROVE Linked(handler'[page.link], page.last, channel)
    <3>1. Linked(handler[page.link], page.last, channel)
      BY <2>2 DEF Rest, LinkInv
    <3> QED BY <2>2, <3>1 DEF Linked
  <2> QED BY <2>1, <2>2 DEF LinkInv
<1>4. ToldNothingNew'
  BY DEF Rest, ToldNothingNew
<1> QED BY <1>1, <1>2, <1>3, <1>4 DEF Rest, ToldNothingNew

(* An event is committed, with an id and a sequence above every earlier one.   *)
LEMMA NewestRest ==
  ASSUME Types, Types', Rest, NEW n \in Nat, n > lastEvent, NEW s \in Nat, s > lastSequence,
         lastEvent' = n, lastSequence' = s,
         \A e, q : IsPair(e, q)' => IsPair(e, q) \/ (e = n /\ q = s),
         UNCHANGED <<page, channel, handler>>
  PROVE  Rest'
<1>1. lastEvent \in Nat /\ lastSequence \in Nat
  BY DEF Types, MarketTypes
<1>2. PairsPast'
  <2>1. ASSUME NEW e, NEW q, IsPair(e, q)' PROVE e \in 0..n /\ q \in 0..s
    <3>1. CASE IsPair(e, q)
      BY <1>1, <3>1 DEF Rest, PairsPast
    <3>2. CASE e = n /\ q = s
      BY <3>2
    <3> QED BY <2>1, <3>1, <3>2
  <2> QED BY <2>1 DEF PairsPast
<1>3. PairsOrdered'
  <2>1. ASSUME NEW e, NEW q, NEW f, NEW r, IsPair(e, q)', IsPair(f, r)'
        PROVE  (q <= r) <=> (e <= f)
    <3>1. IsPair(e, q) => e \in 0..lastEvent /\ q \in 0..lastSequence
      BY DEF Rest, PairsPast
    <3>2. IsPair(f, r) => f \in 0..lastEvent /\ r \in 0..lastSequence
      BY DEF Rest, PairsPast
    <3>3. CASE IsPair(e, q) /\ IsPair(f, r)
      BY <3>3 DEF Rest, PairsOrdered
    <3>4. CASE IsPair(e, q) /\ f = n /\ r = s
      BY <1>1, <3>1, <3>4
    <3>5. CASE e = n /\ q = s /\ IsPair(f, r)
      BY <1>1, <3>2, <3>5
    <3>6. CASE e = n /\ q = s /\ f = n /\ r = s
      BY <3>6
    <3> QED BY <2>1, <3>3, <3>4, <3>5, <3>6
  <2> QED BY <2>1 DEF PairsOrdered
<1>4. PageInv'
  <2>0. /\ page.last \in 0..lastEvent /\ page.applied <= lastSequence /\ BookSound(page)
        /\ page.applied \in Int
    BY DEF Rest, PageInv, Types, PageState
  <2>1. page'.last \in 0..lastEvent' /\ page'.applied <= lastSequence' /\ BookSound(page')
    BY <1>1, <2>0
  <2>2. ASSUME NEW e, NEW q, IsPair(e, q)'
        PROVE  /\ q <= page'.applied => e <= page'.last
               /\ e <= page'.last => q <= page'.sequence
    <3>1. CASE IsPair(e, q)
      BY <3>1 DEF Rest, PageInv
    <3>2. CASE e = n /\ q = s
      BY <1>1, <2>0, <3>2
    <3> QED BY <2>2, <3>1, <3>2
  <2> QED BY <2>1, <2>2 DEF PageInv
<1>5. LinkInv' /\ ToldNothingNew'
  BY DEF Rest, LinkInv, ToldNothingNew
<1> QED BY <1>2, <1>3, <1>4, <1>5 DEF Rest, ToldNothingNew

(* The page's handler sends it m, and its cursor moves there.                  *)
LEMMA SentRest ==
  ASSUME Types, Types', Rest, PairsFrom,
         lastEvent' = lastEvent, lastSequence' = lastSequence, page' = page,
         page.link \in Handler, NEW m \in Message, channel' = Append(channel, m),
         handler'[page.link].stage = "waiting", handler'[page.link].cursor = m.event,
         IsPair(m.event, m.sequence), Tells({}, page.last, Append(channel, m), Len(channel) + 1)
  PROVE  Rest'
<1>1. PairsPast' /\ PairsOrdered'
  BY PairsKept
<1>2. PageInv'
  <2>1. BookSound(page') /\ page'.last = page.last /\ page'.applied = page.applied
    BY DEF Rest, PageInv
  <2>2. page' \in PageState /\ page'.sequence >= page.sequence
    <3>1. page \in PageState
      BY DEF Types
    <3>2. page.sequence \in Int
      BY <3>1 DEF PageState
    <3> QED BY <3>1, <3>2
  <2> QED BY <2>1, <2>2, PageKept
<1>3. channel \in Seq(Message) /\ page.last \in Int
  BY DEF Types, PageState
<1>4. LinkInv'
  <2>1. page.link # NoHandler \/ NoHandler \in Handler
    OBVIOUS
  <2>2. /\ Len(channel') = Len(channel) + 1 /\ Len(channel) \in Nat
        /\ channel'[Len(channel) + 1] = m
    BY <1>3
  <2>3. m.event \in Nat
    BY DEF Rest, PairsPast
  <2>4. ~Ahead(page.last, channel', m.event, Len(channel') + 1)
    <3>1. Len(channel) + 1 \in 1..((Len(channel') + 1) - 1)
      BY <2>2
    <3> QED BY <2>2, <2>3, <3>1 DEF Ahead
  <2>5. Linked(handler'[page.link], page.last, channel')
    BY <2>3, <2>4 DEF Linked, None
  <2> QED BY <2>5, StreamAssumption DEF LinkInv, StreamAssumption
<1>5. ChannelTells({}, page.last, channel')
  BY <1>3, AppendTells DEF Rest
<1>6. ToldNothingNew'
  BY <1>5 DEF ToldNothingNew
<1> QED BY <1>1, <1>2, <1>4, <1>6 DEF Rest, ToldNothingNew
LEMMA HeldPairs ==
  /\ \A e \in DOMAIN events : IsPair(e, events[e])
  /\ \A e, q : HeldIn(channel, AnyMessage, e, q) => IsPair(e, q)
  /\ \A h \in Handler : \A e, q : HeldIn(queue[h], Updates, e, q) => IsPair(e, q)
  /\ \A e, q : HeldIn(committed, Updates, e, q) => IsPair(e, q)
  /\ \A h \in Handler :
        handler[h].stage = "waiting" => IsPair(handler[h].cursor, handler[h].sequence)
BY DEF IsPair, Waits

LEMMA FanoutPairs ==
  ASSUME Types, NEW u \in QueueItem,
         u.type \in Updates => IsPair(u.event, u.sequence),
         NEW h \in Handler, NEW e, NEW q, HeldIn(Fanout(u)[h], Updates, e, q)
  PROVE  IsPair(e, q)
<1>1. queue[h] \in Seq(QueueItem)
  BY DEF Types
<1>2. CASE Fanout(u)[h] = queue[h]
  BY <1>2, HeldPairs
<1>3. CASE Fanout(u)[h] = <<Resync>>
  <2>1. ~HeldIn(<<Resync>>, Updates, e, q)
    <3>1. Len(<<Resync>>) = 1 /\ <<Resync>>[1] = Resync /\ Resync.type \notin Updates
      BY DEF Resync, Updates
    <3> QED BY <3>1 DEF HeldIn
  <2> QED BY <1>3, <2>1
<1>4. CASE Fanout(u)[h] = Append(queue[h], u)
  <2>1. \/ HeldIn(queue[h], Updates, e, q)
        \/ u.type \in Updates /\ u.event = e /\ u.sequence = q
    BY <1>1, <1>4, HeldAppend
  <2> QED BY <2>1, HeldPairs
<1>5. \/ Fanout(u)[h] = queue[h] \/ Fanout(u)[h] = <<Resync>>
      \/ Fanout(u)[h] = Append(queue[h], u)
  BY DEF Fanout
<1> QED BY <1>2, <1>3, <1>4, <1>5

(* Where the pairs after a commit come from.                                  *)
LEMMA CommitPairs ==
  ASSUME Types, NEW n, NEW s,
         events' = Log!WithEvent(events, n, s),
         committed' = committed \/ committed' = <<Update(n, s)>>,
         UNCHANGED <<queue, handler, channel>>,
         NEW e, NEW q, IsPair(e, q)'
  PROVE  IsPair(e, q) \/ (e = n /\ q = s)
<1>1. \/ e = 0 /\ q = 0
      \/ e \in DOMAIN events' /\ q = events'[e]
      \/ HeldIn(channel, AnyMessage, e, q)
      \/ \E h \in Handler : HeldIn(queue[h], Updates, e, q)
      \/ HeldIn(committed', Updates, e, q)
      \/ \E h \in Handler : Waits(handler[h], e, q)
  <2>1. \/ e = 0 /\ q = 0
        \/ e \in DOMAIN events' /\ q = events'[e]
        \/ HeldIn(channel', AnyMessage, e, q)
        \/ \E h \in Handler : HeldIn(queue'[h], Updates, e, q)
        \/ HeldIn(committed', Updates, e, q)
        \/ \E h \in Handler : Waits(handler'[h], e, q)
    BY DEF IsPair, HeldIn, Waits
  <2> QED BY <2>1
<1>2. CASE e \in DOMAIN events' /\ q = events'[e]
  BY <1>2 DEF Log!WithEvent, IsPair
<1>3. CASE HeldIn(committed', Updates, e, q)
  <2>1. CASE committed' = committed
    BY <1>3, <2>1 DEF IsPair
  <2>2. CASE committed' = <<Update(n, s)>>
    <3>1. Len(committed') = 1 /\ committed'[1] = Update(n, s)
      BY <2>2
    <3>2. e = n /\ q = s
      BY <1>3, <3>1 DEF HeldIn, Update
    <3> QED BY <3>2
  <2> QED BY <2>1, <2>2
<1>4. CASE \/ e = 0 /\ q = 0
           \/ HeldIn(channel, AnyMessage, e, q)
           \/ \E h \in Handler : HeldIn(queue[h], Updates, e, q)
           \/ \E h \in Handler : Waits(handler[h], e, q)
  BY <1>4 DEF IsPair
<1> QED BY <1>1, <1>2, <1>3, <1>4

LEMMA MarketRest ==
  ASSUME StreamAssumption, Types, Types', Rest,
         CommitByWorker \/ CommitEmbedded \/ CommitUnheard \/ Reset
  PROVE  Rest'
<1>1. CASE CommitByWorker \/ CommitEmbedded \/ CommitUnheard
  <2>1. PICK e \in FreshEvents, q \in FreshSequences :
           /\ Commit(e, q)
           /\ committed' = committed \/ committed' = <<Update(e, q)>>
    BY <1>1 DEF CommitByWorker, CommitEmbedded, CommitUnheard
  <2>2. lastEvent \in Nat /\ lastSequence \in Nat
    BY DEF Types, MarketTypes
  <2>3. e \in Nat /\ e > lastEvent /\ q \in Nat /\ q > lastSequence
    BY <2>2, StreamAssumption DEF FreshEvents, FreshSequences, StreamAssumption
  <2>4. /\ events' = Log!WithEvent(events, e, q) /\ lastEvent' = e /\ lastSequence' = q
        /\ UNCHANGED <<queue, handler, channel, page>>
        /\ committed' = committed \/ committed' = <<Update(e, q)>>
    BY <2>1 DEF Commit, Log!Append
  <2>5. \A f, r : IsPair(f, r)' => IsPair(f, r) \/ (f = e /\ r = q)
    BY <2>4, CommitPairs
  <2> QED BY <2>3, <2>4, <2>5, NewestRest
<1>2. CASE Reset
  <2>1. /\ DOMAIN events' = {} /\ lastEvent' = lastEvent /\ lastSequence' = lastSequence
        /\ UNCHANGED <<committed, queue, handler, channel, page>>
    BY <1>2 DEF Reset, Log!Erase, Log!NoEvents
  <2>2. PairsFrom
    BY <2>1, HeldPairs DEF PairsFrom
  <2> QED BY <2>1, <2>2, QuietRest
<1> QED BY <1>1, <1>2

LEMMA PublicationRest ==
  ASSUME StreamAssumption, Types, Types', Rest,
         PublishUpdate \/ RelayPublish \/ RelayConnect \/ RelayDisconnect \/ AskBook
  PROVE  Rest'
<1>0. UNCHANGED <<events, lastEvent, lastSequence, page, handler, channel>>
  BY DEF PublishUpdate, RelayPublish, RelayConnect, RelayDisconnect, AskBook, market
<1>1. CASE PublishUpdate
  <2> DEFINE u == Head(committed)
  <2>1. /\ committed \in Seq(UpdateMessage) /\ committed # <<>>
        /\ queue' = Fanout(u) /\ committed' = <<>>
    BY <1>1 DEF PublishUpdate, Types
  <2>2. u \in UpdateMessage
    BY <2>1, HeadTailProperties
  <2>3. u \in QueueItem /\ u.type \in Updates
    BY <2>2 DEF UpdateMessage, QueueItem, Updates
  <2>4. HeldIn(committed, Updates, u.event, u.sequence)
    BY <2>1, <2>3, HeldHead
  <2>5. IsPair(u.event, u.sequence)
    BY <2>4, HeldPairs
  <2> HIDE DEF u
  <2>6. \A h \in Handler : \A e, q : HeldIn(queue'[h], Updates, e, q) => IsPair(e, q)
    BY <2>1, <2>3, <2>5, FanoutPairs
  <2>7. PairsFrom
    BY <1>0, <2>1, <2>6, HeldPairs, HeldNowhere DEF PairsFrom
  <2> QED BY <1>0, <2>7, QuietRest
<1>2. CASE RelayPublish
  <2> DEFINE u == LiveRefresh(Head(hints))
  <2>1. Head(hints) \in Nat /\ queue' = Fanout(u) /\ committed' = committed
    BY <1>2, HeadTailProperties DEF RelayPublish, Types
  <2>2. u \in QueueItem /\ u.type \notin Updates
    BY <2>1 DEF LiveRefresh, QueueItem, Updates
  <2> HIDE DEF u
  <2>3. \A h \in Handler : \A e, q : HeldIn(queue'[h], Updates, e, q) => IsPair(e, q)
    BY <2>1, <2>2, FanoutPairs
  <2>4. PairsFrom
    BY <1>0, <2>1, <2>3, HeldPairs DEF PairsFrom
  <2> QED BY <1>0, <2>4, QuietRest
<1>3. CASE RelayConnect \/ RelayDisconnect \/ AskBook
  <2>1. UNCHANGED <<committed, queue>>
    BY <1>3 DEF RelayConnect, RelayDisconnect, AskBook
  <2>2. PairsFrom
    BY <1>0, <2>1, HeldPairs DEF PairsFrom
  <2> QED BY <1>0, <2>2, QuietRest
<1> QED BY <1>1, <1>2, <1>3
LEMMA LatestIsLast ==
  ASSUME StreamAssumption, Types
  PROVE  Latest \in DOMAIN events \cup {0} /\ \A e \in DOMAIN events : e <= Latest
<1> DEFINE S == DOMAIN events \cup {0}
<1>1. MaxEvent \in Nat /\ S \in SUBSET Int /\ S # {} /\ \A x \in S : x <= MaxEvent
  BY DEF StreamAssumption, Types, MarketTypes
<1> HIDE DEF S
<1>2. Max(S) \in S /\ \A x \in S : Max(S) >= x
  BY <1>1, MaxOfBounded
<1>3. \A x \in S : x <= Max(S)
  BY <1>1, <1>2
<1> QED BY <1>2, <1>3 DEF Latest, S

LEMMA HeartbeatTells ==
  ASSUME NEW D, NEW last, NEW ch \in Seq(Message), NEW m \in Message,
         m.type = "heartbeat", ~Ahead(last, ch, m.event, Len(ch) + 1)
  PROVE  Tells(D, last, Append(ch, m), Len(ch) + 1)
<1> DEFINE n == Append(ch, m)
<1>1. /\ Len(ch) \in Nat /\ n[Len(ch) + 1] = m /\ \A i \in 1..Len(ch) : n[i] = ch[i]
  OBVIOUS
<1> HIDE DEF n
<1>2. ~Ahead(last, n, m.event, Len(ch) + 1)
  <2>1. \A j \in 1..((Len(ch) + 1) - 1) : n[j] = ch[j]
    BY <1>1
  <2> QED BY <2>1 DEF Ahead
<1> QED BY <1>1, <1>2 DEF Tells, n

(* A handler returns: what it held is gone.                                  *)
LEMMA EndRest ==
  ASSUME Types, Types', Rest, NEW h \in Handler, End(h), page.link # h,
         UNCHANGED <<events, lastEvent, lastSequence, committed, channel, page>>
  PROVE  Rest'
<1>1. /\ handler' = [handler EXCEPT ![h] = Idle] /\ queue' = [queue EXCEPT ![h] = <<>>]
      /\ handler \in [Handler -> HandlerState] /\ queue \in [Handler -> Seq(QueueItem)]
  BY DEF End, Types
<1>2. /\ handler'[h].stage # "waiting" /\ queue'[h] = <<>>
      /\ \A g \in Handler \ {h} : handler'[g] = handler[g] /\ queue'[g] = queue[g]
  BY <1>1 DEF Idle
<1>3. PairsFrom
  BY <1>2, HeldPairs, HeldNowhere DEF PairsFrom
<1> QED BY <1>2, <1>3, QuietRest

(* A handler takes the head of its queue, and stays as it is or begins to read. *)
LEMMA TakeRest ==
  ASSUME Types, Types', Rest, NEW h \in Handler,
         queue' = queue \/ (queue[h] # <<>> /\ queue' = [queue EXCEPT ![h] = Tail(@)]),
         handler' = handler \/ (handler[h].stage # "none"
                                /\ handler' = [handler EXCEPT ![h].stage = "reading"]),
         UNCHANGED <<events, lastEvent, lastSequence, committed, channel, page>>
  PROVE  Rest'
<1>1. handler \in [Handler -> HandlerState] /\ queue \in [Handler -> Seq(QueueItem)]
  BY DEF Types
<1>2. ASSUME NEW g \in Handler, NEW e, NEW q, HeldIn(queue'[g], Updates, e, q)
      PROVE  IsPair(e, q)
  <2>1. CASE queue'[g] = queue[g]
    BY <1>2, <2>1, HeldPairs
  <2>2. CASE queue[g] # <<>> /\ queue'[g] = Tail(queue[g])
    <3>1. queue[g] \in Seq(QueueItem)
      BY <1>1
    <3>2. HeldIn(queue[g], Updates, e, q)
      BY <1>2, <2>2, <3>1, HeldTail
    <3> QED BY <3>2, HeldPairs
  <2> QED BY <1>1, <2>1, <2>2
<1>3. ASSUME NEW g \in Handler
      PROVE  LET s == handler[g]
                 t == handler'[g]
             IN  t = s \/ (s.stage # "none" /\ t.stage = "reading" /\ t.cursor = s.cursor)
  BY <1>1 DEF HandlerState
<1>4. PairsFrom
  BY <1>2, <1>3, HeldPairs DEF PairsFrom
<1> QED BY <1>3, <1>4, QuietRest

(* What a handler may send keeps the pairs it is made of.                     *)
LEMMA DeliverRest ==
  ASSUME Types, Types', Rest, NEW h \in Handler, NEW m \in Message, NEW next \in HandlerState,
         Deliver(h, m, next), next.stage = "waiting",
         next.cursor = m.event, next.sequence = m.sequence, IsPair(m.event, m.sequence),
         page.link = h => Tells({}, page.last, Append(channel, m), Len(channel) + 1),
         UNCHANGED <<events, lastEvent, lastSequence, committed, page>>
  PROVE  Rest'
<1>1. /\ handler \in [Handler -> HandlerState] /\ channel \in Seq(Message)
  BY DEF Types
<1>2. CASE page.link = h
  <2>1. /\ channel' = Append(channel, m) /\ queue' = queue
        /\ handler' = [handler EXCEPT ![h] = next]
    BY <1>2 DEF Deliver
  <2>2. handler'[h] = next /\ \A g \in Handler \ {h} : handler'[g] = handler[g]
    BY <1>1, <2>1
  <2>3. ASSUME NEW e, NEW q, HeldIn(channel', AnyMessage, e, q) PROVE IsPair(e, q)
    <3>1. HeldIn(channel, AnyMessage, e, q) \/ (m.event = e /\ m.sequence = q)
      BY <1>1, <2>1, <2>3, HeldAppend
    <3> QED BY <3>1, HeldPairs
  <2>4. PairsFrom
    BY <2>1, <2>2, <2>3, HeldPairs DEF PairsFrom
  <2> QED BY <1>2, <2>1, <2>2, <2>4, SentRest
<1>3. CASE page.link # h
  <2>1. End(h) /\ channel' = channel
    BY <1>3 DEF Deliver
  <2> QED BY <1>3, <2>1, EndRest
<1> QED BY <1>2, <1>3

LEMMA SnapshotTells ==
  ASSUME StreamAssumption, Types, Rest, NEW h \in Handler,
         page.link = h
  PROVE  /\ Tells({}, page.last, Append(channel, Snapshot(handler[h].cursor)), Len(channel) + 1)
         /\ handler[h].cursor = None => Len(channel) + 1 = 1 /\ page.last = 0
         /\ \A e \in DOMAIN events : e <= Latest
<1> DEFINE m == Snapshot(handler[h].cursor)
<1>1. channel \in Seq(Message)
  BY DEF Types
<1>2. Append(channel, m)[Len(channel) + 1] = m /\ Len(channel) \in Nat
  BY <1>1
<1>3. m.type = "snapshot" /\ m.event = Latest
      /\ (m.initial <=> handler[h].cursor = None) /\ m.recovered \subseteq DOMAIN events
  BY DEF Snapshot, Recovered
<1>4. \A e \in DOMAIN events : e <= Latest
  BY LatestIsLast
<1>5. handler[h].cursor = None => channel = <<>> /\ page.last = 0
  BY DEF Rest, LinkInv, Linked
<1>6. handler[h].cursor = None => Len(channel) + 1 = 1 /\ page.last = 0
  BY <1>5
<1> HIDE DEF m
<1>7. Tells({}, page.last, Append(channel, m), Len(channel) + 1)
  BY <1>2, <1>3, <1>4, <1>6 DEF Tells
<1> QED BY <1>4, <1>6, <1>7 DEF m

LEMMA ServeRest ==
  ASSUME StreamAssumption, Types, Types', Rest, NEW h \in Handler,
         \/ SendSnapshot(h) \/ TakeMarker(h) \/ DropUpdate(h) \/ SendUpdate(h)
         \/ FindMissed(h) \/ SendHeartbeat(h) \/ Subscribe(h)
  PROVE  Rest'
<1>0. UNCHANGED <<events, lastEvent, lastSequence, committed, page>>
  BY DEF SendSnapshot, TakeMarker, DropUpdate, SendUpdate, FindMissed, SendHeartbeat,
         Subscribe, market
<1>1. /\ handler \in [Handler -> HandlerState] /\ handler[h] \in HandlerState
      /\ queue \in [Handler -> Seq(QueueItem)] /\ queue[h] \in Seq(QueueItem)
      /\ channel \in Seq(Message)
  BY DEF Types
<1>2. CASE TakeMarker(h) \/ DropUpdate(h) \/ FindMissed(h) \/ Subscribe(h)
  <2>1. /\ channel' = channel
        /\ queue' = queue \/ (queue[h] # <<>> /\ queue' = [queue EXCEPT ![h] = Tail(@)])
        /\ handler' = handler \/ (handler[h].stage # "none"
                                  /\ handler' = [handler EXCEPT ![h].stage = "reading"])
    BY <1>2 DEF TakeMarker, DropUpdate, FindMissed, Subscribe
  <2> QED BY <1>0, <2>1, TakeRest
<1>3. CASE SendSnapshot(h)
  <2> DEFINE next == [stage |-> "waiting", cursor |-> Latest, sequence |-> LatestSequence]
             m == Snapshot(handler[h].cursor)
  <2>1. Latest \in 0..MaxEvent /\ LatestSequence \in Nat
    BY LatestTypes DEF Types
  <2>2. /\ next \in HandlerState /\ next.stage = "waiting"
        /\ next.cursor = Latest /\ next.sequence = LatestSequence
    BY <2>1 DEF HandlerState
  <2>3. m \in Message
    BY <1>1, SnapshotTypes DEF Types, Message, HandlerState
  <2>4. m.event = Latest /\ m.sequence = LatestSequence
    BY DEF Snapshot
  <2>5. IsPair(Latest, LatestSequence)
    <3>1. Latest \in DOMAIN events \cup {0}
      BY LatestIsLast
    <3> QED BY <3>1 DEF IsPair, LatestSequence
  <2>6. Deliver(h, m, next)
    BY <1>3 DEF SendSnapshot
  <2>7. page.link = h => Tells({}, page.last, Append(channel, m), Len(channel) + 1)
    BY SnapshotTells
  <2> HIDE DEF m, next
  <2> QED BY <1>0, <2>2, <2>3, <2>4, <2>5, <2>6, <2>7, DeliverRest
<1>4. CASE SendHeartbeat(h)
  <2> DEFINE m == Heartbeat(h)
  <2>1. Deliver(h, m, handler[h]) /\ handler[h].stage = "waiting"
    BY <1>4 DEF SendHeartbeat
  <2>2. m \in Message
    BY <1>1 DEF Heartbeat, HeartbeatMessage, Message, HandlerState
  <2>3. m.type = "heartbeat" /\ m.event = handler[h].cursor /\ m.sequence = handler[h].sequence
    BY DEF Heartbeat
  <2> HIDE DEF m
  <2>4. IsPair(m.event, m.sequence)
    BY <2>1, <2>3, HeldPairs
  <2>5. page.link = h => Tells({}, page.last, Append(channel, m), Len(channel) + 1)
    <3> SUFFICES ASSUME page.link = h
                 PROVE  Tells({}, page.last, Append(channel, m), Len(channel) + 1)
      OBVIOUS
    <3>1. ~Ahead(page.last, channel, m.event, Len(channel) + 1)
      BY <2>3 DEF Rest, LinkInv, Linked
    <3> QED BY <1>1, <2>2, <2>3, <3>1, HeartbeatTells
  <2> QED BY <1>0, <1>1, <2>1, <2>2, <2>3, <2>4, <2>5, DeliverRest
<1>5. CASE SendUpdate(h)
  <2> DEFINE m == Head(queue[h])
  <2>1. queue[h] # <<>> /\ m.type = "market_update" /\ handler[h].stage = "waiting"
    BY <1>5 DEF SendUpdate
  <2>2. m \in QueueItem
    BY <1>1, <2>1, HeadTailProperties
  <2>3. m \in Message
    BY <2>1, <2>2 DEF QueueItem, UpdateMessage, Message
  <2>4. IsPair(m.event, m.sequence)
    <3>1. HeldIn(queue[h], Updates, m.event, m.sequence)
      BY <1>1, <2>1, HeldHead DEF Updates
    <3> QED BY <3>1, HeldPairs
  <2>5. CASE page.link = h
    <3>1. /\ channel' = Append(channel, m)
          /\ handler' = [handler EXCEPT ![h].cursor = m.event, ![h].sequence = m.sequence]
          /\ queue' = [queue EXCEPT ![h] = Tail(@)]
      BY <1>5, <2>5 DEF SendUpdate
    <3> HIDE DEF m
    <3>2. /\ handler'[h].stage = "waiting" /\ handler'[h].cursor = m.event
          /\ handler'[h].sequence = m.sequence
          /\ \A g \in Handler \ {h} : handler'[g] = handler[g] /\ queue'[g] = queue[g]
          /\ queue'[h] = Tail(queue[h])
      <4> DEFINE u == m.event
                 v == m.sequence
      <4>1. handler' = [handler EXCEPT ![h] = [@ EXCEPT !.cursor = u, !.sequence = v]]
        BY <1>1, <3>1
      <4> HIDE DEF u, v
      <4>2. /\ handler'[h].stage = "waiting" /\ handler'[h].cursor = u /\ handler'[h].sequence = v
            /\ \A g \in Handler \ {h} : handler'[g] = handler[g]
        BY <1>1, <2>1, <4>1 DEF HandlerState
      <4> QED BY <1>1, <3>1, <4>2 DEF u, v
    <3>3. ASSUME NEW e, NEW q, HeldIn(channel', AnyMessage, e, q) PROVE IsPair(e, q)
      <4>1. HeldIn(channel, AnyMessage, e, q) \/ (m.event = e /\ m.sequence = q)
        BY <1>1, <2>3, <3>1, <3>3, HeldAppend
      <4> QED BY <2>4, <4>1, HeldPairs
    <3>4. ASSUME NEW e, NEW q, HeldIn(queue'[h], Updates, e, q) PROVE IsPair(e, q)
      <4>1. HeldIn(queue[h], Updates, e, q)
        BY <1>1, <2>1, <3>2, <3>4, HeldTail
      <4> QED BY <4>1, HeldPairs
    <3>5. PairsFrom
      BY <1>0, <2>4, <3>2, <3>3, <3>4, HeldPairs DEF PairsFrom
    <3>6. Tells({}, page.last, Append(channel, m), Len(channel) + 1)
      <4>1. Append(channel, m)[Len(channel) + 1] = m
        BY <1>1
      <4> QED BY <2>1, <4>1 DEF Tells, m
    <3> QED BY <1>0, <2>3, <2>4, <2>5, <3>1, <3>2, <3>5, <3>6, SentRest
  <2>6. CASE page.link # h
    <3>1. End(h) /\ channel' = channel
      BY <1>5, <2>6 DEF SendUpdate
    <3> QED BY <1>0, <2>6, <3>1, EndRest
  <2> QED BY <2>5, <2>6
<1> QED BY <1>2, <1>3, <1>4, <1>5

-----------------------------------------------------------------------------
(* A message that agrees with the page: what the stream has applied the page    *)
(* has received, and what it has received the sequence it shows includes.       *)
Agrees(p, m) ==
    /\ m.sequence <= p.applied => m.event <= p.last
    /\ m.event <= p.last => m.sequence <= p.sequence

(* What such a message p becomes r by has moved, and what the page learns.       *)
Moved(p, r, m) ==
    /\ r.link = p.link /\ r.retry = p.retry /\ BookSound(r)
    /\ r.last = Larger(p.last, m.event)
    /\ \/ r.last = p.last /\ r.applied = p.applied /\ r.sequence = p.sequence
       \/ /\ r.applied = Larger(p.applied, m.sequence)
          /\ r.sequence = Larger(p.sequence, m.sequence)

Learned(p, r, m) ==
    /\ m.type = "heartbeat" => r.outcomes = p.outcomes /\ r.since = p.since
    /\ m.type = "market_update" =>
          /\ r.since = p.since /\ p.outcomes \subseteq r.outcomes
          /\ m.event > p.last => m.event \in r.outcomes
    /\ m.type = "snapshot" =>
          /\ r.outcomes = p.outcomes \cup {e \in m.recovered : e > p.last}
          /\ r.since = IF m.initial THEN m.event
                       ELSE IF m.truncated THEN Larger(p.since, Min(m.recovered) - 1)
                       ELSE p.since

LEMMA HeartbeatMoves ==
  ASSUME NEW p \in PageState, BookSound(p), NEW m \in HeartbeatMessage, Agrees(p, m),
         m.event <= p.last
  PROVE  Moved(p, OnHeartbeat(p, m), m) /\ Learned(p, OnHeartbeat(p, m), m)
<1> DEFINE s == Larger(p.sequence, m.sequence)
           l == Larger(p.last, m.event)
           r == [p EXCEPT !.sequence = s, !.last = l]
<1>1. p.sequence \in Int /\ p.last \in Int /\ m.event \in Int /\ m.sequence \in Nat
      /\ m.type = "heartbeat"
  BY DEF PageState, HeartbeatMessage
<1>2. OnHeartbeat(p, m) = r
  BY DEF OnHeartbeat
<1>3. s = p.sequence /\ l = p.last
  BY <1>1 DEF Agrees, Larger
<1>4. l = Larger(p.last, m.event)
  OBVIOUS
<1> HIDE DEF s, l
<1>5. /\ r.link = p.link /\ r.retry = p.retry /\ r.last = l /\ r.sequence = s
      /\ r.applied = p.applied /\ r.book = p.book
      /\ r.outcomes = p.outcomes /\ r.since = p.since
  BY DEF PageState
<1> HIDE DEF r
<1>6. BookSound(r)
  BY <1>3, <1>5 DEF BookSound
<1> QED BY <1>1, <1>2, <1>3, <1>4, <1>5, <1>6 DEF Moved, Learned

LEMMA UpdateMoves ==
  ASSUME NEW p \in PageState, BookSound(p), NEW m \in UpdateMessage, Agrees(p, m)
  PROVE  Moved(p, OnUpdate(p, m), m) /\ Learned(p, OnUpdate(p, m), m)
<1>1. /\ p.last \in Int /\ p.applied \in Int /\ m.event \in Nat /\ m.sequence \in Nat
      /\ m.type = "market_update"
  BY DEF PageState, UpdateMessage
<1>2. CASE m.event <= p.last \/ m.sequence <= p.applied
  <2>1. OnUpdate(p, m) = p
    BY <1>2 DEF OnUpdate
  <2>2. m.event <= p.last /\ ~(m.event > p.last)
    BY <1>1, <1>2 DEF Agrees
  <2>3. Larger(p.last, m.event) = p.last
    BY <1>1, <2>2 DEF Larger
  <2> QED BY <1>1, <2>1, <2>2, <2>3 DEF Moved, Learned
<1>3. CASE ~(m.event <= p.last \/ m.sequence <= p.applied)
  <2> DEFINE n == WithCurrent(p, m)
             o == n.outcomes \cup {m.event}
             r == [n EXCEPT !.outcomes = o]
  <2>1. OnUpdate(p, m) = r
    BY <1>3 DEF OnUpdate
  <2>2. /\ BookSound(n) /\ SameUser(n, p) /\ n.last = Larger(p.last, m.event)
        /\ n.applied = Larger(p.applied, m.sequence)
        /\ n.sequence = Larger(p.sequence, m.sequence)
    BY <1>1, CurrentIs
  <2>3. n \in PageState
    BY <1>1, WithCurrentForward
  <2>4. p.outcomes \subseteq o /\ m.event \in o
    BY <2>2 DEF SameUser
  <2> HIDE DEF n, o
  <2>5. /\ r.link = n.link /\ r.retry = n.retry /\ r.last = n.last /\ r.applied = n.applied
        /\ r.book = n.book /\ r.sequence = n.sequence /\ r.since = n.since /\ r.outcomes = o
    BY <2>3 DEF PageState
  <2> HIDE DEF r
  <2>6. BookSound(r)
    BY <2>2, <2>5 DEF BookSound
  <2> QED BY <1>1, <2>1, <2>2, <2>4, <2>5, <2>6 DEF Moved, Learned, SameUser
<1> QED BY <1>2, <1>3

LEMMA SnapshotMoves ==
  ASSUME StreamAssumption, NEW p \in PageState, BookSound(p), NEW m \in SnapshotMessage,
         Agrees(p, m), \A e \in m.recovered : e <= m.event
  PROVE  Moved(p, OnSnapshot(p, m), m) /\ Learned(p, OnSnapshot(p, m), m)
<1> DEFINE t == WithRecovered(p, m)
           unseen == {e \in m.recovered : e > p.last}
           since == IF m.initial THEN m.event
                    ELSE IF m.truncated THEN Larger(p.since, Min(m.recovered) - 1)
                    ELSE p.since
<1>1. /\ p.last \in Int /\ p.applied \in Int /\ m.event \in Nat /\ m.sequence \in Nat
      /\ m.type = "snapshot"
  BY DEF PageState, SnapshotMessage
<1>2. /\ t.link = p.link /\ t.retry = p.retry /\ t.book = p.book
      /\ t.applied = p.applied /\ t.sequence = p.sequence
      /\ t.outcomes = p.outcomes \cup unseen /\ t.since = since
      /\ t.last \in Int /\ t.last >= p.last
      /\ t.last = p.last \/ (t.last <= m.event /\ t.last > p.last)
  BY RecoveredIs
<1>3. t \in PageState
  BY WithRecoveredForward
<1>4. BookSound(t)
  BY <1>2 DEF BookSound
<1>5. ASSUME NEW r, r.outcomes = t.outcomes, r.since = t.since PROVE Learned(p, r, m)
  BY <1>1, <1>2, <1>5 DEF Learned
<1> HIDE DEF t, unseen, since
<1>6. CASE m.sequence < p.applied
  <2>1. OnSnapshot(p, m) = t
    BY <1>6 DEF OnSnapshot, t
  <2>2. m.event <= p.last
    BY <1>1, <1>6 DEF Agrees
  <2>3. t.last = p.last /\ Larger(p.last, m.event) = p.last
    BY <1>1, <1>2, <2>2 DEF Larger
  <2>4. Moved(p, t, m)
    BY <1>2, <1>4, <2>3 DEF Moved
  <2> QED BY <1>5, <2>1, <2>4
<1>7. CASE ~(m.sequence < p.applied)
  <2> DEFINE n == WithCurrent(t, m)
  <2>1. OnSnapshot(p, m) = n
    BY <1>7 DEF OnSnapshot, t
  <2>2. /\ BookSound(n) /\ SameUser(n, t) /\ n.last = Larger(t.last, m.event)
        /\ n.applied = Larger(t.applied, m.sequence)
        /\ n.sequence = Larger(t.sequence, m.sequence)
    BY <1>1, <1>3, <1>4, CurrentIs
  <2>3. Larger(t.last, m.event) = Larger(p.last, m.event)
    BY <1>1, <1>2 DEF Larger
  <2> HIDE DEF n
  <2>4. Moved(p, n, m)
    BY <1>2, <2>2, <2>3 DEF Moved, SameUser
  <2> QED BY <1>5, <2>1, <2>2, <2>4 DEF SameUser
<1> QED BY <1>6, <1>7
(* What a page receives agrees with it.                                      *)
LEMMA ReceiveMoves ==
  ASSUME StreamAssumption, Types, Rest, Receive
  PROVE  /\ channel # <<>> /\ channel' = Tail(channel)
         /\ Head(channel) \in Message /\ IsPair(Head(channel).event, Head(channel).sequence)
         /\ Moved(page, page', Head(channel)) /\ Learned(page, page', Head(channel))
<1> DEFINE m == Head(channel)
<1>1. /\ channel # <<>> /\ channel \in Seq(Message) /\ channel' = Tail(channel)
      /\ page \in PageState /\ BookSound(page)
  BY DEF Receive, Types, Rest, PageInv
<1>2. m \in Message
  BY <1>1, HeadTailProperties
<1>3. m.type \in AnyMessage
  BY <1>2, MessageEvent DEF AnyMessage
<1>4. HeldIn(channel, AnyMessage, m.event, m.sequence)
  BY <1>1, <1>3, HeldHead
<1>5. IsPair(m.event, m.sequence)
  BY <1>4, HeldPairs
<1>6. Agrees(page, m)
  BY <1>5 DEF Rest, PageInv, Agrees
<1>7. Tells({}, page.last, channel, 1) /\ channel[1] = m
  <2>1. 1 \in 1..Len(channel) /\ channel[1] = m
    BY <1>1, EmptySeq
  <2> QED BY <2>1 DEF Rest, ChannelTells
<1>8. Moved(page, page', m) /\ Learned(page, page', m)
  <2>1. CASE m \in HeartbeatMessage
    <3>1. page' = OnHeartbeat(page, m) /\ m.type = "heartbeat" /\ m.event \in Int
      BY <2>1 DEF Receive, HeartbeatMessage
    <3> HIDE DEF m
    <3>2. ~Ahead(page.last, channel, m.event, 1)
      BY <1>7, <3>1 DEF Tells
    <3>3. m.event <= page.last
      <4>1. \A j \in 1..(1 - 1) : FALSE
        OBVIOUS
      <4>2. page.last \in Int
        BY <1>1 DEF PageState
      <4> QED BY <3>1, <3>2, <4>1, <4>2 DEF Ahead
    <3> QED BY <1>1, <1>6, <2>1, <3>1, <3>3, HeartbeatMoves
  <2>2. CASE m \in UpdateMessage
    <3>1. page' = OnUpdate(page, m)
      BY <2>2 DEF Receive, UpdateMessage
    <3> HIDE DEF m
    <3> QED BY <1>1, <1>6, <2>2, <3>1, UpdateMoves
  <2>3. CASE m \in SnapshotMessage
    <3>1. page' = OnSnapshot(page, m) /\ m.type = "snapshot"
      BY <2>3 DEF Receive, SnapshotMessage
    <3> HIDE DEF m
    <3>2. \A e \in m.recovered : e <= m.event
      BY <1>7, <3>1 DEF Tells
    <3> QED BY <1>1, <1>6, <2>3, <3>1, <3>2, SnapshotMoves
  <2> QED BY <1>2, <2>1, <2>2, <2>3 DEF Message
<1> QED BY <1>1, <1>2, <1>5, <1>8

LEMMA ReceiveRest ==
  ASSUME StreamAssumption, Types, Types', Rest, Receive
  PROVE  Rest'
<1> DEFINE m == Head(channel)
<1>0. /\ UNCHANGED <<events, lastEvent, lastSequence, committed, queue, handler>>
      /\ channel \in Seq(Message) /\ page \in PageState /\ page' \in PageState
  BY DEF Receive, market, Types
<1>1. /\ channel # <<>> /\ channel' = Tail(channel) /\ m \in Message
      /\ IsPair(m.event, m.sequence) /\ Moved(page, page', m)
  BY ReceiveMoves
<1> HIDE DEF m
<1>2. PairsFrom
  <2>1. \A e, q : HeldIn(channel', AnyMessage, e, q) => IsPair(e, q)
    BY <1>0, <1>1, HeldTail, HeldPairs
  <2> QED BY <1>0, <2>1, HeldPairs DEF PairsFrom
<1>3. PairsPast' /\ PairsOrdered'
  BY <1>0, <1>2, PairsKept
<1>4. /\ m.event \in 0..lastEvent /\ m.sequence \in 0..lastSequence
      /\ lastEvent \in Nat /\ lastSequence \in Nat
      /\ page.last \in Int /\ page.applied \in Int /\ page.sequence \in Int
  <2>1. m.event \in 0..lastEvent /\ m.sequence \in 0..lastSequence
    BY <1>1 DEF Rest, PairsPast
  <2>2. lastEvent \in Nat /\ lastSequence \in Nat
    BY DEF Types, MarketTypes
  <2>3. page.last \in Int /\ page.applied \in Int /\ page.sequence \in Int
    BY <1>0 DEF PageState
  <2> QED BY <2>1, <2>2, <2>3
<1>5. PageInv'
  <2>1. CASE /\ page'.last = page.last /\ page'.applied = page.applied
             /\ page'.sequence = page.sequence
    <3>1. page'.sequence >= page.sequence /\ BookSound(page')
      BY <1>1, <1>4, <2>1 DEF Moved
    <3> QED BY <1>0, <1>2, <2>1, <3>1, PageKept
  <2>2. CASE /\ page'.applied = Larger(page.applied, m.sequence)
             /\ page'.sequence = Larger(page.sequence, m.sequence)
    <3>1. page'.last = Larger(page.last, m.event) /\ BookSound(page')
      BY <1>1 DEF Moved
    <3>2. page.last \in 0..lastEvent /\ page.applied <= lastSequence
      BY DEF Rest, PageInv
    <3>3. page'.last \in 0..lastEvent' /\ page'.applied <= lastSequence'
      BY <1>0, <1>4, <2>2, <3>1, <3>2 DEF Larger
    <3>4. ASSUME NEW e, NEW q, IsPair(e, q)'
          PROVE  /\ q <= page'.applied => e <= page'.last
                 /\ e <= page'.last => q <= page'.sequence
      <4>1. IsPair(e, q)
        BY <1>2, <3>4, NoNewPair
      <4>2. e \in Int /\ q \in Int
        BY <4>1 DEF Rest, PairsPast
      <4>3. /\ q <= page.applied => e <= page.last
            /\ e <= page.last => q <= page.sequence
            /\ (q <= m.sequence) <=> (e <= m.event)
        BY <1>1, <4>1 DEF Rest, PageInv, PairsOrdered
      <4>4. (q <= page'.applied) <=> (q <= page.applied \/ q <= m.sequence)
        BY <1>4, <2>2, <4>2 DEF Larger
      <4>5. (e <= page'.last) <=> (e <= page.last \/ e <= m.event)
        BY <1>4, <3>1, <4>2 DEF Larger
      <4>6. (q <= page'.sequence) <=> (q <= page.sequence \/ q <= m.sequence)
        BY <1>4, <2>2, <4>2 DEF Larger
      <4> QED BY <4>3, <4>4, <4>5, <4>6
    <3> QED BY <3>1, <3>3, <3>4 DEF PageInv
  <2> QED BY <1>1, <2>1, <2>2 DEF Moved
<1>6. page'.last = Larger(page.last, m.event) /\ page'.link = page.link
  BY <1>1 DEF Moved
<1>7. LinkInv'
  <2>1. page.link \in Handler /\ page.link # NoHandler
    BY <1>0, <1>1, StreamAssumption DEF Rest, LinkInv, PageState, StreamAssumption
  <2>2. Linked(handler[page.link], page.last, channel)
    BY <2>1 DEF Rest, LinkInv
  <2> DEFINE c == handler[page.link].cursor
  <2>3. c \in Int
    BY <2>1 DEF Types, HandlerState
  <2>4. ~Ahead(page.last, channel, c, Len(channel) + 1)
    BY <2>2 DEF Linked
  <2>5. Len(channel') + 1 = Len(channel) /\ Len(channel) \in Nat /\ Len(channel) > 0
    BY <1>0, <1>1, EmptySeq
  <2>6. ~Ahead(page'.last, channel', c, Len(channel') + 1)
    <3> HIDE DEF c
    <3> QED BY <1>0, <1>1, <1>4, <1>6, <2>3, <2>4, <2>5, AheadOfTail DEF m
  <2>7. Linked(handler[page.link], page'.last, channel')
    BY <1>1, <2>2, <2>6 DEF Linked
  <2> QED BY <1>0, <1>6, <2>1, <2>7 DEF LinkInv
<1>8. ToldNothingNew'
  <2>1. ChannelTells({}, page.last, channel)
    BY DEF Rest
  <2>2. ChannelTells({}, page'.last, channel')
    BY <1>0, <1>1, <1>4, <1>6, <2>1, TailTells DEF m
  <2> QED BY <2>2 DEF ToldNothingNew
<1> QED BY <1>3, <1>5, <1>7, <1>8 DEF Rest, ToldNothingNew

(* The page is without a socket, and nothing is under way to it.               *)
LEMMA UnlinkRest ==
  ASSUME StreamAssumption, Types, Types', Rest, PairsFrom,
         lastEvent' = lastEvent, lastSequence' = lastSequence, channel' = <<>>,
         page' = Unlinked(page) \/ (page' = page /\ page.link = NoHandler)
  PROVE  Rest'
<1>1. page \in PageState /\ page' \in PageState /\ page.sequence \in Int
  BY DEF Types, PageState
<1>2. /\ page'.last = page.last /\ page'.applied = page.applied /\ page'.book = page.book
      /\ page'.sequence = page.sequence /\ page'.link = NoHandler
      /\ page'.retry \/ page'.last = 0
  <2>1. CASE page' = Unlinked(page)
    BY <1>1, <2>1 DEF Unlinked, PageState
  <2>2. CASE page' = page /\ page.link = NoHandler
    BY <2>2 DEF Rest, LinkInv
  <2> QED BY <2>1, <2>2
<1>3. PairsPast' /\ PairsOrdered'
  BY PairsKept
<1>4. PageInv'
  <2>1. BookSound(page') /\ page'.sequence >= page.sequence
    BY <1>1, <1>2 DEF Rest, PageInv, BookSound
  <2> QED BY <1>1, <1>2, <2>1, PageKept
<1>5. LinkInv'
  BY <1>2, StreamAssumption DEF LinkInv, StreamAssumption
<1>6. ToldNothingNew'
  BY EmptyTells DEF ToldNothingNew
<1> QED BY <1>3, <1>4, <1>5, <1>6 DEF Rest, ToldNothingNew

LEMMA LinkRest ==
  ASSUME StreamAssumption, Types, Types', Rest, NEW h \in Handler, Refuse(h) \/ Connect(h)
  PROVE  Rest'
<1>0. UNCHANGED <<events, lastEvent, lastSequence, committed, channel>>
  BY DEF Refuse, Connect, market
<1>1. /\ handler \in [Handler -> HandlerState] /\ queue \in [Handler -> Seq(QueueItem)]
      /\ page \in PageState
  BY DEF Types
<1>2. CASE Refuse(h)
  <2>1. handler[h].stage = "accepted" /\ End(h)
    BY <1>2 DEF Refuse
  <2>2. CASE page.link = h
    <3>1. page' = Unlinked(page)
      BY <1>2, <2>2 DEF Refuse
    <3>2. channel = <<>>
      BY <2>1, <2>2 DEF Rest, LinkInv, Linked
    <3>3. /\ handler'[h].stage # "waiting" /\ queue'[h] = <<>>
          /\ \A g \in Handler \ {h} : handler'[g] = handler[g] /\ queue'[g] = queue[g]
      BY <1>1, <2>1 DEF End, Idle
    <3>4. PairsFrom
      BY <1>0, <3>3, HeldPairs, HeldNowhere DEF PairsFrom
    <3> QED BY <1>0, <3>1, <3>2, <3>4, UnlinkRest
  <2>3. CASE page.link # h
    <3>1. page' = page
      BY <1>2, <2>3 DEF Refuse
    <3> QED BY <1>0, <2>1, <2>3, <3>1, EndRest
  <2> QED BY <2>2, <2>3
<1>3. CASE Connect(h)
  <2> DEFINE c == IF page.retry THEN page.last ELSE None
             s == [Idle EXCEPT !.stage = "accepted", !.cursor = c]
  <2>1. /\ page.link = NoHandler /\ page' = [page EXCEPT !.link = h]
        /\ handler' = [handler EXCEPT ![h] = s] /\ queue' = queue
    BY <1>3 DEF Connect
  <2>2. s.stage = "accepted" /\ s.cursor = c
    BY DEF Idle
  <2>3. channel = <<>> /\ (page.retry \/ page.last = 0) /\ page.last \in Nat
    <3>1. page.last \in 0..lastEvent /\ lastEvent \in Nat
      BY DEF Rest, PageInv, Types, MarketTypes
    <3> QED BY <2>1, <3>1 DEF Rest, LinkInv
  <2>4. c \in Int /\ ~(c > page.last) /\ (c = None => page.last = 0)
    BY <2>3 DEF None
  <2> HIDE DEF c, s
  <2>5. /\ handler'[h] = s /\ \A g \in Handler \ {h} : handler'[g] = handler[g]
        /\ page'.link = h /\ page'.last = page.last /\ page'.applied = page.applied
        /\ page'.book = page.book /\ page'.sequence = page.sequence
    BY <1>1, <2>1 DEF PageState
  <2>6. PairsFrom
    BY <1>0, <2>1, <2>2, <2>5, HeldPairs DEF PairsFrom
  <2>7. PairsPast' /\ PairsOrdered'
    BY <1>0, <2>6, PairsKept
  <2>8. PageInv'
    <3>1. page' \in PageState /\ page'.sequence >= page.sequence /\ BookSound(page')
      <4>1. BookSound(page) /\ page.sequence \in Int
        BY <1>1 DEF Rest, PageInv, PageState
      <4>2. BookSound(page') /\ page'.sequence >= page.sequence
        BY <2>5, <4>1 DEF BookSound
      <4> QED BY <4>2 DEF Types
    <3> QED BY <1>0, <2>5, <2>6, <3>1, PageKept
  <2>9. Linked(s, page.last, channel)
    BY <2>2, <2>3, <2>4 DEF Linked, Ahead
  <2>10. LinkInv'
    BY <1>0, <2>5, <2>9, StreamAssumption DEF LinkInv, StreamAssumption
  <2>11. ToldNothingNew'
    BY <1>0, <2>3, EmptyTells DEF ToldNothingNew
  <2> QED BY <2>7, <2>8, <2>10, <2>11 DEF Rest, ToldNothingNew
<1> QED BY <1>2, <1>3

LEMMA PageRest ==
  ASSUME StreamAssumption, Types, Types', Rest, AnswerBook \/ Break \/ Reopen \/ Restart
  PROVE  Rest'
<1>0. UNCHANGED <<events, lastEvent, lastSequence>> /\ page \in PageState /\ page' \in PageState
  BY DEF AnswerBook, Break, Reopen, Restart, market, Types
<1>1. CASE AnswerBook
  <2>1. PICK q \in answers : page' = WithBook(page, q)
    BY <1>1 DEF AnswerBook
  <2>2. UNCHANGED <<committed, queue, handler, channel>>
    BY <1>1 DEF AnswerBook
  <2>3. q \in Nat /\ BookSound(page)
    BY DEF Types, Rest, PageInv
  <2>4. /\ BookSound(page') /\ SameUser(page', page) /\ page'.last = page.last
        /\ page'.applied = page.applied /\ page'.sequence >= page.sequence
    BY <1>0, <2>1, <2>3, AnswerSound
  <2>5. PairsFrom
    BY <1>0, <2>2, HeldPairs DEF PairsFrom
  <2>6. PairsPast' /\ PairsOrdered'
    BY <1>0, <2>5, PairsKept
  <2>7. PageInv'
    BY <1>0, <2>4, <2>5, PageKept
  <2>8. LinkInv' /\ ToldNothingNew'
    BY <2>2, <2>4 DEF Rest, LinkInv, ToldNothingNew, SameUser
  <2> QED BY <2>6, <2>7, <2>8 DEF Rest, ToldNothingNew
<1>2. CASE Break
  <2>1. PairsFrom
    <3>1. channel' = <<>> /\ UNCHANGED <<committed, queue, handler>>
      BY <1>2 DEF Break
    <3> QED BY <1>0, <3>1, HeldPairs, HeldNowhere DEF PairsFrom
  <2> QED BY <1>0, <1>2, <2>1, UnlinkRest DEF Break
<1>3. CASE Restart
  <2>1. PairsFrom
    <3>1. /\ channel' = <<>> /\ committed' = <<>>
          /\ \A h \in Handler : queue'[h] = <<>> /\ handler'[h].stage # "waiting"
      BY <1>3 DEF Restart, Idle
    <3> QED BY <1>0, <3>1, HeldNowhere DEF PairsFrom
  <2> QED BY <1>0, <1>3, <2>1, UnlinkRest DEF Restart
<1>4. CASE Reopen
  <2>1. /\ page' = NewPage /\ channel' = <<>> /\ UNCHANGED <<committed, queue, handler>>
    BY <1>4 DEF Reopen
  <2>2. PairsFrom
    BY <1>0, <2>1, HeldPairs, HeldNowhere DEF PairsFrom
  <2>3. PairsPast' /\ PairsOrdered'
    BY <1>0, <2>2, PairsKept
  <2>4. /\ page'.last = 0 /\ page'.applied = None /\ page'.book = None /\ page'.sequence = 0
        /\ page'.link = NoHandler
    BY <2>1 DEF NewPage
  <2>5. PageInv'
    <3>1. BookSound(page')
      BY <2>4 DEF BookSound, Larger, None
    <3>2. ASSUME NEW e, NEW q, IsPair(e, q)'
          PROVE  /\ q <= page'.applied => e <= page'.last
                 /\ e <= page'.last => q <= page'.sequence
      <4>1. IsPair(e, q) /\ IsPair(0, 0)
        BY <2>2, <3>2, NoNewPair DEF IsPair
      <4>2. q \in Nat /\ ((q <= 0) <=> (e <= 0))
        BY <4>1 DEF Rest, PairsPast, PairsOrdered
      <4> QED BY <2>4, <4>2 DEF None
    <3>3. lastEvent \in Nat /\ lastSequence \in Nat
      BY DEF Types, MarketTypes
    <3>4. page'.last \in 0..lastEvent' /\ page'.applied <= lastSequence'
      BY <1>0, <2>4, <3>3 DEF None
    <3> QED BY <3>1, <3>2, <3>4 DEF PageInv
  <2>6. LinkInv'
    BY <2>1, <2>4, StreamAssumption DEF LinkInv, StreamAssumption
  <2>7. ToldNothingNew'
    BY <2>1, EmptyTells DEF ToldNothingNew
  <2> QED BY <2>3, <2>5, <2>6, <2>7 DEF Rest, ToldNothingNew
<1> QED BY <1>1, <1>2, <1>3, <1>4

LEMMA InitRest ==
  ASSUME StreamAssumption, Init
  PROVE  Rest
<1>1. /\ DOMAIN events = {} /\ lastEvent = 0 /\ lastSequence = 0 /\ committed = <<>>
      /\ channel = <<>> /\ \A h \in Handler : queue[h] = <<>> /\ handler[h].stage # "waiting"
      /\ page = NewPage
  BY DEF Init, Log!Init, Log!NoEvents, Idle
<1>2. ASSUME NEW e, NEW q, IsPair(e, q) PROVE e = 0 /\ q = 0
  BY <1>1, <1>2, HeldNowhere DEF IsPair, Waits
<1>3. PairsPast /\ PairsOrdered
  <2>1. PairsPast
    <3>1. 0 \in 0..lastEvent /\ 0 \in 0..lastSequence
      BY <1>1
    <3> QED BY <1>2, <3>1 DEF PairsPast
  <2>2. PairsOrdered
    BY <1>2 DEF PairsOrdered
  <2> QED BY <2>1, <2>2
<1>4. /\ page.last = 0 /\ page.applied = None /\ page.book = None /\ page.sequence = 0
      /\ page.link = NoHandler
  BY <1>1 DEF NewPage
<1>5. PageInv
  <2>1. BookSound(page)
    BY <1>4 DEF BookSound, Larger, None
  <2>2. page.last \in 0..lastEvent /\ page.applied <= lastSequence
    BY <1>1, <1>4 DEF None
  <2>3. \A e, q : IsPair(e, q) =>
          /\ q <= page.applied => e <= page.last
          /\ e <= page.last => q <= page.sequence
    BY <1>2, <1>4 DEF None
  <2> QED BY <2>1, <2>2, <2>3 DEF PageInv
<1>6. LinkInv
  BY <1>1, <1>4, StreamAssumption DEF LinkInv, StreamAssumption
<1>7. ChannelTells({}, page.last, channel)
  BY <1>1, EmptyTells
<1> QED BY <1>3, <1>5, <1>6, <1>7 DEF Rest

LEMMA StepRest ==
  ASSUME StreamAssumption, Types, Rest, [Next]_svars
  PROVE  Rest'
<1>0. Types'
  BY Step
<1>1. CASE \/ CommitByWorker \/ CommitEmbedded \/ CommitUnheard \/ Reset
  BY <1>0, <1>1, MarketRest
<1>2. CASE \/ PublishUpdate \/ RelayPublish \/ RelayConnect \/ RelayDisconnect \/ AskBook
  BY <1>0, <1>2, PublicationRest
<1>3. CASE \E h \in Handler : Serve(h) \/ Connect(h)
  BY <1>0, <1>3, ServeRest, LinkRest DEF Serve
<1>4. CASE Receive
  BY <1>0, <1>4, ReceiveRest
<1>5. CASE AnswerBook \/ Break \/ Reopen \/ Restart
  BY <1>0, <1>5, PageRest
<1>6. CASE UNCHANGED svars
  <2>1. UNCHANGED <<events, lastEvent, lastSequence, committed, queue, handler, channel, page>>
    BY <1>6 DEF svars, market
  <2>2. PairsFrom
    BY <2>1, HeldPairs DEF PairsFrom
  <2> QED BY <1>0, <2>1, <2>2, QuietRest
<1> QED BY <1>1, <1>2, <1>3, <1>4, <1>5, <1>6 DEF Next

(* The invariant of every stream: events and sequences go together in one       *)
(* order wherever they are held (queues, channel, cursors, the page's refs).     *)
LEMMA StreamInvariant == Spec => []StreamInv
<1>1. Init => StreamInv
  BY StreamAssumption, InitTypes, InitRest DEF StreamInv
<1>2. StreamInv /\ [Next]_svars => StreamInv'
  BY StreamAssumption, Step, StepRest DEF StreamInv
<1> QED BY <1>1, <1>2, PTL DEF Spec

(* The sequence a page shows beside the book is the sequence of that book       *)
(* (App.tsx, applyFreshBook and onmessage), whatever order REST answers,         *)
(* snapshots, updates and heartbeats come in, wherever the processors run and    *)
(* whatever is lost, refused, restarted or erased.                             *)
THEOREM StreamSequenceOfBook == Spec => []SequenceOfBook
<1>1. StreamInv => SequenceOfBook
  BY DEF StreamInv, Rest, PageInv, BookSound, SequenceOfBook
<1> QED BY <1>1, StreamInvariant, PTL
-----------------------------------------------------------------------------
(* Sizes                                                                     *)

(* How much a handler with the state s and the queue q holds.                 *)
QueueFits(s, q) ==
    /\ Len(q) <= QueueSize
    /\ s.stage \notin Subscribed => q = <<>>

Sizes ==
    /\ Len(committed) <= 1
    /\ relayUp \in BOOLEAN /\ Len(hints) <= RelaySize
    /\ \A h \in Handler : QueueFits(handler[h], queue[h])
    /\ IsFiniteSet(Subscribers) /\ Cardinality(Subscribers) <= MaxConnections
    /\ Len(channel) <= ChannelSize
    /\ disturbances \in 0..MaxDisturbances

LEMMA InitSizes == ASSUME Init PROVE Sizes
<1>1. /\ QueueSize \in Nat /\ RelaySize \in Nat /\ MaxConnections \in Nat
      /\ ChannelSize \in Nat /\ MaxDisturbances \in Nat
  BY StreamAssumption DEF StreamAssumption
<1>2. Subscribers = {}
  BY DEF Init, Subscribers, Subscribed, Idle
<1>3. \A h \in Handler : QueueFits(handler[h], queue[h])
  BY <1>1 DEF Init, QueueFits
<1>4. IsFiniteSet(Subscribers) /\ Cardinality(Subscribers) <= MaxConnections
  BY <1>1, <1>2, FS_EmptySet
<1>5. Len(<<>>) = 0
  OBVIOUS
<1>6. Len(committed) <= 1 /\ Len(hints) <= RelaySize /\ Len(channel) <= ChannelSize
  BY <1>1, <1>5 DEF Init
<1>7. relayUp \in BOOLEAN
  BY DEF Init
<1>8. disturbances = 0
  BY DEF Init
<1>9. disturbances \in 0..MaxDisturbances
  BY <1>1, <1>8
<1> QED BY <1>3, <1>4, <1>6, <1>7, <1>9 DEF Sizes

(* When subscribers only leave, there is room for those who are left.         *)
LEMMA FewerSubscribers ==
  ASSUME Sizes, Subscribers' \subseteq Subscribers
  PROVE  IsFiniteSet(Subscribers') /\ Cardinality(Subscribers') <= MaxConnections
<1>1. IsFiniteSet(Subscribers) /\ Cardinality(Subscribers) <= MaxConnections
  BY DEF Sizes
<1>2. /\ IsFiniteSet(Subscribers') /\ Cardinality(Subscribers') <= Cardinality(Subscribers)
      /\ Cardinality(Subscribers) \in Nat /\ Cardinality(Subscribers') \in Nat
  BY <1>1, FS_Subset, FS_CardinalityType
<1>3. MaxConnections \in Nat
  BY StreamAssumption DEF StreamAssumption
<1> QED BY <1>1, <1>2, <1>3

LEMMA AppendIsLonger ==
  ASSUME NEW S, NEW s \in Seq(S), NEW e \in S
  PROVE  Len(Append(s, e)) = Len(s) + 1 /\ Len(s) \in Nat
  OBVIOUS

LEMMA TailIsShorter ==
  ASSUME NEW S, NEW s \in Seq(S), s # <<>>
  PROVE  /\ Tail(s) \in Seq(S) /\ Len(Tail(s)) = Len(s) - 1
         /\ Len(s) \in Nat /\ Len(s) # 0
  OBVIOUS

(* A hint more, of which the oldest may be lost.                             *)
LEMMA HintsFit ==
  ASSUME Types, Sizes, NEW e \in FreshEvents, NEW q, Commit(e, q)
  PROVE  Len(hints') <= RelaySize
<1>1. RelaySize \in Nat \ {0} /\ MaxEvent \in Nat
  BY StreamAssumption DEF StreamAssumption
<1>2. hints \in Seq(Nat) /\ Len(hints) <= RelaySize /\ lastEvent \in Nat
  BY DEF Types, MarketTypes, Sizes
<1>3. e \in Nat
  BY <1>1, <1>2 DEF FreshEvents
<1>4. CASE ~relayUp
  BY <1>2, <1>4 DEF Commit
<1>5. CASE relayUp /\ Len(hints) = RelaySize
  <2>1. hints # <<>>
    BY <1>1, <1>5
  <2>2. Tail(hints) \in Seq(Nat) /\ Len(Tail(hints)) = RelaySize - 1
    BY <1>2, <1>5, <2>1, TailIsShorter
  <2>3. hints' = Append(Tail(hints), e)
    BY <1>5 DEF Commit, Received
  <2> QED BY <1>1, <1>3, <2>2, <2>3, AppendIsLonger
<1>6. CASE relayUp /\ Len(hints) # RelaySize
  <2>1. hints' = Append(hints, e)
    BY <1>6 DEF Commit, Received
  <2>2. Len(hints') = Len(hints) + 1 /\ Len(hints) \in Nat
    BY <1>2, <1>3, <2>1, AppendIsLonger
  <2> QED BY <1>1, <1>2, <1>6, <2>2
<1> QED BY <1>4, <1>5, <1>6

(* An update more in each queue, which a full one gives up for a marker.      *)
LEMMA FanoutFits ==
  ASSUME Types, Sizes, NEW u \in QueueItem
  PROVE  \A h \in Handler : QueueFits(handler[h], Fanout(u)[h])
<1> SUFFICES ASSUME NEW h \in Handler PROVE QueueFits(handler[h], Fanout(u)[h])
  OBVIOUS
<1>1. QueueSize \in Nat \ {0}
  BY StreamAssumption DEF StreamAssumption
<1>2. queue[h] \in Seq(QueueItem) /\ QueueFits(handler[h], queue[h])
  BY DEF Types, Sizes
<1>3. CASE h \notin Subscribers
  BY <1>2, <1>3 DEF Fanout
<1>4. CASE h \in Subscribers /\ Len(queue[h]) = QueueSize
  <2>1. Fanout(u)[h] = <<Resync>>
    BY <1>4 DEF Fanout
  <2>2. Len(<<Resync>>) = 1
    OBVIOUS
  <2> QED BY <1>1, <1>4, <2>1, <2>2 DEF QueueFits, Subscribers
<1>5. CASE h \in Subscribers /\ Len(queue[h]) # QueueSize
  <2>1. Fanout(u)[h] = Append(queue[h], u)
    BY <1>5 DEF Fanout
  <2>2. Len(Append(queue[h], u)) = Len(queue[h]) + 1 /\ Len(queue[h]) \in Nat
    BY <1>2, AppendIsLonger
  <2> QED BY <1>1, <1>2, <1>5, <2>1, <2>2 DEF QueueFits, Subscribers
<1> QED BY <1>3, <1>4, <1>5

LEMMA DisturbFits ==
  ASSUME Sizes, NEW kind, Disturb(kind)
  PROVE  disturbances' \in 0..MaxDisturbances
  BY StreamAssumption DEF StreamAssumption, Sizes, Disturb

LEMMA MarketSizes ==
  ASSUME Types, Sizes,
         \/ CommitByWorker \/ CommitEmbedded \/ CommitUnheard \/ Reset
         \/ PublishUpdate \/ RelayPublish \/ RelayConnect \/ RelayDisconnect \/ AskBook
  PROVE  Sizes'
<1>1. UNCHANGED <<handler, channel>>
  BY DEF CommitByWorker, CommitEmbedded, CommitUnheard, Commit, Reset, PublishUpdate,
         RelayPublish, RelayConnect, RelayDisconnect, AskBook
<1>2. IsFiniteSet(Subscribers') /\ Cardinality(Subscribers') <= MaxConnections
  BY <1>1, FewerSubscribers DEF Subscribers
<1>3. Len(channel') <= ChannelSize
  BY <1>1 DEF Sizes
<1>4. \A h \in Handler : QueueFits(handler[h], queue[h])
  BY DEF Sizes
<1>5. CASE CommitByWorker
  <2>1. PICK e \in FreshEvents, q \in FreshSequences : Commit(e, q)
    BY <1>5 DEF CommitByWorker
  <2>2. /\ UNCHANGED <<relayUp, queue, committed, disturbances>>
    BY <1>5, <2>1 DEF CommitByWorker, Commit
  <2> QED BY <1>1, <1>2, <1>3, <1>4, <2>1, <2>2, HintsFit DEF Sizes
<1>6. CASE CommitEmbedded
  <2>1. PICK e \in FreshEvents, q \in FreshSequences :
           Commit(e, q) /\ committed' = <<Update(e, q)>>
    BY <1>6 DEF CommitEmbedded
  <2>2. UNCHANGED <<relayUp, queue, disturbances>> /\ Len(committed') = 1
    BY <1>6, <2>1 DEF CommitEmbedded, Commit
  <2> QED BY <1>1, <1>2, <1>3, <1>4, <2>1, <2>2, HintsFit DEF Sizes
<1>7. CASE CommitUnheard
  <2>1. PICK e \in FreshEvents, q \in FreshSequences : Commit(e, q)
    BY <1>7 DEF CommitUnheard
  <2>2. UNCHANGED <<relayUp, queue, committed>> /\ Disturb("unheard")
    BY <1>7, <2>1 DEF CommitUnheard, Commit
  <2> QED BY <1>1, <1>2, <1>3, <1>4, <2>1, <2>2, HintsFit, DisturbFits DEF Sizes
<1>8. CASE Reset
  <2>1. UNCHANGED <<committed, relayUp, hints, queue>> /\ Disturb("reset")
    BY <1>8 DEF Reset, relay
  <2> QED BY <1>1, <1>2, <1>3, <1>4, <2>1, DisturbFits DEF Sizes
<1>9. CASE PublishUpdate
  <2>1. Head(committed) \in QueueItem
    <3>1. Head(committed) \in UpdateMessage
      BY <1>9, HeadTailProperties DEF PublishUpdate, Types
    <3> QED BY <3>1 DEF UpdateMessage, QueueItem
  <2>2. /\ queue' = Fanout(Head(committed)) /\ committed' = <<>>
        /\ UNCHANGED <<relayUp, hints, disturbances>>
    BY <1>9 DEF PublishUpdate, relay
  <2>3. \A h \in Handler : QueueFits(handler'[h], queue'[h])
    BY <1>1, <2>1, <2>2, FanoutFits
  <2> QED BY <1>2, <1>3, <2>2, <2>3 DEF Sizes
<1>10. CASE RelayPublish
  <2>1. /\ Head(hints) \in Nat /\ hints # <<>> /\ hints \in Seq(Nat)
        /\ queue' = Fanout(LiveRefresh(Head(hints))) /\ hints' = Tail(hints)
        /\ UNCHANGED <<relayUp, committed, disturbances>>
    BY <1>10 DEF RelayPublish, Types
  <2>2. LiveRefresh(Head(hints)) \in QueueItem
    BY <2>1 DEF LiveRefresh, QueueItem
  <2>3. \A h \in Handler : QueueFits(handler'[h], queue'[h])
    BY <1>1, <2>1, <2>2, FanoutFits
  <2>4. Len(hints') <= RelaySize
    <3>1. RelaySize \in Nat /\ Len(hints) <= RelaySize
      BY StreamAssumption DEF StreamAssumption, Sizes
    <3> QED BY <2>1, <3>1, TailIsShorter
  <2> QED BY <1>2, <1>3, <2>1, <2>3, <2>4 DEF Sizes
<1>11. CASE RelayConnect
  BY <1>1, <1>2, <1>3, <1>4, <1>11 DEF RelayConnect, Sizes
<1>12. CASE RelayDisconnect
  BY <1>1, <1>2, <1>3, <1>4, <1>12, DisturbFits DEF RelayDisconnect, Sizes
<1>13. CASE AskBook
  BY <1>1, <1>2, <1>3, <1>4, <1>13, DisturbFits DEF AskBook, relay, Sizes
<1> QED BY <1>5, <1>6, <1>7, <1>8, <1>9, <1>10, <1>11, <1>12, <1>13

(* What a step of one handler leaves to show.                                *)
LEMMA OneHandlerFits ==
  ASSUME Types, Sizes, NEW h \in Handler, NEW s, NEW q,
         handler' = [handler EXCEPT ![h] = s], queue' = [queue EXCEPT ![h] = q],
         QueueFits(s, q)
  PROVE  \A g \in Handler : QueueFits(handler'[g], queue'[g])
<1>1. /\ handler \in [Handler -> HandlerState] /\ queue \in [Handler -> Seq(QueueItem)]
      /\ \A g \in Handler : QueueFits(handler[g], queue[g])
  BY DEF Types, Sizes
<1>2. /\ handler'[h] = s /\ queue'[h] = q
      /\ \A g \in Handler \ {h} : handler'[g] = handler[g] /\ queue'[g] = queue[g]
  BY <1>1
<1> QED BY <1>1, <1>2

LEMMA EndFits ==
  ASSUME Types, Sizes, NEW h \in Handler, End(h)
  PROVE  /\ \A g \in Handler : QueueFits(handler'[g], queue'[g])
         /\ Subscribers' \subseteq Subscribers
<1>1. QueueFits(Idle, <<>>)
  BY StreamAssumption DEF StreamAssumption, QueueFits
<1>2. \A g \in Handler : QueueFits(handler'[g], queue'[g])
  BY <1>1, OneHandlerFits DEF End
<1>3. handler \in [Handler -> HandlerState]
  BY DEF Types
<1>4. Subscribers' \subseteq Subscribers
  <2>1. handler'[h].stage \notin Subscribed
    BY <1>3 DEF End, Idle, Subscribed
  <2>2. \A g \in Handler \ {h} : handler'[g] = handler[g]
    BY <1>3 DEF End
  <2> QED BY <2>1, <2>2 DEF Subscribers
<1> QED BY <1>2, <1>4

(* A message more on the socket, or a handler less.                          *)
LEMMA DeliverFits ==
  ASSUME Types, Sizes, NEW h \in Handler, NEW m \in Message, NEW next,
         handler[h].stage \in Subscribed, next.stage \in Subscribed,
         Deliver(h, m, next)
  PROVE  /\ \A g \in Handler : QueueFits(handler'[g], queue'[g])
         /\ Subscribers' \subseteq Subscribers /\ Len(channel') <= ChannelSize
<1>1. CASE page.link = h
  <2>1. /\ Len(channel) < ChannelSize /\ channel' = Append(channel, m)
        /\ handler' = [handler EXCEPT ![h] = next] /\ queue' = queue
    BY <1>1 DEF Deliver
  <2>2. /\ channel \in Seq(Message) /\ queue \in [Handler -> Seq(QueueItem)]
        /\ handler \in [Handler -> HandlerState]
    BY DEF Types
  <2>3. Len(channel') <= ChannelSize
    <3>1. ChannelSize \in Nat
      BY StreamAssumption DEF StreamAssumption
    <3>2. Len(channel') = Len(channel) + 1 /\ Len(channel) \in Nat
      BY <2>1, <2>2, AppendIsLonger
    <3> QED BY <2>1, <3>1, <3>2
  <2>4. QueueFits(next, queue[h])
    BY DEF Sizes, QueueFits
  <2>5. queue' = [queue EXCEPT ![h] = queue[h]]
    BY <2>1, <2>2
  <2>6. \A g \in Handler : QueueFits(handler'[g], queue'[g])
    BY <2>1, <2>4, <2>5, OneHandlerFits
  <2>7. Subscribers' \subseteq Subscribers
    <3>1. \A g \in Handler \ {h} : handler'[g] = handler[g]
      BY <2>1, <2>2
    <3> QED BY <3>1 DEF Subscribers
  <2> QED BY <2>3, <2>6, <2>7
<1>2. CASE page.link # h
  <2>1. End(h) /\ channel' = channel
    BY <1>2 DEF Deliver
  <2> QED BY <2>1, EndFits DEF Sizes
<1> QED BY <1>1, <1>2

LEMMA SubscribeFits ==
  ASSUME Types, Sizes, NEW h \in Handler, Subscribe(h)
  PROVE  Sizes'
<1>1. /\ handler \in [Handler -> HandlerState] /\ queue \in [Handler -> Seq(QueueItem)]
      /\ handler' = [handler EXCEPT ![h].stage = "reading"] /\ handler[h].stage = "accepted"
      /\ UNCHANGED <<committed, relayUp, hints, queue, channel, disturbances>>
      /\ Cardinality(Subscribers) < MaxConnections
  BY DEF Types, Subscribe, relay
<1>2. Subscribers' = Subscribers \cup {h}
  <2>1. handler'[h].stage = "reading" /\ \A g \in Handler \ {h} : handler'[g] = handler[g]
    BY <1>1 DEF HandlerState
  <2> QED BY <2>1 DEF Subscribers, Subscribed
<1>3. IsFiniteSet(Subscribers') /\ Cardinality(Subscribers') <= MaxConnections
  <2>1. h \notin Subscribers /\ IsFiniteSet(Subscribers)
    BY <1>1 DEF Subscribers, Subscribed, Sizes
  <2>2. /\ IsFiniteSet(Subscribers') /\ Cardinality(Subscribers') = Cardinality(Subscribers) + 1
        /\ Cardinality(Subscribers) \in Nat
    BY <1>2, <2>1, FS_AddElement, FS_CardinalityType
  <2>3. MaxConnections \in Nat
    BY StreamAssumption DEF StreamAssumption
  <2> QED BY <1>1, <2>2, <2>3
<1>4. \A g \in Handler : QueueFits(handler'[g], queue'[g])
  <2>1. /\ queue[h] = <<>> /\ QueueFits(handler[h], queue[h])
        /\ \A g \in Handler : QueueFits(handler[g], queue[g])
    BY <1>1 DEF Sizes, QueueFits, Subscribed
  <2>2. \A g \in Handler \ {h} : handler'[g] = handler[g]
    BY <1>1
  <2> QED BY <1>1, <2>1, <2>2 DEF QueueFits
<1> QED BY <1>1, <1>3, <1>4 DEF Sizes

LEMMA ServeSizes ==
  ASSUME Types, Sizes, NEW h \in Handler, Serve(h)
  PROVE  Sizes'
<1>1. CASE Subscribe(h)
  BY <1>1, SubscribeFits
<1>2. CASE Serve(h) /\ ~Subscribe(h)
  <2>1. UNCHANGED <<committed, relayUp, hints, disturbances>>
    BY <1>2 DEF Serve, Refuse, SendSnapshot, TakeMarker, DropUpdate, SendUpdate, FindMissed,
                SendHeartbeat, relay
  <2>2. /\ handler \in [Handler -> HandlerState] /\ queue \in [Handler -> Seq(QueueItem)]
        /\ channel \in Seq(Message) /\ QueueFits(handler[h], queue[h])
        /\ Len(channel) <= ChannelSize /\ queue[h] \in Seq(QueueItem)
        /\ handler[h] \in HandlerState /\ \A g \in Handler : QueueFits(handler[g], queue[g])
    BY DEF Types, Sizes
  <2>3. QueueSize \in Nat
    BY StreamAssumption DEF StreamAssumption
  <2>4. queue[h] # <<>> => Len(Tail(queue[h])) <= QueueSize
    BY <2>2, <2>3, TailIsShorter DEF QueueFits
  <2>5. SUFFICES /\ \A g \in Handler : QueueFits(handler'[g], queue'[g])
                 /\ Subscribers' \subseteq Subscribers /\ Len(channel') <= ChannelSize
    BY <2>1, FewerSubscribers DEF Sizes
  <2>6. ASSUME NEW s, NEW q, s.stage \in Subscribed,
               handler[h].stage \in Subscribed, channel' = channel,
               q = queue[h] \/ (queue[h] # <<>> /\ q = Tail(queue[h])),
               handler' = [handler EXCEPT ![h] = s], queue' = [queue EXCEPT ![h] = q]
        PROVE  /\ \A g \in Handler : QueueFits(handler'[g], queue'[g])
               /\ Subscribers' \subseteq Subscribers /\ Len(channel') <= ChannelSize
    <3>1. QueueFits(s, q)
      BY <2>2, <2>4, <2>6 DEF QueueFits
    <3>2. \A g \in Handler : QueueFits(handler'[g], queue'[g])
      BY <2>6, <3>1, OneHandlerFits
    <3>3. Subscribers' \subseteq Subscribers
      <4>1. \A g \in Handler \ {h} : handler'[g] = handler[g]
        BY <2>2, <2>6
      <4> QED BY <2>6, <4>1 DEF Subscribers
    <3> QED BY <2>2, <2>6, <3>2, <3>3
  <2>7. queue = [queue EXCEPT ![h] = queue[h]] /\ handler = [handler EXCEPT ![h] = handler[h]]
    BY <2>2
  <2>8. [handler[h] EXCEPT !.stage = "reading"].stage = "reading"
    BY <2>2 DEF HandlerState
  <2>9. CASE Refuse(h)
    BY <2>2, <2>9, EndFits DEF Refuse
  <2>10. CASE SendSnapshot(h)
    <3>1. Snapshot(handler[h].cursor) \in Message
      BY <2>2, StreamAssumption, SnapshotTypes DEF Types, Message, HandlerState
    <3> QED BY <2>10, <3>1, DeliverFits DEF SendSnapshot, Subscribed
  <2>11. CASE TakeMarker(h)
    <3> DEFINE s == [handler[h] EXCEPT !.stage = "reading"]
               q == Tail(queue[h])
    <3>1. /\ handler' = [handler EXCEPT ![h] = s] /\ queue' = [queue EXCEPT ![h] = q]
          /\ handler[h].stage \in Subscribed /\ queue[h] # <<>> /\ channel' = channel
      BY <2>2, <2>11 DEF TakeMarker, Subscribed
    <3>2. s.stage \in Subscribed /\ q = Tail(queue[h])
      BY <2>8 DEF Subscribed
    <3> HIDE DEF s, q
    <3> QED BY <2>6, <3>1, <3>2
  <2>12. CASE DropUpdate(h)
    <3> DEFINE s == handler[h]
               q == Tail(queue[h])
    <3>1. /\ handler' = [handler EXCEPT ![h] = s] /\ queue' = [queue EXCEPT ![h] = q]
          /\ handler[h].stage \in Subscribed /\ queue[h] # <<>> /\ channel' = channel
      BY <2>7, <2>12 DEF DropUpdate, Subscribed
    <3>2. s.stage \in Subscribed /\ q = Tail(queue[h])
      BY <3>1
    <3> HIDE DEF s, q
    <3> QED BY <2>6, <3>1, <3>2
  <2>13. CASE SendUpdate(h)
    <3>1. CASE page.link = h
      <4> DEFINE update == Head(queue[h])
                 u == update.event
                 v == update.sequence
                 s == [handler[h] EXCEPT !.cursor = u, !.sequence = v]
      <4>1. /\ handler[h].stage = "waiting" /\ queue[h] # <<>> /\ update.type = "market_update"
            /\ Len(channel) < ChannelSize /\ channel' = Append(channel, update)
            /\ handler' = [handler EXCEPT ![h].cursor = u, ![h].sequence = v]
            /\ queue' = [queue EXCEPT ![h] = Tail(@)]
        BY <2>13, <3>1 DEF SendUpdate
      <4>2. handler' = [handler EXCEPT ![h] = s]
        BY <2>2, <4>1
      <4>3. s.stage = "waiting"
        BY <2>2, <4>1 DEF HandlerState
      <4>4. update \in Message
        BY <4>1, QueueTypes DEF QueueItem, UpdateMessage, Message
      <4> HIDE DEF update, s
      <4>5. QueueFits(s, Tail(queue[h]))
        BY <2>4, <4>1, <4>3 DEF QueueFits, Subscribed
      <4>6. \A g \in Handler : QueueFits(handler'[g], queue'[g])
        BY <4>1, <4>2, <4>5, OneHandlerFits
      <4>7. Subscribers' \subseteq Subscribers
        <5>1. \A g \in Handler \ {h} : handler'[g] = handler[g]
          BY <2>2, <4>2
        <5> QED BY <4>1, <5>1 DEF Subscribers, Subscribed
      <4>8. Len(channel') <= ChannelSize
        <5>1. ChannelSize \in Nat
          BY StreamAssumption DEF StreamAssumption
        <5>2. Len(channel') = Len(channel) + 1 /\ Len(channel) \in Nat
          BY <2>2, <4>1, <4>4, AppendIsLonger
        <5> QED BY <4>1, <5>1, <5>2
      <4> QED BY <4>6, <4>7, <4>8
    <3>2. CASE page.link # h
      <4>1. End(h) /\ channel' = channel
        BY <2>13, <3>2 DEF SendUpdate
      <4> QED BY <2>2, <4>1, EndFits
    <3> QED BY <3>1, <3>2
  <2>14. CASE FindMissed(h)
    <3> DEFINE s == [handler[h] EXCEPT !.stage = "reading"]
               q == queue[h]
    <3>1. /\ handler' = [handler EXCEPT ![h] = s] /\ queue' = [queue EXCEPT ![h] = q]
          /\ handler[h].stage \in Subscribed /\ channel' = channel
      BY <2>2, <2>7, <2>14 DEF FindMissed, Subscribed
    <3>2. s.stage \in Subscribed /\ q = queue[h]
      BY <2>8 DEF Subscribed
    <3> HIDE DEF s, q
    <3> QED BY <2>6, <3>1, <3>2
  <2>15. CASE SendHeartbeat(h)
    <3>1. Heartbeat(h) \in Message
      BY <2>2 DEF Heartbeat, HeartbeatMessage, Message, HandlerState
    <3> QED BY <2>15, <3>1, DeliverFits DEF SendHeartbeat, Subscribed
  <2> QED BY <1>2, <2>9, <2>10, <2>11, <2>12, <2>13, <2>14, <2>15 DEF Serve
<1> QED BY <1>1, <1>2

LEMMA PageSizes ==
  ASSUME Types, Sizes,
         \/ \E h \in Handler : Connect(h)
         \/ Receive \/ AnswerBook \/ Break \/ Reopen \/ Restart
  PROVE  Sizes'
<1>1. /\ handler \in [Handler -> HandlerState] /\ queue \in [Handler -> Seq(QueueItem)]
      /\ channel \in Seq(Message) /\ Len(channel) <= ChannelSize
      /\ \A g \in Handler : QueueFits(handler[g], queue[g])
  BY DEF Types, Sizes
<1>2. ChannelSize \in Nat /\ QueueSize \in Nat /\ RelaySize \in Nat
  BY StreamAssumption DEF StreamAssumption
<1>3. Len(<<>>) = 0
  OBVIOUS
<1>4. ASSUME UNCHANGED <<handler, queue, committed, relayUp, hints>>,
             Len(channel') <= ChannelSize, disturbances' \in 0..MaxDisturbances
      PROVE  Sizes'
  BY <1>1, <1>4, FewerSubscribers DEF Sizes, Subscribers
<1>5. CASE \E h \in Handler : Connect(h)
  <2>1. PICK h \in Handler : Connect(h)
    BY <1>5
  <2> DEFINE s == [Idle EXCEPT !.stage = "accepted",
                               !.cursor = IF page.retry THEN page.last ELSE None]
  <2>2. /\ handler' = [handler EXCEPT ![h] = s] /\ handler[h].stage = "none"
        /\ UNCHANGED <<committed, relayUp, hints, queue, channel, disturbances>>
    BY <2>1 DEF Connect, relay
  <2>3. s.stage = "accepted"
    BY DEF Idle
  <2> HIDE DEF s
  <2>4. queue[h] = <<>>
    BY <1>1, <2>2 DEF QueueFits, Subscribed
  <2>5. \A g \in Handler : QueueFits(handler'[g], queue'[g])
    <3>1. QueueFits(s, queue[h]) /\ queue' = [queue EXCEPT ![h] = queue[h]]
      BY <1>1, <1>2, <1>3, <2>2, <2>4 DEF QueueFits
    <3> QED BY <2>2, <3>1, OneHandlerFits
  <2>6. Subscribers' \subseteq Subscribers
    <3>1. handler'[h] = s /\ \A g \in Handler \ {h} : handler'[g] = handler[g]
      BY <1>1, <2>2
    <3> QED BY <2>3, <3>1 DEF Subscribers, Subscribed
  <2> QED BY <2>2, <2>5, <2>6, FewerSubscribers DEF Sizes
<1>6. CASE Receive
  <2>1. channel # <<>> /\ channel' = Tail(channel)
    BY <1>6 DEF Receive
  <2>2. Len(channel') <= ChannelSize
    BY <1>1, <1>2, <2>1, TailIsShorter
  <2>3. /\ UNCHANGED <<handler, queue, committed, relayUp, hints>>
        /\ disturbances' \in 0..MaxDisturbances
    BY <1>6 DEF Receive, relay, Sizes
  <2> QED BY <1>4, <2>2, <2>3
<1>7. CASE AnswerBook
  BY <1>1, <1>4, <1>7 DEF AnswerBook, relay, Sizes
<1>8. CASE Break
  BY <1>2, <1>3, <1>4, <1>8, DisturbFits DEF Break, relay
<1>9. CASE Reopen
  BY <1>2, <1>3, <1>4, <1>9, DisturbFits DEF Reopen, relay
<1>10. CASE Restart
  <2>1. /\ committed' = <<>> /\ relayUp' = FALSE /\ hints' = <<>> /\ channel' = <<>>
        /\ queue' = [h \in Handler |-> <<>>] /\ handler' = [h \in Handler |-> Idle]
        /\ disturbances' \in 0..MaxDisturbances
    BY <1>10, DisturbFits DEF Restart
  <2>2. \A g \in Handler : QueueFits(handler'[g], queue'[g])
    BY <1>2, <1>3, <2>1 DEF QueueFits
  <2>3. Subscribers' \subseteq Subscribers
    BY <2>1 DEF Subscribers, Subscribed, Idle
  <2>4. Len(committed') <= 1 /\ Len(hints') <= RelaySize /\ Len(channel') <= ChannelSize
    BY <1>2, <1>3, <2>1
  <2>5. relayUp' \in BOOLEAN
    BY <2>1
  <2> QED BY <2>1, <2>2, <2>3, <2>4, <2>5, FewerSubscribers DEF Sizes
<1> QED BY <1>5, <1>6, <1>7, <1>8, <1>9, <1>10

LEMMA StepSizes == ASSUME Types, Sizes, [Next]_svars PROVE Sizes'
<1>1. CASE UNCHANGED svars
  BY <1>1, FewerSubscribers DEF svars, relay, Sizes, Subscribers
<1>2. CASE \E h \in Handler : Serve(h)
  BY <1>2, ServeSizes
<1>3. CASE Next /\ ~(\E h \in Handler : Serve(h))
  BY <1>3, MarketSizes, PageSizes DEF Next
<1> QED BY <1>1, <1>2, <1>3

-----------------------------------------------------------------------------
(* Cursors, and books on their way by REST, are of the past, and so is what   *)
(* the page shows: BookSound has its book between the two bounds.            *)
Numbers ==
    /\ \A h \in Handler : handler[h].cursor \in None..lastEvent
    /\ page.applied >= None /\ page.sequence <= lastSequence
    /\ answers \subseteq 0..lastSequence

LEMMA InitNumbers == ASSUME Init PROVE Numbers
  BY DEF Init, Numbers, Idle, NewPage, None, Log!Init

LEMMA NumbersGrow ==
  ASSUME StreamAssumption, Types, [Next]_svars
  PROVE  /\ lastEvent \in Nat /\ lastEvent' \in Nat /\ lastEvent <= lastEvent'
         /\ lastSequence \in Nat /\ lastSequence' \in Nat /\ lastSequence <= lastSequence'
<1>1. Types' /\ Log!NumbersGoOn
  BY Step
<1>2. /\ lastEvent \in Nat /\ lastEvent' \in Nat
      /\ lastSequence \in Nat /\ lastSequence' \in Nat
  BY <1>1 DEF Types, MarketTypes
<1> QED BY <1>1, <1>2 DEF Log!NumbersGoOn

(* A number of the past stays one.                                           *)
LEMMA KeptNumbers ==
  ASSUME StreamAssumption, Types, Numbers, [Next]_svars
  PROVE  /\ \A h \in Handler : handler[h].cursor \in None..lastEvent'
         /\ page.applied >= None /\ page.sequence <= lastSequence'
         /\ answers \subseteq 0..lastSequence'
<1>1. /\ lastEvent \in Nat /\ lastEvent' \in Nat /\ lastEvent <= lastEvent'
      /\ lastSequence \in Nat /\ lastSequence' \in Nat /\ lastSequence <= lastSequence'
  BY NumbersGrow
<1>2. page.sequence \in Int
  BY DEF Types, PageState
<1> QED BY <1>1, <1>2 DEF Numbers, None

LEMMA CursorsKept ==
  ASSUME Types, \A h \in Handler : handler[h].cursor \in None..lastEvent,
         lastEvent \in Nat, NEW h \in Handler, NEW s,
         s.cursor \in None..lastEvent, handler' = [handler EXCEPT ![h] = s]
  PROVE  \A g \in Handler : handler'[g].cursor \in None..lastEvent
<1>1. handler'[h] = s /\ \A g \in Handler \ {h} : handler'[g] = handler[g]
  BY DEF Types
<1> QED BY <1>1

LEMMA ServeNumbers ==
  ASSUME StreamInv, Numbers, NEW h \in Handler, Serve(h) \/ Connect(h)
  PROVE  Numbers'
<1> USE StreamAssumption
<1>1. /\ Types /\ Rest /\ lastEvent \in Nat /\ page \in PageState
      /\ handler \in [Handler -> HandlerState] /\ handler[h] \in HandlerState
  BY DEF StreamInv, Types, MarketTypes
<1>2. UNCHANGED <<lastEvent, lastSequence, answers>>
  BY DEF Serve, Subscribe, Refuse, SendSnapshot, TakeMarker, DropUpdate, SendUpdate,
         FindMissed, SendHeartbeat, Connect, market
<1>3. page'.applied = page.applied /\ page'.sequence = page.sequence
  BY <1>1 DEF Serve, Subscribe, Refuse, SendSnapshot, TakeMarker, DropUpdate, SendUpdate,
              FindMissed, SendHeartbeat, Connect, Unlinked, PageState
<1>4. /\ \A g \in Handler : handler[g].cursor \in None..lastEvent
  BY DEF Numbers
<1>5. SUFFICES \A g \in Handler : handler'[g].cursor \in None..lastEvent
  BY <1>2, <1>3 DEF Numbers
<1>6. CASE handler' = handler
  BY <1>4, <1>6
<1>7. ASSUME NEW s, s.cursor \in None..lastEvent, handler' = [handler EXCEPT ![h] = s]
      PROVE  \A g \in Handler : handler'[g].cursor \in None..lastEvent
  BY <1>1, <1>4, <1>7, CursorsKept
<1>8. Idle.cursor \in None..lastEvent
  BY <1>1 DEF Idle, None
<1>9. ASSUME End(h) PROVE \A g \in Handler : handler'[g].cursor \in None..lastEvent
  BY <1>7, <1>8, <1>9 DEF End
<1>10. ASSUME NEW m, NEW s, s.cursor \in None..lastEvent, Deliver(h, m, s)
       PROVE  \A g \in Handler : handler'[g].cursor \in None..lastEvent
  BY <1>7, <1>9, <1>10 DEF Deliver
<1>11. ASSUME handler' = [handler EXCEPT ![h].stage = "reading"]
       PROVE  \A g \in Handler : handler'[g].cursor \in None..lastEvent
  <2> DEFINE s == [handler[h] EXCEPT !.stage = "reading"]
  <2>1. handler' = [handler EXCEPT ![h] = s]
    BY <1>1, <1>11
  <2>2. s.cursor = handler[h].cursor
    BY <1>1 DEF HandlerState
  <2> HIDE DEF s
  <2> QED BY <1>4, <1>7, <2>1, <2>2
<1>12. CASE Subscribe(h) \/ TakeMarker(h) \/ FindMissed(h)
  BY <1>11, <1>12 DEF Subscribe, TakeMarker, FindMissed
<1>13. CASE Refuse(h)
  BY <1>9, <1>13 DEF Refuse
<1>14. CASE SendSnapshot(h)
  <2> DEFINE s == [stage |-> "waiting", cursor |-> Latest, sequence |-> LatestSequence]
  <2>1. Latest \in 0..lastEvent
    <3>1. Latest \in DOMAIN events \cup {0}
      BY <1>1, LatestIsLast
    <3>2. \A e \in DOMAIN events : IsPair(e, events[e])
      BY DEF IsPair
    <3> QED BY <1>1, <3>1, <3>2 DEF Rest, PairsPast
  <2>2. s.cursor \in None..lastEvent
    BY <1>1, <2>1 DEF None
  <2>3. Deliver(h, Snapshot(handler[h].cursor), s)
    BY <1>14 DEF SendSnapshot
  <2> HIDE DEF s
  <2> QED BY <1>10, <2>2, <2>3
<1>15. CASE DropUpdate(h)
  BY <1>6, <1>15 DEF DropUpdate
<1>16. CASE SendUpdate(h)
  <2> DEFINE update == Head(queue[h])
             u == update.event
             v == update.sequence
             s == [handler[h] EXCEPT !.cursor = u, !.sequence = v]
  <2>1. CASE page.link # h
    BY <1>9, <1>16, <2>1 DEF SendUpdate
  <2>2. CASE page.link = h
    <3>1. /\ queue[h] # <<>> /\ update.type = "market_update"
          /\ handler' = [handler EXCEPT ![h].cursor = u, ![h].sequence = v]
      BY <1>16, <2>2 DEF SendUpdate
    <3>2. handler' = [handler EXCEPT ![h] = s]
      BY <1>1, <3>1
    <3>3. s.cursor = u
      BY <1>1 DEF HandlerState
    <3>4. u \in 0..lastEvent
      <4>1. queue[h] \in Seq(QueueItem)
        BY <1>1 DEF Types
      <4>2. HeldIn(queue[h], Updates, u, v)
        BY <3>1, <4>1, HeldHead DEF Updates
      <4>3. IsPair(u, v)
        BY <4>2 DEF IsPair
      <4> QED BY <1>1, <4>3 DEF Rest, PairsPast
    <3>5. s.cursor \in None..lastEvent
      <4> HIDE DEF s, u
      <4> QED BY <1>1, <3>3, <3>4 DEF None
    <3> HIDE DEF s
    <3> QED BY <1>7, <3>2, <3>5
  <2> QED BY <2>1, <2>2
<1>17. CASE SendHeartbeat(h)
  BY <1>4, <1>10, <1>17 DEF SendHeartbeat
<1>18. CASE Connect(h)
  <2> DEFINE c == IF page.retry THEN page.last ELSE None
             s == [Idle EXCEPT !.stage = "accepted", !.cursor = c]
  <2>1. handler' = [handler EXCEPT ![h] = s] /\ s.cursor = c
    BY <1>18 DEF Connect, Idle
  <2>2. c \in None..lastEvent
    BY <1>1 DEF Rest, PageInv, None
  <2> HIDE DEF s, c
  <2> QED BY <1>7, <2>1, <2>2
<1> QED BY <1>12, <1>13, <1>14, <1>15, <1>16, <1>17, <1>18 DEF Serve

LEMMA PageNumbers ==
  ASSUME StreamInv, Numbers, Receive \/ AnswerBook \/ Break \/ Reopen \/ Restart
  PROVE  Numbers'
<1> USE StreamAssumption
<1>1. /\ Types /\ Rest /\ lastEvent \in Nat /\ lastSequence \in Nat /\ page \in PageState
      /\ BookSound(page) /\ page.applied \in Int /\ page.sequence \in Int
  <2>1. Types /\ Rest /\ lastEvent \in Nat /\ lastSequence \in Nat /\ page \in PageState
    BY DEF StreamInv, Types, MarketTypes
  <2>2. BookSound(page)
    BY <2>1 DEF Rest, PageInv
  <2> QED BY <2>1, <2>2 DEF PageState
<1>2. UNCHANGED <<lastEvent, lastSequence>> /\ answers' \subseteq answers
  BY DEF Receive, AnswerBook, Break, Reopen, Restart, market
<1>3. /\ \A g \in Handler : handler[g].cursor \in None..lastEvent
      /\ answers \subseteq 0..lastSequence
      /\ page.applied >= None /\ page.sequence <= lastSequence
  BY DEF Numbers
<1>4. \A g \in Handler : handler'[g].cursor \in None..lastEvent
  <2>1. CASE Restart
    BY <1>1, <2>1 DEF Restart, Idle, None
  <2>2. CASE ~Restart
    BY <1>3, <2>2 DEF Receive, AnswerBook, Break, Reopen
  <2> QED BY <2>1, <2>2
<1>5. SUFFICES page'.applied >= None /\ page'.sequence <= lastSequence
  BY <1>2, <1>3, <1>4 DEF Numbers
<1>6. CASE Receive
  <2> DEFINE m == Head(channel)
  <2>1. IsPair(m.event, m.sequence) /\ Moved(page, page', m)
    BY <1>1, <1>6, ReceiveMoves
  <2>2. m.sequence \in 0..lastSequence
    BY <1>1, <2>1 DEF Rest, PairsPast
  <2> HIDE DEF m
  <2>3. CASE page'.applied = page.applied /\ page'.sequence = page.sequence
    BY <1>3, <2>3
  <2>4. CASE /\ page'.applied = Larger(page.applied, m.sequence)
             /\ page'.sequence = Larger(page.sequence, m.sequence)
    <3>0. m.sequence \in Int
      BY <2>2
    <3>1. page'.applied >= page.applied /\ page'.applied \in Int
      BY <3>0, <1>1, <2>2, <2>4, LargerIs
    <3>2. page'.sequence \in {page.sequence, m.sequence}
      BY <3>0, <1>1, <2>2, <2>4, LargerIs
    <3> QED BY <1>1, <1>3, <2>2, <3>1, <3>2 DEF None
  <2> QED BY <2>1, <2>3, <2>4 DEF Moved
<1>7. CASE AnswerBook
  <2>1. PICK q \in answers : page' = WithBook(page, q)
    BY <1>7 DEF AnswerBook
  <2>2. q \in 0..lastSequence
    BY <1>3
  <2>3. page'.applied = page.applied
    BY <1>1, <2>1, <2>2, AnswerSound
  <2>4. page'.sequence \in {page.sequence, q}
    <3>1. CASE ShouldApplyBookSnapshot(q, page)
      <4>1. page' = [page EXCEPT !.book = q, !.sequence = Larger(page.sequence, q)]
        BY <2>1, <3>1 DEF WithBook
      <4>2. page'.sequence = Larger(page.sequence, q)
        BY <1>1, <4>1 DEF PageState
      <4>3. q \in Int
        BY <2>2
      <4> QED BY <1>1, <4>2, <4>3, LargerIs
    <3>2. CASE ~ShouldApplyBookSnapshot(q, page)
      BY <2>1, <3>2 DEF WithBook
    <3> QED BY <3>1, <3>2
  <2> QED BY <1>3, <2>2, <2>3, <2>4
<1>8. CASE Break \/ Restart
  <2>1. page' = page \/ page' = Unlinked(page)
    BY <1>8 DEF Break, Restart
  <2>2. page'.applied = page.applied /\ page'.sequence = page.sequence
    BY <1>1, <2>1 DEF Unlinked, PageState
  <2> QED BY <1>3, <2>2
<1>9. CASE Reopen
  BY <1>1, <1>9 DEF Reopen, NewPage, None
<1> QED BY <1>6, <1>7, <1>8, <1>9

LEMMA StepNumbers ==
  ASSUME StreamInv, Numbers, [Next]_svars
  PROVE  Numbers'
<1> USE StreamAssumption
<1>1. Types /\ Rest
  BY DEF StreamInv
<1>2. /\ \A h \in Handler : handler[h].cursor \in None..lastEvent'
      /\ page.applied >= None /\ page.sequence <= lastSequence'
      /\ answers \subseteq 0..lastSequence'
  BY <1>1, KeptNumbers
<1>3. CASE UNCHANGED <<handler, page, answers>>
  BY <1>2, <1>3 DEF Numbers
<1>4. CASE \E h \in Handler : Serve(h) \/ Connect(h)
  BY <1>4, ServeNumbers
<1>5. CASE Receive \/ AnswerBook \/ Break \/ Reopen \/ Restart
  BY <1>5, PageNumbers
<1>6. CASE AskBook
  <2>1. LatestSequence \in 0..lastSequence
    <3>1. Latest \in DOMAIN events \cup {0}
      BY <1>1, LatestIsLast
    <3>2. IsPair(0, 0) /\ \A e \in DOMAIN events : IsPair(e, events[e])
      BY DEF IsPair
    <3>3. 0 \in 0..lastSequence /\ \A e \in DOMAIN events : events[e] \in 0..lastSequence
      BY <1>1, <3>2 DEF Rest, PairsPast
    <3> QED BY <3>1, <3>3 DEF LatestSequence
  <2>2. /\ answers' = answers \cup {LatestSequence}
        /\ UNCHANGED <<lastEvent, lastSequence, handler, page>>
    BY <1>6 DEF AskBook, market
  <2> QED BY <1>2, <2>1, <2>2 DEF Numbers
<1>7. CASE \/ CommitByWorker \/ CommitEmbedded \/ CommitUnheard \/ Reset
           \/ PublishUpdate \/ RelayPublish \/ RelayConnect \/ RelayDisconnect
  BY <1>3, <1>7 DEF CommitByWorker, CommitEmbedded, CommitUnheard, Commit, Reset,
                    PublishUpdate, RelayPublish, RelayConnect, RelayDisconnect
<1>8. CASE UNCHANGED svars
  BY <1>3, <1>8 DEF svars
<1> QED BY <1>4, <1>5, <1>6, <1>7, <1>8 DEF Next

(* The queues of relay and broadcaster, the socket and the places for           *)
(* connections never hold more than they may (notifications.py, _received;       *)
(* broadcast.py, publish and subscribe), a handler that has returned has no      *)
(* queue left, and no cursor, REST answer or page is ahead of the market.       *)
THEOREM StreamTypeOK == Spec => []TypeOK
<1>1. Init => Sizes /\ Numbers
  BY InitSizes, InitNumbers
<1>2. StreamInv /\ Sizes /\ Numbers /\ [Next]_svars => (Sizes /\ Numbers)'
  BY StepSizes, StepNumbers DEF StreamInv
<1>3. StreamInv /\ Sizes /\ Numbers => TypeOK
  <2> SUFFICES ASSUME StreamInv, Sizes, Numbers PROVE TypeOK
    OBVIOUS
  <2>1. /\ Types /\ Rest /\ page \in PageState /\ handler \in [Handler -> HandlerState]
        /\ lastEvent \in 0..MaxEvent /\ lastSequence \in 0..MaxSequence
        /\ MaxEvent \in Nat /\ MaxSequence \in Nat
        /\ DOMAIN events \subseteq 1..MaxEvent
    BY StreamAssumption DEF StreamAssumption, StreamInv, Types, MarketTypes
  <2>2. ASSUME NEW e \in DOMAIN events
        PROVE  e \in 1..lastEvent /\ events[e] \in 1..lastSequence
    <3>1. IsPair(e, events[e]) /\ IsPair(0, 0)
      BY DEF IsPair
    <3>2. e \in 0..lastEvent /\ events[e] \in 0..lastSequence
      BY <2>1, <3>1 DEF Rest, PairsPast
    <3>3. (events[e] <= 0) <=> (e <= 0)
      BY <2>1, <3>1 DEF Rest, PairsOrdered
    <3> QED BY <2>1, <3>2, <3>3
  <2>3. \A h \in Handler :
          /\ Len(queue[h]) <= QueueSize
          /\ handler[h].stage \in {"none", "accepted"} \cup Subscribed
          /\ handler[h].stage \notin Subscribed => queue[h] = <<>>
          /\ handler[h].cursor \in None..MaxEvent
    BY <2>1 DEF Sizes, QueueFits, Numbers, HandlerState, Subscribed, None
  <2>4. page.book \in None..lastSequence /\ page.applied \in None..lastSequence
    <3>1. page.applied \in Int /\ page.book \in Int
      BY <2>1 DEF PageState
    <3>2. /\ page.applied >= None /\ page.applied <= page.book
          /\ Larger(page.book, 0) <= lastSequence
      BY <2>1 DEF Rest, PageInv, BookSound, Numbers
    <3>3. page.book <= lastSequence
      BY <2>1, <3>1, <3>2 DEF Larger
    <3> QED BY <2>1, <3>1, <3>2, <3>3 DEF None
  <2>5. page.link \in Handler \cup {NoHandler}
    BY <2>1 DEF PageState
  <2>6. answers \subseteq 0..lastSequence
    BY DEF Numbers
  <2> QED BY <2>1, <2>2, <2>3, <2>4, <2>5, <2>6 DEF Sizes, TypeOK
<1> QED BY <1>1, <1>2, <1>3, StreamInvariant, PTL DEF Spec

(* Whatever is lost, late or never heard, a page resumes after no event that its *)
(* book does not include (App.tsx, onmessage; routes.py, market_stream): the      *)
(* cursor by which it catches up never runs ahead of what it shows.             *)
THEOREM StreamBookIncludesLast == Spec => []BookIncludesLast
<1>1. ASSUME StreamInv, TypeOK PROVE BookIncludesLast
  <2> SUFFICES ASSUME NEW e \in DOMAIN events, e <= page.last
               PROVE  events[e] <= page.book
    BY DEF BookIncludesLast
  <2>1. lastSequence \in Nat /\ events[e] \in 1..lastSequence /\ page.book \in Int
    BY <1>1 DEF TypeOK, StreamInv, Types, MarketTypes, PageState
  <2>2. IsPair(e, events[e])
    BY DEF IsPair
  <2>3. events[e] <= page.sequence /\ page.sequence = Larger(page.book, 0)
    BY <1>1, <2>2 DEF StreamInv, Rest, PageInv, BookSound
  <2> QED BY <2>1, <2>3 DEF Larger
<1> QED BY <1>1, StreamInvariant, StreamTypeOK, PTL

-----------------------------------------------------------------------------
(* Nothing is skipped                                                        *)

(* A handler with the state s and the queue q; X is committed, not published.   *)
Fed(D, dep, X, s, q) ==
    s.stage = "waiting" =>
        /\ NoGap(D, s.cursor, q)
        /\ dep = "embedded" => NothingMissing(D, s.cursor, q, X)

Told(D, p) == \A e \in D : e > p.since /\ e <= p.last => e \in p.outcomes

Pending == {committed[i].event : i \in 1..Len(committed)}

(* The processors run in one place: what is committed inside is published.     *)
OnePlace ==
    /\ deployment # "mixed" /\ Len(committed) <= 1
    /\ committed # <<>> => deployment = "embedded"

AllFed == \A h \in Handler : Fed(DOMAIN events, deployment, Pending, handler[h], queue[h])
AllTell == ChannelTells(DOMAIN events, page.last, channel)
TellRest == OnePlace /\ AllTell /\ AllFed /\ Told(DOMAIN events, page)

(* An event that is missed is replayed, or is before the replay.               *)
LEMMA MissedIsRecovered ==
  ASSUME StreamAssumption, MarketTypes, NEW after \in Int, NEW e \in DOMAIN events, e > after,
         e \notin Recovered(after)
  PROVE  /\ Cardinality({f \in DOMAIN events : f > after}) > ReplayLimit
         /\ e < Min(Recovered(after))
<1> DEFINE missed == {f \in DOMAIN events : f > after}
           later == {f \in DOMAIN events : f > e}
<1>1. /\ MaxEvent \in Nat /\ ReplayLimit \in Nat /\ DOMAIN events \subseteq 1..MaxEvent
      /\ e \in Nat
  BY DEF StreamAssumption, MarketTypes
<1>2. IsFiniteSet(DOMAIN events)
  <2>1. IsFiniteSet(1..MaxEvent)
    BY <1>1, FS_Interval
  <2> QED BY <1>1, <2>1, FS_Subset
<1>3. IsFiniteSet(later) /\ IsFiniteSet(missed)
  BY <1>2, FS_Subset
<1>4. ~(Cardinality(later) < ReplayLimit)
  BY DEF Recovered
<1>5. Cardinality(later) \in Nat /\ Cardinality(missed) \in Nat
  BY <1>3, FS_CardinalityType
<1>6. e \notin later /\ later \cup {e} \subseteq missed
  BY <1>1
<1>7. Cardinality(later \cup {e}) = Cardinality(later) + 1 /\ IsFiniteSet(later \cup {e})
  BY <1>3, <1>6, FS_AddElement
<1>8. Cardinality(later \cup {e}) <= Cardinality(missed)
  BY <1>3, <1>6, FS_Subset
<1>9. Cardinality(missed) > ReplayLimit
  BY <1>1, <1>4, <1>5, <1>7, <1>8
<1>10. Recovered(after) # {} /\ Recovered(after) \in SUBSET Nat
  BY <1>1, <1>9, RecoveredOfMissed DEF Recovered
<1> DEFINE m == Min(Recovered(after))
<1>11. m \in Recovered(after)
  BY <1>10, MinOfNumbers
<1> HIDE DEF m
<1>12. m \in Nat /\ m # e
  BY <1>10, <1>11
<1>13. ~(m < e)
  <2> SUFFICES ASSUME m < e PROVE FALSE
    OBVIOUS
  <2> DEFINE after2 == {f \in DOMAIN events : f > m}
  <2>1. later \subseteq after2
    BY <1>1, <1>12
  <2>2. IsFiniteSet(after2)
    BY <1>2, FS_Subset
  <2>3. Cardinality(later) <= Cardinality(after2) /\ Cardinality(after2) \in Nat
    BY <2>1, <2>2, FS_Subset, FS_CardinalityType
  <2>4. Cardinality(after2) < ReplayLimit
    BY <1>11 DEF Recovered
  <2> HIDE DEF after2, later
  <2> QED BY <1>1, <1>4, <1>5, <2>3, <2>4
<1>14. e < m
  BY <1>1, <1>12, <1>13
<1> QED BY <1>9, <1>14 DEF m

(* What is ahead of all that is sent is after the cursor.                      *)
LEMMA AheadOfCursor ==
  ASSUME NEW last \in Int, NEW ch \in Seq(Message), NEW c \in Int, NEW e \in Int,
         ~Ahead(last, ch, c, Len(ch) + 1), Ahead(last, ch, e, Len(ch) + 1)
  PROVE  e > c
<1> SUFFICES ASSUME c >= e PROVE Ahead(last, ch, c, Len(ch) + 1)
  OBVIOUS
<1>1. \A j \in 1..((Len(ch) + 1) - 1) : ch[j].event \in Int
  <2>1. \A j \in 1..((Len(ch) + 1) - 1) : j \in 1..Len(ch)
    OBVIOUS
  <2> QED BY <2>1, ElementOfSeq, MessageEvent
<1> QED BY <1>1 DEF Ahead

(* A message's index after it is appended.                                    *)
LEMMA AheadInAppend ==
  ASSUME NEW ch \in Seq(Message), NEW m \in Message, NEW last, NEW e
  PROVE  /\ Append(ch, m)[Len(ch) + 1] = m
         /\ Ahead(last, Append(ch, m), e, Len(ch) + 1) <=> Ahead(last, ch, e, Len(ch) + 1)
<1> DEFINE n == Append(ch, m)
<1>1. /\ Len(ch) \in Nat /\ n[Len(ch) + 1] = m /\ \A i \in 1..Len(ch) : n[i] = ch[i]
  OBVIOUS
<1> HIDE DEF n
<1>2. \A j \in 1..((Len(ch) + 1) - 1) : n[j] = ch[j]
  BY <1>1
<1> QED BY <1>1, <1>2 DEF Ahead, n

(* Market, page and channel stay, and so do the handlers that still wait.       *)
LEMMA QuietTell ==
  ASSUME TellRest, UNCHANGED <<deployment, page, channel, committed>>, DOMAIN events' = DOMAIN events,
         \A h \in Handler :
            handler'[h].stage = "waiting" => handler'[h] = handler[h] /\ queue'[h] = queue[h]
  PROVE  TellRest'
<1>1. OnePlace' /\ AllTell' /\ Told(DOMAIN events', page')
  BY DEF TellRest, OnePlace, AllTell
<1>2. AllFed'
  <2>1. Pending' = Pending
    BY DEF Pending
  <2> QED BY <2>1 DEF TellRest, AllFed, Fed
<1> QED BY <1>1, <1>2 DEF TellRest
(* A new event is later than everything that is held.                          *)
LEMMA NewIsLater ==
  ASSUME Types, Rest, NEW n \in Nat, n > lastEvent
  PROVE  /\ \A i \in 1..Len(channel) : n > channel[i].event
         /\ \A h \in Handler : \A i \in 1..Len(queue[h]) :
               queue[h][i].type = "market_update" => n > queue[h][i].event
         /\ n > page.last
<1>1. lastEvent \in Nat
  BY DEF Types, MarketTypes
<1>2. ASSUME NEW e, NEW q, IsPair(e, q) PROVE n > e
  <2>1. e \in 0..lastEvent
    BY <1>2 DEF Rest, PairsPast
  <2> QED BY <1>1, <2>1
<1>3. ASSUME NEW i \in 1..Len(channel) PROVE n > channel[i].event
  <2>1. channel[i] \in Message
    BY ElementOfSeq DEF Types
  <2>2. HeldIn(channel, AnyMessage, channel[i].event, channel[i].sequence)
    BY <2>1, MessageEvent DEF HeldIn, AnyMessage
  <2> QED BY <1>2, <2>2, HeldPairs
<1>4. ASSUME NEW h \in Handler, NEW i \in 1..Len(queue[h]), queue[h][i].type = "market_update"
      PROVE  n > queue[h][i].event
  <2>1. HeldIn(queue[h], Updates, queue[h][i].event, queue[h][i].sequence)
    BY <1>4 DEF HeldIn, Updates
  <2> QED BY <1>2, <2>1, HeldPairs
<1>5. n > page.last
  <2>1. page.last \in 0..lastEvent
    BY DEF Rest, PageInv
  <2> QED BY <1>1, <2>1
<1> QED BY <1>3, <1>4, <1>5

LEMMA MarketTell ==
  ASSUME StreamAssumption, Types, Rest, TellRest, "unheard" \notin Disturbance,
         CommitByWorker \/ CommitEmbedded \/ CommitUnheard \/ Reset
  PROVE  TellRest'
<1>1. CASE CommitByWorker \/ CommitEmbedded
  <2>1. PICK e \in FreshEvents, q \in FreshSequences :
           /\ Commit(e, q)
           /\ \/ deployment \in Outside /\ committed' = committed
              \/ /\ deployment \in Inside /\ committed = <<>>
                 /\ committed' = <<Update(e, q)>>
    BY <1>1 DEF CommitByWorker, CommitEmbedded
  <2>2. lastEvent \in Nat /\ lastSequence \in Nat /\ DOMAIN events \subseteq Nat
    BY StreamAssumption DEF Types, MarketTypes, StreamAssumption
  <2>3. e \in Nat /\ e > lastEvent
    BY <2>2, StreamAssumption DEF FreshEvents, StreamAssumption
  <2>4. /\ DOMAIN events' = DOMAIN events \cup {e}
        /\ UNCHANGED <<queue, handler, channel, page, deployment>>
    BY <2>1 DEF Commit, Log!Append, Log!WithEvent
  <2>5. /\ \A i \in 1..Len(channel) : e > channel[i].event
        /\ \A h \in Handler : \A i \in 1..Len(queue[h]) :
              queue[h][i].type = "market_update" => e > queue[h][i].event
        /\ e > page.last
    BY <2>3, NewIsLater
  <2>6. OnePlace' /\ (deployment = "embedded" => Pending' = Pending \cup {e})
    <3>1. CASE deployment \in Outside /\ committed' = committed
      BY <2>4, <3>1 DEF TellRest, OnePlace, Outside
    <3>2. CASE /\ deployment \in Inside /\ committed = <<>>
               /\ committed' = <<Update(e, q)>>
      <4>1. Len(committed') = 1 /\ committed'[1].event = e /\ Len(committed) = 0
        BY <3>2 DEF Update
      <4>2. Pending = {} /\ Pending' = {e}
        BY <4>1 DEF Pending
      <4>3. OnePlace'
        BY <2>4, <3>2, <4>1 DEF TellRest, OnePlace, Inside
      <4> QED BY <4>2, <4>3
    <3> QED BY <2>1, <3>1, <3>2
  <2>7. AllTell'
    <3>1. channel \in Seq(Message) /\ page.last \in Int
      BY DEF Types, PageState
    <3>2. ChannelTells(DOMAIN events', page.last, channel)
      BY <2>3, <2>4, <2>5, <3>1, MoreTells DEF TellRest, AllTell
    <3> QED BY <2>4, <3>2 DEF AllTell
  <2>8. ASSUME NEW h \in Handler
        PROVE  Fed(DOMAIN events', deployment', Pending', handler'[h], queue'[h])
    <3>1. queue[h] \in Seq(QueueItem) /\ handler[h].cursor \in Int
      BY DEF Types, HandlerState
    <3> DEFINE Y == Pending \cup {e}
    <3>2. Pending \subseteq Y /\ e \in Y
      OBVIOUS
    <3> HIDE DEF Y
    <3>3. \A f \in DOMAIN events' : f \in DOMAIN events \/ (f \in Y /\ f \in Int /\
             \A i \in 1..Len(queue[h]) :
                queue[h][i].type = "market_update" => f > queue[h][i].event)
      BY <2>3, <2>4, <2>5, <3>2
    <3>4. /\ NoGap(DOMAIN events, handler[h].cursor, queue[h])
                => NoGap(DOMAIN events', handler[h].cursor, queue[h])
          /\ NothingMissing(DOMAIN events, handler[h].cursor, queue[h], Pending)
                => NothingMissing(DOMAIN events', handler[h].cursor, queue[h], Y)
      BY <3>1, <3>2, <3>3, MoreQueued
    <3>5. Fed(DOMAIN events, deployment, Pending, handler[h], queue[h])
      BY DEF TellRest, AllFed
    <3> QED BY <2>4, <2>6, <3>4, <3>5 DEF Fed, Y
  <2>9. Told(DOMAIN events', page')
    <3>1. page.last \in Int
      BY DEF Types, PageState
    <3> QED BY <2>3, <2>4, <2>5, <3>1 DEF TellRest, Told
  <2> QED BY <2>6, <2>7, <2>8, <2>9 DEF TellRest, AllFed
<1>2. CASE CommitUnheard
  BY <1>2 DEF CommitUnheard, Disturb
<1>3. CASE Reset
  <2>1. /\ DOMAIN events' = {}
        /\ UNCHANGED <<deployment, committed, queue, handler, channel, page>>
    BY <1>3 DEF Reset, Log!Erase, Log!NoEvents
  <2>2. AllTell'
    <3>1. channel \in Seq(Message) /\ page.last \in Int
      BY DEF Types, PageState
    <3>2. ChannelTells(DOMAIN events', page.last, channel)
      BY <2>1, <3>1, MoreTells DEF TellRest, AllTell
    <3> QED BY <2>1, <3>2 DEF AllTell
  <2>3. AllFed'
    <3>1. \A c, q, X : NoGap(DOMAIN events', c, q) /\ NothingMissing(DOMAIN events', c, q, X)
      BY <2>1, CaughtUp
    <3> QED BY <3>1 DEF AllFed, Fed
  <2>4. OnePlace' /\ Told(DOMAIN events', page')
    BY <2>1 DEF TellRest, OnePlace, Told
  <2> QED BY <2>2, <2>3, <2>4 DEF TellRest
<1> QED BY <1>1, <1>2, <1>3

(* The queue of a handler that waits, when u is published.                     *)
LEMMA FanoutFeeds ==
  ASSUME Types, NEW h \in Handler, handler[h].stage = "waiting", NEW u \in QueueItem, NEW D,
         NoGap(D, handler[h].cursor, queue[h]),
         u.type = "market_update" =>
            NothingMissing(D, handler[h].cursor, queue[h], {u.event})
  PROVE  /\ NoGap(D, handler[h].cursor, Fanout(u)[h])
         /\ NothingMissing(D, handler[h].cursor, Fanout(u)[h], {})
<1> DEFINE c == handler[h].cursor
           q == queue[h]
<1>1. q \in Seq(QueueItem) /\ c \in Int
  BY DEF Types, HandlerState
<1>2. h \in Subscribers
  BY DEF Subscribers, Subscribed
<1>3. Fanout(u)[h] = <<Resync>> \/ Fanout(u)[h] = Append(q, u)
  BY <1>2 DEF Fanout
<1> HIDE DEF c, q
<1>4. NoGap(D, c, <<Resync>>) /\ NothingMissing(D, c, <<Resync>>, {})
  BY ResyncQueue
<1>5. NoGap(D, c, Append(q, u))
  <2>1. ASSUME u.type = "market_update", Plain(q, Len(q)), NEW e \in D, After(c, q, e, Len(q))
        PROVE  e >= u.event
    <3>1. e = u.event /\ u.event \in Nat
      BY <2>1 DEF NothingMissing, c, q, QueueItem
    <3> QED BY <3>1
  <2> QED BY <1>1, <2>1, AppendQueue DEF c, q
<1>6. NothingMissing(D, c, Append(q, u), {})
  <2>1. CASE u.type = "market_update"
    BY <1>1, <2>1, PublishedQueue DEF c, q
  <2>2. CASE u.type # "market_update"
    <3>1. Len(Append(q, u)) \in 1..Len(Append(q, u)) /\ Append(q, u)[Len(Append(q, u))] = u
      BY <1>1
    <3> QED BY <2>2, <3>1, MarkedQueue
  <2> QED BY <2>1, <2>2
<1> QED BY <1>3, <1>4, <1>5, <1>6 DEF c

LEMMA PublicationTell ==
  ASSUME StreamAssumption, Types, Rest, TellRest,
         PublishUpdate \/ RelayPublish \/ RelayConnect \/ RelayDisconnect \/ AskBook
  PROVE  TellRest'
<1>0. UNCHANGED <<events, deployment, page, handler, channel>>
  BY DEF PublishUpdate, RelayPublish, RelayConnect, RelayDisconnect, AskBook, market
<1>1. AllTell' /\ Told(DOMAIN events', page')
  BY <1>0 DEF TellRest, AllTell
<1>2. CASE PublishUpdate
  <2> DEFINE u == Head(committed)
  <2>1. /\ committed \in Seq(UpdateMessage) /\ committed # <<>> /\ Len(committed) <= 1
        /\ queue' = Fanout(u) /\ committed' = <<>> /\ deployment = "embedded"
    BY <1>2 DEF PublishUpdate, Types, TellRest, OnePlace
  <2>2. u \in UpdateMessage /\ Len(committed) = 1 /\ committed[1] = u
    <3>1. u \in UpdateMessage
      BY <2>1, HeadTailProperties
    <3>2. Len(committed) \in Nat \ {0} /\ committed[1] = u
      BY <2>1, EmptySeq
    <3>3. Len(committed) <= 1
      BY <2>1
    <3>4. Len(committed) = 1
      <4>1. \A n \in Nat \ {0} : n <= 1 => n = 1
        OBVIOUS
      <4> QED BY <3>2, <3>3, <4>1, Zenon
    <3> QED BY <3>1, <3>2, <3>4
  <2>3. u \in QueueItem /\ u.type = "market_update"
    BY <2>2 DEF UpdateMessage, QueueItem
  <2> HIDE DEF u
  <2>4. Pending = {u.event}
    BY <2>2 DEF Pending
  <2>5. ASSUME NEW h \in Handler
        PROVE  Fed(DOMAIN events', deployment', Pending', handler'[h], queue'[h])
    <3> SUFFICES ASSUME handler[h].stage = "waiting"
                 PROVE  /\ NoGap(DOMAIN events, handler[h].cursor, Fanout(u)[h])
                        /\ NothingMissing(DOMAIN events, handler[h].cursor, Fanout(u)[h], Pending')
      BY <1>0, <2>1 DEF Fed
    <3>1. Pending' = {}
      BY <2>1 DEF Pending
    <3>2. /\ NoGap(DOMAIN events, handler[h].cursor, queue[h])
          /\ NothingMissing(DOMAIN events, handler[h].cursor, queue[h], {u.event})
      BY <2>1, <2>4 DEF TellRest, AllFed, Fed
    <3> QED BY <2>3, <3>1, <3>2, FanoutFeeds
  <2>6. OnePlace'
    BY <1>0, <2>1 DEF TellRest, OnePlace
  <2> QED BY <1>1, <2>5, <2>6 DEF TellRest, AllFed
<1>3. CASE RelayPublish
  <2> DEFINE u == LiveRefresh(Head(hints))
  <2>1. Head(hints) \in Nat /\ queue' = Fanout(u) /\ committed' = committed
    BY <1>3, HeadTailProperties DEF RelayPublish, Types
  <2>2. u \in QueueItem /\ u.type # "market_update"
    BY <2>1 DEF LiveRefresh, QueueItem
  <2> HIDE DEF u
  <2>3. ASSUME NEW h \in Handler
        PROVE  Fed(DOMAIN events', deployment', Pending', handler'[h], queue'[h])
    <3> SUFFICES ASSUME handler[h].stage = "waiting"
                 PROVE  /\ NoGap(DOMAIN events, handler[h].cursor, Fanout(u)[h])
                        /\ NothingMissing(DOMAIN events, handler[h].cursor, Fanout(u)[h], Pending')
      BY <1>0, <2>1 DEF Fed
    <3>1. NoGap(DOMAIN events, handler[h].cursor, queue[h])
      BY DEF TellRest, AllFed, Fed
    <3>2. /\ NoGap(DOMAIN events, handler[h].cursor, Fanout(u)[h])
          /\ NothingMissing(DOMAIN events, handler[h].cursor, Fanout(u)[h], {})
      BY <2>2, <3>1, FanoutFeeds
    <3> QED BY <3>2 DEF NothingMissing
  <2>4. OnePlace'
    BY <1>0, <2>1 DEF TellRest, OnePlace
  <2> QED BY <1>1, <2>3, <2>4 DEF TellRest, AllFed
<1>4. CASE RelayConnect \/ RelayDisconnect \/ AskBook
  <2>1. UNCHANGED <<committed, queue>>
    BY <1>4 DEF RelayConnect, RelayDisconnect, AskBook
  <2> QED BY <1>0, <2>1, QuietTell
<1> QED BY <1>2, <1>3, <1>4

(* A handler that does not wait after the step, and whose page gets nothing.    *)
LEMMA LeaveTell ==
  ASSUME Types, TellRest, NEW h \in Handler, handler'[h].stage # "waiting",
         \A g \in Handler \ {h} : handler'[g] = handler[g] /\ queue'[g] = queue[g],
         UNCHANGED <<deployment, events, committed, page, channel>>
  PROVE  TellRest'
BY QuietTell

LEMMA EndTell ==
  ASSUME Types, TellRest, NEW h \in Handler, End(h),
         UNCHANGED <<deployment, events, committed, page, channel>>
  PROVE  TellRest'
<1>1. /\ handler' = [handler EXCEPT ![h] = Idle] /\ queue' = [queue EXCEPT ![h] = <<>>]
      /\ handler \in [Handler -> HandlerState] /\ queue \in [Handler -> Seq(QueueItem)]
  BY DEF End, Types
<1>2. /\ handler'[h].stage # "waiting"
      /\ \A g \in Handler \ {h} : handler'[g] = handler[g] /\ queue'[g] = queue[g]
  BY <1>1 DEF Idle
<1> QED BY <1>2, LeaveTell

(* The page's handler h has sent m, or taken a message it need not send.        *)
LEMMA SentTell ==
  ASSUME Types, TellRest, NEW h \in Handler,
         \A g \in Handler \ {h} : handler'[g] = handler[g] /\ queue'[g] = queue[g],
         UNCHANGED <<deployment, events, committed, page>>,
         Fed(DOMAIN events, deployment, Pending, handler'[h], queue'[h]),
         \/ channel' = channel
         \/ \E m \in Message :
               /\ channel' = Append(channel, m)
               /\ Tells(DOMAIN events, page.last, Append(channel, m), Len(channel) + 1)
  PROVE  TellRest'
<1>1. OnePlace' /\ Told(DOMAIN events', page') /\ Pending' = Pending
  BY DEF TellRest, OnePlace, Pending
<1>2. AllFed'
  <2>1. \A g \in Handler : Fed(DOMAIN events, deployment, Pending, handler'[g], queue'[g])
    <3>1. ASSUME NEW g \in Handler, g # h
          PROVE Fed(DOMAIN events, deployment, Pending, handler'[g], queue'[g])
      BY <3>1 DEF TellRest, AllFed
    <3> QED BY <3>1
  <2> QED BY <1>1, <2>1 DEF AllFed
<1>3. AllTell'
  <2>1. channel \in Seq(Message) /\ page.last \in Int
    BY DEF Types, PageState
  <2>2. ChannelTells(DOMAIN events, page.last, channel)
    BY DEF TellRest, AllTell
  <2>3. ChannelTells(DOMAIN events, page.last, channel')
    BY <2>1, <2>2, AppendTells
  <2> QED BY <2>3 DEF AllTell
<1> QED BY <1>1, <1>2, <1>3 DEF TellRest

LEMMA SendSnapshotTell ==
  ASSUME StreamAssumption, Types, Rest, TellRest, NEW h \in Handler, SendSnapshot(h)
  PROVE  TellRest'
<1> DEFINE c == handler[h].cursor
           next == [stage |-> "waiting", cursor |-> Latest, sequence |-> LatestSequence]
           m == Snapshot(c)
<1>0. UNCHANGED <<deployment, events, committed, page>> /\ Deliver(h, m, next)
  BY DEF SendSnapshot, market
<1>1. /\ handler \in [Handler -> HandlerState] /\ channel \in Seq(Message)
      /\ page.last \in Int /\ DOMAIN events \subseteq Int /\ c \in Int
  <2>1. handler \in [Handler -> HandlerState] /\ channel \in Seq(Message) /\ page \in PageState
    BY DEF Types
  <2>2. page.last \in Int /\ c \in Int
    BY <2>1 DEF PageState, HandlerState
  <2>3. DOMAIN events \subseteq Int
    BY StreamAssumption DEF Types, MarketTypes, StreamAssumption
  <2> QED BY <2>1, <2>2, <2>3
<1>2. CASE page.link = h
  <2>1. channel' = Append(channel, m) /\ queue' = queue /\ handler' = [handler EXCEPT ![h] = next]
    BY <1>0, <1>2 DEF Deliver
  <2>2. /\ handler'[h] = next
        /\ \A g \in Handler \ {h} : handler'[g] = handler[g] /\ queue'[g] = queue[g]
    BY <1>1, <2>1
  <2>3. m \in Message
    BY <1>1, SnapshotTypes DEF Types, Message
  <2>4. /\ Tells({}, page.last, Append(channel, m), Len(channel) + 1)
        /\ c = None => Len(channel) + 1 = 1 /\ page.last = 0
        /\ \A e \in DOMAIN events : e <= Latest
    BY <1>2, SnapshotTells
  <2>5. Fed(DOMAIN events, deployment, Pending, next, queue[h])
    <3>1. \A e \in DOMAIN events : ~(e > Latest)
      <4>1. Latest \in Int
        BY LatestTypes, StreamAssumption DEF Types, StreamAssumption
      <4> QED BY <1>1, <2>4, <4>1
    <3> QED BY <3>1, CaughtUp DEF Fed
  <2>6. Tells(DOMAIN events, page.last, Append(channel, m), Len(channel) + 1)
    <3>1. ~Ahead(page.last, channel, c, Len(channel) + 1)
      BY <1>2 DEF Rest, LinkInv, Linked
    <3>2. ASSUME NEW e \in DOMAIN events, ~m.initial,
                 Ahead(page.last, Append(channel, m), e, Len(channel) + 1)
          PROVE  e \in m.recovered \/ (m.truncated /\ e < Min(m.recovered))
      <4>1. Ahead(page.last, channel, e, Len(channel) + 1)
        BY <1>1, <2>3, <3>2, AheadInAppend
      <4>2. e \in Int
        BY <1>1
      <4>3. e > c
        <5> HIDE DEF c
        <5> QED BY <1>1, <3>1, <4>1, <4>2, AheadOfCursor
      <4>4. /\ e \in Recovered(c)
               \/ /\ Cardinality({f \in DOMAIN events : f > c}) > ReplayLimit
                  /\ e < Min(Recovered(c))
        BY <1>1, <4>3, MissedIsRecovered DEF Types
      <4>5. c # None
        BY <3>2 DEF Snapshot
      <4> QED BY <4>4, <4>5 DEF Snapshot
    <3>3. Append(channel, m)[Len(channel) + 1] = m /\ m.type = "snapshot"
      BY <1>1, <2>3, AheadInAppend DEF Snapshot
    <3> HIDE DEF m, c
    <3> QED BY <2>4, <3>2, <3>3 DEF Tells
  <2> HIDE DEF m, c, next
  <2> QED BY <1>0, <2>1, <2>2, <2>3, <2>5, <2>6, SentTell
<1>3. CASE page.link # h
  <2>1. End(h) /\ channel' = channel
    BY <1>0, <1>3 DEF Deliver
  <2> QED BY <1>0, <2>1, EndTell
<1> QED BY <1>2, <1>3

LEMMA SendUpdateTell ==
  ASSUME StreamAssumption, Types, Rest, TellRest, NEW h \in Handler,
         SendUpdate(h) \/ DropUpdate(h)
  PROVE  TellRest'
<1> DEFINE c == handler[h].cursor
           m == Head(queue[h])
<1>0. UNCHANGED <<deployment, events, committed, page>>
  BY DEF SendUpdate, DropUpdate, market
<1>1. /\ handler \in [Handler -> HandlerState] /\ queue \in [Handler -> Seq(QueueItem)]
      /\ handler[h] \in HandlerState /\ queue[h] \in Seq(QueueItem)
      /\ channel \in Seq(Message) /\ page.last \in Int /\ DOMAIN events \subseteq Int /\ c \in Int
  <2>1. /\ handler \in [Handler -> HandlerState] /\ queue \in [Handler -> Seq(QueueItem)]
        /\ channel \in Seq(Message) /\ page \in PageState
    BY DEF Types
  <2>2. page.last \in Int /\ c \in Int
    BY <2>1 DEF PageState, HandlerState
  <2>3. DOMAIN events \subseteq Int
    BY StreamAssumption DEF Types, MarketTypes, StreamAssumption
  <2> QED BY <2>1, <2>2, <2>3
<1>2. queue[h] # <<>> /\ m.type = "market_update" /\ handler[h].stage = "waiting"
  BY DEF SendUpdate, DropUpdate
<1>3. m \in QueueItem /\ m = queue[h][1] /\ 1 \in 1..Len(queue[h])
  <2>1. m \in QueueItem
    BY <1>1, <1>2, HeadTailProperties
  <2>2. Len(queue[h]) \in Nat \ {0} /\ m = queue[h][1]
    BY <1>1, <1>2, EmptySeq
  <2> QED BY <2>1, <2>2
<1>4. m \in Message /\ m.event \in Int
  BY <1>2, <1>3 DEF QueueItem, UpdateMessage, Message
<1>5. /\ NoGap(DOMAIN events, c, queue[h])
      /\ deployment = "embedded" => NothingMissing(DOMAIN events, c, queue[h], Pending)
  BY <1>2 DEF TellRest, AllFed, Fed
<1>6. CASE SendUpdate(h) /\ page.link # h
  <2>1. End(h) /\ channel' = channel
    BY <1>6 DEF SendUpdate
  <2> QED BY <1>0, <2>1, EndTell
<1>7. CASE SendUpdate(h) /\ page.link = h
  <2>1. /\ channel' = Append(channel, m)
        /\ handler' = [handler EXCEPT ![h].cursor = m.event, ![h].sequence = m.sequence]
        /\ queue' = [queue EXCEPT ![h] = Tail(@)] /\ m.event > c
    BY <1>7 DEF SendUpdate, IsNewEvent
  <2>2. /\ handler'[h].stage = "waiting" /\ handler'[h].cursor = m.event
        /\ \A g \in Handler \ {h} : handler'[g] = handler[g] /\ queue'[g] = queue[g]
        /\ queue'[h] = Tail(queue[h])
    <3> DEFINE u == m.event
               v == m.sequence
    <3>1. handler' = [handler EXCEPT ![h] = [@ EXCEPT !.cursor = u, !.sequence = v]]
      BY <1>1, <2>1
    <3> HIDE DEF u, v
    <3>2. /\ handler'[h].stage = "waiting" /\ handler'[h].cursor = u
          /\ \A g \in Handler \ {h} : handler'[g] = handler[g]
      BY <1>1, <1>2, <3>1 DEF HandlerState
    <3> QED BY <1>1, <2>1, <3>2 DEF u
  <2>3. Fed(DOMAIN events, deployment, Pending, handler'[h], queue'[h])
    <3> DEFINE b == m.event
    <3>1. b \in Int /\ b >= c /\ b >= m.event /\ b = m.event
      <4>1. c \in Int /\ m.event \in Int /\ m.event > c
        BY <1>1, <1>4, <2>1
      <4> HIDE DEF c, m
      <4> QED BY <4>1
    <3> HIDE DEF b, c
    <3>2. /\ NoGap(DOMAIN events, c, queue[h]) => NoGap(DOMAIN events, b, Tail(queue[h]))
          /\ NothingMissing(DOMAIN events, c, queue[h], Pending)
                => NothingMissing(DOMAIN events, b, Tail(queue[h]), Pending)
      BY <1>1, <1>2, <3>1, TakenQueue
    <3> QED BY <1>5, <2>2, <3>1, <3>2 DEF Fed
  <2>4. Tells(DOMAIN events, page.last, Append(channel, m), Len(channel) + 1)
    <3>1. ~Ahead(page.last, channel, c, Len(channel) + 1)
      BY <1>7 DEF Rest, LinkInv, Linked
    <3>2. ASSUME NEW e \in DOMAIN events,
                 Ahead(page.last, Append(channel, m), e, Len(channel) + 1)
          PROVE  e >= m.event
      <4>1. Ahead(page.last, channel, e, Len(channel) + 1)
        BY <1>4, <1>1, <3>2, AheadInAppend
      <4>2. e \in Int
        BY <1>1
      <4>3. e > c
        <5> HIDE DEF c
        <5> QED BY <1>1, <3>1, <4>1, <4>2, AheadOfCursor
      <4>4. Plain(queue[h], 1)
        BY <1>2, <1>3 DEF Plain
      <4>5. After(c, queue[h], e, 1 - 1)
        BY <4>3 DEF After
      <4> QED BY <1>3, <1>5, <4>4, <4>5 DEF NoGap
    <3>3. Append(channel, m)[Len(channel) + 1] = m
      BY <1>1, <1>4, AheadInAppend
    <3> HIDE DEF m, c
    <3> QED BY <1>2, <3>2, <3>3 DEF Tells
  <2> HIDE DEF m, c
  <2> QED BY <1>0, <1>4, <2>1, <2>2, <2>3, <2>4, SentTell
<1>8. CASE DropUpdate(h)
  <2>1. /\ channel' = channel /\ handler' = handler
        /\ queue' = [queue EXCEPT ![h] = Tail(@)] /\ ~(m.event > c)
    BY <1>8 DEF DropUpdate, IsNewEvent
  <2>2. /\ \A g \in Handler \ {h} : handler'[g] = handler[g] /\ queue'[g] = queue[g]
        /\ queue'[h] = Tail(queue[h]) /\ handler'[h] = handler[h]
    BY <1>1, <2>1
  <2>3. Fed(DOMAIN events, deployment, Pending, handler'[h], queue'[h])
    <3>1. c >= c /\ c >= m.event
      BY <1>1, <1>4, <2>1
    <3>2. /\ NoGap(DOMAIN events, c, queue[h]) => NoGap(DOMAIN events, c, Tail(queue[h]))
          /\ NothingMissing(DOMAIN events, c, queue[h], Pending)
                => NothingMissing(DOMAIN events, c, Tail(queue[h]), Pending)
      <4> HIDE DEF c
      <4> QED BY <1>1, <1>2, <3>1, TakenQueue
    <3> QED BY <1>5, <2>2, <3>2 DEF Fed
  <2> QED BY <1>0, <2>1, <2>2, <2>3, SentTell
<1> QED BY <1>6, <1>7, <1>8

LEMMA ServeTell ==
  ASSUME StreamAssumption, Types, Rest, TellRest, NEW h \in Handler, Serve(h)
  PROVE  TellRest'
<1>1. handler \in [Handler -> HandlerState] /\ queue \in [Handler -> Seq(QueueItem)]
  BY DEF Types
<1>2. CASE SendSnapshot(h)
  BY <1>2, SendSnapshotTell
<1>3. CASE SendUpdate(h) \/ DropUpdate(h)
  BY <1>3, SendUpdateTell
<1>4. CASE TakeMarker(h) \/ FindMissed(h) \/ Subscribe(h)
  <2>1. /\ handler' = [handler EXCEPT ![h].stage = "reading"]
        /\ queue' = queue \/ queue' = [queue EXCEPT ![h] = Tail(@)]
        /\ UNCHANGED <<deployment, events, committed, page, channel>>
    BY <1>4 DEF TakeMarker, FindMissed, Subscribe, market
  <2>2. /\ handler'[h].stage # "waiting"
        /\ \A g \in Handler \ {h} : handler'[g] = handler[g] /\ queue'[g] = queue[g]
    BY <1>1, <2>1 DEF HandlerState
  <2> QED BY <2>1, <2>2, LeaveTell
<1>5. CASE SendHeartbeat(h)
  <2> DEFINE m == Heartbeat(h)
  <2>1. /\ UNCHANGED <<deployment, events, committed, page>> /\ Deliver(h, m, handler[h])
        /\ handler[h].stage = "waiting"
    BY <1>5 DEF SendHeartbeat, market
  <2>2. CASE page.link # h
    <3>1. End(h) /\ channel' = channel
      BY <2>1, <2>2 DEF Deliver
    <3> QED BY <2>1, <3>1, EndTell
  <2>3. CASE page.link = h
    <3>1. channel' = Append(channel, m) /\ queue' = queue /\ handler' = handler
      BY <1>1, <2>1, <2>3 DEF Deliver
    <3>2. m \in Message
      <4>1. handler[h] \in HandlerState
        BY <1>1
      <4> QED BY <4>1 DEF Heartbeat, HeartbeatMessage, Message, HandlerState
    <3>3. m.type = "heartbeat" /\ m.event = handler[h].cursor
      BY DEF Heartbeat
    <3> HIDE DEF m
    <3>4. ~Ahead(page.last, channel, m.event, Len(channel) + 1)
      BY <2>3, <3>3 DEF Rest, LinkInv, Linked
    <3>5. Tells(DOMAIN events, page.last, Append(channel, m), Len(channel) + 1)
      <4>1. channel \in Seq(Message)
        BY DEF Types
      <4> QED BY <3>2, <3>3, <3>4, <4>1, HeartbeatTells
    <3>6. Fed(DOMAIN events, deployment, Pending, handler'[h], queue'[h])
      BY <3>1 DEF TellRest, AllFed
    <3> QED BY <2>1, <3>1, <3>2, <3>5, <3>6, SentTell
  <2> QED BY <2>2, <2>3
<1>6. CASE Refuse(h)
  <2>1. /\ End(h) /\ UNCHANGED <<deployment, events, committed, channel>>
        /\ page' = page \/ page' = Unlinked(page)
    BY <1>6 DEF Refuse, market
  <2>2. page \in PageState
    BY DEF Types
  <2>3. page'.last = page.last /\ page'.outcomes = page.outcomes /\ page'.since = page.since
    BY <2>1, <2>2 DEF Unlinked, PageState
  <2>4. /\ handler'[h].stage # "waiting"
        /\ \A g \in Handler \ {h} : handler'[g] = handler[g] /\ queue'[g] = queue[g]
    BY <1>1, <2>1 DEF End, Idle
  <2>5. Pending' = Pending
    BY <2>1 DEF Pending
  <2>6. AllFed'
    BY <2>1, <2>4, <2>5 DEF TellRest, AllFed, Fed
  <2> QED BY <2>1, <2>3, <2>6 DEF TellRest, OnePlace, AllTell, Told
<1> QED BY <1>2, <1>3, <1>4, <1>5, <1>6 DEF Serve

LEMMA ReceiveTell ==
  ASSUME StreamAssumption, Types, Rest, TellRest, Receive
  PROVE  TellRest'
<1> DEFINE m == Head(channel)
           D == DOMAIN events
<1>0. /\ UNCHANGED <<deployment, events, committed, queue, handler>>
      /\ channel \in Seq(Message) /\ page \in PageState /\ D \subseteq Int
  <2>1. D \subseteq Int
    BY StreamAssumption DEF Types, MarketTypes, StreamAssumption
  <2> QED BY <2>1 DEF Receive, market, Types
<1>1. /\ channel # <<>> /\ channel' = Tail(channel) /\ m \in Message
      /\ page'.last = Larger(page.last, m.event) /\ Learned(page, page', m)
  BY ReceiveMoves DEF Moved
<1>2. page.last \in Int /\ page.since \in Int
  BY <1>0 DEF PageState
<1>3. ChannelTells(D, page.last, channel) /\ Told(D, page)
  BY DEF TellRest, AllTell
<1>4. Tells(D, page.last, channel, 1) /\ channel[1] = m
  <2>1. 1 \in 1..Len(channel) /\ channel[1] = m
    BY <1>0, <1>1, EmptySeq
  <2> QED BY <1>3, <2>1 DEF ChannelTells
<1>5. AllTell'
  <2>1. ChannelTells(D, Larger(page.last, m.event), Tail(channel))
    BY <1>0, <1>1, <1>2, <1>3, TailTells
  <2> QED BY <1>0, <1>1, <2>1 DEF AllTell
<1>6. OnePlace' /\ AllFed'
  <2>1. Pending' = Pending
    BY <1>0 DEF Pending
  <2> QED BY <1>0, <2>1 DEF TellRest, OnePlace, AllFed
<1> HIDE DEF m
<1>7. m.event \in Int
  BY <1>1, MessageEvent
<1>8. ASSUME NEW e \in D, e > page.last PROVE Ahead(page.last, channel, e, 1)
  <2>1. \A j \in 1..(1 - 1) : FALSE
    OBVIOUS
  <2> QED BY <1>8, <2>1 DEF Ahead
<1>9. ASSUME NEW e \in D, e > page'.since, e <= page'.last PROVE e \in page'.outcomes
  <2>0. e \in Int /\ (e <= page.last \/ (e > page.last /\ e <= m.event))
    BY <1>0, <1>1, <1>2, <1>7, <1>9 DEF Larger
  <2>1. CASE m.type = "heartbeat"
    <3>1. page'.outcomes = page.outcomes /\ page'.since = page.since
      BY <1>1, <2>1 DEF Learned
    <3>2. e <= page.last
      <4>1. ~Ahead(page.last, channel, m.event, 1)
        BY <1>4, <2>1 DEF Tells
      <4>2. m.event <= page.last
        <5>1. \A j \in 1..(1 - 1) : FALSE
          OBVIOUS
        <5> QED BY <1>2, <1>7, <4>1, <5>1 DEF Ahead
      <4> QED BY <1>2, <1>7, <2>0, <4>2
    <3> QED BY <1>3, <1>9, <3>1, <3>2 DEF Told
  <2>2. CASE m.type = "market_update"
    <3>1. /\ page'.since = page.since /\ page.outcomes \subseteq page'.outcomes
          /\ m.event > page.last => m.event \in page'.outcomes
      BY <1>1, <2>2 DEF Learned
    <3>2. CASE e <= page.last
      BY <1>3, <1>9, <3>1, <3>2 DEF Told
    <3>3. CASE e > page.last /\ e <= m.event
      <4>1. e >= m.event
        BY <1>4, <1>8, <2>2, <3>3 DEF Tells
      <4>2. e = m.event
        BY <1>7, <2>0, <3>3, <4>1
      <4> QED BY <3>1, <3>3, <4>2
    <3> QED BY <2>0, <3>2, <3>3
  <2>3. CASE m.type = "snapshot"
    <3>1. /\ page'.outcomes = page.outcomes \cup {f \in m.recovered : f > page.last}
          /\ page'.since = IF m.initial THEN m.event
                           ELSE IF m.truncated THEN Larger(page.since, Min(m.recovered) - 1)
                           ELSE page.since
      BY <1>1, <2>3 DEF Learned
    <3>2. CASE m.initial
      <4>1. page.last = 0 /\ page'.since = m.event
        BY <1>4, <2>3, <3>1, <3>2 DEF Tells
      <4>2. m.event \in Nat
        BY <1>1, <2>3 DEF Message, SnapshotMessage, UpdateMessage, HeartbeatMessage
      <4> QED BY <1>9, <2>0, <4>1, <4>2
    <3>3. CASE ~m.initial
      <4>1. page'.since \in Int /\ page'.since >= page.since
            /\ (m.truncated => page'.since >= Min(m.recovered) - 1 /\ Min(m.recovered) \in Int)
        <5>1. m.truncated => Min(m.recovered) \in Int
          <6>1. m.recovered \in SUBSET (1..MaxEvent) /\ (m.truncated => m.recovered # {})
            BY <1>1, <2>3 DEF Message, SnapshotMessage, UpdateMessage, HeartbeatMessage
          <6>2. m.recovered \in SUBSET Nat
            BY <6>1, StreamAssumption DEF StreamAssumption
          <6> QED BY <6>1, <6>2, MinOfNumbers
        <5>2. CASE m.truncated
          <6>1. page'.since = Larger(page.since, Min(m.recovered) - 1)
            BY <3>1, <3>3, <5>2
          <6> QED BY <1>2, <5>1, <5>2, <6>1 DEF Larger
        <5>3. CASE ~m.truncated
          <6>1. page'.since = page.since
            BY <3>1, <3>3, <5>3
          <6> QED BY <1>2, <5>3, <6>1
        <5> QED BY <5>2, <5>3
      <4>2. CASE e <= page.last
        <5>1. e > page.since
          BY <1>2, <1>9, <2>0, <4>1
        <5>2. e \in page.outcomes
          BY <1>3, <4>2, <5>1 DEF Told
        <5> QED BY <3>1, <5>2
      <4>3. CASE e > page.last /\ e <= m.event
        <5>1. e \in m.recovered \/ (m.truncated /\ e < Min(m.recovered))
          BY <1>4, <1>8, <2>3, <3>3, <4>3 DEF Tells
        <5>2. ~(m.truncated /\ e < Min(m.recovered))
          BY <1>9, <2>0, <4>1
        <5> QED BY <3>1, <4>3, <5>1, <5>2
      <4> QED BY <2>0, <4>2, <4>3
    <3> QED BY <3>2, <3>3
  <2> QED BY <1>1, <2>1, <2>2, <2>3, MessageEvent
<1>10. Told(DOMAIN events', page')
  BY <1>0, <1>9 DEF Told
<1> QED BY <1>5, <1>6, <1>10 DEF TellRest

LEMMA PageTell ==
  ASSUME StreamAssumption, Types, Rest, TellRest,
         \/ AnswerBook \/ Break \/ Reopen \/ Restart \/ \E h \in Handler : Connect(h)
  PROVE  TellRest'
<1>0. /\ UNCHANGED <<events, deployment>> /\ page \in PageState
      /\ handler \in [Handler -> HandlerState]
  BY DEF AnswerBook, Break, Reopen, Restart, Connect, market, Types
<1>1. CASE AnswerBook
  <2>1. PICK q \in answers : page' = WithBook(page, q)
    BY <1>1 DEF AnswerBook
  <2>2. UNCHANGED <<committed, queue, handler, channel>>
    BY <1>1 DEF AnswerBook
  <2>3. q \in Nat /\ BookSound(page)
    BY DEF Types, Rest, PageInv
  <2>4. SameUser(page', page) /\ page'.last = page.last
    BY <1>0, <2>1, <2>3, AnswerSound
  <2>5. Pending' = Pending
    BY <2>2 DEF Pending
  <2> QED BY <1>0, <2>2, <2>4, <2>5
          DEF TellRest, OnePlace, AllTell, AllFed, Told, SameUser
<1>2. CASE Break
  <2>1. page' = Unlinked(page) /\ channel' = <<>> /\ UNCHANGED <<committed, queue, handler>>
    BY <1>2 DEF Break
  <2>2. page'.last = page.last /\ page'.outcomes = page.outcomes /\ page'.since = page.since
    BY <1>0, <2>1 DEF Unlinked, PageState
  <2>3. AllTell' /\ Pending' = Pending
    BY <2>1, EmptyTells DEF AllTell, Pending
  <2> QED BY <1>0, <2>1, <2>2, <2>3 DEF TellRest, OnePlace, AllFed, Told
<1>3. CASE Reopen
  <2>1. page' = NewPage /\ channel' = <<>> /\ UNCHANGED <<committed, queue, handler>>
    BY <1>3 DEF Reopen
  <2>2. AllTell' /\ Pending' = Pending
    BY <2>1, EmptyTells DEF AllTell, Pending
  <2>3. Told(DOMAIN events', page')
    <3>1. page'.last = 0 /\ \A e \in DOMAIN events' : e \in 1..MaxEvent
      BY <1>0, <2>1 DEF NewPage, Types, MarketTypes
    <3>2. \A e \in DOMAIN events' : ~(e <= page'.last)
      BY <3>1, StreamAssumption DEF StreamAssumption
    <3> QED BY <3>2 DEF Told
  <2> QED BY <1>0, <2>1, <2>2, <2>3 DEF TellRest, OnePlace, AllFed
<1>4. CASE Restart
  <2>1. /\ committed' = <<>> /\ channel' = <<>>
        /\ \A h \in Handler : handler'[h].stage # "waiting"
        /\ page' = page \/ page' = Unlinked(page)
    BY <1>4 DEF Restart, Idle
  <2>2. page'.last = page.last /\ page'.outcomes = page.outcomes /\ page'.since = page.since
    BY <1>0, <2>1 DEF Unlinked, PageState
  <2>3. AllTell' /\ AllFed'
    BY <2>1, EmptyTells DEF AllTell, AllFed, Fed
  <2>4. OnePlace'
    BY <1>0, <2>1 DEF TellRest, OnePlace
  <2> QED BY <1>0, <2>2, <2>3, <2>4 DEF TellRest, Told
<1>5. CASE \E h \in Handler : Connect(h)
  <2>1. PICK h \in Handler : Connect(h)
    BY <1>5
  <2>2. /\ page' = [page EXCEPT !.link = h]
        /\ UNCHANGED <<committed, queue, channel>>
        /\ handler'[h].stage = "accepted"
        /\ \A g \in Handler \ {h} : handler'[g] = handler[g]
    BY <1>0, <2>1 DEF Connect, Idle
  <2>3. page'.last = page.last /\ page'.outcomes = page.outcomes /\ page'.since = page.since
    BY <1>0, <2>2 DEF PageState
  <2>4. Pending' = Pending
    BY <2>2 DEF Pending
  <2>5. AllFed'
    BY <1>0, <2>2, <2>4 DEF TellRest, AllFed, Fed
  <2> QED BY <1>0, <2>2, <2>3, <2>5 DEF TellRest, OnePlace, AllTell, Told
<1> QED BY <1>1, <1>2, <1>3, <1>4, <1>5

LEMMA InitTell ==
  ASSUME StreamAssumption, Init, "mixed" \notin Deployment
  PROVE  TellRest
<1>1. /\ DOMAIN events = {} /\ committed = <<>> /\ channel = <<>> /\ deployment # "mixed"
      /\ \A h \in Handler : handler[h].stage # "waiting"
  BY DEF Init, Log!Init, Log!NoEvents, Idle
<1>2. AllTell
  BY <1>1, EmptyTells DEF AllTell
<1> QED BY <1>1, <1>2 DEF TellRest, OnePlace, AllFed, Fed, Told

LEMMA StepTell ==
  ASSUME StreamAssumption, StreamInv, TellRest, "unheard" \notin Disturbance, [Next]_svars
  PROVE  TellRest'
<1>0. Types /\ Rest
  BY DEF StreamInv
<1>1. CASE \/ CommitByWorker \/ CommitEmbedded \/ CommitUnheard \/ Reset
  BY <1>0, <1>1, MarketTell
<1>2. CASE \/ PublishUpdate \/ RelayPublish \/ RelayConnect \/ RelayDisconnect \/ AskBook
  BY <1>0, <1>2, PublicationTell
<1>3. CASE \E h \in Handler : Serve(h)
  BY <1>0, <1>3, ServeTell
<1>4. CASE Receive
  BY <1>0, <1>4, ReceiveTell
<1>5. CASE \/ AnswerBook \/ Break \/ Reopen \/ Restart \/ \E h \in Handler : Connect(h)
  BY <1>0, <1>5, PageTell
<1>6. CASE UNCHANGED svars
  BY <1>6, QuietTell DEF svars, market
<1> QED BY <1>1, <1>2, <1>3, <1>4, <1>5, <1>6 DEF Next

(* A page has been told every outcome up to the event it resumes after, but     *)
(* those before it was opened and those it was told are beyond the replay        *)
(* (recover_market_events, build_stream_snapshot, OnSnapshot): a missed          *)
(* notification, a full queue, a broken link, a restart or a reset loses none.   *)
(* It needs what the run stream_lost shows to be necessary: the processors of a  *)
(* market run in one place, and the embedded one publishes what it has committed *)
(* before it commits again.                                                  *)
THEOREM StreamOutcomesTold ==
  ASSUME "unheard" \notin Disturbance, "mixed" \notin Deployment
  PROVE  Spec => []OutcomesTold
<1>1. Init => TellRest
  BY StreamAssumption, InitTell
<1>2. StreamInv /\ TellRest /\ [Next]_svars => TellRest'
  BY StreamAssumption, StepTell
<1>3. TellRest => OutcomesTold
  BY DEF TellRest, Told, OutcomesTold
<1> QED BY <1>1, <1>2, <1>3, StreamInvariant, PTL DEF Spec
=============================================================================
