--------------------------- MODULE MatchingEngine ---------------------------
(***************************************************************************)
(* The in-memory price-time-priority engine, engine/matching.py.            *)
(*                                                                         *)
(* The engine is synchronous, so callers see only the states between two   *)
(* calls.  The loops of submit and restore are nevertheless modelled one    *)
(* iteration per step: the intermediate states are where an error would be  *)
(* made, and OrderBook.tla says what a whole call amounts to.               *)
(***************************************************************************)
EXTENDS LimitOrder, Sequences, FiniteSetsExt, SequencesExt

CONSTANTS
    OrderId,      \* identifiers the callers may use (uuid4 in production)
    Price,        \* limit prices, in ticks
    Quantity,     \* order quantities
    MaxSequence,  \* bound on the durable order sequence given by the callers
    NoOrder       \* the value of current between two submits

Sequence == 1..MaxSequence

Order == [side : Side, price : Price, quantity : Quantity,
          sequence : Sequence, remaining : Nat, status : Status]

Trade == [sequence : Nat \ {0}, maker : OrderId, taker : OrderId,
          price : Price, quantity : Nat \ {0}, makerSide : Side]

(* The locals of submit: the order as matched so far, and its trades.       *)
Submission == [id : OrderId, order : Order, fills : Seq(Trade)]

ASSUME EngineAssumption ==
    /\ Price \subseteq Nat \ {0}
    /\ Quantity \subseteq Nat \ {0}
    /\ MaxSequence \in Nat
    /\ NoOrder \notin Submission

VARIABLES
    orders,        \* _orders
    levels,        \* _bids and _asks: for each side, price |-> FIFO of ids
    resting,       \* _resting_ids
    used,          \* _used_order_sequences
    lastSequence,  \* _last_order_sequence
    nextTrade,     \* _next_trade_sequence
    tape,          \* _trades, after the trades of the engines restored before
    current,       \* the submission being matched, or NoOrder
    pool,          \* restore's orders that are not yet in the book
    restoring,     \* restore has not returned
    issued,        \* every id ever submitted (uuid4 gives none twice)
    outcome        \* what the last finished call returned or raised

engineVars == <<orders, levels, resting, used, lastSequence, nextTrade, tape,
                current, pool, restoring, issued, outcome>>

-----------------------------------------------------------------------------
(* A dict, and one with an entry set.                                       *)
EmptyMap == [k \in {} |-> NoOrder]
Put(f, k, v) == [x \in DOMAIN f \cup {k} |-> IF x = k THEN v ELSE f[x]]

ActiveIds == {id \in DOMAIN orders : orders[id].status \in Active}

-----------------------------------------------------------------------------
(* The price levels *)

EmptyBook == [side \in Side |-> EmptyMap]

(* Mutant of WithEntry: an order rests before those of its price level.     *)
WithEntryAtFront(id, order) ==
    LET book == levels[order.side]
        fifo == IF order.price \in DOMAIN book THEN book[order.price] ELSE <<>>
    IN  [levels EXCEPT ![order.side] =
            Put(book, order.price, <<id>> \o fifo)]

(* levels with order id appended to its price level (_rest).                *)
WithEntry(id, order) ==
    LET book == levels[order.side]
        fifo == IF order.price \in DOMAIN book THEN book[order.price] ELSE <<>>
    IN  [levels EXCEPT ![order.side] = Put(book, order.price, Append(fifo, id))]

(* levels with the FIFO of a price replaced, or deleted when it is empty.   *)
WithLevel(side, price, fifo) ==
    LET book == levels[side]
    IN  [levels EXCEPT ![side] = IF fifo = <<>>
                                 THEN Restrict(book, DOMAIN book \ {price})
                                 ELSE Put(book, price, fifo)]

AtLeastAsGood(side, p, q) == IF side = "sell" THEN p <= q ELSE p >= q

(* Mutant of BestCrossing: any level the taker reaches.                      *)
AnyCrossing(order) ==
    {p \in DOMAIN levels[Opposite(order.side)] : Crosses(order.side, order.price, p)}

(* The price _best_crossing_order looks at: none, or the best of the other  *)
(* side when the taker's limit reaches it.                                  *)
BestCrossing(order) ==
    LET side == Opposite(order.side)
    IN  {p \in DOMAIN levels[side] :
            /\ \A q \in DOMAIN levels[side] : AtLeastAsGood(side, p, q)
            /\ Crosses(order.side, order.price, p)}

-----------------------------------------------------------------------------
(* assert_invariants *)

SequencesUnique ==
    \A a, b \in DOMAIN orders :
        orders[a].sequence = orders[b].sequence => a = b

ActiveHasQuantity ==
    \A id \in ActiveIds : orders[id].remaining > 0

(* _check_book *)
BookOK(side) ==
    \A p \in DOMAIN levels[side] :
        LET fifo == levels[side][p] IN
        /\ fifo # <<>>
        /\ \A i \in DOMAIN fifo :
              /\ fifo[i] \in ActiveIds
              /\ orders[fifo[i]].side = side
              /\ orders[fifo[i]].price = p
        /\ \A i, j \in DOMAIN fifo :
              i < j => orders[fifo[i]].sequence <= orders[fifo[j]].sequence

Entries ==
    UNION {UNION {{side} \X {p} \X DOMAIN levels[side][p] : p \in DOMAIN levels[side]} :
              side \in Side}
IdAt(e) == levels[e[1]][e[2]][e[3]]

RestsExactlyOnce ==
    /\ \A d, e \in Entries : IdAt(d) = IdAt(e) => d = e
    /\ {IdAt(e) : e \in Entries} = resting
    /\ resting = ActiveIds

NotCrossed ==
    \A bid \in DOMAIN levels["buy"], ask \in DOMAIN levels["sell"] : bid < ask

TapeIncreasing ==
    \A i, j \in DOMAIN tape : i < j => tape[i].sequence < tape[j].sequence

AssertInvariants ==
    /\ SequencesUnique
    /\ ActiveHasQuantity
    /\ BookOK("buy") /\ BookOK("sell")
    /\ RestsExactlyOnce
    /\ NotCrossed
    /\ TapeIncreasing

Checked(result) == IF AssertInvariants' THEN result ELSE "BookInvariantError"

-----------------------------------------------------------------------------
Init ==
    /\ orders = EmptyMap
    /\ levels = EmptyBook
    /\ resting = {}
    /\ used = {}
    /\ lastSequence = 0
    /\ nextTrade = 1
    /\ tape = <<>>
    /\ current = NoOrder
    /\ pool = EmptyMap
    /\ restoring = FALSE
    /\ issued = {}
    /\ outcome = "none"

Ready == current = NoOrder /\ ~restoring

(* The checks of submit, in the order of the code.  Every caller builds a   *)
(* fresh order, so the check for one does not appear.                       *)
SubmitError(id, sequence) ==
    CASE id \in DOMAIN orders     -> "DuplicateOrderError"
      [] id \notin DOMAIN orders /\ sequence \in used -> "DuplicateSequenceError"
      [] id \notin DOMAIN orders /\ sequence \notin used
            /\ sequence <= lastSequence -> "OutOfSequenceError"
      [] OTHER -> "none"

RefuseSubmit(id, sequence) ==
    /\ Ready
    /\ SubmitError(id, sequence) # "none"
    /\ outcome' = SubmitError(id, sequence)
    /\ UNCHANGED <<orders, levels, resting, used, lastSequence, nextTrade,
                   tape, current, pool, restoring, issued>>

(* submit, up to its loop.                                                  *)
BeginSubmit(id, side, price, quantity, sequence) ==
    /\ Ready
    /\ id \notin issued
    /\ SubmitError(id, sequence) = "none"
    /\ current' = [id |-> id,
                   order |-> NewOrder(side, price, quantity, sequence),
                   fills |-> <<>>]
    /\ issued' = issued \cup {id}
    /\ outcome' = "none"
    /\ UNCHANGED <<orders, levels, resting, used, lastSequence, nextTrade,
                   tape, pool, restoring>>

FillQuantity(taker, maker) == Min({taker.remaining, maker.remaining})

(* One iteration of submit's loop against the head of the level at price p. *)
FillAt(p) ==
    LET taker  == current.order
        side   == Opposite(taker.side)
        fifo   == levels[side][p]
        maker  == orders[Head(fifo)]
        n      == FillQuantity(taker, maker)
        filled == ApplyFill(maker, n)
        trade  == [sequence |-> nextTrade, maker |-> Head(fifo),
                   taker |-> current.id, price |-> maker.price,
                   quantity |-> n, makerSide |-> maker.side]
    IN  /\ orders' = [orders EXCEPT ![Head(fifo)] = filled]
        /\ IF filled.status = "filled"
           THEN /\ levels' = WithLevel(side, p, Tail(fifo))
                /\ resting' = resting \ {Head(fifo)}
           ELSE UNCHANGED <<levels, resting>>
        /\ current' = [current EXCEPT !.order = ApplyFill(taker, n),
                                      !.fills = Append(@, trade)]
        /\ tape' = Append(tape, trade)
        /\ nextTrade' = nextTrade + 1
        /\ UNCHANGED <<used, lastSequence, pool, restoring, issued, outcome>>

Fill ==
    /\ current # NoOrder
    /\ current.order.remaining > 0
    /\ \E p \in BestCrossing(current.order) : FillAt(p)

(* Mutant of LoopDone: the loop goes on while there is a maker.             *)
NoMakerLeft == BestCrossing(current.order) = {}

LoopDone == current.order.remaining = 0 \/ BestCrossing(current.order) = {}

(* What follows the loop of submit.                                         *)
FinishSubmit ==
    /\ current # NoOrder
    /\ LoopDone
    /\ orders' = Put(orders, current.id, current.order)
    /\ used' = used \cup {current.order.sequence}
    /\ lastSequence' = current.order.sequence
    /\ IF current.order.status \in Active
       THEN /\ levels' = WithEntry(current.id, current.order)
            /\ resting' = resting \cup {current.id}
       ELSE UNCHANGED <<levels, resting>>
    /\ current' = NoOrder
    /\ UNCHANGED <<nextTrade, tape, pool, restoring, issued>>
    /\ outcome' = Checked("accepted")

(* The next sequence, which place_limit_order gives an order without one.    *)
PlaceLimitOrder(id, side, price, quantity) ==
    BeginSubmit(id, side, price, quantity, lastSequence + 1)

RefuseCancel(id) ==
    /\ Ready
    /\ id \notin ActiveIds
    /\ outcome' = IF id \in DOMAIN orders THEN "OrderNotCancellableError"
                                          ELSE "UnknownOrderError"
    /\ UNCHANGED <<orders, levels, resting, used, lastSequence, nextTrade,
                   tape, current, pool, restoring, issued>>

(* The engine looks the id up in its level and would raise                   *)
(* BookInvariantError without it, as _rest and _remove_best would for an id   *)
(* in the wrong place; RestsExactlyOnce, checked at the end of the call       *)
(* before, leaves no such id.                                               *)
Cancel(id) ==
    /\ Ready
    /\ id \in ActiveIds
    /\ LET order == orders[id]
           fifo  == levels[order.side][order.price]
       IN  \E i \in DOMAIN fifo :
              /\ fifo[i] = id
              /\ levels' = WithLevel(order.side, order.price, RemoveAt(fifo, i))
    /\ resting' = resting \ {id}
    /\ orders' = [orders EXCEPT ![id] = Cancelled(@)]
    /\ UNCHANGED <<used, lastSequence, nextTrade, tape, current, pool,
                   restoring, issued>>
    /\ outcome' = Checked("cancelled")

(* The number after the last one of the persisted trades, as                *)
(* _restore_engine computes it.                                              *)
NextTradeAfter(trades) ==
    1 + Max({0} \cup {trades[i].sequence : i \in DOMAIN trades})

(* A new engine takes over from the persisted rows: the active orders, and  *)
(* the number of the last trade.                                            *)
BeginRestore ==
    /\ Ready
    /\ pool' = Restrict(orders, ActiveIds)
    /\ restoring' = TRUE
    /\ orders' = EmptyMap
    /\ levels' = EmptyBook
    /\ resting' = {}
    /\ used' = {}
    /\ lastSequence' = 0
    /\ nextTrade' = NextTradeAfter(tape)
    /\ outcome' = "none"
    /\ UNCHANGED <<tape, current, issued>>

(* Mutant of RestoreOne: the orders are taken as the caller lists them.     *)
RestoreUnsorted(id) ==
    /\ restoring
    /\ id \in DOMAIN pool
    /\ orders' = Put(orders, id, pool[id])
    /\ used' = used \cup {pool[id].sequence}
    /\ lastSequence' = Max({lastSequence, pool[id].sequence})
    /\ levels' = WithEntry(id, pool[id])
    /\ resting' = resting \cup {id}
    /\ pool' = Restrict(pool, DOMAIN pool \ {id})
    /\ UNCHANGED <<nextTrade, tape, current, restoring, issued, outcome>>

(* One iteration of restore's loop over the orders sorted by sequence.      *)
RestoreOne(id) ==
    /\ restoring
    /\ id \in DOMAIN pool
    /\ \A other \in DOMAIN pool : pool[id].sequence <= pool[other].sequence
    /\ orders' = Put(orders, id, pool[id])
    /\ used' = used \cup {pool[id].sequence}
    /\ lastSequence' = Max({lastSequence, pool[id].sequence})
    /\ levels' = WithEntry(id, pool[id])
    /\ resting' = resting \cup {id}
    /\ pool' = Restrict(pool, DOMAIN pool \ {id})
    /\ UNCHANGED <<nextTrade, tape, current, restoring, issued, outcome>>

FinishRestore ==
    /\ restoring
    /\ DOMAIN pool = {}
    /\ restoring' = FALSE
    /\ UNCHANGED <<orders, levels, resting, used, lastSequence, nextTrade,
                   tape, current, pool, issued>>
    /\ outcome' = Checked("restored")

(* Orders numbered by the caller, as the command processor does.            *)
Submit ==
    \E id \in OrderId, side \in Side, price \in Price, quantity \in Quantity,
       sequence \in Sequence : BeginSubmit(id, side, price, quantity, sequence)

(* Orders numbered by the engine.                                           *)
Place ==
    /\ lastSequence < MaxSequence
    /\ \E id \in OrderId, side \in Side, price \in Price, quantity \in Quantity :
          PlaceLimitOrder(id, side, price, quantity)

Step ==
    \/ Fill
    \/ FinishSubmit
    \/ \E id \in OrderId : RefuseCancel(id) \/ Cancel(id) \/ RestoreOne(id)
    \/ BeginRestore
    \/ FinishRestore

Next ==
    \/ Submit \/ Place
    \/ \E id \in OrderId, sequence \in Sequence : RefuseSubmit(id, sequence)
    \/ Step

Spec == Init /\ [][Next]_engineVars

(* A call runs to its end: the engine is ordinary sequential code.          *)
FairSpec ==
    /\ Spec
    /\ WF_engineVars(Fill \/ FinishSubmit)
    /\ WF_engineVars(FinishRestore \/ \E id \in OrderId : RestoreOne(id))

-----------------------------------------------------------------------------
(* Properties *)

IsDict(f, Key, Value) == DOMAIN f \subseteq Key /\ f \in [DOMAIN f -> Value]
Outcome == {"none", "accepted", "cancelled", "restored", "DuplicateOrderError",
            "DuplicateSequenceError", "OutOfSequenceError", "UnknownOrderError",
            "OrderNotCancellableError", "BookInvariantError"}

(* The types of the engine's fields and of the locals of its two loops.     *)
TypeOK ==
    /\ IsDict(orders, OrderId, Order)
    /\ levels = [side \in Side |-> levels[side]]
    /\ \A side \in Side : IsDict(levels[side], Price, Seq(OrderId))
    /\ resting \subseteq OrderId
    /\ used \subseteq Sequence
    /\ lastSequence \in Nat
    /\ nextTrade \in Nat \ {0}
    /\ tape \in Seq(Trade)
    /\ current \in Submission \cup {NoOrder}
    /\ IsDict(pool, OrderId, Order)
    /\ restoring \in BOOLEAN
    /\ issued \subseteq OrderId
    /\ outcome \in Outcome

(* No sequence of legal calls, cancels in the middle of a level and restores *)
(* from the active orders among them, trips the engine's own                 *)
(* assert_invariants.                                                        *)
NeverBookInvariantError == outcome # "BookInvariantError"

(* The fields have their types; every order that has traded, been cancelled  *)
(* or come back from a restore is in a state its constructor accepts, and    *)
(* what it has traded on the tape is exactly the quantity it no longer has.   *)
TradedOnTape(id) ==
    LET its == {i \in DOMAIN tape : id \in {tape[i].maker, tape[i].taker}}
    IN  SumFunctionOnSet([i \in DOMAIN tape |-> tape[i].quantity], its)

QuantityConserved ==
    LET Whole(id, o) == ValidState(o) /\ o.quantity = o.remaining + TradedOnTape(id)
    IN  /\ TypeOK
        /\ \A id \in DOMAIN orders : Whole(id, orders[id])
        /\ \A id \in DOMAIN pool : Whole(id, pool[id])
        /\ current # NoOrder => Whole(current.id, current.order)

(* Each trade takes the active order of the other side that has the best     *)
(* price and, at that price, the lowest sequence; it is made at that order's *)
(* price, within the taker's limit.  This is over orders, not over the       *)
(* levels the engine reads the maker from.                                   *)
Outranks(o, maker) ==
    /\ o.side = maker.side
    /\ \/ o.price # maker.price /\ AtLeastAsGood(maker.side, o.price, maker.price)
       \/ o.price = maker.price /\ o.sequence < maker.sequence

PriceTimePriority ==
    [][Len(tape') > Len(tape) =>
         LET trade == tape'[Len(tape')]
             maker == orders[trade.maker]
         IN  /\ maker.status \in Active
             /\ maker.side = Opposite(current.order.side)
             /\ trade.price = maker.price
             /\ Crosses(current.order.side, current.order.price, trade.price)
             /\ ~\E id \in ActiveIds : Outranks(orders[id], maker)
      ]_engineVars

(* Every submit and every restore returns.                                  *)
CallsReturn == (current # NoOrder \/ restoring) ~> Ready

(* snapshot reads the levels; the REST book (market_data.build_book) sums    *)
(* the active orders per side and price.  Between two calls they agree.      *)
EngineSnapshot(side) ==
    [p \in DOMAIN levels[side] |->
        LET fifo == levels[side][p]
        IN  [quantity |-> SumFunctionOnSet([i \in DOMAIN fifo |-> orders[fifo[i]].remaining],
                                           DOMAIN fifo),
             count |-> Len(fifo)]]

QueriedBook(side) ==
    LET At(p) == {id \in ActiveIds : orders[id].side = side /\ orders[id].price = p}
    IN  [p \in {q \in Price : At(q) # {}} |->
            [quantity |-> SumFunctionOnSet([id \in At(p) |-> orders[id].remaining], At(p)),
             count |-> Cardinality(At(p))]]

SnapshotAgreesWithQuery ==
    Ready => \A side \in Side : EngineSnapshot(side) = QueriedBook(side)
=============================================================================
