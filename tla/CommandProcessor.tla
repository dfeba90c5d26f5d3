-------------------------- MODULE CommandProcessor --------------------------
(***************************************************************************)
(* The ordered command processors, processor.py, over the tables they share: *)
(* market_commands (as Journal promises it), orders, trades, market_events.  *)
(*                                                                         *)
(* Any number of processors may run (a worker and its replacement, or the    *)
(* processor embedded in each API process).  process_once is one transaction  *)
(* under an advisory lock that is tried, never waited for; its writes become  *)
(* visible at its commit.  A processor may lose its database at any step, or  *)
(* die and be started again; the commit may succeed without the processor     *)
(* being told.                                                              *)
(*                                                                         *)
(* Matching itself is PriceTimeMatching, what MatchingEngine is shown to      *)
(* implement.  The id of an order is the sequence of its command: the API     *)
(* draws a uuid for each row it inserts.                                    *)
(***************************************************************************)
EXTENDS PriceTimeMatching

CONSTANTS
    Processor,    \* processor instances
    NoProcessor,  \* the holder of a free processor lock
    Symbol,       \* markets
    Key,          \* idempotency keys
    Request,      \* [kind, symbol, side, price, quantity] or [kind, symbol, target]
    MaxSequence,  \* bound on the sequences of market_commands
    MaxFaults     \* bound on lost connections, lost commits and crashes

ASSUME ProcessorAssumption ==
    /\ NoProcessor \notin Processor
    /\ MaxSequence \in Nat /\ MaxFaults \in Nat

(* What the API's schemas let through: SubmitOrderRequest, QueueCancelRequest.   *)
ASSUME RequestAssumption ==
    \A r \in Request :
        /\ r.symbol \in Symbol
        /\ r.kind = "submit" =>
              r.side \in Side /\ r.price \in Nat \ {0} /\ r.quantity \in Nat \ {0}

VARIABLES
    commands,   \* market_commands: sequence |-> [key, request, status]
    last,       \* the highest sequence shown or given up
    orders,     \* orders: id |-> the order with its symbol
    trades,     \* trades: a set of rows
    events,     \* market_events: event_id |-> [command, symbol, type, error]
    nextEvent,  \* the identity of market_events; never rolled back
    lock,       \* the holder of the processor advisory lock
    phase,      \* where each processor is in its loop
    claim,      \* the command each processor has claimed, or 0
    pending,    \* the uncommitted writes of each processor
    published,  \* the last event each embedded processor has broadcast
    faults      \* faults so far

pvars == <<commands, last, orders, trades, events, nextEvent, lock, phase,
           claim, pending, published, faults>>

J == INSTANCE Journal

Phase == {"idle", "locked", "claimed", "applied", "committed", "backoff", "down"}
InTransaction == {"locked", "claimed", "applied"}

NoRows == [id \in {} |-> 0]
NothingPending == [status |-> "queued", rows |-> NoRows, trades |-> {},
                   type |-> "none", error |-> "none", event |-> 0]

QueuedSequences == {q \in DOMAIN commands : commands[q].status = "queued"}
FinishedSequences == DOMAIN commands \ QueuedSequences

-----------------------------------------------------------------------------
(* What a command does to the tables *)

(* The rows _restore_engine loads for a symbol.                             *)
OpenRows(rows, symbol) ==
    Restrict(rows, {id \in DOMAIN rows : /\ rows[id].symbol = symbol
                                         /\ rows[id].status \in Active})

NextTrade(ts, symbol) ==
    1 + Max({0} \cup {t.sequence : t \in {u \in ts : u.symbol = symbol}})

OfSymbol(symbol, order) ==
    [symbol |-> symbol, side |-> order.side, price |-> order.price,
     quantity |-> order.quantity, sequence |-> order.sequence,
     remaining |-> order.remaining, status |-> order.status]

Changes(type, rows, newTrades) ==
    [status |-> "completed", type |-> type, error |-> "none",
     rows |-> rows, trades |-> newTrades]

Rejection(error) ==
    [status |-> "rejected", type |-> "command_rejected", error |-> error,
     rows |-> NoRows, trades |-> {}]

(* An engine error process_once does not catch.                             *)
Raised(error) ==
    [status |-> "queued", type |-> "none", error |-> error,
     rows |-> NoRows, trades |-> {}]

(* engine.submit on the restored engine.  The engine raises for a sequence   *)
(* that is not above those of the open orders, which process_once does not   *)
(* catch: the command stays queued.                                         *)
SubmitOutcome(rows, ts, q, r) ==
    LET open  == OpenRows(rows, r.symbol)
        fills == Allotments(open, r.side, r.price, r.quantity)
        new   == NewOrder(r.side, r.price, r.quantity, q)
        taker == IF DOMAIN fills = {} THEN new ELSE ApplyFill(new, Allotted(fills))
        made  == TradesOf(open, fills, q, NextTrade(ts, r.symbol))
    IN  IF \E id \in DOMAIN open : open[id].sequence >= q
        THEN Raised("OutOfSequenceError")
        ELSE Changes("order_accepted",
                     [id \in DOMAIN fills \cup {q} |->
                         IF id = q THEN OfSymbol(r.symbol, taker)
                                   ELSE ApplyFill(open[id], fills[id])],
                     {[symbol |-> r.symbol, command |-> q, sequence |-> made[i].sequence,
                       maker |-> made[i].maker, taker |-> q, price |-> made[i].price,
                       quantity |-> made[i].quantity] : i \in DOMAIN made})

(* Mutant of CancelOutcome: UnknownOrderError is not caught.                *)
CancelOutcomeUncaught(rows, r) ==
    LET open == OpenRows(rows, r.symbol)
    IN  IF r.target \in DOMAIN open
        THEN Changes("order_cancelled",
                     [id \in {r.target} |-> Cancelled(open[id])], {})
        ELSE Raised("UnknownOrderError")

(* engine.cancel on the restored engine, which knows the open orders of the  *)
(* symbol and no others.                                                    *)
CancelOutcome(rows, r) ==
    LET open == OpenRows(rows, r.symbol)
    IN  IF r.target \in DOMAIN open
        THEN Changes("order_cancelled",
                     [id \in {r.target} |-> Cancelled(open[id])], {})
        ELSE Rejection("UnknownOrderError")

OutcomeOf(rows, ts, q, r) ==
    IF r.kind = "submit" THEN SubmitOutcome(rows, ts, q, r)
                         ELSE CancelOutcome(rows, r)

(* _persist_order for each changed order.                                   *)
Persisted(rows, changed) ==
    [id \in DOMAIN rows \cup DOMAIN changed |->
        IF id \in DOMAIN changed THEN changed[id] ELSE rows[id]]

-----------------------------------------------------------------------------
Init ==
    /\ J!Init
    /\ orders = NoRows
    /\ trades = {}
    /\ events = NoRows
    /\ nextEvent = 1
    /\ lock = NoProcessor
    /\ phase = [p \in Processor |-> "idle"]
    /\ claim = [p \in Processor |-> 0]
    /\ pending = [p \in Processor |-> NothingPending]
    /\ published = [p \in Processor |-> 0]
    /\ faults = 0

At(p, from, to) == phase[p] = from /\ phase' = [phase EXCEPT ![p] = to]

(* The end of p's transaction.                                              *)
Release(p) ==
    /\ lock' = IF lock = p THEN NoProcessor ELSE lock
    /\ claim' = [claim EXCEPT ![p] = 0]

Rollback(p) == Release(p) /\ pending' = [pending EXCEPT ![p] = NothingPending]

(* Mutant of TryLock: the lock is not asked for.                            *)
TakeLock(p) ==
    /\ At(p, "idle", "locked")
    /\ lock' = p
    /\ UNCHANGED <<commands, last, orders, trades, events, nextEvent, claim,
                   pending, published, faults>>

(* _acquire_single_writer_lock; a processor that does not get it polls again. *)
TryLock(p) ==
    /\ At(p, "idle", "locked")
    /\ lock = NoProcessor
    /\ lock' = p
    /\ UNCHANGED <<commands, last, orders, trades, events, nextEvent, claim,
                   pending, published, faults>>

(* The lowest queued command that no other transaction has locked.          *)
Unlocked(p) == QueuedSequences \ {claim[o] : o \in Processor \ {p}}

FindNothing(p) ==
    /\ At(p, "locked", "idle")
    /\ Unlocked(p) = {}
    /\ Rollback(p)
    /\ UNCHANGED <<commands, last, orders, trades, events, nextEvent, published,
                   faults>>

Claim(p) ==
    /\ At(p, "locked", "claimed")
    /\ \E q \in Unlocked(p) :
          /\ \A r \in Unlocked(p) : q <= r
          /\ claim' = [claim EXCEPT ![p] = q]
    /\ UNCHANGED <<commands, last, orders, trades, events, nextEvent, lock,
                   pending, published, faults>>

(* _apply_command or _reject_command, up to the flush.  An engine error that *)
(* is not caught rolls back and backs off, like any other exception.        *)
Apply(p) ==
    /\ phase[p] = "claimed"
    /\ \E result \in {OutcomeOf(orders, trades, claim[p], commands[claim[p]].request)} :
           IF result.status = "queued"
           THEN /\ phase' = [phase EXCEPT ![p] = "backoff"]
                /\ Rollback(p)
                /\ UNCHANGED nextEvent
           ELSE /\ phase' = [phase EXCEPT ![p] = "applied"]
                /\ pending' = [pending EXCEPT ![p] =
                      [status |-> result.status, rows |-> result.rows,
                       trades |-> result.trades, type |-> result.type,
                       error |-> result.error, event |-> nextEvent]]
                /\ nextEvent' = nextEvent + 1
                /\ UNCHANGED <<lock, claim>>
    /\ UNCHANGED <<commands, last, orders, trades, events, published, faults>>

(* Mutant of Install: the command is not marked in the same transaction.     *)
InstallLeavingStatus(p) ==
    LET w == pending[p]
        q == claim[p]
    IN  /\ UNCHANGED <<commands, last>>
        /\ orders' = Persisted(orders, w.rows)
        /\ trades' = trades \cup w.trades
        /\ events' = [e \in DOMAIN events \cup {w.event} |->
                        IF e = w.event
                        THEN [command |-> q, symbol |-> commands[q].request.symbol,
                              type |-> w.type, error |-> w.error]
                        ELSE events[e]]
        /\ Release(p)

(* The writes of p's transaction become visible together.                   *)
Install(p) ==
    LET w == pending[p]
        q == claim[p]
    IN  /\ J!Finish(q, w.status)
        /\ orders' = Persisted(orders, w.rows)
        /\ trades' = trades \cup w.trades
        /\ events' = [e \in DOMAIN events \cup {w.event} |->
                        IF e = w.event
                        THEN [command |-> q, symbol |-> commands[q].request.symbol,
                              type |-> w.type, error |-> w.error]
                        ELSE events[e]]
        /\ Release(p)

Commit(p) ==
    /\ At(p, "applied", "committed")
    /\ Install(p)
    /\ UNCHANGED <<nextEvent, pending, published, faults>>

(* Mutant of Publish: the update is broadcast inside the transaction.        *)
PublishEarly(p) ==
    /\ At(p, "applied", "applied")
    /\ published' = [published EXCEPT ![p] = pending[p].event]
    /\ UNCHANGED <<commands, last, orders, trades, events, nextEvent, lock,
                   claim, pending, faults>>

(* The broadcast of the committed update.                                   *)
Publish(p) ==
    /\ At(p, "committed", "idle")
    /\ published' = [published EXCEPT ![p] = pending[p].event]
    /\ pending' = [pending EXCEPT ![p] = NothingPending]
    /\ UNCHANGED <<commands, last, orders, trades, events, nextEvent, lock,
                   claim, faults>>

(* The wait of processor_error_backoff_ms ends.                             *)
Retry(p) ==
    /\ At(p, "backoff", "idle")
    /\ UNCHANGED <<commands, last, orders, trades, events, nextEvent, lock,
                   claim, pending, published, faults>>

-----------------------------------------------------------------------------
(* Faults *)

Fault == faults < MaxFaults /\ faults' = faults + 1

(* A statement fails: everything is rolled back.                            *)
Fail(p) ==
    /\ Fault
    /\ phase[p] \in InTransaction
    /\ phase' = [phase EXCEPT ![p] = "backoff"]
    /\ Rollback(p)
    /\ UNCHANGED <<commands, last, orders, trades, events, nextEvent, published>>

(* The commit succeeds, and the processor sees an exception.                *)
CommitUnheard(p) ==
    /\ Fault
    /\ At(p, "applied", "backoff")
    /\ Install(p)
    /\ pending' = [pending EXCEPT ![p] = NothingPending]
    /\ UNCHANGED <<nextEvent, published>>

(* The process dies; the database rolls its transaction back.               *)
Crash(p) ==
    /\ Fault
    /\ phase[p] # "down"
    /\ phase' = [phase EXCEPT ![p] = "down"]
    /\ Rollback(p)
    /\ UNCHANGED <<commands, last, orders, trades, events, nextEvent, published>>

Start(p) ==
    /\ At(p, "down", "idle")
    /\ published' = [published EXCEPT ![p] = 0]
    /\ UNCHANGED <<commands, last, orders, trades, events, nextEvent, lock,
                   claim, pending, faults>>

-----------------------------------------------------------------------------
(* The environment: the API accepts commands, maintenance resets the demo.   *)

Accept ==
    /\ last < MaxSequence
    /\ \E key \in Key, r \in Request, q \in (last + 1)..MaxSequence :
          J!Accept(key, r, q)
    /\ UNCHANGED <<orders, trades, events, nextEvent, lock, phase, claim,
                   pending, published, faults>>

(* TRUNCATE waits for the transactions that use the tables.                  *)
TablesUnused == \A p \in Processor : phase[p] \notin {"claimed", "applied"}

(* Mutant of Reset: a table is left out.                                     *)
ResetKeepingTrades ==
    /\ lock = NoProcessor
    /\ TablesUnused
    /\ J!Erase
    /\ orders' = NoRows
    /\ events' = NoRows
    /\ UNCHANGED <<trades, nextEvent, lock, phase, claim, pending, published, faults>>

(* Mutant of Reset: TRUNCATE ... RESTART IDENTITY.                          *)
ResetIdentities ==
    /\ lock = NoProcessor
    /\ TablesUnused
    /\ J!Erase
    /\ orders' = NoRows
    /\ trades' = {}
    /\ events' = NoRows
    /\ nextEvent' = 1
    /\ UNCHANGED <<lock, phase, claim, pending, published, faults>>

(* reset_demo_state waits for the processor lock, and truncates.            *)
Reset ==
    /\ lock = NoProcessor
    /\ TablesUnused
    /\ J!Erase
    /\ orders' = NoRows
    /\ trades' = {}
    /\ events' = NoRows
    /\ UNCHANGED <<nextEvent, lock, phase, claim, pending, published, faults>>

ProcessorStep(p) ==
    \/ TryLock(p) \/ FindNothing(p) \/ Claim(p) \/ Apply(p) \/ Commit(p)
    \/ Publish(p) \/ Retry(p) \/ Start(p)

Next ==
    \/ \E p \in Processor : ProcessorStep(p) \/ Fail(p) \/ CommitUnheard(p) \/ Crash(p)
    \/ Accept
    \/ Reset

Spec == Init /\ [][Next]_pvars

(* The loop of run goes on, and the platform starts a dead process again.    *)
FairSpec == Spec /\ \A p \in Processor : WF_pvars(ProcessorStep(p))

-----------------------------------------------------------------------------
(* Properties *)

Row == [symbol : Symbol, side : Side, price : Nat \ {0}, quantity : Nat \ {0},
        sequence : Nat \ {0}, remaining : Nat, status : Status]
TradeRow == [symbol : Symbol, command : Nat \ {0}, sequence : Nat \ {0},
             maker : Nat \ {0}, taker : Nat \ {0}, price : Nat \ {0},
             quantity : Nat \ {0}]
EventRow == [command : Nat \ {0}, symbol : Symbol, error : {"none", "UnknownOrderError"},
             type : {"order_accepted", "order_cancelled", "command_rejected"}]

(* The types of the tables and of the processors' state; an order row is in  *)
(* a state its constructor accepts, or no engine could be restored from it.  *)
TypeOK ==
    /\ \A q \in DOMAIN commands :
          /\ q \in Nat \ {0}
          /\ commands[q] \in [key : Key, request : Request,
                              status : {"queued", "completed", "rejected"}]
    /\ last \in Nat
    /\ \A id \in DOMAIN orders : orders[id] \in Row /\ ValidState(orders[id])
    /\ trades \subseteq TradeRow
    /\ \A e \in DOMAIN events : e \in Nat \ {0} /\ events[e] \in EventRow
    /\ nextEvent \in Nat \ {0}
    /\ lock \in Processor \cup {NoProcessor}
    /\ phase \in [Processor -> Phase]
    /\ claim \in [Processor -> Nat]
    /\ published \in [Processor -> Nat]
    /\ faults \in 0..MaxFaults

(* The tables hold exactly what applying the finished commands one after      *)
(* another, in the order of their sequences, to an empty market leaves:       *)
(* whatever fails, dies or runs twice, no command is applied twice, in part,  *)
(* or out of order.                                                         *)
AppliedTo(market, q) ==
    LET result == OutcomeOf(market.orders, market.trades, q, commands[q].request)
    IN  [orders |-> Persisted(market.orders, result.rows),
         trades |-> market.trades \cup result.trades]

Replay[q \in 0..last] ==
    IF q = 0 THEN [orders |-> NoRows, trades |-> {}]
    ELSE IF q \in FinishedSequences THEN AppliedTo(Replay[q - 1], q)
    ELSE Replay[q - 1]

MarketIsReplay == [orders |-> orders, trades |-> trades] = Replay[last]

FinishedInOrder ==
    \A q \in FinishedSequences, r \in QueuedSequences : q < r

(* sequence_integrity of the diagnostics: one event for each finished        *)
(* command, and none for any other.                                         *)
OneEventPerCommand ==
    /\ \A e \in DOMAIN events : events[e].command \in FinishedSequences
    /\ \A q \in FinishedSequences :
          Cardinality({e \in DOMAIN events : events[e].command = q}) = 1

EventsInOrder ==
    \A e, f \in DOMAIN events : e < f => events[e].command < events[f].command

(* Commands are finished from the head of the queue, each with one event, and *)
(* events are numbered in that order, which the streams' cursors follow,      *)
(* whichever processors took them.                                          *)
AppliedInOrder == FinishedInOrder /\ OneEventPerCommand /\ EventsInOrder

(* Types; and on the tables, what an order no longer has is what it traded;    *)
(* trades are between stored orders and numbered without gaps in each market; *)
(* and no market is crossed.                                                *)
LedgerBalances ==
    /\ TypeOK
    /\ \A id \in DOMAIN orders :
          orders[id].quantity - orders[id].remaining =
             MapThenSumSet(LAMBDA t : t.quantity,
                           {t \in trades : id \in {t.maker, t.taker}})
    /\ \A t \in trades : {t.maker, t.taker} \subseteq DOMAIN orders
    /\ \A symbol \in Symbol :
          LET its  == {t \in trades : t.symbol = symbol}
              open == OpenRows(orders, symbol)
          IN  /\ {t.sequence : t \in its} = 1..Cardinality(its)
              /\ \A b, a \in DOMAIN open :
                    open[b].side = "buy" /\ open[a].side = "sell" =>
                        open[b].price < open[a].price

(* A processor broadcasts each event once, in order, and never one that may   *)
(* still be rolled back.                                                    *)
BroadcastCommitted ==
    [][\A p \in Processor :
         published'[p] \notin {0, published[p]} =>
            /\ published'[p] > published[p]
            /\ \A o \in Processor :
                  phase[o] = "applied" => pending[o].event # published'[p]]_pvars

(* An id below is given out, and its transaction is over.                    *)
EventsOver ==
    Min({nextEvent} \cup {pending[p].event : p \in {o \in Processor : phase[o] = "applied"}}) - 1

(* A sequence up to this one is finished, erased or given up.                *)
SequencesOver == IF QueuedSequences = {} THEN last ELSE Min(QueuedSequences) - 1

EventsOf(symbol) ==
    [e \in {f \in DOMAIN events : events[f].symbol = symbol} |-> events[e].command]

Market(symbol) == INSTANCE MarketLog
    WITH events <- EventsOf(symbol), lastEvent <- EventsOver, lastSequence <- SequencesOver

(* What the streams rely on: in each market events become visible one at a    *)
(* time, in the order of both their ids and their commands, for ever upwards,  *)
(* even where ids are taken by rolled back attempts, and across a reset       *)
(* (maintenance.py:38 on RESTART IDENTITY).                                 *)
ImplementsMarketLog ==
    /\ \A symbol \in Symbol : Market(symbol)!Init
    /\ [][\A symbol \in Symbol : Market(symbol)!Next]_pvars

(* Every accepted command is completed or rejected in the end (or erased):   *)
(* no command blocks the head of the queue for ever.                         *)
QueueAdvances ==
    \A q \in 1..MaxSequence : q \in QueuedSequences ~> q \notin QueuedSequences
=============================================================================
