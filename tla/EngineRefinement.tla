-------------------------- MODULE EngineRefinement --------------------------
(***************************************************************************)
(* The matching engine implements OrderBook: a submit takes effect at its   *)
(* end, a restore is invisible.                                             *)
(*                                                                         *)
(* Until the submission being matched returns, the open book is the engine's *)
(* with the fills of that submission taken back, and the tape is without    *)
(* them.  During a restore, the orders still to be rested are in the book.  *)
(***************************************************************************)
EXTENDS MatchingEngine

PendingFills == IF current = NoOrder THEN <<>> ELSE current.fills

TakenBack(id) ==
    SumFunctionOnSet([i \in DOMAIN PendingFills |-> PendingFills[i].quantity],
                     {i \in DOMAIN PendingFills : PendingFills[i].maker = id})

OpenEntry(o, extra) ==
    [side |-> o.side, price |-> o.price, sequence |-> o.sequence,
     remaining |-> o.remaining + extra]

OpenBook ==
    LET matched == {PendingFills[i].maker : i \in DOMAIN PendingFills}
        resumed == {id \in DOMAIN pool : pool[id].status \in Active}
    IN  [id \in ActiveIds \cup matched \cup resumed |->
            IF id \in resumed THEN OpenEntry(pool[id], 0)
                              ELSE OpenEntry(orders[id], TakenBack(id))]

SettledTape == SubSeq(tape, 1, Len(tape) - Len(PendingFills))

Book == INSTANCE OrderBook WITH book <- OpenBook, tape <- SettledTape

(* Every finished submit leaves the book and the trades that serving the     *)
(* makers in price-time order leaves, whatever the loop went through, a      *)
(* cancel only removes its order, and a restore changes nothing.            *)
ImplementsOrderBook == Book!Spec
=============================================================================
