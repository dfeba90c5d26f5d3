-------------------------- MODULE PriceTimeMatching --------------------------
(***************************************************************************)
(* Price-time priority in closed form, over a book b that maps the id of     *)
(* each open order to a record with its side, price, sequence and remaining  *)
(* quantity: the makers an order can trade with are served in price-time     *)
(* order, and each gets what the makers ahead of it leave of the order.      *)
(***************************************************************************)
EXTENDS LimitOrder, Integers, Sequences, FiniteSetsExt, SequencesExt

Makers(b, side, limit) ==
    {id \in DOMAIN b : b[id].side # side /\ Crosses(side, limit, b[id].price)}

(* Maker m is served before maker n: at a better price for the taker, or at *)
(* the same price and earlier.                                              *)
Before(b, m, n) ==
    \/ b[m].side = "sell" /\ b[m].price < b[n].price
    \/ b[m].side = "buy"  /\ b[m].price > b[n].price
    \/ b[m].price = b[n].price /\ b[m].sequence < b[n].sequence

Depth(b, ids) == SumFunctionOnSet([id \in ids |-> b[id].remaining], ids)

(* For each maker that trades with an order of this side, limit and          *)
(* quantity, the quantity it trades.                                        *)
Allotments(b, side, limit, quantity) ==
    LET makers   == Makers(b, side, limit)
        Ahead(m) == {n \in makers : Before(b, n, m)}
        Left(m)  == Max({0, quantity - Depth(b, Ahead(m))})
    IN  [m \in {k \in makers : Left(k) > 0} |-> Min({b[m].remaining, Left(m)})]

Allotted(fills) == SumFunction(fills)

(* The makers in the order in which they are served: the i-th has i - 1 of    *)
(* them before it.                                                          *)
Served(b, makers) ==
    [i \in 1..Cardinality(makers) |->
        CHOOSE m \in makers : Cardinality({n \in makers : Before(b, n, m)}) = i - 1]

(* The trades of a taker with these allotments, the first one numbered next. *)
TradesOf(b, fills, taker, next) ==
    LET served == Served(b, DOMAIN fills)
    IN  [i \in DOMAIN served |->
            [sequence |-> next + i - 1, maker |-> served[i], taker |-> taker,
             price |-> b[served[i]].price, quantity |-> fills[served[i]],
             makerSide |-> b[served[i]].side]]
=============================================================================
