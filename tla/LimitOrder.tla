----------------------------- MODULE LimitOrder -----------------------------
(***************************************************************************)
(* The life of one limit order: engine/models.py.  An order is held here     *)
(* without its id, which its holders use as a key.                          *)
(***************************************************************************)
EXTENDS Naturals

Side == {"buy", "sell"}
Opposite(side) == IF side = "buy" THEN "sell" ELSE "buy"

Active == {"open", "partially_filled"}
Status == Active \cup {"filled", "cancelled"}

NewOrder(side, price, quantity, sequence) ==
    [side |-> side, price |-> price, quantity |-> quantity,
     sequence |-> sequence, remaining |-> quantity, status |-> "open"]

(* Mutant of ApplyFill: the remaining quantity is left alone.               *)
FillStatusOnly(order, n) ==
    [order EXCEPT !.status = IF order.remaining = n THEN "filled"
                             ELSE "partially_filled"]

(* The order after one execution for n of its remaining quantity.           *)
ApplyFill(order, n) ==
    [order EXCEPT !.remaining = @ - n,
                  !.status = IF order.remaining = n THEN "filled"
                             ELSE "partially_filled"]

(* Mutant of Cancelled: the status is not set.                              *)
CancelledNot(order) == order

(* The cancelled order keeps its unfilled quantity.                         *)
Cancelled(order) == [order EXCEPT !.status = "cancelled"]

(* What the constructor demands of a lifecycle state (_validate_state).     *)
ValidState(order) ==
    /\ order.remaining <= order.quantity
    /\ order.status = "open" => order.remaining = order.quantity
    /\ order.status = "partially_filled" =>
           order.remaining > 0 /\ order.remaining < order.quantity
    /\ order.status = "filled" => order.remaining = 0
    /\ order.status = "cancelled" => order.remaining > 0

(* A taker of this side and limit can trade at this maker price.            *)
Crosses(side, limit, makerPrice) ==
    IF side = "buy" THEN makerPrice <= limit ELSE makerPrice >= limit
=============================================================================
