------------------------------ MODULE OrderBook ------------------------------
(***************************************************************************)
(* What the matching engine promises, without its data structures: a set of *)
(* open orders, a tape of trades, and a submit that happens at once.        *)
(***************************************************************************)
EXTENDS PriceTimeMatching

CONSTANTS OrderId, Price, Quantity, MaxSequence

VARIABLES
    book,   \* id |-> [side, price, sequence, remaining] of each open order
    tape    \* every trade, in the order it was made

bookVars == <<book, tape>>

Init == book = [id \in {} |-> 0] /\ tape = <<>>

(* A refused call and a restart of the engine leave the market as it is.    *)
Nothing == UNCHANGED bookVars

Submit(id, side, price, quantity, sequence) ==
    /\ id \notin DOMAIN book
    /\ \A m \in DOMAIN book : book[m].sequence < sequence
    /\ LET fills == Allotments(book, side, price, quantity)
           rest  == quantity - Allotted(fills)
           kept  == {m \in DOMAIN book :
                        m \in DOMAIN fills => fills[m] < book[m].remaining}
       IN  /\ tape' = tape \o TradesOf(book, fills, id, Len(tape) + 1)
           /\ book' = [m \in kept \cup (IF rest > 0 THEN {id} ELSE {}) |->
                         IF m = id
                         THEN [side |-> side, price |-> price,
                               sequence |-> sequence, remaining |-> rest]
                         ELSE IF m \in DOMAIN fills
                              THEN [book[m] EXCEPT !.remaining = @ - fills[m]]
                              ELSE book[m]]

Cancel(id) ==
    /\ id \in DOMAIN book
    /\ book' = Restrict(book, DOMAIN book \ {id})
    /\ UNCHANGED tape

Next ==
    \/ Nothing
    \/ \E id \in OrderId : Cancel(id)
    \/ \E id \in OrderId, sequence \in 1..MaxSequence, side \in Side,
          price \in Price, quantity \in Quantity :
              Submit(id, side, price, quantity, sequence)

Spec == Init /\ [][Next]_bookVars
=============================================================================
