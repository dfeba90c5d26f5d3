----------------------------- MODULE MCSeedClient -----------------------------
EXTENDS SeedClient

CONSTANTS p1, d1, nova, guest

OneProcessor == {p1}
OneSeeder == {d1}
Markets == {nova}
OneVisitor == {guest}

TwoPairs == <<[price |-> 2, quantity |-> 1], [price |-> 1, quantity |-> 1]>>
OneOffer == <<[side |-> "sell", price |-> 2, quantity |-> 1]>>

Orders == {[kind |-> "submit", symbol |-> nova, side |-> side, price |-> 1,
            quantity |-> 1] : side \in Side}
Keys == 1..Len(Plan) \cup Visitor
VisitorRequests == Orders \cup {[kind |-> "cancel", symbol |-> nova, target |-> 1]}
Requests == VisitorRequests \cup {Plan[n] : n \in DOMAIN Plan}
=============================================================================
