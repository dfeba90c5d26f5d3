------------------------------ MODULE MarketLog ------------------------------
(***************************************************************************)
(* What the processors promise the streams of one market: events appear one  *)
(* at a time, each with an id and a command sequence above every one before   *)
(* it; the maintenance job may erase them all, but both numberings go on.    *)
(***************************************************************************)
EXTENDS Naturals

VARIABLES
    events,        \* market_events of the market: event_id |-> sequence of its command
    lastEvent,     \* no later event has an id up to this one
    lastSequence   \* no later event is of a command up to this one

logVars == <<events, lastEvent, lastSequence>>

NoEvents == [e \in {} |-> 0]

WithEvent(es, e, q) ==
    [f \in DOMAIN es \cup {e} |-> IF f = e THEN q ELSE es[f]]

Init == events = NoEvents /\ lastEvent = 0 /\ lastSequence = 0

NumbersGoOn == lastEvent' >= lastEvent /\ lastSequence' >= lastSequence

Append(e, q) == events' = WithEvent(events, e, q)

Erase == events' = NoEvents

Next ==
    /\ NumbersGoOn
    /\ \/ \E e \in (lastEvent + 1)..lastEvent', q \in (lastSequence + 1)..lastSequence' :
             Append(e, q)
       \/ Erase
       \/ UNCHANGED events

Spec == Init /\ [][Next]_logVars
=============================================================================
