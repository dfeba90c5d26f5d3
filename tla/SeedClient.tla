------------------------------ MODULE SeedClient ------------------------------
(***************************************************************************)
(* The seed client (seed.py) among visitors, processors and the reset        *)
(* (maintenance.py): it makes trades in pairs of its own orders, then leaves  *)
(* orders in the book, all through the API, each under a key that every run   *)
(* uses again.  Runs fail, are run again, and may overlap.  Processors do not *)
(* fail here: all a run would see of it is a command that takes longer.       *)
(***************************************************************************)
EXTENDS CommandProcessor

CONSTANTS
    Seeder,   \* jobs that run the seed client
    Starter,  \* the market that is seeded
    Pairs,    \* its planned trades: a sequence of [price, quantity]
    Rest,     \* its planned depth: a sequence of [side, price, quantity]
    Visitor,  \* the keys of other callers
    VisitorRequest  \* what they ask for

VARIABLES
    run,      \* the state of each job's run: see NotStarted
    late,     \* the orders of runs that gave up, still on their way
    verified, \* history: a run has verified the market since the last reset
    torn      \* history: that reset came in the middle of a run

client == <<run, late, verified, torn>>
svars == <<pvars, client>>

(* at: the order the run is at; asked: the command it waits for, or 0; pair    *)
(* and produced: the trades of the pair, and of all of them; undisturbed: no   *)
(* reset since its start (history).                                         *)
NotStarted == [outcome |-> "none", at |-> 1, asked |-> 0, pair |-> {},
               produced |-> {}, undisturbed |-> FALSE]

MakerSide(i) == IF i % 2 = 1 THEN "sell" ELSE "buy"

PairOrder(i, side) ==
    [kind |-> "submit", symbol |-> Starter, side |-> side,
     price |-> Pairs[i].price, quantity |-> Pairs[i].quantity]

RestOrder(i) ==
    [kind |-> "submit", symbol |-> Starter, side |-> Rest[i].side,
     price |-> Rest[i].price, quantity |-> Rest[i].quantity]

(* The orders in turn, a maker and a taker for each pair and then the rest;    *)
(* the place of an order is its key.                                        *)
Plan ==
    [n \in 1..(2 * Len(Pairs) + Len(Rest)) |->
        IF n > 2 * Len(Pairs) THEN RestOrder(n - 2 * Len(Pairs))
        ELSE IF n % 2 = 1 THEN PairOrder((n + 1) \div 2, MakerSide((n + 1) \div 2))
        ELSE PairOrder(n \div 2, Opposite(MakerSide(n \div 2)))]

IsMaker(n) == n <= 2 * Len(Pairs) /\ n % 2 = 1
IsTaker(n) == n <= 2 * Len(Pairs) /\ n % 2 = 0

(* The planned orders are orders the API lets through (STARTER_MARKETS), and   *)
(* no visitor has the seed client's keys.                                   *)
ASSUME SeedAssumption ==
    /\ Pairs \in Seq([price : Nat \ {0}, quantity : Nat \ {0}]) /\ Pairs # <<>>
    /\ Rest \in Seq([side : Side, price : Nat \ {0}, quantity : Nat \ {0}])
    /\ \A n \in DOMAIN Plan : n \in Key /\ Plan[n] \in Request /\ n \notin Visitor
    /\ Visitor \subseteq Key /\ VisitorRequest \subseteq Request

SeedInit ==
    /\ Init
    /\ run = [d \in Seeder |-> NotStarted]
    /\ late = {} /\ verified = FALSE /\ torn = FALSE

-----------------------------------------------------------------------------
(* A run *)

Running(d) == run[d].outcome = "running"
Become(d, r) == run' = [run EXCEPT ![d] = r]

Begin(d) ==
    /\ ~Running(d)
    /\ Become(d, [NotStarted EXCEPT !.outcome = "running", !.undisturbed = TRUE])
    /\ UNCHANGED <<pvars, late, verified, torn>>

(* The order at place n is accepted.                                         *)
Arrive(n) ==
    /\ last < MaxSequence
    /\ J!Accept(n, Plan[n], last + 1)
    /\ UNCHANGED <<orders, trades, events, nextEvent, lock, phase, claim,
                   pending, published, faults>>

(* Mutant of Post: a repeated key gets the newest receipt.                    *)
PostNewest(d) ==
    /\ Running(d) /\ run[d].asked = 0
    /\ \/ Arrive(run[d].at) /\ Become(d, [run[d] EXCEPT !.asked = last + 1])
       \/ /\ J!HasKey(commands, run[d].at)
          /\ Become(d, [run[d] EXCEPT !.asked = last])
          /\ UNCHANGED pvars
    /\ UNCHANGED <<late, verified, torn>>

(* The run's order is accepted, or was before.                               *)
Post(d) ==
    /\ Running(d) /\ run[d].asked = 0
    /\ \/ Arrive(run[d].at) /\ Become(d, [run[d] EXCEPT !.asked = last + 1])
       \/ /\ \E q \in DOMAIN commands :
                /\ commands[q].key = run[d].at
                /\ Become(d, [run[d] EXCEPT !.asked = q])
          /\ UNCHANGED pvars
    /\ UNCHANGED <<late, verified, torn>>

ArriveLate(n) ==
    /\ late' = late \ {n}
    /\ \/ Arrive(n)
       \/ J!HasKey(commands, n) /\ UNCHANGED pvars
    /\ UNCHANGED <<run, verified, torn>>

(* Mutant of TradesBy: the trades with the order on either side.             *)
TradesWith(q) == {t.sequence : t \in {u \in trades : q \in {u.maker, u.taker}}}

(* trade_sequences in the result of a command.                              *)
TradesBy(q) == {t.sequence : t \in {u \in trades : u.command = q}}

(* The run after its order has been completed with these trades.             *)
Onward(r, numbers) ==
    LET both == r.pair \cup numbers
        next == [r EXCEPT !.at = @ + 1, !.asked = 0]
    IN  IF IsMaker(r.at) THEN [next EXCEPT !.pair = numbers]
        ELSE IF ~IsTaker(r.at) THEN next
        ELSE IF both = {} THEN [r EXCEPT !.outcome = "no trade"]
        ELSE [next EXCEPT !.pair = {}, !.produced = @ \cup both]

(* The end of seed_market.                                                  *)
Judged(r) ==
    IF r.outcome # "running" \/ r.at <= Len(Plan) THEN r
    ELSE [r EXCEPT !.outcome =
            IF Cardinality(r.produced) >= Len(Pairs) THEN "verified" ELSE "too few"]

(* Mutant of Poll: the receipt is taken for the outcome.                     *)
PollAccepted(d) ==
    /\ Running(d) /\ run[d].asked \in DOMAIN commands
    /\ LET r == Judged(Onward(run[d], TradesBy(run[d].asked)))
       IN  /\ Become(d, r)
           /\ verified' = (verified \/ (r.outcome = "verified" /\ r.undisturbed))
    /\ UNCHANGED <<pvars, late, torn>>

(* The command is found completed.                                          *)
Poll(d) ==
    /\ Running(d) /\ run[d].asked \in DOMAIN commands
    /\ commands[run[d].asked].status = "completed"
    /\ LET r == Judged(Onward(run[d], TradesBy(run[d].asked)))
       IN  /\ Become(d, r)
           /\ verified' = (verified \/ (r.outcome = "verified" /\ r.undisturbed))
    /\ UNCHANGED <<pvars, late, torn>>

(* Any call fails or gets an error (after a reset, 404), a command is not done *)
(* in time, or the job is killed.  A post may arrive all the same.            *)
GiveUp(d) ==
    /\ Running(d)
    /\ Become(d, [run[d] EXCEPT !.outcome = "failed"])
    /\ late' \in {late} \cup (IF run[d].asked = 0 THEN {late \cup {run[d].at}} ELSE {})
    /\ UNCHANGED <<pvars, verified, torn>>

-----------------------------------------------------------------------------
(* The others *)

Visit ==
    /\ last < MaxSequence
    /\ \E key \in Visitor, r \in VisitorRequest : J!Accept(key, r, last + 1)
    /\ UNCHANGED <<orders, trades, events, nextEvent, lock, phase, claim,
                   pending, published, faults, client>>

Maintain ==
    /\ Reset
    /\ run' = [d \in Seeder |-> [run[d] EXCEPT !.undisturbed = FALSE]]
    /\ verified' = FALSE
    /\ torn' = (late # {} \/ \E d \in Seeder : Running(d))
    /\ UNCHANGED late

Process(p) == ProcessorStep(p) /\ UNCHANGED client

SeedNext ==
    \/ \E d \in Seeder : Begin(d) \/ Post(d) \/ Poll(d) \/ GiveUp(d)
    \/ \E n \in late : ArriveLate(n)
    \/ Visit \/ Maintain
    \/ \E p \in Processor : Process(p)

SeedSpec == SeedInit /\ [][SeedNext]_svars

-----------------------------------------------------------------------------
(* Properties *)

(* "rebuilds the starter markets": a run that verifies the market without a    *)
(* reset in between has its trades in the tables, one at least for each pair   *)
(* with an order of the pair, however visitors traded with its orders.        *)
VerifiedIsThere ==
    \A d \in Seeder :
        run[d].outcome = "verified" /\ run[d].undisturbed =>
            \A i \in DOMAIN Pairs :
                \E t \in trades : commands[t.command].key \in {2 * i - 1, 2 * i}

(* Only a visitor's order makes a run end without the trades, or a reset in    *)
(* the middle of a run: never another run, or its own orders of an earlier     *)
(* run, posted again or late.                                                *)
OthersSpoil ==
    \A d \in Seeder :
        run[d].outcome \in {"no trade", "too few"} /\ run[d].undisturbed /\ ~torn =>
            \E q \in DOMAIN commands : commands[q].key \in Visitor

(* The market that a run has verified, every run verifies again, until the     *)
(* reset (tests/unit/test_seed.py, verified_again), whatever visitors do; but  *)
(* a run that began before a reset may count trades of both sides of it.      *)
VerifiedAgain ==
    [][\A d \in Seeder :
           verified /\ run[d].undisturbed /\ run'[d].outcome # run[d].outcome =>
               run'[d].outcome \notin {"no trade", "too few"}]_svars
=============================================================================
