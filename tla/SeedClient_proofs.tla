-------------------------- MODULE SeedClient_proofs --------------------------
(***************************************************************************)
(* Theorems about SeedClient, for any number of seed jobs, processors, keys   *)
(* and requests of visitors, and any plan of pairs and depth.  SeedSpec is a   *)
(* behaviour of CommandProcessor, whose invariants are used here.             *)
(*                                                                         *)
(* A job keeps no more than how far it is, and what it was told on the way;    *)
(* RunsInv says that, unless a reset came in between, both are what the tables  *)
(* still say.  It is kept because, between two resets, commands stay finished   *)
(* and a finished command gets no more trades (Grows).  AloneInv adds what the  *)
(* market looks like with none but the seed client's orders.                  *)
(***************************************************************************)
EXTENDS SeedClient, CommandProcessor_proofs

(* What is said here of commands cs, trades ts and orders os is said of any,   *)
(* to be used before and after a step.                                      *)

(* One command for a key, and the seed client's keys are of its planned orders. *)
KeysOnce(cs) ==
    /\ \A q, s \in DOMAIN cs : cs[q].key = cs[s].key => q = s
    /\ \A q \in DOMAIN cs :
          \/ cs[q].key \in Visitor
          \/ cs[q].key \in DOMAIN Plan /\ cs[q].request = Plan[cs[q].key]

TradesFinished(cs, ts) ==
    \A t \in ts : t.command \in DOMAIN cs /\ cs[t.command].status # "queued"

(* The n-th planned order is completed, since the last reset.                *)
Done(cs, n) == \E q \in DOMAIN cs : cs[q].key = n /\ cs[q].status = "completed"

(* The numbers of its trades; of those of the i-th pair; of those of all pairs *)
(* before place n.                                                          *)
NumbersOf(cs, ts, n) == {t.sequence : t \in {u \in ts : cs[u.command].key = n}}
PairNumbers(cs, ts, i) == NumbersOf(cs, ts, 2 * i - 1) \cup NumbersOf(cs, ts, 2 * i)
Got(cs, ts, n) == UNION {PairNumbers(cs, ts, i) : i \in {j \in DOMAIN Pairs : 2 * j < n}}

Outcome == {"none", "running", "failed", "no trade", "too few", "verified"}

RunType ==
    [outcome : Outcome, at : 1..(Len(Plan) + 1), asked : Nat, pair : SUBSET Nat,
     produced : SUBSET Nat, undisturbed : BOOLEAN]

(* What a run knows that no reset came across: its orders are done up to the   *)
(* one it is at, and what it holds are their trades.                        *)
Knows(cs, ts, r) ==
    /\ \A n \in 1..(r.at - 1) : Done(cs, n)
    /\ r.asked # 0 => r.asked \in DOMAIN cs /\ cs[r.asked].key = r.at
    /\ IsTaker(r.at) => r.pair = NumbersOf(cs, ts, r.at - 1)
    /\ r.produced = Got(cs, ts, r.at)
    /\ \A i \in DOMAIN Pairs : 2 * i < r.at => PairNumbers(cs, ts, i) # {}
    /\ r.outcome \in {"verified", "too few"} => r.at = Len(Plan) + 1
    /\ r.outcome = "verified" => Cardinality(r.produced) >= Len(Pairs)
    /\ r.outcome = "too few" => ~(Cardinality(r.produced) >= Len(Pairs))
    /\ r.outcome = "no trade" =>
          IsTaker(r.at) /\ Done(cs, r.at) /\ NumbersOf(cs, ts, r.at) = {}

(* What a run that has verified the market has seen.                         *)
There(cs, ts) ==
    /\ \A n \in DOMAIN Plan : Done(cs, n)
    /\ \A i \in DOMAIN Pairs : PairNumbers(cs, ts, i) # {}
    /\ Cardinality(Got(cs, ts, Len(Plan) + 1)) >= Len(Pairs)

RunsTyped ==
    /\ run \in [Seeder -> RunType]
    /\ late \subseteq DOMAIN Plan
    /\ \A d \in Seeder : Running(d) => run[d].at <= Len(Plan)
    /\ verified \in BOOLEAN

RunsInv ==
    /\ RunsTyped
    /\ KeysOnce(commands) /\ TradesFinished(commands, trades)
    /\ \A d \in Seeder : run[d].undisturbed => Knows(commands, trades, run[d])
    /\ verified => There(commands, trades)

-----------------------------------------------------------------------------
(* The seed client's system is the processor's, with fewer things to happen.  *)

LEMMA PlanIs ==
  /\ Len(Pairs) \in Nat \ {0} /\ Len(Rest) \in Nat
  /\ DOMAIN Plan = 1..(2 * Len(Pairs) + Len(Rest))
  /\ Len(Plan) = 2 * Len(Pairs) + Len(Rest)
  /\ DOMAIN Pairs = 1..Len(Pairs)
<1>1. /\ Pairs \in Seq([price : Nat \ {0}, quantity : Nat \ {0}]) /\ Pairs # <<>>
      /\ Rest \in Seq([side : Side, price : Nat \ {0}, quantity : Nat \ {0}])
  BY SeedAssumption
<1>2. Len(Pairs) \in Nat \ {0} /\ Len(Rest) \in Nat /\ DOMAIN Pairs = 1..Len(Pairs)
  BY <1>1
<1> DEFINE N == 2 * Len(Pairs) + Len(Rest)
<1>3. N \in Nat
  BY <1>2
<1>4. DOMAIN Plan = 1..N
  BY DEF Plan
<1> HIDE DEF N
<1>5. Len(Plan) = N
  <2>1. \E S : Plan \in [1..N -> S]
    <3> DEFINE S == {Plan[n] : n \in 1..N}
    <3>1. Plan = [n \in 1..N |-> Plan[n]]
      BY DEF Plan, N
    <3>2. Plan \in [1..N -> S]
      BY <3>1
    <3> QED BY <3>2
  <2>2. PICK S : Plan \in [1..N -> S]
    BY <2>1
  <2>3. Plan \in Seq(S)
    BY <1>3, <2>2
  <2> QED BY <1>3, <1>4, <2>3
<1> QED BY <1>2, <1>4, <1>5 DEF N

(* The orders of the pairs and of the rest.                                  *)
LEMMA PlanOrders ==
  ASSUME NEW n \in DOMAIN Plan
  PROVE  /\ Plan[n] \in Request /\ Plan[n].kind = "submit" /\ Plan[n].symbol = Starter
         /\ n \in Key /\ n \notin Visitor /\ n \in Nat \ {0} /\ n <= Len(Plan)
<1>1. Plan[n] \in Request /\ n \in Key /\ n \notin Visitor
  BY SeedAssumption
<1>2. n \in Nat \ {0} /\ n <= Len(Plan)
  BY PlanIs
<1>3. Plan[n].kind = "submit" /\ Plan[n].symbol = Starter
  BY DEF Plan, RestOrder, PairOrder
<1> QED BY <1>1, <1>2, <1>3

LEMMA ArriveAccepts == ASSUME Inv, NEW n \in DOMAIN Plan, Arrive(n) PROVE Accept
<1>1. last \in Nat /\ last < MaxSequence /\ MaxSequence \in Nat
  BY ProcessorAssumption DEF Inv, ControlTypes, Arrive
<1>2. last + 1 \in (last + 1)..MaxSequence
  BY <1>1
<1> QED BY <1>1, <1>2, PlanOrders DEF Arrive, Accept

LEMMA SeedStepIs == Inv /\ RunsTyped /\ [SeedNext]_svars => [Next]_pvars
<1> SUFFICES ASSUME Inv, RunsTyped, [SeedNext]_svars PROVE [Next]_pvars
  OBVIOUS
<1> USE DEF RunsTyped
<1>1. ASSUME NEW d \in Seeder, Post(d) PROVE [Next]_pvars
  <2>1. run[d].at \in DOMAIN Plan
    BY <1>1, PlanIs DEF Post, RunType
  <2> QED BY <1>1, <2>1, ArriveAccepts DEF Post, Next
<1>2. ASSUME NEW n \in late, ArriveLate(n) PROVE [Next]_pvars
  BY <1>2, ArriveAccepts DEF ArriveLate, Next
<1>3. CASE Visit
  <2>1. last \in Nat /\ last < MaxSequence /\ MaxSequence \in Nat
    BY <1>3, ProcessorAssumption DEF Inv, ControlTypes, Visit
  <2>2. last + 1 \in (last + 1)..MaxSequence
    BY <2>1
  <2>3. Accept
    BY <1>3, <2>1, <2>2, SeedAssumption DEF Visit, Accept
  <2> QED BY <2>3 DEF Next
<1>4. CASE Maintain
  BY <1>4 DEF Maintain, Next
<1>5. ASSUME NEW p \in Processor, Process(p) PROVE [Next]_pvars
  BY <1>5 DEF Process, Next
<1>6. ASSUME NEW d \in Seeder, Begin(d) \/ Poll(d) \/ GiveUp(d) PROVE UNCHANGED pvars
  BY <1>6 DEF Begin, Poll, GiveUp
<1>7. CASE UNCHANGED svars
  BY <1>7 DEF svars
<1> QED BY <1>1, <1>2, <1>3, <1>4, <1>5, <1>6, <1>7 DEF SeedNext

-----------------------------------------------------------------------------
(* The runs *)

LEMMA Parity ==
  ASSUME NEW n \in Nat
  PROVE  /\ n % 2 = 0 \/ n % 2 = 1
         /\ n % 2 = 1 => (n + 1) % 2 = 0 /\ \A j \in Nat : 2 * j < n + 1 <=> 2 * j < n
         /\ n % 2 = 0 =>
               /\ (n + 1) % 2 = 1
               /\ \E i \in Nat :
                     n = 2 * i /\ \A j \in Nat : 2 * j < n + 1 <=> 2 * j < n \/ j = i
  OBVIOUS

(* Where the end of seed_market leads.                                       *)
Ends(at, produced, outcome) ==
    outcome = IF at <= Len(Plan) THEN "running"
              ELSE IF Cardinality(produced) >= Len(Pairs) THEN "verified" ELSE "too few"

RunIs(f, outcome, at, asked, pair, produced, undisturbed) ==
    f = [outcome |-> outcome, at |-> at, asked |-> asked, pair |-> pair,
         produced |-> produced, undisturbed |-> undisturbed]

LEMMA RunFields ==
  ASSUME NEW f, NEW outcome, NEW at, NEW asked, NEW pair, NEW produced, NEW undisturbed,
         RunIs(f, outcome, at, asked, pair, produced, undisturbed)
  PROVE  /\ f.outcome = outcome /\ f.at = at /\ f.asked = asked /\ f.pair = pair
         /\ f.produced = produced /\ f.undisturbed = undisturbed
  BY DEF RunIs

LEMMA RunTypeOf ==
  ASSUME NEW outcome \in Outcome, NEW at \in 1..(Len(Plan) + 1), NEW asked \in Nat,
         NEW pair \in SUBSET Nat, NEW produced \in SUBSET Nat, NEW undisturbed \in BOOLEAN,
         NEW f, RunIs(f, outcome, at, asked, pair, produced, undisturbed)
  PROVE  f \in RunType
  BY DEF RunIs, RunType

LEMMA RunGoesOn ==
  ASSUME NEW r, NEW outcome, NEW at, NEW asked, NEW pair, NEW produced, NEW undisturbed,
         RunIs(r, outcome, at, asked, pair, produced, undisturbed)
  PROVE  RunIs([r EXCEPT !.at = @ + 1, !.asked = 0], outcome, at + 1, 0, pair, produced,
               undisturbed)
<1> DEFINE next == [outcome |-> outcome, at |-> at + 1, asked |-> 0, pair |-> pair,
                    produced |-> produced, undisturbed |-> undisturbed]
           g == [r EXCEPT !.at = @ + 1, !.asked = 0]
<1>1. r = [outcome |-> outcome, at |-> at, asked |-> asked, pair |-> pair,
           produced |-> produced, undisturbed |-> undisturbed]
  BY DEF RunIs
<1>2. DOMAIN g = DOMAIN r /\ DOMAIN r = DOMAIN next
  BY <1>1
<1>3. r.at = at /\ r.outcome = outcome /\ r.pair = pair /\ r.produced = produced
      /\ r.undisturbed = undisturbed
      /\ DOMAIN r = {"outcome", "at", "asked", "pair", "produced", "undisturbed"}
  BY <1>1
<1>4. /\ g.at = at + 1 /\ g.asked = 0 /\ g.outcome = outcome /\ g.pair = pair
      /\ g.produced = produced /\ g.undisturbed = undisturbed
  BY <1>3
<1>5. g = [field \in DOMAIN r |-> g[field]]
  OBVIOUS
<1> HIDE DEF g
<1>6. g = next
  BY <1>3, <1>4, <1>5
<1> QED BY <1>6 DEF RunIs, g

LEMMA JudgedIs ==
  ASSUME NEW r, NEW at \in Nat, NEW asked, NEW pair, NEW produced, NEW undisturbed,
         RunIs(r, "running", at, asked, pair, produced, undisturbed)
  PROVE  \E outcome :
            /\ RunIs(Judged(r), outcome, at, asked, pair, produced, undisturbed)
            /\ Ends(at, produced, outcome)
<1>1. r.outcome = "running" /\ r.at = at /\ r.produced = produced /\ Len(Plan) \in Nat
  BY RunFields, PlanIs
<1> DEFINE result == IF Cardinality(produced) >= Len(Pairs) THEN "verified" ELSE "too few"
<1>2. CASE at <= Len(Plan)
  <2>1. Judged(r) = r /\ Ends(at, produced, "running")
    BY <1>1, <1>2 DEF Judged, Ends
  <2> QED BY <2>1
<1>3. CASE ~(at <= Len(Plan))
  <2>1. Judged(r) = [r EXCEPT !.outcome = result] /\ Ends(at, produced, result)
    BY <1>1, <1>3 DEF Judged, Ends
  <2> HIDE DEF result
  <2>2. RunIs(Judged(r), result, at, asked, pair, produced, undisturbed)
    BY <2>1 DEF RunIs
  <2> QED BY <2>1, <2>2
<1> QED BY <1>2, <1>3

(* The run after it found its order completed with these trades.             *)
PolledMaker(r, numbers, f) ==
    IsMaker(r.at) =>
       /\ f.at = r.at + 1 /\ f.asked = 0 /\ f.pair = numbers
       /\ f.produced = r.produced /\ f.outcome = "running"

PolledTaker(r, numbers, f) ==
    IsTaker(r.at) =>
       IF r.pair \cup numbers = {}
       THEN /\ f.at = r.at /\ f.asked = r.asked /\ f.pair = r.pair
            /\ f.produced = r.produced /\ f.outcome = "no trade"
       ELSE /\ f.at = r.at + 1 /\ f.asked = 0 /\ f.pair = {}
            /\ f.produced = r.produced \cup (r.pair \cup numbers)
            /\ Ends(f.at, f.produced, f.outcome)

PolledRest(r, f) ==
    ~IsMaker(r.at) /\ ~IsTaker(r.at) =>
       /\ f.at = r.at + 1 /\ f.asked = 0 /\ f.pair = r.pair
       /\ f.produced = r.produced /\ Ends(f.at, f.produced, f.outcome)

Polled(f, r, numbers) == f = Judged(Onward(r, numbers))

LEMMA PolledIs ==
  ASSUME NEW r \in RunType, r.outcome = "running", r.at <= Len(Plan),
         NEW numbers \in SUBSET Nat, NEW f, Polled(f, r, numbers)
  PROVE  /\ f \in RunType /\ f.undisturbed = r.undisturbed
         /\ f.outcome = "running" => f.at <= Len(Plan)
         /\ f.outcome \in {"running", "no trade", "too few", "verified"}
         /\ PolledMaker(r, numbers, f)
         /\ PolledTaker(r, numbers, f)
         /\ PolledRest(r, f)
<1> DEFINE both == r.pair \cup numbers
           next == [r EXCEPT !.at = @ + 1, !.asked = 0]
           g == Onward(r, numbers)
<1>1. /\ r.at \in Nat \ {0} /\ Len(Plan) \in Nat /\ Len(Pairs) \in Nat
      /\ 2 * Len(Pairs) <= Len(Plan)
      /\ r.at + 1 \in 1..(Len(Plan) + 1)
      /\ r.pair \in SUBSET Nat /\ r.produced \in SUBSET Nat /\ r.undisturbed \in BOOLEAN
      /\ r.asked \in Nat /\ r.at \in 1..(Len(Plan) + 1)
  BY PlanIs DEF RunType
<1>2. RunIs(r, "running", r.at, r.asked, r.pair, r.produced, r.undisturbed)
  BY DEF RunType, RunIs
<1>3. RunIs(next, "running", r.at + 1, 0, r.pair, r.produced, r.undisturbed)
  BY <1>2, RunGoesOn
<1>4. f = Judged(g)
  BY DEF Polled
<1>5. ~(IsMaker(r.at) /\ IsTaker(r.at))
  BY <1>1 DEF IsMaker, IsTaker
<1>6. g = IF IsMaker(r.at) THEN [next EXCEPT !.pair = numbers]
          ELSE IF ~IsTaker(r.at) THEN next
          ELSE IF both = {} THEN [r EXCEPT !.outcome = "no trade"]
          ELSE [next EXCEPT !.pair = {}, !.produced = @ \cup both]
  BY DEF Onward
<1> HIDE DEF next, g, both
<1>7. CASE IsMaker(r.at)
  <2>1. RunIs(g, "running", r.at + 1, 0, numbers, r.produced, r.undisturbed)
    BY <1>3, <1>6, <1>7 DEF RunIs
  <2>2. r.at + 1 <= Len(Plan)
    <3>1. r.at % 2 = 1 /\ r.at <= 2 * Len(Pairs)
      BY <1>7 DEF IsMaker
    <3>2. r.at + 1 <= 2 * Len(Pairs)
      BY <1>1, <3>1
    <3> QED BY <1>1, <3>2
  <2>3. PICK outcome :
           /\ RunIs(f, outcome, r.at + 1, 0, numbers, r.produced, r.undisturbed)
           /\ Ends(r.at + 1, r.produced, outcome)
    BY <1>1, <1>4, <2>1, JudgedIs
  <2>4. outcome = "running" /\ outcome \in Outcome
    BY <2>2, <2>3 DEF Ends, Outcome
  <2>5. /\ f.outcome = "running" /\ f.at = r.at + 1 /\ f.asked = 0 /\ f.pair = numbers
        /\ f.produced = r.produced /\ f.undisturbed = r.undisturbed /\ f \in RunType
    BY <1>1, <2>3, <2>4, RunFields, RunTypeOf
  <2> QED BY <1>5, <1>7, <2>2, <2>5 DEF PolledMaker, PolledTaker, PolledRest
<1>8. CASE IsTaker(r.at) /\ both = {}
  <2>1. RunIs(g, "no trade", r.at, r.asked, r.pair, r.produced, r.undisturbed)
    BY <1>2, <1>5, <1>6, <1>8 DEF RunIs
  <2>2. g.outcome = "no trade"
    BY <2>1, RunFields
  <2>3. f = g
    BY <1>4, <2>2 DEF Judged
  <2>4. "no trade" \in Outcome
    BY DEF Outcome
  <2>5. /\ f.outcome = "no trade" /\ f.at = r.at /\ f.asked = r.asked /\ f.pair = r.pair
        /\ f.produced = r.produced /\ f.undisturbed = r.undisturbed /\ f \in RunType
    <3>1. /\ RunIs(f, "no trade", r.at, r.asked, r.pair, r.produced, r.undisturbed)
          /\ r.at \in 1..(Len(Plan) + 1) /\ r.asked \in Nat /\ r.pair \in SUBSET Nat
          /\ r.produced \in SUBSET Nat /\ r.undisturbed \in BOOLEAN
      BY <1>1, <2>1, <2>3
    <3>2. f \in RunType
      BY <2>4, <3>1 DEF RunIs, RunType
    <3> QED BY <3>2, <2>1, <2>3, <2>4 DEF RunIs
  <2> QED BY <1>5, <1>8, <2>5 DEF PolledMaker, PolledTaker, PolledRest, both
<1>9. CASE IsTaker(r.at) /\ both # {}
  <2> DEFINE produced == r.produced \cup both
  <2>1. RunIs(g, "running", r.at + 1, 0, {}, produced, r.undisturbed)
    BY <1>3, <1>5, <1>6, <1>9 DEF RunIs
  <2>2. produced \in SUBSET Nat
    BY <1>1 DEF both
  <2> HIDE DEF produced
  <2>3. PICK outcome :
           /\ RunIs(f, outcome, r.at + 1, 0, {}, produced, r.undisturbed)
           /\ Ends(r.at + 1, produced, outcome)
    BY <1>1, <1>4, <2>1, JudgedIs
  <2>4. /\ outcome \in {"running", "too few", "verified"} /\ outcome \in Outcome
        /\ outcome = "running" => r.at + 1 <= Len(Plan)
    BY <2>3 DEF Ends, Outcome
  <2>5. /\ f.outcome = outcome /\ f.at = r.at + 1 /\ f.asked = 0 /\ f.pair = {}
        /\ f.produced = produced /\ f.undisturbed = r.undisturbed /\ f \in RunType
    <3>1. /\ RunIs(f, outcome, r.at + 1, 0, {}, produced, r.undisturbed)
          /\ r.at + 1 \in 1..(Len(Plan) + 1) /\ 0 \in Nat /\ {} \in SUBSET Nat
          /\ produced \in SUBSET Nat /\ r.undisturbed \in BOOLEAN /\ outcome \in Outcome
      BY <1>1, <2>2, <2>3, <2>4
    <3>2. f \in RunType
      BY <3>1, RunTypeOf, Zenon
    <3> QED BY <3>2, <2>2, <2>3, <2>4 DEF RunIs
  <2>6. Ends(f.at, f.produced, f.outcome)
    BY <2>3, <2>5
  <2>7. PolledTaker(r, numbers, f)
    BY <1>9, <2>5, <2>6 DEF PolledTaker, produced, both
  <2> QED BY <1>5, <1>9, <2>4, <2>5, <2>7 DEF PolledMaker, PolledRest
<1>10. CASE ~IsMaker(r.at) /\ ~IsTaker(r.at)
  <2>1. RunIs(g, "running", r.at + 1, 0, r.pair, r.produced, r.undisturbed)
    BY <1>3, <1>6, <1>10
  <2>2. PICK outcome :
           /\ RunIs(f, outcome, r.at + 1, 0, r.pair, r.produced, r.undisturbed)
           /\ Ends(r.at + 1, r.produced, outcome)
    BY <1>1, <1>4, <2>1, JudgedIs
  <2>3. /\ outcome \in {"running", "too few", "verified"} /\ outcome \in Outcome
        /\ outcome = "running" => r.at + 1 <= Len(Plan)
    BY <2>2 DEF Ends, Outcome
  <2>4. /\ f.outcome = outcome /\ f.at = r.at + 1 /\ f.asked = 0 /\ f.pair = r.pair
        /\ f.produced = r.produced /\ f.undisturbed = r.undisturbed /\ f \in RunType
    <3>1. /\ RunIs(f, outcome, r.at + 1, 0, r.pair, r.produced, r.undisturbed)
          /\ r.at + 1 \in 1..(Len(Plan) + 1) /\ 0 \in Nat /\ r.pair \in SUBSET Nat
          /\ r.produced \in SUBSET Nat /\ r.undisturbed \in BOOLEAN /\ outcome \in Outcome
      BY <1>1, <2>2, <2>3
    <3>2. f \in RunType
      BY <3>1, RunTypeOf, Zenon
    <3> QED BY <3>2, <2>2, <2>3 DEF RunIs
  <2>5. Ends(f.at, f.produced, f.outcome)
    BY <2>2, <2>4
  <2> QED BY <1>10, <2>3, <2>4, <2>5 DEF PolledMaker, PolledTaker, PolledRest
<1> QED BY <1>7, <1>8, <1>9, <1>10

-----------------------------------------------------------------------------
(* What goes on between two resets                                           *)

LEMMA OutcomeTrades ==
  ASSUME NEW os, NEW ts, NEW q, NEW r, NEW t \in OutcomeOf(os, ts, q, r).trades
  PROVE  t.command = q /\ t.symbol = r.symbol
<1> DEFINE of(made, i) ==
             [symbol |-> r.symbol, command |-> q, sequence |-> made[i].sequence,
              maker |-> made[i].maker, taker |-> q, price |-> made[i].price,
              quantity |-> made[i].quantity]
<1>1. \A changed, made : Changes("order_accepted", changed, made).trades = made
  BY DEF Changes
<1>2. \A changed : Changes("order_cancelled", changed, {}).trades = {}
  BY DEF Changes
<1>3. \A error : Raised(error).trades = {} /\ Rejection(error).trades = {}
  BY DEF Raised, Rejection
<1>4. CASE r.kind = "submit"
  <2>1. \/ SubmitOutcome(os, ts, q, r) = Raised("OutOfSequenceError")
        \/ \E changed, made :
              SubmitOutcome(os, ts, q, r) =
                 Changes("order_accepted", changed, {of(made, i) : i \in DOMAIN made})
    BY Zenon DEF SubmitOutcome
  <2>2. OutcomeOf(os, ts, q, r) = SubmitOutcome(os, ts, q, r)
    BY <1>4 DEF OutcomeOf
  <2>3. t \in SubmitOutcome(os, ts, q, r).trades
    BY <2>2
  <2>4. \E made, i : t = of(made, i)
    <3> HIDE DEF of
    <3>1. CASE SubmitOutcome(os, ts, q, r) = Raised("OutOfSequenceError")
      BY <1>3, <2>3, <3>1
    <3>2. ASSUME NEW changed, NEW made,
                 SubmitOutcome(os, ts, q, r) =
                    Changes("order_accepted", changed, {of(made, i) : i \in DOMAIN made})
          PROVE  \E i : t = of(made, i)
      <4>1. SubmitOutcome(os, ts, q, r).trades = {of(made, i) : i \in DOMAIN made}
        BY <1>1, <3>2
      <4> QED BY <2>3, <4>1
    <3> QED BY <2>1, <3>1, <3>2
  <2>5. PICK made, i : t = of(made, i)
    BY <2>4
  <2> QED BY <2>5
<1>5. CASE r.kind # "submit"
  <2>1. OutcomeOf(os, ts, q, r).trades = {}
    BY <1>2, <1>3, <1>5 DEF OutcomeOf, CancelOutcome
  <2> QED BY <2>1
<1> QED BY <1>4, <1>5

(* Commands stay, with their keys and requests, and stay finished; trades stay, *)
(* and new ones are of commands that were queued.                           *)
Grows(cs, ts, ds, us) ==
    /\ DOMAIN cs \subseteq DOMAIN ds
    /\ \A q \in DOMAIN cs :
          /\ ds[q].key = cs[q].key /\ ds[q].request = cs[q].request
          /\ cs[q].status # "queued" => ds[q].status = cs[q].status
    /\ ts \subseteq us
    /\ \A t \in us :
          t \notin ts => t.command \in DOMAIN cs /\ cs[t.command].status = "queued"

Sound(cs, ts) == KeysOnce(cs) /\ TradesFinished(cs, ts)

LEMMA GrowsDone ==
  ASSUME NEW cs, NEW ts, NEW ds, NEW us, Grows(cs, ts, ds, us), NEW n, Done(cs, n)
  PROVE  Done(ds, n)
  BY DEF Grows, Done

LEMMA GrowsNumbers ==
  ASSUME NEW cs, NEW ts, NEW ds, NEW us, Grows(cs, ts, ds, us), Sound(cs, ts),
         NEW n, Done(cs, n)
  PROVE  NumbersOf(ds, us, n) = NumbersOf(cs, ts, n)
<1>1. PICK q \in DOMAIN cs : cs[q].key = n /\ cs[q].status = "completed"
  BY DEF Done
<1>2. ASSUME NEW u \in us, ds[u.command].key = n
      PROVE  u \in ts /\ cs[u.command].key = n
  <2>1. u \in ts
    <3>1. SUFFICES ASSUME u \notin ts PROVE FALSE
      OBVIOUS
    <3>2. u.command \in DOMAIN cs /\ cs[u.command].status = "queued"
      BY <3>1 DEF Grows
    <3>3. cs[u.command].key = n
      BY <1>2, <3>2 DEF Grows
    <3> QED BY <1>1, <3>2, <3>3 DEF Sound, KeysOnce
  <2>2. u.command \in DOMAIN cs
    BY <2>1 DEF Sound, TradesFinished
  <2> QED BY <1>2, <2>1, <2>2 DEF Grows
<1>3. ASSUME NEW u \in ts, cs[u.command].key = n
      PROVE  u \in us /\ ds[u.command].key = n
  BY <1>3 DEF Sound, TradesFinished, Grows
<1>4. {u \in us : ds[u.command].key = n} = {u \in ts : cs[u.command].key = n}
  BY <1>2, <1>3
<1> QED BY <1>4 DEF NumbersOf

(* The places of a pair whose end is before n.                               *)
LEMMA PairBefore ==
  ASSUME NEW i \in DOMAIN Pairs, NEW n \in Nat, 2 * i < n
  PROVE  2 * i - 1 \in 1..(n - 1) /\ 2 * i \in 1..(n - 1)
  BY PlanIs

LEMMA GrowsPairs ==
  ASSUME NEW cs, NEW ts, NEW ds, NEW us, Grows(cs, ts, ds, us), Sound(cs, ts),
         NEW n \in Nat, \A m \in 1..(n - 1) : Done(cs, m)
  PROVE  /\ \A i \in DOMAIN Pairs :
               2 * i < n => PairNumbers(ds, us, i) = PairNumbers(cs, ts, i)
         /\ Got(ds, us, n) = Got(cs, ts, n)
<1>1. ASSUME NEW i \in DOMAIN Pairs, 2 * i < n
      PROVE  PairNumbers(ds, us, i) = PairNumbers(cs, ts, i)
  <2>1. Done(cs, 2 * i - 1) /\ Done(cs, 2 * i)
    BY <1>1, PairBefore
  <2>2. /\ NumbersOf(ds, us, 2 * i - 1) = NumbersOf(cs, ts, 2 * i - 1)
        /\ NumbersOf(ds, us, 2 * i) = NumbersOf(cs, ts, 2 * i)
    BY <2>1, GrowsNumbers
  <2> QED BY <2>2 DEF PairNumbers
<1>2. Got(ds, us, n) = Got(cs, ts, n)
  <2> DEFINE I == {j \in DOMAIN Pairs : 2 * j < n}
  <2>1. \A i \in I : PairNumbers(ds, us, i) = PairNumbers(cs, ts, i)
    BY <1>1
  <2>2. {PairNumbers(ds, us, i) : i \in I} = {PairNumbers(cs, ts, i) : i \in I}
    BY <2>1
  <2> QED BY <2>2 DEF Got
<1> QED BY <1>1, <1>2

LEMMA GrowsKnows ==
  ASSUME NEW cs, NEW ts, NEW ds, NEW us, Grows(cs, ts, ds, us), Sound(cs, ts),
         NEW r \in RunType, Knows(cs, ts, r)
  PROVE  Knows(ds, us, r)
<1>1. r.at \in Nat \ {0}
  BY PlanIs DEF RunType
<1>2. \A m \in 1..(r.at - 1) : Done(cs, m)
  BY DEF Knows
<1>3. \A m \in 1..(r.at - 1) : Done(ds, m)
  BY <1>2, GrowsDone
<1>4. r.asked # 0 => r.asked \in DOMAIN ds /\ ds[r.asked].key = r.at
  BY DEF Knows, Grows
<1>5. IsTaker(r.at) => r.pair = NumbersOf(ds, us, r.at - 1)
  <2> SUFFICES ASSUME IsTaker(r.at) PROVE r.pair = NumbersOf(ds, us, r.at - 1)
    OBVIOUS
  <2>1. r.at - 1 \in 1..(r.at - 1)
    BY <1>1 DEF IsTaker
  <2>2. NumbersOf(ds, us, r.at - 1) = NumbersOf(cs, ts, r.at - 1)
    BY <1>2, <2>1, GrowsNumbers
  <2> QED BY <2>2 DEF Knows
<1>6. /\ \A i \in DOMAIN Pairs :
            2 * i < r.at => PairNumbers(ds, us, i) = PairNumbers(cs, ts, i)
      /\ Got(ds, us, r.at) = Got(cs, ts, r.at)
  BY <1>1, <1>2, GrowsPairs
<1>7. Done(cs, r.at) => Done(ds, r.at) /\ NumbersOf(ds, us, r.at) = NumbersOf(cs, ts, r.at)
  BY GrowsDone, GrowsNumbers
<1>8. r.produced = Got(ds, us, r.at)
  BY <1>6 DEF Knows
<1>9. \A i \in DOMAIN Pairs : 2 * i < r.at => PairNumbers(ds, us, i) # {}
  BY <1>6 DEF Knows
<1>10. r.outcome = "no trade" =>
          IsTaker(r.at) /\ Done(ds, r.at) /\ NumbersOf(ds, us, r.at) = {}
  BY <1>7 DEF Knows
<1> QED BY <1>3, <1>4, <1>5, <1>8, <1>9, <1>10 DEF Knows

LEMMA GrowsThere ==
  ASSUME NEW cs, NEW ts, NEW ds, NEW us, Grows(cs, ts, ds, us), Sound(cs, ts), There(cs, ts)
  PROVE  There(ds, us)
<1> DEFINE n == Len(Plan) + 1
<1>1. /\ n \in Nat /\ 1..(n - 1) = DOMAIN Plan
      /\ \A i \in DOMAIN Pairs : 2 * i < n
  BY PlanIs
<1>2. \A m \in DOMAIN Plan : Done(cs, m) /\ Done(ds, m)
  BY GrowsDone DEF There
<1>3. \A m \in 1..(n - 1) : Done(cs, m)
  BY <1>1, <1>2
<1> HIDE DEF n
<1>4. /\ \A i \in DOMAIN Pairs :
            2 * i < n => PairNumbers(ds, us, i) = PairNumbers(cs, ts, i)
      /\ Got(ds, us, n) = Got(cs, ts, n)
  BY <1>1, <1>3, GrowsPairs
<1>5. \A i \in DOMAIN Pairs : PairNumbers(ds, us, i) # {}
  BY <1>1, <1>4 DEF There
<1>6. Cardinality(Got(ds, us, n)) >= Len(Pairs)
  BY <1>4 DEF There, n
<1> QED BY <1>2, <1>5, <1>6 DEF There, n

(* How they grow: an order is accepted, under a key that no command has.       *)
LEMMA ArrivalGrows ==
  ASSUME Inv, Sound(commands, trades), NEW key, NEW r,
         key \in Visitor \/ (key \in DOMAIN Plan /\ r = Plan[key]),
         J!Accept(key, r, last + 1), trades' = trades
  PROVE  /\ Grows(commands, trades, commands', trades') /\ Sound(commands', trades')
         /\ last + 1 \in DOMAIN commands' /\ commands'[last + 1].key = key
         /\ last + 1 \in Nat \ {0}
         /\ DOMAIN commands' = DOMAIN commands \cup {last + 1}
         /\ commands'[last + 1].status = "queued"
         /\ \A q \in DOMAIN commands : commands'[q] = commands[q]
<1> DEFINE s == last + 1
<1>1. s \notin DOMAIN commands /\ s \in Nat \ {0}
  BY DEF Inv, ControlTypes
<1>2. /\ DOMAIN commands' = DOMAIN commands \cup {s}
      /\ commands'[s].key = key /\ commands'[s].request = r
      /\ commands'[s].status = "queued"
      /\ \A q \in DOMAIN commands : commands'[q] = commands[q] /\ commands[q].key # key
  BY <1>1 DEF J!Accept, J!WithCommand, J!Queued, J!HasKey
<1> HIDE DEF s
<1>3. Grows(commands, trades, commands', trades')
  BY <1>2 DEF Grows
<1>4. KeysOnce(commands')
  BY <1>2 DEF Sound, KeysOnce
<1>5. TradesFinished(commands', trades')
  BY <1>2 DEF Sound, TradesFinished
<1> QED BY <1>1, <1>2, <1>3, <1>4, <1>5 DEF Sound, s

LEMMA InstallGrows ==
  ASSUME Inv, ReplayInv, Sound(commands, trades), NEW p \in Processor,
         phase[p] = "applied", Install(p)
  PROVE  Grows(commands, trades, commands', trades') /\ Sound(commands', trades')
<1> DEFINE q == claim[p]
           out == OutcomeOf(orders, trades, q, commands[q].request)
<1>1. /\ q \in QueuedSequences /\ q \in DOMAIN commands
      /\ pending[p].status \in {"completed", "rejected"}
  BY ClaimedIs DEF Inv, PendingIsNew, QueuedSequences
<1>2. /\ DOMAIN commands' = DOMAIN commands
      /\ \A s \in DOMAIN commands : s # q => commands'[s] = commands[s]
      /\ commands'[q].status = pending[p].status
      /\ commands'[q].request = commands[q].request /\ commands'[q].key = commands[q].key
  BY <1>1 DEF Inv, ControlTypes, Install, J!Finish, CommandRow
<1>3. trades' = trades \cup out.trades
  BY DEF Install, ReplayInv, FlushedIsOutcome
<1>4. \A t \in out.trades : t.command = q
  BY OutcomeTrades
<1> HIDE DEF q, out
<1>5. Grows(commands, trades, commands', trades')
  BY <1>1, <1>2, <1>3, <1>4 DEF Grows, QueuedSequences
<1>6. KeysOnce(commands')
  <2>1. \A s \in DOMAIN commands :
           commands'[s].key = commands[s].key /\ commands'[s].request = commands[s].request
    BY <1>2
  <2> QED BY <1>2, <2>1 DEF Sound, KeysOnce
<1>7. TradesFinished(commands', trades')
  <2> SUFFICES ASSUME NEW t \in trades'
               PROVE  t.command \in DOMAIN commands' /\ commands'[t.command].status # "queued"
    BY DEF TradesFinished
  <2>1. t \in trades \/ t.command = q
    BY <1>3, <1>4
  <2> QED BY <1>1, <1>2, <2>1 DEF Sound, TradesFinished
<1> QED BY <1>5, <1>6, <1>7 DEF Sound

LEMMA SameGrows ==
  ASSUME Sound(commands, trades), UNCHANGED <<commands, trades>>
  PROVE  Grows(commands, trades, commands', trades') /\ Sound(commands', trades')
  BY DEF Grows

LEMMA ProcessGrows ==
  ASSUME Inv, ReplayInv, Sound(commands, trades), NEW p \in Processor, ProcessorStep(p)
  PROVE  Grows(commands, trades, commands', trades') /\ Sound(commands', trades')
<1>1. CASE Commit(p)
  BY <1>1, InstallGrows DEF Commit, At
<1>2. CASE ~Commit(p)
  <2>1. UNCHANGED <<commands, trades>>
    BY <1>2 DEF ProcessorStep, TryLock, FindNothing, Claim, Apply, Publish, Retry, Start
  <2> QED BY <2>1, SameGrows
<1> QED BY <1>1, <1>2

-----------------------------------------------------------------------------
(* What the runs know                                                        *)

LEMMA NowThere ==
  ASSUME NEW cs, NEW ts, NEW f \in RunType, Knows(cs, ts, f), f.outcome = "verified"
  PROVE  There(cs, ts)
<1>1. f.at = Len(Plan) + 1 /\ Cardinality(f.produced) >= Len(Pairs)
      /\ f.produced = Got(cs, ts, f.at)
  BY DEF Knows
<1>2. 1..(f.at - 1) = DOMAIN Plan /\ \A i \in DOMAIN Pairs : 2 * i < f.at
  BY <1>1, PlanIs
<1> QED BY <1>1, <1>2 DEF Knows, There

LEMMA BeginIs ==
  RunIs([NotStarted EXCEPT !.outcome = "running", !.undisturbed = TRUE],
        "running", 1, 0, {}, {}, TRUE)
<1> DEFINE g == [NotStarted EXCEPT !.outcome = "running", !.undisturbed = TRUE]
           begun == [outcome |-> "running", at |-> 1, asked |-> 0, pair |-> {},
                     produced |-> {}, undisturbed |-> TRUE]
<1>1. /\ DOMAIN NotStarted = {"outcome", "at", "asked", "pair", "produced", "undisturbed"}
      /\ NotStarted.at = 1 /\ NotStarted.asked = 0 /\ NotStarted.pair = {}
      /\ NotStarted.produced = {}
  BY DEF NotStarted
<1>2. /\ DOMAIN g = DOMAIN NotStarted
      /\ g.outcome = "running" /\ g.at = 1 /\ g.asked = 0 /\ g.pair = {}
      /\ g.produced = {} /\ g.undisturbed = TRUE
  BY <1>1
<1>3. g = [field \in DOMAIN NotStarted |-> g[field]]
  OBVIOUS
<1> HIDE DEF g
<1>4. g = begun
  BY <1>1, <1>2, <1>3
<1> QED BY <1>4 DEF RunIs, g

LEMMA BeginKnows ==
  ASSUME NEW cs, NEW ts, NEW f, RunIs(f, "running", 1, 0, {}, {}, TRUE)
  PROVE  /\ f \in RunType /\ f.at = 1 /\ f.outcome = "running" /\ f.undisturbed
         /\ Knows(cs, ts, f)
<1>1. /\ f.outcome = "running" /\ f.at = 1 /\ f.asked = 0 /\ f.pair = {}
      /\ f.produced = {} /\ f.undisturbed = TRUE
  BY RunFields
<1>2. /\ 1 \in 1..(Len(Plan) + 1) /\ 0 \in Nat /\ {} \in SUBSET Nat /\ TRUE \in BOOLEAN
      /\ "running" \in Outcome
  BY PlanIs DEF Outcome
<1>3. f \in RunType
  BY <1>2, RunTypeOf, Zenon
<1>4. \A i \in DOMAIN Pairs : ~(2 * i < 1)
  BY PlanIs
<1>5. {j \in DOMAIN Pairs : 2 * j < 1} = {}
  BY <1>4
<1>6. Got(cs, ts, 1) = {}
  BY <1>5 DEF Got
<1>7. ~IsTaker(1) /\ 1..(1 - 1) = {}
  BY DEF IsTaker
<1>8. Knows(cs, ts, f)
  BY <1>1, <1>4, <1>6, <1>7 DEF Knows
<1> QED BY <1>1, <1>3, <1>8

(* A run that differs in what it waits for, or has failed.                    *)
LEMMA AskedKnows ==
  ASSUME NEW cs, NEW ts, NEW r \in RunType, Knows(cs, ts, r),
         NEW q \in Nat, q \in DOMAIN cs /\ cs[q].key = r.at,
         NEW f, f = [r EXCEPT !.asked = q]
  PROVE  Knows(cs, ts, f)
<1>1. /\ f.asked = q /\ f.at = r.at /\ f.pair = r.pair /\ f.produced = r.produced
      /\ f.outcome = r.outcome
  BY DEF RunType
<1> QED BY <1>1 DEF Knows

LEMMA FailedKnows ==
  ASSUME NEW cs, NEW ts, NEW r \in RunType, Knows(cs, ts, r),
         NEW f, f = [r EXCEPT !.outcome = "failed"]
  PROVE  Knows(cs, ts, f)
<1>1. /\ f.asked = r.asked /\ f.at = r.at /\ f.pair = r.pair /\ f.produced = r.produced
      /\ f.outcome = "failed"
  BY DEF RunType
<1> QED BY <1>1 DEF Knows

(* The end of a pair, and the places where none ends.                        *)
LEMMA GotPair ==
  ASSUME NEW cs, NEW ts, NEW n \in Nat, NEW i \in DOMAIN Pairs, n = 2 * i
  PROVE  Got(cs, ts, n + 1) = Got(cs, ts, n) \cup PairNumbers(cs, ts, i)
<1>1. {j \in DOMAIN Pairs : 2 * j < n + 1} = {j \in DOMAIN Pairs : 2 * j < n} \cup {i}
  BY PlanIs
<1> QED BY <1>1 DEF Got

LEMMA GotSame ==
  ASSUME NEW cs, NEW ts, NEW n \in Nat, \A j \in DOMAIN Pairs : n # 2 * j
  PROVE  /\ Got(cs, ts, n + 1) = Got(cs, ts, n)
         /\ \A j \in DOMAIN Pairs : 2 * j < n + 1 => 2 * j < n
<1>1. \A j \in DOMAIN Pairs : 2 * j < n + 1 <=> 2 * j < n
  BY PlanIs
<1>2. {j \in DOMAIN Pairs : 2 * j < n + 1} = {j \in DOMAIN Pairs : 2 * j < n}
  BY <1>1
<1> QED BY <1>1, <1>2 DEF Got

LEMMA PlacesAre ==
  ASSUME NEW n \in Nat \ {0}
  PROVE  /\ IsTaker(n) => ~IsTaker(n + 1) /\ \E i \in DOMAIN Pairs : n = 2 * i
         /\ ~IsTaker(n) => \A j \in DOMAIN Pairs : n # 2 * j
         /\ ~IsMaker(n) /\ ~IsTaker(n) => ~IsTaker(n + 1)
         /\ IsMaker(n) => IsTaker(n + 1)
<1>1. Len(Pairs) \in Nat \ {0} /\ DOMAIN Pairs = 1..Len(Pairs)
  BY PlanIs
<1>2. IsTaker(n) => ~IsTaker(n + 1) /\ \E i \in DOMAIN Pairs : n = 2 * i
  <2> SUFFICES ASSUME IsTaker(n) PROVE ~IsTaker(n + 1) /\ \E i \in DOMAIN Pairs : n = 2 * i
    OBVIOUS
  <2>1. n % 2 = 0 /\ n <= 2 * Len(Pairs)
    BY DEF IsTaker
  <2>2. PICK i \in Nat : n = 2 * i
    BY <2>1, Parity
  <2>3. i \in DOMAIN Pairs
    BY <1>1, <2>1, <2>2
  <2>4. (n + 1) % 2 = 1
    BY <2>1, Parity
  <2> QED BY <2>2, <2>3, <2>4 DEF IsTaker
<1>3. ~IsTaker(n) => \A j \in DOMAIN Pairs : n # 2 * j
  <2> SUFFICES ASSUME NEW j \in DOMAIN Pairs, n = 2 * j PROVE IsTaker(n)
    OBVIOUS
  <2>1. n % 2 = 0 /\ n <= 2 * Len(Pairs)
    BY <1>1
  <2> QED BY <2>1 DEF IsTaker
<1>4. ~IsMaker(n) /\ ~IsTaker(n) => ~IsTaker(n + 1)
  BY <1>1, Parity DEF IsMaker, IsTaker
<1>5. IsMaker(n) => IsTaker(n + 1)
  <2> SUFFICES ASSUME IsMaker(n) PROVE IsTaker(n + 1)
    OBVIOUS
  <2>1. n % 2 = 1 /\ n <= 2 * Len(Pairs) /\ (n + 1) % 2 = 0
    BY Parity DEF IsMaker
  <2>2. n + 1 <= 2 * Len(Pairs)
    BY <1>1, <2>1
  <2> QED BY <2>1, <2>2 DEF IsTaker
<1> QED BY <1>2, <1>3, <1>4, <1>5

LEMMA EndsAre ==
  ASSUME NEW at \in 1..(Len(Plan) + 1), NEW produced, NEW outcome,
         Ends(at, produced, outcome)
  PROVE  /\ outcome \in {"verified", "too few"} => at = Len(Plan) + 1
         /\ outcome = "verified" => Cardinality(produced) >= Len(Pairs)
         /\ outcome = "too few" => ~(Cardinality(produced) >= Len(Pairs))
         /\ outcome # "no trade"
<1>1. at <= Len(Plan) \/ at = Len(Plan) + 1
  BY PlanIs
<1>2. outcome \in {"verified", "too few"} => ~(at <= Len(Plan))
  BY DEF Ends
<1> QED BY <1>1, <1>2 DEF Ends

LEMMA PolledKnows ==
  ASSUME NEW cs, NEW ts, NEW r \in RunType, r.outcome = "running", r.at <= Len(Plan),
         Knows(cs, ts, r), Done(cs, r.at),
         NEW numbers \in SUBSET Nat, numbers = NumbersOf(cs, ts, r.at),
         NEW f, Polled(f, r, numbers)
  PROVE  Knows(cs, ts, f)
<1>1. /\ f \in RunType /\ f.outcome \in {"running", "no trade", "too few", "verified"}
      /\ PolledMaker(r, numbers, f) /\ PolledTaker(r, numbers, f) /\ PolledRest(r, f)
  BY PolledIs
<1>2. r.at \in Nat \ {0} /\ f.at \in 1..(Len(Plan) + 1) /\ Len(Plan) \in Nat
  <2>1. r.at \in 1..(Len(Plan) + 1) /\ f.at \in 1..(Len(Plan) + 1)
    BY <1>1 DEF RunType
  <2> QED BY <2>1, PlanIs
<1>3. /\ \A n \in 1..r.at : Done(cs, n)
      /\ r.produced = Got(cs, ts, r.at)
      /\ \A i \in DOMAIN Pairs : 2 * i < r.at => PairNumbers(cs, ts, i) # {}
  BY <1>2 DEF Knows
<1>4. CASE IsMaker(r.at)
  <2>1. /\ f.at = r.at + 1 /\ f.asked = 0 /\ f.pair = numbers
        /\ f.produced = r.produced /\ f.outcome = "running"
    BY <1>1, <1>4 DEF PolledMaker
  <2>2. ~IsTaker(r.at)
    BY <1>4 DEF IsMaker, IsTaker
  <2>3. \A j \in DOMAIN Pairs : r.at # 2 * j
    BY <1>2, <2>2, PlacesAre
  <2>4. /\ Got(cs, ts, r.at + 1) = Got(cs, ts, r.at)
        /\ \A j \in DOMAIN Pairs : 2 * j < r.at + 1 => 2 * j < r.at
    BY <1>2, <2>3, GotSame
  <2>5. f.at - 1 = r.at
    BY <1>2, <2>1
  <2> QED BY <1>3, <2>1, <2>4, <2>5 DEF Knows
<1>5. CASE IsTaker(r.at) /\ r.pair \cup numbers = {}
  <2>1. /\ f.at = r.at /\ f.asked = r.asked /\ f.pair = r.pair
        /\ f.produced = r.produced /\ f.outcome = "no trade"
    BY <1>1, <1>5 DEF PolledTaker
  <2> QED BY <1>5, <2>1 DEF Knows
<1>6. CASE IsTaker(r.at) /\ r.pair \cup numbers # {}
  <2>1. /\ f.at = r.at + 1 /\ f.asked = 0
        /\ f.produced = r.produced \cup (r.pair \cup numbers)
        /\ Ends(f.at, f.produced, f.outcome)
    BY <1>1, <1>6 DEF PolledTaker
  <2>2. ~IsTaker(r.at + 1)
    BY <1>2, <1>6, PlacesAre
  <2>3. PICK i \in DOMAIN Pairs : r.at = 2 * i
    BY <1>2, <1>6, PlacesAre
  <2>4. r.pair = NumbersOf(cs, ts, 2 * i - 1) /\ numbers = NumbersOf(cs, ts, 2 * i)
    BY <1>6, <2>3 DEF Knows
  <2>5. r.pair \cup numbers = PairNumbers(cs, ts, i)
    BY <2>4 DEF PairNumbers
  <2>6. f.produced = Got(cs, ts, f.at)
    BY <1>2, <1>3, <2>1, <2>3, <2>5, GotPair
  <2>7. \A j \in DOMAIN Pairs : 2 * j < f.at => PairNumbers(cs, ts, j) # {}
    <3> SUFFICES ASSUME NEW j \in DOMAIN Pairs, 2 * j < f.at
                 PROVE  PairNumbers(cs, ts, j) # {}
      OBVIOUS
    <3>1. 2 * j < r.at \/ j = i
      BY <1>2, <2>1, <2>3, PlanIs
    <3> QED BY <1>3, <1>6, <2>5, <3>1
  <2>8. f.at - 1 = r.at
    BY <1>2, <2>1
  <2>9. /\ f.outcome \in {"verified", "too few"} => f.at = Len(Plan) + 1
        /\ f.outcome = "verified" => Cardinality(f.produced) >= Len(Pairs)
        /\ f.outcome = "too few" => ~(Cardinality(f.produced) >= Len(Pairs))
        /\ f.outcome # "no trade"
    BY <1>2, <2>1, EndsAre
  <2> QED BY <1>3, <2>1, <2>2, <2>6, <2>7, <2>8, <2>9 DEF Knows
<1>7. CASE ~IsMaker(r.at) /\ ~IsTaker(r.at)
  <2>1. /\ f.at = r.at + 1 /\ f.asked = 0 /\ f.produced = r.produced
        /\ Ends(f.at, f.produced, f.outcome)
    BY <1>1, <1>7 DEF PolledRest
  <2>2. ~IsTaker(r.at + 1) /\ \A j \in DOMAIN Pairs : r.at # 2 * j
    BY <1>2, <1>7, PlacesAre
  <2>3. /\ Got(cs, ts, r.at + 1) = Got(cs, ts, r.at)
        /\ \A j \in DOMAIN Pairs : 2 * j < r.at + 1 => 2 * j < r.at
    BY <1>2, <2>2, GotSame
  <2>4. f.at - 1 = r.at
    BY <1>2, <2>1
  <2>5. /\ f.outcome \in {"verified", "too few"} => f.at = Len(Plan) + 1
        /\ f.outcome = "verified" => Cardinality(f.produced) >= Len(Pairs)
        /\ f.outcome = "too few" => ~(Cardinality(f.produced) >= Len(Pairs))
        /\ f.outcome # "no trade"
    BY <1>2, <2>1, EndsAre
  <2> QED BY <1>3, <2>1, <2>2, <2>3, <2>4, <2>5 DEF Knows
<1> QED BY <1>4, <1>5, <1>6, <1>7

-----------------------------------------------------------------------------
(* It is known in every state                                                *)

SeedInv == Inv /\ ReplayInv /\ LedgerInv /\ RunsInv

Grew == Grows(commands, trades, commands', trades') /\ Sound(commands', trades')

LEMMA SoundHere == ASSUME RunsInv PROVE Sound(commands, trades)
  BY DEF RunsInv, Sound

(* A step after which one run is f, or no run has changed.                    *)
LEMMA RunMoves ==
  ASSUME RunsInv, Grew, NEW d \in Seeder, NEW f \in RunType, run' = [run EXCEPT ![d] = f],
         f.outcome = "running" => f.at <= Len(Plan),
         f.undisturbed => Knows(commands', trades', f),
         late' \subseteq DOMAIN Plan, verified' \in BOOLEAN,
         verified' => verified \/ There(commands', trades')
  PROVE  RunsInv'
<1>1. /\ run \in [Seeder -> RunType] /\ Sound(commands, trades)
      /\ \A o \in Seeder : run'[o] = IF o = d THEN f ELSE run[o]
      /\ run' \in [Seeder -> RunType]
  BY SoundHere DEF RunsInv, RunsTyped
<1>2. RunsTyped'
  BY <1>1 DEF RunsInv, RunsTyped, Running
<1>3. KeysOnce(commands)' /\ TradesFinished(commands, trades)'
  BY DEF Grew, Sound
<1>4. ASSUME NEW o \in Seeder, run'[o].undisturbed
      PROVE  Knows(commands', trades', run'[o])
  <2>1. CASE o = d
    BY <1>1, <1>4, <2>1
  <2>2. CASE o # d
    <3>1. run'[o] = run[o] /\ run[o] \in RunType
      BY <1>1, <2>2
    <3>2. Knows(commands, trades, run[o])
      BY <1>4, <3>1 DEF RunsInv
    <3>3. Knows(commands', trades', run[o])
      BY <1>1, <3>1, <3>2, GrowsKnows DEF Grew
    <3> QED BY <3>1, <3>3
  <2> QED BY <2>1, <2>2
<1>5. verified' => There(commands', trades')
  <2> SUFFICES ASSUME verified' PROVE There(commands', trades')
    OBVIOUS
  <2>1. CASE verified
    BY <1>1, <2>1, GrowsThere DEF Grew, RunsInv
  <2>2. CASE ~verified
    BY <2>2
  <2> QED BY <2>1, <2>2
<1>6. \A o \in Seeder : (run[o].undisturbed => Knows(commands, trades, run[o]))'
  BY <1>4
<1> QED BY <1>2, <1>3, <1>5, <1>6 DEF RunsInv

LEMMA RunsStay ==
  ASSUME RunsInv, Grew, run' = run, verified' = verified, late' \subseteq DOMAIN Plan
  PROVE  RunsInv'
<1>1. /\ run \in [Seeder -> RunType] /\ Sound(commands, trades)
  BY SoundHere DEF RunsInv, RunsTyped
<1>2. RunsTyped'
  BY DEF RunsInv, RunsTyped, Running
<1>3. KeysOnce(commands)' /\ TradesFinished(commands, trades)'
  BY DEF Grew, Sound
<1>4. ASSUME NEW o \in Seeder, run[o].undisturbed
      PROVE  Knows(commands', trades', run[o])
  <2>1. Knows(commands, trades, run[o]) /\ run[o] \in RunType
    BY <1>1, <1>4 DEF RunsInv
  <2> QED BY <1>1, <2>1, GrowsKnows DEF Grew
<1>5. verified => There(commands', trades')
  BY <1>1, GrowsThere DEF Grew, RunsInv
<1>6. \A o \in Seeder : (run[o].undisturbed => Knows(commands, trades, run[o]))'
  BY <1>4
<1> QED BY <1>2, <1>3, <1>5, <1>6 DEF RunsInv

LEMMA ArriveGrows == ASSUME SeedInv, NEW n \in DOMAIN Plan, Arrive(n)
  PROVE  Grew /\ last + 1 \in DOMAIN commands' /\ commands'[last + 1].key = n
         /\ last + 1 \in Nat
<1>1. J!Accept(n, Plan[n], last + 1) /\ trades' = trades
  BY DEF Arrive
<1>2. Inv /\ Sound(commands, trades)
  BY SoundHere DEF SeedInv
<1> QED BY <1>1, <1>2, ArrivalGrows DEF Grew

LEMMA QuietGrows == ASSUME SeedInv, UNCHANGED pvars PROVE Grew
  BY SoundHere, SameGrows DEF SeedInv, Grew, pvars

LEMMA BeginKeeps == ASSUME SeedInv, NEW d \in Seeder, Begin(d) PROVE RunsInv'
<1>1. PICK f : /\ f = [NotStarted EXCEPT !.outcome = "running", !.undisturbed = TRUE]
               /\ run' = [run EXCEPT ![d] = f]
  BY DEF Begin, Become
<1>2. RunIs(f, "running", 1, 0, {}, {}, TRUE)
  BY <1>1, BeginIs
<1>3. f \in RunType /\ f.at = 1 /\ Knows(commands', trades', f)
  BY <1>2, BeginKnows
<1>4. Grew /\ UNCHANGED <<late, verified>>
  BY QuietGrows DEF Begin
<1>5. 1 <= Len(Plan)
  BY PlanIs
<1>6. RunsInv /\ late \subseteq DOMAIN Plan /\ verified \in BOOLEAN
  BY DEF SeedInv, RunsInv, RunsTyped
<1> QED BY <1>1, <1>3, <1>4, <1>5, <1>6, RunMoves

LEMMA PostKeeps == ASSUME SeedInv, NEW d \in Seeder, Post(d) PROVE RunsInv'
<1> DEFINE r == run[d]
<1>1. /\ RunsInv /\ r \in RunType /\ r.outcome = "running" /\ r.at <= Len(Plan)
      /\ late \subseteq DOMAIN Plan /\ verified \in BOOLEAN
  BY DEF SeedInv, RunsInv, RunsTyped, Post, Running
<1>2. r.at \in DOMAIN Plan
  BY <1>1, PlanIs DEF RunType
<1>3. PICK q \in Nat : /\ run' = [run EXCEPT ![d] = [r EXCEPT !.asked = q]] /\ Grew
                       /\ q \in DOMAIN commands' /\ commands'[q].key = r.at
  <2>1. CASE Arrive(r.at) /\ Become(d, [r EXCEPT !.asked = last + 1])
    BY <1>2, <2>1, ArriveGrows DEF Become
  <2>2. ASSUME NEW q \in DOMAIN commands, commands[q].key = r.at,
               Become(d, [r EXCEPT !.asked = q]), UNCHANGED pvars
        PROVE  /\ q \in Nat /\ run' = [run EXCEPT ![d] = [r EXCEPT !.asked = q]] /\ Grew
               /\ q \in DOMAIN commands' /\ commands'[q].key = r.at
    <3>1. q \in Nat /\ Grew
      BY <2>2, QuietGrows DEF SeedInv, Inv, ControlTypes
    <3> QED BY <2>2, <3>1 DEF Become, pvars
  <2> QED BY <2>1, <2>2 DEF Post
<1>4. PICK f : f = [r EXCEPT !.asked = q]
  OBVIOUS
<1>5. f \in RunType /\ f.at = r.at /\ f.undisturbed = r.undisturbed
  BY <1>1, <1>4 DEF RunType
<1>6. f.undisturbed => Knows(commands', trades', f)
  <2> SUFFICES ASSUME r.undisturbed PROVE Knows(commands', trades', f)
    BY <1>5
  <2>1. Knows(commands, trades, r) /\ Sound(commands, trades)
    BY <1>1, SoundHere DEF RunsInv
  <2> HIDE DEF r
  <2>2. Knows(commands', trades', r)
    BY <1>1, <1>3, <2>1, GrowsKnows DEF Grew
  <2> QED BY <1>1, <1>3, <1>4, <2>2, AskedKnows
<1>7. UNCHANGED <<late, verified>>
  BY DEF Post
<1>8. run' = [run EXCEPT ![d] = f]
  BY <1>3, <1>4
<1> HIDE DEF r
<1> QED BY <1>1, <1>3, <1>5, <1>6, <1>7, <1>8, RunMoves

LEMMA GiveUpKeeps == ASSUME SeedInv, NEW d \in Seeder, GiveUp(d) PROVE RunsInv'
<1> DEFINE r == run[d]
<1>1. /\ RunsInv /\ r \in RunType /\ r.at <= Len(Plan)
      /\ late \subseteq DOMAIN Plan /\ verified \in BOOLEAN
  BY DEF SeedInv, RunsInv, RunsTyped, GiveUp, Running
<1>2. r.at \in DOMAIN Plan
  BY <1>1, PlanIs DEF RunType
<1>3. late' \subseteq DOMAIN Plan /\ verified' = verified
  BY <1>1, <1>2 DEF GiveUp
<1>4. PICK f : f = [r EXCEPT !.outcome = "failed"]
  OBVIOUS
<1>5. /\ f \in RunType /\ f.outcome = "failed" /\ f.undisturbed = r.undisturbed
  BY <1>1, <1>4 DEF RunType, Outcome
<1>6. UNCHANGED pvars /\ Grew /\ commands' = commands /\ trades' = trades
  BY QuietGrows DEF GiveUp, pvars
<1>7. f.undisturbed => Knows(commands', trades', f)
  <2> SUFFICES ASSUME r.undisturbed PROVE Knows(commands, trades, f)
    BY <1>5, <1>6
  <2>1. Knows(commands, trades, r)
    BY <1>1 DEF RunsInv
  <2> HIDE DEF r
  <2> QED BY <1>1, <1>4, <2>1, FailedKnows
<1>8. run' = [run EXCEPT ![d] = f]
  BY <1>4 DEF GiveUp, Become
<1> HIDE DEF r
<1> QED BY <1>1, <1>3, <1>5, <1>6, <1>7, <1>8, RunMoves

(* The trades in a command's result are those of its order.                   *)
LEMMA ResultIs ==
  ASSUME SeedInv, NEW q \in DOMAIN commands
  PROVE  TradesBy(q) = NumbersOf(commands, trades, commands[q].key)
         /\ TradesBy(q) \in SUBSET Nat
<1>1. KeysOnce(commands) /\ TradesFinished(commands, trades)
  BY DEF SeedInv, RunsInv
<1>2. {u \in trades : u.command = q}
         = {u \in trades : commands[u.command].key = commands[q].key}
  BY <1>1 DEF KeysOnce, TradesFinished
<1>3. trades \subseteq TradeRow
  BY DEF SeedInv, LedgerInv, Ledger, TradesOk
<1>4. \A t \in trades : t.sequence \in Nat
  BY <1>3 DEF TradeRow
<1> QED BY <1>2, <1>4 DEF TradesBy, NumbersOf

LEMMA PolledRun ==
  ASSUME SeedInv, NEW d \in Seeder, Poll(d)
  PROVE  /\ UNCHANGED pvars
         /\ \E numbers \in SUBSET Nat, f \in RunType :
              /\ numbers = NumbersOf(commands, trades, run[d].at) \/ ~run[d].undisturbed
              /\ Done(commands, run[d].at) \/ ~run[d].undisturbed
              /\ Polled(f, run[d], numbers)
              /\ run' = [run EXCEPT ![d] = f]
              /\ verified' = (verified \/ (f.outcome = "verified" /\ f.undisturbed))
<1> DEFINE r == run[d]
<1>1. /\ r \in RunType /\ r.outcome = "running" /\ r.at <= Len(Plan)
      /\ r.asked \in DOMAIN commands /\ commands[r.asked].status = "completed"
      /\ r.undisturbed => Knows(commands, trades, r)
  BY DEF SeedInv, RunsInv, RunsTyped, Poll, Running
<1>2. r.asked # 0
  BY <1>1 DEF SeedInv, Inv, ControlTypes
<1>3. r.undisturbed => commands[r.asked].key = r.at
  BY <1>1, <1>2 DEF Knows
<1>4. PICK numbers \in SUBSET Nat :
         /\ numbers = TradesBy(r.asked)
         /\ numbers = NumbersOf(commands, trades, commands[r.asked].key)
  BY <1>1, ResultIs
<1>5. PICK f : f = Judged(Onward(r, numbers))
  OBVIOUS
<1>6. Polled(f, r, numbers)
  BY <1>5 DEF Polled
<1>7. f \in RunType
  <2> HIDE DEF r
  <2> QED BY <1>1, <1>6, PolledIs
<1>8. /\ run' = [run EXCEPT ![d] = f]
      /\ verified' = (verified \/ (f.outcome = "verified" /\ f.undisturbed))
  BY <1>4, <1>5 DEF Poll, Become
<1>9. r.undisturbed => Done(commands, r.at)
  BY <1>1, <1>3 DEF Done
<1>10. UNCHANGED pvars
  BY DEF Poll
<1> QED BY <1>3, <1>4, <1>6, <1>7, <1>8, <1>9, <1>10

LEMMA PollKeeps == ASSUME SeedInv, NEW d \in Seeder, Poll(d) PROVE RunsInv'
<1> DEFINE r == run[d]
<1>1. /\ RunsInv /\ r \in RunType /\ r.outcome = "running" /\ r.at <= Len(Plan)
      /\ late \subseteq DOMAIN Plan /\ verified \in BOOLEAN
      /\ r.undisturbed => Knows(commands, trades, r)
  BY DEF SeedInv, RunsInv, RunsTyped, Poll, Running
<1>2. Grew /\ commands' = commands /\ trades' = trades /\ late' = late
  BY PolledRun, QuietGrows DEF pvars, Poll
<1>3. PICK numbers \in SUBSET Nat, f \in RunType :
         /\ numbers = NumbersOf(commands, trades, r.at) \/ ~r.undisturbed
         /\ Done(commands, r.at) \/ ~r.undisturbed
         /\ Polled(f, r, numbers)
         /\ run' = [run EXCEPT ![d] = f]
         /\ verified' = (verified \/ (f.outcome = "verified" /\ f.undisturbed))
  BY PolledRun
<1> HIDE DEF r
<1>4. f.undisturbed = r.undisturbed /\ (f.outcome = "running" => f.at <= Len(Plan))
  BY <1>1, <1>3, PolledIs
<1>5. f.undisturbed => Knows(commands, trades, f)
  BY <1>1, <1>3, <1>4, PolledKnows
<1>6. verified' => verified \/ There(commands', trades')
  BY <1>2, <1>3, <1>5, NowThere
<1>7. f.undisturbed \in BOOLEAN /\ verified' \in BOOLEAN
  BY <1>1, <1>3 DEF RunType
<1>8. f.undisturbed => Knows(commands', trades', f)
  BY <1>2, <1>5
<1>9. late' \subseteq DOMAIN Plan
  BY <1>1, <1>2
<1> QED BY <1>1, <1>2, <1>3, <1>4, <1>6, <1>7, <1>8, <1>9, RunMoves

LEMMA MaintainKeeps == ASSUME SeedInv, Maintain PROVE RunsInv'
<1>1. /\ commands' = J!NoCommands /\ trades' = {} /\ verified' = FALSE /\ late' = late
      /\ run' = [d \in Seeder |-> [run[d] EXCEPT !.undisturbed = FALSE]]
  BY DEF Maintain, Reset, J!Erase
<1>2. DOMAIN commands' = {}
  BY <1>1 DEF J!NoCommands
<1>3. ASSUME NEW d \in Seeder
      PROVE  /\ run'[d] \in RunType /\ run'[d].undisturbed = FALSE
             /\ run'[d].at = run[d].at /\ run'[d].outcome = run[d].outcome
  <2>1. run[d] \in RunType
    BY DEF SeedInv, RunsInv, RunsTyped
  <2> QED BY <1>1, <2>1 DEF RunType
<1>4. RunsTyped'
  BY <1>1, <1>3 DEF SeedInv, RunsInv, RunsTyped, Running
<1>5. KeysOnce(commands)' /\ TradesFinished(commands, trades)'
  BY <1>1, <1>2 DEF KeysOnce, TradesFinished
<1> QED BY <1>1, <1>3, <1>4, <1>5 DEF RunsInv

LEMMA RunsKeep == SeedInv /\ [SeedNext]_svars => RunsInv'
<1> SUFFICES ASSUME SeedInv, [SeedNext]_svars PROVE RunsInv'
  OBVIOUS
<1>1. RunsInv /\ Inv /\ ReplayInv /\ Sound(commands, trades) /\ late \subseteq DOMAIN Plan
  BY SoundHere DEF SeedInv, RunsInv, RunsTyped
<1>2. ASSUME NEW n \in late, ArriveLate(n) PROVE RunsInv'
  <2>1. run' = run /\ verified' = verified /\ late' \subseteq DOMAIN Plan
    BY <1>1, <1>2 DEF ArriveLate
  <2>2. Grew
    BY <1>1, <1>2, ArriveGrows, QuietGrows DEF ArriveLate
  <2> QED BY <1>1, <2>1, <2>2, RunsStay
<1>3. CASE Visit
  <2>1. UNCHANGED client /\ trades' = trades
    BY <1>3 DEF Visit
  <2>2. PICK key \in Visitor, r \in VisitorRequest : J!Accept(key, r, last + 1)
    BY <1>3 DEF Visit
  <2>3. Grew
    BY <1>1, <2>1, <2>2, ArrivalGrows DEF Grew
  <2> QED BY <1>1, <2>1, <2>3, RunsStay DEF client
<1>4. ASSUME NEW p \in Processor, Process(p) PROVE RunsInv'
  <2>1. Grew /\ UNCHANGED client
    BY <1>1, <1>4, ProcessGrows DEF Process, Grew
  <2> QED BY <1>1, <2>1, RunsStay DEF client
<1>5. CASE UNCHANGED svars
  <2>1. Grew /\ UNCHANGED client
    BY <1>5, QuietGrows DEF svars
  <2> QED BY <1>1, <2>1, RunsStay DEF client
<1> QED
  BY <1>2, <1>3, <1>4, <1>5, BeginKeeps, PostKeeps, PollKeeps, GiveUpKeeps, MaintainKeeps
  DEF SeedNext

LEMMA SeedInvHolds == SeedSpec => []SeedInv
<1>1. SeedInit => SeedInv
  <2> SUFFICES ASSUME SeedInit PROVE SeedInv
    OBVIOUS
  <2>1. Inv
    BY InitInv DEF SeedInit
  <2>2. ReplayInv /\ LedgerInv
    BY InitLedger DEF SeedInit
  <2>3. DOMAIN commands = {} /\ trades = {}
    BY DEF SeedInit, Init, J!Init, J!NoCommands
  <2>4. /\ NotStarted \in RunType /\ NotStarted.outcome = "none"
        /\ NotStarted.undisturbed = FALSE
    BY PlanIs DEF NotStarted, RunType, Outcome
  <2>5. \A d \in Seeder : run[d] = NotStarted
    BY DEF SeedInit
  <2>6. run \in [Seeder -> RunType] /\ late = {} /\ verified = FALSE
    BY <2>4 DEF SeedInit
  <2>7. RunsTyped
    BY <2>4, <2>5, <2>6 DEF RunsTyped, Running
  <2>8. KeysOnce(commands) /\ TradesFinished(commands, trades)
    BY <2>3 DEF KeysOnce, TradesFinished
  <2> QED BY <2>1, <2>2, <2>4, <2>5, <2>6, <2>7, <2>8 DEF SeedInv, RunsInv
<1>2. SeedInv /\ [SeedNext]_svars => [Next]_pvars
  BY SeedStepIs DEF SeedInv, RunsInv
<1>3. SeedInv /\ [SeedNext]_svars => SeedInv'
  <2>1. SeedInv /\ [Next]_pvars => (Inv /\ ReplayInv /\ LedgerInv)'
    BY NextKeepsInv, ReplayStays, LedgerStays DEF SeedInv
  <2> QED BY <1>2, <2>1, RunsKeep DEF SeedInv
<1> QED BY <1>1, <1>3, PTL DEF SeedSpec

(* Whatever the seed client, visitors and maintenance do, the processors have   *)
(* a behaviour of CommandProcessor: all that is proved of it holds here too.    *)
THEOREM SeedRunsProcessor == SeedSpec => Spec
<1>1. SeedInv /\ [SeedNext]_svars => [Next]_pvars
  BY SeedStepIs DEF SeedInv, RunsInv
<1>2. SeedInit => Init
  BY DEF SeedInit
<1> QED BY <1>1, <1>2, SeedInvHolds, PTL DEF SeedSpec, Spec

(* When seed_market returns, and no reset came in between, its trades are in     *)
(* the tables, one at least for each pair with an order of the pair, however    *)
(* visitors traded with its orders.                                         *)
THEOREM SeedVerifiedIsThere == SeedSpec => []VerifiedIsThere
<1>1. SeedInv => VerifiedIsThere
  <2> SUFFICES ASSUME SeedInv, NEW d \in Seeder, run[d].outcome = "verified",
                      run[d].undisturbed, NEW i \in DOMAIN Pairs
               PROVE  \E t \in trades : commands[t.command].key \in {2 * i - 1, 2 * i}
    BY DEF VerifiedIsThere
  <2>1. run[d] \in RunType /\ Knows(commands, trades, run[d])
    BY DEF SeedInv, RunsInv, RunsTyped
  <2>2. PairNumbers(commands, trades, i) # {}
    BY <2>1, NowThere DEF There
  <2> QED BY <2>2 DEF PairNumbers, NumbersOf
<1> QED BY <1>1, SeedInvHolds, PTL

(* A run without a reset in between that finds no trades where it polls, finds   *)
(* none in the tables; and one that finds too few, has seen them all.         *)
Short(cs, ts, f) ==
    /\ f.outcome = "no trade" => \E i \in DOMAIN Pairs : PairNumbers(cs, ts, i) = {}
    /\ f.outcome = "too few" => ~(Cardinality(Got(cs, ts, Len(Plan) + 1)) >= Len(Pairs))

LEMMA PolledShort ==
  ASSUME NEW cs, NEW ts, NEW r \in RunType, r.outcome = "running", r.at <= Len(Plan),
         Knows(cs, ts, r), Done(cs, r.at),
         NEW numbers \in SUBSET Nat, numbers = NumbersOf(cs, ts, r.at),
         NEW f, Polled(f, r, numbers)
  PROVE  Short(cs, ts, f)
<1>1. /\ PolledMaker(r, numbers, f) /\ PolledTaker(r, numbers, f) /\ PolledRest(r, f)
      /\ f \in RunType
  BY PolledIs
<1>2. r.at \in Nat \ {0} /\ f.at \in 1..(Len(Plan) + 1)
  <2>1. r.at \in 1..(Len(Plan) + 1) /\ f.at \in 1..(Len(Plan) + 1)
    BY <1>1 DEF RunType
  <2> QED BY <2>1, PlanIs
<1>3. f.outcome = "no trade" => \E i \in DOMAIN Pairs : PairNumbers(cs, ts, i) = {}
  <2> SUFFICES ASSUME f.outcome = "no trade"
               PROVE  \E i \in DOMAIN Pairs : PairNumbers(cs, ts, i) = {}
    OBVIOUS
  <2>1. ~Ends(f.at, f.produced, f.outcome)
    BY <1>2, EndsAre
  <2>2. IsTaker(r.at) /\ r.pair \cup numbers = {}
    BY <1>1, <2>1 DEF PolledMaker, PolledTaker, PolledRest
  <2>3. PICK i \in DOMAIN Pairs : r.at = 2 * i
    BY <1>2, <2>2, PlacesAre
  <2>4. r.pair = NumbersOf(cs, ts, 2 * i - 1) /\ numbers = NumbersOf(cs, ts, 2 * i)
    BY <2>2, <2>3 DEF Knows
  <2> QED BY <2>2, <2>4 DEF PairNumbers
<1>4. f.outcome = "too few" => ~(Cardinality(Got(cs, ts, Len(Plan) + 1)) >= Len(Pairs))
  <2>1. Knows(cs, ts, f)
    BY PolledKnows
  <2>2. f.outcome = "too few" =>
           /\ f.at = Len(Plan) + 1 /\ f.produced = Got(cs, ts, f.at)
           /\ ~(Cardinality(f.produced) >= Len(Pairs))
    BY <2>1 DEF Knows
  <2> QED BY <2>2
<1> QED BY <1>3, <1>4 DEF Short

(* How the outcome of a run may change.                                      *)
LEMMA OutcomeMoves ==
  ASSUME SeedInv, [SeedNext]_svars, NEW d \in Seeder, run'[d].outcome # run[d].outcome
  PROVE  \/ Begin(d) /\ run'[d].outcome = "running" /\ run'[d].undisturbed
         \/ /\ GiveUp(d) /\ run'[d].outcome = "failed"
            /\ run'[d].undisturbed = run[d].undisturbed
         \/ /\ Poll(d) /\ run'[d].undisturbed = run[d].undisturbed
            /\ run[d].undisturbed => Short(commands, trades, run'[d])
<1>1. run \in [Seeder -> RunType] /\ run[d] \in RunType
  BY DEF SeedInv, RunsInv, RunsTyped
<1>2. ASSUME NEW e \in Seeder, Begin(e)
      PROVE  e = d /\ run'[d].outcome = "running" /\ run'[d].undisturbed
  <2>1. PICK f : /\ f = [NotStarted EXCEPT !.outcome = "running", !.undisturbed = TRUE]
                 /\ run' = [run EXCEPT ![e] = f]
    BY <1>2 DEF Begin, Become
  <2>2. RunIs(f, "running", 1, 0, {}, {}, TRUE)
    BY <2>1, BeginIs
  <2>3. f.outcome = "running" /\ f.undisturbed
    BY <2>2, BeginKnows
  <2> QED BY <1>1, <2>1, <2>3
<1>3. ASSUME NEW e \in Seeder, Post(e) PROVE FALSE
  <2>1. PICK q : run' = [run EXCEPT ![e] = [run[e] EXCEPT !.asked = q]]
    BY <1>3 DEF Post, Become
  <2>2. run[e] \in RunType
    BY <1>1
  <2>3. [run[e] EXCEPT !.asked = q].outcome = run[e].outcome
    BY <2>2 DEF RunType
  <2> QED BY <1>1, <2>1, <2>3
<1>4. ASSUME NEW e \in Seeder, GiveUp(e)
      PROVE  e = d /\ run'[d].outcome = "failed" /\ run'[d].undisturbed = run[d].undisturbed
  <2>1. run' = [run EXCEPT ![e] = [run[e] EXCEPT !.outcome = "failed"]]
    BY <1>4 DEF GiveUp, Become
  <2>2. e = d
    BY <1>1, <2>1
  <2>3. [run[d] EXCEPT !.outcome = "failed"].outcome = "failed"
        /\ [run[d] EXCEPT !.outcome = "failed"].undisturbed = run[d].undisturbed
    BY <1>1 DEF RunType
  <2> QED BY <1>1, <2>1, <2>2, <2>3
<1>5. ASSUME NEW e \in Seeder, Poll(e)
      PROVE  /\ e = d /\ run'[d].undisturbed = run[d].undisturbed
             /\ run[d].undisturbed => Short(commands, trades, run'[d])
  <2> DEFINE r == run[d]
  <2>1. PICK numbers \in SUBSET Nat, f \in RunType :
           /\ numbers = NumbersOf(commands, trades, run[e].at) \/ ~run[e].undisturbed
           /\ Done(commands, run[e].at) \/ ~run[e].undisturbed
           /\ Polled(f, run[e], numbers)
           /\ run' = [run EXCEPT ![e] = f]
    BY <1>5, PolledRun
  <2>2. e = d
    BY <1>1, <2>1
  <2>3. /\ r \in RunType /\ r.outcome = "running" /\ r.at <= Len(Plan)
        /\ r.undisturbed => Knows(commands, trades, r)
    BY <1>5, <2>2 DEF SeedInv, RunsInv, RunsTyped, Poll, Running
  <2>4. run'[d] = f
    BY <1>1, <2>1, <2>2
  <2>5. Polled(f, r, numbers)
    BY <2>1, <2>2
  <2>6. r.undisturbed => numbers = NumbersOf(commands, trades, r.at) /\ Done(commands, r.at)
    BY <2>1, <2>2
  <2> HIDE DEF r
  <2>7. f.undisturbed = r.undisturbed
    BY <2>3, <2>5, PolledIs
  <2>8. r.undisturbed => Short(commands, trades, f)
    BY <2>3, <2>5, <2>6, PolledShort
  <2> QED BY <2>2, <2>4, <2>7, <2>8 DEF r
<1>6. ASSUME Maintain PROVE FALSE
  <2>1. run'[d] = [run[d] EXCEPT !.undisturbed = FALSE]
    BY <1>6 DEF Maintain
  <2>2. [run[d] EXCEPT !.undisturbed = FALSE].outcome = run[d].outcome
    BY <1>1 DEF RunType
  <2> QED BY <2>1, <2>2
<1>7. ASSUME \/ \E n \in late : ArriveLate(n)
             \/ Visit \/ \E p \in Processor : Process(p)
             \/ UNCHANGED svars
      PROVE  FALSE
  <2>1. run' = run
    BY <1>7 DEF ArriveLate, Visit, Process, svars, client
  <2> QED BY <2>1
<1>8. PICK e \in Seeder : Begin(e) \/ Post(e) \/ Poll(e) \/ GiveUp(e)
  BY <1>6, <1>7 DEF SeedNext
<1> QED BY <1>2, <1>3, <1>4, <1>5, <1>8

(* In the market for which seed_market has returned once, every later call of    *)
(* it returns too, unless it fails at the API, until the next reset.           *)
THEOREM SeedVerifiedAgain == SeedSpec => VerifiedAgain
<1> DEFINE Again == \A d \in Seeder :
             verified /\ run[d].undisturbed /\ run'[d].outcome # run[d].outcome =>
                 run'[d].outcome \notin {"no trade", "too few"}
<1>1. SeedInv /\ [SeedNext]_svars => Again
  <2> SUFFICES ASSUME SeedInv, [SeedNext]_svars, NEW d \in Seeder, verified,
                      run[d].undisturbed, run'[d].outcome # run[d].outcome
               PROVE  run'[d].outcome \notin {"no trade", "too few"}
    OBVIOUS
  <2>1. There(commands, trades)
    BY DEF SeedInv, RunsInv
  <2>2. \/ run'[d].outcome \in {"running", "failed"}
        \/ Short(commands, trades, run'[d])
    BY OutcomeMoves
  <2>3. Short(commands, trades, run'[d]) =>
           run'[d].outcome \notin {"no trade", "too few"}
    BY <2>1 DEF Short, There
  <2> QED BY <2>2, <2>3
<1> HIDE DEF Again
<1>2. SeedSpec => [][Again]_svars
  BY <1>1, SeedInvHolds, PTL DEF SeedSpec
<1> QED BY <1>2 DEF VerifiedAgain, Again

-----------------------------------------------------------------------------
(* The orders of a market with none but the seed client's                     *)

(* The row of an order that has not traded.                                  *)
Entered(q, r) == OfSymbol(r.symbol, NewOrder(r.side, r.price, r.quantity, q))

LEMMA EnteredIs ==
  ASSUME NEW q, NEW r, NEW o, o = Entered(q, r)
  PROVE  /\ o.symbol = r.symbol /\ o.side = r.side /\ o.price = r.price
         /\ o.quantity = r.quantity /\ o.remaining = r.quantity
         /\ o.status = "open" /\ o.status \in Active /\ o.sequence = q
  BY DEF Entered, OfSymbol, NewOrder, Active

(* What a submission leads to.                                               *)
Leads(os, ts, q, r, out, nx, fills) ==
    /\ out.status = "completed" /\ fills = FillsOf(os, r)
    /\ Resting(os, q, r, fills, nx)
    /\ \E next : out.trades = NewTrades(os, q, r, fills, next)

LEMMA SubmitLeads ==
  ASSUME NEW os, NEW ts, NEW q, NEW r, Submits(os, ts, q, r),
         NEW out, out = OutcomeOf(os, ts, q, r), NEW nx, nx = Persisted(os, out.rows)
  PROVE  \E fills : Leads(os, ts, q, r, out, nx, fills)
<1> DEFINE next == NextTrade(ts, r.symbol)
<1>1. PICK fills : fills = FillsOf(os, r)
  OBVIOUS
<1>2. r.symbol \in Symbol /\ IsFiniteSet(ts) /\ Numbered(ts, r.symbol)
  BY RequestAssumption DEF Submits, Ledger, TradesOk
<1>3. next \in Nat
  <2> DEFINE n == Cardinality({t \in ts : t.symbol = r.symbol})
  <2>1. n \in Nat /\ next = n + 1
    BY <1>2, NextTradeIs
  <2> HIDE DEF n, next
  <2> QED BY <2>1
<1>4. out.status = "completed" /\ Resting(os, q, r, fills, Persisted(os, out.rows))
      /\ out.trades = NewTrades(os, q, r, fills, next)
  BY <1>1, <1>3, SubmitIs
<1> QED BY <1>1, <1>4 DEF Leads

(* An order that is not open stays as it is.                                 *)
LEMMA ClosedStays ==
  ASSUME NEW os, NEW ts, NEW q, NEW r, Submits(os, ts, q, r), NEW out, NEW nx, NEW fills,
         Leads(os, ts, q, r, out, nx, fills),
         NEW id \in DOMAIN os, os[id].status \notin Active
  PROVE  nx[id] = os[id]
<1>1. fills = FillsOf(os, r) /\ Resting(os, q, r, fills, nx)
  BY DEF Leads
<1>2. id \notin DOMAIN fills
  BY <1>1, FillsAre DEF InBook
<1> QED BY <1>1, <1>2 DEF Resting

(* With no open order in its market, it is entered whole.                     *)
LEMMA EnteredAlone ==
  ASSUME NEW os, NEW ts, NEW q, NEW r, Submits(os, ts, q, r), NEW out, NEW nx, NEW fills,
         Leads(os, ts, q, r, out, nx, fills), \A id : ~InBook(os, r.symbol, id)
  PROVE  nx[q] = Entered(q, r) /\ \A id \in DOMAIN os : nx[id] = os[id]
<1>1. fills = FillsOf(os, r) /\ Resting(os, q, r, fills, nx)
  BY DEF Leads
<1>2. DOMAIN fills = {}
  <2>1. PICK open : open = OpenRows(os, r.symbol)
    OBVIOUS
  <2>2. \A m \in DOMAIN fills : InBook(os, r.symbol, m)
    BY <1>1, <2>1, FillsAre
  <2> QED BY <2>2
<1>3. TakerRow(r, q, fills) = Entered(q, r)
  BY <1>2 DEF TakerRow, Entered
<1> QED BY <1>1, <1>2, <1>3 DEF Resting

(* With one open order, the other side of its pair, it trades all of it.      *)
Opposes(r, s) ==
    /\ s.symbol = r.symbol /\ s.side # r.side
    /\ s.price = r.price /\ s.quantity = r.quantity

LEMMA PairTrades ==
  ASSUME NEW os, NEW ts, NEW q, NEW r, Submits(os, ts, q, r), NEW out, NEW nx, NEW fills,
         Leads(os, ts, q, r, out, nx, fills),
         NEW m, InBook(os, r.symbol, m), \A id : InBook(os, r.symbol, id) => id = m,
         NEW s, Opposes(r, s), os[m] = Entered(m, s)
  PROVE  /\ nx[q].status \notin Active /\ nx[m].status \notin Active
         /\ \A id \in DOMAIN os : id # m => nx[id] = os[id]
         /\ \E t \in out.trades : t.command = q /\ t.symbol = r.symbol
<1>1. fills = FillsOf(os, r) /\ Resting(os, q, r, fills, nx)
  BY DEF Leads
<1>2. PICK open : open = OpenRows(os, r.symbol)
  OBVIOUS
<1>3. /\ Asked(open, r.side, r.price, r.quantity)
      /\ AllottedRight(open, r.side, r.price, r.quantity, fills)
      /\ DOMAIN fills \subseteq {m}
  BY <1>1, <1>2, FillsAre
<1>4. /\ RowsOk(os) /\ r.price \in Nat /\ r.quantity \in Nat \ {0} /\ r \in Request
      /\ r.kind = "submit" /\ q \in Nat \ {0}
  BY RequestAssumption DEF Submits, Ledger
<1>5. m \in DOMAIN open /\ open[m] = os[m] /\ m \in DOMAIN os
  BY <1>2, <1>4, OpenRowsOpen DEF InBook
<1>6. /\ os[m].side # r.side /\ os[m].price = r.price /\ os[m].remaining = r.quantity
      /\ os[m].quantity = r.quantity /\ os[m].status \in Active
  BY EnteredIs DEF Opposes
<1>7. m \in Makers(open, r.side, r.price)
  BY <1>4, <1>5, <1>6 DEF Makers, Crosses
<1>8. DOMAIN fills = {m} => Allotted(fills) = fills[m]
  <2> SUFFICES ASSUME DOMAIN fills = {m} PROVE Allotted(fills) = fills[m]
    OBVIOUS
  <2>1. Allotted(fills) = Total(fills, {m}) /\ Weights(fills, {m})
    BY <1>3 DEF AllottedRight
  <2>2. fills[m] \in Nat /\ Weights(fills, {})
    BY <2>1, FS_EmptySet DEF Weights
  <2>3. Total(fills, {} \cup {m}) = fills[m] + Total(fills, {})
    BY <2>2, TotalWithOne
  <2>4. {} \cup {m} = {m} /\ Total(fills, {}) = 0
    BY TotalOfNone
  <2> QED BY <2>1, <2>2, <2>3, <2>4
<1>9. Allotted(fills) = r.quantity
  <2> SUFFICES ASSUME Allotted(fills) # r.quantity PROVE FALSE
    OBVIOUS
  <2>1. m \in DOMAIN fills /\ fills[m] = open[m].remaining
    BY <1>3, <1>7 DEF AllottedRight
  <2> QED BY <1>3, <1>5, <1>6, <1>8, <2>1
<1>10. DOMAIN fills = {m} /\ fills[m] = r.quantity
  <2>1. DOMAIN fills # {}
    BY <1>3, <1>4, <1>9 DEF AllottedRight
  <2> QED BY <1>3, <1>8, <1>9, <2>1
<1>11. nx[q].status \notin Active
  <2>1. nx[q] = TakerRow(r, q, fills)
    BY <1>1 DEF Resting
  <2>2. /\ Allotted(fills) \in Nat /\ Allotted(fills) <= r.quantity
        /\ DOMAIN fills = {} => Allotted(fills) = 0
        /\ DOMAIN fills # {} => Allotted(fills) # 0
    BY <1>3 DEF AllottedRight
  <2> QED BY <1>4, <1>9, <2>1, <2>2, TakerRowIs
<1>12. nx[m].status \notin Active
  <2>1. nx[m] = ApplyFill(os[m], fills[m])
    BY <1>1, <1>10 DEF Resting
  <2>2. os[m] \in Row /\ ValidState(os[m])
    BY <1>4, <1>5 DEF RowsOk
  <2>3. fills[m] \in Nat \ {0} /\ fills[m] = os[m].remaining /\ fills[m] <= os[m].remaining
    BY <1>4, <1>6, <1>10
  <2> QED BY <1>6, <2>1, <2>2, <2>3, FilledRow
<1>13. \E t \in out.trades : t.command = q /\ t.symbol = r.symbol
  <2>1. PICK next : out.trades = NewTrades(os, q, r, fills, next)
    BY DEF Leads
  <2>2. NewTrade(os, q, r, fills, next, m) \in out.trades
    BY <1>10, <2>1 DEF NewTrades
  <2>3. /\ NewTrade(os, q, r, fills, next, m).command = q
        /\ NewTrade(os, q, r, fills, next, m).symbol = r.symbol
    BY DEF NewTrade
  <2> QED BY <2>2, <2>3
<1>14. \A id \in DOMAIN os : id # m => nx[id] = os[id]
  BY <1>1, <1>10 DEF Resting
<1> QED BY <1>11, <1>12, <1>13, <1>14

LEMMA PlanPairs ==
  ASSUME NEW k \in DOMAIN Plan, IsTaker(k)
  PROVE  k - 1 \in DOMAIN Plan /\ IsMaker(k - 1) /\ Opposes(Plan[k], Plan[k - 1])
<1>1. k \in Nat \ {0} /\ DOMAIN Plan = 1..(2 * Len(Pairs) + Len(Rest)) /\ Len(Pairs) \in Nat
      /\ Len(Rest) \in Nat
  BY PlanIs
<1>2. PICK i \in DOMAIN Pairs : k = 2 * i
  BY <1>1, PlacesAre
<1>3. i \in Nat \ {0} /\ i <= Len(Pairs)
  BY PlanIs
<1>4. k - 1 \in DOMAIN Plan /\ IsMaker(k - 1)
  <2>1. (k - 1) % 2 = 1 /\ k - 1 <= 2 * Len(Pairs) /\ k - 1 \in Nat \ {0}
    BY <1>2, <1>3
  <2> QED BY <1>1, <2>1 DEF IsMaker
<1>5. Plan[k] = PairOrder(i, Opposite(MakerSide(i)))
  <2>1. ~(k > 2 * Len(Pairs)) /\ k % 2 # 1 /\ k \div 2 = i
    BY <1>1, <1>2, <1>3
  <2> QED BY <1>1, <2>1 DEF Plan
<1>6. Plan[k - 1] = PairOrder(i, MakerSide(i))
  <2>1. ~(k - 1 > 2 * Len(Pairs)) /\ (k - 1) % 2 = 1 /\ ((k - 1) + 1) \div 2 = i
    BY <1>1, <1>2, <1>3
  <2> QED BY <1>1, <1>4, <2>1 DEF Plan
<1>7. MakerSide(i) # Opposite(MakerSide(i))
  BY DEF MakerSide, Opposite
<1> QED BY <1>4, <1>5, <1>6, <1>7 DEF Opposes, PairOrder

(* The order of a finished command, in a market of the seed client's orders    *)
(* alone: a taker is filled, with a trade to show for it, and a maker waits    *)
(* for its taker.                                                           *)
Settled(cs, os, ts, q) ==
    /\ q \in DOMAIN os
    /\ IsTaker(cs[q].key) =>
          /\ os[q].status \notin Active
          /\ \E t \in ts : t.command = q /\ t.symbol = Starter
    /\ IsMaker(cs[q].key) =>
          IF Done(cs, cs[q].key + 1) THEN os[q].status \notin Active
                                     ELSE os[q] = Entered(q, Plan[cs[q].key])

(* The orders come in the order of the plan, each when those before it are done. *)
InTurn(cs, os, ts) ==
    /\ \A q \in DOMAIN cs : \A m \in 1..(cs[q].key - 1) : Done(cs, m)
    /\ \A q \in DOMAIN cs : cs[q].status # "queued" => Settled(cs, os, ts, q)

Alone(cs) == \A q \in DOMAIN cs : cs[q].key \notin Visitor

(* The turn of command q, with key k, among the seed client's orders.         *)
Turn(cs, os, ts, q, k) ==
    /\ KeysOnce(cs) /\ Alone(cs) /\ InTurn(cs, os, ts)
    /\ \A id \in DOMAIN os : id \in DOMAIN cs /\ cs[id].status # "queued"
    /\ q \in DOMAIN cs /\ cs[q].status = "queued" /\ cs[q].key = k

LEMMA TurnIs ==
  ASSUME NEW cs, NEW os, NEW ts, NEW q, NEW k, Turn(cs, os, ts, q, k)
  PROVE  /\ k \in DOMAIN Plan /\ cs[q].request = Plan[k] /\ k \in Nat \ {0}
         /\ \A m \in 1..(k - 1) : Done(cs, m)
         /\ ~Done(cs, k) /\ ~Done(cs, k + 1)
         /\ \A s \in DOMAIN cs :
               cs[s].status # "queued" =>
                  /\ s # q /\ cs[s].key \in Nat \ {0} /\ cs[s].key < k
                  /\ Settled(cs, os, ts, s)
<1>1. \A s \in DOMAIN cs :
         /\ cs[s].key \in DOMAIN Plan /\ cs[s].request = Plan[cs[s].key]
         /\ cs[s].key \in Nat \ {0}
  BY PlanOrders DEF Turn, KeysOnce, Alone
<1>2. \A m \in 1..(k - 1) : Done(cs, m)
  BY DEF Turn, InTurn
<1>3. ~Done(cs, k)
  BY DEF Turn, KeysOnce, Done
<1>4. ASSUME NEW s \in DOMAIN cs, cs[s].key > k PROVE FALSE
  <2>1. k \in 1..(cs[s].key - 1)
    BY <1>1, <1>4 DEF Turn
  <2> QED BY <1>3, <2>1 DEF Turn, InTurn
<1>5. k \in Nat \ {0}
  BY <1>1 DEF Turn
<1>6. ~Done(cs, k + 1)
  <2>1. k + 1 > k
    BY <1>5
  <2> QED BY <1>4, <2>1 DEF Done
<1>7. ASSUME NEW s \in DOMAIN cs, cs[s].status # "queued"
      PROVE  s # q /\ cs[s].key \in Nat \ {0} /\ cs[s].key < k /\ Settled(cs, os, ts, s)
  <2>1. s # q /\ Settled(cs, os, ts, s)
    BY <1>7 DEF Turn, InTurn
  <2>2. cs[s].key # k
    BY <2>1 DEF Turn, KeysOnce
  <2>3. cs[s].key \in Nat \ {0} /\ ~(cs[s].key > k)
    BY <1>1, <1>4
  <2> QED BY <1>5, <2>1, <2>2, <2>3
<1> QED BY <1>1, <1>2, <1>3, <1>5, <1>6, <1>7 DEF Turn

(* Open in the market is then the maker of its pair, or orders of the rest.    *)
LEMMA OpenAtTurn ==
  ASSUME NEW cs, NEW os, NEW ts, NEW q, NEW k, Turn(cs, os, ts, q, k),
         NEW s, InBook(os, Starter, s)
  PROVE  \/ IsTaker(k) /\ cs[s].key = k - 1
         \/ ~IsMaker(k) /\ ~IsTaker(k)
<1> DEFINE j == cs[s].key
<1>1. s \in DOMAIN os /\ os[s].status \in Active
  BY DEF InBook
<1>2. s \in DOMAIN cs /\ cs[s].status # "queued"
  BY <1>1 DEF Turn
<1>3. j \in Nat \ {0} /\ j < k /\ Settled(cs, os, ts, s) /\ k \in Nat \ {0}
  BY <1>2, TurnIs
<1>4. ~IsTaker(j)
  BY <1>1, <1>3 DEF Settled
<1>5. CASE IsMaker(j)
  <2>1. ~Done(cs, j + 1)
    BY <1>1, <1>3, <1>5 DEF Settled
  <2>2. j + 1 \notin 1..(k - 1)
    BY <2>1, TurnIs
  <2> HIDE DEF j
  <2>3. j + 1 = k
    BY <1>3, <2>2
  <2>4. IsTaker(k) /\ j = k - 1
    BY <1>3, <1>5, <2>3, PlacesAre
  <2> QED BY <2>4 DEF j
<1>6. CASE ~IsMaker(j)
  <2> HIDE DEF j
  <2>1. j % 2 = 0 \/ j % 2 = 1
    BY <1>3, Parity
  <2>2. ~(j <= 2 * Len(Pairs))
    BY <1>4, <1>6, <2>1 DEF IsMaker, IsTaker
  <2>3. ~(k <= 2 * Len(Pairs))
    BY <1>3, <2>2, PlanIs
  <2> QED BY <2>3 DEF IsMaker, IsTaker
<1> QED BY <1>5, <1>6

(* The tables after it is applied.                                           *)
After(cs, os, ts, q, k, ds, nx, us, made) ==
    /\ DOMAIN ds = DOMAIN cs
    /\ \A s \in DOMAIN cs : s # q => ds[s] = cs[s]
    /\ ds[q].key = k /\ ds[q].status = "completed"
    /\ us = ts \cup made
    /\ DOMAIN nx = DOMAIN os \cup {q}

LEMMA DoneAfter ==
  ASSUME NEW cs, NEW os, NEW ts, NEW q, NEW k, Turn(cs, os, ts, q, k),
         NEW ds, NEW nx, NEW us, NEW made, After(cs, os, ts, q, k, ds, nx, us, made), NEW n
  PROVE  Done(ds, n) <=> Done(cs, n) \/ n = k
<1>1. q \in DOMAIN cs /\ cs[q].status = "queued"
  BY DEF Turn
<1> QED BY <1>1 DEF After, Done

LEMMA TurnTaken ==
  ASSUME NEW cs, NEW os, NEW ts, NEW q, NEW k, Turn(cs, os, ts, q, k),
         NEW ds, NEW nx, NEW us, NEW made, After(cs, os, ts, q, k, ds, nx, us, made),
         \A s \in DOMAIN ds : ds[s].status # "queued" => Settled(ds, nx, us, s)
  PROVE  InTurn(ds, nx, us)
<1>1. \A s \in DOMAIN ds : s \in DOMAIN cs /\ ds[s].key = cs[s].key
  BY DEF After, Turn
<1>2. \A s \in DOMAIN ds : \A m \in 1..(ds[s].key - 1) : Done(ds, m)
  BY <1>1, DoneAfter DEF Turn, InTurn
<1> QED BY <1>2 DEF InTurn

(* An order that did not change, and did not wait for it, is settled still.    *)
LEMMA SettledStill ==
  ASSUME NEW cs, NEW os, NEW ts, NEW q, NEW k, Turn(cs, os, ts, q, k),
         NEW ds, NEW nx, NEW us, NEW made, After(cs, os, ts, q, k, ds, nx, us, made),
         NEW s \in DOMAIN cs, cs[s].status # "queued", nx[s] = os[s],
         IsMaker(cs[s].key) => cs[s].key + 1 # k
  PROVE  Settled(ds, nx, us, s)
<1>1. Settled(cs, os, ts, s) /\ s # q
  BY TurnIs
<1>2. ds[s] = cs[s] /\ ts \subseteq us /\ DOMAIN os \subseteq DOMAIN nx
  BY <1>1 DEF After
<1>3. IsMaker(cs[s].key) => (Done(ds, cs[s].key + 1) <=> Done(cs, cs[s].key + 1))
  BY DoneAfter
<1> QED BY <1>1, <1>2, <1>3 DEF Settled

LEMMA MakerSettles ==
  ASSUME NEW cs, NEW os, NEW ts, NEW q, NEW k, Turn(cs, os, ts, q, k),
         Submits(os, ts, q, Plan[k]), NEW out, NEW nx, NEW fills,
         Leads(os, ts, q, Plan[k], out, nx, fills),
         NEW ds, NEW us, NEW made, After(cs, os, ts, q, k, ds, nx, us, made), IsMaker(k)
  PROVE  InTurn(ds, nx, us)
<1>1. k \in DOMAIN Plan /\ k \in Nat \ {0} /\ Plan[k].symbol = Starter
  BY TurnIs, PlanOrders
<1>2. ~IsTaker(k)
  BY <1>1 DEF IsMaker, IsTaker
<1>3. \A id : ~InBook(os, Starter, id)
  BY <1>2, OpenAtTurn
<1>4. nx[q] = Entered(q, Plan[k]) /\ \A id \in DOMAIN os : nx[id] = os[id]
  BY <1>1, <1>3, EnteredAlone
<1>5. ASSUME NEW s \in DOMAIN ds, ds[s].status # "queued"
      PROVE  Settled(ds, nx, us, s)
  <2>1. CASE s = q
    <3>1. s \in DOMAIN nx /\ ds[s].key = k
      BY <2>1 DEF After
    <3>2. ~Done(ds, k + 1)
      <4>1. k + 1 # k
        BY <1>1
      <4> QED BY <4>1, TurnIs, DoneAfter
    <3> QED BY <1>2, <1>4, <2>1, <3>1, <3>2 DEF Settled
  <2>2. CASE s # q
    <3>1. s \in DOMAIN cs /\ cs[s].status # "queued"
      BY <1>5, <2>2 DEF After
    <3>2. cs[s].key \in Nat \ {0} /\ Settled(cs, os, ts, s)
      BY <3>1, TurnIs
    <3>3. nx[s] = os[s]
      BY <1>4, <3>2 DEF Settled
    <3>4. IsMaker(cs[s].key) => cs[s].key + 1 # k
      BY <1>2, <3>2, PlacesAre
    <3> QED BY <3>1, <3>3, <3>4, SettledStill
  <2> QED BY <2>1, <2>2
<1> QED BY <1>5, TurnTaken

LEMMA TakerSettles ==
  ASSUME NEW cs, NEW os, NEW ts, NEW q, NEW k, Turn(cs, os, ts, q, k),
         Submits(os, ts, q, Plan[k]), NEW out, NEW nx, NEW fills,
         Leads(os, ts, q, Plan[k], out, nx, fills),
         NEW ds, NEW us, After(cs, os, ts, q, k, ds, nx, us, out.trades), IsTaker(k)
  PROVE  InTurn(ds, nx, us)
<1>1. k \in DOMAIN Plan /\ k \in Nat \ {0} /\ Plan[k].symbol = Starter
  BY TurnIs, PlanOrders
<1>2. ~IsMaker(k)
  BY <1>1 DEF IsMaker, IsTaker
<1>3. k - 1 \in DOMAIN Plan /\ IsMaker(k - 1) /\ Opposes(Plan[k], Plan[k - 1])
  BY <1>1, PlanPairs
<1>4. k - 1 \in 1..(k - 1) /\ (k - 1) + 1 = k /\ ~IsTaker(k - 1)
  <2>1. k - 1 \in Nat \ {0}
    BY <1>3, PlanIs
  <2> QED BY <1>1, <1>3, <2>1 DEF IsMaker, IsTaker
<1>5. PICK m \in DOMAIN cs : cs[m].key = k - 1 /\ cs[m].status = "completed"
  BY <1>4, TurnIs DEF Done
<1>6. /\ Settled(cs, os, ts, m) /\ m # q /\ ~Done(cs, k)
  BY <1>5, TurnIs
<1>7. m \in DOMAIN os /\ os[m] = Entered(m, Plan[k - 1])
  BY <1>3, <1>4, <1>5, <1>6 DEF Settled
<1>8. InBook(os, Starter, m)
  BY <1>1, <1>3, <1>7, EnteredIs DEF InBook, Opposes
<1>9. ASSUME NEW id, InBook(os, Starter, id) PROVE id = m
  <2>1. cs[id].key = k - 1
    BY <1>9, OpenAtTurn
  <2>2. id \in DOMAIN cs
    BY <1>9 DEF Turn, InBook
  <2> QED BY <1>5, <2>1, <2>2 DEF Turn, KeysOnce
<1>10. /\ nx[q].status \notin Active /\ nx[m].status \notin Active
       /\ \A id \in DOMAIN os : id # m => nx[id] = os[id]
       /\ \E t \in out.trades : t.command = q /\ t.symbol = Starter
  BY <1>1, <1>3, <1>7, <1>8, <1>9, PairTrades
<1>11. ASSUME NEW s \in DOMAIN ds, ds[s].status # "queued"
       PROVE  Settled(ds, nx, us, s)
  <2>1. CASE s = q
    <3>1. s \in DOMAIN nx /\ ds[s].key = k /\ out.trades \subseteq us
      BY <2>1 DEF After
    <3> QED BY <1>2, <1>10, <2>1, <3>1 DEF Settled
  <2>2. CASE s = m
    <3>1. s \in DOMAIN nx /\ ds[s].key = k - 1
      BY <1>5, <1>6, <1>7, <2>2 DEF After
    <3>2. Done(ds, k)
      BY DoneAfter
    <3> QED BY <1>4, <1>10, <2>2, <3>1, <3>2 DEF Settled
  <2>3. CASE s # q /\ s # m
    <3>1. s \in DOMAIN cs /\ cs[s].status # "queued"
      BY <1>11, <2>3 DEF After
    <3>2. cs[s].key \in Nat \ {0} /\ Settled(cs, os, ts, s)
      BY <3>1, TurnIs
    <3>3. nx[s] = os[s]
      BY <1>10, <2>3, <3>2 DEF Settled
    <3>4. cs[s].key # k - 1
      BY <1>5, <2>3, <3>1 DEF Turn, KeysOnce
    <3>5. cs[s].key + 1 # k
      BY <1>1, <3>2, <3>4
    <3> QED BY <3>1, <3>3, <3>5, SettledStill
  <2> QED BY <2>1, <2>2, <2>3
<1> QED BY <1>11, TurnTaken

LEMMA RestSettles ==
  ASSUME NEW cs, NEW os, NEW ts, NEW q, NEW k, Turn(cs, os, ts, q, k),
         Submits(os, ts, q, Plan[k]), NEW out, NEW nx, NEW fills,
         Leads(os, ts, q, Plan[k], out, nx, fills),
         NEW ds, NEW us, NEW made, After(cs, os, ts, q, k, ds, nx, us, made),
         ~IsMaker(k), ~IsTaker(k)
  PROVE  InTurn(ds, nx, us)
<1>1. k \in Nat \ {0} /\ Len(Pairs) \in Nat
  BY TurnIs, PlanIs
<1>2. ~(k <= 2 * Len(Pairs))
  <2>1. k % 2 = 0 \/ k % 2 = 1
    BY <1>1, Parity
  <2> QED BY <2>1 DEF IsMaker, IsTaker
<1>3. ASSUME NEW s \in DOMAIN ds, ds[s].status # "queued"
      PROVE  Settled(ds, nx, us, s)
  <2>1. CASE s = q
    <3>1. s \in DOMAIN nx /\ ds[s].key = k
      BY <2>1 DEF After
    <3> QED BY <3>1 DEF Settled
  <2>2. CASE s # q
    <3>1. s \in DOMAIN cs /\ cs[s].status # "queued" /\ ds[s] = cs[s]
      BY <1>3, <2>2 DEF After
    <3>2. cs[s].key \in Nat \ {0} /\ cs[s].key < k /\ Settled(cs, os, ts, s)
      BY <3>1, TurnIs
    <3>3. CASE IsMaker(cs[s].key)
      <4>1. cs[s].key + 1 \in 1..(k - 1) /\ cs[s].key + 1 # k
        <5> DEFINE j == cs[s].key
        <5>1. IsTaker(j + 1) /\ j \in Nat
          BY <3>2, <3>3, PlacesAre
        <5> HIDE DEF j
        <5>2. j + 1 <= 2 * Len(Pairs)
          BY <5>1 DEF IsTaker
        <5>3. j + 1 \in 1..(k - 1) /\ j + 1 # k
          BY <1>1, <1>2, <5>1, <5>2
        <5> QED BY <5>3 DEF j
      <4>2. Done(cs, cs[s].key + 1)
        BY <4>1, TurnIs
      <4>3. s \in DOMAIN os /\ os[s].status \notin Active
        BY <3>2, <3>3, <4>2 DEF Settled
      <4>4. nx[s] = os[s]
        BY <4>3, ClosedStays
      <4> QED BY <3>1, <4>1, <4>4, SettledStill
    <3>4. CASE IsTaker(cs[s].key)
      <4>1. s \in DOMAIN os /\ os[s].status \notin Active
        BY <3>2, <3>4 DEF Settled
      <4>2. nx[s] = os[s]
        BY <4>1, ClosedStays
      <4>3. ~IsMaker(cs[s].key)
        BY <3>2, <3>4 DEF IsMaker, IsTaker
      <4> QED BY <3>1, <4>2, <4>3, SettledStill
    <3>5. CASE ~IsMaker(cs[s].key) /\ ~IsTaker(cs[s].key)
      <4>1. s \in DOMAIN nx
        BY <3>2 DEF Settled, After
      <4> QED BY <3>1, <3>5, <4>1 DEF Settled
    <3> QED BY <3>3, <3>4, <3>5
  <2> QED BY <2>1, <2>2
<1> QED BY <1>3, TurnTaken

LEMMA TurnSettles ==
  ASSUME NEW cs, NEW os, NEW ts, NEW q, NEW k, Turn(cs, os, ts, q, k),
         Submits(os, ts, q, Plan[k]), NEW out, NEW nx, NEW fills,
         Leads(os, ts, q, Plan[k], out, nx, fills),
         NEW ds, NEW us, After(cs, os, ts, q, k, ds, nx, us, out.trades)
  PROVE  InTurn(ds, nx, us)
<1>1. CASE IsMaker(k)
  BY <1>1, MakerSettles
<1>2. CASE IsTaker(k)
  BY <1>2, TakerSettles
<1>3. CASE ~IsMaker(k) /\ ~IsTaker(k)
  BY <1>3, RestSettles
<1> QED BY <1>1, <1>2, <1>3

-----------------------------------------------------------------------------
(* While no reset has come in the middle of a run: no reset came across the     *)
(* runs that go on, every order on its way has those before it done, and        *)
(* without visitors the market is the seed client's orders, in turn.          *)
Ready(cs, n) == \A m \in 1..(n - 1) : Done(cs, m)

AloneInv ==
    ~torn =>
       /\ \A d \in Seeder : Running(d) => run[d].undisturbed
       /\ \A n \in late : Ready(commands, n)
       /\ Alone(commands) => InTurn(commands, orders, trades)

LEMMA RunReady ==
  ASSUME SeedInv, AloneInv, ~torn, NEW d \in Seeder, Running(d)
  PROVE  Ready(commands, run[d].at) /\ run[d].at \in DOMAIN Plan
<1>1. run[d].undisturbed
  BY DEF AloneInv
<1>2. run[d] \in RunType /\ run[d].at <= Len(Plan) /\ Knows(commands, trades, run[d])
  BY <1>1 DEF SeedInv, RunsInv, RunsTyped
<1>3. run[d].at \in DOMAIN Plan
  BY <1>2, PlanIs DEF RunType
<1> QED BY <1>2, <1>3 DEF Knows, Ready

TableTurn == Alone(commands) => InTurn(commands, orders, trades)

LEMMA AloneBefore == ASSUME Grew, Alone(commands') PROVE Alone(commands)
  BY DEF Grew, Grows, Alone

LEMMA ArriveTurn ==
  ASSUME SeedInv, TableTurn, NEW n \in DOMAIN Plan, Arrive(n), Ready(commands, n)
  PROVE  TableTurn'
<1>1. J!Accept(n, Plan[n], last + 1) /\ trades' = trades /\ orders' = orders
  BY DEF Arrive
<1>2. Inv /\ Sound(commands, trades)
  BY SoundHere DEF SeedInv
<1> DEFINE s == last + 1
<1>3. /\ DOMAIN commands' = DOMAIN commands \cup {s}
      /\ commands'[s].status = "queued" /\ commands'[s].key = n
      /\ \A q \in DOMAIN commands : commands'[q] = commands[q]
      /\ Grew
  BY <1>1, <1>2, ArrivalGrows DEF Grew
<1>4. s \notin DOMAIN commands
  BY DEF SeedInv, Inv, ControlTypes
<1> SUFFICES ASSUME Alone(commands') PROVE InTurn(commands', orders', trades')
  BY DEF TableTurn
<1>5. InTurn(commands, orders, trades)
  BY <1>3, AloneBefore DEF TableTurn
<1> HIDE DEF s
<1>6. \A m : Done(commands', m) <=> Done(commands, m)
  BY <1>3 DEF Done
<1>7. \A q \in DOMAIN commands' : \A m \in 1..(commands'[q].key - 1) : Done(commands', m)
  BY <1>3, <1>5, <1>6 DEF InTurn, Ready
<1>8. ASSUME NEW q \in DOMAIN commands', commands'[q].status # "queued"
      PROVE  Settled(commands', orders', trades', q)
  <2>1. q \in DOMAIN commands /\ commands'[q] = commands[q]
    BY <1>3, <1>8
  <2>2. Settled(commands, orders, trades, q)
    BY <1>5, <1>8, <2>1 DEF InTurn
  <2> QED BY <1>1, <1>6, <2>1, <2>2 DEF Settled
<1> QED BY <1>7, <1>8 DEF InTurn

LEMMA InstallTurn ==
  ASSUME SeedInv, TableTurn, NEW p \in Processor, phase[p] = "applied", Install(p), Grew
  PROVE  TableTurn'
<1> SUFFICES ASSUME Alone(commands') PROVE InTurn(commands', orders', trades')
  BY DEF TableTurn
<1>1. Alone(commands) /\ InTurn(commands, orders, trades)
  BY AloneBefore DEF TableTurn
<1> DEFINE q == claim[p]
           k == commands[q].key
           r == commands[q].request
           out == OutcomeOf(orders, trades, q, r)
<1>2. /\ q \in QueuedSequences /\ q \in DOMAIN commands /\ commands[q].status = "queued"
      /\ q \in Nat \ {0} /\ r \in Request
      /\ \A s \in FinishedSequences : s \in Nat /\ s < q
  BY ClaimedIs DEF SeedInv, QueuedSequences
<1>3. /\ DOMAIN orders \subseteq FinishedSequences /\ Ledger(orders, trades)
      /\ KeysOnce(commands)
  BY DEF SeedInv, LedgerInv, RunsInv
<1>4. Turn(commands, orders, trades, q, k)
  <2>1. \A id \in DOMAIN orders : id \in DOMAIN commands /\ commands[id].status # "queued"
    BY <1>3 DEF FinishedSequences, QueuedSequences
  <2> QED BY <1>1, <1>2, <1>3, <2>1 DEF Turn
<1>5. r = Plan[k] /\ k \in DOMAIN Plan
  BY <1>4, TurnIs
<1>6. Submits(orders, trades, q, r)
  <2>1. r.kind = "submit"
    BY <1>5, PlanOrders
  <2>2. \A id \in DOMAIN orders : id \in Nat /\ id < q
    BY <1>2, <1>3
  <2> QED BY <1>2, <1>3, <2>1, <2>2 DEF Submits
<1>7. PICK fills : Leads(orders, trades, q, r, out, Persisted(orders, out.rows), fills)
  BY <1>6, SubmitLeads
<1>8. /\ orders' = Persisted(orders, out.rows) /\ trades' = trades \cup out.trades
      /\ pending[p].status = out.status
  BY DEF SeedInv, Install, ReplayInv, FlushedIsOutcome
<1>9. /\ DOMAIN commands' = DOMAIN commands
      /\ \A s \in DOMAIN commands : s # q => commands'[s] = commands[s]
      /\ commands'[q].status = pending[p].status /\ commands'[q].key = k
  BY <1>2 DEF SeedInv, Inv, ControlTypes, Install, J!Finish, CommandRow
<1>10. After(commands, orders, trades, q, k, commands', orders', trades', out.trades)
  <2>1. out.status = "completed" /\ DOMAIN orders' = DOMAIN orders \cup {q}
    BY <1>7, <1>8 DEF Leads, Resting
  <2> HIDE DEF q, k, out
  <2> QED BY <1>8, <1>9, <2>1 DEF After
<1>11. Leads(orders, trades, q, Plan[k], out, orders', fills)
       /\ Submits(orders, trades, q, Plan[k])
  BY <1>5, <1>6, <1>7, <1>8
<1> HIDE DEF q, k, r, out
<1> QED BY <1>4, <1>10, <1>11, TurnSettles

LEMMA QuietTurn == ASSUME TableTurn, UNCHANGED <<commands, orders, trades>> PROVE TableTurn'
  BY DEF TableTurn

(* Every step but the reset.                                                 *)
LEMMA StepTurn ==
  ASSUME SeedInv, AloneInv, ~torn, [SeedNext]_svars, ~Maintain
  PROVE  TableTurn' /\ Grew
<1>1. TableTurn /\ Inv /\ ReplayInv /\ Sound(commands, trades) /\ late \subseteq DOMAIN Plan
  BY SoundHere DEF AloneInv, TableTurn, SeedInv, RunsInv, RunsTyped
<1>2. ASSUME UNCHANGED pvars PROVE TableTurn' /\ Grew
  BY <1>1, <1>2, QuietTurn, QuietGrows DEF pvars
<1>3. ASSUME NEW n \in DOMAIN Plan, Arrive(n), Ready(commands, n) PROVE TableTurn' /\ Grew
  BY <1>1, <1>3, ArriveTurn, ArriveGrows
<1>4. ASSUME NEW d \in Seeder, Post(d) PROVE TableTurn' /\ Grew
  <2>1. Running(d) /\ (Arrive(run[d].at) \/ UNCHANGED pvars)
    BY <1>4 DEF Post
  <2> QED BY <1>2, <1>3, <2>1, RunReady
<1>5. ASSUME NEW n \in late, ArriveLate(n) PROVE TableTurn' /\ Grew
  <2>1. Ready(commands, n) /\ n \in DOMAIN Plan
    BY <1>1 DEF AloneInv
  <2> QED BY <1>2, <1>3, <1>5, <2>1 DEF ArriveLate
<1>6. CASE Visit
  <2>1. PICK key \in Visitor, r \in VisitorRequest : J!Accept(key, r, last + 1)
    BY <1>6 DEF Visit
  <2>2. trades' = trades
    BY <1>6 DEF Visit
  <2>3. /\ Grew /\ last + 1 \in DOMAIN commands' /\ commands'[last + 1].key = key
    BY <1>1, <2>1, <2>2, ArrivalGrows DEF Grew
  <2> QED BY <2>3 DEF TableTurn, Alone
<1>7. ASSUME NEW p \in Processor, Process(p) PROVE TableTurn' /\ Grew
  <2>1. Grew
    BY <1>1, <1>7, ProcessGrows DEF Process, Grew
  <2>2. CASE Commit(p)
    BY <1>1, <2>1, <2>2, InstallTurn DEF Commit, At
  <2>3. CASE ~Commit(p)
    <3>1. UNCHANGED <<commands, orders, trades>>
      BY <1>7, <2>3 DEF Process, ProcessorStep, TryLock, FindNothing, Claim, Apply,
                        Publish, Retry, Start
    <3> QED BY <1>1, <2>1, <3>1, QuietTurn
  <2> QED BY <2>1, <2>2, <2>3
<1>8. ASSUME NEW d \in Seeder, Begin(d) \/ Poll(d) \/ GiveUp(d) PROVE TableTurn' /\ Grew
  BY <1>2, <1>8 DEF Begin, Poll, GiveUp
<1>9. CASE UNCHANGED svars
  BY <1>2, <1>9 DEF svars
<1> QED BY <1>4, <1>5, <1>6, <1>7, <1>8, <1>9 DEF SeedNext

LEMMA StepRuns ==
  ASSUME SeedInv, AloneInv, ~torn, [SeedNext]_svars, ~Maintain,
         NEW d \in Seeder, run'[d].outcome = "running"
  PROVE  run'[d].undisturbed
<1>1. run \in [Seeder -> RunType] /\ run[d] \in RunType
  BY DEF SeedInv, RunsInv, RunsTyped
<1>2. CASE run'[d].outcome # run[d].outcome
  <2>1. \/ run'[d].undisturbed
        \/ Poll(d) /\ run'[d].undisturbed = run[d].undisturbed
    BY <1>2, OutcomeMoves
  <2>2. Poll(d) => run[d].undisturbed
    BY DEF Poll, AloneInv
  <2> QED BY <2>1, <2>2
<1>3. CASE run'[d].outcome = run[d].outcome
  <2>1. run[d].undisturbed
    BY <1>3 DEF AloneInv, Running
  <2>2. ASSUME NEW e \in Seeder, Post(e) PROVE run'[d].undisturbed
    <3>1. PICK q : run' = [run EXCEPT ![e] = [run[e] EXCEPT !.asked = q]]
      BY <2>2 DEF Post, Become
    <3>2. [run[d] EXCEPT !.asked = q].undisturbed = run[d].undisturbed
      BY <1>1 DEF RunType
    <3> QED BY <1>1, <2>1, <3>1, <3>2
  <2>3. ASSUME NEW e \in Seeder, Begin(e) PROVE run'[d].undisturbed
    <3>1. PICK f : /\ f = [NotStarted EXCEPT !.outcome = "running", !.undisturbed = TRUE]
                   /\ run' = [run EXCEPT ![e] = f]
      BY <2>3 DEF Begin, Become
    <3>2. RunIs(f, "running", 1, 0, {}, {}, TRUE)
      BY <3>1, BeginIs
    <3>3. f.undisturbed
      BY <3>2, BeginKnows
    <3> QED BY <1>1, <2>1, <3>1, <3>3
  <2>4. ASSUME NEW e \in Seeder, GiveUp(e) PROVE run'[d].undisturbed
    <3>1. run' = [run EXCEPT ![e] = [run[e] EXCEPT !.outcome = "failed"]]
      BY <2>4 DEF GiveUp, Become
    <3>2. [run[d] EXCEPT !.outcome = "failed"].undisturbed = run[d].undisturbed
      BY <1>1 DEF RunType
    <3> QED BY <1>1, <2>1, <3>1, <3>2
  <2>5. ASSUME NEW e \in Seeder, Poll(e) PROVE run'[d].undisturbed
    <3>1. PICK numbers \in SUBSET Nat, f \in RunType :
             Polled(f, run[e], numbers) /\ run' = [run EXCEPT ![e] = f]
      BY <2>5, PolledRun
    <3>2. run[e] \in RunType /\ run[e].outcome = "running" /\ run[e].at <= Len(Plan)
      BY <2>5 DEF SeedInv, RunsInv, RunsTyped, Poll, Running
    <3>3. f.undisturbed = run[e].undisturbed
      <4> DEFINE r == run[e]
      <4>1. /\ r \in RunType /\ r.outcome = "running" /\ r.at <= Len(Plan)
            /\ Polled(f, r, numbers)
        BY <3>1, <3>2
      <4> HIDE DEF r
      <4>2. f.undisturbed = r.undisturbed
        BY <4>1, PolledIs
      <4> QED BY <4>2 DEF r
    <3>4. run[e].undisturbed
      BY <2>5 DEF Poll, AloneInv
    <3>5. f.undisturbed
      BY <3>3, <3>4
    <3> QED BY <1>1, <2>1, <3>1, <3>5
  <2>6. ASSUME \/ \E n \in late : ArriveLate(n)
               \/ Visit \/ \E p \in Processor : Process(p)
               \/ UNCHANGED svars
        PROVE  run'[d].undisturbed
    <3>1. run' = run
      BY <2>6 DEF ArriveLate, Visit, Process, svars, client
    <3> QED BY <2>1, <3>1
  <2> QED BY <2>2, <2>3, <2>4, <2>5, <2>6 DEF SeedNext
<1> QED BY <1>2, <1>3

LEMMA StepLate ==
  ASSUME SeedInv, AloneInv, ~torn, [SeedNext]_svars, ~Maintain, NEW n \in late'
  PROVE  Ready(commands', n)
<1>1. Ready(commands, n)
  <2>1. CASE n \in late
    BY <2>1 DEF AloneInv
  <2>2. CASE n \notin late
    <3>1. PICK d \in Seeder : GiveUp(d)
      BY <2>2 DEF SeedNext, Begin, Post, Poll, ArriveLate, Visit, Process, svars, client
    <3>2. n = run[d].at /\ Running(d)
      BY <2>2, <3>1 DEF GiveUp
    <3> QED BY <3>2, RunReady
  <2> QED BY <2>1, <2>2
<1>2. Grew
  BY StepTurn
<1> QED BY <1>1, <1>2, GrowsDone DEF Ready, Grew

LEMMA AloneKeeps == SeedInv /\ AloneInv /\ [SeedNext]_svars => AloneInv'
<1> SUFFICES ASSUME SeedInv, AloneInv, [SeedNext]_svars, ~torn' PROVE AloneInv'
  BY DEF AloneInv
<1>1. CASE Maintain
  <2>1. /\ late' = {} /\ \A d \in Seeder : ~Running(d)
        /\ commands' = J!NoCommands
        /\ run' = [d \in Seeder |-> [run[d] EXCEPT !.undisturbed = FALSE]]
    BY <1>1 DEF Maintain, Reset, J!Erase
  <2>2. DOMAIN commands' = {}
    BY <2>1 DEF J!NoCommands
  <2>3. \A d \in Seeder : ~Running(d)'
    <3> SUFFICES ASSUME NEW d \in Seeder PROVE ~(run'[d].outcome = "running")
      BY DEF Running
    <3>1. run[d] \in RunType
      BY DEF SeedInv, RunsInv, RunsTyped
    <3>2. run'[d].outcome = run[d].outcome
      BY <2>1, <3>1 DEF RunType
    <3> QED BY <2>1, <3>2 DEF Running
  <2>4. InTurn(commands', orders', trades')
    BY <2>2 DEF InTurn
  <2> QED BY <2>1, <2>3, <2>4 DEF AloneInv
<1>2. CASE ~Maintain
  <2>1. torn' = torn
    BY <1>2 DEF SeedNext, Begin, Post, Poll, GiveUp, ArriveLate, Visit, Process, svars,
                client
  <2>2. TableTurn'
    BY <1>2, <2>1, StepTurn
  <2>3. \A d \in Seeder : Running(d)' => run'[d].undisturbed
    BY <1>2, <2>1, StepRuns DEF Running
  <2>4. \A n \in late' : Ready(commands', n)
    BY <1>2, <2>1, StepLate
  <2> QED BY <2>2, <2>3, <2>4 DEF AloneInv, TableTurn
<1> QED BY <1>1, <1>2

-----------------------------------------------------------------------------
(* Trades of a market have numbers of their own.                             *)
LEMMA NumbersDiffer ==
  ASSUME NEW ts, NEW symbol, Numbered(ts, symbol), IsFiniteSet(ts),
         NEW t \in ts, NEW u \in ts, t.symbol = symbol, u.symbol = symbol,
         t.sequence = u.sequence
  PROVE  t = u
<1> DEFINE its == {v \in ts : v.symbol = symbol}
           n == Cardinality(its)
           f == [v \in its |-> v.sequence]
<1>1. IsFiniteSet(its)
  BY FS_Subset
<1>2. n \in Nat
  BY <1>1, FS_CardinalityType
<1>3. {v.sequence : v \in its} = 1..n
  BY DEF Numbered
<1>4. t \in its /\ u \in its
  OBVIOUS
<1> HIDE DEF its, n
<1>5. f \in Surjection(its, 1..n)
  BY <1>3 DEF Surjection
<1>6. Cardinality(1..n) = n
  BY <1>2, FS_Interval
<1>7. f \in Injection(its, 1..n)
  BY <1>1, <1>5, <1>6, FS_Surjection DEF n
<1> QED BY <1>4, <1>7 DEF Injection, IsInjective

(* A market of the seed client's orders alone, with all of them done, has a     *)
(* trade for each pair at least.                                            *)
LEMMA EnoughAlone ==
  ASSUME SeedInv, Alone(commands), InTurn(commands, orders, trades),
         \A n \in DOMAIN Plan : Done(commands, n)
  PROVE  Cardinality(Got(commands, trades, Len(Plan) + 1)) >= Len(Pairs)
<1> DEFINE got == Got(commands, trades, Len(Plan) + 1)
           P == DOMAIN Pairs
           Of(i, t) == t \in trades /\ t.symbol = Starter /\ commands[t.command].key = 2 * i
           f == [i \in P |-> (CHOOSE t : Of(i, t)).sequence]
<1>1. /\ P = 1..Len(Pairs) /\ Len(Pairs) \in Nat /\ DOMAIN Plan # {}
      /\ \A i \in P : /\ 2 * i \in DOMAIN Plan /\ 2 * i < Len(Plan) + 1 /\ i \in Nat
                      /\ IsTaker(2 * i)
  <2>1. \A i \in DOMAIN Pairs : (2 * i) % 2 = 0 /\ i \in Nat
    BY PlanIs
  <2> QED BY <2>1, PlanIs DEF IsTaker
<1>2. Starter \in Symbol
  <2>1. PICK n \in DOMAIN Plan : TRUE
    BY <1>1
  <2>2. Plan[n] \in Request /\ Plan[n].symbol = Starter
    BY PlanOrders
  <2> QED BY <2>2, RequestAssumption
<1>3. Numbered(trades, Starter) /\ IsFiniteSet(trades) /\ trades \subseteq TradeRow
  BY <1>2 DEF SeedInv, LedgerInv, Ledger, TradesOk
<1>4. ASSUME NEW i \in P PROVE \E t : Of(i, t)
  <2>1. PICK q \in DOMAIN commands :
           commands[q].key = 2 * i /\ commands[q].status = "completed"
    BY <1>1 DEF Done
  <2>2. Settled(commands, orders, trades, q)
    BY <2>1 DEF InTurn
  <2>3. PICK t \in trades : t.command = q /\ t.symbol = Starter
    BY <1>1, <2>1, <2>2 DEF Settled
  <2> QED BY <2>1, <2>3
<1>5. \A i \in P : Of(i, CHOOSE t : Of(i, t))
  <2> HIDE DEF Of, P
  <2> QED BY <1>4, Zenon
<1>6. ASSUME NEW i \in P PROVE f[i] \in got
  <2>1. PICK t : t = CHOOSE v : Of(i, v)
    OBVIOUS
  <2>2. Of(i, t) /\ f[i] = t.sequence
    BY <1>5, <2>1
  <2>3. t.sequence \in PairNumbers(commands, trades, i)
    BY <2>2 DEF PairNumbers, NumbersOf
  <2>4. i \in {j \in DOMAIN Pairs : 2 * j < Len(Plan) + 1}
    BY <1>1
  <2> QED BY <2>2, <2>3, <2>4 DEF Got
<1>7. ASSUME NEW i \in P, NEW j \in P, f[i] = f[j] PROVE i = j
  <2>1. PICK t, u : t = (CHOOSE v : Of(i, v)) /\ u = (CHOOSE v : Of(j, v))
    OBVIOUS
  <2>2. Of(i, t) /\ Of(j, u) /\ t.sequence = u.sequence
    BY <1>5, <1>7, <2>1
  <2>3. t = u
    BY <1>3, <2>2, NumbersDiffer
  <2>4. 2 * i = 2 * j
    BY <2>2, <2>3
  <2> QED BY <1>1, <2>4
<1>8. IsFiniteSet(got)
  <2> DEFINE S == {t.sequence : t \in trades}
             g == [t \in trades |-> t.sequence]
  <2>1. g \in Surjection(trades, S)
    BY DEF Surjection
  <2>2. IsFiniteSet(S)
    BY <1>3, <2>1, FS_Surjection
  <2>3. got \subseteq S
    BY DEF Got, PairNumbers, NumbersOf
  <2> QED BY <2>2, <2>3, FS_Subset
<1> HIDE DEF got, P, f
<1>9. f \in Injection(P, got)
  <2>1. f \in [P -> got]
    BY <1>6 DEF f
  <2> QED BY <1>7, <2>1 DEF Injection, IsInjective
<1>10. Cardinality(P) <= Cardinality(got)
  BY <1>8, <1>9, FS_Injection
<1>11. Cardinality(P) = Len(Pairs)
  <2> DEFINE n == Len(Pairs)
  <2>1. n \in Nat /\ P = 1..n
    BY <1>1
  <2> HIDE DEF n
  <2>2. Cardinality(1..n) = IF 1 > n THEN 0 ELSE n - 1 + 1
    BY <2>1, FS_Interval
  <2>3. Cardinality(P) = n
    BY <2>1, <2>2
  <2> QED BY <2>3 DEF n
<1>12. Cardinality(got) \in Nat
  BY <1>8, FS_CardinalityType
<1> QED BY <1>1, <1>10, <1>11, <1>12 DEF got

LEMMA WholePlan ==
  ASSUME NEW cs, NEW at, at = Len(Plan) + 1, \A n \in 1..(at - 1) : Done(cs, n)
  PROVE  \A n \in DOMAIN Plan : Done(cs, n)
<1>1. 1..(at - 1) = DOMAIN Plan
  BY PlanIs
<1> QED BY <1>1

(* Only a visitor's order makes seed_market raise for missing trades, or a       *)
(* reset in the middle of a run: never another run, however many overlap, nor   *)
(* its own orders of an earlier run, posted again or late.                     *)
THEOREM SeedOthersSpoil == SeedSpec => []OthersSpoil
<1>1. SeedInit => AloneInv
  <2> SUFFICES ASSUME SeedInit PROVE AloneInv
    OBVIOUS
  <2>1. DOMAIN commands = {} /\ late = {}
    BY DEF SeedInit, Init, J!Init, J!NoCommands
  <2>2. \A d \in Seeder : ~Running(d)
    BY DEF SeedInit, Running, NotStarted
  <2> QED BY <2>1, <2>2 DEF AloneInv, InTurn
<1>2. SeedInv /\ AloneInv => OthersSpoil
  <2> SUFFICES ASSUME SeedInv, AloneInv, NEW d \in Seeder,
                      run[d].outcome \in {"no trade", "too few"}, run[d].undisturbed, ~torn,
                      Alone(commands)
               PROVE  FALSE
    BY DEF OthersSpoil, Alone
  <2>1. InTurn(commands, orders, trades)
    BY DEF AloneInv
  <2>2. Knows(commands, trades, run[d])
    BY DEF SeedInv, RunsInv
  <2>3. CASE run[d].outcome = "no trade"
    <3>1. /\ IsTaker(run[d].at) /\ Done(commands, run[d].at)
          /\ NumbersOf(commands, trades, run[d].at) = {}
      BY <2>2, <2>3 DEF Knows
    <3>2. PICK q \in DOMAIN commands :
             commands[q].key = run[d].at /\ commands[q].status = "completed"
      BY <3>1 DEF Done
    <3>3. Settled(commands, orders, trades, q)
      BY <2>1, <3>2 DEF InTurn
    <3>4. PICK t \in trades : t.command = q
      BY <3>1, <3>2, <3>3 DEF Settled
    <3>5. t.sequence \in NumbersOf(commands, trades, run[d].at)
      BY <3>2, <3>4 DEF NumbersOf
    <3> QED BY <3>1, <3>5
  <2>4. CASE run[d].outcome = "too few"
    <3>1. /\ run[d].at = Len(Plan) + 1
          /\ \A n \in 1..(run[d].at - 1) : Done(commands, n)
          /\ run[d].produced = Got(commands, trades, run[d].at)
          /\ ~(Cardinality(run[d].produced) >= Len(Pairs))
      BY <2>2, <2>4 DEF Knows
    <3>2. \A n \in DOMAIN Plan : Done(commands, n)
      BY <3>1, WholePlan
    <3>3. Cardinality(Got(commands, trades, Len(Plan) + 1)) >= Len(Pairs)
      BY <2>1, <3>2, EnoughAlone
    <3> QED BY <3>1, <3>3
  <2> QED BY <2>3, <2>4
<1>3. SeedInv /\ AloneInv /\ [SeedNext]_svars => AloneInv'
  BY AloneKeeps
<1> QED BY <1>1, <1>2, <1>3, SeedInvHolds, PTL DEF SeedSpec
=============================================================================
