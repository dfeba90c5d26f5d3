------------------------- MODULE LessonClient_proofs -------------------------
(***************************************************************************)
(* Theorems about LessonClient, for any number of submissions and faults.     *)
(***************************************************************************)
EXTENDS LessonClient, SequenceTheorems, TLAPS

(* The page and what is left of its action, with the types of all fields.     *)
Slot == [key : Nat, receipt : BOOLEAN, ambiguous : BOOLEAN,
         rejected : BOOLEAN, cancelled : BOOLEAN]

Page == [slot : [Slots -> Slot], checked : {"unread", "open", "closed"},
         stage : 0..2, result : BOOLEAN, keys : 0..MaxKeys]

Task == {"submit", "check", "clear", "cancel", "confirm", "look", "ready",
         "verify", "succeed", "over"} \X Slots

Types ==
    /\ orders \in [Keys -> [order : Status, cancel : {"none", "queued", "done"}]]
    /\ late \subseteq [to : {"place", "cancel"}, key : Keys]
    /\ page \in Page
    /\ todo \in Seq(Task)
    /\ faults \in 0..MaxFaults

(* An order whose fate is sealed.                                            *)
Final(o) == o.order \in {"filled", "cancelled", "rejected"}

(* Only keys that were given out have reached the server; each is that of one  *)
(* submission.                                                              *)
KeysInv ==
    /\ \A s \in Slots : page.slot[s].key <= page.keys
    /\ \A s, t \in Slots : Held(s) /\ page.slot[s].key = page.slot[t].key => s = t
    /\ \A k \in Keys : k > page.keys =>
          /\ orders[k] = [order |-> "none", cancel |-> "none"]
          /\ \A call \in late : call.key # k

(* What the flags of a submission tell about its order.                      *)
SlotInv(s) ==
    LET slot == page.slot[s] IN
    IF Held(s)
    THEN /\ slot.receipt => Order(s) # "none"
         /\ slot.cancelled => orders[slot.key].cancel # "none"
         /\ slot.rejected => ~slot.receipt /\ ~slot.ambiguous
         /\ ~slot.receipt /\ ~slot.ambiguous =>
               Order(s) = "none" /\ [to |-> "place", key |-> slot.key] \notin late
    ELSE slot = Nothing

SlotsInv == \A s \in Slots : SlotInv(s)

(* What the page knows of the first offer.                                   *)
CheckedInv ==
    /\ page.checked # "unread" => page.slot["practice"].receipt
    /\ page.checked = "open" => Order("practice") \in {"open", "filled", "cancelled"}
    /\ page.checked = "closed" => Order("practice") \in {"filled", "cancelled"}

FirstOfferDone == Held("practice") => page.checked = "closed"

(* While there is a matching buyer, the first offer is done.                 *)
MatchInv ==
    Held("match") =>
        /\ FirstOfferDone
        /\ page.stage # 0 /\ (Held("practice") \/ page.stage = 2)

Members(tasks) == {tasks[i] : i \in DOMAIN tasks}

Left == Members(todo)

ToClear(s) == <<"clear", s>> \in Left \/ <<"confirm", s>> \in Left

Last == {"check", "look", "succeed", "over"}

(* A list of tasks: some come last; and nothing is done for the first offer    *)
(* once its order is settled.                                                *)
Orderly(tasks) ==
    \A i, j \in DOMAIN tasks : i < j =>
        /\ tasks[i][1] \notin Last
        /\ tasks[i] \in {<<"clear", "practice">>, <<"confirm", "practice">>} =>
              tasks[j][2] # "practice"

TodoInv ==
    /\ Orderly(todo)
    /\ \A t \in Left : t[1] \notin {"look", "over"} => Held(t[2])
    /\ \A s \in Slots : <<"cancel", s>> \in Left \/ <<"confirm", s>> \in Left =>
          page.slot[s].receipt /\ Order(s) \in {"open", "filled", "cancelled"}

(* A submission that has not been sent is sent next.                         *)
FreshInv ==
    \A s \in Slots :
        Held(s) /\ ~page.slot[s].receipt /\ ~page.slot[s].ambiguous
           /\ ~page.slot[s].rejected => todo # <<>> /\ todo[1] = <<"submit", s>>

LookInv ==
    \A s \in Slots : <<"look", s>> \in Left =>
        /\ ~Held("match") /\ ~page.result /\ page.stage = 2
        /\ FirstOfferDone \/ ToClear("practice")

(* Before the lesson is over, every submission is settled, or will be, or was  *)
(* refused and is not sent again.                                            *)
OverInv ==
    \A o \in Slots : <<"over", o>> \in Left =>
        /\ ~page.result
        /\ \A s \in Slots :
              /\ Held(s) => \/ Final(orders[page.slot[s].key])
                            \/ ToClear(s)
                            \/ page.slot[s].rejected /\ <<"submit", s>> \notin Left
              /\ <<"submit", s>> \in Left =>
                    page.slot[s].receipt \/ page.slot[s].ambiguous

SucceedInv ==
    \A s \in Slots : <<"succeed", s>> \in Left =>
        /\ ~page.result /\ Held("match")
        /\ Order("match") = "filled" \/ <<"verify", "match">> \in Left
        /\ Held("setup") => Final(orders[page.slot["setup"].key]) \/ ToClear("setup")

ResultInv ==
    page.result =>
        /\ Held("match")
        /\ \A s \in Slots : Held(s) => Final(orders[page.slot[s].key])

LiveInv == \A k \in Keys : Live(k) => \E s \in Slots : page.slot[s].key = k

Inv ==
    /\ Types
    /\ KeysInv
    /\ SlotsInv
    /\ CheckedInv
    /\ MatchInv
    /\ TodoInv
    /\ FreshInv
    /\ LookInv
    /\ OverInv
    /\ SucceedInv
    /\ ResultInv
    /\ LiveInv
-----------------------------------------------------------------------------
(* Lists of tasks                                                           *)

LEMMA NoTasks == Members(<<>>) = {} /\ Orderly(<<>>)
BY DEF Members, Orderly

LEMMA OneTask ==
  ASSUME NEW x \in Task
  PROVE  <<x>> \in Seq(Task) /\ Members(<<x>>) = {x} /\ Orderly(<<x>>)
BY DEF Members, Orderly

LEMMA TwoTasks ==
  ASSUME NEW x \in Task, NEW y \in Task, x[1] \notin Last,
         x \in {<<"clear", "practice">>, <<"confirm", "practice">>} => y[2] # "practice"
  PROVE  <<x, y>> \in Seq(Task) /\ Members(<<x, y>>) = {x, y} /\ Orderly(<<x, y>>)
<1> DEFINE l == <<x, y>>
<1>1. l \in Seq(Task) /\ DOMAIN l = {1, 2} /\ l[1] = x /\ l[2] = y
  OBVIOUS
<1> HIDE DEF l
<1>2. Members(l) = {x, y}
  BY <1>1 DEF Members
<1>3. Orderly(l)
  BY <1>1 DEF Orderly
<1> QED BY <1>1, <1>2, <1>3 DEF l

LEMMA HeadAndTail ==
  ASSUME NEW l \in Seq(Task), l # <<>>
  PROVE  /\ Tail(l) \in Seq(Task) /\ l[1] \in Task
         /\ Members(l) = {l[1]} \cup Members(Tail(l))
         /\ Orderly(l) =>
               /\ Orderly(Tail(l))
               /\ l[1][1] \in Last => Tail(l) = <<>>
               /\ l[1] \in {<<"clear", "practice">>, <<"confirm", "practice">>} =>
                     \A t \in Members(Tail(l)) : t[2] # "practice"
<1> DEFINE r == Tail(l)
<1>1. /\ Len(l) \in Nat /\ Len(l) # 0 /\ DOMAIN l = 1..Len(l)
      /\ r \in Seq(Task) /\ DOMAIN r = 1..(Len(l) - 1) /\ Len(r) = Len(l) - 1
      /\ \A i \in 1..(Len(l) - 1) : r[i] = l[i + 1]
  BY EmptySeq, LenProperties, HeadTailProperties
<1>2. l[1] \in Task
  BY <1>1, ElementOfSeq
<1> HIDE DEF r
<1>3. Members(l) = {l[1]} \cup Members(r)
  <2>1. ASSUME NEW i \in DOMAIN l PROVE l[i] \in {l[1]} \cup Members(r)
    <3>1. CASE i = 1
      BY <3>1
    <3>2. CASE i # 1
      <4>1. i - 1 \in DOMAIN r /\ r[i - 1] = l[i]
        BY <1>1, <3>2
      <4> QED BY <4>1 DEF Members
    <3> QED BY <3>1, <3>2
  <2>2. l[1] \in Members(l)
    BY <1>1 DEF Members
  <2>3. ASSUME NEW i \in DOMAIN r PROVE r[i] \in Members(l)
    <3>1. i + 1 \in DOMAIN l /\ r[i] = l[i + 1]
      BY <1>1
    <3> QED BY <3>1 DEF Members
  <2> QED BY <2>1, <2>2, <2>3 DEF Members
<1>4. ASSUME Orderly(l) PROVE Orderly(r)
  <2> SUFFICES ASSUME NEW i \in DOMAIN r, NEW j \in DOMAIN r, i < j
               PROVE  /\ r[i][1] \notin Last
                      /\ r[i] \in {<<"clear", "practice">>, <<"confirm", "practice">>} =>
                            r[j][2] # "practice"
    BY DEF Orderly
  <2>1. /\ i + 1 \in DOMAIN l /\ j + 1 \in DOMAIN l /\ i + 1 < j + 1
        /\ r[i] = l[i + 1] /\ r[j] = l[j + 1]
    BY <1>1
  <2> QED BY <1>4, <2>1 DEF Orderly
<1>5. ASSUME Orderly(l), l[1][1] \in Last PROVE r = <<>>
  <2>1. Len(l) = 1
    <3> SUFFICES ASSUME Len(l) # 1 PROVE FALSE
      OBVIOUS
    <3>1. 1 \in DOMAIN l /\ 2 \in DOMAIN l /\ 1 < 2
      BY <1>1
    <3> QED BY <1>5, <3>1 DEF Orderly
  <2> QED BY <1>1, <2>1, EmptySeq
<1>6. ASSUME Orderly(l), l[1] \in {<<"clear", "practice">>, <<"confirm", "practice">>},
             NEW t \in Members(r)
      PROVE  t[2] # "practice"
  <2>1. PICK i \in DOMAIN r : t = r[i]
    BY DEF Members
  <2>2. 1 \in DOMAIN l /\ i + 1 \in DOMAIN l /\ 1 < i + 1 /\ r[i] = l[i + 1]
    BY <1>1
  <2> QED BY <1>6, <2>1, <2>2 DEF Orderly
<1> QED BY <1>1, <1>2, <1>3, <1>4, <1>5, <1>6 DEF r

LEMMA ListsJoined ==
  ASSUME NEW a \in Seq(Task), NEW b \in Seq(Task)
  PROVE  /\ a \o b \in Seq(Task) /\ Members(a \o b) = Members(a) \cup Members(b)
         /\ (/\ Orderly(a) /\ Orderly(b) /\ \A t \in Members(a) : t[1] \notin Last
             /\ Members(a) \cap {<<"clear", "practice">>, <<"confirm", "practice">>} # {}
                   => \A t \in Members(b) : t[2] # "practice")
            => Orderly(a \o b)
<1> DEFINE l == a \o b
<1>1. /\ Len(a) \in Nat /\ Len(b) \in Nat /\ DOMAIN a = 1..Len(a) /\ DOMAIN b = 1..Len(b)
      /\ l \in Seq(Task) /\ DOMAIN l = 1..(Len(a) + Len(b))
      /\ \A i \in 1..(Len(a) + Len(b)) : l[i] = IF i <= Len(a) THEN a[i] ELSE b[i - Len(a)]
  <2>1. /\ l \in Seq(Task) /\ Len(l) = Len(a) + Len(b)
        /\ \A i \in 1..(Len(a) + Len(b)) : l[i] = IF i <= Len(a) THEN a[i] ELSE b[i - Len(a)]
    BY ConcatProperties
  <2> HIDE DEF l
  <2> QED BY <2>1, LenProperties
<1> HIDE DEF l
<1>2. ASSUME NEW i \in DOMAIN l
      PROVE  \/ i \in DOMAIN a /\ l[i] = a[i]
             \/ i - Len(a) \in DOMAIN b /\ l[i] = b[i - Len(a)] /\ i > Len(a)
  BY <1>1
<1>3. Members(l) = Members(a) \cup Members(b)
  <2>1. Members(l) \subseteq Members(a) \cup Members(b)
    BY <1>2 DEF Members
  <2>2. ASSUME NEW i \in DOMAIN a PROVE a[i] \in Members(l)
    <3>1. i \in DOMAIN l /\ l[i] = a[i]
      BY <1>1
    <3> QED BY <3>1 DEF Members
  <2>3. ASSUME NEW i \in DOMAIN b PROVE b[i] \in Members(l)
    <3>1. i + Len(a) \in DOMAIN l /\ l[i + Len(a)] = b[i]
      BY <1>1
    <3> QED BY <3>1 DEF Members
  <2> QED BY <2>1, <2>2, <2>3 DEF Members
<1>4. ASSUME Orderly(a), Orderly(b), \A t \in Members(a) : t[1] \notin Last,
             Members(a) \cap {<<"clear", "practice">>, <<"confirm", "practice">>} # {}
                => \A t \in Members(b) : t[2] # "practice"
      PROVE  Orderly(l)
  <2> SUFFICES ASSUME NEW i \in DOMAIN l, NEW j \in DOMAIN l, i < j
               PROVE  /\ l[i][1] \notin Last
                      /\ l[i] \in {<<"clear", "practice">>, <<"confirm", "practice">>} =>
                            l[j][2] # "practice"
    BY DEF Orderly
  <2>1. CASE i \in DOMAIN a /\ l[i] = a[i] /\ j \in DOMAIN a /\ l[j] = a[j]
    BY <1>4, <2>1 DEF Orderly
  <2>2. CASE i \in DOMAIN a /\ l[i] = a[i] /\ j - Len(a) \in DOMAIN b /\ l[j] = b[j - Len(a)]
    <3>1. l[i] \in Members(a) /\ l[j] \in Members(b)
      BY <2>2 DEF Members
    <3> QED BY <1>4, <3>1
  <2>3. CASE i - Len(a) \in DOMAIN b /\ l[i] = b[i - Len(a)]
             /\ j - Len(a) \in DOMAIN b /\ l[j] = b[j - Len(a)]
    <3>1. i - Len(a) < j - Len(a)
      BY <1>1
    <3> QED BY <1>4, <2>3, <3>1 DEF Orderly
  <2>4. ~(i > Len(a) /\ j \in DOMAIN a)
    BY <1>1
  <2> QED BY <1>2, <2>1, <2>2, <2>3, <2>4
<1> QED BY <1>1, <1>3, <1>4 DEF l
-----------------------------------------------------------------------------
(* What the server does to orders, when it may be sent one more of the calls   *)
(* sent.                                                                    *)

Evolves(sent) ==
    /\ orders' \in [Keys -> [order : Status, cancel : {"none", "queued", "done"}]]
    /\ late' \subseteq [to : {"place", "cancel"}, key : Keys]
    /\ late' \subseteq late \cup sent
    /\ \A k \in Keys :
          /\ Final(orders[k]) => orders'[k].order = orders[k].order
          /\ orders[k].order = "open" => orders'[k].order \in {"open", "filled", "cancelled"}
          /\ orders[k].order # "none" => orders'[k].order # "none"
          /\ orders[k].cancel # "none" => orders'[k].cancel # "none"
          /\ orders[k].order = "none" /\ orders'[k].order # "none" =>
                [to |-> "place", key |-> k] \in late \cup sent
          /\ orders[k].cancel = "none" /\ orders'[k].cancel # "none" =>
                [to |-> "cancel", key |-> k] \in late \cup sent

LEMMA AcceptedEvolves ==
  ASSUME Types, NEW call \in [to : {"place", "cancel"}, key : Keys], NEW sent,
         call \in late \cup sent, orders' = Accepted(call), late' \subseteq late \cup sent,
         late' \subseteq [to : {"place", "cancel"}, key : Keys]
  PROVE  /\ Evolves(sent)
         /\ call.to = "place" => orders'[call.key].order # "none"
         /\ call.to = "cancel" => orders'[call.key].cancel # "none"
<1> DEFINE k == call.key
           o == orders[k]
           n == IF call.to = "place" /\ o.order = "none" THEN [o EXCEPT !.order = "queued"]
                ELSE IF call.to = "cancel" /\ o.cancel = "none"
                THEN [o EXCEPT !.cancel = "queued"] ELSE o
<1>1. /\ k \in Keys /\ o \in [order : Status, cancel : {"none", "queued", "done"}]
      /\ orders' = [orders EXCEPT ![k] = n]
      /\ call = [to |-> call.to, key |-> k] /\ call.to \in {"place", "cancel"}
  BY DEF Types, Accepted
<1>2. n \in [order : Status, cancel : {"none", "queued", "done"}]
  BY <1>1 DEF Status
<1>3. /\ o.order # "none" => n.order = o.order
      /\ o.cancel # "none" => n.cancel = o.cancel
      /\ o.order = "none" => n.order = IF call.to = "place" THEN "queued" ELSE "none"
      /\ o.cancel = "none" => n.cancel = IF call.to = "cancel" THEN "queued" ELSE "none"
  BY <1>1
<1> HIDE DEF n
<1>4. /\ orders'[k] = n /\ \A j \in Keys : j # k => orders'[j] = orders[j]
      /\ orders' \in [Keys -> [order : Status, cancel : {"none", "queued", "done"}]]
  BY <1>1, <1>2 DEF Types
<1>5. ASSUME NEW j \in Keys
      PROVE  /\ Final(orders[j]) => orders'[j].order = orders[j].order
             /\ orders[j].order = "open" =>
                   orders'[j].order \in {"open", "filled", "cancelled"}
             /\ orders[j].order # "none" => orders'[j].order # "none"
             /\ orders[j].cancel # "none" => orders'[j].cancel # "none"
             /\ orders[j].order = "none" /\ orders'[j].order # "none" =>
                   [to |-> "place", key |-> j] \in late \cup sent
             /\ orders[j].cancel = "none" /\ orders'[j].cancel # "none" =>
                   [to |-> "cancel", key |-> j] \in late \cup sent
  <2>1. CASE j # k
    BY <1>4, <2>1
  <2>2. CASE j = k
    BY <1>1, <1>3, <1>4, <2>2 DEF Final
  <2> QED BY <2>1, <2>2
<1>6. Evolves(sent)
  BY <1>4, <1>5 DEF Evolves
<1> QED BY <1>1, <1>3, <1>4, <1>6

LEMMA NothingEvolves ==
  ASSUME Types, UNCHANGED <<orders, late>>, NEW sent
  PROVE  Evolves(sent)
BY DEF Types, Evolves

LEMMA ServerEvolves ==
  ASSUME Types, Server
  PROVE  Evolves({}) /\ UNCHANGED <<page, todo, faults>>
<1>1. ASSUME NEW call \in late, orders' = Accepted(call), late' = late \ {call}
      PROVE  Evolves({})
  BY <1>1, AcceptedEvolves DEF Types
<1>2. ArriveLate => Evolves({}) /\ UNCHANGED <<page, todo, faults>>
  BY <1>1 DEF ArriveLate
<1>3. ASSUME NEW k \in Keys, ProcessOrder(k) \/ ProcessCancel(k) \/ OthersAct(k)
      PROVE  Evolves({}) /\ UNCHANGED <<page, todo, faults>>
  <2>1. UNCHANGED <<late, page, todo, faults>>
    BY <1>3 DEF ProcessOrder, ProcessCancel, OthersAct
  <2>2. PICK n \in [order : Status, cancel : {"none", "queued", "done"}] :
           /\ orders' = [orders EXCEPT ![k] = n]
           /\ n.order = "none" <=> orders[k].order = "none"
           /\ n.cancel = "none" <=> orders[k].cancel = "none"
           /\ Final(orders[k]) => n.order = orders[k].order
           /\ orders[k].order = "open" => n.order \in {"open", "filled", "cancelled"}
    <3>1. orders[k] \in [order : Status, cancel : {"none", "queued", "done"}]
      BY DEF Types
    <3>2. CASE ProcessOrder(k)
      <4>1. PICK outcome \in {"open", "filled", "rejected"} :
               orders' = [orders EXCEPT ![k].order = outcome]
        BY <3>2 DEF ProcessOrder
      <4> DEFINE n == [orders[k] EXCEPT !.order = outcome]
      <4>2. /\ n \in [order : Status, cancel : {"none", "queued", "done"}]
            /\ n.order = outcome /\ n.cancel = orders[k].cancel
            /\ orders' = [orders EXCEPT ![k] = n]
        BY <3>1, <4>1 DEF Status
      <4> HIDE DEF n
      <4> QED BY <3>2, <4>2 DEF ProcessOrder, Final
    <3>3. CASE ProcessCancel(k)
      <4> DEFINE n == [order |-> IF orders[k].order = "open" THEN "cancelled"
                                                          ELSE orders[k].order,
                       cancel |-> "done"]
      <4>1. /\ n \in [order : Status, cancel : {"none", "queued", "done"}]
            /\ orders' = [orders EXCEPT ![k] = n] /\ orders[k].cancel = "queued"
        BY <3>1, <3>3 DEF ProcessCancel, Status
      <4> QED BY <3>1, <4>1 DEF Final
    <3>4. CASE OthersAct(k)
      <4>1. PICK outcome \in {"filled", "cancelled"} :
               orders' = [orders EXCEPT ![k].order = outcome]
        BY <3>4 DEF OthersAct
      <4> DEFINE n == [orders[k] EXCEPT !.order = outcome]
      <4>2. /\ n \in [order : Status, cancel : {"none", "queued", "done"}]
            /\ n.order = outcome /\ n.cancel = orders[k].cancel
            /\ orders' = [orders EXCEPT ![k] = n]
        BY <3>1, <4>1 DEF Status
      <4> HIDE DEF n
      <4> QED BY <3>4, <4>2 DEF OthersAct, Final
    <3> QED BY <1>3, <3>2, <3>3, <3>4
  <2>3. /\ orders'[k] = n /\ \A j \in Keys : j # k => orders'[j] = orders[j]
        /\ orders' \in [Keys -> [order : Status, cancel : {"none", "queued", "done"}]]
    BY <2>2 DEF Types
  <2> QED BY <2>1, <2>2, <2>3 DEF Evolves, Types
<1> QED BY <1>2, <1>3 DEF Server

(* Facts about orders that no step undoes.                                   *)
LEMMA FactsStay ==
  ASSUME Types, NEW sent, Evolves(sent), NEW k \in Keys
  PROVE  /\ Final(orders[k]) => Final(orders'[k])
         /\ orders[k].order \in {"filled", "cancelled"} =>
               orders'[k].order \in {"filled", "cancelled"}
         /\ orders[k].order \in {"open", "filled", "cancelled"} =>
               orders'[k].order \in {"open", "filled", "cancelled"}
         /\ orders[k].order = "filled" => orders'[k].order = "filled"
         /\ orders[k].order # "none" => orders'[k].order # "none"
         /\ orders[k].cancel # "none" => orders'[k].cancel # "none"
         /\ Final(orders[k]) => ~Live(k)
BY DEF Evolves, Final, Live

LEMMA KeyOfSlot ==
  ASSUME Types, KeysInv, NEW s \in Slots, Held(s)
  PROVE  page.slot[s].key \in Keys /\ page.slot[s].key <= page.keys
<1> DEFINE k == page.slot[s].key
<1>1. page.slot \in [Slots -> Slot] /\ page.keys \in 0..MaxKeys /\ MaxKeys \in Nat
  BY LessonAssumption DEF Types, Page
<1>2. k \in Nat
  BY <1>1 DEF Slot
<1>3. k # 0 /\ k <= page.keys
  BY DEF Held, KeysInv
<1> HIDE DEF k
<1>4. k \in Keys /\ k <= page.keys
  BY <1>1, <1>2, <1>3 DEF Keys
<1> QED BY <1>4 DEF k

(* A submission whose order has not been sent, and is not on its way.         *)
LEMMA UnsentStays ==
  ASSUME Types, NEW sent, Evolves(sent), NEW k \in Keys,
         orders[k].order = "none", [to |-> "place", key |-> k] \notin late \cup sent
  PROVE  orders'[k].order = "none" /\ [to |-> "place", key |-> k] \notin late'
BY DEF Evolves

(* The page and what is to do remain, whatever the server does.               *)
LEMMA ServerKeepsInv ==
  ASSUME Inv, Evolves({}), UNCHANGED <<page, todo, faults>>
  PROVE  Inv'
<1>1. Types /\ KeysInv /\ Types'
  BY DEF Inv, Types, Evolves
<1>2. \A s \in Slots : Held(s) => page.slot[s].key \in Keys
  BY <1>1, KeyOfSlot
<1>3. \A s \in Slots : Held(s)' <=> Held(s)
  BY DEF Held
<1>4. KeysInv'
  <2>1. ASSUME NEW k \in Keys, k > page.keys
        PROVE  orders'[k] = [order |-> "none", cancel |-> "none"]
               /\ \A call \in late' : call.key # k
    <3>1. /\ orders[k] = [order |-> "none", cancel |-> "none"]
          /\ \A call \in late : call.key # k
      BY <1>1, <2>1 DEF KeysInv
    <3>2. late' \subseteq late
      BY DEF Evolves
    <3>3. orders'[k].order = "none" /\ orders'[k].cancel = "none"
      <4>1. [to |-> "place", key |-> k] \notin late /\ [to |-> "cancel", key |-> k] \notin late
        BY <3>1
      <4>2. orders[k].order = "none" /\ orders[k].cancel = "none"
        BY <3>1
      <4> QED BY <4>1, <4>2 DEF Evolves
    <3>4. orders'[k] \in [order : Status, cancel : {"none", "queued", "done"}]
      BY DEF Evolves
    <3> QED BY <3>1, <3>2, <3>3, <3>4
  <2> QED BY <1>1, <1>3, <2>1 DEF KeysInv, Held
<1>5. SlotsInv'
  <2> SUFFICES ASSUME NEW s \in Slots PROVE SlotInv(s)'
    BY DEF SlotsInv
  <2>1. SlotInv(s)
    BY DEF Inv, SlotsInv
  <2>2. CASE Held(s)
    <3> DEFINE k == page.slot[s].key
    <3>1. k \in Keys
      BY <1>2, <2>2
    <3>2. /\ orders[k].order # "none" => orders'[k].order # "none"
          /\ orders[k].cancel # "none" => orders'[k].cancel # "none"
      BY <1>1, <3>1, FactsStay
    <3>3. orders[k].order = "none" /\ [to |-> "place", key |-> k] \notin late =>
             orders'[k].order = "none" /\ [to |-> "place", key |-> k] \notin late'
      BY <1>1, <3>1, UnsentStays
    <3> QED BY <1>3, <2>1, <2>2, <3>2, <3>3 DEF SlotInv, Order
  <2>3. CASE ~Held(s)
    BY <1>3, <2>1, <2>3 DEF SlotInv
  <2> QED BY <2>2, <2>3
<1>6. CheckedInv'
  <2>1. page.checked # "unread" => Held("practice")
    BY DEF Inv, CheckedInv, SlotsInv, SlotInv, Slots, Nothing
  <2> DEFINE k == page.slot["practice"].key
  <2>2. page.checked # "unread" => k \in Keys
    BY <1>2, <2>1 DEF Slots
  <2> HIDE DEF k
  <2>3. k \in Keys =>
           /\ orders[k].order \in {"filled", "cancelled"} =>
                 orders'[k].order \in {"filled", "cancelled"}
           /\ orders[k].order \in {"open", "filled", "cancelled"} =>
                 orders'[k].order \in {"open", "filled", "cancelled"}
    BY <1>1, FactsStay
  <2> QED BY <2>2, <2>3 DEF Inv, CheckedInv, Order, k
<1>7. MatchInv' /\ FreshInv' /\ LookInv'
  <2>1. Left' = Left /\ (FirstOfferDone' <=> FirstOfferDone)
        /\ \A s \in Slots : ToClear(s)' <=> ToClear(s)
    BY <1>3 DEF Left, Members, FirstOfferDone, Held, ToClear
  <2> QED BY <1>3, <2>1 DEF Inv, MatchInv, FreshInv, LookInv, Held, Slots
<1>8. TodoInv'
  <2>1. Left' = Left
    BY DEF Left, Members
  <2>2. ASSUME NEW s \in Slots, <<"cancel", s>> \in Left \/ <<"confirm", s>> \in Left
        PROVE  page.slot[s].receipt
               /\ orders'[page.slot[s].key].order \in {"open", "filled", "cancelled"}
    <3>1. page.slot[s].receipt
          /\ orders[page.slot[s].key].order \in {"open", "filled", "cancelled"}
      BY <2>2 DEF Inv, TodoInv, Order
    <3>2. Held(s)
      <4>1. SlotInv(s)
        BY DEF Inv, SlotsInv
      <4> QED BY <3>1, <4>1 DEF SlotInv, Nothing
    <3>3. page.slot[s].key \in Keys
      BY <1>2, <3>2
    <3> QED BY <1>1, <3>1, <3>3, FactsStay
  <2> QED BY <2>1, <2>2 DEF Inv, TodoInv, Order, Orderly, Held
<1>9. \A s \in Slots : Held(s) /\ Final(orders[page.slot[s].key]) =>
                          Final(orders'[page.slot[s].key])
  BY <1>1, <1>2, FactsStay
<1>10. Left' = Left /\ \A s \in Slots : ToClear(s)' <=> ToClear(s)
  BY DEF Left, Members, ToClear
<1>11. OverInv' /\ ResultInv'
  <2>1. OverInv'
    BY <1>3, <1>9, <1>10 DEF Inv, OverInv
  <2>2. ResultInv'
    <3>1. Held("match")' <=> Held("match")
      BY DEF Held
    <3> QED BY <1>3, <1>9, <3>1 DEF Inv, ResultInv
  <2> QED BY <2>1, <2>2
<1>12. SucceedInv'
  <2>1. Held("match") /\ Order("match") = "filled" =>
           orders'[page.slot["match"].key].order = "filled"
    BY <1>1, <1>2, FactsStay DEF Order, Slots
  <2> QED BY <1>3, <1>9, <1>10, <2>1 DEF Inv, SucceedInv, Final, Order, Slots
<1>13. LiveInv'
  <2>1. \A k \in Keys : Live(k)' => Live(k)
    BY DEF Evolves, Live, Final, Types, Status, Inv
  <2> QED BY <2>1 DEF Inv, LiveInv
<1> QED BY <1>1, <1>4, <1>5, <1>6, <1>7, <1>8, <1>11, <1>12, <1>13 DEF Inv-----------------------------------------------------------------------------
(* Steps that leave the server alone                                        *)

LEMMA WithSlotIs ==
  ASSUME page \in Page, NEW s \in Slots, NEW n \in Slot
  PROVE  /\ WithSlot(s, n) \in Page
         /\ WithSlot(s, n).slot[s] = n
         /\ \A t \in Slots : t # s => WithSlot(s, n).slot[t] = page.slot[t]
         /\ WithSlot(s, n).checked = page.checked /\ WithSlot(s, n).stage = page.stage
         /\ WithSlot(s, n).result = page.result /\ WithSlot(s, n).keys = page.keys
BY DEF WithSlot, Page

LEMMA HeadTask ==
  ASSUME Types, TodoInv, todo # <<>>
  PROVE  /\ Tail(todo) \in Seq(Task) /\ Orderly(Tail(todo))
         /\ todo[1] \in Task /\ todo[1][2] \in Slots
         /\ todo[1] = <<todo[1][1], todo[1][2]>>
         /\ Left = {todo[1]} \cup Members(Tail(todo))
         /\ todo[1][1] \in Last => Tail(todo) = <<>>
         /\ todo[1] \in {<<"clear", "practice">>, <<"confirm", "practice">>} =>
               \A t \in Members(Tail(todo)) : t[2] # "practice"
         /\ todo[1][1] \notin {"look", "over"} => Held(todo[1][2])
<1>1. todo \in Seq(Task) /\ Orderly(todo)
  BY DEF Types, TodoInv
<1>2. /\ Tail(todo) \in Seq(Task) /\ Orderly(Tail(todo))
      /\ todo[1] \in Task
      /\ Left = {todo[1]} \cup Members(Tail(todo))
      /\ todo[1][1] \in Last => Tail(todo) = <<>>
      /\ todo[1] \in {<<"clear", "practice">>, <<"confirm", "practice">>} =>
               \A t \in Members(Tail(todo)) : t[2] # "practice"
  BY <1>1, HeadAndTail DEF Left
<1>3. todo[1][2] \in Slots /\ todo[1] = <<todo[1][1], todo[1][2]>>
  BY <1>2 DEF Task
<1>4. todo[1][1] \notin {"look", "over"} => Held(todo[1][2])
  BY <1>2 DEF TodoInv
<1> QED BY <1>2, <1>3, <1>4

(* The invariants about the page alone, and those about what is left to do.   *)
PageInv == KeysInv /\ SlotsInv /\ CheckedInv /\ MatchInv /\ ResultInv /\ LiveInv

TasksInv == TodoInv /\ FreshInv /\ LookInv /\ OverInv /\ SucceedInv

LEMMA PageKept ==
  ASSUME Types, PageInv, UNCHANGED <<orders, late, page>>, todo' \in Seq(Task),
         faults' \in 0..MaxFaults
  PROVE  Types' /\ PageInv'
BY DEF Types, PageInv, KeysInv, SlotsInv, SlotInv, CheckedInv, MatchInv, FirstOfferDone,
       ResultInv, LiveInv, Live, Held, Order, Final

(* No submission is fresh unless it is sent next.                             *)
NoneFresh ==
    \A s \in Slots : ~(Held(s) /\ ~page.slot[s].receipt /\ ~page.slot[s].ambiguous
                         /\ ~page.slot[s].rejected)

LEMMA FreshIsSentNext ==
  ASSUME Types, TasksInv,
         todo # <<>> => todo[1][1] # "submit" \/ page.slot[todo[1][2]].receipt
  PROVE  NoneFresh
<1> SUFFICES ASSUME NEW s \in Slots,
                    Held(s) /\ ~page.slot[s].receipt /\ ~page.slot[s].ambiguous
                      /\ ~page.slot[s].rejected
             PROVE  FALSE
  BY DEF NoneFresh
<1>1. todo # <<>> /\ todo[1] = <<"submit", s>>
  BY DEF TasksInv, FreshInv
<1>2. todo[1][1] = "submit" /\ todo[1][2] = s
  BY <1>1
<1> QED BY <1>1, <1>2

LEMMA NothingToDo ==
  ASSUME NoneFresh', todo' = <<>>
  PROVE  TasksInv'
<1>1. Left' = {} /\ Orderly(todo)'
  BY NoTasks DEF Left, Members, Orderly
<1> QED BY <1>1 DEF TasksInv, TodoInv, FreshInv, NoneFresh, LookInv, OverInv, SucceedInv

LEMMA AbandonKeepsInv ==
  ASSUME Inv, UNCHANGED <<orders, late, page>>, Abandon, faults' \in 0..MaxFaults,
         todo # <<>> => todo[1][1] # "submit" \/ page.slot[todo[1][2]].receipt
  PROVE  Inv'
<1>1. Types /\ PageInv /\ TasksInv
  BY DEF Inv, PageInv, TasksInv
<1>2. todo' = <<>> /\ todo' \in Seq(Task)
  BY DEF Abandon
<1>3. NoneFresh'
  <2>1. NoneFresh
    BY <1>1, FreshIsSentNext
  <2> QED BY <2>1 DEF NoneFresh, Held
<1>4. TasksInv'
  BY <1>2, <1>3, NothingToDo
<1> QED BY <1>1, <1>2, <1>4, PageKept DEF Inv, PageInv, TasksInv

(* The first task is done, and the page is as before.                         *)
LEMMA DoneKeepsInv ==
  ASSUME Inv, UNCHANGED <<orders, late, page>>, todo # <<>>, Done,
         faults' \in 0..MaxFaults,
         NEW do, NEW s \in Slots, todo[1] = <<do, s>>,
         do = "submit" => page.slot[s].receipt,
         do = "verify" => Order("match") = "filled",
         do \in {"clear", "confirm"} => s # "practice" /\ Final(orders[page.slot[s].key])
  PROVE  Inv'
<1>1. Types /\ PageInv /\ TasksInv
  BY DEF Inv, PageInv, TasksInv
<1>2. /\ todo' \in Seq(Task) /\ Orderly(todo)' /\ Left = {<<do, s>>} \cup Left'
      /\ Left' \subseteq Left
  <2>1. todo' = Tail(todo)
    BY DEF Done
  <2>2. Tail(todo) \in Seq(Task) /\ Orderly(Tail(todo))
        /\ Left = {<<do, s>>} \cup Members(Tail(todo))
    BY <1>1, HeadTask DEF TasksInv
  <2> QED BY <2>1, <2>2 DEF Left, Members, Orderly
<1>3. Types' /\ PageInv'
  BY <1>1, <1>2, PageKept
<1>4. \A t \in Slots : (Held(t)' <=> Held(t)) /\ Order(t)' = Order(t)
  BY DEF Held, Order
<1>5. ASSUME NEW t \in Slots, ToClear(t)
      PROVE  ToClear(t)' \/ (t = s /\ do \in {"clear", "confirm"})
  <2>1. ASSUME NEW d \in {"clear", "confirm"}, <<d, t>> \in Left
        PROVE  <<d, t>> \in Left' \/ (t = s /\ do \in {"clear", "confirm"})
    <3>1. <<d, t>> \in Left' \/ <<d, t>> = <<do, s>>
      BY <1>2, <2>1
    <3>2. <<d, t>> = <<do, s>> => d = do /\ t = s
      OBVIOUS
    <3> QED BY <3>1, <3>2
  <2> QED BY <1>5, <2>1 DEF ToClear
<1>6. NoneFresh'
  <2>1. do # "submit" \/ page.slot[s].receipt
    OBVIOUS
  <2>2. todo[1][1] = do /\ todo[1][2] = s
    OBVIOUS
  <2>3. NoneFresh
    BY <1>1, <2>1, <2>2, FreshIsSentNext
  <2> QED BY <2>3 DEF NoneFresh, Held
<1>7. TodoInv' /\ FreshInv'
  <2>1. TodoInv'
    <3>1. \A t \in Left' : t[1] \notin {"look", "over"} => Held(t[2])'
      BY <1>1, <1>2 DEF TasksInv, TodoInv, Held
    <3>2. ASSUME NEW t \in Slots, <<"cancel", t>> \in Left' \/ <<"confirm", t>> \in Left'
          PROVE  page'.slot[t].receipt /\ Order(t)' \in {"open", "filled", "cancelled"}
      <4>1. page.slot[t].receipt /\ Order(t) \in {"open", "filled", "cancelled"}
        BY <1>1, <1>2, <3>2 DEF TasksInv, TodoInv
      <4> QED BY <1>4, <4>1
    <3> QED BY <1>2, <3>1, <3>2 DEF TodoInv
  <2> QED BY <1>6, <2>1 DEF FreshInv, NoneFresh
<1>8. LookInv'
  <2> SUFFICES ASSUME NEW t \in Slots, <<"look", t>> \in Left'
               PROVE  /\ ~Held("match")' /\ ~page'.result /\ page'.stage = 2
                      /\ FirstOfferDone' \/ ToClear("practice")'
    BY DEF LookInv
  <2>1. /\ ~Held("match") /\ ~page.result /\ page.stage = 2
        /\ FirstOfferDone \/ ToClear("practice")
    BY <1>1, <1>2 DEF TasksInv, LookInv
  <2>2. FirstOfferDone' <=> FirstOfferDone
    BY DEF FirstOfferDone, Held
  <2> QED BY <1>4, <1>5, <2>1, <2>2 DEF Slots
<1>9. OverInv'
  <2> SUFFICES ASSUME NEW o \in Slots, <<"over", o>> \in Left', NEW t \in Slots
               PROVE  /\ ~page'.result
                      /\ Held(t)' => \/ Final(orders'[page'.slot[t].key])
                                     \/ ToClear(t)'
                                     \/ page'.slot[t].rejected /\ <<"submit", t>> \notin Left'
                      /\ <<"submit", t>> \in Left' =>
                            page'.slot[t].receipt \/ page'.slot[t].ambiguous
    BY DEF OverInv, Slots, Final
  <2>1. /\ ~page.result
        /\ Held(t) => \/ Final(orders[page.slot[t].key])
                      \/ ToClear(t)
                      \/ page.slot[t].rejected /\ <<"submit", t>> \notin Left
        /\ <<"submit", t>> \in Left => page.slot[t].receipt \/ page.slot[t].ambiguous
    BY <1>1, <1>2 DEF TasksInv, OverInv
  <2> QED BY <1>2, <1>4, <1>5, <2>1
<1>10. SucceedInv'
  <2> SUFFICES ASSUME NEW t \in Slots, <<"succeed", t>> \in Left'
               PROVE  /\ ~page'.result /\ Held("match")'
                      /\ Order("match")' = "filled" \/ <<"verify", "match">> \in Left'
                      /\ Held("setup")' => Final(orders'[page'.slot["setup"].key])
                                             \/ ToClear("setup")'
    BY DEF SucceedInv, Final
  <2>1. /\ ~page.result /\ Held("match")
        /\ Order("match") = "filled" \/ <<"verify", "match">> \in Left
        /\ Held("setup") => Final(orders[page.slot["setup"].key]) \/ ToClear("setup")
    BY <1>1, <1>2 DEF TasksInv, SucceedInv
  <2>2. <<"verify", "match">> \in Left => <<"verify", "match">> \in Left' \/ do = "verify"
    BY <1>2
  <2> QED BY <1>4, <1>5, <2>1, <2>2 DEF Slots
<1> QED BY <1>3, <1>7, <1>8, <1>9, <1>10 DEF Inv, PageInv
(* The first task was about the first offer, and nothing else is.             *)
FirstOfferTask ==
    /\ todo' \in Seq(Task) /\ Orderly(todo)' /\ Left' \subseteq Left
    /\ \A t \in Left : t[1] # "check" /\ t[2] # "practice" => t \in Left'
    /\ \A t \in Left' : t[2] # "practice"

(* The first offer is forgotten once it cannot trade.                         *)
LEMMA ForgottenKeepsInv ==
  ASSUME Inv, UNCHANGED <<orders, late>>, faults' \in 0..MaxFaults, FirstOfferTask,
         Held("practice"), ~Held("match"), NoneFresh,
         ~Live(page.slot["practice"].key),
         NEW stage \in 0..2, stage = IF page.stage = 1 THEN 0 ELSE page.stage,
         page' = [WithSlot("practice", Nothing) EXCEPT !.checked = "unread",
                                                       !.stage = stage]
  PROVE  Inv'
<1>1. Types /\ PageInv /\ TasksInv
  BY DEF Inv, PageInv, TasksInv
<1>2. /\ page' \in Page /\ page'.slot["practice"] = Nothing
      /\ \A s \in Slots : s # "practice" => page'.slot[s] = page.slot[s]
      /\ page'.checked = "unread" /\ page'.stage = stage
      /\ page'.result = page.result /\ page'.keys = page.keys
  <2>1. Nothing \in Slot /\ "practice" \in Slots
    BY DEF Nothing, Slot, Slots
  <2>2. page \in Page
    BY <1>1 DEF Types
  <2>3. /\ WithSlot("practice", Nothing) \in Page
        /\ WithSlot("practice", Nothing).slot["practice"] = Nothing
        /\ \A t \in Slots : t # "practice" =>
              WithSlot("practice", Nothing).slot[t] = page.slot[t]
        /\ WithSlot("practice", Nothing).result = page.result
        /\ WithSlot("practice", Nothing).keys = page.keys
    BY <2>1, <2>2, WithSlotIs
  <2> DEFINE w == WithSlot("practice", Nothing)
  <2> HIDE DEF w
  <2>4. page' = [w EXCEPT !.checked = "unread", !.stage = stage]
    BY DEF w
  <2> QED BY <2>3, <2>4 DEF w, Page
<1>3. Types'
  BY <1>1, <1>2 DEF Types, FirstOfferTask
<1>4. /\ ~Held("practice")' /\ Nothing.key = 0 /\ ~Nothing.receipt
      /\ \A s \in Slots : s # "practice" => (Held(s)' <=> Held(s)) /\ Order(s)' = Order(s)
  BY <1>2 DEF Held, Order, Nothing
<1>5. ~page.result
  BY <1>1 DEF PageInv, ResultInv
<1>6. KeysInv'
  <2>1. \A s \in Slots : page'.slot[s].key <= page'.keys
    <3>1. page.keys \in 0..MaxKeys /\ MaxKeys \in Nat
      BY <1>1, LessonAssumption DEF Types, Page
    <3> QED BY <1>1, <1>2, <1>4, <3>1 DEF PageInv, KeysInv
  <2>2. \A s, t \in Slots :
           Held(s)' /\ page'.slot[s].key = page'.slot[t].key => s = t
    BY <1>1, <1>2, <1>4 DEF PageInv, KeysInv, Held
  <2> QED BY <1>1, <1>2, <2>1, <2>2 DEF PageInv, KeysInv
<1>7. SlotsInv'
  <2> SUFFICES ASSUME NEW s \in Slots PROVE SlotInv(s)'
    BY DEF SlotsInv
  <2>1. CASE s = "practice"
    BY <1>2, <1>4, <2>1 DEF SlotInv
  <2>2. CASE s # "practice"
    BY <1>1, <1>2, <1>4, <2>2 DEF PageInv, SlotsInv, SlotInv
  <2> QED BY <2>1, <2>2
<1>8. CheckedInv' /\ MatchInv' /\ ResultInv'
  BY <1>1, <1>2, <1>4, <1>5 DEF PageInv, CheckedInv, MatchInv, ResultInv, Slots
<1>9. LiveInv'
  <2> SUFFICES ASSUME NEW k \in Keys, Live(k) PROVE \E s \in Slots : page'.slot[s].key = k
    BY DEF LiveInv, Live
  <2>1. PICK s \in Slots : page.slot[s].key = k
    BY <1>1 DEF PageInv, LiveInv
  <2>2. s # "practice"
    BY <2>1
  <2> QED BY <1>2, <2>1, <2>2
<1>10. NoneFresh'
  BY <1>2, <1>4 DEF NoneFresh
<1>11. TodoInv' /\ FreshInv'
  <2>1. \A t \in Left' : t[1] \notin {"look", "over"} => Held(t[2])'
    <3> SUFFICES ASSUME NEW t \in Left', t[1] \notin {"look", "over"} PROVE Held(t[2])'
      OBVIOUS
    <3>1. t \in Left /\ t[2] # "practice" /\ Held(t[2])
      BY <1>1 DEF FirstOfferTask, TasksInv, TodoInv
    <3>2. t[2] \in Slots
      <4>1. t \in Task
        <5>1. PICK i \in DOMAIN todo : t = todo[i]
          BY <3>1 DEF Left, Members
        <5>2. todo \in Seq(Task)
          BY <1>1 DEF Types
        <5> QED BY <5>1, <5>2, ElementOfSeq
      <4> QED BY <4>1 DEF Task
    <3> QED BY <1>2, <3>1, <3>2 DEF Held
  <2>2. ASSUME NEW t \in Slots, <<"cancel", t>> \in Left' \/ <<"confirm", t>> \in Left'
        PROVE  page'.slot[t].receipt /\ Order(t)' \in {"open", "filled", "cancelled"}
    <3>1. <<"cancel", t>> \in Left \/ <<"confirm", t>> \in Left
      BY <2>2 DEF FirstOfferTask
    <3>2. t # "practice"
      <4>1. <<"cancel", t>>[2] # "practice" \/ <<"confirm", t>>[2] # "practice"
        BY <2>2 DEF FirstOfferTask
      <4> QED BY <4>1
    <3>3. page.slot[t].receipt /\ Order(t) \in {"open", "filled", "cancelled"}
      BY <1>1, <3>1 DEF TasksInv, TodoInv
    <3> QED BY <1>2, <1>4, <3>2, <3>3
  <2> QED BY <1>10, <2>1, <2>2 DEF TodoInv, FreshInv, NoneFresh, FirstOfferTask
<1>12. LookInv'
  <2>1. FirstOfferDone'
    BY <1>4 DEF FirstOfferDone
  <2>2. Left' \subseteq Left /\ "match" \in Slots /\ "match" # "practice"
    BY DEF FirstOfferTask, Slots
  <2>3. LookInv
    BY <1>1 DEF TasksInv
  <2> QED BY <1>2, <1>4, <2>1, <2>2, <2>3 DEF LookInv
<1>13. SucceedInv'
  BY <1>1 DEF TasksInv, SucceedInv, FirstOfferTask
<1>14. OverInv'
  <2> SUFFICES ASSUME NEW o \in Slots, <<"over", o>> \in Left', NEW t \in Slots
               PROVE  /\ ~page'.result
                      /\ Held(t)' => \/ Final(orders'[page'.slot[t].key])
                                     \/ ToClear(t)'
                                     \/ page'.slot[t].rejected /\ <<"submit", t>> \notin Left'
                      /\ <<"submit", t>> \in Left' =>
                            page'.slot[t].receipt \/ page'.slot[t].ambiguous
    BY DEF OverInv, Slots, Final
  <2>1. /\ Held(t) => \/ Final(orders[page.slot[t].key])
                      \/ ToClear(t)
                      \/ page.slot[t].rejected /\ <<"submit", t>> \notin Left
        /\ <<"submit", t>> \in Left => page.slot[t].receipt \/ page.slot[t].ambiguous
    BY <1>1 DEF TasksInv, OverInv, FirstOfferTask
  <2>2. CASE t = "practice"
    <3>1. <<"submit", t>> \notin Left'
      <4>1. <<"submit", t>>[2] = "practice"
        BY <2>2
      <4> QED BY <4>1 DEF FirstOfferTask
    <3> QED BY <1>2, <1>4, <1>5, <2>2, <3>1
  <2>3. CASE t # "practice"
    <3>1. ToClear(t) => ToClear(t)'
      <4>1. /\ <<"clear", t>>[2] # "practice" /\ <<"confirm", t>>[2] # "practice"
            /\ <<"clear", t>>[1] # "check" /\ <<"confirm", t>>[1] # "check"
        BY <2>3
      <4> QED BY <4>1 DEF ToClear, FirstOfferTask
    <3>2. <<"submit", t>> \in Left' => <<"submit", t>> \in Left
      BY DEF FirstOfferTask
    <3> QED BY <1>2, <1>4, <1>5, <2>1, <2>3, <3>1, <3>2
  <2> QED BY <2>2, <2>3
<1> QED BY <1>3, <1>6, <1>7, <1>8, <1>9, <1>11, <1>12, <1>13, <1>14 DEF Inv

(* What has become of the first offer is found out.                           *)
LEMMA CheckedKeepsInv ==
  ASSUME Inv, UNCHANGED <<orders, late>>, faults' \in 0..MaxFaults, FirstOfferTask,
         NoneFresh, page.slot["practice"].receipt,
         NEW checked, page' = [page EXCEPT !.checked = checked],
         \/ checked = "closed" /\ Order("practice") \in {"filled", "cancelled"}
         \/ checked = "open" /\ Order("practice") = "open" /\ Left' = {}
  PROVE  Inv'
<1>1. Types /\ PageInv /\ TasksInv
  BY DEF Inv, PageInv, TasksInv
<1>2. /\ page' \in Page /\ page'.slot = page.slot /\ page'.checked = checked
      /\ page'.stage = page.stage /\ page'.result = page.result /\ page'.keys = page.keys
  BY <1>1 DEF Types, Page
<1>3. Types'
  BY <1>1, <1>2 DEF Types, FirstOfferTask
<1>4. \A s \in Slots : (Held(s)' <=> Held(s)) /\ Order(s)' = Order(s)
  BY <1>2 DEF Held, Order
<1>5. KeysInv' /\ SlotsInv' /\ ResultInv' /\ LiveInv'
  <2>1. KeysInv'
    BY <1>1, <1>2 DEF PageInv, KeysInv, Held
  <2>2. SlotsInv'
    BY <1>1, <1>2, <1>4 DEF PageInv, SlotsInv, SlotInv
  <2>3. ResultInv' /\ LiveInv'
    BY <1>1, <1>2 DEF PageInv, ResultInv, LiveInv, Held, Live, Final
  <2> QED BY <2>1, <2>2, <2>3
<1>6. CheckedInv'
  BY <1>2, <1>4 DEF CheckedInv, Slots
<1>7. MatchInv'
  <2>1. Held("match") => checked = "closed"
    BY <1>1 DEF PageInv, MatchInv, FirstOfferDone, CheckedInv, SlotsInv, SlotInv, Nothing, Slots
  <2> QED BY <1>1, <1>2, <1>4, <2>1 DEF PageInv, MatchInv, FirstOfferDone, Slots
<1>8. TodoInv' /\ FreshInv'
  <2>1. \A t \in Left' : t[1] \notin {"look", "over"} => Held(t[2])'
    BY <1>1, <1>2 DEF FirstOfferTask, TasksInv, TodoInv, Held
  <2>2. ASSUME NEW t \in Slots, <<"cancel", t>> \in Left' \/ <<"confirm", t>> \in Left'
        PROVE  page'.slot[t].receipt /\ Order(t)' \in {"open", "filled", "cancelled"}
    <3>1. <<"cancel", t>> \in Left \/ <<"confirm", t>> \in Left
      BY <2>2 DEF FirstOfferTask
    <3>2. page.slot[t].receipt /\ Order(t) \in {"open", "filled", "cancelled"}
      BY <1>1, <3>1 DEF TasksInv, TodoInv
    <3> QED BY <1>2, <1>4, <3>2
  <2>3. NoneFresh'
    BY <1>2, <1>4 DEF NoneFresh
  <2> QED BY <2>1, <2>2, <2>3 DEF TodoInv, FreshInv, NoneFresh, FirstOfferTask
<1>9. ASSUME NEW t \in Slots, t # "practice", ToClear(t) PROVE ToClear(t)'
  <2>1. /\ <<"clear", t>>[2] # "practice" /\ <<"confirm", t>>[2] # "practice"
        /\ <<"clear", t>>[1] # "check" /\ <<"confirm", t>>[1] # "check"
    BY <1>9
  <2> QED BY <1>9, <2>1 DEF ToClear, FirstOfferTask
<1>10. LookInv'
  <2>1. Left' # {} => FirstOfferDone'
    BY <1>2 DEF FirstOfferDone
  <2> QED BY <1>1, <1>2, <1>4, <2>1 DEF TasksInv, LookInv, FirstOfferTask, Slots
<1>11. SucceedInv'
  <2> SUFFICES ASSUME NEW t \in Slots, <<"succeed", t>> \in Left'
               PROVE  /\ ~page'.result /\ Held("match")'
                      /\ Order("match")' = "filled" \/ <<"verify", "match">> \in Left'
                      /\ Held("setup")' => Final(orders'[page'.slot["setup"].key])
                                             \/ ToClear("setup")'
    BY DEF SucceedInv, Final
  <2>1. /\ ~page.result /\ Held("match")
        /\ Order("match") = "filled" \/ <<"verify", "match">> \in Left
        /\ Held("setup") => Final(orders[page.slot["setup"].key]) \/ ToClear("setup")
    BY <1>1 DEF TasksInv, SucceedInv, FirstOfferTask
  <2>2. <<"verify", "match">>[1] # "check" /\ <<"verify", "match">>[2] # "practice"
    OBVIOUS
  <2>3. <<"verify", "match">> \in Left => <<"verify", "match">> \in Left'
    BY <2>2 DEF FirstOfferTask
  <2> QED BY <1>2, <1>4, <1>9, <2>1, <2>3 DEF Slots
<1>12. OverInv'
  <2> SUFFICES ASSUME NEW o \in Slots, <<"over", o>> \in Left', NEW t \in Slots
               PROVE  /\ ~page'.result
                      /\ Held(t)' => \/ Final(orders'[page'.slot[t].key])
                                     \/ ToClear(t)'
                                     \/ page'.slot[t].rejected /\ <<"submit", t>> \notin Left'
                      /\ <<"submit", t>> \in Left' =>
                            page'.slot[t].receipt \/ page'.slot[t].ambiguous
    BY DEF OverInv, Slots, Final
  <2>1. /\ ~page.result
        /\ Held(t) => \/ Final(orders[page.slot[t].key])
                      \/ ToClear(t)
                      \/ page.slot[t].rejected /\ <<"submit", t>> \notin Left
        /\ <<"submit", t>> \in Left => page.slot[t].receipt \/ page.slot[t].ambiguous
    BY <1>1 DEF TasksInv, OverInv, FirstOfferTask
  <2>2. t = "practice" => Final(orders[page.slot[t].key])
    BY DEF Final, Order
  <2>3. <<"submit", t>> \in Left' => <<"submit", t>> \in Left
    BY DEF FirstOfferTask
  <2> QED BY <1>2, <1>4, <1>9, <2>1, <2>2, <2>3
<1> QED BY <1>3, <1>5, <1>6, <1>7, <1>8, <1>10, <1>11, <1>12 DEF Inv

LEMMA FirstOfferTaskDone ==
  ASSUME Types, TasksInv, todo # <<>>, Done, NEW do, NEW s \in Slots, todo[1] = <<do, s>>,
         (s = "practice" /\ do \in {"clear", "confirm"}) \/ do = "check"
  PROVE  FirstOfferTask /\ (do = "check" => todo' = <<>> /\ Left' = {})
<1>1. /\ Tail(todo) \in Seq(Task) /\ Orderly(Tail(todo))
      /\ Left = {<<do, s>>} \cup Members(Tail(todo))
      /\ do \in Last => Tail(todo) = <<>>
      /\ <<do, s>> \in {<<"clear", "practice">>, <<"confirm", "practice">>} =>
            \A t \in Members(Tail(todo)) : t[2] # "practice"
  BY HeadTask DEF TasksInv
<1>2. todo' = Tail(todo) /\ Left' = Members(Tail(todo))
  BY DEF Done, Left, Members
<1>3. do = "check" => todo' = <<>> /\ Left' = {}
  BY <1>1, <1>2, NoTasks DEF Last
<1>4. \A t \in Left' : t[2] # "practice"
  BY <1>1, <1>2, <1>3
<1>5. \A t \in Left : t[1] # "check" /\ t[2] # "practice" => t \in Left'
  BY <1>1, <1>2
<1> QED BY <1>1, <1>2, <1>3, <1>4, <1>5 DEF FirstOfferTask, Orderly

(* What a submission has to do with a task that is not sending it.            *)
LEMMA RecordedKeepsInv ==
  ASSUME Inv, UNCHANGED <<orders, late>>, faults' \in 0..MaxFaults, todo # <<>>, Done,
         NEW do, NEW s \in Slots, todo[1] = <<do, s>>,
         (s = "practice" /\ do \in {"clear", "confirm"}) \/ do = "check",
         Known("practice"), do # "check" => Order("practice") # "open",
         page' = Recorded("practice")
  PROVE  Inv'
<1>1. Types /\ PageInv /\ TasksInv
  BY DEF Inv, PageInv, TasksInv
<1>2. FirstOfferTask /\ (do = "check" => Left' = {})
  BY <1>1, FirstOfferTaskDone
<1>3. NoneFresh
  <2>1. todo[1][1] # "submit"
    OBVIOUS
  <2> QED BY <1>1, <2>1, FreshIsSentNext
<1>4. page.slot["practice"].receipt
  BY DEF Known
<1>5. Held("practice")
  BY <1>1, <1>4 DEF PageInv, SlotsInv, SlotInv, Nothing, Slots
<1>6. page.slot["practice"].key \in Keys
  BY <1>1, <1>5, KeyOfSlot DEF PageInv, Slots
<1>7. Order("practice") \in {"open", "filled", "cancelled", "rejected"}
  BY <1>1, <1>6 DEF Types, Known, Order, Status
<1>8. CASE Order("practice") = "rejected"
  <2> DEFINE stage == IF page.stage = 1 THEN 0 ELSE page.stage
  <2>1. page' = [WithSlot("practice", Nothing) EXCEPT !.checked = "unread",
                                                      !.stage = stage]
    <3>1. WithSlot("practice", Nothing).stage = page.stage
      BY <1>1, WithSlotIs DEF Types, Nothing, Slot, Slots
    <3> QED BY <1>8, <3>1 DEF Recorded
  <2>2. stage \in 0..2
    BY <1>1 DEF Types, Page
  <2>3. ~Live(page.slot["practice"].key)
    BY <1>8 DEF Live, Order
  <2>4. ~Held("match")
    BY <1>1, <1>5, <1>8 DEF PageInv, MatchInv, FirstOfferDone, CheckedInv
  <2> HIDE DEF stage
  <2>5. stage = IF page.stage = 1 THEN 0 ELSE page.stage
    BY DEF stage
  <2> QED BY <1>2, <1>3, <1>5, <2>1, <2>2, <2>3, <2>4, <2>5, ForgottenKeepsInv
<1>9. CASE Order("practice") # "rejected"
  <2> DEFINE checked == IF Order("practice") = "open" THEN "open" ELSE "closed"
  <2>1. page' = [page EXCEPT !.checked = checked]
    BY <1>9 DEF Recorded
  <2>2. \/ checked = "closed" /\ Order("practice") \in {"filled", "cancelled"}
        \/ checked = "open" /\ Order("practice") = "open" /\ Left' = {}
    BY <1>2, <1>7, <1>9
  <2> HIDE DEF checked
  <2> QED BY <1>2, <1>3, <1>4, <2>1, <2>2, CheckedKeepsInv
<1> QED BY <1>8, <1>9
LEMMA ReceiptIsHeld ==
  ASSUME SlotsInv, NEW s \in Slots, page.slot[s].receipt
  PROVE  Held(s)
<1>1. SlotInv(s)
  BY DEF SlotsInv
<1> QED BY <1>1 DEF SlotInv, Nothing

(* An order that is still open is cancelled next, and that confirmed.         *)
LEMMA CancellingKeepsInv ==
  ASSUME Inv, UNCHANGED <<orders, late, page, faults>>, todo # <<>>,
         NEW s \in Slots, todo[1] = <<"clear", s>>,
         page.slot[s].receipt, Order(s) = "open",
         todo' = <<<<"cancel", s>>, <<"confirm", s>>>> \o Tail(todo)
  PROVE  Inv'
<1>1. Types /\ PageInv /\ TasksInv
  BY DEF Inv, PageInv, TasksInv
<1>2. /\ Tail(todo) \in Seq(Task) /\ Orderly(Tail(todo))
      /\ Left = {<<"clear", s>>} \cup Members(Tail(todo))
      /\ s = "practice" => \A t \in Members(Tail(todo)) : t[2] # "practice"
  <2>1. s = "practice" =>
           <<"clear", s>> \in {<<"clear", "practice">>, <<"confirm", "practice">>}
    OBVIOUS
  <2> QED BY <1>1, <2>1, HeadTask DEF TasksInv
<1>3. /\ todo' \in Seq(Task) /\ Orderly(todo)'
      /\ Left' = {<<"cancel", s>>, <<"confirm", s>>} \cup Members(Tail(todo))
  <2> DEFINE two == <<<<"cancel", s>>, <<"confirm", s>>>>
  <2>1. /\ two \in Seq(Task) /\ Members(two) = {<<"cancel", s>>, <<"confirm", s>>}
        /\ Orderly(two)
    <3> DEFINE x == <<"cancel", s>>
               y == <<"confirm", s>>
    <3>1. /\ x \in Task /\ y \in Task /\ x[1] \notin Last
          /\ x \notin {<<"clear", "practice">>, <<"confirm", "practice">>}
      BY DEF Task, Last
    <3> HIDE DEF x, y
    <3>2. <<x, y>> \in Seq(Task) /\ Members(<<x, y>>) = {x, y} /\ Orderly(<<x, y>>)
      BY <3>1, TwoTasks
    <3> QED BY <3>2 DEF x, y
  <2>2. \A t \in Members(two) : t[1] \notin Last
    BY <2>1 DEF Last
  <2>3. Members(two) \cap {<<"clear", "practice">>, <<"confirm", "practice">>} # {}
           => s = "practice"
    <3> SUFFICES ASSUME s # "practice"
                 PROVE  <<"cancel", s>> \notin {<<"clear", "practice">>, <<"confirm", "practice">>}
                        /\ <<"confirm", s>> \notin {<<"clear", "practice">>, <<"confirm", "practice">>}
      BY <2>1
    <3> QED OBVIOUS
  <2> HIDE DEF two
  <2>4. todo' = two \o Tail(todo)
    BY DEF two
  <2>5. /\ two \o Tail(todo) \in Seq(Task)
        /\ Members(two \o Tail(todo)) = Members(two) \cup Members(Tail(todo))
        /\ Orderly(two \o Tail(todo))
    BY <1>2, <2>1, <2>2, <2>3, ListsJoined
  <2> QED BY <2>1, <2>4, <2>5 DEF Left, Members, Orderly
<1>4. Types' /\ PageInv'
  <2>1. faults' \in 0..MaxFaults
    BY <1>1 DEF Types
  <2> QED BY <1>1, <1>3, <2>1, PageKept
<1>5. \A t \in Slots : (Held(t)' <=> Held(t)) /\ Order(t)' = Order(t)
  BY DEF Held, Order
<1>6. ASSUME NEW t \in Slots, ToClear(t) PROVE ToClear(t)'
  <2>1. CASE t = s
    BY <1>3, <2>1 DEF ToClear
  <2>2. CASE t # s
    <3>1. <<"clear", t>> # <<"clear", s>> /\ <<"confirm", t>> # <<"clear", s>>
      BY <2>2
    <3> QED BY <1>2, <1>3, <1>6, <3>1 DEF ToClear
  <2> QED BY <2>1, <2>2
<1>7. ASSUME NEW x, x \in Left', x # <<"cancel", s>>, x # <<"confirm", s>>
      PROVE  x \in Left
  BY <1>2, <1>3, <1>7
<1>8. TodoInv' /\ FreshInv'
  <2>1. Held(s)
    BY <1>1, ReceiptIsHeld DEF PageInv
  <2>2. ASSUME NEW t \in Left', t[1] \notin {"look", "over"} PROVE Held(t[2])'
    <3>1. CASE t = <<"cancel", s>> \/ t = <<"confirm", s>>
      BY <1>5, <2>1, <3>1 DEF Held
    <3>2. CASE t \in Left
      BY <1>1, <2>2, <3>2 DEF TasksInv, TodoInv, Held
    <3> QED BY <1>7, <3>1, <3>2
  <2>3. ASSUME NEW t \in Slots, <<"cancel", t>> \in Left' \/ <<"confirm", t>> \in Left'
        PROVE  page'.slot[t].receipt /\ Order(t)' \in {"open", "filled", "cancelled"}
    <3>1. CASE t = s
      BY <1>5, <3>1
    <3>2. CASE t # s
      <4>1. <<"cancel", t>> \notin {<<"cancel", s>>, <<"confirm", s>>}
            /\ <<"confirm", t>> \notin {<<"cancel", s>>, <<"confirm", s>>}
        BY <3>2
      <4>2. <<"cancel", t>> \in Left \/ <<"confirm", t>> \in Left
        BY <1>7, <2>3, <4>1
      <4> QED BY <1>1, <1>5, <4>2 DEF TasksInv, TodoInv
    <3> QED BY <3>1, <3>2
  <2>4. NoneFresh'
    <3>1. todo[1][1] # "submit"
      OBVIOUS
    <3>2. NoneFresh
      BY <1>1, <3>1, FreshIsSentNext
    <3> QED BY <3>2 DEF NoneFresh, Held
  <2> QED BY <1>3, <2>2, <2>3, <2>4 DEF TodoInv, FreshInv, NoneFresh
<1>9. ASSUME NEW d \in {"look", "over", "succeed", "submit"}, NEW t \in Slots
      PROVE  <<d, t>> \in Left' => <<d, t>> \in Left
  <2>1. <<d, t>> # <<"cancel", s>> /\ <<d, t>> # <<"confirm", s>>
    OBVIOUS
  <2> QED BY <1>7, <2>1
<1>10. LookInv'
  <2>1. FirstOfferDone' <=> FirstOfferDone
    BY DEF FirstOfferDone, Held
  <2> QED BY <1>1, <1>5, <1>6, <1>9, <2>1 DEF TasksInv, LookInv, Slots
<1>11. SucceedInv'
  <2>1. <<"verify", "match">> \in Left => <<"verify", "match">> \in Left'
    <3>1. <<"verify", "match">> # <<"clear", s>>
      OBVIOUS
    <3> QED BY <1>2, <1>3, <3>1
  <2> QED BY <1>1, <1>5, <1>6, <1>9, <2>1 DEF TasksInv, SucceedInv, Slots, Final
<1>12. OverInv'
  <2> SUFFICES ASSUME NEW o \in Slots, <<"over", o>> \in Left', NEW t \in Slots
               PROVE  /\ ~page'.result
                      /\ Held(t)' => \/ Final(orders'[page'.slot[t].key])
                                     \/ ToClear(t)'
                                     \/ page'.slot[t].rejected /\ <<"submit", t>> \notin Left'
                      /\ <<"submit", t>> \in Left' =>
                            page'.slot[t].receipt \/ page'.slot[t].ambiguous
    BY DEF OverInv, Slots, Final
  <2>1. /\ ~page.result
        /\ Held(t) => \/ Final(orders[page.slot[t].key])
                      \/ ToClear(t)
                      \/ page.slot[t].rejected /\ <<"submit", t>> \notin Left
        /\ <<"submit", t>> \in Left => page.slot[t].receipt \/ page.slot[t].ambiguous
    BY <1>1, <1>9 DEF TasksInv, OverInv
  <2> QED BY <1>5, <1>6, <1>9, <2>1
<1> QED BY <1>4, <1>8, <1>10, <1>11, <1>12 DEF Inv, PageInv

LEMMA FaultsStayBounded ==
  ASSUME Types, Fault \/ UNCHANGED faults
  PROVE  faults' \in 0..MaxFaults
BY LessonAssumption DEF Types, Fault

(* The tasks that only read.                                                *)
LEMMA ReadsKeepInv ==
  ASSUME Inv, todo # <<>>, NEW do, NEW s \in Slots, todo[1] = <<do, s>>,
         \/ do = "check" /\ Check
         \/ do = "clear" /\ Clear(s)
         \/ do = "confirm" /\ Confirm(s)
         \/ do = "ready" /\ Ready
         \/ do = "verify" /\ Verify
  PROVE  Inv'
<1>1. Types /\ PageInv /\ TasksInv
  BY DEF Inv, PageInv, TasksInv
<1>2. /\ UNCHANGED <<orders, late>> /\ faults' \in 0..MaxFaults
      /\ \/ Abandon /\ UNCHANGED page
         \/ ~(Abandon /\ UNCHANGED page) /\ UNCHANGED faults
  <2>1. UNCHANGED <<orders, late>> /\ (Fault \/ UNCHANGED faults)
    BY DEF Check, Clear, Confirm, Ready, Verify, Read
  <2>2. (Abandon /\ UNCHANGED page) \/ UNCHANGED faults
    BY DEF Check, Clear, Confirm, Ready, Verify, Read
  <2> QED BY <1>1, <2>1, <2>2, FaultsStayBounded
<1>3. CASE Abandon /\ UNCHANGED page
  <2>1. todo[1][1] # "submit"
    OBVIOUS
  <2> QED BY <1>2, <1>3, <2>1, AbandonKeepsInv
<1> SUFFICES ASSUME ~(Abandon /\ UNCHANGED page) PROVE Inv'
  BY <1>3
<1>4. CASE do = "check" /\ Check
  <2>1. Known("practice") /\ page' = Recorded("practice") /\ todo' = <<>>
    BY <1>4 DEF Check, Read
  <2>2. Done
    <3>1. todo[1][1] \in Last
      BY <1>4 DEF Last
    <3> QED BY <1>1, <2>1, <3>1, HeadTask DEF TasksInv, Done
  <2> QED BY <1>2, <1>4, <2>1, <2>2, RecordedKeepsInv
<1>5. CASE do = "clear" /\ Clear(s)
  <2>1. Known(s)
    BY <1>5 DEF Clear, Read
  <2>2. CASE Order(s) = "open"
    <3>1. page' = page /\ todo' = <<<<"cancel", s>>, <<"confirm", s>>>> \o Tail(todo)
          /\ faults' = faults
      BY <1>5, <2>2 DEF Clear, Read
    <3>2. page.slot[s].receipt /\ todo[1] = <<"clear", s>>
      BY <1>5, <2>1 DEF Known
    <3> QED BY <1>2, <2>2, <3>1, <3>2, CancellingKeepsInv
  <2>3. CASE Order(s) # "open"
    <3>1. page' = Recorded(s) /\ Done
      BY <1>5, <2>3 DEF Clear, Read, Done
    <3>2. CASE s = "practice"
      BY <1>2, <1>5, <2>1, <2>3, <3>1, <3>2, RecordedKeepsInv
    <3>3. CASE s # "practice"
      <4>1. page' = page
        BY <3>1, <3>3 DEF Recorded
      <4>2. page.slot[s].key \in Keys
        <5>1. Held(s)
          BY <1>1, <2>1, ReceiptIsHeld DEF Known, PageInv
        <5> QED BY <1>1, <5>1, KeyOfSlot DEF PageInv
      <4>3. Final(orders[page.slot[s].key])
        BY <1>1, <2>1, <2>3, <4>2 DEF Types, Known, Order, Status, Final
      <4> QED BY <1>2, <1>5, <3>1, <3>3, <4>1, <4>3, DoneKeepsInv
    <3> QED BY <3>2, <3>3
  <2> QED BY <2>2, <2>3
<1>6. CASE do = "confirm" /\ Confirm(s)
  <2>1. Confirmed(page.slot[s].key) /\ page' = Recorded(s) /\ Done
    BY <1>6 DEF Confirm, Read, Done
  <2>2. page.slot[s].receipt /\ Order(s) \in {"filled", "cancelled"}
    <3>1. todo[1] \in Left
      BY <1>1, HeadTask DEF TasksInv
    <3>2. page.slot[s].receipt /\ Order(s) \in {"open", "filled", "cancelled"}
      BY <1>1, <1>6, <3>1 DEF TasksInv, TodoInv
    <3> QED BY <2>1, <3>2 DEF Confirmed, Order
  <2>3. CASE s = "practice"
    <3>1. Known("practice") /\ Order("practice") # "open"
      BY <2>2, <2>3 DEF Known
    <3> QED BY <1>2, <1>6, <2>1, <2>3, <3>1, RecordedKeepsInv
  <2>4. CASE s # "practice"
    <3>1. page' = page /\ Final(orders[page.slot[s].key])
      BY <2>1, <2>2, <2>4 DEF Recorded, Final, Order
    <3> QED BY <1>2, <1>6, <2>1, <2>4, <3>1, DoneKeepsInv
  <2> QED BY <2>3, <2>4
<1>7. CASE do = "ready" /\ Ready
  <2>1. page' = page /\ Done
    BY <1>7 DEF Ready, Read, Done
  <2> QED BY <1>2, <1>7, <2>1, DoneKeepsInv
<1>8. CASE do = "verify" /\ Verify
  <2>1. page' = page /\ Done /\ Order("match") = "filled"
    BY <1>8 DEF Verify, Read, Done
  <2> QED BY <1>2, <1>8, <2>1, DoneKeepsInv
<1> QED BY <1>4, <1>5, <1>6, <1>7, <1>8-----------------------------------------------------------------------------
(* A new submission, and the end of a lesson                                 *)

LEMMA RememberedIs ==
  ASSUME page \in Page, NEW s \in Slots, page.keys < MaxKeys
  PROVE  /\ Remembered(s) \in Page
         /\ Remembered(s).slot[s] = [Nothing EXCEPT !.key = page.keys + 1]
         /\ \A t \in Slots : t # s => Remembered(s).slot[t] = page.slot[t]
         /\ Remembered(s).checked = page.checked /\ Remembered(s).stage = page.stage
         /\ Remembered(s).result = page.result /\ Remembered(s).keys = page.keys + 1
<1> DEFINE n == [Nothing EXCEPT !.key = page.keys + 1]
<1>1. page.keys \in 0..MaxKeys /\ MaxKeys \in Nat
  BY LessonAssumption DEF Page
<1>2. n \in Slot
  <2>1. page.keys + 1 \in Nat
    BY <1>1
  <2> QED BY <2>1 DEF Nothing, Slot
<1>3. page.keys + 1 \in 0..MaxKeys
  BY <1>1
<1>4. Remembered(s) = [page EXCEPT !.slot[s] = n, !.keys = page.keys + 1]
  BY DEF Remembered, Page
<1> HIDE DEF n
<1>5. /\ Remembered(s) \in Page
      /\ Remembered(s).slot[s] = n
      /\ \A t \in Slots : t # s => Remembered(s).slot[t] = page.slot[t]
      /\ Remembered(s).checked = page.checked /\ Remembered(s).stage = page.stage
      /\ Remembered(s).result = page.result /\ Remembered(s).keys = page.keys + 1
  <2> DEFINE slots == [page.slot EXCEPT ![s] = n]
             k == page.keys + 1
  <2>1. /\ slots \in [Slots -> Slot] /\ slots[s] = n
        /\ \A t \in Slots : t # s => slots[t] = page.slot[t]
    BY <1>2 DEF Page
  <2>2. Remembered(s) = [page EXCEPT !.slot = slots, !.keys = k]
    BY <1>4
  <2> HIDE DEF slots, k
  <2>3. k \in 0..MaxKeys /\ k = page.keys + 1
    BY <1>3 DEF k
  <2>4. /\ Remembered(s).slot = slots /\ Remembered(s).keys = k
        /\ Remembered(s).checked = page.checked /\ Remembered(s).stage = page.stage
        /\ Remembered(s).result = page.result
    BY <2>2 DEF Page
  <2>5. Remembered(s) \in Page
    BY <2>1, <2>2, <2>3 DEF Page
  <2> QED BY <2>1, <2>3, <2>4, <2>5
<1> QED BY <1>5 DEF n

(* The page with a submission that has not been sent.                        *)
LEMMA RememberedKeepsPage ==
  ASSUME Types, PageInv, UNCHANGED <<orders, late>>, NEW s \in Slots, ~Held(s),
         page.keys < MaxKeys, page' \in Page, page'.keys = page.keys + 1,
         page'.slot[s] = [Nothing EXCEPT !.key = page.keys + 1],
         \A t \in Slots : t # s => page'.slot[t] = page.slot[t],
         page'.checked = page.checked
  PROVE  /\ KeysInv' /\ SlotsInv' /\ CheckedInv' /\ LiveInv' /\ Held(s)'
         /\ \A t \in Slots : t # s => (Held(t)' <=> Held(t)) /\ Order(t)' = Order(t)
<1>1. /\ page'.slot[s].key = page.keys + 1 /\ ~page'.slot[s].receipt
      /\ ~page'.slot[s].ambiguous /\ ~page'.slot[s].rejected /\ ~page'.slot[s].cancelled
  BY DEF Nothing
<1>2. /\ page.keys \in 0..MaxKeys /\ MaxKeys \in Nat
      /\ page.keys + 1 \in Keys /\ page.keys + 1 > page.keys
  BY LessonAssumption DEF Types, Page, Keys
<1>3. Held(s)'
  BY <1>1, <1>2 DEF Held
<1>4. \A t \in Slots : t # s => (Held(t)' <=> Held(t)) /\ Order(t)' = Order(t)
  BY DEF Held, Order
<1>5. \A t \in Slots : page.slot[t].key <= page.keys /\ page.slot[t].key \in Nat
  <2>1. \A t \in Slots : page.slot[t] \in Slot
    BY DEF Types, Page
  <2> QED BY <2>1 DEF PageInv, KeysInv, Slot
<1>6. KeysInv'
  <2>1. \A t \in Slots : page'.slot[t].key <= page'.keys
    <3> SUFFICES ASSUME NEW t \in Slots PROVE page'.slot[t].key <= page'.keys
      OBVIOUS
    <3>1. CASE t = s
      <4> DEFINE k == page.keys + 1
      <4>1. page'.slot[s].key = k /\ page'.keys = k /\ k \in Nat
        BY <1>1, <1>2
      <4> HIDE DEF k
      <4>2. k <= k
        BY <4>1
      <4> QED BY <3>1, <4>1, <4>2
    <3>2. CASE t # s
      <4>1. /\ page'.slot[t].key <= page.keys /\ page'.slot[t].key \in Nat
            /\ page'.keys = page.keys + 1 /\ page.keys \in Nat
        BY <1>2, <1>5, <3>2
      <4> QED BY <4>1
    <3> QED BY <3>1, <3>2
  <2>2. ASSUME NEW t \in Slots, NEW u \in Slots, Held(t)',
               page'.slot[t].key = page'.slot[u].key
        PROVE  t = u
    <3> DEFINE k == page.keys + 1
    <3>0. /\ \A v \in Slots : v # s => page'.slot[v].key # k
          /\ page'.slot[s].key = k
      <4>1. page.keys \in Nat
        BY <1>2
      <4>2. ASSUME NEW v \in Slots, v # s PROVE page'.slot[v].key # k
        <5>1. /\ page'.slot[v].key = page.slot[v].key
              /\ page.slot[v].key <= page.keys /\ page.slot[v].key \in Nat
          BY <1>5, <4>2
        <5> QED BY <4>1, <5>1
      <4> QED BY <1>1, <4>2
    <3> HIDE DEF k
    <3>1. CASE t = s /\ u # s
      BY <2>2, <3>0, <3>1
    <3>2. CASE t # s /\ u = s
      BY <2>2, <3>0, <3>2
    <3>3. CASE t # s /\ u # s
      BY <1>4, <2>2, <3>3 DEF PageInv, KeysInv
    <3> QED BY <3>1, <3>2, <3>3
  <2>3. \A k \in Keys : k > page'.keys => k > page.keys
    BY <1>2 DEF Keys
  <2> QED BY <2>1, <2>2, <2>3 DEF PageInv, KeysInv
<1>7. SlotsInv'
  <2> SUFFICES ASSUME NEW t \in Slots PROVE SlotInv(t)'
    BY DEF SlotsInv
  <2>1. CASE t = s
    <3> DEFINE k == page.keys + 1
    <3>1. k \in Keys /\ k > page.keys
      BY <1>2
    <3> HIDE DEF k
    <3>2. orders[k] = [order |-> "none", cancel |-> "none"] /\ \A call \in late : call.key # k
      BY <3>1 DEF PageInv, KeysInv
    <3>3. orders[k].order = "none" /\ [to |-> "place", key |-> k] \notin late
      BY <3>2
    <3>4. page'.slot[s].key = k
      BY <1>1 DEF k
    <3> QED BY <1>1, <1>3, <2>1, <3>3, <3>4 DEF SlotInv, Order
  <2>2. CASE t # s
    BY <1>4, <2>2 DEF PageInv, SlotsInv, SlotInv
  <2> QED BY <2>1, <2>2
<1>8. CheckedInv'
  <2>1. CASE s = "practice"
    <3>1. ~page.slot["practice"].receipt
      BY <2>1, ReceiptIsHeld DEF PageInv
    <3> QED BY <3>1 DEF PageInv, CheckedInv
  <2>2. CASE s # "practice"
    BY <1>4, <2>2 DEF PageInv, CheckedInv, Slots
  <2> QED BY <2>1, <2>2
<1>9. LiveInv'
  <2> SUFFICES ASSUME NEW k \in Keys, Live(k) PROVE \E t \in Slots : page'.slot[t].key = k
    BY DEF LiveInv, Live
  <2>1. PICK t \in Slots : page.slot[t].key = k
    BY DEF PageInv, LiveInv
  <2>2. k # 0
    BY DEF Keys
  <2>3. t # s
    BY <2>1, <2>2 DEF Held
  <2> QED BY <2>1, <2>3
<1> QED BY <1>3, <1>4, <1>6, <1>7, <1>8, <1>9

(* No submission is left that may trade: the page forgets them all.           *)
LEMMA ForgetKeepsInv ==
  ASSUME Inv, UNCHANGED <<orders, late, faults>>, Forget, todo' = <<>>,
         \A s \in Slots : Held(s) => ~Live(page.slot[s].key)
  PROVE  Inv'
<1>1. Types /\ PageInv /\ TasksInv
  BY DEF Inv, PageInv, TasksInv
<1>2. /\ page' \in Page /\ page'.keys = page.keys /\ page'.checked = "unread"
      /\ ~page'.result
      /\ \A s \in Slots : page'.slot[s] = Nothing
  <2>1. page.keys \in 0..MaxKeys
    BY <1>1 DEF Types, Page
  <2>2. Nothing \in Slot
    BY DEF Nothing, Slot
  <2>3. /\ NewLesson.slot = [s \in Slots |-> Nothing] /\ NewLesson.checked = "unread"
        /\ NewLesson.stage = 0 /\ NewLesson.result = FALSE
        /\ NewLesson = [slot |-> [s \in Slots |-> Nothing], checked |-> "unread",
                        stage |-> 0, result |-> FALSE, keys |-> 0]
    BY DEF NewLesson
  <2> DEFINE none == [s \in Slots |-> Nothing]
  <2>4. none \in [Slots -> Slot] /\ \A s \in Slots : none[s] = Nothing
    BY <2>2
  <2> HIDE DEF none
  <2>5. page' = [slot |-> none, checked |-> "unread", stage |-> 0, result |-> FALSE,
                 keys |-> page.keys]
    BY <2>3 DEF Forget, none
  <2> QED BY <2>1, <2>4, <2>5 DEF Page
<1>3. \A s \in Slots : ~Held(s)' /\ page'.slot[s].key = 0 /\ ~page'.slot[s].receipt
  BY <1>2 DEF Held, Nothing
<1>4. Types'
  BY <1>1, <1>2 DEF Types
<1>5. KeysInv'
  <2>1. page.keys \in 0..MaxKeys /\ MaxKeys \in Nat
    BY <1>1, LessonAssumption DEF Types, Page
  <2> QED BY <1>1, <1>2, <1>3, <2>1 DEF PageInv, KeysInv
<1>6. SlotsInv' /\ CheckedInv' /\ MatchInv' /\ ResultInv'
  BY <1>2, <1>3 DEF SlotsInv, SlotInv, CheckedInv, MatchInv, ResultInv, Slots
<1>7. LiveInv'
  <2> SUFFICES ASSUME NEW k \in Keys, Live(k) PROVE FALSE
    BY DEF LiveInv, Live
  <2>1. PICK s \in Slots : page.slot[s].key = k
    BY <1>1 DEF PageInv, LiveInv
  <2>2. k # 0
    BY DEF Keys
  <2> QED BY <2>1, <2>2 DEF Held
<1>8. TasksInv'
  <2>1. NoneFresh'
    BY <1>3 DEF NoneFresh
  <2> QED BY <2>1, NothingToDo
<1> QED BY <1>4, <1>5, <1>6, <1>7, <1>8 DEF Inv, TasksInv

LEMMA SettledIsNotLive ==
  ASSUME NEW k, Final(orders[k])
  PROVE  ~Live(k)
BY DEF Final, Live

LEMMA RefusedIsNotLive ==
  ASSUME SlotsInv, NEW s \in Slots, Held(s), page.slot[s].rejected
  PROVE  ~Live(page.slot[s].key)
<1>1. SlotInv(s)
  BY DEF SlotsInv
<1> QED BY <1>1 DEF SlotInv, Order, Live

LEMMA OverKeepsInv ==
  ASSUME Inv, todo # <<>>, NEW s \in Slots, todo[1] = <<"over", s>>, Over
  PROVE  Inv'
<1>1. Types /\ PageInv /\ TasksInv
  BY DEF Inv, PageInv, TasksInv
<1>2. Tail(todo) = <<>> /\ Left = {<<"over", s>>}
  <2>1. todo[1][1] \in Last
    BY DEF Last
  <2>2. Tail(todo) = <<>> /\ Left = {todo[1]} \cup Members(Tail(todo))
    BY <1>1, <2>1, HeadTask DEF TasksInv
  <2> QED BY <2>2, NoTasks
<1>3. ASSUME NEW t \in Slots, Held(t) PROVE ~Live(page.slot[t].key)
  <2>1. Final(orders[page.slot[t].key]) \/ ToClear(t) \/ page.slot[t].rejected
    BY <1>1, <1>2, <1>3 DEF TasksInv, OverInv
  <2>2. ~ToClear(t)
    BY <1>2 DEF ToClear
  <2> QED BY <1>1, <1>3, <2>1, <2>2, SettledIsNotLive, RefusedIsNotLive DEF PageInv
<1>4. UNCHANGED <<orders, late, faults>> /\ Forget /\ todo' = <<>>
  BY <1>2 DEF Over, Done
<1> QED BY <1>3, <1>4, ForgetKeepsInv

LEMMA LeaveKeepsInv ==
  ASSUME Inv, Leave
  PROVE  Inv'
<1>1. Types /\ PageInv /\ TasksInv
  BY DEF Inv, PageInv, TasksInv
<1>2. ASSUME NEW t \in Slots, Held(t) PROVE ~Live(page.slot[t].key)
  <2>1. CASE page.result
    <3>1. Final(orders[page.slot[t].key])
      BY <1>1, <1>2, <2>1 DEF PageInv, ResultInv
    <3> QED BY <3>1, SettledIsNotLive
  <2>2. CASE ~MayBeOpen /\ ~Held("match") /\ ~Held("setup")
    <3>1. t = "practice"
      BY <1>2, <2>2 DEF Slots
    <3>2. page.checked = "closed"
      BY <1>1, <1>2, <2>2, <3>1 DEF Types, Page, MayBeOpen
    <3>3. Final(orders[page.slot[t].key])
      BY <1>1, <3>1, <3>2 DEF PageInv, CheckedInv, Order, Final
    <3> QED BY <3>3, SettledIsNotLive
  <2> QED BY <2>1, <2>2 DEF Leave
<1>3. UNCHANGED <<orders, late, faults>> /\ Forget /\ todo' = <<>>
  BY DEF Leave
<1> QED BY <1>2, <1>3, ForgetKeepsInv

LEMMA SucceedKeepsInv ==
  ASSUME Inv, todo # <<>>, NEW s \in Slots, todo[1] = <<"succeed", s>>, Succeed
  PROVE  Inv'
<1>1. Types /\ PageInv /\ TasksInv
  BY DEF Inv, PageInv, TasksInv
<1>2. Tail(todo) = <<>> /\ Left = {<<"succeed", s>>}
  <2>1. todo[1][1] \in Last
    BY DEF Last
  <2>2. Tail(todo) = <<>> /\ Left = {todo[1]} \cup Members(Tail(todo))
    BY <1>1, <2>1, HeadTask DEF TasksInv
  <2> QED BY <2>2, NoTasks
<1>3. /\ page' \in Page /\ page'.slot = page.slot /\ page'.checked = page.checked
      /\ page'.stage = page.stage /\ page'.keys = page.keys
      /\ UNCHANGED <<orders, late, faults>> /\ todo' = <<>>
  BY <1>1, <1>2 DEF Types, Page, Succeed, Done
<1>4. \A t \in Slots : (Held(t)' <=> Held(t)) /\ Order(t)' = Order(t)
  BY <1>3 DEF Held, Order
<1>5. Types'
  BY <1>1, <1>3 DEF Types
<1>6. KeysInv' /\ SlotsInv' /\ CheckedInv' /\ MatchInv' /\ LiveInv'
  <2>1. KeysInv'
    BY <1>1, <1>3 DEF PageInv, KeysInv, Held
  <2>2. SlotsInv'
    BY <1>1, <1>3, <1>4 DEF PageInv, SlotsInv, SlotInv
  <2>3. CheckedInv' /\ LiveInv'
    BY <1>1, <1>3 DEF PageInv, CheckedInv, LiveInv, Live, Order
  <2>4. MatchInv'
    BY <1>1, <1>3, <1>4 DEF PageInv, MatchInv, FirstOfferDone, Slots
  <2> QED BY <2>1, <2>2, <2>3, <2>4
<1>7. ResultInv'
  <2>1. /\ Held("match") /\ Order("match") = "filled"
        /\ Held("setup") => Final(orders[page.slot["setup"].key])
    <3>1. /\ Held("match")
          /\ Order("match") = "filled" \/ <<"verify", "match">> \in Left
          /\ Held("setup") => Final(orders[page.slot["setup"].key]) \/ ToClear("setup")
      BY <1>1, <1>2 DEF TasksInv, SucceedInv
    <3>2. <<"verify", "match">> \notin Left /\ ~ToClear("setup")
      BY <1>2 DEF ToClear
    <3> QED BY <3>1, <3>2
  <2>2. Held("practice") => Final(orders[page.slot["practice"].key])
    BY <1>1, <2>1 DEF PageInv, MatchInv, FirstOfferDone, CheckedInv, Order, Final
  <2>3. ASSUME NEW t \in Slots, Held(t) PROVE Final(orders[page.slot[t].key])
    <3>1. Final(orders[page.slot["match"].key])
      BY <2>1 DEF Order, Final
    <3> QED BY <2>1, <2>2, <2>3, <3>1 DEF Slots
  <2>4. ASSUME NEW t \in Slots, Held(t)' PROVE Final(orders'[page'.slot[t].key])
    BY <1>3, <1>4, <2>3, <2>4
  <2>5. Held("match")'
    BY <1>4, <2>1 DEF Slots
  <2> QED BY <2>4, <2>5 DEF ResultInv, Final
<1>8. TasksInv'
  <2>1. todo[1][1] # "submit"
    OBVIOUS
  <2>2. NoneFresh
    BY <1>1, <2>1, FreshIsSentNext
  <2>3. NoneFresh'
    BY <1>3, <1>4, <2>2 DEF NoneFresh
  <2> QED BY <1>3, <2>3, NothingToDo
<1> QED BY <1>5, <1>6, <1>7, <1>8 DEF Inv, TasksInv-----------------------------------------------------------------------------
(* What is done after a press                                               *)

(* A list of tasks in order, with these members.                             *)
Plan(list, members) == list \in Seq(Task) /\ Orderly(list) /\ Members(list) = members

LEMMA PlanOfNone == Plan(<<>>, {})
BY NoTasks DEF Plan

LEMMA PlanOfOne ==
  ASSUME NEW x \in Task
  PROVE  Plan(<<x>>, {x})
BY OneTask DEF Plan

LEMMA PlanOfTwo ==
  ASSUME NEW x \in Task, NEW y \in Task, x[1] \notin Last,
         x \notin {<<"clear", "practice">>, <<"confirm", "practice">>}
  PROVE  Plan(<<x, y>>, {x, y})
BY TwoTasks DEF Plan

LEMMA PlanOfThree ==
  ASSUME NEW x \in Task, NEW y \in Task, NEW z \in Task, x[1] \notin Last, y[1] \notin Last,
         x \notin {<<"clear", "practice">>, <<"confirm", "practice">>},
         y \notin {<<"clear", "practice">>, <<"confirm", "practice">>}
  PROVE  Plan(<<x, y, z>>, {x, y, z})
<1> DEFINE l == <<x, y, z>>
<1>1. l \in Seq(Task) /\ DOMAIN l = {1, 2, 3} /\ l[1] = x /\ l[2] = y /\ l[3] = z
  OBVIOUS
<1> HIDE DEF l
<1>2. Members(l) = {x, y, z}
  BY <1>1 DEF Members
<1>3. Orderly(l)
  BY <1>1 DEF Orderly
<1> QED BY <1>1, <1>2, <1>3 DEF l, Plan

LEMMA PlansJoined ==
  ASSUME NEW a, NEW b, NEW m, NEW n, Plan(a, m), Plan(b, n),
         \A t \in m : t[1] \notin Last,
         m \cap {<<"clear", "practice">>, <<"confirm", "practice">>} # {} =>
            \A t \in n : t[2] # "practice"
  PROVE  Plan(a \o b, m \cup n)
BY ListsJoined DEF Plan

LEMMA CheckingPlan == Plan(Checking, {<<"submit", "practice">>, <<"check", "practice">>})
<1> DEFINE x == <<"submit", "practice">>
           y == <<"check", "practice">>
<1>1. /\ x \in Task /\ y \in Task /\ x[1] \notin Last
      /\ x \notin {<<"clear", "practice">>, <<"confirm", "practice">>}
  BY DEF Task, Slots, Last
<1> HIDE DEF x, y
<1>2. Plan(<<x, y>>, {x, y})
  BY <1>1, PlanOfTwo
<1> QED BY <1>2 DEF x, y, Checking

(* A submission of which nothing has reached the server, or ever will.        *)
NeverSent(s) == page.slot[s].rejected /\ ~page.slot[s].ambiguous

LEMMA EndingPlan ==
  ASSUME NEW s \in Slots
  PROVE  Plan(Ending(s), IF Held(s) /\ ~NeverSent(s)
                         THEN {<<"submit", s>>, <<"clear", s>>} ELSE {})
<1>1. CASE Held(s) /\ ~NeverSent(s)
  <2> DEFINE x == <<"submit", s>>
             y == <<"clear", s>>
  <2>1. /\ x \in Task /\ y \in Task /\ x[1] \notin Last
        /\ x \notin {<<"clear", "practice">>, <<"confirm", "practice">>}
    BY DEF Task, Last
  <2>2. Ending(s) = <<x, y>>
    BY <1>1 DEF Ending, NeverSent
  <2> HIDE DEF x, y
  <2>3. Plan(<<x, y>>, {x, y})
    BY <2>1, PlanOfTwo
  <2> QED BY <1>1, <2>2, <2>3 DEF x, y
<1>2. CASE ~(Held(s) /\ ~NeverSent(s))
  <2>1. Ending(s) = <<>>
    BY <1>2 DEF Ending, NeverSent
  <2> QED BY <1>2, <2>1, PlanOfNone
<1> QED BY <1>1, <1>2

LEMMA MatchPlan ==
  Plan(Match, {<<"submit", "match">>, <<"verify", "match">>, <<"succeed", "match">>}
                \cup IF Held("setup") THEN {<<"clear", "setup">>} ELSE {})
<1> DEFINE x == <<"submit", "match">>
           y == <<"verify", "match">>
           z == <<"succeed", "match">>
           c == <<"clear", "setup">>
           middle == IF Held("setup") THEN <<c>> ELSE <<>>
           m == IF Held("setup") THEN {c} ELSE {}
           P == {<<"clear", "practice">>, <<"confirm", "practice">>}
<1>1. /\ x \in Task /\ y \in Task /\ z \in Task /\ c \in Task
      /\ x[1] \notin Last /\ y[1] \notin Last /\ c[1] \notin Last
      /\ x \notin P /\ y \notin P /\ c \notin P
  BY DEF Task, Slots, Last
<1>2. Match = (<<x, y>> \o middle) \o <<z>>
  BY DEF Match
<1> HIDE DEF x, y, z, c
<1>3. Plan(middle, m)
  <2>1. Plan(<<c>>, {c})
    BY <1>1, PlanOfOne
  <2> QED BY <2>1, PlanOfNone
<1>4. \A t \in m : t[1] \notin Last /\ t \notin P
  BY <1>1
<1> HIDE DEF middle, m
<1>5. Plan(<<x, y>>, {x, y})
  BY <1>1, PlanOfTwo
<1>6. Plan(<<x, y>> \o middle, {x, y} \cup m)
  <2>1. \A t \in {x, y} : t[1] \notin Last /\ t \notin P
    BY <1>1
  <2> QED BY <1>3, <1>5, <2>1, PlansJoined
<1>7. Plan((<<x, y>> \o middle) \o <<z>>, ({x, y} \cup m) \cup {z})
  <2>1. \A t \in {x, y} \cup m : t[1] \notin Last /\ t \notin P
    BY <1>1, <1>4
  <2>2. Plan(<<z>>, {z})
    BY <1>1, PlanOfOne
  <2> QED BY <1>6, <2>1, <2>2, PlansJoined
<1>8. ({x, y} \cup m) \cup {z} = {x, y, z} \cup m
  OBVIOUS
<1> QED BY <1>2, <1>7, <1>8 DEF x, y, z, c, m

(* What runGuidedDemo does before it looks at the market.                    *)
LEMMA LookPlan ==
  Plan((IF Held("practice") THEN <<<<"clear", "practice">>>> ELSE <<>>)
          \o (IF Held("setup")
              THEN <<<<"submit", "setup">>, <<"ready", "setup">>>> ELSE <<>>)
          \o <<<<"look", "match">>>>,
       (IF Held("practice") THEN {<<"clear", "practice">>} ELSE {})
         \cup (IF Held("setup")
               THEN {<<"submit", "setup">>, <<"ready", "setup">>} ELSE {})
         \cup {<<"look", "match">>})
<1> DEFINE c == <<"clear", "practice">>
           x == <<"submit", "setup">>
           y == <<"ready", "setup">>
           z == <<"look", "match">>
           first == IF Held("practice") THEN <<c>> ELSE <<>>
           second == IF Held("setup") THEN <<x, y>> ELSE <<>>
           m == IF Held("practice") THEN {c} ELSE {}
           n == IF Held("setup") THEN {x, y} ELSE {}
           P == {<<"clear", "practice">>, <<"confirm", "practice">>}
<1>1. /\ x \in Task /\ y \in Task /\ z \in Task /\ c \in Task
      /\ x[1] \notin Last /\ y[1] \notin Last /\ c[1] \notin Last
      /\ x \notin P /\ y \notin P /\ z \notin P
      /\ x[2] # "practice" /\ y[2] # "practice" /\ z[2] # "practice"
  BY DEF Task, Slots, Last
<1> HIDE DEF x, y, z, c
<1>2. Plan(first, m)
  <2>1. Plan(<<c>>, {c})
    BY <1>1, PlanOfOne
  <2> QED BY <2>1, PlanOfNone
<1>3. Plan(second, n)
  <2>1. Plan(<<x, y>>, {x, y})
    BY <1>1, PlanOfTwo
  <2> QED BY <2>1, PlanOfNone
<1>4. (\A t \in m : t[1] \notin Last) /\ \A t \in n : t[1] \notin Last /\ t[2] # "practice"
  BY <1>1
<1> HIDE DEF first, second, m, n
<1>5. Plan(first \o second, m \cup n)
  BY <1>2, <1>3, <1>4, PlansJoined
<1>6. Plan((first \o second) \o <<z>>, (m \cup n) \cup {z})
  <2>1. Plan(<<z>>, {z})
    BY <1>1, PlanOfOne
  <2>2. (\A t \in m \cup n : t[1] \notin Last) /\ \A t \in {z} : t[2] # "practice"
    BY <1>1, <1>4
  <2> QED BY <1>5, <2>1, <2>2, PlansJoined
<1> QED BY <1>6 DEF first, second, m, n, x, y, z, c

(* What endLessonSubmission does for all three.                              *)
EndingTasks(s) ==
    IF Held(s) /\ ~NeverSent(s) THEN {<<"submit", s>>, <<"clear", s>>} ELSE {}

LEMMA EndingsPlan ==
  Plan(Ending("practice") \o Ending("match") \o Ending("setup") \o <<<<"over", "match">>>>,
       EndingTasks("practice") \cup EndingTasks("match") \cup EndingTasks("setup")
         \cup {<<"over", "match">>})
<1> DEFINE z == <<"over", "match">>
<1>1. z \in Task /\ z[2] # "practice"
  BY DEF Task, Slots
<1> HIDE DEF z
<1>2. Plan(<<z>>, {z})
  BY <1>1, PlanOfOne
<1>3. ASSUME NEW s \in Slots
      PROVE  /\ Plan(Ending(s), EndingTasks(s))
             /\ \A t \in EndingTasks(s) : t[1] \notin Last /\ t[2] = s
  <2>1. Plan(Ending(s), EndingTasks(s))
    BY EndingPlan DEF EndingTasks
  <2>2. \A t \in {<<"submit", s>>, <<"clear", s>>} : t[1] \notin Last /\ t[2] = s
    BY DEF Last
  <2> QED BY <2>1, <2>2 DEF EndingTasks
<1>4. /\ Plan(Ending("practice"), EndingTasks("practice"))
      /\ Plan(Ending("match"), EndingTasks("match"))
      /\ Plan(Ending("setup"), EndingTasks("setup"))
      /\ \A t \in EndingTasks("practice") : t[1] \notin Last
      /\ \A t \in EndingTasks("match") : t[1] \notin Last /\ t[2] = "match"
      /\ \A t \in EndingTasks("setup") : t[1] \notin Last /\ t[2] = "setup"
  BY <1>3 DEF Slots
<1> DEFINE p == EndingTasks("practice")
           m == EndingTasks("match")
           u == EndingTasks("setup")
           a == Ending("practice")
           b == Ending("match")
           c == Ending("setup")
<1>5. /\ Plan(a, p) /\ Plan(b, m) /\ Plan(c, u)
      /\ \A t \in p : t[1] \notin Last
      /\ \A t \in m : t[1] \notin Last /\ t[2] # "practice"
      /\ \A t \in u : t[1] \notin Last /\ t[2] # "practice"
  BY <1>4
<1> HIDE DEF p, m, u, a, b, c
<1>6. Plan(a \o b, p \cup m)
  BY <1>5, PlansJoined
<1>7. Plan((a \o b) \o c, (p \cup m) \cup u)
  <2>1. \A t \in p \cup m : t[1] \notin Last
    BY <1>5
  <2>2. \A t \in u : t[2] # "practice"
    BY <1>5
  <2> QED BY <1>5, <1>6, <2>1, <2>2, PlansJoined
<1>8. Plan(((a \o b) \o c) \o <<z>>, ((p \cup m) \cup u) \cup {z})
  <2>1. \A t \in (p \cup m) \cup u : t[1] \notin Last
    BY <1>5
  <2>2. \A t \in {z} : t[2] # "practice"
    BY <1>1
  <2> QED BY <1>2, <1>7, <2>1, <2>2, PlansJoined
<1> QED BY <1>8 DEF a, b, c, p, m, u, z-----------------------------------------------------------------------------
(* Presses, and the market is looked at                                      *)

(* A press that asks for submissions to be sent and settled, and no more.     *)
LEMMA SettlingKeepsInv ==
  ASSUME Inv, todo = <<>>, UNCHANGED <<orders, late, page, faults>>, NEW m, Plan(todo', m),
         \A t \in m : t[1] \in {"submit", "check", "clear"} /\ Held(t[2])
  PROVE  Inv'
<1>1. Types /\ PageInv /\ TasksInv
  BY DEF Inv, PageInv, TasksInv
<1>2. todo' \in Seq(Task) /\ Orderly(todo)' /\ Left' = m
  BY DEF Plan, Left, Members, Orderly
<1>3. Types' /\ PageInv'
  <2>1. faults' \in 0..MaxFaults
    BY <1>1 DEF Types
  <2> QED BY <1>1, <1>2, <2>1, PageKept
<1>4. NoneFresh
  BY <1>1, FreshIsSentNext
<1>5. TodoInv' /\ FreshInv'
  <2>1. \A t \in Left' : Held(t[2])'
    BY <1>2 DEF Held
  <2>2. ASSUME NEW t \in Slots
        PROVE  <<"cancel", t>> \notin Left' /\ <<"confirm", t>> \notin Left'
    <3>1. <<"cancel", t>>[1] = "cancel" /\ <<"confirm", t>>[1] = "confirm"
      OBVIOUS
    <3> QED BY <1>2, <3>1
  <2>3. NoneFresh'
    BY <1>4 DEF NoneFresh, Held
  <2> QED BY <1>2, <2>1, <2>2, <2>3 DEF TodoInv, FreshInv, NoneFresh
<1>6. LookInv' /\ OverInv' /\ SucceedInv'
  <2>1. ASSUME NEW t \in Slots
        PROVE  <<"look", t>> \notin Left' /\ <<"over", t>> \notin Left'
               /\ <<"succeed", t>> \notin Left'
    <3>1. /\ <<"look", t>>[1] = "look" /\ <<"over", t>>[1] = "over"
          /\ <<"succeed", t>>[1] = "succeed"
      OBVIOUS
    <3> QED BY <1>2, <3>1
  <2> QED BY <2>1 DEF LookInv, OverInv, SucceedInv
<1> QED BY <1>3, <1>5, <1>6 DEF Inv, PageInv

LEMMA PlaceLowerOfferKeepsInv ==
  ASSUME Inv, PlaceLowerOffer
  PROVE  Inv'
<1>1. Types /\ PageInv /\ TasksInv
  BY DEF Inv, PageInv, TasksInv
<1>2. /\ page.stage = 0 /\ ~Held("practice") /\ page.keys < MaxKeys
      /\ todo = <<>> /\ page' = [Remembered("practice") EXCEPT !.stage = 1]
      /\ todo' = Checking /\ UNCHANGED <<orders, late, faults>>
  BY DEF PlaceLowerOffer, Start, Press
<1> DEFINE p == Remembered("practice")
<1>3. /\ p \in Page
      /\ p.slot["practice"] = [Nothing EXCEPT !.key = page.keys + 1]
      /\ \A t \in Slots : t # "practice" => p.slot[t] = page.slot[t]
      /\ p.checked = page.checked
      /\ p.result = page.result /\ p.keys = page.keys + 1
  BY <1>1, <1>2, RememberedIs DEF Types, Slots
<1>4. page' = [p EXCEPT !.stage = 1]
  BY <1>2
<1> HIDE DEF p
<1>5. /\ page' \in Page
      /\ page'.slot["practice"] = [Nothing EXCEPT !.key = page.keys + 1]
      /\ \A t \in Slots : t # "practice" => page'.slot[t] = page.slot[t]
      /\ page'.checked = page.checked /\ page'.stage = 1
      /\ page'.result = page.result /\ page'.keys = page.keys + 1
  <2>1. /\ page' \in Page /\ page'.slot = p.slot /\ page'.checked = p.checked
        /\ page'.stage = 1 /\ page'.result = p.result /\ page'.keys = p.keys
    BY <1>3, <1>4 DEF Page
  <2> QED BY <1>3, <2>1
<1>6. /\ KeysInv' /\ SlotsInv' /\ CheckedInv' /\ LiveInv' /\ Held("practice")'
      /\ \A t \in Slots : t # "practice" => (Held(t)' <=> Held(t)) /\ Order(t)' = Order(t)
  BY <1>1, <1>2, <1>5, RememberedKeepsPage DEF Slots
<1>7. ~Held("match") /\ ~Held("match")' /\ ~page.result
  BY <1>1, <1>2, <1>6 DEF PageInv, MatchInv, ResultInv, Slots
<1>8. /\ todo' \in Seq(Task) /\ Orderly(todo)'
      /\ Left' = {<<"submit", "practice">>, <<"check", "practice">>}
  BY <1>2, CheckingPlan DEF Plan, Left, Members, Orderly
<1>9. Types' /\ MatchInv' /\ ResultInv'
  BY <1>1, <1>2, <1>5, <1>7, <1>8 DEF Types, MatchInv, ResultInv
<1>10. NoneFresh
  BY <1>1, <1>2, FreshIsSentNext
<1>11. FreshInv'
  <2>1. todo' # <<>> /\ todo'[1] = <<"submit", "practice">>
    BY <1>2 DEF Checking
  <2> QED BY <1>5, <1>6, <1>10, <2>1 DEF FreshInv, NoneFresh
<1>12. TodoInv'
  <2>1. \A t \in Left' : t[2] = "practice"
    BY <1>8
  <2>2. \A t \in Left' : Held(t[2])'
    BY <1>6, <2>1
  <2>3. \A t \in Slots : <<"cancel", t>> \notin Left' /\ <<"confirm", t>> \notin Left'
    BY <1>8
  <2> QED BY <1>8, <2>2, <2>3 DEF TodoInv
<1>13. LookInv' /\ OverInv' /\ SucceedInv'
  <2>1. \A t \in Slots : /\ <<"look", t>> \notin Left' /\ <<"over", t>> \notin Left'
                         /\ <<"succeed", t>> \notin Left'
    BY <1>8
  <2> QED BY <2>1 DEF LookInv, OverInv, SucceedInv
<1> QED BY <1>6, <1>9, <1>11, <1>12, <1>13 DEF Inv

LEMMA CheckOfferKeepsInv ==
  ASSUME Inv, CheckOffer
  PROVE  Inv'
<1>1. /\ Held("practice") /\ todo = <<>> /\ todo' = Checking
      /\ UNCHANGED <<orders, late, page, faults>>
  BY DEF CheckOffer, Start, Press
<1> DEFINE m == {<<"submit", "practice">>, <<"check", "practice">>}
<1>2. Plan(todo', m)
  BY <1>1, CheckingPlan
<1>3. \A t \in m : t[1] \in {"submit", "check", "clear"} /\ Held(t[2])
  <2>1. \A t \in m : t[1] \in {"submit", "check", "clear"} /\ t[2] = "practice"
    OBVIOUS
  <2> QED BY <1>1, <2>1
<1> HIDE DEF m
<1> QED BY <1>1, <1>2, <1>3, SettlingKeepsInv

LEMMA CancelOfferKeepsInv ==
  ASSUME Inv, CancelOffer
  PROVE  Inv'
<1>1. Types /\ PageInv /\ TasksInv
  BY DEF Inv, PageInv, TasksInv
<1>2. /\ page.stage = 1 /\ Held("practice") /\ page.checked \in {"unread", "open"}
      /\ todo = <<>> /\ todo' = Ending("practice") /\ UNCHANGED <<orders, late, faults>>
      /\ page' = IF Ending("practice") = <<>>
                 THEN [WithSlot("practice", Nothing) EXCEPT !.stage = 0] ELSE page
  BY DEF CancelOffer, Start, Press, MayBeOpen
<1>3. CASE ~NeverSent("practice")
  <2> DEFINE m == {<<"submit", "practice">>, <<"clear", "practice">>}
  <2>1. Plan(todo', m)
    <3>1. "practice" \in Slots
      BY DEF Slots
    <3> QED BY <1>2, <1>3, <3>1, EndingPlan
  <2>2. page' = page
    <3>1. Ending("practice") = <<<<"submit", "practice">>, <<"clear", "practice">>>>
      BY <1>2, <1>3 DEF Ending, NeverSent
    <3> QED BY <1>2, <3>1
  <2>3. \A t \in m : t[1] \in {"submit", "check", "clear"} /\ Held(t[2])
    <3>1. \A t \in m : t[1] \in {"submit", "check", "clear"} /\ t[2] = "practice"
      OBVIOUS
    <3> QED BY <1>2, <3>1
  <2> HIDE DEF m
  <2> QED BY <1>2, <2>1, <2>2, <2>3, SettlingKeepsInv
<1>4. CASE NeverSent("practice")
  <2>1. Ending("practice") = <<>>
    BY <1>4 DEF Ending, NeverSent
  <2>2. todo' = <<>> /\ page' = [WithSlot("practice", Nothing) EXCEPT !.stage = 0]
    BY <1>2, <2>1
  <2>3. ~Held("match")
    BY <1>1, <1>2 DEF PageInv, MatchInv, FirstOfferDone
  <2>4. ~Live(page.slot["practice"].key)
    BY <1>1, <1>2, <1>4, RefusedIsNotLive DEF PageInv, NeverSent, Slots
  <2>5. page.checked = "unread"
    <3>1. ~page.slot["practice"].receipt
      BY <1>1, <1>2, <1>4 DEF PageInv, SlotsInv, SlotInv, NeverSent, Slots
    <3> QED BY <1>1, <3>1 DEF PageInv, CheckedInv
  <2>6. page' = [WithSlot("practice", Nothing) EXCEPT !.checked = "unread", !.stage = 0]
    <3>1. /\ WithSlot("practice", Nothing) \in Page
          /\ WithSlot("practice", Nothing).checked = "unread"
      <4>1. "practice" \in Slots /\ Nothing \in Slot /\ page \in Page
        BY <1>1 DEF Types, Slots, Nothing, Slot
      <4> QED BY <2>5, <4>1, WithSlotIs
    <3> DEFINE w == WithSlot("practice", Nothing)
    <3>2. w \in Page /\ w.checked = "unread" /\ page' = [w EXCEPT !.stage = 0]
      BY <2>2, <3>1
    <3> HIDE DEF w
    <3>3. page' = [w EXCEPT !.checked = "unread", !.stage = 0]
      BY <3>2 DEF Page
    <3> QED BY <3>3 DEF w
  <2>7. FirstOfferTask
    <3>1. Left = {} /\ Left' = {} /\ Orderly(todo)'
      BY <1>2, <2>2, NoTasks DEF Left, Members, Orderly
    <3> QED BY <2>2, <3>1 DEF FirstOfferTask
  <2>8. NoneFresh
    BY <1>1, <1>2, FreshIsSentNext
  <2>9. faults' \in 0..MaxFaults
    BY <1>1, <1>2 DEF Types
  <2>10. 0 \in 0..2 /\ 0 = IF page.stage = 1 THEN 0 ELSE page.stage
    BY <1>2
  <2> QED BY <1>2, <2>3, <2>4, <2>6, <2>7, <2>8, <2>9, <2>10, ForgottenKeepsInv
<1> QED BY <1>3, <1>4

LEMMA TurnKeepsInv ==
  ASSUME Inv, Turn
  PROVE  Inv'
<1>1. Types /\ PageInv /\ TasksInv
  BY DEF Inv, PageInv, TasksInv
<1> DEFINE stage == IF page.stage = 2 THEN 1 ELSE 2
<1>2. /\ page.stage = 2 => Held("practice")
      /\ todo = <<>> /\ todo' = <<>> /\ UNCHANGED <<orders, late, faults>>
      /\ page' = [page EXCEPT !.stage = stage] /\ stage \in 0..2
      /\ stage # 0 /\ (page.stage = 2 \/ stage = 2)
  BY DEF Turn, Press
<1> HIDE DEF stage
<1>3. /\ page' \in Page /\ page'.slot = page.slot /\ page'.checked = page.checked
      /\ page'.stage = stage /\ page'.result = page.result /\ page'.keys = page.keys
  BY <1>1, <1>2 DEF Types, Page
<1>4. \A t \in Slots : (Held(t)' <=> Held(t)) /\ Order(t)' = Order(t)
  BY <1>2, <1>3 DEF Held, Order
<1>5. Types'
  BY <1>1, <1>2, <1>3 DEF Types
<1>6. KeysInv' /\ SlotsInv' /\ CheckedInv' /\ MatchInv' /\ LiveInv' /\ ResultInv'
  <2>1. KeysInv'
    BY <1>1, <1>2, <1>3 DEF PageInv, KeysInv, Held
  <2>2. SlotsInv'
    BY <1>1, <1>2, <1>3, <1>4 DEF PageInv, SlotsInv, SlotInv
  <2>3. CheckedInv' /\ LiveInv' /\ ResultInv'
    BY <1>1, <1>2, <1>3 DEF PageInv, CheckedInv, LiveInv, Live, Order, ResultInv, Held, Final
  <2>4. MatchInv'
    BY <1>1, <1>2, <1>3, <1>4 DEF PageInv, MatchInv, FirstOfferDone, Slots
  <2> QED BY <2>1, <2>2, <2>3, <2>4
<1>7. TasksInv'
  <2>1. NoneFresh
    BY <1>1, <1>2, FreshIsSentNext
  <2>2. NoneFresh'
    BY <1>3, <1>4, <2>1 DEF NoneFresh
  <2> QED BY <1>2, <2>2, NothingToDo
<1> QED BY <1>5, <1>6, <1>7 DEF Inv, TasksInv
LEMMA RunGuidedDemoKeepsInv ==
  ASSUME Inv, RunGuidedDemo
  PROVE  Inv'
<1>1. Types /\ PageInv /\ TasksInv
  BY DEF Inv, PageInv, TasksInv
<1>2. /\ page.stage = 2 /\ ~page.result
      /\ todo = <<>> /\ UNCHANGED <<orders, late, page, faults>>
  BY DEF RunGuidedDemo, Start, Press
<1>3. NoneFresh'
  <2>1. NoneFresh
    BY <1>1, <1>2, FreshIsSentNext
  <2> QED BY <1>2, <2>1 DEF NoneFresh, Held
<1>4. ASSUME todo' \in Seq(Task) PROVE Types' /\ PageInv'
  <2>1. faults' \in 0..MaxFaults
    BY <1>1, <1>2 DEF Types
  <2> QED BY <1>1, <1>2, <1>4, <2>1, PageKept
<1>5. \A t \in Slots : (Held(t)' <=> Held(t)) /\ Order(t)' = Order(t)
  BY <1>2 DEF Held, Order
<1>6. "match" \in Slots /\ "setup" \in Slots /\ "practice" \in Slots
  BY DEF Slots
<1>7. CASE Held("match")
  <2> DEFINE x == <<"submit", "match">>
             y == <<"verify", "match">>
             z == <<"succeed", "match">>
             c == <<"clear", "setup">>
             m == {x, y, z} \cup IF Held("setup") THEN {c} ELSE {}
  <2>1. todo' = Match /\ Plan(todo', m)
    BY <1>7, MatchPlan DEF RunGuidedDemo, Start, Press
  <2>2. todo' \in Seq(Task) /\ Orderly(todo)' /\ Left' = m
    BY <2>1 DEF Plan, Left, Members, Orderly
  <2>3. /\ \A t \in Left' : t[1] \in {"submit", "verify", "succeed", "clear"} /\ Held(t[2])
        /\ Held("setup") => c \in Left'
        /\ y \in Left'
    <3>1. /\ x[1] = "submit" /\ x[2] = "match" /\ y[1] = "verify" /\ y[2] = "match"
          /\ z[1] = "succeed" /\ z[2] = "match" /\ c[1] = "clear" /\ c[2] = "setup"
      OBVIOUS
    <3> HIDE DEF x, y, z, c
    <3> QED BY <1>7, <2>2, <3>1
  <2>4. ASSUME NEW t \in Slots
        PROVE  /\ <<"cancel", t>> \notin Left' /\ <<"confirm", t>> \notin Left'
               /\ <<"look", t>> \notin Left' /\ <<"over", t>> \notin Left'
    <3>1. /\ <<"cancel", t>>[1] = "cancel" /\ <<"confirm", t>>[1] = "confirm"
          /\ <<"look", t>>[1] = "look" /\ <<"over", t>>[1] = "over"
      OBVIOUS
    <3> QED BY <2>3, <3>1
  <2>5. TodoInv' /\ FreshInv' /\ LookInv' /\ OverInv'
    <3>1. \A t \in Left' : Held(t[2])'
      BY <1>2, <2>3 DEF Held
    <3> QED BY <1>3, <2>2, <2>4, <3>1 DEF TodoInv, FreshInv, NoneFresh, LookInv, OverInv
  <2>6. SucceedInv'
    <3>1. Held("setup")' => ToClear("setup")'
      BY <1>5, <1>6, <2>3 DEF ToClear
    <3> QED BY <1>2, <1>5, <1>6, <1>7, <2>3, <3>1 DEF SucceedInv
  <2> QED BY <1>4, <2>2, <2>5, <2>6 DEF Inv, PageInv
<1>8. CASE ~Held("match")
  <2> DEFINE c == <<"clear", "practice">>
             x == <<"submit", "setup">>
             y == <<"ready", "setup">>
             z == <<"look", "match">>
             m == (IF Held("practice") THEN {c} ELSE {})
                     \cup (IF Held("setup") THEN {x, y} ELSE {}) \cup {z}
  <2>1. Plan(todo', m)
    <3>1. todo' = (IF Held("practice") THEN <<<<"clear", "practice">>>> ELSE <<>>)
                  \o (IF Held("setup")
                      THEN <<<<"submit", "setup">>, <<"ready", "setup">>>> ELSE <<>>)
                  \o <<<<"look", "match">>>>
      BY <1>8 DEF RunGuidedDemo, Start, Press
    <3> QED BY <3>1, LookPlan
  <2>2. todo' \in Seq(Task) /\ Orderly(todo)' /\ Left' = m
    BY <2>1 DEF Plan, Left, Members, Orderly
  <2>3. /\ \A t \in Left' : /\ t[1] \in {"submit", "ready", "look", "clear"}
                            /\ t[1] # "look" => Held(t[2])
        /\ Held("practice") => c \in Left'
    <3>1. /\ x[1] = "submit" /\ x[2] = "setup" /\ y[1] = "ready" /\ y[2] = "setup"
          /\ z[1] = "look" /\ c[1] = "clear" /\ c[2] = "practice"
      OBVIOUS
    <3> HIDE DEF x, y, z, c
    <3> QED BY <2>2, <3>1
  <2>4. ASSUME NEW t \in Slots
        PROVE  /\ <<"cancel", t>> \notin Left' /\ <<"confirm", t>> \notin Left'
               /\ <<"succeed", t>> \notin Left' /\ <<"over", t>> \notin Left'
    <3>1. /\ <<"cancel", t>>[1] = "cancel" /\ <<"confirm", t>>[1] = "confirm"
          /\ <<"succeed", t>>[1] = "succeed" /\ <<"over", t>>[1] = "over"
      OBVIOUS
    <3> QED BY <2>3, <3>1
  <2>5. TodoInv' /\ FreshInv' /\ SucceedInv' /\ OverInv'
    <3>1. \A t \in Left' : t[1] # "look" => Held(t[2])'
      BY <1>2, <2>3 DEF Held
    <3> QED BY <1>3, <2>2, <2>4, <3>1 DEF TodoInv, FreshInv, NoneFresh, SucceedInv, OverInv
  <2>6. LookInv'
    <3>1. FirstOfferDone' \/ ToClear("practice")'
      BY <1>5, <1>6, <2>3 DEF ToClear, FirstOfferDone
    <3> QED BY <1>2, <1>5, <1>6, <1>8, <3>1 DEF LookInv
  <2> QED BY <1>4, <2>2, <2>5, <2>6 DEF Inv, PageInv
<1> QED BY <1>7, <1>8

LEMMA EndLessonKeepsInv ==
  ASSUME Inv, EndLesson
  PROVE  Inv'
<1>1. Types /\ PageInv /\ TasksInv
  BY DEF Inv, PageInv, TasksInv
<1>2. ~page.result /\ todo = <<>> /\ UNCHANGED <<orders, late, page, faults>>
  BY DEF EndLesson, Start, Press
<1>3. NoneFresh
  BY <1>1, <1>2, FreshIsSentNext
<1>4. /\ todo' \in Seq(Task) /\ Orderly(todo)'
      /\ Left' = EndingTasks("practice") \cup EndingTasks("match") \cup EndingTasks("setup")
                   \cup {<<"over", "match">>}
  BY EndingsPlan DEF EndLesson, Start, Press, Plan, Left, Members, Orderly
<1>5. Types' /\ PageInv'
  <2>1. faults' \in 0..MaxFaults
    BY <1>1, <1>2 DEF Types
  <2> QED BY <1>1, <1>2, <1>4, <2>1, PageKept
<1>6. \A t \in Slots : (Held(t)' <=> Held(t)) /\ Order(t)' = Order(t)
  BY <1>2 DEF Held, Order
<1>7. \A t \in Left' : \/ t = <<"over", "match">>
                       \/ \E s \in Slots : t \in EndingTasks(s)
  BY <1>4 DEF Slots
<1>8. ASSUME NEW t \in Left'
      PROVE  \/ t[1] = "over"
             \/ t[1] \in {"submit", "clear"} /\ Held(t[2]) /\ ~NeverSent(t[2])
  <2>1. CASE t = <<"over", "match">>
    BY <2>1
  <2>2. ASSUME NEW s \in Slots, t \in EndingTasks(s)
        PROVE  t[1] \in {"submit", "clear"} /\ Held(t[2]) /\ ~NeverSent(t[2])
    <3>1. /\ Held(s) /\ ~NeverSent(s)
          /\ t = <<"submit", s>> \/ t = <<"clear", s>>
      BY <2>2 DEF EndingTasks
    <3>2. t[2] = s /\ t[1] \in {"submit", "clear"}
      BY <3>1
    <3> QED BY <3>1, <3>2
  <2> QED BY <1>7, <2>1, <2>2
<1>9. ASSUME NEW t \in Slots
      PROVE  /\ <<"cancel", t>> \notin Left' /\ <<"confirm", t>> \notin Left'
             /\ <<"succeed", t>> \notin Left' /\ <<"look", t>> \notin Left'
  <2>1. /\ <<"cancel", t>>[1] = "cancel" /\ <<"confirm", t>>[1] = "confirm"
        /\ <<"succeed", t>>[1] = "succeed" /\ <<"look", t>>[1] = "look"
    OBVIOUS
  <2> QED BY <1>8, <2>1
<1>10. TodoInv' /\ FreshInv' /\ SucceedInv' /\ LookInv'
  <2>1. \A t \in Left' : t[1] # "over" => Held(t[2])'
    BY <1>2, <1>8 DEF Held
  <2>2. NoneFresh'
    BY <1>2, <1>3 DEF NoneFresh, Held
  <2> QED BY <1>4, <1>9, <2>1, <2>2 DEF TodoInv, FreshInv, NoneFresh, SucceedInv, LookInv
<1>11. OverInv'
  <2> SUFFICES ASSUME NEW t \in Slots
               PROVE  /\ Held(t)' => \/ ToClear(t)'
                                     \/ page'.slot[t].rejected /\ <<"submit", t>> \notin Left'
                      /\ <<"submit", t>> \in Left' =>
                            page'.slot[t].receipt \/ page'.slot[t].ambiguous
    BY <1>2 DEF OverInv
  <2>1. CASE Held(t) /\ ~NeverSent(t)
    <3>1. <<"clear", t>> \in Left'
      BY <1>4, <2>1 DEF EndingTasks, Slots
    <3>2. page.slot[t].receipt \/ page.slot[t].ambiguous
      BY <1>3, <2>1 DEF NoneFresh, NeverSent
    <3> QED BY <1>2, <3>1, <3>2 DEF ToClear
  <2>2. CASE ~(Held(t) /\ ~NeverSent(t))
    <3>1. <<"submit", t>> \notin Left'
      <4>1. <<"submit", t>>[1] = "submit" /\ <<"submit", t>>[2] = t
        OBVIOUS
      <4> QED BY <1>8, <2>2, <4>1
    <3>2. Held(t) => page.slot[t].rejected
      BY <2>2 DEF NeverSent
    <3> QED BY <1>2, <1>6, <3>1, <3>2
  <2> QED BY <2>1, <2>2
<1> QED BY <1>5, <1>10, <1>11 DEF Inv, PageInv

(* The market has been looked at, and a submission is prepared.               *)
LEMMA LookKeepsInv ==
  ASSUME Inv, todo # <<>>, NEW s \in Slots, todo[1] = <<"look", s>>, Look
  PROVE  Inv'
<1>1. Types /\ PageInv /\ TasksInv
  BY DEF Inv, PageInv, TasksInv
<1>2. todo[1][1] # "submit" /\ todo[1][1] \in Last
  BY DEF Last
<1>3. Left = {<<"look", s>>}
  <2>1. Tail(todo) = <<>> /\ Left = {todo[1]} \cup Members(Tail(todo))
    BY <1>1, <1>2, HeadTask DEF TasksInv
  <2> QED BY <2>1, NoTasks
<1>4. ~Held("match") /\ ~page.result /\ page.stage = 2 /\ FirstOfferDone
  <2>1. /\ ~Held("match") /\ ~page.result /\ page.stage = 2
        /\ FirstOfferDone \/ ToClear("practice")
    BY <1>1, <1>3 DEF TasksInv, LookInv
  <2>2. ~ToClear("practice")
    BY <1>3 DEF ToClear
  <2> QED BY <2>1, <2>2
<1>5. UNCHANGED <<orders, late, faults>> /\ faults' \in 0..MaxFaults
  BY <1>1 DEF Look, Types
<1>6. NoneFresh
  BY <1>1, <1>2, FreshIsSentNext
<1>7. "match" \in Slots /\ "setup" \in Slots /\ "practice" \in Slots
  BY DEF Slots
<1>8. CASE Abandon /\ UNCHANGED page
  BY <1>2, <1>5, <1>8, AbandonKeepsInv
<1>9. ASSUME NEW new \in {"setup", "match"}, ~Held(new), page.keys < MaxKeys,
             page' = Remembered(new)
      PROVE  /\ page' \in Page /\ page'.checked = page.checked /\ page'.stage = 2
             /\ ~page'.result
             /\ \A t \in Slots : t # new => page'.slot[t] = page.slot[t]
             /\ KeysInv' /\ SlotsInv' /\ CheckedInv' /\ LiveInv' /\ Held(new)'
             /\ \A t \in Slots : t # new => (Held(t)' <=> Held(t)) /\ Order(t)' = Order(t)
             /\ FirstOfferDone' /\ ResultInv'
  <2>1. new \in Slots /\ page \in Page
    BY <1>1 DEF Types, Slots
  <2>2. /\ page' \in Page /\ page'.keys = page.keys + 1
        /\ page'.slot[new] = [Nothing EXCEPT !.key = page.keys + 1]
        /\ \A t \in Slots : t # new => page'.slot[t] = page.slot[t]
        /\ page'.checked = page.checked /\ page'.stage = page.stage
        /\ page'.result = page.result
    BY <1>9, <2>1, RememberedIs
  <2>3. /\ KeysInv' /\ SlotsInv' /\ CheckedInv' /\ LiveInv' /\ Held(new)'
        /\ \A t \in Slots : t # new => (Held(t)' <=> Held(t)) /\ Order(t)' = Order(t)
    BY <1>1, <1>5, <1>9, <2>1, <2>2, RememberedKeepsPage
  <2>4. FirstOfferDone'
    BY <1>4, <1>7, <2>2, <2>3 DEF FirstOfferDone
  <2>5. ~page'.result
    BY <1>4, <2>2
  <2> QED BY <1>4, <2>2, <2>3, <2>4, <2>5 DEF ResultInv
<1>10. CASE /\ ~Held("setup") /\ page.keys < MaxKeys /\ page' = Remembered("setup")
            /\ todo' = <<<<"submit", "setup">>, <<"ready", "setup">>, <<"look", "match">>>>
  <2> DEFINE x == <<"submit", "setup">>
             y == <<"ready", "setup">>
             z == <<"look", "match">>
  <2>1. /\ page' \in Page /\ page'.checked = page.checked /\ page'.stage = 2
        /\ ~page'.result
        /\ \A t \in Slots : t # "setup" => page'.slot[t] = page.slot[t]
        /\ KeysInv' /\ SlotsInv' /\ CheckedInv' /\ LiveInv' /\ Held("setup")'
        /\ \A t \in Slots : t # "setup" => (Held(t)' <=> Held(t)) /\ Order(t)' = Order(t)
        /\ FirstOfferDone' /\ ResultInv'
    BY <1>9, <1>10
  <2>2. /\ todo' = <<x, y, z>> /\ todo' # <<>> /\ todo'[1] = x
    BY <1>10
  <2>3. /\ x \in Task /\ y \in Task /\ z \in Task /\ x[1] \notin Last /\ y[1] \notin Last
        /\ x \notin {<<"clear", "practice">>, <<"confirm", "practice">>}
        /\ y \notin {<<"clear", "practice">>, <<"confirm", "practice">>}
        /\ x[1] = "submit" /\ x[2] = "setup" /\ y[1] = "ready" /\ y[2] = "setup"
        /\ z[1] = "look" /\ z[2] = "match"
    BY DEF Task, Slots, Last
  <2>4. x = <<"submit", "setup">>
    OBVIOUS
  <2> HIDE DEF x, y, z
  <2>5. todo' \in Seq(Task) /\ Orderly(todo)' /\ Left' = {x, y, z}
    <3>1. Plan(<<x, y, z>>, {x, y, z})
      BY <2>3, PlanOfThree
    <3> QED BY <2>2, <3>1 DEF Plan, Left, Members, Orderly
  <2>6. Types'
    BY <1>1, <1>5, <2>1, <2>5 DEF Types
  <2>7. ~Held("match")'
    BY <1>4, <1>7, <2>1
  <2>8. ASSUME NEW t \in Slots
        PROVE  /\ <<"cancel", t>> \notin Left' /\ <<"confirm", t>> \notin Left'
               /\ <<"succeed", t>> \notin Left' /\ <<"over", t>> \notin Left'
    <3>1. /\ <<"cancel", t>>[1] = "cancel" /\ <<"confirm", t>>[1] = "confirm"
          /\ <<"succeed", t>>[1] = "succeed" /\ <<"over", t>>[1] = "over"
      OBVIOUS
    <3> QED BY <2>3, <2>5, <3>1
  <2>9. TodoInv'
    <3>1. \A t \in Left' : t[1] # "look" => t[2] = "setup"
      BY <2>3, <2>5
    <3>2. \A t \in Left' : t[1] # "look" => Held(t[2])'
      BY <2>1, <3>1
    <3> QED BY <2>5, <2>8, <3>2 DEF TodoInv
  <2>10. FreshInv'
    <3> SUFFICES ASSUME NEW t \in Slots, t # "setup",
                        Held(t)' /\ ~page'.slot[t].receipt /\ ~page'.slot[t].ambiguous
                           /\ ~page'.slot[t].rejected
                 PROVE  FALSE
      BY <2>2, <2>4 DEF FreshInv
    <3> QED BY <1>6, <2>1 DEF NoneFresh
  <2>11. LookInv' /\ OverInv' /\ SucceedInv' /\ MatchInv'
    BY <2>1, <2>7, <2>8 DEF LookInv, OverInv, SucceedInv, MatchInv
  <2> QED BY <2>1, <2>6, <2>9, <2>10, <2>11 DEF Inv
<1>11. CASE page.keys < MaxKeys /\ page' = Remembered("match") /\ todo' = Match
  <2> DEFINE x == <<"submit", "match">>
             y == <<"verify", "match">>
             z == <<"succeed", "match">>
             c == <<"clear", "setup">>
             m == {x, y, z} \cup IF Held("setup") THEN {c} ELSE {}
  <2>1. /\ page' \in Page /\ page'.checked = page.checked /\ page'.stage = 2
        /\ ~page'.result
        /\ \A t \in Slots : t # "match" => page'.slot[t] = page.slot[t]
        /\ KeysInv' /\ SlotsInv' /\ CheckedInv' /\ LiveInv' /\ Held("match")'
        /\ \A t \in Slots : t # "match" => (Held(t)' <=> Held(t)) /\ Order(t)' = Order(t)
        /\ FirstOfferDone' /\ ResultInv'
    BY <1>4, <1>9, <1>11
  <2>2. todo' # <<>> /\ todo'[1] = <<"submit", "match">>
    BY <1>11 DEF Match
  <2>3. todo' \in Seq(Task) /\ Orderly(todo)' /\ Left' = m
    BY <1>11, MatchPlan DEF Plan, Left, Members, Orderly
  <2>4. /\ \A t \in Left' : /\ t[1] \in {"submit", "verify", "succeed", "clear"}
                            /\ t[2] = "match" \/ (t[2] = "setup" /\ Held("setup"))
        /\ Held("setup") => c \in Left'
        /\ y \in Left'
    <3>1. /\ x[1] = "submit" /\ x[2] = "match" /\ y[1] = "verify" /\ y[2] = "match"
          /\ z[1] = "succeed" /\ z[2] = "match" /\ c[1] = "clear" /\ c[2] = "setup"
      OBVIOUS
    <3> HIDE DEF x, y, z, c
    <3> QED BY <2>3, <3>1
  <2>5. ASSUME NEW t \in Slots
        PROVE  /\ <<"cancel", t>> \notin Left' /\ <<"confirm", t>> \notin Left'
               /\ <<"look", t>> \notin Left' /\ <<"over", t>> \notin Left'
    <3>1. /\ <<"cancel", t>>[1] = "cancel" /\ <<"confirm", t>>[1] = "confirm"
          /\ <<"look", t>>[1] = "look" /\ <<"over", t>>[1] = "over"
      OBVIOUS
    <3> QED BY <2>4, <3>1
  <2>6. Types'
    BY <1>1, <1>5, <2>1, <2>3 DEF Types
  <2>7. Held("setup")' <=> Held("setup")
    BY <1>7, <2>1
  <2>8. TodoInv'
    <3>1. \A t \in Left' : Held(t[2])'
      BY <2>1, <2>4, <2>7
    <3> QED BY <2>3, <2>5, <3>1 DEF TodoInv
  <2>9. FreshInv'
    <3> SUFFICES ASSUME NEW t \in Slots, t # "match",
                        Held(t)' /\ ~page'.slot[t].receipt /\ ~page'.slot[t].ambiguous
                           /\ ~page'.slot[t].rejected
                 PROVE  FALSE
      BY <2>2 DEF FreshInv
    <3> QED BY <1>6, <2>1 DEF NoneFresh
  <2>10. LookInv' /\ OverInv' /\ MatchInv'
    <3>1. LookInv' /\ OverInv'
      BY <2>5 DEF LookInv, OverInv
    <3>2. MatchInv'
      BY <2>1 DEF MatchInv
    <3> QED BY <3>1, <3>2
  <2>11. SucceedInv'
    <3>1. Held("setup")' => ToClear("setup")'
      BY <2>4, <2>7 DEF ToClear
    <3> QED BY <2>1, <2>4, <3>1 DEF SucceedInv
  <2> QED BY <2>1, <2>6, <2>8, <2>9, <2>10, <2>11 DEF Inv
<1> QED BY <1>8, <1>10, <1>11 DEF Look-----------------------------------------------------------------------------
(* Calls that are sent                                                      *)

(* A call about one submission may have reached the server, and the page has   *)
(* noted what it knows of it.                                                *)
LEMMA SendKeepsInv ==
  ASSUME Inv, todo # <<>>, NEW do \in {"submit", "cancel"}, NEW s \in Slots,
         todo[1] = <<do, s>>,
         NEW call \in [to : {"place", "cancel"}, key : Keys], call.key = page.slot[s].key,
         Evolves({call}), faults' \in 0..MaxFaults,
         NEW n \in Slot, page' = WithSlot(s, n), n.key = page.slot[s].key,
         page.slot[s].receipt => n.receipt,
         page.slot[s].ambiguous => n.ambiguous,
         SlotInv(s)', n.receipt \/ n.ambiguous \/ n.rejected,
         Abandon \/ (Done /\ n.receipt)
  PROVE  Inv'
<1>1. Types /\ PageInv /\ TasksInv
  BY DEF Inv, PageInv, TasksInv
<1>2. /\ page' \in Page /\ page'.slot[s] = n
      /\ \A t \in Slots : t # s => page'.slot[t] = page.slot[t]
      /\ page'.checked = page.checked /\ page'.stage = page.stage
      /\ page'.result = page.result /\ page'.keys = page.keys
  BY <1>1, WithSlotIs DEF Types
<1>3. /\ \A t \in Slots : page'.slot[t].key = page.slot[t].key
      /\ \A t \in Slots : Held(t)' <=> Held(t)
      /\ \A t \in Slots : page.slot[t].receipt => page'.slot[t].receipt
      /\ \A t \in Slots : page.slot[t].ambiguous => page'.slot[t].ambiguous
  <2>1. \A t \in Slots : page'.slot[t].key = page.slot[t].key
    BY <1>2
  <2> QED BY <1>2, <2>1 DEF Held
<1>4. /\ todo' \in Seq(Task) /\ Orderly(todo)' /\ Left' \subseteq Left
      /\ \A t \in Left : t = <<do, s>> \/ t \in Left' \/ Left' = {}
      /\ Left' # {} => n.receipt
      /\ <<do, s>> \in Left
  <2>1. CASE Abandon
    <3>1. todo' = <<>> /\ Left' = {} /\ Orderly(todo)' /\ todo' \in Seq(Task)
      BY <2>1, NoTasks DEF Abandon, Left, Members, Orderly
    <3>2. <<do, s>> \in Left
      BY <1>1, HeadTask DEF TasksInv
    <3> QED BY <3>1, <3>2
  <2>2. CASE Done /\ n.receipt
    <3>1. /\ Tail(todo) \in Seq(Task) /\ Orderly(Tail(todo))
          /\ Left = {<<do, s>>} \cup Members(Tail(todo))
      BY <1>1, HeadTask DEF TasksInv
    <3>2. todo' = Tail(todo) /\ Left' = Members(Tail(todo)) /\ Orderly(todo)'
      BY <2>2, <3>1 DEF Done, Left, Members, Orderly
    <3> QED BY <2>2, <3>1, <3>2
  <2> QED BY <2>1, <2>2
<1>5. Types'
  BY <1>2, <1>4 DEF Types, Evolves
<1>6. ASSUME NEW t \in Slots, Held(t)
      PROVE  /\ page.slot[t].key \in Keys /\ page.slot[t].key <= page.keys
             /\ Final(orders[page.slot[t].key]) => Final(orders'[page.slot[t].key])
             /\ Order(t) \in {"filled", "cancelled"} => Order(t)' \in {"filled", "cancelled"}
             /\ Order(t) \in {"open", "filled", "cancelled"} =>
                   Order(t)' \in {"open", "filled", "cancelled"}
             /\ Order(t) = "filled" => Order(t)' = "filled"
             /\ Order(t) # "none" => Order(t)' # "none"
             /\ orders[page.slot[t].key].cancel # "none" =>
                   orders'[page.slot[t].key].cancel # "none"
  <2> DEFINE k == page.slot[t].key
  <2>1. k \in Keys /\ k <= page.keys
    BY <1>1, <1>6, KeyOfSlot DEF PageInv
  <2>2. Order(t) = orders[k].order /\ Order(t)' = orders'[k].order
    BY <1>3 DEF Order
  <2> HIDE DEF k
  <2>3. /\ Final(orders[k]) => Final(orders'[k])
        /\ orders[k].order \in {"filled", "cancelled"} =>
              orders'[k].order \in {"filled", "cancelled"}
        /\ orders[k].order \in {"open", "filled", "cancelled"} =>
              orders'[k].order \in {"open", "filled", "cancelled"}
        /\ orders[k].order = "filled" => orders'[k].order = "filled"
        /\ orders[k].order # "none" => orders'[k].order # "none"
        /\ orders[k].cancel # "none" => orders'[k].cancel # "none"
    BY <1>1, <2>1, FactsStay
  <2> QED BY <2>1, <2>2, <2>3 DEF k
<1>7. call.key \in Keys /\ Held(s) /\ call.key <= page.keys
  <2>1. call.key # 0
    BY DEF Keys
  <2> QED BY <1>6, <2>1 DEF Held
<1>8. KeysInv'
  <2>1. \A t \in Slots : page'.slot[t].key <= page'.keys
    BY <1>1, <1>2, <1>3 DEF PageInv, KeysInv
  <2>2. \A t, u \in Slots : Held(t)' /\ page'.slot[t].key = page'.slot[u].key => t = u
    BY <1>1, <1>3 DEF PageInv, KeysInv
  <2>3. ASSUME NEW k \in Keys, k > page.keys
        PROVE  orders'[k] = [order |-> "none", cancel |-> "none"]
               /\ \A other \in late' : other.key # k
    <3>1. /\ orders[k] = [order |-> "none", cancel |-> "none"]
          /\ \A other \in late : other.key # k
      BY <1>1, <2>3 DEF PageInv, KeysInv
    <3>2. call.key # k
      <4>1. k \in Int /\ page.keys \in Int /\ call.key \in Int
        BY <1>1, <1>7 DEF Keys, Types, Page
      <4> QED BY <1>7, <2>3, <4>1
    <3>3. \A other \in late \cup {call} : other.key # k
      BY <3>1, <3>2
    <3>4. /\ [to |-> "place", key |-> k] \notin late \cup {call}
          /\ [to |-> "cancel", key |-> k] \notin late \cup {call}
      BY <3>3
    <3>5. orders[k].order = "none" /\ orders[k].cancel = "none"
      BY <3>1
    <3>6. orders'[k].order = "none" /\ orders'[k].cancel = "none"
      BY <3>4, <3>5 DEF Evolves
    <3>7. orders'[k] \in [order : Status, cancel : {"none", "queued", "done"}]
      BY DEF Evolves
    <3> QED BY <3>3, <3>6, <3>7 DEF Evolves
  <2> QED BY <1>2, <2>1, <2>2, <2>3 DEF KeysInv
<1>9. SlotsInv'
  <2> SUFFICES ASSUME NEW t \in Slots, t # s PROVE SlotInv(t)'
    BY DEF SlotsInv
  <2>1. SlotInv(t)
    BY <1>1 DEF PageInv, SlotsInv
  <2>2. CASE Held(t)
    <3> DEFINE k == page.slot[t].key
    <3>1. page'.slot[t] = page.slot[t]
      BY <1>2
    <3>2. k # call.key
      BY <1>1, <1>7, <2>2 DEF PageInv, KeysInv
    <3>3. k \in Keys
      BY <1>6, <2>2
    <3>4. orders[k].order = "none" /\ [to |-> "place", key |-> k] \notin late =>
             orders'[k].order = "none" /\ [to |-> "place", key |-> k] \notin late'
      <4> HIDE DEF k
      <4>1. [to |-> "place", key |-> k] # call
        BY <3>2
      <4> QED BY <1>1, <3>3, <4>1, UnsentStays
    <3>5. Order(t) = orders[k].order /\ Order(t)' = orders'[k].order
      BY <3>1 DEF Order
    <3>6. /\ Order(t) # "none" => Order(t)' # "none"
          /\ orders[k].cancel # "none" => orders'[k].cancel # "none"
      BY <1>6, <2>2
    <3> QED BY <1>3, <2>1, <2>2, <3>1, <3>4, <3>5, <3>6 DEF SlotInv
  <2>3. CASE ~Held(t)
    BY <1>2, <1>3, <2>1, <2>3 DEF SlotInv
  <2> QED BY <2>2, <2>3
<1>10. CheckedInv'
  <2>1. "practice" \in Slots
    BY DEF Slots
  <2>2. page.checked # "unread" => Held("practice")
    BY <1>1, <2>1, ReceiptIsHeld DEF PageInv, CheckedInv
  <2> QED BY <1>1, <1>2, <1>3, <1>6, <2>1, <2>2 DEF PageInv, CheckedInv
<1>11. FirstOfferDone' <=> FirstOfferDone
  BY <1>2, <1>3 DEF FirstOfferDone, Slots
<1>12. MatchInv'
  BY <1>1, <1>2, <1>3, <1>11 DEF PageInv, MatchInv, Slots
<1>13. ResultInv'
  <2>1. ASSUME NEW t \in Slots, Held(t), Final(orders[page.slot[t].key])
        PROVE  Final(orders'[page'.slot[t].key])
    BY <1>3, <1>6, <2>1
  <2>2. Held("match")' <=> Held("match")
    BY <1>3 DEF Slots
  <2> QED BY <1>1, <1>2, <1>3, <2>1, <2>2 DEF PageInv, ResultInv
<1>14. LiveInv'
  <2> SUFFICES ASSUME NEW k \in Keys, Live(k)' PROVE \E t \in Slots : page.slot[t].key = k
    BY <1>3 DEF LiveInv
  <2>1. CASE Live(k)
    BY <1>1, <2>1 DEF PageInv, LiveInv
  <2>2. CASE ~Live(k)
    <3>1. [to |-> "place", key |-> k] \in late \cup {call}
          /\ [to |-> "place", key |-> k] \notin late
      <4>1. orders'[k].order \in {"queued", "open"} \/ [to |-> "place", key |-> k] \in late'
        BY DEF Live
      <4>2. orders[k].order \notin {"queued", "open"}
        BY <2>2 DEF Live
      <4>3. orders[k].order \in Status
        BY <1>1 DEF Types
      <4>4. ~Final(orders[k])
        BY DEF Evolves, Final, Live
      <4>5. orders[k].order = "none"
        BY <4>2, <4>3, <4>4 DEF Status, Final
      <4> QED BY <2>2, <4>1, <4>5 DEF Evolves, Live
    <3>2. call = [to |-> "place", key |-> k]
      BY <3>1
    <3>3. k = call.key
      BY <3>2
    <3> QED BY <3>3
  <2> QED BY <2>1, <2>2
<1>15. TodoInv'
  <2>1. ASSUME NEW t \in Left', t[1] \notin {"look", "over"} PROVE Held(t[2])'
    <3>1. Held(t[2])
      BY <1>1, <1>4, <2>1 DEF TasksInv, TodoInv
    <3>2. t[2] \in Slots
      <4>1. t \in Task
        <5>1. PICK i \in DOMAIN todo : t = todo[i]
          BY <1>4 DEF Left, Members
        <5>2. todo \in Seq(Task)
          BY <1>1 DEF Types
        <5> QED BY <5>1, <5>2, ElementOfSeq
      <4> QED BY <4>1 DEF Task
    <3> QED BY <1>3, <3>1, <3>2
  <2>2. ASSUME NEW t \in Slots, <<"cancel", t>> \in Left' \/ <<"confirm", t>> \in Left'
        PROVE  page'.slot[t].receipt /\ Order(t)' \in {"open", "filled", "cancelled"}
    <3>1. page.slot[t].receipt /\ Order(t) \in {"open", "filled", "cancelled"}
      BY <1>1, <1>4, <2>2 DEF TasksInv, TodoInv
    <3>2. Held(t)
      BY <1>1, <3>1, ReceiptIsHeld DEF PageInv
    <3> QED BY <1>3, <1>6, <3>1, <3>2
  <2> QED BY <1>4, <2>1, <2>2 DEF TodoInv
<1>16. FreshInv'
  <2> SUFFICES ASSUME NEW t \in Slots,
                      Held(t)' /\ ~page'.slot[t].receipt /\ ~page'.slot[t].ambiguous
                         /\ ~page'.slot[t].rejected
               PROVE  FALSE
    BY DEF FreshInv
  <2>1. t # s
    BY <1>2
  <2>2. todo[1] = <<"submit", t>>
    BY <1>1, <1>2, <1>3, <2>1 DEF TasksInv, FreshInv
  <2>3. <<"submit", t>> = <<do, s>>
    BY <2>2
  <2>4. <<"submit", t>>[2] = t /\ <<do, s>>[2] = s
    OBVIOUS
  <2> QED BY <2>1, <2>3, <2>4
<1>17. ASSUME NEW t \in Slots, ToClear(t), Left' # {} PROVE ToClear(t)'
  <2>1. <<"clear", t>> # <<do, s>> /\ <<"confirm", t>> # <<do, s>>
    OBVIOUS
  <2> QED BY <1>4, <1>17, <2>1 DEF ToClear
<1>18. LookInv'
  <2> SUFFICES ASSUME NEW t \in Slots, <<"look", t>> \in Left'
               PROVE  /\ ~Held("match")' /\ ~page'.result /\ page'.stage = 2
                      /\ FirstOfferDone' \/ ToClear("practice")'
    BY DEF LookInv
  <2>1. /\ ~Held("match") /\ ~page.result /\ page.stage = 2
        /\ FirstOfferDone \/ ToClear("practice")
    BY <1>1, <1>4 DEF TasksInv, LookInv
  <2>2. Left' # {} /\ "match" \in Slots /\ "practice" \in Slots
    BY DEF Slots
  <2> QED BY <1>2, <1>3, <1>11, <1>17, <2>1, <2>2
<1>19. SucceedInv'
  <2> SUFFICES ASSUME NEW t \in Slots, <<"succeed", t>> \in Left'
               PROVE  /\ ~page'.result /\ Held("match")'
                      /\ Order("match")' = "filled" \/ <<"verify", "match">> \in Left'
                      /\ Held("setup")' => Final(orders'[page'.slot["setup"].key])
                                             \/ ToClear("setup")'
    BY DEF SucceedInv, Final
  <2>1. /\ ~page.result /\ Held("match")
        /\ Order("match") = "filled" \/ <<"verify", "match">> \in Left
        /\ Held("setup") => Final(orders[page.slot["setup"].key]) \/ ToClear("setup")
    BY <1>1, <1>4 DEF TasksInv, SucceedInv
  <2>2. Left' # {} /\ "match" \in Slots /\ "setup" \in Slots
    BY DEF Slots
  <2>3. <<"verify", "match">> \in Left => <<"verify", "match">> \in Left'
    <3>1. <<"verify", "match">> # <<do, s>>
      OBVIOUS
    <3> QED BY <1>4, <2>2, <3>1
  <2>4. Order("match") = "filled" => Order("match")' = "filled"
    BY <1>6, <2>1, <2>2
  <2>5. Held("setup")' => Final(orders'[page'.slot["setup"].key]) \/ ToClear("setup")'
    BY <1>3, <1>6, <1>17, <2>1, <2>2
  <2> QED BY <1>2, <1>3, <2>1, <2>2, <2>3, <2>4, <2>5
<1>20. OverInv'
  <2> SUFFICES ASSUME NEW o \in Slots, <<"over", o>> \in Left', NEW t \in Slots
               PROVE  /\ ~page'.result
                      /\ Held(t)' => \/ Final(orders'[page'.slot[t].key])
                                     \/ ToClear(t)'
                                     \/ page'.slot[t].rejected /\ <<"submit", t>> \notin Left'
                      /\ <<"submit", t>> \in Left' =>
                            page'.slot[t].receipt \/ page'.slot[t].ambiguous
    BY DEF OverInv, Slots, Final
  <2>1. /\ ~page.result
        /\ Held(t) => \/ Final(orders[page.slot[t].key])
                      \/ ToClear(t)
                      \/ page.slot[t].rejected /\ <<"submit", t>> \notin Left
        /\ <<"submit", t>> \in Left => page.slot[t].receipt \/ page.slot[t].ambiguous
    BY <1>1, <1>4 DEF TasksInv, OverInv
  <2>2. <<"submit", t>> \in Left' => <<"submit", t>> \in Left
    BY <1>4
  <2>3. t = s => ~(page.slot[t].rejected /\ <<"submit", t>> \notin Left)
    <3>1. CASE do = "submit"
      BY <1>4, <3>1
    <3>2. CASE do = "cancel"
      <4>1. page.slot[s].receipt
        BY <1>1, <1>4, <3>2 DEF TasksInv, TodoInv
      <4>2. SlotInv(s)
        BY <1>1 DEF PageInv, SlotsInv
      <4> QED BY <1>7, <4>1, <4>2 DEF SlotInv
    <3> QED BY <3>1, <3>2
  <2>4. Held(t) /\ Final(orders[page.slot[t].key]) => Final(orders'[page'.slot[t].key])
    BY <1>3, <1>6
  <2>5. ToClear(t) => ToClear(t)'
    BY <1>17
  <2>6. t # s => page'.slot[t].rejected = page.slot[t].rejected
    BY <1>2
  <2> QED BY <1>2, <1>3, <2>1, <2>2, <2>3, <2>4, <2>5, <2>6
<1> QED BY <1>5, <1>8, <1>9, <1>10, <1>12, <1>13, <1>14, <1>15, <1>16, <1>18, <1>19, <1>20
        DEF Inv
(* A call that is answered, arrives unheard, is lost, or is still on its way.  *)
LEMMA SentEvolves ==
  ASSUME Types, NEW call \in [to : {"place", "cancel"}, key : Keys],
         \/ orders' = Accepted(call) /\ late' \in {late, late \ {call}}
         \/ orders' = orders /\ late' \in {late, late \cup {call}}
  PROVE  /\ Evolves({call})
         /\ orders' = Accepted(call) => /\ call.to = "place" => orders'[call.key].order # "none"
                                        /\ call.to = "cancel" => orders'[call.key].cancel # "none"
<1>1. late' \subseteq late \cup {call} /\ late' \subseteq [to : {"place", "cancel"}, key : Keys]
  BY DEF Types
<1>2. CASE orders' = Accepted(call)
  <2>1. call \in late \cup {call}
    OBVIOUS
  <2> QED BY <1>1, <1>2, <2>1, AcceptedEvolves
<1>3. CASE orders' = orders /\ orders' # Accepted(call)
  BY <1>1, <1>3 DEF Types, Evolves
<1> QED BY <1>2, <1>3

LEMMA SubmitKeepsInv ==
  ASSUME Inv, todo # <<>>, NEW s \in Slots, todo[1] = <<"submit", s>>, Submit(s)
  PROVE  Inv'
<1>1. Types /\ PageInv /\ TasksInv
  BY DEF Inv, PageInv, TasksInv
<1> DEFINE slot == page.slot[s]
           call == [to |-> "place", key |-> slot.key]
<1>2. CASE slot.receipt
  <2>1. Done /\ UNCHANGED <<orders, late, page, faults>>
    BY <1>2 DEF Submit
  <2>2. faults' \in 0..MaxFaults
    BY <1>1, <2>1 DEF Types
  <2> QED BY <1>2, <2>1, <2>2, DoneKeepsInv
<1>3. CASE ~slot.receipt
  <2>1. Held(s)
    <3>1. todo[1] = <<"submit", s>> /\ todo[1][1] = "submit" /\ todo[1][2] = s
      OBVIOUS
    <3> QED BY <1>1, <3>1, HeadTask DEF TasksInv
  <2>2. slot.key \in Keys /\ slot \in Slot
    <3>1. slot \in Slot
      BY <1>1 DEF Types, Page
    <3> QED BY <1>1, <2>1, <3>1, KeyOfSlot DEF PageInv
  <2>3. call \in [to : {"place", "cancel"}, key : Keys] /\ call.to = "place"
        /\ call.key = slot.key
    BY <2>2
  <2>4. SlotInv(s)
    BY <1>1 DEF PageInv, SlotsInv
  <2>5. Send(call, WithSlot(s, Receipt(slot)), WithSlot(s, Refused(slot)),
             WithSlot(s, Unclear(slot)))
    BY <1>3 DEF Submit
  <2> HIDE DEF call
  <2>6. ASSUME NEW n \in Slot, page' = WithSlot(s, n), n.key = slot.key,
               n.cancelled = slot.cancelled, Evolves({call})
        PROVE  /\ page'.slot[s] = n /\ Order(s)' = orders'[slot.key].order /\ Held(s)'
               /\ n.cancelled => orders'[slot.key].cancel # "none"
    <3>1. page'.slot[s] = n
      BY <1>1, <2>6, WithSlotIs DEF Types
    <3>2. slot.cancelled => orders'[slot.key].cancel # "none"
      BY <1>1, <2>1, <2>2, <2>4, <2>6, FactsStay DEF SlotInv
    <3> QED BY <2>1, <2>6, <3>1, <3>2 DEF Order, Held
  <2>7. CASE /\ orders' = Accepted(call) /\ page' = WithSlot(s, Receipt(slot))
             /\ late' = late \ {call} /\ Done /\ UNCHANGED faults
    <3> DEFINE n == Receipt(slot)
    <3>1. /\ n \in Slot /\ n.key = slot.key /\ n.cancelled = slot.cancelled
          /\ n.receipt /\ n.ambiguous = slot.ambiguous /\ ~n.rejected
      BY <2>2 DEF Receipt, Slot
    <3>2. page' = WithSlot(s, n)
      BY <2>7
    <3> HIDE DEF n
    <3>3. Evolves({call}) /\ orders'[slot.key].order # "none"
      BY <1>1, <2>3, <2>7, SentEvolves
    <3>4. SlotInv(s)'
      BY <2>6, <3>1, <3>2, <3>3 DEF SlotInv
    <3>5. faults' \in 0..MaxFaults
      BY <1>1, <2>7 DEF Types
    <3> QED BY <2>3, <2>7, <3>1, <3>2, <3>3, <3>4, <3>5, SendKeepsInv
  <2>8. CASE /\ Fault /\ Abandon /\ page' = WithSlot(s, Refused(slot))
             /\ UNCHANGED <<orders, late>>
    <3> DEFINE n == Refused(slot)
    <3>1. /\ n \in Slot /\ n.key = slot.key /\ n.cancelled = slot.cancelled
          /\ n.receipt = slot.receipt /\ n.ambiguous = slot.ambiguous
          /\ n.rejected = ~slot.ambiguous
      BY <2>2 DEF Refused, Slot
    <3>2. page' = WithSlot(s, n)
      BY <2>8
    <3> HIDE DEF n
    <3>3. Evolves({call})
      BY <1>1, <2>8, NothingEvolves
    <3>4. SlotInv(s)'
      <4>1. /\ ~n.receipt /\ ~n.ambiguous =>
                  orders'[slot.key].order = "none" /\ [to |-> "place", key |-> slot.key] \notin late'
            /\ ~n.receipt
        BY <1>3, <2>1, <2>4, <2>8, <3>1 DEF SlotInv, Order
      <4> QED BY <2>6, <3>1, <3>2, <3>3, <4>1 DEF SlotInv
    <3>5. faults' \in 0..MaxFaults
      BY <1>1, <2>8, FaultsStayBounded
    <3>6. n.receipt \/ n.ambiguous \/ n.rejected
      BY <3>1
    <3> QED BY <2>3, <2>8, <3>1, <3>2, <3>3, <3>4, <3>5, <3>6, SendKeepsInv
  <2>9. CASE /\ Fault /\ Abandon /\ page' = WithSlot(s, Unclear(slot))
             /\ \/ orders' = Accepted(call) /\ UNCHANGED late
                \/ late' \in {late, late \cup {call}} /\ UNCHANGED orders
    <3> DEFINE n == Unclear(slot)
    <3>1. /\ n \in Slot /\ n.key = slot.key /\ n.cancelled = slot.cancelled
          /\ n.receipt = slot.receipt /\ n.ambiguous /\ ~n.rejected
      BY <2>2 DEF Unclear, Slot
    <3>2. page' = WithSlot(s, n)
      BY <2>9
    <3> HIDE DEF n
    <3>3. Evolves({call})
      BY <1>1, <2>3, <2>9, SentEvolves
    <3>4. SlotInv(s)'
      BY <1>3, <2>6, <3>1, <3>2, <3>3 DEF SlotInv
    <3>5. faults' \in 0..MaxFaults
      BY <1>1, <2>9, FaultsStayBounded
    <3> QED BY <1>3, <2>3, <2>9, <3>1, <3>2, <3>3, <3>4, <3>5, SendKeepsInv
  <2> QED BY <2>5, <2>7, <2>8, <2>9 DEF Send
<1> QED BY <1>2, <1>3

LEMMA CancelKeepsInv ==
  ASSUME Inv, todo # <<>>, NEW s \in Slots, todo[1] = <<"cancel", s>>, Cancel(s)
  PROVE  Inv'
<1>1. Types /\ PageInv /\ TasksInv
  BY DEF Inv, PageInv, TasksInv
<1> DEFINE slot == page.slot[s]
           call == [to |-> "cancel", key |-> slot.key]
<1>2. CASE slot.cancelled
  <2>1. Done /\ UNCHANGED <<orders, late, page, faults>>
    BY <1>2 DEF Cancel
  <2>2. faults' \in 0..MaxFaults
    BY <1>1, <2>1 DEF Types
  <2> QED BY <1>2, <2>1, <2>2, DoneKeepsInv
<1>3. CASE ~slot.cancelled
  <2>1. Held(s) /\ slot.receipt
    <3>1. <<"cancel", s>> \in Left
      BY <1>1, HeadTask DEF TasksInv
    <3>2. slot.receipt
      BY <1>1, <3>1 DEF TasksInv, TodoInv
    <3> QED BY <1>1, <3>2, ReceiptIsHeld DEF PageInv
  <2>2. slot.key \in Keys /\ slot \in Slot /\ page \in Page
    <3>1. slot \in Slot /\ page \in Page
      BY <1>1 DEF Types, Page
    <3> QED BY <1>1, <2>1, <3>1, KeyOfSlot DEF PageInv
  <2>3. call \in [to : {"place", "cancel"}, key : Keys] /\ call.to = "cancel"
        /\ call.key = slot.key
    BY <2>2
  <2>4. SlotInv(s)
    BY <1>1 DEF PageInv, SlotsInv
  <2>5. Send(call, WithSlot(s, [slot EXCEPT !.cancelled = TRUE]), page, page)
    BY <1>3 DEF Cancel
  <2> HIDE DEF call
  <2>6. page = WithSlot(s, slot)
    BY <2>2 DEF WithSlot, Page
  <2>7. ASSUME NEW n \in Slot, page' = WithSlot(s, n), n.key = slot.key, Evolves({call}),
               n.receipt = slot.receipt, n.rejected = slot.rejected,
               n.ambiguous = slot.ambiguous,
               n.cancelled => orders'[slot.key].cancel # "none"
        PROVE  SlotInv(s)'
    <3>1. page'.slot[s] = n
      BY <1>1, <2>7, WithSlotIs DEF Types
    <3>2. Order(s) # "none"
      BY <2>1, <2>4 DEF SlotInv
    <3>3. Order(s)' # "none"
      BY <1>1, <2>2, <2>7, <3>1, <3>2, FactsStay DEF Order
    <3>4. n.rejected => ~n.receipt /\ ~n.ambiguous
      BY <2>1, <2>4, <2>7 DEF SlotInv
    <3> QED BY <2>1, <2>7, <3>1, <3>3, <3>4 DEF SlotInv, Held
  <2>8. CASE /\ orders' = Accepted(call)
             /\ page' = WithSlot(s, [slot EXCEPT !.cancelled = TRUE])
             /\ late' = late \ {call} /\ Done /\ UNCHANGED faults
    <3> DEFINE n == [slot EXCEPT !.cancelled = TRUE]
    <3>1. /\ n \in Slot /\ n.key = slot.key /\ n.receipt = slot.receipt
          /\ n.ambiguous = slot.ambiguous /\ n.rejected = slot.rejected
      BY <2>2 DEF Slot
    <3>2. page' = WithSlot(s, n)
      BY <2>8
    <3> HIDE DEF n
    <3>3. Evolves({call}) /\ orders'[slot.key].cancel # "none"
      BY <1>1, <2>3, <2>8, SentEvolves
    <3>4. SlotInv(s)'
      BY <2>7, <3>1, <3>2, <3>3
    <3>5. faults' \in 0..MaxFaults
      BY <1>1, <2>8 DEF Types
    <3> QED BY <2>1, <2>3, <2>8, <3>1, <3>2, <3>3, <3>4, <3>5, SendKeepsInv
  <2>9. CASE /\ Fault /\ Abandon /\ page' = page
             /\ \/ UNCHANGED <<orders, late>>
                \/ orders' = Accepted(call) /\ UNCHANGED late
                \/ late' \in {late, late \cup {call}} /\ UNCHANGED orders
    <3>1. Evolves({call})
      BY <1>1, <2>3, <2>9, SentEvolves
    <3>2. slot.cancelled => orders'[slot.key].cancel # "none"
      BY <1>3
    <3>3. page' = WithSlot(s, slot)
      BY <2>6, <2>9
    <3>4. SlotInv(s)'
      BY <2>2, <2>7, <3>1, <3>2, <3>3
    <3>5. faults' \in 0..MaxFaults
      BY <1>1, <2>9, FaultsStayBounded
    <3> QED BY <2>1, <2>2, <2>3, <2>9, <3>1, <3>3, <3>4, <3>5, SendKeepsInv
  <2> QED BY <2>5, <2>8, <2>9 DEF Send
<1> QED BY <1>2, <1>3
-----------------------------------------------------------------------------
(* The invariant                                                            *)

LEMMA InitGivesInv == Init => Inv
<1> SUFFICES ASSUME Init PROVE Inv
  OBVIOUS
<1>1. /\ orders = [k \in Keys |-> [order |-> "none", cancel |-> "none"]]
      /\ late = {} /\ page = NewLesson /\ todo = <<>> /\ faults = 0
  BY DEF Init
<1>2. /\ page.slot = [s \in Slots |-> Nothing] /\ page.checked = "unread"
      /\ page.stage = 0 /\ page.result = FALSE /\ page.keys = 0
      /\ page = [slot |-> page.slot, checked |-> page.checked, stage |-> page.stage,
                 result |-> page.result, keys |-> page.keys]
  BY <1>1 DEF NewLesson
<1>3. \A s \in Slots : page.slot[s] = Nothing
  BY <1>2
<1>4. \A s \in Slots : ~Held(s) /\ page.slot[s].key = 0 /\ ~page.slot[s].receipt
  BY <1>3 DEF Held, Nothing
<1>5. Types
  <2>1. page.slot \in [Slots -> Slot]
    BY <1>2 DEF Nothing, Slot
  <2>2. MaxKeys \in Nat /\ MaxFaults \in Nat
    BY LessonAssumption
  <2>3. page \in Page
    <3>1. /\ page.checked \in {"unread", "open", "closed"} /\ page.stage \in 0..2
          /\ page.result \in BOOLEAN /\ page.keys \in 0..MaxKeys
      <4>1. page.stage = 0 /\ page.keys = 0 /\ 0 \in 0..2 /\ 0 \in 0..MaxKeys
        BY <1>2, <2>2
      <4>2. page.result = FALSE /\ page.checked = "unread"
        BY <1>2
      <4>3. page.result \in BOOLEAN
        BY <4>2
      <4> QED BY <4>1, <4>2, <4>3
    <3> DEFINE slots == page.slot
    <3>2. /\ page = [slot |-> slots, checked |-> page.checked, stage |-> page.stage,
                     result |-> page.result, keys |-> page.keys]
          /\ slots \in [Slots -> Slot]
      BY <1>2, <2>1
    <3> HIDE DEF slots
    <3> QED BY <3>1, <3>2 DEF Page
  <2>4. orders \in [Keys -> [order : Status, cancel : {"none", "queued", "done"}]]
    BY <1>1 DEF Status
  <2>5. late \subseteq [to : {"place", "cancel"}, key : Keys] /\ todo \in Seq(Task)
    BY <1>1
  <2> QED BY <1>1, <2>2, <2>3, <2>4, <2>5 DEF Types
<1>6. KeysInv
  <2>1. \A k \in Keys : orders[k] = [order |-> "none", cancel |-> "none"]
    BY <1>1
  <2> QED BY <1>1, <1>2, <1>4, <2>1 DEF KeysInv
<1>7. SlotsInv /\ CheckedInv /\ MatchInv /\ ResultInv
  BY <1>2, <1>3, <1>4 DEF SlotsInv, SlotInv, CheckedInv, MatchInv, ResultInv, Slots
<1>8. Left = {} /\ Orderly(todo)
  BY <1>1, NoTasks DEF Left
<1>9. TodoInv /\ FreshInv /\ LookInv /\ OverInv /\ SucceedInv
  BY <1>4, <1>8 DEF TodoInv, FreshInv, LookInv, OverInv, SucceedInv
<1>10. LiveInv
  <2>1. \A k \in Keys : orders[k].order = "none"
    BY <1>1
  <2> QED BY <1>1, <2>1 DEF LiveInv, Live
<1> QED BY <1>5, <1>6, <1>7, <1>9, <1>10 DEF Inv

LEMMA StepKeepsInv ==
  ASSUME Inv, Step
  PROVE  Inv'
<1>1. Types /\ TasksInv
  BY DEF Inv, TasksInv
<1>2. PICK do \in {todo[1][1]}, s \in Slots : todo # <<>> /\ todo[1] = <<do, s>>
  <2>1. todo # <<>>
    BY DEF Step
  <2>2. todo[1][2] \in Slots /\ todo[1] = <<todo[1][1], todo[1][2]>>
    BY <1>1, <2>1, HeadTask DEF TasksInv
  <2> QED BY <2>1, <2>2
<1>3. \/ do = "submit" /\ Submit(s)
      \/ do = "check" /\ Check
      \/ do = "clear" /\ Clear(s)
      \/ do = "cancel" /\ Cancel(s)
      \/ do = "confirm" /\ Confirm(s)
      \/ do = "look" /\ Look
      \/ do = "ready" /\ Ready
      \/ do = "verify" /\ Verify
      \/ do = "succeed" /\ Succeed
      \/ do = "over" /\ Over
  <2>1. todo[1][1] = do /\ todo[1][2] = s
    BY <1>2
  <2> QED BY <2>1 DEF Step
<1>4. CASE do = "submit" /\ Submit(s)
  BY <1>2, <1>4, SubmitKeepsInv
<1>5. CASE do = "cancel" /\ Cancel(s)
  BY <1>2, <1>5, CancelKeepsInv
<1>6. CASE do = "look" /\ Look
  BY <1>2, <1>6, LookKeepsInv
<1>7. CASE do = "succeed" /\ Succeed
  BY <1>2, <1>7, SucceedKeepsInv
<1>8. CASE do = "over" /\ Over
  BY <1>2, <1>8, OverKeepsInv
<1>9. CASE \/ do = "check" /\ Check
           \/ do = "clear" /\ Clear(s)
           \/ do = "confirm" /\ Confirm(s)
           \/ do = "ready" /\ Ready
           \/ do = "verify" /\ Verify
  BY <1>2, <1>9, ReadsKeepInv
<1> QED BY <1>3, <1>4, <1>5, <1>6, <1>7, <1>8, <1>9

(* What the page remembers, what the server has, and what is left to do agree. *)
THEOREM LessonInvariant == Spec => []Inv
<1>1. Init => Inv
  BY InitGivesInv
<1>2. Inv /\ [Next]_lvars => Inv'
  <2> SUFFICES ASSUME Inv, [Next]_lvars PROVE Inv'
    OBVIOUS
  <2>1. CASE Server
    <3>1. Types
      BY DEF Inv
    <3> QED BY <2>1, <3>1, ServerEvolves, ServerKeepsInv
  <2>2. CASE Step
    BY <2>2, StepKeepsInv
  <2>3. CASE CancelInForm \/ FormCancelTold \/ UNCHANGED lvars
    <3>1. Types
      BY DEF Inv
    <3>2. Evolves({}) /\ UNCHANGED <<page, todo, faults>>
      BY <2>3, <3>1, NothingEvolves DEF CancelInForm, FormCancelTold, lvars
    <3> QED BY <3>2, ServerKeepsInv
  <2>4. CASE Visitor /\ ~CancelInForm
    BY <2>4, PlaceLowerOfferKeepsInv, CheckOfferKeepsInv, CancelOfferKeepsInv, TurnKeepsInv,
       RunGuidedDemoKeepsInv, EndLessonKeepsInv, LeaveKeepsInv DEF Visitor
  <2> QED BY <2>1, <2>2, <2>3, <2>4 DEF Next
<1> QED BY <1>1, <1>2, PTL DEF Spec

LEMMA CancellingIsFlag == Spec => [](cancelling \in BOOLEAN)
<1>1. Init => cancelling \in BOOLEAN
  BY DEF Init
<1>2. cancelling \in BOOLEAN /\ [Next]_lvars => (cancelling \in BOOLEAN)'
  <2> SUFFICES ASSUME cancelling \in BOOLEAN, [Next]_lvars
               PROVE  cancelling' = cancelling \/ cancelling' = TRUE \/ cancelling' = FALSE
    OBVIOUS
  <2>1. CASE Server
    BY <2>1 DEF Server, ArriveLate, ProcessOrder, ProcessCancel, OthersAct
  <2>2. CASE Step
    BY <2>2 DEF Step
  <2>3. CASE Visitor
    BY <2>3 DEF Visitor, PlaceLowerOffer, CheckOffer, CancelOffer, Turn, RunGuidedDemo,
                EndLesson, Leave, CancelInForm, Start, Press
  <2>4. CASE FormCancelTold \/ UNCHANGED lvars
    BY <2>4 DEF FormCancelTold, lvars
  <2> QED BY <2>1, <2>2, <2>3, <2>4 DEF Next
<1> QED BY <1>1, <1>2, PTL DEF Spec

LEMMA InvGivesTypes == Inv /\ cancelling \in BOOLEAN => TypeOK
<1> SUFFICES ASSUME Inv, cancelling \in BOOLEAN PROVE TypeOK
  OBVIOUS
<1>1. Types /\ KeysInv /\ SlotsInv
  BY DEF Inv
<1>2. \A s \in Slots : page.slot[s] \in
         [key : 0..page.keys, receipt : BOOLEAN, ambiguous : BOOLEAN,
          rejected : BOOLEAN, cancelled : BOOLEAN]
  <2> SUFFICES ASSUME NEW s \in Slots
               PROVE  page.slot[s] \in
                         [key : 0..page.keys, receipt : BOOLEAN, ambiguous : BOOLEAN,
                          rejected : BOOLEAN, cancelled : BOOLEAN]
    OBVIOUS
  <2>1. page.slot[s] \in Slot /\ page.slot[s].key <= page.keys /\ page.keys \in 0..MaxKeys
    BY <1>1 DEF Types, Page, KeysInv
  <2>2. MaxKeys \in Nat
    BY LessonAssumption
  <2>3. page.slot[s].key \in 0..page.keys
    BY <2>1, <2>2 DEF Slot
  <2> QED BY <2>1, <2>3 DEF Slot
<1>3. ASSUME NEW s \in Slots
      PROVE  /\ page.slot[s].receipt => Order(s) # "none"
             /\ page.slot[s].cancelled => orders[page.slot[s].key].cancel # "none"
  <2>1. SlotInv(s)
    BY <1>1 DEF SlotsInv
  <2> QED BY <2>1 DEF SlotInv, Nothing
<1> QED BY <1>1, <1>2, <1>3 DEF TypeOK, Types, Page

(* Types, and what the page holds for received has been accepted.              *)
THEOREM LessonTypes == Spec => []TypeOK
BY LessonInvariant, CancellingIsFlag, InvGivesTypes, PTL

(* The lesson leaves nothing behind, however many submissions, faults and      *)
(* other visitors there are.                                                *)
THEOREM LessonNothingLeftOpen == Spec => []NothingLeftOpen
<1>1. Inv /\ cancelling \in BOOLEAN => NothingLeftOpen
  <2> SUFFICES ASSUME Inv, cancelling \in BOOLEAN PROVE NothingLeftOpen
    OBVIOUS
  <2>1. ASSUME NEW k \in Keys, Live(k)
        PROVE  ~page.result /\ \E s \in Slots : page.slot[s].key = k
    <3>1. PICK s \in Slots : page.slot[s].key = k
      BY <2>1 DEF Inv, LiveInv
    <3>2. Held(s)
      <4>1. k # 0
        BY DEF Keys
      <4> QED BY <3>1, <4>1 DEF Held
    <3>3. ~page.result
      BY <2>1, <3>1, <3>2, SettledIsNotLive DEF Inv, ResultInv
    <3> QED BY <3>1, <3>3
  <2> QED BY <2>1, InvGivesTypes DEF NothingLeftOpen
<1> QED BY <1>1, LessonInvariant, CancellingIsFlag, PTL

(* The practice buyer and the matching buyer never can trade at one time.      *)
THEOREM LessonOneBuyer == Spec => []OneBuyer
<1>1. Inv => OneBuyer
  <2> SUFFICES ASSUME Inv, NEW k \in Keys, NEW l \in Keys,
                      k = page.slot["practice"].key, l = page.slot["match"].key,
                      Live(k), Live(l)
               PROVE  FALSE
    BY DEF OneBuyer
  <2>1. k # 0 /\ l # 0
    BY DEF Keys
  <2>2. Held("practice") /\ Held("match")
    BY <2>1 DEF Held
  <2>3. Order("practice") \in {"filled", "cancelled"}
    BY <2>2 DEF Inv, MatchInv, FirstOfferDone, CheckedInv
  <2> QED BY <2>3 DEF Order, Live
<1> QED BY <1>1, LessonInvariant, PTL

(* Ending a lesson lets no order come into being but one whose answer was lost. *)
THEOREM LessonEndingCreatesNothing == Spec => EndingCreatesNothing
<1> DEFINE Fine ==
      todo # <<>> /\ todo[Len(todo)][1] = "over" =>
          \A s \in Slots :
              Held(s) /\ Order(s) = "none" /\ orders'[page.slot[s].key].order # "none"
                  => page.slot[s].ambiguous
<1>1. Inv /\ [Next]_lvars => [Fine]_lvars
  <2> SUFFICES ASSUME Inv, Next, todo # <<>>, todo[Len(todo)][1] = "over",
                      NEW s \in Slots, Held(s), Order(s) = "none",
                      orders'[page.slot[s].key].order # "none", ~page.slot[s].ambiguous
               PROVE  FALSE
    BY DEF lvars
  <2>1. Types /\ KeysInv /\ SlotsInv /\ TasksInv
    BY DEF Inv, TasksInv
  <2> DEFINE k == page.slot[s].key
  <2>2. SlotInv(s) /\ k \in Keys
    BY <2>1, KeyOfSlot DEF SlotsInv
  <2>3. ~page.slot[s].receipt /\ [to |-> "place", key |-> k] \notin late
    BY <2>2 DEF SlotInv
  <2>4. orders[k].order = "none" /\ orders'[k].order # "none"
    BY DEF Order
  <2>5. \E o \in Slots : <<"over", o>> \in Left
    <3>1. todo \in Seq(Task) /\ Len(todo) \in DOMAIN todo
      BY <2>1, EmptySeq, LenProperties DEF Types
    <3>2. todo[Len(todo)] \in Task /\ todo[Len(todo)] \in Left
      BY <3>1, ElementOfSeq DEF Left, Members
    <3>3. todo[Len(todo)] = <<"over", todo[Len(todo)][2]>> /\ todo[Len(todo)][2] \in Slots
      BY <3>2 DEF Task
    <3> QED BY <3>2, <3>3
  <2>6. <<"submit", s>> \notin Left
    BY <2>1, <2>3, <2>5 DEF TasksInv, OverInv
  <2> HIDE DEF k
  <2>7. ~Server
    BY <2>1, <2>2, <2>3, <2>4, ServerEvolves DEF Evolves
  <2>8. ~Visitor
    <3>1. orders' # orders
      BY <2>4
    <3> QED BY <3>1 DEF Visitor, PlaceLowerOffer, CheckOffer, CancelOffer, Turn,
                       RunGuidedDemo, EndLesson, Leave, CancelInForm, Start, Press
  <2>9. CASE Step
    <3>1. PICK do \in {todo[1][1]}, t \in Slots :
             todo[1] = <<do, t>> /\ <<do, t>> \in Left
      <4>1. todo[1][2] \in Slots /\ todo[1] = <<todo[1][1], todo[1][2]>> /\ todo[1] \in Left
        BY <2>1, HeadTask DEF TasksInv
      <4> QED BY <4>1
    <3>2. todo[1][1] = do /\ todo[1][2] = t
      BY <3>1
    <3>3. orders' # orders
      BY <2>4
    <3>4. \/ do = "submit" /\ Submit(t)
          \/ do = "cancel" /\ Cancel(t)
      <4>1. /\ ~Check /\ ~Clear(t) /\ ~Confirm(t) /\ ~Ready /\ ~Verify
        BY <3>3 DEF Check, Clear, Confirm, Ready, Verify, Read
      <4>2. ~Look /\ ~Succeed /\ ~Over
        BY <3>3 DEF Look, Succeed, Over
      <4> QED BY <2>9, <3>2, <4>1, <4>2 DEF Step
    <3>5. PICK to \in {"place", "cancel"} :
             /\ orders' = Accepted([to |-> to, key |-> page.slot[t].key])
             /\ to = "place" => do = "submit"
      BY <3>3, <3>4 DEF Submit, Cancel, Send
    <3>6. orders' = [orders EXCEPT ![page.slot[t].key] =
              IF to = "place" /\ orders[page.slot[t].key].order = "none"
              THEN [orders[page.slot[t].key] EXCEPT !.order = "queued"]
              ELSE IF to = "cancel" /\ orders[page.slot[t].key].cancel = "none"
              THEN [orders[page.slot[t].key] EXCEPT !.cancel = "queued"]
              ELSE orders[page.slot[t].key]]
      BY <3>5 DEF Accepted
    <3>7. page.slot[t].key = k
      BY <2>1, <2>2, <2>4, <3>6 DEF Types
    <3>8. t = s
      BY <2>1, <3>7 DEF KeysInv, k
    <3>9. to = "place"
      BY <2>1, <2>2, <2>4, <3>6, <3>7 DEF Types
    <3> QED BY <2>6, <3>1, <3>5, <3>8, <3>9
  <2>10. ~FormCancelTold
    BY <2>4 DEF FormCancelTold
  <2> QED BY <2>7, <2>8, <2>9, <2>10 DEF Next
<1> QED BY <1>1, LessonInvariant, PTL DEF Spec, EndingCreatesNothing
=============================================================================
