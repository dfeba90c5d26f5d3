------------------------ MODULE MatchingEngine_proofs ------------------------
(***************************************************************************)
(* Theorems about MatchingEngine, for any identifiers, prices and quantities  *)
(* and any bound on the sequences.                                          *)
(***************************************************************************)
EXTENDS EngineRefinement, FiniteSetTheorems, SequenceTheorems, WellFoundedInduction,
        NaturalsInduction, TLAPS

(* The FIFO of a price level: active orders of that side and price, one after *)
(* another by sequence.                                                     *)
LevelInv(side, p) ==
    /\ levels[side][p] # <<>>
    /\ \A i \in DOMAIN levels[side][p] :
          /\ levels[side][p][i] \in ActiveIds
          /\ orders[levels[side][p][i]].side = side
          /\ orders[levels[side][p][i]].price = p
    /\ \A i, j \in DOMAIN levels[side][p] :
          i < j => orders[levels[side][p][i]].sequence < orders[levels[side][p][j]].sequence

(* Order id is in the level of its side and price.                          *)
Placed(id) ==
    /\ orders[id].price \in DOMAIN levels[orders[id].side]
    /\ \E i \in DOMAIN levels[orders[id].side][orders[id].price] :
          levels[orders[id].side][orders[id].price][i] = id

(* The book holds exactly the active orders, each once and in its place, even  *)
(* while an order is being matched or the book is being restored.            *)
BookInv ==
    /\ \A side \in Side : \A p \in DOMAIN levels[side] : LevelInv(side, p)
    /\ \A id \in ActiveIds : Placed(id)
    /\ resting = ActiveIds

(* Bids have a highest price, however many prices there are.                 *)
BidsBounded == \E limit \in Nat : \A p \in DOMAIN levels["buy"] : p <= limit

(* Orders a and b do not trade with each other.                              *)
Apart(a, b) ==
    /\ a.side = "buy" /\ b.side = "sell" => a.price < b.price
    /\ a.side = "sell" /\ b.side = "buy" => b.price < a.price

OrdersInv ==
    /\ \A id \in DOMAIN orders :
          orders[id].sequence \in used /\ id \in issued /\ id \notin DOMAIN pool
    /\ \A q \in used : q <= lastSequence
    /\ SequencesUnique
    /\ ActiveHasQuantity
    /\ \A a, b \in ActiveIds : Apart(orders[a], orders[b])

(* The orders that a restore has still to rest come after those it has rested. *)
PoolInv ==
    /\ DOMAIN pool # {} => restoring
    /\ restoring => current = NoOrder
    /\ \A id \in DOMAIN pool :
          /\ id \in issued
          /\ pool[id].status \in Active /\ pool[id].remaining > 0
          /\ pool[id].sequence > lastSequence
          /\ \A other \in DOMAIN pool :
                /\ pool[other].sequence = pool[id].sequence => other = id
                /\ Apart(pool[id], pool[other])
          /\ \A a \in ActiveIds : Apart(pool[id], orders[a])

(* The order being matched is new, and filled exactly when nothing remains.   *)
CurrentInv ==
    current # NoOrder =>
        /\ current.id \in issued /\ current.id \notin DOMAIN orders
        /\ current.order.sequence > lastSequence
        /\ IF current.order.remaining = 0 THEN current.order.status = "filled"
                                          ELSE current.order.status \in Active

TapeInv ==
    /\ TapeIncreasing
    /\ \A i \in DOMAIN tape : tape[i].sequence < nextTrade

Inv ==
    /\ TypeOK
    /\ BookInv /\ BidsBounded
    /\ OrdersInv
    /\ PoolInv
    /\ CurrentInv
    /\ TapeInv

-----------------------------------------------------------------------------
(* The book as a structure                                                  *)

LevelTypes ==
    /\ levels = [side \in Side |-> levels[side]]
    /\ \A side \in Side : IsDict(levels[side], Price, Seq(OrderId))

LEMMA LevelIsSeq ==
  ASSUME LevelTypes, NEW side \in Side, NEW p \in DOMAIN levels[side]
  PROVE  /\ levels[side][p] \in Seq(OrderId)
         /\ DOMAIN levels[side][p] = 1..Len(levels[side][p])
         /\ Len(levels[side][p]) \in Nat
  BY LenProperties DEF LevelTypes, IsDict

(* A level with one entry more, at its end.                                  *)
LEMMA WithEntryIs ==
  ASSUME LevelTypes, NEW id \in OrderId, NEW o, o.side \in Side, o.price \in Price,
         NEW next, next = WithEntry(id, o)
  PROVE  LET old == IF o.price \in DOMAIN levels[o.side] THEN levels[o.side][o.price]
                                                          ELSE <<>>
         IN  /\ next = [side \in Side |-> next[side]]
             /\ \A side \in Side : IsDict(next[side], Price, Seq(OrderId))
             /\ \A side \in Side : side # o.side => next[side] = levels[side]
             /\ DOMAIN next[o.side] = DOMAIN levels[o.side] \cup {o.price}
             /\ \A p \in DOMAIN levels[o.side] :
                   p # o.price => next[o.side][p] = levels[o.side][p]
             /\ next[o.side][o.price] = Append(old, id)
             /\ old \in Seq(OrderId)
<1> DEFINE book == levels[o.side]
           old == IF o.price \in DOMAIN book THEN book[o.price] ELSE <<>>
           new == Put(book, o.price, Append(old, id))
<1>1. /\ IsDict(book, Price, Seq(OrderId)) /\ old \in Seq(OrderId)
      /\ Append(old, id) \in Seq(OrderId)
  <2>1. IsDict(book, Price, Seq(OrderId)) /\ old \in Seq(OrderId)
    <3>1. IsDict(book, Price, Seq(OrderId))
      BY DEF LevelTypes
    <3>2. o.price \in DOMAIN book => book[o.price] \in Seq(OrderId)
      BY <3>1 DEF IsDict
    <3>3. <<>> \in Seq(OrderId)
      BY EmptySeq
    <3> QED BY <3>1, <3>2, <3>3
  <2> HIDE DEF old
  <2> QED BY <2>1, AppendProperties
<1>2. next = [levels EXCEPT ![o.side] = new]
  BY DEF WithEntry
<1>3. /\ DOMAIN new = DOMAIN book \cup {o.price}
      /\ new[o.price] = Append(old, id)
      /\ \A x \in DOMAIN book \ {o.price} : new[x] = book[x]
      /\ new = [x \in DOMAIN new |-> new[x]]
  BY DEF Put
<1> HIDE DEF new
<1>4. IsDict(new, Price, Seq(OrderId))
  BY <1>1, <1>3 DEF IsDict
<1>5. /\ next = [side \in Side |-> next[side]]
      /\ \A side \in Side : side # o.side => next[side] = levels[side]
      /\ next[o.side] = new
  BY <1>2 DEF LevelTypes
<1>6. \A side \in Side : IsDict(next[side], Price, Seq(OrderId))
  BY <1>4, <1>5 DEF LevelTypes
<1> QED BY <1>1, <1>3, <1>5, <1>6

(* A level with another FIFO, which disappears when that is empty.            *)
LevelReplaced(next, side, p, fifo) ==
    /\ next = [t \in Side |-> next[t]]
    /\ \A t \in Side : IsDict(next[t], Price, Seq(OrderId))
    /\ \A t \in Side : t # side => next[t] = levels[t]
    /\ DOMAIN next[side] = IF fifo = <<>> THEN DOMAIN levels[side] \ {p}
                                         ELSE DOMAIN levels[side]
    /\ \A q \in DOMAIN levels[side] : q # p => next[side][q] = levels[side][q]
    /\ fifo # <<>> => next[side][p] = fifo

LEMMA WithLevelIs ==
  ASSUME LevelTypes, NEW side \in Side, NEW p \in DOMAIN levels[side],
         NEW fifo \in Seq(OrderId)
  PROVE  LevelReplaced(WithLevel(side, p, fifo), side, p, fifo)
<1> DEFINE next == WithLevel(side, p, fifo)
<1> DEFINE book == levels[side]
           new == IF fifo = <<>> THEN Restrict(book, DOMAIN book \ {p})
                                 ELSE Put(book, p, fifo)
<1>1. IsDict(book, Price, Seq(OrderId))
  BY DEF LevelTypes
<1>2. next = [levels EXCEPT ![side] = new]
  BY DEF WithLevel
<1> HIDE DEF next
<1>3. /\ DOMAIN new = IF fifo = <<>> THEN DOMAIN book \ {p} ELSE DOMAIN book
      /\ \A q \in DOMAIN book : q # p => new[q] = book[q]
      /\ fifo # <<>> => new[p] = fifo
      /\ new = [x \in DOMAIN new |-> new[x]]
  BY DEF Put, Restrict
<1> HIDE DEF new
<1>4. IsDict(new, Price, Seq(OrderId))
  BY <1>1, <1>3 DEF IsDict
<1>5. /\ next = [t \in Side |-> next[t]]
      /\ \A t \in Side : t # side => next[t] = levels[t]
      /\ next[side] = new
  BY <1>2 DEF LevelTypes
<1>6. \A t \in Side : IsDict(next[t], Price, Seq(OrderId))
  BY <1>4, <1>5 DEF LevelTypes
<1>7. LevelReplaced(next, side, p, fifo)
  BY <1>3, <1>5, <1>6 DEF LevelReplaced
<1> QED BY <1>7 DEF next

(* An order that comes after all others rests at the end of its level.        *)
LEMMA EntryKeepsBook ==
  ASSUME LevelTypes, BookInv, IsDict(orders, OrderId, Order),
         NEW id \in OrderId, NEW o \in Order,
         id \notin DOMAIN orders, o.status \in Active,
         \A a \in DOMAIN orders : orders[a].sequence < o.sequence,
         orders' = Put(orders, id, o), levels' = WithEntry(id, o),
         resting' = resting \cup {id}
  PROVE  LevelTypes' /\ BookInv' /\ (BidsBounded => BidsBounded')
<1>1. o.side \in Side /\ o.price \in Price
  BY DEF Order
<1> DEFINE old == IF o.price \in DOMAIN levels[o.side] THEN levels[o.side][o.price]
                                                       ELSE <<>>
<1>2. /\ levels' = [side \in Side |-> levels'[side]]
      /\ \A side \in Side : IsDict(levels'[side], Price, Seq(OrderId))
      /\ \A side \in Side : side # o.side => levels'[side] = levels[side]
      /\ DOMAIN levels'[o.side] = DOMAIN levels[o.side] \cup {o.price}
      /\ \A p \in DOMAIN levels[o.side] :
            p # o.price => levels'[o.side][p] = levels[o.side][p]
      /\ levels'[o.side][o.price] = Append(old, id)
      /\ old \in Seq(OrderId)
  BY <1>1, WithEntryIs
<1>3. /\ DOMAIN orders' = DOMAIN orders \cup {id} /\ orders'[id] = o
      /\ \A a \in DOMAIN orders : orders'[a] = orders[a]
  BY DEF Put
<1>4. ActiveIds' = ActiveIds \cup {id} /\ id \notin ActiveIds
  BY <1>3 DEF ActiveIds
<1>5. LevelTypes'
  BY <1>2 DEF LevelTypes
<1>6. LET new == levels'[o.side][o.price] IN
      /\ Len(old) \in Nat /\ DOMAIN old = 1..Len(old)
      /\ DOMAIN new = 1..(Len(old) + 1)
      /\ \A i \in 1..Len(old) : new[i] = old[i]
      /\ new[Len(old) + 1] = id
      /\ new # <<>>
  <2> HIDE DEF old
  <2>1. /\ Append(old, id) \in Seq(OrderId) /\ Append(old, id) # <<>>
        /\ Len(Append(old, id)) = Len(old) + 1
        /\ \A i \in 1..Len(old) : Append(old, id)[i] = old[i]
        /\ Append(old, id)[Len(old) + 1] = id
    BY <1>2, AppendProperties
  <2> QED BY <1>2, <2>1, LenProperties
<1>7. /\ \A i \in 1..Len(old) : /\ old[i] \in ActiveIds
                                /\ orders[old[i]].side = o.side
                                /\ orders[old[i]].price = o.price
      /\ \A i, j \in 1..Len(old) : i < j => orders[old[i]].sequence < orders[old[j]].sequence
  <2>1. CASE o.price \in DOMAIN levels[o.side]
    <3>1. LevelInv(o.side, o.price)
      BY <1>1, <2>1 DEF BookInv
    <3>2. old = levels[o.side][o.price]
      BY <2>1
    <3> QED BY <1>6, <3>1, <3>2 DEF LevelInv
  <2>2. CASE o.price \notin DOMAIN levels[o.side]
    BY <1>6, <2>2
  <2> QED BY <2>1, <2>2
<1> HIDE DEF old
<1>8. LevelInv(o.side, o.price)'
  <2> DEFINE new == levels'[o.side][o.price]
  <2>1. \A i \in DOMAIN new : /\ new[i] \in ActiveIds'
                              /\ orders'[new[i]].side = o.side
                              /\ orders'[new[i]].price = o.price
    BY <1>3, <1>4, <1>6, <1>7 DEF ActiveIds
  <2>2. \A i, j \in DOMAIN new :
            i < j => orders'[new[i]].sequence < orders'[new[j]].sequence
    <3> SUFFICES ASSUME NEW i \in DOMAIN new, NEW j \in DOMAIN new, i < j
                 PROVE  orders'[new[i]].sequence < orders'[new[j]].sequence
      OBVIOUS
    <3>1. i \in 1..Len(old) /\ new[i] = old[i] /\ old[i] \in DOMAIN orders
      BY <1>6, <1>7 DEF ActiveIds
    <3>2. CASE j = Len(old) + 1
      BY <1>3, <1>6, <3>1, <3>2
    <3>3. CASE j \in 1..Len(old)
      BY <1>3, <1>6, <1>7, <3>1, <3>3 DEF ActiveIds
    <3> QED BY <1>6, <3>2, <3>3
  <2> QED BY <1>6, <2>1, <2>2 DEF LevelInv
<1>9. ASSUME NEW side \in Side, NEW p \in DOMAIN levels'[side], side # o.side \/ p # o.price
      PROVE  LevelInv(side, p)'
  <2>1. p \in DOMAIN levels[side] /\ levels'[side][p] = levels[side][p]
    BY <1>2, <1>9
  <2>2. \A a \in ActiveIds : a \in ActiveIds' /\ orders'[a] = orders[a]
    BY <1>3, <1>4 DEF ActiveIds
  <2> QED BY <2>1, <2>2 DEF BookInv, LevelInv
<1>10. ASSUME NEW a \in ActiveIds' PROVE Placed(a)'
  <2>1. CASE a = id
    <3>1. Len(old) + 1 \in DOMAIN levels'[o.side][o.price]
      BY <1>6
    <3> QED BY <1>2, <1>3, <1>6, <2>1, <3>1 DEF Placed
  <2>2. CASE a # id
    <3> DEFINE side == orders[a].side
               p == orders[a].price
    <3>1. a \in ActiveIds /\ a \in DOMAIN orders /\ orders'[a] = orders[a]
      BY <1>3, <1>4, <2>2 DEF ActiveIds
    <3>2. p \in DOMAIN levels[side]
          /\ \E i \in DOMAIN levels[side][p] : levels[side][p][i] = a
      BY <3>1 DEF BookInv, Placed
    <3>3. CASE side # o.side
      <4>1. side \in Side
        BY <3>1 DEF IsDict, Order
      <4>2. levels'[side] = levels[side]
        BY <1>2, <3>3, <4>1
      <4> QED BY <3>1, <3>2, <4>2 DEF Placed
    <3>4. CASE side = o.side /\ p # o.price
      BY <1>2, <3>1, <3>2, <3>4 DEF Placed
    <3>5. CASE side = o.side /\ p = o.price
      <4>1. PICK i \in 1..Len(old) : old[i] = a
        BY <1>6, <3>2, <3>5 DEF old
      <4>2. i \in DOMAIN levels'[side][p] /\ levels'[side][p][i] = a
        BY <1>6, <3>5, <4>1
      <4>3. p \in DOMAIN levels'[side]
        BY <1>2, <3>5
      <4> QED BY <3>1, <4>2, <4>3 DEF Placed
    <3> QED BY <3>3, <3>4, <3>5
  <2> QED BY <2>1, <2>2
<1>11. BookInv'
  BY <1>4, <1>8, <1>9, <1>10 DEF BookInv
<1>12. ASSUME BidsBounded PROVE BidsBounded'
  <2>1. PICK limit \in Nat : \A p \in DOMAIN levels["buy"] : p <= limit
    BY <1>12 DEF BidsBounded
  <2>2. o.price \in Nat /\ DOMAIN levels["buy"] \subseteq Nat
    BY <1>1, EngineAssumption DEF LevelTypes, IsDict, Side
  <2>3. \A p \in DOMAIN levels'["buy"] : p <= limit + o.price
    <3>1. CASE o.side = "buy"
      BY <1>2, <2>1, <2>2, <3>1
    <3>2. CASE o.side # "buy"
      BY <1>2, <2>1, <2>2, <3>2 DEF Side
    <3> QED BY <3>1, <3>2
  <2>4. limit + o.price \in Nat
    BY <2>2
  <2> QED BY <2>3, <2>4 DEF BidsBounded
<1> QED BY <1>5, <1>11, <1>12

(* short is fifo without its i-th entry.                                     *)
Without(short, fifo, i) ==
    /\ short \in Seq(OrderId)
    /\ Len(short) = Len(fifo) - 1
    /\ \A j \in 1..Len(short) : short[j] = IF j < i THEN fifo[j] ELSE fifo[j + 1]

LEMMA TailIsWithout ==
  ASSUME NEW fifo \in Seq(OrderId), fifo # <<>>
  PROVE  Without(Tail(fifo), fifo, 1)
BY HeadTailProperties DEF Without

LEMMA RemoveAtIsWithout ==
  ASSUME NEW fifo \in Seq(OrderId), NEW i \in 1..Len(fifo)
  PROVE  Without(RemoveAt(fifo, i), fifo, i)
<1> DEFINE front == SubSeq(fifo, 1, i - 1)
           back == SubSeq(fifo, i + 1, Len(fifo))
<1>1. Len(fifo) \in Nat /\ \A j \in 1..Len(fifo) : fifo[j] \in OrderId
  BY LenProperties, ElementOfSeq
<1>2. /\ front \in Seq(OrderId) /\ Len(front) = i - 1
      /\ \A j \in 1..(i - 1) : front[j] = fifo[j]
  <2>1. \A j \in 1..(i - 1) : fifo[j] \in OrderId
    BY <1>1
  <2>2. /\ front \in Seq(OrderId)
        /\ Len(front) = IF 1 <= i - 1 THEN (i - 1) - 1 + 1 ELSE 0
        /\ \A j \in 1..((i - 1) - 1 + 1) : front[j] = fifo[1 + j - 1]
    BY <1>1, <2>1, SubSeqProperties
  <2> HIDE DEF front
  <2>3. \A j \in 1..(i - 1) : j \in 1..((i - 1) - 1 + 1) /\ 1 + j - 1 = j
    BY <1>1
  <2> QED BY <1>1, <2>2, <2>3
<1>3. /\ back \in Seq(OrderId) /\ Len(back) = Len(fifo) - i
      /\ \A j \in 1..(Len(fifo) - i) : back[j] = fifo[i + j]
  <2>1. \A j \in (i + 1)..Len(fifo) : fifo[j] \in OrderId
    BY <1>1
  <2>2. /\ back \in Seq(OrderId)
        /\ Len(back) = IF i + 1 <= Len(fifo) THEN Len(fifo) - (i + 1) + 1 ELSE 0
        /\ \A j \in 1..(Len(fifo) - (i + 1) + 1) : back[j] = fifo[(i + 1) + j - 1]
    BY <1>1, <2>1, SubSeqProperties
  <2> HIDE DEF back
  <2>3. \A j \in 1..(Len(fifo) - i) :
            j \in 1..(Len(fifo) - (i + 1) + 1) /\ (i + 1) + j - 1 = i + j
    BY <1>1
  <2> QED BY <1>1, <2>2, <2>3
<1> HIDE DEF front, back
<1> DEFINE short == front \o back
<1>4. /\ short \in Seq(OrderId)
      /\ Len(short) = Len(front) + Len(back)
      /\ \A j \in 1..(Len(front) + Len(back)) :
            short[j] = IF j <= Len(front) THEN front[j] ELSE back[j - Len(front)]
  BY <1>2, <1>3, ConcatProperties
<1> HIDE DEF short
<1>5. Len(short) = Len(fifo) - 1
  BY <1>1, <1>2, <1>3, <1>4
<1>6. ASSUME NEW j \in 1..Len(short)
      PROVE  short[j] = IF j < i THEN fifo[j] ELSE fifo[j + 1]
  <2>1. j \in 1..(Len(front) + Len(back))
    BY <1>4
  <2>2. CASE j < i
    BY <1>1, <1>2, <1>4, <2>1, <2>2
  <2>3. CASE ~(j < i)
    <3>1. j - (i - 1) \in 1..(Len(fifo) - i) /\ i + (j - (i - 1)) = j + 1
      BY <1>1, <1>5, <2>3
    <3>2. short[j] = back[j - (i - 1)]
      BY <1>1, <1>2, <1>4, <2>1, <2>3
    <3> QED BY <1>3, <2>3, <3>1, <3>2
  <2> QED BY <2>2, <2>3
<1>7. short = RemoveAt(fifo, i)
  BY DEF short, front, back, RemoveAt
<1> QED BY <1>4, <1>5, <1>6, <1>7 DEF Without

(* An order that is not active any more leaves its level.                     *)
LEMMA RemovalKeepsBook ==
  ASSUME LevelTypes, BookInv, IsDict(orders, OrderId, Order),
         NEW side \in Side, NEW p \in DOMAIN levels[side],
         NEW i \in DOMAIN levels[side][p], NEW short, NEW id,
         id = levels[side][p][i], Without(short, levels[side][p], i),
         levels' = WithLevel(side, p, short),
         DOMAIN orders' = DOMAIN orders,
         \A a \in DOMAIN orders : a # id => orders'[a] = orders[a],
         orders'[id].status \notin Active,
         resting' = resting \ {id}
  PROVE  LevelTypes' /\ BookInv' /\ (BidsBounded => BidsBounded')
<1> DEFINE fifo == levels[side][p]
<1>1. /\ fifo \in Seq(OrderId) /\ DOMAIN fifo = 1..Len(fifo) /\ Len(fifo) \in Nat
      /\ i \in 1..Len(fifo)
  BY LevelIsSeq
<1>2. /\ short \in Seq(OrderId) /\ Len(short) = Len(fifo) - 1
      /\ DOMAIN short = 1..Len(short)
      /\ \A j \in 1..Len(short) : short[j] = IF j < i THEN fifo[j] ELSE fifo[j + 1]
      /\ short # <<>> <=> Len(short) # 0
  BY <1>1, LenProperties, EmptySeq DEF Without
<1>3. LevelInv(side, p)
  BY DEF BookInv
<1>4. /\ levels' = [t \in Side |-> levels'[t]]
      /\ \A t \in Side : IsDict(levels'[t], Price, Seq(OrderId))
      /\ \A t \in Side : t # side => levels'[t] = levels[t]
      /\ DOMAIN levels'[side] = IF short = <<>> THEN DOMAIN levels[side] \ {p}
                                               ELSE DOMAIN levels[side]
      /\ \A q \in DOMAIN levels[side] : q # p => levels'[side][q] = levels[side][q]
      /\ short # <<>> => levels'[side][p] = short
  <2>1. short \in Seq(OrderId)
    BY DEF Without
  <2>2. LevelReplaced(levels', side, p, short)
    BY <2>1, WithLevelIs
  <2> QED BY <2>2 DEF LevelReplaced
<1>5. id \in ActiveIds /\ orders[id].side = side /\ orders[id].price = p
  BY <1>3 DEF LevelInv
<1>6. /\ ActiveIds' = ActiveIds \ {id}
      /\ \A a \in ActiveIds' : orders'[a] = orders[a]
  BY <1>5 DEF ActiveIds
<1>7. ASSUME NEW t \in Side, NEW q \in DOMAIN levels'[t], t # side \/ q # p
      PROVE  LevelInv(t, q)'
  <2>1. q \in DOMAIN levels[t] /\ levels'[t][q] = levels[t][q]
    BY <1>4, <1>7
  <2>2. LevelInv(t, q)
    BY <2>1 DEF BookInv
  <2>3. \A a \in ActiveIds : (orders[a].side # side \/ orders[a].price # p) =>
            a \in ActiveIds' /\ orders'[a] = orders[a]
    BY <1>5, <1>6
  <2> QED BY <1>7, <2>1, <2>2, <2>3 DEF LevelInv
<1>8. ASSUME p \in DOMAIN levels'[side] PROVE LevelInv(side, p)'
  <2>1. short # <<>> /\ levels'[side][p] = short
    BY <1>4, <1>8
  <2>2. ASSUME NEW j \in 1..Len(short)
        PROVE  \E k \in 1..Len(fifo) : /\ short[j] = fifo[k] /\ k # i
                                       /\ k = IF j < i THEN j ELSE j + 1
    BY <1>1, <1>2
  <2>3. ASSUME NEW k \in 1..Len(fifo), k # i PROVE fifo[k] # id
    <3>1. /\ k < i => orders[fifo[k]].sequence < orders[fifo[i]].sequence
          /\ i < k => orders[fifo[i]].sequence < orders[fifo[k]].sequence
      BY <1>1, <1>3 DEF LevelInv
    <3>2. orders[id].sequence \in Int
      BY <1>5, EngineAssumption DEF ActiveIds, IsDict, Order, Sequence
    <3> QED BY <1>1, <2>3, <3>1, <3>2
  <2>4. ASSUME NEW j \in 1..Len(short)
        PROVE  /\ short[j] \in ActiveIds'
               /\ orders'[short[j]].side = side /\ orders'[short[j]].price = p
               /\ orders'[short[j]] = orders[short[j]]
    <3>1. PICK k \in 1..Len(fifo) : short[j] = fifo[k] /\ k # i
      BY <2>2
    <3>2. fifo[k] \in ActiveIds /\ orders[fifo[k]].side = side /\ orders[fifo[k]].price = p
      BY <1>1, <1>3 DEF LevelInv
    <3> QED BY <1>6, <2>3, <3>1, <3>2
  <2>5. ASSUME NEW j \in 1..Len(short), NEW k \in 1..Len(short), j < k
        PROVE  orders'[short[j]].sequence < orders'[short[k]].sequence
    <3>1. PICK m \in 1..Len(fifo) : short[j] = fifo[m] /\ m = IF j < i THEN j ELSE j + 1
      BY <2>2
    <3>2. PICK n \in 1..Len(fifo) : short[k] = fifo[n] /\ n = IF k < i THEN k ELSE k + 1
      BY <2>2
    <3>3. m < n
      BY <1>2, <2>5, <3>1, <3>2
    <3>4. orders[fifo[m]].sequence < orders[fifo[n]].sequence
      BY <1>1, <1>3, <3>3 DEF LevelInv
    <3> QED BY <2>4, <3>1, <3>2, <3>4
  <2> QED BY <1>2, <2>1, <2>4, <2>5 DEF LevelInv
<1>9. ASSUME NEW a \in ActiveIds' PROVE Placed(a)'
  <2>1. a \in ActiveIds /\ a # id /\ orders'[a] = orders[a] /\ Placed(a)
        /\ orders[a].side \in Side
    BY <1>6 DEF BookInv, ActiveIds, IsDict, Order
  <2>2. CASE orders[a].side # side \/ orders[a].price # p
    BY <1>4, <2>1, <2>2 DEF Placed
  <2>3. CASE orders[a].side = side /\ orders[a].price = p
    <3>1. PICK k \in 1..Len(fifo) : fifo[k] = a
      BY <1>1, <2>1, <2>3 DEF Placed
    <3>2. k # i
      BY <2>1, <3>1
    <3>3. PICK j \in 1..Len(short) : short[j] = a
      <4>1. CASE k < i
        <5>1. k \in 1..Len(short)
          BY <1>1, <1>2, <4>1
        <5> QED BY <1>2, <3>1, <4>1, <5>1
      <4>2. CASE k > i
        <5>1. k - 1 \in 1..Len(short) /\ ~(k - 1 < i) /\ (k - 1) + 1 = k
          BY <1>1, <1>2, <4>2
        <5> QED BY <1>2, <3>1, <5>1
      <4> QED BY <1>1, <3>2, <4>1, <4>2
    <3>4. short # <<>>
      BY <1>2, <3>3
    <3> QED BY <1>2, <1>4, <2>1, <2>3, <3>3, <3>4 DEF Placed
  <2> QED BY <2>2, <2>3
<1>10. BidsBounded => BidsBounded'
  BY <1>4 DEF BidsBounded, Side
<1>11. resting' = ActiveIds'
  BY <1>6 DEF BookInv
<1>12. BookInv'
  BY <1>7, <1>8, <1>9, <1>11 DEF BookInv
<1> QED BY <1>4, <1>10, <1>12 DEF LevelTypes
(* An order that is filled in part keeps its place.                           *)
LEMMA ChangeKeepsBook ==
  ASSUME BookInv, NEW id \in ActiveIds,
         DOMAIN orders' = DOMAIN orders,
         \A a \in DOMAIN orders : a # id => orders'[a] = orders[a],
         orders'[id].side = orders[id].side, orders'[id].price = orders[id].price,
         orders'[id].sequence = orders[id].sequence, orders'[id].status \in Active,
         levels' = levels, resting' = resting
  PROVE  BookInv'
<1>1. /\ ActiveIds' = ActiveIds
      /\ \A a \in ActiveIds : /\ orders'[a].side = orders[a].side
                              /\ orders'[a].price = orders[a].price
                              /\ orders'[a].sequence = orders[a].sequence
  BY DEF ActiveIds
<1>2. ASSUME NEW side \in Side, NEW p \in DOMAIN levels[side] PROVE LevelInv(side, p)'
  <2>1. LevelInv(side, p)
    BY DEF BookInv
  <2> QED BY <1>1, <2>1 DEF LevelInv
<1>3. ASSUME NEW a \in ActiveIds PROVE Placed(a)'
  <2>1. Placed(a)
    BY DEF BookInv
  <2> QED BY <1>1, <2>1 DEF Placed
<1> QED BY <1>1, <1>2, <1>3 DEF BookInv

(* An order that is not active is not in the book.                            *)
LEMMA FinishedKeepsBook ==
  ASSUME BookInv, ActiveIds' = ActiveIds,
         \A a \in ActiveIds : orders'[a] = orders[a],
         levels' = levels, resting' = resting
  PROVE  BookInv'
<1>2. ASSUME NEW side \in Side, NEW p \in DOMAIN levels[side] PROVE LevelInv(side, p)'
  <2>1. LevelInv(side, p)
    BY DEF BookInv
  <2> QED BY <2>1 DEF LevelInv
<1>3. ASSUME NEW a \in ActiveIds PROVE Placed(a)'
  <2>1. Placed(a)
    BY DEF BookInv
  <2> QED BY <2>1 DEF Placed
<1> QED BY <1>2, <1>3 DEF BookInv

-----------------------------------------------------------------------------
(* Numbers                                                                  *)

LEMMA LeastOfNumbers ==
  ASSUME NEW S \in SUBSET Nat, S # {}
  PROVE  \E m \in S : \A x \in S : m <= x
<1>1. PICK m \in S : \A x \in S : <<x, m>> \notin OpToRel(<, Nat)
  BY NatLessThanWellFounded, WFMin
<1>2. ASSUME NEW x \in S PROVE m <= x
  <2>1. x \in Nat /\ m \in Nat
    OBVIOUS
  <2>2. ~(x < m)
    BY <1>1, <2>1, Zenon DEF OpToRel
  <2> QED BY <2>1, <2>2
<1> QED BY <1>2

LEMMA GreatestOfBounded ==
  ASSUME NEW S \in SUBSET Nat, S # {}, NEW n \in Nat, \A x \in S : x <= n
  PROVE  \E m \in S : \A x \in S : x <= m
<1> DEFINE T == {k \in Nat : \E x \in S : k = n - x}
<1>1. T \subseteq Nat /\ T # {}
  <2>1. PICK x \in S : x \in Nat /\ x <= n
    OBVIOUS
  <2>2. n - x \in T
    BY <2>1
  <2> QED BY <2>2
<1>2. PICK t \in T : \A u \in T : t <= u
  <2> HIDE DEF T
  <2> QED BY <1>1, LeastOfNumbers
<1>3. PICK m \in S : t = n - m
  OBVIOUS
<1>4. ASSUME NEW x \in S PROVE x <= m
  <2>1. x \in Nat /\ m \in Nat /\ n - x \in T
    OBVIOUS
  <2>2. n - m <= n - x
    <3> HIDE DEF T
    <3> QED BY <1>2, <1>3, <2>1
  <2> QED BY <2>1, <2>2
<1> QED BY <1>4

LEMMA MaxIs ==
  ASSUME NEW S \in SUBSET Nat, NEW m \in S, \A x \in S : x <= m
  PROVE  Max(S) = m
<1>1. \A x \in S : m >= x
  OBVIOUS
<1>2. ASSUME NEW k \in S, \A x \in S : k >= x PROVE k = m
  BY <1>1, <1>2
<1> QED BY <1>1, <1>2, Zenon DEF Max

LEMMA MinIs ==
  ASSUME NEW S \in SUBSET Nat, NEW m \in S, \A x \in S : m <= x
  PROVE  Min(S) = m
<1>2. ASSUME NEW k \in S, \A x \in S : k <= x PROVE k = m
  BY <1>2
<1> QED BY <1>2, Zenon DEF Min

LEMMA MinOfTwo ==
  ASSUME NEW a \in Nat, NEW b \in Nat
  PROVE  Min({a, b}) = IF a <= b THEN a ELSE b
<1> DEFINE S == {a, b}
           m == IF a <= b THEN a ELSE b
<1>1. S \in SUBSET Nat /\ m \in S /\ \A x \in S : m <= x
  OBVIOUS
<1> HIDE DEF S, m
<1>2. Min(S) = m
  BY <1>1, MinIs
<1> QED BY <1>2 DEF S, m

LEMMA MaxOfTwo ==
  ASSUME NEW a \in Nat, NEW b \in Nat, a <= b
  PROVE  Max({a, b}) = b
<1> DEFINE S == {a, b}
<1>1. S \in SUBSET Nat /\ b \in S /\ \A x \in S : x <= b
  OBVIOUS
<1> HIDE DEF S
<1>2. Max(S) = b
  BY <1>1, MaxIs
<1> QED BY <1>2 DEF S

(* The best price of a side that has one.                                    *)
LEMMA BestExists ==
  ASSUME LevelTypes, BidsBounded, NEW side \in Side, DOMAIN levels[side] # {}
  PROVE  \E p \in DOMAIN levels[side] :
            \A q \in DOMAIN levels[side] : AtLeastAsGood(side, p, q)
<1>1. DOMAIN levels[side] \subseteq Nat
  BY EngineAssumption DEF LevelTypes, IsDict
<1>2. CASE side = "sell"
  <2>1. PICK p \in DOMAIN levels[side] : \A q \in DOMAIN levels[side] : p <= q
    BY <1>1, LeastOfNumbers
  <2> QED BY <1>2, <2>1 DEF AtLeastAsGood
<1>3. CASE side = "buy"
  <2>1. PICK limit \in Nat : \A p \in DOMAIN levels[side] : p <= limit
    BY <1>3 DEF BidsBounded
  <2>2. PICK p \in DOMAIN levels[side] : \A q \in DOMAIN levels[side] : q <= p
    BY <1>1, <2>1, GreatestOfBounded
  <2>3. \A q \in DOMAIN levels[side] : p >= q
    BY <1>1, <2>2
  <2> QED BY <1>3, <2>3 DEF AtLeastAsGood
<1> QED BY <1>2, <1>3 DEF Side

(* When the best price of the other side is out of reach, so are the others.  *)
LEMMA NothingCrosses ==
  ASSUME LevelTypes, BidsBounded, NEW o \in Order, BestCrossing(o) = {},
         NEW q \in DOMAIN levels[Opposite(o.side)]
  PROVE  ~Crosses(o.side, o.price, q)
<1> DEFINE side == Opposite(o.side)
<1>1. /\ side \in Side /\ o.side \in Side /\ o.side # side
      /\ o.price \in Nat /\ DOMAIN levels[side] \subseteq Nat
  BY EngineAssumption DEF Order, Opposite, Side, LevelTypes, IsDict
<1>2. PICK p \in DOMAIN levels[side] :
        \A r \in DOMAIN levels[side] : AtLeastAsGood(side, p, r)
  BY <1>1, BestExists
<1>3. ~Crosses(o.side, o.price, p)
  BY <1>2 DEF BestCrossing
<1>4. p \in Nat /\ q \in Nat /\ AtLeastAsGood(side, p, q)
  BY <1>1, <1>2
<1> QED BY <1>1, <1>3, <1>4 DEF Crosses, AtLeastAsGood, Side
-----------------------------------------------------------------------------
(* The steps that leave the book alone                                      *)

EngineUnchanged ==
    UNCHANGED <<orders, levels, resting, used, lastSequence, nextTrade, tape>>

LEMMA UnchangedKeepsInv ==
  ASSUME Inv, EngineUnchanged
  PROVE  /\ BookInv' /\ BidsBounded' /\ TapeInv'
         /\ \A id \in DOMAIN orders : orders[id].sequence \in used /\ id \in issued
         /\ SequencesUnique' /\ ActiveHasQuantity'
         /\ ActiveIds' = ActiveIds
         /\ \A a, b \in ActiveIds' : Apart(orders'[a], orders'[b])
<1>1. ActiveIds' = ActiveIds
  BY DEF EngineUnchanged, ActiveIds
<1>2. BookInv'
  BY <1>1, FinishedKeepsBook DEF Inv, EngineUnchanged
<1>3. BidsBounded' /\ TapeInv' /\ SequencesUnique'
  BY DEF Inv, EngineUnchanged, BidsBounded, TapeInv, OrdersInv, SequencesUnique,
         TapeIncreasing
<1>4. ActiveHasQuantity' /\ \A a, b \in ActiveIds' : Apart(orders'[a], orders'[b])
  BY <1>1 DEF Inv, EngineUnchanged, OrdersInv, ActiveHasQuantity
<1> QED BY <1>1, <1>2, <1>3, <1>4 DEF Inv, OrdersInv

LEMMA NewOrderIs ==
  ASSUME NEW side \in Side, NEW price \in Price, NEW quantity \in Quantity,
         NEW sequence \in Sequence
  PROVE  /\ NewOrder(side, price, quantity, sequence) \in Order
         /\ NewOrder(side, price, quantity, sequence).sequence = sequence
         /\ NewOrder(side, price, quantity, sequence).remaining # 0
         /\ NewOrder(side, price, quantity, sequence).status \in Active
BY EngineAssumption DEF NewOrder, Order, Status, Active

LEMMA BeginSubmitKeepsInv ==
  ASSUME Inv, NEW id \in OrderId, NEW side \in Side, NEW price \in Price,
         NEW quantity \in Quantity, NEW sequence \in Sequence,
         BeginSubmit(id, side, price, quantity, sequence)
  PROVE  Inv'
<1> DEFINE o == NewOrder(side, price, quantity, sequence)
<1>1. /\ EngineUnchanged /\ UNCHANGED <<pool, restoring>>
      /\ current' = [id |-> id, order |-> o, fills |-> <<>>]
      /\ issued' = issued \cup {id} /\ outcome' = "none"
      /\ Ready /\ id \notin issued /\ SubmitError(id, sequence) = "none"
  BY DEF BeginSubmit, EngineUnchanged
<1>2. o \in Order /\ o.sequence = sequence /\ o.remaining # 0 /\ o.status \in Active
  BY NewOrderIs
<1> HIDE DEF o
<1>3. id \notin DOMAIN orders /\ sequence > lastSequence
  <2>1. id \notin DOMAIN orders
    BY <1>1 DEF Inv, OrdersInv
  <2>2. ~(sequence <= lastSequence)
    <3>1. sequence \notin used => ~(sequence <= lastSequence)
      BY <1>1, <2>1 DEF SubmitError
    <3>2. sequence \notin used
      BY <1>1, <2>1 DEF SubmitError
    <3> QED BY <3>1, <3>2
  <2>3. sequence \in Nat /\ lastSequence \in Nat
    BY EngineAssumption DEF Inv, TypeOK, Sequence
  <2> QED BY <2>1, <2>2, <2>3
<1>4. current' \in Submission /\ current' # NoOrder
      /\ current'.id = id /\ current'.order = o
  <2> DEFINE none == <<>>
  <2>1. none \in Seq(Trade)
    BY EmptySeq
  <2>2. current' = [id |-> id, order |-> o, fills |-> none]
    BY <1>1
  <2> HIDE DEF none
  <2>3. current' \in Submission
    BY <1>2, <2>1, <2>2 DEF Submission
  <2>4. current' # NoOrder
    BY <2>3, EngineAssumption
  <2>5. current'.id = id /\ current'.order = o
    BY <2>2
  <2> QED BY <2>3, <2>4, <2>5
<1>5. TypeOK'
  <2>1. outcome' \in Outcome
    BY <1>1 DEF Outcome
  <2> QED BY <1>1, <1>4, <2>1 DEF Inv, TypeOK, EngineUnchanged
<1>6. /\ BookInv' /\ BidsBounded' /\ TapeInv' /\ SequencesUnique' /\ ActiveHasQuantity'
      /\ ActiveIds' = ActiveIds
      /\ \A a, b \in ActiveIds' : Apart(orders'[a], orders'[b])
  BY <1>1, UnchangedKeepsInv
<1>7. OrdersInv'
  BY <1>1, <1>6 DEF OrdersInv, Inv, EngineUnchanged
<1>8. PoolInv'
  BY <1>1, <1>6 DEF PoolInv, Inv, EngineUnchanged, Ready
<1>9. CurrentInv'
  BY <1>1, <1>2, <1>3, <1>4 DEF CurrentInv, EngineUnchanged
<1> QED BY <1>5, <1>6, <1>7, <1>8, <1>9 DEF Inv

(* A refusal, and the end of a restore, change no field that Inv is about.     *)
LEMMA AnswerKeepsInv ==
  ASSUME Inv, EngineUnchanged, UNCHANGED <<current, pool, issued>>,
         outcome' \in Outcome, restoring' \in BOOLEAN,
         restoring' # restoring => restoring /\ DOMAIN pool = {}
  PROVE  Inv'
<1>1. TypeOK'
  BY DEF Inv, TypeOK, EngineUnchanged
<1>2. /\ BookInv' /\ BidsBounded' /\ TapeInv' /\ SequencesUnique' /\ ActiveHasQuantity'
      /\ ActiveIds' = ActiveIds
      /\ \A a, b \in ActiveIds' : Apart(orders'[a], orders'[b])
  BY UnchangedKeepsInv
<1>3. OrdersInv'
  BY <1>2 DEF OrdersInv, Inv, EngineUnchanged
<1>4. PoolInv'
  BY <1>2 DEF PoolInv, Inv, EngineUnchanged, TypeOK
<1>5. CurrentInv'
  BY DEF CurrentInv, Inv, EngineUnchanged
<1> QED BY <1>1, <1>2, <1>3, <1>4, <1>5 DEF Inv

LEMMA RefuseSubmitKeepsInv ==
  ASSUME Inv, NEW id \in OrderId, NEW sequence \in Sequence, RefuseSubmit(id, sequence)
  PROVE  Inv'
<1>1. outcome' \in Outcome
  BY DEF RefuseSubmit, SubmitError, Outcome
<1>2. EngineUnchanged /\ UNCHANGED <<current, pool, issued, restoring>>
  BY DEF RefuseSubmit, EngineUnchanged
<1>3. restoring' \in BOOLEAN
  BY <1>2 DEF Inv, TypeOK
<1> QED BY <1>1, <1>2, <1>3, AnswerKeepsInv

LEMMA RefuseCancelKeepsInv ==
  ASSUME Inv, NEW id \in OrderId, RefuseCancel(id)
  PROVE  Inv'
<1>1. outcome' \in Outcome
  BY DEF RefuseCancel, Outcome
<1>2. EngineUnchanged /\ UNCHANGED <<current, pool, issued, restoring>>
  BY DEF RefuseCancel, EngineUnchanged
<1>3. restoring' \in BOOLEAN
  BY <1>2 DEF Inv, TypeOK
<1> QED BY <1>1, <1>2, <1>3, AnswerKeepsInv

LEMMA FinishRestoreKeepsInv ==
  ASSUME Inv, FinishRestore
  PROVE  Inv'
<1>1. outcome' \in Outcome
  BY DEF FinishRestore, Checked, Outcome
<1>2. /\ EngineUnchanged /\ UNCHANGED <<current, pool, issued>>
      /\ restoring' \in BOOLEAN /\ restoring /\ DOMAIN pool = {}
  BY DEF FinishRestore, EngineUnchanged
<1> QED BY <1>1, <1>2, AnswerKeepsInv
-----------------------------------------------------------------------------
(* The steps that change an order of the book                               *)

(* Order id becomes o, which differs in status and remaining quantity only.   *)
Changes(id, o) ==
    /\ id \in ActiveIds
    /\ o \in Order /\ o.side = orders[id].side /\ o.price = orders[id].price
    /\ o.sequence = orders[id].sequence
    /\ o.status \in Active => o.remaining > 0
    /\ orders' = [orders EXCEPT ![id] = o]
    /\ UNCHANGED <<used, lastSequence, pool, issued, restoring>>

LEMMA ChangeKeepsOrders ==
  ASSUME Inv, NEW id, NEW o, Changes(id, o)
  PROVE  /\ IsDict(orders', OrderId, Order)
         /\ OrdersInv'
         /\ DOMAIN orders' = DOMAIN orders /\ orders'[id] = o
         /\ \A a \in DOMAIN orders : a # id => orders'[a] = orders[a]
<1>1. IsDict(orders, OrderId, Order) /\ id \in DOMAIN orders /\ o \in Order
  BY DEF Inv, TypeOK, Changes, ActiveIds
<1>2. /\ DOMAIN orders' = DOMAIN orders /\ orders'[id] = o
      /\ \A a \in DOMAIN orders : a # id => orders'[a] = orders[a]
      /\ orders' = [a \in DOMAIN orders |-> orders'[a]]
  BY <1>1 DEF Changes
<1>3. IsDict(orders', OrderId, Order)
  BY <1>1, <1>2 DEF IsDict
<1>4. \A a \in DOMAIN orders : /\ orders'[a].side = orders[a].side
                               /\ orders'[a].price = orders[a].price
                               /\ orders'[a].sequence = orders[a].sequence
  BY <1>2 DEF Changes
<1>5. ActiveIds' \subseteq ActiveIds
  BY <1>2 DEF ActiveIds, Changes
<1>6. ActiveHasQuantity'
  <2> SUFFICES ASSUME NEW a \in ActiveIds' PROVE orders'[a].remaining > 0
    BY DEF ActiveHasQuantity
  <2>1. CASE a = id
    BY <1>2, <2>1 DEF Changes, ActiveIds
  <2>2. CASE a # id
    BY <1>2, <1>5, <2>2 DEF ActiveIds, Inv, OrdersInv, ActiveHasQuantity
  <2> QED BY <2>1, <2>2
<1>7. SequencesUnique'
  BY <1>2, <1>4 DEF SequencesUnique, Inv, OrdersInv
<1>8. \A a, b \in ActiveIds' : Apart(orders'[a], orders'[b])
  <2> SUFFICES ASSUME NEW a \in ActiveIds', NEW b \in ActiveIds'
               PROVE  Apart(orders'[a], orders'[b])
    OBVIOUS
  <2>1. Apart(orders[a], orders[b]) /\ a \in DOMAIN orders /\ b \in DOMAIN orders
    BY <1>5 DEF Inv, OrdersInv, ActiveIds
  <2> QED BY <1>4, <2>1 DEF Apart
<1>9. OrdersInv'
  BY <1>2, <1>4, <1>6, <1>7, <1>8 DEF OrdersInv, Inv, Changes
<1> QED BY <1>2, <1>3, <1>9

LEMMA CancelKeepsInv ==
  ASSUME Inv, NEW id \in OrderId, Cancel(id)
  PROVE  Inv'
<1> DEFINE side == orders[id].side
           p == orders[id].price
           o == Cancelled(orders[id])
<1>1. /\ LevelTypes /\ IsDict(orders, OrderId, Order)
      /\ id \in ActiveIds /\ id \in DOMAIN orders /\ orders[id] \in Order
      /\ side \in Side
  BY DEF Inv, TypeOK, LevelTypes, IsDict, Cancel, ActiveIds, Order
<1>2. p \in DOMAIN levels[side]
  BY <1>1 DEF Inv, BookInv, Placed
<1>3. PICK i \in DOMAIN levels[side][p] :
         /\ levels[side][p][i] = id
         /\ levels' = WithLevel(side, p, RemoveAt(levels[side][p], i))
  BY DEF Cancel
<1>4. /\ o \in Order /\ o.side = side /\ o.price = p
      /\ o.sequence = orders[id].sequence /\ o.status = "cancelled"
      /\ "cancelled" \notin Active
  BY <1>1 DEF Cancelled, Order, Status, Active
<1>5. Changes(id, o)
  BY <1>1, <1>4 DEF Changes, Cancel
<1>6. /\ IsDict(orders', OrderId, Order)
      /\ OrdersInv'
      /\ DOMAIN orders' = DOMAIN orders /\ orders'[id] = o
      /\ \A a \in DOMAIN orders : a # id => orders'[a] = orders[a]
  BY <1>5, ChangeKeepsOrders
<1>7. LevelTypes' /\ BookInv' /\ BidsBounded'
  <2> DEFINE short == RemoveAt(levels[side][p], i)
  <2>1. Without(short, levels[side][p], i)
    BY <1>1, <1>2, <1>3, LevelIsSeq, RemoveAtIsWithout
  <2>2. resting' = resting \ {id}
    BY DEF Cancel
  <2>3. levels' = WithLevel(side, p, short) /\ orders'[id].status \notin Active
    BY <1>3, <1>4, <1>6
  <2> HIDE DEF short, o, side, p
  <2> QED BY <1>1, <1>2, <1>3, <1>6, <2>1, <2>2, <2>3, RemovalKeepsBook DEF Inv
<1> HIDE DEF o, side, p
<1>8. outcome' \in Outcome
  BY DEF Cancel, Checked, Outcome
<1>9. UNCHANGED <<used, lastSequence, nextTrade, tape, current, pool, restoring, issued>>
      /\ Ready
  BY DEF Cancel
<1>10. TypeOK'
  <2>1. resting' \subseteq OrderId
    BY DEF Cancel, Inv, TypeOK
  <2> QED BY <1>6, <1>7, <1>8, <1>9, <2>1 DEF Inv, TypeOK, LevelTypes
<1>11. CurrentInv' /\ TapeInv' /\ PoolInv'
  <2>1. DOMAIN pool = {} /\ current = NoOrder /\ ~restoring
    BY <1>9 DEF Ready, Inv, PoolInv
  <2>2. CurrentInv' /\ PoolInv'
    BY <1>9, <2>1 DEF CurrentInv, PoolInv
  <2>3. TapeInv'
    BY <1>9 DEF TapeInv, TapeIncreasing, Inv
  <2> QED BY <2>2, <2>3
<1> QED BY <1>6, <1>7, <1>10, <1>11 DEF Inv

(* What FillAt(p) takes from the book: the head of the best level.            *)
Fills(p, side, id, maker, n) ==
    /\ side \in Side /\ side = Opposite(current.order.side) /\ p \in DOMAIN levels[side]
    /\ \A q \in DOMAIN levels[side] : AtLeastAsGood(side, p, q)
    /\ Crosses(current.order.side, current.order.price, p)
    /\ levels[side][p] \in Seq(OrderId) /\ levels[side][p] # <<>>
    /\ 1 \in DOMAIN levels[side][p]
    /\ id = Head(levels[side][p]) /\ id = levels[side][p][1]
    /\ id \in ActiveIds /\ maker = orders[id] /\ maker \in Order
    /\ maker.side = side /\ maker.price = p
    /\ maker.remaining \in Nat /\ current.order.remaining \in Nat
    /\ n = FillQuantity(current.order, maker)
    /\ n \in Nat \ {0} /\ n <= maker.remaining /\ n <= current.order.remaining

LEMMA FillTakes ==
  ASSUME Inv, current # NoOrder, current.order.remaining > 0,
         NEW p \in BestCrossing(current.order),
         NEW side, side = Opposite(current.order.side),
         NEW id, id = Head(levels[side][p]),
         NEW n, n = FillQuantity(current.order, orders[id])
  PROVE  Fills(p, side, id, orders[id], n)
<1>1. /\ current \in Submission /\ current.order \in Order /\ current.order.side \in Side
      /\ current.order.remaining \in Nat
  BY DEF Inv, TypeOK, Submission, Order
<1>2. /\ LevelTypes /\ side \in Side /\ p \in DOMAIN levels[side]
      /\ \A q \in DOMAIN levels[side] : AtLeastAsGood(side, p, q)
      /\ Crosses(current.order.side, current.order.price, p)
  BY <1>1 DEF Inv, TypeOK, LevelTypes, BestCrossing, Opposite, Side
<1>3. LevelInv(side, p)
  BY <1>2 DEF Inv, BookInv
<1>4. /\ levels[side][p] \in Seq(OrderId) /\ levels[side][p] # <<>>
      /\ DOMAIN levels[side][p] = 1..Len(levels[side][p])
      /\ Len(levels[side][p]) \in Nat
  BY <1>2, <1>3, LevelIsSeq DEF LevelInv
<1>5. 1 \in DOMAIN levels[side][p] /\ id = levels[side][p][1]
  <2>1. Len(levels[side][p]) # 0
    BY <1>4, EmptySeq
  <2> QED BY <1>4, <2>1, HeadTailProperties
<1>6. /\ id \in ActiveIds /\ orders[id].side = side /\ orders[id].price = p
  BY <1>3, <1>5 DEF LevelInv
<1>7. orders[id] \in Order /\ orders[id].remaining \in Nat /\ orders[id].remaining > 0
  <2>1. orders[id].remaining > 0
    BY <1>6 DEF Inv, OrdersInv, ActiveHasQuantity
  <2>2. orders[id] \in Order
    BY <1>6 DEF Inv, TypeOK, IsDict, ActiveIds
  <2> QED BY <2>1, <2>2 DEF Order
<1>8. /\ n \in Nat \ {0} /\ n <= orders[id].remaining /\ n <= current.order.remaining
  <2>1. n = IF current.order.remaining <= orders[id].remaining
            THEN current.order.remaining ELSE orders[id].remaining
    BY <1>1, <1>7, MinOfTwo DEF FillQuantity
  <2> QED BY <1>1, <1>7, <2>1
<1> QED BY <1>1, <1>2, <1>4, <1>5, <1>6, <1>7, <1>8 DEF Fills

LEMMA ApplyFillIs ==
  ASSUME NEW o \in Order, NEW n \in Nat \ {0}, n <= o.remaining
  PROVE  /\ ApplyFill(o, n) \in Order
         /\ ApplyFill(o, n).side = o.side /\ ApplyFill(o, n).price = o.price
         /\ ApplyFill(o, n).sequence = o.sequence
         /\ ApplyFill(o, n).quantity = o.quantity
         /\ ApplyFill(o, n).remaining = o.remaining - n
         /\ ApplyFill(o, n).status = IF o.remaining = n THEN "filled"
                                                       ELSE "partially_filled"
<1>1. o.remaining - n \in Nat
  BY DEF Order
<1> QED BY <1>1 DEF ApplyFill, Order, Status, Active
LEMMA FillKeepsInv ==
  ASSUME Inv, Fill
  PROVE  Inv'
<1>1. PICK p \in BestCrossing(current.order) : FillAt(p)
  BY DEF Fill
<1> DEFINE side == Opposite(current.order.side)
           id == Head(levels[side][p])
           maker == orders[id]
           taker == current.order
           n == FillQuantity(taker, maker)
           filled == ApplyFill(maker, n)
           trade == [sequence |-> nextTrade, maker |-> id, taker |-> current.id,
                     price |-> maker.price, quantity |-> n, makerSide |-> maker.side]
<1>2. current # NoOrder /\ current.order.remaining > 0
  BY DEF Fill
<1>3. Fills(p, side, id, maker, n)
  BY <1>2, FillTakes
<1>4. /\ orders' = [orders EXCEPT ![id] = filled]
      /\ filled.status = "filled" =>
            /\ levels' = WithLevel(side, p, Tail(levels[side][p]))
            /\ resting' = resting \ {id}
      /\ filled.status # "filled" => levels' = levels /\ resting' = resting
      /\ current' = [current EXCEPT !.order = ApplyFill(taker, n),
                                    !.fills = Append(@, trade)]
      /\ tape' = Append(tape, trade)
      /\ nextTrade' = nextTrade + 1
      /\ UNCHANGED <<used, lastSequence, pool, restoring, issued, outcome>>
  BY <1>1 DEF FillAt
<1> HIDE DEF side, id
<1>5. /\ filled \in Order /\ filled.side = maker.side /\ filled.price = maker.price
      /\ filled.sequence = maker.sequence /\ filled.remaining = maker.remaining - n
      /\ filled.status = IF maker.remaining = n THEN "filled" ELSE "partially_filled"
  BY <1>3, ApplyFillIs DEF Fills
<1>6. /\ current \in Submission /\ current.id \in OrderId /\ taker \in Order
      /\ current.fills \in Seq(Trade)
      /\ ApplyFill(taker, n) \in Order /\ ApplyFill(taker, n).sequence = taker.sequence
      /\ ApplyFill(taker, n).remaining = taker.remaining - n
      /\ ApplyFill(taker, n).status =
            IF taker.remaining = n THEN "filled" ELSE "partially_filled"
  <2>1. /\ current \in Submission /\ current.id \in OrderId /\ taker \in Order
        /\ current.fills \in Seq(Trade)
    BY <1>2 DEF Inv, TypeOK, Submission
  <2> QED BY <1>3, <2>1, ApplyFillIs DEF Fills
<1>7. trade \in Trade /\ trade.sequence = nextTrade
  <2>1. /\ nextTrade \in Nat \ {0} /\ id \in OrderId /\ maker.price \in Price
        /\ maker.side \in Side /\ n \in Nat \ {0}
    BY <1>3 DEF Fills, Inv, TypeOK, IsDict, ActiveIds, Order
  <2> HIDE DEF n, maker
  <2> QED BY <1>6, <2>1 DEF Trade
<1> HIDE DEF trade
<1>8. Changes(id, filled)
  <2>1. filled.status \in Active => filled.remaining > 0
    <3>1. maker.remaining \in Nat /\ n \in Nat /\ n <= maker.remaining
      BY <1>3 DEF Fills
    <3> HIDE DEF n, maker, filled
    <3> QED BY <1>5, <3>1 DEF Active
  <2> QED BY <1>3, <1>4, <1>5, <2>1 DEF Changes, Fills
<1> HIDE DEF filled, n
<1>9. /\ IsDict(orders', OrderId, Order)
      /\ OrdersInv'
      /\ DOMAIN orders' = DOMAIN orders /\ orders'[id] = filled
      /\ \A a \in DOMAIN orders : a # id => orders'[a] = orders[a]
  BY <1>8, ChangeKeepsOrders
<1>10. LevelTypes /\ BookInv /\ IsDict(orders, OrderId, Order) /\ BidsBounded
  BY DEF Inv, TypeOK, LevelTypes
<1>11. LevelTypes' /\ BookInv' /\ BidsBounded' /\ resting' \subseteq OrderId
  <2>1. CASE filled.status = "filled"
    <3> DEFINE short == Tail(levels[side][p])
    <3>1. Without(short, levels[side][p], 1)
      BY <1>3, TailIsWithout DEF Fills
    <3>2. levels' = WithLevel(side, p, short) /\ resting' = resting \ {id}
      BY <1>4, <2>1
    <3>3. /\ side \in Side /\ p \in DOMAIN levels[side] /\ 1 \in DOMAIN levels[side][p]
          /\ id = levels[side][p][1]
      BY <1>3 DEF Fills
    <3>4. orders'[id].status \notin Active
      BY <1>9, <2>1 DEF Active
    <3> HIDE DEF short
    <3>5. LevelTypes' /\ BookInv' /\ BidsBounded'
      BY <1>9, <1>10, <3>1, <3>2, <3>3, <3>4, RemovalKeepsBook
    <3> QED BY <3>2, <3>5 DEF Inv, TypeOK
  <2>2. CASE filled.status # "filled"
    <3>1. levels' = levels /\ resting' = resting /\ id \in ActiveIds
      BY <1>3, <1>4, <2>2 DEF Fills
    <3>2. LevelTypes' /\ BidsBounded'
      BY <1>10, <3>1 DEF LevelTypes, BidsBounded
    <3>3. /\ orders'[id].side = orders[id].side /\ orders'[id].price = orders[id].price
          /\ orders'[id].sequence = orders[id].sequence /\ orders'[id].status \in Active
      BY <1>5, <1>9, <2>2 DEF Active
    <3>4. BookInv'
      BY <1>9, <1>10, <3>1, <3>3, ChangeKeepsBook
    <3> QED BY <3>1, <3>2, <3>4 DEF Inv, TypeOK
  <2> QED BY <2>1, <2>2
<1>12. /\ current' \in Submission /\ current' # NoOrder
       /\ current'.id = current.id /\ current'.order = ApplyFill(taker, n)
  <2>1. Append(current.fills, trade) \in Seq(Trade)
    BY <1>6, <1>7, AppendProperties
  <2>2. /\ current'.id = current.id /\ current'.order = ApplyFill(taker, n)
        /\ current' = [id |-> current.id, order |-> ApplyFill(taker, n),
                       fills |-> Append(current.fills, trade)]
    BY <1>4, <1>6 DEF Submission
  <2>3. current' \in Submission
    <3> DEFINE o == ApplyFill(taker, n)
               fs == Append(current.fills, trade)
    <3>1. o \in Order /\ fs \in Seq(Trade) /\ current.id \in OrderId
          /\ current' = [id |-> current.id, order |-> o, fills |-> fs]
      BY <1>6, <2>1, <2>2
    <3> HIDE DEF o, fs
    <3> QED BY <3>1 DEF Submission
  <2> QED BY <2>2, <2>3, EngineAssumption
<1>13. tape' \in Seq(Trade) /\ nextTrade \in Nat \ {0} /\ nextTrade' \in Nat \ {0}
  BY <1>4, <1>7, AppendProperties DEF Inv, TypeOK
<1>14. TypeOK'
  BY <1>4, <1>9, <1>11, <1>12, <1>13 DEF Inv, TypeOK, LevelTypes
<1>15. CurrentInv'
  <2>1. /\ current.id \in issued /\ current.id \notin DOMAIN orders
        /\ current.order.sequence > lastSequence
    BY <1>2 DEF Inv, CurrentInv
  <2>2. IF current'.order.remaining = 0 THEN current'.order.status = "filled"
                                        ELSE current'.order.status \in Active
    <3>1. taker.remaining \in Nat /\ n \in Nat
      BY <1>3 DEF Fills
    <3> QED BY <1>6, <1>12, <3>1 DEF Active
  <2> QED BY <1>4, <1>6, <1>9, <1>12, <2>1, <2>2 DEF CurrentInv
<1>16. PoolInv'
  <2>1. DOMAIN pool = {} /\ ~restoring
    BY <1>2 DEF Inv, PoolInv
  <2> QED BY <1>4, <2>1 DEF PoolInv
<1>17. TapeInv'
  <2>1. /\ TapeIncreasing /\ \A i \in DOMAIN tape : tape[i].sequence < nextTrade
        /\ tape \in Seq(Trade)
    BY DEF Inv, TapeInv, TypeOK
  <2>2. /\ DOMAIN tape = 1..Len(tape) /\ Len(tape) \in Nat
        /\ DOMAIN tape' = 1..(Len(tape) + 1)
        /\ \A i \in 1..Len(tape) : tape'[i] = tape[i]
        /\ tape'[Len(tape) + 1] = trade
    BY <1>4, <1>7, <2>1, AppendProperties, LenProperties
  <2>3. \A i \in DOMAIN tape : tape[i].sequence \in Nat
    <3>1. \A i \in DOMAIN tape : tape[i] \in Trade
      BY <2>1, <2>2, ElementOfSeq
    <3> QED BY <3>1 DEF Trade
  <2>4. \A i \in DOMAIN tape' : tape'[i].sequence < nextTrade'
    BY <1>4, <1>7, <1>13, <2>1, <2>2, <2>3
  <2>5. ASSUME NEW i \in DOMAIN tape', NEW j \in DOMAIN tape', i < j
        PROVE  tape'[i].sequence < tape'[j].sequence
    <3>1. i \in 1..Len(tape) /\ tape'[i] = tape[i]
      BY <2>2, <2>5
    <3>2. CASE j = Len(tape) + 1
      BY <1>7, <2>1, <2>2, <3>1, <3>2
    <3>3. CASE j \in 1..Len(tape)
      BY <2>1, <2>2, <2>5, <3>1, <3>3 DEF TapeIncreasing
    <3> QED BY <2>2, <3>2, <3>3
  <2> QED BY <2>4, <2>5 DEF TapeInv, TapeIncreasing
<1> QED BY <1>9, <1>11, <1>14, <1>15, <1>16, <1>17 DEF Inv

-----------------------------------------------------------------------------
(* The steps that put an order into the book                                *)

LEMMA FinishSubmitKeepsInv ==
  ASSUME Inv, FinishSubmit
  PROVE  Inv'
<1> DEFINE id == current.id
           o == current.order
<1>1. /\ current # NoOrder /\ LoopDone
      /\ orders' = Put(orders, id, o)
      /\ used' = used \cup {o.sequence} /\ lastSequence' = o.sequence
      /\ o.status \in Active => /\ levels' = WithEntry(id, o)
                                /\ resting' = resting \cup {id}
      /\ o.status \notin Active => levels' = levels /\ resting' = resting
      /\ current' = NoOrder
      /\ UNCHANGED <<nextTrade, tape, pool, restoring, issued>>
      /\ outcome' = Checked("accepted")
  BY DEF FinishSubmit
<1>2. /\ id \in OrderId /\ o \in Order
      /\ IsDict(orders, OrderId, Order) /\ LevelTypes /\ BookInv /\ BidsBounded
  BY <1>1 DEF Inv, TypeOK, Submission, LevelTypes
<1>3. /\ id \in issued /\ id \notin DOMAIN orders /\ o.sequence > lastSequence
      /\ IF o.remaining = 0 THEN o.status = "filled" ELSE o.status \in Active
      /\ DOMAIN pool = {} /\ ~restoring
  BY <1>1 DEF Inv, CurrentInv, PoolInv
<1>4. LoopDone <=> o.remaining = 0 \/ BestCrossing(o) = {}
  BY DEF LoopDone
<1> HIDE DEF id, o
<1>5. /\ DOMAIN orders' = DOMAIN orders \cup {id} /\ orders'[id] = o
      /\ \A a \in DOMAIN orders : orders'[a] = orders[a]
      /\ orders' = [a \in DOMAIN orders' |-> orders'[a]]
  BY <1>1, <1>3 DEF Put
<1>6. IsDict(orders', OrderId, Order)
  BY <1>2, <1>5 DEF IsDict
<1>7. /\ o.sequence \in Sequence /\ o.sequence \in Nat /\ lastSequence \in Nat
      /\ o.side \in Side /\ o.remaining \in Nat
      /\ \A a \in DOMAIN orders : /\ orders[a].sequence \in Nat
                                  /\ orders[a].sequence < o.sequence
  <2>1. /\ o.sequence \in Sequence /\ o.sequence \in Nat /\ lastSequence \in Nat
        /\ o.side \in Side /\ o.remaining \in Nat
    BY <1>2, EngineAssumption DEF Order, Sequence, Inv, TypeOK
  <2>2. ASSUME NEW a \in DOMAIN orders
        PROVE  orders[a].sequence \in Nat /\ orders[a].sequence < o.sequence
    <3>1. orders[a].sequence \in used /\ orders[a].sequence <= lastSequence
      BY DEF Inv, OrdersInv
    <3>2. orders[a].sequence \in Nat
      BY <1>2, EngineAssumption DEF IsDict, Order, Sequence
    <3> QED BY <1>3, <2>1, <3>1, <3>2
  <2> QED BY <2>1, <2>2
<1>8. ActiveIds' = IF o.status \in Active THEN ActiveIds \cup {id} ELSE ActiveIds
  BY <1>3, <1>5 DEF ActiveIds
<1>9. LevelTypes' /\ BookInv' /\ BidsBounded'
  <2>1. CASE o.status \in Active
    BY <1>1, <1>2, <1>3, <1>7, <2>1, EntryKeepsBook
  <2>2. CASE o.status \notin Active
    <3>1. BookInv'
      BY <1>1, <1>2, <1>5, <1>8, <2>2, FinishedKeepsBook DEF ActiveIds
    <3> QED BY <1>1, <1>2, <2>2, <3>1 DEF LevelTypes, BidsBounded
  <2> QED BY <2>1, <2>2
<1>10. ASSUME o.status \in Active, NEW a \in ActiveIds
       PROVE  Apart(o, orders[a]) /\ Apart(orders[a], o)
  <2>1. BestCrossing(o) = {}
    <3>1. o.remaining # 0
      BY <1>3, <1>10 DEF Active
    <3> QED BY <1>1, <1>4, <3>1
  <2>2. orders[a] \in Order /\ orders[a].side \in Side /\ orders[a].price \in Nat
        /\ o.price \in Nat /\ o.side \in Side
    BY <1>2, EngineAssumption DEF ActiveIds, IsDict, Order
  <2>3. orders[a].side = Opposite(o.side) =>
            ~Crosses(o.side, o.price, orders[a].price)
    <3>1. orders[a].price \in DOMAIN levels[orders[a].side]
      BY <1>2 DEF BookInv, Placed
    <3> QED BY <1>2, <2>1, <3>1, NothingCrosses
  <2> QED BY <2>2, <2>3 DEF Apart, Crosses, Opposite, Side
<1>11. OrdersInv'
  <2>1. \A a \in DOMAIN orders' :
            orders'[a].sequence \in used' /\ a \in issued' /\ a \notin DOMAIN pool'
    BY <1>1, <1>3, <1>5 DEF Inv, OrdersInv
  <2>2. \A q \in used' : q <= lastSequence'
    <3>1. \A q \in used : q \in Nat /\ q <= lastSequence
      BY EngineAssumption DEF Inv, OrdersInv, TypeOK, Sequence
    <3> QED BY <1>1, <1>3, <1>7, <3>1
  <2>3. SequencesUnique'
    BY <1>5, <1>7 DEF Inv, OrdersInv, SequencesUnique
  <2>4. ActiveHasQuantity'
    <3>1. o.status \in Active => o.remaining > 0
      BY <1>3, <1>7 DEF Active
    <3> QED BY <1>5, <1>8, <3>1 DEF Inv, OrdersInv, ActiveHasQuantity, ActiveIds
  <2>5. \A a, b \in ActiveIds' : Apart(orders'[a], orders'[b])
    <3>1. Apart(o, o)
      BY DEF Apart
    <3>2. \A a, b \in ActiveIds : Apart(orders[a], orders[b])
      BY DEF Inv, OrdersInv
    <3>3. \A a \in ActiveIds : a \in DOMAIN orders /\ orders'[a] = orders[a]
      BY <1>5 DEF ActiveIds
    <3> QED BY <1>5, <1>8, <1>10, <3>1, <3>2, <3>3
  <2> QED BY <2>1, <2>2, <2>3, <2>4, <2>5 DEF OrdersInv
<1>12. outcome' \in Outcome
  BY <1>1 DEF Checked, Outcome
<1>13. TypeOK'
  <2>1. resting' \subseteq OrderId /\ used' \subseteq Sequence
        /\ lastSequence' \in Nat /\ current' \in Submission \cup {NoOrder}
    BY <1>1, <1>2, <1>7 DEF Inv, TypeOK
  <2> QED BY <1>1, <1>6, <1>9, <1>12, <2>1 DEF Inv, TypeOK, LevelTypes
<1>14. CurrentInv' /\ PoolInv'
  BY <1>1, <1>3 DEF CurrentInv, PoolInv
<1>15. TapeInv'
  BY <1>1 DEF Inv, TapeInv, TapeIncreasing
<1> QED BY <1>9, <1>11, <1>13, <1>14, <1>15 DEF Inv
LEMMA RestoreOneKeepsInv ==
  ASSUME Inv, NEW id \in OrderId, RestoreOne(id)
  PROVE  Inv'
<1> DEFINE o == pool[id]
<1>1. /\ restoring /\ id \in DOMAIN pool
      /\ \A other \in DOMAIN pool : o.sequence <= pool[other].sequence
      /\ orders' = Put(orders, id, o)
      /\ used' = used \cup {o.sequence}
      /\ lastSequence' = Max({lastSequence, o.sequence})
      /\ levels' = WithEntry(id, o)
      /\ resting' = resting \cup {id}
      /\ pool' = Restrict(pool, DOMAIN pool \ {id})
      /\ UNCHANGED <<nextTrade, tape, current, restoring, issued, outcome>>
  BY DEF RestoreOne
<1>2. /\ o \in Order /\ IsDict(pool, OrderId, Order) /\ current = NoOrder
      /\ IsDict(orders, OrderId, Order) /\ LevelTypes /\ BookInv /\ BidsBounded
  BY <1>1 DEF Inv, TypeOK, LevelTypes, IsDict, PoolInv
<1>3. /\ id \in issued /\ id \notin DOMAIN orders /\ o.sequence > lastSequence
      /\ o.status \in Active /\ o.remaining > 0
      /\ \A a \in ActiveIds : Apart(o, orders[a])
      /\ \A other \in DOMAIN pool : /\ pool[other].sequence = o.sequence => other = id
                                    /\ Apart(pool[other], o)
  BY <1>1 DEF Inv, PoolInv, OrdersInv
<1>4. /\ o.sequence \in Sequence /\ o.sequence \in Nat /\ lastSequence \in Nat
      /\ \A other \in DOMAIN pool : pool[other].sequence \in Nat
      /\ \A a \in DOMAIN orders : /\ orders[a].sequence \in Nat
                                  /\ orders[a].sequence < o.sequence
  <2>1. /\ o.sequence \in Sequence /\ o.sequence \in Nat /\ lastSequence \in Nat
        /\ \A other \in DOMAIN pool : pool[other].sequence \in Nat
    BY <1>2, EngineAssumption DEF Order, Sequence, Inv, TypeOK, IsDict
  <2>2. ASSUME NEW a \in DOMAIN orders
        PROVE  orders[a].sequence \in Nat /\ orders[a].sequence < o.sequence
    <3>1. orders[a].sequence \in used /\ orders[a].sequence <= lastSequence
      BY DEF Inv, OrdersInv
    <3>2. orders[a].sequence \in Nat
      BY <1>2, EngineAssumption DEF IsDict, Order, Sequence
    <3> QED BY <1>3, <2>1, <3>1, <3>2
  <2> QED BY <2>1, <2>2
<1>5. lastSequence' = o.sequence
  BY <1>1, <1>3, <1>4, MaxOfTwo
<1>6. /\ DOMAIN pool' = DOMAIN pool \ {id}
      /\ \A other \in DOMAIN pool' : pool'[other] = pool[other]
      /\ pool' = [other \in DOMAIN pool' |-> pool'[other]]
  BY <1>1 DEF Restrict
<1> HIDE DEF o
<1>7. /\ DOMAIN orders' = DOMAIN orders \cup {id} /\ orders'[id] = o
      /\ \A a \in DOMAIN orders : orders'[a] = orders[a]
      /\ orders' = [a \in DOMAIN orders' |-> orders'[a]]
  BY <1>1, <1>3 DEF Put
<1>8. IsDict(orders', OrderId, Order) /\ IsDict(pool', OrderId, Order)
  BY <1>2, <1>6, <1>7 DEF IsDict
<1>9. ActiveIds' = ActiveIds \cup {id}
  BY <1>3, <1>7 DEF ActiveIds
<1>10. LevelTypes' /\ BookInv' /\ BidsBounded'
  BY <1>1, <1>2, <1>3, <1>4, EntryKeepsBook
<1>11. \A a \in ActiveIds : a \in DOMAIN orders /\ orders'[a] = orders[a]
  BY <1>7 DEF ActiveIds
<1>12. \A a, b \in ActiveIds' : Apart(orders'[a], orders'[b])
  <2>1. Apart(o, o)
    BY DEF Apart
  <2>2. \A a, b \in ActiveIds : Apart(orders[a], orders[b])
    BY DEF Inv, OrdersInv
  <2>3. \A a \in ActiveIds : Apart(o, orders[a]) /\ Apart(orders[a], o)
    BY <1>3 DEF Apart
  <2> QED BY <1>7, <1>9, <1>11, <2>1, <2>2, <2>3
<1>13. OrdersInv'
  <2>1. \A a \in DOMAIN orders' :
            orders'[a].sequence \in used' /\ a \in issued' /\ a \notin DOMAIN pool'
    BY <1>1, <1>3, <1>6, <1>7 DEF Inv, OrdersInv
  <2>2. \A q \in used' : q <= lastSequence'
    <3>1. \A q \in used : q \in Nat /\ q <= lastSequence
      BY EngineAssumption DEF Inv, OrdersInv, TypeOK, Sequence
    <3>2. used' = used \cup {o.sequence}
      BY <1>1
    <3> QED BY <1>3, <1>4, <1>5, <3>1, <3>2
  <2>3. SequencesUnique'
    BY <1>4, <1>7 DEF Inv, OrdersInv, SequencesUnique
  <2>4. ActiveHasQuantity'
    BY <1>3, <1>7, <1>9, <1>11 DEF Inv, OrdersInv, ActiveHasQuantity
  <2> QED BY <1>12, <2>1, <2>2, <2>3, <2>4 DEF OrdersInv
<1>14. PoolInv'
  <2>1. ASSUME NEW one \in DOMAIN pool'
        PROVE  /\ one \in issued'
               /\ pool'[one].status \in Active /\ pool'[one].remaining > 0
               /\ pool'[one].sequence > lastSequence'
               /\ \A other \in DOMAIN pool' :
                     /\ pool'[other].sequence = pool'[one].sequence => other = one
                     /\ Apart(pool'[one], pool'[other])
               /\ \A a \in ActiveIds' : Apart(pool'[one], orders'[a])
    <3>1. one \in DOMAIN pool /\ one # id /\ pool'[one] = pool[one]
      BY <1>6
    <3>2. /\ one \in issued
          /\ pool[one].status \in Active /\ pool[one].remaining > 0
          /\ \A other \in DOMAIN pool :
                /\ pool[other].sequence = pool[one].sequence => other = one
                /\ Apart(pool[one], pool[other])
          /\ \A a \in ActiveIds : Apart(pool[one], orders[a])
      BY <3>1 DEF Inv, PoolInv
    <3>3. pool[one].sequence > lastSequence'
      <4>1. o.sequence <= pool[one].sequence /\ o.sequence # pool[one].sequence
        BY <1>1, <1>3, <3>1 DEF o
      <4> QED BY <1>4, <1>5, <3>1, <4>1
    <3>4. \A a \in ActiveIds' : Apart(pool[one], orders'[a])
      BY <1>3, <1>7, <1>9, <1>11, <3>1, <3>2
    <3> QED BY <1>1, <1>6, <3>1, <3>2, <3>3, <3>4
  <2> QED BY <1>1, <1>2, <2>1 DEF PoolInv
<1>15. TypeOK'
  <2>1. resting' \subseteq OrderId /\ used' \subseteq Sequence /\ lastSequence' \in Nat
    BY <1>1, <1>4, <1>5 DEF Inv, TypeOK
  <2> QED BY <1>1, <1>8, <1>10, <2>1 DEF Inv, TypeOK, LevelTypes
<1>16. CurrentInv'
  BY <1>1, <1>2 DEF CurrentInv
<1>17. TapeInv'
  BY <1>1 DEF Inv, TapeInv, TapeIncreasing
<1> QED BY <1>10, <1>13, <1>14, <1>15, <1>16, <1>17 DEF Inv

(* The trades go on after the last of the persisted ones.                     *)
LEMMA NumbersGoOn ==
  ASSUME Inv
  PROVE  /\ NextTradeAfter(tape) \in Nat \ {0}
         /\ \A i \in DOMAIN tape : tape[i].sequence < NextTradeAfter(tape)
<1> DEFINE S == {0} \cup {tape[i].sequence : i \in DOMAIN tape}
<1>1. S \in SUBSET Nat /\ nextTrade \in Nat /\ \A x \in S : x <= nextTrade
  <2>1. /\ tape \in Seq(Trade) /\ nextTrade \in Nat \ {0}
        /\ \A i \in DOMAIN tape : tape[i].sequence < nextTrade
    BY DEF Inv, TypeOK, TapeInv
  <2>2. \A i \in DOMAIN tape : tape[i] \in Trade
    BY <2>1, ElementOfSeq, LenProperties
  <2>3. \A i \in DOMAIN tape : tape[i].sequence \in Nat
    BY <2>2 DEF Trade
  <2> QED BY <2>1, <2>3
<1>2. PICK m \in S : \A x \in S : x <= m
  <2>1. S # {}
    OBVIOUS
  <2> HIDE DEF S
  <2> QED BY <1>1, <2>1, GreatestOfBounded
<1>3. Max(S) = m
  <2> HIDE DEF S
  <2> QED BY <1>1, <1>2, MaxIs
<1>4. NextTradeAfter(tape) = 1 + m /\ m \in Nat
  <2>1. m \in Nat
    <3> HIDE DEF S
    <3> QED BY <1>1
  <2> QED BY <1>3, <2>1 DEF NextTradeAfter
<1>5. \A i \in DOMAIN tape : tape[i].sequence \in S
  OBVIOUS
<1> HIDE DEF S
<1>6. ASSUME NEW i \in DOMAIN tape PROVE tape[i].sequence < 1 + m
  <2>1. tape[i].sequence \in Nat /\ tape[i].sequence <= m
    BY <1>1, <1>2, <1>5
  <2> QED BY <1>4, <2>1
<1> QED BY <1>4, <1>6

LEMMA EmptyBookInv ==
  ASSUME levels = EmptyBook, orders = EmptyMap, resting = {}
  PROVE  LevelTypes /\ BookInv /\ BidsBounded /\ ActiveIds = {}
         /\ IsDict(orders, OrderId, Order) /\ DOMAIN orders = {}
<1>1. DOMAIN EmptyMap = {} /\ EmptyMap = [k \in {} |-> EmptyMap[k]]
  BY DEF EmptyMap
<1>2. DOMAIN orders = {} /\ ActiveIds = {}
  BY <1>1 DEF ActiveIds
<1>3. /\ levels = [side \in Side |-> levels[side]]
      /\ \A side \in Side : levels[side] = EmptyMap
  BY DEF EmptyBook
<1>4. IsDict(EmptyMap, Price, Seq(OrderId)) /\ IsDict(EmptyMap, OrderId, Order)
  BY <1>1 DEF IsDict
<1>5. LevelTypes
  BY <1>3, <1>4 DEF LevelTypes
<1>6. BookInv
  BY <1>1, <1>2, <1>3 DEF BookInv
<1>7. BidsBounded
  <2>1. \A p \in DOMAIN levels["buy"] : p <= 0
    BY <1>1, <1>3 DEF Side
  <2> QED BY <2>1 DEF BidsBounded
<1> QED BY <1>2, <1>4, <1>5, <1>6, <1>7

BookEmpty == levels = EmptyBook /\ orders = EmptyMap /\ resting = {}
BookEmptyFacts == LevelTypes /\ BookInv /\ BidsBounded /\ ActiveIds = {}
                  /\ IsDict(orders, OrderId, Order) /\ DOMAIN orders = {}

LEMMA EmptyBookFacts == BookEmpty => BookEmptyFacts
BY EmptyBookInv DEF BookEmpty, BookEmptyFacts

LEMMA EmptiedBookFacts == BookEmpty' => BookEmptyFacts'
BY EmptyBookFacts, PTL

LEMMA BeginRestoreKeepsInv ==
  ASSUME Inv, BeginRestore
  PROVE  Inv'
<1>1. /\ Ready /\ pool' = Restrict(orders, ActiveIds)
      /\ restoring' = TRUE /\ BookEmpty' /\ used' = {} /\ lastSequence' = 0
      /\ nextTrade' = NextTradeAfter(tape) /\ outcome' = "none"
      /\ UNCHANGED <<tape, current, issued>>
  BY DEF BeginRestore, BookEmpty
<1>2. LevelTypes' /\ BookInv' /\ BidsBounded' /\ ActiveIds' = {}
      /\ IsDict(orders', OrderId, Order) /\ DOMAIN orders' = {}
  BY <1>1, EmptiedBookFacts DEF BookEmptyFacts
<1>3. nextTrade' \in Nat \ {0} /\ \A i \in DOMAIN tape' : tape'[i].sequence < nextTrade'
  BY <1>1, NumbersGoOn
<1>4. /\ DOMAIN pool' = ActiveIds /\ ActiveIds \subseteq DOMAIN orders
      /\ \A id \in ActiveIds : pool'[id] = orders[id]
      /\ pool' = [id \in DOMAIN pool' |-> pool'[id]]
  BY <1>1 DEF Restrict, ActiveIds
<1>5. IsDict(orders, OrderId, Order)
  BY DEF Inv, TypeOK
<1>6. IsDict(pool', OrderId, Order)
  BY <1>4, <1>5 DEF IsDict
<1>7. TypeOK'
  <2>1. resting' \subseteq OrderId
    BY <1>1 DEF BookEmpty
  <2> QED BY <1>1, <1>2, <1>3, <1>6, <2>1 DEF Inv, TypeOK, LevelTypes, Outcome
<1>8. OrdersInv'
  BY <1>1, <1>2 DEF OrdersInv, SequencesUnique, ActiveHasQuantity
<1>9. PoolInv'
  <2>1. ASSUME NEW one \in ActiveIds
        PROVE  /\ one \in issued
               /\ orders[one].status \in Active /\ orders[one].remaining > 0
               /\ orders[one].sequence > 0
               /\ \A other \in ActiveIds :
                     /\ orders[other].sequence = orders[one].sequence => other = one
                     /\ Apart(orders[one], orders[other])
    <3>1. orders[one].sequence \in Sequence
      BY <1>5 DEF IsDict, Order, ActiveIds
    <3> QED BY <3>1, EngineAssumption
            DEF Inv, OrdersInv, SequencesUnique, ActiveHasQuantity, ActiveIds, Sequence
  <2> QED BY <1>1, <1>2, <1>4, <2>1 DEF PoolInv, Ready
<1>10. CurrentInv'
  BY <1>1 DEF CurrentInv, Ready
<1>11. TapeInv'
  BY <1>1, <1>3 DEF Inv, TapeInv, TapeIncreasing
<1> QED BY <1>2, <1>7, <1>8, <1>9, <1>10, <1>11 DEF Inv

LEMMA InitInv == Init => Inv
<1> SUFFICES ASSUME Init PROVE Inv
  OBVIOUS
<1>1. LevelTypes /\ BookInv /\ BidsBounded /\ ActiveIds = {}
      /\ IsDict(orders, OrderId, Order) /\ DOMAIN orders = {}
  BY EmptyBookFacts DEF Init, BookEmpty, BookEmptyFacts
<1>2. IsDict(pool, OrderId, Order) /\ DOMAIN pool = {}
  BY DEF Init, EmptyMap, IsDict
<1>3. tape \in Seq(Trade) /\ DOMAIN tape = {}
  BY EmptySeq DEF Init
<1>4. TypeOK
  <2>1. /\ resting \subseteq OrderId /\ used \subseteq Sequence
        /\ lastSequence \in Nat /\ nextTrade \in Nat \ {0}
        /\ current \in Submission \cup {NoOrder} /\ restoring \in BOOLEAN
        /\ issued \subseteq OrderId
    <3>1. /\ resting = {} /\ used = {} /\ lastSequence = 0 /\ nextTrade = 1
          /\ current = NoOrder /\ restoring = FALSE /\ issued = {}
      BY DEF Init
    <3>2. lastSequence \in Nat /\ nextTrade \in Nat \ {0}
      BY <3>1
    <3>3. current \in Submission \cup {NoOrder} /\ restoring \in BOOLEAN
      BY <3>1
    <3> QED BY <3>1, <3>2, <3>3
  <2>2. outcome \in Outcome
    BY DEF Init, Outcome
  <2> QED BY <1>1, <1>2, <1>3, <2>1, <2>2 DEF TypeOK, LevelTypes
<1>5. OrdersInv /\ PoolInv /\ CurrentInv /\ TapeInv
  BY <1>1, <1>2, <1>3 DEF Init, OrdersInv, PoolInv, CurrentInv, TapeInv, TapeIncreasing,
                          SequencesUnique, ActiveHasQuantity
<1> QED BY <1>1, <1>4, <1>5 DEF Inv
LEMMA NextKeepsInv ==
  ASSUME Inv, [Next]_engineVars
  PROVE  Inv'
<1>1. CASE UNCHANGED engineVars
  <2>1. EngineUnchanged /\ UNCHANGED <<current, pool, issued, restoring, outcome>>
    BY <1>1 DEF engineVars, EngineUnchanged
  <2>2. outcome' \in Outcome /\ restoring' \in BOOLEAN
    BY <2>1 DEF Inv, TypeOK
  <2> QED BY <2>1, <2>2, AnswerKeepsInv
<1>2. CASE Submit
  BY <1>2, BeginSubmitKeepsInv DEF Submit
<1>3. CASE Place
  <2>1. lastSequence + 1 \in Sequence
    BY <1>3, EngineAssumption DEF Place, Sequence, Inv, TypeOK
  <2> DEFINE next == lastSequence + 1
  <2>2. PICK id \in OrderId, side \in Side, price \in Price, quantity \in Quantity :
           BeginSubmit(id, side, price, quantity, next)
    BY <1>3 DEF Place, PlaceLimitOrder
  <2> HIDE DEF next
  <2>3. next \in Sequence
    BY <2>1 DEF next
  <2> QED BY <2>2, <2>3, BeginSubmitKeepsInv
<1>4. ASSUME NEW id \in OrderId, NEW sequence \in Sequence, RefuseSubmit(id, sequence)
      PROVE  Inv'
  BY <1>4, RefuseSubmitKeepsInv
<1>5. CASE Step
  BY <1>5, FillKeepsInv, FinishSubmitKeepsInv, RefuseCancelKeepsInv, CancelKeepsInv,
     RestoreOneKeepsInv, BeginRestoreKeepsInv, FinishRestoreKeepsInv DEF Step
<1> QED BY <1>1, <1>2, <1>3, <1>4, <1>5 DEF Next

(* The engine's own invariant: every active order rests exactly once, levels    *)
(* are first in first out and never empty, and between two fills of submit, or  *)
(* two orders of restore, only the order under way is out of place.            *)
THEOREM EngineInvariant == Spec => []Inv
<1>1. Inv /\ [Next]_engineVars => Inv'
  BY NextKeepsInv
<1> QED BY InitInv, <1>1, PTL DEF Spec

(* The fields, and the locals of the loops of submit and restore, keep their  *)
(* types.                                                                    *)
THEOREM EngineTypes == Spec => []TypeOK
<1>1. Inv => TypeOK
  BY DEF Inv
<1> QED BY EngineInvariant, <1>1, PTL

-----------------------------------------------------------------------------
(* assert_invariants                                                        *)

LEMMA EntryIs ==
  ASSUME NEW e \in Entries
  PROVE  /\ e[1] \in Side /\ e[2] \in DOMAIN levels[e[1]]
         /\ e[3] \in DOMAIN levels[e[1]][e[2]]
         /\ e = <<e[1], e[2], e[3]>>
BY DEF Entries

LEMMA EntryOf ==
  ASSUME NEW side \in Side, NEW p \in DOMAIN levels[side],
         NEW i \in DOMAIN levels[side][p]
  PROVE  <<side, p, i>> \in Entries /\ IdAt(<<side, p, i>>) = levels[side][p][i]
BY DEF Entries, IdAt

LEMMA BookHoldsOnce ==
  ASSUME Inv
  PROVE  RestsExactlyOnce
<1>1. BookInv /\ LevelTypes /\ IsDict(orders, OrderId, Order)
  BY DEF Inv, TypeOK, LevelTypes
<1>2. ASSUME NEW e \in Entries
      PROVE  /\ IdAt(e) \in ActiveIds
             /\ orders[IdAt(e)].side = e[1] /\ orders[IdAt(e)].price = e[2]
  <2>1. LevelInv(e[1], e[2]) /\ e[3] \in DOMAIN levels[e[1]][e[2]]
    BY <1>1, EntryIs DEF BookInv
  <2> QED BY <2>1 DEF LevelInv, IdAt
<1>3. ASSUME NEW d \in Entries, NEW e \in Entries, IdAt(d) = IdAt(e)
      PROVE  d = e
  <2>1. d[1] = e[1] /\ d[2] = e[2]
    BY <1>2, <1>3
  <2> DEFINE side == e[1]
             p == e[2]
             i == d[3]
             j == e[3]
  <2>2. /\ d = <<side, p, i>> /\ e = <<side, p, j>>
        /\ side \in Side /\ p \in DOMAIN levels[side]
        /\ i \in DOMAIN levels[side][p] /\ j \in DOMAIN levels[side][p]
    BY <2>1, EntryIs
  <2>3. levels[side][p][i] = levels[side][p][j]
    BY <1>3, <2>1 DEF IdAt
  <2> HIDE DEF side, p, i, j
  <2>4. LevelInv(side, p) /\ DOMAIN levels[side][p] = 1..Len(levels[side][p])
    BY <1>1, <2>2, LevelIsSeq DEF BookInv
  <2>5. orders[levels[side][p][i]].sequence \in Int
    <3>1. levels[side][p][i] \in DOMAIN orders
      BY <2>2, <2>4 DEF LevelInv, ActiveIds
    <3> QED BY <1>1, <3>1, EngineAssumption DEF IsDict, Order, Sequence
  <2>6. ~(i < j) /\ ~(j < i)
    <3>1. i < j => orders[levels[side][p][i]].sequence < orders[levels[side][p][j]].sequence
      BY <2>2, <2>4 DEF LevelInv
    <3>2. j < i => orders[levels[side][p][j]].sequence < orders[levels[side][p][i]].sequence
      BY <2>2, <2>4 DEF LevelInv
    <3> QED BY <2>3, <2>5, <3>1, <3>2
  <2>7. i = j
    <3>1. i \in Int /\ j \in Int
      BY <2>2, <2>4
    <3> QED BY <2>6, <3>1
  <2> QED BY <2>2, <2>7
<1>4. ASSUME NEW id \in ActiveIds PROVE \E e \in Entries : IdAt(e) = id
  <2> DEFINE side == orders[id].side
             p == orders[id].price
  <2>1. Placed(id) /\ side \in Side
    BY <1>1 DEF BookInv, ActiveIds, IsDict, Order
  <2>2. PICK i \in DOMAIN levels[side][p] : levels[side][p][i] = id
    BY <2>1 DEF Placed
  <2>3. p \in DOMAIN levels[side]
    BY <2>1 DEF Placed
  <2> HIDE DEF side, p
  <2> QED BY <2>1, <2>2, <2>3, EntryOf
<1>5. resting = ActiveIds
  BY <1>1 DEF BookInv
<1> QED BY <1>2, <1>3, <1>4, <1>5 DEF RestsExactlyOnce

LEMMA InvAsserts == Inv => AssertInvariants
<1> SUFFICES ASSUME Inv PROVE AssertInvariants
  OBVIOUS
<1>1. BookInv /\ LevelTypes /\ IsDict(orders, OrderId, Order)
  BY DEF Inv, TypeOK, LevelTypes
<1>2. ASSUME NEW side \in Side PROVE BookOK(side)
  <2> SUFFICES ASSUME NEW p \in DOMAIN levels[side]
               PROVE  /\ levels[side][p] # <<>>
                      /\ \A i \in DOMAIN levels[side][p] :
                            /\ levels[side][p][i] \in ActiveIds
                            /\ orders[levels[side][p][i]].side = side
                            /\ orders[levels[side][p][i]].price = p
                      /\ \A i, j \in DOMAIN levels[side][p] :
                            i < j => orders[levels[side][p][i]].sequence
                                        <= orders[levels[side][p][j]].sequence
    BY DEF BookOK
  <2>1. LevelInv(side, p)
    BY <1>1 DEF BookInv
  <2>2. \A id \in ActiveIds : orders[id].sequence \in Int
    BY <1>1, EngineAssumption DEF ActiveIds, IsDict, Order, Sequence
  <2>3. \A i, j \in DOMAIN levels[side][p] :
            i < j => orders[levels[side][p][i]].sequence
                        <= orders[levels[side][p][j]].sequence
    BY <2>1, <2>2 DEF LevelInv
  <2> QED BY <2>1, <2>3 DEF LevelInv
<1>3. NotCrossed
  <2> SUFFICES ASSUME NEW bid \in DOMAIN levels["buy"], NEW ask \in DOMAIN levels["sell"]
               PROVE  bid < ask
    BY DEF NotCrossed
  <2>1. "buy" \in Side /\ "sell" \in Side
    BY DEF Side
  <2>2. ASSUME NEW side \in Side, NEW p \in DOMAIN levels[side]
        PROVE  \E id \in ActiveIds : orders[id].side = side /\ orders[id].price = p
    <3>1. LevelInv(side, p) /\ levels[side][p] \in Seq(OrderId)
      BY <1>1, LevelIsSeq DEF BookInv
    <3>2. 1 \in DOMAIN levels[side][p]
      BY <3>1, EmptySeq, LenProperties DEF LevelInv
    <3> QED BY <3>1, <3>2 DEF LevelInv
  <2>3. PICK a \in ActiveIds : orders[a].side = "buy" /\ orders[a].price = bid
    BY <2>1, <2>2
  <2>4. PICK b \in ActiveIds : orders[b].side = "sell" /\ orders[b].price = ask
    BY <2>1, <2>2
  <2>5. Apart(orders[a], orders[b])
    BY DEF Inv, OrdersInv
  <2> QED BY <2>3, <2>4, <2>5 DEF Apart
<1>4. RestsExactlyOnce
  BY BookHoldsOnce
<1>5. SequencesUnique /\ ActiveHasQuantity /\ TapeIncreasing
  BY DEF Inv, OrdersInv, TapeInv
<1> QED BY <1>2, <1>3, <1>4, <1>5 DEF AssertInvariants, Side

(* No sequence of legal calls trips assert_invariants, whatever the orders.   *)
THEOREM EngineNeverBookInvariantError == Spec => []NeverBookInvariantError
<1>1. Init => NeverBookInvariantError
  BY DEF Init, NeverBookInvariantError
<1>2. Inv' => AssertInvariants'
  BY InvAsserts, PTL
<1>3. Inv' /\ [Next]_engineVars /\ NeverBookInvariantError => NeverBookInvariantError'
  <2> SUFFICES ASSUME AssertInvariants', [Next]_engineVars, NeverBookInvariantError
               PROVE  NeverBookInvariantError'
    BY <1>2
  <2>1. ASSUME NEW result, outcome' = Checked(result), result # "BookInvariantError"
        PROVE  NeverBookInvariantError'
    BY <2>1 DEF Checked, NeverBookInvariantError
  <2>2. CASE FinishSubmit \/ FinishRestore \/ \E id \in OrderId : Cancel(id)
    <3>1. \/ outcome' = Checked("accepted") \/ outcome' = Checked("restored")
          \/ outcome' = Checked("cancelled")
      BY <2>2 DEF FinishSubmit, FinishRestore, Cancel
    <3> QED BY <2>1, <3>1
  <2>3. CASE UNCHANGED outcome
    BY <2>3 DEF NeverBookInvariantError
  <2>4. CASE Submit \/ Place \/ BeginRestore
    BY <2>4 DEF Submit, Place, PlaceLimitOrder, BeginSubmit, BeginRestore,
               NeverBookInvariantError
  <2>5. ASSUME NEW id \in OrderId, NEW sequence \in Sequence, RefuseSubmit(id, sequence)
        PROVE  NeverBookInvariantError'
    BY <2>5 DEF RefuseSubmit, SubmitError, NeverBookInvariantError
  <2>6. ASSUME NEW id \in OrderId, RefuseCancel(id)
        PROVE  NeverBookInvariantError'
    BY <2>6 DEF RefuseCancel, NeverBookInvariantError
  <2>7. ASSUME NEW id \in OrderId, RestoreOne(id) PROVE UNCHANGED outcome
    BY <2>7 DEF RestoreOne
  <2>8. Fill => UNCHANGED outcome
    BY DEF Fill, FillAt
  <2>9. UNCHANGED engineVars => UNCHANGED outcome
    BY DEF engineVars
  <2> QED BY <2>2, <2>3, <2>4, <2>5, <2>6, <2>7, <2>8, <2>9 DEF Next, Step
<1> QED BY <1>1, <1>3, EngineInvariant, PTL DEF Spec
-----------------------------------------------------------------------------
(* Priority                                                                 *)

PriorityStep ==
    Len(tape') > Len(tape) =>
        LET trade == tape'[Len(tape')]
            maker == orders[trade.maker]
        IN  /\ maker.status \in Active
            /\ maker.side = Opposite(current.order.side)
            /\ trade.price = maker.price
            /\ Crosses(current.order.side, current.order.price, trade.price)
            /\ ~\E id \in ActiveIds : Outranks(orders[id], maker)

(* Nothing outranks the head of the best level, for every active order is in   *)
(* the level of its price.                                                  *)
LEMMA HeadIsFirst ==
  ASSUME Inv, NEW p, NEW side, NEW id, NEW maker, NEW n, Fills(p, side, id, maker, n),
         NEW other \in ActiveIds
  PROVE  ~Outranks(orders[other], maker)
<1> SUFFICES ASSUME Outranks(orders[other], maker) PROVE FALSE
  OBVIOUS
<1> DEFINE q == orders[other].price
<1>1. /\ side \in Side /\ p \in DOMAIN levels[side] /\ LevelTypes
      /\ IsDict(orders, OrderId, Order)
      /\ id \in ActiveIds /\ maker = orders[id] /\ maker.side = side /\ maker.price = p
      /\ \A r \in DOMAIN levels[side] : AtLeastAsGood(side, p, r)
      /\ id = levels[side][p][1]
  BY DEF Fills, Inv, TypeOK, LevelTypes
<1>2. orders[other].side = side
  BY <1>1 DEF Outranks
<1>3. Placed(other)
  BY DEF Inv, BookInv
<1>4. q \in DOMAIN levels[side] /\ \E i \in DOMAIN levels[side][q] : levels[side][q][i] = other
  BY <1>2, <1>3 DEF Placed
<1>5. p \in Nat /\ q \in Nat /\ orders[other].sequence \in Int /\ maker.sequence \in Int
  BY <1>1, EngineAssumption DEF ActiveIds, IsDict, Order, Sequence
<1>6. CASE q # p
  <2>1. AtLeastAsGood(side, q, p) /\ AtLeastAsGood(side, p, q)
    BY <1>1, <1>4, <1>6 DEF Outranks
  <2> QED BY <1>1, <1>5, <1>6, <2>1 DEF AtLeastAsGood, Side
<1>7. CASE q = p
  <2>1. orders[other].sequence < maker.sequence
    BY <1>1, <1>7 DEF Outranks
  <2>2. PICK i \in DOMAIN levels[side][p] : levels[side][p][i] = other
    BY <1>4, <1>7
  <2>3. LevelInv(side, p) /\ DOMAIN levels[side][p] = 1..Len(levels[side][p])
    BY <1>1, LevelIsSeq DEF Inv, BookInv
  <2>4. CASE i = 1
    BY <1>1, <1>5, <2>1, <2>2, <2>4
  <2>5. CASE i # 1
    <3>1. 1 \in DOMAIN levels[side][p] /\ 1 < i
      BY <2>2, <2>3, <2>5
    <3>2. orders[levels[side][p][1]].sequence < orders[levels[side][p][i]].sequence
      BY <2>2, <2>3, <3>1 DEF LevelInv
    <3> QED BY <1>1, <1>5, <2>1, <2>2, <3>2
  <2> QED BY <2>4, <2>5
<1> QED BY <1>6, <1>7

LEMMA FillHasPriority ==
  ASSUME Inv, Fill
  PROVE  PriorityStep
<1>1. PICK p \in BestCrossing(current.order) : FillAt(p)
  BY DEF Fill
<1> DEFINE side == Opposite(current.order.side)
           id == Head(levels[side][p])
           maker == orders[id]
           n == FillQuantity(current.order, maker)
           trade == [sequence |-> nextTrade, maker |-> id, taker |-> current.id,
                     price |-> maker.price, quantity |-> n, makerSide |-> maker.side]
<1>2. Fills(p, side, id, maker, n)
  BY FillTakes DEF Fill
<1>3. tape' = Append(tape, trade)
  BY <1>1 DEF FillAt
<1>4. tape'[Len(tape')] = trade
  <2>1. tape \in Seq(Trade)
    BY DEF Inv, TypeOK
  <2> HIDE DEF trade
  <2>2. Len(tape) \in Nat /\ Len(tape') = Len(tape) + 1 /\ tape'[Len(tape) + 1] = trade
    <3>1. tape \in Seq(Trade \cup {trade}) /\ trade \in Trade \cup {trade}
      BY <2>1, SeqMonotonic
    <3> QED BY <1>3, <3>1, AppendProperties, LenProperties
  <2> QED BY <2>2
<1>5. trade.maker = id /\ trade.price = maker.price
  OBVIOUS
<1>6. \A other \in ActiveIds : ~Outranks(orders[other], maker)
  BY <1>2, HeadIsFirst
<1>7. /\ maker.status \in Active /\ maker.side = Opposite(current.order.side)
      /\ Crosses(current.order.side, current.order.price, maker.price)
  BY <1>2 DEF Fills, ActiveIds
<1> HIDE DEF trade, maker, id, side, n
<1>8. orders[trade.maker] = maker
  BY <1>5 DEF maker
<1> QED BY <1>4, <1>5, <1>6, <1>7, <1>8 DEF PriorityStep

LEMMA PriorityHolds ==
  ASSUME Inv, [Next]_engineVars
  PROVE  PriorityStep
<1>1. CASE UNCHANGED tape
  <2>1. Len(tape) \in Nat
    BY LenProperties DEF Inv, TypeOK
  <2> QED BY <1>1, <2>1 DEF PriorityStep
<1>2. UNCHANGED engineVars => UNCHANGED tape
  BY DEF engineVars
<1>3. Submit \/ Place => UNCHANGED tape
  BY DEF Submit, Place, PlaceLimitOrder, BeginSubmit
<1>4. ASSUME NEW id \in OrderId, NEW sequence \in Sequence, RefuseSubmit(id, sequence)
      PROVE  UNCHANGED tape
  BY <1>4 DEF RefuseSubmit
<1>5. ASSUME NEW id \in OrderId, RefuseCancel(id) \/ Cancel(id) \/ RestoreOne(id)
      PROVE  UNCHANGED tape
  BY <1>5 DEF RefuseCancel, Cancel, RestoreOne
<1>6. FinishSubmit \/ BeginRestore \/ FinishRestore => UNCHANGED tape
  BY DEF FinishSubmit, BeginRestore, FinishRestore
<1> QED BY <1>1, <1>2, <1>3, <1>4, <1>5, <1>6, FillHasPriority DEF Next, Step

(* Every trade takes the active order that comes first in price and time.     *)
THEOREM EnginePriceTimePriority == Spec => PriceTimePriority
<1>1. Inv /\ [Next]_engineVars => [PriorityStep]_engineVars
  BY PriorityHolds
<1> QED BY EngineInvariant, <1>1, PTL DEF Spec, PriceTimePriority, PriorityStep
-----------------------------------------------------------------------------
(* Sums.  The sum of f over S is the number of units that f gives the members *)
(* of S, so it depends on no order in which they are added up.               *)

Total(f, S) == SumFunctionOnSet(f, S)

Weights(f, S) == IsFiniteSet(S) /\ \A x \in S : f[x] \in Nat

Units(f, S) == UNION {{x} \X (1..f[x]) : x \in S}

(* What SumFunctionOnSet computes with.                                      *)
SumStep(f, S, iter) ==
    [s \in SUBSET S |->
        IF s = {} THEN 0
        ELSE f[CHOOSE x \in s : TRUE] + iter[s \ {CHOOSE x \in s : TRUE}]]

SumsOf(f, S) == CHOOSE iter : iter = SumStep(f, S, iter)

LEMMA TotalIsLast ==
  ASSUME NEW f, NEW S
  PROVE  Total(f, S) = SumsOf(f, S)[S]
BY DEF Total, SumFunctionOnSet, FoldFunctionOnSet, MapThenFoldSet, SumsOf, SumStep

LEMMA UnitsFinite ==
  ASSUME NEW f, NEW S, Weights(f, S)
  PROVE  IsFiniteSet(Units(f, S)) /\ Cardinality(Units(f, S)) \in Nat
<1> DEFINE unitsOf == [x \in S |-> {x} \X (1..f[x])]
           T == {{x} \X (1..f[x]) : x \in S}
<1>1. \A x \in S : IsFiniteSet({x} \X (1..f[x]))
  <2> SUFFICES ASSUME NEW x \in S PROVE IsFiniteSet({x} \X (1..f[x]))
    OBVIOUS
  <2>1. f[x] \in Int
    BY DEF Weights
  <2>2. IsFiniteSet({x})
    BY FS_Singleton
  <2>3. IsFiniteSet(1..f[x])
    BY <2>1, FS_Interval
  <2> QED BY <2>2, <2>3, FS_Product
<1>2. unitsOf \in Surjection(S, T)
  BY DEF Surjection
<1>3. IsFiniteSet(T)
  <2> HIDE DEF unitsOf, T
  <2> QED BY <1>2, FS_Surjection DEF Weights
<1>4. \A t \in T : IsFiniteSet(t)
  BY <1>1
<1>5. IsFiniteSet(UNION T)
  <2> HIDE DEF T
  <2> QED BY <1>3, <1>4, FS_UNION
<1> QED BY <1>5, FS_CardinalityType DEF Units

LEMMA UnitsGrow ==
  ASSUME NEW f, NEW S, Weights(f, S), NEW x \in S
  PROVE  Cardinality(Units(f, S)) = f[x] + Cardinality(Units(f, S \ {x}))
<1> DEFINE A == Units(f, S \ {x})
           B == {x} \X (1..f[x])
<1>1. Units(f, S) = A \cup B /\ A \cap B = {}
  BY DEF Units
<1>2. Weights(f, S \ {x})
  BY FS_RemoveElement DEF Weights
<1>3. IsFiniteSet(A) /\ Cardinality(A) \in Nat
  BY <1>2, UnitsFinite
<1>4. IsFiniteSet(B) /\ Cardinality(B) = f[x]
  <2>1. f[x] \in Nat
    BY DEF Weights
  <2>2. IsFiniteSet({x}) /\ Cardinality({x}) = 1
    BY FS_Singleton
  <2>3. IsFiniteSet(1..f[x]) /\ Cardinality(1..f[x]) = f[x]
    BY <2>1, FS_Interval
  <2>4. IsFiniteSet(B) /\ Cardinality(B) = Cardinality({x}) * Cardinality(1..f[x])
    BY <2>2, <2>3, FS_Product
  <2> QED BY <2>1, <2>2, <2>3, <2>4
<1> HIDE DEF A, B
<1>5. Cardinality(A \cup B) = Cardinality(A) + Cardinality(B) - Cardinality(A \cap B)
  BY <1>3, <1>4, FS_Union
<1>6. Cardinality(A \cap B) = 0 /\ f[x] \in Nat
  BY <1>1, FS_EmptySet DEF Weights
<1>7. Cardinality(A \cup B) = f[x] + Cardinality(A)
  BY <1>3, <1>4, <1>5, <1>6
<1> QED BY <1>1, <1>7 DEF A

LEMMA UnitsOfNone ==
  ASSUME NEW f
  PROVE  Cardinality(Units(f, {})) = 0
<1>1. Units(f, {}) = {}
  BY DEF Units
<1> QED BY <1>1, FS_EmptySet

LEMMA TotalIsUnits ==
  ASSUME NEW f, NEW S, Weights(f, S)
  PROVE  Total(f, S) = Cardinality(Units(f, S)) /\ Total(f, S) \in Nat
<1> DEFINE h == [s \in SUBSET S |-> Cardinality(Units(f, s))]
           sums == SumsOf(f, S)
           one(s) == CHOOSE x \in s : TRUE
<1>1. ASSUME NEW s \in SUBSET S PROVE Weights(f, s)
  BY FS_Subset DEF Weights
<1>2. \A s \in SUBSET S : s # {} => one(s) \in s /\ s \ {one(s)} \in SUBSET S
  OBVIOUS
<1> HIDE DEF one
<1>3. ASSUME NEW s \in SUBSET S, s # {}
      PROVE  Cardinality(Units(f, s)) = f[one(s)] + Cardinality(Units(f, s \ {one(s)}))
  BY <1>1, <1>2, <1>3, UnitsGrow
<1>4. SumStep(f, S, h) = [s \in SUBSET S |-> IF s = {} THEN 0
                                             ELSE f[one(s)] + h[s \ {one(s)}]]
  BY DEF SumStep, one
<1>5. h = SumStep(f, S, h)
  <2> SUFFICES ASSUME NEW s \in SUBSET S
               PROVE  h[s] = IF s = {} THEN 0 ELSE f[one(s)] + h[s \ {one(s)}]
    BY <1>4
  <2>1. CASE s = {}
    BY <2>1, UnitsOfNone
  <2>2. CASE s # {}
    <3>1. h[s \ {one(s)}] = Cardinality(Units(f, s \ {one(s)}))
      BY <1>2, <2>2
    <3> QED BY <1>3, <2>2, <3>1
  <2> QED BY <2>1, <2>2
<1>6. sums = SumStep(f, S, sums)
  <2> HIDE DEF h
  <2> QED BY <1>5, Zenon DEF SumsOf
<1>7. \A s \in SUBSET S : sums[s] = IF s = {} THEN 0
                                    ELSE f[one(s)] + sums[s \ {one(s)}]
  <2>1. SumStep(f, S, sums) = [s \in SUBSET S |-> IF s = {} THEN 0
                                                ELSE f[one(s)] + sums[s \ {one(s)}]]
    BY DEF SumStep, one
  <2> HIDE DEF sums
  <2> QED BY <1>6, <2>1
<1> HIDE DEF sums
<1>8. \A s \in SUBSET S : sums[s] = Cardinality(Units(f, s))
  <2> SUFFICES ASSUME NEW t \in SUBSET S, sums[t] # Cardinality(Units(f, t))
               PROVE  FALSE
    OBVIOUS
  <2> DEFINE sizes == {k \in Nat : \E s \in SUBSET S :
                          k = Cardinality(s) /\ sums[s] # Cardinality(Units(f, s))}
  <2>1. sizes \in SUBSET Nat /\ sizes # {}
    <3>1. Cardinality(t) \in Nat
      BY <1>1, FS_CardinalityType DEF Weights
    <3> QED BY <3>1
  <2>2. PICK k \in sizes : \A j \in sizes : k <= j
    <3> HIDE DEF sizes
    <3> QED BY <2>1, LeastOfNumbers
  <2>3. PICK s \in SUBSET S : k = Cardinality(s) /\ sums[s] # Cardinality(Units(f, s))
    OBVIOUS
  <2>4. s # {}
    BY <1>7, <2>3, UnitsOfNone
  <2>5. s \ {one(s)} \in SUBSET S /\ one(s) \in s
    BY <1>2, <2>4
  <2>6. /\ Cardinality(s) \in Nat
        /\ Cardinality(s \ {one(s)}) = Cardinality(s) - 1
        /\ Cardinality(s \ {one(s)}) \in Nat
    <3>1. IsFiniteSet(s)
      BY <1>1 DEF Weights
    <3> QED BY <2>5, <3>1, FS_RemoveElement, FS_CardinalityType
  <2>7. sums[s \ {one(s)}] = Cardinality(Units(f, s \ {one(s)}))
    <3> SUFFICES ASSUME sums[s \ {one(s)}] # Cardinality(Units(f, s \ {one(s)}))
                 PROVE  FALSE
      OBVIOUS
    <3>1. Cardinality(s \ {one(s)}) \in sizes
      BY <2>5, <2>6
    <3>2. k <= Cardinality(s \ {one(s)})
      <4> HIDE DEF sizes
      <4> QED BY <2>2, <3>1
    <3> QED BY <2>3, <2>6, <3>2
  <2> QED BY <1>3, <1>7, <2>3, <2>4, <2>7
<1>9. Total(f, S) = sums[S]
  BY TotalIsLast DEF sums
<1> QED BY <1>8, <1>9, UnitsFinite

(* Laws of Total.                                                            *)
LEMMA TotalOfNone ==
  ASSUME NEW f
  PROVE  Total(f, {}) = 0
<1>1. Weights(f, {})
  BY FS_EmptySet DEF Weights
<1> QED BY <1>1, TotalIsUnits, UnitsOfNone

LEMMA TotalOfSame ==
  ASSUME NEW f, NEW g, NEW S, Weights(f, S), \A x \in S : g[x] = f[x]
  PROVE  Total(g, S) = Total(f, S)
<1>1. Weights(g, S) /\ Units(g, S) = Units(f, S)
  BY DEF Weights, Units
<1> QED BY <1>1, TotalIsUnits

LEMMA TotalWithOne ==
  ASSUME NEW f, NEW S, Weights(f, S), NEW x, x \notin S, f[x] \in Nat
  PROVE  Total(f, S \cup {x}) = f[x] + Total(f, S)
<1> DEFINE T == S \cup {x}
<1>1. Weights(f, T) /\ x \in T
  BY FS_AddElement DEF Weights
<1>2. T \ {x} = S
  OBVIOUS
<1> HIDE DEF T
<1>3. Cardinality(Units(f, T)) = f[x] + Cardinality(Units(f, S))
  BY <1>1, <1>2, UnitsGrow
<1>4. Total(f, T) = f[x] + Total(f, S)
  BY <1>1, <1>3, TotalIsUnits
<1> QED BY <1>4 DEF T

LEMMA TotalVia ==
  ASSUME NEW S, NEW T, NEW b \in Bijection(S, T), NEW f, NEW g, Weights(f, S),
         \A x \in S : g[b[x]] = f[x]
  PROVE  /\ Total(g, T) = Total(f, S)
         /\ IsFiniteSet(T) /\ Cardinality(T) = Cardinality(S)
<1>1. /\ b \in [S -> T] /\ \A x, y \in S : b[x] = b[y] => x = y
      /\ \A t \in T : \E x \in S : b[x] = t
  BY DEF Bijection, Injection, Surjection, IsInjective
<1>2. IsFiniteSet(T) /\ Cardinality(T) = Cardinality(S)
  BY FS_Bijection DEF Weights, ExistsBijection
<1>3. Weights(g, T)
  BY <1>1, <1>2 DEF Weights
<1> DEFINE c == [u \in Units(f, S) |-> <<b[u[1]], u[2]>>]
<1>4. \A u : u \in Units(f, S) <=> \E x \in S : \E k \in 1..f[x] : u = <<x, k>>
  BY DEF Units
<1>5. \A u : u \in Units(g, T) <=> \E t \in T : \E k \in 1..g[t] : u = <<t, k>>
  BY DEF Units
<1>6. c \in Bijection(Units(f, S), Units(g, T))
  <2>1. ASSUME NEW u \in Units(f, S) PROVE c[u] \in Units(g, T)
    <3> PICK x \in S : \E k \in 1..f[x] : u = <<x, k>>
      BY <1>4
    <3>1. PICK k \in 1..f[x] : u = <<x, k>>
      OBVIOUS
    <3>2. c[u] = <<b[x], k>> /\ b[x] \in T /\ k \in 1..g[b[x]]
      BY <1>1, <3>1
    <3> QED BY <1>5, <3>2
  <2>2. ASSUME NEW u \in Units(f, S), NEW v \in Units(f, S), c[u] = c[v] PROVE u = v
    <3> PICK x \in S : \E k \in 1..f[x] : u = <<x, k>>
      BY <1>4
    <3>1. PICK k \in 1..f[x] : u = <<x, k>>
      BY <1>4
    <3> PICK y \in S : \E j \in 1..f[y] : v = <<y, j>>
      BY <1>4
    <3>2. PICK j \in 1..f[y] : v = <<y, j>>
      BY <1>4
    <3>3. c[u] = <<b[x], k>> /\ c[v] = <<b[y], j>>
      BY <3>1, <3>2
    <3> QED BY <1>1, <2>2, <3>1, <3>2, <3>3
  <2>3. ASSUME NEW w \in Units(g, T) PROVE \E u \in Units(f, S) : c[u] = w
    <3> PICK t \in T : \E k \in 1..g[t] : w = <<t, k>>
      BY <1>5
    <3>1. PICK k \in 1..g[t] : w = <<t, k>>
      BY <1>5
    <3>2. PICK x \in S : b[x] = t
      BY <1>1
    <3>3. <<x, k>> \in Units(f, S)
      BY <1>4, <3>1, <3>2
    <3>4. c[<<x, k>>] = w
      BY <3>1, <3>2, <3>3
    <3> QED BY <3>3, <3>4
  <2>4. c \in [Units(f, S) -> Units(g, T)]
    BY <2>1
  <2> HIDE DEF c
  <2> QED BY <2>2, <2>3, <2>4 DEF Bijection, Injection, Surjection, IsInjective
<1>7. Cardinality(Units(g, T)) = Cardinality(Units(f, S))
  <2> HIDE DEF c
  <2> QED BY <1>6, UnitsFinite, FS_Bijection DEF ExistsBijection
<1> QED BY <1>2, <1>3, <1>7, TotalIsUnits
-----------------------------------------------------------------------------
(* Quantities                                                               *)

Whole(id, o) == ValidState(o) /\ o.quantity = o.remaining + TradedOnTape(id)

WholeInv ==
    /\ \A i \in DOMAIN tape : tape[i].maker \in issued /\ tape[i].taker \in issued
    /\ \A id \in DOMAIN orders : Whole(id, orders[id])
    /\ \A id \in DOMAIN pool : Whole(id, pool[id])
    /\ current # NoOrder => Whole(current.id, current.order)

Its(id) == {i \in DOMAIN tape : id \in {tape[i].maker, tape[i].taker}}
Quantities == [i \in DOMAIN tape |-> tape[i].quantity]

LEMMA TradedIs ==
  ASSUME NEW id
  PROVE  TradedOnTape(id) = Total(Quantities, Its(id))
BY DEF TradedOnTape, Its, Quantities, Total

LEMMA TapeWeights ==
  ASSUME tape \in Seq(Trade), NEW id
  PROVE  Weights(Quantities, Its(id)) /\ TradedOnTape(id) \in Nat
<1>1. Its(id) \in SUBSET (1..Len(tape)) /\ Len(tape) \in Int
  BY LenProperties DEF Its
<1>2. IsFiniteSet(Its(id))
  <2>1. IsFiniteSet(1..Len(tape))
    BY <1>1, FS_Interval
  <2> QED BY <1>1, <2>1, FS_Subset
<1>3. \A i \in Its(id) : Quantities[i] \in Nat
  <2>1. \A i \in DOMAIN tape : tape[i] \in Trade
    BY ElementOfSeq, LenProperties
  <2> QED BY <2>1 DEF Its, Quantities, Trade
<1> QED BY <1>2, <1>3, TradedIs, TotalIsUnits DEF Weights

LEMMA Untraded ==
  ASSUME NEW id,
         \A i \in DOMAIN tape : tape[i].maker \in issued /\ tape[i].taker \in issued,
         id \notin issued
  PROVE  TradedOnTape(id) = 0
<1>1. Its(id) = {}
  BY DEF Its
<1> QED BY <1>1, TradedIs, TotalOfNone

(* A trade adds its quantity to what its two orders have traded.              *)
LEMMA TapeGrows ==
  ASSUME tape \in Seq(Trade), NEW trade \in Trade, tape' = Append(tape, trade), NEW id
  PROVE  TradedOnTape(id)' = IF id \in {trade.maker, trade.taker}
                             THEN trade.quantity + TradedOnTape(id)
                             ELSE TradedOnTape(id)
<1>1. /\ DOMAIN tape = 1..Len(tape) /\ Len(tape) \in Nat
      /\ DOMAIN tape' = 1..(Len(tape) + 1)
      /\ \A i \in 1..Len(tape) : tape'[i] = tape[i]
      /\ tape'[Len(tape) + 1] = trade
      /\ trade.quantity \in Nat
  BY AppendProperties, LenProperties DEF Trade
<1> DEFINE S == Its(id)
           f == Quantities
           g == Quantities'
           last == Len(tape) + 1
<1>2. Weights(f, S) /\ last \notin S /\ S \subseteq 1..Len(tape)
  <2>1. Weights(f, S)
    BY TapeWeights
  <2>2. S \subseteq 1..Len(tape)
    BY <1>1 DEF Its
  <2> HIDE DEF S, f
  <2>3. last \notin S
    BY <1>1, <2>2
  <2> QED BY <2>1, <2>2, <2>3
<1>3. Its(id)' = IF id \in {trade.maker, trade.taker} THEN S \cup {last} ELSE S
  BY <1>1 DEF Its
<1>4. /\ \A i \in S : g[i] = f[i]
      /\ g[last] = trade.quantity
  BY <1>1, <1>2 DEF Quantities
<1>5. Weights(g, S) /\ Total(g, S) = Total(f, S)
  <2> HIDE DEF S, f, g
  <2> QED BY <1>2, <1>4, TotalOfSame DEF Weights
<1>6. Total(g, S \cup {last}) = trade.quantity + Total(g, S)
  <2> HIDE DEF S, g, last
  <2> QED BY <1>1, <1>2, <1>4, <1>5, TotalWithOne
<1>7. TradedOnTape(id) = Total(f, S) /\ TradedOnTape(id)' = Total(g, Its(id)')
  <2>1. TradedOnTape(id)' = Total(g, Its(id)')
    BY DEF TradedOnTape, Its, Quantities, Total
  <2> QED BY <2>1, TradedIs
<1> QED BY <1>3, <1>5, <1>6, <1>7

(* An execution moves its quantity from the order to the tape.                *)
LEMMA FillIsWhole ==
  ASSUME NEW o \in Order, ValidState(o), o.status \in Active,
         NEW n \in Nat \ {0}, n <= o.remaining
  PROVE  ValidState(ApplyFill(o, n))
<1>1. /\ o.quantity \in Nat /\ o.remaining \in Nat
      /\ o.remaining <= o.quantity
  BY EngineAssumption DEF Order, ValidState
<1>2. /\ ApplyFill(o, n).quantity = o.quantity
      /\ ApplyFill(o, n).remaining = o.remaining - n
      /\ ApplyFill(o, n).status = IF o.remaining = n THEN "filled"
                                                     ELSE "partially_filled"
  BY ApplyFillIs
<1> DEFINE q == o.quantity
           r == o.remaining
           o2 == ApplyFill(o, n)
<1> HIDE DEF q, r, o2
<1>3. /\ q \in Nat /\ r \in Nat /\ r <= q /\ n <= r
      /\ o2.quantity = q /\ o2.remaining = r - n
      /\ o2.status = IF r = n THEN "filled" ELSE "partially_filled"
  BY <1>1, <1>2 DEF q, r, o2
<1>4. ValidState(o2)
  BY <1>3 DEF ValidState
<1> QED BY <1>4 DEF o2

LEMMA FillKeepsWhole ==
  ASSUME Inv, WholeInv, Fill
  PROVE  WholeInv'
<1>1. PICK p \in BestCrossing(current.order) : FillAt(p)
  BY DEF Fill
<1> DEFINE side == Opposite(current.order.side)
<1>. PICK id : id = Head(levels[side][p])
  OBVIOUS
<1>. PICK me : me = current.id
  OBVIOUS
<1> DEFINE maker == orders[id]
           taker == current.order
           n == FillQuantity(taker, maker)
           filled == ApplyFill(maker, n)
           trade == [sequence |-> nextTrade, maker |-> id, taker |-> me,
                     price |-> maker.price, quantity |-> n, makerSide |-> maker.side]
<1>2. current # NoOrder /\ current.order.remaining > 0
  BY DEF Fill
<1>3. Fills(p, side, id, maker, n)
  BY <1>2, FillTakes
<1>4. /\ orders' = [orders EXCEPT ![id] = filled]
      /\ current' = [current EXCEPT !.order = ApplyFill(taker, n),
                                    !.fills = Append(@, trade)]
      /\ tape' = Append(tape, trade)
      /\ UNCHANGED <<pool, issued>>
  BY <1>1 DEF FillAt
<1> HIDE DEF side
<1>5. /\ current \in Submission /\ me \in OrderId /\ taker \in Order
      /\ tape \in Seq(Trade) /\ nextTrade \in Nat \ {0}
      /\ me \in issued /\ me \notin DOMAIN orders
      /\ taker.status \in Active /\ DOMAIN pool = {}
  <2>1. /\ current \in Submission /\ me \in OrderId /\ taker \in Order
        /\ tape \in Seq(Trade) /\ nextTrade \in Nat \ {0}
    BY <1>2 DEF Inv, TypeOK, Submission
  <2>2. /\ me \in issued /\ me \notin DOMAIN orders /\ DOMAIN pool = {}
    BY <1>2 DEF Inv, CurrentInv, PoolInv
  <2>3. taker.status \in Active
    <3>1. taker.remaining # 0
      BY <1>2
    <3> QED BY <1>2, <3>1 DEF Inv, CurrentInv
  <2> QED BY <2>1, <2>2, <2>3
<1>6. /\ id \in OrderId /\ id \in DOMAIN orders /\ id \in issued
      /\ maker \in Order /\ maker.status \in Active /\ id # me
      /\ n \in Nat \ {0} /\ n <= maker.remaining /\ n <= taker.remaining
  BY <1>3, <1>5 DEF Fills, ActiveIds, Inv, TypeOK, IsDict, OrdersInv
<1>7. /\ filled.quantity = maker.quantity /\ filled.remaining = maker.remaining - n
      /\ ApplyFill(taker, n).quantity = taker.quantity
      /\ ApplyFill(taker, n).remaining = taker.remaining - n
  BY <1>5, <1>6, ApplyFillIs
<1>8. trade \in Trade /\ trade.maker = id /\ trade.taker = me /\ trade.quantity = n
  <2>1. maker.price \in Price /\ maker.side \in Side
    BY <1>6 DEF Order
  <2> HIDE DEF n, maker
  <2> QED BY <1>5, <1>6, <2>1 DEF Trade
<1> HIDE DEF trade
<1>9. \A a : TradedOnTape(a)' = IF a \in {id, me} THEN n + TradedOnTape(a)
                                                         ELSE TradedOnTape(a)
  BY <1>4, <1>5, <1>8, TapeGrows
<1>10. \A a : TradedOnTape(a) \in Nat
  BY <1>5, TapeWeights
<1>11. /\ ValidState(maker) /\ maker.quantity = maker.remaining + TradedOnTape(id)
       /\ ValidState(taker) /\ taker.quantity = taker.remaining + TradedOnTape(me)
  BY <1>2, <1>6 DEF WholeInv, Whole
<1>12. ValidState(filled) /\ ValidState(ApplyFill(taker, n))
  BY <1>5, <1>6, <1>11, FillIsWhole
<1>13. /\ DOMAIN orders' = DOMAIN orders /\ orders'[id] = filled
       /\ \A a \in DOMAIN orders : a # id => orders'[a] = orders[a]
       /\ current'.id = me /\ current'.order = ApplyFill(taker, n)
  BY <1>4, <1>5, <1>6 DEF Submission
<1>14. maker.remaining \in Nat /\ taker.remaining \in Nat /\ n \in Nat
  BY <1>3 DEF Fills
<1> HIDE DEF maker, taker, n, filled
<1>15. filled.quantity = filled.remaining + TradedOnTape(id)'
  <2>1. TradedOnTape(id)' = n + TradedOnTape(id) /\ TradedOnTape(id) \in Nat
    BY <1>9, <1>10
  <2> DEFINE a == TradedOnTape(id)'
             b == TradedOnTape(id)
  <2> HIDE DEF a, b
  <2>2. filled.quantity = filled.remaining + a
    BY <1>7, <1>11, <1>14, <2>1 DEF a, b
  <2> QED BY <2>2 DEF a
<1>16. ApplyFill(taker, n).quantity = ApplyFill(taker, n).remaining + TradedOnTape(me)'
  <2>1. TradedOnTape(me)' = n + TradedOnTape(me)
        /\ TradedOnTape(me) \in Nat
    BY <1>9, <1>10
  <2> QED BY <1>7, <1>11, <1>14, <2>1
<1>17. \A a \in DOMAIN orders' : ValidState(orders'[a])
          /\ orders'[a].quantity = orders'[a].remaining + TradedOnTape(a)'
  <2> SUFFICES ASSUME NEW a \in DOMAIN orders'
               PROVE  ValidState(orders'[a])
                      /\ orders'[a].quantity = orders'[a].remaining + TradedOnTape(a)'
    OBVIOUS
  <2>1. CASE a = id
    BY <1>12, <1>13, <1>15, <2>1
  <2>2. CASE a # id
    <3>1. a # me /\ orders'[a] = orders[a]
      BY <1>5, <1>13, <2>2
    <3>2. TradedOnTape(a)' = TradedOnTape(a)
      BY <1>9, <2>2, <3>1
    <3> QED BY <1>13, <3>1, <3>2 DEF WholeInv, Whole
  <2> QED BY <2>1, <2>2
<1>18. \A i \in DOMAIN tape' : tape'[i].maker \in issued' /\ tape'[i].taker \in issued'
  <2>1. /\ DOMAIN tape' = 1..(Len(tape) + 1) /\ DOMAIN tape = 1..Len(tape)
        /\ Len(tape) \in Nat
        /\ \A i \in 1..Len(tape) : tape'[i] = tape[i]
        /\ tape'[Len(tape) + 1] = trade
    BY <1>4, <1>5, <1>8, AppendProperties, LenProperties
  <2> QED BY <1>4, <1>5, <1>6, <1>8, <2>1 DEF WholeInv
<1>19. ValidState(current'.order)
       /\ current'.order.quantity = current'.order.remaining + TradedOnTape(me)' /\ current'.id = me
  BY <1>12, <1>13, <1>16
<1>20. DOMAIN pool' = {}
  BY <1>4, <1>5
<1> QED BY <1>17, <1>18, <1>19, <1>20 DEF WholeInv, Whole
(* The other steps trade nothing.                                            *)
LEMMA TapeSame ==
  ASSUME UNCHANGED tape, NEW id
  PROVE  TradedOnTape(id)' = TradedOnTape(id)
BY DEF TradedOnTape

LEMMA OtherKeepsWhole ==
  ASSUME WholeInv, UNCHANGED tape, issued \subseteq issued',
         \A id \in DOMAIN orders' :
            ValidState(orders'[id]) /\ orders'[id].quantity = orders'[id].remaining + TradedOnTape(id),
         \A id \in DOMAIN pool' :
            ValidState(pool'[id]) /\ pool'[id].quantity = pool'[id].remaining + TradedOnTape(id),
         current' # NoOrder =>
            /\ ValidState(current'.order)
            /\ \A id : id = current'.id =>
                  current'.order.quantity = current'.order.remaining + TradedOnTape(id)
  PROVE  WholeInv'
<1>1. \A id : TradedOnTape(id)' = TradedOnTape(id)
  BY TapeSame
<1>2. \A id \in DOMAIN orders' : Whole(id, orders[id])'
  BY <1>1 DEF Whole
<1>3. \A id \in DOMAIN pool' : Whole(id, pool[id])'
  BY <1>1 DEF Whole
<1>4. ASSUME current' # NoOrder PROVE Whole(current.id, current.order)'
  <2>. PICK id : id = current'.id
    OBVIOUS
  <2>1. current'.order.quantity = current'.order.remaining + TradedOnTape(id)'
    BY <1>1, <1>4
  <2> QED BY <1>4, <2>1 DEF Whole
<1>5. (\A i \in DOMAIN tape : tape[i].maker \in issued /\ tape[i].taker \in issued)'
  BY DEF WholeInv
<1> QED BY <1>2, <1>3, <1>4, <1>5 DEF WholeInv

LEMMA StepKeepsWhole ==
  ASSUME Inv, WholeInv, [Next]_engineVars
  PROVE  WholeInv'
<1>1. /\ \A id \in DOMAIN orders :
            ValidState(orders[id]) /\ orders[id].quantity = orders[id].remaining + TradedOnTape(id)
      /\ \A id \in DOMAIN pool :
            ValidState(pool[id]) /\ pool[id].quantity = pool[id].remaining + TradedOnTape(id)
      /\ current # NoOrder =>
            /\ ValidState(current.order)
            /\ \A id : id = current.id =>
                  current.order.quantity = current.order.remaining + TradedOnTape(id)
  BY DEF WholeInv, Whole
<1>2. CASE UNCHANGED <<orders, pool, current, tape, issued>>
  BY <1>1, <1>2, OtherKeepsWhole
<1>3. UNCHANGED engineVars => UNCHANGED <<orders, pool, current, tape, issued>>
  BY DEF engineVars
<1>4. ASSUME NEW id \in OrderId, NEW side \in Side, NEW price \in Price,
             NEW quantity \in Quantity, NEW sequence,
             BeginSubmit(id, side, price, quantity, sequence)
      PROVE  WholeInv'
  <2>1. /\ UNCHANGED <<orders, pool, tape>> /\ issued' = issued \cup {id}
        /\ current'.id = id /\ current'.order = NewOrder(side, price, quantity, sequence)
        /\ id \notin issued
    BY <1>4 DEF BeginSubmit
  <2>2. TradedOnTape(id) = 0
    BY <2>1, Untraded DEF WholeInv
  <2>3. /\ ValidState(current'.order)
        /\ current'.order.quantity = current'.order.remaining + TradedOnTape(id)
    BY <2>1, <2>2, EngineAssumption DEF NewOrder, ValidState
  <2> QED BY <1>1, <2>1, <2>3, OtherKeepsWhole
<1>5. Submit \/ Place => WholeInv'
  BY <1>4 DEF Submit, Place, PlaceLimitOrder
<1>6. ASSUME NEW id \in OrderId, NEW sequence \in Sequence, RefuseSubmit(id, sequence)
      PROVE  WholeInv'
  BY <1>2, <1>6 DEF RefuseSubmit
<1>7. ASSUME NEW id \in OrderId, RefuseCancel(id) PROVE WholeInv'
  BY <1>2, <1>7 DEF RefuseCancel
<1>8. FinishRestore => WholeInv'
  BY <1>2 DEF FinishRestore
<1>9. ASSUME FinishSubmit PROVE WholeInv'
  <2>1. /\ current # NoOrder /\ current' = NoOrder /\ UNCHANGED <<pool, tape, issued>>
        /\ orders' = Put(orders, current.id, current.order)
    BY <1>9 DEF FinishSubmit
  <2>2. \A id \in DOMAIN orders' :
           ValidState(orders'[id]) /\ orders'[id].quantity = orders'[id].remaining + TradedOnTape(id)
    BY <1>1, <2>1 DEF Put
  <2> QED BY <1>1, <2>1, <2>2, OtherKeepsWhole
<1>10. ASSUME NEW id \in OrderId, Cancel(id) PROVE WholeInv'
  <2>1. /\ id \in DOMAIN orders /\ orders[id] \in Order /\ orders[id].remaining > 0
        /\ UNCHANGED <<pool, tape, issued, current>>
        /\ orders' = [orders EXCEPT ![id] = Cancelled(orders[id])]
    BY <1>10 DEF Cancel, ActiveIds, Inv, TypeOK, IsDict, OrdersInv, ActiveHasQuantity
  <2>2. /\ Cancelled(orders[id]).quantity = orders[id].quantity
        /\ Cancelled(orders[id]).remaining = orders[id].remaining
        /\ Cancelled(orders[id]).status = "cancelled"
    BY <2>1 DEF Cancelled, Order
  <2>3. ValidState(Cancelled(orders[id]))
    BY <1>1, <2>1, <2>2 DEF ValidState
  <2>4. \A a \in DOMAIN orders' :
           ValidState(orders'[a]) /\ orders'[a].quantity = orders'[a].remaining + TradedOnTape(a)
    BY <1>1, <2>1, <2>2, <2>3
  <2> QED BY <1>1, <2>1, <2>4, OtherKeepsWhole
<1>11. ASSUME NEW id \in OrderId, RestoreOne(id) PROVE WholeInv'
  <2>1. /\ id \in DOMAIN pool /\ UNCHANGED <<tape, issued, current>>
        /\ orders' = Put(orders, id, pool[id])
        /\ pool' = Restrict(pool, DOMAIN pool \ {id})
    BY <1>11 DEF RestoreOne
  <2>2. \A a \in DOMAIN orders' :
           ValidState(orders'[a]) /\ orders'[a].quantity = orders'[a].remaining + TradedOnTape(a)
    BY <1>1, <2>1 DEF Put
  <2>3. \A a \in DOMAIN pool' :
           ValidState(pool'[a]) /\ pool'[a].quantity = pool'[a].remaining + TradedOnTape(a)
    BY <1>1, <2>1 DEF Restrict
  <2> QED BY <1>1, <2>1, <2>2, <2>3, OtherKeepsWhole
<1>12. ASSUME BeginRestore PROVE WholeInv'
  <2>1. /\ UNCHANGED <<tape, issued, current>> /\ orders' = EmptyMap
        /\ pool' = Restrict(orders, ActiveIds) /\ ActiveIds \subseteq DOMAIN orders
    BY <1>12 DEF BeginRestore, ActiveIds
  <2>2. DOMAIN orders' = {}
    BY <2>1 DEF EmptyMap
  <2>3. \A a \in DOMAIN pool' :
           ValidState(pool'[a]) /\ pool'[a].quantity = pool'[a].remaining + TradedOnTape(a)
    BY <1>1, <2>1 DEF Restrict
  <2> QED BY <1>1, <2>1, <2>2, <2>3, OtherKeepsWhole
<1> QED BY <1>2, <1>3, <1>5, <1>6, <1>7, <1>8, <1>9, <1>10, <1>11, <1>12,
           FillKeepsWhole DEF Next, Step

LEMMA InitWhole == Init => WholeInv
<1>1. EmptyMap = [k \in {} |-> NoOrder]
  BY DEF EmptyMap
<1> QED BY <1>1 DEF Init, WholeInv

(* What an order no longer has is what it traded on the tape, through fills,   *)
(* cancels and restores.                                                     *)
THEOREM EngineQuantityConserved == Spec => []QuantityConserved
<1>1. Inv /\ WholeInv /\ [Next]_engineVars => WholeInv'
  BY StepKeepsWhole
<1>2. Inv /\ WholeInv => QuantityConserved
  BY DEF Inv, WholeInv, Whole, QuantityConserved
<1> QED BY EngineInvariant, InitWhole, <1>1, <1>2, PTL DEF Spec

-----------------------------------------------------------------------------
(* The two views of the book                                                *)

LEMMA LevelIsQueried ==
  ASSUME Inv, NEW side \in Side, NEW p \in DOMAIN levels[side]
  PROVE  LET fifo == levels[side][p]
             at == {id \in ActiveIds : orders[id].side = side /\ orders[id].price = p}
         IN  /\ at # {}
             /\ Total([i \in DOMAIN fifo |-> orders[fifo[i]].remaining], DOMAIN fifo)
                  = Total([id \in at |-> orders[id].remaining], at)
             /\ Len(fifo) = Cardinality(at)
<1> DEFINE fifo == levels[side][p]
           at == {id \in ActiveIds : orders[id].side = side /\ orders[id].price = p}
           f == [i \in DOMAIN fifo |-> orders[fifo[i]].remaining]
           g == [id \in at |-> orders[id].remaining]
<1>1. /\ BookInv /\ LevelTypes /\ IsDict(orders, OrderId, Order)
      /\ LevelInv(side, p)
  BY DEF Inv, TypeOK, LevelTypes, BookInv
<1>2. fifo \in Seq(OrderId) /\ DOMAIN fifo = 1..Len(fifo) /\ Len(fifo) \in Nat
  BY <1>1, LevelIsSeq
<1>3. \A i \in DOMAIN fifo : /\ fifo[i] \in at
                             /\ orders[fifo[i]].remaining \in Nat
                             /\ orders[fifo[i]].sequence \in Int
  BY <1>1, EngineAssumption DEF LevelInv, ActiveIds, IsDict, Order, Sequence
<1>4. ASSUME NEW i \in DOMAIN fifo, NEW j \in DOMAIN fifo, fifo[i] = fifo[j]
      PROVE  i = j
  <2>1. /\ i < j => orders[fifo[i]].sequence < orders[fifo[j]].sequence
        /\ j < i => orders[fifo[j]].sequence < orders[fifo[i]].sequence
    BY <1>1 DEF LevelInv
  <2>2. orders[fifo[i]].sequence = orders[fifo[j]].sequence
        /\ orders[fifo[i]].sequence \in Int
    BY <1>3, <1>4
  <2>3. ~(i < j) /\ ~(j < i)
    BY <2>1, <2>2
  <2> QED BY <1>2, <2>3
<1>5. ASSUME NEW id \in at PROVE \E i \in DOMAIN fifo : fifo[i] = id
  BY <1>1 DEF BookInv, Placed
<1>6. fifo = [i \in DOMAIN fifo |-> fifo[i]]
  BY <1>2
<1>7. fifo \in Bijection(DOMAIN fifo, at)
  <2> HIDE DEF fifo, at
  <2>1. fifo \in [DOMAIN fifo -> at]
    BY <1>3, <1>6
  <2> QED BY <1>4, <1>5, <2>1 DEF Bijection, Injection, Surjection, IsInjective
<1>8. Weights(f, DOMAIN fifo) /\ Cardinality(DOMAIN fifo) = Len(fifo)
  <2>1. IsFiniteSet(1..Len(fifo)) /\ Cardinality(1..Len(fifo)) = Len(fifo)
    <3> HIDE DEF fifo
    <3> QED BY <1>2, FS_Interval
  <2> QED BY <1>2, <1>3, <2>1 DEF Weights
<1>9. \A i \in DOMAIN fifo : g[fifo[i]] = f[i]
  BY <1>3
<1>10. at # {}
  <2>1. fifo # <<>>
    BY <1>1 DEF LevelInv
  <2>2. 1 \in DOMAIN fifo
    <3> HIDE DEF fifo
    <3> QED BY <1>2, <2>1, EmptySeq
  <2> QED BY <1>3, <2>2
<1>11. /\ Total(g, at) = Total(f, DOMAIN fifo)
       /\ Cardinality(at) = Cardinality(DOMAIN fifo)
  <2> HIDE DEF f, g, at, fifo
  <2> QED BY <1>7, <1>8, <1>9, TotalVia
<1> QED BY <1>8, <1>10, <1>11

LEMMA ViewsAgree ==
  ASSUME Inv, NEW side \in Side
  PROVE  EngineSnapshot(side) = QueriedBook(side)
<1> DEFINE At(p) == {id \in ActiveIds : orders[id].side = side /\ orders[id].price = p}
<1>1. DOMAIN levels[side] = {q \in Price : At(q) # {}}
  <2>1. ASSUME NEW p \in DOMAIN levels[side] PROVE p \in Price /\ At(p) # {}
    BY LevelIsQueried DEF Inv, TypeOK, IsDict
  <2>2. ASSUME NEW q \in Price, At(q) # {} PROVE q \in DOMAIN levels[side]
    <3>1. PICK id \in ActiveIds : orders[id].side = side /\ orders[id].price = q
      BY <2>2
    <3> QED BY <3>1 DEF Inv, BookInv, Placed
  <2> QED BY <2>1, <2>2
<1>2. ASSUME NEW p \in DOMAIN levels[side]
      PROVE  LET fifo == levels[side][p]
             IN  /\ Total([i \in DOMAIN fifo |-> orders[fifo[i]].remaining], DOMAIN fifo)
                      = Total([id \in At(p) |-> orders[id].remaining], At(p))
                 /\ Len(fifo) = Cardinality(At(p))
  BY LevelIsQueried
<1> QED BY <1>1, <1>2 DEF EngineSnapshot, QueriedBook, Total

(* The snapshot of the levels and the book summed from the active orders are   *)
(* one, in every state of the engine.                                        *)
THEOREM EngineSnapshotAgreesWithQuery == Spec => []SnapshotAgreesWithQuery
<1>1. Inv => SnapshotAgreesWithQuery
  BY ViewsAgree DEF SnapshotAgreesWithQuery
<1> QED BY EngineInvariant, <1>1, PTL

-----------------------------------------------------------------------------
(* The engine implements OrderBook.  b is the open book before the submission  *)
(* that is being matched, o its order as matched so far, fs its fills.        *)

MakersFor(b, o) == Book!Makers(b, o.side, o.price)
Ahead(b, o, m) == {n \in MakersFor(b, o) : Book!Before(b, n, m)}
Due(b, o, m) == Min({b[m].remaining, o.quantity - Book!Depth(b, Ahead(b, o, m))})

Matched(fs) == {fs[i].maker : i \in DOMAIN fs}
Traded(fs) == [i \in DOMAIN fs |-> fs[i].quantity]

(* The makers so far are those that are first in price-time order, each with   *)
(* what is due to it, and while something remains they are exhausted.         *)
FillsRight(b, o, fs) ==
    /\ \A i \in DOMAIN fs :
          /\ fs[i].maker \in MakersFor(b, o)
          /\ fs[i].quantity \in Nat \ {0} /\ fs[i].quantity = Due(b, o, fs[i].maker)
    /\ \A i, j \in DOMAIN fs : i < j => Book!Before(b, fs[i].maker, fs[j].maker)
    /\ \A m \in MakersFor(b, o) \ Matched(fs) :
          \A i \in DOMAIN fs : Book!Before(b, fs[i].maker, m)
    /\ Book!Depth(b, Matched(fs)) >= o.quantity - o.remaining
    /\ o.remaining > 0 => Book!Depth(b, Matched(fs)) = o.quantity - o.remaining
    /\ SumFunctionOnSet(Traded(fs), DOMAIN fs) = o.quantity - o.remaining

(* The fills are the end of the tape, and name the order and its makers.       *)
FillsOnTape ==
    /\ Len(current.fills) <= Len(tape)
    /\ \A i \in DOMAIN current.fills :
          LET f == current.fills[i] IN
          /\ f = tape[Len(tape) - Len(current.fills) + i]
          /\ f.taker = current.id /\ f.maker \in DOMAIN orders
          /\ f.price = orders[f.maker].price /\ f.makerSide = orders[f.maker].side
          /\ IF f.maker \in ActiveIds THEN current.order.remaining = 0
                                      ELSE orders[f.maker].remaining = 0

Numbered ==
    /\ nextTrade = Len(tape) + 1
    /\ \A i \in DOMAIN tape : tape[i].sequence = i

BookRefined ==
    /\ Numbered
    /\ current # NoOrder =>
          FillsRight(OpenBook, current.order, current.fills) /\ FillsOnTape

(* The abstract specification adds up with the same operator.                 *)
LEMMA BookTotal ==
  ASSUME NEW f, NEW S
  PROVE  Book!SumFunctionOnSet(f, S) = Total(f, S)
BY DEF Total, SumFunctionOnSet, FoldFunctionOnSet, MapThenFoldSet,
       Book!SumFunctionOnSet, Book!FoldFunctionOnSet, Book!MapThenFoldSet

(* What an open book is: for each order its side, price and sequence, which   *)
(* no other has, and a quantity.                                            *)
OpenOrders(b) ==
    /\ IsFiniteSet(DOMAIN b)
    /\ \A m \in DOMAIN b :
          /\ b[m].side \in Side /\ b[m].price \in Nat /\ b[m].sequence \in Nat
          /\ b[m].remaining \in Nat
          /\ \A n \in DOMAIN b : b[n].sequence = b[m].sequence => n = m

Remaining(b) == [m \in DOMAIN b |-> b[m].remaining]

LEMMA DepthIs ==
  ASSUME NEW b, OpenOrders(b), NEW ids \in SUBSET DOMAIN b
  PROVE  /\ Book!Depth(b, ids) = Total(Remaining(b), ids)
         /\ Weights(Remaining(b), ids) /\ Book!Depth(b, ids) \in Nat
<1> DEFINE f == [id \in ids |-> b[id].remaining]
<1>1. Weights(Remaining(b), ids)
  BY FS_Subset DEF Weights, Remaining, OpenOrders
<1>2. \A x \in ids : f[x] = Remaining(b)[x]
  BY DEF Remaining
<1>3. Book!Depth(b, ids) = Total(f, ids)
  BY BookTotal DEF Book!Depth
<1> HIDE DEF f
<1>4. Total(f, ids) = Total(Remaining(b), ids)
  BY <1>1, <1>2, TotalOfSame
<1> QED BY <1>1, <1>3, <1>4, TotalIsUnits

(* More orders have no less between them.                                    *)
LEMMA TotalGrows ==
  ASSUME NEW f, NEW T, Weights(f, T), NEW S \in SUBSET T
  PROVE  Total(f, S) <= Total(f, T)
<1>1. Weights(f, S)
  BY FS_Subset DEF Weights
<1>2. Units(f, S) \subseteq Units(f, T)
  BY DEF Units
<1>3. Cardinality(Units(f, S)) <= Cardinality(Units(f, T))
  BY <1>2, UnitsFinite, FS_Subset
<1> QED BY <1>1, <1>3, TotalIsUnits

LEMMA BeforeOrders ==
  ASSUME NEW b, OpenOrders(b), NEW m \in DOMAIN b, NEW n \in DOMAIN b, b[m].side = b[n].side
  PROVE  /\ ~(Book!Before(b, m, n) /\ Book!Before(b, n, m))
         /\ m # n => Book!Before(b, m, n) \/ Book!Before(b, n, m)
         /\ ~Book!Before(b, m, m)
<1>1. /\ b[m].side \in Side /\ b[m].price \in Nat /\ b[m].sequence \in Nat
      /\ b[n].side \in Side /\ b[n].price \in Nat /\ b[n].sequence \in Nat
      /\ m # n => b[m].sequence # b[n].sequence
  BY DEF OpenOrders
<1> QED BY <1>1 DEF Book!Before, Side

(* gs is fs with t appended.                                                 *)
Appended(fs, t, gs) ==
    /\ Len(fs) \in Nat /\ DOMAIN fs = 1..Len(fs)
    /\ Len(gs) = Len(fs) + 1 /\ DOMAIN gs = 1..(Len(fs) + 1)
    /\ \A i \in DOMAIN fs : gs[i] = fs[i]
    /\ gs[Len(fs) + 1] = t
    /\ \A i \in DOMAIN gs : i \in DOMAIN fs \/ i = Len(fs) + 1
    /\ Matched(gs) = Matched(fs) \cup {t.maker}
    /\ gs \in Seq(Trade)

LEMMA AppendedFill ==
  ASSUME NEW fs \in Seq(Trade), NEW t \in Trade
  PROVE  Appended(fs, t, Append(fs, t))
<1> DEFINE gs == Append(fs, t)
<1>1. /\ Len(fs) \in Nat /\ DOMAIN fs = 1..Len(fs)
      /\ Len(gs) = Len(fs) + 1 /\ DOMAIN gs = 1..(Len(fs) + 1)
      /\ \A i \in DOMAIN fs : gs[i] = fs[i]
      /\ gs[Len(fs) + 1] = t
      /\ gs \in Seq(Trade)
  BY AppendProperties, LenProperties
<1>2. \A i \in DOMAIN gs : i \in DOMAIN fs \/ i = Len(fs) + 1
  BY <1>1
<1>3. Matched(gs) \subseteq Matched(fs) \cup {t.maker}
  BY <1>1, <1>2 DEF Matched
<1>4. \A i \in DOMAIN fs : i \in DOMAIN gs
  BY <1>1
<1>5. Len(fs) + 1 \in DOMAIN gs
  BY <1>1
<1>6. Matched(fs) \cup {t.maker} \subseteq Matched(gs)
  BY <1>1, <1>4, <1>5 DEF Matched
<1> HIDE DEF gs
<1>7. Appended(fs, t, gs)
  BY <1>1, <1>2, <1>3, <1>6 DEF Appended
<1> QED BY <1>7 DEF gs

(* What is traded grows by the quantity of a trade.                           *)
LEMMA TradedGrows ==
  ASSUME NEW fs \in Seq(Trade), NEW t \in Trade, NEW gs, gs = Append(fs, t)
  PROVE  /\ Weights(Traded(fs), DOMAIN fs)
         /\ Total(Traded(gs), DOMAIN gs) = t.quantity + Total(Traded(fs), DOMAIN fs)
<1>1. /\ Len(fs) \in Nat /\ DOMAIN fs = 1..Len(fs) /\ DOMAIN gs = 1..(Len(fs) + 1)
      /\ \A i \in DOMAIN fs : gs[i] = fs[i]
      /\ gs[Len(fs) + 1] = t
  BY AppendedFill DEF Appended
<1>2. IsFiniteSet(DOMAIN fs)
  BY <1>1, FS_Interval
<1>3. \A i \in DOMAIN fs : fs[i] \in Trade
  BY ElementOfSeq, <1>1
<1>4. \A i \in DOMAIN fs : Traded(fs)[i] = fs[i].quantity /\ Traded(fs)[i] \in Nat
  BY <1>3 DEF Traded, Trade
<1>5. Weights(Traded(fs), DOMAIN fs)
  BY <1>2, <1>4 DEF Weights
<1> DEFINE x == Len(fs) + 1
<1>6. /\ DOMAIN gs = DOMAIN fs \cup {x} /\ x \notin DOMAIN fs
  BY <1>1
<1>7. /\ \A i \in DOMAIN fs : Traded(gs)[i] = Traded(fs)[i]
      /\ Traded(gs)[x] = t.quantity /\ t.quantity \in Nat
  BY <1>1, <1>4, <1>6 DEF Traded, Trade
<1>8. Weights(Traded(gs), DOMAIN fs) /\ Total(Traded(gs), DOMAIN fs) = Total(Traded(fs), DOMAIN fs)
  BY <1>4, <1>5, <1>7, TotalOfSame DEF Weights
<1> HIDE DEF x
<1>9. Total(Traded(gs), DOMAIN fs \cup {x}) = Traded(gs)[x] + Total(Traded(gs), DOMAIN fs)
  BY <1>6, <1>7, <1>8, TotalWithOne
<1> QED BY <1>5, <1>6, <1>7, <1>8, <1>9

(* t is the trade of o with the first of the makers that have not traded yet.  *)
NextTo(b, o, fs, t) ==
    /\ t.maker \in MakersFor(b, o) \ Matched(fs)
    /\ \A n \in MakersFor(b, o) \ Matched(fs) : n # t.maker => Book!Before(b, t.maker, n)
    /\ t.quantity = Min({b[t.maker].remaining, o.remaining})

LEMMA NextFillIsRight ==
  ASSUME NEW b, OpenOrders(b), NEW o \in Order, NEW fs \in Seq(Trade), NEW t \in Trade,
         FillsRight(b, o, fs), o.remaining > 0, NextTo(b, o, fs, t),
         NEW rest \in Order, rest.side = o.side, rest.price = o.price,
         rest.quantity = o.quantity, rest.remaining = o.remaining - t.quantity
  PROVE  FillsRight(b, rest, Append(fs, t))
<1> DEFINE gs == Append(fs, t)
           k == t.maker
           makers == MakersFor(b, o)
           M == Matched(fs)
           q == o.quantity
<1>1. /\ Len(fs) \in Nat /\ DOMAIN fs = 1..Len(fs)
      /\ DOMAIN gs = 1..(Len(fs) + 1)
      /\ \A i \in DOMAIN fs : gs[i] = fs[i]
      /\ gs[Len(fs) + 1] = t
      /\ \A i \in DOMAIN gs : i \in DOMAIN fs \/ i = Len(fs) + 1
      /\ Matched(gs) = M \cup {k}
  <2>1. Appended(fs, t, gs)
    BY AppendedFill
  <2> HIDE DEF gs
  <2> QED BY <2>1 DEF Appended
<1>2. /\ MakersFor(b, rest) = makers
      /\ \A m : Ahead(b, rest, m) = Ahead(b, o, m) /\ Due(b, rest, m) = Due(b, o, m)
  BY DEF MakersFor, Ahead, Due
<1>3. /\ makers \subseteq DOMAIN b
      /\ \A m, n \in makers : b[m].side = b[n].side
  BY DEF MakersFor, Book!Makers, OpenOrders, Side, Order
<1>4. /\ k \in makers /\ k \notin M /\ M \subseteq makers /\ k \in DOMAIN b
  BY <1>3 DEF NextTo, FillsRight, Matched
<1>5. /\ \A n \in makers \ M : n # k => Book!Before(b, k, n)
      /\ \A m \in M : Book!Before(b, m, k)
      /\ \A m \in M, n \in makers \ M : Book!Before(b, m, n)
  BY <1>4 DEF NextTo, FillsRight, Matched
<1>6. /\ q \in Nat /\ o.remaining \in Nat /\ o.remaining > 0
      /\ t.quantity \in Nat \ {0} /\ b[k].remaining \in Nat
  BY <1>4, EngineAssumption DEF Order, Trade, OpenOrders
<1>7. t.quantity = IF b[k].remaining <= o.remaining THEN b[k].remaining ELSE o.remaining
  BY <1>6, MinOfTwo DEF NextTo
<1> HIDE DEF gs, k, makers, M, q
<1>8. Ahead(b, o, k) = M
  <2>1. M \subseteq Ahead(b, o, k)
    BY <1>4, <1>5 DEF Ahead, makers
  <2>2. ASSUME NEW n \in Ahead(b, o, k), n \notin M PROVE FALSE
    <3>1. n \in makers /\ n \in DOMAIN b /\ b[n].side = b[k].side /\ Book!Before(b, n, k)
      BY <1>3, <1>4 DEF Ahead, makers
    <3>2. n # k
      BY <1>4, <3>1, BeforeOrders
    <3>3. Book!Before(b, k, n)
      BY <1>5, <2>2, <3>1, <3>2
    <3> QED BY <1>4, <3>1, <3>3, BeforeOrders
  <2> QED BY <2>1, <2>2
<1>9. Book!Depth(b, M) = q - o.remaining
  BY <1>6 DEF FillsRight, M, q
<1>10. t.quantity = Due(b, o, k)
  <2>1. q - (q - o.remaining) = o.remaining
    BY <1>6
  <2> QED BY <1>8, <1>9, <2>1 DEF Due, NextTo, q, k
<1>11. Book!Depth(b, M \cup {k}) = b[k].remaining + Book!Depth(b, M)
  <2>1. M \in SUBSET DOMAIN b /\ M \cup {k} \in SUBSET DOMAIN b
    BY <1>3, <1>4
  <2>2. /\ Book!Depth(b, M) = Total(Remaining(b), M) /\ Weights(Remaining(b), M)
        /\ Book!Depth(b, M \cup {k}) = Total(Remaining(b), M \cup {k})
    BY <2>1, DepthIs
  <2>3. Remaining(b)[k] = b[k].remaining
    BY <1>4 DEF Remaining
  <2> QED BY <1>4, <1>6, <2>2, <2>3, TotalWithOne
<1>12. SumFunctionOnSet(Traded(gs), DOMAIN gs) = q - rest.remaining
  <2>1. Total(Traded(gs), DOMAIN gs) = t.quantity + Total(Traded(fs), DOMAIN fs)
    BY TradedGrows DEF gs
  <2>2. Total(Traded(fs), DOMAIN fs) = q - o.remaining
    BY DEF FillsRight, Total, q
  <2>3. rest.remaining = o.remaining - t.quantity
    OBVIOUS
  <2> QED BY <1>6, <2>1, <2>2, <2>3 DEF Total
<1>13. /\ Book!Depth(b, Matched(gs)) >= q - rest.remaining
       /\ rest.remaining > 0 => Book!Depth(b, Matched(gs)) = q - rest.remaining
  <2>1. rest.remaining = o.remaining - t.quantity
    OBVIOUS
  <2> QED BY <1>1, <1>6, <1>7, <1>9, <1>11, <2>1
<1>14. \A i \in DOMAIN gs :
          /\ gs[i].maker \in makers
          /\ gs[i].quantity \in Nat \ {0} /\ gs[i].quantity = Due(b, o, gs[i].maker)
  <2>1. \A i \in DOMAIN fs :
          /\ fs[i].maker \in makers
          /\ fs[i].quantity \in Nat \ {0} /\ fs[i].quantity = Due(b, o, fs[i].maker)
    BY DEF FillsRight, makers
  <2> QED BY <1>1, <1>4, <1>6, <1>10, <2>1 DEF k
<1>15. \A i, j \in DOMAIN gs : i < j => Book!Before(b, gs[i].maker, gs[j].maker)
  <2> SUFFICES ASSUME NEW i \in DOMAIN gs, NEW j \in DOMAIN gs, i < j
               PROVE  Book!Before(b, gs[i].maker, gs[j].maker)
    OBVIOUS
  <2>1. i \in DOMAIN fs /\ gs[i] = fs[i] /\ fs[i].maker \in M
    BY <1>1 DEF M, Matched
  <2>2. CASE j \in DOMAIN fs
    BY <1>1, <2>1, <2>2 DEF FillsRight
  <2>3. CASE j = Len(fs) + 1
    BY <1>1, <1>5, <2>1, <2>3 DEF k
  <2> QED BY <1>1, <2>2, <2>3
<1>16. \A m \in makers \ Matched(gs) : \A i \in DOMAIN gs : Book!Before(b, gs[i].maker, m)
  <2> SUFFICES ASSUME NEW m \in makers \ Matched(gs), NEW i \in DOMAIN gs
               PROVE  Book!Before(b, gs[i].maker, m)
    OBVIOUS
  <2>1. m \in makers \ M /\ m # k
    BY <1>1
  <2>2. CASE i \in DOMAIN fs
    BY <1>1, <1>5, <2>1, <2>2 DEF M, Matched
  <2>3. CASE i = Len(fs) + 1
    BY <1>1, <1>5, <2>1, <2>3 DEF k
  <2> QED BY <1>1, <2>2, <2>3
<1>17. /\ rest.quantity = q
       /\ \A m : Due(b, rest, m) = Due(b, o, m)
       /\ MakersFor(b, rest) = makers
  BY <1>2 DEF q
<1> QED BY <1>12, <1>13, <1>14, <1>15, <1>16, <1>17 DEF FillsRight, gs

LEMMA BookMin == ASSUME NEW S PROVE Book!Min(S) = Min(S)
BY DEF Book!Min, Min

LEMMA LeftOver ==
  ASSUME NEW x \in Int
  PROVE  Book!Max({0, x}) = IF x > 0 THEN x ELSE 0
<1> DEFINE S == {0, x}
           m == IF x > 0 THEN x ELSE 0
<1>1. m \in S /\ \A y \in S : m >= y
  OBVIOUS
<1>2. ASSUME NEW n \in S, \A y \in S : n >= y PROVE n = m
  BY <1>2
<1> HIDE DEF S, m
<1>3. Book!Max(S) \in S /\ \A y \in S : Book!Max(S) >= y
  BY <1>1, Zenon DEF Book!Max
<1>4. Book!Max(S) = m
  BY <1>2, <1>3
<1> QED BY <1>4 DEF S, m

(* When the loop is done, its fills are what the closed form allots.          *)
LEMMA AllotmentsAre ==
  ASSUME NEW b, OpenOrders(b), NEW o \in Order, NEW fs \in Seq(Trade),
         FillsRight(b, o, fs), o.remaining = 0 \/ MakersFor(b, o) \subseteq Matched(fs),
         NEW fills, fills = Book!Allotments(b, o.side, o.price, o.quantity)
  PROVE  /\ fills = [m \in Matched(fs) |-> fills[m]]
         /\ \A i \in DOMAIN fs : fills[fs[i].maker] = fs[i].quantity
<1> DEFINE makers == MakersFor(b, o)
           M == Matched(fs)
           q == o.quantity
           left(m) == Book!Max({0, q - Book!Depth(b, Ahead(b, o, m))})
<1>1. fills = [m \in {k \in makers : left(k) > 0} |-> Book!Min({b[m].remaining, left(m)})]
  BY DEF Book!Allotments, MakersFor, Ahead
<1>2. q \in Nat /\ o.remaining \in Nat
  BY EngineAssumption DEF Order
<1>3. makers \subseteq DOMAIN b
  BY DEF MakersFor, Book!Makers
<1>4. ASSUME NEW m \in makers
      PROVE  /\ Book!Depth(b, Ahead(b, o, m)) \in Nat
             /\ left(m) = IF q - Book!Depth(b, Ahead(b, o, m)) > 0
                          THEN q - Book!Depth(b, Ahead(b, o, m)) ELSE 0
  <2>1. Ahead(b, o, m) \in SUBSET DOMAIN b
    BY <1>3 DEF Ahead, makers
  <2>2. Book!Depth(b, Ahead(b, o, m)) \in Nat
    BY <2>1, DepthIs
  <2>3. q - Book!Depth(b, Ahead(b, o, m)) \in Int
    BY <1>2, <2>2
  <2> QED BY <2>2, <2>3, LeftOver
<1> HIDE DEF left, makers, M, q
<1>5. ASSUME NEW i \in DOMAIN fs
      PROVE  /\ fs[i].maker \in makers /\ left(fs[i].maker) > 0
             /\ fs[i].quantity = Book!Min({b[fs[i].maker].remaining, left(fs[i].maker)})
  <2> DEFINE m == fs[i].maker
             d == q - Book!Depth(b, Ahead(b, o, m))
  <2>1. /\ m \in makers /\ fs[i].quantity \in Nat \ {0}
        /\ fs[i].quantity = Min({b[m].remaining, d})
    BY DEF FillsRight, makers, Due, q
  <2>2. d \in Int /\ left(m) = IF d > 0 THEN d ELSE 0
    BY <1>2, <1>4, <2>1
  <2>3. b[m].remaining \in Nat
    BY <1>3, <2>1 DEF OpenOrders
  <2> HIDE DEF m, d
  <2>4. d > 0
    <3>1. Min({b[m].remaining, d}) <= d
      <4> DEFINE r == b[m].remaining
                 k == IF r <= d THEN r ELSE d
      <4>1. k \in {r, d} /\ \A y \in {r, d} : k <= y
        BY <2>2, <2>3
      <4>2. Min({r, d}) \in {r, d} /\ \A y \in {r, d} : Min({r, d}) <= y
        <5> HIDE DEF k, r
        <5> QED BY <4>1, Zenon DEF Min
      <4> QED BY <4>2
    <3> QED BY <2>1, <2>2, <3>1
  <2>5. left(m) = d
    BY <2>2, <2>4
  <2> QED BY <2>1, <2>2, <2>4, <2>5, BookMin DEF m
<1>6. ASSUME NEW m \in makers, m \notin M PROVE ~(left(m) > 0)
  <2>1. o.remaining = 0
    BY <1>6 DEF makers, M
  <2>2. M \subseteq Ahead(b, o, m)
    BY <1>5, <1>6 DEF FillsRight, M, Matched, Ahead, makers
  <2>3. Book!Depth(b, M) <= Book!Depth(b, Ahead(b, o, m))
    <3>1. Ahead(b, o, m) \in SUBSET DOMAIN b /\ M \in SUBSET DOMAIN b
      BY <1>3, <2>2 DEF Ahead, makers
    <3> QED BY <2>2, <3>1, DepthIs, TotalGrows
  <2>4. Book!Depth(b, M) >= q /\ Book!Depth(b, M) \in Nat
    <3>1. Book!Depth(b, M) >= q - 0
      BY <2>1 DEF FillsRight, M, q
    <3>2. M \in SUBSET DOMAIN b
      BY <1>3, <1>5 DEF M, Matched
    <3>3. Book!Depth(b, M) \in Nat
      BY <3>2, DepthIs
    <3> QED BY <1>2, <3>1, <3>3
  <2> QED BY <1>2, <1>4, <2>3, <2>4
<1>7. {k \in makers : left(k) > 0} = M
  <2>1. \A m \in M : m \in makers /\ left(m) > 0
    BY <1>5 DEF M, Matched
  <2> QED BY <1>6, <2>1
<1>8. fills = [m \in M |-> Book!Min({b[m].remaining, left(m)})]
  BY <1>1, <1>7
<1>9. \A i \in DOMAIN fs : fs[i].maker \in M
  BY DEF M, Matched
<1> QED BY <1>5, <1>8, <1>9 DEF M

LEMMA MakersDistinct ==
  ASSUME NEW b, OpenOrders(b), NEW o \in Order, NEW fs \in Seq(Trade), FillsRight(b, o, fs)
  PROVE  /\ \A i \in DOMAIN fs : fs[i].maker \in DOMAIN b
         /\ \A i, j \in DOMAIN fs : /\ fs[i].maker = fs[j].maker => i = j
                                    /\ i < j <=> Book!Before(b, fs[i].maker, fs[j].maker)
         /\ DOMAIN fs = 1..Len(fs) /\ Len(fs) \in Nat
<1>1. DOMAIN fs = 1..Len(fs) /\ Len(fs) \in Nat
  BY LenProperties
<1>2. /\ MakersFor(b, o) \subseteq DOMAIN b
      /\ \A m, n \in MakersFor(b, o) : b[m].side = b[n].side
  BY DEF MakersFor, Book!Makers, OpenOrders, Side, Order
<1>3. /\ \A i \in DOMAIN fs : fs[i].maker \in MakersFor(b, o)
      /\ \A i, j \in DOMAIN fs : i < j => Book!Before(b, fs[i].maker, fs[j].maker)
  BY DEF FillsRight
<1>4. ASSUME NEW i \in DOMAIN fs, NEW j \in DOMAIN fs
      PROVE  /\ fs[i].maker = fs[j].maker => i = j
             /\ i < j <=> Book!Before(b, fs[i].maker, fs[j].maker)
  <2>1. /\ fs[i].maker \in DOMAIN b /\ fs[j].maker \in DOMAIN b
        /\ b[fs[i].maker].side = b[fs[j].maker].side
    BY <1>2, <1>3
  <2>2. /\ ~(Book!Before(b, fs[i].maker, fs[j].maker) /\ Book!Before(b, fs[j].maker, fs[i].maker))
        /\ fs[i].maker = fs[j].maker => ~Book!Before(b, fs[i].maker, fs[j].maker)
    BY <2>1, BeforeOrders
  <2>3. /\ i < j => Book!Before(b, fs[i].maker, fs[j].maker)
        /\ j < i => Book!Before(b, fs[j].maker, fs[i].maker)
    BY <1>3
  <2>4. i < j \/ j < i \/ i = j
    BY <1>1
  <2>5. ~(i < i)
    BY <1>1
  <2> QED BY <2>2, <2>3, <2>4, <2>5
<1> QED BY <1>1, <1>2, <1>3, <1>4

LEMMA AllottedIs ==
  ASSUME NEW b, OpenOrders(b), NEW o \in Order, NEW fs \in Seq(Trade), FillsRight(b, o, fs),
         NEW fills, fills = [m \in Matched(fs) |-> fills[m]],
         \A i \in DOMAIN fs : fills[fs[i].maker] = fs[i].quantity
  PROVE  Book!Allotted(fills) = o.quantity - o.remaining
<1> DEFINE M == Matched(fs)
           S == DOMAIN fs
           c == [i \in S |-> fs[i].maker]
           f == Traded(fs)
<1>1. c \in Bijection(S, M)
  <2>1. c \in [S -> M]
    BY DEF Matched
  <2>2. \A i, j \in S : c[i] = c[j] => i = j
    BY MakersDistinct
  <2>3. \A m \in M : \E i \in S : c[i] = m
    BY DEF Matched
  <2> HIDE DEF c
  <2> QED BY <2>1, <2>2, <2>3 DEF Bijection, Injection, Surjection, IsInjective
<1>2. Weights(f, S)
  <2>1. IsFiniteSet(S)
    <3>1. S = 1..Len(fs) /\ Len(fs) \in Int
      BY MakersDistinct
    <3> HIDE DEF S
    <3> QED BY <3>1, FS_Interval
  <2>2. \A i \in S : f[i] \in Nat
    BY DEF Traded, FillsRight
  <2> QED BY <2>1, <2>2 DEF Weights
<1>3. \A i \in S : fills[c[i]] = f[i]
  BY DEF Traded
<1>4. Total(f, S) = o.quantity - o.remaining
  BY DEF FillsRight, Total
<1> HIDE DEF M, S, c, f
<1>5. Total(fills, M) = Total(f, S)
  BY <1>1, <1>2, <1>3, TotalVia
<1>6. Book!Allotted(fills) = Total(fills, M)
  <2>1. DOMAIN fills = M
    BY DEF M
  <2>2. Book!Allotted(fills) = Book!SumFunctionOnSet(fills, DOMAIN fills)
    BY DEF Book!Allotted, Book!SumFunction
  <2> QED BY <2>1, <2>2, BookTotal
<1> QED BY <1>4, <1>5, <1>6

LEMMA BookCardinality == ASSUME NEW S PROVE Book!Cardinality(S) = Cardinality(S)
BY DEF Cardinality, Book!Cardinality

LEMMA ServedAre ==
  ASSUME NEW b, OpenOrders(b), NEW o \in Order, NEW fs \in Seq(Trade), FillsRight(b, o, fs)
  PROVE  Book!Served(b, Matched(fs)) = [i \in DOMAIN fs |-> fs[i].maker]
<1> DEFINE M == Matched(fs)
           before(m) == {n \in M : Book!Before(b, n, m)}
           served == Book!Served(b, M)
<1>1. /\ DOMAIN fs = 1..Len(fs) /\ Len(fs) \in Nat
      /\ \A i, j \in DOMAIN fs : /\ fs[i].maker = fs[j].maker => i = j
                                 /\ i < j <=> Book!Before(b, fs[i].maker, fs[j].maker)
  BY MakersDistinct
<1>2. \A m : m \in M <=> \E i \in DOMAIN fs : m = fs[i].maker
  BY DEF Matched
<1>3. served = [i \in 1..Book!Cardinality(M) |->
                  CHOOSE m \in M : Book!Cardinality(before(m)) = i - 1]
  BY DEF Book!Served
<1> HIDE DEF M, served
<1>4. ASSUME NEW k \in 0..Len(fs)
      PROVE  Cardinality({fs[j].maker : j \in 1..k}) = k
  <2> DEFINE c == [j \in 1..k |-> fs[j].maker]
             T == {fs[j].maker : j \in 1..k}
  <2>1. 1..k \subseteq DOMAIN fs
    BY <1>1
  <2>2. c \in Bijection(1..k, T)
    <3>1. c \in [1..k -> T]
      OBVIOUS
    <3>2. \A i, j \in 1..k : c[i] = c[j] => i = j
      BY <1>1, <2>1
    <3>3. \A m \in T : \E i \in 1..k : c[i] = m
      OBVIOUS
    <3> HIDE DEF c, T
    <3> QED BY <3>1, <3>2, <3>3 DEF Bijection, Injection, Surjection, IsInjective
  <2>3. IsFiniteSet(1..k) /\ Cardinality(1..k) = k
    BY FS_Interval
  <2> HIDE DEF c, T
  <2>4. Cardinality(T) = k
    BY <2>2, <2>3, FS_Bijection DEF ExistsBijection
  <2> QED BY <2>4 DEF T
<1>5. ASSUME NEW i \in DOMAIN fs PROVE Cardinality(before(fs[i].maker)) = i - 1
  <2>1. before(fs[i].maker) = {fs[j].maker : j \in 1..(i - 1)}
    <3>1. \A j \in DOMAIN fs : j \in 1..(i - 1) <=> j < i
      BY <1>1
    <3>2. 1..(i - 1) \subseteq DOMAIN fs
      BY <1>1
    <3>3. ASSUME NEW n \in before(fs[i].maker) PROVE n \in {fs[j].maker : j \in 1..(i - 1)}
      BY <1>1, <1>2, <3>1, <3>3
    <3>4. ASSUME NEW j \in 1..(i - 1) PROVE fs[j].maker \in before(fs[i].maker)
      BY <1>1, <1>2, <3>1, <3>2
    <3> QED BY <3>3, <3>4
  <2>2. i - 1 \in 0..Len(fs)
    BY <1>1
  <2> QED BY <1>4, <2>1, <2>2
<1>6. Cardinality(M) = Len(fs)
  <2>1. M = {fs[j].maker : j \in 1..Len(fs)}
    BY <1>1 DEF M, Matched
  <2> QED BY <1>1, <1>4, <2>1
<1> HIDE DEF before
<1>7. ASSUME NEW i \in DOMAIN fs
      PROVE  (CHOOSE m \in M : Book!Cardinality(before(m)) = i - 1) = fs[i].maker
  <2>1. fs[i].maker \in M /\ Book!Cardinality(before(fs[i].maker)) = i - 1
    BY <1>2, <1>5, BookCardinality
  <2>2. ASSUME NEW m \in M, Book!Cardinality(before(m)) = i - 1 PROVE m = fs[i].maker
    <3>1. PICK j \in DOMAIN fs : m = fs[j].maker
      BY <1>2
    <3>2. j - 1 = i - 1
      BY <1>5, <2>2, <3>1, BookCardinality
    <3>3. j = i
      BY <1>1, <3>2
    <3> QED BY <3>1, <3>3
  <2> QED BY <2>1, <2>2, Zenon
<1>8. Book!Cardinality(M) = Len(fs)
  BY <1>6, BookCardinality
<1> QED BY <1>1, <1>3, <1>7, <1>8 DEF served, M

(* The trades of the closed form are the fills, if these name what they should. *)
LEMMA TradesAre ==
  ASSUME NEW b, OpenOrders(b), NEW o \in Order, NEW fs \in Seq(Trade), FillsRight(b, o, fs),
         NEW fills, fills = [m \in Matched(fs) |-> fills[m]],
         \A i \in DOMAIN fs : fills[fs[i].maker] = fs[i].quantity,
         NEW taker, NEW next \in Nat,
         \A i \in DOMAIN fs : /\ fs[i].sequence = next + i - 1 /\ fs[i].taker = taker
                              /\ fs[i].price = b[fs[i].maker].price
                              /\ fs[i].makerSide = b[fs[i].maker].side
  PROVE  Book!TradesOf(b, fills, taker, next) = fs
<1> DEFINE served == [i \in DOMAIN fs |-> fs[i].maker]
<1>1. Book!Served(b, DOMAIN fills) = served
  <2>1. DOMAIN fills = Matched(fs)
    OBVIOUS
  <2> QED BY <2>1, ServedAre
<1>2. Book!TradesOf(b, fills, taker, next)
        = [i \in DOMAIN served |->
             [sequence |-> next + i - 1, maker |-> served[i], taker |-> taker,
              price |-> b[served[i]].price, quantity |-> fills[served[i]],
              makerSide |-> b[served[i]].side]]
  BY <1>1 DEF Book!TradesOf
<1>3. ASSUME NEW i \in DOMAIN fs
      PROVE  fs[i] = [sequence |-> next + i - 1, maker |-> served[i], taker |-> taker,
                      price |-> b[served[i]].price, quantity |-> fills[served[i]],
                      makerSide |-> b[served[i]].side]
  <2>1. fs[i] \in Trade
    BY ElementOfSeq, LenProperties
  <2>2. fs[i] = [sequence |-> fs[i].sequence, maker |-> fs[i].maker, taker |-> fs[i].taker,
                 price |-> fs[i].price, quantity |-> fs[i].quantity,
                 makerSide |-> fs[i].makerSide]
    BY <2>1 DEF Trade
  <2>3. served[i] = fs[i].maker
    OBVIOUS
  <2> HIDE DEF served
  <2> QED BY <2>2, <2>3
<1>4. fs = [i \in DOMAIN fs |-> fs[i]] /\ DOMAIN served = DOMAIN fs
  <2>1. fs = [i \in 1..Len(fs) |-> fs[i]] /\ DOMAIN fs = 1..Len(fs)
    BY LenProperties, SeqDef
  <2> QED BY <2>1
<1> HIDE DEF served
<1> QED BY <1>2, <1>3, <1>4

-----------------------------------------------------------------------------
(* The open book as a function of the orders, the pool and the fills.         *)

OpenOf(os) == {id \in DOMAIN os : os[id].status \in Active}
FillsOf(fs, id) == {i \in DOMAIN fs : fs[i].maker = id}
Taken(fs, id) == Total(Traded(fs), FillsOf(fs, id))

BookOf(os, pl, fs) ==
    [id \in OpenOf(os) \cup Matched(fs) \cup OpenOf(pl) |->
        IF id \in OpenOf(pl) THEN OpenEntry(pl[id], 0)
                             ELSE OpenEntry(os[id], Taken(fs, id))]

LEMMA OpenBookIs ==
  /\ OpenBook = BookOf(orders, pool, PendingFills)
  /\ OpenBook' = BookOf(orders', pool', PendingFills')
BY DEF OpenBook, BookOf, OpenOf, Matched, TakenBack, Taken, FillsOf, Traded, Total, ActiveIds

LEMMA TakenIs ==
  ASSUME NEW fs \in Seq(Trade), NEW id
  PROVE  /\ Taken(fs, id) \in Nat
         /\ id \notin Matched(fs) => Taken(fs, id) = 0
         /\ \A i \in DOMAIN fs :
               fs[i].maker = id /\ (\A j \in DOMAIN fs : fs[j].maker = id => j = i)
               => Taken(fs, id) = fs[i].quantity
<1> DEFINE S == FillsOf(fs, id)
<1>1. DOMAIN fs = 1..Len(fs) /\ Len(fs) \in Int
  BY LenProperties
<1>2. \A i \in DOMAIN fs : fs[i] \in Trade
  BY ElementOfSeq, <1>1
<1>3. \A i \in DOMAIN fs : Traded(fs)[i] = fs[i].quantity /\ Traded(fs)[i] \in Nat
  BY <1>2 DEF Traded, Trade
<1>4. IsFiniteSet(DOMAIN fs)
  BY <1>1, FS_Interval
<1>5. Weights(Traded(fs), S)
  <2>1. S \in SUBSET DOMAIN fs
    BY DEF FillsOf
  <2> HIDE DEF S
  <2> QED BY <1>3, <1>4, <2>1, FS_Subset DEF Weights
<1>6. Taken(fs, id) = Total(Traded(fs), S)
  BY DEF Taken
<1>7. Taken(fs, id) \in Nat
  <2> HIDE DEF S
  <2> QED BY <1>5, <1>6, TotalIsUnits
<1>8. ASSUME id \notin Matched(fs) PROVE Taken(fs, id) = 0
  <2>1. S = {}
    BY <1>8 DEF FillsOf, Matched
  <2> QED BY <1>6, <2>1, TotalOfNone
<1>9. ASSUME NEW i \in DOMAIN fs, fs[i].maker = id, \A j \in DOMAIN fs : fs[j].maker = id => j = i
      PROVE  Taken(fs, id) = fs[i].quantity
  <2>1. S = {} \cup {i}
    BY <1>9 DEF FillsOf
  <2>2. Weights(Traded(fs), {})
    BY FS_EmptySet DEF Weights
  <2>3. Total(Traded(fs), {} \cup {i}) = Traded(fs)[i] + Total(Traded(fs), {})
    BY <1>3, <2>2, TotalWithOne
  <2>4. Total(Traded(fs), {}) = 0
    BY TotalOfNone
  <2> QED BY <1>3, <1>6, <2>1, <2>3, <2>4
<1> QED BY <1>7, <1>8, <1>9

(* Without fills, the open book is the active orders, wherever they are.      *)
LEMMA BookUnfilled ==
  ASSUME NEW os, NEW pl
  PROVE  BookOf(os, pl, <<>>)
           = [id \in OpenOf(os) \cup OpenOf(pl) |->
                 IF id \in OpenOf(pl) THEN OpenEntry(pl[id], 0) ELSE OpenEntry(os[id], 0)]
<1>1. Matched(<<>>) = {} /\ DOMAIN <<>> = {}
  <2>1. DOMAIN <<>> = {}
    BY EmptySeq
  <2> QED BY <2>1 DEF Matched
<1>2. \A id : Taken(<<>>, id) = 0
  <2>1. <<>> \in Seq(Trade)
    BY EmptySeq
  <2> QED BY <1>1, <2>1, TakenIs
<1> QED BY <1>1, <1>2 DEF BookOf

(* The fills pending are trades, with makers of the book.                    *)
LEMMA PendingIs ==
  ASSUME Inv, current # NoOrder => FillsOnTape
  PROVE  /\ PendingFills \in Seq(Trade)
         /\ Matched(PendingFills) \subseteq DOMAIN orders
         /\ current = NoOrder => PendingFills = <<>>
         /\ current # NoOrder => PendingFills = current.fills
<1>1. CASE current = NoOrder
  <2>1. PendingFills = <<>>
    BY <1>1 DEF PendingFills
  <2>2. <<>> \in Seq(Trade) /\ DOMAIN <<>> = {}
    BY EmptySeq
  <2> QED BY <1>1, <2>1, <2>2 DEF Matched
<1>2. CASE current # NoOrder
  <2>1. PendingFills = current.fills /\ current.fills \in Seq(Trade)
    BY <1>2 DEF PendingFills, Inv, TypeOK, Submission
  <2>2. \A i \in DOMAIN current.fills : current.fills[i].maker \in DOMAIN orders
    BY <1>2 DEF FillsOnTape
  <2> QED BY <1>2, <2>1, <2>2 DEF Matched
<1> QED BY <1>1, <1>2

LEMMA OpenBookOpens ==
  ASSUME Inv, current # NoOrder => FillsOnTape
  PROVE  OpenOrders(OpenBook)
<1> DEFINE fs == PendingFills
           b == OpenBook
           seq(id) == b[id].sequence
           old == OpenOf(orders) \cup Matched(fs)
           new == OpenOf(pool)
<1>1. /\ b = BookOf(orders, pool, fs)
      /\ fs \in Seq(Trade) /\ Matched(fs) \subseteq DOMAIN orders
  BY OpenBookIs, PendingIs
<1>2. DOMAIN b = old \cup new
  BY <1>1 DEF BookOf
<1>3. IsDict(orders, OrderId, Order) /\ IsDict(pool, OrderId, Order) /\ lastSequence \in Nat
  BY DEF Inv, TypeOK
<1>4. old \subseteq DOMAIN orders /\ new \subseteq DOMAIN pool
  BY <1>1 DEF OpenOf
<1>5. ASSUME NEW id \in new
      PROVE  /\ b[id].side \in Side /\ b[id].price \in Nat /\ b[id].sequence \in 1..MaxSequence
             /\ b[id].remaining \in Nat
             /\ b[id].sequence = pool[id].sequence /\ b[id].sequence > lastSequence
  <2>1. pool[id] \in Order /\ b[id] = OpenEntry(pool[id], 0)
    BY <1>1, <1>3, <1>4 DEF BookOf, IsDict
  <2>2. pool[id].sequence > lastSequence
    BY <1>4 DEF Inv, PoolInv
  <2>3. /\ pool[id].side \in Side /\ pool[id].price \in Nat
        /\ pool[id].sequence \in 1..MaxSequence /\ pool[id].remaining \in Nat
    BY <2>1, EngineAssumption DEF Order, Sequence
  <2>4. /\ b[id].side = pool[id].side /\ b[id].price = pool[id].price
        /\ b[id].sequence = pool[id].sequence /\ b[id].remaining = pool[id].remaining + 0
    BY <2>1 DEF OpenEntry
  <2> QED BY <2>2, <2>3, <2>4
<1>6. ASSUME NEW id \in old, id \notin new
      PROVE  /\ b[id].side \in Side /\ b[id].price \in Nat /\ b[id].sequence \in 1..MaxSequence
             /\ b[id].remaining \in Nat
             /\ b[id].sequence = orders[id].sequence /\ b[id].sequence <= lastSequence
  <2>1. orders[id] \in Order /\ b[id] = OpenEntry(orders[id], Taken(fs, id))
    BY <1>1, <1>3, <1>4, <1>6 DEF BookOf, IsDict
  <2>2. orders[id].sequence <= lastSequence
    BY <1>4 DEF Inv, OrdersInv
  <2>3. /\ orders[id].side \in Side /\ orders[id].price \in Nat
        /\ orders[id].sequence \in 1..MaxSequence /\ orders[id].remaining \in Nat
    BY <2>1, EngineAssumption DEF Order, Sequence
  <2>4. /\ b[id].side = orders[id].side /\ b[id].price = orders[id].price
        /\ b[id].sequence = orders[id].sequence
        /\ b[id].remaining = orders[id].remaining + Taken(fs, id)
    BY <2>1 DEF OpenEntry
  <2>5. Taken(fs, id) \in Nat
    BY <1>1, TakenIs
  <2> QED BY <2>2, <2>3, <2>4, <2>5
<1>7. /\ \A x, y \in DOMAIN orders : orders[x].sequence = orders[y].sequence => x = y
      /\ \A x, y \in DOMAIN pool : pool[x].sequence = pool[y].sequence => x = y
  BY DEF Inv, OrdersInv, SequencesUnique, PoolInv
<1> HIDE DEF fs, b, old, new
<1>8. \A m \in DOMAIN b : /\ b[m].side \in Side /\ b[m].price \in Nat
                          /\ b[m].sequence \in 1..MaxSequence /\ b[m].remaining \in Nat
  BY <1>2, <1>5, <1>6
<1>9. ASSUME NEW m \in DOMAIN b, NEW n \in DOMAIN b, b[n].sequence = b[m].sequence PROVE n = m
  <2>1. CASE m \in new /\ n \in new
    BY <1>4, <1>5, <1>7, <1>9, <2>1
  <2>2. CASE m \notin new /\ n \notin new
    BY <1>2, <1>4, <1>6, <1>7, <1>9, <2>2
  <2>3. CASE m \in new /\ n \notin new
    BY <1>2, <1>3, <1>5, <1>6, <1>8, <1>9, <2>3
  <2>4. CASE m \notin new /\ n \in new
    BY <1>2, <1>3, <1>5, <1>6, <1>8, <1>9, <2>4
  <2> QED BY <2>1, <2>2, <2>3, <2>4
<1>10. IsFiniteSet(DOMAIN b)
  <2> DEFINE f == [m \in DOMAIN b |-> seq(m)]
             T == 1..MaxSequence
  <2>1. f \in [DOMAIN b -> T]
    BY <1>8
  <2>2. \A m, n \in DOMAIN b : f[m] = f[n] => m = n
    BY <1>9
  <2>3. IsFiniteSet(T)
    BY EngineAssumption, FS_Interval
  <2> HIDE DEF f, T
  <2>4. f \in Injection(DOMAIN b, T)
    BY <2>1, <2>2 DEF Injection, IsInjective
  <2> QED BY <2>3, <2>4, FS_Injection
<1>11. OpenOrders(b)
  BY <1>8, <1>9, <1>10 DEF OpenOrders
<1> QED BY <1>11 DEF b

(* While an order is matched, the book is the orders that are open or were     *)
(* before it came.                                                          *)
LEMMA MatchingBook ==
  ASSUME Inv, current # NoOrder, FillsOnTape,
         NEW fs, fs = current.fills
  PROVE  /\ OpenBook = BookOf(orders, pool, fs) /\ DOMAIN pool = {}
         /\ DOMAIN OpenBook = ActiveIds \cup Matched(fs)
         /\ DOMAIN OpenBook \subseteq DOMAIN orders
         /\ \A id \in DOMAIN OpenBook : OpenBook[id] = OpenEntry(orders[id], Taken(fs, id))
<1>1. /\ PendingFills = fs /\ Matched(fs) \subseteq DOMAIN orders
      /\ OpenBook = BookOf(orders, pool, fs)
  BY PendingIs, OpenBookIs
<1>2. DOMAIN pool = {} /\ OpenOf(pool) = {}
  BY DEF Inv, PoolInv, OpenOf
<1>3. OpenOf(orders) = ActiveIds /\ ActiveIds \subseteq DOMAIN orders
  BY DEF OpenOf, ActiveIds
<1> QED BY <1>1, <1>2, <1>3 DEF BookOf

(* nx is os after order k has traded q.                                       *)
Executed(os, nx, k, q) ==
    /\ k \in OpenOf(os) /\ DOMAIN nx = DOMAIN os
    /\ \A a \in DOMAIN os : a # k => nx[a] = os[a]
    /\ nx[k].side = os[k].side /\ nx[k].price = os[k].price
    /\ nx[k].sequence = os[k].sequence
    /\ nx[k].remaining \in Nat /\ os[k].remaining \in Nat
    /\ nx[k].remaining = os[k].remaining - q

OneEach(fs) == \A i, j \in DOMAIN fs : fs[i].maker = fs[j].maker => i = j

(* A fill leaves the open book as it is: what the maker loses is taken back.   *)
LEMMA BookKeepsOnFill ==
  ASSUME NEW os, NEW pl, OpenOf(pl) = {}, NEW fs \in Seq(Trade), NEW t \in Trade,
         OneEach(fs), t.maker \notin Matched(fs), Matched(fs) \subseteq DOMAIN os,
         NEW nx, Executed(os, nx, t.maker, t.quantity)
  PROVE  BookOf(nx, pl, Append(fs, t)) = BookOf(os, pl, fs)
<1> DEFINE gs == Append(fs, t)
           x == Len(fs) + 1
           k == t.maker
<1>0. /\ k \in OpenOf(os) /\ DOMAIN nx = DOMAIN os
      /\ \A a \in DOMAIN os : a # k => nx[a] = os[a]
      /\ nx[k].side = os[k].side /\ nx[k].price = os[k].price
      /\ nx[k].sequence = os[k].sequence
      /\ nx[k].remaining \in Nat /\ os[k].remaining \in Nat
      /\ nx[k].remaining = os[k].remaining - t.quantity
      /\ \A i, j \in DOMAIN fs : fs[i].maker = fs[j].maker => i = j
      /\ k \notin Matched(fs) /\ k = t.maker
  BY DEF Executed, OneEach
<1>1. Appended(fs, t, gs)
  BY AppendedFill
<1> HIDE DEF gs, k
<1>2. /\ gs \in Seq(Trade) /\ DOMAIN fs = 1..Len(fs) /\ Len(fs) \in Nat
      /\ x \in DOMAIN gs /\ gs[x] = t /\ x \notin DOMAIN fs
      /\ \A i \in DOMAIN fs : i \in DOMAIN gs /\ gs[i] = fs[i]
      /\ \A i \in DOMAIN gs : i \in DOMAIN fs \/ i = x
      /\ Matched(gs) = Matched(fs) \cup {k}
  BY <1>0, <1>1 DEF Appended
<1> HIDE DEF x
<1>3. Taken(gs, k) = t.quantity /\ Taken(fs, k) = 0 /\ t.quantity \in Nat
  <2>1. \A j \in DOMAIN gs : gs[j].maker = k => j = x
    BY <1>0, <1>2 DEF Matched
  <2>2. Taken(gs, k) = gs[x].quantity
    BY <1>0, <1>2, <2>1, TakenIs
  <2> QED BY <1>0, <1>2, <2>2, TakenIs DEF Trade
<1>4. ASSUME NEW id, id # k PROVE Taken(gs, id) = Taken(fs, id)
  <2>1. CASE id \notin Matched(fs)
    BY <1>2, <1>4, <2>1, TakenIs
  <2>2. CASE id \in Matched(fs)
    <3>1. PICK i \in DOMAIN fs : fs[i].maker = id
      BY <2>2 DEF Matched
    <3>2. \A j \in DOMAIN fs : fs[j].maker = id => j = i
      BY <1>0, <3>1
    <3>3. \A j \in DOMAIN gs : gs[j].maker = id => j = i
      BY <1>0, <1>2, <1>4, <3>2
    <3>4. Taken(fs, id) = fs[i].quantity
      BY <3>1, <3>2, TakenIs
    <3>5. Taken(gs, id) = gs[i].quantity
      BY <1>2, <3>1, <3>3, TakenIs
    <3> QED BY <1>2, <3>1, <3>4, <3>5
  <2> QED BY <2>1, <2>2
<1>5. OpenOf(nx) \cup Matched(gs) = OpenOf(os) \cup Matched(fs)
  BY <1>0, <1>2 DEF OpenOf
<1>6. ASSUME NEW id \in OpenOf(os) \cup Matched(fs)
      PROVE  OpenEntry(nx[id], Taken(gs, id)) = OpenEntry(os[id], Taken(fs, id))
  <2>1. CASE id = k
    <3>1. nx[k].remaining + t.quantity = os[k].remaining + 0
      BY <1>0, <1>3
    <3> QED BY <1>0, <1>3, <2>1, <3>1 DEF OpenEntry
  <2>2. CASE id # k
    <3>1. id \in DOMAIN os
      BY <1>6 DEF OpenOf
    <3> QED BY <1>0, <1>4, <2>2, <3>1
  <2> QED BY <2>1, <2>2
<1>7. BookOf(nx, pl, gs) = BookOf(os, pl, fs)
  <2> HIDE DEF OpenOf
  <2> DEFINE D == OpenOf(os) \cup Matched(fs)
  <2>1. BookOf(nx, pl, gs) = [id \in D |-> OpenEntry(nx[id], Taken(gs, id))]
    BY <1>5 DEF BookOf
  <2>2. BookOf(os, pl, fs) = [id \in D |-> OpenEntry(os[id], Taken(fs, id))]
    BY DEF BookOf
  <2> HIDE DEF D
  <2>3. \A id \in D : OpenEntry(nx[id], Taken(gs, id)) = OpenEntry(os[id], Taken(fs, id))
    BY <1>6 DEF D
  <2> QED BY <2>1, <2>2, <2>3
<1> QED BY <1>7 DEF gs

(* One iteration of the loop, in the terms of the abstract book.               *)
LEMMA FillKeepsRefined ==
  ASSUME Inv, BookRefined, Fill
  PROVE  BookRefined' /\ UNCHANGED <<OpenBook, SettledTape>>
<1>1. PICK p \in BestCrossing(current.order) : FillAt(p)
  BY DEF Fill
<1> DEFINE side == Opposite(current.order.side)
<1>k. PICK k : k = Head(levels[side][p])
  OBVIOUS
<1>b. PICK b : b = OpenBook
  OBVIOUS
<1>f. PICK fs : fs = current.fills
  OBVIOUS
<1>o. PICK o : o = current.order
  OBVIOUS
<1>e. PICK me : me = current.id
  OBVIOUS
<1>m. PICK maker : maker = orders[k]
  OBVIOUS
<1>n. PICK n : n = FillQuantity(o, maker)
  OBVIOUS
<1>d. PICK filled : filled = ApplyFill(maker, n)
  OBVIOUS
<1>r. PICK rest : rest = ApplyFill(o, n)
  OBVIOUS
<1>t. PICK t : t = [sequence |-> nextTrade, maker |-> k, taker |-> me,
                   price |-> maker.price, quantity |-> n, makerSide |-> maker.side]
  OBVIOUS
<1>2. current # NoOrder /\ o.remaining > 0
  BY <1>o DEF Fill
<1>3. Fills(p, side, k, maker, n)
  BY <1>2, <1>k, <1>o, <1>m, <1>n, FillTakes
<1>4. /\ orders' = [orders EXCEPT ![k] = filled]
      /\ current' = [current EXCEPT !.order = rest, !.fills = Append(@, t)]
      /\ tape' = Append(tape, t)
      /\ nextTrade' = nextTrade + 1
      /\ pool' = pool
  BY <1>1, <1>k, <1>e, <1>o, <1>m, <1>n, <1>d, <1>r, <1>t DEF FillAt
<1>5. /\ current \in Submission /\ me \in OrderId /\ o \in Order /\ fs \in Seq(Trade)
      /\ tape \in Seq(Trade) /\ nextTrade \in Nat \ {0} /\ IsDict(orders, OrderId, Order)
  BY <1>2, <1>e, <1>o, <1>f DEF Inv, TypeOK, Submission
<1>6. /\ k \in ActiveIds /\ k \in DOMAIN orders /\ k \in OrderId
      /\ maker \in Order /\ maker.side = side /\ maker.price = p
      /\ n \in Nat \ {0} /\ n <= maker.remaining /\ n <= o.remaining
      /\ maker.remaining \in Nat /\ o.remaining \in Nat
      /\ Crosses(o.side, o.price, p) /\ side = Opposite(o.side)
  BY <1>3, <1>5, <1>o, <1>m DEF Fills, ActiveIds, IsDict
<1> HIDE DEF side
<1>7. t \in Trade
  <2>1. maker.price \in Price /\ maker.side \in Side
    BY <1>6 DEF Order
  <2> QED BY <1>5, <1>6, <1>t, <2>1 DEF Trade
<1>8. /\ t.maker = k /\ t.quantity = n /\ t.sequence = nextTrade /\ t.taker = me
      /\ t.price = maker.price /\ t.makerSide = maker.side
  BY <1>t
<1>9. /\ filled \in Order /\ filled.side = maker.side /\ filled.price = maker.price
      /\ filled.sequence = maker.sequence /\ filled.remaining = maker.remaining - n
      /\ filled.status = IF maker.remaining = n THEN "filled" ELSE "partially_filled"
      /\ rest \in Order /\ rest.side = o.side /\ rest.price = o.price
      /\ rest.quantity = o.quantity /\ rest.remaining = o.remaining - n
  <2>1. n \in Nat \ {0} /\ n <= maker.remaining /\ maker \in Order /\ o \in Order /\ n <= o.remaining
    BY <1>5, <1>6
  <2> QED BY <1>d, <1>r, <2>1, ApplyFillIs
<1>10. /\ DOMAIN orders' = DOMAIN orders /\ orders'[k] = filled
       /\ \A a \in DOMAIN orders : a # k => orders'[a] = orders[a]
       /\ current'.order = rest /\ current'.fills = Append(fs, t) /\ current'.id = me
       /\ current' # NoOrder
  <2>1. /\ DOMAIN orders' = DOMAIN orders /\ orders'[k] = filled
        /\ \A a \in DOMAIN orders : a # k => orders'[a] = orders[a]
    BY <1>4, <1>6
  <2>2. current' = [id |-> me, order |-> rest, fills |-> Append(fs, t)]
    BY <1>4, <1>5, <1>e, <1>f DEF Submission
  <2>3. Append(fs, t) \in Seq(Trade)
    BY <1>5, <1>7, AppendProperties
  <2>4. current' \in Submission
    BY <1>5, <1>9, <2>2, <2>3 DEF Submission
  <2> QED BY <2>1, <2>2, <2>4, EngineAssumption
<1>11. /\ FillsRight(b, o, fs) /\ FillsOnTape /\ OpenOrders(b)
  BY <1>2, <1>b, <1>o, <1>f, OpenBookOpens DEF BookRefined
<1>12. /\ OpenBook = BookOf(orders, pool, fs) /\ DOMAIN pool = {}
       /\ DOMAIN b = ActiveIds \cup Matched(fs) /\ DOMAIN b \subseteq DOMAIN orders
       /\ \A id \in DOMAIN b : b[id] = OpenEntry(orders[id], Taken(fs, id))
  BY <1>2, <1>11, <1>b, <1>f, MatchingBook
<1>13. ASSUME NEW i \in DOMAIN fs
       PROVE  /\ fs[i].maker \notin ActiveIds /\ fs[i].maker # k
              /\ fs[i].maker \in DOMAIN orders /\ orders[fs[i].maker].remaining = 0
  BY <1>2, <1>6, <1>11, <1>o, <1>f DEF FillsOnTape
<1>14. k \notin Matched(fs) /\ k \in DOMAIN b
  BY <1>6, <1>12, <1>13 DEF Matched
<1>15. OpenBook' = b
  <2>1. OpenBook' = BookOf(orders', pool', current'.fills)
    <3>1. PendingFills' = current'.fills
      BY <1>10 DEF PendingFills
    <3> QED BY <3>1, OpenBookIs
  <2>2. OpenOf(pool) = {} /\ OpenOf(orders) = ActiveIds
    BY <1>12 DEF OpenOf, ActiveIds
  <2>3. \A i, j \in DOMAIN fs : fs[i].maker = fs[j].maker => i = j
    BY <1>5, <1>11, MakersDistinct
  <2>4. /\ filled.side = orders[k].side /\ filled.price = orders[k].price
        /\ filled.sequence = orders[k].sequence
        /\ filled.remaining \in Nat /\ orders[k].remaining \in Nat
        /\ filled.remaining = orders[k].remaining - t.quantity
    BY <1>6, <1>8, <1>9, <1>m DEF Order
  <2>5. Matched(fs) \subseteq DOMAIN orders
    BY <1>12
  <2>6. BookOf(orders', pool, Append(fs, t)) = BookOf(orders, pool, fs)
    <3>1. Executed(orders, orders', t.maker, t.quantity)
      BY <1>6, <1>8, <1>10, <2>2, <2>4 DEF Executed
    <3>2. OpenOf(pool) = {} /\ OneEach(fs) /\ t.maker \notin Matched(fs)
      BY <1>8, <1>14, <2>2, <2>3 DEF OneEach
    <3> QED BY <1>5, <1>7, <2>5, <3>1, <3>2, BookKeepsOnFill
  <2> QED BY <1>4, <1>10, <1>12, <1>b, <2>1, <2>6
<1>16. NextTo(b, o, fs, t)
  <2>1. /\ b[k].side = maker.side /\ b[k].price = maker.price /\ b[k].sequence = maker.sequence
        /\ b[k].remaining = maker.remaining
    <3>1. Taken(fs, k) = 0
      BY <1>5, <1>14, TakenIs
    <3>2. b[k] = OpenEntry(maker, 0)
      BY <1>12, <1>14, <1>m, <3>1
    <3> QED BY <1>6, <3>2 DEF OpenEntry
  <2>2. k \in MakersFor(b, o)
    <3>1. b[k].side # o.side
      BY <1>5, <1>6, <2>1 DEF Opposite, Order, Side
    <3>2. Book!Crosses(o.side, o.price, b[k].price)
      BY <1>6, <2>1 DEF Crosses, Book!Crosses
    <3> QED BY <1>14, <3>1, <3>2 DEF MakersFor, Book!Makers
  <2>3. ASSUME NEW m \in MakersFor(b, o) \ Matched(fs), m # k
        PROVE  Book!Before(b, k, m)
    <3>1. /\ m \in DOMAIN b /\ b[m].side # o.side /\ m \in ActiveIds /\ m \in DOMAIN orders
      BY <1>12, <2>3 DEF MakersFor, Book!Makers, ActiveIds
    <3>2. /\ b[m].side = orders[m].side /\ b[m].price = orders[m].price
          /\ b[m].sequence = orders[m].sequence
      <4>1. b[m] = OpenEntry(orders[m], Taken(fs, m))
        BY <1>12, <3>1
      <4> QED BY <4>1 DEF OpenEntry
    <3>3. ~Outranks(orders[m], maker)
      BY <1>3, <3>1, HeadIsFirst
    <3>4. b[m].side = b[k].side /\ b[m].side \in Side
      BY <1>5, <1>11, <1>14, <2>1, <2>2, <3>1 DEF OpenOrders, Side, Order, MakersFor, Book!Makers
    <3>5. /\ b[m].price \in Nat /\ b[k].price \in Nat
          /\ b[m].sequence \in Nat /\ b[k].sequence \in Nat /\ b[m].sequence # b[k].sequence
      BY <1>11, <1>14, <2>3, <3>1 DEF OpenOrders
    <3> QED BY <2>1, <3>2, <3>3, <3>4, <3>5 DEF Outranks, AtLeastAsGood, Book!Before, Side
  <2>4. t.quantity = Min({b[k].remaining, o.remaining})
    <3>1. {o.remaining, maker.remaining} = {b[k].remaining, o.remaining}
      BY <2>1
    <3> QED BY <1>8, <1>n, <3>1 DEF FillQuantity
  <2> QED BY <1>8, <1>14, <2>2, <2>3, <2>4 DEF NextTo
<1>17. FillsRight(b, rest, Append(fs, t))
  <2>1. rest.remaining = o.remaining - t.quantity
    BY <1>8, <1>9
  <2> QED BY <1>2, <1>5, <1>7, <1>9, <1>11, <1>16, <2>1, NextFillIsRight
<1>18. /\ Appended(fs, t, Append(fs, t)) /\ Appended(tape, t, tape')
  BY <1>4, <1>5, <1>7, AppendedFill
<1>g. PICK gs : gs = Append(fs, t)
  OBVIOUS
<1>19. FillsOnTape'
  <2>1. /\ Len(fs) \in Nat /\ DOMAIN fs = 1..Len(fs) /\ Len(gs) = Len(fs) + 1
        /\ \A i \in DOMAIN fs : gs[i] = fs[i]
        /\ gs[Len(fs) + 1] = t
        /\ \A i \in DOMAIN gs : i \in DOMAIN fs \/ i = Len(fs) + 1
    BY <1>18, <1>g DEF Appended
  <2>2. /\ Len(tape) \in Nat /\ DOMAIN tape = 1..Len(tape) /\ Len(tape') = Len(tape) + 1
        /\ \A i \in DOMAIN tape : tape'[i] = tape[i]
        /\ tape'[Len(tape) + 1] = t
    BY <1>18 DEF Appended
  <2>3. /\ Len(fs) <= Len(tape)
        /\ \A i \in DOMAIN fs :
              /\ fs[i] = tape[Len(tape) - Len(fs) + i]
              /\ fs[i].taker = me /\ fs[i].price = orders[fs[i].maker].price
              /\ fs[i].makerSide = orders[fs[i].maker].side
    BY <1>11, <1>e, <1>f DEF FillsOnTape
  <2>4. Len(tape') - Len(gs) = Len(tape) - Len(fs) /\ Len(gs) <= Len(tape')
    BY <2>1, <2>2, <2>3
  <2>5. ASSUME NEW i \in DOMAIN fs
        PROVE  /\ gs[i] = fs[i] /\ gs[i] = tape'[Len(tape') - Len(gs) + i]
               /\ gs[i].taker = me /\ gs[i].maker \in DOMAIN orders'
               /\ gs[i].price = orders'[gs[i].maker].price
               /\ gs[i].makerSide = orders'[gs[i].maker].side
               /\ gs[i].maker \notin ActiveIds'
               /\ orders'[gs[i].maker].remaining = 0
    <3>1. Len(tape) - Len(fs) + i \in DOMAIN tape
      BY <2>1, <2>2, <2>3
    <3>2. gs[i] = fs[i] /\ gs[i] = tape'[Len(tape') - Len(gs) + i]
      BY <2>1, <2>2, <2>3, <2>4, <3>1
    <3>3. orders'[gs[i].maker] = orders[fs[i].maker] /\ gs[i].maker \in DOMAIN orders'
      BY <1>10, <1>13, <3>2
    <3>4. gs[i].maker \notin ActiveIds'
      BY <1>13, <3>2, <3>3 DEF ActiveIds
    <3> QED BY <1>13, <2>3, <3>2, <3>3, <3>4
  <2>6. /\ t = tape'[Len(tape') - Len(gs) + (Len(fs) + 1)]
        /\ t.taker = me /\ k \in DOMAIN orders'
        /\ t.price = orders'[k].price /\ t.makerSide = orders'[k].side
        /\ IF k \in ActiveIds' THEN rest.remaining = 0 ELSE orders'[k].remaining = 0
    <3>1. Len(tape') - Len(gs) + (Len(fs) + 1) = Len(tape) + 1
      BY <2>1, <2>2, <2>4
    <3>2. n = IF o.remaining <= maker.remaining THEN o.remaining ELSE maker.remaining
      BY <1>6, <1>n, MinOfTwo DEF FillQuantity
    <3>3. CASE maker.remaining = n
      <4>1. k \notin ActiveIds' /\ orders'[k].remaining = 0
        BY <1>6, <1>9, <1>10, <3>3 DEF ActiveIds, Active
      <4> QED BY <1>6, <1>8, <1>9, <1>10, <2>2, <3>1, <4>1
    <3>4. CASE maker.remaining # n
      <4>1. k \in ActiveIds' /\ rest.remaining = 0
        BY <1>6, <1>9, <1>10, <3>2, <3>4 DEF ActiveIds, Active
      <4> QED BY <1>6, <1>8, <1>9, <1>10, <2>2, <3>1, <4>1
    <3> QED BY <3>3, <3>4
  <2>7. gs = current'.fills /\ me = current'.id /\ rest = current'.order
    BY <1>10, <1>g
  <2> QED BY <1>8, <2>1, <2>4, <2>5, <2>6, <2>7 DEF FillsOnTape
<1>20. Numbered'
  <2>1. nextTrade = Len(tape) + 1 /\ \A i \in DOMAIN tape : tape[i].sequence = i
    BY DEF BookRefined, Numbered
  <2> QED BY <1>4, <1>8, <1>18, <2>1 DEF Numbered, Appended
<1>21. SettledTape' = SettledTape
  <2>1. PendingFills = fs /\ PendingFills' = gs
    BY <1>2, <1>10, <1>f, <1>g DEF PendingFills
  <2> DEFINE s == Len(tape) - Len(fs)
  <2>2. /\ s \in 0..Len(tape) /\ Len(tape') - Len(gs) = s
        /\ Len(tape') = Len(tape) + 1 /\ Len(tape) \in Nat
        /\ tape' \in Seq(Trade)
        /\ \A i \in 1..s : tape'[i] = tape[i]
    <3>1. Len(fs) <= Len(tape)
      BY <1>11, <1>f DEF FillsOnTape
    <3> QED BY <1>18, <1>g, <3>1 DEF Appended
  <2> HIDE DEF s
  <2>3. SubSeq(tape', 1, s) = SubSeq(tape, 1, s)
    <3>1. \A i \in 1..s : tape[i] \in Trade /\ tape'[i] \in Trade
      BY <1>5, <2>2, ElementOfSeq
    <3>2. /\ SubSeq(tape, 1, s) \in Seq(Trade) /\ SubSeq(tape', 1, s) \in Seq(Trade)
          /\ Len(SubSeq(tape, 1, s)) = Len(SubSeq(tape', 1, s))
          /\ \A i \in 1..s : /\ SubSeq(tape, 1, s)[i] = tape[i]
                             /\ SubSeq(tape', 1, s)[i] = tape'[i]
          /\ Len(SubSeq(tape, 1, s)) = s
      BY <2>2, <3>1, SubSeqProperties
    <3> QED BY <2>2, <3>2, SeqEqual
  <2> QED BY <2>1, <2>2, <2>3 DEF SettledTape, s
<1>22. (current # NoOrder => FillsRight(OpenBook, current.order, current.fills) /\ FillsOnTape)'
  BY <1>10, <1>15, <1>17, <1>19
<1> QED BY <1>15, <1>b, <1>20, <1>21, <1>22 DEF BookRefined

(* The end of the loop is the submit of the abstract book.                    *)
LEMMA FinishIsSubmit ==
  ASSUME Inv, BookRefined, FinishSubmit
  PROVE  BookRefined' /\ Book!Next
<1>b. PICK b : b = OpenBook
  OBVIOUS
<1>f. PICK fs : fs = current.fills
  OBVIOUS
<1>o. PICK o : o = current.order
  OBVIOUS
<1>e. PICK me : me = current.id
  OBVIOUS
<1>a. PICK fills : fills = Book!Allotments(b, o.side, o.price, o.quantity)
  OBVIOUS
<1> DEFINE M == Matched(fs)
<1>1. /\ current # NoOrder /\ LoopDone
      /\ orders' = Put(orders, me, o) /\ current' = NoOrder
      /\ UNCHANGED <<nextTrade, tape, pool>>
  BY <1>o, <1>e DEF FinishSubmit
<1>2. /\ me \in OrderId /\ o \in Order /\ fs \in Seq(Trade) /\ tape \in Seq(Trade)
      /\ IsDict(orders, OrderId, Order) /\ lastSequence \in Nat
      /\ me \notin DOMAIN orders /\ o.sequence > lastSequence
      /\ IF o.remaining = 0 THEN o.status = "filled" ELSE o.status \in Active
      /\ LevelTypes /\ BidsBounded
  <2>1. /\ me \in OrderId /\ o \in Order /\ fs \in Seq(Trade) /\ tape \in Seq(Trade)
        /\ IsDict(orders, OrderId, Order) /\ lastSequence \in Nat
        /\ LevelTypes /\ BidsBounded
    BY <1>1, <1>o, <1>e, <1>f DEF Inv, TypeOK, LevelTypes, Submission
  <2>2. /\ me \notin DOMAIN orders /\ o.sequence > lastSequence
        /\ IF o.remaining = 0 THEN o.status = "filled" ELSE o.status \in Active
    BY <1>1, <1>o, <1>e DEF Inv, CurrentInv
  <2> QED BY <2>1, <2>2
<1>3. /\ o.side \in Side /\ o.price \in Price /\ o.quantity \in Quantity
      /\ o.sequence \in 1..MaxSequence /\ o.remaining \in Nat /\ o.quantity \in Nat
      /\ o.price \in Nat
  BY <1>2, EngineAssumption DEF Order, Sequence
<1>4. FillsRight(b, o, fs) /\ FillsOnTape /\ OpenOrders(b)
  BY <1>1, <1>b, <1>o, <1>f, OpenBookOpens DEF BookRefined
<1>5. /\ OpenBook = BookOf(orders, pool, fs) /\ DOMAIN pool = {}
      /\ DOMAIN b = ActiveIds \cup M /\ DOMAIN b \subseteq DOMAIN orders
      /\ \A id \in DOMAIN b : b[id] = OpenEntry(orders[id], Taken(fs, id))
  BY <1>1, <1>4, <1>b, <1>f, MatchingBook
<1>6. \A id \in DOMAIN b :
         /\ b[id].side = orders[id].side /\ b[id].price = orders[id].price
         /\ b[id].sequence = orders[id].sequence
         /\ b[id].remaining = orders[id].remaining + Taken(fs, id)
         /\ orders[id].remaining \in Nat /\ Taken(fs, id) \in Nat
  <2> SUFFICES ASSUME NEW id \in DOMAIN b
               PROVE  /\ b[id].side = orders[id].side /\ b[id].price = orders[id].price
                      /\ b[id].sequence = orders[id].sequence
                      /\ b[id].remaining = orders[id].remaining + Taken(fs, id)
                      /\ orders[id].remaining \in Nat /\ Taken(fs, id) \in Nat
    OBVIOUS
  <2>1. b[id] = OpenEntry(orders[id], Taken(fs, id)) /\ orders[id] \in Order
    BY <1>2, <1>5 DEF IsDict
  <2>2. Taken(fs, id) \in Nat
    BY <1>2, TakenIs
  <2> QED BY <2>1, <2>2 DEF OpenEntry, Order
<1>7. o.remaining = 0 \/ MakersFor(b, o) \subseteq M
  <2> SUFFICES ASSUME o.remaining # 0, NEW m \in MakersFor(b, o), m \notin M
               PROVE  FALSE
    OBVIOUS
  <2>1. BestCrossing(o) = {}
    BY <1>1, <1>o DEF LoopDone
  <2>2. /\ m \in ActiveIds /\ b[m].side # o.side /\ Book!Crosses(o.side, o.price, b[m].price)
        /\ m \in DOMAIN b /\ m \in DOMAIN orders
    BY <1>5 DEF MakersFor, Book!Makers
  <2>3. /\ orders[m].side = Opposite(o.side) /\ Crosses(o.side, o.price, orders[m].price)
    <3>1. orders[m].side \in Side
      BY <1>2, <2>2 DEF IsDict, Order
    <3> QED BY <1>3, <1>6, <2>2, <3>1 DEF Opposite, Side, Crosses, Book!Crosses
  <2>4. orders[m].price \in DOMAIN levels[Opposite(o.side)]
    BY <2>2, <2>3 DEF Inv, BookInv, Placed
  <2> QED BY <1>2, <2>1, <2>3, <2>4, NothingCrosses
<1>8. /\ fills = [m \in M |-> fills[m]] /\ DOMAIN fills = M
      /\ \A i \in DOMAIN fs : fills[fs[i].maker] = fs[i].quantity
  <2>1. /\ fills = [m \in M |-> fills[m]]
        /\ \A i \in DOMAIN fs : fills[fs[i].maker] = fs[i].quantity
    BY <1>2, <1>4, <1>7, <1>a, AllotmentsAre
  <2> HIDE DEF M
  <2> QED BY <2>1
<1>9. Book!Allotted(fills) = o.quantity - o.remaining
  BY <1>2, <1>4, <1>8, AllottedIs
<1>10. \A i \in DOMAIN fs :
          /\ Taken(fs, fs[i].maker) = fs[i].quantity /\ fs[i].quantity \in Nat \ {0}
          /\ fs[i].maker \in M /\ fs[i].maker \in DOMAIN b
  <2> SUFFICES ASSUME NEW i \in DOMAIN fs
               PROVE  /\ Taken(fs, fs[i].maker) = fs[i].quantity /\ fs[i].quantity \in Nat \ {0}
                      /\ fs[i].maker \in M /\ fs[i].maker \in DOMAIN b
    OBVIOUS
  <2>1. fs[i].quantity \in Nat \ {0}
    BY <1>4 DEF FillsRight
  <2>2. \A j \in DOMAIN fs : fs[j].maker = fs[i].maker => j = i
    BY <1>2, <1>4, MakersDistinct
  <2>3. fs[i].maker \in M /\ fs[i].maker \in DOMAIN b
    BY <1>5 DEF Matched
  <2> QED BY <1>2, <2>1, <2>2, <2>3, TakenIs
<1>11. ASSUME NEW m \in M
       PROVE  /\ m \in DOMAIN b /\ Taken(fs, m) = fills[m] /\ fills[m] \in Nat
              /\ m \in ActiveIds => orders[m].remaining > 0
              /\ m \notin ActiveIds => orders[m].remaining = 0
  <2>1. PICK i \in DOMAIN fs : fs[i].maker = m
    BY DEF Matched
  <2>2. m \in DOMAIN b /\ Taken(fs, m) = fills[m] /\ fills[m] \in Nat
    BY <1>8, <1>10, <2>1
  <2>3. m \in ActiveIds => orders[m].remaining > 0
    BY DEF Inv, OrdersInv, ActiveHasQuantity
  <2>4. m \notin ActiveIds => orders[m].remaining = 0
    BY <1>4, <1>f, <2>1 DEF FillsOnTape
  <2> QED BY <2>2, <2>3, <2>4
<1> HIDE DEF M
<1>12. {m \in DOMAIN b : m \in DOMAIN fills => fills[m] < b[m].remaining} = ActiveIds
  <2> SUFFICES ASSUME NEW m \in DOMAIN b
               PROVE  (m \in M => fills[m] < b[m].remaining) <=> m \in ActiveIds
    BY <1>5, <1>8
  <2>1. CASE m \in M
    BY <1>6, <1>11, <2>1
  <2>2. CASE m \notin M
    BY <1>5, <2>2
  <2> QED BY <2>1, <2>2
<1>13. /\ DOMAIN orders' = DOMAIN orders \cup {me} /\ orders'[me] = o
       /\ \A m \in DOMAIN orders : orders'[m] = orders[m]
       /\ PendingFills' = <<>> /\ pool' = pool
  BY <1>1, <1>2 DEF Put, PendingFills
<1>14. OpenOf(orders') = ActiveIds \cup (IF o.remaining > 0 THEN {me} ELSE {})
  BY <1>2, <1>3, <1>13 DEF OpenOf, ActiveIds, Active
<1>15. OpenBook'
          = [m \in ActiveIds \cup (IF o.remaining > 0 THEN {me} ELSE {}) |->
               IF m = me
               THEN [side |-> o.side, price |-> o.price,
                     sequence |-> o.sequence, remaining |-> o.remaining]
               ELSE IF m \in DOMAIN fills
                    THEN [b[m] EXCEPT !.remaining = @ - fills[m]]
                    ELSE b[m]]
  <2> DEFINE D == ActiveIds \cup (IF o.remaining > 0 THEN {me} ELSE {})
             after(m) == IF m = me
                         THEN [side |-> o.side, price |-> o.price,
                               sequence |-> o.sequence, remaining |-> o.remaining]
                         ELSE IF m \in DOMAIN fills
                              THEN [b[m] EXCEPT !.remaining = @ - fills[m]]
                              ELSE b[m]
  <2>1. OpenBook' = [m \in D |-> OpenEntry(orders'[m], 0)]
    <3>1. OpenBook' = BookOf(orders', pool, <<>>)
      BY <1>13, OpenBookIs
    <3>2. OpenOf(pool) = {}
      BY <1>5 DEF OpenOf
    <3>3. BookOf(orders', pool, <<>>)
            = [id \in OpenOf(orders') \cup OpenOf(pool) |->
                  IF id \in OpenOf(pool) THEN OpenEntry(pool[id], 0) ELSE OpenEntry(orders'[id], 0)]
      BY BookUnfilled
    <3> QED BY <1>14, <3>1, <3>2, <3>3
  <2>2. ASSUME NEW m \in D PROVE OpenEntry(orders'[m], 0) = after(m)
    <3>1. CASE m = me
      <4>1. o.remaining + 0 = o.remaining
        BY <1>3
      <4> QED BY <1>13, <3>1, <4>1 DEF OpenEntry
    <3>2. CASE m # me
      <4>1. m \in ActiveIds /\ m \in DOMAIN b /\ orders'[m] = orders[m]
        BY <1>5, <1>13, <3>2
      <4>2. b[m] = [side |-> orders[m].side, price |-> orders[m].price,
                    sequence |-> orders[m].sequence,
                    remaining |-> orders[m].remaining + Taken(fs, m)]
        BY <1>5, <4>1 DEF OpenEntry
      <4>3. OpenEntry(orders'[m], 0)
              = [side |-> orders[m].side, price |-> orders[m].price,
                 sequence |-> orders[m].sequence, remaining |-> orders[m].remaining]
        <5>1. orders[m].remaining + 0 = orders[m].remaining
          BY <1>6, <4>1
        <5> QED BY <4>1, <5>1 DEF OpenEntry
      <4>4. CASE m \in M
        <5>1. (orders[m].remaining + Taken(fs, m)) - fills[m] = orders[m].remaining
          BY <1>6, <1>11, <4>1, <4>4
        <5>2. [b[m] EXCEPT !.remaining = @ - fills[m]]
                = [side |-> orders[m].side, price |-> orders[m].price,
                   sequence |-> orders[m].sequence, remaining |-> orders[m].remaining]
          BY <4>2, <5>1
        <5> QED BY <1>8, <3>2, <4>3, <4>4, <5>2
      <4>5. CASE m \notin M
        <5>1. Taken(fs, m) = 0
          BY <1>2, <4>5, TakenIs DEF M
        <5>2. orders[m].remaining + Taken(fs, m) = orders[m].remaining
          BY <1>6, <4>1, <5>1
        <5> QED BY <1>8, <3>2, <4>2, <4>3, <4>5, <5>2
      <4> QED BY <4>4, <4>5
    <3> QED BY <3>1, <3>2
  <2> HIDE DEF D, after
  <2>3. OpenBook' = [m \in D |-> after(m)]
    BY <2>1, <2>2
  <2> QED BY <2>3 DEF D, after
<1>16. SettledTape' = SettledTape \o Book!TradesOf(b, fills, me, Len(SettledTape) + 1)
  <2> DEFINE s == Len(tape) - Len(fs)
  <2>1. PendingFills = fs /\ PendingFills' = <<>>
    BY <1>1, <1>f DEF PendingFills
  <2>2. /\ s \in 0..Len(tape) /\ Len(tape) \in Nat /\ DOMAIN tape = 1..Len(tape)
        /\ DOMAIN fs = 1..Len(fs) /\ Len(fs) \in Nat
        /\ \A i \in DOMAIN fs :
              /\ fs[i] = tape[s + i] /\ fs[i].taker = me
              /\ fs[i].price = orders[fs[i].maker].price
              /\ fs[i].makerSide = orders[fs[i].maker].side
    <3>1. /\ Len(fs) <= Len(tape)
          /\ \A i \in DOMAIN fs :
                /\ fs[i] = tape[Len(tape) - Len(fs) + i] /\ fs[i].taker = me
                /\ fs[i].price = orders[fs[i].maker].price
                /\ fs[i].makerSide = orders[fs[i].maker].side
      BY <1>4, <1>e, <1>f DEF FillsOnTape
    <3>2. /\ Len(tape) \in Nat /\ DOMAIN tape = 1..Len(tape)
          /\ DOMAIN fs = 1..Len(fs) /\ Len(fs) \in Nat
      BY <1>2, LenProperties
    <3> QED BY <3>1, <3>2
  <2>3. SettledTape = SubSeq(tape, 1, s)
    BY <2>1 DEF SettledTape
  <2>4. SettledTape' = tape
    <3>1. Len(PendingFills') = 0
      BY <2>1, EmptySeq
    <3>2. SettledTape' = SubSeq(tape, 1, Len(tape))
      BY <1>1, <2>2, <3>1 DEF SettledTape
    <3> QED BY <1>2, <3>2, SubSeqFull
  <2> HIDE DEF s
  <2>5. /\ SettledTape \in Seq(Trade) /\ Len(SettledTape) = s
        /\ \A i \in 1..s : SettledTape[i] = tape[i]
    <3>1. \A i \in 1..s : tape[i] \in Trade
      BY <1>2, <2>2, ElementOfSeq
    <3> QED BY <2>2, <2>3, <3>1, SubSeqProperties
  <2>6. Book!TradesOf(b, fills, me, s + 1) = fs
    <3>n. PICK next : next = s + 1
      OBVIOUS
    <3>1. \A i \in DOMAIN fs : /\ fs[i].sequence = next + i - 1 /\ fs[i].taker = me
                               /\ fs[i].price = b[fs[i].maker].price
                               /\ fs[i].makerSide = b[fs[i].maker].side
      <4>1. \A i \in DOMAIN tape : tape[i].sequence = i
        BY DEF BookRefined, Numbered
      <4>2. \A i \in DOMAIN fs : s + i \in DOMAIN tape
        BY <2>2 DEF s
      <4>3. \A i \in DOMAIN fs : fs[i].sequence = s + i /\ s + i = (s + 1) + i - 1
        BY <2>2, <4>1, <4>2
      <4> QED BY <1>6, <1>10, <2>2, <3>n, <4>3
    <3>2. next \in Nat
      BY <2>2, <3>n
    <3>3. fills = [m \in Matched(fs) |-> fills[m]]
      BY <1>8 DEF M
    <3>4. Book!TradesOf(b, fills, me, next) = fs
      BY <1>2, <1>4, <1>8, <3>1, <3>2, <3>3, TradesAre
    <3> QED BY <3>n, <3>4
  <2>7. SettledTape \o fs = tape
    <3>1. /\ SettledTape \o fs \in Seq(Trade)
          /\ Len(SettledTape \o fs) = Len(tape)
          /\ \A i \in 1..Len(tape) :
                (SettledTape \o fs)[i] = IF i <= s THEN SettledTape[i] ELSE fs[i - s]
      <4>1. s + Len(fs) = Len(tape)
        BY <2>2 DEF s
      <4> QED BY <1>2, <2>5, <4>1, ConcatProperties
    <3>2. ASSUME NEW i \in 1..Len(tape) PROVE (SettledTape \o fs)[i] = tape[i]
      <4>1. CASE i <= s
        BY <2>2, <2>5, <3>1, <4>1
      <4>2. CASE ~(i <= s)
        <5>1. i - s \in DOMAIN fs /\ s + (i - s) = i
          BY <2>2, <4>2 DEF s
        <5> QED BY <2>2, <3>1, <4>2, <5>1
      <4> QED BY <4>1, <4>2
    <3> QED BY <1>2, <3>1, <3>2, SeqEqual
  <2> QED BY <2>4, <2>5, <2>6, <2>7
<1>17. Book!Submit(me, o.side, o.price, o.quantity, o.sequence)
  <2>1. me \notin DOMAIN b
    BY <1>2, <1>5
  <2>2. \A m \in DOMAIN b : b[m].sequence < o.sequence
    <3> SUFFICES ASSUME NEW m \in DOMAIN b PROVE b[m].sequence < o.sequence
      OBVIOUS
    <3>1. orders[m].sequence \in used /\ orders[m].sequence <= lastSequence /\ m \in DOMAIN orders
      BY <1>5 DEF Inv, OrdersInv
    <3>2. orders[m].sequence \in Nat
      BY <1>2, <3>1, EngineAssumption DEF IsDict, Order, Sequence
    <3> QED BY <1>2, <1>3, <1>6, <3>1, <3>2
  <2>3. o.quantity - Book!Allotted(fills) = o.remaining
    BY <1>3, <1>9
  <2> QED BY <1>12, <1>15, <1>16, <1>a, <1>b, <2>1, <2>2, <2>3 DEF Book!Submit
<1>18. Book!Next
  BY <1>2, <1>3, <1>17 DEF Book!Next, Book!Side, Side
<1>19. BookRefined'
  BY <1>1 DEF BookRefined, Numbered
<1> QED BY <1>18, <1>19

(* The steps outside the loop of submit.                                     *)
LEMMA IdleBook ==
  /\ current = NoOrder => PendingFills = <<>> /\ OpenBook = BookOf(orders, pool, <<>>)
  /\ current' = NoOrder => /\ PendingFills' = <<>>
                           /\ OpenBook' = BookOf(orders', pool', <<>>)
<1>1. /\ current = NoOrder => PendingFills = <<>>
      /\ current' = NoOrder => PendingFills' = <<>>
  BY DEF PendingFills
<1> QED BY <1>1, OpenBookIs

LEMMA SettledIsKept ==
  ASSUME UNCHANGED tape, UNCHANGED PendingFills
  PROVE  UNCHANGED SettledTape
BY DEF SettledTape

LEMMA UnchangedIsRefined ==
  ASSUME BookRefined, UNCHANGED <<orders, pool, current, tape, nextTrade>>
  PROVE  BookRefined' /\ UNCHANGED <<OpenBook, SettledTape>>
<1>1. PendingFills' = PendingFills
  BY DEF PendingFills
<1>2. OpenBook' = OpenBook
  BY <1>1, OpenBookIs
<1>3. SettledTape' = SettledTape
  BY <1>1, SettledIsKept
<1>4. Numbered'
  BY DEF BookRefined, Numbered
<1>5. (current # NoOrder => FillsRight(OpenBook, current.order, current.fills) /\ FillsOnTape)'
  <2>1. ActiveIds' = ActiveIds
    BY DEF ActiveIds
  <2>2. FillsOnTape => FillsOnTape'
    BY <2>1 DEF FillsOnTape
  <2>3. current # NoOrder => FillsRight(OpenBook, current.order, current.fills) /\ FillsOnTape
    BY DEF BookRefined
  <2>b. PICK b : b = OpenBook
    OBVIOUS
  <2>4. current # NoOrder => FillsRight(b, current.order, current.fills)
    BY <2>3, <2>b
  <2>5. current' # NoOrder => FillsRight(b, current'.order, current'.fills)
    BY <2>4
  <2> QED BY <1>2, <2>2, <2>3, <2>5, <2>b
<1> QED BY <1>2, <1>3, <1>4, <1>5 DEF BookRefined

LEMMA BeginSubmitIsRefined ==
  ASSUME Inv, BookRefined, NEW id \in OrderId, NEW side \in Side, NEW price \in Price,
         NEW quantity \in Quantity, NEW sequence \in Sequence,
         BeginSubmit(id, side, price, quantity, sequence)
  PROVE  BookRefined' /\ UNCHANGED <<OpenBook, SettledTape>>
<1>o. PICK o : o = NewOrder(side, price, quantity, sequence)
  OBVIOUS
<1>b. PICK b : b = OpenBook
  OBVIOUS
<1>1. /\ current = NoOrder /\ UNCHANGED <<orders, pool, tape, nextTrade>>
      /\ current' = [id |-> id, order |-> o, fills |-> <<>>]
  BY <1>o DEF BeginSubmit, Ready
<1>2. PendingFills = <<>> /\ PendingFills' = <<>>
  BY <1>1 DEF PendingFills
<1>3. OpenBook' = b /\ SettledTape' = SettledTape
  BY <1>1, <1>2, <1>b, OpenBookIs, SettledIsKept
<1>4. OpenOrders(b)
  BY <1>1, <1>b, OpenBookOpens
<1>5. o.quantity - o.remaining = 0
  BY <1>o, EngineAssumption DEF NewOrder
<1>6. DOMAIN <<>> = {} /\ Len(<<>>) = 0 /\ Matched(<<>>) = {}
  <2>1. DOMAIN <<>> = {} /\ Len(<<>>) = 0
    BY EmptySeq
  <2> QED BY <2>1 DEF Matched
<1>7. FillsRight(b, o, <<>>)
  <2>e. PICK none : none = <<>>
    OBVIOUS
  <2>0. DOMAIN none = {} /\ Matched(none) = {}
    BY <1>6, <2>e
  <2>1. Book!Depth(b, {}) = 0
    <3>1. Book!Depth(b, {}) = Total(Remaining(b), {})
      BY <1>4, DepthIs
    <3> QED BY <3>1, TotalOfNone
  <2>2. SumFunctionOnSet(Traded(none), DOMAIN none) = 0
    BY <2>0, TotalOfNone DEF Total
  <2>3. Book!Depth(b, Matched(none)) = 0
    BY <2>0, <2>1
  <2>4. FillsRight(b, o, none)
    BY <1>5, <2>0, <2>2, <2>3 DEF FillsRight
  <2> QED BY <2>e, <2>4
<1>8. FillsOnTape'
  <2>1. current'.fills = <<>> /\ Len(tape') \in Nat
    <3>1. Len(tape) \in Nat
      BY LenProperties DEF Inv, TypeOK
    <3> QED BY <1>1, <3>1
  <2> QED BY <1>6, <2>1 DEF FillsOnTape
<1>9. Numbered'
  BY <1>1 DEF BookRefined, Numbered
<1>10. current'.order = o /\ current'.fills = <<>>
  BY <1>1
<1> QED BY <1>b, <1>3, <1>7, <1>8, <1>9, <1>10 DEF BookRefined

LEMMA CancelIsRefined ==
  ASSUME Inv, BookRefined, NEW id \in OrderId, Cancel(id)
  PROVE  BookRefined' /\ Book!Next
<1>1. /\ current = NoOrder /\ current' = NoOrder /\ ~restoring /\ id \in ActiveIds
      /\ UNCHANGED <<pool, tape, nextTrade>>
      /\ orders' = [orders EXCEPT ![id] = Cancelled(orders[id])]
  BY DEF Cancel, Ready
<1>2. /\ IsDict(orders, OrderId, Order) /\ id \in DOMAIN orders /\ orders[id] \in Order
      /\ OpenOf(pool) = {}
  BY <1>1 DEF Inv, TypeOK, IsDict, ActiveIds, PoolInv, OpenOf
<1>3. /\ DOMAIN orders' = DOMAIN orders /\ orders'[id].status = "cancelled"
      /\ \A a \in DOMAIN orders : a # id => orders'[a] = orders[a]
  BY <1>1, <1>2 DEF Cancelled, Order
<1>4. OpenOf(orders') = ActiveIds \ {id} /\ OpenOf(orders) = ActiveIds
  BY <1>3 DEF OpenOf, ActiveIds, Active
<1>5. OpenBook = [a \in ActiveIds |-> OpenEntry(orders[a], 0)]
  <2>1. OpenBook = BookOf(orders, pool, <<>>)
    BY <1>1, IdleBook
  <2>2. BookOf(orders, pool, <<>>)
          = [a \in OpenOf(orders) \cup OpenOf(pool) |->
                IF a \in OpenOf(pool) THEN OpenEntry(pool[a], 0) ELSE OpenEntry(orders[a], 0)]
    BY BookUnfilled
  <2> QED BY <1>2, <1>4, <2>1, <2>2
<1>6. OpenBook' = [a \in ActiveIds \ {id} |-> OpenEntry(orders'[a], 0)]
  <2>1. OpenBook' = BookOf(orders', pool, <<>>)
    BY <1>1, IdleBook
  <2>2. BookOf(orders', pool, <<>>)
          = [a \in OpenOf(orders') \cup OpenOf(pool) |->
                IF a \in OpenOf(pool) THEN OpenEntry(pool[a], 0) ELSE OpenEntry(orders'[a], 0)]
    BY BookUnfilled
  <2> QED BY <1>2, <1>4, <2>1, <2>2
<1>7. OpenBook' = Book!Restrict(OpenBook, DOMAIN OpenBook \ {id})
  <2>1. DOMAIN OpenBook = ActiveIds
    BY <1>5
  <2>2. \A a \in ActiveIds \ {id} : OpenEntry(orders'[a], 0) = OpenBook[a]
    BY <1>3, <1>5 DEF ActiveIds
  <2>3. OpenBook' = [a \in ActiveIds \ {id} |-> OpenBook[a]]
    BY <1>6, <2>2
  <2> QED BY <2>1, <2>3 DEF Book!Restrict
<1>8. SettledTape' = SettledTape
  BY <1>1, IdleBook, SettledIsKept
<1>9. Book!Cancel(id)
  BY <1>1, <1>5, <1>7, <1>8 DEF Book!Cancel
<1>10. BookRefined'
  BY <1>1 DEF BookRefined, Numbered
<1> QED BY <1>9, <1>10 DEF Book!Next

LEMMA BeginRestoreIsRefined ==
  ASSUME Inv, BookRefined, BeginRestore
  PROVE  BookRefined' /\ UNCHANGED <<OpenBook, SettledTape>>
<1>1. /\ current = NoOrder /\ current' = NoOrder /\ ~restoring
      /\ UNCHANGED tape /\ nextTrade' = NextTradeAfter(tape)
      /\ orders' = EmptyMap /\ pool' = Restrict(orders, ActiveIds)
  BY DEF BeginRestore, Ready
<1>2. OpenOf(pool) = {} /\ OpenOf(orders) = ActiveIds /\ ActiveIds \subseteq DOMAIN orders
  BY <1>1 DEF Inv, PoolInv, OpenOf, ActiveIds
<1>3. OpenOf(orders') = {} /\ OpenOf(pool') = ActiveIds
      /\ \A a \in ActiveIds : pool'[a] = orders[a]
  BY <1>1, <1>2 DEF EmptyMap, Restrict, OpenOf, ActiveIds
<1>4. OpenBook = [a \in ActiveIds |-> OpenEntry(orders[a], 0)]
  <2>1. OpenBook = BookOf(orders, pool, <<>>)
    BY <1>1, IdleBook
  <2>2. BookOf(orders, pool, <<>>)
          = [a \in OpenOf(orders) \cup OpenOf(pool) |->
                IF a \in OpenOf(pool) THEN OpenEntry(pool[a], 0) ELSE OpenEntry(orders[a], 0)]
    BY BookUnfilled
  <2> QED BY <1>2, <2>1, <2>2
<1>5. OpenBook' = [a \in ActiveIds |-> OpenEntry(pool'[a], 0)]
  <2>1. OpenBook' = BookOf(orders', pool', <<>>)
    BY <1>1, IdleBook
  <2>2. BookOf(orders', pool', <<>>)
          = [a \in OpenOf(orders') \cup OpenOf(pool') |->
                IF a \in OpenOf(pool') THEN OpenEntry(pool'[a], 0) ELSE OpenEntry(orders'[a], 0)]
    BY BookUnfilled
  <2> QED BY <1>3, <2>1, <2>2
<1>6. OpenBook' = OpenBook
  BY <1>3, <1>4, <1>5
<1>7. SettledTape' = SettledTape
  BY <1>1, IdleBook, SettledIsKept
<1>8. nextTrade' = Len(tape) + 1
  <2> DEFINE S == {0} \cup {tape[i].sequence : i \in DOMAIN tape}
  <2>1. DOMAIN tape = 1..Len(tape) /\ Len(tape) \in Nat
    BY LenProperties DEF Inv, TypeOK
  <2>2. \A i \in DOMAIN tape : tape[i].sequence = i
    BY DEF BookRefined, Numbered
  <2>3. S = 0..Len(tape)
    <3>1. \A x \in S : x \in 0..Len(tape)
      BY <2>1, <2>2
    <3>2. ASSUME NEW x \in 0..Len(tape) PROVE x \in S
      <4>1. CASE x = 0
        BY <4>1
      <4>2. CASE x # 0
        <5>1. x \in DOMAIN tape
          BY <2>1, <4>2
        <5> QED BY <2>2, <5>1
      <4> QED BY <4>1, <4>2
    <3> QED BY <3>1, <3>2
  <2> HIDE DEF S
  <2>4. Max(S) = Len(tape)
    <3>1. S \in SUBSET Nat /\ Len(tape) \in S /\ \A x \in S : x <= Len(tape)
      BY <2>1, <2>3
    <3> QED BY <3>1, MaxIs
  <2>5. nextTrade' = 1 + Len(tape)
    BY <1>1, <2>4 DEF NextTradeAfter, S
  <2> QED BY <2>1, <2>5
<1>9. BookRefined'
  BY <1>1, <1>8 DEF BookRefined, Numbered
<1> QED BY <1>6, <1>7, <1>9

LEMMA RestoreOneIsRefined ==
  ASSUME Inv, BookRefined, NEW id \in OrderId, RestoreOne(id)
  PROVE  BookRefined' /\ UNCHANGED <<OpenBook, SettledTape>>
<1>1. /\ restoring /\ id \in DOMAIN pool
      /\ orders' = Put(orders, id, pool[id])
      /\ pool' = Restrict(pool, DOMAIN pool \ {id})
      /\ UNCHANGED <<tape, current, nextTrade>>
  BY DEF RestoreOne
<1>2. /\ current = NoOrder /\ current' = NoOrder
      /\ \A a \in DOMAIN pool : pool[a].status \in Active /\ a \notin DOMAIN orders
  BY <1>1 DEF Inv, PoolInv, OrdersInv
<1>3. OpenOf(pool) = DOMAIN pool /\ OpenOf(pool') = DOMAIN pool \ {id}
      /\ \A a \in DOMAIN pool : a # id => pool'[a] = pool[a]
  BY <1>1, <1>2 DEF OpenOf, Restrict
<1>4. /\ OpenOf(orders') = OpenOf(orders) \cup {id} /\ orders'[id] = pool[id]
      /\ \A a \in OpenOf(orders) : orders'[a] = orders[a] /\ a \notin DOMAIN pool
  BY <1>1, <1>2 DEF OpenOf, Put
<1> DEFINE D == OpenOf(orders) \cup DOMAIN pool
<1>5. OpenBook = [a \in D |-> IF a \in DOMAIN pool THEN OpenEntry(pool[a], 0)
                                                   ELSE OpenEntry(orders[a], 0)]
  BY <1>2, <1>3, IdleBook, BookUnfilled
<1>6. OpenBook' = [a \in D |-> IF a \in DOMAIN pool \ {id} THEN OpenEntry(pool'[a], 0)
                                                           ELSE OpenEntry(orders'[a], 0)]
  <2>1. OpenBook' = BookOf(orders', pool', <<>>)
    BY <1>2, IdleBook
  <2>2. BookOf(orders', pool', <<>>)
          = [a \in OpenOf(orders') \cup OpenOf(pool') |->
                IF a \in OpenOf(pool') THEN OpenEntry(pool'[a], 0) ELSE OpenEntry(orders'[a], 0)]
    BY BookUnfilled
  <2>3. OpenOf(orders') \cup OpenOf(pool') = D
    BY <1>1, <1>3, <1>4
  <2> QED BY <1>3, <2>1, <2>2, <2>3
<1>7. \A a \in D : (IF a \in DOMAIN pool THEN OpenEntry(pool[a], 0)
                                         ELSE OpenEntry(orders[a], 0))
                 = (IF a \in DOMAIN pool \ {id} THEN OpenEntry(pool'[a], 0)
                                                ELSE OpenEntry(orders'[a], 0))
  BY <1>3, <1>4
<1> HIDE DEF D
<1>8. OpenBook' = OpenBook
  BY <1>5, <1>6, <1>7
<1>9. SettledTape' = SettledTape
  BY <1>1, <1>2, IdleBook, SettledIsKept
<1>10. BookRefined'
  BY <1>1, <1>2 DEF BookRefined, Numbered
<1> QED BY <1>8, <1>9, <1>10

LEMMA InitIsRefined ==
  ASSUME Init
  PROVE  BookRefined /\ Book!Init
<1>1. /\ orders = EmptyMap /\ pool = EmptyMap /\ tape = <<>> /\ nextTrade = 1
      /\ current = NoOrder
  BY DEF Init
<1>2. DOMAIN EmptyMap = {} /\ OpenOf(EmptyMap) = {}
  BY DEF EmptyMap, OpenOf
<1>3. OpenBook = [a \in {} |-> 0]
  BY <1>1, <1>2, IdleBook, BookUnfilled
<1>4. DOMAIN <<>> = {} /\ Len(<<>>) = 0
  BY EmptySeq
<1>5. SettledTape = <<>>
  <2>1. SettledTape = SubSeq(<<>>, 1, 0)
    BY <1>1, <1>4, IdleBook DEF SettledTape
  <2> QED BY <2>1, SubSeqEmpty
<1>6. BookRefined
  BY <1>1, <1>4 DEF BookRefined, Numbered
<1> QED BY <1>3, <1>5, <1>6 DEF Book!Init

LEMMA NextIsRefined ==
  ASSUME Inv, BookRefined, [Next]_engineVars
  PROVE  BookRefined' /\ [Book!Next]_(Book!bookVars)
<1>1. UNCHANGED <<OpenBook, SettledTape>> => UNCHANGED Book!bookVars
  BY DEF Book!bookVars
<1>2. CASE UNCHANGED <<orders, pool, current, tape, nextTrade>>
  BY <1>1, <1>2, UnchangedIsRefined
<1>3. UNCHANGED engineVars => UNCHANGED <<orders, pool, current, tape, nextTrade>>
  BY DEF engineVars
<1>4. ASSUME NEW id \in OrderId, NEW sequence \in Sequence, RefuseSubmit(id, sequence)
      PROVE  UNCHANGED <<orders, pool, current, tape, nextTrade>>
  BY <1>4 DEF RefuseSubmit
<1>5. ASSUME NEW id \in OrderId, RefuseCancel(id)
      PROVE  UNCHANGED <<orders, pool, current, tape, nextTrade>>
  BY <1>5 DEF RefuseCancel
<1>6. FinishRestore => UNCHANGED <<orders, pool, current, tape, nextTrade>>
  BY DEF FinishRestore
<1>7. CASE Submit
  <2>1. PICK id \in OrderId, side \in Side, price \in Price, quantity \in Quantity,
             sequence \in Sequence : BeginSubmit(id, side, price, quantity, sequence)
    BY <1>7 DEF Submit
  <2> QED BY <1>1, <2>1, BeginSubmitIsRefined
<1>8. CASE Place
  <2>1. lastSequence + 1 \in Sequence
    BY <1>8, EngineAssumption DEF Place, Sequence, Inv, TypeOK
  <2> DEFINE next == lastSequence + 1
  <2>2. PICK id \in OrderId, side \in Side, price \in Price, quantity \in Quantity :
           BeginSubmit(id, side, price, quantity, next)
    BY <1>8 DEF Place, PlaceLimitOrder
  <2> HIDE DEF next
  <2>3. next \in Sequence
    BY <2>1 DEF next
  <2> QED BY <1>1, <2>2, <2>3, BeginSubmitIsRefined
<1>9. CASE Fill
  BY <1>1, <1>9, FillKeepsRefined
<1>10. CASE FinishSubmit
  BY <1>10, FinishIsSubmit
<1>11. ASSUME NEW id \in OrderId, Cancel(id)
       PROVE  BookRefined' /\ [Book!Next]_(Book!bookVars)
  BY <1>11, CancelIsRefined
<1>12. ASSUME NEW id \in OrderId, RestoreOne(id)
       PROVE  BookRefined' /\ [Book!Next]_(Book!bookVars)
  BY <1>1, <1>12, RestoreOneIsRefined
<1>13. CASE BeginRestore
  BY <1>1, <1>13, BeginRestoreIsRefined
<1> QED BY <1>2, <1>3, <1>4, <1>5, <1>6, <1>7, <1>8, <1>9, <1>10, <1>11, <1>12, <1>13
        DEF Next, Step

(* The engine implements the abstract order book, for any identifiers, prices  *)
(* and quantities: what its loop leaves at the end of a submit is what serving  *)
(* the makers in price-time order at once leaves, a cancel removes its order,   *)
(* and nothing else is seen of it.                                          *)
THEOREM EngineImplementsOrderBook == Spec => ImplementsOrderBook
<1>1. Init => BookRefined /\ Book!Init
  BY InitIsRefined
<1>2. Inv /\ BookRefined /\ [Next]_engineVars => BookRefined' /\ [Book!Next]_(Book!bookVars)
  BY NextIsRefined
<1> QED BY EngineInvariant, <1>1, <1>2, PTL DEF Spec, ImplementsOrderBook, Book!Spec
=============================================================================
