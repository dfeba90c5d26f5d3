-------------------------- MODULE RateLimiter_proofs --------------------------
(***************************************************************************)
(* Proofs about the limit on mutations: what its buckets of time stamps, its   *)
(* clean-up and its shared bucket promise, for any clients, limit, window and  *)
(* number of keys.                                                         *)
(*                                                                         *)
(* The inductive invariant says that the buckets, though trimmed and dropped   *)
(* at different times, still count everything that passed within the window:  *)
(* for every moment of it, a bucket holds as many later time stamps as         *)
(* mutations of its key have passed since.                                   *)
(***************************************************************************)
EXTENDS RateLimiter, FiniteSetTheorems, SequenceTheorems, NaturalsInduction,
        TLAPS

USE LimiterAssumption

-----------------------------------------------------------------------------
(* Numbers and sequences                                                    *)

LEMMA LeastOfNumbers ==
  ASSUME NEW S \in SUBSET Nat, S # {}
  PROVE  \E m \in S : \A x \in S : m <= x
<1>1. PICK m \in S : \A x \in S : <<x, m>> \notin OpToRel(<, Nat)
  BY NatLessThanWellFounded, WFMin
<1>2. ASSUME NEW x \in S PROVE m <= x
  <2>1. x \in Nat /\ m \in Nat
    OBVIOUS
  <2>2. ~(x < m)
    BY <1>1, <2>1, Zenon DEF OpToRel
  <2> QED BY <2>1, <2>2
<1> QED BY <1>2

LEMMA LeastIsMin ==
  ASSUME NEW S \in SUBSET Nat, S # {}
  PROVE  Min(S) \in S /\ \A x \in S : Min(S) <= x
<1>1. PICK m \in S : \A x \in S : m <= x
  BY LeastOfNumbers
<1> QED BY <1>1, Zenon DEF Min

Ordered(s) == \A i, j \in 1..Len(s) : i < j => s[i] <= s[j]

(* The places of s with a time stamp after t.                                *)
Later(s, t) == {i \in 1..Len(s) : s[i] > t}

(* r is what is left of s when its first d time stamps are dropped; those are  *)
(* expired at the cutoff.                                                   *)
Drops(s, r, d, cutoff) ==
    /\ Len(r) = Len(s) - d
    /\ \A i \in 1..Len(r) : r[i] = s[i + d]
    /\ \A i \in 1..d : s[i] <= cutoff

Trims(s, r, cutoff) == \E d \in 0..Len(s) : Drops(s, r, d, cutoff)

Fresh(s, cutoff) == \A i \in 1..Len(s) : s[i] > cutoff

LEMMA LengthCounts ==
  ASSUME NEW s \in Seq(Nat)
  PROVE  IsFiniteSet(1..Len(s)) /\ Cardinality(1..Len(s)) = Len(s)
<1>1. Len(s) \in Nat
  BY LenProperties
<1> DEFINE n == Len(s)
<1>2. n \in Nat
  BY <1>1
<1> HIDE DEF n
<1>3. IsFiniteSet(1..n) /\ Cardinality(1..n) = n
  BY <1>2, FS_Interval
<1> QED BY <1>3 DEF n

LEMMA LaterIsFinite ==
  ASSUME NEW s \in Seq(Nat), NEW t
  PROVE  /\ IsFiniteSet(Later(s, t)) /\ Cardinality(Later(s, t)) \in Nat
         /\ Cardinality(Later(s, t)) <= Len(s)
<1>1. IsFiniteSet(1..Len(s)) /\ Cardinality(1..Len(s)) = Len(s)
  BY LengthCounts
<1>2. Later(s, t) \subseteq 1..Len(s)
  BY DEF Later
<1> QED BY <1>1, <1>2, FS_Subset, FS_CardinalityType

LEMMA FreshIsLater ==
  ASSUME NEW s \in Seq(Nat), NEW t \in Int, Fresh(s, t)
  PROVE  Cardinality(Later(s, t)) = Len(s)
<1>1. Later(s, t) = 1..Len(s)
  BY DEF Later, Fresh
<1> QED BY <1>1, LengthCounts

LEMMA TrimsNothing ==
  ASSUME NEW s \in Seq(Nat), NEW cutoff \in Int
  PROVE  Trims(s, s, cutoff)
<1>1. Drops(s, s, 0, cutoff)
  BY DEF Drops
<1> QED BY <1>1 DEF Trims

LEMMA TrimsTwice ==
  ASSUME NEW s \in Seq(Nat), NEW r \in Seq(Nat), NEW q \in Seq(Nat),
         NEW cutoff \in Int, Trims(s, r, cutoff), Trims(r, q, cutoff)
  PROVE  Trims(s, q, cutoff)
<1>1. PICK d \in 0..Len(s) : Drops(s, r, d, cutoff)
  BY DEF Trims
<1>2. PICK e \in 0..Len(r) : Drops(r, q, e, cutoff)
  BY DEF Trims
<1>3. d + e \in 0..Len(s) /\ Len(q) = Len(s) - (d + e)
  BY <1>1, <1>2 DEF Drops
<1>4. ASSUME NEW i \in 1..Len(q) PROVE q[i] = s[i + (d + e)]
  <2>1. q[i] = r[i + e] /\ i + e \in 1..Len(r)
    BY <1>2 DEF Drops
  <2>2. r[i + e] = s[(i + e) + d]
    BY <1>1, <2>1 DEF Drops
  <2>3. (i + e) + d = i + (d + e)
    OBVIOUS
  <2> QED BY <2>1, <2>2, <2>3
<1>5. ASSUME NEW i \in 1..(d + e) PROVE s[i] <= cutoff
  <2>1. CASE i <= d
    BY <1>1, <2>1 DEF Drops
  <2>2. CASE i > d
    <3>1. i - d \in 1..e /\ i - d \in 1..Len(r)
      BY <2>2
    <3>2. r[i - d] <= cutoff /\ r[i - d] = s[(i - d) + d]
      BY <1>1, <1>2, <3>1 DEF Drops
    <3>3. (i - d) + d = i
      OBVIOUS
    <3> QED BY <3>2, <3>3
  <2> QED BY <2>1, <2>2
<1> QED BY <1>3, <1>4, <1>5 DEF Trims, Drops

(* Trimming keeps order, takes nothing that is later than the cutoff, and is   *)
(* nothing if the length stays.                                             *)
LEMMA TrimsKeeps ==
  ASSUME NEW s \in Seq(Nat), NEW r \in Seq(Nat), NEW cutoff \in Int, Trims(s, r, cutoff)
  PROVE  /\ Len(r) <= Len(s)
         /\ Ordered(s) => Ordered(r)
         /\ \A i \in 1..Len(r) : \E j \in 1..Len(s) : r[i] = s[j]
         /\ Len(r) > 0 => r[Len(r)] = s[Len(s)]
         /\ Len(r) = Len(s) => r = s
         /\ Fresh(s, cutoff) => r = s
<1>1. PICK d \in 0..Len(s) : Drops(s, r, d, cutoff)
  BY DEF Trims
<1>2. Len(r) = Len(s) - d
  BY <1>1 DEF Drops
<1>3. ASSUME NEW i \in 1..Len(r) PROVE r[i] = s[i + d] /\ i + d \in 1..Len(s)
  BY <1>1, <1>2 DEF Drops
<1>4. ASSUME Ordered(s) PROVE Ordered(r)
  <2>1. ASSUME NEW i \in 1..Len(r), NEW j \in 1..Len(r), i < j PROVE r[i] <= r[j]
    <3>1. r[i] = s[i + d] /\ i + d \in 1..Len(s) /\ r[j] = s[j + d] /\ j + d \in 1..Len(s)
      BY <1>3
    <3>2. i + d < j + d
      BY <2>1
    <3> QED BY <1>4, <3>1, <3>2 DEF Ordered
  <2> QED BY <2>1 DEF Ordered
<1>5. d = 0 => r = s
  <2>1. ASSUME d = 0, NEW i \in 1..Len(r) PROVE r[i] = s[i]
    BY <1>3, <2>1
  <2> QED BY <1>2, <2>1, SeqEqual
<1>6. Len(r) > 0 => r[Len(r)] = s[Len(s)]
  <2> SUFFICES ASSUME Len(r) > 0 PROVE r[Len(r)] = s[Len(s)]
    OBVIOUS
  <2>1. Len(r) \in 1..Len(r) /\ Len(r) + d = Len(s)
    BY <1>2
  <2> QED BY <1>3, <2>1
<1>7. Fresh(s, cutoff) => d = 0
  <2> SUFFICES ASSUME Fresh(s, cutoff), d # 0 PROVE FALSE
    OBVIOUS
  <2>1. 1 \in 1..d /\ 1 \in 1..Len(s)
    OBVIOUS
  <2>2. s[1] <= cutoff /\ s[1] > cutoff /\ s[1] \in Nat
    BY <1>1, <2>1, ElementOfSeq DEF Drops, Fresh
  <2> QED BY <2>2
<1>8. \A i \in 1..Len(r) : \E j \in 1..Len(s) : r[i] = s[j]
  BY <1>3
<1>9. Len(r) <= Len(s) /\ (Len(r) = Len(s) => d = 0)
  BY <1>2
<1> QED BY <1>4, <1>5, <1>6, <1>7, <1>8, <1>9

LEMMA TrimsCounts ==
  ASSUME NEW s \in Seq(Nat), NEW r \in Seq(Nat), NEW cutoff \in Int, NEW t \in Int,
         Trims(s, r, cutoff), t >= cutoff
  PROVE  Cardinality(Later(r, t)) = Cardinality(Later(s, t))
<1>1. PICK d \in 0..Len(s) : Drops(s, r, d, cutoff)
  BY DEF Trims
<1> DEFINE f == [i \in Later(r, t) |-> i + d]
<1>2. ASSUME NEW i \in Later(r, t) PROVE f[i] \in Later(s, t)
  BY <1>1 DEF Later, Drops
<1>3. ASSUME NEW j \in Later(s, t) PROVE \E i \in Later(r, t) : f[i] = j
  <2>1. j \in 1..Len(s) /\ s[j] > t /\ s[j] \in Nat
    BY ElementOfSeq DEF Later
  <2>2. ~(j \in 1..d)
    <3> SUFFICES ASSUME j \in 1..d PROVE FALSE
      OBVIOUS
    <3>1. s[j] <= cutoff
      BY <1>1 DEF Drops
    <3> QED BY <2>1, <3>1
  <2>3. j - d \in 1..Len(r) /\ (j - d) + d = j
    BY <1>1, <2>1, <2>2 DEF Drops
  <2>4. r[j - d] = s[j]
    BY <1>1, <2>3 DEF Drops
  <2>5. j - d \in Later(r, t)
    BY <2>1, <2>3, <2>4 DEF Later
  <2> QED BY <2>3, <2>5
<1>4. ASSUME NEW i \in Later(r, t), NEW j \in Later(r, t), f[i] = f[j] PROVE i = j
  BY <1>4 DEF Later
<1>5. f \in Bijection(Later(r, t), Later(s, t))
  <2>1. f \in [Later(r, t) -> Later(s, t)]
    BY <1>2
  <2> HIDE DEF f
  <2> QED BY <1>3, <1>4, <2>1 DEF Bijection, Injection, Surjection, IsInjective
<1>6. ExistsBijection(Later(r, t), Later(s, t))
  BY <1>5, Zenon DEF ExistsBijection
<1>7. IsFiniteSet(Later(r, t))
  BY LaterIsFinite
<1> QED BY <1>6, <1>7, FS_Bijection

LEMMA LaterOfAppend ==
  ASSUME NEW s \in Seq(Nat), NEW x \in Nat, NEW t \in Int
  PROVE  Cardinality(Later(Append(s, x), t)) =
            Cardinality(Later(s, t)) + (IF x > t THEN 1 ELSE 0)
<1>1. Len(Append(s, x)) = Len(s) + 1 /\ Append(s, x)[Len(s) + 1] = x
  OBVIOUS
<1>2. ASSUME NEW i \in 1..Len(s) PROVE Append(s, x)[i] = s[i]
  OBVIOUS
<1>3. Later(Append(s, x), t) = IF x > t THEN Later(s, t) \cup {Len(s) + 1} ELSE Later(s, t)
  <2> DEFINE q == Append(s, x)
  <2> HIDE DEF q
  <2>1. Len(q) = Len(s) + 1 /\ q[Len(s) + 1] = x /\ \A i \in 1..Len(s) : q[i] = s[i]
    BY <1>1, <1>2 DEF q
  <2>2. Later(q, t) = IF x > t THEN Later(s, t) \cup {Len(s) + 1} ELSE Later(s, t)
    <3>1. \A i : i \in 1..Len(q) <=> (i \in 1..Len(s) \/ i = Len(s) + 1)
      BY <2>1
    <3> QED BY <2>1, <3>1, Zenon DEF Later
  <2> QED BY <2>2 DEF q
<1>4. Len(s) + 1 \notin Later(s, t)
  BY DEF Later
<1>5. IsFiniteSet(Later(s, t)) /\ Cardinality(Later(s, t)) \in Nat
  BY LaterIsFinite
<1>6. CASE x > t
  BY <1>3, <1>4, <1>5, <1>6, FS_AddElement
<1>7. CASE ~(x > t)
  BY <1>3, <1>5, <1>7
<1> QED BY <1>6, <1>7
-----------------------------------------------------------------------------
(* The invariant                                                            *)

Bucketful(s) == s \in Seq(Nat) /\ Ordered(s) /\ Len(s) <= Limit
Past(s, t) == \A i \in 1..Len(s) : s[i] <= t

(* What a key's bucket holds, none being an empty one; before and after the    *)
(* clean-up that the next call makes.                                       *)
Held(k) == IF k \in DOMAIN requests THEN requests[k] ELSE <<>>
Left(k) == IF k \in DOMAIN Cleaned THEN Cleaned[k] ELSE <<>>
NewCleanup == IF CleanupDue THEN now ELSE lastCleanup

PassedSince(k, t) == {m \in served : m.key = k /\ m.at > t}
Together(m) == {l \in served : l.key = m.key /\ l.at = m.at}

Clocks == now \in Window..MaxTime /\ lastCleanup \in 0..now

KeysInv ==
    /\ DOMAIN requests \subseteq Key /\ IsFiniteSet(DOMAIN requests)
    /\ Cardinality(DOMAIN requests \ {Overflow}) <= MaxKeys

(* A bucket's stamps are ordered and past; it is not empty, and would not have  *)
(* been at the last clean-up.                                               *)
BucketOK(k) ==
    /\ Bucketful(Held(k)) /\ Past(Held(k), now)
    /\ k \in DOMAIN requests =>
          Len(Held(k)) > 0 /\ Held(k)[Len(Held(k))] > lastCleanup - Window

BucketInv == \A k \in Key : BucketOK(k)

HistoryTypes ==
    /\ told \in [Client -> [at : Nat, retry : Nat]]
    /\ \A c \in Client : told[c].at <= now
    /\ served \subseteq [key : Key, at : Nat, n : Nat] /\ IsFiniteSet(served)
    /\ \A m \in served : m.at <= now

(* For every moment of the window, a bucket counts what has passed since.      *)
Counts(k, s) ==
    \A t \in Int :
        t >= now - Window => Cardinality(PassedSince(k, t)) = Cardinality(Later(s, t))
CountInv == \A k \in Key : Counts(k, Held(k))

(* The entries of one key and instant are numbered from zero.                *)
NumberInv == \A m \in served : m.n < Cardinality(Together(m))

(* What a bucket holds of the last two windows has passed.                   *)
Known(k, t) == \E m \in served : m.key = k /\ m.at = t
Seen(k, s) ==
    \A i \in 1..Len(s) : s[i] > now - 2 * Window => Known(k, s[i])
SeenInv == \A k \in Key : Seen(k, Held(k))

(* A client that was told to wait still has the bucket that was full, or part  *)
(* of it, and the first time stamp of it expires when it was told, to the     *)
(* second.                                                                  *)
Back(c) == told[c].at + told[c].retry * TicksPerSecond
Full(c) == Len(Held(c)) = Limit
Expiry(c) == Held(c)[1] + Window
ToldRight(c) ==
    told[c] # Nothing =>
        /\ Full(c) => /\ Expiry(c) < Back(c) + TicksPerSecond
                      /\ told[c].retry > 1 => Back(c) <= Expiry(c)
        /\ told[c].retry > 1 /\ now < Back(c) => Full(c)
ToldInv == \A c \in Client : ToldRight(c)

Inv ==
    /\ Clocks /\ KeysInv /\ BucketInv /\ HistoryTypes
    /\ CountInv /\ NumberInv /\ SeenInv /\ ToldInv

-----------------------------------------------------------------------------
(* The clean-up                                                             *)

LEMMA ConstantTypes ==
  /\ Limit \in Nat /\ Limit > 0 /\ MaxKeys \in Nat /\ MaxKeys > 0
  /\ TicksPerSecond \in Nat /\ TicksPerSecond > 0
  /\ Window \in Nat /\ Window > 0 /\ MaxTime \in Nat /\ Window <= MaxTime
  /\ Overflow \notin Client
OBVIOUS

LEMMA RecentTrims ==
  ASSUME now \in Nat, NEW s \in Seq(Nat), Ordered(s)
  PROVE  /\ Recent(s) \in Seq(Nat) /\ Trims(s, Recent(s), now - Window)
         /\ Fresh(Recent(s), now - Window)
<1> DEFINE cutoff == now - Window
           left == {i \in DOMAIN s : s[i] > cutoff}
<1>1. cutoff \in Int /\ DOMAIN s = 1..Len(s) /\ Len(s) \in Nat
  BY ConstantTypes
<1>2. ASSUME NEW i \in 1..Len(s) PROVE s[i] \in Nat
  BY ElementOfSeq
<1>3. left \in SUBSET Nat
  BY <1>1
<1>4. CASE left = {}
  <2>1. Recent(s) = <<>>
    BY <1>4 DEF Recent
  <2>2. ASSUME NEW i \in 1..Len(s) PROVE s[i] <= cutoff
    <3>1. ~(s[i] > cutoff)
      BY <1>1, <1>4
    <3> QED BY <1>1, <1>2, <3>1
  <2>3. Drops(s, <<>>, Len(s), cutoff)
    <3> HIDE DEF cutoff
    <3> QED BY <1>1, <2>2 DEF Drops
  <2>4. Trims(s, <<>>, cutoff) /\ Fresh(<<>>, cutoff) /\ <<>> \in Seq(Nat)
    BY <1>1, <2>3 DEF Trims, Fresh
  <2> QED BY <2>1, <2>4
<1>5. CASE left # {}
  <2> DEFINE m == Min(left)
             r == SubSeq(s, m, Len(s))
  <2>1. Recent(s) = r
    BY <1>5 DEF Recent
  <2>2. m \in left /\ \A x \in left : m <= x
    <3> HIDE DEF left
    <3> QED BY <1>3, <1>5, LeastIsMin
  <2>3. m \in 1..Len(s) /\ s[m] > cutoff
    BY <1>1, <2>2
  <2>4. ASSUME NEW i \in 1..(m - 1) PROVE s[i] <= cutoff
    <3> HIDE DEF m
    <3>1. i \in 1..Len(s) /\ i < m
      BY <1>1, <2>3
    <3>2. i \notin left
      BY <1>1, <2>2, <2>3, <3>1
    <3>3. ~(s[i] > cutoff)
      BY <1>1, <3>1, <3>2
    <3> QED BY <1>1, <1>2, <3>1, <3>3
  <2>5. ASSUME NEW i \in m..Len(s) PROVE s[i] \in Nat /\ s[i] > cutoff
    <3> HIDE DEF m
    <3>1. i \in 1..Len(s) /\ m <= i
      BY <1>1, <2>3
    <3>2. s[m] <= s[i]
      <4>1. CASE m = i
        BY <1>2, <3>1, <4>1
      <4>2. CASE m # i
        BY <2>3, <3>1, <4>2 DEF Ordered
      <4> QED BY <4>1, <4>2
    <3> QED BY <1>1, <1>2, <2>3, <3>1, <3>2
  <2>6. /\ r \in Seq(Nat) /\ Len(r) = Len(s) - m + 1
        /\ \A i \in 1..(Len(s) - m + 1) : r[i] = s[m + i - 1]
    <3> HIDE DEF m
    <3>1. \A i \in m..Len(s) : s[i] \in Nat
      BY <2>5
    <3>2. m \in Int /\ Len(s) \in Int /\ m <= Len(s)
      BY <1>1, <2>3
    <3>3. /\ r \in Seq(Nat) /\ Len(r) = IF m <= Len(s) THEN Len(s) - m + 1 ELSE 0
          /\ \A i \in 1..(Len(s) - m + 1) : r[i] = s[m + i - 1]
      BY <3>1, <3>2, SubSeqProperties
    <3> QED BY <3>2, <3>3
  <2> HIDE DEF r
  <2>7. Drops(s, r, m - 1, cutoff)
    <3> HIDE DEF m, cutoff
    <3>1. Len(r) = Len(s) - (m - 1) /\ \A i \in 1..Len(r) : m + i - 1 = i + (m - 1)
      BY <1>1, <2>3, <2>6
    <3>2. \A i \in 1..Len(r) : r[i] = s[i + (m - 1)]
      BY <1>1, <2>3, <2>6, <3>1
    <3> QED BY <2>4, <3>1, <3>2 DEF Drops
  <2>8. m - 1 \in 0..Len(s)
    BY <1>1, <2>3
  <2>9. Fresh(r, cutoff)
    <3> HIDE DEF m, cutoff
    <3>1. ASSUME NEW i \in 1..Len(r) PROVE r[i] > cutoff
      <4>1. r[i] = s[m + i - 1] /\ m + i - 1 \in m..Len(s)
        BY <1>1, <2>3, <2>6
      <4> QED BY <2>5, <4>1
    <3> QED BY <3>1 DEF Fresh
  <2> QED BY <2>1, <2>6, <2>7, <2>8, <2>9 DEF Trims
<1> QED BY <1>4, <1>5
LEMMA EmptyBucket ==
  /\ <<>> \in Seq(Nat) /\ Len(<<>>) = 0 /\ Ordered(<<>>)
  /\ \A t : Fresh(<<>>, t) /\ Past(<<>>, t)
<1>1. <<>> \in Seq(Nat) /\ Len(<<>>) = 0
  OBVIOUS
<1>2. 1..Len(<<>>) = {}
  OBVIOUS
<1> QED BY <1>1, <1>2 DEF Ordered, Fresh, Past

(* A key's bucket after the clean-up, and after its next call's own trimming.  *)
LeftOK(k) ==
    /\ Left(k) \in Seq(Nat) /\ Trims(Held(k), Left(k), now - Window)
    /\ k \in DOMAIN Cleaned =>
          Len(Left(k)) > 0 /\ Left(k)[Len(Left(k))] > NewCleanup - Window

StampsOK(k) ==
    /\ Stamps(k) \in Seq(Nat) /\ Trims(Held(k), Stamps(k), now - Window)
    /\ Fresh(Stamps(k), now - Window)

LEMMA CleanedLeaves ==
  ASSUME Clocks, KeysInv, BucketInv, NEW k \in Key
  PROVE  LeftOK(k) /\ DOMAIN Cleaned \subseteq DOMAIN requests
<1>1. Bucketful(Held(k)) /\ now \in Nat /\ lastCleanup \in Nat /\ now - Window \in Int
  BY ConstantTypes DEF Clocks, BucketInv, BucketOK
<1>2. Held(k) \in Seq(Nat) /\ Ordered(Held(k))
  BY <1>1 DEF Bucketful
<1>3. CASE ~CleanupDue
  <2>1. Cleaned = requests /\ NewCleanup = lastCleanup
    BY <1>3 DEF Cleaned, NewCleanup
  <2>2. Left(k) = Held(k)
    BY <2>1 DEF Left, Held
  <2>3. Trims(Held(k), Held(k), now - Window)
    BY <1>1, <1>2, TrimsNothing
  <2> QED BY <1>2, <2>1, <2>2, <2>3 DEF LeftOK, BucketInv, BucketOK
<1>4. CASE CleanupDue
  <2> DEFINE r == Recent(requests[k])
  <2>1. /\ DOMAIN Cleaned = {l \in DOMAIN requests : Recent(requests[l]) # <<>>}
        /\ \A l \in DOMAIN Cleaned : Cleaned[l] = Recent(requests[l])
        /\ NewCleanup = now
    BY <1>4 DEF Cleaned, NewCleanup
  <2>2. CASE k \notin DOMAIN requests
    <3>1. Held(k) = <<>> /\ Left(k) = <<>> /\ k \notin DOMAIN Cleaned
      BY <2>1, <2>2 DEF Held, Left
    <3>2. Trims(<<>>, <<>>, now - Window)
      BY <1>1, EmptyBucket, TrimsNothing
    <3> QED BY <2>1, <3>1, <3>2, EmptyBucket DEF LeftOK
  <2>3. CASE k \in DOMAIN requests
    <3>1. Held(k) = requests[k]
      BY <2>3 DEF Held
    <3>2. r \in Seq(Nat) /\ Trims(Held(k), r, now - Window) /\ Fresh(r, now - Window)
      BY <1>1, <1>2, <3>1, RecentTrims
    <3>3. Left(k) = r
      BY <2>1, <2>3 DEF Left
    <3>4. ASSUME k \in DOMAIN Cleaned PROVE Len(r) > 0 /\ r[Len(r)] > now - Window
      <4>1. r # <<>>
        BY <2>1, <3>4
      <4>2. Len(r) \in Nat /\ Len(r) # 0
        BY <3>2, <4>1, EmptySeq
      <4> HIDE DEF r
      <4>3. Len(r) \in 1..Len(r)
        BY <4>2
      <4> QED BY <3>2, <4>2, <4>3 DEF Fresh
    <3> HIDE DEF r
    <3> QED BY <2>1, <3>2, <3>3, <3>4 DEF LeftOK
  <2> QED BY <2>2, <2>3
<1> QED BY <1>3, <1>4

LEMMA StampsLeft ==
  ASSUME Clocks, KeysInv, BucketInv, NEW k \in Key
  PROVE  StampsOK(k)
<1>1. Bucketful(Held(k)) /\ now \in Nat /\ now - Window \in Int
  BY ConstantTypes DEF Clocks, BucketInv, BucketOK
<1>2. Held(k) \in Seq(Nat) /\ Ordered(Held(k))
  BY <1>1 DEF Bucketful
<1>3. Left(k) \in Seq(Nat) /\ Trims(Held(k), Left(k), now - Window)
  BY CleanedLeaves DEF LeftOK
<1>4. Ordered(Left(k))
  BY <1>1, <1>2, <1>3, TrimsKeeps
<1>5. CASE k \in DOMAIN Cleaned
  <2>1. Stamps(k) = Recent(Left(k))
    BY <1>5 DEF Stamps, Left
  <2>2. /\ Recent(Left(k)) \in Seq(Nat) /\ Trims(Left(k), Recent(Left(k)), now - Window)
        /\ Fresh(Recent(Left(k)), now - Window)
    BY <1>1, <1>3, <1>4, RecentTrims
  <2> HIDE DEF Recent
  <2>3. Trims(Held(k), Recent(Left(k)), now - Window)
    BY <1>1, <1>2, <1>3, <2>2, TrimsTwice
  <2> QED BY <2>1, <2>2, <2>3 DEF StampsOK
<1>6. CASE k \notin DOMAIN Cleaned
  <2>1. Stamps(k) = <<>> /\ Left(k) = <<>>
    BY <1>6 DEF Stamps, Left
  <2> QED BY <1>3, <2>1, EmptyBucket DEF StampsOK
<1> QED BY <1>5, <1>6

LEMMA BucketIsKey ==
  ASSUME NEW c \in Client
  PROVE  /\ Bucket(c) \in Key /\ Bucket(c) \in {c, Overflow}
         /\ Bucket(c) = c => c \in DOMAIN Cleaned \/ ~(Cardinality(DOMAIN Cleaned) >= MaxKeys)
         /\ Bucket(c) = Overflow => c \notin DOMAIN Cleaned /\ Cardinality(DOMAIN Cleaned) >= MaxKeys
  BY ConstantTypes DEF Bucket, Key

(* What a call leaves in the buckets: the key's own is replaced.               *)
LEMMA HeldNext ==
  ASSUME NEW key \in Key, NEW st, requests' = WithStamps(key, st), NEW l \in Key
  PROVE  /\ Held(l)' = IF l = key THEN st ELSE Left(l)
         /\ DOMAIN requests' = DOMAIN Cleaned \cup {key}
<1>1. DOMAIN requests' = DOMAIN Cleaned \cup {key}
  BY DEF WithStamps
<1>2. ASSUME NEW k \in DOMAIN Cleaned \cup {key}
      PROVE requests'[k] = IF k = key THEN st ELSE Cleaned[k]
  BY DEF WithStamps
<1> QED BY <1>1, <1>2 DEF Held, Left
-----------------------------------------------------------------------------
(* The buckets after a call                                                 *)

LEMMA StepKeys ==
  ASSUME Clocks, KeysInv, BucketInv, NEW c \in Client, NEW st,
         requests' = WithStamps(Bucket(c), st)
  PROVE  KeysInv'
<1> DEFINE key == Bucket(c)
           D == DOMAIN Cleaned
           E == DOMAIN requests
<1>1. key \in Key /\ key \in {c, Overflow}
  BY BucketIsKey
<1>2. D \subseteq E /\ E \subseteq Key /\ IsFiniteSet(E)
  BY <1>1, CleanedLeaves DEF KeysInv
<1>3. E' = D \cup {key}
  BY <1>1, HeldNext
<1>4. IsFiniteSet(D) /\ Cardinality(D) \in Nat
  BY <1>2, FS_Subset, FS_CardinalityType
<1>5. E' \subseteq Key /\ IsFiniteSet(E')
  BY <1>1, <1>2, <1>3, <1>4, FS_AddElement
<1>6. IsFiniteSet(D \ {Overflow}) /\ Cardinality(D \ {Overflow}) \in Nat
      /\ Cardinality(D \ {Overflow}) <= Cardinality(D)
  BY <1>4, FS_Subset, FS_CardinalityType
<1>7. Cardinality(D \ {Overflow}) <= MaxKeys
  <2>1. D \ {Overflow} \subseteq E \ {Overflow} /\ IsFiniteSet(E \ {Overflow})
    BY <1>2, FS_Subset
  <2>2. /\ Cardinality(D \ {Overflow}) <= Cardinality(E \ {Overflow})
        /\ Cardinality(E \ {Overflow}) \in Nat
    BY <2>1, FS_Subset, FS_CardinalityType
  <2> HIDE DEF D, E
  <2>3. Cardinality(E \ {Overflow}) <= MaxKeys
    BY DEF KeysInv, E
  <2> QED BY <1>6, <2>2, <2>3, ConstantTypes
<1>8. CASE key \in D \/ key = Overflow
  <2>1. E' \ {Overflow} = D \ {Overflow}
    BY <1>3, <1>8
  <2> QED BY <1>5, <1>7, <2>1 DEF KeysInv
<1>9. CASE key \notin D /\ key # Overflow
  <2>1. key = c /\ ~(Cardinality(D) >= MaxKeys)
    BY <1>1, <1>9, BucketIsKey
  <2>2. E' \ {Overflow} = (D \ {Overflow}) \cup {key} /\ key \notin D \ {Overflow}
    BY <1>3, <1>9
  <2>3. Cardinality(E' \ {Overflow}) = Cardinality(D \ {Overflow}) + 1
    BY <1>6, <2>2, FS_AddElement
  <2>4. Cardinality(E' \ {Overflow}) <= MaxKeys
    <3> HIDE DEF D, E
    <3> QED BY <1>4, <1>6, <2>1, <2>3, ConstantTypes
  <2> QED BY <1>5, <2>4 DEF KeysInv
<1> QED BY <1>8, <1>9

LEMMA StepBuckets ==
  ASSUME Clocks, KeysInv, BucketInv, NEW key \in Key, NEW st,
         Bucketful(st), Past(st, now), Len(st) > 0, st[Len(st)] > NewCleanup - Window,
         requests' = WithStamps(key, st), Cleanup, now' = now
  PROVE  Clocks' /\ BucketInv'
<1>1. lastCleanup' = NewCleanup /\ NewCleanup \in 0..now /\ Clocks'
  BY ConstantTypes DEF Clocks, Cleanup, NewCleanup
<1>2. ASSUME NEW l \in Key PROVE BucketOK(l)'
  <2>1. /\ Held(l)' = IF l = key THEN st ELSE Left(l)
        /\ DOMAIN requests' = DOMAIN Cleaned \cup {key}
    BY HeldNext
  <2>2. CASE l = key
    BY <1>1, <2>1, <2>2 DEF BucketOK
  <2>3. CASE l # key
    <3>1. Held(l)' = Left(l) /\ (l \in DOMAIN requests' => l \in DOMAIN Cleaned)
      BY <2>1, <2>3
    <3>2. /\ Left(l) \in Seq(Nat) /\ Trims(Held(l), Left(l), now - Window)
          /\ l \in DOMAIN Cleaned =>
                Len(Left(l)) > 0 /\ Left(l)[Len(Left(l))] > NewCleanup - Window
      BY CleanedLeaves DEF LeftOK
    <3>3. Held(l) \in Seq(Nat) /\ Ordered(Held(l)) /\ Len(Held(l)) <= Limit /\ Past(Held(l), now)
      BY DEF BucketInv, BucketOK, Bucketful
    <3>4. now - Window \in Int
      BY ConstantTypes DEF Clocks
    <3>5. /\ Len(Left(l)) <= Len(Held(l)) /\ Ordered(Left(l))
          /\ \A i \in 1..Len(Left(l)) : \E j \in 1..Len(Held(l)) : Left(l)[i] = Held(l)[j]
      BY <3>2, <3>3, <3>4, TrimsKeeps
    <3>6. Past(Left(l), now)
      BY <3>3, <3>5 DEF Past
    <3>7. Len(Left(l)) <= Limit
      <4>1. Len(Left(l)) \in Nat /\ Len(Held(l)) \in Nat
        BY <3>2, <3>3, LenProperties
      <4> QED BY <3>3, <3>5, <4>1, ConstantTypes
    <3>8. Bucketful(Left(l))
      BY <3>2, <3>5, <3>7 DEF Bucketful
    <3> QED BY <1>1, <3>1, <3>2, <3>6, <3>8 DEF BucketOK
  <2> QED BY <2>2, <2>3
<1> QED BY <1>1, <1>2 DEF BucketInv

LEMMA TrimmedCounts ==
  ASSUME Clocks, NEW k \in Key, BucketOK(k), Counts(k, Held(k)), Seen(k, Held(k)),
         NEW h \in Seq(Nat), Trims(Held(k), h, now - Window)
  PROVE  Counts(k, h) /\ Seen(k, h)
<1>1. Held(k) \in Seq(Nat) /\ now - Window \in Int
  BY ConstantTypes DEF Clocks, BucketOK, Bucketful
<1>2. ASSUME NEW t \in Int, t >= now - Window
      PROVE Cardinality(PassedSince(k, t)) = Cardinality(Later(h, t))
  <2>1. Cardinality(Later(h, t)) = Cardinality(Later(Held(k), t))
    BY <1>1, <1>2, TrimsCounts
  <2> QED BY <1>2, <2>1 DEF Counts
<1>3. ASSUME NEW i \in 1..Len(h), h[i] > now - 2 * Window PROVE Known(k, h[i])
  <2>1. PICK j \in 1..Len(Held(k)) : h[i] = Held(k)[j]
    BY <1>1, TrimsKeeps
  <2> QED BY <1>3, <2>1 DEF Seen
<1> QED BY <1>2, <1>3 DEF Counts, Seen

LEMMA TrimmedTold ==
  ASSUME Clocks, NEW d \in Client, BucketOK(d), HistoryTypes, ToldRight(d), told[d] # Nothing,
         NEW h \in Seq(Nat), Trims(Held(d), h, now - Window)
  PROVE  /\ Len(h) = Limit => h = Held(d) /\ Full(d)
         /\ told[d].retry > 1 /\ now < Back(d) => h = Held(d) /\ Full(d) /\ Fresh(Held(d), now - Window)
<1>1. /\ Held(d) \in Seq(Nat) /\ Ordered(Held(d)) /\ Len(Held(d)) \in Nat
      /\ Len(Held(d)) <= Limit /\ now \in Nat /\ now - Window \in Int /\ Len(h) \in Nat
  BY ConstantTypes, LenProperties DEF Clocks, BucketOK, Bucketful
<1>2. /\ Len(h) <= Len(Held(d)) /\ (Len(h) = Len(Held(d)) => h = Held(d))
      /\ (Fresh(Held(d), now - Window) => h = Held(d))
  BY <1>1, TrimsKeeps
<1>3. Len(h) = Limit => Len(h) = Len(Held(d))
  BY <1>1, <1>2, ConstantTypes
<1>4. ASSUME told[d].retry > 1, now < Back(d) PROVE Full(d) /\ Fresh(Held(d), now - Window)
  <2>1. Full(d) /\ Back(d) <= Expiry(d)
    BY <1>4 DEF ToldRight
  <2>2. told[d].at \in Nat /\ told[d].retry \in Nat /\ told[d].retry * TicksPerSecond \in Nat
    <3>1. told[d] \in [at : Nat, retry : Nat]
      BY DEF HistoryTypes
    <3>2. told[d].at \in Nat /\ told[d].retry \in Nat
      BY <3>1
    <3> QED BY <3>2, ConstantTypes
  <2>3. 1 \in 1..Len(Held(d)) /\ Held(d)[1] \in Nat
    <3>1. 1 \in 1..Len(Held(d))
      BY <1>1, <2>1, ConstantTypes DEF Full
    <3> QED BY <1>1, <3>1, ElementOfSeq
  <2>4. Back(d) \in Nat /\ now < Held(d)[1] + Window
    <3>1. Back(d) \in Nat
      BY <2>2 DEF Back
    <3> QED BY <1>1, <1>4, <2>1, <2>3, <3>1, ConstantTypes DEF Expiry
  <2>5. ASSUME NEW i \in 1..Len(Held(d)) PROVE Held(d)[i] > now - Window
    <3>1. Held(d)[i] \in Nat
      BY <1>1, ElementOfSeq
    <3>2. Held(d)[1] <= Held(d)[i]
      BY <1>1, <2>3, <3>1 DEF Ordered
    <3> QED BY <1>1, <2>3, <2>4, <3>1, <3>2, ConstantTypes
  <2> QED BY <2>1, <2>5 DEF Fresh
<1> QED BY <1>2, <1>3, <1>4 DEF Full
-----------------------------------------------------------------------------
(* Every step preserves the invariant                                       *)

LEMMA Division ==
  ASSUME NEW a \in Int, NEW b \in Nat, b > 0
  PROVE  a \div b \in Int /\ (a \div b) * b <= a /\ a < (a \div b) * b + b
OBVIOUS

LEMMA RetryIsWindow ==
  ASSUME now \in Nat, NEW st \in Seq(Nat), Len(st) > 0
  PROVE  LET retry == RetryAfter(st)
         IN  /\ retry \in Nat
             /\ st[1] + Window < now + retry * TicksPerSecond + TicksPerSecond
             /\ retry > 1 => now + retry * TicksPerSecond <= st[1] + Window
<1> DEFINE a == Window - (now - st[1])
           q == a \div TicksPerSecond
           retry == RetryAfter(st)
<1>1. st[1] \in Nat
  <2>1. Len(st) \in Nat
    BY LenProperties
  <2>2. 1 \in 1..Len(st)
    BY <2>1
  <2> QED BY <2>2, ElementOfSeq
<1>2. a \in Int /\ st[1] + Window = now + a
  BY <1>1, ConstantTypes
<1>3. q \in Int /\ q * TicksPerSecond <= a /\ a < q * TicksPerSecond + TicksPerSecond
  <2> HIDE DEF a
  <2> QED BY <1>2, ConstantTypes, Division
<1>4. retry = IF q < 1 THEN 1 ELSE q
  BY DEF RetryAfter
<1> HIDE DEF a, q, retry
<1>5. retry \in Nat
  BY <1>3, <1>4
<1>6. CASE q < 1
  <2>1. retry = 1 /\ retry * TicksPerSecond = TicksPerSecond
    BY <1>4, <1>6, ConstantTypes
  <2>2. q * TicksPerSecond <= 0
    BY <1>3, <1>6, ConstantTypes
  <2>3. a < TicksPerSecond
    BY <1>2, <1>3, <2>2, ConstantTypes
  <2> QED BY <1>2, <1>5, <2>1, <2>3, ConstantTypes DEF retry
<1>7. CASE ~(q < 1)
  <2>1. retry = q
    BY <1>4, <1>7
  <2>2. q * TicksPerSecond \in Int
    BY <1>3, ConstantTypes
  <2>3. /\ now + a < now + q * TicksPerSecond + TicksPerSecond
        /\ now + q * TicksPerSecond <= now + a
    <3> DEFINE m == q * TicksPerSecond
    <3> HIDE DEF m
    <3>1. m \in Int /\ m <= a /\ a < m + TicksPerSecond
      BY <1>3, <2>2 DEF m
    <3>2. now + a < now + m + TicksPerSecond /\ now + m <= now + a
      BY <1>2, <3>1, ConstantTypes
    <3> QED BY <3>2 DEF m
  <2> QED BY <1>2, <1>5, <2>1, <2>3 DEF retry
<1> QED BY <1>6, <1>7

LEMMA OthersTold ==
  ASSUME Inv, NEW c \in Client, NEW d \in Client, d # c, NEW st,
         requests' = WithStamps(Bucket(c), st), told'[d] = told[d], now' = now
  PROVE  ToldRight(d)'
<1>1. d \in Key /\ Bucket(c) \in Key /\ d # Bucket(c)
  <2>1. Bucket(c) \in Key /\ Bucket(c) \in {c, Overflow}
    BY BucketIsKey
  <2> QED BY <2>1, ConstantTypes DEF Key
<1>2. Held(d)' = Left(d)
  BY <1>1, HeldNext
<1>3. Left(d) \in Seq(Nat) /\ Trims(Held(d), Left(d), now - Window)
  BY <1>1, CleanedLeaves DEF LeftOK, Inv
<1>4. CASE told[d] = Nothing
  BY <1>4 DEF ToldRight
<1>5. CASE told[d] # Nothing
  <2>1. /\ Len(Left(d)) = Limit => Left(d) = Held(d) /\ Full(d)
        /\ told[d].retry > 1 /\ now < Back(d) => Left(d) = Held(d) /\ Full(d)
    BY <1>1, <1>3, <1>5, TrimmedTold DEF Inv, BucketInv, ToldInv
  <2>2. /\ Full(d) => /\ Expiry(d) < Back(d) + TicksPerSecond
                      /\ told[d].retry > 1 => Back(d) <= Expiry(d)
        /\ told[d].retry > 1 /\ now < Back(d) => Full(d)
    BY <1>5 DEF Inv, ToldInv, ToldRight
  <2>3. Back(d)' = Back(d) /\ told'[d].retry = told[d].retry
    BY DEF Back
  <2>4. Full(d)' => Full(d) /\ Expiry(d)' = Expiry(d)
    BY <1>2, <2>1 DEF Full, Expiry
  <2>5. told[d].retry > 1 /\ now < Back(d) => Full(d)'
    BY <1>2, <2>1 DEF Full
  <2> QED BY <2>2, <2>3, <2>4, <2>5 DEF ToldRight
<1> QED BY <1>4, <1>5

(* What a call leaves in the buckets counts and is known as before.            *)
LEMMA LeftCounts ==
  ASSUME Inv, NEW k \in Key
  PROVE  /\ Counts(k, Left(k)) /\ Seen(k, Left(k))
         /\ Counts(k, Stamps(k)) /\ Seen(k, Stamps(k))
<1>1. /\ Clocks /\ KeysInv /\ BucketInv /\ BucketOK(k)
      /\ Counts(k, Held(k)) /\ Seen(k, Held(k))
  BY DEF Inv, BucketInv, CountInv, SeenInv
<1>2. Left(k) \in Seq(Nat) /\ Trims(Held(k), Left(k), now - Window)
  BY <1>1, CleanedLeaves DEF LeftOK
<1>3. Stamps(k) \in Seq(Nat) /\ Trims(Held(k), Stamps(k), now - Window)
  BY <1>1, StampsLeft DEF StampsOK
<1> QED BY <1>1, <1>2, <1>3, TrimmedCounts

(* The stamps a call finds are a bucket's, the last of them beyond the cutoff.  *)
LEMMA StampsBucketful ==
  ASSUME Inv, NEW k \in Key
  PROVE  /\ Bucketful(Stamps(k)) /\ Past(Stamps(k), now) /\ Len(Stamps(k)) \in Nat
         /\ Len(Stamps(k)) > 0 => Stamps(k)[Len(Stamps(k))] > NewCleanup - Window
<1>1. /\ Held(k) \in Seq(Nat) /\ Ordered(Held(k)) /\ Len(Held(k)) <= Limit
      /\ Past(Held(k), now) /\ now \in Nat /\ lastCleanup \in 0..now /\ now - Window \in Int
  BY ConstantTypes DEF Inv, Clocks, BucketInv, BucketOK, Bucketful
<1>2. /\ Stamps(k) \in Seq(Nat) /\ Trims(Held(k), Stamps(k), now - Window)
      /\ Fresh(Stamps(k), now - Window)
  BY StampsLeft DEF StampsOK, Inv
<1>3. /\ Len(Stamps(k)) <= Len(Held(k)) /\ Ordered(Stamps(k))
      /\ \A i \in 1..Len(Stamps(k)) : \E j \in 1..Len(Held(k)) : Stamps(k)[i] = Held(k)[j]
  BY <1>1, <1>2, TrimsKeeps
<1>4. Len(Stamps(k)) \in Nat /\ Len(Held(k)) \in Nat
  BY <1>1, <1>2, LenProperties
<1>5. Past(Stamps(k), now)
  BY <1>1, <1>3 DEF Past
<1>6. Len(Stamps(k)) <= Limit
  BY <1>1, <1>3, <1>4, ConstantTypes
<1>7. ASSUME Len(Stamps(k)) > 0 PROVE Stamps(k)[Len(Stamps(k))] > NewCleanup - Window
  <2>1. Len(Stamps(k)) \in 1..Len(Stamps(k))
    BY <1>4, <1>7
  <2>2. Stamps(k)[Len(Stamps(k))] > now - Window /\ Stamps(k)[Len(Stamps(k))] \in Nat
    BY <1>2, <2>1, ElementOfSeq DEF Fresh
  <2>3. NewCleanup \in Nat /\ NewCleanup <= now
    BY <1>1 DEF NewCleanup
  <2> QED BY <1>1, <2>2, <2>3, ConstantTypes
<1> QED BY <1>2, <1>3, <1>4, <1>5, <1>6, <1>7 DEF Bucketful
(* A key's bucket stays a bucket when the present is appended below the limit.  *)
LEMMA AppendBucketful ==
  ASSUME now \in Nat, NEW s, Bucketful(s), Past(s, now), Len(s) < Limit
  PROVE  LET q == Append(s, now)
         IN  /\ Bucketful(q) /\ Past(q, now) /\ Len(q) = Len(s) + 1 /\ Len(q) > 0
             /\ q[Len(q)] = now /\ \A i \in 1..Len(s) : q[i] = s[i]
<1> DEFINE q == Append(s, now)
<1>1. s \in Seq(Nat) /\ Len(s) \in Nat /\ Ordered(s)
  BY LenProperties DEF Bucketful
<1>2. /\ q \in Seq(Nat) /\ Len(q) = Len(s) + 1 /\ q[Len(s) + 1] = now
      /\ \A i \in 1..Len(s) : q[i] = s[i]
  BY <1>1
<1> HIDE DEF q
<1>3. ASSUME NEW i \in 1..Len(q) PROVE q[i] \in Nat /\ q[i] <= now
  <2>1. CASE i \in 1..Len(s)
    <3>1. q[i] = s[i] /\ s[i] <= now
      BY <1>2, <2>1 DEF Past
    <3> QED BY <1>2, <3>1, ElementOfSeq
  <2>2. CASE i = Len(s) + 1
    BY <1>2, <2>2
  <2> QED BY <1>1, <1>2, <2>1, <2>2
<1>4. ASSUME NEW i \in 1..Len(q), NEW j \in 1..Len(q), i < j PROVE q[i] <= q[j]
  <2>1. i \in 1..Len(s) /\ (j \in 1..Len(s) \/ j = Len(s) + 1)
    BY <1>1, <1>2, <1>4
  <2>2. CASE j \in 1..Len(s)
    BY <1>1, <1>2, <1>4, <2>1, <2>2 DEF Ordered
  <2>3. CASE j = Len(s) + 1
    BY <1>2, <1>3, <2>3
  <2> QED BY <2>1, <2>2, <2>3
<1>5. Len(q) <= Limit
  BY <1>1, <1>2, ConstantTypes
<1> QED BY <1>1, <1>2, <1>3, <1>4, <1>5 DEF q, Bucketful, Ordered, Past

LEMMA TogetherFinite ==
  ASSUME HistoryTypes, NEW m
  PROVE  IsFiniteSet(Together(m)) /\ Cardinality(Together(m)) \in Nat
<1>1. Together(m) \subseteq served /\ IsFiniteSet(served)
  BY DEF Together, HistoryTypes
<1> QED BY <1>1, FS_Subset, FS_CardinalityType

(* The new entry of the history is not there yet.                            *)
LEMMA ServedIsNew ==
  ASSUME HistoryTypes, NumberInv, now \in Nat, NEW key \in Key
  PROVE  LET m == Served(key)
         IN  /\ m \notin served /\ m \in [key : Key, at : Nat, n : Nat]
             /\ m.key = key /\ m.at = now /\ m.n = Cardinality(Together(m))
<1> DEFINE m == Served(key)
           same == {l \in served : l.key = key /\ l.at = now}
<1>1. m = [key |-> key, at |-> now, n |-> Cardinality(same)]
  BY DEF Served
<1>2. m.key = key /\ m.at = now /\ m.n = Cardinality(same)
  BY <1>1
<1>3. Together(m) = same
  BY <1>2 DEF Together
<1>4. Cardinality(same) \in Nat
  BY <1>3, TogetherFinite
<1>5. m \in [key : Key, at : Nat, n : Nat]
  BY <1>1, <1>4
<1>6. m \notin served
  <2> SUFFICES ASSUME m \in served PROVE FALSE
    OBVIOUS
  <2>1. m.n < Cardinality(Together(m))
    BY DEF NumberInv
  <2> HIDE DEF m, same
  <2> QED BY <1>2, <1>3, <1>4, <2>1
<1> HIDE DEF same
<1> QED BY <1>2, <1>3, <1>5, <1>6

LEMMA ServedHistory ==
  ASSUME Inv, NEW key \in Key, served' = served \cup {Served(key)}, now' = now
  PROVE  /\ NumberInv'
         /\ served' \subseteq [key : Key, at : Nat, n : Nat] /\ IsFiniteSet(served')
         /\ \A m \in served' : m.at <= now
<1> DEFINE new == Served(key)
<1>1. now \in Nat /\ HistoryTypes /\ NumberInv
  BY ConstantTypes DEF Inv, Clocks
<1>2. /\ new \notin served /\ new \in [key : Key, at : Nat, n : Nat]
      /\ new.key = key /\ new.at = now /\ new.n = Cardinality(Together(new))
  BY <1>1, ServedIsNew
<1> HIDE DEF new
<1>3. served' = served \cup {new}
  BY DEF new
<1>4. ASSUME NEW m \in served' PROVE m.n < Cardinality(Together(m)')
  <2>1. IsFiniteSet(Together(m)) /\ Cardinality(Together(m)) \in Nat
    BY <1>1, TogetherFinite
  <2>2. new \notin Together(m)
    BY <1>2 DEF Together
  <2>3. CASE new.key = m.key /\ new.at = m.at
    <3>1. Together(m)' = Together(m) \cup {new}
      BY <1>3, <2>3 DEF Together
    <3>2. Cardinality(Together(m)') = Cardinality(Together(m)) + 1
      BY <2>1, <2>2, <3>1, FS_AddElement
    <3>3. CASE m = new
      BY <1>2, <2>1, <3>2, <3>3
    <3>4. CASE m \in served
      <4>1. m.n < Cardinality(Together(m)) /\ m.n \in Nat
        BY <1>1, <3>4 DEF NumberInv, HistoryTypes
      <4> QED BY <2>1, <3>2, <4>1
    <3> QED BY <1>3, <3>3, <3>4
  <2>4. CASE ~(new.key = m.key /\ new.at = m.at)
    <3>1. Together(m)' = Together(m) /\ m \in served
      BY <1>3, <2>4 DEF Together
    <3> QED BY <1>1, <3>1 DEF NumberInv
  <2> QED BY <2>3, <2>4
<1>5. served' \subseteq [key : Key, at : Nat, n : Nat] /\ IsFiniteSet(served')
  BY <1>1, <1>2, <1>3, FS_AddElement DEF HistoryTypes
<1>6. \A m \in served' : m.at <= now
  BY <1>1, <1>2, <1>3 DEF HistoryTypes
<1> QED BY <1>4, <1>5, <1>6 DEF NumberInv
LEMMA AdmitCounts ==
  ASSUME Inv, NEW key \in Key, requests' = WithStamps(key, Append(Stamps(key), now)),
         served' = served \cup {Served(key)}, now' = now
  PROVE  CountInv'
<1> DEFINE new == Served(key)
           st == Stamps(key)
<1>1. now \in Nat /\ HistoryTypes /\ NumberInv /\ now - Window \in Int
  BY ConstantTypes DEF Inv, Clocks
<1>2. new \notin served /\ new.key = key /\ new.at = now
  BY <1>1, ServedIsNew
<1>3. st \in Seq(Nat)
  BY StampsBucketful DEF Bucketful
<1> HIDE DEF new
<1>4. served' = served \cup {new}
  BY DEF new
<1>5. ASSUME NEW k \in Key, NEW t \in Int, t >= now - Window
      PROVE Cardinality(PassedSince(k, t)') = Cardinality(Later(Held(k)', t))
  <2>1. CASE k # key
    <3>1. PassedSince(k, t)' = PassedSince(k, t)
      BY <1>2, <1>4, <2>1 DEF PassedSince
    <3>2. Held(k)' = Left(k)
      BY <2>1, HeldNext
    <3>3. Counts(k, Left(k))
      BY LeftCounts
    <3> QED BY <1>5, <3>1, <3>2, <3>3 DEF Counts
  <2>2. CASE k = key
    <3>1. Held(k)' = Append(st, now)
      BY <2>2, HeldNext
    <3>2. Cardinality(PassedSince(k, t)) = Cardinality(Later(st, t))
      BY <1>5, <2>2, LeftCounts DEF Counts
    <3>3. Cardinality(Later(Append(st, now), t)) =
             Cardinality(Later(st, t)) + (IF now > t THEN 1 ELSE 0)
      BY <1>1, <1>3, LaterOfAppend
    <3>4. Cardinality(Later(st, t)) \in Nat
      BY <1>3, LaterIsFinite
    <3>5. CASE now > t
      <4>1. PassedSince(k, t)' = PassedSince(k, t) \cup {new} /\ new \notin PassedSince(k, t)
        BY <1>2, <1>4, <2>2, <3>5 DEF PassedSince
      <4>2. IsFiniteSet(PassedSince(k, t))
        <5>1. PassedSince(k, t) \subseteq served /\ IsFiniteSet(served)
          BY <1>1 DEF PassedSince, HistoryTypes
        <5> QED BY <5>1, FS_Subset
      <4>3. Cardinality(PassedSince(k, t)') = Cardinality(PassedSince(k, t)) + 1
        BY <4>1, <4>2, FS_AddElement
      <4> QED BY <3>1, <3>2, <3>3, <3>5, <4>3
    <3>6. CASE ~(now > t)
      <4>1. PassedSince(k, t)' = PassedSince(k, t)
        BY <1>2, <1>4, <3>6 DEF PassedSince
      <4> QED BY <3>1, <3>2, <3>3, <3>4, <3>6, <4>1
    <3> QED BY <3>5, <3>6
  <2> QED BY <2>1, <2>2
<1>6. ASSUME NEW k \in Key PROVE Counts(k, Held(k))'
  BY <1>5 DEF Counts
<1> QED BY <1>6 DEF CountInv

LEMMA AdmitSeen ==
  ASSUME Inv, NEW key \in Key, requests' = WithStamps(key, Append(Stamps(key), now)),
         served' = served \cup {Served(key)}, now' = now, Len(Stamps(key)) < Limit
  PROVE  SeenInv'
<1> DEFINE new == Served(key)
           st == Stamps(key)
           q == Append(st, now)
<1>1. now \in Nat /\ HistoryTypes /\ NumberInv
  BY ConstantTypes DEF Inv, Clocks
<1>2. new.key = key /\ new.at = now
  BY <1>1, ServedIsNew
<1>3. Bucketful(st) /\ Past(st, now) /\ Len(st) \in Nat
  BY StampsBucketful
<1>4. Len(q) = Len(st) + 1 /\ q[Len(q)] = now /\ \A i \in 1..Len(st) : q[i] = st[i]
  BY <1>1, <1>3, AppendBucketful
<1> HIDE DEF new, q
<1>5. served' = served \cup {new}
  BY DEF new
<1>6. \A k, t : Known(k, t) => Known(k, t)'
  BY <1>5 DEF Known
<1>8. ASSUME NEW k \in Key PROVE Seen(k, Held(k))'
  <2>1. CASE k # key
    <3>1. Held(k)' = Left(k)
      BY <2>1, HeldNext
    <3>2. Seen(k, Left(k))
      BY LeftCounts
    <3> QED BY <1>6, <3>1, <3>2 DEF Seen
  <2>2. CASE k = key
    <3>1. Held(k)' = q
      BY <2>2, HeldNext DEF q
    <3>2. ASSUME NEW i \in 1..Len(q), NEW v, v = q[i], v > now - 2 * Window
          PROVE Known(key, v)'
      <4>1. CASE i = Len(q)
        <5>1. v = now
          BY <1>4, <3>2, <4>1
        <5>2. \E m \in served' : m.key = key /\ m.at = v
          BY <1>2, <1>5, <5>1
        <5> QED BY <5>2 DEF Known
      <4>2. CASE i # Len(q)
        <5>1. i \in 1..Len(st) /\ q[i] = st[i]
          BY <1>3, <1>4, <4>2
        <5>2. Seen(key, st)
          BY LeftCounts
        <5>3. Known(key, v)
          BY <3>2, <5>1, <5>2 DEF Seen
        <5> QED BY <1>6, <5>3
      <4> QED BY <4>1, <4>2
    <3>3. PICK h : h = q
      OBVIOUS
    <3>4. \A i \in 1..Len(h) : h[i] > now - 2 * Window => Known(key, h[i])'
      BY <3>2, <3>3
    <3>5. Held(k)' = h
      BY <3>1, <3>3
    <3> QED BY <2>2, <3>4, <3>5 DEF Seen
  <2> QED BY <2>1, <2>2
<1> QED BY <1>8 DEF SeenInv

(* A client that passed, or was refused in the shared bucket, or was too       *)
(* large, was told nothing.                                                 *)
LEMMA ToldType ==
  ASSUME Inv, NEW c \in Client, NEW a, a \in [at : Nat, retry : Nat], a.at <= now,
         told' = [told EXCEPT ![c] = a]
  PROVE  /\ told' \in [Client -> [at : Nat, retry : Nat]]
         /\ \A d \in Client : told'[d].at <= now
         /\ told'[c] = a /\ \A d \in Client : d # c => told'[d] = told[d]
<1>1. /\ told \in [Client -> [at : Nat, retry : Nat]]
      /\ \A d \in Client : told[d].at <= now
  BY DEF Inv, HistoryTypes
<1>2. told'[c] = a /\ \A d \in Client : d # c => told'[d] = told[d]
  BY <1>1
<1>3. told' \in [Client -> [at : Nat, retry : Nat]]
  BY <1>1
<1> QED BY <1>1, <1>2, <1>3

LEMMA NothingType == Nothing \in [at : Nat, retry : Nat] /\ Nothing.at = 0
BY DEF Nothing

LEMMA AdmitStep ==
  ASSUME Inv, NEW c \in Client, Admit(c)
  PROVE  Inv'
<1> DEFINE key == Bucket(c)
           st == Stamps(key)
<1>1. /\ Len(st) < Limit /\ requests' = WithStamps(key, Append(st, now))
      /\ served' = served \cup {Served(key)} /\ told' = [told EXCEPT ![c] = Nothing]
      /\ Cleanup /\ now' = now
  BY DEF Admit
<1>2. key \in Key
  BY BucketIsKey
<1>3. now \in Nat /\ lastCleanup \in 0..now /\ Clocks /\ KeysInv /\ BucketInv
  BY ConstantTypes DEF Inv, Clocks
<1> HIDE DEF key
<1>4. KeysInv'
  BY <1>1, <1>3, StepKeys DEF key
<1>5. Clocks' /\ BucketInv'
  <2> DEFINE q == Append(st, now)
  <2>1. Bucketful(st) /\ Past(st, now)
    BY <1>2, StampsBucketful
  <2>2. Bucketful(q) /\ Past(q, now) /\ Len(q) > 0 /\ q[Len(q)] = now
    BY <1>1, <1>3, <2>1, AppendBucketful
  <2>3. now > NewCleanup - Window
    BY <1>3, ConstantTypes DEF NewCleanup
  <2> HIDE DEF st
  <2>4. requests' = WithStamps(key, q)
    BY <1>1
  <2> HIDE DEF q
  <2> QED BY <1>1, <1>2, <1>3, <2>2, <2>3, <2>4, StepBuckets
<1>6. CountInv' /\ SeenInv'
  BY <1>1, <1>2, AdmitCounts, AdmitSeen
<1>7. /\ NumberInv' /\ served' \subseteq [key : Key, at : Nat, n : Nat] /\ IsFiniteSet(served')
      /\ \A m \in served' : m.at <= now
  BY <1>1, <1>2, ServedHistory
<1>8. /\ told' \in [Client -> [at : Nat, retry : Nat]]
      /\ \A d \in Client : told'[d].at <= now
      /\ told'[c] = Nothing /\ \A d \in Client : d # c => told'[d] = told[d]
  <2>1. Nothing.at <= now
    BY <1>3, NothingType
  <2> QED BY <1>1, <2>1, NothingType, ToldType
<1>9. HistoryTypes'
  BY <1>1, <1>7, <1>8 DEF HistoryTypes
<1>10. ASSUME NEW d \in Client PROVE ToldRight(d)'
  <2>1. CASE d = c
    BY <1>8, <2>1 DEF ToldRight
  <2>2. CASE d # c
    BY <1>1, <1>8, <2>2, OthersTold DEF key
  <2> QED BY <2>1, <2>2
<1> QED BY <1>4, <1>5, <1>6, <1>7, <1>9, <1>10 DEF Inv, ToldInv
(* A client refused in its own bucket is told how long the bucket stays full.   *)
LEMMA RefusedTold ==
  ASSUME Inv, NEW c \in Client, Refuse(c)
  PROVE  /\ HistoryTypes' /\ ToldRight(c)'
         /\ \A d \in Client : d # c => told'[d] = told[d]
<1> DEFINE key == Bucket(c)
           st == Stamps(key)
           a == IF key = Overflow THEN Nothing ELSE [at |-> now, retry |-> RetryAfter(st)]
<1>1. /\ Len(st) >= Limit /\ requests' = WithStamps(key, st)
      /\ served' = served /\ told' = [told EXCEPT ![c] = a] /\ now' = now
  BY DEF Refuse
<1>2. key \in Key /\ key \in {c, Overflow}
  BY BucketIsKey
<1>3. now \in Nat /\ HistoryTypes
  BY ConstantTypes DEF Inv, Clocks
<1>4. Bucketful(st) /\ Len(st) \in Nat
  BY <1>2, StampsBucketful
<1>5. st \in Seq(Nat) /\ Len(st) = Limit /\ Len(st) > 0
  BY <1>1, <1>4, ConstantTypes DEF Bucketful
<1>6. /\ RetryAfter(st) \in Nat
      /\ st[1] + Window < now + RetryAfter(st) * TicksPerSecond + TicksPerSecond
      /\ RetryAfter(st) > 1 => now + RetryAfter(st) * TicksPerSecond <= st[1] + Window
  <2> HIDE DEF st
  <2> QED BY <1>3, <1>5, RetryIsWindow
<1>7. a \in [at : Nat, retry : Nat] /\ a.at <= now
  <2> HIDE DEF st
  <2> QED BY <1>3, <1>6, NothingType
<1>8. Held(c)' = IF c = key THEN st ELSE Left(c)
  BY <1>1, <1>2, HeldNext DEF Key
<1> HIDE DEF key, st, a
<1>9. /\ told' \in [Client -> [at : Nat, retry : Nat]]
      /\ \A d \in Client : told'[d].at <= now
      /\ told'[c] = a /\ \A d \in Client : d # c => told'[d] = told[d]
  BY <1>1, <1>7, ToldType
<1>10. HistoryTypes'
  BY <1>1, <1>3, <1>9 DEF HistoryTypes
<1>11. CASE key = Overflow
  <2>1. told'[c] = Nothing
    BY <1>9, <1>11 DEF a
  <2> QED BY <1>9, <1>10, <2>1 DEF ToldRight
<1>12. CASE key # Overflow
  <2>1. told'[c].at = now /\ told'[c].retry = RetryAfter(st) /\ Held(c)' = st
    BY <1>2, <1>8, <1>9, <1>12 DEF a
  <2>2. /\ Back(c)' = now + RetryAfter(st) * TicksPerSecond
        /\ Expiry(c)' = st[1] + Window /\ Full(c)'
    BY <1>5, <2>1 DEF Back, Expiry, Full
  <2> QED BY <1>6, <1>9, <1>10, <2>1, <2>2 DEF ToldRight
<1> QED BY <1>11, <1>12

LEMMA RefuseStep ==
  ASSUME Inv, NEW c \in Client, Refuse(c)
  PROVE  Inv'
<1> DEFINE key == Bucket(c)
           st == Stamps(key)
<1>1. /\ Len(st) >= Limit /\ requests' = WithStamps(key, st)
      /\ served' = served /\ Cleanup /\ now' = now
  BY DEF Refuse
<1>2. key \in Key
  BY BucketIsKey
<1>3. Clocks /\ KeysInv /\ BucketInv
  BY DEF Inv
<1>4. KeysInv'
  BY <1>1, <1>3, StepKeys
<1> HIDE DEF key
<1>5. /\ Bucketful(st) /\ Past(st, now) /\ Len(st) > 0
      /\ st[Len(st)] > NewCleanup - Window
  <2>1. /\ Bucketful(st) /\ Past(st, now) /\ Len(st) \in Nat
        /\ Len(st) > 0 => st[Len(st)] > NewCleanup - Window
    BY <1>2, StampsBucketful
  <2> HIDE DEF st
  <2> QED BY <1>1, <2>1, ConstantTypes
<1>6. Clocks' /\ BucketInv'
  <2> HIDE DEF st
  <2> QED BY <1>1, <1>2, <1>3, <1>5, StepBuckets
<1>7. ASSUME NEW k \in Key PROVE Counts(k, Held(k))' /\ Seen(k, Held(k))'
  <2>1. PICK h : h = IF k = key THEN st ELSE Left(k)
    OBVIOUS
  <2>2. Held(k)' = h
    BY <1>1, <1>2, <2>1, HeldNext
  <2>3. Counts(k, h) /\ Seen(k, h)
    BY <2>1, LeftCounts
  <2>4. Counts(k, h)'
    BY <1>1, <2>3 DEF Counts, PassedSince
  <2>5. Seen(k, h)'
    BY <1>1, <2>3 DEF Seen, Known
  <2> QED BY <2>2, <2>4, <2>5 DEF Counts, Seen
<1>8. CountInv' /\ SeenInv'
  BY <1>7 DEF CountInv, SeenInv
<1>9. NumberInv'
  BY <1>1 DEF Inv, NumberInv, Together
<1>10. HistoryTypes' /\ ToldRight(c)' /\ \A d \in Client : d # c => told'[d] = told[d]
  BY RefusedTold
<1>11. ASSUME NEW d \in Client PROVE ToldRight(d)'
  <2>1. CASE d # c
    BY <1>1, <1>10, <2>1, OthersTold DEF key
  <2> QED BY <1>10, <2>1
<1> QED BY <1>4, <1>6, <1>8, <1>9, <1>10, <1>11 DEF Inv, ToldInv

LEMMA TooLargeStep ==
  ASSUME Inv, NEW c \in Client, TooLarge(c)
  PROVE  Inv'
<1>1. told' = [told EXCEPT ![c] = Nothing] /\ UNCHANGED <<now, requests, lastCleanup, served>>
  BY DEF TooLarge
<1>2. now \in Nat
  BY ConstantTypes DEF Inv, Clocks
<1>3. /\ told' \in [Client -> [at : Nat, retry : Nat]]
      /\ \A d \in Client : told'[d].at <= now
      /\ told'[c] = Nothing /\ \A d \in Client : d # c => told'[d] = told[d]
  <2>1. Nothing.at <= now
    BY <1>2, NothingType
  <2> QED BY <1>1, <2>1, NothingType, ToldType
<1>4. HistoryTypes'
  BY <1>1, <1>3 DEF Inv, HistoryTypes
<1>5. ASSUME NEW d \in Client PROVE ToldRight(d)'
  <2>1. CASE d = c
    BY <1>3, <2>1 DEF ToldRight
  <2>2. CASE d # c
    <3>1. told'[d] = told[d] /\ ToldRight(d)
      BY <1>3, <2>2 DEF Inv, ToldInv
    <3> QED BY <1>1, <3>1 DEF ToldRight, Full, Expiry, Back, Held
  <2> QED BY <2>1, <2>2
<1>6. Clocks' /\ KeysInv'
  BY <1>1 DEF Inv, Clocks, KeysInv
<1>7. BucketInv' /\ CountInv' /\ NumberInv' /\ SeenInv'
  <2>1. \A k : Held(k)' = Held(k)
    BY <1>1 DEF Held
  <2>2. BucketInv'
    BY <1>1, <2>1 DEF Inv, BucketInv, BucketOK
  <2>3. CountInv'
    BY <1>1, <2>1 DEF Inv, CountInv, Counts, PassedSince
  <2>4. NumberInv'
    BY <1>1 DEF Inv, NumberInv, Together
  <2>5. SeenInv'
    BY <1>1, <2>1 DEF Inv, SeenInv, Seen, Known
  <2> QED BY <2>2, <2>3, <2>4, <2>5
<1> QED BY <1>4, <1>5, <1>6, <1>7 DEF Inv, ToldInv

LEMMA PassStep ==
  ASSUME Inv, Pass
  PROVE  Inv'
<1>1. /\ now < MaxTime /\ now' = now + 1
      /\ served' = {m \in served : m.at > now' - 2 * Window}
      /\ UNCHANGED <<requests, lastCleanup, told>>
  BY DEF Pass
<1>2. now \in Window..MaxTime /\ lastCleanup \in 0..now /\ now \in Nat
  BY ConstantTypes DEF Inv, Clocks
<1>3. Clocks' /\ KeysInv'
  <2>1. now + 1 \in Window..MaxTime /\ lastCleanup \in 0..(now + 1)
    BY <1>1, <1>2, ConstantTypes
  <2> QED BY <1>1, <2>1 DEF Inv, Clocks, KeysInv
<1>4. \A k : Held(k)' = Held(k)
  BY <1>1 DEF Held
<1>5. ASSUME NEW k \in Key PROVE BucketOK(k)'
  <2>1. BucketOK(k)
    BY DEF Inv, BucketInv
  <2>2. Past(Held(k), now) /\ Held(k) \in Seq(Nat)
    BY <2>1 DEF BucketOK, Bucketful
  <2>3. ASSUME NEW i \in 1..Len(Held(k)) PROVE Held(k)[i] <= now + 1
    <3>1. Held(k)[i] \in Nat /\ Held(k)[i] <= now
      BY <2>2, ElementOfSeq DEF Past
    <3> QED BY <1>2, <3>1
  <2>4. Past(Held(k), now + 1)
    BY <2>3 DEF Past
  <2> QED BY <1>1, <1>4, <2>1, <2>4 DEF BucketOK
<1>6. HistoryTypes'
  <2>1. HistoryTypes
    BY DEF Inv
  <2>2. served' \subseteq served /\ IsFiniteSet(served')
    BY <1>1, <2>1, FS_Subset DEF HistoryTypes
  <2>3. ASSUME NEW m \in served PROVE m.at <= now + 1
    <3>1. m.at \in Nat /\ m.at <= now
      BY <2>1 DEF HistoryTypes
    <3> QED BY <1>2, <3>1
  <2>4. ASSUME NEW d \in Client PROVE told[d].at <= now + 1
    <3>1. told[d] \in [at : Nat, retry : Nat] /\ told[d].at <= now
      BY <2>1 DEF HistoryTypes
    <3>2. told[d].at \in Nat
      BY <3>1
    <3> QED BY <1>2, <3>1, <3>2
  <2> QED BY <1>1, <2>1, <2>2, <2>3, <2>4 DEF HistoryTypes
<1>7. \A m \in served : m.at \in Nat /\ m.n \in Nat
  BY DEF Inv, HistoryTypes
<1>8. ASSUME NEW k \in Key, NEW t \in Int, t >= (now + 1) - Window
      PROVE Cardinality(PassedSince(k, t)') = Cardinality(Later(Held(k), t))
  <2>1. t >= now - Window /\ t >= (now + 1) - 2 * Window
    BY <1>2, <1>8, ConstantTypes
  <2>2. ASSUME NEW m \in served, m.at > t PROVE m \in served'
    <3>1. m.at > (now + 1) - 2 * Window
      BY <1>2, <1>7, <2>1, <2>2, ConstantTypes
    <3> QED BY <1>1, <3>1
  <2>3. PassedSince(k, t)' = PassedSince(k, t)
    BY <1>1, <2>2 DEF PassedSince
  <2>4. Counts(k, Held(k))
    BY DEF Inv, CountInv
  <2> QED BY <2>1, <2>3, <2>4 DEF Counts
<1>9. CountInv'
  <2>1. ASSUME NEW k \in Key PROVE Counts(k, Held(k))'
    BY <1>1, <1>4, <1>8 DEF Counts
  <2> QED BY <2>1 DEF CountInv
<1>10. ASSUME NEW m \in served' PROVE m.n < Cardinality(Together(m)')
  <2>1. m \in served /\ m.at > (now + 1) - 2 * Window
    BY <1>1
  <2>2. Together(m)' = Together(m)
    BY <1>1, <2>1 DEF Together
  <2> QED BY <2>1, <2>2 DEF Inv, NumberInv
<1>11. ASSUME NEW k \in Key, NEW i \in 1..Len(Held(k)), NEW v, v = Held(k)[i],
              v > (now + 1) - 2 * Window
       PROVE  Known(k, v)'
  <2>1. v \in Nat
    <3>1. Held(k) \in Seq(Nat)
      BY DEF Inv, BucketInv, BucketOK, Bucketful
    <3> QED BY <1>11, <3>1, ElementOfSeq
  <2>2. v > now - 2 * Window
    BY <1>2, <1>11, <2>1, ConstantTypes
  <2>3. Known(k, v)
    BY <1>11, <2>2 DEF Inv, SeenInv, Seen
  <2>4. PICK m \in served : m.key = k /\ m.at = v
    BY <2>3 DEF Known
  <2>5. m \in served'
    BY <1>1, <1>11, <2>4
  <2> QED BY <2>4, <2>5 DEF Known
<1>12. ASSUME NEW k \in Key PROVE Seen(k, Held(k))'
  <2>1. PICK h : h = Held(k)
    OBVIOUS
  <2>2. \A i \in 1..Len(h) : h[i] > (now + 1) - 2 * Window => Known(k, h[i])'
    BY <1>11, <2>1
  <2>3. Held(k)' = h
    BY <1>4, <2>1
  <2> QED BY <1>1, <2>2, <2>3 DEF Seen
<1>13. ASSUME NEW d \in Client PROVE ToldRight(d)'
  <2>1. ToldRight(d)
    BY DEF Inv, ToldInv
  <2>2. /\ Full(d)' = Full(d) /\ Expiry(d)' = Expiry(d) /\ Back(d)' = Back(d)
        /\ told' = told
    BY <1>1, <1>4 DEF Full, Expiry, Back
  <2>3. now + 1 < Back(d) => now < Back(d)
    <3>1. told[d] \in [at : Nat, retry : Nat]
      BY DEF Inv, HistoryTypes
    <3>2. told[d].at \in Nat /\ told[d].retry \in Nat
      BY <3>1
    <3>3. told[d].retry * TicksPerSecond \in Nat
      BY <3>2, ConstantTypes
    <3>4. Back(d) \in Nat
      BY <3>2, <3>3 DEF Back
    <3> QED BY <1>2, <3>4
  <2> QED BY <1>1, <2>1, <2>2, <2>3 DEF ToldRight
<1> QED BY <1>3, <1>5, <1>6, <1>9, <1>10, <1>12, <1>13 DEF Inv, BucketInv, NumberInv, SeenInv, ToldInv
LEMMA InitInv == Init => Inv
<1> SUFFICES ASSUME Init PROVE Inv
  OBVIOUS
<1>1. now = Window /\ requests = <<>> /\ lastCleanup = 0 /\ served = {}
      /\ told = [c \in Client |-> Nothing]
  BY DEF Init
<1>2. Clocks
  BY <1>1, ConstantTypes DEF Clocks
<1>3. DOMAIN requests = {}
  BY <1>1
<1>4. KeysInv
  <2>1. DOMAIN requests \ {Overflow} = {}
    BY <1>3
  <2>2. IsFiniteSet({}) /\ Cardinality({}) = 0
    BY FS_EmptySet
  <2> QED BY <1>3, <2>1, <2>2, ConstantTypes DEF KeysInv
<1>5. \A k : Held(k) = <<>> /\ k \notin DOMAIN requests
  BY <1>3 DEF Held
<1>6. BucketInv
  <2>1. Bucketful(<<>>) /\ Past(<<>>, now)
    BY EmptyBucket, ConstantTypes DEF Bucketful
  <2> QED BY <1>5, <2>1 DEF BucketInv, BucketOK
<1>7. HistoryTypes
  <2>1. \A c \in Client : told[c] = Nothing
    BY <1>1
  <2>2. IsFiniteSet({})
    BY FS_EmptySet
  <2>3. told \in [Client -> [at : Nat, retry : Nat]]
    BY <1>1, NothingType
  <2> QED BY <1>1, <2>1, <2>2, <2>3, NothingType, ConstantTypes DEF HistoryTypes
<1>8. CountInv
  <2>1. \A k, t : PassedSince(k, t) = {} /\ Later(<<>>, t) = {}
    BY <1>1, EmptyBucket DEF PassedSince, Later
  <2> QED BY <1>5, <2>1 DEF CountInv, Counts
<1>9. NumberInv /\ SeenInv
  BY <1>1, <1>5, EmptyBucket DEF NumberInv, SeenInv, Seen
<1>10. ToldInv
  BY <1>1 DEF ToldInv, ToldRight
<1> QED BY <1>2, <1>4, <1>6, <1>7, <1>8, <1>9, <1>10 DEF Inv

LEMMA StutterStep == Inv /\ UNCHANGED lvars => Inv'
<1> SUFFICES ASSUME Inv, UNCHANGED lvars PROVE Inv'
  OBVIOUS
<1>1. now' = now /\ requests' = requests /\ lastCleanup' = lastCleanup
      /\ told' = told /\ served' = served
  BY DEF lvars
<1>2. \A k : Held(k)' = Held(k)
  BY <1>1 DEF Held
<1>3. Clocks' /\ KeysInv' /\ HistoryTypes' /\ NumberInv'
  BY <1>1 DEF Inv, Clocks, KeysInv, HistoryTypes, NumberInv, Together
<1>4. BucketInv'
  BY <1>1, <1>2 DEF Inv, BucketInv, BucketOK
<1>5. CountInv'
  BY <1>1, <1>2 DEF Inv, CountInv, Counts, PassedSince
<1>6. SeenInv'
  BY <1>1, <1>2 DEF Inv, SeenInv, Seen, Known
<1>7. ToldInv'
  BY <1>1, <1>2 DEF Inv, ToldInv, ToldRight, Full, Expiry, Back
<1> QED BY <1>3, <1>4, <1>5, <1>6, <1>7 DEF Inv

(* The fields of MutationRateLimiter agree with each other and with the history  *)
(* of what was let through and refused.                                      *)
THEOREM LimiterInvariant == Spec => []Inv
<1>1. Inv /\ [Next]_lvars => Inv'
  BY AdmitStep, RefuseStep, TooLargeStep, PassStep, StutterStep DEF Next
<1> QED BY InitInv, <1>1, PTL DEF Spec

-----------------------------------------------------------------------------
(* What the limiter promises                                                *)

LEMMA InvTypes == Inv => TypeOK
<1> SUFFICES ASSUME Inv PROVE TypeOK
  OBVIOUS
<1>1. now \in 0..MaxTime /\ lastCleanup \in 0..now /\ now \in Nat
  BY ConstantTypes DEF Inv, Clocks
<1>2. DOMAIN requests \subseteq Key
  BY DEF Inv, KeysInv
<1>3. Cardinality(DOMAIN requests) <= MaxKeys + 1
  <2> DEFINE D == DOMAIN requests
             E == D \ {Overflow}
  <2>1. IsFiniteSet(D) /\ Cardinality(E) <= MaxKeys
    BY DEF Inv, KeysInv
  <2>2. IsFiniteSet(E) /\ Cardinality(E) \in Nat
    BY <2>1, FS_Subset, FS_CardinalityType
  <2>3. D \subseteq E \cup {Overflow} /\ Overflow \notin E
    OBVIOUS
  <2>4. /\ IsFiniteSet(E \cup {Overflow})
        /\ Cardinality(E \cup {Overflow}) = Cardinality(E) + 1
    BY <2>2, <2>3, FS_AddElement
  <2>5. Cardinality(D) <= Cardinality(E) + 1 /\ Cardinality(D) \in Nat
    BY <2>1, <2>3, <2>4, FS_Subset, FS_CardinalityType
  <2> HIDE DEF D, E
  <2>6. Cardinality(D) <= MaxKeys + 1
    BY <2>1, <2>2, <2>5, ConstantTypes
  <2> QED BY <2>6 DEF D
<1>4. ASSUME NEW k \in DOMAIN requests
      PROVE  /\ requests[k] \in Seq(0..now) /\ Len(requests[k]) \in 1..Limit
             /\ \A i, j \in DOMAIN requests[k] : i < j => requests[k][i] <= requests[k][j]
  <2> DEFINE s == requests[k]
  <2>1. Held(k) = s /\ BucketOK(k)
    BY <1>2 DEF Held, Inv, BucketInv
  <2> HIDE DEF s
  <2>2. /\ s \in Seq(Nat) /\ Ordered(s) /\ Len(s) <= Limit /\ Past(s, now) /\ Len(s) > 0
        /\ Len(s) \in Nat /\ DOMAIN s = 1..Len(s)
    BY <2>1, LenProperties DEF BucketOK, Bucketful
  <2>3. ASSUME NEW i \in 1..Len(s) PROVE s[i] \in 0..now
    <3>1. s[i] \in Nat /\ s[i] <= now
      BY <2>2, ElementOfSeq DEF Past
    <3> QED BY <1>1, <3>1
  <2>4. s \in Seq(0..now)
    <3>1. s \in [1..Len(s) -> 0..now]
      BY <2>2, <2>3
    <3>2. s \in UNION {[1..n -> 0..now] : n \in Nat}
      BY <2>2, <3>1, Zenon
    <3> QED BY <3>2, SeqDef, Zenon
  <2>5. Len(s) \in 1..Limit
    BY <2>2, ConstantTypes
  <2> QED BY <2>2, <2>4, <2>5 DEF s, Ordered
<1>5. ASSUME NEW c \in Client PROVE told[c].at \in 0..now /\ told[c].retry \in Nat
  <2>1. told[c] \in [at : Nat, retry : Nat] /\ told[c].at <= now
    BY DEF Inv, HistoryTypes
  <2>2. told[c].at \in Nat /\ told[c].retry \in Nat
    BY <2>1
  <2> QED BY <1>1, <2>1, <2>2
<1> QED BY <1>1, <1>2, <1>3, <1>4, <1>5 DEF TypeOK

(* Buckets hold ordered time stamps of the past, none is empty or longer than  *)
(* the limit, and there are at most MaxKeys of them and the shared one, for    *)
(* any clients, limit, window and number of keys (MutationRateLimiter.allow).  *)
THEOREM LimiterTypes == Spec => []TypeOK
BY LimiterInvariant, InvTypes, PTL

LEMMA CountsInWindow ==
  ASSUME Inv, NEW k \in Key
  PROVE  Cardinality({m \in ServedNow : m.key = k}) = Cardinality(Later(Held(k), now - Window))
<1>1. now - Window \in Int /\ now - Window >= now - Window
  BY ConstantTypes DEF Inv, Clocks
<1>2. {m \in ServedNow : m.key = k} = PassedSince(k, now - Window)
  BY DEF ServedNow, PassedSince
<1>3. Counts(k, Held(k))
  BY DEF Inv, CountInv
<1> QED BY <1>1, <1>2, <1>3 DEF Counts

LEMMA InvWindow == Inv => WindowHolds
<1> SUFFICES ASSUME Inv, NEW k \in Key
             PROVE  Cardinality({m \in ServedNow : m.key = k}) <= Limit
  BY InvTypes DEF WindowHolds
<1>1. Held(k) \in Seq(Nat) /\ Len(Held(k)) <= Limit
  BY DEF Inv, BucketInv, BucketOK, Bucketful
<1>2. Len(Held(k)) \in Nat
  BY <1>1, LenProperties
<1>3. /\ Cardinality(Later(Held(k), now - Window)) \in Nat
      /\ Cardinality(Later(Held(k), now - Window)) <= Len(Held(k))
  BY <1>1, LaterIsFinite
<1>4. Cardinality(Later(Held(k), now - Window)) <= Limit
  BY <1>1, <1>2, <1>3, ConstantTypes
<1> QED BY <1>4, CountsInWindow

(* In no window do more than Limit mutations pass through one bucket, though   *)
(* buckets are trimmed, dropped and made anew while clients come and go.       *)
THEOREM LimiterWindowHolds == Spec => []WindowHolds
BY LimiterInvariant, InvWindow, PTL

LEMMA InvCrowded == Inv => SharedWhenCrowded
<1> SUFFICES ASSUME Inv, NEW c \in Client, Bucket(c) = Overflow
             PROVE  Cardinality({m.key : m \in served}) >= MaxKeys
  BY DEF SharedWhenCrowded
<1> DEFINE D == DOMAIN Cleaned
           K == {m.key : m \in served}
           f == [m \in served |-> m.key]
<1>1. Cardinality(D) >= MaxKeys
  BY BucketIsKey
<1>2. Clocks /\ KeysInv /\ BucketInv /\ now \in Nat /\ lastCleanup \in Nat
  BY ConstantTypes DEF Inv, Clocks
<1>3. D \subseteq Key
  <2>1. Bucket(c) \in Key
    BY BucketIsKey
  <2> QED BY <1>2, <2>1, CleanedLeaves DEF KeysInv
<1>4. ASSUME NEW k \in D PROVE k \in K
  <2>1. Left(k) \in Seq(Nat) /\ Len(Left(k)) > 0 /\ Left(k)[Len(Left(k))] > NewCleanup - Window
    BY <1>2, <1>3, <1>4, CleanedLeaves DEF LeftOK
  <2>2. Len(Left(k)) \in 1..Len(Left(k))
    <3>1. Len(Left(k)) \in Nat
      BY <2>1, LenProperties
    <3> QED BY <2>1, <3>1
  <2>3. Left(k)[Len(Left(k))] \in Nat
    BY <2>1, <2>2, ElementOfSeq
  <2>4. NewCleanup \in Nat /\ NewCleanup > now - Window
    BY <1>2, ConstantTypes DEF NewCleanup, CleanupDue
  <2>5. Left(k)[Len(Left(k))] > now - 2 * Window
    BY <1>2, <2>1, <2>3, <2>4, ConstantTypes
  <2>6. Seen(k, Left(k))
    BY <1>3, LeftCounts
  <2>7. Known(k, Left(k)[Len(Left(k))])
    BY <2>2, <2>5, <2>6 DEF Seen
  <2> QED BY <2>7 DEF Known
<1>5. IsFiniteSet(K)
  <2>1. f \in [served -> K] /\ \A k \in K : \E m \in served : f[m] = k
    OBVIOUS
  <2>2. IsFiniteSet(served)
    BY DEF Inv, HistoryTypes
  <2> HIDE DEF f, K
  <2>3. f \in Surjection(served, K)
    BY <2>1 DEF Surjection
  <2> QED BY <2>2, <2>3, FS_Surjection
<1>6. D \subseteq K
  BY <1>4
<1> HIDE DEF D, K
<1>7. IsFiniteSet(D) /\ Cardinality(D) <= Cardinality(K)
  BY <1>5, <1>6, FS_Subset
<1>8. Cardinality(D) \in Nat /\ Cardinality(K) \in Nat
  BY <1>5, <1>7, FS_CardinalityType
<1>9. Cardinality(K) >= MaxKeys
  BY <1>1, <1>7, <1>8, ConstantTypes DEF D
<1> QED BY <1>9 DEF K

(* A client is only sent to the shared bucket while MaxKeys keys have let       *)
(* something pass within two windows, however rarely the clean-up runs.        *)
THEOREM LimiterSharedWhenCrowded == Spec => []SharedWhenCrowded
BY LimiterInvariant, InvCrowded, PTL

LEMMA RefusedAtLimit ==
  ASSUME Inv, NEW c \in Client, Refuse(c)
  PROVE  Cardinality({m \in ServedNow : m.key = Bucket(c)}) >= Limit
<1> DEFINE key == Bucket(c)
           st == Stamps(key)
<1>1. key \in Key /\ Len(st) >= Limit
  BY BucketIsKey DEF Refuse
<1> HIDE DEF key
<1>2. now - Window \in Int /\ now - Window >= now - Window /\ Clocks /\ KeysInv /\ BucketInv
  BY ConstantTypes DEF Inv, Clocks
<1>3. st \in Seq(Nat) /\ Trims(Held(key), st, now - Window) /\ Fresh(st, now - Window)
  BY <1>1, <1>2, StampsLeft DEF StampsOK
<1>4. Held(key) \in Seq(Nat)
  BY <1>1 DEF Inv, BucketInv, BucketOK, Bucketful
<1>5. Cardinality(Later(Held(key), now - Window)) = Len(st)
  <2>1. Cardinality(Later(st, now - Window)) = Cardinality(Later(Held(key), now - Window))
    BY <1>2, <1>3, <1>4, TrimsCounts
  <2> QED BY <1>2, <1>3, <2>1, FreshIsLater
<1>6. Cardinality({m \in ServedNow : m.key = key}) >= Limit
  BY <1>1, <1>5, CountsInWindow
<1> QED BY <1>6 DEF key

(* A refusal means that Limit mutations passed through the same bucket within   *)
(* the window: what was refused or too large is not counted (allow, dispatch).  *)
THEOREM LimiterRefusalJustified == Spec => RefusalJustified
<1>1. Inv => [\A c \in Client :
                 Refuse(c) => Cardinality({m \in ServedNow : m.key = Bucket(c)}) >= Limit]_lvars
  BY RefusedAtLimit
<1> QED BY <1>1, LimiterInvariant, PTL DEF RefusalJustified

LEMMA RetryHonest ==
  ASSUME Inv, NEW c \in Client, told[c] # Nothing
  PROVE  /\ Refuse(c) /\ now >= Back(c) + TicksPerSecond => Bucket(c) = Overflow
         /\ Admit(c) /\ told[c].retry > 1 => now >= Back(c)
<1>1. /\ now \in Nat /\ now - Window \in Int /\ Clocks /\ KeysInv /\ BucketInv
      /\ HistoryTypes /\ ToldRight(c) /\ c \in Key /\ BucketOK(c)
  BY ConstantTypes DEF Inv, Clocks, Key, ToldInv, BucketInv
<1>2. Back(c) \in Nat
  <2>1. told[c] \in [at : Nat, retry : Nat]
    BY <1>1 DEF HistoryTypes
  <2>2. told[c].at \in Nat /\ told[c].retry \in Nat
    BY <2>1
  <2>3. told[c].retry * TicksPerSecond \in Nat
    BY <2>2, ConstantTypes
  <2> QED BY <2>2, <2>3 DEF Back
<1>3. Bucket(c) \in {c, Overflow}
  BY BucketIsKey
<1>4. /\ Stamps(c) \in Seq(Nat) /\ Trims(Held(c), Stamps(c), now - Window)
      /\ Fresh(Stamps(c), now - Window)
  BY <1>1, StampsLeft DEF StampsOK
<1>5. /\ Len(Stamps(c)) = Limit => Stamps(c) = Held(c) /\ Full(c)
      /\ told[c].retry > 1 /\ now < Back(c) => Stamps(c) = Held(c) /\ Full(c)
  BY <1>1, <1>4, TrimmedTold
<1>6. ASSUME Refuse(c), now >= Back(c) + TicksPerSecond, Bucket(c) = c PROVE FALSE
  <2>1. Len(Stamps(c)) >= Limit
    BY <1>6 DEF Refuse
  <2>2. Len(Stamps(c)) = Limit
    <3>1. Bucketful(Stamps(c)) /\ Len(Stamps(c)) \in Nat
      BY <1>1, StampsBucketful
    <3>2. Len(Stamps(c)) <= Limit
      BY <3>1 DEF Bucketful
    <3> QED BY <2>1, <3>1, <3>2, ConstantTypes
  <2>3. Stamps(c) = Held(c) /\ Full(c)
    BY <1>5, <2>2
  <2>4. Expiry(c) < Back(c) + TicksPerSecond
    BY <1>1, <2>3 DEF ToldRight
  <2>5. 1 \in 1..Len(Held(c))
    BY <2>3, ConstantTypes DEF Full
  <2>6. Held(c)[1] \in Nat /\ Held(c)[1] > now - Window
    BY <1>4, <2>3, <2>5, ElementOfSeq DEF Fresh
  <2> QED BY <1>1, <1>2, <1>6, <2>4, <2>6, ConstantTypes DEF Expiry
<1>7. ASSUME Admit(c), told[c].retry > 1, now < Back(c) PROVE FALSE
  <2>1. Stamps(c) = Held(c) /\ Full(c)
    BY <1>5, <1>7
  <2>2. Bucket(c) = c
    <3>1. Left(c) \in Seq(Nat) /\ Trims(Held(c), Left(c), now - Window)
      BY <1>1, CleanedLeaves DEF LeftOK
    <3>2. Left(c) = Held(c)
      BY <1>1, <1>7, <3>1, TrimmedTold
    <3>3. Len(Left(c)) = Limit
      BY <2>1, <3>2 DEF Full
    <3>4. c \in DOMAIN Cleaned
      <4>1. Left(c) # <<>>
        BY <3>3, EmptyBucket, ConstantTypes
      <4> QED BY <4>1 DEF Left
    <3> QED BY <1>3, <3>4, BucketIsKey
  <2>3. Len(Stamps(c)) < Limit /\ Len(Stamps(c)) = Limit
    BY <1>7, <2>1, <2>2 DEF Admit, Full
  <2> QED BY <2>3, ConstantTypes
<1> QED BY <1>1, <1>2, <1>3, <1>6, <1>7

(* Retry-After is right to the second: a client that waits it out and a second  *)
(* more passes, or is in the shared bucket, and one told to wait longer than    *)
(* the least second passes no sooner (the max and int of allow).              *)
THEOREM LimiterRetryAfterHonest == Spec => RetryAfterHonest
<1>1. Inv => [\A c \in Client :
                 LET back == told[c].at + told[c].retry * TicksPerSecond
                 IN  told[c] # Nothing =>
                       /\ Refuse(c) /\ now >= back + TicksPerSecond => Bucket(c) = Overflow
                       /\ Admit(c) /\ told[c].retry > 1 => now >= back]_lvars
  BY RetryHonest DEF Back
<1> QED BY <1>1, LimiterInvariant, PTL DEF RetryAfterHonest
=============================================================================
