--------------------------- MODULE Heartbeats_proofs ---------------------------
(***************************************************************************)
(* For any instances, settings that HeartbeatAssumption allows, clocks and    *)
(* number of faults: what is said of the processors being online.            *)
(***************************************************************************)
EXTENDS Heartbeats, TLAPS

(* How old the last heartbeat may be when the next one falls due, and how long *)
(* a wait may be.                                                           *)
Due == Larger(Interval, MaxWork)
Longest == Larger(Poll, Backoff)

(* A row belongs to an instance that runs, or that was lost since.            *)
RowIsKept(i) ==
    i \in DOMAIN rows =>
        /\ instance[i].stage # "down"
        /\ instance[i].stage = "lost" => rows[i] >= instance[i].for - MaxSkew

InTime(i) ==
    instance[i].stage \in Busy /\ ~instance[i].faulty =>
        instance[i].for <= Limit(instance[i])

(* The age of a healthy instance's heartbeat on its own clock, by the stage.   *)
AgeBounded(s, age) ==
    /\ s.fresh <= age
    /\ s.stage # "writing" /\ s.due > 0 => age + s.due <= Due
    /\ s.stage = "processing" /\ s.due = 0 => age <= Due + s.for
    /\ s.stage = "waiting" /\ s.due = 0 => age <= Due + MaxWork + s.for
    /\ s.stage = "writing" => age <= Due + MaxWork + Longest + s.for

HasRow(i) ==
    LET s == instance[i]
    IN  s.stage \in Running /\ ~s.faulty /\ s.fresh # None =>
           i \in DOMAIN rows /\ AgeBounded(s, rows[i] + s.skew)

Good(i) == RowIsKept(i) /\ InTime(i) /\ HasRow(i)

Inv == TypeOK /\ \A i \in Instance : Good(i)

LEMMA Constants ==
    /\ Interval \in Nat \ {0} /\ Poll \in Nat /\ Backoff \in Nat /\ MaxWork \in Nat
    /\ MaxSkew \in Nat /\ MaxFaults \in Nat /\ Stale \in Nat
    /\ Due \in Nat /\ Longest \in Nat /\ Interval <= Due /\ MaxWork <= Due
    /\ Poll <= Longest /\ Backoff <= Longest
    /\ Old = Stale + MaxSkew + 1
    /\ Stale >= Due + Longest + 2 * MaxWork + MaxSkew
    /\ \A k \in Skew \cup {0} : k \in Int /\ -MaxSkew <= k /\ k <= MaxSkew
BY HeartbeatAssumption DEF Due, Longest, Larger, Old

LEMMA Least == 0 \in 0..Old /\ 0 \in 0..Interval /\ None \in None..Old /\ 0 \in None..Old
BY Constants DEF None

(* A step changes no row but that of i.                                     *)
OwnRow(i) ==
    /\ DOMAIN rows' \subseteq DOMAIN rows \cup {i}
    /\ rows' \in [DOMAIN rows' -> -MaxSkew..Old + MaxSkew]
    /\ \A j \in Instance \ {i} :
          /\ j \in DOMAIN rows' <=> j \in DOMAIN rows
          /\ j \in DOMAIN rows => rows'[j] = rows[j]

(* A step of one instance that leaves the rows of the others alone.           *)
LEMMA OneStep ==
    ASSUME Inv, NEW i \in Instance, NEW s \in State, Become(i, s),
           faults' \in 0..MaxFaults,
           OwnRow(i), Good(i)'
    PROVE  Inv'
<1>1. instance' = [instance EXCEPT ![i] = s]
  BY DEF Become
<1>2. TypeOK'
  BY <1>1 DEF Inv, TypeOK, OwnRow
<1>3. ASSUME NEW j \in Instance, j # i PROVE Good(j)'
  <2>1. instance'[j] = instance[j]
    BY <1>1, <1>3 DEF Inv, TypeOK
  <2>2. (j \in DOMAIN rows' <=> j \in DOMAIN rows) /\ (j \in DOMAIN rows => rows'[j] = rows[j])
    BY <1>3 DEF OwnRow
  <2>3. Good(j)
    BY DEF Inv
  <2> QED
    BY <2>1, <2>2, <2>3 DEF Good, RowIsKept, InTime, HasRow
<1> QED
  BY <1>2, <1>3 DEF Inv

(* The next stage from a state that may leave its stage.                      *)
LEMMA StagesAreStates ==
    ASSUME NEW s \in State, NEW w \in {0, Poll, Backoff}
    PROVE  /\ Down \in State
           /\ To(s, "writing") \in State /\ To(s, "processing") \in State
           /\ Waiting(s, w) \in State /\ Finally(s) \in State /\ Iterate(s) \in State
<1> USE Least DEF State, Busy, Running
<1>1. Down \in State
  BY DEF Down
<1>2. To(s, "writing") \in State
  BY DEF To
<1>3. To(s, "processing") \in State
  BY DEF To
<1>4. Waiting(s, w) \in State
  <2>1. To(s, "waiting") \in State
    BY DEF To
  <2> QED
    BY <2>1 DEF Waiting
<1>5. Finally(s) \in State
  <2>1. To(Down, "removing") \in State
    BY <1>1 DEF To
  <2> QED
    BY <2>1 DEF Finally
<1> QED
  BY <1>1, <1>2, <1>3, <1>4, <1>5 DEF Iterate

LEMMA InitInv == Init => Inv
<1> SUFFICES ASSUME Init PROVE Inv
  OBVIOUS
<1>1. Down \in State
  BY Least DEF State, Down, Busy, Running
<1>2. TypeOK
  BY <1>1, Constants DEF Init, TypeOK
<1> QED
  BY <1>2 DEF Init, Inv, Good, RowIsKept, InTime, HasRow, Down, Busy, Running

(* Where an iteration goes.                                                 *)
LEMMA Iterates ==
    ASSUME NEW s \in State
    PROVE  LET t == Iterate(s)
           IN  /\ t \in State /\ t.for = 0 /\ t.faulty = s.faulty
               /\ \/ t.stage = "removing"
                  \/ /\ t.stage = IF s.due = 0 THEN "writing" ELSE "processing"
                     /\ t.fresh = s.fresh /\ t.due = s.due /\ t.skew = s.skew
<1>1. Iterate(s) \in State
  BY StagesAreStates
<1>2. s.due \in 0..Interval
  BY DEF State
<1> QED
  BY <1>1, <1>2, Least DEF Iterate, Finally, To, Down, State

(* Whatever becomes of a transaction of i, only its row may be new or gone.    *)
LEMMA UnheardRows ==
    ASSUME Inv, NEW i \in Instance, rows' \in Unheard(i)
    PROVE  OwnRow(i)
<1>1. instance[i].for - instance[i].skew \in -MaxSkew..Old + MaxSkew
  <2>1. instance[i].for \in 0..Old /\ instance[i].skew \in Skew \cup {0}
    BY DEF Inv, TypeOK, State
  <2> QED
    BY <2>1, Constants
<1>2. rows \in [DOMAIN rows -> -MaxSkew..Old + MaxSkew]
  BY DEF Inv, TypeOK
<1>3. CASE rows' = rows
  BY <1>2, <1>3 DEF OwnRow
<1>4. CASE rows' = Written(i)
  BY <1>1, <1>2, <1>4 DEF Written, OwnRow
<1>5. CASE rows' = Removed(i)
  BY <1>2, <1>5 DEF Removed, OwnRow
<1> QED
  BY <1>3, <1>4, <1>5 DEF Unheard

-----------------------------------------------------------------------------
(* The steps *)

LEMMA StartInv ==
    ASSUME Inv, NEW i \in Instance, Start(i)
    PROVE  Inv'
<1>1. PICK skew \in Skew : Become(i, Iterate([Down EXCEPT !.skew = skew]))
  BY DEF Start
<1> DEFINE t == Iterate([Down EXCEPT !.skew = skew])
<1>2. /\ t \in State /\ t.stage = "writing" /\ t.for = 0 /\ t.fresh = None
  BY Least DEF Iterate, To, Down, State, Busy, Running
<1>3. Become(i, t) /\ instance'[i] = t
  BY <1>1 DEF Become, Inv, TypeOK
<1> HIDE DEF t
<1>4. instance[i].stage = "down" /\ rows' = rows /\ faults' = faults
  BY DEF Start, Down
<1>5. i \notin DOMAIN rows
  BY <1>4 DEF Inv, Good, RowIsKept
<1>6. Good(i)'
  BY <1>2, <1>3, <1>4, <1>5, Constants DEF Good, RowIsKept, InTime, HasRow, Limit
<1> QED
  BY <1>2, <1>3, <1>4, <1>6, OneStep DEF Inv, TypeOK, OwnRow

LEMMA WriteInv ==
    ASSUME Inv, NEW i \in Instance, Write(i)
    PROVE  Inv'
<1> DEFINE s == instance[i]
           t == [To(s, "processing") EXCEPT !.fresh = 0, !.due = Larger(0, Interval - s.for)]
<1>1. s \in State /\ s.stage = "writing" /\ s.skew \in Int
      /\ -MaxSkew <= s.skew /\ s.skew <= MaxSkew /\ s.for \in 0..Old
  BY Constants DEF Inv, TypeOK, Write, State
<1>2. Larger(0, Interval - s.for) \in 0..Interval
  BY <1>1, Constants DEF Larger
<1>3. /\ t \in State /\ t.stage = "processing" /\ t.for = 0 /\ t.fresh = 0
      /\ t.due = Larger(0, Interval - s.for)
      /\ t.skew = s.skew /\ t.faulty = s.faulty
  BY <1>1, <1>2, Least DEF To, State, Busy, Running
<1>4. Become(i, t) /\ instance'[i] = t
  BY DEF Write, Become, Inv, TypeOK
<1> HIDE DEF t
<1>5. /\ rows' = [j \in DOMAIN rows \cup {i} |-> IF j = i THEN s.for - s.skew ELSE rows[j]]
      /\ rows'[i] = s.for - s.skew
  BY DEF Write, Written
<1>6. s.for - s.skew \in -MaxSkew..Old + MaxSkew
  BY <1>1, Constants
<1>7. ~s.faulty => s.for <= MaxWork
  BY <1>1 DEF Inv, Good, InTime, Limit, Busy, Running
<1>8. RowIsKept(i)' /\ InTime(i)'
  BY <1>3, <1>4, Constants DEF RowIsKept, InTime, Limit
<1>9. ~t.faulty => AgeBounded(t, s.for)
  BY <1>1, <1>3, <1>7, Constants DEF AgeBounded, Larger
<1>10. s.for = (s.for - s.skew) + t.skew
  BY <1>1, <1>3, Constants
<1>11. HasRow(i)'
  BY <1>4, <1>5, <1>9, <1>10 DEF HasRow
<1>12. OwnRow(i)
  BY <1>5, <1>6 DEF Inv, TypeOK, OwnRow
<1> QED
  BY <1>3, <1>4, <1>5, <1>8, <1>11, <1>12, OneStep DEF Good, Write, Inv, TypeOK

LEMMA FailWriteInv ==
    ASSUME Inv, NEW i \in Instance, FailWrite(i)
    PROVE  Inv'
<1> DEFINE t == [Waiting(instance[i], Backoff) EXCEPT !.faulty = TRUE]
<1>1. instance[i] \in State
  BY DEF Inv, TypeOK
<1>2. t \in State /\ t.stage = "waiting" /\ t.faulty
  <2>1. Waiting(instance[i], Backoff) \in State /\ Waiting(instance[i], Backoff).stage = "waiting"
    BY <1>1, StagesAreStates DEF Waiting, To, State
  <2> QED
    BY <2>1 DEF State
<1>3. Become(i, t) /\ instance'[i] = t /\ rows' \in Unheard(i)
  BY DEF FailWrite, Become, Inv, TypeOK
<1> HIDE DEF t
<1>4. faults' \in 0..MaxFaults
  <2>1. faults \in 0..MaxFaults /\ faults < MaxFaults /\ faults' = faults + 1
    BY DEF FailWrite, Fault, Inv, TypeOK
  <2> QED
    BY <2>1, Constants
<1>5. Good(i)'
  BY <1>2, <1>3 DEF Good, RowIsKept, InTime, HasRow
<1>6. OwnRow(i)
  BY <1>3, UnheardRows
<1> QED
  BY <1>2, <1>3, <1>4, <1>5, <1>6, OneStep

LEMMA ProcessInv ==
    ASSUME Inv, NEW i \in Instance, Process(i)
    PROVE  Inv'
<1> DEFINE s == instance[i]
<1>1. s \in State /\ s.stage = "processing" /\ rows' = rows /\ faults' = faults
  BY DEF Inv, TypeOK, Process
<1>2. s.for \in 0..Old /\ s.due \in 0..Interval /\ s.fresh \in None..Old /\ s.skew \in Int
  BY <1>1, Constants DEF State
<1>3. ~s.faulty => s.for <= MaxWork
  BY <1>1 DEF Inv, Good, InTime, Limit, Busy, Running
<1>4. HasRow(i)
  BY DEF Inv, Good
<1>5. i \in DOMAIN rows => rows[i] \in Int
  BY Constants DEF Inv, TypeOK
<1>6. CASE Become(i, Iterate(s))
  <2> DEFINE t == Iterate(s)
  <2>1. /\ t \in State /\ t.for = 0 /\ t.faulty = s.faulty
        /\ \/ t.stage = "removing"
           \/ /\ t.stage = IF s.due = 0 THEN "writing" ELSE "processing"
              /\ t.fresh = s.fresh /\ t.due = s.due /\ t.skew = s.skew
    BY <1>1, Iterates
  <2>2. Become(i, t) /\ instance'[i] = t
    BY <1>6 DEF Become, Inv, TypeOK
  <2> HIDE DEF t
  <2>3. RowIsKept(i)' /\ InTime(i)'
    BY <2>1, <2>2, Constants DEF RowIsKept, InTime, Limit
  <2>4. HasRow(i)'
    BY <1>1, <1>2, <1>3, <1>4, <1>5, <2>1, <2>2, Constants
    DEF HasRow, AgeBounded, Running
  <2> QED
    BY <1>1, <2>1, <2>2, <2>3, <2>4, OneStep DEF Good, Inv, TypeOK, OwnRow
<1>7. ASSUME NEW w \in {Poll, Backoff}, Become(i, Waiting(s, w))
      PROVE  Inv'
  <2> DEFINE t == Waiting(s, w)
  <2>1. /\ t \in State /\ t.stage = "waiting" /\ t.for = 0 /\ t.wait = w
        /\ t.faulty = s.faulty /\ t.fresh = s.fresh /\ t.due = s.due /\ t.skew = s.skew
    BY <1>1, StagesAreStates DEF Waiting, To, State
  <2>2. Become(i, t) /\ instance'[i] = t
    BY <1>7 DEF Become, Inv, TypeOK
  <2> HIDE DEF t
  <2>3. RowIsKept(i)' /\ InTime(i)'
    BY <2>1, <2>2, Constants DEF RowIsKept, InTime, Limit
  <2>4. HasRow(i)'
    BY <1>1, <1>2, <1>3, <1>4, <1>5, <2>1, <2>2, Constants
    DEF HasRow, AgeBounded, Running
  <2> QED
    BY <1>1, <2>1, <2>2, <2>3, <2>4, OneStep DEF Good, Inv, TypeOK, OwnRow
<1> QED
  BY <1>6, <1>7 DEF Process

LEMMA WakeInv ==
    ASSUME Inv, NEW i \in Instance, Wake(i)
    PROVE  Inv'
<1> DEFINE s == instance[i]
           t == Iterate(s)
<1>1. s \in State /\ s.stage = "waiting" /\ rows' = rows /\ faults' = faults
  BY DEF Inv, TypeOK, Wake
<1>2. s.for \in 0..Old /\ s.due \in 0..Interval /\ s.fresh \in None..Old /\ s.skew \in Int
      /\ s.wait \in {0, Poll, Backoff}
  BY <1>1, Constants DEF State
<1>3. ~s.faulty => s.for <= Longest
  BY <1>1, <1>2, Constants DEF Inv, Good, InTime, Limit, Busy, Running
<1>4. HasRow(i)
  BY DEF Inv, Good
<1>5. i \in DOMAIN rows => rows[i] \in Int
  BY Constants DEF Inv, TypeOK
<1>6. /\ t \in State /\ t.for = 0 /\ t.faulty = s.faulty
      /\ \/ t.stage = "removing"
         \/ /\ t.stage = IF s.due = 0 THEN "writing" ELSE "processing"
            /\ t.fresh = s.fresh /\ t.due = s.due /\ t.skew = s.skew
  BY <1>1, Iterates
<1>7. Become(i, t) /\ instance'[i] = t
  BY DEF Wake, Become, Inv, TypeOK
<1> HIDE DEF t
<1>8. RowIsKept(i)' /\ InTime(i)'
  BY <1>6, <1>7, Constants DEF RowIsKept, InTime, Limit
<1>9. HasRow(i)'
  BY <1>1, <1>2, <1>3, <1>4, <1>5, <1>6, <1>7, Constants
  DEF HasRow, AgeBounded, Running
<1> QED
  BY <1>1, <1>6, <1>7, <1>8, <1>9, OneStep DEF Good, Inv, TypeOK, OwnRow

LEMMA StopInv ==
    ASSUME Inv, NEW i \in Instance, Stop(i)
    PROVE  Inv'
<1> DEFINE s == instance[i]
           t == [s EXCEPT !.stop = TRUE]
<1>1. s \in State /\ rows' = rows /\ faults' = faults
  BY DEF Inv, TypeOK, Stop
<1>2. /\ t \in State /\ t.stage = s.stage /\ t.for = s.for /\ t.wait = s.wait
      /\ t.faulty = s.faulty /\ t.fresh = s.fresh /\ t.due = s.due /\ t.skew = s.skew
  BY <1>1 DEF State
<1>3. Become(i, t) /\ instance'[i] = t
  BY DEF Stop, Become, Inv, TypeOK
<1> HIDE DEF t
<1>4. Good(i)
  BY DEF Inv
<1>5. Good(i)'
  BY <1>1, <1>2, <1>3, <1>4 DEF Good, RowIsKept, InTime, Limit, HasRow, AgeBounded
<1> QED
  BY <1>1, <1>2, <1>3, <1>5, OneStep DEF Inv, TypeOK, OwnRow

LEMMA CancelInv ==
    ASSUME Inv, NEW i \in Instance, Cancel(i)
    PROVE  Inv'
<1> DEFINE t == Finally(instance[i])
<1>1. instance[i] \in State /\ rows' \in Unheard(i) /\ faults' = faults
  BY DEF Inv, TypeOK, Cancel
<1>2. t \in State /\ t.stage = "removing" /\ t.for = 0
  BY <1>1, StagesAreStates DEF Finally, To, Down
<1>3. Become(i, t) /\ instance'[i] = t
  BY DEF Cancel, Become, Inv, TypeOK
<1> HIDE DEF t
<1>4. Good(i)'
  BY <1>2, <1>3, Constants DEF Good, RowIsKept, InTime, Limit, HasRow, Running
<1>5. OwnRow(i)
  BY <1>1, UnheardRows
<1> QED
  BY <1>1, <1>2, <1>3, <1>4, <1>5, OneStep DEF Good, Inv, TypeOK, OwnRow

LEMMA RemoveInv ==
    ASSUME Inv, NEW i \in Instance, Remove(i)
    PROVE  Inv'
<1>1. /\ rows' = [j \in DOMAIN rows \ {i} |-> rows[j]]
      /\ Become(i, Down) /\ instance'[i] = Down /\ faults' = faults
  BY DEF Remove, Removed, Become, Inv, TypeOK
<1>2. Down \in State /\ Down.stage = "down"
  BY Least DEF State, Down, Busy, Running
<1>3. Good(i)'
  BY <1>1, <1>2 DEF Good, RowIsKept, InTime, HasRow, Busy, Running
<1>4. OwnRow(i)
  BY <1>1 DEF Inv, TypeOK, OwnRow
<1> QED
  BY <1>1, <1>2, <1>3, <1>4, OneStep DEF Inv, TypeOK, OwnRow

LEMMA LoseInv ==
    ASSUME Inv, NEW i \in Instance, Lose(i)
    PROVE  Inv'
<1> DEFINE t == To(Down, "lost")
<1>1. rows' \in Unheard(i)
  BY DEF Lose
<1>2. t \in State /\ t.stage = "lost" /\ t.for = 0
  <2>1. Down \in State
    BY Least DEF State, Down, Busy, Running
  <2> QED
    BY <2>1, Least DEF To, State
<1>3. Become(i, t) /\ instance'[i] = t
  BY DEF Lose, Become, Inv, TypeOK
<1> HIDE DEF t
<1>4. faults' \in 0..MaxFaults
  <2>1. faults \in 0..MaxFaults /\ faults < MaxFaults /\ faults' = faults + 1
    BY DEF Lose, Fault, Inv, TypeOK
  <2> QED
    BY <2>1, Constants
<1>5. OwnRow(i)
  BY <1>1, UnheardRows
<1>6. i \in DOMAIN rows' => rows'[i] >= 0 - MaxSkew
  BY <1>5, Constants DEF OwnRow
<1>7. Good(i)'
  BY <1>2, <1>3, <1>6 DEF Good, RowIsKept, InTime, HasRow, Busy, Running
<1> QED
  BY <1>2, <1>3, <1>4, <1>5, <1>7, OneStep

LEMMA HangInv ==
    ASSUME Inv, NEW i \in Instance, Hang(i)
    PROVE  Inv'
<1> DEFINE s == instance[i]
           t == [s EXCEPT !.faulty = TRUE]
<1>1. s \in State /\ s.stage \in Busy /\ rows' = rows
  BY DEF Inv, TypeOK, Hang
<1>2. t \in State /\ t.stage = s.stage /\ t.faulty
  BY <1>1 DEF State
<1>3. Become(i, t) /\ instance'[i] = t
  BY DEF Hang, Become, Inv, TypeOK
<1> HIDE DEF t
<1>4. faults' \in 0..MaxFaults
  <2>1. faults \in 0..MaxFaults /\ faults < MaxFaults /\ faults' = faults + 1
    BY DEF Hang, Fault, Inv, TypeOK
  <2> QED
    BY <2>1, Constants
<1>5. Good(i)'
  BY <1>1, <1>2, <1>3 DEF Good, RowIsKept, InTime, HasRow, Busy, Running
<1> QED
  BY <1>1, <1>2, <1>3, <1>4, <1>5, OneStep DEF Inv, TypeOK, OwnRow

(* What a healthy instance has written is not stale by any clock.             *)
LEMMA RowInTime ==
    ASSUME Inv, NEW i \in Instance,
           instance[i].stage \in Running, ~instance[i].faulty, instance[i].fresh # None
    PROVE  i \in DOMAIN rows /\ rows[i] <= Stale /\ instance[i].fresh <= Stale
<1> DEFINE s == instance[i]
<1>1. /\ s.for \in 0..Old /\ s.wait \in {0, Poll, Backoff} /\ s.due \in 0..Interval
      /\ s.fresh \in None..Old /\ s.skew \in Skew \cup {0}
      /\ i \in DOMAIN rows => rows[i] \in -MaxSkew..Old + MaxSkew
  BY DEF Inv, TypeOK, State
<1>2. i \in DOMAIN rows /\ AgeBounded(s, rows[i] + s.skew)
  BY DEF Inv, Good, HasRow
<1>3. s.for <= IF s.stage = "waiting" THEN s.wait ELSE MaxWork
  BY DEF Inv, Good, InTime, Limit, Busy
<1>4. rows[i] + s.skew <= Due + 2 * MaxWork + Longest
  BY <1>1, <1>2, <1>3, Constants DEF AgeBounded, Running
<1> QED
  BY <1>1, <1>2, <1>4, Constants DEF AgeBounded, None

(* What time does to one instance and its row.                               *)
LEMMA AgedState ==
    ASSUME NEW s \in State
    PROVE  LET t == Aged(s)
           IN  /\ t \in State /\ t.stage = s.stage /\ t.wait = s.wait
               /\ t.faulty = s.faulty /\ t.skew = s.skew
               /\ s.stage # "down" =>
                     /\ t.for = Older(s.for) /\ t.due = Larger(0, s.due - 1)
                     /\ t.fresh = IF s.fresh = None THEN None ELSE Older(s.fresh)
<1>1. /\ Older(s.for) \in 0..Old /\ Larger(0, s.due - 1) \in 0..Interval
      /\ (IF s.fresh = None THEN None ELSE Older(s.fresh)) \in None..Old
  BY Constants DEF State, Older, Larger, None
<1> QED
  BY <1>1 DEF Aged, State

LEMMA PassInv ==
    ASSUME Inv, Pass
    PROVE  Inv'
<1>1. /\ rows' = [i \in DOMAIN rows |-> Older(rows[i])] /\ DOMAIN rows' = DOMAIN rows
      /\ instance' = [i \in Instance |-> Aged(instance[i])] /\ faults' = faults
  BY DEF Pass
<1>2. ASSUME NEW i \in DOMAIN rows
      PROVE  /\ rows[i] \in -MaxSkew..Old + MaxSkew /\ rows'[i] = Older(rows[i])
             /\ rows'[i] \in -MaxSkew..Old + MaxSkew /\ rows'[i] <= rows[i] + 1
  <2>1. rows[i] \in -MaxSkew..Old + MaxSkew /\ rows'[i] = Older(rows[i])
    BY <1>1 DEF Inv, TypeOK
  <2> QED
    BY <2>1, Constants DEF Older
<1>3. TypeOK'
  <2>1. \A i \in Instance : Aged(instance[i]) \in State
    BY AgedState DEF Inv, TypeOK
  <2>2. rows' \in [DOMAIN rows' -> -MaxSkew..Old + MaxSkew]
    BY <1>1, <1>2
  <2> QED
    BY <1>1, <2>1, <2>2 DEF Inv, TypeOK
<1>4. ASSUME NEW i \in Instance PROVE Good(i)'
  <2> DEFINE s == instance[i]
             t == Aged(s)
  <2>1. s \in State /\ Good(i)
    BY DEF Inv, TypeOK
  <2>2. /\ s.for \in 0..Old /\ s.wait \in {0, Poll, Backoff} /\ s.due \in 0..Interval
        /\ s.fresh \in None..Old /\ s.skew \in Int
    BY <2>1, Constants DEF State
  <2>3. instance'[i] = t
    BY <1>1
  <2>4. /\ t.stage = s.stage /\ t.wait = s.wait /\ t.faulty = s.faulty /\ t.skew = s.skew
        /\ s.stage # "down" =>
              /\ t.for = Older(s.for) /\ t.due = Larger(0, s.due - 1)
              /\ t.fresh = IF s.fresh = None THEN None ELSE Older(s.fresh)
    BY <2>1, AgedState
  <2> HIDE DEF t
  <2>5. RowIsKept(i)'
    BY <1>1, <1>2, <2>1, <2>2, <2>3, <2>4, Constants DEF Good, RowIsKept, Older
  <2>6. s.stage \in Busy /\ ~s.faulty =>
            s.for < (IF s.stage = "waiting" THEN s.wait ELSE MaxWork)
    BY DEF Pass, Limit
  <2>7. InTime(i)'
    BY <2>2, <2>3, <2>4, <2>6, Constants DEF InTime, Limit, Older, Busy, Running
  <2>8. ASSUME t.stage \in Running, ~t.faulty, t.fresh # None
        PROVE  i \in DOMAIN rows' /\ AgeBounded(t, rows'[i] + t.skew)
    <3>1. s.stage \in Running /\ ~s.faulty /\ s.fresh # None /\ s.stage # "down"
      BY <2>4, <2>8 DEF Running
    <3>2. i \in DOMAIN rows /\ rows[i] <= Stale /\ s.fresh <= Stale
      BY <3>1, RowInTime
    <3>3. AgeBounded(s, rows[i] + s.skew)
      BY <2>1, <3>1 DEF Good, HasRow
    <3>4. rows[i] \in Int /\ rows'[i] = rows[i] + 1
      BY <1>2, <3>2, Constants DEF Older
    <3>5. t.for = s.for + 1 /\ t.fresh = s.fresh + 1 /\ t.due = Larger(0, s.due - 1)
      BY <2>2, <2>4, <2>6, <3>1, <3>2, Constants DEF Older, Busy
    <3>6. AgeBounded(t, rows'[i] + t.skew)
      BY <2>2, <2>4, <3>1, <3>3, <3>4, <3>5, Constants DEF AgeBounded, Larger, Running
    <3> QED
      BY <1>1, <3>2, <3>6
  <2>9. HasRow(i)'
    BY <2>3, <2>8 DEF HasRow
  <2> QED
    BY <2>5, <2>7, <2>9 DEF Good
<1> QED
  BY <1>3, <1>4 DEF Inv

-----------------------------------------------------------------------------
(* The theorems *)

LEMMA StepInv == Inv /\ [Next]_hvars => Inv'
<1> SUFFICES ASSUME Inv, [Next]_hvars PROVE Inv'
  OBVIOUS
<1>1. CASE UNCHANGED hvars
  BY <1>1 DEF hvars, Inv, TypeOK, Good, RowIsKept, InTime, HasRow
<1>2. ASSUME NEW i \in Instance, Live(i) PROVE Inv'
  BY <1>2, StartInv, WriteInv, FailWriteInv, ProcessInv, WakeInv, StopInv, CancelInv,
     RemoveInv, LoseInv, HangInv DEF Live
<1> QED
  BY <1>1, <1>2, PassInv DEF Next

LEMMA InvHolds == Spec => []Inv
BY InitInv, StepInv, PTL DEF Spec

(* Ages, stages and rows are what they should be.                            *)
THEOREM HeartbeatTypes == Spec => []TypeOK
<1>1. Inv => TypeOK
  BY DEF Inv
<1> QED
  BY <1>1, InvHolds, PTL

(* Nobody is told of a processor that is long gone: a row that is not stale    *)
(* belongs to an instance that runs, or that was lost no longer ago.          *)
THEOREM HeartbeatOnlineIsRecent == Spec => []OnlineIsRecent
<1>1. Inv => OnlineIsRecent
  <2> SUFFICES ASSUME Inv, NEW i \in DOMAIN rows, rows[i] <= Stale
               PROVE  \/ instance[i].stage \in Busy
                      \/ instance[i].stage = "lost" /\ instance[i].for <= Stale + MaxSkew
    BY DEF OnlineIsRecent, Online, Inv, TypeOK
  <2>1. i \in Instance /\ rows[i] \in -MaxSkew..Old + MaxSkew /\ instance[i] \in State
    BY DEF Inv, TypeOK
  <2>2. RowIsKept(i)
    BY <2>1 DEF Inv, Good
  <2> QED
    BY <2>1, <2>2, Constants DEF RowIsKept, State
<1> QED
  BY <1>1, InvHolds, PTL

(* A healthy processor is never taken for gone, if the settings leave it the   *)
(* time that HeartbeatAssumption asks for.                                   *)
THEOREM HeartbeatNoFlap == Spec => []NoFlap
<1>1. Inv => NoFlap
  BY RowInTime DEF NoFlap, Online, WorkerReady
<1> QED
  BY <1>1, InvHolds, PTL
=============================================================================
