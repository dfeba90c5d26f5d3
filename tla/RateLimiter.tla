------------------------------ MODULE RateLimiter ------------------------------
(***************************************************************************)
(* The limit on mutations (safety.py): MutationRateLimiter with its buckets   *)
(* of time stamps, its clean-up and the bucket that clients share once there  *)
(* are too many, behind the size check of DemoSafetyMiddleware.              *)
(*                                                                         *)
(* allow never waits between its first line and its last: its lock is free    *)
(* whenever it asks, so a call is one step at one instant.  Time is counted   *)
(* in ticks, TicksPerSecond of them to the second that Retry-After is         *)
(* rounded to.                                                             *)
(***************************************************************************)
EXTENDS Integers, Sequences, FiniteSetsExt

CONSTANTS
    Client,          \* client keys
    Overflow,        \* the key "__overflow__"
    Limit,           \* mutation_rate_limit
    Window,          \* mutation_rate_window_seconds, in ticks
    TicksPerSecond,
    MaxKeys,         \* max_client_keys
    MaxTime          \* bound on the clock

ASSUME LimiterAssumption ==
    /\ Overflow \notin Client
    /\ Limit \in Nat \ {0} /\ MaxKeys \in Nat \ {0}
    /\ TicksPerSecond \in Nat \ {0}
    /\ Window \in Nat /\ Window >= TicksPerSecond
    /\ MaxTime \in Nat /\ MaxTime >= Window

VARIABLES
    now,          \* time.monotonic()
    requests,     \* _requests: the time stamps of each key
    lastCleanup,  \* _last_cleanup
    told,         \* history: when a client was last told to wait for its own
                  \* bucket, and how long, if nothing has passed since
    served        \* history: what passed in the last two windows

lvars == <<now, requests, lastCleanup, told, served>>

Key == Client \cup {Overflow}
Nothing == [at |-> 0, retry |-> 0]  \* no Retry-After

(* The machine has been up for a window when the limiter is made.            *)
Init ==
    /\ now = Window
    /\ requests = <<>>
    /\ lastCleanup = 0
    /\ told = [c \in Client |-> Nothing]
    /\ served = {}

(* The time stamps beyond the cutoff: the others are taken from the front,     *)
(* up to the first that is beyond it.                                        *)
Recent(stamps) ==
    LET left == {i \in DOMAIN stamps : stamps[i] > now - Window}
    IN  IF left = {} THEN <<>> ELSE SubSeq(stamps, Min(left), Len(stamps))

CleanupDue == now - lastCleanup >= Window

(* Mutant of Cleaned: every client's stamps go.                             *)
CleanedAll == IF CleanupDue THEN <<>> ELSE requests

(* Mutant of Cleaned: keys without time stamps stay.                        *)
CleanedKeepingKeys ==
    IF CleanupDue THEN [k \in DOMAIN requests |-> Recent(requests[k])] ELSE requests

Cleaned ==
    IF CleanupDue
    THEN [k \in {l \in DOMAIN requests : Recent(requests[l]) # <<>>} |->
             Recent(requests[k])]
    ELSE requests

(* Unknown clients share a bucket while the others are as many as may be.     *)
Bucket(c) ==
    IF c \notin DOMAIN Cleaned /\ Cardinality(DOMAIN Cleaned) >= MaxKeys
    THEN Overflow ELSE c

Stamps(k) == IF k \in DOMAIN Cleaned THEN Recent(Cleaned[k]) ELSE <<>>

WithStamps(k, stamps) ==
    [l \in DOMAIN Cleaned \cup {k} |-> IF l = k THEN stamps ELSE Cleaned[l]]

(* Mutant of RetryAfter: until the newest time stamp expires.               *)
RetryAfterNewest(stamps) ==
    LET seconds == (Window - (now - stamps[Len(stamps)])) \div TicksPerSecond
    IN  IF seconds < 1 THEN 1 ELSE seconds

RetryAfter(stamps) ==
    LET seconds == (Window - (now - stamps[1])) \div TicksPerSecond
    IN  IF seconds < 1 THEN 1 ELSE seconds

(* The entry of the history; n tells those of one instant apart.             *)
Served(key) ==
    LET same == {m \in served : m.key = key /\ m.at = now}
    IN  [key |-> key, at |-> now, n |-> Cardinality(same)]

Cleanup == lastCleanup' = IF CleanupDue THEN now ELSE lastCleanup

(* allow returns True, and the request is passed on.                        *)
Admit(c) ==
    LET key == Bucket(c)
        stamps == Stamps(key)
    IN  /\ Len(stamps) < Limit
        /\ requests' = WithStamps(key, Append(stamps, now))
        /\ served' = served \cup {Served(key)}
        /\ told' = [told EXCEPT ![c] = Nothing]
        /\ Cleanup
        /\ UNCHANGED now

(* allow returns False: 429 with Retry-After.                               *)
Refuse(c) ==
    LET key == Bucket(c)
        stamps == Stamps(key)
    IN  /\ Len(stamps) >= Limit
        /\ requests' = WithStamps(key, stamps)
        /\ told' = [told EXCEPT ![c] = IF key = Overflow THEN Nothing
                                       ELSE [at |-> now, retry |-> RetryAfter(stamps)]]
        /\ Cleanup
        /\ UNCHANGED <<now, served>>

(* Mutant of TooLarge: the limiter is asked before the size.                *)
TooLargeCounted(c) ==
    LET key == Bucket(c)
        stamps == Stamps(key)
    IN  /\ Len(stamps) < Limit
        /\ requests' = WithStamps(key, Append(stamps, now))
        /\ told' = [told EXCEPT ![c] = Nothing]
        /\ Cleanup
        /\ UNCHANGED <<now, served>>

(* 413, by the header or by the body; the limiter is not asked.              *)
TooLarge(c) ==
    /\ told' = [told EXCEPT ![c] = Nothing]
    /\ UNCHANGED <<now, requests, lastCleanup, served>>

(* Time passes; the history forgets what is two windows old.                *)
Pass ==
    /\ now < MaxTime
    /\ now' = now + 1
    /\ served' = {m \in served : m.at > now' - 2 * Window}
    /\ UNCHANGED <<requests, lastCleanup, told>>

Next ==
    \/ \E c \in Client : Admit(c) \/ Refuse(c) \/ TooLarge(c)
    \/ Pass

Spec == Init /\ [][Next]_lvars

-----------------------------------------------------------------------------
(* Properties *)

(* Buckets hold ordered time stamps of the past.  However many clients come,  *)
(* there are at most MaxKeys buckets and the shared one, none of them is      *)
(* empty, and none holds more than Limit time stamps.                       *)
TypeOK ==
    /\ now \in 0..MaxTime /\ lastCleanup \in 0..now
    /\ DOMAIN requests \subseteq Key
    /\ Cardinality(DOMAIN requests) <= MaxKeys + 1
    /\ \A k \in DOMAIN requests :
          /\ requests[k] \in Seq(0..now) /\ Len(requests[k]) \in 1..Limit
          /\ \A i, j \in DOMAIN requests[k] : i < j => requests[k][i] <= requests[k][j]
    /\ \A c \in Client : told[c].at \in 0..now /\ told[c].retry \in Nat

ServedNow == {m \in served : m.at > now - Window}

(* Types; and however clients come and go, and whenever the clean-up runs, no  *)
(* more than Limit mutations of a client pass in any window through a bucket  *)
(* of its own, and no more than Limit of all clients through the shared one.   *)
(* A client that moves from the shared bucket to its own may have both.       *)
WindowHolds ==
    /\ TypeOK
    /\ \A key \in Key : Cardinality({m \in ServedNow : m.key = key}) <= Limit

(* A client is only sent to the shared bucket while MaxKeys buckets have let   *)
(* something pass within the last two windows: one that has long been silent  *)
(* takes nobody's place, though the clean-up only runs once in a window.      *)
SharedWhenCrowded ==
    \A c \in Client :
        Bucket(c) = Overflow => Cardinality({m.key : m \in served}) >= MaxKeys

(* A mutation is only refused if Limit others have passed through the same    *)
(* bucket within the window: what is refused or too large uses nothing up.   *)
RefusalJustified ==
    [][\A c \in Client :
         Refuse(c) => Cardinality({m \in ServedNow : m.key = Bucket(c)}) >= Limit
      ]_lvars

(* Retry-After (operations.md:143: wait for the response's retry window) is    *)
(* right to the second.  A client whose own bucket was full, and that comes   *)
(* again a second after the time it was told, passes, or has lost its bucket  *)
(* to others meanwhile; one that was told to wait longer than the least       *)
(* second and comes before the time is refused again.                       *)
RetryAfterHonest ==
    [][\A c \in Client :
         LET back == told[c].at + told[c].retry * TicksPerSecond
         IN  told[c] # Nothing =>
               /\ Refuse(c) /\ now >= back + TicksPerSecond => Bucket(c) = Overflow
               /\ Admit(c) /\ told[c].retry > 1 => now >= back
      ]_lvars
=============================================================================
