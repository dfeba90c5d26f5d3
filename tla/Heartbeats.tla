------------------------------ MODULE Heartbeats ------------------------------
(***************************************************************************)
(* How the processors tell that they are alive, and what others make of it:   *)
(* the loop of CommandProcessor.run around its transactions (processor.py),   *)
(* the rows of runtime_heartbeats (runtime.py), the health answers of a       *)
(* worker (worker.py), and the status that the API's readiness (routes.py)   *)
(* and the diagnostics (diagnostics.py) derive from the rows.                *)
(*                                                                         *)
(* What process_once does is CommandProcessor's; here it takes time, and     *)
(* finds a command, finds none or fails.  Times are kept as ages, which grow  *)
(* together and stop at Old: only the comparison with a limit matters.       *)
(***************************************************************************)
EXTENDS Integers, FiniteSets

CONSTANTS
    Instance,   \* processor instances that may run at the same time
    Interval,   \* processor_heartbeat_interval_seconds
    Stale,      \* processor_heartbeat_stale_seconds
    Poll,       \* processor_poll_interval_ms
    Backoff,    \* processor_error_backoff_ms
    MaxWork,    \* how long a transaction of a healthy instance takes at most
    Skew,       \* how far a clock may be ahead of the API's
    MaxSkew,    \* bound on either sign of it
    MaxFaults   \* bound on faults

Larger(a, b) == IF a >= b THEN a ELSE b

(* The settings give a healthy instance the time to write its next heartbeat  *)
(* before the last one is stale, were an iteration to fail in between.  The   *)
(* code does not check this of its settings.                                *)
ASSUME HeartbeatAssumption ==
    /\ Interval \in Nat \ {0} /\ Poll \in Nat /\ Backoff \in Nat
    /\ MaxWork \in Nat /\ MaxSkew \in Nat /\ MaxFaults \in Nat
    /\ Skew \subseteq -MaxSkew..MaxSkew
    /\ Stale \in Nat
    /\ Stale >= Larger(Interval, MaxWork) + Larger(Poll, Backoff) + 2 * MaxWork + MaxSkew

(* An age past every limit.                                                 *)
Old == Stale + MaxSkew + 1

VARIABLES
    rows,       \* runtime_heartbeats: the API's now less last_seen_at, of each row
    instance,   \* the state of each instance: see Down
    faults      \* faults so far

hvars == <<rows, instance, faults>>

None == -1

(* stage: see Running; for: how long it has been in it; wait: how long _wait   *)
(* waits; due: the time to next_heartbeat; fresh: since                      *)
(* _last_heartbeat_monotonic; stop: _stop; faulty: something failed, and      *)
(* time bounds no longer hold.                                              *)
Down == [stage |-> "down", for |-> 0, wait |-> 0, due |-> 0, fresh |-> None,
         stop |-> FALSE, skew |-> 0, faulty |-> FALSE]

Running == {"writing", "processing", "waiting"}
Busy == Running \cup {"removing"}

Init ==
    /\ rows = <<>>
    /\ instance = [i \in Instance |-> Down]
    /\ faults = 0

Become(i, s) == instance' = [instance EXCEPT ![i] = s]
To(s, stage) == [s EXCEPT !.stage = stage, !.for = 0, !.wait = 0]
Waiting(s, seconds) == [To(s, "waiting") EXCEPT !.wait = seconds]
Finally(s) == [To(Down, "removing") EXCEPT !.faulty = s.faulty]

(* The top of the loop.                                                     *)
Iterate(s) ==
    IF s.stop THEN Finally(s)
    ELSE IF s.due = 0 THEN To(s, "writing")
    ELSE To(s, "processing")

Fault ==
    /\ faults < MaxFaults
    /\ faults' = faults + 1

(* write_heartbeat notes its clock's time before it opens its transaction.    *)
Written(i) ==
    [j \in DOMAIN rows \cup {i} |->
        IF j = i THEN instance[i].for - instance[i].skew ELSE rows[j]]

(* Mutant of Removed: the instance_id is forgotten in the condition.         *)
RemovedAll(i) == <<>>

Removed(i) == [j \in DOMAIN rows \ {i} |-> rows[j]]

(* The rows, when nobody heard how the instance's transaction ended.         *)
Unheard(i) ==
    {rows} \cup (IF instance[i].stage = "writing" THEN {Written(i)} ELSE {})
           \cup (IF instance[i].stage = "removing" THEN {Removed(i)} ELSE {})

-----------------------------------------------------------------------------

(* A process starts, with an id that is not in use.                          *)
Start(i) ==
    /\ instance[i] = Down
    /\ \E skew \in Skew : Become(i, Iterate([Down EXCEPT !.skew = skew]))
    /\ UNCHANGED <<rows, faults>>

Write(i) ==
    LET s == instance[i]
    IN  /\ s.stage = "writing"
        /\ rows' = Written(i)
        /\ Become(i, [To(s, "processing") EXCEPT
                         !.fresh = 0, !.due = Larger(0, Interval - s.for)])
        /\ UNCHANGED faults

FailWrite(i) ==
    /\ instance[i].stage = "writing"
    /\ Fault
    /\ rows' \in Unheard(i)
    /\ Become(i, [Waiting(instance[i], Backoff) EXCEPT !.faulty = TRUE])

(* process_once claims a command and finishes it, claims none, or fails.     *)
Process(i) ==
    /\ instance[i].stage = "processing"
    /\ \/ Become(i, Iterate(instance[i]))
       \/ Become(i, Waiting(instance[i], Poll))
       \/ Become(i, Waiting(instance[i], Backoff))
    /\ UNCHANGED <<rows, faults>>

Wake(i) ==
    /\ instance[i].stage = "waiting"
    /\ instance[i].for >= instance[i].wait \/ instance[i].stop
    /\ Become(i, Iterate(instance[i]))
    /\ UNCHANGED <<rows, faults>>

(* SIGTERM, or the end of the application around an embedded processor.       *)
Stop(i) ==
    /\ instance[i].stage \in Running /\ ~instance[i].stop
    /\ Become(i, [instance[i] EXCEPT !.stop = TRUE])
    /\ UNCHANGED <<rows, faults>>

(* An embedded processor that does not stop in time is cancelled.            *)
Cancel(i) ==
    /\ instance[i].stage \in Running /\ instance[i].stop
    /\ rows' \in Unheard(i)
    /\ Become(i, Finally(instance[i]))
    /\ UNCHANGED faults

(* The finally block of run.                                                *)
Remove(i) ==
    /\ instance[i].stage = "removing"
    /\ rows' = Removed(i)
    /\ Become(i, Down)
    /\ UNCHANGED faults

(* A process ends without its heartbeat being known to be removed: it is      *)
(* killed, or remove_heartbeat fails.                                       *)
Lose(i) ==
    /\ instance[i].stage \in Busy
    /\ Fault
    /\ rows' \in Unheard(i)
    /\ Become(i, To(Down, "lost"))

(* From now on a transaction of the instance may take for ever.              *)
Hang(i) ==
    /\ instance[i].stage \in Busy /\ ~instance[i].faulty
    /\ Fault
    /\ Become(i, [instance[i] EXCEPT !.faulty = TRUE])
    /\ UNCHANGED rows

(* How long the current stage of a healthy instance lasts at most.           *)
Limit(s) == IF s.stage = "waiting" THEN s.wait ELSE MaxWork

Older(age) == IF age < Old THEN age + 1 ELSE Old

Aged(s) ==
    IF s.stage = "down" THEN s
    ELSE [s EXCEPT !.for = Older(@),
                   !.due = Larger(0, @ - 1),
                   !.fresh = IF @ = None THEN None ELSE Older(@)]

Pass ==
    /\ \A i \in Instance :
          instance[i].stage \in Busy /\ ~instance[i].faulty =>
              instance[i].for < Limit(instance[i])
    /\ rows' = [i \in DOMAIN rows |-> Older(rows[i])]
    /\ instance' = [i \in Instance |-> Aged(instance[i])]
    /\ UNCHANGED faults

Live(i) ==
    \/ Start(i) \/ Write(i) \/ FailWrite(i) \/ Process(i) \/ Wake(i) \/ Stop(i)
    \/ Cancel(i) \/ Remove(i) \/ Lose(i) \/ Hang(i)

Next == Pass \/ \E i \in Instance : Live(i)

Spec == Init /\ [][Next]_hvars

-----------------------------------------------------------------------------
(* What is made of the heartbeats *)

(* Mutant of Online: that there is a heartbeat is enough.                   *)
OnlineWhilePresent == DOMAIN rows # {}

(* processor_running of the API's readiness when no processor is embedded,    *)
(* and "online" in the diagnostics, from latest_heartbeat, the freshest row.  *)
Online == \E i \in DOMAIN rows : rows[i] <= Stale

(* The answer of a worker to /ready; heartbeat_fresh looks at its own clock,   *)
(* not at the row.                                                          *)
WorkerReady(i) ==
    /\ instance[i].stage \in Running
    /\ instance[i].fresh # None /\ instance[i].fresh <= Stale

-----------------------------------------------------------------------------
(* Properties *)

State ==
    [stage : Busy \cup {"down", "lost"}, for : 0..Old, wait : {0, Poll, Backoff},
     due : 0..Interval, fresh : None..Old, stop : BOOLEAN, skew : Skew \cup {0},
     faulty : BOOLEAN]

TypeOK ==
    /\ faults \in 0..MaxFaults
    /\ DOMAIN rows \subseteq Instance
    /\ rows \in [DOMAIN rows -> -MaxSkew..Old + MaxSkew]
    /\ instance \in [Instance -> State]

(* Online is never said for longer than Stale, and the difference of the      *)
(* clocks, after the last processor is gone: whatever crashed or hung, an     *)
(* answer that there is a processor means that one runs, or has been lost     *)
(* without a word that recently.  One that has stopped in good order is not   *)
(* counted from then on, though it was cancelled in the middle of a write.    *)
OnlineIsRecent ==
    Online => \E i \in Instance :
                 \/ instance[i].stage \in Busy
                 \/ instance[i].stage = "lost" /\ instance[i].for <= Stale + MaxSkew

(* As long as one instance is healthy and has written a heartbeat, the API and *)
(* the diagnostics find a processor online and the worker's own probe holds,  *)
(* whatever becomes of the other instances: their rows are theirs, and       *)
(* failing iterations and busy ones leave the time to write the next.        *)
NoFlap ==
    \A i \in Instance :
        LET s == instance[i]
        IN  s.stage \in Running /\ ~s.faulty /\ s.fresh # None =>
               Online /\ WorkerReady(i)
=============================================================================
