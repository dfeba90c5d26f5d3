----------------------- MODULE CommandProcessor_proofs -----------------------
(***************************************************************************)
(* Theorems about CommandProcessor, for any number of processors, markets,   *)
(* keys and requests, any sequences and any number of faults: the queue and its *)
(* events, the log that the streams read, the replay of the finished commands, *)
(* and the ledger of orders and trades.                                     *)
(***************************************************************************)
EXTENDS CommandProcessor, FiniteSetTheorems, TLAPS

CommandRow ==
    [key : Key, request : Request, status : {"queued", "completed", "rejected"}]

(* The part of TypeOK that is not about what an outcome holds.               *)
ControlTypes ==
    /\ last \in Nat
    /\ commands \in [DOMAIN commands -> CommandRow]
    /\ DOMAIN commands \subseteq 1..last
    /\ nextEvent \in Nat \ {0}
    /\ DOMAIN events \subseteq 1..(nextEvent - 1)
    /\ lock \in Processor \cup {NoProcessor}
    /\ phase \in [Processor -> Phase]
    /\ claim \in [Processor -> Nat]
    /\ pending = [p \in Processor |-> pending[p]]
    /\ published \in [Processor -> Nat]
    /\ faults \in 0..MaxFaults

(* Who is in a transaction holds the processor lock, and nobody else.         *)
OneWriter == \A p \in Processor : phase[p] \in InTransaction <=> lock = p

(* A claimed command is the head of the queue, and stays there.              *)
ClaimIsHead ==
    \A p \in Processor :
        IF phase[p] \in {"claimed", "applied"}
        THEN claim[p] \in QueuedSequences /\ \A r \in QueuedSequences : claim[p] <= r
        ELSE claim[p] = 0

(* An uncommitted event is above every visible one, above those committed    *)
(* and not broadcast yet, and above the last one its processor broadcast.     *)
PendingIsNew ==
    /\ \A p \in Processor : published[p] < nextEvent
    /\ \A p \in Processor :
          phase[p] \in {"applied", "committed"} =>
             /\ pending[p].event \in Nat
             /\ published[p] < pending[p].event
             /\ pending[p].event < nextEvent
    /\ \A p \in Processor :
          phase[p] = "applied" =>
             /\ pending[p].status \in {"completed", "rejected"}
             /\ \A e \in DOMAIN events : e < pending[p].event
             /\ \A o \in Processor :
                   phase[o] = "committed" => pending[o].event < pending[p].event

(* OneEventPerCommand without its count.                                    *)
EventEach ==
    /\ \A e \in DOMAIN events : events[e].command \in FinishedSequences
    /\ \A q \in FinishedSequences : \E e \in DOMAIN events : events[e].command = q

Inv ==
    /\ ControlTypes
    /\ OneWriter
    /\ ClaimIsHead
    /\ PendingIsNew
    /\ FinishedInOrder
    /\ EventEach
    /\ EventsInOrder

-----------------------------------------------------------------------------
LEMMA InitInv == Init => Inv
<1> SUFFICES ASSUME Init PROVE Inv
  OBVIOUS
<1> USE DEF Init, J!Init, J!NoCommands, NoRows
<1>1. DOMAIN commands = {} /\ DOMAIN events = {}
  OBVIOUS
<1>2. ControlTypes
  BY <1>1, ProcessorAssumption DEF ControlTypes, Phase
<1>3. OneWriter /\ ClaimIsHead /\ PendingIsNew
  BY ProcessorAssumption DEF OneWriter, ClaimIsHead, PendingIsNew, InTransaction
<1>4. FinishedInOrder /\ EventEach /\ EventsInOrder
  BY <1>1 DEF FinishedInOrder, EventEach, EventsInOrder, FinishedSequences
<1> QED BY <1>2, <1>3, <1>4 DEF Inv

(* Whatever a command is, it is finished or stays queued.                    *)
LEMMA OutcomeStatus ==
  ASSUME NEW rows, NEW ts, NEW q, NEW r
  PROVE  OutcomeOf(rows, ts, q, r).status \in {"queued", "completed", "rejected"}
<1>1. SubmitOutcome(rows, ts, q, r).status \in {"queued", "completed"}
  <2>1. \A error : Raised(error).status = "queued"
    BY DEF Raised
  <2>2. \A type, changed, made : Changes(type, changed, made).status = "completed"
    BY DEF Changes
  <2> QED BY <2>1, <2>2, Zenon DEF SubmitOutcome
<1>2. CancelOutcome(rows, r).status \in {"completed", "rejected"}
  BY DEF CancelOutcome, Changes, Rejection
<1> QED BY <1>1, <1>2 DEF OutcomeOf

(* The end of a transaction without its writes, and the moves outside one.    *)
LEMMA RollbackKeepsInv ==
  ASSUME Inv, NEW p \in Processor, Rollback(p),
         NEW to \in {"idle", "backoff", "down"}, phase' = [phase EXCEPT ![p] = to],
         UNCHANGED <<commands, last, events, nextEvent>>,
         published' = published \/ published' = [published EXCEPT ![p] = 0],
         faults' \in 0..MaxFaults
  PROVE  Inv'
<1> USE DEF Inv
<1>1. ControlTypes'
  <2>1. phase' \in [Processor -> Phase] /\ published' \in [Processor -> Nat]
    BY DEF ControlTypes, Phase
  <2>2. pending' = [o \in Processor |-> pending'[o]]
    BY DEF ControlTypes, Rollback
  <2>3. lock' \in Processor \cup {NoProcessor} /\ claim' \in [Processor -> Nat]
    BY DEF ControlTypes, Rollback, Release
  <2> QED BY <2>1, <2>2, <2>3 DEF ControlTypes
<1>2. OneWriter'
  BY ProcessorAssumption DEF ControlTypes, OneWriter, Rollback, Release, InTransaction
<1>3. ClaimIsHead'
  BY DEF ControlTypes, ClaimIsHead, QueuedSequences, Rollback, Release
<1>4. PendingIsNew'
  BY DEF ControlTypes, PendingIsNew, Rollback, Release
<1>5. (FinishedInOrder /\ EventEach /\ EventsInOrder)'
  BY DEF FinishedInOrder, EventEach, EventsInOrder, FinishedSequences, QueuedSequences
<1> QED BY <1>1, <1>2, <1>3, <1>4, <1>5

(* The tables after the writes of the lock holder become visible.            *)
LEMMA InstallKeepsInv ==
  ASSUME Inv, NEW p \in Processor, phase[p] = "applied", Install(p),
         NEW to \in {"committed", "backoff"}, phase' = [phase EXCEPT ![p] = to],
         \/ to = "committed" /\ pending' = pending
         \/ to = "backoff" /\ pending' = [pending EXCEPT ![p] = NothingPending],
         UNCHANGED <<nextEvent, published>>,
         faults' \in 0..MaxFaults
  PROVE  Inv'
<1> USE DEF Inv
<1> DEFINE q == claim[p]
           w == pending[p]
           n == w.event
<1>1. /\ lock = p /\ \A o \in Processor \ {p} : phase[o] \notin InTransaction
      /\ q \in QueuedSequences /\ \A r \in QueuedSequences : q <= r
      /\ q \in Nat
      /\ w.status \in {"completed", "rejected"}
      /\ n \in Nat /\ published[p] < n /\ n < nextEvent
      /\ \A e \in DOMAIN events : e < n
  BY DEF OneWriter, ClaimIsHead, PendingIsNew, InTransaction, ControlTypes
<1>2. /\ DOMAIN commands' = DOMAIN commands /\ last' = last
      /\ commands' \in [DOMAIN commands -> CommandRow]
      /\ commands'[q].status = w.status
      /\ \A r \in DOMAIN commands : r # q => commands'[r] = commands[r]
  BY <1>1 DEF ControlTypes, Install, J!Finish, CommandRow, QueuedSequences
<1>3. /\ QueuedSequences' = QueuedSequences \ {q}
      /\ FinishedSequences' = FinishedSequences \cup {q}
  BY <1>1, <1>2 DEF QueuedSequences, FinishedSequences
<1>4. /\ DOMAIN events' = DOMAIN events \cup {n}
      /\ events'[n].command = q
      /\ \A e \in DOMAIN events : events'[e] = events[e]
  BY <1>1 DEF Install
<1>5. claim' = [claim EXCEPT ![p] = 0] /\ lock' = NoProcessor
  BY <1>1 DEF Install, Release
<1> HIDE DEF q, w, n
<1>6. ControlTypes'
  <2>1. DOMAIN events' \subseteq 1..(nextEvent - 1)
    BY <1>1, <1>4 DEF ControlTypes
  <2> QED BY <1>2, <1>5, <2>1, ProcessorAssumption DEF ControlTypes, Phase
<1>7. OneWriter'
  BY <1>1, <1>5, ProcessorAssumption DEF ControlTypes, OneWriter, InTransaction
<1>8. ClaimIsHead'
  BY <1>1, <1>5 DEF ControlTypes, ClaimIsHead, InTransaction
<1>9. PendingIsNew'
  BY <1>1, <1>4 DEF ControlTypes, PendingIsNew, InTransaction, n, w
<1>10. FinishedInOrder'
  BY <1>1, <1>3 DEF FinishedInOrder, ControlTypes, QueuedSequences
<1>11. EventEach'
  BY <1>1, <1>3, <1>4 DEF EventEach
<1>12. EventsInOrder'
  BY <1>1, <1>4 DEF EventsInOrder, EventEach, FinishedInOrder, ControlTypes
<1> QED BY <1>6, <1>7, <1>8, <1>9, <1>10, <1>11, <1>12

(* A move outside the transactions, which leaves the tables alone.           *)
LEMMA StartKeepsInv ==
  ASSUME Inv, NEW p \in Processor, At(p, "idle", "locked"), lock = NoProcessor,
         lock' = p,
         UNCHANGED <<commands, last, events, nextEvent, claim, pending, published, faults>>
  PROVE  Inv'
<1> USE DEF Inv
<1>1. ControlTypes'
  BY DEF ControlTypes, At, Phase
<1>2. OneWriter'
  BY ProcessorAssumption DEF ControlTypes, OneWriter, At, InTransaction
<1>3. ClaimIsHead'
  BY DEF ControlTypes, ClaimIsHead, QueuedSequences, At
<1>4. PendingIsNew'
  BY DEF ControlTypes, PendingIsNew, At
<1>5. (FinishedInOrder /\ EventEach /\ EventsInOrder)'
  BY DEF FinishedInOrder, EventEach, EventsInOrder, FinishedSequences, QueuedSequences
<1> QED BY <1>1, <1>2, <1>3, <1>4, <1>5

(* With no other claim, the head of the queue is not locked.                 *)
LEMMA NothingSkipped ==
  ASSUME Inv, NEW p \in Processor, phase[p] = "locked"
  PROVE  Unlocked(p) = QueuedSequences
<1>1. \A o \in Processor \ {p} : claim[o] = 0
  BY DEF Inv, OneWriter, ClaimIsHead, InTransaction
<1>2. 0 \notin QueuedSequences
  BY DEF Inv, ControlTypes, QueuedSequences
<1> QED BY <1>1, <1>2 DEF Unlocked

LEMMA ClaimKeepsInv == ASSUME Inv, NEW p \in Processor, Claim(p) PROVE Inv'
<1> USE DEF Inv
<1>1. PICK q \in QueuedSequences :
          /\ \A r \in QueuedSequences : q <= r
          /\ claim' = [claim EXCEPT ![p] = q]
  BY NothingSkipped DEF Claim, At
<1>2. ControlTypes'
  BY <1>1 DEF ControlTypes, Claim, At, Phase, QueuedSequences
<1>3. OneWriter'
  BY DEF ControlTypes, OneWriter, Claim, At, InTransaction
<1>4. ClaimIsHead'
  BY <1>1 DEF ControlTypes, ClaimIsHead, QueuedSequences, Claim, At
<1>5. PendingIsNew'
  BY DEF ControlTypes, PendingIsNew, Claim, At
<1>6. (FinishedInOrder /\ EventEach /\ EventsInOrder)'
  BY DEF FinishedInOrder, EventEach, EventsInOrder, FinishedSequences, QueuedSequences,
         Claim
<1> QED BY <1>2, <1>3, <1>4, <1>5, <1>6

LEMMA ApplyKeepsInv == ASSUME Inv, NEW p \in Processor, Apply(p) PROVE Inv'
<1> USE DEF Inv
<1>1. PICK result \in {OutcomeOf(orders, trades, claim[p], commands[claim[p]].request)} :
           IF result.status = "queued"
           THEN /\ phase' = [phase EXCEPT ![p] = "backoff"]
                /\ Rollback(p)
                /\ UNCHANGED nextEvent
           ELSE /\ phase' = [phase EXCEPT ![p] = "applied"]
                /\ pending' = [pending EXCEPT ![p] =
                      [status |-> result.status, rows |-> result.rows,
                       trades |-> result.trades, type |-> result.type,
                       error |-> result.error, event |-> nextEvent]]
                /\ nextEvent' = nextEvent + 1
                /\ UNCHANGED <<lock, claim>>
  BY Zenon DEF Apply
<1>2. phase[p] = "claimed"
      /\ UNCHANGED <<commands, last, orders, trades, events, published, faults>>
  BY DEF Apply
<1>3. CASE result.status = "queued"
  BY <1>1, <1>2, <1>3, RollbackKeepsInv DEF ControlTypes
<1>4. CASE result.status # "queued"
  <2> DEFINE w == [status |-> result.status, rows |-> result.rows,
                   trades |-> result.trades, type |-> result.type,
                   error |-> result.error, event |-> nextEvent]
  <2>1. w.event = nextEvent /\ w.status \in {"completed", "rejected"}
    BY <1>1, <1>4, OutcomeStatus
  <2>2. /\ phase' = [phase EXCEPT ![p] = "applied"]
        /\ pending' = [pending EXCEPT ![p] = w]
        /\ nextEvent' = nextEvent + 1 /\ lock' = lock /\ claim' = claim
    BY <1>1, <1>4
  <2> HIDE DEF w
  <2>3. ControlTypes'
    <3>1. phase' \in [Processor -> Phase]
      BY <2>2 DEF ControlTypes, Phase
    <3>2. pending' = [o \in Processor |-> pending'[o]]
      BY <2>2 DEF ControlTypes
    <3>3. nextEvent' \in Nat \ {0} /\ DOMAIN events' \subseteq 1..(nextEvent' - 1)
      <4>1. nextEvent \in Nat \ {0} /\ DOMAIN events \subseteq 1..(nextEvent - 1)
        BY DEF ControlTypes
      <4> QED BY <1>2, <2>2, <4>1
    <3> QED BY <1>2, <2>2, <3>1, <3>2, <3>3 DEF ControlTypes
  <2>4. OneWriter'
    BY <1>2, <2>2 DEF ControlTypes, OneWriter, InTransaction
  <2>5. ClaimIsHead'
    BY <1>2, <2>2 DEF ControlTypes, ClaimIsHead, QueuedSequences
  <2>6. PendingIsNew'
    <3>1. /\ phase'[p] = "applied" /\ pending'[p] = w
          /\ \A o \in Processor \ {p} : phase'[o] = phase[o] /\ pending'[o] = pending[o]
      BY <2>2 DEF ControlTypes
    <3>2. \A o \in Processor \ {p} : phase[o] # "applied"
      BY <1>2 DEF OneWriter, InTransaction
    <3>3. nextEvent \in Nat
      BY DEF ControlTypes
    <3> QED BY <1>2, <2>1, <2>2, <3>1, <3>2, <3>3 DEF ControlTypes, PendingIsNew
  <2>7. (FinishedInOrder /\ EventEach /\ EventsInOrder)'
    BY <1>2 DEF FinishedInOrder, EventEach, EventsInOrder, FinishedSequences,
                QueuedSequences
  <2> QED BY <2>3, <2>4, <2>5, <2>6, <2>7
<1> QED BY <1>3, <1>4

LEMMA PublishKeepsInv == ASSUME Inv, NEW p \in Processor, Publish(p) PROVE Inv'
<1> USE DEF Inv
<1>1. /\ phase[p] = "committed" /\ phase' = [phase EXCEPT ![p] = "idle"]
      /\ published' = [published EXCEPT ![p] = pending[p].event]
      /\ pending' = [pending EXCEPT ![p] = NothingPending]
      /\ UNCHANGED <<commands, last, events, nextEvent, lock, claim, faults>>
  BY DEF Publish, At
<1>2. ControlTypes'
  BY <1>1 DEF ControlTypes, PendingIsNew, Phase
<1>3. OneWriter'
  BY <1>1 DEF ControlTypes, OneWriter, InTransaction
<1>4. ClaimIsHead'
  BY <1>1 DEF ControlTypes, ClaimIsHead, QueuedSequences
<1>5. PendingIsNew'
  BY <1>1 DEF ControlTypes, PendingIsNew
<1>6. (FinishedInOrder /\ EventEach /\ EventsInOrder)'
  BY <1>1 DEF FinishedInOrder, EventEach, EventsInOrder, FinishedSequences,
              QueuedSequences
<1> QED BY <1>2, <1>3, <1>4, <1>5, <1>6

(* A processor that is in no transaction changes its phase outside one.      *)
LEMMA IdleKeepsInv ==
  ASSUME Inv, NEW p \in Processor, phase[p] \in {"backoff", "down"},
         phase' = [phase EXCEPT ![p] = "idle"],
         published' = published \/ published' = [published EXCEPT ![p] = 0],
         UNCHANGED <<commands, last, events, nextEvent, lock, claim, pending, faults>>
  PROVE  Inv'
<1> USE DEF Inv
<1>1. ControlTypes'
  BY DEF ControlTypes, Phase
<1>2. OneWriter'
  BY DEF ControlTypes, OneWriter, InTransaction
<1>3. ClaimIsHead'
  BY DEF ControlTypes, ClaimIsHead, QueuedSequences
<1>4. PendingIsNew'
  BY DEF ControlTypes, PendingIsNew
<1>5. (FinishedInOrder /\ EventEach /\ EventsInOrder)'
  BY DEF FinishedInOrder, EventEach, EventsInOrder, FinishedSequences, QueuedSequences
<1> QED BY <1>1, <1>2, <1>3, <1>4, <1>5

LEMMA AcceptKeepsInv == ASSUME Inv, Accept PROVE Inv'
<1> USE DEF Inv
<1>1. PICK key \in Key, r \in Request, q \in (last + 1)..MaxSequence :
          J!Accept(key, r, q)
  BY DEF Accept
<1>2. UNCHANGED <<events, nextEvent, lock, phase, claim, pending, published, faults>>
  BY DEF Accept
<1>3. q \in Nat /\ q > last /\ last \in Nat /\ last' = q
  BY <1>1 DEF J!Accept, ControlTypes
<1>4. /\ DOMAIN commands' = DOMAIN commands \cup {q}
      /\ commands'[q] = J!Queued(key, r)
      /\ \A t \in DOMAIN commands : commands'[t] = commands[t]
      /\ commands' = [t \in DOMAIN commands' |-> commands'[t]]
      /\ q \notin DOMAIN commands
  BY <1>1, <1>3 DEF J!Accept, J!WithCommand, ControlTypes
<1>5. commands'[q] \in CommandRow /\ commands'[q].status = "queued"
  BY <1>4 DEF J!Queued, CommandRow
<1>6. /\ QueuedSequences' = QueuedSequences \cup {q}
      /\ FinishedSequences' = FinishedSequences
  BY <1>4, <1>5 DEF QueuedSequences, FinishedSequences
<1>7. ControlTypes'
  <2>1. commands' \in [DOMAIN commands' -> CommandRow]
    BY <1>4, <1>5 DEF ControlTypes
  <2>2. DOMAIN commands' \subseteq 1..last'
    BY <1>3, <1>4 DEF ControlTypes
  <2> QED BY <1>2, <1>3, <2>1, <2>2 DEF ControlTypes
<1>8. OneWriter' /\ PendingIsNew'
  BY <1>2 DEF OneWriter, PendingIsNew
<1>9. ClaimIsHead'
  <2>1. \A t \in QueuedSequences : t <= q
    BY <1>3 DEF ControlTypes, QueuedSequences
  <2> QED BY <1>2, <1>6, <2>1 DEF ClaimIsHead
<1>10. (FinishedInOrder /\ EventEach /\ EventsInOrder)'
  <2>1. \A t \in FinishedSequences : t < q
    BY <1>3 DEF ControlTypes, FinishedSequences
  <2> QED BY <1>2, <1>6, <2>1 DEF FinishedInOrder, EventEach, EventsInOrder
<1> QED BY <1>7, <1>8, <1>9, <1>10

LEMMA ResetKeepsInv == ASSUME Inv, Reset PROVE Inv'
<1> USE DEF Inv
<1>1. /\ commands' = J!NoCommands /\ last' = last /\ events' = NoRows
      /\ UNCHANGED <<nextEvent, lock, phase, claim, pending, published, faults>>
  BY DEF Reset, J!Erase
<1>2. DOMAIN commands' = {} /\ DOMAIN events' = {}
  BY <1>1 DEF J!NoCommands, NoRows
<1>3. ControlTypes'
  <2>1. commands' \in [DOMAIN commands' -> CommandRow]
    BY <1>1, <1>2 DEF J!NoCommands
  <2> QED BY <1>1, <1>2, <2>1 DEF ControlTypes
<1>4. OneWriter'
  BY <1>1 DEF OneWriter
<1>5. ClaimIsHead'
  BY <1>1 DEF ClaimIsHead, Reset, TablesUnused
<1>6. PendingIsNew'
  BY <1>1, <1>2 DEF PendingIsNew
<1>7. (FinishedInOrder /\ EventEach /\ EventsInOrder)'
  BY <1>2 DEF FinishedInOrder, EventEach, EventsInOrder, FinishedSequences,
              QueuedSequences
<1> QED BY <1>3, <1>4, <1>5, <1>6, <1>7

LEMMA NextKeepsInv == Inv /\ [Next]_pvars => Inv'
<1> SUFFICES ASSUME Inv, [Next]_pvars PROVE Inv'
  OBVIOUS
<1>1. ASSUME NEW p \in Processor, TryLock(p) PROVE Inv'
  BY <1>1, StartKeepsInv DEF TryLock
<1>2. ASSUME NEW p \in Processor, FindNothing(p) \/ Fail(p) \/ Crash(p) PROVE Inv'
  <2>1. faults' \in 0..MaxFaults
    BY <1>2, ProcessorAssumption
    DEF Inv, ControlTypes, FindNothing, Fail, Crash, Fault
  <2> QED BY <1>2, <2>1, RollbackKeepsInv DEF FindNothing, Fail, Crash, At
<1>3. ASSUME NEW p \in Processor, Commit(p) \/ CommitUnheard(p) PROVE Inv'
  <2>1. faults' \in 0..MaxFaults
    BY <1>3, ProcessorAssumption
    DEF Inv, ControlTypes, Commit, CommitUnheard, Fault
  <2> QED BY <1>3, <2>1, InstallKeepsInv DEF Commit, CommitUnheard, At
<1>4. ASSUME NEW p \in Processor, Retry(p) \/ Start(p) PROVE Inv'
  BY <1>4, IdleKeepsInv DEF Retry, Start, At
<1>5. CASE UNCHANGED pvars
  BY <1>5 DEF pvars, Inv, ControlTypes, OneWriter, ClaimIsHead, PendingIsNew,
              FinishedInOrder, EventEach, EventsInOrder, FinishedSequences,
              QueuedSequences
<1> QED
  BY <1>1, <1>2, <1>3, <1>4, <1>5, ClaimKeepsInv, ApplyKeepsInv, PublishKeepsInv,
     AcceptKeepsInv, ResetKeepsInv
  DEF Next, ProcessorStep

LEMMA SpecInv == Spec => []Inv
<1>1. Init => Inv
  BY InitInv
<1>2. Inv /\ [Next]_pvars => Inv'
  BY NextKeepsInv
<1> QED BY <1>1, <1>2, PTL DEF Spec

-----------------------------------------------------------------------------
(* The tables of commands and events and the processors' own state keep       *)
(* their types, whatever the requests are.                                  *)
THEOREM ProcessorTypes == Spec => []ControlTypes
<1>1. Inv => ControlTypes
  BY DEF Inv
<1> QED BY <1>1, SpecInv, PTL

(* At most one processor is ever between taking the processor lock and the    *)
(* end of its transaction (_acquire_single_writer_lock), and what it works on  *)
(* is the head of the queue.                                                *)
THEOREM ProcessorOneWriter ==
  Spec => [](/\ \A p, o \in Processor :
                   phase[p] \in InTransaction /\ phase[o] \in InTransaction => p = o
             /\ ClaimIsHead)
<1>1. Inv => /\ \A p, o \in Processor :
                   phase[p] \in InTransaction /\ phase[o] \in InTransaction => p = o
             /\ ClaimIsHead
  BY DEF Inv, OneWriter
<1> QED BY <1>1, SpecInv, PTL

(* Commands are finished from the head of the queue, one event each, and      *)
(* events are numbered in that order (CommandProcessor.process_once).        *)
THEOREM ProcessorAppliedInOrder == Spec => []AppliedInOrder
<1>1. Inv => AppliedInOrder
  <2> SUFFICES ASSUME Inv PROVE OneEventPerCommand
    BY DEF AppliedInOrder, Inv
  <2>1. ASSUME NEW q \in FinishedSequences
        PROVE  Cardinality({e \in DOMAIN events : events[e].command = q}) = 1
    <3>1. PICK e \in DOMAIN events : events[e].command = q
      BY DEF Inv, EventEach
    <3>2. ASSUME NEW f \in DOMAIN events, events[f].command = q PROVE f = e
      <4>1. e \in Nat /\ f \in Nat /\ q \in Nat
        BY DEF Inv, ControlTypes, FinishedSequences
      <4> QED BY <3>1, <3>2, <4>1 DEF Inv, EventsInOrder
    <3>3. {f \in DOMAIN events : events[f].command = q} = {e}
      BY <3>1, <3>2
    <3> QED BY <3>3, FS_Singleton
  <2> QED BY <2>1 DEF OneEventPerCommand, Inv, EventEach
<1> QED BY <1>1, SpecInv, PTL

(* A processor broadcasts each event once, in order, and only after the       *)
(* commit (the publish that follows the transaction in process_once).        *)
THEOREM ProcessorBroadcastCommitted == Spec => BroadcastCommitted
<1> DEFINE Told ==
      \A p \in Processor :
         published'[p] \notin {0, published[p]} =>
            /\ published'[p] > published[p]
            /\ \A o \in Processor :
                  phase[o] = "applied" => pending[o].event # published'[p]
<1>1. Inv /\ [Next]_pvars => [Told]_pvars
  <2> SUFFICES ASSUME Inv, Next, NEW p \in Processor,
                      published'[p] \notin {0, published[p]}
               PROVE  /\ published'[p] > published[p]
                      /\ \A o \in Processor :
                            phase[o] = "applied" => pending[o].event # published'[p]
    OBVIOUS
  <2>1. PICK a \in Processor : Publish(a) \/ Start(a)
    BY DEF Next, ProcessorStep, TryLock, FindNothing, Claim, Apply, Commit, Retry, Fail,
           CommitUnheard, Crash, Accept, Reset
  <2>2. published' = [published EXCEPT ![a] = pending[a].event]
        \/ published' = [published EXCEPT ![a] = 0]
    BY <2>1 DEF Publish, Start
  <2>3. published \in [Processor -> Nat]
    BY DEF Inv, ControlTypes
  <2>4. Publish(a) /\ a = p
    BY <2>1, <2>2, <2>3 DEF Publish, Start
  <2>5. published'[p] = pending[p].event /\ phase[p] = "committed"
    BY <2>3, <2>4 DEF Publish, At
  <2> QED BY <2>3, <2>5 DEF Inv, PendingIsNew
<1> HIDE DEF Told
<1>2. Spec => [][Told]_pvars
  BY <1>1, SpecInv, PTL DEF Spec
<1> QED BY <1>2 DEF BroadcastCommitted, Told

-----------------------------------------------------------------------------
(* Refinement of MarketLog                                                  *)

LEMMA MinIs ==
  ASSUME NEW S \in SUBSET Int, NEW m \in S, \A x \in S : m <= x
  PROVE  Min(S) = m
<1>1. \A x \in S : (\A y \in S : x <= y) <=> x = m
  OBVIOUS
<1> QED BY <1>1, Zenon DEF Min

LEMMA LeastOfNumbers ==
  ASSUME NEW S \in SUBSET Nat, S # {}
  PROVE  \E m \in S : \A x \in S : m <= x
<1>1. PICK m \in S : \A x \in S : <<x, m>> \notin OpToRel(<, Nat)
  BY NatLessThanWellFounded, WFMin
<1>2. ASSUME NEW x \in S PROVE m <= x
  <2>1. x \in Nat /\ m \in Nat
    OBVIOUS
  <2>2. ~(x < m)
    BY <1>1, <2>1, Zenon DEF OpToRel
  <2> QED BY <2>1, <2>2
<1> QED BY <1>2

(* Ids up to EventsOver are settled: only the lock holder's event is not.     *)
EventsOverHere ==
    /\ \A p \in Processor :
          phase[p] = "applied" => EventsOver = pending[p].event - 1
    /\ (\A p \in Processor : phase[p] # "applied") => EventsOver = nextEvent - 1
    /\ EventsOver \in Int /\ EventsOver < nextEvent
    /\ \A p \in Processor : phase[p] = "applied" => EventsOver < pending[p].event
    /\ \A n \in Int :
          /\ n < nextEvent
          /\ \A p \in Processor : phase[p] = "applied" => n < pending[p].event
          => n <= EventsOver

LEMMA EventsOverIs == Inv => EventsOverHere
<1> SUFFICES ASSUME Inv PROVE EventsOverHere
  OBVIOUS
<1> USE DEF Inv
<1> DEFINE open == {pending[p].event : p \in {o \in Processor : phase[o] = "applied"}}
<1>1. nextEvent \in Int
  BY DEF ControlTypes
<1>2. ASSUME NEW p \in Processor, phase[p] = "applied"
      PROVE  EventsOver = pending[p].event - 1
  <2>1. \A o \in Processor : phase[o] = "applied" => o = p
    BY <1>2 DEF OneWriter, InTransaction
  <2>2. pending[p].event \in Int /\ pending[p].event <= nextEvent
    BY <1>1, <1>2 DEF PendingIsNew
  <2>3. {nextEvent} \cup open = {nextEvent, pending[p].event}
    BY <1>2, <2>1
  <2>4. Min({nextEvent, pending[p].event}) = pending[p].event
    <3> DEFINE S == {nextEvent, pending[p].event}
        m == pending[p].event
    <3>1. S \in SUBSET Int /\ m \in S /\ \A x \in S : m <= x
      BY <1>1, <2>2
    <3> HIDE DEF S, m
    <3>2. Min(S) = m
      BY <3>1, MinIs
    <3> QED BY <3>2 DEF S, m
  <2> QED BY <2>3, <2>4 DEF EventsOver
<1>3. ASSUME \A p \in Processor : phase[p] # "applied"
      PROVE  EventsOver = nextEvent - 1
  <2>1. {nextEvent} \cup open = {nextEvent}
    BY <1>3
  <2>2. Min({nextEvent}) = nextEvent
    BY <1>1, MinIs
  <2> QED BY <2>1, <2>2 DEF EventsOver
<1>4. CASE \E p \in Processor : phase[p] = "applied"
  <2>1. PICK p \in Processor : phase[p] = "applied"
    BY <1>4
  <2>2. \A o \in Processor : phase[o] = "applied" => o = p
    BY <2>1 DEF OneWriter, InTransaction
  <2>3. /\ pending[p].event \in Int /\ pending[p].event < nextEvent
        /\ EventsOver = pending[p].event - 1
    BY <1>1, <1>2, <2>1 DEF PendingIsNew
  <2> QED BY <1>1, <2>1, <2>2, <2>3 DEF EventsOverHere
<1>5. CASE \A p \in Processor : phase[p] # "applied"
  BY <1>1, <1>3, <1>5 DEF EventsOverHere
<1> QED BY <1>4, <1>5

(* Sequences up to SequencesOver are settled: it is the last before the head  *)
(* of the queue.                                                            *)
SequencesOverHere ==
    /\ QueuedSequences = {} => SequencesOver = last
    /\ \A q \in QueuedSequences :
          (\A r \in QueuedSequences : q <= r) => SequencesOver = q - 1
    /\ SequencesOver \in Int /\ SequencesOver <= last
    /\ \A r \in QueuedSequences : SequencesOver < r
    /\ \A n \in Int : n <= last /\ (\A r \in QueuedSequences : n < r) => n <= SequencesOver

LEMMA SequencesOverIs == Inv => SequencesOverHere
<1> SUFFICES ASSUME Inv PROVE SequencesOverHere
  OBVIOUS
<1>1. /\ QueuedSequences \subseteq Nat /\ last \in Nat
      /\ \A q \in QueuedSequences : q \in 1..last
  BY DEF Inv, ControlTypes, QueuedSequences
<1>2. \A q \in QueuedSequences :
          (\A r \in QueuedSequences : q <= r) => SequencesOver = q - 1
  BY <1>1, MinIs DEF SequencesOver
<1>3. CASE QueuedSequences = {}
  <2>1. SequencesOver = last
    BY <1>3 DEF SequencesOver
  <2> QED BY <1>1, <1>2, <1>3, <2>1 DEF SequencesOverHere
<1>4. CASE QueuedSequences # {}
  <2>1. PICK q \in QueuedSequences : \A r \in QueuedSequences : q <= r
    BY <1>1, <1>4, LeastOfNumbers
  <2>2. SequencesOver = q - 1
    BY <1>2, <2>1
  <2> QED BY <1>1, <1>2, <1>4, <2>1, <2>2 DEF SequencesOverHere
<1> QED BY <1>3, <1>4

(* The same after a step.                                                   *)
LEMMA OverNext == Inv' => EventsOverHere' /\ SequencesOverHere'
  BY EventsOverIs, SequencesOverIs, PTL

(* The numbers of a step that leaves a market's events alone.               *)
LEMMA QuietStep ==
  ASSUME Inv, Inv', NEW symbol \in Symbol,
         EventsOver' >= EventsOver, SequencesOver' >= SequencesOver,
         events' = events \/ events' = NoRows
  PROVE  Market(symbol)!Next
<1>1. CASE events' = events
  <2>1. EventsOf(symbol)' = EventsOf(symbol)
    BY <1>1 DEF EventsOf
  <2> QED BY <2>1 DEF Market!Next, Market!NumbersGoOn
<1>2. CASE events' = NoRows
  <2>1. EventsOf(symbol)' = Market(symbol)!NoEvents
    BY <1>2 DEF EventsOf, NoRows, Market!NoEvents
  <2> QED BY <2>1 DEF Market!Next, Market!NumbersGoOn, Market!Erase
<1> QED BY <1>1, <1>2

(* The commit of the lock holder: its event is the next one of its market,     *)
(* and leaves the other markets alone.                                       *)
LEMMA InstallStep ==
  ASSUME Inv, Inv', NEW p \in Processor, phase[p] = "applied", Install(p),
         phase'[p] # "applied",
         \A o \in Processor \ {p} : phase'[o] = phase[o],
         nextEvent' = nextEvent, NEW symbol \in Symbol
  PROVE  Market(symbol)!Next
<1> DEFINE q == claim[p]
           n == pending[p].event
           row == [command |-> q, symbol |-> commands[q].request.symbol,
                   type |-> pending[p].type, error |-> pending[p].error]
<1>1. /\ \A o \in Processor \ {p} : phase[o] \notin InTransaction
      /\ q \in QueuedSequences /\ \A r \in QueuedSequences : q <= r
  BY DEF Inv, OneWriter, ClaimIsHead, InTransaction
<1>2. /\ q \in Nat /\ n \in Nat /\ n < nextEvent /\ nextEvent \in Nat
      /\ \A e \in DOMAIN events : e < n
      /\ DOMAIN events \subseteq Nat
  BY DEF Inv, PendingIsNew, ControlTypes
<1>3. EventsOver = n - 1 /\ EventsOver' = nextEvent - 1
  <2>1. \A o \in Processor : phase'[o] # "applied"
    BY <1>1 DEF InTransaction
  <2> QED BY <2>1, EventsOverIs, OverNext DEF EventsOverHere
<1>4. SequencesOver = q - 1 /\ SequencesOver' \in Int /\ SequencesOver' >= q
  <2>1. SequencesOver = q - 1
    BY <1>1, SequencesOverIs DEF SequencesOverHere
  <2>2. /\ DOMAIN commands' = DOMAIN commands
        /\ \A r \in DOMAIN commands : r # q => commands'[r] = commands[r]
        /\ last' = last /\ q <= last /\ last \in Nat
        /\ commands'[q].status \in {"completed", "rejected"}
    <3>1. /\ last \in Nat /\ DOMAIN commands \subseteq 1..last /\ q \in DOMAIN commands
          /\ commands \in [DOMAIN commands -> CommandRow]
      BY <1>1 DEF Inv, ControlTypes, QueuedSequences
    <3>2. commands' = [commands EXCEPT ![q].status = pending[p].status] /\ last' = last
      BY DEF Install, J!Finish
    <3>3. pending[p].status \in {"completed", "rejected"}
      BY DEF Inv, PendingIsNew
    <3>4. commands[q] \in CommandRow
      BY <3>1
    <3> DEFINE done == [commands[q] EXCEPT !.status = pending[p].status]
    <3>5. done.status = pending[p].status
      BY <3>4 DEF CommandRow
    <3>6. commands' = [commands EXCEPT ![q] = done]
      BY <3>1, <3>2
    <3> HIDE DEF done, q
    <3> QED BY <3>1, <3>2, <3>3, <3>5, <3>6
  <2>3. QueuedSequences' = QueuedSequences \ {q}
    BY <2>2 DEF QueuedSequences
  <2>4. \A r \in QueuedSequences' : q < r
    <3>1. QueuedSequences \subseteq Nat
      BY DEF Inv, ControlTypes, QueuedSequences
    <3> HIDE DEF q
    <3>2. ASSUME NEW r \in QueuedSequences \ {q} PROVE q < r
      <4>1. r \in Nat /\ q \in Nat /\ q <= r /\ r # q
        BY <1>1, <1>2, <3>1
      <4> QED BY <4>1
    <3> QED BY <2>3, <3>2
  <2>5. SequencesOver' \in Int /\ q <= SequencesOver'
    BY <1>2, <2>2, <2>4, OverNext DEF SequencesOverHere
  <2> QED BY <2>1, <2>5
<1>5. events' = [e \in DOMAIN events \cup {n} |-> IF e = n THEN row ELSE events[e]]
  BY DEF Install
<1>6. row.symbol = commands[q].request.symbol /\ row.command = q
  OBVIOUS
<1> HIDE DEF q, n, row
<1>7. CASE row.symbol = symbol
  <2>1. EventsOf(symbol)' = Market(symbol)!WithEvent(EventsOf(symbol), n, q)
    BY <1>2, <1>5, <1>6, <1>7 DEF EventsOf, Market!WithEvent
  <2>2. n \in (EventsOver + 1)..EventsOver' /\ q \in (SequencesOver + 1)..SequencesOver'
    BY <1>2, <1>3, <1>4
  <2>3. EventsOver' >= EventsOver /\ SequencesOver' >= SequencesOver
    BY <1>2, <1>3, <1>4
  <2> QED BY <2>1, <2>2, <2>3 DEF Market!Next, Market!NumbersGoOn, Market!Append
<1>8. CASE row.symbol # symbol
  <2>1. EventsOf(symbol)' = EventsOf(symbol)
    BY <1>2, <1>5, <1>8 DEF EventsOf
  <2>2. EventsOver' >= EventsOver /\ SequencesOver' >= SequencesOver
    BY <1>2, <1>3, <1>4
  <2> QED BY <2>1, <2>2 DEF Market!Next, Market!NumbersGoOn
<1> QED BY <1>7, <1>8

(* Neither number goes back as long as what is new is above what was there.   *)
LEMMA EventsGoOn ==
  ASSUME Inv, Inv', nextEvent' >= nextEvent,
         \A p \in Processor :
            phase'[p] = "applied" =>
               \/ phase[p] = "applied" /\ pending'[p] = pending[p]
               \/ pending'[p].event = nextEvent
  PROVE  EventsOver' >= EventsOver
<1>1. /\ nextEvent \in Nat /\ nextEvent' \in Nat
      /\ EventsOver \in Int /\ EventsOver < nextEvent
      /\ \A p \in Processor : phase[p] = "applied" => EventsOver < pending[p].event
  BY EventsOverIs DEF EventsOverHere, Inv, ControlTypes
<1>2. /\ EventsOver < nextEvent'
      /\ \A p \in Processor : phase'[p] = "applied" => EventsOver < pending'[p].event
  BY <1>1
<1> QED BY <1>1, <1>2, OverNext DEF EventsOverHere

LEMMA SequencesGoOn ==
  ASSUME Inv, Inv', last' >= last,
         \A r \in QueuedSequences' : r \in QueuedSequences \/ r > last
  PROVE  SequencesOver' >= SequencesOver
<1>1. /\ last \in Nat /\ last' \in Nat
      /\ SequencesOver \in Int /\ SequencesOver <= last
      /\ \A r \in QueuedSequences : SequencesOver < r
  BY SequencesOverIs DEF SequencesOverHere, Inv, ControlTypes
<1>2. \A r \in QueuedSequences' : r \in Int
  BY DEF Inv, ControlTypes, QueuedSequences
<1>3. \A r \in QueuedSequences' : SequencesOver < r
  BY <1>1, <1>2
<1> QED BY <1>1, <1>3, OverNext DEF SequencesOverHere

LEMMA QuietSteps ==
  ASSUME Inv, Inv', NEW symbol \in Symbol, nextEvent' >= nextEvent, last' >= last,
         \A p \in Processor :
            phase'[p] = "applied" =>
               \/ phase[p] = "applied" /\ pending'[p] = pending[p]
               \/ pending'[p].event = nextEvent,
         \A r \in QueuedSequences' : r \in QueuedSequences \/ r > last,
         events' = events \/ events' = NoRows
  PROVE  Market(symbol)!Next
BY EventsGoOn, SequencesGoOn, QuietStep

LEMMA MarketStep ==
  ASSUME Inv, Inv', [Next]_pvars, NEW symbol \in Symbol
  PROVE  Market(symbol)!Next
<1>1. nextEvent \in Nat /\ last \in Nat /\ phase \in [Processor -> Phase]
  BY DEF Inv, ControlTypes
<1>2. ASSUME NEW p \in Processor,
             TryLock(p) \/ FindNothing(p) \/ Claim(p) \/ Publish(p) \/ Retry(p)
                \/ Start(p) \/ Fail(p) \/ Crash(p)
      PROVE  Market(symbol)!Next
  <2>1. /\ UNCHANGED <<commands, last, events, nextEvent>>
        /\ phase'[p] # "applied"
        /\ \A o \in Processor \ {p} : phase'[o] = phase[o] /\ pending'[o] = pending[o]
    BY <1>1, <1>2 DEF TryLock, FindNothing, Claim, Publish, Retry, Start, Fail, Crash, At,
              Rollback, Inv, ControlTypes
  <2>2. QueuedSequences' = QueuedSequences
    BY <2>1 DEF QueuedSequences
  <2> QED BY <1>1, <2>1, <2>2, QuietSteps
<1>3. ASSUME NEW p \in Processor, Apply(p) PROVE Market(symbol)!Next
  <2>1. /\ UNCHANGED <<commands, last, events>> /\ nextEvent' >= nextEvent
        /\ phase'[p] = "applied" => pending'[p].event = nextEvent
        /\ \A o \in Processor \ {p} : phase'[o] = phase[o] /\ pending'[o] = pending[o]
    BY <1>1, <1>3 DEF Apply, Rollback, Inv, ControlTypes
  <2>2. QueuedSequences' = QueuedSequences
    BY <2>1 DEF QueuedSequences
  <2> QED BY <1>1, <2>1, <2>2, QuietSteps
<1>4. ASSUME NEW p \in Processor, Commit(p) \/ CommitUnheard(p)
      PROVE  Market(symbol)!Next
  <2>1. phase[p] = "applied" /\ Install(p) /\ nextEvent' = nextEvent
    BY <1>4 DEF Commit, CommitUnheard, At
  <2>2. /\ phase'[p] # "applied"
        /\ \A o \in Processor \ {p} : phase'[o] = phase[o]
    BY <1>1, <1>4 DEF Commit, CommitUnheard, At
  <2> QED BY <2>1, <2>2, InstallStep
<1>5. CASE Accept
  <2>1. PICK key \in Key, r \in Request, q \in (last + 1)..MaxSequence :
            J!Accept(key, r, q)
    BY <1>5 DEF Accept
  <2>2. UNCHANGED <<events, nextEvent, phase, pending>>
    BY <1>5 DEF Accept
  <2>3. q > last /\ last' = q
    BY <2>1 DEF J!Accept
  <2>4. \A t \in QueuedSequences' : t \in QueuedSequences \/ t = q
    BY <2>1 DEF J!Accept, J!WithCommand, QueuedSequences
  <2> QED BY <1>1, <2>2, <2>3, <2>4, QuietSteps
<1>6. CASE Reset
  <2>1. UNCHANGED <<last, nextEvent, phase, pending>> /\ events' = NoRows
    BY <1>6 DEF Reset, J!Erase
  <2>2. QueuedSequences' = {}
    BY <1>6 DEF Reset, J!Erase, J!NoCommands, QueuedSequences
  <2> QED BY <1>1, <2>1, <2>2, QuietSteps
<1>7. CASE UNCHANGED pvars
  <2>1. QueuedSequences' = QueuedSequences
    BY <1>7 DEF pvars, QueuedSequences
  <2> QED BY <1>1, <1>7, <2>1, QuietSteps DEF pvars
<1> QED BY <1>2, <1>3, <1>4, <1>5, <1>6, <1>7 DEF Next, ProcessorStep

(* In each market events become visible one at a time, upwards in id and in    *)
(* command, for ever, even where ids are taken by rolled back attempts: what   *)
(* the streams' cursors rely on.                                            *)
THEOREM ProcessorImplementsMarketLog == Spec => ImplementsMarketLog
<1>1. Init => \A symbol \in Symbol : Market(symbol)!Init
  <2> SUFFICES ASSUME Init, NEW symbol \in Symbol PROVE Market(symbol)!Init
    OBVIOUS
  <2>1. /\ commands = [s \in {} |-> 0] /\ last = 0
        /\ events = NoRows /\ nextEvent = 1
        /\ \A p \in Processor : phase[p] # "applied"
    BY DEF Init, J!Init, J!NoCommands
  <2>2. EventsOf(symbol) = Market(symbol)!NoEvents
    BY <2>1 DEF EventsOf, NoRows, Market!NoEvents
  <2>3. EventsOver = 0
    BY <2>1, InitInv, EventsOverIs DEF EventsOverHere
  <2>4. SequencesOver = 0
    BY <2>1 DEF SequencesOver, QueuedSequences
  <2> QED BY <2>2, <2>3, <2>4 DEF Market!Init
<1> DEFINE Steps == \A symbol \in Symbol : Market(symbol)!Next
<1>2. Inv /\ Inv' /\ [Next]_pvars => [Steps]_pvars
  BY MarketStep
<1> HIDE DEF Steps
<1>3. Spec => [][Steps]_pvars
  BY <1>2, SpecInv, PTL DEF Spec
<1> QED BY <1>1, <1>3 DEF ImplementsMarketLog, Spec, Steps

-----------------------------------------------------------------------------
(* The tables are the replay of the finished commands.  Replay is a recursive  *)
(* function: what it is for a sequence, given the one before, is proved from   *)
(* the least sequence for which it is not.                                   *)

ReplayStep(f, q) ==
    IF q = 0 THEN [orders |-> NoRows, trades |-> {}]
    ELSE IF q \in FinishedSequences THEN AppliedTo(f[q - 1], q)
    ELSE f[q - 1]

LEMMA ReplayUpTo ==
  ASSUME NEW n \in Nat
  PROVE  \E g : g = [q \in 0..n |-> ReplayStep(g, q)]
<1> DEFINE P(m) == \E g : g = [q \in 0..m |-> ReplayStep(g, q)]
           bad == {m \in Nat : ~P(m)}
<1>1. P(0)
  <2> DEFINE g == [q \in 0..0 |-> [orders |-> NoRows, trades |-> {}]]
  <2>1. g = [q \in 0..0 |-> ReplayStep(g, q)]
    BY DEF ReplayStep
  <2> QED BY <2>1
<1>2. ASSUME NEW m \in Nat, P(m) PROVE P(m + 1)
  <2>1. PICK g : g = [q \in 0..m |-> ReplayStep(g, q)]
    BY <1>2
  <2> DEFINE h == [q \in 0..(m + 1) |-> IF q = m + 1 THEN ReplayStep(g, m + 1) ELSE g[q]]
  <2>2. ASSUME NEW q \in 0..(m + 1) PROVE h[q] = ReplayStep(h, q)
    <3>1. CASE q = m + 1
      BY <3>1 DEF ReplayStep
    <3>2. CASE q # m + 1
      <4>1. q \in 0..m
        BY <3>2
      <4>2. h[q] = g[q] /\ g[q] = ReplayStep(g, q)
        BY <2>1, <3>2, <4>1
      <4>3. q # 0 => q - 1 \in 0..(m + 1) /\ q - 1 # m + 1
        BY <4>1
      <4>4. q # 0 => h[q - 1] = g[q - 1]
        BY <4>3
      <4> HIDE DEF h
      <4> QED BY <4>2, <4>4 DEF ReplayStep
    <3> QED BY <3>1, <3>2
  <2>3. h = [q \in 0..(m + 1) |-> ReplayStep(h, q)]
    BY <2>2
  <2> QED BY <2>3
<1>3. bad = {}
  <2> HIDE DEF P
  <2> SUFFICES ASSUME bad # {} PROVE FALSE
    OBVIOUS
  <2>1. PICK m \in bad : \A k \in bad : m <= k
    BY LeastOfNumbers
  <2>2. m # 0
    BY <1>1
  <2>3. m - 1 \in Nat /\ m - 1 \notin bad
    BY <2>1, <2>2
  <2>4. P(m - 1)
    BY <2>3
  <2>5. P((m - 1) + 1)
    BY <1>2, <2>3, <2>4
  <2> QED BY <2>1, <2>3, <2>5
<1> HIDE DEF P
<1>4. P(n)
  BY <1>3
<1> QED BY <1>4 DEF P

LEMMA ReplayIs ==
  last \in Nat =>
     /\ Replay = [q \in 0..last |-> ReplayStep(Replay, q)]
<1> SUFFICES ASSUME last \in Nat PROVE Replay = [q \in 0..last |-> ReplayStep(Replay, q)]
  OBVIOUS
<1>1. \E g : g = [q \in 0..last |-> ReplayStep(g, q)]
  BY ReplayUpTo
<1>2. Replay = CHOOSE g : g = [q \in 0..last |-> ReplayStep(g, q)]
  BY Zenon DEF Replay, ReplayStep
<1> QED BY <1>1, <1>2, Zenon

(* The replay of a sequence with a command to apply, and of one without.      *)
ReplayUnfolds ==
    /\ Replay[0] = [orders |-> NoRows, trades |-> {}]
    /\ \A q \in 1..last :
          Replay[q] = IF q \in FinishedSequences THEN AppliedTo(Replay[q - 1], q)
                                                 ELSE Replay[q - 1]

LEMMA ReplayHere == last \in Nat => ReplayUnfolds
<1> SUFFICES ASSUME last \in Nat PROVE ReplayUnfolds
  OBVIOUS
<1>1. \A q \in 0..last : Replay[q] = ReplayStep(Replay, q)
  BY ReplayIs
<1>2. 0 \in 0..last /\ \A q \in 1..last : q \in 0..last /\ q # 0
  OBVIOUS
<1> QED BY <1>1, <1>2 DEF ReplayUnfolds, ReplayStep

LEMMA ReplayNext == (last \in Nat)' => ReplayUnfolds'
  BY ReplayHere, PTL

(* Nothing is applied after the last finished command.                       *)
ReplayEnds ==
    \A n \in 0..last :
        (\A q \in FinishedSequences : q <= n) => Replay[last] = Replay[n]

LEMMA ReplayEndsHere == last \in Nat /\ FinishedSequences \subseteq Nat => ReplayEnds
<1> SUFFICES ASSUME last \in Nat, FinishedSequences \subseteq Nat, NEW n \in 0..last,
                    \A q \in FinishedSequences : q <= n
             PROVE  Replay[last] = Replay[n]
  BY DEF ReplayEnds
<1> DEFINE bad == {k \in Nat : n + k <= last /\ Replay[n + k] # Replay[n]}
<1>1. bad = {}
  <2> SUFFICES ASSUME bad # {} PROVE FALSE
    OBVIOUS
  <2>1. PICK k \in bad : \A j \in bad : k <= j
    BY LeastOfNumbers
  <2>2. k # 0 /\ k - 1 \in Nat /\ n + (k - 1) <= last
    BY <2>1
  <2>3. Replay[n + (k - 1)] = Replay[n]
    BY <2>1, <2>2
  <2>4. n + k \in 1..last /\ (n + k) - 1 = n + (k - 1) /\ n + k \notin FinishedSequences
    BY <2>1, <2>2
  <2>5. Replay[n + k] = Replay[n + (k - 1)]
    BY <2>4, ReplayHere DEF ReplayUnfolds
  <2> QED BY <2>1, <2>3, <2>5
<1>2. \A k \in Nat : n + k <= last => Replay[n + k] = Replay[n]
  BY <1>1
<1>3. PICK k \in Nat : n + k = last
  <2>1. last - n \in Nat /\ n + (last - n) = last
    OBVIOUS
  <2> QED BY <2>1
<1> QED BY <1>2, <1>3

LEMMA ReplayEndsNext ==
  (last \in Nat /\ FinishedSequences \subseteq Nat)' => ReplayEnds'
  BY ReplayEndsHere, PTL

(* A step that finishes nothing up to n leaves the replay up to n as it was.   *)
LEMMA ReplayAgrees ==
  ASSUME last \in Nat, last' \in Nat, NEW n \in 0..last, n <= last',
         \A q \in 1..n :
            /\ q \in FinishedSequences' <=> q \in FinishedSequences
            /\ q \in FinishedSequences => commands'[q].request = commands[q].request
  PROVE  Replay'[n] = Replay[n]
<1> DEFINE bad == {k \in 0..n : Replay'[k] # Replay[k]}
<1>1. ASSUME bad # {} PROVE FALSE
  <2>1. PICK k \in bad : \A j \in bad : k <= j
    <3>1. bad \in SUBSET Nat
      OBVIOUS
    <3> HIDE DEF bad
    <3> QED BY <1>1, <3>1, LeastOfNumbers
  <2>2. CASE k = 0
    BY <2>1, <2>2, ReplayHere, ReplayNext DEF ReplayUnfolds
  <2>3. CASE k # 0
    <3>1. /\ k \in 1..n /\ k \in 1..last /\ k \in 1..last'
          /\ k - 1 \in 0..n /\ k - 1 \notin bad
      BY <2>1, <2>3
    <3>2. Replay'[k - 1] = Replay[k - 1]
      BY <3>1
    <3>3. Replay[k] = IF k \in FinishedSequences THEN AppliedTo(Replay[k - 1], k)
                                                 ELSE Replay[k - 1]
      BY <3>1, ReplayHere DEF ReplayUnfolds
    <3>4. Replay'[k] = IF k \in FinishedSequences' THEN AppliedTo(Replay[k - 1], k)'
                                                   ELSE Replay'[k - 1]
      BY <3>1, ReplayNext DEF ReplayUnfolds
    <3>5. k \in FinishedSequences => AppliedTo(Replay[k - 1], k)' = AppliedTo(Replay[k - 1], k)
      BY <3>1, <3>2 DEF AppliedTo
    <3>6. Replay'[k] = Replay[k]
      BY <3>1, <3>2, <3>3, <3>4, <3>5
    <3> QED BY <2>1, <3>6
  <2> QED BY <2>2, <2>3
<1> QED BY <1>1

(* What the lock holder has flushed is the outcome of its command on the       *)
(* committed tables.                                                        *)
FlushedIsOutcome ==
    \A p \in Processor :
        phase[p] = "applied" =>
            LET result == OutcomeOf(orders, trades, claim[p], commands[claim[p]].request)
            IN  /\ pending[p].rows = result.rows /\ pending[p].trades = result.trades
                /\ pending[p].status = result.status

ReplayInv == FlushedIsOutcome /\ MarketIsReplay

LEMMA ReplaySame ==
  ASSUME Inv, UNCHANGED <<commands, last>>
  PROVE  Replay'[last] = Replay[last]
<1>1. last \in Nat /\ last' \in Nat /\ last \in 0..last /\ last <= last'
  BY DEF Inv, ControlTypes
<1>2. FinishedSequences' = FinishedSequences
  BY DEF FinishedSequences, QueuedSequences
<1> QED BY <1>1, <1>2, ReplayAgrees

(* A step that touches neither the tables nor the flushed writes.            *)
LEMMA ReplayUntouched ==
  ASSUME Inv, ReplayInv, UNCHANGED <<commands, last, orders, trades>>,
         \A p \in Processor :
            phase'[p] = "applied" =>
               phase[p] = "applied" /\ pending'[p] = pending[p] /\ claim'[p] = claim[p]
  PROVE  ReplayInv'
<1>1. Replay'[last] = Replay[last]
  BY ReplaySame
<1>2. MarketIsReplay'
  BY <1>1 DEF ReplayInv, MarketIsReplay
<1>3. FlushedIsOutcome'
  BY DEF ReplayInv, FlushedIsOutcome
<1> QED BY <1>2, <1>3 DEF ReplayInv

LEMMA ReplayOfApply ==
  ASSUME Inv, ReplayInv, NEW p \in Processor, Apply(p)
  PROVE  ReplayInv'
<1> DEFINE result == OutcomeOf(orders, trades, claim[p], commands[claim[p]].request)
<1>1. /\ phase[p] = "claimed"
      /\ UNCHANGED <<commands, last, orders, trades, events, published, faults>>
      /\ IF result.status = "queued"
           THEN phase' = [phase EXCEPT ![p] = "backoff"]
           ELSE /\ phase' = [phase EXCEPT ![p] = "applied"]
                /\ pending' = [pending EXCEPT ![p] =
                      [status |-> result.status, rows |-> result.rows,
                       trades |-> result.trades, type |-> result.type,
                       error |-> result.error, event |-> nextEvent]]
                /\ claim' = claim
  BY Zenon DEF Apply
<1>2. \A o \in Processor \ {p} : phase[o] # "applied" /\ phase'[o] = phase[o]
  BY <1>1 DEF Inv, OneWriter, InTransaction, ControlTypes
<1>3. Replay'[last] = Replay[last]
  BY <1>1, ReplaySame
<1>4. MarketIsReplay'
  BY <1>1, <1>3 DEF ReplayInv, MarketIsReplay
<1>5. phase'[p] = "applied" =>
         /\ pending'[p].rows = result.rows /\ pending'[p].trades = result.trades
         /\ pending'[p].status = result.status /\ claim'[p] = claim[p]
  BY <1>1 DEF Inv, ControlTypes
<1>6. FlushedIsOutcome'
  BY <1>1, <1>2, <1>5 DEF FlushedIsOutcome
<1> QED BY <1>4, <1>6 DEF ReplayInv

LEMMA ReplayOfInstall ==
  ASSUME Inv, Inv', ReplayInv, NEW p \in Processor, phase[p] = "applied", Install(p),
         \A o \in Processor : phase'[o] # "applied"
  PROVE  ReplayInv'
<1> DEFINE q == claim[p]
           result == OutcomeOf(orders, trades, q, commands[q].request)
<1>1. /\ q \in QueuedSequences /\ \A r \in QueuedSequences : q <= r
      /\ pending[p].status \in {"completed", "rejected"}
      /\ last \in Nat /\ DOMAIN commands \subseteq 1..last /\ q \in 1..last
  BY DEF Inv, OneWriter, ClaimIsHead, ControlTypes, PendingIsNew, QueuedSequences
<1>2. /\ DOMAIN commands' = DOMAIN commands /\ last' = last
      /\ \A r \in DOMAIN commands : r # q => commands'[r] = commands[r]
      /\ commands'[q].status = pending[p].status
      /\ commands'[q].request = commands[q].request
  BY <1>1 DEF Inv, ControlTypes, Install, J!Finish, CommandRow, QueuedSequences
<1>3. /\ FinishedSequences' = FinishedSequences \cup {q}
      /\ FinishedSequences \subseteq 1..(q - 1)
  <2>1. FinishedSequences' = FinishedSequences \cup {q}
    BY <1>1, <1>2 DEF FinishedSequences, QueuedSequences
  <2>2. \A r \in FinishedSequences : r \in 1..last /\ r < q
    BY <1>1 DEF Inv, FinishedInOrder, FinishedSequences
  <2> QED BY <1>1, <2>1, <2>2
<1>4. Replay[last] = Replay[q - 1]
  BY <1>1, <1>3, ReplayEndsHere DEF ReplayEnds
<1>5. Replay'[q - 1] = Replay[q - 1]
  <2>1. q - 1 \in 0..last /\ q - 1 <= last' /\ last' \in Nat
    BY <1>1, <1>2
  <2>2. ASSUME NEW r \in 1..(q - 1)
        PROVE  /\ r \in FinishedSequences' <=> r \in FinishedSequences
               /\ r \in FinishedSequences => commands'[r].request = commands[r].request
    <3>1. r # q
      BY <1>1
    <3> QED BY <1>2, <1>3, <3>1 DEF FinishedSequences
  <2> HIDE DEF q
  <2> QED BY <1>1, <2>1, <2>2, ReplayAgrees
<1>6. Replay'[q] = AppliedTo(Replay[q - 1], q)
  <2> HIDE DEF q
  <2>1. q \in 1..last' /\ q \in FinishedSequences' /\ (last \in Nat)'
    BY <1>1, <1>2, <1>3
  <2>2. Replay'[q] = [orders |-> Persisted(Replay'[q - 1].orders,
                         OutcomeOf(Replay'[q - 1].orders, Replay'[q - 1].trades, q,
                                   commands'[q].request).rows),
                      trades |-> Replay'[q - 1].trades
                         \cup OutcomeOf(Replay'[q - 1].orders, Replay'[q - 1].trades, q,
                                        commands'[q].request).trades]
    BY <2>1, ReplayNext DEF ReplayUnfolds, AppliedTo
  <2> QED BY <1>2, <1>5, <2>2 DEF AppliedTo
<1>7. Replay'[last] = Replay'[q]
  <2> HIDE DEF q
  <2>1. (last \in Nat /\ FinishedSequences \subseteq Nat)'
    BY <1>1, <1>2, <1>3
  <2>2. q \in 0..last' /\ \A r \in FinishedSequences' : r <= q
    BY <1>1, <1>2, <1>3
  <2>3. ReplayEnds'
    BY <2>1, ReplayEndsNext
  <2> QED BY <1>2, <2>2, <2>3 DEF ReplayEnds
<1>8. Replay[q - 1] = [orders |-> orders, trades |-> trades]
  BY <1>4 DEF ReplayInv, MarketIsReplay
<1>9. /\ orders' = Persisted(orders, result.rows)
      /\ trades' = trades \cup result.trades
  BY DEF Install, ReplayInv, FlushedIsOutcome
<1>10. MarketIsReplay'
  <2>1. AppliedTo([orders |-> orders, trades |-> trades], q)
           = [orders |-> orders', trades |-> trades']
    BY <1>9 DEF AppliedTo
  <2> QED BY <1>2, <1>6, <1>7, <1>8, <2>1 DEF MarketIsReplay
<1> QED BY <1>10 DEF ReplayInv, FlushedIsOutcome

LEMMA ReplayOfAccept == ASSUME Inv, Inv', ReplayInv, Accept PROVE ReplayInv'
<1>1. PICK key \in Key, r \in Request, q \in (last + 1)..MaxSequence :
          J!Accept(key, r, q)
  BY DEF Accept
<1>2. UNCHANGED <<orders, trades, phase, claim, pending>>
  BY DEF Accept
<1>3. /\ q \in Nat /\ q > last /\ last \in Nat /\ last' = q
      /\ last \in 0..last /\ last <= last' /\ last \in 0..last'
  BY <1>1 DEF J!Accept, Inv, ControlTypes
<1>4. /\ DOMAIN commands' = DOMAIN commands \cup {q}
      /\ commands'[q].status = "queued"
      /\ \A t \in DOMAIN commands : commands'[t] = commands[t]
      /\ q \notin DOMAIN commands
  BY <1>1, <1>3 DEF J!Accept, J!WithCommand, J!Queued, Inv, ControlTypes
<1>5. FinishedSequences' = FinishedSequences
  BY <1>4 DEF QueuedSequences, FinishedSequences
<1>6. FinishedSequences \subseteq 1..last
  BY DEF FinishedSequences, Inv, ControlTypes
<1>7. Replay'[last] = Replay[last]
  <2>1. \A t \in FinishedSequences : commands'[t] = commands[t]
    BY <1>4 DEF FinishedSequences
  <2> QED BY <1>3, <1>5, <2>1, ReplayAgrees
<1>8. Replay'[last'] = Replay'[last]
  <2>1. (last \in Nat /\ FinishedSequences \subseteq Nat)'
    BY <1>3, <1>5, <1>6
  <2>2. ReplayEnds'
    BY <2>1, ReplayEndsNext
  <2>3. \A t \in FinishedSequences' : t <= last
    BY <1>3, <1>5, <1>6
  <2> QED BY <1>3, <2>2, <2>3 DEF ReplayEnds
<1>9. MarketIsReplay'
  BY <1>2, <1>7, <1>8 DEF ReplayInv, MarketIsReplay
<1>10. FlushedIsOutcome'
  <2>1. \A p \in Processor : phase[p] = "applied" => claim[p] \in DOMAIN commands
    BY DEF Inv, ClaimIsHead, QueuedSequences
  <2> QED BY <1>2, <1>4, <2>1 DEF ReplayInv, FlushedIsOutcome
<1> QED BY <1>9, <1>10 DEF ReplayInv

LEMMA ReplayOfReset == ASSUME Inv, Inv', ReplayInv, Reset PROVE ReplayInv'
<1>1. /\ commands' = J!NoCommands /\ last' = last
      /\ orders' = NoRows /\ trades' = {} /\ phase' = phase
  BY DEF Reset, J!Erase
<1>2. FinishedSequences' = {}
  BY <1>1 DEF J!NoCommands, FinishedSequences
<1>3. (last \in Nat /\ FinishedSequences \subseteq Nat)'
  BY <1>1, <1>2 DEF Inv, ControlTypes
<1>4. Replay'[last'] = Replay'[0] /\ Replay'[0] = [orders |-> NoRows, trades |-> {}]
  <2>1. ReplayEnds' /\ ReplayUnfolds'
    BY <1>3, ReplayEndsNext, ReplayNext
  <2>2. 0 \in 0..last'
    BY <1>3
  <2> QED BY <1>2, <2>1, <2>2 DEF ReplayEnds, ReplayUnfolds
<1>5. MarketIsReplay'
  BY <1>1, <1>4 DEF MarketIsReplay, NoRows
<1>6. FlushedIsOutcome'
  BY <1>1 DEF FlushedIsOutcome, Reset, TablesUnused
<1> QED BY <1>5, <1>6 DEF ReplayInv

LEMMA ReplayStays == Inv /\ Inv' /\ ReplayInv /\ [Next]_pvars => ReplayInv'
<1> SUFFICES ASSUME Inv, Inv', ReplayInv, [Next]_pvars PROVE ReplayInv'
  OBVIOUS
<1> USE DEF Inv, ControlTypes
<1>1. ASSUME NEW p \in Processor,
             TryLock(p) \/ FindNothing(p) \/ Claim(p) \/ Publish(p) \/ Retry(p)
                \/ Start(p) \/ Fail(p) \/ Crash(p)
      PROVE  ReplayInv'
  <2>1. /\ UNCHANGED <<commands, last, orders, trades>>
        /\ phase'[p] # "applied"
        /\ \A o \in Processor \ {p} :
              phase'[o] = phase[o] /\ pending'[o] = pending[o] /\ claim'[o] = claim[o]
    BY <1>1 DEF TryLock, FindNothing, Claim, Publish, Retry, Start, Fail, Crash, At,
                Rollback, Release
  <2> QED BY <2>1, ReplayUntouched
<1>2. ASSUME NEW p \in Processor, Commit(p) \/ CommitUnheard(p)
      PROVE  ReplayInv'
  <2>1. phase[p] = "applied" /\ Install(p)
    BY <1>2 DEF Commit, CommitUnheard, At
  <2>2. \A o \in Processor : phase'[o] # "applied"
    BY <1>2, <2>1 DEF Commit, CommitUnheard, At, OneWriter, InTransaction
  <2> QED BY <2>1, <2>2, ReplayOfInstall
<1>3. CASE UNCHANGED pvars
  BY <1>3, ReplayUntouched DEF pvars
<1> QED
  BY <1>1, <1>2, <1>3, ReplayOfApply, ReplayOfAccept, ReplayOfReset
  DEF Next, ProcessorStep

(* Whatever fails, dies or runs twice, the orders and trades are what applying  *)
(* the finished commands one by one, in the order of their sequences, to an    *)
(* empty market leaves: no command is applied twice, in part, or out of order. *)
THEOREM ProcessorMarketIsReplay == Spec => []MarketIsReplay
<1>1. Init => ReplayInv
  <2> SUFFICES ASSUME Init PROVE ReplayInv
    OBVIOUS
  <2>1. last = 0 /\ orders = NoRows /\ trades = {}
        /\ \A p \in Processor : phase[p] # "applied"
    BY DEF Init, J!Init
  <2>2. Replay[0] = [orders |-> NoRows, trades |-> {}]
    BY <2>1, ReplayHere DEF ReplayUnfolds
  <2> QED BY <2>1, <2>2 DEF ReplayInv, MarketIsReplay, FlushedIsOutcome
<1>2. Inv /\ Inv' /\ ReplayInv /\ [Next]_pvars => ReplayInv'
  BY ReplayStays
<1>3. ReplayInv => MarketIsReplay
  BY DEF ReplayInv
<1> QED BY <1>1, <1>2, <1>3, SpecInv, PTL DEF Spec

-----------------------------------------------------------------------------
(* The ledger of orders and trades.  It rests on what a sum is, and on what     *)
(* price-time matching allots: the quantity is served to the makers in their   *)
(* order, so that only the last one reached keeps anything, and whoever        *)
(* crosses a taker that rests has nothing left.                              *)

(* Sums, as in MatchingEngine_proofs.  The sum of f over S is the number of    *)
(* units that f gives its members, so it depends on no order of adding up.    *)

Total(f, S) == SumFunctionOnSet(f, S)

Weights(f, S) == IsFiniteSet(S) /\ \A x \in S : f[x] \in Nat

Units(f, S) == UNION {{x} \X (1..f[x]) : x \in S}

(* What SumFunctionOnSet computes with.                                      *)
SumStep(f, S, iter) ==
    [s \in SUBSET S |->
        IF s = {} THEN 0
        ELSE f[CHOOSE x \in s : TRUE] + iter[s \ {CHOOSE x \in s : TRUE}]]

SumsOf(f, S) == CHOOSE iter : iter = SumStep(f, S, iter)

LEMMA TotalIsLast ==
  ASSUME NEW f, NEW S
  PROVE  Total(f, S) = SumsOf(f, S)[S]
BY DEF Total, SumFunctionOnSet, FoldFunctionOnSet, MapThenFoldSet, SumsOf, SumStep

LEMMA UnitsFinite ==
  ASSUME NEW f, NEW S, Weights(f, S)
  PROVE  IsFiniteSet(Units(f, S)) /\ Cardinality(Units(f, S)) \in Nat
<1> DEFINE unitsOf == [x \in S |-> {x} \X (1..f[x])]
           T == {{x} \X (1..f[x]) : x \in S}
<1>1. \A x \in S : IsFiniteSet({x} \X (1..f[x]))
  <2> SUFFICES ASSUME NEW x \in S PROVE IsFiniteSet({x} \X (1..f[x]))
    OBVIOUS
  <2>1. f[x] \in Int
    BY DEF Weights
  <2>2. IsFiniteSet({x})
    BY FS_Singleton
  <2>3. IsFiniteSet(1..f[x])
    BY <2>1, FS_Interval
  <2> QED BY <2>2, <2>3, FS_Product
<1>2. unitsOf \in Surjection(S, T)
  BY DEF Surjection
<1>3. IsFiniteSet(T)
  <2> HIDE DEF unitsOf, T
  <2> QED BY <1>2, FS_Surjection DEF Weights
<1>4. \A t \in T : IsFiniteSet(t)
  BY <1>1
<1>5. IsFiniteSet(UNION T)
  <2> HIDE DEF T
  <2> QED BY <1>3, <1>4, FS_UNION
<1> QED BY <1>5, FS_CardinalityType DEF Units

LEMMA UnitsGrow ==
  ASSUME NEW f, NEW S, Weights(f, S), NEW x \in S
  PROVE  Cardinality(Units(f, S)) = f[x] + Cardinality(Units(f, S \ {x}))
<1> DEFINE A == Units(f, S \ {x})
           B == {x} \X (1..f[x])
<1>1. Units(f, S) = A \cup B /\ A \cap B = {}
  BY DEF Units
<1>2. Weights(f, S \ {x})
  BY FS_RemoveElement DEF Weights
<1>3. IsFiniteSet(A) /\ Cardinality(A) \in Nat
  BY <1>2, UnitsFinite
<1>4. IsFiniteSet(B) /\ Cardinality(B) = f[x]
  <2>1. f[x] \in Nat
    BY DEF Weights
  <2>2. IsFiniteSet({x}) /\ Cardinality({x}) = 1
    BY FS_Singleton
  <2>3. IsFiniteSet(1..f[x]) /\ Cardinality(1..f[x]) = f[x]
    BY <2>1, FS_Interval
  <2>4. IsFiniteSet(B) /\ Cardinality(B) = Cardinality({x}) * Cardinality(1..f[x])
    BY <2>2, <2>3, FS_Product
  <2> QED BY <2>1, <2>2, <2>3, <2>4
<1> HIDE DEF A, B
<1>5. Cardinality(A \cup B) = Cardinality(A) + Cardinality(B) - Cardinality(A \cap B)
  BY <1>3, <1>4, FS_Union
<1>6. Cardinality(A \cap B) = 0 /\ f[x] \in Nat
  BY <1>1, FS_EmptySet DEF Weights
<1>7. Cardinality(A \cup B) = f[x] + Cardinality(A)
  BY <1>3, <1>4, <1>5, <1>6
<1> QED BY <1>1, <1>7 DEF A

LEMMA UnitsOfNone ==
  ASSUME NEW f
  PROVE  Cardinality(Units(f, {})) = 0
<1>1. Units(f, {}) = {}
  BY DEF Units
<1> QED BY <1>1, FS_EmptySet

LEMMA TotalIsUnits ==
  ASSUME NEW f, NEW S, Weights(f, S)
  PROVE  Total(f, S) = Cardinality(Units(f, S)) /\ Total(f, S) \in Nat
<1> DEFINE h == [s \in SUBSET S |-> Cardinality(Units(f, s))]
           sums == SumsOf(f, S)
           one(s) == CHOOSE x \in s : TRUE
<1>1. ASSUME NEW s \in SUBSET S PROVE Weights(f, s)
  BY FS_Subset DEF Weights
<1>2. \A s \in SUBSET S : s # {} => one(s) \in s /\ s \ {one(s)} \in SUBSET S
  OBVIOUS
<1> HIDE DEF one
<1>3. ASSUME NEW s \in SUBSET S, s # {}
      PROVE  Cardinality(Units(f, s)) = f[one(s)] + Cardinality(Units(f, s \ {one(s)}))
  BY <1>1, <1>2, <1>3, UnitsGrow
<1>4. SumStep(f, S, h) = [s \in SUBSET S |-> IF s = {} THEN 0
                                             ELSE f[one(s)] + h[s \ {one(s)}]]
  BY DEF SumStep, one
<1>5. h = SumStep(f, S, h)
  <2> SUFFICES ASSUME NEW s \in SUBSET S
               PROVE  h[s] = IF s = {} THEN 0 ELSE f[one(s)] + h[s \ {one(s)}]
    BY <1>4
  <2>1. CASE s = {}
    BY <2>1, UnitsOfNone
  <2>2. CASE s # {}
    <3>1. h[s \ {one(s)}] = Cardinality(Units(f, s \ {one(s)}))
      BY <1>2, <2>2
    <3> QED BY <1>3, <2>2, <3>1
  <2> QED BY <2>1, <2>2
<1>6. sums = SumStep(f, S, sums)
  <2> HIDE DEF h
  <2> QED BY <1>5, Zenon DEF SumsOf
<1>7. \A s \in SUBSET S : sums[s] = IF s = {} THEN 0
                                    ELSE f[one(s)] + sums[s \ {one(s)}]
  <2>1. SumStep(f, S, sums) = [s \in SUBSET S |-> IF s = {} THEN 0
                                                ELSE f[one(s)] + sums[s \ {one(s)}]]
    BY DEF SumStep, one
  <2> HIDE DEF sums
  <2> QED BY <1>6, <2>1
<1> HIDE DEF sums
<1>8. \A s \in SUBSET S : sums[s] = Cardinality(Units(f, s))
  <2> SUFFICES ASSUME NEW t \in SUBSET S, sums[t] # Cardinality(Units(f, t))
               PROVE  FALSE
    OBVIOUS
  <2> DEFINE sizes == {k \in Nat : \E s \in SUBSET S :
                          k = Cardinality(s) /\ sums[s] # Cardinality(Units(f, s))}
  <2>1. sizes \in SUBSET Nat /\ sizes # {}
    <3>1. Cardinality(t) \in Nat
      BY <1>1, FS_CardinalityType DEF Weights
    <3> QED BY <3>1
  <2>2. PICK k \in sizes : \A j \in sizes : k <= j
    <3> HIDE DEF sizes
    <3> QED BY <2>1, LeastOfNumbers
  <2>3. PICK s \in SUBSET S : k = Cardinality(s) /\ sums[s] # Cardinality(Units(f, s))
    OBVIOUS
  <2>4. s # {}
    BY <1>7, <2>3, UnitsOfNone
  <2>5. s \ {one(s)} \in SUBSET S /\ one(s) \in s
    BY <1>2, <2>4
  <2>6. /\ Cardinality(s) \in Nat
        /\ Cardinality(s \ {one(s)}) = Cardinality(s) - 1
        /\ Cardinality(s \ {one(s)}) \in Nat
    <3>1. IsFiniteSet(s)
      BY <1>1 DEF Weights
    <3> QED BY <2>5, <3>1, FS_RemoveElement, FS_CardinalityType
  <2>7. sums[s \ {one(s)}] = Cardinality(Units(f, s \ {one(s)}))
    <3> SUFFICES ASSUME sums[s \ {one(s)}] # Cardinality(Units(f, s \ {one(s)}))
                 PROVE  FALSE
      OBVIOUS
    <3>1. Cardinality(s \ {one(s)}) \in sizes
      BY <2>5, <2>6
    <3>2. k <= Cardinality(s \ {one(s)})
      <4> HIDE DEF sizes
      <4> QED BY <2>2, <3>1
    <3> QED BY <2>3, <2>6, <3>2
  <2> QED BY <1>3, <1>7, <2>3, <2>4, <2>7
<1>9. Total(f, S) = sums[S]
  BY TotalIsLast DEF sums
<1> QED BY <1>8, <1>9, UnitsFinite

(* Laws of Total.                                                            *)
LEMMA TotalOfNone ==
  ASSUME NEW f
  PROVE  Total(f, {}) = 0
<1>1. Weights(f, {})
  BY FS_EmptySet DEF Weights
<1> QED BY <1>1, TotalIsUnits, UnitsOfNone

LEMMA TotalOfSame ==
  ASSUME NEW f, NEW g, NEW S, Weights(f, S), \A x \in S : g[x] = f[x]
  PROVE  Total(g, S) = Total(f, S)
<1>1. Weights(g, S) /\ Units(g, S) = Units(f, S)
  BY DEF Weights, Units
<1> QED BY <1>1, TotalIsUnits

LEMMA TotalWithOne ==
  ASSUME NEW f, NEW S, Weights(f, S), NEW x, x \notin S, f[x] \in Nat
  PROVE  Total(f, S \cup {x}) = f[x] + Total(f, S)
<1> DEFINE T == S \cup {x}
<1>1. Weights(f, T) /\ x \in T
  BY FS_AddElement DEF Weights
<1>2. T \ {x} = S
  OBVIOUS
<1> HIDE DEF T
<1>3. Cardinality(Units(f, T)) = f[x] + Cardinality(Units(f, S))
  BY <1>1, <1>2, UnitsGrow
<1>4. Total(f, T) = f[x] + Total(f, S)
  BY <1>1, <1>3, TotalIsUnits
<1> QED BY <1>4 DEF T

LEMMA TotalVia ==
  ASSUME NEW S, NEW T, NEW b \in Bijection(S, T), NEW f, NEW g, Weights(f, S),
         \A x \in S : g[b[x]] = f[x]
  PROVE  /\ Total(g, T) = Total(f, S)
         /\ IsFiniteSet(T) /\ Cardinality(T) = Cardinality(S)
<1>1. /\ b \in [S -> T] /\ \A x, y \in S : b[x] = b[y] => x = y
      /\ \A t \in T : \E x \in S : b[x] = t
  BY DEF Bijection, Injection, Surjection, IsInjective
<1>2. IsFiniteSet(T) /\ Cardinality(T) = Cardinality(S)
  BY FS_Bijection DEF Weights, ExistsBijection
<1>3. Weights(g, T)
  BY <1>1, <1>2 DEF Weights
<1> DEFINE c == [u \in Units(f, S) |-> <<b[u[1]], u[2]>>]
<1>4. \A u : u \in Units(f, S) <=> \E x \in S : \E k \in 1..f[x] : u = <<x, k>>
  BY DEF Units
<1>5. \A u : u \in Units(g, T) <=> \E t \in T : \E k \in 1..g[t] : u = <<t, k>>
  BY DEF Units
<1>6. c \in Bijection(Units(f, S), Units(g, T))
  <2>1. ASSUME NEW u \in Units(f, S) PROVE c[u] \in Units(g, T)
    <3> PICK x \in S : \E k \in 1..f[x] : u = <<x, k>>
      BY <1>4
    <3>1. PICK k \in 1..f[x] : u = <<x, k>>
      OBVIOUS
    <3>2. c[u] = <<b[x], k>> /\ b[x] \in T /\ k \in 1..g[b[x]]
      BY <1>1, <3>1
    <3> QED BY <1>5, <3>2
  <2>2. ASSUME NEW u \in Units(f, S), NEW v \in Units(f, S), c[u] = c[v] PROVE u = v
    <3> PICK x \in S : \E k \in 1..f[x] : u = <<x, k>>
      BY <1>4
    <3>1. PICK k \in 1..f[x] : u = <<x, k>>
      BY <1>4
    <3> PICK y \in S : \E j \in 1..f[y] : v = <<y, j>>
      BY <1>4
    <3>2. PICK j \in 1..f[y] : v = <<y, j>>
      BY <1>4
    <3>3. c[u] = <<b[x], k>> /\ c[v] = <<b[y], j>>
      BY <3>1, <3>2
    <3> QED BY <1>1, <2>2, <3>1, <3>2, <3>3
  <2>3. ASSUME NEW w \in Units(g, T) PROVE \E u \in Units(f, S) : c[u] = w
    <3> PICK t \in T : \E k \in 1..g[t] : w = <<t, k>>
      BY <1>5
    <3>1. PICK k \in 1..g[t] : w = <<t, k>>
      BY <1>5
    <3>2. PICK x \in S : b[x] = t
      BY <1>1
    <3>3. <<x, k>> \in Units(f, S)
      BY <1>4, <3>1, <3>2
    <3>4. c[<<x, k>>] = w
      BY <3>1, <3>2, <3>3
    <3> QED BY <3>3, <3>4
  <2>4. c \in [Units(f, S) -> Units(g, T)]
    BY <2>1
  <2> HIDE DEF c
  <2> QED BY <2>2, <2>3, <2>4 DEF Bijection, Injection, Surjection, IsInjective
<1>7. Cardinality(Units(g, T)) = Cardinality(Units(f, S))
  <2> HIDE DEF c
  <2> QED BY <1>6, UnitsFinite, FS_Bijection DEF ExistsBijection
<1> QED BY <1>2, <1>3, <1>7, TotalIsUnits

(* More orders have no less between them.                                    *)
LEMMA TotalGrows ==
  ASSUME NEW f, NEW T, Weights(f, T), NEW S \in SUBSET T
  PROVE  Total(f, S) <= Total(f, T)
<1>1. Weights(f, S)
  BY FS_Subset DEF Weights
<1>2. Units(f, S) \subseteq Units(f, T)
  BY DEF Units
<1>3. Cardinality(Units(f, S)) <= Cardinality(Units(f, T))
  BY <1>2, UnitsFinite, FS_Subset
<1> QED BY <1>1, <1>3, TotalIsUnits

-----------------------------------------------------------------------------
(* Price-time matching                                                      *)

LEMMA MinOfTwo ==
  ASSUME NEW x \in Nat, NEW y \in Nat
  PROVE  Min({x, y}) = IF x <= y THEN x ELSE y
<1> DEFINE S == {x, y}
           m == IF x <= y THEN x ELSE y
<1>1. S \in SUBSET Int /\ m \in S /\ \A z \in S : m <= z
  OBVIOUS
<1> HIDE DEF S, m
<1>2. Min(S) = m
  BY <1>1, MinIs
<1> QED BY <1>2 DEF S, m

LEMMA MaxIs ==
  ASSUME NEW S \in SUBSET Int, NEW m \in S, \A x \in S : x <= m
  PROVE  Max(S) = m
<1>1. \A x \in S : m >= x
  OBVIOUS
<1>2. ASSUME NEW k \in S, \A x \in S : k >= x PROVE k = m
  BY <1>1, <1>2
<1> QED BY <1>1, <1>2, Zenon DEF Max

LEMMA LeftOver ==
  ASSUME NEW x \in Int
  PROVE  Max({0, x}) = IF x > 0 THEN x ELSE 0
<1> DEFINE S == {0, x}
           m == IF x > 0 THEN x ELSE 0
<1>1. S \in SUBSET Int /\ m \in S /\ \A y \in S : y <= m
  OBVIOUS
<1> HIDE DEF S, m
<1>2. Max(S) = m
  BY <1>1, MaxIs
<1> QED BY <1>2 DEF S, m

(* What an open book is: for each order its side, price and sequence, which   *)
(* no other has, and what remains of it.                                    *)
OpenBook(b) ==
    /\ IsFiniteSet(DOMAIN b)
    /\ \A m \in DOMAIN b :
          /\ b[m].side \in Side /\ b[m].price \in Nat /\ b[m].sequence \in Nat
          /\ b[m].remaining \in Nat \ {0}
          /\ \A n \in DOMAIN b : b[n].sequence = b[m].sequence => n = m

Remaining(b) == [m \in DOMAIN b |-> b[m].remaining]

LEMMA DepthIs ==
  ASSUME NEW b, OpenBook(b), NEW ids \in SUBSET DOMAIN b
  PROVE  /\ Depth(b, ids) = Total(Remaining(b), ids)
         /\ Weights(Remaining(b), ids) /\ Depth(b, ids) \in Nat
<1> DEFINE f == [id \in ids |-> b[id].remaining]
<1>1. Weights(Remaining(b), ids)
  BY FS_Subset DEF Weights, Remaining, OpenBook
<1>2. \A x \in ids : f[x] = Remaining(b)[x]
  BY DEF Remaining
<1>3. Depth(b, ids) = Total(f, ids)
  BY DEF Depth, Total
<1> HIDE DEF f
<1>4. Total(f, ids) = Total(Remaining(b), ids)
  BY <1>1, <1>2, TotalOfSame
<1> QED BY <1>1, <1>3, <1>4, TotalIsUnits

(* Before orders the orders of a side, by price and time.                    *)
LEMMA BeforeOrders ==
  ASSUME NEW b, OpenBook(b), NEW m \in DOMAIN b, NEW n \in DOMAIN b, b[m].side = b[n].side
  PROVE  /\ ~(Before(b, m, n) /\ Before(b, n, m))
         /\ m # n => Before(b, m, n) \/ Before(b, n, m)
         /\ ~Before(b, m, m)
         /\ \A k \in DOMAIN b :
               b[k].side = b[m].side /\ Before(b, k, m) /\ Before(b, m, n) => Before(b, k, n)
<1>1. /\ b[m].side \in Side /\ b[m].price \in Nat /\ b[m].sequence \in Nat
      /\ b[n].side \in Side /\ b[n].price \in Nat /\ b[n].sequence \in Nat
      /\ m # n => b[m].sequence # b[n].sequence
      /\ \A k \in DOMAIN b : b[k].price \in Nat /\ b[k].sequence \in Nat
  BY DEF OpenBook
<1>2. /\ ~(Before(b, m, n) /\ Before(b, n, m))
      /\ m # n => Before(b, m, n) \/ Before(b, n, m)
      /\ ~Before(b, m, m)
  BY <1>1 DEF Before, Side
<1>3. ASSUME NEW k \in DOMAIN b, b[k].side = b[m].side, Before(b, k, m), Before(b, m, n)
      PROVE  Before(b, k, n)
  BY <1>1, <1>3 DEF Before, Side
<1> QED BY <1>2, <1>3

(* Orders of one side of book b.                                            *)
OneSide(b, S) == S \subseteq DOMAIN b /\ \A m, n \in S : b[m].side = b[n].side

AheadIn(b, S, m) == {n \in S : Before(b, n, m)}

Position(b, S, m) == Cardinality(AheadIn(b, S, m))

(* The position of an order among those of its side.                         *)
LEMMA PositionIs ==
  ASSUME NEW b, OpenBook(b), NEW S, OneSide(b, S), NEW m \in S
  PROVE  /\ IsFiniteSet(S) /\ Cardinality(S) \in Nat
         /\ Position(b, S, m) \in Nat /\ Position(b, S, m) < Cardinality(S)
         /\ \A n \in S : Before(b, n, m) => Position(b, S, n) < Position(b, S, m)
<1>1. IsFiniteSet(S) /\ Cardinality(S) \in Nat
  BY FS_Subset, FS_CardinalityType DEF OpenBook, OneSide
<1>2. \A n \in S : IsFiniteSet(AheadIn(b, S, n)) /\ Position(b, S, n) \in Nat
  BY <1>1, FS_Subset, FS_CardinalityType DEF AheadIn, Position
<1>3. Position(b, S, m) < Cardinality(S)
  <2>1. AheadIn(b, S, m) \subseteq S /\ m \notin AheadIn(b, S, m)
    BY BeforeOrders DEF AheadIn, OneSide
  <2>2. AheadIn(b, S, m) # S
    BY <2>1
  <2>3. Cardinality(AheadIn(b, S, m)) <= Cardinality(S)
        /\ Cardinality(AheadIn(b, S, m)) # Cardinality(S)
    BY <1>1, <2>1, <2>2, FS_Subset
  <2> QED BY <1>1, <1>2, <2>3 DEF Position
<1>4. ASSUME NEW n \in S, Before(b, n, m)
      PROVE  Position(b, S, n) < Position(b, S, m)
  <2>1. AheadIn(b, S, n) \subseteq AheadIn(b, S, m)
    <3> SUFFICES ASSUME NEW k \in S, Before(b, k, n) PROVE Before(b, k, m)
      BY DEF AheadIn
    <3>1. /\ k \in DOMAIN b /\ n \in DOMAIN b /\ m \in DOMAIN b
          /\ b[k].side = b[n].side /\ b[n].side = b[m].side
      BY DEF OneSide
    <3> QED BY <1>4, <3>1, BeforeOrders
  <2>2. n \in AheadIn(b, S, m) /\ n \notin AheadIn(b, S, n)
    BY <1>4, BeforeOrders DEF AheadIn, OneSide
  <2>3. AheadIn(b, S, n) # AheadIn(b, S, m)
    BY <2>2
  <2>4. Cardinality(AheadIn(b, S, n)) <= Cardinality(AheadIn(b, S, m))
        /\ Cardinality(AheadIn(b, S, n)) # Cardinality(AheadIn(b, S, m))
    BY <1>2, <2>1, <2>3, FS_Subset
  <2> QED BY <1>2, <2>4 DEF Position
<1> QED BY <1>1, <1>2, <1>3, <1>4

(* Orders of one side have a first and a last one.                           *)
LEMMA FirstOfSide ==
  ASSUME NEW b, OpenBook(b), NEW S, OneSide(b, S), S # {}
  PROVE  \E m \in S : AheadIn(b, S, m) = {}
<1> DEFINE T == {Position(b, S, m) : m \in S}
<1>1. T \in SUBSET Nat /\ T # {}
  BY PositionIs
<1>2. PICK k \in T : \A j \in T : k <= j
  <2> HIDE DEF T
  <2> QED BY <1>1, LeastOfNumbers
<1>3. PICK m \in S : k = Position(b, S, m)
  OBVIOUS
<1>4. ASSUME NEW n \in S, Before(b, n, m) PROVE FALSE
  <2>1. Position(b, S, n) < Position(b, S, m) /\ Position(b, S, m) \in Nat
        /\ Position(b, S, n) \in Nat
    BY <1>4, PositionIs
  <2>2. Position(b, S, n) \in T
    OBVIOUS
  <2>3. k <= Position(b, S, n)
    <3> HIDE DEF T
    <3> QED BY <1>2, <2>2
  <2> QED BY <1>3, <2>1, <2>3
<1> QED BY <1>4 DEF AheadIn

LEMMA LastOfSide ==
  ASSUME NEW b, OpenBook(b), NEW S, OneSide(b, S), S # {}
  PROVE  \E m \in S : S = AheadIn(b, S, m) \cup {m}
<1> DEFINE T == {Cardinality(S) - Position(b, S, m) : m \in S}
<1>1. T \in SUBSET Nat /\ T # {}
  <2>1. ASSUME NEW m \in S PROVE Cardinality(S) - Position(b, S, m) \in Nat
    <3>1. /\ Cardinality(S) \in Nat /\ Position(b, S, m) \in Nat
          /\ Position(b, S, m) < Cardinality(S)
      BY PositionIs
    <3> QED BY <3>1
  <2> QED BY <2>1
<1>2. PICK k \in T : \A j \in T : k <= j
  <2> HIDE DEF T
  <2> QED BY <1>1, LeastOfNumbers
<1>3. PICK m \in S : k = Cardinality(S) - Position(b, S, m)
  OBVIOUS
<1>4. ASSUME NEW n \in S, n # m PROVE Before(b, n, m)
  <2>1. Before(b, n, m) \/ Before(b, m, n)
    BY <1>4, BeforeOrders DEF OneSide
  <2>2. CASE Before(b, m, n)
    <3>1. /\ Position(b, S, m) < Position(b, S, n) /\ Position(b, S, m) \in Nat
          /\ Position(b, S, n) \in Nat /\ Cardinality(S) \in Nat
      BY <2>2, PositionIs
    <3>2. Cardinality(S) - Position(b, S, n) \in T
      OBVIOUS
    <3>3. k <= Cardinality(S) - Position(b, S, n)
      <4> HIDE DEF T
      <4> QED BY <1>2, <3>2
    <3> QED BY <1>3, <3>1, <3>3
  <2> QED BY <2>1, <2>2
<1>5. S = AheadIn(b, S, m) \cup {m}
  BY <1>4 DEF AheadIn
<1> QED BY <1>5

(* What an order of this side, limit and quantity finds in book b.           *)
Asked(b, side, limit, quantity) ==
    OpenBook(b) /\ side \in Side /\ limit \in Nat /\ quantity \in Nat \ {0}

(* What the orders of S ahead of m leave of a quantity.                      *)
LeftFor(b, S, quantity, m) == quantity - Depth(b, AheadIn(b, S, m))

Reached(b, S, quantity) == {m \in S : LeftFor(b, S, quantity, m) > 0}

LEMMA MakersAre ==
  ASSUME NEW b, NEW side, NEW limit, NEW quantity, Asked(b, side, limit, quantity),
         NEW S, S = Makers(b, side, limit)
  PROVE  /\ OneSide(b, S) /\ IsFiniteSet(S)
         /\ \A m \in S : LeftFor(b, S, quantity, m) \in Int
         /\ OneSide(b, Reached(b, S, quantity)) /\ IsFiniteSet(Reached(b, S, quantity))
<1>1. OneSide(b, S)
  BY DEF OneSide, Makers, Asked, OpenBook, Side
<1>2. IsFiniteSet(S)
  BY <1>1, FS_Subset DEF OneSide, Asked, OpenBook
<1>3. ASSUME NEW m \in S PROVE LeftFor(b, S, quantity, m) \in Int
  <2>1. AheadIn(b, S, m) \in SUBSET DOMAIN b
    BY <1>1 DEF AheadIn, OneSide
  <2>2. Depth(b, AheadIn(b, S, m)) \in Nat
    BY <2>1, DepthIs DEF Asked
  <2> QED BY <2>2 DEF LeftFor, Asked
<1>4. Reached(b, S, quantity) \in SUBSET S
  BY DEF Reached
<1>5. OneSide(b, Reached(b, S, quantity))
  BY <1>1, <1>4 DEF OneSide
<1> QED BY <1>1, <1>2, <1>3, <1>4, <1>5, FS_Subset

(* Each maker that is reached gets what it has, or what is left.              *)
LEMMA AllotmentsAre ==
  ASSUME NEW b, NEW side, NEW limit, NEW quantity, Asked(b, side, limit, quantity),
         NEW S, S = Makers(b, side, limit),
         NEW fills, fills = Allotments(b, side, limit, quantity)
  PROVE  /\ DOMAIN fills = Reached(b, S, quantity)
         /\ fills = [m \in DOMAIN fills |-> fills[m]]
         /\ \A m \in DOMAIN fills :
               /\ fills[m] = IF b[m].remaining <= LeftFor(b, S, quantity, m)
                             THEN b[m].remaining ELSE LeftFor(b, S, quantity, m)
               /\ fills[m] \in Nat \ {0}
               /\ fills[m] <= b[m].remaining /\ fills[m] <= LeftFor(b, S, quantity, m)
<1> DEFINE left(m) == Max({0, quantity - Depth(b, {n \in S : Before(b, n, m)})})
           R == Reached(b, S, quantity)
<1>1. ASSUME NEW m \in S
      PROVE  left(m) = IF LeftFor(b, S, quantity, m) > 0 THEN LeftFor(b, S, quantity, m)
                                                        ELSE 0
  <2>1. LeftFor(b, S, quantity, m) \in Int
    BY MakersAre
  <2> DEFINE x == LeftFor(b, S, quantity, m)
  <2>2. left(m) = Max({0, x})
    BY DEF LeftFor, AheadIn
  <2> HIDE DEF x
  <2>3. Max({0, x}) = IF x > 0 THEN x ELSE 0
    BY <2>1, LeftOver DEF x
  <2> HIDE DEF left
  <2> QED BY <2>2, <2>3 DEF x
<1>2. fills = [m \in {k \in S : left(k) > 0} |-> Min({b[m].remaining, left(m)})]
  BY DEF Allotments
<1> HIDE DEF left
<1>3. \A m \in S : LeftFor(b, S, quantity, m) \in Int
  BY MakersAre
<1>4. {k \in S : left(k) > 0} = R
  BY <1>1, <1>3 DEF Reached
<1>5. fills = [m \in R |-> Min({b[m].remaining, left(m)})]
  BY <1>2, <1>4
<1>6. ASSUME NEW m \in R
      PROVE  /\ left(m) = LeftFor(b, S, quantity, m) /\ left(m) \in Nat /\ left(m) # 0
             /\ b[m].remaining \in Nat /\ b[m].remaining # 0
  <2>1. m \in S /\ LeftFor(b, S, quantity, m) > 0 /\ m \in DOMAIN b
    BY DEF Reached, Makers
  <2> QED BY <1>1, <1>3, <2>1 DEF Asked, OpenBook
<1>7. ASSUME NEW m \in R
      PROVE  fills[m] = IF b[m].remaining <= left(m) THEN b[m].remaining ELSE left(m)
  BY <1>5, <1>6, MinOfTwo
<1> HIDE DEF R
<1>8. DOMAIN fills = R /\ fills = [m \in DOMAIN fills |-> fills[m]]
  BY <1>5
<1>9. ASSUME NEW m \in R
      PROVE  /\ fills[m] = IF b[m].remaining <= LeftFor(b, S, quantity, m)
                             THEN b[m].remaining ELSE LeftFor(b, S, quantity, m)
             /\ fills[m] \in Nat \ {0}
             /\ fills[m] <= b[m].remaining /\ fills[m] <= LeftFor(b, S, quantity, m)
  BY <1>6, <1>7
<1> QED BY <1>8, <1>9 DEF R

(* An order in front of one that is reached has nothing left.                *)
LEMMA FrontIsTaken ==
  ASSUME NEW b, NEW side, NEW limit, NEW quantity, Asked(b, side, limit, quantity),
         NEW S, S = Makers(b, side, limit),
         NEW m \in S, LeftFor(b, S, quantity, m) > 0, NEW n \in S, Before(b, n, m)
  PROVE  LeftFor(b, S, quantity, n) >= b[n].remaining + LeftFor(b, S, quantity, m)
<1> DEFINE A == AheadIn(b, S, n)
           B == AheadIn(b, S, m)
<1>1. OneSide(b, S) /\ OpenBook(b) /\ quantity \in Nat
  BY MakersAre DEF Asked
<1>2. A \subseteq B /\ n \in B /\ n \notin A /\ n \in DOMAIN b /\ B \subseteq DOMAIN b
  <2>1. ASSUME NEW k \in S, Before(b, k, n) PROVE Before(b, k, m)
    <3>1. /\ k \in DOMAIN b /\ n \in DOMAIN b /\ m \in DOMAIN b
          /\ b[k].side = b[n].side /\ b[n].side = b[m].side
      BY <1>1 DEF OneSide
    <3> QED BY <1>1, <2>1, <3>1, BeforeOrders
  <2>2. n \in DOMAIN b /\ ~Before(b, n, n) /\ B \subseteq DOMAIN b
    BY <1>1, BeforeOrders DEF OneSide, AheadIn
  <2> QED BY <2>1, <2>2 DEF AheadIn
<1> DEFINE f == Remaining(b)
<1>3. /\ Depth(b, A) = Total(f, A) /\ Weights(f, A) /\ Depth(b, A) \in Nat
      /\ Depth(b, B) = Total(f, B) /\ Weights(f, B) /\ Depth(b, B) \in Nat
      /\ Weights(f, A \cup {n})
      /\ f[n] = b[n].remaining /\ f[n] \in Nat
  <2>1. A \in SUBSET DOMAIN b /\ B \in SUBSET DOMAIN b /\ A \cup {n} \in SUBSET DOMAIN b
    BY <1>2
  <2>2. f[n] = b[n].remaining /\ f[n] \in Nat
    BY <1>1, <1>2 DEF Remaining, OpenBook
  <2> HIDE DEF A, B, f
  <2> QED BY <1>1, <2>1, <2>2, DepthIs DEF f
<1> HIDE DEF A, B, f
<1>4. Total(f, A \cup {n}) = f[n] + Total(f, A)
  BY <1>2, <1>3, TotalWithOne
<1>5. Total(f, A \cup {n}) <= Total(f, B)
  <2>1. A \cup {n} \in SUBSET B
    BY <1>2
  <2> QED BY <1>3, <2>1, TotalGrows
<1>6. LeftFor(b, S, quantity, n) = quantity - Depth(b, A)
      /\ LeftFor(b, S, quantity, m) = quantity - Depth(b, B)
  BY DEF LeftFor, A, B
<1> QED BY <1>1, <1>3, <1>4, <1>5, <1>6

(* Allotments never exceed the quantity, and if they fall short of it, every   *)
(* maker has given all that it has.                                         *)
AllottedRight(b, side, limit, quantity, fills) ==
    /\ Weights(fills, DOMAIN fills)
    /\ Allotted(fills) = Total(fills, DOMAIN fills)
    /\ Allotted(fills) \in Nat /\ Allotted(fills) <= quantity
    /\ DOMAIN fills = {} => Allotted(fills) = 0
    /\ DOMAIN fills # {} => Allotted(fills) # 0
    /\ Allotted(fills) # quantity =>
          \A m \in Makers(b, side, limit) :
              m \in DOMAIN fills /\ fills[m] = b[m].remaining

LEMMA AllottedIs ==
  ASSUME NEW b, NEW side, NEW limit, NEW quantity, Asked(b, side, limit, quantity),
         NEW fills, fills = Allotments(b, side, limit, quantity)
  PROVE  AllottedRight(b, side, limit, quantity, fills)
<1> DEFINE S == Makers(b, side, limit)
           R == DOMAIN fills
           f == Remaining(b)
           left(m) == LeftFor(b, S, quantity, m)
<1>1. /\ OneSide(b, S) /\ \A m \in S : left(m) \in Int
      /\ OneSide(b, R) /\ IsFiniteSet(R)
      /\ R = {m \in S : left(m) > 0}
      /\ \A m \in R :
            /\ fills[m] = IF b[m].remaining <= left(m) THEN b[m].remaining ELSE left(m)
            /\ fills[m] \in Nat \ {0}
            /\ fills[m] <= b[m].remaining /\ fills[m] <= left(m)
  BY MakersAre, AllotmentsAre DEF Reached
<1>2. Weights(fills, R) /\ Allotted(fills) = Total(fills, R) /\ Total(fills, R) \in Nat
  <2>1. Weights(fills, R)
    BY <1>1 DEF Weights
  <2> QED BY <2>1, TotalIsUnits DEF Allotted, SumFunction, Total
<1>3. R = {} => Total(fills, R) = 0
  BY TotalOfNone
<1>4. ASSUME NEW m \in S, NEW n \in S, Before(b, n, m), left(m) > 0
      PROVE  left(n) >= b[n].remaining + left(m)
  BY <1>4, FrontIsTaken
<1>5. \A m \in S : b[m].remaining \in Nat \ {0} /\ f[m] = b[m].remaining
  BY <1>1 DEF OneSide, Asked, OpenBook, Remaining
<1>6. OpenBook(b) /\ quantity \in Nat \ {0}
  BY DEF Asked
<1> HIDE DEF S, f
<1>7. ASSUME R # {}
      PROVE  \E z \in R : /\ Total(fills, R) = fills[z] + (quantity - left(z))
                          /\ \A n \in R \ {z} : fills[n] = b[n].remaining
                          /\ Depth(b, R) = b[z].remaining + (quantity - left(z))
  <2>1. PICK z \in R : R = AheadIn(b, R, z) \cup {z}
    <3>1. OpenBook(b) /\ OneSide(b, R) /\ R # {}
      BY <1>1, <1>6, <1>7
    <3> HIDE DEF R
    <3> QED BY <3>1, LastOfSide
  <2> DEFINE A == AheadIn(b, S, z)
  <2>2. z \in S /\ left(z) > 0 /\ left(z) \in Int
    BY <1>1
  <2>3. A = R \ {z}
    <3>1. \A n \in A : n \in S /\ Before(b, n, z) /\ n # z
      BY <1>1, <1>6, <2>2, BeforeOrders DEF AheadIn, OneSide
    <3>2. \A n \in A : left(n) > 0
      <4> TAKE n \in A
      <4>1. left(n) >= b[n].remaining + left(z) /\ left(n) \in Int
            /\ b[n].remaining \in Nat
        BY <1>1, <1>4, <1>5, <2>2, <3>1
      <4> HIDE DEF left
      <4> QED BY <2>2, <4>1
    <3>3. A \subseteq R \ {z}
      BY <1>1, <3>1, <3>2
    <3>4. R \ {z} \subseteq A
      BY <1>1, <2>1 DEF AheadIn
    <3> QED BY <3>3, <3>4
  <2>4. \A n \in R \ {z} : fills[n] = b[n].remaining
    <3> TAKE n \in R \ {z}
    <3>1. n \in S /\ Before(b, n, z)
      BY <2>3 DEF AheadIn
    <3>2. left(n) >= b[n].remaining + left(z) /\ left(n) \in Int
          /\ b[n].remaining \in Nat
      BY <1>1, <1>4, <1>5, <2>2, <3>1
    <3> HIDE DEF left
    <3> QED BY <1>1, <2>2, <3>2
  <2>5. Depth(b, A) = quantity - left(z) /\ Depth(b, A) \in Nat /\ Depth(b, A) = Total(f, A)
        /\ Weights(f, A)
    <3>1. A \in SUBSET DOMAIN b
      BY <1>1 DEF AheadIn, OneSide
    <3>2. Depth(b, A) \in Nat /\ Depth(b, A) = Total(f, A) /\ Weights(f, A)
      BY <1>6, <3>1, DepthIs DEF f
    <3>3. left(z) = quantity - Depth(b, A)
      BY DEF LeftFor
    <3> HIDE DEF left, A
    <3> QED BY <1>6, <3>2, <3>3
  <2> HIDE DEF left
  <2>6. \A n \in A : fills[n] = f[n]
    BY <1>1, <1>5, <2>3, <2>4
  <2> HIDE DEF A
  <2>7. Total(fills, A) = Total(f, A)
    BY <2>5, <2>6, TotalOfSame
  <2>8. Weights(fills, A) /\ z \notin A /\ R = A \cup {z}
    BY <1>2, <2>3, FS_Subset DEF Weights
  <2>9. Total(fills, R) = fills[z] + Total(fills, A)
    BY <1>1, <2>8, TotalWithOne
  <2>10. Total(f, R) = f[z] + Total(f, A)
    BY <1>5, <2>2, <2>5, <2>8, TotalWithOne
  <2>11. Depth(b, R) = Total(f, R)
    <3>1. R \in SUBSET DOMAIN b
      BY <1>1 DEF OneSide
    <3> QED BY <1>6, <3>1, DepthIs DEF f
  <2> QED BY <1>5, <2>2, <2>4, <2>5, <2>7, <2>9, <2>10, <2>11
<1>8. R # {} => Total(fills, R) # 0 /\ Total(fills, R) <= quantity
  <2> SUFFICES ASSUME R # {} PROVE Total(fills, R) # 0 /\ Total(fills, R) <= quantity
    OBVIOUS
  <2>1. PICK z \in R : /\ Total(fills, R) = fills[z] + (quantity - left(z))
                       /\ Depth(b, R) = b[z].remaining + (quantity - left(z))
    BY <1>7
  <2>2. fills[z] \in Nat \ {0} /\ fills[z] <= left(z) /\ left(z) \in Int
    BY <1>1
  <2>3. quantity - left(z) >= 0
    <3>1. AheadIn(b, S, z) \in SUBSET DOMAIN b
      BY <1>1 DEF AheadIn, OneSide
    <3>2. Depth(b, AheadIn(b, S, z)) \in Nat
      BY <1>6, <3>1, DepthIs
    <3>3. left(z) = quantity - Depth(b, AheadIn(b, S, z))
      BY DEF LeftFor
    <3> HIDE DEF left
    <3> QED BY <1>6, <3>2, <3>3
  <2> HIDE DEF left
  <2> QED BY <1>6, <2>1, <2>2, <2>3
<1>9. ASSUME Total(fills, R) # quantity, NEW m \in S
      PROVE  m \in R /\ fills[m] = b[m].remaining
  <2>1. Total(fills, R) < quantity
    BY <1>2, <1>3, <1>6, <1>8, <1>9
  <2>2. /\ \A n \in R : fills[n] = b[n].remaining
        /\ Depth(b, R) < quantity
    <3>1. CASE R = {}
      <4>1. Depth(b, {}) = 0
        <5>1. {} \in SUBSET DOMAIN b
          OBVIOUS
        <5> QED BY <1>6, <5>1, DepthIs, TotalOfNone
      <4> QED BY <1>6, <3>1, <4>1
    <3>2. CASE R # {}
      <4>1. PICK z \in R : /\ Total(fills, R) = fills[z] + (quantity - left(z))
                           /\ \A n \in R \ {z} : fills[n] = b[n].remaining
                           /\ Depth(b, R) = b[z].remaining + (quantity - left(z))
        BY <1>7, <3>2
      <4>2. /\ fills[z] = IF b[z].remaining <= left(z) THEN b[z].remaining ELSE left(z)
            /\ left(z) \in Int /\ b[z].remaining \in Nat
        BY <1>1, <1>5
      <4> HIDE DEF left
      <4>3. fills[z] = b[z].remaining
        BY <1>6, <2>1, <4>1, <4>2
      <4> QED BY <2>1, <4>1, <4>3
    <3> QED BY <3>1, <3>2
  <2>3. S = R
    <3> SUFFICES ASSUME S # R PROVE FALSE
      OBVIOUS
    <3>1. S \ R # {} /\ OneSide(b, S \ R)
      BY <1>1 DEF OneSide
    <3>2. PICK k \in S \ R : AheadIn(b, S \ R, k) = {}
      BY <1>6, <3>1, FirstOfSide
    <3>3. AheadIn(b, S, k) \subseteq R
      BY <3>2 DEF AheadIn
    <3>4. Depth(b, AheadIn(b, S, k)) <= Depth(b, R)
      <4>1. R \in SUBSET DOMAIN b /\ AheadIn(b, S, k) \in SUBSET DOMAIN b
        BY <1>1, <3>3 DEF OneSide
      <4>2. /\ Depth(b, R) = Total(f, R) /\ Weights(f, R)
            /\ Depth(b, AheadIn(b, S, k)) = Total(f, AheadIn(b, S, k))
        BY <1>6, <4>1, DepthIs DEF f
      <4> QED BY <3>3, <4>2, TotalGrows
    <3>5. Depth(b, R) \in Nat /\ Depth(b, AheadIn(b, S, k)) \in Nat
      <4>1. R \in SUBSET DOMAIN b /\ AheadIn(b, S, k) \in SUBSET DOMAIN b
        BY <1>1, <3>3 DEF OneSide
      <4> QED BY <1>6, <4>1, DepthIs
    <3>6. left(k) = quantity - Depth(b, AheadIn(b, S, k))
      BY DEF LeftFor
    <3>7. left(k) > 0
      <4> HIDE DEF left
      <4> QED BY <1>6, <2>2, <3>4, <3>5, <3>6
    <3> QED BY <1>1, <3>2, <3>7
  <2> QED BY <2>2, <2>3
<1>10. Allotted(fills) # quantity =>
          \A m \in S : m \in R /\ fills[m] = b[m].remaining
  BY <1>2, <1>9
<1>11. Allotted(fills) \in Nat /\ Allotted(fills) <= quantity
  <2>1. CASE R = {}
    BY <1>2, <1>3, <1>6, <2>1
  <2>2. CASE R # {}
    BY <1>2, <1>8, <2>2
  <2> QED BY <2>1, <2>2
<1> QED BY <1>2, <1>3, <1>8, <1>10, <1>11 DEF AllottedRight, S

(* Served lists the orders of a side by position.                            *)
LEMMA ServedIs ==
  ASSUME NEW b, OpenBook(b), NEW R, OneSide(b, R), NEW served, served = Served(b, R)
  PROVE  /\ served \in Bijection(1..Cardinality(R), R)
         /\ DOMAIN served = 1..Cardinality(R) /\ Cardinality(R) \in Nat
         /\ \A i \in DOMAIN served : Position(b, R, served[i]) = i - 1
<1> DEFINE N == Cardinality(R)
           r == [m \in R |-> Position(b, R, m) + 1]
<1>1. IsFiniteSet(R) /\ N \in Nat
  BY FS_Subset, FS_CardinalityType DEF OpenBook, OneSide
<1>2. \A m \in R : Position(b, R, m) \in Nat /\ Position(b, R, m) < N
  BY PositionIs
<1>3. ASSUME NEW m \in R, NEW k \in R, Position(b, R, m) = Position(b, R, k)
      PROVE  m = k
  <2>1. m # k => Before(b, m, k) \/ Before(b, k, m)
    BY BeforeOrders DEF OneSide
  <2>2. Before(b, m, k) => Position(b, R, m) < Position(b, R, k)
    BY PositionIs
  <2>3. Before(b, k, m) => Position(b, R, k) < Position(b, R, m)
    BY PositionIs
  <2> QED BY <1>2, <1>3, <2>1, <2>2, <2>3
<1> HIDE DEF N
<1>4. r \in Injection(R, 1..N)
  <2>1. ASSUME NEW m \in R PROVE Position(b, R, m) + 1 \in 1..N
    BY <1>1, <1>2
  <2>2. r \in [R -> 1..N]
    BY <2>1
  <2>3. \A m, k \in R : r[m] = r[k] => m = k
    BY <1>2, <1>3
  <2> HIDE DEF r
  <2> QED BY <2>2, <2>3 DEF Injection, IsInjective
<1>5. r \in Surjection(R, 1..N)
  <2>1. IsFiniteSet(1..N) /\ Cardinality(1..N) = N
    BY <1>1, FS_Interval
  <2> HIDE DEF r
  <2> QED BY <1>4, <2>1, FS_Injection DEF N
<1>6. ASSUME NEW i \in 1..N
      PROVE  \E m \in R : Position(b, R, m) = i - 1
  <2>1. PICK m \in R : r[m] = i
    <3> HIDE DEF r
    <3> QED BY <1>5, <1>6 DEF Surjection
  <2>2. Position(b, R, m) + 1 = i
    BY <2>1
  <2> QED BY <1>2, <2>2
<1>7. served = [i \in 1..N |-> CHOOSE m \in R : Position(b, R, m) = i - 1]
  BY DEF Served, Position, AheadIn, N
<1>8. ASSUME NEW i \in 1..N
      PROVE  served[i] \in R /\ Position(b, R, served[i]) = i - 1
  <2>1. served[i] = CHOOSE m \in R : Position(b, R, m) = i - 1
    BY <1>7
  <2> QED BY <1>6, <2>1
<1>9. DOMAIN served = 1..N /\ served \in [1..N -> R]
  <2>1. served = [i \in 1..N |-> served[i]]
    BY <1>7
  <2> QED BY <1>8, <2>1
<1>10. \A i, j \in 1..N : served[i] = served[j] => i = j
  <2> TAKE i, j \in 1..N
  <2>1. Position(b, R, served[i]) = i - 1 /\ Position(b, R, served[j]) = j - 1
        /\ i \in Int /\ j \in Int
    BY <1>8
  <2> QED BY <2>1
<1>11. ASSUME NEW m \in R PROVE \E i \in 1..N : served[i] = m
  <2>1. Position(b, R, m) + 1 \in 1..N /\ Position(b, R, m) \in Nat
    BY <1>1, <1>2
  <2> DEFINE i == Position(b, R, m) + 1
  <2>2. i \in 1..N /\ i - 1 = Position(b, R, m)
    BY <2>1
  <2> HIDE DEF i
  <2>3. served[i] \in R /\ Position(b, R, served[i]) = Position(b, R, m)
    BY <1>8, <2>2
  <2>4. served[i] = m
    BY <1>3, <2>3
  <2> QED BY <2>2, <2>4
<1>12. served \in Bijection(1..N, R)
  BY <1>9, <1>10, <1>11 DEF Bijection, Injection, Surjection, IsInjective
<1> QED BY <1>1, <1>8, <1>9, <1>12 DEF N

-----------------------------------------------------------------------------
(* The ledger                                                               *)

Amounts == [t \in TradeRow |-> t.quantity]

Its(ts, id) == {t \in ts : id \in {t.maker, t.taker}}

TradedBy(ts, id) == Total(Amounts, Its(ts, id))

LEMMA AmountsSum ==
  ASSUME NEW S \in SUBSET TradeRow
  PROVE  MapThenSumSet(LAMBDA t : t.quantity, S) = Total(Amounts, S)
<1> DEFINE Step(iter) ==
      [s \in SUBSET S |->
         IF s = {} THEN 0
         ELSE (CHOOSE x \in s : TRUE).quantity + iter[s \ {CHOOSE x \in s : TRUE}]]
<1>1. MapThenSumSet(LAMBDA t : t.quantity, S) = (CHOOSE iter : iter = Step(iter))[S]
  BY DEF MapThenSumSet, MapThenFoldSet
<1>2. ASSUME NEW iter PROVE SumStep(Amounts, S, iter) = Step(iter)
  <2>1. ASSUME NEW s \in SUBSET S, s # {}
        PROVE  Amounts[CHOOSE x \in s : TRUE] = (CHOOSE x \in s : TRUE).quantity
    <3>1. (CHOOSE x \in s : TRUE) \in TradeRow
      BY <2>1
    <3> QED BY <3>1 DEF Amounts
  <2> QED BY <2>1 DEF SumStep
<1> HIDE DEF Step
<1>3. (CHOOSE iter : iter = SumStep(Amounts, S, iter)) = (CHOOSE iter : iter = Step(iter))
  BY <1>2, Zenon
<1> QED BY <1>1, <1>3, TotalIsLast DEF SumsOf

(* The rows of a market, as the properties of LedgerBalances have them, with   *)
(* the trades of an order counted by Total, and the orders' sequences.       *)
Numbered(ts, symbol) ==
    {t.sequence : t \in {u \in ts : u.symbol = symbol}}
        = 1..Cardinality({u \in ts : u.symbol = symbol})

InBook(os, symbol, id) ==
    id \in DOMAIN os /\ os[id].symbol = symbol /\ os[id].status \in Active

Uncrossed(os, symbol) ==
    \A b, a : /\ InBook(os, symbol, b) /\ InBook(os, symbol, a)
              /\ os[b].side = "buy" /\ os[a].side = "sell"
              => os[b].price < os[a].price

RowsOk(os) ==
    /\ IsFiniteSet(DOMAIN os)
    /\ \A id \in DOMAIN os : os[id] \in Row /\ ValidState(os[id]) /\ os[id].sequence = id

TradesOk(os, ts) ==
    /\ IsFiniteSet(ts) /\ ts \subseteq TradeRow
    /\ \A t \in ts : t.maker \in DOMAIN os /\ t.taker \in DOMAIN os

Balanced(os, ts) == \A id \in DOMAIN os : os[id].quantity = os[id].remaining + TradedBy(ts, id)

Ledger(os, ts) ==
    /\ RowsOk(os) /\ TradesOk(os, ts) /\ Balanced(os, ts)
    /\ \A symbol \in Symbol : Numbered(ts, symbol) /\ Uncrossed(os, symbol)

LEMMA FilledRow ==
  ASSUME NEW o \in Row, ValidState(o), o.status \in Active,
         NEW n \in Nat \ {0}, n <= o.remaining,
         NEW f, f = ApplyFill(o, n)
  PROVE  /\ f \in Row /\ ValidState(f)
         /\ f.symbol = o.symbol /\ f.side = o.side /\ f.price = o.price
         /\ f.quantity = o.quantity /\ f.sequence = o.sequence
         /\ f.remaining = o.remaining - n
         /\ f.status \in Active => n # o.remaining
<1>1. /\ o.remaining \in Nat /\ o.quantity \in Nat /\ o.remaining <= o.quantity
      /\ o.symbol \in Symbol /\ o.side \in Side /\ o.price \in Nat \ {0}
      /\ o.quantity \in Nat \ {0} /\ o.sequence \in Nat \ {0}
      /\ o = [symbol |-> o.symbol, side |-> o.side, price |-> o.price,
              quantity |-> o.quantity, sequence |-> o.sequence,
              remaining |-> o.remaining, status |-> o.status]
  BY DEF Row, ValidState
<1> DEFINE st == IF o.remaining = n THEN "filled" ELSE "partially_filled"
<1>2. f = [symbol |-> o.symbol, side |-> o.side, price |-> o.price,
           quantity |-> o.quantity, sequence |-> o.sequence,
           remaining |-> o.remaining - n, status |-> st]
  BY <1>1 DEF ApplyFill
<1>3. st \in Status /\ (st = "filled" <=> o.remaining = n) /\ (st # "filled" => st = "partially_filled")
  BY DEF Status, Active
<1>4. st \in Active => n # o.remaining
  BY DEF Active
<1> HIDE DEF st
<1>5. o.remaining - n \in Nat /\ o.remaining - n < o.quantity
  BY <1>1
<1>6. f \in Row
  BY <1>1, <1>2, <1>3, <1>5 DEF Row
<1>7. ValidState(f)
  <2>1. f.remaining = o.remaining - n /\ f.quantity = o.quantity /\ f.status = st
    BY <1>2
  <2>2. st = "filled" \/ st = "partially_filled"
    BY <1>3
  <2>3. st = "partially_filled" => o.remaining - n > 0
    BY <1>1, <1>3, <1>5
  <2>4. st = "filled" => o.remaining - n = 0
    BY <1>1, <1>3
  <2> QED BY <1>1, <1>5, <2>1, <2>2, <2>3, <2>4 DEF ValidState
<1> QED BY <1>2, <1>4, <1>6, <1>7

(* The taker's row, after trading for n in all.                              *)
TakerRow(r, q, fills) ==
    OfSymbol(r.symbol,
             IF DOMAIN fills = {} THEN NewOrder(r.side, r.price, r.quantity, q)
             ELSE ApplyFill(NewOrder(r.side, r.price, r.quantity, q), Allotted(fills)))

LEMMA TakerRowIs ==
  ASSUME NEW r \in Request, r.kind = "submit", NEW q \in Nat \ {0}, NEW fills,
         Allotted(fills) \in Nat, Allotted(fills) <= r.quantity,
         DOMAIN fills = {} => Allotted(fills) = 0,
         DOMAIN fills # {} => Allotted(fills) # 0,
         NEW f, f = TakerRow(r, q, fills)
  PROVE  /\ f \in Row /\ ValidState(f)
         /\ f.symbol = r.symbol /\ f.side = r.side /\ f.price = r.price
         /\ f.quantity = r.quantity /\ f.sequence = q
         /\ f.remaining = r.quantity - Allotted(fills)
         /\ f.status \in Active => Allotted(fills) # r.quantity
<1> DEFINE A == Allotted(fills)
           o == OfSymbol(r.symbol, NewOrder(r.side, r.price, r.quantity, q))
<1>1. /\ r.symbol \in Symbol /\ r.side \in Side /\ r.price \in Nat \ {0}
      /\ r.quantity \in Nat \ {0}
  BY RequestAssumption
<1>2. o = [symbol |-> r.symbol, side |-> r.side, price |-> r.price,
           quantity |-> r.quantity, sequence |-> q, remaining |-> r.quantity,
           status |-> "open"]
  BY DEF OfSymbol, NewOrder
<1>3. o \in Row /\ ValidState(o) /\ o.status \in Active
  BY <1>1, <1>2 DEF Row, ValidState, Status, Active
<1>4. CASE DOMAIN fills = {}
  <2>1. f = o /\ A = 0
    BY <1>4 DEF TakerRow
  <2>2. o.remaining = r.quantity - 0
    BY <1>1, <1>2
  <2> HIDE DEF A, o
  <2> QED BY <1>1, <1>2, <1>3, <2>1, <2>2 DEF A
<1>5. CASE DOMAIN fills # {}
  <2>1. f = OfSymbol(r.symbol, ApplyFill(NewOrder(r.side, r.price, r.quantity, q), A))
    BY <1>5 DEF TakerRow
  <2>2. A \in Nat \ {0} /\ A <= r.quantity
    BY <1>5
  <2> HIDE DEF A
  <2>3. f = ApplyFill(o, A)
    <3> DEFINE st == IF r.quantity = A THEN "filled" ELSE "partially_filled"
        new == NewOrder(r.side, r.price, r.quantity, q)
        filled == ApplyFill(new, A)
        g == ApplyFill(o, A)
    <3>3. new = [side |-> r.side, price |-> r.price, quantity |-> r.quantity,
                 sequence |-> q, remaining |-> r.quantity, status |-> "open"]
      BY DEF NewOrder
    <3>4. f = OfSymbol(r.symbol, filled)
      BY <2>1
    <3>5. /\ st = IF r.quantity = A THEN "filled" ELSE "partially_filled"
          /\ filled = ApplyFill(new, A) /\ g = ApplyFill(o, A)
      OBVIOUS
    <3> HIDE DEF st, filled, g, new, o
    <3>1. filled = [side |-> r.side, price |-> r.price, quantity |-> r.quantity,
                    sequence |-> q, remaining |-> r.quantity - A, status |-> st]
      BY <1>1, <2>2, <3>3, <3>5 DEF ApplyFill
    <3>2. g = [symbol |-> r.symbol, side |-> r.side, price |-> r.price,
               quantity |-> r.quantity, sequence |-> q, remaining |-> r.quantity - A,
               status |-> st]
      BY <1>1, <1>2, <2>2, <3>5 DEF ApplyFill
    <3>6. f = g
      BY <3>1, <3>2, <3>4 DEF OfSymbol
    <3> QED BY <3>6 DEF g
  <2>4. A <= o.remaining
    BY <1>2, <2>2
  <2> HIDE DEF o
  <2>5. /\ f \in Row /\ ValidState(f)
        /\ f.symbol = o.symbol /\ f.side = o.side /\ f.price = o.price
        /\ f.quantity = o.quantity /\ f.sequence = o.sequence
        /\ f.remaining = o.remaining - A
        /\ f.status \in Active => A # o.remaining
    BY <1>3, <2>2, <2>3, <2>4, FilledRow
  <2> QED BY <1>2, <2>5 DEF A
<1> QED BY <1>4, <1>5

(* What the engine restores for a market is an open book.                    *)
LEMMA OpenRowsOpen ==
  ASSUME NEW os, RowsOk(os), NEW symbol, NEW open, open = OpenRows(os, symbol)
  PROVE  /\ OpenBook(open)
         /\ \A id : id \in DOMAIN open <=> InBook(os, symbol, id)
         /\ \A id \in DOMAIN open : open[id] = os[id]
<1>1. /\ DOMAIN open = {id \in DOMAIN os : os[id].symbol = symbol /\ os[id].status \in Active}
      /\ \A id \in DOMAIN open : open[id] = os[id]
  BY DEF OpenRows, Restrict
<1>2. IsFiniteSet(DOMAIN open)
  BY <1>1, FS_Subset DEF RowsOk
<1>3. ASSUME NEW m \in DOMAIN open
      PROVE  /\ open[m].side \in Side /\ open[m].price \in Nat /\ open[m].sequence = m
             /\ open[m].sequence \in Nat /\ open[m].remaining \in Nat \ {0}
  <2>1. /\ m \in DOMAIN os /\ os[m] \in Row /\ ValidState(os[m]) /\ os[m].sequence = m
        /\ os[m].status \in Active /\ open[m] = os[m]
    BY <1>1 DEF RowsOk
  <2>2. os[m].remaining \in Nat \ {0}
    BY <2>1 DEF Row, ValidState, Active
  <2> QED BY <2>1, <2>2 DEF Row
<1>4. OpenBook(open)
  BY <1>2, <1>3 DEF OpenBook
<1> QED BY <1>1, <1>4 DEF InBook

(* A submission of q that comes to tables with these orders and trades.       *)
Submits(os, ts, q, r) ==
    /\ Ledger(os, ts)
    /\ q \in Nat \ {0} /\ \A id \in DOMAIN os : id \in Nat /\ id < q
    /\ r \in Request /\ r.kind = "submit"

FillsOf(os, r) == Allotments(OpenRows(os, r.symbol), r.side, r.price, r.quantity)

LEMMA FillsAre ==
  ASSUME NEW os, NEW ts, NEW q, NEW r, Submits(os, ts, q, r),
         NEW fills, fills = FillsOf(os, r), NEW open, open = OpenRows(os, r.symbol)
  PROVE  /\ Asked(open, r.side, r.price, r.quantity)
         /\ AllottedRight(open, r.side, r.price, r.quantity, fills)
         /\ OneSide(open, DOMAIN fills)
         /\ fills = [m \in DOMAIN fills |-> fills[m]]
         /\ \A m \in DOMAIN fills :
               /\ m \in Makers(open, r.side, r.price)
               /\ m \in DOMAIN os /\ m # q /\ InBook(os, r.symbol, m) /\ open[m] = os[m]
               /\ fills[m] \in Nat \ {0} /\ fills[m] <= os[m].remaining
<1>1. RowsOk(os) /\ r.side \in Side /\ r.price \in Nat /\ r.quantity \in Nat \ {0}
  BY RequestAssumption DEF Submits, Ledger
<1>2. /\ OpenBook(open) /\ \A id \in DOMAIN open : open[id] = os[id]
      /\ \A id : id \in DOMAIN open <=> InBook(os, r.symbol, id)
  BY <1>1, OpenRowsOpen
<1>3. Asked(open, r.side, r.price, r.quantity)
  BY <1>1, <1>2 DEF Asked
<1>4. fills = Allotments(open, r.side, r.price, r.quantity)
  BY DEF FillsOf
<1>5. AllottedRight(open, r.side, r.price, r.quantity, fills)
  BY <1>3, <1>4, AllottedIs
<1> DEFINE S == Makers(open, r.side, r.price)
<1>6. /\ DOMAIN fills = Reached(open, S, r.quantity)
      /\ fills = [m \in DOMAIN fills |-> fills[m]]
      /\ \A m \in DOMAIN fills : fills[m] \in Nat \ {0} /\ fills[m] <= open[m].remaining
  BY <1>3, <1>4, AllotmentsAre
<1>7. OneSide(open, DOMAIN fills)
  BY <1>3, <1>6, MakersAre
<1>8. ASSUME NEW m \in DOMAIN fills
      PROVE  /\ m \in S /\ m \in DOMAIN os /\ m # q
             /\ InBook(os, r.symbol, m) /\ open[m] = os[m]
  <2>1. m \in S /\ m \in DOMAIN open
    BY <1>6 DEF Reached, Makers
  <2>2. m \in DOMAIN os /\ InBook(os, r.symbol, m) /\ open[m] = os[m]
    BY <1>2, <2>1 DEF InBook
  <2> QED BY <2>1, <2>2 DEF Submits
<1> HIDE DEF S
<1>9. ASSUME NEW m \in DOMAIN fills
      PROVE  fills[m] \in Nat \ {0} /\ fills[m] <= os[m].remaining
  BY <1>6, <1>8
<1> QED BY <1>3, <1>5, <1>6, <1>7, <1>8, <1>9 DEF S

(* The orders after it: the taker's row, and a fill for each maker reached.    *)
Resting(os, q, r, fills, nx) ==
    /\ DOMAIN nx = DOMAIN os \cup {q}
    /\ nx[q] = TakerRow(r, q, fills)
    /\ \A m \in DOMAIN fills : nx[m] = ApplyFill(os[m], fills[m])
    /\ \A id \in DOMAIN os : id \notin DOMAIN fills => nx[id] = os[id]

(* The trade of maker m in it.                                              *)
NewTrade(os, q, r, fills, next, m) ==
    [symbol |-> r.symbol, command |-> q,
     sequence |-> next + Position(OpenRows(os, r.symbol), DOMAIN fills, m),
     maker |-> m, taker |-> q, price |-> os[m].price, quantity |-> fills[m]]

NewTrades(os, q, r, fills, next) ==
    {NewTrade(os, q, r, fills, next, m) : m \in DOMAIN fills}

LEMMA SubmitIs ==
  ASSUME NEW os, NEW ts, NEW q, NEW r, Submits(os, ts, q, r),
         NEW fills, fills = FillsOf(os, r), NextTrade(ts, r.symbol) \in Nat,
         NEW out, out = OutcomeOf(os, ts, q, r)
  PROVE  /\ out.status = "completed"
         /\ Resting(os, q, r, fills, Persisted(os, out.rows))
         /\ out.trades = NewTrades(os, q, r, fills, NextTrade(ts, r.symbol))
<1> DEFINE open == OpenRows(os, r.symbol)
           next == NextTrade(ts, r.symbol)
           served == Served(open, DOMAIN fills)
           made == TradesOf(open, fills, q, next)
           rows == [id \in DOMAIN fills \cup {q} |->
                       IF id = q THEN TakerRow(r, q, fills) ELSE ApplyFill(open[id], fills[id])]
           trade(i) == [symbol |-> r.symbol, command |-> q, sequence |-> made[i].sequence,
                        maker |-> made[i].maker, taker |-> q, price |-> made[i].price,
                        quantity |-> made[i].quantity]
<1>1. RowsOk(os) /\ OpenBook(open) /\ OneSide(open, DOMAIN fills)
      /\ \A id \in DOMAIN open : id \in DOMAIN os /\ open[id] = os[id]
  <2>1. RowsOk(os)
    BY DEF Submits, Ledger
  <2> QED BY <2>1, FillsAre, OpenRowsOpen DEF InBook
<1>2. ~\E id \in DOMAIN open : open[id].sequence >= q
  <2> SUFFICES ASSUME NEW id \in DOMAIN open PROVE ~(open[id].sequence >= q)
    OBVIOUS
  <2>1. id \in DOMAIN os /\ open[id].sequence = id /\ id \in Nat /\ id < q /\ q \in Nat
    BY <1>1 DEF Submits, RowsOk
  <2> HIDE DEF open
  <2> QED BY <2>1
<1>3. out = Changes("order_accepted", rows, {trade(i) : i \in DOMAIN made})
  <2>1. out = SubmitOutcome(os, ts, q, r)
    BY DEF OutcomeOf, Submits
  <2>2. fills = Allotments(open, r.side, r.price, r.quantity)
    BY DEF FillsOf
  <2>3. rows = [id \in DOMAIN fills \cup {q} |->
                  IF id = q
                  THEN OfSymbol(r.symbol,
                          IF DOMAIN fills = {} THEN NewOrder(r.side, r.price, r.quantity, q)
                          ELSE ApplyFill(NewOrder(r.side, r.price, r.quantity, q), Allotted(fills)))
                  ELSE ApplyFill(open[id], fills[id])]
    BY DEF TakerRow
  <2> QED BY <1>2, <2>1, <2>2, <2>3, Zenon DEF SubmitOutcome
<1>4. out.status = "completed" /\ out.rows = rows /\ out.trades = {trade(i) : i \in DOMAIN made}
  BY <1>3 DEF Changes
<1>5. Resting(os, q, r, fills, Persisted(os, rows))
  <2> DEFINE nx == Persisted(os, rows)
  <2>1. /\ DOMAIN rows = DOMAIN fills \cup {q}
        /\ \A m \in DOMAIN fills : m \in DOMAIN os /\ m # q /\ open[m] = os[m]
        /\ rows[q] = TakerRow(r, q, fills)
        /\ \A m \in DOMAIN fills : rows[m] = ApplyFill(os[m], fills[m])
    BY FillsAre
  <2>2. \A id \in DOMAIN os : id # q
    BY DEF Submits
  <2> HIDE DEF rows
  <2> QED BY <2>1, <2>2 DEF Resting, Persisted
<1>6. {trade(i) : i \in DOMAIN made} = NewTrades(os, q, r, fills, next)
  <2>1. /\ served \in Bijection(1..Cardinality(DOMAIN fills), DOMAIN fills)
        /\ DOMAIN served = 1..Cardinality(DOMAIN fills)
        /\ \A i \in DOMAIN served : Position(open, DOMAIN fills, served[i]) = i - 1
    BY <1>1, ServedIs
  <2>2. DOMAIN made = DOMAIN served
    BY DEF TradesOf
  <2>3. ASSUME NEW i \in DOMAIN served
        PROVE  /\ served[i] \in DOMAIN fills
               /\ trade(i) = NewTrade(os, q, r, fills, next, served[i])
    <3>1. served[i] \in DOMAIN fills /\ open[served[i]] = os[served[i]]
      <4>1. served[i] \in DOMAIN fills
        <5> HIDE DEF served
        <5> QED BY <2>1, <2>3 DEF Bijection, Surjection
      <4> QED BY <1>1, <4>1 DEF OneSide
    <3>2. made[i] = [sequence |-> next + i - 1, maker |-> served[i], taker |-> q,
                     price |-> open[served[i]].price, quantity |-> fills[served[i]],
                     makerSide |-> open[served[i]].side]
      BY DEF TradesOf
    <3>3. next + Position(open, DOMAIN fills, served[i]) = next + i - 1
      <4>1. i \in Nat
        <5>1. i \in 1..Cardinality(DOMAIN fills)
          BY <2>1, <2>3
        <5> QED BY <5>1
      <4>2. next \in Nat
        OBVIOUS
      <4> HIDE DEF served, next
      <4> QED BY <2>1, <2>3, <4>1, <4>2
    <3> HIDE DEF made, served, next, open
    <3> QED BY <3>1, <3>2, <3>3 DEF NewTrade, open
  <2>4. ASSUME NEW m \in DOMAIN fills PROVE \E i \in DOMAIN served : served[i] = m
    <3> HIDE DEF served
    <3> QED BY <2>1 DEF Bijection, Surjection
  <2> HIDE DEF made, served, trade, next
  <2> QED BY <2>2, <2>3, <2>4 DEF NewTrades
<1> QED BY <1>4, <1>5, <1>6

(* The trades of a submission: one with each maker, numbered from next on.     *)
Made(fills, q, r, next, T) ==
    /\ IsFiniteSet(T) /\ T \subseteq TradeRow
    /\ Cardinality(DOMAIN fills) \in Nat
    /\ Cardinality(T) = Cardinality(DOMAIN fills)
    /\ {t.sequence : t \in T} = next..(next + Cardinality(DOMAIN fills) - 1)
    /\ \A t \in T : t.symbol = r.symbol /\ t.taker = q /\ t.maker \in DOMAIN fills
    /\ Total(Amounts, T) = Allotted(fills)
    /\ \A m \in DOMAIN fills : \E t \in T : Its(T, m) = {t} /\ Amounts[t] = fills[m]

LEMMA NewTradesAre ==
  ASSUME NEW os, NEW ts, NEW q, NEW r, Submits(os, ts, q, r),
         NEW fills, fills = FillsOf(os, r), NEW next \in Nat \ {0},
         NEW T, T = NewTrades(os, q, r, fills, next)
  PROVE  Made(fills, q, r, next, T)
<1> DEFINE R == DOMAIN fills
           open == OpenRows(os, r.symbol)
           row(m) == NewTrade(os, q, r, fills, next, m)
           pos(m) == Position(open, R, m)
           c == [m \in R |-> row(m)]
<1>1. /\ OpenBook(open) /\ OneSide(open, R)
      /\ Weights(fills, R) /\ Allotted(fills) = Total(fills, R)
      /\ \A m \in R : /\ m \in DOMAIN os /\ m # q /\ os[m] \in Row /\ m \in Nat \ {0}
                      /\ fills[m] \in Nat \ {0}
  <2>1. RowsOk(os)
    BY DEF Submits, Ledger
  <2>2. \A m \in DOMAIN os : os[m] \in Row /\ m \in Nat \ {0}
    BY <2>1 DEF RowsOk, Row
  <2> QED BY <2>2, FillsAre DEF Asked, AllottedRight
<1>2. IsFiniteSet(R) /\ Cardinality(R) \in Nat
      /\ \A m \in R : pos(m) \in Nat /\ pos(m) < Cardinality(R)
  <2> HIDE DEF R, open
  <2>1. IsFiniteSet(R)
    BY <1>1 DEF Weights
  <2>2. Cardinality(R) \in Nat
    BY <2>1, FS_CardinalityType
  <2> QED BY <1>1, <2>1, <2>2, PositionIs
<1>3. r.symbol \in Symbol /\ q \in Nat \ {0}
  BY RequestAssumption DEF Submits
<1> HIDE DEF open, pos
<1>4. ASSUME NEW m \in R
      PROVE  /\ row(m) \in TradeRow /\ row(m).symbol = r.symbol /\ row(m).taker = q
             /\ row(m).maker = m /\ row(m).sequence = next + pos(m)
             /\ row(m).quantity = fills[m] /\ Amounts[row(m)] = fills[m]
  <2>1. next + pos(m) \in Nat \ {0} /\ os[m].price \in Nat \ {0}
    BY <1>1, <1>2 DEF Row
  <2>2. row(m) = [symbol |-> r.symbol, command |-> q, sequence |-> next + pos(m),
                  maker |-> m, taker |-> q, price |-> os[m].price, quantity |-> fills[m]]
    BY DEF NewTrade, pos, open
  <2> HIDE DEF row
  <2>3. row(m) \in TradeRow
    BY <1>1, <1>3, <2>1, <2>2 DEF TradeRow
  <2> QED BY <2>2, <2>3 DEF Amounts
<1>5. T = {row(m) : m \in R}
  BY DEF NewTrades
<1> HIDE DEF row
<1>6. c \in Bijection(R, T)
  <2>1. \A m, k \in R : row(m) = row(k) => m = k
    BY <1>4
  <2>2. c \in [R -> T] /\ \A t \in T : \E m \in R : c[m] = t
    BY <1>5
  <2>3. \A m \in R : c[m] = row(m)
    OBVIOUS
  <2> HIDE DEF c, R
  <2> QED BY <2>1, <2>2, <2>3 DEF Bijection, Injection, Surjection, IsInjective
<1>7. /\ Total(Amounts, T) = Allotted(fills)
      /\ IsFiniteSet(T) /\ Cardinality(T) = Cardinality(R)
  <2>1. \A m \in R : Amounts[c[m]] = fills[m]
    BY <1>4
  <2> HIDE DEF c, R
  <2> QED BY <1>1, <1>6, <2>1, TotalVia
<1>8. T \subseteq TradeRow /\ \A t \in T : t.symbol = r.symbol /\ t.taker = q /\ t.maker \in R
  BY <1>4, <1>5
<1>9. ASSUME NEW m \in R
      PROVE  \E t \in T : Its(T, m) = {t} /\ Amounts[t] = fills[m]
  <2>1. \A k \in R : m \in {row(k).maker, row(k).taker} <=> k = m
    BY <1>1, <1>4
  <2>2. Its(T, m) = {row(m)}
    BY <1>5, <2>1 DEF Its
  <2> QED BY <1>4, <1>5, <2>2
<1>10. {t.sequence : t \in T} = next..(next + Cardinality(R) - 1)
  <2>1. ASSUME NEW t \in T PROVE t.sequence \in next..(next + Cardinality(R) - 1)
    <3>1. PICK m \in R : t = row(m)
      BY <1>5
    <3>2. t.sequence = next + pos(m) /\ pos(m) \in Nat /\ pos(m) < Cardinality(R)
      BY <1>2, <1>4, <3>1
    <3> HIDE DEF R
    <3> QED BY <1>2, <3>2
  <2>2. ASSUME NEW k \in next..(next + Cardinality(R) - 1)
        PROVE  \E t \in T : t.sequence = k
    <3> DEFINE served == Served(open, R)
               i == k - next + 1
    <3>1. /\ served \in Bijection(1..Cardinality(R), R)
          /\ DOMAIN served = 1..Cardinality(R)
          /\ \A j \in DOMAIN served : Position(open, R, served[j]) = j - 1
      <4> HIDE DEF R
      <4> QED BY <1>1, ServedIs
    <3>2. i \in 1..Cardinality(R) /\ i - 1 = k - next /\ k \in Int
      <4> HIDE DEF R
      <4> QED BY <1>2
    <3> HIDE DEF served, i
    <3>3. served[i] \in R /\ pos(served[i]) = k - next
      BY <3>1, <3>2 DEF Bijection, Surjection, pos
    <3>4. row(served[i]) \in T /\ row(served[i]).sequence = next + (k - next)
      BY <1>4, <1>5, <3>3
    <3>5. next + (k - next) = k
      BY <3>2
    <3> QED BY <3>4, <3>5
  <2> QED BY <2>1, <2>2
<1> QED BY <1>2, <1>7, <1>8, <1>9, <1>10 DEF Made

(* Trades are numbered on from those there are.                              *)
LEMMA NextTradeIs ==
  ASSUME NEW ts, NEW symbol, Numbered(ts, symbol), IsFiniteSet(ts)
  PROVE  /\ Cardinality({t \in ts : t.symbol = symbol}) \in Nat
         /\ NextTrade(ts, symbol) = Cardinality({t \in ts : t.symbol = symbol}) + 1
<1> DEFINE its == {t \in ts : t.symbol = symbol}
           n == Cardinality(its)
<1>1. n \in Nat
  <2>1. IsFiniteSet(its)
    BY FS_Subset
  <2> QED BY <2>1, FS_CardinalityType
<1>2. {t.sequence : t \in its} = 1..n
  BY DEF Numbered
<1>3. NextTrade(ts, symbol) = 1 + Max({0} \cup 1..n)
  BY <1>2 DEF NextTrade
<1> HIDE DEF n, its
<1>4. Max({0} \cup 1..n) = n
  <2> DEFINE S == {0} \cup 1..n
  <2>1. S \in SUBSET Int /\ n \in S /\ \A x \in S : x <= n
    BY <1>1
  <2> HIDE DEF S
  <2>2. Max(S) = n
    BY <2>1, MaxIs
  <2> QED BY <2>2 DEF S
<1> QED BY <1>1, <1>3, <1>4 DEF n, its

LEMMA NumberedOn ==
  ASSUME NEW ts, IsFiniteSet(ts), NEW symbol, Numbered(ts, symbol),
         NEW fills, NEW q, NEW r, NEW T, Made(fills, q, r, NextTrade(ts, r.symbol), T)
  PROVE  Numbered(ts \cup T, symbol)
<1> DEFINE its == {t \in ts : t.symbol = symbol}
           both == {t \in ts \cup T : t.symbol = symbol}
           n == Cardinality(its)
           k == Cardinality(DOMAIN fills)
<1>1. CASE symbol # r.symbol
  <2>1. both = its
    BY <1>1 DEF Made
  <2> QED BY <2>1 DEF Numbered
<1>2. CASE symbol = r.symbol
  <2>1. n \in Nat /\ NextTrade(ts, symbol) = n + 1 /\ IsFiniteSet(its)
        /\ {t.sequence : t \in its} = 1..n
    BY NextTradeIs, FS_Subset DEF Numbered
  <2>2. both = its \cup T
    BY <1>2 DEF Made
  <2>3. k \in Nat /\ {t.sequence : t \in T} = (n + 1)..((n + 1) + k - 1)
        /\ IsFiniteSet(T) /\ Cardinality(T) = k
    BY <1>2, <2>1 DEF Made
  <2> HIDE DEF its, both, n, k
  <2>4. its \cap T = {}
    <3> SUFFICES ASSUME NEW t \in its, t \in T PROVE FALSE
      OBVIOUS
    <3>1. t.sequence \in 1..n /\ t.sequence \in (n + 1)..((n + 1) + k - 1)
      BY <2>1, <2>3
    <3> QED BY <2>1, <3>1
  <2>5. Cardinality(both) = n + k
    <3>1. Cardinality(its \cup T) = Cardinality(its) + Cardinality(T) - Cardinality(its \cap T)
      BY <2>1, <2>3, FS_Union
    <3>2. Cardinality(its \cap T) = 0
      BY <2>4, FS_EmptySet
    <3> QED BY <2>1, <2>2, <2>3, <3>1, <3>2 DEF n
  <2>6. {t.sequence : t \in both} = {t.sequence : t \in its} \cup {t.sequence : t \in T}
    BY <2>2
  <2>7. 1..n \cup (n + 1)..((n + 1) + k - 1) = 1..(n + k)
    BY <2>1, <2>3
  <2>8. {t.sequence : t \in both} = 1..Cardinality(both)
    BY <2>1, <2>3, <2>5, <2>6, <2>7
  <2> QED BY <2>8 DEF Numbered, both
<1> QED BY <1>1, <1>2

LEMMA TradedWeights ==
  ASSUME NEW os, NEW ts, TradesOk(os, ts), NEW id
  PROVE  Weights(Amounts, Its(ts, id)) /\ TradedBy(ts, id) \in Nat
<1>1. IsFiniteSet(Its(ts, id)) /\ Its(ts, id) \subseteq TradeRow
  BY FS_Subset DEF Its, TradesOk
<1>2. \A t \in TradeRow : Amounts[t] \in Nat
  BY DEF Amounts, TradeRow
<1>3. Weights(Amounts, Its(ts, id))
  BY <1>1, <1>2 DEF Weights
<1> QED BY <1>3, TotalIsUnits DEF TradedBy

LEMMA SubmitKeepsRows ==
  ASSUME NEW os, NEW ts, NEW q, NEW r, Submits(os, ts, q, r),
         NEW fills, fills = FillsOf(os, r), NEW nx, Resting(os, q, r, fills, nx)
  PROVE  /\ RowsOk(nx)
         /\ nx[q].symbol = r.symbol /\ nx[q].side = r.side /\ nx[q].price = r.price
         /\ nx[q].quantity = r.quantity /\ nx[q].remaining = r.quantity - Allotted(fills)
         /\ nx[q].status \in Active => Allotted(fills) # r.quantity
         /\ \A id \in DOMAIN os :
               /\ nx[id].symbol = os[id].symbol /\ nx[id].side = os[id].side
               /\ nx[id].price = os[id].price /\ nx[id].quantity = os[id].quantity
               /\ nx[id].status \in Active => os[id].status \in Active
         /\ \A m \in DOMAIN fills :
               /\ nx[m].remaining = os[m].remaining - fills[m]
               /\ nx[m].status \in Active => fills[m] # os[m].remaining
<1> DEFINE open == OpenRows(os, r.symbol)
<1>1. RowsOk(os) /\ q \in Nat \ {0} /\ q \notin DOMAIN os
      /\ r \in Request /\ r.kind = "submit"
  BY DEF Submits, Ledger
<1>2. /\ AllottedRight(open, r.side, r.price, r.quantity, fills)
      /\ \A m \in DOMAIN fills :
            /\ m \in DOMAIN os /\ InBook(os, r.symbol, m)
            /\ fills[m] \in Nat \ {0} /\ fills[m] <= os[m].remaining
  BY FillsAre
<1>3. /\ nx[q] \in Row /\ ValidState(nx[q]) /\ nx[q].sequence = q
      /\ nx[q].symbol = r.symbol /\ nx[q].side = r.side /\ nx[q].price = r.price
      /\ nx[q].quantity = r.quantity /\ nx[q].remaining = r.quantity - Allotted(fills)
      /\ nx[q].status \in Active => Allotted(fills) # r.quantity
  <2>1. nx[q] = TakerRow(r, q, fills)
    BY DEF Resting
  <2>2. /\ Allotted(fills) \in Nat /\ Allotted(fills) <= r.quantity
        /\ DOMAIN fills = {} => Allotted(fills) = 0
        /\ DOMAIN fills # {} => Allotted(fills) # 0
    BY <1>2 DEF AllottedRight
  <2> QED BY <1>1, <2>1, <2>2, TakerRowIs
<1>4. ASSUME NEW m \in DOMAIN fills
      PROVE  /\ nx[m] \in Row /\ ValidState(nx[m]) /\ nx[m].sequence = m
             /\ nx[m].symbol = os[m].symbol /\ nx[m].side = os[m].side
             /\ nx[m].price = os[m].price /\ nx[m].quantity = os[m].quantity
             /\ nx[m].remaining = os[m].remaining - fills[m]
             /\ nx[m].status \in Active => fills[m] # os[m].remaining
             /\ os[m].status \in Active
  <2>1. /\ os[m] \in Row /\ ValidState(os[m]) /\ os[m].status \in Active
        /\ os[m].sequence = m /\ nx[m] = ApplyFill(os[m], fills[m])
    BY <1>1, <1>2 DEF RowsOk, InBook, Resting
  <2> QED BY <1>2, <2>1, FilledRow
<1>5. \A id \in DOMAIN os : id \notin DOMAIN fills => nx[id] = os[id]
  BY DEF Resting
<1>6. DOMAIN nx = DOMAIN os \cup {q}
  BY DEF Resting
<1>7. RowsOk(nx)
  <2>1. IsFiniteSet(DOMAIN nx)
    BY <1>1, <1>6, FS_AddElement DEF RowsOk
  <2>2. ASSUME NEW id \in DOMAIN nx
        PROVE  nx[id] \in Row /\ ValidState(nx[id]) /\ nx[id].sequence = id
    BY <1>1, <1>3, <1>4, <1>5, <1>6 DEF RowsOk
  <2> QED BY <2>1, <2>2 DEF RowsOk
<1>8. ASSUME NEW id \in DOMAIN os
      PROVE  /\ nx[id].symbol = os[id].symbol /\ nx[id].side = os[id].side
             /\ nx[id].price = os[id].price /\ nx[id].quantity = os[id].quantity
             /\ nx[id].status \in Active => os[id].status \in Active
  BY <1>4, <1>5
<1> QED BY <1>3, <1>4, <1>7, <1>8

LEMMA SubmitKeepsBalance ==
  ASSUME NEW os, NEW ts, NEW q, NEW r, Submits(os, ts, q, r),
         NEW fills, fills = FillsOf(os, r), NEW nx, Resting(os, q, r, fills, nx),
         NEW next, NEW T, Made(fills, q, r, next, T)
  PROVE  TradesOk(nx, ts \cup T) /\ Balanced(nx, ts \cup T)
<1>1. /\ RowsOk(os) /\ TradesOk(os, ts) /\ Balanced(os, ts) /\ q \notin DOMAIN os
      /\ r.quantity \in Nat
  BY RequestAssumption DEF Submits, Ledger
<1>2. /\ DOMAIN nx = DOMAIN os \cup {q}
      /\ nx[q].quantity = r.quantity /\ nx[q].remaining = r.quantity - Allotted(fills)
      /\ \A id \in DOMAIN os : nx[id].quantity = os[id].quantity
      /\ \A m \in DOMAIN fills : nx[m].remaining = os[m].remaining - fills[m]
      /\ \A id \in DOMAIN os : id \notin DOMAIN fills => nx[id] = os[id]
  BY SubmitKeepsRows DEF Resting
<1>3. \A m \in DOMAIN fills : m \in DOMAIN os /\ m # q /\ fills[m] \in Nat
  BY FillsAre
<1>4. /\ IsFiniteSet(T) /\ T \subseteq TradeRow
      /\ \A t \in T : t.taker = q /\ t.maker \in DOMAIN fills
      /\ Total(Amounts, T) = Allotted(fills)
      /\ \A m \in DOMAIN fills : \E t \in T : Its(T, m) = {t} /\ Amounts[t] = fills[m]
  BY DEF Made
<1>5. TradesOk(nx, ts \cup T)
  <2>1. IsFiniteSet(ts \cup T)
    BY <1>1, <1>4, FS_Union DEF TradesOk
  <2> QED BY <1>1, <1>2, <1>3, <1>4, <2>1 DEF TradesOk
<1>6. \A id : Its(ts \cup T, id) = Its(ts, id) \cup Its(T, id)
  BY DEF Its
<1>7. nx[q].quantity = nx[q].remaining + TradedBy(ts \cup T, q)
  <2>1. Its(ts, q) = {}
    BY <1>1 DEF Its, TradesOk
  <2>2. Its(T, q) = T
    BY <1>4 DEF Its
  <2>3. TradedBy(ts \cup T, q) = Allotted(fills)
    BY <1>4, <1>6, <2>1, <2>2 DEF TradedBy
  <2>4. Allotted(fills) \in Nat
    BY FillsAre DEF AllottedRight
  <2> QED BY <1>1, <1>2, <2>3, <2>4
<1>8. ASSUME NEW m \in DOMAIN fills
      PROVE  nx[m].quantity = nx[m].remaining + TradedBy(ts \cup T, m)
  <2>1. PICK t \in T : Its(T, m) = {t} /\ Amounts[t] = fills[m]
    BY <1>4
  <2>2. t \notin Its(ts, m)
    BY <1>1, <1>4 DEF Its, TradesOk
  <2>3. Weights(Amounts, Its(ts, m)) /\ TradedBy(ts, m) \in Nat
    BY <1>1, TradedWeights
  <2>4. Its(ts \cup T, m) = Its(ts, m) \cup {t}
    BY <1>6, <2>1
  <2>5. Total(Amounts, Its(ts, m) \cup {t}) = Amounts[t] + Total(Amounts, Its(ts, m))
    BY <1>3, <2>1, <2>2, <2>3, TotalWithOne
  <2>6. TradedBy(ts \cup T, m) = fills[m] + TradedBy(ts, m)
    BY <2>1, <2>4, <2>5 DEF TradedBy
  <2>7. /\ os[m].quantity = os[m].remaining + TradedBy(ts, m)
        /\ os[m].remaining \in Nat /\ fills[m] \in Nat
        /\ nx[m].quantity = os[m].quantity /\ nx[m].remaining = os[m].remaining - fills[m]
    BY <1>1, <1>2, <1>3 DEF Balanced, RowsOk, Row
  <2> QED BY <2>3, <2>6, <2>7
<1>9. ASSUME NEW id \in DOMAIN os, id \notin DOMAIN fills
      PROVE  nx[id].quantity = nx[id].remaining + TradedBy(ts \cup T, id)
  <2>1. Its(T, id) = {}
    BY <1>1, <1>4, <1>9 DEF Its
  <2>2. TradedBy(ts \cup T, id) = TradedBy(ts, id)
    BY <1>6, <2>1 DEF TradedBy
  <2> QED BY <1>1, <1>2, <1>9, <2>2 DEF Balanced
<1>10. Balanced(nx, ts \cup T)
  BY <1>2, <1>7, <1>8, <1>9 DEF Balanced
<1> QED BY <1>5, <1>10

(* If something of the taker rests, whoever it crosses has nothing left.      *)
LEMMA SubmitKeepsUncrossed ==
  ASSUME NEW os, NEW ts, NEW q, NEW r, Submits(os, ts, q, r),
         NEW fills, fills = FillsOf(os, r), NEW nx, Resting(os, q, r, fills, nx),
         NEW symbol \in Symbol, Uncrossed(os, symbol)
  PROVE  Uncrossed(nx, symbol)
<1> DEFINE open == OpenRows(os, r.symbol)
<1>1. /\ DOMAIN nx = DOMAIN os \cup {q} /\ q \notin DOMAIN os
      /\ nx[q].symbol = r.symbol /\ nx[q].side = r.side /\ nx[q].price = r.price
      /\ nx[q].status \in Active => Allotted(fills) # r.quantity
      /\ \A id \in DOMAIN os :
            /\ nx[id].symbol = os[id].symbol /\ nx[id].side = os[id].side
            /\ nx[id].price = os[id].price
            /\ nx[id].status \in Active => os[id].status \in Active
      /\ \A m \in DOMAIN fills : nx[m].status \in Active => fills[m] # os[m].remaining
  <2>1. q \notin DOMAIN os
    <3>1. q \in Nat /\ \A id \in DOMAIN os : id \in Nat /\ id < q
      BY DEF Submits
    <3> QED BY <3>1
  <2>2. DOMAIN nx = DOMAIN os \cup {q}
    BY DEF Resting
  <2> QED BY <2>1, <2>2, SubmitKeepsRows
<1>2. \A id \in DOMAIN os : InBook(nx, symbol, id) => InBook(os, symbol, id)
  BY <1>1 DEF InBook
<1>3. ASSUME InBook(nx, symbol, q), NEW id \in DOMAIN os, InBook(nx, symbol, id),
             nx[id].side # r.side
      PROVE  ~Crosses(r.side, r.price, os[id].price)
  <2> SUFFICES ASSUME Crosses(r.side, r.price, os[id].price) PROVE FALSE
    OBVIOUS
  <2>1. symbol = r.symbol /\ InBook(os, r.symbol, id)
    BY <1>1, <1>2, <1>3 DEF InBook
  <2>2. id \in DOMAIN open /\ open[id] = os[id]
    <3>1. RowsOk(os)
      BY DEF Submits, Ledger
    <3> QED BY <2>1, <3>1, OpenRowsOpen
  <2>3. id \in Makers(open, r.side, r.price)
    BY <1>1, <1>3, <2>2 DEF Makers
  <2>4. Allotted(fills) # r.quantity
    BY <1>1, <1>3 DEF InBook
  <2>5. id \in DOMAIN fills /\ fills[id] = open[id].remaining
    <3>1. AllottedRight(open, r.side, r.price, r.quantity, fills)
      BY FillsAre
    <3> HIDE DEF open
    <3> QED BY <2>3, <2>4, <3>1 DEF AllottedRight
  <2> QED BY <1>1, <1>3, <2>2, <2>5 DEF InBook
<1> SUFFICES ASSUME NEW b, NEW a, InBook(nx, symbol, b), InBook(nx, symbol, a),
                    nx[b].side = "buy", nx[a].side = "sell"
             PROVE  nx[b].price < nx[a].price
  BY DEF Uncrossed
<1>4. \A id \in DOMAIN os : os[id].price \in Nat
  BY DEF Submits, Ledger, RowsOk, Row
<1>5. r.price \in Nat
  BY RequestAssumption DEF Submits
<1>6. CASE b \in DOMAIN os /\ a \in DOMAIN os
  BY <1>1, <1>2, <1>6 DEF Uncrossed
<1>7. CASE b = q
  <2>1. a \in DOMAIN os /\ r.side = "buy"
    BY <1>1, <1>7 DEF InBook
  <2>2. ~Crosses(r.side, r.price, os[a].price)
    BY <1>3, <1>7, <2>1
  <2> QED BY <1>1, <1>4, <1>5, <1>7, <2>1, <2>2 DEF Crosses
<1>8. CASE a = q
  <2>1. b \in DOMAIN os /\ r.side = "sell"
    BY <1>1, <1>8 DEF InBook
  <2>2. ~Crosses(r.side, r.price, os[b].price)
    BY <1>3, <1>8, <2>1
  <2> QED BY <1>1, <1>4, <1>5, <1>8, <2>1, <2>2 DEF Crosses
<1> QED BY <1>1, <1>6, <1>7, <1>8 DEF InBook

(* A finished command leaves a ledger, with at most an order of its own added. *)
Keeps(os, ts, q, out) ==
    /\ Ledger(Persisted(os, out.rows), ts \cup out.trades)
    /\ DOMAIN Persisted(os, out.rows) \subseteq DOMAIN os \cup {q}
    /\ out.status # "queued"

LEMMA SubmitKeepsLedger ==
  ASSUME NEW os, NEW ts, NEW q, NEW r, Submits(os, ts, q, r),
         NEW out, out = OutcomeOf(os, ts, q, r)
  PROVE  Keeps(os, ts, q, out)
<1> DEFINE nx == Persisted(os, out.rows)
           next == NextTrade(ts, r.symbol)
           T == out.trades
<1>1. PICK fills : fills = FillsOf(os, r)
  OBVIOUS
<1>2. r.symbol \in Symbol /\ IsFiniteSet(ts)
      /\ \A symbol \in Symbol : Numbered(ts, symbol) /\ Uncrossed(os, symbol)
  BY RequestAssumption DEF Submits, Ledger, TradesOk
<1>3. next \in Nat \ {0}
  <2> DEFINE n == Cardinality({t \in ts : t.symbol = r.symbol})
  <2>1. n \in Nat /\ next = n + 1
    BY <1>2, NextTradeIs
  <2> HIDE DEF n, next
  <2> QED BY <2>1
<1>4. out.status = "completed" /\ Resting(os, q, r, fills, nx) /\ T = NewTrades(os, q, r, fills, next)
  BY <1>1, <1>3, SubmitIs
<1> HIDE DEF nx, T
<1>5. Made(fills, q, r, next, T)
  BY <1>1, <1>3, <1>4, NewTradesAre
<1>6. RowsOk(nx)
  BY <1>1, <1>4, SubmitKeepsRows
<1>7. TradesOk(nx, ts \cup T) /\ Balanced(nx, ts \cup T)
  BY <1>1, <1>4, <1>5, SubmitKeepsBalance
<1>8. ASSUME NEW symbol \in Symbol
      PROVE  Numbered(ts \cup T, symbol) /\ Uncrossed(nx, symbol)
  BY <1>1, <1>2, <1>4, <1>5, NumberedOn, SubmitKeepsUncrossed
<1>9. Ledger(nx, ts \cup T)
  BY <1>6, <1>7, <1>8 DEF Ledger
<1>10. DOMAIN nx = DOMAIN os \cup {q}
  BY <1>4 DEF Resting
<1> QED BY <1>4, <1>9, <1>10 DEF nx, T, Keeps

LEMMA CancelKeepsLedger ==
  ASSUME NEW os, NEW ts, Ledger(os, ts), NEW q, NEW r,
         NEW out, out = CancelOutcome(os, r)
  PROVE  Keeps(os, ts, q, out)
<1> DEFINE open == OpenRows(os, r.symbol)
           nx == Persisted(os, out.rows)
           x == r.target
<1>1. RowsOk(os) /\ TradesOk(os, ts) /\ Balanced(os, ts)
      /\ \A symbol \in Symbol : Numbered(ts, symbol) /\ Uncrossed(os, symbol)
  BY DEF Ledger
<1>2. \A id \in DOMAIN open : InBook(os, r.symbol, id) /\ open[id] = os[id]
  BY <1>1, OpenRowsOpen
<1>3. CASE x \in DOMAIN open
  <2>1. /\ out.rows = [id \in {x} |-> Cancelled(open[x])] /\ out.trades = {}
        /\ out.status # "queued"
    BY <1>3 DEF CancelOutcome, Changes
  <2>2. x \in DOMAIN os /\ open[x] = os[x] /\ os[x] \in Row /\ ValidState(os[x])
        /\ os[x].status \in Active /\ os[x].sequence = x
    BY <1>1, <1>2, <1>3 DEF InBook, RowsOk
  <2>3. /\ DOMAIN nx = DOMAIN os
        /\ nx[x] = Cancelled(os[x])
        /\ \A id \in DOMAIN os : id # x => nx[id] = os[id]
    BY <2>1, <2>2 DEF Persisted
  <2> HIDE DEF nx, open, x
  <2>4. /\ nx[x] \in Row /\ ValidState(nx[x]) /\ nx[x].sequence = x
        /\ nx[x].symbol = os[x].symbol /\ nx[x].side = os[x].side
        /\ nx[x].price = os[x].price /\ nx[x].quantity = os[x].quantity
        /\ nx[x].remaining = os[x].remaining /\ nx[x].status \notin Active
    <3>1. os[x].remaining \in Nat \ {0}
      BY <2>2 DEF Row, ValidState, Active
    <3> QED BY <2>2, <2>3, <3>1 DEF Cancelled, Row, ValidState, Status, Active
  <2>5. RowsOk(nx)
    BY <1>1, <2>3, <2>4 DEF RowsOk
  <2>6. TradesOk(nx, ts) /\ Balanced(nx, ts)
    BY <1>1, <2>3, <2>4 DEF TradesOk, Balanced
  <2>7. ASSUME NEW symbol \in Symbol PROVE Uncrossed(nx, symbol)
    <3>1. ASSUME NEW id, InBook(nx, symbol, id)
          PROVE  InBook(os, symbol, id) /\ nx[id] = os[id]
      BY <2>3, <2>4, <3>1 DEF InBook
    <3> QED BY <1>1, <3>1 DEF Uncrossed
  <2>8. ts \cup out.trades = ts
    BY <2>1
  <2>9. Ledger(nx, ts)
    BY <1>1, <2>5, <2>6, <2>7 DEF Ledger
  <2> QED BY <2>1, <2>3, <2>8, <2>9 DEF nx, Keeps
<1>4. CASE x \notin DOMAIN open
  <2>1. out.rows = NoRows /\ out.trades = {} /\ out.status # "queued"
    BY <1>4 DEF CancelOutcome, Rejection
  <2>2. DOMAIN nx = DOMAIN os /\ \A id \in DOMAIN os : nx[id] = os[id]
    BY <2>1 DEF Persisted, NoRows
  <2>3. ts \cup out.trades = ts
    BY <2>1
  <2> HIDE DEF nx, open, x
  <2>4. RowsOk(nx) /\ TradesOk(nx, ts) /\ Balanced(nx, ts)
    BY <1>1, <2>2 DEF RowsOk, TradesOk, Balanced
  <2>5. ASSUME NEW symbol \in Symbol PROVE Uncrossed(nx, symbol)
    <3>1. ASSUME NEW id, InBook(nx, symbol, id)
          PROVE  InBook(os, symbol, id) /\ nx[id] = os[id]
      BY <2>2, <3>1 DEF InBook
    <3> QED BY <1>1, <3>1 DEF Uncrossed
  <2>6. Ledger(nx, ts)
    BY <1>1, <2>4, <2>5 DEF Ledger
  <2> QED BY <2>1, <2>2, <2>3, <2>6 DEF nx, Keeps
<1> QED BY <1>3, <1>4

(* What an outcome that finishes its command says of itself.                 *)
LEMMA OutcomeTypes ==
  ASSUME NEW rows, NEW ts, NEW q, NEW r, NEW out, out = OutcomeOf(rows, ts, q, r),
         out.status # "queued"
  PROVE  /\ out.type \in {"order_accepted", "order_cancelled", "command_rejected"}
         /\ out.error \in {"none", "UnknownOrderError"}
<1>1. \A type, changed, made :
         /\ Changes(type, changed, made).type = type
         /\ Changes(type, changed, made).error = "none"
  BY DEF Changes
<1>2. \A error :
         /\ Raised(error).status = "queued"
         /\ Rejection(error).type = "command_rejected"
         /\ Rejection(error).error = error
  BY DEF Raised, Rejection
<1>3. ASSUME out = SubmitOutcome(rows, ts, q, r)
      PROVE  out.type = "order_accepted" /\ out.error = "none"
  <2>1. \/ SubmitOutcome(rows, ts, q, r) = Raised("OutOfSequenceError")
        \/ \E changed, made :
               SubmitOutcome(rows, ts, q, r) = Changes("order_accepted", changed, made)
    BY Zenon DEF SubmitOutcome
  <2> QED BY <1>1, <1>2, <1>3, <2>1
<1>4. ASSUME out = CancelOutcome(rows, r)
      PROVE  \/ out.type = "order_cancelled" /\ out.error = "none"
             \/ out.type = "command_rejected" /\ out.error = "UnknownOrderError"
  <2>1. \/ CancelOutcome(rows, r) = Rejection("UnknownOrderError")
        \/ \E changed, made :
               CancelOutcome(rows, r) = Changes("order_cancelled", changed, made)
    BY Zenon DEF CancelOutcome
  <2> QED BY <1>1, <1>2, <1>4, <2>1
<1>5. out = SubmitOutcome(rows, ts, q, r) \/ out = CancelOutcome(rows, r)
  BY DEF OutcomeOf
<1> QED BY <1>3, <1>4, <1>5

(* Applying a command whose id is above every order's keeps the ledger.       *)
LEMMA OutcomeKeepsLedger ==
  ASSUME NEW os, NEW ts, Ledger(os, ts), NEW q \in Nat \ {0},
         \A id \in DOMAIN os : id \in Nat /\ id < q,
         NEW r \in Request, NEW out, out = OutcomeOf(os, ts, q, r)
  PROVE  Keeps(os, ts, q, out)
<1>1. CASE r.kind = "submit"
  <2>1. Submits(os, ts, q, r)
    BY <1>1 DEF Submits
  <2> QED BY <2>1, SubmitKeepsLedger
<1>2. CASE r.kind # "submit"
  <2>1. out = CancelOutcome(os, r)
    BY <1>2 DEF OutcomeOf
  <2> QED BY <2>1, CancelKeepsLedger
<1> QED BY <1>1, <1>2

LEMMA EmptyLedger == Ledger(NoRows, {})
<1>1. DOMAIN NoRows = {} /\ IsFiniteSet({})
  BY FS_EmptySet DEF NoRows
<1>2. RowsOk(NoRows) /\ TradesOk(NoRows, {}) /\ Balanced(NoRows, {})
  BY <1>1 DEF RowsOk, TradesOk, Balanced
<1>3. ASSUME NEW symbol \in Symbol
      PROVE  Numbered({}, symbol) /\ Uncrossed(NoRows, symbol)
  <2>1. {t \in {} : t.symbol = symbol} = {} /\ Cardinality({}) = 0
    BY FS_EmptySet
  <2>2. {t.sequence : t \in {}} = {} /\ 1..0 = {}
    OBVIOUS
  <2> QED BY <1>1, <2>1, <2>2 DEF Numbered, Uncrossed, InBook
<1> QED BY <1>2, <1>3 DEF Ledger

-----------------------------------------------------------------------------
(* The ledger in every state. Every order is of a finished command, and so    *)
(* its id is below the claimed one, the head of the queue.                   *)

EventsTyped == \A e \in DOMAIN events : events[e] \in EventRow

FlushedTyped ==
    \A p \in Processor :
        phase[p] = "applied" =>
           /\ pending[p].type \in {"order_accepted", "order_cancelled", "command_rejected"}
           /\ pending[p].error \in {"none", "UnknownOrderError"}

LedgerInv ==
    /\ Ledger(orders, trades)
    /\ DOMAIN orders \subseteq FinishedSequences
    /\ EventsTyped
    /\ FlushedTyped

LEMMA LedgerUntouched ==
  ASSUME LedgerInv, UNCHANGED <<orders, trades, events>>,
         FinishedSequences' = FinishedSequences,
         \A p \in Processor :
            phase'[p] = "applied" => phase[p] = "applied" /\ pending'[p] = pending[p]
  PROVE  LedgerInv'
<1>1. Ledger(orders, trades)'
  <2>1. Ledger(orders, trades) /\ orders' = orders /\ trades' = trades
    BY DEF LedgerInv
  <2> QED BY <2>1
<1>2. (DOMAIN orders \subseteq FinishedSequences)' /\ EventsTyped' /\ FlushedTyped'
  BY DEF LedgerInv, EventsTyped, FlushedTyped
<1> QED BY <1>1, <1>2 DEF LedgerInv

LEMMA LedgerOfApply ==
  ASSUME Inv, LedgerInv, NEW p \in Processor, Apply(p)
  PROVE  LedgerInv'
<1> DEFINE result == OutcomeOf(orders, trades, claim[p], commands[claim[p]].request)
<1>1. /\ phase[p] = "claimed"
      /\ UNCHANGED <<commands, last, orders, trades, events, published, faults>>
      /\ IF result.status = "queued"
           THEN phase' = [phase EXCEPT ![p] = "backoff"]
           ELSE /\ phase' = [phase EXCEPT ![p] = "applied"]
                /\ pending' = [pending EXCEPT ![p] =
                      [status |-> result.status, rows |-> result.rows,
                       trades |-> result.trades, type |-> result.type,
                       error |-> result.error, event |-> nextEvent]]
                /\ claim' = claim
  BY Zenon DEF Apply
<1>2. \A o \in Processor \ {p} : phase[o] # "applied" /\ phase'[o] = phase[o]
  BY <1>1 DEF Inv, OneWriter, InTransaction, ControlTypes
<1>3. /\ Ledger(orders, trades)' /\ (DOMAIN orders \subseteq FinishedSequences)'
      /\ EventsTyped'
  <2>1. Ledger(orders, trades) /\ orders' = orders /\ trades' = trades
    BY <1>1 DEF LedgerInv
  <2>2. Ledger(orders, trades)'
    BY <2>1
  <2>3. (DOMAIN orders \subseteq FinishedSequences)' /\ EventsTyped'
    BY <1>1 DEF LedgerInv, EventsTyped, FinishedSequences, QueuedSequences
  <2> QED BY <2>2, <2>3
<1>4. FlushedTyped'
  <2>1. phase'[p] = "applied" =>
           /\ result.status # "queued"
           /\ pending'[p].type = result.type /\ pending'[p].error = result.error
    BY <1>1 DEF Inv, ControlTypes
  <2>2. result.status # "queued" =>
           /\ result.type \in {"order_accepted", "order_cancelled", "command_rejected"}
           /\ result.error \in {"none", "UnknownOrderError"}
    BY OutcomeTypes
  <2> HIDE DEF result
  <2> QED BY <1>2, <2>1, <2>2 DEF FlushedTyped
<1> QED BY <1>3, <1>4 DEF LedgerInv

(* What a claimed command is: a request that comes after every stored order.   *)
LEMMA ClaimedIs ==
  ASSUME Inv, NEW p \in Processor, phase[p] \in {"claimed", "applied"}
  PROVE  /\ claim[p] \in QueuedSequences /\ claim[p] \in Nat \ {0}
         /\ commands[claim[p]].request \in Request
         /\ \A s \in FinishedSequences : s \in Nat /\ s < claim[p]
<1>1. claim[p] \in QueuedSequences /\ claim[p] \in DOMAIN commands
  BY DEF Inv, ClaimIsHead, QueuedSequences
<1>2. claim[p] \in Nat \ {0} /\ commands[claim[p]].request \in Request
  BY <1>1 DEF Inv, ControlTypes, CommandRow
<1>3. \A s \in FinishedSequences : s \in Nat /\ s < claim[p]
  BY <1>1 DEF Inv, ControlTypes, FinishedInOrder, FinishedSequences
<1> QED BY <1>1, <1>2, <1>3

LEMMA ClaimedKeeps ==
  ASSUME Inv, LedgerInv, NEW p \in Processor, phase[p] \in {"claimed", "applied"},
         NEW out, out = OutcomeOf(orders, trades, claim[p], commands[claim[p]].request)
  PROVE  Keeps(orders, trades, claim[p], out)
<1> DEFINE q == claim[p]
           r == commands[q].request
<1>1. /\ q \in Nat \ {0} /\ r \in Request
      /\ \A s \in FinishedSequences : s \in Nat /\ s < q
  BY ClaimedIs
<1>2. Ledger(orders, trades) /\ \A id \in DOMAIN orders : id \in Nat /\ id < q
  BY <1>1 DEF LedgerInv
<1>3. out = OutcomeOf(orders, trades, q, r)
  OBVIOUS
<1> HIDE DEF q, r
<1>4. Keeps(orders, trades, q, out)
  BY <1>1, <1>2, <1>3, OutcomeKeepsLedger
<1> QED BY <1>4 DEF q

LEMMA LedgerOfInstall ==
  ASSUME Inv, ReplayInv, LedgerInv, NEW p \in Processor, phase[p] = "applied",
         Install(p), \A o \in Processor : phase'[o] # "applied"
  PROVE  LedgerInv'
<1> DEFINE q == claim[p]
           r == commands[q].request
           w == pending[p]
           out == OutcomeOf(orders, trades, q, r)
<1>1. /\ q \in QueuedSequences /\ q \in Nat \ {0} /\ r \in Request
      /\ w.status \in {"completed", "rejected"}
      /\ \A s \in FinishedSequences : s \in Nat /\ s < q
  BY ClaimedIs DEF Inv, PendingIsNew
<1>2. FinishedSequences' = FinishedSequences \cup {q}
  <2>1. commands' = [commands EXCEPT ![q].status = w.status]
    BY DEF Install, J!Finish
  <2> HIDE DEF q, w
  <2>2. /\ DOMAIN commands' = DOMAIN commands
        /\ commands'[q].status = w.status
        /\ \A s \in DOMAIN commands : s # q => commands'[s] = commands[s]
    BY <1>1, <2>1 DEF Inv, ControlTypes, CommandRow, QueuedSequences
  <2> QED BY <1>1, <2>2 DEF FinishedSequences, QueuedSequences
<1>3. orders' = Persisted(orders, out.rows) /\ trades' = trades \cup out.trades
  BY DEF Install, ReplayInv, FlushedIsOutcome
<1>4. Keeps(orders, trades, q, out)
  BY ClaimedKeeps
<1>5. Ledger(orders, trades)' /\ (DOMAIN orders \subseteq FinishedSequences)'
  <2>1. DOMAIN orders \subseteq FinishedSequences
    BY DEF LedgerInv
  <2> HIDE DEF q, out
  <2>2. Ledger(orders, trades)'
    BY <1>3, <1>4 DEF Keeps
  <2>3. (DOMAIN orders \subseteq FinishedSequences)'
    BY <1>2, <1>3, <1>4, <2>1 DEF Keeps
  <2> QED BY <2>2, <2>3
<1>6. EventsTyped'
  <2> DEFINE row == [command |-> q, symbol |-> r.symbol, type |-> w.type, error |-> w.error]
  <2>1. /\ DOMAIN events' = DOMAIN events \cup {w.event}
        /\ events'[w.event] = row
        /\ \A e \in DOMAIN events : e # w.event => events'[e] = events[e]
    BY DEF Install
  <2>2. row \in EventRow
    <3>1. r.symbol \in Symbol
      BY <1>1, RequestAssumption
    <3>2. /\ w.type \in {"order_accepted", "order_cancelled", "command_rejected"}
          /\ w.error \in {"none", "UnknownOrderError"}
      BY DEF LedgerInv, FlushedTyped
    <3> HIDE DEF q, r, w
    <3> QED BY <1>1, <3>1, <3>2 DEF EventRow
  <2> HIDE DEF row, w
  <2> QED BY <2>1, <2>2 DEF LedgerInv, EventsTyped
<1>7. FlushedTyped'
  BY DEF FlushedTyped
<1> QED BY <1>5, <1>6, <1>7 DEF LedgerInv

LEMMA LedgerOfAccept == ASSUME Inv, LedgerInv, Accept PROVE LedgerInv'
<1>1. PICK key \in Key, r \in Request, q \in (last + 1)..MaxSequence :
          J!Accept(key, r, q)
  BY DEF Accept
<1>2. UNCHANGED <<orders, trades, events, phase, pending>>
  BY DEF Accept
<1>3. q \notin DOMAIN commands
  BY DEF Inv, ControlTypes
<1>4. /\ DOMAIN commands' = DOMAIN commands \cup {q}
      /\ commands'[q].status = "queued"
      /\ \A t \in DOMAIN commands : commands'[t] = commands[t]
  BY <1>1, <1>3 DEF J!Accept, J!WithCommand, J!Queued
<1>5. FinishedSequences' = FinishedSequences
  BY <1>3, <1>4 DEF QueuedSequences, FinishedSequences
<1> QED BY <1>2, <1>5, LedgerUntouched

LEMMA LedgerOfReset == ASSUME Inv, LedgerInv, Reset PROVE LedgerInv'
<1>1. orders' = NoRows /\ trades' = {} /\ events' = NoRows /\ UNCHANGED <<phase, pending>>
  BY DEF Reset
<1>2. DOMAIN NoRows = {}
  BY DEF NoRows
<1>3. Ledger(orders, trades)'
  BY <1>1, EmptyLedger
<1>4. (DOMAIN orders \subseteq FinishedSequences)' /\ EventsTyped'
  BY <1>1, <1>2 DEF EventsTyped
<1>5. FlushedTyped'
  BY <1>1 DEF LedgerInv, FlushedTyped
<1> QED BY <1>3, <1>4, <1>5 DEF LedgerInv

LEMMA LedgerStays == Inv /\ Inv' /\ ReplayInv /\ LedgerInv /\ [Next]_pvars => LedgerInv'
<1> SUFFICES ASSUME Inv, Inv', ReplayInv, LedgerInv, [Next]_pvars PROVE LedgerInv'
  OBVIOUS
<1>1. ASSUME NEW p \in Processor,
             TryLock(p) \/ FindNothing(p) \/ Claim(p) \/ Publish(p) \/ Retry(p)
                \/ Start(p) \/ Fail(p) \/ Crash(p)
      PROVE  LedgerInv'
  <2>1. /\ UNCHANGED <<commands, orders, trades, events>>
        /\ phase'[p] # "applied"
        /\ \A o \in Processor \ {p} : phase'[o] = phase[o] /\ pending'[o] = pending[o]
    BY <1>1 DEF TryLock, FindNothing, Claim, Publish, Retry, Start, Fail, Crash, At,
                Rollback, Release, Inv, ControlTypes
  <2>2. FinishedSequences' = FinishedSequences
    BY <2>1 DEF FinishedSequences, QueuedSequences
  <2> QED BY <2>1, <2>2, LedgerUntouched
<1>2. ASSUME NEW p \in Processor, Commit(p) \/ CommitUnheard(p)
      PROVE  LedgerInv'
  <2>1. phase[p] = "applied" /\ Install(p)
    BY <1>2 DEF Commit, CommitUnheard, At
  <2>2. \A o \in Processor : phase'[o] # "applied"
    BY <1>2, <2>1 DEF Commit, CommitUnheard, At, OneWriter, InTransaction, Inv, ControlTypes
  <2> QED BY <2>1, <2>2, LedgerOfInstall
<1>3. CASE UNCHANGED pvars
  <2>1. FinishedSequences' = FinishedSequences
    BY <1>3 DEF pvars, FinishedSequences, QueuedSequences
  <2> QED BY <1>3, <2>1, LedgerUntouched DEF pvars
<1> QED
  BY <1>1, <1>2, <1>3, LedgerOfApply, LedgerOfAccept, LedgerOfReset
  DEF Next, ProcessorStep

-----------------------------------------------------------------------------
LEMMA TypesHold == Inv /\ LedgerInv => TypeOK
<1> SUFFICES ASSUME Inv, LedgerInv PROVE TypeOK
  OBVIOUS
<1>1. ASSUME NEW q \in DOMAIN commands
      PROVE  /\ q \in Nat \ {0}
             /\ commands[q] \in [key : Key, request : Request,
                                 status : {"queued", "completed", "rejected"}]
  BY DEF Inv, ControlTypes, CommandRow
<1>2. \A id \in DOMAIN orders : orders[id] \in Row /\ ValidState(orders[id])
  BY DEF LedgerInv, Ledger, RowsOk
<1>3. trades \subseteq TradeRow
  BY DEF LedgerInv, Ledger, TradesOk
<1>4. \A e \in DOMAIN events : e \in Nat \ {0} /\ events[e] \in EventRow
  BY DEF Inv, ControlTypes, LedgerInv, EventsTyped
<1>5. /\ last \in Nat /\ nextEvent \in Nat \ {0} /\ lock \in Processor \cup {NoProcessor}
      /\ phase \in [Processor -> Phase] /\ claim \in [Processor -> Nat]
      /\ published \in [Processor -> Nat] /\ faults \in 0..MaxFaults
  BY DEF Inv, ControlTypes
<1> QED BY <1>1, <1>2, <1>3, <1>4, <1>5 DEF TypeOK

(* What an order has traded, as LedgerBalances counts it.                    *)
LEMMA BooksBalance ==
  ASSUME NEW os, NEW ts, RowsOk(os), TradesOk(os, ts), Balanced(os, ts), NEW id \in DOMAIN os
  PROVE  os[id].quantity - os[id].remaining =
            MapThenSumSet(LAMBDA t : t.quantity, {t \in ts : id \in {t.maker, t.taker}})
<1>1. Its(ts, id) \subseteq TradeRow /\ IsFiniteSet(Its(ts, id))
  BY FS_Subset DEF Its, TradesOk
<1>2. MapThenSumSet(LAMBDA t : t.quantity, Its(ts, id)) = TradedBy(ts, id)
  BY <1>1, AmountsSum DEF TradedBy
<1>3. TradedBy(ts, id) \in Nat
  BY TradedWeights
<1>4. /\ os[id].quantity \in Nat /\ os[id].remaining \in Nat
      /\ os[id].quantity = os[id].remaining + TradedBy(ts, id)
  BY DEF RowsOk, Row, Balanced
<1>5. os[id].quantity - os[id].remaining = TradedBy(ts, id)
  BY <1>3, <1>4
<1>6. Its(ts, id) = {t \in ts : id \in {t.maker, t.taker}}
  BY DEF Its
<1> QED BY <1>2, <1>5, <1>6

LEMMA InitLedger == Init => ReplayInv /\ LedgerInv
<1> SUFFICES ASSUME Init PROVE ReplayInv /\ LedgerInv
  OBVIOUS
<1>1. /\ last = 0 /\ orders = NoRows /\ trades = {} /\ events = NoRows
      /\ \A p \in Processor : phase[p] # "applied"
  BY DEF Init, J!Init
<1>2. DOMAIN NoRows = {}
  BY DEF NoRows
<1>3. Replay[0] = [orders |-> NoRows, trades |-> {}]
  BY <1>1, ReplayHere DEF ReplayUnfolds
<1>4. ReplayInv
  BY <1>1, <1>3 DEF ReplayInv, MarketIsReplay, FlushedIsOutcome
<1>5. Ledger(orders, trades)
  BY <1>1, EmptyLedger
<1> QED BY <1>1, <1>2, <1>4, <1>5 DEF LedgerInv, EventsTyped, FlushedTyped

LEMMA SpecLedger == Spec => []LedgerInv
<1>1. Init => ReplayInv /\ LedgerInv
  BY InitLedger
<1>2. Inv /\ Inv' /\ ReplayInv /\ [Next]_pvars => ReplayInv'
  BY ReplayStays
<1>3. Inv /\ Inv' /\ ReplayInv /\ LedgerInv /\ [Next]_pvars => LedgerInv'
  BY LedgerStays
<1> QED BY <1>1, <1>2, <1>3, SpecInv, PTL DEF Spec

(* On the tables, whatever fails, dies or runs twice: what an order no longer   *)
(* has is what it traded; trades are between stored orders and numbered        *)
(* without gaps in each market; and no market is crossed.                     *)
THEOREM ProcessorLedgerBalances == Spec => []LedgerBalances
<1>1. Inv /\ LedgerInv => LedgerBalances
  <2> SUFFICES ASSUME Inv, LedgerInv PROVE LedgerBalances
    OBVIOUS
  <2>1. RowsOk(orders) /\ TradesOk(orders, trades) /\ Balanced(orders, trades)
        /\ \A symbol \in Symbol : Numbered(trades, symbol) /\ Uncrossed(orders, symbol)
    BY DEF LedgerInv, Ledger
  <2>2. TypeOK
    BY TypesHold
  <2>3. \A id \in DOMAIN orders :
           orders[id].quantity - orders[id].remaining =
              MapThenSumSet(LAMBDA t : t.quantity,
                            {t \in trades : id \in {t.maker, t.taker}})
    BY <2>1, BooksBalance
  <2>4. \A t \in trades : {t.maker, t.taker} \subseteq DOMAIN orders
    BY <2>1 DEF TradesOk
  <2>5. ASSUME NEW symbol \in Symbol
        PROVE  LET its  == {t \in trades : t.symbol = symbol}
                   open == OpenRows(orders, symbol)
               IN  /\ {t.sequence : t \in its} = 1..Cardinality(its)
                   /\ \A b, a \in DOMAIN open :
                         open[b].side = "buy" /\ open[a].side = "sell" =>
                             open[b].price < open[a].price
    <3> DEFINE open == OpenRows(orders, symbol)
    <3>1. \A id \in DOMAIN open : InBook(orders, symbol, id) /\ open[id] = orders[id]
      BY <2>1, OpenRowsOpen
    <3>2. {t.sequence : t \in {u \in trades : u.symbol = symbol}}
             = 1..Cardinality({u \in trades : u.symbol = symbol})
      BY <2>1 DEF Numbered
    <3> HIDE DEF open
    <3>3. \A b, a \in DOMAIN open :
             open[b].side = "buy" /\ open[a].side = "sell" => open[b].price < open[a].price
      BY <2>1, <3>1 DEF Uncrossed
    <3> QED BY <3>2, <3>3 DEF open
  <2> QED BY <2>2, <2>3, <2>4, <2>5 DEF LedgerBalances
<1> QED BY <1>1, SpecInv, SpecLedger, PTL

(* No command is refused by the engine that is restored for it (an engine       *)
(* error would leave it queued, with every later command behind it): short of   *)
(* a fault, what is claimed is applied.                                      *)
EngineNeverRefuses ==
    [][\A p \in Processor : Apply(p) => phase'[p] = "applied"]_pvars

THEOREM ProcessorEngineNeverRefuses == Spec => EngineNeverRefuses
<1> DEFINE Applies == \A p \in Processor : Apply(p) => phase'[p] = "applied"
<1>1. Inv /\ LedgerInv => Applies
  <2> SUFFICES ASSUME Inv, LedgerInv, NEW p \in Processor, Apply(p)
               PROVE  phase'[p] = "applied"
    OBVIOUS
  <2> DEFINE result == OutcomeOf(orders, trades, claim[p], commands[claim[p]].request)
  <2>1. /\ phase[p] = "claimed"
        /\ result.status # "queued" => phase' = [phase EXCEPT ![p] = "applied"]
    BY Zenon DEF Apply
  <2>2. Keeps(orders, trades, claim[p], result)
    BY <2>1, ClaimedKeeps
  <2> HIDE DEF result
  <2>3. phase \in [Processor -> Phase]
    BY DEF Inv, ControlTypes
  <2> QED BY <2>1, <2>2, <2>3 DEF Keeps
<1> HIDE DEF Applies
<1>2. Spec => []LedgerInv
  BY SpecLedger
<1>3. Spec => [][Applies]_pvars
  BY <1>1, <1>2, SpecInv, PTL DEF Spec
<1> QED BY <1>3 DEF EngineNeverRefuses, Applies
=============================================================================
