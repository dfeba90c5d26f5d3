--------------------------- MODULE CommandJournal ---------------------------
(***************************************************************************)
(* Acceptance of commands: commands.py, one session of the API per request,  *)
(* over the market_commands table.                                          *)
(*                                                                         *)
(* A session is one database transaction (two when the insert hits the       *)
(* unique key), taken statement by statement.  PostgreSQL runs them at READ   *)
(* COMMITTED, so a statement sees what was committed before it; the advisory  *)
(* lock is held to the end of the transaction.  Off PostgreSQL there is no    *)
(* advisory lock (SQLite, used by tests): there one transaction at a time may *)
(* write, and the unique key is the only guard.                              *)
(*                                                                         *)
(* Sessions may end at any statement (lost connection, cancelled request),   *)
(* and an answer may be lost after the commit; the caller then sends the same *)
(* key again, which is a new session here.                                   *)
(***************************************************************************)
EXTENDS Naturals, FiniteSets

CONSTANTS
    Session,      \* requests the API handles at the same time
    NoSession,    \* the holder of a free ingest lock
    NoCall,       \* the call of an idle session
    Key,          \* idempotency keys
    Request,      \* what a caller asks for, the server's order id left out
    Postgres,     \* the dialect has advisory locks
    MaxQueued,    \* settings.max_queued_commands
    MaxTotal,     \* settings.max_total_commands
    MaxSequence   \* bound on the sequences of market_commands

ASSUME JournalAssumption ==
    /\ NoSession \notin Session
    /\ NoCall \notin [key : Key, request : Request]
    /\ Postgres \in BOOLEAN
    /\ MaxQueued \in Nat \ {0}
    /\ MaxTotal \in Nat \ {0}
    /\ MaxSequence \in Nat

VARIABLES
    commands,      \* the committed rows: sequence |-> [key, request, status]
    nextSequence,  \* the identity of market_commands; never rolled back
    ingest,        \* the session that holds the ingest advisory lock
    phase,         \* the statement each session is at
    call,          \* the key and request of each session
    row,           \* the sequence of a session's uncommitted insert, or 0
    answers        \* what callers have been told since the last reset

jvars == <<commands, nextSequence, ingest, phase, call, row, answers>>

Phase == {"idle", "begin", "locked", "looked", "room", "inserted",
          "failed", "relocked"}

(* Phases in which the transaction has read or written market_commands, so   *)
(* that a TRUNCATE must wait for it.                                        *)
Touching == {"looked", "room", "inserted"}

Finished == {"completed", "rejected"}
Call == [key : Key, request : Request]
Command == [key : Key, request : Request, status : {"queued"} \cup Finished]
Sequences == Nat \ {0}
Kind == {"accepted", "conflict", "full", "error"}
Answer == [key : Key, request : Request, kind : Kind, sequence : Nat]

-----------------------------------------------------------------------------
QueuedSequences == {s \in DOMAIN commands : commands[s].status = "queued"}

WithCommand(s, command) ==
    [t \in DOMAIN commands \cup {s} |-> IF t = s THEN command ELSE commands[t]]

(* _existing_by_key                                                         *)
Existing(key) == {s \in DOMAIN commands : commands[s].key = key}

(* The unique constraint on idempotency_key.                                *)
KeyTaken(key) == \E s \in DOMAIN commands : commands[s].key = key

(* Mutant of ReplyExisting: the semantics of the requests are not compared.  *)
ReplyAnyExisting(c, s) ==
    [key |-> c.key, request |-> c.request, kind |-> "accepted", sequence |-> s]

(* _return_or_conflict, on _same_semantics                                   *)
ReplyExisting(c, s) ==
    IF commands[s].request = c.request
    THEN [key |-> c.key, request |-> c.request, kind |-> "accepted", sequence |-> s]
    ELSE [key |-> c.key, request |-> c.request, kind |-> "conflict", sequence |-> 0]

ReplyWithout(c, kind) ==
    [key |-> c.key, request |-> c.request, kind |-> kind, sequence |-> 0]

Init ==
    /\ commands = [s \in {} |-> 0]
    /\ nextSequence = 1
    /\ ingest = NoSession
    /\ phase = [s \in Session |-> "idle"]
    /\ call = [s \in Session |-> NoCall]
    /\ row = [s \in Session |-> 0]
    /\ answers = {}

-----------------------------------------------------------------------------
At(s, from, to) == phase[s] = from /\ phase' = [phase EXCEPT ![s] = to]

(* The end of a transaction: its lock and its uncommitted row go.           *)
Release(s) ==
    /\ ingest' = IF ingest = s THEN NoSession ELSE ingest
    /\ row' = [row EXCEPT ![s] = 0]

(* The end of a session, from phase from.                                   *)
End(s, from) ==
    /\ At(s, from, "idle")
    /\ call' = [call EXCEPT ![s] = NoCall]
    /\ Release(s)

Tell(answer) == answers' = answers \cup {answer}

(* enqueue_submit, enqueue_cancel.  The bound keeps a sequence for each      *)
(* session under way.                                                       *)
Begin(s, c) ==
    /\ At(s, "idle", "begin")
    /\ nextSequence + Cardinality({t \in Session : phase[t] # "idle"}) <= MaxSequence
    /\ call' = [call EXCEPT ![s] = c]
    /\ UNCHANGED <<commands, nextSequence, ingest, row, answers>>

(* _acquire_ingest_lock, in either transaction.                             *)
TakeIngest(s) ==
    IF Postgres THEN ingest = NoSession /\ ingest' = s
                ELSE UNCHANGED ingest

AcquireLock(s) ==
    /\ \/ At(s, "begin", "locked")
       \/ At(s, "failed", "relocked")
    /\ TakeIngest(s)
    /\ UNCHANGED <<commands, nextSequence, call, row, answers>>

(* The lookup after the lock: a retry of an accepted command ends here.      *)
LookupFound(s) ==
    /\ End(s, "locked")
    /\ \E q \in Existing(call[s].key) : Tell(ReplyExisting(call[s], q))
    /\ UNCHANGED <<commands, nextSequence>>

LookupMissing(s) ==
    /\ At(s, "locked", "looked")
    /\ Existing(call[s].key) = {}
    /\ UNCHANGED <<commands, nextSequence, ingest, call, row, answers>>

(* Mutant of Full: off by one.                                              *)
OverFull ==
    \/ Cardinality(DOMAIN commands) > MaxTotal
    \/ Cardinality(QueuedSequences) > MaxQueued

(* The two counts, of all rows and of the queued ones.                      *)
Full ==
    \/ Cardinality(DOMAIN commands) >= MaxTotal
    \/ Cardinality(QueuedSequences) >= MaxQueued

(* Mutant of RefuseFull: the exception leaves the lock behind.              *)
RefuseFullLocked(s) ==
    /\ At(s, "looked", "idle")
    /\ Full
    /\ Tell(ReplyWithout(call[s], "full"))
    /\ call' = [call EXCEPT ![s] = NoCall]
    /\ UNCHANGED <<commands, nextSequence, ingest, row>>

RefuseFull(s) ==
    /\ End(s, "looked")
    /\ Full
    /\ Tell(ReplyWithout(call[s], "full"))
    /\ UNCHANGED <<commands, nextSequence>>

FindRoom(s) ==
    /\ At(s, "looked", "room")
    /\ ~Full
    /\ UNCHANGED <<commands, nextSequence, ingest, call, row, answers>>

(* The insert waits for another transaction's uncommitted row with the key;  *)
(* off PostgreSQL, for any other writer.                                     *)
MayWrite(s) ==
    \A t \in Session \ {s} :
        row[t] # 0 => Postgres /\ call[t].key # call[s].key

(* Mutants of Insert: no unique key; the lock is released before the commit. *)
InsertAnyway(s) ==
    /\ At(s, "room", "inserted")
    /\ MayWrite(s)
    /\ row' = [row EXCEPT ![s] = nextSequence]
    /\ nextSequence' = nextSequence + 1
    /\ UNCHANGED <<commands, ingest, call, answers>>

InsertUnlocking(s) ==
    /\ At(s, "room", "inserted")
    /\ MayWrite(s)
    /\ ~KeyTaken(call[s].key)
    /\ row' = [row EXCEPT ![s] = nextSequence]
    /\ nextSequence' = nextSequence + 1
    /\ ingest' = NoSession
    /\ UNCHANGED <<commands, call, answers>>

Insert(s) ==
    /\ At(s, "room", "inserted")
    /\ MayWrite(s)
    /\ ~KeyTaken(call[s].key)
    /\ row' = [row EXCEPT ![s] = nextSequence]
    /\ nextSequence' = nextSequence + 1
    /\ UNCHANGED <<commands, ingest, call, answers>>

(* IntegrityError: the key was committed after the lookup.  The rollback     *)
(* gives the lock up; the identity value is spent.                          *)
InsertConflict(s) ==
    /\ At(s, "room", "failed")
    /\ MayWrite(s)
    /\ KeyTaken(call[s].key)
    /\ nextSequence' = nextSequence + 1
    /\ Release(s)
    /\ UNCHANGED <<commands, call, answers>>

(* The commit, whose answer may be lost.                                    *)
CommitRow(s) ==
    commands' = WithCommand(row[s], [key |-> call[s].key,
                                     request |-> call[s].request,
                                     status |-> "queued"])

Commit(s) ==
    /\ End(s, "inserted")
    /\ CommitRow(s)
    /\ \/ Tell([key |-> call[s].key, request |-> call[s].request,
                kind |-> "accepted", sequence |-> row[s]])
       \/ UNCHANGED answers
    /\ UNCHANGED <<nextSequence>>

(* Mutant of Recover: the IntegrityError goes on without another lookup.     *)
RecoverNothing(s) ==
    /\ End(s, "relocked")
    /\ Tell(ReplyWithout(call[s], "error"))
    /\ UNCHANGED <<commands, nextSequence>>

(* The lookup of the second transaction.  A row that is gone again makes the *)
(* IntegrityError go on to the caller.                                      *)
Recover(s) ==
    /\ End(s, "relocked")
    /\ IF Existing(call[s].key) = {}
       THEN Tell(ReplyWithout(call[s], "error"))
       ELSE \E q \in Existing(call[s].key) : Tell(ReplyExisting(call[s], q))
    /\ UNCHANGED <<commands, nextSequence>>

(* The session is lost before its commit; everything of it is rolled back.   *)
Abort(s) ==
    /\ phase[s] # "idle"
    /\ End(s, phase[s])
    /\ UNCHANGED <<commands, nextSequence, answers>>

-----------------------------------------------------------------------------
(* The processor finishes a command.                                        *)
Finish(q, status) ==
    /\ commands[q].status = "queued"
    /\ commands' = [commands EXCEPT ![q].status = status]
    /\ UNCHANGED <<nextSequence, ingest, phase, call, row, answers>>

(* Mutant of Reset: RESTART IDENTITY.                                       *)
ResetIdentity ==
    /\ Postgres
    /\ \A s \in Session : phase[s] \notin Touching
    /\ commands' = [s \in {} |-> 0]
    /\ nextSequence' = 1
    /\ answers' = {}
    /\ UNCHANGED <<ingest, phase, call, row>>

(* reset_demo_state: TRUNCATE waits for the transactions that have used the  *)
(* table and does not restart the identity.  It does not take the ingest     *)
(* lock.  What callers were told before it binds nobody after it.            *)
Reset ==
    /\ Postgres
    /\ \A s \in Session : phase[s] \notin Touching
    /\ commands' = [s \in {} |-> 0]
    /\ answers' = {}
    /\ UNCHANGED <<nextSequence, ingest, phase, call, row>>

SessionStep(s) ==
    \/ AcquireLock(s)
    \/ LookupFound(s) \/ LookupMissing(s)
    \/ RefuseFull(s) \/ FindRoom(s)
    \/ Insert(s) \/ InsertConflict(s)
    \/ Commit(s)
    \/ Recover(s)

Next ==
    \/ \E s \in Session : SessionStep(s) \/ Abort(s) \/ \E c \in Call : Begin(s, c)
    \/ \E q \in DOMAIN commands, status \in Finished : Finish(q, status)
    \/ Reset

Spec == Init /\ [][Next]_jvars

-----------------------------------------------------------------------------
(* Properties *)

TypeOK ==
    /\ DOMAIN commands \subseteq Sequences
    /\ commands \in [DOMAIN commands -> Command]
    /\ nextSequence \in Nat \ {0}
    /\ ingest \in Session \cup {NoSession}
    /\ phase \in [Session -> Phase]
    /\ call \in [Session -> Call \cup {NoCall}]
    /\ \A s \in Session : phase[s] # "idle" => call[s] \in Call
    /\ row \in [Session -> Nat]
    /\ answers \subseteq Answer

(* However retries of one key overlap, the journal has one command for it.  *)
OneCommandPerKey ==
    \A p, q \in DOMAIN commands : commands[p].key = commands[q].key => p = q

(* Everyone who was told that a key is accepted was told the same sequence,  *)
(* and the journal holds that command for the request they made; who was     *)
(* told of a conflict did ask for something else.                            *)
AnswersAgree ==
    \A a \in answers :
        /\ a.kind = "accepted" =>
              /\ a.sequence \in DOMAIN commands
              /\ commands[a.sequence].key = a.key
              /\ commands[a.sequence].request = a.request
        /\ a.kind = "conflict" =>
              \E q \in DOMAIN commands : /\ commands[q].key = a.key
                                         /\ commands[q].request # a.request

(* Commands become visible in the order of their sequences: the processor,   *)
(* which takes the lowest queued one, is never shown a lower one later.      *)
VisibleInOrder ==
    [][\A new \in DOMAIN commands' \ DOMAIN commands, old \in DOMAIN commands :
           old < new]_jvars

(* The counts of the capacity checks still hold when the row is committed.  *)
CapacityHolds ==
    /\ Cardinality(DOMAIN commands) <= MaxTotal
    /\ Cardinality(QueuedSequences) <= MaxQueued

(* With the ingest lock, the lookup is final: the unique key never fails.    *)
LookupIsFinal == \A s \in Session : phase[s] \notin {"failed", "relocked"}

(* When the unique key does fail, the row that it clashed with is there for  *)
(* the second transaction: no caller is left with the IntegrityError.        *)
ConflictIsExplained == \A a \in answers : a.kind # "error"

(* The sequences below the pending insert, or all given out, are settled.    *)
Settled ==
    LET pending == {row[s] : s \in Session} \ {0}
    IN  IF pending = {} THEN nextSequence - 1
        ELSE (CHOOSE r \in pending : \A t \in pending : r <= t) - 1

Promise == INSTANCE Journal WITH last <- Settled

(* Acceptance, statement by statement, is an atomic append to the journal.   *)
ImplementsJournal == Promise!Spec
=============================================================================
