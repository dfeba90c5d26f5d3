------------------------------ MODULE TableLocks ------------------------------
(***************************************************************************)
(* The reset of the demo (maintenance.py) among the transactions it meets:    *)
(* the sessions of CommandJournal, the processor, and the readers, which ask  *)
(* several tables in one transaction (market_data.py, diagnostics.py).        *)
(*                                                                         *)
(* TRUNCATE locks its tables one after the other against everybody, and what  *)
(* it waits for is kept from those who come later; a reader keeps what it has *)
(* locked.  So the reset and a reader may wait for each other, until          *)
(* PostgreSQL lets one of them fail.                                        *)
(***************************************************************************)
EXTENDS CommandJournal, Sequences

CONSTANT Reader  \* requests that read

VARIABLES
    reset,   \* the table the reset waits for, as a place in Truncated, or 0
    reader   \* the transaction of each reader

tvars == <<commands, nextSequence, ingest, phase, call, row, answers, reset, reader>>

Truncated == <<"market_events", "trades", "orders", "market_commands">>
Place(table) == CHOOSE i \in DOMAIN Truncated : Truncated[i] = table

(* The tables in the order in which a transaction first reads them.           *)
Book == <<"orders", "market_commands", "market_events">>
Snapshot == Book \o <<"trades">>
Replay == Snapshot \o <<"market_events">>
Summary == <<"market_commands", "orders", "trades", "market_events">>
Programs == {Book, Snapshot, Replay, Summary}

(* left: the reads to come; locked: the tables read; since: what was committed *)
(* since the first statement; seen: what the tables read seemed to hold.      *)
NotReading == [left |-> <<>>, locked |-> {}, since |-> {}, seen |-> {}]

TablesInit ==
    /\ Init
    /\ reset = 0
    /\ reader = [r \in Reader |-> NotReading]

-----------------------------------------------------------------------------
(* Readers *)

(* Mutant of Contents: the last table, which for a book is the event cursor    *)
(* beside it, shows what is committed by then.                              *)
ContentsCursorNow(r) ==
    IF "reset" \in reader[r].since THEN "nothing"
    ELSE IF "command" \in reader[r].since /\ Len(reader[r].left) = 1
         THEN "later rows" ELSE "rows"

(* What a table holds for a transaction at REPEATABLE READ: the rows of its   *)
(* first statement.  A TRUNCATE since then hides them all the same.           *)
Contents(r) == IF "reset" \in reader[r].since THEN "nothing" ELSE "rows"

(* The first statement, which may have to wait for its table.                *)
BeginRead(r) ==
    /\ reader[r] = NotReading
    /\ \E p \in Programs : reader' = [reader EXCEPT ![r] = [NotReading EXCEPT !.left = p]]
    /\ UNCHANGED <<jvars, reset>>

(* The reset has locked the table, or has been waiting for it for longer.     *)
Blocked(table) == Place(table) <= reset

(* A table that the reader has locked it does not wait for again.            *)
Waits(r) == reader[r].left # <<>> /\ LET next == Head(reader[r].left)
                                     IN  next \notin reader[r].locked /\ Blocked(next)

Read(r) ==
    LET s == reader[r]
    IN  /\ s.left # <<>> /\ ~Waits(r)
        /\ reader' = [reader EXCEPT ![r] =
              [s EXCEPT !.left = Tail(s.left), !.locked = @ \cup {Head(s.left)},
                        !.seen = @ \cup {Contents(r)}]]
        /\ UNCHANGED <<jvars, reset>>

(* The transaction ends, and its locks with it.                             *)
EndRead(r) ==
    /\ reader[r].left = <<>> /\ reader[r] # NotReading
    /\ reader' = [reader EXCEPT ![r] = NotReading]
    /\ UNCHANGED <<jvars, reset>>

Committed(what) ==
    reader' = [r \in Reader |->
        IF reader[r] = NotReading THEN reader[r]
        ELSE [reader[r] EXCEPT !.since = @ \cup {what}]]

-----------------------------------------------------------------------------
(* Sessions and the processor *)

(* A session's first statement on market_commands; afterwards it has a lock.  *)
Asks(s) == phase[s] \in {"locked", "relocked"}

Serve(s) ==
    /\ Asks(s) => ~Blocked("market_commands")
    /\ SessionStep(s)
    /\ UNCHANGED <<reset, reader>>

Arrive(s) ==
    /\ Abort(s) \/ \E c \in Call : Begin(s, c)
    /\ UNCHANGED <<reset, reader>>

(* The processor has its lock, so the reset has none.                        *)
Process(q) ==
    /\ reset = 0
    /\ \E status \in Finished : Finish(q, status)
    /\ Committed("command")
    /\ UNCHANGED reset

-----------------------------------------------------------------------------
(* The reset *)

BeginReset ==
    /\ reset = 0
    /\ reset' = 1
    /\ UNCHANGED <<jvars, reader>>

(* Who keeps the reset waiting for the table.                               *)
Holds(r, table) == table \in reader[r].locked

Free(table) ==
    /\ \A r \in Reader : ~Holds(r, table)
    /\ table = "market_commands" => \A s \in Session : phase[s] \notin Touching

LockTable ==
    /\ reset \in 1..Len(Truncated) - 1 /\ Free(Truncated[reset])
    /\ reset' = reset + 1
    /\ UNCHANGED <<jvars, reader>>

(* Mutant of Truncate: RESTART IDENTITY.                                    *)
TruncateRestarting ==
    /\ reset = Len(Truncated) /\ Free(Truncated[reset])
    /\ commands' = [q \in {} |-> 0] /\ answers' = {} /\ nextSequence' = 1
    /\ reset' = 0
    /\ Committed("reset")
    /\ UNCHANGED <<ingest, phase, call, row>>

(* The last table, and the commit.                                          *)
Truncate ==
    /\ reset = Len(Truncated) /\ Free(Truncated[reset])
    /\ commands' = [q \in {} |-> 0] /\ answers' = {}
    /\ reset' = 0
    /\ Committed("reset")
    /\ UNCHANGED <<nextSequence, ingest, phase, call, row>>

(* PostgreSQL finds the reset and a reader waiting for each other, and lets    *)
(* either fail; all of its transaction is undone.                            *)
Deadlock(r) ==
    /\ reset # 0 /\ Holds(r, Truncated[reset]) /\ Waits(r)
    /\ \/ reset' = 0 /\ UNCHANGED reader
       \/ reader' = [reader EXCEPT ![r] = NotReading] /\ UNCHANGED reset
    /\ UNCHANGED jvars

ResetStep == LockTable \/ Truncate

TablesNext ==
    \/ \E s \in Session : Serve(s) \/ Arrive(s)
    \/ \E q \in DOMAIN commands : Process(q)
    \/ \E r \in Reader : BeginRead(r) \/ Read(r) \/ EndRead(r) \/ Deadlock(r)
    \/ BeginReset \/ ResetStep

TablesSpec == TablesInit /\ [][TablesNext]_tvars

(* Statements that do not wait are carried out, and the deadlock detector     *)
(* runs.  Locks are granted in the order they were asked for, so nobody is    *)
(* passed over for ever, however often the reset fails and is run again.      *)
FairTablesSpec ==
    /\ TablesSpec
    /\ \A s \in Session : SF_tvars(Serve(s))
    /\ \A r \in Reader :
          SF_tvars(Read(r)) /\ WF_tvars(EndRead(r)) /\ WF_tvars(Deadlock(r))
    /\ WF_tvars(ResetStep)

-----------------------------------------------------------------------------
(* Properties *)

(* A book, a stream snapshot or a summary is of one moment, from its first     *)
(* table to its last: whatever commits between its statements, command or     *)
(* reset, never does one of its tables show rows and another none, or later   *)
(* ones, and never is the cursor of a book ahead of the book.                *)
ViewIsWhole == \A r \in Reader : Cardinality(reader[r].seen) <= 1

(* Every session, reader and reset comes to an end, though TRUNCATE and the    *)
(* readers lock the tables in opposite orders; only the reset and readers     *)
(* ever have to fail for it, never an accepting session or the processor.     *)
TransactionsEnd ==
    /\ \A s \in Session : phase[s] # "idle" ~> phase[s] = "idle"
    /\ \A r \in Reader : reader[r] # NotReading ~> reader[r] = NotReading
    /\ reset # 0 ~> reset = 0

(* Lock by lock, the reset is the one step that CommandJournal takes it for.   *)
ImplementsCommandJournal == Spec
=============================================================================
