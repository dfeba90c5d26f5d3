------------------------ MODULE CommandJournal_proofs ------------------------
(***************************************************************************)
(* Theorems about CommandJournal, for any number of sessions, keys, requests *)
(* and sequences, and any capacity.  Those that need the ingest lock assume  *)
(* Postgres; the others hold for both dialects.  Then those about TableLocks, *)
(* the journal with its table locks, for any number of readers and resets.   *)
(***************************************************************************)
EXTENDS TableLocks, SequenceTheorems, FiniteSetTheorems, TLAPS

(* A session has an uncommitted row from its insert to its end.             *)
RowsOfInserts == \A s \in Session : row[s] # 0 <=> phase[s] = "inserted"

(* The identity is above every sequence it has given out.                   *)
IdentityAhead ==
    /\ \A q \in DOMAIN commands : q < nextSequence
    /\ \A s \in Session : row[s] < nextSequence

(* What the unique key and the waits it causes guarantee of a pending row.   *)
RowsAreNew ==
    \A s \in Session : row[s] # 0 =>
        row[s] \notin DOMAIN commands /\ ~KeyTaken(call[s].key)

RowsDiffer ==
    \A s, t \in Session :
        s # t /\ row[s] # 0 /\ row[t] # 0 =>
            row[s] # row[t] /\ call[s].key # call[t].key

Inv ==
    /\ TypeOK
    /\ RowsOfInserts
    /\ IdentityAhead
    /\ RowsAreNew
    /\ RowsDiffer
    /\ OneCommandPerKey
    /\ AnswersAgree

-----------------------------------------------------------------------------
LEMMA InitInv == Init => Inv
  BY JournalAssumption
  DEF Init, Inv, TypeOK, RowsOfInserts, IdentityAhead, RowsAreNew, RowsDiffer,
      OneCommandPerKey, AnswersAgree, Sequences, Phase

(* An answer made from a committed row is right, and typed.                  *)
LEMMA ReplyIsRight ==
  ASSUME TypeOK, NEW c \in Call, NEW q \in Existing(c.key)
  PROVE  LET a == ReplyExisting(c, q) IN
         /\ a \in Answer
         /\ a.kind = "accepted" =>
               /\ a.sequence \in DOMAIN commands
               /\ commands[a.sequence].key = a.key
               /\ commands[a.sequence].request = a.request
         /\ a.kind = "conflict" =>
               \E p \in DOMAIN commands : /\ commands[p].key = a.key
                                          /\ commands[p].request # a.request
  BY DEF TypeOK, Existing, ReplyExisting, Answer, Call, Kind, Sequences

(* What the sessions' own fields look like after the end of one of them.     *)
LEMMA EndKeepsInv ==
  ASSUME Inv, NEW s \in Session, NEW from \in Phase, End(s, from),
         nextSequence' = nextSequence, commands' = commands,
         answers' \subseteq Answer, AnswersAgree'
  PROVE  Inv'
<1>1. TypeOK'
  BY DEF Inv, TypeOK, End, At, Release, Phase
<1>2. RowsOfInserts'
  BY DEF Inv, RowsOfInserts, TypeOK, End, At, Release
<1>3. IdentityAhead'
  BY DEF Inv, IdentityAhead, TypeOK, End, At, Release
<1>4. RowsAreNew'
  BY DEF Inv, RowsAreNew, RowsOfInserts, TypeOK, KeyTaken, End, At, Release
<1>5. RowsDiffer'
  BY DEF Inv, RowsDiffer, RowsOfInserts, TypeOK, End, At, Release
<1>6. OneCommandPerKey'
  BY DEF Inv, OneCommandPerKey
<1> QED BY <1>1, <1>2, <1>3, <1>4, <1>5, <1>6 DEF Inv

(* A statement that only moves its session on, or takes the lock.            *)
LEMMA MoveKeepsInv ==
  ASSUME Inv, NEW s \in Session, NEW from \in Phase, NEW to \in Phase,
         At(s, from, to), from # "idle", from # "inserted", to # "inserted",
         ingest' \in Session \cup {NoSession}, nextSequence' \in Nat,
         nextSequence' >= nextSequence,
         UNCHANGED <<commands, call, row, answers>>
  PROVE  Inv'
<1>1. TypeOK'
  BY DEF Inv, TypeOK, At, Phase
<1>2. RowsOfInserts'
  BY DEF Inv, RowsOfInserts, TypeOK, At
<1>3. IdentityAhead'
  BY DEF Inv, IdentityAhead, TypeOK, Sequences
<1>4. RowsAreNew' /\ RowsDiffer' /\ OneCommandPerKey' /\ AnswersAgree'
  BY DEF Inv, RowsAreNew, RowsDiffer, OneCommandPerKey, AnswersAgree, KeyTaken
<1> QED BY <1>1, <1>2, <1>3, <1>4 DEF Inv

LEMMA LookupFoundInv == ASSUME Inv, NEW s \in Session, LookupFound(s) PROVE Inv'
<1>1. PICK q \in Existing(call[s].key) : Tell(ReplyExisting(call[s], q))
  BY DEF LookupFound
<1>2. call[s] \in Call
  BY DEF Inv, TypeOK, LookupFound, End, At
<1>3. answers' \subseteq Answer /\ AnswersAgree'
  BY <1>1, <1>2, ReplyIsRight
  DEF Inv, TypeOK, AnswersAgree, LookupFound, Tell
<1> QED BY <1>3, EndKeepsInv DEF LookupFound, Phase

LEMMA RefuseFullInv == ASSUME Inv, NEW s \in Session, RefuseFull(s) PROVE Inv'
<1>1. call[s] \in Call
  BY DEF Inv, TypeOK, RefuseFull, End, At
<1>2. answers' \subseteq Answer /\ AnswersAgree'
  BY <1>1 DEF Inv, TypeOK, AnswersAgree, RefuseFull, Tell, ReplyWithout,
              Answer, Call, Kind
<1> QED BY <1>2, EndKeepsInv DEF RefuseFull, Phase

LEMMA RecoverInv == ASSUME Inv, NEW s \in Session, Recover(s) PROVE Inv'
<1>1. call[s] \in Call
  BY DEF Inv, TypeOK, Recover, End, At
<1>2. answers' \subseteq Answer /\ AnswersAgree'
  <2>1. CASE Existing(call[s].key) = {}
    BY <1>1, <2>1 DEF Inv, TypeOK, AnswersAgree, Recover, Tell, ReplyWithout,
                      Answer, Call, Kind
  <2>2. CASE Existing(call[s].key) # {}
    <3>1. PICK q \in Existing(call[s].key) : Tell(ReplyExisting(call[s], q))
      BY <2>2 DEF Recover
    <3> QED BY <1>1, <3>1, ReplyIsRight
            DEF Inv, TypeOK, AnswersAgree, Recover, Tell
  <2> QED BY <2>1, <2>2
<1> QED BY <1>2, EndKeepsInv DEF Recover, Phase

LEMMA AbortInv == ASSUME Inv, NEW s \in Session, Abort(s) PROVE Inv'
<1>1. phase[s] \in Phase /\ answers' \subseteq Answer /\ AnswersAgree'
  BY DEF Inv, TypeOK, AnswersAgree, Abort
<1> QED BY <1>1, EndKeepsInv DEF Abort

LEMMA BeginInv ==
  ASSUME Inv, NEW s \in Session, NEW c \in Call, Begin(s, c) PROVE Inv'
<1>1. TypeOK'
  BY DEF Inv, TypeOK, Begin, At, Phase
<1>2. RowsOfInserts' /\ row[s] = 0
  BY DEF Inv, RowsOfInserts, TypeOK, Begin, At
<1>3. IdentityAhead'
  BY DEF Inv, IdentityAhead, Begin
<1>4. RowsAreNew' /\ RowsDiffer'
  BY <1>2 DEF Inv, RowsAreNew, RowsDiffer, TypeOK, KeyTaken, Begin
<1>5. OneCommandPerKey' /\ AnswersAgree'
  BY DEF Inv, OneCommandPerKey, AnswersAgree, Begin
<1> QED BY <1>1, <1>2, <1>3, <1>4, <1>5 DEF Inv

LEMMA AcquireLockInv == ASSUME Inv, NEW s \in Session, AcquireLock(s) PROVE Inv'
<1>1. ingest' \in Session \cup {NoSession}
  BY DEF Inv, TypeOK, AcquireLock, TakeIngest
<1>2. CASE At(s, "begin", "locked")
  BY <1>1, <1>2, MoveKeepsInv DEF Inv, TypeOK, AcquireLock, Phase
<1>3. CASE At(s, "failed", "relocked")
  BY <1>1, <1>3, MoveKeepsInv DEF Inv, TypeOK, AcquireLock, Phase
<1> QED BY <1>2, <1>3 DEF AcquireLock

LEMMA LookupMissingInv ==
  ASSUME Inv, NEW s \in Session, LookupMissing(s) PROVE Inv'
  BY MoveKeepsInv DEF Inv, TypeOK, LookupMissing, Phase

LEMMA FindRoomInv == ASSUME Inv, NEW s \in Session, FindRoom(s) PROVE Inv'
  BY MoveKeepsInv DEF Inv, TypeOK, FindRoom, Phase

LEMMA InsertConflictInv ==
  ASSUME Inv, NEW s \in Session, InsertConflict(s) PROVE Inv'
<1>1. row[s] = 0 /\ row' = row
  BY DEF Inv, RowsOfInserts, TypeOK, InsertConflict, At, Release
<1>2. ingest' \in Session \cup {NoSession} /\ nextSequence' \in Nat
        /\ nextSequence' >= nextSequence
  BY DEF Inv, TypeOK, InsertConflict, Release
<1> QED BY <1>1, <1>2, MoveKeepsInv DEF InsertConflict, Phase

(* The unique key is what keeps a new row's key apart from the committed     *)
(* ones and, by making the insert wait, from the pending ones.              *)
LEMMA InsertInv == ASSUME Inv, NEW s \in Session, Insert(s) PROVE Inv'
<1> USE DEF Insert
<1>1. TypeOK'
  BY DEF Inv, TypeOK, At, Phase
<1>2. row[s] = 0 /\ row' = [row EXCEPT ![s] = nextSequence] /\ nextSequence # 0
  BY DEF Inv, RowsOfInserts, TypeOK, At
<1>3. RowsOfInserts'
  BY <1>2 DEF Inv, RowsOfInserts, TypeOK, At
<1>4. IdentityAhead'
  BY DEF Inv, IdentityAhead, TypeOK, Sequences
<1>5. RowsAreNew'
  BY DEF Inv, RowsAreNew, IdentityAhead, TypeOK, KeyTaken
<1>6. RowsDiffer'
  BY DEF Inv, RowsDiffer, IdentityAhead, TypeOK, MayWrite
<1>7. OneCommandPerKey' /\ AnswersAgree'
  BY DEF Inv, OneCommandPerKey, AnswersAgree
<1> QED BY <1>1, <1>3, <1>4, <1>5, <1>6, <1>7 DEF Inv

(* A commit adds the pending row, whose sequence and key are new.           *)
LEMMA CommitAdds ==
  ASSUME Inv, NEW s \in Session, Commit(s)
  PROVE  /\ phase[s] = "inserted" /\ call[s] \in Call
         /\ row[s] \in Sequences /\ row[s] # 0 /\ row[s] \notin DOMAIN commands
         /\ ~KeyTaken(call[s].key)
         /\ DOMAIN commands' = DOMAIN commands \cup {row[s]}
         /\ commands'[row[s]] \in Command
         /\ commands'[row[s]].key = call[s].key
         /\ commands'[row[s]].request = call[s].request
         /\ commands'[row[s]].status = "queued"
         /\ \A q \in DOMAIN commands : commands'[q] = commands[q]
         /\ commands' = [q \in DOMAIN commands' |-> commands'[q]]
<1> DEFINE new == [key |-> call[s].key, request |-> call[s].request,
                   status |-> "queued"]
<1>1. /\ phase[s] = "inserted" /\ call[s] \in Call
      /\ row[s] \in Sequences /\ row[s] # 0 /\ row[s] \notin DOMAIN commands
      /\ ~KeyTaken(call[s].key)
  BY DEF Inv, TypeOK, RowsOfInserts, RowsAreNew, Commit, End, At, Sequences
<1>2. /\ new \in Command
      /\ DOMAIN commands' = DOMAIN commands \cup {row[s]}
      /\ commands'[row[s]] = new
      /\ \A q \in DOMAIN commands : commands'[q] = commands[q]
      /\ commands' = [q \in DOMAIN commands' |-> commands'[q]]
  BY <1>1 DEF Commit, CommitRow, WithCommand, Command, Call
<1> QED BY <1>1, <1>2

LEMMA CommitInv == ASSUME Inv, NEW s \in Session, Commit(s) PROVE Inv'
<1>1. /\ call[s] \in Call /\ row[s] \in Sequences /\ row[s] \notin DOMAIN commands
      /\ ~KeyTaken(call[s].key)
  BY CommitAdds
<1>2. /\ DOMAIN commands' = DOMAIN commands \cup {row[s]}
      /\ commands'[row[s]] \in Command
      /\ commands'[row[s]].key = call[s].key
      /\ commands'[row[s]].request = call[s].request
      /\ \A q \in DOMAIN commands : commands'[q] = commands[q]
      /\ commands' = [q \in DOMAIN commands' |-> commands'[q]]
  BY CommitAdds
<1>3. /\ row' = [row EXCEPT ![s] = 0]
      /\ phase' = [phase EXCEPT ![s] = "idle"]
      /\ call' = [call EXCEPT ![s] = NoCall]
      /\ ingest' \in Session \cup {NoSession}
      /\ nextSequence' = nextSequence
  BY DEF Inv, TypeOK, Commit, End, At, Release
<1>4. \A a \in answers' :
         a \in answers \/ a = [key |-> call[s].key, request |-> call[s].request,
                               kind |-> "accepted", sequence |-> row[s]]
  BY DEF Commit, Tell
<1>5. TypeOK'
  <2>1. DOMAIN commands' \subseteq Sequences
    BY <1>1, <1>2 DEF Inv, TypeOK
  <2>2. \A q \in DOMAIN commands' : commands'[q] \in Command
    BY <1>2 DEF Inv, TypeOK
  <2>3. commands' \in [DOMAIN commands' -> Command]
    BY <1>2, <2>2
  <2>4. answers' \subseteq Answer
    BY <1>1, <1>4 DEF Inv, TypeOK, Answer, Call, Kind, Sequences
  <2>5. /\ phase' \in [Session -> Phase]
        /\ call' \in [Session -> Call \cup {NoCall}]
        /\ \A t \in Session : phase'[t] # "idle" => call'[t] \in Call
        /\ row' \in [Session -> Nat]
    BY <1>3 DEF Inv, TypeOK, Phase
  <2> QED BY <1>3, <2>1, <2>3, <2>4, <2>5 DEF Inv, TypeOK
<1>6. RowsOfInserts'
  BY <1>3 DEF Inv, RowsOfInserts, TypeOK
<1>7. IdentityAhead'
  BY <1>1, <1>2, <1>3 DEF Inv, IdentityAhead, TypeOK, Sequences
<1>8. RowsAreNew'
  <2>1. SUFFICES ASSUME NEW t \in Session, row'[t] # 0
                 PROVE  row'[t] \notin DOMAIN commands' /\ ~KeyTaken(call[t].key)'
    BY DEF RowsAreNew
  <2>2. t # s /\ row'[t] = row[t] /\ call'[t] = call[t] /\ row[s] # 0
    BY <1>1, <1>3, <2>1 DEF Inv, TypeOK, Sequences
  <2>3. /\ row[t] # row[s] /\ call[t].key # call[s].key
        /\ row[t] \notin DOMAIN commands /\ ~KeyTaken(call[t].key)
    BY <2>1, <2>2 DEF Inv, RowsDiffer, RowsAreNew
  <2> QED BY <1>2, <2>2, <2>3 DEF KeyTaken
<1>9. RowsDiffer'
  BY <1>3 DEF Inv, RowsDiffer, TypeOK
<1>10. OneCommandPerKey'
  BY <1>1, <1>2 DEF Inv, OneCommandPerKey, KeyTaken
<1>11. AnswersAgree'
  <2>1. \A a \in answers : a.kind \in Kind /\
           (a.kind = "accepted" => /\ a.sequence \in DOMAIN commands'
                                   /\ commands'[a.sequence].key = a.key
                                   /\ commands'[a.sequence].request = a.request)
    BY <1>2 DEF Inv, TypeOK, AnswersAgree, Answer
  <2>2. \A a \in answers : a.kind = "conflict" =>
           \E q \in DOMAIN commands' : /\ commands'[q].key = a.key
                                       /\ commands'[q].request # a.request
    BY <1>2 DEF Inv, AnswersAgree
  <2> QED BY <1>2, <1>4, <2>1, <2>2 DEF AnswersAgree
<1> QED BY <1>5, <1>6, <1>7, <1>8, <1>9, <1>10, <1>11 DEF Inv

LEMMA FinishInv ==
  ASSUME Inv, NEW q \in DOMAIN commands, NEW status \in Finished, Finish(q, status)
  PROVE  Inv'
<1>1. /\ DOMAIN commands' = DOMAIN commands
      /\ commands' \in [DOMAIN commands' -> Command]
      /\ \A p \in DOMAIN commands : /\ commands'[p].key = commands[p].key
                                    /\ commands'[p].request = commands[p].request
  BY DEF Inv, TypeOK, Finish, Command
<1>2. TypeOK'
  BY <1>1 DEF Inv, TypeOK, Finish
<1>3. RowsOfInserts' /\ IdentityAhead' /\ RowsAreNew' /\ RowsDiffer'
  BY <1>1 DEF Inv, RowsOfInserts, IdentityAhead, RowsAreNew, RowsDiffer, KeyTaken, Finish
<1>4. OneCommandPerKey' /\ AnswersAgree'
  BY <1>1 DEF Inv, OneCommandPerKey, AnswersAgree, Finish
<1> QED BY <1>2, <1>3, <1>4 DEF Inv

LEMMA ResetInv == ASSUME Inv, Reset PROVE Inv'
<1>1. DOMAIN commands' = {} /\ commands' = [q \in DOMAIN commands' |-> commands'[q]]
  BY DEF Reset
<1>2. TypeOK'
  BY <1>1 DEF Inv, TypeOK, Reset
<1>3. RowsOfInserts' /\ IdentityAhead' /\ RowsAreNew' /\ RowsDiffer'
  BY <1>1 DEF Inv, RowsOfInserts, IdentityAhead, RowsAreNew, RowsDiffer, KeyTaken, Reset
<1>4. OneCommandPerKey' /\ AnswersAgree'
  BY <1>1 DEF OneCommandPerKey, AnswersAgree, Reset
<1> QED BY <1>2, <1>3, <1>4 DEF Inv

LEMMA StutterInv == ASSUME Inv, UNCHANGED jvars PROVE Inv'
  BY DEF Inv, jvars, TypeOK, RowsOfInserts, IdentityAhead, RowsAreNew, RowsDiffer,
         KeyTaken, OneCommandPerKey, AnswersAgree

-----------------------------------------------------------------------------
LEMMA NextInv == ASSUME Inv, [Next]_jvars PROVE Inv'
<1>1. CASE \E s \in Session : SessionStep(s)
  BY <1>1, AcquireLockInv, LookupFoundInv, LookupMissingInv, RefuseFullInv,
     FindRoomInv, InsertInv, InsertConflictInv, CommitInv, RecoverInv
  DEF SessionStep
<1>2. CASE \E s \in Session : Abort(s) \/ \E c \in Call : Begin(s, c)
  BY <1>2, AbortInv, BeginInv
<1>3. CASE \E q \in DOMAIN commands, status \in Finished : Finish(q, status)
  BY <1>3, FinishInv
<1>4. CASE Reset
  BY <1>4, ResetInv
<1>5. CASE UNCHANGED jvars
  BY <1>5, StutterInv
<1> QED BY <1>1, <1>2, <1>3, <1>4, <1>5 DEF Next

LEMMA AlwaysInv == Spec => []Inv
<1>1. Init => Inv
  BY InitInv
<1>2. Inv /\ [Next]_jvars => Inv'
  BY NextInv
<1> QED BY <1>1, <1>2, PTL DEF Spec

(* The fields of the journal and of its sessions keep their types.          *)
THEOREM JournalTypes == Spec => []TypeOK
<1>1. Inv => TypeOK
  BY DEF Inv
<1> QED BY <1>1, AlwaysInv, PTL

(* commands.py, either dialect: a key has at most one command, however the   *)
(* sessions of its retries overlap, fail or lose their answers.             *)
THEOREM JournalOneCommandPerKey == Spec => []OneCommandPerKey
<1>1. Inv => OneCommandPerKey
  BY DEF Inv
<1> QED BY <1>1, AlwaysInv, PTL

(* commands.py, either dialect: callers are told of the same sequence for a  *)
(* key, the one the journal holds for the request they made.                *)
THEOREM JournalAnswersAgree == Spec => []AnswersAgree
<1>1. Inv => AnswersAgree
  BY DEF Inv
<1> QED BY <1>1, AlwaysInv, PTL

-----------------------------------------------------------------------------
(* With the ingest lock *)

(* Phases in which a session holds the ingest lock.                         *)
Holding == {"locked", "looked", "room", "inserted", "relocked"}

(* The lock makes what a session has read last to its commit: nobody else    *)
(* can insert meanwhile.                                                    *)
LockInv ==
    /\ \A s \in Session : phase[s] \in Holding => ingest = s
    /\ \A s \in Session : phase[s] \in {"looked", "room", "inserted"} =>
                             ~KeyTaken(call[s].key)
    /\ \A s \in Session : row[s] # 0 => \A q \in DOMAIN commands : q < row[s]
    /\ LookupIsFinal

CapacityInv ==
    /\ IsFiniteSet(DOMAIN commands)
    /\ CapacityHolds
    /\ \A s \in Session : phase[s] \in {"room", "inserted"} => ~Full

LEMMA SessionStepLockInv ==
  ASSUME Postgres, Inv, LockInv, NEW s \in Session,
         SessionStep(s) \/ Abort(s) \/ \E c \in Call : Begin(s, c)
  PROVE  LockInv'
<1> USE DEF Inv, TypeOK, LockInv, LookupIsFinal, Holding, KeyTaken, At
<1>1. CASE \E c \in Call : Begin(s, c)
  BY <1>1, JournalAssumption DEF Begin, RowsOfInserts
<1>2. CASE AcquireLock(s)
  BY <1>2, JournalAssumption DEF AcquireLock, TakeIngest, RowsOfInserts
<1>3. CASE LookupFound(s)
  BY <1>3 DEF LookupFound, End, Release, RowsOfInserts
<1>4. CASE LookupMissing(s)
  BY <1>4 DEF LookupMissing, Existing, RowsOfInserts
<1>5. CASE RefuseFull(s)
  BY <1>5 DEF RefuseFull, End, Release, RowsOfInserts
<1>6. CASE FindRoom(s)
  BY <1>6 DEF FindRoom, RowsOfInserts
<1>7. CASE Insert(s)
  BY <1>7 DEF Insert, RowsOfInserts, IdentityAhead
<1>8. CASE InsertConflict(s)
  BY <1>8 DEF InsertConflict
<1>9. CASE Commit(s)
  <2>1. /\ phase[s] = "inserted" /\ ingest = s
        /\ DOMAIN commands' = DOMAIN commands \cup {row[s]}
        /\ commands'[row[s]].key = call[s].key
        /\ \A q \in DOMAIN commands : commands'[q] = commands[q]
    BY <1>9, CommitAdds
  <2>2. \A t \in Session \ {s} : phase[t] \notin Holding /\ row[t] = 0
    BY <2>1, JournalAssumption DEF RowsOfInserts
  <2>3. \A t \in Session : phase'[t] \notin Holding /\ row'[t] = 0
    BY <1>9, <2>2 DEF Commit, End, Release
  <2>4. LookupIsFinal'
    BY <1>9 DEF Commit, End
  <2> QED BY <2>3, <2>4
<1>10. CASE Recover(s)
  BY <1>10 DEF Recover, End
<1>11. CASE Abort(s)
  BY <1>11 DEF Abort, End, Release, RowsOfInserts
<1> QED BY <1>1, <1>2, <1>3, <1>4, <1>5, <1>6, <1>7, <1>8, <1>9, <1>10, <1>11
        DEF SessionStep

LEMMA NextLockInv ==
  ASSUME Postgres, Inv, LockInv, [Next]_jvars PROVE LockInv'
<1>1. CASE \E s \in Session : SessionStep(s) \/ Abort(s) \/ \E c \in Call : Begin(s, c)
  BY <1>1, SessionStepLockInv
<1>2. CASE \E q \in DOMAIN commands, status \in Finished : Finish(q, status)
  <2>1. PICK q \in DOMAIN commands, status \in Finished : Finish(q, status)
    BY <1>2
  <2>2. /\ DOMAIN commands' = DOMAIN commands
        /\ \A p \in DOMAIN commands : commands'[p].key = commands[p].key
    BY <2>1 DEF Inv, TypeOK, Finish, Command
  <2> QED BY <2>1, <2>2 DEF LockInv, KeyTaken, LookupIsFinal, Finish
<1>3. CASE Reset
  <2>1. DOMAIN commands' = {}
    BY <1>3 DEF Reset
  <2> QED BY <1>3, <2>1 DEF LockInv, KeyTaken, LookupIsFinal, Reset
<1>4. CASE UNCHANGED jvars
  BY <1>4 DEF LockInv, KeyTaken, LookupIsFinal, jvars
<1> QED BY <1>1, <1>2, <1>3, <1>4 DEF Next

LEMMA AlwaysLockInv == ASSUME Postgres PROVE Spec => []LockInv
<1>1. Init => LockInv
  BY DEF Init, LockInv, KeyTaken, LookupIsFinal, Holding
<1>2. Inv /\ LockInv /\ [Next]_jvars => LockInv'
  BY NextLockInv
<1> QED BY <1>1, <1>2, AlwaysInv, PTL DEF Spec

(* commands.py with the ingest lock: the unique key is never what ends a     *)
(* race, so the IntegrityError path is dead on PostgreSQL.                   *)
THEOREM JournalLookupIsFinal == ASSUME Postgres PROVE Spec => []LookupIsFinal
<1>1. LockInv => LookupIsFinal
  BY DEF LockInv
<1> QED BY <1>1, AlwaysLockInv, PTL

(* The capacity counted by a session still holds at its commit.             *)
LEMMA CommitCapacity ==
  ASSUME Inv, CapacityInv, NEW s \in Session, Commit(s)
  PROVE  IsFiniteSet(DOMAIN commands') /\ CapacityHolds'
<1>1. /\ phase[s] = "inserted" /\ row[s] \notin DOMAIN commands
      /\ DOMAIN commands' = DOMAIN commands \cup {row[s]}
      /\ commands'[row[s]].status = "queued"
      /\ \A q \in DOMAIN commands : commands'[q] = commands[q]
  BY CommitAdds
<1>2. /\ IsFiniteSet(DOMAIN commands') /\ Cardinality(DOMAIN commands) \in Nat
      /\ Cardinality(DOMAIN commands') = Cardinality(DOMAIN commands) + 1
  BY <1>1, FS_AddElement, FS_CardinalityType DEF CapacityInv
<1>3. QueuedSequences' = QueuedSequences \cup {row[s]} /\ row[s] \notin QueuedSequences
  BY <1>1 DEF QueuedSequences
<1>4. IsFiniteSet(QueuedSequences)
  BY FS_Subset DEF CapacityInv, QueuedSequences
<1>5. /\ Cardinality(QueuedSequences) \in Nat
      /\ Cardinality(QueuedSequences') = Cardinality(QueuedSequences) + 1
  BY <1>3, <1>4, FS_AddElement, FS_CardinalityType
<1>6. Cardinality(DOMAIN commands) < MaxTotal /\ Cardinality(QueuedSequences) < MaxQueued
  BY <1>1, <1>2, <1>5, JournalAssumption DEF CapacityInv, Full
<1> QED BY <1>2, <1>5, <1>6, JournalAssumption DEF CapacityHolds

(* Finishing a command only makes room.                                     *)
LEMMA FinishCapacity ==
  ASSUME Inv, CapacityInv, NEW q \in DOMAIN commands, NEW status \in Finished,
         Finish(q, status)
  PROVE  CapacityInv'
<1>1. DOMAIN commands' = DOMAIN commands /\ QueuedSequences' \subseteq QueuedSequences
  BY DEF Inv, TypeOK, Finish, Command, Finished, QueuedSequences
<1>2. IsFiniteSet(QueuedSequences)
  BY FS_Subset DEF CapacityInv, QueuedSequences
<1>3. /\ Cardinality(QueuedSequences) \in Nat /\ Cardinality(QueuedSequences') \in Nat
      /\ Cardinality(QueuedSequences') <= Cardinality(QueuedSequences)
  BY <1>1, <1>2, FS_Subset, FS_CardinalityType
<1>4. phase' = phase
  BY DEF Finish
<1> QED BY <1>1, <1>3, <1>4, JournalAssumption DEF CapacityInv, CapacityHolds, Full

LEMMA NextCapacityInv ==
  ASSUME Postgres, Inv, LockInv, CapacityInv, [Next]_jvars PROVE CapacityInv'
<1>1. CASE \E s \in Session : Commit(s)
  <2>1. PICK s \in Session : Commit(s)
    BY <1>1
  <2>2. \A t \in Session : phase'[t] \notin {"room", "inserted"}
    BY <2>1, JournalAssumption
    DEF Commit, End, At, Inv, TypeOK, LockInv, Holding
  <2> QED BY <2>1, <2>2, CommitCapacity DEF CapacityInv
<1>2. CASE \E q \in DOMAIN commands, status \in Finished : Finish(q, status)
  BY <1>2, FinishCapacity
<1>3. CASE Reset
  <2>1. DOMAIN commands' = {} /\ QueuedSequences' = {} /\ phase' = phase
    BY <1>3 DEF Reset, QueuedSequences
  <2>2. \A s \in Session : phase'[s] \notin {"room", "inserted"}
    BY <1>3, <2>1 DEF Reset, Touching
  <2> QED BY <2>1, <2>2, FS_EmptySet, JournalAssumption DEF CapacityInv, CapacityHolds
<1>4. ASSUME UNCHANGED commands,
             \A s \in Session : phase'[s] \in {"room", "inserted"} =>
                 phase[s] \in {"room", "inserted"} \/ ~Full
      PROVE  CapacityInv'
  BY <1>4 DEF CapacityInv, CapacityHolds, Full, QueuedSequences
<1>5. CASE UNCHANGED jvars
  BY <1>4, <1>5 DEF jvars
<1>6. CASE \E s \in Session :
             \/ SessionStep(s) /\ ~Commit(s)
             \/ Abort(s)
             \/ \E c \in Call : Begin(s, c)
  <2>1. PICK s \in Session :
             \/ SessionStep(s) /\ ~Commit(s)
             \/ Abort(s)
             \/ \E c \in Call : Begin(s, c)
    BY <1>6
  <2>2. UNCHANGED commands
    BY <2>1
    DEF SessionStep, AcquireLock, LookupFound, LookupMissing, RefuseFull, FindRoom,
        Insert, InsertConflict, Recover, Abort, Begin
  <2>3. \A t \in Session : phase'[t] \in {"room", "inserted"} =>
                 phase[t] \in {"room", "inserted"} \/ ~Full
    BY <2>1
    DEF SessionStep, AcquireLock, LookupFound, LookupMissing, RefuseFull, FindRoom,
        Insert, InsertConflict, Recover, Abort, Begin, End, At, Inv, TypeOK
  <2> QED BY <1>4, <2>2, <2>3
<1> QED BY <1>1, <1>2, <1>3, <1>5, <1>6 DEF Next, SessionStep

(* commands.py with the ingest lock: no number of overlapping requests takes *)
(* the queue or the journal above its limit.                                *)
THEOREM JournalCapacityHolds == ASSUME Postgres PROVE Spec => []CapacityHolds
<1>1. Init => CapacityInv
  <2>1. Init => DOMAIN commands = {} /\ QueuedSequences = {}
    BY DEF Init, QueuedSequences
  <2> QED BY <2>1, FS_EmptySet, JournalAssumption DEF Init, CapacityInv, CapacityHolds
<1>2. Inv /\ LockInv /\ CapacityInv /\ [Next]_jvars => CapacityInv'
  BY NextCapacityInv
<1>3. CapacityInv => CapacityHolds
  BY DEF CapacityInv
<1> QED BY <1>1, <1>2, <1>3, AlwaysInv, AlwaysLockInv, PTL DEF Spec

-----------------------------------------------------------------------------
(* When the unique key fails                                                *)

(* Off PostgreSQL nothing is ever erased, so the row a session clashed with   *)
(* is still there.                                                          *)
FailedInv ==
    /\ \A s \in Session : phase[s] \in {"failed", "relocked"} => KeyTaken(call[s].key)
    /\ ConflictIsExplained

LEMMA KeysStay ==
  ASSUME Inv, ~Postgres, Next
  PROVE  /\ DOMAIN commands \subseteq DOMAIN commands'
         /\ \A q \in DOMAIN commands : commands'[q].key = commands[q].key
<1>1. CASE \E s \in Session : Commit(s)
  BY <1>1, CommitAdds
<1>2. CASE \E q \in DOMAIN commands, status \in Finished : Finish(q, status)
  BY <1>2 DEF Inv, TypeOK, Finish, Command
<1>3. CASE UNCHANGED commands
  BY <1>3
<1> QED BY <1>1, <1>2, <1>3
        DEF Next, SessionStep, AcquireLock, LookupFound, LookupMissing, RefuseFull,
            FindRoom, Insert, InsertConflict, Recover, Abort, Begin, Reset

LEMMA ReplyIsNoError ==
  ASSUME NEW c, NEW q PROVE ReplyExisting(c, q).kind # "error"
  BY DEF ReplyExisting

LEMMA NextFailedInv ==
  ASSUME ~Postgres, Inv, FailedInv, [Next]_jvars PROVE FailedInv'
<1> USE DEF Inv, TypeOK, FailedInv, ConflictIsExplained, At
<1>1. CASE Next
  <2>1. ASSUME NEW s \in Session, KeyTaken(call[s].key), call'[s] = call[s]
        PROVE  KeyTaken(call[s].key)'
    BY <1>1, <2>1, KeysStay DEF KeyTaken
  <2>3. ConflictIsExplained'
    <3>1. ASSUME NEW s \in Session, SessionStep(s) PROVE ConflictIsExplained'
      <4>1. CASE LookupFound(s)
        BY <4>1, ReplyIsNoError DEF LookupFound, Tell
      <4>2. CASE Recover(s)
        <5>1. Existing(call[s].key) # {}
          BY <4>2 DEF Recover, End, Existing, KeyTaken
        <5> QED BY <4>2, <5>1, ReplyIsNoError DEF Recover, Tell
      <4>3. CASE RefuseFull(s) \/ Commit(s)
        BY <4>3 DEF RefuseFull, Commit, Tell, ReplyWithout
      <4> QED BY <3>1, <4>1, <4>2, <4>3
              DEF SessionStep, AcquireLock, LookupMissing, FindRoom, Insert, InsertConflict
    <3> QED BY <1>1, <3>1 DEF Next, Abort, Begin, Finish, Reset
  <2>4. ASSUME NEW a \in Session, SessionStep(a) \/ Abort(a) \/ \E c \in Call : Begin(a, c),
               NEW s \in Session, phase'[s] \in {"failed", "relocked"}
        PROVE  KeyTaken(call[s].key)'
    <3> USE DEF SessionStep, AcquireLock, LookupFound, LookupMissing, RefuseFull, FindRoom,
                Insert, InsertConflict, Recover, Abort, Begin, Commit, End
    <3>1. CASE s # a
      <4>1. phase'[s] = phase[s] /\ call'[s] = call[s]
        BY <2>4, <3>1
      <4> QED BY <2>1, <2>4, <4>1
    <3>2. CASE s = a
      <4>1. KeyTaken(call[s].key) /\ call'[s] = call[s]
        BY <2>4, <3>2
      <4> QED BY <2>1, <4>1
    <3> QED BY <3>1, <3>2
  <2>5. ASSUME phase' = phase, call' = call, NEW s \in Session,
               phase'[s] \in {"failed", "relocked"}
        PROVE  KeyTaken(call[s].key)'
    BY <2>1, <2>5
  <2>6. \A s \in Session : phase'[s] \in {"failed", "relocked"} => KeyTaken(call[s].key)'
    BY <1>1, <2>4, <2>5 DEF Next, Finish, Reset
  <2> QED BY <2>3, <2>6
<1>2. CASE UNCHANGED jvars
  BY <1>2 DEF jvars, KeyTaken
<1> QED BY <1>1, <1>2

(* commands.py, either dialect: no caller is left with the IntegrityError.    *)
(* With the ingest lock the key never clashes; without it the row it clashed   *)
(* with is there for the second transaction.                                *)
THEOREM JournalConflictIsExplained == Spec => []ConflictIsExplained
<1>1. CASE Postgres
  <2>1. Init => ConflictIsExplained
    BY DEF Init, ConflictIsExplained
  <2>2. LookupIsFinal /\ ConflictIsExplained /\ [Next]_jvars => ConflictIsExplained'
    <3> SUFFICES ASSUME LookupIsFinal, ConflictIsExplained, Next PROVE ConflictIsExplained'
      BY DEF jvars, ConflictIsExplained
    <3>1. \A s \in Session : ~Recover(s)
      BY DEF LookupIsFinal, Recover, End, At
    <3>2. ASSUME NEW s \in Session, LookupFound(s) PROVE ConflictIsExplained'
      BY <3>2, ReplyIsNoError DEF ConflictIsExplained, LookupFound, Tell
    <3>3. ASSUME NEW s \in Session, RefuseFull(s) \/ Commit(s) PROVE ConflictIsExplained'
      BY <3>3 DEF ConflictIsExplained, RefuseFull, Commit, Tell, ReplyWithout
    <3>4. CASE answers' = answers \/ answers' = {}
      BY <3>4 DEF ConflictIsExplained
    <3> QED BY <3>1, <3>2, <3>3, <3>4
            DEF Next, SessionStep, AcquireLock, LookupMissing, FindRoom, Insert,
                InsertConflict, Abort, Begin, Finish, Reset
  <2> QED BY <1>1, <2>1, <2>2, JournalLookupIsFinal, PTL DEF Spec
<1>2. CASE ~Postgres
  <2>1. Init => FailedInv
    BY DEF Init, FailedInv, ConflictIsExplained
  <2>2. Inv /\ FailedInv /\ [Next]_jvars => FailedInv'
    BY <1>2, NextFailedInv
  <2>3. FailedInv => ConflictIsExplained
    BY DEF FailedInv
  <2> QED BY <2>1, <2>2, <2>3, AlwaysInv, PTL DEF Spec
<1> QED BY <1>1, <1>2

-----------------------------------------------------------------------------
(* Refinement of Journal                                                    *)

(* Sessions that may still take a sequence.                                  *)
Busy == {s \in Session : phase[s] \in {"begin", "locked", "looked", "room"}}
Active == {s \in Session : phase[s] # "idle"}

(* There is room below the bound for the sequences of those under way.        *)
RoomInv ==
    /\ IsFiniteSet(Active)
    /\ nextSequence + Cardinality(Busy) <= MaxSequence + 1

(* In either dialect at most one row is pending, and it has the last sequence  *)
(* that was given out.                                                      *)
PendingInv ==
    /\ \A s, t \in Session : row[s] # 0 /\ row[t] # 0 => s = t
    /\ \A s \in Session : row[s] # 0 => row[s] + 1 = nextSequence

RefinementInv == Inv /\ (Postgres => LockInv) /\ PendingInv /\ RoomInv

LEMMA RoomStays ==
  ASSUME Inv, RoomInv, [Next]_jvars PROVE RoomInv'
<1> USE DEF Inv, TypeOK
<1>1. /\ IsFiniteSet(Active) /\ Busy \subseteq Active /\ IsFiniteSet(Busy)
      /\ Cardinality(Active) \in Nat /\ Cardinality(Busy) \in Nat
      /\ Cardinality(Busy) <= Cardinality(Active)
      /\ nextSequence \in Nat /\ MaxSequence \in Nat
  BY FS_Subset, FS_CardinalityType, JournalAssumption DEF RoomInv, Busy, Active
<1>2. ASSUME Active' \subseteq Active, Busy' \subseteq Busy, nextSequence' = nextSequence
      PROVE  RoomInv'
  <2>1. /\ IsFiniteSet(Active') /\ Cardinality(Busy') \in Nat
        /\ Cardinality(Busy') <= Cardinality(Busy)
    BY <1>1, <1>2, FS_Subset, FS_CardinalityType
  <2> QED BY <1>1, <1>2, <2>1 DEF RoomInv
<1>3. ASSUME NEW s \in Session, Insert(s) \/ InsertConflict(s) PROVE RoomInv'
  <2>1. /\ s \in Busy /\ Busy' = Busy \ {s} /\ Active' = Active
        /\ nextSequence' = nextSequence + 1
    BY <1>3 DEF Insert, InsertConflict, At, Busy, Active
  <2>2. Cardinality(Busy') = Cardinality(Busy) - 1
    BY <1>1, <2>1, FS_RemoveElement
  <2> QED BY <1>1, <2>1, <2>2 DEF RoomInv
<1>4. ASSUME NEW s \in Session, NEW c \in Call, Begin(s, c) PROVE RoomInv'
  <2>1. /\ s \notin Busy /\ Busy' = Busy \cup {s} /\ Active' = Active \cup {s}
        /\ nextSequence' = nextSequence
        /\ nextSequence + Cardinality(Active) <= MaxSequence
    BY <1>4 DEF Begin, At, Busy, Active
  <2>2. /\ Cardinality(Busy') = Cardinality(Busy) + 1 /\ IsFiniteSet(Active')
    BY <1>1, <2>1, FS_AddElement
  <2> QED BY <1>1, <2>1, <2>2 DEF RoomInv
<1>5. ASSUME NEW s \in Session,
             \/ AcquireLock(s) \/ LookupFound(s) \/ LookupMissing(s) \/ RefuseFull(s)
             \/ FindRoom(s) \/ Commit(s) \/ Recover(s) \/ Abort(s)
      PROVE  RoomInv'
  <2>1. Active' \subseteq Active /\ Busy' \subseteq Busy /\ nextSequence' = nextSequence
    BY <1>5 DEF AcquireLock, LookupFound, LookupMissing, RefuseFull, FindRoom, Commit,
                Recover, Abort, End, At, Active, Busy
  <2> QED BY <1>2, <2>1
<1>6. CASE phase' = phase /\ nextSequence' = nextSequence
  <2>1. Active' = Active /\ Busy' = Busy
    BY <1>6 DEF Active, Busy
  <2> QED BY <1>2, <1>6, <2>1
<1> QED BY <1>3, <1>4, <1>5, <1>6 DEF Next, SessionStep, Finish, Reset, jvars

(* Nobody else has a pending row when a session is at its insert and may       *)
(* write.                                                                   *)
LEMMA AloneAtInsert ==
  ASSUME Inv, Postgres => LockInv, NEW s \in Session, Insert(s) \/ InsertConflict(s)
  PROVE  \A t \in Session : row[t] = 0
<1>1. phase[s] = "room" /\ MayWrite(s) /\ row[s] = 0
  BY DEF Insert, InsertConflict, At, Inv, RowsOfInserts, TypeOK
<1>2. CASE Postgres
  BY <1>1, <1>2 DEF LockInv, Holding, Inv, RowsOfInserts
<1>3. CASE ~Postgres
  BY <1>1, <1>3 DEF MayWrite
<1> QED BY <1>2, <1>3

LEMMA PendingStays ==
  ASSUME Inv, Postgres => LockInv, PendingInv, [Next]_jvars PROVE PendingInv'
<1> USE DEF Inv, TypeOK
<1>1. ASSUME NEW s \in Session, Insert(s) \/ InsertConflict(s) PROVE PendingInv'
  <2>1. \A t \in Session : row[t] = 0
    BY <1>1, AloneAtInsert
  <2>2. nextSequence' = nextSequence + 1
        /\ \A t \in Session : row'[t] = 0 \/ (t = s /\ row'[t] = nextSequence)
    BY <1>1, <2>1 DEF Insert, InsertConflict, Release
  <2> QED BY <2>2 DEF PendingInv
<1>2. CASE nextSequence' = nextSequence
           /\ \A t \in Session : row'[t] = row[t] \/ row'[t] = 0
  BY <1>2 DEF PendingInv
<1>3. ASSUME NEW s \in Session,
             \/ AcquireLock(s) \/ LookupFound(s) \/ LookupMissing(s) \/ RefuseFull(s)
             \/ FindRoom(s) \/ Commit(s) \/ Recover(s) \/ Abort(s)
             \/ \E c \in Call : Begin(s, c)
      PROVE  nextSequence' = nextSequence
             /\ \A t \in Session : row'[t] = row[t] \/ row'[t] = 0
  BY <1>3 DEF AcquireLock, LookupFound, LookupMissing, RefuseFull, FindRoom, Commit,
              Recover, Abort, End, Release, Begin
<1> QED BY <1>1, <1>2, <1>3 DEF Next, SessionStep, Finish, Reset, jvars

LEMMA AlwaysRefinementInv == Spec => []RefinementInv
<1>1. Init => PendingInv /\ RoomInv
  <2> SUFFICES ASSUME Init PROVE PendingInv /\ RoomInv
    OBVIOUS
  <2>1. Busy = {} /\ Active = {} /\ nextSequence = 1
    BY DEF Init, Busy, Active
  <2> QED BY <2>1, FS_EmptySet, JournalAssumption DEF Init, PendingInv, RoomInv
<1>2. CASE Postgres
  <2>1. Inv /\ LockInv /\ PendingInv /\ RoomInv /\ [Next]_jvars => PendingInv' /\ RoomInv'
    BY PendingStays, RoomStays
  <2>2. Inv /\ LockInv /\ PendingInv /\ RoomInv => RefinementInv
    BY DEF RefinementInv
  <2> QED BY <1>1, <1>2, <2>1, <2>2, AlwaysInv, AlwaysLockInv, PTL DEF Spec
<1>3. CASE ~Postgres
  <2>1. Inv /\ PendingInv /\ RoomInv /\ [Next]_jvars => PendingInv' /\ RoomInv'
    BY <1>3, PendingStays, RoomStays
  <2>2. Inv /\ PendingInv /\ RoomInv => RefinementInv
    BY <1>3 DEF RefinementInv
  <2> QED BY <1>1, <2>1, <2>2, AlwaysInv, PTL DEF Spec
<1> QED BY <1>2, <1>3

(* Everything given out is settled, but for the pending row.                 *)
SettledHere ==
    /\ (\A s \in Session : row[s] = 0) => Settled = nextSequence - 1
    /\ \A s \in Session : row[s] # 0 => Settled = row[s] - 1

LEMMA SettledIs == RefinementInv => SettledHere
<1> SUFFICES ASSUME RefinementInv PROVE SettledHere
  OBVIOUS
<1> DEFINE pending == {row[s] : s \in Session} \ {0}
<1>1. ASSUME \A s \in Session : row[s] = 0 PROVE Settled = nextSequence - 1
  <2>1. pending = {}
    BY <1>1
  <2> QED BY <2>1 DEF Settled
<1>2. ASSUME NEW s \in Session, row[s] # 0 PROVE Settled = row[s] - 1
  <2>1. pending = {row[s]}
    BY <1>2 DEF RefinementInv, PendingInv
  <2>2. row[s] \in Nat
    BY DEF RefinementInv, Inv, TypeOK
  <2>3. (CHOOSE r \in {row[s]} : \A t \in {row[s]} : r <= t) = row[s]
    BY <2>2
  <2> QED BY <2>1, <2>3, Zenon DEF Settled
<1> QED BY <1>1, <1>2 DEF SettledHere

LEMMA SettledNext == RefinementInv' => SettledHere'
  BY SettledIs, PTL

(* A step that leaves commands, the rows and the identity alone is a stutter. *)
LEMMA QuietStep ==
  ASSUME RefinementInv, RefinementInv', UNCHANGED commands,
         nextSequence' = nextSequence, \A s \in Session : row'[s] = row[s]
  PROVE  UNCHANGED <<commands, Settled>>
BY SettledIs, SettledNext DEF SettledHere

LEMMA CommitStep ==
  ASSUME RefinementInv, RefinementInv', NEW s \in Session, Commit(s)
  PROVE  Promise!Next
<1>1. /\ call[s] \in Call /\ row[s] \in Sequences /\ row[s] # 0
      /\ ~KeyTaken(call[s].key)
  BY CommitAdds DEF RefinementInv
<1>2. /\ row[s] + 1 = nextSequence /\ nextSequence' = nextSequence
      /\ \A t \in Session : row'[t] = 0
  BY <1>1 DEF RefinementInv, PendingInv, Inv, TypeOK, Commit, End, Release
<1>3. Settled = row[s] - 1 /\ Settled' = row[s]
  BY <1>1, <1>2, SettledIs, SettledNext DEF SettledHere, Sequences
<1>4. row[s] \in 1..MaxSequence
  <2>1. IsFiniteSet(Busy)
    BY FS_Subset DEF RefinementInv, RoomInv, Busy, Active
  <2>2. Cardinality(Busy) \in Nat
    BY <2>1, FS_CardinalityType
  <2> QED BY <1>1, <1>2, <2>2, JournalAssumption DEF RefinementInv, RoomInv, Sequences
<1>5. call[s].key \in Key /\ call[s].request \in Request
  BY <1>1 DEF Call
<1>6. ~Promise!HasKey(commands, call[s].key)
  BY <1>1 DEF KeyTaken, Promise!HasKey
<1>7. commands' = Promise!WithCommand(commands, row[s],
                                     Promise!Queued(call[s].key, call[s].request))
  BY DEF Commit, CommitRow, WithCommand, Promise!WithCommand, Promise!Queued
<1>8. Promise!Accept(call[s].key, call[s].request, row[s])
  BY <1>1, <1>3, <1>6, <1>7 DEF Promise!Accept, Sequences
<1> QED BY <1>4, <1>5, <1>8 DEF Promise!Next

(* A sequence is given up: by a clash, or with the transaction that held it.   *)
LEMMA SkipStep ==
  ASSUME RefinementInv, RefinementInv', NEW s \in Session,
         InsertConflict(s) \/ (Abort(s) /\ row[s] # 0)
  PROVE  Promise!Next
<1>1. /\ nextSequence \in Nat \ {0} /\ nextSequence' \in Nat \ {0} /\ row \in [Session -> Nat]
      /\ UNCHANGED commands
  BY DEF RefinementInv, Inv, TypeOK, InsertConflict, Abort
<1>2. \A t \in Session : row'[t] = 0
  <2>1. CASE InsertConflict(s)
    BY <2>1, <1>1, AloneAtInsert DEF RefinementInv, InsertConflict, Release
  <2>2. CASE Abort(s) /\ row[s] # 0
    BY <2>2, <1>1 DEF RefinementInv, PendingInv, Abort, End, Release
  <2> QED BY <2>1, <2>2
<1>3. Settled' = nextSequence' - 1
  BY <1>2, SettledNext DEF SettledHere
<1>4. Settled = nextSequence' - 2
  <2>1. CASE InsertConflict(s)
    <3>1. Settled = nextSequence - 1 /\ nextSequence' = nextSequence + 1
      BY <2>1, AloneAtInsert, SettledIs DEF RefinementInv, SettledHere, InsertConflict
    <3> QED BY <1>1, <3>1
  <2>2. CASE Abort(s) /\ row[s] # 0
    <3>1. /\ Settled = row[s] - 1 /\ nextSequence' = nextSequence
          /\ row[s] + 1 = nextSequence
      BY <2>2, SettledIs DEF RefinementInv, PendingInv, SettledHere, Abort
    <3> QED BY <1>1, <3>1
  <2> QED BY <2>1, <2>2
<1>5. Settled' \in 1..MaxSequence
  <2>1. IsFiniteSet(Busy')
    BY FS_Subset DEF RefinementInv, RoomInv, Busy, Active
  <2>2. Cardinality(Busy') \in Nat /\ nextSequence' + Cardinality(Busy') <= MaxSequence + 1
    BY <2>1, FS_CardinalityType DEF RefinementInv, RoomInv
  <2>3. nextSequence' # 1
    <3>1. CASE InsertConflict(s)
      BY <1>1, <3>1 DEF InsertConflict
    <3>2. CASE Abort(s) /\ row[s] # 0
      BY <1>1, <3>2 DEF RefinementInv, PendingInv, Abort
    <3> QED BY <3>1, <3>2
  <2>4. nextSequence' - 1 \in 1..MaxSequence
    <3> DEFINE c == Cardinality(Busy)'
               n == nextSequence'
    <3>1. c \in Nat /\ n + c <= MaxSequence + 1 /\ n # 1 /\ n \in Nat \ {0}
          /\ MaxSequence \in Nat
      BY <1>1, <2>2, <2>3, JournalAssumption
    <3> HIDE DEF c, n
    <3>2. n - 1 \in 1..MaxSequence
      BY <3>1
    <3> QED BY <3>2 DEF n
  <2> QED BY <1>3, <2>4
<1>6. Settled' > Settled
  <2> DEFINE n == nextSequence'
  <2>1. n \in Int
    BY <1>1
  <2> HIDE DEF n
  <2>2. n - 1 > n - 2
    BY <2>1
  <2> QED BY <1>3, <1>4, <2>2 DEF n
<1>7. \E n \in 1..MaxSequence : Promise!Skip(n)
  BY <1>1, <1>5, <1>6 DEF Promise!Skip
<1> QED BY <1>7 DEF Promise!Next

LEMMA JournalStep ==
  ASSUME RefinementInv, RefinementInv', [Next]_jvars
  PROVE  Promise!Next \/ UNCHANGED <<commands, Settled>>
<1> USE DEF RefinementInv, Inv, TypeOK
<1>1. ASSUME NEW s \in Session, Insert(s) PROVE UNCHANGED <<commands, Settled>>
  <2>1. /\ \A t \in Session : row[t] = 0
        /\ row'[s] = nextSequence /\ row'[s] # 0 /\ commands' = commands
    BY <1>1, AloneAtInsert DEF Insert
  <2> QED BY <2>1, SettledIs, SettledNext DEF SettledHere
<1>2. ASSUME NEW s \in Session,
             \/ AcquireLock(s) \/ LookupFound(s) \/ LookupMissing(s) \/ RefuseFull(s)
             \/ FindRoom(s) \/ Recover(s) \/ (Abort(s) /\ row[s] = 0)
             \/ \E c \in Call : Begin(s, c)
      PROVE  UNCHANGED <<commands, Settled>>
  <2>1. \A t \in Session : row'[t] = row[t]
    BY <1>2 DEF RowsOfInserts, AcquireLock, LookupFound, LookupMissing, RefuseFull, FindRoom,
                Recover, Abort, Begin, End, At, Release
  <2>2. commands' = commands /\ nextSequence' = nextSequence
    BY <1>2 DEF AcquireLock, LookupFound, LookupMissing, RefuseFull, FindRoom,
                Recover, Abort, Begin
  <2> QED BY <2>1, <2>2, QuietStep
<1>3. ASSUME NEW q \in DOMAIN commands, NEW status \in Finished, Finish(q, status)
      PROVE  Promise!Next
  <2>1. Settled' = Settled
    BY <1>3, SettledIs, SettledNext DEF SettledHere, Finish
  <2> QED BY <1>3, <2>1 DEF Finish, Finished, Promise!Next, Promise!Finish, Promise!Finished
<1>4. CASE Reset
  <2>1. Settled' = Settled
    BY <1>4, SettledIs, SettledNext DEF SettledHere, Reset
  <2> QED BY <1>4, <2>1 DEF Reset, Promise!Next, Promise!Erase, Promise!NoCommands
<1>5. CASE UNCHANGED jvars
  BY <1>5, QuietStep DEF jvars
<1> QED
  BY <1>1, <1>2, <1>3, <1>4, <1>5, CommitStep, SkipStep DEF Next, SessionStep

(* commands.py, either dialect: commands are committed in the order of their   *)
(* sequences, which a bare identity column does not give.                    *)
THEOREM JournalVisibleInOrder == Spec => VisibleInOrder
<1> DEFINE Later == \A new \in DOMAIN commands' \ DOMAIN commands,
                      old \in DOMAIN commands : old < new
<1>1. ASSUME RefinementInv, Next PROVE Later
  <2>1. CASE \E s \in Session : Commit(s)
    <3>1. PICK s \in Session : Commit(s)
      BY <2>1
    <3>2. row[s] # 0 /\ DOMAIN commands' = DOMAIN commands \cup {row[s]}
      BY <1>1, <3>1, CommitAdds DEF RefinementInv
    <3>3. \A q \in DOMAIN commands : q < row[s]
      <4>1. row[s] \in Sequences /\ row[s] # 0 /\ row[s] \notin DOMAIN commands
        BY <1>1, <3>1, CommitAdds DEF RefinementInv
      <4>2. row[s] + 1 = nextSequence
        BY <1>1, <4>1 DEF RefinementInv, PendingInv
      <4>3. \A q \in DOMAIN commands : q \in Nat /\ q < row[s] + 1 /\ q # row[s]
        BY <1>1, <4>1, <4>2 DEF RefinementInv, Inv, IdentityAhead, TypeOK, Sequences
      <4>4. row[s] \in Nat
        BY <4>1 DEF Sequences
      <4> QED BY <4>3, <4>4
    <3> QED BY <3>2, <3>3
  <2>2. CASE ~\E s \in Session : Commit(s)
    <3>1. DOMAIN commands' \subseteq DOMAIN commands
      BY <1>1, <2>2
      DEF Next, SessionStep, AcquireLock, LookupFound, LookupMissing, RefuseFull,
          FindRoom, Insert, InsertConflict, Recover, Abort, Begin, Finish, Reset
    <3> QED BY <3>1
  <2> QED BY <2>1, <2>2
<1>2. RefinementInv /\ [Next]_jvars => [Later]_jvars
  BY <1>1
<1> QED BY <1>2, AlwaysRefinementInv, PTL DEF Spec, VisibleInOrder

(* commands.py, either dialect: acceptance, statement by statement, is an      *)
(* atomic append to the journal, each sequence above all that were ever shown  *)
(* or given up, and at most one for a key.                                   *)
THEOREM JournalImplementsJournal == Spec => ImplementsJournal
<1>1. Init => Promise!Init
  <2> SUFFICES ASSUME Init PROVE Promise!Init
    OBVIOUS
  <2>1. {row[s] : s \in Session} \ {0} = {} /\ nextSequence = 1
    BY DEF Init
  <2>2. Settled = 0
    BY <2>1 DEF Settled
  <2> QED BY <2>2 DEF Init, Promise!Init, Promise!NoCommands
<1>2. RefinementInv /\ RefinementInv' /\ [Next]_jvars => [Promise!Next]_<<commands, Settled>>
  BY JournalStep
<1> QED BY <1>1, <1>2, AlwaysRefinementInv, PTL
        DEF Spec, ImplementsJournal, Promise!Spec, Promise!journalVars

-----------------------------------------------------------------------------
(* The views that readers get over several statements (TableLocks).           *)

Tables == {"market_events", "trades", "orders", "market_commands"}

Transaction ==
    [left : Seq(Tables), locked : SUBSET Tables, since : SUBSET {"reset", "command"},
     seen : SUBSET {"rows", "nothing"}]

(* What keeps a view whole: as long as the reset has a table, no reader has it, *)
(* so when the reset has all of them, no reader has seen any.                 *)
Unlocked(s) == \A p \in DOMAIN Truncated : p < reset => Truncated[p] \notin s.locked

SeenOnce(s) ==
    /\ s.locked = {} => s.seen = {}
    /\ s.seen \subseteq IF "reset" \in s.since THEN {"nothing"} ELSE {"rows"}

ViewInv ==
    /\ reset \in 0..Len(Truncated)
    /\ reader \in [Reader -> Transaction]
    /\ \A r \in Reader : Unlocked(reader[r]) /\ SeenOnce(reader[r])

LEMMA Places ==
    /\ DOMAIN Truncated = 1..4 /\ Len(Truncated) = 4
    /\ Tables = {Truncated[p] : p \in 1..4}
    /\ \A p \in 1..4 : Truncated[p] \in Tables /\ Place(Truncated[p]) = p
<1>1. DOMAIN Truncated = 1..4 /\ Len(Truncated) = 4
  BY DEF Truncated
<1>2. /\ Truncated[1] = "market_events" /\ Truncated[2] = "trades"
      /\ Truncated[3] = "orders" /\ Truncated[4] = "market_commands"
  BY DEF Truncated
<1>3. \A p, q \in 1..4 : Truncated[p] = Truncated[q] => p = q
  <2> SUFFICES ASSUME NEW p \in 1..4, NEW q \in 1..4, Truncated[p] = Truncated[q]
               PROVE  p = q
    OBVIOUS
  <2>1. p \in {1, 2, 3, 4} /\ q \in {1, 2, 3, 4}
    OBVIOUS
  <2> QED
    BY <1>2, <2>1
<1>4. ASSUME NEW p \in 1..4 PROVE Truncated[p] \in Tables /\ Place(Truncated[p]) = p
  <2>1. p \in {1, 2, 3, 4}
    OBVIOUS
  <2>2. Truncated[p] \in Tables
    BY <1>2, <2>1 DEF Tables
  <2> QED
    BY <1>1, <1>3, <2>2 DEF Place
<1>5. Tables = {Truncated[p] : p \in 1..4}
  <2>1. Tables \subseteq {Truncated[p] : p \in 1..4}
    BY <1>2 DEF Tables
  <2> QED
    BY <1>4, <2>1
<1> QED
  BY <1>1, <1>4, <1>5

LEMMA ProgramsAreTables == Programs \subseteq Seq(Tables)
<1>1. /\ Book \in Seq(Tables) /\ Summary \in Seq(Tables)
      /\ <<"trades">> \in Seq(Tables) /\ <<"market_events">> \in Seq(Tables)
  BY DEF Book, Summary, Tables
<1>2. Snapshot \in Seq(Tables)
  BY <1>1 DEF Snapshot
<1>3. Replay \in Seq(Tables)
  BY <1>1, <1>2 DEF Replay
<1> QED
  BY <1>1, <1>2, <1>3 DEF Programs

(* A step of one reader.                                                    *)
LEMMA OneReader ==
    ASSUME ViewInv, NEW r \in Reader, NEW s \in Transaction, Unlocked(s), SeenOnce(s),
           reader' = [reader EXCEPT ![r] = s], reset' = reset
    PROVE  ViewInv'
<1>1. Unlocked(s)'
  BY DEF Unlocked
<1>2. ASSUME NEW q \in Reader PROVE (Unlocked(reader[q]) /\ SeenOnce(reader[q]))'
  <2>1. CASE q = r
    <3>1. reader'[q] = s
      BY <2>1 DEF ViewInv
    <3> QED
      BY <3>1 DEF Unlocked, SeenOnce
  <2>2. CASE q # r
    <3>1. reader'[q] = reader[q]
      BY <2>2 DEF ViewInv
    <3> QED
      BY <3>1 DEF ViewInv, Unlocked, SeenOnce
  <2> QED
    BY <2>1, <2>2
<1> QED
  BY <1>2 DEF ViewInv, Unlocked, SeenOnce

LEMMA NotReadingIsFine ==
    NotReading \in Transaction /\ Unlocked(NotReading) /\ SeenOnce(NotReading)
BY DEF NotReading, Transaction, Unlocked, SeenOnce

LEMMA BeginReadInv ==
    ASSUME ViewInv, NEW r \in Reader, BeginRead(r)
    PROVE  ViewInv'
<1>1. PICK p \in Programs : reader' = [reader EXCEPT ![r] = [NotReading EXCEPT !.left = p]]
  BY DEF BeginRead
<1> DEFINE s == [NotReading EXCEPT !.left = p]
<1>2. s \in Transaction /\ s.locked = {} /\ s.seen = {}
  BY ProgramsAreTables DEF NotReading, Transaction
<1>3. reader' = [reader EXCEPT ![r] = s] /\ reset' = reset
  BY <1>1 DEF BeginRead
<1> HIDE DEF s
<1>4. Unlocked(s) /\ SeenOnce(s)
  BY <1>2 DEF Unlocked, SeenOnce
<1> QED
  BY <1>2, <1>3, <1>4, OneReader

LEMMA ReadInv ==
    ASSUME ViewInv, NEW r \in Reader, Read(r)
    PROVE  ViewInv'
<1> DEFINE s == reader[r]
           t == [s EXCEPT !.left = Tail(s.left), !.locked = @ \cup {Head(s.left)},
                          !.seen = @ \cup {Contents(r)}]
<1>1. s \in Transaction /\ Unlocked(s) /\ SeenOnce(s) /\ reset' = reset
  BY DEF ViewInv, Read
<1>2. s.left # <<>> /\ (Head(s.left) \in s.locked \/ ~Blocked(Head(s.left)))
  BY DEF Read, Waits
<1>3. reader' = [reader EXCEPT ![r] = t]
  BY DEF Read
<1>4. Head(s.left) \in Tables /\ Tail(s.left) \in Seq(Tables)
  BY <1>1, <1>2 DEF Transaction
<1>5. Contents(r) = IF "reset" \in s.since THEN "nothing" ELSE "rows"
  BY DEF Contents
<1>6. /\ t \in Transaction /\ t.since = s.since
      /\ t.locked = s.locked \cup {Head(s.left)} /\ t.seen = s.seen \cup {Contents(r)}
  BY <1>1, <1>4, <1>5 DEF Transaction
<1> HIDE DEF t
<1>7. SeenOnce(t)
  BY <1>1, <1>5, <1>6 DEF SeenOnce
<1>8. Unlocked(t)
  <2> SUFFICES ASSUME NEW p \in DOMAIN Truncated, p < reset PROVE Truncated[p] \notin t.locked
    BY DEF Unlocked
  <2>1. Truncated[p] \notin s.locked
    BY <1>1 DEF Unlocked
  <2>2. Place(Truncated[p]) = p /\ p \in Int /\ reset \in Int
    BY Places DEF ViewInv
  <2>3. Truncated[p] # Head(s.left)
    BY <1>2, <2>1, <2>2 DEF Blocked
  <2> QED
    BY <1>6, <2>1, <2>3
<1> QED
  BY <1>1, <1>3, <1>6, <1>7, <1>8, OneReader

LEMMA EndReadInv ==
    ASSUME ViewInv, NEW r \in Reader, EndRead(r)
    PROVE  ViewInv'
BY NotReadingIsFine, OneReader DEF EndRead

(* A commit is seen by nobody who has begun, unless it is a reset and they     *)
(* have no table yet.                                                       *)
LEMMA CommittedInv ==
    ASSUME ViewInv, NEW what \in {"reset", "command"}, Committed(what), reset' = 0,
           what = "reset" => \A r \in Reader : reader[r].locked = {}
    PROVE  ViewInv'
<1>1. ASSUME NEW r \in Reader
      PROVE  reader'[r] \in Transaction /\ (Unlocked(reader[r]) /\ SeenOnce(reader[r]))'
  <2> DEFINE s == reader[r]
             t == [s EXCEPT !.since = @ \cup {what}]
  <2>1. s \in Transaction /\ SeenOnce(s) /\ reader'[r] = IF s = NotReading THEN s ELSE t
    BY DEF ViewInv, Committed
  <2>2. /\ t \in Transaction /\ t.left = s.left /\ t.locked = s.locked /\ t.seen = s.seen
        /\ t.since = s.since \cup {what}
    BY <2>1 DEF Transaction
  <2> HIDE DEF t
  <2>3. SeenOnce(t)
    BY <2>1, <2>2 DEF SeenOnce
  <2>4. Unlocked(reader[r])'
    BY Places DEF Unlocked
  <2>5. SeenOnce(reader[r])'
    BY <2>1, <2>3 DEF SeenOnce
  <2> QED
    BY <2>1, <2>2, <2>4, <2>5
<1>2. reader' \in [Reader -> Transaction]
  BY <1>1 DEF Committed
<1>3. reset' \in 0..Len(Truncated)
  BY Places
<1> QED
  BY <1>1, <1>2, <1>3 DEF ViewInv, Unlocked, SeenOnce

LEMMA LockTableInv ==
    ASSUME ViewInv, LockTable
    PROVE  ViewInv'
<1>1. /\ reset \in 1..3 /\ reset' = reset + 1 /\ reader' = reader
      /\ \A r \in Reader : Truncated[reset] \notin reader[r].locked
  BY Places DEF LockTable, Free, Holds
<1>2. \A r \in Reader : Unlocked(reader[r])'
  BY <1>1, Places DEF ViewInv, Unlocked
<1> QED
  BY <1>1, <1>2, Places DEF ViewInv, SeenOnce

(* The reset has every table, so no reader has seen any.                     *)
LEMMA TruncateInv ==
    ASSUME ViewInv, Truncate
    PROVE  ViewInv'
<1>1. reset = 4 /\ reset' = 0 /\ Committed("reset")
  BY Places DEF Truncate
<1>2. ASSUME NEW r \in Reader PROVE reader[r].locked = {}
  <2>1. \A p \in 1..4 : Truncated[p] \notin reader[r].locked
    <3>1. Truncated[4] \notin reader[r].locked
      BY <1>1, Places DEF Truncate, Free, Holds
    <3> QED
      BY <1>1, <3>1, Places DEF ViewInv, Unlocked
  <2>2. reader[r].locked \subseteq Tables
    BY DEF ViewInv, Transaction
  <2> QED
    BY <2>1, <2>2, Places
<1> QED
  BY <1>1, <1>2, CommittedInv

LEMMA DeadlockInv ==
    ASSUME ViewInv, NEW r \in Reader, Deadlock(r)
    PROVE  ViewInv'
<1>1. CASE reset' = 0 /\ UNCHANGED reader
  BY <1>1, Places DEF ViewInv, Unlocked, SeenOnce
<1>2. CASE reader' = [reader EXCEPT ![r] = NotReading] /\ UNCHANGED reset
  BY <1>2, NotReadingIsFine, OneReader
<1> QED
  BY <1>1, <1>2 DEF Deadlock

LEMMA ViewStepInv == ViewInv /\ [TablesNext]_tvars => ViewInv'
<1> SUFFICES ASSUME ViewInv, [TablesNext]_tvars PROVE ViewInv'
  OBVIOUS
<1>1. CASE UNCHANGED <<reset, reader>>
  BY <1>1 DEF ViewInv, Unlocked, SeenOnce
<1>2. CASE BeginReset
  BY <1>2, Places DEF BeginReset, ViewInv, Unlocked, SeenOnce
<1>3. ASSUME NEW q \in DOMAIN commands, Process(q) PROVE ViewInv'
  BY <1>3, CommittedInv DEF Process
<1>4. ASSUME NEW r \in Reader,
             BeginRead(r) \/ Read(r) \/ EndRead(r) \/ Deadlock(r)
      PROVE  ViewInv'
  BY <1>4, BeginReadInv, ReadInv, EndReadInv, DeadlockInv
<1> QED
  BY <1>1, <1>2, <1>3, <1>4, LockTableInv, TruncateInv
  DEF TablesNext, Serve, Arrive, ResetStep, tvars

(* Every view is of one moment, from its first table to its last: the reset    *)
(* cannot come between the statements of a reader, and what else commits is   *)
(* not seen by it.                                                          *)
THEOREM TablesViewIsWhole == TablesSpec => []ViewIsWhole
<1>1. TablesInit => ViewInv
  BY NotReadingIsFine, Places DEF TablesInit, ViewInv, Unlocked
<1>2. ViewInv => ViewIsWhole
  <2> SUFFICES ASSUME ViewInv, NEW r \in Reader PROVE Cardinality(reader[r].seen) <= 1
    BY DEF ViewIsWhole
  <2>1. \E what : reader[r].seen \subseteq {what}
    BY DEF ViewInv, SeenOnce
  <2>2. PICK what : reader[r].seen = {} \/ reader[r].seen = {what}
    BY <2>1
  <2>3. Cardinality({}) = 0 /\ Cardinality({what}) = 1
    BY FS_EmptySet, FS_Singleton
  <2> QED
    BY <2>2, <2>3
<1> QED
  BY <1>1, <1>2, ViewStepInv, PTL DEF TablesSpec

LEMMA TablesStepsAreJournalSteps ==
    ASSUME Postgres, [TablesNext]_tvars
    PROVE  [Next]_jvars
<1>1. ASSUME NEW s \in Session, Serve(s) \/ Arrive(s) PROVE Next
  BY <1>1 DEF Serve, Arrive, Next
<1>2. ASSUME NEW q \in DOMAIN commands, Process(q) PROVE Next
  BY <1>2 DEF Process, Next
<1>3. CASE \/ LockTable \/ BeginReset
           \/ \E r \in Reader : BeginRead(r) \/ Read(r) \/ EndRead(r) \/ Deadlock(r)
  BY <1>3 DEF LockTable, BeginReset, BeginRead, Read, EndRead, Deadlock
<1>4. CASE Truncate
  <2>1. Truncated[Len(Truncated)] = "market_commands"
    BY DEF Truncated
  <2>2. \A s \in Session : phase[s] \notin Touching
    BY <1>4, <2>1 DEF Truncate, Free
  <2>3. Reset
    BY <1>4, <2>2 DEF Truncate, Reset
  <2> QED
    BY <2>3 DEF Next
<1>5. CASE UNCHANGED tvars
  BY <1>5 DEF tvars, jvars
<1> QED
  BY <1>1, <1>2, <1>3, <1>4, <1>5 DEF TablesNext, ResetStep

(* Lock by lock, the reset is to the accepting sessions the one step that      *)
(* CommandJournal takes it for.                                              *)
THEOREM TablesImplementCommandJournal ==
    ASSUME Postgres
    PROVE  TablesSpec => ImplementsCommandJournal
<1>1. TablesInit => Init
  BY DEF TablesInit
<1>2. [TablesNext]_tvars => [Next]_jvars
  BY TablesStepsAreJournalSteps
<1> QED
  BY <1>1, <1>2, PTL DEF TablesSpec, ImplementsCommandJournal, Spec
=============================================================================
