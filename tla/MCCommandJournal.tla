-------------------------- MODULE MCCommandJournal --------------------------
(* Acceptance on either dialect: Postgres is TRUE, and SQLite is the instance  *)
(* of CommandJournal where it is FALSE.                                      *)
EXTENDS CommandJournal, TLC

CONSTANTS s1, s2, k1, k2, buy, sell

TwoSessions == {s1, s2}
TwoKeys == {k1, k2}
TwoRequests == {buy, sell}
Symmetric == Permutations(TwoSessions) \cup Permutations(TwoKeys)
                 \cup Permutations(TwoRequests)

VARIABLE postgres  \* the dialect; it never changes

SQLite == INSTANCE CommandJournal WITH Postgres <- FALSE

EitherInit == Init /\ postgres \in BOOLEAN

EitherNext ==
    \/ postgres /\ Next /\ UNCHANGED postgres
    \/ ~postgres /\ SQLite!Next /\ UNCHANGED postgres

EitherSpec == EitherInit /\ [][EitherNext]_<<jvars, postgres>>
=============================================================================
