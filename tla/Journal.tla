------------------------------- MODULE Journal -------------------------------
(***************************************************************************)
(* What the command journal promises the rest of the system: accepted        *)
(* commands appear one at a time, each with a sequence above every sequence  *)
(* ever shown, at most one for an idempotency key; a command is finished     *)
(* once; the maintenance job may erase everything, but sequences go on.      *)
(***************************************************************************)
EXTENDS Naturals

CONSTANTS
    Key,         \* idempotency keys
    Request,     \* what a caller asks for, the server's order id left out
    MaxSequence  \* bound on the sequences of market_commands

VARIABLES
    commands,  \* market_commands: sequence |-> [key, request, status]
    last       \* the highest sequence shown or given up

journalVars == <<commands, last>>

Finished == {"completed", "rejected"}

NoCommands == [s \in {} |-> 0]

WithCommand(cs, s, command) ==
    [t \in DOMAIN cs \cup {s} |-> IF t = s THEN command ELSE cs[t]]

Queued(key, request) == [key |-> key, request |-> request, status |-> "queued"]

HasKey(cs, key) == \E s \in DOMAIN cs : cs[s].key = key

Init == commands = NoCommands /\ last = 0

Accept(key, request, s) ==
    /\ ~HasKey(commands, key)
    /\ s > last
    /\ commands' = WithCommand(commands, s, Queued(key, request))
    /\ last' = s

(* A sequence is given up: its insert was rolled back.                      *)
Skip(s) ==
    /\ s > last
    /\ last' = s
    /\ UNCHANGED commands

Finish(s, status) ==
    /\ s \in DOMAIN commands
    /\ commands[s].status = "queued"
    /\ commands' = [commands EXCEPT ![s].status = status]
    /\ UNCHANGED last

Erase ==
    /\ commands' = NoCommands
    /\ UNCHANGED last

Next ==
    \/ \E key \in Key, request \in Request, s \in 1..MaxSequence :
          Accept(key, request, s)
    \/ \E s \in DOMAIN commands, status \in Finished : Finish(s, status)
    \/ \E s \in 1..MaxSequence : Skip(s)
    \/ Erase

Spec == Init /\ [][Next]_journalVars
=============================================================================
