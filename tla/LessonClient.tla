----------------------------- MODULE LessonClient -----------------------------
(***************************************************************************)
(* The guided lesson of the page (lesson.ts, App.tsx, GuidedDemo.tsx): it     *)
(* places a practice buyer that should wait, a setup seller where the market  *)
(* has none, and one matching buyer, each under a key of its own, and must    *)
(* leave none of them behind, although answers are lost, requests are        *)
(* refused or arrive late, and other visitors fill an order while it is being *)
(* cancelled.                                                               *)
(*                                                                         *)
(* The API and the processor are reduced to what the page can tell: a key is  *)
(* accepted once (CommandJournal), its command is processed later, and its    *)
(* order may be filled at any time (MatchingEngine).                         *)
(***************************************************************************)
EXTENDS Integers, Sequences

CONSTANTS
    MaxKeys,    \* bound on the submissions of a page
    MaxFaults   \* bound on calls that fail

ASSUME LessonAssumption == MaxKeys \in Nat /\ MaxFaults \in Nat

Keys == 1..MaxKeys
Slots == {"practice", "setup", "match"}

VARIABLES
    orders,     \* the order and the cancellation of each key, at the server
    late,       \* calls whose caller has given up and that may still arrive
    page,       \* what the page remembers
    todo,       \* what is left of the action that is running
    cancelling, \* has an order of the form a cancellation without an outcome?
    faults      \* faults so far

lvars == <<orders, late, page, todo, cancelling, faults>>

(* A LessonSubmission with its PracticeOffer, or nothing where key is 0;      *)
(* cancelled: the command of its cancellation is known.                      *)
Nothing == [key |-> 0, receipt |-> FALSE, ambiguous |-> FALSE,
            rejected |-> FALSE, cancelled |-> FALSE]

(* checked tells what practice.order is.                                    *)
NewLesson == [slot |-> [s \in Slots |-> Nothing], checked |-> "unread",
              stage |-> 0, result |-> FALSE, keys |-> 0]

Held(s) == page.slot[s].key # 0

Init ==
    /\ orders = [k \in Keys |-> [order |-> "none", cancel |-> "none"]]
    /\ late = {}
    /\ page = NewLesson
    /\ todo = <<>>
    /\ cancelling = FALSE
    /\ faults = 0

-----------------------------------------------------------------------------
(* The server *)

(* What the API does with a call; a key it knows changes nothing.             *)
Accepted(call) ==
    LET o == orders[call.key]
    IN  [orders EXCEPT ![call.key] =
            IF call.to = "place" /\ o.order = "none" THEN [o EXCEPT !.order = "queued"]
            ELSE IF call.to = "cancel" /\ o.cancel = "none" THEN [o EXCEPT !.cancel = "queued"]
            ELSE o]

ArriveLate ==
    \E call \in late :
        /\ orders' = Accepted(call)
        /\ late' = late \ {call}
        /\ UNCHANGED <<page, todo, cancelling, faults>>

ProcessOrder(k) ==
    /\ orders[k].order = "queued"
    /\ \E outcome \in {"open", "filled", "rejected"} :
          orders' = [orders EXCEPT ![k].order = outcome]
    /\ UNCHANGED <<late, page, todo, cancelling, faults>>

(* Done is completed or rejected: an order that is not open any more is        *)
(* unknown to the engine.                                                   *)
ProcessCancel(k) ==
    /\ orders[k].cancel = "queued" /\ orders[k].order # "queued"
    /\ orders' = [orders EXCEPT ![k] =
                    [order |-> IF @.order = "open" THEN "cancelled" ELSE @.order,
                     cancel |-> "done"]]
    /\ UNCHANGED <<late, page, todo, cancelling, faults>>

(* Another visitor trades with an open order, or the matching buyer, which the *)
(* order form shows as the latest order, is cancelled by a call from there.   *)
OthersAct(k) ==
    /\ orders[k].order = "open"
    /\ \E outcome \in {"filled"} \cup (IF k = page.slot["match"].key THEN {"cancelled"} ELSE {}) :
          orders' = [orders EXCEPT ![k].order = outcome]
    /\ UNCHANGED <<late, page, todo, cancelling, faults>>

-----------------------------------------------------------------------------
(* Calls of the page *)

Fault ==
    /\ faults < MaxFaults
    /\ faults' = faults + 1

WithSlot(s, slot) == [page EXCEPT !.slot[s] = slot]

(* The lesson tells of the failure and is idle again.                        *)
Abandon == todo' = <<>>

Done == todo' = Tail(todo)

(* A POST or DELETE is answered (an earlier copy that arrives later finds its  *)
(* key known), refused for certain, or nobody knows: then it has arrived, is  *)
(* lost, or is still on its way.                                             *)
Send(call, answered, refused, unclear) ==
    \/ /\ orders' = Accepted(call)
       /\ page' = answered
       /\ late' = late \ {call}
       /\ Done
       /\ UNCHANGED faults
    \/ /\ Fault /\ Abandon
       /\ page' = refused
       /\ UNCHANGED <<orders, late>>
    \/ /\ Fault /\ Abandon
       /\ page' = unclear
       /\ \/ orders' = Accepted(call) /\ UNCHANGED late
          \/ late' \in {late, late \cup {call}} /\ UNCHANGED orders

(* Mutant of Refused: it counts although an earlier answer was lost.          *)
RefusedForCertain(slot) == [slot EXCEPT !.rejected = TRUE, !.ambiguous = FALSE]

Refused(slot) == [slot EXCEPT !.rejected = ~slot.ambiguous]

Unclear(slot) == [slot EXCEPT !.ambiguous = TRUE, !.rejected = FALSE]
Receipt(slot) == [slot EXCEPT !.receipt = TRUE, !.rejected = FALSE]

(* submitLessonOrder: once there is a receipt, nothing is sent again.         *)
Submit(s) ==
    LET slot == page.slot[s]
    IN  IF slot.receipt
        THEN Done /\ UNCHANGED <<orders, late, page, faults>>
        ELSE Send([to |-> "place", key |-> slot.key], WithSlot(s, Receipt(slot)),
                  WithSlot(s, Refused(slot)), WithSlot(s, Unclear(slot)))

(* A read of the server that leads to the page's next state, or fails: the     *)
(* call is lost, or what is polled for is not there in time.                  *)
Read(ready, next, then) ==
    /\ UNCHANGED <<orders, late>>
    /\ \/ ready /\ page' = next /\ todo' = then /\ UNCHANGED faults
       \/ ~ready /\ Abandon /\ UNCHANGED <<page, faults>>
       \/ Fault /\ Abandon /\ UNCHANGED page

Order(s) == orders[page.slot[s].key].order

(* Mutant of Known: an order whose command was rejected is looked for.        *)
KnownIfStored(s) == page.slot[s].receipt /\ Order(s) \notin {"none", "queued", "rejected"}

(* readPracticeOffer has an answer: the command is not queued any more.        *)
Known(s) == page.slot[s].receipt /\ Order(s) \notin {"none", "queued"}

(* The page after it: an offer that was rejected is forgotten.                *)
Recorded(s) ==
    IF s # "practice" THEN page
    ELSE IF Order(s) = "rejected"
    THEN [WithSlot(s, Nothing) EXCEPT !.checked = "unread", !.stage = IF @ = 1 THEN 0 ELSE @]
    ELSE [page EXCEPT !.checked = IF Order(s) = "open" THEN "open" ELSE "closed"]

Check == Read(Known("practice"), Recorded("practice"), <<>>)

(* clearPracticeOffer reads the order, and has done unless it is open.        *)
Clear(s) ==
    Read(Known(s),
         IF Order(s) = "open" THEN page ELSE Recorded(s),
         IF Order(s) = "open"
         THEN <<<<"cancel", s>>, <<"confirm", s>>>> \o Tail(todo) ELSE Tail(todo))

(* Its cancellation is asked for under one key, and once it is answered, no    *)
(* more.                                                                    *)
Cancel(s) ==
    LET slot == page.slot[s]
    IN  IF slot.cancelled
        THEN Done /\ UNCHANGED <<orders, late, page, faults>>
        ELSE Send([to |-> "cancel", key |-> slot.key],
                  WithSlot(s, [slot EXCEPT !.cancelled = TRUE]), page, page)

(* Mutant of Confirmed: that the cancellation was accepted is enough.         *)
ConfirmedOnceAccepted(k) == TRUE

(* The cancellation has been processed, and the order is not open, be it that  *)
(* a fill came first.                                                       *)
Confirmed(k) == orders[k].cancel # "queued" /\ orders[k].order # "open"

Confirm(s) == Read(Confirmed(page.slot[s].key), Recorded(s), Tail(todo))

(* A submission is remembered with its key before it is sent.                *)
Remembered(s) ==
    [page EXCEPT !.slot[s] = [Nothing EXCEPT !.key = page.keys + 1], !.keys = @ + 1]

(* The rest of runGuidedDemo once there is a matching buyer.                  *)
Match ==
    <<<<"submit", "match">>, <<"verify", "match">>>>
    \o (IF Held("setup") THEN <<<<"clear", "setup">>>> ELSE <<>>)
    \o <<<<"succeed", "match">>>>

(* The market is read: the quote has changed, there is no seller, or the       *)
(* matching buyer is prepared.                                               *)
Look ==
    /\ UNCHANGED <<orders, late, faults>>
    /\ \/ Abandon /\ UNCHANGED page
       \/ /\ ~Held("setup") /\ page.keys < MaxKeys
          /\ page' = Remembered("setup")
          /\ todo' = <<<<"submit", "setup">>, <<"ready", "setup">>, <<"look", "match">>>>
       \/ /\ page.keys < MaxKeys
          /\ page' = Remembered("match")
          /\ todo' = Match

(* The setup seller has not been rejected.                                  *)
Ready == Read(Known("setup") /\ Order("setup") # "rejected", page, Tail(todo))

(* The buyer's trade is found, in REST and on the stream.                     *)
Verify ==
    \/ Read(Order("match") = "filled", page, Tail(todo))
    \/ Abandon /\ UNCHANGED <<orders, late, page, faults>>

Succeed ==
    /\ page' = [page EXCEPT !.result = TRUE]
    /\ Done
    /\ UNCHANGED <<orders, late, faults>>

Forget == page' = [NewLesson EXCEPT !.keys = page.keys]

Over ==
    /\ Forget
    /\ Done
    /\ UNCHANGED <<orders, late, faults>>

Step ==
    /\ todo # <<>> /\ UNCHANGED cancelling
    /\ LET do == todo[1][1]
           s == todo[1][2]
       IN  \/ do = "submit" /\ Submit(s)
           \/ do = "check" /\ Check
           \/ do = "clear" /\ Clear(s)
           \/ do = "cancel" /\ Cancel(s)
           \/ do = "confirm" /\ Confirm(s)
           \/ do = "look" /\ Look
           \/ do = "ready" /\ Ready
           \/ do = "verify" /\ Verify
           \/ do = "succeed" /\ Succeed
           \/ do = "over" /\ Over

-----------------------------------------------------------------------------
(* What the visitor can press *)

Press(next, tasks) ==
    /\ todo = <<>>
    /\ page' = next /\ todo' = tasks
    /\ UNCHANGED <<orders, late, cancelling, faults>>

(* withLessonAction and runGuidedDemo return at once while a cancellation of   *)
(* the order form has no outcome yet.                                       *)
Start(next, tasks) == ~cancelling /\ Press(next, tasks)

Checking == <<<<"submit", "practice">>, <<"check", "practice">>>>

PlaceLowerOffer ==
    /\ page.stage = 0 /\ ~Held("practice") /\ page.keys < MaxKeys
    /\ Start([Remembered("practice") EXCEPT !.stage = 1], Checking)

CheckOffer ==
    /\ page.stage = 1 /\ Held("practice")
    /\ Start(page, Checking)

(* Mutant of Ending: a submission that was refused is sent again.             *)
EndingSendsAgain(s) ==
    IF Held(s) THEN <<<<"submit", s>>, <<"clear", s>>>> ELSE <<>>

(* endLessonSubmission                                                      *)
Ending(s) ==
    IF Held(s) /\ ~(page.slot[s].rejected /\ ~page.slot[s].ambiguous)
    THEN <<<<"submit", s>>, <<"clear", s>>>> ELSE <<>>

MayBeOpen == Held("practice") /\ page.checked \in {"unread", "open"}

CancelOffer ==
    /\ page.stage = 1 /\ MayBeOpen
    /\ Start(IF Ending("practice") = <<>>
             THEN [WithSlot("practice", Nothing) EXCEPT !.stage = 0] ELSE page,
             Ending("practice"))

(* Next, the review of the first offer, and "Continue to matching" where the   *)
(* seller is at the least price.                                            *)
Turn ==
    /\ \/ page.stage = 1 /\ page.checked # "unread"
       \/ page.stage = 2 /\ Held("practice")
       \/ page.stage = 0 /\ ~Held("practice")
    /\ Press([page EXCEPT !.stage = IF @ = 2 THEN 1 ELSE 2], <<>>)

RunGuidedDemo ==
    /\ page.stage = 2 /\ ~page.result
    /\ Start(page,
             IF Held("match") THEN Match
             ELSE (IF Held("practice") THEN <<<<"clear", "practice">>>> ELSE <<>>)
                  \o (IF Held("setup")
                      THEN <<<<"submit", "setup">>, <<"ready", "setup">>>> ELSE <<>>)
                  \o <<<<"look", "match">>>>)

EndLesson ==
    /\ ~page.result /\ \E s \in Slots : Held(s)
    /\ Start(page, Ending("practice") \o Ending("match") \o Ending("setup")
                   \o <<<<"over", "match">>>>)

(* A new lesson after the result, or another market where one can be chosen.  *)
Leave ==
    /\ \/ page.result
       \/ ~cancelling /\ ~MayBeOpen /\ ~Held("match") /\ ~Held("setup")
    /\ todo = <<>> /\ Forget
    /\ UNCHANGED <<orders, late, todo, cancelling, faults>>

(* handleCancel, for the matching buyer or an order of the visitor's own.     *)
CancelInForm ==
    /\ todo = <<>> /\ ~cancelling
    /\ cancelling' = TRUE
    /\ UNCHANGED <<orders, late, page, todo, faults>>

(* The stream tells its outcome, or that older ones are beyond the replay; or  *)
(* the call fails.                                                          *)
FormCancelTold ==
    /\ cancelling
    /\ cancelling' = FALSE
    /\ UNCHANGED <<orders, late, page, todo, faults>>

Server ==
    \/ ArriveLate
    \/ \E k \in Keys : ProcessOrder(k) \/ ProcessCancel(k) \/ OthersAct(k)

Visitor ==
    \/ PlaceLowerOffer \/ CheckOffer \/ CancelOffer \/ Turn
    \/ RunGuidedDemo \/ EndLesson \/ Leave \/ CancelInForm

Next == Server \/ Step \/ Visitor \/ FormCancelTold

Spec == Init /\ [][Next]_lvars

(* The processor and the page's calls go on, and a visitor who wants to end    *)
(* the lesson presses the button again.  Nothing is asked of the stream, which  *)
(* may never tell the outcome of a cancellation (MarketStream, OutcomesTold). *)
FairSpec ==
    /\ Spec
    /\ \A k \in Keys : WF_lvars(ProcessOrder(k)) /\ WF_lvars(ProcessCancel(k))
    /\ WF_lvars(Step)
    /\ SF_lvars(EndLesson)

-----------------------------------------------------------------------------
(* Properties *)

Status == {"none", "queued", "open", "filled", "cancelled", "rejected"}

(* Types, and what the page holds for received has been accepted.             *)
TypeOK ==
    /\ orders \in [Keys -> [order : Status, cancel : {"none", "queued", "done"}]]
    /\ late \subseteq [to : {"place", "cancel"}, key : Keys]
    /\ page.keys \in 0..MaxKeys /\ page.stage \in 0..2 /\ page.result \in BOOLEAN
    /\ page.checked \in {"unread", "open", "closed"}
    /\ \A s \in Slots : page.slot[s] \in
          [key : 0..page.keys, receipt : BOOLEAN, ambiguous : BOOLEAN,
           rejected : BOOLEAN, cancelled : BOOLEAN]
    /\ \A s \in Slots :
          /\ page.slot[s].receipt => Order(s) # "none"
          /\ page.slot[s].cancelled => orders[page.slot[s].key].cancel # "none"
    /\ cancelling \in BOOLEAN /\ faults \in 0..MaxFaults

(* The order of a key may trade, now or when a call arrives late.             *)
Live(k) ==
    \/ orders[k].order \in {"queued", "open"}
    \/ orders[k].order = "none" /\ [to |-> "place", key |-> k] \in late

(* Types; and the lesson leaves nothing behind: an order that may still trade  *)
(* is one that the page remembers and will cancel, until the result is shown   *)
(* and when the lesson is ended, left or started anew none is.  Whatever was   *)
(* lost, refused or delayed, and whichever of a fill and a cancellation came   *)
(* first.                                                                  *)
NothingLeftOpen ==
    /\ TypeOK
    /\ \A k \in Keys :
          Live(k) => ~page.result /\ \E s \in Slots : page.slot[s].key = k

(* "A replacement is never submitted while cancellation remains unconfirmed"   *)
(* (docs/demo.md:85): the practice buyer and the matching buyer never can      *)
(* trade at the same time.                                                  *)
OneBuyer ==
    ~\E k, l \in Keys : /\ k = page.slot["practice"].key /\ l = page.slot["match"].key
                        /\ Live(k) /\ Live(l)

(* "Ending must not retry it" (lesson.ts:79): while the lesson is being ended, *)
(* an order comes into being only where an earlier answer was lost.           *)
EndingCreatesNothing ==
    [][todo # <<>> /\ todo[Len(todo)][1] = "over" =>
          \A s \in Slots :
              Held(s) /\ Order(s) = "none" /\ orders'[page.slot[s].key].order # "none"
                  => page.slot[s].ambiguous]_lvars

(* A visitor who insists gets every lesson ended: no loss, refusal or race      *)
(* leaves the page with a submission it can neither use nor give up; unless a  *)
(* cancellation in the order form, which the lesson waits for, never gets its  *)
(* outcome.                                                                 *)
LessonEnds == []<>(\A s \in Slots : ~Held(s) \/ page.result) \/ <>[]cancelling
=============================================================================
