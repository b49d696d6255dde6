-------------------------------- MODULE Approvals --------------------------------
(***************************************************************************)
(* Questions and permission requests of OpenCode, answered with the        *)
(* buttons of Telegram messages (runtime-interactions, the routing store,  *)
(* telegram.controller.ts, the bot's opencode-callbacks.ts).               *)
(*                                                                         *)
(* A question has one step per question it asks; a permission has one.     *)
(* The backend keeps the answers of earlier steps in memory and sends all  *)
(* of them with the last.  A press of a button travels as a callback that  *)
(* names its step; the backend may see it long after the message changed.  *)
(***************************************************************************)
EXTENDS Naturals, Sequences, FiniteSets

CONSTANTS
    Questions,    \* bound: question requests
    Permissions,  \* bound: permission requests
    Steps,        \* steps of a question
    MaxPresses,   \* bound: presses of buttons
    MaxRestarts   \* bound: backend restarts

ASSUME ApprovalBounds ==
    /\ Steps \in Nat \ {0} /\ {MaxPresses, MaxRestarts} \subseteq Nat
    /\ Questions \cap Permissions = {}

Requests == Questions \cup Permissions
Options == {"yes", "no"}
LastOf(r) == IF r \in Questions THEN Steps ELSE 1

Press == [request : Requests, step : 1 .. Steps, option : Options, press : 1 .. MaxPresses]

NoAnswer == [step |-> 0, option |-> "none"]
NoRoute == [bound |-> FALSE, step |-> 1, answers |-> [i \in 1 .. Steps |-> NoAnswer]]

VARIABLES
    asked,    \* per request: OpenCode's state and the answers it was given, and
              \* how often its event was heard
    route,    \* per request, the routing store's entry
    chat,     \* buttons of the chat, and presses not handled yet
    replies,  \* final replies of the controller under way
    rounds    \* presses and restarts so far

approval == <<asked, route, chat, replies, rounds>>

ApprovalsInit ==
    /\ asked = [r \in Requests |-> [state |-> "none", given |-> <<>>, heard |-> 0]]
    /\ route = [r \in Requests |-> NoRoute]
    /\ chat = [buttons |-> {}, presses |-> {}]
    /\ replies = {}
    /\ rounds = [presses |-> 0, restarts |-> 0]

-----------------------------------------------------------------------------
(* OpenCode asks *)

Asks(r) ==
    /\ asked[r].state = "none"
    /\ asked' = [asked EXCEPT ![r].state = "pending"]
    /\ UNCHANGED <<route, chat, replies, rounds>>

(* The turn is aborted: its requests are gone. *)
Withdraws(r) ==
    /\ asked[r].state = "pending"
    /\ asked' = [asked EXCEPT ![r].state = "gone"]
    /\ UNCHANGED <<route, chat, replies, rounds>>

(* A permission's event is heard by the directory's stream and by the      *)
(* watcher of its session.  It may come late, or be lost.                  *)
Announced(r) ==
    /\ asked[r].state # "none" /\ asked[r].heard < (IF r \in Questions THEN 1 ELSE 2)
    /\ asked' = [asked EXCEPT ![r].heard = @ + 1]

(* handleQuestionAsked, handlePermissionUpdated: the request is bound from *)
(* its first step and its bubble rewritten.                                *)
Heard(r) ==
    /\ Announced(r)
    /\ route' = [route EXCEPT ![r] = [NoRoute EXCEPT !.bound = TRUE]]
    /\ chat' = [chat EXCEPT !.buttons =
           {b \in @ : b.request # r} \cup {[request |-> r, step |-> 1]}]
    /\ UNCHANGED <<replies, rounds>>

(* A question without options has no button, and no route. *)
HeardFreeText(r) ==
    /\ r \in Questions /\ Announced(r)
    /\ UNCHANGED <<route, chat, replies, rounds>>

-----------------------------------------------------------------------------
(* The admin presses *)

Pressed ==
    /\ rounds.presses < MaxPresses
    /\ \E b \in chat.buttons, o \in Options :
           chat' = [chat EXCEPT !.presses = @ \cup
               {[request |-> b.request, step |-> b.step, option |-> o, press |-> rounds.presses + 1]}]
    /\ rounds' = [rounds EXCEPT !.presses = @ + 1]
    /\ UNCHANGED <<asked, route, replies>>

(* Faulty variant: an outdated step is not noticed. *)
AcceptedOutdated(p) == route[p.request].bound

(* What replyQuestion and replyPermission let pass. *)
Accepted(p) == route[p.request].bound /\ route[p.request].step = p.step

(* Every other press is answered with an error and changes nothing. *)
Refused(p) ==
    /\ ~Accepted(p)
    /\ chat' = [chat EXCEPT !.presses = @ \ {p}]
    /\ UNCHANGED <<asked, route, replies, rounds>>

AnswersWith(p) ==
    [route[p.request].answers EXCEPT ![route[p.request].step] = [step |-> p.step, option |-> p.option]]

(* What the bot makes of the bubble: edits it, sends the next step as a    *)
(* message of its own when the edit fails, or stops before either.         *)
Moved(p, next) ==
    \E buttons \in {(chat.buttons \ {[request |-> p.request, step |-> p.step]}) \cup next,
                    chat.buttons \cup next, chat.buttons} :
        chat' = [presses |-> chat.presses \ {p}, buttons |-> buttons]

(* advanceQuestion: a step that is not the last stays in memory. *)
Advanced(p) ==
    /\ Accepted(p) /\ route[p.request].step < LastOf(p.request)
    /\ p.step = route[p.request].step
    /\ route' = [route EXCEPT ![p.request].answers = AnswersWith(p), ![p.request].step = @ + 1]
    /\ Moved(p, {[request |-> p.request, step |-> p.step + 1]})
    /\ UNCHANGED <<asked, replies, rounds>>

(* The last step: the answers are fixed, then OpenCode is asked for its    *)
(* questions; a permission is replied to at once.                          *)
Completed(p) ==
    /\ Accepted(p) /\ route[p.request].step = LastOf(p.request)
    /\ replies' = replies \cup {[press |-> p, answers |-> AnswersWith(p),
                                 at |-> IF p.request \in Questions THEN "listing" ELSE "replying"]}
    /\ chat' = [chat EXCEPT !.presses = @ \ {p}]
    /\ UNCHANGED <<asked, route, rounds>>

(* listQuestions *)
Listed(y) ==
    /\ y.at = "listing"
    /\ IF asked[y.press.request].state = "pending"
       THEN replies' = (replies \ {y}) \cup {[y EXCEPT !.at = "replying"]} /\ UNCHANGED route
       ELSE replies' = replies \ {y} /\ route' = [route EXCEPT ![y.press.request] = NoRoute]
    /\ UNCHANGED <<asked, chat, rounds>>

(* OpenCode takes the first reply; a reply to what is gone is an error.    *)
Replied(y) ==
    /\ y.at = "replying"
    /\ LET r == y.press.request IN
       IF asked[r].state = "pending"
       THEN /\ asked' = [asked EXCEPT ![r].state = "answered",
                                          ![r].given = SubSeq(y.answers, 1, LastOf(r))]
            /\ replies' = (replies \ {y}) \cup {[y EXCEPT !.at = "consuming"]}
       ELSE UNCHANGED asked /\ replies' = replies \ {y}
    /\ UNCHANGED <<route, chat, rounds>>

(* consumeQuestion, consumePermission; the bot clears the buttons. *)
Consumed(y) ==
    /\ y.at = "consuming"
    /\ replies' = replies \ {y}
    /\ route' = [route EXCEPT ![y.press.request] = NoRoute]
    /\ Moved(y.press, {})
    /\ UNCHANGED <<asked, rounds>>

(* A restart forgets the routes; the buttons stay in the chat. *)
BackendRestarts ==
    /\ rounds.restarts < MaxRestarts
    /\ rounds' = [rounds EXCEPT !.restarts = @ + 1]
    /\ route' = [r \in Requests |-> NoRoute] /\ replies' = {}
    /\ UNCHANGED <<asked, chat>>

(* prune: six hours without a press. *)
RouteExpires(r) ==
    /\ route[r].bound
    /\ route' = [route EXCEPT ![r] = NoRoute]
    /\ UNCHANGED <<asked, chat, replies, rounds>>

ApprovalsNext ==
    \/ \E r \in Requests : Asks(r) \/ Withdraws(r) \/ Heard(r) \/ HeardFreeText(r) \/ RouteExpires(r)
    \/ Pressed
    \/ \E p \in chat.presses : Refused(p) \/ Advanced(p) \/ Completed(p)
    \/ \E y \in replies : Listed(y) \/ Replied(y) \/ Consumed(y)
    \/ BackendRestarts

ApprovalsSpec == ApprovalsInit /\ [][ApprovalsNext]_approval

-----------------------------------------------------------------------------
(* Properties *)

(* Buttons and presses are of steps their requests have. *)
ApprovalsTypeOK ==
    /\ \A r \in Requests : route[r].step \in 1 .. LastOf(r)
    /\ chat.presses \subseteq Press
    /\ \A b \in chat.buttons : b.step \in 1 .. LastOf(b.request)
    /\ rounds.presses <= MaxPresses /\ rounds.restarts <= MaxRestarts

(* "an old button cannot answer a newer question step by accident": what   *)
(* OpenCode is given for a request answers every step, and each step with  *)
(* an option that was pressed on that step's own button, whatever buttons  *)
(* were left behind, pressed twice, or pressed while a reply was under way *)
(* (telegram.controller.ts:356).                                           *)
AnswersOfOwnStep ==
    \A r \in Requests : \A i \in DOMAIN asked[r].given : asked[r].given[i].step = i

=============================================================================
