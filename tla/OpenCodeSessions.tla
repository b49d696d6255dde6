---------------------------- MODULE OpenCodeSessions ----------------------------
(***************************************************************************)
(* Who talks to which OpenCode session of one project directory            *)
(* (prompt.service.ts over opencode-client.ts).  The client remembers one  *)
(* selected session per directory, for every admin, the queue, the slash   *)
(* commands and the kanban runner alike; a caller that finds it busy       *)
(* aborts it and rotates to a new one.                                     *)
(*                                                                         *)
(* The queue dispatches one prompt at a time; slash commands do not go     *)
(* through it.  What lies between two requests to OpenCode is one action,  *)
(* and so is a request with the code that runs when it returns.            *)
(***************************************************************************)
EXTENDS Naturals, FiniteSets

CONSTANTS
    MaxSessions,  \* bound: sessions of the directory
    MaxSessionCalls      \* bound: prompts, and slash commands

ASSUME SessionBounds == {MaxSessions, MaxSessionCalls} \subseteq Nat

Sessions == 1 .. MaxSessions
NoSession == 0
Callers == {"queue", "command"}

Run == [session : Sessions, caller : Callers \cup {"runner"}, call : 0 .. MaxSessionCalls]

(* A call: where it stands, its session, its number, how the last one ended. *)
Call == [at : {"idle", "checking", "aborting", "creating", "posting", "waiting", "settling"},
         session : Sessions \cup {NoSession}, call : 0 .. MaxSessionCalls,
         outcome : {"none", "done", "partial", "failed"}]

VARIABLES
    agent,   \* OpenCode: its sessions, and the runs that keep them busy
    client,  \* the backend: the selected session, the routes to Telegram
    calls,   \* the prompt and the slash command under way
    repair   \* the /repair under way: sessions still to abort, and aborted

conversation == <<agent, client, calls, repair>>

SessionsInit ==
    /\ agent = [made |-> 0, runs |-> {}]
    /\ client = [selected |-> NoSession, routes |-> {}]
    /\ calls = [c \in Callers |->
                   [at |-> "idle", session |-> NoSession, call |-> 0, outcome |-> "none"]]
    /\ repair = [on |-> FALSE, left |-> {}, aborted |-> {}]

-----------------------------------------------------------------------------
(* OpenCode *)

Busy(s) == \E r \in agent.runs : r.session = s

Without(s) == {r \in agent.runs : r.session # s}

(* POST /session *)
Make == /\ agent.made < MaxSessions
        /\ agent' = [agent EXCEPT !.made = @ + 1]

RunEnds ==
    /\ \E r \in agent.runs : agent' = [agent EXCEPT !.runs = @ \ {r}]
    /\ UNCHANGED <<client, calls, repair>>

-----------------------------------------------------------------------------
(* A prompt of the queue, or a slash command: ensureSession *)

CallGoes(c, at) == calls' = [calls EXCEPT ![c].at = at]

CallEnds(c, outcome) == calls' = [calls EXCEPT ![c].at = "idle", ![c].outcome = outcome]

(* createSession and selectSession: the directory's session is s. *)
Selected(s) == client' = [selected |-> s, routes |-> client.routes \cup {s}]

CallBegins(c) ==
    /\ calls[c].at = "idle" /\ calls[c].call < MaxSessionCalls
    /\ calls' = [calls EXCEPT ![c] =
           [at |-> IF client.selected = NoSession THEN "creating" ELSE "checking",
            session |-> client.selected, call |-> @.call + 1, outcome |-> "none"]]
    /\ UNCHANGED <<agent, client, repair>>

(* onSessionResolved binds the route before the session is prompted. *)
BusyChecked(c) ==
    /\ calls[c].at = "checking"
    /\ IF Busy(calls[c].session)
       THEN CallGoes(c, "aborting") /\ UNCHANGED client
       ELSE /\ CallGoes(c, "posting")
            /\ client' = [client EXCEPT !.routes = @ \cup {calls[c].session}]
    /\ UNCHANGED <<agent, repair>>

(* The mapping is deleted whatever it is by now. *)
BusyAborted(c) ==
    /\ calls[c].at = "aborting"
    /\ agent' = [agent EXCEPT !.runs = Without(calls[c].session)]
    /\ client' = [client EXCEPT !.selected = NoSession]
    /\ CallGoes(c, "creating")
    /\ UNCHANGED repair

SessionMade(c) ==
    /\ calls[c].at = "creating"
    /\ Make
    /\ Selected(agent'.made)
    /\ calls' = [calls EXCEPT ![c].at = "posting", ![c].session = agent'.made]
    /\ UNCHANGED repair

RequestFails(c) ==
    /\ calls[c].at \in {"checking", "aborting", "creating"}
    /\ CallEnds(c, "failed")
    /\ UNCHANGED <<agent, client, repair>>

-----------------------------------------------------------------------------
(* The message request and its ends *)

Posted(c) ==
    /\ calls[c].at = "posting"
    /\ agent' = [agent EXCEPT !.runs =
           @ \cup {[session |-> calls[c].session, caller |-> c, call |-> calls[c].call]}]
    /\ CallGoes(c, "waiting")
    /\ UNCHANGED <<client, repair>>

Runs(c) == \E r \in agent.runs : r.caller = c /\ r.call = calls[c].call

(* The HTTP answer of a run that ended or was aborted. *)
Answered(c) ==
    /\ calls[c].at = "waiting" /\ ~Runs(c)
    /\ \E outcome \in {"done", "failed"} : CallEnds(c, outcome)
    /\ UNCHANGED <<agent, client, repair>>

(* An empty body: a queued prompt is content with the event stream. *)
EmptyAnswer(c) ==
    /\ calls[c].at = "waiting"
    /\ CallEnds(c, IF c = "queue" THEN "partial" ELSE "failed")
    /\ UNCHANGED <<agent, client, repair>>

(* The connection breaks before or after OpenCode has the message. *)
FetchFails(c) ==
    /\ calls[c].at \in {"posting", "waiting"}
    /\ IF c = "queue" THEN CallGoes(c, "settling") ELSE CallEnds(c, "failed")
    /\ UNCHANGED <<agent, client, repair>>

(* Faulty variant: the directory's session is polled. *)
SettledElsewhere(c) == ~Busy(client.selected)

(* waitForSessionToSettle polls the session the prompt was sent to. *)
Settled(c) == ~Busy(calls[c].session)

RunSettles(c) ==
    /\ calls[c].at = "settling" /\ Settled(c)
    /\ CallEnds(c, "done")
    /\ UNCHANGED <<agent, client, repair>>

SettleTimesOut(c) ==
    /\ calls[c].at = "settling"
    /\ CallEnds(c, "failed")
    /\ UNCHANGED <<agent, client, repair>>

-----------------------------------------------------------------------------
(* What the admin and the runner do meanwhile *)

StartNewSession ==
    /\ Make
    /\ Selected(agent'.made)
    /\ UNCHANGED <<calls, repair>>

SelectSession ==
    /\ \E s \in 1 .. agent.made : Selected(s)
    /\ UNCHANGED <<agent, calls, repair>>

StopActiveSession ==
    /\ client.selected # NoSession
    /\ agent' = [agent EXCEPT !.runs = Without(client.selected)]
    /\ UNCHANGED <<client, calls, repair>>

(* repairStuckSessions reads the statuses once: the busy sessions whose    *)
(* last sign of life is old, or carries no time.                           *)
RepairBegins ==
    /\ ~repair.on
    /\ \E stale \in SUBSET {s \in Sessions : Busy(s)} :
           repair' = [on |-> TRUE, left |-> stale, aborted |-> {}]
    /\ UNCHANGED <<agent, client, calls>>

RepairAborts ==
    /\ \E s \in repair.left :
           /\ agent' = [agent EXCEPT !.runs = Without(s)]
           /\ repair' = [repair EXCEPT !.left = @ \ {s}, !.aborted = @ \cup {s}]
    /\ UNCHANGED <<client, calls>>

RepairEnds ==
    /\ repair.on /\ repair.left = {}
    /\ repair' = [repair EXCEPT !.on = FALSE, !.aborted = {}]
    /\ client' = [client EXCEPT !.selected = IF @ \in repair.aborted THEN NoSession ELSE @]
    /\ UNCHANGED <<agent, calls>>

(* The kanban runner opens a session, makes it the selected one, binds its *)
(* route and works there.                                                  *)
RunnerTakesSession ==
    /\ agent.made < MaxSessions
    /\ agent' = [made |-> agent.made + 1,
                 runs |-> agent.runs \cup {[session |-> agent.made + 1, caller |-> "runner",
                                            call |-> 0]}]
    /\ Selected(agent'.made)
    /\ UNCHANGED <<calls, repair>>

SessionsNext ==
    \/ RunEnds \/ StartNewSession \/ SelectSession \/ StopActiveSession
    \/ RepairBegins \/ RepairAborts \/ RepairEnds \/ RunnerTakesSession
    \/ \E c \in Callers :
           \/ CallBegins(c) \/ BusyChecked(c) \/ BusyAborted(c) \/ SessionMade(c)
           \/ RequestFails(c) \/ Posted(c) \/ Answered(c) \/ EmptyAnswer(c)
           \/ FetchFails(c) \/ RunSettles(c) \/ SettleTimesOut(c)

SessionsSpec == SessionsInit /\ [][SessionsNext]_conversation

-----------------------------------------------------------------------------
(* Properties *)

(* Runs are in sessions OpenCode has made; so is the selected one, and it  *)
(* has a route to Telegram.                                                *)
SessionsTypeOK ==
    /\ agent.made \in 0 .. MaxSessions /\ agent.runs \subseteq Run
    /\ calls \in [Callers -> Call]
    /\ repair.left \cup repair.aborted \subseteq 1 .. agent.made
    /\ client.selected = NoSession \/ client.selected \in client.routes

(* A prompt that is reported as done has no run left in OpenCode, whether  *)
(* HTTP answered or the connection broke and the session was seen to       *)
(* settle, and whatever /new, /sessions and the runner select meanwhile:   *)
(* the next prompt of the queue does not abort the one before              *)
(* (prompt.service.ts:224, opencode-client.ts:630).                        *)
DoneIsOver == \A c \in Callers : calls[c].outcome = "done" => ~Runs(c)

=============================================================================
