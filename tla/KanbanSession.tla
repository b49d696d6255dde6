------------------------------ MODULE KanbanSession ------------------------------
(***************************************************************************)
(* Session continuation (kanban-session-continuation.service.ts and        *)
(* .store.ts): when the final reply of a session that owns a task has been *)
(* delivered to Telegram, the session is told to go on with the task,      *)
(* unless somebody stopped it.                                             *)
(*                                                                         *)
(* The module joins the board with the prompt queue of one admin and one   *)
(* project, reduced to a lane of prompts, and with the session selected    *)
(* for the directory.  A step ends at an await of the service: the board   *)
(* is listed twice, once when a reply is captured and once when it has     *)
(* been delivered, and selectSession asks OpenCode.                        *)
(***************************************************************************)
EXTENDS KanbanBoard, Sequences

CONSTANTS
    MaxReplies,  \* bound: final replies handed to the outbox
    MaxPrompts,  \* bound: prompts waiting in the lane
    MaxRestarts, \* bound: restarts of the backend
    MaxWork,     \* bound: tasks created
    Parts        \* chunks of a final reply

ASSUME SessionBounds == {MaxReplies, MaxPrompts, MaxRestarts, MaxWork} \subseteq Nat

Replies == 1 .. MaxReplies

(* KanbanSessionContinuationEntry: the reply is its delivery group. *)
Entry == [reply : Replies, session : Sessions, task : Tasks, pending : SUBSET Parts]

(* A continuation under way; late: its session was stopped meanwhile. *)
Call == [entry : Entry, at : {"list", "select"}, late : BOOLEAN]

VARIABLES
    barrier,    \* file: entries and suppressed sessions
    outbox,     \* file: per reply its session and the parts not delivered
    lane,       \* file: prompts, with the reply they follow up
    pump,       \* memory: selected session, session of the running turn
    flight,     \* memory: captures, continuations, what startup has to do and awaits
    session     \* history: continued replies, sessions that finished a task or were stopped

services == <<barrier, outbox, lane, pump, flight, session>>

SessionInit ==
    /\ BoardInit
    /\ barrier = [entries |-> {}, suppressed |-> {}]
    /\ outbox = <<>>
    /\ lane = <<>>
    /\ pump = [selected |-> None, turn |-> None, restarts |-> 0]
    /\ flight = [captures |-> {}, calls |-> {}, todo |-> {}, awaited |-> {}]
    /\ session = [continued |-> [r \in Replies |-> 0], finished |-> {}, stopped |-> {}]

-----------------------------------------------------------------------------
(* The store *)

(* Faulty variant: the barrier of an earlier reply stays. *)
SavedBeside(b, e) == [b EXCEPT !.entries = @ \cup {e}]

(* save: a session waits on one barrier at a time. *)
Saved(b, e) == [b EXCEPT !.entries = {f \in @ : f.session # e.session} \cup {e}]

Dropped(b, s) == [b EXCEPT !.entries = {f \in @ : f.session # s}]

(* Faulty variant: the entry is released with its first part. *)
MarkedFirst(b, r, p) ==
    LET hit == {f \in b.entries : f.reply = r}
    IN [entries |-> b.entries \ hit,
        released |-> {[f EXCEPT !.pending = @ \ {p}] : f \in hit}]

(* markDelivered: the parts an entry still waits for, and its release. *)
Marked(b, r, p) ==
    LET hit  == {f \in b.entries : f.reply = r}
        rest == {[f EXCEPT !.pending = @ \ {p}] : f \in hit}
        done == {f \in rest : f.pending = {}}
    IN [entries |-> (b.entries \ hit) \cup (rest \ done), released |-> done]

Calls(entries) == {[entry |-> e, at |-> "list", late |-> FALSE] : e \in entries}

(* resolveSessionOwnedTask over the listed board *)
Owned(b, s) == {t \in Tasks : /\ b[t].executionSource = "session"
                              /\ b[t].executionSessionId = s
                              /\ b[t].status \in {"in_progress", "done"}}

(* listTasks releases expired leases before it answers. *)
Listed == Save(Released(task)) /\ UNCHANGED nextTask

-----------------------------------------------------------------------------
(* Turns: the queue's dispatch loop, OpenCode and the final reply *)

Fresh == {s \in Sessions : /\ \A t \in Tasks : task[t].executionSessionId # s
                           /\ \A e \in barrier.entries : e.session # s
                           /\ s \notin barrier.suppressed}

(* ensureSession creates a session when none is selected; the turn that    *)
(* starts ends the suppression of its session.                             *)
TurnStarts ==
    /\ lane # <<>> /\ pump.turn = None
    /\ \E s \in IF pump.selected = None THEN Fresh ELSE {pump.selected} :
           /\ pump' = [pump EXCEPT !.selected = s, !.turn = s]
           /\ barrier' = [barrier EXCEPT !.suppressed = @ \ {s}]
           /\ session' = [session EXCEPT !.finished = @ \ {s}, !.stopped = @ \ {s}]
    /\ UNCHANGED <<board, outbox, lane, flight>>

(* The turn ends with a reply whose parts are queued for Telegram and then *)
(* announced: a suppressed session forgets it, any other captures it.      *)
TurnReplies ==
    LET s == pump.turn
        r == Len(outbox) + 1
    IN /\ s # None /\ r \in Replies
       /\ outbox' = Append(outbox, [session |-> s, waiting |-> Parts])
       /\ lane' = Tail(lane)
       /\ pump' = [pump EXCEPT !.turn = None]
       /\ IF s \in barrier.suppressed
          THEN barrier' = Dropped(barrier, s) /\ UNCHANGED flight
          ELSE flight' = [flight EXCEPT !.captures = @ \cup {r}] /\ UNCHANGED barrier
       /\ UNCHANGED <<board, session>>

(* It fails, or ends without a text. *)
TurnFails ==
    /\ pump.turn # None
    /\ lane' = Tail(lane)
    /\ pump' = [pump EXCEPT !.turn = None]
    /\ UNCHANGED <<board, barrier, outbox, flight, session>>

-----------------------------------------------------------------------------
(* People: prompts, /new, /sessions, /stop *)

UserPrompt ==
    /\ Len(lane) < MaxPrompts
    /\ lane' = Append(lane, [reply |-> 0, session |-> None])
    /\ UNCHANGED <<board, barrier, outbox, pump, flight, session>>

NewSession ==
    /\ \E s \in Fresh \ {pump.turn} : pump' = [pump EXCEPT !.selected = s]
    /\ UNCHANGED <<board, barrier, outbox, lane, flight, session>>

SelectSession(s) ==
    /\ pump.selected # s
    /\ s \notin Fresh
    /\ pump' = [pump EXCEPT !.selected = s]
    /\ UNCHANGED <<board, barrier, outbox, lane, flight, session>>

(* Faulty variant: a stop forgets the barrier but not that it happened. *)
SuppressedLightly(b, s) == Dropped(b, s)

(* suppressSessionContinuation *)
Suppressed(b, s) == [Dropped(b, s) EXCEPT !.suppressed = @ \cup {s}]

(* The aborted turn ends later, by TurnReplies or TurnFails. *)
StopSession ==
    /\ pump.selected # None
    /\ barrier' = Suppressed(barrier, pump.selected)
    /\ flight' = [flight EXCEPT !.calls =
          {IF c.entry.session = pump.selected THEN [c EXCEPT !.late = TRUE] ELSE c : c \in @}]
    /\ session' = [session EXCEPT !.stopped = @ \cup {pump.selected}]
    /\ UNCHANGED <<board, outbox, lane, pump>>

-----------------------------------------------------------------------------
(* The continuation service *)

(* capturePendingContinuation after its listing *)
Captured(r) ==
    LET s == outbox[r].session
        owned == Owned(Released(task), s)
    IN /\ r \in flight.captures
       /\ Listed
       /\ IF owned = {}
          THEN barrier' = Dropped(barrier, s)
          ELSE \E t \in owned : barrier' = Saved(barrier,
                  [reply |-> r, session |-> s, task |-> t, pending |-> Parts])
       /\ flight' = [flight EXCEPT !.captures = @ \ {r}]
       /\ UNCHANGED <<outbox, lane, pump, session>>

(* The outbox announces a part; triggerContinuation of a released entry    *)
(* looks for a stop before it lists the board.                             *)
ReplyDelivered(r, p) ==
    LET m == Marked(barrier, r, p)
        go == {e \in m.released : e.session \notin barrier.suppressed}
    IN /\ r \in DOMAIN outbox /\ p \in outbox[r].waiting
       /\ outbox' = [outbox EXCEPT ![r].waiting = @ \ {p}]
       /\ barrier' = [barrier EXCEPT !.entries = m.entries]
       /\ flight' = [flight EXCEPT !.calls = @ \cup Calls(go)]
       /\ UNCHANGED <<board, lane, pump, session>>

(* Faulty variant: the task may have left execution meanwhile. *)
GoesOnBlindly(b, e) == b[e.task].executionSource = "session"

(* triggerContinuation after its listing.  Its branch for a done task,     *)
(* startNextQueuedTask, is never taken: a done task has no owner.          *)
GoesOn(b, e) == e.task \in Owned(b, e.session) /\ b[e.task].status = "in_progress"

ContinuationListed(c) ==
    /\ c.at = "list"
    /\ Listed
    /\ flight' = [flight EXCEPT !.calls =
          (@ \ {c}) \cup IF GoesOn(Released(task), c.entry)
                         THEN {[c EXCEPT !.at = "select"]} ELSE {}]
    /\ UNCHANGED <<barrier, outbox, lane, pump, session>>

(* selectSession has answered; the prompt joins the lane. *)
ContinuationPrompts(c) ==
    /\ c.at = "select" /\ Len(lane) < MaxPrompts
    /\ pump' = [pump EXCEPT !.selected = c.entry.session]
    /\ lane' = Append(lane, [reply |-> c.entry.reply, session |-> c.entry.session])
    /\ flight' = [flight EXCEPT !.calls = @ \ {c}]
    /\ session' = [session EXCEPT !.continued[c.entry.reply] = @ + 1]
    /\ UNCHANGED <<board, barrier, outbox>>

(* OpenCode does not know the session, or no chat is bound. *)
ContinuationFails(c) ==
    /\ flight' = [flight EXCEPT !.calls = @ \ {c}]
    /\ UNCHANGED <<board, barrier, outbox, lane, pump, session>>

(* Faulty variant: what was delivered before the restart is not looked up. *)
FoundAsStored(entries) == entries

(* reconcilePersistedBarriers reads entries and delivered items once. *)
Found(entries) == {[e EXCEPT !.pending = @ \cap outbox[e.reply].waiting] : e \in entries}

(* It then walks through what it read, in one go up to the next complete   *)
(* entry, whose continuation it awaits: entries before it are written as   *)
(* they were read, whatever has become of them meanwhile.                  *)
Walk(b, entries) ==
    LET open == {e \in entries : e.pending # {}}
        done == entries \ open
    IN {[todo |-> entries \ (first \cup before),
         calls |-> Calls({e \in first : e.session \notin b.suppressed}),
         barrier |-> [b EXCEPT !.entries =
            {f \in @ : \A e \in first \cup before : f.session # e.session} \cup before]] :
        first \in IF done = {} THEN {{}} ELSE {{e} : e \in done},
        before \in IF done = {} THEN {open} ELSE SUBSET open}

(* A restart loses what is in memory; the interrupted prompt runs again. *)
Restart ==
    /\ pump.restarts < MaxRestarts
    /\ pump' = [selected |-> None, turn |-> None, restarts |-> pump.restarts + 1]
    /\ \E w \in Walk(barrier, Found(barrier.entries)) :
           /\ barrier' = w.barrier
           /\ flight' = [captures |-> {}, calls |-> w.calls, todo |-> w.todo,
                         awaited |-> {c.entry.reply : c \in w.calls}]
    /\ UNCHANGED <<board, outbox, lane, session>>

(* The continuation it awaited is over; others may be under way. *)
StartupGoesOn ==
    /\ flight.todo # {} /\ \A c \in flight.calls : c.entry.reply \notin flight.awaited
    /\ \E w \in Walk(barrier, flight.todo) :
           /\ barrier' = w.barrier
           /\ flight' = [flight EXCEPT !.todo = w.todo, !.calls = @ \cup w.calls,
                                        !.awaited = {c.entry.reply : c \in w.calls}]
    /\ UNCHANGED <<board, outbox, lane, pump, session>>

-----------------------------------------------------------------------------
(* The board meanwhile: sessions work during their turns, people any time. *)

Plain == [c \in Criteria |-> "absent"]

Worker(s) == {a \in ToolActors : a.sessionId = s}

SessionWorks(t) ==
    /\ pump.turn # None
    /\ \E a \in Worker(pump.turn) :
           \/ StartTaskExecution(t, a) /\ UNCHANGED session
           \/ ClaimNextTask(t, a) /\ UNCHANGED session
           \/ /\ task[t].status = "in_progress"
              /\ UpdateTaskFromExecution(t, a, "done", Plain)
              /\ session' = [session EXCEPT !.finished = @ \cup {pump.turn}]
           \/ /\ task[t].status = "in_progress"
              /\ UpdateTaskFromExecution(t, a, "blocked", Plain)
              /\ UNCHANGED session
    /\ UNCHANGED <<barrier, outbox, lane, pump, flight>>

PeopleWork(t) ==
    /\ \/ t = nextTask /\ t <= MaxWork /\ CreateTask("queued", Plain)
       \/ \E s \in {"queued", "blocked", "done"} :
              task[t].status # s /\ UpdateTask(t, s, Plain)
       \/ LeaseEnds(t)
    /\ UNCHANGED services

SessionNext ==
    \/ TurnStarts \/ TurnReplies \/ TurnFails
    \/ UserPrompt \/ NewSession \/ StopSession
    \/ \E s \in Sessions : SelectSession(s)
    \/ \E r \in flight.captures : Captured(r)
    \/ \E r \in Replies, p \in Parts : ReplyDelivered(r, p)
    \/ \E c \in flight.calls :
           ContinuationListed(c) \/ ContinuationPrompts(c) \/ ContinuationFails(c)
    \/ Restart \/ StartupGoesOn
    \/ \E t \in Tasks : SessionWorks(t) \/ PeopleWork(t)

SessionSpec == SessionInit /\ [][SessionNext]_<<board, services>>

-----------------------------------------------------------------------------
(* Properties *)

(* Entries, replies and calls refer to each other as the store's types say, *)
(* and "one session should wait on only one delivery-backed continuation   *)
(* barrier at a time" (kanban-session-continuation.store.ts:89).           *)
SessionTypeOK ==
    /\ BoardTypeOK
    /\ barrier.entries \subseteq Entry /\ barrier.suppressed \subseteq Sessions
    /\ \A e, f \in barrier.entries : e.session = f.session => e = f
    /\ \A r \in DOMAIN outbox : r \in Replies /\ outbox[r].waiting \subseteq Parts
    /\ lane \in Seq([reply : Replies \cup {0}, session : Sessions \cup {None}])
    /\ pump.selected \in Sessions \cup {None} /\ pump.turn \in Sessions \cup {None}
    /\ flight.captures \subseteq DOMAIN outbox /\ flight.calls \subseteq Call
    /\ flight.todo \subseteq Entry /\ flight.awaited \subseteq Replies

(* A session is told to go on only about a reply of its own that Telegram  *)
(* has completely, whichever of the last delivery, a restart and the       *)
(* reconciliation released the barrier (service:150, :325).                *)
ContinuesDeliveredReply ==
    [][\A r \in Replies : session'.continued[r] # session.continued[r] =>
          outbox[r].waiting = {} /\ lane'[Len(lane')].session = outbox[r].session]_session

(* After a stop nothing but a continuation that was already past its check *)
(* tells the session to go on, until a turn starts in it: not a capture    *)
(* that was reading the board, not a later delivery, not a restart         *)
(* (service:106, :161, :346).                                              *)
StopHolds ==
    [][\A c \in flight.calls :
          /\ session'.continued[c.entry.reply] # session.continued[c.entry.reply]
          /\ c \notin flight'.calls
          /\ c.entry.session \in session.stopped
          => c.late]_session

(* A continued task was in progress for that session when the board was    *)
(* listed after the delivery: nobody is told to go on with blocked,        *)
(* finished or reassigned work (service:165-181).                          *)
ContinuesOwnWork ==
    [][\A c \in flight.calls :
          c.at = "list" /\ [c EXCEPT !.at = "select"] \in flight'.calls =>
          /\ task[c.entry.task].status = "in_progress" /\ task[c.entry.task].lease = "live"
          /\ task[c.entry.task].executionSessionId = c.entry.session]_<<flight, board>>

(* "starts the next queued task in a fresh session after a done task reply *)
(* is fully delivered" (kanban-session-continuation.service.test.ts:279):  *)
(* the reply of a turn that finished its task is kept until it is          *)
(* delivered, or the next task could not start then.                       *)
FinishedTurnIsKept ==
    [][\A r \in flight.captures :
          r \notin flight'.captures /\ outbox[r].session \in session.finished
            /\ pump.restarts = pump'.restarts
          => \E e \in barrier'.entries : e.reply = r]_flight

=============================================================================
