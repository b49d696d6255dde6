-------------------------------- MODULE LiveBoard --------------------------------
(***************************************************************************)
(* How an open board of the Mini App keeps up with the backend             *)
(* (miniapp use-kanban.ts, KanbanProjectTab.tsx, KanbanBoardScreen.tsx     *)
(* over the event hub).  An event only tells that a project's tasks have   *)
(* changed; the board then loads all of its list again.  The socket and    *)
(* the HTTP requests are connections of their own; answers may overtake    *)
(* each other.                                                             *)
(***************************************************************************)
EXTENDS EventHub

CONSTANTS
    MaxChanges,  \* bound: changes of tasks
    MaxLoads,    \* bound: loads under way at a time
    MaxMoves,    \* bound: times a board is opened or changes its project
    MaxBoardFaults    \* bound: lost connections, failed requests, restarts

ASSUME BoardBounds == {MaxChanges, MaxLoads, MaxMoves, MaxBoardFaults} \subseteq Nat

VARIABLES
    hub,     \* the tasks' versions per project, the ring of events
    socket,  \* the board's WebSocket: its scope, frames on their way
    screen,  \* the hook: its filter, what it shows, the debounce timer, loads
    tally    \* moves and faults so far; whether this board has met one that
             \* the code does not make up for

board == <<hub, socket, screen, tally>>

NoSocket == [at |-> "off", scope |-> NoProject, frames |-> <<>>]
NoScreen == [open |-> FALSE, filter |-> NoProject, shown |-> <<>>, timer |-> FALSE, loads |-> <<>>]

LiveInit ==
    /\ hub = [tasks |-> [p \in Projects |-> 0], ring |-> <<>>]
    /\ socket = NoSocket
    /\ screen = NoScreen
    /\ tally = [moves |-> 0, faults |-> 0, missed |-> FALSE]

-----------------------------------------------------------------------------
(* The backend *)

(* GET /api/kanban/tasks *)
Tasks(filter) == [p \in (IF filter = NoProject THEN Projects ELSE {filter}) |-> hub.tasks[p]]

(* EventsService.publish: the ring, then every matching open socket. *)
Published(event) ==
    /\ socket' = IF socket.at = "open" /\ Matches("kanban", socket.scope, event, FALSE)
                 THEN [socket EXCEPT !.frames = Append(@, event)] ELSE socket
    /\ hub' = [ring |-> Pushed(hub.ring, event),
               tasks |-> IF event.topic = "kanban" THEN [hub.tasks EXCEPT ![event.project] = @ + 1]
                         ELSE hub.tasks]

(* The ring drops an event this board has not handled. *)
Overwrites ==
    /\ Len(hub.ring) = BufferSize /\ Head(hub.ring).topic = "kanban"
    /\ \/ socket.at # "open" \/ socket.frames # <<>>
       \/ socket.scope \notin {NoProject, Head(hub.ring).project}

(* The runner, an agent, another window, or this board's own request. *)
TaskChanges(p) ==
    /\ FoldFunction(LAMBDA a, b : a + b, 0, hub.tasks) < MaxChanges
    /\ Published([topic |-> "kanban", project |-> p])
    /\ tally' = [tally EXCEPT !.missed = @ \/ Overwrites]
    /\ UNCHANGED screen

(* Terminal output and workspace events share the ring. *)
OtherEvent ==
    /\ Overwrites
    /\ Published([topic |-> "terminal", project |-> NoProject])
    /\ tally' = [tally EXCEPT !.missed = TRUE]
    /\ UNCHANGED screen

Fault(missed) ==
    /\ tally.faults < MaxBoardFaults
    /\ tally' = [tally EXCEPT !.faults = @ + 1, !.missed = @ \/ missed]

(* Tasks are kept; the ring, sockets and requests are not. *)
HubRestarts ==
    /\ Fault(TRUE)
    /\ hub' = [hub EXCEPT !.ring = <<>>]
    /\ socket' = [socket EXCEPT !.at = IF @ = "off" THEN "off" ELSE "waiting", !.frames = <<>>]
    /\ screen' = [screen EXCEPT !.loads = <<>>]

-----------------------------------------------------------------------------
(* The hook *)

Loads(s) == [s EXCEPT !.loads = Append(@, [filter |-> s.filter, answer |-> <<>>])]

Moves == tally.moves < MaxMoves /\ Len(screen.loads) < MaxLoads

(* The hook's own effect connects before the component has set a filter,   *)
(* so the first socket hears of all projects.                              *)
BoardOpens(filter) ==
    /\ ~screen.open /\ Moves
    /\ socket' = [NoSocket EXCEPT !.at = "asking"]
    /\ screen' = Loads([NoScreen EXCEPT !.open = TRUE, !.filter = filter])
    /\ tally' = [tally EXCEPT !.moves = @ + 1, !.missed = FALSE]
    /\ UNCHANGED hub

(* A selection arrives while the tab shows another project. *)
ProjectSwitches(p) ==
    /\ screen.open /\ screen.filter \notin {NoProject, p} /\ Moves
    /\ screen' = Loads([screen EXCEPT !.filter = p])
    /\ tally' = [tally EXCEPT !.moves = @ + 1]
    /\ UNCHANGED <<hub, socket>>

(* Effect teardown *)
BoardCloses ==
    /\ screen.open
    /\ socket' = NoSocket /\ screen' = NoScreen
    /\ UNCHANGED <<hub, tally>>

(* The token is exchanged and the socket accepted: the ring is replayed. *)
Connected ==
    /\ socket.at = "asking"
    /\ socket' = [socket EXCEPT !.at = "open", !.frames = Replay(hub.ring, "kanban", socket.scope)]
    /\ UNCHANGED <<hub, screen, tally>>

(* The token request fails, or the socket closes. *)
ConnectionLost ==
    /\ socket.at \in {"asking", "open"}
    /\ Fault(FALSE)
    /\ socket' = [socket EXCEPT !.at = "waiting", !.frames = <<>>]
    /\ UNCHANGED <<hub, screen>>

(* The reconnect timer asks for a token of the present filter. *)
Reconnects ==
    /\ socket.at = "waiting"
    /\ socket' = [socket EXCEPT !.at = "asking", !.scope = screen.filter]
    /\ UNCHANGED <<hub, screen, tally>>

(* scheduleLiveReload *)
FrameArrives ==
    /\ socket.frames # <<>>
    /\ socket' = [socket EXCEPT !.frames = Tail(@)]
    /\ screen' = [screen EXCEPT
           !.timer = @ \/ screen.filter \in {NoProject, Head(socket.frames).project}]
    /\ UNCHANGED <<hub, tally>>

(* The debounce of 350 ms is over: reloadTasksSilently. *)
TimerFires ==
    /\ screen.timer /\ Len(screen.loads) < MaxLoads
    /\ screen' = Loads([screen EXCEPT !.timer = FALSE])
    /\ UNCHANGED <<hub, socket, tally>>

(* mutate loads again when its request is done. *)
Mutated ==
    /\ screen.open /\ screen.loads = <<>>
    /\ screen' = Loads(screen)
    /\ UNCHANGED <<hub, socket, tally>>

LoadAnswered(i) ==
    /\ screen.loads[i].answer = <<>>
    /\ screen' = [screen EXCEPT !.loads[i].answer = Tasks(screen.loads[i].filter)]
    /\ UNCHANGED <<hub, socket, tally>>

(* Nothing keeps an answer from replacing a newer one, or from being that  *)
(* of the project shown before.                                            *)
Outdated(load) ==
    \/ load.filter # screen.filter
    \/ DOMAIN screen.shown = DOMAIN load.answer
       /\ \E p \in DOMAIN load.answer : load.answer[p] < screen.shown[p]

Shown(i) ==
    /\ screen.loads[i].answer # <<>>
    /\ screen' = [screen EXCEPT !.shown = screen.loads[i].answer, !.loads = RemoveAt(@, i)]
    /\ tally' = [tally EXCEPT !.missed = @ \/ Outdated(screen.loads[i])]
    /\ UNCHANGED <<hub, socket>>

(* An error is shown; nothing loads again. *)
LoadFails(i) ==
    /\ Fault(TRUE)
    /\ screen' = [screen EXCEPT !.loads = RemoveAt(@, i)]
    /\ UNCHANGED <<hub, socket>>

LiveNext ==
    \/ OtherEvent \/ HubRestarts \/ BoardCloses \/ Connected \/ ConnectionLost \/ Reconnects
    \/ FrameArrives \/ TimerFires \/ Mutated
    \/ \E p \in Projects : TaskChanges(p) \/ ProjectSwitches(p)
    \/ \E filter \in Scopes : BoardOpens(filter)
    \/ \E i \in DOMAIN screen.loads : LoadAnswered(i) \/ Shown(i) \/ LoadFails(i)

LiveSpec == LiveInit /\ [][LiveNext]_board

-----------------------------------------------------------------------------
(* Properties *)

(* A closed board keeps nothing; the ring holds at most its size. *)
LiveTypeOK ==
    /\ Len(hub.ring) <= BufferSize
    /\ socket.at = "off" <=> ~screen.open
    /\ ~screen.open => screen = NoScreen
    /\ Len(screen.loads) <= MaxLoads
    /\ tally.moves <= MaxMoves /\ tally.faults <= MaxBoardFaults

(* "Reconnect in-place so transient backend restarts do not leave the      *)
(* board permanently stale": a board whose socket is open and that has     *)
(* nothing left to do shows the backend's tasks, however often its         *)
(* connection broke, whatever changed while it was broken and whichever    *)
(* project was selected, unless the socket still has the scope of the      *)
(* project before, or it met a fault that the code does not make up for:   *)
(* a restart (which loses the ring), a ring too short, a load that fails,  *)
(* an answer that overtakes another (use-kanban.ts:144, events.gateway.ts:67). *)
QuietBoardIsCurrent ==
    /\ socket.at = "open" /\ socket.frames = <<>>
    /\ ~screen.timer /\ screen.loads = <<>>
    /\ socket.scope \in {NoProject, screen.filter}
    /\ ~tally.missed
    => screen.shown = Tasks(screen.filter)

=============================================================================
