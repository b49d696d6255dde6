------------------------------ MODULE KanbanRunner ------------------------------
(***************************************************************************)
(* The kanban runner of one project (kanban-runner.service.ts) on top of   *)
(* the board, with the handoff barrier that holds the next queued task     *)
(* back until Telegram has delivered the last final reply                  *)
(* (kanban-runner-handoff.service.ts and .store.ts).                       *)
(*                                                                         *)
(* runProject is a loop that awaits the board, the event bridge, OpenCode  *)
(* and the prompt; between two awaits it is one action, and people and     *)
(* sessions work on the board meanwhile.  Events are delivered inside the  *)
(* publishing call, so a mutation, its event and what the subscribers do   *)
(* about it are one action.  A restart keeps the board, the outbox and the *)
(* barrier file.                                                           *)
(***************************************************************************)
EXTENDS KanbanBoard

CONSTANTS
    Asked,        \* bound: statuses people and sessions ask for
    ToolSessions, \* sessions whose tools work on the board
    Loops,        \* bound: runProject calls that may overlap
    MaxTurns,     \* bound: turns whose final reply is enqueued
    Chunks,       \* chunks of a final reply
    MaxFailures,  \* bound: runs that end in an error, and replies without text
    MaxRestarts   \* bound: backend restarts

ASSUME AskedAssumption  == Asked \subseteq Statuses /\ ToolSessions \subseteq Sessions
ASSUME BoundsAssumption == /\ MaxTurns \in Nat /\ MaxFailures \in Nat
                           /\ MaxRestarts \in Nat
ASSUME ChunksAssumption == Chunks \subseteq Nat /\ 1 \in Chunks
ASSUME LoopsAssumption  == Loops # {}

Items    == (1 .. MaxTurns) \X Chunks
Reply(n) == {n} \X Chunks

(* A runProject call: where it awaits, and the task and session it has. *)
Stages == {"idle", "select", "bridge", "create", "start", "send", "load"}
Loop   == [at : Stages, startup : BOOLEAN, task : {0} \cup Tasks,
           continued : BOOLEAN, session : Sessions \cup {None}]

IdleLoop == [at |-> "idle", startup |-> FALSE, task |-> 0, continued |-> FALSE,
             session |-> None]

VARIABLES
    run,        \* loops, and runningProjects, pendingProjects, retryProjectRuns
    booting,    \* runOnce("startup") has not looked at the board yet
    turns,      \* turns whose reply was enqueued; names the next reply
    posted,     \* outbox: reply chunks ever enqueued
    delivered,  \* outbox: reply chunks delivered
    merged,     \* outbox: chunks that took over a stream snapshot's item
    recent,     \* recentRepliesBySession: chunks of the last reply, by session
    barrier,    \* pendingItemIds of the project's barrier, {} without one
    owed,       \* history: the reply the last finished turn has to hand over
    failures,   \* history: runs that ended in an error
    restarts    \* history: backend restarts

outbox  == <<turns, posted, delivered, merged>>
handoff == <<recent, barrier, owed>>
vars    == <<board, run, booting, outbox, handoff, failures, restarts>>

AsleepRun == [loops |-> [l \in Loops |-> IdleLoop],
              running |-> FALSE, pending |-> FALSE, retry |-> FALSE]

Init ==
    /\ BoardInit
    /\ run = AsleepRun /\ booting = TRUE
    /\ turns = 0 /\ posted = {} /\ delivered = {} /\ merged = {}
    /\ recent = [s \in Sessions |-> {}] /\ barrier = {} /\ owed = {}
    /\ failures = 0 /\ restarts = 0

-----------------------------------------------------------------------------
(* Scheduling: functions of run *)

Begun(r, startup) ==
    LET l == CHOOSE l \in Loops : r.loops[l].at = "idle"
    IN [r EXCEPT !.running = TRUE,
                 !.loops[l] = [IdleLoop EXCEPT !.at = "select", !.startup = startup]]

(* Faulty variant: the armed retry is known, the running project is not. *)
ScheduledOverlapping(r) ==
    IF r.retry THEN [r EXCEPT !.pending = TRUE] ELSE Begun(r, FALSE)

(* scheduleProjectRun *)
Scheduled(r) ==
    IF r.running \/ r.retry THEN [r EXCEPT !.pending = TRUE] ELSE Begun(r, FALSE)

(* Faulty variant: the flag is cleared without a run. *)
EndedForgetful(r, l, mine) ==
    [r EXCEPT !.loops[l] = IdleLoop, !.running = FALSE, !.pending = FALSE]

(* The finally block of runProject; mine says that the refreshed task is   *)
(* still the runner's, which is followed up at once.                       *)
Ended(r, l, mine) ==
    LET idle  == [r EXCEPT !.loops[l] = IdleLoop, !.running = FALSE]
        woken == [idle EXCEPT !.pending = FALSE]
    IN CASE ~r.pending -> idle
         [] r.pending /\ mine -> Begun(woken, FALSE)
         [] OTHER -> Scheduled(woken)

At(l, stage) == run.loops[l].at = stage
Goes(l, f)   == run' = [run EXCEPT !.loops[l] = f]

(* The run of loop l returns, or throws and publishes runner.error. *)
Returns(l) == run' = Ended(run, l, FALSE) /\ UNCHANGED failures
Throws(l)  == /\ failures < MaxFailures
              /\ run' = Ended(run, l, FALSE)
              /\ failures' = failures + 1

Mine(r) == /\ r.status = "in_progress"
           /\ r.claimedBy = Runner /\ r.executionSource = "runner"

(* isAutomationCandidate, and the same test in onEvent *)
Candidate(r) == Mine(r) \/ (r.status = "queued" /\ r.executionSource # "session")

(* kanban.task.updated for task t, as the mutation left it *)
TaskUpdated(t) == run' = IF Candidate(task'[t]) THEN Scheduled(run) ELSE run

-----------------------------------------------------------------------------
(* The board under people and sessions *)

Idle == UNCHANGED <<booting, outbox, handoff, failures, restarts>>

Person(t) ==
    /\ \/ t = nextTask /\ \E s \in Asked, c \in NewChecklists : CreateTask(s, c)
       \/ \E s \in Asked, c \in Patches(t) : UpdateTask(t, s, c)
       \/ \E k \in Criteria, s \in {"pending", "done", "blocked"} : UpdateCriterion(t, k, s)
    /\ TaskUpdated(t) /\ Idle

(* Deletion is announced with a status that wakes nobody. *)
PersonDeletes(t) == DeleteTask(t) /\ UNCHANGED run /\ Idle

Session(a, t) ==
    /\ \/ \E s \in Asked, c \in Patches(t) : UpdateTaskFromExecution(t, a, s, c)
       \/ \E k \in Criteria, s \in {"pending", "done", "blocked"} :
              UpdateCriterionFromExecution(t, a, k, s)
       \/ StartTaskExecution(t, a)
       \/ ClaimNextTask(t, a)
    /\ TaskUpdated(t) /\ Idle

(* Lease expiry and the readers that notice it publish nothing. *)
Quietly == /\ ListTasks \/ \E t \in Tasks : LeaseEnds(t)
           /\ UNCHANGED <<run>> /\ Idle

-----------------------------------------------------------------------------
(* runProject *)

(* resolveTaskForRun: own active work first, nothing next to other active  *)
(* work or an undelivered reply, else queued work.                         *)
Select(l) ==
    LET b      == Released(task)
        mine   == {t \in Tasks : Mine(b[t])}
        active == {t \in Tasks : b[t].status = "in_progress"}
        queued == {t \in Tasks : b[t].status = "queued" /\ b[t].executionSource # "session"}
        choice == CASE mine # {} -> mine
                    [] mine = {} /\ active = {} /\ barrier = {} -> queued
                    [] OTHER -> {}
    IN /\ At(l, "select")
       /\ Save(b) /\ UNCHANGED nextTask
       /\ \/ choice = {} /\ Returns(l)
          \/ \E t \in choice :
                /\ Goes(l, [run.loops[l] EXCEPT !.at = "bridge", !.task = t,
                                !.continued = mine # {},
                                !.session = b[t].executionSessionId])
                /\ UNCHANGED failures
       /\ UNCHANGED <<booting, outbox, handoff, restarts>>

AfterSession(l) == IF run.loops[l].continued THEN "send" ELSE "start"

ChecksBusy(l) == run.loops[l].startup /\ run.loops[l].continued /\ run.loops[l].session # None

(* After a restart the session may still be at work: scheduleProjectRunRetry. *)
Busy(l) ==
    /\ At(l, "bridge") /\ ChecksBusy(l)
    /\ run' = Ended([run EXCEPT !.retry = TRUE], l, FALSE)
    /\ UNCHANGED <<board, booting, outbox, handoff, failures, restarts>>

(* ensureTaskSession: the session found when the task was selected, the    *)
(* one recorded meanwhile, or a new one.                                   *)
EnsureSession(l) ==
    LET t == run.loops[l].task
        s == IF run.loops[l].session # None THEN run.loops[l].session
                                            ELSE task[t].executionSessionId
    IN /\ At(l, "bridge")
       /\ Goes(l, [run.loops[l] EXCEPT !.session = s,
                       !.at = IF s = None THEN "create" ELSE AfterSession(l)])
       /\ UNCHANGED <<board, booting, outbox, handoff, failures, restarts>>

(* A new session id; ids no task records are used again. *)
Fresh(s) == s \notin ToolSessions /\ \A t \in Tasks : task[t].executionSessionId # s

(* setTaskSessionId, whatever has become of the task *)
SetTaskSessionId(t, s) ==
    /\ task' = [task EXCEPT ![t].executionSessionId = s]
    /\ UNCHANGED <<nextTask, origin>>

(* createDetachedSession, then setTaskSessionId, which throws when the task *)
(* has been deleted.                                                       *)
CreateSession(l) ==
    LET t == run.loops[l].task
    IN /\ At(l, "create")
       /\ IF task[t].status = "absent"
          THEN run' = Ended(run, l, FALSE) /\ UNCHANGED board
          ELSE \E s \in Sessions :
                  /\ Fresh(s)
                  /\ SetTaskSessionId(t, s)
                  /\ Goes(l, [run.loops[l] EXCEPT !.at = AfterSession(l), !.session = s])
       /\ UNCHANGED <<booting, outbox, handoff, failures, restarts>>

RunnerActor(l) == [agentId |-> Runner, sessionId |-> run.loops[l].session, source |-> "runner"]

Start(l) ==
    /\ At(l, "start")
    /\ StartTaskExecution(run.loops[l].task, RunnerActor(l))
    /\ Goes(l, [run.loops[l] EXCEPT !.at = "send"])
    /\ UNCHANGED <<booting, outbox, handoff, failures, restarts>>

(* Somebody else won the race for the task, or it left the queue; only the *)
(* latter is reported as an error.                                         *)
LosesStart(l) ==
    /\ At(l, "start")
    /\ ~CanStart(Released(task)[run.loops[l].task], RunnerActor(l))
    /\ Returns(l)
    /\ UNCHANGED <<board, booting, outbox, handoff, restarts>>

(* The event bridge or OpenCode ends the run with an error. *)
Fails(l) ==
    /\ At(l, "bridge") \/ At(l, "create") \/ At(l, "send")
    /\ Throws(l)
    /\ UNCHANGED <<board, booting, outbox, handoff, restarts>>

(* The prompt returned: finalMessages.publish enqueues the final reply and *)
(* rememberRecentReply keeps its chunks.  With streaming on, the first     *)
(* chunk takes over the pending stream snapshot's item, if there is one.   *)
Replies(l) ==
    /\ At(l, "send") /\ turns < MaxTurns
    /\ turns' = turns + 1
    /\ posted' = posted \cup Reply(turns')
    /\ merged' \in {merged, merged \cup {<<turns', 1>>}}
    /\ recent' = [recent EXCEPT ![run.loops[l].session] = Reply(turns')]
    /\ Goes(l, [run.loops[l] EXCEPT !.at = "load"])
    /\ UNCHANGED <<board, booting, delivered, barrier, owed, failures, restarts>>

(* What is remembered of a session's earlier turn, which may have passed   *)
(* RECENT_REPLY_TTL_MS.                                                    *)
Remembered(s) == {recent, [recent EXCEPT ![s] = {}]}

(* Without a chat bound to the session there is nobody to reply to. *)
RepliesToNobody(l) ==
    /\ At(l, "send")
    /\ recent' \in Remembered(run.loops[l].session)
    /\ Goes(l, [run.loops[l] EXCEPT !.at = "load"])
    /\ UNCHANGED <<board, booting, outbox, barrier, owed, failures, restarts>>

(* Turns that capturePendingHandoff takes up *)
HandsOver(status) == status \in {"done", "blocked"}

(* loadTask, then kanban.runner.finished: capturePendingHandoff, and       *)
(* onEvent for work that goes on.  A barrier-free handoff is released, and *)
(* the release wakes the runner.                                           *)
Finish(l) ==
    LET b == Released(task)
        r == b[run.loops[l].task]
        reply == recent[run.loops[l].session]
    IN /\ At(l, "load")
       /\ Save(b) /\ UNCHANGED nextTask
       /\ IF HandsOver(r.status)
          THEN /\ barrier' = reply /\ owed' = reply
               /\ run' = Ended(IF reply = {} THEN Scheduled(run) ELSE run, l, FALSE)
          ELSE /\ run' = Ended(IF Mine(r) THEN Scheduled(run) ELSE run, l, Mine(r))
               /\ UNCHANGED <<barrier, owed>>
       /\ UNCHANGED <<booting, outbox, recent, failures, restarts>>

(* The timer of scheduleProjectRunRetry *)
RetryFires ==
    /\ run.retry
    /\ LET r == [run EXCEPT !.retry = FALSE]
       IN run' = IF r.running THEN [r EXCEPT !.pending = TRUE] ELSE Begun(r, TRUE)
    /\ UNCHANGED <<board, booting, outbox, handoff, failures, restarts>>

(* runOnce("startup") *)
RunOnce ==
    LET b == Released(task)
    IN /\ booting /\ booting' = FALSE
       /\ Save(b) /\ UNCHANGED nextTask
       /\ run' = IF ~run.running /\ \E t \in Tasks : Candidate(b[t])
                 THEN Begun(run, TRUE) ELSE run
       /\ UNCHANGED <<outbox, handoff, failures, restarts>>

-----------------------------------------------------------------------------
(* The outbox and restarts *)

(* Faulty variant: one delivered chunk releases the whole reply. *)
AdvancedAll(items, i) == IF i \in items THEN {} ELSE items

(* markDelivered *)
Advanced(items, i) == items \ {i}

(* The bot reports a delivery; the controller announces it when the item   *)
(* carries a delivery group, which a snapshot's item does not.             *)
Deliver(i) ==
    /\ i \in posted \ delivered
    /\ delivered' = delivered \cup {i}
    /\ barrier' = IF i \in merged THEN barrier ELSE Advanced(barrier, i)
    /\ run' = IF barrier # {} /\ barrier' = {} THEN Scheduled(run) ELSE run
    /\ UNCHANGED <<board, booting, turns, posted, merged, recent, owed, failures, restarts>>

(* reconcilePersistedBarriers; the runner is not subscribed yet. *)
Reconciled(items) == items \ delivered

Restart ==
    /\ restarts < MaxRestarts
    /\ restarts' = restarts + 1
    /\ run' = AsleepRun /\ booting' = TRUE
    /\ recent' = [s \in Sessions |-> {}]
    /\ barrier' = Reconciled(barrier)
    /\ UNCHANGED <<board, outbox, owed, failures>>

-----------------------------------------------------------------------------

LoopStep(l) ==
    \/ Select(l) \/ EnsureSession(l) \/ CreateSession(l) \/ Start(l) \/ LosesStart(l)
    \/ Replies(l) \/ RepliesToNobody(l) \/ Finish(l)

Actors == {a \in ToolActors : a.sessionId \in ToolSessions \cup {s \in Sessions : ~Fresh(s)}}

Next ==
    \/ \E t \in Tasks : Person(t) \/ PersonDeletes(t)
    \/ \E a \in Actors, t \in Tasks : Session(a, t)
    \/ Quietly
    \/ \E l \in Loops : LoopStep(l) \/ Busy(l) \/ Fails(l)
    \/ RetryFires \/ RunOnce
    \/ \E i \in Items : Deliver(i)
    \/ Restart

Spec == Init /\ [][Next]_vars

(* Awaited calls return, timers fire, and a busy session is found idle     *)
(* sooner or later; errors, people, sessions and deliveries owe nothing.   *)
FairSpec ==
    /\ Spec
    /\ \A l \in Loops : WF_vars(LoopStep(l)) /\ SF_vars(EnsureSession(l))
    /\ WF_vars(RetryFires) /\ WF_vars(RunOnce)

-----------------------------------------------------------------------------
(* Properties *)

(* The runner's memory, the barrier and the outbox hold what the source's  *)
(* types allow, and a barrier holds chunks of one reply.                   *)
RunnerTypeOK ==
    /\ BoardTypeOK
    /\ run \in [loops : [Loops -> Loop], running : BOOLEAN, pending : BOOLEAN, retry : BOOLEAN]
    /\ booting \in BOOLEAN
    /\ turns \in 0 .. MaxTurns /\ failures \in 0 .. MaxFailures /\ restarts \in 0 .. MaxRestarts
    /\ delivered \subseteq posted /\ merged \subseteq posted /\ posted \subseteq Items
    /\ recent \in [Sessions -> SUBSET posted]
    /\ \E n \in 0 .. turns : barrier \subseteq Reply(n) /\ owed \subseteq Reply(n)

(* "Never overlaps the same project twice" (kanban-runner.service.ts:106): *)
(* task events, releases, the retry timer, startup and the follow-up of a  *)
(* finished run start one runProject at a time.                            *)
OneRunPerProject ==
    /\ Cardinality({l \in Loops : ~At(l, "idle")}) <= 1
    /\ run.running <=> \E l \in Loops : ~At(l, "idle")

(* The runner's state is well-formed and its runs do not overlap. *)
RunnerInv == RunnerTypeOK /\ OneRunPerProject

(* The runner takes a queued task only after every chunk of the reply that *)
(* the last done or blocked turn handed over is delivered, across restarts *)
(* too (kanban-runner.service.ts:320, kanban-runner-handoff.store.ts:54).  *)
NextTaskWaitsForReply ==
    [][\A t \in Tasks : task[t].status = "queued" /\ Mine(task'[t]) =>
         owed \subseteq delivered]_vars

(* A turn that ends with its task still the runner's is followed by a turn *)
(* on the runner's work, unless that work leaves the runner or a run fails *)
(* (kanban-runner.service.ts:405): the wake-up published while the run is  *)
(* still registered is not lost.                                           *)
WorkGoesOn ==
    \A n \in 0 .. MaxFailures :
        (failures = n /\ \E l \in Loops : At(l, "load") /\ Mine(task[run.loops[l].task]))
            ~> \/ \E l \in Loops : At(l, "send") /\ run.loops[l].continued
               \/ \A t \in Tasks : ~Mine(task[t])
               \/ failures > n

(* "Delivery confirmations advance handoff barriers chunk-by-chunk until   *)
(* the whole final reply lands" (kanban-runner-handoff.service.ts:126): a  *)
(* delivered chunk leaves the barrier.                                     *)
DeliveryAdvancesBarrier ==
    [][\A i \in Items : i \notin delivered /\ i \in delivered' => i \notin barrier']_vars

=============================================================================
