--------------------------- MODULE KanbanRunnerProofs ---------------------------
(***************************************************************************)
(* Proofs about the kanban runner, for every number of tasks, overlapping  *)
(* calls, turns, chunks and restarts.  The scheduling flags are a function *)
(* of what the loops do, so one lemma per scheduling operator says that it *)
(* starts at most one loop; ReplyInv ties the barrier to the reply it was  *)
(* taken from; WaitInv carries what Select saw of the barrier over the     *)
(* awaits until the task is started.  The board underneath keeps BoardInv  *)
(* by the lemmas of KanbanBoardProofs.                                     *)
(***************************************************************************)
EXTENDS KanbanRunner, KanbanBoardProofs, FiniteSetTheorems, TLAPS

RunType == [loops : [Loops -> Loop], running : BOOLEAN, pending : BOOLEAN, retry : BOOLEAN]

Works(r, l) == r.loops[l].at # "idle"

(* One loop at most is at work, and the flag knows. *)
OneSlot(r) == /\ \A l, k \in Loops : Works(r, l) /\ Works(r, k) => l = k
              /\ r.running <=> \E l \in Loops : Works(r, l)

(* From the selection on a loop has its task, from the start its session.  *)
Equipped(f) ==
    /\ f.at \notin {"idle", "select"} => f.task \in Tasks
    /\ f.at \in {"start", "send", "load"} => f.session \in Sessions

(* A loop that took a queued task and has not started it. *)
TookQueued(f) == f.at = "start" \/ (f.at \in {"bridge", "create"} /\ ~f.continued)

LoopsInv(r) == \A l \in Loops : Equipped(r.loops[l])

(* Replies belong to one turn each; what is owed and not delivered is      *)
(* still in the barrier.                                                   *)
ReplyInv ==
    /\ turns \in 0 .. MaxTurns
    /\ delivered \subseteq posted /\ merged \subseteq posted /\ posted \subseteq Items
    /\ recent \in [Sessions -> SUBSET posted]
    /\ \A s \in Sessions : \E n \in 0 .. turns : recent[s] \subseteq Reply(n)
    /\ \E n \in 0 .. turns : owed \subseteq Reply(n)
    /\ barrier \subseteq owed /\ owed \ delivered \subseteq barrier

WaitInv == \A l \in Loops : TookQueued(run.loops[l]) => owed \subseteq delivered

CountInv == /\ booting \in BOOLEAN
            /\ failures \in 0 .. MaxFailures /\ restarts \in 0 .. MaxRestarts

RunInv == run \in RunType /\ OneSlot(run) /\ LoopsInv(run)

RunnerGood == BoardInv /\ RunInv /\ ReplyInv /\ WaitInv /\ CountInv

-----------------------------------------------------------------------------
(* Scheduling *)

(* What the scheduling operators may make of r: loops are woken or put to  *)
(* sleep, nothing else about them changes.                                 *)
Schedules(r, q) ==
    /\ q \in RunType /\ OneSlot(q) /\ LoopsInv(q)
    /\ \A l \in Loops : q.loops[l] = r.loops[l] \/ q.loops[l].at \in {"idle", "select"}

LEMMA BegunFacts ==
    ASSUME NEW r \in RunType, OneSlot(r), LoopsInv(r), ~r.running, NEW st \in BOOLEAN
    PROVE  Schedules(r, Begun(r, st))
<1> DEFINE l == CHOOSE k \in Loops : r.loops[k].at = "idle"
           f == [IdleLoop EXCEPT !.at = "select", !.startup = st]
           q == [r EXCEPT !.running = TRUE, !.loops[l] = f]
<1>1. \A k \in Loops : r.loops[k].at = "idle"
    BY DEF OneSlot, Works
<1>2. l \in Loops
    BY <1>1, LoopsAssumption
<1>3. f \in Loop /\ f.at = "select"
    BY DEF IdleLoop, Loop, Stages
<1> HIDE DEF l, f
<1>4. /\ q \in RunType /\ q.running = TRUE /\ q.loops[l] = f
      /\ \A k \in Loops \ {l} : q.loops[k] = r.loops[k]
    BY <1>2, <1>3 DEF RunType
<1>5. Begun(r, st) = q
    BY DEF Begun, l, f
<1> HIDE DEF q
<1>6. OneSlot(q)
    BY <1>1, <1>2, <1>3, <1>4 DEF OneSlot, Works
<1>7. LoopsInv(q)
    BY <1>3, <1>4 DEF LoopsInv, Equipped
<1> QED BY <1>3, <1>4, <1>5, <1>6, <1>7 DEF Schedules

(* Raising the pending flag, or arming the retry timer, wakes nobody. *)
LEMMA FlagFacts ==
    ASSUME NEW r \in RunType, OneSlot(r), LoopsInv(r), NEW b \in BOOLEAN
    PROVE  /\ Schedules(r, [r EXCEPT !.pending = b])
           /\ Schedules(r, [r EXCEPT !.retry = b])
           /\ [r EXCEPT !.pending = b].running = r.running
           /\ [r EXCEPT !.retry = b].running = r.running
           /\ [r EXCEPT !.pending = b].loops = r.loops
           /\ [r EXCEPT !.retry = b].loops = r.loops
<1>1. ASSUME NEW q \in {[r EXCEPT !.pending = b], [r EXCEPT !.retry = b]}
      PROVE  Schedules(r, q) /\ q.running = r.running /\ q.loops = r.loops
    <2>1. q \in RunType /\ q.running = r.running /\ q.loops = r.loops
        BY <1>1 DEF RunType
    <2> QED BY <2>1 DEF Schedules, OneSlot, LoopsInv, Works
<1> QED BY <1>1

LEMMA ScheduledFacts ==
    ASSUME NEW r \in RunType, OneSlot(r), LoopsInv(r)
    PROVE  Schedules(r, Scheduled(r))
BY BegunFacts, FlagFacts DEF Scheduled

(* A run that is at work and only sees its flags raised. *)
LEMMA ScheduledAtWork ==
    ASSUME NEW r \in RunType, OneSlot(r), LoopsInv(r), NEW l \in Loops, Works(r, l)
    PROVE  Scheduled(r) = [r EXCEPT !.pending = TRUE]
BY DEF Scheduled, OneSlot

LEMMA EndedFacts ==
    ASSUME NEW r \in RunType, OneSlot(r), LoopsInv(r), NEW l \in Loops, Works(r, l),
           NEW mine \in BOOLEAN
    PROVE  Schedules(r, Ended(r, l, mine))
<1> DEFINE idle  == [r EXCEPT !.loops[l] = IdleLoop, !.running = FALSE]
           woken == [idle EXCEPT !.pending = FALSE]
<1>1. IdleLoop \in Loop /\ IdleLoop.at = "idle"
    BY DEF IdleLoop, Loop, Stages
<1>2. /\ idle \in RunType /\ idle.running = FALSE /\ idle.loops[l] = IdleLoop
      /\ \A k \in Loops \ {l} : idle.loops[k] = r.loops[k]
    BY <1>1 DEF RunType
<1>3. Ended(r, l, mine) \in {idle, Begun(woken, FALSE), Scheduled(woken)}
    <2>1. r.pending \in BOOLEAN
        BY DEF RunType
    <2> QED BY <2>1 DEF Ended
<1> HIDE DEF idle
<1>4. \A k \in Loops : ~Works(idle, k)
    BY <1>1, <1>2 DEF OneSlot, Works
<1>5. OneSlot(idle) /\ LoopsInv(idle)
    BY <1>1, <1>2, <1>4 DEF OneSlot, LoopsInv, Equipped
<1>6. /\ woken \in RunType /\ OneSlot(woken) /\ LoopsInv(woken)
      /\ woken.running = FALSE /\ woken.loops = idle.loops
    BY <1>2, <1>5, FlagFacts DEF Schedules
<1> HIDE DEF woken
<1>7. Schedules(woken, Begun(woken, FALSE)) /\ Schedules(woken, Scheduled(woken))
    BY <1>6, BegunFacts, ScheduledFacts
<1>8. \A k \in Loops : idle.loops[k] = r.loops[k] \/ idle.loops[k].at = "idle"
    BY <1>1, <1>2
<1>9. ASSUME NEW q \in {Begun(woken, FALSE), Scheduled(woken)}
      PROVE  Schedules(r, q)
    BY <1>6, <1>7, <1>8 DEF Schedules
<1>10. Schedules(r, idle)
    BY <1>2, <1>5, <1>8 DEF Schedules
<1> QED BY <1>3, <1>9, <1>10

(* The loop that ended does nothing, or was woken to select again. *)
LEMMA EndedSleeps ==
    ASSUME NEW r \in RunType, OneSlot(r), LoopsInv(r), NEW l \in Loops, Works(r, l),
           NEW mine \in BOOLEAN
    PROVE  Ended(r, l, mine).loops[l].at \in {"idle", "select"}
<1> DEFINE idle  == [r EXCEPT !.loops[l] = IdleLoop, !.running = FALSE]
           woken == [idle EXCEPT !.pending = FALSE]
<1>1. Ended(r, l, mine) \in {idle, Begun(woken, FALSE), Scheduled(woken)}
    <2>1. r.pending \in BOOLEAN
        BY DEF RunType
    <2> QED BY <2>1 DEF Ended
<1>2. IdleLoop \in Loop /\ IdleLoop.at = "idle"
    BY DEF IdleLoop, Loop, Stages
<1>3. /\ idle \in RunType /\ idle.running = FALSE /\ idle.loops[l] = IdleLoop
      /\ \A k \in Loops \ {l} : idle.loops[k] = r.loops[k]
    BY <1>2 DEF RunType
<1> HIDE DEF idle
<1>4. \A k \in Loops : ~Works(idle, k)
    BY <1>2, <1>3 DEF OneSlot, Works
<1>5. OneSlot(idle) /\ LoopsInv(idle)
    BY <1>2, <1>3, <1>4 DEF OneSlot, LoopsInv, Equipped, Works
<1>6. /\ woken \in RunType /\ OneSlot(woken) /\ LoopsInv(woken)
      /\ woken.running = FALSE /\ woken.loops = idle.loops
    BY <1>3, <1>5, FlagFacts DEF Schedules
<1> HIDE DEF woken
<1>7. Schedules(woken, Begun(woken, FALSE)) /\ Schedules(woken, Scheduled(woken))
    BY <1>6, BegunFacts, ScheduledFacts
<1>8. \A q \in {Begun(woken, FALSE), Scheduled(woken)} : q.loops[l].at \in {"idle", "select"}
    BY <1>2, <1>3, <1>6, <1>7 DEF Schedules
<1> QED BY <1>1, <1>2, <1>3, <1>8

(* The loop goes on to its next stage. *)
LEMMA GoesFacts ==
    ASSUME run \in RunType, OneSlot(run), LoopsInv(run), NEW l \in Loops, Works(run, l),
           NEW f \in Loop, f.at # "idle", Equipped(f), Goes(l, f)
    PROVE  /\ run' \in RunType /\ OneSlot(run') /\ LoopsInv(run')
           /\ run'.loops[l] = f /\ \A k \in Loops \ {l} : run'.loops[k] = run.loops[k]
           /\ \A k \in Loops \ {l} : run'.loops[k].at = "idle"
<1>1. /\ run' \in RunType /\ run'.running = run.running
      /\ run'.loops[l] = f /\ \A k \in Loops \ {l} : run'.loops[k] = run.loops[k]
    BY DEF Goes, RunType
<1>2. \A k \in Loops : Works(run', k) <=> Works(run, k)
    BY <1>1 DEF Works
<1>3. OneSlot(run')
    BY <1>1, <1>2 DEF OneSlot
<1>4. LoopsInv(run')
    BY <1>1 DEF LoopsInv
<1> QED BY <1>1, <1>2, <1>3, <1>4 DEF OneSlot, Works

(* Scheduling keeps the loops and what they wait for. *)
LEMMA SchedulingKeeps ==
    ASSUME RunInv, WaitInv, Schedules(run, run'), owed' = owed, delivered \subseteq delivered'
    PROVE  RunInv' /\ WaitInv'
<1>1. RunInv'
    BY DEF Schedules, RunInv
<1>2. WaitInv'
    <2> SUFFICES ASSUME NEW l \in Loops, TookQueued(run'.loops[l]) PROVE owed \subseteq delivered'
        BY DEF WaitInv
    <2>1. run'.loops[l] = run.loops[l]
        BY DEF Schedules, TookQueued
    <2> QED BY <2>1 DEF WaitInv
<1> QED BY <1>1, <1>2

-----------------------------------------------------------------------------
(* The board below the runner *)

(* The session id is no part of what makes a task good. *)
LEMMA SetSessionKeeps ==
    ASSUME BoardInv, NEW t \in Tasks, NEW s \in Sessions \cup {None}, SetTaskSessionId(t, s)
    PROVE  BoardInv'
<1> DEFINE q == [task[t] EXCEPT !.executionSessionId = s]
<1>1. task[t] \in Task /\ Good(task[t], origin[t])
    BY DEF BoardInv
<1>2. /\ q \in Task /\ q.lease = task[t].lease
      /\ q.status = task[t].status /\ q.acceptanceCriteria = task[t].acceptanceCriteria
      /\ q.claimedBy = task[t].claimedBy /\ q.executionSource = task[t].executionSource
      /\ q.blockedResumeStatus = task[t].blockedResumeStatus
    BY <1>1 DEF Task
<1>3. Good(q, origin[t])
    BY <1>1, <1>2 DEF Good, Ruled, Whole, Rooted
<1>4. task' = [task EXCEPT ![t] = q] /\ nextTask' = nextTask /\ origin' = origin
    BY DEF SetTaskSessionId
<1> HIDE DEF q
<1>5. \A u \in Tasks : Good(task'[u], origin'[u])
    BY <1>3, <1>4 DEF BoardInv
<1> QED BY <1>2, <1>4, <1>5 DEF BoardInv

-----------------------------------------------------------------------------
(* One lemma per step *)

LEMMA RepliesSame ==
    ASSUME ReplyInv, UNCHANGED <<turns, posted, delivered, merged, recent, barrier, owed>>
    PROVE  ReplyInv'
BY DEF ReplyInv

(* The runner is told of a change on the board, or is not. *)
LEMMA Told ==
    ASSUME RunnerGood, BoardInv', run' \in {run, Scheduled(run)}, Idle
    PROVE  RunnerGood'
<1>1. UNCHANGED <<booting, turns, posted, delivered, merged, recent, barrier, owed, failures, restarts>>
    BY DEF Idle, outbox, handoff
<1>2. Schedules(run, run')
    BY ScheduledFacts DEF RunnerGood, RunInv, Schedules
<1>3. RunInv' /\ WaitInv'
    BY <1>1, <1>2, SchedulingKeeps DEF RunnerGood
<1>4. ReplyInv' /\ CountInv'
    BY <1>1, RepliesSame DEF RunnerGood, CountInv
<1> QED BY <1>3, <1>4 DEF RunnerGood

LEMMA ActorsAreActors == Actors \subseteq Actor
BY DEF Actors, ToolActors

(* People and sessions at work on the board. *)
LEMMA OthersKeep ==
    ASSUME RunnerGood, NEW t \in Tasks,
           Person(t) \/ PersonDeletes(t) \/ (\E a \in Actors : Session(a, t)) \/ Quietly
    PROVE  RunnerGood'
<1>1. BoardInv /\ Patches(t) \subseteq Checklist /\ Asked \subseteq Statuses
    BY AskedAssumption, ChecklistsAssumption DEF RunnerGood, Patches, BoardInv, Task
<1>2. CASE Person(t)
    <2>1. BoardInv'
        <3>1. CASE \E s \in Asked, c \in NewChecklists : CreateTask(s, c)
            BY <1>1, <3>1, ChecklistsAssumption, CreateTaskKeeps
        <3>2. CASE \E s \in Asked, c \in Patches(t) : UpdateTask(t, s, c)
            BY <1>1, <3>2, UpdateTaskKeeps
        <3>3. CASE \E k \in Criteria, s \in {"pending", "done", "blocked"} : UpdateCriterion(t, k, s)
            BY <1>1, <3>3, UpdateCriterionKeeps
        <3> QED BY <1>2, <3>1, <3>2, <3>3 DEF Person
    <2> QED BY <1>2, <2>1, Told DEF Person, TaskUpdated
<1>3. CASE PersonDeletes(t)
    BY <1>1, <1>3, DeleteTaskKeeps, Told DEF PersonDeletes
<1>4. ASSUME NEW a \in Actors, Session(a, t) PROVE RunnerGood'
    <2>1. a \in Actor
        BY ActorsAreActors
    <2>2. BoardInv'
        <3>1. CASE \E s \in Asked, c \in Patches(t) : UpdateTaskFromExecution(t, a, s, c)
            BY <1>1, <3>1, UpdateTaskKeeps DEF UpdateTaskFromExecution
        <3>2. CASE \E k \in Criteria, s \in {"pending", "done", "blocked"} :
                       UpdateCriterionFromExecution(t, a, k, s)
            BY <1>1, <3>2, UpdateCriterionKeeps DEF UpdateCriterionFromExecution
        <3>3. CASE StartTaskExecution(t, a) \/ ClaimNextTask(t, a)
            BY <1>1, <2>1, <3>3, StartsKeep
        <3> QED BY <1>4, <3>1, <3>2, <3>3 DEF Session
    <2> QED BY <1>4, <2>2, Told DEF Session, TaskUpdated
<1>5. CASE Quietly
    <2>1. BoardInv'
        BY <1>1, <1>5, ListTasksKeeps, LeaseEndsKeeps DEF Quietly
    <2> QED BY <1>5, <2>1, Told DEF Quietly
<1> QED BY <1>2, <1>3, <1>4, <1>5

(* A run ends: nothing else changes but the board, a failure or the flags. *)
LEMMA RunEnds ==
    ASSUME RunnerGood, BoardInv', NEW r \in RunType, OneSlot(r), LoopsInv(r),
           r.loops = run.loops, NEW l \in Loops, Works(r, l), run' = Ended(r, l, FALSE),
           UNCHANGED <<booting, outbox, handoff, restarts>>,
           failures' \in 0 .. MaxFailures
    PROVE  RunnerGood'
<1>1. Schedules(r, run')
    BY EndedFacts
<1>2. Schedules(run, run')
    BY <1>1 DEF Schedules
<1>3. UNCHANGED <<turns, posted, delivered, merged, recent, barrier, owed>>
    BY DEF outbox, handoff
<1>4. RunInv' /\ WaitInv'
    BY <1>2, <1>3, SchedulingKeeps DEF RunnerGood
<1> QED BY <1>3, <1>4, RepliesSame DEF RunnerGood, CountInv

(* Choosing a task: queued work only when the barrier is open. *)
LEMMA SelectKeeps ==
    ASSUME RunnerGood, NEW l \in Loops, Select(l)
    PROVE  RunnerGood'
<1> DEFINE b      == Released(task)
           mine   == {t \in Tasks : Mine(b[t])}
           active == {t \in Tasks : b[t].status = "in_progress"}
           queued == {t \in Tasks : b[t].status = "queued" /\ b[t].executionSource # "session"}
           choice == CASE mine # {} -> mine
                       [] mine = {} /\ active = {} /\ barrier = {} -> queued
                       [] OTHER -> {}
           f(t)   == [run.loops[l] EXCEPT !.at = "bridge", !.task = t, !.continued = mine # {},
                                          !.session = b[t].executionSessionId]
<1>1. /\ At(l, "select") /\ Save(b) /\ UNCHANGED nextTask
      /\ \/ choice = {} /\ Returns(l)
         \/ \E t \in choice : Goes(l, f(t)) /\ UNCHANGED failures
      /\ UNCHANGED <<booting, outbox, handoff, restarts>>
    BY DEF Select
<1>2. BoardInv'
    BY <1>1, ReleaseKeeps DEF RunnerGood
<1>3. Works(run, l) /\ run \in RunType /\ OneSlot(run) /\ LoopsInv(run) /\ WaitInv
    BY <1>1 DEF At, Works, RunnerGood, RunInv
<1>4. CASE Returns(l)
    BY <1>1, <1>2, <1>3, <1>4, RunEnds DEF Returns, RunnerGood, CountInv
<1>5. ASSUME NEW t \in choice, Goes(l, f(t)), UNCHANGED failures
      PROVE  RunnerGood'
    <2>1. t \in Tasks /\ (mine = {} => barrier = {})
        BY <1>5
    <2>2. b[t] \in Task /\ run.loops[l] \in Loop
        BY <1>3, <2>1, ReleasedIsGood DEF RunnerGood, RunType
    <2> DEFINE m == mine # {}
    <2>3. m \in BOOLEAN
        OBVIOUS
    <2> HIDE DEF b
    <2>4. /\ f(t) \in Loop /\ f(t).at = "bridge" /\ f(t).task = t
          /\ f(t).continued = m
        BY <2>1, <2>2 DEF Loop, Stages, Task
    <2>5. Equipped(f(t)) /\ f(t).at # "idle"
        BY <2>1, <2>4 DEF Equipped
    <2> DEFINE g == f(t)
    <2> HIDE DEF f, g, m
    <2>6. /\ run' \in RunType /\ OneSlot(run') /\ LoopsInv(run')
          /\ run'.loops[l] = g
          /\ \A k \in Loops \ {l} : run'.loops[k].at = "idle"
        BY <1>3, <1>5, <2>4, <2>5, GoesFacts DEF g
    <2>7. UNCHANGED <<booting, turns, posted, delivered, merged, recent, barrier, owed, restarts>>
        BY <1>1 DEF outbox, handoff
    <2>8. TookQueued(g) => owed \subseteq delivered
        BY <2>1, <2>4 DEF TookQueued, RunnerGood, ReplyInv, g, m
    <2>9. WaitInv'
        BY <2>6, <2>7, <2>8 DEF WaitInv, TookQueued
    <2> QED BY <1>2, <1>5, <2>6, <2>7, <2>9, RepliesSame DEF RunnerGood, RunInv, CountInv
<1> QED BY <1>1, <1>4, <1>5

(* After a restart the session may still be busy. *)
LEMMA BusyKeeps ==
    ASSUME RunnerGood, NEW l \in Loops, Busy(l)
    PROVE  RunnerGood'
<1> DEFINE r == [run EXCEPT !.retry = TRUE]
<1>1. /\ At(l, "bridge") /\ run' = Ended(r, l, FALSE)
      /\ UNCHANGED <<task, nextTask, origin, booting, outbox, handoff, failures, restarts>>
    BY DEF Busy, board
<1>2. r \in RunType /\ OneSlot(r) /\ LoopsInv(r) /\ r.loops = run.loops /\ Works(r, l)
    BY <1>1, FlagFacts DEF RunnerGood, RunInv, Schedules, At, Works
<1>3. BoardInv'
    BY <1>1 DEF RunnerGood, BoardInv
<1> HIDE DEF r
<1> QED BY <1>1, <1>2, <1>3, RunEnds DEF RunnerGood, CountInv

(* The run goes to a stage with the board, the outbox and the handoff as   *)
(* they are, still waiting for no more than before.                        *)
LEMMA StageKeeps ==
    ASSUME RunnerGood, BoardInv', NEW l \in Loops, Works(run, l),
           NEW f \in Loop, f.at # "idle", Equipped(f), Goes(l, f),
           TookQueued(f) => TookQueued(run.loops[l]),
           UNCHANGED <<booting, outbox, handoff, failures, restarts>>
    PROVE  RunnerGood'
<1>1. UNCHANGED <<turns, posted, delivered, merged, recent, barrier, owed>>
    BY DEF outbox, handoff
<1>2. /\ run' \in RunType /\ OneSlot(run') /\ LoopsInv(run')
      /\ run'.loops[l] = f /\ \A k \in Loops \ {l} : run'.loops[k].at = "idle"
    BY GoesFacts DEF RunnerGood, RunInv
<1>3. WaitInv'
    BY <1>1, <1>2 DEF WaitInv, TookQueued, RunnerGood
<1> QED BY <1>1, <1>2, <1>3, RepliesSame DEF RunnerGood, RunInv, CountInv

LEMMA EnsureSessionKeeps ==
    ASSUME RunnerGood, NEW l \in Loops, EnsureSession(l)
    PROVE  RunnerGood'
<1> DEFINE t == run.loops[l].task
           s == IF run.loops[l].session # None THEN run.loops[l].session
                ELSE task[t].executionSessionId
           f == [run.loops[l] EXCEPT !.session = s,
                    !.at = IF s = None THEN "create" ELSE AfterSession(l)]
<1>1. /\ At(l, "bridge") /\ Goes(l, f)
      /\ UNCHANGED <<task, nextTask, origin, booting, outbox, handoff, failures, restarts>>
    BY DEF EnsureSession, board
<1>2. run.loops[l] \in Loop /\ Works(run, l) /\ t \in Tasks
    BY <1>1 DEF RunnerGood, RunInv, RunType, At, Works, LoopsInv, Equipped
<1>3. s \in Sessions \cup {None}
    BY <1>2 DEF RunnerGood, BoardInv, Task, Loop
<1> HIDE DEF s
<1>4. /\ f \in Loop /\ f.task = t /\ f.session = s
      /\ f.continued = run.loops[l].continued
      /\ f.at = IF s = None THEN "create"
                ELSE IF run.loops[l].continued THEN "send" ELSE "start"
    BY <1>2, <1>3 DEF Loop, Stages, AfterSession
<1>5. Equipped(f) /\ f.at # "idle"
    BY <1>2, <1>3, <1>4 DEF Equipped
<1>6. TookQueued(f) => TookQueued(run.loops[l])
    BY <1>1, <1>4 DEF TookQueued, At
<1>7. BoardInv'
    BY <1>1 DEF RunnerGood, BoardInv
<1> HIDE DEF f
<1> QED BY <1>1, <1>2, <1>4, <1>5, <1>6, <1>7, StageKeeps

LEMMA CreateSessionKeeps ==
    ASSUME RunnerGood, NEW l \in Loops, CreateSession(l)
    PROVE  RunnerGood'
<1> DEFINE t == run.loops[l].task
           f(s) == [run.loops[l] EXCEPT !.at = AfterSession(l), !.session = s]
<1>1. /\ At(l, "create")
      /\ UNCHANGED <<booting, outbox, handoff, failures, restarts>>
    BY DEF CreateSession
<1>2. /\ run.loops[l] \in Loop /\ Works(run, l) /\ t \in Tasks
      /\ run \in RunType /\ OneSlot(run) /\ LoopsInv(run)
    BY <1>1 DEF RunnerGood, RunInv, RunType, At, Works, LoopsInv, Equipped
<1>3. CASE task[t].status = "absent"
    <2>1. run' = Ended(run, l, FALSE) /\ UNCHANGED board
        BY <1>3 DEF CreateSession
    <2>2. BoardInv'
        BY <2>1 DEF board, RunnerGood, BoardInv
    <2> QED BY <1>1, <1>2, <2>1, <2>2, RunEnds DEF RunnerGood, CountInv
<1>4. CASE task[t].status # "absent"
    <2>1. PICK s \in Sessions : SetTaskSessionId(t, s) /\ Goes(l, f(s))
        BY <1>4 DEF CreateSession
    <2>2. BoardInv'
        BY <1>2, <2>1, SetSessionKeeps DEF RunnerGood
    <2>3. /\ f(s) \in Loop /\ f(s).task = t /\ f(s).session = s
          /\ f(s).at = IF run.loops[l].continued THEN "send" ELSE "start"
        BY <1>2, <2>1 DEF Loop, Stages, AfterSession
    <2>4. Equipped(f(s)) /\ f(s).at # "idle"
        BY <1>2, <2>1, <2>3 DEF Equipped
    <2>5. TookQueued(f(s)) => TookQueued(run.loops[l])
        BY <1>1, <2>3 DEF TookQueued, At
    <2> DEFINE g == f(s)
    <2>6. g \in Loop /\ g.at # "idle" /\ Equipped(g) /\ Goes(l, g)
          /\ (TookQueued(g) => TookQueued(run.loops[l]))
        BY <2>1, <2>3, <2>4, <2>5
    <2> HIDE DEF g, f
    <2> QED BY <1>1, <1>2, <2>2, <2>6, StageKeeps
<1> QED BY <1>3, <1>4

LEMMA RunnerActs ==
    ASSUME RunnerGood, NEW l \in Loops, At(l, "start")
    PROVE  RunnerActor(l) \in Actor
BY DEF RunnerActor, Actor, RunnerGood, RunInv, LoopsInv, Equipped, At

LEMMA StartKeeps ==
    ASSUME RunnerGood, NEW l \in Loops, Start(l)
    PROVE  RunnerGood'
<1> DEFINE f == [run.loops[l] EXCEPT !.at = "send"]
<1>1. /\ At(l, "start") /\ StartTaskExecution(run.loops[l].task, RunnerActor(l)) /\ Goes(l, f)
      /\ UNCHANGED <<booting, outbox, handoff, failures, restarts>>
    BY DEF Start
<1>2. /\ run.loops[l] \in Loop /\ Works(run, l) /\ run.loops[l].task \in Tasks
      /\ run.loops[l].session \in Sessions
    BY <1>1 DEF RunnerGood, RunInv, RunType, At, Works, LoopsInv, Equipped
<1>3. BoardInv'
    BY <1>1, <1>2, RunnerActs, StartsKeep DEF RunnerGood
<1>4. /\ f \in Loop /\ f.at = "send" /\ f.task = run.loops[l].task
      /\ f.session = run.loops[l].session
    BY <1>2 DEF Loop, Stages
<1>5. Equipped(f) /\ ~TookQueued(f)
    BY <1>2, <1>4 DEF Equipped, TookQueued
<1> HIDE DEF f
<1> QED BY <1>1, <1>2, <1>3, <1>4, <1>5, StageKeeps

(* The start is lost to somebody else, or the run fails. *)
LEMMA RunStops ==
    ASSUME RunnerGood, NEW l \in Loops, LosesStart(l) \/ Fails(l)
    PROVE  RunnerGood'
<1>1. /\ Works(run, l) /\ run' = Ended(run, l, FALSE)
      /\ UNCHANGED <<task, nextTask, origin, booting, outbox, handoff, restarts>>
      /\ failures' = failures \/ (failures < MaxFailures /\ failures' = failures + 1)
    BY DEF LosesStart, Fails, Returns, Throws, At, Works, board
<1>2. failures \in 0 .. MaxFailures
    BY DEF RunnerGood, CountInv
<1>3. failures' \in 0 .. MaxFailures
    BY <1>1, <1>2, BoundsAssumption
<1>4. BoardInv'
    BY <1>1 DEF RunnerGood, BoardInv
<1> QED BY <1>1, <1>3, <1>4, RunEnds DEF RunnerGood, RunInv

(* A reply is enqueued under a new turn. *)
LEMMA RepliesKeeps ==
    ASSUME RunnerGood, NEW l \in Loops, Replies(l)
    PROVE  RunnerGood'
<1> DEFINE f == [run.loops[l] EXCEPT !.at = "load"]
<1>1. /\ At(l, "send") /\ turns < MaxTurns /\ turns' = turns + 1
      /\ posted' = posted \cup Reply(turns')
      /\ merged' \in {merged, merged \cup {<<turns', 1>>}}
      /\ recent' = [recent EXCEPT ![run.loops[l].session] = Reply(turns')]
      /\ Goes(l, f)
      /\ UNCHANGED <<task, nextTask, origin, booting, delivered, barrier, owed, failures, restarts>>
    BY DEF Replies, board
<1>2. /\ run.loops[l] \in Loop /\ Works(run, l) /\ run.loops[l].task \in Tasks
      /\ run.loops[l].session \in Sessions
      /\ run \in RunType /\ OneSlot(run) /\ LoopsInv(run)
    BY <1>1 DEF RunnerGood, RunInv, RunType, At, Works, LoopsInv, Equipped
<1>3. /\ f \in Loop /\ f.at = "load" /\ f.task = run.loops[l].task
      /\ f.session = run.loops[l].session
    BY <1>2 DEF Loop, Stages
<1>4. Equipped(f) /\ ~TookQueued(f)
    BY <1>2, <1>3 DEF Equipped, TookQueued
<1> HIDE DEF f
<1>5. /\ run' \in RunType /\ OneSlot(run') /\ LoopsInv(run')
      /\ run'.loops[l] = f /\ \A k \in Loops \ {l} : run'.loops[k].at = "idle"
    BY <1>1, <1>2, <1>3, <1>4, GoesFacts
<1>6. WaitInv'
    BY <1>1, <1>4, <1>5 DEF WaitInv, TookQueued
<1>7. ReplyInv'
    <2>1. /\ turns \in 0 .. MaxTurns /\ turns' \in 0 .. MaxTurns /\ turns' \in 1 .. MaxTurns
          /\ \A n \in 0 .. turns : n \in 0 .. turns'
          /\ turns' \in 0 .. turns'
        BY <1>1, BoundsAssumption DEF RunnerGood, ReplyInv
    <2>2. <<turns', 1>> \in Reply(turns') /\ Reply(turns') \subseteq Items
        BY <2>1, ChunksAssumption DEF Reply, Items
    <2>3. delivered' \subseteq posted' /\ merged' \subseteq posted' /\ posted' \subseteq Items
        BY <1>1, <2>2 DEF RunnerGood, ReplyInv
    <2>4. recent' \in [Sessions -> SUBSET posted']
        BY <1>1, <1>2 DEF RunnerGood, ReplyInv
    <2>5. \A s \in Sessions : \E n \in 0 .. turns' : recent'[s] \subseteq Reply(n)
        BY <1>1, <1>2, <2>1 DEF RunnerGood, ReplyInv
    <2>6. \E n \in 0 .. turns' : owed \subseteq Reply(n)
        BY <2>1 DEF RunnerGood, ReplyInv
    <2>7. barrier' \subseteq owed' /\ owed' \ delivered' \subseteq barrier'
        BY <1>1 DEF RunnerGood, ReplyInv
    <2> QED BY <1>1, <2>1, <2>3, <2>4, <2>5, <2>6, <2>7 DEF ReplyInv
<1>8. BoardInv' /\ CountInv'
    BY <1>1 DEF RunnerGood, BoardInv, CountInv
<1> QED BY <1>5, <1>6, <1>7, <1>8 DEF RunnerGood, RunInv

(* Nobody to reply to: what is remembered may be forgotten. *)
LEMMA RepliesToNobodyKeeps ==
    ASSUME RunnerGood, NEW l \in Loops, RepliesToNobody(l)
    PROVE  RunnerGood'
<1> DEFINE f == [run.loops[l] EXCEPT !.at = "load"]
<1>1. /\ At(l, "send")
      /\ recent' \in {recent, [recent EXCEPT ![run.loops[l].session] = {}]}
      /\ Goes(l, f)
      /\ UNCHANGED <<task, nextTask, origin, booting, turns, posted, delivered, merged,
                     barrier, owed, failures, restarts>>
    BY DEF RepliesToNobody, Remembered, board, outbox
<1>2. /\ run.loops[l] \in Loop /\ Works(run, l) /\ run.loops[l].task \in Tasks
      /\ run.loops[l].session \in Sessions
      /\ run \in RunType /\ OneSlot(run) /\ LoopsInv(run)
    BY <1>1 DEF RunnerGood, RunInv, RunType, At, Works, LoopsInv, Equipped
<1>3. /\ f \in Loop /\ f.at = "load" /\ f.task = run.loops[l].task
      /\ f.session = run.loops[l].session
    BY <1>2 DEF Loop, Stages
<1>4. Equipped(f) /\ ~TookQueued(f)
    BY <1>2, <1>3 DEF Equipped, TookQueued
<1> HIDE DEF f
<1>5. /\ run' \in RunType /\ OneSlot(run') /\ LoopsInv(run')
      /\ run'.loops[l] = f /\ \A k \in Loops \ {l} : run'.loops[k].at = "idle"
    BY <1>1, <1>2, <1>3, <1>4, GoesFacts
<1>6. WaitInv'
    BY <1>1, <1>4, <1>5 DEF WaitInv, TookQueued
<1>7. ReplyInv'
    <2>1. recent' \in [Sessions -> SUBSET posted]
        BY <1>1, <1>2 DEF RunnerGood, ReplyInv
    <2>2. \A s \in Sessions : \E n \in 0 .. turns : recent'[s] \subseteq Reply(n)
        BY <1>1, <1>2 DEF RunnerGood, ReplyInv
    <2> QED BY <1>1, <2>1, <2>2 DEF RunnerGood, ReplyInv
<1>8. BoardInv' /\ CountInv'
    BY <1>1 DEF RunnerGood, BoardInv, CountInv
<1> QED BY <1>5, <1>6, <1>7, <1>8 DEF RunnerGood, RunInv

(* A turn is over: its reply becomes the barrier, or the run goes on. *)
LEMMA FinishKeeps ==
    ASSUME RunnerGood, NEW l \in Loops, Finish(l)
    PROVE  RunnerGood'
<1> DEFINE b == Released(task)
           t == b[run.loops[l].task]
           reply == recent[run.loops[l].session]
<1>1. /\ At(l, "load") /\ Save(b) /\ UNCHANGED nextTask
      /\ IF HandsOver(t.status)
         THEN /\ barrier' = reply /\ owed' = reply
              /\ run' = Ended(IF reply = {} THEN Scheduled(run) ELSE run, l, FALSE)
         ELSE /\ run' = Ended(IF Mine(t) THEN Scheduled(run) ELSE run, l, Mine(t))
              /\ UNCHANGED <<barrier, owed>>
      /\ UNCHANGED <<booting, turns, posted, delivered, merged, recent, failures, restarts>>
    BY DEF Finish, outbox
<1>2. BoardInv'
    BY <1>1, ReleaseKeeps DEF RunnerGood
<1>3. /\ Works(run, l) /\ run.loops[l].session \in Sessions
      /\ run \in RunType /\ OneSlot(run) /\ LoopsInv(run)
    BY <1>1 DEF RunnerGood, RunInv, At, Works, LoopsInv, Equipped
<1>4. Mine(t) \in BOOLEAN
    BY DEF Mine
<1> HIDE DEF t, reply
<1>5. /\ Scheduled(run) \in RunType /\ OneSlot(Scheduled(run)) /\ LoopsInv(Scheduled(run))
      /\ Scheduled(run).loops = run.loops
    BY <1>3, ScheduledAtWork, FlagFacts DEF Schedules
<1>6. ASSUME NEW r \in {run, Scheduled(run)}, NEW m \in BOOLEAN, run' = Ended(r, l, m)
      PROVE  Schedules(run, run') /\ \A k \in Loops : run'.loops[k].at \in {"idle", "select"}
    <2>1. r \in RunType /\ OneSlot(r) /\ LoopsInv(r) /\ r.loops = run.loops /\ Works(r, l)
        BY <1>3, <1>5 DEF Works
    <2>2. Schedules(r, run')
        BY <1>6, <2>1, EndedFacts
    <2>3. \A k \in Loops \ {l} : run.loops[k].at = "idle"
        BY <1>3 DEF OneSlot, Works
    <2>4. Ended(r, l, m).loops[l].at \in {"idle", "select"}
        BY <2>1, EndedSleeps
    <2> QED BY <1>6, <2>1, <2>2, <2>3, <2>4 DEF Schedules, Works
<1>7. \E r \in {run, Scheduled(run)}, m \in BOOLEAN : run' = Ended(r, l, m)
    <2>1. CASE HandsOver(t.status)
        BY <1>1, <2>1
    <2>2. CASE ~HandsOver(t.status)
        BY <1>1, <1>4, <2>2
    <2> QED BY <2>1, <2>2
<1>8. RunInv' /\ WaitInv'
    BY <1>6, <1>7 DEF RunInv, Schedules, WaitInv, TookQueued
<1>9. ReplyInv'
    <2>1. CASE HandsOver(t.status)
        <3>1. barrier' = reply /\ owed' = reply
            BY <1>1, <2>1
        <3>2. \E n \in 0 .. turns : reply \subseteq Reply(n)
            BY <1>3 DEF RunnerGood, ReplyInv, reply
        <3> QED BY <1>1, <3>1, <3>2 DEF RunnerGood, ReplyInv
    <2>2. CASE ~HandsOver(t.status)
        <3>1. barrier' = barrier /\ owed' = owed
            BY <1>1, <2>2
        <3> QED BY <1>1, <3>1 DEF RunnerGood, ReplyInv
    <2> QED BY <2>1, <2>2
<1>10. CountInv'
    BY <1>1 DEF RunnerGood, CountInv
<1> QED BY <1>2, <1>8, <1>9, <1>10 DEF RunnerGood

(* The retry timer fires. *)
LEMMA RetryKeeps ==
    ASSUME RunnerGood, RetryFires
    PROVE  RunnerGood'
<1> DEFINE r == [run EXCEPT !.retry = FALSE]
<1>1. /\ run' = IF r.running THEN [r EXCEPT !.pending = TRUE] ELSE Begun(r, TRUE)
      /\ UNCHANGED <<task, nextTask, origin, booting, turns, posted, delivered, merged,
                     recent, barrier, owed, failures, restarts>>
    BY DEF RetryFires, board, outbox, handoff
<1>2. Schedules(run, r) /\ r \in RunType /\ OneSlot(r) /\ LoopsInv(r) /\ r.loops = run.loops
    BY FlagFacts DEF RunnerGood, RunInv, Schedules
<1> HIDE DEF r
<1>3. Schedules(r, run')
    BY <1>1, <1>2, BegunFacts, FlagFacts
<1>4. Schedules(run, run')
    BY <1>2, <1>3 DEF Schedules
<1>5. RunInv' /\ WaitInv'
    BY <1>1, <1>4, SchedulingKeeps DEF RunnerGood
<1>6. BoardInv' /\ CountInv' /\ ReplyInv'
    BY <1>1, RepliesSame DEF RunnerGood, BoardInv, CountInv
<1> QED BY <1>5, <1>6 DEF RunnerGood

(* The startup run looks at the board. *)
LEMMA RunOnceKeeps ==
    ASSUME RunnerGood, RunOnce
    PROVE  RunnerGood'
<1>1. /\ booting' = FALSE /\ Save(Released(task)) /\ UNCHANGED nextTask
      /\ run' = run \/ (~run.running /\ run' = Begun(run, TRUE))
      /\ UNCHANGED <<turns, posted, delivered, merged, recent, barrier, owed, failures, restarts>>
    BY DEF RunOnce, outbox, handoff
<1>2. BoardInv'
    BY <1>1, ReleaseKeeps DEF RunnerGood
<1>3. Schedules(run, run')
    BY <1>1, BegunFacts DEF RunnerGood, RunInv, Schedules
<1>4. RunInv' /\ WaitInv'
    BY <1>1, <1>3, SchedulingKeeps DEF RunnerGood
<1>5. CountInv' /\ ReplyInv'
    BY <1>1, RepliesSame DEF RunnerGood, CountInv
<1> QED BY <1>2, <1>4, <1>5 DEF RunnerGood

(* A chunk is delivered. *)
LEMMA DeliverKeeps ==
    ASSUME RunnerGood, NEW i \in Items, Deliver(i)
    PROVE  RunnerGood'
<1>1. /\ i \in posted /\ delivered' = delivered \cup {i}
      /\ barrier' \in {barrier, barrier \ {i}}
      /\ run' \in {run, Scheduled(run)}
      /\ UNCHANGED <<task, nextTask, origin, booting, turns, posted, merged, recent, owed,
                     failures, restarts>>
    BY DEF Deliver, Advanced, board
<1>2. Schedules(run, run')
    BY <1>1, ScheduledFacts DEF RunnerGood, RunInv, Schedules
<1>3. RunInv' /\ WaitInv'
    BY <1>1, <1>2, SchedulingKeeps DEF RunnerGood
<1>4. ReplyInv'
    BY <1>1 DEF RunnerGood, ReplyInv
<1>5. BoardInv' /\ CountInv'
    BY <1>1 DEF RunnerGood, BoardInv, CountInv
<1> QED BY <1>3, <1>4, <1>5 DEF RunnerGood

LEMMA AsleepIsGood ==
    AsleepRun \in RunType /\ OneSlot(AsleepRun) /\ LoopsInv(AsleepRun)
    /\ \A l \in Loops : AsleepRun.loops[l].at = "idle"
<1>1. IdleLoop \in Loop /\ IdleLoop.at = "idle"
    BY DEF IdleLoop, Loop, Stages
<1>2. AsleepRun.running = FALSE /\ \A l \in Loops : AsleepRun.loops[l] = IdleLoop
    BY DEF AsleepRun
<1>3. AsleepRun \in RunType
    BY <1>1 DEF AsleepRun, RunType
<1> QED BY <1>1, <1>2, <1>3 DEF OneSlot, LoopsInv, Works, Equipped

(* A restart: the barrier is reconciled with what was delivered. *)
LEMMA RestartKeeps ==
    ASSUME RunnerGood, Restart
    PROVE  RunnerGood'
<1>1. /\ restarts < MaxRestarts /\ restarts' = restarts + 1
      /\ run' = AsleepRun /\ booting' = TRUE
      /\ recent' = [s \in Sessions |-> {}]
      /\ barrier' = barrier \ delivered
      /\ UNCHANGED <<task, nextTask, origin, turns, posted, delivered, merged, owed, failures>>
    BY DEF Restart, Reconciled, board, outbox
<1>2. RunInv' /\ WaitInv'
    BY <1>1, AsleepIsGood DEF RunInv, WaitInv, TookQueued
<1>3. ReplyInv'
    <2>1. 0 \in 0 .. turns
        BY BoundsAssumption DEF RunnerGood, ReplyInv
    <2>2. \A s \in Sessions : recent'[s] = {}
        BY <1>1
    <2>3. recent' \in [Sessions -> SUBSET posted]
        BY <1>1
    <2> QED BY <1>1, <2>1, <2>2, <2>3 DEF RunnerGood, ReplyInv
<1>4. restarts \in 0 .. MaxRestarts
    BY DEF RunnerGood, CountInv
<1>5. restarts' \in 0 .. MaxRestarts
    BY <1>1, <1>4, BoundsAssumption
<1>6. BoardInv' /\ CountInv'
    BY <1>1, <1>5 DEF RunnerGood, BoardInv, CountInv
<1> QED BY <1>2, <1>3, <1>6 DEF RunnerGood

-----------------------------------------------------------------------------
(* The invariant *)

LEMMA RunnerInit == Init => RunnerGood
<1> SUFFICES ASSUME Init PROVE RunnerGood
    OBVIOUS
<1>1. BoardInv
    BY InitIsGood DEF Init
<1>2. RunInv /\ WaitInv
    BY AsleepIsGood DEF Init, RunInv, WaitInv, TookQueued
<1>3. 0 \in 0 .. MaxTurns /\ 0 \in 0 .. 0 /\ 0 \in 0 .. MaxFailures /\ 0 \in 0 .. MaxRestarts
    BY BoundsAssumption
<1>4. ReplyInv
    <2>1. turns = 0 /\ posted = {} /\ delivered = {} /\ merged = {} /\ owed = {} /\ barrier = {}
          /\ recent = [s \in Sessions |-> {}]
        BY DEF Init
    <2> QED BY <1>3, <2>1 DEF ReplyInv
<1>5. CountInv
    BY <1>3 DEF Init, CountInv
<1> QED BY <1>1, <1>2, <1>4, <1>5 DEF RunnerGood

LEMMA RunnerStep == RunnerGood /\ [Next]_vars => RunnerGood'
<1> SUFFICES ASSUME RunnerGood, [Next]_vars PROVE RunnerGood'
    OBVIOUS
<1>1. ASSUME NEW t \in Tasks, Person(t) \/ PersonDeletes(t) \/ \E a \in Actors : Session(a, t)
      PROVE  RunnerGood'
    BY <1>1, OthersKeep
<1>2. ASSUME Quietly PROVE RunnerGood'
    <2>1. PICK t \in Tasks : TRUE
        BY <1>2 DEF Quietly, ListTasks
    <2> QED BY <1>2, <2>1, OthersKeep
<1>3. ASSUME NEW l \in Loops, LoopStep(l) \/ Busy(l) \/ Fails(l) PROVE RunnerGood'
    BY <1>3, SelectKeeps, EnsureSessionKeeps, CreateSessionKeeps, StartKeeps, RunStops,
       RepliesKeeps, RepliesToNobodyKeeps, FinishKeeps, BusyKeeps DEF LoopStep
<1>4. ASSUME RetryFires \/ RunOnce \/ Restart \/ \E i \in Items : Deliver(i)
      PROVE  RunnerGood'
    BY <1>4, RetryKeeps, RunOnceKeeps, RestartKeeps, DeliverKeeps
<1>5. ASSUME UNCHANGED vars PROVE RunnerGood'
    <2>1. UNCHANGED <<task, nextTask, origin, run, booting, turns, posted, delivered, merged,
                      recent, barrier, owed, failures, restarts>>
        BY <1>5 DEF vars, board, outbox, handoff
    <2> QED BY <2>1, RepliesSame
            DEF RunnerGood, BoardInv, RunInv, WaitInv, CountInv, OneSlot, LoopsInv, Works
<1> QED BY <1>1, <1>2, <1>3, <1>4, <1>5 DEF Next

LEMMA RunnerInvariance == Spec => []RunnerGood
BY RunnerInit, RunnerStep, PTL DEF Spec

(* The runner's memory, the barrier and the outbox stay well-formed, and   *)
(* runProject "never overlaps the same project twice", however task        *)
(* events, releases, the retry timer, startup and follow-ups interleave.   *)
THEOREM RunsDoNotOverlap == Spec => []RunnerInv
<1>1. RunnerGood => BoardTypeOK
    BY DEF RunnerGood, BoardInv, BoardTypeOK, Origins
<1>2. RunnerGood => RunnerTypeOK
    <2> SUFFICES ASSUME RunnerGood PROVE RunnerTypeOK
        OBVIOUS
    <2>1. PICK n \in 0 .. turns : owed \subseteq Reply(n)
        BY DEF RunnerGood, ReplyInv
    <2>2. barrier \subseteq Reply(n)
        BY <2>1 DEF RunnerGood, ReplyInv
    <2>3. \E m \in 0 .. turns : barrier \subseteq Reply(m) /\ owed \subseteq Reply(m)
        BY <2>1, <2>2
    <2>4. run \in [loops : [Loops -> Loop], running : BOOLEAN, pending : BOOLEAN, retry : BOOLEAN]
        BY DEF RunnerGood, RunInv, RunType
    <2> QED BY <1>1, <2>3, <2>4 DEF RunnerGood, ReplyInv, CountInv, RunnerTypeOK
<1>3. RunnerGood => OneRunPerProject
    <2> SUFFICES ASSUME RunnerGood PROVE OneRunPerProject
        OBVIOUS
    <2> DEFINE busy == {l \in Loops : ~At(l, "idle")}
    <2>1. /\ \A l, k \in busy : l = k
          /\ run.running <=> \E l \in Loops : ~At(l, "idle")
        BY DEF RunnerGood, RunInv, OneSlot, Works, At
    <2>2. CASE busy = {}
        BY <2>1, <2>2, FS_EmptySet DEF OneRunPerProject
    <2>3. ASSUME NEW l \in busy PROVE OneRunPerProject
        <3>1. busy = {l}
            BY <2>1, <2>3
        <3>2. Cardinality(busy) = 1
            BY <3>1, FS_Singleton
        <3> QED BY <2>1, <3>2 DEF OneRunPerProject
    <2> QED BY <2>2, <2>3
<1> QED BY <1>2, <1>3, RunnerInvariance, PTL DEF RunnerInv

(* The rules of the board hold under the runner too, whose recording of a  *)
(* new session is no operation of the board service: statuses follow the   *)
(* checklist, owners are whole, and blocked work remembers where it was.   *)
THEOREM RunnerKeepsTheBoard ==
    Spec => [](BoardTypeOK /\ ChecklistRulesStatus /\ OwnershipIsWhole /\ ResumeKeepsOrigin)
<1>1. BoardInv => BoardTypeOK
    BY DEF BoardInv, BoardTypeOK, Origins
<1>2. BoardInv => ChecklistRulesStatus
    BY DEF BoardInv, Good, Ruled, ChecklistRulesStatus
<1>3. BoardInv => OwnershipIsWhole
    BY DEF BoardInv, Good, Whole, OwnershipIsWhole
<1>4. BoardInv => ResumeKeepsOrigin
    BY DEF BoardInv, Good, Rooted, ResumeKeepsOrigin
<1>5. RunnerGood => BoardInv
    BY DEF RunnerGood
<1> QED BY <1>1, <1>2, <1>3, <1>4, <1>5, RunnerInvariance, PTL

-----------------------------------------------------------------------------
(* Who takes a queued task *)

(* Nobody's claim but the runner's own makes a task the runner's.          *)
Unclaimed(b, e) == \A u \in Tasks : e[u].claimedBy \in {b[u].claimedBy, None} \cup Agents

LEMMA DisownedClaims ==
    ASSUME NEW r \in Task
    PROVE  DisownedIfIdle(r).claimedBy \in {r.claimedBy, None}
BY DisownedFields DEF DisownedIfIdle

LEMMA PatchedClaims ==
    ASSUME NEW r \in Task, NEW s, NEW c
    PROVE  Patched(r, s, c).claimedBy \in {r.claimedBy, None}
<1> DEFINE v == Resolve(s, c)
           q == [r EXCEPT !.acceptanceCriteria = c, !.status = v,
                          !.blockedResumeStatus = IF v = "blocked" THEN ResumePoint(r) ELSE "none"]
<1>1. q.claimedBy = r.claimedBy
    BY DEF Task
<1>2. Patched(r, s, c) \in {q, Disowned(q)}
    BY DEF Patched, DisownedIfIdle
<1>3. Disowned(q).claimedBy = None
    BY DEF Disowned, Task
<1> QED BY <1>1, <1>2, <1>3

LEMMA CriterionClaims ==
    ASSUME BoardInv, NEW t \in Tasks, NEW k \in Criteria,
           NEW status \in {"pending", "done", "blocked"}
    PROVE  CriterionPatched(t, k, status).claimedBy \in {task[t].claimedBy, None}
<1> DEFINE r == task[t]
           c == [r.acceptanceCriteria EXCEPT ![k] = status]
           s == Resolve(Requested(t), c)
           p1 == [r EXCEPT !.acceptanceCriteria = c, !.status = "blocked",
                           !.blockedResumeStatus = ResumePoint(r)]
           p2 == [r EXCEPT !.acceptanceCriteria = c, !.status = "blocked"]
           p3 == [r EXCEPT !.acceptanceCriteria = c, !.status = s, !.blockedResumeStatus = "none"]
<1>1. r \in Task
    BY DEF BoardInv
<1>2. CriterionPatched(t, k, status) \in {p1, p2, p3, Disowned(p3)}
    BY DEF CriterionPatched, DisownedIfIdle
<1>3. /\ p1.claimedBy = r.claimedBy /\ p2.claimedBy = r.claimedBy
      /\ p3.claimedBy = r.claimedBy /\ Disowned(p3).claimedBy = None
    BY <1>1 DEF Task, Disowned
<1> QED BY <1>2, <1>3

LEMMA ReleasedClaims ==
    ASSUME BoardInv
    PROVE  Unclaimed(task, Released(task))
<1>1. ASSUME NEW u \in Tasks
      PROVE  Released(task)[u].claimedBy \in {task[u].claimedBy, None}
    <2>1. task[u] \in Task
        BY DEF BoardInv
    <2>2. Released(task)[u] \in {task[u], Disowned([task[u] EXCEPT !.status = "queued"])}
        BY DEF Released
    <2>3. Disowned([task[u] EXCEPT !.status = "queued"]).claimedBy = None
        BY <2>1 DEF Disowned, Task
    <2> QED BY <2>2, <2>3
<1> QED BY <1>1 DEF Unclaimed

(* One task is written, and not for the runner. *)
LEMMA WrittenClaims ==
    ASSUME BoardInv, NEW b \in {task, Released(task)}, NEW t \in Tasks, NEW r,
           task' = [b EXCEPT ![t] = r], r.claimedBy \in {task[t].claimedBy, None} \cup Agents
    PROVE  Unclaimed(task, task')
<1>1. b \in [Tasks -> Task] /\ Unclaimed(task, b)
    BY ReleasedIsGood, ReleasedClaims DEF BoardInv, Unclaimed
<1> QED BY <1>1 DEF Unclaimed

(* A tool's claim is made out to its agent. *)
LEMMA StartedClaims ==
    ASSUME NEW r \in Task, NEW a \in Actor
    PROVE  /\ Started(r, a).claimedBy = a.agentId
           /\ [Started(r, a) EXCEPT !.executionSessionId = a.sessionId].claimedBy = a.agentId
BY StartedFields DEF Started, Task

LEMMA OthersDontClaim ==
    ASSUME BoardInv, NEW t \in Tasks,
           Person(t) \/ PersonDeletes(t) \/ (\E a \in Actors : Session(a, t)) \/ Quietly
    PROVE  Unclaimed(task, task')
<1>1. /\ task \in [Tasks -> Task] /\ Patches(t) \subseteq Checklist /\ Asked \subseteq Statuses
      /\ NewChecklists \subseteq Checklist
    BY AskedAssumption, ChecklistsAssumption DEF Patches, BoardInv, Task
<1>2. ASSUME NEW s \in Asked, NEW c \in NewChecklists, CreateTask(s, c)
      PROVE  Unclaimed(task, task')
    <2> DEFINE r == [NoTask EXCEPT !.status = Resolve(s, c), !.acceptanceCriteria = c]
    <2>1. r.claimedBy = None
        BY DEF NoTask
    <2>2. task' = [task EXCEPT ![nextTask] = r]
        BY <1>2 DEF CreateTask, Save
    <2> HIDE DEF r
    <2> QED BY <1>1, <2>1, <2>2 DEF Unclaimed
<1>3. ASSUME NEW s \in Asked, NEW c \in Patches(t), UpdateTask(t, s, c)
      PROVE  Unclaimed(task, task')
    <2>1. task' = [task EXCEPT ![t] = Patched(task[t], s, c)]
        BY <1>3 DEF UpdateTask, Save
    <2>2. Patched(task[t], s, c).claimedBy \in {task[t].claimedBy, None}
        BY <1>1, PatchedClaims
    <2> QED BY <2>1, <2>2, WrittenClaims
<1>4. ASSUME NEW k \in Criteria, NEW s \in {"pending", "done", "blocked"}, UpdateCriterion(t, k, s)
      PROVE  Unclaimed(task, task')
    <2>1. task' = [task EXCEPT ![t] = CriterionPatched(t, k, s)]
        BY <1>4 DEF UpdateCriterion, Save
    <2> QED BY <2>1, CriterionClaims, WrittenClaims
<1>5. CASE PersonDeletes(t)
    <2>1. task' = [task EXCEPT ![t] = NoTask] /\ NoTask.claimedBy = None
        BY <1>5 DEF PersonDeletes, DeleteTask, Save, NoTask
    <2> QED BY <2>1, WrittenClaims
<1>6. ASSUME NEW a \in Actors, StartTaskExecution(t, a) \/ ClaimNextTask(t, a)
      PROVE  Unclaimed(task, task')
    <2>1. a \in Actor /\ a.agentId \in Agents
        BY DEF Actors, ToolActors
    <2>2. Released(task)[t] \in Task
        BY ReleasedIsGood
    <2>3. PICK r : task' = [Released(task) EXCEPT ![t] = r] /\ r.claimedBy = a.agentId
        BY <1>6, <2>1, <2>2, StartedClaims DEF StartTaskExecution, ClaimNextTask, Save
    <2> QED BY <2>1, <2>3, WrittenClaims
<1>7. CASE Quietly
    <2>1. CASE ListTasks
        BY <2>1, ReleasedClaims DEF ListTasks, Save
    <2>2. ASSUME NEW u \in Tasks, LeaseEnds(u) PROVE Unclaimed(task, task')
        BY <1>1, <2>2 DEF LeaseEnds, Unclaimed, Task
    <2> QED BY <1>7, <2>1, <2>2 DEF Quietly
<1>8. ASSUME NEW a \in Actors, Session(a, t) PROVE Unclaimed(task, task')
    BY <1>3, <1>4, <1>6, <1>8
       DEF Session, UpdateTaskFromExecution, UpdateCriterionFromExecution
<1>9. CASE Person(t)
    BY <1>2, <1>3, <1>4, <1>9 DEF Person
<1> QED BY <1>5, <1>7, <1>8, <1>9

(* A queued task has no owner, so what claims nothing does not take it.    *)
LEMMA QueuedStaysFree ==
    ASSUME BoardInv, Unclaimed(task, task'), NEW t \in Tasks, task[t].status = "queued"
    PROVE  ~Mine(task'[t])
<1>1. task[t].claimedBy = None
    BY DEF BoardInv, Good, Whole
<1> QED BY <1>1, ActorsAssumption DEF Unclaimed, Mine

(* A step by which a queued task becomes the runner's is a start after the *)
(* reply was delivered.                                                    *)
LEMMA TakesAfterReply ==
    ASSUME RunnerGood, [Next]_vars, NEW t \in Tasks, task[t].status = "queued", Mine(task'[t])
    PROVE  owed \subseteq delivered
<1>1. BoardInv
    BY DEF RunnerGood
<1>2. Unclaimed(task, task)
    BY DEF Unclaimed
<1>3. ASSUME NEW u \in Tasks,
             Person(u) \/ PersonDeletes(u) \/ (\E a \in Actors : Session(a, u)) \/ Quietly
      PROVE  FALSE
    BY <1>1, <1>3, OthersDontClaim, QueuedStaysFree
<1>4. CASE Quietly
    BY <1>3, <1>4
<1>5. ASSUME task' = task \/ task' = Released(task) PROVE FALSE
    BY <1>1, <1>2, <1>5, ReleasedClaims, QueuedStaysFree
<1>6. ASSUME NEW l \in Loops, Start(l) PROVE owed \subseteq delivered
    BY <1>6 DEF Start, At, RunnerGood, WaitInv, TookQueued
<1>7. ASSUME NEW l \in Loops, CreateSession(l) PROVE FALSE
    <2>1. CASE UNCHANGED board
        BY <1>5, <2>1 DEF board
    <2>2. ASSUME NEW u, NEW s \in Sessions, SetTaskSessionId(u, s) PROVE FALSE
        <3>1. Unclaimed(task, task')
            BY <1>1, <2>2 DEF SetTaskSessionId, Unclaimed, BoardInv, Task
        <3> QED BY <1>1, <3>1, QueuedStaysFree
    <2> QED BY <1>7, <2>1, <2>2 DEF CreateSession
<1>8. ASSUME NEW l \in Loops, Select(l) \/ Finish(l) PROVE FALSE
    BY <1>5, <1>8 DEF Select, Finish, Save
<1>9. ASSUME NEW l \in Loops, EnsureSession(l) \/ LosesStart(l) \/ Replies(l)
                 \/ RepliesToNobody(l) \/ Busy(l) \/ Fails(l)
      PROVE  FALSE
    BY <1>5, <1>9 DEF EnsureSession, LosesStart, Replies, RepliesToNobody, Busy, Fails, board
<1>10. ASSUME RetryFires \/ RunOnce \/ Restart \/ \E i \in Items : Deliver(i) PROVE FALSE
    BY <1>5, <1>10 DEF RetryFires, RunOnce, Restart, Deliver, Save, board
<1>11. CASE UNCHANGED vars
    BY <1>5, <1>11 DEF vars, board
<1> QED BY <1>3, <1>4, <1>6, <1>7, <1>8, <1>9, <1>10, <1>11 DEF Next, LoopStep

(* The runner takes a queued task only after every chunk of the reply that *)
(* the last done or blocked turn handed over is delivered: what Select saw *)
(* of the barrier still holds when the task is started, after the awaits   *)
(* on the bridge, OpenCode and the session, and across restarts.           *)
THEOREM NextTaskWaits == Spec => NextTaskWaitsForReply
<1> DEFINE Waits == \A t \in Tasks : task[t].status = "queued" /\ Mine(task'[t]) =>
                        owed \subseteq delivered
<1>1. RunnerGood /\ [Next]_vars => [Waits]_vars
    BY TakesAfterReply
<1> QED BY RunnerInvariance, <1>1, PTL DEF Spec, NextTaskWaitsForReply

=============================================================================
