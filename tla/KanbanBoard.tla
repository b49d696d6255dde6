------------------------------ MODULE KanbanBoard ------------------------------
(***************************************************************************)
(* The kanban board of one project (kanban.service.ts over kanban.store.ts *)
(* with the shared mutations of kanban-task-mutations.ts): people edit it  *)
(* from the Mini App, OpenCode sessions and the runner work on it through  *)
(* their tools.                                                            *)
(*                                                                         *)
(* KanbanStore.transact serialises every operation and writes nothing when *)
(* the operation throws, so an operation is one action and its refusals    *)
(* are its guard.  Titles, texts and timestamps are left out; so is the    *)
(* order of the board, which compareKanbanTasks takes from priorities and  *)
(* timestamps: claimNextTask may take any queued task.                     *)
(***************************************************************************)
EXTENDS Naturals, FiniteSets

CONSTANTS
    MaxTasks,      \* bound: tasks ever created
    Criteria,      \* acceptance criteria a task may have
    NewChecklists, \* bound: checklists that requests carry
    Agents,        \* agent ids of OpenCode sessions
    Runner,        \* KANBAN_RUNNER_AGENT_ID
    Sessions,      \* OpenCode session ids
    None           \* null

ASSUME TasksAssumption == MaxTasks \in Nat
ASSUME ActorsAssumption == /\ Runner \notin Agents
                           /\ None \notin Agents \cup {Runner} \cup Sessions

Tasks    == 1 .. MaxTasks
Statuses == {"backlog", "refinement", "ready", "queued", "in_progress", "blocked", "done"}
Resumes  == {"backlog", "refinement", "ready", "queued", "in_progress", "none"}

(* "absent" is a criterion that is not on the checklist. *)
Checklist == [Criteria -> {"absent", "pending", "done", "blocked"}]

ASSUME ChecklistsAssumption == NewChecklists \subseteq Checklist

(* "absent" is a task not created yet, or deleted.  A lease is live until  *)
(* leaseUntil has passed.                                                  *)
Task == [status : Statuses \cup {"absent"}, acceptanceCriteria : Checklist,
         claimedBy : Agents \cup {Runner, None}, lease : {"none", "live", "expired"},
         executionSource : {"session", "runner", "none"},
         executionSessionId : Sessions \cup {None}, blockedResumeStatus : Resumes]

(* KanbanExecutionActor *)
Actor == [agentId : Agents \cup {Runner}, sessionId : Sessions \cup {None},
          source : {"session", "runner"}]

(* Agent tools speak for a session, claims of the runner's id for the runner. *)
ToolActors   == {a \in Actor : a.agentId \in Agents /\ a.source = "session"}
RunnerActors == {a \in Actor : a.agentId = Runner /\ a.source = "runner"}

VARIABLES task,      \* the board file
          nextTask,  \* id the next created task gets
          origin     \* history: the last status of a task that was not blocked

board == <<task, nextTask, origin>>

NoTask == [status |-> "absent", acceptanceCriteria |-> [c \in Criteria |-> "absent"],
           claimedBy |-> None, lease |-> "none", executionSource |-> "none",
           executionSessionId |-> None, blockedResumeStatus |-> "none"]

BoardInit == /\ task = [t \in Tasks |-> NoTask]
             /\ nextTask = 1
             /\ origin = [t \in Tasks |-> "absent"]

(* A transaction writes the board. *)
Save(b) ==
    /\ task' = b
    /\ origin' = [t \in Tasks |-> IF b[t].status = "blocked" THEN origin[t] ELSE b[t].status]

-----------------------------------------------------------------------------
(* Checklist and status rules *)

HasBlocked(c) == \E k \in Criteria : c[k] = "blocked"
AllDone(c)    == \A k \in Criteria : c[k] \in {"absent", "done"}

(* Faulty variant: completion looks only at what is blocked. *)
CompletableAlways(status, c) == TRUE

(* resolveKanbanTaskStatus refuses "done" while a criterion is open ... *)
Completable(status, c) == status = "done" => HasBlocked(c) \/ AllDone(c)

(* ... and a blocked criterion overrules any requested status. *)
Resolve(status, c) == IF HasBlocked(c) THEN "blocked" ELSE status

(* KANBAN_ALLOWED_STATUS_TRANSITIONS *)
AllowedNext(status) ==
    CASE status = "backlog"     -> {"refinement"}
      [] status = "refinement"  -> {"backlog", "ready"}
      [] status = "ready"       -> {"refinement", "queued"}
      [] status = "queued"      -> {"ready", "in_progress"}
      [] status = "in_progress" -> {"blocked", "done"}
      [] status = "blocked"     -> {"refinement", "ready", "queued"}
      [] status = "done"        -> {"refinement", "ready"}
      [] OTHER                  -> {}

Disowned(r) == [r EXCEPT !.claimedBy = None, !.lease = "none",
                         !.executionSource = "none", !.executionSessionId = None]

(* Ownership survives only in the active and the blocked status. *)
DisownedIfIdle(r) == IF r.status \in {"in_progress", "blocked"} THEN r ELSE Disowned(r)

(* Faulty variant: a task that is blocked already resumes from "queued". *)
ResumePointForgotten(r) ==
    IF r.status \in {"done", "blocked"} THEN "queued" ELSE r.status

(* normalizeBlockedResumeStatusCandidate of the status to come back to. *)
ResumePoint(r) ==
    IF r.status = "blocked" /\ r.blockedResumeStatus # "none" THEN r.blockedResumeStatus
    ELSE IF r.status \in {"done", "blocked"} THEN "queued" ELSE r.status

-----------------------------------------------------------------------------
(* applyKanbanTaskPatch *)

(* Faulty variant: any status follows any other. *)
CanPatchFromAny(r, requested, c) == Completable(requested, c)

CanPatch(r, requested, c) ==
    /\ requested = r.status \/ requested \in AllowedNext(r.status)
    /\ Completable(requested, c)

(* Faulty variant: a finished task keeps its owner. *)
PatchedOwned(r, requested, c) ==
    LET s == Resolve(requested, c)
    IN [r EXCEPT !.acceptanceCriteria = c, !.status = s,
                 !.blockedResumeStatus = IF s = "blocked" THEN ResumePoint(r) ELSE "none"]

Patched(r, requested, c) ==
    LET s == Resolve(requested, c)
    IN DisownedIfIdle([r EXCEPT
            !.acceptanceCriteria = c, !.status = s,
            !.blockedResumeStatus = IF s = "blocked" THEN ResumePoint(r) ELSE "none"])

(* applyKanbanCriterionPatch and resolveBlockedResumeStatus *)

(* Execution resumes only for a live owner with nothing else active. *)
ResumesActive(t) ==
    /\ task[t].claimedBy # None /\ task[t].executionSource # "none"
    /\ task[t].lease = "live"
    /\ \A u \in Tasks \ {t} : task[u].status # "in_progress"

Fallback(r) ==
    IF r.blockedResumeStatus # "none" THEN r.blockedResumeStatus
    ELSE IF r.claimedBy # None THEN "in_progress" ELSE "queued"

(* The status a criterion update asks for: blocked work comes back. *)
Requested(t) ==
    IF task[t].status # "blocked" THEN task[t].status
    ELSE IF Fallback(task[t]) = "in_progress" /\ ~ResumesActive(t) THEN "queued"
    ELSE Fallback(task[t])

CanPatchCriterion(t, k, status) ==
    LET r == task[t]
        c == [r.acceptanceCriteria EXCEPT ![k] = status]
    IN /\ r.status # "absent" /\ r.acceptanceCriteria[k] # "absent"
       /\ r.status = "done" => status = "done"
       /\ status # "blocked" => Completable(Requested(t), c)

CriterionPatched(t, k, status) ==
    LET r == task[t]
        c == [r.acceptanceCriteria EXCEPT ![k] = status]
        s == Resolve(Requested(t), c)
    IN CASE status = "blocked" ->
              [r EXCEPT !.acceptanceCriteria = c, !.status = "blocked",
                        !.blockedResumeStatus = ResumePoint(r)]
         [] status # "blocked" /\ s = "blocked" ->
              [r EXCEPT !.acceptanceCriteria = c, !.status = "blocked"]
         [] OTHER ->
              DisownedIfIdle([r EXCEPT !.acceptanceCriteria = c, !.status = s,
                                       !.blockedResumeStatus = "none"])

-----------------------------------------------------------------------------
(* Ownership of execution *)

(* assertKanbanExecutionOwner: the recorded session, or failing one the    *)
(* recorded agent, must be the caller; only active tasks are guarded.      *)
IsOwner(r, a) ==
    r.status = "in_progress" =>
        IF r.executionSessionId # None
        THEN r.executionSessionId = a.sessionId
        ELSE r.claimedBy \in {None, a.agentId}

(* Faulty variant: an active task is started over by anyone. *)
CanStartAnyone(r, a) == r.status \in {"queued", "in_progress"}

(* startTaskExecution and assertKanbanTaskCanStartExecution *)
CanStart(r, a) ==
    /\ r.status \in {"queued", "in_progress"}
    /\ r.status = "in_progress" => /\ r.executionSource \in {"none", a.source}
                                   /\ IsOwner(r, a)

Started(r, a) ==
    [r EXCEPT !.status = "in_progress", !.claimedBy = a.agentId, !.lease = "live",
              !.executionSource = a.source,
              !.executionSessionId = IF a.sessionId # None THEN a.sessionId ELSE @]

Expired(r) == r.status = "in_progress" /\ r.lease = "expired"

(* releaseExpiredKanbanLeases *)
Released(b) ==
    [t \in Tasks |-> IF Expired(b[t]) THEN Disowned([b[t] EXCEPT !.status = "queued"])
                                      ELSE b[t]]

-----------------------------------------------------------------------------
(* Operations *)

CreateTask(requested, c) ==
    /\ nextTask <= MaxTasks
    /\ Completable(requested, c)
    /\ nextTask' = nextTask + 1
    /\ Save([task EXCEPT ![nextTask] = [NoTask EXCEPT !.status = Resolve(requested, c),
                                                      !.acceptanceCriteria = c]])

(* updateTask, and moveTask, completeTask and blockTask, which call it *)
UpdateTask(t, requested, c) ==
    /\ task[t].status # "absent"
    /\ CanPatch(task[t], requested, c)
    /\ Save([task EXCEPT ![t] = Patched(task[t], requested, c)])
    /\ UNCHANGED nextTask

DeleteTask(t) ==
    /\ task[t].status \notin {"absent", "in_progress"}
    /\ Save([task EXCEPT ![t] = NoTask])
    /\ UNCHANGED nextTask

UpdateCriterion(t, k, status) ==
    /\ CanPatchCriterion(t, k, status)
    /\ Save([task EXCEPT ![t] = CriterionPatched(t, k, status)])
    /\ UNCHANGED nextTask

(* updateTaskFromExecution, completeTaskFromExecution and                  *)
(* blockTaskFromExecution; the agent controller turns a requested          *)
(* "in_progress" into startTaskExecution.                                  *)
UpdateTaskFromExecution(t, a, requested, c) ==
    /\ requested = "in_progress" => task[t].status = "in_progress"
    /\ IsOwner(task[t], a)
    /\ UpdateTask(t, requested, c)

UpdateCriterionFromExecution(t, a, k, status) ==
    /\ IsOwner(task[t], a)
    /\ UpdateCriterion(t, k, status)

StartTaskExecution(t, a) ==
    LET b == Released(task)
    IN /\ CanStart(b[t], a)
       /\ Save([b EXCEPT ![t] = Started(b[t], a)])
       /\ UNCHANGED nextTask

(* The claimed task takes exactly the claimant's session, even none. *)
ClaimNextTask(t, a) ==
    LET b == Released(task)
    IN /\ \A u \in Tasks : ~(b[u].status = "in_progress" /\ b[u].claimedBy = a.agentId)
       /\ b[t].status = "queued"
       /\ Save([b EXCEPT ![t] = [Started(b[t], a) EXCEPT !.executionSessionId = a.sessionId]])
       /\ UNCHANGED nextTask

(* listTasks saves what it released. *)
ListTasks ==
    /\ \E t \in Tasks : Expired(task[t])
    /\ Save(Released(task))
    /\ UNCHANGED nextTask

(* leaseUntil passes. *)
LeaseEnds(t) ==
    /\ task[t].lease = "live"
    /\ task' = [task EXCEPT ![t].lease = "expired"]
    /\ UNCHANGED <<nextTask, origin>>

-----------------------------------------------------------------------------

(* The checklist a patch leaves: its own, or the one already there. *)
Patches(t) == NewChecklists \cup {task[t].acceptanceCriteria}

(* What the Mini App does to task t; sessions create tasks likewise. *)
App(t) ==
    \/ t = nextTask /\ \E s \in Statuses, c \in NewChecklists : CreateTask(s, c)
    \/ \E s \in Statuses, c \in Patches(t) : UpdateTask(t, s, c)
    \/ DeleteTask(t)
    \/ \E k \in Criteria, s \in {"pending", "done", "blocked"} : UpdateCriterion(t, k, s)

(* What actor a does to task t through its tools. *)
Agent(a, t) ==
    \/ \E s \in Statuses, c \in Patches(t) : UpdateTaskFromExecution(t, a, s, c)
    \/ \E k \in Criteria, s \in {"pending", "done", "blocked"} :
           UpdateCriterionFromExecution(t, a, k, s)
    \/ StartTaskExecution(t, a)
    \/ ClaimNextTask(t, a)

BoardNext ==
    \/ \E t \in Tasks : App(t)
    \/ \E t \in Tasks, a \in ToolActors : Agent(a, t)
    \/ \E t \in Tasks, a \in RunnerActors : StartTaskExecution(t, a) \/ ClaimNextTask(t, a)
    \/ ListTasks
    \/ \E t \in Tasks : LeaseEnds(t)

BoardSpec == BoardInit /\ [][BoardNext]_board

-----------------------------------------------------------------------------
(* Properties *)

(* The fields of every task have the values the store's types allow. *)
BoardTypeOK ==
    /\ task \in [Tasks -> Task]
    /\ nextTask \in 1 .. MaxTasks + 1
    /\ origin \in [Tasks -> (Statuses \ {"blocked"}) \cup {"absent"}]

(* A task with a blocked criterion is blocked, and a done task has no open *)
(* criterion, whichever of the creating, patching and resuming operations  *)
(* put the status and the checklist together (kanban-task-state.ts:74).    *)
ChecklistRulesStatus ==
    \A t \in Tasks :
        /\ HasBlocked(task[t].acceptanceCriteria) => task[t].status = "blocked"
        /\ task[t].status = "done" => AllDone(task[t].acceptanceCriteria)

(* Owner, source and lease come and go together, and only active work and  *)
(* work blocked while active has them: nothing queued, idle or done keeps  *)
(* a stale owner (kanban-task-mutations.ts:66 and :137).                   *)
OwnershipIsWhole ==
    \A t \in Tasks : LET r == task[t] IN
        /\ (r.claimedBy # None) <=> (r.lease # "none")
        /\ (r.claimedBy # None) <=> (r.executionSource # "none")
        /\ r.claimedBy # None =>
              \/ r.status = "in_progress"
              \/ r.status = "blocked" /\ r.blockedResumeStatus = "in_progress"

(* However many patches and criterion updates a blocked task goes through, *)
(* it remembers the status it had before it was blocked, which is where    *)
(* unblocking takes it (kanban-task-mutations.ts:57 and :117).             *)
ResumeKeepsOrigin ==
    \A t \in Tasks : task[t].status = "blocked" =>
        IF origin[t] \in {"absent", "done"}
        THEN task[t].blockedResumeStatus \in {"none", "queued"}
        ELSE task[t].blockedResumeStatus = origin[t]

(* "A running owner keeps exclusive execution rights until the task        *)
(* finishes, blocks, or expires" (kanban.service.ts:340): the session of   *)
(* an active or blocked task changes only when its lease has run out or    *)
(* the task leaves execution.                                              *)
OwnerKeepsTask ==
    [][\A t \in Tasks :
         /\ task[t].status \in {"in_progress", "blocked"}
         /\ task[t].executionSessionId \notin {None, task'[t].executionSessionId}
         => \/ task[t].lease = "expired"
            \/ task'[t].status \notin {"in_progress", "blocked"}]_board

(* Work enters execution from the queue, by creation, or back from blocked *)
(* with its owner's lease live and nothing else active                     *)
(* (kanban-task-mutations.ts:156, kanban-status-transitions.ts:44).        *)
EntersExecution ==
    [][\A t \in Tasks : task[t].status # "in_progress" /\ task'[t].status = "in_progress" =>
         \/ task[t].status \in {"absent", "queued"}
         \/ /\ task[t].status = "blocked" /\ task'[t].lease = "live"
            /\ \A u \in Tasks \ {t} : task'[u].status # "in_progress"]_board

=============================================================================
