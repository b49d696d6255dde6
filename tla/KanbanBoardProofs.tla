--------------------------- MODULE KanbanBoardProofs ---------------------------
(***************************************************************************)
(* Proofs about the kanban board, for every number of tasks and every set  *)
(* of criteria, agents and sessions.  The invariant is a predicate of one  *)
(* task and its history, so each operation has a lemma about the record it *)
(* writes, and one lemma says that saving good records keeps the board     *)
(* good.                                                                   *)
(***************************************************************************)
EXTENDS KanbanBoard, TLAPS

Origins == (Statuses \ {"blocked"}) \cup {"absent"}

(* What a board update makes of the history of a task. *)
NewOrigin(r, o) == IF r.status = "blocked" THEN o ELSE r.status

Ruled(r) == /\ HasBlocked(r.acceptanceCriteria) => r.status = "blocked"
            /\ r.status = "done" => AllDone(r.acceptanceCriteria)

Whole(r) == /\ (r.claimedBy # None) <=> (r.lease # "none")
            /\ (r.claimedBy # None) <=> (r.executionSource # "none")
            /\ r.claimedBy # None =>
                  \/ r.status = "in_progress"
                  \/ r.status = "blocked" /\ r.blockedResumeStatus = "in_progress"

(* A task that is not blocked has its own status as origin and no status   *)
(* to come back to; without this a task could not be blocked and remember. *)
Rooted(r, o) ==
    IF r.status = "blocked"
    THEN IF o \in {"absent", "done"} THEN r.blockedResumeStatus \in {"none", "queued"}
                                     ELSE r.blockedResumeStatus = o
    ELSE o = r.status /\ r.blockedResumeStatus = "none"

Good(r, o) == /\ r \in Task /\ o \in Origins
              /\ Ruled(r) /\ Whole(r) /\ Rooted(r, o)

BoardInv == /\ task \in [Tasks -> Task]
            /\ nextTask \in 1 .. MaxTasks + 1
            /\ origin \in [Tasks -> Origins]
            /\ \A t \in Tasks : Good(task[t], origin[t])
            /\ \A t \in Tasks : t >= nextTask => task[t].status = "absent"

(* A record that may be written over a good task. *)
GoodNext(r, o) == r \in Task /\ Good(r, NewOrigin(r, o))

-----------------------------------------------------------------------------

(* The record of a deleted or not yet created task is good. *)
LEMMA NoTaskIsGood == NoTask \in Task /\ Good(NoTask, "absent")
BY DEF NoTask, Task, Good, Ruled, Whole, Rooted, HasBlocked, AllDone, Checklist,
       Statuses, Resumes, Origins

(* Taking the owner off keeps the rest of a record. *)
LEMMA DisownedFields ==
    ASSUME NEW r \in Task
    PROVE  /\ Disowned(r) \in Task
           /\ Disowned(r).status = r.status
           /\ Disowned(r).acceptanceCriteria = r.acceptanceCriteria
           /\ Disowned(r).blockedResumeStatus = r.blockedResumeStatus
           /\ Disowned(r).claimedBy = None /\ Disowned(r).lease = "none"
           /\ Disowned(r).executionSource = "none" /\ Disowned(r).executionSessionId = None
BY DEF Disowned, Task

(* Saving good records keeps the invariant. *)
LEMMA SaveKeepsGood ==
    ASSUME NEW b \in [Tasks -> Task], BoardInv, Save(b), nextTask' \in 1 .. MaxTasks + 1,
           \A t \in Tasks : GoodNext(b[t], origin[t]),
           \A t \in Tasks : t >= nextTask' => b[t].status = "absent"
    PROVE  BoardInv'
<1>1. task' = b /\ task' \in [Tasks -> Task]
  BY DEF Save
<1>2. \A t \in Tasks : origin'[t] = NewOrigin(b[t], origin[t])
  BY DEF Save, NewOrigin
<1>3. \A t \in Tasks : Good(task'[t], origin'[t])
  BY <1>1, <1>2 DEF GoodNext
<1>4. origin' \in [Tasks -> Origins]
  <2>1. \A t \in Tasks : NewOrigin(b[t], origin[t]) \in Origins
    BY DEF GoodNext, Good
  <2>2. origin' = [t \in Tasks |-> NewOrigin(b[t], origin[t])]
    BY DEF Save, NewOrigin
  <2> QED BY <2>1, <2>2
<1> QED BY <1>1, <1>3, <1>4 DEF BoardInv

(* A good record left alone is good after the step. *)
LEMMA UntouchedIsGood ==
    ASSUME NEW r, NEW o, Good(r, o)
    PROVE  GoodNext(r, o)
BY DEF GoodNext, Good, NewOrigin, Rooted

(* The status to come back to is one the store's type allows, and the      *)
(* remembered origin.                                                      *)
LEMMA ResumePointFacts ==
    ASSUME NEW r, NEW o, Good(r, o), r.status # "absent"
    PROVE  /\ ResumePoint(r) \in Resumes
           /\ IF o \in {"absent", "done"} THEN ResumePoint(r) = "queued"
                                          ELSE ResumePoint(r) = o
BY DEF ResumePoint, Good, Task, Rooted, Statuses, Resumes, Origins

(* applyKanbanTaskPatch writes a good record. *)
LEMMA PatchedIsGood ==
    ASSUME NEW r, NEW o, Good(r, o), r.status # "absent",
           NEW s \in Statuses, NEW c \in Checklist, CanPatch(r, s, c)
    PROVE  GoodNext(Patched(r, s, c), o)
<1> DEFINE v == Resolve(s, c)
           q == [r EXCEPT !.acceptanceCriteria = c, !.status = v,
                          !.blockedResumeStatus = IF v = "blocked" THEN ResumePoint(r) ELSE "none"]
<1>0. r \in Task /\ v \in Statuses
  BY DEF Good, Resolve, Statuses
<1>1. /\ ResumePoint(r) \in Resumes
      /\ IF o \in {"absent", "done"} THEN ResumePoint(r) = "queued" ELSE ResumePoint(r) = o
  BY ResumePointFacts
<1>2. /\ q \in Task /\ q.acceptanceCriteria = c /\ q.status = v
      /\ q.blockedResumeStatus = (IF v = "blocked" THEN ResumePoint(r) ELSE "none")
      /\ q.claimedBy = r.claimedBy /\ q.lease = r.lease
      /\ q.executionSource = r.executionSource /\ q.executionSessionId = r.executionSessionId
  BY <1>0, <1>1 DEF Task, Resumes
<1>3. Ruled(q)
  BY <1>2 DEF Ruled, Resolve, CanPatch, Completable
<1>4. o \in Origins /\ Whole(r) /\ Rooted(r, o)
  BY DEF Good
<1>5. CASE v = "blocked"
  <2>1. Patched(r, s, c) = q
    BY <1>2, <1>5 DEF Patched, DisownedIfIdle
  <2>2. Whole(q)
    BY <1>1, <1>2, <1>4, <1>5 DEF Whole, Rooted
  <2>3. Rooted(q, o)
    BY <1>1, <1>2, <1>5 DEF Rooted
  <2> QED BY <2>1, <2>2, <2>3, <1>2, <1>3, <1>4, <1>5 DEF GoodNext, Good, NewOrigin
<1>6. CASE v = "in_progress"
  <2>1. Patched(r, s, c) = q
    BY <1>2, <1>6 DEF Patched, DisownedIfIdle
  <2>2. Whole(q)
    BY <1>2, <1>4, <1>6 DEF Whole
  <2>3. Rooted(q, v)
    BY <1>2, <1>6 DEF Rooted
  <2> QED BY <2>1, <2>2, <2>3, <1>2, <1>3, <1>6 DEF GoodNext, Good, NewOrigin, Origins, Statuses
<1>7. CASE v \notin {"blocked", "in_progress"}
  <2>1. Patched(r, s, c) = Disowned(q)
    BY <1>2, <1>7 DEF Patched, DisownedIfIdle
  <2>2. /\ Disowned(q) \in Task
        /\ Disowned(q).status = v /\ Disowned(q).acceptanceCriteria = c
        /\ Disowned(q).blockedResumeStatus = "none"
        /\ Disowned(q).claimedBy = None /\ Disowned(q).lease = "none"
        /\ Disowned(q).executionSource = "none" /\ Disowned(q).executionSessionId = None
    BY <1>2, <1>7, DisownedFields
  <2>3. Whole(Disowned(q)) /\ Rooted(Disowned(q), v)
    BY <2>2, <1>7 DEF Whole, Rooted
  <2>4. Ruled(Disowned(q))
    BY <2>2, <1>2, <1>3 DEF Ruled
  <2> QED BY <2>1, <2>2, <2>3, <2>4, <1>0, <1>7 DEF GoodNext, Good, NewOrigin, Origins
<1> QED BY <1>5, <1>6, <1>7

(* A criterion update asks for a status the board has. *)
LEMMA RequestedIsStatus ==
    ASSUME NEW t \in Tasks, Good(task[t], origin[t]), task[t].status # "absent"
    PROVE  /\ Requested(t) \in Statuses \ {"blocked"}
           /\ task[t].status # "blocked" => Requested(t) = task[t].status
BY DEF Requested, Fallback, Good, Task, Statuses, Resumes

(* applyKanbanCriterionPatch writes a good record. *)
LEMMA CriterionPatchedIsGood ==
    ASSUME NEW t \in Tasks, Good(task[t], origin[t]), NEW k \in Criteria,
           NEW status \in {"pending", "done", "blocked"}, CanPatchCriterion(t, k, status)
    PROVE  GoodNext(CriterionPatched(t, k, status), origin[t])
<1> DEFINE r == task[t]
           o == origin[t]
           c == [r.acceptanceCriteria EXCEPT ![k] = status]
           v == Resolve(Requested(t), c)
           q == [r EXCEPT !.acceptanceCriteria = c, !.status = v, !.blockedResumeStatus = "none"]
<1>0. r \in Task /\ o \in Origins /\ Ruled(r) /\ Whole(r) /\ Rooted(r, o)
  BY DEF Good
<1>1. c \in Checklist /\ r.status # "absent"
  BY <1>0 DEF Task, Checklist, CanPatchCriterion
<1>2. c[k] = status /\ \A l \in Criteria : l # k => c[l] = r.acceptanceCriteria[l]
  BY <1>0 DEF Task, Checklist
<1>3. CASE status = "blocked"
  <2> DEFINE p == [r EXCEPT !.acceptanceCriteria = c, !.status = "blocked",
                            !.blockedResumeStatus = ResumePoint(r)]
  <2>1. CriterionPatched(t, k, status) = p
    BY <1>3 DEF CriterionPatched
  <2>2. /\ ResumePoint(r) \in Resumes
        /\ IF o \in {"absent", "done"} THEN ResumePoint(r) = "queued" ELSE ResumePoint(r) = o
    BY <1>1, ResumePointFacts
  <2>3. /\ p \in Task /\ p.status = "blocked" /\ p.acceptanceCriteria = c
        /\ p.blockedResumeStatus = ResumePoint(r)
        /\ p.claimedBy = r.claimedBy /\ p.lease = r.lease
        /\ p.executionSource = r.executionSource /\ p.executionSessionId = r.executionSessionId
    BY <1>0, <1>1, <2>2 DEF Task, Statuses
  <2>4. Ruled(p) /\ Rooted(p, o)
    BY <2>2, <2>3 DEF Ruled, Rooted
  <2>5. Whole(p)
    BY <1>0, <2>2, <2>3 DEF Whole, Rooted
  <2> QED BY <2>1, <2>3, <2>4, <2>5, <1>0 DEF GoodNext, Good, NewOrigin
<1>4. CASE status # "blocked" /\ v = "blocked"
  <2> DEFINE p == [r EXCEPT !.acceptanceCriteria = c, !.status = "blocked"]
  <2>1. CriterionPatched(t, k, status) = p
    BY <1>4 DEF CriterionPatched
  <2>2. HasBlocked(c)
    BY <1>1, <1>4, RequestedIsStatus DEF Resolve
  <2>3. HasBlocked(r.acceptanceCriteria)
    BY <2>2, <1>2, <1>4 DEF HasBlocked
  <2>4. r.status = "blocked"
    BY <2>3, <1>0 DEF Ruled
  <2>5. /\ p \in Task /\ p.status = "blocked" /\ p.acceptanceCriteria = c
        /\ p.blockedResumeStatus = r.blockedResumeStatus
        /\ p.claimedBy = r.claimedBy /\ p.lease = r.lease
        /\ p.executionSource = r.executionSource /\ p.executionSessionId = r.executionSessionId
    BY <1>0, <1>1 DEF Task, Statuses
  <2>6. Ruled(p) /\ Rooted(p, o) /\ Whole(p)
    BY <1>0, <2>4, <2>5 DEF Ruled, Rooted, Whole
  <2> QED BY <2>1, <2>5, <2>6, <1>0 DEF GoodNext, Good, NewOrigin
<1>5. CASE status # "blocked" /\ v # "blocked"
  <2>1. CriterionPatched(t, k, status) = DisownedIfIdle(q)
    BY <1>5 DEF CriterionPatched
  <2>2. v \in Statuses \ {"blocked"} /\ ~HasBlocked(c) /\ v = Requested(t)
    BY <1>1, <1>5, RequestedIsStatus DEF Resolve
  <2>3. /\ q \in Task /\ q.status = v /\ q.acceptanceCriteria = c
        /\ q.blockedResumeStatus = "none"
        /\ q.claimedBy = r.claimedBy /\ q.lease = r.lease
        /\ q.executionSource = r.executionSource /\ q.executionSessionId = r.executionSessionId
    BY <1>0, <1>1, <2>2, ZenonT(60) DEF Task, Statuses, Resumes
  <2>4. Ruled(q)
    BY <1>5, <2>2, <2>3 DEF Ruled, CanPatchCriterion, Completable
  <2>5. CASE v = "in_progress"
    <3>1. DisownedIfIdle(q) = q
      BY <2>3, <2>5 DEF DisownedIfIdle
    <3>2. Whole(q) /\ Rooted(q, v)
      BY <1>0, <2>3, <2>5 DEF Whole, Rooted
    <3> QED BY <2>1, <2>3, <2>4, <2>5, <3>1, <3>2 DEF GoodNext, Good, NewOrigin, Origins, Statuses
  <2>6. CASE v # "in_progress"
    <3>1. DisownedIfIdle(q) = Disowned(q)
      BY <2>2, <2>3, <2>6 DEF DisownedIfIdle
    <3>2. /\ Disowned(q) \in Task
          /\ Disowned(q).status = v /\ Disowned(q).acceptanceCriteria = c
          /\ Disowned(q).blockedResumeStatus = "none"
          /\ Disowned(q).claimedBy = None /\ Disowned(q).lease = "none"
          /\ Disowned(q).executionSource = "none" /\ Disowned(q).executionSessionId = None
      BY <2>3, DisownedFields
    <3>3. Whole(Disowned(q)) /\ Rooted(Disowned(q), v) /\ Ruled(Disowned(q))
      BY <2>2, <2>3, <2>4, <3>2 DEF Whole, Rooted, Ruled
    <3> QED BY <2>1, <2>2, <3>1, <3>2, <3>3 DEF GoodNext, Good, NewOrigin, Origins
  <2> QED BY <2>5, <2>6
<1> QED BY <1>3, <1>4, <1>5

(* releaseExpiredKanbanLeases leaves good records; it changes active ones only. *)
LEMMA ReleasedIsGood ==
    ASSUME BoardInv
    PROVE  /\ Released(task) \in [Tasks -> Task]
           /\ \A t \in Tasks : GoodNext(Released(task)[t], origin[t])
<1> DEFINE q(t) == [task[t] EXCEPT !.status = "queued"]
<1>1. ASSUME NEW t \in Tasks, Expired(task[t])
      PROVE  Disowned(q(t)) \in Task /\ GoodNext(Disowned(q(t)), origin[t])
  <2>1. task[t] \in Task /\ Good(task[t], origin[t]) /\ task[t].status = "in_progress"
    BY <1>1 DEF BoardInv, Expired
  <2>2. /\ q(t) \in Task /\ q(t).status = "queued"
        /\ q(t).acceptanceCriteria = task[t].acceptanceCriteria
        /\ q(t).blockedResumeStatus = task[t].blockedResumeStatus
    BY <2>1 DEF Task, Statuses
  <2>3. /\ Disowned(q(t)) \in Task /\ Disowned(q(t)).status = "queued"
        /\ Disowned(q(t)).acceptanceCriteria = task[t].acceptanceCriteria
        /\ Disowned(q(t)).blockedResumeStatus = "none"
        /\ Disowned(q(t)).claimedBy = None /\ Disowned(q(t)).lease = "none"
        /\ Disowned(q(t)).executionSource = "none"
        /\ Disowned(q(t)).executionSessionId = None
    BY <2>1, <2>2, DisownedFields DEF Good, Rooted
  <2>4. /\ Whole(Disowned(q(t))) /\ Rooted(Disowned(q(t)), "queued")
        /\ Ruled(Disowned(q(t)))
    BY <2>1, <2>3 DEF Good, Ruled, Whole, Rooted
  <2> QED BY <2>3, <2>4 DEF GoodNext, Good, NewOrigin, Origins, Statuses
<1>2. ASSUME NEW t \in Tasks
      PROVE  Released(task)[t] \in Task /\ GoodNext(Released(task)[t], origin[t])
  <2>1. CASE Expired(task[t])
    BY <1>1, <2>1 DEF Released
  <2>2. CASE ~Expired(task[t])
    BY <2>2, UntouchedIsGood DEF Released, BoardInv
  <2> QED BY <2>1, <2>2
<1> QED BY <1>2 DEF Released

(* A queued or active task that gets an owner is a good record, whatever   *)
(* session is written.                                                     *)
LEMMA OwnedIsGood ==
    ASSUME NEW r, NEW o, Good(r, o), r.status \in {"queued", "in_progress"},
           NEW q \in Task, q.status = "in_progress",
           q.claimedBy # None, q.lease # "none", q.executionSource # "none",
           q.acceptanceCriteria = r.acceptanceCriteria,
           q.blockedResumeStatus = r.blockedResumeStatus
    PROVE  \A h : GoodNext(q, h)
<1>1. Ruled(r) /\ Rooted(r, o)
  BY DEF Good
<1>2. Ruled(q) /\ Whole(q) /\ Rooted(q, "in_progress")
  BY <1>1 DEF Ruled, Whole, Rooted
<1> QED BY <1>2 DEF GoodNext, Good, NewOrigin, Origins, Statuses

(* Starting a task sets its owner and leaves its checklist alone.          *)
LEMMA StartedFields ==
    ASSUME NEW r \in Task, NEW a \in Actor
    PROVE  /\ Started(r, a) \in Task /\ Started(r, a).status = "in_progress"
           /\ Started(r, a).claimedBy # None /\ Started(r, a).lease # "none"
           /\ Started(r, a).executionSource # "none"
           /\ Started(r, a).acceptanceCriteria = r.acceptanceCriteria
           /\ Started(r, a).blockedResumeStatus = r.blockedResumeStatus
<1>1. a.agentId # None
  BY ActorsAssumption DEF Actor
<1> QED BY <1>1, ZenonT(60) DEF Started, Task, Actor, Statuses

(* One task gets a good record, the others keep theirs or are released.    *)
LEMMA OneTaskWritten ==
    ASSUME BoardInv, NEW b \in {task, Released(task)},
           NEW t \in Tasks, NEW r, GoodNext(r, origin[t]), Save([b EXCEPT ![t] = r]),
           \/ nextTask' = nextTask /\ task[t].status # "absent"
           \/ nextTask' = nextTask + 1 /\ t = nextTask
    PROVE  BoardInv'
<1> DEFINE e == [b EXCEPT ![t] = r]
<1>1. b \in [Tasks -> Task] /\ \A u \in Tasks : GoodNext(b[u], origin[u])
  BY ReleasedIsGood, UntouchedIsGood DEF BoardInv
<1>2. r \in Task /\ e \in [Tasks -> Task]
  BY <1>1 DEF GoodNext
<1>3. \A u \in Tasks : GoodNext(e[u], origin[u])
  BY <1>1
<1>4. nextTask \in Nat /\ nextTask' \in 1 .. MaxTasks + 1
  BY TasksAssumption DEF BoardInv, Tasks
<1>5. \A u \in Tasks : b[u] = task[u] \/ task[u].status = "in_progress"
  BY DEF Released, Expired
<1>6. \A u \in Tasks : u >= nextTask' => e[u].status = "absent"
  <2> SUFFICES ASSUME NEW u \in Tasks, u >= nextTask' PROVE e[u].status = "absent"
    OBVIOUS
  <2>1. u \in Nat /\ u >= nextTask /\ u # t
    BY <1>4 DEF BoardInv, Tasks
  <2>2. task[u].status = "absent" /\ e[u] = b[u]
    BY <1>1, <2>1 DEF BoardInv
  <2> QED BY <1>5, <2>2
<1> HIDE DEF e
<1>7. Save(e)
  BY DEF e
<1> QED BY <1>2, <1>3, <1>4, <1>6, <1>7, SaveKeepsGood

-----------------------------------------------------------------------------
(* One lemma per operation that writes *)

LEMMA CreateTaskKeeps ==
    ASSUME BoardInv, NEW s \in Statuses, NEW c \in Checklist, CreateTask(s, c)
    PROVE  BoardInv'
<1> DEFINE r == [NoTask EXCEPT !.status = Resolve(s, c), !.acceptanceCriteria = c]
<1>1. nextTask \in Tasks /\ nextTask' = nextTask + 1 /\ Completable(s, c)
  BY TasksAssumption DEF CreateTask, BoardInv, Tasks
<1>2. /\ r \in Task /\ r.status = Resolve(s, c) /\ r.acceptanceCriteria = c
      /\ r.claimedBy = None /\ r.lease = "none" /\ r.executionSource = "none"
      /\ r.blockedResumeStatus = "none"
  BY NoTaskIsGood DEF NoTask, Task, Resolve, Statuses
<1>3. Ruled(r) /\ Whole(r)
  BY <1>1, <1>2 DEF Ruled, Whole, Resolve, Completable
<1>4. origin[nextTask] = "absent"
  BY <1>1 DEF BoardInv, Good, Rooted, Tasks
<1>5. r.status \in Statuses /\ Rooted(r, NewOrigin(r, origin[nextTask]))
  BY <1>2, <1>4 DEF Rooted, NewOrigin, Resolve, Statuses
<1>6. GoodNext(r, origin[nextTask])
  BY <1>2, <1>3, <1>4, <1>5 DEF GoodNext, Good, NewOrigin, Origins
<1>7. Save([task EXCEPT ![nextTask] = r])
  BY DEF CreateTask
<1> HIDE DEF r
<1> QED BY <1>1, <1>6, <1>7, OneTaskWritten

LEMMA UpdateTaskKeeps ==
    ASSUME BoardInv, NEW t \in Tasks, NEW s \in Statuses, NEW c \in Checklist,
           UpdateTask(t, s, c)
    PROVE  BoardInv'
<1>1. Good(task[t], origin[t]) /\ task[t].status # "absent" /\ CanPatch(task[t], s, c)
  BY DEF BoardInv, UpdateTask
<1>2. GoodNext(Patched(task[t], s, c), origin[t])
  BY <1>1, PatchedIsGood
<1> QED BY <1>1, <1>2, OneTaskWritten DEF UpdateTask

LEMMA DeleteTaskKeeps ==
    ASSUME BoardInv, NEW t \in Tasks, DeleteTask(t)
    PROVE  BoardInv'
<1>1. GoodNext(NoTask, origin[t])
  BY NoTaskIsGood DEF GoodNext, NewOrigin, NoTask
<1> QED BY <1>1, OneTaskWritten DEF DeleteTask

LEMMA UpdateCriterionKeeps ==
    ASSUME BoardInv, NEW t \in Tasks, NEW k \in Criteria,
           NEW status \in {"pending", "done", "blocked"}, UpdateCriterion(t, k, status)
    PROVE  BoardInv'
<1>1. GoodNext(CriterionPatched(t, k, status), origin[t]) /\ task[t].status # "absent"
  BY CriterionPatchedIsGood DEF BoardInv, UpdateCriterion, CanPatchCriterion
<1> QED BY <1>1, OneTaskWritten DEF UpdateCriterion

LEMMA StartsKeep ==
    ASSUME BoardInv, NEW t \in Tasks, NEW a \in Actor,
           StartTaskExecution(t, a) \/ ClaimNextTask(t, a)
    PROVE  BoardInv'
<1> DEFINE b == Released(task)
           p == Started(b[t], a)
           q == [p EXCEPT !.executionSessionId = a.sessionId]
<1>1. /\ b[t] \in Task /\ Good(b[t], NewOrigin(b[t], origin[t]))
      /\ b[t].status \in {"queued", "in_progress"}
  BY ReleasedIsGood DEF GoodNext, StartTaskExecution, ClaimNextTask, CanStart
<1>2. /\ p \in Task /\ p.status = "in_progress"
      /\ p.claimedBy # None /\ p.lease # "none" /\ p.executionSource # "none"
      /\ p.acceptanceCriteria = b[t].acceptanceCriteria
      /\ p.blockedResumeStatus = b[t].blockedResumeStatus
  BY <1>1, StartedFields
<1> HIDE DEF p
<1>3. /\ q \in Task /\ q.status = "in_progress"
      /\ q.claimedBy # None /\ q.lease # "none" /\ q.executionSource # "none"
      /\ q.acceptanceCriteria = b[t].acceptanceCriteria
      /\ q.blockedResumeStatus = b[t].blockedResumeStatus
  BY <1>2 DEF Task, Actor
<1> HIDE DEF q
<1>4. GoodNext(p, origin[t]) /\ GoodNext(q, origin[t])
  BY <1>1, <1>2, <1>3, OwnedIsGood
<1>5. task[t].status # "absent"
  BY <1>1 DEF Released, Expired
<1>6. CASE StartTaskExecution(t, a)
  <2>1. Save([b EXCEPT ![t] = p]) /\ nextTask' = nextTask
    BY <1>6 DEF StartTaskExecution, p
  <2> QED BY <1>4, <1>5, <2>1, OneTaskWritten
<1>7. CASE ClaimNextTask(t, a)
  <2>1. Save([b EXCEPT ![t] = q]) /\ nextTask' = nextTask
    BY <1>7 DEF ClaimNextTask, q, p
  <2> QED BY <1>4, <1>5, <2>1, OneTaskWritten
<1> QED BY <1>6, <1>7

(* Operations that only list the board save what they released. *)
LEMMA ReleaseKeeps ==
    ASSUME BoardInv, Save(Released(task)), UNCHANGED nextTask
    PROVE  BoardInv'
<1>1. /\ Released(task) \in [Tasks -> Task]
      /\ \A t \in Tasks : GoodNext(Released(task)[t], origin[t])
  BY ReleasedIsGood
<1>2. nextTask' = nextTask /\ nextTask \in 1 .. MaxTasks + 1
  BY DEF BoardInv
<1>3. \A t \in Tasks : t >= nextTask' => Released(task)[t].status = "absent"
  BY <1>2 DEF BoardInv, Released, Expired
<1> QED BY <1>1, <1>2, <1>3, SaveKeepsGood

LEMMA ListTasksKeeps ==
    ASSUME BoardInv, ListTasks
    PROVE  BoardInv'
BY ReleaseKeeps DEF ListTasks

LEMMA LeaseEndsKeeps ==
    ASSUME BoardInv, NEW t \in Tasks, LeaseEnds(t)
    PROVE  BoardInv'
<1> DEFINE q == [task[t] EXCEPT !.lease = "expired"]
<1>1. task[t] \in Task /\ Good(task[t], origin[t]) /\ task[t].lease = "live"
  BY DEF BoardInv, LeaseEnds
<1>2. /\ q \in Task /\ q.lease = "expired"
      /\ q.status = task[t].status /\ q.acceptanceCriteria = task[t].acceptanceCriteria
      /\ q.claimedBy = task[t].claimedBy /\ q.executionSource = task[t].executionSource
      /\ q.blockedResumeStatus = task[t].blockedResumeStatus
  BY <1>1 DEF Task
<1>3. Good(q, origin[t])
  BY <1>1, <1>2 DEF Good, Ruled, Whole, Rooted
<1>4. task' = [task EXCEPT ![t] = q] /\ nextTask' = nextTask /\ origin' = origin
  BY DEF LeaseEnds
<1> HIDE DEF q
<1>5. \A u \in Tasks : Good(task'[u], origin'[u])
  BY <1>3, <1>4 DEF BoardInv
<1> QED BY <1>2, <1>4, <1>5 DEF BoardInv

-----------------------------------------------------------------------------
(* The specification *)

LEMMA InitIsGood == BoardInit => BoardInv
<1> SUFFICES ASSUME BoardInit PROVE BoardInv
  OBVIOUS
<1>1. 1 \in 1 .. MaxTasks + 1
  BY TasksAssumption
<1> QED BY <1>1, NoTaskIsGood DEF BoardInit, BoardInv, NoTask, Origins

LEMMA AppKeeps ==
    ASSUME BoardInv, NEW t \in Tasks, App(t)
    PROVE  BoardInv'
<1>1. Patches(t) \subseteq Checklist
  BY ChecklistsAssumption DEF Patches, BoardInv, Task
<1>2. CASE \E s \in Statuses, c \in NewChecklists : CreateTask(s, c)
  BY <1>2, ChecklistsAssumption, CreateTaskKeeps
<1>3. CASE \E s \in Statuses, c \in Patches(t) : UpdateTask(t, s, c)
  BY <1>1, <1>3, UpdateTaskKeeps
<1>4. CASE DeleteTask(t)
  BY <1>4, DeleteTaskKeeps
<1>5. CASE \E k \in Criteria, s \in {"pending", "done", "blocked"} : UpdateCriterion(t, k, s)
  BY <1>5, UpdateCriterionKeeps
<1> QED BY <1>2, <1>3, <1>4, <1>5 DEF App

LEMMA AgentKeeps ==
    ASSUME BoardInv, NEW t \in Tasks, NEW a \in Actor, Agent(a, t)
    PROVE  BoardInv'
<1>1. Patches(t) \subseteq Checklist
  BY ChecklistsAssumption DEF Patches, BoardInv, Task
<1>2. CASE \E s \in Statuses, c \in Patches(t) : UpdateTaskFromExecution(t, a, s, c)
  BY <1>1, <1>2, UpdateTaskKeeps DEF UpdateTaskFromExecution
<1>3. CASE \E k \in Criteria, s \in {"pending", "done", "blocked"} :
               UpdateCriterionFromExecution(t, a, k, s)
  BY <1>3, UpdateCriterionKeeps DEF UpdateCriterionFromExecution
<1>4. CASE StartTaskExecution(t, a) \/ ClaimNextTask(t, a)
  BY <1>4, StartsKeep
<1> QED BY <1>2, <1>3, <1>4 DEF Agent

(* Every step of the board, and no step, keeps the invariant. *)
LEMMA BoardStep ==
    ASSUME BoardInv, [BoardNext]_board
    PROVE  BoardInv'
<1>1. CASE \E t \in Tasks : App(t)
  BY <1>1, AppKeeps
<1>2. CASE \E t \in Tasks, a \in ToolActors : Agent(a, t)
  BY <1>2, AgentKeeps DEF ToolActors
<1>3. CASE \E t \in Tasks, a \in RunnerActors : StartTaskExecution(t, a) \/ ClaimNextTask(t, a)
  BY <1>3, StartsKeep DEF RunnerActors
<1>4. CASE ListTasks
  BY <1>4, ListTasksKeeps
<1>5. CASE \E t \in Tasks : LeaseEnds(t)
  BY <1>5, LeaseEndsKeeps
<1>6. CASE UNCHANGED board
  BY <1>6 DEF board, BoardInv
<1> QED BY <1>1, <1>2, <1>3, <1>4, <1>5, <1>6 DEF BoardNext

(* The board is always in a state that satisfies the invariant. *)
THEOREM BoardIsGood == BoardSpec => []BoardInv
<1>1. BoardInv /\ [BoardNext]_board => BoardInv'
  BY BoardStep
<1> QED BY InitIsGood, <1>1, PTL DEF BoardSpec

(* Every field keeps its type, through all operations of the board. *)
THEOREM BoardTypeCorrect == BoardSpec => []BoardTypeOK
<1>1. BoardInv => BoardTypeOK
  BY DEF BoardInv, BoardTypeOK, Origins
<1> QED BY BoardIsGood, <1>1, PTL

(* Checklist and status always agree (resolveKanbanTaskStatus), however    *)
(* many criteria a task has and whoever edits it.                          *)
THEOREM StatusFollowsChecklist == BoardSpec => []ChecklistRulesStatus
<1>1. BoardInv => ChecklistRulesStatus
  BY DEF BoardInv, Good, Ruled, ChecklistRulesStatus
<1> QED BY BoardIsGood, <1>1, PTL

(* Owner, source and lease come and go together and only active work, or   *)
(* work blocked while active, has them.                                    *)
THEOREM OwnersAreWhole == BoardSpec => []OwnershipIsWhole
<1>1. BoardInv => OwnershipIsWhole
  BY DEF BoardInv, Good, Whole, OwnershipIsWhole
<1> QED BY BoardIsGood, <1>1, PTL

(* A blocked task always remembers the status it was blocked in.           *)
THEOREM BlockedWorkRemembers == BoardSpec => []ResumeKeepsOrigin
<1>1. BoardInv => ResumeKeepsOrigin
  BY DEF BoardInv, Good, Rooted, ResumeKeepsOrigin
<1> QED BY BoardIsGood, <1>1, PTL

-----------------------------------------------------------------------------
(* Action properties, task by task *)

KeepsOwner(r, q) ==
    /\ r.status \in {"in_progress", "blocked"}
    /\ r.executionSessionId \notin {None, q.executionSessionId}
    => r.lease = "expired" \/ q.status \notin {"in_progress", "blocked"}

EntersProperly(b, e, t) ==
    b[t].status # "in_progress" /\ e[t].status = "in_progress" =>
        \/ b[t].status \in {"absent", "queued"}
        \/ /\ b[t].status = "blocked" /\ e[t].lease = "live"
           /\ \A u \in Tasks \ {t} : e[u].status # "in_progress"

Proper(t) == KeepsOwner(task[t], task'[t]) /\ EntersProperly(task, task', t)

(* A release takes only expired work, and puts nothing into execution.     *)
LEMMA ReleaseIsProper ==
    ASSUME BoardInv, NEW u \in Tasks
    PROVE  LET q == Released(task)[u]
           IN  \/ q = task[u]
               \/ /\ task[u].status = "in_progress" /\ task[u].lease = "expired"
                  /\ q.status = "queued"
<1>1. task[u] \in Task
  BY DEF BoardInv
<1>2. CASE Expired(task[u])
  <2>1. Released(task)[u] = Disowned([task[u] EXCEPT !.status = "queued"])
    BY <1>2 DEF Released
  <2>2. Disowned([task[u] EXCEPT !.status = "queued"]).status = "queued"
    BY <1>1 DEF Disowned, Task
  <2> QED BY <1>2, <2>1, <2>2 DEF Expired
<1>3. CASE ~Expired(task[u])
  BY <1>3 DEF Released
<1> QED BY <1>2, <1>3

(* The tasks an operation does not write are left alone or released.       *)
LEMMA OthersAreProper ==
    ASSUME BoardInv, NEW b \in {task, Released(task)}, NEW t \in Tasks, NEW r,
           task' = [b EXCEPT ![t] = r], NEW u \in Tasks, u # t
    PROVE  Proper(u)
<1>1. b \in [Tasks -> Task]
  BY ReleasedIsGood DEF BoardInv
<1>2. task'[u] = b[u]
  BY <1>1
<1> QED BY <1>2, ReleaseIsProper DEF Proper, KeepsOwner, EntersProperly

(* applyKanbanTaskPatch writes no session, and puts only queued work into  *)
(* execution.                                                              *)
LEMMA UpdateTaskIsProper ==
    ASSUME BoardInv, NEW t \in Tasks, NEW s \in Statuses, NEW c \in Checklist,
           UpdateTask(t, s, c)
    PROVE  Proper(t)
<1> DEFINE r == task[t]
           q == Patched(r, s, c)
           p == [r EXCEPT !.acceptanceCriteria = c, !.status = Resolve(s, c),
                          !.blockedResumeStatus =
                              IF Resolve(s, c) = "blocked" THEN ResumePoint(r) ELSE "none"]
<1>1. r \in Task /\ task'[t] = q
  BY DEF BoardInv, UpdateTask, Save
<1>2. p.status = Resolve(s, c) /\ p.executionSessionId = r.executionSessionId
  BY <1>1 DEF Task
<1>3. q = IF Resolve(s, c) \in {"in_progress", "blocked"} THEN p ELSE Disowned(p)
  BY <1>2 DEF Patched, DisownedIfIdle
<1>4. /\ q.status = Resolve(s, c)
      /\ q.status \in {"in_progress", "blocked"} =>
             q.executionSessionId = r.executionSessionId
  BY <1>1, <1>2, <1>3 DEF Disowned, Task
<1>5. q.status = "in_progress" => r.status \in {"in_progress", "queued"}
  BY <1>4 DEF UpdateTask, CanPatch, AllowedNext, Resolve, Statuses
<1> QED BY <1>1, <1>4, <1>5 DEF Proper, KeepsOwner, EntersProperly

(* applyKanbanCriterionPatch writes no session, and puts only resumed work *)
(* of a live owner into execution, when nothing else is active.            *)
LEMMA UpdateCriterionIsProper ==
    ASSUME BoardInv, NEW t \in Tasks, NEW k \in Criteria,
           NEW status \in {"pending", "done", "blocked"}, UpdateCriterion(t, k, status)
    PROVE  Proper(t)
<1> DEFINE r == task[t]
           q == CriterionPatched(t, k, status)
           c == [r.acceptanceCriteria EXCEPT ![k] = status]
           v == Resolve(Requested(t), c)
           p == [r EXCEPT !.acceptanceCriteria = c, !.status = v,
                          !.blockedResumeStatus = "none"]
<1>1. r \in Task /\ task' = [task EXCEPT ![t] = q] /\ task'[t] = q
  BY DEF BoardInv, UpdateCriterion, Save
<1>2. r.status # "absent" /\ Good(r, origin[t])
  BY DEF BoardInv, UpdateCriterion, CanPatchCriterion
<1>3. CASE status = "blocked" \/ v = "blocked"
  <2>1. q.status = "blocked" /\ q.executionSessionId = r.executionSessionId
    BY <1>1, <1>3 DEF CriterionPatched, Task
  <2> QED BY <1>1, <2>1 DEF Proper, KeepsOwner, EntersProperly
<1>4. CASE status # "blocked" /\ v # "blocked"
  <2>1. q = DisownedIfIdle(p) /\ v = Requested(t)
    BY <1>4 DEF CriterionPatched, Resolve
  <2>2. /\ p.status = v /\ p.lease = r.lease
        /\ p.executionSessionId = r.executionSessionId
    BY <1>1 DEF Task
  <2>3. q = IF v = "in_progress" THEN p ELSE Disowned(p)
    BY <1>4, <2>1, <2>2 DEF DisownedIfIdle
  <2>4. /\ q.status = v
        /\ v = "in_progress" => /\ q.executionSessionId = r.executionSessionId
                                /\ q.lease = r.lease
    BY <1>1, <2>2, <2>3 DEF Disowned, Task
  <2>5. v = "in_progress" /\ r.status # "in_progress" =>
            r.status = "blocked" /\ ResumesActive(t)
    BY <2>1 DEF Requested
  <2>6. v = "in_progress" /\ r.status # "in_progress" =>
            \A u \in Tasks \ {t} : task'[u].status # "in_progress"
    BY <1>1, <2>5 DEF ResumesActive, BoardInv
  <2> QED BY <1>1, <1>4, <2>4, <2>5, <2>6 DEF Proper, KeepsOwner, EntersProperly, ResumesActive
<1> QED BY <1>3, <1>4

(* Starting and claiming give the session of an active task to nobody else. *)
LEMMA StartsAreProper ==
    ASSUME BoardInv, NEW t \in Tasks, NEW a \in Actor,
           StartTaskExecution(t, a) \/ ClaimNextTask(t, a)
    PROVE  Proper(t)
<1> DEFINE b == Released(task)
           p == Started(b[t], a)
           q == [p EXCEPT !.executionSessionId = a.sessionId]
<1>1. /\ task[t] \in Task /\ b \in [Tasks -> Task] /\ b[t] \in Task
      /\ b[t].status \in {"queued", "in_progress"}
  BY ReleasedIsGood DEF BoardInv, StartTaskExecution, ClaimNextTask, CanStart
<1>2. \/ b[t] = task[t]
      \/ task[t].status = "in_progress" /\ task[t].lease = "expired" /\ b[t].status = "queued"
  BY ReleaseIsProper
<1>3. /\ p.status = "in_progress"
      /\ p.executionSessionId = IF a.sessionId # None THEN a.sessionId
                                ELSE b[t].executionSessionId
  <2> HIDE DEF b
  <2> QED BY <1>1 DEF Started, Task
<1>4. CASE StartTaskExecution(t, a)
  <2>1. task'[t] = p
    BY <1>1, <1>4 DEF StartTaskExecution, Save
  <2>2. b[t].status = "in_progress" /\ b[t].executionSessionId # None =>
            b[t].executionSessionId = a.sessionId
    BY <1>4 DEF StartTaskExecution, CanStart, IsOwner
  <2>3. task[t].status = "in_progress" \/ task[t].status = "queued"
    BY <1>1, <1>2
  <2>4. KeepsOwner(task[t], p)
    BY <1>2, <1>3, <2>2, <2>3, <1>1 DEF KeepsOwner
  <2> QED BY <2>1, <2>3, <2>4 DEF Proper, EntersProperly
<1>5. CASE ClaimNextTask(t, a)
  <2>1. task'[t] = q /\ b[t].status = "queued"
    BY <1>1, <1>5 DEF ClaimNextTask, Save
  <2> QED BY <1>2, <2>1 DEF Proper, KeepsOwner, EntersProperly
<1> QED BY <1>4, <1>5

(* Every step is proper for every task. *)
LEMMA BoardStepIsProper ==
    ASSUME BoardInv, BoardNext, NEW t \in Tasks
    PROVE  Proper(t)
<1> DEFINE Checks == \A u \in Tasks : Patches(u) \subseteq Checklist
<1>1. Checks
  BY ChecklistsAssumption DEF Patches, BoardInv, Task
<1>2. ASSUME NEW s \in Statuses, NEW c \in NewChecklists, CreateTask(s, c)
      PROVE  Proper(t)
  <2>1. nextTask \in Tasks /\ task[nextTask].status = "absent"
    BY <1>2, TasksAssumption DEF CreateTask, BoardInv, Tasks
  <2> DEFINE r == [NoTask EXCEPT !.status = Resolve(s, c), !.acceptanceCriteria = c]
  <2>2. task' = [task EXCEPT ![nextTask] = r]
    BY <1>2 DEF CreateTask, Save
  <2> HIDE DEF r
  <2>3. CASE t = nextTask
    BY <2>1, <2>3 DEF Proper, KeepsOwner, EntersProperly
  <2>4. CASE t # nextTask
    BY <2>1, <2>2, <2>4, OthersAreProper
  <2> QED BY <2>3, <2>4
<1>3. ASSUME NEW u \in Tasks, NEW s \in Statuses, NEW c \in Checklist, UpdateTask(u, s, c)
      PROVE  Proper(t)
  <2>1. task' = [task EXCEPT ![u] = Patched(task[u], s, c)]
    BY <1>3 DEF UpdateTask, Save
  <2> QED BY <1>3, <2>1, UpdateTaskIsProper, OthersAreProper
<1>4. ASSUME NEW u \in Tasks, DeleteTask(u)
      PROVE  Proper(t)
  <2>1. task' = [task EXCEPT ![u] = NoTask] /\ task[u].status # "in_progress"
    BY <1>4 DEF DeleteTask, Save
  <2>2. Proper(u)
    BY <2>1, NoTaskIsGood DEF Proper, KeepsOwner, EntersProperly, NoTask, BoardInv
  <2> QED BY <2>1, <2>2, OthersAreProper
<1>5. ASSUME NEW u \in Tasks, NEW k \in Criteria,
             NEW status \in {"pending", "done", "blocked"}, UpdateCriterion(u, k, status)
      PROVE  Proper(t)
  <2>1. task' = [task EXCEPT ![u] = CriterionPatched(u, k, status)]
    BY <1>5 DEF UpdateCriterion, Save
  <2> QED BY <1>5, <2>1, UpdateCriterionIsProper, OthersAreProper
<1>6. ASSUME NEW u \in Tasks, NEW a \in Actor,
             StartTaskExecution(u, a) \/ ClaimNextTask(u, a)
      PROVE  Proper(t)
  <2>1. PICK r : task' = [Released(task) EXCEPT ![u] = r]
    BY <1>6 DEF StartTaskExecution, ClaimNextTask, Save
  <2> QED BY <1>6, <2>1, StartsAreProper, OthersAreProper
<1>7. CASE ListTasks \/ \E u \in Tasks : LeaseEnds(u)
  <2>1. CASE ListTasks
    BY <2>1, ReleaseIsProper DEF ListTasks, Save, Proper, KeepsOwner, EntersProperly
  <2>2. ASSUME NEW u \in Tasks, LeaseEnds(u)
        PROVE  /\ task'[t].status = task[t].status
               /\ task'[t].executionSessionId = task[t].executionSessionId
    BY <2>2 DEF LeaseEnds, BoardInv, Task
  <2> QED BY <1>7, <2>1, <2>2 DEF Proper, KeepsOwner, EntersProperly
<1>8. ASSUME NEW u \in Tasks, App(u)
      PROVE  Proper(t)
  BY <1>1, <1>2, <1>3, <1>4, <1>5, <1>8 DEF App
<1>9. ASSUME NEW u \in Tasks, NEW a \in Actor, Agent(a, u)
      PROVE  Proper(t)
  BY <1>1, <1>3, <1>5, <1>6, <1>9
     DEF Agent, UpdateTaskFromExecution, UpdateCriterionFromExecution
<1> QED BY <1>6, <1>7, <1>8, <1>9 DEF BoardNext, ToolActors, RunnerActors

(* "A running owner keeps exclusive execution rights until the task        *)
(* finishes, blocks, or expires" (kanban.service.ts:340): no operation of  *)
(* the board service takes an active or blocked task from its session.     *)
THEOREM OwnersKeepTasks == BoardSpec => OwnerKeepsTask
<1> DEFINE Keeps == \A t \in Tasks :
             /\ task[t].status \in {"in_progress", "blocked"}
             /\ task[t].executionSessionId \notin {None, task'[t].executionSessionId}
             => \/ task[t].lease = "expired"
                \/ task'[t].status \notin {"in_progress", "blocked"}
<1>1. BoardInv /\ [BoardNext]_board => [Keeps]_board
  BY BoardStepIsProper DEF Proper, KeepsOwner
<1> QED BY BoardIsGood, <1>1, PTL DEF BoardSpec, OwnerKeepsTask

(* Work enters execution from the queue, by creation, or back from blocked *)
(* with a live owner and nothing else active: resuming never makes a       *)
(* second active task.                                                     *)
THEOREM ExecutionIsEntered == BoardSpec => EntersExecution
<1> DEFINE Enters == \A t \in Tasks :
             task[t].status # "in_progress" /\ task'[t].status = "in_progress" =>
               \/ task[t].status \in {"absent", "queued"}
               \/ /\ task[t].status = "blocked" /\ task'[t].lease = "live"
                  /\ \A u \in Tasks \ {t} : task'[u].status # "in_progress"
<1>1. BoardInv /\ [BoardNext]_board => [Enters]_board
  BY BoardStepIsProper DEF Proper, EntersProperly
<1> QED BY BoardIsGood, <1>1, PTL DEF BoardSpec, EntersExecution

=============================================================================
