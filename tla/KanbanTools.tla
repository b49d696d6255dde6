------------------------------ MODULE KanbanTools ------------------------------
(* The kanban tools of OpenCode sessions (kanban-tools-plugin.ts) and the   *)
(* routes behind them (kanban-agent.controller.ts): a tool is one request,  *)
(* and what the session is told comes some time after the board changed.    *)
(* Every session speaks as the same agent, so only its session id tells it  *)
(* from the others. People work on the board meanwhile, and leases end.     *)
EXTENDS Naturals, FiniteSets

CONSTANTS
    Workers,         \* OpenCode sessions
    Marks,           \* acceptance criteria
    NoWorker,
    MaxToolCalls,    \* bound: tools called
    MaxMeddling,     \* bound: steps of people and of the clock
    MaxUnheard       \* bound: failures after the board was written, lost answers

ASSUME ToolBounds ==
    /\ {MaxToolCalls, MaxMeddling, MaxUnheard} \subseteq Nat
    /\ NoWorker \notin Workers

VARIABLES
    ticket, ticketId, ticketFrom,   \* the board, of one task
    tool,        \* tool[w]: the call of session w
    holds,       \* holds[w]: w was last told that the task is its own
    over,        \* over[w]: its lease ended, or the task left execution, since
    toolBudget        \* calls, meddling and failures so far

tools == <<ticket, ticketId, ticketFrom, tool, holds, over, toolBudget>>

DEFAULT_AGENT_ID == "opencode-agent"

FreshMarks == [k \in Marks |-> "pending"]

B == INSTANCE KanbanBoard WITH
        MaxTasks <- 1, Criteria <- Marks, NewChecklists <- {FreshMarks},
        Agents <- {DEFAULT_AGENT_ID}, Sessions <- Workers, Runner <- "kanban-runner",
        None <- NoWorker, task <- ticket, nextTask <- ticketId, origin <- ticketFrom

It == ticket[1]
Me(w) == [agentId |-> DEFAULT_AGENT_ID, sessionId |-> w, source |-> "session"]

ToolNames == {"create", "start", "refine", "criterion", "claim", "complete", "block", "list"}
NoTool == [name |-> "none", step |-> "told", mine |-> FALSE]

ToolsTypeOK ==
    /\ B!BoardTypeOK
    /\ tool \in [Workers -> [name : ToolNames \cup {"none"}, mine : BOOLEAN,
                             step : {"sent", "patch", "ok", "empty", "conflict", "error", "told"}]]
    /\ holds \in [Workers -> BOOLEAN] /\ over \in [Workers -> BOOLEAN]
    /\ toolBudget.calls \in 0 .. MaxToolCalls /\ toolBudget.meddling \in 0 .. MaxMeddling
    /\ toolBudget.unheard \in 0 .. MaxUnheard

ToolsInit ==
    /\ \/ B!BoardInit
       \/ /\ ticket = [t \in B!Tasks |-> [B!NoTask EXCEPT !.status = "queued",
                                                       !.acceptanceCriteria = FreshMarks]]
          /\ ticketFrom = [t \in B!Tasks |-> "queued"] /\ ticketId = 2
    /\ tool = [w \in Workers |-> NoTool]
    /\ holds = [w \in Workers |-> FALSE] /\ over = [w \in Workers |-> FALSE]
    /\ toolBudget = [calls |-> 0, meddling |-> 0, unheard |-> 0]

(* What became of everybody's execution by this step. *)
Remembered(new) ==
    over' = [w \in Workers |-> w \notin new /\
                (over[w] \/ It'.lease = "expired" \/ It'.status \notin {"in_progress", "blocked"})]

-----------------------------------------------------------------------------
CallsTool(w, name) ==
    /\ tool[w].step = "told" /\ toolBudget.calls < MaxToolCalls
    /\ toolBudget' = [toolBudget EXCEPT !.calls = @ + 1]
    /\ tool' = [tool EXCEPT ![w] = [name |-> name, step |-> "sent", mine |-> FALSE]]
    /\ UNCHANGED <<ticket, ticketId, ticketFrom, holds, over>>

(* The board did what w asked, which made the task w's own (mine) or not.  *)
Done(w, step, mine) ==
    /\ tool' = [tool EXCEPT ![w].step = step, ![w].mine = mine]
    /\ Remembered(IF mine THEN {w} ELSE {})
    /\ UNCHANGED <<holds, toolBudget>>

(* refine with the status "in_progress" claims the task, then applies what  *)
(* else it brings in a second transaction.                                  *)
StartsTask(w) ==
    /\ tool[w].name = "start" /\ tool[w].step = "sent"
    /\ B!StartTaskExecution(1, Me(w))
    /\ \E next \in {"ok", "patch"} : Done(w, next, TRUE)

PatchesToo(w) ==
    /\ tool[w].step = "patch"
    /\ \E c \in B!Patches(1) : B!UpdateTaskFromExecution(1, Me(w), It.status, c)
    /\ tool' = [tool EXCEPT ![w].step = "ok"]
    /\ Remembered({}) /\ UNCHANGED <<holds, toolBudget>>

Claims(w) ==
    /\ tool[w].name = "claim" /\ tool[w].step = "sent"
    /\ B!ClaimNextTask(1, Me(w))
    /\ Done(w, "ok", TRUE)

(* Nothing is queued, or the agent has an active task; leases that ended    *)
(* are released only by a claim that goes on to look at the queue.          *)
NothingToClaim(w) ==
    /\ tool[w].name = "claim" /\ tool[w].step = "sent"
    /\ LET b == B!Released(ticket) IN
        /\ b[1].status # "queued"
        /\ IF B!Expired(It) THEN B!Save(b) /\ UNCHANGED ticketId
           ELSE UNCHANGED <<ticket, ticketId, ticketFrom>>
    /\ Done(w, "empty", FALSE)

Lists(w) ==
    /\ tool[w].name = "list" /\ tool[w].step = "sent"
    /\ IF B!Expired(It) THEN B!ListTasks ELSE UNCHANGED <<ticket, ticketId, ticketFrom>>
    /\ Done(w, "empty", FALSE)

(* The other tools: one transaction each. *)
Works(w) ==
    /\ tool[w].step = "sent"
    /\ \/ /\ tool[w].name = "create" /\ ticketId = 1
          /\ \E s \in B!Statuses, c \in {FreshMarks} : B!CreateTask(s, c)
       \/ /\ tool[w].name = "refine"
          /\ \E s \in B!Statuses \ {"in_progress"}, c \in B!Patches(1) :
                B!UpdateTaskFromExecution(1, Me(w), s, c)
       \/ /\ tool[w].name = "criterion"
          /\ \E k \in Marks, s \in {"pending", "done", "blocked"} :
                B!UpdateCriterionFromExecution(1, Me(w), k, s)
       \/ /\ tool[w].name = "complete"
          /\ B!UpdateTaskFromExecution(1, Me(w), "done", It.acceptanceCriteria)
       \/ /\ tool[w].name = "block"
          /\ B!UpdateTaskFromExecution(1, Me(w), "blocked", It.acceptanceCriteria)
    /\ Done(w, "ok", FALSE)

(* assertKanbanExecutionOwner: 409, which the plugin words as a result.     *)
Conflicts(w) ==
    /\ tool[w].name \in {"start", "refine", "criterion", "complete", "block"}
    /\ tool[w].step \in {"sent", "patch"}
    /\ It.status = "in_progress"
    /\ ~B!IsOwner(It, Me(w)) \/ (tool[w].name = "start" /\ It.executionSource = "runner")
    /\ ~(tool[w].name = "start" /\ tool[w].step = "sent" /\ B!Expired(It))
    /\ tool' = [tool EXCEPT ![w].step = "conflict"]
    /\ UNCHANGED <<ticket, ticketId, ticketFrom, holds, over, toolBudget>>

(* A 400: the board refuses, and keeps what the first transaction wrote.    *)
ToolRefused(w) ==
    /\ tool[w].step \in {"sent", "patch"} /\ tool[w].name \notin {"claim", "list"}
    /\ tool' = [tool EXCEPT ![w].step = "error"]
    /\ UNCHANGED <<ticket, ticketId, ticketFrom, holds, over, toolBudget>>

(* Work after the transaction fails, or the answer is lost. *)
Unheard(w) ==
    /\ tool[w].step \in {"ok", "empty", "patch"} /\ toolBudget.unheard < MaxUnheard
    /\ toolBudget' = [toolBudget EXCEPT !.unheard = @ + 1]
    /\ tool' = [tool EXCEPT ![w].step = "error"]
    /\ UNCHANGED <<ticket, ticketId, ticketFrom, holds, over>>

(* The session reads the result: the task with its status, or "Stop working *)
(* on this task in the current session".                                    *)
ToolTold(w) ==
    /\ tool[w].step \in {"ok", "empty", "conflict", "error"}
    /\ tool' = [tool EXCEPT ![w] = NoTool]
    /\ holds' = [holds EXCEPT ![w] =
         IF tool[w].step = "ok" /\ tool[w].mine THEN TRUE
         ELSE IF \/ tool[w].step = "ok" /\ tool[w].name \in {"complete", "block"}
                 \/ tool[w].step = "conflict" THEN FALSE
         ELSE @]
    /\ UNCHANGED <<ticket, ticketId, ticketFrom, over, toolBudget>>

(* People in the Mini App, the runner, and the clock. *)
Meddles ==
    /\ toolBudget.meddling < MaxMeddling /\ toolBudget' = [toolBudget EXCEPT !.meddling = @ + 1]
    /\ \/ B!App(1) \/ B!LeaseEnds(1)
       \/ \E a \in B!RunnerActors : B!StartTaskExecution(1, a) \/ B!ClaimNextTask(1, a)
    /\ Remembered({})
    /\ UNCHANGED <<tool, holds>>

ToolsNext ==
    \/ Meddles
    \/ \E w \in Workers :
        \/ \E name \in ToolNames : CallsTool(w, name)
        \/ StartsTask(w) \/ PatchesToo(w) \/ Claims(w) \/ NothingToClaim(w) \/ Lists(w) \/ Works(w)
        \/ Conflicts(w) \/ ToolRefused(w) \/ Unheard(w) \/ ToolTold(w)

-----------------------------------------------------------------------------
(* No two sessions work on the task at once: when both were told that it is *)
(* theirs, however late, the lease of one has ended since, or the task left *)
(* execution; and a session is told to stop only when it does not own it.   *)
OneWorks ==
    /\ \A v, w \in Workers : v # w /\ holds[v] /\ holds[w] => over[v] \/ over[w]
    /\ \A w \in Workers : tool[w].step = "conflict" /\ tool[w].name # "start" =>
           ~holds[w] \/ over[w]

=============================================================================
