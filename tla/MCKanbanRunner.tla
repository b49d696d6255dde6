---------------------------- MODULE MCKanbanRunner ----------------------------
(* The runner for TLC: new checklists are absent or all pending.  The      *)
(* sessions only the runner uses are interchangeable.                      *)
EXTENDS KanbanRunner, TLC

OpenChecklists == {[c \in Criteria |-> s] : s \in {"absent", "pending"}}

Symmetry == Permutations(Sessions \ ToolSessions)

===============================================================================
