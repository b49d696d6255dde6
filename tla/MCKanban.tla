-------------------------------- MODULE MCKanban --------------------------------
(* The board and the session continuation for TLC, one after the other: a  *)
(* behaviour is either the board under everything people and tools may do  *)
(* to it, or the continuation with the little work it needs.  Requests     *)
(* carry checklists with all criteria in one state, criterion updates mix  *)
(* them.                                                                   *)
EXTENDS KanbanSession, TLC

UniformChecklists ==
    {c \in [Criteria -> {"absent", "pending", "blocked"}] :
        \A k, l \in Criteria : c[k] = c[l]}

(* Sessions are interchangeable, and so are criteria and parts. *)
Symmetry == Permutations(Sessions) \cup Permutations(Criteria) \cup Permutations(Parts)

VARIABLE part

MCInit == SessionInit /\ part \in {"board", "continuation"}

MCNext ==
    /\ UNCHANGED part
    /\ \/ part = "board" /\ BoardNext /\ UNCHANGED services
       \/ part = "continuation" /\ SessionNext

MCSpec == MCInit /\ [][MCNext]_<<part, board, services>>

=============================================================================
