------------------------------ MODULE SerialTurns ------------------------------
(***************************************************************************)
(* What the prompt queue promises its callers: a project's turns run one   *)
(* at a time, in the order they were submitted, each until it ends; only a *)
(* restart gives a running turn back, and then it is the first to run      *)
(* again.  Several projects may move in one step, as they do when the      *)
(* backend starts.                                                         *)
(***************************************************************************)
EXTENDS Naturals

CONSTANTS Turns,      \* turns in the order of submission
          Projects,
          NoProject

VARIABLES owner, stage

Stages == {"unused", "pending", "running", "ended"}

Init == /\ owner = [t \in Turns |-> NoProject]
        /\ stage = [t \in Turns |-> "unused"]

Of(p) == {t \in Turns : owner'[t] = p}

(* How the stage of one turn may change in a step. *)
Moves == {<<"unused", "pending">>, <<"unused", "running">>,
          <<"pending", "running">>, <<"running", "ended">>,
          <<"running", "pending">>}

(* One turn at a time, and none before an older one has ended. *)
Serial(p) ==
    \A t, u \in Of(p) :
        t < u /\ stage'[u] \in {"running", "ended"} => stage'[t] = "ended"

(* Submitted turns follow those already there and stay with their project. *)
Submitted ==
    \A t \in Turns :
        /\ owner'[t] # owner[t] => owner[t] = NoProject /\ stage[t] = "unused"
        /\ stage[t] = "unused" /\ stage'[t] # "unused" =>
              /\ owner'[t] \in Projects
              /\ \A u \in Turns : u > t => stage[u] = "unused"

Step ==
    /\ \A t \in Turns : stage'[t] # stage[t] => <<stage[t], stage'[t]>> \in Moves
    /\ owner' \in [Turns -> Projects \cup {NoProject}]
    /\ stage' \in [Turns -> Stages]
    /\ Submitted
    /\ \A p \in Projects : Serial(p)

Spec == Init /\ [][Step]_<<owner, stage>>

=============================================================================
