--------------------------- MODULE MCTelegramOutbox ---------------------------
(* The outbox for TLC, within one of two bounds: one bot process and items *)
(* to order, or two processes, side by side or one after the other, and    *)
(* one item to fight for.                                                  *)
EXTENDS TelegramOutbox, TLC

(* Workers differ by name only. *)
Symmetry == Permutations(Workers)

InBounds ==
    \/ Cardinality({w \in Workers : pc[w] # "off"}) <= 1
    \/ nextId <= 2

=============================================================================
