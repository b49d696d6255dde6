------------------------------- MODULE AtomicBoard -------------------------------
(***************************************************************************)
(* What the board's file promises to its callers (kanban.store.ts): every  *)
(* call takes effect at one moment between its beginning and its end.  A   *)
(* transaction changes the content as it is at that moment, a read returns *)
(* it; a call that fails, or that a crash cuts off, changed it once or not *)
(* at all.  The content is the sequence of the callers that changed it.    *)
(***************************************************************************)
EXTENDS Sequences

CONSTANT Clients

VARIABLES content, calls

abstract == <<content, calls>>

NoCall == [at |-> "idle", seen |-> <<>>]

AtomicInit == content = <<>> /\ calls = [c \in Clients |-> NoCall]

Moves(c, from, to, seen) ==
    /\ calls[c].at \in from
    /\ calls' = [calls EXCEPT ![c] = [at |-> to, seen |-> seen]]

Called(c) == Moves(c, {"idle"}, "write", <<>>) \/ Moves(c, {"idle"}, "read", <<>>)

Changed(c) == Moves(c, {"write"}, "wrote", <<>>) /\ content' = Append(content, c)

Seen(c) == Moves(c, {"read"}, "saw", content)

Returned(c) == Moves(c, {"write", "wrote", "read", "saw"}, "idle", <<>>)

(* Every step is a step of some call. *)
AtomicNext ==
  /\ calls' # calls
  /\ \/ \E c \in Clients : Changed(c) \/ ((Called(c) \/ Seen(c) \/ Returned(c)) /\ UNCHANGED content)
     \/ calls' = [c \in Clients |-> NoCall] /\ UNCHANGED content

AtomicSpec == AtomicInit /\ [][AtomicNext]_abstract

=============================================================================
