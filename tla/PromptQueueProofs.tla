--------------------------- MODULE PromptQueueProofs ---------------------------
(***************************************************************************)
(* Proofs about the prompt queue, for every number of projects, messages,  *)
(* items and restarts.  Four invariants carry them: LaneInv says what the  *)
(* dispatch loops and the file know of each other, BufferInv what a buffer *)
(* of each mode holds, MessageInv where a message can be, DownloadInv what *)
(* may happen to a buffer while its attachments are downloaded.            *)
(***************************************************************************)
EXTENDS PromptQueue, FiniteSetTheorems, WellFoundedInduction, TLAPS

(* Turns start in order: nothing newer has started before an older one of  *)
(* the same project ended.                                                 *)
InOrder(f) ==
    \A i, j \in Ids :
        /\ i < j /\ f[i].project = f[j].project
        /\ f[j].status \in {"running"} \cup Ended
        => f[i].status \in Ended

(* The file holds the items below n, each of a project. *)
Holds(f, n) ==
    /\ f \in [Ids -> Item]
    /\ \A i \in Ids : IF i < n THEN f[i].status # "unused" /\ f[i].project \in Projects
                      ELSE f[i].status = "unused" /\ f[i].project = NoProject
                           /\ f[i].messages = {}

(* The loop of Q, if any, works on an item of Q; a running item is the one *)
(* its loop works on; and no turn waits without a loop.                    *)
Tended(f, Q) ==
    /\ \A q \in Q : lane[q] # NoTurn =>
          f[lane[q]].project = q /\ f[lane[q]].status \in {"running"} \cup Ended
    /\ \A i \in Ids : f[i].project \in Q =>
          /\ f[i].status = "running" => lane[f[i].project] = i
          /\ f[i].status = "pending" => lane[f[i].project] # NoTurn

LaneInv == /\ Holds(item, nextId) /\ InOrder(item)
           /\ Tended(item, Projects)

(* Plain text buffers hold one text, attachment buffers an attachment. *)
Fits(b) == \/ b.mode = "plain_text" /\ \E m \in Texts : b.messages = {m}
           \/ b.mode = "attachment_context" /\ b.messages \cap Attachments # {}

(* What ends up in an item came from a buffer or from the backend. *)
TurnOfOne(M) == \E m \in Texts \cup Systems : M = {m}
TurnFits(M)  == TurnOfOne(M) \/ M \cap Attachments # {}

BuffersFit == \A p \in Projects : \A n \in DOMAIN buffers[p] : Fits(buffers[p][n])
FlightsFit == \A f \in flights : f.messages \cap Attachments # {}
TurnsFit   == \A i \in Ids : i < nextId => TurnFits(item[i].messages)

BufferInv == BuffersFit /\ FlightsFit /\ TurnsFit

(* A message is only where it was sent to. *)
BuffersOwn == \A p \in Projects : \A n \in DOMAIN buffers[p] :
                 \A m \in buffers[p][n].messages : sent[m] = p
FlightsOwn == \A f \in flights : \A m \in f.messages : sent[m] = f.project
TurnsOwn   == \A i \in Ids : \A m \in item[i].messages : sent[m] = item[i].project
RefusedOwn == \A m \in refused : sent[m] \in Projects

MessageInv == BuffersOwn /\ FlightsOwn /\ TurnsOwn /\ RefusedOwn

(* Of a project nobody collided with there is one buffer at most, and      *)
(* while it is downloaded it stays as it is and no timer is armed for it.  *)
DownloadInv ==
    \A p \in Projects \ collided :
        /\ Len(buffers[p]) <= 1
        /\ \A f \in flights : f.project = p =>
              /\ p \notin timers
              /\ Len(buffers[p]) = 1
              /\ f.messages = buffers[p][1].messages

(* Somewhere, and without a restart in one place only. *)
PlaceInv ==
    \A m \in Messages : sent[m] \in Projects \ collided =>
        /\ InBuffer(m, sent[m]) \/ TurnsOf(m) # {} \/ m \in refused
        /\ restarts = 0 =>
              /\ \A i, j \in TurnsOf(m) : i = j
              /\ InBuffer(m, sent[m]) => TurnsOf(m) = {} /\ m \notin refused
              /\ m \in refused => TurnsOf(m) = {}

QueueInv == TypeOK /\ LaneInv /\ BufferInv /\ FilesFollowTurns
                   /\ MessageInv /\ DownloadInv /\ PlaceInv

(* What a step may do to an item that is in the file. *)
StatusMoves == {<<"pending", "running">>, <<"running", "pending">>,
                <<"running", "completed">>, <<"running", "failed">>,
                <<"completed", "pruned">>, <<"failed", "pruned">>}

Kept(i) == /\ item'[i].project = item[i].project
           /\ item'[i].messages = item[i].messages
           /\ \/ item'[i].status = item[i].status
              \/ <<item[i].status, item'[i].status>> \in StatusMoves

AllKept == nextId' = nextId /\ \A i \in Ids : Kept(i)

Added(p, ms) ==
    /\ nextId \in Ids /\ nextId' = nextId + 1
    /\ item'[nextId].project = p
    /\ item'[nextId].messages = ms
    /\ item'[nextId].status \in Outstanding
    /\ \A i \in Ids \ {nextId} : Kept(i)

LanesTyped == /\ item \in [Ids -> Item]
              /\ nextId \in 1 .. MaxItems + 1
              /\ lane \in [Projects -> Ids \cup {NoTurn}]

-----------------------------------------------------------------------------
(* The operators of the queue *)

(* A loop gets the oldest waiting turn of its project, and none only when  *)
(* nothing waits.                                                          *)
LEMMA NextTurnFacts ==
    ASSUME NEW f, NEW p
    PROVE  /\ Waiting(f, p) = {} => NextTurn(f, p) = NoTurn
           /\ Waiting(f, p) # {} => /\ NextTurn(f, p) \in Waiting(f, p)
                                    /\ \A j \in Waiting(f, p) : NextTurn(f, p) <= j
           /\ NextTurn(f, p) \in Ids \cup {NoTurn}
           /\ NextTurn(f, p) # NoTurn => NextTurn(f, p) \in Waiting(f, p)
<1> DEFINE W == Waiting(f, p)
<1>1. W \subseteq Nat /\ W \subseteq Ids /\ NoTurn \notin W
    BY BoundsAssumption DEF Waiting, Ids, NoTurn
<1>2. ASSUME W # {} PROVE \E i \in W : \A j \in W : i <= j
    <2>1. PICK i \in W : \A j \in W : ~ (<<j, i>> \in OpToRel(<, Nat))
        BY <1>1, <1>2, NatLessThanWellFounded, WFMin
    <2>2. \A j \in W : ~ (j < i)
        BY <1>1, <2>1 DEF OpToRel
    <2> QED BY <1>1, <2>2
<1>3. W # {} => NextTurn(f, p) \in W /\ \A j \in W : NextTurn(f, p) <= j
    BY <1>2 DEF NextTurn
<1>4. W = {} => NextTurn(f, p) = NoTurn
    BY DEF NextTurn
<1> QED BY <1>1, <1>3, <1>4

(* Claiming starts the turns the loops got and changes nothing else. *)
LEMMA ClaimFacts ==
    ASSUME NEW f \in [Ids -> Item], NEW P \in SUBSET Projects,
           lane \in [Projects -> Ids \cup {NoTurn}], Claim(f, P)
    PROVE  /\ item' \in [Ids -> Item]
           /\ lane' \in [Projects -> Ids \cup {NoTurn}]
           /\ \A i \in Ids : /\ item'[i].project = f[i].project
                             /\ item'[i].messages = f[i].messages
                             /\ IF \E p \in P : NextTurn(f, p) = i
                                THEN f[i].status = "pending" /\ item'[i].status = "running"
                                ELSE item'[i] = f[i]
           /\ \A p \in Projects : lane'[p] = IF p \in P THEN NextTurn(f, p) ELSE lane[p]
<1>1. \A p \in P : NextTurn(f, p) \in Ids \cup {NoTurn}
    BY NextTurnFacts
<1>2. ASSUME NEW i \in Ids, \E p \in P : NextTurn(f, p) = i
      PROVE  f[i].status = "pending"
    <2>1. i # NoTurn
        BY BoundsAssumption DEF Ids, NoTurn
    <2> QED BY <1>2, <2>1, NextTurnFacts DEF Waiting
<1>3. item' = [i \in Ids |-> IF \E p \in P : NextTurn(f, p) = i
                             THEN [f[i] EXCEPT !.status = "running"] ELSE f[i]]
    BY DEF Claim
<1>4. lane' \in [Projects -> Ids \cup {NoTurn}]
    BY <1>1 DEF Claim
<1>5. \A p \in Projects : lane'[p] = IF p \in P THEN NextTurn(f, p) ELSE lane[p]
    BY DEF Claim
<1>6. \A i \in Ids : /\ [f[i] EXCEPT !.status = "running"] \in Item
                     /\ [f[i] EXCEPT !.status = "running"].project = f[i].project
                     /\ [f[i] EXCEPT !.status = "running"].messages = f[i].messages
                     /\ [f[i] EXCEPT !.status = "running"].status = "running"
    BY DEF Item, Statuses
<1> QED BY <1>2, <1>3, <1>4, <1>5, <1>6

(* When no turn of the loops P runs in f, claiming for them keeps the      *)
(* order and leaves every project tended.                                  *)
LEMMA ClaimKeepsLanes ==
    ASSUME NEW f, NEW n \in Nat, NEW P \in SUBSET Projects,
           Holds(f, n), InOrder(f), Tended(f, Projects \ P),
           \A i \in Ids : f[i].project \in P => f[i].status # "running",
           lane \in [Projects -> Ids \cup {NoTurn}], Claim(f, P)
    PROVE  Holds(item', n) /\ InOrder(item') /\ Tended(item, Projects)'
<1>1. f \in [Ids -> Item]
    BY DEF Holds
<1> DEFINE Claimed(i) == \E p \in P : NextTurn(f, p) = i
<1>2. /\ item' \in [Ids -> Item]
      /\ \A i \in Ids : /\ item'[i].project = f[i].project
                        /\ item'[i].messages = f[i].messages
                        /\ IF Claimed(i) THEN f[i].status = "pending" /\ item'[i].status = "running"
                           ELSE item'[i] = f[i]
      /\ \A p \in Projects : lane'[p] = IF p \in P THEN NextTurn(f, p) ELSE lane[p]
    BY <1>1, ClaimFacts
<1>3. \A i \in Ids, p \in P : NextTurn(f, p) = i =>
          /\ f[i].project = p /\ i # NoTurn
          /\ \A j \in Ids : f[j].project = p /\ f[j].status = "pending" => i <= j
    BY NextTurnFacts, BoundsAssumption DEF Waiting, Ids, NoTurn
<1>4. Holds(item', n)
    BY <1>2 DEF Holds
<1>5. InOrder(item')
    <2> SUFFICES ASSUME NEW i \in Ids, NEW j \in Ids, i < j,
                        item'[i].project = item'[j].project,
                        item'[j].status \in {"running"} \cup Ended
                 PROVE  item'[i].status \in Ended
        BY DEF InOrder
    <2>1. CASE ~ Claimed(j)
        <3>1. f[i].status \in Ended
            BY <1>2, <2>1 DEF InOrder
        <3> QED BY <1>2, <3>1 DEF Ended
    <2>2. CASE Claimed(j)
        <3>1. PICK p \in P : NextTurn(f, p) = j
            BY <2>2
        <3>2. f[j].project = p /\ f[i].project = p
            BY <1>2, <1>3, <3>1
        <3>3. f[i].status # "pending"
            BY <1>3, <3>1, <3>2 DEF Ids
        <3>4. f[i].status # "running"
            BY <3>2
        <3>5. f[i].status # "unused"
            BY <3>2, ProjectsAssumption DEF Holds
        <3>6. f[i].status \in Ended
            BY <1>1, <3>3, <3>4, <3>5 DEF Item, Statuses, Ended
        <3> QED BY <1>2, <3>3, <3>6
    <2> QED BY <2>1, <2>2
<1>6. ASSUME NEW q \in Projects, lane'[q] # NoTurn
      PROVE  item'[lane'[q]].project = q /\ item'[lane'[q]].status \in {"running"} \cup Ended
    <2>1. CASE q \in P
        <3>1. lane'[q] = NextTurn(f, q) /\ lane'[q] \in Ids
            BY <1>2, <1>6, <2>1, NextTurnFacts
        <3> QED BY <1>2, <1>3, <2>1, <3>1
    <2>2. CASE q \notin P
        <3>1. lane'[q] = lane[q] /\ lane[q] \in Ids
            BY <1>2, <1>6, <2>2
        <3>2. f[lane[q]].project = q /\ f[lane[q]].status \in {"running"} \cup Ended
            BY <1>6, <2>2, <3>1 DEF Tended
        <3> QED BY <1>2, <3>1, <3>2 DEF Ended
    <2> QED BY <2>1, <2>2
<1>7. ASSUME NEW i \in Ids, item'[i].project \in Projects
      PROVE  /\ item'[i].status = "running" => lane'[item'[i].project] = i
             /\ item'[i].status = "pending" => lane'[item'[i].project] # NoTurn
    <2> DEFINE q == item'[i].project
    <2>0. f[i].project = q
        BY <1>2
    <2>1. CASE Claimed(i)
        BY <1>2, <1>3, <2>1
    <2>2. CASE ~ Claimed(i) /\ q \in P
        <3>1. item'[i] = f[i] /\ f[i].status # "running"
            BY <1>2, <2>2
        <3>2. f[i].status = "pending" => NextTurn(f, q) \in Waiting(f, q)
            BY <2>0, NextTurnFacts DEF Waiting
        <3>3. NextTurn(f, q) \in Waiting(f, q) => NextTurn(f, q) # NoTurn
            BY BoundsAssumption DEF Waiting, Ids, NoTurn
        <3> QED BY <1>2, <2>2, <3>1, <3>2, <3>3
    <2>3. CASE ~ Claimed(i) /\ q \notin P
        BY <1>2, <1>7, <2>0, <2>3 DEF Tended
    <2> QED BY <2>1, <2>2, <2>3
<1>8. Tended(item, Projects)'
    BY <1>6, <1>7 DEF Tended
<1> QED BY <1>4, <1>5, <1>8

(* The loop of a project that is idle has nothing to do. *)
LEMMA IdleHasNoTurns ==
    ASSUME LaneInv, NEW p \in Projects, lane[p] = NoTurn, NEW i \in Ids,
           item[i].project = p
    PROVE  item[i].status \in Ended
<1>1. item[i].status \in Statuses /\ item[i].status # "unused"
    BY ProjectsAssumption DEF LaneInv, Holds, Item
<1>2. item[i].status # "running" /\ item[i].status # "pending"
    BY BoundsAssumption DEF LaneInv, Tended, Ids, NoTurn
<1> QED BY <1>1, <1>2 DEF Statuses, Ended

(* A new item goes behind the others; the loop of its project is woken     *)
(* when it sleeps.                                                         *)
LEMMA AppendFacts ==
    ASSUME TypeOK, LaneInv, NEW p \in Projects, NEW ms \in SUBSET Messages,
           nextId <= MaxItems
    PROVE  LET f == AppendItem(p, ms)
           IN  /\ nextId \in Ids
               /\ f[nextId].project = p /\ f[nextId].messages = ms /\ f[nextId].status = "pending"
               /\ \A i \in Ids \ {nextId} : f[i] = item[i]
               /\ Holds(f, nextId + 1) /\ InOrder(f)
<1> DEFINE f == AppendItem(p, ms)
           new == [project |-> p, messages |-> ms, status |-> "pending"]
<1>1. nextId \in Ids /\ item \in [Ids -> Item]
    BY BoundsAssumption DEF TypeOK, Ids
<1>2. new \in Item /\ new.project = p /\ new.messages = ms /\ new.status = "pending"
    BY DEF Item, Statuses
<1>3. /\ f \in [Ids -> Item]
      /\ f[nextId] = new
      /\ \A i \in Ids \ {nextId} : f[i] = item[i]
    BY <1>1, <1>2 DEF AppendItem
<1>4. Holds(f, nextId + 1)
    <2> SUFFICES ASSUME NEW i \in Ids
                 PROVE  IF i < nextId + 1 THEN f[i].status # "unused" /\ f[i].project \in Projects
                        ELSE f[i].status = "unused" /\ f[i].project = NoProject
                             /\ f[i].messages = {}
        BY <1>3 DEF Holds
    <2>1. CASE i = nextId
        BY <1>2, <1>3, <2>1 DEF Ids
    <2>2. CASE i # nextId
        <3>1. (i < nextId + 1) <=> (i < nextId)
            BY <1>1, <2>2 DEF Ids
        <3> QED BY <1>3, <2>2, <3>1 DEF LaneInv, Holds
    <2> QED BY <2>1, <2>2
<1>5. InOrder(f)
    <2> SUFFICES ASSUME NEW i \in Ids, NEW j \in Ids, i < j, f[i].project = f[j].project,
                        f[j].status \in {"running"} \cup Ended
                 PROVE  f[i].status \in Ended
        BY DEF InOrder
    <2>1. j # nextId
        BY <1>2, <1>3 DEF Ended
    <2>2. item[j] = f[j] /\ item[j].status # "unused"
        BY <1>3, <2>1 DEF Ended
    <2>3. j < nextId
        BY <2>2 DEF LaneInv, Holds
    <2>4. i # nextId
        BY <1>1, <2>3 DEF Ids
    <2> QED BY <1>3, <2>2, <2>4 DEF LaneInv, InOrder
<1> QED BY <1>1, <1>2, <1>3, <1>4, <1>5

(* enqueueItem and pumpQueue, from wherever they are called. *)
LEMMA EnqueueEffect ==
    ASSUME TypeOK, LaneInv, NEW p \in Projects, NEW ms \in SUBSET Messages,
           EnqueueItem(p, ms)
    PROVE  /\ LanesTyped' /\ LaneInv' /\ Added(p, ms)
           /\ \A q \in Projects : lane[q] # NoTurn => lane'[q] = lane[q]
<1> DEFINE f == AppendItem(p, ms)
           P == {q \in {p} : lane[q] = NoTurn}
<1>1. /\ nextId <= MaxItems /\ nextId' = nextId + 1 /\ Claim(f, P)
      /\ P \in SUBSET Projects
      /\ lane \in [Projects -> Ids \cup {NoTurn}]
    BY DEF EnqueueItem, Pump, TypeOK
<1>2. /\ nextId \in Ids
      /\ f[nextId].project = p /\ f[nextId].messages = ms /\ f[nextId].status = "pending"
      /\ \A i \in Ids \ {nextId} : f[i] = item[i]
      /\ Holds(f, nextId + 1) /\ InOrder(f)
    BY <1>1, AppendFacts
<1>3. Tended(f, Projects \ P)
    <2>1. ASSUME NEW q \in Projects \ P, lane[q] # NoTurn
          PROVE  f[lane[q]].project = q /\ f[lane[q]].status \in {"running"} \cup Ended
        <3>1. lane[q] \in Ids /\ item[lane[q]].status \in {"running"} \cup Ended
              /\ item[lane[q]].project = q
            BY <1>1, <2>1 DEF LaneInv, Tended
        <3>2. lane[q] # nextId
            BY <1>2, <3>1 DEF LaneInv, Holds, Ended, Ids
        <3> QED BY <1>2, <3>1, <3>2
    <2>2. ASSUME NEW i \in Ids, f[i].project \in Projects \ P
          PROVE  /\ f[i].status = "running" => lane[f[i].project] = i
                 /\ f[i].status = "pending" => lane[f[i].project] # NoTurn
        BY <1>2, <2>2 DEF LaneInv, Tended
    <2> QED BY <2>1, <2>2 DEF Tended
<1>4. \A i \in Ids : f[i].project \in P => f[i].status # "running"
    <2> SUFFICES ASSUME NEW i \in Ids, f[i].project = p, lane[p] = NoTurn, i # nextId
                 PROVE  f[i].status # "running"
        BY <1>2
    <2>1. f[i].status \in Ended
        BY <1>2, IdleHasNoTurns
    <2> QED BY <2>1 DEF Ended
<1>5. nextId + 1 \in Nat /\ nextId' \in 1 .. MaxItems + 1
    BY <1>1, <1>2, BoundsAssumption DEF Ids
<1>6. Holds(item', nextId + 1) /\ InOrder(item') /\ Tended(item, Projects)'
    BY <1>1, <1>2, <1>3, <1>4, <1>5, ClaimKeepsLanes
<1>7. f \in [Ids -> Item]
    BY <1>2 DEF Holds
<1>8. /\ item' \in [Ids -> Item]
      /\ lane' \in [Projects -> Ids \cup {NoTurn}]
      /\ \A i \in Ids : /\ item'[i].project = f[i].project
                        /\ item'[i].messages = f[i].messages
                        /\ \/ item'[i].status = f[i].status
                           \/ f[i].status = "pending" /\ item'[i].status = "running"
      /\ \A q \in Projects : lane'[q] = IF q \in P THEN NextTurn(f, q) ELSE lane[q]
    <2> HIDE DEF f, P
    <2> QED BY <1>1, <1>7, ClaimFacts
<1>9. Added(p, ms)
    <2>1. \A i \in Ids \ {nextId} : Kept(i)
        BY <1>2, <1>8 DEF Kept, StatusMoves
    <2> QED BY <1>1, <1>2, <1>8, <2>1 DEF Added, Outstanding
<1> QED BY <1>1, <1>5, <1>6, <1>8, <1>9 DEF LanesTyped, LaneInv

(* requeueRunningItems and the pumps of onModuleInit, over the file f. *)
LEMMA RestartEffect ==
    ASSUME TypeOK, NEW f, NEW n \in Nat, Holds(f, n), InOrder(f),
           Claim(Requeued(f), Projects)
    PROVE  /\ Holds(item', n) /\ InOrder(item') /\ Tended(item, Projects)'
           /\ lane' \in [Projects -> Ids \cup {NoTurn}]
           /\ \A i \in Ids :
                 /\ item'[i].project = f[i].project
                 /\ item'[i].messages = f[i].messages
                 /\ \/ item'[i].status = f[i].status
                    \/ f[i].status = "pending" /\ item'[i].status = "running"
                    \/ f[i].status = "running" /\ item'[i].status = "pending"
<1> DEFINE g == Requeued(f)
<1>1. f \in [Ids -> Item] /\ lane \in [Projects -> Ids \cup {NoTurn}]
    BY DEF Holds, TypeOK
<1>2. /\ g \in [Ids -> Item]
      /\ \A i \in Ids : /\ g[i].project = f[i].project
                        /\ g[i].messages = f[i].messages
                        /\ g[i].status = IF f[i].status = "running" THEN "pending"
                                         ELSE f[i].status
    BY <1>1 DEF Requeued, Item, Statuses
<1>3. Holds(g, n)
    BY <1>2 DEF Holds
<1>4. InOrder(g)
    BY <1>2 DEF InOrder, Ended
<1>5. Tended(g, Projects \ Projects)
    BY DEF Tended
<1>6. \A i \in Ids : g[i].status # "running"
    BY <1>2
<1> HIDE DEF g
<1>7. Claim(g, Projects) /\ Projects \in SUBSET Projects
    BY DEF g
<1>8. Holds(item', n) /\ InOrder(item') /\ Tended(item, Projects)'
    BY <1>1, <1>3, <1>4, <1>5, <1>6, <1>7, ClaimKeepsLanes
<1>9. /\ lane' \in [Projects -> Ids \cup {NoTurn}]
      /\ \A i \in Ids : /\ item'[i].project = g[i].project
                        /\ item'[i].messages = g[i].messages
                        /\ \/ item'[i].status = g[i].status
                           \/ g[i].status = "pending" /\ item'[i].status = "running"
    BY <1>1, <1>2, <1>7, ClaimFacts
<1> QED BY <1>2, <1>8, <1>9

(* A restart over the file as it is. *)
LEMMA PlainRestart ==
    ASSUME TypeOK, LaneInv, ModuleInit(item), nextId' = nextId
    PROVE  LanesTyped' /\ LaneInv' /\ AllKept
<1>1. nextId \in Nat /\ nextId' \in 1 .. MaxItems + 1
    BY BoundsAssumption DEF TypeOK
<1>2. Holds(item, nextId) /\ InOrder(item) /\ Claim(Requeued(item), Projects)
    BY DEF LaneInv, ModuleInit
<1>3. /\ Holds(item', nextId) /\ InOrder(item') /\ Tended(item, Projects)'
      /\ lane' \in [Projects -> Ids \cup {NoTurn}]
      /\ \A i \in Ids :
            /\ item'[i].project = item[i].project
            /\ item'[i].messages = item[i].messages
            /\ \/ item'[i].status = item[i].status
               \/ item[i].status = "pending" /\ item'[i].status = "running"
               \/ item[i].status = "running" /\ item'[i].status = "pending"
    BY <1>1, <1>2, RestartEffect
<1>4. \A i \in Ids : Kept(i)
    BY <1>3 DEF Kept, StatusMoves
<1> QED BY <1>1, <1>3, <1>4 DEF LanesTyped, LaneInv, Holds, AllKept

(* A restart between enqueueItem and removeBuffer. *)
LEMMA LateRestart ==
    ASSUME TypeOK, LaneInv, NEW p \in Projects, NEW ms \in SUBSET Messages,
           nextId <= MaxItems, nextId' = nextId + 1, ModuleInit(AppendItem(p, ms))
    PROVE  LanesTyped' /\ LaneInv' /\ Added(p, ms)
<1> DEFINE f == AppendItem(p, ms)
<1>1. /\ nextId \in Ids
      /\ f[nextId].project = p /\ f[nextId].messages = ms /\ f[nextId].status = "pending"
      /\ \A i \in Ids \ {nextId} : f[i] = item[i]
      /\ Holds(f, nextId + 1) /\ InOrder(f)
    BY AppendFacts
<1>2. nextId + 1 \in Nat /\ nextId' \in 1 .. MaxItems + 1
    BY <1>1, BoundsAssumption DEF Ids
<1>3. Claim(Requeued(f), Projects)
    BY DEF ModuleInit
<1> HIDE DEF f
<1>4. /\ Holds(item', nextId + 1) /\ InOrder(item') /\ Tended(item, Projects)'
      /\ lane' \in [Projects -> Ids \cup {NoTurn}]
      /\ \A i \in Ids :
            /\ item'[i].project = f[i].project
            /\ item'[i].messages = f[i].messages
            /\ \/ item'[i].status = f[i].status
               \/ f[i].status = "pending" /\ item'[i].status = "running"
               \/ f[i].status = "running" /\ item'[i].status = "pending"
    BY <1>1, <1>2, <1>3, RestartEffect
<1>5. \A i \in Ids \ {nextId} : Kept(i)
    BY <1>1, <1>4 DEF Kept, StatusMoves
<1> QED BY <1>1, <1>2, <1>4, <1>5 DEF LanesTyped, LaneInv, Holds, Added, Outstanding

(* Pruning touches ended items only, and never the one that just ended. *)
LEMMA PrunedFacts ==
    ASSUME NEW f \in [Ids -> Item], NEW i \in Ids, NEW g \in Pruned(f, i)
    PROVE  /\ g \in [Ids -> Item]
           /\ g[i] = f[i]
           /\ \A j \in Ids : /\ g[j].project = f[j].project
                             /\ g[j].messages = f[j].messages
                             /\ \/ g[j].status = f[j].status
                                \/ /\ f[j].status \in {"completed", "failed"}
                                   /\ g[j].status = "pruned"
<1> DEFINE done == {j \in Ids : f[j].status \in {"completed", "failed"}}
<1>1. PICK D \in SUBSET (done \ {i}) :
          g = [j \in Ids |-> IF j \in D THEN [f[j] EXCEPT !.status = "pruned"] ELSE f[j]]
    BY Zenon DEF Pruned
<1>2. \A j \in Ids : /\ [f[j] EXCEPT !.status = "pruned"] \in Item
                     /\ [f[j] EXCEPT !.status = "pruned"].project = f[j].project
                     /\ [f[j] EXCEPT !.status = "pruned"].messages = f[j].messages
                     /\ [f[j] EXCEPT !.status = "pruned"].status = "pruned"
    BY DEF Item, Statuses
<1> QED BY <1>1, <1>2

(* The dispatch of a turn returns or throws. *)
LEMMA DispatchEffect ==
    ASSUME TypeOK, LaneInv, NEW p \in Projects, DispatchEnds(p)
    PROVE  /\ LanesTyped' /\ LaneInv' /\ AllKept
<1> DEFINE i == lane[p]
<1>1. i \in Ids /\ item[i].status = "running" /\ nextId' = nextId /\ lane' = lane
    BY DEF DispatchEnds, TypeOK, memory
<1>2. PICK outcome \in {"completed", "failed"} :
          item' \in Pruned([item EXCEPT ![i].status = outcome], i)
    BY DEF DispatchEnds
<1> DEFINE f == [item EXCEPT ![i].status = outcome]
<1>3. /\ f \in [Ids -> Item]
      /\ f[i].status = outcome /\ f[i].project = item[i].project
      /\ f[i].messages = item[i].messages
      /\ \A j \in Ids \ {i} : f[j] = item[j]
    BY <1>1, <1>2 DEF TypeOK, Item, Statuses
<1> HIDE DEF f
<1>4. item' \in Pruned(f, i)
    BY <1>2 DEF f
<1>5. /\ item' \in [Ids -> Item]
      /\ item'[i] = f[i]
      /\ \A j \in Ids : /\ item'[j].project = f[j].project
                        /\ item'[j].messages = f[j].messages
                        /\ \/ item'[j].status = f[j].status
                           \/ /\ f[j].status \in {"completed", "failed"}
                              /\ item'[j].status = "pruned"
    BY <1>1, <1>3, <1>4, PrunedFacts
<1>6. \A j \in Ids :
          /\ item'[j].project = item[j].project
          /\ item'[j].messages = item[j].messages
          /\ \/ j # i /\ item'[j].status = item[j].status
             \/ j = i /\ item[j].status = "running" /\ item'[j].status = outcome
             \/ /\ item[j].status \in {"completed", "failed"}
                /\ item'[j].status = "pruned"
    BY <1>1, <1>3, <1>5
<1>7. \A j \in Ids : Kept(j)
    BY <1>2, <1>6 DEF Kept, StatusMoves
<1>8. Holds(item', nextId)
    BY <1>2, <1>5, <1>6 DEF LaneInv, Holds
<1>9. InOrder(item')
    BY <1>2, <1>6 DEF LaneInv, InOrder, Ended
<1>10. Tended(item', Projects)
    <2>1. ASSUME NEW q \in Projects, lane[q] # NoTurn
          PROVE  item'[lane[q]].project = q /\ item'[lane[q]].status \in {"running"} \cup Ended
        <3>1. lane[q] \in Ids
            BY <2>1 DEF TypeOK
        <3> QED BY <1>2, <1>6, <2>1, <3>1 DEF LaneInv, Tended, Ended
    <2>2. ASSUME NEW j \in Ids, item'[j].project \in Projects
          PROVE  /\ item'[j].status = "running" => lane[item'[j].project] = j
                 /\ item'[j].status = "pending" => lane[item'[j].project] # NoTurn
        BY <1>2, <1>6, <2>2 DEF LaneInv, Tended
    <2> QED BY <2>1, <2>2 DEF Tended
<1>11. Tended(item, Projects)'
    BY <1>1, <1>10 DEF Tended
<1> QED BY <1>1, <1>5, <1>7, <1>8, <1>9, <1>11 DEF LanesTyped, LaneInv, TypeOK, AllKept

(* The loop cleans up after its turn and takes the next one. *)
LEMMA CleanedEffect ==
    ASSUME TypeOK, LaneInv, NEW p \in Projects, Cleaned(p)
    PROVE  /\ LanesTyped' /\ LaneInv' /\ AllKept
           /\ lane[p] \in Ids
           /\ \A q \in Projects \ {p} : lane'[q] = lane[q]
<1>1. /\ lane[p] \in Ids /\ item[lane[p]].status \in Ended
      /\ Claim(item, {p}) /\ nextId' = nextId
      /\ lane \in [Projects -> Ids \cup {NoTurn}] /\ item \in [Ids -> Item]
    BY DEF Cleaned, TypeOK
<1>2. {p} \in SUBSET Projects /\ nextId \in Nat
    BY BoundsAssumption DEF TypeOK
<1>3. \A i \in Ids : item[i].project \in {p} => item[i].status # "running"
    BY <1>1 DEF LaneInv, Tended, Ended
<1>4. Holds(item, nextId) /\ InOrder(item) /\ Tended(item, Projects \ {p})
    BY DEF LaneInv, Tended
<1>5. Holds(item', nextId) /\ InOrder(item') /\ Tended(item, Projects)'
    BY <1>1, <1>2, <1>3, <1>4, ClaimKeepsLanes
<1>6. /\ item' \in [Ids -> Item]
      /\ lane' \in [Projects -> Ids \cup {NoTurn}]
      /\ \A i \in Ids : /\ item'[i].project = item[i].project
                        /\ item'[i].messages = item[i].messages
                        /\ \/ item'[i].status = item[i].status
                           \/ item[i].status = "pending" /\ item'[i].status = "running"
      /\ \A q \in Projects \ {p} : lane'[q] = lane[q]
    BY <1>1, <1>2, ClaimFacts
<1>7. \A i \in Ids : Kept(i)
    BY <1>6 DEF Kept, StatusMoves
<1> QED BY <1>1, <1>5, <1>6, <1>7 DEF LanesTyped, LaneInv, TypeOK, AllKept

-----------------------------------------------------------------------------
(* Where messages are *)

(* The buffer a flush takes. *)
LEMMA HeadFacts ==
    ASSUME TypeOK, NEW p \in Projects,
           HeadMode(p) \in {"plain_text", "attachment_context"}
    PROVE  /\ 1 \in DOMAIN buffers[p] /\ Len(buffers[p]) >= 1
           /\ Head(buffers[p]) = buffers[p][1]
           /\ buffers[p][1] \in Buffer
           /\ buffers[p][1].mode = HeadMode(p)
           /\ buffers[p][1].messages \in SUBSET (Texts \cup Attachments)
           /\ buffers[p][1].messages \in SUBSET Messages
<1>1. buffers[p] \in Seq(Buffer) /\ buffers[p] # <<>> /\ Head(buffers[p]).mode = HeadMode(p)
    BY DEF HeadMode, TypeOK
<1>2. /\ 1 \in DOMAIN buffers[p] /\ Len(buffers[p]) >= 1
      /\ Head(buffers[p]) = buffers[p][1] /\ buffers[p][1] \in Buffer
    BY <1>1
<1> QED BY <1>1, <1>2 DEF Buffer, Messages

(* An empty lane of a project holds nothing. *)
LEMMA NoBuffer ==
    ASSUME NEW p, buffers[p] = <<>>, NEW m
    PROVE  ~ InBuffer(m, p)
BY DEF InBuffer

(* Turns keep their messages. *)
LEMMA TurnsKept ==
    ASSUME AllKept
    PROVE  \A m : TurnsOf(m)' = TurnsOf(m)
BY DEF AllKept, Kept, TurnsOf

(* A new item holds the messages it was made of. *)
LEMMA TurnsAdded ==
    ASSUME LaneInv, NEW p, NEW ms, Added(p, ms)
    PROVE  \A m : /\ TurnsOf(m)' = IF m \in ms THEN TurnsOf(m) \cup {nextId} ELSE TurnsOf(m)
                  /\ nextId \notin TurnsOf(m)
<1>1. item[nextId].messages = {} /\ nextId \in Ids
    BY DEF LaneInv, Holds, Added, Ids
<1> QED BY <1>1 DEF Added, Kept, TurnsOf

(* The contents of the items when none is added. *)
LEMMA KeptContents ==
    ASSUME TypeOK, LaneInv, TurnsFit, TurnsOwn, AllKept,
           \A m \in Messages : sent[m] # NoProject => sent'[m] = sent[m]
    PROVE  TurnsFit' /\ TurnsOwn'
<1>1. \A i \in Ids : /\ item'[i].messages = item[i].messages /\ item'[i].project = item[i].project
                     /\ item[i].messages \subseteq Messages
    BY DEF AllKept, Kept, TypeOK, Item
<1>2. TurnsFit'
    BY <1>1 DEF AllKept, TurnsFit, TurnFits, TurnOfOne
<1>3. TurnsOwn'
    <2> SUFFICES ASSUME NEW i \in Ids, NEW m \in item[i].messages
                 PROVE  sent'[m] = item[i].project
        BY <1>1 DEF TurnsOwn
    <2>1. item[i].project \in Projects /\ sent[m] = item[i].project
        BY DEF LaneInv, Holds, TurnsOwn
    <2> QED BY <1>1, <2>1, ProjectsAssumption
<1> QED BY <1>2, <1>3

(* The contents of the items when one is added. *)
LEMMA AddedContents ==
    ASSUME TypeOK, LaneInv, TurnsFit, TurnsOwn, NEW p, NEW ms, Added(p, ms),
           TurnFits(ms), \A m \in ms : sent'[m] = p,
           \A m \in Messages : sent[m] # NoProject => sent'[m] = sent[m]
    PROVE  TurnsFit' /\ TurnsOwn'
<1>1. \A i \in Ids \ {nextId} :
          /\ item'[i].messages = item[i].messages /\ item'[i].project = item[i].project
          /\ item[i].messages \subseteq Messages
    BY DEF Added, Kept, TypeOK, Item
<1>2. /\ item'[nextId].messages = ms /\ item'[nextId].project = p
      /\ nextId \in Ids /\ nextId' = nextId + 1
    BY DEF Added
<1>3. TurnsFit'
    <2> SUFFICES ASSUME NEW i \in Ids, i < nextId + 1, i # nextId
                 PROVE  TurnFits(item[i].messages)
        BY <1>1, <1>2 DEF TurnsFit, TurnFits, TurnOfOne
    <2>1. i < nextId
        BY <1>2 DEF Ids
    <2> QED BY <2>1 DEF TurnsFit
<1>4. TurnsOwn'
    <2> SUFFICES ASSUME NEW i \in Ids \ {nextId}, NEW m \in item[i].messages
                 PROVE  sent'[m] = item[i].project
        BY <1>1, <1>2 DEF TurnsOwn
    <2>1. item[i].project \in Projects /\ sent[m] = item[i].project
        BY DEF LaneInv, Holds, TurnsOwn
    <2> QED BY <1>1, <2>1, ProjectsAssumption
<1> QED BY <1>3, <1>4

-----------------------------------------------------------------------------
(* Files of the turns *)

(* The loops that are at work stay with their turn, or a restart happened. *)
LoopsStay == \/ restarts' # 0
             \/ restarts' = restarts
                /\ \A q \in Projects : lane[q] # NoTurn => lane'[q] = lane[q]

(* No item comes and no file goes. *)
LEMMA FilesKept ==
    ASSUME TypeOK, LaneInv, FilesFollowTurns, AllKept, files' = files, LoopsStay
    PROVE  FilesFollowTurns'
<1> SUFFICES ASSUME NEW i \in Ids
             PROVE  /\ item'[i].status \in Outstanding /\ item'[i].messages \cap Attachments # {}
                          => i \in files
                    /\ i \in files /\ restarts' = 0 =>
                          \/ item'[i].status \in Outstanding
                          \/ \E p \in Projects : lane'[p] = i
    BY DEF FilesFollowTurns
<1>1. Kept(i) /\ i # NoTurn
    BY BoundsAssumption DEF AllKept, Ids, NoTurn
<1>2. ASSUME item'[i].status \in Outstanding, item'[i].messages \cap Attachments # {}
      PROVE  i \in files
    BY <1>1, <1>2 DEF FilesFollowTurns, Kept, StatusMoves, Outstanding
<1>3. ASSUME i \in files, restarts' = 0
      PROVE  \/ item'[i].status \in Outstanding
             \/ \E p \in Projects : lane'[p] = i
    <2>1. restarts = 0 /\ \A q \in Projects : lane[q] # NoTurn => lane'[q] = lane[q]
        BY <1>3 DEF LoopsStay
    <2>2. CASE \E p \in Projects : lane[p] = i
        BY <1>1, <2>1, <2>2
    <2>3. CASE item[i].status \in Outstanding
        <3>1. item[i].project \in Projects
            BY <2>3 DEF LaneInv, Holds, Outstanding
        <3>2. item[i].status = "running" => lane[item[i].project] = i
            BY <3>1 DEF LaneInv, Tended
        <3> QED BY <1>1, <2>1, <2>3, <3>1, <3>2 DEF Kept, StatusMoves, Outstanding
    <2> QED BY <1>3, <2>1, <2>2, <2>3 DEF FilesFollowTurns
<1> QED BY <1>2, <1>3

(* An item comes, with its files when it has attachments. *)
LEMMA FilesAdded ==
    ASSUME TypeOK, LaneInv, FilesFollowTurns, NEW p, NEW ms, Added(p, ms), LoopsStay,
           \/ files' = files /\ ms \cap Attachments = {}
           \/ files' = files \cup {nextId}
    PROVE  FilesFollowTurns'
<1> SUFFICES ASSUME NEW i \in Ids
             PROVE  /\ item'[i].status \in Outstanding /\ item'[i].messages \cap Attachments # {}
                          => i \in files'
                    /\ i \in files' /\ restarts' = 0 =>
                          \/ item'[i].status \in Outstanding
                          \/ \E q \in Projects : lane'[q] = i
    BY DEF FilesFollowTurns
<1>1. CASE i = nextId
    BY <1>1 DEF Added
<1>2. CASE i # nextId
    <2>1. Kept(i) /\ i # NoTurn /\ (i \in files' <=> i \in files)
        BY <1>2, BoundsAssumption DEF Added, Ids, NoTurn
    <2>2. ASSUME item'[i].status \in Outstanding, item'[i].messages \cap Attachments # {}
          PROVE  i \in files
        BY <2>1, <2>2 DEF FilesFollowTurns, Kept, StatusMoves, Outstanding
    <2>3. ASSUME i \in files, restarts' = 0
          PROVE  \/ item'[i].status \in Outstanding
                 \/ \E q \in Projects : lane'[q] = i
        <3>1. restarts = 0 /\ \A q \in Projects : lane[q] # NoTurn => lane'[q] = lane[q]
            BY <2>3 DEF LoopsStay
        <3>2. CASE \E q \in Projects : lane[q] = i
            BY <2>1, <3>1, <3>2
        <3>3. CASE item[i].status \in Outstanding
            <4>1. item[i].project \in Projects
                BY <3>3 DEF LaneInv, Holds, Outstanding
            <4>2. item[i].status = "running" => lane[item[i].project] = i
                BY <4>1 DEF LaneInv, Tended
            <4> QED BY <2>1, <3>1, <3>3, <4>1, <4>2 DEF Kept, StatusMoves, Outstanding
        <3> QED BY <2>3, <3>1, <3>2, <3>3 DEF FilesFollowTurns
    <2> QED BY <2>1, <2>2, <2>3
<1> QED BY <1>1, <1>2

-----------------------------------------------------------------------------
(* One lemma per operation *)

(* A message finds its buffer. *)
LEMMA AppendBufferFacts ==
    ASSUME TypeOK, BuffersFit, BuffersOwn, NEW p \in Projects, NEW m \in Texts \cup Attachments
    PROVE  LET b == AppendBuffer(p, m)
           IN  /\ b \in Seq(Buffer)
               /\ \A n \in DOMAIN b : Fits(b[n])
               /\ \A n \in DOMAIN b : \A x \in b[n].messages : x = m \/ sent[x] = p
               /\ \E n \in DOMAIN b : m \in b[n].messages
               /\ \A x \in Messages \ {m} : (\E n \in DOMAIN b : x \in b[n].messages) <=> InBuffer(x, p)
               /\ HeadMode(p) = "attachment_context" => Len(b) = Len(buffers[p])
               /\ HeadMode(p) = "none" => Len(b) = 1
<1>1. buffers[p] \in Seq(Buffer)
    BY DEF TypeOK
<1>2. NewBuffer(m) \in Buffer /\ Fits(NewBuffer(m)) /\ NewBuffer(m).messages = {m}
    BY MessagesAssumption DEF NewBuffer, Buffer, Fits
<1>3. CASE HeadMode(p) = "attachment_context"
    <2>1. /\ 1 \in DOMAIN buffers[p] /\ buffers[p][1] \in Buffer
          /\ buffers[p][1].mode = "attachment_context"
        BY <1>3, HeadFacts
    <2> DEFINE h == [buffers[p][1] EXCEPT !.messages = @ \cup {m}]
               b == [buffers[p] EXCEPT ![1] = h]
    <2>2. h \in Buffer /\ h.messages = buffers[p][1].messages \cup {m} /\ h.mode = "attachment_context"
        BY <2>1 DEF Buffer
    <2>3. Fits(buffers[p][1]) /\ Fits(h)
        BY <2>1, <2>2 DEF Fits, BuffersFit
    <2>4. AppendBuffer(p, m) = b
        BY <1>3 DEF AppendBuffer
    <2> HIDE DEF h
    <2>5. /\ b \in Seq(Buffer) /\ DOMAIN b = DOMAIN buffers[p] /\ Len(b) = Len(buffers[p])
          /\ b[1] = h /\ \A n \in DOMAIN b \ {1} : b[n] = buffers[p][n]
        BY <1>1, <2>1, <2>2
    <2> HIDE DEF b
    <2>6. \A n \in DOMAIN b : Fits(b[n])
        BY <2>3, <2>5 DEF BuffersFit
    <2>7. \A n \in DOMAIN b : \A x \in b[n].messages : x = m \/ sent[x] = p
        BY <2>1, <2>2, <2>5 DEF BuffersOwn
    <2>8. \A x \in Messages \ {m} : (\E n \in DOMAIN b : x \in b[n].messages) <=> InBuffer(x, p)
        BY <2>1, <2>2, <2>5 DEF InBuffer
    <2>9. \E n \in DOMAIN b : m \in b[n].messages
        BY <2>1, <2>2, <2>5
    <2> QED BY <1>3, <2>4, <2>5, <2>6, <2>7, <2>8, <2>9
<1>4. CASE HeadMode(p) # "attachment_context"
    <2> DEFINE k == NewBuffer(m)
               b == Append(buffers[p], k)
    <2>1. AppendBuffer(p, m) = b
        BY <1>4 DEF AppendBuffer
    <2>2. k \in Buffer /\ Fits(k) /\ k.messages = {m}
        BY <1>2
    <2> HIDE DEF k
    <2>3. /\ b \in Seq(Buffer) /\ Len(b) = Len(buffers[p]) + 1
          /\ DOMAIN b = 1 .. Len(buffers[p]) + 1 /\ DOMAIN buffers[p] = 1 .. Len(buffers[p])
          /\ Len(buffers[p]) \in Nat
          /\ b[Len(buffers[p]) + 1] = k /\ \A n \in DOMAIN buffers[p] : b[n] = buffers[p][n]
        BY <1>1, <2>2
    <2> HIDE DEF b
    <2>4. \A n \in DOMAIN b : n = Len(buffers[p]) + 1 \/ n \in DOMAIN buffers[p]
        BY <2>3
    <2>5. \A n \in DOMAIN b : Fits(b[n])
        BY <2>2, <2>3, <2>4 DEF BuffersFit
    <2>6. \A n \in DOMAIN b : \A x \in b[n].messages : x = m \/ sent[x] = p
        BY <2>2, <2>3, <2>4 DEF BuffersOwn
    <2>7. \A x \in Messages \ {m} : (\E n \in DOMAIN b : x \in b[n].messages) <=> InBuffer(x, p)
        BY <2>2, <2>3, <2>4 DEF InBuffer
    <2>8. Len(buffers[p]) + 1 \in DOMAIN b
        BY <2>3
    <2>9. HeadMode(p) = "none" => Len(buffers[p]) = 0
        <3>1. ASSUME buffers[p] # <<>> PROVE HeadMode(p) # "none"
            <4>1. Head(buffers[p]) \in Buffer
                BY <1>1, <3>1
            <4> QED BY <3>1, <4>1 DEF HeadMode, Buffer
        <3> QED BY <3>1
    <2> QED BY <1>4, <2>1, <2>2, <2>3, <2>5, <2>6, <2>7, <2>8, <2>9
<1> QED BY <1>3, <1>4

(* A message that was not sent yet is nowhere. *)
LEMMA UnsentIsNowhere ==
    ASSUME TypeOK, LaneInv, MessageInv, NEW m \in Messages, sent[m] = NoProject
    PROVE  /\ \A p \in Projects : ~ InBuffer(m, p)
           /\ TurnsOf(m) = {} /\ m \notin refused
           /\ \A f \in flights : m \notin f.messages
<1>1. \A p \in Projects : p # NoProject
    BY ProjectsAssumption
<1>2. \A p \in Projects : ~ InBuffer(m, p)
    BY <1>1 DEF InBuffer, MessageInv, BuffersOwn
<1>3. TurnsOf(m) = {}
    BY <1>1 DEF TurnsOf, MessageInv, TurnsOwn, LaneInv, Holds
<1>4. \A f \in flights : m \notin f.messages
    BY <1>1 DEF MessageInv, FlightsOwn, TypeOK, Flight
<1> QED BY <1>1, <1>2, <1>3, <1>4 DEF MessageInv, RefusedOwn

(* What a step does to the items as a whole. *)
ItemStep == AllKept \/ \E p \in Projects, ms \in SUBSET Messages : Added(p, ms)

(* A message whose buffer takes it. *)
LEMMA IncomingKeeps ==
    ASSUME QueueInv, NEW p \in Projects, NEW m \in Messages, Incoming(m, p)
    PROVE  QueueInv' /\ ItemStep
<1> USE DEF QueueInv, BufferInv, MessageInv
<1> DEFINE b == AppendBuffer(p, m)
<1>1. /\ m \in Texts \cup Attachments /\ ~SplitsText(p, m) /\ sent[m] = NoProject
      /\ sent' = [sent EXCEPT ![m] = p]
      /\ collided' = IF Unsafe(p, m) THEN collided \cup {p} ELSE collided
      /\ timers' = timers \cup {p}
      /\ buffers' = [buffers EXCEPT ![p] = b]
      /\ UNCHANGED <<item, nextId, files, flights, lane, refused, restarts>>
    BY DEF Incoming, Accept
<1>2. /\ b \in Seq(Buffer)
      /\ \A n \in DOMAIN b : Fits(b[n])
      /\ \A n \in DOMAIN b : \A x \in b[n].messages : x = m \/ sent[x] = p
      /\ \E n \in DOMAIN b : m \in b[n].messages
      /\ \A x \in Messages \ {m} : (\E n \in DOMAIN b : x \in b[n].messages) <=> InBuffer(x, p)
      /\ HeadMode(p) = "attachment_context" => Len(b) = Len(buffers[p])
      /\ HeadMode(p) = "none" => Len(b) = 1
    BY <1>1, AppendBufferFacts
<1>3. /\ \A q \in Projects : ~ InBuffer(m, q)
      /\ TurnsOf(m) = {} /\ m \notin refused
      /\ \A f \in flights : m \notin f.messages
    BY <1>1, UnsentIsNowhere
<1> HIDE DEF b
<1>4. /\ sent' \in [Messages -> Projects \cup {NoProject}]
      /\ sent'[m] = p /\ \A x \in Messages \ {m} : sent'[x] = sent[x]
      /\ buffers' \in [Projects -> Seq(Buffer)]
      /\ buffers'[p] = b /\ \A q \in Projects \ {p} : buffers'[q] = buffers[q]
    BY <1>1, <1>2 DEF TypeOK
<1>5. TypeOK'
    BY <1>1, <1>4 DEF TypeOK
<1>6. LaneInv' /\ AllKept
    BY <1>1 DEF LaneInv, Holds, InOrder, Tended, AllKept, Kept
<1>7. BuffersFit' /\ FlightsFit'
    BY <1>1, <1>2, <1>4 DEF BuffersFit, FlightsFit
<1>8. TurnsFit' /\ TurnsOwn'
    <2>1. \A x \in Messages : sent[x] # NoProject => sent'[x] = sent[x]
        BY <1>1, <1>4
    <2> QED BY <1>6, <2>1, KeptContents
<1>9. BuffersOwn'
    <2> SUFFICES ASSUME NEW q \in Projects, NEW n \in DOMAIN buffers'[q],
                        NEW x \in buffers'[q][n].messages
                 PROVE  sent'[x] = q
        BY DEF BuffersOwn
    <2>1. CASE q = p
        <3>1. b[n] \in Buffer /\ n \in DOMAIN b /\ x \in b[n].messages
            BY <1>2, <1>4, <2>1
        <3>2. x \in Messages
            BY <3>1 DEF Buffer, Messages
        <3> QED BY <1>2, <1>4, <2>1, <3>1, <3>2
    <2>2. CASE q # p
        <3>1. n \in DOMAIN buffers[q] /\ x \in buffers[q][n].messages /\ buffers[q][n] \in Buffer
            BY <1>4, <2>2 DEF TypeOK
        <3>2. sent[x] = q /\ x \in Messages
            BY <3>1 DEF BuffersOwn, Buffer, Messages
        <3>3. x # m
            BY <1>1, <3>2, ProjectsAssumption
        <3> QED BY <1>4, <3>2, <3>3
    <2> QED BY <2>1, <2>2
<1>10. FlightsOwn' /\ RefusedOwn'
    <2>1. \A f \in flights : f.messages \subseteq Messages
        BY DEF TypeOK, Flight, Messages
    <2>2. refused \subseteq Messages
        BY DEF TypeOK
    <2> QED BY <1>1, <1>3, <1>4, <2>1, <2>2 DEF FlightsOwn, RefusedOwn
<1>11. FilesFollowTurns'
    BY <1>1, <1>6, FilesKept DEF LoopsStay
<1>12. DownloadInv'
    <2> SUFFICES ASSUME NEW q \in Projects \ collided'
                 PROVE  /\ Len(buffers'[q]) <= 1
                        /\ \A f \in flights : f.project = q =>
                              /\ q \notin timers'
                              /\ Len(buffers'[q]) = 1
                              /\ f.messages = buffers'[q][1].messages
        BY <1>1 DEF DownloadInv
    <2>1. CASE q # p
        BY <1>1, <1>4, <2>1 DEF DownloadInv
    <2>2. CASE q = p
        <3>1. ~ Unsafe(p, m) /\ p \notin collided
            BY <1>1, <2>2
        <3>2. HeadMode(p) # "plain_text"
            BY <1>1, <3>1 DEF Unsafe, SplitsText
        <3>3. HeadMode(p) \in {"none", "attachment_context", "plain_text"}
            <4>1. buffers[p] \in Seq(Buffer)
                BY DEF TypeOK
            <4>2. buffers[p] # <<>> => Head(buffers[p]) \in Buffer
                BY <4>1
            <4> QED BY <4>2 DEF HeadMode, Buffer
        <3>4. Len(b) <= 1
            BY <1>2, <3>1, <3>2, <3>3 DEF DownloadInv
        <3>5. \A f \in flights : f.project # p
            BY <3>1 DEF Unsafe, Downloading
        <3> QED BY <1>4, <2>2, <3>4, <3>5
    <2> QED BY <2>1, <2>2
<1>13. PlaceInv'
    <2>1. \A x : TurnsOf(x)' = TurnsOf(x)
        BY <1>6, TurnsKept
    <2>2. \A x \in Messages \ {m}, q \in Projects : InBuffer(x, q)' <=> InBuffer(x, q)
        BY <1>2, <1>4 DEF InBuffer
    <2>3. InBuffer(m, p)'
        BY <1>2, <1>4 DEF InBuffer
    <2> SUFFICES ASSUME NEW x \in Messages, sent'[x] \in Projects \ collided'
                 PROVE  /\ InBuffer(x, sent[x])' \/ TurnsOf(x) # {} \/ x \in refused
                        /\ restarts = 0 =>
                              /\ \A i, j \in TurnsOf(x) : i = j
                              /\ InBuffer(x, sent[x])' => TurnsOf(x) = {} /\ x \notin refused
                              /\ x \in refused => TurnsOf(x) = {}
        BY <1>1, <2>1 DEF PlaceInv
    <2>4. CASE x = m
        BY <1>3, <1>4, <2>3, <2>4
    <2>5. CASE x # m
        <3>1. sent'[x] = sent[x] /\ sent[x] \in Projects \ collided
            BY <1>1, <1>4, <2>5
        <3>2. InBuffer(x, sent[x])' <=> InBuffer(x, sent[x])
            <4>1. InBuffer(x, sent[x])' <=> \E n \in DOMAIN buffers'[sent'[x]] : x \in buffers'[sent'[x]][n].messages
                BY DEF InBuffer
            <4> QED BY <2>2, <2>5, <3>1, <4>1 DEF InBuffer
        <3> QED BY <3>1, <3>2 DEF PlaceInv
    <2> QED BY <2>4, <2>5
<1> QED BY <1>5, <1>6, <1>7, <1>8, <1>9, <1>10, <1>11, <1>12, <1>13 DEF ItemStep

(* Nothing moves between buffers, items and refusals. *)
LEMMA NothingMoves ==
    ASSUME QueueInv, AllKept, UNCHANGED <<sent, buffers, refused, collided>>,
           restarts' = restarts \/ restarts' # 0
    PROVE  BuffersFit' /\ TurnsFit' /\ BuffersOwn' /\ TurnsOwn' /\ RefusedOwn' /\ PlaceInv'
<1> USE DEF QueueInv, BufferInv, MessageInv
<1>1. BuffersFit' /\ BuffersOwn' /\ RefusedOwn'
    BY DEF BuffersFit, BuffersOwn, RefusedOwn
<1>2. TurnsFit' /\ TurnsOwn'
    BY KeptContents
<1>3. PlaceInv'
    <2>1. \A x : TurnsOf(x)' = TurnsOf(x)
        BY TurnsKept
    <2>2. \A x, q : InBuffer(x, q)' <=> InBuffer(x, q)
        BY DEF InBuffer
    <2>3. \A x : InBuffer(x, sent[x])' <=> InBuffer(x, sent[x])
        BY DEF InBuffer
    <2> QED BY <2>1, <2>3 DEF PlaceInv
<1> QED BY <1>1, <1>2, <1>3

(* A timer fires and finds no buffer. *)
LEMMA FlushNothingKeeps ==
    ASSUME QueueInv, NEW p \in Projects, FlushNothing(p)
    PROVE  QueueInv' /\ ItemStep
<1> USE DEF QueueInv, BufferInv, MessageInv
<1>1. /\ timers' = timers \ {p}
      /\ UNCHANGED <<sent, buffers, item, nextId, files, flights, lane, refused, collided, restarts>>
    BY DEF FlushNothing, file
<1>2. AllKept /\ LaneInv' /\ TypeOK'
    BY <1>1 DEF AllKept, Kept, LaneInv, Holds, InOrder, Tended, TypeOK
<1>3. BuffersFit' /\ TurnsFit' /\ BuffersOwn' /\ TurnsOwn' /\ RefusedOwn' /\ PlaceInv'
    BY <1>1, <1>2, NothingMoves
<1>4. FlightsFit' /\ FlightsOwn' /\ DownloadInv'
    BY <1>1 DEF FlightsFit, FlightsOwn, DownloadInv
<1>5. FilesFollowTurns'
    BY <1>1 DEF FilesFollowTurns
<1> QED BY <1>2, <1>3, <1>4, <1>5 DEF ItemStep

(* A download starts; the buffer stays. *)
LEMMA FlushAttachmentsKeeps ==
    ASSUME QueueInv, NEW p \in Projects, FlushAttachments(p)
    PROVE  QueueInv' /\ ItemStep
<1> USE DEF QueueInv, BufferInv, MessageInv
<1> DEFINE g == [project |-> p, messages |-> buffers[p][1].messages]
<1>1. /\ p \in timers /\ HeadMode(p) = "attachment_context"
      /\ timers' = timers \ {p}
      /\ UNCHANGED <<sent, buffers, item, nextId, files, lane, refused, collided, restarts>>
    BY DEF FlushAttachments, file
<1>2. /\ 1 \in DOMAIN buffers[p] /\ Len(buffers[p]) >= 1
      /\ Head(buffers[p]) = buffers[p][1]
      /\ buffers[p][1].mode = "attachment_context"
      /\ buffers[p][1].messages \in SUBSET (Texts \cup Attachments)
    BY <1>1, HeadFacts
<1>3. flights' = flights \cup {g}
    BY <1>2 DEF FlushAttachments
<1>4. /\ g \in Flight /\ g.project = p /\ g.messages = buffers[p][1].messages
      /\ g.messages \cap Attachments # {}
      /\ \A m \in g.messages : sent[m] = p
    BY <1>2 DEF Flight, BuffersFit, Fits, BuffersOwn
<1> HIDE DEF g
<1>5. AllKept /\ LaneInv' /\ TypeOK'
    BY <1>1, <1>3, <1>4 DEF AllKept, Kept, LaneInv, Holds, InOrder, Tended, TypeOK
<1>6. BuffersFit' /\ TurnsFit' /\ BuffersOwn' /\ TurnsOwn' /\ RefusedOwn' /\ PlaceInv'
    BY <1>1, <1>5, NothingMoves
<1>7. FlightsFit' /\ FlightsOwn'
    BY <1>1, <1>3, <1>4 DEF FlightsFit, FlightsOwn
<1>8. DownloadInv'
    <2> SUFFICES ASSUME NEW q \in Projects \ collided
                 PROVE  /\ Len(buffers[q]) <= 1
                        /\ \A f \in flights' : f.project = q =>
                              /\ q \notin timers'
                              /\ Len(buffers[q]) = 1
                              /\ f.messages = buffers[q][1].messages
        BY <1>1 DEF DownloadInv
    <2>1. Len(buffers[q]) <= 1 /\ Len(buffers[q]) \in Nat
        BY DEF DownloadInv, TypeOK
    <2>2. ASSUME NEW f \in flights, f.project = q
          PROVE  q \notin timers' /\ Len(buffers[q]) = 1 /\ f.messages = buffers[q][1].messages
        BY <1>1, <2>2 DEF DownloadInv
    <2>3. ASSUME q = p
          PROVE  q \notin timers' /\ Len(buffers[q]) = 1 /\ g.messages = buffers[q][1].messages
        <3> DEFINE n == Len(buffers[q])
        <3>1. n >= 1
            BY <1>2, <2>3
        <3>2. n <= 1 /\ n \in Nat
            BY <2>1
        <3> HIDE DEF n
        <3>3. n = 1
            BY <3>1, <3>2
        <3> QED BY <1>1, <1>4, <2>3, <3>3 DEF n
    <2> QED BY <1>3, <1>4, <2>1, <2>2, <2>3
<1>9. FilesFollowTurns'
    BY <1>1 DEF FilesFollowTurns
<1> QED BY <1>5, <1>6, <1>7, <1>8, <1>9 DEF ItemStep

(* A turn ends in OpenCode. *)
LEMMA DispatchKeeps ==
    ASSUME QueueInv, NEW p \in Projects, DispatchEnds(p)
    PROVE  QueueInv' /\ ItemStep
<1> USE DEF QueueInv, BufferInv, MessageInv
<1>1. UNCHANGED <<sent, buffers, nextId, files, timers, flights, lane, refused, collided, restarts>>
    BY DEF DispatchEnds, memory
<1>2. LanesTyped' /\ LaneInv' /\ AllKept
    BY DispatchEffect
<1>3. TypeOK'
    BY <1>1, <1>2 DEF TypeOK, LanesTyped
<1>4. BuffersFit' /\ TurnsFit' /\ BuffersOwn' /\ TurnsOwn' /\ RefusedOwn' /\ PlaceInv'
    BY <1>1, <1>2, NothingMoves
<1>5. FlightsFit' /\ FlightsOwn' /\ DownloadInv'
    BY <1>1 DEF FlightsFit, FlightsOwn, DownloadInv
<1>6. FilesFollowTurns'
    BY <1>1, <1>2, FilesKept DEF LoopsStay
<1> QED BY <1>2, <1>3, <1>4, <1>5, <1>6 DEF ItemStep

(* The loop deletes the files of its turn and goes round. *)
LEMMA CleanedKeeps ==
    ASSUME QueueInv, NEW p \in Projects, Cleaned(p)
    PROVE  QueueInv' /\ ItemStep
<1> USE DEF QueueInv, BufferInv, MessageInv
<1>1. /\ files' = files \ {lane[p]} /\ item[lane[p]].status \in Ended
      /\ UNCHANGED <<sent, buffers, nextId, timers, flights, refused, collided, restarts>>
    BY DEF Cleaned
<1>2. /\ LanesTyped' /\ LaneInv' /\ AllKept /\ lane[p] \in Ids
      /\ \A q \in Projects \ {p} : lane'[q] = lane[q]
    BY CleanedEffect
<1>3. TypeOK'
    BY <1>1, <1>2 DEF TypeOK, LanesTyped
<1>4. BuffersFit' /\ TurnsFit' /\ BuffersOwn' /\ TurnsOwn' /\ RefusedOwn' /\ PlaceInv'
    BY <1>1, <1>2, NothingMoves
<1>5. FlightsFit' /\ FlightsOwn' /\ DownloadInv'
    BY <1>1 DEF FlightsFit, FlightsOwn, DownloadInv
<1>6. FilesFollowTurns'
    <2> SUFFICES ASSUME NEW i \in Ids
                 PROVE  /\ item'[i].status \in Outstanding /\ item'[i].messages \cap Attachments # {}
                              => i \in files'
                        /\ i \in files' /\ restarts' = 0 =>
                              \/ item'[i].status \in Outstanding
                              \/ \E q \in Projects : lane'[q] = i
        BY DEF FilesFollowTurns
    <2>1. Kept(i) /\ (i \in files' <=> i \in files /\ i # lane[p])
        BY <1>1, <1>2 DEF AllKept
    <2>2. ASSUME item'[i].status \in Outstanding, item'[i].messages \cap Attachments # {}
          PROVE  i \in files'
        BY <1>1, <2>1, <2>2 DEF FilesFollowTurns, Kept, StatusMoves, Outstanding, Ended
    <2>3. ASSUME i \in files', restarts' = 0
          PROVE  \/ item'[i].status \in Outstanding
                 \/ \E q \in Projects : lane'[q] = i
        <3>1. i \in files /\ i # lane[p] /\ restarts = 0
            BY <1>1, <2>1, <2>3
        <3>2. CASE \E q \in Projects : lane[q] = i
            BY <1>2, <3>1, <3>2
        <3>3. CASE item[i].status \in Outstanding
            <4>1. item[i].project \in Projects
                BY <3>3 DEF LaneInv, Holds, Outstanding
            <4>2. item[i].status = "running" => lane[item[i].project] = i
                BY <4>1 DEF LaneInv, Tended
            <4>3. item[i].status = "running" => lane'[item[i].project] = i
                BY <1>2, <3>1, <4>1, <4>2
            <4> QED BY <2>1, <3>3, <4>1, <4>3 DEF Kept, StatusMoves, Outstanding
        <3> QED BY <3>1, <3>2, <3>3 DEF FilesFollowTurns
    <2> QED BY <2>2, <2>3
<1> QED BY <1>2, <1>3, <1>4, <1>5, <1>6 DEF ItemStep

(* A restart with the file as it is: downloads are forgotten, timers armed *)
(* again.                                                                  *)
LEMMA RestartKeeps ==
    ASSUME QueueInv, Restart
    PROVE  QueueInv' /\ ItemStep
<1> USE DEF QueueInv, BufferInv, MessageInv
<1>1. /\ restarts < MaxRestarts /\ restarts' = restarts + 1
      /\ timers' = {p \in Projects : buffers[p] # <<>>} /\ flights' = {}
      /\ UNCHANGED <<sent, buffers, nextId, files, refused, collided>>
      /\ ModuleInit(item)
    BY DEF Restart, ModuleInit
<1>2. LanesTyped' /\ LaneInv' /\ AllKept
    BY <1>1, PlainRestart
<1>3. restarts' \in 0 .. MaxRestarts /\ restarts' # 0
    BY <1>1, BoundsAssumption DEF TypeOK
<1>4. TypeOK'
    BY <1>1, <1>2, <1>3 DEF TypeOK, LanesTyped
<1>5. BuffersFit' /\ TurnsFit' /\ BuffersOwn' /\ TurnsOwn' /\ RefusedOwn' /\ PlaceInv'
    BY <1>1, <1>2, <1>3, NothingMoves
<1>6. FlightsFit' /\ FlightsOwn' /\ DownloadInv'
    BY <1>1 DEF FlightsFit, FlightsOwn, DownloadInv
<1>7. FilesFollowTurns'
    BY <1>1, <1>2, <1>3, FilesKept DEF LoopsStay
<1> QED BY <1>2, <1>4, <1>5, <1>6, <1>7 DEF ItemStep

(* A restart after an item was appended and before its buffer was removed: *)
(* the message is in both and will be dispatched twice, but not lost.      *)
LEMMA LateRestartKeeps ==
    ASSUME QueueInv, NEW p \in Projects, NEW ms \in SUBSET Messages,
           nextId <= MaxItems, nextId' = nextId + 1, ModuleInit(AppendItem(p, ms)),
           TurnFits(ms), \A m \in ms : sent[m] = p,
           \/ files' = files /\ ms \cap Attachments = {}
           \/ files' = files \cup {nextId}
    PROVE  QueueInv' /\ ItemStep
<1> USE DEF QueueInv, BufferInv, MessageInv
<1>1. /\ restarts < MaxRestarts /\ restarts' = restarts + 1
      /\ timers' = {q \in Projects : buffers[q] # <<>>} /\ flights' = {}
      /\ UNCHANGED <<sent, buffers, refused, collided>>
    BY DEF ModuleInit
<1>2. LanesTyped' /\ LaneInv' /\ Added(p, ms)
    BY LateRestart
<1>3. restarts' \in 0 .. MaxRestarts /\ restarts' # 0
    BY <1>1, BoundsAssumption DEF TypeOK
<1>4. TypeOK'
    <2>1. nextId \in Ids
        BY <1>2 DEF Added
    <2> QED BY <1>1, <1>2, <1>3, <2>1 DEF TypeOK, LanesTyped
<1>5. BuffersFit' /\ BuffersOwn' /\ RefusedOwn' /\ FlightsFit' /\ FlightsOwn' /\ DownloadInv'
    BY <1>1 DEF BuffersFit, BuffersOwn, RefusedOwn, FlightsFit, FlightsOwn, DownloadInv
<1>6. TurnsFit' /\ TurnsOwn'
    BY <1>1, <1>2, AddedContents
<1>7. FilesFollowTurns'
    BY <1>2, <1>3, FilesAdded DEF LoopsStay
<1>8. PlaceInv'
    <2>1. \A x : TurnsOf(x) \subseteq TurnsOf(x)'
        BY <1>2, TurnsAdded
    <2>2. \A x : InBuffer(x, sent[x])' <=> InBuffer(x, sent[x])
        BY <1>1 DEF InBuffer
    <2>3. ASSUME NEW x \in Messages, sent'[x] \in Projects \ collided'
          PROVE  InBuffer(x, sent[x])' \/ TurnsOf(x)' # {} \/ x \in refused'
        <3>1. InBuffer(x, sent[x]) \/ TurnsOf(x) # {} \/ x \in refused
            BY <1>1, <2>3 DEF PlaceInv
        <3> QED BY <1>1, <2>1, <2>2, <3>1
    <2> QED BY <1>3, <2>3 DEF PlaceInv
<1> QED BY <1>2, <1>4, <1>5, <1>6, <1>7, <1>8 DEF ItemStep

(* The buffers of a project leave the file: those of the others stay. *)
LEMMA BuffersRemoved ==
    ASSUME TypeOK, BuffersFit, BuffersOwn, NEW p \in Projects, RemoveBuffer(p), sent' = sent
    PROVE  /\ buffers' \in [Projects -> Seq(Buffer)]
           /\ buffers'[p] = <<>> /\ \A q \in Projects \ {p} : buffers'[q] = buffers[q]
           /\ BuffersFit' /\ BuffersOwn'
           /\ \A x : sent[x] = p => ~ InBuffer(x, sent[x])'
           /\ \A x : sent[x] \in Projects \ {p} => (InBuffer(x, sent[x])' <=> InBuffer(x, sent[x]))
<1>1. /\ buffers' \in [Projects -> Seq(Buffer)]
      /\ buffers'[p] = <<>> /\ \A q \in Projects \ {p} : buffers'[q] = buffers[q]
    BY DEF RemoveBuffer, TypeOK
<1>2. BuffersFit' /\ BuffersOwn'
    BY <1>1 DEF BuffersFit, BuffersOwn
<1>3. \A x : InBuffer(x, sent[x])' <=>
              \E n \in DOMAIN buffers'[sent[x]] : x \in buffers'[sent[x]][n].messages
    BY DEF InBuffer
<1>4. ASSUME NEW x, sent[x] = p PROVE ~ InBuffer(x, sent[x])'
    BY <1>1, <1>3, <1>4
<1>5. ASSUME NEW x, sent[x] \in Projects \ {p}
      PROVE  InBuffer(x, sent[x])' <=> InBuffer(x, sent[x])
    BY <1>1, <1>3, <1>5 DEF InBuffer
<1> QED BY <1>1, <1>2, <1>4, <1>5

(* A buffer becomes a turn and the buffers of the project are removed:     *)
(* with no collision that buffer was the only one and held the same.       *)
LEMMA BufferBecomesTurn ==
    ASSUME QueueInv, NEW p \in Projects, NEW ms \in SUBSET Messages, EnqueueItem(p, ms),
           RemoveBuffer(p), UNCHANGED <<sent, refused, collided, restarts>>,
           TurnFits(ms), \A m \in ms : sent[m] = p,
           p \notin collided => Len(buffers[p]) = 1 /\ ms = buffers[p][1].messages,
           \/ files' = files /\ ms \cap Attachments = {}
           \/ files' = files \cup {nextId}
    PROVE  /\ LanesTyped' /\ LaneInv' /\ Added(p, ms) /\ FilesFollowTurns'
           /\ buffers' \in [Projects -> Seq(Buffer)]
           /\ buffers'[p] = <<>> /\ \A q \in Projects \ {p} : buffers'[q] = buffers[q]
           /\ BuffersFit' /\ TurnsFit' /\ BuffersOwn' /\ TurnsOwn' /\ RefusedOwn' /\ PlaceInv'
<1> USE DEF QueueInv, BufferInv, MessageInv
<1>1. /\ LanesTyped' /\ LaneInv' /\ Added(p, ms)
      /\ \A q \in Projects : lane[q] # NoTurn => lane'[q] = lane[q]
    BY EnqueueEffect
<1>2. FilesFollowTurns'
    BY <1>1, FilesAdded DEF LoopsStay
<1>3. TurnsFit' /\ TurnsOwn' /\ RefusedOwn'
    BY <1>1, AddedContents DEF RefusedOwn
<1>4. /\ buffers' \in [Projects -> Seq(Buffer)]
      /\ buffers'[p] = <<>> /\ \A q \in Projects \ {p} : buffers'[q] = buffers[q]
      /\ BuffersFit' /\ BuffersOwn'
      /\ \A x : sent[x] = p => ~ InBuffer(x, sent[x])'
      /\ \A x : sent[x] \in Projects \ {p} => (InBuffer(x, sent[x])' <=> InBuffer(x, sent[x]))
    BY BuffersRemoved
<1>5. \A x : /\ TurnsOf(x)' = IF x \in ms THEN TurnsOf(x) \cup {nextId} ELSE TurnsOf(x)
             /\ nextId \notin TurnsOf(x)
    BY <1>1, TurnsAdded
<1>6. PlaceInv'
    <2> SUFFICES ASSUME NEW x \in Messages, sent[x] \in Projects \ collided
                 PROVE  /\ InBuffer(x, sent[x])' \/ TurnsOf(x)' # {} \/ x \in refused
                        /\ restarts = 0 =>
                              /\ \A i, j \in TurnsOf(x)' : i = j
                              /\ InBuffer(x, sent[x])' => TurnsOf(x)' = {} /\ x \notin refused
                              /\ x \in refused => TurnsOf(x)' = {}
        BY DEF PlaceInv
    <2>1. /\ InBuffer(x, sent[x]) \/ TurnsOf(x) # {} \/ x \in refused
          /\ restarts = 0 =>
                /\ \A i, j \in TurnsOf(x) : i = j
                /\ InBuffer(x, sent[x]) => TurnsOf(x) = {} /\ x \notin refused
                /\ x \in refused => TurnsOf(x) = {}
        BY DEF PlaceInv
    <2>2. CASE sent[x] # p
        <3>1. x \notin ms
            BY <2>2
        <3>2. TurnsOf(x)' = TurnsOf(x) /\ (InBuffer(x, sent[x])' <=> InBuffer(x, sent[x]))
            BY <1>4, <1>5, <2>2, <3>1
        <3> QED BY <2>1, <3>2
    <2>3. CASE sent[x] = p
        <3>1. InBuffer(x, p) <=> x \in ms
            <4>1. DOMAIN buffers[p] = {1} /\ ms = buffers[p][1].messages
                BY <2>3 DEF TypeOK
            <4> QED BY <4>1 DEF InBuffer
        <3>2. ~ InBuffer(x, sent[x])'
            BY <1>4, <2>3
        <3>3. CASE x \in ms
            <4>1. TurnsOf(x)' = TurnsOf(x) \cup {nextId} /\ InBuffer(x, sent[x])
                BY <1>5, <2>3, <3>1, <3>3
            <4> QED BY <2>1, <3>2, <4>1
        <3>4. CASE x \notin ms
            <4>1. TurnsOf(x)' = TurnsOf(x) /\ ~ InBuffer(x, sent[x])
                BY <1>5, <2>3, <3>1, <3>4
            <4> QED BY <2>1, <3>2, <4>1
        <3> QED BY <3>3, <3>4
    <2> QED BY <2>2, <2>3
<1> QED BY <1>1, <1>2, <1>3, <1>4, <1>6

(* The messages of a buffered text. *)
LEMMA TextHead ==
    ASSUME TypeOK, BuffersFit, BuffersOwn, NEW p \in Projects, HeadMode(p) = "plain_text"
    PROVE  /\ Head(buffers[p]) = buffers[p][1] /\ Len(buffers[p]) >= 1
           /\ buffers[p][1].messages \in SUBSET Messages
           /\ TurnFits(buffers[p][1].messages)
           /\ buffers[p][1].messages \cap Attachments = {}
           /\ \A m \in buffers[p][1].messages : sent[m] = p
<1>1. /\ 1 \in DOMAIN buffers[p] /\ Len(buffers[p]) >= 1
      /\ Head(buffers[p]) = buffers[p][1]
      /\ buffers[p][1].mode = "plain_text"
      /\ buffers[p][1].messages \in SUBSET Messages
    BY HeadFacts
<1>2. PICK t \in Texts : buffers[p][1].messages = {t}
    BY <1>1 DEF BuffersFit, Fits
<1> QED BY <1>1, <1>2, MessagesAssumption DEF BuffersOwn, TurnFits, TurnOfOne

(* A buffered text becomes a turn. *)
LEMMA FlushTextKeeps ==
    ASSUME QueueInv, NEW p \in Projects, FlushText(p)
    PROVE  QueueInv' /\ ItemStep
<1> USE DEF QueueInv, BufferInv, MessageInv
<1> DEFINE ms == buffers[p][1].messages
<1>1. /\ p \in timers /\ HeadMode(p) = "plain_text" /\ timers' = timers \ {p}
      /\ EnqueueItem(p, Head(buffers[p]).messages) /\ RemoveBuffer(p)
      /\ UNCHANGED <<sent, files, flights, refused, collided, restarts>>
    BY DEF FlushText
<1>2. /\ Head(buffers[p]) = buffers[p][1] /\ Len(buffers[p]) >= 1
      /\ ms \in SUBSET Messages
      /\ TurnFits(ms) /\ ms \cap Attachments = {}
      /\ \A m \in ms : sent[m] = p
    BY <1>1, TextHead
<1>3. EnqueueItem(p, ms)
    BY <1>1, <1>2
<1>4. p \notin collided => Len(buffers[p]) = 1
    <2> DEFINE n == Len(buffers[p])
    <2>1. n \in Nat
        BY DEF TypeOK
    <2>2. p \notin collided => n <= 1
        BY DEF DownloadInv
    <2>3. n >= 1
        BY <1>2
    <2> HIDE DEF n
    <2>4. p \notin collided => n = 1
        BY <2>1, <2>2, <2>3
    <2> QED BY <2>4 DEF n
<1> HIDE DEF ms
<1>5. p \notin collided => Len(buffers[p]) = 1 /\ ms = buffers[p][1].messages
    BY <1>4 DEF ms
<1>6. /\ LanesTyped' /\ LaneInv' /\ Added(p, ms) /\ FilesFollowTurns'
      /\ buffers' \in [Projects -> Seq(Buffer)]
      /\ buffers'[p] = <<>> /\ \A q \in Projects \ {p} : buffers'[q] = buffers[q]
      /\ BuffersFit' /\ TurnsFit' /\ BuffersOwn' /\ TurnsOwn' /\ RefusedOwn' /\ PlaceInv'
    BY <1>1, <1>2, <1>3, <1>5, BufferBecomesTurn
<1>7. TypeOK'
    BY <1>1, <1>6 DEF TypeOK, LanesTyped
<1>8. FlightsFit' /\ FlightsOwn'
    BY <1>1 DEF FlightsFit, FlightsOwn
<1>9. DownloadInv'
    BY <1>1, <1>6 DEF DownloadInv
<1> QED BY <1>2, <1>6, <1>7, <1>8, <1>9 DEF ItemStep

(* Downloaded attachments become a turn. *)
LEMMA DownloadDoneKeeps ==
    ASSUME QueueInv, NEW f \in flights, DownloadDone(f)
    PROVE  QueueInv' /\ ItemStep
<1> USE DEF QueueInv, BufferInv, MessageInv
<1> DEFINE p == f.project
           ms == f.messages
<1>1. /\ flights' = flights \ {f} /\ EnqueueItem(p, ms)
      /\ files' = files \cup {nextId} /\ RemoveBuffer(p)
      /\ UNCHANGED <<sent, timers, refused, collided, restarts>>
    BY DEF DownloadDone
<1>2. p \in Projects /\ ms \in SUBSET Messages
    BY DEF TypeOK, Flight, Messages
<1>3. /\ TurnFits(ms) /\ \A m \in ms : sent[m] = p
      /\ p \notin collided => Len(buffers[p]) = 1 /\ ms = buffers[p][1].messages
    BY <1>2 DEF FlightsFit, TurnFits, FlightsOwn, DownloadInv
<1> HIDE DEF p, ms
<1>4. /\ LanesTyped' /\ LaneInv' /\ Added(p, ms) /\ FilesFollowTurns'
      /\ buffers' \in [Projects -> Seq(Buffer)]
      /\ buffers'[p] = <<>> /\ \A q \in Projects \ {p} : buffers'[q] = buffers[q]
      /\ BuffersFit' /\ TurnsFit' /\ BuffersOwn' /\ TurnsOwn' /\ RefusedOwn' /\ PlaceInv'
    BY <1>1, <1>2, <1>3, BufferBecomesTurn
<1>5. TypeOK'
    <2>1. nextId \in Ids
        BY <1>4 DEF Added
    <2> QED BY <1>1, <1>4, <2>1 DEF TypeOK, LanesTyped
<1>6. FlightsFit' /\ FlightsOwn'
    BY <1>1 DEF FlightsFit, FlightsOwn
<1>7. DownloadInv'
    <2> SUFFICES ASSUME NEW q \in Projects \ collided
                 PROVE  /\ Len(buffers'[q]) <= 1
                        /\ \A g \in flights \ {f} : g.project = q =>
                              /\ q \notin timers
                              /\ Len(buffers'[q]) = 1
                              /\ g.messages = buffers'[q][1].messages
        BY <1>1 DEF DownloadInv
    <2>1. CASE q # p
        BY <1>4, <2>1 DEF DownloadInv
    <2>2. CASE q = p
        <3>1. ASSUME NEW g \in flights, g.project = p
              PROVE  g = f
            <4>1. g.messages = buffers[p][1].messages /\ f.messages = buffers[p][1].messages
                BY <1>2, <2>2, <3>1 DEF DownloadInv, p
            <4>2. g \in Flight /\ f \in Flight /\ f.project = p
                BY DEF TypeOK, p
            <4> QED BY <3>1, <4>1, <4>2 DEF Flight
        <3> QED BY <1>4, <2>2, <3>1
    <2> QED BY <2>1, <2>2
<1> QED BY <1>2, <1>4, <1>5, <1>6, <1>7 DEF ItemStep

(* A download fails: the admin is told and the buffer is gone. *)
LEMMA DownloadFailsKeeps ==
    ASSUME QueueInv, NEW f \in flights, DownloadFails(f)
    PROVE  QueueInv' /\ ItemStep
<1> USE DEF QueueInv, BufferInv, MessageInv
<1> DEFINE p == f.project
<1>1. /\ flights' = flights \ {f} /\ RemoveBuffer(p) /\ refused' = refused \cup f.messages
      /\ UNCHANGED <<sent, item, nextId, files, timers, lane, collided, restarts>>
    BY DEF DownloadFails
<1>2. /\ p \in Projects /\ f.messages \in SUBSET Messages
      /\ \A m \in f.messages : sent[m] = p
      /\ p \notin collided => Len(buffers[p]) = 1 /\ f.messages = buffers[p][1].messages
    BY DEF TypeOK, Flight, Messages, FlightsOwn, DownloadInv
<1>3. /\ buffers' \in [Projects -> Seq(Buffer)]
      /\ buffers'[p] = <<>> /\ \A q \in Projects \ {p} : buffers'[q] = buffers[q]
      /\ BuffersFit' /\ BuffersOwn'
      /\ \A x : sent[x] = p => ~ InBuffer(x, sent[x])'
      /\ \A x : sent[x] \in Projects \ {p} => (InBuffer(x, sent[x])' <=> InBuffer(x, sent[x]))
    BY <1>1, <1>2, BuffersRemoved
<1>4. TypeOK'
    BY <1>1, <1>2, <1>3 DEF TypeOK
<1>5. LaneInv' /\ AllKept
    BY <1>1 DEF LaneInv, Holds, InOrder, Tended, AllKept, Kept
<1>6. FlightsFit' /\ FlightsOwn' /\ RefusedOwn'
    BY <1>1, <1>2 DEF FlightsFit, FlightsOwn, RefusedOwn
<1>7. TurnsFit' /\ TurnsOwn'
    BY <1>1, <1>5, KeptContents
<1>8. FilesFollowTurns'
    BY <1>1 DEF FilesFollowTurns
<1>9. DownloadInv'
    <2> SUFFICES ASSUME NEW q \in Projects \ collided
                 PROVE  /\ Len(buffers'[q]) <= 1
                        /\ \A g \in flights \ {f} : g.project = q =>
                              /\ q \notin timers
                              /\ Len(buffers'[q]) = 1
                              /\ g.messages = buffers'[q][1].messages
        BY <1>1 DEF DownloadInv
    <2>1. CASE q # p
        BY <1>3, <2>1 DEF DownloadInv
    <2>2. CASE q = p
        <3>1. ASSUME NEW g \in flights, g.project = p
              PROVE  g = f
            <4>1. g.messages = buffers[p][1].messages /\ f.messages = buffers[p][1].messages
                BY <1>2, <2>2, <3>1 DEF DownloadInv
            <4>2. g \in Flight /\ f \in Flight
                BY DEF TypeOK
            <4> QED BY <3>1, <4>1, <4>2 DEF Flight
        <3> QED BY <1>3, <2>2, <3>1
    <2> QED BY <2>1, <2>2
<1>10. PlaceInv'
    <2> SUFFICES ASSUME NEW x \in Messages, sent[x] \in Projects \ collided
                 PROVE  /\ InBuffer(x, sent[x])' \/ TurnsOf(x)' # {} \/ x \in refused'
                        /\ restarts = 0 =>
                              /\ \A i, j \in TurnsOf(x)' : i = j
                              /\ InBuffer(x, sent[x])' => TurnsOf(x)' = {} /\ x \notin refused'
                              /\ x \in refused' => TurnsOf(x)' = {}
        BY <1>1 DEF PlaceInv
    <2>1. TurnsOf(x)' = TurnsOf(x)
        BY <1>5, TurnsKept
    <2>2. /\ InBuffer(x, sent[x]) \/ TurnsOf(x) # {} \/ x \in refused
          /\ restarts = 0 =>
                /\ \A i, j \in TurnsOf(x) : i = j
                /\ InBuffer(x, sent[x]) => TurnsOf(x) = {} /\ x \notin refused
                /\ x \in refused => TurnsOf(x) = {}
        BY DEF PlaceInv
    <2>3. CASE sent[x] # p
        <3>1. x \notin f.messages /\ (InBuffer(x, sent[x])' <=> InBuffer(x, sent[x]))
            BY <1>2, <1>3, <2>3
        <3> QED BY <1>1, <2>1, <2>2, <3>1
    <2>4. CASE sent[x] = p
        <3>1. InBuffer(x, p) <=> x \in f.messages
            <4>1. DOMAIN buffers[p] = {1} /\ f.messages = buffers[p][1].messages
                BY <1>2, <2>4 DEF TypeOK
            <4> QED BY <4>1 DEF InBuffer
        <3>2. ~ InBuffer(x, sent[x])'
            BY <1>3, <2>4
        <3>3. InBuffer(x, sent[x]) <=> x \in f.messages
            BY <2>4, <3>1
        <3> QED BY <1>1, <2>1, <2>2, <3>2, <3>3
    <2> QED BY <2>3, <2>4
<1> QED BY <1>3, <1>4, <1>5, <1>6, <1>7, <1>8, <1>9, <1>10 DEF ItemStep

(* A second text: the first becomes a turn, the second its own buffer. *)
LEMMA IncomingSplitKeeps ==
    ASSUME QueueInv, NEW p \in Projects, NEW m \in Messages, IncomingSplit(m, p)
    PROVE  QueueInv' /\ ItemStep
<1> USE DEF QueueInv, BufferInv, MessageInv
<1> DEFINE ms == buffers[p][1].messages
           k == NewBuffer(m)
<1>1. /\ m \in Texts /\ HeadMode(p) = "plain_text" /\ sent[m] = NoProject
      /\ sent' = [sent EXCEPT ![m] = p]
      /\ collided' = IF Unsafe(p, m) THEN collided \cup {p} ELSE collided
      /\ timers' = timers \cup {p}
      /\ EnqueueItem(p, Head(buffers[p]).messages)
      /\ buffers' = [buffers EXCEPT ![p] = <<k>>]
      /\ UNCHANGED <<files, flights, refused, restarts>>
    BY DEF IncomingSplit, SplitsText, Accept
<1>2. /\ Head(buffers[p]) = buffers[p][1] /\ Len(buffers[p]) >= 1
      /\ ms \in SUBSET Messages
      /\ TurnFits(ms) /\ ms \cap Attachments = {}
      /\ \A x \in ms : sent[x] = p
    BY <1>1, TextHead
<1>3. EnqueueItem(p, ms)
    BY <1>1, <1>2
<1>4. k \in Buffer /\ Fits(k) /\ k.messages = {m}
    BY <1>1, MessagesAssumption DEF NewBuffer, Buffer, Fits
<1>5. /\ \A q \in Projects : ~ InBuffer(m, q)
      /\ TurnsOf(m) = {} /\ m \notin refused
      /\ \A f \in flights : m \notin f.messages
    BY <1>1, UnsentIsNowhere
<1>6. p \notin collided => Len(buffers[p]) = 1
    <2> DEFINE n == Len(buffers[p])
    <2>1. n \in Nat
        BY DEF TypeOK
    <2>2. p \notin collided => n <= 1
        BY DEF DownloadInv
    <2>3. n >= 1
        BY <1>2
    <2> HIDE DEF n
    <2>4. p \notin collided => n = 1
        BY <2>1, <2>2, <2>3
    <2> QED BY <2>4 DEF n
<1>7. InBuffer(m, p) \/ m \notin ms
    <2>1. 1 \in DOMAIN buffers[p]
        BY <1>1, HeadFacts
    <2> QED BY <2>1 DEF InBuffer
<1> HIDE DEF ms, k
<1>8. /\ sent' \in [Messages -> Projects \cup {NoProject}]
      /\ sent'[m] = p /\ \A x \in Messages \ {m} : sent'[x] = sent[x]
      /\ buffers' \in [Projects -> Seq(Buffer)]
      /\ buffers'[p] = <<k>> /\ \A q \in Projects \ {p} : buffers'[q] = buffers[q]
    <2>1. <<k>> \in Seq(Buffer)
        BY <1>4
    <2> QED BY <1>1, <2>1 DEF TypeOK
<1>9. /\ LanesTyped' /\ LaneInv' /\ Added(p, ms)
      /\ \A q \in Projects : lane[q] # NoTurn => lane'[q] = lane[q]
    BY <1>2, <1>3, EnqueueEffect
<1>10. TypeOK'
    BY <1>1, <1>8, <1>9 DEF TypeOK, LanesTyped
<1>11. BuffersFit' /\ FlightsFit' /\ BuffersOwn'
    <2>1. DOMAIN <<k>> = {1} /\ <<k>>[1] = k
        OBVIOUS
    <2>2. BuffersFit' /\ FlightsFit'
        BY <1>1, <1>4, <1>8, <2>1 DEF BuffersFit, FlightsFit
    <2>3. ASSUME NEW q \in Projects, NEW n \in DOMAIN buffers'[q], NEW x \in buffers'[q][n].messages
          PROVE  sent'[x] = q
        <3>1. CASE q = p
            BY <1>4, <1>8, <2>1, <2>3, <3>1
        <3>2. CASE q # p
            <4>1. n \in DOMAIN buffers[q] /\ x \in buffers[q][n].messages /\ buffers[q][n] \in Buffer
                BY <1>8, <2>3, <3>2 DEF TypeOK
            <4>2. sent[x] = q /\ x \in Messages
                BY <4>1 DEF BuffersOwn, Buffer, Messages
            <4>3. x # m
                BY <1>1, <4>2, ProjectsAssumption
            <4> QED BY <1>8, <4>2, <4>3
        <3> QED BY <3>1, <3>2
    <2> QED BY <2>2, <2>3 DEF BuffersOwn
<1>12. TurnsFit' /\ TurnsOwn'
    <2>1. \A x \in Messages : sent[x] # NoProject => sent'[x] = sent[x]
        BY <1>1, <1>8
    <2>2. \A x \in ms : sent'[x] = p
        BY <1>2, <1>8
    <2> QED BY <1>2, <1>9, <2>1, <2>2, AddedContents
<1>13. FlightsOwn' /\ RefusedOwn'
    <2>1. \A f \in flights : f.messages \subseteq Messages
        BY DEF TypeOK, Flight, Messages
    <2>2. refused \subseteq Messages
        BY DEF TypeOK
    <2> QED BY <1>1, <1>5, <1>8, <2>1, <2>2 DEF FlightsOwn, RefusedOwn
<1>14. FilesFollowTurns'
    BY <1>1, <1>2, <1>9, FilesAdded DEF LoopsStay
<1>15. DownloadInv'
    <2> SUFFICES ASSUME NEW q \in Projects \ collided'
                 PROVE  /\ Len(buffers'[q]) <= 1
                        /\ \A f \in flights : f.project = q =>
                              /\ q \notin timers'
                              /\ Len(buffers'[q]) = 1
                              /\ f.messages = buffers'[q][1].messages
        BY <1>1 DEF DownloadInv
    <2>1. CASE q # p
        BY <1>1, <1>8, <2>1 DEF DownloadInv
    <2>2. CASE q = p
        <3>1. \A f \in flights : f.project # p
            BY <1>1, <2>2 DEF Unsafe, Downloading
        <3>2. Len(buffers'[p]) = 1
            BY <1>8
        <3> QED BY <2>2, <3>1, <3>2
    <2> QED BY <2>1, <2>2
<1>16. PlaceInv'
    <2>1. \A x : /\ TurnsOf(x)' = IF x \in ms THEN TurnsOf(x) \cup {nextId} ELSE TurnsOf(x)
                 /\ nextId \notin TurnsOf(x)
        BY <1>9, TurnsAdded
    <2>2. \A x : InBuffer(x, sent[x])' <=>
                     \E n \in DOMAIN buffers'[sent'[x]] : x \in buffers'[sent'[x]][n].messages
        BY DEF InBuffer
    <2>3. DOMAIN <<k>> = {1} /\ <<k>>[1] = k
        OBVIOUS
    <2> SUFFICES ASSUME NEW x \in Messages, sent'[x] \in Projects \ collided'
                 PROVE  /\ InBuffer(x, sent[x])' \/ TurnsOf(x)' # {} \/ x \in refused
                        /\ restarts = 0 =>
                              /\ \A i, j \in TurnsOf(x)' : i = j
                              /\ InBuffer(x, sent[x])' => TurnsOf(x)' = {} /\ x \notin refused
                              /\ x \in refused => TurnsOf(x)' = {}
        BY <1>1 DEF PlaceInv
    <2>4. CASE x = m
        <3>1. x \notin ms
            BY <1>5, <1>7, <2>4
        <3>2. InBuffer(x, sent[x])'
            <4>1. sent'[x] = p /\ buffers'[sent'[x]] = <<k>>
                BY <1>8, <2>4
            <4>2. x \in <<k>>[1].messages
                BY <1>4, <2>3, <2>4
            <4> QED BY <2>2, <2>3, <4>1, <4>2
        <3> QED BY <1>5, <2>1, <2>4, <3>1, <3>2
    <2>5. CASE x # m /\ sent[x] # p
        <3>1. sent'[x] = sent[x] /\ sent[x] \in Projects \ collided
            BY <1>1, <1>8, <2>5
        <3>2. x \notin ms
            BY <1>2, <2>5
        <3>3. TurnsOf(x)' = TurnsOf(x) /\ (InBuffer(x, sent[x])' <=> InBuffer(x, sent[x]))
            BY <1>8, <2>1, <2>2, <2>5, <3>1, <3>2 DEF InBuffer
        <3> QED BY <3>1, <3>3 DEF PlaceInv
    <2>6. CASE x # m /\ sent[x] = p
        <3>1. sent'[x] = p /\ p \notin collided
            BY <1>1, <1>8, <2>6
        <3>2. ~ InBuffer(x, sent[x])'
            BY <1>4, <1>8, <2>2, <2>3, <2>6, <3>1
        <3>3. InBuffer(x, sent[x]) <=> x \in ms
            <4>1. DOMAIN buffers[p] = {1} /\ ms = buffers[p][1].messages
                BY <1>6, <3>1 DEF TypeOK, ms
            <4> QED BY <2>6, <4>1 DEF InBuffer
        <3>4. /\ InBuffer(x, sent[x]) \/ TurnsOf(x) # {} \/ x \in refused
              /\ restarts = 0 =>
                    /\ \A i, j \in TurnsOf(x) : i = j
                    /\ InBuffer(x, sent[x]) => TurnsOf(x) = {} /\ x \notin refused
                    /\ x \in refused => TurnsOf(x) = {}
            BY <2>6, <3>1 DEF PlaceInv
        <3>5. CASE x \in ms
            <4>1. TurnsOf(x)' = TurnsOf(x) \cup {nextId}
                BY <2>1, <3>5
            <4> QED BY <3>2, <3>3, <3>4, <3>5, <4>1
        <3>6. CASE x \notin ms
            <4>1. TurnsOf(x)' = TurnsOf(x)
                BY <2>1, <3>6
            <4> QED BY <3>2, <3>3, <3>4, <3>6, <4>1
        <3> QED BY <3>5, <3>6
    <2> QED BY <2>4, <2>5, <2>6
<1> QED BY <1>2, <1>9, <1>10, <1>11, <1>12, <1>13, <1>14, <1>15, <1>16 DEF ItemStep

(* A prompt of the backend is a turn at once. *)
LEMMA SystemPromptKeeps ==
    ASSUME QueueInv, NEW p \in Projects, NEW m \in Messages, SystemPrompt(m, p)
    PROVE  QueueInv' /\ ItemStep
<1> USE DEF QueueInv, BufferInv, MessageInv
<1> DEFINE ms == {m}
<1>1. /\ m \in Systems /\ sent[m] = NoProject
      /\ sent' = [sent EXCEPT ![m] = p]
      /\ EnqueueItem(p, ms)
      /\ UNCHANGED <<buffers, files, timers, flights, refused, collided, restarts>>
    BY DEF SystemPrompt
<1>2. ms \in SUBSET Messages /\ TurnFits(ms) /\ ms \cap Attachments = {}
    BY <1>1, MessagesAssumption DEF TurnFits, TurnOfOne
<1>3. /\ \A q \in Projects : ~ InBuffer(m, q)
      /\ TurnsOf(m) = {} /\ m \notin refused
      /\ \A f \in flights : m \notin f.messages
    BY <1>1, UnsentIsNowhere
<1>4. /\ sent' \in [Messages -> Projects \cup {NoProject}]
      /\ sent'[m] = p /\ \A x \in Messages \ {m} : sent'[x] = sent[x]
    BY <1>1 DEF TypeOK
<1>5. /\ LanesTyped' /\ LaneInv' /\ Added(p, ms)
      /\ \A q \in Projects : lane[q] # NoTurn => lane'[q] = lane[q]
    BY <1>1, <1>2, EnqueueEffect
<1>6. TypeOK'
    BY <1>1, <1>4, <1>5 DEF TypeOK, LanesTyped
<1>7. BuffersFit' /\ FlightsFit' /\ DownloadInv'
    BY <1>1 DEF BuffersFit, FlightsFit, DownloadInv
<1>8. \A q \in Projects : \A n \in DOMAIN buffers[q] :
         \A x \in buffers[q][n].messages : x \in Messages /\ x # m
    <2>1. \A q \in Projects : \A n \in DOMAIN buffers[q] : buffers[q][n] \in Buffer
        BY DEF TypeOK
    <2> QED BY <1>3, <2>1 DEF InBuffer, Buffer, Messages
<1>9. BuffersOwn'
    BY <1>1, <1>4, <1>8 DEF BuffersOwn
<1>10. FlightsOwn' /\ RefusedOwn'
    <2>1. \A f \in flights : f.messages \subseteq Messages
        BY DEF TypeOK, Flight, Messages
    <2>2. refused \subseteq Messages
        BY DEF TypeOK
    <2> QED BY <1>1, <1>3, <1>4, <2>1, <2>2 DEF FlightsOwn, RefusedOwn
<1>11. TurnsFit' /\ TurnsOwn'
    <2>1. \A x \in Messages : sent[x] # NoProject => sent'[x] = sent[x]
        BY <1>1, <1>4
    <2>2. \A x \in ms : sent'[x] = p
        BY <1>4
    <2> QED BY <1>2, <1>5, <2>1, <2>2, AddedContents
<1>12. FilesFollowTurns'
    BY <1>1, <1>2, <1>5, FilesAdded DEF LoopsStay
<1>13. PlaceInv'
    <2>1. \A x : /\ TurnsOf(x)' = IF x \in ms THEN TurnsOf(x) \cup {nextId} ELSE TurnsOf(x)
                 /\ nextId \notin TurnsOf(x)
        BY <1>5, TurnsAdded
    <2>2. \A x : InBuffer(x, sent[x])' <=>
                     \E n \in DOMAIN buffers[sent'[x]] : x \in buffers[sent'[x]][n].messages
        BY <1>1 DEF InBuffer
    <2> SUFFICES ASSUME NEW x \in Messages, sent'[x] \in Projects \ collided
                 PROVE  /\ InBuffer(x, sent[x])' \/ TurnsOf(x)' # {} \/ x \in refused
                        /\ restarts = 0 =>
                              /\ \A i, j \in TurnsOf(x)' : i = j
                              /\ InBuffer(x, sent[x])' => TurnsOf(x)' = {} /\ x \notin refused
                              /\ x \in refused => TurnsOf(x)' = {}
        BY <1>1 DEF PlaceInv
    <2>3. CASE x = m
        <3>1. TurnsOf(x)' = {nextId} /\ ~ InBuffer(x, sent[x])'
            BY <1>3, <1>4, <2>1, <2>2, <2>3 DEF InBuffer
        <3> QED BY <1>3, <2>3, <3>1
    <2>4. CASE x # m
        <3>1. sent'[x] = sent[x] /\ TurnsOf(x)' = TurnsOf(x)
              /\ (InBuffer(x, sent[x])' <=> InBuffer(x, sent[x]))
            BY <1>4, <2>1, <2>2, <2>4 DEF InBuffer
        <3> QED BY <3>1 DEF PlaceInv
    <2> QED BY <2>3, <2>4
<1> QED BY <1>2, <1>5, <1>6, <1>7, <1>9, <1>10, <1>11, <1>12, <1>13 DEF ItemStep

-----------------------------------------------------------------------------
(* The invariant *)

LEMMA QueueInit == Init => QueueInv
<1> SUFFICES ASSUME Init PROVE QueueInv
    OBVIOUS
<1>1. TypeOK
    <2>1. [project |-> NoProject, messages |-> {}, status |-> "unused"] \in Item
        BY DEF Item, Statuses
    <2> QED BY <2>1, BoundsAssumption DEF Init, TypeOK, Ids
<1>2. /\ \A i \in Ids : /\ item[i].status = "unused" /\ item[i].project = NoProject
                        /\ item[i].messages = {} /\ i \in Nat /\ i >= 1
      /\ nextId = 1
      /\ \A p \in Projects : lane[p] = NoTurn
      /\ item \in [Ids -> Item]
    <2>1. \A i \in Ids : i \in Nat /\ i >= 1
        BY BoundsAssumption DEF Ids
    <2>2. \A i \in Ids : item[i] = [project |-> NoProject, messages |-> {}, status |-> "unused"]
        BY DEF Init
    <2> QED BY <1>1, <2>1, <2>2 DEF Init, TypeOK
<1>3. LaneInv
    <2>1. \A i \in Ids : ~ (i < nextId)
        BY <1>2
    <2>2. Holds(item, nextId)
        BY <1>2, <2>1 DEF Holds
    <2>3. InOrder(item)
        BY <1>2 DEF InOrder, Ended
    <2>4. Tended(item, Projects)
        BY <1>2, ProjectsAssumption DEF Tended
    <2> QED BY <2>2, <2>3, <2>4 DEF LaneInv
<1>4. BufferInv /\ MessageInv /\ DownloadInv
    BY BoundsAssumption DEF Init, BufferInv, BuffersFit, FlightsFit, TurnsFit, Ids,
       MessageInv, BuffersOwn, FlightsOwn, TurnsOwn, RefusedOwn, DownloadInv
<1>5. FilesFollowTurns /\ PlaceInv
    BY ProjectsAssumption DEF Init, FilesFollowTurns, PlaceInv, Outstanding
<1> QED BY <1>1, <1>3, <1>4, <1>5 DEF QueueInv

LEMMA QueueStep == QueueInv /\ [Next]_vars => QueueInv' /\ ItemStep
<1> SUFFICES ASSUME QueueInv, [Next]_vars PROVE QueueInv' /\ ItemStep
    OBVIOUS
<1>1. ASSUME NEW p \in Projects, NEW m \in Messages,
             Incoming(m, p) \/ IncomingSplit(m, p) \/ SystemPrompt(m, p)
      PROVE  QueueInv' /\ ItemStep
    BY <1>1, IncomingKeeps, IncomingSplitKeeps, SystemPromptKeeps
<1>2. ASSUME NEW p \in Projects, Flush(p)
      PROVE  QueueInv' /\ ItemStep
    BY <1>2, FlushNothingKeeps, FlushTextKeeps, FlushAttachmentsKeeps DEF Flush
<1>3. ASSUME NEW p \in Projects, DownloadEnds(p)
      PROVE  QueueInv' /\ ItemStep
    BY <1>3, DownloadDoneKeeps, DownloadFailsKeeps DEF DownloadEnds
<1>4. ASSUME NEW p \in Projects, DispatchEnds(p) \/ Cleaned(p)
      PROVE  QueueInv' /\ ItemStep
    BY <1>4, DispatchKeeps, CleanedKeeps
<1>5. ASSUME NEW p \in Projects, RestartAfterText(p)
      PROVE  QueueInv' /\ ItemStep
    <2> DEFINE ms == buffers[p][1].messages
    <2>1. /\ HeadMode(p) = "plain_text" /\ nextId <= MaxItems /\ nextId' = nextId + 1
          /\ ModuleInit(AppendItem(p, Head(buffers[p]).messages)) /\ files' = files
        BY <1>5 DEF RestartAfterText
    <2>2. /\ Head(buffers[p]) = buffers[p][1] /\ ms \in SUBSET Messages
          /\ TurnFits(ms) /\ ms \cap Attachments = {}
          /\ \A x \in ms : sent[x] = p
        BY <2>1, TextHead DEF QueueInv, BufferInv, MessageInv
    <2>3. ModuleInit(AppendItem(p, ms))
        BY <2>1, <2>2
    <2> HIDE DEF ms
    <2> QED BY <2>1, <2>2, <2>3, LateRestartKeeps
<1>6. ASSUME NEW f \in flights, RestartAfterDownload(f)
      PROVE  QueueInv' /\ ItemStep
    <2>1. /\ nextId <= MaxItems /\ nextId' = nextId + 1
          /\ ModuleInit(AppendItem(f.project, f.messages)) /\ files' = files \cup {nextId}
        BY <1>6 DEF RestartAfterDownload
    <2>2. /\ f.project \in Projects /\ f.messages \in SUBSET Messages
          /\ TurnFits(f.messages) /\ \A x \in f.messages : sent[x] = f.project
        BY DEF QueueInv, TypeOK, Flight, Messages, BufferInv, FlightsFit, TurnFits,
           MessageInv, FlightsOwn
    <2> QED BY <2>1, <2>2, LateRestartKeeps
<1>7. ASSUME Restart
      PROVE  QueueInv' /\ ItemStep
    BY <1>7, RestartKeeps
<1>8. ASSUME UNCHANGED vars
      PROVE  QueueInv' /\ ItemStep
    <2>1. UNCHANGED <<sent, buffers, item, nextId, files, timers, flights, lane, refused,
                      collided, restarts>>
        BY <1>8 DEF vars, file, memory
    <2>2. TypeOK' /\ LaneInv' /\ FilesFollowTurns' /\ FlightsFit' /\ FlightsOwn' /\ DownloadInv'
        BY <2>1 DEF QueueInv, TypeOK, LaneInv, Holds, InOrder, Tended, FilesFollowTurns,
           BufferInv, MessageInv, FlightsFit, FlightsOwn, DownloadInv
    <2>3. AllKept
        BY <2>1 DEF AllKept, Kept
    <2>4. BuffersFit' /\ TurnsFit' /\ BuffersOwn' /\ TurnsOwn' /\ RefusedOwn' /\ PlaceInv'
        BY <2>1, <2>3, NothingMoves
    <2> QED BY <2>2, <2>3, <2>4 DEF QueueInv, BufferInv, MessageInv, ItemStep
<1> QED BY <1>1, <1>2, <1>3, <1>4, <1>5, <1>6, <1>7, <1>8 DEF Next

LEMMA QueueInvariance == Spec => []QueueInv
BY QueueInit, QueueStep, PTL DEF Spec

-----------------------------------------------------------------------------
(* What the queue guarantees *)

(* The file and the memory of the queue stay well formed, and with them    *)
(* everything the dispatch loops and the file know of each other: an item  *)
(* runs exactly while the loop of its project works on it, nothing waits   *)
(* without a loop, and turns of one project start in order.                *)
THEOREM QueueTypeCorrect == Spec => [](TypeOK /\ LaneInv)
BY QueueInvariance, PTL DEF QueueInv

(* A turn that may still be dispatched finds its attachments on disk, and  *)
(* no file outlives the cleanup of its turn (telegram-prompt-queue         *)
(* .service.ts, runQueue's finally), whatever the queue is fed.            *)
THEOREM TurnsHaveTheirFiles == Spec => []FilesFollowTurns
BY QueueInvariance, PTL DEF QueueInv

(* Plain texts are never merged into one turn (service.ts:73).             *)
THEOREM OneTextPerTurn == Spec => []TextsStayApart
<1>1. QueueInv => TextsStayApart
    <2> SUFFICES ASSUME QueueInv, NEW i \in Ids, item[i].messages \cap Attachments = {}
                 PROVE  Cardinality(item[i].messages) <= 1
        BY DEF TextsStayApart
    <2>1. CASE i < nextId
        <3>1. PICK m \in Texts \cup Systems : item[i].messages = {m}
            BY <2>1 DEF QueueInv, BufferInv, TurnsFit, TurnFits, TurnOfOne
        <3>2. Cardinality({m}) = 1
            BY FS_Singleton
        <3> QED BY <3>1, <3>2
    <2>2. CASE ~ (i < nextId)
        <3>1. item[i].messages = {}
            BY <2>2 DEF QueueInv, LaneInv, Holds
        <3> QED BY <3>1, FS_EmptySet
    <2> QED BY <2>1, <2>2
<1> QED BY <1>1, QueueInvariance, PTL

(* "Exactly once", outside the two unsafe moments: an accepted message is  *)
(* in its buffer, in one turn or reported as refused, and never nowhere;   *)
(* a restart may repeat it and never loses it (service.ts:213).            *)
THEOREM NoMessageIsLost == Spec => []NothingLost
<1>1. QueueInv => NothingLost
    <2> SUFFICES ASSUME QueueInv, NEW m \in Messages, sent[m] \in Projects \ collided
                 PROVE  /\ InBuffer(m, sent[m]) \/ TurnsOf(m) # {} \/ m \in refused
                        /\ restarts = 0 =>
                              Cardinality(TurnsOf(m))
                                + (IF InBuffer(m, sent[m]) THEN 1 ELSE 0)
                                + (IF m \in refused THEN 1 ELSE 0) = 1
        BY DEF NothingLost
    <2>1. /\ InBuffer(m, sent[m]) \/ TurnsOf(m) # {} \/ m \in refused
          /\ restarts = 0 =>
                /\ \A i, j \in TurnsOf(m) : i = j
                /\ InBuffer(m, sent[m]) => TurnsOf(m) = {} /\ m \notin refused
                /\ m \in refused => TurnsOf(m) = {}
        BY DEF QueueInv, PlaceInv
    <2>2. ASSUME restarts = 0
          PROVE  Cardinality(TurnsOf(m))
                   + (IF InBuffer(m, sent[m]) THEN 1 ELSE 0)
                   + (IF m \in refused THEN 1 ELSE 0) = 1
        <3>1. CASE TurnsOf(m) = {}
            <4>1. Cardinality(TurnsOf(m)) = 0
                BY <3>1, FS_EmptySet
            <4> QED BY <2>1, <2>2, <3>1, <4>1
        <3>2. CASE TurnsOf(m) # {}
            <4>1. PICK i \in TurnsOf(m) : TRUE
                BY <3>2
            <4>2. TurnsOf(m) = {i}
                BY <2>1, <2>2, <4>1
            <4>3. Cardinality(TurnsOf(m)) = 1
                BY <4>2, FS_Singleton
            <4> QED BY <2>1, <2>2, <3>2, <4>3
        <3> QED BY <3>1, <3>2
    <2> QED BY <2>1, <2>2
<1> QED BY <1>1, QueueInvariance, PTL

-----------------------------------------------------------------------------
(* The queue implements SerialTurns *)

StageOf(s) == IF s \in {"completed", "failed", "pruned"} THEN "ended" ELSE s

owners == [i \in Ids |-> item[i].project]
stages == [i \in Ids |-> StageOf(item[i].status)]

LEMMA LanesInit == Init => Lanes!Init
<1> SUFFICES ASSUME Init PROVE Lanes!Init
    OBVIOUS
<1>1. \A i \in Ids : item[i].project = NoProject /\ item[i].status = "unused"
    BY DEF Init
<1> QED BY <1>1 DEF Lanes!Init

(* A step of the queue is a step of the lanes. *)
LEMMA LanesStep ==
    ASSUME QueueInv, QueueInv', ItemStep
    PROVE  Lanes!Step
<1> DEFINE w == owners  g == stages  nw == owners'  ng == stages'
<1>1. /\ item \in [Ids -> Item] /\ item' \in [Ids -> Item]
      /\ Holds(item, nextId) /\ InOrder(item')
    BY DEF QueueInv, LaneInv, TypeOK
<1>2. \A i \in Ids : /\ item[i].status \in Statuses /\ item'[i].status \in Statuses
                     /\ item[i].project \in Projects \cup {NoProject}
                     /\ item'[i].project \in Projects \cup {NoProject}
    BY <1>1 DEF Item
<1>3. \A i \in Ids : /\ w[i] = item[i].project /\ nw[i] = item'[i].project
                     /\ g[i] = StageOf(item[i].status) /\ ng[i] = StageOf(item'[i].status)
    BY DEF owners, stages
<1>4. /\ nw \in [Ids -> Projects \cup {NoProject}]
      /\ ng \in [Ids -> {"unused", "pending", "running", "ended"}]
    BY <1>2 DEF owners, stages, StageOf, Statuses
<1>5. \A i \in Ids : \/ Kept(i)
                     \/ i = nextId /\ item'[i].project \in Projects /\ item'[i].status \in Outstanding
    BY DEF ItemStep, AllKept, Added
<1>6. ASSUME NEW i \in Ids, ng[i] # g[i]
      PROVE  <<g[i], ng[i]>> \in {<<"unused", "pending">>, <<"unused", "running">>,
                                 <<"pending", "running">>, <<"running", "ended">>,
                                 <<"running", "pending">>}
    <2>1. CASE Kept(i)
        BY <1>3, <1>6, <2>1 DEF Kept, StatusMoves, StageOf
    <2>2. CASE i = nextId /\ item'[i].status \in Outstanding
        <3>1. item[i].status = "unused"
            BY <1>1, <2>2 DEF Holds, Ids
        <3> QED BY <1>3, <2>2, <3>1 DEF StageOf, Outstanding
    <2> QED BY <1>5, <2>1, <2>2
<1>7. ASSUME NEW i \in Ids
      PROVE  /\ nw[i] # w[i] => w[i] = NoProject /\ g[i] = "unused"
             /\ g[i] = "unused" /\ ng[i] # "unused" =>
                   /\ nw[i] \in Projects
                   /\ \A j \in Ids : j > i => g[j] = "unused"
    <2>1. CASE Kept(i)
        BY <1>2, <1>3, <2>1 DEF Kept, StatusMoves, StageOf, Statuses
    <2>2. CASE i = nextId /\ item'[i].project \in Projects
        BY <1>1, <1>3, <2>2 DEF Holds, Ids, StageOf
    <2> QED BY <1>5, <2>1, <2>2
<1>8. ASSUME NEW p \in Projects, NEW i \in Ids, NEW j \in Ids, nw[i] = p, nw[j] = p,
             i < j, ng[j] \in {"running", "ended"}
      PROVE  ng[i] = "ended"
    <2>1. item'[j].status \in {"running"} \cup Ended /\ item'[i].project = item'[j].project
        BY <1>2, <1>3, <1>8 DEF StageOf, Statuses, Ended
    <2>2. item'[i].status \in Ended
        BY <1>1, <1>8, <2>1 DEF InOrder
    <2> QED BY <1>3, <2>2 DEF StageOf, Ended
<1> QED
    BY <1>4, <1>6, <1>7, <1>8
    DEF Lanes!Step, Lanes!Submitted, Lanes!Serial, Lanes!Of, Lanes!Moves, Lanes!Stages,
        owners, stages, StageOf

(* The queue is a serial lane per project, for every number of projects,   *)
(* messages and restarts.                                                  *)
THEOREM QueueKeepsLanes == Spec => KeepsLanes
<1>1. QueueInv /\ [Next]_vars => [Lanes!Step]_<<owners, stages>>
    BY QueueStep, LanesStep
<1> QED BY LanesInit, QueueInvariance, <1>1, PTL DEF Spec, KeepsLanes, Lanes!Spec, owners, stages, StageOf

=============================================================================
