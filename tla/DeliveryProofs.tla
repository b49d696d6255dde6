--------------------------- MODULE DeliveryProofs ---------------------------
(***************************************************************************)
(* Proofs about what becomes of a final reply, for every value of the      *)
(* constants: its items in the Telegram outbox, whatever workers, leases,  *)
(* reports and restarts do to them, and the session that goes on when      *)
(* Telegram has it.  MirrorInv says that an entry, wherever it is held (in *)
(* the file, in what startup has read, in a continuation under way), is    *)
(* about a reply of its own session and waits for every part that Telegram *)
(* does not have; CallInv that no reply is continued twice at a time;      *)
(* StopInv that a stop is in the file before anything can pass it.         *)
(***************************************************************************)
EXTENDS TelegramOutbox, KanbanSession, KanbanBoardProofs, SequenceTheorems,
        FiniteSetTheorems, TLAPS

-----------------------------------------------------------------------------
(* Session continuation *)

Prompt == [reply : Replies \cup {0}, session : Sessions \cup {None}]
Row    == [session : Sessions, waiting : SUBSET Parts]
File   == [entries : SUBSET Entry, suppressed : SUBSET Sessions]

(* The state the services keep *)
KeptInv ==
    /\ barrier \in File
    /\ outbox \in Seq(Row) /\ DOMAIN outbox \subseteq Replies
    /\ lane \in Seq(Prompt)
    /\ pump \in [selected : Sessions \cup {None}, turn : Sessions \cup {None}, restarts : Nat]
    /\ pump.turn # None => lane # <<>>
    /\ flight \in [captures : SUBSET Replies, calls : SUBSET Call, todo : SUBSET Entry,
                   awaited : SUBSET Replies]
    /\ flight.captures \subseteq DOMAIN outbox
    /\ session \in [continued : [Replies -> Nat], finished : SUBSET Sessions,
                    stopped : SUBSET Sessions]

(* An entry is about a reply of its session and misses none of its parts.  *)
Mirrors(e, o) == /\ e.reply \in DOMAIN o /\ o[e.reply].session = e.session
                 /\ o[e.reply].waiting \subseteq e.pending

OnePerSession(entries) == \A e, f \in entries : e.session = f.session => e = f

MirrorInv ==
    /\ \A e \in barrier.entries \cup flight.todo : Mirrors(e, outbox)
    /\ \A c \in flight.calls : Mirrors(c.entry, outbox) /\ c.entry.pending = {}
    /\ OnePerSession(barrier.entries) /\ OnePerSession(flight.todo)

(* A reply has one continuation under way, and startup starts no second.   *)
CallInv ==
    /\ \A c, d \in flight.calls : c.entry.reply = d.entry.reply => c = d
    /\ \A c \in flight.calls : \A e \in flight.todo :
           e.pending = {} => e.reply # c.entry.reply

StopInv == /\ session.stopped \subseteq barrier.suppressed
           /\ \A c \in flight.calls : c.entry.session \in session.stopped => c.late

SessionGood == BoardInv /\ KeptInv /\ MirrorInv /\ CallInv /\ StopInv

-----------------------------------------------------------------------------
(* The outbox moves on *)

(* Replies keep their sessions, and parts only get delivered. *)
Older(o, q) == /\ DOMAIN o \subseteq DOMAIN q
               /\ \A r \in DOMAIN o : /\ q[r].session = o[r].session
                                      /\ q[r].waiting \subseteq o[r].waiting

LEMMA MirrorsLast ==
    ASSUME NEW o, NEW q, Older(o, q), NEW e, Mirrors(e, o)
    PROVE  Mirrors(e, q)
BY DEF Mirrors, Older

LEMMA MirrorInvLasts ==
    ASSUME MirrorInv, Older(outbox, outbox'), flight'.calls \subseteq flight.calls,
           flight'.todo \subseteq flight.todo, barrier'.entries \subseteq barrier.entries
    PROVE  MirrorInv'
<1>1. OnePerSession(barrier'.entries) /\ OnePerSession(flight'.todo)
    BY DEF MirrorInv, OnePerSession
<1> QED BY <1>1, MirrorsLast DEF MirrorInv

LEMMA OutboxSame == Older(outbox, outbox)
BY DEF Older

(* One element of a sequence is overwritten. *)
LEMMA ElementWritten ==
    ASSUME NEW S, NEW o \in Seq(S), NEW i \in DOMAIN o, NEW x \in S, NEW q,
           q = [o EXCEPT ![i] = x]
    PROVE  /\ q \in Seq(S) /\ DOMAIN q = DOMAIN o /\ q[i] = x
           /\ \A j \in DOMAIN o : j # i => q[j] = o[j]
<1>1. i \in 1 .. Len(o)
    OBVIOUS
<1>2. [o EXCEPT ![i] = x] \in Seq(S) /\ Len([o EXCEPT ![i] = x]) = Len(o)
    BY <1>1, ExceptSeq
<1>3. q \in Seq(S) /\ Len(q) = Len(o)
    BY <1>2
<1>4. DOMAIN q = DOMAIN o
    BY <1>3
<1> QED BY <1>3, <1>4

LEMMA BoardSame ==
    ASSUME BoardInv, UNCHANGED board
    PROVE  BoardInv'
BY DEF BoardInv, board

-----------------------------------------------------------------------------
(* The store's operations *)

LEMMA DroppedFacts ==
    ASSUME NEW b \in File, NEW s
    PROVE  /\ Dropped(b, s) \in File /\ Dropped(b, s).suppressed = b.suppressed
           /\ Dropped(b, s).entries \subseteq b.entries
BY DEF Dropped, File

LEMMA SavedFacts ==
    ASSUME NEW b \in File, NEW e \in Entry
    PROVE  /\ Saved(b, e) \in File /\ Saved(b, e).suppressed = b.suppressed
           /\ Saved(b, e).entries \subseteq b.entries \cup {e}
           /\ OnePerSession(b.entries) => OnePerSession(Saved(b, e).entries)
<1>1. /\ Saved(b, e) \in File /\ Saved(b, e).suppressed = b.suppressed
      /\ Saved(b, e).entries = {f \in b.entries : f.session # e.session} \cup {e}
    BY DEF Saved, File
<1> QED BY <1>1 DEF OnePerSession

(* A delivered part leaves the entries of its reply; those that wait for   *)
(* no other are released.                                                  *)
Less(f, p) == [f EXCEPT !.pending = @ \ {p}]

LEMMA MarkedFacts ==
    ASSUME NEW b \in File, NEW r, NEW p
    PROVE  /\ \A e \in Marked(b, r, p).entries :
                 /\ e \in Entry
                 /\ \/ e \in b.entries /\ e.reply # r
                    \/ \E f \in b.entries : f.reply = r /\ e = Less(f, p)
           /\ \A e \in Marked(b, r, p).released :
                 /\ e \in Entry /\ e.pending = {}
                 /\ \E f \in b.entries : f.reply = r /\ e = Less(f, p)
<1>1. /\ \A e \in Marked(b, r, p).entries :
             \/ e \in b.entries /\ e.reply # r
             \/ \E f \in b.entries : f.reply = r /\ e = Less(f, p)
      /\ \A e \in Marked(b, r, p).released :
             e.pending = {} /\ \E f \in b.entries : f.reply = r /\ e = Less(f, p)
    BY DEF Marked, Less
<1>2. \A f \in b.entries : f \in Entry /\ Less(f, p) \in Entry
    BY DEF File, Entry, Less
<1> QED BY <1>1, <1>2

(* The walk of startup writes back what it read, or starts one             *)
(* continuation of a complete entry.                                       *)
LEMMA WalkFacts ==
    ASSUME NEW b \in File, NEW es \in SUBSET Entry, OnePerSession(b.entries), OnePerSession(es),
           NEW w \in Walk(b, es)
    PROVE  /\ w.barrier \in File /\ w.barrier.suppressed = b.suppressed
           /\ w.barrier.entries \subseteq b.entries \cup es /\ OnePerSession(w.barrier.entries)
           /\ w.todo \subseteq es
           /\ \A c \in w.calls : /\ c.entry \in es \ w.todo /\ c.entry.pending = {}
                                 /\ c.entry.session \notin b.suppressed
                                 /\ c = [entry |-> c.entry, at |-> "list", late |-> FALSE]
           /\ \A c, d \in w.calls : c = d
<1> DEFINE open == {e \in es : e.pending # {}}
           done == es \ open
       firsts == IF done = {} THEN {{}} ELSE {{e} : e \in done}
       befores == IF done = {} THEN {open} ELSE SUBSET open
       Gone(first, before) ==
           [todo |-> es \ (first \cup before),
            calls |-> Calls({e \in first : e.session \notin b.suppressed}),
            barrier |-> [b EXCEPT !.entries =
                {f \in @ : \A e \in first \cup before : f.session # e.session} \cup before]]
<1>0. Walk(b, es) = {Gone(first, before) : first \in firsts, before \in befores}
    BY DEF Walk
<1>1. PICK first \in firsts, before \in befores : w = Gone(first, before)
    <2> HIDE DEF Gone, firsts, befores
    <2> QED BY <1>0
<1>2. first \subseteq done /\ before \subseteq open /\ \A e, f \in first : e = f
    BY <1>1
<1> DEFINE kept == {f \in b.entries : \A e \in first \cup before : f.session # e.session} \cup before
<1>3. /\ w.barrier \in File /\ w.barrier.suppressed = b.suppressed /\ w.barrier.entries = kept
    BY <1>1, <1>2 DEF File
<1>4. kept \subseteq b.entries \cup es /\ OnePerSession(kept)
    BY <1>2 DEF OnePerSession
<1>5. w.todo \subseteq es /\ w.todo \cap first = {}
    BY <1>1
<1>6. \A c \in w.calls : \E e \in first :
          e.session \notin b.suppressed /\ c = [entry |-> e, at |-> "list", late |-> FALSE]
    BY <1>1 DEF Calls
<1>7. \A c \in w.calls : /\ c.entry \in first /\ c.entry.session \notin b.suppressed
                         /\ c = [entry |-> c.entry, at |-> "list", late |-> FALSE]
    BY <1>6
<1>8. \A c, d \in w.calls : c = d
    BY <1>2, <1>7
<1>9. \A c \in w.calls : c.entry \in es \ w.todo /\ c.entry.pending = {}
    BY <1>2, <1>5, <1>7
<1> HIDE DEF kept
<1> QED BY <1>3, <1>4, <1>5, <1>7, <1>8, <1>9

-----------------------------------------------------------------------------
(* One lemma per step *)

LEMMA FreshIsSession == Fresh \subseteq Sessions
BY DEF Fresh

LEMMA TurnStartsKeeps ==
    ASSUME SessionGood, TurnStarts
    PROVE  SessionGood'
<1>1. PICK s \in IF pump.selected = None THEN Fresh ELSE {pump.selected} :
          /\ pump' = [pump EXCEPT !.selected = s, !.turn = s]
          /\ barrier' = [barrier EXCEPT !.suppressed = @ \ {s}]
          /\ session' = [session EXCEPT !.finished = @ \ {s}, !.stopped = @ \ {s}]
    BY DEF TurnStarts
<1>2. lane # <<>> /\ UNCHANGED <<board, outbox, lane, flight>> /\ KeptInv
    BY DEF TurnStarts, SessionGood
<1>3. s \in Sessions
    BY <1>2, FreshIsSession DEF KeptInv
<1>4. /\ barrier' \in File /\ barrier'.entries = barrier.entries
      /\ barrier'.suppressed = barrier.suppressed \ {s}
    BY <1>1, <1>2 DEF KeptInv, File
<1>5. /\ session' \in [continued : [Replies -> Nat], finished : SUBSET Sessions,
                       stopped : SUBSET Sessions]
      /\ session'.stopped = session.stopped \ {s}
    BY <1>1, <1>2 DEF KeptInv
<1>6. pump' \in [selected : Sessions \cup {None}, turn : Sessions \cup {None}, restarts : Nat]
    BY <1>1, <1>2, <1>3 DEF KeptInv
<1>7. KeptInv'
    BY <1>2, <1>4, <1>5, <1>6 DEF KeptInv
<1>8. MirrorInv' /\ CallInv'
    BY <1>2, <1>4, OutboxSame, MirrorInvLasts DEF SessionGood, CallInv
<1>9. StopInv'
    BY <1>2, <1>4, <1>5 DEF SessionGood, StopInv
<1> QED BY <1>2, <1>7, <1>8, <1>9, BoardSame DEF SessionGood

(* The reply joins the outbox with every part still to deliver. *)
LEMMA TurnRepliesKeeps ==
    ASSUME SessionGood, TurnReplies
    PROVE  SessionGood'
<1> DEFINE s == pump.turn
           r == Len(outbox) + 1
           row == [session |-> s, waiting |-> Parts]
<1>1. /\ s # None /\ r \in Replies /\ outbox' = Append(outbox, row)
      /\ lane' = Tail(lane) /\ pump' = [pump EXCEPT !.turn = None]
      /\ \/ barrier' = Dropped(barrier, s) /\ flight' = flight
         \/ flight' = [flight EXCEPT !.captures = @ \cup {r}] /\ barrier' = barrier
      /\ UNCHANGED <<board, session>>
    BY DEF TurnReplies
<1>2. KeptInv /\ row \in Row /\ lane # <<>>
    BY <1>1 DEF SessionGood, KeptInv, Row
<1>3. /\ outbox' \in Seq(Row) /\ DOMAIN outbox' = DOMAIN outbox \cup {r}
      /\ \A q \in DOMAIN outbox : outbox'[q] = outbox[q]
    <2> HIDE DEF row
    <2> QED BY <1>1, <1>2 DEF KeptInv
<1>4. Older(outbox, outbox')
    BY <1>3 DEF Older
<1>5. /\ lane' \in Seq(Prompt) /\ pump'.turn = None
      /\ pump' \in [selected : Sessions \cup {None}, turn : Sessions \cup {None}, restarts : Nat]
    <2>1. lane' \in Seq(Prompt)
        BY <1>1, <1>2, HeadTailProperties DEF KeptInv
    <2>2. pump' = [pump EXCEPT !.turn = None]
        BY <1>1
    <2> QED BY <1>2, <2>1, <2>2 DEF KeptInv
<1>6. /\ barrier' \in File /\ barrier'.suppressed = barrier.suppressed
      /\ barrier'.entries \subseteq barrier.entries
    BY <1>1, <1>2, DroppedFacts DEF KeptInv
<1>7. /\ flight' \in [captures : SUBSET Replies, calls : SUBSET Call, todo : SUBSET Entry,
                      awaited : SUBSET Replies]
      /\ flight'.captures \subseteq flight.captures \cup {r}
      /\ flight'.calls = flight.calls /\ flight'.todo = flight.todo
    <2> HIDE DEF r
    <2>1. CASE flight' = flight
        BY <1>2, <2>1 DEF KeptInv
    <2>2. CASE flight' = [flight EXCEPT !.captures = @ \cup {r}]
        <3>1. r \in Replies
            BY <1>1
        <3> QED BY <1>2, <2>2, <3>1 DEF KeptInv
    <2> QED BY <1>1, <2>1, <2>2
<1>8. KeptInv'
    <2>1. DOMAIN outbox' \subseteq Replies /\ flight'.captures \subseteq DOMAIN outbox'
        <3> HIDE DEF r
        <3> QED BY <1>1, <1>2, <1>3, <1>7 DEF KeptInv
    <2> QED BY <1>1, <1>2, <1>3, <1>5, <1>6, <1>7, <2>1 DEF KeptInv
<1>9. MirrorInv'
    BY <1>4, <1>6, <1>7, MirrorInvLasts DEF SessionGood
<1>10. CallInv' /\ StopInv'
    BY <1>1, <1>6, <1>7 DEF SessionGood, CallInv, StopInv
<1> QED BY <1>1, <1>8, <1>9, <1>10, BoardSame DEF SessionGood

(* Steps that change the lane and the pump only *)
LEMMA PumpingKeeps ==
    ASSUME SessionGood, UNCHANGED <<board, barrier, outbox, flight, session>>,
           lane' \in Seq(Prompt),
           pump' \in [selected : Sessions \cup {None}, turn : Sessions \cup {None}, restarts : Nat],
           pump'.turn # None => lane' # <<>>
    PROVE  SessionGood'
<1>1. KeptInv'
    BY DEF SessionGood, KeptInv
<1>2. MirrorInv'
    BY OutboxSame, MirrorInvLasts DEF SessionGood
<1>3. CallInv' /\ StopInv'
    BY DEF SessionGood, CallInv, StopInv
<1> QED BY <1>1, <1>2, <1>3, BoardSame DEF SessionGood

LEMMA PeoplePromptKeeps ==
    ASSUME SessionGood,
           TurnFails \/ UserPrompt \/ NewSession \/ \E s \in Sessions : SelectSession(s)
    PROVE  SessionGood'
<1>1. /\ lane \in Seq(Prompt)
      /\ pump.turn # None => lane # <<>>
      /\ pump \in [selected : Sessions \cup {None}, turn : Sessions \cup {None}, restarts : Nat]
    BY DEF SessionGood, KeptInv
<1>2. CASE TurnFails
    <2>1. lane # <<>> /\ lane' = Tail(lane) /\ pump' = [pump EXCEPT !.turn = None]
        BY <1>1, <1>2 DEF TurnFails
    <2>2. lane' \in Seq(Prompt) /\ pump'.turn = None
        BY <1>1, <2>1, HeadTailProperties
    <2> QED BY <1>1, <1>2, <2>1, <2>2, PumpingKeeps DEF TurnFails
<1>3. CASE UserPrompt
    <2> DEFINE p == [reply |-> 0, session |-> None]
    <2>1. p \in Prompt /\ lane' = Append(lane, p) /\ pump' = pump
        BY <1>3 DEF UserPrompt, Prompt
    <2>2. lane' \in Seq(Prompt) /\ lane' # <<>>
        <3> HIDE DEF p
        <3> QED BY <1>1, <2>1, AppendProperties
    <2> QED BY <1>1, <1>3, <2>1, <2>2, PumpingKeeps DEF UserPrompt
<1>4. ASSUME NEW s \in Sessions, pump' = [pump EXCEPT !.selected = s],
             UNCHANGED <<board, barrier, outbox, lane, flight, session>>
      PROVE  SessionGood'
    <2>1. /\ pump' \in [selected : Sessions \cup {None}, turn : Sessions \cup {None},
                        restarts : Nat]
          /\ pump'.turn = pump.turn
        BY <1>1, <1>4
    <2> QED BY <1>1, <1>4, <2>1, PumpingKeeps
<1>5. CASE NewSession
    BY <1>4, <1>5, FreshIsSession DEF NewSession
<1>6. CASE \E s \in Sessions : SelectSession(s)
    BY <1>4, <1>6 DEF SelectSession
<1> QED BY <1>2, <1>3, <1>5, <1>6

(* A stop reaches the file and every continuation under way at once. *)
LEMMA StopSessionKeeps ==
    ASSUME SessionGood, StopSession
    PROVE  SessionGood'
<1> DEFINE s == pump.selected
           Touched(c) == IF c.entry.session = s THEN [c EXCEPT !.late = TRUE] ELSE c
<1>1. /\ s # None /\ barrier' = Suppressed(barrier, s)
      /\ flight' = [flight EXCEPT !.calls = {Touched(c) : c \in @}]
      /\ session' = [session EXCEPT !.stopped = @ \cup {s}]
      /\ UNCHANGED <<board, outbox, lane, pump>>
    BY DEF StopSession
<1>2. KeptInv /\ s \in Sessions
    BY <1>1 DEF SessionGood, KeptInv
<1>3. /\ barrier' \in File /\ barrier'.entries \subseteq barrier.entries
      /\ barrier'.suppressed = barrier.suppressed \cup {s}
    BY <1>1, <1>2 DEF KeptInv, File, Suppressed, Dropped
<1>4. \A c \in flight.calls :
          /\ Touched(c) \in Call /\ Touched(c).entry = c.entry
          /\ Touched(c).late = (c.late \/ c.entry.session = s)
    BY <1>2, ZenonT(60) DEF KeptInv, Call
<1>5. /\ flight' \in [captures : SUBSET Replies, calls : SUBSET Call, todo : SUBSET Entry,
                      awaited : SUBSET Replies]
      /\ flight'.captures = flight.captures /\ flight'.todo = flight.todo
      /\ flight'.calls = {Touched(c) : c \in flight.calls}
    <2> DEFINE q == {Touched(c) : c \in flight.calls}
    <2>1. q \subseteq Call
        BY <1>4
    <2>2. flight' = [flight EXCEPT !.calls = q]
        BY <1>1, <1>2 DEF KeptInv
    <2> HIDE DEF q
    <2>3. /\ flight' \in [captures : SUBSET Replies, calls : SUBSET Call, todo : SUBSET Entry,
                          awaited : SUBSET Replies]
          /\ flight'.captures = flight.captures /\ flight'.todo = flight.todo
          /\ flight'.calls = q
        BY <1>2, <2>1, <2>2 DEF KeptInv
    <2> QED BY <2>3 DEF q
<1>6. /\ session' \in [continued : [Replies -> Nat], finished : SUBSET Sessions,
                       stopped : SUBSET Sessions]
      /\ session'.stopped = session.stopped \cup {s}
    BY <1>1, <1>2 DEF KeptInv
<1>7. KeptInv'
    BY <1>1, <1>2, <1>3, <1>5, <1>6 DEF KeptInv
<1> HIDE DEF s, Touched
<1>8. \A c \in flight'.calls : \E d \in flight.calls : c = Touched(d)
    BY <1>5
<1>9. MirrorInv'
    <2>1. \A c \in flight'.calls : Mirrors(c.entry, outbox) /\ c.entry.pending = {}
        BY <1>4, <1>8 DEF SessionGood, MirrorInv
    <2>2. OnePerSession(barrier'.entries)
        BY <1>3 DEF SessionGood, MirrorInv, OnePerSession
    <2> QED BY <1>1, <1>3, <1>5, <2>1, <2>2 DEF SessionGood, MirrorInv
<1>10. CallInv'
    <2>1. \A c, d \in flight'.calls : c.entry.reply = d.entry.reply => c = d
        BY <1>4, <1>8 DEF SessionGood, CallInv
    <2>2. \A c \in flight'.calls : \A e \in flight'.todo : e.pending = {} => e.reply # c.entry.reply
        BY <1>4, <1>5, <1>8 DEF SessionGood, CallInv
    <2> QED BY <2>1, <2>2 DEF CallInv
<1>11. StopInv'
    <2>1. ASSUME NEW c \in flight'.calls, c.entry.session \in session'.stopped PROVE c.late
        <3>1. PICK d \in flight.calls : c = Touched(d)
            BY <1>8
        <3>2. c.entry = d.entry /\ c.late = (d.late \/ d.entry.session = s)
            BY <1>4, <3>1
        <3>3. d.entry.session \in session.stopped \/ d.entry.session = s
            BY <1>6, <2>1, <3>2
        <3> QED BY <3>2, <3>3 DEF SessionGood, StopInv
    <2> QED BY <1>3, <1>6, <2>1 DEF SessionGood, StopInv
<1> QED BY <1>1, <1>7, <1>9, <1>10, <1>11, BoardSame DEF SessionGood

(* A capture saves an entry that waits for every part, or forgets. *)
LEMMA CapturedKeeps ==
    ASSUME SessionGood, NEW r \in flight.captures, Captured(r)
    PROVE  SessionGood'
<1> DEFINE s == outbox[r].session
           E(t) == [reply |-> r, session |-> s, task |-> t, pending |-> Parts]
<1>1. /\ Listed /\ UNCHANGED <<outbox, lane, pump, session>>
      /\ \/ barrier' = Dropped(barrier, s)
         \/ \E t \in Tasks : barrier' = Saved(barrier, E(t))
      /\ flight' = [flight EXCEPT !.captures = @ \ {r}]
    BY DEF Captured, Owned
<1>2. KeptInv /\ r \in DOMAIN outbox /\ r \in Replies /\ outbox[r] \in Row
    BY DEF SessionGood, KeptInv
<1>3. \A t \in Tasks : E(t) \in Entry /\ Mirrors(E(t), outbox)
    BY <1>2 DEF Row, Entry, Mirrors
<1>4. /\ flight' \in [captures : SUBSET Replies, calls : SUBSET Call, todo : SUBSET Entry,
                      awaited : SUBSET Replies]
      /\ flight'.captures \subseteq flight.captures
      /\ flight'.calls = flight.calls /\ flight'.todo = flight.todo
    BY <1>1, <1>2 DEF KeptInv
<1> HIDE DEF E
<1>5. /\ barrier' \in File /\ barrier'.suppressed = barrier.suppressed
      /\ OnePerSession(barrier'.entries)
      /\ \A e \in barrier'.entries : Mirrors(e, outbox)
    <2>1. CASE barrier' = Dropped(barrier, s)
        BY <1>2, <2>1, DroppedFacts DEF SessionGood, KeptInv, MirrorInv, OnePerSession
    <2>2. ASSUME NEW t \in Tasks, barrier' = Saved(barrier, E(t))
          PROVE  <1>5!:
        BY <1>2, <1>3, <2>2, SavedFacts DEF SessionGood, KeptInv, MirrorInv
    <2> QED BY <1>1, <2>1, <2>2
<1>6. KeptInv'
    BY <1>1, <1>2, <1>4, <1>5 DEF KeptInv
<1>7. MirrorInv'
    BY <1>1, <1>4, <1>5 DEF SessionGood, MirrorInv
<1>8. CallInv' /\ StopInv'
    BY <1>1, <1>4, <1>5 DEF SessionGood, CallInv, StopInv
<1> QED BY <1>1, <1>6, <1>7, <1>8, ReleaseKeeps DEF SessionGood, Listed

(* A delivery: what is released waits for nothing, and its reply has no    *)
(* other continuation, for a part of it was still to deliver.              *)
LEMMA DeliveredKeeps ==
    ASSUME SessionGood, NEW r \in Replies, NEW p \in Parts, ReplyDelivered(r, p)
    PROVE  SessionGood'
<1> DEFINE m == Marked(barrier, r, p)
           go == {e \in m.released : e.session \notin barrier.suppressed}
<1>1. /\ r \in DOMAIN outbox /\ p \in outbox[r].waiting
      /\ outbox' = [outbox EXCEPT ![r].waiting = @ \ {p}]
      /\ barrier' = [barrier EXCEPT !.entries = m.entries]
      /\ flight' = [flight EXCEPT !.calls = @ \cup Calls(go)]
      /\ UNCHANGED <<board, lane, pump, session>>
    BY DEF ReplyDelivered
<1>2. KeptInv /\ MirrorInv /\ CallInv /\ StopInv
    BY DEF SessionGood
<1>3. /\ outbox' \in Seq(Row) /\ DOMAIN outbox' = DOMAIN outbox
      /\ \A q \in DOMAIN outbox : /\ outbox'[q].session = outbox[q].session
                                  /\ outbox'[q].waiting = IF q = r THEN outbox[q].waiting \ {p}
                                                                   ELSE outbox[q].waiting
    <2>1. \A q \in DOMAIN outbox : outbox[q] \in Row
        BY <1>2 DEF KeptInv
    <2> DEFINE row == [outbox[r] EXCEPT !.waiting = @ \ {p}]
    <2>2. row \in Row /\ row.session = outbox[r].session /\ row.waiting = outbox[r].waiting \ {p}
        BY <1>1, <2>1 DEF Row
    <2>3. outbox' = [outbox EXCEPT ![r] = row]
        BY <1>1
    <2> HIDE DEF row
    <2>4. outbox \in Seq(Row)
        BY <1>2 DEF KeptInv
    <2>5. r \in DOMAIN outbox /\ row \in Row
        BY <1>1, <2>2
    <2>6. /\ outbox' \in Seq(Row) /\ DOMAIN outbox' = DOMAIN outbox /\ outbox'[r] = row
          /\ \A j \in DOMAIN outbox : j # r => outbox'[j] = outbox[j]
        BY <2>3, <2>4, <2>5, ElementWritten
    <2> QED BY <2>2, <2>6
<1>4. Older(outbox, outbox')
    BY <1>3 DEF Older
<1>5. \A f \in barrier.entries :
          /\ Less(f, p).reply = f.reply /\ Less(f, p).session = f.session
          /\ Less(f, p).pending = f.pending \ {p} /\ Mirrors(f, outbox)
    BY <1>2 DEF KeptInv, File, Entry, MirrorInv, Less
<1>6. /\ \A e \in m.entries : /\ e \in Entry
                              /\ \/ e \in barrier.entries /\ e.reply # r
                                 \/ \E f \in barrier.entries : f.reply = r /\ e = Less(f, p)
      /\ \A e \in m.released : /\ e \in Entry /\ e.pending = {}
                               /\ \E f \in barrier.entries : f.reply = r /\ e = Less(f, p)
    <2>1. barrier \in File
        BY <1>2 DEF KeptInv
    <2> QED BY <2>1, MarkedFacts
<1> HIDE DEF m
<1>7. barrier' \in File /\ barrier'.entries = m.entries /\ barrier'.suppressed = barrier.suppressed
    BY <1>1, <1>2, <1>6 DEF KeptInv, File
<1>8. /\ \A e \in m.entries : Mirrors(e, outbox')
      /\ \A e \in m.released : /\ Mirrors(e, outbox') /\ e.reply = r
                               /\ e.session = outbox[r].session
    <2>1. ASSUME NEW f \in barrier.entries, f.reply = r
          PROVE  Mirrors(Less(f, p), outbox') /\ Less(f, p).reply = r /\ Less(f, p).session = outbox[r].session
        <3>1. /\ r \in DOMAIN outbox /\ outbox[r].session = f.session
              /\ outbox[r].waiting \subseteq f.pending
            BY <1>5, <2>1 DEF Mirrors
        <3>2. /\ r \in DOMAIN outbox' /\ outbox'[r].session = f.session
              /\ outbox'[r].waiting = outbox[r].waiting \ {p}
            BY <1>3, <3>1
        <3> QED BY <1>5, <2>1, <3>1, <3>2 DEF Mirrors
    <2>2. ASSUME NEW f \in barrier.entries PROVE Mirrors(f, outbox')
        BY <1>4, <1>5, MirrorsLast
    <2> QED BY <1>6, <2>1, <2>2
<1>9. OnePerSession(m.entries)
    <2>1. \A e \in m.entries : \E f \in barrier.entries :
              /\ e.session = f.session
              /\ e = IF f.reply = r THEN Less(f, p) ELSE f
        BY <1>5, <1>6
    <2> QED BY <1>2, <2>1 DEF MirrorInv, OnePerSession
<1>10. \A e, f \in m.released : e = f
    BY <1>2, <1>5, <1>6 DEF MirrorInv, OnePerSession, Mirrors
<1>11. \A c \in Calls(go) : /\ c \in Call /\ c.entry \in m.released
                            /\ c = [entry |-> c.entry, at |-> "list", late |-> FALSE]
                            /\ c.entry.session \notin barrier.suppressed
    <2> SUFFICES ASSUME NEW c \in Calls(go) PROVE <1>11!(c)
        OBVIOUS
    <2>1. PICK e \in go : c = [entry |-> e, at |-> "list", late |-> FALSE]
        BY DEF Calls
    <2>2. e \in m.released /\ e \in Entry /\ e.session \notin barrier.suppressed
        BY <1>6
    <2> QED BY <2>1, <2>2 DEF Call
<1> HIDE DEF go
<1>12. /\ flight' \in [captures : SUBSET Replies, calls : SUBSET Call, todo : SUBSET Entry,
                       awaited : SUBSET Replies]
       /\ flight'.captures = flight.captures /\ flight'.todo = flight.todo
       /\ flight'.calls = flight.calls \cup Calls(go)
    <2>1. Calls(go) \subseteq Call
        BY <1>11
    <2> QED BY <1>1, <1>2, <2>1 DEF KeptInv
<1>13. KeptInv'
    BY <1>1, <1>2, <1>3, <1>7, <1>12 DEF KeptInv
<1>14. MirrorInv'
    <2>1. \A c \in flight'.calls : Mirrors(c.entry, outbox') /\ c.entry.pending = {}
        BY <1>2, <1>4, <1>6, <1>8, <1>11, <1>12, MirrorsLast DEF MirrorInv
    <2>2. \A e \in flight'.todo : Mirrors(e, outbox')
        BY <1>2, <1>4, <1>12, MirrorsLast DEF MirrorInv
    <2> QED BY <1>2, <1>7, <1>8, <1>9, <1>12, <2>1, <2>2 DEF MirrorInv
<1>15. CallInv'
    <2>1. \A c \in flight.calls : c.entry.reply # r
        BY <1>1, <1>2 DEF MirrorInv, Mirrors
    <2>2. \A e \in flight.todo : e.pending = {} => e.reply # r
        BY <1>1, <1>2 DEF MirrorInv, Mirrors
    <2>3. \A c \in Calls(go) : c.entry.reply = r
        BY <1>8, <1>11
    <2>4. \A c, d \in Calls(go) : c = d
        BY <1>10, <1>11
    <2> QED BY <1>2, <1>12, <2>1, <2>2, <2>3, <2>4 DEF CallInv
<1>16. StopInv'
    BY <1>1, <1>2, <1>7, <1>11, <1>12 DEF StopInv
<1> QED BY <1>1, <1>13, <1>14, <1>15, <1>16, BoardSame DEF SessionGood

(* Calls go on or leave; nothing else of the service changes. *)
LEMMA CallsGoOn ==
    ASSUME SessionGood, BoardInv', UNCHANGED <<barrier, outbox>>, NEW c \in flight.calls,
           NEW more, more = {} \/ more = {[c EXCEPT !.at = "select"]},
           flight' = [flight EXCEPT !.calls = (@ \ {c}) \cup more],
           lane' \in Seq(Prompt), pump'.turn = pump.turn, lane # <<>> => lane' # <<>>,
           pump' \in [selected : Sessions \cup {None}, turn : Sessions \cup {None}, restarts : Nat],
           session' \in [continued : [Replies -> Nat], finished : SUBSET Sessions,
                         stopped : SUBSET Sessions],
           session'.stopped = session.stopped
    PROVE  SessionGood'
<1> DEFINE d == [c EXCEPT !.at = "select"]
<1>1. KeptInv /\ MirrorInv /\ CallInv /\ StopInv
    BY DEF SessionGood
<1>2. d \in Call /\ d.entry = c.entry /\ d.late = c.late
    BY <1>1, ZenonT(60) DEF KeptInv, Call
<1> HIDE DEF d
<1>3. more \subseteq {d}
    BY DEF d
<1>4. /\ flight' \in [captures : SUBSET Replies, calls : SUBSET Call, todo : SUBSET Entry,
                      awaited : SUBSET Replies]
      /\ flight'.captures = flight.captures /\ flight'.todo = flight.todo
      /\ flight'.calls = (flight.calls \ {c}) \cup more
    <2>1. more \subseteq Call
        BY <1>2, <1>3
    <2> QED BY <1>1, <2>1 DEF KeptInv
<1>5. KeptInv'
    BY <1>1, <1>4 DEF KeptInv
<1>6. MirrorInv'
    BY <1>1, <1>2, <1>3, <1>4 DEF MirrorInv
<1>7. CallInv'
    BY <1>1, <1>2, <1>3, <1>4 DEF CallInv
<1>8. StopInv'
    BY <1>1, <1>2, <1>3, <1>4 DEF StopInv
<1> QED BY <1>5, <1>6, <1>7, <1>8 DEF SessionGood

LEMMA ContinuationsKeep ==
    ASSUME SessionGood, NEW c \in flight.calls,
           ContinuationListed(c) \/ ContinuationPrompts(c) \/ ContinuationFails(c)
    PROVE  SessionGood'
<1>1. KeptInv /\ c.entry \in Entry
    BY DEF SessionGood, KeptInv, Call
<1>2. CASE ContinuationListed(c)
    <2>1. BoardInv'
        BY <1>2, ReleaseKeeps DEF ContinuationListed, Listed, SessionGood
    <2>2. PICK more : /\ more = {} \/ more = {[c EXCEPT !.at = "select"]}
                      /\ flight' = [flight EXCEPT !.calls = (@ \ {c}) \cup more]
        BY <1>2 DEF ContinuationListed
    <2> QED BY <1>1, <1>2, <2>1, <2>2, CallsGoOn DEF ContinuationListed, KeptInv
<1>3. CASE ContinuationPrompts(c)
    <2> DEFINE pr == [reply |-> c.entry.reply, session |-> c.entry.session]
    <2>1. /\ pump' = [pump EXCEPT !.selected = c.entry.session]
          /\ lane' = Append(lane, pr)
          /\ flight' = [flight EXCEPT !.calls = (@ \ {c}) \cup {}]
          /\ session' = [session EXCEPT !.continued[c.entry.reply] = @ + 1]
          /\ UNCHANGED <<board, barrier, outbox>>
        BY <1>3 DEF ContinuationPrompts
    <2>2. pr \in Prompt
        BY <1>1 DEF Entry, Prompt
    <2>3. lane' \in Seq(Prompt) /\ lane' # <<>>
        <3> HIDE DEF pr
        <3>1. lane \in Seq(Prompt)
            BY <1>1 DEF KeptInv
        <3> QED BY <2>1, <2>2, <3>1, AppendProperties
    <2>4. /\ session' \in [continued : [Replies -> Nat], finished : SUBSET Sessions,
                           stopped : SUBSET Sessions]
          /\ session'.stopped = session.stopped
        <3>1. [session.continued EXCEPT ![c.entry.reply] = @ + 1] \in [Replies -> Nat]
            BY <1>1 DEF KeptInv, Entry
        <3> QED BY <1>1, <2>1, <3>1 DEF KeptInv
    <2>5. /\ pump' \in [selected : Sessions \cup {None}, turn : Sessions \cup {None}, restarts : Nat]
          /\ pump'.turn = pump.turn
        BY <1>1, <2>1 DEF KeptInv, Entry
    <2>6. BoardInv'
        BY <2>1, BoardSame DEF SessionGood
    <2> QED BY <2>1, <2>3, <2>4, <2>5, <2>6, CallsGoOn
<1>4. CASE ContinuationFails(c)
    <2>1. flight' = [flight EXCEPT !.calls = (@ \ {c}) \cup {}]
        BY <1>4 DEF ContinuationFails
    <2> QED BY <1>1, <1>4, <2>1, CallsGoOn, BoardSame DEF ContinuationFails, SessionGood, KeptInv
<1> QED BY <1>2, <1>3, <1>4

-----------------------------------------------------------------------------
(* Restarts *)

Flight == [captures : SUBSET Replies, calls : SUBSET Call, todo : SUBSET Entry,
           awaited : SUBSET Replies]

LEMMA WalkTyped ==
    ASSUME NEW b \in File, NEW es \in SUBSET Entry, OnePerSession(b.entries), OnePerSession(es),
           NEW w \in Walk(b, es)
    PROVE  /\ w.calls \subseteq Call /\ w.todo \subseteq Entry
           /\ {c.entry.reply : c \in w.calls} \subseteq Replies
<1>1. \A c \in w.calls : /\ c.entry \in Entry
                         /\ c = [entry |-> c.entry, at |-> "list", late |-> FALSE]
    BY WalkFacts
<1>2. ASSUME NEW c \in w.calls PROVE c \in Call
    <2>1. \A e \in Entry : [entry |-> e, at |-> "list", late |-> FALSE] \in Call
        BY DEF Call
    <2> QED BY <1>1, <2>1
<1>3. \A c \in w.calls : c.entry.reply \in Replies
    BY <1>1 DEF Entry
<1>4. w.todo \subseteq Entry
    BY WalkFacts
<1> QED BY <1>2, <1>3, <1>4

(* Startup walks on over entries that mirror the outbox. *)
LEMMA WalkedKeeps ==
    ASSUME SessionGood, NEW es \in SUBSET Entry, OnePerSession(es),
           \A e \in es : Mirrors(e, outbox),
           NEW old \in SUBSET flight.calls,
           \A c \in old : \A e \in es : e.pending = {} => e.reply # c.entry.reply,
           NEW w \in Walk(barrier, es), barrier' = w.barrier,
           flight' \in Flight, flight'.captures \subseteq flight.captures,
           flight'.todo = w.todo, flight'.calls = old \cup w.calls,
           pump' \in [selected : Sessions \cup {None}, turn : Sessions \cup {None}, restarts : Nat],
           pump'.turn # None => pump'.turn = pump.turn,
           UNCHANGED <<board, outbox, lane, session>>
    PROVE  SessionGood'
<1>1. KeptInv /\ MirrorInv /\ CallInv /\ StopInv
    BY DEF SessionGood
<1>2. /\ barrier' \in File /\ barrier'.suppressed = barrier.suppressed
      /\ barrier'.entries \subseteq barrier.entries \cup es /\ OnePerSession(barrier'.entries)
      /\ w.todo \subseteq es
      /\ \A c \in w.calls : /\ c.entry \in es \ w.todo /\ c.entry.pending = {}
                            /\ c.entry.session \notin barrier.suppressed
      /\ \A c, d \in w.calls : c = d
    <2>1. barrier \in File /\ OnePerSession(barrier.entries)
        BY <1>1 DEF KeptInv, MirrorInv
    <2> QED BY <2>1, WalkFacts
<1>3. KeptInv'
    BY <1>1, <1>2 DEF KeptInv, Flight
<1>4. MirrorInv'
    <2>1. OnePerSession(flight'.todo)
        BY <1>2 DEF OnePerSession
    <2>2. \A e \in barrier'.entries \cup flight'.todo : Mirrors(e, outbox')
        BY <1>1, <1>2 DEF MirrorInv
    <2>3. \A c \in flight'.calls : Mirrors(c.entry, outbox') /\ c.entry.pending = {}
        BY <1>1, <1>2 DEF MirrorInv
    <2> QED BY <1>2, <2>1, <2>2, <2>3 DEF MirrorInv
<1>5. CallInv'
    <2>1. \A e, f \in es : e.reply = f.reply => e = f
        BY DEF Mirrors, OnePerSession
    <2>2. \A c, d \in flight'.calls : c.entry.reply = d.entry.reply => c = d
        BY <1>1, <1>2 DEF CallInv
    <2>3. \A c \in flight'.calls : \A e \in flight'.todo : e.pending = {} => e.reply # c.entry.reply
        BY <1>2, <2>1
    <2> QED BY <2>2, <2>3 DEF CallInv
<1>6. StopInv'
    BY <1>1, <1>2 DEF StopInv
<1> QED BY <1>3, <1>4, <1>5, <1>6, BoardSame DEF SessionGood

(* What startup reads of the file mirrors the outbox as well. *)
LEMMA FoundFacts ==
    ASSUME SessionGood
    PROVE  /\ Found(barrier.entries) \subseteq Entry /\ OnePerSession(Found(barrier.entries))
           /\ \A e \in Found(barrier.entries) : Mirrors(e, outbox)
<1> DEFINE Cut(e) == [e EXCEPT !.pending = @ \cap outbox[e.reply].waiting]
<1>1. /\ barrier.entries \subseteq Entry /\ OnePerSession(barrier.entries)
      /\ \A e \in barrier.entries : Mirrors(e, outbox)
    BY DEF SessionGood, KeptInv, File, MirrorInv
<1>2. \A e \in barrier.entries :
          /\ Cut(e) \in Entry /\ Cut(e).session = e.session /\ Cut(e).reply = e.reply
          /\ Cut(e).pending = e.pending \cap outbox[e.reply].waiting
    BY <1>1 DEF Entry
<1> HIDE DEF Cut
<1>3. \A e \in Found(barrier.entries) : \E f \in barrier.entries : e = Cut(f)
    BY DEF Found, Cut
<1> QED BY <1>1, <1>2, <1>3 DEF OnePerSession, Mirrors

LEMMA RestartKeeps ==
    ASSUME SessionGood, Restart
    PROVE  SessionGood'
<1>1. PICK w \in Walk(barrier, Found(barrier.entries)) :
          /\ barrier' = w.barrier
          /\ flight' = [captures |-> {}, calls |-> w.calls, todo |-> w.todo,
                        awaited |-> {c.entry.reply : c \in w.calls}]
    BY DEF Restart
<1>2. /\ pump' = [selected |-> None, turn |-> None, restarts |-> pump.restarts + 1]
      /\ UNCHANGED <<board, outbox, lane, session>>
    BY DEF Restart
<1>3. barrier \in File /\ OnePerSession(barrier.entries) /\ pump.restarts \in Nat
    BY DEF SessionGood, KeptInv, MirrorInv
<1> DEFINE es == Found(barrier.entries)
<1>4. es \in SUBSET Entry /\ OnePerSession(es) /\ \A e \in es : Mirrors(e, outbox)
    BY FoundFacts
<1> HIDE DEF es
<1>5. w \in Walk(barrier, es)
    BY <1>1 DEF es
<1>6. /\ w.calls \subseteq Call /\ w.todo \subseteq Entry
      /\ {c.entry.reply : c \in w.calls} \subseteq Replies
    BY <1>3, <1>4, <1>5, WalkTyped
<1> DEFINE none == {}
<1>7. /\ flight' \in Flight /\ flight'.captures = {} /\ flight'.todo = w.todo
      /\ flight'.calls = none \cup w.calls
    BY <1>1, <1>6 DEF Flight
<1>8. none \subseteq flight.calls /\ \A c \in none : \A e \in es : e.pending = {} => e.reply # c.entry.reply
    OBVIOUS
<1>9. /\ pump' \in [selected : Sessions \cup {None}, turn : Sessions \cup {None}, restarts : Nat]
      /\ pump'.turn = None
    BY <1>2, <1>3
<1> HIDE DEF none
<1> QED BY <1>1, <1>2, <1>4, <1>5, <1>7, <1>8, <1>9, WalkedKeeps

LEMMA StartupGoesOnKeeps ==
    ASSUME SessionGood, StartupGoesOn
    PROVE  SessionGood'
<1>1. PICK w \in Walk(barrier, flight.todo) :
          /\ barrier' = w.barrier
          /\ flight' = [flight EXCEPT !.todo = w.todo, !.calls = @ \cup w.calls,
                                      !.awaited = {c.entry.reply : c \in w.calls}]
    BY DEF StartupGoesOn
<1>2. /\ UNCHANGED <<board, outbox, lane, pump, session>>
      /\ KeptInv /\ MirrorInv /\ CallInv
    BY DEF StartupGoesOn, SessionGood
<1>3. /\ barrier \in File /\ OnePerSession(barrier.entries)
      /\ flight.todo \in SUBSET Entry /\ OnePerSession(flight.todo)
      /\ \A e \in flight.todo : Mirrors(e, outbox)
    BY <1>2 DEF KeptInv, MirrorInv
<1>4. /\ w.calls \subseteq Call /\ w.todo \subseteq Entry
      /\ {c.entry.reply : c \in w.calls} \subseteq Replies
    BY <1>3, WalkTyped
<1>5. /\ flight' \in Flight /\ flight'.captures = flight.captures /\ flight'.todo = w.todo
      /\ flight'.calls = flight.calls \cup w.calls
    BY <1>1, <1>2, <1>4 DEF KeptInv, Flight
<1>6. \A c \in flight.calls : \A e \in flight.todo : e.pending = {} => e.reply # c.entry.reply
    BY <1>2 DEF CallInv
<1>7. pump' \in [selected : Sessions \cup {None}, turn : Sessions \cup {None}, restarts : Nat]
    BY <1>2 DEF KeptInv
<1> QED BY <1>1, <1>2, <1>3, <1>5, <1>6, <1>7, WalkedKeeps

-----------------------------------------------------------------------------
(* The board meanwhile *)

LEMMA PlainIsChecklist == Plain \in Checklist
BY DEF Plain, Checklist

(* Steps of the board that the services do not see, but for the history of *)
(* finished work. *)
LEMMA WorkingKeeps ==
    ASSUME SessionGood, BoardInv', UNCHANGED <<barrier, outbox, lane, pump, flight>>,
           \/ session' = session
           \/ session' = [session EXCEPT !.finished = @ \cup {pump.turn}] /\ pump.turn # None
    PROVE  SessionGood'
<1>1. KeptInv
    BY DEF SessionGood
<1>2. /\ session' \in [continued : [Replies -> Nat], finished : SUBSET Sessions,
                       stopped : SUBSET Sessions]
      /\ session'.stopped = session.stopped
    <2>1. CASE session' = session
        BY <1>1, <2>1 DEF KeptInv
    <2>2. CASE session' = [session EXCEPT !.finished = @ \cup {pump.turn}] /\ pump.turn # None
        <3>1. pump.turn \in Sessions
            BY <1>1, <2>2 DEF KeptInv
        <3> QED BY <1>1, <2>2, <3>1 DEF KeptInv
    <2> QED BY <2>1, <2>2
<1>3. KeptInv'
    BY <1>1, <1>2 DEF KeptInv
<1>4. MirrorInv' /\ CallInv'
    BY OutboxSame, MirrorInvLasts DEF SessionGood, CallInv
<1>5. StopInv'
    BY <1>2 DEF SessionGood, StopInv
<1> QED BY <1>3, <1>4, <1>5 DEF SessionGood

LEMMA SessionWorksKeeps ==
    ASSUME SessionGood, NEW t \in Tasks, SessionWorks(t)
    PROVE  SessionGood'
<1>1. PICK a \in Worker(pump.turn) :
          \/ (StartTaskExecution(t, a) \/ ClaimNextTask(t, a)) /\ UNCHANGED session
          \/ /\ UpdateTaskFromExecution(t, a, "done", Plain)
             /\ session' = [session EXCEPT !.finished = @ \cup {pump.turn}]
          \/ UpdateTaskFromExecution(t, a, "blocked", Plain) /\ UNCHANGED session
    BY DEF SessionWorks
<1>2. a \in Actor /\ BoardInv /\ pump.turn # None
    BY DEF Worker, ToolActors, SessionGood, SessionWorks
<1>3. BoardInv'
    <2>1. CASE StartTaskExecution(t, a) \/ ClaimNextTask(t, a)
        BY <1>2, <2>1, StartsKeep
    <2>2. ASSUME NEW s \in {"done", "blocked"}, UpdateTaskFromExecution(t, a, s, Plain)
          PROVE  BoardInv'
        BY <1>2, <2>2, PlainIsChecklist, UpdateTaskKeeps DEF UpdateTaskFromExecution, Statuses
    <2> QED BY <1>1, <2>1, <2>2
<1>4. \/ session' = session
      \/ session' = [session EXCEPT !.finished = @ \cup {pump.turn}] /\ pump.turn # None
    BY <1>1, <1>2
<1> QED BY <1>3, <1>4, WorkingKeeps DEF SessionWorks

LEMMA PeopleWorkKeeps ==
    ASSUME SessionGood, NEW t \in Tasks, PeopleWork(t)
    PROVE  SessionGood'
<1>1. BoardInv /\ UNCHANGED services
    BY DEF SessionGood, PeopleWork
<1>2. BoardInv'
    <2>1. CASE CreateTask("queued", Plain)
        BY <1>1, <2>1, PlainIsChecklist, CreateTaskKeeps DEF Statuses
    <2>2. ASSUME NEW s \in {"queued", "blocked", "done"}, UpdateTask(t, s, Plain)
          PROVE  BoardInv'
        BY <1>1, <2>2, PlainIsChecklist, UpdateTaskKeeps DEF Statuses
    <2>3. CASE LeaseEnds(t)
        BY <1>1, <2>3, LeaseEndsKeeps
    <2> QED BY <2>1, <2>2, <2>3 DEF PeopleWork
<1> QED BY <1>1, <1>2, WorkingKeeps DEF services

-----------------------------------------------------------------------------
(* The invariant *)

LEMMA SessionStarts == SessionInit => SessionGood
<1> SUFFICES ASSUME SessionInit PROVE SessionGood
    OBVIOUS
<1>1. BoardInv
    BY InitIsGood DEF SessionInit
<1>2. /\ barrier = [entries |-> {}, suppressed |-> {}] /\ outbox = <<>> /\ lane = <<>>
      /\ pump = [selected |-> None, turn |-> None, restarts |-> 0]
      /\ flight = [captures |-> {}, calls |-> {}, todo |-> {}, awaited |-> {}]
      /\ session = [continued |-> [r \in Replies |-> 0], finished |-> {}, stopped |-> {}]
    BY DEF SessionInit
<1>3. outbox \in Seq(Row) /\ DOMAIN outbox \subseteq Replies /\ lane \in Seq(Prompt)
    BY <1>2
<1>4. KeptInv
    BY <1>2, <1>3 DEF KeptInv, File
<1>5. MirrorInv /\ CallInv /\ StopInv
    BY <1>2 DEF MirrorInv, CallInv, StopInv, OnePerSession
<1> QED BY <1>1, <1>4, <1>5 DEF SessionGood

LEMMA SessionStep == SessionGood /\ [SessionNext]_<<board, services>> => SessionGood'
<1> SUFFICES ASSUME SessionGood, [SessionNext]_<<board, services>> PROVE SessionGood'
    OBVIOUS
<1>1. CASE UNCHANGED <<board, services>>
    BY <1>1, WorkingKeeps, BoardSame DEF services, SessionGood
<1>2. CASE TurnStarts \/ TurnReplies \/ TurnFails
    BY <1>2, TurnStartsKeeps, TurnRepliesKeeps, PeoplePromptKeeps
<1>3. CASE UserPrompt \/ NewSession \/ StopSession \/ \E s \in Sessions : SelectSession(s)
    BY <1>3, PeoplePromptKeeps, StopSessionKeeps
<1>4. ASSUME NEW r \in flight.captures, Captured(r) PROVE SessionGood'
    BY <1>4, CapturedKeeps
<1>5. ASSUME NEW r \in Replies, NEW p \in Parts, ReplyDelivered(r, p) PROVE SessionGood'
    BY <1>5, DeliveredKeeps
<1>6. ASSUME NEW c \in flight.calls,
             ContinuationListed(c) \/ ContinuationPrompts(c) \/ ContinuationFails(c)
      PROVE  SessionGood'
    BY <1>6, ContinuationsKeep
<1>7. CASE Restart \/ StartupGoesOn
    BY <1>7, RestartKeeps, StartupGoesOnKeeps
<1>8. ASSUME NEW t \in Tasks, SessionWorks(t) \/ PeopleWork(t) PROVE SessionGood'
    BY <1>8, SessionWorksKeeps, PeopleWorkKeeps
<1> QED BY <1>1, <1>2, <1>3, <1>4, <1>5, <1>6, <1>7, <1>8 DEF SessionNext

LEMMA SessionInvariance == SessionSpec => []SessionGood
BY SessionStarts, SessionStep, PTL DEF SessionSpec

(* Entries, replies and calls refer to each other as the store's types     *)
(* say, and "one session should wait on only one delivery-backed           *)
(* continuation barrier at a time", whatever a restart reads back.         *)
THEOREM OneBarrierPerSession == SessionSpec => []SessionTypeOK
<1>1. SessionGood => SessionTypeOK
    <2> SUFFICES ASSUME SessionGood PROVE SessionTypeOK
        OBVIOUS
    <2>1. BoardTypeOK
        BY DEF SessionGood, BoardInv, BoardTypeOK, Origins
    <2>2. KeptInv /\ MirrorInv
        BY DEF SessionGood
    <2>3. \A r \in DOMAIN outbox : r \in Replies /\ outbox[r].waiting \subseteq Parts
        <3>1. outbox \in Seq(Row) /\ DOMAIN outbox \subseteq Replies
            BY <2>2 DEF KeptInv
        <3>2. \A r \in DOMAIN outbox : outbox[r] \in Row
            BY <3>1
        <3> QED BY <3>1, <3>2 DEF Row
    <2>4. /\ barrier.entries \subseteq Entry /\ barrier.suppressed \subseteq Sessions
          /\ \A e, f \in barrier.entries : e.session = f.session => e = f
        BY <2>2 DEF KeptInv, File, MirrorInv, OnePerSession
    <2>5. lane \in Seq([reply : Replies \cup {0}, session : Sessions \cup {None}])
        BY <2>2 DEF KeptInv, Prompt
    <2> QED BY <2>1, <2>2, <2>3, <2>4, <2>5 DEF KeptInv, SessionTypeOK
<1> QED BY <1>1, SessionInvariance, PTL

-----------------------------------------------------------------------------
(* What a continuation may do *)

(* Only the prompt of a continuation counts as one. *)
LEMMA OnlyPromptsContinue ==
    ASSUME SessionGood, SessionNext, NEW r \in Replies,
           session'.continued[r] # session.continued[r]
    PROVE  \E c \in flight.calls : c.entry.reply = r /\ ContinuationPrompts(c)
<1>1. session \in [continued : [Replies -> Nat], finished : SUBSET Sessions,
                   stopped : SUBSET Sessions]
    BY DEF SessionGood, KeptInv
<1>2. ASSUME NEW f, NEW s, session' = [session EXCEPT !.finished = f, !.stopped = s]
      PROVE  FALSE
    BY <1>1, <1>2
<1>3. ASSUME NEW f, session' = [session EXCEPT !.finished = f] \/ session' = [session EXCEPT !.stopped = f]
      PROVE  FALSE
    BY <1>1, <1>3
<1>4. ~TurnStarts
    BY <1>2 DEF TurnStarts
<1>5. ~StopSession
    BY <1>3 DEF StopSession
<1>6. \A t \in Tasks : ~SessionWorks(t)
    BY <1>3 DEF SessionWorks
<1>7. /\ ~TurnReplies /\ ~TurnFails /\ ~UserPrompt /\ ~NewSession
      /\ \A s \in Sessions : ~SelectSession(s)
      /\ ~Restart /\ ~StartupGoesOn /\ \A t \in Tasks : ~PeopleWork(t)
    BY DEF TurnReplies, TurnFails, UserPrompt, NewSession, SelectSession, Restart,
           StartupGoesOn, PeopleWork, services
<1>8. /\ \A q \in flight.captures : ~Captured(q)
      /\ \A q \in Replies, p \in Parts : ~ReplyDelivered(q, p)
      /\ \A c \in flight.calls : ~ContinuationListed(c) /\ ~ContinuationFails(c)
    BY DEF Captured, ReplyDelivered, ContinuationListed, ContinuationFails
<1>9. PICK c \in flight.calls : ContinuationPrompts(c)
    BY <1>4, <1>5, <1>6, <1>7, <1>8 DEF SessionNext
<1>10. c.entry.reply = r
    BY <1>1, <1>9 DEF ContinuationPrompts
<1> QED BY <1>9, <1>10

(* A session is told to go on only about a reply of its own that Telegram  *)
(* has completely, whichever of the last delivery, a restart and the       *)
(* reconciliation released the barrier.                                    *)
THEOREM RepliesArriveFirst == SessionSpec => ContinuesDeliveredReply
<1> DEFINE Arrived == \A r \in Replies : session'.continued[r] # session.continued[r] =>
               outbox[r].waiting = {} /\ lane'[Len(lane')].session = outbox[r].session
<1>1. SessionGood /\ [SessionNext]_<<board, services>> => [Arrived]_session
    <2> SUFFICES ASSUME SessionGood, SessionNext, NEW r \in Replies,
                        session'.continued[r] # session.continued[r]
                 PROVE  outbox[r].waiting = {} /\ lane'[Len(lane')].session = outbox[r].session
        BY DEF services
    <2>1. PICK c \in flight.calls : c.entry.reply = r /\ ContinuationPrompts(c)
        BY OnlyPromptsContinue
    <2>2. outbox[r].waiting = {} /\ outbox[r].session = c.entry.session
        BY <2>1 DEF SessionGood, MirrorInv, Mirrors
    <2> DEFINE pr == [reply |-> c.entry.reply, session |-> c.entry.session]
    <2>3. lane' = Append(lane, pr) /\ lane \in Seq(Prompt) /\ pr \in Prompt /\ pr.session = c.entry.session
        BY <2>1 DEF ContinuationPrompts, SessionGood, KeptInv, Call, Entry, Prompt
    <2> HIDE DEF pr
    <2>4. lane'[Len(lane')] = pr
        BY <2>3, AppendProperties
    <2> QED BY <2>2, <2>3, <2>4
<1> QED BY <1>1, SessionInvariance, PTL DEF SessionSpec, ContinuesDeliveredReply

(* After a stop nothing but a continuation that was already past its check *)
(* tells the session to go on, until a turn starts in it.                  *)
THEOREM StopsHold == SessionSpec => StopHolds
<1> DEFINE Holds == \A c \in flight.calls :
          /\ session'.continued[c.entry.reply] # session.continued[c.entry.reply]
          /\ c \notin flight'.calls
          /\ c.entry.session \in session.stopped
          => c.late
<1>1. SessionGood /\ [SessionNext]_<<board, services>> => [Holds]_session
    <2> SUFFICES ASSUME SessionGood, SessionNext, NEW c \in flight.calls,
                        session'.continued[c.entry.reply] # session.continued[c.entry.reply],
                        c.entry.session \in session.stopped
                 PROVE  c.late
        BY DEF services
    <2> QED BY DEF SessionGood, StopInv
<1> QED BY <1>1, SessionInvariance, PTL DEF SessionSpec, StopHolds

(* A call that has passed its listing was let on by the listing of this    *)
(* step, or had passed it before.                                          *)
LEMMA OnlyListingsLetOn ==
    ASSUME SessionGood, SessionNext, NEW d \in flight'.calls, d.at = "select"
    PROVE  \/ \E x \in flight.calls : x.at = "select" /\ x.entry = d.entry
           \/ \E x \in flight.calls : /\ x.entry = d.entry /\ ContinuationListed(x)
                                      /\ GoesOn(Released(task), x.entry)
<1>1. KeptInv /\ MirrorInv
    BY DEF SessionGood
<1>2. flight \in Flight
    BY <1>1 DEF KeptInv, Flight
<1>3. CASE flight'.calls \subseteq flight.calls
    BY <1>3
<1>4. ASSUME TurnStarts \/ TurnReplies \/ TurnFails \/ UserPrompt \/ NewSession
                 \/ (\E s \in Sessions : SelectSession(s))
                 \/ (\E t \in Tasks : SessionWorks(t) \/ PeopleWork(t))
      PROVE  flight'.calls = flight.calls
    BY <1>2, <1>4 DEF TurnStarts, TurnReplies, TurnFails, UserPrompt, NewSession, SelectSession,
                      SessionWorks, PeopleWork, services, Flight
<1>5. CASE StopSession
    <2>1. PICK x \in flight.calls :
              d = IF x.entry.session = pump.selected THEN [x EXCEPT !.late = TRUE] ELSE x
        BY <1>2, <1>5 DEF StopSession, Flight
    <2>2. x \in Call
        BY <1>2 DEF Flight
    <2>3. x.at = "select" /\ x.entry = d.entry
        BY <2>1, <2>2 DEF Call
    <2> QED BY <2>3
<1>6. ASSUME NEW q \in flight.captures, Captured(q) PROVE flight'.calls = flight.calls
    BY <1>2, <1>6 DEF Captured, Flight
<1>7. ASSUME NEW q \in Replies, NEW p \in Parts, ReplyDelivered(q, p) PROVE d \in flight.calls
    <2>1. PICK es : flight' = [flight EXCEPT !.calls = @ \cup Calls(es)]
        BY <1>7 DEF ReplyDelivered
    <2>2. d \in flight.calls \cup Calls(es)
        BY <1>2, <2>1 DEF Flight
    <2>3. d \notin Calls(es)
        BY DEF Calls
    <2> QED BY <2>2, <2>3
<1>8. ASSUME NEW c \in flight.calls, ContinuationListed(c)
      PROVE  \/ d \in flight.calls
             \/ d.entry = c.entry /\ GoesOn(Released(task), c.entry)
    <2> DEFINE more == IF GoesOn(Released(task), c.entry) THEN {[c EXCEPT !.at = "select"]} ELSE {}
    <2>1. flight' = [flight EXCEPT !.calls = (@ \ {c}) \cup more]
        BY <1>8 DEF ContinuationListed
    <2>2. c \in Call
        BY <1>2 DEF Flight
    <2>3. \A x \in more : x.entry = c.entry /\ GoesOn(Released(task), c.entry)
        BY <2>2 DEF Call
    <2> HIDE DEF more
    <2>4. d \in flight.calls \/ d \in more
        BY <1>2, <2>1 DEF Flight
    <2> QED BY <2>3, <2>4
<1>9. ASSUME NEW c \in flight.calls, ContinuationPrompts(c) \/ ContinuationFails(c)
      PROVE  flight'.calls \subseteq flight.calls
    BY <1>2, <1>9 DEF ContinuationPrompts, ContinuationFails, Flight
<1>10. ASSUME NEW es \in SUBSET Entry, OnePerSession(es), NEW w \in Walk(barrier, es), d \in w.calls
       PROVE  FALSE
    <2>1. barrier \in File /\ OnePerSession(barrier.entries)
        BY <1>1 DEF KeptInv, MirrorInv
    <2>2. d = [entry |-> d.entry, at |-> "list", late |-> FALSE]
        BY <1>10, <2>1, WalkFacts
    <2>3. [entry |-> d.entry, at |-> "list", late |-> FALSE].at = "list"
        OBVIOUS
    <2> QED BY <2>2, <2>3
<1>11. CASE Restart
    <2>1. PICK w \in Walk(barrier, Found(barrier.entries)) : flight'.calls = w.calls
        BY <1>11 DEF Restart
    <2> QED BY <1>10, <2>1, FoundFacts
<1>12. CASE StartupGoesOn
    <2>1. PICK w \in Walk(barrier, flight.todo) :
              flight' = [flight EXCEPT !.todo = w.todo, !.calls = @ \cup w.calls,
                                       !.awaited = {c.entry.reply : c \in w.calls}]
        BY <1>12 DEF StartupGoesOn
    <2>2. d \in flight.calls \/ d \in w.calls
        BY <1>2, <2>1 DEF Flight
    <2>3. flight.todo \in SUBSET Entry /\ OnePerSession(flight.todo)
        BY <1>1 DEF KeptInv, MirrorInv
    <2> QED BY <1>10, <2>1, <2>2, <2>3
<1> QED BY <1>3, <1>4, <1>5, <1>6, <1>7, <1>8, <1>9, <1>11, <1>12 DEF SessionNext

(* Work that goes on is active work of the session, with a live lease.     *)
LEMMA GoesOnMeansActive ==
    ASSUME BoardInv, NEW e \in Entry, GoesOn(Released(task), e)
    PROVE  /\ task[e.task].status = "in_progress" /\ task[e.task].lease = "live"
           /\ task[e.task].executionSessionId = e.session
<1> DEFINE t == e.task
<1>1. /\ t \in Tasks /\ Released(task)[t].status = "in_progress"
      /\ Released(task)[t].executionSource = "session"
      /\ Released(task)[t].executionSessionId = e.session
    BY DEF GoesOn, Owned
<1>2. Released(task)[t] = task[t]
    BY <1>1, ReleaseIsProper
<1>3. ~Expired(task[t])
    <2> SUFFICES ASSUME Expired(task[t]) PROVE FALSE
        OBVIOUS
    <2>1. Released(task)[t] = Disowned([task[t] EXCEPT !.status = "queued"])
        BY <1>1 DEF Released
    <2>2. task[t] \in Task /\ task[t].status = "in_progress"
        BY <1>1 DEF BoardInv, Expired
    <2>3. Disowned([task[t] EXCEPT !.status = "queued"]).status = "queued"
        BY <2>2 DEF Disowned, Task
    <2> QED BY <1>1, <2>1, <2>3
<1>4. task[t].lease # "none" /\ task[t].lease \in {"none", "live", "expired"}
    BY <1>1, <1>2 DEF BoardInv, Good, Whole, Task
<1> QED BY <1>1, <1>2, <1>3, <1>4 DEF Expired

(* A continued task was in progress for that session when the board was    *)
(* listed after the delivery: nobody is told to go on with blocked,        *)
(* finished or reassigned work.                                            *)
THEOREM SessionsContinueTheirWork == SessionSpec => ContinuesOwnWork
<1> DEFINE Own == \A c \in flight.calls :
          c.at = "list" /\ [c EXCEPT !.at = "select"] \in flight'.calls =>
          /\ task[c.entry.task].status = "in_progress" /\ task[c.entry.task].lease = "live"
          /\ task[c.entry.task].executionSessionId = c.entry.session
<1>1. SessionGood /\ [SessionNext]_<<board, services>> => [Own]_<<flight, board>>
    <2> SUFFICES ASSUME SessionGood, SessionNext, NEW c \in flight.calls, c.at = "list",
                        [c EXCEPT !.at = "select"] \in flight'.calls
                 PROVE  /\ task[c.entry.task].status = "in_progress"
                        /\ task[c.entry.task].lease = "live"
                        /\ task[c.entry.task].executionSessionId = c.entry.session
        BY DEF services
    <2> DEFINE d == [c EXCEPT !.at = "select"]
    <2>1. c \in Call /\ d.at = "select" /\ d.entry = c.entry /\ d \in flight'.calls
        BY DEF SessionGood, KeptInv, Call
    <2> HIDE DEF d
    <2>2. \A x \in flight.calls : x.entry = c.entry => x = c
        BY DEF SessionGood, CallInv
    <2>3. GoesOn(Released(task), c.entry)
        BY <2>1, <2>2, OnlyListingsLetOn
    <2> QED BY <2>1, <2>3, GoesOnMeansActive DEF SessionGood, Call
<1> QED BY <1>1, SessionInvariance, PTL DEF SessionSpec, ContinuesOwnWork

-----------------------------------------------------------------------------
(* The outbox *)

USE DEF Ids, Texts, Blank, Copy

(* NewItem builds a record of the file's type. *)
LEMMA NewItemType ==
    ASSUME NEW kind \in Kinds, NEW key \in Keys \cup {NoKey},
           NEW text \in Texts \cup {Blank}
    PROVE  NewItem(kind, key, text) \in Item
  BY BoundsAssumption DEF NewItem, Item, ItemStatuses

(* Appending at the next id keeps the file and the counter well typed. *)
LEMMA AppendType ==
    ASSUME TypeOK, NEW kind \in Kinds, NEW key \in Keys \cup {NoKey},
           NEW text \in Texts \cup {Blank}, AppendItem(kind, key, text)
    PROVE  item' \in [Ids -> Item] /\ nextId' \in 1 .. MaxItems + 1
  <1>1. NewItem(kind, key, text) \in Item
    BY NewItemType
  <1>2. nextId \in Ids /\ nextId + 1 \in 1 .. MaxItems + 1
    BY BoundsAssumption DEF TypeOK, AppendItem
  <1> QED
    BY <1>1, <1>2 DEF TypeOK, AppendItem

LEMMA WithoutType ==
    ASSUME NEW file \in [Ids -> Item], NEW D
    PROVE  Without(file, D) \in [Ids -> Item]
  BY ZenonT(60) DEF Without, Item, ItemStatuses

(* A retention filter leaves every item alone that is still in the file. *)
LEMMA WithoutKeeps ==
    ASSUME NEW file \in [Ids -> Item], NEW D, NEW i \in Ids,
           Without(file, D)[i].status # "pruned"
    PROVE  Without(file, D)[i] = file[i]
  <1>1. file[i] \in Item
    OBVIOUS
  <1> QED
    BY <1>1 DEF Without, Item

LEMMA PruneDeliveredType ==
    ASSUME NEW file \in [Ids -> Item], NEW pruned \in PruneDelivered(file)
    PROVE  pruned \in [Ids -> Item]
  BY WithoutType DEF PruneDelivered

(* What a report writes has the file's type: attempts stop at the limit    *)
(* because only pending items, which have attempts left, are counted up.   *)
LEMMA SettledType ==
    ASSUME TypeOK, AttemptsLeft, NEW w \in Workers
    PROVE  Settled(w) \in [Ids -> Item]
  <1> SUFFICES ASSUME NEW i \in Ids PROVE Settled(w)[i] \in Item
    BY DEF Settled
  <1>1. item[i] \in Item
    BY DEF TypeOK
  <1>2. CASE ~Accepts(w, i)
    BY <1>1, <1>2 DEF Settled
  <1>3. CASE Accepts(w, i)
    <2>1. item[i].attempts + 1 \in 0 .. MaxAttempts
      BY <1>1, <1>3, BoundsAssumption DEF Accepts, AttemptsLeft, Item
    <2>2. Delivered(i) \in Item
      BY <1>1 DEF Delivered, Item, ItemStatuses
    <2>3. Failed(i) \in Item
      BY <1>1, <2>1 DEF Failed, Item, ItemStatuses
    <2> QED
      BY <1>3, <2>2, <2>3 DEF Settled
  <1> QED
    BY <1>2, <1>3

-----------------------------------------------------------------------------
(* Type correctness *)

TypeInv == TypeOK /\ AttemptsLeft

LEMMA TypeInit == Init => TypeInv
  <1> SUFFICES ASSUME Init PROVE TypeInv
    OBVIOUS
  <1>1. Unused \in Item /\ Unused.status = "unused"
    <2>1. NewItem("text", NoKey, Blank) \in Item
      BY NewItemType DEF Kinds
    <2> QED
      BY <2>1 DEF Unused, Item, ItemStatuses
  <1>2. item \in [Ids -> Item] /\ AttemptsLeft
    BY <1>1 DEF Init, AttemptsLeft, Pending
  <1>3. nextId \in 1 .. MaxItems + 1 /\ newest \in [Keys -> 0 .. MaxText]
    BY BoundsAssumption DEF Init
  <1>4. NoResult \in [Ids -> Outcomes] /\ NoEntry \in [Keys -> Texts \cup {Blank}]
    BY DEF NoResult, NoEntry, Outcomes
  <1> QED
    BY <1>1, <1>2, <1>3, <1>4 DEF Init, TypeInv, TypeOK, Phases

LEMMA TypeEnqueue ==
    ASSUME TypeInv, Enqueue
    PROVE  TypeInv'
  <1> USE DEF TypeInv
  <1>1. ASSUME NEW kind \in Kinds, NEW key \in Keys \cup {NoKey},
               NEW text \in Texts \cup {Blank}, AppendItem(kind, key, text),
               newest' \in [Keys -> 0 .. MaxText]
        PROVE  TypeInv'
    <2>1. item' \in [Ids -> Item] /\ nextId' \in 1 .. MaxItems + 1
      BY <1>1, AppendType
    <2>2. AttemptsLeft'
      BY <1>1, BoundsAssumption
      DEF AttemptsLeft, Pending, AppendItem, NewItem, TypeOK
    <2> QED
      BY <1>1, <2>1, <2>2 DEF TypeOK, AppendItem, bot, chat
  <1>2. ASSUME NEW t \in PlainTexts, EnqueueText(t) \/ EnqueueMedia(t)
        PROVE  TypeInv'
    BY <1>1, <1>2, BoundsAssumption DEF EnqueueText, EnqueueMedia, Kinds, TypeOK
  <1>3. ASSUME NEW action \in Controls, EnqueueControl(action)
        PROVE  TypeInv'
    BY <1>1, <1>3 DEF EnqueueControl, Kinds, Controls, TypeOK
  <1>4. ASSUME NEW k \in Keys, CoalesceSnapshot(k)
        PROVE  TypeInv'
    <2>1. newest[k] + 1 \in Texts /\ newest' \in [Keys -> 0 .. MaxText]
      BY <1>4, BoundsAssumption DEF CoalesceSnapshot, PublishSnapshot, TypeOK
    <2>2. PICK i \in Ids : FirstInSlot(i, k) /\ item' = Coalesce(k, i)
      BY <1>4 DEF CoalesceSnapshot
    <2>3. item' \in [Ids -> Item]
      <3> SUFFICES ASSUME NEW j \in Ids PROVE Coalesce(k, i)[j] \in Item
        BY <2>2 DEF Coalesce
      <3>1. item[j] \in Item
        BY DEF TypeOK
      <3>2. /\ [item[j] EXCEPT !.text = newest[k] + 1, !.by = NoWorker, !.due = TRUE] \in Item
            /\ [item[j] EXCEPT !.status = "superseded", !.fresh = FALSE] \in Item
        BY <2>1, <3>1 DEF Item, ItemStatuses
      <3> QED
        BY <3>1, <3>2 DEF Coalesce
    <2>4. AttemptsLeft'
      <3>1. ASSUME NEW j \in Ids, item'[j].status = "pending"
            PROVE  item[j].status = "pending" /\ item'[j].attempts = item[j].attempts
        <4>1. item[j] \in Item
          BY DEF TypeOK
        <4> QED
          BY <2>2, <3>1, <4>1 DEF Coalesce, Item, FirstInSlot, InSlot, Pending
      <3> QED
        BY <3>1 DEF AttemptsLeft, Pending
    <2> QED
      BY <1>4, <2>1, <2>3, <2>4 DEF CoalesceSnapshot, TypeOK, bot, chat
  <1>5. ASSUME NEW k \in Keys, AppendSnapshot(k)
        PROVE  TypeInv'
    <2>1. newest[k] + 1 \in Texts /\ newest' \in [Keys -> 0 .. MaxText]
      BY <1>5, BoundsAssumption DEF AppendSnapshot, PublishSnapshot, TypeOK
    <2> QED
      BY <1>1, <1>5, <2>1 DEF AppendSnapshot, Kinds
  <1> QED
    BY <1>2, <1>3, <1>4, <1>5 DEF Enqueue

LEMMA LeaseType ==
    ASSUME TypeInv, NEW w \in Workers, item' = Lease(w)
    PROVE  item' \in [Ids -> Item] /\ AttemptsLeft'
  <1> USE DEF TypeInv
  <1>1. ASSUME NEW i \in Ids
        PROVE  /\ item'[i] \in Item
               /\ item'[i].status = item[i].status /\ item'[i].attempts = item[i].attempts
    <2>1. item[i] \in Item
      BY DEF TypeOK
    <2> QED
      BY <2>1 DEF Lease, Item
  <1>2. item' \in [Ids -> Item]
    BY <1>1 DEF Lease
  <1> QED
    BY <1>1, <1>2 DEF AttemptsLeft, Pending

(* Actions of the store that rewrite the file and nothing else. *)
LEMMA TypeStore ==
    ASSUME TypeInv,
           \/ Prune
           \/ \E w \in Workers : PullLost(w)
           \/ \E i \in Ids : LeaseExpires(i) \/ BackoffElapses(i) \/ WindowCloses(i)
    PROVE  TypeInv'
  <1> USE DEF TypeInv
  <1>1. CASE Prune
    <2>0. PICK file \in PruneDelivered(item) :
             \E D \in SUBSET WithStatus(file, "dead") : item' = Without(file, D)
      BY <1>1 DEF Prune
    <2>1. PICK D \in SUBSET WithStatus(file, "dead") : item' = Without(file, D)
      BY <2>0
    <2>2. item' \in [Ids -> Item]
      BY <2>1, PruneDeliveredType, WithoutType DEF TypeOK
    <2>3. \A i \in Ids : item'[i].status = "pending" => item'[i] = item[i]
      <3> SUFFICES ASSUME NEW i \in Ids, item'[i].status = "pending"
                   PROVE  item'[i] = item[i]
        OBVIOUS
      <3>1. file \in [Ids -> Item] /\ item'[i] = file[i]
        BY <2>1, PruneDeliveredType, WithoutKeeps DEF TypeOK
      <3>2. PICK E \in SUBSET Ids : file = Without(item, E)
        BY DEF PruneDelivered, WithStatus
      <3> QED
        BY <3>1, <3>2, WithoutKeeps DEF TypeOK
    <2> QED
      BY <1>1, <2>2, <2>3 DEF Prune, TypeOK, AttemptsLeft, Pending, bot, chat
  <1>2. ASSUME NEW w \in Workers, PullLost(w) PROVE TypeInv'
    BY <1>2, LeaseType DEF PullLost, TypeOK, bot, chat
  <1>3. ASSUME NEW i \in Ids, LeaseExpires(i) \/ BackoffElapses(i) \/ WindowCloses(i)
        PROVE  TypeInv'
    <2>1. item[i] \in Item
      BY DEF TypeOK
    <2>2. /\ [item[i] EXCEPT !.live = FALSE] \in Item
          /\ [item[i] EXCEPT !.due = TRUE] \in Item
          /\ [item[i] EXCEPT !.fresh = FALSE] \in Item
      BY <2>1 DEF Item
    <2>3. item' \in [Ids -> Item]
      BY <1>3, <2>2 DEF LeaseExpires, BackoffElapses, WindowCloses, TypeOK
    <2>4. /\ item'[i].status = item[i].status /\ item'[i].attempts = item[i].attempts
          /\ \A j \in Ids : j # i => item'[j] = item[j]
      <3>1. CASE LeaseExpires(i)
        BY <2>1, <3>1 DEF LeaseExpires, TypeOK, Item
      <3>2. CASE BackoffElapses(i)
        BY <2>1, <3>2 DEF BackoffElapses, TypeOK, Item
      <3>3. CASE WindowCloses(i)
        BY <2>1, <3>3 DEF WindowCloses, TypeOK, Item
      <3> QED
        BY <1>3, <3>1, <3>2, <3>3
    <2>5. AttemptsLeft'
      BY <2>4 DEF AttemptsLeft, Pending
    <2> QED
      BY <1>3, <2>3, <2>5 DEF LeaseExpires, BackoffElapses, WindowCloses, TypeOK, bot, chat
  <1> QED
    BY <1>1, <1>2, <1>3

LEMMA TypeWorker ==
    ASSUME TypeInv, NEW w \in Workers,
           \/ Start(w) \/ Crash(w)
           \/ \E k \in Keys : ForgetProgress(w, k)
           \/ \E i \in Ids : ForgetReceipt(w, i)
    PROVE  TypeInv'
  <1> USE DEF TypeInv
  <1>1. CASE Start(w)
    BY <1>1 DEF Start, TypeOK, AttemptsLeft, Pending, Phases, store, chat
  <1>2. CASE Crash(w)
    BY <1>2 DEF Crash, TypeOK, AttemptsLeft, Pending, Phases, NoResult, NoEntry, Outcomes, store
  <1>3. ASSUME NEW k \in Keys, ForgetProgress(w, k) PROVE TypeInv'
    BY <1>3 DEF ForgetProgress, TypeOK, AttemptsLeft, Pending, store, chat
  <1>4. ASSUME NEW i \in Ids, ForgetReceipt(w, i) PROVE TypeInv'
    BY <1>4 DEF ForgetReceipt, TypeOK, AttemptsLeft, Pending, store, chat
  <1> QED
    BY <1>1, <1>2, <1>3, <1>4

LEMMA TypePull ==
    ASSUME TypeInv, NEW w \in Workers, Pull(w)
    PROVE  TypeInv'
  <1> USE DEF TypeInv
  <1>1. item' \in [Ids -> Item] /\ AttemptsLeft'
    BY LeaseType DEF Pull
  <1>2. {[id |-> i, text |-> item[i].text] : i \in Pulled} \subseteq Copy
    <2>1. \A i \in Ids : item[i].text \in Texts \cup {Blank}
      BY DEF TypeOK, Item
    <2>2. Pulled \subseteq Ids
      BY DEF Pulled
    <2> QED
      BY <2>1, <2>2
  <1> QED
    BY <1>1, <1>2 DEF Pull, TypeOK, Phases, chat

LEMMA TypeDeliver ==
    ASSUME TypeInv, NEW w \in Workers, Deliver(w)
    PROVE  TypeInv'
  <1> USE DEF TypeInv
  <1>1. PICK m \in batch[w] :
           /\ IsHead(w, m)
           /\ \/ DeliverFromReceipt(w, m) \/ DeliverControl(w, m) \/ DeliverPlain(w, m)
              \/ DeliveryFails(w, m) \/ ReplaceSameText(w, m) \/ ReplaceWritten(w, m)
              \/ ReplaceAppliedUnseen(w, m) \/ ReplaceNotModified(w, m)
    BY DEF Deliver
  <1>2. m \in Copy
    BY <1>1 DEF TypeOK
  <1>3. (Kind(m) = "replace" => m.text \in Texts \cup {Blank}) /\ m.id \in Ids
    BY <1>2
  <1>4. ASSUME NEW outcome \in {"ok", "failed"}, Returned(w, m, outcome)
        PROVE  /\ item' = item /\ nextId' = nextId /\ newest' = newest /\ backlog' = backlog
               /\ pc' \in [Workers -> Phases]
               /\ batch' \in [Workers -> SUBSET Copy]
               /\ results' \in [Workers -> [Ids -> Outcomes]]
               /\ receipts' \in [Workers -> SUBSET Ids]
    BY <1>3, <1>4 DEF Returned, TypeOK, Phases, Outcomes, store
  <1>5. ASSUME Acknowledged(w, m)
        PROVE  acks' \subseteq Copy /\ mine' \in [Workers -> SUBSET Ids] /\ repeats' \subseteq Ids
    BY <1>2, <1>3, <1>5 DEF Acknowledged, TypeOK
  <1>6. CASE DeliverFromReceipt(w, m) \/ DeliveryFails(w, m)
    BY <1>4, <1>6 DEF DeliverFromReceipt, DeliveryFails, TypeOK, AttemptsLeft, Pending, chat
  <1>7. CASE DeliverControl(w, m)
    BY <1>4, <1>5, <1>7 DEF DeliverControl, TypeOK, AttemptsLeft, Pending
  <1>8. CASE DeliverPlain(w, m) \/ ReplaceSameText(w, m) \/ ReplaceNotModified(w, m)
    BY <1>4, <1>5, <1>8
    DEF DeliverPlain, ReplaceSameText, ReplaceNotModified, TypeOK, AttemptsLeft, Pending
  <1>9. CASE ReplaceWritten(w, m)
    BY <1>2, <1>4, <1>5, <1>9 DEF ReplaceWritten, Show, TypeOK, AttemptsLeft, Pending
  <1>10. CASE ReplaceAppliedUnseen(w, m)
    <2>1. m.text \in Texts \cup {Blank}
      BY <1>2
    <2>2. actual' \in [Workers -> [Keys -> Texts \cup {Blank}]]
      <3>1. CASE actual' = actual
        BY <3>1 DEF TypeOK
      <3>2. CASE actual' = [actual EXCEPT ![w][Key(m)] = m.text]
        BY <2>1, <3>2 DEF TypeOK
      <3> QED
        BY <1>10, <3>1, <3>2 DEF ReplaceAppliedUnseen
    <2>3. screen' \in [Keys -> Texts \cup {Blank}]
      BY <1>10, <2>1 DEF ReplaceAppliedUnseen, Show, TypeOK
    <2> QED
      BY <1>4, <1>10, <2>2, <2>3 DEF ReplaceAppliedUnseen, TypeOK, AttemptsLeft, Pending
  <1> QED
    BY <1>1, <1>6, <1>7, <1>8, <1>9, <1>10

LEMMA TypeReport ==
    ASSUME TypeInv, NEW w \in Workers, ReportAcked(w) \/ ReportAckLost(w) \/ ReportLost(w)
    PROVE  TypeInv'
  <1> USE DEF TypeInv
  <1>1. Payload(w) \in [Ids -> Outcomes] /\ NoResult \in [Ids -> Outcomes]
    <2>1. NoResult \in [Ids -> Outcomes]
      BY DEF NoResult, Outcomes
    <2>2. results[w] \in [Ids -> Outcomes] /\ backlog[w] \in [Ids -> Outcomes]
      BY DEF TypeOK
    <2> QED
      BY <2>1, <2>2 DEF Payload
  <1>2. Merged(w) \in [Ids -> Outcomes]
    <2>1. backlog[w] \in [Ids -> Outcomes]
      BY DEF TypeOK
    <2> QED
      BY <1>1, <2>1 DEF Merged
  <1>3. ASSUME HandleReport(w)
        PROVE  item' \in [Ids -> Item] /\ AttemptsLeft' /\ nextId' = nextId /\ newest' = newest
    <2>1. item' \in PruneDelivered(Settled(w)) /\ Settled(w) \in [Ids -> Item]
      BY <1>3, SettledType DEF HandleReport
    <2>2. item' \in [Ids -> Item]
      BY <2>1, PruneDeliveredType
    <2>3. \A i \in Ids : item'[i].status = "pending" => item'[i] = Settled(w)[i]
      BY <2>1, ZenonT(60) DEF PruneDelivered, Without, Item
    <2>4. \A i \in Ids : Settled(w)[i].status = "pending" => Settled(w)[i].attempts < MaxAttempts
      BY BoundsAssumption
      DEF Settled, Delivered, Failed, Accepts, AttemptsLeft, Pending, TypeOK, Item
    <2> QED
      BY <1>3, <2>2, <2>3, <2>4 DEF HandleReport, AttemptsLeft, Pending
  <1>4. CASE ReportAcked(w)
    BY <1>1, <1>3, <1>4 DEF ReportAcked, Reported, TypeOK, Phases, chat
  <1>5. CASE ReportAckLost(w)
    BY <1>1, <1>2, <1>3, <1>5 DEF ReportAckLost, Reported, TypeOK, Phases, chat
  <1>6. CASE ReportLost(w)
    BY <1>1, <1>2, <1>6 DEF ReportLost, Reported, TypeOK, Phases, AttemptsLeft, Pending, store, chat
  <1> QED
    BY <1>4, <1>5, <1>6

LEMMA TypeStep == TypeInv /\ [Next]_vars => TypeInv'
  <1> SUFFICES ASSUME TypeInv, [Next]_vars PROVE TypeInv'
    OBVIOUS
  <1>1. CASE Next
    BY <1>1, TypeEnqueue, TypeStore, TypeWorker, TypePull, TypeDeliver, TypeReport DEF Next
  <1>2. CASE UNCHANGED vars
    BY <1>2 DEF TypeInv, TypeOK, AttemptsLeft, Pending, vars, store, bot, chat
  <1> QED
    BY <1>1, <1>2

(* Every variable keeps its type, and a waiting item always has an attempt *)
(* left (computeBackoffMs and OUTBOX_MAX_ATTEMPTS in store.report).        *)
THEOREM TypeCorrect == Spec => [](TypeOK /\ AttemptsLeft)
  BY TypeInit, TypeStep, PTL DEF Spec, TypeInv

-----------------------------------------------------------------------------
(* What was shown, and which snapshot survives *)

LEMMA DeliveryInit == Init => DeliveryInv
  <1> SUFFICES ASSUME Init PROVE DeliveryInv
    OBVIOUS
  <1>1. \A i \in Ids : item[i].status = "unused"
    BY DEF Init, Unused, NewItem
  <1>2. \A w \in Workers : \A i \in Ids : /\ results[w][i] = "none" /\ backlog[w][i] = "none"
                                          /\ i \notin receipts[w] /\ batch[w] = {}
    BY DEF Init, NoResult
  <1>3. IdsInOrder /\ CopiesFaithful /\ SuccessesAcked
    BY <1>1, <1>2 DEF Init, IdsInOrder, CopiesFaithful, SuccessesAcked
  <1>4. DeliveredWasShown /\ NewestSnapshotKept
    BY <1>1 DEF Init, DeliveredWasShown, NewestSnapshotKept
  <1> QED
    BY <1>3, <1>4 DEF DeliveryInv

(* A step that keeps what every item says, and which items were appended   *)
(* or superseded.                                                          *)
SameContent(x, y) ==
    /\ x.kind = y.kind /\ x.key = y.key /\ x.text = y.text
    /\ x.status = "unused" <=> y.status = "unused"
    /\ x.status = "superseded" <=> y.status = "superseded"

KeepsContent == \A i \in Ids : SameContent(item'[i], item[i])

(* Such a step keeps every acknowledgement valid and the newest snapshot   *)
(* in the file.                                                            *)
LEMMA ContentKept ==
    ASSUME TypeInv, DeliveryInv, KeepsContent, acks \subseteq acks',
           nextId' = nextId, newest' = newest
    PROVE  /\ \A i \in Ids : Acked(i) => Acked(i)'
           /\ \A i \in Ids : item'[i].status # "unused" <=> i < nextId'
           /\ NewestSnapshotKept'
  BY DEF KeepsContent, SameContent, DeliveryInv, Acked, IdsInOrder, NewestSnapshotKept

(* Steps of the store that touch no worker and deliver nothing. *)
LEMMA StoreKeeps ==
    ASSUME TypeInv, DeliveryInv, KeepsContent, UNCHANGED <<nextId, newest, bot, chat>>,
           \A i \in Ids : item'[i].status = "delivered" => item[i].status = "delivered"
    PROVE  DeliveryInv'
  <1>1. \A i \in Ids : Acked(i) => Acked(i)'
    BY ContentKept DEF chat
  <1>2. IdsInOrder' /\ NewestSnapshotKept'
    BY ContentKept DEF DeliveryInv, IdsInOrder, bot, chat
  <1>3. CopiesFaithful'
    <2>1. ASSUME NEW w \in Workers, NEW m \in batch[w]
          PROVE  m.id \in Ids
      BY DEF TypeInv, TypeOK
    <2> QED
      BY <2>1 DEF DeliveryInv, CopiesFaithful, KeepsContent, SameContent, bot
  <1>4. SuccessesAcked'
    BY <1>1 DEF DeliveryInv, SuccessesAcked, bot
  <1>5. DeliveredWasShown'
    BY <1>1 DEF DeliveryInv, DeliveredWasShown, Acked
  <1> QED
    BY <1>2, <1>3, <1>4, <1>5 DEF DeliveryInv

LEMMA WithoutContent ==
    ASSUME NEW file \in [Ids -> Item], NEW S \in {"delivered", "dead"},
           NEW D \in SUBSET WithStatus(file, S), NEW i \in Ids
    PROVE  /\ SameContent(Without(file, D)[i], file[i])
           /\ Without(file, D)[i].status = "delivered" => file[i].status = "delivered"
  <1>1. file[i] \in Item
    OBVIOUS
  <1>2. i \in D => file[i].status = S
    BY DEF WithStatus
  <1> QED
    BY <1>1, <1>2 DEF Without, Item, SameContent

LEMMA PruneDeliveredContent ==
    ASSUME NEW file \in [Ids -> Item], NEW pruned \in PruneDelivered(file), NEW i \in Ids
    PROVE  /\ SameContent(pruned[i], file[i])
           /\ pruned[i].status = "delivered" => file[i].status = "delivered"
  <1>1. PICK D \in SUBSET WithStatus(file, "delivered") : pruned = Without(file, D)
    BY DEF PruneDelivered
  <1> QED
    BY <1>1, WithoutContent

LEMMA LeaseContent ==
    ASSUME TypeInv, NEW w \in Workers, item' = Lease(w)
    PROVE  KeepsContent /\ \A i \in Ids : item'[i].status = item[i].status
  <1>1. ASSUME NEW i \in Ids
        PROVE  /\ item'[i].kind = item[i].kind /\ item'[i].key = item[i].key
               /\ item'[i].text = item[i].text /\ item'[i].status = item[i].status
    <2>1. item[i] \in Item
      BY DEF TypeInv, TypeOK
    <2> QED
      BY <2>1 DEF Lease, Item
  <1> QED
    BY <1>1 DEF KeepsContent, SameContent

LEMMA DeliveryStore ==
    ASSUME TypeInv, DeliveryInv,
           \/ Prune
           \/ \E w \in Workers : PullLost(w)
           \/ \E i \in Ids : LeaseExpires(i) \/ BackoffElapses(i) \/ WindowCloses(i)
    PROVE  DeliveryInv'
  <1>1. CASE Prune
    <2>1. PICK file \in PruneDelivered(item) :
             \E D \in SUBSET WithStatus(file, "dead") : item' = Without(file, D)
      BY <1>1 DEF Prune
    <2>2. PICK D \in SUBSET WithStatus(file, "dead") : item' = Without(file, D)
      BY <2>1
    <2>3. file \in [Ids -> Item]
      BY PruneDeliveredType DEF TypeInv, TypeOK
    <2>4. ASSUME NEW i \in Ids
          PROVE  /\ SameContent(item'[i], item[i])
                 /\ item'[i].status = "delivered" => item[i].status = "delivered"
      <3>1. /\ SameContent(file[i], item[i])
            /\ file[i].status = "delivered" => item[i].status = "delivered"
        BY PruneDeliveredContent DEF TypeInv, TypeOK
      <3>2. /\ SameContent(item'[i], file[i])
            /\ item'[i].status = "delivered" => file[i].status = "delivered"
        BY <2>2, <2>3, WithoutContent
      <3> QED
        BY <3>1, <3>2 DEF SameContent
    <2> QED
      BY <1>1, <2>4, StoreKeeps DEF Prune, KeepsContent
  <1>2. ASSUME NEW w \in Workers, PullLost(w) PROVE DeliveryInv'
    BY <1>2, LeaseContent, StoreKeeps DEF PullLost
  <1>3. ASSUME NEW i \in Ids, LeaseExpires(i) \/ BackoffElapses(i) \/ WindowCloses(i)
        PROVE  DeliveryInv'
    <2>1. ASSUME NEW j \in Ids
          PROVE  /\ item'[j].kind = item[j].kind /\ item'[j].key = item[j].key
                 /\ item'[j].text = item[j].text /\ item'[j].status = item[j].status
      <3>1. item[j] \in Item
        BY DEF TypeInv, TypeOK
      <3>2. CASE LeaseExpires(i)
        BY <3>1, <3>2 DEF LeaseExpires, TypeInv, TypeOK, Item
      <3>3. CASE BackoffElapses(i)
        BY <3>1, <3>3 DEF BackoffElapses, TypeInv, TypeOK, Item
      <3>4. CASE WindowCloses(i)
        BY <3>1, <3>4 DEF WindowCloses, TypeInv, TypeOK, Item
      <3> QED
        BY <1>3, <3>2, <3>3, <3>4
    <2>2. KeepsContent /\ \A j \in Ids : item'[j].status = item[j].status
      BY <2>1 DEF KeepsContent, SameContent
    <2> QED
      BY <1>3, <2>2, StoreKeeps DEF LeaseExpires, BackoffElapses, WindowCloses
  <1> QED
    BY <1>1, <1>2, <1>3

LEMMA DeliveryWorker ==
    ASSUME TypeInv, DeliveryInv, NEW w \in Workers,
           \/ Start(w) \/ Crash(w)
           \/ \E k \in Keys : ForgetProgress(w, k)
           \/ \E i \in Ids : ForgetReceipt(w, i)
    PROVE  DeliveryInv'
  <1> DEFINE Shrinks ==
        /\ item' = item /\ nextId' = nextId /\ newest' = newest /\ acks' = acks
        /\ \A v \in Workers : \A i \in Ids :
              /\ results'[v][i] = "ok" => results[v][i] = "ok"
              /\ backlog'[v][i] = "ok" => backlog[v][i] = "ok"
              /\ i \in receipts'[v] => i \in receipts[v]
        /\ \A v \in Workers : batch'[v] \subseteq batch[v]
  <1>1. Shrinks
    <2>1. CASE Start(w)
      BY <2>1 DEF Start, store, chat
    <2>2. CASE Crash(w)
      BY <2>2 DEF Crash, store, NoResult, TypeInv, TypeOK
    <2>3. ASSUME NEW k \in Keys, ForgetProgress(w, k) PROVE Shrinks
      BY <2>3 DEF ForgetProgress, store, chat
    <2>4. ASSUME NEW i \in Ids, ForgetReceipt(w, i) PROVE Shrinks
      BY <2>4 DEF ForgetReceipt, store, chat, TypeInv, TypeOK
    <2> QED
      BY <2>1, <2>2, <2>3, <2>4
  <1>2. IdsInOrder' /\ CopiesFaithful'
    BY <1>1 DEF DeliveryInv, IdsInOrder, CopiesFaithful
  <1>3. SuccessesAcked' /\ DeliveredWasShown' /\ NewestSnapshotKept'
    BY <1>1 DEF DeliveryInv, SuccessesAcked, Acked, DeliveredWasShown, NewestSnapshotKept
  <1> QED
    BY <1>2, <1>3 DEF DeliveryInv

LEMMA DeliveryPull ==
    ASSUME TypeInv, DeliveryInv, NEW w \in Workers, Pull(w)
    PROVE  DeliveryInv'
  <1>1. KeepsContent /\ \A i \in Ids : item'[i].status = item[i].status
    BY LeaseContent DEF Pull
  <1>2. /\ \A i \in Ids : Acked(i) => Acked(i)'
        /\ \A i \in Ids : item'[i].status # "unused" <=> i < nextId'
        /\ NewestSnapshotKept'
    BY <1>1, ContentKept DEF Pull, chat
  <1>3. ASSUME NEW v \in Workers, NEW m \in batch'[v]
        PROVE  /\ m.id \in Ids /\ m.id < nextId'
               /\ item'[m.id].kind # "replace" => m.text = item'[m.id].text
    <2>1. CASE m \in batch[v]
      <3>1. m.id \in Ids
        BY <2>1 DEF TypeInv, TypeOK
      <3>2. m.id < nextId /\ (item[m.id].kind # "replace" => m.text = item[m.id].text)
        BY <2>1 DEF DeliveryInv, IdsInOrder, CopiesFaithful
      <3> QED
        BY <1>1, <3>1, <3>2 DEF Pull, KeepsContent, SameContent
    <2>2. CASE m \notin batch[v]
      <3>1. v = w /\ m \in {[id |-> i, text |-> item[i].text] : i \in Pulled}
        BY <1>3, <2>2 DEF Pull, TypeInv, TypeOK
      <3>2. PICK i \in Pulled : m = [id |-> i, text |-> item[i].text]
        BY <3>1
      <3>3. i \in Ids /\ item[i].status = "pending"
        BY DEF Pulled, Available, Pending
      <3> QED
        BY <1>1, <3>2, <3>3
        DEF Pull, DeliveryInv, IdsInOrder, KeepsContent, SameContent
    <2> QED
      BY <2>1, <2>2
  <1>4. IdsInOrder' /\ CopiesFaithful'
    BY <1>2, <1>3 DEF IdsInOrder, CopiesFaithful, DeliveryInv, Pull, chat
  <1>5. SuccessesAcked' /\ DeliveredWasShown'
    BY <1>1, <1>2 DEF DeliveryInv, SuccessesAcked, DeliveredWasShown, Acked, Pull
  <1> QED
    BY <1>2, <1>4, <1>5 DEF DeliveryInv

LEMMA DeliveryDeliver ==
    ASSUME TypeInv, DeliveryInv, NEW w \in Workers, Deliver(w)
    PROVE  DeliveryInv'
  <1>1. PICK m \in batch[w] :
           \/ DeliverFromReceipt(w, m) \/ DeliverControl(w, m) \/ DeliverPlain(w, m)
           \/ DeliveryFails(w, m) \/ ReplaceSameText(w, m) \/ ReplaceWritten(w, m)
           \/ ReplaceAppliedUnseen(w, m) \/ ReplaceNotModified(w, m)
    BY DEF Deliver
  <1>2. /\ m.id \in Ids /\ m.id < nextId
        /\ item[m.id].kind # "replace" => m.text = item[m.id].text
    BY DEF DeliveryInv, IdsInOrder, CopiesFaithful, TypeInv, TypeOK
  <1>3. \/ DeliverFromReceipt(w, m)
        \/ acks' = acks /\ Returned(w, m, "failed")
        \/ acks' = acks \cup {m} /\ Returned(w, m, "ok")
    BY <1>1 DEF DeliverControl, DeliverPlain, DeliveryFails, ReplaceSameText, ReplaceWritten,
                ReplaceAppliedUnseen, ReplaceNotModified, Acknowledged, chat
  <1>4. \E outcome \in {"ok", "failed"} : Returned(w, m, outcome)
    BY <1>3 DEF DeliverFromReceipt
  <1>5. item' = item /\ nextId' = nextId /\ newest' = newest /\ backlog' = backlog
    BY <1>4 DEF Returned, store
  <1>6. acks \subseteq acks' /\ \A a \in acks' : a.id < nextId
    BY <1>2, <1>3 DEF DeliverFromReceipt, chat, DeliveryInv, IdsInOrder
  <1>7. \A i \in Ids : Acked(i) => Acked(i)'
    BY <1>5, <1>6 DEF Acked
  <1>8. IdsInOrder' /\ CopiesFaithful'
    BY <1>4, <1>5, <1>6 DEF Returned, DeliveryInv, IdsInOrder, CopiesFaithful, TypeInv, TypeOK
  <1>9. ASSUME NEW v \in Workers, NEW i \in Ids,
               results'[v][i] = "ok" \/ backlog'[v][i] = "ok" \/ i \in receipts'[v]
        PROVE  Acked(i)'
    <2>1. CASE results[v][i] = "ok" \/ backlog[v][i] = "ok" \/ i \in receipts[v]
      BY <1>7, <2>1 DEF DeliveryInv, SuccessesAcked
    <2>2. CASE ~(results[v][i] = "ok" \/ backlog[v][i] = "ok" \/ i \in receipts[v])
      <3>1. v = w /\ i = m.id /\ Returned(w, m, "ok")
        BY <1>3, <1>4, <1>5, <1>9, <2>2 DEF Returned, DeliverFromReceipt, TypeInv, TypeOK
      <3>2. m \in acks'
        BY <1>3, <2>2, <3>1 DEF DeliverFromReceipt, Returned, TypeInv, TypeOK
      <3> QED
        BY <1>2, <1>5, <3>1, <3>2 DEF Acked
    <2> QED
      BY <2>1, <2>2
  <1>10. SuccessesAcked'
    BY <1>9 DEF SuccessesAcked
  <1>11. DeliveredWasShown' /\ NewestSnapshotKept'
    BY <1>5, <1>6 DEF DeliveryInv, DeliveredWasShown, NewestSnapshotKept
  <1> QED
    BY <1>8, <1>10, <1>11 DEF DeliveryInv

LEMMA SettledContent ==
    ASSUME TypeInv, NEW w \in Workers, NEW i \in Ids
    PROVE  /\ SameContent(Settled(w)[i], item[i])
           /\ Settled(w)[i].status = "delivered" =>
                 item[i].status = "delivered" \/ Payload(w)[i] = "ok"
  <1>1. item[i] \in Item
    BY DEF TypeInv, TypeOK
  <1>2. CASE ~Accepts(w, i)
    BY <1>1, <1>2 DEF Settled, SameContent
  <1>3. CASE Accepts(w, i) /\ Payload(w)[i] = "ok"
    BY <1>1, <1>3 DEF Settled, Delivered, SameContent, Item, Accepts, Pending
  <1>4. CASE Accepts(w, i) /\ Payload(w)[i] # "ok"
    BY <1>1, <1>4 DEF Settled, Failed, SameContent, Item, Accepts, Pending
  <1> QED
    BY <1>2, <1>3, <1>4

LEMMA DeliveryReport ==
    ASSUME TypeInv, DeliveryInv, NEW w \in Workers,
           ReportAcked(w) \/ ReportAckLost(w) \/ ReportLost(w)
    PROVE  DeliveryInv'
  <1>1. \A i \in Ids : Payload(w)[i] = "ok" => Acked(i)
    BY DEF Payload, NoResult, DeliveryInv, SuccessesAcked
  <1>2. /\ KeepsContent /\ nextId' = nextId /\ newest' = newest
        /\ \A i \in Ids : item'[i].status = "delivered" =>
              item[i].status = "delivered" \/ Payload(w)[i] = "ok"
    <2>1. CASE ReportLost(w)
      BY <2>1 DEF ReportLost, store, KeepsContent, SameContent
    <2>2. CASE HandleReport(w)
      <3>1. item' \in PruneDelivered(Settled(w)) /\ Settled(w) \in [Ids -> Item]
        BY <2>2, SettledType DEF HandleReport, TypeInv
      <3>2. ASSUME NEW i \in Ids
            PROVE  /\ SameContent(item'[i], item[i])
                   /\ item'[i].status = "delivered" =>
                         item[i].status = "delivered" \/ Payload(w)[i] = "ok"
        <4>1. /\ SameContent(item'[i], Settled(w)[i])
              /\ item'[i].status = "delivered" => Settled(w)[i].status = "delivered"
          BY <3>1, PruneDeliveredContent
        <4> QED
          BY <4>1, SettledContent DEF SameContent
      <3> QED
        BY <2>2, <3>2 DEF HandleReport, KeepsContent
    <2> QED
      BY <2>1, <2>2 DEF ReportAcked, ReportAckLost
  <1>3. batch' = batch /\ acks' = acks
    BY DEF ReportAcked, ReportAckLost, ReportLost, Reported, chat
  <1>4. /\ \A i \in Ids : Acked(i) => Acked(i)'
        /\ \A i \in Ids : item'[i].status # "unused" <=> i < nextId'
        /\ NewestSnapshotKept'
    BY <1>2, <1>3, ContentKept
  <1>5. IdsInOrder' /\ CopiesFaithful'
    <2>1. ASSUME NEW v \in Workers, NEW m \in batch[v]
          PROVE  m.id \in Ids
      BY DEF TypeInv, TypeOK
    <2> QED
      BY <1>2, <1>3, <1>4, <2>1
      DEF DeliveryInv, IdsInOrder, CopiesFaithful, KeepsContent, SameContent
  <1>6. DeliveredWasShown'
    <2>1. \A i \in Ids : item'[i].status = "delivered" => Acked(i)
      BY <1>1, <1>2 DEF DeliveryInv, DeliveredWasShown, Acked
    <2> QED
      BY <1>4, <2>1 DEF DeliveredWasShown, Acked
  <1>7. ASSUME NEW v \in Workers, NEW i \in Ids,
               results'[v][i] = "ok" \/ backlog'[v][i] = "ok" \/ i \in receipts'[v]
        PROVE  Acked(i)
    <2>1. \/ results[v][i] = "ok" \/ backlog[v][i] = "ok" \/ i \in receipts[v]
          \/ Payload(w)[i] = "ok"
      <3>1. NoResult[i] # "ok" /\ NoResult \in [Ids -> Outcomes]
        BY DEF NoResult, Outcomes
      <3>2. results' = [results EXCEPT ![w] = NoResult]
        BY DEF ReportAcked, ReportAckLost, ReportLost, Reported
      <3>3. /\ backlog' = [backlog EXCEPT ![w] = NoResult] \/ backlog' = [backlog EXCEPT ![w] = Merged(w)]
            /\ Merged(w)[i] = "ok" => Payload(w)[i] = "ok" \/ backlog[w][i] = "ok"
        BY DEF ReportAcked, ReportAckLost, ReportLost, Merged
      <3>4. i \in receipts'[v] => i \in receipts[v]
        BY ZenonT(60) DEF ReportAcked, ReportAckLost, ReportLost, TypeInv, TypeOK
      <3> QED
        BY <1>7, <3>1, <3>2, <3>3, <3>4 DEF TypeInv, TypeOK
    <2> QED
      BY <1>1, <2>1 DEF DeliveryInv, SuccessesAcked
  <1>8. SuccessesAcked'
    BY <1>4, <1>7 DEF SuccessesAcked
  <1> QED
    BY <1>4, <1>5, <1>6, <1>8 DEF DeliveryInv

(* Appending leaves everything alone that was known before. *)
LEMMA DeliveryAppend ==
    ASSUME TypeInv, DeliveryInv, NEW kind \in Kinds, NEW key \in Keys \cup {NoKey},
           NEW text \in Texts \cup {Blank}, AppendItem(kind, key, text),
           \/ newest' = newest
           \/ /\ kind = "replace" /\ key \in Keys
              /\ newest' = [newest EXCEPT ![key] = text]
    PROVE  DeliveryInv'
  <1>1. nextId \in Ids /\ nextId' = nextId + 1
    BY BoundsAssumption DEF AppendItem, TypeInv, TypeOK
  <1>2. /\ item'[nextId] = NewItem(kind, key, text)
        /\ \A i \in Ids : i # nextId => item'[i] = item[i]
    BY <1>1 DEF AppendItem, TypeInv, TypeOK
  <1>3. \A i \in Ids : Acked(i) => i # nextId
    BY <1>1 DEF Acked, DeliveryInv, IdsInOrder
  <1>4. \A i \in Ids : Acked(i) => Acked(i)'
    BY <1>2, <1>3 DEF Acked, AppendItem, chat
  <1>5. IdsInOrder' /\ CopiesFaithful'
    <2>1. ASSUME NEW v \in Workers, NEW m \in batch[v]
          PROVE  m.id \in Ids /\ m.id < nextId
      BY DEF TypeInv, TypeOK, DeliveryInv, IdsInOrder
    <2>2. \A a \in acks : a.id \in Ids /\ a.id < nextId
      BY DEF TypeInv, TypeOK, DeliveryInv, IdsInOrder
    <2>3. \A i \in Ids : item'[i].status # "unused" <=> i < nextId'
      <3>1. nextId \in Nat /\ \A i \in Ids : i \in Nat
        BY <1>1
      <3>2. item'[nextId].status = "pending"
        BY <1>2 DEF NewItem
      <3> QED
        BY <1>1, <1>2, <3>1, <3>2 DEF DeliveryInv, IdsInOrder
    <2>4. CopiesFaithful'
      BY <1>1, <1>2, <2>1 DEF AppendItem, bot, DeliveryInv, CopiesFaithful
    <2>5. IdsInOrder'
      BY <1>1, <2>1, <2>2, <2>3 DEF AppendItem, bot, chat, IdsInOrder
    <2> QED
      BY <2>4, <2>5
  <1>6. SuccessesAcked'
    BY <1>4 DEF AppendItem, bot, DeliveryInv, SuccessesAcked
  <1>7. DeliveredWasShown'
    <2>1. \A i \in Ids : item'[i].status = "delivered" => Acked(i)
      BY <1>2 DEF NewItem, DeliveryInv, DeliveredWasShown, Acked
    <2> QED
      BY <1>4, <2>1 DEF DeliveredWasShown, Acked
  <1>8. NewestSnapshotKept'
    <2> SUFFICES ASSUME NEW k \in Keys, newest'[k] # 0
                 PROVE  \E i \in Ids : /\ item'[i].kind = "replace" /\ item'[i].key = k
                                       /\ item'[i].text = newest'[k]
                                       /\ item'[i].status \notin {"unused", "superseded"}
      BY DEF NewestSnapshotKept
    <2>1. CASE newest'[k] = newest[k]
      BY <1>1, <1>2, <2>1 DEF DeliveryInv, NewestSnapshotKept, IdsInOrder
    <2>2. CASE newest'[k] # newest[k]
      <3>1. kind = "replace" /\ key = k /\ newest'[k] = text
        BY <2>2 DEF TypeInv, TypeOK
      <3> QED
        BY <1>1, <1>2, <3>1 DEF NewItem
    <2> QED
      BY <2>1, <2>2
  <1> QED
    BY <1>5, <1>6, <1>7, <1>8 DEF DeliveryInv

LEMMA DeliveryCoalesce ==
    ASSUME TypeInv, DeliveryInv, NEW k \in Keys, CoalesceSnapshot(k)
    PROVE  DeliveryInv'
  <1>1. PICK i \in Ids : FirstInSlot(i, k) /\ item' = Coalesce(k, i)
    BY DEF CoalesceSnapshot
  <1>2. UNCHANGED <<nextId, bot, chat>> /\ newest' = [newest EXCEPT ![k] = @ + 1]
    BY DEF CoalesceSnapshot, PublishSnapshot
  <1>3. ASSUME NEW j \in Ids
        PROVE  /\ item'[j].kind = item[j].kind /\ item'[j].key = item[j].key
               /\ item[j].kind # "replace" => item'[j] = item[j]
               /\ item'[j].status = "unused" <=> item[j].status = "unused"
               /\ item'[j].status = "delivered" => item[j].status = "delivered"
               /\ item[j].key # k => item'[j] = item[j]
               /\ j = i => item'[j].text = newest[k] + 1 /\ item'[j].status = "pending"
    <2>1. item[j] \in Item
      BY DEF TypeInv, TypeOK
    <2> QED
      BY <1>1, <2>1 DEF Coalesce, FirstInSlot, InSlot, Pending, Item
  <1>4. \A j \in Ids : Acked(j) => Acked(j)'
    BY <1>2, <1>3 DEF Acked, chat
  <1>5. IdsInOrder' /\ CopiesFaithful'
    <2>1. ASSUME NEW v \in Workers, NEW m \in batch[v]
          PROVE  m.id \in Ids
      BY DEF TypeInv, TypeOK
    <2> QED
      BY <1>2, <1>3, <2>1 DEF DeliveryInv, IdsInOrder, CopiesFaithful, bot, chat
  <1>6. SuccessesAcked'
    BY <1>2, <1>4 DEF DeliveryInv, SuccessesAcked, bot
  <1>7. DeliveredWasShown'
    <2>1. \A j \in Ids : item'[j].status = "delivered" => Acked(j)
      BY <1>3 DEF DeliveryInv, DeliveredWasShown, Acked
    <2> QED
      BY <1>4, <2>1 DEF DeliveredWasShown, Acked
  <1>8. NewestSnapshotKept'
    <2> SUFFICES ASSUME NEW l \in Keys, newest'[l] # 0
                 PROVE  \E j \in Ids : /\ item'[j].kind = "replace" /\ item'[j].key = l
                                       /\ item'[j].text = newest'[l]
                                       /\ item'[j].status \notin {"unused", "superseded"}
      BY DEF NewestSnapshotKept
    <2>1. CASE l = k
      <3>1. newest'[k] = newest[k] + 1
        BY <1>2 DEF TypeInv, TypeOK
      <3>2. item[i].kind = "replace" /\ item[i].key = k
        BY <1>1 DEF FirstInSlot, InSlot
      <3> QED
        BY <1>3, <2>1, <3>1, <3>2
    <2>2. CASE l # k
      <3>1. newest'[l] = newest[l]
        BY <1>2, <2>2 DEF TypeInv, TypeOK
      <3>2. PICK j \in Ids : /\ item[j].kind = "replace" /\ item[j].key = l
                             /\ item[j].text = newest[l]
                             /\ item[j].status \notin {"unused", "superseded"}
        BY <3>1 DEF DeliveryInv, NewestSnapshotKept
      <3> QED
        BY <1>3, <2>2, <3>1, <3>2
    <2> QED
      BY <2>1, <2>2
  <1> QED
    BY <1>5, <1>6, <1>7, <1>8 DEF DeliveryInv

LEMMA DeliveryEnqueue ==
    ASSUME TypeInv, DeliveryInv, Enqueue
    PROVE  DeliveryInv'
  <1>1. ASSUME NEW t \in PlainTexts, EnqueueText(t) \/ EnqueueMedia(t)
        PROVE  DeliveryInv'
    BY <1>1, DeliveryAppend, BoundsAssumption DEF EnqueueText, EnqueueMedia, Kinds
  <1>2. ASSUME NEW action \in Controls, EnqueueControl(action)
        PROVE  DeliveryInv'
    BY <1>2, DeliveryAppend DEF EnqueueControl, Kinds, Controls
  <1>3. ASSUME NEW k \in Keys, AppendSnapshot(k)
        PROVE  DeliveryInv'
    <2>1. newest[k] + 1 \in Texts /\ newest' = [newest EXCEPT ![k] = newest[k] + 1]
      BY <1>3, BoundsAssumption DEF AppendSnapshot, PublishSnapshot, TypeInv, TypeOK
    <2> QED
      BY <1>3, <2>1, DeliveryAppend DEF AppendSnapshot, Kinds
  <1> QED
    BY <1>1, <1>2, <1>3, DeliveryCoalesce DEF Enqueue

LEMMA DeliveryStep == TypeInv /\ DeliveryInv /\ [Next]_vars => DeliveryInv'
  <1> SUFFICES ASSUME TypeInv, DeliveryInv, [Next]_vars PROVE DeliveryInv'
    OBVIOUS
  <1>1. CASE Next
    BY <1>1, DeliveryEnqueue, DeliveryStore, DeliveryWorker, DeliveryPull, DeliveryDeliver,
       DeliveryReport DEF Next
  <1>2. CASE UNCHANGED vars
    BY <1>2 DEF DeliveryInv, IdsInOrder, CopiesFaithful, SuccessesAcked, Acked,
                DeliveredWasShown, NewestSnapshotKept, vars, store, bot, chat
  <1> QED
    BY <1>1, <1>2

LEMMA Invariance == Spec => [](TypeInv /\ DeliveryInv)
  BY TypeInit, TypeStep, DeliveryInit, DeliveryStep, PTL DEF Spec

(* The store books an item as delivered only after Telegram acknowledged   *)
(* it, with any number of workers, crashes, lost and repeated reports.     *)
THEOREM DeliveredIsShown == Spec => []DeliveredWasShown
  <1>1. DeliveryInv => DeliveredWasShown
    BY DEF DeliveryInv
  <1> QED
    BY <1>1, Invariance, PTL

(* Coalescing never loses the newest snapshot of a live message (enqueue). *)
THEOREM NewestIsKept == Spec => []NewestSnapshotKept
  <1>1. DeliveryInv => NewestSnapshotKept
    BY DEF DeliveryInv
  <1> QED
    BY <1>1, Invariance, PTL

-----------------------------------------------------------------------------
(* The lease holder decides *)

(* Steps other than a report leave attempts and settled states alone. *)
LEMMA OnlyReportsSettle ==
    ASSUME TypeInv, DeliveryInv, Next,
           ~ \E v \in Workers : ReportAcked(v) \/ ReportAckLost(v),
           NEW i \in Ids, Pending(i)
    PROVE  /\ item'[i].status \in {"pending", "superseded"}
           /\ item'[i].attempts = item[i].attempts
           /\ (\A k \in Keys : ~ CoalesceSnapshot(k)) => item'[i].status = "pending"
  <1>1. item[i] \in Item /\ i # nextId
    <2>1. i < nextId /\ i \in Nat /\ nextId \in Nat
      BY DEF TypeInv, TypeOK, DeliveryInv, IdsInOrder, Pending
    <2>2. i # nextId
      BY <2>1
    <2>3. item[i] \in Item
      BY DEF TypeInv, TypeOK
    <2> QED
      BY <2>2, <2>3
  <1>2. CASE Enqueue
    <2>1. ASSUME NEW kind, NEW key, NEW text, AppendItem(kind, key, text)
          PROVE  item'[i] = item[i]
      BY <1>1, <2>1 DEF AppendItem, TypeInv, TypeOK
    <2>2. ASSUME NEW k \in Keys, CoalesceSnapshot(k)
          PROVE  /\ item'[i].status \in {"pending", "superseded"}
                 /\ item'[i].attempts = item[i].attempts
      <3>1. PICK j \in Ids : item' = Coalesce(k, j)
        BY <2>2 DEF CoalesceSnapshot
      <3> QED
        BY <1>1, <3>1 DEF Coalesce, Pending, Item
    <2> QED
      BY <1>2, <2>1, <2>2 DEF Enqueue, EnqueueText, EnqueueMedia, EnqueueControl, AppendSnapshot,
                              Pending
  <1>3. CASE Prune
    <2>1. PICK file \in PruneDelivered(item) :
             \E D \in SUBSET WithStatus(file, "dead") : item' = Without(file, D)
      BY <1>3 DEF Prune
    <2>2. PICK D \in SUBSET WithStatus(file, "dead") : item' = Without(file, D)
      BY <2>1
    <2>3. file[i] = item[i]
      BY DEF PruneDelivered, Without, WithStatus, Pending
    <2> QED
      BY <2>2, <2>3 DEF Without, WithStatus, Pending
  <1>4. ASSUME NEW w \in Workers, Pull(w) \/ PullLost(w)
        PROVE  item'[i].status = item[i].status /\ item'[i].attempts = item[i].attempts
    BY <1>1, <1>4 DEF Pull, PullLost, Lease, Item
  <1>5. ASSUME NEW w \in Workers, Deliver(w)
        PROVE  item' = item
    BY <1>5 DEF Deliver, DeliverFromReceipt, DeliverControl, DeliverPlain, DeliveryFails,
                ReplaceSameText, ReplaceWritten, ReplaceAppliedUnseen, ReplaceNotModified,
                Returned, store
  <1>6. ASSUME NEW w \in Workers,
               \/ Start(w) \/ Crash(w) \/ ReportLost(w)
               \/ \E k \in Keys : ForgetProgress(w, k)
               \/ \E j \in Ids : ForgetReceipt(w, j)
        PROVE  item' = item
    BY <1>6 DEF Start, Crash, ReportLost, ForgetProgress, ForgetReceipt, store
  <1>7. ASSUME NEW j \in Ids, LeaseExpires(j) \/ BackoffElapses(j) \/ WindowCloses(j)
        PROVE  item'[i].status = item[i].status /\ item'[i].attempts = item[i].attempts
    <2>1. CASE LeaseExpires(j)
      BY <1>1, <2>1 DEF LeaseExpires, TypeInv, TypeOK, Item
    <2>2. CASE BackoffElapses(j)
      BY <1>1, <2>2 DEF BackoffElapses, TypeInv, TypeOK, Item
    <2>3. CASE WindowCloses(j)
      BY <1>1, <2>3 DEF WindowCloses, TypeInv, TypeOK, Item
    <2> QED
      BY <1>7, <2>1, <2>2, <2>3
  <1> QED
    BY <1>2, <1>3, <1>4, <1>5, <1>6, <1>7 DEF Next, Pending

(* A report changes only the items it is accepted for. *)
LEMMA ReportsTouchTheirs ==
    ASSUME NEW i \in Ids, NEW v \in Workers, ReportAcked(v) \/ ReportAckLost(v),
           Pending(i), ~ Accepts(v, i)
    PROVE  item'[i] = item[i]
  <1>1. item' \in PruneDelivered(Settled(v))
    BY DEF ReportAcked, ReportAckLost, HandleReport
  <1>2. Settled(v)[i] = item[i]
    BY DEF Settled
  <1> QED
    BY <1>1, <1>2 DEF PruneDelivered, Without, WithStatus, Pending

(* A waiting item leaves the queue by a report, or it is a snapshot whose  *)
(* slot keeps another waiting item with the newest text (enqueue).         *)
THEOREM WaitingIsKept == Spec => NoWaitingItemDropped
  <1> DEFINE Survivor(i, j) == /\ j # i
                               /\ item'[j].status = "pending"
                               /\ item[i].kind = "replace"
                               /\ item'[j].kind = "replace"
                               /\ item'[j].key = item[i].key
                               /\ item'[j].text = newest'[item[i].key]
             Kept == \A i \in Ids : Pending(i) /\ item'[i].status # "pending" =>
                        \/ \E w \in Workers : Accepts(w, i)
                        \/ \E j \in Ids : Survivor(i, j)
  <1>1. ASSUME TypeInv, DeliveryInv, [Next]_vars PROVE [Kept]_vars
    <2> SUFFICES ASSUME Next, NEW i \in Ids, Pending(i), item'[i].status # "pending",
                        ~ \E w \in Workers : Accepts(w, i)
                 PROVE  \E j \in Ids : Survivor(i, j)
      BY <1>1
    <2>1. ~ \E v \in Workers : ReportAcked(v) \/ ReportAckLost(v)
      BY ReportsTouchTheirs DEF Pending
    <2>2. PICK k \in Keys : CoalesceSnapshot(k)
      BY <1>1, <2>1, OnlyReportsSettle
    <2>3. PICK j \in Ids : FirstInSlot(j, k) /\ item' = Coalesce(k, j)
      BY <2>2 DEF CoalesceSnapshot
    <2>4. newest'[k] = newest[k] + 1
      BY <1>1, <2>2 DEF CoalesceSnapshot, PublishSnapshot, TypeInv, TypeOK
    <2>5. item[j] \in Item /\ InSlot(j, k)
      BY <1>1, <2>3 DEF TypeInv, TypeOK, FirstInSlot
    <2>6. item'[j].status = "pending" /\ item'[j].kind = "replace" /\ item'[j].key = k
          /\ item'[j].text = newest[k] + 1
      BY <2>3, <2>5 DEF Coalesce, InSlot, Pending, Item
    <2>7. i # j /\ InSlot(i, k)
      BY <2>3, <2>6 DEF Coalesce, Pending
    <2>8. item[i].kind = "replace" /\ item[i].key = k
      BY <2>7 DEF InSlot
    <2>9. Survivor(i, j)
      BY <2>4, <2>6, <2>7, <2>8
    <2> QED
      BY <2>9
  <1> QED
    BY <1>1, Invariance, PTL DEF Spec, NoWaitingItemDropped

(* While a worker holds an item only its own outcome settles it: a late    *)
(* report of a worker whose lease has passed on changes nothing.           *)
THEOREM HolderIsObeyed == Spec => HolderDecides
  <1> DEFINE Decides == \A i \in Ids : \A w \in Workers :
          /\ Pending(i) /\ item[i].by = w
          /\ item'[i].status \notin {"pending", "superseded"}
             \/ item'[i].attempts # item[i].attempts
          => Payload(w)[i] # "none"
  <1>1. ASSUME TypeInv, DeliveryInv, [Next]_vars PROVE [Decides]_vars
    <2> SUFFICES ASSUME Next, NEW i \in Ids, NEW w \in Workers, Pending(i), item[i].by = w,
                        item'[i].status \notin {"pending", "superseded"}
                        \/ item'[i].attempts # item[i].attempts
                 PROVE  Payload(w)[i] # "none"
      BY <1>1
    <2>1. PICK v \in Workers : ReportAcked(v) \/ ReportAckLost(v)
      BY <1>1, OnlyReportsSettle
    <2>2. Accepts(v, i)
      BY <2>1, ReportsTouchTheirs DEF Pending
    <2> QED
      BY <2>2, WorkersAssumption DEF Accepts
  <1> QED
    BY <1>1, Invariance, PTL DEF Spec, HolderDecides

-----------------------------------------------------------------------------
(* One bot process never repeats itself *)

LEMMA RunningPhases ==
    ASSUME NEW w \in Workers
    PROVE  w \in Running <=> pc[w] \notin {"off", "crashed"}
  BY DEF Running

(* What a step of the backend may do to one item: an item that waits was   *)
(* waiting or is new, and only a running process takes it over.            *)
Spared(i) ==
    /\ item[i].status # "unused" => item'[i].status # "unused"
    /\ Pending(i)' => /\ Pending(i) \/ item[i].status = "unused"
                      /\ item'[i].by \in {item[i].by, NoWorker} \cup Running

(* Steps that leave every process alone. *)
LEMMA OnceStoreSteps ==
    ASSUME OnceInv, UNCHANGED <<bot, mine, repeats>>, DeliveryInv, TypeInv,
           \A i \in Ids : Spared(i)
    PROVE  OnceInv'
  <1>1. Running' = Running
    BY DEF Running, bot
  <1>2. Alone' /\ BatchIsNew' /\ OneAckPerWorker'
    BY <1>1 DEF OnceInv, Alone, BatchIsNew, OneAckPerWorker, bot
  <1>3. AckIsOnItsWay'
    <2> SUFFICES ASSUME NEW w \in Workers, NEW i \in mine[w]
                 PROVE  /\ item'[i].status # "unused"
                        /\ Pending(i)' => /\ pc[w] = "idle" => backlog[w][i] = "ok"
                                          /\ pc[w] # "idle" => results[w][i] = "ok"
      BY DEF AckIsOnItsWay, bot
    <2>1. i \in Ids
      BY DEF TypeInv, TypeOK
    <2>2. /\ item[i].status # "unused"
          /\ Pending(i) => /\ pc[w] = "idle" => backlog[w][i] = "ok"
                           /\ pc[w] # "idle" => results[w][i] = "ok"
      BY DEF OnceInv, AckIsOnItsWay
    <2> QED
      BY <2>1, <2>2 DEF Spared
  <1>4. HeldHere'
    <2> SUFFICES ASSUME NEW w \in Workers, NEW i \in Ids,
                        i \in mine[w] \/ \E m \in batch[w] : m.id = i, Pending(i)'
                 PROVE  item'[i].by \in {NoWorker, w}
      BY DEF HeldHere, bot
    <2>1. item[i].status # "unused" /\ w \in Running
      BY RunningPhases DEF OnceInv, AckIsOnItsWay, BatchIsNew, DeliveryInv, IdsInOrder
    <2>2. Pending(i) /\ item'[i].by \in {item[i].by, NoWorker} \cup Running
      BY <2>1 DEF Spared
    <2>3. item[i].by \in {NoWorker, w}
      BY <2>2 DEF OnceInv, HeldHere
    <2>4. \A v \in Running : v = w
      BY <2>1 DEF OnceInv, Alone
    <2> QED
      BY <2>2, <2>3, <2>4
  <1> QED
    BY <1>2, <1>3, <1>4 DEF OnceInv

LEMMA LeaseSpares ==
    ASSUME TypeInv, NEW w \in Running, item' = Lease(w), NEW i \in Ids
    PROVE  Spared(i) /\ (i \in Pulled => item'[i].by = w) /\ (Pending(i)' <=> Pending(i))
  <1>1. item[i] \in Item
    BY DEF TypeInv, TypeOK
  <1> QED
    BY <1>1 DEF Lease, Spared, Pending, Item

LEMMA OnceBackend ==
    ASSUME TypeInv, DeliveryInv, OnceInv,
           \/ Enqueue \/ Prune
           \/ \E w \in Workers : PullLost(w)
           \/ \E i \in Ids : LeaseExpires(i) \/ BackoffElapses(i) \/ WindowCloses(i)
    PROVE  OnceInv'
  <1>1. CASE Enqueue
    <2>1. ASSUME NEW kind, NEW key, NEW text, AppendItem(kind, key, text), NEW i \in Ids
          PROVE  Spared(i) /\ UNCHANGED <<bot, mine, repeats>>
      <3>1. item[i] \in Item /\ nextId \in Nat
        BY BoundsAssumption DEF TypeInv, TypeOK
      <3>2. CASE i # nextId
        BY <2>1, <3>1, <3>2 DEF AppendItem, Spared, Pending, chat, TypeInv, TypeOK
      <3>3. CASE i = nextId
        <4>1. item[i].status = "unused"
          BY <3>1, <3>3 DEF DeliveryInv, IdsInOrder
        <4>2. item'[i] = NewItem(kind, key, text)
          BY <2>1, <3>3 DEF AppendItem, TypeInv, TypeOK
        <4> QED
          BY <2>1, <4>1, <4>2 DEF AppendItem, NewItem, Spared, Pending, chat
      <3> QED
        BY <3>2, <3>3
    <2>2. ASSUME NEW k \in Keys, CoalesceSnapshot(k), NEW i \in Ids
          PROVE  Spared(i) /\ UNCHANGED <<bot, mine, repeats>>
      <3>1. PICK j \in Ids : FirstInSlot(j, k) /\ item' = Coalesce(k, j)
        BY <2>2 DEF CoalesceSnapshot
      <3>2. item[i] \in Item
        BY DEF TypeInv, TypeOK
      <3>3. Spared(i)
        BY <3>1, <3>2 DEF Coalesce, Spared, Pending, Item, FirstInSlot, InSlot
      <3> QED
        BY <2>2, <3>3 DEF CoalesceSnapshot, chat
    <2>3. \A i \in Ids : Spared(i) /\ UNCHANGED <<bot, mine, repeats>>
      BY <1>1, <2>1, <2>2 DEF Enqueue, EnqueueText, EnqueueMedia, EnqueueControl, AppendSnapshot
    <2>4. UNCHANGED <<bot, mine, repeats>>
      BY <1>1 DEF Enqueue, EnqueueText, EnqueueMedia, EnqueueControl, AppendSnapshot,
                  AppendItem, CoalesceSnapshot, chat
    <2> QED
      BY <2>3, <2>4, OnceStoreSteps
  <1>2. CASE Prune
    <2>1. PICK file \in PruneDelivered(item) :
             \E D \in SUBSET WithStatus(file, "dead") : item' = Without(file, D)
      BY <1>2 DEF Prune
    <2>2. PICK D \in SUBSET WithStatus(file, "dead") : item' = Without(file, D)
      BY <2>1
    <2>3. file \in [Ids -> Item]
      BY PruneDeliveredType DEF TypeInv, TypeOK
    <2>4. PICK E \in SUBSET Ids : file = Without(item, E)
      BY DEF PruneDelivered, WithStatus
    <2>5. ASSUME NEW i \in Ids PROVE Spared(i)
      <3>1. item[i] \in Item /\ file[i] \in Item
        BY <2>3 DEF TypeInv, TypeOK
      <3>2. file[i] = item[i] \/ file[i].status = "pruned"
        BY <2>4, <3>1 DEF Without, Item
      <3>3. item'[i] = file[i] \/ item'[i].status = "pruned"
        BY <2>2, <3>1 DEF Without, Item
      <3> QED
        BY <3>2, <3>3 DEF Spared, Pending
    <2> QED
      BY <1>2, <2>5, OnceStoreSteps DEF Prune, chat
  <1>3. ASSUME NEW w \in Workers, PullLost(w) PROVE OnceInv'
    <2>1. w \in Running
      BY <1>3 DEF PullLost, MayPull, Running
    <2>2. UNCHANGED <<bot, mine, repeats>> /\ item' = Lease(w)
      BY <1>3 DEF PullLost, chat
    <2> QED
      BY <2>1, <2>2, LeaseSpares, OnceStoreSteps
  <1>4. ASSUME NEW i \in Ids, LeaseExpires(i) \/ BackoffElapses(i) \/ WindowCloses(i)
        PROVE  OnceInv'
    <2>1. ASSUME NEW j \in Ids PROVE Spared(j)
      <3>1. item[j] \in Item
        BY DEF TypeInv, TypeOK
      <3>2. CASE LeaseExpires(i)
        BY <3>1, <3>2 DEF LeaseExpires, TypeInv, TypeOK, Item, Spared, Pending
      <3>3. CASE BackoffElapses(i)
        BY <3>1, <3>3 DEF BackoffElapses, TypeInv, TypeOK, Item, Spared, Pending
      <3>4. CASE WindowCloses(i)
        BY <3>1, <3>4 DEF WindowCloses, TypeInv, TypeOK, Item, Spared, Pending
      <3> QED
        BY <1>4, <3>2, <3>3, <3>4
    <2>2. UNCHANGED <<bot, mine, repeats>>
      BY <1>4 DEF LeaseExpires, BackoffElapses, WindowCloses, chat
    <2> QED
      BY <2>1, <2>2, OnceStoreSteps
  <1> QED
    BY <1>1, <1>2, <1>3, <1>4

(* A start waits until nobody else runs. *)
LEMMA StartsAlone ==
    ASSUME MaxLive = 1, OnceInv, NEW w \in Workers, Start(w)
    PROVE  Running = {}
  <1> SUFFICES ASSUME NEW u \in Running PROVE FALSE
    OBVIOUS
  <1>1. Running = {u}
    BY DEF OnceInv, Alone
  <1>2. Cardinality({u}) = 1
    BY FS_Singleton
  <1> QED
    BY <1>1, <1>2 DEF Start

LEMMA OnceWorker ==
    ASSUME MaxLive = 1, TypeInv, OnceInv, NEW w \in Workers,
           \/ Start(w) \/ Crash(w)
           \/ \E k \in Keys : ForgetProgress(w, k)
           \/ \E i \in Ids : ForgetReceipt(w, i)
    PROVE  OnceInv'
  <1>1. CASE Start(w)
    <2>1. Running = {} /\ w \notin Running
      BY <1>1, StartsAlone
    <2>2. Running' \subseteq {w}
      BY <1>1, <2>1 DEF Running, Start, TypeInv, TypeOK
    <2>3. \A v \in Workers : mine[v] = {} /\ batch[v] = {}
      BY <2>1, RunningPhases DEF OnceInv, BatchIsNew
    <2>4. /\ mine' = mine /\ batch' = batch /\ repeats' = repeats /\ results' = results
          /\ item' = item
      BY <1>1 DEF Start, chat, store
    <2>5. results[w] = NoResult => BatchIsNew'
      BY <1>1, <2>1, <2>3, <2>4 DEF BatchIsNew, Start, OnceInv, TypeInv, TypeOK
    <2>6. Alone' /\ AckIsOnItsWay' /\ HeldHere' /\ OneAckPerWorker'
      BY <2>2, <2>3, <2>4 DEF Alone, AckIsOnItsWay, HeldHere, OneAckPerWorker, OnceInv
    <2>7. results[w] = NoResult
      BY <1>1, <2>1 DEF OnceInv, BatchIsNew, Start
    <2> QED
      BY <2>5, <2>6, <2>7 DEF OnceInv
  <1>2. CASE Crash(w)
    <2>1. Running' = Running \ {w}
      BY <1>2 DEF Running, Crash, TypeInv, TypeOK
    <2>2. mine'[w] = {} /\ batch'[w] = {} /\ \A v \in Workers : v # w =>
             /\ mine'[v] = mine[v] /\ batch'[v] = batch[v] /\ results'[v] = results[v]
             /\ backlog'[v] = backlog[v] /\ pc'[v] = pc[v]
      BY <1>2 DEF Crash, TypeInv, TypeOK
    <2>3. pc'[w] = "crashed" /\ item' = item /\ repeats' = repeats
      BY <1>2 DEF Crash, TypeInv, TypeOK, store
    <2>4. Alone' /\ BatchIsNew'
      BY <2>1, <2>2, <2>3 DEF OnceInv, Alone, BatchIsNew
    <2>5. AckIsOnItsWay' /\ HeldHere' /\ OneAckPerWorker'
      BY <2>2, <2>3 DEF OnceInv, AckIsOnItsWay, HeldHere, OneAckPerWorker, Pending
    <2> QED
      BY <2>4, <2>5 DEF OnceInv
  <1>3. ASSUME UNCHANGED <<item, pc, batch, results, backlog, mine, repeats>>
        PROVE  OnceInv'
    BY <1>3 DEF OnceInv, Alone, Running, BatchIsNew, AckIsOnItsWay, HeldHere,
                OneAckPerWorker, Pending
  <1>4. ASSUME NEW k \in Keys, ForgetProgress(w, k) PROVE OnceInv'
    BY <1>3, <1>4 DEF ForgetProgress, store, chat
  <1>5. ASSUME NEW i \in Ids, ForgetReceipt(w, i) PROVE OnceInv'
    BY <1>3, <1>5 DEF ForgetReceipt, store, chat
  <1> QED
    BY <1>1, <1>2, <1>4, <1>5

LEMMA OncePull ==
    ASSUME TypeInv, OnceInv, DeliveryInv, NEW w \in Workers, Pull(w)
    PROVE  OnceInv'
  <1>1. pc[w] = "idle" /\ w \in Running /\ backlog[w] = NoResult
    BY DEF Pull, MayPull, Running
  <1>2. \A v \in Running : v = w
    BY <1>1 DEF OnceInv, Alone
  <1>3. Running' = Running
    BY <1>1 DEF Pull, Running, TypeInv, TypeOK
  <1>4. \A v \in Workers : v # w => mine[v] = {} /\ batch[v] = {} /\ batch'[v] = {}
                                    /\ pc'[v] = pc[v]
    BY <1>2, RunningPhases DEF OnceInv, BatchIsNew, Pull, TypeInv, TypeOK
  <1>5. mine' = mine /\ repeats' = repeats /\ results' = results /\ backlog' = backlog
    BY DEF Pull, chat
  <1>6. \A i \in Ids : /\ Spared(i) /\ (i \in Pulled => item'[i].by = w)
                       /\ (Pending(i)' <=> Pending(i))
    BY <1>1, LeaseSpares DEF Pull
  <1>7. \A i \in mine[w] : i \in Ids /\ ~Pending(i) /\ item[i].status # "unused"
    <2> SUFFICES ASSUME NEW i \in mine[w] PROVE i \in Ids /\ ~Pending(i) /\ item[i].status # "unused"
      OBVIOUS
    <2>1. i \in Ids
      BY DEF TypeInv, TypeOK
    <2>2. item[i].status # "unused" /\ (Pending(i) => NoResult[i] = "ok")
      BY <1>1 DEF OnceInv, AckIsOnItsWay
    <2> QED
      BY <2>1, <2>2 DEF NoResult
  <1>8. ASSUME NEW m \in batch'[w]
        PROVE  m.id \in Pulled /\ m = [id |-> m.id, text |-> item[m.id].text]
    <2>1. m \in {[id |-> i, text |-> item[i].text] : i \in Pulled}
      BY DEF Pull, TypeInv, TypeOK
    <2> QED
      BY <2>1
  <1>9. pc'[w] = "delivering"
    BY DEF Pull, TypeInv, TypeOK
  <1>10. BatchIsNew'
    <2>1. \A m \in batch'[w] : m.id \notin mine[w]
      BY <1>7, <1>8 DEF Pulled, Available
    <2>2. \A m, n \in batch'[w] : m.id = n.id => m = n
      BY <1>8
    <2>3. \A v \in Workers : v # w =>
            /\ v \notin Running => mine[v] = {}
            /\ pc[v] \in {"off", "idle"} => results[v] = NoResult
      BY DEF OnceInv, BatchIsNew
    <2> QED
      BY <1>1, <1>3, <1>4, <1>5, <1>9, <2>1, <2>2, <2>3 DEF BatchIsNew
  <1>11. AckIsOnItsWay'
    <2> SUFFICES ASSUME NEW v \in Workers, NEW i \in mine[v]
                 PROVE  item'[i].status # "unused" /\ ~Pending(i)'
      BY <1>5 DEF AckIsOnItsWay
    <2>1. v = w
      BY <1>4
    <2> QED
      BY <1>6, <1>7, <2>1 DEF Spared
  <1>12. HeldHere'
    <2> SUFFICES ASSUME NEW v \in Workers, NEW i \in Ids, Pending(i)',
                        i \in mine[v] \/ \E m \in batch'[v] : m.id = i
                 PROVE  item'[i].by \in {NoWorker, v}
      BY <1>5 DEF HeldHere
    <2>1. v = w /\ i \notin mine[w]
      BY <1>4, <1>6, <1>7
    <2>2. i \in Pulled
      BY <1>8, <2>1
    <2> QED
      BY <1>6, <2>1, <2>2
  <1>13. Alone' /\ OneAckPerWorker'
    BY <1>3, <1>5 DEF OnceInv, Alone, OneAckPerWorker
  <1> QED
    BY <1>10, <1>11, <1>12, <1>13 DEF OnceInv

LEMMA OnceDeliver ==
    ASSUME TypeInv, OnceInv, DeliveryInv, NEW w \in Workers, Deliver(w)
    PROVE  OnceInv'
  <1>1. PICK m \in batch[w] :
           /\ IsHead(w, m)
           /\ \/ DeliverFromReceipt(w, m) \/ DeliverControl(w, m) \/ DeliverPlain(w, m)
              \/ DeliveryFails(w, m) \/ ReplaceSameText(w, m) \/ ReplaceWritten(w, m)
              \/ ReplaceAppliedUnseen(w, m) \/ ReplaceNotModified(w, m)
    BY DEF Deliver
  <1>2. m.id \in Ids /\ item[m.id].status # "unused"
    <2>1. m \in batch[w] /\ batch[w] \subseteq Copy
      BY DEF TypeInv, TypeOK
    <2>2. m.id \in Ids
      BY <2>1
    <2>3. m.id < nextId
      BY <2>1 DEF DeliveryInv, IdsInOrder
    <2> QED
      BY <2>2, <2>3 DEF DeliveryInv, IdsInOrder
  <1>3. \/ UNCHANGED <<mine, repeats>> /\ \E outcome \in {"ok", "failed"} : Returned(w, m, outcome)
        \/ Returned(w, m, "ok") /\ Acknowledged(w, m)
    BY <1>1 DEF DeliverFromReceipt, DeliverControl, DeliverPlain, DeliveryFails, ReplaceSameText,
                ReplaceWritten, ReplaceAppliedUnseen, ReplaceNotModified, chat
  <1>4. PICK outcome \in {"ok", "failed"} :
           /\ Returned(w, m, outcome)
           /\ UNCHANGED <<mine, repeats>> \/ (outcome = "ok" /\ Acknowledged(w, m))
    BY <1>3
  <1>5. /\ mine' = mine \/ (outcome = "ok" /\ mine' = [mine EXCEPT ![w] = @ \cup {m.id}])
        /\ repeats' = repeats \/ repeats' = repeats \cup (mine[w] \cap {m.id})
    BY <1>4 DEF Acknowledged
  <1>6. m.id \notin mine[w]
    BY DEF OnceInv, BatchIsNew
  <1>7. /\ item' = item /\ backlog' = backlog
        /\ \A v \in Workers : v # w => /\ batch'[v] = batch[v] /\ results'[v] = results[v]
                                       /\ pc'[v] = pc[v] /\ mine'[v] = mine[v]
    BY <1>4, <1>5 DEF Returned, store, TypeInv, TypeOK
  <1>8. /\ batch'[w] = batch[w] \ {m}
        /\ pc[w] = "delivering"
        /\ pc'[w] = IF batch[w] = {m} THEN "reporting" ELSE "delivering"
        /\ mine'[w] = mine[w] \/ mine'[w] = mine[w] \cup {m.id}
        /\ \A i \in Ids : results'[w][i] = IF i = m.id THEN outcome ELSE results[w][i]
    BY <1>1, <1>2, <1>4, <1>5 DEF IsHead, Returned, TypeInv, TypeOK
  <1>9. Running' = Running /\ w \in Running
    BY <1>7, <1>8 DEF Running
  <1>10. Alone' /\ OneAckPerWorker'
    BY <1>5, <1>6, <1>9 DEF OnceInv, Alone, OneAckPerWorker
  <1>11. BatchIsNew'
    <2>1. ASSUME NEW v \in Workers, v # w
          PROVE  /\ v \notin Running => mine'[v] = {}
                 /\ pc'[v] # "delivering" => batch'[v] = {}
                 /\ pc'[v] \in {"off", "idle"} => results'[v] = NoResult
                 /\ \A n \in batch'[v] : n.id \notin mine'[v]
                 /\ \A n, p \in batch'[v] : n.id = p.id => n = p
      BY <1>7, <2>1 DEF OnceInv, BatchIsNew
    <2>2. \A n, p \in batch[w] : n.id = p.id => n = p
      BY DEF OnceInv, BatchIsNew
    <2>3. \A n \in batch'[w] : n.id \notin mine'[w]
      BY <1>8, <2>2 DEF OnceInv, BatchIsNew
    <2>4. pc'[w] \notin {"off", "idle"} /\ (pc'[w] # "delivering" => batch'[w] = {})
      BY <1>8
    <2>5. \A n, p \in batch'[w] : n.id = p.id => n = p
      BY <1>8, <2>2
    <2> QED
      BY <1>9, <2>1, <2>3, <2>4, <2>5 DEF BatchIsNew
  <1>12. AckIsOnItsWay'
    <2> SUFFICES ASSUME NEW v \in Workers, NEW i \in mine'[v]
                 PROVE  /\ item[i].status # "unused"
                        /\ Pending(i) => /\ pc'[v] = "idle" => backlog[v][i] = "ok"
                                         /\ pc'[v] # "idle" => results'[v][i] = "ok"
      BY <1>7 DEF AckIsOnItsWay, Pending
    <2>1. CASE i \in mine[v]
      <3>1. /\ item[i].status # "unused"
            /\ Pending(i) => /\ pc[v] = "idle" => backlog[v][i] = "ok"
                             /\ pc[v] # "idle" => results[v][i] = "ok"
        BY <2>1 DEF OnceInv, AckIsOnItsWay
      <3>2. i \in Ids /\ (v = w => i # m.id)
        BY <1>6, <2>1 DEF TypeInv, TypeOK
      <3> QED
        BY <1>7, <1>8, <3>1, <3>2
    <2>2. CASE i \notin mine[v]
      <3>1. v = w /\ i = m.id /\ outcome = "ok"
        <4>1. v = w
          BY <1>7, <2>2
        <4>2. mine' # mine
          BY <2>2
        <4> QED
          BY <1>5, <1>8, <2>2, <4>1, <4>2
      <3> QED
        BY <1>2, <1>8, <3>1
    <2> QED
      BY <2>1, <2>2
  <1>13. HeldHere'
    <2> SUFFICES ASSUME NEW v \in Workers, NEW i \in Ids, Pending(i),
                        i \in mine'[v] \/ \E n \in batch'[v] : n.id = i
                 PROVE  item[i].by \in {NoWorker, v}
      BY <1>7 DEF HeldHere, Pending
    <2>1. i \in mine[v] \/ \E n \in batch[v] : n.id = i
      BY <1>7, <1>8
    <2> QED
      BY <2>1 DEF OnceInv, HeldHere
  <1> QED
    BY <1>10, <1>11, <1>12, <1>13 DEF OnceInv

LEMMA OnceReport ==
    ASSUME TypeInv, OnceInv, NEW w \in Workers,
           ReportAcked(w) \/ ReportAckLost(w) \/ ReportLost(w)
    PROVE  OnceInv'
  <1>1. pc[w] \in {"reporting", "idle"} /\ w \in Running
    BY DEF ReportAcked, ReportAckLost, ReportLost, HandleReport, Payload, Running
  <1>2. /\ UNCHANGED <<batch, mine, repeats>>
        /\ pc'[w] = "idle" /\ results'[w] = NoResult
        /\ \A v \in Workers : v # w => pc'[v] = pc[v] /\ results'[v] = results[v]
                                       /\ backlog'[v] = backlog[v]
    BY DEF ReportAcked, ReportAckLost, ReportLost, Reported, chat, TypeInv, TypeOK
  <1>3. Running' = Running
    BY <1>1, <1>2 DEF Running
  <1>4. \A v \in Running : v = w
    BY <1>1 DEF OnceInv, Alone
  <1>5. batch[w] = {} /\ \A v \in Workers : v # w => mine[v] = {} /\ batch[v] = {}
    BY <1>1, <1>4, RunningPhases DEF OnceInv, BatchIsNew
  <1>6. Alone' /\ OneAckPerWorker' /\ BatchIsNew'
    BY <1>1, <1>2, <1>3, <1>5 DEF OnceInv, Alone, OneAckPerWorker, BatchIsNew
  <1>7. ASSUME NEW i \in mine[w]
        PROVE  /\ item'[i].status # "unused"
               /\ Pending(i)' => item'[i].by \in {NoWorker, w} /\ backlog'[w][i] = "ok"
    <2>1. i \in Ids /\ item[i].status # "unused" /\ item[i] \in Item
      BY DEF OnceInv, AckIsOnItsWay, TypeInv, TypeOK
    <2>2. Pending(i) => Payload(w)[i] = "ok" /\ item[i].by \in {NoWorker, w}
      BY <1>1, <2>1 DEF OnceInv, AckIsOnItsWay, HeldHere, Payload
    <2>3. CASE ReportLost(w)
      BY <2>1, <2>2, <2>3 DEF ReportLost, store, Merged, Pending, TypeInv, TypeOK
    <2>4. CASE ReportAcked(w) \/ ReportAckLost(w)
      <3>1. item' \in PruneDelivered(Settled(w))
        BY <2>4 DEF ReportAcked, ReportAckLost, HandleReport
      <3>2. Settled(w)[i] \in Item /\ Settled(w) \in [Ids -> Item]
        BY <2>1, SettledType DEF TypeInv
      <3>3. Settled(w)[i].status \notin {"unused", "pending"}
        <4>1. CASE Pending(i)
          BY <2>1, <2>2, <4>1 DEF Settled, Accepts, Delivered, Item
        <4>2. CASE ~Pending(i)
          BY <2>1, <4>2 DEF Settled, Accepts, Pending
        <4> QED
          BY <4>1, <4>2
      <3>4. item'[i] = Settled(w)[i] \/ item'[i].status = "pruned"
        BY <2>1, <3>1, <3>2 DEF PruneDelivered, Without, Item
      <3> QED
        BY <3>3, <3>4 DEF Pending
    <2> QED
      BY <2>3, <2>4
  <1>8. AckIsOnItsWay' /\ HeldHere'
    BY <1>2, <1>5, <1>7 DEF AckIsOnItsWay, HeldHere
  <1> QED
    BY <1>6, <1>8 DEF OnceInv

LEMMA OnceInit == Init => OnceInv
  BY DEF Init, OnceInv, Alone, Running, BatchIsNew, AckIsOnItsWay, HeldHere, OneAckPerWorker

LEMMA OnceStep ==
    ASSUME MaxLive = 1
    PROVE  TypeInv /\ DeliveryInv /\ OnceInv /\ [Next]_vars => OnceInv'
  <1> SUFFICES ASSUME TypeInv, DeliveryInv, OnceInv, [Next]_vars PROVE OnceInv'
    OBVIOUS
  <1>1. CASE UNCHANGED vars
    BY <1>1 DEF OnceInv, Alone, Running, BatchIsNew, AckIsOnItsWay, HeldHere,
                OneAckPerWorker, Pending, vars, store, bot, chat
  <1>2. CASE Next
    BY <1>2, OnceBackend, OnceWorker, OncePull, OnceDeliver, OnceReport DEF Next
  <1> QED
    BY <1>1, <1>2

(* With one bot process at a time, however often it crashes and is started *)
(* again, no process gets an item acknowledged twice by Telegram: lost     *)
(* reports, lost answers and forgotten receipts included (outbox-worker).  *)
THEOREM OneProcessOneAck ==
    ASSUME MaxLive = 1
    PROVE  Spec => []OneAckPerWorker
  <1>1. TypeInv /\ DeliveryInv /\ OnceInv /\ [Next]_vars => OnceInv'
    BY OnceStep
  <1>2. OnceInv => OneAckPerWorker
    BY DEF OnceInv
  <1> QED
    BY <1>1, <1>2, OnceInit, Invariance, PTL DEF Spec

-----------------------------------------------------------------------------
(* The outbox implements OutboxPromise *)

LEMMA StageType ==
    ASSUME NEW i \in Ids, item[i] \in Item
    PROVE  Stage(i) \in Promise!Stages
  BY DEF Stage, Item, ItemStatuses, Promise!Stages

(* How the stage of one item follows from a step that keeps its contents. *)
LEMMA StageKept ==
    ASSUME NEW i \in Ids, item'[i].status = item[i].status
    PROVE  Stage(i)' = Stage(i)
  BY DEF Stage

LEMMA SubmitStep ==
    ASSUME TypeInv, TypeInv', DeliveryInv, Enqueue
    PROVE  Promise!Submit
  <1>1. Shown' = Shown
    BY DEF Enqueue, EnqueueText, EnqueueMedia, EnqueueControl, CoalesceSnapshot, AppendSnapshot,
           AppendItem, chat, Shown
  <1>2. [i \in Ids |-> Stage(i)]' \in [Ids -> Promise!Stages]
    <2>1. ASSUME NEW i \in Ids PROVE Stage(i)' \in Promise!Stages
      <3>1. item'[i] \in Item
        BY DEF TypeInv, TypeOK
      <3> QED
        BY <3>1 DEF Stage, Item, ItemStatuses, Promise!Stages
    <2> QED
      BY <2>1
  <1>3. ASSUME NEW kind, NEW key, NEW text, AppendItem(kind, key, text)
        PROVE  /\ \A i \in Ids : \/ Stage(i)' = Stage(i)
                                 \/ Stage(i) = "absent" /\ Stage(i)' = "waiting"
               /\ \E i \in Ids : Stage(i)' = "waiting"
    <2>1. nextId \in Ids
      BY <1>3, BoundsAssumption DEF AppendItem, TypeInv, TypeOK
    <2>2. item[nextId].status = "unused"
      BY <2>1 DEF DeliveryInv, IdsInOrder
    <2>3. /\ item'[nextId].status = "pending"
          /\ \A i \in Ids : i # nextId => item'[i] = item[i]
      BY <1>3, <2>1 DEF AppendItem, NewItem, TypeInv, TypeOK
    <2> QED
      BY <2>1, <2>2, <2>3 DEF Stage
  <1>4. ASSUME NEW k \in Keys, CoalesceSnapshot(k)
        PROVE  /\ \A i \in Ids : \/ Stage(i)' = Stage(i)
                                 \/ Stage(i) = "waiting" /\ Stage(i)' = "replaced"
               /\ \E i \in Ids : Stage(i)' = "waiting"
    <2>1. PICK j \in Ids : FirstInSlot(j, k) /\ item' = Coalesce(k, j)
      BY <1>4 DEF CoalesceSnapshot
    <2>2. ASSUME NEW i \in Ids
          PROVE  /\ \/ item'[i].status = item[i].status
                    \/ item[i].status = "pending" /\ item'[i].status = "superseded"
                 /\ i = j => item'[i].status = "pending"
      <3>1. item[i] \in Item
        BY DEF TypeInv, TypeOK
      <3> QED
        BY <2>1, <3>1 DEF Coalesce, FirstInSlot, InSlot, Pending, Item
    <2> QED
      BY <2>2 DEF Stage
  <1> QED
    BY <1>1, <1>2, <1>3, <1>4
    DEF Promise!Submit, Enqueue, EnqueueText, EnqueueMedia, EnqueueControl, AppendSnapshot

LEMMA AcknowledgeStep ==
    ASSUME TypeInv, DeliveryInv, NEW w \in Workers, Deliver(w)
    PROVE  Promise!Acknowledge \/ UNCHANGED Promise!vars
  <1>1. PICK m \in batch[w] :
           \/ DeliverFromReceipt(w, m) \/ DeliverControl(w, m) \/ DeliverPlain(w, m)
           \/ DeliveryFails(w, m) \/ ReplaceSameText(w, m) \/ ReplaceWritten(w, m)
           \/ ReplaceAppliedUnseen(w, m) \/ ReplaceNotModified(w, m)
    BY DEF Deliver
  <1>2. item' = item /\ (acks' = acks \/ acks' = acks \cup {m})
    BY <1>1 DEF DeliverFromReceipt, DeliverControl, DeliverPlain, DeliveryFails,
                ReplaceSameText, ReplaceWritten, ReplaceAppliedUnseen, ReplaceNotModified,
                Returned, Acknowledged, store, chat
  <1>3. m.id \in Ids /\ item[m.id].status # "unused"
    BY DEF TypeInv, TypeOK, DeliveryInv, IdsInOrder
  <1>4. Stage(m.id) # "absent"
    BY <1>3 DEF Stage, TypeInv, TypeOK, Item, ItemStatuses
  <1>5. [i \in Ids |-> Stage(i)]' = [i \in Ids |-> Stage(i)]
    BY <1>2 DEF Stage
  <1>6. Shown' = Shown \/ Shown' = Shown \cup {m.id}
    BY <1>2 DEF Shown
  <1> QED
    BY <1>3, <1>4, <1>5, <1>6 DEF Promise!Acknowledge, Promise!vars

(* What bookkeeping may do to one item. *)
MaySettle(i) ==
    \/ item'[i].status = item[i].status
    \/ item[i].status = "pending" /\ i \in Shown /\ item'[i].status \in {"delivered", "pruned"}
    \/ item[i].status = "pending" /\ item'[i].status = "dead"
    \/ item[i].status \in {"delivered", "dead"} /\ item'[i].status = "pruned"

LEMMA SettleStep ==
    ASSUME TypeInv', acks' = acks, \A i \in Ids : MaySettle(i)
    PROVE  Promise!Settle
  <1>1. [i \in Ids |-> Stage(i)]' \in [Ids -> Promise!Stages]
    <2>1. ASSUME NEW i \in Ids PROVE Stage(i)' \in Promise!Stages
      <3>1. item'[i] \in Item
        BY DEF TypeInv, TypeOK
      <3> QED
        BY <3>1 DEF Stage, Item, ItemStatuses, Promise!Stages
    <2> QED
      BY <2>1
  <1>2. ASSUME NEW i \in Ids
        PROVE  \/ Stage(i)' = Stage(i)
               \/ Stage(i) = "waiting" /\ i \in Shown /\ Stage(i)' \in {"delivered", "gone"}
               \/ Stage(i) = "waiting" /\ Stage(i)' = "dead"
               \/ Stage(i) \in {"delivered", "dead"} /\ Stage(i)' = "gone"
    <2>1. MaySettle(i)
      OBVIOUS
    <2> QED
      BY <2>1 DEF MaySettle, Stage
  <1>3. Shown' = Shown
    BY DEF Shown
  <1> QED
    BY <1>1, <1>2, <1>3 DEF Promise!Settle

LEMMA PruneSettles ==
    ASSUME NEW file \in [Ids -> Item], NEW pruned \in PruneDelivered(file), NEW i \in Ids
    PROVE  \/ pruned[i] = file[i]
           \/ file[i].status = "delivered" /\ pruned[i].status = "pruned"
  <1>1. file[i] \in Item
    OBVIOUS
  <1>2. PICK D \in SUBSET WithStatus(file, "delivered") : pruned = Without(file, D)
    BY DEF PruneDelivered
  <1> QED
    BY <1>1, <1>2 DEF Without, WithStatus, Item

LEMMA ReportSettles ==
    ASSUME TypeInv, DeliveryInv, NEW w \in Workers, HandleReport(w), NEW i \in Ids
    PROVE  MaySettle(i)
  <1>1. item[i] \in Item
    BY DEF TypeInv, TypeOK
  <1>2. item' \in PruneDelivered(Settled(w)) /\ Settled(w) \in [Ids -> Item]
    BY SettledType DEF HandleReport, TypeInv
  <1>3. \/ item'[i] = Settled(w)[i]
        \/ Settled(w)[i].status = "delivered" /\ item'[i].status = "pruned"
    BY <1>2, PruneSettles
  <1>4. CASE ~Accepts(w, i)
    BY <1>1, <1>3, <1>4 DEF Settled, MaySettle
  <1>5. CASE Accepts(w, i) /\ Payload(w)[i] = "ok"
    <2>1. i \in Shown
      BY <1>5 DEF Payload, NoResult, DeliveryInv, SuccessesAcked, Acked, Shown
    <2>2. Settled(w)[i].status = "delivered" /\ item[i].status = "pending"
      BY <1>1, <1>5 DEF Settled, Delivered, Accepts, Pending, Item
    <2> QED
      BY <1>3, <2>1, <2>2 DEF MaySettle
  <1>6. CASE Accepts(w, i) /\ Payload(w)[i] # "ok"
    <2>1. Settled(w)[i].status \in {"pending", "dead"} /\ item[i].status = "pending"
      BY <1>1, <1>6 DEF Settled, Failed, Accepts, Pending, Item
    <2> QED
      BY <1>3, <2>1 DEF MaySettle
  <1> QED
    BY <1>4, <1>5, <1>6

LEMMA PromiseStep ==
    ASSUME TypeInv, TypeInv', DeliveryInv, [Next]_vars
    PROVE  [Promise!Next]_(Promise!vars)
  <1>1. CASE Enqueue
    BY <1>1, SubmitStep DEF Promise!Next
  <1>2. CASE Prune
    <2>1. PICK file \in PruneDelivered(item) :
             \E D \in SUBSET WithStatus(file, "dead") : item' = Without(file, D)
      BY <1>2 DEF Prune
    <2>2. PICK D \in SUBSET WithStatus(file, "dead") : item' = Without(file, D)
      BY <2>1
    <2>3. file \in [Ids -> Item]
      BY PruneDeliveredType DEF TypeInv, TypeOK
    <2>4. ASSUME NEW i \in Ids PROVE MaySettle(i)
      <3>1. \/ file[i] = item[i]
            \/ item[i].status = "delivered" /\ file[i].status = "pruned"
        BY PruneSettles DEF TypeInv, TypeOK
      <3>2. \/ item'[i] = file[i]
            \/ file[i].status = "dead" /\ item'[i].status = "pruned"
        <4>1. file[i] \in Item
          BY <2>3
        <4> QED
          BY <2>2, <4>1 DEF Without, WithStatus, Item
      <3> QED
        BY <3>1, <3>2 DEF MaySettle
    <2> QED
      BY <1>2, <2>4, SettleStep DEF Prune, chat, Promise!Next
  <1>3. ASSUME NEW w \in Workers, Deliver(w)
        PROVE  [Promise!Next]_(Promise!vars)
    BY <1>3, AcknowledgeStep DEF Promise!Next
  <1>4. ASSUME NEW w \in Workers, ReportAcked(w) \/ ReportAckLost(w)
        PROVE  [Promise!Next]_(Promise!vars)
    <2>1. HandleReport(w) /\ acks' = acks
      BY <1>4 DEF ReportAcked, ReportAckLost, Reported, chat
    <2> QED
      BY <2>1, ReportSettles, SettleStep DEF Promise!Next
  <1>5. ASSUME acks' = acks, \A i \in Ids : item'[i].status = item[i].status
        PROVE  UNCHANGED Promise!vars
    BY <1>5 DEF Promise!vars, Stage, Shown
  <1>6. ASSUME NEW w \in Workers, Pull(w) \/ PullLost(w)
        PROVE  [Promise!Next]_(Promise!vars)
    BY <1>5, <1>6, LeaseContent DEF Pull, PullLost, chat
  <1>7. ASSUME NEW w \in Workers,
               \/ Start(w) \/ Crash(w) \/ ReportLost(w)
               \/ \E k \in Keys : ForgetProgress(w, k)
               \/ \E j \in Ids : ForgetReceipt(w, j)
        PROVE  [Promise!Next]_(Promise!vars)
    <2>1. item' = item /\ acks' = acks
      BY <1>7 DEF Start, Crash, ReportLost, Reported, ForgetProgress, ForgetReceipt, store, chat
    <2> QED
      BY <1>5, <2>1
  <1>8. ASSUME NEW j \in Ids, LeaseExpires(j) \/ BackoffElapses(j) \/ WindowCloses(j)
        PROVE  [Promise!Next]_(Promise!vars)
    <2>1. ASSUME NEW i \in Ids PROVE item'[i].status = item[i].status
      <3>1. item[i] \in Item
        BY DEF TypeInv, TypeOK
      <3>2. CASE LeaseExpires(j)
        BY <3>1, <3>2 DEF LeaseExpires, TypeInv, TypeOK, Item
      <3>3. CASE BackoffElapses(j)
        BY <3>1, <3>3 DEF BackoffElapses, TypeInv, TypeOK, Item
      <3>4. CASE WindowCloses(j)
        BY <3>1, <3>4 DEF WindowCloses, TypeInv, TypeOK, Item
      <3> QED
        BY <1>8, <3>2, <3>3, <3>4
    <2>2. acks' = acks
      BY <1>8 DEF LeaseExpires, BackoffElapses, WindowCloses, chat
    <2> QED
      BY <1>5, <2>1, <2>2
  <1>9. CASE UNCHANGED vars
    BY <1>5, <1>9 DEF vars, store, chat
  <1> QED
    BY <1>1, <1>2, <1>3, <1>4, <1>6, <1>7, <1>8, <1>9 DEF Next

LEMMA PromiseInit == Init => Promise!Init
  <1> SUFFICES ASSUME Init PROVE Promise!Init
    OBVIOUS
  <1>1. \A i \in Ids : item[i].status = "unused"
    BY DEF Init, Unused, NewItem
  <1> QED
    BY <1>1 DEF Init, Promise!Init, Stage, Shown

(* Leases, lost responses, retries and restarts notwithstanding, the outbox *)
(* is a queue whose messages are acknowledged before they are booked, and   *)
(* settled once.                                                            *)
THEOREM OutboxKeepsPromise == Spec => KeepsPromise
  BY PromiseInit, PromiseStep, Invariance, PTL
  DEF Spec, KeepsPromise, Promise!Spec

=============================================================================
