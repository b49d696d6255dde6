---------------------------- MODULE TelegramOutbox ----------------------------
(***************************************************************************)
(* The persistent Telegram outbox of the backend (telegram-outbox.store.ts *)
(* behind telegram-outbox.controller.ts) and the bot processes that drain  *)
(* it (outbox-worker.ts with outbox-delivery-state.ts).                    *)
(*                                                                         *)
(* The store is one JSON file that every handler reads and rewrites        *)
(* synchronously, so each handler is one atomic action on `item`.  Items   *)
(* are appended in creation order and filters keep that order: an item's   *)
(* id is its creation index.  The model is the slice of one admin and the  *)
(* chat bound to it; pull and report filter every other admin out.         *)
(*                                                                         *)
(* Clocks are abstracted: instead of timestamps an item carries whether    *)
(* its lease is still running (live), whether nextAttemptAt has been       *)
(* reached (due) and whether it lies inside the duplicate window (fresh);  *)
(* separate actions let that time pass at any moment.                      *)
(***************************************************************************)
EXTENDS Naturals, FiniteSets

CONSTANTS
    Workers,       \* bot process incarnations: a worker id is random per start
    MaxLive,       \* how many bot processes may run side by side
    Keys,          \* progress keys of replace-mode messages
    EnqueuedKinds, \* bound: the kinds of items that are enqueued
    MaxItems,      \* bound: items ever appended
    MaxText,       \* bound: snapshots published per key
    PlainTexts,    \* bound: the texts of plain messages
    MaxAttempts,   \* OUTBOX_MAX_ATTEMPTS
    PullLimit,     \* limit of one pull
    KeepDelivered, \* DEFAULT_MAX_DELIVERED_TO_KEEP
    KeepDead,      \* DEFAULT_MAX_DEAD_TO_KEEP
    NoWorker,      \* inFlightBy = undefined
    NoKey          \* progressKey = undefined

ASSUME WorkersAssumption == /\ NoWorker \notin Workers
                            /\ MaxLive \in Nat
ASSUME KeysAssumption    == NoKey \notin Keys
ASSUME BoundsAssumption  == /\ EnqueuedKinds \subseteq {"text", "media", "replace", "start", "stop"}
                            /\ MaxItems \in Nat /\ MaxText \in Nat
                            /\ PlainTexts \subseteq 1 .. MaxText
                            /\ MaxAttempts \in Nat \ {0}
                            /\ PullLimit \in Nat \ {0}
                            /\ KeepDelivered \in Nat /\ KeepDead \in Nat

Ids   == 1 .. MaxItems
Texts == 1 .. MaxText
Blank == 0                 \* the empty text of a control item; nothing shown yet

(* "text" and "media" are plain sends, "replace" edits one live message per *)
(* progress key, "start" and "stop" switch the typing indicator.            *)
Kinds    == {"text", "media", "replace", "start", "stop"}
Controls == {"start", "stop"}

(* "superseded" and "pruned" items have been filtered out of the file. *)
ItemStatuses == {"unused", "pending", "delivered", "dead", "superseded", "pruned"}
InFile   == {"pending", "delivered", "dead"}

Outcomes == {"none", "ok", "failed"}
Phases   == {"off", "idle", "delivering", "reporting", "crashed"}

Item == [kind : Kinds, key : Keys \cup {NoKey}, text : Texts \cup {Blank},
         status : ItemStatuses, attempts : 0 .. MaxAttempts,
         by : Workers \cup {NoWorker},     \* inFlightBy
         live : BOOLEAN,                   \* inFlightUntil > now
         due : BOOLEAN,                    \* nextAttemptAt <= now
         fresh : BOOLEAN]                  \* inside the duplicate window

VARIABLES
    item,      \* the outbox file, by id
    nextId,    \* id the next appended item gets
    newest,    \* per key: number of the last snapshot published
    pc,        \* per worker: phase of processAdmin
    batch,     \* per worker: pulled copies [id, text] not delivered yet
    results,   \* per worker: outcomes of the current batch
    backlog,   \* per worker: pendingReportResultsByAdmin
    receipts,  \* per worker: ids in successfulDeliveryByItemId
    believed,  \* per worker and key: text in progressMessageByKey (Blank: no entry)
    actual,    \* per worker and key: text Telegram really holds in that message
    typing,    \* per worker: a typing heartbeat is running
    screen,    \* per key: text last written to the chat
    acks,      \* history: what Telegram acknowledged, [id, text]
    mine,      \* history: ids Telegram acknowledged to this running worker
    repeats    \* history: ids one worker got acknowledged twice

store == <<item, nextId, newest>>
bot   == <<pc, batch, results, backlog, receipts, believed, actual, typing>>
chat  == <<screen, acks, mine, repeats>>
vars  == <<store, bot, chat>>

NoResult == [i \in Ids |-> "none"]
NoEntry  == [k \in Keys |-> Blank]

NewItem(kind, key, text) ==
    [kind |-> kind, key |-> key, text |-> text, status |-> "pending",
     attempts |-> 0, by |-> NoWorker, live |-> FALSE, due |-> TRUE,
     fresh |-> TRUE]

Unused == [NewItem("text", NoKey, Blank) EXCEPT
               !.status = "unused", !.due = FALSE, !.fresh = FALSE]

Init ==
    /\ item = [i \in Ids |-> Unused]
    /\ nextId = 1
    /\ newest = [k \in Keys |-> 0]
    /\ pc = [w \in Workers |-> "off"]
    /\ batch = [w \in Workers |-> {}]
    /\ results = [w \in Workers |-> NoResult]
    /\ backlog = [w \in Workers |-> NoResult]
    /\ receipts = [w \in Workers |-> {}]
    /\ believed = [w \in Workers |-> NoEntry]
    /\ actual = [w \in Workers |-> NoEntry]
    /\ typing = [w \in Workers |-> FALSE]
    /\ screen = NoEntry
    /\ acks = {}
    /\ mine = [w \in Workers |-> {}]
    /\ repeats = {}

-----------------------------------------------------------------------------
(* Backend: enqueue *)

Pending(i) == item[i].status = "pending"

(* findRecentPlainDuplicate: walk back from the newest item, stop at the   *)
(* first one outside the window, match plain items still on their way or   *)
(* delivered.  A media caption matches a text as well.                     *)
RecentDuplicate(i, t) ==
    /\ item[i].status \in {"pending", "delivered"}
    /\ item[i].kind \in {"text", "media"}
    /\ item[i].text = t
    /\ \A j \in i .. MaxItems : item[j].status \in InFile => item[j].fresh

AppendItem(kind, key, text) ==
    /\ kind \in EnqueuedKinds
    /\ nextId <= MaxItems
    /\ item' = [item EXCEPT ![nextId] = NewItem(kind, key, text)]
    /\ nextId' = nextId + 1
    /\ UNCHANGED <<bot, chat>>

(* A duplicate returns the existing item and changes nothing. *)
EnqueueText(t) ==
    /\ \A i \in Ids : ~RecentDuplicate(i, t)
    /\ AppendItem("text", NoKey, t)
    /\ UNCHANGED newest

EnqueueMedia(t) ==
    /\ AppendItem("media", NoKey, t)
    /\ UNCHANGED newest

EnqueueControl(action) ==
    /\ AppendItem(action, NoKey, Blank)
    /\ UNCHANGED newest

InSlot(i, k) == Pending(i) /\ item[i].kind = "replace" /\ item[i].key = k

(* file.items.find: the oldest pending snapshot of the slot *)
FirstInSlot(i, k) == InSlot(i, k) /\ \A j \in Ids : InSlot(j, k) => i <= j

PublishSnapshot(k) ==
    /\ newest[k] < MaxText
    /\ newest' = [newest EXCEPT ![k] = @ + 1]

(* Faulty variant: the survivor keeps its old text. *)
CoalesceKeepsOldText(k, i) ==
    [j \in Ids |->
        IF j # i /\ InSlot(j, k) /\ ~item[j].live
        THEN [item[j] EXCEPT !.status = "superseded", !.fresh = FALSE]
        ELSE item[j]]

(* Faulty variant: the filter forgets the mode and the progress key. *)
CoalesceDropsAnySlot(k, i) ==
    [j \in Ids |->
        IF j = i
        THEN [item[j] EXCEPT !.text = newest[k] + 1, !.by = NoWorker, !.due = TRUE]
        ELSE IF Pending(j) /\ ~item[j].live
             THEN [item[j] EXCEPT !.status = "superseded", !.fresh = FALSE]
             ELSE item[j]]

(* The oldest pending snapshot is not leased: rewrite it in place and drop *)
(* the other unleased ones.  Its attempts are kept.                        *)
Coalesce(k, i) ==
    [j \in Ids |->
        IF j = i
        THEN [item[j] EXCEPT !.text = newest[k] + 1, !.by = NoWorker, !.due = TRUE]
        ELSE IF InSlot(j, k) /\ ~item[j].live
             THEN [item[j] EXCEPT !.status = "superseded", !.fresh = FALSE]
             ELSE item[j]]

CoalesceSnapshot(k) ==
    \E i \in Ids :
        /\ FirstInSlot(i, k)
        /\ ~item[i].live
        /\ PublishSnapshot(k)
        /\ item' = Coalesce(k, i)
        /\ UNCHANGED <<nextId, bot, chat>>

(* No pending snapshot, or a worker holds the oldest one: queue a new item. *)
AppendSnapshot(k) ==
    /\ \A i \in Ids : FirstInSlot(i, k) => item[i].live
    /\ PublishSnapshot(k)
    /\ AppendItem("replace", k, newest[k] + 1)

Enqueue ==
    \/ \E t \in PlainTexts : EnqueueText(t) \/ EnqueueMedia(t)
    \/ \E action \in Controls : EnqueueControl(action)
    \/ \E k \in Keys : CoalesceSnapshot(k) \/ AppendSnapshot(k)

-----------------------------------------------------------------------------
(* Backend: retention *)

WithStatus(file, s) == {i \in Ids : file[i].status = s}

Without(file, D) ==
    [i \in Ids |-> IF i \in D
                   THEN [file[i] EXCEPT !.status = "pruned", !.fresh = FALSE]
                   ELSE file[i]]

(* Faulty variant: the status filter is missing. *)
PruneAnyStatus(file) ==
    LET kept == {i \in Ids : file[i].status \in InFile}
    IN  {Without(file, D) : D \in
            {E \in SUBSET kept : IF Cardinality(kept) <= KeepDelivered
                                 THEN E = {}
                                 ELSE Cardinality(kept \ E) = KeepDelivered}}

(* pruneDeliveredInPlace.  The order of deliveredAt is not tracked: any    *)
(* set of the right size may be the oldest.                                *)
PruneDelivered(file) ==
    LET done == WithStatus(file, "delivered")
    IN  {Without(file, D) : D \in
            {E \in SUBSET done : IF Cardinality(done) <= KeepDelivered
                                 THEN E = {}
                                 ELSE Cardinality(done \ E) = KeepDelivered}}

(* prune, run by the maintenance job: then dead items, by age and by count. *)
Prune ==
    /\ \E file \in PruneDelivered(item) :
          \E D \in SUBSET WithStatus(file, "dead") :
              /\ Cardinality(WithStatus(file, "dead") \ D) <= KeepDead
              /\ item' = Without(file, D)
    /\ UNCHANGED <<nextId, newest, bot, chat>>

-----------------------------------------------------------------------------
(* Bot: start, crash, pull *)

Running == {w \in Workers : pc[w] \notin {"off", "crashed"}}

Start(w) ==
    /\ pc[w] = "off"
    /\ Cardinality(Running) < MaxLive
    /\ pc' = [pc EXCEPT ![w] = "idle"]
    /\ UNCHANGED <<store, chat, batch, results, backlog, receipts, believed,
                   actual, typing>>

(* The process dies with everything it held in memory.  Bound: a worker    *)
(* crashes only while another incarnation is left to start.                *)
Crash(w) ==
    /\ w \in Running
    /\ \E v \in Workers : pc[v] = "off"
    /\ pc' = [pc EXCEPT ![w] = "crashed"]
    /\ batch' = [batch EXCEPT ![w] = {}]
    /\ results' = [results EXCEPT ![w] = NoResult]
    /\ backlog' = [backlog EXCEPT ![w] = NoResult]
    /\ receipts' = [receipts EXCEPT ![w] = {}]
    /\ believed' = [believed EXCEPT ![w] = NoEntry]
    /\ actual' = [actual EXCEPT ![w] = NoEntry]
    /\ typing' = [typing EXCEPT ![w] = FALSE]
    /\ mine' = [mine EXCEPT ![w] = {}]
    /\ UNCHANGED <<store, screen, acks, repeats>>

(* Faulty variant: an expired lease is never taken over. *)
AvailableUnleased(i) == Pending(i) /\ item[i].due /\ item[i].by = NoWorker

Available(i) == Pending(i) /\ item[i].due /\ ~item[i].live

(* The first PullLimit available items in file order. *)
Pulled == {i \in Ids :
              /\ Available(i)
              /\ Cardinality({j \in Ids : j < i /\ Available(j)}) < PullLimit}

(* Store.pull: lease what is handed out. *)
Lease(w) == [i \in Ids |-> IF i \in Pulled
                           THEN [item[i] EXCEPT !.by = w, !.live = TRUE]
                           ELSE item[i]]

(* Faulty variant: pull without flushing the pending reports first. *)
MayPullUnflushed(w) == pc[w] = "idle"

(* Nothing is pulled while earlier results wait for an acknowledgement. *)
MayPull(w) == pc[w] = "idle" /\ backlog[w] = NoResult

Pull(w) ==
    /\ MayPull(w)
    /\ Pulled # {}
    /\ item' = Lease(w)
    /\ batch' = [batch EXCEPT ![w] = {[id |-> i, text |-> item[i].text] : i \in Pulled}]
    /\ pc' = [pc EXCEPT ![w] = "delivering"]
    /\ UNCHANGED <<nextId, newest, results, backlog, receipts, believed, actual,
                   typing, chat>>

(* The backend leased the items, the answer never reached the worker. *)
PullLost(w) ==
    /\ MayPull(w)
    /\ Pulled # {}
    /\ item' = Lease(w)
    /\ UNCHANGED <<nextId, newest, bot, chat>>

-----------------------------------------------------------------------------
(* Bot: deliver one pulled copy m, oldest first *)

IsHead(w, m) == /\ pc[w] = "delivering"
               /\ m \in batch[w]
               /\ \A n \in batch[w] : m.id <= n.id

(* deliver returned: note the outcome, remember a success. *)
Returned(w, m, outcome) ==
    /\ batch' = [batch EXCEPT ![w] = @ \ {m}]
    /\ results' = [results EXCEPT ![w][m.id] = outcome]
    /\ receipts' = IF outcome = "ok"
                   THEN [receipts EXCEPT ![w] = @ \cup {m.id}]
                   ELSE receipts
    /\ pc' = [pc EXCEPT ![w] = IF batch[w] = {m} THEN "reporting" ELSE @]
    /\ UNCHANGED <<store, backlog>>

Acknowledged(w, m) ==
    /\ acks' = acks \cup {m}
    /\ mine' = [mine EXCEPT ![w] = @ \cup {m.id}]
    /\ repeats' = repeats \cup (mine[w] \cap {m.id})

Key(m)  == item[m.id].key
Kind(m) == item[m.id].kind

DeliverFromReceipt(w, m) ==
    /\ m.id \in receipts[w]
    /\ Returned(w, m, "ok")
    /\ UNCHANGED <<believed, actual, typing, chat>>

DeliverControl(w, m) ==
    /\ m.id \notin receipts[w]
    /\ Kind(m) \in Controls
    /\ typing' = [typing EXCEPT ![w] = Kind(m) = "start"]
    /\ Returned(w, m, "ok")
    /\ Acknowledged(w, m)
    /\ UNCHANGED <<believed, actual, screen>>

DeliverPlain(w, m) ==
    /\ m.id \notin receipts[w]
    /\ Kind(m) \in {"text", "media"}
    /\ Returned(w, m, "ok")
    /\ Acknowledged(w, m)
    /\ UNCHANGED <<believed, actual, typing, screen>>

(* Telegram refuses, rate-limits, or its answer is lost. *)
DeliveryFails(w, m) ==
    /\ m.id \notin receipts[w]
    /\ Kind(m) \notin Controls
    /\ Returned(w, m, "failed")
    /\ UNCHANGED <<believed, actual, typing, chat>>

(* deliverReplace: the live message already holds this text. *)
ReplaceSameText(w, m) ==
    /\ m.id \notin receipts[w]
    /\ Kind(m) = "replace"
    /\ believed[w][Key(m)] = m.text
    /\ Returned(w, m, "ok")
    /\ Acknowledged(w, m)
    /\ UNCHANGED <<believed, actual, typing, screen>>

Show(m) == screen' = [screen EXCEPT ![Key(m)] = m.text]

(* Edit the live message; send a fresh one when there is none or when it   *)
(* cannot be edited any more.                                              *)
ReplaceWritten(w, m) ==
    /\ m.id \notin receipts[w]
    /\ Kind(m) = "replace"
    /\ believed[w][Key(m)] # m.text
    /\ believed' = [believed EXCEPT ![w][Key(m)] = m.text]
    /\ actual' = [actual EXCEPT ![w][Key(m)] = m.text]
    /\ Show(m)
    /\ Returned(w, m, "ok")
    /\ Acknowledged(w, m)
    /\ UNCHANGED typing

(* Telegram applied the write, the call still failed: the worker's picture *)
(* of the live message stays behind.                                       *)
ReplaceAppliedUnseen(w, m) ==
    /\ m.id \notin receipts[w]
    /\ Kind(m) = "replace"
    /\ believed[w][Key(m)] # m.text
    /\ \/ actual' = actual       \* a fresh message nobody tracks
       \/ /\ believed[w][Key(m)] # Blank
          /\ actual' = [actual EXCEPT ![w][Key(m)] = m.text]
    /\ Show(m)
    /\ Returned(w, m, "failed")
    /\ UNCHANGED <<believed, typing, acks, mine, repeats>>

(* "message is not modified" counts as delivered. *)
ReplaceNotModified(w, m) ==
    /\ m.id \notin receipts[w]
    /\ Kind(m) = "replace"
    /\ believed[w][Key(m)] \notin {Blank, m.text}
    /\ actual[w][Key(m)] = m.text
    /\ Returned(w, m, "ok")
    /\ Acknowledged(w, m)
    /\ UNCHANGED <<believed, actual, typing, screen>>

Deliver(w) ==
    \E m \in batch[w] :
        /\ IsHead(w, m)
        /\ \/ DeliverFromReceipt(w, m)
           \/ DeliverControl(w, m)
           \/ DeliverPlain(w, m)
           \/ DeliveryFails(w, m)
           \/ ReplaceSameText(w, m)
           \/ ReplaceWritten(w, m)
           \/ ReplaceAppliedUnseen(w, m)
           \/ ReplaceNotModified(w, m)

-----------------------------------------------------------------------------
(* Bot to backend: report *)

(* What the worker posts: the finished batch, or the unacknowledged rest. *)
Payload(w) == CASE pc[w] = "reporting" -> results[w]
                [] pc[w] = "idle"      -> backlog[w]
                [] OTHER               -> NoResult

(* Faulty variant: the leasing worker is not compared. *)
AcceptsAnyone(w, i) == Payload(w)[i] # "none" /\ Pending(i)

(* Store.report takes a result only from the leasing worker, or when nobody *)
(* holds the item.                                                         *)
Accepts(w, i) == /\ Payload(w)[i] # "none"
                 /\ Pending(i)
                 /\ item[i].by \in {NoWorker, w}

Delivered(i) == [item[i] EXCEPT !.status = "delivered", !.by = NoWorker,
                                !.live = FALSE, !.fresh = TRUE]

(* Faulty variant: the attempt limit is not applied. *)
FailedForever(i) == [item[i] EXCEPT !.attempts = @ + 1, !.by = NoWorker,
                                    !.live = FALSE, !.due = FALSE]

Failed(i) == [item[i] EXCEPT
                 !.attempts = @ + 1,
                 !.by = NoWorker, !.live = FALSE,
                 !.status = IF item[i].attempts + 1 >= MaxAttempts THEN "dead" ELSE @,
                 !.due = IF item[i].attempts + 1 >= MaxAttempts THEN @ ELSE FALSE]

(* Faulty variant: result.ok is not looked at. *)
SettledRegardless(w) ==
    [i \in Ids |-> IF Accepts(w, i) THEN Delivered(i) ELSE item[i]]

Settled(w) ==
    [i \in Ids |-> IF Accepts(w, i)
                   THEN IF Payload(w)[i] = "ok" THEN Delivered(i) ELSE Failed(i)
                   ELSE item[i]]

(* The controller's handler: report, then pruneDelivered. *)
HandleReport(w) ==
    /\ Payload(w) # NoResult
    /\ item' \in PruneDelivered(Settled(w))
    /\ UNCHANGED <<nextId, newest>>

(* rememberPendingReports: the later result of an item wins. *)
Merged(w) == [i \in Ids |-> IF Payload(w)[i] # "none" THEN Payload(w)[i]
                                                      ELSE backlog[w][i]]

Reported(w) ==
    /\ pc' = [pc EXCEPT ![w] = "idle"]
    /\ results' = [results EXCEPT ![w] = NoResult]
    /\ UNCHANGED <<batch, believed, actual, typing, chat>>

(* clearReported *)
ReportAcked(w) ==
    /\ HandleReport(w)
    /\ Reported(w)
    /\ backlog' = [backlog EXCEPT ![w] = NoResult]
    /\ receipts' = [receipts EXCEPT ![w] = {i \in @ : Payload(w)[i] = "none"}]

(* The backend did its part, the answer is lost or an error. *)
ReportAckLost(w) ==
    /\ HandleReport(w)
    /\ Reported(w)
    /\ backlog' = [backlog EXCEPT ![w] = Merged(w)]
    /\ UNCHANGED receipts

(* The request never got there. *)
ReportLost(w) ==
    /\ pc[w] = "reporting"
    /\ Reported(w)
    /\ backlog' = [backlog EXCEPT ![w] = Merged(w)]
    /\ UNCHANGED <<store, receipts>>

-----------------------------------------------------------------------------
(* Time *)

(* pruneProgressMap: entries of the live-message map and receipts run out. *)
ForgetProgress(w, k) ==
    /\ pc[w] = "idle"
    /\ believed[w][k] # Blank
    /\ believed' = [believed EXCEPT ![w][k] = Blank]
    /\ actual' = [actual EXCEPT ![w][k] = Blank]
    /\ UNCHANGED <<store, chat, pc, batch, results, backlog, receipts, typing>>

ForgetReceipt(w, i) ==
    /\ pc[w] = "idle"
    /\ i \in receipts[w]
    /\ receipts' = [receipts EXCEPT ![w] = @ \ {i}]
    /\ UNCHANGED <<store, chat, pc, batch, results, backlog, believed, actual, typing>>

LeaseExpires(i) ==
    /\ Pending(i) /\ item[i].live
    /\ item' = [item EXCEPT ![i].live = FALSE]
    /\ UNCHANGED <<nextId, newest, bot, chat>>

BackoffElapses(i) ==
    /\ Pending(i) /\ ~item[i].due
    /\ item' = [item EXCEPT ![i].due = TRUE]
    /\ UNCHANGED <<nextId, newest, bot, chat>>

(* The duplicate window closes over item i.  It is measured from           *)
(* deliveredAt, or from createdAt, and createdAt grows with the id.  Only  *)
(* plain texts look at it.                                                 *)
WindowCloses(i) ==
    /\ "text" \in EnqueuedKinds
    /\ item[i].status \in InFile /\ item[i].fresh
    /\ \A j \in Ids : j < i /\ item[j].status \in {"pending", "dead"} => ~item[j].fresh
    /\ item' = [item EXCEPT ![i].fresh = FALSE]
    /\ UNCHANGED <<nextId, newest, bot, chat>>

-----------------------------------------------------------------------------
Next ==
    \/ Enqueue
    \/ Prune
    \/ \E w \in Workers :
          \/ Start(w) \/ Crash(w)
          \/ Pull(w) \/ PullLost(w)
          \/ Deliver(w)
          \/ ReportAcked(w) \/ ReportAckLost(w) \/ ReportLost(w)
          \/ \E k \in Keys : ForgetProgress(w, k)
          \/ \E i \in Ids : ForgetReceipt(w, i)
    \/ \E i \in Ids : LeaseExpires(i) \/ BackoffElapses(i) \/ WindowCloses(i)

Spec == Init /\ [][Next]_vars

(* A tick runs every second and starts over after any error; clocks run;   *)
(* the backend is not out of reach for good.                               *)
Fairness ==
    /\ WF_vars(\E w \in Workers : Start(w))
    /\ \A w \in Workers : /\ SF_vars(Pull(w))
                          /\ WF_vars(Deliver(w))
                          /\ WF_vars(ReportAcked(w))
    /\ \A i \in Ids : WF_vars(LeaseExpires(i)) /\ WF_vars(BackoffElapses(i))

FairSpec == Spec /\ Fairness


-----------------------------------------------------------------------------
(* Properties *)

Copy == [id : Ids, text : Texts \cup {Blank}]

(* The types of all variables. *)
TypeOK ==
    /\ item \in [Ids -> Item]
    /\ nextId \in 1 .. MaxItems + 1
    /\ newest \in [Keys -> 0 .. MaxText]
    /\ pc \in [Workers -> Phases]
    /\ batch \in [Workers -> SUBSET Copy]
    /\ results \in [Workers -> [Ids -> Outcomes]]
    /\ backlog \in [Workers -> [Ids -> Outcomes]]
    /\ receipts \in [Workers -> SUBSET Ids]
    /\ believed \in [Workers -> [Keys -> Texts \cup {Blank}]]
    /\ actual \in [Workers -> [Keys -> Texts \cup {Blank}]]
    /\ typing \in [Workers -> BOOLEAN]
    /\ screen \in [Keys -> Texts \cup {Blank}]
    /\ acks \subseteq Copy
    /\ mine \in [Workers -> SUBSET Ids]
    /\ repeats \subseteq Ids

(* The store books an item as delivered only after Telegram acknowledged   *)
(* it to some worker, whatever reports were lost, repeated, or arrived     *)
(* after the lease had moved on (store.report, deliveryState).  For an     *)
(* item that is never coalesced it was exactly the stored text.            *)
DeliveredWasShown ==
    \A i \in Ids : item[i].status = "delivered" =>
        \E a \in acks : a.id = i /\ (item[i].kind # "replace" => a.text = item[i].text)

(* One bot process never gets the same item acknowledged twice by Telegram: *)
(* receipts and the unacknowledged reports stop it from sending again when  *)
(* the backend does not answer (flushPendingReports, getSuccessful).        *)
OneAckPerWorker == repeats = {}

(* However snapshots are coalesced or queued behind a leased one, the      *)
(* newest text published for a live message is in an item that was not     *)
(* superseded (enqueue).                                                   *)
NewestSnapshotKept ==
    \A k \in Keys : newest[k] # 0 =>
        \E i \in Ids : /\ item[i].kind = "replace" /\ item[i].key = k
                       /\ item[i].text = newest[k]
                       /\ item[i].status \notin {"unused", "superseded"}

(* A waiting item leaves the queue only by a report, unless it is a        *)
(* snapshot and another waiting item of its slot takes over the newest     *)
(* text; no retention job and no other enqueue drops it.                   *)
NoWaitingItemDropped ==
    [][\A i \in Ids :
          Pending(i) /\ item'[i].status # "pending" =>
              \/ \E w \in Workers : Accepts(w, i)
              \/ \E j \in Ids : /\ j # i
                                /\ item'[j].status = "pending"
                                /\ item[i].kind = "replace"
                                /\ item'[j].kind = "replace"
                                /\ item'[j].key = item[i].key
                                /\ item'[j].text = newest'[item[i].key]]_vars

(* While a worker holds an item, only that worker's own outcome settles it *)
(* or counts as an attempt: a late report of the previous holder changes   *)
(* nothing.                                                                *)
HolderDecides ==
    [][\A i \in Ids : \A w \in Workers :
          /\ Pending(i) /\ item[i].by = w
          /\ item'[i].status \notin {"pending", "superseded"}
             \/ item'[i].attempts # item[i].attempts
          => Payload(w)[i] # "none"]_vars

(* Every enqueued item stops waiting: it is delivered, replaced by a newer *)
(* snapshot, or dead after MaxAttempts, in spite of crashes, lost pulls,   *)
(* lost reports and failing sends.                                         *)
EveryItemSettles == \A i \in Ids : Pending(i) ~> ~Pending(i)

(* The outbox keeps its promise to the services that enqueue. *)
Stage(i) == CASE item[i].status = "unused"     -> "absent"
              [] item[i].status = "pending"    -> "waiting"
              [] item[i].status = "superseded" -> "replaced"
              [] item[i].status = "pruned"     -> "gone"
              [] OTHER                         -> item[i].status

Shown == {a.id : a \in acks}

Promise == INSTANCE OutboxPromise WITH stage <- [i \in Ids |-> Stage(i)],
                                       shown <- Shown

KeepsPromise == Promise!Spec

(* The inductive invariant behind DeliveredWasShown and NewestSnapshotKept. *)

AttemptsLeft == \A i \in Ids : Pending(i) => item[i].attempts < MaxAttempts

(* The ids below nextId were appended, and nothing refers to any other. *)
IdsInOrder ==
    /\ \A i \in Ids : item[i].status # "unused" <=> i < nextId
    /\ \A a \in acks : a.id < nextId
    /\ \A w \in Workers : \A m \in batch[w] : m.id < nextId

CopiesFaithful ==
    \A w \in Workers : \A m \in batch[w] :
        item[m.id].kind # "replace" => m.text = item[m.id].text

Acked(i) == \E a \in acks : a.id = i /\ (item[i].kind # "replace" => a.text = item[i].text)

(* Whatever a worker will report as a success was acknowledged. *)
SuccessesAcked ==
    \A w \in Workers : \A i \in Ids :
        results[w][i] = "ok" \/ backlog[w][i] = "ok" \/ i \in receipts[w] => Acked(i)

DeliveryInv == /\ IdsInOrder
               /\ CopiesFaithful
               /\ SuccessesAcked
               /\ DeliveredWasShown
               /\ NewestSnapshotKept

(* Why one bot process never repeats itself (MaxLive = 1) *)

(* One process at a time. *)
Alone == \A u, v \in Running : u = v

(* What a process holds fits its phase; a pulled copy is not one it has    *)
(* had acknowledged before.                                                *)
BatchIsNew ==
    \A w \in Workers :
        /\ w \notin Running => mine[w] = {}
        /\ pc[w] # "delivering" => batch[w] = {}
        /\ pc[w] \in {"off", "idle"} => results[w] = NoResult
        /\ \A m \in batch[w] : m.id \notin mine[w]
        /\ \A m, n \in batch[w] : m.id = n.id => m = n

(* An acknowledged item that still waits has a success to report, *)
AckIsOnItsWay ==
    \A w \in Workers : \A i \in mine[w] :
        /\ item[i].status # "unused"
        /\ Pending(i) => /\ pc[w] = "idle" => backlog[w][i] = "ok"
                         /\ pc[w] # "idle" => results[w][i] = "ok"

(* and the backend will take it: nobody else has leased the item since.    *)
HeldHere ==
    \A w \in Workers : \A i \in Ids :
        (i \in mine[w] \/ \E m \in batch[w] : m.id = i) /\ Pending(i) =>
            item[i].by \in {NoWorker, w}

OnceInv == Alone /\ BatchIsNew /\ AckIsOnItsWay /\ HeldHere /\ OneAckPerWorker

(* What the comments say. *)

(* "Telegram stream follows the newest text only": when every snapshot of  *)
(* a live message has been delivered, the message shows the newest one.    *)
SettledStreamShowsNewest ==
    \A k \in Keys :
        /\ newest[k] # 0
        /\ \A i \in Ids : item[i].kind = "replace" /\ item[i].key = k =>
                           item[i].status \in {"unused", "superseded", "delivered"}
        => screen[k] = newest[k]

=============================================================================
