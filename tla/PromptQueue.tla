------------------------------ MODULE PromptQueue ------------------------------
(***************************************************************************)
(* The buffered prompt queue between Telegram and OpenCode                 *)
(* (telegram-prompt-queue.service.ts over telegram-prompt-queue.store.ts): *)
(* incoming messages are debounced in a buffer per project, turned into    *)
(* queue items, and dispatched to OpenCode one turn at a time.             *)
(*                                                                         *)
(* Every store call reads and rewrites one JSON file synchronously and the *)
(* service runs on one event loop, so what lies between two real awaits is *)
(* one action.  The awaits are the attachment download (materializeBuffer) *)
(* and the dispatch and cleanup of a turn (runQueue).  A restart loses the *)
(* timers, the downloads and the dispatch loops, and keeps the file and    *)
(* the downloaded attachments.                                             *)
(*                                                                         *)
(* The model is the queue of one admin, so a queue key is a project.       *)
(* Items are appended in order and keep it: an item's id is its creation   *)
(* index.                                                                  *)
(***************************************************************************)
EXTENDS Naturals, FiniteSets, Sequences

CONSTANTS
    Projects,     \* queue keys: admin id and project directory
    Texts,        \* bound: messages without attachment
    Attachments,  \* bound: messages with an attachment, captioned or not
    Systems,      \* bound: prompts the backend enqueues itself
    NoProject,    \* the message has not been sent yet
    MaxItems,     \* bound: items ever appended
    MaxRestarts,  \* bound: backend restarts
    KeepTerminal  \* MAX_TERMINAL_ITEMS_TO_KEEP

ASSUME ProjectsAssumption == NoProject \notin Projects
ASSUME MessagesAssumption == /\ Texts \cap Attachments = {}
                             /\ Systems \cap (Texts \cup Attachments) = {}
ASSUME BoundsAssumption   == /\ MaxItems \in Nat /\ MaxRestarts \in Nat
                             /\ KeepTerminal \in Nat \ {0}

Messages == Texts \cup Attachments \cup Systems
Ids      == 1 .. MaxItems
NoTurn   == 0

(* "pruned" items have been filtered out of the file. *)
Statuses    == {"unused", "pending", "running", "completed", "failed", "pruned"}
Outstanding == {"pending", "running"}
Ended       == {"completed", "failed", "pruned"}

Item   == [project : Projects \cup {NoProject}, messages : SUBSET Messages,
           status : Statuses]
Buffer == [mode : {"plain_text", "attachment_context"},
           messages : SUBSET (Texts \cup Attachments)]
Flight == [project : Projects, messages : SUBSET (Texts \cup Attachments)]

VARIABLES
    sent,      \* per message: the project it was accepted for
    buffers,   \* per project: the buffers of its key, in file order
    item,      \* the queue items of the file, by id
    nextId,    \* id the next appended item gets
    files,     \* items whose downloaded attachments are on disk
    timers,    \* projects with an armed flush timer
    flights,   \* attachment downloads under way, with their buffer snapshot
    lane,      \* per project: the item its dispatch loop works on
    refused,   \* history: messages the admin was told could not be prepared
    collided,  \* history: projects whose buffer was touched in an unsafe moment
    restarts   \* history: number of backend restarts

memory == <<timers, flights, lane>>
file   == <<buffers, item, nextId, files>>
vars   == <<sent, file, memory, refused, collided, restarts>>

Init ==
    /\ sent = [m \in Messages |-> NoProject]
    /\ buffers = [p \in Projects |-> <<>>]
    /\ item = [i \in Ids |-> [project |-> NoProject, messages |-> {}, status |-> "unused"]]
    /\ nextId = 1
    /\ files = {}
    /\ timers = {}
    /\ flights = {}
    /\ lane = [p \in Projects |-> NoTurn]
    /\ refused = {}
    /\ collided = {}
    /\ restarts = 0

-----------------------------------------------------------------------------
(* The dispatch loop: claim and pump *)

Waiting(f, p) == {i \in Ids : f[i].project = p /\ f[i].status = "pending"}

(* Faulty variant: the empty queue is not noticed. *)
NextTurnUnchecked(f, p) ==
    CHOOSE i \in Waiting(f, p) \cup {MaxItems + 1} :
        \A j \in Waiting(f, p) : i <= j

(* claimNextPendingItem: the oldest pending item of the key, if any. *)
NextTurn(f, p) ==
    IF Waiting(f, p) = {} THEN NoTurn
    ELSE CHOOSE i \in Waiting(f, p) : \A j \in Waiting(f, p) : i <= j

(* The loops of P claim their next turn from file f, or end. *)
Claim(f, P) ==
    /\ item' = [i \in Ids |-> IF \E p \in P : NextTurn(f, p) = i
                              THEN [f[i] EXCEPT !.status = "running"]
                              ELSE f[i]]
    /\ lane' = [p \in Projects |-> IF p \in P THEN NextTurn(f, p) ELSE lane[p]]

(* Faulty variant: a new item does not wake the loop. *)
PumpForgotten(f, p) == Claim(f, {})

(* pumpQueue: one loop per key. *)
Pump(f, p) == Claim(f, {q \in {p} : lane[q] = NoTurn})

AppendItem(p, ms) ==
    [item EXCEPT ![nextId] = [project |-> p, messages |-> ms, status |-> "pending"]]

(* enqueueItem, then pumpQueue *)
EnqueueItem(p, ms) ==
    /\ nextId <= MaxItems
    /\ nextId' = nextId + 1
    /\ Pump(AppendItem(p, ms), p)

-----------------------------------------------------------------------------
(* Incoming messages *)

(* Faulty variant: every message opens a buffer that absorbs the next one. *)
NewMergingBuffer(m) == [mode |-> "attachment_context", messages |-> {m}]

(* resolveMergeMode *)
NewBuffer(m) ==
    [mode |-> IF m \in Attachments THEN "attachment_context" ELSE "plain_text",
     messages |-> {m}]

HeadMode(p) == IF buffers[p] = <<>> THEN "none" ELSE Head(buffers[p]).mode

(* appendBuffer: merge into the first buffer of the key when that one has  *)
(* attachment context, else add a buffer behind it.                        *)
AppendBuffer(p, m) ==
    IF HeadMode(p) = "attachment_context"
    THEN [buffers[p] EXCEPT ![1].messages = @ \cup {m}]
    ELSE Append(buffers[p], NewBuffer(m))

(* Distinct texts become separate turns. *)
SplitsText(p, m) == HeadMode(p) = "plain_text" /\ m \in Texts

Downloading(p) == \E f \in flights : f.project = p

(* The two moments in which a message does not survive its own buffer: an  *)
(* attachment behind a buffered text, anything during a download.          *)
Unsafe(p, m) == \/ HeadMode(p) = "plain_text" /\ m \in Attachments
                \/ Downloading(p)

Accept(m, p) ==
    /\ sent[m] = NoProject
    /\ sent' = [sent EXCEPT ![m] = p]
    /\ collided' = IF Unsafe(p, m) THEN collided \cup {p} ELSE collided
    /\ timers' = timers \cup {p}

(* enqueueIncomingPrompt, the usual case *)
Incoming(m, p) ==
    /\ m \in Texts \cup Attachments
    /\ ~SplitsText(p, m)
    /\ Accept(m, p)
    /\ buffers' = [buffers EXCEPT ![p] = AppendBuffer(p, m)]
    /\ UNCHANGED <<item, nextId, files, flights, lane, refused, restarts>>

(* A second text first flushes the buffered one (flushBufferNow). *)
IncomingSplit(m, p) ==
    /\ m \in Texts \cup Attachments
    /\ SplitsText(p, m)
    /\ Accept(m, p)
    /\ EnqueueItem(p, Head(buffers[p]).messages)
    /\ buffers' = [buffers EXCEPT ![p] = <<NewBuffer(m)>>]
    /\ UNCHANGED <<files, flights, refused, restarts>>

(* enqueueSystemPrompt bypasses the buffer. *)
SystemPrompt(m, p) ==
    /\ m \in Systems
    /\ sent[m] = NoProject
    /\ sent' = [sent EXCEPT ![m] = p]
    /\ EnqueueItem(p, {m})
    /\ UNCHANGED <<buffers, files, timers, flights, refused, collided, restarts>>

-----------------------------------------------------------------------------
(* The flush timer and materializeBuffer *)

RemoveBuffer(p) == buffers' = [buffers EXCEPT ![p] = <<>>]

(* The timer fires and finds nothing: a download has removed the buffer. *)
FlushNothing(p) ==
    /\ p \in timers
    /\ buffers[p] = <<>>
    /\ timers' = timers \ {p}
    /\ UNCHANGED <<sent, file, flights, lane, refused, collided, restarts>>

FlushText(p) ==
    /\ p \in timers
    /\ HeadMode(p) = "plain_text"
    /\ timers' = timers \ {p}
    /\ EnqueueItem(p, Head(buffers[p]).messages)
    /\ RemoveBuffer(p)
    /\ UNCHANGED <<sent, files, flights, refused, collided, restarts>>

(* Faulty variant: the buffer leaves the file before the download. *)
FlushAttachmentsEarly(p) ==
    /\ p \in timers
    /\ HeadMode(p) = "attachment_context"
    /\ timers' = timers \ {p}
    /\ flights' = flights \cup {[project |-> p, messages |-> Head(buffers[p]).messages]}
    /\ RemoveBuffer(p)
    /\ UNCHANGED <<sent, item, nextId, files, lane, refused, collided, restarts>>

(* The download starts from a snapshot; the buffer stays in the file. *)
FlushAttachments(p) ==
    /\ p \in timers
    /\ HeadMode(p) = "attachment_context"
    /\ timers' = timers \ {p}
    /\ flights' = flights \cup {[project |-> p, messages |-> Head(buffers[p]).messages]}
    /\ UNCHANGED <<sent, file, lane, refused, collided, restarts>>

(* removeBuffer drops every buffer of the key. *)
DownloadDone(f) ==
    /\ f \in flights
    /\ flights' = flights \ {f}
    /\ EnqueueItem(f.project, f.messages)
    /\ files' = files \cup {nextId}
    /\ RemoveBuffer(f.project)
    /\ UNCHANGED <<sent, timers, refused, collided, restarts>>

(* getFile or the download fails or times out: the admin is told. *)
DownloadFails(f) ==
    /\ f \in flights
    /\ flights' = flights \ {f}
    /\ RemoveBuffer(f.project)
    /\ refused' = refused \cup f.messages
    /\ UNCHANGED <<sent, item, nextId, files, timers, lane, collided, restarts>>

-----------------------------------------------------------------------------
(* The turn in OpenCode (runQueue) *)

(* pruneTerminalItems: the newest ended items stay, the one that just      *)
(* ended among them.  Which of the older ones go depends on their clocks.  *)
Pruned(f, i) ==
    LET done == {j \in Ids : f[j].status \in {"completed", "failed"}}
    IN  {[j \in Ids |-> IF j \in D THEN [f[j] EXCEPT !.status = "pruned"] ELSE f[j]] :
            D \in {E \in SUBSET (done \ {i}) :
                      IF Cardinality(done) <= KeepTerminal
                      THEN E = {}
                      ELSE Cardinality(done \ E) = KeepTerminal}}

(* dispatchPromptParts returned or threw: markCompleted or markFailed. *)
DispatchEnds(p) ==
    LET i == lane[p]
    IN  /\ i # NoTurn
        /\ item[i].status = "running"
        /\ \E outcome \in {"completed", "failed"} :
              item' \in Pruned([item EXCEPT ![i].status = outcome], i)
        /\ UNCHANGED <<sent, buffers, nextId, files, memory, refused, collided, restarts>>

(* Faulty variant: the attachments of an ended turn are left behind. *)
LeakingCleaned(p) ==
    LET i == lane[p]
    IN  /\ i # NoTurn
        /\ item[i].status \in Ended
        /\ Claim(item, {p})
        /\ UNCHANGED <<sent, buffers, nextId, files, timers, flights, refused, collided, restarts>>

(* deleteFiles, then the loop goes round. *)
Cleaned(p) ==
    LET i == lane[p]
    IN  /\ i # NoTurn
        /\ item[i].status \in Ended
        /\ files' = files \ {i}
        /\ Claim(item, {p})
        /\ UNCHANGED <<sent, buffers, nextId, timers, flights, refused, collided, restarts>>

-----------------------------------------------------------------------------
(* Restart: everything in memory is gone, onModuleInit runs *)

(* Faulty variant: what was running is taken for done. *)
RequeueForgotten(f) == f

(* requeueRunningItems *)
Requeued(f) ==
    [i \in Ids |-> IF f[i].status = "running"
                   THEN [f[i] EXCEPT !.status = "pending"] ELSE f[i]]

(* Timers for all buffers, a pump for every queue key. *)
ModuleInit(f) ==
    /\ restarts < MaxRestarts
    /\ restarts' = restarts + 1
    /\ timers' = {p \in Projects : buffers[p] # <<>>}
    /\ flights' = {}
    /\ Claim(Requeued(f), Projects)
    /\ UNCHANGED <<sent, buffers, refused, collided>>

Restart == ModuleInit(item) /\ UNCHANGED <<nextId, files>>

(* The backend dies between enqueueItem and removeBuffer. *)
RestartAfterText(p) ==
    /\ p \in timers
    /\ HeadMode(p) = "plain_text"
    /\ nextId <= MaxItems
    /\ nextId' = nextId + 1
    /\ ModuleInit(AppendItem(p, Head(buffers[p]).messages))
    /\ UNCHANGED files

RestartAfterDownload(f) ==
    /\ f \in flights
    /\ nextId <= MaxItems
    /\ nextId' = nextId + 1
    /\ files' = files \cup {nextId}
    /\ ModuleInit(AppendItem(f.project, f.messages))

-----------------------------------------------------------------------------
Flush(p) == FlushNothing(p) \/ FlushText(p) \/ FlushAttachments(p)

DownloadEnds(p) ==
    \E f \in flights : f.project = p /\ (DownloadDone(f) \/ DownloadFails(f))

Next ==
    \/ \E p \in Projects :
          \/ \E m \in Messages : Incoming(m, p) \/ IncomingSplit(m, p) \/ SystemPrompt(m, p)
          \/ Flush(p) \/ DownloadEnds(p)
          \/ DispatchEnds(p) \/ Cleaned(p)
          \/ RestartAfterText(p)
    \/ \E f \in flights : RestartAfterDownload(f)
    \/ Restart

Spec == Init /\ [][Next]_vars

(* A set timer fires; Telegram requests are aborted after 15 seconds; a    *)
(* dispatch ends (the HTTP client gives up in the end); rmSync returns.    *)
Fairness == \A p \in Projects : /\ WF_vars(Flush(p))
                                /\ WF_vars(DownloadEnds(p))
                                /\ WF_vars(DispatchEnds(p))
                                /\ WF_vars(Cleaned(p))

FairSpec == Spec /\ Fairness

-----------------------------------------------------------------------------
(* Properties *)

(* The types of all variables. *)
TypeOK ==
    /\ sent \in [Messages -> Projects \cup {NoProject}]
    /\ buffers \in [Projects -> Seq(Buffer)]
    /\ item \in [Ids -> Item]
    /\ nextId \in 1 .. MaxItems + 1
    /\ files \subseteq Ids
    /\ timers \subseteq Projects
    /\ flights \subseteq Flight
    /\ lane \in [Projects -> Ids \cup {NoTurn}]
    /\ refused \subseteq Messages
    /\ collided \subseteq Projects
    /\ restarts \in 0 .. MaxRestarts

(* A turn finds its downloaded attachments as long as it may still be      *)
(* dispatched; and without a restart no file outlives its turn's cleanup.  *)
FilesFollowTurns ==
    \A i \in Ids :
        /\ item[i].status \in Outstanding /\ item[i].messages \cap Attachments # {}
              => i \in files
        /\ i \in files /\ restarts = 0
              => \/ item[i].status \in Outstanding
                 \/ \E p \in Projects : lane[p] = i

InBuffer(m, p) == \E n \in DOMAIN buffers[p] : m \in buffers[p][n].messages
TurnsOf(m)     == {i \in Ids : m \in item[i].messages}

(* "Convert due debounce buffer into a durable queue item exactly once":   *)
(* outside the two unsafe moments an accepted message is in its project's  *)
(* buffer, in one turn, or reported as refused, never nowhere; a restart   *)
(* may repeat it but never loses it.                                       *)
NothingLost ==
    \A m \in Messages :
        /\ sent[m] \in Projects \ collided
        => /\ InBuffer(m, sent[m]) \/ TurnsOf(m) # {} \/ m \in refused
           /\ restarts = 0 =>
                 Cardinality(TurnsOf(m))
                   + (IF InBuffer(m, sent[m]) THEN 1 ELSE 0)
                   + (IF m \in refused THEN 1 ELSE 0) = 1

(* "Plain text must remain one user message per turn": only a turn with an *)
(* attachment holds more than one message.                                 *)
TextsStayApart ==
    \A i \in Ids : item[i].messages \cap Attachments = {} =>
                       Cardinality(item[i].messages) <= 1

(* Every queued turn comes to its end, whatever else is queued, lost or    *)
(* restarted.                                                              *)
EveryTurnEnds ==
    \A i \in Ids : item[i].status = "pending" ~> item[i].status \in Ended

(* The turns of the queue as the lanes of SerialTurns. *)
Lanes == INSTANCE SerialTurns
             WITH Turns <- Ids,
                  owner <- [i \in Ids |-> item[i].project],
                  stage <- [i \in Ids |->
                      IF item[i].status \in {"completed", "failed", "pruned"}
                      THEN "ended" ELSE item[i].status]

(* The queue is a serial lane per project: OpenCode gets one turn of a     *)
(* project at a time, in the order they were queued, whatever timers,      *)
(* downloads, system prompts and restarts pump the queue (service:301).    *)
KeepsLanes == Lanes!Spec

(* What the comment says without the exception: every accepted message is  *)
(* in the buffer, in exactly one turn, or refused, as long as the backend  *)
(* was not restarted.                                                      *)
ExactlyOnce ==
    \A m \in Messages :
        sent[m] # NoProject /\ restarts = 0 =>
            Cardinality(TurnsOf(m))
              + (IF InBuffer(m, sent[m]) THEN 1 ELSE 0)
              + (IF m \in refused THEN 1 ELSE 0) = 1

=============================================================================
