# TLA+ models of Remote Vibe Station

Remote Vibe Station lets an administrator drive OpenCode sessions on a server
from Telegram and from a Mini App. A NestJS backend keeps its state in JSON
files, a bot process talks to Telegram, OpenCode runs the turns, a React app
shows it all. The models cover the parts whose correctness depends on the order
in which independent actors take their steps.

Paths are relative to `services/` of the repository; `backend`, `bot` and
`miniapp` stand for `services/backend/src`, `services/bot/src` and
`services/miniapp/src`.

## 1. The system

| Part | State | Operations | Talks to |
|---|---|---|---|
| Telegram outbox, `backend/telegram/outbox` | `outbox.json`: items with mode, text, attempts, lease, retry time | enqueue, pull, report, prune | whoever enqueues; the bot by HTTP |
| Outbox worker, `bot/outbox-worker.ts` | receipts, unanswered reports, live messages, typing | pull, deliver, report | outbox, Telegram |
| Prompt queue, `backend/telegram/prompt-queue` | buffers and items in a file; timers, downloads, loops in memory | incoming prompt, flush, download, dispatch, clean up, recover | Telegram files, prompt service |
| Kanban board, `backend/kanban/kanban.service.ts`, `.store.ts` | `kanban.tasks.json` | create, patch, delete, criteria, start, claim | Mini App, agents' tools, runner |
| Kanban runner and barrier, `kanban-runner*.ts` | running and pending projects, timers, barrier file | run, react to events, capture and release replies | board, OpenCode, outbox events |
| Session continuation, `kanban-session-continuation.*` | delivery barriers and stop flags per session | capture, release, continue, stop, reconcile | board, prompt queue, outbox events |
| Streaming bridges, `backend/telegram` | turn state, parts, live text, checklist, file notes | OpenCode events, the HTTP answer | OpenCode, outbox |
| OpenCode access, `backend/open-code` | event connections, selected session, busy state | prompt, abort, rotate, answer questions | OpenCode |
| Updates, services, proxy, accounts, projects, settings, skills | files, containers, memory | request handlers of several steps | docker, git, OpenCode, CLIProxy |
| Bot front end | web sign-ins, pending prompts, mode menu | updates and callbacks | Telegram, backend |
| Mini App | screens, loads under way, drafts | user, WebSocket events, late answers | backend |

What is hard, and what right means:

* **Outbox and worker.** Two processes and Telegram without a transaction over
  them: lost answers, leases that run out in mid-delivery, overlapping bot
  processes, snapshots rewritten while somebody holds them. Right means:
  booked as delivered only after an acknowledgement, the newest snapshot kept,
  late reports without effect, every item settled.
* **Prompt queue.** Timer, download, system prompt, end of a turn and startup all
  pump it; downloads work on a snapshot of a buffer that keeps changing. Right
  means: one turn at a time, in order, nothing lost, files as long as their turn.
* **Board, runner, continuation.** People, sessions and the runner change the same
  task between another's awaits. Right means: status, checklist and ownership
  agree, an owner is not displaced, one run per project, nothing goes on before
  its reply is delivered or after a stop.
* **Request handlers of several steps.** Each is interrupted by failures, crashes
  and by another request. Right means: what was there before survives, and what
  is recorded is what happened.
* **Screens.** Answers arrive late and out of order, connections break, the user
  moves on. Right means: a screen that waits for nothing shows the truth, and a
  late answer harms nothing.

`PROJECT.json` lists each hazard at its line with the property about it.

## 2. Modules

One action per handler, or per stretch of a handler between two real awaits.
Variables named as bookkeeping or history in their module count bounds or
remember what a property needs; no guard of the code reads them. Definitions
called "Faulty variant" belong to no specification: each is a plausible bug of
the definition it stands for, paired in `PROJECT.json` with the property that
notices it.

| Module | Content |
|---|---|
| `TelegramOutbox` | outbox store and bot processes |
| `OutboxPromise` | what the outbox promises: waiting, acknowledged, settled, never again |
| `PromptQueue` | buffers, downloads, dispatch loops, restarts |
| `SerialTurns` | what the queue promises: a serial lane of turns per project |
| `KanbanBoard` | the board and everyone who writes it |
| `KanbanRunner` | extends the board by the runner, its barrier, deliveries, restarts |
| `KanbanSession` | extends the board by session continuation, a lane of prompts, restarts |
| `StreamingTurn` | one session's turns over SSE and HTTP, to the chat |
| `OpenCodeSessions` | who uses which session of a directory; busy, abort, rotate |
| `Approvals` | questions and permissions, answered by buttons |
| `RuntimeUpdates` | self-update and rollback of the runtime; updates of OpenCode |
| `RuntimeServices` | dashboard of services, its snapshots and restarts |
| `CliproxyAccounts` | activating, testing and deleting accounts flag by flag |
| `ProviderAccounts` | logins of model providers, and the cards of CLIProxy accounts |
| `ProxySettings` | proxy profile, generated files, containers, and its form |
| `ProjectFolders` | create, clone and delete folders; compose, selection, registry, sweep |
| `OpenCodeProjectSync` | making folders known to OpenCode |
| `BoardStore`, `AtomicBoard` | the board's file, step by step, and what it promises |
| `KanbanTools` | the tools of agents and the routes behind them |
| `AgentMedia` | files an agent sends to a chat, and their retention |
| `ChatNotes` | checklist of todos; notes of changed files with their previews |
| `BotPrompts` | what the bot does with texts, voice notes, slash commands |
| `ModePreferences` | the /mode menu over lists that change |
| `WebAuth` | one-time links and cookies of the OpenCode access |
| `BrowserSession` | the Mini App's bearer token: issue, refresh, expiry |
| `EventHub` | ring of events and its replay, used by three screens |
| `LiveBoard`, `LiveTerminal`, `ProjectScreen`, `ProjectCards` | board, terminal, files tab, project and git cards of the Mini App |
| `TaskForms` | the dialog that creates tasks, with its drafts, and the one that edits |
| `SettingsEditor`, `SkillCatalog` | settings files and skills, from the tab to the file |
| `MCServices` | 29 parts that share no state, for one run |
| `MCTelegramOutbox`, `MCKanban`, `MCKanbanRunner` | values and symmetry for TLC |
| `*Proofs` | theorems (section 4) |

Correspondence, where it is not obvious:

* **TelegramOutbox.** `item` is the file, by creation index. A handler reads and
  writes the file synchronously: one action. Time is three flags per item (lease
  runs, retry due, inside the duplicate window), and each may pass at any moment.
  A delivery may succeed, fail, be applied although the call failed, or be refused
  as unmodified; a report may be answered, lost before or lost after the store
  wrote. A crash loses the worker's memory. `acks`, `mine`, `repeats`: history.
* **PromptQueue.** One action lies between two awaits: the download, the dispatch,
  the cleanup. The file and the downloads survive a restart, `timers`, `flights`,
  `lane` do not. `collided` names the two moments in which a message does not
  survive: an attachment behind a buffered text, and any message during a download.
* **KanbanBoard.** `KanbanStore.transact` serialises operations and writes nothing
  when one throws: an operation is one action whose guard is what it refuses.
  (`BoardStore` shows why that is allowed.) `origin` is history: the last status a
  task had while not blocked. Order, texts and timelines are left out.
* **KanbanRunner.** `run.loops[l]` is a `runProject` call with the await it stands
  at. `EventsService.publish` calls its subscribers synchronously: a mutation, its
  event and the runner's reaction are one action. `setTaskSessionId` is an action
  here and not of the board: it is the one writer that ignores the owner.
* **KanbanSession.** A step ends at an await of the service: the board is listed
  once when a reply is captured and again when it has been delivered. The prompt
  queue is a lane of prompts; `diary` is history.
* **MCServices.** `part` names what a behaviour is about; the other parts keep their
  initial state. A property about several parts is their conjunction, so one run
  asks the same question of each; `PartOnly` is the view, as only the state of the
  part tells states apart.
* **Screens.** A load is a record of what it asked for and of the version it saw;
  `EventHub` gives the frames a socket is sent. Where a screen may really stay
  behind, its module names the fault that the code does not make up for, and the
  property excepts it (e.g. `QuietBoardIsCurrent`; section 6 lists what is excepted).
* **LiveTerminal.** A transcript is made of characters out of `Symbols`, each with the
  place it was printed at. `mergeTerminalTranscript` sees the text only: `Overlap` compares
  texts, and `Mistaken` is the case in which the end of the snapshot only reads like the
  beginning of the live tail: output is lost, and `TerminalIsWhole` excepts it.

## 3. Runs

| Run | Question | Answer |
|---|---|---|
| `outbox_delivery` | Are bookings and snapshots right with two processes, crashes, lost calls? Does the store keep `OutboxPromise`? | holds |
| `outbox_liveness` | Does every item of every kind settle, each acknowledged once per process? | holds |
| `outbox_stream` | "Telegram stream follows the newest text only" | violated: a late report settles a rewritten snapshot |
| `prompt_turns` | Are turns serial, ordered, complete, with their files, and do they end? | holds |
| `prompt_exactly_once` | Buffer to item "exactly once" | violated: a photo behind a text is dropped |
| `board_rules` | Board: do status, checklist, ownership, origin agree, do owners keep tasks? Continuation: only own, unfinished work, after the delivery, never after a stop? | holds |
| `session_hands_off` | "starts the next queued task after a done task reply is fully delivered" | violated: the done task has no session when the reply is captured |
| `runner_turns` | One run per project, next task after the reply, across a restart? | holds |
| `runner_resume` | Does unfinished work go on in spite of early wake-ups? | holds |
| `runner_owner` | "A running owner keeps exclusive execution rights" with the runner's awaits | violated: `setTaskSessionId` overwrites the owner |
| `runner_barrier` | "Delivery confirmations advance handoff barriers chunk-by-chunk" | violated: a merged chunk has no group |
| `services` | For each of 29 parts: is what it promises kept under its faults? | holds |

The properties of `services`: `ChatReadsWell` (streamed turns), `AgentsAreAnswered`
(sessions, approvals), `ModelsAreReached` (accounts, proxy),
`QuietScreensAreCurrent` (board, terminal, files, cards, skills, settings, services,
logins, accounts' cards), `SignInIsKept` (web sign-ins), `NothingIsDropped` (media, prompts, file
notes), `ShownIsTrue` (project status and selection), `PressedOnce` (drafts, skills,
sync), `OneWorks` (agents' tools); and of steps `UpdatesAreSafe` (runtime,
OpenCode), `DataIsKept` (board file, folders, typed words, settings files,
checklists), `StoresWhatWasChosen` (mode menu), `SessionFollowsActivity` (browser
session), `SavesKeepWork` (edit dialog).

Bounds, and why they suffice:

* Outbox: two items let one be leased while another is appended or coalesced; two
  attempts separate retry from giving up; three texts separate old, rewritten and
  newest; two workers make two incarnations or two rivals. `InBounds` cuts
  `outbox_delivery` where both two processes run and two items exist, since two
  items to fight for only multiply one. `outbox_liveness` has one process at
  a time, with all kinds of item, and one item per pull, so that one stays behind.
* Queue: two texts, one attachment and a system prompt meet in one project in every
  order, with one restart; five items leave room for the repetitions a restart makes.
  One project, as keys share nothing but the file.
* Board: two tasks for "another active task", two criteria to block one and finish
  the other, two sessions to compete. New checklists are uniform, updates mix them.
  Continuation: two replies of two parts, a stop, other work and one restart.
* Runner: two tasks (one finished, one waiting), two sessions, a reply of two
  chunks, one restart, no checklist; `runner_resume` has one task with a criterion,
  a failing run and a restart. Two loop slots let an overlap show. Later turns
  than `MaxTurns` go to nobody, as they do when no chat is bound.
* Services: each part has the two actors, two objects and one fault that its hazard
  takes (two windows and two accounts, two shells that print two kinds of character, a board that is opened and then shown another project, a backup that is pruned for the next, three drafts' writes, ...); a
  bound is named at the constant that it limits.

Deadlock checking is off: the bounds, and a system that has nothing to do, stop
legitimately.

Fairness. `outbox_liveness`: the worker's loop is a timer that always comes back
(weak fairness of starting, delivering, reporting), leases and retries pass with
time, and pulling is strongly fair, as not every answer is lost. `prompt_turns`:
timers fire, downloads end because of their timeout, a dispatch returns or throws,
cleanup always runs. `runner_resume`: awaited calls return and timers fire; a
session that is found busy is found idle eventually (strong fairness of
`EnsureSession`). People, sessions, deliveries, errors and restarts are never forced.

## 4. Proofs

`tlapm` checks eight modules, for every value of the constants that the named
assumptions of the modules admit: bounds are natural numbers, distinguished values
(no worker, no project, the runner, the default agent, ...) are none of the values they
are distinguished from, and lists that stand for inputs have the shape their code
gives them. An invariant is seldom inductive alone; below is what each one needed.

**`DeliveryProofs`**, the outbox. Types need `AttemptsLeft` (a waiting item has attempts
left). `DeliveredWasShown` is not inductive, since a report is believed: what a
worker may report must be known to be acknowledged. `DeliveryInv` adds that
(`SuccessesAcked`), that a pulled copy of an item that is never coalesced has the
stored text (`CopiesFaithful`), and that nothing refers to an item not yet appended
(`IdsInOrder`). `HolderDecides`, `NoWaitingItemDropped` and the refinement of
`OutboxPromise` follow action by action. `OneAckPerWorker` needs `OnceInv`, which
knows for each copy whether it is unsent, sent or receipted, and the hypothesis
`MaxLive = 1`: with two processes side by side one may take an item back
whose lease ran out while it was sending, and send it twice.

**`PromptQueueProofs`.** `LaneInv` (an item runs exactly while its project's loop
works on it, nothing waits without a loop), `BufferInv`, `MessageInv`, `DownloadInv`
and `PlaceInv` carry `FilesFollowTurns`, `TextsStayApart`, `NothingLost`, and the
refinement of `SerialTurns`, restarts included.

**`KanbanBoardProofs`.** `BoardInv` is a predicate of one task and its history:
`Listed` (checklist and status), `Whole` (ownership), `Rooted` (a blocked task
remembers its origin; any other has its own status as origin and nothing to come
back to). Each operation has a lemma that the record it writes is good, and
`SaveKeepsGood` lifts that to the board. `Proper` is the same for steps, and gives
`OwnerKeepsTask` and the entry into execution. `SessionTypeOK` includes the types of the board.

**`KanbanRunnerProofs`.** `RunnerGood` is `BoardInv` with `RunInv` (the scheduling
flags are a function of what the loops do, so no wake-up starts a second one),
`ReplyInv` (the barrier holds chunks of the reply it was taken from), `WaitInv`
(what `Select` saw of the barrier stays true over the awaits until the task is
started) and `CountInv`. The board keeps its invariant under `setTaskSessionId` too.

**`DeliveryProofs`**, the session continuation. `KeptInv` types the file, the outbox and the lane;
`MirrorInv`: an entry, wherever it is held, is about a reply of its own session and
waits for every part Telegram does not have; `CallInv`: no reply is continued twice
at a time; `StopInv`: a stop is in the file before anything can pass it.

**`BackendProofs`.** One invariant per component, each of a typed part and of what
overlapping requests leave true:

| Component | Invariant | Theorem |
|---|---|---|
| Project folders | `FoldersInv`: what a command, a selection, a deletion and a clone know between their steps | `ShownStatusIsTrue`, `WorkAndRecordsAreKept` |
| Updates | `UpdateInv`: an updater alone knows the `.env` it found; `RuntimeInv`: a script alone knows the release it looked up | `UpdatesGoBack`, `ReleasesGoForward` |
| Board file | `StoreInv`: one call holds the promise queue, what it read is the file, and a backup is some earlier content | `BoardStoreIsAtomic` (the file implements `AtomicBoard`) |
| Settings editor (in `ClientProofs`) | `SetupInv`: a text belongs to the file it came from unless answers crossed; `SavedInv`: while one save at a time is under way, its answer is about the text that the file now holds | `FilesAreNotMixedUp`, `SavedMeansSavedInServices` |
| Project sync | `SyncInv`: a session that a pass opened is owned by that pass until it is dropped | part of `PressedOnceInServices` |
| Agents' tools | `ToolInv`: whoever was told that the task is theirs holds it or lost its lease | part of `OneWorksInServices` |
| OpenCode sessions, approvals | `TalkInv`: a run belongs to the caller that waits for it; `ApprovalInv`: a step's answer was pressed on that step | part of `AgentsAreAnsweredInServices` |
| CLIProxy accounts | `AccountsInv`: a request that nothing overlapped has seen the flags as they are, keeps its target enabled, and the successor it tested before it disables what it replaces | `ProvidersKeepAnAccount` |
| Services' dashboard (in `ClientProofs`) | `FleetInv`: a snapshot is true of every service that did not change since; a busy service is restarting or waits for one snapshot, and from that one on none shows the container before | `ServicesAreShownInServices` |
| Outbound proxy | `ProxyInv`: a stored profile is valid, a request alone has written what it read, containers run what was applied, a saved link was tested | `ProxyFollowsProfile` |

**`ClientProofs`.** The same for bot and Mini App: `AuthInv` (`LineInv`: one
operation acts at a time; `FileInv`: what it works on is the file as it is;
`AnswerInv`, `CookieInv`) for `SignInsAreKept`; `DealtInv` for what the bot owes a
message; `FormInv` and `DraftInv` for `DraftsAreKept`; `ModesInv` for
`ChosenModesAreStored`; `BrowserInv` for `SessionsFollowActivity`; `EditorInv` for
`OldCopiesDoNoHarm` (a save that was not meant to move the task says the status of a
copy of the board, and the service leaves execution alone for every such copy).

**`ScreenProofs`.** `MediaInv` with lemmas about filtering the outbox, the order of the
checklist for `ChecklistsOnlyAdvance`, `NotesInv`, `SkillsInv`; and the two longest
arguments of the project, about screens and about the chat.

*Screens* (`QuietScreensInServices`). "A quiet screen is current" says nothing of a
screen that waits for something. Its invariant says what there is to wait for: for each
thing that differs from the server, a load, a frame, a timer or an event that will
bring it, unless the fault happened that the property excepts.

| Screen | Invariant |
|---|---|
| Board | `BoardInv`: for each project the newest version is shown, or read by a load, or a timer, a frame on the socket or an event still in the ring leads to a load; loads never read the future |
| Terminal | `TerminalInv`: once the snapshot is read and nothing was lost, each character of the shell's output is in a frame, or shown, or, until the tab has merged them, in the snapshot or the tail; merging drops only what the snapshot has, unless it is `Mistaken`; all are of one project |
| Files | `FileTabInv`: a timer or an announced change will load the folder again, or the last load has not read it yet or read the newest version, or that is shown |
| Project and git cards | `CardsInv`: an outdated card has a request of the newest number that reads it late enough, or one that goes on to ask |
| Skills | `CatalogInv`: the newest search is for the query as it is and reads the catalog as it is; older ones are dropped |
| Settings, services | `SavedInv`, `FleetInv` (table above) |
| Logins, accounts | `LoginInv`, `CardInv`: as long as no load overtook another, a load says what is so; an operation that changed it has its own load to come |

The terminal and project cards are in `ClientProofs`, logins and accounts in
`BackendProofs`: the modules are split so that each is checked in comparable time.

*The chat* (`ChatReadsWellInServices`). That no words stand in two messages depends on
the whole history of a turn, as the bridge sends commentary when a text is closed by
what follows it, and the final reply when HTTP answers, in either order. `StreamInv`
is, apart from types (`StreamTyped`) and the agent's own record (`AgentInv`,
`EventInv`), while the subscription has missed nothing (`WholeInv`):

* `TurnOrderInv`: the events of the turn that have not arrived come in the order of its
  parts, and none is missing between them and what the bridge has heard;
* `HeardInv`: what the bridge has heard is an initial part of the turn, its texts are
  closed exactly when something follows them, and the buffer is the words of the texts
  not closed, in order. So nothing that is sent as commentary was sent before;
* `ReplyInv`: until HTTP answers, the last run of texts is in the newest commentary and
  has the same words as that one, or it is in no message. So the final reply repeats a
  message only where the bridge recognises it and edits it instead;
* `MemoryInv`, `ChatInv`: what a closed bridge still remembers is of parts that exist,
  and no bubble has words that the agent has not said.

`IndicatorInv` (no thinking without an open turn) gives the other half,
`QuietBetweenTurns`. The words of a run are a fold over the parts: the lemmas about
`FlattenSeq` (`Glues`, `Flat`) say when two runs have the same words, which is when
they are the same parts.

The proof corrected the property. `TextShownOnce` excepted no repeated event, and TLC
agreed within its bounds; the invariant could not be found because with longer turns it
is false: a repeated snapshot and delta of an earlier turn, or a repeated snapshot of a
step or a reasoning part between two texts, makes the bridge take a text for a new one.
`stream.whole` now ends with exactly the repeats that the bridge does not know again
(`KnownAgain` in `StreamingTurn`), as it does with a broken connection.

**`ServicesProofs`.** `PartsStart` and `PartsTurn` say that a step of the run's
specification keeps every invariant above: a part's own step by its own lemma, any
other because it leaves the part's variables alone. So the conjunctions the run
checks are theorems of `MCSpec` too.

Only model-checked:

* `ServicesTypeOK`, of which the proofs use stronger forms for most parts (`FoldersTyped`,
  `UpdateTyped`, ...), not tied to the counters that it also bounds;
* liveness (`EveryItemSettles`, `EveryTurnEnds`, `WorkGoesOn`): fairness and ENABLED
  are out of this prover's reach.

The faulty variants need no proof; the violated properties of section 3 are refuted.

## 5. Findings

1. `outbox_stream` - `telegram-outbox.store.ts:126`. A rewritten snapshot is
   settled by the report about its old text; the message stays behind.
2. `prompt_exactly_once` - `telegram-prompt-queue.service.ts:277`. `removeBuffer`
   drops a second buffer of the same key that was never materialised.
3. `session_hands_off` - `kanban-session-continuation.service.ts:302`. A done task
   has lost its session when its last reply is captured, so no barrier is taken and
   the next queued task is not started.
4. `runner_owner` - `kanban-runner.service.ts:475`. The runner writes its session
   id into a task that a session has started meanwhile; then neither may go on
   before the lease ends.
5. `runner_barrier` - `telegram-outbox.store.ts:143`. The first chunk of a reply
   may be an item without delivery group; the barrier waits until a restart.

Seen while modelling, of less weight, and without a run of their own:

* two startup passes at once: `warmRecents` may take a passing Bootstrap session for
  a session of the folder and skip it, and two warmers may both open a Home session;
* `apiKeyDraft` (`miniapp/components/ProvidersTab.tsx:81`) stays from one provider's
  form to the next;
* a provider login whose answer was lost leaves a form whose retries are refused;
* a "providers" event refreshes overview and proxy, but not the account cards;
* `mergeTerminalTranscript` (`terminal-output.ts:50`) drops live output that equals the end
  of the snapshot by accident, say a second newline printed after the snapshot was read and
  heard before its answer, although terminal-output.test.ts:36 wants incremental output
  kept. Without its exception `TerminalIsWhole` fails in eight steps;
* overlapping loads of a tab may leave the older list (excepted, with their lines, in
  the properties of the screens).

## 6. What is left out

Left out of the modelled parts: formatting, footers, splitting, Telegram's rate
limits and chat binding (outbox); several admins and projects (queue, runner,
continuation: keys share nothing but a file that is written atomically); board order,
texts and timelines (board); model choice and the backlink (prompts); a docker command whose
effect happened although it reported failure (accounts); damage to files
from outside (except the board's, which recovers from its backups); rendering and
layout of the Mini App. Components marked `partly` in `PROJECT.json` say what of them
is left out; those marked `not_modelled` (GitHub integration, configuration,
installation scripts) have one writer or no protocol state.

Excepted by the properties, since the code does not keep it, and so not shown (each at
its hazard in `PROJECT.json`, with what is caught of the hazard beside it): messages to a
project whose buffer was touched behind a text or during a download; two updates, two account selections, two runs
of the update script or two project selections at a time; on the screens an answer that
overtakes another, frames lost after the snapshot, output taken for the end of the
snapshot; Bootstrap sessions whose opening or deletion fails; a menu whose own list
changed before the press; an edit between `git status` and the removal of a folder; a
draft sent again after `isSaving` ended early; a save from a copy that was in progress,
blocked or done, and the content of an outdated checklist. One chat is modelled, so not which chat an error reaches.

Next: the types of all parts, as the theorem that closes `ServicesTypeOK`; and the
liveness of the outbox and the queue, as soon as the prover has fairness.
