------------------------------ MODULE TaskForms ------------------------------
(* The dialog of the Mini App over kanban tasks, as it creates them and as *)
(* it edits one.                                                           *)
EXTENDS Naturals, FiniteSets

-----------------------------------------------------------------------------
(* The dialog of the Mini App that creates kanban tasks and its drafts in   *)
(* localStorage (KanbanTaskEditorModal.tsx, kanban-task-editor-draft.ts),   *)
(* with the board's requests and their common `isSaving` (KanbanBoard.tsx,  *)
(* use-kanban.ts). What is typed is a set of words, the fields of the form  *)
(* together; a form without words is an empty one.                          *)

CONSTANTS
    DraftSlugs,      \* projects of the board
    MaxWords,        \* bound: words typed
    MaxWrites,       \* bound: requests of the board
    MaxLostWrites,   \* bound: requests or answers that are lost
    MaxTurnsOfPage   \* bound: times the dialog opens or changes its project

ASSUME DraftBounds ==
    /\ "" \notin DraftSlugs /\ DraftSlugs # {}
    /\ {MaxWords, MaxWrites, MaxLostWrites, MaxTurnsOfPage} \subseteq Nat

VARIABLES
    scope,    \* "global": one board for all projects; "project": the active one
    active,   \* activeProjectSlug, "" on the global board
    modal,    \* [open, slug, text]: the dialog and its form
    stored,   \* stored[s]: the draft under the key of s
    isSaving,
    writes,     \* requests that wait for an answer
    made,     \* requests that made a task
    pen       \* words typed, erased and copied; requests, faults, turns so far

drafts == <<scope, active, modal, stored, isSaving, writes, made, pen>>

Keys == DraftSlugs \cup {""}
TypedWords == 1 .. MaxWords
Shut == [open |-> FALSE, slug |-> "", text |-> {}]

Write == [id : 1 .. MaxWrites, slug : Keys, text : SUBSET TypedWords, kind : {"create", "move"},
          done : BOOLEAN, early : BOOLEAN, lost : BOOLEAN]

DraftsTypeOK ==
    /\ scope \in {"global", "project"} /\ active \in Keys
    /\ (scope = "global") <=> (active = "")
    /\ modal \in [open : BOOLEAN, slug : Keys, text : SUBSET TypedWords]
    /\ ~modal.open => modal = Shut
    /\ stored \in [Keys -> SUBSET TypedWords]
    /\ writes \subseteq Write /\ made \subseteq Write
    /\ writes # {} => isSaving \/ \E j \in writes : j.early
    /\ pen.words \in 0 .. MaxWords /\ pen.asks \in 0 .. MaxWrites
    /\ pen.faults \in 0 .. MaxLostWrites /\ pen.turns \in 0 .. MaxTurnsOfPage

DraftsInit ==
    /\ scope \in {"global", "project"}
    /\ active = IF scope = "global" THEN "" ELSE CHOOSE s \in DraftSlugs : TRUE
    /\ modal = Shut /\ stored = [s \in Keys |-> {}] /\ isSaving = FALSE
    /\ writes = {} /\ made = {}
    /\ pen = [words |-> 0, erased |-> {}, copied |-> {}, asks |-> 0, faults |-> 0, turns |-> 0]

-----------------------------------------------------------------------------
(* The form. Every change of it is written under the project it shows.     *)

Fills(slug, text) ==
    /\ modal' = [open |-> TRUE, slug |-> slug, text |-> text]
    /\ stored' = [stored EXCEPT ![slug] = text]

TurnsPage == pen.turns < MaxTurnsOfPage /\ pen' = [pen EXCEPT !.turns = @ + 1]

(* The draft of the active project, or an empty form. *)
OpenCreate ==
    /\ ~modal.open /\ TurnsPage
    /\ Fills(active, stored[active])
    /\ UNCHANGED <<scope, active, isSaving, writes, made>>

(* The app selects another project: the board follows, the form starts over. *)
ActiveMoves(s) ==
    /\ scope = "project" /\ s # active /\ TurnsPage
    /\ active' = s
    /\ IF modal.open THEN Fills(s, stored[s]) ELSE UNCHANGED <<modal, stored>>
    /\ UNCHANGED <<scope, isSaving, writes, made>>

(* handleProjectChange: the draft of that project, or the same text.       *)
Retarget(s) ==
    /\ scope = "global" /\ modal.open /\ s # modal.slug
    /\ pen.turns < MaxTurnsOfPage
    /\ LET kept == stored[s] = {} IN
        /\ Fills(s, IF kept THEN modal.text ELSE stored[s])
        /\ pen' = [pen EXCEPT !.turns = @ + 1, !.copied = IF kept THEN @ \cup modal.text ELSE @]
    /\ UNCHANGED <<scope, active, isSaving, writes, made>>

Types ==
    /\ modal.open /\ pen.words < MaxWords
    /\ Fills(modal.slug, modal.text \cup {pen.words + 1})
    /\ pen' = [pen EXCEPT !.words = @ + 1]
    /\ UNCHANGED <<scope, active, isSaving, writes, made>>

Erases(w) ==
    /\ modal.open /\ w \in modal.text
    /\ Fills(modal.slug, modal.text \ {w})
    /\ pen' = [pen EXCEPT !.erased = @ \cup {w}]
    /\ UNCHANGED <<scope, active, isSaving, writes, made>>

(* Cancel, the cross, a click beside the dialog. *)
Closes ==
    /\ modal.open
    /\ modal' = Shut
    /\ UNCHANGED <<scope, active, stored, isSaving, writes, made, pen>>

-----------------------------------------------------------------------------
(* Requests *)

(* mutate: one flag for all requests, set by each and cleared by each. *)
Mutates(r) ==
    /\ pen.asks < MaxWrites /\ pen' = [pen EXCEPT !.asks = @ + 1]
    /\ writes' = writes \cup {r}
    /\ isSaving' = TRUE

AWrite(kind, slug, text) ==
    [id |-> pen.asks + 1, kind |-> kind, slug |-> slug, text |-> text,
     done |-> FALSE, early |-> FALSE, lost |-> FALSE]

(* Faulty variant: the button stays enabled. *)
CanSubmitAgain == modal.open /\ modal.text # {} /\ modal.slug # ""

CanSubmit == modal.open /\ modal.text # {} /\ modal.slug # "" /\ ~isSaving

Submits ==
    /\ CanSubmit
    /\ Mutates(AWrite("create", modal.slug, modal.text))
    /\ UNCHANGED <<scope, active, modal, stored, made>>

(* A card is dropped on another column: nothing looks at isSaving. *)
Drags ==
    /\ Mutates(AWrite("move", "", {}))
    /\ UNCHANGED <<scope, active, modal, stored, made>>

(* The server makes the task; it may refuse a project that is gone.        *)
Makes(j) ==
    /\ ~j.done
    /\ writes' = (writes \ {j}) \cup {[j EXCEPT !.done = TRUE]}
    /\ made' = IF j.kind = "create" THEN made \cup {[j EXCEPT !.done = TRUE]} ELSE made
    /\ UNCHANGED <<scope, active, modal, stored, isSaving, pen>>

(* `finally` clears the flag, whatever else is under way. *)
WriteSettles(j) ==
    /\ isSaving' = FALSE
    /\ writes' = {[k EXCEPT !.early = TRUE] : k \in writes \ {j}}

(* What a request still to be answered is remembered as once it made a task. *)
Remembers(j, faulty) ==
    made' = {IF k.id = j.id THEN [k EXCEPT !.early = j.early, !.lost = faulty] ELSE k : k \in made}

(* Faulty variant: the dialog forgets its drafts on any answer.            *)
ForgetsAlways(j, faulty) ==
    /\ stored' = [s \in Keys |-> IF s \in {j.slug, ""} THEN {} ELSE stored[s]]
    /\ modal' = Shut

(* handleEditorSubmit: a success clears the draft and closes the dialog,    *)
(* a failure leaves both.                                                   *)
Forgets(j, faulty) ==
    IF j.kind = "create" /\ ~faulty
    THEN /\ stored' = [s \in Keys |-> IF s \in {j.slug, ""} THEN {} ELSE stored[s]]
         /\ modal' = Shut
    ELSE UNCHANGED <<stored, modal>>

(* The answer came and the board was loaded again, which never fails here. *)
WriteAnswered(j) ==
    /\ j.done
    /\ WriteSettles(j) /\ Remembers(j, FALSE) /\ Forgets(j, FALSE)
    /\ UNCHANGED <<scope, active, pen>>

(* The request was refused or lost, or its answer was. *)
Fails(j) ==
    /\ pen.faults < MaxLostWrites /\ pen' = [pen EXCEPT !.faults = @ + 1]
    /\ WriteSettles(j) /\ Remembers(j, TRUE) /\ Forgets(j, TRUE)
    /\ UNCHANGED <<scope, active>>

DraftsNext ==
    \/ OpenCreate \/ Types \/ Closes \/ Submits \/ Drags
    \/ \E s \in DraftSlugs : ActiveMoves(s)
    \/ \E s \in Keys : Retarget(s)
    \/ \E w \in TypedWords : Erases(w)
    \/ \E j \in writes : Makes(j) \/ WriteAnswered(j) \/ Fails(j)

-----------------------------------------------------------------------------
(* Where a word still is. *)
IsKept(w) == \/ w \in modal.text \/ \E s \in Keys : w \in stored[s]
             \/ \E j \in made : w \in j.text

(* Nothing that was typed is lost by closing, switching projects or        *)
(* failing; only a creation that succeeds drops words: those typed for the  *)
(* same project after it was sent, and those with no project chosen.        *)
DraftsSurvive ==
    [][\A w \in TypedWords : IsKept(w) /\ ~IsKept(w)' =>
         \/ w \in pen'.erased
         \/ \E j \in writes : /\ j.kind = "create" /\ j.done /\ pen' = pen
                            /\ w \in stored[""] \cup stored[j.slug]]_drafts

(* What was typed once makes one task, unless the user took it to another   *)
(* project, an answer was lost, or a request beside it cleared isSaving.    *)
MadeOnce ==
    \A i, j \in made : i # j /\ (i.text \cap j.text) \ pen.copied # {} =>
        \E k \in {i, j} : \/ k.lost \/ k.early
                          \/ \E l \in writes : l.id = k.id /\ l.early

-----------------------------------------------------------------------------
(* The dialog of the Mini App that edits one kanban task while sessions and *)
(* other people work on it (KanbanTaskEditorModal.tsx, KanbanBoard.tsx,     *)
(* buildTaskUpdatePatch of kanban.controller.ts over the board). The dialog *)
(* keeps the task as it was when it opened, perhaps from a list loaded some *)
(* time before, and a save sends every field of it.                         *)

CONSTANTS
    Rows,            \* acceptance criteria
    Hands,           \* OpenCode sessions that work on the board
    NoOne,
    MaxOthers,         \* bound: steps of others while dialogs are open
    MaxStrokes       \* bound: changes the user makes in dialogs

ASSUME EditorBounds == {MaxOthers, MaxStrokes} \subseteq Nat

VARIABLES
    kanban, nextId, cameFrom,   \* the board, of one task
    dialog,                     \* the dialog, and what the user touched in it
    saving,                     \* saves that wait for the server
    busy                        \* steps of others, strokes and dialogs so far

editor == <<kanban, nextId, cameFrom, dialog, saving, busy>>

Board == INSTANCE KanbanBoard WITH
        MaxTasks <- 1, Criteria <- Rows, NewChecklists <- [Rows -> {"absent", "pending"}],
        Agents <- Hands, Sessions <- Hands, Runner <- "kanban-runner", None <- NoOne,
        task <- kanban, nextTask <- nextId, origin <- cameFrom

Hand(h) == [agentId |-> h, sessionId |-> h, source |-> "session"]
Sheet == kanban[1]

Dialog == [status : Board!Statuses, rows : Board!Checklist, was : Board!Statuses, had : BOOLEAN,
           touched : BOOLEAN]
SaveRequest == [status : Board!Statuses, rows : Board!Checklist, clear : BOOLEAN, was : Board!Statuses,
         touched : BOOLEAN]

EditorTypeOK ==
    /\ Board!BoardTypeOK
    /\ dialog \subseteq Dialog /\ Cardinality(dialog) <= 1
    /\ saving \subseteq SaveRequest /\ Cardinality(saving) <= 1
    /\ busy.work \in 0 .. MaxOthers /\ busy.strokes \in 0 .. MaxStrokes

(* A task that was created with any status and checklist the board takes.  *)
EditorInit ==
    /\ \E s \in Board!Statuses, c \in Board!Checklist :
        /\ Board!Completable(s, c)
        /\ kanban = [t \in Board!Tasks |-> [Board!NoTask EXCEPT !.status = Board!Resolve(s, c),
                                                        !.acceptanceCriteria = c]]
    /\ cameFrom = [t \in Board!Tasks |-> IF Sheet.status = "blocked" THEN "absent" ELSE Sheet.status]
    /\ nextId = 2 /\ dialog = {} /\ saving = {} /\ busy = [work |-> 0, strokes |-> 0]

-----------------------------------------------------------------------------
(* Others: tools of sessions, the lease, and people on another board.      *)

OthersWork ==
    /\ busy.work < MaxOthers /\ busy' = [busy EXCEPT !.work = @ + 1]
    /\ \/ \E h \in Hands : Board!Agent(Hand(h), 1)
       \/ Board!App(1) \/ Board!LeaseEnds(1) \/ Board!ListTasks
    /\ UNCHANGED <<dialog, saving>>

-----------------------------------------------------------------------------
(* The dialog *)

Some(rows) == \E k \in Rows : rows[k] # "absent"

OpensTask ==
    /\ dialog = {} /\ Sheet.status # "absent"
    /\ dialog' = {[status |-> Sheet.status, rows |-> Sheet.acceptanceCriteria, was |-> Sheet.status,
                   had |-> Some(Sheet.acceptanceCriteria), touched |-> FALSE]}
    /\ UNCHANGED <<kanban, nextId, cameFrom, saving, busy>>

Strokes(d, changed) ==
    /\ busy.strokes < MaxStrokes /\ busy' = [busy EXCEPT !.strokes = @ + 1]
    /\ dialog' = {changed}
    /\ UNCHANGED <<kanban, nextId, cameFrom, saving>>

PicksStatus(d) ==
    \E s \in Board!Statuses \ {d.status} : Strokes(d, [d EXCEPT !.status = s, !.touched = TRUE])

(* A click beside a row; rows that are blocked do not take it. *)
TogglesDone(d, k) ==
    /\ saving = {} /\ d.rows[k] \in {"pending", "done"}
    /\ Strokes(d, [d EXCEPT !.rows[k] = IF @ = "done" THEN "pending" ELSE "done"])

(* A blocked row blocks the task; without any it is ready to be worked on. *)
TogglesBlocked(d, k) ==
    /\ saving = {} /\ d.rows[k] \in {"pending", "blocked"}
    /\ LET rows == [d.rows EXCEPT ![k] = IF @ = "blocked" THEN "pending" ELSE "blocked"]
           status == IF Board!HasBlocked(rows) THEN "blocked"
                     ELSE IF d.status = "blocked" THEN "ready" ELSE d.status
       IN Strokes(d, [d EXCEPT !.rows = rows, !.status = status, !.touched = TRUE])

(* Enter adds the row that was typed, also while a save is under way.      *)
AddsRow(d, k) ==
    /\ d.rows[k] = "absent"
    /\ Strokes(d, [d EXCEPT !.rows[k] = "pending"])

RemovesRow(d, k) ==
    /\ saving = {} /\ d.rows[k] # "absent"
    /\ Strokes(d, [d EXCEPT !.rows[k] = "absent"])

ClosesTask ==
    /\ dialog # {} /\ dialog' = {}
    /\ UNCHANGED <<kanban, nextId, cameFrom, saving, busy>>

(* The status follows blocked rows; `clear` tells a checklist that was      *)
(* emptied on purpose from one that is not sent.                            *)
Saves(d) ==
    /\ saving = {}
    /\ saving' = {[status |-> Board!Resolve(d.status, d.rows), rows |-> d.rows,
                   clear |-> d.had /\ ~Some(d.rows), was |-> d.was, touched |-> d.touched]}
    /\ UNCHANGED <<kanban, nextId, cameFrom, dialog, busy>>

(* Faulty variant: an empty checklist replaces what is there. *)
RowsReplaced(s) == s.rows

(* buildTaskUpdatePatch: an empty checklist means "unchanged" ...          *)
RowsOf(s) == IF Some(s.rows) \/ s.clear THEN s.rows ELSE Sheet.acceptanceCriteria

(* ... and the board takes the patch or refuses it. A success closes the    *)
(* dialog, whichever task it shows by then.                                 *)
SaveTaken(s) ==
    /\ Board!UpdateTask(1, s.status, RowsOf(s))
    /\ saving' = {} /\ dialog' = {}
    /\ UNCHANGED busy

SaveRefused(s) ==
    /\ Sheet.status = "absent" \/ ~Board!CanPatch(Sheet, s.status, RowsOf(s))
    /\ saving' = {}
    /\ UNCHANGED <<kanban, nextId, cameFrom, dialog, busy>>

(* handleEditorDelete, after the confirmation. *)
Deletes ==
    /\ dialog # {} /\ saving = {}
    /\ IF Sheet.status \in {"absent", "in_progress"} THEN UNCHANGED <<kanban, nextId, cameFrom, dialog>>
       ELSE Board!DeleteTask(1) /\ dialog' = {}
    /\ UNCHANGED <<saving, busy>>

EditorNext ==
    \/ OthersWork \/ OpensTask \/ ClosesTask \/ Deletes
    \/ \E d \in dialog :
        \/ PicksStatus(d) \/ Saves(d)
        \/ \E k \in Rows :
            TogglesDone(d, k) \/ TogglesBlocked(d, k) \/ AddsRow(d, k) \/ RemovesRow(d, k)
    \/ \E s \in saving : SaveTaken(s) \/ SaveRefused(s)

-----------------------------------------------------------------------------
(* A save that was not meant to move the task leaves execution alone,       *)
(* however old its copy: it takes no work from a session but with a copy    *)
(* that was blocked or done, puts none into execution but with one that was *)
(* in progress, and empties no checklist that the user did not empty.       *)
SavesKeepWork ==
    [][\A s \in saving \ saving' :
        /\ ~s.touched /\ Sheet.status = "in_progress" =>
              Sheet'.status = "in_progress" \/ s.was \in {"blocked", "done"}
        /\ ~s.touched /\ Sheet'.status = "in_progress" =>
              Sheet.status = "in_progress" \/ s.was = "in_progress"
        /\ Some(Sheet.acceptanceCriteria) /\ ~Some(Sheet'.acceptanceCriteria) => s.clear]_editor

=============================================================================
