------------------------------ MODULE ChatNotes ------------------------------
(* What the Telegram chat is told besides the replies of the agent: the    *)
(* checklist of its todos, and a note about each file that it changed.     *)
EXTENDS Naturals, Sequences, SequencesExt

-----------------------------------------------------------------------------
(***************************************************************************)
(* The checklist of todos in the Telegram chat                             *)
(* (telegram-runtime-todo-progress.ts, telegram-todo-progress.ts).  Every  *)
(* completed todowrite tool call brings the agent's whole list; calls of   *)
(* a turn may come late or again.  The backend merges each list into the   *)
(* one it has for the turn and sends the chat a fresh checklist when its   *)
(* text changed.  A todo is known by its id, and its words go with the id. *)
(***************************************************************************)

CONSTANTS
    Todos,         \* ids of todos
    TodoLists,     \* the lists that todowrite may bring, duplicates included
    MaxTodoLines,  \* MAX_TODO_LINES
    MaxSnapshots   \* bound: todowrite calls

ASSUME TodoBounds ==
    /\ {MaxTodoLines, MaxSnapshots} \subseteq Nat
    /\ TodoLists \subseteq Seq([id : Todos, status : {"pending", "in_progress", "completed", "cancelled"}])

TodoStatuses == {"pending", "in_progress", "completed", "cancelled"}

(* A list: its order, and for each id its status or that it is not in it.  *)
EmptyList == [order |-> <<>>, status |-> [t \in Todos |-> "absent"]]

VARIABLES
    tracked,    \* whether the session has a list for its turn
    list,       \* that list
    rendered,   \* the text it was last sent as
    snapshots

todo == <<tracked, list, rendered, snapshots>>

Unsent == <<"nothing">>

TodoInit ==
    /\ tracked = FALSE
    /\ list = EmptyList
    /\ rendered = Unsent
    /\ snapshots = 0

-----------------------------------------------------------------------------
(* Lists *)

(* "Later duplicates for the same logical todo id should win". *)
DedupeTodoItems(items) ==
    LET newest(i) == \A j \in DOMAIN items : j > i => items[j].id # items[i].id
        kept == SelectSeq([i \in DOMAIN items |-> i], newest)
        at(t) == CHOOSE i \in DOMAIN items : items[i].id = t /\ newest(i)
    IN [order |-> [k \in DOMAIN kept |-> items[kept[k]].id],
        status |-> [t \in Todos |-> IF \E i \in DOMAIN items : items[i].id = t
                                    THEN items[at(t)].status ELSE "absent"]]

TodosOf(l) == {t \in Todos : l.status[t] # "absent"}

Rank(status) ==
    CASE status = "absent" -> 0
      [] status = "pending" -> 1
      [] status = "in_progress" -> 2
      [] OTHER -> 3

Final(status) == Rank(status) = 3

(* Faulty variant: the incoming status always counts. *)
MergeLatest(previous, incoming) == incoming

(* "Keep the furthest status reached in this turn". *)
MergeTodoItems(previous, incoming) ==
    IF Rank(incoming) < Rank(previous) THEN previous ELSE incoming

(* "A zero-overlap snapshot is almost certainly a new plan". *)
ShouldReset(old, new) == TodosOf(old) # {} /\ TodosOf(new) # {} /\ TodosOf(old) \cap TodosOf(new) = {}

(* Omitted todos stay when the list shrinks, and finished ones always.     *)
StaysListed(old, new, t) ==
    \/ t \in TodosOf(new)
    \/ Len(new.order) < Len(old.order)
    \/ Final(old.status[t])

MergeTodoSnapshots(old, new) ==
    IF ShouldReset(old, new) THEN new
    ELSE [order |-> SelectSeq(old.order, LAMBDA t : StaysListed(old, new, t))
                        \o SelectSeq(new.order, LAMBDA t : t \notin TodosOf(old)),
          status |-> [t \in Todos |->
                         IF t \in TodosOf(old) /\ t \in TodosOf(new)
                         THEN MergeTodoItems(old.status[t], new.status[t])
                         ELSE IF t \in TodosOf(old)
                              THEN IF StaysListed(old, new, t) THEN old.status[t] ELSE "absent"
                              ELSE new.status[t]]]

(* The text: how many are completed, of how many, and the first lines.     *)
FormatTodoProgress(l) ==
    <<Len(SelectSeq(l.order, LAMBDA t : l.status[t] = "completed")), Len(l.order),
      [k \in 1 .. IF Len(l.order) < MaxTodoLines THEN Len(l.order) ELSE MaxTodoLines |->
          <<l.order[k], l.status[l.order[k]]>>]>>

-----------------------------------------------------------------------------
(* The turn *)

(* openTurn, and closeTurn when the session is idle or its reply is final. *)
DropList ==
    /\ tracked' = FALSE
    /\ list' = EmptyList
    /\ rendered' = Unsent
    /\ UNCHANGED snapshots

(* A list whose text is the one sent last changes nothing, not even the    *)
(* statuses beyond the last line.                                          *)
ApplySnapshot(items) ==
    LET merged == MergeTodoSnapshots(list, DedupeTodoItems(items))
    IN /\ snapshots < MaxSnapshots
       /\ snapshots' = snapshots + 1
       /\ tracked' = TRUE
       /\ IF FormatTodoProgress(merged) = rendered
          THEN UNCHANGED <<list, rendered>>
          ELSE list' = merged /\ rendered' = FormatTodoProgress(merged)

TodoNext == DropList \/ \E items \in TodoLists : ApplySnapshot(items)

TodoSpec == TodoInit /\ [][TodoNext]_todo

-----------------------------------------------------------------------------
(* Properties *)

(* The order names each todo of the list once, and the chat has the text.  *)
TodoTypeOK ==
    /\ tracked \in BOOLEAN /\ snapshots \in 0 .. MaxSnapshots
    /\ list.status \in [Todos -> TodoStatuses \cup {"absent"}]
    /\ \A i, j \in DOMAIN list.order : list.order[i] = list.order[j] => i = j
    /\ {list.order[i] : i \in DOMAIN list.order} = TodosOf(list)
    /\ tracked => rendered = FormatTodoProgress(list)

(* "Todo progress must stay monotonic inside one turn so late stale events *)
(* cannot move work backwards" and "keep previously completed work visible *)
(* for the rest of the turn" (telegram-runtime-todo-progress.ts:34, :76):  *)
(* as long as the turn's list is not dropped, no todo goes back to an      *)
(* earlier status, and a finished one leaves the list only when a plan     *)
(* comes that shares no todo with it.                                      *)
TodosNeverGoBack ==
    [][tracked' =>
          \/ TodosOf(list) # {} /\ TodosOf(list') # {} /\ TodosOf(list) \cap TodosOf(list') = {}
          \/ \A t \in TodosOf(list) :
                 \/ Rank(list'.status[t]) >= Rank(list.status[t])
                 \/ list'.status[t] = "absent" /\ ~Final(list.status[t])]_todo

-----------------------------------------------------------------------------
(***************************************************************************)
(* The chat's notes about changed files                                    *)
(* (telegram-opencode-runtime-file-operations.ts,                          *)
(* telegram-diff-preview.store.ts).  A completed write, edit or patch      *)
(* names some files.  For each of them, one after the other, the backend   *)
(* keeps a preview of the diff under a token, asks Telegram for the bot's  *)
(* name unless it knows it, and queues a note that links to the token.     *)
(* While the name is asked for, other tool calls may come.                 *)
(***************************************************************************)

CONSTANTS
    MaxPatches,  \* bound: tool calls
    MaxFiles,      \* bound: files of one patch
    MaxPreviews,   \* MAX_RECORDS
    PreviewTtl,    \* TTL_MS, in days
    MaxNoteDays,       \* bound: days
    MaxNoteFaults  \* bound: failures of getMe and of the disk

ASSUME NoteBounds ==
    {MaxPatches, MaxFiles, MaxPreviews, PreviewTtl, MaxNoteDays, MaxNoteFaults} \subseteq Nat

VARIABLES
    botName,    \* the bot's name: not known, asked for, known
    previews,   \* the file of previews: <<[token, day]>>, oldest first
    tokens,     \* previews made
    waiting,    \* tool calls waiting for the name: <<[call, left, token]>>
    ready,      \* tool calls whose link is there, first come first served
    notes,      \* notes queued, and those not queued as the stream was off
    patches,      \* tool calls so far
    noteDay, streamOn, noteFaults

fileNotes == <<botName, previews, tokens, waiting, ready, notes, patches, noteDay, streamOn, noteFaults>>

NotesInit ==
    /\ botName = "unknown"
    /\ previews = <<>> /\ tokens = 0
    /\ waiting = <<>> /\ ready = <<>>
    /\ notes = <<>>
    /\ patches = 0 /\ noteDay = 0 /\ noteFaults = 0
    /\ streamOn \in BOOLEAN

NoteFault == noteFaults < MaxNoteFaults /\ noteFaults' = noteFaults + 1

(* What is under way runs to its next wait before anything else happens.   *)
Calm == ready = <<>>

-----------------------------------------------------------------------------
(* The store of previews *)

FreshPreview(p) == noteDay - p.day <= PreviewTtl

(* Faulty variant: the oldest previews are kept. *)
NewestDropped(ps) == SubSeq(ps, 1, MaxPreviews)

OldestDropped(ps) == SubSeq(ps, Len(ps) - MaxPreviews + 1, Len(ps))

(* The previews at the places kept, in their order. *)
Filtered(ps, kept) ==
    LET upTo[n \in 0 .. Len(ps)] ==
          IF n = 0 THEN <<>> ELSE IF n \in kept THEN Append(upTo[n - 1], ps[n]) ELSE upTo[n - 1]
    IN upTo[Len(ps)]

(* Stale previews go, then the oldest of those above the cap.              *)
Prune(ps) ==
    LET fresh == Filtered(ps, {k \in DOMAIN ps : FreshPreview(ps[k])})
    IN IF Len(fresh) <= MaxPreviews THEN fresh ELSE OldestDropped(fresh)

(* The next file of a tool call: its preview is written to the store, then *)
(* the name is asked for, unless it is known or asked for already.         *)
NextFile(call, left, rest) ==
    LET op == [call |-> call, left |-> left, token |-> tokens + 1]
    IN /\ tokens' = tokens + 1
       /\ previews' = Prune(Append(previews, [token |-> tokens + 1, day |-> noteDay]))
       /\ IF botName = "known"
          THEN ready' = Append(rest, op) /\ UNCHANGED <<waiting, botName>>
          ELSE /\ waiting' = Append(waiting, op) /\ ready' = rest
               /\ botName' = "asked"

ToolCompleted ==
    /\ Calm /\ patches < MaxPatches
    /\ patches' = patches + 1
    /\ \E n \in 1 .. MaxFiles : NextFile(patches + 1, n - 1, ready)
    /\ UNCHANGED <<notes, noteDay, streamOn, noteFaults>>

(* The preview cannot be written: the tool call's note is only logged.     *)
PreviewFails ==
    /\ Calm /\ patches < MaxPatches /\ NoteFault
    /\ patches' = patches + 1
    /\ UNCHANGED <<botName, previews, tokens, waiting, ready, notes, noteDay, streamOn>>

(* getMe answers with the name, or the next file will ask again.           *)
NameResolved(found) ==
    /\ Calm /\ botName = "asked"
    /\ IF found THEN UNCHANGED noteFaults ELSE NoteFault
    /\ botName' = IF found THEN "known" ELSE "unknown"
    /\ ready' = waiting /\ waiting' = <<>>
    /\ UNCHANGED <<previews, tokens, notes, patches, noteDay, streamOn>>

(* The note is queued when the stream of the chat is on; then the next     *)
(* file of the same tool call follows, behind the others that are ready.   *)
NoteQueued ==
    /\ ready # <<>>
    /\ LET op == Head(ready) IN
       /\ notes' = Append(notes, [call |-> op.call, token |-> op.token, sent |-> streamOn,
                                  native |-> botName = "known"])
       /\ IF op.left = 0
          THEN ready' = Tail(ready) /\ UNCHANGED <<botName, previews, tokens, waiting>>
          ELSE NextFile(op.call, op.left - 1, Tail(ready))
    /\ UNCHANGED <<patches, noteDay, streamOn, noteFaults>>

StreamToggled ==
    /\ Calm
    /\ streamOn' = ~streamOn
    /\ UNCHANGED <<botName, previews, tokens, waiting, ready, notes, patches, noteDay, noteFaults>>

NoteDayPasses ==
    /\ Calm /\ noteDay < MaxNoteDays
    /\ noteDay' = noteDay + 1
    /\ UNCHANGED <<botName, previews, tokens, waiting, ready, notes, patches, streamOn, noteFaults>>

(* A preview is opened, or the maintenance comes by.                       *)
PreviewsPruned ==
    /\ Calm
    /\ previews' = Prune(previews)
    /\ UNCHANGED <<botName, tokens, waiting, ready, notes, patches, noteDay, streamOn, noteFaults>>

NotesNext ==
    \/ ToolCompleted \/ PreviewFails \/ NoteQueued \/ StreamToggled \/ NoteDayPasses
    \/ PreviewsPruned \/ \E found \in BOOLEAN : NameResolved(found)

NotesSpec == NotesInit /\ [][NotesNext]_fileNotes

-----------------------------------------------------------------------------
(* Properties *)

(* Who waits, waits for the name, and the store keeps to its cap.          *)
NotesTypeOK ==
    /\ botName \in {"unknown", "asked", "known"}
    /\ (waiting # <<>>) <=> (botName = "asked")
    /\ Len(previews) <= MaxPreviews
    /\ patches <= MaxPatches /\ noteDay <= MaxNoteDays /\ noteFaults <= MaxNoteFaults

(* Every preview gets one note, in the order of the files of its tool      *)
(* call, whatever other calls come in between and however often Telegram   *)
(* does not tell the name                                                  *)
(* (telegram-opencode-runtime-file-operations.ts:61); and what a note that *)
(* was sent links to is there unless it is stale or MaxPreviews newer      *)
(* ones were made (telegram-diff-preview.store.ts:136).                    *)
NotesFollowFiles ==
    /\ LET pending == {op.token : op \in ToSet(waiting \o ready)}
           noted == {n.token : n \in ToSet(notes)}
       IN noted \cup pending = 1 .. tokens /\ noted \cap pending = {}
    /\ \A i, j \in DOMAIN notes :
           i < j /\ notes[i].call = notes[j].call => notes[i].token < notes[j].token
    /\ \A t \in 1 .. tokens :
           t + MaxPreviews > tokens =>
               \/ \E p \in ToSet(previews) : p.token = t
               \/ noteDay > PreviewTtl

=============================================================================
