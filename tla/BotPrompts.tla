-------------------------------- MODULE BotPrompts --------------------------------
(***************************************************************************)
(* What the bot does with a message of its admin: texts, photos, voice     *)
(* notes and slash commands (bot-prompt-handlers.ts, voice-control.ts,     *)
(* telegram-webhook-http.ts, bot-command-sync-runtime.ts).  The webhook is *)
(* acknowledged before the handler runs; every call of the handler may     *)
(* fail, and so may every message that tells the admin about it.  Access   *)
(* checks, message shapes and wording are left out.                        *)
(***************************************************************************)
EXTENDS Naturals, Sequences, SequencesExt

CONSTANTS
    MessageKinds,  \* of "text" (photos and documents too), "voice", "slash"
    MaxUpdates,    \* bound: updates Telegram delivers, repeated ones included
    MaxMute,       \* bound: messages to the admin that Telegram refuses
    MaxBotCrashes, \* bound: bot restarts
    MaxCatalogs    \* bound: changes of OpenCode's command list

ASSUME PromptKinds == MessageKinds \subseteq {"text", "voice", "slash"}
ASSUME PromptBounds == {MaxUpdates, MaxMute, MaxBotCrashes, MaxCatalogs} \subseteq Nat

VARIABLES
    tasks,    \* the updates handled, one task each
    catalog,  \* whether the admin's project has the command, by OpenCode
    lookup,   \* opencodeCommandLookup: whether the bot knows its alias
    syncing,  \* the periodic sync under way: what its answer will say
    luck      \* refused messages, crashes, changes of the catalog

prompts == <<tasks, catalog, lookup, syncing, luck>>

PromptsInit ==
    /\ tasks = <<>> /\ catalog \in BOOLEAN /\ lookup = FALSE /\ syncing = <<>>
    /\ luck = [mute |-> 0, crashes |-> 0, catalogs |-> 0]

-----------------------------------------------------------------------------
(* The path of a message, call by call *)

First(kind) == CASE kind = "text" -> "bind" [] kind = "voice" -> "settings" [] kind = "slash" -> "resolve"

VoicePath == <<"settings", "status", "transcribe", "edit", "bind", "submit">>
After(at) == VoicePath[CHOOSE k \in DOMAIN VoicePath : k > 1 /\ VoicePath[k - 1] = at]

Task(kind) == [kind |-> kind, at |-> First(kind), by |-> "nobody",
               done |-> FALSE, told |-> FALSE, refused |-> FALSE, lost |-> FALSE]

Goto(d, at) == tasks' = [tasks EXCEPT ![d].at = at]

(* The webhook answers 200 and hands the update over.  An answer that is   *)
(* lost makes Telegram deliver the update again: a task of its own.        *)
Receive(kind) ==
    /\ Len(tasks) < MaxUpdates
    /\ tasks' = Append(tasks, Task(kind))
    /\ UNCHANGED <<catalog, lookup, syncing, luck>>

(* settings, the status message, transcription and its quote, bindChat *)
CallSucceeds(d) ==
    LET t == tasks[d]
    IN  /\ t.at \in {"settings", "status", "transcribe", "edit", "bind"}
        /\ tasks' = [tasks EXCEPT ![d].at = IF t.at = "bind" /\ t.kind = "slash" THEN "command" ELSE After(t.at)]
        /\ UNCHANGED <<catalog, lookup, syncing, luck>>

(* Faulty variant: nobody catches a failing background call. *)
TellerOfAwaited(t) ==
    IF t.at \in {"submit", "command"} THEN "nobody"
    ELSE IF t.kind = "voice" THEN "handler" ELSE "guard"

(* Who tells the admin about a failing call: the voice handler, the catch  *)
(* of the bot, or the background call itself.                              *)
Teller(t) ==
    IF t.at \in {"submit", "command"} THEN "call"
    ELSE IF t.kind = "voice" THEN "handler" ELSE "guard"

Caught(d, reached) ==
    tasks' = [tasks EXCEPT ![d].by = Teller(tasks[d]), ![d].done = @ \/ reached,
                           ![d].at = IF Teller(tasks[d]) = "nobody" THEN "over" ELSE "telling"]

CallFails(d) ==
    /\ tasks[d].at \in {"settings", "status", "transcribe", "edit", "bind"}
    /\ Caught(d, FALSE)
    /\ UNCHANGED <<catalog, lookup, syncing, luck>>

(* Voice control is switched off: the admin is told how to set it up. *)
NotConfigured(d) ==
    /\ tasks[d].at = "settings"
    /\ tasks' = [tasks EXCEPT ![d].at = "telling", ![d].by = "reply"]
    /\ UNCHANGED <<catalog, lookup, syncing, luck>>

(* POST prompt/enqueue or command, no longer awaited by the handler; the   *)
(* backend may have taken it although the answer says otherwise.           *)
Submitted(d) ==
    /\ tasks[d].at \in {"submit", "command"}
    /\ tasks' = [tasks EXCEPT ![d].at = "over", ![d].done = TRUE]
    /\ UNCHANGED <<catalog, lookup, syncing, luck>>

SubmitFails(d) ==
    /\ tasks[d].at \in {"submit", "command"}
    /\ \E reached \in BOOLEAN : Caught(d, reached)
    /\ UNCHANGED <<catalog, lookup, syncing, luck>>

-----------------------------------------------------------------------------
(* Telling the admin *)

Told(d) ==
    /\ tasks[d].at = "telling"
    /\ tasks' = [tasks EXCEPT ![d].at = "over", ![d].told = TRUE, ![d].by = "nobody"]
    /\ UNCHANGED <<catalog, lookup, syncing, luck>>

(* A reply of the handler that fails lands in its own catch, or, from      *)
(* there, in the catch of the bot, which replies once more and gives up.   *)
NextTeller(t) ==
    IF t.by = "reply" /\ t.kind = "voice" THEN "handler"
    ELSE IF t.by \in {"reply", "handler"} THEN "guard" ELSE "nobody"

TellingFails(d) ==
    /\ tasks[d].at = "telling" /\ luck.mute < MaxMute
    /\ luck' = [luck EXCEPT !.mute = @ + 1]
    /\ LET by == NextTeller(tasks[d])
       IN  tasks' = [tasks EXCEPT ![d].by = by, ![d].refused = by = "nobody",
                                  ![d].at = IF by = "nobody" THEN "over" ELSE "telling"]
    /\ UNCHANGED <<catalog, lookup, syncing>>

(* Telegraf gives up waiting for a handler and calls the bot's catch; the  *)
(* handler goes on.                                                        *)
HandlerTimesOut(d) ==
    /\ tasks[d].at \in {"transcribe", "bind"} /\ ~tasks[d].told
    /\ tasks' = [tasks EXCEPT ![d].told = TRUE]
    /\ UNCHANGED <<catalog, lookup, syncing, luck>>

-----------------------------------------------------------------------------
(* Slash commands *)

Resolves(d) ==
    /\ tasks[d].at \in {"resolve", "resolve again"} /\ lookup
    /\ Goto(d, "bind")
    /\ UNCHANGED <<catalog, lookup, syncing, luck>>

UnknownAtFirst(d) ==
    /\ tasks[d].at = "resolve" /\ ~lookup
    /\ Goto(d, "sync")
    /\ UNCHANGED <<catalog, lookup, syncing, luck>>

(* syncSlashCommands: the answer replaces the lookup, then the menu of     *)
(* Telegram is set; a failure of either is swallowed here.                 *)
SyncsAgain(d) ==
    /\ tasks[d].at = "sync"
    /\ Goto(d, "resolve again")
    /\ lookup' \in {lookup, catalog}
    /\ UNCHANGED <<catalog, syncing, luck>>

Unknown(d) ==
    /\ tasks[d].at = "resolve again" /\ ~lookup
    /\ tasks' = [tasks EXCEPT ![d].at = "telling", ![d].by = "reply"]
    /\ UNCHANGED <<catalog, lookup, syncing, luck>>

PeriodicSyncAsks ==
    /\ syncing = <<>>
    /\ syncing' = <<catalog>>
    /\ UNCHANGED <<tasks, catalog, lookup, luck>>

PeriodicSyncEnds ==
    /\ syncing # <<>>
    /\ syncing' = <<>>
    /\ lookup' \in {lookup, Head(syncing)}
    /\ UNCHANGED <<tasks, catalog, luck>>

CatalogChanges ==
    /\ luck.catalogs < MaxCatalogs
    /\ luck' = [luck EXCEPT !.catalogs = @ + 1]
    /\ catalog' = ~catalog
    /\ UNCHANGED <<tasks, lookup, syncing>>

(* Updates that were acknowledged are not delivered again. *)
BotCrashes ==
    /\ luck.crashes < MaxBotCrashes
    /\ luck' = [luck EXCEPT !.crashes = @ + 1]
    /\ tasks' = [d \in DOMAIN tasks |-> [tasks[d] EXCEPT !.lost = @ \/ tasks[d].at # "over", !.at = "over", !.by = "nobody"]]
    /\ lookup' = FALSE /\ syncing' = <<>>
    /\ UNCHANGED catalog

PromptsNext ==
    \/ \E kind \in MessageKinds : Receive(kind)
    \/ PeriodicSyncAsks \/ PeriodicSyncEnds \/ CatalogChanges \/ BotCrashes
    \/ \E d \in DOMAIN tasks :
         \/ CallSucceeds(d) \/ CallFails(d) \/ NotConfigured(d) \/ Submitted(d) \/ SubmitFails(d)
         \/ Told(d) \/ TellingFails(d) \/ HandlerTimesOut(d)
         \/ Resolves(d) \/ UnknownAtFirst(d) \/ SyncsAgain(d) \/ Unknown(d)

-----------------------------------------------------------------------------

Phases == ToSet(VoicePath) \cup {"resolve", "sync", "resolve again", "command", "telling", "over"}

PromptsTypeOK ==
    /\ {catalog, lookup} \subseteq BOOLEAN /\ ToSet(syncing) \subseteq BOOLEAN
    /\ \A d \in DOMAIN tasks :
         /\ tasks[d].kind \in MessageKinds /\ tasks[d].at \in Phases
         /\ {tasks[d].done, tasks[d].told, tasks[d].refused, tasks[d].lost} \subseteq BOOLEAN

(* No message disappears: when the bot is through with an update, the      *)
(* backend has its prompt or command, or the admin has been told why not,  *)
(* through whichever of the nested catches was left; only a restart in     *)
(* the middle and Telegram refusing every reply excuse silence.            *)
NothingSwallowed ==
    \A d \in DOMAIN tasks :
        LET t == tasks[d] IN t.at = "over" => t.done \/ t.told \/ t.refused \/ t.lost

=============================================================================
