-------------------------------- MODULE AgentMedia --------------------------------
(***************************************************************************)
(* Files that an agent sends into Telegram (telegram-media-tools-plugin.ts,*)
(* telegram-agent-media.service.ts, telegram-agent-media-storage.service.ts*)
(* and the maintenance job).  The plugin copies each file into a shared    *)
(* folder and asks the backend to send it; the backend finds the chat of   *)
(* the session, perhaps by asking project after project, and enqueues an   *)
(* outbox item; the bot sends the item later; a job sweeps the folder.     *)
(* Captions, names and file kinds are left out.  The sessions belong to    *)
(* one project.                                                            *)
(***************************************************************************)
EXTENDS Integers, Sequences, SequencesExt, FiniteSets

CONSTANTS
    Agents,        \* OpenCode sessions that use the tools
    AdminIds,      \* config.adminIds, a sequence
    NoAdmin,       \* no route
    MaxAlbum,      \* bound: files of one call (MAX_ALBUM_ITEMS is 10)
    KeepItems,     \* OUTBOX_MAX_DELIVERED_TO_KEEP and OUTBOX_MAX_DEAD_TO_KEEP
    DeliveredTtl, DeadTtl, OrphanTtl,   \* the retention times of a file
    MaxDays,       \* bound: the clock
    MaxStaged,     \* bound: files ever staged
    MaxRouting     \* bound: prompts, project changes, lost routes, restarts

ASSUME AdminsListed == AdminIds \in Seq(ToSet(AdminIds))
ASSUME MediaTimes == {DeliveredTtl, DeadTtl, OrphanTtl} \subseteq Nat \ {0}
ASSUME MediaBounds == {MaxAlbum, KeepItems, MaxDays, MaxStaged, MaxRouting} \subseteq Nat

VARIABLES
    day,        \* the clock
    folder,     \* the shared folder: [file, mtime]
    filed,      \* outbox items with media, in order
    routeOf,    \* per session: the admin its route is bound to
    members,    \* admins whose active project is the sessions' project
    sending,    \* per session: the call of the tool under way
    mediaUsed       \* files copied, changes of routing

media == <<day, folder, filed, routeOf, members, sending, mediaUsed>>

Chats == ToSet(AdminIds)
NotSending == [at |-> "idle", files |-> {}, left |-> <<>>, matches |-> {}]

MediaInit ==
    /\ day = 0 /\ folder = {} /\ filed = <<>>
    /\ routeOf = [a \in Agents |-> NoAdmin]
    /\ members = Chats
    /\ sending = [a \in Agents |-> NotSending]
    /\ mediaUsed = [copies |-> 0, moves |-> 0]

-----------------------------------------------------------------------------
(* The plugin: stageFileForTelegram, then the request *)

InFolder == {f.file : f \in folder}

Copied(n) ==
    /\ mediaUsed.copies + n <= MaxStaged
    /\ folder' = folder \cup {[file |-> f, mtime |-> day] : f \in mediaUsed.copies + 1 .. mediaUsed.copies + n}
    /\ mediaUsed' = [mediaUsed EXCEPT !.copies = @ + n]

StageFiles(a, n) ==
    /\ sending[a] = NotSending
    /\ Copied(n)
    /\ sending' = [sending EXCEPT ![a].at = "asked", ![a].files = mediaUsed.copies + 1 .. mediaUsed.copies + n]
    /\ UNCHANGED <<day, filed, routeOf, members>>

(* A later path of the album does not exist: the copies before it stay. *)
StageFails(a, n) ==
    /\ sending[a] = NotSending /\ n < MaxAlbum
    /\ Copied(n)
    /\ UNCHANGED <<day, filed, routeOf, members, sending>>

-----------------------------------------------------------------------------
(* The backend: resolveTarget, validateStagedFile, enqueue *)

Gives(a) == sending' = [sending EXCEPT ![a] = NotSending]

(* Every file is looked at and the item enqueued in one step. *)
QueueMedia(a, c) ==
    LET item == [files |-> sending[a].files, chat |-> c, status |-> "pending", since |-> day]
    IN  /\ Gives(a)
        /\ filed' = IF sending[a].files \subseteq InFolder THEN Append(filed, item) ELSE filed

RouteKnown(a) ==
    /\ sending[a].at = "asked" /\ routeOf[a] # NoAdmin
    /\ QueueMedia(a, routeOf[a])
    /\ UNCHANGED <<day, folder, routeOf, members, mediaUsed>>

RouteUnknown(a) ==
    /\ sending[a].at = "asked" /\ routeOf[a] = NoAdmin
    /\ sending' = [sending EXCEPT ![a].at = "recovering", ![a].left = AdminIds]
    /\ UNCHANGED <<day, folder, filed, routeOf, members, mediaUsed>>

(* One admin of the loop: his active project has the session, or not. *)
LooksAtAdmin(a) ==
    LET c == Head(sending[a].left)
    IN  /\ sending[a].at = "recovering" /\ sending[a].left # <<>>
        /\ sending' = [sending EXCEPT ![a].left = Tail(@),
                                      ![a].matches = IF c \in members THEN @ \cup {c} ELSE @]
        /\ UNCHANGED <<day, folder, filed, routeOf, members, mediaUsed>>

(* A single admin is found whatever project he has active. *)
Recovered(a) ==
    IF sending[a].matches = {} /\ Cardinality(Chats) = 1 THEN Chats ELSE sending[a].matches

(* The route is bound as found, whoever has bound it meanwhile. *)
RecoversRoute(a) ==
    /\ sending[a].at = "recovering" /\ sending[a].left = <<>>
    /\ \E c \in Recovered(a) :
         /\ Recovered(a) = {c}
         /\ routeOf' = [routeOf EXCEPT ![a] = c]
         /\ QueueMedia(a, c)
    /\ UNCHANGED <<day, folder, members, mediaUsed>>

(* Nobody, or more than one: the copies stay behind. *)
Unbound(a) ==
    /\ sending[a].at = "recovering" /\ sending[a].left = <<>> /\ Cardinality(Recovered(a)) # 1
    /\ Gives(a)
    /\ UNCHANGED <<day, folder, filed, routeOf, members, mediaUsed>>

-----------------------------------------------------------------------------
(* Routing changes around it *)

Reroutes == mediaUsed.moves < MaxRouting /\ mediaUsed' = [mediaUsed EXCEPT !.moves = @ + 1]

(* A prompt into the session binds its route to the admin. *)
PromptBinds(a, c) ==
    /\ Reroutes /\ c \in members /\ routeOf[a] # c
    /\ routeOf' = [routeOf EXCEPT ![a] = c]
    /\ UNCHANGED <<day, folder, filed, members, sending>>

ActiveProjectChanges(c) ==
    /\ Reroutes
    /\ members' = IF c \in members THEN members \ {c} ELSE members \cup {c}
    /\ UNCHANGED <<day, folder, filed, routeOf, sending>>

(* A restart empties the routing store; requests under way fail. *)
MediaRestart ==
    /\ Reroutes
    /\ routeOf' = [a \in Agents |-> NoAdmin]
    /\ sending' = [a \in Agents |-> NotSending]
    /\ UNCHANGED <<day, folder, filed, members>>

-----------------------------------------------------------------------------
(* The outbox worker, and the job every half hour *)

(* The bot reports an item, sent or given up. *)
MediaSettles(k, status) ==
    /\ filed[k].status = "pending"
    /\ filed' = [filed EXCEPT ![k].status = status, ![k].since = day]
    /\ UNCHANGED <<day, folder, routeOf, members, sending, mediaUsed>>

(* prune: of each terminal status the newest stay; items settle in any     *)
(* order, equal times keep the order of the file.                          *)
Newer(k, j) == filed[k].since > filed[j].since \/ (filed[k].since = filed[j].since /\ k > j)
Stays(k) ==
    \/ filed[k].status = "pending"
    \/ Cardinality({j \in DOMAIN filed : filed[j].status = filed[k].status /\ Newer(j, k)}) < KeepItems

Remaining == [k \in {j \in DOMAIN filed : Stays(j)} |-> filed[k]]

(* collectReferences *)
Times(f, status) == {Remaining[k].since : k \in {j \in DOMAIN Remaining : f.file \in Remaining[j].files /\ Remaining[j].status = status}}

Old(times, ttl) == times # {} /\ \A t \in times : day - t >= ttl

(* Faulty variant: whatever is old enough goes. *)
ExpiredByAge(f) == day - f.mtime >= OrphanTtl

(* pruneExpiredFiles *)
Expired(f) ==
    IF \A st \in {"pending", "delivered", "dead"} : Times(f, st) = {} THEN day - f.mtime >= OrphanTtl
    ELSE /\ Times(f, "pending") = {}
         /\ Old(Times(f, "delivered"), DeliveredTtl) \/ Old(Times(f, "dead"), DeadTtl)

(* The items at the places kept, in their order. *)
Kept(items, kept) ==
    LET upTo[n \in 0 .. Len(items)] ==
          IF n = 0 THEN <<>> ELSE IF n \in kept THEN Append(upTo[n - 1], items[n]) ELSE upTo[n - 1]
    IN upTo[Len(items)]

Maintain ==
    /\ filed' = Kept(filed, DOMAIN Remaining)
    /\ folder' = {f \in folder : ~Expired(f)}
    /\ UNCHANGED <<day, routeOf, members, sending, mediaUsed>>

DayPasses ==
    /\ day < MaxDays /\ day' = day + 1
    /\ UNCHANGED <<folder, filed, routeOf, members, sending, mediaUsed>>

MediaNext ==
    \/ Maintain \/ DayPasses \/ MediaRestart
    \/ \E c \in Chats : ActiveProjectChanges(c)
    \/ \E k \in DOMAIN filed, status \in {"delivered", "dead"} : MediaSettles(k, status)
    \/ \E a \in Agents :
         \/ RouteKnown(a) \/ RouteUnknown(a) \/ LooksAtAdmin(a) \/ RecoversRoute(a) \/ Unbound(a)
         \/ \E n \in 1..MaxAlbum : StageFiles(a, n) \/ StageFails(a, n)
         \/ \E c \in Chats : PromptBinds(a, c)

-----------------------------------------------------------------------------

MediaTypeOK ==
    /\ day \in 0..MaxDays /\ members \subseteq Chats
    /\ folder \subseteq [file : 1..MaxStaged, mtime : 0..MaxDays]
    /\ \A k \in DOMAIN filed :
         filed[k] \in [files : SUBSET (1..MaxStaged), chat : Chats,
                       status : {"pending", "delivered", "dead"}, since : 0..MaxDays]
    /\ routeOf \in [Agents -> Chats \cup {NoAdmin}]
    /\ \A a \in Agents : sending[a].at \in {"idle", "asked", "recovering"}

(* The bot finds every file of an item it is still to send, however long   *)
(* the item waits: the sweep takes a copy only when its item is settled,   *)
(* and no item is enqueued for a copy that a sweep took during the search  *)
(* for its chat.                                                           *)
WaitingMediaIsThere ==
    \A k \in DOMAIN filed : filed[k].status = "pending" => filed[k].files \subseteq InFolder

=============================================================================
