----------------------------- MODULE ProjectScreen -----------------------------
(***************************************************************************)
(* The files tab of the Mini App (use-project-files.ts, use-workspace-     *)
(* selection.ts, use-reactive-workspace-sync.ts, use-workspace-events.ts): *)
(* a folder of the active project, loaded when the tab is entered, when a  *)
(* project or a folder is chosen, when the window gets the focus, after an *)
(* upload, and 200 ms after the backend announces that files have changed. *)
(* The folder on screen is a record of what the last answered load asked   *)
(* for and of the version of the project's files it saw.                   *)
(***************************************************************************)
EXTENDS EventHub, FiniteSets

CONSTANTS
    Tree,          \* per project: its folders
    Root,          \* the folder that a project opens with
    MaxEdits,      \* bound: changes of files
    MaxClicks,     \* bound: projects and folders chosen, tabs changed
    MaxFileLoads,  \* bound: loads in flight
    MaxLapses      \* bound: failed loads, broken connections, unannounced changes

ASSUME ScreenBounds == {MaxEdits, MaxClicks, MaxFileLoads, MaxLapses} \subseteq Nat

VARIABLES
    versions,  \* per project: the version of its files
    tube,      \* the workspace WebSocket: open?, slugs announced on it
    view,      \* tab, active project, folder on screen, debounce timer,
               \* isRefreshing
    pending,   \* loads in the order they were started, and uploads
    doings     \* edits, clicks, lapses; why the folder may be out of date

filesTab == <<versions, tube, view, pending, doings>>

Blank == [project |-> NoProject, folder |-> Root, version |-> 0]

ScreenInit ==
    /\ versions = [p \in Projects |-> 0]
    /\ tube = [up |-> TRUE, slugs |-> <<>>]
    /\ view = [files |-> FALSE, active |-> NoProject, shown |-> Blank, timer |-> FALSE,
               refreshing |-> "none"]
    /\ pending = [loads |-> <<>>, uploads |-> {}]
    /\ doings = [edits |-> 0, clicks |-> 0, lapses |-> 0, stale |-> {}]

Click == doings.clicks < MaxClicks
Clicked(why) == [doings EXCEPT !.clicks = @ + 1, !.stale = @ \cup why]
Lapse == doings.lapses < MaxLapses
Lapsed(why) == [doings EXCEPT !.lapses = @ + 1, !.stale = @ \cup why]

-----------------------------------------------------------------------------
(* Loads *)

Request(p, f, kind) == [project |-> p, folder |-> f, kind |-> kind, seen |-> "no", version |-> 0]

Room(n) == Len(pending.loads) + n <= MaxFileLoads

(* A load of the active project that overtakes no other one brings the     *)
(* screen up to date again.                                                *)
StillStale(ls, reasons) == IF ls = <<>> THEN {} ELSE reasons

(* loadFiles(activeId, folder). *)
Loading(f, kind) == [pending EXCEPT !.loads = Append(@, Request(view.active, f, kind))]

(* refreshActiveTab on the files tab, unless a refresh is under way. *)
RefreshStarts(v, ls) ==
    IF v.files /\ v.refreshing = "none" /\ v.active # NoProject
    THEN Append(ls, Request(v.active, v.shown.folder, "refresh"))
    ELSE ls

Refreshing(v) ==
    IF v.files /\ v.refreshing = "none" /\ v.active # NoProject THEN [v EXCEPT !.refreshing = "own"] ELSE v

(* The backend reads the directory; a folder that the project does not     *)
(* have, or a lost answer, is an error.                                    *)
DirectoryRead(n) ==
    LET l == pending.loads[n]
    IN /\ l.seen = "no"
       /\ pending' = [pending EXCEPT !.loads[n] =
                         IF l.folder \in Tree[l.project]
                         THEN [l EXCEPT !.seen = "yes", !.version = versions[l.project]]
                         ELSE [l EXCEPT !.seen = "failed"]]
       /\ UNCHANGED <<versions, tube, view, doings>>

ListingFails(n) ==
    /\ pending.loads[n].seen = "no" /\ Lapse
    /\ pending' = [pending EXCEPT !.loads[n].seen = "failed"]
    /\ doings' = Lapsed({})
    /\ UNCHANGED <<versions, tube, view>>

Unlocked(v, l) == IF l.kind = "refresh" THEN [v EXCEPT !.refreshing = "none"] ELSE v

(* setFileList and setFilePath; a new path enters the tab anew. *)
FolderShown(n) ==
    LET l    == pending.loads[n]
        rest == RemoveAt(pending.loads, n)
        v    == [Unlocked(view, l) EXCEPT !.shown =
                    [project |-> l.project, folder |-> l.folder, version |-> l.version]]
        new  == l.folder # view.shown.folder
    IN /\ l.seen = "yes"
       /\ pending' = [pending EXCEPT !.loads = IF new THEN RefreshStarts(v, rest) ELSE rest]
       /\ view' = IF new THEN Refreshing(v) ELSE v
       /\ doings' = [doings EXCEPT !.stale = @ \cup IF n > 1 THEN {"overtaken"} ELSE {}]
       /\ UNCHANGED <<versions, tube>>

FolderFails(n) ==
    /\ pending.loads[n].seen = "failed"
    /\ pending' = [pending EXCEPT !.loads = RemoveAt(@, n)]
    /\ view' = Unlocked(view, pending.loads[n])
    /\ doings' = [doings EXCEPT !.stale = @ \cup {"failed"}]
    /\ UNCHANGED <<versions, tube>>

-----------------------------------------------------------------------------
(* The user *)

(* selectProject after its request: the root is loaded, and the effect of  *)
(* the new id refreshes the folder that the project before was left in.    *)
ProjectChosen(p) ==
    /\ Click /\ Room(2)
    /\ \E files \in {view.files, TRUE} :
          LET v == [view EXCEPT !.active = p, !.files = files]
              first == [pending EXCEPT !.loads =
                           IF files THEN Append(@, Request(p, Root, "plain")) ELSE @]
              entered == p # view.active \/ files # view.files
          IN /\ pending' = IF entered
                           THEN [first EXCEPT !.loads = RefreshStarts(v, first.loads)] ELSE first
             /\ view' = IF entered THEN Refreshing(v) ELSE v
             /\ doings' = [Clicked({}) EXCEPT !.stale = IF files THEN StillStale(pending.loads, @) ELSE @]
    /\ UNCHANGED <<versions, tube>>

FolderChosen(f) ==
    /\ view.files /\ view.active # NoProject /\ Click /\ Room(1)
    /\ f \in Tree[view.active]
    /\ pending' = Loading(f, "plain")
    /\ doings' = [Clicked({}) EXCEPT !.stale = StillStale(pending.loads, @)]
    /\ UNCHANGED <<versions, tube, view>>

(* "Entering a request-driven tab should immediately hydrate it", unless   *)
(* the refresh of any tab is still under way.                              *)
TabEntered ==
    /\ ~view.files /\ view.active # NoProject /\ Click /\ Room(1)
    /\ LET v == [view EXCEPT !.files = TRUE]
       IN /\ view' = Refreshing(v)
          /\ pending' = [pending EXCEPT !.loads = RefreshStarts(v, @)]
          /\ doings' = IF view.refreshing = "none"
                       THEN [Clicked({}) EXCEPT !.stale = StillStale(pending.loads, @)]
                       ELSE Clicked({"skipped"})
    /\ UNCHANGED <<versions, tube>>

TabLeft ==
    /\ view.files /\ Click
    /\ view' = [view EXCEPT !.files = FALSE]
    /\ doings' = Clicked({})
    /\ UNCHANGED <<versions, tube, pending>>

(* The refresh of another tab. *)
OtherTabRefreshes ==
    /\ ~view.files /\ view.refreshing = "none"
    /\ view' = [view EXCEPT !.refreshing = "other"]
    /\ UNCHANGED <<versions, tube, pending, doings>>

OtherTabRefreshed ==
    /\ view.refreshing = "other"
    /\ view' = [view EXCEPT !.refreshing = "none"]
    /\ UNCHANGED <<versions, tube, pending, doings>>

(* The window comes to the front, more than four seconds after the last    *)
(* refresh.                                                                *)
WindowFocused ==
    /\ view.files /\ view.refreshing = "none" /\ view.active # NoProject /\ Click /\ Room(1)
    /\ view' = Refreshing(view)
    /\ pending' = [pending EXCEPT !.loads = RefreshStarts(view, @)]
    /\ doings' = [Clicked({}) EXCEPT !.stale = StillStale(pending.loads, @)]
    /\ UNCHANGED <<versions, tube>>

-----------------------------------------------------------------------------
(* Changes of files, and their announcement *)

(* publishWorkspaceStateChangedEvent to the sockets that are open. *)
FilesAnnounced(p) ==
    tube' = IF tube.up /\ Matches("workspace", NoProject, [topic |-> "workspace", project |-> p], FALSE)
            THEN [tube EXCEPT !.slugs = Append(@, p)] ELSE tube

Edited(p, why) ==
    /\ doings.edits < MaxEdits
    /\ versions' = [versions EXCEPT ![p] = @ + 1]
    /\ doings' = [doings EXCEPT !.edits = @ + 1, !.stale = @ \cup why]

(* Another window uploads, imports, checks out, pulls or merges. *)
FilesChange(p) ==
    /\ Edited(p, IF tube.up THEN {} ELSE {"unheard"})
    /\ FilesAnnounced(p)
    /\ UNCHANGED <<view, pending>>

(* The agent, the terminal or a program writes: nothing is published. *)
AgentWrites(p) ==
    /\ Edited(p, {"unheard"}) /\ Lapse
    /\ UNCHANGED <<tube, view, pending>>

(* uploadFileFromDevice and importFileFromUrl of this window. *)
Upload ==
    /\ view.files /\ view.active # NoProject /\ pending.uploads = {} /\ Click
    /\ pending' = [pending EXCEPT !.uploads = {<<view.active, view.shown.folder>>}]
    /\ doings' = Clicked({})
    /\ UNCHANGED <<versions, tube, view>>

(* The file is written and announced; then the folder that was open is     *)
(* loaded again, whatever is open now.                                     *)
Uploaded(p, f) ==
    /\ <<p, f>> \in pending.uploads /\ Room(1)
    /\ Edited(p, (IF tube.up THEN {} ELSE {"unheard"}) \cup IF p # view.active THEN {"foreign"} ELSE {})
    /\ FilesAnnounced(p)
    /\ pending' = [uploads |-> {}, loads |-> Append(pending.loads, Request(p, f, "plain"))]
    /\ UNCHANGED view

(* Faulty variant: an announcement is taken for the load under way. *)
FrameMattersIdle(p) == p = view.active /\ pending.loads = <<>>

(* ws.onmessage: only the active project's announcements count. *)
FrameMatters(p) == p = view.active

SlugArrives ==
    /\ tube.slugs # <<>>
    /\ view' = [view EXCEPT !.timer = @ \/ FrameMatters(Head(tube.slugs))]
    /\ tube' = [tube EXCEPT !.slugs = Tail(@)]
    /\ UNCHANGED <<versions, pending, doings>>

(* runRefresh: what is open now is loaded. *)
DebounceEnds ==
    /\ view.timer /\ Room(1)
    /\ view' = [view EXCEPT !.timer = FALSE]
    /\ pending' = IF view.files THEN Loading(view.shown.folder, "plain") ELSE pending
    /\ doings' = IF view.files THEN [doings EXCEPT !.stale = StillStale(pending.loads, @)] ELSE doings
    /\ UNCHANGED <<versions, tube>>

(* Nothing is replayed and nothing loaded when the socket comes back. *)
TubeBreaks ==
    /\ tube.up /\ Lapse
    /\ tube' = [up |-> FALSE, slugs |-> <<>>]
    /\ doings' = Lapsed(IF tube.slugs # <<>> THEN {"unheard"} ELSE {})
    /\ UNCHANGED <<versions, view, pending>>

TubeReopens ==
    /\ ~tube.up
    /\ tube' = [tube EXCEPT !.up = TRUE]
    /\ UNCHANGED <<versions, view, pending, doings>>

ScreenNext ==
    \/ \E n \in DOMAIN pending.loads :
          DirectoryRead(n) \/ ListingFails(n) \/ FolderShown(n) \/ FolderFails(n)
    \/ \E p \in Projects : ProjectChosen(p) \/ FilesChange(p) \/ AgentWrites(p)
    \/ \E p \in Projects : \E f \in Tree[p] : FolderChosen(f) \/ Uploaded(p, f)
    \/ TabEntered \/ TabLeft \/ OtherTabRefreshes \/ OtherTabRefreshed \/ WindowFocused
    \/ Upload \/ SlugArrives \/ DebounceEnds \/ TubeBreaks \/ TubeReopens

-----------------------------------------------------------------------------
(* Properties *)

Load == UNION {[project : {p}, folder : UNION {Tree[q] : q \in Projects}, kind : {"plain", "refresh"},
                seen : {"no", "yes", "failed"}, version : 0 .. MaxEdits] : p \in Projects}

(* Every load is of a project and a folder, and isRefreshing is set by one *)
(* refresh at most.                                                        *)
ScreenTypeOK ==
    /\ versions \in [Projects -> 0 .. MaxEdits]
    /\ tube.slugs \in Seq(Projects) /\ tube.up \in BOOLEAN
    /\ view.active \in Scopes /\ view.shown.project \in Scopes
    /\ \A n \in DOMAIN pending.loads : pending.loads[n] \in Load
    /\ view.refreshing = "own"
          <=> Cardinality({n \in DOMAIN pending.loads : pending.loads[n].kind = "refresh"}) = 1
    /\ doings.stale \subseteq {"unheard", "failed", "overtaken", "skipped", "foreign"}

(* When the open files tab has nothing to wait for, it shows the active    *)
(* project as the last change left it, unless since it was last brought up *)
(* to date a change was not announced to it, a load failed or was          *)
(* overtaken, the refresh on entry was skipped, or an upload returned to a *)
(* project that is no longer active (use-workspace-events.ts:150,          *)
(* use-reactive-workspace-sync.ts:53, use-workspace-selection.ts:82).      *)
QuietFilesAreCurrent ==
    (/\ view.files /\ view.active # NoProject /\ ~view.timer
     /\ pending.loads = <<>> /\ tube.slugs = <<>> /\ doings.stale = {})
       => /\ view.shown.project = view.active
          /\ view.shown.version = versions[view.active]

=============================================================================
