---------------------------- MODULE SettingsEditor ----------------------------
(***************************************************************************)
(* The settings files of the Mini App: the accordion that offers to open   *)
(* or to create them and the editor over it (SettingsTab.tsx, use-         *)
(* opencode-settings.ts), with the backend that reads, saves and creates   *)
(* them (opencode-settings.service.ts).  A rule file is either shared or a *)
(* project's own; which file a request is about follows from its kind and  *)
(* the project that is active when it is sent.                             *)
(***************************************************************************)
EXTENDS Naturals, FiniteSets

CONSTANTS
    Owners,       \* projects
    MaxGestures,  \* bound: acts of the user, polls and bad luck
    MaxSent,      \* bound: requests in flight
    MaxBadLuck    \* bound: lost answers, files written by an agent, late starts

ASSUME SetupBounds ==
    /\ {MaxGestures, MaxSent, MaxBadLuck} \subseteq Nat
    /\ Owners # {} /\ {"shared", "none", "nobody"} \cap Owners = {}

VARIABLES
    texts,      \* per place: its text
    desk,      \* the screen: active project, overview, open file, draft
    posts,     \* requests
    gestures   \* acts and bad luck so far; why the editor may mix files up

setup == <<texts, desk, posts, gestures>>

Shared == "shared"
Places == Owners \cup {Shared}
Kinds == {"globalRule", "projectRule"}

(* A text: the file it was read from or written to last, and its edit.     *)
Absent == [of |-> "nobody", edit |-> 0]
Empty(place) == [of |-> place, edit |-> 0]

NoFile == [place |-> "none", kind |-> "none", content |-> Absent]

SetupInit ==
    /\ texts = [x \in Places |-> IF x = Shared THEN Absent ELSE [of |-> x, edit |-> 0]]
    /\ desk = [active |-> CHOOSE p \in Owners : TRUE, exists |-> {},
               file |-> NoFile, draft |-> Absent, open |-> FALSE, saving |-> FALSE,
               result |-> "idle"]
    /\ posts = {}
    /\ gestures = [acts |-> 0, luck |-> 0, mixed |-> {}]

-----------------------------------------------------------------------------
(* The backend *)

(* resolveTarget *)
Target(kind, project) == IF kind = "globalRule" THEN Shared ELSE project

(* saveFile writes whatever was there, readFile returns an absent file as  *)
(* an empty text, createFile leaves a file that exists as it is.           *)
InFile(place, text) == [text EXCEPT !.of = place]

SaveFile(place, text) == texts' = [texts EXCEPT ![place] = InFile(place, text)]

ContentOf(place) == IF texts[place] = Absent THEN Empty(place) ELSE texts[place]

(* Faulty variant: without existsSync. *)
CreateFileAnew(place) == texts' = [texts EXCEPT ![place] = Empty(place)]

CreateFile(place) ==
    texts' = [texts EXCEPT ![place] = IF @ = Absent THEN Empty(place) ELSE @]

(* getOverview: which files of the project and of all projects exist.      *)
FilesThere(project) == {k \in Kinds : texts[Target(k, project)] # Absent}

Served(r) ==
    LET place == Target(r.kind, r.project)
    IN /\ r.answer = "none"
       /\ CASE r.op = "save" -> SaveFile(place, r.text)
            [] r.op = "create" -> CreateFile(place)
            [] OTHER -> UNCHANGED texts
       /\ posts' = (posts \ {r}) \cup
             {[r EXCEPT !.answer = "ok",
                        !.text = CASE r.op = "read" -> ContentOf(place)
                                   [] r.op = "save" -> InFile(place, @) [] OTHER -> @,
                        !.seen = IF r.op = "overview" THEN FilesThere(r.project) ELSE {}]}
       /\ UNCHANGED <<desk, gestures>>

BadLuck == gestures.luck < MaxBadLuck /\ gestures.acts + gestures.luck < MaxGestures

(* The request or its answer is lost, or the backend refuses it. *)
PostFails(r) ==
    /\ r.answer = "none" /\ BadLuck
    /\ posts' = (posts \ {r}) \cup {[r EXCEPT !.answer = "error"]}
    /\ gestures' = [gestures EXCEPT !.luck = @ + 1]
    /\ UNCHANGED <<texts, desk>>

(* An agent writes the rules of a project. *)
AgentEdits(place) ==
    /\ BadLuck
    /\ texts' = [texts EXCEPT ![place] = [of |-> place, edit |-> MaxGestures + 1]]
    /\ gestures' = [gestures EXCEPT !.luck = @ + 1, !.mixed = @ \cup {"agent"}]
    /\ UNCHANGED <<desk, posts>>

-----------------------------------------------------------------------------
(* The editor *)

MayAct == gestures.acts + gestures.luck < MaxGestures
Gestured == gestures' = [gestures EXCEPT !.acts = @ + 1]

Letter(op, kind, project, text, refresh) ==
    [id |-> gestures.acts, op |-> op, kind |-> kind, project |-> project, text |-> text,
     mixed |-> gestures.mixed, refresh |-> refresh, answer |-> "none", seen |-> {}]

Mails(r) == Cardinality(posts) < MaxSent /\ posts' = posts \cup {r}

(* setActiveFile and its effects: another path ends the saving state, and  *)
(* another path or content replaces the draft.                             *)
WithFile(d, file) ==
    LET moved == file.place # d.file.place
    IN [d EXCEPT !.file = file, !.open = file # NoFile,
                 !.draft = IF moved \/ file.content # d.file.content THEN file.content ELSE @,
                 !.saving = IF moved THEN FALSE ELSE @,
                 !.result = IF moved THEN "idle" ELSE @]

(* Faulty variant: the open file survives the selection. *)
ProjectChangeKeepsFile(p) == [desk EXCEPT !.active = p]

(* selectProject closes the file of the project before. *)
ProjectChange(p) == [WithFile(desk, NoFile) EXCEPT !.active = p]

ProjectSelected(p) ==
    /\ MayAct
    /\ desk' = ProjectChange(p)
    /\ gestures' = [gestures EXCEPT !.acts = @ + 1, !.mixed =
            @ \cap ({"agent"} \cup IF \E r \in posts : r.op = "save" THEN {"two saves"} ELSE {})]
    /\ UNCHANGED <<texts, posts>>

(* restoreActiveProject, late after the start of the page, closes nothing. *)
ProjectRestored(p) ==
    /\ BadLuck /\ p # desk.active
    /\ desk' = [desk EXCEPT !.active = p]
    /\ gestures' = [gestures EXCEPT !.luck = @ + 1, !.mixed =
            IF desk.file # NoFile THEN @ \cup {"restored"} ELSE @]
    /\ UNCHANGED <<texts, posts>>

(* A poll, the focus, a new project or a report of the backend. *)
OverviewAsked ==
    /\ MayAct /\ \A r \in posts : r.op # "overview"
    /\ Mails(Letter("overview", "projectRule", desk.active, Absent, FALSE))
    /\ Gestured /\ UNCHANGED <<texts, desk>>

(* A file that the overview shows is opened, another one created. *)
FileClicked(kind) ==
    /\ MayAct /\ ~desk.open
    /\ Mails(Letter(IF kind \in desk.exists THEN "read" ELSE "create", kind, desk.active, Absent, FALSE))
    /\ Gestured /\ UNCHANGED <<texts, desk>>

Typed ==
    /\ MayAct /\ desk.open
    /\ desk' = [desk EXCEPT !.draft.edit = gestures.acts + 1]
    /\ Gestured /\ UNCHANGED <<texts, posts>>

EditorClosed ==
    /\ MayAct /\ desk.open
    /\ desk' = [desk EXCEPT !.open = FALSE]
    /\ Gestured /\ UNCHANGED <<texts, posts>>

(* saveEditorDraft *)
SaveClicked ==
    /\ MayAct /\ desk.open /\ ~desk.saving
    /\ Mails(Letter("save", desk.file.kind, desk.active, desk.draft, FALSE))
    /\ desk' = [desk EXCEPT !.saving = TRUE, !.result = "idle"]
    /\ gestures' = [gestures EXCEPT !.acts = @ + 1, !.mixed = @ \cup
            IF \E r \in posts : r.op = "save" THEN {"two saves"} ELSE {}]
    /\ UNCHANGED texts

-----------------------------------------------------------------------------
(* Answers *)

Then(r, op) == [r EXCEPT !.op = op, !.answer = "none", !.text = Absent, !.refresh = op = "read"]

Settle(r, more) == posts' = (posts \ {r}) \cup more

OverviewShown(r) ==
    /\ r.op = "overview" /\ r.answer # "none"
    /\ desk' = IF r.answer = "ok" THEN [desk EXCEPT !.exists = r.seen] ELSE desk
    /\ Settle(r, {}) /\ UNCHANGED <<texts, gestures>>

(* createFile of the hook: then openFile, then the overview.               *)
FileCreated(r) ==
    /\ r.op = "create" /\ r.answer # "none"
    /\ Settle(r, IF r.answer = "ok" THEN {Then(r, "read")} ELSE {})
    /\ UNCHANGED <<texts, desk, gestures>>

(* openFile shows what was read, whatever is active or saved by now.       *)
FileShown(r) ==
    LET place == Target(r.kind, r.project)
    IN /\ r.op = "read" /\ r.answer # "none"
       /\ IF r.answer = "ok"
          THEN /\ desk' = WithFile(desk, [place |-> place, kind |-> r.kind, content |-> r.text])
               /\ gestures' = [gestures EXCEPT !.mixed =
                       IF place # Target(r.kind, desk.active) \/ r.text # ContentOf(place) THEN @ \cup {"late read"}
                       ELSE @ \ {"restored", "late read", "late save"}]
          ELSE UNCHANGED <<desk, gestures>>
       /\ Settle(r, IF r.refresh THEN {Then(r, "overview")} ELSE {})
       /\ UNCHANGED texts

(* saveActiveFile: the file that is open now gets the saved content, and   *)
(* saveEditorDraft calls it a success, since the hook keeps errors.        *)
FileSaved(r) ==
    /\ r.op = "save" /\ r.answer # "none"
    /\ LET now == IF r.answer = "ok" /\ desk.file # NoFile
                  THEN WithFile(desk, [desk.file EXCEPT !.content = r.text]) ELSE desk
       IN desk' = [now EXCEPT !.saving = FALSE, !.result = "success"]
    /\ gestures' = [gestures EXCEPT !.mixed =
            IF r.answer = "ok" /\ desk.file.place \notin {"none", Target(r.kind, r.project)}
            THEN @ \cup {"late save"} ELSE @]
    /\ Settle(r, IF r.answer = "ok" THEN {Then(r, "overview")} ELSE {})
    /\ UNCHANGED texts

SetupNext ==
    \/ \E p \in Owners : ProjectSelected(p) \/ ProjectRestored(p) \/ AgentEdits(p)
    \/ \E k \in Kinds : FileClicked(k)
    \/ OverviewAsked \/ Typed \/ EditorClosed \/ SaveClicked
    \/ \E r \in posts : Served(r) \/ PostFails(r) \/ OverviewShown(r) \/ FileCreated(r)
                          \/ FileShown(r) \/ FileSaved(r)

-----------------------------------------------------------------------------
(* Properties *)

(* Files, the screen and requests are what the code handles; an open       *)
(* editor shows a file.                                                    *)
SetupTypeOK ==
    /\ \A x \in Places : texts[x].of \in Places \cup {"nobody"}
    /\ desk.active \in Owners /\ desk.exists \subseteq Kinds
    /\ desk.open => desk.file.place \in Places
    /\ \A r \in posts : r.kind \in Kinds /\ r.project \in Owners

(* A file only gets text that was read from it or typed over it, and only  *)
(* by a save, as long as answers come while their file and their project   *)
(* are still open (use-opencode-settings.ts:62, :91).                      *)
FilesKeepTheirText ==
    \A x \in Places : texts'[x] # texts[x] =>
        \/ texts[x] = Absent
        \/ \E r \in posts : r.op = "save" /\ texts'[x] = InFile(x, r.text)
                              /\ (r.mixed \subseteq {"agent", "two saves"} => r.text.of = x)
        \/ gestures'.luck > gestures.luck

(* "All changes saved" is true unless an agent writes the same file, files *)
(* are mixed up, or two saves are under way at once.                       *)
SavedMeansSaved ==
    desk.result = "success" /\ desk.file # NoFile /\ desk.draft = desk.file.content
            /\ gestures.mixed = {}
        => ContentOf(desk.file.place) = desk.draft

=============================================================================
