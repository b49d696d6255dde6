------------------------------ MODULE MCServices ------------------------------
(* Parts of the system that share no state, for TLC: `part` names the one  *)
(* that a behaviour is about, the others stay as they start.               *)
EXTENDS StreamingTurn, OpenCodeSessions, Approvals, RuntimeUpdates,
        CliproxyAccounts, LiveBoard, LiveTerminal, BoardStore, ModePreferences,
        WebAuth, AgentMedia, BotPrompts, ProjectScreen, BrowserSession,
        ProjectFolders, ProjectCards, TaskForms, KanbanTools, SettingsEditor,
        SkillCatalog, ProxySettings, RuntimeServices, OpenCodeProjectSync,
        ChatNotes, ProviderAccounts

MCAdmins == <<"a", "b">>

(* What OpenCode offers before and after its configuration changes: lists  *)
(* in another order, a model that moves, agents that go.                   *)
MCOffers ==
    {[providers |-> <<"p", "q">>, models |-> [p |-> <<"m">>, q |-> <<"m", "n">>],
      agents |-> <<"build", "plan", "x">>, default |-> <<"p", "m">>],
     [providers |-> <<"q", "p">>, models |-> [p |-> <<"m">>, q |-> <<"n">>],
      agents |-> <<"x", "build">>, default |-> <<"p", "m">>]}

(* One project has a folder. *)
MCTree ==
    LET q == CHOOSE p \in Projects : TRUE
    IN [p \in Projects |-> IF p = q THEN {"root", "sub"} ELSE {"root"}]

(* The user looks for one skill among the installed ones. *)
MCLookups == {<<"k", "installed">>}

(* Lists of up to two todos. *)
MCTodoLists ==
    UNION {[1 .. n -> [id : Todos, status : {"pending", "in_progress", "completed"}]] : n \in 0 .. 2}

(* One provider gives a code, one a page to confirm, one takes a key.      *)
MCMethod == [v \in Vendors |-> CASE v = "v" -> "code" [] v = "w" -> "auto" [] OTHER -> "none"]

VARIABLE part

(* The other parts start in one state only, to count nothing twice. *)
MCInit ==
    /\ part \in {"stream", "sessions", "approvals", "update", "accounts",
                 "board", "terminal", "store", "modes", "auth", "media", "prompts",
                 "files", "browser", "runtime", "folders", "cards",
                 "drafts", "editor", "tools", "settings", "skills", "proxy", "fleet",
                 "sync", "todos", "notes", "logins", "credentials"}
    /\ StreamInit /\ SessionsInit /\ ApprovalsInit /\ UpdateInit /\ LiveInit /\ TerminalInit
    /\ StoreInit /\ AuthInit /\ MediaInit /\ ScreenInit /\ FoldersInit /\ SetupInit
    /\ SkillsInit /\ FleetInit /\ TodoInit /\ LoginInit
    /\ AccountsInit /\ (part # "accounts" => \A x \in Accounts : flag[x] = "on")
    /\ ModeInit /\ (part # "modes" => offer = CHOOSE o \in Offers : TRUE)
    /\ PromptsInit /\ (part # "prompts" => catalog)
    /\ BrowserInit /\ (part # "browser" => window.opened = "telegram")
    /\ RuntimeInit /\ (part # "runtime" => upkeep.enabled)
    /\ CardsInit /\ (part # "cards" => page.open = "none")
    /\ DraftsInit /\ (part # "drafts" => scope = "global")
    /\ EditorInit /\ (part # "editor" => Sheet = [Board!NoTask EXCEPT !.status = "backlog"])
    /\ ToolsInit /\ (part # "tools" => ticketId = 1)
    /\ ProxyInit /\ (part # "proxy" => profile = Direct)
    /\ CardAccountsInit
    /\ (part # "credentials" => usageApi = "there" /\ \A c \in Credentials : pool[c] = "on")
    /\ SyncInit /\ (part # "sync" => record = [w \in Dirs |-> "none"])
    /\ NotesInit /\ (part # "notes" => streamOn)

(* The parts that p is not. *)
Only(p) ==
    /\ part = p /\ UNCHANGED part
    /\ p # "stream" => UNCHANGED streaming
    /\ p # "sessions" => UNCHANGED conversation
    /\ p # "approvals" => UNCHANGED approval
    /\ p # "update" => UNCHANGED update
    /\ p # "accounts" => UNCHANGED accounts
    /\ p # "board" => UNCHANGED board
    /\ p # "terminal" => UNCHANGED terminal
    /\ p # "store" => UNCHANGED store
    /\ p # "modes" => UNCHANGED modes
    /\ p # "auth" => UNCHANGED auth
    /\ p # "media" => UNCHANGED media
    /\ p # "prompts" => UNCHANGED prompts
    /\ p # "files" => UNCHANGED filesTab
    /\ p # "browser" => UNCHANGED browser
    /\ p # "runtime" => UNCHANGED runtime
    /\ p # "folders" => UNCHANGED projects
    /\ p # "cards" => UNCHANGED cards
    /\ p # "drafts" => UNCHANGED drafts
    /\ p # "editor" => UNCHANGED editor
    /\ p # "tools" => UNCHANGED tools
    /\ p # "settings" => UNCHANGED setup
    /\ p # "skills" => UNCHANGED skillsTab
    /\ p # "proxy" => UNCHANGED proxy
    /\ p # "fleet" => UNCHANGED fleet
    /\ p # "sync" => UNCHANGED sync
    /\ p # "todos" => UNCHANGED todo
    /\ p # "notes" => UNCHANGED fileNotes
    /\ p # "logins" => UNCHANGED connecting
    /\ p # "credentials" => UNCHANGED cardsTab

MCNext ==
    \/ Only("stream") /\ StreamNext
    \/ Only("sessions") /\ SessionsNext
    \/ Only("approvals") /\ ApprovalsNext
    \/ Only("update") /\ UpdateNext
    \/ Only("accounts") /\ AccountsNext
    \/ Only("board") /\ LiveNext
    \/ Only("terminal") /\ TerminalNext
    \/ Only("store") /\ StoreNext
    \/ Only("modes") /\ ModeNext
    \/ Only("auth") /\ AuthNext
    \/ Only("media") /\ MediaNext
    \/ Only("prompts") /\ PromptsNext
    \/ Only("files") /\ ScreenNext
    \/ Only("browser") /\ BrowserNext
    \/ Only("runtime") /\ RuntimeNext
    \/ Only("folders") /\ FoldersNext
    \/ Only("cards") /\ CardsNext
    \/ Only("drafts") /\ DraftsNext
    \/ Only("editor") /\ EditorNext
    \/ Only("tools") /\ ToolsNext
    \/ Only("settings") /\ SetupNext
    \/ Only("skills") /\ SkillsNext
    \/ Only("proxy") /\ ProxyNext
    \/ Only("fleet") /\ FleetNext
    \/ Only("sync") /\ SyncNext
    \/ Only("todos") /\ TodoNext
    \/ Only("notes") /\ NotesNext
    \/ Only("logins") /\ LoginNext
    \/ Only("credentials") /\ CardAccountsNext

services ==
    <<part, streaming, conversation, approval, update, accounts, board, terminal, store,
      modes, auth, media, prompts, filesTab, browser, runtime, projects, cards, drafts,
      editor, tools, setup, skillsTab, proxy, fleet, sync, todo, fileNotes, connecting, cardsTab>>

MCSpec == MCInit /\ [][MCNext]_services

(* What tells states of a part apart. *)
PartOnly ==
    CASE part = "stream" -> <<part, streaming>>
      [] part = "sessions" -> <<part, conversation>>
      [] part = "approvals" -> <<part, approval>>
      [] part = "update" -> <<part, update>>
      [] part = "accounts" -> <<part, accounts>>
      [] part = "board" -> <<part, board>>
      [] part = "terminal" -> <<part, terminal>>
      [] part = "store" -> <<part, store>>
      [] part = "modes" -> <<part, modes>>
      [] part = "auth" -> <<part, auth>>
      [] part = "media" -> <<part, media>>
      [] part = "prompts" -> <<part, prompts>>
      [] part = "files" -> <<part, filesTab>>
      [] part = "browser" -> <<part, browser>>
      [] part = "runtime" -> <<part, runtime>>
      [] part = "folders" -> <<part, projects>>
      [] part = "cards" -> <<part, cards>>
      [] part = "drafts" -> <<part, drafts>>
      [] part = "editor" -> <<part, editor>>
      [] part = "tools" -> <<part, tools>>
      [] part = "settings" -> <<part, setup>>
      [] part = "skills" -> <<part, skillsTab>>
      [] part = "proxy" -> <<part, proxy>>
      [] part = "fleet" -> <<part, fleet>>
      [] part = "sync" -> <<part, sync>>
      [] part = "todos" -> <<part, todo>>
      [] part = "notes" -> <<part, fileNotes>>
      [] part = "logins" -> <<part, connecting>>
      [] part = "credentials" -> <<part, cardsTab>>

(* Every part's variables have the types its module gives them. *)
ServicesTypeOK ==
    /\ part = "stream" => StreamTypeOK
    /\ part = "sessions" => SessionsTypeOK
    /\ part = "approvals" => ApprovalsTypeOK
    /\ part = "update" => UpdateTypeOK
    /\ part = "accounts" => AccountsTypeOK
    /\ part = "board" => LiveTypeOK
    /\ part = "terminal" => TerminalTypeOK
    /\ part = "store" => StoreTypeOK
    /\ part = "modes" => ModeTypeOK
    /\ part = "auth" => AuthTypeOK
    /\ part = "media" => MediaTypeOK
    /\ part = "prompts" => PromptsTypeOK
    /\ part = "files" => ScreenTypeOK
    /\ part = "browser" => BrowserTypeOK
    /\ part = "runtime" => RuntimeTypeOK
    /\ part = "folders" => FoldersTypeOK
    /\ part = "cards" => CardsTypeOK
    /\ part = "drafts" => DraftsTypeOK
    /\ part = "editor" => EditorTypeOK
    /\ part = "tools" => ToolsTypeOK
    /\ part = "settings" => SetupTypeOK
    /\ part = "skills" => SkillsTypeOK
    /\ part = "proxy" => ProxyTypeOK
    /\ part = "fleet" => FleetTypeOK
    /\ part = "sync" => SyncTypeOK
    /\ part = "todos" => TodoTypeOK
    /\ part = "notes" => NotesTypeOK
    /\ part = "logins" => LoginTypeOK
    /\ part = "credentials" => CardAccountsTypeOK

(* A screen of the Mini App that has nothing to wait for is up to date,    *)
(* but for what the modules of the screens name: the board, the terminal,  *)
(* the files, the cards of the projects, the catalog of skills, the        *)
(* services, the logins and the accounts of providers; and what the editor *)
(* of settings calls saved is saved.                                       *)
QuietScreensAreCurrent ==
    CASE part = "board" -> QuietBoardIsCurrent
      [] part = "terminal" -> TerminalIsWhole
      [] part = "files" -> QuietFilesAreCurrent
      [] part = "cards" -> CardsFollow
      [] part = "skills" -> QuietCatalogIsCurrent
      [] part = "settings" -> SavedMeansSaved
      [] part = "fleet" -> RestartIsShown /\ ShownHealthIsTrue
      [] part = "logins" -> LoginsLeadSomewhere
      [] part = "credentials" -> AccountCardsAreTrue
      [] OTHER -> TRUE

(* A turn is over when its callers hear so, and an agent that asked is     *)
(* answered with what was chosen for that very step.                       *)
AgentsAreAnswered ==
    CASE part = "sessions" -> DoneIsOver
      [] part = "approvals" -> AnswersOfOwnStep
      [] OTHER -> TRUE

(* A message of the user and a file of the agent are kept until somebody   *)
(* was told of their end, and each file that changed gets its note.        *)
NothingIsDropped ==
    CASE part = "media" -> WaitingMediaIsThere
      [] part = "prompts" -> NothingSwallowed
      [] part = "notes" -> NotesFollowFiles
      [] OTHER -> TRUE

(* The route to the models: one account is used while any can be, and the  *)
(* proxy that was tested, saved and applied is the one that is used.       *)
ModelsAreReached ==
    CASE part = "accounts" -> OneStaysOn
      [] part = "proxy" -> RoutesLeadSomewhere /\ AppliedTakesEffect /\ SavesTestedLinks
      [] OTHER -> TRUE

(* One press makes one draft, one change of a skill is under way, and a    *)
(* pass over the projects leaves no session of its own behind.             *)
PressedOnce ==
    CASE part = "drafts" -> MadeOnce
      [] part = "skills" -> OneChangePerSkill
      [] part = "sync" -> BootstrapsAreDropped
      [] OTHER -> TRUE

(* Updates of the runtime go back when they fail, and updates of OpenCode  *)
(* only go forward.                                                        *)
UpdatesAreSafe == UpdatesAreReversible /\ OnlyForward

(* A step of one request destroys no board, no work, no words and no       *)
(* settings file of another, and no late call sets a checklist back.       *)
DataIsKept ==
    /\ KeepsBoard /\ FoldersAreKept /\ DraftsSurvive
    /\ [][FilesKeepTheirText]_setup /\ TodosNeverGoBack

=============================================================================
