--------------------------- MODULE ServicesProofs ---------------------------
(***************************************************************************)
(* The properties of the run with all the parts, for every value of the    *)
(* constants, from what is proved of each part.                            *)
(***************************************************************************)
EXTENDS MCServices, BackendProofs, ClientProofs, ScreenProofs, TLAPS

-----------------------------------------------------------------------------
(* The parts together *)

(* A step of the run is a step of each part or leaves it alone. *)
LEMMA PartsTurn ==
    ASSUME [MCNext]_services
    PROVE  /\ [StoreNext]_store /\ [FoldersNext]_projects /\ [DraftsNext]_drafts
           /\ [SetupNext]_setup /\ [TodoNext]_todo
           /\ [UpdateNext]_update /\ [RuntimeNext]_runtime
           /\ [SkillsNext]_skillsTab /\ [SyncNext]_sync /\ [ToolsNext]_tools
           /\ [SessionsNext]_conversation /\ [ApprovalsNext]_approval
           /\ [MediaNext]_media /\ [PromptsNext]_prompts /\ [NotesNext]_fileNotes
           /\ [ModeNext]_modes /\ [BrowserNext]_browser
           /\ [EditorNext]_editor /\ [AccountsNext]_accounts /\ [ProxyNext]_proxy
           /\ [FleetNext]_fleet /\ [LiveNext]_board /\ [TerminalNext]_terminal
           /\ [ScreenNext]_filesTab /\ [CardsNext]_cards /\ [LoginNext]_connecting
           /\ [CardAccountsNext]_cardsTab /\ [StreamNext]_streaming
BY DEF MCNext, Only, services

(* The run starts each part as it starts alone. *)
LEMMA PartsStart ==
    ASSUME MCInit
    PROVE  /\ StoreInit /\ FoldersInit /\ DraftsInit /\ SetupInit /\ TodoInit
           /\ UpdateInit /\ RuntimeInit /\ SkillsInit /\ SyncInit
           /\ ToolsInit /\ SessionsInit /\ ApprovalsInit
           /\ MediaInit /\ PromptsInit /\ NotesInit /\ ModeInit
           /\ BrowserInit /\ EditorInit /\ AccountsInit /\ ProxyInit /\ FleetInit
           /\ LiveInit /\ TerminalInit /\ ScreenInit /\ CardsInit /\ LoginInit
           /\ CardAccountsInit /\ StreamInit
BY DEF MCInit

(* Both kinds of update, in the run with all the parts. *)
THEOREM UpdatesAreSafeInServices == MCSpec => UpdatesAreSafe
<1>1. MCInit => UpdateInit /\ RuntimeInit
  BY PartsStart
<1>2. [MCNext]_services => [UpdateNext]_update /\ [RuntimeNext]_runtime
  BY PartsTurn
<1> QED BY <1>1, <1>2, UpdatesGoBack, ReleasesGoForward, PTL DEF MCSpec, UpdateSpec, UpdatesAreSafe

(* No request destroys what another one keeps: boards, work in folders,    *)
(* typed words, settings files and checklists, in the run with all parts.  *)
THEOREM DataIsKeptInServices == MCSpec => DataIsKept
<1>1. MCInit => StoreInit /\ FoldersInit /\ DraftsInit /\ SetupInit /\ TodoInit
  BY PartsStart
<1>2. [MCNext]_services => /\ [StoreNext]_store /\ [FoldersNext]_projects /\ [DraftsNext]_drafts
                           /\ [SetupNext]_setup /\ [TodoNext]_todo
  BY PartsTurn
<1> QED BY <1>1, <1>2, BoardStoreIsAtomic, WorkAndRecordsAreKept, DraftsAreKept, FilesAreNotMixedUp,
           ChecklistsOnlyAdvance, PTL DEF MCSpec, StoreSpec, FoldersSpec, TodoSpec, DataIsKept

(* One press makes one draft, one change of a skill is under way, and a    *)
(* pass leaves no session of its own behind (useTaskForm.handleSubmit,     *)
(* useOpenCodeSkills.runMutation, OpenCodeProjectSyncService), in the run  *)
(* with all parts.                                                         *)
THEOREM PressedOnceInServices == MCSpec => []PressedOnce
<1>1. MCInit => DraftInv /\ SkillsInv /\ SyncInv
  BY PartsStart, DraftStarts, SkillsStart, SyncStarting
<1>2. DraftInv /\ SkillsInv /\ SyncInv /\ [MCNext]_services => DraftInv' /\ SkillsInv' /\ SyncInv'
  BY PartsTurn, DraftStep, SkillsStep, SyncStep
<1>3. DraftInv /\ SkillsInv /\ SyncInv => PressedOnce
  BY SentOnce, BusyIsOne, PassesOwnBootstraps DEF PressedOnce
<1> QED BY <1>1, <1>2, <1>3, PTL DEF MCSpec

(* Of two sessions told that the task is theirs one has lost its lease     *)
(* since, and a session told to stop does not hold it                      *)
(* (KanbanService.startTask, claimNextTask), in the run with all parts.    *)
THEOREM OneWorksInServices == MCSpec => []OneWorks
<1>1. MCInit => ToolInv
  BY PartsStart, ToolsStart
<1>2. ToolInv /\ [MCNext]_services => ToolInv'
  BY PartsTurn, ToolsStep
<1>3. ToolInv => OneWorks
  BY HoldersDiffer
<1> QED BY <1>1, <1>2, <1>3, PTL DEF MCSpec

(* A prompt reported as done has no run left in OpenCode, and OpenCode is  *)
(* given for each step what was pressed on that step's own button          *)
(* (OpenCodeClient.sendPrompt, TelegramController), in the run with all    *)
(* parts.                                                                  *)
THEOREM AgentsAreAnsweredInServices == MCSpec => []AgentsAreAnswered
<1>1. MCInit => TalkInv /\ ApprovalInv
  BY PartsStart, TalkStarts, ApprovalStarts
<1>2. TalkInv /\ ApprovalInv /\ [MCNext]_services => TalkInv' /\ ApprovalInv'
  BY PartsTurn, TalkStep, ApprovalStep
<1>3. TalkInv /\ ApprovalInv => AgentsAreAnswered
  BY DEF AgentsAreAnswered, TalkInv, ApprovalInv
<1> QED BY <1>1, <1>2, <1>3, PTL DEF MCSpec

(* The bot is silent about no message, the sweep takes no file that an     *)
(* item waits to send, and each changed file gets its note with what it    *)
(* links to (bot-prompt-handlers.ts, TelegramAgentMediaStorageService,     *)
(* TelegramOpenCodeRuntimeFileOperations), in the run with all parts.      *)
THEOREM NothingIsDroppedInServices == MCSpec => []NothingIsDropped
<1>1. MCInit => MediaInv /\ DealtInv /\ NotesInv
  BY PartsStart, MediaStart, MessagesStart, NotesStart
<1>2. MediaInv /\ DealtInv /\ NotesInv /\ [MCNext]_services => MediaInv' /\ DealtInv' /\ NotesInv'
  BY PartsTurn, MediaStep, MessagesStep, NotesStep
<1>3. MediaInv /\ DealtInv /\ NotesInv => NothingIsDropped
  BY NobodySilent, NotesAreThere DEF NothingIsDropped, MediaInv
<1> QED BY <1>1, <1>2, <1>3, PTL DEF MCSpec

(* What is stored for an administrator is what one of their buttons named, *)
(* and what the browser surface has adopted (ModeControl,                  *)
(* TelegramPreferencesService.updateSettings), in the run with all parts.  *)
THEOREM ChosenModesAreStoredInServices == MCSpec => StoresWhatWasChosen
<1>1. MCInit => ModeInit
  BY PartsStart
<1>2. [MCNext]_services => [ModeNext]_modes
  BY PartsTurn
<1> QED BY <1>1, <1>2, ChosenModesAreStored, PTL DEF MCSpec, ModeSpec

(* A session ends for a reason while its user is active, and no idle tab   *)
(* renews one (useBrowserSession, WebTokenController), in the run with all *)
(* parts.                                                                  *)
THEOREM SessionsFollowActivityInServices == MCSpec => SessionFollowsActivity
<1>1. MCInit => BrowserInit
  BY PartsStart
<1>2. [MCNext]_services => [BrowserNext]_browser
  BY PartsTurn
<1> QED BY <1>1, <1>2, SessionsFollowActivity, PTL DEF MCSpec, BrowserSpec

(* A save that was not meant to move the task leaves its execution alone,  *)
(* however old the dialog's copy, and empties no checklist that the user   *)
(* did not empty (KanbanTaskEditorModal, buildTaskUpdatePatch), in the run *)
(* with all parts.                                                         *)
THEOREM OldCopiesDoNoHarmInServices == MCSpec => SavesKeepWork
<1>1. MCInit => EditorInit
  BY PartsStart
<1>2. [MCNext]_services => [EditorNext]_editor
  BY PartsTurn
<1> QED BY <1>1, <1>2, OldCopiesDoNoHarm, PTL DEF MCSpec, EditorSpec

(* A provider keeps an enabled account, and the proxy's files and          *)
(* containers follow the applied profile (CliproxyAccountService,          *)
(* ProxySettingsService), in the run with all parts.                       *)
THEOREM ModelsAreReachedInServices == MCSpec => []ModelsAreReached
<1>1. MCInit => AccountsInv /\ ProxyInv
  BY PartsStart, AccountsStart, ProxyStart
<1>2. AccountsInv /\ ProxyInv /\ [MCNext]_services => AccountsInv' /\ ProxyInv'
  BY PartsTurn, AccountsStep, ProxyStep
<1>3. AccountsInv /\ ProxyInv => ModelsAreReached
  BY OneAccountLeft, ProxyPromises DEF ModelsAreReached
<1> QED BY <1>1, <1>2, <1>3, PTL DEF MCSpec

(* What the settings editor calls saved is in the file, unless an agent    *)
(* writes the same file, files are mixed up, or two saves are under way at *)
(* once (useOpenCodeSettings, OpenCodeSettingsService).                    *)
THEOREM SavedMeansSavedInServices == MCSpec => []SavedMeansSaved
<1>1. MCInit => SavedInv
  BY PartsStart, SavedStarts
<1>2. SavedInv /\ [MCNext]_services => SavedInv'
  <2> SUFFICES ASSUME SavedInv, [MCNext]_services PROVE SavedInv'
    OBVIOUS
  <2> QED BY PartsTurn, SavedStep
<1>3. SavedInv => SavedMeansSaved
  BY SuccessIsSaved
<1> QED BY <1>1, <1>2, <1>3, PTL DEF MCSpec

(* The dashboard of services shows a container that was restarted once the *)
(* restart is over, and a health that was so unless the container changed  *)
(* since (useRuntimeServices, RuntimeServicesService).                     *)
THEOREM ServicesAreShownInServices == MCSpec => [](RestartIsShown /\ ShownHealthIsTrue)
<1>1. MCInit => FleetInv
  BY PartsStart, FleetStarts
<1>2. FleetInv /\ [MCNext]_services => FleetInv'
  <2> SUFFICES ASSUME FleetInv, [MCNext]_services PROVE FleetInv'
    OBVIOUS
  <2> QED BY PartsTurn, FleetStep
<1>3. FleetInv => RestartIsShown /\ ShownHealthIsTrue
  BY RestartsAreShown
<1> QED BY <1>1, <1>2, <1>3, PTL DEF MCSpec

(* What each screen keeps true of what it shows and of what is on its way. *)
ScreensInv ==
    /\ BoardInv /\ TerminalInv /\ FileTabInv /\ CardsInv /\ CatalogInv
    /\ SavedInv /\ FleetInv /\ LoginInv /\ CardInv

LEMMA ScreensStart == ASSUME MCInit PROVE ScreensInv
<1>1. BoardInv /\ TerminalInv /\ FileTabInv /\ CardsInv /\ CatalogInv
  BY PartsStart, BoardStarts, TerminalStarts, FilesStart, CardsStarting, CatalogStarts
<1>2. SavedInv /\ FleetInv /\ LoginInv /\ CardInv
  BY PartsStart, SavedStarts, FleetStarts, LoginsStart, CardsStart
<1> QED BY <1>1, <1>2 DEF ScreensInv

LEMMA ScreensTurn == ASSUME ScreensInv, [MCNext]_services PROVE ScreensInv'
<1>1. BoardInv' /\ TerminalInv' /\ FileTabInv'
  BY PartsTurn, BoardStep, TerminalStep, FilesStep DEF ScreensInv
<1>2. CardsInv' /\ CatalogInv' /\ SavedInv'
  BY PartsTurn, CardsStep, CatalogStep, SavedStep DEF ScreensInv
<1>3. FleetInv' /\ LoginInv' /\ CardInv'
  BY PartsTurn, FleetStep, LoginStep, CardStep DEF ScreensInv
<1> QED BY <1>1, <1>2, <1>3 DEF ScreensInv

LEMMA ScreensAreTrue == ASSUME ScreensInv PROVE QuietScreensAreCurrent
<1>1. QuietBoardIsCurrent /\ TerminalIsWhole /\ QuietFilesAreCurrent
  BY BoardIsTrue, TerminalIsTrue, FilesAreTrue DEF ScreensInv
<1>2. CardsFollow /\ QuietCatalogIsCurrent /\ SavedMeansSaved
  BY CardsFollowTruly, CatalogIsTrue, SuccessIsSaved DEF ScreensInv
<1>3. RestartIsShown /\ ShownHealthIsTrue /\ LoginsLeadSomewhere /\ AccountCardsAreTrue
  BY RestartsAreShown, LoginsAreTrue, CardsAreTrue DEF ScreensInv
<1> QED BY <1>1, <1>2, <1>3 DEF QuietScreensAreCurrent

(* A screen of the Mini App that has nothing to wait for is up to date, but *)
(* for what its module names: the board, the terminal, the files, the cards *)
(* of projects, the catalog of skills, the settings, the services, the      *)
(* logins and the accounts (useKanbanBoard, TerminalTab, useProjectFiles,   *)
(* useProjectLoaders, useOpenCodeSkills, useOpenCodeSettings,               *)
(* useRuntimeServices, ProvidersTab), in the run with all parts.            *)
THEOREM QuietScreensInServices == MCSpec => []QuietScreensAreCurrent
<1>1. MCInit => ScreensInv
  BY ScreensStart
<1>2. ScreensInv /\ [MCNext]_services => ScreensInv'
  BY ScreensTurn
<1>3. ScreensInv => QuietScreensAreCurrent
  BY ScreensAreTrue
<1> QED BY <1>1, <1>2, <1>3, PTL DEF MCSpec

(* Between two turns nothing shows that the agent is thinking, and no words *)
(* of the agent stand in two messages of the chat, unless the subscription  *)
(* has missed something or repeats what the bridge does not know again      *)
(* (TelegramOpenCodeRuntimeBridge, telegram-outbox.service.ts:184, :448), in *)
(* the run with all parts.                                                  *)
THEOREM ChatReadsWellInServices == MCSpec => []ChatReadsWell
<1>1. MCInit => StreamInv
  BY PartsStart, StreamStarts
<1>2. StreamInv /\ [MCNext]_services => StreamInv'
  BY PartsTurn, StreamGoesOn
<1>3. StreamInv => ChatReadsWell
  BY StreamReads
<1> QED BY <1>1, <1>2, <1>3, PTL DEF MCSpec

=============================================================================
