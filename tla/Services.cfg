SPECIFICATION MCSpec
CONSTANTS
    NoProject = NoProject
    PartKinds = {"long", "file", "reasoning"}
    MaxTurns = 2
    MaxParts = 2
    MaxEvents = 2
    MaxFaults = 1
    MaxSessions = 2
    MaxSessionCalls = 1
    Questions = {q1}
    Permissions = {r1}
    Steps = 2
    MaxPresses = 2
    MaxRestarts = 1
    Updaters = {u, v}
    MaxReleases = 3
    MaxAttempts = 3
    MaxUpdateCrashes = 1
    MaxAccounts = 2
    Windows = {u, v}
    MaxJobs = 2
    MaxFailures = 1
    Projects = {p1, p2}
    BufferSize = 2
    MaxChanges = 2
    MaxLoads = 2
    MaxMoves = 2
    MaxBoardFaults = 1
    Symbols = {"l", "o"}
    MaxChunks = 2
    MaxCalls = 1
    MaxSelects = 2
    MaxBreaks = 1
    Clients = {a, b, d}
    MaxBackups = 1
    MaxCommits = 2
    MaxCopies = 2
    MaxStoreCrashes = 1
    Admins = {"a"}
    Offers <- MCOffers
    DeepModels = {"n"}
    PageSize = 1
    Handlers = {h1, h2}
    MaxModePresses = 4
    MaxModeTurns = 1
    AuthRequests = {w1, w2}
    Devices = {"x"}
    LinkTtl = 2
    SessionTtl = 2
    Grace = 1
    MaxHours = 4
    MaxLinks = 1
    MaxExchanges = 2
    MaxAuthFaults = 1
    Agents = {s}
    AdminIds <- MCAdmins
    NoAdmin = NoAdmin
    MaxAlbum = 2
    KeepItems = 1
    DeliveredTtl = 1
    DeadTtl = 2
    OrphanTtl = 2
    MaxDays = 3
    MaxStaged = 2
    MaxRouting = 2
    MessageKinds = {"voice", "slash"}
    MaxUpdates = 2
    MaxMute = 1
    MaxBotCrashes = 1
    MaxCatalogs = 1
    Tree <- MCTree
    Root = "root"
    MaxEdits = 1
    MaxClicks = 2
    MaxFileLoads = 2
    MaxLapses = 1
    TokenTtl = 3
    InitTtl = 1
    RefreshEvery = 1
    NearExpiry = 1
    MaxTicks = 5
    MaxTrouble = 2
    Containers = {"c", "d"}
    Presses = {"press"}
    MaxPublished = 3
    MaxReboots = 2
    MaxNpmFaults = 1
    MaxFolders = 2
    Pilots = {"a"}
    FolderCalls = {"x", "y"}
    MaxAsked = 2
    MaxDirt = 1
    MaxSlips = 1
    Cards = {"p"}
    MaxCardLoads = 2
    MaxInFlight = 2
    MaxUpheavals = 1
    MaxMisses = 1
    DraftSlugs = {"p", "q"}
    MaxWords = 1
    MaxWrites = 3
    MaxLostWrites = 1
    MaxTurnsOfPage = 3
    Rows = {"c"}
    Hands = {"s"}
    NoOne = NoOne
    MaxOthers = 2
    MaxStrokes = 1
    Workers = {"s", "t"}
    Marks = {"c"}
    NoWorker = NoWorker
    MaxToolCalls = 2
    MaxMeddling = 1
    MaxUnheard = 1
    Owners = {"p", "q"}
    MaxGestures = 4
    MaxSent = 2
    MaxBadLuck = 1
    Skills = {"k", "l"}
    Lookups <- MCLookups
    MaxSkillActs = 3
    MaxSearches = 2
    MaxSkillFaults = 1
    Routable = {"bot", "opencode"}
    VlessLinks = {"l", "bad"}
    GoodLinks = {"l"}
    MaxProxyActs = 3
    MaxProxyJobs = 2
    Managed = {"bot", "opencode"}
    MaxServiceActs = 2
    MaxViews = 2
    MaxServiceMoves = 1
    MaxDirs = 2
    GitDirs = {1, 2}
    SyncPasses = {"x", "y"}
    Warmers = {"m"}
    RecentLimit = 1
    MaxSyncFaults = 1
    Todos = {t1, t2, t3}
    TodoLists <- MCTodoLists
    MaxTodoLines = 2
    MaxSnapshots = 4
    MaxPatches = 3
    MaxFiles = 2
    MaxPreviews = 3
    PreviewTtl = 0
    MaxNoteDays = 1
    MaxNoteFaults = 1
    Vendors = {"v", "w", "x"}
    NoVendor = NoVendor
    Method <- MCMethod
    MaxOverviews = 3
    MaxLoginCalls = 2
    MaxLoginFaults = 1
    Credentials = {"k", "l"}
    NoCredential = NoCredential
    MaxCardActs = 2
    MaxCardSyncs = 1
    MaxCardFaults = 1
CHECK_DEADLOCK FALSE
INVARIANTS ServicesTypeOK ChatReadsWell AgentsAreAnswered ModelsAreReached QuietScreensAreCurrent SignInIsKept NothingIsDropped ShownIsTrue PressedOnce OneWorks
PROPERTIES UpdatesAreSafe DataIsKept StoresWhatWasChosen SessionFollowsActivity SavesKeepWork

VIEW PartOnly
