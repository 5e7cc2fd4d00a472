INIT Init
NEXT Next
CONSTANTS
    JellyfinUsers <- MCJellyfinUsers
    UserRequests <- MCUserRequests
    UserNames <- MCUserNames
    Logs <- MCLogs
    LaterActivities <- MCLaterActivities
    ActivityRequests <- MCActivityRequests
    Slots = {c1, c2}
    MaxVersions = 2
    MaxAsked = 3
    MaxSyncFailures = 1
    LangFiles <- MCLangFiles
    LangOrder <- MCLangOrder
    Letters = {"{", "}", "n", "x"}
    NamedValues <- MCNamedValues
    ListedValues <- MCListedValues
    MaxText = 7
    PlanRequests <- MCPlanRequests
    BackupSettings <- MCBackupSettings
    OldFiles <- MCOldFiles
    FirstDate = 5
    LastDate = 7
    LastCommit = 101
    MaxBackups = 5
    DeltaLists <- MCDeltaLists
    Sinces = {120, 125, 132, 143}
    Starts = {0, 5, 17, 23, 43}
    Gaps = {2, 6, 20}
    Horizon = 130
    ActivityLimit = 3
    JFUsers = {u1, u2}
    MaxEntries = 6
    LineCount = 3
    Lines = {"none", "a", "b"}
    MaxLines = 7
SYMMETRY MCSymmetry
INVARIANTS
    
    
    SharedList
    TextsComplete
    PlansKept
    
    RemindersSent
    JFActivityKept
    
CHECK_DEADLOCK FALSE
