SPECIFICATION ScreensSpec
CONSTANTS
    a1 = a1
    a2 = a2
    Account <- TwoAccounts
    None = None
    MaxListeners = 2
    MaxTasks = 2
    MaxCalls = 2
    MaxRestarts = 1
    Card <- OldAndNew
    New <- Newest
    MaxLoads = 1
    MaxWrites = 3
    MaxCrashes = 1
    Fails = TRUE
CHECK_DEADLOCK FALSE
INVARIANTS
    OnePrimaryIfSeen
    ChosenIsPrimary
    ListIsCollection
    SaveIsOwed
    HomeIsOfSession
    NoListenerStays
PROPERTIES
    SaveComesBack
    LetInMeansHome
