CONSTANTS
    Scenes = {"state", "beats", "plugs", "events", "accounts", "client"}
    Writers = {"initial", "ticker", "user"}
    MaxStamp = 2
    None = None
    Routines = {"routine"}
    TimeOfDay <- AtMinute
    DaysOfWeek <- EveryDay
    Minutes = 2
    DaysPerYear = 365
    MaxActivities = 1
    MaxTime = 4
    Beats = {"initial", "ticker"}
    Chats <- Everyone
    Plugs <- OnePlug
    ChannelSize = 1
    NoChannel = None
    Sources = {"timer"}
    Callers = {1, 2}
    Names = {"api"}
    SourceSize = 1
    Semaphore = 1
    MaxSubscriptions = 2
    MaxEvents = 1
    Turns = {"turn1", "turn2"}
    Commands = {"cmd1", "cmd2"}
    Accounts = {"ann", "bob"}
    MasterKeys = {"k1", "k2"}
    GatewayKey = "k1"
    NoStore = NoStore
    Questions = 2
    Requests <- CameraAndMicrophone
    AnswerSize = 1
SPECIFICATION Spec
INVARIANT
    AccountGoesWithToken
PROPERTIES
    SavedStatesAdvance
    RoutineOncePerDay
    RouterStops
    RequestsAreServed
CHECK_DEADLOCK FALSE
