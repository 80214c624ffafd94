SPECIFICATION PagesSpec
CONSTANTS
    Accounts = {A, B}
    MaxTokens = 2
    MaxJobs = 1
    MaxSwitches = 2
    Trades = {t1}
    MaxQueue = 1
    NoticeReconnects = 1
    MaxNotices = 2
    MaxActs = 1
    MaxFaults = 1
    AutoMarketIds = {m1}
    Resolvers = {r1, r2}
    MaxAutoFaults = 2
    Sockets = {1, 2}
    Header = 0
    PanelChannels = {0}
    MaxConnections = 1
    MaxSubscriptions = 3
    MaxReconnects = 2
    MaxInbox = 2
    MaxMoves = 1
    MaxSocketFaults = 1
    Filters = {"100", "yes"}
    MaxChanges = 1
    MaxViews = 1
    MaxBookFaults = 1
PROPERTIES
    SignInEnds
    BadgeSettles
    AutoMarketsResolve
    HeaderStaysLive
    CacheSettles
CHECK_DEADLOCK FALSE
