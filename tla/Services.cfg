SPECIFICATION ServicesSpec
CONSTANTS
    Codes = {c1}
    Wallets = {w1, w2}
    Nonces = {n1, n2}
    Slots = {s1, s2}
    Watched = {"ip"}
    MaxAttempts = 2
    MaxGateFaults = 1
    Claims = {s1, s2}
    Day = 1
    MaxClock = 4
    MaxPosts = 3
    SolBalance = 1
    Owners = {w1, w2}
    StartTotal = 40000
    CommentDailyCap = 1
    MaxAwards = 2
    MaxDays = 2
    CommentIds = {k1}
    Readers = {w1, w2}
    ReportLimit = 2
    MaxVotes = 3
    Traders = {w1}
    MaxPoints = 2
    MaxCalls = 3
    AutoMarketIds = {m1, m2}
    Resolvers = {r1}
    MaxAutoFaults = 1
    AdminTabs = {1, 2}
    ListReaders = {1}
    Verdicts = {"yes", "no"}
    MaxAdminCalls = 3
    MaxAdminFaults = 1
    Sockets = {1}
    Header = 0
    PanelChannels = {1, 2}
    MaxConnections = 1
    MaxSubscriptions = 3
    MaxReconnects = 2
    MaxInbox = 2
    MaxMoves = 1
    MaxSocketFaults = 1
INVARIANTS
    TokenNamesRedeemer
    LimitsWearOff
    RecordKeepsADay
    ReferralPointsExact
    VotesAreWallets
    CachedBoardIsFrozen
    RowNeverAhead
    OneActivePerSeries
    ListingNeverAhead
    ListedSocketsHeld
SYMMETRY SameMarkets
CHECK_DEADLOCK FALSE
