SPECIFICATION MCSpec
CONSTANTS
    i1 = i1
    c1 = c1
    c2 = c2
    Ids = {i1, c1, c2}
    Offers <- MCOffers
    Cases = {1, 2, 3}
    Goods = {"piece"}
    NoId = NoId
    Visits = {1, 2}
    Tokens <- MCTokens
    Settings <- MCSettings
    Ring <- MCRing
    Anchors <- MCAnchors
    Document <- MCDocument
    Due = 1
    Networks = {"base"}
    NoSetting = NoSetting
    NoToken = NoToken
    Keys = {"k1", "k2"}
    SignAnchors <- MCSignAnchors
    Issuer = "issuer"
    Unset = "unset"
    SignKeys <- MCSignKeys
    Signers = {"default"}
    PollInterval = 1
    CacheMaxAge = 1
    MaxAge = 2
    FetchTime = 1
    Verifiers = {1}
    Horizon = 3
    Never = Never
    NoDoc = NoDoc
    Settlers = {1, 2, 3}
    Amount <- MCAmount
    TooFine = {2}
    PerPayment = 2
    PerDay = 2
    Funds = 3
    Remembered = 1
    Days = 2
    Launches = {1, 2}
    ItemCount = 2
    NoFile = NoFile
INVARIANTS
    TypeOK
    UsedOnceUnlessRaced
    ArchivedBottomUp
    RevokedKeyDies
    UndisturbedIsSound
    CapHeldUnlessLost
    OneTransferPerItem
    JournalBeforeMoney
CHECK_DEADLOCK FALSE
