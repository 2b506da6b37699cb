SPECIFICATION WorkersLiveSpec
CONSTANTS
    Known = 1
    Billed = 2
    Captions = 1
    Pages = 1
    Raising = {"gate", "settle"}
    Platforms = {"article", "document", "podcast", "tiktok", "images", "reel", "youtube"}
    Runs = {a1, a2}
    NoRun = NoRun
    Ingest = m0
    Messages = {m0, m1, m2}
    Dispatches = {d1, d2}
    Calls = 2
    MaxReceives = 2
    RaisesAt <- RaisesInTheRelay
    KilledAt <- KilledInTheRelay
    e1 = e1
    e2 = e2
    e3 = e3
    e4 = e4
    Episodes = {e1, e2, e3, e4}
    NewEpisode = e4
    NoEpisode = NoEpisode
    FeedCount = 2
    MaxAttempts = 2
    Links <- MCLinks
INVARIANTS
    ChargedOnce
    DeliveredIsCharged
    OneContinuation
    FindsWhatIsMeant
    TextIsOfTheEpisode
PROPERTIES
    SuccessIsKept
    RunEndsInTheEnd
CHECK_DEADLOCK FALSE
