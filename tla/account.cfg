SPECIFICATION Spec
CONSTANTS
    c1 = c1
    c2 = c2
    c3 = c3
    Devices = {phone, tablet}
    Calls = {c1, c2, c3}
    NoToken = NoToken
    d1 = d1
    d2 = d2
    ios = ios
    android = android
    Subs = {ios, android}
    Named = {ios}
    Plans = {"S", "L"}
    Minutes <- MCMinutes
    Cap <- MCCap
    Deliveries = {d1, d2}
    LastDay = 2
    TrialEnd = 1
    NoPlan = NoPlan
    song = song
    memo = memo
    voice = voice
    paper = paper
    plain = plain
    web = web
    Work = {1, 2, 3}
    Files = {song, memo, voice, paper, plain, web}
    Kind <- MCKind
    Probed <- MCProbed
    Billed <- MCBilled
    Keys = {k1}
    Other = Other
    NoJob = NoJob
    NoFile = NoFile
    NoKey = NoKey
    Loads <- MCLoads
SYMMETRY Symmetry
INVARIANTS
    LogoutEndsSession
    SessionIsKept
    ErasedIsGone
    RowTellsTheStore
    PaidOnce
    AcceptedIsWhole
PROPERTIES
    BuyingTakesNothing
CHECK_DEADLOCK FALSE
