SPECIFICATION Spec
CONSTANTS
    Known = 1
    Billed = 2
    Captions = 1
    Pages = 1
    Raising = {}
    Platforms = {"podcast", "tiktok", "reel"}
    Runs = {a1}
    NoRun = NoRun
    Ingest = m0
    Messages = {m0, m1, m2}
    Dispatches = {d1, d2}
    Calls = 1
    MaxReceives = 2
    RaisesAt <- RaisesAfterTheGate
    KilledAt <- KilledNowhere
INVARIANT ChargedOnce
CHECK_DEADLOCK FALSE
