SPECIFICATION LiveSpec
CONSTANTS
    Requests = {r1, r2}
    OnMedia = OnMedia
    Messages = {t1}
    Tasks = {g1, g2}
    Readers <- MCReaders
    Pages = {}
    NoOwner = NoOwner
    MaxReceives = 2
    Faults = {"read", "send", "artifactSend", "generator"}
PROPERTIES
    RequestIsAnswered
CHECK_DEADLOCK FALSE
