SPECIFICATION Spec
CONSTANTS
    Requests = {r1, r2}
    OnMedia = OnMedia
    Messages = {t1, t2}
    Tasks = {g1, g2}
    Readers <- MCReaders
    Pages = {}
    NoOwner = NoOwner
    MaxReceives = 2
    Faults = {"read", "send", "worker", "artifactSend", "generator", "kill"}
SYMMETRY Symmetry
INVARIANTS
    OneTranslator
    DoneIsStored
    OneGenerator
    SentIsReadable
PROPERTIES
    ReadyIsSealed
    WaitEndsSpareGenerations
CHECK_DEADLOCK FALSE
