CONSTANTS
    t1 = t1
    t2 = t2
    Tabs = {t1, t2}
    NoTab = NoTab
    NoSession = NoSession
    MaxRequests = 3
    MaxTroubles = 2
SPECIFICATION Spec
CHECK_DEADLOCK FALSE
INVARIANTS
    TypeOK
    FamilyIsALine
    ExchangedOnce
    ReuseEndsFamily
PROPERTIES
    EndedFamilyStaysEnded
    PageLoadEnds
