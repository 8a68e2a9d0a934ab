SPECIFICATION FairSpec
CONSTANTS
    Trees = {t0, t1}
    None = None
    Theirs = Theirs
    Plans <- SomePlans
    Concurrency = 2
    MaxEdits = 2
INVARIANTS
    EvidenceBelongs
    CancelledPublishesNothing
PROPERTIES
    EveryInspectionEnds
CHECK_DEADLOCK FALSE
