SPECIFICATION FairSpec
CONSTANTS
    w1 = w1
    w2 = w2
    old = old
    foreign = foreign
    Nobody = Nobody
    Workers <- TwoWorkers
    Leadgens <- OldAndForeign
    Old <- JustOld
    Foreign <- JustForeign
    BatchSize = 1
    MaxAttempts = 2
    MaxFaults = 1
    MaxOutages = 1
INVARIANTS
    NotifiedOnce
    InboxAgreesWithCrm
PROPERTIES
    DeletedStaysDeleted
    EverySubmissionSettles
