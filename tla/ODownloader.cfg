\* One package of up to three links, a page of two; a 2-bit ETA.
CONSTANTS
    Nil = Nil
    EtaBits = 2
    Packages = {k1}
    MaxLinks = 3
    PageSize = 2
    LinkSize = 2
    MaxSpeed = 1
    MaxElapsed = 1
SPECIFICATION FairSpec
INVARIANTS
    TypeOK
    CompletedIsAll
    RemovedIsGone
    ProgressSane
PROPERTIES
    OutcomeIsFinal
    TellsAtLast
