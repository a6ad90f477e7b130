\* One job through three stops or crashes.  The run may stop once the job is over.
SPECIFICATION FairSpec
CONSTANTS
    Jobs = {j1}
    MaxStops = 3
INVARIANTS TypeOK AcceptedIsAnnounced
PROPERTIES OutcomeLearned OutcomeDelivered
CHECK_DEADLOCK FALSE
