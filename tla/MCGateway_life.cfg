\* An environment client beside a pushed one that share a poll slot, under
\* fairness, with a restart in the middle of anything.
CONSTANTS
    Nil = Nil
    Ids = {n1, c1}
    EnvIds = {n1}
    s1 = s1
    Specs = {s1}
    EnvSpec <- EnvAtS1
    Revisions = {0}
    MaxPush = 1
    e1 = e1
    Endpoints = {e1}
    EndpointOf <- OneEndpoint
    JobIds = {j1}
    Wanted = {}
    Procs = {p1}
    PollConcurrency = 1
    MaxPending = 1
    MaxCrashes = 1
SPECIFICATION FairSpec
INVARIANTS
    LeaseInv
    EnvClientsFixed
PROPERTIES
    
    SettledStays
    ImplementsClientLife
    DrainingEnds
    EndedJobLeaves
