\* One pushed client, replaced and removed while adds, adoptions, deletes and
\* polls are in flight.
CONSTANTS
    Nil = Nil
    Ids = {c1}
    EnvIds = {}
    s1 = s1
    Specs = {s1, s2}
    EnvSpec <- NoEnv
    Revisions = {0}
    MaxPush = 1
    e1 = e1
    Endpoints = {e1}
    EndpointOf <- OneEndpoint
    JobIds = {j1}
    Wanted = {w1}
    Procs = {p1, p2}
    PollConcurrency = 1
    MaxPending = 1
    MaxCrashes = 0
SYMMETRY Symmetry
SPECIFICATION Spec
INVARIANTS
    TypeOK
    LeasesMatchHolders
    TrackedHasClient
PROPERTIES
    NoSilentLoss
    WantedKept
