\* Pushes are settled one at a time; gateway restarts and lost pushes.
CONSTANTS
    Nil = Nil
    Ids = {c1, n1}
    EnvIds = {n1}
    s1 = s1
    Specs = {s1, s2}
    EnvSpec <- EnvAtS1
    Revisions <- OwnerRevisions
    MaxPush = 2
    MaxEdits = 2
    MaxRestarts = 1
    Overtaking = FALSE
SPECIFICATION FairSpec
INVARIANTS
    TypeOK
    RevisionTells
PROPERTY
    Converges
