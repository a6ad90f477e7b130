\* A push that timed out at the owner arrives after a newer one.
CONSTANTS
    Nil = Nil
    Ids = {c1}
    EnvIds = {}
    s1 = s1
    Specs = {s1, s2}
    EnvSpec <- EnvAtS1
    Revisions <- OwnerRevisions
    MaxPush = 2
    MaxEdits = 2
    MaxRestarts = 1
    Overtaking = TRUE
SPECIFICATION Spec
INVARIANT RevisionTells
