\* Two callers of the adapter, two jobs that move through NZBGet's lists.
CONSTANTS
    Nil = Nil
    NzbIds = {n1, n2}
    Categories = {ours, theirs}
    Category = ours
    Procs = {p1, p2}
SPECIFICATION Spec
INVARIANT TypeOK
PROPERTIES
    NotFoundIsTrue
    OutcomeIsFinal
    NoReplay
