\* Is a job that Remove reports as removed out of NZBGet's lists?
CONSTANTS
    Nil = Nil
    NzbIds = {n1}
    Categories = {ours}
    Category = ours
    Procs = {p1}
SPECIFICATION Spec
PROPERTY RemovedIsGone
