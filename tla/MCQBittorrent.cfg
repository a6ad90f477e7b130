\* Two callers that share a client's session, one job.
CONSTANTS
    Nil = Nil
    Clients = {c1}
    movies = movies
    Categories = {movies, series}
    CategoryOf <- AllMovies
    Tags = {t1}
    Procs = {p1, p2}
SPECIFICATION FairSpec
INVARIANTS
    TypeOK
    AddedOnce
PROPERTIES
    CallsEnd
    NoReplay
