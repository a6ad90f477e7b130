\* Is a torrent that Remove reports as removed gone?
CONSTANTS
    Nil = Nil
    Clients = {c1}
    movies = movies
    Categories = {movies, series}
    CategoryOf <- AllMovies
    Tags = {t1}
    Procs = {p1}
SPECIFICATION Spec
PROPERTY RemovedIsGone
