\* Three requests in every deployment; a cap of one, so that two of the largest
\* fill the budget.
SPECIFICATION FairSpec
CONSTANTS
    SmallAddBody = 0
    MaxAddBody = 1
    MaxLength = 2
    Procs = {p1, p2, p3}
    acquire = acquire
    stranger = stranger
    NoBearer = NoBearer
    Nil = Nil
    Allowed <- OnlyAcquire
    Credentials <- Tokens
INVARIANTS TypeOK HandlersAuthorised MemoryBounded BudgetExact TwoLargestFit
PROPERTY EveryRequestAnswered
