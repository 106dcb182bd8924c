SPECIFICATION ServeFairSpec
CONSTANTS
    p1 = p1
    p2 = p2
    q = q
    Req <- MCReq
    Page <- MCPage
    Mix <- MCMix
    Free = Free
    MaxVersion = 1
INVARIANTS
    AnswerIsTrue
    CountedOnce
    StatsConsistent
    NothingHeld
PROPERTY EveryRequestAnswered
