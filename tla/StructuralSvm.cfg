SPECIFICATION FairSpec
CONSTANTS
    t1 = t1
    t2 = t2
    truth = truth
    A = A
    v0 = v0
    v1 = v1
    Workers <- AllWorkers
    Caller = caller
    Pools <- SomePools
    Begin = 0
    End = 5
    ChunksPerThread <- Chunks
    Labels = {truth, A}
    Truth = truth
    Weights = {v0, v1}
    Zero = v0
    Risk <- Risks
    Approximate = {1}
    Bounds = {0, 2}
    Eps = 1
    Unit = 4
    CacheEpsilons = {1, 100}
    CacheSizes = {0, 1}
    MaxIterations = 5
    Infinity = 100
    NoSample = none
INVARIANTS
    TypeOK
    EachIndexOnce
    NoIndexShared
    SumsComplete
    RefinementHasAnswers
PROPERTIES
    ConvergesOnFresh
    SolverStops
