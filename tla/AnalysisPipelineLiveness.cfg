SPECIFICATION FairSpec
CONSTANTS
    MaxRetries = 1
    Analyses = {a1, a2}
    Workers = {w1, w2}
    NoAnalysis = NoAnalysis
    MaxCopies = 1
    Cancels = {c1}
    Triples = {a1, a2}
    TripleOf <- OwnTriple
    Outcomes = {"verdict", "failed", "error"}
    Faults = {}
    MaxFaults = 0
    EngineBound = TRUE
INVARIANTS
    RunningHasJob
PROPERTIES
    RunningResolves
    JobsDrain
