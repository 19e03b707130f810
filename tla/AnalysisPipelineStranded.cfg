SPECIFICATION Spec
CONSTANTS
    MaxRetries = 1
    Analyses = {a1}
    Workers = {w1}
    NoAnalysis = NoAnalysis
    MaxCopies = 1
    Cancels = {}
    Triples = {a1}
    TripleOf <- OwnTriple
    Outcomes = {"verdict"}
    Faults = {}
    MaxFaults = 0
    EngineBound = TRUE
INVARIANT PendingHasJob
