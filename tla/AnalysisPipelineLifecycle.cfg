SPECIFICATION Spec
CONSTANTS
    MaxRetries = 2
    Analyses = {a1, a2}
    Workers = {w1, w2}
    NoAnalysis = NoAnalysis
    MaxCopies = 1
    Cancels = {}
    Triples = {t1}
    TripleOf <- SameTriple
    Outcomes = {"verdict", "failed", "error", "timeout"}
    Faults = {"crash", "db", "commit"}
    MaxFaults = 2
    EngineBound = TRUE
INVARIANTS
    ReplayedStaysCompleted
PROPERTIES
    ImplementsLifecycle
