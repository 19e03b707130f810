SPECIFICATION Spec
CONSTANTS
    MaxRetries = 1
    Analyses = {a1, a2}
    Workers = {w1, w2}
    NoAnalysis = NoAnalysis
    MaxCopies = 2
    Cancels = {c1}
    Triples = {t1}
    TripleOf <- SameTriple
    Outcomes = {"verdict", "error"}
    Faults = {"crash", "db", "commit", "broker"}
    MaxFaults = 1
    EngineBound = TRUE
SYMMETRY Symmetry
INVARIANTS
    IInv
    RowsLoadable
    UniqueCompleted
    RetryBounded
PROPERTIES
    NeverReopened
    JobsLostOnlyInWindows
