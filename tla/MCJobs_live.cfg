SPECIFICATION FairSpec
CONSTANTS
    a = a
    b = b
    c1 = c1
    NoJob = NoJob
    NoCluster = NoCluster
    Jobs = {a}
    Clusters = {c1}
    ClusterOf <- SameCluster
    StepKind <- RebootThenShutdown
    NSteps <- OneJobLength
    Cancellers = {h1}
    MaxBoots = 3
    MaxFaults = 1
    LateEffects = TRUE
\* The process may stay down once MaxBoots starts are used up.
CHECK_DEADLOCK FALSE
PROPERTY JobsEnd
