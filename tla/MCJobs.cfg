SPECIFICATION Spec
CONSTANTS
    a = a
    b = b
    c1 = c1
    NoJob = NoJob
    NoCluster = NoCluster
    Jobs <- TwoJobs
    Clusters = {c1}
    ClusterOf <- SameCluster
    StepKind <- RebootAndReset
    NSteps <- TwoJobsLength
    Cancellers = {h1}
    MaxBoots = 2
    MaxFaults = 0
    LateEffects = FALSE
\* The process may stay down once MaxBoots starts are used up.
CHECK_DEADLOCK FALSE
INVARIANT OneJobPerCluster
INVARIANT LeaseHeldByLiveJob
INVARIANT NoDoubledEffect
INVARIANT CancelIsPrompt
PROPERTY ImplementsContract
