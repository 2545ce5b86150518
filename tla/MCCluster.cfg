SPECIFICATION WorkloadSpec
CONSTANTS
    plane = plane
    worker = worker
    ByName <- OnePlaneOneWorker
    Planes = {plane}
    Endpoint = plane
    NodeVerbs = {"stop", "force-stop", "start", "disable", "enable", "restart"}
    ClusterVerbs = {"stop", "start", "disable", "enable", "restart", "force-restart"}
    MaxJobs = 2
    MaxUpsets = 2
    AppKinds = {"Deployment", "DaemonSet", "Job", "Pod"}
    Users = {u1, u2}
    MaxReplicas = 2
    MaxVerbs = 4
    DrainPods = {q1, q2}
    MaxDrainStops = 1
    KindsInNamespace = {"Widget"}
    KindsOfCluster = {"Namespace"}
    FieldValues = {1, 2}
    MaxManifestObjects = 2
    MaxManifestRequests = 2
    MaxManifestEvents = 2
    SetNames = {s1, s2}
    JobNames = {j1}
    PodNames = {p1, p2}
    Kubelets = {n1, n2}
    Slots = 1
    SweepOlderThan = 1
    MaxAge = 2
    MaxHappenings = 2
    NumCP = 3
    NumNodes = 4
    Components <- TwoComponents
    MaxMinor = 1
    MaxUpgradeJobs = 2
    MaxEvents = 1
    MaxTime = 4
    Interval = 3
    RetryGap = 2
    MaxSnapshotAge = 2
    KeepSafety = 1
    Keep = 1
    MaxRuns = 1
    MaxStops = 1
    PMachines = {"a", "b", "w"}
    ProvRequests <- MCProvRequests
    MaxProvJobs = 3
    MaxProvFaults = 2
    RotNode = {"a", "b", "w"}
    RotWorkers = {"w"}
    Joiners = {"b"}
    MaxAuthority = 2
    MaxFaults = 2
    MaxRotations = 2
\* Nobody has to ask for anything, and the counts are bounded.
CHECK_DEADLOCK FALSE
INVARIANT JobCordonIsOwed
INVARIANT OneAwayAtATime
 
INVARIANT SilenceIsSaid
PROPERTY SuccessMovedThem
PROPERTY FieldsAreNotTaken
