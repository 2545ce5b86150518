SPECIFICATION CallSpec
CONSTANTS
    Patches = {"plain"}
    Modes = {"no-reboot", "reboot", "staged", "try"}
    Operators = {o1, o2}
    MaxApplies = 2
    MaxOutside = 1
    Peers = {p1}
    TalosCallers = {c1, c2}
    MaxTalosTime = 4
    MaxTalosCalls = 5
    MaxPeerFaults = 2
    TalosMethods = {"ServiceList", "Kubeconfig", "Reboot", "EtcdRecover"}
    SimHosts = {h1, h2}
    SimCallers = {c3, c4}
    SimVersions = {0, 2}
    MaxSimCalls = 3
    Machines = {m1, m2}
    Clusters = {k1, k2, k3}
    Minted = {k3}
    Addrs = {a1, a2}
    Callers = {t1}
    First = k1
    writeAttempts = 2
    MaxCalls = 2
    MaxEvents = 1
    ControlPlanes = {n1, n2}
    Jumps = {45}
    AuthorityLife = 95
    IssuedLife = 94
    MaxDay = 90
    MaxCertEvents = 2
\* Nobody has to call or to change anything, and the counts are bounded.
CHECK_DEADLOCK FALSE
INVARIANT DryRunChangesNothing
