SPECIFICATION MCSpec
CONSTANTS
    HostIntents <- MCHostIntents
    Installations <- MCInstallations
    Requests = {r1, r2}
    MaxTokens = 2
    MaxHostTime = 3
    MaxHostStops = 1
    Pages = {r1, r2}
    Samples = {d1, d2}
    Chips = {c1, c2}
    CpuChips = {c1}
    minRateWindow = 1
    dirSizeTTL = 2
    dirSizeDeadline = 2
    MaxTicks = 3
    MaxReads = 2
    Readers = {r1, r2}
    NodeCpuChips = {k1}
    DiskChips = {d1, d2}
    Zones = {k1}
    minWindow = 1
    maxWindow = 2
    baselineGap = 1
    readBudget = 2
    layoutTTL = 2
    MaxHwTicks = 3
    MaxHwEvents = 1
    MaxHwReads = 2
SYMMETRY Sym
\* Nobody has to press or to open anything, and the counts are bounded.
CHECK_DEADLOCK FALSE
INVARIANT OneOwner
INVARIANT WaitersGetTheSize
INVARIANT SensorsAreTheirOwn
