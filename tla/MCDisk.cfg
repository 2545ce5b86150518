SPECIFICATION MCSpec
CONSTANTS
    Keys = {k1}
    Writers = {w1, w2}
    Procs = {s1, s2}
    NoProc = NoProc
    Target = 3
    MaxArchives = 2
    MaxChanges = 2
    MaxCrashes = 2
    Requests = {c1, c2}
    MaxDays = 3
    MaxAuditCrashes = 1
    NoDayFile = NoDayFile
    Limit = 1
    MaxFaults = 1
    HMachines = {m1}
    HApps = {a1}
    FineSlots = 2
    CoarseSlots = 2
    finePerCoarse = 2
    FlushEvery = 2
    FirstSlot = 11
    LastSlot = 15
    MaxReadings = 2
    MaxUpsets = 2
SYMMETRY Sym
\* The directory may be left alone, or with a VERSION no process accepts, and the counts
\* are bounded.
CHECK_DEADLOCK FALSE
INVARIANT AckedSurvives
 
 
INVARIANT ChartsAreTrue
PROPERTY NoLostUpdate
