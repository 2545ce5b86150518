SPECIFICATION MCSpec
CONSTANTS
    Topics = {t2}
    Requests = {r1, r2}
    MaxSup = 2
    MaxTurns = 1
    MaxSupCalls = 2
    Injections = {1, 2}
    FaultNames = {"go_silent", "flap", "reject", "ip_change"}
    MaxPorts = 3
    MaxFaultCalls = 2
    Askers = {i1, i2}
    SchematicIds = {x, y}
    Posters = {q1, q2}
    Arches = {amd64}
    TalosVersions = {12, 13}
    MaxAsks = 3
    MaxPosts = 3
    MaxExpiries = 2
    Servers = {s1}
    Commands = {b1}
    MaxStarts = 2
    Unlocked = Unlocked
\* Nobody has to call, to ask or to start anything, and the counts are bounded.
CHECK_DEADLOCK FALSE
INVARIANT NoLostNotice
INVARIANT OneAppender
 
PROPERTY NothingHangs
PROPERTY AskersAreAnswered
