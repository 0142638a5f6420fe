SPECIFICATION FairSpec
CONSTANTS
    None = None
    Users = {u1, u2}
    Slots = {s1, s2}
    Numbers = {n1, n2}
    Seeded = {s1, s2}
    Earlier = {}
    Requests = {r1, r2}
    Tasks = {"sweep", "reprice"}
    RowLocks = TRUE
    HoldTicks = 0
    TickSeconds = 5400
    Ops = {"apibook", "exit", "toggle", "reserve"}
    OneEach = FALSE
    MaxTime = 1
    Mortal = {r1, r2}
    SurgeEnabled = TRUE
    SurgeThreshold = 6000
    SurgeMax = 200
    BaseRate = 3000
    MinBilledHours = 1
PROPERTIES EveryRequestAnswered HoldEnds SurgeSettles
