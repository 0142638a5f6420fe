SPECIFICATION Spec
CONSTANTS
    None = None
    Users = {u1, u2}
    Slots = {s1, s2, s3}
    Numbers = {n1, n2}
    Seeded = {s1, s2}
    Earlier = {r0}
    Requests = {r0, r1, r2, r3}
    Tasks = {}
    RowLocks = TRUE
    HoldTicks = 0
    TickSeconds = 5400
    Ops = {"exit", "toggle"}
    OneEach = TRUE
    MaxTime = 1
    Mortal = {}
    SurgeEnabled = TRUE
    SurgeThreshold = 6000
    SurgeMax = 200
    BaseRate = 3000
    MinBilledHours = 1
SYMMETRY MCSymmetry
PROPERTY ClosedIsFinal
