SPECIFICATION FairSpec
CONSTANTS
    None = None
    Slots = {s1, s2}
    Existing = {s1}
    Mutators = {m1, m2}
    Admins = {m2}
    Remote = {m2}
    Mortal = {m1}
    Clients = {c1}
    TTL = 2
    PollEvery = 2
    MaxReprice = 1
    MaxSwitch = 2
INVARIANTS AvailabilityTypeOK ListenersAreCurrent PollersLagLittle
PROPERTY PollersCatchUp
