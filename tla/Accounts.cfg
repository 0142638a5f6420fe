SPECIFICATION FairSpec
CONSTANTS
    None = None
    Emails = {e1}
    AdminEmail = admin
    Passwords = {p1, p2}
    AdminPassword = p1
    Requests = {r1, r2, r3}
    Workers = {w1, w2}
    MaxAttempts = 2
    LockTicks = 1
    MaxTime = 2
    MaxCrash = 1
INVARIANTS AccountsTypeOK OneAccountPerEmail SeededOnce FailuresCounted LockHasCause
PROPERTIES SeedingSucceeds FirstLockLasts
