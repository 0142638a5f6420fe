SPECIFICATION FairSpec
CONSTANTS
    None = None
    Bookings = {b1, b2}
    Exits = {x1, x2}
    Workers = {w1, w2}
    Events = {e1, e2}
    Costs = {0, 1}
    Providers = {"mock", "razorpay"}
    MaxCrashes = 1
INVARIANTS PaymentTypeOK AckedIsApplied WebExitIsCharged ChargedAtBill
PROPERTIES ImplementsLedger CaptureIsApplied
