SPECIFICATION Spec
CONSTANTS
    None = None
    Bookings = {b1}
    Exits = {x1}
    Workers = {w1, w2}
    Events = {e1}
    Costs = {1}
    Providers = {"razorpay"}
    MaxCrashes = 0
INVARIANTS DuplicatesAreRecognised
