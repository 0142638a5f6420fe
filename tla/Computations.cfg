SPECIFICATION Spec
CHECK_DEADLOCK FALSE
CONSTANTS
    SurgeEnabled = TRUE
    SurgeThreshold = 6000
    SurgeMax = 200
    BaseRate = 3000
    MinBilledHours = 1
    MaxSlots = 60
    MaxSeconds = 14400
    Step = 10
    HoursPerDay = 2
    DaysPerWeek = 2
    Days = 2
    HalfLife = 4
    s1 = s1
    s2 = s2
    Lot <- MCLot
    MaxHour = 5
    MaxBookings = 3
    VehicleTypes = {"car", "bike"}
    MaxContours = 2
    FrameWidth = 100
    MaxList = 3
    MaxMarked = 1
    Unset = Unset
SYMMETRY AnySlot
INVARIANTS SurgeWithinBounds FareCoversStay DashboardsAgree RankingsAreBest DeploymentIsSound
PROPERTIES SurgeFollowsDemand ForecastFollowsHistory
