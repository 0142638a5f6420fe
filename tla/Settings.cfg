SPECIFICATION FairSpec
CONSTANTS
    None = None
    Malformed = malformed
    r1 = r1
    r2 = r2
    Saves <- MCSaves
    Tasks = {"sweep", "reprice"}
    Rows = {1, 2}
    Starts <- MCStarts
    Caps = {200, 300}
    Default <- MCDefault
    Forms <- MCForms
    MaxSweeps = 1
INVARIANTS SettingsTypeOK OneMultiplier
PROPERTIES SaveIsWhole EverySaveAnswered SurgeFollowsSettings
