SPECIFICATION FairSpec
CONSTANTS
    manual1 = manual1
    Period = 2
    Window = 1
    MaxTime = 6
    Manual <- MCManual
    MaxToggles = 2
    MaxCrashes = 2
PROPERTY
    RestartHidesNothing
CHECK_DEADLOCK FALSE
