CONSTANTS
    MaxPart = 3
    MaxInt = 3
    Versions <- MCVersions
SPECIFICATION CompareSpec
INVARIANT SaysTheOrder
CHECK_DEADLOCK FALSE
