SPECIFICATION Spec
CONSTANTS
    DaysInWeek = 3
    MinutesInDay = 4
    Bounds <- TwoBounds
    MaxPrice = 26
    MaxEdits = 1
INVARIANT
    CardIsTrue
