SPECIFICATION Spec
CONSTANTS
    Ticks = 2
    Hours = 3
    Days = 2
    Months = 2
    Weekdays = 3
    MaxTime = 14
    Zones <- SpringZones
INVARIANTS
    SingleAnswer
CHECK_DEADLOCK FALSE
