\* A request is loaded once.
CHECK_DEADLOCK FALSE

CONSTANTS
    Day = 4
    Year = 6
    Zones <- SmallZones
    Moments <- MomentsAround
    Readings <- ReadingsAround
    MaxOptions = 5
    MaxPath = 2

SPECIFICATION Spec
INVARIANTS OneInstant NextTimeOfDay LoadsAgain SameWhenLoaded
