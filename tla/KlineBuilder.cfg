SPECIFICATION Spec
CONSTANTS
    Keys = {"rb1901"}
    Minutes <- MCMinutes
    Prices = {1, 2, 3}
    Vols = {0, 1, 2}
    DayMinutes = 4
    OpenMinutes <- MCOpenMinutes
    MaxTicks = 3
INVARIANTS
    CacheIsTheMinute
    FinishedKline
PROPERTIES
    VolumeIsTraded
    PushedWhenNew
