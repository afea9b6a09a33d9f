CONSTANTS
    gTmrTotalTimers_c = 2
    Wrap = 6
    mMaxToCountDown_c = 3
    mMinTmrScheduleTicks = 1
    MaxLatency = 1
    Intervals = {1, 4}
    IsrTimers = {}
    gKeyScanInterval_c = 4
    AgeCap = 10
    TimerTypes <- MCTimerTypes
SPECIFICATION Spec
PROPERTY CountsDownFromNow
