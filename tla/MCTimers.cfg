CONSTANTS
    gTmrTotalTimers_c = 2
    Wrap = 4
    mMaxToCountDown_c = 2
    mMinTmrScheduleTicks = 1
    MaxLatency = 1
    Intervals = {1, 3}
    IsrTimers = {0}
    gKeyScanInterval_c = 3
    AgeCap = 9
    TimerTypes <- MCTimerTypes
SPECIFICATION FairSpec
INVARIANTS CountsMatch ReadyIsSeen ClockRuns NeverOverdue
PROPERTIES NoEarlyExpiry EventuallyExpires
