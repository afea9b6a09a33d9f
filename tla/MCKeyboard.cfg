CONSTANTS
    gKBD_KeysCount_c = 3
    gKbdLongKeyIterations_c = 2
    gKbdVeryLongKeyIterations_c = 4
SPECIFICATION FairSpec
INVARIANTS OnlyRacedPressesAreMissed
PROPERTIES PressesAreReportedOnce ComesToRest
