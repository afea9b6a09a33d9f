CONSTANTS
    gKBD_KeysCount_c = 2
    gKbdLongKeyIterations_c = 2
    gKbdVeryLongKeyIterations_c = 4
SPECIFICATION Spec
PROPERTY IgnoresOtherKeys
