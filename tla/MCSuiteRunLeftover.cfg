SPECIFICATION Spec
CONSTANTS
    Cases <- MCCases
INVARIANT LeftoversTolerated
CHECK_DEADLOCK FALSE
