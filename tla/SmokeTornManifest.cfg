CONSTANTS
    MaxPolls = 2
    MaxFaults = 2

SPECIFICATION Spec
CHECK_DEADLOCK FALSE

INVARIANT RecoveryFileIsUsable
