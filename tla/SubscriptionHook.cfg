CONSTANTS
    None = none
    MaxMounts = 2
SPECIFICATION LiveSpec
INVARIANTS HookTypeOK RunningListens LeaksCounted
PROPERTIES LateDataListens
CHECK_DEADLOCK FALSE
