CONSTANTS
    None = none
    MaxMounts = 2
SPECIFICATION LiveSpec
PROPERTIES MountedListens
CHECK_DEADLOCK FALSE
