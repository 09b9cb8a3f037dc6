CONSTANTS
    d1 = d1
    d2 = d2
    Dispatch = {d1, d2}
    MaxSession = 2
    SendCap = 1
    MaxBreaks = 2
    MaxLoad = 2
SPECIFICATION WatchSpec
INVARIANTS WatchTypeOK RegistrationKept
PROPERTIES Returns WatcherTold
CHECK_DEADLOCK FALSE
