\* Another process writes a file of the vault once; one request, no restart.
SPECIFICATION SideFairSpec
CONSTANTS
    Record = {a}
    Seat = {}
    SideWriter = {w1}
    MaxStamp = 2
    MaxCrashes = 0
PROPERTY ForeignShown
CHECK_DEADLOCK FALSE
