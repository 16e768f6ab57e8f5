CONSTANTS
    m1 = m1
    Map = {m1}
    MaxItems = 5
    Persistent = {m1}
    Limit = 2
    Fanout = 1
    MinFlush = 2
    Budget = 8
    MaxFaults = 2
SPECIFICATION Spec
INVARIANTS FlushedIsDurable
