CONSTANTS
    m1 = m1
    m2 = m2
    Map = {m1, m2}
    MaxItems = 4
    Persistent = {}
    Limit = 8
    Fanout = 1
    MinFlush = 1
    Budget = 1
    MaxFaults = 1
SPECIFICATION FairSpec
INVARIANTS CountersExact PeakBounded
PROPERTIES ImplementsMultimap OperationsReturn
