SPECIFICATION FairSpec
CONSTANTS
    m1 = m1
    m2 = m2
    stop1 = stop1
    reader1 = reader1
    Owner = Owner
    Free = Free
    Movers = {m1}
    Stoppers = {stop1}
    Readers = {reader1}
    MaxGeneration = 3
CHECK_DEADLOCK FALSE
INVARIANTS
    ChildOwned
    MotionGuarded
    RecoveryStopsMotor
PROPERTIES
    CallsEnd
