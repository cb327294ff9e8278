SPECIFICATION StationSpec
CONSTANTS
    Devices = {1, 2}
    Settings = {"a", "b"}
    MaxProcesses = 4
    MaxTroubles = 2
    Drivers = {1, 2}
    Ports = {1, 2, 3}
    OnStep = {2}
    TrackState = {1}
    Answers <- MCAnswers
    Taken = {3}
    MaxEvents = 2
    MaxFailures = 1
    Kinds = {"home", "home_init", "eqmod", "direct"}
    MaxHomes = 3
    MaxFaults = 1
    Gestures = {"g1", "g2"}
    Plugins = {"zwo", "indi"}
    Top = 2
    MaxJogs = 2
    MaxTroubled = 2
    Eafs = {1, 2}
    Hosts = {"w1", "w2", "runtime"}
    Wanted <- MCWanted
    MaxUpsets = 2
CHECK_DEADLOCK FALSE
INVARIANTS
    OwnersKnown
    DiscoverySafe
    MountsSafe
    FocusersSafe
