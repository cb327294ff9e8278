SPECIFICATION SchedulerSpec
CONSTANTS
    C1 = 4
    C2 = 9
    C3 = 15
    C4 = 20
    Margin = 3
    DiamondDuration = 2
    TotalityOverlap = 1
    PartialInterval = 3
    DiamondInterval = 0
    Lead = 1
    Estimate = 1
    Durations = {0, 1}
    ControlTimeout = 7
    CaptureTimeout = 24
    ResponseGrace = 1
    DiscardTimeout = 1
    PingTimeout = 1
    StageTimeout <- MCStageTimeout
CHECK_DEADLOCK FALSE
INVARIANTS
    ScheduleKept
PROPERTIES
    EmergencyAlternates
    SignalsObeyed
