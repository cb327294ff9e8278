------------------------- MODULE MCEclipseScheduler -------------------------
\* The time-outs of the code in units of five seconds (30 s is 6 units).
EXTENDS EclipseScheduler
MCStageTimeout ==
    [stage \in {"startup", "phase.setup.begin", "phase.setup.error", "capture.prepare.begin",
                "capture.begin", "shutdown", "phase.ready", "wait", "ipc.ready",
                "runtime.begin", "capture.error", "capture.end"} |->
        CASE stage = "startup" -> 6
          [] stage = "phase.setup.error" -> 36
          [] stage \in {"phase.setup.begin", "capture.prepare.begin", "shutdown"} -> 8
          [] stage = "capture.begin" -> 25
          [] OTHER -> 4]
=============================================================================
