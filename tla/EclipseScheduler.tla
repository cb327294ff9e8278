--------------------------- MODULE EclipseScheduler ---------------------------
(***************************************************************************)
(* The scheduler process of one RIG (scripts/eclipse_trigger.py with       *)
(* backend/phase_trigger.py): the phase windows computed from the contacts,*)
(* the loop that applies the settings of the current window and takes      *)
(* photo groups on time, Emergency Totality, the signals, and the          *)
(* heartbeat whose watchdog ends a silent process (trigger_heartbeat.py).  *)
(*                                                                         *)
(* Time is counted in units of five seconds.  A camera call is one step    *)
(* that begins it and one that ends it and lets its duration pass; signals *)
(* arrive in between.  The one camera of the session answers, fails or     *)
(* lets the IPC time-out pass.                                             *)
(***************************************************************************)
EXTENDS Integers, Sequences, FiniteSetsExt

CONSTANTS
    C1, C2, C3, C4,      \* the contacts
    Margin,              \* sequence_margin_min
    DiamondDuration, TotalityOverlap, PartialInterval, DiamondInterval,
    Lead,                \* the characterised SET reservation of the camera
    Estimate,            \* estimated_total_s of a prepared group
    Durations,           \* how long a camera call that answers may take
    ControlTimeout,      \* list_active_camera_rigs and a SET or a prepare that time out
    CaptureTimeout, ResponseGrace, DiscardTimeout, PingTimeout,
    StageTimeout         \* DEFAULT_STAGE_TIMEOUTS_S

VARIABLES
    kind,          \* of the eclipse: "total", "partial"; or "totality_only" for --totality-only
    now, pc,       \* the runtime clock; where the main thread is
    pings,         \* attempts to reach the camera IPC
    window,        \* index of the active window, 0 for none
    current, next, started, settingsOk,   \* locals of PhaseRuntime.run
    initialized,   \* camera_initialized of main()
    configured, retry,           \* locals of run_emergency_totality
    stopped, override,           \* the events set by SIGTERM and SIGUSR1
    silent, limit, killed,       \* since the last pulse; its time-out; ended by the watchdog
    camera,        \* the phase whose settings the camera has, or "unknown"
    shot,          \* history: the photo of the last normal group, with its window
    last, lateSets, latePhotos   \* history: last camera call; calls begun after a signal

loopVars == <<window, current, next, started, settingsOk, initialized>>
emergencyVars == <<configured, retry>>
signalVars == <<stopped, override>>
watchVars == <<silent, limit>>
historyVars == <<shot, last, lateSets, latePhotos>>
schedulerVars == <<kind, now, pc, pings, loopVars, emergencyVars, signalVars, watchVars,
                   killed, camera, historyVars>>

Never == -100
NoShot == [window |-> 0]

-----------------------------------------------------------------------------
\* build_phase_schedule()

TStart == C1 - Margin
TEnd == C4 + Margin
TMax == IF kind = "total" THEN C2 + (C3 - C2) \div 2 ELSE C1 + (C4 - C1) \div 2

Window(phase, from, to, interval) ==
    [phase |-> phase, from |-> from, to |-> to, interval |-> interval]
Windows ==
    IF kind = "partial" THEN <<Window("partial", TStart, TEnd, PartialInterval)>>
    ELSE <<Window("partial", TStart, C2 - DiamondDuration, PartialInterval),
           Window("diamond", C2 - DiamondDuration, C2 + TotalityOverlap, DiamondInterval),
           Window("totality", C2 + TotalityOverlap, C3 - TotalityOverlap, 0),
           Window("diamond", C3 - TotalityOverlap, C3 + DiamondDuration, DiamondInterval),
           Window("partial", C3 + DiamondDuration, TEnd, PartialInterval)>>
Contains(w, t) == Windows[w].from <= t /\ t < Windows[w].to
PhaseAt(t) ==
    IF \E w \in DOMAIN Windows : Contains(w, t)
    THEN CHOOSE w \in DOMAIN Windows : Contains(w, t) ELSE 0

\* aligned_partial_slot(): the first TMAX + n * interval at or after `notBefore'.
AlignedSlot(notBefore) ==
    Min({t \in notBefore .. notBefore + PartialInterval : (t - TMax) % PartialInterval = 0})
FirstCapture(w) == IF w = 1 THEN AlignedSlot(now) ELSE now

ASSUME ScheduleAssumption ==
    /\ C1 < C2 /\ C2 < C3 /\ C3 < C4 /\ PartialInterval > 0
    /\ \* "phase windows overlap or have no positive duration"
       LET b == <<TStart, C2 - DiamondDuration, C2 + TotalityOverlap, C3 - TotalityOverlap,
                  C3 + DiamondDuration, TEnd>>
       IN \A i \in 1 .. 5 : b[i] < b[i + 1]

Stages == {"startup", "ipc.ready", "runtime.begin", "wait", "phase.setup.begin", "phase.setup.error",
           "phase.ready", "capture.prepare.begin", "capture.begin", "capture.error", "capture.end",
           "shutdown"}
ASSUME TimesAssumption ==
    /\ {C1, C2, C3, C4, Margin, DiamondDuration, TotalityOverlap} \subseteq Int
    /\ {PartialInterval, DiamondInterval, Lead, Estimate} \subseteq Nat /\ Durations \subseteq Nat
    /\ {ControlTimeout, CaptureTimeout, ResponseGrace, DiscardTimeout, PingTimeout} \subseteq Nat
\* DEFAULT_STAGE_TIMEOUTS_S gives every stage longer than its call may take, but no longer than
\* a capture and the discarding of its token together.
ASSUME WatchAssumption ==
    /\ StageTimeout \in [Stages -> Nat \ {0}]
    /\ 3 * PingTimeout < StageTimeout["startup"]
    /\ ControlTimeout < StageTimeout["phase.setup.begin"]
    /\ ControlTimeout < StageTimeout["capture.prepare.begin"]
    /\ CaptureTimeout < StageTimeout["capture.begin"]
    /\ CaptureTimeout + DiscardTimeout <= StageTimeout["capture.begin"]

-----------------------------------------------------------------------------
CallsBegun == {"enter", "set", "prepare", "trigger", "discard",
               "esetup", "einit", "eprepare", "etrigger", "ediscard", "ping"}
Emergency == {"estart", "etop", "esetup", "einit", "eprepare", "etrigger", "ediscard"}

SchedulerTypeInv ==
    /\ kind \in {"total", "partial", "totality_only"} /\ pings \in 1 .. 3
    /\ pc \in CallsBegun \cup Emergency \cup {"top", "slot", "recheck", "finally", "exited"}
    /\ now >= 0 /\ current \in 0 .. now /\ window \in 0 .. 5 /\ next >= Never /\ started >= Never
    /\ {settingsOk, initialized, configured, retry, stopped, override, killed} \subseteq BOOLEAN
    /\ silent >= 0 /\ limit > 0
    /\ camera \in {"unknown", "partial", "diamond", "totality"}
    /\ last \in {"none", "set", "photo"} /\ lateSets >= 0 /\ latePhotos >= 0

SchedulerInit ==
    /\ kind \in {"total", "partial", "totality_only"} /\ pc = "ping" /\ pings = 1
    /\ now = 0 /\ window = 0 /\ current = 0 /\ next = Never /\ started = Never
    /\ settingsOk = FALSE /\ initialized = FALSE /\ configured = FALSE /\ retry = FALSE
    /\ stopped = FALSE /\ override = FALSE
    /\ silent = 0 /\ limit = StageTimeout["startup"] /\ killed = FALSE
    /\ camera = "unknown" /\ shot = NoShot /\ last = "none"
    /\ lateSets = 0 /\ latePhotos = 0

\* HeartbeatEmitter.pulse() and the reader that takes the time-out of the stage.
PulseWith(timeout) == silent' = 0 /\ limit' = timeout
Pulse(stage) == PulseWith(StageTimeout[stage])

\* _capture_watchdog_timeout_s()
CaptureWatch(wait) == PulseWith(Max({StageTimeout["capture.begin"], wait + Estimate + 6}))

\* A camera call ends after d units.  The watchdog leaves a run alone that is being stopped.
Lasts(d) ==
    /\ stopped \/ silent + d <= limit
    /\ now' = IF pc \in Emergency THEN now ELSE now + d
Silence(d) == silent' = silent + d /\ UNCHANGED limit

\* A required SET answers or fails; a failed one leaves the camera as nobody knows.
SetEnds(phase, ok, d) ==
    /\ d \in Durations \cup IF ok THEN {} ELSE {ControlTimeout}
    /\ Lasts(d)
    /\ camera' = IF ok THEN phase ELSE "unknown"
Late == stopped \/ override
\* The counts of late calls stop at two: one is the most that is promised.
More(count) == Min({2, count + 1})
BeginsSet ==
    /\ shot' = NoShot
    /\ last' = IF pc \in Emergency THEN "set" ELSE last
    /\ lateSets' = IF Late /\ pc \notin Emergency THEN More(lateSets) ELSE lateSets
    /\ UNCHANGED latePhotos
BeginsPhoto ==
    /\ shot' = NoShot
    /\ last' = IF pc \in Emergency THEN "photo" ELSE last
    /\ latePhotos' = IF stopped \/ (override /\ pc \notin Emergency) THEN More(latePhotos)
                     ELSE latePhotos
    /\ UNCHANGED lateSets

-----------------------------------------------------------------------------
\* main(): three pings, then the schedule or, with --totality-only, the last resort.

PingEnds(ok, d) ==
    /\ pc = "ping" /\ d \in {0, PingTimeout} /\ Lasts(d)
    /\ IF ok THEN /\ pc' = IF kind = "totality_only" THEN "estart" ELSE "top"
                  /\ IF kind = "totality_only" THEN Pulse("ipc.ready") ELSE Pulse("runtime.begin")
                  /\ UNCHANGED pings
       ELSE IF pings = 3
            THEN pc' = "finally" /\ Pulse("shutdown") /\ UNCHANGED pings
            ELSE pings' = pings + 1 /\ Silence(d) /\ UNCHANGED pc
    /\ UNCHANGED <<kind, loopVars, emergencyVars, signalVars, killed, camera, historyVars>>

Finally ==
    /\ pc = "finally" /\ pc' = "exited" /\ stopped' = TRUE
    /\ UNCHANGED <<kind, now, pings, loopVars, emergencyVars, override, watchVars, killed, camera,
                   historyVars>>

-----------------------------------------------------------------------------
\* PhaseRuntime.run()

NoPhoto == shot' = NoShot /\ UNCHANGED <<last, lateSets, latePhotos>>

Leaves == pc' = "finally" /\ Pulse("shutdown") /\ UNCHANGED <<now, loopVars, camera>> /\ NoPhoto
GoesOn(there) == pc' = there /\ UNCHANGED <<watchVars, camera>>

\* wait_until() returns after a quarter of a second at most, or when the target is reached.
WaitUntil(t) ==
    /\ now' = Max({now, Min({t, now + 1})}) /\ pc' = "top" /\ Pulse("wait")
    /\ UNCHANGED <<loopVars, camera>> /\ NoPhoto

\* EmergencyTotalityRequested leaves the loop, its locals and the schedule.
Abandon ==
    /\ pc' = "estart" /\ now' = 0 /\ NoPhoto
    /\ window' = 0 /\ current' = 0 /\ next' = Never /\ started' = Never /\ settingsOk' = FALSE
    /\ UNCHANGED <<initialized, watchVars, camera>>

EnterWindow(w) ==
    /\ window' = w /\ current' = now /\ next' = FirstCapture(w) /\ started' = Never
    /\ IF initialized
       THEN pc' = "slot" /\ Pulse("phase.ready") /\ NoPhoto
       ELSE pc' = "enter" /\ Pulse("phase.setup.begin") /\ BeginsSet
    /\ UNCHANGED <<now, settingsOk, initialized, camera>>

\* Mutant: STOP only ends the loop of the schedule.
StopSeenBySchedule == stopped /\ pc = "top"
StopSeen == stopped

Top ==
    /\ pc = "top"
    /\ IF StopSeen THEN Leaves
       ELSE IF override THEN Abandon
       ELSE IF now >= TEnd THEN Leaves
       ELSE LET w == PhaseAt(now) IN
            IF w = 0 THEN WaitUntil(TStart)
            ELSE IF w # window THEN EnterWindow(w)
            ELSE /\ GoesOn("slot") /\ current' = now
                 /\ NoPhoto /\ UNCHANGED <<now, window, next, started, settingsOk, initialized>>
    /\ UNCHANGED <<kind, pings, emergencyVars, signalVars, killed>>

\* A failed initialisation is logged: it must not stop the photos.
EnterEnds(ok, d) ==
    /\ pc = "enter" /\ SetEnds(Windows[window].phase, ok, d)
    /\ initialized' = ok /\ pc' = "slot"
    /\ IF ok THEN Pulse("phase.ready") ELSE Silence(d)
    /\ UNCHANGED <<kind, pings, window, current, next, started, settingsOk, emergencyVars,
                   signalVars, killed, historyVars>>

PrepareAt == Max({Windows[window].from, next - Lead})

\* The slot is beyond the window, or not due, or the settings are applied for it.
Slot ==
    /\ pc = "slot"
    /\ IF next >= Windows[window].to THEN WaitUntil(Windows[window].to)
       ELSE IF current < PrepareAt THEN WaitUntil(Min({PrepareAt, Windows[window].to}))
       ELSE IF ~ Contains(window, now)
            THEN GoesOn("top") /\ NoPhoto /\ UNCHANGED <<now, loopVars>>
       ELSE /\ pc' = "set" /\ Pulse("phase.setup.begin") /\ BeginsSet /\ current' = 0
            /\ UNCHANGED <<now, window, next, started, settingsOk, initialized, camera>>
    /\ UNCHANGED <<kind, pings, emergencyVars, signalVars, killed>>

ReconcileEnds(ok, d) ==
    /\ pc = "set" /\ SetEnds(Windows[window].phase, ok, d)
    /\ settingsOk' = ok /\ initialized' = (initialized \/ ok) /\ pc' = "recheck"
    /\ IF ok THEN Pulse("phase.ready") ELSE Silence(d)
    /\ UNCHANGED <<kind, pings, window, current, next, started, emergencyVars, signalVars,
                   killed, historyVars>>


\* EmergencyTotalityRequested is raised in the head of the loop and again after the SET.
Overridden == override

\* Mutant: a photo is taken with whatever settings the camera has.
SkipsSlotNever == FALSE
SkipsSlot == ~ settingsOk

AfterSkip == now + Max({1, Windows[window].interval})

Recheck ==
    /\ pc = "recheck"
    /\ IF Overridden THEN Abandon
       ELSE IF ~ Contains(window, now)
            THEN GoesOn("top") /\ NoPhoto /\ UNCHANGED <<now, loopVars>>
       ELSE /\ started' = now
            /\ IF SkipsSlot
               THEN GoesOn("top") /\ next' = AfterSkip /\ UNCHANGED historyVars
               ELSE /\ pc' = "prepare" /\ Pulse("capture.prepare.begin") /\ BeginsPhoto
                    /\ UNCHANGED <<next, camera>>
            /\ UNCHANGED <<now, current, window, settingsOk, initialized>>
    /\ UNCHANGED <<kind, pings, emergencyVars, signalVars, killed>>

-----------------------------------------------------------------------------
\* capture_cycle() and the next slot.

NextSlot(truncated) ==
    IF truncated THEN Windows[window].to
    ELSE IF Windows[window].interval > 0 THEN Max({next, started}) + Windows[window].interval
    ELSE Max({now', started + 1})
GroupEnds(truncated) ==
    /\ pc' = "top" /\ next' = NextSlot(truncated) /\ started' = Never
    /\ UNCHANGED <<current, window, settingsOk, initialized>>

PrepareEnds(ok, d) ==
    /\ pc = "prepare" /\ d \in Durations \cup IF ok THEN {} ELSE {ControlTimeout}
    /\ Lasts(d)
    /\ IF ok THEN /\ pc' = "trigger" /\ CaptureWatch(Max({0, next - now'}))
                  /\ UNCHANGED loopVars
       ELSE Pulse("capture.error") /\ GroupEnds(FALSE)
    /\ UNCHANGED <<kind, pings, emergencyVars, signalVars, killed, camera, historyVars>>

Deadline == Windows[window].to
DeadlinePassed == now >= Deadline
TriggerTimeout == IF pc \in Emergency THEN CaptureTimeout
                  ELSE Min({CaptureTimeout, Deadline - now + ResponseGrace})
\* The camera waits for the target of the group and fires.
Fires ==
    /\ shot' = [window |-> window, at |-> Max({now, next}), settings |-> camera]
    /\ UNCHANGED <<last, lateSets, latePhotos>>

\* The group is complete or short, or the camera ended it for the deadline.
TriggerAnswers(truncated, d) ==
    /\ pc = "trigger" /\ ~ DeadlinePassed
    /\ d \in {Max({0, next - now})} \cup Durations /\ d >= next - now /\ d <= TriggerTimeout
    /\ Lasts(d) /\ Pulse("capture.end") /\ GroupEnds(truncated)
    /\ Fires \/ (truncated /\ UNCHANGED historyVars)
    /\ UNCHANGED <<kind, pings, emergencyVars, signalVars, killed, camera>>

\* Refused, lost or too late, after the shutter or before it: the token is discarded.
TriggerFails(d) ==
    /\ pc = "trigger"
    /\ IF DeadlinePassed THEN d = 0 /\ UNCHANGED historyVars
       ELSE d \in {0, TriggerTimeout} /\ (Fires \/ UNCHANGED historyVars)
    /\ Lasts(d) /\ pc' = "discard" /\ Silence(d)
    /\ UNCHANGED <<kind, pings, loopVars, emergencyVars, signalVars, killed, camera>>

DiscardEnds(d) ==
    /\ pc = "discard" /\ d \in {0, DiscardTimeout}
    /\ Lasts(d) /\ Pulse("capture.error") /\ GroupEnds(FALSE)
    /\ UNCHANGED <<kind, pings, emergencyVars, signalVars, killed, camera, historyVars>>

-----------------------------------------------------------------------------
\* run_emergency_totality(): no clock, one photo group after the other until STOP.

EUnchanged == UNCHANGED <<kind, pings, loopVars, signalVars, killed>>

\* A configuration that is disabled or out of range ends the process.
EmergencyRefused ==
    /\ pc = "estart" /\ pc' = "finally" /\ Pulse("shutdown")
    /\ EUnchanged /\ UNCHANGED <<now, emergencyVars, camera, historyVars>>

EmergencyStart ==
    /\ pc = "estart" /\ pc' = "esetup" /\ Pulse("phase.setup.begin") /\ BeginsSet
    /\ configured' = FALSE /\ retry' = FALSE
    /\ EUnchanged /\ UNCHANGED <<now, camera>>

EmergencySetupEnds(ok, d) ==
    /\ pc = "esetup" /\ SetEnds("totality", ok, d)
    /\ configured' = ok /\ pc' = "etop"
    /\ IF ok THEN Pulse("phase.ready") ELSE Pulse("phase.setup.error")
    /\ EUnchanged /\ UNCHANGED <<retry, historyVars>>

EmergencyPhoto == pc' = "eprepare" /\ Pulse("capture.prepare.begin") /\ BeginsPhoto

\* STOP, the end of its duration, the wait for the interval, a SET or a photo.
EmergencyTop ==
    /\ pc = "etop"
    /\ IF StopSeen THEN pc' = "finally" /\ Pulse("shutdown") /\ UNCHANGED historyVars
       ELSE \/ pc' = "finally" /\ Pulse("shutdown") /\ UNCHANGED historyVars
            \/ Pulse("wait") /\ UNCHANGED <<pc, historyVars>>
            \/ ~ retry /\ EmergencyPhoto
            \/ retry /\ pc' = "einit" /\ BeginsSet /\ UNCHANGED watchVars
    /\ EUnchanged /\ UNCHANGED <<now, emergencyVars, camera>>

\* Mutant: the cycle ends when the initialization fails, as in a normal phase.
EmergencyInitEndsCycle(ok, d) ==
    /\ pc = "einit" /\ SetEnds("totality", ok, d)
    /\ configured' = ok /\ retry' = ~ ok
    /\ IF ok THEN EmergencyPhoto ELSE pc' = "etop" /\ Silence(d) /\ UNCHANGED historyVars
    /\ EUnchanged
\* A failed initialization does not withhold the photo.
EmergencyInitEnds(ok, d) ==
    /\ pc = "einit" /\ SetEnds("totality", ok, d)
    /\ configured' = ok /\ retry' = ~ ok
    /\ EmergencyPhoto
    /\ EUnchanged

EmergencyFails ==
    /\ pc' = "etop" /\ Pulse("capture.error") /\ configured' = FALSE /\ retry' = TRUE

EmergencyPrepareEnds(ok, d) ==
    /\ pc = "eprepare" /\ d \in Durations \cup IF ok THEN {} ELSE {ControlTimeout}
    /\ Lasts(d)
    /\ IF ok THEN pc' = "etrigger" /\ CaptureWatch(0) /\ UNCHANGED emergencyVars
       ELSE EmergencyFails
    /\ EUnchanged /\ UNCHANGED <<camera, historyVars>>

AfterPhoto == retry \/ ~ configured
EmergencyTriggerEnds(ok, d) ==
    /\ pc = "etrigger" /\ d \in Durations \cup IF ok THEN {} ELSE {CaptureTimeout}
    /\ Lasts(d)
    /\ IF ok THEN pc' = "etop" /\ Pulse("capture.end") /\ retry' = AfterPhoto
       ELSE pc' = "ediscard" /\ Silence(d) /\ UNCHANGED retry
    /\ EUnchanged /\ UNCHANGED <<configured, camera, historyVars>>

EmergencyDiscardEnds(d) ==
    /\ pc = "ediscard" /\ d \in {0, DiscardTimeout}
    /\ Lasts(d) /\ EmergencyFails
    /\ EUnchanged /\ UNCHANGED <<camera, historyVars>>

-----------------------------------------------------------------------------
\* The trigger service: STOP (which also quiets the watchdog), the override, the watchdog.

Sigterm ==
    /\ ~ stopped /\ pc # "exited" /\ stopped' = TRUE
    /\ UNCHANGED <<kind, now, pc, pings, loopVars, emergencyVars, override, watchVars, killed,
                   camera, historyVars>>
Sigusr1 ==
    /\ ~ override /\ pc # "exited" /\ kind # "totality_only" /\ override' = TRUE
    /\ UNCHANGED <<kind, now, pc, pings, loopVars, emergencyVars, stopped, watchVars, killed,
                   camera, historyVars>>

Longest ==
    CASE pc = "ping" -> PingTimeout
      [] pc \in {"trigger", "etrigger"} -> TriggerTimeout
      [] pc \in {"discard", "ediscard"} -> DiscardTimeout
      [] OTHER -> ControlTimeout
\* A time-out is never over before its time: reaching the limit may be exceeding it.
Watchdog ==
    /\ pc \in CallsBegun /\ ~ stopped /\ silent + Longest >= limit
    /\ killed' = TRUE
    /\ UNCHANGED <<kind, now, pc, pings, loopVars, emergencyVars, signalVars, watchVars, camera,
                   historyVars>>

CallReturns(d) ==
    \/ \E ok \in BOOLEAN :
        \/ PingEnds(ok, d) \/ EnterEnds(ok, d) \/ ReconcileEnds(ok, d) \/ PrepareEnds(ok, d)
        \/ TriggerAnswers(ok, d) \/ EmergencySetupEnds(ok, d) \/ EmergencyInitEnds(ok, d)
        \/ EmergencyPrepareEnds(ok, d) \/ EmergencyTriggerEnds(ok, d)
    \/ TriggerFails(d) \/ DiscardEnds(d) \/ EmergencyDiscardEnds(d)
SchedulerStep ==
    /\ ~ killed
    /\ \/ Finally \/ Top \/ Slot \/ Recheck
       \/ EmergencyRefused \/ EmergencyStart \/ EmergencyTop
       \/ \E d \in 0 .. CaptureTimeout : CallReturns(d)
SchedulerNext == SchedulerStep \/ (~ killed /\ (Sigterm \/ Sigusr1 \/ Watchdog))
SchedulerSpec ==
    SchedulerInit /\ [][SchedulerNext]_schedulerVars /\ WF_schedulerVars(SchedulerStep)

-----------------------------------------------------------------------------

\* A normal photo is fired inside the window its group was admitted for, with the settings
\* of that phase on the camera (phase_trigger.py:314, camera_ipc_client.py:437).
PhotosInTheirPhase ==
    shot.window # 0 => /\ Contains(shot.window, shot.at)
                       /\ shot.settings = Windows[shot.window].phase

\* "once the override is visible no further normal capture may start" (phase_trigger.py:327);
\* and a STOP lets at most the SET and the group begin that the loop was about to begin.
SignalsBoundCalls ==
    /\ lateSets <= 1 /\ latePhotos <= 1
    /\ override /\ ~ stopped => latePhotos = 0

\* The watchdog ends no scheduler whose camera calls end within their time-outs, but one that
\* initializes the camera again in Emergency Totality, and one that waited in full both for
\* a group and for the discarding of its token (trigger_heartbeat.py:18, camera_ipc_client.py:60).
WatchdogSparesRun ==
    killed => \/ pc = "einit"
              \/ pc \in {"discard", "ediscard"} /\ silent = CaptureTimeout

\* What the schedule, the signals and the watchdog allow the scheduler to do to its camera
\* (phase_trigger.py:231, eclipse_trigger.py:667), and the types.
ScheduleKept ==
    SchedulerTypeInv /\ PhotosInTheirPhase /\ SignalsBoundCalls /\ WatchdogSparesRun

\* "retry initialization before every following capture until it succeeds.  Even a failed retry
\* never suppresses the PHOTO attempt" (eclipse_trigger.py:584).
EmergencyAlternates ==
    [][/\ pc' = "einit" /\ pc # "einit" => last = "photo"
       /\ pc' = "eprepare" /\ pc # "eprepare" /\ ~ configured' => last = "set"]_schedulerVars

\* A STOP ends the process and an override reaches Emergency Totality (or the end), whatever
\* the camera does; and Emergency Totality goes on taking photos until it ends.
SignalsObeyed ==
    /\ stopped ~> pc = "exited" \/ killed
    /\ override ~> pc \in Emergency \cup {"exited"} \/ killed
    /\ pc \in Emergency ~> pc \in {"eprepare", "exited"} \/ killed

\* "Continuous phases must retry promptly, but never spin against a failing camera SET
\* operation" (phase_trigger.py:341). With a lead of a second or more they do spin.
NeverSpins ==
    [][pc = "set" /\ pc' = "recheck" /\ ~ settingsOk' /\ ~ settingsOk /\ started # Never
       => now > started]_schedulerVars

\* "Even a failed retry never suppresses the PHOTO attempt" (eclipse_trigger.py:585): an
\* initialization that ends within its time-out is survived. It is not: no pulse precedes it.
EmergencyRetrySurvives == killed => pc # "einit"
=============================================================================
