------------------------------ MODULE SchedulerProofs ------------------------------
\* The scheduler process, for any eclipse, camera and time-outs in the order of the code's: its
\* photos, its signals and its watchdog, and the alternation of Emergency Totality.
EXTENDS EclipseScheduler, FiniteSetTheorems, WellFoundedInduction, TLAPS

-----------------------------------------------------------------------------
(* The invariant *)

Calls == {"enter", "slot", "set", "recheck", "prepare", "trigger", "discard"}
\* The types: a loop that works on a window has one,
Places ==
    /\ kind \in {"total", "partial", "totality_only"} /\ pings \in 1 .. 3 /\ window \in 0 .. 5
    /\ pc \in CallsBegun \cup Emergency \cup {"top", "slot", "recheck", "finally", "exited"}
    /\ pc \in Calls => window \in DOMAIN Windows
    /\ camera \in {"unknown", "partial", "diamond", "totality"}
    /\ last \in {"none", "set", "photo"} /\ lateSets \in 0 .. 2 /\ latePhotos \in 0 .. 2
\* what the loop knows of the time is no later than the time,
Clocks ==
    /\ now \in Nat /\ current \in 0 .. now /\ silent \in Nat /\ limit \in Nat \ {0}
    /\ next \in Int /\ next >= Never /\ started \in Int /\ started >= Never
\* and the rest is true or false.
Flags ==
    /\ settingsOk \in BOOLEAN /\ initialized \in BOOLEAN /\ configured \in BOOLEAN
    /\ retry \in BOOLEAN /\ stopped \in BOOLEAN /\ override \in BOOLEAN /\ killed \in BOOLEAN
Types == Places /\ Clocks /\ Flags
\* From the SET to the photo the slot stays inside the window; from the SET on, if it succeeded,
\* the camera has the settings of the phase.
SlotInWindow ==
    /\ pc \in {"set", "recheck", "prepare", "trigger"} =>
        now >= Windows[window].from /\ next < Windows[window].to
    /\ pc = "recheck" /\ settingsOk => camera = Windows[window].phase
    /\ pc \in {"prepare", "trigger"} => camera = Windows[window].phase
\* While a call lasts, the watchdog waits for it from the pulse before it; the discarding of a
\* token follows the group without a pulse, and the repeated initialization follows any stage.
PulseBeforeCall ==
    /\ pc = "ping" => /\ limit = StageTimeout["startup"]
                      /\ silent <= (pings - 1) * PingTimeout
    /\ pc \in {"enter", "set", "esetup"} => silent = 0 /\ limit = StageTimeout["phase.setup.begin"]
    /\ pc \in {"prepare", "eprepare"} => silent = 0 /\ limit = StageTimeout["capture.prepare.begin"]
    /\ pc \in {"trigger", "etrigger"} => silent = 0 /\ limit >= StageTimeout["capture.begin"]
    /\ pc \in {"discard", "ediscard"} =>
        silent <= CaptureTimeout /\ limit >= StageTimeout["capture.begin"]
\* Where a call that was begun after a signal may have left the loop: at the first look it ends.
AfterLatePhoto == {"prepare", "trigger", "discard", "top", "eprepare", "etrigger", "ediscard", "etop",
                   "finally", "exited"}
SignalsSeen ==
    /\ latePhotos > 0 => stopped /\ pc \in AfterLatePhoto
    /\ lateSets > 0 => Late /\ pc \notin {"enter", "slot"}
\* What Emergency Totality did last.
EmergencyKnown ==
    /\ pc = "esetup" => last = "set" /\ ~retry
    /\ pc = "einit" => last = "set"
    /\ pc \in {"eprepare", "etrigger", "ediscard"} => last = "photo"
    /\ pc = "etop" => /\ retry => last = "photo"
                      /\ ~retry /\ ~configured => last = "set"
SchedulerIInv ==
    /\ Types /\ SlotInWindow /\ PhotosInTheirPhase /\ PulseBeforeCall /\ WatchdogSparesRun
    /\ SignalsSeen /\ SignalsBoundCalls /\ EmergencyKnown

-----------------------------------------------------------------------------
(* Numbers *)

\* A number of a set that is not above any other is its minimum; likewise the maximum.
LEMMA MinIs ==
    ASSUME NEW S \in SUBSET Int, NEW m \in S, \A y \in S : m <= y
    PROVE  Min(S) = m
<1>1. \E x \in S : \A y \in S : x <= y
    OBVIOUS
<1>2. Min(S) \in S /\ \A y \in S : Min(S) <= y
    BY <1>1 DEF Min
<1>3. Min(S) \in Int /\ m \in Int /\ Min(S) <= m /\ m <= Min(S)
    BY <1>2
<1>4. QED
    BY <1>3

LEMMA MaxIs ==
    ASSUME NEW S \in SUBSET Int, NEW m \in S, \A y \in S : m >= y
    PROVE  Max(S) = m
<1>1. \E x \in S : \A y \in S : x >= y
    OBVIOUS
<1>2. Max(S) \in S /\ \A y \in S : Max(S) >= y
    BY <1>1 DEF Max
<1>3. Max(S) \in Int /\ m \in Int /\ Max(S) >= m /\ m >= Max(S)
    BY <1>2
<1>4. QED
    BY <1>3

\* The greater, and the smaller, of two numbers.
LEMMA MaxOfTwo ==
    ASSUME NEW a \in Int, NEW b \in Int
    PROVE  Max({a, b}) = IF a >= b THEN a ELSE b
<1>1. CASE a >= b
    BY <1>1, MaxIs
<1>2. CASE ~(a >= b)
    BY <1>2, MaxIs
<1>3. QED
    BY <1>1, <1>2

LEMMA MinOfTwo ==
    ASSUME NEW a \in Int, NEW b \in Int
    PROVE  Min({a, b}) = IF a <= b THEN a ELSE b
<1>1. CASE a <= b
    BY <1>1, MinIs
<1>2. CASE ~(a <= b)
    BY <1>2, MinIs
<1>3. QED
    BY <1>1, <1>2

\* A set of natural numbers has a least one.
LEMMA LeastNumber ==
    ASSUME NEW S \in SUBSET Nat, S # {}
    PROVE  \E x \in S : \A y \in S : x <= y
<1>1. \E x \in S : \A y \in S : ~(<<y, x>> \in OpToRel(<, Nat))
    BY WFMin, NatLessThanWellFounded
<1>2. PICK x \in S : \A y \in S : ~(<<y, x>> \in OpToRel(<, Nat))
    BY <1>1
<1>3. ASSUME NEW y \in S, ~(x <= y)
      PROVE  FALSE
    <2>1. y \in Nat /\ x \in Nat /\ y < x
        BY <1>3
    <2>2. <<y, x>> \in Nat \X Nat
        BY <2>1
    <2>3. <<y, x>> \in OpToRel(<, Nat)
        BY <2>1, <2>2 DEF OpToRel
    <2>4. QED
        BY <1>2, <2>3
<1>4. QED
    BY <1>3

-----------------------------------------------------------------------------
(* The windows *)

\* The maximum of the eclipse is a number, of every kind.
LEMMA TMaxNumber == TMax \in Int
BY TimesAssumption, ScheduleAssumption DEF TMax

\* aligned_partial_slot() finds a slot, and none before the moment it is given.
LEMMA SlotAligned ==
    ASSUME NEW t \in Nat
    PROVE  AlignedSlot(t) \in Nat /\ AlignedSlot(t) >= t
<1> DEFINE Slots == {s \in t .. t + PartialInterval : (s - TMax) % PartialInterval = 0}
<1>1. PartialInterval \in Int /\ PartialInterval > 0 /\ TMax \in Int /\ t \in Int
    BY TimesAssumption, ScheduleAssumption, TMaxNumber
<1>2. PICK r \in 0 .. PartialInterval - 1 : r = (TMax - t) % PartialInterval
    BY <1>1
<1>3. PICK q \in Int : (TMax - t) - r = PartialInterval * q
    BY <1>1, <1>2, SMTT(30)
<1>4. t + r \in t .. t + PartialInterval
    BY <1>1, <1>2
<1>5. PICK k \in Int : k = -q /\ (t + r) - TMax = PartialInterval * k
    BY <1>1, <1>2, <1>3
<1>6. (PartialInterval * k) % PartialInterval = 0
    BY <1>1
<1>7. t + r \in Slots
    BY <1>4, <1>5, <1>6
<1>8. Slots \in SUBSET Nat /\ Slots # {} /\ \A s \in Slots : s >= t
    <2>1. Slots \subseteq t .. t + PartialInterval
        OBVIOUS
    <2>2. \A s \in t .. t + PartialInterval : s \in Nat /\ s >= t
        BY <1>1
    <2>3. QED
        BY <1>7, <2>1, <2>2
<1>9. \E s \in Slots : \A u \in Slots : s <= u
    BY <1>8, LeastNumber
<1>10. Min(Slots) \in Slots
    BY <1>9 DEF Min
<1>11. QED
    BY <1>8, <1>10 DEF AlignedSlot

\* The windows of every kind of eclipse are at most five, each from one moment to another.
LEMMA WindowKinds ==
    ASSUME Types, NEW w \in DOMAIN Windows
    PROVE  /\ w \in 1 .. 5 /\ Windows[w].phase \in {"partial", "diamond", "totality"}
           /\ Windows[w].from \in Int /\ Windows[w].to \in Int /\ Windows[w].interval \in Nat
<1>1. TStart \in Int /\ TEnd \in Int
    BY TimesAssumption DEF TStart, TEnd
<1>2. CASE kind = "partial"
    BY <1>1, <1>2, TimesAssumption DEF Windows, Window
<1>3. CASE kind # "partial"
    BY <1>1, <1>3, TimesAssumption DEF Windows, Window
<1>4. QED
    BY <1>2, <1>3

\* The window of a moment contains it.
LEMMA PhaseContains ==
    ASSUME Types, PhaseAt(now) # 0
    PROVE  PhaseAt(now) \in DOMAIN Windows /\ Contains(PhaseAt(now), now)
BY DEF PhaseAt

\* The windows of a run do not move.
LEMMA WindowsStand == kind' = kind => Windows' = Windows /\ TEnd' = TEnd /\ TStart' = TStart
BY DEF Windows, Window, TStart, TEnd

\* A photo that was taken stays where it was.
LEMMA PhotosStand ==
    ASSUME PhotosInTheirPhase, kind' = kind, shot' = shot \/ shot' = NoShot
    PROVE  PhotosInTheirPhase'
BY WindowsStand DEF PhotosInTheirPhase, Contains, NoShot

\* The durations and the time-outs are numbers.
LEMMA Numbers ==
    /\ Lead \in Nat /\ Estimate \in Nat /\ ControlTimeout \in Nat /\ CaptureTimeout \in Nat
    /\ ResponseGrace \in Nat /\ DiscardTimeout \in Nat /\ PingTimeout \in Nat /\ Durations \subseteq Nat
    /\ TStart \in Int /\ TEnd \in Int
    /\ StageTimeout["startup"] \in Nat \ {0} /\ StageTimeout["ipc.ready"] \in Nat \ {0}
    /\ StageTimeout["runtime.begin"] \in Nat \ {0} /\ StageTimeout["wait"] \in Nat \ {0}
    /\ StageTimeout["phase.setup.begin"] \in Nat \ {0}
    /\ StageTimeout["phase.setup.error"] \in Nat \ {0} /\ StageTimeout["phase.ready"] \in Nat \ {0}
    /\ StageTimeout["capture.prepare.begin"] \in Nat \ {0}
    /\ StageTimeout["capture.begin"] \in Nat \ {0} /\ StageTimeout["capture.error"] \in Nat \ {0}
    /\ StageTimeout["capture.end"] \in Nat \ {0} /\ StageTimeout["shutdown"] \in Nat \ {0}
BY TimesAssumption, WatchAssumption DEF TStart, TEnd, Stages

\* The later, and the earlier, of two moments.
LEMMA Later ==
    ASSUME NEW a \in Int, NEW b \in Int
    PROVE  Max({a, b}) \in Int /\ Max({a, b}) >= a /\ Max({a, b}) >= b /\ Max({a, b}) \in {a, b}
BY MaxOfTwo
LEMMA Earlier ==
    ASSUME NEW a \in Int, NEW b \in Int
    PROVE  Min({a, b}) \in Int /\ Min({a, b}) <= a /\ Min({a, b}) <= b /\ Min({a, b}) \in {a, b}
BY MinOfTwo

\* One call more is one at least, and the count stops at two.
LEMMA OneMore ==
    ASSUME NEW count \in 0 .. 2
    PROVE  More(count) \in 0 .. 2 /\ (count = 0 => More(count) = 1)
BY MinOfTwo DEF More

\* The watchdog of a group lets the longest capture end.
LEMMA GroupWatched ==
    ASSUME NEW wait \in Int
    PROVE  /\ Max({StageTimeout["capture.begin"], wait + Estimate + 6}) \in Nat \ {0}
           /\ Max({StageTimeout["capture.begin"], wait + Estimate + 6}) >= StageTimeout["capture.begin"]
<1>1. PICK long \in Nat \ {0}, known \in Int :
          long = StageTimeout["capture.begin"] /\ known = wait + Estimate + 6
    BY Numbers
<1>2. Max({long, known}) \in Int /\ Max({long, known}) >= long
    BY <1>1, Later
<1>3. QED
    BY <1>1, <1>2

\* The window a loop works on is one of the eclipse's.
LEMMA WindowInHand ==
    ASSUME SchedulerIInv, pc \in Calls
    PROVE  /\ window \in DOMAIN Windows /\ window \in 1 .. 5
           /\ Windows[window].phase \in {"partial", "diamond", "totality"}
           /\ Windows[window].from \in Int /\ Windows[window].to \in Int
           /\ Windows[window].interval \in Nat
BY WindowKinds DEF SchedulerIInv, Types, Places

\* Waiting does not turn the clock back.
LEMMA WaitGoesOn ==
    ASSUME NEW n \in Nat, NEW t \in Int
    PROVE  Max({n, Min({t, n + 1})}) \in Nat /\ Max({n, Min({t, n + 1})}) >= n
<1>1. n \in Int /\ n + 1 \in Int
    OBVIOUS
<1>2. Min({t, n + 1}) \in Int
    BY <1>1, Earlier
<1>3. Max({n, Min({t, n + 1})}) \in Int /\ Max({n, Min({t, n + 1})}) >= n
    BY <1>1, <1>2, Later
<1>4. QED
    BY <1>3

\* The slot after a group is a moment of the run.
LEMMA NextSlotFits ==
    ASSUME SchedulerIInv, pc \in {"prepare", "trigger", "discard"}, now' \in Nat,
           NEW truncated \in BOOLEAN, truncated => pc = "trigger"
    PROVE  NextSlot(truncated) \in Int /\ NextSlot(truncated) >= Never
<1>1. /\ next \in Int /\ next >= Never /\ started \in Int /\ started >= Never
      /\ Windows[window].to \in Int /\ Windows[window].interval \in Nat
    BY WindowInHand DEF SchedulerIInv, Types, Clocks, Calls
<1>2. CASE truncated
    BY <1>1, <1>2 DEF NextSlot, SchedulerIInv, SlotInWindow, Never
<1>3. CASE ~truncated /\ Windows[window].interval > 0
    <2>1. Max({next, started}) \in Int /\ Max({next, started}) >= next
        BY <1>1, Later
    <2>2. QED
        BY <1>1, <1>3, <2>1 DEF NextSlot, Never
<1>4. CASE ~truncated /\ ~(Windows[window].interval > 0)
    <2>1. now' \in Int /\ started + 1 \in Int
        BY <1>1
    <2>2. Max({now', started + 1}) \in Int /\ Max({now', started + 1}) >= now'
        BY <2>1, Later
    <2>3. QED
        BY <1>4, <2>2 DEF NextSlot, Never
<1>5. QED
    BY <1>2, <1>3, <1>4

\* A group that may still fire does so inside its window, with the settings of its phase.
LEMMA FiresInWindow ==
    ASSUME SchedulerIInv, pc = "trigger", ~DeadlinePassed, kind' = kind, Fires
    PROVE  PhotosInTheirPhase'
<1>1. /\ now \in Nat /\ next \in Int /\ now >= Windows[window].from /\ next < Windows[window].to
      /\ camera = Windows[window].phase
    BY DEF SchedulerIInv, Types, Clocks, SlotInWindow
<1>2. window \in 1 .. 5 /\ Windows[window].from \in Int /\ Windows[window].to \in Int
    BY WindowInHand DEF Calls
<1>3. now < Windows[window].to
    BY <1>1, <1>2 DEF DeadlinePassed, Deadline
<1>4. PICK at \in Int : at = Max({now, next}) /\ at >= now /\ at \in {now, next}
    BY <1>1, Later
<1>5. Windows[window].from <= at /\ at < Windows[window].to
    BY <1>1, <1>2, <1>3, <1>4
<1>6. shot'.window = window /\ shot'.at = at /\ shot'.settings = camera
    BY <1>4 DEF Fires
<1>7. QED
    BY <1>1, <1>5, <1>6, WindowsStand DEF PhotosInTheirPhase, Contains

-----------------------------------------------------------------------------
(* What every action keeps *)

\* In the first state the scheduler reaches for the camera, and has done nothing.
LEMMA SchedulerStarts == SchedulerInit => SchedulerIInv
<1> SUFFICES ASSUME SchedulerInit PROVE SchedulerIInv
    OBVIOUS
<1>1. StageTimeout["startup"] \in Nat \ {0} /\ (1 - 1) * PingTimeout = 0
    BY Numbers
<1>2. Places
    BY DEF SchedulerInit, Places, CallsBegun, Calls
<1>3. Clocks
    BY <1>1 DEF SchedulerInit, Clocks, Never
<1>4. Flags
    BY DEF SchedulerInit, Flags
<1>5. PulseBeforeCall
    BY <1>1 DEF SchedulerInit, PulseBeforeCall
<1>6. QED
    BY <1>2, <1>3, <1>4, <1>5 DEF Types, SchedulerInit, SchedulerIInv, SlotInWindow,
        PhotosInTheirPhase, NoShot, WatchdogSparesRun, SignalsSeen, SignalsBoundCalls,
        EmergencyKnown

\* An answer begins the schedule, or Emergency Totality.
LEMMA PingEndsKeeps ==
    ASSUME SchedulerIInv, ~killed, NEW ok \in BOOLEAN, NEW d \in 0 .. CaptureTimeout, PingEnds(ok, d)
    PROVE  SchedulerIInv'
<1>1. Places'
    BY WindowsStand DEF PingEnds, Emergency, loopVars, historyVars, SchedulerIInv, Places,
        CallsBegun, Calls, Types
<1>2. Clocks'
    BY Numbers DEF PingEnds, Lasts, Emergency, Pulse, PulseWith, Silence, loopVars, SchedulerIInv,
        Never, Types, Clocks
<1>3. Flags'
    BY DEF PingEnds, loopVars, emergencyVars, signalVars, SchedulerIInv, Types, Flags
<1>4. SlotInWindow'
    BY DEF PingEnds, Lasts, loopVars, SchedulerIInv, SlotInWindow, Types, Clocks
<1>5. PhotosInTheirPhase'
    BY PhotosStand DEF PingEnds, historyVars, SchedulerIInv
<1>6. PulseBeforeCall' /\ WatchdogSparesRun'
    BY Numbers, WatchAssumption DEF PingEnds, Emergency, Pulse, PulseWith, Silence, SchedulerIInv,
        PulseBeforeCall, WatchdogSparesRun, Types, Places, Clocks
<1>7. SignalsSeen' /\ SignalsBoundCalls'
    BY DEF PingEnds, Emergency, signalVars, historyVars, SchedulerIInv, SignalsSeen, AfterLatePhoto,
        Late, SignalsBoundCalls, Types, Places
<1>8. EmergencyKnown'
    BY DEF PingEnds, emergencyVars, historyVars, SchedulerIInv, EmergencyKnown
<1>9. QED
    BY <1>1, <1>2, <1>3, <1>4, <1>5, <1>6, <1>7, <1>8 DEF SchedulerIInv, Types

\* The process ends.
LEMMA FinallyKeeps ==
    ASSUME SchedulerIInv, ~killed, Finally
    PROVE  SchedulerIInv'
<1>1. Places'
    BY WindowsStand DEF Finally, loopVars, historyVars, SchedulerIInv, Places, CallsBegun,
        Emergency, Calls, Types
<1>2. Clocks'
    BY DEF Finally, loopVars, watchVars, SchedulerIInv, Types, Clocks
<1>3. Flags'
    BY DEF Finally, loopVars, emergencyVars, SchedulerIInv, Types, Flags
<1>4. SlotInWindow'
    BY DEF Finally, loopVars, SchedulerIInv, SlotInWindow, Types, Clocks
<1>5. PhotosInTheirPhase'
    BY PhotosStand DEF Finally, historyVars, SchedulerIInv
<1>6. PulseBeforeCall' /\ WatchdogSparesRun'
    BY DEF Finally, watchVars, SchedulerIInv, PulseBeforeCall, WatchdogSparesRun, Types, Clocks
<1>7. SignalsSeen' /\ SignalsBoundCalls'
    BY DEF Finally, historyVars, SchedulerIInv, SignalsSeen, AfterLatePhoto, Late,
        SignalsBoundCalls, Types, Places
<1>8. EmergencyKnown'
    BY DEF Finally, emergencyVars, historyVars, SchedulerIInv, EmergencyKnown
<1>9. QED
    BY <1>1, <1>2, <1>3, <1>4, <1>5, <1>6, <1>7, <1>8 DEF SchedulerIInv, Types

\* The head of the loop looks at the signals before anything else.
LEMMA TopKeeps ==
    ASSUME SchedulerIInv, ~killed, Top
    PROVE  SchedulerIInv'
<1>a. PhaseAt(now) # 0 => PhaseAt(now) \in DOMAIN Windows /\ PhaseAt(now) \in 1 .. 5
    BY PhaseContains, WindowKinds DEF SchedulerIInv
<1>b. AlignedSlot(now) \in Nat /\ AlignedSlot(now) >= now
    BY SlotAligned DEF SchedulerIInv, Types, Clocks
<1>c. Max({now, Min({TStart, now + 1})}) \in Nat /\ Max({now, Min({TStart, now + 1})}) >= now
    BY Numbers, WaitGoesOn DEF SchedulerIInv, Types, Clocks
<1>1. Places'
    BY <1>a, WindowsStand, OneMore DEF Top, StopSeen, Leaves, loopVars, NoPhoto, NoShot, Abandon,
        Never, WaitUntil, EnterWindow, FirstCapture, BeginsSet, Emergency, Late, GoesOn,
        SchedulerIInv, Places, CallsBegun, Calls, Types
<1>2. Clocks'
    BY <1>b, <1>c, Numbers DEF Top, StopSeen, Leaves, Pulse, PulseWith, loopVars, NoShot, Abandon,
        Never, watchVars, WaitUntil, EnterWindow, FirstCapture, Emergency, Late, GoesOn,
        SchedulerIInv, Types, Clocks
<1>3. Flags'
    BY DEF Top, Leaves, loopVars, Abandon, WaitUntil, EnterWindow, emergencyVars, signalVars,
        SchedulerIInv, Types, Flags
<1>4. SlotInWindow'
    BY DEF Top, Leaves, loopVars, Abandon, WaitUntil, EnterWindow, GoesOn, SchedulerIInv,
        SlotInWindow, Types, Clocks
<1>5. PhotosInTheirPhase'
    BY PhotosStand DEF Top, Leaves, NoPhoto, Abandon, WaitUntil, EnterWindow, BeginsSet,
        SchedulerIInv
<1>6. PulseBeforeCall' /\ WatchdogSparesRun'
    BY Numbers, WatchAssumption DEF Top, StopSeen, Leaves, Pulse, PulseWith, NoShot, Abandon, Never,
        watchVars, WaitUntil, EnterWindow, FirstCapture, Emergency, Late, GoesOn, SchedulerIInv,
        PulseBeforeCall, WatchdogSparesRun, Types, Clocks
<1>7. SignalsSeen' /\ SignalsBoundCalls'
    BY OneMore DEF Top, StopSeen, Leaves, NoPhoto, NoShot, Abandon, Never, WaitUntil, EnterWindow,
        FirstCapture, BeginsSet, Emergency, Late, GoesOn, signalVars, SchedulerIInv, SignalsSeen,
        AfterLatePhoto, SignalsBoundCalls, Types, Places
<1>8. EmergencyKnown'
    BY DEF Top, Leaves, NoPhoto, Abandon, WaitUntil, EnterWindow, BeginsSet, GoesOn, emergencyVars,
        SchedulerIInv, EmergencyKnown
<1>9. QED
    BY <1>1, <1>2, <1>3, <1>4, <1>5, <1>6, <1>7, <1>8 DEF SchedulerIInv, Types

\* The first settings of a window need not succeed.
LEMMA EnterEndsKeeps ==
    ASSUME SchedulerIInv, ~killed, NEW ok \in BOOLEAN, NEW d \in 0 .. CaptureTimeout, EnterEnds(ok, d)
    PROVE  SchedulerIInv'
<1>a. /\ window \in 1 .. 5 /\ Windows[window].phase \in {"partial", "diamond", "totality"}
      /\ Windows[window].from \in Int /\ Windows[window].to \in Int
      /\ Windows[window].interval \in Nat
    BY WindowInHand DEF EnterEnds, Calls
<1>1. Places'
    BY <1>a, WindowsStand DEF EnterEnds, SetEnds, Emergency, historyVars, SchedulerIInv, Places,
        CallsBegun, Calls, Types
<1>2. Clocks'
    BY Numbers DEF EnterEnds, SetEnds, Lasts, Emergency, Pulse, PulseWith, Silence, SchedulerIInv,
        Never, Types, Clocks
<1>3. Flags'
    BY DEF EnterEnds, emergencyVars, signalVars, SchedulerIInv, Types, Flags
<1>4. SlotInWindow'
    BY DEF EnterEnds, SetEnds, Lasts, SchedulerIInv, SlotInWindow, Types, Clocks
<1>5. PhotosInTheirPhase'
    BY PhotosStand DEF EnterEnds, historyVars, SchedulerIInv
<1>6. PulseBeforeCall' /\ WatchdogSparesRun'
    BY Numbers, WatchAssumption DEF EnterEnds, Emergency, Pulse, PulseWith, Silence, SchedulerIInv,
        PulseBeforeCall, WatchdogSparesRun, Types, Clocks
<1>7. SignalsSeen' /\ SignalsBoundCalls'
    BY DEF EnterEnds, Emergency, signalVars, historyVars, SchedulerIInv, SignalsSeen,
        AfterLatePhoto, Late, SignalsBoundCalls, Types, Places
<1>8. EmergencyKnown'
    BY DEF EnterEnds, emergencyVars, historyVars, SchedulerIInv, EmergencyKnown
<1>9. QED
    BY <1>1, <1>2, <1>3, <1>4, <1>5, <1>6, <1>7, <1>8 DEF SchedulerIInv, Types

\* A SET is begun for a slot of the window that contains this moment.
LEMMA SlotKeeps ==
    ASSUME SchedulerIInv, ~killed, Slot
    PROVE  SchedulerIInv'
<1>a. /\ window \in 1 .. 5 /\ Windows[window].phase \in {"partial", "diamond", "totality"}
      /\ Windows[window].from \in Int /\ Windows[window].to \in Int
      /\ Windows[window].interval \in Nat
    BY WindowInHand DEF Slot, Calls
<1>b. PICK first \in Int : first = PrepareAt
    <2>1. next - Lead \in Int
        BY Numbers DEF SchedulerIInv, Types, Clocks
    <2>2. QED
        BY <1>a, <2>1, Later DEF PrepareAt
<1>c. PICK until \in Int : until = Min({PrepareAt, Windows[window].to})
    BY <1>a, <1>b, Earlier
<1>d. /\ Max({now, Min({Windows[window].to, now + 1})}) \in Nat
      /\ Max({now, Min({Windows[window].to, now + 1})}) >= now
      /\ Max({now, Min({until, now + 1})}) \in Nat /\ Max({now, Min({until, now + 1})}) >= now
    BY <1>a, <1>c, WaitGoesOn DEF SchedulerIInv, Types, Clocks
<1>1. Places'
    BY WindowsStand, OneMore DEF Slot, WaitUntil, loopVars, NoPhoto, NoShot, PrepareAt, Contains,
        GoesOn, BeginsSet, Emergency, Late, SchedulerIInv, Places, CallsBegun, Calls, Types
<1>2. Clocks'
    BY <1>a, <1>c, <1>d, Numbers DEF Slot, WaitUntil, Pulse, PulseWith, loopVars, NoShot, Contains,
        GoesOn, watchVars, Emergency, Late, SchedulerIInv, Types, Clocks, Never
<1>3. Flags'
    BY DEF Slot, WaitUntil, loopVars, emergencyVars, signalVars, SchedulerIInv, Types, Flags
<1>4. SlotInWindow'
    BY <1>a, WindowsStand DEF Slot, WaitUntil, loopVars, NoShot, PrepareAt, Contains, GoesOn,
        Emergency, Late, SchedulerIInv, SlotInWindow, Types, Clocks
<1>5. PhotosInTheirPhase'
    BY PhotosStand DEF Slot, WaitUntil, NoPhoto, BeginsSet, SchedulerIInv
<1>6. PulseBeforeCall' /\ WatchdogSparesRun'
    BY Numbers, WatchAssumption DEF Slot, WaitUntil, Pulse, PulseWith, NoShot, PrepareAt, Contains,
        GoesOn, watchVars, Emergency, Late, SchedulerIInv, PulseBeforeCall, WatchdogSparesRun,
        Types, Clocks
<1>7. SignalsSeen' /\ SignalsBoundCalls'
    BY OneMore DEF Slot, WaitUntil, NoPhoto, NoShot, PrepareAt, Contains, GoesOn, BeginsSet,
        Emergency, Late, signalVars, SchedulerIInv, SignalsSeen, AfterLatePhoto, SignalsBoundCalls,
        Types, Places
<1>8. EmergencyKnown'
    BY DEF Slot, WaitUntil, NoPhoto, GoesOn, BeginsSet, emergencyVars, SchedulerIInv, EmergencyKnown
<1>9. QED
    BY <1>1, <1>2, <1>3, <1>4, <1>5, <1>6, <1>7, <1>8 DEF SchedulerIInv, Types

\* A SET that succeeded leaves the settings of the phase.
LEMMA ReconcileEndsKeeps ==
    ASSUME SchedulerIInv, ~killed, NEW ok \in BOOLEAN, NEW d \in 0 .. CaptureTimeout, ReconcileEnds(ok, d)
    PROVE  SchedulerIInv'
<1>a. /\ window \in 1 .. 5 /\ Windows[window].phase \in {"partial", "diamond", "totality"}
      /\ Windows[window].from \in Int /\ Windows[window].to \in Int
      /\ Windows[window].interval \in Nat
    BY WindowInHand DEF ReconcileEnds, Calls
<1>1. Places'
    BY <1>a, WindowsStand DEF ReconcileEnds, SetEnds, Emergency, historyVars, SchedulerIInv, Places,
        CallsBegun, Calls, Types
<1>2. Clocks'
    BY Numbers DEF ReconcileEnds, SetEnds, Lasts, Emergency, Pulse, PulseWith, Silence,
        SchedulerIInv, Never, Types, Clocks
<1>3. Flags'
    BY DEF ReconcileEnds, emergencyVars, signalVars, SchedulerIInv, Types, Flags
<1>4. SlotInWindow'
    BY <1>a, WindowsStand DEF ReconcileEnds, SetEnds, Lasts, Emergency, SchedulerIInv, SlotInWindow,
        Types, Clocks
<1>5. PhotosInTheirPhase'
    BY PhotosStand DEF ReconcileEnds, historyVars, SchedulerIInv
<1>6. PulseBeforeCall' /\ WatchdogSparesRun'
    BY Numbers, WatchAssumption DEF ReconcileEnds, Emergency, Pulse, PulseWith, Silence,
        SchedulerIInv, PulseBeforeCall, WatchdogSparesRun, Types, Clocks
<1>7. SignalsSeen' /\ SignalsBoundCalls'
    BY DEF ReconcileEnds, Emergency, signalVars, historyVars, SchedulerIInv, SignalsSeen,
        AfterLatePhoto, Late, SignalsBoundCalls, Types, Places
<1>8. EmergencyKnown'
    BY DEF ReconcileEnds, emergencyVars, historyVars, SchedulerIInv, EmergencyKnown
<1>9. QED
    BY <1>1, <1>2, <1>3, <1>4, <1>5, <1>6, <1>7, <1>8 DEF SchedulerIInv, Types

\* After the SET the loop looks at the override, the window and the settings again.
LEMMA RecheckKeeps ==
    ASSUME SchedulerIInv, ~killed, Recheck
    PROVE  SchedulerIInv'
<1>a. /\ window \in 1 .. 5 /\ Windows[window].phase \in {"partial", "diamond", "totality"}
      /\ Windows[window].from \in Int /\ Windows[window].to \in Int
      /\ Windows[window].interval \in Nat
    BY WindowInHand DEF Recheck, Calls
<1>b. AfterSkip \in Nat
    <2>1. PICK pause \in Nat : pause = Windows[window].interval
        BY <1>a
    <2>2. Max({1, pause}) \in Int /\ Max({1, pause}) >= 1
        BY <2>1, Later
    <2>3. QED
        BY <2>1, <2>2 DEF AfterSkip, SchedulerIInv, Types, Clocks
<1>1. Places'
    BY WindowsStand, OneMore DEF Recheck, Overridden, Abandon, NoPhoto, NoShot, Never, Contains,
        GoesOn, loopVars, SkipsSlot, AfterSkip, historyVars, BeginsPhoto, Emergency, SchedulerIInv,
        Places, CallsBegun, Calls, Types
<1>2. Clocks'
    BY <1>b, Numbers DEF Recheck, Overridden, Abandon, NoShot, Never, watchVars, Contains, GoesOn,
        loopVars, SkipsSlot, Pulse, PulseWith, Emergency, SchedulerIInv, Types, Clocks
<1>3. Flags'
    BY DEF Recheck, Abandon, loopVars, emergencyVars, signalVars, SchedulerIInv, Types, Flags
<1>4. SlotInWindow'
    BY WindowsStand DEF Recheck, Overridden, Abandon, NoShot, Never, Contains, GoesOn, loopVars,
        SkipsSlot, AfterSkip, Emergency, SchedulerIInv, SlotInWindow, Types, Clocks
<1>5. PhotosInTheirPhase'
    BY PhotosStand DEF Recheck, Abandon, NoPhoto, historyVars, BeginsPhoto, SchedulerIInv
<1>6. PulseBeforeCall' /\ WatchdogSparesRun'
    BY Numbers, WatchAssumption DEF Recheck, Overridden, Abandon, NoShot, Never, watchVars,
        Contains, GoesOn, SkipsSlot, AfterSkip, Pulse, PulseWith, Emergency, SchedulerIInv,
        PulseBeforeCall, WatchdogSparesRun, Types, Clocks
<1>7. SignalsSeen' /\ SignalsBoundCalls'
    BY OneMore DEF Recheck, Overridden, Abandon, NoPhoto, NoShot, Never, Contains, GoesOn,
        SkipsSlot, AfterSkip, historyVars, BeginsPhoto, Emergency, signalVars, SchedulerIInv,
        SignalsSeen, AfterLatePhoto, Late, SignalsBoundCalls, Types, Places
<1>8. EmergencyKnown'
    BY DEF Recheck, Abandon, NoPhoto, GoesOn, historyVars, BeginsPhoto, emergencyVars,
        SchedulerIInv, EmergencyKnown
<1>9. QED
    BY <1>1, <1>2, <1>3, <1>4, <1>5, <1>6, <1>7, <1>8 DEF SchedulerIInv, Types

\* A prepared group waits for its target under a watchdog that lets it.
LEMMA PrepareEndsKeeps ==
    ASSUME SchedulerIInv, ~killed, NEW ok \in BOOLEAN, NEW d \in 0 .. CaptureTimeout, PrepareEnds(ok, d)
    PROVE  SchedulerIInv'
<1>a. /\ window \in 1 .. 5 /\ Windows[window].phase \in {"partial", "diamond", "totality"}
      /\ Windows[window].from \in Int /\ Windows[window].to \in Int
      /\ Windows[window].interval \in Nat
    BY WindowInHand DEF PrepareEnds, Calls
<1>b. now' \in Nat
    BY DEF PrepareEnds, Lasts, Emergency, SchedulerIInv, Types, Clocks
<1>c. PICK longest \in Nat \ {0} :
          /\ longest = Max({StageTimeout["capture.begin"], Max({0, next - now'}) + Estimate + 6})
          /\ longest >= StageTimeout["capture.begin"]
    <2>1. next - now' \in Int /\ 0 \in Int
        BY <1>b DEF SchedulerIInv, Types, Clocks
    <2>2. Max({0, next - now'}) \in Int
        BY <2>1, Later
    <2>3. QED
        BY <2>2, GroupWatched
<1>d. GroupEnds(FALSE) => next' \in Int /\ next' >= Never /\ started' = Never /\ current' = current
    <2>1. NextSlot(FALSE) \in Int /\ NextSlot(FALSE) >= Never
        BY <1>b, NextSlotFits DEF PrepareEnds
    <2>2. QED
        BY <2>1 DEF GroupEnds
<1>1. Places'
    BY WindowsStand DEF PrepareEnds, Emergency, loopVars, GroupEnds, Never, historyVars,
        SchedulerIInv, Places, CallsBegun, Calls, Types
<1>2. Clocks'
    <2>1. now' >= now
        BY DEF PrepareEnds, Lasts, Emergency, SchedulerIInv, Types, Clocks
    <2>2. CASE ok
        BY <1>b, <1>c, <2>1, <2>2 DEF PrepareEnds, CaptureWatch, PulseWith, loopVars, emergencyVars,
            signalVars, historyVars, SchedulerIInv, Types, Clocks
    <2>3. CASE ~ok
        BY <1>b, <1>d, <2>1, <2>3, Numbers DEF PrepareEnds, loopVars, Pulse, PulseWith,
            emergencyVars, signalVars, historyVars, SchedulerIInv, Types, Clocks, Never
    <2>4. QED
        BY <2>2, <2>3
<1>3. Flags'
    BY DEF PrepareEnds, loopVars, GroupEnds, emergencyVars, signalVars, SchedulerIInv, Types, Flags
<1>4. SlotInWindow'
    BY <1>a, WindowsStand DEF PrepareEnds, Lasts, Emergency, loopVars, GroupEnds, NextSlot, Never,
        SchedulerIInv, SlotInWindow, Types, Clocks
<1>5. PhotosInTheirPhase'
    BY PhotosStand DEF PrepareEnds, historyVars, SchedulerIInv
<1>6. PulseBeforeCall' /\ WatchdogSparesRun'
    BY <1>c, Numbers, WatchAssumption DEF PrepareEnds, Emergency, CaptureWatch, PulseWith, Pulse,
        GroupEnds, SchedulerIInv, Types, Clocks, PulseBeforeCall, WatchdogSparesRun
<1>7. SignalsSeen' /\ SignalsBoundCalls'
    BY DEF PrepareEnds, Emergency, GroupEnds, Never, signalVars, historyVars, SchedulerIInv,
        SignalsSeen, AfterLatePhoto, Late, SignalsBoundCalls, Types, Places
<1>8. EmergencyKnown'
    BY DEF PrepareEnds, GroupEnds, emergencyVars, historyVars, SchedulerIInv, EmergencyKnown
<1>9. QED
    BY <1>1, <1>2, <1>3, <1>4, <1>5, <1>6, <1>7, <1>8 DEF SchedulerIInv, Types

\* The photos are fired inside the window.
LEMMA TriggerAnswersKeeps ==
    ASSUME SchedulerIInv, ~killed, NEW truncated \in BOOLEAN, NEW d \in 0 .. CaptureTimeout, TriggerAnswers(truncated, d)
    PROVE  SchedulerIInv'
<1>b. now' \in Nat /\ kind' = kind
    BY DEF TriggerAnswers, Lasts, Emergency, SchedulerIInv, Types, Clocks
<1>c. NextSlot(truncated) \in Int /\ NextSlot(truncated) >= Never
    BY <1>b, NextSlotFits DEF TriggerAnswers
<1>1. Places'
    BY WindowsStand DEF TriggerAnswers, DeadlinePassed, Deadline, TriggerTimeout, Emergency,
        GroupEnds, Never, Fires, historyVars, SchedulerIInv, Places, CallsBegun, Calls, Types
<1>2. Clocks'
    BY <1>b, <1>c, Numbers DEF TriggerAnswers, DeadlinePassed, Deadline, TriggerTimeout, Emergency,
        Lasts, Pulse, PulseWith, GroupEnds, Never, SchedulerIInv, Types, Clocks
<1>3. Flags'
    BY DEF TriggerAnswers, GroupEnds, emergencyVars, signalVars, SchedulerIInv, Types, Flags
<1>4. SlotInWindow'
    BY DEF TriggerAnswers, Lasts, GroupEnds, NextSlot, SchedulerIInv, SlotInWindow, Types, Clocks
<1>5. PhotosInTheirPhase'
    <2>1. CASE Fires
        BY <2>1, FiresInWindow DEF TriggerAnswers
    <2>2. CASE UNCHANGED historyVars
        BY <2>2, PhotosStand DEF TriggerAnswers, historyVars, SchedulerIInv
    <2>3. QED
        BY <2>1, <2>2 DEF TriggerAnswers
<1>6. PulseBeforeCall' /\ WatchdogSparesRun'
    BY Numbers, WatchAssumption DEF TriggerAnswers, DeadlinePassed, Deadline, TriggerTimeout,
        Emergency, Pulse, PulseWith, GroupEnds, Never, SchedulerIInv, PulseBeforeCall,
        WatchdogSparesRun, Types, Clocks
<1>7. SignalsSeen' /\ SignalsBoundCalls'
    BY DEF TriggerAnswers, DeadlinePassed, Deadline, TriggerTimeout, Emergency, GroupEnds, Never,
        Fires, historyVars, signalVars, SchedulerIInv, SignalsSeen, AfterLatePhoto, Late,
        SignalsBoundCalls, Types, Places
<1>8. EmergencyKnown'
    BY DEF TriggerAnswers, GroupEnds, Fires, historyVars, emergencyVars, SchedulerIInv,
        EmergencyKnown
<1>9. QED
    BY <1>1, <1>2, <1>3, <1>4, <1>5, <1>6, <1>7, <1>8 DEF SchedulerIInv, Types

\* A group that failed may have fired, inside the window.
LEMMA TriggerFailsKeeps ==
    ASSUME SchedulerIInv, ~killed, NEW d \in 0 .. CaptureTimeout, TriggerFails(d)
    PROVE  SchedulerIInv'
<1>1. Places'
    BY WindowsStand DEF TriggerFails, DeadlinePassed, Deadline, historyVars, TriggerTimeout,
        Emergency, Fires, loopVars, SchedulerIInv, Places, CallsBegun, Calls, Types
<1>2. Clocks'
    BY DEF TriggerFails, Lasts, Silence, loopVars, SchedulerIInv, Types, Clocks
<1>3. Flags'
    BY DEF TriggerFails, loopVars, emergencyVars, signalVars, SchedulerIInv, Types, Flags
<1>4. SlotInWindow'
    BY DEF TriggerFails, Lasts, loopVars, SchedulerIInv, SlotInWindow, Types, Clocks
<1>5. PhotosInTheirPhase'
    <2>1. CASE ~DeadlinePassed /\ Fires
        BY <2>1, FiresInWindow DEF TriggerFails
    <2>2. CASE UNCHANGED historyVars
        BY <2>2, PhotosStand DEF TriggerFails, historyVars, SchedulerIInv
    <2>3. QED
        BY <2>1, <2>2 DEF TriggerFails
<1>6. PulseBeforeCall' /\ WatchdogSparesRun'
    BY DEF TriggerFails, DeadlinePassed, Deadline, TriggerTimeout, Emergency, Silence,
        SchedulerIInv, PulseBeforeCall, WatchdogSparesRun, Types, Clocks
<1>7. SignalsSeen' /\ SignalsBoundCalls'
    BY DEF TriggerFails, DeadlinePassed, Deadline, historyVars, TriggerTimeout, Emergency, Fires,
        signalVars, SchedulerIInv, SignalsSeen, AfterLatePhoto, Late, SignalsBoundCalls, Types,
        Places
<1>8. EmergencyKnown'
    BY DEF TriggerFails, historyVars, Fires, emergencyVars, SchedulerIInv, EmergencyKnown
<1>9. QED
    BY <1>1, <1>2, <1>3, <1>4, <1>5, <1>6, <1>7, <1>8 DEF SchedulerIInv, Types

\* The token is discarded, and the group is over.
LEMMA DiscardEndsKeeps ==
    ASSUME SchedulerIInv, ~killed, NEW d \in 0 .. CaptureTimeout, DiscardEnds(d)
    PROVE  SchedulerIInv'
<1>b. now' \in Nat
    BY DEF DiscardEnds, Lasts, Emergency, SchedulerIInv, Types, Clocks
<1>c. GroupEnds(FALSE) => next' \in Int /\ next' >= Never /\ started' = Never /\ current' = current
    <2>1. NextSlot(FALSE) \in Int /\ NextSlot(FALSE) >= Never
        BY <1>b, NextSlotFits DEF DiscardEnds
    <2>2. QED
        BY <2>1 DEF GroupEnds
<1>1. Places'
    BY WindowsStand DEF DiscardEnds, Emergency, GroupEnds, Never, historyVars, SchedulerIInv,
        Places, CallsBegun, Calls, Types
<1>2. Clocks'
    BY <1>b, <1>c, Numbers DEF DiscardEnds, Lasts, Emergency, Pulse, PulseWith, SchedulerIInv,
        Types, Clocks, Never
<1>3. Flags'
    BY DEF DiscardEnds, GroupEnds, emergencyVars, signalVars, SchedulerIInv, Types, Flags
<1>4. SlotInWindow'
    BY DEF DiscardEnds, Lasts, GroupEnds, NextSlot, SchedulerIInv, SlotInWindow, Types, Clocks
<1>5. PhotosInTheirPhase'
    BY PhotosStand DEF DiscardEnds, historyVars, SchedulerIInv
<1>6. PulseBeforeCall' /\ WatchdogSparesRun'
    BY Numbers, WatchAssumption DEF DiscardEnds, Emergency, Pulse, PulseWith, GroupEnds, Never,
        SchedulerIInv, PulseBeforeCall, WatchdogSparesRun, Types, Clocks
<1>7. SignalsSeen' /\ SignalsBoundCalls'
    BY DEF DiscardEnds, Emergency, GroupEnds, Never, signalVars, historyVars, SchedulerIInv,
        SignalsSeen, AfterLatePhoto, Late, SignalsBoundCalls, Types, Places
<1>8. EmergencyKnown'
    BY DEF DiscardEnds, GroupEnds, emergencyVars, historyVars, SchedulerIInv, EmergencyKnown
<1>9. QED
    BY <1>1, <1>2, <1>3, <1>4, <1>5, <1>6, <1>7, <1>8 DEF SchedulerIInv, Types

\* A configuration that is refused ends the process.
LEMMA EmergencyRefusedKeeps ==
    ASSUME SchedulerIInv, ~killed, EmergencyRefused
    PROVE  SchedulerIInv'
<1>1. Places'
    BY WindowsStand DEF EmergencyRefused, EUnchanged, loopVars, historyVars, SchedulerIInv, Places,
        CallsBegun, Emergency, Calls, Types
<1>2. Clocks'
    BY Numbers DEF EmergencyRefused, Pulse, PulseWith, EUnchanged, loopVars, SchedulerIInv, Never,
        Types, Clocks
<1>3. Flags'
    BY DEF EmergencyRefused, EUnchanged, loopVars, signalVars, emergencyVars, SchedulerIInv, Types,
        Flags
<1>4. SlotInWindow'
    BY DEF EmergencyRefused, EUnchanged, loopVars, SchedulerIInv, SlotInWindow, Types, Clocks
<1>5. PhotosInTheirPhase'
    BY PhotosStand DEF EmergencyRefused, EUnchanged, historyVars, SchedulerIInv
<1>6. PulseBeforeCall' /\ WatchdogSparesRun'
    BY Numbers, WatchAssumption DEF EmergencyRefused, Pulse, PulseWith, EUnchanged, SchedulerIInv,
        PulseBeforeCall, WatchdogSparesRun, Types, Clocks
<1>7. SignalsSeen' /\ SignalsBoundCalls'
    BY DEF EmergencyRefused, EUnchanged, signalVars, historyVars, SchedulerIInv, SignalsSeen,
        AfterLatePhoto, Late, SignalsBoundCalls, Types, Places
<1>8. EmergencyKnown'
    BY DEF EmergencyRefused, emergencyVars, historyVars, SchedulerIInv, EmergencyKnown
<1>9. QED
    BY <1>1, <1>2, <1>3, <1>4, <1>5, <1>6, <1>7, <1>8 DEF SchedulerIInv, Types

\* Emergency Totality begins with a SET.
LEMMA EmergencyStartKeeps ==
    ASSUME SchedulerIInv, ~killed, EmergencyStart
    PROVE  SchedulerIInv'
<1>1. Places'
    BY WindowsStand, OneMore DEF EmergencyStart, BeginsSet, NoShot, Emergency, Late, EUnchanged,
        loopVars, SchedulerIInv, Places, CallsBegun, Calls, Types
<1>2. Clocks'
    BY Numbers DEF EmergencyStart, Pulse, PulseWith, NoShot, Emergency, Late, EUnchanged, loopVars,
        SchedulerIInv, Never, Types, Clocks
<1>3. Flags'
    BY DEF EmergencyStart, EUnchanged, loopVars, signalVars, SchedulerIInv, Types, Flags
<1>4. SlotInWindow'
    BY DEF EmergencyStart, EUnchanged, loopVars, SchedulerIInv, SlotInWindow, Types, Clocks
<1>5. PhotosInTheirPhase'
    BY PhotosStand DEF EmergencyStart, BeginsSet, EUnchanged, SchedulerIInv
<1>6. PulseBeforeCall' /\ WatchdogSparesRun'
    BY Numbers, WatchAssumption DEF EmergencyStart, Pulse, PulseWith, NoShot, Emergency, Late,
        EUnchanged, SchedulerIInv, PulseBeforeCall, WatchdogSparesRun, Types, Clocks
<1>7. SignalsSeen' /\ SignalsBoundCalls'
    BY OneMore DEF EmergencyStart, BeginsSet, NoShot, Emergency, Late, EUnchanged, signalVars,
        SchedulerIInv, SignalsSeen, AfterLatePhoto, SignalsBoundCalls, Types, Places
<1>8. EmergencyKnown'
    BY DEF EmergencyStart, BeginsSet, NoShot, Emergency, Late, SchedulerIInv, EmergencyKnown
<1>9. QED
    BY <1>1, <1>2, <1>3, <1>4, <1>5, <1>6, <1>7, <1>8 DEF SchedulerIInv, Types

\* The first SET need not succeed.
LEMMA EmergencySetupEndsKeeps ==
    ASSUME SchedulerIInv, ~killed, NEW ok \in BOOLEAN, NEW d \in 0 .. CaptureTimeout, EmergencySetupEnds(ok, d)
    PROVE  SchedulerIInv'
<1>1. Places'
    BY WindowsStand DEF EmergencySetupEnds, SetEnds, Emergency, EUnchanged, loopVars, historyVars,
        SchedulerIInv, Places, CallsBegun, Calls, Types
<1>2. Clocks'
    BY Numbers DEF EmergencySetupEnds, SetEnds, Lasts, Emergency, Pulse, PulseWith, EUnchanged,
        loopVars, SchedulerIInv, Never, Types, Clocks
<1>3. Flags'
    BY DEF EmergencySetupEnds, EUnchanged, loopVars, signalVars, SchedulerIInv, Types, Flags
<1>4. SlotInWindow'
    BY DEF EmergencySetupEnds, SetEnds, Lasts, EUnchanged, loopVars, SchedulerIInv, SlotInWindow,
        Types, Clocks
<1>5. PhotosInTheirPhase'
    BY PhotosStand DEF EmergencySetupEnds, EUnchanged, historyVars, SchedulerIInv
<1>6. PulseBeforeCall' /\ WatchdogSparesRun'
    BY Numbers, WatchAssumption DEF EmergencySetupEnds, Emergency, Pulse, PulseWith, EUnchanged,
        SchedulerIInv, PulseBeforeCall, WatchdogSparesRun, Types, Clocks
<1>7. SignalsSeen' /\ SignalsBoundCalls'
    BY DEF EmergencySetupEnds, Emergency, EUnchanged, signalVars, historyVars, SchedulerIInv,
        SignalsSeen, AfterLatePhoto, Late, SignalsBoundCalls, Types, Places
<1>8. EmergencyKnown'
    BY DEF EmergencySetupEnds, historyVars, SchedulerIInv, EmergencyKnown
<1>9. QED
    BY <1>1, <1>2, <1>3, <1>4, <1>5, <1>6, <1>7, <1>8 DEF SchedulerIInv, Types

\* The head of the emergency loop looks at the STOP before anything else.
LEMMA EmergencyTopKeeps ==
    ASSUME SchedulerIInv, ~killed, EmergencyTop
    PROVE  SchedulerIInv'
<1>1. Places'
    BY WindowsStand, OneMore DEF EmergencyTop, StopSeen, historyVars, EmergencyPhoto, BeginsPhoto,
        NoShot, Emergency, BeginsSet, Late, EUnchanged, loopVars, SchedulerIInv, Places, CallsBegun,
        Calls, Types
<1>2. Clocks'
    BY Numbers DEF EmergencyTop, StopSeen, Pulse, PulseWith, EmergencyPhoto, NoShot, Emergency,
        Late, watchVars, EUnchanged, loopVars, SchedulerIInv, Never, Types, Clocks
<1>3. Flags'
    BY DEF EmergencyTop, EUnchanged, loopVars, signalVars, emergencyVars, SchedulerIInv, Types,
        Flags
<1>4. SlotInWindow'
    BY DEF EmergencyTop, EmergencyPhoto, EUnchanged, loopVars, SchedulerIInv, SlotInWindow, Types,
        Clocks
<1>5. PhotosInTheirPhase'
    BY PhotosStand DEF EmergencyTop, historyVars, EmergencyPhoto, BeginsPhoto, BeginsSet,
        EUnchanged, SchedulerIInv
<1>6. PulseBeforeCall' /\ WatchdogSparesRun'
    BY Numbers, WatchAssumption DEF EmergencyTop, StopSeen, Pulse, PulseWith, EmergencyPhoto,
        NoShot, Emergency, Late, watchVars, EUnchanged, SchedulerIInv, PulseBeforeCall,
        WatchdogSparesRun, Types, Clocks
<1>7. SignalsSeen' /\ SignalsBoundCalls'
    BY OneMore DEF EmergencyTop, StopSeen, historyVars, EmergencyPhoto, BeginsPhoto, NoShot,
        Emergency, BeginsSet, Late, EUnchanged, signalVars, SchedulerIInv, SignalsSeen,
        AfterLatePhoto, SignalsBoundCalls, Types, Places
<1>8. EmergencyKnown'
    BY DEF EmergencyTop, StopSeen, historyVars, EmergencyPhoto, BeginsPhoto, NoShot, Emergency,
        BeginsSet, Late, emergencyVars, SchedulerIInv, EmergencyKnown
<1>9. QED
    BY <1>1, <1>2, <1>3, <1>4, <1>5, <1>6, <1>7, <1>8 DEF SchedulerIInv, Types

\* An initialization is followed by a photo, whatever it gave.
LEMMA EmergencyInitEndsKeeps ==
    ASSUME SchedulerIInv, ~killed, NEW ok \in BOOLEAN, NEW d \in 0 .. CaptureTimeout, EmergencyInitEnds(ok, d)
    PROVE  SchedulerIInv'
<1>1. Places'
    BY WindowsStand, OneMore DEF EmergencyInitEnds, SetEnds, Emergency, EmergencyPhoto, BeginsPhoto,
        NoShot, EUnchanged, loopVars, SchedulerIInv, Places, CallsBegun, Calls, Types
<1>2. Clocks'
    BY Numbers DEF EmergencyInitEnds, SetEnds, Lasts, Emergency, EmergencyPhoto, Pulse, PulseWith,
        NoShot, EUnchanged, loopVars, SchedulerIInv, Never, Types, Clocks
<1>3. Flags'
    BY DEF EmergencyInitEnds, EUnchanged, loopVars, signalVars, SchedulerIInv, Types, Flags
<1>4. SlotInWindow'
    BY DEF EmergencyInitEnds, SetEnds, Lasts, EmergencyPhoto, EUnchanged, loopVars, SchedulerIInv,
        SlotInWindow, Types, Clocks
<1>5. PhotosInTheirPhase'
    BY PhotosStand DEF EmergencyInitEnds, EmergencyPhoto, BeginsPhoto, EUnchanged, SchedulerIInv
<1>6. PulseBeforeCall' /\ WatchdogSparesRun'
    BY Numbers, WatchAssumption DEF EmergencyInitEnds, Emergency, EmergencyPhoto, Pulse, PulseWith,
        NoShot, EUnchanged, SchedulerIInv, PulseBeforeCall, WatchdogSparesRun, Types, Clocks
<1>7. SignalsSeen' /\ SignalsBoundCalls'
    BY OneMore DEF EmergencyInitEnds, Emergency, EmergencyPhoto, BeginsPhoto, NoShot, EUnchanged,
        signalVars, SchedulerIInv, SignalsSeen, AfterLatePhoto, Late, SignalsBoundCalls, Types,
        Places
<1>8. EmergencyKnown'
    BY DEF EmergencyInitEnds, Emergency, EmergencyPhoto, BeginsPhoto, NoShot, SchedulerIInv,
        EmergencyKnown
<1>9. QED
    BY <1>1, <1>2, <1>3, <1>4, <1>5, <1>6, <1>7, <1>8 DEF SchedulerIInv, Types

\* A photo is prepared, or the next one is preceded by a SET.
LEMMA EmergencyPrepareEndsKeeps ==
    ASSUME SchedulerIInv, ~killed, NEW ok \in BOOLEAN, NEW d \in 0 .. CaptureTimeout, EmergencyPrepareEnds(ok, d)
    PROVE  SchedulerIInv'
<1>a. /\ Max({StageTimeout["capture.begin"], 0 + Estimate + 6}) \in Nat \ {0}
      /\ Max({StageTimeout["capture.begin"], 0 + Estimate + 6}) >= StageTimeout["capture.begin"]
    BY GroupWatched
<1>1. Places'
    BY WindowsStand DEF EmergencyPrepareEnds, Emergency, EmergencyFails, EUnchanged, loopVars,
        historyVars, SchedulerIInv, Places, CallsBegun, Calls, Types
<1>2. Clocks'
    BY <1>a, Numbers DEF EmergencyPrepareEnds, Lasts, Emergency, CaptureWatch, PulseWith,
        EmergencyFails, Pulse, EUnchanged, loopVars, SchedulerIInv, Never, Types, Clocks
<1>3. Flags'
    BY DEF EmergencyPrepareEnds, emergencyVars, EmergencyFails, EUnchanged, loopVars, signalVars,
        SchedulerIInv, Types, Flags
<1>4. SlotInWindow'
    BY DEF EmergencyPrepareEnds, Lasts, EmergencyFails, EUnchanged, loopVars, SchedulerIInv,
        SlotInWindow, Types, Clocks
<1>5. PhotosInTheirPhase'
    BY PhotosStand DEF EmergencyPrepareEnds, EUnchanged, historyVars, SchedulerIInv
<1>6. PulseBeforeCall' /\ WatchdogSparesRun'
    BY <1>a, Numbers, WatchAssumption DEF EmergencyPrepareEnds, Emergency, CaptureWatch, PulseWith,
        EmergencyFails, Pulse, EUnchanged, SchedulerIInv, PulseBeforeCall, WatchdogSparesRun, Types,
        Clocks
<1>7. SignalsSeen' /\ SignalsBoundCalls'
    BY DEF EmergencyPrepareEnds, Emergency, EmergencyFails, EUnchanged, signalVars, historyVars,
        SchedulerIInv, SignalsSeen, AfterLatePhoto, Late, SignalsBoundCalls, Types, Places
<1>8. EmergencyKnown'
    BY DEF EmergencyPrepareEnds, emergencyVars, EmergencyFails, historyVars, SchedulerIInv,
        EmergencyKnown
<1>9. QED
    BY <1>1, <1>2, <1>3, <1>4, <1>5, <1>6, <1>7, <1>8 DEF SchedulerIInv, Types

\* A photo is taken, or its token is discarded.
LEMMA EmergencyTriggerEndsKeeps ==
    ASSUME SchedulerIInv, ~killed, NEW ok \in BOOLEAN, NEW d \in 0 .. CaptureTimeout, EmergencyTriggerEnds(ok, d)
    PROVE  SchedulerIInv'
<1>1. Places'
    BY WindowsStand DEF EmergencyTriggerEnds, Emergency, AfterPhoto, EUnchanged, loopVars,
        historyVars, SchedulerIInv, Places, CallsBegun, Calls, Types
<1>2. Clocks'
    BY Numbers DEF EmergencyTriggerEnds, Lasts, Emergency, Pulse, PulseWith, AfterPhoto, Silence,
        EUnchanged, loopVars, SchedulerIInv, Never, Types, Clocks
<1>3. Flags'
    BY DEF EmergencyTriggerEnds, Emergency, AfterPhoto, EUnchanged, loopVars, signalVars,
        SchedulerIInv, Types, Flags
<1>4. SlotInWindow'
    BY DEF EmergencyTriggerEnds, Lasts, EUnchanged, loopVars, SchedulerIInv, SlotInWindow, Types,
        Clocks
<1>5. PhotosInTheirPhase'
    BY PhotosStand DEF EmergencyTriggerEnds, EUnchanged, historyVars, SchedulerIInv
<1>6. PulseBeforeCall' /\ WatchdogSparesRun'
    BY Numbers, WatchAssumption DEF EmergencyTriggerEnds, Emergency, Pulse, PulseWith, AfterPhoto,
        Silence, EUnchanged, SchedulerIInv, PulseBeforeCall, WatchdogSparesRun, Types, Clocks
<1>7. SignalsSeen' /\ SignalsBoundCalls'
    BY DEF EmergencyTriggerEnds, Emergency, AfterPhoto, EUnchanged, signalVars, historyVars,
        SchedulerIInv, SignalsSeen, AfterLatePhoto, Late, SignalsBoundCalls, Types, Places
<1>8. EmergencyKnown'
    BY DEF EmergencyTriggerEnds, Emergency, AfterPhoto, historyVars, SchedulerIInv, EmergencyKnown
<1>9. QED
    BY <1>1, <1>2, <1>3, <1>4, <1>5, <1>6, <1>7, <1>8 DEF SchedulerIInv, Types

\* The next photo is preceded by a SET.
LEMMA EmergencyDiscardEndsKeeps ==
    ASSUME SchedulerIInv, ~killed, NEW d \in 0 .. CaptureTimeout, EmergencyDiscardEnds(d)
    PROVE  SchedulerIInv'
<1>1. Places'
    BY WindowsStand DEF EmergencyDiscardEnds, Emergency, EmergencyFails, EUnchanged, loopVars,
        historyVars, SchedulerIInv, Places, CallsBegun, Calls, Types
<1>2. Clocks'
    BY Numbers DEF EmergencyDiscardEnds, Lasts, Emergency, EmergencyFails, Pulse, PulseWith,
        EUnchanged, loopVars, SchedulerIInv, Never, Types, Clocks
<1>3. Flags'
    BY DEF EmergencyDiscardEnds, EmergencyFails, EUnchanged, loopVars, signalVars, SchedulerIInv,
        Types, Flags
<1>4. SlotInWindow'
    BY DEF EmergencyDiscardEnds, Lasts, EmergencyFails, EUnchanged, loopVars, SchedulerIInv,
        SlotInWindow, Types, Clocks
<1>5. PhotosInTheirPhase'
    BY PhotosStand DEF EmergencyDiscardEnds, EUnchanged, historyVars, SchedulerIInv
<1>6. PulseBeforeCall' /\ WatchdogSparesRun'
    BY Numbers, WatchAssumption DEF EmergencyDiscardEnds, Emergency, EmergencyFails, Pulse,
        PulseWith, EUnchanged, SchedulerIInv, PulseBeforeCall, WatchdogSparesRun, Types, Clocks
<1>7. SignalsSeen' /\ SignalsBoundCalls'
    BY DEF EmergencyDiscardEnds, Emergency, EmergencyFails, EUnchanged, signalVars, historyVars,
        SchedulerIInv, SignalsSeen, AfterLatePhoto, Late, SignalsBoundCalls, Types, Places
<1>8. EmergencyKnown'
    BY DEF EmergencyDiscardEnds, EmergencyFails, historyVars, SchedulerIInv, EmergencyKnown
<1>9. QED
    BY <1>1, <1>2, <1>3, <1>4, <1>5, <1>6, <1>7, <1>8 DEF SchedulerIInv, Types

\* A STOP is seen from now on.
LEMMA SigtermKeeps ==
    ASSUME SchedulerIInv, ~killed, Sigterm
    PROVE  SchedulerIInv'
<1>1. Places'
    BY WindowsStand DEF Sigterm, loopVars, historyVars, SchedulerIInv, Places, CallsBegun,
        Emergency, Calls, Types
<1>2. Clocks'
    BY DEF Sigterm, loopVars, watchVars, SchedulerIInv, Types, Clocks
<1>3. Flags'
    BY DEF Sigterm, loopVars, emergencyVars, SchedulerIInv, Types, Flags
<1>4. SlotInWindow'
    BY WindowsStand DEF Sigterm, loopVars, SchedulerIInv, SlotInWindow, Types, Clocks
<1>5. PhotosInTheirPhase'
    BY PhotosStand DEF Sigterm, historyVars, SchedulerIInv
<1>6. PulseBeforeCall' /\ WatchdogSparesRun'
    BY DEF Sigterm, watchVars, SchedulerIInv, PulseBeforeCall, WatchdogSparesRun, Types, Clocks
<1>7. SignalsSeen' /\ SignalsBoundCalls'
    BY DEF Sigterm, historyVars, SchedulerIInv, SignalsSeen, AfterLatePhoto, Late,
        SignalsBoundCalls, Types, Places
<1>8. EmergencyKnown'
    BY DEF Sigterm, emergencyVars, historyVars, SchedulerIInv, EmergencyKnown
<1>9. QED
    BY <1>1, <1>2, <1>3, <1>4, <1>5, <1>6, <1>7, <1>8 DEF SchedulerIInv, Types

\* The override is seen from now on.
LEMMA Sigusr1Keeps ==
    ASSUME SchedulerIInv, ~killed, Sigusr1
    PROVE  SchedulerIInv'
<1>1. Places'
    BY WindowsStand DEF Sigusr1, loopVars, historyVars, SchedulerIInv, Places, CallsBegun,
        Emergency, Calls, Types
<1>2. Clocks'
    BY DEF Sigusr1, loopVars, watchVars, SchedulerIInv, Types, Clocks
<1>3. Flags'
    BY DEF Sigusr1, loopVars, emergencyVars, SchedulerIInv, Types, Flags
<1>4. SlotInWindow'
    BY WindowsStand DEF Sigusr1, loopVars, SchedulerIInv, SlotInWindow, Types, Clocks
<1>5. PhotosInTheirPhase'
    BY PhotosStand DEF Sigusr1, historyVars, SchedulerIInv
<1>6. PulseBeforeCall' /\ WatchdogSparesRun'
    BY DEF Sigusr1, watchVars, SchedulerIInv, PulseBeforeCall, WatchdogSparesRun, Types, Clocks
<1>7. SignalsSeen' /\ SignalsBoundCalls'
    BY DEF Sigusr1, historyVars, SchedulerIInv, SignalsSeen, AfterLatePhoto, Late,
        SignalsBoundCalls, Types, Places
<1>8. EmergencyKnown'
    BY DEF Sigusr1, emergencyVars, historyVars, SchedulerIInv, EmergencyKnown
<1>9. QED
    BY <1>1, <1>2, <1>3, <1>4, <1>5, <1>6, <1>7, <1>8 DEF SchedulerIInv, Types

\* The watchdog ends a call that may be longer than the rest of its time-out.
LEMMA WatchdogKeeps ==
    ASSUME SchedulerIInv, ~killed, Watchdog
    PROVE  SchedulerIInv'
<1>a. silent \in Nat /\ limit \in Nat /\ now \in Nat /\ pings \in 1 .. 3 /\ silent + Longest >= limit
    BY DEF Watchdog, SchedulerIInv, Types, Clocks, Places
<1>1. Places'
    BY WindowsStand DEF Watchdog, CallsBegun, Longest, TriggerTimeout, Emergency, Deadline,
        loopVars, historyVars, SchedulerIInv, Places, Calls, Types
<1>2. Clocks'
    BY DEF Watchdog, loopVars, watchVars, SchedulerIInv, Types, Clocks
<1>3. Flags'
    BY DEF Watchdog, loopVars, emergencyVars, signalVars, SchedulerIInv, Types, Flags
<1>4. SlotInWindow'
    BY WindowsStand DEF Watchdog, CallsBegun, Longest, TriggerTimeout, Emergency, Deadline,
        loopVars, SchedulerIInv, SlotInWindow, Types, Clocks
<1>5. PhotosInTheirPhase'
    BY PhotosStand DEF Watchdog, historyVars, SchedulerIInv
<1>6. PulseBeforeCall' /\ WatchdogSparesRun'
    <2>1. pc \notin {"trigger", "etrigger"}
        <3>1. ASSUME pc = "etrigger" PROVE FALSE
            BY <1>a, <3>1, Numbers, WatchAssumption
            DEF Longest, TriggerTimeout, Emergency, SchedulerIInv, PulseBeforeCall
        <3>2. ASSUME pc = "trigger" PROVE FALSE
            <4>1. PICK rest \in Int : rest = Deadline - now + ResponseGrace
                BY <1>a, <3>2, WindowInHand, Numbers DEF Deadline, Calls
            <4>2. Min({CaptureTimeout, rest}) \in Int /\ Min({CaptureTimeout, rest}) <= CaptureTimeout
                <5>1. CaptureTimeout \in Int
                    BY Numbers
                <5>2. QED
                    BY <4>1, <5>1, Earlier
            <4>3. TriggerTimeout \in Int /\ TriggerTimeout <= CaptureTimeout
                BY <3>2, <4>1, <4>2 DEF TriggerTimeout, Emergency
            <4>4. QED
                BY <1>a, <3>2, <4>3, Numbers, WatchAssumption
                DEF Longest, SchedulerIInv, PulseBeforeCall
        <3>3. QED
            BY <3>1, <3>2
    <2>2. pc # "ping"
        <3>1. ASSUME pc = "ping" PROVE FALSE
            <4>1. (pings - 1) * PingTimeout <= 2 * PingTimeout
                BY <1>a, Numbers
            <4>2. QED
                BY <1>a, <3>1, <4>1, Numbers, WatchAssumption
                DEF Longest, SchedulerIInv, PulseBeforeCall
        <3>2. QED
            BY <3>1
    <2>3. pc \notin {"enter", "set", "esetup", "prepare", "eprepare"}
        BY <1>a, Numbers, WatchAssumption DEF Longest, SchedulerIInv, PulseBeforeCall
    <2>4. pc \in {"discard", "ediscard"} => silent = CaptureTimeout
        BY <1>a, Numbers, WatchAssumption DEF Longest, SchedulerIInv, PulseBeforeCall
    <2>5. WatchdogSparesRun'
        BY <2>1, <2>2, <2>3, <2>4 DEF Watchdog, CallsBegun, watchVars, WatchdogSparesRun
    <2>6. PulseBeforeCall'
        BY DEF Watchdog, watchVars, SchedulerIInv, PulseBeforeCall
    <2>7. QED
        BY <2>5, <2>6
<1>7. SignalsSeen' /\ SignalsBoundCalls'
    BY DEF Watchdog, CallsBegun, Longest, TriggerTimeout, Emergency, Deadline, signalVars,
        historyVars, SchedulerIInv, SignalsSeen, AfterLatePhoto, Late, SignalsBoundCalls, Types,
        Places
<1>8. EmergencyKnown'
    BY DEF Watchdog, emergencyVars, historyVars, SchedulerIInv, EmergencyKnown
<1>9. QED
    BY <1>1, <1>2, <1>3, <1>4, <1>5, <1>6, <1>7, <1>8 DEF SchedulerIInv, Types

-----------------------------------------------------------------------------
(* What the scheduler does *)

\* The invariant is inductive.
LEMMA SchedulerKeeps == SchedulerIInv /\ [SchedulerNext]_schedulerVars => SchedulerIInv'
<1> SUFFICES ASSUME SchedulerIInv, [SchedulerNext]_schedulerVars
             PROVE  SchedulerIInv'
    OBVIOUS
<1>1. ASSUME ~killed, NEW d \in 0 .. CaptureTimeout, CallReturns(d)
      PROVE  SchedulerIInv'
    <2>1. CASE TriggerFails(d) \/ DiscardEnds(d) \/ EmergencyDiscardEnds(d)
        BY <1>1, <2>1, TriggerFailsKeeps, DiscardEndsKeeps, EmergencyDiscardEndsKeeps
    <2>2. ASSUME NEW ok \in BOOLEAN,
                 \/ PingEnds(ok, d) \/ EnterEnds(ok, d) \/ ReconcileEnds(ok, d) \/ PrepareEnds(ok, d)
                 \/ TriggerAnswers(ok, d)
          PROVE  SchedulerIInv'
        BY <1>1, <2>2, PingEndsKeeps, EnterEndsKeeps, ReconcileEndsKeeps, PrepareEndsKeeps,
           TriggerAnswersKeeps
    <2>3. ASSUME NEW ok \in BOOLEAN,
                 \/ EmergencySetupEnds(ok, d) \/ EmergencyInitEnds(ok, d)
                 \/ EmergencyPrepareEnds(ok, d) \/ EmergencyTriggerEnds(ok, d)
          PROVE  SchedulerIInv'
        BY <1>1, <2>3, EmergencySetupEndsKeeps, EmergencyInitEndsKeeps, EmergencyPrepareEndsKeeps,
           EmergencyTriggerEndsKeeps
    <2>4. QED
        BY <1>1, <2>1, <2>2, <2>3 DEF CallReturns
<1>2. CASE SchedulerStep
    BY <1>1, <1>2, FinallyKeeps, TopKeeps, SlotKeeps, RecheckKeeps, EmergencyRefusedKeeps,
       EmergencyStartKeeps, EmergencyTopKeeps DEF SchedulerStep
<1>3. CASE ~killed /\ (Sigterm \/ Sigusr1 \/ Watchdog)
    BY <1>3, SigtermKeeps, Sigusr1Keeps, WatchdogKeeps
<1>4. CASE UNCHANGED schedulerVars
    <2>1. /\ UNCHANGED <<kind, now, pc, pings, window, current, next, started, settingsOk, initialized>>
          /\ UNCHANGED <<configured, retry, stopped, override, silent, limit, killed, camera>>
          /\ UNCHANGED <<shot, last, lateSets, latePhotos>>
        BY <1>4 DEF schedulerVars, loopVars, emergencyVars, signalVars, watchVars, historyVars
    <2>2. Windows' = Windows
        BY <2>1, WindowsStand
    <2>3. Types'
        BY <2>1, <2>2 DEF SchedulerIInv, Types, Places, Clocks, Flags
    <2>4. SlotInWindow' /\ PulseBeforeCall' /\ WatchdogSparesRun'
        BY <2>1, <2>2 DEF SchedulerIInv, SlotInWindow, PulseBeforeCall, WatchdogSparesRun
    <2>5. SignalsSeen' /\ SignalsBoundCalls' /\ EmergencyKnown'
        BY <2>1 DEF SchedulerIInv, SignalsSeen, Late, SignalsBoundCalls, EmergencyKnown
    <2>6. PhotosInTheirPhase'
        BY <2>1, PhotosStand DEF SchedulerIInv
    <2>7. QED
        BY <2>3, <2>4, <2>5, <2>6 DEF SchedulerIInv
<1>5. QED
    BY <1>2, <1>3, <1>4 DEF SchedulerNext

\* The invariant has the types, and all that the schedule, the signals and the watchdog allow.
LEMMA SchedulerIsTyped == SchedulerIInv => ScheduleKept
<1> SUFFICES ASSUME SchedulerIInv PROVE ScheduleKept
    OBVIOUS
<1>1. kind \in {"total", "partial", "totality_only"} /\ pings \in 1 .. 3 /\ window \in 0 .. 5
      /\ pc \in CallsBegun \cup Emergency \cup {"top", "slot", "recheck", "finally", "exited"}
      /\ camera \in {"unknown", "partial", "diamond", "totality"}
      /\ last \in {"none", "set", "photo"} /\ lateSets >= 0 /\ latePhotos >= 0
    BY DEF SchedulerIInv, Types, Places
<1>2. now >= 0 /\ current \in 0 .. now /\ silent >= 0 /\ limit > 0 /\ next >= Never /\ started >= Never
    BY DEF SchedulerIInv, Types, Clocks
<1>3. {settingsOk, initialized, configured, retry, stopped, override, killed} \subseteq BOOLEAN
    BY DEF SchedulerIInv, Types, Flags
<1>4. QED
    BY <1>1, <1>2, <1>3 DEF SchedulerIInv, SchedulerTypeInv, ScheduleKept

\* No photo of a normal phase is taken outside its window or with other settings; a signal lets at
\* most the calls begin that were about to begin; and the watchdog ends no scheduler whose calls end
\* within their time-outs, but for the two stages it gives too little (phase_trigger.py:314,
\* phase_trigger.py:327, trigger_heartbeat.py:18), whatever the camera and the eclipse.
THEOREM ScheduleIsKept == SchedulerSpec => []ScheduleKept
<1>1. SchedulerSpec => []SchedulerIInv
    BY SchedulerStarts, SchedulerKeeps, PTL DEF SchedulerSpec
<1>2. QED
    BY <1>1, SchedulerIsTyped, PTL

\* The step of EmergencyAlternates.
LEMMA Alternates ==
    ASSUME SchedulerIInv, [SchedulerNext]_schedulerVars
    PROVE  /\ pc' = "einit" /\ pc # "einit" => last = "photo"
           /\ pc' = "eprepare" /\ pc # "eprepare" /\ ~configured' => last = "set"
<1> DEFINE Elsewhere == pc' = pc \/ pc' \notin {"einit", "eprepare"}
           Goal == /\ pc' = "einit" /\ pc # "einit" => last = "photo"
                   /\ pc' = "eprepare" /\ pc # "eprepare" /\ ~configured' => last = "set"
<1>1. Elsewhere => Goal
    OBVIOUS
<1>2. CASE EmergencyTop
    BY <1>1, <1>2 DEF EmergencyTop, EmergencyPhoto, emergencyVars, SchedulerIInv, EmergencyKnown
<1>3. ASSUME NEW ok \in BOOLEAN, NEW d \in 0 .. CaptureTimeout, EmergencyInitEnds(ok, d)
      PROVE  Goal
    BY <1>3 DEF EmergencyInitEnds, EmergencyPhoto, SchedulerIInv, EmergencyKnown
<1>4. CASE Top \/ Slot \/ Recheck
    BY <1>1, <1>4 DEF Top, StopSeen, Leaves, Pulse, PulseWith, loopVars, NoPhoto, NoShot, Abandon,
        Never, watchVars, WaitUntil, EnterWindow, FirstCapture, BeginsSet, Emergency, Late, GoesOn,
        emergencyVars, signalVars, Slot, PrepareAt, Contains, Recheck, Overridden, SkipsSlot,
        AfterSkip, historyVars, BeginsPhoto
<1>5. CASE Finally \/ EmergencyRefused \/ EmergencyStart
    BY <1>1, <1>5 DEF Finally, EmergencyRefused, EmergencyStart
<1>6. ASSUME NEW ok \in BOOLEAN, NEW d \in 0 .. CaptureTimeout,
             \/ PingEnds(ok, d) \/ EnterEnds(ok, d) \/ ReconcileEnds(ok, d) \/ PrepareEnds(ok, d)
             \/ TriggerAnswers(ok, d)
      PROVE  Goal
    BY <1>1, <1>6 DEF PingEnds, EnterEnds, ReconcileEnds, PrepareEnds, TriggerAnswers, GroupEnds
<1>7. ASSUME NEW ok \in BOOLEAN, NEW d \in 0 .. CaptureTimeout,
             EmergencySetupEnds(ok, d) \/ EmergencyPrepareEnds(ok, d) \/ EmergencyTriggerEnds(ok, d)
      PROVE  Goal
    BY <1>1, <1>7 DEF EmergencySetupEnds, EmergencyPrepareEnds, EmergencyTriggerEnds, EmergencyFails
<1>8. ASSUME NEW d \in 0 .. CaptureTimeout, TriggerFails(d) \/ DiscardEnds(d) \/ EmergencyDiscardEnds(d)
      PROVE  Goal
    BY <1>1, <1>8 DEF TriggerFails, DiscardEnds, GroupEnds, EmergencyDiscardEnds, EmergencyFails
<1>9. CASE Sigterm \/ Sigusr1 \/ Watchdog \/ UNCHANGED schedulerVars
    BY <1>1, <1>9 DEF Sigterm, Sigusr1, Watchdog, schedulerVars
<1>10. ASSUME NEW d \in 0 .. CaptureTimeout, CallReturns(d)
       PROVE  Goal
    BY <1>3, <1>6, <1>7, <1>8, <1>10 DEF CallReturns
<1>11. QED
    BY <1>2, <1>4, <1>5, <1>9, <1>10 DEF SchedulerNext, SchedulerStep

\* In Emergency Totality the initialization is repeated only after a photo, and a photo without
\* settings is preceded by an attempt to set them (eclipse_trigger.py:584).
THEOREM EmergencyIsAlternating == SchedulerSpec => EmergencyAlternates
<1>1. SchedulerSpec => []SchedulerIInv
    BY SchedulerStarts, SchedulerKeeps, PTL DEF SchedulerSpec
<1>2. SchedulerIInv /\ [SchedulerNext]_schedulerVars =>
        [/\ pc' = "einit" /\ pc # "einit" => last = "photo"
         /\ pc' = "eprepare" /\ pc # "eprepare" /\ ~configured' => last = "set"]_schedulerVars
    BY Alternates
<1>3. QED
    BY <1>1, <1>2, PTL DEF SchedulerSpec, EmergencyAlternates
=============================================================================
