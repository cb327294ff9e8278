------------------------------ MODULE MountMotion ------------------------------
(***************************************************************************)
(* MountService (services/mount_service.py) with the INDI plugin           *)
(* (plugins/mount/indi_plugin.py) or the direct OnStep one                 *)
(* (plugins/mount/onstep.py): one thread serves calls, and every           *)
(* home_start() leaves a thread of its own behind that drives the mount    *)
(* home and looks for its cancellation between two polls.                  *)
(***************************************************************************)
EXTENDS Integers, FiniteSets

CONSTANTS
    Kinds,        \* "home": TELESCOPE_HOME, "home_init": OnStep over INDI,
                  \* "eqmod": PARK in place of home, "direct": OnStep over its serial port
    MaxHomes,     \* bound on the home generation
    MaxFaults     \* bound on failed writes, reads and connections

ASSUME MotionAssumption ==
    /\ Kinds \subseteq {"home", "home_init", "eqmod", "direct"}
    /\ MaxHomes \in Nat \ {0} /\ MaxFaults \in Nat

VARIABLES
    kind,      \* the mount of this process
    service,   \* MountService: plugin connected, _moving, _homing, _home_generation, tracking
    serving,   \* where the serving thread is
    home,      \* the home thread of each generation: where it is, and its seen_active
    mount,     \* what the mount does
    link,      \* who holds the serial port of the mount
    stopped,   \* history: a STOP reached the mount and nothing has asked for motion since
    faults

motionVars == <<kind, service, serving, home, mount, link, stopped, faults>>

Generations == 1 .. MaxHomes
None == [pc |-> "none", seen |-> FALSE]

MotionTypeInv ==
    /\ kind \in Kinds /\ stopped \in BOOLEAN /\ faults \in 0 .. MaxFaults
    /\ service \in [connected : BOOLEAN, moving : BOOLEAN, homing : BOOLEAN,
                    generation : 0 .. MaxHomes, tracking : BOOLEAN]
    /\ serving \in {"idle", "stop", "sync_off", "sync_open", "sync_set", "sync_on"}
    /\ home \in [Generations -> [pc : {"none", "begin", "place", "find", "check", "look", "last",
                                       "abort", "unpark", "reached", "finish"}, seen : BOOLEAN]]
    /\ mount \in [motion : {"still", "slew", "home"}, place : BOOLEAN, parked : BOOLEAN,
                  tracking : BOOLEAN, shown : BOOLEAN]
    /\ link \in [driver : BOOLEAN, direct : BOOLEAN]

MotionInit ==
    /\ kind \in Kinds
    /\ service = [connected |-> FALSE, moving |-> FALSE, homing |-> FALSE, generation |-> 0,
                  tracking |-> FALSE]
    /\ serving = "idle" /\ home = [g \in Generations |-> None]
    /\ mount \in [motion : {"still"}, place : BOOLEAN, parked : {FALSE}, tracking : BOOLEAN,
                  shown : {FALSE}]
    /\ link = [driver |-> FALSE, direct |-> FALSE] /\ stopped = FALSE /\ faults = 0

-----------------------------------------------------------------------------
\* The mount, and what the driver shows of TELESCOPE_HOME some time later.
Halted(m) == [m EXCEPT !.motion = "still"]
Slewing(m) == [m EXCEPT !.motion = "slew", !.place = FALSE]
GoingHome(m) == [m EXCEPT !.motion = "home"]

Arrives ==
    /\ mount.motion = "home"
    /\ mount' = [mount EXCEPT !.motion = "still", !.place = TRUE, !.parked = kind = "eqmod"]
    /\ UNCHANGED <<kind, service, serving, home, link, stopped, faults>>

Shows ==
    /\ mount.shown # (mount.motion = "home")
    /\ mount' = [mount EXCEPT !.shown = mount.motion = "home"]
    /\ UNCHANGED <<kind, service, serving, home, link, stopped, faults>>

Fault == faults < MaxFaults /\ faults' = faults + 1
Fine == UNCHANGED faults

\* A write needs the driver, or the serial port of the direct plugin.
Reaches(effect) == link.driver /\ mount' = effect /\ Fine
Lost == (link.driver => Fault) /\ (~link.driver => Fine) /\ UNCHANGED mount

-----------------------------------------------------------------------------
\* The serving thread.
NextGeneration == service.generation < MaxHomes

\* _plugin_for_operation(): every operation but stop() connects first. Connecting only looks:
\* the tracking flag is read. A failure disconnects what it had connected.

Connect ==
    /\ serving = "idle" /\ ~service.connected
    /\ \/ /\ link' = [link EXCEPT !.driver = TRUE] /\ Fine
          /\ service' = [service EXCEPT !.connected = TRUE, !.tracking = mount.tracking]
       \/ /\ Fault /\ link' = [link EXCEPT !.driver = FALSE]
          /\ service' = [service EXCEPT !.moving = FALSE]
    /\ UNCHANGED <<kind, serving, home, mount, stopped>>

\* _close_locked(): after a failed status, which is not read while homing, or at the end.
Close ==
    /\ serving = "idle" /\ service.connected /\ ~service.homing /\ Fault
    /\ service' = [service EXCEPT !.connected = FALSE, !.moving = FALSE]
    /\ link' = [link EXCEPT !.driver = FALSE]
    /\ UNCHANGED <<kind, serving, home, mount, stopped>>

\* _ensure_onstep_runtime_ready() finds no slew vectors, disconnects the driver, and cannot
\* reconnect it.
RepairFails ==
    /\ serving = "idle" /\ service.connected /\ kind = "home_init" /\ Fault
    /\ service' = [service EXCEPT !.connected = FALSE] /\ link' = [link EXCEPT !.driver = FALSE]
    /\ UNCHANGED <<kind, serving, home, mount, stopped>>

StartSlew ==
    /\ serving = "idle" /\ service.connected /\ ~service.homing
    /\ \/ Reaches(Slewing(mount)) /\ service' = [service EXCEPT !.moving = TRUE]
       \/ Lost /\ UNCHANGED service
    /\ stopped' = FALSE
    /\ UNCHANGED <<kind, serving, home, link>>

Track(on) ==
    /\ serving = "idle" /\ service.connected /\ service.tracking # on
    /\ \/ Reaches([mount EXCEPT !.tracking = on]) /\ service' = [service EXCEPT !.tracking = on]
       \/ Fault /\ mount' = [mount EXCEPT !.tracking = on] /\ UNCHANGED service
       \/ Lost /\ UNCHANGED service
    /\ UNCHANGED <<kind, serving, home, link, stopped>>

\* A home under way is neither refused nor stopped here: its thread finds out.
HomeStart ==
    /\ serving = "idle" /\ service.connected /\ NextGeneration
    /\ IF service.moving THEN Reaches(Halted(mount)) ELSE UNCHANGED <<mount, faults>>
    /\ service' = [service EXCEPT !.moving = FALSE, !.homing = TRUE, !.generation = @ + 1]
    /\ home' = [home EXCEPT ![service.generation + 1].pc = "begin"]
    /\ stopped' = FALSE
    /\ UNCHANGED <<kind, serving, link>>

\* home_start() or emergency_stop() whose STOP fails.
HomeStartFails ==
    /\ serving = "idle" /\ service.connected /\ service.moving /\ Lost
    /\ stopped' = FALSE /\ UNCHANGED <<kind, service, serving, home, link>>

\* Mutant: stop() leaves the home thread running.
CancelledNot == [service EXCEPT !.moving = FALSE]
Cancelled == [service EXCEPT !.generation = @ + 1, !.homing = FALSE, !.moving = FALSE]

\* stop(): the flags under the lock, the hardware after it. The answer is a success anyway.
Stop ==
    /\ serving = "idle" /\ NextGeneration
    /\ service' = Cancelled /\ serving' = "stop"
    /\ UNCHANGED <<kind, home, mount, link, stopped, faults>>

StopWrite ==
    /\ serving = "stop" /\ serving' = "idle"
    /\ \/ Reaches(Halted(mount)) /\ stopped' = TRUE
       \/ Lost /\ UNCHANGED stopped
    /\ UNCHANGED <<kind, service, home, link>>

EmergencyStop ==
    /\ serving = "idle" /\ NextGeneration /\ service' = Cancelled
    /\ \/ service.connected /\ Reaches(Halted(mount)) /\ stopped' = TRUE
       \/ service.connected /\ Lost /\ UNCHANGED stopped
       \/ ~service.connected /\ UNCHANGED <<mount, faults, stopped>>
    /\ UNCHANGED <<kind, serving, home, link>>

\* sync_site_time() of an OnStep over INDI: the driver gives the serial port away and takes it
\* back whatever happened in between.
SyncBegin ==
    /\ serving = "idle" /\ service.connected /\ kind = "home_init" /\ serving' = "sync_off"
    /\ UNCHANGED <<kind, service, home, mount, link, stopped, faults>>

SyncDisconnect ==
    /\ serving = "sync_off"
    /\ \/ /\ serving' = "sync_open" /\ link' = [link EXCEPT !.driver = FALSE] /\ Fine
          /\ service' = [service EXCEPT !.connected = FALSE]
       \/ /\ serving' = "sync_on" /\ Fault /\ UNCHANGED service
          /\ \E lost \in BOOLEAN : link' = [link EXCEPT !.driver = @ /\ ~lost]
    /\ UNCHANGED <<kind, home, mount, stopped>>

SyncOpen ==
    /\ serving = "sync_open"
    /\ \/ serving' = "sync_set" /\ link' = [link EXCEPT !.direct = TRUE] /\ Fine
       \/ serving' = "sync_on" /\ UNCHANGED link /\ Fault
    /\ UNCHANGED <<kind, service, home, mount, stopped>>

\* Set or refused, the direct connection is closed.

SyncSet ==
    /\ serving = "sync_set" /\ serving' = "sync_on" /\ link' = [link EXCEPT !.direct = FALSE]
    /\ UNCHANGED <<kind, service, home, mount, stopped, faults>>

SyncReconnect ==
    /\ serving = "sync_on" /\ serving' = "idle"
    /\ \/ /\ link' = [link EXCEPT !.driver = TRUE] /\ Fine
          /\ service' = [service EXCEPT !.connected = TRUE]
       \/ /\ Fault /\ service' = [service EXCEPT !.connected = FALSE]
          /\ \E on \in BOOLEAN : link' = [link EXCEPT !.driver = on]
    /\ UNCHANGED <<kind, home, mount, stopped>>

-----------------------------------------------------------------------------
\* The home threads.
Unlocked == serving \in {"idle", "stop"}   \* the lock of the service
Revoked(g) == g # service.generation \/ ~service.homing
Goes(g, pc) == home' = [home EXCEPT ![g].pc = pc]
Commands(g, effect, next) ==
    /\ \/ Reaches(effect) /\ Goes(g, next)
       \/ Lost /\ Goes(g, "finish")
    /\ UNCHANGED <<kind, service, serving, link, stopped>>
Looks(g, next) == Goes(g, next) /\ UNCHANGED <<kind, service, serving, mount, link, stopped, faults>>

\* go_home(): GO or RETURN_HOME; EQMod first ends slew and tracking; the direct plugin unparks
\* and stops, ends tracking, stops again, and only then goes.
Begin(g) ==
    /\ home[g].pc = "begin"
    /\ CASE kind \in {"home", "home_init"} -> Commands(g, GoingHome(mount), "check")
         [] kind = "eqmod" -> Commands(g, [Halted(mount) EXCEPT !.tracking = FALSE], "place")
         [] kind = "direct" -> Commands(g, [Halted(mount) EXCEPT !.tracking = FALSE], "find")

Find(g) == home[g].pc = "find" /\ Commands(g, GoingHome(mount), "check")

Place(g) ==
    /\ home[g].pc = "place"
    /\ \/ mount.place /\ Looks(g, "unpark")
       \/ ~mount.place /\ Commands(g, GoingHome(mount), "check")
       \/ Fault /\ Goes(g, "finish") /\ UNCHANGED <<kind, service, serving, mount, link, stopped>>

\* is_cancelled() takes the lock. The direct plugin just returns.
Check(g) ==
    /\ home[g].pc = "check" /\ Unlocked
    /\ Looks(g, IF ~Revoked(g) THEN "look" ELSE IF kind = "direct" THEN "finish" ELSE "abort")

\* A poll: reached, not yet, too late, or unreadable. The direct plugin does not stop when late.
Seen(g) == home[g].seen \/ mount.shown
AtHome(g) ==
    CASE kind = "home" -> Seen(g) /\ ~mount.shown
      [] kind = "eqmod" -> mount.parked /\ mount.place
      [] OTHER -> mount.place /\ mount.motion # "home"

Look(g) ==
    /\ home[g].pc = "look"
    /\ \/ /\ home' = [home EXCEPT ![g].seen = Seen(g),
                   ![g].pc = IF ~AtHome(g) THEN "check"
                             ELSE IF kind = "eqmod" THEN "unpark"
                             ELSE IF kind = "direct" THEN "last" ELSE "reached"]
          /\ Fine
       \/ ~AtHome(g) /\ Goes(g, IF kind = "direct" THEN "finish" ELSE "abort") /\ Fault
       \/ Goes(g, "finish") /\ Fault
    /\ UNCHANGED <<kind, service, serving, mount, link, stopped>>

\* The direct plugin looks once more whether it was cancelled, and stops a mount at home.
Last(g) ==
    /\ home[g].pc = "last" /\ Unlocked
    /\ IF Revoked(g) THEN Looks(g, "finish") ELSE Commands(g, Halted(mount), "reached")

Unpark(g) == home[g].pc = "unpark" /\ Commands(g, [mount EXCEPT !.parked = FALSE], "reached")

\* A cancelled or late home stops the mount; nobody looks whether it did.
Abort(g) ==
    /\ home[g].pc = "abort" /\ Goes(g, "finish")
    /\ \/ Reaches(Halted(mount)) /\ UNCHANGED stopped
       \/ Lost /\ stopped' = FALSE
    /\ UNCHANGED <<kind, service, serving, link>>

Finishes(g) == g = service.generation /\ service.homing

Finish(g) ==
    /\ home[g].pc \in {"reached", "finish"} /\ Unlocked
    /\ service' = IF Finishes(g) THEN [service EXCEPT !.homing = FALSE] ELSE service
    /\ home' = [home EXCEPT ![g] = None]
    /\ UNCHANGED <<kind, serving, mount, link, stopped, faults>>

HomeThread(g) ==
    \/ Begin(g) \/ Find(g) \/ Place(g) \/ Check(g) \/ Look(g) \/ Last(g) \/ Unpark(g)
    \/ Abort(g) \/ Finish(g)

MotionNext ==
    \/ Arrives \/ Shows
    \/ Connect \/ Close \/ RepairFails \/ StartSlew \/ HomeStart \/ HomeStartFails \/ Stop
    \/ StopWrite \/ EmergencyStop
    \/ \E on \in BOOLEAN : Track(on)
    \/ SyncBegin \/ SyncDisconnect \/ SyncOpen \/ SyncSet \/ SyncReconnect
    \/ \E g \in Generations : HomeThread(g)

MotionSpec == MotionInit /\ [][MotionNext]_motionVars

-----------------------------------------------------------------------------
HomesAlive == {g \in Generations : home[g].pc # "none"}

\* A STOP that reached the mount lasts: a home thread that was still before its GO may move the
\* mount afterwards, but it stops it before it ends (mount_service.py:582, indi_plugin.py:557).
StopHolds == stopped /\ HomesAlive = {} /\ kind # "direct" => mount.motion = "still"

\* The service is homing exactly while the thread of the newest home is under way, however many
\* older ones have still to notice their end (mount_service.py:544).
HomingIsNewest == service.homing <=> service.generation \in HomesAlive

\* The INDI driver and the direct connection of a synchronisation never hold the port together,
\* and a mount called connected has its driver (indi_plugin.py:1186).
OneSerialOwner ==
    /\ ~(link.driver /\ link.direct)
    /\ serving = "idle" /\ service.connected => link.driver /\ ~link.direct

\* A home that ends well has left the mount at rest, even when the driver shows its switch late
\* (indi_plugin.py:555).
HomeEndsQuiet ==
    \A g \in Generations :
        home[g].pc = "reached" /\ ~Revoked(g) /\ HomesAlive = {g} /\ faults = 0 /\ kind \in {"home", "eqmod"}
            => mount.motion # "home"

\* Where nothing but the service moves the tracking, the flag is the tracking of the mount, also
\* after a reconnection (mount_service.py:98).
TrackingKnown ==
    kind \in {"home", "home_init"} /\ service.connected /\ faults = 0
        => service.tracking = mount.tracking

\* What the mount process promises, whichever mount it drives (mount_service.py:512).
MotionSafe ==
    MotionTypeInv /\ StopHolds /\ HomingIsNewest /\ OneSerialOwner /\ HomeEndsQuiet /\ TrackingKnown

\* "Cancel homing and stop manual motion" (mount_service.py:583), for the direct plugin too, whose
\* go_home() sends its command without looking whether it was cancelled, so that it may move on.
StopIsHonoured == stopped /\ HomesAlive = {} => mount.motion = "still"
=============================================================================
