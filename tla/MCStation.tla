------------------------------- MODULE MCStation -------------------------------
\* The devices around the trigger, in parts that do not share state: `station' says which one a
\* behaviour is of.
EXTENDS DeviceRuntime, IndiDiscovery, MountMotion, SlewGesture, FocuserMotion, EafSession, TLC
VARIABLE station
Parts == {"fleet", "indi", "mount", "gesture", "focuser", "eaf"}

MCAnswers == 1 :> {1} @@ 2 :> {1, 2} @@ 3 :> {}
MCWanted == "w1" :> 1 @@ "w2" :> 2 @@ "runtime" :> 0

StationInit ==
    /\ station \in Parts
    /\ FleetInit /\ IndiInit /\ MotionInit /\ GestureInit /\ FocuserInit /\ EafInit
    \* the parts that do not move all begin alike
    /\ station # "indi" => plugged = {}
    /\ station # "mount" => kind = "home" /\ ~mount.place /\ ~mount.tracking
    /\ station # "focuser" => plugin = "zwo" /\ motor.at = 0

StationVars == <<fleetVars, indiVars, motionVars, gestureVars, focuserVars, eafVars, station>>
FleetPart(A) ==
    /\ station = "fleet" /\ A
    /\ UNCHANGED <<indiVars, motionVars, gestureVars, focuserVars, eafVars, station>>
IndiPart(A) ==
    /\ station = "indi" /\ A
    /\ UNCHANGED <<fleetVars, motionVars, gestureVars, focuserVars, eafVars, station>>
MotionPart(A) ==
    /\ station = "mount" /\ A
    /\ UNCHANGED <<fleetVars, indiVars, gestureVars, focuserVars, eafVars, station>>
GesturePart(A) ==
    /\ station = "gesture" /\ A
    /\ UNCHANGED <<fleetVars, indiVars, motionVars, focuserVars, eafVars, station>>
FocuserPart(A) ==
    /\ station = "focuser" /\ A
    /\ UNCHANGED <<fleetVars, indiVars, motionVars, gestureVars, eafVars, station>>
EafPart(A) ==
    /\ station = "eaf" /\ A
    /\ UNCHANGED <<fleetVars, indiVars, motionVars, gestureVars, focuserVars, station>>

StationNext ==
    \/ FleetPart(FleetNext) \/ IndiPart(IndiNext) \/ MotionPart(MotionNext)
    \/ GesturePart(GestureNext) \/ FocuserPart(FocuserNext) \/ EafPart(EafNext)
StationSpec == StationInit /\ [][StationNext]_StationVars

\* A STOP of the mount lasts, homing is the newest home, the serial port has one owner
\* (mount_service.py:512), and a released button moves nothing unless the last call of its
\* requests was answered with an error (app.py:2803).
MountsSafe == MotionSafe /\ GestureSafe

\* A STOP of the focuser lasts (focuser_service.py:336), and the session of a focuser is kept
\* until its last owner in one process has left (zwo_eaf.py:57).
FocusersSafe == FocuserSafe /\ EafSafe
=============================================================================
