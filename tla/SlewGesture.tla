------------------------------ MODULE SlewGesture ------------------------------
(***************************************************************************)
(* Press and release of a slew button (app.py:2730): two HTTP requests of  *)
(* one gesture, served by two threads in either order, and the table of    *)
(* the gestures already released. The mount serves one call at a time.     *)
(***************************************************************************)
EXTENDS FiniteSets

CONSTANTS Gestures   \* the ids the browser gives them, one per press

VARIABLES
    press, release,   \* where the handler of each request is
    released,         \* _MOUNT_RELEASED_SLEW_GESTURES
    slews,            \* the gesture the mount slews for
    errored           \* gestures whose last call to the mount was answered with an error

gestureVars == <<press, release, released, slews, errored>>

Nobody == "nobody"
ASSUME GestureAssumption == Nobody \notin Gestures

GestureTypeInv ==
    /\ press \in [Gestures -> {"sent", "start", "started", "stop", "done"}]
    /\ release \in [Gestures -> {"sent", "stop", "done"}]
    /\ released \subseteq Gestures /\ slews \in Gestures \cup {Nobody} /\ errored \subseteq Gestures

GestureInit ==
    /\ press = [g \in Gestures |-> "sent"] /\ release = press
    /\ released = {} /\ slews = Nobody /\ errored = {}

\* _consume_mount_slew_release(), before the START and again after it.
Consumes(g, found, missing) ==
    /\ press' = [press EXCEPT ![g] = IF g \in released THEN found ELSE missing]
    /\ released' = released \ {g}
    /\ UNCHANGED <<release, slews, errored>>

PressBegins(g) == press[g] = "sent" /\ Consumes(g, "stop", "start")

ChecksAgain(g) == Consumes(g, "stop", "done")
PressEnds(g) == press[g] = "started" /\ ChecksAgain(g)

\* A mount that is homing refuses, and a START that raises may have reached the motor all the
\* same: the handler returns at once, without looking for the mark again.
StartsSlew(g) ==
    /\ press[g] = "start"
    /\ \/ press' = [press EXCEPT ![g] = "started"] /\ slews' = g /\ errored' = errored \ {g}
       \/ /\ press' = [press EXCEPT ![g] = "done"]
          /\ slews' \in {slews, g} /\ errored' = errored \cup {g}
    /\ UNCHANGED <<release, released>>

\* worker.stop(): it may raise, the mount stopped or not.
Stops(g) ==
    \/ slews' = Nobody /\ errored' = errored \ {g}
    \/ slews' \in {slews, Nobody} /\ errored' = errored \cup {g}

PressStops(g) ==
    /\ press[g] = "stop" /\ press' = [press EXCEPT ![g] = "done"] /\ Stops(g)
    /\ UNCHANGED <<release, released>>

\* The mark comes before the STOP.
ReleaseBegins(g) ==
    /\ release[g] = "sent" /\ release' = [release EXCEPT ![g] = "stop"]
    /\ released' = released \cup {g} /\ UNCHANGED <<press, slews, errored>>

ReleaseStops(g) ==
    /\ release[g] = "stop" /\ release' = [release EXCEPT ![g] = "done"] /\ Stops(g)
    /\ UNCHANGED <<press, released>>

\* Marks live 15 seconds, longer than the START they wait for is under way.
Pruned(g) ==
    /\ g \in released /\ press[g] = "done" /\ released' = released \ {g}
    /\ UNCHANGED <<press, release, slews, errored>>

GestureNext ==
    \E g \in Gestures :
        \/ PressBegins(g) \/ StartsSlew(g) \/ PressEnds(g) \/ PressStops(g)
        \/ ReleaseBegins(g) \/ ReleaseStops(g) \/ Pruned(g)

\* A button that was let go no longer moves the mount once its two requests are answered, in
\* whatever order they ran (app.py:2803, app.py:2824), unless the last call that they made to
\* the mount was answered with an error: nobody repeats it.
ReleasedStands ==
    \A g \in Gestures : press[g] = "done" /\ release[g] = "done" /\ g \notin errored => slews # g

\* With the types of the states (app.py:2730).
GestureSafe == GestureTypeInv /\ ReleasedStands
=============================================================================
