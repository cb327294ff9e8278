----------------------------- MODULE FocuserMotion -----------------------------
(***************************************************************************)
(* FocuserService (services/focuser_service.py) with the ZWO plugin        *)
(* (plugins/focuser/zwo_plugin.py, zwo_eaf.py) or the INDI one             *)
(* (plugins/focuser/indi_plugin.py). One thread serves calls; a jog is a   *)
(* thread of its own that is asked to end by an event all jogs share, and  *)
(* that is given up after three seconds.                                   *)
(***************************************************************************)
EXTENDS Integers, FiniteSets

CONSTANTS
    Plugins,    \* "zwo": a jog is one move to the limit, "indi": a jog is step after step
    Top,        \* the highest position
    MaxJogs, MaxTroubled   \* bounds: jogs started; stuck, failed and late calls

ASSUME FocuserAssumption ==
    Plugins \subseteq {"zwo", "indi"} /\ Top \in Nat \ {0} /\ MaxJogs \in Nat /\ MaxTroubled \in Nat

VARIABLES
    plugin,
    command, target,   \* _motion_command, _target_position
    jog,               \* where each jog thread is, and its direction
    holder,            \* _hold_thread
    holdStop,          \* _hold_stop
    call,              \* what the serving thread does after stop_continuous()
    motor,             \* position, and where it goes
    halted,            \* history: a STOP reached the motor, and no motion was asked for since
    troubled

focuserVars == <<plugin, command, target, jog, holder, holdStop, call, motor, halted, troubled>>

Positions == 0 .. Top
Jogs == 1 .. MaxJogs
NoJogYet == 0

FocuserTypeInv ==
    /\ plugin \in Plugins /\ command \in {"none", "go", "home", "jog"} /\ target \in -1 .. Top + 1
    /\ jog \in [Jogs -> [pc : {"none", "aim", "move", "wait", "last", "halt", "done"},
                         to : {0, Top}, aim : Positions]]
    /\ holder \in 0 .. MaxJogs /\ holdStop \in BOOLEAN /\ halted \in BOOLEAN
    /\ call \in {"idle", "join_jog_up", "join_jog_down", "join_stop", "join_stop_jog",
                 "jog_up", "jog_down", "stop", "stop_jog"}
    /\ motor \in [at : Positions, to : Positions] /\ troubled \in 0 .. MaxTroubled

FocuserInit ==
    /\ plugin \in Plugins /\ command = "none" /\ target = -1
    /\ jog = [j \in Jogs |-> [pc |-> "none", to |-> 0, aim |-> 0]] /\ holder = NoJogYet /\ holdStop = FALSE
    /\ call = "idle" /\ halted = FALSE /\ troubled = 0
    /\ motor \in {[at |-> p, to |-> p] : p \in Positions}

JogTrouble == troubled < MaxTroubled /\ troubled' = troubled + 1
JogUnchanged == UNCHANGED <<plugin, jog, holder, holdStop>>
Halt == motor' = [motor EXCEPT !.to = motor.at]
Move(to) == motor' = [motor EXCEPT !.to = to]
Moving == motor.at # motor.to
Lives(j) == jog[j].pc \notin {"none", "done"}

MotorMoves ==
    /\ Moving /\ motor' = [motor EXCEPT !.at = IF @ < motor.to THEN @ + 1 ELSE @ - 1]
    /\ UNCHANGED <<plugin, command, target, jog, holder, holdStop, call, halted, troubled>>

-----------------------------------------------------------------------------
\* The serving thread.
Clamped(p) == IF p > Top THEN Top ELSE p

\* move_to() and home(): the target is kept as asked for; zwo clamps it, indi refuses it. A jog
\* under way is left alone.
Go(p, what) ==
    /\ call = "idle" /\ halted' = FALSE
    /\ \/ /\ plugin = "zwo" \/ p <= Top
          /\ command' = what /\ target' = p /\ Move(Clamped(p)) /\ UNCHANGED troubled
       \/ /\ \/ JogTrouble
             \/ plugin = "indi" /\ p > Top /\ UNCHANGED troubled
          /\ command' = "none" /\ target' = -1 /\ UNCHANGED motor
    /\ JogUnchanged /\ UNCHANGED call

Step(delta) ==
    /\ call = "idle" /\ motor.at + delta \in Positions /\ Move(motor.at + delta) /\ halted' = FALSE
    /\ JogUnchanged /\ UNCHANGED <<command, target, call, troubled>>

\* _status_locked(): a move is over when it is at its target; the motor may look still before.
FocuserStatus ==
    /\ call = "idle" /\ command \in {"go", "home"} /\ target = motor.at
    /\ command' = "none" /\ target' = -1
    /\ JogUnchanged /\ UNCHANGED <<call, motor, halted, troubled>>

\* stop_jog() and start_jog() end the jog under way first, and stop() of zwo does: stop_continuous().
Asks(next, joined, what) ==
    /\ call = "idle" /\ command' = what /\ target' = -1
    /\ IF holder # NoJogYet /\ (plugin = "indi" \/ Lives(holder))
       THEN call' = joined /\ holdStop' = TRUE
       ELSE call' = next /\ UNCHANGED holdStop
    /\ UNCHANGED <<plugin, jog, motor, troubled>>

StopJog == Asks("stop_jog", "join_stop_jog", "none") /\ UNCHANGED <<holder, halted>>
\* stop() of the indi plugin sets the event, and waits for nobody.
StopFocuser ==
    /\ IF plugin = "zwo" THEN Asks("stop", "join_stop", "none")
       ELSE /\ call = "idle" /\ command' = "none" /\ target' = -1
            /\ call' = "stop" /\ holdStop' = TRUE /\ UNCHANGED <<plugin, jog, motor, troubled>>
    /\ UNCHANGED <<holder, halted>>
StartJog(up) ==
    /\ \E j \in Jogs : jog[j].pc = "none"
    /\ IF up THEN Asks("jog_up", "join_jog_up", command) ELSE Asks("jog_down", "join_jog_down", command)
    /\ halted' = FALSE /\ UNCHANGED holder

\* join(timeout=3.0): the thread has ended or is given up. The indi plugin then stops the motor,
\* or fails to and does not tell.
AfterJoin == [join_jog_up |-> "jog_up", join_jog_down |-> "jog_down", join_stop |-> "stop",
          join_stop_jog |-> "stop_jog"]
Joined ==
    /\ call \in DOMAIN AfterJoin
    /\ IF Lives(holder) THEN JogTrouble ELSE UNCHANGED troubled
    /\ call' = AfterJoin[call] /\ holder' = NoJogYet
    /\ \/ plugin = "indi" /\ Halt
       \/ UNCHANGED motor
    /\ UNCHANGED <<plugin, command, target, jog, holdStop, halted>>

\* The STOP of the motor itself.
StopWritten ==
    /\ call = "stop" /\ call' = "idle"
    /\ \/ Halt /\ halted' = TRUE /\ UNCHANGED troubled
       \/ JogTrouble /\ UNCHANGED <<motor, halted>>
    /\ UNCHANGED <<plugin, command, target, jog, holder, holdStop>>

StopJogEnds ==
    /\ call = "stop_jog" /\ call' = "idle"
    /\ UNCHANGED <<plugin, command, target, jog, holder, holdStop, motor, halted, troubled>>

Spawn(j) ==
    /\ call \in {"jog_up", "jog_down"} /\ jog[j].pc = "none" /\ \A i \in Jogs : i < j => jog[i].pc # "none"
    /\ holdStop' = FALSE /\ holder' = j /\ call' = "idle" /\ command' = "jog" /\ target' = -1
    /\ jog' = [jog EXCEPT ![j] = [pc |-> "aim", to |-> IF call = "jog_up" THEN Top ELSE 0,
                                  aim |-> 0]]
    /\ UNCHANGED <<plugin, motor, halted, troubled>>

-----------------------------------------------------------------------------
\* A jog thread: it looks at the event only at the head of a step and while it waits.
JogGoes(j, pc) == jog' = [jog EXCEPT ![j].pc = pc]
JogRest == UNCHANGED <<plugin, command, target, holder, holdStop, call, halted>>

Ahead(j) == IF plugin = "zwo" \/ motor.at = jog[j].to THEN jog[j].to
            ELSE IF jog[j].to = 0 THEN motor.at - 1 ELSE motor.at + 1

Aim(j) ==
    /\ jog[j].pc = "aim"
    /\ \/ /\ jog' = [jog EXCEPT ![j].aim = Ahead(j),
                  ![j].pc = IF plugin = "indi" /\ (holdStop \/ motor.at = jog[j].to) THEN "last"
                            ELSE "move"]
          /\ UNCHANGED troubled
       \/ JogGoes(j, IF plugin = "zwo" THEN "halt" ELSE "last") /\ JogTrouble
    /\ JogRest /\ UNCHANGED motor

JogMoves(j) ==
    /\ jog[j].pc = "move" /\ Move(jog[j].aim) /\ JogGoes(j, "wait")
    /\ JogRest /\ UNCHANGED troubled

JogWaits(j) ==
    /\ jog[j].pc = "wait"
    /\ \/ holdStop /\ JogGoes(j, IF plugin = "zwo" THEN "halt" ELSE "last") /\ UNCHANGED troubled
       \/ plugin = "indi" /\ ~holdStop /\ motor.at = jog[j].aim /\ JogGoes(j, "aim") /\ UNCHANGED troubled
       \/ plugin = "indi" /\ ~holdStop /\ JogGoes(j, "last") /\ JogTrouble
    /\ JogRest /\ UNCHANGED motor

\* Mutant: a jog that was asked to end leaves the motor to the one who asked.
LastSilent(j) == "done"
LastStops(j) == IF holdStop THEN "halt" ELSE "done"
JogLast(j) ==
    /\ jog[j].pc = "last" /\ JogGoes(j, LastStops(j))
    /\ JogRest /\ UNCHANGED <<motor, troubled>>

\* A failure of this stop goes unseen; the indi one sets the event again, also for a newer jog.
JogHalts(j) ==
    /\ jog[j].pc = "halt" /\ JogGoes(j, "done")
    /\ \/ Halt /\ UNCHANGED <<halted, troubled>>
       \/ JogTrouble /\ halted' = FALSE /\ UNCHANGED motor
    /\ holdStop' = (holdStop \/ plugin = "indi")
    /\ UNCHANGED <<plugin, command, target, holder, call>>

FocuserNext ==
    \/ MotorMoves \/ FocuserStatus \/ StopJog \/ StopFocuser \/ Joined \/ StopWritten \/ StopJogEnds
    \/ \E p \in 1 .. Top + 1 : Go(p, "go")
    \/ Go(0, "home")
    \/ \E delta \in {-1, 1} : Step(delta)
    \/ \E up \in BOOLEAN : StartJog(up)
    \/ \E j \in Jogs : Spawn(j) \/ Aim(j) \/ JogMoves(j) \/ JogWaits(j) \/ JogLast(j) \/ JogHalts(j)

FocuserSpec == FocuserInit /\ [][FocuserNext]_focuserVars

-----------------------------------------------------------------------------
\* A STOP that reached the focuser lasts, though a jog that was given up may still have a move to
\* send: before it ends it stops the motor (zwo_plugin.py:144, indi_plugin.py:326).
FocuserStays == halted /\ (\A j \in Jogs : ~Lives(j)) => ~Moving

\* With the types of the states (focuser_service.py:336).
FocuserSafe == FocuserTypeInv /\ FocuserStays
=============================================================================
