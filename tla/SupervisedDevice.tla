-------------------------- MODULE SupervisedDevice --------------------------
(***************************************************************************)
(* backend/device_process_worker.py with its two users,                    *)
(* mount_process_worker.py and focuser_process_worker.py: a parent that    *)
(* runs a motorised device in a child process it can kill, and that must   *)
(* not forget that a killed command may have left the motor running.       *)
(*                                                                         *)
(* Threads of the parent call the proxy; self._lock (an RLock) is held for *)
(* a whole call.  Generations number the children.  A child answers one    *)
(* request at a time, and may also die or hang; the motor is outside: the  *)
(* death of a child does not stop it.                                      *)
(***************************************************************************)
EXTENDS Integers, FiniteSets

CONSTANTS
    Movers,          \* threads that start motion (start_slew, home, move_to, start_jog ...)
    Stoppers,        \* threads that call stop() or stop_jog()
    Readers,         \* threads that call a command without motion (status ...)
    Owner,           \* the worker runtime, which calls start() and shutdown()
    MaxGeneration,   \* bound: how many children may be spawned
    Free             \* nobody, as the holder of the lock

Callers == Movers \cup Stoppers \cup Readers
Threads == Callers \cup {Owner}
Generations == 1 .. MaxGeneration

ASSUME ConstantsAssumption ==
    /\ MaxGeneration \in Nat
    /\ Movers \cap Stoppers = {} /\ Movers \cap Readers = {} /\ Stoppers \cap Readers = {}
    /\ Owner \notin Callers /\ Free \notin Threads

VARIABLES
    kind,            \* self.device_kind: which of the two proxies this is
    holder,          \* the thread that holds self._lock
    started,         \* self._started
    process,         \* self._process: the generation whose handle is kept, 0 for None
    conn,            \* self._conn is not None
    generation,      \* self._generation
    unknown,         \* self._motion_state_unknown
    pc, op,          \* where each thread is, and in which operation
    alive,           \* the generations whose process is alive
    plugin,          \* those whose service has a connected plugin
    request,         \* what each generation is doing
    reply,           \* the answer that waits in the pipe
    moving,          \* the motor runs
    ambiguous        \* a motion command failed after it was sent, and no physical
                     \* STOP was carried out since

parentVars == <<started, process, conn, generation>>
childVars == <<alive, plugin, request, reply>>
motorVars == <<moving, ambiguous>>
vars == <<kind, holder, parentVars, unknown, pc, op, childVars, motorVars>>

Operations == {"none", "motion", "stop", "emergency_stop", "stop_jog", "read", "start", "shutdown"}

TypeInv ==
    /\ kind \in {"mount", "focuser"}
    /\ holder \in Threads \cup {Free}
    /\ started \in BOOLEAN /\ conn \in BOOLEAN /\ unknown \in BOOLEAN
    /\ process \in {0} \cup Generations
    /\ generation \in 0 .. MaxGeneration
    /\ pc \in [Threads -> {"idle", "call", "startup", "send", "wait", "mark", "clear"}]
    /\ op \in [Threads -> Operations]
    /\ alive \subseteq 1 .. generation /\ plugin \subseteq alive
    /\ request \in [Generations -> Operations]
    /\ reply \in {"none", "result", "error"}
    /\ moving \in BOOLEAN /\ ambiguous \in BOOLEAN

Init ==
    /\ kind \in {"mount", "focuser"}
    /\ holder = Free
    /\ started = FALSE /\ process = 0 /\ conn = FALSE /\ generation = 0
    /\ unknown = FALSE
    /\ pc = [t \in Threads |-> "idle"]
    /\ op = [t \in Threads |-> "none"]
    /\ alive = {} /\ plugin = {} /\ reply = "none"
    /\ request = [g \in Generations |-> "none"]
    /\ moving = FALSE /\ ambiguous = FALSE

At(t, place) == pc[t] = place
Goto(t, place) == pc' = [pc EXCEPT ![t] = place]

-----------------------------------------------------------------------------
\* The end of a call.

\* A motion command that ends in WorkerTimeoutError or WorkerUnavailableError has
\* still to be marked, after the lock was released.
Fail(t) ==
    /\ holder' = Free
    /\ Goto(t, IF op[t] = "motion" THEN "mark" ELSE "idle")

\* Mutant: a child that survived terminate() and kill() is forgotten.
TerminateForgets(survives) ==
    /\ survives => process \in alive
    /\ process' = 0
    /\ alive' = IF survives THEN alive ELSE alive \ {process}
    /\ plugin' = plugin \cap alive'
    /\ request' = [g \in Generations |-> IF g \in alive' THEN request[g] ELSE "none"]
    /\ conn' = FALSE /\ reply' = "none"
    /\ UNCHANGED generation

\* _terminate_process_locked() and what its callers do with the answer: the handle
\* of a survivor is kept, the pipe is closed.
Terminate(survives) ==
    /\ survives => process \in alive
    /\ process' = IF survives THEN process ELSE 0
    /\ alive' = IF survives THEN alive ELSE alive \ {process}
    /\ plugin' = plugin \cap alive'
    /\ request' = [g \in Generations |-> IF g \in alive' THEN request[g] ELSE "none"]
    /\ conn' = FALSE /\ reply' = "none"
    /\ UNCHANGED generation

\* _kill_current_locked().
KillCurrent(survives) ==
    /\ Terminate(survives)
    /\ started' = (started /\ ~survives)

\* _discard_dead_process_locked().
DiscardDead ==
    /\ process \notin alive
    /\ process' = 0 /\ conn' = FALSE /\ reply' = "none"
    /\ UNCHANGED <<generation, alive, plugin, request>>

-----------------------------------------------------------------------------
\* The entry points.

MayMove == ~unknown

\* _motion_call(): _require_motion_state_known(), which releases the lock again.
BeginMotion(t) ==
    /\ t \in Movers /\ At(t, "idle") /\ holder = Free
    /\ MayMove
    /\ op' = [op EXCEPT ![t] = "motion"]
    /\ Goto(t, "call")
    /\ UNCHANGED <<kind, holder, parentVars, unknown, childVars, motorVars>>

\* ProcessMountWorker.stop() asks for emergency_stop when the motor's state is
\* unknown; ProcessFocuserWorker has stop() and stop_jog(), which always send one command.
StopCommands ==
    IF kind = "focuser" THEN {"stop", "stop_jog"}
    ELSE IF unknown THEN {"emergency_stop"} ELSE {"stop"}

BeginStop(t) ==
    /\ t \in Stoppers /\ At(t, "idle")
    /\ kind = "mount" => holder = Free
    /\ \E command \in StopCommands : op' = [op EXCEPT ![t] = command]
    /\ Goto(t, "call")
    /\ UNCHANGED <<kind, holder, parentVars, unknown, childVars, motorVars>>

BeginRead(t) ==
    /\ t \in Readers /\ At(t, "idle")
    /\ op' = [op EXCEPT ![t] = "read"]
    /\ Goto(t, "call")
    /\ UNCHANGED <<kind, holder, parentVars, unknown, childVars, motorVars>>

\* start(): the runtimes start a worker that is new or whose shutdown was confirmed.
BeginStart ==
    /\ At(Owner, "idle") /\ holder = Free /\ process = 0 /\ ~started
    /\ holder' = Owner
    /\ started' = TRUE
    /\ op' = [op EXCEPT ![Owner] = "start"]
    /\ Goto(Owner, "call")
    /\ UNCHANGED <<kind, process, conn, generation, unknown, childVars, motorVars>>

\* shutdown(): ask, join, terminate, kill; a survivor keeps its handle.
Shutdown ==
    /\ At(Owner, "idle") /\ holder = Free
    /\ started' = FALSE
    /\ \E survives \in BOOLEAN : Terminate(survives)
    /\ UNCHANGED <<kind, holder, unknown, pc, op, motorVars>>

-----------------------------------------------------------------------------
\* call() and _ensure_process_locked().

Owns(t) == holder = t
MayEnter(t) == At(t, "call") /\ (holder = Free \/ Owns(t))

RefuseStopped(t) ==
    /\ MayEnter(t) /\ ~started
    /\ Fail(t)
    /\ UNCHANGED <<kind, parentVars, unknown, op, childVars, motorVars>>

ReuseChild(t) ==
    /\ MayEnter(t) /\ started /\ process \in alive
    /\ holder' = t
    /\ Goto(t, "send")
    /\ UNCHANGED <<kind, parentVars, unknown, op, childVars, motorVars>>


Spawn(t) ==
    /\ MayEnter(t) /\ started /\ process \notin alive
    /\ generation < MaxGeneration
    /\ holder' = t
    /\ generation' = generation + 1
    /\ process' = generation + 1
    /\ conn' = TRUE /\ reply' = "none"
    /\ alive' = alive \cup {generation + 1}
    /\ Goto(t, "startup")
    /\ UNCHANGED <<kind, started, unknown, op, plugin, request, motorVars>>

Ready(t) ==
    /\ At(t, "startup") /\ process \in alive
    /\ IF t = Owner
       THEN holder' = Free /\ Goto(t, "idle")
       ELSE Goto(t, "send") /\ UNCHANGED holder
    /\ UNCHANGED <<kind, parentVars, unknown, op, childVars, motorVars>>

\* Process.start() raised: no child, and the exception is not one that marks motion.
SpawnFails(t) ==
    /\ MayEnter(t) /\ started /\ DiscardDead
    /\ started' = (t # Owner)
    /\ holder' = Free
    /\ Goto(t, "idle")
    /\ UNCHANGED <<kind, unknown, op, motorVars>>

\* The child does not get ready in READY_TIMEOUT_S, or reports a fatal error; start() gives the
\* worker its stopped state back.
StartupFails(t) ==
    /\ At(t, "startup")
    /\ \E survives \in BOOLEAN :
        /\ Terminate(survives)
        /\ started' = (t # Owner /\ ~survives)
    /\ Fail(t)
    /\ UNCHANGED <<kind, unknown, op, motorVars>>

\* The child is seen dead, or the pipe ends before it is ready: the handle is dropped, and in the
\* second case nobody asks whether the process still lives, let alone kills it.
StartupClosed(t) ==
    /\ At(t, "startup")
    /\ process' = 0 /\ conn' = FALSE /\ reply' = "none"
    /\ started' = (t # Owner)
    /\ Fail(t)
    /\ UNCHANGED <<kind, generation, unknown, op, alive, plugin, request, motorVars>>

Send(t) ==
    /\ At(t, "send") /\ process \in alive
    /\ request' = [request EXCEPT ![process] = op[t]]
    /\ reply' = "none"
    /\ Goto(t, "wait")
    /\ UNCHANGED <<kind, holder, parentVars, unknown, op, alive, plugin, motorVars>>

\* The pipe is broken: the child is gone, and what is left of it is killed.
SendFails(t) ==
    /\ At(t, "send") /\ process \notin alive
    /\ KillCurrent(FALSE)
    /\ Fail(t)
    /\ UNCHANGED <<kind, unknown, op, motorVars>>

\* The answer: a result, or an error that leaves the child in service.
IsRecovery(t) == op[t] = "emergency_stop" \/ (kind = "focuser" /\ op[t] = "stop")
ClearsUnknown(t) == IsRecovery(t) \/ op[t] = "stop_jog"

Answered(t) ==
    /\ At(t, "wait") /\ reply # "none"
    /\ reply' = "none"
    /\ holder' = Free
    /\ Goto(t, IF reply = "result" /\ ClearsUnknown(t) THEN "clear" ELSE "idle")
    /\ UNCHANGED <<kind, parentVars, unknown, op, alive, plugin, request, motorVars>>

\* Mutant: the answer is waited for without a deadline.
CallNeverTimesOut(t) == FALSE /\ UNCHANGED vars

\* No answer in time, a fatal answer or a closed pipe: the child is killed.
CallTimesOut(t) ==
    /\ At(t, "wait")
    /\ \E survives \in BOOLEAN : KillCurrent(survives)
    /\ Fail(t)
    /\ ambiguous' = (ambiguous \/ op[t] = "motion")
    /\ UNCHANGED <<kind, unknown, op, moving>>

ChildExited(t) ==
    /\ At(t, "wait")
    /\ DiscardDead
    /\ Fail(t)
    /\ ambiguous' = (ambiguous \/ op[t] = "motion")
    /\ UNCHANGED <<kind, started, unknown, op, moving>>

\* Mutant: only a timeout is remembered, and it is forgotten here.
MarkUnknownForgotten(t) ==
    /\ At(t, "mark") /\ holder = Free
    /\ Goto(t, "idle")
    /\ UNCHANGED <<kind, holder, parentVars, unknown, op, childVars, motorVars>>

MarkUnknown(t) ==
    /\ At(t, "mark") /\ holder = Free
    /\ unknown' = TRUE
    /\ Goto(t, "idle")
    /\ UNCHANGED <<kind, holder, parentVars, op, childVars, motorVars>>

ClearUnknown(t) ==
    /\ At(t, "clear") /\ holder = Free
    /\ unknown' = FALSE
    /\ Goto(t, "idle")
    /\ UNCHANGED <<kind, holder, parentVars, op, childVars, motorVars>>

-----------------------------------------------------------------------------
\* The child: MountService and FocuserService behind serve_worker().

Reply(g, answer) ==
    reply' = IF g = process /\ conn THEN answer ELSE reply

\* Mutant: a recovery in a fresh child does not reconnect.
ReconnectsNever(g) == FALSE
Reconnects(g) == request[g] = "emergency_stop" \/ kind = "focuser"

\* Motion connects the plugin first.
ChildMoves(g) ==
    /\ request[g] = "motion"
    /\ moving' = TRUE
    /\ plugin' = plugin \cup {g}
    /\ Reply(g, "result")
    /\ UNCHANGED ambiguous

\* A STOP reaches the motor through a connected plugin; the plain stop() of a
\* mount does not connect one and reports success all the same.
ChildStops(g) ==
    /\ request[g] \in {"stop", "emergency_stop"}
    /\ IF g \in plugin \/ Reconnects(g)
       THEN /\ moving' = FALSE /\ ambiguous' = FALSE
            /\ plugin' = IF Reconnects(g) THEN plugin \cup {g} ELSE plugin
       ELSE UNCHANGED <<moving, ambiguous, plugin>>
    /\ Reply(g, "result")

\* stop_jog() connects the plugin and ends its hold thread. Where there is none, in a fresh child or
\* under a move with a target, the motor gets no command and the answer is a success all the same.
ChildStopsJog(g) ==
    /\ request[g] = "stop_jog"
    /\ \E held \in BOOLEAN :
        /\ held => g \in plugin
        /\ moving' = (moving /\ ~held)
    /\ plugin' = plugin \cup {g}
    /\ Reply(g, "result")
    /\ UNCHANGED ambiguous

\* status() connects the plugin; on an error a mount drops it and reports the error
\* in its result.
ChildReads(g) ==
    /\ request[g] = "read"
    /\ \E ok \in BOOLEAN :
        /\ plugin' = IF ok THEN plugin \cup {g}
                     ELSE IF kind = "mount" THEN plugin \ {g} ELSE plugin
        /\ Reply(g, IF ok \/ kind = "mount" THEN "result" ELSE "error")
    /\ UNCHANGED motorVars

\* Connecting or the command itself raised before the motor was reached.
ChildRefuses(g) ==
    /\ request[g] \in {"motion", "emergency_stop", "stop_jog"} \cup
                      (IF kind = "focuser" THEN {"stop"} ELSE {})
    /\ Reply(g, "error")
    /\ UNCHANGED <<plugin, motorVars>>

ChildStep(g) ==
    /\ g \in alive
    /\ ChildMoves(g) \/ ChildStops(g) \/ ChildStopsJog(g) \/ ChildReads(g) \/ ChildRefuses(g)
    /\ request' = [request EXCEPT ![g] = "none"]
    /\ UNCHANGED <<kind, holder, parentVars, unknown, pc, op, alive>>

ChildDies(g) ==
    /\ g \in alive
    /\ alive' = alive \ {g} /\ plugin' = plugin \ {g}
    /\ request' = [request EXCEPT ![g] = "none"]
    /\ UNCHANGED <<kind, holder, parentVars, unknown, pc, op, reply, motorVars>>

\* A move that has a target ends by itself.
MotionEnds ==
    /\ moving
    /\ moving' = FALSE
    /\ UNCHANGED <<kind, holder, parentVars, unknown, pc, op, childVars, ambiguous>>

-----------------------------------------------------------------------------
Begin(t) == BeginMotion(t) \/ BeginStop(t) \/ BeginRead(t)

Proceed(t) ==
    \/ RefuseStopped(t) \/ ReuseChild(t) \/ Spawn(t) \/ SpawnFails(t)
    \/ Ready(t) \/ StartupFails(t) \/ StartupClosed(t) \/ Send(t) \/ SendFails(t)
    \/ Answered(t) \/ CallTimesOut(t) \/ ChildExited(t)
    \/ MarkUnknown(t) \/ ClearUnknown(t)

Next ==
    \/ BeginStart \/ Shutdown
    \/ \E t \in Threads : Begin(t) \/ Proceed(t)
    \/ \E g \in Generations : ChildStep(g) \/ ChildDies(g)
    \/ MotionEnds

Spec == Init /\ [][Next]_vars

\* A thread that runs goes on (every wait in call() has a deadline), and one that
\* waits for the lock gets it in the end.  Nothing is assumed of the children.
FairSpec == Spec /\ \A t \in Threads : SF_vars(Proceed(t))

-----------------------------------------------------------------------------
\* Properties.

\* Only the child the supervisor holds a handle on has the hardware open or is asked to: neither a
\* respawn after a kill that failed, nor a shutdown that failed, nor a child that was forgotten
\* during its startup and lives on lets a second process drive the device
\* (device_process_worker.py:376).
OneDriver == \A g \in Generations : g \in plugin \/ request[g] # "none" => g = process

\* The assertion of call() (device_process_worker.py:396): a live child that is
\* about to be sent a command has a pipe.
LiveChildHasConnection ==
    \A t \in Threads : At(t, "send") \/ At(t, "wait") => process # 0 /\ conn

\* One process has the hardware, and the call that talks to it has its pipe.
ChildOwned == OneDriver /\ LiveChildHasConnection

\* A motion command of a mount that failed after it was sent is not forgotten before a
\* STOP has physically been carried out.  (A focuser may forget it: see below.)
AmbiguityRemembered ==
    kind = "mount" /\ ambiguous => unknown \/ \E t \in Movers : At(t, "mark")

\* No motion command is on its way to a child while an earlier one may still be running.
MotionRefusedUntilStop ==
    \A t \in Movers : At(t, "send") \/ At(t, "wait") => ~ambiguous

\* "Refuse new motion after an ambiguous timed-out motion command"
\* (device_process_worker.py:83), for a mount that one thread moves at a time.
NoMotionAfterAmbiguity == kind = "mount" => MotionRefusedUntilStop

\* An ambiguous motion is remembered, and nothing is moved on top of it.
MotionGuarded == AmbiguityRemembered /\ NoMotionAfterAmbiguity

\* The success of a recovery STOP (a mount's emergency_stop, a focuser's stop()) proves that the
\* motor stands still, even when the child that started it was killed. (stop_jog() clears the
\* same mark and proves nothing: see below.)
RecoveryStopsMotor ==
    \A t \in Stoppers :
        At(t, "wait") /\ IsRecovery(t) /\ reply = "result" => ~moving

\* Every call ends, whatever the child does.
CallsEnd == \A t \in Callers : At(t, "call") ~> At(t, "idle")

-----------------------------------------------------------------------------
\* What the repository says of the supervisor and the code does not do.

\* NoMotionAfterAmbiguity does not hold with two threads that move the mount: both may pass
\* MayMove before the first times out. Nor does MotionRefusedUntilStop of a focuser, whose
\* stop() clears the ambiguity after it released the lock. Nor does AmbiguityRemembered with
\* two threads that stop the mount: the later STOP clears the mark of a newer motion.

\* "A successful stop_jog() [...] issues the physical continuous-motion STOP.  That is sufficient to
\* clear a previous ambiguous jog/motion timeout exactly like the broader stop() recovery path"
\* (focuser_process_worker.py:141). In a child without the hold thread it issues none.
StopJogStopsMotor ==
    \A t \in Stoppers : At(t, "wait") /\ op[t] = "stop_jog" /\ reply = "result" => ~moving

\* "prevents a second generation from being spawned on the same hardware"
\* (device_process_worker.py:376): a child forgotten during its startup may live beside the next.
OneLiveChild == alive \subseteq {process}

\* MountService.stop() (mount_service.py:583): "stop manual motion".  The success of
\* any stop() should mean that the motor was stopped; through a child without a plugin it
\* does not.
StopStopsMotor ==
    \A t \in Stoppers : At(t, "wait") /\ op[t] = "stop" /\ reply = "result" => ~moving
=============================================================================
