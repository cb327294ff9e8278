--------------------------- MODULE GenericWorker ---------------------------
(***************************************************************************)
(* backend/generic_worker.py: one daemon thread that owns a device and     *)
(* runs the callables other threads queue for it.                          *)
(*                                                                         *)
(* The threads are the worker, one caller per job (the callers of          *)
(* camera_worker.py and mount_worker.py queue one callable and wait for    *)
(* its future with a timeout) and the Stoppers, which call stop().         *)
(* self._lock is the variable "lock": a critical section that touches the  *)
(* lock's data only is one action, guarded by lock = Free; the cancellation*)
(* loop, whose queue the worker reads without the lock, is held open over  *)
(* several actions.  The worker's loop has one action per step between two *)
(* points where another thread can be seen.                                *)
(***************************************************************************)
EXTENDS Integers, FiniteSets

CONSTANTS
    Jobs,            \* callables, each with its future and the thread waiting for it
    Stoppers,        \* threads that call stop()
    Priority,        \* the priority a job is queued at
    RejectIfBusy,    \* jobs queued with reject_if_busy=True
    Deadlined,       \* jobs queued with a worker_deadline
    Crashing,        \* jobs whose callable may raise a non-Exception BaseException
    TimedOutCalls,   \* jobs whose caller gives up waiting after call_timeout_s
    MaxQueue,        \* max_queue_size, 0 when the queue is unbounded
    STOP,            \* the _STOP sentinel
    Worker, Free     \* the worker thread, and nobody, as owners of the lock

PRIORITY_STOP       == 0
PRIORITY_SEQUENCER  == 10
PRIORITY_MANUAL     == 30
PRIORITY_DIAGNOSTIC == 90

Priorities ==
    {PRIORITY_STOP, PRIORITY_SEQUENCER, PRIORITY_MANUAL, PRIORITY_DIAGNOSTIC}

ASSUME ConstantsAssumption ==
    /\ Priority \in [Jobs -> Priorities]
    /\ RejectIfBusy \subseteq Jobs /\ Deadlined \subseteq Jobs
    /\ Crashing \subseteq Jobs /\ TimedOutCalls \subseteq Jobs
    /\ MaxQueue \in Nat

ASSUME ThreadsAssumption ==
    /\ Jobs \cap Stoppers = {}
    /\ STOP \notin Jobs
    /\ {Worker, Free} \cap (Jobs \cup Stoppers) = {}
    /\ Worker # Free

VARIABLES
    policy,            \* self._shutdown_policy
    lock,              \* the thread that holds self._lock across actions
    accepting,         \* self._accepting
    unhealthy,         \* self._unhealthy_reason is not None
    executing,         \* self._executing_priority, NotExecuting for None
    queue,             \* self._queue, a set of entries
    sequence,          \* self._sequence
    preserved,         \* a STOP set aside by _cancel_queued_jobs(preserve_stop=True)
    pc,                \* where the worker thread is
    current,           \* the job it took from the queue
    stop_requested,    \* its local stop_requested
    crashed,           \* a BaseException is on its way to the outer handler
    future,            \* the state of each job's future
    caller,            \* where the thread waiting for each future is
    stopper,           \* where each call of stop() is
    close_called,      \* self._close_called
    closes             \* how many times _device_close was called

vars == <<policy, lock, accepting, unhealthy, executing, queue, sequence, preserved, pc,
          current, stop_requested, crashed, future, caller, stopper,
          close_called, closes>>

workerVars == <<pc, current, stop_requested, crashed>>

NotExecuting == -1
NoJob == STOP
Entries == [priority : Priorities, seq : Nat, item : Jobs \cup {STOP}]

\* The worker is inside its loop, on its way out of it, or not a thread at all.
InLoop  == {"get", "flag", "claim", "run", "finally", "check", "empty", "isolate", "cancelling"}
Leaving == {"close", "closing"}

Settled == {"result", "error", "expired", "cancelled", "rejected"}

TypeInv ==
    /\ policy \in {"drain", "cancel_pending"}
    /\ lock \in Jobs \cup Stoppers \cup {Worker, Free}
    /\ accepting \in BOOLEAN /\ unhealthy \in BOOLEAN
    /\ executing \in Priorities \cup {NotExecuting}
    /\ queue \in SUBSET Entries
    /\ sequence \in Nat
    /\ preserved \in BOOLEAN
    /\ pc \in InLoop \cup Leaving \cup {"none", "dead"}
    /\ current \in Jobs \cup {NoJob}
    /\ stop_requested \in BOOLEAN /\ crashed \in BOOLEAN
    /\ future \in [Jobs -> Settled \cup {"none", "pending", "running"}]
    /\ caller \in [Jobs -> {"idle", "waiting", "timedout", "cancelling", "raised"}]
    /\ stopper \in [Stoppers -> {"ready", "cancelling", "wake", "join", "isolate",
                                 "isolating", "unstarted", "unqueue", "close",
                                 "closing", "true", "false"}]
    /\ close_called \in BOOLEAN
    /\ closes \in Nat

Init ==
    /\ policy \in {"drain", "cancel_pending"}
    /\ lock = Free
    /\ accepting = TRUE /\ unhealthy = FALSE
    /\ executing = NotExecuting
    /\ queue = {} /\ sequence = 0 /\ preserved = FALSE
    /\ pc = "none" /\ current = NoJob
    /\ stop_requested = FALSE /\ crashed = FALSE
    /\ future = [j \in Jobs |-> "none"]
    /\ caller = [j \in Jobs |-> "idle"]
    /\ stopper = [s \in Stoppers |-> "ready"]
    /\ close_called = FALSE /\ closes = 0

-----------------------------------------------------------------------------
\* The queue: PriorityQueue of (priority, sequence, job).

Before(e, f) == e.priority < f.priority \/ (e.priority = f.priority /\ e.seq < f.seq)
IsFirst(e) == e \in queue /\ \A f \in queue \ {e} : Before(e, f)
HasRoom == MaxQueue = 0 \/ Cardinality(queue) < MaxQueue

\* Mutant: the key of the heap in the wrong order.
EntrySwapped(p, item) == [priority |-> sequence, seq |-> p, item |-> item]
Entry(p, item) == [priority |-> p, seq |-> sequence, item |-> item]

HasQueuedHigherPriorityWork ==
    \E e \in queue : e.priority < PRIORITY_DIAGNOSTIC /\ e.item # STOP

Busy == executing # NotExecuting \/ HasQueuedHigherPriorityWork

-----------------------------------------------------------------------------
\* submit_with_priority(), start().

CanAccept(j) ==
    /\ ~unhealthy /\ accepting
    /\ j \in RejectIfBusy => ~Busy
    /\ HasRoom

Submit(j) ==
    /\ lock = Free /\ future[j] = "none"
    /\ CanAccept(j)
    /\ queue' = queue \cup {Entry(Priority[j], j)}
    /\ sequence' = sequence + 1
    /\ future' = [future EXCEPT ![j] = "pending"]
    /\ caller' = [caller EXCEPT ![j] = "waiting"]
    /\ UNCHANGED <<policy, lock, accepting, unhealthy, executing, preserved,
                   workerVars, stopper, close_called, closes>>

\* WorkerUnavailableError, RuntimeError, BusyDeviceError or queue.Full.
SubmitRefused(j) ==
    /\ lock = Free /\ future[j] = "none"
    /\ ~CanAccept(j)
    /\ future' = [future EXCEPT ![j] = "rejected"]
    /\ UNCHANGED <<policy, lock, accepting, unhealthy, executing, queue, sequence,
                   preserved, workerVars, caller, stopper, close_called, closes>>

\* Mutant: a worker that was stopped before it started may still be started.
StartStopped ==
    /\ lock = Free /\ pc = "none"
    /\ pc' = "get"
    /\ UNCHANGED <<policy, lock, accepting, unhealthy, executing, queue, sequence,
                   preserved, current, stop_requested, crashed, future, caller,
                   stopper, close_called, closes>>

Start ==
    /\ lock = Free /\ pc = "none" /\ accepting
    /\ pc' = "get"
    /\ UNCHANGED <<policy, lock, accepting, unhealthy, executing, queue, sequence,
                   preserved, current, stop_requested, crashed, future, caller,
                   stopper, close_called, closes>>

-----------------------------------------------------------------------------
\* _cancel_queued_jobs(), run by the thread that holds the lock.

PreservesStop(t) ==
    \/ t = Worker \/ t \in Jobs
    \/ t \in Stoppers /\ stopper[t] = "isolating"

CancelNext ==
    /\ lock # Free
    /\ \E e \in queue :
        /\ IsFirst(e)
        /\ queue' = queue \ {e}
        /\ preserved' = (preserved \/ (e.item = STOP /\ PreservesStop(lock)))
        /\ future' = IF e.item = STOP THEN future
                     ELSE [future EXCEPT ![e.item] = "cancelled"]
    /\ UNCHANGED <<policy, lock, accepting, unhealthy, executing, sequence,
                   workerVars, caller, stopper, close_called, closes>>

AfterCancel(s) ==
    IF stopper[s] = "isolating" THEN "false"
    ELSE IF stopper[s] = "unqueue" THEN "close"
    ELSE IF pc = "none" THEN "unstarted" ELSE "wake"

\* The loop found the queue empty: put the preserved STOP back and release.  (The
\* entry is new here: with nothing accepted any more its number no longer matters.)
CancelEnd ==
    /\ lock # Free /\ queue = {}
    /\ queue' = IF preserved THEN {Entry(PRIORITY_STOP, STOP)} ELSE {}
    /\ preserved' = FALSE
    /\ lock' = Free
    /\ pc' = IF lock = Worker THEN "close" ELSE pc
    /\ caller' = IF lock \in Jobs THEN [caller EXCEPT ![lock] = "raised"] ELSE caller
    /\ stopper' = IF lock \in Stoppers
                  THEN [stopper EXCEPT ![lock] = AfterCancel(lock)] ELSE stopper
    /\ UNCHANGED <<policy, accepting, unhealthy, executing, sequence, current,
                   stop_requested, crashed, future, close_called, closes>>

\* mark_unhealthy() up to the cancellation of the queue, in thread t.
MarkUnhealthy(t) ==
    /\ lock = Free
    /\ lock' = t
    /\ unhealthy' = TRUE
    /\ accepting' = FALSE

-----------------------------------------------------------------------------
\* The callers: future.result(timeout) and what follows a timeout.

CallTimesOut(j) ==
    /\ j \in TimedOutCalls
    /\ caller[j] = "waiting" /\ future[j] \in {"pending", "running"}
    /\ caller' = [caller EXCEPT ![j] = "timedout"]
    /\ UNCHANGED <<policy, lock, accepting, unhealthy, executing, queue, sequence,
                   preserved, workerVars, future, stopper, close_called, closes>>

CallerMarksUnhealthy(j) ==
    /\ caller[j] = "timedout"
    /\ MarkUnhealthy(j)
    /\ caller' = [caller EXCEPT ![j] = "cancelling"]
    /\ UNCHANGED <<policy, executing, queue, sequence, preserved, workerVars, future,
                   stopper, close_called, closes>>

-----------------------------------------------------------------------------
\* The worker thread, _run().

Get ==
    /\ pc = "get"
    /\ \E e \in queue :
        /\ IsFirst(e)
        /\ queue' = queue \ {e}
        /\ current' = e.item
        /\ stop_requested' = (stop_requested \/ e.item = STOP)
        /\ pc' = IF e.item = STOP THEN "finally" ELSE "flag"
    /\ UNCHANGED <<policy, lock, accepting, unhealthy, executing, sequence, preserved,
                   crashed, future, caller, stopper, close_called, closes>>

Flag ==
    /\ pc = "flag" /\ lock = Free
    /\ executing' = Priority[current]
    /\ pc' = "claim"
    /\ UNCHANGED <<policy, lock, accepting, unhealthy, queue, sequence, preserved,
                   current, stop_requested, crashed, future, caller, stopper,
                   close_called, closes>>

\* The job's deadline passed while it was queued.
Expire ==
    /\ pc = "claim" /\ current \in Deadlined
    /\ future' = [future EXCEPT ![current] = "expired"]
    /\ pc' = "finally"
    /\ UNCHANGED <<policy, lock, accepting, unhealthy, executing, queue, sequence,
                   preserved, current, stop_requested, crashed, caller, stopper,
                   close_called, closes>>

Begin ==
    /\ pc = "claim"
    /\ future' = [future EXCEPT ![current] = "running"]
    /\ pc' = "run"
    /\ UNCHANGED <<policy, lock, accepting, unhealthy, executing, queue, sequence,
                   preserved, current, stop_requested, crashed, caller, stopper,
                   close_called, closes>>

\* The callable returned or raised; a BaseException of another kind is raised again.
Finish ==
    /\ pc = "run"
    /\ \E outcome \in {"result", "error"}, fatal \in BOOLEAN :
        /\ fatal => outcome = "error" /\ current \in Crashing
        /\ future' = [future EXCEPT ![current] = outcome]
        /\ crashed' = fatal
    /\ pc' = "finally"
    /\ UNCHANGED <<policy, lock, accepting, unhealthy, executing, queue, sequence,
                   preserved, current, stop_requested, caller, stopper, close_called,
                   closes>>

Finally ==
    /\ pc = "finally" /\ lock = Free
    /\ executing' = NotExecuting
    /\ current' = NoJob
    /\ pc' = IF crashed THEN "isolate" ELSE "check"
    /\ UNCHANGED <<policy, lock, accepting, unhealthy, queue, sequence, preserved,
                   stop_requested, crashed, future, caller, stopper, close_called,
                   closes>>

\* stopping = not self._accepting, read under the lock ...
CheckStopping ==
    /\ pc = "check" /\ lock = Free
    /\ pc' = IF stop_requested \/ ~accepting THEN "empty" ELSE "get"
    /\ UNCHANGED <<policy, lock, accepting, unhealthy, executing, queue, sequence,
                   preserved, current, stop_requested, crashed, future, caller,
                   stopper, close_called, closes>>

\* Mutant: the STOP, which overtakes every queued job, ends the loop at once.
CheckEmptyNever ==
    /\ pc = "empty"
    /\ pc' = "close"
    /\ UNCHANGED <<policy, lock, accepting, unhealthy, executing, queue, sequence,
                   preserved, current, stop_requested, crashed, future, caller,
                   stopper, close_called, closes>>

\* ... and self._queue.empty(), read after it was released.
CheckEmpty ==
    /\ pc = "empty"
    /\ pc' = IF queue = {} THEN "close" ELSE "get"
    /\ UNCHANGED <<policy, lock, accepting, unhealthy, executing, queue, sequence,
                   preserved, current, stop_requested, crashed, future, caller,
                   stopper, close_called, closes>>

\* The outer except: a crashed worker fails closed.
CrashIsolates ==
    /\ pc = "isolate"
    /\ MarkUnhealthy(Worker)
    /\ pc' = "cancelling"
    /\ UNCHANGED <<policy, executing, queue, sequence, preserved, current,
                   stop_requested, crashed, future, caller, stopper, close_called,
                   closes>>

WorkerCloses ==
    /\ pc = "close" /\ lock = Free
    /\ close_called' = TRUE
    /\ pc' = IF close_called THEN "dead" ELSE "closing"
    /\ UNCHANGED <<policy, lock, accepting, unhealthy, executing, queue, sequence,
                   preserved, current, stop_requested, crashed, future, caller,
                   stopper, closes>>

WorkerDies ==
    /\ pc = "closing"
    /\ closes' = closes + 1
    /\ pc' = "dead"
    /\ UNCHANGED <<policy, lock, accepting, unhealthy, executing, queue, sequence,
                   preserved, current, stop_requested, crashed, future, caller,
                   stopper, close_called>>

-----------------------------------------------------------------------------
\* stop(), in thread s.

\* Mutant: every policy cancels.
CancelsAlways == accepting
CancelsPending == accepting /\ policy = "cancel_pending"

Stop(s) ==
    /\ stopper[s] = "ready" /\ lock = Free
    /\ accepting' = FALSE
    /\ lock' = IF CancelsPending THEN s ELSE Free
    /\ stopper' = [stopper EXCEPT ![s] =
                     IF CancelsPending THEN "cancelling"
                     ELSE IF pc = "none" THEN "unstarted"
                     ELSE IF accepting THEN "wake" ELSE "join"]
    /\ UNCHANGED <<policy, unhealthy, executing, queue, sequence, preserved,
                   workerVars, future, caller, close_called, closes>>

\* No thread was ever started: _cancel_jobs_without_worker(), _close_device_once().
StopUnstarted(s) ==
    /\ stopper[s] = "unstarted" /\ lock = Free
    /\ lock' = s
    /\ stopper' = [stopper EXCEPT ![s] = "unqueue"]
    /\ UNCHANGED <<policy, accepting, unhealthy, executing, queue, sequence,
                   preserved, workerVars, future, caller, close_called, closes>>

StopCloses(s) ==
    /\ stopper[s] = "close" /\ lock = Free
    /\ close_called' = TRUE
    /\ stopper' = [stopper EXCEPT ![s] = IF close_called THEN "true" ELSE "closing"]
    /\ UNCHANGED <<policy, lock, accepting, unhealthy, executing, queue, sequence,
                   preserved, workerVars, future, caller, closes>>

StopClosed(s) ==
    /\ stopper[s] = "closing"
    /\ closes' = closes + 1
    /\ stopper' = [stopper EXCEPT ![s] = "true"]
    /\ UNCHANGED <<policy, lock, accepting, unhealthy, executing, queue, sequence,
                   preserved, workerVars, future, caller, close_called>>

\* Mutant: the STOP is never queued.
WakeForgotten(s) ==
    /\ stopper[s] = "wake"
    /\ stopper' = [stopper EXCEPT ![s] = "join"]
    /\ UNCHANGED <<policy, lock, accepting, unhealthy, executing, queue, sequence,
                   preserved, workerVars, future, caller, close_called, closes>>

\* The STOP is queued outside the lock; queue.Full is swallowed.
Wake(s) ==
    /\ stopper[s] = "wake"
    /\ IF HasRoom
       THEN /\ queue' = queue \cup {Entry(PRIORITY_STOP, STOP)}
            /\ sequence' = sequence + 1
       ELSE UNCHANGED <<queue, sequence>>
    /\ stopper' = [stopper EXCEPT ![s] = "join"]
    /\ UNCHANGED <<policy, lock, accepting, unhealthy, executing, preserved,
                   workerVars, future, caller, close_called, closes>>

\* thread.join(timeout), then thread.is_alive().
Joined(s) ==
    /\ stopper[s] = "join" /\ pc = "dead"
    /\ stopper' = [stopper EXCEPT ![s] = "true"]
    /\ UNCHANGED <<policy, lock, accepting, unhealthy, executing, queue, sequence,
                   preserved, workerVars, future, caller, close_called, closes>>

JoinTimesOut(s) ==
    /\ stopper[s] = "join" /\ pc # "dead"
    /\ stopper' = [stopper EXCEPT ![s] = "isolate"]
    /\ UNCHANGED <<policy, lock, accepting, unhealthy, executing, queue, sequence,
                   preserved, workerVars, future, caller, close_called, closes>>

StopIsolates(s) ==
    /\ stopper[s] = "isolate"
    /\ MarkUnhealthy(s)
    /\ stopper' = [stopper EXCEPT ![s] = "isolating"]
    /\ UNCHANGED <<policy, executing, queue, sequence, preserved, workerVars, future,
                   caller, close_called, closes>>

-----------------------------------------------------------------------------
WorkerStep ==
    \/ Get \/ Flag \/ Expire \/ Begin \/ Finish \/ Finally
    \/ CheckStopping \/ CheckEmpty \/ CrashIsolates \/ WorkerCloses \/ WorkerDies

CallerStep(j) == Submit(j) \/ SubmitRefused(j) \/ CallTimesOut(j) \/ CallerMarksUnhealthy(j)

StopperStep(s) ==
    \/ Stop(s) \/ StopUnstarted(s) \/ StopCloses(s) \/ StopClosed(s) \/ Wake(s)
    \/ Joined(s) \/ JoinTimesOut(s) \/ StopIsolates(s)

CancelStep == CancelNext \/ CancelEnd

Next ==
    \/ Start
    \/ \E j \in Jobs : CallerStep(j)
    \/ WorkerStep
    \/ \E s \in Stoppers : StopperStep(s)
    \/ CancelStep

Spec == Init /\ [][Next]_vars

\* Threads that are in the middle of something are scheduled again, a callable
\* returns in the end, and self._lock is not denied to a thread forever (SF: the
\* lock is free again and again); nobody has to submit, time out, start or stop.
FairSpec ==
    /\ Spec
    /\ SF_vars(WorkerStep)
    /\ WF_vars(CancelStep)
    /\ \A s \in Stoppers :
        /\ SF_vars(StopUnstarted(s) \/ StopCloses(s) \/ StopIsolates(s))
        /\ WF_vars(StopClosed(s) \/ Wake(s) \/ Joined(s))

-----------------------------------------------------------------------------
\* Properties.

\* A worker thread that has left its loop leaves no accepted job behind: every
\* future it was handed has been answered, whether the worker drained, was
\* stopped with a full queue (the STOP was lost) or crashed.
NoOrphanedFuture ==
    pc \in Leaving \cup {"dead"} =>
        \A j \in Jobs : future[j] \notin {"pending", "running"}

\* _device_close runs at most once, and from the moment somebody owns the right
\* to run it no callable is in the worker and none can enter it any more,
\* whether the worker or a stop() of a worker never started closes the device.
ClosedOnceAfterUse ==
    /\ closes <= 1
    /\ close_called =>
        /\ pc \notin InLoop
        /\ ~accepting
        /\ \A j \in Jobs : future[j] # "running"

\* Once a worker is isolated, or stopped with cancel_pending, and the thread
\* that did it has released the lock, no job is left in the queue and none gets
\* in: only the job already taken from the queue may still reach the device.
ShutdownEmptiesQueue ==
    (unhealthy \/ (policy = "cancel_pending" /\ ~accepting)) /\ lock = Free =>
        \A e \in queue : e.item = STOP

\* With "drain", a job is only ever cancelled because the worker was isolated
\* or because its thread was never started.
DrainCancelsOnlyIsolated ==
    policy = "drain" /\ (\E j \in Jobs : future[j] = "cancelled") =>
        unhealthy \/ pc = "none"

\* What the callers may rely on, however the worker ends: every accepted job is answered,
\* a closed queue hands out no more jobs, and a draining worker drops none.
FuturesKept == NoOrphanedFuture /\ ShutdownEmptiesQueue /\ DrainCancelsOnlyIsolated

\* A stop() of a healthy worker never leaves it asleep: once the call has left
\* its wake-up behind (a STOP, or a queue too full to take one), the worker is
\* not blocked on an empty queue.
StopWakesWorker ==
    /\ ~accepting /\ ~unhealthy
    /\ pc = "get"
    /\ \A s \in Stoppers : stopper[s] \notin {"cancelling", "wake"}
    => queue # {}

\* Every job accepted by a started worker is answered in the end.
AcceptedJobsSettle ==
    \A j \in Jobs :
        future[j] = "pending" /\ pc # "none" ~> future[j] \in Settled

\* A stop() of a started worker ends with the thread dead and the device closed,
\* unless somebody isolated the worker.
StopEndsWorker ==
    ~accepting /\ pc # "none" ~> unhealthy \/ (pc = "dead" /\ closes = 1)

-----------------------------------------------------------------------------
\* What the repository says of the worker and the code does not do.

\* The comment in test_photo_fast() (camera_worker.py:374): a diagnostic click
\* never sits in the queue while other work runs and becomes a late exposure. It does: the
\* worker is not flagged busy yet when Submit looks between Get and Flag.
DiagnosticNeverWaits ==
    \A j \in RejectIfBusy : future[j] = "pending" /\ pc = "run" => current = j
=============================================================================
