------------------------ MODULE GenericWorkerProofs ------------------------
(***************************************************************************)
(* The safety properties of GenericWorker, for any set of jobs, any number *)
(* of stopping threads, both policies and any queue bound.                 *)
(***************************************************************************)
EXTENDS GenericWorker, FiniteSetTheorems, TLAPS

\* Who holds the lock is where the program counters say it is.
LockInv ==
    /\ lock = Worker <=> pc = "cancelling"
    /\ \A j \in Jobs : lock = j <=> caller[j] = "cancelling"
    /\ \A s \in Stoppers :
        lock = s <=> stopper[s] \in {"cancelling", "isolating", "unqueue"}
    /\ preserved => lock # Free

\* A future that is not settled is in the queue or in the worker's hands.
FutureInv ==
    /\ \A e \in queue : e.item # STOP => future[e.item] = "pending"
    /\ \A e, f \in queue : e.item = f.item /\ e.item # STOP => e = f
    /\ pc \in {"flag", "claim"} =>
        /\ current \in Jobs /\ future[current] = "pending"
        /\ \A e \in queue : e.item # current
    /\ pc = "run" => current \in Jobs /\ future[current] = "running"
    /\ \A j \in Jobs : future[j] = "pending" =>
        \/ \E e \in queue : e.item = j
        \/ current = j /\ pc \in {"flag", "claim"}
    /\ \A j \in Jobs : future[j] = "running" => current = j /\ pc = "run"

\* Every road out of service closes admission first.
AdmissionInv ==
    /\ unhealthy \/ stop_requested \/ preserved \/ close_called => ~accepting
    /\ pc \in {"empty", "cancelling", "dead"} \cup Leaving => ~accepting
    /\ \A s \in Stoppers : stopper[s] # "ready" => ~accepting
    /\ \A e \in queue : e.item = STOP => ~accepting

\* Only an isolated worker, a cancel_pending stop or a worker without a thread
\* has its queue cancelled.
CancelInv ==
    /\ lock \in Jobs \cup {Worker} => unhealthy
    /\ \A s \in Stoppers :
        /\ stopper[s] = "isolating" => unhealthy
        /\ stopper[s] = "cancelling" => policy = "cancel_pending"
        /\ stopper[s] \in {"unstarted", "unqueue", "close", "closing"} => pc = "none"
    /\ policy = "drain" => \A j \in Jobs : future[j] = "cancelled" =>
        unhealthy \/ (pc = "none" /\ ~accepting)

\* The right to close the device is taken once and used at most once.
CloseInv ==
    /\ close_called => pc \in {"none", "close", "closing", "dead"}
    /\ ~close_called => closes = 0
    /\ pc = "closing" => close_called /\ closes = 0
    /\ \A s \in Stoppers : stopper[s] = "closing" =>
        /\ close_called /\ closes = 0
        /\ \A t \in Stoppers : stopper[t] = "closing" => t = s
    /\ closes \in {0, 1}

DrainedInv ==
    /\ pc \in Leaving \cup {"dead"} => \A e \in queue : e.item = STOP
    /\ ShutdownEmptiesQueue
    /\ StopWakesWorker

IInv == /\ TypeInv /\ LockInv /\ FutureInv /\ AdmissionInv
        /\ CancelInv /\ CloseInv /\ DrainedInv

-----------------------------------------------------------------------------
\* A queue that refuses an entry has one.
LEMMA FullQueue == ~HasRoom => queue # {}
<1>1. Cardinality({}) = 0
  BY FS_EmptySet
<1>2. QED
  BY <1>1, ConstantsAssumption DEF HasRoom

\* Every step keeps the types.
LEMMA TypeStep == IInv /\ [Next]_vars => TypeInv'
<1> SUFFICES ASSUME TypeInv, FutureInv, [Next]_vars PROVE TypeInv'
  BY DEF IInv
<1> USE ConstantsAssumption, ThreadsAssumption DEF TypeInv, workerVars, InLoop, Leaving, Settled, Priorities, Entries, NotExecuting, NoJob
<1>1. CASE Start
  BY <1>1 DEF Start
<1>2. ASSUME NEW j \in Jobs, Submit(j) PROVE TypeInv'
  BY <1>2 DEF Submit, CanAccept, Entry
<1>3. ASSUME NEW j \in Jobs, SubmitRefused(j) PROVE TypeInv'
  BY <1>3 DEF SubmitRefused
<1>4. ASSUME NEW j \in Jobs, CallTimesOut(j) PROVE TypeInv'
  BY <1>4 DEF CallTimesOut
<1>5. ASSUME NEW j \in Jobs, CallerMarksUnhealthy(j) PROVE TypeInv'
  <2>1. /\ lock' = j /\ unhealthy' = TRUE /\ accepting' = FALSE
        /\ caller' = [caller EXCEPT ![j] = "cancelling"]
        /\ UNCHANGED <<policy, executing, queue, sequence, preserved, workerVars, future,
                       stopper, close_called, closes>>
    BY <1>5 DEF CallerMarksUnhealthy, MarkUnhealthy
  <2>2. caller' \in [Jobs -> {"idle", "waiting", "timedout", "cancelling", "raised"}]
    BY <2>1
  <2>3. /\ policy' \in {"drain", "cancel_pending"}
        /\ lock' \in Jobs \cup Stoppers \cup {Worker, Free}
        /\ accepting' \in BOOLEAN /\ unhealthy' \in BOOLEAN /\ preserved' \in BOOLEAN
        /\ stop_requested' \in BOOLEAN /\ crashed' \in BOOLEAN
        /\ close_called' \in BOOLEAN /\ sequence' \in Nat /\ closes' \in Nat
    BY <2>1
  <2>4. /\ executing' \in Priorities \cup {NotExecuting} /\ queue' \in SUBSET Entries
        /\ pc' \in InLoop \cup Leaving \cup {"none", "dead"}
        /\ current' \in Jobs \cup {NoJob}
        /\ future' \in [Jobs -> Settled \cup {"none", "pending", "running"}]
    BY <2>1
  <2>5. stopper' \in [Stoppers -> {"ready", "cancelling", "wake", "join", "isolate",
                                  "isolating", "unstarted", "unqueue", "close",
                                  "closing", "true", "false"}]
    BY <2>1
  <2>6. QED
    BY <2>2, <2>3, <2>4, <2>5
<1>6. CASE Get
  BY <1>6 DEF Get, IsFirst
<1>7. CASE Flag
  BY <1>7 DEF Flag, FutureInv
<1>8. CASE Expire
  BY <1>8 DEF Expire, FutureInv
<1>9. CASE Begin
  BY <1>9 DEF Begin, FutureInv
<1>10. CASE Finish
  BY <1>10 DEF Finish, FutureInv
<1>11. CASE Finally
  BY <1>11 DEF Finally
<1>12. CASE CheckStopping
  BY <1>12 DEF CheckStopping
<1>13. CASE CheckEmpty
  BY <1>13 DEF CheckEmpty
<1>14. CASE CrashIsolates
  BY <1>14 DEF CrashIsolates, MarkUnhealthy
<1>15. CASE WorkerCloses
  BY <1>15 DEF WorkerCloses
<1>16. CASE WorkerDies
  BY <1>16 DEF WorkerDies
<1>17. ASSUME NEW s \in Stoppers, Stop(s) PROVE TypeInv'
  <2>1. lock' \in Jobs \cup Stoppers \cup {Worker, Free}
    BY <1>17 DEF Stop
  <2>2. stopper' \in [Stoppers -> {"ready", "cancelling", "wake", "join", "isolate",
                                  "isolating", "unstarted", "unqueue", "close",
                                  "closing", "true", "false"}]
    BY <1>17 DEF Stop
  <2>3. accepting' = FALSE /\ UNCHANGED <<policy, unhealthy, executing, queue, sequence, preserved,
          pc, current, stop_requested, crashed, future, caller, close_called, closes>>
    BY <1>17 DEF Stop
  <2>4. /\ executing' \in Priorities \cup {NotExecuting} /\ queue' \in SUBSET Entries
        /\ pc' \in InLoop \cup Leaving \cup {"none", "dead"}
        /\ current' \in Jobs \cup {NoJob}
        /\ future' \in [Jobs -> Settled \cup {"none", "pending", "running"}]
        /\ caller' \in [Jobs -> {"idle", "waiting", "timedout", "cancelling", "raised"}]
    BY <2>3
  <2>5. /\ accepting' \in BOOLEAN /\ unhealthy' \in BOOLEAN /\ preserved' \in BOOLEAN
        /\ stop_requested' \in BOOLEAN /\ crashed' \in BOOLEAN
        /\ close_called' \in BOOLEAN /\ sequence' \in Nat /\ closes' \in Nat
        /\ policy' \in {"drain", "cancel_pending"}
    BY <2>3
  <2>6. QED
    BY <2>1, <2>2, <2>4, <2>5
<1>18. ASSUME NEW s \in Stoppers, StopUnstarted(s) PROVE TypeInv'
  BY <1>18 DEF StopUnstarted
<1>19. ASSUME NEW s \in Stoppers, StopCloses(s) PROVE TypeInv'
  BY <1>19 DEF StopCloses
<1>20. ASSUME NEW s \in Stoppers, StopClosed(s) PROVE TypeInv'
  BY <1>20 DEF StopClosed
<1>21. ASSUME NEW s \in Stoppers, Wake(s) PROVE TypeInv'
  <2>1. queue' \in SUBSET Entries /\ sequence' \in Nat
    BY <1>21 DEF Wake, Entry
  <2>2. /\ stopper' = [stopper EXCEPT ![s] = "join"]
        /\ UNCHANGED <<policy, lock, accepting, unhealthy, executing, preserved,
                       workerVars, future, caller, close_called, closes>>
    BY <1>21 DEF Wake
  <2>3. QED
    BY <2>1, <2>2
<1>22. ASSUME NEW s \in Stoppers, Joined(s) PROVE TypeInv'
  BY <1>22 DEF Joined
<1>23. ASSUME NEW s \in Stoppers, JoinTimesOut(s) PROVE TypeInv'
  BY <1>23 DEF JoinTimesOut
<1>24. ASSUME NEW s \in Stoppers, StopIsolates(s) PROVE TypeInv'
  <2>1. /\ lock' = s /\ unhealthy' = TRUE /\ accepting' = FALSE
        /\ stopper' = [stopper EXCEPT ![s] = "isolating"]
        /\ UNCHANGED <<policy, executing, queue, sequence, preserved, workerVars, future,
                       caller, close_called, closes>>
    BY <1>24 DEF StopIsolates, MarkUnhealthy
  <2>2. caller' \in [Jobs -> {"idle", "waiting", "timedout", "cancelling", "raised"}]
    BY <2>1
  <2>3. /\ policy' \in {"drain", "cancel_pending"}
        /\ lock' \in Jobs \cup Stoppers \cup {Worker, Free}
        /\ accepting' \in BOOLEAN /\ unhealthy' \in BOOLEAN /\ preserved' \in BOOLEAN
        /\ stop_requested' \in BOOLEAN /\ crashed' \in BOOLEAN
        /\ close_called' \in BOOLEAN /\ sequence' \in Nat /\ closes' \in Nat
    BY <2>1
  <2>4. /\ executing' \in Priorities \cup {NotExecuting} /\ queue' \in SUBSET Entries
        /\ pc' \in InLoop \cup Leaving \cup {"none", "dead"}
        /\ current' \in Jobs \cup {NoJob}
        /\ future' \in [Jobs -> Settled \cup {"none", "pending", "running"}]
    BY <2>1
  <2>5. stopper' \in [Stoppers -> {"ready", "cancelling", "wake", "join", "isolate",
                                  "isolating", "unstarted", "unqueue", "close",
                                  "closing", "true", "false"}]
    BY <2>1
  <2>6. QED
    BY <2>2, <2>3, <2>4, <2>5
<1>25. CASE CancelNext
  BY <1>25 DEF CancelNext, PreservesStop, IsFirst, FutureInv
<1>26. CASE CancelEnd
  <2>1. queue' \in SUBSET Entries
    BY <1>26 DEF CancelEnd, Entry
  <2>2. caller' \in [Jobs -> {"idle", "waiting", "timedout", "cancelling", "raised"}]
    BY <1>26 DEF CancelEnd
  <2>3. stopper' \in [Stoppers -> {"ready", "cancelling", "wake", "join", "isolate",
                                  "isolating", "unstarted", "unqueue", "close",
                                  "closing", "true", "false"}]
    BY <1>26 DEF CancelEnd, AfterCancel
  <2>4. QED
    BY <1>26, <2>1, <2>2, <2>3 DEF CancelEnd
<1>27. CASE UNCHANGED vars
  BY <1>27 DEF vars
<1>28. QED
  BY <1>1, <1>2, <1>3, <1>4, <1>5, <1>6, <1>7, <1>8, <1>9, <1>10, <1>11, <1>12, <1>13, <1>14, <1>15, <1>16, <1>17, <1>18, <1>19, <1>20, <1>21, <1>22, <1>23, <1>24, <1>25, <1>26, <1>27 DEF Next, CallerStep, WorkerStep, StopperStep, CancelStep

\* Every step keeps the lock and the program counters in agreement.
LEMMA LockStep == IInv /\ [Next]_vars => LockInv'
<1> SUFFICES ASSUME IInv, [Next]_vars PROVE LockInv'
  OBVIOUS
<1> USE ConstantsAssumption, ThreadsAssumption DEF IInv, TypeInv, workerVars, InLoop, Leaving, Settled, Priorities, Entries, NotExecuting, NoJob, LockInv
<1>1. CASE Start
  BY <1>1 DEF Start
<1>2. ASSUME NEW j \in Jobs, Submit(j) PROVE LockInv'
  BY <1>2 DEF Submit, CanAccept, Entry
<1>3. ASSUME NEW j \in Jobs, SubmitRefused(j) PROVE LockInv'
  BY <1>3 DEF SubmitRefused
<1>4. ASSUME NEW j \in Jobs, CallTimesOut(j) PROVE LockInv'
  BY <1>4 DEF CallTimesOut
<1>5. ASSUME NEW j \in Jobs, CallerMarksUnhealthy(j) PROVE LockInv'
  BY <1>5 DEF CallerMarksUnhealthy, MarkUnhealthy
<1>6. CASE Get
  BY <1>6 DEF Get, IsFirst
<1>7. CASE Flag
  BY <1>7 DEF Flag
<1>8. CASE Expire
  BY <1>8 DEF Expire
<1>9. CASE Begin
  BY <1>9 DEF Begin
<1>10. CASE Finish
  BY <1>10 DEF Finish
<1>11. CASE Finally
  BY <1>11 DEF Finally
<1>12. CASE CheckStopping
  BY <1>12 DEF CheckStopping
<1>13. CASE CheckEmpty
  BY <1>13 DEF CheckEmpty
<1>14. CASE CrashIsolates
  BY <1>14 DEF CrashIsolates, MarkUnhealthy
<1>15. CASE WorkerCloses
  BY <1>15 DEF WorkerCloses
<1>16. CASE WorkerDies
  BY <1>16 DEF WorkerDies
<1>17. ASSUME NEW s \in Stoppers, Stop(s) PROVE LockInv'
  BY <1>17 DEF Stop, CancelsPending
<1>18. ASSUME NEW s \in Stoppers, StopUnstarted(s) PROVE LockInv'
  BY <1>18 DEF StopUnstarted
<1>19. ASSUME NEW s \in Stoppers, StopCloses(s) PROVE LockInv'
  BY <1>19 DEF StopCloses
<1>20. ASSUME NEW s \in Stoppers, StopClosed(s) PROVE LockInv'
  BY <1>20 DEF StopClosed
<1>21. ASSUME NEW s \in Stoppers, Wake(s) PROVE LockInv'
  BY <1>21 DEF Wake, Entry
<1>22. ASSUME NEW s \in Stoppers, Joined(s) PROVE LockInv'
  BY <1>22 DEF Joined
<1>23. ASSUME NEW s \in Stoppers, JoinTimesOut(s) PROVE LockInv'
  BY <1>23 DEF JoinTimesOut
<1>24. ASSUME NEW s \in Stoppers, StopIsolates(s) PROVE LockInv'
  BY <1>24 DEF StopIsolates, MarkUnhealthy
<1>25. CASE CancelNext
  BY <1>25 DEF CancelNext, PreservesStop, IsFirst
<1>26. CASE CancelEnd
  BY <1>26 DEF CancelEnd, Entry, AfterCancel
<1>27. CASE UNCHANGED vars
  BY <1>27 DEF vars
<1>28. QED
  BY <1>1, <1>2, <1>3, <1>4, <1>5, <1>6, <1>7, <1>8, <1>9, <1>10, <1>11, <1>12, <1>13, <1>14, <1>15, <1>16, <1>17, <1>18, <1>19, <1>20, <1>21, <1>22, <1>23, <1>24, <1>25, <1>26, <1>27 DEF Next, CallerStep, WorkerStep, StopperStep, CancelStep

\* No step loses an accepted job: it moves from the queue to the worker's hands.
LEMMA FutureStep == IInv /\ [Next]_vars => FutureInv'
<1> SUFFICES ASSUME IInv, [Next]_vars PROVE FutureInv'
  OBVIOUS
<1> USE ConstantsAssumption, ThreadsAssumption DEF IInv, TypeInv, workerVars, InLoop, Leaving, Settled, Priorities, Entries, NotExecuting, NoJob, LockInv, FutureInv
<1>1. CASE Start
  BY <1>1 DEF Start
<1>2. ASSUME NEW j \in Jobs, Submit(j) PROVE FutureInv'
  <2>1. /\ queue' = queue \cup {Entry(Priority[j], j)} /\ Entry(Priority[j], j).item = j
        /\ future' = [future EXCEPT ![j] = "pending"] /\ future[j] = "none"
        /\ pc' = pc /\ current' = current
    BY <1>2 DEF Submit, Entry
  <2>2. \A e \in queue : e.item # j
    BY <2>1
  <2>3. pc \in {"flag", "claim", "run"} => current # j
    BY <2>1
  <2>4. QED
    BY <2>1, <2>2, <2>3
<1>3. ASSUME NEW j \in Jobs, SubmitRefused(j) PROVE FutureInv'
  BY <1>3 DEF SubmitRefused
<1>4. ASSUME NEW j \in Jobs, CallTimesOut(j) PROVE FutureInv'
  BY <1>4 DEF CallTimesOut
<1>5. ASSUME NEW j \in Jobs, CallerMarksUnhealthy(j) PROVE FutureInv'
  BY <1>5 DEF CallerMarksUnhealthy, MarkUnhealthy
<1>6. CASE Get
  BY <1>6 DEF Get, IsFirst
<1>7. CASE Flag
  BY <1>7 DEF Flag
<1>8. CASE Expire
  BY <1>8 DEF Expire
<1>9. CASE Begin
  BY <1>9 DEF Begin
<1>10. CASE Finish
  BY <1>10 DEF Finish
<1>11. CASE Finally
  BY <1>11 DEF Finally
<1>12. CASE CheckStopping
  BY <1>12 DEF CheckStopping
<1>13. CASE CheckEmpty
  BY <1>13 DEF CheckEmpty
<1>14. CASE CrashIsolates
  BY <1>14 DEF CrashIsolates, MarkUnhealthy
<1>15. CASE WorkerCloses
  BY <1>15 DEF WorkerCloses
<1>16. CASE WorkerDies
  BY <1>16 DEF WorkerDies
<1>17. ASSUME NEW s \in Stoppers, Stop(s) PROVE FutureInv'
  BY <1>17 DEF Stop, CancelsPending
<1>18. ASSUME NEW s \in Stoppers, StopUnstarted(s) PROVE FutureInv'
  BY <1>18 DEF StopUnstarted
<1>19. ASSUME NEW s \in Stoppers, StopCloses(s) PROVE FutureInv'
  BY <1>19 DEF StopCloses
<1>20. ASSUME NEW s \in Stoppers, StopClosed(s) PROVE FutureInv'
  BY <1>20 DEF StopClosed
<1>21. ASSUME NEW s \in Stoppers, Wake(s) PROVE FutureInv'
  BY <1>21 DEF Wake, Entry
<1>22. ASSUME NEW s \in Stoppers, Joined(s) PROVE FutureInv'
  BY <1>22 DEF Joined
<1>23. ASSUME NEW s \in Stoppers, JoinTimesOut(s) PROVE FutureInv'
  BY <1>23 DEF JoinTimesOut
<1>24. ASSUME NEW s \in Stoppers, StopIsolates(s) PROVE FutureInv'
  BY <1>24 DEF StopIsolates, MarkUnhealthy
<1>25. CASE CancelNext
  BY <1>25 DEF CancelNext, PreservesStop, IsFirst
<1>26. CASE CancelEnd
  <2>1. \A e \in queue' : e.item = STOP
    BY <1>26 DEF CancelEnd, Entry
  <2>2. /\ current' = current /\ future' = future
        /\ pc' = pc \/ (pc = "cancelling" /\ pc' = "close")
    BY <1>26 DEF CancelEnd
  <2>3. \A j \in Jobs : future[j] = "pending" => current = j /\ pc \in {"flag", "claim"}
    BY <1>26 DEF CancelEnd
  <2>4. QED
    BY <2>1, <2>2, <2>3
<1>27. CASE UNCHANGED vars
  BY <1>27 DEF vars
<1>28. QED
  BY <1>1, <1>2, <1>3, <1>4, <1>5, <1>6, <1>7, <1>8, <1>9, <1>10, <1>11, <1>12, <1>13, <1>14, <1>15, <1>16, <1>17, <1>18, <1>19, <1>20, <1>21, <1>22, <1>23, <1>24, <1>25, <1>26, <1>27 DEF Next, CallerStep, WorkerStep, StopperStep, CancelStep

\* Admission is closed for good, and before everything that relies on it.
LEMMA AdmissionStep == IInv /\ [Next]_vars => AdmissionInv'
<1> SUFFICES ASSUME IInv, [Next]_vars PROVE AdmissionInv'
  OBVIOUS
<1> USE ConstantsAssumption, ThreadsAssumption DEF IInv, TypeInv, workerVars, InLoop, Leaving, Settled, Priorities, Entries, NotExecuting, NoJob, LockInv, AdmissionInv
<1>1. CASE Start
  BY <1>1 DEF Start
<1>2. ASSUME NEW j \in Jobs, Submit(j) PROVE AdmissionInv'
  BY <1>2 DEF Submit, CanAccept, Entry
<1>3. ASSUME NEW j \in Jobs, SubmitRefused(j) PROVE AdmissionInv'
  BY <1>3 DEF SubmitRefused
<1>4. ASSUME NEW j \in Jobs, CallTimesOut(j) PROVE AdmissionInv'
  BY <1>4 DEF CallTimesOut
<1>5. ASSUME NEW j \in Jobs, CallerMarksUnhealthy(j) PROVE AdmissionInv'
  BY <1>5 DEF CallerMarksUnhealthy, MarkUnhealthy
<1>6. CASE Get
  BY <1>6 DEF Get, IsFirst
<1>7. CASE Flag
  BY <1>7 DEF Flag
<1>8. CASE Expire
  BY <1>8 DEF Expire
<1>9. CASE Begin
  BY <1>9 DEF Begin
<1>10. CASE Finish
  BY <1>10 DEF Finish
<1>11. CASE Finally
  BY <1>11 DEF Finally
<1>12. CASE CheckStopping
  BY <1>12 DEF CheckStopping
<1>13. CASE CheckEmpty
  BY <1>13 DEF CheckEmpty
<1>14. CASE CrashIsolates
  BY <1>14 DEF CrashIsolates, MarkUnhealthy
<1>15. CASE WorkerCloses
  BY <1>15 DEF WorkerCloses
<1>16. CASE WorkerDies
  BY <1>16 DEF WorkerDies
<1>17. ASSUME NEW s \in Stoppers, Stop(s) PROVE AdmissionInv'
  BY <1>17 DEF Stop, CancelsPending
<1>18. ASSUME NEW s \in Stoppers, StopUnstarted(s) PROVE AdmissionInv'
  BY <1>18 DEF StopUnstarted
<1>19. ASSUME NEW s \in Stoppers, StopCloses(s) PROVE AdmissionInv'
  BY <1>19 DEF StopCloses
<1>20. ASSUME NEW s \in Stoppers, StopClosed(s) PROVE AdmissionInv'
  BY <1>20 DEF StopClosed
<1>21. ASSUME NEW s \in Stoppers, Wake(s) PROVE AdmissionInv'
  BY <1>21 DEF Wake, Entry
<1>22. ASSUME NEW s \in Stoppers, Joined(s) PROVE AdmissionInv'
  BY <1>22 DEF Joined
<1>23. ASSUME NEW s \in Stoppers, JoinTimesOut(s) PROVE AdmissionInv'
  BY <1>23 DEF JoinTimesOut
<1>24. ASSUME NEW s \in Stoppers, StopIsolates(s) PROVE AdmissionInv'
  BY <1>24 DEF StopIsolates, MarkUnhealthy
<1>25. CASE CancelNext
  BY <1>25 DEF CancelNext, PreservesStop, IsFirst
<1>26. CASE CancelEnd
  BY <1>26 DEF CancelEnd, Entry, AfterCancel
<1>27. CASE UNCHANGED vars
  BY <1>27 DEF vars
<1>28. QED
  BY <1>1, <1>2, <1>3, <1>4, <1>5, <1>6, <1>7, <1>8, <1>9, <1>10, <1>11, <1>12, <1>13, <1>14, <1>15, <1>16, <1>17, <1>18, <1>19, <1>20, <1>21, <1>22, <1>23, <1>24, <1>25, <1>26, <1>27 DEF Next, CallerStep, WorkerStep, StopperStep, CancelStep

\* Only an isolation or a permitted stop cancels a job.
LEMMA CancelStepInv == IInv /\ [Next]_vars => CancelInv'
<1> SUFFICES ASSUME IInv, [Next]_vars PROVE CancelInv'
  OBVIOUS
<1> USE ConstantsAssumption, ThreadsAssumption DEF IInv, TypeInv, workerVars, InLoop, Leaving, Settled, Priorities, Entries, NotExecuting, NoJob, LockInv, AdmissionInv, CancelInv, FutureInv
<1>1. CASE Start
  BY <1>1 DEF Start
<1>2. ASSUME NEW j \in Jobs, Submit(j) PROVE CancelInv'
  BY <1>2 DEF Submit, CanAccept, Entry
<1>3. ASSUME NEW j \in Jobs, SubmitRefused(j) PROVE CancelInv'
  BY <1>3 DEF SubmitRefused
<1>4. ASSUME NEW j \in Jobs, CallTimesOut(j) PROVE CancelInv'
  BY <1>4 DEF CallTimesOut
<1>5. ASSUME NEW j \in Jobs, CallerMarksUnhealthy(j) PROVE CancelInv'
  BY <1>5 DEF CallerMarksUnhealthy, MarkUnhealthy
<1>6. CASE Get
  BY <1>6 DEF Get, IsFirst
<1>7. CASE Flag
  BY <1>7 DEF Flag
<1>8. CASE Expire
  BY <1>8 DEF Expire
<1>9. CASE Begin
  BY <1>9 DEF Begin
<1>10. CASE Finish
  BY <1>10 DEF Finish
<1>11. CASE Finally
  BY <1>11 DEF Finally
<1>12. CASE CheckStopping
  BY <1>12 DEF CheckStopping
<1>13. CASE CheckEmpty
  BY <1>13 DEF CheckEmpty
<1>14. CASE CrashIsolates
  BY <1>14 DEF CrashIsolates, MarkUnhealthy
<1>15. CASE WorkerCloses
  BY <1>15 DEF WorkerCloses
<1>16. CASE WorkerDies
  BY <1>16 DEF WorkerDies
<1>17. ASSUME NEW s \in Stoppers, Stop(s) PROVE CancelInv'
  BY <1>17 DEF Stop, CancelsPending
<1>18. ASSUME NEW s \in Stoppers, StopUnstarted(s) PROVE CancelInv'
  BY <1>18 DEF StopUnstarted
<1>19. ASSUME NEW s \in Stoppers, StopCloses(s) PROVE CancelInv'
  BY <1>19 DEF StopCloses
<1>20. ASSUME NEW s \in Stoppers, StopClosed(s) PROVE CancelInv'
  BY <1>20 DEF StopClosed
<1>21. ASSUME NEW s \in Stoppers, Wake(s) PROVE CancelInv'
  BY <1>21 DEF Wake, Entry
<1>22. ASSUME NEW s \in Stoppers, Joined(s) PROVE CancelInv'
  BY <1>22 DEF Joined
<1>23. ASSUME NEW s \in Stoppers, JoinTimesOut(s) PROVE CancelInv'
  BY <1>23 DEF JoinTimesOut
<1>24. ASSUME NEW s \in Stoppers, StopIsolates(s) PROVE CancelInv'
  BY <1>24 DEF StopIsolates, MarkUnhealthy
<1>25. CASE CancelNext
  BY <1>25 DEF CancelNext, PreservesStop, IsFirst
<1>26. CASE CancelEnd
  BY <1>26 DEF CancelEnd, Entry, AfterCancel
<1>27. CASE UNCHANGED vars
  BY <1>27 DEF vars
<1>28. QED
  BY <1>1, <1>2, <1>3, <1>4, <1>5, <1>6, <1>7, <1>8, <1>9, <1>10, <1>11, <1>12, <1>13, <1>14, <1>15, <1>16, <1>17, <1>18, <1>19, <1>20, <1>21, <1>22, <1>23, <1>24, <1>25, <1>26, <1>27 DEF Next, CallerStep, WorkerStep, StopperStep, CancelStep

\* The device is closed once, and outside the worker's loop.
LEMMA CloseStep == IInv /\ [Next]_vars => CloseInv'
<1> SUFFICES ASSUME IInv, [Next]_vars PROVE CloseInv'
  OBVIOUS
<1> USE ConstantsAssumption, ThreadsAssumption DEF IInv, TypeInv, workerVars, InLoop, Leaving, Settled, Priorities, Entries, NotExecuting, NoJob, LockInv, AdmissionInv, CancelInv, CloseInv
<1>1. CASE Start
  BY <1>1 DEF Start
<1>2. ASSUME NEW j \in Jobs, Submit(j) PROVE CloseInv'
  BY <1>2 DEF Submit, CanAccept, Entry
<1>3. ASSUME NEW j \in Jobs, SubmitRefused(j) PROVE CloseInv'
  BY <1>3 DEF SubmitRefused
<1>4. ASSUME NEW j \in Jobs, CallTimesOut(j) PROVE CloseInv'
  BY <1>4 DEF CallTimesOut
<1>5. ASSUME NEW j \in Jobs, CallerMarksUnhealthy(j) PROVE CloseInv'
  BY <1>5 DEF CallerMarksUnhealthy, MarkUnhealthy
<1>6. CASE Get
  BY <1>6 DEF Get, IsFirst
<1>7. CASE Flag
  BY <1>7 DEF Flag
<1>8. CASE Expire
  BY <1>8 DEF Expire
<1>9. CASE Begin
  BY <1>9 DEF Begin
<1>10. CASE Finish
  BY <1>10 DEF Finish
<1>11. CASE Finally
  BY <1>11 DEF Finally
<1>12. CASE CheckStopping
  BY <1>12 DEF CheckStopping
<1>13. CASE CheckEmpty
  BY <1>13 DEF CheckEmpty
<1>14. CASE CrashIsolates
  BY <1>14 DEF CrashIsolates, MarkUnhealthy
<1>15. CASE WorkerCloses
  BY <1>15 DEF WorkerCloses
<1>16. CASE WorkerDies
  BY <1>16 DEF WorkerDies
<1>17. ASSUME NEW s \in Stoppers, Stop(s) PROVE CloseInv'
  BY <1>17 DEF Stop, CancelsPending
<1>18. ASSUME NEW s \in Stoppers, StopUnstarted(s) PROVE CloseInv'
  BY <1>18 DEF StopUnstarted
<1>19. ASSUME NEW s \in Stoppers, StopCloses(s) PROVE CloseInv'
  BY <1>19 DEF StopCloses
<1>20. ASSUME NEW s \in Stoppers, StopClosed(s) PROVE CloseInv'
  BY <1>20 DEF StopClosed
<1>21. ASSUME NEW s \in Stoppers, Wake(s) PROVE CloseInv'
  BY <1>21 DEF Wake, Entry
<1>22. ASSUME NEW s \in Stoppers, Joined(s) PROVE CloseInv'
  BY <1>22 DEF Joined
<1>23. ASSUME NEW s \in Stoppers, JoinTimesOut(s) PROVE CloseInv'
  BY <1>23 DEF JoinTimesOut
<1>24. ASSUME NEW s \in Stoppers, StopIsolates(s) PROVE CloseInv'
  BY <1>24 DEF StopIsolates, MarkUnhealthy
<1>25. CASE CancelNext
  BY <1>25 DEF CancelNext, PreservesStop, IsFirst
<1>26. CASE CancelEnd
  BY <1>26 DEF CancelEnd, Entry, AfterCancel
<1>27. CASE UNCHANGED vars
  BY <1>27 DEF vars
<1>28. QED
  BY <1>1, <1>2, <1>3, <1>4, <1>5, <1>6, <1>7, <1>8, <1>9, <1>10, <1>11, <1>12, <1>13, <1>14, <1>15, <1>16, <1>17, <1>18, <1>19, <1>20, <1>21, <1>22, <1>23, <1>24, <1>25, <1>26, <1>27 DEF Next, CallerStep, WorkerStep, StopperStep, CancelStep

\* A queue that was shut down stays without jobs, and its worker is woken up.
LEMMA DrainedStep == IInv /\ [Next]_vars => DrainedInv'
<1> SUFFICES ASSUME IInv, [Next]_vars PROVE DrainedInv'
  OBVIOUS
<1> USE ConstantsAssumption, ThreadsAssumption DEF IInv, TypeInv, workerVars, InLoop, Leaving, Settled, Priorities, Entries, NotExecuting, NoJob, LockInv, AdmissionInv, CancelInv, FutureInv, DrainedInv, ShutdownEmptiesQueue, StopWakesWorker, HasRoom
<1>1. CASE Start
  BY <1>1 DEF Start
<1>2. ASSUME NEW j \in Jobs, Submit(j) PROVE DrainedInv'
  BY <1>2 DEF Submit, CanAccept, Entry
<1>3. ASSUME NEW j \in Jobs, SubmitRefused(j) PROVE DrainedInv'
  BY <1>3 DEF SubmitRefused
<1>4. ASSUME NEW j \in Jobs, CallTimesOut(j) PROVE DrainedInv'
  BY <1>4 DEF CallTimesOut
<1>5. ASSUME NEW j \in Jobs, CallerMarksUnhealthy(j) PROVE DrainedInv'
  BY <1>5 DEF CallerMarksUnhealthy, MarkUnhealthy
<1>6. CASE Get
  BY <1>6 DEF Get, IsFirst
<1>7. CASE Flag
  BY <1>7 DEF Flag
<1>8. CASE Expire
  BY <1>8 DEF Expire
<1>9. CASE Begin
  BY <1>9 DEF Begin
<1>10. CASE Finish
  BY <1>10 DEF Finish
<1>11. CASE Finally
  BY <1>11 DEF Finally
<1>12. CASE CheckStopping
  BY <1>12 DEF CheckStopping
<1>13. CASE CheckEmpty
  BY <1>13 DEF CheckEmpty
<1>14. CASE CrashIsolates
  BY <1>14 DEF CrashIsolates, MarkUnhealthy
<1>15. CASE WorkerCloses
  BY <1>15 DEF WorkerCloses
<1>16. CASE WorkerDies
  BY <1>16 DEF WorkerDies
<1>17. ASSUME NEW s \in Stoppers, Stop(s) PROVE DrainedInv'
  BY <1>17 DEF Stop, CancelsPending
<1>18. ASSUME NEW s \in Stoppers, StopUnstarted(s) PROVE DrainedInv'
  BY <1>18 DEF StopUnstarted
<1>19. ASSUME NEW s \in Stoppers, StopCloses(s) PROVE DrainedInv'
  BY <1>19 DEF StopCloses
<1>20. ASSUME NEW s \in Stoppers, StopClosed(s) PROVE DrainedInv'
  BY <1>20 DEF StopClosed
<1>21. ASSUME NEW s \in Stoppers, Wake(s) PROVE DrainedInv'
  <2>1. queue' # {}
    <3>1. CASE HasRoom
      BY <1>21, <3>1 DEF Wake
    <3>2. CASE ~HasRoom
      BY <1>21, <3>2, FullQueue DEF Wake
    <3>3. QED
      BY <3>1, <3>2
  <2>2. \A e \in queue' : e \in queue \/ e.item = STOP
    BY <1>21 DEF Wake, Entry
  <2>3. policy' = policy /\ pc' = pc /\ unhealthy' = unhealthy /\ accepting' = accepting /\ lock' = lock
    BY <1>21 DEF Wake
  <2>4. QED
    BY <2>1, <2>2, <2>3
<1>22. ASSUME NEW s \in Stoppers, Joined(s) PROVE DrainedInv'
  BY <1>22 DEF Joined
<1>23. ASSUME NEW s \in Stoppers, JoinTimesOut(s) PROVE DrainedInv'
  BY <1>23 DEF JoinTimesOut
<1>24. ASSUME NEW s \in Stoppers, StopIsolates(s) PROVE DrainedInv'
  BY <1>24 DEF StopIsolates, MarkUnhealthy
<1>25. CASE CancelNext
  BY <1>25 DEF CancelNext, PreservesStop, IsFirst
<1>26. CASE CancelEnd
  BY <1>26 DEF CancelEnd, Entry, AfterCancel
<1>27. CASE UNCHANGED vars
  BY <1>27 DEF vars
<1>28. QED
  BY <1>1, <1>2, <1>3, <1>4, <1>5, <1>6, <1>7, <1>8, <1>9, <1>10, <1>11, <1>12, <1>13, <1>14, <1>15, <1>16, <1>17, <1>18, <1>19, <1>20, <1>21, <1>22, <1>23, <1>24, <1>25, <1>26, <1>27 DEF Next, CallerStep, WorkerStep, StopperStep, CancelStep

-----------------------------------------------------------------------------
\* The invariant holds at the start.
LEMMA InitInv == Init => IInv
<1> SUFFICES ASSUME Init PROVE IInv
  OBVIOUS
<1> USE ConstantsAssumption, ThreadsAssumption DEF Init
<1>1. TypeInv
  BY DEF TypeInv, InLoop, Leaving, Settled, Entries, NotExecuting, NoJob
<1>2. LockInv /\ FutureInv
  BY DEF LockInv, FutureInv
<1>3. AdmissionInv /\ CancelInv /\ CloseInv
  BY DEF AdmissionInv, CancelInv, CloseInv, Leaving
<1>4. DrainedInv
  BY DEF DrainedInv, ShutdownEmptiesQueue, StopWakesWorker, Leaving
<1>5. QED
  BY <1>1, <1>2, <1>3, <1>4 DEF IInv

\* The inductive invariant of the worker.
THEOREM Invariance == Spec => []IInv
<1>1. IInv /\ [Next]_vars => IInv'
  BY TypeStep, LockStep, FutureStep, AdmissionStep, CancelStepInv, CloseStep, DrainedStep DEF IInv
<1>2. QED
  BY InitInv, <1>1, PTL DEF Spec

\* generic_worker.py keeps its data well-formed.
THEOREM TypeCorrect == Spec => []TypeInv
<1>1. IInv => TypeInv
  BY DEF IInv
<1>2. QED
  BY Invariance, <1>1, PTL

\* A worker whose loop has ended has answered every future it accepted, even
\* when the STOP was lost in a full queue or the callable killed the thread.
THEOREM FuturesAnswered == Spec => []NoOrphanedFuture
<1>1. IInv => NoOrphanedFuture
  BY ThreadsAssumption DEF IInv, FutureInv, DrainedInv, NoOrphanedFuture, Leaving
<1>2. QED
  BY Invariance, <1>1, PTL

\* The device is closed at most once, with no callable in the worker or to come.
THEOREM DeviceClosedOnce == Spec => []ClosedOnceAfterUse
<1>1. IInv => ClosedOnceAfterUse
  BY DEF IInv, FutureInv, AdmissionInv, CloseInv, ClosedOnceAfterUse, InLoop, Leaving
<1>2. QED
  BY Invariance, <1>1, PTL

\* An isolated worker, and one stopped with cancel_pending, runs no queued job.
THEOREM QueueEmptied == Spec => []ShutdownEmptiesQueue
<1>1. IInv => ShutdownEmptiesQueue
  BY DEF IInv, DrainedInv
<1>2. QED
  BY Invariance, <1>1, PTL

\* A draining stop cancels nothing unless the worker is isolated or unstarted.
THEOREM DrainKeepsJobs == Spec => []DrainCancelsOnlyIsolated
<1>1. IInv => DrainCancelsOnlyIsolated
  BY DEF IInv, CancelInv, DrainCancelsOnlyIsolated
<1>2. QED
  BY Invariance, <1>1, PTL

\* Callers keep their futures: the three facts above together.
THEOREM CallersKeepFutures == Spec => []FuturesKept
<1>1. NoOrphanedFuture /\ ShutdownEmptiesQueue /\ DrainCancelsOnlyIsolated => FuturesKept
  BY DEF FuturesKept
<1>2. QED
  BY FuturesAnswered, QueueEmptied, DrainKeepsJobs, <1>1, PTL

\* No stop() of a healthy worker leaves its thread blocked on an empty queue.
THEOREM StopNeverSleeps == Spec => []StopWakesWorker
<1>1. IInv => StopWakesWorker
  BY DEF IInv, DrainedInv
<1>2. QED
  BY Invariance, <1>1, PTL
=============================================================================
