----------------------- MODULE SupervisedDeviceProofs -----------------------
(***************************************************************************)
(* What SupervisedDevice guarantees for both kinds of device, any threads  *)
(* and any number of children.                                             *)
(***************************************************************************)
EXTENDS SupervisedDevice, TLAPS

Inside == {"startup", "send", "wait"}

\* The lock is held by exactly the thread that is inside a call, or by the owner from
\* the beginning of start().
LockInv ==
    \A t \in Threads : holder = t <=> pc[t] \in Inside \/ (t = Owner /\ pc[t] = "call")

\* A worker in service that has a handle has a pipe, and a call in progress has both.
ServiceInv ==
    /\ started /\ process # 0 => conn
    /\ \A t \in Threads : pc[t] \in Inside => started /\ process # 0

\* A child that works has the handle, and one that is not ready yet has done nothing.
DriverInv ==
    /\ \A g \in Generations : g \in plugin \/ request[g] # "none" => g = process /\ g \in alive
    /\ \A t \in Threads : pc[t] = "startup" => plugin = {} /\ \A g \in Generations : request[g] = "none"

IInv == TypeInv /\ LockInv /\ DriverInv /\ ServiceInv

-----------------------------------------------------------------------------
\* What the end of a child leaves behind, however the killing went.
LEMMA TerminateLeaves ==
    ASSUME TypeInv, DriverInv, NEW survives \in BOOLEAN, Terminate(survives)
    PROVE  /\ process' \in {0, process} /\ conn' = FALSE /\ reply' = "none"
           /\ generation' = generation
           /\ ~survives => process' = 0
           /\ alive' \subseteq alive /\ plugin' \subseteq alive' /\ plugin' \subseteq plugin
           /\ request' \in [Generations -> Operations]
           /\ \A g \in Generations : request'[g] \in {request[g], "none"}
           /\ \A g \in Generations : g \in plugin' \/ request'[g] # "none" => g = process' /\ g \in alive'
<1> USE DEF TypeInv, DriverInv, Terminate
<1>1. request' \in [Generations -> Operations]
  BY DEF Operations
<1>2. /\ process' \in {0, process} /\ conn' = FALSE /\ reply' = "none"
      /\ generation' = generation /\ plugin' \subseteq alive' /\ plugin' \subseteq plugin
      /\ ~survives => process' = 0
      /\ \A g \in Generations : request'[g] \in {request[g], "none"}
  OBVIOUS
<1>3. CASE survives
  BY <1>1, <1>2, <1>3
<1>4. CASE ~survives
  <2>1. alive' = alive \ {process} /\ plugin' = plugin \cap alive'
    BY <1>4
  <2>2. \A g \in Generations : g \notin plugin' /\ request'[g] = "none"
    BY <2>1
  <2>3. QED
    BY <1>1, <1>2, <2>1, <2>2
<1>5. QED
  BY <1>3, <1>4

\* The same of a handle whose child is known to be dead.
LEMMA DiscardLeaves ==
    ASSUME TypeInv, DriverInv, DiscardDead
    PROVE  /\ process' = 0 /\ conn' = FALSE /\ reply' = "none"
           /\ plugin = {} /\ \A g \in Generations : request[g] = "none"
           /\ UNCHANGED <<generation, alive, plugin, request>>
<1>1. plugin \subseteq Generations
  BY ConstantsAssumption DEF TypeInv, Generations
<1>2. QED
  BY <1>1 DEF DiscardDead, DriverInv

\* A thread that is not inside a call and takes no lock leaves the calls alone.
LEMMA OutsideStep ==
    ASSUME IInv, NEW t \in Threads, NEW place \in {"idle", "call", "mark", "clear"},
           t # Owner \/ "call" \notin {pc[t], place}, pc[t] \notin Inside, Goto(t, place),
           UNCHANGED <<holder, parentVars, alive, plugin, request>>
    PROVE  LockInv' /\ DriverInv' /\ ServiceInv'
<1>1. pc' = [pc EXCEPT ![t] = place]
  BY DEF Goto
<1>2. LockInv'
  BY <1>1 DEF IInv, TypeInv, LockInv, Inside
<1>3. DriverInv' /\ ServiceInv'
  BY <1>1 DEF IInv, TypeInv, DriverInv, ServiceInv, parentVars, Inside
<1>4. QED
  BY <1>2, <1>3

\* A call that ends leaves the lock free and nobody inside.
LEMMA LeaveStep ==
    ASSUME IInv, NEW t \in Threads, NEW place \in {"idle", "mark", "clear"},
           MayEnter(t) \/ pc[t] \in Inside,
           holder' = Free, Goto(t, place)
    PROVE  LockInv' /\ \A u \in Threads : pc'[u] \notin Inside
<1>1. pc' = [pc EXCEPT ![t] = place]
  BY DEF Goto
<1>2. \A u \in Threads \ {t} : pc[u] \notin Inside /\ ~(u = Owner /\ pc[u] = "call")
  BY ConstantsAssumption DEF IInv, LockInv, MayEnter, Owns, At, Inside, Threads
<1>3. Free \notin Threads
  BY ConstantsAssumption DEF Threads
<1>4. QED
  BY <1>1, <1>2, <1>3 DEF IInv, TypeInv, LockInv, Inside

\* A call that goes on keeps the lock, or takes it.
LEMMA InsideStep ==
    ASSUME IInv, NEW t \in Threads, NEW place \in Inside,
           MayEnter(t) \/ pc[t] \in Inside,
           holder' = t, Goto(t, place)
    PROVE  LockInv' /\ \A u \in Threads : pc'[u] \in Inside => u = t
<1>1. pc' = [pc EXCEPT ![t] = place]
  BY DEF Goto
<1>2. \A u \in Threads \ {t} : pc[u] \notin Inside /\ ~(u = Owner /\ pc[u] = "call")
  BY ConstantsAssumption DEF IInv, LockInv, MayEnter, Owns, At, Inside, Threads
<1>3. QED
  BY <1>1, <1>2 DEF IInv, TypeInv, LockInv, Inside

-----------------------------------------------------------------------------
\* Every step keeps the types.
LEMMA TypeStep == IInv /\ [Next]_vars => TypeInv'
<1> SUFFICES ASSUME IInv, [Next]_vars PROVE TypeInv'
  OBVIOUS
<1> USE ConstantsAssumption DEF TypeInv, parentVars, childVars, motorVars, Goto, Fail, Operations
<1>0. TypeInv /\ DriverInv /\ Owner \in Threads /\ Free \notin Threads
  BY DEF IInv, Threads
<1>1. CASE BeginStart
  BY <1>0, <1>1 DEF BeginStart, At
<1>2. CASE Shutdown
  <2>1. PICK survives \in BOOLEAN : Terminate(survives)
    BY <1>2 DEF Shutdown
  <2>2. QED
    BY <1>0, <1>2, <2>1, TerminateLeaves DEF Shutdown, Generations
<1>3. ASSUME NEW t \in Threads, BeginMotion(t) PROVE TypeInv'
  BY <1>0, <1>3 DEF BeginMotion
<1>4. ASSUME NEW t \in Threads, BeginStop(t) PROVE TypeInv'
  BY <1>0, <1>4 DEF BeginStop, StopCommands
<1>5. ASSUME NEW t \in Threads, BeginRead(t) PROVE TypeInv'
  BY <1>0, <1>5 DEF BeginRead
<1>6. ASSUME NEW t \in Threads, RefuseStopped(t) PROVE TypeInv'
  BY <1>0, <1>6 DEF RefuseStopped
<1>7. ASSUME NEW t \in Threads, ReuseChild(t) PROVE TypeInv'
  BY <1>0, <1>7 DEF ReuseChild
<1>8. ASSUME NEW t \in Threads, Spawn(t) PROVE TypeInv'
  BY <1>0, <1>8 DEF Spawn, Generations
<1>9. ASSUME NEW t \in Threads, Ready(t) PROVE TypeInv'
  BY <1>0, <1>9 DEF Ready
<1>10. ASSUME NEW t \in Threads, SpawnFails(t) PROVE TypeInv'
  BY <1>0, <1>10, DiscardLeaves DEF SpawnFails
<1>11. ASSUME NEW t \in Threads, StartupFails(t) PROVE TypeInv'
  <2>1. PICK survives \in BOOLEAN : Terminate(survives) /\ started' = (t # Owner /\ ~survives)
    BY <1>11 DEF StartupFails
  <2>2. QED
    BY <1>0, <1>11, <2>1, TerminateLeaves DEF StartupFails
<1>12. ASSUME NEW t \in Threads, Send(t) PROVE TypeInv'
  BY <1>0, <1>12 DEF Send
<1>13. ASSUME NEW t \in Threads, SendFails(t) PROVE TypeInv'
  BY <1>0, <1>13, TerminateLeaves DEF SendFails, KillCurrent
<1>14. ASSUME NEW t \in Threads, Answered(t) PROVE TypeInv'
  BY <1>0, <1>14 DEF Answered
<1>15. ASSUME NEW t \in Threads, CallTimesOut(t) PROVE TypeInv'
  <2>1. PICK survives \in BOOLEAN : KillCurrent(survives)
    BY <1>15 DEF CallTimesOut
  <2>2. QED
    BY <1>0, <1>15, <2>1, TerminateLeaves DEF CallTimesOut, KillCurrent
<1>16. ASSUME NEW t \in Threads, ChildExited(t) PROVE TypeInv'
  BY <1>0, <1>16, DiscardLeaves DEF ChildExited
<1>17. ASSUME NEW t \in Threads, MarkUnknown(t) PROVE TypeInv'
  BY <1>0, <1>17 DEF MarkUnknown
<1>18. ASSUME NEW t \in Threads, ClearUnknown(t) PROVE TypeInv'
  BY <1>0, <1>18 DEF ClearUnknown
<1>19. ASSUME NEW g \in Generations, ChildStep(g) PROVE TypeInv'
  <2>1. /\ g \in alive
        /\ request' = [request EXCEPT ![g] = "none"]
        /\ UNCHANGED <<kind, holder, started, process, conn, generation, unknown, pc, op, alive>>
        /\ ChildMoves(g) \/ ChildStops(g) \/ ChildStopsJog(g) \/ ChildReads(g) \/ ChildRefuses(g)
    BY <1>19 DEF ChildStep
  <2>2. request' \in [Generations -> Operations]
    BY <1>0, <2>1
  <2>3. /\ plugin' \subseteq alive /\ moving' \in BOOLEAN /\ ambiguous' \in BOOLEAN
        /\ reply' \in {"none", "result", "error"}
    <3>1. CASE ChildMoves(g)
      BY <1>0, <2>1, <3>1 DEF ChildMoves, Reply
    <3>2. CASE ChildStops(g)
      BY <1>0, <2>1, <3>2 DEF ChildStops, Reply
    <3>3. CASE ChildReads(g)
      BY <1>0, <2>1, <3>3 DEF ChildReads, Reply
    <3>4. CASE ChildRefuses(g)
      BY <1>0, <2>1, <3>4 DEF ChildRefuses, Reply
    <3>5. CASE ChildStopsJog(g)
      BY <1>0, <2>1, <3>5 DEF ChildStopsJog, Reply
    <3>6. QED
      BY <2>1, <3>1, <3>2, <3>3, <3>4, <3>5
  <2>4. QED
    BY <1>0, <2>1, <2>2, <2>3
<1>20. ASSUME NEW g \in Generations, ChildDies(g) PROVE TypeInv'
  BY <1>0, <1>20 DEF ChildDies
<1>21. CASE MotionEnds
  BY <1>0, <1>21 DEF MotionEnds
<1>22. CASE UNCHANGED vars
  BY <1>0, <1>22 DEF vars
<1>23. ASSUME NEW t \in Threads, StartupClosed(t) PROVE TypeInv'
  BY <1>0, <1>23 DEF StartupClosed
<1>24. QED
  BY <1>23, <1>1, <1>2, <1>3, <1>4, <1>5, <1>6, <1>7, <1>8, <1>9, <1>10, <1>11, <1>12, <1>13, <1>14, <1>15, <1>16, <1>17, <1>18, <1>19, <1>20, <1>21, <1>22 DEF Next, Begin, Proceed

-----------------------------------------------------------------------------
\* Every step keeps the lock with the thread that is inside, the one child that has a
\* handle, and its pipe.
LEMMA SafeStep == IInv /\ [Next]_vars => LockInv' /\ DriverInv' /\ ServiceInv'
<1> DEFINE Goal == LockInv /\ DriverInv /\ ServiceInv
<1> SUFFICES ASSUME IInv, [Next]_vars PROVE Goal'
  BY DEF Goal
<1> HIDE DEF Goal
<1>0. /\ TypeInv /\ LockInv /\ DriverInv /\ ServiceInv
      /\ Owner \in Threads /\ Free \notin Threads /\ Owner \notin Callers
  BY ConstantsAssumption DEF IInv, Threads
<1>1. CASE BeginStart
  <2>1. /\ pc' = [pc EXCEPT ![Owner] = "call"] /\ holder = Free /\ holder' = Owner
        /\ process = 0 /\ UNCHANGED <<process, conn, alive, plugin, request>>
    BY <1>1 DEF BeginStart, Goto, childVars
  <2>2. \A t \in Threads : pc[t] \notin Inside
    BY <1>0, <2>1 DEF LockInv
  <2>3. LockInv'
    BY <1>0, <2>1, <2>2 DEF LockInv, TypeInv, Inside
  <2>4. DriverInv' /\ ServiceInv'
    BY <1>0, <2>1, <2>2 DEF DriverInv, ServiceInv, TypeInv, Inside
  <2>5. QED
    BY <2>3, <2>4 DEF Goal
<1>2. CASE Shutdown
  <2>1. PICK survives \in BOOLEAN : Terminate(survives)
    BY <1>2 DEF Shutdown
  <2>2. holder = Free /\ started' = FALSE /\ UNCHANGED <<holder, pc>>
    BY <1>2 DEF Shutdown
  <2>3. \A t \in Threads : pc[t] \notin Inside
    BY <1>0, <2>2 DEF LockInv
  <2>4. LockInv' /\ ServiceInv'
    BY <1>0, <2>2, <2>3 DEF LockInv, ServiceInv
  <2>5. DriverInv'
    BY <1>0, <2>1, <2>2, <2>3, TerminateLeaves DEF DriverInv, Inside
  <2>6. QED
    BY <2>4, <2>5 DEF Goal
<1>3. ASSUME NEW t \in Threads, Begin(t) PROVE Goal'
  <2>1. /\ t # Owner /\ pc[t] \notin Inside /\ Goto(t, "call")
        /\ UNCHANGED <<holder, parentVars, alive, plugin, request>>
    BY <1>0, <1>3 DEF Begin, BeginMotion, BeginStop, BeginRead, At, Inside, Callers, childVars
  <2>2. QED
    BY <2>1, OutsideStep DEF Goal
<1>4. ASSUME NEW t \in Threads, MarkUnknown(t) \/ ClearUnknown(t) PROVE Goal'
  <2>1. /\ "call" \notin {pc[t], "idle"} /\ pc[t] \notin Inside /\ Goto(t, "idle")
        /\ UNCHANGED <<holder, parentVars, alive, plugin, request>>
    BY <1>4 DEF MarkUnknown, ClearUnknown, At, Inside, childVars
  <2>2. QED
    BY <2>1, OutsideStep DEF Goal
<1>5. ASSUME NEW t \in Threads, ReuseChild(t) PROVE Goal'
  <2>1. /\ MayEnter(t) /\ started /\ process \in alive /\ holder' = t /\ Goto(t, "send")
        /\ UNCHANGED <<started, process, conn, alive, plugin, request>>
    BY <1>5 DEF ReuseChild, parentVars, childVars
  <2>2. LockInv' /\ \A u \in Threads : pc'[u] \in Inside => u = t
    BY <2>1, InsideStep DEF Inside
  <2>3. DriverInv' /\ ServiceInv'
    BY <1>0, <2>1, <2>2 DEF DriverInv, ServiceInv, TypeInv, Generations, Goto, Inside
  <2>4. QED
    BY <2>2, <2>3 DEF Goal
<1>6. ASSUME NEW t \in Threads, Spawn(t) PROVE Goal'
  <2>1. /\ MayEnter(t) /\ started /\ process \notin alive /\ holder' = t
        /\ Goto(t, "startup") /\ UNCHANGED started
        /\ process' = generation + 1 /\ conn' = TRUE
        /\ alive' = alive \cup {generation + 1} /\ UNCHANGED <<plugin, request>>
    BY <1>6 DEF Spawn
  <2>2. LockInv' /\ \A u \in Threads : pc'[u] \in Inside => u = t
    BY <2>1, InsideStep DEF Inside
  <2>3. plugin = {} /\ \A g \in Generations : request[g] = "none"
    BY <1>0, <2>1, ConstantsAssumption DEF DriverInv, TypeInv, Generations
  <2>4. DriverInv' /\ ServiceInv'
    BY <1>0, <2>1, <2>2, <2>3 DEF DriverInv, ServiceInv, TypeInv
  <2>5. QED
    BY <2>2, <2>4 DEF Goal
<1>7. ASSUME NEW t \in Threads, RefuseStopped(t) PROVE Goal'
  <2>1. PICK place \in {"idle", "mark"} : Goto(t, place)
    BY <1>7 DEF RefuseStopped, Fail
  <2>2. MayEnter(t) /\ holder' = Free /\ UNCHANGED <<started, process, conn, alive, plugin, request>>
    BY <1>7 DEF RefuseStopped, Fail, parentVars, childVars
  <2>3. LockInv' /\ \A u \in Threads : pc'[u] \notin Inside
    BY <2>1, <2>2, LeaveStep
  <2>4. DriverInv' /\ ServiceInv'
    BY <1>0, <2>2, <2>3 DEF DriverInv, ServiceInv, Inside
  <2>5. QED
    BY <2>3, <2>4 DEF Goal
<1>8. ASSUME NEW t \in Threads, Ready(t) PROVE Goal'
  <2>1. At(t, "startup") /\ UNCHANGED <<started, process, conn, alive, plugin, request>>
    BY <1>8 DEF Ready, parentVars, childVars
  <2>2. pc[t] \in Inside /\ holder = t /\ started /\ process # 0
    BY <1>0, <2>1 DEF At, Inside, LockInv, ServiceInv
  <2>3. LockInv' /\ \A u \in Threads : pc'[u] \in Inside => u = t
    <3>1. CASE holder' = Free /\ Goto(t, "idle")
      BY <2>2, <3>1, LeaveStep
    <3>2. CASE holder' = t /\ Goto(t, "send")
      BY <2>2, <3>2, InsideStep DEF Inside
    <3>3. QED
      BY <1>8, <2>2, <3>1, <3>2 DEF Ready
  <2>4. pc'[t] # "startup"
    BY <1>0, <1>8 DEF Ready, Goto, TypeInv
  <2>5. DriverInv' /\ ServiceInv'
    BY <1>0, <2>1, <2>2, <2>3, <2>4 DEF DriverInv, ServiceInv, Inside
  <2>6. QED
    BY <2>3, <2>5 DEF Goal
<1>9. ASSUME NEW t \in Threads, SpawnFails(t) PROVE Goal'
  <2>1. MayEnter(t) /\ DiscardDead /\ holder' = Free /\ Goto(t, "idle")
    BY <1>9 DEF SpawnFails
  <2>2. LockInv' /\ \A u \in Threads : pc'[u] \notin Inside
    BY <2>1, LeaveStep
  <2>3. process' = 0 /\ plugin' = {} /\ \A g \in Generations : request'[g] = "none"
    BY <1>0, <2>1, DiscardLeaves
  <2>4. QED
    BY <2>2, <2>3 DEF Goal, DriverInv, ServiceInv
<1>10. ASSUME NEW t \in Threads, StartupFails(t) PROVE Goal'
  <2>1. PICK survives \in BOOLEAN : Terminate(survives) /\ started' = (t # Owner /\ ~survives)
    BY <1>10 DEF StartupFails
  <2>2. PICK place \in {"idle", "mark"} : Goto(t, place)
    BY <1>10 DEF StartupFails, Fail
  <2>3. pc[t] \in Inside /\ holder' = Free
    BY <1>10 DEF StartupFails, Fail, At, Inside
  <2>4. LockInv' /\ \A u \in Threads : pc'[u] \notin Inside
    BY <2>2, <2>3, LeaveStep
  <2>5. DriverInv' /\ (~survives => process' = 0)
    BY <1>0, <2>1, <2>4, TerminateLeaves DEF DriverInv, Inside
  <2>6. QED
    BY <2>1, <2>4, <2>5 DEF Goal, ServiceInv
<1>11. ASSUME NEW t \in Threads, Send(t) PROVE Goal'
  <2>1. /\ pc[t] \in Inside /\ Goto(t, "wait") /\ UNCHANGED <<holder, started, process, conn, alive, plugin>>
        /\ process \in alive /\ request' = [request EXCEPT ![process] = op[t]]
    BY <1>11 DEF Send, At, Inside, parentVars
  <2>2. holder = t /\ started /\ process # 0
    BY <1>0, <2>1 DEF LockInv, ServiceInv
  <2>3. LockInv' /\ \A u \in Threads : pc'[u] \in Inside => u = t
    BY <2>1, <2>2, InsideStep DEF Inside
  <2>4. \A u \in Threads : pc'[u] # "startup"
    BY <1>0, <2>1, <2>3 DEF Goto, TypeInv, Inside
  <2>5. DriverInv' /\ ServiceInv'
    BY <1>0, <2>1, <2>2, <2>3, <2>4 DEF DriverInv, ServiceInv, TypeInv
  <2>6. QED
    BY <2>3, <2>5 DEF Goal
<1>12. ASSUME NEW t \in Threads, SendFails(t) \/ CallTimesOut(t) PROVE Goal'
  <2>1. PICK survives \in BOOLEAN : KillCurrent(survives)
    BY <1>12 DEF SendFails, CallTimesOut
  <2>2. PICK place \in {"idle", "mark"} : Goto(t, place)
    BY <1>12 DEF SendFails, CallTimesOut, Fail
  <2>3. pc[t] \in Inside /\ holder' = Free
    BY <1>12 DEF SendFails, CallTimesOut, Fail, At, Inside
  <2>4. LockInv' /\ \A u \in Threads : pc'[u] \notin Inside
    BY <2>2, <2>3, LeaveStep
  <2>5. DriverInv' /\ (~survives => process' = 0) /\ started' = (started /\ ~survives)
    BY <1>0, <2>1, <2>4, TerminateLeaves DEF KillCurrent, DriverInv, Inside
  <2>6. QED
    BY <2>4, <2>5 DEF Goal, ServiceInv
<1>13. ASSUME NEW t \in Threads, Answered(t) PROVE Goal'
  <2>1. PICK place \in {"idle", "clear"} : Goto(t, place)
    BY <1>13 DEF Answered
  <2>2. pc[t] \in Inside /\ holder' = Free /\ UNCHANGED <<started, process, conn, alive, plugin, request>>
    BY <1>13 DEF Answered, At, Inside, parentVars
  <2>3. LockInv' /\ \A u \in Threads : pc'[u] \notin Inside
    BY <2>1, <2>2, LeaveStep
  <2>4. DriverInv' /\ ServiceInv'
    BY <1>0, <2>2, <2>3 DEF DriverInv, ServiceInv, Inside
  <2>5. QED
    BY <2>3, <2>4 DEF Goal
<1>14. ASSUME NEW t \in Threads, ChildExited(t) PROVE Goal'
  <2>1. PICK place \in {"idle", "mark"} : Goto(t, place)
    BY <1>14 DEF ChildExited, Fail
  <2>2. pc[t] \in Inside /\ holder' = Free /\ DiscardDead
    BY <1>14 DEF ChildExited, Fail, At, Inside
  <2>3. LockInv' /\ \A u \in Threads : pc'[u] \notin Inside
    BY <2>1, <2>2, LeaveStep
  <2>4. process' = 0 /\ plugin' = {} /\ \A g \in Generations : request'[g] = "none"
    BY <1>0, <2>2, DiscardLeaves
  <2>5. QED
    BY <2>3, <2>4 DEF Goal, DriverInv, ServiceInv
<1>15. ASSUME NEW t \in Threads, StartupClosed(t) PROVE Goal'
  <2>1. PICK place \in {"idle", "mark"} : Goto(t, place)
    BY <1>15 DEF StartupClosed, Fail
  <2>2. pc[t] = "startup" /\ process' = 0 /\ holder' = Free /\ UNCHANGED <<alive, plugin, request>>
    BY <1>15 DEF StartupClosed, Fail, At
  <2>3. LockInv' /\ \A u \in Threads : pc'[u] \notin Inside
    BY <2>1, <2>2, LeaveStep DEF Inside
  <2>4. plugin' = {} /\ \A g \in Generations : request'[g] = "none"
    BY <1>0, <2>2 DEF DriverInv
  <2>5. QED
    BY <2>2, <2>3, <2>4 DEF Goal, DriverInv, ServiceInv
<1>16. ASSUME NEW g \in Generations, ChildStep(g) PROVE Goal'
  <2>1. /\ g \in alive /\ request[g] # "none" /\ request' = [request EXCEPT ![g] = "none"]
        /\ plugin' \subseteq plugin \cup {g}
        /\ UNCHANGED <<holder, started, process, conn, pc, alive>>
    BY <1>16 DEF ChildStep, ChildMoves, ChildStops, ChildStopsJog, ChildReads, ChildRefuses, parentVars
  <2>2. g = process /\ \A t \in Threads : pc[t] # "startup"
    BY <1>0, <2>1 DEF DriverInv
  <2>3. DriverInv'
    BY <1>0, <2>1, <2>2 DEF DriverInv, TypeInv
  <2>4. QED
    BY <1>0, <2>1, <2>3 DEF Goal, LockInv, ServiceInv
<1>17. ASSUME NEW g \in Generations, ChildDies(g) PROVE Goal'
  <2>1. /\ alive' = alive \ {g} /\ plugin' = plugin \ {g} /\ request' = [request EXCEPT ![g] = "none"]
        /\ UNCHANGED <<holder, started, process, conn, pc>>
    BY <1>17 DEF ChildDies, parentVars
  <2>2. DriverInv'
    BY <1>0, <2>1 DEF DriverInv, TypeInv
  <2>3. QED
    BY <1>0, <2>1, <2>2 DEF Goal, LockInv, ServiceInv
<1>18. CASE MotionEnds \/ UNCHANGED vars
  <2>1. UNCHANGED <<holder, started, process, conn, pc, alive, plugin, request>>
    BY <1>18 DEF MotionEnds, vars, parentVars, childVars
  <2>2. QED
    BY <1>0, <2>1 DEF Goal, LockInv, DriverInv, ServiceInv
<1>19. QED
  BY <1>1, <1>2, <1>3, <1>4, <1>5, <1>6, <1>7, <1>8, <1>9, <1>10, <1>11, <1>12, <1>13, <1>14, <1>15,
     <1>16, <1>17, <1>18 DEF Next, Proceed

-----------------------------------------------------------------------------
LEMMA InitIInv == Init => IInv
<1> SUFFICES ASSUME Init PROVE IInv
  OBVIOUS
<1>1. TypeInv
  <2>1. /\ pc \in [Threads -> {"idle", "call", "startup", "send", "wait", "mark", "clear"}]
        /\ op \in [Threads -> Operations]
        /\ request \in [Generations -> Operations]
    BY DEF Init, Operations
  <2>2. generation \in 0 .. MaxGeneration
    BY ConstantsAssumption DEF Init
  <2>3. QED
    BY <2>1, <2>2 DEF Init, TypeInv
<1>2. LockInv
  BY ConstantsAssumption DEF Init, LockInv, Inside
<1>3. DriverInv /\ ServiceInv
  BY DEF Init, DriverInv, ServiceInv, Inside
<1>4. QED
  BY <1>1, <1>2, <1>3 DEF IInv

\* The inductive invariant holds of both kinds of device, any threads and any bound on
\* the number of children.
THEOREM DeviceInvariance == Spec => []IInv
<1>1. IInv /\ [Next]_vars => IInv'
  BY TypeStep, SafeStep DEF IInv
<1>2. QED
  BY InitIInv, <1>1, PTL DEF Spec

\* TypeInv: the parent, its calls, the children and the motor stay in their types.
THEOREM DeviceTypes == Spec => []TypeInv
<1>1. IInv => TypeInv
  BY DEF IInv
<1>2. QED
  BY DeviceInvariance, <1>1, PTL

\* OneDriver: whatever survives a kill, times out, is restarted or was forgotten during its startup,
\* the child that _process names is the only one that has the hardware open or is asked to drive it.
THEOREM DeviceHasOneDriver == Spec => []OneDriver
<1>1. IInv => OneDriver
  BY DEF IInv, DriverInv, OneDriver
<1>2. QED
  BY DeviceInvariance, <1>1, PTL

\* LiveChildHasConnection: the assertion of call() on the pipe never fails, with any
\* number of threads that kill and respawn the child.
THEOREM DeviceHasConnection == Spec => []LiveChildHasConnection
<1>1. IInv => LiveChildHasConnection
  BY DEF IInv, ServiceInv, LiveChildHasConnection, At, Inside
<1>2. QED
  BY DeviceInvariance, <1>1, PTL

\* ChildOwned: the two facts above together.
THEOREM DeviceOwnsChild == Spec => []ChildOwned
<1>1. OneDriver /\ LiveChildHasConnection => ChildOwned
  BY DEF ChildOwned
<1>2. QED
  BY DeviceHasOneDriver, DeviceHasConnection, <1>1, PTL

-----------------------------------------------------------------------------
(* What an answer tells of the motor *)

\* The call that waits is the one the child works for; what it has answered is done.
AnswerInv ==
    \A t \in Threads : At(t, "wait") =>
        /\ request[process] \in {op[t], "none"}
        /\ reply # "none" => request[process] = "none"
        /\ reply = "result" /\ IsRecovery(t) => ~moving

\* One thread at most waits, and then no other is inside a call.
LEMMA WaitsAlone ==
    ASSUME IInv, NEW t \in Threads, MayEnter(t) \/ pc[t] \in Inside
    PROVE  \A u \in Threads \ {t} : pc[u] \notin Inside
BY ConstantsAssumption DEF IInv, LockInv, MayEnter, Owns, At, Inside, Threads

\* A step that lets nobody wait.
LEMMA NobodyWaits ==
    ASSUME IInv, NEW t \in Threads, NEW place \in {"idle", "mark", "clear", "startup", "send"},
           MayEnter(t) \/ pc[t] \in Inside, Goto(t, place)
    PROVE  AnswerInv'
<1>1. \A u \in Threads \ {t} : pc[u] \notin Inside
    BY WaitsAlone
<1>2. \A u \in Threads : pc'[u] # "wait"
    BY <1>1 DEF Goto, IInv, TypeInv, Inside
<1>3. QED
    BY <1>2 DEF AnswerInv, At

\* A step outside the calls, which lets nobody wait who did not.
LEMMA WaitGoesOn ==
    ASSUME IInv, AnswerInv, UNCHANGED <<kind, process, request, reply, moving>>,
           NEW t \in Threads, pc'[t] # "wait",
           \A u \in Threads \ {t} : pc'[u] = pc[u] /\ op'[u] = op[u]
    PROVE  AnswerInv'
BY DEF AnswerInv, At, IsRecovery

\* Every step keeps what an answer tells.
LEMMA AnswerStep == IInv /\ AnswerInv /\ [Next]_vars => AnswerInv'
<1> SUFFICES ASSUME IInv, AnswerInv, [Next]_vars PROVE AnswerInv'
    OBVIOUS
<1>0. /\ TypeInv /\ LockInv /\ DriverInv /\ ServiceInv
      /\ Owner \in Threads /\ Free \notin Threads
    BY ConstantsAssumption DEF IInv, Threads
<1>1. CASE BeginStart \/ Shutdown
    <2>1. holder = Free /\ (pc' = pc \/ pc' = [pc EXCEPT ![Owner] = "call"])
        BY <1>1 DEF BeginStart, Shutdown, Goto
    <2>2. \A u \in Threads : pc[u] # "wait"
        BY <1>0, <2>1 DEF LockInv, Inside
    <2>3. \A u \in Threads : pc'[u] # "wait"
        BY <1>0, <2>1, <2>2 DEF TypeInv
    <2>4. QED
        BY <2>3 DEF AnswerInv, At
<1>2. ASSUME NEW t \in Threads, Begin(t) PROVE AnswerInv'
    <2>1. /\ UNCHANGED <<kind, process, request, reply, moving>>
          /\ Goto(t, "call") /\ op' \in {[op EXCEPT ![t] = o] : o \in Operations}
        BY <1>2 DEF Begin, BeginMotion, BeginStop, StopCommands, BeginRead, parentVars, childVars, motorVars, Operations
    <2>2. pc'[t] # "wait" /\ \A u \in Threads \ {t} : pc'[u] = pc[u] /\ op'[u] = op[u]
        BY <1>0, <2>1 DEF Goto, TypeInv
    <2>3. QED
        BY <2>1, <2>2, WaitGoesOn
<1>3. ASSUME NEW t \in Threads, MarkUnknown(t) \/ ClearUnknown(t) PROVE AnswerInv'
    <2>1. UNCHANGED <<kind, process, request, reply, moving, op>> /\ Goto(t, "idle")
        BY <1>3 DEF MarkUnknown, ClearUnknown, parentVars, childVars, motorVars
    <2>2. pc'[t] # "wait" /\ \A u \in Threads \ {t} : pc'[u] = pc[u] /\ op'[u] = op[u]
        BY <1>0, <2>1 DEF Goto, TypeInv
    <2>3. QED
        BY <2>1, <2>2, WaitGoesOn
<1>4. ASSUME NEW t \in Threads,
             RefuseStopped(t) \/ ReuseChild(t) \/ Spawn(t) \/ SpawnFails(t) \/ Ready(t) \/ StartupFails(t)
             \/ StartupClosed(t) \/ SendFails(t) \/ Answered(t) \/ CallTimesOut(t) \/ ChildExited(t)
      PROVE  AnswerInv'
    <2>1. MayEnter(t) \/ pc[t] \in Inside
        BY <1>4 DEF RefuseStopped, ReuseChild, Spawn, SpawnFails, Ready, StartupFails, StartupClosed, SendFails, Answered,
                    CallTimesOut, ChildExited, At, Inside
    <2>2. \E place \in {"idle", "mark", "clear", "startup", "send"} : Goto(t, place)
        BY <1>4 DEF RefuseStopped, ReuseChild, Spawn, SpawnFails, Ready, StartupFails, StartupClosed, SendFails, Answered,
                    CallTimesOut, ChildExited, Fail
    <2>3. QED
        BY <2>1, <2>2, NobodyWaits
<1>5. ASSUME NEW t \in Threads, Send(t) PROVE AnswerInv'
    <2>1. /\ pc[t] \in Inside /\ Goto(t, "wait") /\ process \in Generations
          /\ request' = [request EXCEPT ![process] = op[t]] /\ reply' = "none"
          /\ UNCHANGED <<process, op>>
        BY <1>0, <1>5 DEF Send, At, Inside, parentVars, TypeInv, Generations
    <2>2. \A u \in Threads \ {t} : pc'[u] # "wait"
        BY <1>0, <2>1, WaitsAlone DEF Goto, TypeInv, Inside
    <2>3. request'[process'] = op'[t]
        BY <1>0, <2>1 DEF TypeInv
    <2>4. QED
        BY <2>1, <2>2, <2>3 DEF AnswerInv, At
<1>6. ASSUME NEW g \in Generations, ChildStep(g) PROVE AnswerInv'
    <2>0. request[g] # "none"
        BY <1>6 DEF ChildStep, ChildMoves, ChildStops, ChildStopsJog, ChildReads, ChildRefuses
    <2>1. /\ g = process /\ request'[process] = "none"
          /\ UNCHANGED <<kind, process, conn, started, pc, op>>
        BY <1>0, <1>6, <2>0 DEF ChildStep, DriverInv, TypeInv, parentVars
    <2>2. ASSUME NEW t \in Threads, At(t, "wait"), IsRecovery(t), reply' = "result" PROVE ~moving'
        <3>1. conn /\ request[g] \in {op[t], "none"} /\ (reply # "none" => request[g] = "none")
            BY <1>0, <2>1, <2>2 DEF ServiceInv, At, Inside, AnswerInv
        <3>2. /\ request[g] # "none" /\ op[t] \in {"emergency_stop", "stop"}
            BY <2>0, <2>2 DEF IsRecovery
        <3>3. Reconnects(g) /\ request[g] \in {"emergency_stop", "stop"}
            BY <2>2, <3>1, <3>2 DEF Reconnects, IsRecovery
        <3>4. CASE ChildStops(g)
            BY <3>3, <3>4 DEF ChildStops
        <3>5. CASE ChildRefuses(g)
            BY <2>1, <2>2, <3>1, <3>5 DEF ChildRefuses, Reply
        <3>6. QED
            BY <1>6, <3>3, <3>4, <3>5 DEF ChildStep, ChildMoves, ChildStopsJog, ChildReads
    <2>3. QED
        BY <2>1, <2>2 DEF AnswerInv, At, IsRecovery
<1>7. ASSUME NEW g \in Generations, ChildDies(g) PROVE AnswerInv'
    <2>1. UNCHANGED <<kind, process, pc, op, reply, moving>>
        BY <1>7 DEF ChildDies, parentVars, motorVars
    <2>2. request'[process] \in {request[process], "none"}
        BY <1>0, <1>7 DEF ChildDies, TypeInv
    <2>3. QED
        BY <2>1, <2>2 DEF AnswerInv, At, IsRecovery
<1>8. CASE MotionEnds
    BY <1>8 DEF MotionEnds, AnswerInv, At, IsRecovery, parentVars, childVars
<1>9. CASE UNCHANGED vars
    BY <1>9 DEF vars, AnswerInv, At, IsRecovery, parentVars, childVars, motorVars
<1>10. QED
    BY <1>1, <1>2, <1>3, <1>4, <1>5, <1>6, <1>7, <1>8, <1>9 DEF Next, Proceed

\* RecoveryStopsMotor: when a recovery STOP has its answer the motor stands still, whatever other
\* threads, lost children and survivors did before (mount_service.py:612, focuser_process_worker.py:152).
THEOREM RecoveryIsPhysical == Spec => []RecoveryStopsMotor
<1>1. Init => AnswerInv
    BY DEF Init, AnswerInv, At
<1>2. AnswerInv => RecoveryStopsMotor
    BY DEF AnswerInv, RecoveryStopsMotor, Threads, Callers
<1>3. QED
    BY DeviceInvariance, AnswerStep, <1>1, <1>2, PTL DEF Spec
=============================================================================
