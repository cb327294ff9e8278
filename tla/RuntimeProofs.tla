------------------------------ MODULE RuntimeProofs ------------------------------
\* That a call of the runtime keeps its promise whatever is lost on the way, that a lost run comes back
\* once, and that the portal follows the runtime without repetition: for any number of calls, RIGs,
\* runs, restarts and entries.
EXTENDS MCRuntime, TLAPS

(* ---- Calls ---- *)

Attempts == {1, 2}
\* The places of a connection that may have executed its call.
Spent == {"storing", "replying", "gone"}
Executing == {"dispatch", "storing"}
\* An attempt that has not been made has no connection, and the second comes after the first.
AttemptsInOrder ==
    /\ \A c \in Calls : ~uncertain[c] => attempt[c] = 1
    /\ \A c \in Calls : attempt[c] = 1 => place[<<c, 2>>] = "none"
    /\ \A c \in Calls, a \in Attempts : phase[c] = "connect" /\ attempt[c] = a => place[<<c, a>>] = "none"
    /\ \A c \in Calls : told[c] = "unavailable" => \A a \in Attempts : place[<<c, a>>] = "none"
\* Each connection executes its call at most once.
EffectsCounted ==
    /\ \A c \in Calls : ever[c] > 0 => \E a \in Attempts : place[<<c, a>>] \in Spent
    /\ \A c \in Calls : ever[c] > 1 => \A a \in Attempts : place[<<c, a>>] \in Spent
\* One connection of a call is inside dispatch(), and the entry says so.
OneExecutes ==
    /\ \A c \in Calls, a \in Attempts : place[<<c, a>>] \in Executing => result[c] = "running"
    /\ \A c \in Calls, a \in Attempts : place[<<c, a>>] = "dispatch" => c \notin effective
    /\ \A c \in Calls : ~(\A a \in Attempts : place[<<c, a>>] \in Executing)
    /\ \A c \in Calls : result[c] = "absent" => c \notin effective
\* What is answered was done.
AnswersKnown ==
    /\ \A c \in Calls : result[c] = "done" => ever[c] > 0
    /\ \A c \in Calls, a \in Attempts : place[<<c, a>>] = "storing" => ever[c] > 0
    /\ \A c \in Calls, a \in Attempts : place[<<c, a>>] = "waiting" => ever[c] > 0 \/ result[c] = "running"
    /\ \A c \in Calls, a \in Attempts : place[<<c, a>>] = "replying" => answer[<<c, a>>] # "none"
    /\ \A c \in Calls, a \in Attempts :
            place[<<c, a>>] = "replying" /\ answer[<<c, a>>] # "in_progress" => ever[c] > 0
\* While the runtime ends, or has not begun, nobody is let in.
DoorsClosed ==
    /\ \A h \in Connections : stage \in {"down", "starting", "draining", "cleanup"} => place[h] # "admitting"
    /\ \A h \in Connections : stage \in {"down", "draining", "cleanup"} => place[h] # "backlog"
    /\ \A h \in Connections : stage \in {"down", "starting", "cleanup"} => place[h] \notin Admitted
RpcIInv == RpcTypeInv /\ AttemptsInOrder /\ EffectsCounted /\ OneExecutes /\ AnswersKnown /\ DoorsClosed

\* The invariant holds at the start.
LEMMA RpcInitially == RpcInit => RpcIInv
<1> SUFFICES ASSUME RpcInit PROVE RpcIInv
    OBVIOUS
<1> USE DEF RpcInit
<1>1. RpcTypeInv
    <2>1. starts \in 0 .. MaxStarts /\ ever \in [Calls -> 0 .. 2]
        BY RpcAssumption
    <2>2. \A c \in Calls : phase[c] = "over" <=> told[c] # "none"
        OBVIOUS
    <2>3. QED
        BY <2>1, <2>2 DEF RpcTypeInv
<1>2. /\ \A c \in Calls, a \in Attempts : <<c, a>> \in Connections /\ place[<<c, a>>] = "none"
      /\ \A h \in Connections : place[h] = "none"
    BY DEF Connections, Attempts
<1>3. AttemptsInOrder /\ OneExecutes /\ AnswersKnown
    BY <1>2 DEF AttemptsInOrder, OneExecutes, AnswersKnown, Attempts, Executing
<1>4. EffectsCounted
    BY DEF EffectsCounted
<1>5. DoorsClosed
    BY <1>2 DEF DoorsClosed, Admitted
<1>6. QED
    BY <1>1, <1>3, <1>4, <1>5 DEF RpcIInv

\* Every step keeps the invariant.
LEMMA RpcStep == RpcIInv /\ [RpcNext]_rpcVars => RpcIInv'
<1> SUFFICES ASSUME RpcIInv, [RpcNext]_rpcVars PROVE RpcIInv'
    OBVIOUS
<1> RpcTypeInv /\ AttemptsInOrder /\ EffectsCounted /\ OneExecutes /\ AnswersKnown /\ DoorsClosed
    BY DEF RpcIInv
<1> USE DEF RpcIInv
<1>3. ASSUME NEW c \in Calls, AttemptFails(c) PROVE RpcIInv'
    <2> USE <1>3 DEF AttemptFails
    <2>1. UNCHANGED <<stage, starts, closing, place, shut, answer, result, effective, ever>>
        BY DEF serverVars, handlerVars, effectVars
    <2>2. RpcTypeInv'
        BY <2>1 DEF RpcTypeInv, EndsAs
    <2>3. EffectsCounted' /\ OneExecutes' /\ AnswersKnown' /\ DoorsClosed'
        BY <2>1 DEF EffectsCounted, OneExecutes, AnswersKnown, DoorsClosed, Spent
    <2>4. AttemptsInOrder'
        BY <2>1 DEF AttemptsInOrder, RpcTypeInv, EndsAs
    <2>5. QED
        BY <2>2, <2>3, <2>4
<1>6. ASSUME NEW h \in Connections, Accept(h) PROVE RpcIInv'
    <2>1. PICK there \in {"admitting", "gone"} : place' = [place EXCEPT ![h] = there]
        BY <1>6 DEF Accept, Move
    <2>2. /\ UNCHANGED <<stage, starts, closing, shut, answer, result, attempt, phase, uncertain, told, effective, ever>>
          /\ place[h] = "backlog" /\ stage \in {"serving", "closing"}
        BY <1>6 DEF Accept, serverVars, clientVars, effectVars
    <2>3. \A g \in Connections : place'[g] = IF g = h THEN there ELSE place[g]
        BY <2>1 DEF RpcTypeInv
    <2>4. RpcTypeInv'
        BY <2>1, <2>2 DEF RpcTypeInv
    <2>5. DoorsClosed'
        BY <2>2, <2>3 DEF DoorsClosed
    <2>6. \A c \in Calls, a \in Attempts :
            /\ <<c, a>> \in Connections
            /\ place[<<c, a>>] = "none" <=> place'[<<c, a>>] = "none"
            /\ place'[<<c, a>>] \in {"admitting", "gone"} \/ place'[<<c, a>>] = place[<<c, a>>]
            /\ place[<<c, a>>] \in Spent => place'[<<c, a>>] \in Spent
        BY <2>2, <2>3 DEF Connections, Attempts, Spent
    <2>7. AttemptsInOrder'
        BY <2>2, <2>6 DEF AttemptsInOrder, Attempts
    <2>8. EffectsCounted'
        BY <2>2, <2>6 DEF EffectsCounted, RpcTypeInv, Attempts
    <2>9. OneExecutes'
        BY <2>2, <2>6 DEF OneExecutes, Executing, RpcTypeInv, Attempts
    <2>10. AnswersKnown'
        BY <2>2, <2>6 DEF AnswersKnown, RpcTypeInv, Attempts
    <2>11. QED
        BY <2>4, <2>5, <2>7, <2>8, <2>9, <2>10
<1>17. CASE ServerClose
    <2>1. UNCHANGED <<starts, closing, answer, result, attempt, phase, uncertain, told, effective, ever>>
        BY <1>17 DEF ServerClose, serverVars, clientVars, effectVars
    <2>2. \A g \in Connections : place'[g] = IF place[g] = "backlog" THEN "gone" ELSE place[g]
        BY <1>17 DEF ServerClose
    <2>3. RpcTypeInv'
        BY <1>17, <2>1 DEF RpcTypeInv, ServerClose, ActiveRequests
    <2>4. DoorsClosed'
        BY <1>17, <2>2 DEF DoorsClosed, ServerClose
    <2>5. \A c \in Calls, a \in Attempts :
            /\ <<c, a>> \in Connections
            /\ place[<<c, a>>] = "none" <=> place'[<<c, a>>] = "none"
            /\ place'[<<c, a>>] \in {"admitting", "gone"} \/ place'[<<c, a>>] = place[<<c, a>>]
            /\ place[<<c, a>>] \in Spent => place'[<<c, a>>] \in Spent
        BY <2>2 DEF Connections, Attempts, Spent
    <2>6. AttemptsInOrder'
        BY <2>1, <2>5 DEF AttemptsInOrder, Attempts
    <2>7. EffectsCounted'
        BY <2>1, <2>5 DEF EffectsCounted, RpcTypeInv, Attempts
    <2>8. OneExecutes'
        BY <2>1, <2>5 DEF OneExecutes, Executing, RpcTypeInv, Attempts
    <2>9. AnswersKnown'
        BY <2>1, <2>5 DEF AnswersKnown, RpcTypeInv, Attempts
    <2>10. QED
        BY <2>3, <2>4, <2>6, <2>7, <2>8, <2>9
<1>19. CASE DrainTimesOut \/ CleanedUp \/ Crash
    <2>1. Ended
        BY <1>19 DEF DrainTimesOut, CleanedUp, Crash
    <2>2. UNCHANGED <<starts, closing, shut, answer, attempt, phase, uncertain, told, ever>>
        BY <2>1 DEF Ended, clientVars
    <2>3. \A g \in Connections : place'[g] = IF place[g] = "none" THEN "none" ELSE "gone"
        BY <2>1 DEF Ended
    <2>4. RpcTypeInv'
        BY <2>1, <2>2 DEF RpcTypeInv, Ended
    <2>5. DoorsClosed'
        BY <2>3 DEF DoorsClosed, Admitted
    <2>6. \A c \in Calls, a \in Attempts :
            /\ <<c, a>> \in Connections
            /\ place[<<c, a>>] = "none" <=> place'[<<c, a>>] = "none"
            /\ place'[<<c, a>>] \in {"none", "gone"}
            /\ place[<<c, a>>] \in Spent => place'[<<c, a>>] \in Spent
        BY <2>3 DEF Connections, Attempts, Spent
    <2>7. AttemptsInOrder'
        BY <2>2, <2>6 DEF AttemptsInOrder, Attempts
    <2>8. EffectsCounted'
        BY <2>2, <2>6 DEF EffectsCounted, RpcTypeInv, Attempts
    <2>9. OneExecutes' /\ AnswersKnown'
        BY <2>1, <2>6 DEF OneExecutes, Executing, AnswersKnown, Attempts, Ended
    <2>10. QED
        BY <2>4, <2>5, <2>7, <2>8, <2>9
<1>20. CASE StartRuntime
    <2>1. UNCHANGED <<place, shut, answer, result, attempt, phase, uncertain, told, effective, ever>>
        BY <1>20 DEF StartRuntime, handlerVars, clientVars, effectVars
    <2>2. RpcTypeInv'
        <3>1. starts' \in 0 .. MaxStarts
            BY <1>20, RpcAssumption DEF StartRuntime, RpcTypeInv
        <3>2. stage' = "starting" /\ closing' = FALSE
            BY <1>20 DEF StartRuntime
        <3>3. QED
            BY <2>1, <3>1, <3>2 DEF RpcTypeInv
    <2>3. EffectsCounted' /\ OneExecutes' /\ AnswersKnown' /\ AttemptsInOrder'
        BY <2>1 DEF EffectsCounted, OneExecutes, AnswersKnown, AttemptsInOrder, Spent
    <2>4. DoorsClosed'
        BY <1>20, <2>1 DEF StartRuntime, DoorsClosed
    <2>5. QED
        BY <2>2, <2>3, <2>4
<1>14. ASSUME NEW h \in Connections, Dispatch(h) PROVE RpcIInv'
    <2>1. PICK c \in Calls, a \in Attempts : h = <<c, a>>
        BY DEF Connections, Attempts
    <2>2. /\ UNCHANGED <<stage, starts, closing, shut, answer, result, attempt, phase, uncertain, told>>
          /\ place[<<c, a>>] = "dispatch" /\ place' = [place EXCEPT ![<<c, a>>] = "storing"]
          /\ effective' = effective \cup {c} /\ ever' = [ever EXCEPT ![c] = @ + 1]
        BY <1>14, <2>1 DEF Dispatch, Move, serverVars, clientVars
    <2>3. \A d \in Calls, b \in Attempts :
            /\ <<d, b>> \in Connections
            /\ place'[<<d, b>>] = IF d = c /\ b = a THEN "storing" ELSE place[<<d, b>>]
        BY <2>2 DEF Connections, Attempts, RpcTypeInv
    <2>4. \A d \in Calls : ever'[d] = IF d = c THEN ever[c] + 1 ELSE ever[d]
        BY <2>2 DEF RpcTypeInv
    <2>5. ever[c] \in 0 .. 2 /\ ~(ever[c] > 1)
        BY <2>2 DEF EffectsCounted, RpcTypeInv, Spent
    <2>6. ever[c] \in 0 .. 1
        BY <2>5
    <2>7. RpcTypeInv'
        <3>1. place' \in [Connections -> Admitted \cup {"none", "backlog", "admitting", "gone"}]
            BY <2>2 DEF RpcTypeInv, Admitted
        <3>2. ever' \in [Calls -> 0 .. 2]
            BY <2>2, <2>6 DEF RpcTypeInv
        <3>3. \A d \in effective' : ever'[d] > 0
            BY <2>2, <2>4, <2>6 DEF RpcTypeInv
        <3>4. QED
            BY <2>2, <3>1, <3>2, <3>3 DEF RpcTypeInv
    <2>8. DoorsClosed'
        BY <1>14, <2>2 DEF DoorsClosed, RpcTypeInv, Admitted, Dispatch, Move
    <2>9. AttemptsInOrder'
        BY <2>2, <2>3 DEF AttemptsInOrder, Attempts, RpcTypeInv
    <2>10. EffectsCounted'
        BY <2>2, <2>3, <2>4, <2>6 DEF EffectsCounted, Attempts, Spent
    <2>11. OneExecutes'
        <3>1. result[c] = "running" /\ \A b \in Attempts : b # a => place[<<c, b>>] \notin Executing
            BY <2>2 DEF OneExecutes, Executing, Attempts
        <3>2. QED
            BY <2>2, <2>3, <3>1 DEF OneExecutes, Executing, Attempts
    <2>12. AnswersKnown'
        BY <2>2, <2>3, <2>4, <2>6 DEF AnswersKnown, Attempts, RpcTypeInv
    <2>13. QED
        BY <2>7, <2>8, <2>9, <2>10, <2>11, <2>12
<1>10. ASSUME NEW h \in Connections, Store(h) PROVE RpcIInv'
    <2>1. PICK c \in Calls, a \in Attempts : h = <<c, a>>
        BY DEF Connections, Attempts
    <2>2. /\ UNCHANGED <<stage, starts, closing, shut, attempt, phase, uncertain, told, effective, ever>>
          /\ place[<<c, a>>] = "storing" /\ place' = [place EXCEPT ![<<c, a>>] = "replying"]
          /\ answer' = [answer EXCEPT ![<<c, a>>] = "result"]
          /\ result' = [result EXCEPT ![c] = "done"]
        BY <1>10, <2>1 DEF Store, Move, serverVars, clientVars, effectVars
    <2>3. \A d \in Calls, b \in Attempts :
            /\ <<d, b>> \in Connections
            /\ place'[<<d, b>>] = IF d = c /\ b = a THEN "replying" ELSE place[<<d, b>>]
            /\ answer'[<<d, b>>] = IF d = c /\ b = a THEN "result" ELSE answer[<<d, b>>]
        BY <2>2 DEF Connections, Attempts, RpcTypeInv
    <2>4. \A d \in Calls : result'[d] = IF d = c THEN "done" ELSE result[d]
        BY <2>2 DEF RpcTypeInv
    <2>5. ever[c] > 0
        BY <2>2 DEF AnswersKnown
    <2>6. RpcTypeInv'
        BY <2>2, <2>3 DEF RpcTypeInv, Admitted
    <2>7. DoorsClosed'
        BY <1>10, <2>2 DEF DoorsClosed, RpcTypeInv, Admitted, Store, Move
    <2>8. AttemptsInOrder'
        BY <2>2, <2>3 DEF AttemptsInOrder, Attempts
    <2>9. EffectsCounted'
        BY <2>2, <2>3 DEF EffectsCounted, Attempts, Spent
    <2>10. OneExecutes'
        <3>1. \A b \in Attempts : b # a => place[<<c, b>>] \notin Executing
            BY <2>2 DEF OneExecutes, Executing, Attempts
        <3>2. QED
            BY <2>2, <2>3, <2>4, <3>1 DEF OneExecutes, Executing, Attempts
    <2>11. AnswersKnown'
        BY <2>2, <2>3, <2>4, <2>5 DEF AnswersKnown, Attempts
    <2>12. QED
        BY <2>6, <2>7, <2>8, <2>9, <2>10, <2>11
<1> USE RpcAssumption
        DEF RpcTypeInv, AttemptsInOrder, EffectsCounted, OneExecutes, AnswersKnown, DoorsClosed, Spent, Executing,
            Connections, Attempts, Admitted, serverVars, handlerVars, clientVars, effectVars, Move, EndsAs
<1>1. ASSUME NEW c \in Calls, Connect(c) PROVE RpcIInv'
    BY <1>1 DEF Connect, Listening
<1>2. ASSUME NEW c \in Calls, ConnectFails(c) PROVE RpcIInv'
    BY <1>2 DEF ConnectFails, RefusedAs
<1>4. ASSUME NEW c \in Calls, AnswerRead(c) PROVE RpcIInv'
    BY <1>4 DEF AnswerRead
<1>5. ASSUME NEW c \in Calls, PruneResult(c) PROVE RpcIInv'
    BY <1>5 DEF PruneResult, Prunable
<1>7. ASSUME NEW h \in Connections, Admit(h) PROVE RpcIInv'
    BY <1>7 DEF Admit
<1>8. ASSUME NEW h \in Connections, ReadNothing(h) PROVE RpcIInv'
    BY <1>8 DEF ReadNothing
<1>9. ASSUME NEW h \in Connections, Lookup(h) PROVE RpcIInv'
    BY <1>9 DEF Lookup
<1>11. ASSUME NEW h \in Connections, Wake(h) PROVE RpcIInv'
    BY <1>11 DEF Wake
<1>12. ASSUME NEW h \in Connections, WaitExpires(h) PROVE RpcIInv'
    BY <1>12 DEF WaitExpires
<1>13. ASSUME NEW h \in Connections, ReplyLost(h) PROVE RpcIInv'
    BY <1>13 DEF ReplyLost
<1>15. ASSUME NEW h \in Connections, AdmitInterrupted(h) PROVE RpcIInv'
    BY <1>15 DEF AdmitInterrupted, ActiveRequests
<1>16. CASE ServeForever
    BY <1>16 DEF ServeForever
<1>18. CASE Drained
    BY <1>18 DEF Drained, ActiveRequests
<1>21. CASE Sigterm
    BY <1>21 DEF Sigterm, ActiveRequests
<1>22. CASE UNCHANGED rpcVars
    BY <1>22 DEF rpcVars
<1>23. QED
    BY <1>1, <1>2, <1>3, <1>4, <1>5, <1>6, <1>7, <1>8, <1>9, <1>10, <1>11, <1>12, <1>13, <1>14, <1>15, <1>16,
       <1>17, <1>18, <1>19, <1>20, <1>21, <1>22
    DEF RpcNext, ClientStep, HandlerStep, MainStep

\* The daemon's parts share no state, so each one's steps are its own.
LEMMA RuntimeApart ==
    [RuntimeNext]_RuntimeVars =>
        [RpcNext]_rpcVars /\ [RecoveryNext]_recoveryVars /\ [RelayNext]_relayVars
BY DEF RuntimeNext, RuntimeVars, RpcPart, RecoveryPart, RelayPart

\* Every step of a call in the code is a step of the promise made to the portal, or none.
LEMMA CallStep == RpcIInv /\ [RpcNext]_rpcVars => [RuntimeCallSpec!CallNext]_(RuntimeCallSpec!callVars)
<1> SUFFICES ASSUME RpcIInv, [RpcNext]_rpcVars
             PROVE  RuntimeCallSpec!CallNext \/ UNCHANGED <<effective, ever, told>>
    BY DEF RuntimeCallSpec!callVars
<1> RpcTypeInv /\ AttemptsInOrder /\ EffectsCounted /\ OneExecutes /\ AnswersKnown
    BY DEF RpcIInv
<1> DEFINE Returns(c, how) == RuntimeCallSpec!Return(c, how)
<1>1. ASSUME NEW c \in Calls, NEW how \in {"answer", "unavailable", "unknown"}, Returns(c, how)
      PROVE  RuntimeCallSpec!CallNext
    BY <1>1 DEF RuntimeCallSpec!CallNext, RuntimeCallSpec!Outcomes
<1>2. ASSUME NEW c \in Calls, NEW how \in {"answer", "unavailable", "unknown"},
             phase[c] = "calling" \/ phase[c] = "connect", EndsAs(c, how), UNCHANGED effectVars,
             how = "answer" => ever[c] > 0, how = "unavailable" => ever[c] = 0
      PROVE  Returns(c, how)
    <2>1. told[c] = "none"
        BY <1>2 DEF RpcTypeInv
    <2>2. QED
        BY <1>2, <2>1 DEF EndsAs, effectVars, RuntimeCallSpec!Return
<1> HIDE DEF Returns
<1>3. ASSUME NEW c \in Calls, ConnectFails(c) PROVE RuntimeCallSpec!CallNext
    <2>1. ~uncertain[c] => place[<<c, 1>>] = "none" /\ place[<<c, 2>>] = "none"
        BY <1>3 DEF AttemptsInOrder, Attempts, ConnectFails
    <2>2. ~uncertain[c] => ever[c] = 0
        BY <2>1 DEF EffectsCounted, Attempts, Spent, RpcTypeInv
    <2>3. QED
        BY <1>1, <1>2, <1>3, <2>2 DEF ConnectFails, RefusedAs
<1>4. ASSUME NEW c \in Calls, AttemptFails(c) PROVE RuntimeCallSpec!CallNext \/ UNCHANGED <<effective, ever, told>>
    <2>1. CASE attempt[c] = 1
        BY <1>4, <2>1 DEF AttemptFails, effectVars
    <2>2. CASE attempt[c] # 1
        BY <1>1, <1>2, <1>4, <2>2 DEF AttemptFails
    <2>3. QED
        BY <2>1, <2>2
<1>5. ASSUME NEW c \in Calls, AnswerRead(c) PROVE RuntimeCallSpec!CallNext
    <2>1. attempt[c] \in Attempts
        BY DEF RpcTypeInv, Attempts
    <2>2. answer[<<c, attempt[c]>>] # "in_progress" => ever[c] > 0
        BY <1>5, <2>1 DEF AnswerRead, AnswersKnown
    <2>3. QED
        BY <1>1, <1>2, <1>5, <2>2 DEF AnswerRead
<1>6. ASSUME NEW lost \in SUBSET Calls, effective' = effective \ lost, UNCHANGED <<ever, told>>
      PROVE  RuntimeCallSpec!CallNext
    <2>1. RuntimeCallSpec!Forget(effective \cap lost)
        BY <1>6 DEF RuntimeCallSpec!Forget
    <2>2. QED
        BY <2>1 DEF RuntimeCallSpec!CallNext
<1>7. ASSUME NEW c \in Calls, PruneResult(c) PROVE RuntimeCallSpec!CallNext
    BY <1>6, <1>7 DEF PruneResult, clientVars
<1>8. ASSUME Ended PROVE RuntimeCallSpec!CallNext
    <2>1. effective' = effective \ Calls
        BY <1>8 DEF Ended, RpcTypeInv
    <2>2. QED
        BY <1>6, <1>8, <2>1 DEF Ended, clientVars
<1>9. ASSUME NEW h \in Connections, Dispatch(h) PROVE RuntimeCallSpec!CallNext
    <2>1. PICK c \in Calls, a \in Attempts : h = <<c, a>>
        BY DEF Connections, Attempts
    <2>2. c \notin effective /\ told[c] # "unavailable"
        BY <1>9, <2>1 DEF Dispatch, OneExecutes, AttemptsInOrder
    <2>3. RuntimeCallSpec!TakeEffect(c)
        BY <1>9, <2>1, <2>2 DEF Dispatch, clientVars, RuntimeCallSpec!TakeEffect
    <2>4. QED
        BY <2>3 DEF RuntimeCallSpec!CallNext
<1>10. ASSUME NEW h \in Connections, HandlerStep(h) \/ AdmitInterrupted(h) PROVE UNCHANGED <<effective, ever, told>>
    BY <1>10 DEF HandlerStep, Accept, Admit, ReadNothing, Lookup, Store, Wake, WaitExpires, ReplyLost, AdmitInterrupted,
                 clientVars, effectVars
<1>11. ASSUME NEW c \in Calls, Connect(c) PROVE UNCHANGED <<effective, ever, told>>
    BY <1>11 DEF Connect, effectVars
<1>12. CASE ServeForever \/ ServerClose \/ Drained \/ StartRuntime \/ Sigterm
    BY <1>12 DEF ServeForever, ServerClose, Drained, StartRuntime, Sigterm, clientVars, effectVars
<1>13. CASE DrainTimesOut \/ CleanedUp \/ Crash
    BY <1>8, <1>13 DEF DrainTimesOut, CleanedUp, Crash
<1>14. CASE UNCHANGED rpcVars
    BY <1>14 DEF rpcVars, clientVars, effectVars
<1>15. QED
    BY <1>3, <1>4, <1>5, <1>7, <1>9, <1>10, <1>11, <1>12, <1>13, <1>14 DEF RpcNext, ClientStep, MainStep

\* The invariant of the calls holds throughout.
LEMMA RpcAlways == RuntimeSpec => []RpcIInv
<1>1. RuntimeInit => RpcIInv
    BY RpcInitially DEF RuntimeInit
<1>2. RpcIInv /\ [RuntimeNext]_RuntimeVars => RpcIInv'
    BY RuntimeApart, RpcStep
<1>3. QED
    BY <1>1, <1>2, PTL DEF RuntimeSpec

\* controller.shutdown() never runs beside a command that is inside dispatch() (runtime_daemon.py, main):
\* whatever the number of calls, connections and restarts.
THEOREM CleanupIsAlone == RuntimeSpec => []CleanupAlone
<1>1. RpcIInv => CleanupAlone
    BY DEF RpcIInv, DoorsClosed, CleanupAlone, ActiveRequests
<1>2. QED
    BY <1>1, RpcAlways, PTL

\* A call of the portal takes effect at most once in a runtime generation, is answered only if it did,
\* and is called unavailable only if it never does (runtime_daemon.py:1051, runtime_rpc.py).
THEOREM CallsArePromised == RuntimeSpec => CallsKeepPromise
<1>1. RuntimeInit => RuntimeCallSpec!CallInit
    BY DEF RuntimeInit, RpcInit, RuntimeCallSpec!CallInit
<1>2. RpcIInv /\ [RuntimeNext]_RuntimeVars => [RuntimeCallSpec!CallNext]_(RuntimeCallSpec!callVars)
    BY RuntimeApart, CallStep
<1>3. QED
    BY <1>1, <1>2, RpcAlways, PTL DEF RuntimeSpec, CallsKeepPromise, RuntimeCallSpec!CallSpec

(* ---- The recovery of runs ---- *)

\* The runs that anything speaks of have been started.
RunsKnown ==
    /\ \A r \in Rigs : journal[r].run <= runs /\ running[r] <= runs
    /\ \A r \in Rigs : journal[r].status # "none" => journal[r].run # 0
    /\ \A end \in pending : end.run <= runs
    /\ \A n \in settled \cup unwritten : n <= runs
    /\ \A n \in 1 .. MaxRuns : n > runs => resumed[n] = 0
\* No two RIGs have one run, and what has ended does not run.
RunsApart ==
    /\ \A r, s \in Rigs : journal[r].run = journal[s].run => r = s \/ journal[r].run = 0
    /\ \A r, s \in Rigs : running[r] = running[s] => r = s \/ running[r] = 0
    /\ \A r, s \in Rigs : running[r] = journal[s].run => r = s \/ running[r] = 0
    /\ \A end \in pending, r \in Rigs : running[r] # end.run
    /\ \A end \in pending, r \in Rigs : journal[r].run = end.run => end.rig = r
\* An entry knows the boot of its run, and whether it was resumed; one that is active has no end.
EntriesTrue ==
    /\ \A r \in Rigs : journal[r].claims = 0 /\ journal[r].run # 0 => resumed[journal[r].run] = 0
    /\ \A r \in Rigs : journal[r].boot # 0 => journal[r].run # 0 /\ born[journal[r].run] = journal[r].boot
    /\ \A r \in Rigs : journal[r].status = "active" => ~(journal[r].run \in settled)
\* Nothing is left of one phase in another.
PhasesInOrder ==
    /\ life # "recover" => todo = {} /\ claimed = 0
    /\ life # "down" => lives # 0
    /\ life \in {"down", "restore"} => pending = {}
    /\ \A r \in Rigs : life \in {"down", "restore"} => running[r] = 0
    /\ life = "recover" => ~damaged
\* A recovery resumes the run that it has claimed, and nothing runs that it has still to look at.
ClaimInOrder ==
    /\ claimed # 0 => claimed \in todo
    /\ claimed # 0 => born[journal[claimed].run] = boot
    /\ claimed # 0 => resumed[journal[claimed].run] = 0
    /\ \A r \in todo : journal[r].status = "active"
    /\ \A r \in todo : running[r] = 0
    /\ \A r \in Rigs : life = "recover" => running[r] = 0 \/ running[r] = journal[r].run
\* What ends while the recovery goes on is a run that this recovery resumed.
EndsInOrder ==
    /\ \A end \in pending : life = "recover" => end.rig \notin todo
    /\ \A end \in pending : life = "recover" => running[end.rig] = 0
    /\ \A end \in pending : life = "recover" => journal[end.rig].run = end.run
\* Every entry that says "active" is accounted for.
TruthKept ==
    \A r \in Rigs : life \in {"recover", "serving", "stopping"} /\ ~damaged /\ journal[r].status = "active" =>
        \/ r \in todo \/ journal[r].run = running[r] \/ journal[r].run \in unwritten
        \/ \E end \in pending : end.run = journal[r].run
\* The losses that the recovery has looked at are shown.
LossesShown ==
    \A r \in Rigs : life = "recover" /\ r \notin todo /\ journal[r].status \in {"active", "failed"} =>
        \/ shown[r] # "idle" \/ journal[r].run \in unwritten
        \/ \E end \in pending : end.rig = r
RecoveryIInv ==
    /\ RecoveryTypeInv /\ RunsKnown /\ RunsApart /\ EntriesTrue /\ PhasesInOrder /\ ClaimInOrder
    /\ EndsInOrder /\ TruthKept /\ LossesShown /\ ResumedOnce /\ SameBootOnly /\ SettledIsOver

\* The kinds of what is read most.
LEMMA RecoveryKinds ==
    ASSUME RecoveryTypeInv
    PROVE  /\ \A r \in Rigs : journal[r].run \in 0 .. MaxRuns
           /\ \A r \in Rigs : journal[r].boot \in 0 .. MaxBoots
           /\ \A r \in Rigs : journal[r].claims \in 0 .. 1
           /\ \A r \in Rigs : running[r] \in 0 .. MaxRuns
           /\ \A end \in pending : end.run \in 1 .. MaxRuns
           /\ \A end \in pending : end.rig \in Rigs
           /\ \A end \in pending : end.status \in FINAL_STATUSES
           /\ boot \in Int /\ runs \in Int
BY RecoveryAssumption DEF RecoveryTypeInv, Entries, Ends

\* finish() changes the status of the entry of its run, and nothing else.
LEMMA JournalFinished ==
    ASSUME journal \in [Rigs -> Entries], NEW rig \in Rigs, NEW run, NEW status \in FINAL_STATUSES
    PROVE  /\ Finished(rig, run, status) \in [Rigs -> Entries]
           /\ \A r \in Rigs : /\ Finished(rig, run, status)[r].run = journal[r].run
                              /\ Finished(rig, run, status)[r].boot = journal[r].boot
                              /\ Finished(rig, run, status)[r].claims = journal[r].claims
                              /\ Finished(rig, run, status)[r].mode = journal[r].mode
           /\ \A r \in Rigs : Finished(rig, run, status)[r].status =
                                IF r = rig /\ journal[r].run = run THEN status ELSE journal[r].status
BY DEF Finished, Entries

\* The invariant holds at the start.
LEMMA RecoveryInitially == RecoveryInit => RecoveryIInv
<1> SUFFICES ASSUME RecoveryInit PROVE RecoveryIInv
    OBVIOUS
<1>1. /\ \A r \in Rigs : journal[r] = NoEntry /\ running[r] = 0
      /\ pending = {} /\ todo = {} /\ claimed = 0 /\ settled = {} /\ unwritten = {} /\ life = "down"
      /\ \A n \in 1 .. MaxRuns : resumed[n] = 0
    BY DEF RecoveryInit
<1>2. RecoveryTypeInv
    <2>1. journal \in [Rigs -> Entries]
        BY RecoveryAssumption DEF RecoveryInit, NoEntry, Entries, Modes
    <2>2. /\ running \in [Rigs -> 0 .. MaxRuns] /\ born \in [1 .. MaxRuns -> 0 .. MaxBoots]
          /\ resumed \in [1 .. MaxRuns -> 0 .. MaxLives] /\ lives \in 0 .. MaxLives /\ boot \in 1 .. MaxBoots
          /\ runs \in 0 .. MaxRuns /\ shown \in [Rigs -> {"idle", "running", "failed"}]
        BY RecoveryAssumption DEF RecoveryInit
    <2>3. QED
        BY <2>1, <2>2 DEF RecoveryInit, RecoveryTypeInv
<1>3. RunsKnown /\ RunsApart /\ EntriesTrue
    BY <1>1, RecoveryAssumption DEF RunsKnown, RunsApart, EntriesTrue, NoEntry, RecoveryInit
<1>4. PhasesInOrder /\ ClaimInOrder /\ EndsInOrder /\ TruthKept /\ LossesShown
    BY <1>1 DEF PhasesInOrder, ClaimInOrder, EndsInOrder, TruthKept, LossesShown
<1>5. ResumedOnce /\ SameBootOnly /\ SettledIsOver
    BY <1>1 DEF ResumedOnce, SameBootOnly, SettledIsOver
<1>6. QED
    BY <1>2, <1>3, <1>4, <1>5 DEF RecoveryIInv

\* Every step keeps the invariant.
LEMMA RecoveryStep == RecoveryIInv /\ [RecoveryNext]_recoveryVars => RecoveryIInv'
<1> SUFFICES ASSUME RecoveryIInv, [RecoveryNext]_recoveryVars PROVE RecoveryIInv'
    OBVIOUS
<1> /\ RecoveryTypeInv /\ RunsKnown /\ RunsApart /\ EntriesTrue /\ PhasesInOrder /\ ClaimInOrder
    /\ EndsInOrder /\ TruthKept /\ LossesShown /\ ResumedOnce /\ SameBootOnly /\ SettledIsOver
    BY DEF RecoveryIInv
<1>a. /\ \A r \in Rigs : journal[r].run \in 0 .. MaxRuns
      /\ \A r \in Rigs : journal[r].boot \in 0 .. MaxBoots
      /\ \A r \in Rigs : journal[r].claims \in 0 .. 1
      /\ \A r \in Rigs : running[r] \in 0 .. MaxRuns
      /\ \A end \in pending : end.run \in 1 .. MaxRuns
      /\ \A end \in pending : end.rig \in Rigs
      /\ boot \in Int /\ runs \in Int /\ 0 \notin Rigs /\ todo \subseteq Rigs /\ claimed \in Rigs \cup {0}
    BY RecoveryKinds, RecoveryAssumption DEF RecoveryTypeInv
<1> USE RecoveryAssumption DEF RecoveryIInv
<1>1. CASE StartLife
    <2>1. /\ life = "down" /\ life' = "restore" /\ lives' = lives + 1 /\ lives < MaxLives
          /\ shown' = [r \in Rigs |-> "idle"]
          /\ UNCHANGED <<boot, readable, journal, damaged, settled, unwritten, running, pending, runs, born,
                         resumed, todo, claimed>>
        BY <1>1 DEF StartLife, processVars, diskVars, runVars, scanVars
    <2>2. lives' # 0
        BY <2>1 DEF RecoveryTypeInv
    <2>3. RecoveryTypeInv'
        BY <2>1, <2>2, <1>a DEF RecoveryTypeInv
    <2>4. RunsKnown'
        BY <2>1, <1>a DEF RunsKnown
    <2>5. RunsApart'
        BY <2>1, <1>a DEF RunsApart, RunsKnown
    <2>6. EntriesTrue'
        BY <2>1, <1>a DEF EntriesTrue, RunsKnown
    <2>7. PhasesInOrder'
        BY <2>1, <2>2 DEF PhasesInOrder
    <2>8. ClaimInOrder'
        BY <2>1, <1>a DEF ClaimInOrder, PhasesInOrder
    <2>9. EndsInOrder'
        BY <2>1, <1>a DEF EndsInOrder, PhasesInOrder
    <2>10. TruthKept'
        BY <2>1, <1>a DEF TruthKept, RunsKnown, PhasesInOrder
    <2>11. LossesShown'
        BY <2>1 DEF LossesShown, RunsKnown
    <2>12. ResumedOnce'
        BY <2>1, <1>a DEF ResumedOnce
    <2>13. SameBootOnly'
        BY <2>1, <1>a DEF SameBootOnly
    <2>14. SettledIsOver'
        BY <2>1, <1>a DEF SettledIsOver, RunsKnown
    <2>15. QED
        BY <2>3, <2>4, <2>5, <2>6, <2>7, <2>8, <2>9, <2>10, <2>11, <2>12, <2>13, <2>14
<1>2. CASE RestoreFails
    <2>1. /\ life = "restore" /\ damaged /\ life' = "serving" /\ shown' = [r \in Rigs |-> "failed"]
          /\ UNCHANGED <<lives, boot, readable, journal, damaged, settled, unwritten, running, pending, runs,
                         born, resumed, todo, claimed>>
        BY <1>2 DEF RestoreFails, processVars, diskVars, runVars, scanVars
    <2>2. RecoveryTypeInv'
        BY <2>1, <1>a DEF RecoveryTypeInv
    <2>3. RunsKnown'
        BY <2>1, <1>a DEF RunsKnown
    <2>4. RunsApart'
        BY <2>1, <1>a DEF RunsApart, RunsKnown
    <2>5. EntriesTrue'
        BY <2>1, <1>a DEF EntriesTrue, RunsKnown
    <2>6. PhasesInOrder'
        BY <2>1 DEF PhasesInOrder, ClaimInOrder
    <2>7. ClaimInOrder'
        BY <2>1, <1>a DEF ClaimInOrder
    <2>8. EndsInOrder'
        BY <2>1, <1>a DEF EndsInOrder
    <2>9. TruthKept'
        BY <2>1, <1>a DEF TruthKept, RunsKnown, PhasesInOrder
    <2>10. LossesShown'
        BY <2>1 DEF LossesShown, RunsKnown, PhasesInOrder
    <2>11. ResumedOnce'
        BY <2>1, <1>a DEF ResumedOnce
    <2>12. SameBootOnly'
        BY <2>1, <1>a DEF SameBootOnly
    <2>13. SettledIsOver'
        BY <2>1, <1>a DEF SettledIsOver, RunsKnown
    <2>14. QED
        BY <2>2, <2>3, <2>4, <2>5, <2>6, <2>7, <2>8, <2>9, <2>10, <2>11, <2>12, <2>13
<1>3. CASE Restore
    <2>1. /\ life = "restore" /\ ~damaged /\ life' = "recover"
          /\ UNCHANGED <<lives, boot, readable, journal, damaged, settled, unwritten, running, pending, runs,
                         born, resumed, claimed>>
        BY <1>3 DEF Restore, processVars, diskVars, runVars, scanVars
    <2>2. /\ \A r \in Rigs : shown'[r] = IF journal[r].status = "failed" THEN "failed" ELSE shown[r]
          /\ shown' \in [Rigs -> {"idle", "running", "failed"}]
        BY <1>3 DEF Restore, WithStatus, RecoveryTypeInv
    <2>3. todo' = {r \in Rigs : journal[r].status = "active"}
        BY <1>3 DEF Restore, WithStatus
    <2>4. claimed = 0 /\ pending = {} /\ \A r \in Rigs : running[r] = 0
        BY <2>1 DEF PhasesInOrder
    <2>5. RecoveryTypeInv'
        BY <2>1, <2>2, <2>3, <2>4, <1>a DEF RecoveryTypeInv
    <2>6. RunsKnown'
        BY <2>1, <2>4, <1>a DEF RunsKnown
    <2>7. RunsApart'
        BY <2>1, <2>4, <1>a DEF RunsApart, RunsKnown
    <2>8. EntriesTrue'
        BY <2>1, <1>a DEF EntriesTrue, RunsKnown
    <2>9. PhasesInOrder'
        BY <2>1, <2>3, <2>4 DEF PhasesInOrder
    <2>10. ClaimInOrder'
        BY <2>1, <2>3, <2>4, <1>a DEF ClaimInOrder, PhasesInOrder
    <2>11. EndsInOrder'
        BY <2>1, <2>3, <2>4, <1>a DEF EndsInOrder, PhasesInOrder
    <2>12. TruthKept'
        BY <2>1, <2>3, <2>4, <1>a DEF TruthKept, RunsKnown, PhasesInOrder
    <2>13. LossesShown'
        BY <2>1, <2>2, <2>3, <2>4 DEF LossesShown, RunsKnown, PhasesInOrder
    <2>14. ResumedOnce'
        BY <2>1, <1>a DEF ResumedOnce
    <2>15. SameBootOnly'
        BY <2>1, <2>4, <1>a DEF SameBootOnly
    <2>16. SettledIsOver'
        BY <2>1, <2>4, <1>a DEF SettledIsOver, RunsKnown
    <2>17. QED
        BY <2>5, <2>6, <2>7, <2>8, <2>9, <2>10, <2>11, <2>12, <2>13, <2>14, <2>15, <2>16
<1>4. CASE Recovered
    <2>1. /\ life = "recover" /\ life' = "serving" /\ todo = {} /\ claimed = 0
          /\ UNCHANGED <<lives, boot, readable, journal, damaged, settled, unwritten, running, pending, shown,
                         runs, born, resumed, todo, claimed>>
        BY <1>4 DEF Recovered, processVars, diskVars, runVars, scanVars
    <2>2. RecoveryTypeInv'
        BY <2>1, <1>a DEF RecoveryTypeInv
    <2>3. RunsKnown'
        BY <2>1, <1>a DEF RunsKnown
    <2>4. RunsApart'
        BY <2>1, <1>a DEF RunsApart, RunsKnown
    <2>5. EntriesTrue'
        BY <2>1, <1>a DEF EntriesTrue, RunsKnown
    <2>6. PhasesInOrder'
        BY <2>1 DEF PhasesInOrder
    <2>7. ClaimInOrder'
        BY <2>1, <1>a DEF ClaimInOrder
    <2>8. EndsInOrder'
        BY <2>1, <1>a DEF EndsInOrder
    <2>9. TruthKept'
        BY <2>1, <1>a DEF TruthKept, RunsKnown, PhasesInOrder
    <2>10. LossesShown'
        BY <2>1 DEF LossesShown, RunsKnown, PhasesInOrder
    <2>11. ResumedOnce'
        BY <2>1, <1>a DEF ResumedOnce
    <2>12. SameBootOnly'
        BY <2>1, <1>a DEF SameBootOnly
    <2>13. SettledIsOver'
        BY <2>1, <1>a DEF SettledIsOver, RunsKnown
    <2>14. QED
        BY <2>2, <2>3, <2>4, <2>5, <2>6, <2>7, <2>8, <2>9, <2>10, <2>11, <2>12, <2>13
<1>5. ASSUME NEW rig \in Rigs, life = "recover", rig \in todo, claimed \in {0, rig}, GiveUp(rig) PROVE RecoveryIInv'
    <2>1. /\ life = "recover" /\ rig \in todo /\ journal[rig].status = "active" /\ journal[rig].run # 0 /\ running[rig] = 0
          /\ claimed = 0 \/ claimed = rig
        BY <1>5 DEF ClaimInOrder, RunsKnown
    <2>2. UNCHANGED <<life, lives, boot, readable, damaged, unwritten, running, pending, runs, born, resumed>>
        BY <1>5 DEF GiveUp, processVars, diskVars, runVars, scanVars
    <2>3. /\ todo' = todo \ {rig} /\ claimed' = 0 /\ settled' = settled \cup {journal[rig].run}
        BY <1>5 DEF GiveUp, Finish
    <2>4. /\ \A r \in Rigs : shown'[r] = IF r = rig THEN "failed" ELSE shown[r]
          /\ shown' \in [Rigs -> {"idle", "running", "failed"}]
        BY <1>5 DEF GiveUp, RecoveryTypeInv
    <2>5. /\ journal' \in [Rigs -> Entries]
          /\ \A r \in Rigs : /\ journal'[r].run = journal[r].run /\ journal'[r].boot = journal[r].boot
                             /\ journal'[r].claims = journal[r].claims /\ journal'[r].mode = journal[r].mode
          /\ \A r \in Rigs : journal'[r].status = IF r = rig THEN "failed" ELSE journal[r].status
        BY <1>5, JournalFinished DEF GiveUp, Finish, FINAL_STATUSES, RecoveryTypeInv
    <2>6. journal[rig].run \in 1 .. MaxRuns
        <3>1. journal[rig].run \in 0 .. MaxRuns
            BY <1>a
        <3>2. QED
            BY <2>1, <3>1
    <2>7. RecoveryTypeInv'
        <3>1. (life \in {"down", "restore", "recover", "serving", "stopping"} /\ lives \in 0 .. MaxLives)'
            BY <2>1, <2>2, <1>a DEF RecoveryTypeInv
        <3>2. (boot \in 1 .. MaxBoots /\ readable \in BOOLEAN /\ damaged \in BOOLEAN)'
            BY <2>2, <1>a DEF RecoveryTypeInv
        <3>3. (journal \in [Rigs -> Entries] /\ running \in [Rigs -> 0 .. MaxRuns] /\ pending \subseteq Ends)'
            BY <2>1, <2>2, <2>5, <2>6, <1>a DEF RecoveryTypeInv
        <3>4. (shown \in [Rigs -> {"idle", "running", "failed"}] /\ todo \subseteq Rigs /\ claimed \in Rigs \cup {0})'
            BY <2>1, <2>2, <2>3, <2>4, <1>a DEF RecoveryTypeInv
        <3>5. (claimed # 0 => journal[claimed].status = "active" /\ journal[claimed].claims = 1)'
            BY <2>1, <2>2, <2>3, <2>5, <2>6, <1>a DEF RecoveryTypeInv
        <3>6. (/\ runs \in 0 .. MaxRuns /\ born \in [1 .. MaxRuns -> 0 .. MaxBoots]
               /\ resumed \in [1 .. MaxRuns -> 0 .. MaxLives])'
            BY <2>2, <1>a DEF RecoveryTypeInv
        <3>7. (settled \subseteq 1 .. MaxRuns /\ unwritten \subseteq 1 .. MaxRuns)'
            BY <2>1, <2>2, <2>3, <2>4, <2>5, <2>6, <1>a DEF RecoveryTypeInv
        <3>8. QED
            BY <3>1, <3>2, <3>3, <3>4, <3>5, <3>6, <3>7 DEF RecoveryTypeInv
    <2>8. RunsKnown'
        BY <2>1, <2>2, <2>3, <2>5, <2>6, <1>a, ZenonT(40) DEF RunsKnown
    <2>9. RunsApart'
        BY <2>1, <2>2, <2>5, <2>6, <1>a DEF RunsApart, RunsKnown, ClaimInOrder
    <2>10. EntriesTrue'
        <3>1. (\A r \in Rigs : journal[r].claims = 0 /\ journal[r].run # 0 => resumed[journal[r].run] = 0)'
            BY <2>2, <2>5 DEF EntriesTrue, RunsKnown, RunsApart
        <3>2. (\A r \in Rigs : journal[r].boot # 0 => journal[r].run # 0 /\ born[journal[r].run] = journal[r].boot)'
            BY <2>2, <2>5 DEF EntriesTrue, RunsKnown, RunsApart
        <3>3. (\A r \in Rigs : journal[r].status = "active" => ~(journal[r].run \in settled))'
            <4>1. SUFFICES ASSUME NEW r \in Rigs, journal'[r].status = "active" PROVE journal'[r].run \notin settled'
                OBVIOUS
            <4>2. r # rig /\ journal[r].status = "active" /\ journal'[r].run = journal[r].run
                BY <4>1, <2>5
            <4>3. journal[r].run \notin settled
                BY <4>2 DEF EntriesTrue
            <4>4. journal[r].run # journal[rig].run
                BY <4>2, <2>1 DEF RunsApart
            <4>5. QED
                BY <4>2, <4>3, <4>4, <2>3
        <3>4. QED
            BY <3>1, <3>2, <3>3 DEF EntriesTrue
    <2>11. PhasesInOrder'
        BY <2>1, <2>2, <2>3 DEF PhasesInOrder
    <2>12. ClaimInOrder'
        BY <2>1, <2>2, <2>3, <2>5, <2>6, <1>a DEF ClaimInOrder, RunsApart
    <2>13. EndsInOrder'
        BY <2>1, <2>2, <2>3, <2>5, <2>6, <1>a DEF EndsInOrder, RunsApart
    <2>14. TruthKept'
        BY <2>1, <2>2, <2>3, <2>5, <2>6, <1>a DEF TruthKept, RunsKnown
    <2>15. LossesShown'
        BY <2>1, <2>2, <2>3, <2>4, <2>5, <2>6 DEF LossesShown, RunsKnown
    <2>16. ResumedOnce'
        BY <2>2, <1>a DEF ResumedOnce
    <2>17. SameBootOnly'
        BY <2>1, <2>2, <1>a DEF SameBootOnly
    <2>18. SettledIsOver'
        BY <2>1, <2>2, <2>3, <1>a DEF SettledIsOver, RunsKnown, RunsApart
    <2>19. QED
        BY <2>7, <2>8, <2>9, <2>10, <2>11, <2>12, <2>13, <2>14, <2>15, <2>16, <2>17, <2>18
<1>6. ASSUME NEW rig \in Rigs, Claim(rig) PROVE RecoveryIInv'
    <2>1. /\ life = "recover" /\ rig \in todo /\ journal[rig].status = "active" /\ journal[rig].claims = 0
          /\ journal[rig].run # 0 /\ running[rig] = 0 /\ claimed = 0 /\ claimed' = rig
          /\ born[journal[rig].run] = boot /\ resumed[journal[rig].run] = 0
        BY <1>6, <1>a DEF Claim, Chosen, SameBoot, BootId, ClaimInOrder, RunsKnown, EntriesTrue
    <2>2. UNCHANGED <<life, lives, boot, readable, damaged, settled, unwritten, running, pending, shown, runs,
                      born, resumed, todo>>
        BY <1>6 DEF Claim, processVars, diskVars, runVars, scanVars
    <2>3. journal' = [journal EXCEPT ![rig].claims = 1]
        BY <1>6 DEF Claim
    <2>4. journal[rig] \in Entries
        BY DEF RecoveryTypeInv
    <2>5. [journal[rig] EXCEPT !.claims = 1] \in Entries
        BY <2>4 DEF Entries
    <2>6. /\ journal' \in [Rigs -> Entries]
          /\ \A r \in Rigs : /\ journal'[r].run = journal[r].run /\ journal'[r].boot = journal[r].boot
                             /\ journal'[r].status = journal[r].status /\ journal'[r].mode = journal[r].mode
        BY <2>3, <2>5 DEF RecoveryTypeInv, Entries
    <2>7. \A r \in Rigs : journal'[r].claims = IF r = rig THEN 1 ELSE journal[r].claims
        BY <2>3 DEF RecoveryTypeInv, Entries
    <2>8. RecoveryTypeInv'
        BY <2>1, <2>2, <2>3, <2>4, <2>5, <2>6, <2>7, <1>a DEF RecoveryTypeInv
    <2>9. RunsKnown'
        BY <2>2, <2>3, <2>4, <2>5, <2>6, <2>7, <1>a DEF RunsKnown
    <2>10. RunsApart'
        BY <2>2, <2>3, <2>4, <2>5, <2>6, <2>7, <1>a DEF RunsApart, RunsKnown
    <2>11. EntriesTrue'
        BY <2>2, <2>3, <2>4, <2>5, <2>6, <2>7, <1>a DEF EntriesTrue, RunsKnown
    <2>12. PhasesInOrder'
        BY <2>1, <2>2 DEF PhasesInOrder
    <2>13. ClaimInOrder'
        BY <2>1, <2>2, <2>3, <2>4, <2>5, <2>6, <2>7, <1>a DEF ClaimInOrder
    <2>14. EndsInOrder'
        BY <2>2, <2>3, <2>4, <2>5, <2>6, <2>7, <1>a DEF EndsInOrder
    <2>15. TruthKept'
        BY <2>2, <2>3, <2>4, <2>5, <2>6, <2>7, <1>a DEF TruthKept, RunsKnown
    <2>16. LossesShown'
        BY <2>2, <2>3, <2>4, <2>5, <2>6, <2>7 DEF LossesShown, RunsKnown
    <2>17. ResumedOnce'
        BY <2>2, <1>a DEF ResumedOnce
    <2>18. SameBootOnly'
        BY <2>2, <1>a DEF SameBootOnly
    <2>19. SettledIsOver'
        BY <2>2, <1>a DEF SettledIsOver, RunsKnown
    <2>20. QED
        BY <2>8, <2>9, <2>10, <2>11, <2>12, <2>13, <2>14, <2>15, <2>16, <2>17, <2>18, <2>19
<1>7. ASSUME NEW rig \in Rigs, Resume(rig) PROVE RecoveryIInv'
    <2>1. /\ life = "recover" /\ claimed = rig /\ rig \in todo /\ journal[rig].status = "active" /\ journal[rig].claims = 1
          /\ journal[rig].run # 0 /\ running[rig] = 0 /\ lives # 0
          /\ born[journal[rig].run] = boot /\ resumed[journal[rig].run] = 0
          /\ journal[rig].run \in 1 .. MaxRuns /\ journal[rig].run <= runs
        BY <1>7, <1>a DEF Resume, PhasesInOrder, ClaimInOrder, RunsKnown, RecoveryTypeInv
    <2>2. UNCHANGED <<life, lives, boot, readable, journal, damaged, settled, unwritten, pending, runs, born>>
        BY <1>7 DEF Resume, processVars, diskVars, runVars, scanVars
    <2>3. todo' = todo \ {rig} /\ claimed' = 0
        BY <1>7 DEF Resume
    <2>4. /\ \A r \in Rigs : running'[r] = IF r = rig THEN journal[rig].run ELSE running[r]
          /\ \A r \in Rigs : shown'[r] = IF r = rig THEN "running" ELSE shown[r]
          /\ \A n \in 1 .. MaxRuns : resumed'[n] = IF n = journal[rig].run THEN 1 ELSE resumed[n]
        BY <1>7, <2>1 DEF Resume, RecoveryTypeInv
    <2>5. /\ running' \in [Rigs -> 0 .. MaxRuns] /\ shown' \in [Rigs -> {"idle", "running", "failed"}]
          /\ resumed' \in [1 .. MaxRuns -> 0 .. MaxLives]
        BY <1>7, <2>1, SMTT(30) DEF Resume, RecoveryTypeInv
    <2>6. \A end \in pending : end.run # journal[rig].run
        BY <2>1 DEF RunsApart, EndsInOrder
    <2>7. RecoveryTypeInv'
        BY <2>1, <2>2, <2>3, <2>4, <2>5, <2>6, <1>a DEF RecoveryTypeInv
    <2>8. RunsKnown'
        <3>1. (\A r \in Rigs : journal[r].run <= runs /\ running[r] <= runs)'
            BY <2>1, <2>2, <2>4, <2>5, <2>6, <1>a DEF RunsKnown
        <3>2. (\A r \in Rigs : journal[r].status # "none" => journal[r].run # 0)'
            BY <2>1, <2>2, <2>6, <1>a DEF RunsKnown
        <3>3. (\A end \in pending : end.run <= runs)'
            BY <2>1, <2>2, <2>6, <1>a DEF RunsKnown
        <3>4. (\A n \in settled \cup unwritten : n <= runs)'
            BY <2>1, <2>2, <1>a DEF RunsKnown
        <3>5. (\A n \in 1 .. MaxRuns : n > runs => resumed[n] = 0)'
            BY <2>1, <2>2, <2>4, <2>5, <1>a DEF RunsKnown
        <3>6. QED
            BY <3>1, <3>2, <3>3, <3>4, <3>5 DEF RunsKnown
    <2>9. RunsApart'
        <3>1. (\A r, s \in Rigs : journal[r].run = journal[s].run => r = s \/ journal[r].run = 0)'
            BY <2>1, <2>2, <2>6, <1>a DEF RunsApart, RunsKnown, ClaimInOrder
        <3>2. (\A r, s \in Rigs : running[r] = running[s] => r = s \/ running[r] = 0)'
            BY <2>1, <2>2, <2>4, <2>5, <1>a DEF RunsApart, RunsKnown, ClaimInOrder
        <3>3. (\A r, s \in Rigs : running[r] = journal[s].run => r = s \/ running[r] = 0)'
            BY <2>1, <2>2, <2>4 DEF RunsApart
        <3>4. (\A end \in pending, r \in Rigs : running[r] # end.run)'
            BY <2>2, <2>4, <2>6 DEF RunsApart
        <3>5. (\A end \in pending, r \in Rigs : journal[r].run = end.run => end.rig = r)'
            BY <2>1, <2>2, <2>6, <1>a DEF RunsApart, RunsKnown, ClaimInOrder
        <3>6. QED
            BY <3>1, <3>2, <3>3, <3>4, <3>5 DEF RunsApart
    <2>10. EntriesTrue'
        BY <2>1, <2>2, <2>3, <2>4, <2>5, <2>6, <1>a, SMTT(30) DEF EntriesTrue, RunsKnown, RunsApart
    <2>11. PhasesInOrder'
        BY <2>1, <2>2, <2>3, <2>4, <2>5, <2>6 DEF PhasesInOrder
    <2>12. ClaimInOrder'
        BY <2>1, <2>2, <2>3, <2>4, <2>5, <2>6, <1>a, SMTT(30) DEF ClaimInOrder, RunsApart
    <2>13. EndsInOrder'
        <3>1. (\A end \in pending : life = "recover" => end.rig \notin todo)'
            BY <2>1, <2>2, <2>3, <2>6, <1>a DEF EndsInOrder, RunsApart
        <3>2. (\A end \in pending : life = "recover" => running[end.rig] = 0)'
            BY <2>1, <2>2, <2>3, <2>4, <1>a, ZenonT(40) DEF EndsInOrder
        <3>3. (\A end \in pending : life = "recover" => journal[end.rig].run = end.run)'
            BY <2>1, <2>2, <2>6, <1>a DEF EndsInOrder, RunsApart
        <3>4. QED
            BY <3>1, <3>2, <3>3 DEF EndsInOrder
    <2>14. TruthKept'
        BY <2>1, <2>2, <2>3, <2>4, <2>5, <2>6, <1>a DEF TruthKept, RunsKnown
    <2>15. LossesShown'
        BY <2>1, <2>2, <2>3, <2>4, <2>5, <2>6 DEF LossesShown, RunsKnown, RunsApart
    <2>16. ResumedOnce'
        BY <2>1, <2>2, <2>4, <2>5, <1>a DEF ResumedOnce
    <2>17. SameBootOnly'
        BY <2>1, <2>2, <2>4, <2>5, <1>a DEF SameBootOnly
    <2>18. SettledIsOver'
        BY <2>1, <2>2, <2>4, <2>5, <1>a DEF SettledIsOver, RunsKnown, EntriesTrue, RunsApart
    <2>19. QED
        BY <2>7, <2>8, <2>9, <2>10, <2>11, <2>12, <2>13, <2>14, <2>15, <2>16, <2>17, <2>18
<1>8. ASSUME NEW rig \in Rigs, NEW mode \in Modes, NEW written \in BOOLEAN, RunStarts(rig, mode, written)
      PROVE  RecoveryIInv'
    <2>1. /\ life = "serving" /\ running[rig] = 0 /\ runs < MaxRuns /\ runs + 1 \in 1 .. MaxRuns /\ ~(damaged /\ written)
          /\ todo = {} /\ claimed = 0
        BY <1>8 DEF RunStarts, PhasesInOrder, RecoveryTypeInv
    <2>2. UNCHANGED <<life, lives, boot, readable, damaged, settled, pending, resumed, todo, claimed>>
        BY <1>8 DEF RunStarts, processVars, diskVars, runVars, scanVars
    <2>3. /\ runs' = runs + 1 /\ unwritten' = IF written THEN unwritten ELSE unwritten \cup {runs + 1}
        BY <1>8 DEF RunStarts
    <2>4. /\ \A n \in 1 .. MaxRuns : born'[n] = IF n = runs + 1 THEN boot ELSE born[n]
          /\ \A r \in Rigs : running'[r] = IF r = rig THEN runs + 1 ELSE running[r]
          /\ \A r \in Rigs : shown'[r] = IF r = rig THEN "running" ELSE shown[r]
        BY <1>8, <2>1 DEF RunStarts, RecoveryTypeInv
    <2>5. /\ running' \in [Rigs -> 0 .. MaxRuns] /\ shown' \in [Rigs -> {"idle", "running", "failed"}]
          /\ born' \in [1 .. MaxRuns -> 0 .. MaxBoots]
        BY <1>8, <2>1, <1>a DEF RunStarts, RecoveryTypeInv
    <2>6. journal' = IF written THEN [journal EXCEPT ![rig] = Begun(runs + 1, mode)] ELSE journal
        BY <1>8 DEF RunStarts
    <2>7. BootId \in {0, boot} /\ BootId \in 0 .. MaxBoots
        BY DEF BootId, RecoveryTypeInv
    <2>8. Begun(runs + 1, mode) \in Entries
        BY <2>1, <2>7 DEF Begun, Entries
    <2>9. /\ \A r \in Rigs : journal'[r].run = IF r = rig /\ written THEN runs + 1 ELSE journal[r].run
          /\ \A r \in Rigs : journal'[r].boot = IF r = rig /\ written THEN BootId ELSE journal[r].boot
          /\ \A r \in Rigs : journal'[r].claims = IF r = rig /\ written THEN 0 ELSE journal[r].claims
          /\ \A r \in Rigs : journal'[r].status = IF r = rig /\ written THEN "active" ELSE journal[r].status
        BY <2>6 DEF Begun, RecoveryTypeInv
    <2>10. journal' \in [Rigs -> Entries]
        BY <2>6, <2>8 DEF RecoveryTypeInv
    <2>11. /\ \A r \in Rigs : journal[r].run < runs + 1 /\ running[r] < runs + 1
          /\ \A r \in Rigs : journal[r].run # runs + 1 /\ running[r] # runs + 1
          /\ \A end \in pending : end.run < runs + 1
        BY <1>a DEF RunsKnown
    <2>12. \A n \in settled \cup unwritten : n < runs + 1
        BY <1>a DEF RunsKnown, RecoveryTypeInv
    <2>13. resumed[runs + 1] = 0
        BY <2>1, <1>a DEF RunsKnown
    <2>14. RecoveryTypeInv'
        BY <2>1, <2>2, <2>3, <2>4, <2>5, <2>6, <2>7, <2>8, <2>9, <2>10, <2>11, <2>12, <2>13, <1>a DEF RecoveryTypeInv
    <2>15. RunsKnown'
        <3>1. (\A r \in Rigs : journal[r].run <= runs /\ running[r] <= runs)'
            BY <2>1, <2>2, <2>3, <2>4, <2>5, <2>6, <2>8, <2>9, <2>10, <2>11, <2>12, <2>13, <1>a, SMTT(30) DEF RunsKnown
        <3>2. (\A r \in Rigs : journal[r].status # "none" => journal[r].run # 0)'
            BY <2>2, <2>6, <2>9, <2>10, <2>11, <1>a DEF RunsKnown
        <3>3. (\A end \in pending : end.run <= runs)'
            BY <2>1, <2>2, <2>3, <2>8, <2>11, <2>12, <2>13, <1>a DEF RunsKnown
        <3>4. (\A n \in settled \cup unwritten : n <= runs)'
            BY <2>2, <2>3, <2>12, <1>a DEF RunsKnown, RecoveryTypeInv
        <3>5. (\A n \in 1 .. MaxRuns : n > runs => resumed[n] = 0)'
            BY <2>1, <2>2, <2>3, <2>8, <2>11, <2>12, <2>13, <1>a DEF RunsKnown
        <3>6. QED
            BY <3>1, <3>2, <3>3, <3>4, <3>5 DEF RunsKnown
    <2>16. RunsApart'
        <3>1. (\A r, s \in Rigs : journal[r].run = journal[s].run => r = s \/ journal[r].run = 0)'
            BY <2>2, <2>6, <2>9, <2>10, <2>11, <1>a DEF RunsApart, RunsKnown
        <3>2. (\A r, s \in Rigs : running[r] = running[s] => r = s \/ running[r] = 0)'
            BY <2>2, <2>4, <2>11 DEF RunsApart
        <3>3. (\A r, s \in Rigs : running[r] = journal[s].run => r = s \/ running[r] = 0)'
            BY <2>4, <2>9, <2>11 DEF RunsApart
        <3>4. (\A end \in pending, r \in Rigs : running[r] # end.run)'
            BY <2>1, <2>2, <2>4, <2>5, <2>11, <1>a DEF RunsApart, RunsKnown
        <3>5. (\A end \in pending, r \in Rigs : journal[r].run = end.run => end.rig = r)'
            BY <2>2, <2>6, <2>9, <2>10, <2>11, <1>a DEF RunsApart, RunsKnown
        <3>6. QED
            BY <3>1, <3>2, <3>3, <3>4, <3>5 DEF RunsApart
    <2>17. EntriesTrue'
        <3>1. (\A r \in Rigs : journal[r].claims = 0 /\ journal[r].run # 0 => resumed[journal[r].run] = 0)'
            BY <2>2, <2>6, <2>9, <2>10, <2>11, <2>13, <1>a DEF EntriesTrue, RunsKnown
        <3>2. (\A r \in Rigs : journal[r].boot # 0 => journal[r].run # 0 /\ born[journal[r].run] = journal[r].boot)'
            BY <2>1, <2>2, <2>4, <2>7, <2>9, <2>11, <1>a DEF EntriesTrue
        <3>3. (\A r \in Rigs : journal[r].status = "active" => ~(journal[r].run \in settled))'
            BY <2>2, <2>6, <2>9, <2>10, <2>11, <2>12, <1>a DEF EntriesTrue, RunsKnown
        <3>4. QED
            BY <3>1, <3>2, <3>3 DEF EntriesTrue
    <2>18. PhasesInOrder'
        <3>1. (life # "recover" => todo = {} /\ claimed = 0)'
            BY <2>1, <2>2, <2>4, <1>a DEF PhasesInOrder
        <3>2. (life # "down" => lives # 0)'
            BY <2>1, <2>2, <2>4, <1>a DEF PhasesInOrder
        <3>3. (life \in {"down", "restore"} => pending = {})'
            BY <2>1, <2>2, <2>4, <1>a DEF PhasesInOrder
        <3>4. (\A r \in Rigs : life \in {"down", "restore"} => running[r] = 0)'
            BY <2>1, <2>2, <2>4, <1>a DEF PhasesInOrder
        <3>5. (life = "recover" => ~damaged)'
            BY <2>1, <2>2, <2>4, <1>a DEF PhasesInOrder
        <3>6. QED
            BY <3>1, <3>2, <3>3, <3>4, <3>5 DEF PhasesInOrder
    <2>19. ClaimInOrder'
        <3>1. (claimed # 0 => claimed \in todo)'
            BY <2>1, <2>2, <2>4, <2>9, <1>a DEF ClaimInOrder
        <3>2. (claimed # 0 => born[journal[claimed].run] = boot)'
            BY <2>1, <2>2, <2>4, <2>9, <1>a DEF ClaimInOrder
        <3>3. (claimed # 0 => resumed[journal[claimed].run] = 0)'
            BY <2>1, <2>2, <2>4, <2>9, <1>a DEF ClaimInOrder
        <3>4. (\A r \in todo : journal[r].status = "active")'
            BY <2>1, <2>2, <2>4, <2>9, <1>a DEF ClaimInOrder
        <3>5. (\A r \in todo : running[r] = 0)'
            BY <2>1, <2>2, <2>4, <2>9, <1>a DEF ClaimInOrder
        <3>6. (\A r \in Rigs : life = "recover" => running[r] = 0 \/ running[r] = journal[r].run)'
            BY <2>1, <2>2, <2>4, <2>9, <1>a DEF ClaimInOrder
        <3>7. QED
            BY <3>1, <3>2, <3>3, <3>4, <3>5, <3>6 DEF ClaimInOrder
    <2>20. EndsInOrder'
        <3>1. (\A end \in pending : life = "recover" => end.rig \notin todo)'
            BY <2>1, <2>2 DEF EndsInOrder
        <3>2. (\A end \in pending : life = "recover" => running[end.rig] = 0)'
            BY <2>1, <2>2 DEF EndsInOrder
        <3>3. (\A end \in pending : life = "recover" => journal[end.rig].run = end.run)'
            BY <2>1, <2>2 DEF EndsInOrder
        <3>4. QED
            BY <3>1, <3>2, <3>3 DEF EndsInOrder
    <2>21. TruthKept'
        BY <2>1, <2>2, <2>3, <2>4, <2>5, <2>6, <2>9, <2>10, <2>11, <2>12, <1>a DEF TruthKept, RunsKnown, PhasesInOrder
    <2>22. LossesShown'
        BY <2>1, <2>2, <2>3, <2>4, <2>5, <2>6, <2>9, <2>10, <2>11, <2>12 DEF LossesShown, RunsKnown
    <2>23. ResumedOnce'
        BY <2>2, <2>13, <1>a DEF ResumedOnce
    <2>24. SameBootOnly'
        BY <2>1, <2>2, <2>3, <2>4, <2>5, <2>6, <2>7, <2>8, <2>9, <2>10, <2>11, <2>12, <2>13, <1>a, SMTT(30) DEF SameBootOnly, RunsKnown
    <2>25. SettledIsOver'
        BY <2>1, <2>2, <2>4, <2>5, <2>11, <2>12, <1>a DEF SettledIsOver, RunsKnown
    <2>26. QED
        BY <2>14, <2>15, <2>16, <2>17, <2>18, <2>19, <2>20, <2>21, <2>22, <2>23, <2>24, <2>25
<1>9. ASSUME NEW rig \in Rigs, NEW status \in FINAL_STATUSES, RunEnds(rig, status) PROVE RecoveryIInv'
    <2>1. life \in {"recover", "serving", "stopping"} /\ running[rig] # 0
        BY <1>9 DEF RunEnds
    <2>2. UNCHANGED <<life, lives, boot, readable, journal, damaged, settled, unwritten, runs, born, resumed,
                      todo, claimed>>
        BY <1>9 DEF RunEnds, processVars, diskVars, runVars, scanVars
    <2>3. /\ \A r \in Rigs : running'[r] = IF r = rig THEN 0 ELSE running[r]
          /\ running' \in [Rigs -> 0 .. MaxRuns] /\ shown' \in [Rigs -> {"idle", "running", "failed"}]
          /\ \A r \in Rigs : r # rig => shown'[r] = shown[r]
        BY <1>9 DEF RunEnds, RecoveryTypeInv
    <2>4. rig \notin todo /\ running[rig] \in 1 .. MaxRuns /\ running[rig] <= runs
        <3>1. running[rig] \in 0 .. MaxRuns
            BY <1>a
        <3>2. rig \notin todo /\ running[rig] <= runs
            BY <2>1 DEF ClaimInOrder, RunsKnown
        <3>3. QED
            BY <2>1, <3>1, <3>2
    <2>5. PICK new \in Ends : new = [rig |-> rig, run |-> running[rig], status |-> status]
        BY <2>4 DEF Ends
    <2>6. new.rig = rig /\ new.run = running[rig] /\ pending' = pending \cup {new}
        BY <1>9, <2>5 DEF RunEnds
    <2>7. 0 \notin settled
        BY DEF RecoveryTypeInv
    <2>8. \A r \in Rigs : running'[r] # new.run
        BY <2>1, <2>3, <2>6 DEF RunsApart
    <2>9. \A end \in pending, r \in Rigs : running'[r] # end.run
        BY <2>3, <1>a DEF RunsApart
    <2>10. RecoveryTypeInv'
        BY <2>1, <2>2, <2>3, <2>4, <2>5, <2>6, <2>7, <2>8, <2>9, <1>a DEF RecoveryTypeInv
    <2>11. RunsKnown'
        BY <2>1, <2>2, <2>3, <2>4, <2>5, <2>6, <2>7, <2>8, <2>9, <1>a DEF RunsKnown
    <2>12. RunsApart'
        <3>1. (\A r, s \in Rigs : journal[r].run = journal[s].run => r = s \/ journal[r].run = 0)'
            BY <2>2, <1>a DEF RunsApart, RunsKnown
        <3>2. (\A r, s \in Rigs : running[r] = running[s] => r = s \/ running[r] = 0)'
            BY <2>1, <2>2, <2>3, <2>4, <2>5, <2>8, <2>9, <1>a DEF RunsApart, RunsKnown
        <3>3. (\A r, s \in Rigs : running[r] = journal[s].run => r = s \/ running[r] = 0)'
            BY <2>1, <2>2, <2>3, <2>4, <2>5, <2>8, <2>9, <1>a DEF RunsApart, RunsKnown
        <3>4. (\A end \in pending, r \in Rigs : running[r] # end.run)'
            BY <2>6, <2>8, <2>9 DEF RunsApart
        <3>5. (\A end \in pending, r \in Rigs : journal[r].run = end.run => end.rig = r)'
            BY <2>2, <2>4, <2>6 DEF RunsApart
        <3>6. QED
            BY <3>1, <3>2, <3>3, <3>4, <3>5 DEF RunsApart
    <2>13. EntriesTrue'
        BY <2>2, <2>7, <1>a DEF EntriesTrue, RunsKnown
    <2>14. PhasesInOrder'
        BY <2>1, <2>2, <2>3, <2>4, <2>5, <2>6, <2>8, <2>9 DEF PhasesInOrder
    <2>15. ClaimInOrder'
        BY <2>1, <2>2, <2>3, <2>4, <2>5, <2>6, <2>7, <2>8, <2>9, <1>a, ZenonT(40) DEF ClaimInOrder
    <2>16. EndsInOrder'
        <3>1. (\A end \in pending : life = "recover" => end.rig \notin todo)'
            BY <2>1, <2>2, <2>4, <2>6, <1>a DEF EndsInOrder
        <3>2. (\A end \in pending : life = "recover" => running[end.rig] = 0)'
            BY <2>1, <2>2, <2>3, <2>4, <2>5, <2>6, <2>7, <2>8, <2>9, <1>a, ZenonT(40) DEF EndsInOrder
        <3>3. (\A end \in pending : life = "recover" => journal[end.rig].run = end.run)'
            BY <2>1, <2>2, <2>6 DEF EndsInOrder, ClaimInOrder
        <3>4. QED
            BY <3>1, <3>2, <3>3 DEF EndsInOrder
    <2>17. TruthKept'
        BY <2>1, <2>2, <2>3, <2>4, <2>5, <2>6, <2>8, <2>9, <1>a DEF TruthKept, RunsKnown
    <2>18. LossesShown'
        BY <2>1, <2>2, <2>3, <2>4, <2>6 DEF LossesShown, RunsKnown
    <2>19. ResumedOnce'
        BY <2>2, <1>a DEF ResumedOnce
    <2>20. SameBootOnly'
        BY <2>1, <2>2, <2>3, <2>4, <2>5, <2>8, <2>9, <1>a DEF SameBootOnly
    <2>21. SettledIsOver'
        BY <2>1, <2>2, <2>3, <2>4, <2>5, <2>7, <2>8, <2>9, <1>a DEF SettledIsOver, RunsKnown
    <2>22. QED
        BY <2>10, <2>11, <2>12, <2>13, <2>14, <2>15, <2>16, <2>17, <2>18, <2>19, <2>20, <2>21
<1>10. ASSUME NEW end \in pending, EndWritten(end) PROVE RecoveryIInv'
    <2>1. /\ end \in Ends /\ end.rig \in Rigs /\ end.run \in 1 .. MaxRuns /\ end.run <= runs
          /\ end.status \in FINAL_STATUSES /\ end.status # "active" /\ end.status # "none"
          /\ ~damaged /\ life \notin {"down", "restore"}
        BY <1>10 DEF EndWritten, RecoveryTypeInv, PhasesInOrder, RunsKnown, Ends, FINAL_STATUSES
    <2>2. UNCHANGED <<life, lives, boot, readable, damaged, unwritten, running, runs, born, resumed, todo, claimed>>
        BY <1>10 DEF EndWritten, processVars, diskVars, runVars, scanVars
    <2>3. /\ pending' = pending \ {end}
          /\ settled' = IF journal[end.rig].run = end.run THEN settled \cup {end.run} ELSE settled
        BY <1>10 DEF EndWritten, Finish
    <2>4. /\ shown' \in [Rigs -> {"idle", "running", "failed"}]
          /\ \A r \in Rigs : shown'[r] = IF end.status = "failed" /\ running[end.rig] = 0 /\ r = end.rig
                                         THEN "failed" ELSE shown[r]
        BY <1>10, <2>1 DEF EndWritten, ShownAfter, RecoveryTypeInv
    <2>5. journal' = Finished(end.rig, end.run, end.status)
        BY <1>10 DEF EndWritten, Finish
    <2>6. /\ journal' \in [Rigs -> Entries]
          /\ \A r \in Rigs : /\ journal'[r].run = journal[r].run /\ journal'[r].boot = journal[r].boot
                             /\ journal'[r].claims = journal[r].claims /\ journal'[r].mode = journal[r].mode
          /\ \A r \in Rigs : journal'[r].status = IF r = end.rig /\ journal[r].run = end.run THEN end.status
                                                    ELSE journal[r].status
        BY <2>1, <2>5, ZenonT(40) DEF Finished, RecoveryTypeInv, Entries
    <2>7. \A r \in Rigs : journal[r].run = end.run => r = end.rig
        BY <2>1 DEF RunsApart
    <2>8. \A r \in Rigs : running[r] # end.run
        BY <2>1 DEF RunsApart
    <2>9. life = "recover" => end.rig \notin todo /\ running[end.rig] = 0 /\ journal[end.rig].run = end.run
        BY DEF EndsInOrder
    <2>10. \A r \in todo : r # end.rig /\ r \in Rigs
        BY <2>9, <1>a DEF PhasesInOrder
    <2>11. claimed # 0 => claimed # end.rig /\ claimed \in Rigs
        BY <2>10 DEF ClaimInOrder
    <2>12. RecoveryTypeInv'
        <3>1. (life \in {"down", "restore", "recover", "serving", "stopping"} /\ lives \in 0 .. MaxLives)'
            BY <2>1, <2>2, <2>9, <1>a DEF RecoveryTypeInv
        <3>2. (boot \in 1 .. MaxBoots /\ readable \in BOOLEAN /\ damaged \in BOOLEAN)'
            BY <2>1, <2>2, <1>a DEF RecoveryTypeInv
        <3>3. (journal \in [Rigs -> Entries] /\ running \in [Rigs -> 0 .. MaxRuns] /\ pending \subseteq Ends)'
            BY <2>2, <2>3, <2>5, <2>6, <2>7, <2>8, <2>9, <1>a DEF RecoveryTypeInv
        <3>4. (shown \in [Rigs -> {"idle", "running", "failed"}] /\ todo \subseteq Rigs /\ claimed \in Rigs \cup {0})'
            BY <2>2, <2>4, <2>8, <2>9, <2>10, <2>11, <1>a DEF RecoveryTypeInv
        <3>5. (claimed # 0 => journal[claimed].status = "active" /\ journal[claimed].claims = 1)'
            BY <2>1, <2>2, <2>6, <2>11 DEF RecoveryTypeInv
        <3>6. (/\ runs \in 0 .. MaxRuns /\ born \in [1 .. MaxRuns -> 0 .. MaxBoots]
               /\ resumed \in [1 .. MaxRuns -> 0 .. MaxLives])'
            BY <2>1, <2>2, <1>a DEF RecoveryTypeInv
        <3>7. (settled \subseteq 1 .. MaxRuns /\ unwritten \subseteq 1 .. MaxRuns)'
            BY <2>2, <2>3, <1>a DEF RecoveryTypeInv
        <3>8. QED
            BY <3>1, <3>2, <3>3, <3>4, <3>5, <3>6, <3>7 DEF RecoveryTypeInv
    <2>13. RunsKnown'
        BY <2>1, <2>2, <2>3, <2>5, <2>6, <2>7, <2>8, <2>9, <1>a DEF RunsKnown
    <2>14. RunsApart'
        BY <2>2, <2>3, <2>5, <2>6, <2>7, <2>8, <2>9, <1>a DEF RunsApart, RunsKnown
    <2>15. EntriesTrue'
        BY <2>1, <2>2, <2>3, <2>4, <2>5, <2>6, <2>7, <2>8, <2>9, <2>10, <2>11, <1>a DEF EntriesTrue, RunsKnown
    <2>16. PhasesInOrder'
        BY <2>1, <2>2, <2>3, <2>8, <2>9, <2>10, <2>11 DEF PhasesInOrder
    <2>17. ClaimInOrder'
        <3>1. (claimed # 0 => claimed \in todo)'
            BY <2>2, <2>9, <2>10, <2>11, <1>a DEF ClaimInOrder
        <3>2. (claimed # 0 => born[journal[claimed].run] = boot)'
            BY <2>2, <2>5, <2>6, <2>7, <2>9, <2>11, <1>a DEF ClaimInOrder
        <3>3. (claimed # 0 => resumed[journal[claimed].run] = 0)'
            BY <2>2, <2>5, <2>6, <2>7, <2>9, <2>11, <1>a DEF ClaimInOrder
        <3>4. (\A r \in todo : journal[r].status = "active")'
            BY <2>1, <2>2, <2>6, <2>10 DEF ClaimInOrder
        <3>5. (\A r \in todo : running[r] = 0)'
            BY <2>2, <2>8, <2>9, <2>10, <1>a DEF ClaimInOrder
        <3>6. (\A r \in Rigs : life = "recover" => running[r] = 0 \/ running[r] = journal[r].run)'
            BY <2>1, <2>2, <2>5, <2>6, <2>7, <2>8, <2>9, <1>a DEF ClaimInOrder
        <3>7. QED
            BY <3>1, <3>2, <3>3, <3>4, <3>5, <3>6 DEF ClaimInOrder
    <2>18. EndsInOrder'
        <3>1. (\A e \in pending : life = "recover" => e.rig \notin todo)'
            BY <2>2, <2>3 DEF EndsInOrder
        <3>2. (\A e \in pending : life = "recover" => running[e.rig] = 0)'
            BY <2>2, <2>3 DEF EndsInOrder
        <3>3. (\A e \in pending : life = "recover" => journal[e.rig].run = e.run)'
            BY <2>1, <2>2, <2>3, <2>6, <1>a DEF EndsInOrder, RecoveryTypeInv, Ends
        <3>4. QED
            BY <3>1, <3>2, <3>3 DEF EndsInOrder
    <2>19. TruthKept'
        BY <2>1, <2>2, <2>3, <2>5, <2>6, <2>7, <2>8, <2>9, <2>10, <1>a DEF TruthKept, RunsKnown
    <2>20. LossesShown'
        BY <2>1, <2>2, <2>3, <2>4, <2>5, <2>6, <2>7, <2>9, <2>10 DEF LossesShown, RunsKnown
    <2>21. ResumedOnce'
        BY <2>2, <1>a DEF ResumedOnce
    <2>22. SameBootOnly'
        BY <2>2, <2>8, <2>9, <1>a DEF SameBootOnly
    <2>23. SettledIsOver'
        BY <2>2, <2>3, <2>8, <2>9, <1>a DEF SettledIsOver, RunsKnown
    <2>24. QED
        BY <2>12, <2>13, <2>14, <2>15, <2>16, <2>17, <2>18, <2>19, <2>20, <2>21, <2>22, <2>23
<1>11. ASSUME NEW end \in pending, EndUnwritten(end) PROVE RecoveryIInv'
    <2>1. /\ end \in Ends /\ end.rig \in Rigs /\ end.run \in 1 .. MaxRuns /\ end.run <= runs
        BY <1>11 DEF RecoveryTypeInv, RunsKnown, Ends
    <2>2. UNCHANGED <<life, lives, boot, readable, journal, damaged, settled, running, runs, born, resumed,
                      todo, claimed>>
        BY <1>11 DEF EndUnwritten, processVars, diskVars, runVars, scanVars
    <2>3. pending' = pending \ {end} /\ unwritten' = unwritten \cup {end.run}
        BY <1>11 DEF EndUnwritten
    <2>4. /\ shown' \in [Rigs -> {"idle", "running", "failed"}]
          /\ \A r \in Rigs : shown'[r] # "failed" => shown'[r] = shown[r]
        BY <1>11, <2>1 DEF EndUnwritten, ShownAfter, RecoveryTypeInv
    <2>5. life = "recover" => end.rig \notin todo /\ running[end.rig] = 0 /\ journal[end.rig].run = end.run
        BY DEF EndsInOrder
    <2>6. RecoveryTypeInv'
        BY <2>1, <2>2, <2>3, <2>4, <2>5, <1>a DEF RecoveryTypeInv
    <2>7. RunsKnown'
        BY <2>1, <2>2, <2>3, <2>5, <1>a DEF RunsKnown
    <2>8. RunsApart'
        BY <2>2, <2>3, <2>5, <1>a DEF RunsApart, RunsKnown
    <2>9. EntriesTrue'
        BY <2>2, <2>5, <1>a DEF EntriesTrue, RunsKnown
    <2>10. PhasesInOrder'
        BY <2>2, <2>3, <2>5 DEF PhasesInOrder
    <2>11. ClaimInOrder'
        BY <2>2, <2>5, <1>a DEF ClaimInOrder
    <2>12. EndsInOrder'
        BY <2>2, <2>3, <2>5, <1>a DEF EndsInOrder
    <2>13. TruthKept'
        BY <2>2, <2>3, <2>5, <1>a DEF TruthKept, RunsKnown
    <2>14. LossesShown'
        BY <2>2, <2>3, <2>4, <2>5 DEF LossesShown, RunsKnown
    <2>15. ResumedOnce'
        BY <2>2, <1>a DEF ResumedOnce
    <2>16. SameBootOnly'
        BY <2>2, <2>5, <1>a DEF SameBootOnly
    <2>17. SettledIsOver'
        BY <2>2, <2>5, <1>a DEF SettledIsOver, RunsKnown
    <2>18. QED
        BY <2>6, <2>7, <2>8, <2>9, <2>10, <2>11, <2>12, <2>13, <2>14, <2>15, <2>16, <2>17
<1>12. ASSUME Gone, boot' \in 1 .. MaxBoots, readable' \in BOOLEAN PROVE RecoveryIInv'
    <2>1. /\ life' = "down" /\ pending' = {} /\ todo' = {} /\ claimed' = 0
          /\ UNCHANGED <<lives, journal, damaged, settled, unwritten, shown, runs, born, resumed>>
        BY <1>12 DEF Gone, processVars, diskVars, runVars, scanVars
    <2>2. running' \in [Rigs -> 0 .. MaxRuns] /\ \A r \in Rigs : running'[r] = 0
        BY <1>12 DEF Gone
    <2>3. boot' \in 1 .. MaxBoots /\ readable' \in BOOLEAN
        BY <1>12
    <2>4. runs \in Nat /\ settled \subseteq 1 .. MaxRuns
        BY DEF RecoveryTypeInv
    <2>5. RecoveryTypeInv'
        BY <2>1, <2>2, <2>3, <2>4, <1>a DEF RecoveryTypeInv
    <2>6. RunsKnown'
        <3>1. (\A r \in Rigs : journal[r].run <= runs /\ running[r] <= runs)'
            BY <2>1, <2>2, <2>3, <2>4, <1>a DEF RunsKnown
        <3>2. (\A r \in Rigs : journal[r].status # "none" => journal[r].run # 0)'
            BY <2>1, <1>a DEF RunsKnown
        <3>3. (\A end \in pending : end.run <= runs)'
            BY <2>1, <2>4, <1>a DEF RunsKnown
        <3>4. (\A n \in settled \cup unwritten : n <= runs)'
            BY <2>1, <2>4, <1>a DEF RunsKnown
        <3>5. (\A n \in 1 .. MaxRuns : n > runs => resumed[n] = 0)'
            BY <2>1, <2>4, <1>a DEF RunsKnown
        <3>6. QED
            BY <3>1, <3>2, <3>3, <3>4, <3>5 DEF RunsKnown
    <2>7. RunsApart'
        BY <2>1, <2>2, <1>a DEF RunsApart, RunsKnown
    <2>8. EntriesTrue'
        BY <2>1, <2>3, <2>4, <1>a DEF EntriesTrue, RunsKnown
    <2>9. PhasesInOrder'
        BY <2>1, <2>2 DEF PhasesInOrder
    <2>10. ClaimInOrder'
        BY <2>1, <2>2, <2>3, <1>a DEF ClaimInOrder
    <2>11. EndsInOrder'
        BY <2>1, <2>2, <1>a DEF EndsInOrder
    <2>12. TruthKept'
        BY <2>1, <2>2, <1>a DEF TruthKept, RunsKnown
    <2>13. LossesShown'
        BY <2>1 DEF LossesShown, RunsKnown
    <2>14. ResumedOnce'
        BY <2>1, <1>a DEF ResumedOnce
    <2>15. SameBootOnly'
        BY <2>1, <2>2, <2>3, <1>a DEF SameBootOnly
    <2>16. SettledIsOver'
        BY <2>1, <2>2, <2>4, <1>a DEF SettledIsOver, RunsKnown
    <2>17. QED
        BY <2>5, <2>6, <2>7, <2>8, <2>9, <2>10, <2>11, <2>12, <2>13, <2>14, <2>15, <2>16
<1>13. CASE ShutsDown
    <2>1. /\ life = "serving" /\ life' = "stopping"
          /\ UNCHANGED <<lives, boot, readable, journal, damaged, settled, unwritten, running, pending, shown,
                         runs, born, resumed, todo, claimed>>
        BY <1>13 DEF ShutsDown, processVars, diskVars, runVars, scanVars
    <2>2. RecoveryTypeInv'
        BY <2>1, <1>a DEF RecoveryTypeInv
    <2>3. RunsKnown'
        BY <2>1, <1>a DEF RunsKnown
    <2>4. RunsApart'
        BY <2>1, <1>a DEF RunsApart, RunsKnown
    <2>5. EntriesTrue'
        BY <2>1, <1>a DEF EntriesTrue, RunsKnown
    <2>6. PhasesInOrder'
        BY <2>1 DEF PhasesInOrder
    <2>7. ClaimInOrder'
        BY <2>1, <1>a DEF ClaimInOrder
    <2>8. EndsInOrder'
        BY <2>1, <1>a DEF EndsInOrder
    <2>9. TruthKept'
        BY <2>1, <1>a DEF TruthKept, RunsKnown
    <2>10. LossesShown'
        BY <2>1 DEF LossesShown, RunsKnown
    <2>11. ResumedOnce'
        BY <2>1, <1>a DEF ResumedOnce
    <2>12. SameBootOnly'
        BY <2>1, <1>a DEF SameBootOnly
    <2>13. SettledIsOver'
        BY <2>1, <1>a DEF SettledIsOver, RunsKnown
    <2>14. QED
        BY <2>2, <2>3, <2>4, <2>5, <2>6, <2>7, <2>8, <2>9, <2>10, <2>11, <2>12, <2>13
<1>14. CASE JournalRots
    <2>1. /\ life = "down" /\ damaged' = TRUE
          /\ UNCHANGED <<life, lives, boot, readable, journal, settled, unwritten, running, pending, shown,
                         runs, born, resumed, todo, claimed>>
        BY <1>14 DEF JournalRots, processVars, diskVars, runVars, scanVars
    <2>2. RecoveryTypeInv'
        BY <2>1, <1>a DEF RecoveryTypeInv
    <2>3. RunsKnown'
        BY <2>1, <1>a DEF RunsKnown
    <2>4. RunsApart'
        BY <2>1, <1>a DEF RunsApart, RunsKnown
    <2>5. EntriesTrue'
        BY <2>1, <1>a DEF EntriesTrue, RunsKnown
    <2>6. PhasesInOrder'
        BY <2>1 DEF PhasesInOrder
    <2>7. ClaimInOrder'
        BY <2>1, <1>a DEF ClaimInOrder
    <2>8. EndsInOrder'
        BY <2>1, <1>a DEF EndsInOrder
    <2>9. TruthKept'
        BY <2>1, <1>a DEF TruthKept, RunsKnown
    <2>10. LossesShown'
        BY <2>1 DEF LossesShown, RunsKnown
    <2>11. ResumedOnce'
        BY <2>1, <1>a DEF ResumedOnce
    <2>12. SameBootOnly'
        BY <2>1, <1>a DEF SameBootOnly
    <2>13. SettledIsOver'
        BY <2>1, <1>a DEF SettledIsOver, RunsKnown
    <2>14. QED
        BY <2>2, <2>3, <2>4, <2>5, <2>6, <2>7, <2>8, <2>9, <2>10, <2>11, <2>12, <2>13
<1>15. CASE UNCHANGED recoveryVars
    <2>1. UNCHANGED <<life, lives, boot, readable, journal, damaged, settled, unwritten, running, pending,
                      shown, runs, born, resumed, todo, claimed>>
        BY <1>15 DEF recoveryVars, processVars, diskVars, runVars, scanVars
    <2>2. RecoveryTypeInv'
        BY <2>1, <1>a DEF RecoveryTypeInv
    <2>3. RunsKnown'
        BY <2>1, <1>a DEF RunsKnown
    <2>4. RunsApart'
        BY <2>1, <1>a DEF RunsApart, RunsKnown
    <2>5. EntriesTrue'
        BY <2>1, <1>a DEF EntriesTrue, RunsKnown
    <2>6. PhasesInOrder'
        BY <2>1 DEF PhasesInOrder
    <2>7. ClaimInOrder'
        BY <2>1, <1>a DEF ClaimInOrder
    <2>8. EndsInOrder'
        BY <2>1, <1>a DEF EndsInOrder
    <2>9. TruthKept'
        BY <2>1, <1>a DEF TruthKept, RunsKnown
    <2>10. LossesShown'
        BY <2>1 DEF LossesShown, RunsKnown
    <2>11. ResumedOnce'
        BY <2>1, <1>a DEF ResumedOnce
    <2>12. SameBootOnly'
        BY <2>1, <1>a DEF SameBootOnly
    <2>13. SettledIsOver'
        BY <2>1, <1>a DEF SettledIsOver, RunsKnown
    <2>14. QED
        BY <2>2, <2>3, <2>4, <2>5, <2>6, <2>7, <2>8, <2>9, <2>10, <2>11, <2>12, <2>13
<1>16. ASSUME NEW rig \in Rigs, ForbiddenBoot(rig) \/ LimitReached(rig) \/ ResumeFails(rig) PROVE RecoveryIInv'
    <2>1. life = "recover" /\ rig \in todo /\ claimed \in {0, rig} /\ GiveUp(rig)
        BY <1>16, <1>a DEF ForbiddenBoot, LimitReached, ResumeFails, Chosen, ClaimInOrder
    <2>2. QED
        BY <1>5, <2>1
<1>17. CASE Dies \/ Reboots \/ ShutDownEnds
    <2>1. Gone /\ boot' \in 1 .. MaxBoots /\ readable' \in BOOLEAN
        BY <1>17 DEF Dies, Reboots, ShutDownEnds, RecoveryTypeInv
    <2>2. QED
        BY <1>12, <2>1
<1>18. QED
    BY <1>1, <1>2, <1>3, <1>4, <1>6, <1>7, <1>8, <1>9, <1>10, <1>11, <1>13, <1>14, <1>15, <1>16, <1>17
    DEF RecoveryNext, RecoverStep

\* The invariant of the recovery holds throughout.
LEMMA RecoveryAlways == RuntimeSpec => []RecoveryIInv
<1>1. RuntimeInit => RecoveryIInv
    BY RecoveryInitially DEF RuntimeInit
<1>2. RecoveryIInv /\ [RuntimeNext]_RuntimeVars => RecoveryIInv'
    BY RuntimeApart, RecoveryStep
<1>3. QED
    BY <1>1, <1>2, PTL DEF RuntimeSpec

\* A run is resumed at most once and in its boot, an end that was written down is final, and what the
\* journal of a serving runtime calls active is (runtime_daemon.py:388, trigger_run_journal.py): however
\* often the runtime dies, and wherever.
THEOREM RecoveryIsSafe == RuntimeSpec => []RecoverySafe
<1>1. RecoveryIInv => JournalTruth
    BY DEF RecoveryIInv, TruthKept, PhasesInOrder, JournalTruth, WithStatus
<1>2. RecoveryIInv => RecoverySafe
    BY <1>1 DEF RecoveryIInv, RecoverySafe
<1>3. QED
    BY <1>2, RecoveryAlways, PTL

\* What a runtime that opens for commands shows of the losses.
Shows == life # "serving" /\ life' = "serving" =>
            \A rig \in Rigs : damaged \/ journal[rig].status \in {"active", "failed"}
                              => \/ shown'[rig] # "idle"
                                 \/ journal[rig].run \in unwritten'
                                 \/ \E end \in pending' : end.rig = rig
\* Every step keeps to it.
LEMMA OpeningShows == RecoveryIInv /\ [RecoveryNext]_recoveryVars => Shows
<1> SUFFICES ASSUME RecoveryIInv, [RecoveryNext]_recoveryVars, life # "serving", life' = "serving" PROVE Shows
    BY DEF Shows
<1>1. CASE RestoreFails
    BY <1>1 DEF RestoreFails, Shows
<1>2. CASE Recovered
    <2>1. LossesShown /\ life = "recover" /\ ~damaged /\ todo = {} /\ UNCHANGED <<shown, unwritten, pending>>
        BY <1>2 DEF Recovered, RecoveryIInv, PhasesInOrder, diskVars, runVars
    <2>2. QED
        BY <2>1 DEF LossesShown, Shows
<1>3. ASSUME NEW rig \in Rigs PROVE ~GiveUp(rig) /\ ~Claim(rig) /\ ~Resume(rig)
    BY <1>3 DEF GiveUp, Claim, Resume, processVars
<1>4. ASSUME NEW rig \in Rigs PROVE ~RecoverStep(rig)
    BY <1>3 DEF RecoverStep, ForbiddenBoot, LimitReached, ResumeFails
<1>5. ASSUME NEW rig \in Rigs, NEW mode \in Modes, NEW written \in BOOLEAN PROVE ~RunStarts(rig, mode, written)
    BY DEF RunStarts
<1>6. ASSUME NEW rig \in Rigs, NEW status \in FINAL_STATUSES PROVE ~RunEnds(rig, status)
    BY DEF RunEnds, processVars
<1>7. ASSUME NEW end \in pending PROVE ~EndWritten(end) /\ ~EndUnwritten(end)
    BY DEF EndWritten, EndUnwritten, processVars
<1>8. ~StartLife /\ ~Restore /\ ~ShutsDown /\ ~JournalRots /\ ~(UNCHANGED recoveryVars)
    BY DEF StartLife, Restore, ShutsDown, JournalRots, processVars, recoveryVars
<1>9. ~Dies /\ ~Reboots /\ ~ShutDownEnds
    BY DEF Dies, Reboots, ShutDownEnds, Gone
<1>10. QED
    BY <1>1, <1>2, <1>4, <1>5, <1>6, <1>7, <1>8, <1>9 DEF RecoveryNext

\* A runtime opens for commands only when every run that its predecessor lost is shown as failed, or
\* running again, or has an end that is still to be written (_restore_trigger_journal_state).
THEOREM LostRunsAreShown == RuntimeSpec => LostRunsShown
<1>1. RecoveryIInv /\ [RuntimeNext]_RuntimeVars => [Shows]_recoveryVars
    BY RuntimeApart, OpeningShows
<1>2. [][Shows]_recoveryVars <=> LostRunsShown
    BY PTL DEF Shows, LostRunsShown
<1>3. QED
    BY <1>1, <1>2, RecoveryAlways, PTL DEF RuntimeSpec

(* ---- The relay ---- *)

\* What Max and Min choose, when it is known.
LEMMA MaxIs ==
    ASSUME NEW S \in SUBSET Int, NEW m \in S, \A y \in S : m >= y
    PROVE  Max(S) = m
<1>1. \E x \in S : \A y \in S : x >= y
    OBVIOUS
<1>2. Max(S) \in S /\ \A y \in S : Max(S) >= y
    BY <1>1 DEF Max
<1>3. Max(S) \in Int /\ m \in Int /\ Max(S) >= m /\ m >= Max(S)
    BY <1>2
<1>4. QED
    BY <1>3
LEMMA MinIs ==
    ASSUME NEW S \in SUBSET Int, NEW m \in S, \A y \in S : m <= y
    PROVE  Min(S) = m
<1>1. \E x \in S : \A y \in S : x <= y
    OBVIOUS
<1>2. Min(S) \in S /\ \A y \in S : Min(S) <= y
    BY <1>1 DEF Min
<1>3. Min(S) \in Int /\ m \in Int /\ Min(S) <= m /\ m <= Min(S)
    BY <1>2
<1>4. QED
    BY <1>3
\* The greater, and the smaller, of two numbers.
LEMMA MaxOfTwo ==
    ASSUME NEW a \in Int, NEW b \in Int
    PROVE  Max({a, b}) = IF a >= b THEN a ELSE b
<1>1. CASE a >= b
    BY <1>1, MaxIs
<1>2. CASE ~(a >= b)
    BY <1>2, MaxIs
<1>3. QED
    BY <1>1, <1>2
LEMMA MinOfTwo ==
    ASSUME NEW a \in Int, NEW b \in Int
    PROVE  Min({a, b}) = IF a <= b THEN a ELSE b
<1>1. CASE a <= b
    BY <1>1, MinIs
<1>2. CASE ~(a <= b)
    BY <1>2, MinIs
<1>3. QED
    BY <1>1, <1>2

\* An answer holds the oldest entries there are after the cursor, without a hole (read()).
LEMMA SelectedRange ==
    ASSUME NEW ring \in Rings, NEW after \in Nat, latest[ring] \in Nat
    PROVE  /\ Oldest(ring) \in Int
           /\ \E first, last \in Int :
                /\ Selected(ring, after) = first .. last /\ last <= latest[ring]
                /\ first > after
                /\ \A s \in Int : s > after /\ s >= Oldest(ring) => s >= first
<1>1. Oldest(ring) \in Int
    BY RelayAssumption, MaxOfTwo DEF Oldest
<1> DEFINE first == Max({after + 1, Oldest(ring)})
           last == Min({latest[ring], first + ReadLimit - 1})
<1>2. first = IF after + 1 >= Oldest(ring) THEN after + 1 ELSE Oldest(ring)
    BY <1>1, MaxOfTwo
<1>3. first \in Int
    BY <1>1, <1>2
<1>4. last = IF latest[ring] <= first + ReadLimit - 1 THEN latest[ring] ELSE first + ReadLimit - 1
    <2>1. ReadLimit \in Int /\ latest[ring] \in Int
        BY RelayAssumption
    <2> HIDE DEF first
    <2>2. first + ReadLimit - 1 \in Int
        BY <1>3, <2>1
    <2>3. QED
        BY <2>1, <2>2, MinOfTwo
<1>5. Selected(ring, after) = first .. last
    BY DEF Selected
<1> HIDE DEF first, last
<1>6. last \in Int /\ last <= latest[ring]
    BY <1>3, <1>4, RelayAssumption
<1>7. QED
    BY <1>1, <1>2, <1>3, <1>5, <1>6

\* The cursor goes to the last entry of the answer.
LEMMA AdvancedTo ==
    ASSUME NEW ring \in Rings, NEW base \in [Rings -> Nat], NEW first \in Int, NEW last \in Int, first > base[ring]
    PROVE  Advanced(ring, base, first .. last) = IF first <= last THEN last ELSE base[ring]
<1> DEFINE S == (first .. last) \cup {base[ring]}
<1>1. S \in SUBSET Int
    OBVIOUS
<1>2. CASE first <= last
    <2>1. last \in S /\ \A y \in S : last >= y
        BY <1>2
    <2>2. QED
        BY <1>1, <1>2, <2>1, MaxIs DEF Advanced
<1>3. CASE ~(first <= last)
    <2>1. base[ring] \in S /\ \A y \in S : base[ring] >= y
        BY <1>3
    <2>2. QED
        BY <1>1, <1>3, <2>1, MaxIs DEF Advanced
<1>4. QED
    BY <1>2, <1>3

\* What was relayed is not newer than the cursor, and of no runtime that the portal has not met.
RelayedBehind ==
    \A r \in Rings : \A e \in relayed[r] : e[1] <= relayId /\ (e[1] = relayId => e[2] <= cursor[r])
\* A portal that has met no runtime starts from nothing, and one that reads again has met another.
MeetsInOrder ==
    /\ \A r \in Rings : relayId = 0 => cursor[r] = 0
    /\ reread => relayId < runtime
    /\ attached <= cursor["event"]
RelayIInv == RelayTypeInv /\ RelayedBehind /\ MeetsInOrder /\ NoLateEvent /\ RelayedOnce /\ NoLineDropped

\* The invariant holds at the start.
LEMMA RelayInitially == RelayInit => RelayIInv
<1> SUFFICES ASSUME RelayInit PROVE RelayIInv
    OBVIOUS
<1>1. /\ runtime = 1 /\ portal = 1 /\ relayId = 0 /\ reread = FALSE /\ twice = FALSE /\ dropped = FALSE /\ attached = 0
      /\ latest = [r \in Rings |-> 0] /\ cursor = [r \in Rings |-> 0] /\ relayed = [r \in Rings |-> {}]
    BY DEF RelayInit
<1>2. 1 \in 1 .. MaxRuntimes /\ 1 \in 1 .. MaxPortals /\ 0 \in 0 .. MaxEntries
    BY RelayAssumption
<1>3. RelayTypeInv
    <2>1. latest \in [Rings -> 0 .. MaxEntries] /\ cursor \in [Rings -> 0 .. MaxEntries]
        BY <1>1, <1>2
    <2>2. relayed \in [Rings -> SUBSET ((1 .. MaxRuntimes) \X (1 .. MaxEntries))]
        BY <1>1
    <2>3. relayId \in 0 .. runtime /\ relayId # runtime
        BY <1>1
    <2>4. QED
        BY <1>1, <1>2, <2>1, <2>2, <2>3 DEF RelayTypeInv
<1>4. RelayedBehind /\ MeetsInOrder /\ NoLateEvent /\ RelayedOnce /\ NoLineDropped
    BY <1>1 DEF RelayedBehind, MeetsInOrder, NoLateEvent, RelayedOnce, NoLineDropped, Rings
<1>5. QED
    BY <1>3, <1>4 DEF RelayIInv

\* An answer that is passed on keeps the invariant, whether it is the first of a runtime or not.
LEMMA PassesOn ==
    ASSUME RelayIInv, NEW base \in [Rings -> 0 .. MaxEntries], NEW first \in BOOLEAN, PassOn(base, first),
           ~first => relayId = runtime /\ base = cursor,
           first => relayId < runtime /\ \A r \in Rings : base[r] = 0
    PROVE  RelayIInv'
<1> RelayTypeInv /\ RelayedBehind /\ MeetsInOrder /\ NoLateEvent /\ RelayedOnce /\ NoLineDropped
    BY DEF RelayIInv
<1> USE RelayAssumption
<1> DEFINE skips == SkipsEvents(base, first)
           given == [r \in Rings |-> IF r = "event" /\ skips THEN {} ELSE Selected(r, base[r])]
           new == [r \in Rings |-> {<<runtime, s>> : s \in given[r]}]
           next == [r \in Rings |-> IF r = "event" /\ skips THEN Max({base[r], latest[r]})
                                    ELSE Advanced(r, base, given[r])]
           passedBy == {s \in base["log"] + 1 .. next["log"] : s >= Oldest("log")}
<1>1. /\ relayed' = [r \in Rings |-> relayed[r] \cup new[r]]
      /\ twice' = (twice \/ \E r \in Rings : relayed[r] \cap new[r] # {})
      /\ dropped' = (dropped \/ ~(passedBy \subseteq given["log"]))
      /\ cursor' = next /\ relayId' = runtime /\ reread' = FALSE
      /\ attached' = IF first THEN latest["event"] ELSE attached
      /\ UNCHANGED <<runtime, latest, portal>>
    BY DEF PassOn, runtimeSide
<1>2. /\ \A r \in Rings : base[r] \in Nat /\ latest[r] \in Nat /\ base[r] <= latest[r] /\ latest[r] <= MaxEntries
      /\ runtime \in 1 .. MaxRuntimes /\ relayId \in 0 .. runtime /\ attached \in 0 .. MaxEntries
      /\ MaxEntries \in Nat
    BY DEF RelayTypeInv
<1>3. \A r \in Rings : \A s \in given[r] : s \in Int /\ s > base[r] /\ s <= latest[r] /\ s <= next[r]
    <2> SUFFICES ASSUME NEW r \in Rings, NEW s \in given[r]
                 PROVE  s \in Int /\ s > base[r] /\ s <= latest[r] /\ s <= next[r]
        OBVIOUS
    <2>1. ~(r = "event" /\ skips) /\ s \in Selected(r, base[r])
        OBVIOUS
    <2>2. PICK f \in Int, l \in Int : Selected(r, base[r]) = f .. l /\ l <= latest[r] /\ f > base[r]
        BY <1>2, SelectedRange
    <2>3. next[r] = Advanced(r, base, f .. l)
        BY <2>1, <2>2
    <2>4. base \in [Rings -> Nat]
        BY <1>2
    <2>5. next[r] = l
        BY <2>1, <2>2, <2>3, <2>4, AdvancedTo
    <2>6. QED
        BY <1>2, <2>1, <2>2, <2>5
<1>4. \A r \in Rings : next[r] \in Int /\ next[r] >= base[r] /\ next[r] <= latest[r]
    <2> SUFFICES ASSUME NEW r \in Rings PROVE next[r] \in Int /\ next[r] >= base[r] /\ next[r] <= latest[r]
        OBVIOUS
    <2>1. CASE r = "event" /\ skips
        BY <1>2, <2>1, MaxOfTwo
    <2>2. CASE ~(r = "event" /\ skips)
        <3>1. PICK f \in Int, l \in Int : Selected(r, base[r]) = f .. l /\ l <= latest[r] /\ f > base[r]
            BY <1>2, SelectedRange
        <3>2. next[r] = Advanced(r, base, f .. l)
            BY <2>2, <3>1
        <3>3. base \in [Rings -> Nat]
            BY <1>2
        <3>4. next[r] = IF f <= l THEN l ELSE base[r]
            BY <3>1, <3>2, <3>3, AdvancedTo
        <3>5. QED
            BY <1>2, <3>1, <3>4
    <2>3. QED
        BY <2>1, <2>2
<1>5. passedBy \subseteq given["log"]
    <2>1. "log" \in Rings /\ given["log"] = Selected("log", base["log"])
        BY DEF Rings
    <2>2. PICK f \in Int, l \in Int :
                /\ Selected("log", base["log"]) = f .. l /\ f > base["log"]
                /\ \A s \in Int : s > base["log"] /\ s >= Oldest("log") => s >= f
        BY <1>2, <2>1, SelectedRange
    <2>3. next["log"] = Advanced("log", base, f .. l)
        BY <2>1, <2>2
    <2>4. base \in [Rings -> Nat]
        BY <1>2
    <2>5. next["log"] = IF f <= l THEN l ELSE base["log"]
        BY <2>1, <2>2, <2>3, <2>4, AdvancedTo
    <2>6. ASSUME NEW s \in passedBy PROVE s \in f .. l
        <3>1. s \in Int /\ s > base["log"] /\ s <= next["log"] /\ s >= Oldest("log")
            BY <1>2, <1>4, <2>1
        <3>2. QED
            BY <1>2, <2>1, <2>2, <2>5, <3>1
    <2>7. QED
        BY <2>1, <2>2, <2>6
<1>6. first => given["event"] = {} /\ next["event"] = latest["event"]
    <2>1. first => skips
        BY DEF SkipsEvents
    <2>2. ASSUME first PROVE next["event"] = latest["event"]
        <3>1. next["event"] = Max({base["event"], latest["event"]}) /\ "event" \in Rings
            BY <2>1, <2>2 DEF Rings
        <3>2. base["event"] \in Int /\ latest["event"] \in Int /\ base["event"] <= latest["event"]
            BY <1>2, <3>1
        <3>3. Max({base["event"], latest["event"]}) =
                IF base["event"] >= latest["event"] THEN base["event"] ELSE latest["event"]
            BY <3>2, MaxOfTwo
        <3>4. QED
            BY <3>1, <3>2, <3>3
    <2>3. QED
        BY <2>1, <2>2 DEF Rings
<1>7. /\ \A r \in Rings : \A e \in new[r] : e[1] = runtime /\ e[2] \in given[r]
      /\ \A r \in Rings : new[r] \subseteq {<<runtime, s>> : s \in given[r]}
    OBVIOUS
<1>8. next \in [Rings -> 0 .. MaxEntries]
    <2>1. \A r \in Rings : next[r] \in 0 .. MaxEntries
        <3> SUFFICES ASSUME NEW r \in Rings PROVE next[r] \in 0 .. MaxEntries
            OBVIOUS
        <3>1. next[r] \in Int /\ base[r] \in Nat /\ next[r] >= base[r] /\ next[r] <= latest[r]
              /\ latest[r] \in Nat /\ latest[r] <= MaxEntries
            BY <1>2, <1>4
        <3> HIDE DEF next
        <3>2. QED
            BY <1>2, <3>1
    <2>2. QED
        BY <2>1
<1> HIDE DEF given, next, new, passedBy, skips
<1>9. \A r \in Rings : \A e \in relayed[r] : e[1] = runtime => relayId = runtime /\ ~first /\ e[2] <= base[r]
    BY <1>2 DEF RelayedBehind, RelayTypeInv
<1>10. ~twice' /\ ~dropped'
    <2>1. \A r \in Rings : relayed[r] \cap new[r] = {}
        BY <1>2, <1>3, <1>7, <1>9 DEF RelayTypeInv
    <2>2. QED
        BY <1>1, <1>5, <2>1 DEF RelayedOnce, NoLineDropped
<1>11. RelayTypeInv'
    <2>1. \A r \in Rings : new[r] \subseteq (1 .. MaxRuntimes) \X (1 .. MaxEntries)
        BY <1>2, <1>3, <1>7
    <2>2. relayed' \in [Rings -> SUBSET ((1 .. MaxRuntimes) \X (1 .. MaxEntries))]
        BY <1>1, <2>1 DEF RelayTypeInv
    <2>3. attached' \in 0 .. MaxEntries
        BY <1>1, <1>2 DEF Rings
    <2>4. relayId' \in 0 .. runtime' /\ runtime' \in 1 .. MaxRuntimes
        BY <1>1, <1>2
    <2>5. cursor' \in [Rings -> 0 .. MaxEntries] /\ \A r \in Rings : cursor'[r] <= latest'[r]
        BY <1>1, <1>4, <1>8
    <2>6. twice' \in BOOLEAN /\ dropped' \in BOOLEAN /\ reread' \in BOOLEAN
        BY <1>1, <1>10
    <2>7. QED
        BY <1>1, <2>2, <2>3, <2>4, <2>5, <2>6 DEF RelayTypeInv
<1>12. RelayedBehind'
    <2> SUFFICES ASSUME NEW r \in Rings, NEW e \in relayed'[r]
                 PROVE  e[1] <= runtime /\ (e[1] = runtime => e[2] <= next[r])
        BY <1>1 DEF RelayedBehind
    <2>1. CASE e \in new[r]
        BY <1>2, <1>3, <1>7, <2>1
    <2>2. CASE e \in relayed[r]
        <3>1. e[1] \in Int /\ e[2] \in Int /\ e[1] <= runtime
            BY <1>2, <2>2 DEF RelayedBehind, RelayTypeInv
        <3>2. QED
            BY <1>2, <1>4, <1>9, <2>2, <3>1
    <2>3. QED
        BY <1>1, <2>1, <2>2
<1>13. MeetsInOrder'
    BY <1>1, <1>2, <1>4, <1>6 DEF MeetsInOrder, Rings
<1>14. NoLateEvent'
    <2> SUFFICES ASSUME NEW s \in 1 .. attached', <<runtime, s>> \in relayed'["event"] PROVE FALSE
        BY <1>1 DEF NoLateEvent
    <2>1. "event" \in Rings
        BY DEF Rings
    <2>2. CASE <<runtime, s>> \in new["event"]
        <3>1. ~first /\ s \in given["event"]
            BY <1>6, <1>7, <2>1, <2>2
        <3>2. s > cursor["event"] /\ attached' = attached /\ attached <= cursor["event"]
            BY <1>1, <1>3, <2>1, <3>1 DEF MeetsInOrder
        <3>3. QED
            BY <1>2, <2>1, <3>2 DEF RelayTypeInv
    <2>3. CASE <<runtime, s>> \in relayed["event"]
        <3>1. relayId = runtime /\ ~first
            BY <1>9, <2>1, <2>3
        <3>2. QED
            BY <1>1, <2>3, <3>1 DEF NoLateEvent
    <2>4. QED
        BY <1>1, <2>1, <2>2, <2>3
<1>15. QED
    BY <1>10, <1>11, <1>12, <1>13, <1>14 DEF RelayIInv, RelayedOnce, NoLineDropped

\* Every step keeps the invariant.
LEMMA RelayStep == RelayIInv /\ [RelayNext]_relayVars => RelayIInv'
<1> SUFFICES ASSUME RelayIInv, [RelayNext]_relayVars PROVE RelayIInv'
    OBVIOUS
<1> RelayTypeInv /\ RelayedBehind /\ MeetsInOrder /\ NoLateEvent /\ RelayedOnce /\ NoLineDropped
    BY DEF RelayIInv
<1> USE RelayAssumption
<1>1. ASSUME UNCHANGED <<portal, relayId, cursor, relayed, twice, attached, dropped>>,
             RelayTypeInv', reread' => relayId < runtime'
      PROVE  RelayIInv'
    BY <1>1 DEF RelayIInv, RelayedBehind, MeetsInOrder, NoLateEvent, RelayedOnce, NoLineDropped
<1>2. ASSUME NEW ring \in Rings, AppendEntry(ring) PROVE RelayIInv'
    <2>1. /\ UNCHANGED <<runtime, portal, relayId, cursor, reread, relayed, twice, attached, dropped>>
          /\ latest' = [latest EXCEPT ![ring] = @ + 1] /\ latest[ring] < MaxEntries
        BY <1>2 DEF AppendEntry, portalSide
    <2>2. latest' \in [Rings -> 0 .. MaxEntries] /\ \A r \in Rings : latest[r] <= latest'[r]
        BY <2>1 DEF RelayTypeInv
    <2>3. relayId = runtime => \A r \in Rings : cursor[r] <= latest'[r]
        BY <2>2 DEF RelayTypeInv
    <2>4. RelayTypeInv'
        BY <2>1, <2>2, <2>3 DEF RelayTypeInv
    <2>5. QED
        BY <1>1, <2>1, <2>4 DEF MeetsInOrder
<1>3. CASE Poll
    <2>1. cursor \in [Rings -> 0 .. MaxEntries] /\ relayId \in 0 .. runtime /\ runtime \in 1 .. MaxRuntimes
        BY DEF RelayTypeInv
    <2>2. PassOn(cursor, relayId = 0) /\ (relayId = 0 \/ relayId = runtime)
        BY <1>3 DEF Poll, RuntimeChanged
    <2>3. relayId = 0 => relayId < runtime /\ \A r \in Rings : cursor[r] = 0
        BY <2>1 DEF MeetsInOrder
    <2>4. (relayId = 0) \in BOOLEAN
        OBVIOUS
    <2>5. QED
        BY <2>1, <2>2, <2>3, <2>4, PassesOn
<1>4. CASE Reread
    <2>1. PassOn([r \in Rings |-> 0], TRUE) /\ relayId < runtime
        BY <1>4 DEF Reread, MeetsInOrder
    <2>2. [r \in Rings |-> 0] \in [Rings -> 0 .. MaxEntries] /\ \A r \in Rings : [s \in Rings |-> 0][r] = 0
        OBVIOUS
    <2>3. QED
        BY <2>1, <2>2, PassesOn
<1>5. CASE PollChanged \/ RereadFails
    <2>1. /\ UNCHANGED <<runtime, latest, portal, relayId, cursor, relayed, twice, attached, dropped>>
          /\ reread' \in BOOLEAN
        BY <1>5 DEF PollChanged, RereadFails, runtimeSide
    <2>2. reread' => relayId < runtime
        BY <1>5 DEF PollChanged, RereadFails, RuntimeChanged, RelayTypeInv
    <2>3. RelayTypeInv'
        BY <2>1 DEF RelayTypeInv
    <2>4. QED
        BY <1>1, <2>1, <2>2, <2>3
<1>6. CASE RuntimeRestarts
    <2>1. /\ UNCHANGED <<portal, relayId, cursor, reread, relayed, twice, attached, dropped>>
          /\ runtime' = runtime + 1 /\ runtime < MaxRuntimes /\ latest' = [r \in Rings |-> 0]
        BY <1>6 DEF RuntimeRestarts, portalSide
    <2>2. relayId < runtime' /\ relayId \in 0 .. runtime' /\ runtime' \in 1 .. MaxRuntimes
        BY <2>1 DEF RelayTypeInv
    <2>3. latest' \in [Rings -> 0 .. MaxEntries] /\ relayId # runtime'
        BY <2>1, <2>2
    <2>4. RelayTypeInv'
        BY <2>1, <2>2, <2>3 DEF RelayTypeInv
    <2>5. QED
        BY <1>1, <2>1, <2>2, <2>4
<1>7. CASE PortalRestarts
    <2>1. /\ UNCHANGED <<runtime, latest, twice, dropped>>
          /\ portal' = portal + 1 /\ portal < MaxPortals /\ relayId' = 0 /\ reread' = FALSE /\ attached' = 0
          /\ cursor' = [r \in Rings |-> 0] /\ relayed' = [r \in Rings |-> {}]
        BY <1>7 DEF PortalRestarts, runtimeSide
    <2>2. portal' \in 1 .. MaxPortals /\ runtime \in 1 .. MaxRuntimes
        BY <2>1 DEF RelayTypeInv
    <2>3. cursor' \in [Rings -> 0 .. MaxEntries] /\ relayId' \in 0 .. runtime /\ attached' \in 0 .. MaxEntries
        BY <2>1, <2>2
    <2>4. relayId' # runtime
        BY <2>1, <2>2
    <2>5. RelayTypeInv'
        BY <2>1, <2>2, <2>3, <2>4 DEF RelayTypeInv
    <2>6. QED
        BY <2>1, <2>5 DEF RelayIInv, RelayedBehind, MeetsInOrder, NoLateEvent, RelayedOnce, NoLineDropped, Rings
<1>8. CASE UNCHANGED relayVars
    BY <1>8 DEF relayVars, runtimeSide, portalSide, RelayIInv, RelayTypeInv, RelayedBehind, MeetsInOrder, NoLateEvent,
                RelayedOnce, NoLineDropped
<1>9. QED
    BY <1>2, <1>3, <1>4, <1>5, <1>6, <1>7, <1>8 DEF RelayNext

\* What the portal shows of the runtime is what happened, once each, without a hole, and no event of
\* the time before it came (app.py:482): for any number of entries, restarts, and whatever the sizes
\* of the rings and of an answer.
THEOREM RelayIsFaithful == RuntimeSpec => []RelayFaithful
<1>1. RuntimeInit => RelayIInv
    BY RelayInitially DEF RuntimeInit
<1>2. RelayIInv /\ [RuntimeNext]_RuntimeVars => RelayIInv'
    BY RuntimeApart, RelayStep
<1>3. RelayIInv => RelayFaithful
    BY DEF RelayIInv, RelayFaithful
<1>4. QED
    BY <1>1, <1>2, <1>3, PTL DEF RuntimeSpec
=============================================================================
