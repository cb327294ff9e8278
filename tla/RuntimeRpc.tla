----------------------------- MODULE RuntimeRpc -----------------------------
(***************************************************************************)
(* runtime_rpc.py (RuntimeClient.call) against runtime_daemon.py           *)
(* (RuntimeUnixServer and main).  A call connects at most twice under one  *)
(* request id.  The server runs each connection in a thread of its own,    *)
(* and remembers by id what it is executing and what it has answered.      *)
(* SIGTERM closes it in stages; a crash makes it forget.  Other callers    *)
(* are there only as full slots and as traffic that prunes the answers.    *)
(*                                                                         *)
(* Left out: malformed requests, a socket path that is not the runtime's,  *)
(* and ids that are used for two different requests (they are UUIDs).      *)
(***************************************************************************)
EXTENDS Integers

CONSTANTS
    Calls,         \* the calls of portal threads, each with its request id
    MaxStarts      \* bound: how often the runtime is started

ASSUME RpcAssumption == MaxStarts \in Nat

Connections == Calls \X {1, 2}     \* a call and its attempt

VARIABLES
    stage,         \* where main() is; the socket listens in the stages of Listening
    starts,
    closing,       \* self._closing
    place,         \* where each connection or the thread of its handler is
    shut,          \* the connections shut down by begin_shutdown()
    answer,        \* what a handler is about to write
    result,        \* self._rpc_results: the state of each call's entry
    attempt,       \* the attempt each call is making
    phase,         \* what the caller is doing
    uncertain,     \* first_uncertain is not None
    told,          \* how the call ended
    effective, ever    \* history: the calls that took effect and are remembered; how often each did

serverVars == <<stage, starts, closing>>
handlerVars == <<place, shut, answer>>
clientVars == <<attempt, phase, uncertain, told>>
effectVars == <<effective, ever>>
rpcVars == <<serverVars, handlerVars, result, clientVars, effectVars>>

Admitted == {"active", "waiting", "dispatch", "storing", "replying"}

RpcTypeInv ==
    /\ stage \in {"down", "starting", "serving", "closing", "draining", "cleanup"}
    /\ starts \in 0 .. MaxStarts /\ closing \in BOOLEAN
    /\ place \in [Connections -> Admitted \cup {"none", "backlog", "admitting", "gone"}]
    /\ shut \subseteq Connections
    /\ answer \in [Connections -> {"none", "result", "lost", "in_progress"}]
    /\ result \in [Calls -> {"absent", "running", "done"}]
    /\ attempt \in [Calls -> {1, 2}]
    /\ phase \in [Calls -> {"connect", "calling", "over"}]
    /\ uncertain \in [Calls -> BOOLEAN]
    /\ told \in [Calls -> {"none", "answer", "unavailable", "unknown"}]
    /\ \A c \in Calls : phase[c] = "over" <=> told[c] # "none"
    /\ effective \subseteq Calls /\ ever \in [Calls -> 0..2]
    /\ \A c \in effective : ever[c] > 0

RpcInit ==
    /\ stage = "down" /\ starts = 0 /\ closing = FALSE
    /\ place = [h \in Connections |-> "none"] /\ shut = {}
    /\ answer = [h \in Connections |-> "none"]
    /\ result = [c \in Calls |-> "absent"]
    /\ attempt = [c \in Calls |-> 1] /\ phase = [c \in Calls |-> "connect"]
    /\ uncertain = [c \in Calls |-> FALSE] /\ told = [c \in Calls |-> "none"]
    /\ effective = {} /\ ever = [c \in Calls |-> 0]

Move(h, there) == place' = [place EXCEPT ![h] = there]
ActiveRequests == {h \in Connections : place[h] \in Admitted}

-----------------------------------------------------------------------------
\* The caller.

Listening == stage \in {"starting", "serving", "closing"}

EndsAs(c, how) ==
    /\ told' = [told EXCEPT ![c] = how]
    /\ phase' = [phase EXCEPT ![c] = "over"]

RefusedAs(c) == IF uncertain[c] THEN "unknown" ELSE "unavailable"

\* Nothing listens, or the backlog is full: no byte was sent on this attempt.
ConnectFails(c) ==
    /\ phase[c] = "connect"
    /\ EndsAs(c, RefusedAs(c))
    /\ UNCHANGED <<serverVars, handlerVars, result, attempt, uncertain, effectVars>>

Connect(c) ==
    /\ phase[c] = "connect" /\ Listening
    /\ Move(<<c, attempt[c]>>, "backlog")
    /\ phase' = [phase EXCEPT ![c] = "calling"]
    /\ UNCHANGED <<serverVars, shut, answer, result, attempt, uncertain, told, effectVars>>

\* The time-out, a reset, or the end of the stream before an answer.
AttemptFails(c) ==
    /\ phase[c] = "calling"
    /\ uncertain' = [uncertain EXCEPT ![c] = TRUE]
    /\ IF attempt[c] = 1
       THEN /\ attempt' = [attempt EXCEPT ![c] = 2]
            /\ phase' = [phase EXCEPT ![c] = "connect"]
            /\ UNCHANGED told
       ELSE EndsAs(c, "unknown") /\ UNCHANGED attempt
    /\ UNCHANGED <<serverVars, handlerVars, result, effectVars>>

\* An answer is read; RPC_REQUEST_IN_PROGRESS is reported as an unknown outcome.
AnswerRead(c) ==
    LET h == <<c, attempt[c]>>
    IN  /\ phase[c] = "calling" /\ place[h] = "replying" /\ h \notin shut
        /\ EndsAs(c, IF answer[h] = "in_progress" THEN "unknown" ELSE "answer")
        /\ Move(h, "gone")
        /\ UNCHANGED <<serverVars, shut, answer, result, attempt, uncertain, effectVars>>

-----------------------------------------------------------------------------
\* process_request(): the main thread takes one of _MAX_RPC_CONNECTIONS slots (other
\* callers may have them all, and then the connection is closed), and looks at _closing.

Accept(h) ==
    /\ stage \in {"serving", "closing"} /\ place[h] = "backlog"
    /\ \A other \in Connections : place[other] # "admitting"
    /\ Move(h, "admitting") \/ Move(h, "gone")
    /\ UNCHANGED <<serverVars, shut, answer, result, clientVars, effectVars>>

Admit(h) ==
    /\ place[h] = "admitting"
    /\ Move(h, IF closing THEN "gone" ELSE "active")
    /\ UNCHANGED <<serverVars, shut, answer, result, clientVars, effectVars>>

\* SIGTERM interrupts the main thread between its look at _closing and the registration
\* (the condition's lock is reentrant): this connection is not shut down with the others.
AdmitInterrupted(h) ==
    /\ stage = "serving" /\ place[h] = "admitting"
    /\ stage' = "closing" /\ closing' = TRUE
    /\ shut' = shut \cup ActiveRequests
    /\ Move(h, "active")
    /\ UNCHANGED <<starts, answer, result, clientVars, effectVars>>

-----------------------------------------------------------------------------
\* execute_rpc() in the thread of a handler.

\* No bytes: the connection was shut down before the request was read.
ReadNothing(h) ==
    /\ place[h] = "active" /\ h \in shut
    /\ Move(h, "gone")
    /\ UNCHANGED <<serverVars, shut, answer, result, clientVars, effectVars>>

\* _prune_rpc_results_locked() in the request of any caller: an answer is dropped after 15
\* minutes, or to make room for _RPC_RESULT_CACHE_SIZE newer ones.
Prunable(c) == result[c] = "done"

PruneResult(c) ==
    /\ stage = "serving" /\ Prunable(c)
    /\ result' = [result EXCEPT ![c] = "absent"]
    /\ effective' = effective \ {c}
    /\ UNCHANGED <<serverVars, handlerVars, clientVars, ever>>

\* Mutant: the entry is only made when the answer is known.
LookupLate(h) ==
    LET c == h[1]
    IN  /\ place[h] = "active"
        /\ Move(h, IF result[c] = "done" THEN "replying" ELSE "dispatch")
        /\ answer' = [answer EXCEPT ![h] = "result"]
        /\ UNCHANGED <<serverVars, shut, result, clientVars, effectVars>>
\* The lookup under the condition's lock: another thread's result is waited for or
\* repeated, and only the thread that makes the entry executes the call.
Lookup(h) ==
    LET c == h[1]
    IN  /\ place[h] = "active"
        /\ Move(h, CASE result[c] = "absent" -> "dispatch"
                     [] result[c] = "done" -> "replying"
                     [] result[c] = "running" -> "waiting")
        /\ result' = IF result[c] = "absent" THEN [result EXCEPT ![c] = "running"] ELSE result
        /\ answer' = IF result[c] = "done" THEN [answer EXCEPT ![h] = "result"] ELSE answer
        /\ UNCHANGED <<serverVars, shut, clientVars, effectVars>>

\* controller.dispatch(): the command takes effect.  It may also never come to this.
Dispatch(h) ==
    LET c == h[1]
    IN  /\ place[h] = "dispatch"
        /\ effective' = effective \cup {c} /\ ever' = [ever EXCEPT ![c] = @ + 1]
        /\ Move(h, "storing")
        /\ UNCHANGED <<serverVars, shut, answer, result, clientVars>>

Store(h) ==
    /\ place[h] = "storing"
    /\ result' = [result EXCEPT ![h[1]] = "done"]
    /\ Move(h, "replying")
    /\ answer' = [answer EXCEPT ![h] = "result"]
    /\ UNCHANGED <<serverVars, shut, clientVars, effectVars>>

\* notify_all(): the matching request has ended, or its answer is already dropped.
Wake(h) ==
    /\ place[h] = "waiting" /\ result[h[1]] # "running"
    /\ Move(h, "replying")
    /\ answer' = [answer EXCEPT ![h] = IF result[h[1]] = "done" THEN "result" ELSE "lost"]
    /\ UNCHANGED <<serverVars, shut, result, clientVars, effectVars>>

WaitExpires(h) ==
    /\ place[h] = "waiting" /\ result[h[1]] = "running"
    /\ Move(h, "replying")
    /\ answer' = [answer EXCEPT ![h] = "in_progress"]
    /\ UNCHANGED <<serverVars, shut, result, clientVars, effectVars>>

\* The caller has given up, or the connection was shut down.
ReplyLost(h) ==
    /\ place[h] = "replying"
    /\ h \in shut \/ phase[h[1]] # "calling" \/ attempt[h[1]] # h[2]
    /\ Move(h, "gone")
    /\ UNCHANGED <<serverVars, shut, answer, result, clientVars, effectVars>>

-----------------------------------------------------------------------------
\* main()

\* The process is gone with its threads and its memory; connections are reset.
Ended ==
    /\ stage' = "down"
    /\ place' = [h \in Connections |-> IF place[h] = "none" THEN "none" ELSE "gone"]
    /\ result' = [c \in Calls |-> "absent"]
    /\ effective' = {}
    /\ UNCHANGED <<starts, closing, shut, answer, clientVars, ever>>

\* The socket is claimed before the controller recovers anything.
StartRuntime ==
    /\ stage = "down" /\ starts < MaxStarts
    /\ stage' = "starting" /\ starts' = starts + 1 /\ closing' = FALSE
    /\ UNCHANGED <<handlerVars, result, clientVars, effectVars>>

ServeForever ==
    /\ stage = "starting"
    /\ stage' = "serving"
    /\ UNCHANGED <<starts, closing, handlerVars, result, clientVars, effectVars>>

\* request_serve_forever_exit()
Sigterm ==
    /\ stage = "serving"
    /\ stage' = "closing" /\ closing' = TRUE
    /\ shut' = shut \cup ActiveRequests
    /\ UNCHANGED <<starts, place, answer, result, clientVars, effectVars>>

\* begin_shutdown() once more, and server_close().
ServerClose ==
    /\ stage = "closing" /\ \A h \in Connections : place[h] # "admitting"
    /\ stage' = "draining"
    /\ shut' = shut \cup ActiveRequests
    /\ place' = [h \in Connections |-> IF place[h] = "backlog" THEN "gone" ELSE place[h]]
    /\ UNCHANGED <<starts, closing, answer, result, clientVars, effectVars>>

\* Mutant: the controller is cleaned up however the drain ended.
DrainedAlways ==
    /\ stage = "draining"
    /\ stage' = "cleanup"
    /\ UNCHANGED <<starts, closing, handlerVars, result, clientVars, effectVars>>
\* wait_for_idle() returned True: controller.shutdown().
Drained ==
    /\ stage = "draining" /\ ActiveRequests = {}
    /\ stage' = "cleanup"
    /\ UNCHANGED <<starts, closing, handlerVars, result, clientVars, effectVars>>

\* Mutant: wait_for_idle() without its time-out.
DrainNeverTimesOut == stage = "draining" /\ FALSE /\ Ended
DrainTimesOut == stage = "draining" /\ ActiveRequests # {} /\ Ended
CleanedUp == stage = "cleanup" /\ Ended
Crash == stage \in {"starting", "serving", "closing"} /\ Ended

-----------------------------------------------------------------------------
ClientStep(c) == Connect(c) \/ ConnectFails(c) \/ AttemptFails(c) \/ AnswerRead(c)
HandlerStep(h) ==
    \/ Accept(h) \/ Admit(h) \/ ReadNothing(h) \/ Lookup(h) \/ Store(h) \/ Wake(h)
    \/ WaitExpires(h) \/ ReplyLost(h)
MainStep == ServeForever \/ ServerClose \/ Drained \/ DrainTimesOut \/ CleanedUp

RpcNext ==
    \/ \E c \in Calls : ClientStep(c) \/ PruneResult(c)
    \/ \E h \in Connections : HandlerStep(h) \/ Dispatch(h) \/ AdmitInterrupted(h)
    \/ MainStep \/ StartRuntime \/ Sigterm \/ Crash

RpcSpec == RpcInit /\ [][RpcNext]_rpcVars

-----------------------------------------------------------------------------
\* controller.shutdown() never runs beside a command: a thread that is inside dispatch()
\* when the drain ends keeps the cleanup from starting.
CleanupAlone == RpcTypeInv /\ (stage = "cleanup" => ActiveRequests = {})

\* "Execute each identified RPC at most once per runtime generation" (runtime_daemon.py:1051)
\* and tell the portal what agrees with what was done, across lost answers, second
\* attempts, restarts and the closing of the server.
RuntimeCallSpec == INSTANCE RuntimeCall WITH outcome <- told
CallsKeepPromise == RuntimeCallSpec!CallSpec

\* SIGTERM ends the runtime although a command may never return.
TerminationEnds == stage = "closing" ~> stage = "down"
=============================================================================
