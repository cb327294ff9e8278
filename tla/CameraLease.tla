------------------------------ MODULE CameraLease ------------------------------
(***************************************************************************)
(* CameraWorkerRuntime (camera_worker_runtime.py) and the sessions of its  *)
(* CameraIpcServer: leases of RIGs, the server that is there while there   *)
(* are leases, and the workers, each the owner of one camera on the USB.   *)
(* open, reconcile and release_idle_workers run under the runtime's lock;  *)
(* close_ipc_session and shutdown hold it only in parts.                   *)
(*                                                                         *)
(* Left out: requests that are refused and change nothing, and a server    *)
(* that refuses a session of its own runtime (see SessionsAreLeases).      *)
(***************************************************************************)
EXTENDS Integers, FiniteSets

CONSTANTS
    Sessions, Rigs,
    Bindings,      \* camera entries of a configuration
    MaxServers, MaxWorkers, MaxConfigs, MaxFaults   \* bounds

ASSUME LeaseAssumption ==
    {MaxServers, MaxWorkers, MaxConfigs, MaxFaults} \subseteq Nat /\ 0 \notin Bindings \cup Rigs

Everything == {0}    \* rig_ids=None
Scopes == ((SUBSET Rigs) \ {{}}) \cup {Everything}

VARIABLES
    lease,         \* _ipc_session_ids, _ipc_session_rigs and _ipc_closing_session_ids
    closer,        \* where the call of close_ipc_session() for each session is
    closing,       \* the server it took
    server,        \* _ipc_server: the instance, 0 for None
    instances,     \* every server there was
    worker,        \* _registry and _camera_entries
    live,          \* the camera processes that are alive, by RIG
    made,          \* how many workers, and how many configurations, there were
    config,
    frozen,        \* _leased_policy_configs: the configuration, 0 for none
    granted,       \* history: the configuration under which each session was opened
    ending,        \* where shutdown() is
    faults

leaseSide == <<lease, closer, closing, granted>>
serverSide == <<server, instances>>
workerSide == <<worker, live, made>>
policySide == <<config, frozen>>
leaseVars == <<leaseSide, serverSide, workerSide, policySide, ending, faults>>

NoWorker == [number |-> 0, entry |-> 0]
NoServer == [state |-> "none", sessions |-> {}, busy |-> FALSE]
Covers(s) == IF lease[s].scope = Everything THEN Rigs ELSE lease[s].scope
Held == {s \in Sessions : lease[s].state \in {"open", "closing"}}
Available == {r \in Rigs : worker[r].number # 0}

LeaseTypeInv ==
    /\ lease \in [Sessions -> [state : {"none", "open", "closing", "over"}, scope : Scopes \cup {{}}]]
    /\ closer \in [Sessions -> {"none", "revoke", "drop", "stop", "drain", "clear", "done"}]
    /\ \A s \in Sessions : lease[s].state = "closing" => closer[s] \in {"revoke", "drop"}
    /\ \A s \in Sessions : lease[s].state \in {"none", "open"} => closer[s] = "none"
    /\ closing \in [Sessions -> 0 .. MaxServers] /\ server \in 0 .. MaxServers
    /\ instances \in [1 .. MaxServers ->
           [state : {"none", "serving", "stopping", "stopped"}, sessions : SUBSET Sessions,
            busy : BOOLEAN]]
    /\ worker \in [Rigs -> [number : 0 .. MaxWorkers, entry : Bindings \cup {0}]]
    /\ live \subseteq Rigs \X (1 .. MaxWorkers) /\ made \in 0 .. MaxWorkers
    /\ config \in 0 .. MaxConfigs /\ frozen \in [Rigs -> 0 .. MaxConfigs]
    /\ granted \in [Sessions -> 0 .. MaxConfigs]
    /\ ending \in {"no", "server", "workers", "failed", "over"} /\ faults \in 0 .. MaxFaults

CameraLeaseInit ==
    /\ lease = [s \in Sessions |-> [state |-> "none", scope |-> {}]]
    /\ closer = [s \in Sessions |-> "none"] /\ closing = [s \in Sessions |-> 0]
    /\ server = 0 /\ instances = [i \in 1 .. MaxServers |-> NoServer]
    /\ worker = [r \in Rigs |-> NoWorker] /\ live = {} /\ made = 0
    /\ config = 0 /\ frozen = [r \in Rigs |-> 0] /\ granted = [s \in Sessions |-> 0]
    /\ ending = "no" /\ faults = 0

Fault == faults < MaxFaults /\ faults' = faults + 1

-----------------------------------------------------------------------------
\* The server.

\* _refresh_stopped_ipc_server_locked()
Refreshed == IF server # 0 /\ instances[server].state = "stopped" THEN 0 ELSE server
\* _guard_ipc_shutdown_locked() lets pass.
Guarded == IF Refreshed = 0 THEN TRUE ELSE instances[Refreshed].state # "stopping"

\* _finalize_stop(): the last handler is gone.
Finalized(i) == [instances EXCEPT ![i] = [state |-> "stopped", sessions |-> {}, busy |-> FALSE]]

RequestBegins(i) ==
    /\ instances[i].state = "serving" /\ instances[i].sessions # {} /\ ~instances[i].busy
    /\ instances' = [instances EXCEPT ![i].busy = TRUE]
    /\ UNCHANGED <<leaseSide, server, workerSide, policySide, ending, faults>>

RequestEnds(i) ==
    /\ instances[i].busy
    /\ instances' = IF instances[i].state = "stopping" THEN Finalized(i)
                    ELSE [instances EXCEPT ![i].busy = FALSE]
    /\ UNCHANGED <<leaseSide, server, workerSide, policySide, ending, faults>>

\* _fail_accept_loop(): the server is frozen, its sessions stay.
AcceptLoopFails(i) ==
    /\ instances[i].state = "serving" /\ Fault
    /\ instances' = [instances EXCEPT ![i].state = "stopping"]
    /\ UNCHANGED <<leaseSide, server, workerSide, policySide, ending>>

\* stop(): admission ends, and connections are shut down.
Stopping(i) == IF instances[i].state = "stopped" THEN instances
               ELSE [instances EXCEPT ![i].state = "stopping"]

-----------------------------------------------------------------------------
\* open_ipc_session()

Overlap(a, b) == a = Everything \/ b = Everything \/ a \cap b # {}

\* Mutant: a lease that is being closed is taken for closed.
MayOpenEarly(s, scope) ==
    /\ scope # Everything => scope \subseteq Available
    /\ \A t \in Sessions : lease[t].state = "open" => ~Overlap(scope, lease[t].scope)
MayOpen(s, scope) ==
    /\ scope # Everything => scope \subseteq Available
    /\ \A t \in Held : ~Overlap(scope, lease[t].scope)

Fresh == Cardinality({i \in 1 .. MaxServers : instances[i].state # "none"}) + 1

Open(s, scope) ==
    /\ ending = "no" /\ lease[s].state = "none" /\ Guarded
    /\ Available # {} /\ MayOpen(s, scope)
    /\ LET i == IF Refreshed = 0 THEN Fresh ELSE server
           leased == IF scope = Everything THEN Available ELSE scope
       IN  /\ i <= MaxServers
           /\ server' = i
           /\ instances' = [instances EXCEPT ![i].state = "serving",
                                             ![i].sessions = @ \cup {s}]
           /\ frozen' = [r \in Rigs |-> IF r \in leased /\ frozen[r] = 0 THEN config
                                        ELSE frozen[r]]
    /\ lease' = [lease EXCEPT ![s] = [state |-> "open", scope |-> scope]]
    /\ granted' = [granted EXCEPT ![s] = config]
    /\ UNCHANGED <<closer, closing, workerSide, config, ending, faults>>

-----------------------------------------------------------------------------
\* close_ipc_session()

\* Mutant: the RIGs are free before the server has forgotten the session.
CloseBeginDrops(s) ==
    /\ lease[s].state = "open" /\ server # 0
    /\ lease' = [lease EXCEPT ![s].state = "over"]
    /\ closer' = [closer EXCEPT ![s] = "revoke"] /\ closing' = [closing EXCEPT ![s] = server]
    /\ UNCHANGED <<granted, serverSide, workerSide, policySide, ending, faults>>
CloseBegin(s) ==
    /\ lease[s].state = "open" /\ server # 0
    /\ lease' = [lease EXCEPT ![s].state = "closing"]
    /\ closer' = [closer EXCEPT ![s] = "revoke"] /\ closing' = [closing EXCEPT ![s] = server]
    /\ UNCHANGED <<granted, serverSide, workerSide, policySide, ending, faults>>

\* revoke_session() forgets the session first; it raises if the session is not there.
CloseRevoke(s) ==
    /\ closer[s] = "revoke"
    /\ instances' = [instances EXCEPT ![closing[s]].sessions = @ \ {s}]
    /\ closer' = [closer EXCEPT ![s] = "drop"]
    /\ UNCHANGED <<lease, closing, granted, server, workerSide, policySide, ending, faults>>

Thawed(s) == [r \in Rigs |-> IF r \in Covers(s) THEN 0 ELSE frozen[r]]

\* After the clean-up of the camera processes, whether or not that succeeded.
CloseDrop(s) ==
    /\ closer[s] = "drop"
    /\ lease' = [lease EXCEPT ![s].state = "over"]
    /\ frozen' = Thawed(s)
    /\ closer' = [closer EXCEPT ![s] =
           IF server = closing[s] /\ Held \ {s} = {} THEN "stop" ELSE "done"]
    /\ UNCHANGED <<closing, granted, serverSide, workerSide, config, ending, faults>>

\* The runtime's lock was released before the server is told to stop.
CloseStop(s) ==
    /\ closer[s] = "stop"
    /\ instances' = Stopping(closing[s])
    /\ closer' = [closer EXCEPT ![s] = "drain"]
    /\ UNCHANGED <<lease, closing, granted, server, workerSide, policySide, ending, faults>>

CloseDrained(s) ==
    /\ closer[s] = "drain" /\ ~instances[closing[s]].busy
    /\ instances' = Finalized(closing[s])
    /\ closer' = [closer EXCEPT ![s] = "clear"]
    /\ UNCHANGED <<lease, closing, granted, server, workerSide, policySide, ending, faults>>

CloseStuck(s) ==
    /\ closer[s] = "drain" /\ instances[closing[s]].busy
    /\ closer' = [closer EXCEPT ![s] = "done"]
    /\ UNCHANGED <<lease, closing, granted, serverSide, workerSide, policySide, ending, faults>>

CloseClear(s) ==
    /\ closer[s] = "clear"
    /\ server' = IF server = closing[s] /\ Held = {} THEN 0 ELSE server
    /\ closer' = [closer EXCEPT ![s] = "done"]
    /\ UNCHANGED <<lease, closing, granted, instances, workerSide, policySide, ending, faults>>

-----------------------------------------------------------------------------
\* Workers.  A stop that is not confirmed leaves the process alive and registered.

Process(r) == <<r, worker[r].number>>
Alive(R) == {r \in R : Process(r) \in live}

\* reconcile(): the obsolete workers are stopped, then their successors are started.
\* survivors are the obsolete workers whose stop fails.
Obsolete(desired) == {r \in Available : worker[r].entry # desired[r]}
LeasedRigs == UNION {IF lease[s].scope = Everything THEN Available ELSE lease[s].scope : s \in Held}

MayReconcile(desired) ==
    /\ ending = "no" /\ Guarded /\ config < MaxConfigs
    /\ \A r \in LeasedRigs : worker[r].entry = desired[r]

ReconcileFails(desired, survivors) ==
    /\ MayReconcile(desired)
    /\ survivors # {} /\ survivors \subseteq Alive(Obsolete(desired)) /\ Fault
    /\ live' = live \ {Process(r) : r \in Obsolete(desired) \ survivors}
    /\ server' = Refreshed
    /\ UNCHANGED <<leaseSide, instances, worker, made, policySide, ending>>

Stopped(desired) == {Process(r) : r \in Obsolete(desired)}

\* started: the successors that got so far; survivors: those of them that live in the end.
\* When a start fails, those started before are stopped again, and a survivor of that is
\* registered all the same.
Reconcile(desired, started, survivors) ==
    LET fresh == {r \in Rigs : desired[r] # 0 /\ worker[r].entry # desired[r]}
        complete == started = fresh /\ survivors = fresh
        number == made + 1
    IN  /\ MayReconcile(desired)
        /\ started \subseteq fresh /\ survivors \subseteq started
        /\ ~complete => fresh # {}
        /\ started # {} => number <= MaxWorkers
        /\ made' = IF started # {} THEN number ELSE made
        /\ IF complete THEN config' = config + 1 /\ UNCHANGED faults
           ELSE Fault /\ UNCHANGED config
        /\ live' = (live \ Stopped(desired)) \cup {<<r, number>> : r \in survivors}
        /\ worker' = [r \in Rigs |->
               IF r \in survivors THEN [number |-> number, entry |-> desired[r]]
               ELSE IF r \in Obsolete(desired) \/ worker[r].number = 0 THEN NoWorker
               ELSE worker[r]]
        /\ server' = Refreshed
        /\ UNCHANGED <<leaseSide, instances, frozen, ending>>

\* release_idle_workers(), before a characterization takes the camera itself.
ReleaseIdle(survivors) ==
    /\ ending = "no" /\ Held = {} /\ Refreshed = 0 /\ Available # {}
    /\ survivors \subseteq Alive(Available)
    /\ IF survivors = {} THEN UNCHANGED faults ELSE Fault
    /\ server' = 0
    /\ live' = {Process(r) : r \in survivors}
    /\ worker' = [r \in Rigs |-> IF r \in survivors THEN worker[r] ELSE NoWorker]
    /\ frozen' = [r \in Rigs |-> 0]
    /\ UNCHANGED <<leaseSide, instances, made, config, ending>>

\* A camera process dies and is not replaced before the next call (see CameraSession).
WorkerDies(r) ==
    /\ Process(r) \in live /\ Fault
    /\ live' = live \ {Process(r)}
    /\ UNCHANGED <<leaseSide, serverSide, worker, made, policySide, ending>>

-----------------------------------------------------------------------------
\* shutdown(), when the runtime admits no more calls and no run is left (see RuntimeRpc).

ShutdownBegins ==
    /\ ending = "no" /\ ending' = IF Refreshed = 0 THEN "workers" ELSE "server"
    /\ server' = Refreshed
    /\ instances' = IF Refreshed = 0 THEN instances ELSE Stopping(server)
    /\ UNCHANGED <<leaseSide, workerSide, policySide, faults>>

\* The handlers do not drain in time: shutdown() raises, and the process ends with that.
ShutdownStuck ==
    /\ ending = "server" /\ server # 0 /\ instances[server].busy
    /\ ending' = "failed"
    /\ UNCHANGED <<leaseSide, serverSide, workerSide, policySide, faults>>

ShutdownServer ==
    /\ ending = "server" /\ IF server = 0 THEN TRUE ELSE ~instances[server].busy
    /\ ending' = "workers"
    /\ IF server = 0 THEN UNCHANGED <<serverSide, lease, frozen>>
       ELSE /\ instances' = Finalized(server) /\ server' = 0
            /\ lease' = [s \in Sessions |->
                   IF s \in Held THEN [lease[s] EXCEPT !.state = "over"] ELSE lease[s]]
            /\ frozen' = [r \in Rigs |-> 0]
    /\ UNCHANGED <<closer, closing, granted, workerSide, config, faults>>

ShutdownWorkers(survivors) ==
    /\ ending = "workers" /\ survivors \subseteq Alive(Available)
    /\ IF survivors = {} THEN UNCHANGED faults ELSE Fault
    /\ ending' = IF survivors = {} THEN "over" ELSE "failed"
    /\ live' = {Process(r) : r \in survivors}
    /\ worker' = [r \in Rigs |-> IF r \in survivors THEN worker[r] ELSE NoWorker]
    /\ UNCHANGED <<leaseSide, serverSide, made, policySide>>

-----------------------------------------------------------------------------
Closer(s) ==
    \/ CloseBegin(s) \/ CloseRevoke(s) \/ CloseDrop(s) \/ CloseStop(s)
    \/ CloseDrained(s) \/ CloseStuck(s) \/ CloseClear(s)

CameraLeaseNext ==
    \/ \E s \in Sessions : Closer(s) \/ \E scope \in Scopes : Open(s, scope)
    \/ \E i \in 1 .. MaxServers : RequestBegins(i) \/ RequestEnds(i) \/ AcceptLoopFails(i)
    \/ \E desired \in [Rigs -> Bindings \cup {0}], R \in SUBSET Rigs :
        \/ ReconcileFails(desired, R)
        \/ \E S \in SUBSET R : Reconcile(desired, R, S)
    \/ \E R \in SUBSET Rigs : ReleaseIdle(R) \/ ShutdownWorkers(R)
    \/ \E r \in Rigs : WorkerDies(r)
    \/ ShutdownBegins \/ ShutdownStuck \/ ShutdownServer

CameraLeaseSpec == CameraLeaseInit /\ [][CameraLeaseNext]_leaseVars

-----------------------------------------------------------------------------
\* A RIG has one holder, also while a close is under way, and its camera stays what it was
\* when the lease was granted: reconcile() and release_idle_workers() cannot slip between
\* the steps of a close.
Promise == INSTANCE ExclusiveLease WITH
    held <- [s \in Sessions |-> IF s \in Held THEN Covers(s) ELSE {}],
    bound <- [r \in Rigs |-> worker[r].entry], Unbound <- 0, ended <- ending # "no"
LeasePromise == Promise!LeaseSpec

\* The camera is on the USB once: every process that is alive is the registered one of its
\* RIG, also after stops and starts that failed, so that there is never a second one, and
\* never one that shutdown() does not know.
OneOwner == \A p \in live : p = Process(p[1])

\* The server serves no session that the runtime would already give to another client.
SessionsAreLeases ==
    \A i \in 1 .. MaxServers, s \in Sessions :
        s \in instances[i].sessions => s \in Held /\ i = server

\* Settings that change under a lease do not reach its run.
PolicyFrozen ==
    \A s \in Held : lease[s].scope # Everything =>
        \A r \in lease[s].scope : frozen[r] = granted[s]

\* A lease means what its holder takes it for: its server, its settings, its cameras.
LeasesHonoured == LeaseTypeInv /\ SessionsAreLeases /\ PolicyFrozen /\ OneOwner

\* "Stop only if this is still the same server and no runtime leases remain"
\* (camera_worker_runtime.py:520): the server of an open lease serves it. It need not: the
\* lease may be opened between this check and the stop.
LeaseServed ==
    \A s \in Sessions : lease[s].state = "open" =>
        server # 0 /\ instances[server].state = "serving" /\ s \in instances[server].sessions
=============================================================================
