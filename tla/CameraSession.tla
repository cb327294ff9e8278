------------------------------ MODULE CameraSession ------------------------------
(***************************************************************************)
(* The requests of one RIG in CameraIpcServer.handle_request() and its     *)
(* ProcessCameraWorker: sessions, prepared captures, and the generations   *)
(* of the camera process.  A handler checks its session once, when it      *)
(* starts; every call of the camera process runs under the worker's lock   *)
(* and is one step; everything else can come in between.                   *)
(*                                                                         *)
(* All sessions have one name here, which the code allows ("a session_id   *)
(* may be revoked and later reused"); lease is the incarnation.            *)
(***************************************************************************)
EXTENDS Integers, FiniteSets

CONSTANTS
    Handlers, Captures,
    Constrained,   \* the RIG's exposures are limited for its motion (resolve_motion_constraint)
    MaxPrepared,   \* MAX_PREPARED_TOKENS_PER_RIG
    MaxLeases, MaxGenerations, MaxFailures   \* bounds

ASSUME SessionAssumption == {MaxPrepared, MaxLeases, MaxGenerations, MaxFailures} \subseteq Nat
                            /\ Constrained \in BOOLEAN

VARIABLES
    session,       \* the lease that is active, 0 for none
    leases,        \* how many there were
    request,       \* what each handler does
    tokens,        \* _tokens
    reserved,      \* _prepare_reservations
    iso,           \* _rig_iso_targets has the RIG
    abandoned,     \* the clean-up of revoke_session()
    camera,        \* the process: [started, alive, generation, known, settings]
    snapshot,      \* _runtime_init_settings
    issued,         \* history: the captures that were prepared
    strangers,     \* history: a process was handed a capture it does not know
    failures

serverVars == <<session, leases, tokens, reserved, iso, abandoned>>
processVars == <<camera, snapshot, issued, strangers, failures>>
sessionVars == <<serverVars, request, processVars>>

Settings == 1 .. MaxLeases     \* the settings of the run with that lease
Unset == 0
Unknown == -1                  \* a change that failed half-way
Idle == [op |-> "none", at |-> "idle", lease |-> 0, id |-> 0, generation |-> 0]
Token == [id : Captures, lease : 1 .. MaxLeases, generation : 0 .. MaxGenerations]
NoCleanup == [at |-> "idle", tokens |-> {}]

SessionTypeInv ==
    /\ session \in 0 .. MaxLeases /\ leases \in 0 .. MaxLeases
    /\ request \in [Handlers ->
           [op : {"none", "init", "settings", "prepare", "trigger", "discard", "direct"},
            at : {"idle", "admitted", "reserved", "prepared", "orphan", "consumed", "applied"},
            lease : 0 .. MaxLeases, id : Captures \cup {0}, generation : 0 .. MaxGenerations]]
    /\ tokens \subseteq Token
    /\ \A s, t \in tokens : s.id = t.id => s = t
    /\ reserved \in 0 .. MaxPrepared /\ iso \in BOOLEAN
    /\ abandoned \in [at : {"idle", "clear", "discard"}, tokens : SUBSET Token]
    /\ camera \in [started : BOOLEAN, alive : BOOLEAN, generation : 0 .. MaxGenerations,
                   known : SUBSET Captures, settings : Settings \cup {Unset, Unknown}]
    /\ camera.alive => camera.started /\ camera.generation # 0
    /\ snapshot \in Settings \cup {Unset}
    /\ issued \subseteq Captures /\ strangers \in BOOLEAN /\ failures \in 0 .. MaxFailures

CameraSessionInit ==
    /\ session = 0 /\ leases = 0 /\ request = [h \in Handlers |-> Idle]
    /\ tokens = {} /\ reserved = 0 /\ iso = FALSE /\ abandoned = NoCleanup
    /\ camera = [started |-> TRUE, alive |-> FALSE, generation |-> 0, known |-> {},
                 settings |-> Unset]
    /\ snapshot = Unset /\ issued = {} /\ strangers = FALSE /\ failures = 0

Busy(h, op, at) == request[h].op = op /\ request[h].at = at
Goto(h, at) == request' = [request EXCEPT ![h].at = at]
Done(h) == request' = [request EXCEPT ![h] = Idle]

-----------------------------------------------------------------------------
\* ProcessCameraWorker._remote_call()

Failure == failures < MaxFailures /\ failures' = failures + 1

\* _ensure_process_locked(): a process that is gone is replaced, and the new one gets the
\* settings of the run back before it is used.
Ensured ==
    IF camera.alive THEN camera
    ELSE [camera EXCEPT !.alive = TRUE, !.generation = @ + 1, !.known = {}, !.settings = snapshot]

Usable == camera.started /\ (camera.alive \/ camera.generation < MaxGenerations)

\* _kill_current_locked(): a process that survives is kept and never used again.
Lost(c) == [c EXCEPT !.alive = FALSE, !.known = {}]
KillOf(c) == {Lost(c), [Lost(c) EXCEPT !.started = FALSE]}

\* A call that fails: the process answers with an error, is lost, or is killed.
CallFails ==
    Failure /\ camera' \in KillOf(Ensured) \cup {Ensured} /\ UNCHANGED <<snapshot, strangers>>
Refused == UNCHANGED processVars    \* nothing is sent

SameGeneration(g) == camera.alive /\ camera.generation = g

\* The child drops the capture first, and one it does not know costs it its life.
Handed(id) ==
    IF id \in camera.known THEN {[camera EXCEPT !.known = @ \ {id}]} ELSE KillOf(camera)
HandedStranger(id) == strangers' = (strangers \/ id \notin camera.known)

-----------------------------------------------------------------------------
\* Sessions.

\* activate_session(); CameraLease lets nobody in before a revocation has ended.
Activate ==
    /\ session = 0 /\ abandoned = NoCleanup /\ leases < MaxLeases
    /\ leases' = leases + 1 /\ session' = leases + 1
    /\ UNCHANGED <<request, tokens, reserved, iso, abandoned, processVars>>

Revoke ==
    /\ session # 0
    /\ session' = 0 /\ iso' = FALSE /\ tokens' = {}
    /\ abandoned' = [at |-> "clear", tokens |-> tokens]
    /\ UNCHANGED <<leases, request, reserved, processVars>>

\* clear_runtime_recovery_state() starts no process.
RevokeClear ==
    /\ abandoned.at = "clear"
    /\ abandoned' = IF abandoned.tokens = {} THEN NoCleanup ELSE [abandoned EXCEPT !.at = "discard"]
    /\ snapshot' = Unset
    /\ \/ UNCHANGED <<camera, failures>>
       \/ camera.alive /\ Failure /\ camera' \in KillOf(camera)
    /\ UNCHANGED <<session, leases, tokens, reserved, iso, request, issued, strangers>>

\* ProcessCameraWorker.discard_prepared()
Discarding(t) ==
    IF SameGeneration(t.generation)
    THEN \/ camera' \in Handed(t.id) /\ HandedStranger(t.id) /\ UNCHANGED failures
         \/ Failure /\ camera' \in KillOf(camera) /\ UNCHANGED strangers
    ELSE UNCHANGED <<camera, strangers, failures>>

RevokeDiscard(t) ==
    /\ abandoned.at = "discard" /\ t \in abandoned.tokens
    /\ abandoned' = IF abandoned.tokens = {t} THEN NoCleanup
                    ELSE [abandoned EXCEPT !.tokens = @ \ {t}]
    /\ Discarding(t)
    /\ UNCHANGED <<session, leases, tokens, reserved, iso, request, snapshot, issued>>

\* CameraIpcServer._finalize_stop(), after the last handler; a new server comes with the
\* next session.  The camera process is not told.
ServerStops ==
    /\ session # 0 /\ \A h \in Handlers : request[h] = Idle
    /\ session' = 0 /\ tokens' = {} /\ reserved' = 0 /\ iso' = FALSE
    /\ UNCHANGED <<leases, request, abandoned, processVars>>

-----------------------------------------------------------------------------
\* Requests.  A client that gives up on an answer sends its next request meanwhile.

Admit(h, op, id) ==
    /\ session # 0 /\ request[h] = Idle
    /\ op \in {"trigger", "discard"} <=> id # 0
    /\ id # 0 => id \in issued
    /\ request' = [request EXCEPT ![h] = [Idle EXCEPT
           !.op = op, !.at = "admitted", !.lease = session, !.id = id,
           !.generation = IF op = "trigger" THEN camera.generation ELSE 0]]
    /\ UNCHANGED <<serverVars, processVars>>

\* camera.initialize: the process that is started for it gets no older settings, and after
\* an error the older ones count again.
Initialize(h) ==
    /\ Busy(h, "init", "admitted") /\ Done(h)
    /\ \/ /\ Usable /\ snapshot' = request[h].lease
          /\ camera' = [Ensured EXCEPT !.settings = request[h].lease]
          /\ UNCHANGED <<issued, strangers, failures>>
       \/ /\ Usable /\ Failure /\ camera' = [Ensured EXCEPT !.settings = Unknown]
          /\ UNCHANGED <<snapshot, issued, strangers>>
       \/ Usable /\ CallFails /\ UNCHANGED issued
       \/ ~camera.started /\ Refused
    /\ UNCHANGED serverVars

\* apply_phase_settings: the settings a new process gets follow the phase.
Follows(run) == IF snapshot = Unset THEN Unset ELSE run

ApplySettings(h) ==
    /\ Busy(h, "settings", "admitted")
    /\ \/ /\ Usable /\ Goto(h, "applied")
          /\ camera' = [Ensured EXCEPT !.settings = request[h].lease]
          /\ snapshot' = Follows(request[h].lease)
          /\ UNCHANGED <<issued, strangers, failures>>
       \/ /\ Usable /\ Failure /\ Done(h)
          /\ camera' = [Ensured EXCEPT !.settings = Unknown]
          /\ UNCHANGED <<snapshot, issued, strangers>>
       \/ Usable /\ CallFails /\ Done(h) /\ UNCHANGED issued
       \/ ~camera.started /\ Refused /\ Done(h)
    /\ UNCHANGED serverVars

PublishIso(h) ==
    /\ Busy(h, "settings", "applied") /\ Done(h)
    /\ iso' = TRUE
    /\ UNCHANGED <<session, leases, tokens, reserved, abandoned, processVars>>

\* camera.preflight, get_parameter, set_parameter, execute_photo, shoot_speed_list and
\* camera.capabilities: one call of the process.
Direct(h) ==
    /\ Busy(h, "direct", "admitted") /\ Done(h)
    /\ \/ Usable /\ camera' = Ensured /\ UNCHANGED <<snapshot, issued, strangers, failures>>
       \/ Usable /\ CallFails /\ UNCHANGED issued
       \/ ~camera.started /\ Refused
    /\ UNCHANGED serverVars

-----------------------------------------------------------------------------
\* prepare_capture

Full == Cardinality(tokens) + reserved >= MaxPrepared

Reserve(h) ==
    /\ Busy(h, "prepare", "admitted")
    /\ IF session # 0 /\ ~Full
       THEN reserved' = reserved + 1
            /\ request' = [request EXCEPT ![h].at = "reserved", ![h].lease = session]
       ELSE UNCHANGED reserved /\ Done(h)
    /\ UNCHANGED <<session, leases, tokens, iso, abandoned, processVars>>

\* _policy_intent() and _field_rotation_policy_intent() refuse: the policy, the position of
\* the sun, or no ISO target, which only apply_phase_settings sets.  The reservation is not
\* given back.
PlanRefused(h) ==
    /\ Busy(h, "prepare", "reserved") /\ Constrained
    /\ Done(h)
    /\ UNCHANGED <<serverVars, processVars>>

Prepare(h, id) ==
    /\ Busy(h, "prepare", "reserved") /\ (Constrained => iso)
    /\ \/ /\ Usable /\ id \notin issued
          /\ camera' = [Ensured EXCEPT !.known = @ \cup {id}]
          /\ issued' = issued \cup {id}
          /\ request' = [request EXCEPT ![h].at = "prepared", ![h].id = id,
                                        ![h].generation = Ensured.generation]
          /\ UNCHANGED <<reserved, snapshot, strangers, failures>>
       \/ /\ Usable /\ CallFails /\ UNCHANGED issued
          /\ reserved' = reserved - 1 /\ Done(h)
       \/ ~camera.started /\ Refused /\ reserved' = reserved - 1 /\ Done(h)
    /\ UNCHANGED <<session, leases, tokens, iso, abandoned>>

StillLeased(h) == session = request[h].lease

Publish(h) ==
    /\ Busy(h, "prepare", "prepared")
    /\ IF StillLeased(h)
       THEN /\ tokens' = tokens \cup {[id |-> request[h].id, lease |-> request[h].lease,
                                       generation |-> request[h].generation]}
            /\ reserved' = reserved - 1 /\ Done(h)
       ELSE UNCHANGED <<tokens, reserved>> /\ Goto(h, "orphan")
    /\ UNCHANGED <<session, leases, iso, abandoned, processVars>>

DropOrphan(h) ==
    /\ Busy(h, "prepare", "orphan") /\ Done(h)
    /\ reserved' = reserved - 1
    /\ Discarding([id |-> request[h].id, generation |-> request[h].generation])
    /\ UNCHANGED <<session, leases, tokens, iso, abandoned, snapshot, issued>>

-----------------------------------------------------------------------------
\* trigger_prepared and discard_prepared: the capture is taken out of the table first.

Mine(h) == {t \in tokens : t.id = request[h].id}

\* Mutant: it is taken out afterwards.
ConsumeLater(h) ==
    /\ \/ Busy(h, "trigger", "admitted") \/ Busy(h, "discard", "admitted")
    /\ UNCHANGED tokens
    /\ IF Mine(h) = {} THEN Done(h)
       ELSE \E t \in Mine(h) :
           request' = [request EXCEPT ![h].at = "consumed", ![h].generation = t.generation]
    /\ UNCHANGED <<session, leases, reserved, iso, abandoned, processVars>>
Consume(h) ==
    /\ \/ Busy(h, "trigger", "admitted") \/ Busy(h, "discard", "admitted")
    /\ tokens' = tokens \ Mine(h)
    /\ IF \E t \in Mine(h) : request[h].op = "trigger" => t.generation = request[h].generation
       THEN \E t \in Mine(h) :
           request' = [request EXCEPT ![h].at = "consumed", ![h].generation = t.generation]
       ELSE Done(h)
    /\ UNCHANGED <<session, leases, reserved, iso, abandoned, processVars>>

\* Whatever the child answers, and whether or not it was in time, the capture is gone.
Trigger(h) ==
    /\ Busy(h, "trigger", "consumed") /\ Done(h)
    /\ IF SameGeneration(request[h].generation)
       THEN /\ \/ /\ camera' \in Handed(request[h].id) /\ HandedStranger(request[h].id)
                  /\ UNCHANGED failures
               \/ Failure /\ camera' \in KillOf(camera) /\ UNCHANGED strangers
            /\ UNCHANGED <<snapshot, issued>>
       ELSE Refused
    /\ UNCHANGED serverVars

Discard(h) ==
    /\ Busy(h, "discard", "consumed") /\ Done(h)
    /\ Discarding([id |-> request[h].id, generation |-> request[h].generation])
    /\ UNCHANGED <<serverVars, snapshot, issued>>

-----------------------------------------------------------------------------
\* The process dies between two calls; the next call notices.
ProcessDies ==
    /\ camera.alive /\ Failure /\ camera' = Lost(camera)
    /\ UNCHANGED <<serverVars, request, snapshot, issued, strangers>>

Operations == {"init", "settings", "prepare", "trigger", "discard", "direct"}

Handler(h) ==
    \/ Initialize(h) \/ ApplySettings(h) \/ PublishIso(h) \/ Direct(h)
    \/ Reserve(h) \/ PlanRefused(h) \/ Publish(h) \/ DropOrphan(h)
    \/ Consume(h) \/ Trigger(h) \/ Discard(h)
    \/ \E id \in Captures : Prepare(h, id)

CameraSessionNext ==
    \/ Activate \/ Revoke \/ RevokeClear \/ ServerStops \/ ProcessDies
    \/ \E t \in abandoned.tokens : RevokeDiscard(t)
    \/ \E h \in Handlers :
        \/ Handler(h)
        \/ \E op \in Operations, id \in Captures \cup {0} : Admit(h, op, id)

CameraSessionSpec == CameraSessionInit /\ [][CameraSessionNext]_sessionVars

-----------------------------------------------------------------------------
\* "Never resurrect a token for a dead session" (camera_ipc_server.py:1210): whatever is
\* prepared while its session is revoked, and even if its name is in use again.
TokenOfLease == \A t \in tokens : t.lease = session

\* "Never send a stale proxy token into a freshly respawned child: that child would reject
\* it, and the parent would then kill an otherwise healthy new generation" (:1346).  Nor is
\* the shutter released twice for a capture that a client triggers again after a lost
\* answer: a capture that was triggered is a stranger as well.
NoStrangers == ~strangers

\* Concurrent requests together do not exceed the captures a RIG may have prepared.
CapRespected == Cardinality(tokens) + reserved <= MaxPrepared

\* A process that is replaced in the middle of a run goes on with the settings of its phase,
\* as far as the last change of settings did not fail.
RespawnKeepsSettings ==
    camera.alive /\ snapshot # Unset => camera.settings \in {snapshot, Unknown}

\* Prepared captures stay within their session, their process and their number, and a
\* process that was replaced has the settings of the run.
CapturesOwned == SessionTypeInv /\ TokenOfLease /\ NoStrangers /\ CapRespected /\ RespawnKeepsSettings

\* "In-flight prepare_capture calls reserve capacity" (camera_ipc_server.py:203), and others
\* do not. They do: a call whose plan is refused keeps its reservation.
ReservationsInFlight ==
    reserved = Cardinality({h \in Handlers : request[h].op = "prepare"
                                             /\ request[h].at \notin {"idle", "admitted"}})
=============================================================================
