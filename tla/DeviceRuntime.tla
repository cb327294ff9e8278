----------------------------- MODULE DeviceRuntime -----------------------------
(***************************************************************************)
(* MountWorkerRuntime.reconcile() and stop_all()                           *)
(* (mount_worker_runtime.py; focuser_worker_runtime.py is the same code):  *)
(* which worker process owns which device, when stops and starts fail.     *)
(* Both run under the runtime's lock: each is one step here, in which its  *)
(* stops and starts may succeed or fail one by one.                        *)
(***************************************************************************)
EXTENDS Integers, FiniteSets

CONSTANTS
    Devices,       \* physical devices (the identity)
    Settings,      \* the rest of a binding: the back end, the RIG, the entry
    MaxProcesses, MaxTroubles   \* bounds

ASSUME DeviceRuntimeAssumption ==
    /\ {MaxProcesses, MaxTroubles} \subseteq Nat /\ "none" \notin Settings
    /\ IsFiniteSet(Devices) /\ 0 \notin Devices

VARIABLES
    registry,      \* _registry: the worker of each device, 0 for none
    binding,       \* the binding of each worker
    process,       \* "running", "stuck" (alive, but refuses work), "gone" or "ended" (late)
    retained,      \* _retained_workers
    degraded,      \* _degraded_ownership
    workers,       \* how many there were
    troubles

fleetVars == <<registry, binding, process, retained, degraded, workers, troubles>>

Ids == 1 .. MaxProcesses
Unbound == [device |-> 0, settings |-> "none"]
Alive == {w \in Ids : process[w] \in {"running", "stuck"}}
Registered == {registry[d] : d \in Devices} \ {0}

FleetTypeInv ==
    /\ registry \in [Devices -> 0 .. MaxProcesses]
    /\ binding \in [Ids -> [device : Devices \cup {0}, settings : Settings \cup {"none"}]]
    /\ process \in [Ids -> {"none", "running", "stuck", "gone", "ended"}]
    /\ \A d \in Devices : registry[d] # 0 => binding[registry[d]].device = d
    /\ retained \subseteq Ids /\ degraded \in BOOLEAN
    /\ workers \in 0 .. MaxProcesses /\ troubles \in 0 .. MaxTroubles

FleetInit ==
    /\ registry = [d \in Devices |-> 0] /\ binding = [w \in Ids |-> Unbound]
    /\ process = [w \in Ids |-> "none"] /\ retained = {} /\ degraded = FALSE
    /\ workers = 0 /\ troubles = 0

-----------------------------------------------------------------------------
\* reconcile() to the bindings of desired ("none": the device is not configured).
Unchanged(desired) ==
    {d \in Devices : registry[d] # 0 /\ desired[d] = binding[registry[d]].settings}
New(desired) == {d \in Devices : desired[d] # "none"} \ Unchanged(desired)
Obsolete(desired) == {registry[d] : d \in Devices \ Unchanged(desired)} \ {0}

\* Mutant: only the workers that a roll-back could not stop stand in the way.
MayConfigureDegraded == retained = {}
MayConfigure == retained = {} /\ ~degraded

\* The workers that are made for the new bindings, in any order.
Numbering(desired) ==
    {f \in [New(desired) -> workers + 1 .. workers + Cardinality(New(desired))] :
        \A c, d \in New(desired) : f[c] = f[d] => c = d}

Makes(number, desired) ==
    /\ workers' = workers + Cardinality(New(desired))
    /\ binding' = [w \in Ids |->
           IF \E d \in New(desired) : number[d] = w
           THEN LET d == CHOOSE d \in New(desired) : number[d] = w
                IN  [device |-> d, settings |-> desired[d]]
           ELSE binding[w]]

After(running, stuck, gone) ==
    process' = [w \in Ids |-> IF w \in running THEN "running"
                              ELSE IF w \in stuck THEN "stuck"
                              ELSE IF w \in gone THEN "gone" ELSE process[w]]

Trouble(t) == IF t THEN troubles < MaxTroubles /\ troubles' = troubles + 1
              ELSE UNCHANGED troubles

\* An old owner does not stop: those that did are started again (failed: the starts that
\* fail), the successors never start.
StopFails(desired, stuck, failed) ==
    LET old == Obsolete(desired)
    IN  /\ MayConfigure /\ stuck # {} /\ stuck \subseteq old \cap Alive
        /\ failed \subseteq old \ stuck /\ Trouble(TRUE)
        /\ After(old \ (stuck \cup failed), stuck, failed)
        /\ degraded' = (degraded \/ failed # {})
        /\ UNCHANGED <<registry, binding, retained, workers>>

Restored(old, survivors) == IF survivors = {} THEN old ELSE {}

\* A successor does not start: every successor is stopped again (survivors: those that live
\* on), and only if none survives the old owners are started again.
StartFails(desired, number, survivors, failed) ==
    LET old == Obsolete(desired)
        new == {number[d] : d \in New(desired)}
    IN  /\ MayConfigure /\ new # {} /\ survivors \subseteq new
        /\ failed \subseteq Restored(old, survivors) /\ Trouble(TRUE)
        /\ Makes(number, desired)
        /\ After(Restored(old, survivors) \ failed, survivors, (old \cup new) \ survivors)
        /\ retained' = retained \cup survivors
        /\ degraded' = (degraded \/ failed # {})
        /\ UNCHANGED registry

Configure(desired, number) ==
    /\ MayConfigure /\ Makes(number, desired)
    /\ registry' = [d \in Devices |->
           IF d \in New(desired) THEN number[d]
           ELSE IF d \in Unchanged(desired) THEN registry[d] ELSE 0]
    /\ After({number[d] : d \in New(desired)}, {}, Obsolete(desired))
    /\ degraded' = FALSE
    /\ UNCHANGED <<retained, troubles>>

\* stop_all() forgets the workers whose end is confirmed, survivors stay known.
Kept(survivors) ==
    [registry |-> [d \in Devices |-> IF registry[d] \in survivors THEN registry[d] ELSE 0],
     retained |-> retained \cap survivors]

StopAll(survivors) ==
    /\ survivors \subseteq (Registered \cup retained) \cap Alive
    /\ Registered \cup retained # {} /\ Trouble(survivors # {})
    /\ registry' = Kept(survivors).registry /\ retained' = Kept(survivors).retained
    /\ After({}, survivors, (Registered \cup retained) \ survivors)
    /\ degraded' = (survivors # {})
    /\ UNCHANGED <<binding, workers>>

\* A process that could not be stopped ends after all.
ProcessEnds(w) ==
    /\ process[w] = "stuck" /\ process' = [process EXCEPT ![w] = "ended"]
    /\ UNCHANGED <<registry, binding, retained, degraded, workers, troubles>>

Reconcile(desired) ==
    /\ workers + Cardinality(New(desired)) <= MaxProcesses
    /\ New(desired) # {} \/ Obsolete(desired) # {}
    /\ \/ \E A, B \in SUBSET Obsolete(desired) : StopFails(desired, A, B)
       \/ \E number \in Numbering(desired) :
           \/ Configure(desired, number)
           \/ \E A \in SUBSET {number[d] : d \in New(desired)}, B \in SUBSET Obsolete(desired) :
                  StartFails(desired, number, A, B)

FleetNext ==
    \/ \E desired \in [Devices -> Settings \cup {"none"}] : Reconcile(desired)
    \/ \E A \in SUBSET Ids : StopAll(A)
    \/ \E w \in Ids : ProcessEnds(w)

FleetSpec == FleetInit /\ [][FleetNext]_fleetVars

-----------------------------------------------------------------------------
\* "Exclusive ownership: old owners must be confirmed stopped before any replacement may
\* start" (mount_worker_runtime.py:272), also through roll-backs that fail themselves.
OneOwnerPerDevice ==
    \A v, w \in Alive : binding[v].device = binding[w].device => v = w

\* Every process that is alive can be found by stop_all().
NoLostOwner == Alive \subseteq Registered \cup retained

\* A configuration of which a part could not be restored is not built upon: a worker that is
\* registered but not alive blocks the next change until stop_all() has succeeded.
LostWorkerBlocks == (\E w \in Registered : process[w] = "gone") => ~MayConfigure

\* The fleet of one runtime, taken together (mount_worker_runtime.py:203).
OwnersKnown == FleetTypeInv /\ OneOwnerPerDevice /\ NoLostOwner /\ LostWorkerBlocks
=============================================================================
