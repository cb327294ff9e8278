------------------------------- MODULE StationProofs -------------------------------
\* The devices around the trigger, for any devices, processes, buttons and bounds: every process
\* has one owner that is known, a STOP of mount or focuser lasts, a released button moves nothing
\* once the mount has obeyed, the session of a focuser is kept until its last owner has left, and
\* the discovery of mounts is safe.
EXTENDS MCStation, FiniteSetTheorems, WellFoundedInduction, TLAPS

-----------------------------------------------------------------------------
(* The owners of the devices *)
\* The numbers above `workers' have not been used.
NumbersUnused ==
    \A w \in Ids : w > workers =>
        process[w] = "none" /\ w \notin retained /\ \A d \in Devices : registry[d] # w
FleetIInv == OwnersKnown /\ NumbersUnused

\* The invariant holds at the start.
LEMMA FleetInitially == FleetInit => FleetIInv
<1> SUFFICES ASSUME FleetInit PROVE FleetIInv
    OBVIOUS
<1>1. FleetTypeInv
    <2>1. MaxProcesses \in Nat /\ MaxTroubles \in Nat
        BY DeviceRuntimeAssumption
    <2>2. binding \in [Ids -> [device : Devices \cup {0}, settings : Settings \cup {"none"}]]
        BY DEF FleetInit, Unbound
    <2>3. registry \in [Devices -> 0 .. MaxProcesses] /\ workers \in 0 .. MaxProcesses
          /\ troubles \in 0 .. MaxTroubles
        BY <2>1 DEF FleetInit
    <2>4. QED
        BY <2>2, <2>3 DEF FleetInit, FleetTypeInv
<1>2. Alive = {} /\ Registered = {}
    BY DEF FleetInit, Alive, Registered
<1>3. NumbersUnused
    BY DeviceRuntimeAssumption DEF FleetInit, NumbersUnused, Ids
<1>4. QED
    BY <1>1, <1>2, <1>3 DEF FleetIInv, OwnersKnown, OneOwnerPerDevice, NoLostOwner, LostWorkerBlocks

\* The workers for new bindings have numbers of their own that nothing has used.
LEMMA NumbersAreNew ==
    ASSUME FleetIInv, NEW desired \in [Devices -> Settings \cup {"none"}],
           NEW number \in Numbering(desired),
           workers + Cardinality(New(desired)) <= MaxProcesses
    PROVE  /\ Cardinality(New(desired)) \in Nat
           /\ \A d \in New(desired) :
                /\ number[d] \in Ids /\ number[d] > workers
                /\ number[d] <= workers + Cardinality(New(desired))
                /\ number[d] \notin Registered /\ number[d] \notin retained
                /\ process[number[d]] = "none"
           /\ \A c, d \in New(desired) : number[c] = number[d] => c = d
<1>1. Cardinality(New(desired)) \in Nat
    <2>1. New(desired) \subseteq Devices
        BY DEF New
    <2>2. QED
        BY <2>1, DeviceRuntimeAssumption, FS_Subset, FS_CardinalityType
<1>2. number \in [New(desired) -> workers + 1 .. workers + Cardinality(New(desired))]
      /\ \A c, d \in New(desired) : number[c] = number[d] => c = d
    BY DEF Numbering
<1>3. \A d \in New(desired) :
        number[d] \in Ids /\ number[d] > workers /\ number[d] <= workers + Cardinality(New(desired))
    BY <1>1, <1>2, DeviceRuntimeAssumption DEF FleetIInv, OwnersKnown, FleetTypeInv, Ids
<1>4. QED
    BY <1>1, <1>2, <1>3 DEF FleetIInv, NumbersUnused, Registered

\* They get their bindings, and no other worker gets another one.
LEMMA NewBindings ==
    ASSUME FleetIInv, NEW desired \in [Devices -> Settings \cup {"none"}],
           NEW number \in Numbering(desired),
           workers + Cardinality(New(desired)) <= MaxProcesses, Makes(number, desired)
    PROVE  /\ binding' \in [Ids -> [device : Devices \cup {0}, settings : Settings \cup {"none"}]]
           /\ \A d \in New(desired) : binding'[number[d]] = [device |-> d, settings |-> desired[d]]
           /\ \A w \in Ids : w <= workers => binding'[w] = binding[w]
           /\ workers' \in 0 .. MaxProcesses /\ workers' >= workers
<1> DEFINE made(w) == \E d \in New(desired) : number[d] = w
           of(w) == CHOOSE d \in New(desired) : number[d] = w
<1>1. \A w \in Ids : made(w) => of(w) \in New(desired) /\ number[of(w)] = w
    OBVIOUS
<1>2. New(desired) \subseteq Devices
    BY DEF New
<1>3. \A w \in Ids : binding'[w] = IF made(w) THEN [device |-> of(w), settings |-> desired[of(w)]]
                                   ELSE binding[w]
    BY DEF Makes
<1> HIDE DEF of
<1>4. binding' \in [Ids -> [device : Devices \cup {0}, settings : Settings \cup {"none"}]]
    <2>1. \A w \in Ids : binding'[w] \in [device : Devices \cup {0}, settings : Settings \cup {"none"}]
        <3> TAKE w \in Ids
        <3>1. CASE made(w)
            <4>1. of(w) \in Devices /\ desired[of(w)] \in Settings \cup {"none"}
                BY <1>1, <1>2, <3>1
            <4>2. binding'[w] = [device |-> of(w), settings |-> desired[of(w)]]
                BY <1>3, <3>1
            <4>3. QED
                BY <4>1, <4>2
        <3>2. CASE ~made(w)
            BY <1>3, <3>2 DEF FleetIInv, OwnersKnown, FleetTypeInv
        <3>3. QED
            BY <3>1, <3>2
    <2>2. binding' = [w \in Ids |-> binding'[w]]
        BY DEF Makes
    <2>3. QED
        BY <2>1, <2>2
<1>5. \A d \in New(desired) : binding'[number[d]] = [device |-> d, settings |-> desired[d]]
    BY <1>1, <1>3, NumbersAreNew
<1>6. \A w \in Ids : w <= workers => binding'[w] = binding[w]
    <2>1. \A w \in Ids : made(w) => w > workers
        BY NumbersAreNew
    <2>2. \A w \in Ids : w \in Int /\ workers \in Int
        BY DEF Ids, FleetIInv, OwnersKnown, FleetTypeInv
    <2>3. \A w \in Ids : ~made(w) => binding'[w] = binding[w]
        BY <1>3
    <2>4. QED
        BY <2>1, <2>2, <2>3
<1>7. workers' \in 0 .. MaxProcesses /\ workers' >= workers
    BY NumbersAreNew, DeviceRuntimeAssumption DEF Makes, FleetIInv, OwnersKnown, FleetTypeInv
<1>8. QED
    BY <1>4, <1>5, <1>6, <1>7

\* Registered workers are owners of different devices.
LEMMA RegisteredApart == FleetTypeInv' /\ Alive' \subseteq Registered' => OneOwnerPerDevice'
BY DEF FleetTypeInv, Registered, OneOwnerPerDevice

\* Old owners are registered; the others are those of devices whose binding does not change.
LEMMA OldRegistered ==
    ASSUME NEW desired, FleetTypeInv
    PROVE  /\ Obsolete(desired) \subseteq Registered /\ Registered \subseteq Ids
           /\ \A d \in Devices : registry[d] # 0 =>
                registry[d] \in Registered /\ binding[registry[d]].device = d
           /\ \A w \in Registered \ Obsolete(desired) :
                \E d \in Unchanged(desired) : registry[d] = w
           /\ \A d \in Unchanged(desired) : registry[d] \notin Obsolete(desired)
BY DEF FleetTypeInv, Obsolete, Unchanged, Registered, Ids

\* While changes are admitted, every process that is alive is registered, and none is lost.
LEMMA Admitted ==
    ASSUME FleetIInv, MayConfigure
    PROVE  Alive \subseteq Registered /\ retained = {} /\ ~degraded
           /\ \A w \in Registered : process[w] # "gone"
BY DEF FleetIInv, OwnersKnown, NoLostOwner, LostWorkerBlocks, MayConfigure

\* An old owner that does not stop keeps the invariant.
LEMMA StopFailsKeeps ==
    ASSUME FleetIInv, NEW desired \in [Devices -> Settings \cup {"none"}],
           NEW stuck, NEW failed, StopFails(desired, stuck, failed)
    PROVE  FleetIInv'
<1> DEFINE old == Obsolete(desired)
<1>1. MayConfigure /\ stuck \subseteq old /\ failed \subseteq old \ stuck
      /\ UNCHANGED <<registry, binding, retained, workers>> /\ degraded' = (degraded \/ failed # {})
    BY DEF StopFails
<1>2. \A w \in Ids : process'[w] = IF w \in old \ (stuck \cup failed) THEN "running"
                       ELSE IF w \in stuck THEN "stuck" ELSE IF w \in failed THEN "gone" ELSE process[w]
    BY DEF StopFails, After
<1>3. old \subseteq Registered /\ Registered \subseteq Ids /\ Registered' = Registered
    BY <1>1, OldRegistered DEF FleetIInv, OwnersKnown, Registered
<1> HIDE DEF old
<1>4. FleetTypeInv'
    <2>1. troubles' \in 0 .. MaxTroubles
        BY DeviceRuntimeAssumption DEF StopFails, Trouble, FleetIInv, OwnersKnown, FleetTypeInv
    <2>2. process' \in [Ids -> {"none", "running", "stuck", "gone", "ended"}]
        <3>1. process' = [w \in Ids |-> process'[w]]
            BY DEF StopFails, After
        <3>2. \A w \in Ids : process'[w] \in {"none", "running", "stuck", "gone", "ended"}
            BY <1>2 DEF FleetIInv, OwnersKnown, FleetTypeInv
        <3>3. QED
            BY <3>1, <3>2
    <2>3. QED
        BY <1>1, <2>1, <2>2 DEF FleetIInv, OwnersKnown, FleetTypeInv
<1>5. Alive' \subseteq Registered'
    BY <1>1, <1>2, <1>3, Admitted DEF Alive
<1>6. OneOwnerPerDevice'
    BY <1>4, <1>5, RegisteredApart
<1>7. LostWorkerBlocks'
    BY <1>1, <1>2, <1>3, Admitted DEF LostWorkerBlocks, MayConfigure
<1>8. NumbersUnused'
    BY <1>1, <1>2, <1>3 DEF FleetIInv, NumbersUnused, Registered
<1>9. QED
    BY <1>4, <1>5, <1>6, <1>7, <1>8 DEF FleetIInv, OwnersKnown, NoLostOwner

\* A successor that does not start keeps it.
LEMMA StartFailsKeeps ==
    ASSUME FleetIInv, NEW desired \in [Devices -> Settings \cup {"none"}],
           NEW number \in Numbering(desired),
           workers + Cardinality(New(desired)) <= MaxProcesses,
           NEW survivors, NEW failed, StartFails(desired, number, survivors, failed)
    PROVE  FleetIInv'
<1> DEFINE old == Obsolete(desired)
           new == {number[d] : d \in New(desired)}
           back == Restored(old, survivors)
<1>1. /\ MayConfigure /\ survivors \subseteq new /\ failed \subseteq back
      /\ retained' = retained \cup survivors /\ degraded' = (degraded \/ failed # {})
      /\ registry' = registry
    BY DEF StartFails
<1>2. \A w \in Ids : process'[w] = IF w \in back \ failed THEN "running"
                       ELSE IF w \in survivors THEN "stuck"
                       ELSE IF w \in (old \cup new) \ survivors THEN "gone" ELSE process[w]
    BY DEF StartFails, After
<1>3. old \subseteq Registered /\ Registered \subseteq Ids /\ Registered' = Registered
      /\ (back = old \/ back = {}) /\ (survivors # {} => back = {})
    BY <1>1, OldRegistered DEF FleetIInv, OwnersKnown, Registered, Restored
<1>4. Makes(number, desired)
    BY DEF StartFails
<1>5. /\ new \subseteq Ids /\ new \cap Registered = {} /\ \A w \in new : process[w] = "none"
      /\ \A w \in new : w > workers /\ w <= workers'
    BY NumbersAreNew, <1>4 DEF Makes
<1>6. \A w \in Ids \ new : binding'[w] = binding[w]
    BY <1>4 DEF Makes
<1>7. FleetTypeInv'
    <2>1. troubles' \in 0 .. MaxTroubles
        BY DeviceRuntimeAssumption DEF StartFails, Trouble, FleetIInv, OwnersKnown, FleetTypeInv
    <2>2. process' \in [Ids -> {"none", "running", "stuck", "gone", "ended"}]
        <3>1. process' = [w \in Ids |-> process'[w]]
            BY DEF StartFails, After
        <3>2. \A w \in Ids : process'[w] \in {"none", "running", "stuck", "gone", "ended"}
            BY <1>2 DEF FleetIInv, OwnersKnown, FleetTypeInv
        <3>3. QED
            BY <3>1, <3>2
    <2>3. \A d \in Devices : registry[d] # 0 => binding'[registry[d]].device = d
        BY <1>3, <1>5, <1>6, OldRegistered DEF FleetIInv, OwnersKnown
    <2> HIDE DEF new
    <2>4. QED
        BY <1>1, <1>4, <1>5, <2>1, <2>2, <2>3, NewBindings DEF FleetIInv, OwnersKnown, FleetTypeInv
<1>8. Alive' \subseteq Registered' \cup retained'
    BY <1>1, <1>2, <1>3, Admitted DEF Alive
<1>9. OneOwnerPerDevice'
    <2>1. CASE survivors = {}
        BY <1>1, <1>7, <1>8, <2>1, RegisteredApart, Admitted
    <2>2. CASE survivors # {}
        <3>1. \A w \in Alive' : w \in survivors \/ \E d \in Unchanged(desired) : registry[d] = w
            BY <1>1, <1>2, <1>3, <2>2, OldRegistered, Admitted DEF Alive, FleetIInv, OwnersKnown
        <3>2. \A w \in survivors : \E d \in New(desired) : w = number[d] /\ binding'[w].device = d
            <4>1. \A d \in New(desired) : binding'[number[d]] = [device |-> d, settings |-> desired[d]]
                BY <1>4, NewBindings
            <4>2. \A w \in survivors : \E d \in New(desired) : w = number[d]
                BY <1>1
            <4> TAKE w \in survivors
            <4>3. PICK d \in New(desired) : w = number[d]
                BY <4>2
            <4>4. binding'[w] = [device |-> d, settings |-> desired[d]]
                BY <4>1, <4>3
            <4>5. binding'[w].device = d
                BY <4>4
            <4>6. QED
                BY <4>3, <4>5
        <3>3. \A d \in Unchanged(desired) : d \in Devices /\ registry[d] # 0 /\ d \notin New(desired)
                                             /\ binding'[registry[d]].device = d
            BY <1>1, <1>7 DEF Unchanged, New, FleetTypeInv
        <3>4. QED
            BY <3>1, <3>2, <3>3 DEF OneOwnerPerDevice
    <2>3. QED
        BY <2>1, <2>2
<1>10. LostWorkerBlocks'
    BY <1>1, <1>2, <1>3, <1>5, Admitted DEF LostWorkerBlocks, MayConfigure
<1>11. NumbersUnused'
    <2>1. \A w \in Ids : w > workers' => w > workers /\ w \notin new
        <3>1. workers' \in 0 .. MaxProcesses /\ workers' >= workers /\ workers \in 0 .. MaxProcesses
            BY <1>4, NewBindings DEF FleetIInv, OwnersKnown, FleetTypeInv
        <3>2. \A w \in Ids : w \in Int
            BY DEF Ids
        <3> HIDE DEF new
        <3>3. QED
            BY <1>5, <3>1, <3>2, DeviceRuntimeAssumption
    <2> HIDE DEF new
    <2>2. QED
        BY <1>1, <1>2, <1>3, <2>1 DEF FleetIInv, NumbersUnused, Registered
<1>12. QED
    BY <1>7, <1>8, <1>9, <1>10, <1>11 DEF FleetIInv, OwnersKnown, NoLostOwner

\* So does a configuration that succeeds.
LEMMA ConfigureKeeps ==
    ASSUME FleetIInv, NEW desired \in [Devices -> Settings \cup {"none"}],
           NEW number \in Numbering(desired),
           workers + Cardinality(New(desired)) <= MaxProcesses, Configure(desired, number)
    PROVE  FleetIInv'
<1> DEFINE old == Obsolete(desired)
           new == {number[d] : d \in New(desired)}
<1>1. /\ MayConfigure /\ Makes(number, desired) /\ ~degraded' /\ UNCHANGED <<retained, troubles>>
      /\ degraded' \in BOOLEAN
    BY DEF Configure
<1>2. \A w \in Ids : process'[w] = IF w \in new THEN "running"
                                   ELSE IF w \in old THEN "gone" ELSE process[w]
    BY DEF Configure, After
<1>3. /\ new \subseteq Ids /\ new \cap Registered = {}
      /\ \A w \in new : w > workers /\ w <= workers'
    BY NumbersAreNew, <1>1 DEF Makes
<1>4. \A w \in Ids \ new : binding'[w] = binding[w]
    BY <1>1 DEF Makes
<1>5. \A d \in Devices : registry'[d] = IF d \in New(desired) THEN number[d]
                                        ELSE IF d \in Unchanged(desired) THEN registry[d] ELSE 0
    BY DEF Configure
<1>6. New(desired) \subseteq Devices /\ Unchanged(desired) \subseteq Devices
      /\ New(desired) \cap Unchanged(desired) = {}
      /\ \A d \in Unchanged(desired) : registry[d] # 0
    BY DEF New, Unchanged
<1>7. FleetTypeInv'
    <2>1. process' \in [Ids -> {"none", "running", "stuck", "gone", "ended"}]
        <3>1. process' = [w \in Ids |-> process'[w]]
            BY DEF Configure, After
        <3>2. \A w \in Ids : process'[w] \in {"none", "running", "stuck", "gone", "ended"}
            BY <1>2 DEF FleetIInv, OwnersKnown, FleetTypeInv
        <3>3. QED
            BY <3>1, <3>2
    <2>2. registry' \in [Devices -> 0 .. MaxProcesses]
        <3>1. \A d \in Devices : registry'[d] \in 0 .. MaxProcesses
            BY <1>5, NumbersAreNew, DeviceRuntimeAssumption
            DEF FleetIInv, OwnersKnown, FleetTypeInv, Ids
        <3>2. registry' = [d \in Devices |-> registry'[d]]
            BY DEF Configure
        <3>3. QED
            BY <3>1, <3>2
    <2>3. \A d \in Devices : registry'[d] # 0 => binding'[registry'[d]].device = d
        <3> TAKE d \in Devices
        <3>1. CASE d \in New(desired)
            <4>1. binding'[number[d]] = [device |-> d, settings |-> desired[d]]
                BY <1>1, <3>1, NewBindings
            <4>2. QED
                BY <1>5, <3>1, <4>1
        <3>2. CASE d \in Unchanged(desired)
            <4>1. registry[d] \in Registered /\ registry[d] \in Ids /\ binding[registry[d]].device = d
                BY <1>6, <3>2, OldRegistered DEF FleetIInv, OwnersKnown
            <4>2. registry'[d] = registry[d] /\ registry[d] \notin new
                BY <1>3, <1>5, <1>6, <3>2, <4>1
            <4>3. QED
                BY <1>4, <4>1, <4>2
        <3>3. QED
            BY <1>5, <3>1, <3>2
    <2> HIDE DEF new
    <2>4. QED
        BY <1>1, <2>1, <2>2, <2>3, NewBindings DEF FleetIInv, OwnersKnown, FleetTypeInv
<1>8. Registered' = new \cup {registry[d] : d \in Unchanged(desired)}
    <2>1. \A d \in New(desired) : number[d] # 0
        BY NumbersAreNew DEF Ids
    <2>2. QED
        BY <1>5, <1>6, <2>1 DEF Registered
<1>9. Alive' \subseteq Registered'
    BY <1>1, <1>2, <1>8, OldRegistered, Admitted DEF Alive, FleetIInv, OwnersKnown
<1>10. OneOwnerPerDevice'
    BY <1>7, <1>9, RegisteredApart
<1>11. \A w \in Registered' : process'[w] # "gone"
    <2>1. \A w \in new : process'[w] = "running"
        BY <1>2, <1>3
    <2>2. \A d \in Unchanged(desired) : process'[registry[d]] # "gone"
        BY <1>1, <1>2, <1>6, OldRegistered, Admitted DEF FleetIInv, OwnersKnown
    <2>3. QED
        BY <1>8, <2>1, <2>2
<1>12. NumbersUnused'
    <2>1. \A w \in Ids : w > workers' => w > workers /\ w \notin new
        <3>1. workers' \in 0 .. MaxProcesses /\ workers' >= workers /\ workers \in 0 .. MaxProcesses
            BY <1>1, NewBindings DEF FleetIInv, OwnersKnown, FleetTypeInv
        <3>2. \A w \in Ids : w \in Int
            BY DEF Ids
        <3> HIDE DEF new
        <3>3. QED
            BY <1>3, <3>1, <3>2, DeviceRuntimeAssumption
    <2>2. \A w \in Ids : w > workers => w \notin Registered /\ w \notin old /\ process[w] = "none"
        BY OldRegistered DEF FleetIInv, OwnersKnown, NumbersUnused, Registered
    <2>3. \A w \in Ids : w > workers' => \A d \in Devices : registry'[d] # w
        <3> TAKE w \in Ids
        <3> HAVE w > workers'
        <3> TAKE d \in Devices
        <3>1. w \notin new /\ w \notin Registered /\ w # 0
            BY <2>1, <2>2 DEF Ids
        <3>2. QED
            BY <1>5, <1>6, <3>1, OldRegistered DEF FleetIInv, OwnersKnown
    <2> HIDE DEF new, old
    <2>4. QED
        BY <1>1, <1>2, <2>1, <2>2, <2>3 DEF FleetIInv, NumbersUnused
<1>13. QED
    BY <1>7, <1>9, <1>10, <1>11, <1>12 DEF FleetIInv, OwnersKnown, NoLostOwner, LostWorkerBlocks

\* And so does stop_all(), whoever survives it.
LEMMA StopAllKeeps ==
    ASSUME FleetIInv, NEW survivors, StopAll(survivors)
    PROVE  FleetIInv'
<1>1. /\ survivors \subseteq (Registered \cup retained) \cap Alive /\ survivors \subseteq Ids
      /\ registry' = [d \in Devices |-> IF registry[d] \in survivors THEN registry[d] ELSE 0]
      /\ retained' = retained \cap survivors /\ degraded' \in BOOLEAN
      /\ UNCHANGED <<binding, workers>>
    BY DEF StopAll, Kept, Alive
<1>2. \A w \in Ids : process'[w] = IF w \in survivors THEN "stuck"
                       ELSE IF w \in Registered \cup retained THEN "gone" ELSE process[w]
    BY <1>1 DEF StopAll, After
<1>3. FleetTypeInv'
    <2>1. troubles' \in 0 .. MaxTroubles
        BY DeviceRuntimeAssumption DEF StopAll, Trouble, FleetIInv, OwnersKnown, FleetTypeInv
    <2>2. process' \in [Ids -> {"none", "running", "stuck", "gone", "ended"}]
        <3>1. process' = [w \in Ids |-> process'[w]]
            BY DEF StopAll, After
        <3>2. \A w \in Ids : process'[w] \in {"none", "running", "stuck", "gone", "ended"}
            BY <1>2 DEF FleetIInv, OwnersKnown, FleetTypeInv
        <3>3. QED
            BY <3>1, <3>2
    <2>3. registry' \in [Devices -> 0 .. MaxProcesses]
        BY <1>1, DeviceRuntimeAssumption DEF FleetIInv, OwnersKnown, FleetTypeInv
    <2>4. QED
        BY <1>1, <2>1, <2>2, <2>3 DEF FleetIInv, OwnersKnown, FleetTypeInv
<1>4. Alive' \subseteq survivors /\ survivors \subseteq Registered' \cup retained'
    <2>1. Alive' \subseteq survivors
        BY <1>2 DEF Alive, FleetIInv, OwnersKnown, NoLostOwner
    <2>2. survivors \subseteq Registered' \cup retained'
        BY <1>1 DEF Registered
    <2>3. QED
        BY <2>1, <2>2
<1>5. OneOwnerPerDevice'
    BY <1>1, <1>4 DEF FleetIInv, OwnersKnown, OneOwnerPerDevice
<1>6. Registered' \subseteq survivors
    BY <1>1 DEF Registered
<1>7. LostWorkerBlocks'
    BY <1>1, <1>2, <1>6 DEF LostWorkerBlocks
<1>8. NumbersUnused'
    BY <1>1, <1>2 DEF FleetIInv, NumbersUnused, Registered, Ids
<1>9. QED
    BY <1>3, <1>4, <1>5, <1>7, <1>8 DEF FleetIInv, OwnersKnown, NoLostOwner

\* Every step keeps the invariant.
LEMMA FleetStep == FleetIInv /\ [FleetNext]_fleetVars => FleetIInv'
<1> SUFFICES ASSUME FleetIInv, [FleetNext]_fleetVars PROVE FleetIInv'
    OBVIOUS
<1>1. ASSUME NEW desired \in [Devices -> Settings \cup {"none"}], Reconcile(desired) PROVE FleetIInv'
    BY <1>1, StopFailsKeeps, StartFailsKeeps, ConfigureKeeps DEF Reconcile
<1>2. ASSUME NEW survivors \in SUBSET Ids, StopAll(survivors) PROVE FleetIInv'
    BY <1>2, StopAllKeeps
<1>3. ASSUME NEW w \in Ids, ProcessEnds(w) PROVE FleetIInv'
    <2>1. FleetTypeInv' /\ NumbersUnused'
        BY <1>3 DEF ProcessEnds, FleetIInv, OwnersKnown, FleetTypeInv, NumbersUnused
    <2>2. Alive' \subseteq Alive /\ Registered' = Registered
        BY <1>3 DEF ProcessEnds, Alive, Registered, FleetIInv, OwnersKnown, FleetTypeInv
    <2>3. OneOwnerPerDevice' /\ NoLostOwner'
        BY <1>3, <2>2 DEF ProcessEnds, FleetIInv, OwnersKnown, OneOwnerPerDevice, NoLostOwner
    <2>4. LostWorkerBlocks'
        BY <1>3, <2>2, OldRegistered DEF ProcessEnds, FleetIInv, OwnersKnown, FleetTypeInv,
           LostWorkerBlocks, MayConfigure
    <2>5. QED
        BY <2>1, <2>3, <2>4 DEF FleetIInv, OwnersKnown
<1>4. CASE UNCHANGED fleetVars
    BY <1>4 DEF fleetVars, FleetIInv, OwnersKnown, FleetTypeInv, OneOwnerPerDevice, NoLostOwner,
       LostWorkerBlocks, MayConfigure, NumbersUnused, Alive, Registered
<1>5. QED
    BY <1>1, <1>2, <1>3, <1>4 DEF FleetNext

-----------------------------------------------------------------------------
(* The mount *)

\* Generations are used in order.
LaterAreNew == \A g \in Generations : g > service.generation => home[g].pc = "none"
\* A thread looks at the mount after it has sent it home.
SeenAfterGo == \A g \in Generations : home[g].pc \in {"none", "begin", "find", "place"} => ~home[g].seen
\* Nothing homes once a STOP is under way.
StopEndsHoming == stopped \/ serving = "stop" => ~service.homing
\* A mount that moves after its STOP is moved by a home that has still to find its end.
MoverStops ==
    stopped /\ kind # "direct" /\ mount.motion # "still" =>
        \E g \in Generations : home[g].pc \in {"check", "abort"}
\* Who has the serial port follows from where the synchronisation is.
PortInOrder ==
    /\ link.direct <=> serving = "sync_set"
    /\ serving \in {"sync_open", "sync_set"} => ~link.driver
    /\ serving \in {"idle", "stop"} /\ service.connected => link.driver
\* A mount over INDI whose home is under way is connected until something fails.
HomesConnected ==
    kind \in {"home", "eqmod"} /\ faults = 0 =>
        /\ serving \in {"idle", "stop"}
        /\ (\A g \in Generations : home[g].pc = "none") \/ service.connected
\* A home that has found its end
Arrived(g) ==
    home[g].pc = "reached" \/ (home[g].pc \in {"check", "look"} /\ home[g].seen /\ ~mount.shown)
\* A home that will be ended
Older(g) == \E k \in Generations : k # g /\ home[k].pc \in {"check", "abort"}
\* TELESCOPE_HOME that was seen and is not shown any more means rest, but for an older home that
\* will be ended.
OlderMoves ==
    kind = "home" /\ faults = 0 /\ service.homing /\ mount.motion = "home" =>
        \A g \in Generations : g = service.generation /\ Arrived(g) => Older(g)
\* EQMod is sent to its place unless it is there, and a home that ends well has found it there.
EqmodAtPlace ==
    kind = "eqmod" =>
        /\ mount.motion = "home" => ~mount.place
        /\ \A g \in Generations :
               service.homing /\ g = service.generation /\ home[g].pc \in {"unpark", "reached"}
               => mount.place
\* The flag is kept through a synchronisation.
TrackingKept ==
    kind \in {"home", "home_init"} /\ faults = 0
        /\ (service.connected \/ serving \in {"sync_off", "sync_open", "sync_set", "sync_on"})
        => service.tracking = mount.tracking
\* Only EQMod looks for its place and unparks, only the direct plugin looks for a stopped mount.
KindsKnown ==
    \A g \in Generations :
        /\ home[g].pc \in {"place", "unpark"} => kind = "eqmod"
        /\ home[g].pc \in {"find", "last"} => kind = "direct"
MotionIInv ==
    /\ MotionTypeInv /\ HomingIsNewest /\ LaterAreNew /\ SeenAfterGo /\ StopEndsHoming /\ MoverStops
    /\ PortInOrder /\ HomesConnected /\ OlderMoves /\ EqmodAtPlace /\ TrackingKept /\ KindsKnown

Places == {"none", "begin", "place", "find", "check", "look", "last", "abort", "unpark", "reached",
           "finish"}
Homes == [pc : Places, seen : BOOLEAN]
Services == [connected : BOOLEAN, moving : BOOLEAN, homing : BOOLEAN,
             generation : 0 .. MaxHomes, tracking : BOOLEAN]
Mounts == [motion : {"still", "slew", "home"}, place : BOOLEAN, parked : BOOLEAN,
           tracking : BOOLEAN, shown : BOOLEAN]
Links == [driver : BOOLEAN, direct : BOOLEAN]
LEMMA MotionTypes ==
    MotionTypeInv <=>
        /\ kind \in Kinds /\ stopped \in BOOLEAN /\ faults \in 0 .. MaxFaults
        /\ service \in Services /\ home \in [Generations -> Homes] /\ mount \in Mounts /\ link \in Links
        /\ serving \in {"idle", "stop", "sync_off", "sync_open", "sync_set", "sync_on"}
BY DEF MotionTypeInv, Services, Homes, Mounts, Links, Places

\* The invariant gives the promise.
LEMMA MotionIsSafe == MotionIInv => MotionSafe
<1> SUFFICES ASSUME MotionIInv PROVE MotionSafe
    OBVIOUS
<1>1. StopHolds
    BY DEF MotionIInv, StopHolds, MoverStops, HomesAlive, MotionTypeInv
<1>2. OneSerialOwner
    BY DEF MotionIInv, OneSerialOwner, PortInOrder
<1>3. TrackingKnown
    BY DEF MotionIInv, TrackingKnown, TrackingKept
<1>4. HomeEndsQuiet
    <2> SUFFICES ASSUME NEW g \in Generations, home[g].pc = "reached", ~Revoked(g), HomesAlive = {g},
                        faults = 0, kind \in {"home", "eqmod"}, mount.motion = "home"
                 PROVE  FALSE
        BY DEF HomeEndsQuiet
    <2>1. service.homing /\ g = service.generation
        BY DEF Revoked
    <2>2. CASE kind = "home"
        BY <2>1, <2>2 DEF MotionIInv, OlderMoves, Arrived, Older, HomesAlive
    <2>3. CASE kind = "eqmod"
        BY <2>1, <2>3 DEF MotionIInv, EqmodAtPlace
    <2>4. QED
        BY <2>2, <2>3
<1>5. QED
    BY <1>1, <1>2, <1>3, <1>4 DEF MotionSafe, MotionIInv

\* The thread of a home changes its own record only.
LEMMA HomeGoes ==
    ASSUME MotionTypeInv, NEW g \in Generations, NEW pc \in Places, Goes(g, pc)
    PROVE  /\ home' \in [Generations -> Homes] /\ home'[g].pc = pc /\ home'[g].seen = home[g].seen
           /\ \A k \in Generations \ {g} : home'[k] = home[k]
<1> DEFINE r == [home[g] EXCEPT !.pc = pc]
<1>1. home \in [Generations -> Homes] /\ home' = [home EXCEPT ![g] = r]
    BY MotionTypes DEF Goes
<1>2. r \in Homes /\ r.pc = pc /\ r.seen = home[g].seen
    BY <1>1 DEF Homes
<1> HIDE DEF r
<1>3. QED
    BY <1>1, <1>2

\* What the serving thread does to the generations keeps the homes in order.
LEMMA ServiceFrame ==
    ASSUME MotionIInv, UNCHANGED <<kind, home>>, service' \in Services,
           \/ service'.homing = service.homing /\ service'.generation = service.generation
           \/ ~service'.homing /\ service'.generation = service.generation + 1
    PROVE  HomingIsNewest' /\ LaterAreNew' /\ SeenAfterGo' /\ KindsKnown'
<1>1. MotionTypeInv /\ service \in Services /\ Generations = 1 .. MaxHomes
    BY MotionTypes DEF MotionIInv, Generations
<1>2. HomingIsNewest'
    BY <1>1 DEF MotionIInv, HomingIsNewest, LaterAreNew, HomesAlive, Services
<1>3. LaterAreNew'
    BY <1>1 DEF MotionIInv, LaterAreNew, Services
<1>4. SeenAfterGo' /\ KindsKnown'
    BY DEF MotionIInv, SeenAfterGo, KindsKnown
<1>5. QED
    BY <1>2, <1>3, <1>4

\* A fault is counted.
LEMMA FaultTyped ==
    MotionTypeInv /\ (Fault \/ Fine) => faults' \in 0 .. MaxFaults /\ (faults' = 0 => faults = 0)
BY MotionAssumption DEF MotionTypeInv, Fault, Fine

\* The mount arrives, and the driver shows what it does.
LEMMA MountMoves == ASSUME MotionIInv, Arrives \/ Shows PROVE MotionIInv'
<1>1. MotionTypeInv /\ service \in Services /\ mount \in Mounts
      /\ UNCHANGED <<kind, service, serving, home, link, stopped, faults>>
    BY MotionTypes DEF MotionIInv, Arrives, Shows
<1>2. mount' \in Mounts
    BY <1>1 DEF Arrives, Shows, Mounts
<1>3. MotionTypeInv'
    BY <1>1, <1>2, MotionTypes DEF MotionTypeInv, Mounts
<1>4. HomingIsNewest' /\ LaterAreNew' /\ SeenAfterGo' /\ KindsKnown'
    BY <1>1, ServiceFrame
<1>5. StopEndsHoming' /\ PortInOrder' /\ HomesConnected'
    BY <1>1 DEF MotionIInv, StopEndsHoming, PortInOrder, HomesConnected
<1>6. MoverStops'
    BY <1>1 DEF MotionIInv, Mounts, MoverStops, Arrives, Shows
<1>7. OlderMoves'
    BY <1>1 DEF MotionIInv, Mounts, OlderMoves, Arrived, Older, Arrives, Shows
<1>8. EqmodAtPlace'
    <2>1. CASE Arrives
        BY <1>1, <2>1 DEF Mounts, Arrives, EqmodAtPlace
    <2>2. CASE Shows
        BY <1>1, <2>2 DEF Mounts, Shows, MotionIInv, EqmodAtPlace
    <2>3. QED
        BY <2>1, <2>2
<1>9. TrackingKept'
    BY <1>1 DEF MotionIInv, Mounts, TrackingKept, Arrives, Shows
<1>10. QED
    BY <1>3, <1>4, <1>5, <1>6, <1>7, <1>8, <1>9 DEF MotionIInv

\* Connecting, and losing the connection.
LEMMA ConnectionSteps == ASSUME MotionIInv, Connect \/ Close \/ RepairFails PROVE MotionIInv'
<1>1. MotionTypeInv /\ service \in Services /\ mount \in Mounts /\ link \in Links
      /\ UNCHANGED <<kind, serving, home, mount, stopped>>
    BY MotionTypes DEF MotionIInv, Connect, Close, RepairFails
<1>2. service' \in Services /\ service'.homing = service.homing
      /\ service'.generation = service.generation
    <2>1. CASE Connect
        BY <1>1, <2>1 DEF Connect, Services, Mounts
    <2>2. CASE Close \/ RepairFails
        BY <1>1, <2>2 DEF Close, RepairFails, Services
    <2>3. QED
        BY <2>1, <2>2
<1>3. link' \in Links
    BY <1>1 DEF Connect, Close, RepairFails, Links
<1>4. faults' \in 0 .. MaxFaults /\ (faults' = 0 => faults = 0)
    BY <1>1, FaultTyped DEF Connect, Close, RepairFails
<1>5. MotionTypeInv'
    BY <1>1, <1>2, <1>3, <1>4, MotionTypes DEF MotionTypeInv, Services, Links
<1>6. HomingIsNewest' /\ LaterAreNew' /\ SeenAfterGo' /\ KindsKnown'
    BY <1>1, <1>2, ServiceFrame
<1>7. StopEndsHoming' /\ MoverStops' /\ EqmodAtPlace'
    BY <1>1, <1>2 DEF MotionIInv, StopEndsHoming, MoverStops, EqmodAtPlace
<1>8. PortInOrder'
    BY <1>1 DEF MotionIInv, PortInOrder, Connect, Close, RepairFails, Services, Links
<1>9. HomesConnected'
    BY <1>1, <1>4, MotionAssumption
    DEF MotionIInv, MotionTypeInv, HomesConnected, Connect, Close, RepairFails, Fault, Services
<1>10. OlderMoves'
    BY <1>1, <1>2, <1>4 DEF MotionIInv, OlderMoves, Arrived, Older
<1>11. TrackingKept'
    BY <1>1, <1>4
    DEF MotionIInv, MotionTypeInv, TrackingKept, Connect, Close, RepairFails, Fault, Services
<1>12. QED
    BY <1>5, <1>6, <1>7, <1>8, <1>9, <1>10, <1>11 DEF MotionIInv

\* Slewing, and tracking.
LEMMA SlewAndTrack ==
    ASSUME MotionIInv, StartSlew \/ HomeStartFails \/ \E on \in BOOLEAN : Track(on)
    PROVE  MotionIInv'
<1>1. MotionTypeInv /\ service \in Services /\ mount \in Mounts
      /\ UNCHANGED <<kind, serving, home, link>> /\ serving = "idle" /\ service.connected
    BY MotionTypes DEF MotionIInv, StartSlew, HomeStartFails, Track
<1>2. service' \in Services /\ service'.homing = service.homing /\ service'.connected
      /\ service'.generation = service.generation
    BY <1>1 DEF StartSlew, HomeStartFails, Track, Services
<1>3. mount' \in Mounts /\ mount'.shown = mount.shown
    BY <1>1 DEF StartSlew, HomeStartFails, Track, Reaches, Lost, Slewing, Mounts
<1>4. faults' \in 0 .. MaxFaults /\ (faults' = 0 => faults = 0)
    BY <1>1, FaultTyped DEF StartSlew, HomeStartFails, Track, Reaches, Lost, Fine
<1>5. MotionTypeInv'
    <2>1. stopped' \in BOOLEAN
        BY <1>1 DEF StartSlew, HomeStartFails, Track, MotionTypeInv
    <2>2. QED
        BY <1>1, <1>2, <1>3, <1>4, <2>1 DEF MotionTypeInv, Services, Mounts
<1>6. HomingIsNewest' /\ LaterAreNew' /\ SeenAfterGo' /\ KindsKnown'
    BY <1>1, <1>2, ServiceFrame
<1>7. PortInOrder' /\ HomesConnected'
    BY <1>1, <1>2, <1>4 DEF MotionIInv, PortInOrder, HomesConnected
<1>8. CASE StartSlew \/ HomeStartFails
    <2>1. ~stopped' /\ serving' = "idle" /\ mount'.tracking = mount.tracking
          /\ service'.tracking = service.tracking
        BY <1>1, <1>8 DEF StartSlew, HomeStartFails, Reaches, Lost, Slewing, Services, Mounts
    <2>2. \/ mount' = mount
          \/ mount'.motion = "slew" /\ ~service.homing
        BY <1>1, <1>8 DEF StartSlew, HomeStartFails, Reaches, Lost, Slewing, Mounts
    <2>3. StopEndsHoming' /\ MoverStops'
        BY <2>1 DEF StopEndsHoming, MoverStops
    <2>4. OlderMoves'
        BY <1>1, <1>2, <1>4, <2>2 DEF MotionIInv, OlderMoves, Arrived, Older
    <2>5. EqmodAtPlace'
        BY <1>1, <1>2, <2>2 DEF MotionIInv, EqmodAtPlace
    <2>6. TrackingKept'
        BY <1>1, <1>2, <1>4, <2>1 DEF MotionIInv, TrackingKept
    <2>7. QED
        BY <1>5, <1>6, <1>7, <2>3, <2>4, <2>5, <2>6 DEF MotionIInv
<1>9. ASSUME NEW on \in BOOLEAN, Track(on) PROVE MotionIInv'
    <2>1. mount'.motion = mount.motion /\ mount'.place = mount.place /\ UNCHANGED stopped
        BY <1>1, <1>9 DEF Track, Reaches, Lost, Mounts
    <2>2. StopEndsHoming' /\ MoverStops' /\ EqmodAtPlace'
        BY <1>1, <1>2, <2>1 DEF MotionIInv, StopEndsHoming, MoverStops, EqmodAtPlace
    <2>3. OlderMoves'
        BY <1>1, <1>2, <1>3, <1>4, <2>1 DEF MotionIInv, OlderMoves, Arrived, Older
    <2>4. faults' = 0 => \/ UNCHANGED <<mount, service>>
                         \/ mount'.tracking = on /\ service'.tracking = on
        BY <1>1, <1>9, MotionAssumption DEF Track, Reaches, Lost, Fault, Services, Mounts, MotionTypeInv
    <2>5. TrackingKept'
        BY <1>1, <1>2, <1>4, <2>4 DEF MotionIInv, TrackingKept
    <2>6. QED
        BY <1>5, <1>6, <1>7, <2>2, <2>3, <2>5 DEF MotionIInv
<1>10. QED
    BY <1>8, <1>9

\* The STOPs: the flags first, the mount after them.
LEMMA StopSteps == ASSUME MotionIInv, Stop \/ StopWrite \/ EmergencyStop PROVE MotionIInv'
<1>1. MotionTypeInv /\ service \in Services /\ mount \in Mounts /\ UNCHANGED <<kind, home, link>>
      /\ MaxHomes \in Nat
    BY MotionTypes, MotionAssumption DEF MotionIInv, Stop, StopWrite, EmergencyStop
<1>2. service' \in Services
    <2>1. CASE Stop \/ EmergencyStop
        <3>1. service.generation + 1 \in 0 .. MaxHomes
            BY <1>1, <2>1 DEF Stop, EmergencyStop, NextGeneration, Services
        <3>2. Cancelled \in Services
            BY <1>1, <3>1 DEF Cancelled, Services
        <3>3. QED
            BY <2>1, <3>2 DEF Stop, EmergencyStop
    <2>2. CASE StopWrite
        BY <1>1, <2>2 DEF StopWrite
    <2>3. QED
        BY <2>1, <2>2
<1>3. service'.connected = service.connected /\ service'.tracking = service.tracking
      /\ \/ service'.homing = service.homing /\ service'.generation = service.generation
         \/ ~service'.homing /\ service'.generation = service.generation + 1
    BY <1>1 DEF Stop, StopWrite, EmergencyStop, Cancelled, Services
<1>4. mount' \in Mounts /\ mount'.tracking = mount.tracking /\ mount'.place = mount.place
      /\ mount'.shown = mount.shown /\ mount'.motion \in {mount.motion, "still"}
    BY <1>1 DEF Stop, StopWrite, EmergencyStop, Reaches, Lost, Halted, Mounts
<1>5. faults' \in 0 .. MaxFaults /\ (faults' = 0 => faults = 0)
    BY <1>1, FaultTyped DEF Stop, StopWrite, EmergencyStop, Reaches, Lost, Fine
<1>6. MotionTypeInv'
    <2>1. stopped' \in BOOLEAN /\ serving' \in {"idle", "stop"}
        BY <1>1 DEF Stop, StopWrite, EmergencyStop, MotionTypeInv
    <2>2. QED
        BY <1>1, <1>2, <1>4, <1>5, <2>1 DEF MotionTypeInv, Services, Mounts
<1>7. HomingIsNewest' /\ LaterAreNew' /\ SeenAfterGo' /\ KindsKnown'
    BY <1>1, <1>2, <1>3, ServiceFrame
<1>8. StopEndsHoming'
    BY <1>1 DEF MotionIInv, StopEndsHoming, Stop, StopWrite, EmergencyStop, Cancelled, Services
<1>9. MoverStops'
    <2>1. mount'.motion = "still" \/ stopped' = stopped
        BY <1>1 DEF Stop, StopWrite, EmergencyStop, Reaches, Halted, Mounts
    <2>2. QED
        BY <1>1, <1>4, <2>1 DEF MotionIInv, MoverStops
<1>10. PortInOrder' /\ HomesConnected'
    BY <1>1, <1>3, <1>5 DEF MotionIInv, PortInOrder, HomesConnected, Stop, StopWrite, EmergencyStop
<1>11. OlderMoves'
    BY <1>1, <1>3, <1>4, <1>5 DEF MotionIInv, OlderMoves, Arrived, Older
<1>12. EqmodAtPlace'
    BY <1>1, <1>3, <1>4 DEF MotionIInv, EqmodAtPlace
<1>13. TrackingKept'
    BY <1>1, <1>3, <1>4, <1>5 DEF MotionIInv, TrackingKept, Stop, StopWrite, EmergencyStop
<1>14. QED
    BY <1>6, <1>7, <1>8, <1>9, <1>10, <1>11, <1>12, <1>13 DEF MotionIInv

\* The synchronisation gives the port away and takes it back.
LEMMA SyncSteps ==
    ASSUME MotionIInv, SyncBegin \/ SyncDisconnect \/ SyncOpen \/ SyncSet \/ SyncReconnect
    PROVE  MotionIInv'
<1>1. MotionTypeInv /\ service \in Services /\ link \in Links
      /\ UNCHANGED <<kind, home, mount, stopped>>
    BY MotionTypes DEF MotionIInv, SyncBegin, SyncDisconnect, SyncOpen, SyncSet, SyncReconnect
<1>2. service' \in Services /\ service'.homing = service.homing
      /\ service'.generation = service.generation /\ service'.tracking = service.tracking
    BY <1>1 DEF SyncBegin, SyncDisconnect, SyncOpen, SyncSet, SyncReconnect, Services
<1>3. link' \in Links
    BY <1>1 DEF SyncBegin, SyncDisconnect, SyncOpen, SyncSet, SyncReconnect, Links
<1>4. faults' \in 0 .. MaxFaults /\ (faults' = 0 => faults = 0)
    BY <1>1, FaultTyped DEF SyncBegin, SyncDisconnect, SyncOpen, SyncSet, SyncReconnect, Fine
<1>5. MotionTypeInv'
    <2>1. serving' \in {"idle", "sync_off", "sync_open", "sync_set", "sync_on"}
        BY DEF SyncBegin, SyncDisconnect, SyncOpen, SyncSet, SyncReconnect
    <2>2. QED
        BY <1>1, <1>2, <1>3, <1>4, <2>1 DEF MotionTypeInv, Services, Links
<1>6. HomingIsNewest' /\ LaterAreNew' /\ SeenAfterGo' /\ KindsKnown'
    BY <1>1, <1>2, ServiceFrame
<1>7. StopEndsHoming' /\ MoverStops' /\ EqmodAtPlace'
    BY <1>1, <1>2
    DEF MotionIInv, StopEndsHoming, MoverStops, EqmodAtPlace, SyncBegin, SyncDisconnect, SyncOpen,
        SyncSet, SyncReconnect
<1>8. PortInOrder'
    BY <1>1
    DEF MotionIInv, PortInOrder, SyncBegin, SyncDisconnect, SyncOpen, SyncSet, SyncReconnect,
        Services, Links
<1>9. HomesConnected'
    BY <1>1, <1>4
    DEF MotionIInv, HomesConnected, SyncBegin, SyncDisconnect, SyncOpen, SyncSet, SyncReconnect
<1>10. OlderMoves'
    BY <1>1, <1>2, <1>4 DEF MotionIInv, OlderMoves, Arrived, Older
<1>11. TrackingKept'
    BY <1>1, <1>2, <1>4
    DEF MotionIInv, TrackingKept, SyncBegin, SyncDisconnect, SyncOpen, SyncSet, SyncReconnect
<1>12. QED
    BY <1>5, <1>6, <1>7, <1>8, <1>9, <1>10, <1>11 DEF MotionIInv

\* A new home starts as the newest.
LEMMA HomeStarts == ASSUME MotionIInv, HomeStart PROVE MotionIInv'
<1>1. PICK n \in Generations : n = service.generation + 1
    BY MotionTypes, MotionAssumption
    DEF MotionIInv, HomeStart, NextGeneration, Generations, Services
<1>2. MotionTypeInv /\ service \in Services /\ mount \in Mounts /\ home \in [Generations -> Homes]
      /\ UNCHANGED <<kind, serving, link>> /\ serving = "idle" /\ service.connected /\ stopped' = FALSE
    BY MotionTypes DEF MotionIInv, HomeStart
<1>3. service' \in Services /\ service'.homing /\ service'.generation = n /\ service'.connected
      /\ service'.tracking = service.tracking
    <2>1. service' = [service EXCEPT !.moving = FALSE, !.homing = TRUE, !.generation = n]
        BY <1>1 DEF HomeStart
    <2>2. n \in 0 .. MaxHomes
        BY MotionAssumption DEF Generations
    <2>3. QED
        BY <1>2, <2>1, <2>2 DEF Services
<1>4. mount' \in Mounts /\ mount'.tracking = mount.tracking /\ mount'.place = mount.place
      /\ mount'.motion \in {mount.motion, "still"}
    BY <1>2 DEF HomeStart, Reaches, Halted, Mounts
<1>5. faults' \in 0 .. MaxFaults /\ (faults' = 0 => faults = 0)
    BY <1>2, FaultTyped DEF HomeStart, Reaches, Fine
<1>6. home[n].pc = "none" /\ ~home[n].seen
    BY <1>1, <1>2 DEF MotionIInv, LaterAreNew, SeenAfterGo, Services, Generations
<1>7. Goes(n, "begin")
    BY <1>1 DEF HomeStart, Goes
<1>8. /\ home' \in [Generations -> Homes] /\ home'[n].pc = "begin" /\ home'[n].seen = home[n].seen
      /\ \A k \in Generations \ {n} : home'[k] = home[k]
    BY <1>2, <1>7, HomeGoes DEF Places
<1>9. MotionTypeInv'
    BY <1>2, <1>3, <1>4, <1>5, <1>8 DEF MotionTypeInv, Services, Mounts, Homes, Places
<1>10. HomingIsNewest' /\ StopEndsHoming' /\ MoverStops'
    BY <1>2, <1>3, <1>8 DEF HomingIsNewest, HomesAlive, StopEndsHoming, MoverStops
<1>11. LaterAreNew'
    BY <1>1, <1>2, <1>3, <1>8 DEF MotionIInv, LaterAreNew, Services, Generations
<1>12. SeenAfterGo' /\ KindsKnown'
    BY <1>2, <1>6, <1>8 DEF MotionIInv, SeenAfterGo, KindsKnown
<1>13. PortInOrder' /\ HomesConnected'
    BY <1>2, <1>3 DEF MotionIInv, PortInOrder, HomesConnected
<1>14. OlderMoves' /\ EqmodAtPlace'
    BY <1>2, <1>3, <1>4, <1>6, <1>8 DEF MotionIInv, OlderMoves, Arrived, EqmodAtPlace
<1>15. TrackingKept'
    BY <1>2, <1>3, <1>4, <1>5 DEF MotionIInv, TrackingKept
<1>16. QED
    BY <1>9, <1>10, <1>11, <1>12, <1>13, <1>14, <1>15 DEF MotionIInv

\* What the steps of a home thread have in common
ThreadStep(g, pc) ==
    /\ home[g].pc # "none" /\ pc \in Places \ {"none"} /\ UNCHANGED <<kind, service, serving, link>>
    /\ home' \in [Generations -> Homes] /\ home'[g].pc = pc
    /\ \A k \in Generations \ {g} : home'[k] = home[k]
    /\ pc \in {"begin", "place", "find"} => ~home'[g].seen
    /\ pc \in {"place", "unpark"} => kind = "eqmod"
    /\ pc \in {"find", "last"} => kind = "direct"
    /\ mount' \in Mounts /\ (kind \in {"home", "home_init"} => mount'.tracking = mount.tracking)
    /\ faults' \in 0 .. MaxFaults /\ (faults' = 0 => faults = 0)
    /\ stopped' \in BOOLEAN /\ (stopped' => stopped)

\* It leaves what is said of the service and of the port alone.
LEMMA ThreadFrame ==
    ASSUME MotionIInv, NEW g \in Generations, NEW pc, ThreadStep(g, pc)
    PROVE  /\ MotionTypeInv' /\ HomingIsNewest' /\ LaterAreNew' /\ SeenAfterGo' /\ StopEndsHoming'
           /\ PortInOrder' /\ HomesConnected' /\ TrackingKept' /\ KindsKnown'
<1>1. MotionTypeInv /\ home \in [Generations -> Homes] /\ service \in Services
    BY MotionTypes DEF MotionIInv
<1>2. MotionTypeInv'
    BY <1>1 DEF ThreadStep, MotionTypeInv, Homes, Mounts, Places
<1>3. HomingIsNewest'
    <2>1. \A k \in Generations : home'[k].pc = "none" <=> home[k].pc = "none"
        BY DEF ThreadStep
    <2>2. QED
        BY <2>1 DEF ThreadStep, MotionIInv, HomingIsNewest, HomesAlive
<1>4. LaterAreNew'
    BY <1>1 DEF ThreadStep, MotionIInv, LaterAreNew
<1>5. SeenAfterGo'
    BY DEF ThreadStep, MotionIInv, SeenAfterGo
<1>6. StopEndsHoming'
    BY DEF ThreadStep, MotionIInv, StopEndsHoming
<1>7. PortInOrder' /\ TrackingKept'
    BY DEF ThreadStep, MotionIInv, PortInOrder, TrackingKept
<1>8. HomesConnected'
    BY DEF ThreadStep, MotionIInv, HomesConnected
<1>9. KindsKnown'
    BY DEF ThreadStep, MotionIInv, KindsKnown
<1>10. QED
    BY <1>2, <1>3, <1>4, <1>5, <1>6, <1>7, <1>8, <1>9

\* A thread that sends the mount nowhere, and did not stand for a motion after a STOP.
LEMMA NewMotionless ==
    ASSUME MotionIInv, NEW g \in Generations, NEW pc, ThreadStep(g, pc),
           home[g].pc \notin {"check", "abort"}, mount'.motion \in {mount.motion, "still"}
    PROVE  MoverStops'
BY DEF ThreadStep, MotionIInv, MoverStops

\* A thread that is sent home stands for the motion until it finds its end.
LEMMA SentHome ==
    ASSUME MotionIInv, NEW g \in Generations, ThreadStep(g, "check"), ~home'[g].seen
    PROVE  MoverStops' /\ OlderMoves'
<1>1. MoverStops'
    BY DEF ThreadStep, MoverStops
<1>2. OlderMoves'
    BY DEF ThreadStep, OlderMoves, Arrived, Older
<1>3. QED
    BY <1>1, <1>2

\* No command is lost as long as nothing failed.
LEMMA NothingLost ==
    ASSUME MotionIInv, NEW g \in Generations, home[g].pc # "none", kind \in {"home", "eqmod"},
           Lost
    PROVE  faults' # 0
<1>1. faults = 0 => link.driver
    BY DEF MotionIInv, HomesConnected, PortInOrder
<1>2. QED
    BY <1>1, MotionAssumption DEF Lost, Fault, Fine, MotionIInv, MotionTypeInv

\* A thread goes on, or a command of it is carried out or lost.
LEMMA CommandTyped ==
    ASSUME MotionIInv, NEW g \in Generations, NEW effect \in Mounts, NEW next \in Places,
           Commands(g, effect, next)
    PROVE  /\ faults' \in 0 .. MaxFaults /\ (faults' = 0 => faults = 0) /\ stopped' \in BOOLEAN
           /\ mount' \in Mounts /\ UNCHANGED <<kind, service, serving, link, stopped>>
           /\ home' \in [Generations -> Homes] /\ home'[g].pc \in {next, "finish"}
           /\ home'[g].seen = home[g].seen /\ \A k \in Generations \ {g} : home'[k] = home[k]
           /\ \/ mount' = effect /\ home'[g].pc = next
              \/ Lost /\ mount' = mount /\ home'[g].pc = "finish"
<1>1. MotionTypeInv /\ mount \in Mounts
    BY MotionTypes DEF MotionIInv
<1>2. faults' \in 0 .. MaxFaults /\ (faults' = 0 => faults = 0)
    BY <1>1, FaultTyped DEF Commands, Reaches, Lost, Fine
<1>3. UNCHANGED <<kind, service, serving, link, stopped>> /\ stopped' \in BOOLEAN
    BY <1>1 DEF Commands, MotionTypeInv
<1>4. CASE Reaches(effect) /\ Goes(g, next)
    BY <1>1, <1>2, <1>3, <1>4, HomeGoes DEF Reaches
<1>5. CASE Lost /\ Goes(g, "finish")
    <2>1. /\ home' \in [Generations -> Homes] /\ home'[g].pc = "finish" /\ home'[g].seen = home[g].seen
          /\ \A k \in Generations \ {g} : home'[k] = home[k]
        BY <1>1, <1>5, HomeGoes DEF Places
    <2>2. QED
        BY <1>1, <1>2, <1>3, <1>5, <2>1 DEF Lost
<1>6. QED
    BY <1>4, <1>5 DEF Commands

\* The mount is sent home, or EQMod and the direct plugin stop it first.
LEMMA BeginStep == ASSUME MotionIInv, NEW g \in Generations, Begin(g) PROVE MotionIInv'
<1>1. mount \in Mounts /\ kind \in {"home", "home_init", "eqmod", "direct"} /\ ~home[g].seen
      /\ home[g].pc = "begin"
    BY MotionTypes, MotionAssumption DEF MotionIInv, SeenAfterGo, Begin
<1>2. CASE kind \in {"home", "home_init"}
    <2>1. Commands(g, GoingHome(mount), "check")
        BY <1>1, <1>2 DEF Begin
    <2>2. GoingHome(mount) \in Mounts /\ GoingHome(mount).tracking = mount.tracking
        BY <1>1 DEF GoingHome, Mounts
    <2>3. PICK pc \in {"check", "finish"} : home'[g].pc = pc
        BY <2>1, <2>2, CommandTyped DEF Places
    <2>4. ThreadStep(g, pc)
        BY <1>1, <2>1, <2>2, <2>3, CommandTyped DEF ThreadStep, Places
    <2>5. EqmodAtPlace'
        BY <1>2, <2>4 DEF ThreadStep, EqmodAtPlace
    <2>6. CASE pc = "check"
        <3>1. ~home'[g].seen
            BY <1>1, <2>1, <2>2, CommandTyped DEF Places
        <3>2. QED
            BY <2>4, <2>5, <2>6, <3>1, SentHome, ThreadFrame DEF MotionIInv
    <2>7. CASE pc = "finish"
        <3>1. Lost /\ mount' = mount
            BY <2>1, <2>2, <2>3, <2>7, CommandTyped DEF Places
        <3>2. MoverStops'
            BY <1>1, <2>4, <3>1, NewMotionless
        <3>3. OlderMoves'
            BY <1>1, <2>4, <3>1, NothingLost DEF OlderMoves, ThreadStep
        <3>4. QED
            BY <2>4, <2>5, <3>2, <3>3, ThreadFrame DEF MotionIInv
    <2>8. QED
        BY <2>3, <2>6, <2>7
<1>3. CASE kind \in {"eqmod", "direct"}
    <2> DEFINE effect == [Halted(mount) EXCEPT !.tracking = FALSE]
    <2>1. PICK next \in {"place", "find"} :
            /\ Commands(g, effect, next)
            /\ next = "place" => kind = "eqmod"
            /\ next = "find" => kind = "direct"
        BY <1>3 DEF Begin
    <2>2. effect \in Mounts /\ effect.motion = "still" /\ effect.place = mount.place
        BY <1>1 DEF Halted, Mounts
    <2> HIDE DEF effect
    <2>3. PICK pc \in {next, "finish"} : home'[g].pc = pc
        BY <2>1, <2>2, CommandTyped DEF Places
    <2>4. /\ mount'.motion \in {mount.motion, "still"} /\ mount'.place = mount.place
          /\ ~home'[g].seen
        BY <1>1, <2>1, <2>2, CommandTyped DEF Places
    <2>5. ThreadStep(g, pc)
        BY <1>1, <1>3, <2>1, <2>2, <2>3, <2>4, CommandTyped DEF ThreadStep, Places
    <2>6. MoverStops'
        BY <1>1, <2>4, <2>5, NewMotionless
    <2>7. OlderMoves'
        BY <1>3, <2>5 DEF OlderMoves, ThreadStep
    <2>8. EqmodAtPlace'
        BY <2>4, <2>5, <2>3, <2>1 DEF ThreadStep, MotionIInv, EqmodAtPlace
    <2>9. QED
        BY <2>5, <2>6, <2>7, <2>8, ThreadFrame DEF MotionIInv
<1>4. QED
    BY <1>1, <1>2, <1>3

\* The direct plugin sends it home after the STOPs, EQMod when it is not there.
LEMMA FindStep == ASSUME MotionIInv, NEW g \in Generations, Find(g) PROVE MotionIInv'
<1>1. mount \in Mounts /\ kind = "direct" /\ ~home[g].seen /\ home[g].pc = "find"
    BY MotionTypes DEF MotionIInv, SeenAfterGo, KindsKnown, Find
<1>2. GoingHome(mount) \in Mounts
    BY <1>1 DEF GoingHome, Mounts
<1>3. PICK pc \in {"check", "finish"} : home'[g].pc = pc
    BY <1>2, CommandTyped DEF Find, Places
<1>4. ThreadStep(g, pc)
    BY <1>1, <1>2, <1>3, CommandTyped DEF Find, ThreadStep, Places
<1>5. MoverStops' /\ OlderMoves' /\ EqmodAtPlace'
    BY <1>1, <1>4 DEF ThreadStep, MoverStops, OlderMoves, EqmodAtPlace
<1>6. QED
    BY <1>4, <1>5, ThreadFrame DEF MotionIInv

\* EQMod is sent to its place, or it is there already.
LEMMA PlaceStep == ASSUME MotionIInv, NEW g \in Generations, Place(g) PROVE MotionIInv'
<1>1. MotionTypeInv /\ mount \in Mounts /\ kind = "eqmod" /\ ~home[g].seen /\ home[g].pc = "place"
    BY MotionTypes DEF MotionIInv, SeenAfterGo, KindsKnown, Place
<1>2. GoingHome(mount) \in Mounts /\ GoingHome(mount).motion = "home"
      /\ GoingHome(mount).place = mount.place
    BY <1>1 DEF GoingHome, Mounts
<1>3. CASE ~mount.place /\ Commands(g, GoingHome(mount), "check")
    <2>1. PICK pc \in {"check", "finish"} : home'[g].pc = pc
        BY <1>2, <1>3, CommandTyped DEF Places
    <2>2. ThreadStep(g, pc)
        BY <1>1, <1>2, <1>3, <2>1, CommandTyped DEF ThreadStep, Places
    <2>3. ~mount'.place /\ (pc = "finish" => mount' = mount)
        BY <1>2, <1>3, <2>1, CommandTyped DEF Places
    <2>4. EqmodAtPlace'
        BY <1>1, <1>3, <2>1, <2>2, <2>3 DEF ThreadStep, MotionIInv, EqmodAtPlace
    <2>5. MoverStops'
        <3>1. CASE pc = "check"
            BY <2>1, <3>1 DEF MoverStops
        <3>2. CASE pc = "finish"
            BY <1>1, <2>2, <2>3, <3>2, NewMotionless
        <3>3. QED
            BY <3>1, <3>2
    <2>6. OlderMoves'
        BY <1>1, <2>2 DEF ThreadStep, OlderMoves
    <2>7. QED
        BY <2>2, <2>4, <2>5, <2>6, ThreadFrame DEF MotionIInv
<1>4. CASE \/ mount.place /\ Looks(g, "unpark")
           \/ Fault /\ Goes(g, "finish") /\ UNCHANGED <<kind, service, serving, mount, link, stopped>>
    <2>1. PICK pc \in {"unpark", "finish"} :
            Goes(g, pc) /\ UNCHANGED <<kind, service, serving, mount, link, stopped>>
            /\ (Fault \/ Fine) /\ (pc = "unpark" => mount.place)
        BY <1>4 DEF Looks, Fine
    <2>2. /\ home' \in [Generations -> Homes] /\ home'[g].pc = pc /\ home'[g].seen = home[g].seen
          /\ \A k \in Generations \ {g} : home'[k] = home[k]
        BY <1>1, <2>1, HomeGoes DEF Places
    <2>3. faults' \in 0 .. MaxFaults /\ (faults' = 0 => faults = 0)
        BY <1>1, <2>1, FaultTyped
    <2>4. ThreadStep(g, pc)
        BY <1>1, <2>1, <2>2, <2>3 DEF ThreadStep, Places, MotionTypeInv
    <2>5. MoverStops'
        BY <1>1, <2>1, <2>4, NewMotionless
    <2>6. OlderMoves'
        BY <1>1, <2>4 DEF ThreadStep, OlderMoves
    <2>7. EqmodAtPlace'
        BY <2>1, <2>2 DEF MotionIInv, EqmodAtPlace
    <2>8. QED
        BY <2>4, <2>5, <2>6, <2>7, ThreadFrame DEF MotionIInv
<1>5. QED
    BY <1>3, <1>4 DEF Place

\* A revoked home goes on to its end.
LEMMA CheckStep == ASSUME MotionIInv, NEW g \in Generations, Check(g) PROVE MotionIInv'
<1> DEFINE pc == IF ~Revoked(g) THEN "look" ELSE IF kind = "direct" THEN "finish" ELSE "abort"
<1>1. MotionTypeInv /\ mount \in Mounts /\ home[g].pc = "check" /\ Goes(g, pc)
      /\ UNCHANGED <<kind, service, serving, mount, link, stopped, faults>>
    BY MotionTypes DEF MotionIInv, Check, Looks
<1>2. /\ home' \in [Generations -> Homes] /\ home'[g].pc = pc /\ home'[g].seen = home[g].seen
      /\ \A k \in Generations \ {g} : home'[k] = home[k]
    BY <1>1, HomeGoes DEF Places
<1>3. ThreadStep(g, pc)
    BY <1>1, <1>2 DEF ThreadStep, Places, MotionTypeInv
<1>4. MoverStops'
    <2> SUFFICES ASSUME stopped, kind # "direct", mount.motion # "still"
                 PROVE  \E k \in Generations : home'[k].pc \in {"check", "abort"}
        BY <1>1 DEF MoverStops
    <2>1. Revoked(g)
        BY DEF MotionIInv, StopEndsHoming, Revoked
    <2>2. QED
        BY <1>2, <2>1
<1>5. OlderMoves'
    <2> SUFFICES ASSUME kind = "home", faults = 0, service.homing, mount.motion = "home",
                        NEW k \in Generations, k = service.generation, Arrived(k)'
                 PROVE  Older(k)'
        BY <1>1 DEF OlderMoves
    <2>1. CASE k = g
        <3>1. pc = "look" /\ Arrived(g)
            BY <1>1, <1>2, <2>1 DEF Arrived, Revoked
        <3>2. Older(g)
            BY <2>1, <3>1 DEF MotionIInv, OlderMoves
        <3>3. QED
            BY <1>2, <2>1, <3>2 DEF Older
    <2>2. CASE k # g
        BY <1>2, <2>2 DEF Revoked, Older
    <2>3. QED
        BY <2>1, <2>2
<1>6. EqmodAtPlace'
    BY <1>1, <1>2 DEF MotionIInv, EqmodAtPlace
<1>7. QED
    BY <1>3, <1>4, <1>5, <1>6, ThreadFrame DEF MotionIInv

\* A poll changes its thread's own record only.
LEMMA HomeLooks ==
    ASSUME MotionTypeInv, NEW g \in Generations, NEW pc \in Places, NEW seen \in BOOLEAN,
           home' = [home EXCEPT ![g].seen = seen, ![g].pc = pc]
    PROVE  /\ home' \in [Generations -> Homes] /\ home'[g].pc = pc /\ home'[g].seen = seen
           /\ \A k \in Generations \ {g} : home'[k] = home[k]
<1> DEFINE r == [home[g] EXCEPT !.seen = seen, !.pc = pc]
<1>1. home \in [Generations -> Homes] /\ home' = [home EXCEPT ![g] = r]
    BY MotionTypes
<1>2. r \in Homes /\ r.pc = pc /\ r.seen = seen
    BY <1>1 DEF Homes
<1> HIDE DEF r
<1>3. QED
    BY <1>1, <1>2

\* A poll finds the end of the home, or not yet, or fails.
LEMMA LookStep == ASSUME MotionIInv, NEW g \in Generations, Look(g) PROVE MotionIInv'
<1>1. MotionTypeInv /\ mount \in Mounts /\ home[g] \in Homes /\ home[g].pc = "look"
      /\ UNCHANGED <<kind, service, serving, mount, link, stopped>>
    BY MotionTypes DEF MotionIInv, Look
<1>2. Seen(g) \in BOOLEAN /\ kind \in {"home", "home_init", "eqmod", "direct"}
    BY <1>1, MotionAssumption DEF Seen, Homes, Mounts, MotionTypeInv
<1> DEFINE found == IF ~AtHome(g) THEN "check" ELSE IF kind = "eqmod" THEN "unpark"
                    ELSE IF kind = "direct" THEN "last" ELSE "reached"
<1>3. CASE home' = [home EXCEPT ![g].seen = Seen(g), ![g].pc = found] /\ Fine
    <2>1. PICK pc \in Places, seen \in BOOLEAN : pc = found /\ seen = Seen(g)
        BY <1>2 DEF Places
    <2>8. home' = [home EXCEPT ![g].seen = seen, ![g].pc = pc]
        BY <1>3, <2>1
    <2>9. /\ home' \in [Generations -> Homes] /\ home'[g].pc = pc /\ home'[g].seen = seen
          /\ \A k \in Generations \ {g} : home'[k] = home[k]
        BY <1>1, <2>8, HomeLooks
    <2>2. /\ home' \in [Generations -> Homes] /\ home'[g].pc = found /\ home'[g].seen = Seen(g)
          /\ \A k \in Generations \ {g} : home'[k] = home[k]
        BY <2>1, <2>9
    <2>3. ThreadStep(g, found)
        BY <1>1, <1>3, <2>1, <2>2 DEF ThreadStep, Fine, MotionTypeInv
    <2>4. MoverStops'
        BY <1>1, <2>3, NewMotionless
    <2>5. OlderMoves'
        <3> SUFFICES ASSUME kind = "home", faults = 0, service.homing, mount.motion = "home",
                            NEW k \in Generations, k = service.generation, Arrived(k)'
                     PROVE  Older(k)'
            BY <1>1, <1>3 DEF OlderMoves, Fine
        <3>1. Arrived(k)
            <4>1. CASE k = g
                <5>1. AtHome(g) <=> Seen(g) /\ ~mount.shown
                    BY DEF AtHome
                <5>2. AtHome(g)
                    BY <1>1, <2>2, <4>1, <5>1 DEF Arrived
                <5>3. QED
                    BY <1>1, <4>1, <5>1, <5>2 DEF Seen, Arrived
            <4>2. CASE k # g
                BY <1>1, <2>2, <4>2 DEF Arrived
            <4>3. QED
                BY <4>1, <4>2
        <3>2. Older(k)
            BY <3>1 DEF MotionIInv, OlderMoves
        <3>3. QED
            BY <1>1, <2>2, <3>2 DEF Older
    <2>6. EqmodAtPlace'
        <3>1. kind = "eqmod" /\ AtHome(g) => mount.place
            BY DEF AtHome
        <3>2. QED
            BY <1>1, <2>2, <3>1 DEF MotionIInv, EqmodAtPlace
    <2>7. QED
        BY <2>3, <2>4, <2>5, <2>6, ThreadFrame DEF MotionIInv
<1>4. ASSUME NEW pc \in {"finish", "abort"}, Goes(g, pc), Fault PROVE MotionIInv'
    <2>1. /\ home' \in [Generations -> Homes] /\ home'[g].pc = pc
          /\ \A k \in Generations \ {g} : home'[k] = home[k]
        BY <1>1, <1>4, HomeGoes DEF Places
    <2>2. faults' \in 0 .. MaxFaults /\ (faults' = 0 => faults = 0) /\ faults' # 0
        BY <1>1, <1>4, FaultTyped, MotionAssumption DEF Fault, MotionTypeInv
    <2>3. ThreadStep(g, pc)
        BY <1>1, <2>1, <2>2 DEF ThreadStep, Places, MotionTypeInv
    <2>4. MoverStops'
        BY <1>1, <2>3, NewMotionless
    <2>5. OlderMoves'
        BY <2>2 DEF OlderMoves
    <2>6. EqmodAtPlace'
        BY <1>1, <2>1 DEF MotionIInv, EqmodAtPlace
    <2>7. QED
        BY <2>3, <2>4, <2>5, <2>6, ThreadFrame DEF MotionIInv
<1>5. QED
    BY <1>2, <1>3, <1>4 DEF Look

\* The direct plugin stops a mount that is at home.
LEMMA LastStep == ASSUME MotionIInv, NEW g \in Generations, Last(g) PROVE MotionIInv'
<1>1. MotionTypeInv /\ mount \in Mounts /\ kind = "direct" /\ home[g].pc = "last"
    BY MotionTypes DEF MotionIInv, KindsKnown, Last
<1>2. PICK pc \in {"finish", "reached"} : ThreadStep(g, pc)
    <2>1. CASE Revoked(g)
        <3>1. Looks(g, "finish")
            BY <2>1 DEF Last
        <3>2. /\ home' \in [Generations -> Homes] /\ home'[g].pc = "finish"
              /\ \A k \in Generations \ {g} : home'[k] = home[k]
            BY <1>1, <3>1, HomeGoes DEF Places, Looks
        <3>3. ThreadStep(g, "finish")
            BY <1>1, <3>1, <3>2 DEF ThreadStep, Looks, Places, MotionTypeInv
        <3>4. QED
            BY <3>3
    <2>2. CASE ~Revoked(g)
        <3>1. Commands(g, Halted(mount), "reached")
            BY <2>2 DEF Last
        <3>2. Halted(mount) \in Mounts
            BY <1>1 DEF Halted, Mounts
        <3>3. PICK pc \in {"finish", "reached"} : home'[g].pc = pc
            BY <3>1, <3>2, CommandTyped DEF Places
        <3>4. ThreadStep(g, pc)
            BY <1>1, <3>1, <3>2, <3>3, CommandTyped DEF ThreadStep, Places
        <3>5. QED
            BY <3>4
    <2>3. QED
        BY <2>1, <2>2
<1>3. MoverStops' /\ OlderMoves' /\ EqmodAtPlace'
    BY <1>1, <1>2 DEF ThreadStep, MoverStops, OlderMoves, EqmodAtPlace
<1>4. QED
    BY <1>2, <1>3, ThreadFrame DEF MotionIInv

\* EQMod is unparked at its place.
LEMMA UnparkStep == ASSUME MotionIInv, NEW g \in Generations, Unpark(g) PROVE MotionIInv'
<1> DEFINE effect == [mount EXCEPT !.parked = FALSE]
<1>1. mount \in Mounts /\ kind = "eqmod" /\ home[g].pc = "unpark" /\ Commands(g, effect, "reached")
    BY MotionTypes DEF MotionIInv, KindsKnown, Unpark
<1>2. effect \in Mounts /\ effect.motion = mount.motion /\ effect.place = mount.place
    BY <1>1 DEF Mounts
<1> HIDE DEF effect
<1>3. PICK pc \in {"reached", "finish"} : home'[g].pc = pc
    BY <1>1, <1>2, CommandTyped DEF Places
<1>4. mount'.motion = mount.motion /\ mount'.place = mount.place
    BY <1>1, <1>2, CommandTyped DEF Places
<1>5. ThreadStep(g, pc)
    BY <1>1, <1>2, <1>3, CommandTyped DEF ThreadStep, Places
<1>6. MoverStops'
    BY <1>1, <1>4, <1>5, NewMotionless
<1>7. OlderMoves'
    BY <1>1, <1>5 DEF OlderMoves, ThreadStep
<1>8. EqmodAtPlace'
    BY <1>1, <1>4, <1>5 DEF ThreadStep, MotionIInv, EqmodAtPlace
<1>9. QED
    BY <1>5, <1>6, <1>7, <1>8, ThreadFrame DEF MotionIInv

\* A home that was revoked or is late stops the mount, or takes the record of a STOP back.
LEMMA AbortStep == ASSUME MotionIInv, NEW g \in Generations, Abort(g) PROVE MotionIInv'
<1>1. MotionTypeInv /\ mount \in Mounts /\ home[g].pc = "abort" /\ Goes(g, "finish")
      /\ UNCHANGED <<kind, service, serving, link>>
    BY MotionTypes DEF MotionIInv, Abort
<1>2. /\ home' \in [Generations -> Homes] /\ home'[g].pc = "finish"
      /\ \A k \in Generations \ {g} : home'[k] = home[k]
    BY <1>1, HomeGoes DEF Places
<1>3. mount' \in Mounts /\ mount'.tracking = mount.tracking /\ mount'.place = mount.place
      /\ mount'.motion \in {mount.motion, "still"}
    BY <1>1 DEF Abort, Reaches, Lost, Halted, Mounts
<1>4. faults' \in 0 .. MaxFaults /\ (faults' = 0 => faults = 0)
    BY <1>1, FaultTyped DEF Abort, Reaches, Lost, Fine
<1>12. stopped' = stopped \/ stopped' = FALSE
    BY DEF Abort
<1>13. stopped \in BOOLEAN
    BY <1>1 DEF MotionTypeInv
<1>14. stopped' \in BOOLEAN
    BY <1>12, <1>13
<1>11. stopped' => stopped
    <2>1. CASE stopped' = stopped
        BY <2>1
    <2>2. CASE stopped' = FALSE
        BY <2>2
    <2>3. QED
        BY <1>12, <2>1, <2>2
<1>5. ThreadStep(g, "finish")
    BY <1>1, <1>2, <1>3, <1>4, <1>11, <1>14 DEF ThreadStep, Places
<1>6. \/ mount'.motion = "still"
      \/ Lost /\ ~stopped'
    BY <1>1 DEF Abort, Reaches, Halted, Mounts
<1>7. MoverStops'
    BY <1>6 DEF MoverStops
<1>8. OlderMoves'
    BY <1>1, <1>6, NothingLost DEF OlderMoves
<1>9. EqmodAtPlace'
    BY <1>1, <1>2, <1>3 DEF MotionIInv, EqmodAtPlace
<1>10. QED
    BY <1>5, <1>7, <1>8, <1>9, ThreadFrame DEF MotionIInv

\* The end of the newest home is the end of homing.
LEMMA FinishStep == ASSUME MotionIInv, NEW g \in Generations, Finish(g) PROVE MotionIInv'
<1>1. MotionTypeInv /\ service \in Services /\ home \in [Generations -> Homes]
      /\ UNCHANGED <<kind, serving, mount, link, stopped, faults>>
      /\ home[g].pc \in {"reached", "finish"}
    BY MotionTypes DEF MotionIInv, Finish
<1>2. /\ home' \in [Generations -> Homes] /\ home'[g] = None
      /\ \A k \in Generations \ {g} : home'[k] = home[k]
    BY <1>1 DEF Finish, None, Homes, Places
<1>3. service' \in Services /\ service'.generation = service.generation
      /\ service'.connected = service.connected /\ service'.tracking = service.tracking
      /\ (service'.homing <=> service.homing /\ ~Finishes(g))
    BY <1>1 DEF Finish, Services
<1>4. MotionTypeInv'
    BY <1>1, <1>2, <1>3 DEF MotionTypeInv, Services, Homes, Places
<1>5. service'.homing => g # service.generation
    BY <1>3 DEF Finishes
<1>6. HomingIsNewest'
    <2>1. CASE g = service.generation
        BY <1>2, <1>3, <1>5, <2>1 DEF HomingIsNewest, HomesAlive, None
    <2>2. CASE g # service.generation
        BY <1>2, <1>3, <2>2 DEF MotionIInv, HomingIsNewest, HomesAlive, Finishes
    <2>3. QED
        BY <2>1, <2>2
<1>7. LaterAreNew' /\ SeenAfterGo' /\ KindsKnown'
    BY <1>1, <1>2, <1>3 DEF MotionIInv, LaterAreNew, SeenAfterGo, KindsKnown, None
<1>8. StopEndsHoming' /\ PortInOrder' /\ TrackingKept'
    BY <1>1, <1>3 DEF MotionIInv, StopEndsHoming, PortInOrder, TrackingKept
<1>9. MoverStops'
    BY <1>1, <1>2 DEF MotionIInv, MoverStops
<1>10. HomesConnected'
    BY <1>1, <1>3 DEF MotionIInv, HomesConnected
<1>11. OlderMoves'
    <2> SUFFICES ASSUME kind = "home", faults = 0, service'.homing, mount.motion = "home",
                        NEW k \in Generations, k = service.generation, Arrived(k)'
                 PROVE  Older(k)'
        BY <1>1, <1>3 DEF OlderMoves
    <2>1. k # g /\ Arrived(k)
        BY <1>1, <1>2, <1>5 DEF Arrived
    <2>2. Older(k)
        BY <1>3, <2>1 DEF MotionIInv, OlderMoves
    <2>3. QED
        BY <1>1, <1>2, <2>2 DEF Older
<1>12. EqmodAtPlace'
    BY <1>1, <1>2, <1>3 DEF MotionIInv, EqmodAtPlace, None
<1>13. QED
    BY <1>4, <1>6, <1>7, <1>8, <1>9, <1>10, <1>11, <1>12 DEF MotionIInv

\* Every step of mount, service and homes keeps the invariant.
LEMMA MotionStep == MotionIInv /\ [MotionNext]_motionVars => MotionIInv'
<1> SUFFICES ASSUME MotionIInv, [MotionNext]_motionVars PROVE MotionIInv'
    OBVIOUS
<1>1. CASE UNCHANGED motionVars
    BY <1>1
    DEF motionVars, MotionIInv, MotionTypeInv, HomingIsNewest, HomesAlive, LaterAreNew, SeenAfterGo,
        StopEndsHoming, MoverStops, PortInOrder, HomesConnected, OlderMoves, Arrived, Older,
        EqmodAtPlace, TrackingKept, KindsKnown
<1>2. ASSUME NEW g \in Generations, HomeThread(g) PROVE MotionIInv'
    BY <1>2, BeginStep, FindStep, PlaceStep, CheckStep, LookStep, LastStep, UnparkStep, AbortStep,
       FinishStep DEF HomeThread
<1>3. QED
    BY <1>1, <1>2, MountMoves, ConnectionSteps, SlewAndTrack, HomeStarts, StopSteps, SyncSteps
    DEF MotionNext

\* The invariant holds before the first call.
LEMMA MotionStarts == MotionInit => MotionIInv
<1> SUFFICES ASSUME MotionInit PROVE MotionIInv
    OBVIOUS
<1>1. MaxHomes \in Nat /\ MaxFaults \in Nat
    BY MotionAssumption
<1>8. mount \in Mounts
    BY DEF MotionInit, Mounts
<1>9. service \in Services /\ link \in Links
    BY <1>1 DEF MotionInit, Services, Links
<1>10. home \in [Generations -> Homes]
    BY DEF MotionInit, Homes, Places, None
<1>11. faults \in 0 .. MaxFaults /\ serving = "idle"
    BY <1>1 DEF MotionInit
<1>12. kind \in Kinds /\ stopped \in BOOLEAN
    BY DEF MotionInit
<1>2. MotionTypeInv
    BY <1>8, <1>9, <1>10, <1>11, <1>12, MotionTypes
<1>3. mount.motion = "still" /\ \A g \in Generations : home[g] = None
    BY DEF MotionInit
<1>4. HomingIsNewest /\ LaterAreNew /\ SeenAfterGo /\ KindsKnown
    BY <1>1, <1>3
    DEF MotionInit, HomingIsNewest, HomesAlive, LaterAreNew, SeenAfterGo, KindsKnown, None, Generations
<1>5. StopEndsHoming /\ MoverStops /\ PortInOrder /\ HomesConnected /\ TrackingKept
    BY <1>3 DEF MotionInit, StopEndsHoming, MoverStops, PortInOrder, HomesConnected, TrackingKept, None
<1>6. OlderMoves /\ EqmodAtPlace
    BY <1>3 DEF MotionInit, OlderMoves, EqmodAtPlace
<1>7. QED
    BY <1>2, <1>4, <1>5, <1>6 DEF MotionIInv

-----------------------------------------------------------------------------
(* A slew button *)

\* The mark of a release waits for the request that will look for it.
MarksWait ==
    \A g \in Gestures :
        release[g] # "sent" /\ press[g] \in {"sent", "start", "started"} => g \in released
\* The mount slews for a gesture whose START was sent.
SlewsForStarted == \A g \in Gestures : slews = g => press[g] \in {"started", "stop", "done"}
GestureIInv == GestureTypeInv /\ ReleasedStands /\ MarksWait /\ SlewsForStarted

\* Every step of the two requests keeps the invariant.
LEMMA GestureStep == GestureIInv /\ [GestureNext]_gestureVars => GestureIInv'
<1> SUFFICES ASSUME GestureIInv, [GestureNext]_gestureVars PROVE GestureIInv'
    OBVIOUS
<1>1. CASE UNCHANGED gestureVars
    BY <1>1 DEF gestureVars, GestureIInv, GestureTypeInv, ReleasedStands, MarksWait, SlewsForStarted
<1>2. ASSUME NEW g \in Gestures, PressBegins(g) PROVE GestureIInv'
    BY <1>2, GestureAssumption
    DEF PressBegins, Consumes, GestureIInv, GestureTypeInv, ReleasedStands, MarksWait, SlewsForStarted
<1>3. ASSUME NEW g \in Gestures, StartsSlew(g) PROVE GestureIInv'
    BY <1>3, GestureAssumption
    DEF StartsSlew, GestureIInv, GestureTypeInv, ReleasedStands, MarksWait, SlewsForStarted
<1>4. ASSUME NEW g \in Gestures, PressEnds(g) PROVE GestureIInv'
    BY <1>4, GestureAssumption
    DEF PressEnds, ChecksAgain, Consumes, GestureIInv, GestureTypeInv, ReleasedStands, MarksWait,
        SlewsForStarted
<1>5. ASSUME NEW g \in Gestures, PressStops(g) PROVE GestureIInv'
    BY <1>5, GestureAssumption
    DEF PressStops, Stops, GestureIInv, GestureTypeInv, ReleasedStands, MarksWait, SlewsForStarted
<1>6. ASSUME NEW g \in Gestures, ReleaseBegins(g) PROVE GestureIInv'
    BY <1>6, GestureAssumption
    DEF ReleaseBegins, GestureIInv, GestureTypeInv, ReleasedStands, MarksWait, SlewsForStarted
<1>7. ASSUME NEW g \in Gestures, ReleaseStops(g) PROVE GestureIInv'
    BY <1>7, GestureAssumption
    DEF ReleaseStops, Stops, GestureIInv, GestureTypeInv, ReleasedStands, MarksWait, SlewsForStarted
<1>8. ASSUME NEW g \in Gestures, Pruned(g) PROVE GestureIInv'
    BY <1>8, GestureAssumption
    DEF Pruned, GestureIInv, GestureTypeInv, ReleasedStands, MarksWait, SlewsForStarted
<1>9. QED
    BY <1>1, <1>2, <1>3, <1>4, <1>5, <1>6, <1>7, <1>8 DEF GestureNext

\* The invariant holds before a button is pressed.
LEMMA GestureStarts == GestureInit => GestureIInv
BY GestureAssumption
DEF GestureInit, GestureIInv, GestureTypeInv, ReleasedStands, MarksWait, SlewsForStarted

-----------------------------------------------------------------------------
(* The focuser *)

\* A jog under way is asked to end as long as the focuser is stopped, or is about to be: the STOP of
\* the indi plugin sets the event first, and waits for nobody.
StopIsAsked ==
    plugin = "indi" => call # "join_stop" /\ (halted \/ call = "stop" => holdStop)
\* A jog that is about to begin is a motion that was asked for.
JogIsAsked == call \in {"join_jog_up", "join_jog_down", "jog_up", "jog_down"} => ~halted
\* A jog of the ZWO plugin ends by a stop only.
ZwoHalts == plugin = "zwo" => \A j \in Jogs : jog[j].pc # "last"
FocuserIInv == FocuserTypeInv /\ FocuserStays /\ StopIsAsked /\ JogIsAsked /\ ZwoHalts

JogRecords == [pc : {"none", "aim", "move", "wait", "last", "halt", "done"},
               to : {0, Top}, aim : Positions]
Calls == {"idle", "join_jog_up", "join_jog_down", "join_stop", "join_stop_jog",
          "jog_up", "jog_down", "stop", "stop_jog"}
Motors == [at : Positions, to : Positions]

\* Where the motor is told to go is a position, and a motor told to stay does not move.
LEMMA MotorTyped ==
    ASSUME FocuserTypeInv
    PROVE  /\ Halt => motor' \in Motors /\ ~Moving'
           /\ \A to \in Positions : Move(to) => motor' \in Motors
           /\ MotorMoves => motor' \in Motors
<1>1. motor \in Motors /\ motor.at \in Positions /\ motor.to \in Positions /\ Top \in Nat
    BY FocuserAssumption DEF FocuserTypeInv, Motors
<1>2. Halt => motor' \in Motors /\ ~Moving'
    BY <1>1 DEF Halt, Motors, Moving
<1>3. \A to \in Positions : Move(to) => motor' \in Motors
    BY <1>1 DEF Move, Motors
<1>4. ASSUME MotorMoves PROVE motor' \in Motors
    <2> DEFINE next == IF motor.at < motor.to THEN motor.at + 1 ELSE motor.at - 1
    <2>1. next \in Positions
        BY <1>1, <1>4 DEF MotorMoves, Moving, Positions
    <2>2. motor' = [motor EXCEPT !.at = next]
        BY <1>4 DEF MotorMoves
    <2>3. QED
        BY <1>1, <2>1, <2>2 DEF Motors
<1>5. QED
    BY <1>2, <1>3, <1>4

\* The thread of a jog changes its own record only.
LEMMA JogSteps ==
    ASSUME FocuserTypeInv, NEW j \in Jogs,
           NEW pc \in {"none", "aim", "move", "wait", "last", "halt", "done"},
           NEW aim \in Positions, jog' = [jog EXCEPT ![j].aim = aim, ![j].pc = pc]
    PROVE  /\ jog' \in [Jogs -> JogRecords] /\ jog'[j].pc = pc
           /\ \A i \in Jogs \ {j} : jog'[i] = jog[i]
<1> DEFINE r == [jog[j] EXCEPT !.aim = aim, !.pc = pc]
<1>1. jog' = [jog EXCEPT ![j] = r] /\ jog \in [Jogs -> JogRecords]
    BY DEF FocuserTypeInv, JogRecords
<1>2. r \in JogRecords /\ r.pc = pc
    BY <1>1 DEF JogRecords
<1> HIDE DEF r
<1>3. QED
    BY <1>1, <1>2

\* The same for a jog that only goes on.
LEMMA JogGoesOn ==
    ASSUME FocuserTypeInv, NEW j \in Jogs,
           NEW pc \in {"none", "aim", "move", "wait", "last", "halt", "done"},
           JogGoes(j, pc)
    PROVE  /\ jog' \in [Jogs -> JogRecords] /\ jog'[j].pc = pc
           /\ \A i \in Jogs \ {j} : jog'[i] = jog[i]
<1> DEFINE r == [jog[j] EXCEPT !.pc = pc]
<1>1. jog' = [jog EXCEPT ![j] = r] /\ jog \in [Jogs -> JogRecords]
    BY DEF JogGoes, FocuserTypeInv, JogRecords
<1>2. r \in JogRecords /\ r.pc = pc
    BY <1>1 DEF JogRecords
<1> HIDE DEF r
<1>3. QED
    BY <1>1, <1>2

\* The bound on what goes wrong is kept.
LEMMA TroubleTyped ==
    FocuserTypeInv /\ (JogTrouble \/ UNCHANGED troubled) => troubled' \in 0 .. MaxTroubled
BY FocuserAssumption DEF FocuserTypeInv, JogTrouble

\* A motion that is asked for leaves nothing to keep still.
LEMMA AskedMotion ==
    ASSUME FocuserIInv, halted' = FALSE, plugin' = plugin, jog' = jog, FocuserTypeInv',
           call' \notin {"stop", "join_stop"}
    PROVE  FocuserIInv'
BY DEF FocuserIInv, FocuserStays, StopIsAsked, JogIsAsked, ZwoHalts

\* A call that leaves jogs, motor and halt alone.
LEMMA QuietCall ==
    ASSUME FocuserIInv, FocuserTypeInv', UNCHANGED <<plugin, jog, motor, halted>>,
           holdStop => holdStop',
           plugin = "indi" => call' # "join_stop" /\ (call' = "stop" => holdStop'),
           call' \in {"join_jog_up", "join_jog_down", "jog_up", "jog_down"} =>
              call \in {"join_jog_up", "join_jog_down", "jog_up", "jog_down"}
    PROVE  FocuserIInv'
BY DEF FocuserIInv, FocuserStays, StopIsAsked, JogIsAsked, ZwoHalts, Lives, Moving

\* A call that asks the jog to end first.
LEMMA AsksTyped ==
    ASSUME FocuserTypeInv, NEW next \in Calls, NEW joined \in Calls,
           NEW what \in {"none", "go", "home", "jog"}, Asks(next, joined, what)
    PROVE  /\ call' \in Calls /\ holdStop' \in BOOLEAN /\ target' \in -1 .. Top + 1
           /\ command' \in {"none", "go", "home", "jog"} /\ UNCHANGED <<plugin, jog, motor, troubled>>
           /\ holdStop => holdStop'
<1>1. target' \in -1 .. Top + 1
    BY FocuserAssumption DEF Asks
<1>2. call' \in Calls /\ holdStop' \in BOOLEAN /\ (holdStop => holdStop')
    BY DEF Asks, FocuserTypeInv
<1>3. QED
    BY <1>1, <1>2 DEF Asks

\* Every call of the serving thread keeps the invariant.
LEMMA ServiceSteps ==
    ASSUME FocuserIInv,
           \/ FocuserStatus \/ StopJog \/ StopFocuser \/ StopWritten \/ StopJogEnds
           \/ \E p \in 1 .. Top + 1 : Go(p, "go")
           \/ Go(0, "home")
           \/ \E delta \in {-1, 1} : Step(delta)
           \/ \E up \in BOOLEAN : StartJog(up)
    PROVE  FocuserIInv'
<1>0. FocuserTypeInv /\ Top \in Nat
    BY FocuserAssumption DEF FocuserIInv
<1>1. CASE FocuserStatus \/ StopJogEnds
    <2>1. FocuserTypeInv'
        BY <1>0, <1>1 DEF FocuserStatus, StopJogEnds, JogUnchanged, FocuserTypeInv
    <2>2. plugin = "indi" => call' # "join_stop" /\ (call' = "stop" => holdStop')
        BY <1>1 DEF FocuserIInv, StopIsAsked, FocuserStatus, StopJogEnds, JogUnchanged
    <2>3. QED
        BY <1>1, <2>1, <2>2, QuietCall DEF FocuserStatus, StopJogEnds, JogUnchanged
<1>2. CASE StopJog \/ StopFocuser
    <2>1. FocuserTypeInv'
        <3>1. CASE StopJog \/ plugin = "zwo"
            <4>1. call' \in Calls /\ holdStop' \in BOOLEAN /\ target' \in -1 .. Top + 1
                  /\ command' \in {"none", "go", "home", "jog"}
                  /\ UNCHANGED <<plugin, jog, motor, troubled>>
                BY <1>0, <1>2, <3>1, AsksTyped DEF StopJog, StopFocuser, Calls
            <4>2. QED
                BY <1>0, <1>2, <4>1 DEF StopJog, StopFocuser, FocuserTypeInv, Calls
        <3>2. CASE StopFocuser /\ plugin # "zwo"
            BY <1>0, <3>2 DEF StopFocuser, FocuserTypeInv
        <3>3. QED
            BY <1>2, <3>1, <3>2
    <2>2. holdStop => holdStop'
        BY <1>2 DEF StopJog, StopFocuser, Asks
    <2>3. plugin = "indi" => call' # "join_stop" /\ (call' = "stop" => holdStop')
        BY <1>2 DEF StopJog, StopFocuser, Asks
    <2>4. QED
        BY <1>2, <2>1, <2>2, <2>3, QuietCall DEF StopJog, StopFocuser, Asks
<1>3. CASE StopWritten
    <2>1. motor' \in Motors /\ troubled' \in 0 .. MaxTroubled
        BY <1>0, <1>3, MotorTyped, TroubleTyped DEF StopWritten, FocuserTypeInv, Motors
    <2>2. FocuserTypeInv'
        BY <1>0, <1>3, <2>1 DEF StopWritten, FocuserTypeInv, Motors
    <2>3. Halt \/ UNCHANGED <<motor, halted>>
        BY <1>3 DEF StopWritten
    <2>4. Halt => ~Moving'
        BY <1>0, MotorTyped
    <2>5. FocuserStays'
        BY <1>3, <2>3, <2>4 DEF StopWritten, FocuserIInv, FocuserStays, Lives, Moving
    <2>6. StopIsAsked' /\ JogIsAsked' /\ ZwoHalts'
        BY <1>3 DEF StopWritten, FocuserIInv, StopIsAsked, JogIsAsked, ZwoHalts
    <2>7. QED
        BY <2>2, <2>5, <2>6 DEF FocuserIInv
<1>4. ASSUME NEW p \in 0 .. Top + 1, NEW what \in {"go", "home"}, Go(p, what) PROVE FocuserIInv'
    <2>1. Clamped(p) \in Positions
        BY <1>0 DEF Clamped, Positions
    <2>2. motor' \in Motors /\ troubled' \in 0 .. MaxTroubled
        BY <1>0, <1>4, <2>1, MotorTyped, TroubleTyped DEF Go, FocuserTypeInv, Motors
    <2>5. target' \in -1 .. Top + 1 /\ command' \in {"none", "go", "home", "jog"}
        BY <1>0, <1>4 DEF Go
    <2>3. FocuserTypeInv'
        BY <1>0, <1>4, <2>2, <2>5 DEF Go, JogUnchanged, FocuserTypeInv, Motors
    <2>4. QED
        BY <1>4, <2>3, AskedMotion DEF Go, JogUnchanged
<1>5. ASSUME NEW delta \in {-1, 1}, Step(delta) PROVE FocuserIInv'
    <2>1. motor' \in Motors
        BY <1>0, <1>5, MotorTyped DEF Step
    <2>2. FocuserTypeInv'
        BY <1>0, <1>5, <2>1 DEF Step, JogUnchanged, FocuserTypeInv, Motors
    <2>3. QED
        BY <1>5, <2>2, AskedMotion DEF Step, JogUnchanged
<1>6. ASSUME NEW up \in BOOLEAN, StartJog(up) PROVE FocuserIInv'
    <2>1. FocuserTypeInv'
        <3>1. call' \in Calls /\ holdStop' \in BOOLEAN /\ target' \in -1 .. Top + 1
               /\ command' \in {"none", "go", "home", "jog"}
               /\ UNCHANGED <<plugin, jog, motor, troubled>>
            BY <1>0, <1>6, AsksTyped DEF StartJog, Calls, FocuserTypeInv
        <3>2. QED
            BY <1>0, <1>6, <3>1 DEF StartJog, FocuserTypeInv, Calls
    <2>2. halted' = FALSE /\ plugin' = plugin /\ jog' = jog /\ call' \notin {"stop", "join_stop"}
        BY <1>6 DEF StartJog, Asks
    <2>3. QED
        BY <2>1, <2>2, AskedMotion
<1>7. QED
    BY <1>0, <1>1, <1>2, <1>3, <1>4, <1>5, <1>6

\* The end of a join, and the jog that begins after it.
LEMMA JoinedStep == ASSUME FocuserIInv, Joined PROVE FocuserIInv'
<1>1. motor' \in Motors /\ troubled' \in 0 .. MaxTroubled /\ (Halt \/ UNCHANGED motor)
    BY MotorTyped, TroubleTyped DEF Joined, FocuserIInv, FocuserTypeInv, Motors
<1>2. FocuserTypeInv'
    BY <1>1, FocuserAssumption DEF Joined, AfterJoin, NoJogYet, FocuserIInv, FocuserTypeInv, Motors
<1>3. Halt => ~Moving'
    BY MotorTyped DEF FocuserIInv
<1>4. FocuserStays'
    BY <1>1, <1>3 DEF Joined, FocuserIInv, FocuserStays, Lives, Moving
<1>5. StopIsAsked' /\ JogIsAsked' /\ ZwoHalts'
    BY DEF Joined, AfterJoin, FocuserIInv, StopIsAsked, JogIsAsked, ZwoHalts
<1>6. QED
    BY <1>2, <1>4, <1>5 DEF FocuserIInv

\* The motion of a new jog was asked for.
LEMMA SpawnStep == ASSUME FocuserIInv, NEW j \in Jogs, Spawn(j) PROVE FocuserIInv'
<1> DEFINE r == [pc |-> "aim", to |-> IF call = "jog_up" THEN Top ELSE 0, aim |-> 0]
<1>1. r \in JogRecords /\ r.pc = "aim" /\ jog' = [jog EXCEPT ![j] = r]
    BY FocuserAssumption DEF Spawn, JogRecords, Positions
<1> HIDE DEF r
<1>2. jog' \in [Jogs -> JogRecords] /\ jog'[j].pc = "aim" /\ \A i \in Jogs \ {j} : jog'[i] = jog[i]
    BY <1>1 DEF FocuserIInv, FocuserTypeInv, JogRecords
<1>3. j \in 0 .. MaxJogs /\ -1 \in -1 .. Top + 1
    BY FocuserAssumption DEF Jogs
<1>4. FocuserTypeInv'
    BY <1>2, <1>3 DEF Spawn, FocuserIInv, FocuserTypeInv, JogRecords
<1>5. ~halted'
    BY DEF Spawn, FocuserIInv, JogIsAsked
<1>6. ZwoHalts'
    BY <1>2 DEF Spawn, FocuserIInv, ZwoHalts
<1>7. QED
    BY <1>4, <1>5, <1>6 DEF Spawn, FocuserIInv, FocuserStays, StopIsAsked, JogIsAsked

\* A jog that goes on and lives leaves what is stopped stopped.
LEMMA LiveJog ==
    ASSUME FocuserIInv, NEW j \in Jogs, JogRest, FocuserTypeInv',
           jog'[j].pc \in {"aim", "move", "wait", "last", "halt"},
           jog'[j].pc = "last" => plugin = "indi",
           \A i \in Jogs \ {j} : jog'[i] = jog[i]
    PROVE  FocuserIInv'
<1>1. Lives(j)'
    BY DEF Lives
<1>2. FocuserStays'
    BY <1>1 DEF FocuserStays
<1>3. ZwoHalts'
    BY FocuserAssumption DEF FocuserIInv, ZwoHalts, JogRest
<1>4. QED
    BY <1>2, <1>3 DEF FocuserIInv, StopIsAsked, JogIsAsked, JogRest

\* Every step of a jog thread keeps the invariant: the last one stops the motor or takes the
\* record of the halt back.
LEMMA JogThread ==
    ASSUME FocuserIInv, NEW j \in Jogs,
           Aim(j) \/ JogMoves(j) \/ JogWaits(j) \/ JogLast(j) \/ JogHalts(j)
    PROVE  FocuserIInv'
<1>0. FocuserTypeInv /\ plugin \in {"zwo", "indi"} /\ Top \in Nat \ {0} /\ jog[j] \in JogRecords
      /\ motor \in Motors
    BY FocuserAssumption DEF FocuserIInv, FocuserTypeInv, JogRecords, Motors
<1>1. CASE Aim(j)
    <2>1. Ahead(j) \in Positions
        BY <1>0 DEF Ahead, JogRecords, Motors, Positions
    <2>2. /\ jog' \in [Jogs -> JogRecords] /\ \A i \in Jogs \ {j} : jog'[i] = jog[i]
          /\ jog'[j].pc \in {"move", "last", "halt"} /\ (jog'[j].pc = "last" => plugin = "indi")
        <3>1. CASE JogGoes(j, IF plugin = "zwo" THEN "halt" ELSE "last")
            BY <1>0, <3>1, JogGoesOn
        <3>2. CASE jog' = [jog EXCEPT ![j].aim = Ahead(j),
                  ![j].pc = IF plugin = "indi" /\ (holdStop \/ motor.at = jog[j].to) THEN "last"
                            ELSE "move"]
            BY <1>0, <2>1, <3>2, JogSteps
        <3>3. QED
            BY <1>1, <3>1, <3>2 DEF Aim
    <2>3. troubled' \in 0 .. MaxTroubled
        BY <1>0, <1>1, TroubleTyped DEF Aim
    <2>4. FocuserTypeInv'
        BY <1>0, <1>1, <2>2, <2>3 DEF Aim, JogRest, FocuserTypeInv, JogRecords
    <2>5. QED
        BY <1>1, <2>2, <2>4, LiveJog DEF Aim
<1>2. CASE JogMoves(j)
    <2>1. jog[j].aim \in Positions
        BY <1>0 DEF JogRecords
    <2>2. motor' \in Motors
        BY <1>0, <1>2, <2>1, MotorTyped DEF JogMoves
    <2>3. jog' \in [Jogs -> JogRecords] /\ jog'[j].pc = "wait" /\ \A i \in Jogs \ {j} : jog'[i] = jog[i]
        BY <1>0, <1>2, JogGoesOn DEF JogMoves
    <2>4. FocuserTypeInv'
        BY <1>0, <1>2, <2>2, <2>3 DEF JogMoves, JogRest, FocuserTypeInv, JogRecords, Motors
    <2>5. QED
        BY <1>2, <2>3, <2>4, LiveJog DEF JogMoves
<1>3. CASE JogWaits(j)
    <2>1. PICK pc \in {"aim", "last", "halt"} : JogGoes(j, pc) /\ (pc = "last" => plugin = "indi")
        BY <1>0, <1>3 DEF JogWaits
    <2>2. jog' \in [Jogs -> JogRecords] /\ jog'[j].pc = pc /\ \A i \in Jogs \ {j} : jog'[i] = jog[i]
        BY <1>0, <2>1, JogGoesOn
    <2>3. troubled' \in 0 .. MaxTroubled
        BY <1>0, <1>3, TroubleTyped DEF JogWaits
    <2>4. FocuserTypeInv'
        BY <1>0, <1>3, <2>2, <2>3 DEF JogWaits, JogRest, FocuserTypeInv, JogRecords
    <2>5. QED
        BY <1>3, <2>1, <2>2, <2>4, LiveJog DEF JogWaits
<1>4. CASE JogLast(j)
    <2>1. /\ jog' \in [Jogs -> JogRecords] /\ jog'[j].pc = LastStops(j)
          /\ \A i \in Jogs \ {j} : jog'[i] = jog[i]
        BY <1>0, <1>4, JogGoesOn DEF JogLast, LastStops
    <2>2. FocuserTypeInv'
        BY <1>0, <1>4, <2>1 DEF JogLast, JogRest, FocuserTypeInv, JogRecords
    <2>3. plugin = "indi"
        BY <1>0, <1>4 DEF JogLast, FocuserIInv, ZwoHalts
    <2>4. CASE holdStop
        BY <1>4, <2>1, <2>2, <2>4, LiveJog DEF JogLast, LastStops
    <2>5. CASE ~holdStop
        <3>1. ~halted
            BY <2>3, <2>5 DEF FocuserIInv, StopIsAsked
        <3>2. QED
            BY <1>4, <2>2, <2>3, <3>1 DEF JogLast, JogRest, FocuserIInv, FocuserStays, StopIsAsked,
               JogIsAsked, ZwoHalts
    <2>6. QED
        BY <2>4, <2>5
<1>5. CASE JogHalts(j)
    <2>1. jog' \in [Jogs -> JogRecords] /\ jog'[j].pc = "done" /\ \A i \in Jogs \ {j} : jog'[i] = jog[i]
        BY <1>0, <1>5, JogGoesOn DEF JogHalts
    <2>2. motor' \in Motors /\ troubled' \in 0 .. MaxTroubled /\ (Halt => ~Moving')
        BY <1>0, <1>5, MotorTyped, TroubleTyped DEF JogHalts, FocuserTypeInv, Motors
    <2>3. FocuserTypeInv'
        BY <1>0, <1>5, <2>1, <2>2 DEF JogHalts, FocuserTypeInv, JogRecords, Motors
    <2>4. FocuserStays'
        BY <1>5, <2>2 DEF JogHalts, FocuserStays
    <2>5. StopIsAsked'
        <3>1. plugin' = plugin /\ call' = call /\ (plugin = "indi" => holdStop')
            BY <1>5 DEF JogHalts
        <3>2. QED
            BY <3>1 DEF FocuserIInv, StopIsAsked
    <2>7. JogIsAsked' /\ ZwoHalts'
        BY <1>5, <2>1 DEF JogHalts, FocuserIInv, JogIsAsked, ZwoHalts
    <2>6. QED
        BY <2>3, <2>4, <2>5, <2>7 DEF FocuserIInv
<1>6. QED
    BY <1>1, <1>2, <1>3, <1>4, <1>5

\* Every step of service, jogs and motor keeps the invariant.
LEMMA FocuserStep == FocuserIInv /\ [FocuserNext]_focuserVars => FocuserIInv'
<1> SUFFICES ASSUME FocuserIInv, [FocuserNext]_focuserVars PROVE FocuserIInv'
    OBVIOUS
<1>1. CASE MotorMoves
    <2>1. motor' \in Motors /\ Moving
        BY <1>1, MotorTyped DEF FocuserIInv, MotorMoves
    <2>2. FocuserTypeInv'
        BY <1>1, <2>1 DEF MotorMoves, FocuserIInv, FocuserTypeInv, Motors
    <2>3. FocuserStays'
        BY <1>1, <2>1 DEF MotorMoves, FocuserIInv, FocuserStays, Lives
    <2>4. QED
        BY <1>1, <2>2, <2>3 DEF MotorMoves, FocuserIInv, StopIsAsked, JogIsAsked, ZwoHalts
<1>2. CASE UNCHANGED focuserVars
    BY <1>2 DEF focuserVars, FocuserIInv, FocuserTypeInv, FocuserStays, StopIsAsked, JogIsAsked,
       ZwoHalts, Lives, Moving
<1>3. QED
    BY <1>1, <1>2, ServiceSteps, JoinedStep, SpawnStep, JogThread DEF FocuserNext

\* The invariant holds before the first call.
LEMMA FocuserStarts == FocuserInit => FocuserIInv
<1> SUFFICES ASSUME FocuserInit PROVE FocuserIInv
    OBVIOUS
<1>1. Top \in Nat \ {0} /\ MaxJogs \in Nat /\ MaxTroubled \in Nat
    BY FocuserAssumption
<1>2. motor \in Motors /\ jog \in [Jogs -> JogRecords]
    BY <1>1 DEF FocuserInit, Motors, JogRecords, Positions
<1>5. target \in -1 .. Top + 1 /\ holder \in 0 .. MaxJogs /\ troubled \in 0 .. MaxTroubled
    BY <1>1 DEF FocuserInit, NoJogYet
<1>3. FocuserTypeInv
    BY <1>1, <1>2, <1>5 DEF FocuserInit, FocuserTypeInv, Motors, JogRecords, NoJogYet
<1>4. QED
    BY <1>3 DEF FocuserInit, FocuserIInv, FocuserStays, StopIsAsked, JogIsAsked, ZwoHalts

-----------------------------------------------------------------------------
(* The sessions of the ZWO SDK *)

\* Only a process that drives a focuser connects, and the inventory holds a focuser only while it
\* looks at it.
OwnersWant ==
    /\ \A p \in Hosts : eaf[p] # "away" => Wanted[p] # NoEaf
    /\ \A p \in Hosts : inventory[p].held # NoEaf <=> inventory[p].pc = "busy"

\* How often the plugin and the inventory of a process count on a focuser
ByPlugin(p, e) == eaf[p] = "connected" /\ Wanted[p] = e
ByInventory(p, e) == inventory[p].held = e
Owners(p, e) == (IF ByPlugin(p, e) THEN 1 ELSE 0) + (IF ByInventory(p, e) THEN 1 ELSE 0)
\* What LocksCounted says of one process and one focuser
CountFits(p, e) ==
    /\ flock[e] = p <=> refs[p][e] > 0
    /\ <<p, e>> \in open <=> refs[p][e] > 0
    /\ refs[p][e] = Owners(p, e)
\* A step that leaves what a process has of a focuser alone
SameOf(p, e) ==
    /\ refs'[p][e] = refs[p][e] /\ (flock'[e] = p <=> flock[e] = p)
    /\ <<p, e>> \in open' <=> <<p, e>> \in open
\* A step that changes no other count
Only(p, e) == \A q \in Hosts, d \in Eafs : <<q, d>> # <<p, e>> => SameOf(q, d)
CountsTyped ==
    /\ refs \in [Hosts -> [Eafs -> 0 .. 2]] /\ flock \in [Eafs -> Hosts \cup {NoHost}]
    /\ open \subseteq Hosts \X Eafs
EafIInv == EafTypeInv /\ OwnersWant /\ \A p \in Hosts, e \in Eafs : CountFits(p, e)

\* The invariant gives the promise: a connected plugin is counted, and a lock file has one holder.
LEMMA EafIsSafe == EafIInv => EafSafe
<1> SUFFICES ASSUME EafIInv PROVE EafSafe
    OBVIOUS
<1>1. LocksCounted
    BY DEF EafIInv, LocksCounted, CountFits, Owners, ByPlugin, ByInventory
<1>2. ASSUME NEW p \in Hosts, eaf[p] = "connected" PROVE <<p, Wanted[p]>> \in open
    <2>1. Wanted[p] \in Eafs
        BY <1>2, EafAssumption DEF EafIInv, OwnersWant
    <2>2. CountFits(p, Wanted[p]) /\ Owners(p, Wanted[p]) > 0
        BY <1>2, <2>1 DEF EafIInv, Owners, ByPlugin
    <2>3. QED
        BY <2>2 DEF CountFits
<1>3. ASSUME NEW s \in open, NEW t \in open, s[2] = t[2] PROVE s = t
    <2>1. PICK p \in Hosts, e \in Eafs : s = <<p, e>>
        BY DEF EafIInv, EafTypeInv
    <2>2. PICK q \in Hosts, d \in Eafs : t = <<q, d>>
        BY DEF EafIInv, EafTypeInv
    <2>3. flock[e] = p /\ flock[d] = q /\ d = e
        BY <1>3, <2>1, <2>2 DEF EafIInv, CountFits
    <2>4. QED
        BY <2>1, <2>2, <2>3
<1>4. QED
    BY <1>1, <1>2, <1>3 DEF EafSafe, SessionKept, EafIInv

\* One more owner: it joins the count, or locks and opens the focuser.
LEMMA Acquired ==
    ASSUME EafIInv, NEW p \in Hosts, NEW e \in Eafs, Joins(p, e) \/ Opens(p, e), refs[p][e] < 2
    PROVE  /\ CountsTyped' /\ UNCHANGED upsets /\ Only(p, e)
           /\ refs'[p][e] = refs[p][e] + 1 /\ flock'[e] = p /\ <<p, e>> \in open'
<1>1. CountFits(p, e) /\ refs[p][e] \in 0 .. 2 /\ EafTypeInv
    BY DEF EafIInv, EafTypeInv
<1>2. refs' = [refs EXCEPT ![p] = [refs[p] EXCEPT ![e] = refs[p][e] + 1]]
    BY <1>1 DEF Joins, Opens, Counted, EafTypeInv
<1>3. refs[p] \in [Eafs -> 0 .. 2] /\ refs[p][e] + 1 \in 0 .. 2
    BY <1>1 DEF EafTypeInv
<1>4. refs' \in [Hosts -> [Eafs -> 0 .. 2]] /\ refs'[p] = [refs[p] EXCEPT ![e] = refs[p][e] + 1]
      /\ \A q \in Hosts \ {p} : refs'[q] = refs[q]
    BY <1>1, <1>2, <1>3 DEF EafTypeInv
<1>5. refs'[p][e] = refs[p][e] + 1
      /\ \A q \in Hosts, d \in Eafs : <<q, d>> # <<p, e>> => refs'[q][d] = refs[q][d]
    BY <1>3, <1>4
<1>6. CASE Joins(p, e)
    BY <1>1, <1>4, <1>5, <1>6 DEF Joins, EafTypeInv, CountFits, SameOf, Only, CountsTyped
<1>7. CASE Opens(p, e)
    <2>1. flock' = [flock EXCEPT ![e] = p] /\ open' = open \cup {<<p, e>>} /\ flock[e] = NoHost
        BY <1>7 DEF Opens
    <2>2. \A q \in Hosts, d \in Eafs : <<q, d>> # <<p, e>> => (flock'[d] = q <=> flock[d] = q)
        BY <1>1, <2>1, EafAssumption DEF EafTypeInv
    <2>3. QED
        BY <1>1, <1>4, <1>5, <1>7, <2>1, <2>2 DEF EafTypeInv, Opens, SameOf, Only, CountsTyped
<1>8. QED
    BY <1>6, <1>7

\* One owner less: the last one closes the focuser and unlocks it.
LEMMA Released ==
    ASSUME EafIInv, NEW p \in Hosts, NEW e \in Eafs, Releases(p, e), refs[p][e] > 0
    PROVE  /\ CountsTyped' /\ Only(p, e)
           /\ refs'[p][e] = refs[p][e] - 1
           /\ flock'[e] = p <=> refs'[p][e] > 0
           /\ <<p, e>> \in open' <=> refs'[p][e] > 0
<1>1. CountFits(p, e) /\ refs[p][e] \in 1 .. 2 /\ EafTypeInv
    BY DEF EafIInv, EafTypeInv
<1>2. refs' = [refs EXCEPT ![p] = [refs[p] EXCEPT ![e] = refs[p][e] - 1]]
    BY <1>1 DEF Releases, LastOwner, EafTypeInv
<1>3. refs[p] \in [Eafs -> 0 .. 2] /\ refs[p][e] - 1 \in 0 .. 2
    BY <1>1 DEF EafTypeInv
<1>4. refs' \in [Hosts -> [Eafs -> 0 .. 2]] /\ refs'[p] = [refs[p] EXCEPT ![e] = refs[p][e] - 1]
      /\ \A q \in Hosts \ {p} : refs'[q] = refs[q]
    BY <1>1, <1>2, <1>3 DEF EafTypeInv
<1>5. refs'[p][e] = refs[p][e] - 1
      /\ \A q \in Hosts, d \in Eafs : <<q, d>> # <<p, e>> => refs'[q][d] = refs[q][d]
    BY <1>3, <1>4
<1>6. CASE LastOwner(p, e)
    <2>1. flock' = [flock EXCEPT ![e] = NoHost] /\ open' = open \ {<<p, e>>} /\ flock[e] = p
        BY <1>1, <1>6 DEF Releases, CountFits
    <2>2. refs'[p][e] = 0 /\ flock'[e] # p
        BY <1>1, <1>5, <1>6, <2>1, EafAssumption DEF LastOwner, EafTypeInv
    <2>3. \A q \in Hosts, d \in Eafs : <<q, d>> # <<p, e>> => (flock'[d] = q <=> flock[d] = q)
        BY <1>1, <2>1, EafAssumption DEF EafTypeInv
    <2>4. QED
        BY <1>1, <1>4, <1>5, <2>1, <2>2, <2>3 DEF EafTypeInv, SameOf, Only, CountsTyped
<1>7. CASE ~LastOwner(p, e)
    <2>1. UNCHANGED <<flock, open>> /\ refs'[p][e] > 0
        BY <1>1, <1>5, <1>7 DEF Releases, LastOwner
    <2>2. QED
        BY <1>1, <1>4, <1>5, <2>1 DEF EafTypeInv, CountFits, SameOf, Only, CountsTyped
<1>8. QED
    BY <1>6, <1>7

\* A focuser's counts fit again if its owners changed by as much as its count.
LEMMA CountsFit ==
    ASSUME EafIInv, NEW p \in Hosts, NEW e \in Eafs,
           refs'[p][e] = Owners(p, e)', flock'[e] = p <=> refs'[p][e] > 0,
           <<p, e>> \in open' <=> refs'[p][e] > 0,
           Only(p, e),
           \A q \in Hosts, d \in Eafs : <<q, d>> # <<p, e>> => Owners(q, d)' = Owners(q, d)
    PROVE  \A q \in Hosts, d \in Eafs : CountFits(q, d)'
<1> SUFFICES ASSUME NEW q \in Hosts, NEW d \in Eafs PROVE CountFits(q, d)'
    OBVIOUS
<1>1. CASE <<q, d>> = <<p, e>>
    BY <1>1 DEF CountFits
<1>2. CASE <<q, d>> # <<p, e>>
    BY <1>2 DEF EafIInv, CountFits, SameOf, Only
<1>3. QED
    BY <1>1, <1>2

\* They fit as before if nothing they depend on changed.
LEMMA CountsSame ==
    ASSUME EafIInv, UNCHANGED <<refs, flock, open>>,
           \A q \in Hosts, d \in Eafs : ByPlugin(q, d)' <=> ByPlugin(q, d),
           \A q \in Hosts, d \in Eafs : ByInventory(q, d)' <=> ByInventory(q, d)
    PROVE  \A q \in Hosts, d \in Eafs : CountFits(q, d)'
<1> SUFFICES ASSUME NEW q \in Hosts, NEW d \in Eafs PROVE CountFits(q, d)'
    OBVIOUS
<1>1. Owners(q, d)' = Owners(q, d)
    BY DEF Owners
<1>2. QED
    BY <1>1 DEF EafIInv, CountFits

\* Connecting and looking at the list change no count.
LEMMA UncountedSteps ==
    ASSUME EafIInv, NEW p \in Hosts, Connects(p) \/ Enumerates(p) \/ Listed(p)
    PROVE  EafIInv'
<1>1. UNCHANGED <<refs, flock, open, upsets>>
    BY DEF Connects, Enumerates, Listed
<1>8. eaf' \in [Hosts -> {"away", "opening", "connected"}]
    BY DEF EafIInv, EafTypeInv, Connects, Enumerates, Listed
<1> DEFINE Records == [pc : {"idle", "list", "busy"}, todo : SUBSET Eafs, held : Eafs \cup {NoEaf}]
<1>9. Away \in Records /\ [pc |-> "list", todo |-> Eafs, held |-> NoEaf] \in Records
    BY DEF Away
<1>10. inventory' \in [Hosts -> Records]
    BY <1>9 DEF EafIInv, EafTypeInv, Connects, Enumerates, Listed
<1>2. EafTypeInv'
    BY <1>1, <1>8, <1>10 DEF EafIInv, EafTypeInv
<1>6. OwnersWant'
    BY DEF EafIInv, EafTypeInv, OwnersWant, Connects, Enumerates, Listed, Away
<1>3. \A q \in Hosts, e \in Eafs : ByPlugin(q, e)' <=> ByPlugin(q, e)
    BY DEF EafIInv, EafTypeInv, ByPlugin, Connects, Enumerates, Listed
<1>4. \A q \in Hosts, e \in Eafs : ByInventory(q, e)' <=> ByInventory(q, e)
    BY EafAssumption DEF EafIInv, EafTypeInv, OwnersWant, ByInventory, Connects, Enumerates, Listed,
       Away
<1>5. \A q \in Hosts, e \in Eafs : CountFits(q, e)'
    BY <1>1, <1>3, <1>4, CountsSame
<1>7. QED
    BY <1>2, <1>5, <1>6 DEF EafIInv

\* connect() that gets the session adds an owner, one that does not changes no count.
LEMMA ConnectedStep == ASSUME EafIInv, NEW p \in Hosts, Connected(p) PROVE EafIInv'
<1> DEFINE e == Wanted[p]
<1>1. e \in Eafs /\ eaf[p] = "opening" /\ UNCHANGED inventory /\ Wanted[p] = e
    BY EafAssumption DEF Connected, EafIInv, OwnersWant
<1> HIDE DEF e
<1>2. CASE OpenFails(p, e)
    <2>1. UNCHANGED <<refs, flock, open>> /\ eaf' = [eaf EXCEPT ![p] = "away"]
        BY <1>1, <1>2, EafAssumption
        DEF Connected, OpenFails, Joins, Opens, Upset, EafIInv, EafTypeInv
    <2>2. upsets' \in 0 .. MaxUpsets
        BY <1>2, EafAssumption DEF OpenFails, Upset, EafIInv, EafTypeInv
    <2>3. EafTypeInv' /\ OwnersWant'
        BY <1>1, <2>1, <2>2 DEF EafIInv, EafTypeInv, OwnersWant
    <2>4. (\A q \in Hosts, d \in Eafs : ByPlugin(q, d)' <=> ByPlugin(q, d))
          /\ \A q \in Hosts, d \in Eafs : ByInventory(q, d)' <=> ByInventory(q, d)
        BY <1>1, <2>1 DEF EafIInv, EafTypeInv, ByPlugin, ByInventory
    <2>5. \A q \in Hosts, d \in Eafs : CountFits(q, d)'
        BY <2>1, <2>4, CountsSame
    <2>6. QED
        BY <2>3, <2>5 DEF EafIInv
<1>3. CASE (Joins(p, e) \/ Opens(p, e)) /\ eaf' = [eaf EXCEPT ![p] = "connected"]
    <2>1. refs[p][e] = Owners(p, e) /\ ~ByPlugin(p, e)
        BY <1>1 DEF EafIInv, CountFits, ByPlugin
    <2>2. refs[p][e] < 2 /\ eaf'[p] = "connected"
        BY <1>3, <2>1 DEF Owners, EafIInv, EafTypeInv
    <2>9. CountsTyped' /\ UNCHANGED upsets /\ Only(p, e) /\ refs'[p][e] = refs[p][e] + 1
          /\ flock'[e] = p /\ <<p, e>> \in open'
        BY <1>1, <1>3, <2>2, Acquired
    <2>3. EafTypeInv' /\ OwnersWant'
        BY <1>1, <1>3, <2>9, EafAssumption DEF EafIInv, EafTypeInv, OwnersWant, CountsTyped
    <2>4. Owners(p, e)' = refs[p][e] + 1
        BY <1>1, <2>1, <2>2 DEF Owners, ByPlugin, ByInventory
    <2>10. refs[p][e] \in 0 .. 2
        BY <1>1 DEF EafIInv, EafTypeInv
    <2>5. refs'[p][e] > 0
        BY <2>9, <2>10
    <2>6. \A q \in Hosts, d \in Eafs : <<q, d>> # <<p, e>> => Owners(q, d)' = Owners(q, d)
        BY <1>1, <1>3 DEF EafIInv, EafTypeInv, Owners, ByPlugin, ByInventory
    <2>7. \A q \in Hosts, d \in Eafs : CountFits(q, d)'
        BY <1>1, <2>4, <2>5, <2>6, <2>9, CountsFit
    <2>8. QED
        BY <2>3, <2>7 DEF EafIInv
<1>4. QED
    BY <1>1, <1>2, <1>3 DEF Connected, e

\* disconnect() takes its owner out.
LEMMA DisconnectsStep == ASSUME EafIInv, NEW p \in Hosts, Disconnects(p) PROVE EafIInv'
<1> DEFINE e == Wanted[p]
<1>1. e \in Eafs /\ eaf[p] = "connected" /\ UNCHANGED <<inventory, upsets>> /\ Wanted[p] = e
      /\ Releases(p, e) /\ eaf' = [eaf EXCEPT ![p] = "away"]
    BY EafAssumption DEF Disconnects, EafIInv, OwnersWant
<1> HIDE DEF e
<1>2. refs[p][e] = Owners(p, e) /\ ByPlugin(p, e)
    BY <1>1 DEF EafIInv, CountFits, ByPlugin
<1>3. refs[p][e] > 0 /\ eaf'[p] = "away"
    BY <1>1, <1>2 DEF Owners, EafIInv, EafTypeInv
<1>9. CountsTyped' /\ Only(p, e) /\ refs'[p][e] = refs[p][e] - 1
      /\ (flock'[e] = p <=> refs'[p][e] > 0) /\ (<<p, e>> \in open' <=> refs'[p][e] > 0)
    BY <1>1, <1>3, Released
<1>4. EafTypeInv' /\ OwnersWant'
    BY <1>1, <1>3, <1>9 DEF EafIInv, EafTypeInv, OwnersWant, CountsTyped
<1>5. Owners(p, e)' = refs[p][e] - 1
    BY <1>1, <1>2, <1>3 DEF Owners, ByPlugin, ByInventory
<1>6. \A q \in Hosts, d \in Eafs : <<q, d>> # <<p, e>> => Owners(q, d)' = Owners(q, d)
    BY <1>1 DEF EafIInv, EafTypeInv, Owners, ByPlugin, ByInventory
<1>7. \A q \in Hosts, d \in Eafs : CountFits(q, d)'
    BY <1>1, <1>5, <1>6, <1>9, CountsFit
<1>8. QED
    BY <1>4, <1>7 DEF EafIInv

\* A process that dies is an owner of nothing.
LEMMA HostDiesStep == ASSUME EafIInv, NEW p \in Hosts, HostDies(p) PROVE EafIInv'
<1>1. eaf'[p] = "away" /\ inventory'[p] = Away /\ flock' \in [Eafs -> Hosts \cup {NoHost}]
      /\ \A q \in Hosts \ {p} : eaf'[q] = eaf[q] /\ inventory'[q] = inventory[q] /\ refs'[q] = refs[q]
    BY DEF HostDies, EafIInv, EafTypeInv
<1>2. refs'[p] = [e \in Eafs |-> 0] /\ refs' \in [Hosts -> [Eafs -> 0 .. 2]]
      /\ upsets' \in 0 .. MaxUpsets
    BY EafAssumption DEF HostDies, Upset, EafIInv, EafTypeInv
<1>3. EafTypeInv' /\ OwnersWant'
    <2>1. Away \in [pc : {"idle", "list", "busy"}, todo : SUBSET Eafs, held : Eafs \cup {NoEaf}]
        BY DEF Away
    <2>2. EafTypeInv'
        BY <1>1, <1>2, <2>1 DEF HostDies, EafIInv, EafTypeInv
    <2>3. QED
        BY <1>1, <2>2 DEF EafIInv, OwnersWant, Away
<1>4. ASSUME NEW q \in Hosts, NEW d \in Eafs PROVE CountFits(q, d)'
    <2>1. flock'[d] = IF flock[d] = p THEN NoHost ELSE flock[d]
        BY DEF HostDies
    <2>2. <<q, d>> \in open' <=> <<q, d>> \in open /\ q # p
        BY DEF HostDies
    <2>3. CASE q = p
        <3>1. refs'[q][d] = 0 /\ Owners(q, d)' = 0
            BY <1>1, <1>2, <2>3, EafAssumption DEF Owners, ByPlugin, ByInventory, Away
        <3>2. QED
            BY <2>1, <2>2, <2>3, <3>1, EafAssumption DEF CountFits
    <2>4. CASE q # p
        <3>1. refs'[q][d] = refs[q][d] /\ Owners(q, d)' = Owners(q, d) /\ CountFits(q, d)
            BY <1>1, <2>4 DEF Owners, ByPlugin, ByInventory, EafIInv
        <3>2. flock'[d] = q <=> flock[d] = q
            BY <2>1, <2>4, EafAssumption
        <3>3. QED
            BY <2>2, <2>4, <3>1, <3>2 DEF CountFits
    <2>5. QED
        BY <2>3, <2>4
<1>5. QED
    BY <1>3, <1>4 DEF EafIInv

\* An inventory that gets at a focuser adds an owner, one that does not passes it over.
LEMMA BorrowsStep ==
    ASSUME EafIInv, NEW p \in Hosts, NEW e \in Eafs, Borrows(p, e) PROVE EafIInv'
<1> DEFINE Records == [pc : {"idle", "list", "busy"}, todo : SUBSET Eafs, held : Eafs \cup {NoEaf}]
<1>1. UNCHANGED eaf /\ inventory[p].pc = "list" /\ inventory[p] \in Records /\ inventory[p].held = NoEaf
    BY DEF Borrows, EafIInv, EafTypeInv, OwnersWant
<1>2. CASE OpenFails(p, e) \/ Refused(p, e)
    <2> DEFINE r == [inventory[p] EXCEPT !.todo = @ \ {e}]
    <2>1. UNCHANGED <<refs, flock, open>> /\ inventory' = [inventory EXCEPT ![p] = r]
          /\ upsets' \in 0 .. MaxUpsets
        BY <1>2, EafAssumption
        DEF Borrows, OpenFails, Refused, Joins, Opens, Upset, EafIInv, EafTypeInv
    <2>2. r \in Records /\ r.pc = "list" /\ r.held = NoEaf
        BY <1>1
    <2> HIDE DEF r
    <2>3. inventory'[p] = r /\ \A q \in Hosts \ {p} : inventory'[q] = inventory[q]
        BY <2>1 DEF EafIInv, EafTypeInv
    <2>4. EafTypeInv' /\ OwnersWant'
        BY <1>1, <2>1, <2>2, <2>3 DEF EafIInv, EafTypeInv, OwnersWant
    <2>5. (\A q \in Hosts, d \in Eafs : ByPlugin(q, d)' <=> ByPlugin(q, d))
          /\ \A q \in Hosts, d \in Eafs : ByInventory(q, d)' <=> ByInventory(q, d)
        BY <1>1, <2>2, <2>3 DEF ByPlugin, ByInventory
    <2>6. \A q \in Hosts, d \in Eafs : CountFits(q, d)'
        BY <2>1, <2>5, CountsSame
    <2>7. QED
        BY <2>4, <2>6 DEF EafIInv
<1>3. CASE /\ Joins(p, e) \/ Opens(p, e)
           /\ inventory' = [inventory EXCEPT ![p].pc = "busy", ![p].held = e]
    <2> DEFINE r == [inventory[p] EXCEPT !.pc = "busy", !.held = e]
    <2>1. inventory' = [inventory EXCEPT ![p] = r]
        BY <1>3
    <2>2. r \in Records /\ r.pc = "busy" /\ r.held = e
        BY <1>1
    <2> HIDE DEF r
    <2>3. inventory'[p] = r /\ \A q \in Hosts \ {p} : inventory'[q] = inventory[q]
        BY <2>1 DEF EafIInv, EafTypeInv
    <2>14. CountFits(p, e)
        BY DEF EafIInv
    <2>4. refs[p][e] = Owners(p, e) /\ ~ByInventory(p, e)
        BY <1>1, <2>14, EafAssumption DEF CountFits, ByInventory
    <2>5. refs[p][e] < 2
        BY <2>4 DEF Owners
    <2>12. CountsTyped' /\ UNCHANGED upsets /\ Only(p, e) /\ refs'[p][e] = refs[p][e] + 1
           /\ flock'[e] = p /\ <<p, e>> \in open'
        BY <1>3, <2>5, Acquired
    <2>13. EafTypeInv'
        BY <1>1, <2>1, <2>2, <2>12 DEF EafIInv, EafTypeInv, CountsTyped
    <2>6. OwnersWant'
        BY <1>1, <2>2, <2>3, EafAssumption DEF EafIInv, OwnersWant
    <2>7. Owners(p, e)' = refs[p][e] + 1
        BY <1>1, <2>2, <2>3, <2>4 DEF Owners, ByPlugin, ByInventory
    <2>15. refs[p][e] \in 0 .. 2
        BY DEF EafIInv, EafTypeInv
    <2>8. refs'[p][e] > 0
        BY <2>12, <2>15
    <2>9. \A q \in Hosts, d \in Eafs : <<q, d>> # <<p, e>> => Owners(q, d)' = Owners(q, d)
        BY <1>1, <2>2, <2>3, EafAssumption DEF Owners, ByPlugin, ByInventory
    <2>10. \A q \in Hosts, d \in Eafs : CountFits(q, d)'
        BY <2>7, <2>8, <2>9, <2>12, CountsFit
    <2>11. QED
        BY <2>6, <2>10, <2>13 DEF EafIInv
<1>4. QED
    BY <1>2, <1>3 DEF Borrows

\* The inventory gives back what it looked at.
LEMMA ReturnsStep == ASSUME EafIInv, NEW p \in Hosts, Returns(p) PROVE EafIInv'
<1> DEFINE Records == [pc : {"idle", "list", "busy"}, todo : SUBSET Eafs, held : Eafs \cup {NoEaf}]
           r(e) == [inventory[p] EXCEPT !.pc = "list", !.held = NoEaf, !.todo = @ \ {e}]
<1>15. PICK e \in Eafs : e = inventory[p].held
    BY DEF Returns, EafIInv, EafTypeInv, OwnersWant
<1>1. e \in Eafs /\ UNCHANGED <<eaf, upsets>> /\ Releases(p, e) /\ inventory[p].held = e
      /\ inventory[p] \in Records
    BY <1>15 DEF Returns, EafIInv, EafTypeInv, OwnersWant
<1>2. inventory' = [inventory EXCEPT ![p] = r(e)]
    BY <1>15 DEF Returns
<1>3. r(e) \in Records /\ r(e).pc = "list" /\ r(e).held = NoEaf
    BY <1>1
<1> HIDE DEF r
<1>4. inventory'[p] = r(e) /\ \A q \in Hosts \ {p} : inventory'[q] = inventory[q]
    BY <1>2 DEF EafIInv, EafTypeInv
<1>5. refs[p][e] = Owners(p, e) /\ ByInventory(p, e)
    BY <1>1 DEF EafIInv, CountFits, ByInventory
<1>6. refs[p][e] > 0
    BY <1>5 DEF Owners
<1>12. CountsTyped' /\ Only(p, e) /\ refs'[p][e] = refs[p][e] - 1
       /\ (flock'[e] = p <=> refs'[p][e] > 0) /\ (<<p, e>> \in open' <=> refs'[p][e] > 0)
    BY <1>1, <1>6, Released
<1>13. EafTypeInv'
    BY <1>1, <1>2, <1>3, <1>12 DEF EafIInv, EafTypeInv, CountsTyped
<1>7. OwnersWant'
    BY <1>1, <1>3, <1>4 DEF EafIInv, OwnersWant
<1>14. (ByPlugin(p, e)' <=> ByPlugin(p, e)) /\ ~ByInventory(p, e)'
    BY <1>1, <1>3, <1>4, EafAssumption DEF ByPlugin, ByInventory
<1>8. Owners(p, e)' = refs[p][e] - 1
    BY <1>5, <1>14 DEF Owners
<1>9. \A q \in Hosts, d \in Eafs : <<q, d>> # <<p, e>> => Owners(q, d)' = Owners(q, d)
    BY <1>1, <1>3, <1>4, EafAssumption DEF Owners, ByPlugin, ByInventory
<1>10. \A q \in Hosts, d \in Eafs : CountFits(q, d)'
    BY <1>1, <1>8, <1>9, <1>12, CountsFit
<1>11. QED
    BY <1>7, <1>10, <1>13 DEF EafIInv

\* Every step of the processes keeps the invariant.
LEMMA EafStep == EafIInv /\ [EafNext]_eafVars => EafIInv'
<1> SUFFICES ASSUME EafIInv, [EafNext]_eafVars PROVE EafIInv'
    OBVIOUS
<1>1. CASE UNCHANGED eafVars
    BY <1>1 DEF eafVars, EafIInv, EafTypeInv, OwnersWant, CountFits, Owners, ByPlugin, ByInventory
<1>2. CASE EafNext
    BY <1>2, UncountedSteps, ConnectedStep, DisconnectsStep, HostDiesStep, BorrowsStep, ReturnsStep
    DEF EafNext
<1>3. QED
    BY <1>1, <1>2

\* At the start nothing is open.
LEMMA EafStarts == EafInit => EafIInv
<1> SUFFICES ASSUME EafInit PROVE EafIInv
    OBVIOUS
<1>1. EafTypeInv
    BY EafAssumption DEF EafInit, EafTypeInv, Away
<1>2. OwnersWant
    BY EafAssumption DEF EafInit, OwnersWant, Away
<1>3. \A p \in Hosts, e \in Eafs : CountFits(p, e)
    BY EafAssumption DEF EafInit, CountFits, Owners, ByPlugin, ByInventory, Away
<1>4. QED
    BY <1>1, <1>2, <1>3 DEF EafIInv

-----------------------------------------------------------------------------
(* The discovery of mounts *)

Shown == [on : BOOLEAN, port : Ports \cup {NoPort}, open : Ports \cup {NoPort},
          vectors : BOOLEAN, tracking : BOOLEAN]
Snapshots == [Drivers -> Shown]
Passes ==
    [pc : {"idle", "scan", "turn", "probe", "cycle", "next", "still", "publish"},
     seen : Snapshots, candidates : SUBSET Ports, memory : Memory, claimed : SUBSET Ports,
     todo : SUBSET Drivers, tried : SUBSET Ports, changed : BOOLEAN, calm : BOOLEAN,
     known : SUBSET Drivers]
\* The steps of a pass that look for mounts at the ports, and those at which one is tried
Looking == {"turn", "probe", "cycle"}
Trying == {"probe", "cycle"}

\* A driver that is on was answered at the port it shows.
Answered(seen) ==
    \A d \in Drivers : seen[d].on => seen[d].port \in Ports /\ d \in Answers[seen[d].port]
\* Before the scan nothing is on that the pass has not seen so, and nothing is tried.
SeenBefore ==
    pass.pc = "scan" =>
        /\ pass.tried = {} /\ ~pass.changed
        /\ \A d \in Drivers : driver[d].on =>
               /\ pass.seen[d].on /\ pass.seen[d].port = driver[d].port
               /\ pass.seen[d].vectors = driver[d].vectors
\* What is learned of a driver is the port at which it is on, in the file and in the pass.
WhereLearned(seen, bindings) ==
    \A d \in Drivers : seen[d].on => bindings[d] \in {NoPort, seen[d].port}
\* The file lags behind the pass.
FileBehind ==
    pass.pc \in Looking \cup {"still", "publish"} =>
        \A d \in Drivers : file.bindings[d] \in {NoPort, pass.memory.bindings[d]}
\* A mount that is to be recovered has a port that was learned.
RequiredLearned ==
    /\ \A d \in file.required : file.bindings[d] # NoPort
    /\ pass.pc \in Looking => \A d \in pass.memory.required : pass.memory.bindings[d] # NoPort
\* The port of a mount that works is claimed, unless it waits for its own reconnect.
PortsClaimed ==
    pass.pc \in Looking =>
        \A d \in Drivers : Works(d) /\ pass.seen[d].on /\ d \notin pass.memory.required =>
            driver[d].open \in pass.claimed
\* The port that is tried is free, is the one that was learned, and its driver is off or is to
\* be connected anew.
TargetFits ==
    pass.pc \in Trying =>
        /\ pass.todo # {} /\ Target \in pass.candidates \ pass.claimed
        /\ pass.memory.bindings[Current] \in {NoPort, Target}
        /\ pass.seen[Current].on =>
               Current \in pass.memory.required \/ HalfConnected(Current, pass.seen)

\* The ports are tried in order.
TriedBehind ==
    pass.pc \in Looking /\ pass.todo # {} =>
        \A p \in pass.tried, q \in ToTry(Current) : p < q

\* In a pass that nothing disturbs:
\* the ports are those of the scan, and a port that was tried has not answered;
PortsStand ==
    pass.calm /\ pass.pc \in Looking =>
        /\ pass.candidates = SerialCandidates
        /\ \A p \in pass.tried :
               pass.pc = "turn" \/ p # Target => p \notin plugged \/ Current \notin Answers[p]
\* a connection that the pass has not seen is one that it made;
SeenUnlessChanged ==
    /\ pass.calm /\ pass.pc \in Looking /\ ~pass.changed =>
           \A d \in Drivers : driver[d].on => pass.seen[d].on
    /\ pass.calm /\ pass.pc \in {"still", "publish"} => \A d \in Drivers : driver[d].on => pass.seen[d].on
\* a connected mount that advertises its tracking, and had its turn, does not track;
StillInTurn ==
    pass.calm /\ pass.pc \in {"still", "publish", "next"} =>
        \A d \in TrackState :
            (pass.pc = "still" => d \notin pass.todo) /\ driver[d].open # NoPort =>
            ~driver[d].tracking
\* a lost mount whose port answers it alone is still to be recovered there, or works.
Reachable(d) ==
    pass.memory.bindings[d] \in SerialCandidates /\ Answers[pass.memory.bindings[d]] = {d}
Recovering ==
    pass.calm =>
        /\ pass.pc = "scan" => pass.known = file.required
        /\ pass.pc \in Looking => \A d \in pass.known : Reachable(d) =>
               IF d \in pass.todo
               THEN d \in pass.memory.required /\ pass.memory.bindings[d] \notin pass.claimed
               ELSE pass.changed /\ Works(d)
        /\ pass.pc \in {"still", "publish"} => \A d \in pass.known : Reachable(d) =>
               Works(d) /\ Present(d, pass.seen)

IndiIInv ==
    /\ IndiTypeInv /\ pass \in Passes /\ Answered(driver) /\ SeenBefore
    /\ pass.pc = "scan" => Answered(pass.seen) /\ WhereLearned(pass.seen, file.bindings)
    /\ WhereLearned(driver, file.bindings)
    /\ pass.pc \in Looking => WhereLearned(driver, pass.memory.bindings)
    /\ FileBehind /\ RequiredLearned /\ PortsClaimed /\ TargetFits /\ TriedBehind
    /\ PortsStand /\ SeenUnlessChanged /\ StillInTurn /\ Recovering /\ PassRecovers

\* The least number of a set, which Current and Turn choose.
LEMMA LeastNumber ==
    ASSUME NEW S \in SUBSET Nat, S # {}
    PROVE  \E x \in S : \A y \in S : x <= y
<1>1. \E x \in S : \A y \in S : ~(<<y, x>> \in OpToRel(<, Nat))
    BY WFMin, NatLessThanWellFounded
<1>2. PICK x \in S : \A y \in S : ~(<<y, x>> \in OpToRel(<, Nat))
    BY <1>1
<1>3. ASSUME NEW y \in S, ~(x <= y)
      PROVE  FALSE
    <2>1. y \in Nat /\ x \in Nat /\ y < x
        BY <1>3
    <2>2. <<y, x>> \in Nat \X Nat
        BY <2>1
    <2>3. <<y, x>> \in OpToRel(<, Nat)
        BY <2>1, <2>2 DEF OpToRel
    <2>4. QED
        BY <1>2, <2>3
<1>4. QED
    BY <1>3

\* A pass turns to a driver that is still to be visited.
LEMMA CurrentToDo ==
    ASSUME pass.todo \subseteq Drivers, pass.todo # {}
    PROVE  Current \in pass.todo
<1>1. pass.todo \in SUBSET Nat
    BY IndiAssumption
<1>2. \E d \in pass.todo : \A e \in pass.todo : d <= e
    BY <1>1, LeastNumber
<1>3. QED
    BY <1>2 DEF Current

\* The ports are numbers, and none is no port.
LEMMA PortNumbers == Ports \subseteq Nat /\ NoPort \notin Ports
BY IndiAssumption DEF NoPort

\* The port that Turn chooses is the first one.
LEMMA LeastPort ==
    ASSUME NEW S \in SUBSET Ports, S # {}
    PROVE  Min(S) \in S /\ \A p \in S : Min(S) <= p
<1>1. \E x \in S : \A y \in S : x <= y
    BY LeastNumber, PortNumbers
<1>2. QED
    BY <1>1 DEF Min

\* The port tried last is the greatest.
LEMMA GreatestPort ==
    ASSUME NEW S \in SUBSET Ports, NEW p \in Ports, \A q \in S : q < p
    PROVE  Max(S \cup {p}) = p
<1>1. \A q \in S \cup {p} : q \in Nat /\ p >= q
    BY PortNumbers
<1>2. \E x \in S \cup {p} : \A y \in S \cup {p} : x >= y
    BY <1>1
<1>3. Max(S \cup {p}) \in S \cup {p} /\ \A y \in S \cup {p} : Max(S \cup {p}) >= y
    BY <1>2 DEF Max
<1>4. QED
    BY <1>1, <1>3

\* What is written, or is not, is what the pass knows or what the file knew.
LEMMA PersistKeeps ==
    ASSUME IndiTypeInv, NEW memory \in Memory,
           \A d \in file.required : file.bindings[d] # NoPort,
           \A d \in memory.required : memory.bindings[d] # NoPort,
           \A d \in Drivers : file.bindings[d] \in {NoPort, memory.bindings[d]},
           Persist(memory) \/ PersistBindings(memory) \/ Unwritten
    PROVE  /\ file' \in Memory /\ failures' \in 0 .. MaxFailures
           /\ \A d \in Drivers : file'.bindings[d] \in {file.bindings[d], memory.bindings[d]}
           /\ \A d \in file'.required : file'.bindings[d] # NoPort
<1> DEFINE Whole == [bindings |-> memory.bindings, required |-> memory.required]
           Partial == [bindings |-> memory.bindings,
                   required |-> {d \in file.required : memory.bindings[d] # NoPort}]
<1>1. failures' \in 0 .. MaxFailures
    BY IndiAssumption DEF IndiTypeInv, Persist, PersistBindings, Unwritten
<1>2. Clean(memory) = Whole
    BY DEF Clean, Memory
<1>3. BindingsOnly(memory) = Partial
    <2>1. PICK m \in Memory : m = [memory EXCEPT !.required = file.required]
        BY DEF Memory, IndiTypeInv
    <2>2. m.bindings = memory.bindings /\ m.required = file.required
        BY <2>1 DEF Memory
    <2>3. Clean(m) = [bindings |-> m.bindings,
                      required |-> {d \in m.required : m.bindings[d] # NoPort}]
        BY DEF Clean, Memory
    <2>4. QED
        BY <2>1, <2>2, <2>3 DEF BindingsOnly
<1>4. file' \in {file, Whole, Partial}
    BY <1>2, <1>3 DEF Persist, PersistBindings, Unwritten
<1>5. Whole \in Memory /\ Partial \in Memory /\ file \in Memory
    BY DEF Memory, IndiTypeInv
<1>6. /\ Whole.bindings = memory.bindings /\ Whole.required = memory.required
      /\ Partial.bindings = memory.bindings
      /\ Partial.required = {d \in file.required : memory.bindings[d] # NoPort}
    OBVIOUS
<1> HIDE DEF Whole, Partial
<1>7. QED
    BY <1>1, <1>4, <1>5, <1>6

\* What a driver shows after its port was opened, or closed.
LEMMA OpenedIs ==
    ASSUME IndiTypeInv, NEW d \in Drivers, NEW v \in BOOLEAN, Target \in Ports
    PROVE  /\ Opened(d, v) \in Snapshots
           /\ Opened(d, v)[d].on /\ Opened(d, v)[d].vectors = v
           /\ Opened(d, v)[d].port = Target /\ Opened(d, v)[d].open = Target
           /\ Opened(d, v)[d].tracking = driver[d].tracking
           /\ \A e \in Drivers \ {d} : Opened(d, v)[e] = driver[e]
<1>1. driver \in Snapshots
    BY DEF IndiTypeInv, Snapshots, Shown
<1>2. driver[d] \in Shown
    BY <1>1 DEF Snapshots
<1>3. PICK s \in Shown : s = [driver[d] EXCEPT !.on = TRUE, !.port = Target, !.open = Target,
                                             !.vectors = v]
    BY <1>2 DEF Shown
<1>4. s.on /\ s.vectors = v /\ s.port = Target /\ s.open = Target /\ s.tracking = driver[d].tracking
    BY <1>2, <1>3 DEF Shown
<1>5. Opened(d, v) = [driver EXCEPT ![d] = s]
    BY <1>3 DEF Opened
<1>6. QED
    BY <1>1, <1>4, <1>5 DEF Snapshots

\* A driver that was closed is off and has no port open.
LEMMA ClosedIs ==
    ASSUME IndiTypeInv, NEW d \in Drivers, NEW p \in Ports \cup {NoPort}
    PROVE  /\ Closed(d, p) \in Snapshots
           /\ ~Closed(d, p)[d].on /\ Closed(d, p)[d].open = NoPort
           /\ \A e \in Drivers \ {d} : Closed(d, p)[e] = driver[e]
<1>1. driver \in Snapshots
    BY DEF IndiTypeInv, Snapshots, Shown
<1>2. driver[d] \in Shown
    BY <1>1 DEF Snapshots
<1>3. PICK s \in Shown : s = [driver[d] EXCEPT !.on = FALSE, !.port = p, !.open = NoPort,
                                             !.vectors = FALSE]
    BY <1>2 DEF Shown
<1>4. ~s.on /\ s.open = NoPort
    BY <1>2, <1>3 DEF Shown
<1>5. Closed(d, p) = [driver EXCEPT ![d] = s]
    BY <1>3 DEF Closed
<1>6. QED
    BY <1>1, <1>4, <1>5 DEF Snapshots

\* What Current, Target and ToTry take from a pass.
LEMMA SameTurn == pass'.todo = pass.todo => Current' = Current
BY DEF Current

LEMMA SameTarget == pass'.tried = pass.tried => Target' = Target
BY DEF Target, Max

LEMMA SameToTry ==
    ASSUME NEW d, pass'.seen = pass.seen, pass'.candidates = pass.candidates,
           pass'.claimed = pass.claimed, pass'.memory = pass.memory, pass'.tried = pass.tried
    PROVE  ToTry(d)' = ToTry(d)
BY DEF ToTry, Free, HalfConnected

\* A port that is to be tried is free, and the one that was learned if there is one.
LEMMA PortsToTry ==
    ASSUME pass \in Passes, RequiredLearned, pass.pc \in Looking, NEW d \in Drivers
    PROVE  /\ ToTry(d) \subseteq (pass.candidates \ pass.claimed) \ pass.tried
           /\ \A p \in ToTry(d) : pass.memory.bindings[d] \in {NoPort, p}
           /\ ToTry(d) # {} /\ pass.seen[d].on =>
                  d \in pass.memory.required \/ HalfConnected(d, pass.seen)
BY DEF ToTry, Free

\* What happens outside changes what a pass in progress can count on, and nothing else.
LEMMA Disturbed ==
    ASSUME IndiIInv, Happens, plugged' \subseteq Ports, driver' \in Snapshots,
           \A d \in Drivers : driver'[d].on =>
               /\ driver[d].on /\ driver'[d].port = driver[d].port
               /\ driver'[d].vectors = driver[d].vectors,
           \A d \in Drivers : driver'[d].open # NoPort =>
               /\ driver'[d].on /\ driver'[d].port = driver'[d].open
               /\ driver'[d].open = driver[d].open /\ driver'[d].open \in plugged'
    PROVE  IndiIInv'
<1>1. /\ pass' \in Passes /\ (pass'.pc = "idle" \/ ~pass'.calm)
      /\ pass'.pc = pass.pc /\ pass'.seen = pass.seen /\ pass'.candidates = pass.candidates
      /\ pass'.memory = pass.memory /\ pass'.claimed = pass.claimed /\ pass'.todo = pass.todo
      /\ pass'.tried = pass.tried /\ pass'.changed = pass.changed /\ pass'.known = pass.known
    BY DEF IndiIInv, Happens, Passes
<1>2. /\ file' = file /\ catalogue' = catalogue /\ failures' = failures
      /\ events' \in 0 .. MaxEvents
    BY IndiAssumption DEF Happens, IndiIInv, IndiTypeInv
<1>3. Current' = Current /\ Target' = Target /\ \A d \in Drivers : ToTry(d)' = ToTry(d)
    BY <1>1, SameTurn, SameTarget, SameToTry
<1>4. IndiTypeInv' /\ pass' \in Passes
    BY <1>1, <1>2 DEF IndiIInv, IndiTypeInv, Snapshots, Shown, Passes
<1>5. /\ Answered(driver)' /\ SeenBefore' /\ WhereLearned(driver, file.bindings)'
      /\ pass'.pc = "scan" => Answered(pass.seen)' /\ WhereLearned(pass.seen, file.bindings)'
      /\ pass'.pc \in Looking => WhereLearned(driver, pass.memory.bindings)'
    BY <1>1, <1>2 DEF IndiIInv, Answered, SeenBefore, WhereLearned
<1>6. FileBehind' /\ RequiredLearned'
    BY <1>1, <1>2 DEF IndiIInv, FileBehind, RequiredLearned
<1>7. PortsClaimed'
    <2>1. \A d \in Drivers : Works(d)' => Works(d) /\ driver'[d].open = driver[d].open
        BY <1>4 DEF Works, HalfConnected
    <2>2. QED
        BY <1>1, <2>1 DEF IndiIInv, PortsClaimed
<1>8. TargetFits'
    BY <1>1, <1>3 DEF IndiIInv, TargetFits, HalfConnected
<1>9. TriedBehind'
    <2>1. pass'.todo # {} => Current' \in Drivers
        BY <1>1, <1>3, CurrentToDo DEF IndiIInv, Passes
    <2>2. QED
        BY <1>1, <1>3, <2>1 DEF IndiIInv, TriedBehind
<1>10. PortsStand' /\ SeenUnlessChanged' /\ StillInTurn' /\ Recovering' /\ PassRecovers'
    BY <1>1 DEF PortsStand, SeenUnlessChanged, StillInTurn, Recovering, PassRecovers, Undisturbed,
                Looking
<1>11. QED
    BY <1>4, <1>5, <1>6, <1>7, <1>8, <1>9, <1>10 DEF IndiIInv

\* Cables, restarts of drivers and sidereal tracking disturb a pass in this way.
LEMMA DisturbingSteps ==
    ASSUME IndiIInv,
           \/ \E p \in Ports : Plug(p) \/ Unplug(p)
           \/ \E d \in Drivers : DriverRestarts(d) \/ TrackingStarts(d)
    PROVE  IndiIInv'
<1>1. driver \in Snapshots /\ plugged \subseteq Ports
    BY DEF IndiIInv, IndiTypeInv, Snapshots, Shown
<1>2. \A d \in Drivers : driver[d].open # NoPort =>
          driver[d].on /\ driver[d].port = driver[d].open /\ driver[d].open \in plugged
    BY DEF IndiIInv, IndiTypeInv
<1>3. ASSUME NEW p \in Ports, Plug(p)
      PROVE  IndiIInv'
    BY <1>1, <1>2, <1>3, Disturbed DEF Plug
<1>4. ASSUME NEW p \in Ports, Unplug(p)
      PROVE  IndiIInv'
    <2>1. plugged' \subseteq Ports /\ plugged' = plugged \ {p} /\ Happens
        BY <1>1, <1>4 DEF Unplug
    <2>2. ASSUME NEW d \in Drivers
          PROVE  /\ driver'[d] \in Shown /\ driver'[d].open \in {NoPort, driver[d].open}
                 /\ driver'[d].on = driver[d].on /\ driver'[d].port = driver[d].port
                 /\ driver'[d].vectors = driver[d].vectors
                 /\ driver'[d].open # p
        <3>1. driver[d] \in Shown
            BY <1>1 DEF Snapshots
        <3>2. driver'[d] = IF driver[d].open = p THEN [driver[d] EXCEPT !.open = NoPort]
                           ELSE driver[d]
            BY <1>4 DEF Unplug
        <3>3. QED
            BY <3>1, <3>2, PortNumbers DEF Shown
    <2>3. driver' \in Snapshots
        BY <1>4, <2>2 DEF Unplug, Snapshots
    <2>4. QED
        BY <1>2, <2>1, <2>2, <2>3, Disturbed
<1>5. ASSUME NEW c \in Drivers, DriverRestarts(c)
      PROVE  IndiIInv'
    <2>1. PICK s \in Shown : s = [Off EXCEPT !.tracking = driver[c].tracking]
        BY <1>1 DEF Off, Shown, Snapshots
    <2>2. ~s.on /\ s.open = NoPort
        BY <2>1 DEF Off
    <2>3. driver' = [driver EXCEPT ![c] = s] /\ plugged' = plugged /\ Happens
        BY <1>5, <2>1 DEF DriverRestarts
    <2>4. driver' \in Snapshots
        BY <1>1, <2>3 DEF Snapshots
    <2>5. \A d \in Drivers : driver'[d] = IF d = c THEN s ELSE driver[d]
        BY <1>1, <2>3 DEF Snapshots
    <2>6. QED
        BY <1>1, <1>2, <2>2, <2>3, <2>4, <2>5, Disturbed
<1>6. ASSUME NEW c \in Drivers, TrackingStarts(c)
      PROVE  IndiIInv'
    <2>1. driver[c] \in Shown
        BY <1>1 DEF Snapshots
    <2>2. PICK s \in Shown : s = [driver[c] EXCEPT !.tracking = TRUE]
        BY <2>1 DEF Shown
    <2>3. /\ s.on = driver[c].on /\ s.port = driver[c].port /\ s.open = driver[c].open
          /\ s.vectors = driver[c].vectors
        BY <2>1, <2>2 DEF Shown
    <2>4. driver' = [driver EXCEPT ![c] = s] /\ plugged' = plugged /\ Happens
        BY <1>6, <2>2 DEF TrackingStarts
    <2>5. driver' \in Snapshots
        BY <1>1, <2>4 DEF Snapshots
    <2>6. \A d \in Drivers : driver'[d] = IF d = c THEN s ELSE driver[d]
        BY <1>1, <2>4 DEF Snapshots
    <2>7. QED
        BY <1>1, <1>2, <2>3, <2>4, <2>5, <2>6, Disturbed
<1>7. QED
    BY <1>3, <1>4, <1>5, <1>6

\* Before the first pass nothing is learned, and what is connected was answered.
LEMMA IndiStarts == IndiInit => IndiIInv
<1> SUFFICES ASSUME IndiInit
             PROVE  IndiIInv
    OBVIOUS
<1>1. pass.pc = "idle" /\ pass \in Passes /\ file = Fresh /\ file \in Memory
    BY DEF IndiInit, Idle, Passes, Fresh, Memory, Off, Snapshots, Shown, NoPort
<1>2. PICK f \in [Drivers -> plugged \cup {NoPort}] :
          /\ \A d \in Drivers : f[d] # NoPort => d \in Answers[f[d]]
          /\ driver = [d \in Drivers |->
                IF f[d] = NoPort THEN [Off EXCEPT !.tracking = TRUE]
                ELSE [on |-> TRUE, port |-> f[d], open |-> f[d], vectors |-> d \in OnStep,
                      tracking |-> TRUE]]
    BY DEF IndiInit
<1>3. plugged \subseteq Ports
    BY DEF IndiInit
<1>4. PICK o \in Shown : o = [Off EXCEPT !.tracking = TRUE]
    BY DEF Off, Shown
<1>5. ASSUME NEW d \in Drivers
      PROVE  /\ driver[d] \in Shown
             /\ driver[d].open # NoPort =>
                    driver[d].on /\ driver[d].port = driver[d].open /\ driver[d].open \in plugged
             /\ driver[d].on => driver[d].port \in Ports /\ d \in Answers[driver[d].port]
    <2>1. f[d] \in plugged \cup {NoPort} /\ (f[d] # NoPort => d \in Answers[f[d]])
        BY <1>2
    <2>2. driver[d] = IF f[d] = NoPort
                      THEN o
                      ELSE [on |-> TRUE, port |-> f[d], open |-> f[d], vectors |-> d \in OnStep,
                            tracking |-> TRUE]
        BY <1>2, <1>4
    <2>3. CASE f[d] = NoPort
        <3>1. ~o.on /\ o.open = NoPort
            BY <1>4 DEF Off
        <3>2. QED
            BY <1>4, <2>2, <2>3, <3>1
    <2>4. CASE f[d] # NoPort
        BY <1>3, <2>1, <2>2, <2>4 DEF Shown
    <2>5. QED
        BY <2>3, <2>4
<1>6. IndiTypeInv /\ Answered(driver)
    <2>1. driver \in [Drivers -> Shown]
        BY <1>2, <1>5
    <2>2. events \in 0 .. MaxEvents /\ failures \in 0 .. MaxFailures /\ catalogue = {}
        BY IndiAssumption DEF IndiInit
    <2>3. QED
        BY <1>1, <1>3, <1>5, <2>1, <2>2 DEF IndiTypeInv, Passes, Answered, Shown
<1>7. WhereLearned(driver, file.bindings) /\ RequiredLearned
    BY <1>1 DEF WhereLearned, RequiredLearned, Fresh, Looking
<1>8. QED
    BY <1>1, <1>6, <1>7
    DEF IndiIInv, SeenBefore, FileBehind, PortsClaimed, TargetFits, TriedBehind, PortsStand,
        SeenUnlessChanged, StillInTurn, Recovering, PassRecovers, Undisturbed, Looking, Trying

\* A pass begins with what the file and the first snapshot say.
LEMMA DiscoverStep == ASSUME IndiIInv, Discover PROVE IndiIInv'
<1>1. /\ pass' \in Passes /\ pass'.pc = "scan" /\ pass'.seen = driver /\ pass'.tried = {}
      /\ ~pass'.changed /\ pass'.known = file.required
    BY DEF Discover, IndiIInv, IndiTypeInv, Idle, Passes, Fresh, Memory, Snapshots, Shown, NoPort
<1>2. UNCHANGED <<plugged, driver, file, catalogue, events, failures>>
    BY DEF Discover
<1>3. IndiTypeInv' /\ Answered(driver)' /\ WhereLearned(driver, file.bindings)' /\ RequiredLearned'
    BY <1>1, <1>2
    DEF IndiIInv, IndiTypeInv, Passes, Answered, WhereLearned, RequiredLearned, Looking
<1>4. SeenBefore' /\ Answered(pass.seen)' /\ WhereLearned(pass.seen, file.bindings)'
    BY <1>1, <1>2 DEF IndiIInv, SeenBefore, Answered, WhereLearned
<1>5. QED
    BY <1>1, <1>2, <1>3, <1>4
    DEF IndiIInv, FileBehind, PortsClaimed, TargetFits, TriedBehind, PortsStand,
        SeenUnlessChanged, StillInTurn, Recovering, PassRecovers, Undisturbed, Looking, Trying

\* What the scan has learned of each driver.
LEMMA LearnedIs ==
    ASSUME IndiIInv, pass.pc = "scan"
    PROVE  /\ Learned(file.bindings, pass.seen) \in [Drivers -> Ports \cup {NoPort}]
           /\ \A d \in Drivers :
                  /\ Learned(file.bindings, pass.seen)[d] \in {file.bindings[d], LivePort(d, pass.seen)}
                  /\ file.bindings[d] \in {NoPort, Learned(file.bindings, pass.seen)[d]}
                  /\ driver[d].on => Learned(file.bindings, pass.seen)[d] \in {NoPort, driver[d].port}
<1>1. /\ plugged \subseteq Ports /\ file.bindings \in [Drivers -> Ports \cup {NoPort}]
      /\ pass.seen \in Snapshots /\ NoPort \notin Ports
    BY PortNumbers DEF IndiIInv, IndiTypeInv, Memory, Passes
<1>2. ASSUME NEW d \in Drivers
      PROVE  /\ LivePort(d, pass.seen) \in Ports \cup {NoPort}
             /\ LivePort(d, pass.seen) # NoPort =>
                    pass.seen[d].on /\ pass.seen[d].port = LivePort(d, pass.seen)
    BY <1>1 DEF LivePort
<1>3. \A d \in Drivers : pass.seen[d].on => file.bindings[d] \in {NoPort, pass.seen[d].port}
    BY DEF IndiIInv, WhereLearned
<1>4. \A d \in Drivers : driver[d].on => pass.seen[d].on /\ pass.seen[d].port = driver[d].port
    BY DEF IndiIInv, SeenBefore
<1>5. ASSUME NEW d \in Drivers
      PROVE  /\ Learned(file.bindings, pass.seen)[d] \in Ports \cup {NoPort}
             /\ \/ Learned(file.bindings, pass.seen)[d] = file.bindings[d]
                \/ /\ Learned(file.bindings, pass.seen)[d] = LivePort(d, pass.seen)
                   /\ LivePort(d, pass.seen) # NoPort
    BY <1>1, <1>2 DEF Learned
<1>6. Learned(file.bindings, pass.seen) \in [Drivers -> Ports \cup {NoPort}]
    BY <1>5 DEF Learned
<1>7. QED
    BY <1>2, <1>3, <1>4, <1>5, <1>6

\* The scan learns the ports of the mounts that work, and claims them.
LEMMA ScanStep == ASSUME IndiIInv, Scan PROVE IndiIInv'
<1> DEFINE bindings == Learned(file.bindings, pass.seen)
           required == file.required \cup Stale(bindings, pass.seen)
           memory == [bindings |-> bindings, required |-> required]
           freed == {bindings[d] : d \in {d \in Stale(bindings, pass.seen) :
                                                LivePort(d, pass.seen) = bindings[d]}}
           shared == {LivePort(d, pass.seen) : d \in {d \in Drivers :
                       \E e \in Drivers \ {d} : LivePort(d, pass.seen) = LivePort(e, pass.seen)}}
           claimed == Claimed(file.required, pass.seen) \ (freed \ shared)
<1>1. /\ pass.pc = "scan" /\ UNCHANGED <<plugged, driver, catalogue, events>>
      /\ pass' = [pass EXCEPT !.pc = "turn", !.candidates = SerialCandidates, !.memory = memory,
                     !.claimed = claimed, !.todo = Drivers]
      /\ Persist(memory) \/ PersistBindings(memory) \/ Unwritten
    BY DEF Scan
<1>2. /\ bindings \in [Drivers -> Ports \cup {NoPort}]
      /\ \A d \in Drivers :
             /\ bindings[d] \in {file.bindings[d], LivePort(d, pass.seen)}
             /\ file.bindings[d] \in {NoPort, bindings[d]}
             /\ driver[d].on => bindings[d] \in {NoPort, driver[d].port}
    BY <1>1, LearnedIs
<1> HIDE DEF bindings
<1>3. /\ Stale(bindings, pass.seen) \subseteq Drivers
      /\ \A d \in Stale(bindings, pass.seen) : bindings[d] # NoPort
    BY DEF Stale
<1>4. file \in Memory /\ file.required \subseteq Drivers /\ \A d \in file.required : file.bindings[d] # NoPort
    BY DEF IndiIInv, IndiTypeInv, Memory, RequiredLearned
<1>5. /\ memory \in Memory /\ memory.bindings = bindings /\ memory.required = required
      /\ \A d \in required : bindings[d] # NoPort
    BY <1>2, <1>3, <1>4 DEF Memory
<1>6. claimed \subseteq Ports /\ claimed \subseteq Claimed(file.required, pass.seen)
    BY DEF Claimed, LivePort, IndiIInv, IndiTypeInv
<1> HIDE DEF memory, required, claimed
<1>7. /\ pass' \in Passes /\ pass'.pc = "turn" /\ pass'.seen = pass.seen
      /\ pass'.candidates = SerialCandidates /\ pass'.memory = memory /\ pass'.claimed = claimed
      /\ pass'.todo = Drivers /\ pass'.tried = {} /\ ~pass'.changed /\ pass'.calm = pass.calm
      /\ pass'.known = pass.known
    <2>1. SerialCandidates \subseteq Ports
        BY DEF SerialCandidates, IndiIInv, IndiTypeInv
    <2>2. pass.tried = {} /\ ~pass.changed /\ pass \in Passes
        BY <1>1 DEF IndiIInv, SeenBefore
    <2>3. QED
        BY <1>1, <1>5, <1>6, <2>1, <2>2 DEF Passes
<1>8. /\ file' \in Memory /\ failures' \in 0 .. MaxFailures
      /\ \A d \in Drivers : file'.bindings[d] \in {file.bindings[d], bindings[d]}
      /\ \A d \in file'.required : file'.bindings[d] # NoPort
    BY <1>1, <1>2, <1>4, <1>5, PersistKeeps DEF IndiIInv
<1>9. IndiTypeInv' /\ Answered(driver)'
    BY <1>1, <1>7, <1>8 DEF IndiIInv, IndiTypeInv, Passes, Answered
<1>10. /\ WhereLearned(driver, file.bindings)' /\ WhereLearned(driver, pass.memory.bindings)'
       /\ FileBehind' /\ RequiredLearned'
    BY <1>1, <1>2, <1>5, <1>7, <1>8
    DEF IndiIInv, WhereLearned, FileBehind, RequiredLearned, Looking
<1>11. PortsClaimed'
    <2> SUFFICES ASSUME NEW d \in Drivers, Works(d), pass.seen[d].on, d \notin required
                 PROVE  driver[d].open \in claimed
        BY <1>1, <1>5, <1>7 DEF PortsClaimed, Works, HalfConnected
    <2>1. LivePort(d, pass.seen) = driver[d].open /\ driver[d].open # NoPort
        BY <1>1 DEF IndiIInv, IndiTypeInv, SeenBefore, Works, LivePort
    <2>2. driver[d].open \in Claimed(file.required, pass.seen)
        BY <2>1 DEF Claimed, required
    <2>3. driver[d].open \in freed => driver[d].open \in shared
        BY <1>3, <2>1 DEF required
    <2>4. QED
        BY <2>2, <2>3 DEF claimed
<1>12. PortsStand' /\ SeenUnlessChanged'
    BY <1>1, <1>7 DEF IndiIInv, PortsStand, SeenUnlessChanged, SerialCandidates, SeenBefore
<1>13. Recovering'
    <2> SUFFICES ASSUME pass.calm, NEW d \in pass.known, bindings[d] \in SerialCandidates,
                        Answers[bindings[d]] = {d}
                 PROVE  d \in Drivers /\ d \in required /\ bindings[d] \notin claimed
        BY <1>1, <1>5, <1>7 DEF Recovering, Reachable, SerialCandidates, Looking
    <2>1. d \in file.required
        BY <1>1 DEF IndiIInv, Recovering
    <2>2. ASSUME NEW e \in Drivers \ file.required, LivePort(e, pass.seen) # NoPort,
                 LivePort(e, pass.seen) = bindings[d]
          PROVE  FALSE
        BY <1>1, <2>1, <2>2 DEF LivePort, IndiIInv, Answered
    <2>3. QED
        BY <1>4, <1>6, <2>1, <2>2 DEF Claimed, required
<1>14. QED
    BY <1>7, <1>9, <1>10, <1>11, <1>12, <1>13
    DEF IndiIInv, SeenBefore, TargetFits, TriedBehind, StillInTurn, PassRecovers, Undisturbed,
        Trying

\* A driver has its turn: there is no port left for it, or it tries the next one.
LEMMA TurnStep == ASSUME IndiIInv, Turn PROVE IndiIInv'
<1>1. /\ pass.pc = "turn" /\ pass.todo # {} /\ pass \in Passes
      /\ UNCHANGED <<plugged, driver, file, catalogue, events, failures>>
    BY DEF Turn, IndiIInv
<1>2. Current \in pass.todo /\ Current \in Drivers
    BY <1>1, CurrentToDo DEF Passes
<1>3. /\ ToTry(Current) \subseteq (pass.candidates \ pass.claimed) \ pass.tried
      /\ ToTry(Current) \subseteq Ports
      /\ \A p \in ToTry(Current) : pass.memory.bindings[Current] \in {NoPort, p}
      /\ ToTry(Current) # {} /\ pass.seen[Current].on =>
             Current \in pass.memory.required \/ HalfConnected(Current, pass.seen)
    BY <1>1, <1>2, PortsToTry DEF IndiIInv, Looking, Passes
\* What a step of the pass alone leaves as it is
<1> DEFINE SamePass == /\ pass'.seen = pass.seen /\ pass'.candidates = pass.candidates
                       /\ pass'.memory = pass.memory /\ pass'.claimed = pass.claimed
                       /\ pass'.changed = pass.changed /\ pass'.calm = pass.calm
                       /\ pass'.known = pass.known
<1>4. ASSUME SamePass, pass' \in Passes, pass'.pc \in Looking
      PROVE  /\ IndiTypeInv' /\ Answered(driver)' /\ SeenBefore' /\ FileBehind' /\ RequiredLearned'
             /\ WhereLearned(driver, file.bindings)' /\ WhereLearned(driver, pass.memory.bindings)'
             /\ PortsClaimed' /\ SeenUnlessChanged' /\ StillInTurn' /\ PassRecovers'
    <2>1. IndiTypeInv' /\ Answered(driver)' /\ SeenBefore' /\ FileBehind' /\ RequiredLearned'
        BY <1>1, <1>4
        DEF IndiIInv, IndiTypeInv, Passes, Answered, SeenBefore, FileBehind, RequiredLearned, Looking
    <2>2. WhereLearned(driver, file.bindings)' /\ WhereLearned(driver, pass.memory.bindings)'
        BY <1>1, <1>4 DEF IndiIInv, WhereLearned, Looking
    <2>3. PortsClaimed' /\ SeenUnlessChanged' /\ StillInTurn' /\ PassRecovers'
        BY <1>1, <1>4
        DEF IndiIInv, PortsClaimed, Works, HalfConnected, SeenUnlessChanged, StillInTurn,
            PassRecovers, Undisturbed, Looking
    <2>4. QED
        BY <2>1, <2>2, <2>3
<1>5. CASE ToTry(Current) = {}
    <2>1. /\ pass' \in Passes /\ pass'.pc = "turn" /\ SamePass
          /\ pass'.todo = pass.todo \ {Current} /\ pass'.tried = {}
        BY <1>1, <1>5 DEF Turn, Passes
    <2>2. PortsStand'
        BY <1>1, <2>1 DEF IndiIInv, PortsStand, SerialCandidates, Looking
    <2>3. Recovering'
        <3>1. ASSUME pass.calm, Current \in pass.known, Reachable(Current)
              PROVE  FALSE
            <4>1. Current \in pass.memory.required /\ pass.memory.bindings[Current] \notin pass.claimed
                BY <1>1, <1>2, <3>1 DEF IndiIInv, Recovering, Looking
            <4>2. /\ pass.memory.bindings[Current] \in plugged
                  /\ pass.memory.bindings[Current] \in pass.candidates
                  /\ pass.memory.bindings[Current] # NoPort
                  /\ Current \in Answers[pass.memory.bindings[Current]]
                BY <1>1, <3>1, PortNumbers
                DEF IndiIInv, IndiTypeInv, PortsStand, Reachable, SerialCandidates, Looking
            <4>3. pass.memory.bindings[Current] \in pass.tried
                BY <1>5, <4>1, <4>2 DEF ToTry, Free
            <4>4. QED
                BY <1>1, <3>1, <4>2, <4>3 DEF IndiIInv, PortsStand, Looking
        <3>2. ASSUME NEW d \in pass.known
              PROVE  Reachable(d)' = Reachable(d) /\ Works(d)' = Works(d)
            BY <1>1, <2>1 DEF Reachable, Works, HalfConnected, SerialCandidates
        <3>3. QED
            BY <1>1, <2>1, <3>1, <3>2 DEF IndiIInv, Recovering, Looking
    <2>4. QED
        BY <1>4, <2>1, <2>2, <2>3 DEF IndiIInv, TargetFits, TriedBehind, Looking, Trying
<1>6. CASE ToTry(Current) # {}
    <2> DEFINE next == Min(ToTry(Current))
    <2>1. next \in ToTry(Current) /\ next \in Ports /\ \A p \in ToTry(Current) : next <= p
        BY <1>3, <1>6, LeastPort
    <2> HIDE DEF next
    <2>2. /\ pass' \in Passes /\ pass'.pc \in Trying /\ SamePass
          /\ pass'.todo = pass.todo /\ pass'.tried = pass.tried \cup {next}
        BY <1>1, <1>6, <2>1 DEF Turn, Passes, Trying, next
    <2>3. Target' = next
        <3>1. \A q \in pass.tried : q < next
            BY <1>1, <2>1 DEF IndiIInv, TriedBehind, Looking
        <3>2. Max(pass.tried \cup {next}) = next
            BY <1>1, <2>1, <3>1, GreatestPort DEF Passes
        <3>3. QED
            BY <2>2, <3>2 DEF Target
    <2>4. Current' = Current
        BY <2>2, SameTurn
    <2>5. TargetFits'
        BY <1>1, <1>3, <1>6, <2>1, <2>2, <2>3, <2>4 DEF TargetFits, HalfConnected
    <2>6. TriedBehind'
        <3>1. ToTry(Current)' \subseteq ToTry(Current) \ {next}
            BY <2>2, <2>4 DEF ToTry, Free, HalfConnected
        <3>2. \A q \in ToTry(Current)' : next < q
            BY <1>3, <2>1, <3>1, PortNumbers
        <3>3. \A p \in pass.tried, q \in ToTry(Current) : p < q
            BY <1>1 DEF IndiIInv, TriedBehind, Looking
        <3>4. QED
            BY <2>2, <3>1, <3>2, <3>3 DEF TriedBehind
    <2>7. PortsStand'
        BY <1>1, <2>2, <2>3, <2>4 DEF IndiIInv, PortsStand, SerialCandidates, Looking, Trying
    <2>8. Recovering'
        <3>1. ASSUME NEW d \in pass.known
              PROVE  Reachable(d)' = Reachable(d) /\ Works(d)' = Works(d)
            BY <1>1, <2>2 DEF Reachable, Works, HalfConnected, SerialCandidates
        <3>2. QED
            BY <1>1, <2>2, <3>1 DEF IndiIInv, Recovering, Looking, Trying
    <2>9. QED
        BY <1>4, <2>2, <2>5, <2>6, <2>7, <2>8 DEF IndiIInv, Looking, Trying
<1>7. QED
    BY <1>5, <1>6

\* A step at a port leaves the other drivers as they are.
LEMMA OthersWork ==
    ASSUME NEW d \in Drivers, \A e \in Drivers \ {d} : driver'[e] = driver[e]
    PROVE  \A e \in Drivers \ {d} : Works(e)' = Works(e)
BY DEF Works, HalfConnected

\* The facts about the port that is tried
LEMMA TryingAt ==
    ASSUME IndiIInv, pass.pc \in Trying
    PROVE  /\ pass \in Passes /\ Current \in pass.todo /\ Current \in Drivers
           /\ Target \in Ports /\ Target # NoPort /\ Target \in pass.candidates \ pass.claimed
           /\ pass.memory.bindings[Current] \in {NoPort, Target}
           /\ file.bindings[Current] \in {NoPort, Target}
           /\ pass.seen[Current].on =>
                  Current \in pass.memory.required \/ HalfConnected(Current, pass.seen)
<1>1. pass \in Passes /\ pass.todo # {}
    BY DEF IndiIInv, TargetFits
<1>2. Current \in pass.todo /\ Current \in Drivers
    BY <1>1, CurrentToDo DEF Passes
<1>3. /\ Target \in pass.candidates \ pass.claimed
      /\ pass.memory.bindings[Current] \in {NoPort, Target}
      /\ pass.seen[Current].on =>
             Current \in pass.memory.required \/ HalfConnected(Current, pass.seen)
    BY DEF IndiIInv, TargetFits
<1>4. Target \in Ports /\ Target # NoPort
    BY <1>1, <1>3, PortNumbers DEF Passes
<1>5. file.bindings[Current] \in {NoPort, pass.memory.bindings[Current]}
    BY <1>2 DEF IndiIInv, FileBehind, Looking, Trying
<1>6. QED
    BY <1>1, <1>2, <1>3, <1>4, <1>5

\* A mount that answers is claimed, learned and recovered.
LEMMA GainedStep ==
    ASSUME IndiIInv, pass.pc \in Trying, Responds(Current), Gained(Current),
           UNCHANGED <<plugged, catalogue, events>>
    PROVE  IndiIInv'
<1>0. PICK d : d = Current
    OBVIOUS
<1> DEFINE memory == [bindings |-> [pass.memory.bindings EXCEPT ![d] = Target],
                      required |-> pass.memory.required \ {d}]
<1>1. /\ pass \in Passes /\ d \in pass.todo /\ d \in Drivers
      /\ Target \in Ports /\ Target # NoPort /\ Target \in pass.candidates \ pass.claimed
      /\ pass.memory.bindings[d] \in {NoPort, Target} /\ file.bindings[d] \in {NoPort, Target}
    BY <1>0, TryingAt
<1>2. Target \in plugged /\ d \in Answers[Target]
    BY <1>0 DEF Responds
<1>3. /\ driver' = Opened(d, d \in OnStep)
      /\ pass' = [pass EXCEPT !.pc = "turn", !.claimed = @ \cup {Target}, !.memory = memory,
                     !.todo = @ \ {d}, !.tried = {}, !.changed = TRUE]
      /\ Persist(memory) \/ PersistBindings(memory) \/ Unwritten
    BY <1>0 DEF Gained
<1>4. /\ driver' \in Snapshots /\ driver'[d].on /\ (d \in OnStep => driver'[d].vectors)
      /\ driver'[d].port = Target /\ driver'[d].open = Target
      /\ \A e \in Drivers \ {d} : driver'[e] = driver[e]
    <2>1. PICK v \in BOOLEAN : driver' = Opened(d, v) /\ (d \in OnStep => v)
        <3>1. CASE d \in OnStep
            BY <1>3, <3>1, Zenon
        <3>2. CASE d \notin OnStep
            <4>1. (d \in OnStep) = FALSE
                BY <3>2
            <4>2. driver' = Opened(d, FALSE)
                BY <1>3, <4>1, Zenon
            <4>3. QED
                BY <3>2, <4>2
        <3>3. QED
            BY <3>1, <3>2
    <2>2. /\ Opened(d, v) \in Snapshots /\ Opened(d, v)[d].on /\ Opened(d, v)[d].vectors = v
          /\ Opened(d, v)[d].port = Target /\ Opened(d, v)[d].open = Target
          /\ \A e \in Drivers \ {d} : Opened(d, v)[e] = driver[e]
        BY <1>1, OpenedIs DEF IndiIInv
    <2>3. QED
        BY <2>1, <2>2
<1>5. /\ memory \in Memory /\ memory.required = pass.memory.required \ {d}
      /\ memory.bindings[d] = Target
      /\ \A e \in Drivers \ {d} : memory.bindings[e] = pass.memory.bindings[e]
    BY <1>1 DEF Passes, Memory
<1> HIDE DEF memory
<1>6. /\ pass' \in Passes /\ pass'.pc = "turn" /\ pass'.seen = pass.seen
      /\ pass'.candidates = pass.candidates /\ pass'.memory = memory
      /\ pass'.claimed = pass.claimed \cup {Target} /\ pass'.todo = pass.todo \ {d}
      /\ pass'.tried = {} /\ pass'.changed /\ pass'.calm = pass.calm /\ pass'.known = pass.known
    BY <1>1, <1>3, <1>5 DEF Passes
<1>7. /\ file' \in Memory /\ failures' \in 0 .. MaxFailures
      /\ \A e \in Drivers : file'.bindings[e] \in {file.bindings[e], memory.bindings[e]}
      /\ \A e \in file'.required : file'.bindings[e] # NoPort
    <2>1. \A e \in Drivers : file.bindings[e] \in {NoPort, memory.bindings[e]}
        BY <1>1, <1>5 DEF IndiIInv, FileBehind, Looking, Trying
    <2>2. \A e \in memory.required : memory.bindings[e] # NoPort
        BY <1>1, <1>5 DEF IndiIInv, RequiredLearned, Looking, Trying, Passes, Memory
    <2>3. QED
        BY <1>3, <1>5, <2>1, <2>2, PersistKeeps DEF IndiIInv, RequiredLearned
<1>8. IndiTypeInv' /\ Answered(driver)'
    <2>1. \A e \in Drivers : driver'[e].open # NoPort =>
              driver'[e].on /\ driver'[e].port = driver'[e].open /\ driver'[e].open \in plugged
        BY <1>2, <1>4 DEF IndiIInv, IndiTypeInv
    <2>2. Answered(driver)'
        BY <1>1, <1>2, <1>4 DEF IndiIInv, Answered
    <2>3. QED
        BY <1>4, <1>6, <1>7, <2>1, <2>2 DEF IndiIInv, IndiTypeInv, Passes, Snapshots, Shown
<1>9. /\ WhereLearned(driver, file.bindings)' /\ WhereLearned(driver, pass.memory.bindings)'
      /\ FileBehind' /\ RequiredLearned'
    <2>1. WhereLearned(driver, pass.memory.bindings)'
        BY <1>4, <1>5, <1>6 DEF IndiIInv, WhereLearned, Looking, Trying
    <2>2. WhereLearned(driver, file.bindings)'
        <3>1. ASSUME NEW e \in Drivers \ {d}, driver'[e].on
              PROVE  file'.bindings[e] \in {NoPort, driver'[e].port}
            BY <1>4, <1>5, <1>7, <3>1 DEF IndiIInv, WhereLearned, Looking, Trying
        <3>2. file'.bindings[d] \in {NoPort, Target}
            BY <1>1, <1>5, <1>7
        <3>3. QED
            BY <1>4, <3>1, <3>2 DEF WhereLearned
    <2>3. FileBehind'
        <3>1. \A e \in Drivers : file.bindings[e] \in {NoPort, memory.bindings[e]}
            BY <1>1, <1>5 DEF IndiIInv, FileBehind, Looking, Trying
        <3>2. QED
            BY <1>6, <1>7, <3>1 DEF FileBehind
    <2>4. RequiredLearned'
        BY <1>1, <1>5, <1>6, <1>7 DEF IndiIInv, RequiredLearned, Looking, Trying, Passes, Memory
    <2>5. QED
        BY <2>1, <2>2, <2>3, <2>4
<1>10. \A e \in Drivers \ {d} : Works(e)' = Works(e)
    BY <1>1, <1>4, OthersWork
<1>11. PortsClaimed'
    BY <1>4, <1>5, <1>6, <1>10 DEF IndiIInv, PortsClaimed, Looking, Trying
<1>12. PortsStand' /\ SeenUnlessChanged'
    BY <1>6 DEF IndiIInv, PortsStand, SeenUnlessChanged, SerialCandidates, Looking, Trying
<1>13. Recovering'
    <2>1. Works(d)'
        BY <1>1, <1>4 DEF Works, HalfConnected
    <2>2. ASSUME pass.calm, NEW e \in pass.known, e # d, Reachable(e)'
          PROVE  IF e \in pass'.todo
                 THEN e \in memory.required /\ memory.bindings[e] \notin pass'.claimed
                 ELSE Works(e)'
        <3>1. e \in Drivers
            BY <1>1 DEF Passes
        <3>2. Reachable(e)
            BY <1>5, <1>6, <2>2, <3>1 DEF Reachable, SerialCandidates
        <3>3. memory.bindings[e] # Target
            BY <1>2, <1>6, <2>2 DEF Reachable
        <3>4. QED
            BY <1>5, <1>6, <1>10, <2>2, <3>1, <3>2, <3>3 DEF IndiIInv, Recovering, Looking, Trying
    <2>3. QED
        BY <1>6, <2>1, <2>2 DEF Recovering, Looking
<1>14. QED
    BY <1>6, <1>8, <1>9, <1>11, <1>12, <1>13
    DEF IndiIInv, SeenBefore, TargetFits, TriedBehind, StillInTurn, PassRecovers, Undisturbed,
        Trying, Looking

\* What a driver that did not answer leaves, whatever became of it: it is off, or half connected.
LEMMA UngainedStep ==
    ASSUME IndiIInv, pass.pc \in Trying, file' = file, failures' \in 0 .. MaxFailures,
           UNCHANGED <<plugged, catalogue, events>>,
           NEW calm \in BOOLEAN, pass' = [pass EXCEPT !.pc = "turn", !.calm = calm],
           calm => pass.calm /\ ~Responds(Current) /\ ~driver'[Current].on,
           driver' \in Snapshots,
           \A e \in Drivers \ {Current} : driver'[e] = driver[e],
           \/ driver'[Current] = driver[Current]
           \/ ~driver'[Current].on /\ driver'[Current].open = NoPort
           \/ /\ driver'[Current].on /\ driver'[Current].port = Target
              /\ driver'[Current].open = Target /\ Responds(Current)
              /\ ~driver'[Current].vectors
    PROVE  IndiIInv'
<1>0. PICK d : d = Current
    OBVIOUS
<1>1. /\ pass \in Passes /\ d \in pass.todo /\ d \in Drivers
      /\ Target \in Ports /\ Target # NoPort /\ Target \in pass.candidates \ pass.claimed
      /\ pass.memory.bindings[d] \in {NoPort, Target} /\ file.bindings[d] \in {NoPort, Target}
      /\ pass.seen[d].on => d \in pass.memory.required \/ HalfConnected(d, pass.seen)
    BY <1>0, TryingAt
<1>2. Responds(d) => Target \in plugged /\ d \in Answers[Target]
    BY DEF Responds
<1>3. /\ pass' \in Passes /\ pass'.pc = "turn" /\ pass'.seen = pass.seen
      /\ pass'.candidates = pass.candidates /\ pass'.memory = pass.memory
      /\ pass'.claimed = pass.claimed /\ pass'.todo = pass.todo
      /\ pass'.tried = pass.tried /\ pass'.changed = pass.changed /\ pass'.calm = calm
      /\ pass'.known = pass.known
    BY <1>1 DEF Passes
<1>4. Current' = Current /\ \A e \in Drivers : ToTry(e)' = ToTry(e)
    BY <1>3, SameTurn, SameToTry
<1>5. \A e \in Drivers \ {d} : Works(e)' = Works(e)
    BY <1>0, <1>1, OthersWork
<1>6. /\ \A e \in Drivers \ {d} : driver'[e] = driver[e]
      /\ \/ driver'[d] = driver[d]
         \/ ~driver'[d].on /\ driver'[d].open = NoPort
         \/ /\ driver'[d].on /\ driver'[d].port = Target /\ driver'[d].open = Target
            /\ Responds(d) /\ ~driver'[d].vectors
      /\ Current = d
      /\ calm => pass.calm /\ ~Responds(d) /\ ~driver'[d].on
    BY <1>0
<1>7. IndiTypeInv' /\ Answered(driver)'
    <2>1. \A e \in Drivers : driver'[e].open # NoPort =>
              driver'[e].on /\ driver'[e].port = driver'[e].open /\ driver'[e].open \in plugged
        BY <1>2, <1>6 DEF IndiIInv, IndiTypeInv
    <2>2. Answered(driver)'
        BY <1>1, <1>2, <1>6 DEF IndiIInv, Answered
    <2>3. QED
        BY <1>3, <2>1, <2>2 DEF IndiIInv, IndiTypeInv, Passes, Snapshots, Shown
<1>8. WhereLearned(driver, file.bindings)' /\ WhereLearned(driver, pass.memory.bindings)'
    BY <1>1, <1>3, <1>6 DEF IndiIInv, WhereLearned, Looking, Trying
<1>9. FileBehind' /\ RequiredLearned'
    BY <1>3 DEF IndiIInv, FileBehind, RequiredLearned, Looking, Trying
<1>10. PortsClaimed'
    <2>1. ASSUME Works(d)', pass.seen[d].on, d \notin pass.memory.required
          PROVE  Works(d) /\ driver'[d].open = driver[d].open
        <3>1. d \in OnStep
            BY <1>1, <2>1 DEF HalfConnected
        <3>2. QED
            BY <1>6, <2>1, <3>1 DEF Works, HalfConnected
    <2>2. QED
        BY <1>3, <1>5, <1>6, <2>1 DEF IndiIInv, PortsClaimed, Looking, Trying
<1>11. TriedBehind'
    BY <1>1, <1>3, <1>4, <1>6 DEF IndiIInv, TriedBehind, Looking, Trying
<1>12. PortsStand'
    <2>1. calm => Target \notin plugged \/ d \notin Answers[Target]
        BY <1>6 DEF Responds
    <2>2. QED
        BY <1>3, <1>4, <1>6, <2>1 DEF IndiIInv, PortsStand, SerialCandidates, Looking, Trying
<1>13. SeenUnlessChanged'
    BY <1>3, <1>6 DEF IndiIInv, SeenUnlessChanged, Looking, Trying
<1>14. Recovering'
    <2>1. \A e \in pass.known : Reachable(e)' = Reachable(e)
        BY <1>3 DEF Reachable, SerialCandidates
    <2>2. pass.known \subseteq Drivers
        BY <1>1 DEF Passes
    <2>3. QED
        BY <1>1, <1>3, <1>5, <1>6, <2>1, <2>2 DEF IndiIInv, Recovering, Looking, Trying
<1>15. QED
    BY <1>3, <1>7, <1>8, <1>9, <1>10, <1>11, <1>12, <1>13, <1>14
    DEF IndiIInv, SeenBefore, TargetFits, StillInTurn, PassRecovers, Undisturbed, Trying, Looking

\* A port is probed, or cycled.
LEMMA TryingStep == ASSUME IndiIInv, Probe \/ Cycle PROVE IndiIInv'
<1>1. pass.pc \in Trying /\ UNCHANGED <<plugged, catalogue, events>>
    BY DEF Probe, Cycle, Trying
<1>2. Current \in Drivers /\ Target \in Ports /\ pass \in Passes
    BY <1>1, TryingAt
<1>3. driver[Current].port \in Ports \cup {NoPort} /\ driver \in Snapshots
    BY <1>2 DEF IndiIInv, IndiTypeInv, Snapshots, Shown
<1>4. CASE Responds(Current) /\ Gained(Current)
    BY <1>1, <1>4, GainedStep
<1>5. CASE ~Responds(Current) /\ Missed(Closed(Current, Target))
    <2>1. /\ file' = file /\ failures' \in 0 .. MaxFailures
          /\ driver' = Closed(Current, Target)
        BY <1>5 DEF Missed, Unwritten, IndiIInv, IndiTypeInv
    <2>2. pass' = [pass EXCEPT !.pc = "turn", !.calm = pass.calm] /\ pass.calm \in BOOLEAN
        BY <1>2, <1>5 DEF Missed, Passes
    <2>3. /\ driver' \in Snapshots /\ ~driver'[Current].on /\ driver'[Current].open = NoPort
          /\ \A e \in Drivers \ {Current} : driver'[e] = driver[e]
        BY <1>2, <2>1, ClosedIs DEF IndiIInv
    <2>4. QED
        BY <1>1, <1>5, <2>1, <2>2, <2>3, UngainedStep
<1>6. CASE /\ Fails /\ pass' = [pass EXCEPT !.pc = "turn", !.calm = FALSE]
           /\ \/ driver' \in {driver, Closed(Current, driver[Current].port),
                              Closed(Current, Target)}
              \/ Responds(Current) /\ driver' = Opened(Current, FALSE)
    <2>1. file' = file /\ failures' \in 0 .. MaxFailures
        BY <1>6, IndiAssumption DEF Fails, IndiIInv, IndiTypeInv
    <2>2. /\ driver' \in Snapshots
          /\ \A e \in Drivers \ {Current} : driver'[e] = driver[e]
          /\ \/ driver'[Current] = driver[Current]
             \/ ~driver'[Current].on /\ driver'[Current].open = NoPort
             \/ /\ driver'[Current].on /\ driver'[Current].port = Target
                /\ driver'[Current].open = Target /\ Responds(Current)
                /\ ~driver'[Current].vectors
        <3>1. CASE driver' = driver
            BY <1>3, <3>1
        <3>2. ASSUME NEW p \in Ports \cup {NoPort}, driver' = Closed(Current, p)
              PROVE  /\ driver' \in Snapshots
                     /\ \A e \in Drivers \ {Current} : driver'[e] = driver[e]
                     /\ ~driver'[Current].on /\ driver'[Current].open = NoPort
            BY <1>2, <3>2, ClosedIs DEF IndiIInv
        <3>3. CASE Responds(Current) /\ driver' = Opened(Current, FALSE)
            BY <1>2, <3>3, OpenedIs DEF IndiIInv
        <3>4. QED
            BY <1>2, <1>3, <1>6, <3>1, <3>2, <3>3
    <2>3. QED
        BY <1>1, <1>6, <2>1, <2>2, UngainedStep
<1>7. QED
    BY <1>4, <1>5, <1>6 DEF Probe, Cycle

\* The snapshot that a driver's state makes
LEMMA WorkingIsPresent ==
    ASSUME IndiTypeInv, NEW d \in Drivers, Works(d)
    PROVE  Present(d, driver)
BY PortNumbers DEF IndiTypeInv, Works, Present, LivePort

\* After the last driver a snapshot shows what the pass has connected.
LEMMA RefreshStep == ASSUME IndiIInv, Refresh PROVE IndiIInv'
<1>1. /\ pass.pc = "turn" /\ pass.todo = {} /\ pass \in Passes
      /\ UNCHANGED <<plugged, driver, file, catalogue, events, failures>>
    BY DEF Refresh, IndiIInv
<1>2. /\ pass' \in Passes /\ pass'.pc = "still" /\ pass'.memory = pass.memory
      /\ pass'.todo = Drivers /\ pass'.calm = pass.calm /\ pass'.known = pass.known
      /\ pass'.seen = IF pass.changed THEN driver ELSE pass.seen
    BY <1>1 DEF Refresh, AfterScan, Passes, IndiIInv, IndiTypeInv, Snapshots, Shown
<1>3. IndiTypeInv' /\ Answered(driver)' /\ FileBehind' /\ RequiredLearned'
    BY <1>1, <1>2
    DEF IndiIInv, IndiTypeInv, Passes, Answered, FileBehind, RequiredLearned, Looking
<1>4. WhereLearned(driver, file.bindings)' /\ SeenUnlessChanged'
    BY <1>1, <1>2 DEF IndiIInv, WhereLearned, SeenUnlessChanged, Looking
<1>5. StillInTurn'
    BY <1>2, IndiAssumption DEF StillInTurn
<1>6. Recovering'
    <2> SUFFICES ASSUME pass.calm, NEW d \in pass.known, Reachable(d)'
                 PROVE  Works(d)' /\ Present(d, pass.seen)'
        BY <1>2 DEF Recovering, Looking
    <2>1. Reachable(d) /\ d \in Drivers
        BY <1>1, <1>2 DEF Reachable, SerialCandidates, Passes
    <2>2. pass.changed /\ Works(d)
        BY <1>1, <2>1 DEF IndiIInv, Recovering, Looking
    <2>3. Present(d, driver)
        BY <2>1, <2>2, WorkingIsPresent DEF IndiIInv
    <2>4. QED
        BY <1>1, <1>2, <2>2, <2>3 DEF Works, HalfConnected, Present, LivePort
<1>7. QED
    BY <1>1, <1>2, <1>3, <1>4, <1>5, <1>6
    DEF IndiIInv, SeenBefore, PortsClaimed, TargetFits, TriedBehind, PortsStand, PassRecovers,
        Undisturbed, Looking, Trying

\* A connected mount that advertises its tracking has it turned off.
LEMMA StopTrackingStep == ASSUME IndiIInv, StopTracking PROVE IndiIInv'
<1>1. /\ pass.pc = "still" /\ pass.todo # {} /\ pass \in Passes /\ driver \in Snapshots
      /\ UNCHANGED <<plugged, file, catalogue, events>>
    BY DEF StopTracking, IndiIInv, IndiTypeInv, Snapshots, Shown
<1>2. PICK d \in Drivers : d = Current
    BY <1>1, CurrentToDo DEF Passes
<1>3. PICK changed \in BOOLEAN, calm \in BOOLEAN :
          /\ pass' = [pass EXCEPT !.todo = @ \ {d}, !.changed = changed, !.calm = calm]
          /\ calm => pass.calm
          /\ failures' \in 0 .. MaxFailures
          /\ \/ driver' = driver
                /\ (calm => d \notin TrackState \/ ~pass.seen[d].on \/ driver[d].open = NoPort)
             \/ driver' = [driver EXCEPT ![d].tracking = FALSE]
    <2>1. CASE /\ d \notin TrackState \/ ~pass.seen[d].on \/ driver[d].open = NoPort
               /\ pass' = [pass EXCEPT !.todo = @ \ {d}] /\ UNCHANGED <<driver, failures>>
        <3>1. pass' = [pass EXCEPT !.todo = @ \ {d}, !.changed = pass.changed, !.calm = pass.calm]
            BY <1>1, <2>1 DEF Passes
        <3>2. QED
            BY <1>1, <2>1, <3>1 DEF Passes, IndiIInv, IndiTypeInv
    <2>2. CASE /\ driver' = [driver EXCEPT ![d].tracking = FALSE]
               /\ pass' = [pass EXCEPT !.todo = @ \ {d}, !.changed = TRUE] /\ UNCHANGED failures
        <3>1. pass' = [pass EXCEPT !.todo = @ \ {d}, !.changed = TRUE, !.calm = pass.calm]
            BY <1>1, <2>2 DEF Passes
        <3>2. QED
            BY <1>1, <2>2, <3>1 DEF Passes, IndiIInv, IndiTypeInv
    <2>3. CASE /\ failures < MaxFailures /\ failures' = failures + 1 /\ UNCHANGED driver
               /\ pass' = [pass EXCEPT !.todo = @ \ {d}, !.calm = FALSE]
        <3>1. pass' = [pass EXCEPT !.todo = @ \ {d}, !.changed = pass.changed, !.calm = FALSE]
            BY <1>1, <2>3 DEF Passes
        <3>2. failures' \in 0 .. MaxFailures
            BY <2>3, IndiAssumption DEF IndiIInv, IndiTypeInv
        <3>3. QED
            BY <1>1, <2>3, <3>1, <3>2 DEF Passes
    <2>4. QED
        BY <1>2, <2>1, <2>2, <2>3 DEF StopTracking
<1>4. /\ pass' \in Passes /\ pass'.pc = "still" /\ pass'.memory = pass.memory
      /\ pass'.seen = pass.seen /\ pass'.known = pass.known /\ pass'.todo = pass.todo \ {d}
      /\ pass'.calm => pass.calm
    BY <1>1, <1>3 DEF Passes
<1>5. /\ driver' \in Snapshots /\ \A e \in Drivers \ {d} : driver'[e] = driver[e]
      /\ driver'[d].on = driver[d].on /\ driver'[d].port = driver[d].port
      /\ driver'[d].open = driver[d].open /\ driver'[d].vectors = driver[d].vectors
      /\ pass'.calm => \/ d \notin TrackState \/ ~driver'[d].tracking
                       \/ ~pass.seen[d].on \/ driver[d].open = NoPort
    <2>1. CASE /\ driver' = driver
               /\ calm => d \notin TrackState \/ ~pass.seen[d].on \/ driver[d].open = NoPort
        BY <1>1, <1>3, <2>1 DEF Passes
    <2>2. CASE driver' = [driver EXCEPT ![d].tracking = FALSE]
        BY <1>1, <2>2 DEF Snapshots, Shown
    <2>3. QED
        BY <1>3, <2>1, <2>2
<1>6. \A e \in Drivers : Works(e)' = Works(e)
    BY <1>5 DEF Works, HalfConnected
<1>7. IndiTypeInv' /\ Answered(driver)' /\ FileBehind' /\ RequiredLearned'
    <2>1. \A e \in Drivers : driver'[e].open # NoPort =>
              driver'[e].on /\ driver'[e].port = driver'[e].open /\ driver'[e].open \in plugged
        BY <1>5 DEF IndiIInv, IndiTypeInv
    <2>2. Answered(driver)'
        BY <1>5 DEF IndiIInv, Answered
    <2>3. QED
        BY <1>1, <1>3, <1>4, <1>5, <2>1, <2>2
        DEF IndiIInv, IndiTypeInv, Passes, Snapshots, Shown, FileBehind, RequiredLearned, Looking
<1>8. WhereLearned(driver, file.bindings)' /\ SeenUnlessChanged'
    BY <1>1, <1>3, <1>4, <1>5 DEF IndiIInv, WhereLearned, SeenUnlessChanged, Looking
<1>9. StillInTurn'
    <2>1. pass'.calm /\ driver[d].open # NoPort => pass.seen[d].on
        BY <1>1, <1>3, <1>4 DEF IndiIInv, IndiTypeInv, SeenUnlessChanged
    <2>2. QED
        BY <1>1, <1>3, <1>4, <1>5, <2>1, IndiAssumption DEF IndiIInv, StillInTurn
<1>10. Recovering'
    <2>1. \A e \in pass.known : Reachable(e)' = Reachable(e) /\ e \in Drivers
        BY <1>1, <1>3, <1>4 DEF Reachable, SerialCandidates, Passes
    <2>2. \A e \in Drivers : Present(e, pass.seen)' = Present(e, pass.seen)
        BY <1>1, <1>3, <1>4 DEF Present, LivePort, HalfConnected
    <2>3. QED
        BY <1>1, <1>3, <1>4, <1>6, <2>1, <2>2 DEF IndiIInv, Recovering, Looking
<1>11. QED
    BY <1>1, <1>3, <1>4, <1>7, <1>8, <1>9, <1>10
    DEF IndiIInv, SeenBefore, PortsClaimed, TargetFits, TriedBehind, PortsStand, PassRecovers,
        Undisturbed, Looking, Trying

\* The snapshot that is published shows every mount the pass recovered.
LEMMA SnapshotStep == ASSUME IndiIInv, Snapshot PROVE IndiIInv'
<1>1. /\ pass.pc = "still" /\ pass.todo = {} /\ pass \in Passes
      /\ UNCHANGED <<plugged, driver, file, catalogue, events, failures>>
    BY DEF Snapshot, IndiIInv
<1>2. /\ pass' \in Passes /\ pass'.pc = "publish" /\ pass'.memory = pass.memory
      /\ pass'.calm = pass.calm /\ pass'.known = pass.known
      /\ pass'.seen = IF pass.changed THEN driver ELSE pass.seen
    BY <1>1 DEF Snapshot, Passes, IndiIInv, IndiTypeInv, Snapshots, Shown
<1>3. IndiTypeInv' /\ Answered(driver)' /\ FileBehind' /\ RequiredLearned'
    BY <1>1, <1>2
    DEF IndiIInv, IndiTypeInv, Passes, Answered, FileBehind, RequiredLearned, Looking
<1>4. WhereLearned(driver, file.bindings)' /\ SeenUnlessChanged' /\ StillInTurn'
    BY <1>1, <1>2 DEF IndiIInv, WhereLearned, SeenUnlessChanged, StillInTurn, Looking
<1>5. Recovering'
    <2> SUFFICES ASSUME pass.calm, NEW d \in pass.known, Reachable(d)'
                 PROVE  Works(d)' /\ Present(d, pass.seen)'
        BY <1>2 DEF Recovering, Looking
    <2>1. Reachable(d) /\ d \in Drivers
        BY <1>1, <1>2 DEF Reachable, SerialCandidates, Passes
    <2>2. Works(d) /\ Present(d, pass.seen)
        BY <1>1, <2>1 DEF IndiIInv, Recovering
    <2>3. Present(d, driver)
        BY <2>1, <2>2, WorkingIsPresent DEF IndiIInv
    <2>4. QED
        BY <1>1, <1>2, <2>2, <2>3 DEF Works, HalfConnected, Present, LivePort
<1>6. QED
    BY <1>1, <1>2, <1>3, <1>4, <1>5
    DEF IndiIInv, SeenBefore, PortsClaimed, TargetFits, TriedBehind, PortsStand, PassRecovers,
        Undisturbed, Looking, Trying

\* A pass that publishes has recovered what could be recovered.
LEMMA PublishStep == ASSUME IndiIInv, Publish PROVE IndiIInv'
<1>1. /\ pass.pc = "publish" /\ pass \in Passes
      /\ UNCHANGED <<plugged, driver, file, events, failures>>
      /\ catalogue' = {d \in Drivers : Present(d, pass.seen)}
    BY DEF Publish, IndiIInv
<1>2. /\ pass' \in Passes /\ pass'.pc = "next" /\ pass'.calm = pass.calm
      /\ pass'.known = pass.known
    BY <1>1 DEF Publish, Idle, Passes, Fresh, Memory, Off, Snapshots, Shown, NoPort
<1>3. IndiTypeInv' /\ Answered(driver)' /\ RequiredLearned'
    BY <1>1, <1>2 DEF IndiIInv, IndiTypeInv, Passes, Answered, RequiredLearned, Looking
<1>4. WhereLearned(driver, file.bindings)' /\ StillInTurn'
    BY <1>1, <1>2 DEF IndiIInv, WhereLearned, StillInTurn
<1>5. PassRecovers'
    <2> SUFFICES ASSUME pass.calm, NEW d \in pass.known,
                        file.bindings[d] \in SerialCandidates, Answers[file.bindings[d]] = {d}
                 PROVE  Works(d) /\ Present(d, pass.seen) /\ d \in Drivers
        BY <1>1, <1>2 DEF PassRecovers, Undisturbed, SerialCandidates, Works, HalfConnected
    <2>1. d \in Drivers
        BY <1>1 DEF Passes
    <2>2. file.bindings[d] = pass.memory.bindings[d]
        BY <1>1, <2>1, PortNumbers
        DEF IndiIInv, IndiTypeInv, FileBehind, SerialCandidates
    <2>3. Reachable(d)
        BY <2>2 DEF Reachable
    <2>4. QED
        BY <1>1, <2>1, <2>3 DEF IndiIInv, Recovering
<1>6. QED
    BY <1>1, <1>2, <1>3, <1>4, <1>5
    DEF IndiIInv, SeenBefore, FileBehind, PortsClaimed, TargetFits, TriedBehind, PortsStand,
        SeenUnlessChanged, Recovering, Looking, Trying

\* Between two passes only the file remembers.
LEMMA LeaveStep == ASSUME IndiIInv, Leave PROVE IndiIInv'
<1>1. /\ pass' \in Passes /\ pass'.pc = "idle"
      /\ UNCHANGED <<plugged, driver, file, catalogue, events, failures>>
    BY DEF Leave, Idle, Passes, Fresh, Memory, Off, Snapshots, Shown, NoPort
<1>2. IndiTypeInv' /\ Answered(driver)' /\ RequiredLearned' /\ WhereLearned(driver, file.bindings)'
    BY <1>1 DEF IndiIInv, IndiTypeInv, Passes, Answered, RequiredLearned, WhereLearned, Looking
<1>3. QED
    BY <1>1, <1>2
    DEF IndiIInv, SeenBefore, FileBehind, PortsClaimed, TargetFits, TriedBehind, PortsStand,
        SeenUnlessChanged, StillInTurn, Recovering, PassRecovers, Undisturbed, Looking, Trying

\* Nothing happens to the discovery when another part of the station moves.
LEMMA IndiStutters == IndiIInv /\ UNCHANGED indiVars => IndiIInv'
<1> SUFFICES ASSUME IndiIInv, UNCHANGED indiVars
             PROVE  IndiIInv'
    OBVIOUS
<1>1. UNCHANGED <<plugged, driver, file, pass, catalogue, events, failures>>
    BY DEF indiVars
<1>2. Current' = Current /\ Target' = Target /\ \A d \in Drivers : ToTry(d)' = ToTry(d)
    BY <1>1, SameTurn, SameTarget, SameToTry
<1>3. IndiTypeInv' /\ pass' \in Passes /\ Answered(driver)' /\ SeenBefore'
    BY <1>1 DEF IndiIInv, IndiTypeInv, Answered, SeenBefore
<1>4. /\ WhereLearned(driver, file.bindings)' /\ FileBehind' /\ RequiredLearned'
      /\ pass'.pc = "scan" => Answered(pass.seen)' /\ WhereLearned(pass.seen, file.bindings)'
      /\ pass'.pc \in Looking => WhereLearned(driver, pass.memory.bindings)'
    BY <1>1 DEF IndiIInv, WhereLearned, FileBehind, RequiredLearned, Answered
<1>5. \A d \in Drivers : /\ Works(d)' = Works(d) /\ Reachable(d)' = Reachable(d)
                         /\ Present(d, pass.seen)' = Present(d, pass.seen)
    BY <1>1 DEF Works, HalfConnected, Reachable, SerialCandidates, Present, LivePort
<1>6. PortsClaimed' /\ TargetFits' /\ TriedBehind'
    <2>1. pass.todo # {} => Current \in Drivers
        BY CurrentToDo DEF IndiIInv, Passes
    <2>2. QED
        BY <1>1, <1>2, <1>5, <2>1
        DEF IndiIInv, PortsClaimed, TargetFits, TriedBehind, HalfConnected
<1>7. PortsStand' /\ SeenUnlessChanged' /\ StillInTurn'
    BY <1>1, <1>2 DEF IndiIInv, PortsStand, SerialCandidates, SeenUnlessChanged, StillInTurn
<1>8. Recovering' /\ PassRecovers'
    <2>1. pass.known \subseteq Drivers
        BY DEF IndiIInv, Passes
    <2>2. QED
        BY <1>1, <1>5, <2>1
        DEF IndiIInv, Recovering, PassRecovers, Undisturbed, SerialCandidates
<1>9. QED
    BY <1>3, <1>4, <1>6, <1>7, <1>8 DEF IndiIInv

\* Every step of the discovery keeps the invariant.
LEMMA IndiStep == IndiIInv /\ [IndiNext]_indiVars => IndiIInv'
BY DisturbingSteps, DiscoverStep, ScanStep, TurnStep, TryingStep, RefreshStep, StopTrackingStep,
   SnapshotStep, PublishStep, LeaveStep, IndiStutters DEF IndiNext

\* What discover() promises follows.
LEMMA IndiIsSafe == IndiIInv => DiscoverySafe
<1> SUFFICES ASSUME IndiIInv
             PROVE  DiscoverySafe
    OBVIOUS
<1>1. PortsNotStolen
    BY DEF IndiIInv, PortsNotStolen, PortsClaimed, TargetFits, Looking, Trying
<1>2. LearnedPortOnly
    BY DEF IndiIInv, LearnedPortOnly, TargetFits, Trying
<1>3. StillWhenDetected
    <2>1. catalogue \subseteq Drivers
        BY DEF IndiIInv, IndiTypeInv
    <2>2. QED
        BY <2>1 DEF IndiIInv, StillWhenDetected, StillInTurn, Undisturbed, Works
<1>4. QED
    BY <1>1, <1>2, <1>3 DEF IndiIInv, DiscoverySafe

-----------------------------------------------------------------------------
(* The parts together *)

\* A step of one part is a step of it, and leaves the others alone.
LEMMA PartsApart ==
    [StationNext]_StationVars =>
        /\ [FleetNext]_fleetVars /\ [MotionNext]_motionVars /\ [GestureNext]_gestureVars
        /\ [FocuserNext]_focuserVars /\ [EafNext]_eafVars /\ [IndiNext]_indiVars
BY DEF StationNext, StationVars, FleetPart, IndiPart, MotionPart, GesturePart, FocuserPart, EafPart

\* The parts start together.
LEMMA PartsStart ==
    StationInit => FleetIInv /\ MotionIInv /\ GestureIInv /\ FocuserIInv /\ EafIInv /\ IndiIInv
BY FleetInitially, MotionStarts, GestureStarts, FocuserStarts, EafStarts, IndiStarts DEF StationInit

\* A STOP that reached the mount lasts, homing is the newest home, the serial port has one owner
\* (mount_service.py:512), and a button that was let go moves nothing unless the last call of its
\* requests was answered with an error (app.py:2803).
THEOREM MountsAreSafe == StationSpec => []MountsSafe
<1>1. MotionIInv /\ GestureIInv => MountsSafe
    BY MotionIsSafe DEF MountsSafe, GestureIInv, GestureSafe
<1>2. QED
    BY PartsStart, PartsApart, MotionStep, GestureStep, <1>1, PTL DEF StationSpec

\* A STOP that reached the focuser lasts (focuser_service.py:336), and the session of a focuser is
\* kept until its last owner in one process has left (zwo_eaf.py:57).
THEOREM FocusersAreSafe == StationSpec => []FocusersSafe
<1>1. FocuserIInv /\ EafIInv => FocusersSafe
    BY EafIsSafe DEF FocusersSafe, FocuserIInv, FocuserSafe
<1>2. QED
    BY PartsStart, PartsApart, FocuserStep, EafStep, <1>1, PTL DEF StationSpec

\* Old owners are confirmed stopped before a successor starts, also through roll-backs that fail
\* themselves; every process that is alive is known (mount_worker_runtime.py:272).
THEOREM OwnersAreKnown == StationSpec => []OwnersKnown
<1>1. FleetIInv => OwnersKnown
    BY DEF FleetIInv
<1>2. QED
    BY PartsStart, PartsApart, FleetStep, <1>1, PTL DEF StationSpec

\* A pass over the mounts probes no port through which a mount works, looks for a learned mount at
\* its own port only, brings a lost one back, and publishes none that tracks although it
\* advertises its tracking (indi_device_manager.py:756, :990).
THEOREM DiscoveryIsSafe == StationSpec => []DiscoverySafe
<1>1. IndiIInv => DiscoverySafe
    BY IndiIsSafe
<1>2. QED
    BY PartsStart, PartsApart, IndiStep, <1>1, PTL DEF StationSpec
=============================================================================
