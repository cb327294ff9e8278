---------------------------- MODULE IndiDiscovery ----------------------------
(***************************************************************************)
(* IndiDeviceManager.discover() (indi_device_manager.py): one pass after   *)
(* another over the mount drivers of an INDI server and the serial ports,  *)
(* while cables are pulled, drivers restart and writes fail. What a pass   *)
(* must remember for the next one is in a file.                            *)
(***************************************************************************)
EXTENDS Integers, FiniteSets, FiniteSetsExt

CONSTANTS
    Drivers, Ports,  \* both in the order in which the code sorts them
    OnStep,          \* the drivers of OnStep mounts, written through indi_setprop
    TrackState,      \* the drivers that advertise TELESCOPE_TRACK_STATE
    Answers,         \* the drivers whose protocol the device at a port speaks
    Taken,           \* ports of the GPS or of directly connected mounts
    MaxEvents, MaxFailures   \* bounds

ASSUME IndiAssumption ==
    /\ Drivers \subseteq Nat \ {0} /\ Ports \subseteq Nat \ {0} /\ OnStep \subseteq Drivers
    /\ TrackState \subseteq Drivers
    /\ Answers \in [Ports -> SUBSET Drivers] /\ Taken \subseteq Ports
    /\ {MaxEvents, MaxFailures} \subseteq Nat

VARIABLES
    plugged,      \* /dev/serial/by-id
    driver,       \* what each driver shows, and the port it really has open
    file,         \* bindings_file
    pass,         \* the locals of discover() and _autoconnect_mounts()
    catalogue,    \* the mounts published as present
    events, failures

indiVars == <<plugged, driver, file, pass, catalogue, events, failures>>

NoPort == 0
Off == [on |-> FALSE, port |-> NoPort, open |-> NoPort, vectors |-> FALSE, tracking |-> FALSE]
Memory == [bindings : [Drivers -> Ports \cup {NoPort}], required : SUBSET Drivers]
Fresh == [bindings |-> [d \in Drivers |-> NoPort], required |-> {}]
Idle == [pc |-> "idle", seen |-> [d \in Drivers |-> Off], candidates |-> {}, memory |-> Fresh,
         claimed |-> {}, todo |-> {}, tried |-> {}, changed |-> FALSE, calm |-> TRUE,
         known |-> {}]

IndiTypeInv ==
    /\ plugged \subseteq Ports /\ catalogue \subseteq Drivers /\ file \in Memory
    /\ driver \in [Drivers -> [on : BOOLEAN, port : Ports \cup {NoPort},
                       open : Ports \cup {NoPort}, vectors : BOOLEAN, tracking : BOOLEAN]]
    /\ pass.pc \in {"idle", "scan", "turn", "probe", "cycle", "next", "still", "publish"}
    /\ pass.memory \in Memory /\ pass.claimed \subseteq Ports /\ pass.todo \subseteq Drivers
    /\ \A d \in Drivers : driver[d].open # NoPort =>
           driver[d].on /\ driver[d].port = driver[d].open /\ driver[d].open \in plugged
    /\ events \in 0 .. MaxEvents /\ failures \in 0 .. MaxFailures

\* Mounts may be connected and tracking before the first pass.
IndiInit ==
    /\ plugged \in SUBSET Ports
    /\ driver \in {[d \in Drivers |->
           IF f[d] = NoPort THEN [Off EXCEPT !.tracking = TRUE]
           ELSE [on |-> TRUE, port |-> f[d], open |-> f[d], vectors |-> d \in OnStep, tracking |-> TRUE]] :
           f \in {f \in [Drivers -> plugged \cup {NoPort}] :
                    \A d \in Drivers : f[d] # NoPort =>
                        d \in Answers[f[d]] /\ \A e \in Drivers \ {d} : f[e] # f[d]}}
    /\ file = Fresh /\ pass = Idle /\ catalogue = {} /\ events = 0 /\ failures = 0

-----------------------------------------------------------------------------
\* The world outside: it disturbs a pass that is under way.
Happens ==
    /\ events < MaxEvents /\ events' = events + 1
    /\ pass' = IF pass.pc = "idle" THEN pass ELSE [pass EXCEPT !.calm = FALSE]
    /\ UNCHANGED <<file, catalogue, failures>>

Plug(p) == p \notin plugged /\ plugged' = plugged \cup {p} /\ UNCHANGED driver /\ Happens

\* The driver goes on showing CONNECT=On and its port.
Unplug(p) ==
    /\ p \in plugged /\ plugged' = plugged \ {p}
    /\ driver' = [d \in Drivers |-> IF driver[d].open = p THEN [driver[d] EXCEPT !.open = NoPort]
                                    ELSE driver[d]]
    /\ Happens

DriverRestarts(d) ==
    /\ driver[d].on
    /\ driver' = [driver EXCEPT ![d] = [Off EXCEPT !.tracking = driver[d].tracking]]
    /\ UNCHANGED plugged /\ Happens

TrackingStarts(d) ==
    /\ ~driver[d].tracking /\ driver' = [driver EXCEPT ![d].tracking = TRUE]
    /\ UNCHANGED plugged /\ Happens

-----------------------------------------------------------------------------
\* What a snapshot tells.
LivePort(d, seen) == IF seen[d].on /\ seen[d].port \in plugged THEN seen[d].port ELSE NoPort
HalfConnected(d, seen) == d \in OnStep /\ seen[d].on /\ ~seen[d].vectors
Present(d, seen) == LivePort(d, seen) # NoPort /\ ~HalfConnected(d, seen)

SerialCandidates == plugged \ Taken

\* What is learned is written at once, and may stay unwritten (OSError is swallowed).
\* _save_mount_bindings() keeps the file's required, _persist_mount_state() replaces it.
Clean(memory) == [memory EXCEPT !.required = {d \in @ : memory.bindings[d] # NoPort}]
BindingsOnly(memory) == Clean([memory EXCEPT !.required = file.required])

Persist(memory) ==
    \/ file' = Clean(memory) /\ UNCHANGED failures
    \/ failures < MaxFailures /\ failures' = failures + 1 /\ file' \in {file, BindingsOnly(memory)}

PersistBindings(memory) ==
    \/ file' = BindingsOnly(memory) /\ UNCHANGED failures
    \/ failures < MaxFailures /\ failures' = failures + 1 /\ UNCHANGED file

Unwritten == UNCHANGED <<file, failures>>

Discover ==
    /\ pass.pc = "idle"
    /\ pass' = [Idle EXCEPT !.pc = "scan", !.seen = driver, !.known = file.required]
    /\ UNCHANGED <<plugged, driver, file, catalogue, events, failures>>

\* Live connections on a port of their own are learned, connections that do not fit what was
\* learned, or lack the control vectors, are noted for a forced reconnect.
Learned(bindings, seen) ==
    [d \in Drivers |->
        IF LivePort(d, seen) # NoPort
           /\ \A e \in Drivers \ {d} : LivePort(e, seen) # LivePort(d, seen)
        THEN LivePort(d, seen) ELSE bindings[d]]

Stale(bindings, seen) ==
    {d \in Drivers : /\ bindings[d] # NoPort /\ seen[d].on
                     /\ LivePort(d, seen) # bindings[d] \/ HalfConnected(d, seen)}

\* Mutant: the port of every connected driver is free.
ClaimedNone(required, seen) == {}
Claimed(required, seen) ==
    {LivePort(d, seen) : d \in {d \in Drivers \ required : LivePort(d, seen) # NoPort}}

\* The port of a mount to be recovered is released, unless another one is connected to it.
Scan ==
    LET seen == pass.seen
        bindings == Learned(file.bindings, seen)
        required == file.required \cup Stale(bindings, seen)
        memory == [bindings |-> bindings, required |-> required]
        released == {bindings[d] : d \in {d \in Stale(bindings, seen) : LivePort(d, seen) = bindings[d]}}
        shared == {LivePort(d, seen) : d \in {d \in Drivers :
                       \E e \in Drivers \ {d} : LivePort(d, seen) = LivePort(e, seen)}}
    IN  /\ pass.pc = "scan"
        /\ pass' = [pass EXCEPT !.pc = "turn", !.candidates = SerialCandidates, !.memory = memory,
                       !.claimed = Claimed(file.required, seen) \ (released \ shared),
                       !.todo = Drivers]
        /\ IF required # file.required THEN Persist(memory)
           ELSE IF bindings # file.bindings THEN PersistBindings(memory) ELSE Unwritten
        /\ UNCHANGED <<plugged, driver, catalogue, events>>

\* The drivers are visited in order; which ports each of them may try, and how.
Current == CHOOSE d \in pass.todo : \A e \in pass.todo : d <= e
Free(d) == (pass.candidates \ pass.claimed) \ pass.tried

ToTry(d) ==
    LET learned == pass.memory.bindings[d]
    IN  IF HalfConnected(d, pass.seen) /\ learned = NoPort THEN Free(d)
        ELSE IF pass.seen[d].on /\ d \notin pass.memory.required THEN {}
        ELSE IF learned # NoPort THEN Free(d) \cap {learned}
        ELSE IF d \in pass.memory.required THEN {} ELSE Free(d)

Cycles(d) == HalfConnected(d, pass.seen) \/ d \in pass.memory.required

Turn ==
    /\ pass.pc = "turn" /\ pass.todo # {}
    /\ pass' = IF ToTry(Current) = {}
               THEN [pass EXCEPT !.todo = @ \ {Current}, !.tried = {}]
               ELSE [pass EXCEPT !.pc = IF Cycles(Current) THEN "cycle" ELSE "probe",
                                 !.tried = @ \cup {Min(ToTry(Current))}]
    /\ UNCHANGED <<plugged, driver, file, catalogue, events, failures>>

Target == Max(pass.tried)

\* The port is written and CONNECT=On: the device at the port answers, or not.
Opened(d, vectors) ==
    [driver EXCEPT ![d] = [@ EXCEPT !.on = TRUE, !.port = Target, !.open = Target, !.vectors = vectors]]
Closed(d, port) == [driver EXCEPT ![d] = [@ EXCEPT !.on = FALSE, !.port = port,
                                                   !.open = NoPort, !.vectors = FALSE]]
Responds(d) == Target \in plugged /\ d \in Answers[Target]

\* A connection is claimed, and learned if it is new; a recovery is over.
Gained(d) ==
    LET memory == [bindings |-> [pass.memory.bindings EXCEPT ![d] = Target],
                   required |-> pass.memory.required \ {d}]
    IN  /\ driver' = Opened(d, d \in OnStep)
        /\ pass' = [pass EXCEPT !.pc = "turn", !.claimed = @ \cup {Target}, !.memory = memory,
                       !.todo = @ \ {d}, !.tried = {}, !.changed = TRUE]
        /\ IF d \in pass.memory.required THEN Persist(memory)
           ELSE IF pass.memory.bindings[d] # Target THEN PersistBindings(memory) ELSE Unwritten

Missed(left) ==
    /\ pass' = [pass EXCEPT !.pc = "turn"]
    /\ driver' = left /\ Unwritten

Fails == failures < MaxFailures /\ failures' = failures + 1 /\ UNCHANGED file

Probe ==
    LET d == Current
    IN  /\ pass.pc = "probe"
        /\ \/ Responds(d) /\ Gained(d)
           \/ ~Responds(d) /\ Missed(Closed(d, Target))
           \* no answer in time, no vectors, an exception: it is disconnected, if that succeeds
           \/ /\ Fails /\ pass' = [pass EXCEPT !.pc = "turn", !.calm = FALSE]
              /\ \/ driver' \in {driver, Closed(d, Target)}
                 \/ Responds(d) /\ driver' = Opened(d, FALSE)
        /\ UNCHANGED <<plugged, catalogue, events>>

\* The same with a disconnection first; what fails half-way is left as it is.
Cycle ==
    LET d == Current
    IN  /\ pass.pc = "cycle"
        /\ \/ Responds(d) /\ Gained(d)
           \/ ~Responds(d) /\ Missed(Closed(d, Target))
           \/ /\ Fails /\ pass' = [pass EXCEPT !.pc = "turn", !.calm = FALSE]
              /\ \/ driver' \in {driver, Closed(d, driver[d].port), Closed(d, Target)}
                 \/ Responds(d) /\ driver' = Opened(d, FALSE)
        /\ UNCHANGED <<plugged, catalogue, events>>

AfterScan(seen) == IF pass.changed THEN driver ELSE seen

Refresh ==
    /\ pass.pc = "turn" /\ pass.todo = {}
    /\ pass' = [pass EXCEPT !.pc = "still", !.seen = AfterScan(pass.seen), !.todo = Drivers,
                            !.changed = FALSE]
    /\ UNCHANGED <<plugged, driver, file, catalogue, events, failures>>

\* TRACK_OFF goes to every connected mount that advertises its tracking, whatever the snapshot
\* says of it; the others are passed over.
StopTracking ==
    LET d == Current
    IN  /\ pass.pc = "still" /\ pass.todo # {}
        /\ \/ /\ d \notin TrackState \/ ~pass.seen[d].on \/ driver[d].open = NoPort
              /\ pass' = [pass EXCEPT !.todo = @ \ {d}] /\ UNCHANGED <<driver, failures>>
           \/ /\ d \in TrackState /\ pass.seen[d].on /\ driver[d].open # NoPort
              /\ driver' = [driver EXCEPT ![d].tracking = FALSE]
              /\ pass' = [pass EXCEPT !.todo = @ \ {d}, !.changed = TRUE] /\ UNCHANGED failures
           \/ /\ d \in TrackState /\ pass.seen[d].on
              /\ failures < MaxFailures /\ failures' = failures + 1
              /\ pass' = [pass EXCEPT !.todo = @ \ {d}, !.calm = FALSE] /\ UNCHANGED driver
        /\ UNCHANGED <<plugged, file, catalogue, events>>

Snapshot ==
    /\ pass.pc = "still" /\ pass.todo = {}
    /\ pass' = [pass EXCEPT !.pc = "publish", !.seen = IF pass.changed THEN driver ELSE @]
    /\ UNCHANGED <<plugged, driver, file, catalogue, events, failures>>

Publish ==
    /\ pass.pc = "publish"
    /\ catalogue' = {d \in Drivers : Present(d, pass.seen)}
    /\ pass' = [Idle EXCEPT !.pc = "next", !.calm = pass.calm, !.known = pass.known]
    /\ UNCHANGED <<plugged, driver, file, events, failures>>

\* A later pass, perhaps of another process.
Leave == pass.pc = "next" /\ pass' = Idle
         /\ UNCHANGED <<plugged, driver, file, catalogue, events, failures>>

IndiNext ==
    \/ \E p \in Ports : Plug(p) \/ Unplug(p)
    \/ \E d \in Drivers : DriverRestarts(d) \/ TrackingStarts(d)
    \/ Discover \/ Scan \/ Turn \/ Probe \/ Cycle \/ Refresh
    \/ StopTracking \/ Snapshot \/ Publish \/ Leave

IndiSpec == IndiInit /\ [][IndiNext]_indiVars

-----------------------------------------------------------------------------
Works(d) == driver[d].open # NoPort /\ ~HalfConnected(d, driver)
Undisturbed == pass.pc = "next" /\ pass.calm

\* No port is probed through which another mount has worked since the pass began, unless that
\* mount waits for its own reconnect.
PortsNotStolen ==
    pass.pc \in {"probe", "cycle"} =>
        \A e \in Drivers \ {Current} :
            Works(e) /\ pass.seen[e].on /\ driver[e].open = Target => e \in pass.memory.required

\* A learned mount is looked for at its own port only.
LearnedPortOnly ==
    pass.pc \in {"probe", "cycle"} => pass.memory.bindings[Current] \in {NoPort, Target}

\* A mount that was seen to have lost its cable works again after a pass that finds it at
\* its port, even when another process noticed the loss.
PassRecovers ==
    Undisturbed =>
        \A d \in pass.known :
            LET learned == file.bindings[d]
            IN  learned \in SerialCandidates /\ Answers[learned] = {d} => Works(d) /\ d \in catalogue

\* "Discovery is a safety boundary" (indi_device_manager.py:990): a mount that advertises its
\* tracking does not track when a pass has published it. Nothing is promised of the others:
\* "only mounts that explicitly advertise TELESCOPE_TRACK_STATE are touched" (:992).
StillWhenDetected ==
    Undisturbed => \A d \in catalogue \cap TrackState : Works(d) => ~driver[d].tracking

\* What discover() promises of a pass, and of the passes after it (indi_device_manager.py:756).
DiscoverySafe ==
    IndiTypeInv /\ PortsNotStolen /\ LearnedPortOnly /\ PassRecovers /\ StillWhenDetected
=============================================================================
