------------------------------ MODULE CameraProofs ------------------------------
(***************************************************************************)
(* What CameraLease and CameraSession promise, for any number of sessions, *)
(* RIGs, servers, workers, handlers and captures: a lease means what its   *)
(* holder takes it for, a RIG has one holder, and prepared captures stay   *)
(* with their session and their process.  The specification is the one of  *)
(* MCCamera, in which one of the two parts runs.                           *)
(***************************************************************************)
EXTENDS MCCamera, FiniteSetTheorems, TLAPS

-----------------------------------------------------------------------------
(* The leases of the runtime, its servers and its workers *)

\* A server that does not run has no sessions.
ServersEmpty ==
    \A i \in 1 .. MaxServers : instances[i].state \in {"none", "stopped"} => instances[i].sessions = {}
\* A session that is being closed is at most where its close looks for it, and after that nowhere.
ClosesInOrder ==
    /\ \A i \in 1 .. MaxServers, s \in Sessions :
           s \in instances[i].sessions /\ closer[s] = "revoke" => i = closing[s]
    /\ \A i \in 1 .. MaxServers, s \in Sessions : s \in instances[i].sessions => closer[s] # "drop"
\* Only a shutdown takes a lease from the call that closes it, and then takes every lease.
ClosesTheirLease ==
    \A s \in Sessions : closer[s] \in {"revoke", "drop"} =>
        lease[s].state = "closing" \/ (ending # "no" /\ \A t \in Sessions : t \notin Held)
\* No two leases that are held have a RIG in common.
LeasesApart == \A s, t \in Held : s # t => ~Overlap(lease[s].scope, lease[t].scope)
\* Settings are frozen for a lease only.
FrozenForLeases == \A r \in Rigs : frozen[r] # 0 => \E s \in Held : r \in Covers(s)
\* A worker that is not there has no camera.
WorkersBound == \A r \in Rigs : worker[r].number = 0 => worker[r].entry = 0

\* The inductive invariant of the leases.
LeaseIInv ==
    /\ LeaseTypeInv /\ OneOwner /\ SessionsAreLeases /\ ServersEmpty /\ ClosesInOrder
    /\ ClosesTheirLease /\ LeasesApart /\ FrozenForLeases /\ PolicyFrozen /\ WorkersBound

\* A conjunct stays true where its variables stay the same.
LEMMA LeaseFrames ==
    /\ UNCHANGED <<worker, live>> /\ OneOwner => OneOwner'
    /\ UNCHANGED worker /\ WorkersBound => WorkersBound'
    /\ UNCHANGED <<lease, server, instances>> /\ SessionsAreLeases => SessionsAreLeases'
    /\ UNCHANGED instances /\ ServersEmpty => ServersEmpty'
    /\ UNCHANGED <<instances, closer, closing>> /\ ClosesInOrder => ClosesInOrder'
    /\ UNCHANGED <<lease, closer, ending>> /\ ClosesTheirLease => ClosesTheirLease'
    /\ UNCHANGED lease /\ LeasesApart => LeasesApart'
    /\ UNCHANGED <<lease, frozen>> /\ FrozenForLeases => FrozenForLeases'
    /\ UNCHANGED <<lease, frozen, granted>> /\ PolicyFrozen => PolicyFrozen'
<1>1. UNCHANGED <<worker, live>> /\ OneOwner => OneOwner'
    BY DEF OneOwner, Process
<1>2. UNCHANGED worker /\ WorkersBound => WorkersBound'
    BY DEF WorkersBound
<1>3. UNCHANGED <<lease, server, instances>> /\ SessionsAreLeases => SessionsAreLeases'
    BY DEF SessionsAreLeases, Held
<1>4. UNCHANGED instances /\ ServersEmpty => ServersEmpty'
    BY DEF ServersEmpty
<1>5. UNCHANGED <<instances, closer, closing>> /\ ClosesInOrder => ClosesInOrder'
    BY DEF ClosesInOrder
<1>6. UNCHANGED <<lease, closer, ending>> /\ ClosesTheirLease => ClosesTheirLease'
    BY DEF ClosesTheirLease, Held
<1>7. UNCHANGED lease /\ LeasesApart => LeasesApart'
    BY DEF LeasesApart, Held, Overlap
<1>8. UNCHANGED <<lease, frozen>> /\ FrozenForLeases => FrozenForLeases'
    BY DEF FrozenForLeases, Held, Covers
<1>9. UNCHANGED <<lease, frozen, granted>> /\ PolicyFrozen => PolicyFrozen'
    BY DEF PolicyFrozen, Held
<1>10. QED
    BY <1>1, <1>2, <1>3, <1>4, <1>5, <1>6, <1>7, <1>8, <1>9

\* What a session's close leaves of the servers' sessions is less than there was.
LEMMA SessionsShrink ==
    ASSUME LeaseTypeInv, SessionsAreLeases, ServersEmpty, UNCHANGED <<lease, server>>,
           \A i \in 1 .. MaxServers : instances'[i].sessions \subseteq instances[i].sessions,
           \A i \in 1 .. MaxServers :
               instances'[i].state \in {"none", "stopped"} =>
                   instances'[i].sessions = {} \/ instances[i].state \in {"none", "stopped"}
    PROVE  SessionsAreLeases' /\ ServersEmpty'
<1>1. SessionsAreLeases'
    BY DEF SessionsAreLeases, Held
<1>2. ServersEmpty'
    BY DEF ServersEmpty
<1>3. QED
    BY <1>1, <1>2

\* A fault is one of few.
LEMMA FaultsBounded == ASSUME LeaseTypeInv, Fault \/ UNCHANGED faults PROVE faults' \in 0 .. MaxFaults
<1>1. MaxFaults \in Nat /\ faults \in 0 .. MaxFaults
    BY LeaseAssumption DEF LeaseTypeInv
<1>2. QED
    BY <1>1 DEF Fault

\* Requests come and go at a server, and it may stop: it gets no session by that, and what has
\* stopped has none.
LEMMA ServerSteps ==
    ASSUME LeaseTypeInv, NEW i \in 0 .. MaxServers, NEW begins \in BOOLEAN,
           instances' \in {instances, [instances EXCEPT ![i].busy = begins],
                           [instances EXCEPT ![i].state = "stopping"], Finalized(i)}
    PROVE  /\ instances' \in [1 .. MaxServers -> [state : {"none", "serving", "stopping", "stopped"},
                                                 sessions : SUBSET Sessions, busy : BOOLEAN]]
           /\ \A j \in 1 .. MaxServers : instances'[j].sessions \subseteq instances[j].sessions
           /\ \A j \in 1 .. MaxServers :
                  instances'[j].state \in {"none", "stopped"} =>
                      instances'[j].sessions = {} \/ instances[j].state \in {"none", "stopped"}
<1> DEFINE Servers == [state : {"none", "serving", "stopping", "stopped"}, sessions : SUBSET Sessions, busy : BOOLEAN]
           Begins(j) == [instances[j] EXCEPT !.busy = begins]
           Stops(j) == [instances[j] EXCEPT !.state = "stopping"]
           Final == [state |-> "stopped", sessions |-> {}, busy |-> FALSE]
<1>1. instances \in [1 .. MaxServers -> Servers]
    BY DEF LeaseTypeInv
<1>2. /\ \A j \in 1 .. MaxServers : Begins(j) \in Servers /\ Stops(j) \in Servers
      /\ Final \in Servers
    BY <1>1
<1>3. /\ \A j \in 1 .. MaxServers : Begins(j).sessions = instances[j].sessions /\ Stops(j).sessions = instances[j].sessions
      /\ \A j \in 1 .. MaxServers : Begins(j).state = instances[j].state /\ Stops(j).state = "stopping"
      /\ Final.sessions = {}
    BY <1>1
<1>4. /\ \A j \in 1 .. MaxServers : instances'[j] \in {instances[j], Begins(j), Stops(j), Final}
      /\ DOMAIN instances' = 1 .. MaxServers /\ instances' = [j \in 1 .. MaxServers |-> instances'[j]]
    BY <1>1 DEF Finalized
<1> HIDE DEF Begins, Stops, Final, Servers
<1>5. \A j \in 1 .. MaxServers : instances'[j] \in Servers
    BY <1>1, <1>2, <1>4
<1>6. instances' \in [1 .. MaxServers -> Servers]
    BY <1>4, <1>5
<1>7. /\ \A j \in 1 .. MaxServers : instances'[j].sessions \subseteq instances[j].sessions
      /\ \A j \in 1 .. MaxServers :
             instances'[j].state \in {"none", "stopped"} =>
                 instances'[j].sessions = {} \/ instances[j].state \in {"none", "stopped"}
    BY <1>3, <1>4
<1>8. QED
    BY <1>6, <1>7 DEF Servers

\* The server in charge after one that stopped by itself was noticed.
LEMMA RefreshedIs ==
    ASSUME LeaseTypeInv
    PROVE  /\ Refreshed \in 0 .. MaxServers /\ Refreshed \in {0, server}
           /\ Refreshed = 0 /\ server # 0 => instances[server].state = "stopped"
BY LeaseAssumption DEF Refreshed, LeaseTypeInv

\* A server that is noticed to be gone has no session, and so nothing is lost with it.
LEMMA RefreshKeepsSessions ==
    ASSUME LeaseTypeInv, SessionsAreLeases, ServersEmpty, UNCHANGED <<lease, instances>>, server' = Refreshed
    PROVE  SessionsAreLeases'
<1>1. SUFFICES ASSUME NEW i \in 1 .. MaxServers, NEW s \in Sessions, s \in instances[i].sessions
               PROVE  s \in Held /\ i = Refreshed
    BY DEF SessionsAreLeases, Held
<1>2. s \in Held /\ i = server
    BY <1>1 DEF SessionsAreLeases
<1>3. instances[server].state # "stopped"
    BY <1>1, <1>2 DEF ServersEmpty
<1>4. QED
    BY <1>2, <1>3, RefreshedIs

\* Of the processes that live, each that goes on is still the registered one of its RIG.
LEMMA OwnersStay ==
    ASSUME LeaseTypeInv, OneOwner, NEW R \in SUBSET Rigs, R \subseteq Alive(Available),
           live' = {Process(r) : r \in R}, worker' = [r \in Rigs |-> IF r \in R THEN worker[r] ELSE NoWorker]
    PROVE  /\ live' \subseteq live /\ OneOwner'
           /\ worker' \in [Rigs -> [number : 0 .. MaxWorkers, entry : Bindings \cup {0}]]
           /\ WorkersBound => WorkersBound'
<1>1. live' \subseteq live
    BY DEF Alive
<1>2. OneOwner'
    BY DEF OneOwner, Process
<1>3. worker' \in [Rigs -> [number : 0 .. MaxWorkers, entry : Bindings \cup {0}]]
    <2>1. MaxWorkers \in Nat
        BY LeaseAssumption
    <2>2. NoWorker \in [number : 0 .. MaxWorkers, entry : Bindings \cup {0}]
        BY <2>1 DEF NoWorker
    <2>3. QED
        BY <2>2 DEF LeaseTypeInv
<1>4. WorkersBound => WorkersBound'
    BY DEF WorkersBound, NoWorker
<1>5. QED
    BY <1>1, <1>2, <1>3, <1>4

\* The invariant of the leases holds at the start.
LEMMA LeaseInvStarts == CameraLeaseInit => LeaseIInv
<1>1. SUFFICES ASSUME CameraLeaseInit PROVE LeaseIInv
    OBVIOUS
<1>2. /\ \A s \in Sessions : lease[s].state = "none" /\ closer[s] = "none" /\ s \notin Held
      /\ \A i \in 1 .. MaxServers : instances[i].sessions = {}
      /\ \A r \in Rigs : frozen[r] = 0 /\ worker[r].number = 0 /\ worker[r].entry = 0
      /\ live = {} /\ Held = {}
    BY <1>1 DEF CameraLeaseInit, NoServer, NoWorker, Held
<1>3. LeaseTypeInv
    <2>1. {MaxServers, MaxWorkers, MaxConfigs, MaxFaults} \subseteq Nat
        BY LeaseAssumption
    <2>2. lease \in [Sessions -> [state : {"none", "open", "closing", "over"}, scope : Scopes \cup {{}}]]
        BY <1>1 DEF CameraLeaseInit
    <2>3. instances \in [1 .. MaxServers -> [state : {"none", "serving", "stopping", "stopped"},
                                             sessions : SUBSET Sessions, busy : BOOLEAN]]
        BY <1>1 DEF CameraLeaseInit, NoServer
    <2>4. worker \in [Rigs -> [number : 0 .. MaxWorkers, entry : Bindings \cup {0}]]
        BY <1>1, <2>1 DEF CameraLeaseInit, NoWorker
    <2>5. QED
        BY <1>1, <1>2, <2>1, <2>2, <2>3, <2>4 DEF CameraLeaseInit, LeaseTypeInv
<1>4. QED
    BY <1>2, <1>3 DEF LeaseIInv, OneOwner, SessionsAreLeases, ServersEmpty, ClosesInOrder, ClosesTheirLease,
                      LeasesApart, FrozenForLeases, PolicyFrozen, WorkersBound

\* Opening a lease keeps the invariant: nobody held its RIGs, so their settings were not frozen.
LEMMA OpenKeeps == ASSUME LeaseIInv, NEW s \in Sessions, NEW scope \in Scopes, Open(s, scope) PROVE LeaseIInv'
<1> USE DEF LeaseIInv
<1> DEFINE i == IF Refreshed = 0 THEN Fresh ELSE server
           leased == IF scope = Everything THEN Available ELSE scope
<1>1. /\ lease[s].state = "none" /\ s \notin Held /\ ending = "no" /\ closer[s] = "none"
      /\ UNCHANGED <<closer, closing, worker, live, made, config, ending, faults>>
    BY DEF Open, workerSide, LeaseTypeInv, Held
<1>2. i \in 1 .. MaxServers /\ server' = i
    <2>1. i <= MaxServers /\ server' = i
        BY DEF Open
    <2>2. Refreshed = 0 => i \in Nat \ {0}
        <3>1. IsFiniteSet({j \in 1 .. MaxServers : instances[j].state # "none"})
            <4>1. MaxServers \in Nat
                BY LeaseAssumption
            <4>2. IsFiniteSet(1 .. MaxServers)
                BY <4>1, FS_Interval
            <4>3. {j \in 1 .. MaxServers : instances[j].state # "none"} \subseteq 1 .. MaxServers
                OBVIOUS
            <4>4. QED
                BY <4>2, <4>3, FS_Subset
        <3>2. QED
            BY <3>1, FS_CardinalityType DEF Fresh
    <2>3. Refreshed # 0 => i \in 1 .. MaxServers
        BY RefreshedIs DEF LeaseTypeInv
    <2>4. QED
        BY <2>1, <2>2, <2>3, LeaseAssumption
<1>3. /\ instances' = [instances EXCEPT ![i].state = "serving", ![i].sessions = @ \cup {s}]
      /\ frozen' = [r \in Rigs |-> IF r \in leased /\ frozen[r] = 0 THEN config ELSE frozen[r]]
    BY DEF Open
<1> HIDE DEF i
<1>4. /\ lease' = [lease EXCEPT ![s] = [state |-> "open", scope |-> scope]]
      /\ granted' = [granted EXCEPT ![s] = config]
    BY DEF Open
<1>5. /\ lease'[s].state = "open" /\ lease'[s].scope = scope
      /\ \A t \in Sessions : t # s => lease'[t] = lease[t]
    BY <1>4 DEF LeaseTypeInv
<1>6. Held' = Held \cup {s}
    BY <1>5 DEF Held
<1>7. \A t \in Held : ~Overlap(scope, lease[t].scope) /\ t # s
    BY <1>1 DEF Open, MayOpen
<1>8. /\ \A t \in Held : Covers(t)' = Covers(t)
      /\ Covers(s)' = IF scope = Everything THEN Rigs ELSE scope
    BY <1>5, <1>7 DEF Covers, Held
<1>9. leased \subseteq Rigs /\ \A r \in leased : r \in Covers(s)'
    BY <1>8 DEF Available, Scopes
<1>10. /\ instances'[i].sessions = instances[i].sessions \cup {s} /\ instances'[i].state = "serving"
       /\ \A j \in 1 .. MaxServers : j # i => instances'[j] = instances[j]
    BY <1>2, <1>3 DEF LeaseTypeInv
<1>11. \A j \in 1 .. MaxServers, t \in Sessions : t \in instances[j].sessions => j = i
    <2>1. SUFFICES ASSUME NEW j \in 1 .. MaxServers, NEW t \in Sessions, t \in instances[j].sessions PROVE j = i
        OBVIOUS
    <2>2. j = server /\ instances[server].state # "stopped"
        BY <2>1 DEF SessionsAreLeases, ServersEmpty
    <2>3. Refreshed # 0
        BY <2>2 DEF Refreshed, LeaseTypeInv
    <2>4. QED
        BY <2>2, <2>3 DEF i
<1>12. LeaseTypeInv'
    <2>1. lease' \in [Sessions -> [state : {"none", "open", "closing", "over"}, scope : Scopes \cup {{}}]]
        BY <1>4 DEF LeaseTypeInv
    <2>2. instances' \in [1 .. MaxServers -> [state : {"none", "serving", "stopping", "stopped"},
                                              sessions : SUBSET Sessions, busy : BOOLEAN]]
        <3>1. /\ instances[i].sessions \cup {s} \in SUBSET Sessions /\ instances[i].busy \in BOOLEAN
              /\ instances[i] \in [state : {"none", "serving", "stopping", "stopped"},
                                  sessions : SUBSET Sessions, busy : BOOLEAN]
            BY <1>2 DEF LeaseTypeInv
        <3>2. [instances[i] EXCEPT !.state = "serving", !.sessions = instances[i].sessions \cup {s}]
                  \in [state : {"none", "serving", "stopping", "stopped"}, sessions : SUBSET Sessions, busy : BOOLEAN]
            BY <3>1
        <3>3. instances' = [instances EXCEPT ![i] =
                  [instances[i] EXCEPT !.state = "serving", !.sessions = instances[i].sessions \cup {s}]]
            BY <1>2, <1>3 DEF LeaseTypeInv
        <3>4. QED
            BY <1>2, <3>2, <3>3 DEF LeaseTypeInv
    <2>3. /\ frozen' \in [Rigs -> 0 .. MaxConfigs] /\ granted' \in [Sessions -> 0 .. MaxConfigs]
          /\ server' \in 0 .. MaxServers
        BY <1>2, <1>3, <1>4 DEF LeaseTypeInv
    <2>4. \A t \in Sessions : lease'[t].state = "closing" => closer'[t] \in {"revoke", "drop"}
        BY <1>1, <1>5 DEF LeaseTypeInv
    <2>5. \A t \in Sessions : lease'[t].state \in {"none", "open"} => closer'[t] = "none"
        BY <1>1, <1>5 DEF LeaseTypeInv
    <2>6. QED
        BY <2>1, <2>2, <2>3, <2>4, <2>5, <1>1 DEF LeaseTypeInv
<1>13. OneOwner' /\ WorkersBound'
    BY <1>1, LeaseFrames
<1>14. SessionsAreLeases'
    <2>1. SUFFICES ASSUME NEW j \in 1 .. MaxServers, NEW t \in Sessions, t \in instances'[j].sessions
                   PROVE  t \in Held' /\ j = i
        BY <1>2 DEF SessionsAreLeases
    <2>2. CASE t \in instances[j].sessions
        BY <2>2, <1>6, <1>11 DEF SessionsAreLeases
    <2>3. CASE t \notin instances[j].sessions
        BY <2>1, <2>3, <1>6, <1>10
    <2>4. QED
        BY <2>2, <2>3
<1>15. ServersEmpty'
    BY <1>10 DEF ServersEmpty
<1>16. ClosesInOrder'
    <2>1. \A j \in 1 .. MaxServers, t \in Sessions : t \in instances'[j].sessions => t \in instances[j].sessions \/ t = s
        BY <1>10
    <2>2. QED
        BY <2>1, <1>1 DEF ClosesInOrder
<1>17. ClosesTheirLease'
    BY <1>1, <1>5 DEF ClosesTheirLease
<1>18. LeasesApart'
    <2>1. SUFFICES ASSUME NEW t \in Held', NEW u \in Held', t # u PROVE ~Overlap(lease'[t].scope, lease'[u].scope)
        BY DEF LeasesApart, Overlap
    <2>2. CASE t = s
        BY <2>1, <2>2, <1>5, <1>6, <1>7 DEF Held
    <2>3. CASE u = s
        BY <2>1, <2>3, <1>5, <1>6, <1>7 DEF Overlap, Held
    <2>4. CASE t # s /\ u # s
        BY <2>1, <2>4, <1>5, <1>6 DEF LeasesApart, Held
    <2>5. QED
        BY <2>2, <2>3, <2>4
<1>19. FrozenForLeases'
    BY <1>3, <1>6, <1>8, <1>9 DEF FrozenForLeases
<1>20. PolicyFrozen'
    <2>1. SUFFICES ASSUME NEW t \in Held', lease'[t].scope # Everything, NEW r \in lease'[t].scope
                   PROVE  frozen'[r] = granted'[t]
        BY DEF PolicyFrozen
    <2>2. CASE t = s
        <3>1. r \in leased /\ r \in Rigs /\ scope # Everything
            BY <2>1, <2>2, <1>5, <1>9
        <3>2. frozen[r] = 0
            <4>1. SUFFICES ASSUME NEW u \in Held, r \in Covers(u) PROVE FALSE
                BY <3>1 DEF FrozenForLeases
            <4>2. QED
                BY <4>1, <3>1, <1>7 DEF Covers, Overlap
        <3>3. QED
            BY <2>2, <3>1, <3>2, <1>3, <1>4 DEF LeaseTypeInv
    <2>3. CASE t # s
        <3>1. t \in Held /\ lease[t].scope # Everything /\ r \in lease[t].scope
            BY <2>1, <2>3, <1>5, <1>6 DEF Held
        <3>2. frozen[r] = granted[t] /\ granted'[t] = granted[t]
            BY <2>3, <3>1, <1>4 DEF PolicyFrozen, LeaseTypeInv
        <3>3. r \in Rigs
            BY <3>1 DEF LeaseTypeInv, Scopes, Everything, Held
        <3>4. r \notin leased
            BY <3>1, <1>7 DEF Overlap
        <3>5. QED
            BY <3>2, <3>3, <3>4, <1>3
    <2>4. QED
        BY <2>2, <2>3
<1>21. QED
    BY <1>12, <1>13, <1>14, <1>15, <1>16, <1>17, <1>18, <1>19, <1>20

\* The steps of a close keep the invariant.
LEMMA CloserKeeps == ASSUME LeaseIInv, NEW s \in Sessions, Closer(s) PROVE LeaseIInv'
<1> USE DEF LeaseIInv
<1>1. CASE CloseBegin(s)
    <2>1. /\ lease[s].state = "open" /\ closer[s] = "none" /\ server \in 1 .. MaxServers
          /\ UNCHANGED <<granted, serverSide, workerSide, policySide, ending, faults>>
        BY <1>1 DEF CloseBegin, LeaseTypeInv
    <2>2. /\ lease' = [lease EXCEPT ![s].state = "closing"]
          /\ closer' = [closer EXCEPT ![s] = "revoke"] /\ closing' = [closing EXCEPT ![s] = server]
        BY <1>1 DEF CloseBegin
    <2>3. /\ \A t \in Sessions : lease'[t].scope = lease[t].scope
          /\ \A t \in Sessions : lease'[t].state = IF t = s THEN "closing" ELSE lease[t].state
          /\ \A t \in Sessions : closer'[t] = IF t = s THEN "revoke" ELSE closer[t]
          /\ \A t \in Sessions : closing'[t] = IF t = s THEN server ELSE closing[t]
        BY <2>2 DEF LeaseTypeInv
    <2>4. Held' = Held
        BY <2>1, <2>3 DEF Held
    <2>5. \A t \in Sessions : Covers(t)' = Covers(t)
        BY <2>3 DEF Covers
    <2>6. LeaseTypeInv'
        <3>1. lease' \in [Sessions -> [state : {"none", "open", "closing", "over"}, scope : Scopes \cup {{}}]]
            <4> DEFINE Ends == Scopes \cup {{}}
            <4>1. lease \in [Sessions -> [state : {"none", "open", "closing", "over"}, scope : Ends]]
                BY DEF LeaseTypeInv
            <4> HIDE DEF Ends
            <4>2. lease' \in [Sessions -> [state : {"none", "open", "closing", "over"}, scope : Ends]]
                BY <2>2, <4>1
            <4>3. QED
                BY <4>2 DEF Ends
        <3>2. /\ closer' \in [Sessions -> {"none", "revoke", "drop", "stop", "drain", "clear", "done"}]
              /\ closing' \in [Sessions -> 0 .. MaxServers]
            BY <2>1, <2>2 DEF LeaseTypeInv
        <3>3. \A t \in Sessions : lease'[t].state = "closing" => closer'[t] \in {"revoke", "drop"}
            BY <2>3 DEF LeaseTypeInv
        <3>4. \A t \in Sessions : lease'[t].state \in {"none", "open"} => closer'[t] = "none"
            BY <2>3 DEF LeaseTypeInv
        <3>5. QED
            BY <2>1, <3>1, <3>2, <3>3, <3>4 DEF LeaseTypeInv, serverSide, workerSide, policySide
    <2>7. OneOwner' /\ WorkersBound' /\ ServersEmpty'
        BY <2>1, LeaseFrames DEF serverSide, workerSide
    <2>8. SessionsAreLeases'
        BY <2>1, <2>4 DEF SessionsAreLeases, serverSide
    <2>9. ClosesInOrder'
        BY <2>1, <2>3 DEF ClosesInOrder, SessionsAreLeases, serverSide
    <2>10. ClosesTheirLease'
        BY <2>1, <2>3, <2>4 DEF ClosesTheirLease
    <2>11. LeasesApart'
        BY <2>3, <2>4 DEF LeasesApart, Overlap, Held
    <2>12. FrozenForLeases'
        BY <2>1, <2>4, <2>5 DEF FrozenForLeases, policySide, Held
    <2>13. PolicyFrozen'
        BY <2>1, <2>3, <2>4 DEF PolicyFrozen, policySide, Held
    <2>14. QED
        BY <2>6, <2>7, <2>8, <2>9, <2>10, <2>11, <2>12, <2>13
<1>2. CASE CloseRevoke(s)
    <2>1. /\ closer[s] = "revoke"
          /\ UNCHANGED <<lease, closing, granted, server, workerSide, policySide, ending, faults>>
        BY <1>2 DEF CloseRevoke
    <2>2. /\ instances' = [instances EXCEPT ![closing[s]].sessions = @ \ {s}]
          /\ closer' = [closer EXCEPT ![s] = "drop"]
        BY <1>2 DEF CloseRevoke
    <2>3. /\ \A i \in 1 .. MaxServers : instances'[i].sessions \subseteq instances[i].sessions
          /\ \A i \in 1 .. MaxServers : instances'[i].state = instances[i].state
          /\ \A i \in 1 .. MaxServers : i = closing[s] => s \notin instances'[i].sessions
          /\ \A t \in Sessions : closer'[t] = IF t = s THEN "drop" ELSE closer[t]
        BY <2>2 DEF LeaseTypeInv
    <2>4. LeaseTypeInv'
        <3>1. instances' \in [1 .. MaxServers -> [state : {"none", "serving", "stopping", "stopped"},
                                                  sessions : SUBSET Sessions, busy : BOOLEAN]]
            <4> DEFINE forgets(i) == [instances[i] EXCEPT !.sessions = instances[i].sessions \ {s}]
            <4>1. ASSUME NEW i \in 1 .. MaxServers
                  PROVE  forgets(i) \in [state : {"none", "serving", "stopping", "stopped"},
                                        sessions : SUBSET Sessions, busy : BOOLEAN]
                <5>1. /\ instances[i] \in [state : {"none", "serving", "stopping", "stopped"},
                                           sessions : SUBSET Sessions, busy : BOOLEAN]
                      /\ instances[i].sessions \ {s} \in SUBSET Sessions
                    BY DEF LeaseTypeInv
                <5>2. QED
                    BY <5>1
            <4>2. instances' = [instances EXCEPT ![closing[s]] = forgets(closing[s])]
                BY <2>2
            <4> HIDE DEF forgets
            <4>3. QED
                BY <4>1, <4>2 DEF LeaseTypeInv
        <3>2. closer' \in [Sessions -> {"none", "revoke", "drop", "stop", "drain", "clear", "done"}]
            BY <2>2 DEF LeaseTypeInv
        <3>3. \A t \in Sessions : lease'[t].state = "closing" => closer'[t] \in {"revoke", "drop"}
            BY <2>1, <2>3 DEF LeaseTypeInv
        <3>4. \A t \in Sessions : lease'[t].state \in {"none", "open"} => closer'[t] = "none"
            BY <2>1, <2>3 DEF LeaseTypeInv
        <3>5. QED
            BY <2>1, <3>1, <3>2, <3>3, <3>4 DEF LeaseTypeInv, workerSide, policySide
    <2>5. SessionsAreLeases' /\ ServersEmpty'
        BY <2>1, <2>3, SessionsShrink
    <2>6. ClosesInOrder'
        BY <2>1, <2>3 DEF ClosesInOrder
    <2>7. ClosesTheirLease'
        BY <2>1, <2>3 DEF ClosesTheirLease, Held
    <2>8. OneOwner' /\ WorkersBound' /\ LeasesApart' /\ FrozenForLeases' /\ PolicyFrozen'
        BY <2>1, LeaseFrames DEF workerSide, policySide
    <2>9. QED
        BY <2>4, <2>5, <2>6, <2>7, <2>8
<1>3. CASE CloseDrop(s)
    <2> DEFINE next == IF server = closing[s] /\ Held \ {s} = {} THEN "stop" ELSE "done"
    <2>1. /\ closer[s] = "drop" /\ lease[s].state \in {"closing", "over"}
          /\ UNCHANGED <<closing, granted, serverSide, workerSide, config, ending, faults>>
        BY <1>3 DEF CloseDrop, LeaseTypeInv
    <2>2. /\ lease' = [lease EXCEPT ![s].state = "over"] /\ frozen' = Thawed(s)
          /\ closer' = [closer EXCEPT ![s] = next] /\ next \in {"stop", "done"}
        BY <1>3 DEF CloseDrop
    <2> HIDE DEF next
    <2>3. /\ \A t \in Sessions : lease'[t].scope = lease[t].scope
          /\ \A t \in Sessions : lease'[t].state = IF t = s THEN "over" ELSE lease[t].state
          /\ \A t \in Sessions : closer'[t] = IF t = s THEN next ELSE closer[t]
          /\ \A r \in Rigs : frozen'[r] = IF r \in Covers(s) THEN 0 ELSE frozen[r]
        BY <2>2 DEF LeaseTypeInv, Thawed
    <2>4. Held' = Held \ {s}
        BY <2>3 DEF Held
    <2>5. \A t \in Sessions : Covers(t)' = Covers(t)
        BY <2>3 DEF Covers
    <2>6. Held # {} => s \in Held
        BY <2>1 DEF ClosesTheirLease, Held
    <2>7. LeaseTypeInv'
        <3>1. lease' \in [Sessions -> [state : {"none", "open", "closing", "over"}, scope : Scopes \cup {{}}]]
            BY <2>2 DEF LeaseTypeInv
        <3>2. /\ closer' \in [Sessions -> {"none", "revoke", "drop", "stop", "drain", "clear", "done"}]
              /\ frozen' \in [Rigs -> 0 .. MaxConfigs]
            BY <2>2, LeaseAssumption DEF LeaseTypeInv, Thawed
        <3>3. \A t \in Sessions : lease'[t].state = "closing" => closer'[t] \in {"revoke", "drop"}
            BY <2>3 DEF LeaseTypeInv
        <3>4. \A t \in Sessions : lease'[t].state \in {"none", "open"} => closer'[t] = "none"
            BY <2>3 DEF LeaseTypeInv
        <3>5. QED
            BY <2>1, <3>1, <3>2, <3>3, <3>4 DEF LeaseTypeInv, serverSide, workerSide
    <2>8. OneOwner' /\ WorkersBound' /\ ServersEmpty'
        BY <2>1, LeaseFrames DEF serverSide, workerSide
    <2>9. SessionsAreLeases'
        BY <2>1, <2>4 DEF SessionsAreLeases, ClosesInOrder, serverSide
    <2>10. ClosesInOrder'
        BY <2>1, <2>2, <2>3 DEF ClosesInOrder, serverSide
    <2>11. ClosesTheirLease'
        BY <2>1, <2>2, <2>3, <2>4 DEF ClosesTheirLease
    <2>12. LeasesApart'
        BY <2>3, <2>4 DEF LeasesApart, Overlap, Held
    <2>13. FrozenForLeases'
        BY <2>3, <2>4, <2>5 DEF FrozenForLeases, Held
    <2>14. PolicyFrozen'
        <3>1. SUFFICES ASSUME NEW t \in Held', lease'[t].scope # Everything, NEW r \in lease'[t].scope
                       PROVE  frozen'[r] = granted'[t]
            BY DEF PolicyFrozen
        <3>2. t \in Held /\ t # s /\ s \in Held /\ lease[t].scope = lease'[t].scope
            BY <2>3, <2>4, <2>6 DEF Held
        <3>3. r \in Rigs
            BY <3>1, <3>2 DEF LeaseTypeInv, Scopes, Everything, Held
        <3>4. r \notin Covers(s)
            BY <3>1, <3>2 DEF LeasesApart, Overlap, Covers
        <3>5. frozen[r] = granted[t]
            BY <3>1, <3>2 DEF PolicyFrozen
        <3>6. QED
            BY <2>1, <2>3, <3>3, <3>4, <3>5
    <2>15. QED
        BY <2>7, <2>8, <2>9, <2>10, <2>11, <2>12, <2>13, <2>14
<1>4. ASSUME CloseStop(s) \/ CloseDrained(s) PROVE LeaseIInv'
    <2> DEFINE next == IF CloseStop(s) THEN "drain" ELSE "clear"
    <2>1. /\ closer[s] \in {"stop", "drain"} /\ closer' = [closer EXCEPT ![s] = next] /\ next \in {"drain", "clear"}
          /\ UNCHANGED <<lease, closing, granted, server, workerSide, policySide, ending, faults>>
          /\ instances' \in {Stopping(closing[s]), Finalized(closing[s])}
        BY <1>4 DEF CloseStop, CloseDrained
    <2> HIDE DEF next
    <2>2. /\ \A t \in Sessions : closer'[t] = IF t = s THEN next ELSE closer[t]
          /\ lease[s].state \notin {"none", "open", "closing"}
        BY <2>1 DEF LeaseTypeInv
    <2>3. /\ instances' \in [1 .. MaxServers -> [state : {"none", "serving", "stopping", "stopped"},
                                                 sessions : SUBSET Sessions, busy : BOOLEAN]]
          /\ \A i \in 1 .. MaxServers : instances'[i].sessions \subseteq instances[i].sessions
          /\ \A i \in 1 .. MaxServers :
                 instances'[i].state \in {"none", "stopped"} =>
                     instances'[i].sessions = {} \/ instances[i].state \in {"none", "stopped"}
        <3>1. closing[s] \in 0 .. MaxServers
            BY DEF LeaseTypeInv
        <3>2. QED
            BY <2>1, <3>1, ServerSteps DEF Stopping
    <2>4. LeaseTypeInv'
        <3>1. closer' \in [Sessions -> {"none", "revoke", "drop", "stop", "drain", "clear", "done"}]
            BY <2>1 DEF LeaseTypeInv
        <3>2. \A t \in Sessions : lease'[t].state = "closing" => closer'[t] \in {"revoke", "drop"}
            BY <2>1, <2>2 DEF LeaseTypeInv
        <3>3. \A t \in Sessions : lease'[t].state \in {"none", "open"} => closer'[t] = "none"
            BY <2>1, <2>2 DEF LeaseTypeInv
        <3>4. QED
            BY <2>1, <2>3, <3>1, <3>2, <3>3 DEF LeaseTypeInv, workerSide, policySide
    <2>5. SessionsAreLeases' /\ ServersEmpty'
        BY <2>1, <2>3, SessionsShrink
    <2>6. ClosesInOrder'
        BY <2>1, <2>2, <2>3 DEF ClosesInOrder
    <2>7. ClosesTheirLease'
        BY <2>1, <2>2 DEF ClosesTheirLease, Held
    <2>8. OneOwner' /\ WorkersBound' /\ LeasesApart' /\ FrozenForLeases' /\ PolicyFrozen'
        BY <2>1, LeaseFrames DEF workerSide, policySide
    <2>9. QED
        BY <2>4, <2>5, <2>6, <2>7, <2>8
<1>5. ASSUME CloseStuck(s) \/ CloseClear(s) PROVE LeaseIInv'
    <2>1. /\ closer[s] \in {"drain", "clear"} /\ closer' = [closer EXCEPT ![s] = "done"]
          /\ UNCHANGED <<lease, closing, granted, instances, workerSide, policySide, ending, faults>>
          /\ server' = server \/ (server' = 0 /\ Held = {})
        BY <1>5 DEF CloseStuck, CloseClear, serverSide
    <2>2. /\ \A t \in Sessions : closer'[t] = IF t = s THEN "done" ELSE closer[t]
          /\ lease[s].state \notin {"none", "open", "closing"}
        BY <2>1 DEF LeaseTypeInv
    <2>3. LeaseTypeInv'
        <3>1. closer' \in [Sessions -> {"none", "revoke", "drop", "stop", "drain", "clear", "done"}]
            BY <2>1 DEF LeaseTypeInv
        <3>2. \A t \in Sessions : lease'[t].state = "closing" => closer'[t] \in {"revoke", "drop"}
            BY <2>1, <2>2 DEF LeaseTypeInv
        <3>3. \A t \in Sessions : lease'[t].state \in {"none", "open"} => closer'[t] = "none"
            BY <2>1, <2>2 DEF LeaseTypeInv
        <3>4. server' \in 0 .. MaxServers
            BY <2>1, LeaseAssumption DEF LeaseTypeInv
        <3>5. QED
            BY <2>1, <3>1, <3>2, <3>3, <3>4 DEF LeaseTypeInv, workerSide, policySide
    <2>4. SessionsAreLeases'
        BY <2>1 DEF SessionsAreLeases, Held
    <2>5. ClosesInOrder'
        BY <2>1, <2>2 DEF ClosesInOrder
    <2>6. ClosesTheirLease'
        BY <2>1, <2>2 DEF ClosesTheirLease, Held
    <2>7. OneOwner' /\ WorkersBound' /\ ServersEmpty' /\ LeasesApart' /\ FrozenForLeases' /\ PolicyFrozen'
        BY <2>1, LeaseFrames DEF workerSide, policySide
    <2>8. QED
        BY <2>3, <2>4, <2>5, <2>6, <2>7
<1>6. QED
    BY <1>1, <1>2, <1>3, <1>4, <1>5 DEF Closer

\* What the handlers of a server do keeps the invariant.
LEMMA ServersKeep ==
    ASSUME LeaseIInv, NEW i \in 1 .. MaxServers, RequestBegins(i) \/ RequestEnds(i) \/ AcceptLoopFails(i)
    PROVE  LeaseIInv'
<1> USE DEF LeaseIInv
<1>1. /\ UNCHANGED <<leaseSide, server, workerSide, policySide, ending>> /\ faults' \in 0 .. MaxFaults
      /\ \E begins \in BOOLEAN :
             instances' \in {instances, [instances EXCEPT ![i].busy = begins],
                             [instances EXCEPT ![i].state = "stopping"], Finalized(i)}
    BY FaultsBounded DEF RequestBegins, RequestEnds, AcceptLoopFails
<1>2. /\ instances' \in [1 .. MaxServers -> [state : {"none", "serving", "stopping", "stopped"},
                                             sessions : SUBSET Sessions, busy : BOOLEAN]]
      /\ \A j \in 1 .. MaxServers : instances'[j].sessions \subseteq instances[j].sessions
      /\ \A j \in 1 .. MaxServers :
             instances'[j].state \in {"none", "stopped"} =>
                 instances'[j].sessions = {} \/ instances[j].state \in {"none", "stopped"}
    BY <1>1, ServerSteps
<1>3. LeaseTypeInv'
    BY <1>1, <1>2 DEF LeaseTypeInv, leaseSide, workerSide, policySide
<1>4. SessionsAreLeases' /\ ServersEmpty'
    BY <1>1, <1>2, SessionsShrink DEF leaseSide
<1>5. ClosesInOrder'
    BY <1>1, <1>2 DEF ClosesInOrder, leaseSide
<1>6. OneOwner' /\ WorkersBound' /\ ClosesTheirLease' /\ LeasesApart' /\ FrozenForLeases' /\ PolicyFrozen'
    BY <1>1, LeaseFrames DEF leaseSide, workerSide, policySide
<1>7. QED
    BY <1>3, <1>4, <1>5, <1>6

\* A reconciliation that got as far as it can leaves each camera with one owner: the successors
\* are new, and what they succeed is stopped before.
LEMMA ReconcileKeepsOwners ==
    ASSUME LeaseTypeInv, OneOwner, WorkersBound, NEW desired \in [Rigs -> Bindings \cup {0}],
           NEW R \in SUBSET Rigs, NEW S \in SUBSET R, Reconcile(desired, R, S)
    PROVE  /\ OneOwner' /\ WorkersBound' /\ live' \subseteq Rigs \X (1 .. MaxWorkers) /\ made' \in 0 .. MaxWorkers
           /\ worker' \in [Rigs -> [number : 0 .. MaxWorkers, entry : Bindings \cup {0}]]
           /\ \A r \in Rigs : worker'[r].entry # worker[r].entry => desired[r] # worker[r].entry
<1> DEFINE number == made + 1
<1>1. /\ live' = (live \ Stopped(desired)) \cup {<<r, number>> : r \in S}
      /\ worker' = [r \in Rigs |-> IF r \in S THEN [number |-> number, entry |-> desired[r]]
                                   ELSE IF r \in Obsolete(desired) \/ worker[r].number = 0 THEN NoWorker ELSE worker[r]]
      /\ made' = IF R # {} THEN number ELSE made
      /\ R # {} => number <= MaxWorkers
      /\ \A r \in R : desired[r] # 0 /\ worker[r].entry # desired[r]
    BY DEF Reconcile
<1>2. MaxWorkers \in Nat /\ made \in 0 .. MaxWorkers /\ made' \in 0 .. MaxWorkers /\ (S # {} => number \in 1 .. MaxWorkers)
    BY <1>1, LeaseAssumption DEF LeaseTypeInv
<1> HIDE DEF number
<1>3. worker' \in [Rigs -> [number : 0 .. MaxWorkers, entry : Bindings \cup {0}]]
    <2>1. \A r \in S : [number |-> number, entry |-> desired[r]] \in [number : 0 .. MaxWorkers, entry : Bindings \cup {0}]
        BY <1>2
    <2>2. NoWorker \in [number : 0 .. MaxWorkers, entry : Bindings \cup {0}]
        BY <1>2 DEF NoWorker
    <2>3. QED
        BY <1>1, <2>1, <2>2 DEF LeaseTypeInv
<1>4. /\ \A r \in Rigs : r \in S => worker'[r].number = number /\ worker'[r].entry = desired[r]
      /\ \A r \in Rigs : r \notin S /\ (r \in Obsolete(desired) \/ worker[r].number = 0) =>
             worker'[r].number = 0 /\ worker'[r].entry = 0
      /\ \A r \in Rigs : r \notin S /\ r \notin Obsolete(desired) /\ worker[r].number # 0 => worker'[r] = worker[r]
    BY <1>1 DEF NoWorker
<1>5. OneOwner'
    <2>1. SUFFICES ASSUME NEW p \in live' PROVE p = <<p[1], worker'[p[1]].number>>
        BY DEF OneOwner, Process
    <2>2. CASE p \in {<<r, number>> : r \in S}
        BY <2>2, <1>4
    <2>3. CASE p \in live \ Stopped(desired)
        <3>1. PICK r \in Rigs, n \in 1 .. MaxWorkers : p = <<r, n>>
            BY <2>3 DEF LeaseTypeInv
        <3>2. n = worker[r].number /\ r \in Available
            BY <2>3, <3>1, <1>2 DEF OneOwner, Process, Available
        <3>3. r \notin Obsolete(desired)
            BY <2>3, <3>1, <3>2 DEF Stopped, Process
        <3>4. r \notin S
            BY <3>2, <3>3, <1>1 DEF Obsolete
        <3>5. QED
            BY <3>1, <3>2, <3>3, <3>4, <1>4 DEF Available
    <2>4. QED
        BY <2>2, <2>3, <1>1
<1>6. WorkersBound'
    BY <1>2, <1>4 DEF WorkersBound
<1>7. live' \subseteq Rigs \X (1 .. MaxWorkers)
    BY <1>1, <1>2 DEF LeaseTypeInv
<1>8. \A r \in Rigs : worker'[r].entry # worker[r].entry => desired[r] # worker[r].entry
    BY <1>1, <1>4 DEF Obsolete, WorkersBound, Available
<1>9. QED
    BY <1>2, <1>3, <1>5, <1>6, <1>7, <1>8

\* What the runtime does with its workers keeps the invariant.
LEMMA WorkersKeep ==
    ASSUME LeaseIInv,
           \/ \E desired \in [Rigs -> Bindings \cup {0}], R \in SUBSET Rigs :
                  ReconcileFails(desired, R) \/ \E S \in SUBSET R : Reconcile(desired, R, S)
           \/ \E R \in SUBSET Rigs : ReleaseIdle(R) \/ ShutdownWorkers(R)
           \/ \E r \in Rigs : WorkerDies(r)
    PROVE  LeaseIInv'
<1> USE DEF LeaseIInv
<1>1. ASSUME NEW desired \in [Rigs -> Bindings \cup {0}], NEW R \in SUBSET Rigs, ReconcileFails(desired, R) PROVE LeaseIInv'
    <2>1. /\ UNCHANGED <<leaseSide, instances, worker, made, policySide, ending>> /\ faults' \in 0 .. MaxFaults
          /\ server' = Refreshed /\ live' \subseteq live
        BY <1>1, FaultsBounded DEF ReconcileFails
    <2>2. LeaseTypeInv'
        BY <2>1, RefreshedIs DEF LeaseTypeInv, leaseSide, policySide
    <2>3. OneOwner'
        BY <2>1 DEF OneOwner, Process
    <2>4. SessionsAreLeases'
        BY <2>1, RefreshKeepsSessions DEF leaseSide
    <2>5. /\ WorkersBound' /\ ServersEmpty' /\ ClosesInOrder' /\ ClosesTheirLease' /\ LeasesApart'
          /\ FrozenForLeases' /\ PolicyFrozen'
        BY <2>1, LeaseFrames DEF leaseSide, policySide
    <2>6. QED
        BY <2>2, <2>3, <2>4, <2>5
<1>2. ASSUME NEW desired \in [Rigs -> Bindings \cup {0}], NEW R \in SUBSET Rigs, NEW S \in SUBSET R,
             Reconcile(desired, R, S)
      PROVE  LeaseIInv'
    <2>1. /\ UNCHANGED <<leaseSide, instances, frozen, ending>> /\ server' = Refreshed
          /\ faults' \in 0 .. MaxFaults /\ config' \in 0 .. MaxConfigs
        <3>1. /\ UNCHANGED <<leaseSide, instances, frozen, ending>> /\ server' = Refreshed
              /\ Fault \/ UNCHANGED faults
              /\ config' = config \/ (config' = config + 1 /\ config < MaxConfigs)
            BY <1>2 DEF Reconcile, MayReconcile
        <3>2. MaxConfigs \in Nat /\ config \in 0 .. MaxConfigs
            BY LeaseAssumption DEF LeaseTypeInv
        <3>3. QED
            BY <3>1, <3>2, FaultsBounded
    <2>2. /\ OneOwner' /\ WorkersBound' /\ live' \subseteq Rigs \X (1 .. MaxWorkers) /\ made' \in 0 .. MaxWorkers
          /\ worker' \in [Rigs -> [number : 0 .. MaxWorkers, entry : Bindings \cup {0}]]
        BY <1>2, ReconcileKeepsOwners
    <2>3. LeaseTypeInv'
        BY <2>1, <2>2, RefreshedIs DEF LeaseTypeInv, leaseSide
    <2>4. SessionsAreLeases'
        BY <2>1, RefreshKeepsSessions DEF leaseSide
    <2>5. ServersEmpty' /\ ClosesInOrder' /\ ClosesTheirLease' /\ LeasesApart' /\ FrozenForLeases' /\ PolicyFrozen'
        BY <2>1, LeaseFrames DEF leaseSide
    <2>6. QED
        BY <2>2, <2>3, <2>4, <2>5
<1>3. ASSUME NEW R \in SUBSET Rigs, ReleaseIdle(R) PROVE LeaseIInv'
    <2>1. /\ UNCHANGED <<leaseSide, instances, made, config, ending>> /\ faults' \in 0 .. MaxFaults
          /\ server' = 0 /\ Held = {} /\ R \subseteq Alive(Available)
          /\ frozen' = [r \in Rigs |-> 0]
        BY <1>3, FaultsBounded DEF ReleaseIdle
    <2>2. live' = {Process(r) : r \in R} /\ worker' = [r \in Rigs |-> IF r \in R THEN worker[r] ELSE NoWorker]
        BY <1>3 DEF ReleaseIdle
    <2>3. /\ live' \subseteq live /\ OneOwner' /\ WorkersBound'
          /\ worker' \in [Rigs -> [number : 0 .. MaxWorkers, entry : Bindings \cup {0}]]
        BY <2>1, <2>2, OwnersStay
    <2>4. LeaseTypeInv'
        <3>1. frozen' \in [Rigs -> 0 .. MaxConfigs] /\ server' \in 0 .. MaxServers
            BY <2>1, LeaseAssumption
        <3>2. QED
            BY <2>1, <2>3, <3>1 DEF LeaseTypeInv, leaseSide
    <2>5. SessionsAreLeases'
        BY <2>1 DEF SessionsAreLeases, Held, leaseSide
    <2>6. ServersEmpty' /\ ClosesInOrder' /\ ClosesTheirLease' /\ LeasesApart'
        BY <2>1, LeaseFrames DEF leaseSide
    <2>7. FrozenForLeases' /\ PolicyFrozen'
        BY <2>1 DEF FrozenForLeases, PolicyFrozen, Held, leaseSide
    <2>8. QED
        BY <2>3, <2>4, <2>5, <2>6, <2>7
<1>4. ASSUME NEW R \in SUBSET Rigs, ShutdownWorkers(R) PROVE LeaseIInv'
    <2>1. /\ UNCHANGED <<leaseSide, serverSide, made, policySide>> /\ faults' \in 0 .. MaxFaults
          /\ ending = "workers" /\ ending' \in {"over", "failed"} /\ R \subseteq Alive(Available)
        BY <1>4, FaultsBounded DEF ShutdownWorkers
    <2>2. live' = {Process(r) : r \in R} /\ worker' = [r \in Rigs |-> IF r \in R THEN worker[r] ELSE NoWorker]
        BY <1>4 DEF ShutdownWorkers
    <2>3. /\ live' \subseteq live /\ OneOwner' /\ WorkersBound'
          /\ worker' \in [Rigs -> [number : 0 .. MaxWorkers, entry : Bindings \cup {0}]]
        BY <2>1, <2>2, OwnersStay
    <2>4. LeaseTypeInv'
        BY <2>1, <2>3 DEF LeaseTypeInv, leaseSide, serverSide, policySide
    <2>5. ClosesTheirLease'
        BY <2>1 DEF ClosesTheirLease, Held, leaseSide
    <2>6. SessionsAreLeases' /\ ServersEmpty' /\ ClosesInOrder' /\ LeasesApart' /\ FrozenForLeases' /\ PolicyFrozen'
        BY <2>1, LeaseFrames DEF leaseSide, serverSide, policySide
    <2>7. QED
        BY <2>3, <2>4, <2>5, <2>6
<1>5. ASSUME NEW r \in Rigs, WorkerDies(r) PROVE LeaseIInv'
    <2>1. /\ UNCHANGED <<leaseSide, serverSide, worker, made, policySide, ending>> /\ faults' \in 0 .. MaxFaults
          /\ live' \subseteq live
        BY <1>5, FaultsBounded DEF WorkerDies
    <2>2. LeaseTypeInv'
        BY <2>1 DEF LeaseTypeInv, leaseSide, serverSide, policySide
    <2>3. OneOwner'
        BY <2>1 DEF OneOwner, Process
    <2>4. /\ WorkersBound' /\ SessionsAreLeases' /\ ServersEmpty' /\ ClosesInOrder' /\ ClosesTheirLease'
          /\ LeasesApart' /\ FrozenForLeases' /\ PolicyFrozen'
        BY <2>1, LeaseFrames DEF leaseSide, serverSide, policySide
    <2>5. QED
        BY <2>2, <2>3, <2>4
<1>6. QED
    BY <1>1, <1>2, <1>3, <1>4, <1>5

\* The shutdown keeps the invariant.
LEMMA ShutdownKeeps ==
    ASSUME LeaseIInv, ShutdownBegins \/ ShutdownStuck \/ ShutdownServer PROVE LeaseIInv'
<1> USE DEF LeaseIInv
<1>1. CASE ShutdownBegins
    <2>1. /\ UNCHANGED <<leaseSide, workerSide, policySide, faults>> /\ ending' \in {"workers", "server"}
          /\ server' = Refreshed /\ instances' \in {instances, [instances EXCEPT ![server].state = "stopping"]}
        BY <1>1 DEF ShutdownBegins, Stopping
    <2>2. Refreshed = server \/ instances' = instances
        BY <1>1, RefreshedIs DEF ShutdownBegins
    <2>3. /\ instances' \in [1 .. MaxServers -> [state : {"none", "serving", "stopping", "stopped"},
                                                 sessions : SUBSET Sessions, busy : BOOLEAN]]
          /\ \A j \in 1 .. MaxServers : instances'[j].sessions \subseteq instances[j].sessions
          /\ \A j \in 1 .. MaxServers :
                 instances'[j].state \in {"none", "stopped"} =>
                     instances'[j].sessions = {} \/ instances[j].state \in {"none", "stopped"}
        BY <2>1, ServerSteps DEF LeaseTypeInv
    <2>4. LeaseTypeInv'
        BY <2>1, <2>3, RefreshedIs DEF LeaseTypeInv, leaseSide, workerSide, policySide
    <2>5. SessionsAreLeases' /\ ServersEmpty'
        BY <2>1, <2>2, <2>3, SessionsShrink, RefreshKeepsSessions, LeaseFrames DEF leaseSide
    <2>6. ClosesInOrder'
        BY <2>1, <2>3 DEF ClosesInOrder, leaseSide
    <2>7. ClosesTheirLease'
        BY <2>1 DEF ClosesTheirLease, Held, leaseSide
    <2>8. OneOwner' /\ WorkersBound' /\ LeasesApart' /\ FrozenForLeases' /\ PolicyFrozen'
        BY <2>1, LeaseFrames DEF leaseSide, workerSide, policySide
    <2>9. QED
        BY <2>4, <2>5, <2>6, <2>7, <2>8
<1>2. CASE ShutdownStuck
    <2>1. UNCHANGED <<leaseSide, serverSide, workerSide, policySide, faults>> /\ ending' = "failed"
        BY <1>2 DEF ShutdownStuck
    <2>2. LeaseTypeInv'
        BY <2>1 DEF LeaseTypeInv, leaseSide, serverSide, workerSide, policySide
    <2>3. ClosesTheirLease'
        BY <2>1 DEF ClosesTheirLease, Held, leaseSide
    <2>4. /\ OneOwner' /\ WorkersBound' /\ SessionsAreLeases' /\ ServersEmpty' /\ ClosesInOrder'
          /\ LeasesApart' /\ FrozenForLeases' /\ PolicyFrozen'
        BY <2>1, LeaseFrames DEF leaseSide, serverSide, workerSide, policySide
    <2>5. QED
        BY <2>2, <2>3, <2>4
<1>3. CASE ShutdownServer /\ server = 0
    <2>1. UNCHANGED <<leaseSide, serverSide, workerSide, policySide, faults>> /\ ending' = "workers"
        BY <1>3 DEF ShutdownServer, leaseSide, policySide
    <2>2. LeaseTypeInv'
        BY <2>1 DEF LeaseTypeInv, leaseSide, serverSide, workerSide, policySide
    <2>3. ClosesTheirLease'
        BY <2>1 DEF ClosesTheirLease, Held, leaseSide
    <2>4. /\ OneOwner' /\ WorkersBound' /\ SessionsAreLeases' /\ ServersEmpty' /\ ClosesInOrder'
          /\ LeasesApart' /\ FrozenForLeases' /\ PolicyFrozen'
        BY <2>1, LeaseFrames DEF leaseSide, serverSide, workerSide, policySide
    <2>5. QED
        BY <2>2, <2>3, <2>4
<1>4. CASE ShutdownServer /\ server # 0
    <2>1. /\ UNCHANGED <<closer, closing, granted, workerSide, config, faults>>
          /\ ending' = "workers" /\ server' = 0 /\ instances' = Finalized(server) /\ frozen' = [r \in Rigs |-> 0]
          /\ lease' = [s \in Sessions |-> IF s \in Held THEN [lease[s] EXCEPT !.state = "over"] ELSE lease[s]]
        BY <1>4 DEF ShutdownServer
    <2>2. \A s \in Sessions : lease'[s].state = IF s \in Held THEN "over" ELSE lease[s].state
        BY <2>1 DEF LeaseTypeInv
    <2>3. Held' = {}
        BY <2>2 DEF Held
    <2>4. /\ server \in 1 .. MaxServers
          /\ \A i \in 1 .. MaxServers : IF i = server THEN instances'[i].sessions = {} ELSE instances'[i] = instances[i]
        BY <1>4, <2>1 DEF Finalized, LeaseTypeInv
    <2>5. \A i \in 1 .. MaxServers, s \in Sessions : s \notin instances'[i].sessions
        BY <2>4 DEF SessionsAreLeases
    <2>6. LeaseTypeInv'
        <3>1. lease' \in [Sessions -> [state : {"none", "open", "closing", "over"}, scope : Scopes \cup {{}}]]
            <4> DEFINE Ends == Scopes \cup {{}}
            <4>1. lease \in [Sessions -> [state : {"none", "open", "closing", "over"}, scope : Ends]]
                BY DEF LeaseTypeInv
            <4> HIDE DEF Ends
            <4>2. lease' \in [Sessions -> [state : {"none", "open", "closing", "over"}, scope : Ends]]
                BY <2>1, <4>1
            <4>3. QED
                BY <4>2 DEF Ends
        <3>2. instances' \in [1 .. MaxServers -> [state : {"none", "serving", "stopping", "stopped"},
                                                  sessions : SUBSET Sessions, busy : BOOLEAN]]
            BY <2>1 DEF Finalized, LeaseTypeInv
        <3>3. frozen' \in [Rigs -> 0 .. MaxConfigs] /\ server' \in 0 .. MaxServers
            BY <2>1, LeaseAssumption
        <3>4. \A t \in Sessions : lease'[t].state = "closing" => closer'[t] \in {"revoke", "drop"}
            BY <2>1, <2>2 DEF LeaseTypeInv
        <3>5. \A t \in Sessions : lease'[t].state \in {"none", "open"} => closer'[t] = "none"
            BY <2>1, <2>2 DEF LeaseTypeInv
        <3>6. QED
            BY <2>1, <3>1, <3>2, <3>3, <3>4, <3>5 DEF LeaseTypeInv, workerSide
    <2>7. OneOwner' /\ WorkersBound'
        BY <2>1, LeaseFrames DEF workerSide
    <2>8. SessionsAreLeases' /\ ClosesInOrder'
        BY <2>5 DEF SessionsAreLeases, ClosesInOrder
    <2>9. ServersEmpty'
        BY <2>4 DEF ServersEmpty
    <2>10. ClosesTheirLease' /\ LeasesApart' /\ PolicyFrozen'
        BY <2>1, <2>3 DEF ClosesTheirLease, LeasesApart, PolicyFrozen
    <2>11. FrozenForLeases'
        BY <2>1 DEF FrozenForLeases
    <2>12. QED
        BY <2>6, <2>7, <2>8, <2>9, <2>10, <2>11
<1>5. QED
    BY <1>1, <1>2, <1>3, <1>4

\* A step of the one part is a step or a stutter of the other, which stands still.
LEMMA CameraApart ==
    [LeasePart \/ SessionPart]_<<part, leaseVars, sessionVars>> =>
        /\ [CameraLeaseNext]_leaseVars /\ [CameraSessionNext]_sessionVars
BY DEF LeasePart, SessionPart

\* Every step of the leases keeps their invariant.
LEMMA LeaseInvStep == LeaseIInv /\ [CameraLeaseNext]_leaseVars => LeaseIInv'
<1>1. SUFFICES ASSUME LeaseIInv, [CameraLeaseNext]_leaseVars PROVE LeaseIInv'
    OBVIOUS
<1>2. CASE UNCHANGED leaseVars
    <2>1. UNCHANGED <<lease, closer, closing, granted, server, instances, worker, live, made, config, frozen, ending, faults>>
        BY <1>2 DEF leaseVars, leaseSide, serverSide, workerSide, policySide
    <2>2. LeaseTypeInv'
        BY <1>1, <2>1 DEF LeaseIInv, LeaseTypeInv
    <2>3. QED
        BY <1>1, <2>1, <2>2, LeaseFrames DEF LeaseIInv
<1>3. CASE CameraLeaseNext
    BY <1>1, <1>3, OpenKeeps, CloserKeeps, ServersKeep, WorkersKeep, ShutdownKeeps DEF CameraLeaseNext
<1>4. QED
    BY <1>1, <1>2, <1>3

\* The invariant of the leases holds throughout.
LEMMA LeaseAlways == Spec => []LeaseIInv
<1>1. Init => LeaseIInv
    BY LeaseInvStarts DEF Init
<1>2. LeaseIInv /\ [LeasePart \/ SessionPart]_<<part, leaseVars, sessionVars>> => LeaseIInv'
    BY LeaseInvStep, CameraApart
<1>3. QED
    BY <1>1, <1>2, PTL DEF Spec

\* A lease means what its holder takes it for, for any number of sessions, RIGs and servers: only its
\* server serves it, its settings are the ones it was opened under, and every camera has one owner.
THEOREM LeasesAreHonoured == Spec => []LeasesHonoured
<1>1. LeaseIInv => LeasesHonoured
    BY DEF LeaseIInv, LeasesHonoured
<1>2. QED
    BY <1>1, LeaseAlways, PTL

\* What each session holds, and what each RIG is bound to.
HeldRigs == [s \in Sessions |-> IF s \in Held THEN Covers(s) ELSE {}]
BoundTo == [r \in Rigs |-> worker[r].entry]

\* Every step of the runtime is a step of what it promises its clients, or none.
LEMMA LeaseStep ==
    LeaseIInv /\ [CameraLeaseNext]_leaseVars => [Promise!LeaseNext]_<<HeldRigs, BoundTo, ending # "no">>
<1> SUFFICES ASSUME LeaseIInv, [CameraLeaseNext]_leaseVars
             PROVE  Promise!LeaseNext \/ UNCHANGED <<HeldRigs, BoundTo, ending # "no">>
    OBVIOUS
<1> LeaseTypeInv /\ LeasesApart /\ WorkersBound /\ ClosesTheirLease
    BY DEF LeaseIInv
<1>1. UNCHANGED lease => UNCHANGED HeldRigs
    BY DEF HeldRigs, Held, Covers
<1>2. UNCHANGED worker => UNCHANGED BoundTo
    BY DEF BoundTo
<1>3. ASSUME ending # "no", ending' # "no" PROVE Promise!LeaseNext
    BY <1>3 DEF Promise!LeaseNext, Promise!AfterEnd
<1>4. ASSUME ending' # "no" PROVE Promise!LeaseNext
    BY <1>4 DEF Promise!LeaseNext, Promise!End
<1>5. ASSUME NEW s \in Sessions, NEW scope \in Scopes, Open(s, scope) PROVE Promise!LeaseNext
    <2> DEFINE R == IF scope = Everything THEN Rigs ELSE scope
    <2>1. /\ s \notin Held /\ lease' = [lease EXCEPT ![s] = [state |-> "open", scope |-> scope]]
          /\ Available # {} /\ UNCHANGED <<worker, ending>>
          /\ \A t \in Held : ~Overlap(scope, lease[t].scope) /\ t # s
        BY <1>5 DEF Open, MayOpen, workerSide, Held
    <2>2. /\ lease'[s].state = "open" /\ lease'[s].scope = scope
          /\ \A t \in Sessions : t # s => lease'[t] = lease[t]
        BY <2>1 DEF LeaseTypeInv
    <2>3. Held' = Held \cup {s}
        BY <2>2 DEF Held
    <2>4. /\ \A t \in Held : Covers(t)' = Covers(t)
          /\ Covers(s)' = R
        BY <2>1, <2>2 DEF Covers, Held
    <2>5. R \in SUBSET Rigs /\ R # {}
        <3>1. CASE scope = Everything
            BY <2>1, <3>1 DEF Available
        <3>2. CASE scope # Everything
            BY <3>2 DEF Scopes
        <3>3. QED
            BY <3>1, <3>2
    <2>6. \A t \in Held : Covers(t) \cap R = {}
        BY <2>1, <2>5 DEF Overlap, Covers
    <2>7. /\ HeldRigs[s] = {} /\ \A t \in Sessions : HeldRigs[t] \cap R = {}
          /\ HeldRigs' = [HeldRigs EXCEPT ![s] = R]
        BY <2>1, <2>3, <2>4, <2>6 DEF HeldRigs
    <2>8. UNCHANGED <<BoundTo, ending # "no">>
        BY <2>1, <1>2
    <2>9. Promise!Acquire(s, R)
        BY <2>5, <2>7, <2>8 DEF Promise!Acquire, HeldRigs, BoundTo
    <2>10. QED
        BY <2>5, <2>9 DEF Promise!LeaseNext
<1>6. ASSUME NEW s \in Sessions, CloseBegin(s) PROVE UNCHANGED <<HeldRigs, BoundTo, ending # "no">>
    <2>1. lease[s].state = "open" /\ lease' = [lease EXCEPT ![s].state = "closing"] /\ UNCHANGED <<worker, ending>>
        BY <1>6 DEF CloseBegin, workerSide
    <2>2. /\ \A t \in Sessions : lease'[t].scope = lease[t].scope
          /\ \A t \in Sessions : lease'[t].state = IF t = s THEN "closing" ELSE lease[t].state
        BY <2>1 DEF LeaseTypeInv
    <2>3. Held' = Held /\ \A t \in Sessions : Covers(t)' = Covers(t)
        BY <2>1, <2>2 DEF Held, Covers
    <2>4. QED
        BY <2>1, <2>3, <1>2 DEF HeldRigs
<1>7. ASSUME NEW s \in Sessions, CloseDrop(s) PROVE Promise!LeaseNext
    <2>1. lease' = [lease EXCEPT ![s].state = "over"] /\ UNCHANGED <<worker, ending>>
        BY <1>7 DEF CloseDrop, workerSide
    <2>2. /\ \A t \in Sessions : lease'[t].scope = lease[t].scope
          /\ \A t \in Sessions : lease'[t].state = IF t = s THEN "over" ELSE lease[t].state
        BY <2>1 DEF LeaseTypeInv
    <2>3. Held' = Held \ {s} /\ \A t \in Sessions : Covers(t)' = Covers(t)
        BY <2>2 DEF Held, Covers
    <2>4. HeldRigs' = [HeldRigs EXCEPT ![s] = {}]
        BY <2>3 DEF HeldRigs
    <2>5. UNCHANGED <<BoundTo, ending # "no">>
        BY <2>1, <1>2
    <2>6. Promise!Release(s)
        BY <2>4, <2>5 DEF Promise!Release, HeldRigs, BoundTo
    <2>7. QED
        BY <2>6 DEF Promise!LeaseNext
<1>8. ASSUME NEW s \in Sessions,
             CloseRevoke(s) \/ CloseStop(s) \/ CloseDrained(s) \/ CloseStuck(s) \/ CloseClear(s)
      PROVE  UNCHANGED <<HeldRigs, BoundTo, ending # "no">>
    <2>1. UNCHANGED <<lease, worker, ending>>
        BY <1>8 DEF CloseRevoke, CloseStop, CloseDrained, CloseStuck, CloseClear, workerSide
    <2>2. QED
        BY <2>1, <1>1, <1>2
<1>9. ASSUME NEW i \in 1 .. MaxServers, RequestBegins(i) \/ RequestEnds(i) \/ AcceptLoopFails(i)
      PROVE  UNCHANGED <<HeldRigs, BoundTo, ending # "no">>
    <2>1. UNCHANGED <<lease, worker, ending>>
        BY <1>9 DEF RequestBegins, RequestEnds, AcceptLoopFails, leaseSide, workerSide
    <2>2. QED
        BY <2>1, <1>1, <1>2
<1>10. ASSUME UNCHANGED <<lease, ending>>, worker' \in [Rigs -> [number : 0 .. MaxWorkers, entry : Bindings \cup {0}]],
              \A r \in Rigs, s \in Held : r \in Covers(s) => worker'[r].entry = worker[r].entry \/ worker[r].entry = 0
       PROVE  Promise!LeaseNext
    <2>1. UNCHANGED <<HeldRigs, ending # "no">>
        BY <1>10, <1>1
    <2>2. BoundTo' \in [Rigs -> Bindings \cup {0}]
        BY <1>10 DEF BoundTo
    <2>3. \A r \in Rigs : BoundTo'[r] = BoundTo[r] \/ BoundTo[r] = 0 \/ \A s \in Sessions : r \notin HeldRigs[s]
        BY <1>10 DEF BoundTo, HeldRigs
    <2>4. Promise!Rebind
        BY <2>1, <2>2, <2>3 DEF Promise!Rebind, HeldRigs, BoundTo
    <2>5. QED
        BY <2>4 DEF Promise!LeaseNext
<1>11. ASSUME NEW desired \in [Rigs -> Bindings \cup {0}], NEW R \in SUBSET Rigs, NEW S \in SUBSET R,
              Reconcile(desired, R, S)
       PROVE  Promise!LeaseNext
    <2>1. /\ worker' \in [Rigs -> [number : 0 .. MaxWorkers, entry : Bindings \cup {0}]]
          /\ \A r \in Rigs : worker'[r].entry # worker[r].entry => desired[r] # worker[r].entry
        BY <1>11, ReconcileKeepsOwners DEF LeaseIInv
    <2>2. UNCHANGED <<lease, ending>> /\ \A r \in LeasedRigs : worker[r].entry = desired[r]
        BY <1>11 DEF Reconcile, MayReconcile, leaseSide
    <2>3. ASSUME NEW r \in Rigs, NEW s \in Held, r \in Covers(s) PROVE r \in LeasedRigs \/ worker[r].entry = 0
        <3>1. CASE lease[s].scope = Everything
            BY <2>3, <3>1 DEF LeasedRigs, Available, WorkersBound
        <3>2. CASE lease[s].scope # Everything
            BY <2>3, <3>2 DEF LeasedRigs, Covers
        <3>3. QED
            BY <3>1, <3>2
    <2>4. QED
        BY <2>1, <2>2, <2>3, <1>10
<1>12. ASSUME NEW desired \in [Rigs -> Bindings \cup {0}], NEW R \in SUBSET Rigs, ReconcileFails(desired, R)
       PROVE  UNCHANGED <<HeldRigs, BoundTo, ending # "no">>
    <2>1. UNCHANGED <<lease, worker, ending>>
        BY <1>12 DEF ReconcileFails, leaseSide
    <2>2. QED
        BY <2>1, <1>1, <1>2
<1>13. ASSUME NEW R \in SUBSET Rigs, ReleaseIdle(R) PROVE Promise!LeaseNext
    <2>1. /\ UNCHANGED <<lease, ending>> /\ Held = {} /\ R \subseteq Alive(Available)
          /\ live' = {Process(r) : r \in R} /\ worker' = [r \in Rigs |-> IF r \in R THEN worker[r] ELSE NoWorker]
        BY <1>13 DEF ReleaseIdle, leaseSide
    <2>2. worker' \in [Rigs -> [number : 0 .. MaxWorkers, entry : Bindings \cup {0}]]
        BY <2>1, OwnersStay DEF LeaseIInv
    <2>3. QED
        BY <2>1, <2>2, <1>10
<1>14. ASSUME NEW r \in Rigs, WorkerDies(r) PROVE UNCHANGED <<HeldRigs, BoundTo, ending # "no">>
    <2>1. UNCHANGED <<lease, worker, ending>>
        BY <1>14 DEF WorkerDies, leaseSide
    <2>2. QED
        BY <2>1, <1>1, <1>2
<1>15. ASSUME ShutdownBegins \/ ShutdownStuck \/ ShutdownServer \/ \E R \in SUBSET Rigs : ShutdownWorkers(R)
       PROVE  Promise!LeaseNext
    <2>1. ending' # "no"
        BY <1>15 DEF ShutdownBegins, ShutdownStuck, ShutdownServer, ShutdownWorkers
    <2>2. QED
        BY <2>1, <1>4
<1>16. CASE UNCHANGED leaseVars
    BY <1>16, <1>1, <1>2 DEF leaseVars, leaseSide, workerSide
<1>17. CASE CameraLeaseNext
    BY <1>17, <1>5, <1>6, <1>7, <1>8, <1>9, <1>11, <1>12, <1>13, <1>14, <1>15 DEF CameraLeaseNext, Closer
<1>18. QED
    BY <1>16, <1>17

\* The camera runtime keeps its promise to its clients: a RIG has one holder at a time, also while a close
\* is under way, and its camera does not change under the lease (camera_worker_runtime.py).
THEOREM LeasesAreExclusive == Spec => LeasePromise
<1>1. Init => Promise!LeaseInit
    <2>1. SUFFICES ASSUME Init PROVE Promise!LeaseInit
        OBVIOUS
    <2>2. /\ \A s \in Sessions : lease[s].state = "none" /\ s \notin Held
          /\ \A r \in Rigs : worker[r].entry = 0
          /\ ending = "no"
        BY <2>1 DEF Init, CameraLeaseInit, NoWorker, Held
    <2>3. QED
        BY <2>2 DEF Promise!LeaseInit
<1>2. LeaseIInv /\ [LeasePart \/ SessionPart]_<<part, leaseVars, sessionVars>> =>
          [Promise!LeaseNext]_<<HeldRigs, BoundTo, ending # "no">>
    BY LeaseStep, CameraApart
<1>3. QED
    BY <1>1, <1>2, LeaseAlways, PTL DEF Spec, LeasePromise, Promise!LeaseSpec, HeldRigs, BoundTo

-----------------------------------------------------------------------------
(* The sessions of one RIG and its camera process *)

\* The handlers that have a capture in hand, and those that hold a reservation.
Owns(h) == request[h].at \in {"prepared", "orphan", "consumed"}
InFlight == {h \in Handlers : request[h].at \in {"reserved", "prepared", "orphan"}}

\* A request knows the lease that admitted it.
RequestsLeased == \A h \in Handlers : request[h].at # "idle" => request[h].lease # 0
\* Every reservation that a handler will give back is counted, and few are.
ReservationsCounted ==
    /\ IsFiniteSet(tokens) /\ IsFiniteSet(InFlight)
    /\ Cardinality(InFlight) <= reserved
\* Every prepared capture is in one hand.
OneHand ==
    /\ \A g, h \in Handlers : Owns(g) /\ Owns(h) /\ request[g].id = request[h].id => g = h
    /\ \A h \in Handlers, t \in tokens : Owns(h) => t.id # request[h].id
    /\ \A h \in Handlers, t \in abandoned.tokens : Owns(h) => t.id # request[h].id
    /\ \A s \in tokens, t \in abandoned.tokens : s.id # t.id
    /\ \A s, t \in abandoned.tokens : s.id = t.id => s = t
\* Whoever has a capture in hand got it from a preparation, and the process of that generation knows
\* it as long as it lives.
KnownHand(id, g) ==
    id \in issued /\ g <= camera.generation /\ (SameGeneration(g) => id \in camera.known)
HandsKnown ==
    /\ \A h \in Handlers : Owns(h) => KnownHand(request[h].id, request[h].generation)
    /\ \A t \in tokens : KnownHand(t.id, t.generation)
    /\ \A t \in abandoned.tokens : KnownHand(t.id, t.generation)

\* The inductive invariant of the session.
SessionIInv ==
    /\ SessionTypeInv /\ TokenOfLease /\ NoStrangers /\ CapRespected /\ RespawnKeepsSettings
    /\ RequestsLeased /\ ReservationsCounted /\ OneHand /\ HandsKnown

Requests ==
    [op : {"none", "init", "settings", "prepare", "trigger", "discard", "direct"},
     at : {"idle", "admitted", "reserved", "prepared", "orphan", "consumed", "applied"},
     lease : 0 .. MaxLeases, id : Captures \cup {0}, generation : 0 .. MaxGenerations]
Cameras ==
    [started : BOOLEAN, alive : BOOLEAN, generation : 0 .. MaxGenerations,
     known : SUBSET Captures, settings : Settings \cup {Unset, Unknown}]

\* The type invariant in three parts: the server, its handlers, the process.
ServerTyped ==
    /\ session \in 0 .. MaxLeases /\ leases \in 0 .. MaxLeases
    /\ tokens \subseteq Token
    /\ \A s, t \in tokens : s.id = t.id => s = t
    /\ reserved \in 0 .. MaxPrepared /\ iso \in BOOLEAN
    /\ abandoned \in [at : {"idle", "clear", "discard"}, tokens : SUBSET Token]
ProcessTyped ==
    /\ camera \in Cameras
    /\ camera.alive => camera.started /\ camera.generation # 0
    /\ snapshot \in Settings \cup {Unset}
    /\ issued \subseteq Captures /\ strangers \in BOOLEAN /\ failures \in 0 .. MaxFailures

LEMMA SessionTyped == SessionTypeInv <=> ServerTyped /\ request \in [Handlers -> Requests] /\ ProcessTyped
BY DEF SessionTypeInv, ServerTyped, ProcessTyped, Requests, Cameras

\* What concerns the process alone.
ProcessOk == ProcessTyped /\ NoStrangers /\ RespawnKeepsSettings
\* What the process knew it still knows, unless it was handed that.
HandsStay(gone) ==
    \A id \in Captures \ gone, g \in 0 .. MaxGenerations : KnownHand(id, g) => KnownHand(id, g)'

\* The parts of the invariant make it up after a step.
LEMMA SessionPutTogether ==
    ASSUME ServerTyped', request' \in [Handlers -> Requests], ProcessOk', TokenOfLease', CapRespected',
           RequestsLeased', ReservationsCounted', OneHand', HandsKnown'
    PROVE  SessionIInv'
<1>1. SessionTypeInv'
    BY DEF SessionTypeInv, ServerTyped, ProcessOk, ProcessTyped, Requests, Cameras
<1>2. QED
    BY <1>1 DEF SessionIInv, ProcessOk

\* The bounds are numbers.
LEMMA SessionBounds ==
    MaxPrepared \in Nat /\ MaxLeases \in Nat /\ MaxGenerations \in Nat /\ MaxFailures \in Nat
BY SessionAssumption

\* A process that is ensured is alive, has the settings of the run, and is either the same or a new
\* generation.
LEMMA EnsuredIs ==
    ASSUME ProcessOk, Usable
    PROVE  /\ Ensured \in Cameras
           /\ Ensured.alive /\ Ensured.started /\ Ensured.generation # 0
           /\ camera.alive => Ensured = camera
           /\ ~camera.alive => camera.generation < Ensured.generation
           /\ snapshot # Unset => Ensured.settings \in {snapshot, Unknown}
<1>1. /\ MaxGenerations \in Nat /\ MaxLeases \in Nat
      /\ camera \in Cameras /\ camera.generation \in 0 .. MaxGenerations /\ snapshot \in Settings \cup {Unset}
    BY SessionAssumption DEF ProcessOk, ProcessTyped, Cameras
<1>2. CASE camera.alive
    BY <1>1, <1>2 DEF Ensured, ProcessOk, ProcessTyped, RespawnKeepsSettings
<1>3. CASE ~camera.alive
    <2>1. camera.started /\ camera.generation + 1 \in 1 .. MaxGenerations
        BY <1>1, <1>3 DEF Usable
    <2>2. Ensured = [camera EXCEPT !.alive = TRUE, !.generation = camera.generation + 1, !.known = {}, !.settings = snapshot]
        BY <1>1, <1>3 DEF Ensured, Cameras
    <2>3. /\ Ensured.alive /\ Ensured.started = camera.started /\ Ensured.generation = camera.generation + 1
          /\ Ensured.settings = snapshot /\ Ensured.known = {}
        BY <1>1, <2>2 DEF Cameras
    <2>4. Ensured \in Cameras
        <3>1. snapshot \in Settings \cup {Unset, Unknown} /\ camera.generation + 1 \in 0 .. MaxGenerations
            BY <1>1, <2>1
        <3>2. QED
            BY <1>1, <2>2, <3>1 DEF Cameras
    <2>5. QED
        BY <1>1, <1>3, <2>1, <2>3, <2>4
<1>4. QED
    BY <1>2, <1>3

\* A process that is killed, whether or not it goes, is not used again.
LEMMA KilledIs ==
    ASSUME NEW c \in Cameras, NEW d \in KillOf(c)
    PROVE  d \in Cameras /\ ~d.alive /\ d.generation = c.generation
BY DEF KillOf, Lost, Cameras

\* When the process is the same or new or dead, what it knew stays known.
LEMMA StaysKnown ==
    ASSUME ProcessOk, camera' \in Cameras, camera.generation <= camera'.generation, issued \subseteq issued',
           NEW gone,
           camera'.alive /\ camera'.generation = camera.generation =>
               camera.alive /\ camera.known \ gone \subseteq camera'.known
    PROVE  HandsStay(gone)
<1>1. camera.generation \in Nat /\ camera'.generation \in Nat
    BY SessionAssumption DEF ProcessOk, ProcessTyped, Cameras
<1>2. SUFFICES ASSUME NEW id \in Captures \ gone, NEW g \in 0 .. MaxGenerations, KnownHand(id, g)
               PROVE  KnownHand(id, g)'
    BY DEF HandsStay
<1>3. id \in issued' /\ g <= camera'.generation
    BY <1>1, <1>2, SessionAssumption DEF KnownHand
<1>4. ASSUME camera'.alive, camera'.generation = g PROVE id \in camera'.known
    <2>1. camera'.generation = camera.generation
        BY <1>1, <1>2, <1>4 DEF KnownHand
    <2>2. id \in camera.known
        BY <1>2, <1>4, <2>1 DEF KnownHand, SameGeneration
    <2>3. QED
        BY <1>2, <1>4, <2>1, <2>2
<1>5. QED
    BY <1>3, <1>4 DEF KnownHand, SameGeneration

\* Failures are few.
LEMMA FailuresBounded == ASSUME ProcessTyped, Failure \/ UNCHANGED failures PROVE failures' \in 0 .. MaxFailures
<1>1. MaxFailures \in Nat /\ failures \in 0 .. MaxFailures
    BY SessionAssumption DEF ProcessTyped
<1>2. QED
    BY <1>1 DEF Failure

\* Every call that hands the process no capture keeps what concerns the process, and what it knows.
LEMMA CallsGoOn ==
    ASSUME ProcessOk,
           \/ UNCHANGED processVars
           \/ Usable /\ CallFails /\ UNCHANGED issued
           \/ Usable /\ camera' = Ensured /\ UNCHANGED <<snapshot, issued, strangers, failures>>
           \/ /\ Usable /\ UNCHANGED <<issued, strangers, failures>>
              /\ \E run \in Settings : camera' = [Ensured EXCEPT !.settings = run] /\ snapshot' \in {Unset, run}
           \/ /\ Usable /\ Failure /\ camera' = [Ensured EXCEPT !.settings = Unknown]
              /\ UNCHANGED <<snapshot, issued, strangers>>
           \/ /\ snapshot' = Unset /\ UNCHANGED <<issued, strangers>>
              /\ UNCHANGED <<camera, failures>> \/ (Failure /\ camera' \in KillOf(camera))
           \/ camera.alive /\ Failure /\ camera' = Lost(camera) /\ UNCHANGED <<snapshot, issued, strangers>>
    PROVE  ProcessOk' /\ HandsStay({})
<1>1. /\ camera \in Cameras /\ camera.generation \in Nat /\ issued' = issued /\ strangers' = strangers
      /\ snapshot \in Settings \cup {Unset} /\ issued \subseteq Captures /\ strangers = FALSE
    BY SessionAssumption DEF ProcessOk, ProcessTyped, Cameras, NoStrangers, processVars, CallFails
<1>2. failures' \in 0 .. MaxFailures
    BY FailuresBounded DEF ProcessOk, processVars, CallFails
<1>3. ASSUME camera' \in Cameras, camera'.alive => camera'.started /\ camera'.generation # 0,
             snapshot' \in Settings \cup {Unset}, camera'.alive /\ snapshot' # Unset => camera'.settings \in {snapshot', Unknown},
             camera.generation <= camera'.generation,
             camera'.alive /\ camera'.generation = camera.generation => camera.alive /\ camera.known \subseteq camera'.known
      PROVE  ProcessOk' /\ HandsStay({})
    <2>1. ProcessOk'
        BY <1>1, <1>2, <1>3 DEF ProcessOk, ProcessTyped, NoStrangers, RespawnKeepsSettings
    <2>2. HandsStay({})
        BY <1>1, <1>3, StaysKnown
    <2>3. QED
        BY <2>1, <2>2
<1>4. CASE UNCHANGED <<camera, snapshot>>
    BY <1>1, <1>3, <1>4 DEF ProcessOk, ProcessTyped, RespawnKeepsSettings
<1>5. ASSUME NEW c \in Cameras, camera' \in KillOf(c), c.generation \in Nat, camera.generation <= c.generation,
             snapshot' \in {snapshot, Unset}
      PROVE  ProcessOk' /\ HandsStay({})
    <2>1. camera' \in Cameras /\ ~camera'.alive /\ camera'.generation = c.generation
        BY <1>5, KilledIs
    <2>2. QED
        BY <1>1, <1>3, <1>5, <2>1
<1>6. ASSUME Usable
      PROVE  /\ Ensured \in Cameras /\ Ensured.generation \in Nat /\ camera.generation <= Ensured.generation
             /\ Ensured.alive /\ Ensured.started /\ Ensured.generation # 0
             /\ Ensured.generation = camera.generation => camera.alive /\ Ensured = camera
             /\ snapshot # Unset => Ensured.settings \in {snapshot, Unknown}
    <2>1. Ensured.generation \in Nat
        BY <1>6, EnsuredIs, SessionAssumption DEF Cameras
    <2>2. QED
        BY <1>1, <1>6, <2>1, EnsuredIs
<1>7. ASSUME Usable, NEW run \in Settings \cup {Unknown}, camera' = [Ensured EXCEPT !.settings = run],
             snapshot' \in {Unset, run, snapshot} /\ snapshot' \in Settings \cup {Unset},
             snapshot' # Unset => run \in {snapshot', Unknown}
      PROVE  ProcessOk' /\ HandsStay({})
    <2>1. /\ camera' \in Cameras /\ camera'.alive = Ensured.alive /\ camera'.started = Ensured.started
          /\ camera'.generation = Ensured.generation /\ camera'.known = Ensured.known /\ camera'.settings = run
        BY <1>6, <1>7 DEF Cameras
    <2>2. QED
        BY <1>3, <1>6, <1>7, <2>1
<1>8. ASSUME Usable, camera' = Ensured, UNCHANGED snapshot PROVE ProcessOk' /\ HandsStay({})
    BY <1>1, <1>3, <1>6, <1>8
<1>9. CASE Usable /\ CallFails
    BY <1>5, <1>6, <1>8, <1>9 DEF CallFails
<1>10. CASE Usable /\ \E run \in Settings : camera' = [Ensured EXCEPT !.settings = run] /\ snapshot' \in {Unset, run}
    BY <1>7, <1>10
<1>11. CASE Usable /\ camera' = [Ensured EXCEPT !.settings = Unknown] /\ UNCHANGED snapshot
    BY <1>1, <1>7, <1>11
<1>12. CASE snapshot' = Unset /\ UNCHANGED camera
    BY <1>1, <1>3, <1>12 DEF ProcessOk, ProcessTyped
<1>13. CASE camera' \in KillOf(camera) /\ snapshot' \in {snapshot, Unset}
    BY <1>1, <1>5, <1>13
<1>14. CASE camera' = Lost(camera) /\ UNCHANGED snapshot
    BY <1>13, <1>14 DEF KillOf
<1>15. QED
    BY <1>4, <1>8, <1>9, <1>10, <1>11, <1>12, <1>13, <1>14 DEF processVars

\* A preparation gives the process a capture, which it then knows.
LEMMA PrepareGoesOn ==
    ASSUME ProcessOk, Usable, NEW id \in Captures, NEW g, g = Ensured.generation, camera' = [Ensured EXCEPT !.known = @ \cup {id}],
           issued' = issued \cup {id}, UNCHANGED <<snapshot, strangers, failures>>
    PROVE  /\ ProcessOk' /\ HandsStay({}) /\ KnownHand(id, g)'
           /\ g \in 0 .. MaxGenerations
<1>1. /\ Ensured \in Cameras /\ Ensured.generation \in 0 .. MaxGenerations
      /\ Ensured.alive /\ Ensured.started /\ Ensured.generation # 0 /\ Ensured.known \subseteq Captures
    BY EnsuredIs DEF Cameras
<1>2. /\ camera' \in Cameras /\ camera'.alive = Ensured.alive /\ camera'.started = Ensured.started
      /\ camera'.generation = Ensured.generation /\ camera'.known = Ensured.known \cup {id}
      /\ camera'.settings = Ensured.settings
    BY <1>1 DEF Cameras
<1>3. camera.generation \in 0 .. MaxGenerations /\ MaxGenerations \in Nat
    BY SessionAssumption DEF ProcessOk, ProcessTyped, Cameras
<1>4. ProcessOk'
    BY <1>1, <1>2, EnsuredIs DEF ProcessOk, ProcessTyped, NoStrangers, RespawnKeepsSettings
<1>5. HandsStay({})
    BY <1>1, <1>2, <1>3, EnsuredIs, StaysKnown
<1>6. KnownHand(id, g)'
    BY <1>1, <1>2, <1>3 DEF KnownHand, SameGeneration
<1>7. QED
    BY <1>1, <1>4, <1>5, <1>6

\* A process that is handed a capture it knows, to release or to drop, keeps all the others.
LEMMA DiscardingGoesOn ==
    ASSUME ProcessOk, NEW t, t.id \in Captures, KnownHand(t.id, t.generation), Discarding(t),
           UNCHANGED <<snapshot, issued>>
    PROVE  ProcessOk' /\ HandsStay({t.id})
<1>1. /\ camera \in Cameras /\ camera.generation \in 0 .. MaxGenerations /\ MaxGenerations \in Nat /\ strangers = FALSE
    BY SessionAssumption DEF ProcessOk, ProcessTyped, Cameras, NoStrangers
<1>2. failures' \in 0 .. MaxFailures
    BY FailuresBounded DEF ProcessOk, Discarding
<1>3. CASE UNCHANGED <<camera, strangers>>
    <2>1. ProcessOk'
        BY <1>2, <1>3 DEF ProcessOk, ProcessTyped, NoStrangers, RespawnKeepsSettings
    <2>2. HandsStay({t.id})
        BY <1>1, <1>3, StaysKnown
    <2>3. QED
        BY <2>1, <2>2
<1>4. CASE camera' \in KillOf(camera) /\ UNCHANGED strangers
    <2>1. camera' \in Cameras /\ ~camera'.alive /\ camera'.generation = camera.generation
        BY <1>1, <1>4, KilledIs
    <2>2. ProcessOk'
        BY <1>2, <1>4, <2>1 DEF ProcessOk, ProcessTyped, NoStrangers, RespawnKeepsSettings
    <2>3. HandsStay({t.id})
        BY <1>1, <2>1, StaysKnown
    <2>4. QED
        BY <2>2, <2>3
<1>5. CASE SameGeneration(t.generation) /\ camera' \in Handed(t.id) /\ HandedStranger(t.id)
    <2>1. t.id \in camera.known
        BY <1>5 DEF KnownHand
    <2>2. strangers' = FALSE /\ camera' = [camera EXCEPT !.known = @ \ {t.id}]
        BY <1>1, <1>5, <2>1 DEF HandedStranger, Handed
    <2>3. /\ camera' \in Cameras /\ camera'.alive = camera.alive /\ camera'.started = camera.started
          /\ camera'.generation = camera.generation /\ camera'.known = camera.known \ {t.id}
          /\ camera'.settings = camera.settings
        BY <1>1, <2>2 DEF Cameras
    <2>4. ProcessOk'
        BY <1>2, <2>2, <2>3 DEF ProcessOk, ProcessTyped, NoStrangers, RespawnKeepsSettings
    <2>5. HandsStay({t.id})
        <3>1. SameGeneration(t.generation)
            BY <1>5
        <3>2. QED
            BY <1>1, <2>3, <3>1, StaysKnown DEF SameGeneration
    <2>6. QED
        BY <2>4, <2>5
<1>6. QED
    BY <1>3, <1>4, <1>5 DEF Discarding

\* A conjunct stays true where its variables stay the same.
LEMMA SessionFrames ==
    /\ UNCHANGED serverVars /\ ServerTyped => ServerTyped'
    /\ UNCHANGED <<session, tokens>> /\ TokenOfLease => TokenOfLease'
    /\ UNCHANGED <<tokens, reserved>> /\ CapRespected => CapRespected'
    /\ UNCHANGED request /\ RequestsLeased => RequestsLeased'
    /\ UNCHANGED <<request, tokens, reserved>> /\ ReservationsCounted => ReservationsCounted'
    /\ UNCHANGED <<request, tokens, abandoned>> /\ OneHand => OneHand'
<1>1. UNCHANGED serverVars /\ ServerTyped => ServerTyped'
    BY DEF serverVars, ServerTyped
<1>2. UNCHANGED <<session, tokens>> /\ TokenOfLease => TokenOfLease'
    BY DEF TokenOfLease
<1>3. UNCHANGED <<tokens, reserved>> /\ CapRespected => CapRespected'
    BY DEF CapRespected
<1>4. UNCHANGED request /\ RequestsLeased => RequestsLeased'
    BY DEF RequestsLeased
<1>5. UNCHANGED <<request, tokens, reserved>> /\ ReservationsCounted => ReservationsCounted'
    BY DEF ReservationsCounted, InFlight
<1>6. UNCHANGED <<request, tokens, abandoned>> /\ OneHand => OneHand'
    BY DEF OneHand, Owns
<1>7. QED
    BY <1>1, <1>2, <1>3, <1>4, <1>5, <1>6

\* The captures that are still in hand are known, whatever the process was handed apart from them.
LEMMA HandsGoOn ==
    ASSUME SessionIInv, NEW gone, HandsStay(gone),
           \A h \in Handlers :
               Owns(h)' => \/ /\ Owns(h) /\ request'[h].id = request[h].id
                              /\ request'[h].generation = request[h].generation /\ request[h].id \notin gone
                           \/ KnownHand(request[h].id, request[h].generation)',
           tokens' \subseteq tokens, abandoned'.tokens \subseteq abandoned.tokens \cup tokens,
           \A t \in tokens' \cup abandoned'.tokens : t.id \notin gone
    PROVE  HandsKnown'
<1>1. /\ ServerTyped /\ request \in [Handlers -> Requests] /\ HandsKnown /\ issued \subseteq Captures
    BY SessionTyped DEF SessionIInv, ProcessTyped
<1>2. ASSUME NEW h \in Handlers, Owns(h)' PROVE KnownHand(request[h].id, request[h].generation)'
    <2>1. CASE /\ Owns(h) /\ request'[h].id = request[h].id
               /\ request'[h].generation = request[h].generation /\ request[h].id \notin gone
        <3>1. KnownHand(request[h].id, request[h].generation) /\ request[h].generation \in 0 .. MaxGenerations
            BY <1>1, <2>1 DEF HandsKnown, Requests
        <3>2. request[h].id \in Captures \ gone
            BY <1>1, <2>1, <3>1 DEF KnownHand
        <3>3. PICK id \in Captures \ gone, g \in 0 .. MaxGenerations : id = request[h].id /\ g = request[h].generation
            BY <3>1, <3>2
        <3>4. KnownHand(id, g)'
            BY <3>1, <3>3 DEF HandsStay
        <3>5. QED
            BY <2>1, <3>3, <3>4 DEF KnownHand, SameGeneration
    <2>2. QED
        BY <1>2, <2>1
<1>3. ASSUME NEW t \in tokens' \cup abandoned'.tokens PROVE KnownHand(t.id, t.generation)'
    <2>1. t \in tokens \cup abandoned.tokens /\ t.id \notin gone
        BY <1>3
    <2>2. t \in Token
        BY <1>1, <2>1 DEF ServerTyped
    <2>3. t.id \in Captures \ gone /\ t.generation \in 0 .. MaxGenerations
        BY <2>1, <2>2 DEF Token
    <2>4. KnownHand(t.id, t.generation)
        BY <1>1, <2>1 DEF HandsKnown
    <2>5. QED
        BY <2>3, <2>4 DEF HandsStay
<1>4. QED
    BY <1>2, <1>3 DEF HandsKnown

\* A handler that takes nothing in hand, whether or not it lets go of something.
LEMMA HandlerLetsGo ==
    ASSUME SessionIInv, NEW h \in Handlers, NEW r \in Requests, r.at \notin {"prepared", "orphan", "consumed"},
           r.at # "idle" => r.lease # 0, request' = [request EXCEPT ![h] = r], UNCHANGED <<tokens, abandoned>>
    PROVE  /\ request' \in [Handlers -> Requests] /\ RequestsLeased' /\ OneHand'
           /\ \A g \in Handlers : Owns(g)' => g # h /\ Owns(g) /\ request'[g] = request[g]
           /\ InFlight' = IF r.at = "reserved" THEN InFlight \cup {h} ELSE InFlight \ {h}
<1>1. request \in [Handlers -> Requests]
    BY SessionTyped DEF SessionIInv
<1>2. request'[h] = r /\ \A g \in Handlers : g # h => request'[g] = request[g]
    BY <1>1
<1>3. request' \in [Handlers -> Requests]
    BY <1>1
<1>4. RequestsLeased'
    BY <1>2 DEF RequestsLeased, SessionIInv
<1>5. \A g \in Handlers : Owns(g)' => g # h /\ Owns(g) /\ request'[g] = request[g]
    BY <1>2 DEF Owns
<1>6. OneHand'
    BY <1>5 DEF OneHand, SessionIInv
<1>7. InFlight' = IF r.at = "reserved" THEN InFlight \cup {h} ELSE InFlight \ {h}
    BY <1>2 DEF InFlight
<1>8. QED
    BY <1>3, <1>4, <1>5, <1>6, <1>7

\* The counted reservations when a handler gives its reservation up, or leaks it, or had none.
LEMMA OneLessInFlight ==
    ASSUME SessionIInv, NEW h \in Handlers, InFlight' = InFlight \ {h},
           reserved' = reserved \/ (h \in InFlight /\ reserved' = reserved - 1), UNCHANGED tokens
    PROVE  ReservationsCounted' /\ reserved' \in 0 .. MaxPrepared /\ CapRespected'
<1>1. /\ IsFiniteSet(tokens) /\ IsFiniteSet(InFlight) /\ Cardinality(InFlight) <= reserved
      /\ reserved \in 0 .. MaxPrepared /\ MaxPrepared \in Nat
    BY SessionTyped, SessionAssumption DEF SessionIInv, ReservationsCounted, ServerTyped
<1>2. Cardinality(InFlight) \in Nat /\ Cardinality(tokens) \in Nat
    BY <1>1, FS_CardinalityType
<1>3. /\ IsFiniteSet(InFlight \ {h})
      /\ Cardinality(InFlight \ {h}) = IF h \in InFlight THEN Cardinality(InFlight) - 1 ELSE Cardinality(InFlight)
    BY <1>1, FS_RemoveElement
<1>4. Cardinality(InFlight \ {h}) \in Nat
    BY <1>3, FS_CardinalityType
<1>5. reserved' \in 0 .. MaxPrepared /\ Cardinality(InFlight \ {h}) <= reserved'
    BY <1>1, <1>2, <1>3, <1>4
<1>6. ReservationsCounted'
    BY <1>1, <1>3, <1>5 DEF ReservationsCounted
<1>7. CapRespected'
    BY <1>1, <1>2, <1>5 DEF CapRespected, SessionIInv
<1>8. QED
    BY <1>5, <1>6, <1>7

\* The calls of the process, and the rest that happens beside the handlers, keep the invariant.
LEMMA SessionsKeep == ASSUME SessionIInv, Activate \/ Revoke \/ RevokeClear \/ ServerStops \/ ProcessDies PROVE SessionIInv'
<1> /\ ServerTyped /\ request \in [Handlers -> Requests] /\ ProcessOk /\ HandsKnown /\ OneHand /\ TokenOfLease
    /\ RequestsLeased /\ ReservationsCounted /\ CapRespected
    BY SessionTyped DEF SessionIInv, ProcessOk
<1>1. CASE Activate
    <2>1. /\ session = 0 /\ leases < MaxLeases /\ leases' = leases + 1 /\ session' = leases + 1
          /\ UNCHANGED <<request, tokens, reserved, iso, abandoned, processVars>>
        BY <1>1 DEF Activate
    <2>2. ServerTyped'
        BY <2>1, SessionBounds DEF ServerTyped
    <2>3. tokens = {}
        BY <2>1 DEF TokenOfLease, ServerTyped, Token
    <2>4. TokenOfLease'
        BY <2>1, <2>3 DEF TokenOfLease
    <2>5. ProcessOk' /\ HandsStay({})
        BY <2>1, CallsGoOn
    <2>6. HandsKnown'
        BY <2>1, <2>5, HandsGoOn DEF Owns
    <2>7. CapRespected' /\ RequestsLeased' /\ ReservationsCounted' /\ OneHand'
        BY <2>1, SessionFrames
    <2>8. QED
        BY <2>1, <2>2, <2>4, <2>5, <2>6, <2>7, SessionPutTogether
<1>2. CASE Revoke
    <2>1. /\ session' = 0 /\ iso' = FALSE /\ tokens' = {} /\ abandoned' = [at |-> "clear", tokens |-> tokens]
          /\ UNCHANGED <<leases, request, reserved, processVars>>
        BY <1>2 DEF Revoke
    <2>2. ServerTyped'
        <3>1. /\ session' \in 0 .. MaxLeases /\ reserved' \in 0 .. MaxPrepared
              /\ tokens' \subseteq Token /\ \A s, t \in tokens' : s.id = t.id => s = t
            BY <2>1, SessionBounds DEF ServerTyped
        <3>2. abandoned' \in [at : {"idle", "clear", "discard"}, tokens : SUBSET Token]
            BY <2>1 DEF ServerTyped
        <3>3. QED
            BY <2>1, <3>1, <3>2 DEF ServerTyped
    <2>3. TokenOfLease'
        BY <2>1 DEF TokenOfLease
    <2>4. ProcessOk' /\ HandsStay({})
        BY <2>1, CallsGoOn
    <2>5. HandsKnown'
        BY <2>1, <2>4, HandsGoOn DEF Owns
    <2>6. OneHand'
        BY <2>1 DEF OneHand, Owns, ServerTyped
    <2>7. IsFiniteSet(tokens') /\ Cardinality(tokens') = 0
        BY <2>1, FS_EmptySet
    <2>8. CapRespected' /\ ReservationsCounted'
        BY <2>1, <2>7, SessionBounds DEF CapRespected, ReservationsCounted, InFlight, ServerTyped
    <2>9. RequestsLeased'
        BY <2>1, SessionFrames
    <2>10. QED
        BY <2>1, <2>2, <2>3, <2>4, <2>5, <2>6, <2>8, <2>9, SessionPutTogether
<1>3. CASE RevokeClear
    <2>1. /\ abandoned' = NoCleanup \/ abandoned' = [abandoned EXCEPT !.at = "discard"]
          /\ snapshot' = Unset /\ UNCHANGED <<issued, strangers>>
          /\ UNCHANGED <<camera, failures>> \/ (Failure /\ camera' \in KillOf(camera))
          /\ UNCHANGED <<session, leases, tokens, reserved, iso, request>>
        BY <1>3 DEF RevokeClear
    <2>2. /\ abandoned' \in [at : {"idle", "clear", "discard"}, tokens : SUBSET Token]
          /\ abandoned'.tokens \subseteq abandoned.tokens
        BY <2>1 DEF NoCleanup, ServerTyped
    <2>3. ServerTyped'
        BY <2>1, <2>2 DEF ServerTyped
    <2>4. ProcessOk' /\ HandsStay({})
        BY <2>1, CallsGoOn
    <2>5. HandsKnown'
        BY <2>1, <2>2, <2>4, HandsGoOn DEF Owns
    <2>6. OneHand'
        BY <2>1, <2>2 DEF OneHand, Owns
    <2>7. CapRespected' /\ RequestsLeased' /\ ReservationsCounted' /\ TokenOfLease'
        BY <2>1, SessionFrames
    <2>8. QED
        BY <2>1, <2>3, <2>4, <2>5, <2>6, <2>7, SessionPutTogether
<1>4. CASE ServerStops
    <2>1. /\ session' = 0 /\ tokens' = {} /\ reserved' = 0 /\ iso' = FALSE
          /\ UNCHANGED <<leases, request, abandoned, processVars>>
          /\ \A h \in Handlers : request[h] = Idle
        BY <1>4 DEF ServerStops
    <2>2. ServerTyped'
        <3>1. /\ session' \in 0 .. MaxLeases /\ reserved' \in 0 .. MaxPrepared
              /\ tokens' \subseteq Token /\ \A s, t \in tokens' : s.id = t.id => s = t
            BY <2>1, SessionBounds DEF ServerTyped
        <3>2. abandoned' \in [at : {"idle", "clear", "discard"}, tokens : SUBSET Token]
            BY <2>1 DEF ServerTyped
        <3>3. QED
            BY <2>1, <3>1, <3>2 DEF ServerTyped
    <2>3. TokenOfLease'
        BY <2>1 DEF TokenOfLease
    <2>4. ProcessOk' /\ HandsStay({})
        BY <2>1, CallsGoOn
    <2>5. HandsKnown'
        BY <2>1, <2>4, HandsGoOn DEF Owns
    <2>6. OneHand'
        BY <2>1 DEF OneHand, Owns
    <2>7. IsFiniteSet(tokens') /\ Cardinality(tokens') = 0 /\ IsFiniteSet(InFlight') /\ Cardinality(InFlight') = 0
        <3>1. InFlight' = {}
            BY <2>1 DEF InFlight, Idle
        <3>2. QED
            BY <2>1, <3>1, FS_EmptySet
    <2>8. CapRespected' /\ ReservationsCounted'
        BY <2>1, <2>7, SessionBounds DEF CapRespected, ReservationsCounted
    <2>9. RequestsLeased'
        BY <2>1, SessionFrames
    <2>10. QED
        BY <2>1, <2>2, <2>3, <2>4, <2>5, <2>6, <2>8, <2>9, SessionPutTogether
<1>5. CASE ProcessDies
    <2>1. /\ camera.alive /\ Failure /\ camera' = Lost(camera)
          /\ UNCHANGED <<serverVars, request, snapshot, issued, strangers>>
        BY <1>5 DEF ProcessDies
    <2>2. ProcessOk' /\ HandsStay({})
        BY <2>1, CallsGoOn
    <2>3. HandsKnown'
        BY <2>1, <2>2, HandsGoOn DEF Owns, serverVars
    <2>4. ServerTyped' /\ TokenOfLease' /\ CapRespected' /\ RequestsLeased' /\ ReservationsCounted' /\ OneHand'
        BY <2>1, SessionFrames DEF serverVars
    <2>5. QED
        BY <2>1, <2>2, <2>3, <2>4, SessionPutTogether
<1>6. QED
    BY <1>1, <1>2, <1>3, <1>4, <1>5

\* Dropping a capture that a revoked session left keeps the invariant.
LEMMA RevokeDiscardKeeps == ASSUME SessionIInv, NEW t \in abandoned.tokens, RevokeDiscard(t) PROVE SessionIInv'
<1> /\ ServerTyped /\ request \in [Handlers -> Requests] /\ ProcessOk /\ HandsKnown /\ OneHand /\ TokenOfLease
    /\ RequestsLeased /\ ReservationsCounted /\ CapRespected
    BY SessionTyped DEF SessionIInv, ProcessOk
<1>1. /\ abandoned' = IF abandoned.tokens = {t} THEN NoCleanup ELSE [abandoned EXCEPT !.tokens = @ \ {t}]
      /\ Discarding(t) /\ UNCHANGED <<session, leases, tokens, reserved, iso, request, snapshot, issued>>
    BY DEF RevokeDiscard
<1>2. /\ abandoned' \in [at : {"idle", "clear", "discard"}, tokens : SUBSET Token]
      /\ abandoned'.tokens \subseteq abandoned.tokens \ {t}
    BY <1>1 DEF NoCleanup, ServerTyped
<1>3. t.id \in Captures /\ KnownHand(t.id, t.generation)
    BY DEF HandsKnown, ServerTyped, Token
<1>4. ProcessOk' /\ HandsStay({t.id})
    BY <1>1, <1>3, DiscardingGoesOn
<1>5. /\ \A h \in Handlers : Owns(h) => request[h].id # t.id
      /\ \A u \in tokens \cup abandoned'.tokens : u.id # t.id
    BY <1>2 DEF OneHand
<1>6. HandsKnown'
    BY <1>1, <1>2, <1>4, <1>5, HandsGoOn DEF Owns
<1>7. ServerTyped'
    BY <1>1, <1>2 DEF ServerTyped
<1>8. OneHand'
    BY <1>1, <1>2 DEF OneHand, Owns
<1>9. TokenOfLease' /\ CapRespected' /\ RequestsLeased' /\ ReservationsCounted'
    BY <1>1, SessionFrames
<1>10. QED
    BY <1>1, <1>4, <1>6, <1>7, <1>8, <1>9, SessionPutTogether

\* What a handler does that takes nothing in hand and touches no reservation keeps the invariant, if its
\* call of the process does.
LEMMA HandlerKeeps ==
    ASSUME SessionIInv, NEW h \in Handlers, NEW r \in Requests, r.at \in {"idle", "admitted", "applied"},
           r.at # "idle" => r.lease # 0, request' = [request EXCEPT ![h] = r],
           NEW gone, ProcessOk', HandsStay(gone), gone = {} \/ (Owns(h) /\ gone = {request[h].id}),
           UNCHANGED <<session, leases, tokens, abandoned>>, iso' \in BOOLEAN,
           reserved' = reserved \/ (h \in InFlight /\ reserved' = reserved - 1)
    PROVE  SessionIInv'
<1> ServerTyped /\ HandsKnown /\ OneHand /\ TokenOfLease
    BY SessionTyped DEF SessionIInv
<1>1. /\ request' \in [Handlers -> Requests] /\ RequestsLeased' /\ OneHand'
      /\ \A g \in Handlers : Owns(g)' => g # h /\ Owns(g) /\ request'[g] = request[g]
      /\ InFlight' = InFlight \ {h}
    BY HandlerLetsGo
<1>2. ReservationsCounted' /\ reserved' \in 0 .. MaxPrepared /\ CapRespected'
    BY <1>1, OneLessInFlight
<1>3. ServerTyped'
    BY <1>2 DEF ServerTyped
<1>4. /\ \A g \in Handlers : Owns(g)' => request[g].id \notin gone
      /\ \A t \in tokens \cup abandoned.tokens : t.id \notin gone
    BY <1>1 DEF OneHand
<1>5. HandsKnown'
    BY <1>1, <1>4, HandsGoOn
<1>6. TokenOfLease'
    BY SessionFrames
<1>7. QED
    BY <1>1, <1>2, <1>3, <1>5, <1>6, SessionPutTogether

\* A request that begins keeps the invariant.
LEMMA AdmitKeeps ==
    ASSUME SessionIInv, NEW h \in Handlers, NEW op \in Operations, NEW id \in Captures \cup {0}, Admit(h, op, id)
    PROVE  SessionIInv'
<1> ServerTyped /\ ProcessOk /\ request \in [Handlers -> Requests]
    BY SessionTyped DEF SessionIInv, ProcessOk
<1> DEFINE r == [Idle EXCEPT !.op = op, !.at = "admitted", !.lease = session, !.id = id,
                              !.generation = IF op = "trigger" THEN camera.generation ELSE 0]
<1>1. /\ session # 0 /\ request[h] = Idle /\ request' = [request EXCEPT ![h] = r]
      /\ UNCHANGED <<session, leases, tokens, reserved, iso, abandoned, processVars>>
    BY DEF Admit, serverVars
<1>2. r \in Requests /\ r.at = "admitted" /\ r.lease = session
    <2>1. Idle \in Requests
        BY SessionBounds DEF Idle, Requests
    <2>2. /\ op \in {"init", "settings", "prepare", "trigger", "discard", "direct"} /\ session \in 0 .. MaxLeases
          /\ camera.generation \in 0 .. MaxGenerations /\ 0 \in 0 .. MaxGenerations
        BY SessionBounds DEF Operations, ServerTyped, ProcessOk, ProcessTyped, Cameras
    <2>3. QED
        BY <2>1, <2>2 DEF Requests
<1>3. ProcessOk' /\ HandsStay({})
    BY <1>1, CallsGoOn
<1> HIDE DEF r
<1>4. iso' \in BOOLEAN
    BY <1>1 DEF ServerTyped
<1>5. QED
    BY <1>1, <1>2, <1>3, <1>4, HandlerKeeps

\* The steps of a request keep the invariant.
LEMMA RequestsKeep == ASSUME SessionIInv, NEW h \in Handlers, Handler(h) PROVE SessionIInv'
<1> /\ ServerTyped /\ ProcessOk /\ HandsKnown /\ OneHand /\ TokenOfLease /\ RequestsLeased
    /\ ReservationsCounted /\ CapRespected /\ request \in [Handlers -> Requests]
    BY SessionTyped DEF SessionIInv, ProcessOk
<1>1. /\ Idle \in Requests /\ Idle.at = "idle" /\ iso \in BOOLEAN /\ request[h] \in Requests
      /\ UNCHANGED iso => iso' \in BOOLEAN
    BY SessionBounds DEF Idle, Requests, ServerTyped
<1>2. ASSUME Done(h), UNCHANGED <<session, leases, tokens, abandoned>>, iso' \in BOOLEAN, ProcessOk', HandsStay({}),
             reserved' = reserved \/ (h \in InFlight /\ reserved' = reserved - 1)
      PROVE  SessionIInv'
    BY <1>1, <1>2, HandlerKeeps DEF Done
<1>3. ASSUME Done(h), UNCHANGED <<session, leases, tokens, abandoned, iso>>, Owns(h), ProcessOk', HandsStay({request[h].id}),
             reserved' = reserved \/ (h \in InFlight /\ reserved' = reserved - 1)
      PROVE  SessionIInv'
    BY <1>1, <1>3, HandlerKeeps DEF Done
<1>4. CASE Initialize(h)
    <2>1. Done(h) /\ UNCHANGED serverVars
        BY <1>4 DEF Initialize
    <2>2. request[h].lease \in Settings
        BY <1>1, <1>4, SessionBounds DEF Initialize, Busy, RequestsLeased, Requests, Settings
    <2>3. ProcessOk' /\ HandsStay({})
        BY <1>4, <2>2, CallsGoOn DEF Initialize, Refused
    <2>4. QED
        BY <1>1, <1>2, <2>1, <2>3 DEF serverVars
<1>5. CASE ApplySettings(h)
    <2>1. /\ UNCHANGED serverVars /\ request[h].at = "admitted"
          /\ Done(h) \/ Goto(h, "applied")
        BY <1>5 DEF ApplySettings, Busy
    <2>2. request[h].lease \in Settings
        BY <1>1, <2>1, SessionBounds DEF RequestsLeased, Requests, Settings
    <2>3. ProcessOk' /\ HandsStay({})
        BY <1>5, <2>2, CallsGoOn DEF ApplySettings, Refused, Follows
    <2>4. CASE Done(h)
        BY <1>1, <1>2, <2>1, <2>3, <2>4 DEF serverVars
    <2>5. CASE Goto(h, "applied")
        <3> DEFINE r == [request[h] EXCEPT !.at = "applied"]
        <3>1. r \in Requests /\ r.at = "applied" /\ r.lease = request[h].lease
            BY <1>1 DEF Requests
        <3>2. request' = [request EXCEPT ![h] = r]
            BY <2>5 DEF Goto
        <3>3. r.lease # 0
            BY <2>1, <3>1 DEF RequestsLeased
        <3> HIDE DEF r
        <3>4. QED
            BY <1>1, <2>1, <2>3, <3>1, <3>2, <3>3, HandlerKeeps DEF serverVars
    <2>6. QED
        BY <2>1, <2>4, <2>5
<1>6. CASE PublishIso(h)
    <2>1. Done(h) /\ iso' = TRUE /\ UNCHANGED <<session, leases, tokens, reserved, abandoned, processVars>>
        BY <1>6 DEF PublishIso
    <2>2. ProcessOk' /\ HandsStay({})
        BY <2>1, CallsGoOn
    <2>3. QED
        BY <1>2, <2>1, <2>2
<1>7. CASE Direct(h)
    <2>1. Done(h) /\ UNCHANGED serverVars
        BY <1>7 DEF Direct
    <2>2. ProcessOk' /\ HandsStay({})
        BY <1>7, CallsGoOn DEF Direct, Refused
    <2>3. QED
        BY <1>1, <1>2, <2>1, <2>2 DEF serverVars
<1>8. CASE Reserve(h)
    <2>1. request[h].at = "admitted" /\ UNCHANGED <<session, leases, tokens, iso, abandoned, processVars>>
        BY <1>8 DEF Reserve, Busy
    <2>2. ProcessOk' /\ HandsStay({})
        BY <2>1, CallsGoOn
    <2>3. CASE UNCHANGED reserved /\ Done(h)
        BY <1>1, <1>2, <2>1, <2>2, <2>3
    <2>4. CASE session # 0 /\ ~Full /\ reserved' = reserved + 1
               /\ request' = [request EXCEPT ![h].at = "reserved", ![h].lease = session]
        <3> DEFINE r == [request[h] EXCEPT !.at = "reserved", !.lease = session]
        <3>1. r \in Requests /\ r.at = "reserved" /\ r.lease = session
            BY <1>1 DEF Requests, ServerTyped
        <3>2. request' = [request EXCEPT ![h] = r]
            BY <2>4
        <3> HIDE DEF r
        <3>3. /\ request' \in [Handlers -> Requests] /\ RequestsLeased' /\ OneHand'
              /\ \A g \in Handlers : Owns(g)' => g # h /\ Owns(g) /\ request'[g] = request[g]
              /\ InFlight' = InFlight \cup {h}
            BY <2>1, <2>4, <3>1, <3>2, HandlerLetsGo
        <3>4. HandsKnown'
            BY <2>1, <2>2, <3>3, HandsGoOn
        <3>5. h \notin InFlight
            BY <2>1 DEF InFlight
        <3>6. /\ IsFiniteSet(InFlight \cup {h}) /\ Cardinality(InFlight \cup {h}) = Cardinality(InFlight) + 1
              /\ Cardinality(InFlight) \in Nat /\ Cardinality(tokens) \in Nat
            BY <3>5, FS_AddElement, FS_CardinalityType DEF ReservationsCounted
        <3>7. reserved \in Nat /\ Cardinality(tokens) + reserved < MaxPrepared
            BY <2>4, <3>6, SessionBounds DEF Full, ServerTyped
        <3>8. ReservationsCounted' /\ CapRespected' /\ reserved' \in 0 .. MaxPrepared
            BY <2>1, <2>4, <3>3, <3>6, <3>7, SessionBounds DEF ReservationsCounted, CapRespected
        <3>9. ServerTyped' /\ TokenOfLease'
            BY <2>1, <3>8, SessionFrames DEF ServerTyped
        <3>10. QED
            BY <2>2, <3>3, <3>4, <3>8, <3>9, SessionPutTogether
    <2>5. QED
        BY <1>8, <2>3, <2>4 DEF Reserve
<1>9. CASE PlanRefused(h)
    <2>1. Done(h) /\ UNCHANGED <<serverVars, processVars>>
        BY <1>9 DEF PlanRefused
    <2>2. ProcessOk' /\ HandsStay({})
        BY <2>1, CallsGoOn
    <2>3. QED
        BY <1>1, <1>2, <2>1, <2>2 DEF serverVars
<1>10. ASSUME NEW id \in Captures, Prepare(h, id) PROVE SessionIInv'
    <2>1. /\ request[h].at = "reserved" /\ h \in InFlight /\ UNCHANGED <<session, leases, tokens, iso, abandoned>>
        BY <1>10 DEF Prepare, Busy, InFlight
    <2>2. CASE Usable /\ CallFails /\ UNCHANGED issued /\ reserved' = reserved - 1 /\ Done(h)
        BY <1>1, <1>2, <2>1, <2>2, CallsGoOn
    <2>3. CASE Refused /\ reserved' = reserved - 1 /\ Done(h)
        BY <1>1, <1>2, <2>1, <2>3, CallsGoOn DEF Refused
    <2>4. CASE /\ Usable /\ id \notin issued /\ camera' = [Ensured EXCEPT !.known = @ \cup {id}]
               /\ issued' = issued \cup {id}
               /\ request' = [request EXCEPT ![h].at = "prepared", ![h].id = id, ![h].generation = Ensured.generation]
               /\ UNCHANGED <<reserved, snapshot, strangers, failures>>
        <3> DEFINE r == [request[h] EXCEPT !.at = "prepared", !.id = id, !.generation = Ensured.generation]
        <3>0. PICK now : now = Ensured.generation
            OBVIOUS
        <3>1. ProcessOk' /\ HandsStay({}) /\ KnownHand(id, now)' /\ now \in 0 .. MaxGenerations
            BY <2>4, <3>0, PrepareGoesOn
        <3>2. /\ r \in Requests /\ r.at = "prepared" /\ r.id = id /\ r.generation = now
              /\ r.lease = request[h].lease
            BY <1>1, <3>0, <3>1 DEF Requests
        <3>3. request' = [request EXCEPT ![h] = r]
            BY <2>4
        <3> HIDE DEF r
        <3>4. request'[h] = r /\ \A g \in Handlers : g # h => request'[g] = request[g]
            BY <3>3
        <3>5. request' \in [Handlers -> Requests]
            BY <3>2, <3>3
        <3>6. RequestsLeased'
            BY <2>1, <3>2, <3>4 DEF RequestsLeased
        <3>7. InFlight' = InFlight
            BY <2>1, <3>2, <3>4 DEF InFlight
        <3>8. ReservationsCounted' /\ CapRespected' /\ TokenOfLease' /\ ServerTyped'
            BY <2>1, <2>4, <3>7, SessionFrames DEF ReservationsCounted, ServerTyped
        <3>9. \A g \in Handlers : Owns(g)' => g = h \/ (Owns(g) /\ request'[g] = request[g])
            BY <3>4 DEF Owns
        <3>10. /\ \A g \in Handlers : Owns(g) => request[g].id # id
               /\ \A t \in tokens \cup abandoned.tokens : t.id # id
            BY <2>4 DEF HandsKnown, KnownHand
        <3>11. OneHand'
            BY <2>1, <3>2, <3>4, <3>9, <3>10 DEF OneHand
        <3>12. HandsKnown'
            <4>1. KnownHand(request[h].id, request[h].generation)'
                BY <3>1, <3>2, <3>4 DEF KnownHand, SameGeneration
            <4>2. QED
                BY <2>1, <3>1, <3>9, <4>1, HandsGoOn
        <3>13. QED
            BY <3>1, <3>5, <3>6, <3>8, <3>11, <3>12, SessionPutTogether
    <2>5. QED
        BY <1>10, <2>2, <2>3, <2>4 DEF Prepare
<1>11. CASE Publish(h)
    <2>1. /\ request[h].at = "prepared" /\ h \in InFlight /\ Owns(h) /\ h \in Handlers
          /\ UNCHANGED <<session, leases, iso, abandoned, processVars>>
        BY <1>11 DEF Publish, Busy, InFlight, Owns
    <2>2. ProcessOk' /\ HandsStay({})
        BY <2>1, CallsGoOn
    <2>3. CASE UNCHANGED <<tokens, reserved>> /\ Goto(h, "orphan")
        <3> DEFINE r == [request[h] EXCEPT !.at = "orphan"]
        <3>1. r \in Requests /\ r.at = "orphan" /\ r.id = request[h].id /\ r.generation = request[h].generation /\ r.lease = request[h].lease
            BY <1>1 DEF Requests
        <3>2. request' = [request EXCEPT ![h] = r]
            BY <2>3 DEF Goto
        <3> HIDE DEF r
        <3>3. request'[h] = r /\ (\A g \in Handlers : g # h => request'[g] = request[g]) /\ request' \in [Handlers -> Requests]
            BY <3>1, <3>2
        <3>4. /\ \A g \in Handlers : Owns(g)' <=> Owns(g)
              /\ \A g \in Handlers : request'[g].id = request[g].id /\ request'[g].generation = request[g].generation
            BY <2>1, <3>1, <3>3 DEF Owns
        <3>5. RequestsLeased'
            BY <2>1, <3>1, <3>3 DEF RequestsLeased
        <3>6. InFlight' = InFlight
            BY <2>1, <3>1, <3>3 DEF InFlight
        <3>7. ReservationsCounted' /\ CapRespected' /\ TokenOfLease' /\ ServerTyped'
            BY <2>1, <2>3, <3>6, SessionFrames DEF ReservationsCounted, ServerTyped
        <3>8. OneHand'
            BY <2>1, <2>3, <3>4 DEF OneHand
        <3>9. HandsKnown'
            BY <2>1, <2>2, <2>3, <3>4, HandsGoOn
        <3>10. QED
            BY <2>2, <3>3, <3>5, <3>7, <3>8, <3>9, SessionPutTogether
    <2>4. CASE session = request[h].lease /\ reserved' = reserved - 1 /\ Done(h)
               /\ tokens' = tokens \cup {[id |-> request[h].id, lease |-> request[h].lease, generation |-> request[h].generation]}
        <3>1. KnownHand(request[h].id, request[h].generation)
            BY <2>1 DEF HandsKnown
        <3>2. /\ request[h].lease \in 1 .. MaxLeases /\ request[h].id \in Captures
              /\ request[h].generation \in 0 .. MaxGenerations
            BY <1>1, <2>1, <3>1, SessionBounds DEF RequestsLeased, Requests, KnownHand, ProcessOk, ProcessTyped
        <3>3. PICK t \in Token : /\ t.id = request[h].id /\ t.lease = session /\ t.generation = request[h].generation
                                /\ tokens' = tokens \cup {t}
            BY <2>4, <3>2 DEF Token
        <3>4. tokens' = tokens \cup {t} /\ t \in Token /\ t.lease = session
            BY <3>3
        <3>5. /\ \A g \in Handlers : g # h /\ Owns(g) => request[g].id # t.id
              /\ \A u \in tokens \cup abandoned.tokens : u.id # t.id
            BY <2>1, <3>3 DEF OneHand
        <3>6. request'[h] = Idle /\ (\A g \in Handlers : g # h => request'[g] = request[g]) /\ request' \in [Handlers -> Requests]
            BY <1>1, <2>4 DEF Done
        <3>7. \A g \in Handlers : Owns(g)' => g # h /\ Owns(g) /\ request'[g] = request[g]
            BY <1>1, <3>6 DEF Owns
        <3>8. RequestsLeased'
            BY <1>1, <3>6 DEF RequestsLeased
        <3>9. OneHand'
            BY <2>1, <3>4, <3>5, <3>7 DEF OneHand
        <3>10. HandsKnown'
            <4>1. \A id, g : KnownHand(id, g) => KnownHand(id, g)'
                BY <2>1 DEF KnownHand, SameGeneration, processVars
            <4>2. KnownHand(t.id, t.generation)'
                BY <3>1, <3>3, <4>1
            <4>3. \A u \in tokens : KnownHand(u.id, u.generation)'
                BY <4>1 DEF HandsKnown
            <4>4. \A u \in abandoned'.tokens : KnownHand(u.id, u.generation)'
                BY <2>1, <4>1 DEF HandsKnown
            <4>5. \A g \in Handlers : Owns(g)' => KnownHand(request[g].id, request[g].generation)'
                BY <2>1, <3>7 DEF HandsKnown, KnownHand, SameGeneration, processVars
            <4>6. \A u \in tokens' : KnownHand(u.id, u.generation)'
                BY <3>4, <4>2, <4>3
            <4>7. QED
                BY <4>4, <4>5, <4>6 DEF HandsKnown
        <3>11. InFlight' = InFlight \ {h}
            BY <1>1, <3>6 DEF InFlight
        <3>12. /\ IsFiniteSet(tokens') /\ Cardinality(tokens') = Cardinality(tokens) + 1
               /\ Cardinality(tokens) \in Nat /\ Cardinality(InFlight) \in Nat
            BY <3>4, <3>5, FS_AddElement, FS_CardinalityType DEF ReservationsCounted
        <3>13. /\ IsFiniteSet(InFlight') /\ Cardinality(InFlight') = Cardinality(InFlight) - 1
               /\ Cardinality(InFlight') \in Nat
            BY <2>1, <3>11, FS_RemoveElement, FS_CardinalityType DEF ReservationsCounted
        <3>14. reserved' \in 0 .. MaxPrepared /\ Cardinality(InFlight') <= reserved'
            BY <2>4, <3>12, <3>13, SessionBounds DEF ServerTyped, ReservationsCounted
        <3>15. ReservationsCounted' /\ CapRespected'
            BY <2>4, <3>12, <3>13, <3>14, SessionBounds DEF ReservationsCounted, CapRespected, ServerTyped
        <3>16. ServerTyped'
            BY <2>1, <3>4, <3>5, <3>14 DEF ServerTyped
        <3>17. TokenOfLease'
            BY <2>1, <3>4 DEF TokenOfLease
        <3>18. QED
            BY <2>2, <3>6, <3>8, <3>9, <3>10, <3>15, <3>16, <3>17, SessionPutTogether
    <2>5. QED
        BY <1>11, <2>3, <2>4 DEF Publish, StillLeased
<1>12. CASE DropOrphan(h)
    <2> DEFINE t == [id |-> request[h].id, generation |-> request[h].generation]
    <2>1. /\ Owns(h) /\ h \in InFlight /\ Done(h) /\ reserved' = reserved - 1 /\ Discarding(t)
          /\ UNCHANGED <<session, leases, tokens, iso, abandoned, snapshot, issued>>
        BY <1>12 DEF DropOrphan, Busy, Owns, InFlight
    <2>2. KnownHand(t.id, t.generation) /\ t.id \in Captures /\ t.id = request[h].id
        BY <2>1 DEF HandsKnown, KnownHand, ProcessOk, ProcessTyped
    <2> HIDE DEF t
    <2>3. ProcessOk' /\ HandsStay({t.id})
        BY <2>1, <2>2, DiscardingGoesOn
    <2>4. QED
        BY <1>3, <2>1, <2>2, <2>3
<1>13. CASE Consume(h)
    <2>1. /\ request[h].at = "admitted" /\ tokens' = tokens \ Mine(h)
          /\ UNCHANGED <<session, leases, reserved, iso, abandoned, processVars>>
        BY <1>13 DEF Consume, Busy
    <2>2. ProcessOk' /\ HandsStay({})
        BY <2>1, CallsGoOn
    <2>3. ServerTyped' /\ TokenOfLease'
        BY <2>1 DEF ServerTyped, TokenOfLease
    <2>4. /\ IsFiniteSet(tokens') /\ Cardinality(tokens') <= Cardinality(tokens)
          /\ Cardinality(tokens) \in Nat /\ Cardinality(tokens') \in Nat
        BY <2>1, FS_Subset, FS_CardinalityType DEF ReservationsCounted
    <2>5. CapRespected'
        BY <2>1, <2>4, SessionBounds DEF CapRespected, ServerTyped
    <2>6. ASSUME NEW r \in Requests, request' = [request EXCEPT ![h] = r], r.at \in {"idle", "consumed"},
                 r.at # "idle" => r.lease # 0,
                 r.at = "consumed" => \E t \in tokens : t.id = r.id /\ t.id = request[h].id /\ t.generation = r.generation
          PROVE  SessionIInv'
        <3>1. request'[h] = r /\ (\A g \in Handlers : g # h => request'[g] = request[g]) /\ request' \in [Handlers -> Requests]
            BY <2>6
        <3>2. RequestsLeased'
            BY <2>6, <3>1 DEF RequestsLeased
        <3>3. InFlight' = InFlight
            BY <2>1, <2>6, <3>1 DEF InFlight
        <3>4. ReservationsCounted'
            BY <2>1, <2>4, <3>3 DEF ReservationsCounted
        <3>5. \A g \in Handlers : Owns(g)' => g = h \/ (Owns(g) /\ request'[g] = request[g])
            BY <3>1 DEF Owns
        <3>6. CASE r.at = "idle"
            <4>1. \A g \in Handlers : Owns(g)' => Owns(g) /\ request'[g] = request[g]
                BY <3>1, <3>5, <3>6 DEF Owns
            <4>2. OneHand'
                BY <2>1, <4>1 DEF OneHand
            <4>3. HandsKnown'
                BY <2>1, <2>2, <4>1, HandsGoOn
            <4>4. QED
                BY <2>2, <2>3, <2>5, <3>1, <3>2, <3>4, <4>2, <4>3, SessionPutTogether
        <3>7. CASE r.at = "consumed"
            <4>1. PICK t \in tokens : t.id = r.id /\ t.id = request[h].id /\ t.generation = r.generation
                BY <2>6, <3>7
            <4>2. /\ \A u \in tokens' : u.id # t.id
                  /\ \A u \in abandoned.tokens : u.id # t.id
                  /\ \A g \in Handlers : Owns(g) => request[g].id # t.id
                BY <2>1, <4>1 DEF Mine, OneHand
            <4>3. OneHand'
                <5>1. request'[h].id = t.id
                    BY <3>1, <4>1
                <5>2. \A f, g \in Handlers : Owns(f)' /\ Owns(g)' /\ request'[f].id = request'[g].id => f = g
                    BY <3>5, <4>2, <5>1 DEF OneHand
                <5>3. \A g \in Handlers, u \in tokens' : Owns(g)' => u.id # request'[g].id
                    BY <2>1, <3>5, <4>2, <5>1 DEF OneHand
                <5>4. \A g \in Handlers, u \in abandoned.tokens : Owns(g)' => u.id # request'[g].id
                    BY <3>5, <4>2, <5>1 DEF OneHand
                <5>5. QED
                    BY <2>1, <5>2, <5>3, <5>4 DEF OneHand
            <4>4. KnownHand(request[h].id, request[h].generation)'
                BY <2>1, <3>1, <4>1 DEF HandsKnown, KnownHand, SameGeneration, processVars
            <4>5. HandsKnown'
                BY <2>1, <2>2, <3>5, <4>4, HandsGoOn
            <4>6. QED
                BY <2>2, <2>3, <2>5, <3>1, <3>2, <3>4, <4>3, <4>5, SessionPutTogether
        <3>8. QED
            BY <2>6, <3>6, <3>7
    <2>7. CASE Done(h)
        BY <1>1, <2>6, <2>7 DEF Done
    <2>8. CASE \E t \in Mine(h) : request' = [request EXCEPT ![h].at = "consumed", ![h].generation = t.generation]
        <3>1. PICK t \in Mine(h) : request' = [request EXCEPT ![h].at = "consumed", ![h].generation = t.generation]
            BY <2>8
        <3> DEFINE r == [request[h] EXCEPT !.at = "consumed", !.generation = t.generation]
        <3>2. t \in tokens /\ t.id = request[h].id /\ t.generation \in 0 .. MaxGenerations
            BY DEF Mine, ServerTyped, Token
        <3>3. r \in Requests /\ r.at = "consumed" /\ r.lease = request[h].lease /\ r.id = request[h].id /\ r.generation = t.generation
            BY <1>1, <3>2 DEF Requests
        <3>4. request' = [request EXCEPT ![h] = r]
            BY <3>1
        <3>5. r.lease # 0
            BY <2>1, <3>3 DEF RequestsLeased
        <3> HIDE DEF r
        <3>6. QED
            BY <2>6, <3>2, <3>3, <3>4, <3>5
    <2>9. QED
        BY <1>13, <2>7, <2>8 DEF Consume
<1>14. ASSUME Trigger(h) \/ Discard(h) PROVE SessionIInv'
    <2> DEFINE t == [id |-> request[h].id, generation |-> request[h].generation]
    <2>1. /\ Owns(h) /\ Done(h) /\ Discarding(t) /\ UNCHANGED <<serverVars, snapshot, issued>>
        <3>1. CASE Trigger(h)
            BY <3>1 DEF Trigger, Busy, Owns, Discarding, Refused, processVars
        <3>2. CASE Discard(h)
            BY <3>2 DEF Discard, Busy, Owns
        <3>3. QED
            BY <1>14, <3>1, <3>2
    <2>2. KnownHand(t.id, t.generation) /\ t.id \in Captures /\ t.id = request[h].id
        BY <2>1 DEF HandsKnown, KnownHand, ProcessOk, ProcessTyped
    <2> HIDE DEF t
    <2>3. ProcessOk' /\ HandsStay({t.id})
        BY <2>1, <2>2, DiscardingGoesOn
    <2>4. QED
        BY <1>3, <2>1, <2>2, <2>3 DEF serverVars
<1>15. QED
    BY <1>4, <1>5, <1>6, <1>7, <1>8, <1>9, <1>10, <1>11, <1>12, <1>13, <1>14 DEF Handler

\* The invariant of the session holds at the start.
LEMMA SessionInvStarts == CameraSessionInit => SessionIInv
<1>1. SUFFICES ASSUME CameraSessionInit PROVE SessionIInv
    OBVIOUS
<1>2. /\ session = 0 /\ leases = 0 /\ tokens = {} /\ reserved = 0 /\ iso = FALSE /\ abandoned = NoCleanup
      /\ \A h \in Handlers : request[h] = Idle
      /\ camera = [started |-> TRUE, alive |-> FALSE, generation |-> 0, known |-> {}, settings |-> Unset]
      /\ snapshot = Unset /\ issued = {} /\ strangers = FALSE /\ failures = 0
    BY <1>1 DEF CameraSessionInit
<1>3. request \in [Handlers -> Requests] /\ InFlight = {} /\ \A h \in Handlers : ~Owns(h) /\ request[h].at = "idle"
    <2>1. Idle \in Requests /\ Idle.at = "idle"
        BY SessionBounds DEF Idle, Requests
    <2>2. QED
        BY <1>1, <1>2, <2>1 DEF CameraSessionInit, InFlight, Owns
<1>4. ServerTyped
    <2>1. 0 \in 0 .. MaxLeases /\ 0 \in 0 .. MaxPrepared
        BY SessionBounds
    <2>2. abandoned \in [at : {"idle", "clear", "discard"}, tokens : SUBSET Token]
        BY <1>2 DEF NoCleanup
    <2>3. QED
        BY <1>2, <2>1, <2>2 DEF ServerTyped
<1>5. ProcessTyped
    <2>1. 0 \in 0 .. MaxFailures /\ 0 \in 0 .. MaxGenerations
        BY SessionBounds
    <2>2. camera \in Cameras /\ ~camera.alive
        BY <1>2, <2>1 DEF Cameras
    <2>3. QED
        BY <1>2, <2>1, <2>2 DEF ProcessTyped
<1>6. IsFiniteSet(tokens) /\ IsFiniteSet(InFlight) /\ Cardinality(tokens) = 0 /\ Cardinality(InFlight) = 0
    BY <1>2, <1>3, FS_EmptySet
<1>7. QED
    BY <1>2, <1>3, <1>4, <1>5, <1>6, SessionTyped, SessionBounds
       DEF SessionIInv, TokenOfLease, NoStrangers, CapRespected, RespawnKeepsSettings, RequestsLeased,
           ReservationsCounted, OneHand, HandsKnown, NoCleanup

\* Every step of the session keeps its invariant.
LEMMA SessionInvStep == SessionIInv /\ [CameraSessionNext]_sessionVars => SessionIInv'
<1>1. SUFFICES ASSUME SessionIInv, [CameraSessionNext]_sessionVars PROVE SessionIInv'
    OBVIOUS
<1>2. CASE UNCHANGED sessionVars
    <2>1. UNCHANGED <<serverVars, request, processVars>> /\ UNCHANGED <<session, leases, tokens, reserved, iso, abandoned>>
        BY <1>2 DEF sessionVars, serverVars
    <2>2. ProcessOk' /\ HandsStay({})
        BY <1>1, <2>1, CallsGoOn, SessionTyped DEF SessionIInv, ProcessOk
    <2>3. HandsKnown'
        BY <1>1, <2>1, <2>2, HandsGoOn DEF Owns
    <2>4. QED
        BY <1>1, <2>1, <2>2, <2>3, SessionTyped, SessionFrames, SessionPutTogether DEF SessionIInv
<1>3. CASE CameraSessionNext
    BY <1>1, <1>3, SessionsKeep, RevokeDiscardKeeps, RequestsKeep, AdmitKeeps DEF CameraSessionNext
<1>4. QED
    BY <1>1, <1>2, <1>3

\* The invariant of the session holds throughout.
LEMMA SessionAlways == Spec => []SessionIInv
<1>1. Init => SessionIInv
    BY SessionInvStarts DEF Init
<1>2. SessionIInv /\ [LeasePart \/ SessionPart]_<<part, leaseVars, sessionVars>> => SessionIInv'
    BY SessionInvStep, CameraApart
<1>3. QED
    BY <1>1, <1>2, PTL DEF Spec

\* Prepared captures stay within their session, their process and their number, and a process that is
\* replaced has the settings of the run, for any number of handlers, captures and generations
\* (camera_ipc_server.py, camera_process_worker.py).
THEOREM CapturesAreOwned == Spec => []CapturesOwned
<1>1. SessionIInv => CapturesOwned
    BY DEF SessionIInv, CapturesOwned
<1>2. QED
    BY <1>1, SessionAlways, PTL
=============================================================================
