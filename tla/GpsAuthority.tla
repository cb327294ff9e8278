------------------------------- MODULE GpsAuthority -------------------------------
\* On what authority over the clock a sequence may start. Three copies of the GPS record live side by
\* side: the portal's (gps_controller.py), the one in state.json (state_store.py) and the runtime's
\* (runtime_daemon.py); a START is checked against the first and against the last. A record's `sync'
\* is the number of the synchronization that made it, standing for sync_time; the place that a record
\* also holds has no part in its authority. The preflight between the two checks is
\* HardwarePreflight's.
EXTENDS Integers

CONSTANTS MaxSyncs,     \* bound: synchronizations, by a receiver or by the operator's word
          MaxRestarts   \* bound: restarts of the portal, the runtime or the machine
ASSUME AuthorityAssumption == MaxSyncs \in Nat /\ MaxRestarts \in Nat

VARIABLES portal,    \* the portal's "gps" section
          disk,      \* the one in state.json
          daemon,    \* the runtime's, and the sync_time the file held when the runtime started
          receiver,  \* the thread of GpsController
          poll,      \* a status answer the portal has not stored yet
          gate,      \* how far a START has come, and whether it holds the admission lock
          sequence,  \* whether a run is active, and the synchronization it started on
          tally      \* syncs and restarts so far, and the last sync before the machine's last boot
authorityVars == <<portal, disk, daemon, receiver, poll, gate, sequence, tally>>

Modes == {"time_location", "time_only", "location_only"}
SetsTime(mode) == mode # "location_only"
Unsynced == [synced |-> FALSE, sync |-> 0, busy |-> FALSE]

AuthorityTypeInv ==
    LET Record == [synced : BOOLEAN, sync : 0..MaxSyncs, busy : BOOLEAN] IN
    /\ {portal, disk, daemon.gps, poll.gps} \subseteq Record
    /\ receiver \in [at : {"idle", "acquire", "adjusted", "published"}, mode : Modes]
    /\ gate \in {"open", "checked", "locked", "orphan"}
    /\ sequence \in [active : BOOLEAN, sync : 0..MaxSyncs]
    /\ (receiver.at # "idle" /\ portal.busy) => receiver.at # "published"

AuthorityInit ==
    /\ portal = Unsynced /\ disk = Unsynced /\ daemon = [gps |-> Unsynced, marker |-> 0]
    /\ receiver = [at |-> "idle", mode |-> "time_location"]
    /\ poll = [at |-> "idle", gps |-> Unsynced]
    /\ gate = "open" /\ sequence = [active |-> FALSE, sync |-> 0]
    /\ tally = [syncs |-> 0, restarts |-> 0, before |-> 0]

\* validate_trigger_gps_state; its two hours of validity are longer than anything modelled here.
ValidGps(gps) == ~gps.busy /\ gps.synced /\ gps.sync # 0

-----------------------------------------------------------------------------
\* The portal's authority.

\* _start_gps_sync, under the admission lock and with no Trigger active; then GpsController.start,
\* one thread at a time.
TriggerIdle == gate # "locked" /\ ~sequence.active
StartSync(mode) ==
    /\ TriggerIdle /\ receiver.at = "idle"
    /\ receiver' = [at |-> "acquire", mode |-> mode]
    /\ portal' = [portal EXCEPT !.busy = TRUE]
    /\ UNCHANGED <<disk, daemon, poll, gate, sequence, tally>>

\* _run acquires, and adjusts the system clock when the mode asks for it; the lock is not held.
AdjustClock ==
    /\ receiver.at = "acquire" /\ tally.syncs < MaxSyncs
    /\ receiver' = [receiver EXCEPT !.at = "adjusted"]
    /\ tally' = [tally EXCEPT !.syncs = IF SetsTime(receiver.mode) THEN @ + 1 ELSE @]
    /\ UNCHANGED <<portal, disk, daemon, poll, gate, sequence>>

\* Then it updates the section in memory, and saves in a later step.
PublishSync ==
    /\ receiver.at = "adjusted"
    /\ portal' = [synced |-> portal.synced \/ SetsTime(receiver.mode),
                  sync |-> IF SetsTime(receiver.mode) THEN tally.syncs ELSE portal.sync,
                  busy |-> FALSE]
    /\ receiver' = [receiver EXCEPT !.at = "published"]
    /\ UNCHANGED <<disk, daemon, poll, gate, sequence, tally>>
SaveSync ==
    /\ receiver.at = "published"
    /\ disk' = portal /\ receiver' = [receiver EXCEPT !.at = "idle"]
    /\ UNCHANGED <<portal, daemon, poll, gate, sequence, tally>>

\* A failure, before the clock was set or after, or of the save, revokes the authority in memory only.
FailSync ==
    /\ receiver.at # "idle"
    /\ portal' = [portal EXCEPT !.busy = FALSE, !.synced = @ /\ ~SetsTime(receiver.mode)]
    /\ receiver' = [receiver EXCEPT !.at = "idle"]
    /\ UNCHANGED <<disk, daemon, poll, gate, sequence, tally>>

\* POST /api/gps/state: the operator's word is authority too; no lock, and saved after the update.
StateSet ==
    /\ tally.syncs < MaxSyncs
    /\ portal' = [portal EXCEPT !.synced = TRUE, !.sync = tally.syncs + 1]
    /\ tally' = [tally EXCEPT !.syncs = @ + 1]
    /\ UNCHANGED <<disk, daemon, receiver, poll, gate, sequence>>

\* StateStore.save, by this request or by any other that persists a section of its own.
SaveState ==
    /\ disk' = portal
    /\ UNCHANGED <<portal, daemon, receiver, poll, gate, sequence, tally>>

-----------------------------------------------------------------------------
\* The runtime's copy.

\* StateStore._load makes gps_sync_running false whatever the file says.
Loaded == [disk EXCEPT !.busy = FALSE]
\* _refresh_persisted_state: a synchronization the file held already when the runtime started is
\* not trusted.
Trusted(gps) == gps.synced /\ gps.sync # 0 /\ gps.sync # daemon.marker
Refreshed ==
    [Loaded EXCEPT !.synced = Trusted(disk) \/ daemon.gps.synced,
                   !.sync = IF Trusted(disk) THEN @ ELSE daemon.gps.sync]

\* trigger.status refreshes and answers; sync_state then replaces the portal's whole section.
AnswerStatus ==
    /\ poll.at = "idle"
    /\ daemon' = [daemon EXCEPT !.gps = Refreshed]
    /\ poll' = [at |-> "answered", gps |-> Refreshed]
    /\ UNCHANGED <<portal, disk, receiver, gate, sequence, tally>>
StoreStatus ==
    /\ poll.at = "answered"
    /\ portal' = poll.gps /\ poll' = [at |-> "idle", gps |-> Unsynced]
    /\ UNCHANGED <<disk, daemon, receiver, gate, sequence, tally>>

-----------------------------------------------------------------------------
\* A START with a token: the portal's check, the admission lock, the runtime's check. The runtime
\* serves a request whose portal has gone ("orphan") like any other.
CheckStart ==
    /\ gate = "open" /\ ValidGps(portal)
    /\ gate' = "checked"
    /\ UNCHANGED <<portal, disk, daemon, receiver, poll, sequence, tally>>
LockStart ==
    /\ gate = "checked" /\ gate' = "locked"
    /\ UNCHANGED <<portal, disk, daemon, receiver, poll, sequence, tally>>
RuntimeStarts ==
    /\ gate \in {"locked", "orphan"} /\ gate' = "open"
    /\ daemon' = [daemon EXCEPT !.gps = Refreshed]
    /\ sequence' = IF ValidGps(Refreshed) THEN [active |-> TRUE, sync |-> Refreshed.sync] ELSE sequence
    /\ UNCHANGED <<portal, disk, receiver, poll, tally>>
StartRefused ==
    /\ gate # "open" /\ gate' = "open"
    /\ UNCHANGED <<portal, disk, daemon, receiver, poll, sequence, tally>>
RunEnds ==
    /\ sequence.active /\ sequence' = [active |-> FALSE, sync |-> 0]
    /\ UNCHANGED <<portal, disk, daemon, receiver, poll, gate, tally>>

-----------------------------------------------------------------------------
\* Restarts: reset_boot_sensitive clears a process's copy, in memory only. The lock and the threads
\* die with the portal; a run goes on without it.
PortalAnew ==
    /\ tally.restarts < MaxRestarts
    /\ portal' = Unsynced /\ poll' = [at |-> "idle", gps |-> Unsynced]
    /\ receiver' = [receiver EXCEPT !.at = "idle"]
    /\ UNCHANGED disk
PortalRestarts ==
    /\ PortalAnew /\ gate' \in IF gate \in {"locked", "orphan"} THEN {"open", "orphan"} ELSE {"open"}
    /\ tally' = [tally EXCEPT !.restarts = @ + 1]
    /\ UNCHANGED <<daemon, sequence>>
Marker == disk.sync
RuntimeAnew ==
    /\ tally.restarts < MaxRestarts
    /\ daemon' = [gps |-> Unsynced, marker |-> Marker]
    /\ sequence' = [active |-> FALSE, sync |-> 0]
RuntimeRestarts ==
    /\ RuntimeAnew /\ gate' = (IF gate = "checked" THEN "checked" ELSE "open")
    /\ tally' = [tally EXCEPT !.restarts = @ + 1]
    /\ UNCHANGED <<portal, disk, receiver, poll>>
\* The machine's clock is wrong again after a boot.
MachineBoots ==
    /\ PortalAnew /\ RuntimeAnew /\ gate' = "open"
    /\ tally' = [tally EXCEPT !.restarts = @ + 1, !.before = tally.syncs]

AuthorityNext ==
    \/ \E mode \in Modes : StartSync(mode)
    \/ AdjustClock \/ PublishSync \/ SaveSync \/ FailSync \/ StateSet \/ SaveState
    \/ AnswerStatus \/ StoreStatus
    \/ CheckStart \/ LockStart \/ RuntimeStarts \/ StartRefused \/ RunEnds
    \/ PortalRestarts \/ RuntimeRestarts \/ MachineBoots
AuthoritySpec == AuthorityInit /\ [][AuthorityNext]_authorityVars
-----------------------------------------------------------------------------
\* No run is active on a synchronization made before the machine's last boot, whatever was saved,
\* lost or polled since: the runtime "must not trust a synced flag written by an earlier
\* runtime/boot" (runtime_daemon.py:489).
ClockOfThisBoot == sequence.active => sequence.sync > tally.before

\* Once a synchronization that moves the clock has been admitted, a START fails closed until it has
\* ended (app.py:3168: "a competing Trigger START will fail closed in validate_start() instead of
\* racing a system-clock adjustment").
SyncExcludesStart == receiver.at = "acquire" /\ SetsTime(receiver.mode) => ~sequence.active
=============================================================================
