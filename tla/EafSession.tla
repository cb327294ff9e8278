------------------------------ MODULE EafSession ------------------------------
(***************************************************************************)
(* Sessions of the ZWO SDK (plugins/focuser/zwo_eaf.py:57): the SDK knows  *)
(* one open session per device and process, so the plugin and an inventory *)
(* of one process share it by counting, and processes exclude each other   *)
(* by a lock file that a dying process gives back.                         *)
(***************************************************************************)
EXTENDS Integers, FiniteSets

CONSTANTS
    Eafs, Hosts,   \* focusers, and the processes that load the SDK
    Wanted,        \* the focuser each process is to drive, or none
    MaxUpsets      \* bound on failed opens, unplugged focusers and dead processes

NoEaf == 0
NoHost == "nobody"

ASSUME EafAssumption ==
    /\ Wanted \in [Hosts -> Eafs \cup {NoEaf}] /\ MaxUpsets \in Nat
    /\ NoEaf \notin Eafs /\ NoHost \notin Hosts

VARIABLES
    refs,       \* _SDK_OPEN_REFS of each process
    flock,      \* who holds each lock file
    open,       \* the sessions the SDK has open, by process and focuser
    eaf,        \* ZwoEaf of the plugin: its step, and whether it thinks it is connected
    inventory,  \* enumerate_devices(): its step, what it has still to look at, what it holds
    upsets

eafVars == <<refs, flock, open, eaf, inventory, upsets>>

Away == [pc |-> "idle", todo |-> {}, held |-> NoEaf]

EafTypeInv ==
    /\ refs \in [Hosts -> [Eafs -> 0 .. 2]] /\ flock \in [Eafs -> Hosts \cup {NoHost}]
    /\ open \subseteq Hosts \X Eafs
    /\ eaf \in [Hosts -> {"away", "opening", "connected"}]
    /\ inventory \in [Hosts -> [pc : {"idle", "list", "busy"}, todo : SUBSET Eafs,
                                held : Eafs \cup {NoEaf}]]
    /\ upsets \in 0 .. MaxUpsets

EafInit ==
    /\ refs = [p \in Hosts |-> [e \in Eafs |-> 0]] /\ flock = [e \in Eafs |-> NoHost] /\ open = {}
    /\ eaf = [p \in Hosts |-> "away"] /\ inventory = [p \in Hosts |-> Away] /\ upsets = 0

Upset == upsets < MaxUpsets /\ upsets' = upsets + 1

\* _acquire_sdk_session() and _try_acquire_sdk_session(): the first owner locks the file and
\* opens, the next ones only count.
Counted(p, e) == refs' = [refs EXCEPT ![p][e] = @ + 1]
Joins(p, e) == refs[p][e] > 0 /\ Counted(p, e) /\ UNCHANGED <<flock, open, upsets>>
Opens(p, e) ==
    /\ refs[p][e] = 0 /\ flock[e] = NoHost
    /\ Counted(p, e) /\ flock' = [flock EXCEPT ![e] = p] /\ open' = open \cup {<<p, e>>}
    /\ UNCHANGED upsets
OpenFails(p, e) ==
    /\ refs[p][e] = 0 /\ flock[e] = NoHost /\ Upset /\ UNCHANGED <<refs, flock, open>>

\* The lock file is another process's, or is taken for a moment by the probe of its inventory.
Refused(p, e) ==
    /\ refs[p][e] = 0 /\ (flock[e] # NoHost \/ \E q \in Hosts \ {p} : inventory[q].pc = "idle")
    /\ UNCHANGED <<refs, flock, open, upsets>>

LastOwner(p, e) == refs[p][e] = 1

\* _release_sdk_session(): only the last owner closes and unlocks.
Releases(p, e) ==
    IF refs[p][e] = 0 THEN UNCHANGED <<refs, flock, open>>
    ELSE IF LastOwner(p, e)
    THEN /\ refs' = [refs EXCEPT ![p][e] = 0] /\ flock' = [flock EXCEPT ![e] = NoHost]
         /\ open' = open \ {<<p, e>>}
    ELSE refs' = [refs EXCEPT ![p][e] = @ - 1] /\ UNCHANGED <<flock, open>>

-----------------------------------------------------------------------------
\* The plugin: connect() waits for the lock file, disconnect() stops the motor and releases.
Connects(p) ==
    /\ eaf[p] = "away" /\ Wanted[p] # NoEaf /\ eaf' = [eaf EXCEPT ![p] = "opening"]
    /\ UNCHANGED <<refs, flock, open, inventory, upsets>>

Connected(p) ==
    /\ eaf[p] = "opening"
    /\ \/ (Joins(p, Wanted[p]) \/ Opens(p, Wanted[p])) /\ eaf' = [eaf EXCEPT ![p] = "connected"]
       \/ OpenFails(p, Wanted[p]) /\ eaf' = [eaf EXCEPT ![p] = "away"]
    /\ UNCHANGED inventory

\* _invalidate_removed_session() releases in the same way, and so does a failed EAFGetProperty.
Disconnects(p) ==
    /\ eaf[p] = "connected" /\ eaf' = [eaf EXCEPT ![p] = "away"] /\ Releases(p, Wanted[p])
    /\ UNCHANGED <<inventory, upsets>>

\* A process that dies leaves its lock files and its sessions to the system.
HostDies(p) ==
    /\ Upset /\ refs' = [refs EXCEPT ![p] = [e \in Eafs |-> 0]]
    /\ flock' = [e \in Eafs |-> IF flock[e] = p THEN NoHost ELSE flock[e]]
    /\ open' = {s \in open : s[1] # p}
    /\ eaf' = [eaf EXCEPT ![p] = "away"] /\ inventory' = [inventory EXCEPT ![p] = Away]

-----------------------------------------------------------------------------
\* enumerate_devices(): nothing at all while a lock file is taken, also by this very process;
\* otherwise one focuser after another.
Enumerates(p) ==
    /\ inventory[p].pc = "idle" /\ \A e \in Eafs : flock[e] = NoHost
    /\ inventory' = [inventory EXCEPT ![p] = [pc |-> "list", todo |-> Eafs, held |-> NoEaf]]
    /\ UNCHANGED <<refs, flock, open, eaf, upsets>>

Borrows(p, e) ==
    /\ inventory[p].pc = "list" /\ e \in inventory[p].todo
    /\ \/ /\ Joins(p, e) \/ Opens(p, e)
          /\ inventory' = [inventory EXCEPT ![p].pc = "busy", ![p].held = e]
       \/ /\ OpenFails(p, e) \/ Refused(p, e)
          /\ inventory' = [inventory EXCEPT ![p].todo = @ \ {e}]
    /\ UNCHANGED eaf

Returns(p) ==
    /\ inventory[p].pc = "busy" /\ Releases(p, inventory[p].held)
    /\ inventory' = [inventory EXCEPT ![p].pc = "list", ![p].held = NoEaf,
                                      ![p].todo = @ \ {inventory[p].held}]
    /\ UNCHANGED <<eaf, upsets>>

Listed(p) ==
    /\ inventory[p].pc = "list" /\ inventory[p].todo = {}
    /\ inventory' = [inventory EXCEPT ![p] = Away] /\ UNCHANGED <<refs, flock, open, eaf, upsets>>

EafNext ==
    \E p \in Hosts :
        \/ Connects(p) \/ Connected(p) \/ Disconnects(p) \/ HostDies(p)
        \/ Enumerates(p) \/ Returns(p) \/ Listed(p)
        \/ \E e \in Eafs : Borrows(p, e)

EafSpec == EafInit /\ [][EafNext]_eafVars

-----------------------------------------------------------------------------
\* A plugin that is connected keeps its session whatever inventory comes and goes in its process,
\* and no focuser is open in two processes (zwo_eaf.py:57).
SessionKept ==
    /\ \A p \in Hosts : eaf[p] = "connected" => <<p, Wanted[p]>> \in open
    /\ \A s, t \in open : s[2] = t[2] => s = t

\* A focuser is locked exactly while somebody in the process counts on it: no lock file stays
\* behind to hold up every later connect() (zwo_eaf.py:192).
LocksCounted ==
    \A p \in Hosts, e \in Eafs :
        /\ flock[e] = p <=> refs[p][e] > 0
        /\ <<p, e>> \in open <=> refs[p][e] > 0
        /\ refs[p][e] = (IF eaf[p] = "connected" /\ Wanted[p] = e THEN 1 ELSE 0)
                        + (IF inventory[p].held = e THEN 1 ELSE 0)

\* The counts, the lock files and the sessions fit together (zwo_eaf.py:57).
EafSafe == EafTypeInv /\ SessionKept /\ LocksCounted

\* "Inventory must not even call EAFGetNum/EAFGetID while a worker owns an EAF" (zwo_eaf.py:96). The
\* worker may open one after the inventory has looked.
InventoryKeepsOff ==
    \A p \in Hosts : inventory[p].pc = "list" => \A s \in open : s[1] = p
=============================================================================
