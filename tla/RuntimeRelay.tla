------------------------------ MODULE RuntimeRelay ------------------------------
(***************************************************************************)
(* How the portal follows the runtime: RuntimeLogJournal and               *)
(* RuntimeEventJournal, two bounded rings whose sequence numbers start at  *)
(* 1 with every runtime, and _sync_runtime_relay() of flask_app/app.py,    *)
(* which asks for what is newer than its two cursors.  Either process may  *)
(* be restarted at any time.  An entry is its sequence number.             *)
(***************************************************************************)
EXTENDS Integers, FiniteSetsExt

CONSTANTS
    RingSize,      \* deque(maxlen=...): 2000
    ReadLimit,     \* LOG_BUFFER_SIZE: the most entries of one answer
    MaxEntries, MaxRuntimes, MaxPortals   \* bounds

ASSUME RelayAssumption ==
    {RingSize, ReadLimit, MaxRuntimes, MaxPortals} \subseteq Nat \ {0} /\ MaxEntries \in Nat

Rings == {"log", "event"}

VARIABLES
    runtime,       \* the runtime's id: how many there were
    latest,        \* _next_seq - 1 of each ring
    portal,        \* how many portals there were
    relayId,       \* _runtime_relay_id, 0 for None
    cursor,        \* _runtime_log_cursor and _runtime_event_cursor
    reread,        \* between the two reads of a poll that met a new runtime
    relayed,       \* history: what this portal passed on, per ring: [id, seq]
    twice,         \* history: it passed something on again
    attached,      \* history: the last event when the portal met this runtime
    dropped        \* history: it went past an entry that it could still have read

runtimeSide == <<runtime, latest>>
portalSide == <<portal, relayId, cursor, reread, relayed, twice, attached, dropped>>
relayVars == <<runtimeSide, portalSide>>

RelayTypeInv ==
    /\ runtime \in 1 .. MaxRuntimes /\ portal \in 1 .. MaxPortals
    /\ latest \in [Rings -> 0 .. MaxEntries]
    /\ relayId \in 0 .. runtime /\ cursor \in [Rings -> 0 .. MaxEntries]
    /\ relayId = runtime => \A r \in Rings : cursor[r] <= latest[r]
    /\ reread \in BOOLEAN /\ twice \in BOOLEAN /\ dropped \in BOOLEAN
    /\ relayed \in [Rings -> SUBSET ((1 .. MaxRuntimes) \X (1 .. MaxEntries))]
    /\ attached \in 0 .. MaxEntries

RelayInit ==
    /\ runtime = 1 /\ latest = [r \in Rings |-> 0]
    /\ portal = 1 /\ relayId = 0 /\ cursor = [r \in Rings |-> 0] /\ reread = FALSE
    /\ relayed = [r \in Rings |-> {}] /\ twice = FALSE /\ attached = 0 /\ dropped = FALSE

-----------------------------------------------------------------------------
\* RuntimeLogJournal and RuntimeEventJournal: append(), read().

AppendEntry(ring) ==
    /\ latest[ring] < MaxEntries
    /\ latest' = [latest EXCEPT ![ring] = @ + 1]
    /\ UNCHANGED <<runtime, portalSide>>

Oldest(ring) == Max({1, latest[ring] - RingSize + 1})
\* A cursor of 0 never has a gap.
Gap(ring, after) == latest[ring] > 0 /\ after # 0 /\ after < Oldest(ring) - 1

Selected(ring, after) ==
    LET first == Max({after + 1, Oldest(ring)})
    IN  first .. Min({latest[ring], first + ReadLimit - 1})

-----------------------------------------------------------------------------
\* _sync_runtime_relay(), under its lock.

RuntimeChanged == relayId # 0 /\ relayId # runtime

\* Mutant: the events of the time before the portal came are relayed.
SkipsEventsOnGap(base, first) == Gap("event", base["event"])
SkipsEvents(base, first) == first \/ Gap("event", base["event"])

Advanced(ring, base, entries) == Max(entries \cup {base[ring]})

\* An answer that was asked for with the cursors `base'; first is first_attachment.
PassOn(base, first) ==
    LET skips == SkipsEvents(base, first)
        given == [r \in Rings |-> IF r = "event" /\ skips THEN {} ELSE Selected(r, base[r])]
        new == [r \in Rings |-> {<<runtime, s>> : s \in given[r]}]
        next == [r \in Rings |-> IF r = "event" /\ skips THEN Max({base[r], latest[r]})
                                 ELSE Advanced(r, base, given[r])]
        passedBy == {s \in base["log"] + 1 .. next["log"] : s >= Oldest("log")}
    IN  /\ relayed' = [r \in Rings |-> relayed[r] \cup new[r]]
        /\ twice' = (twice \/ \E r \in Rings : relayed[r] \cap new[r] # {})
        /\ dropped' = (dropped \/ ~(passedBy \subseteq given["log"]))
        /\ cursor' = next
        /\ relayId' = runtime /\ reread' = FALSE
        /\ attached' = IF first THEN latest["event"] ELSE attached
        /\ UNCHANGED <<runtimeSide, portal>>

Poll == ~reread /\ ~RuntimeChanged /\ PassOn(cursor, relayId = 0)

\* The sequence numbers start again: the rings are read a second time, from 0.
PollChanged ==
    /\ ~reread /\ RuntimeChanged
    /\ reread' = TRUE
    /\ UNCHANGED <<runtimeSide, portal, relayId, cursor, relayed, twice, attached, dropped>>

Reread == reread /\ PassOn([r \in Rings |-> 0], TRUE)

\* The second call raised: the cursors and the id stay, and the next poll starts over.
RereadFails ==
    /\ reread
    /\ reread' = FALSE
    /\ UNCHANGED <<runtimeSide, portal, relayId, cursor, relayed, twice, attached, dropped>>

-----------------------------------------------------------------------------
RuntimeRestarts ==
    /\ runtime < MaxRuntimes
    /\ runtime' = runtime + 1 /\ latest' = [r \in Rings |-> 0]
    /\ UNCHANGED portalSide

PortalRestarts ==
    /\ portal < MaxPortals
    /\ portal' = portal + 1
    /\ relayId' = 0 /\ cursor' = [r \in Rings |-> 0] /\ reread' = FALSE
    /\ relayed' = [r \in Rings |-> {}] /\ attached' = 0
    /\ UNCHANGED <<runtimeSide, twice, dropped>>

RelayNext ==
    \/ \E ring \in Rings : AppendEntry(ring)
    \/ Poll \/ PollChanged \/ Reread \/ RereadFails
    \/ RuntimeRestarts \/ PortalRestarts

-----------------------------------------------------------------------------
\* A portal passes each line and each event on at most once, across restarts of the runtime.
RelayedOnce == ~twice

\* "an audio_play that occurred while the portal/browser was down must never be played late
\* after reconnection" (app.py:482)
NoLateEvent == \A s \in 1 .. attached : <<relayId, s>> \notin relayed["event"]

\* The log cursor passes a line only if the line was relayed, or overwritten before: no
\* line is lost to the limit of an answer or to a change of the runtime.
NoLineDropped == ~dropped

\* What the portal shows of the runtime is what happened: once each, in time, without holes.
RelayFaithful == RelayTypeInv /\ RelayedOnce /\ NoLateEvent /\ NoLineDropped
=============================================================================
