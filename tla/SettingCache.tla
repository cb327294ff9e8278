------------------------------- MODULE SettingCache -------------------------------
\* What the profile plugin of a camera knows of the body's settings, and what it sends because of
\* it: the wake-up, the preflight, the phase settings and the SET...PHOTO groups of a capture, with
\* the camera worker and service that drop the plugin after a failed call. Value 0 of a setting is
\* its baseline: ISO 100, 1/500 s, single shot; value 1 is any other.
EXTENDS Naturals, Sequences, FiniteSets, SequencesExt
CONSTANTS
    MaxEffects,   \* side effects of a SET on another setting, and unfinished probes, of one body
    MaxGroups,    \* photos of one capture
    MaxCalls,     \* calls of the trigger (history is not kept beyond them)
    MaxMishaps    \* failed calls
ASSUME CacheAssumption ==
    MaxEffects \in Nat /\ MaxGroups \in Nat \ {0} /\ MaxCalls \in Nat /\ MaxMishaps \in Nat

VARIABLES
    body,     \* the camera: its settings, its side effects, and the profile made of it
    known,    \* _known_settings: a value, or Unknown
    wake,     \* the plugin: "none" (no connection) or "blank"; or _wake_state_valid, and whether
              \* the snapshot may be out of date ("read"), is of a preflight or a run ("fresh"), or
              \* was out of date when a run began with it ("trusted")
    memory,   \* CameraService: _last_init_settings and _last_phase_settings["iso"]
    groups,   \* the groups that trigger_prepared has still to send
    sending,  \* the operations left of the effective group in hand
    released, \* the last photo was released at its rearm delay, "here" in this capture or "cut" since
    photo,    \* history: what is to be said of the last photo and the last release
    calls, mishaps
cacheVars == <<body, known, wake, memory, groups, sending, released, photo, calls, mishaps>>

Controls == {"iso", "shutter", "mode"}
Values == {0, 1}
Unknown == 2
Blank == [k \in Controls |-> Unknown]
\* A SET of setting `of' to `to' also changes `peer' to `reset'.
Effects == {e \in [of : Controls, to : Values, peer : Controls, reset : Values] : e.of # e.peer}
Resets(effects, k, v, j) == {e \in effects : e.of = k /\ e.to = v /\ e.peer = j}

ReleaseKinds == {"no", "here", "cut"}
CacheTypeInv ==
    /\ body \in [at : [Controls -> Values], effects : SUBSET Effects,
                 invalidates : [Controls -> SUBSET Controls], through_single : BOOLEAN]
    /\ known \in [Controls -> Values \cup {Unknown}]
    /\ wake \in {"none", "blank", "read", "fresh", "trusted"}
    /\ memory \in [init : Values \cup {Unknown}, phase : Values \cup {Unknown}]
    /\ groups \in SeqOf([iso : Values, shutter : Values, bracket : BOOLEAN], MaxGroups)
    /\ sending \in Seq([key : Controls \cup {"photo"}, value : Values]) /\ Len(sending) <= 5
    /\ released \in ReleaseKinds
    /\ photo \in [wrong : BOOLEAN, doubted : BOOLEAN, bare : ReleaseKinds, early : ReleaseKinds,
                  group : [iso : Values, shutter : Values, bracket : BOOLEAN]]
    /\ calls \in 0..MaxCalls /\ mishaps \in 0..MaxMishaps

\* The settings after a SET of k to v: nothing happens if it has that value already.
Changed(at, k, v, effects) ==
    IF at[k] = v THEN at
    ELSE [j \in Controls |->
            IF j = k THEN v
            ELSE IF Resets(effects, k, v, j) = {} THEN at[j]
            ELSE (CHOOSE e \in Resets(effects, k, v, j) : TRUE).reset]

Baseline == [k \in Controls |-> 0]
Peers(now) == {j \in Controls : now[j] # Baseline[j]}
\* Mutant: only entering the other value is observed, not returning from it.
ProbedOneWay(k, effects) == Peers(Changed(Baseline, k, 1, effects)) \ {k}
\* The dependency probe of the characterization: from the baseline to another value and back,
\* reading the peers after each.
Probed(k, effects) ==
    LET there == Changed(Baseline, k, 1, effects) IN
    (Peers(there) \cup Peers(Changed(there, k, 0, effects))) \ {k}

UpTo(n, S) == {{}} \cup {{f[i] : i \in 1..n} : f \in [1..n -> S]}
NoGroup == [iso |-> 0, shutter |-> 0, bracket |-> FALSE]
Untold(group) ==
    [wrong |-> FALSE, doubted |-> FALSE, bare |-> "no", early |-> "no", group |-> group]
CacheInit ==
    /\ \E effects \in UpTo(MaxEffects, Effects), doubtful \in SUBSET Controls, single \in BOOLEAN :
        /\ Cardinality(effects) + Cardinality(doubtful) <= MaxEffects
        /\ \A d, e \in effects : d.of = e.of /\ d.to = e.to /\ d.peer = e.peer => d = e
        \* A probe that could not be finished leaves every peer to be resent.
        /\ body = [at |-> Baseline, effects |-> effects, through_single |-> single,
                   invalidates |-> [k \in Controls |-> IF k \in doubtful THEN Controls \ {k}
                                                       ELSE Probed(k, effects)]]
    /\ known = Blank /\ wake = "none" /\ memory = [init |-> Unknown, phase |-> Unknown]
    /\ groups = <<>> /\ sending = <<>> /\ released = "no"
    /\ photo = Untold(NoGroup)
    /\ calls = 0 /\ mishaps = 0

\* What is known after a SET: its own value, and nothing of what it invalidates.
Learnt(facts, k, v) ==
    [j \in Controls |-> IF j = k THEN v ELSE IF j \in body.invalidates[k] THEN Unknown ELSE facts[j]]

\* One setting brought to its value at preflight: an unknown one is read first.
Ensured(s, k, v) ==
    LET fact == IF s.facts[k] = Unknown THEN s.at[k] ELSE s.facts[k] IN
    IF fact = v THEN [s EXCEPT !.facts[k] = v]
    ELSE [at |-> Changed(s.at, k, v, body.effects), facts |-> Learnt(s.facts, k, v)]
\* The preflight puts the defaults of the profile, then what is required; the initialisation of
\* a run requires single shot once more, after the ISO.
Defaults(s) == Ensured(s, "mode", 0)
Ensure(s, iso, again) ==
    LET required == Ensured(Defaults(s), "iso", iso) IN
    IF again THEN Defaults(required) ELSE required
\* The connection is opened if there is none, and then the last initialisation repeated.
Recovered ==
    IF wake = "none" /\ memory.init # Unknown
    THEN Ensure([at |-> body.at, facts |-> body.at], memory.init, TRUE)
    ELSE [at |-> body.at, facts |-> IF wake = "none" THEN Blank ELSE known]
\* Only the initialisation trusts a snapshot that it finds.
Reuses(s, kind) == kind = "initialize" /\ (wake \in {"fresh", "trusted"} \/ s.facts # Blank)
Woken(kind) ==
    IF Reuses(Recovered, kind) THEN Recovered ELSE [at |-> Recovered.at, facts |-> Recovered.at]

Idle == groups = <<>> /\ sending = <<>>
MayCall == Idle /\ calls < MaxCalls
Counted == calls' = calls + 1
\* The call failed somewhere on its way: what it had sent stays, the last SET perhaps not, and
\* the worker drops the connection with the plugin and all it knew.
Fails(states) ==
    /\ mishaps < MaxMishaps /\ mishaps' = mishaps + 1
    /\ \E at \in states : body' = [body EXCEPT !.at = at]
    /\ known' = Blank /\ wake' = "none" /\ groups' = <<>> /\ sending' = <<>> /\ released' = "no"
    /\ photo' = [photo EXCEPT !.group = NoGroup]
    /\ UNCHANGED memory
Interrupted(s, iso, again) ==
    {s.at, Defaults(s).at, Ensure(s, iso, FALSE).at, Ensure(s, iso, again).at}

\* No one touches the camera during a run; otherwise the operator may, and a snapshot is out of date.
Touched(k, v) ==
    /\ Idle /\ memory.init = Unknown /\ body.at[k] # v
    /\ body' = [body EXCEPT !.at = Changed(body.at, k, v, body.effects)]
    /\ wake' = (IF wake = "fresh" THEN "read" ELSE wake)
    /\ UNCHANGED <<known, memory, groups, sending, released, photo, calls, mishaps>>
Converges(s, iso, again, phase, init, state) ==
    \/ LET done == Ensure(s, iso, again) IN
       /\ body' = [body EXCEPT !.at = done.at] /\ known' = done.facts /\ wake' = state
       /\ memory' = [init |-> init, phase |-> phase]
       /\ UNCHANGED <<groups, sending, photo, mishaps>>
    \/ Fails(Interrupted(s, iso, again))
CallPreflight(iso) ==
    /\ MayCall /\ Counted /\ memory.init = Unknown
    /\ Converges(Woken("preflight"), iso, FALSE, memory.phase, memory.init, "fresh")
    /\ released' = "no"
\* A START has just had its own preflight, a recovery finds a plugin without knowledge; an emergency
\* start takes what there is.
CallInitialize(iso) ==
    /\ MayCall /\ Counted
    /\ Converges(Woken("initialize"), iso, TRUE, iso, iso,
                 IF Reuses(Recovered, "initialize") /\ wake \in {"read", "trusted"} THEN "trusted"
                 ELSE "fresh")
    /\ released' = "no"
\* A diagnostic reads everything and sets nothing.
CallReadInfo ==
    /\ MayCall /\ Counted
    /\ \/ /\ body' = [body EXCEPT !.at = Recovered.at] /\ known' = Recovered.at
          /\ wake' = (IF memory.init = Unknown THEN "read" ELSE "fresh") /\ released' = "no"
          /\ memory' = [memory EXCEPT !.phase = IF wake = "none" THEN memory.init ELSE @]
          /\ UNCHANGED <<groups, sending, photo, mishaps>>
       \/ Fails({body.at, Recovered.at})

\* The ISO of a phase, unless the service believes it is set; a lost connection is restored first.
CallPhase(iso) ==
    /\ MayCall /\ Counted /\ memory.init # Unknown
    /\ LET s == Recovered
           phase == IF wake = "none" THEN memory.init ELSE memory.phase IN
       \/ /\ IF phase = iso \/ s.facts["iso"] = iso
             THEN body' = [body EXCEPT !.at = s.at] /\ known' = s.facts /\ UNCHANGED released
             ELSE /\ body' = [body EXCEPT !.at = Changed(s.at, "iso", iso, body.effects)]
                  /\ known' = Learnt(s.facts, "iso", iso) /\ released' = "no"
          \* the SET comes before the budget of the last photo is over
          /\ photo' = [photo EXCEPT !.early = IF phase = iso \/ s.facts["iso"] = iso THEN @ ELSE released]
          /\ wake' = (IF wake = "none" THEN "fresh" ELSE wake)
          /\ memory' = [init |-> iso, phase |-> iso]
          /\ UNCHANGED <<groups, sending, mishaps>>
       \/ Fails({body.at, s.at, Changed(s.at, "iso", iso, body.effects)})

(* ---- A capture ---- *)
Op(k, v) == [key |-> k, value |-> v]
\* A bracket whose body takes no shutter speed in bracket mode goes through single shot.
Operations(group) ==
    LET iso == Op("iso", group.iso)
        shutter == Op("shutter", group.shutter) IN
    CASE ~group.bracket -> <<iso, Op("mode", 0), shutter>>
      [] group.bracket /\ body.through_single -> <<iso, Op("mode", 0), shutter, Op("mode", 1)>>
      [] group.bracket /\ ~body.through_single -> <<iso, Op("mode", 1), shutter>>

\* A SET that is known to be effective is left out.
Sifted(acc, op) ==
    IF acc.facts[op.key] = op.value THEN acc
    ELSE [ops |-> Append(acc.ops, op), facts |-> Learnt(acc.facts, op.key, op.value)]
\* The three or four SETs of the group that are not, and its photo.
Effective(facts, group) ==
    LET sets == Operations(group)
        three == Sifted(Sifted(Sifted([ops |-> <<>>, facts |-> facts], sets[1]), sets[2]), sets[3])
        all == IF Len(sets) = 3 THEN three ELSE Sifted(three, sets[4]) IN
    Append(all.ops, Op("photo", 0))

CallCapture(plan) ==
    /\ MayCall /\ Counted /\ memory.init # Unknown
    /\ LET s == Recovered IN
       \/ /\ body' = [body EXCEPT !.at = s.at] /\ known' = s.facts
          /\ wake' = (IF wake = "none" THEN "fresh" ELSE wake)
          /\ memory' = [memory EXCEPT !.phase = IF wake = "none" THEN memory.init ELSE @]
          /\ groups' = plan /\ sending' = <<>>
          /\ UNCHANGED <<released, photo, mishaps>>
       \/ Fails({body.at, s.at})
\* The deadline cuts a capture before a group; the service forgets the phase ISO.
GroupsCut ==
    /\ groups # <<>> /\ sending = <<>>
    /\ groups' = <<>> /\ memory' = [memory EXCEPT !.phase = Unknown]
    /\ released' = IF released = "here" THEN "cut" ELSE released
    /\ UNCHANGED <<body, known, wake, sending, photo, calls, mishaps>>
NextGroup ==
    /\ groups # <<>> /\ sending = <<>>
    /\ sending' = Effective(known, Head(groups))
    /\ photo' = Untold(Head(groups))
    /\ UNCHANGED <<body, known, wake, memory, groups, released, calls, mishaps>>

SendSet ==
    /\ sending # <<>> /\ Head(sending).key # "photo"
    /\ LET op == Head(sending)
           at == Changed(body.at, op.key, op.value, body.effects) IN
       \/ /\ body' = [body EXCEPT !.at = at] /\ known' = Learnt(known, op.key, op.value)
          /\ sending' = Tail(sending) /\ released' = "no"
          /\ photo' = [photo EXCEPT !.early = IF op.key = "shutter" THEN @ ELSE released]
          /\ UNCHANGED <<wake, memory, groups, calls, mishaps>>
       \/ Fails({body.at, at}) /\ UNCHANGED calls

\* The photo may be released early only before the one transition that was characterized.
MayRelease(next) == Head(next).key = "shutter"
Wrong(at, group) ==
    at["iso"] # group.iso \/ at["shutter"] # group.shutter \/ (at["mode"] = 1) # group.bracket
Doubted == wake = "trusted" \/ \E k \in Controls : known[k] = Unknown
SendPhoto ==
    /\ sending # <<>> /\ Head(sending).key = "photo"
    /\ \/ /\ photo' = [wrong |-> Wrong(body.at, photo.group), doubted |-> Doubted,
                       group |-> NoGroup, early |-> "no", bare |-> released]
          /\ released' = IF Len(groups) > 1 /\ ~photo.group.bracket /\ MayRelease(Effective(known, groups[2]))
                         THEN "here" ELSE "no"
          /\ sending' = <<>> /\ groups' = Tail(groups)
          /\ memory' = IF Len(groups) = 1 THEN [memory EXCEPT !.phase = Unknown] ELSE memory
          /\ UNCHANGED <<body, known, wake, calls, mishaps>>
       \/ Fails({body.at}) /\ UNCHANGED calls

\* The lease ends, or the worker is told to forget the run; the connection stays.
ClearRecovery ==
    /\ Idle /\ (memory # [init |-> Unknown, phase |-> Unknown] \/ wake \in {"read", "fresh", "trusted"})
    /\ memory' = [init |-> Unknown, phase |-> Unknown]
    /\ known' = Blank /\ wake' = (IF wake = "none" THEN "none" ELSE "blank")
    /\ released' = "no"
    /\ UNCHANGED <<body, groups, sending, photo, calls, mishaps>>

Group == [iso : Values, shutter : Values, bracket : BOOLEAN]
CacheNext ==
    \/ \E k \in Controls, v \in Values : Touched(k, v)
    \/ \E iso \in Values : CallPreflight(iso) \/ CallInitialize(iso) \/ CallPhase(iso)
    \/ CallReadInfo \/ ClearRecovery
    \/ \E n \in 1..MaxGroups : \E plan \in [1..n -> Group] : CallCapture(plan)
    \/ GroupsCut \/ NextGroup \/ SendSet \/ SendPhoto
CacheSpec == CacheInit /\ [][CacheNext]_cacheVars

(* ---- What the cache promises ---- *)
\* The side effects the probe can see: it starts from the baseline, so that a peer that is put to
\* its baseline value does not change under it.
Visible == \A e \in body.effects : e.reset # Baseline[e.peer]
InRun == memory.init # Unknown
\* During a run, what the plugin knows is what the camera has (profile.py:1998), unless the run
\* began with a snapshot that was out of date.
CacheTrue == InRun /\ wake # "trusted" => \A k \in Controls : known[k] \in {Unknown, body.at[k]}
\* A photo is never taken with another setting than its group's unless the plugin could know it,
\* or the run began like that.
PhotosKnown == photo.wrong => photo.doubted
\* Within one capture, a photo released at its rearm delay is followed by the shutter SET that was
\* characterized (profile.py:1006), not by another SET and not by a bare photo.
EarlyInCapture == photo.bare # "here" /\ photo.early # "here"
CacheSafe == CacheTypeInv /\ EarlyInCapture /\ (Visible => CacheTrue /\ PhotosKnown)

\* As profile.py:877 has it, the snapshot that an initialisation trusts is the one the preflight of
\* its START has just taken. An emergency start has none of its own, and this breaks.
SnapshotTrusted == wake # "trusted"
=============================================================================
