------------------------------- MODULE RearmSearch -------------------------------
\* The search of the shortest pause between the return of trigger_capture() and the next SET
\* (_search_single_rearm_ms and _qualify_guarded_single_rearm_ms), with the three hardware
\* probes the characterization gives it. Delays are in grid steps of 50 ms.
EXTENDS Naturals
CONSTANTS
    Ceiling,     \* SINGLE_REARM_MAX_MS, in steps
    Jump,        \* the 250 ms by which a failing start is raised, in steps
    MaxGlitches  \* probes that fail although the camera could do it, and reopenings that fail
ASSUME RearmAssumption == Ceiling \in Nat \ {0} /\ Jump \in Nat \ {0} /\ MaxGlitches \in Nat

VARIABLES
    search,    \* where the search is: stage, candidate, and the limits of the bisection
    outcomes,  \* what each delay gave last: "none", "passed" or "failed"
    minimum,   \* minimum_stable_ms of the search
    ability,      \* the shortest delays this camera sustains: in pairs, bursts and long exposures
    session,   \* "clean", or "upset" by a failed probe
    glitches
rearmVars == <<search, outcomes, minimum, ability, session, glitches>>

Delays == 0..Ceiling
Stages == {"high", "zero", "bisect", "verify", "burst", "exposures", "done", "failed"}
\* The safety policy: ten per cent and 50 ms more, rounded up to 50 ms.
Guarded(n) == n + 1 + (n + 9) \div 10

RearmTypeInv ==
    /\ search \in [stage : Stages, at : 0..Ceiling, low : Delays, high : 0..Ceiling]
    /\ outcomes \in [Delays -> {"none", "passed", "failed"}]
    /\ minimum \in Delays
    /\ ability \in [pair : 0..Ceiling + 1, burst : 0..Ceiling + 1, exposures : 0..Ceiling + 1]
    /\ session \in {"clean", "upset"} /\ glitches \in 0..MaxGlitches

\* The probes of one delay: two photos with a SET in between, bursts, and pairs of exposures.
Needed == CASE search.stage = "burst" -> ability.burst
            [] search.stage = "exposures" -> ability.exposures
            [] OTHER -> ability.pair

RearmInit ==
    /\ \E start \in 1..Ceiling :
        search = [stage |-> "high", at |-> start, low |-> 0, high |-> start]
    /\ outcomes = [d \in Delays |-> "none"] /\ minimum = 0
    \* A burst asks no less of the camera than a pair does.
    /\ ability \in {b \in [pair : 0..Ceiling + 1, burst : 0..Ceiling + 1, exposures : 0..Ceiling + 1] :
                    b.pair <= b.burst}
    /\ session = "clean" /\ glitches = 0

\* A delay tried before is not tried again, except to verify it or to qualify it.
Fresh == search.stage \in {"verify", "burst", "exposures"} \/ outcomes[search.at] = "none"

Middle(low, high) == (low + high) \div 2
Lesser(a, b) == IF a < b THEN a ELSE b


\* Where the search goes once the candidate of its stage has passed.
Onward ==
    CASE search.stage = "high" -> [search EXCEPT !.stage = "zero", !.at = 0, !.high = search.at]
      [] search.stage = "zero" -> [search EXCEPT !.stage = "verify", !.at = 0]
      [] search.stage = "bisect" ->
            IF search.low = search.at
            THEN [search EXCEPT !.stage = "verify", !.high = search.at]
            ELSE [search EXCEPT !.high = search.at, !.at = Middle(search.low, search.at)]
      [] search.stage = "verify" ->
            IF Guarded(search.at) > Ceiling THEN [search EXCEPT !.stage = "failed"]
            ELSE [search EXCEPT !.stage = "burst", !.at = Guarded(search.at)]
      [] search.stage = "burst" -> [search EXCEPT !.stage = "exposures"]
      [] OTHER -> [search EXCEPT !.stage = "done"]

\* Bisection goes on between low and high, and ends where they meet: that delay was passed.
Bisected(low) ==
    [search EXCEPT !.stage = IF low = search.high THEN "verify" ELSE "bisect",
                   !.low = low, !.at = Middle(low, search.high)]
\* Where the search goes once the candidate of its stage has failed.
Backward ==
    CASE search.stage = "high" ->
            IF search.at >= Ceiling THEN [search EXCEPT !.stage = "failed"]
            ELSE [search EXCEPT !.at = Lesser(Ceiling, search.at + Jump)]
      [] search.stage = "zero" -> Bisected(1)
      [] search.stage = "bisect" -> Bisected(search.at + 1)
      [] OTHER -> IF search.at + 1 > Ceiling THEN [search EXCEPT !.stage = "failed"]
                  ELSE [search EXCEPT !.at = @ + 1]

Searching == search.stage \notin {"done", "failed"}

\* One probe: it needs the camera to keep up, and a failed one upsets the session.
Probe(passes) ==
    /\ Searching /\ session = "clean" /\ Fresh
    /\ passes => search.at >= Needed
    /\ ~passes => search.at < Needed \/ glitches < MaxGlitches
    /\ glitches' = IF ~passes /\ search.at >= Needed THEN glitches + 1 ELSE glitches
    /\ outcomes' = [outcomes EXCEPT ![search.at] = IF passes THEN "passed" ELSE "failed"]
    /\ minimum' = IF passes /\ search.stage = "verify" THEN search.at ELSE minimum
    /\ IF passes THEN search' = Onward /\ UNCHANGED session
       ELSE search' = search /\ session' = "upset"
    /\ UNCHANGED ability

\* A delay whose outcome is known: the search goes on from it.
Recall ==
    /\ Searching /\ session = "clean" /\ ~Fresh
    /\ search' = IF outcomes[search.at] = "passed" THEN Onward ELSE Backward
    /\ UNCHANGED <<outcomes, minimum, ability, session, glitches>>

\* The camera is closed, opened and brought to its preflight state again before anything else;
\* a reopening that fails ends the characterization.
Recover(works) ==
    /\ Searching /\ session = "upset"
    /\ works \/ glitches < MaxGlitches
    /\ glitches' = IF works THEN glitches ELSE glitches + 1
    /\ IF works THEN session' = "clean" /\ search' = Backward
       ELSE session' = session /\ search' = [search EXCEPT !.stage = "failed"]
    /\ UNCHANGED <<outcomes, minimum, ability>>

RearmNext == \E ok \in BOOLEAN : Probe(ok) \/ Recover(ok) \/ Recall
RearmSpec == RearmInit /\ [][RearmNext]_rearmVars

(* ---- What the search promises ---- *)
\* What is published was passed by the last probe of every kind, on a session that works; and a
\* camera without glitches gets the shortest delay of the grid that it sustains, guarded.
Sustains(d) == d >= ability.burst /\ d >= ability.exposures
RearmProven ==
    /\ search.stage = "done" =>
        /\ Sustains(search.at) /\ minimum >= ability.pair /\ search.at >= Guarded(minimum)
        /\ outcomes[search.at] = "passed"
        /\ session = "clean"
    /\ search.stage = "done" /\ glitches = 0 =>
        /\ minimum = ability.pair
        /\ \A d \in Guarded(minimum)..search.at - 1 : ~Sustains(d)
\* A search fails only if no delay up to the ceiling would do, or by a glitch.
RearmFound ==
    search.stage = "failed" /\ glitches = 0 =>
        \A d \in Delays : d >= Guarded(ability.pair) => ~Sustains(d)
=============================================================================
