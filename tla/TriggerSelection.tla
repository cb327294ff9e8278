----------------------------- MODULE TriggerSelection -----------------------------
\* How a characterization chooses what fires the camera (characterize, from the cold start to the
\* final reopening): every primitive is tried on single photos, then on the native brackets from
\* the smallest to the largest, and the brackets that give the timing model share one primitive.
\* Durations are in units of 50 ms. A cancellation, or a camera that
\* is never idle again, ends it at any step and publishes nothing (CameraJobs).
EXTENDS Naturals, Sequences, FiniteSets, SequencesExt, FiniteSetsExt
CONSTANTS
    Primitives,   \* trigger_candidates, in the order they are tried
    Sizes,        \* the native brackets of the camera, ordered_modes
    Preferred,    \* the two sizes the timing model prefers: BRK3 and BRK7
    Trials,       \* the valid samples a timing needs (five in the code)
    Slowest,      \* the longest capture
    MaxFlops      \* probes that fail by accident
Nobody == "-"
ASSUME SelectionAssumption ==
    /\ Primitives \in Seq(STRING) \ {<<>>} /\ Nobody \notin ToSet(Primitives)
    /\ Sizes \subseteq Nat \ {0, 1} /\ IsFiniteSet(Sizes) /\ Preferred \subseteq Nat
    /\ Trials \in Nat \ {0} /\ Slowest \in Nat \ {0} /\ MaxFlops \in Nat

VARIABLES
    camera,     \* the body: which primitive fires what, and how fast
    stage,      \* where characterize is
    turn,       \* the primitive and the size in hand, and how many samples they have
    proven,     \* the primitives that passed, for single photos (size 1) and for each bracket
    peaks,      \* the longest sample of each
    timing,     \* bracket_calibration_frames and calibration_trigger_id
    chosen,     \* the primitive published for single photos and for each bracket
    exploratory,\* exploratory_usb_failure
    upset,      \* a failed photo may have left the camera session unusable
    retested,   \* history: a pruned primitive was tried on a larger bracket
    flops
selectionVars == <<camera, stage, turn, proven, peaks, timing, chosen, exploratory, upset,
                   retested, flops>>

Names == ToSet(Primitives)
Shots == {1} \cup Sizes
SelectionStages == {"cold", "single", "bracket", "timing", "select", "sample", "reopen",
                    "qualify", "failed"}

SelectionTypeInv ==
    /\ camera.fires \in [Names -> SUBSET Shots] /\ camera.takes \in [Names -> 1..Slowest]
    /\ stage \in SelectionStages
    /\ turn \in [primitive : 1..Len(Primitives) + 1, size : Shots, samples : 0..Trials,
                 rejected : 0..Trials + 1]
    /\ proven \in [Shots -> SUBSET Names] /\ peaks \in [Names -> [Shots -> 0..Slowest]]
    /\ timing.sizes \subseteq Sizes /\ timing.primitive \in Names \cup {Nobody}
    /\ chosen \in [Shots -> Names \cup {Nobody}]
    /\ exploratory \in BOOLEAN /\ upset \in BOOLEAN /\ retested \in BOOLEAN
    /\ flops \in 0..MaxFlops

Turn(p, n) == [primitive |-> p, size |-> n, samples |-> 0, rejected |-> 0]
SelectionInit ==
    /\ camera \in [fires : [Names -> SUBSET Shots], takes : [Names -> 1..Slowest]]
    /\ stage = "cold" /\ turn = Turn(1, 1)
    /\ proven = [n \in Shots |-> {}] /\ peaks = [p \in Names |-> [n \in Shots |-> 0]]
    /\ timing = [sizes |-> {}, primitive |-> Nobody]
    /\ chosen = [n \in Shots |-> Nobody]
    /\ exploratory = FALSE /\ upset = FALSE /\ retested = FALSE /\ flops = 0

Current == Primitives[turn.primitive]

\* One probe: the preamble, the photo, exactly the expected files, and, for a bracket, the way
\* back to single photos. It fails where the primitive does not work, and sometimes by accident.
Fires(p, n, passes) ==
    /\ passes => n \in camera.fires[p]
    /\ ~passes => n \notin camera.fires[p] \/ flops < MaxFlops
    /\ flops' = IF ~passes /\ n \in camera.fires[p] THEN flops + 1 ELSE flops
    /\ upset' = (upset \/ ~passes) /\ UNCHANGED camera
Longest(p, n, takes) == [peaks EXCEPT ![p][n] = Max({@, takes})]

\* The first photo of the session is measured apart, with the first primitive; its failure only
\* means that there is no measure.
ColdStart(passes) ==
    /\ stage = "cold"
    /\ Fires(Primitives[1], 1, passes)
    /\ stage' = "single"
    /\ UNCHANGED <<turn, proven, peaks, timing, chosen, exploratory, retested>>

\* Trials single photos with every primitive; the first failure rejects it.
NextPrimitive ==
    IF turn.primitive < Len(Primitives) THEN stage' = stage /\ turn' = Turn(turn.primitive + 1, turn.size)
    ELSE stage' = "select" /\ turn' = Turn(1, 1)
SingleTrial(passes, takes) ==
    /\ stage = "single"
    /\ Fires(Current, 1, passes)
    /\ takes \in camera.takes[Current]..Slowest
    /\ IF passes
       THEN /\ peaks' = Longest(Current, 1, takes)
            /\ IF turn.samples + 1 = Trials
               THEN proven' = [proven EXCEPT ![1] = @ \cup {Current}] /\ NextPrimitive
               ELSE turn' = [turn EXCEPT !.samples = @ + 1] /\ UNCHANGED <<proven, stage>>
            /\ UNCHANGED exploratory
       ELSE exploratory' = TRUE /\ NextPrimitive /\ UNCHANGED <<proven, peaks>>
    /\ UNCHANGED <<timing, chosen, retested>>

Reliable(n) == proven[n]
\* The lowest peak, and of equals the first by name.
Fastest(ps, n) ==
    CHOOSE p \in ps : \A q \in ps :
        \/ peaks[p][n] < peaks[q][n]
        \/ /\ peaks[p][n] = peaks[q][n]
           /\ SelectInSeq(Primitives, LAMBDA x : x = p) <= SelectInSeq(Primitives, LAMBDA x : x = q)
\* The simpler method "capture" is preferred if it is at most 50 ms slower.
Favoured(ps) ==
    LET fastest == Fastest(ps, 1) IN
    IF "capture" \in ps /\ peaks["capture"][1] <= peaks[fastest][1] + 1 THEN "capture" ELSE fastest

SelectSingle ==
    /\ stage = "select"
    /\ IF Reliable(1) = {} THEN stage' = "failed" /\ UNCHANGED <<chosen, turn>>
       ELSE /\ chosen' = [chosen EXCEPT ![1] = Favoured(Reliable(1))]
            /\ stage' = IF Sizes = {} THEN "reopen" ELSE "bracket"
            /\ turn' = Turn(1, IF Sizes = {} THEN 1 ELSE Min(Sizes))
    /\ UNCHANGED <<camera, proven, peaks, timing, exploratory, upset, retested, flops>>

Larger(n) == {m \in Sizes : m > n}
\* Mutant: a primitive that failed on a small bracket is tried on the larger ones.
AfterFailureRetests(n) == Larger(n)
\* A primitive that failed on a small bracket is not tried on the larger ones.
AfterFailure(n) == {}
NextShot(left) ==
    IF left # {} THEN stage' = stage /\ turn' = Turn(turn.primitive, Min(left))
    ELSE IF turn.primitive < Len(Primitives)
    THEN stage' = stage /\ turn' = Turn(turn.primitive + 1, Min(Sizes))
    ELSE stage' = "timing" /\ turn' = Turn(1, 1)
BracketTrial(passes, takes) ==
    /\ stage = "bracket"
    /\ Fires(Current, turn.size, passes)
    /\ takes \in camera.takes[Current]..Slowest
    /\ retested' = (retested \/ \E n \in Sizes : n < turn.size /\ Current \notin proven[n])
    /\ IF passes
       THEN /\ proven' = [proven EXCEPT ![turn.size] = @ \cup {Current}]
            /\ peaks' = Longest(Current, turn.size, takes)
            /\ NextShot(Larger(turn.size))
       ELSE NextShot(AfterFailure(turn.size)) /\ UNCHANGED <<proven, peaks>>
    /\ UNCHANGED <<timing, chosen, exploratory>>

Supported == {n \in Sizes : proven[n] # {}}
Pairs == {s \in kSubset(2, Supported) : \E p \in Names : \A n \in s : p \in proven[n]}
Width(s) == Max(s) - Min(s)
\* The pair the timing is derived from: BRK3 and BRK7, else the widest, then the smallest.
BestPair ==
    IF Preferred \in Pairs THEN Preferred
    ELSE CHOOSE s \in Pairs : \A t \in Pairs :
            Width(s) > Width(t) \/ (Width(s) = Width(t) /\ Min(s) <= Min(t))
Shared(s) == {p \in Names : \A n \in s : p \in proven[n]}
Total(p, s) == peaks[p][Min(s)] + peaks[p][Max(s)]
\* The lowest total over the pair (and then the lowest worst one).
Common(s) ==
    CHOOSE p \in Shared(s) : \A q \in Shared(s) :
        \/ Total(p, s) < Total(q, s)
        \/ /\ Total(p, s) = Total(q, s)
           /\ Max({peaks[p][n] : n \in s}) <= Max({peaks[q][n] : n \in s})

SelectTiming ==
    /\ stage = "timing"
    /\ timing' = CASE Pairs # {} -> [sizes |-> BestPair, primitive |-> Common(BestPair)]
                   [] Pairs = {} /\ Supported # {} ->
                        [sizes |-> {Min(Supported)},
                         primitive |-> Fastest(proven[Min(Supported)], Min(Supported))]
                   [] OTHER -> timing
    /\ IF Supported = {} THEN stage' = "reopen" /\ UNCHANGED turn
       ELSE stage' = "sample" /\ turn' = [Turn(1, Min(Supported)) EXCEPT !.samples = 1]
    /\ UNCHANGED <<camera, proven, peaks, chosen, exploratory, upset, retested, flops>>

\* The sizes of the timing take the common primitive, the others their own fastest.
ForSize(n) == IF n \in timing.sizes THEN timing.primitive ELSE Fastest(proven[n], n)

\* The trial that proved the bracket is its first sample; only the sizes of the timing take more,
\* and at most as many failures are retried.
Wanted(n) == IF n \in timing.sizes THEN Trials ELSE 1
Sampled ==
    /\ chosen' = [chosen EXCEPT ![turn.size] = ForSize(turn.size)]
    /\ LET left == {n \in Supported : n > turn.size} IN
       IF left = {} THEN stage' = "reopen" /\ turn' = Turn(1, 1)
       ELSE stage' = stage /\ turn' = [Turn(1, Min(left)) EXCEPT !.samples = 1]
TimingSample(passes, takes) ==
    /\ stage = "sample" /\ turn.samples < Wanted(turn.size)
    /\ LET p == ForSize(turn.size) IN
       /\ Fires(p, turn.size, passes)
       /\ takes \in camera.takes[p]..Slowest
       /\ IF passes
          THEN /\ turn' = [turn EXCEPT !.samples = @ + 1]
               /\ peaks' = Longest(p, turn.size, takes) /\ UNCHANGED stage
          ELSE /\ turn' = [turn EXCEPT !.rejected = @ + 1] /\ UNCHANGED peaks
               /\ stage' = IF turn.rejected + 1 > Wanted(turn.size) THEN "failed" ELSE stage
    /\ UNCHANGED <<proven, timing, chosen, exploratory, retested>>
EnoughSamples ==
    /\ stage = "sample" /\ turn.samples = Wanted(turn.size)
    /\ Sampled
    /\ UNCHANGED <<camera, proven, peaks, timing, exploratory, upset, retested, flops>>

MustReopen == exploratory
\* The session is opened again if a rejected single trigger may have upset it.
Reopen ==
    /\ stage = "reopen"
    /\ stage' = "qualify" /\ upset' = (upset /\ ~MustReopen)
    /\ UNCHANGED <<camera, turn, proven, peaks, timing, chosen, exploratory, retested, flops>>

\* The baseline mode cannot be restored after the photo of a bracket (:2841, :3120): all ends.
BaselineFails ==
    /\ stage \in {"bracket", "sample"} /\ flops < MaxFlops
    /\ stage' = "failed" /\ flops' = flops + 1
    /\ UNCHANGED <<camera, turn, proven, peaks, timing, chosen, exploratory, upset, retested>>

SelectionNext ==
    \/ \E passes \in BOOLEAN :
        \/ ColdStart(passes)
        \/ \E takes \in 1..Slowest :
            SingleTrial(passes, takes) \/ BracketTrial(passes, takes) \/ TimingSample(passes, takes)
    \/ SelectSingle \/ SelectTiming \/ EnoughSamples \/ Reopen \/ BaselineFails
SelectionSpec == SelectionInit /\ [][SelectionNext]_selectionVars

(* ---- What the selection promises ---- *)
\* Only primitives that passed are published, a pruned one is not tried on a larger bracket
\* (camera_characterization.py:2830), and the slope of the timing model is measured with one
\* primitive (:3010).
SelectionSound ==
    /\ ~retested
    /\ \A n \in Shots : chosen[n] # Nobody => chosen[n] \in proven[n] /\ n \in camera.fires[chosen[n]]
    /\ \A m, n \in timing.sizes :
        chosen[m] # Nobody /\ chosen[n] # Nobody => chosen[m] = chosen[n]
    /\ stage = "qualify" =>
        /\ chosen[1] # Nobody /\ \A n \in Sizes : chosen[n] # Nobody <=> proven[n] # {}
        /\ Pairs # {} => Cardinality(timing.sizes) = 2
    \* The final qualification does not inherit the session of a rejected single trigger (:3905).
    /\ stage = "qualify" /\ proven[1] # Names => ~upset
    \* "capture" loses only to a primitive that is more than 50 ms faster.
    /\ chosen[1] # Nobody /\ "capture" \in proven[1] /\ chosen[1] # "capture" =>
        peaks["capture"][1] > peaks[chosen[1]][1] + 1
=============================================================================
