-------------------------------- MODULE JobsProofs --------------------------------
\* The parts that decide whether and how a RIG may be used, for any number of jobs, failures,
\* synchronizations, restarts, RIGs and preflights: camera jobs, the maintenance and the Trigger keep
\* apart, and a run starts on a clock of this boot and on hardware that passed. A calibration
\* publishes what its trials have shown, for any durations, budgets and trials, and the plugin that
\* uses the profile knows what its camera has.
EXTENDS MCJobs, FiniteSetTheorems, WellFoundedInduction, TLAPS

(* ---- The camera jobs ---- *)

\* A START whose answer was lost is remembered.
LateKnown == trigger = "late" => broken.answer
\* A validation opens its camera only when nothing is stranded, and has a runtime only while it runs.
OpensClean ==
    /\ validation.phase = "starting" => ~stranded
    /\ validation.runtime = "temporary" => validation.phase \in {"running", "closing"}
\* Before it publishes, a characterization finds files that are not its own; between its two files it
\* knows those of an earlier one. A deletion takes the profile first, and then the timing.
FilesEarlier ==
    /\ child.stage # "none" => job.id > 0
    /\ files.timing <= job.id /\ files.profile <= job.id
    /\ child.stage \in {"opening", "measuring", "publishing"} =>
        files.timing < job.id /\ files.profile < job.id
HalfKnown ==
    /\ child.stage = "half" =>
           /\ child.timing < job.id /\ child.profile < job.id
           /\ ~job.replaces => files.profile = 0
           /\ ~broken.pair => child.timing = child.profile
    /\ files.going /\ ~broken.pair => files.profile = 0 /\ files.timing # 0
    /\ files.timing = 0 /\ ~broken.pair => files.profile = 0
\* A process has a success to report only once it has ended.
Unreported == child.stage \in Living => job.result # "SUCCESS"
JobsIInv == JobsSafe /\ LateKnown /\ OpensClean /\ FilesEarlier /\ HalfKnown /\ Unreported

\* The invariant holds at the start.
LEMMA JobsInitially == JobsInit => JobsIInv
<1> SUFFICES ASSUME JobsInit PROVE JobsIInv
    OBVIOUS
<1>1. /\ child = [stage |-> "none", timing |-> 0, profile |-> 0] /\ files = [timing |-> 0, profile |-> 0, going |-> FALSE]
      /\ 0 \in 0..MaxJobs /\ 0 \in 0..MaxFailures
    BY JobsAssumption DEF JobsInit, Child
<1>2. job \in JobRecords /\ child \in ChildRecords /\ files \in FilePairs
    BY <1>1 DEF JobsInit, JobRecords, ChildRecords, FilePairs, ChildStages
<1>3. validation \in Validations
    BY DEF JobsInit, Validations, Verdicts
<1>4. JobsTypeInv
    BY <1>1, <1>2, <1>3 DEF JobsInit, JobsTypeInv
<1>5. QED
    BY <1>1, <1>4 DEF JobsInit, JobsIInv, JobsSafe, OwnerKnown, TriggerAlone, StrandedAlone, PairWhole,
       FailureHarmless, LateKnown, OpensClean, FilesEarlier, HalfKnown, Unreported, Living, Validating

\* What a step does not touch stays as it was: that the parts keep apart, what is stranded, the files.
LEMMA ApartFrame ==
    ASSUME JobsIInv, UNCHANGED <<trigger, helper, job, child, broken, validation>>
    PROVE  OwnerKnown' /\ TriggerAlone' /\ LateKnown'
BY DEF JobsIInv, JobsSafe, OwnerKnown, TriggerAlone, LateKnown, Validating
LEMMA StrandedFrame ==
    ASSUME JobsIInv, UNCHANGED <<validation, stranded>>
    PROVE  StrandedAlone' /\ OpensClean'
BY DEF JobsIInv, JobsSafe, StrandedAlone, OpensClean
LEMMA FilesFrame ==
    ASSUME JobsIInv, UNCHANGED <<job, child, files, broken>>
    PROVE  PairWhole' /\ HalfKnown' /\ FailureHarmless' /\ FilesEarlier' /\ Unreported'
BY DEF JobsIInv, JobsSafe, PairWhole, HalfKnown, FailureHarmless, FilesEarlier, Unreported

\* What is written of a pair is a pair.
LEMMA PairWritten ==
    ASSUME NEW f \in FilePairs, NEW t \in 0..MaxJobs, NEW p \in 0..MaxJobs, NEW g \in BOOLEAN
    PROVE  [f EXCEPT !.timing = t, !.profile = p, !.going = g] \in FilePairs
BY DEF FilePairs
LEMMA NoFile == ASSUME JobsTypeInv PROVE 0 \in 0..MaxJobs /\ files \in FilePairs
BY JobsAssumption DEF JobsTypeInv

\* Every step keeps the invariant.
LEMMA JobsStep == JobsIInv /\ [JobsNext]_jobsVars => JobsIInv'
<1> SUFFICES ASSUME JobsIInv, [JobsNext]_jobsVars PROVE JobsIInv'
    OBVIOUS
<1> USE DEF JobsIInv, JobsSafe
<1>1. ASSUME NEW ask \in Asks, Ask(ask) PROVE JobsIInv'
    <2>1. JobsTypeInv'
        <3>1. asked' \subseteq Asks
            BY <1>1, JobsAssumption DEF Ask, Asks, JobsTypeInv
        <3>2. QED
            BY <1>1, <3>1 DEF Ask, JobsTypeInv
    <2>2. OwnerKnown' /\ TriggerAlone' /\ LateKnown'
        BY <1>1, ApartFrame DEF Ask
    <2>3. StrandedAlone' /\ OpensClean'
        BY <1>1, StrandedFrame DEF Ask
    <2>4. PairWhole' /\ HalfKnown' /\ FailureHarmless' /\ FilesEarlier' /\ Unreported'
        BY <1>1, FilesFrame DEF Ask
    <2>5. QED
        BY <2>1, <2>2, <2>3, <2>4
<1>2. ASSUME NEW ok \in BOOLEAN, StartTrigger(ok) PROVE JobsIInv'
    <2>1. JobsTypeInv'
        <3>1. trigger' \in {"idle", "late", "running"}
            BY <1>2, JobsAssumption DEF StartTrigger, MaintenanceRunning, Admitted, JobsTypeInv
        <3>2. asked' \subseteq Asks
            BY <1>2, JobsAssumption DEF StartTrigger, MaintenanceRunning, Admitted, Asks, JobsTypeInv
        <3>3. broken' \in [answer : BOOLEAN, pair : BOOLEAN]
            BY <1>2, JobsAssumption DEF StartTrigger, MaintenanceRunning, Admitted, JobsTypeInv
        <3>4. failures' \in 0..MaxFailures
            BY <1>2, JobsAssumption DEF StartTrigger, MaintenanceRunning, Admitted, Mishap, MayFail,
               JobsTypeInv
        <3>5. QED
            BY <1>2, <3>1, <3>2, <3>3, <3>4 DEF StartTrigger, MaintenanceRunning, Admitted, JobsTypeInv
    <2>2. OwnerKnown' /\ TriggerAlone' /\ LateKnown'
        BY <1>2 DEF StartTrigger, MaintenanceRunning, Admitted, JobsTypeInv, OwnerKnown, TriggerAlone,
           LateKnown, Living, Validating
    <2>3. StrandedAlone' /\ OpensClean'
        BY <1>2, StrandedFrame DEF StartTrigger
    <2>4. PairWhole' /\ HalfKnown' /\ FailureHarmless' /\ FilesEarlier' /\ Unreported'
        <3>1. PairWhole' /\ HalfKnown'
            BY <1>2 DEF StartTrigger, MaintenanceRunning, Admitted, JobsTypeInv, JobRecords,
               ChildRecords, FilePairs, PairWhole, HalfKnown, FilesEarlier, OwnerKnown, Living
        <3>2. FailureHarmless' /\ FilesEarlier' /\ Unreported'
            BY <1>2 DEF StartTrigger, MaintenanceRunning, Admitted, JobsTypeInv, JobRecords,
               ChildRecords, FilePairs, FailureHarmless, FilesEarlier, HalfKnown, PairWhole,
               OwnerKnown, Living, Unreported
        <3>3. QED
            BY <3>1, <3>2
    <2>5. QED
        BY <2>1, <2>2, <2>3, <2>4
<1>3. CASE TriggerChanges
    <2>1. JobsTypeInv'
        <3>1. trigger' \in {"idle", "late", "running"}
            BY <1>3, JobsAssumption DEF TriggerChanges, JobsTypeInv
        <3>2. QED
            BY <1>3, <3>1 DEF TriggerChanges, JobsTypeInv
    <2>2. OwnerKnown' /\ TriggerAlone' /\ LateKnown'
        BY <1>3 DEF TriggerChanges, JobsTypeInv, OwnerKnown, TriggerAlone, LateKnown, Living, Validating
    <2>3. StrandedAlone' /\ OpensClean'
        BY <1>3, StrandedFrame DEF TriggerChanges
    <2>4. PairWhole' /\ HalfKnown' /\ FailureHarmless' /\ FilesEarlier' /\ Unreported'
        BY <1>3, FilesFrame DEF TriggerChanges
    <2>5. QED
        BY <2>1, <2>2, <2>3, <2>4
<1>4. CASE StartHelper
    <2>1. JobsTypeInv'
        <3>1. helper' \in BOOLEAN
            BY <1>4, JobsAssumption DEF StartHelper, JobsTypeInv
        <3>2. QED
            BY <1>4, <3>1 DEF StartHelper, JobsTypeInv
    <2>2. OwnerKnown' /\ TriggerAlone' /\ LateKnown'
        BY <1>4 DEF StartHelper, JobsTypeInv, OwnerKnown, TriggerAlone, LateKnown, Living, Validating
    <2>3. StrandedAlone' /\ OpensClean'
        BY <1>4, StrandedFrame DEF StartHelper
    <2>4. PairWhole' /\ HalfKnown' /\ FailureHarmless' /\ FilesEarlier' /\ Unreported'
        BY <1>4, FilesFrame DEF StartHelper
    <2>5. QED
        BY <2>1, <2>2, <2>3, <2>4
<1>5. CASE HelperEnds
    <2>1. JobsTypeInv'
        <3>1. helper' \in BOOLEAN
            BY <1>5, JobsAssumption DEF HelperEnds, JobsTypeInv
        <3>2. QED
            BY <1>5, <3>1 DEF HelperEnds, JobsTypeInv
    <2>2. OwnerKnown' /\ TriggerAlone' /\ LateKnown'
        BY <1>5 DEF HelperEnds, JobsTypeInv, OwnerKnown, TriggerAlone, LateKnown, Living, Validating
    <2>3. StrandedAlone' /\ OpensClean'
        BY <1>5, StrandedFrame DEF HelperEnds
    <2>4. PairWhole' /\ HalfKnown' /\ FailureHarmless' /\ FilesEarlier' /\ Unreported'
        BY <1>5, FilesFrame DEF HelperEnds
    <2>5. QED
        BY <2>1, <2>2, <2>3, <2>4
<1>6. ASSUME NEW ask \in {"new", "replace"}, NEW how \in {"well", "spawn", "monitor", "survivor"},
             StartJob(ask, how)
      PROVE JobsIInv'
    <2>1. /\ asked' \subseteq Asks /\ failures' \in 0..MaxFailures
          /\ UNCHANGED <<trigger, helper, files, validation, stranded, broken>>
        BY <1>6, JobsAssumption DEF StartJob, Admitted, Mishap, MayFail, JobsTypeInv
    <2>2. CASE UNCHANGED <<job, child>>
        BY <2>1, <2>2 DEF JobsTypeInv, OwnerKnown, TriggerAlone, StrandedAlone, PairWhole,
           FailureHarmless,
           LateKnown, OpensClean, FilesEarlier, HalfKnown, Unreported, Living, Validating
    <2>3. CASE trigger # "running" /\ ~job.running /\ job.id # MaxJobs
        <3>1. job.id + 1 \in 0..MaxJobs
            BY <2>3, JobsAssumption DEF JobsTypeInv, JobRecords
        <3>2. /\ job' \in JobRecords /\ job'.id = job.id + 1 /\ job'.result # "SUCCESS"
              /\ how \in {"well", "survivor"} => job'.running
            <4>1. CASE how = "well"
                BY <1>6, <2>3, <3>1, <4>1 DEF StartJob, JobsTypeInv, JobRecords
            <4>2. CASE how = "survivor"
                BY <1>6, <2>3, <3>1, <4>2 DEF StartJob, JobsTypeInv, JobRecords
            <4>3. CASE how \in {"spawn", "monitor"}
                <5>1. Reset \in JobRecords /\ Reset.result = "FAILED"
                    BY DEF Reset, JobsTypeInv, JobRecords
                <5>2. job' = [Reset EXCEPT !.id = job.id + 1, !.replaces = ask = "replace"]
                    BY <1>6, <2>3, <4>3 DEF StartJob
                <5>3. QED
                    BY <3>1, <5>1, <5>2, <4>3 DEF JobRecords
            <4>4. QED
                BY <4>1, <4>2, <4>3
        <3>3. child' = [stage |-> IF how \in {"well", "survivor"} THEN "opening" ELSE "none",
                        timing |-> 0, profile |-> 0]
            BY <1>6, <2>3 DEF StartJob, Child
        <3>4. JobsTypeInv'
            BY <2>1, <3>2, <3>3, JobsAssumption DEF JobsTypeInv, ChildRecords, ChildStages
        <3>5. OwnerKnown' /\ TriggerAlone' /\ LateKnown'
            BY <2>1, <2>3, <3>2, <3>3 DEF OwnerKnown, TriggerAlone, LateKnown, Living
        <3>6. PairWhole' /\ HalfKnown' /\ StrandedAlone' /\ OpensClean'
            BY <2>1, <2>3, <3>3 DEF PairWhole, HalfKnown, StrandedAlone, OpensClean, OwnerKnown, Living
        <3>7. FailureHarmless' /\ FilesEarlier' /\ Unreported'
            BY <2>1, <3>1, <3>2, <3>3 DEF FailureHarmless, FilesEarlier, Unreported, Living,
               JobsTypeInv,
               FilePairs, JobRecords
        <3>8. QED
            BY <3>4, <3>5, <3>6, <3>7
    <2>4. QED
        BY <1>6, <2>2, <2>3 DEF StartJob
<1>7. ASSUME NEW ok \in BOOLEAN, ChildGoes(ok) PROVE JobsIInv'
    <2>1. JobsTypeInv'
        <3>1. child' \in ChildRecords
            <4>1. child' \in {Child("failing"), Child("measuring"), Child("publishing"),
                              [stage |-> "half", timing |-> files.timing, profile |-> files.profile]}
                BY <1>7 DEF ChildGoes, Child
            <4>2. QED
                BY <4>1, JobsAssumption DEF Child, ChildRecords, ChildStages, FilePairs, JobsTypeInv
        <3>2. files' \in FilePairs
            BY <1>7, JobsAssumption DEF ChildGoes, Refuses, Child, FilePairs, ChildRecords,
               JobRecords, JobsTypeInv
        <3>3. failures' \in 0..MaxFailures
            BY <1>7, JobsAssumption DEF ChildGoes, Refuses, Child, Mishap, MayFail, JobsTypeInv
        <3>4. QED
            BY <1>7, <3>1, <3>2, <3>3 DEF ChildGoes, Refuses, Child, JobsTypeInv
    <2>2. OwnerKnown' /\ TriggerAlone' /\ LateKnown'
        BY <1>7 DEF ChildGoes, Refuses, Child, JobsTypeInv, OwnerKnown, TriggerAlone, LateKnown,
           Living, Validating
    <2>3. StrandedAlone' /\ OpensClean'
        BY <1>7, StrandedFrame DEF ChildGoes
    <2>4. PairWhole' /\ HalfKnown' /\ FailureHarmless' /\ FilesEarlier' /\ Unreported'
        <3>1. PairWhole' /\ HalfKnown'
            BY <1>7 DEF ChildGoes, Refuses, Child, JobsTypeInv, JobRecords, ChildRecords, FilePairs,
               PairWhole, HalfKnown, FilesEarlier, OwnerKnown, Living
        <3>2. FailureHarmless' /\ FilesEarlier' /\ Unreported'
            BY <1>7 DEF ChildGoes, Refuses, Child, JobsTypeInv, JobRecords, ChildRecords, FilePairs,
               FailureHarmless, FilesEarlier, HalfKnown, PairWhole, OwnerKnown, Living, Unreported
        <3>3. QED
            BY <3>1, <3>2
    <2>5. QED
        BY <2>1, <2>2, <2>3, <2>4
<1>8. ASSUME NEW how \in {"well", "restored", "left"}, ChildCompletes(how) PROVE JobsIInv'
    <2>5. PICK t \in {0, files.timing, child.timing}, p \in {files.profile, child.profile, job.id} :
              files' = [files EXCEPT !.timing = t, !.profile = p]
        BY <1>8 DEF ChildCompletes, Restored, LeftBehind, FilePairs, JobsTypeInv
    <2>6. /\ child.stage = "half" /\ child' \in {Child("whole"), Child("failing")}
          /\ UNCHANGED job
        BY <1>8 DEF ChildCompletes
    <2>1. JobsTypeInv'
        <3>1. child' \in ChildRecords
            BY <1>8, JobsAssumption DEF ChildCompletes, Restored, LeftBehind, Child, ChildRecords, ChildStages,
               FilePairs, JobsTypeInv
        <3>2. files' \in FilePairs
            <4>1. t \in 0..MaxJobs /\ p \in 0..MaxJobs
                BY <2>5, NoFile DEF FilePairs, ChildRecords, JobRecords, JobsTypeInv
            <4>2. files' = [files EXCEPT !.timing = t, !.profile = p, !.going = files.going]
                BY <2>5, NoFile DEF FilePairs
            <4>3. files.going \in BOOLEAN
                BY NoFile DEF FilePairs
            <4>4. QED
                BY <4>1, <4>2, <4>3, NoFile, PairWritten
        <3>3. broken' \in [answer : BOOLEAN, pair : BOOLEAN]
            BY <1>8, JobsAssumption DEF ChildCompletes, Restored, LeftBehind, Child, JobsTypeInv
        <3>4. failures' \in 0..MaxFailures
            BY <1>8, JobsAssumption DEF ChildCompletes, Restored, LeftBehind, Child, Mishap, MayFail, JobsTypeInv
        <3>5. QED
            BY <1>8, <3>1, <3>2, <3>3, <3>4 DEF ChildCompletes, Restored, LeftBehind, Child, JobsTypeInv
    <2>2. OwnerKnown' /\ TriggerAlone' /\ LateKnown'
        BY <1>8 DEF ChildCompletes, Restored, LeftBehind, Child, JobsTypeInv, OwnerKnown, TriggerAlone, LateKnown,
           Living, Validating
    <2>3. StrandedAlone' /\ OpensClean'
        BY <1>8, StrandedFrame DEF ChildCompletes
    <2>4. PairWhole' /\ HalfKnown' /\ FailureHarmless' /\ FilesEarlier' /\ Unreported'
        <3>1. PairWhole' /\ HalfKnown'
            BY <1>8 DEF ChildCompletes, Restored, LeftBehind, Child, JobsTypeInv, JobRecords, ChildRecords,
               FilePairs, PairWhole, HalfKnown, FilesEarlier, OwnerKnown, Living
        <3>2. FilesEarlier' /\ Unreported'
            BY <2>5, <2>6, JobsAssumption
            DEF Child, JobsTypeInv, JobRecords, ChildRecords, FilePairs, FilesEarlier, HalfKnown, Living,
                Unreported
        <3>3. FailureHarmless'
            <4>1. CASE how = "restored"
                <5>1. CASE job.replaces
                    <6>1. /\ files' = [files EXCEPT !.timing = child.timing, !.profile = child.profile]
                          /\ UNCHANGED job
                        BY <1>8, <4>1, <5>1 DEF ChildCompletes, Restored
                    <6>2. files'.timing < job.id /\ files'.profile < job.id
                        BY <2>6, <6>1 DEF JobsTypeInv, FilePairs, HalfKnown
                    <6>3. QED
                        BY <2>6, <6>1, <6>2 DEF FailureHarmless, JobsTypeInv, JobRecords
                <5>2. CASE ~job.replaces
                    <6>1. files' = [files EXCEPT !.timing = 0] /\ UNCHANGED job
                        BY <1>8, <4>1, <5>2 DEF ChildCompletes, Restored
                    <6>2. files'.timing = 0 /\ files'.profile = 0 /\ job.id > 0
                        BY <2>6, <5>2, <6>1 DEF JobsTypeInv, FilePairs, HalfKnown, FilesEarlier
                    <6>3. QED
                        BY <2>6, <6>1, <6>2 DEF FailureHarmless, JobsTypeInv, JobRecords
                <5>3. QED
                    BY <5>1, <5>2
            <4>2. CASE how # "restored"
                BY <1>8, <4>2 DEF ChildCompletes, Child, JobsTypeInv, FailureHarmless
            <4>3. QED
                BY <4>1, <4>2
        <3>4. QED
            BY <3>1, <3>2, <3>3
    <2>7. QED
        BY <2>1, <2>2, <2>3, <2>4
<1>9. CASE ChildReports
    <2>1. JobsTypeInv'
        <3>1. job' \in JobRecords
            BY <1>9, JobsAssumption DEF ChildReports, Child, JobRecords, JobsTypeInv
        <3>2. child' \in ChildRecords
            BY <1>9, JobsAssumption DEF ChildReports, Child, ChildRecords, ChildStages, FilePairs,
               JobsTypeInv
        <3>3. QED
            BY <1>9, <3>1, <3>2 DEF ChildReports, Child, JobsTypeInv
    <2>2. OwnerKnown' /\ TriggerAlone' /\ LateKnown'
        BY <1>9 DEF ChildReports, Child, JobsTypeInv, OwnerKnown, TriggerAlone, LateKnown, Living,
           Validating
    <2>3. StrandedAlone' /\ OpensClean'
        BY <1>9, StrandedFrame DEF ChildReports
    <2>4. PairWhole' /\ HalfKnown' /\ FailureHarmless' /\ FilesEarlier' /\ Unreported'
        <3>1. PairWhole' /\ HalfKnown'
            BY <1>9 DEF ChildReports, Child, JobsTypeInv, JobRecords, ChildRecords, FilePairs,
               PairWhole, HalfKnown, FilesEarlier, OwnerKnown, Living
        <3>2. FailureHarmless' /\ FilesEarlier' /\ Unreported'
            BY <1>9 DEF ChildReports, Child, JobsTypeInv, JobRecords, ChildRecords, FilePairs,
               FailureHarmless, FilesEarlier, HalfKnown, PairWhole, OwnerKnown, Living, Unreported
        <3>3. QED
            BY <3>1, <3>2
    <2>5. QED
        BY <2>1, <2>2, <2>3, <2>4
<1>10. CASE Cancel
    <2>1. JobsTypeInv'
        <3>1. job' \in JobRecords
            <4> DEFINE alive == child.stage \in Living
            <4>1. job' = [job EXCEPT !.cancelled = TRUE, !.watchdog = alive] /\ alive \in BOOLEAN
                BY <1>10 DEF Cancel
            <4> HIDE DEF alive
            <4>2. QED
                BY <4>1 DEF JobRecords, JobsTypeInv
        <3>2. QED
            BY <1>10, <3>1 DEF Cancel, JobsTypeInv
    <2>2. OwnerKnown' /\ TriggerAlone' /\ LateKnown'
        BY <1>10 DEF Cancel, JobsTypeInv, OwnerKnown, TriggerAlone, LateKnown, Living, Validating
    <2>3. StrandedAlone' /\ OpensClean'
        BY <1>10, StrandedFrame DEF Cancel
    <2>4. PairWhole' /\ HalfKnown' /\ FailureHarmless' /\ FilesEarlier' /\ Unreported'
        <3>1. PairWhole' /\ HalfKnown'
            BY <1>10 DEF Cancel, JobsTypeInv, JobRecords, ChildRecords, FilePairs, PairWhole,
               HalfKnown, FilesEarlier, OwnerKnown, Living
        <3>2. FailureHarmless' /\ FilesEarlier' /\ Unreported'
            BY <1>10 DEF Cancel, JobsTypeInv, JobRecords, ChildRecords, FilePairs, FailureHarmless,
               FilesEarlier, HalfKnown, PairWhole, OwnerKnown, Living, Unreported
        <3>3. QED
            BY <3>1, <3>2
    <2>5. QED
        BY <2>1, <2>2, <2>3, <2>4
<1>11. CASE CancelAgain
    <2>1. JobsTypeInv'
        <3>1. job' \in JobRecords
            BY <1>11, JobsAssumption DEF CancelAgain, JobRecords, JobsTypeInv
        <3>2. QED
            BY <1>11, <3>1 DEF CancelAgain, JobsTypeInv
    <2>2. OwnerKnown' /\ TriggerAlone' /\ LateKnown'
        BY <1>11 DEF CancelAgain, JobsTypeInv, OwnerKnown, TriggerAlone, LateKnown, Living, Validating
    <2>3. StrandedAlone' /\ OpensClean'
        BY <1>11, StrandedFrame DEF CancelAgain
    <2>4. PairWhole' /\ HalfKnown' /\ FailureHarmless' /\ FilesEarlier' /\ Unreported'
        <3>1. PairWhole' /\ HalfKnown'
            BY <1>11 DEF CancelAgain, JobsTypeInv, JobRecords, ChildRecords, FilePairs, PairWhole,
               HalfKnown, FilesEarlier, OwnerKnown, Living
        <3>2. FailureHarmless' /\ FilesEarlier' /\ Unreported'
            BY <1>11 DEF CancelAgain, JobsTypeInv, JobRecords, ChildRecords, FilePairs,
               FailureHarmless, FilesEarlier, HalfKnown, PairWhole, OwnerKnown, Living, Unreported
        <3>3. QED
            BY <3>1, <3>2
    <2>5. QED
        BY <2>1, <2>2, <2>3, <2>4
<1>12. ASSUME NEW ok \in BOOLEAN, Watchdog(ok) PROVE JobsIInv'
    <2>1. JobsTypeInv'
        <3>1. job' \in JobRecords
            BY <1>12, JobsAssumption DEF Watchdog, Releases, Child, JobRecords, JobsTypeInv
        <3>2. child' \in ChildRecords
            BY <1>12, JobsAssumption DEF Watchdog, Releases, Child, ChildRecords, ChildStages,
               FilePairs, JobsTypeInv
        <3>3. broken' \in [answer : BOOLEAN, pair : BOOLEAN]
            BY <1>12, JobsAssumption DEF Watchdog, Releases, Child, JobsTypeInv
        <3>4. failures' \in 0..MaxFailures
            BY <1>12, JobsAssumption DEF Watchdog, Releases, Child, Mishap, MayFail, JobsTypeInv
        <3>5. QED
            BY <1>12, <3>1, <3>2, <3>3, <3>4 DEF Watchdog, Releases, Child, JobsTypeInv
    <2>2. OwnerKnown' /\ TriggerAlone' /\ LateKnown'
        <3>1. CASE ok
            <4>1. child'.stage \notin Living
                BY <1>12, <3>1 DEF Watchdog, Child, Living
            <4>2. QED
                BY <1>12, <3>1, <4>1 DEF Watchdog, JobsTypeInv, OwnerKnown, TriggerAlone, LateKnown,
                   Validating
        <3>2. CASE ~ok
            <4>1. job'.running = job.running /\ child' = child
                BY <1>12, <3>2 DEF Watchdog, Releases, JobsTypeInv, JobRecords
            <4>2. QED
                BY <1>12, <4>1, <3>2 DEF Watchdog, OwnerKnown, TriggerAlone, LateKnown, Validating
        <3>3. QED
            BY <3>1, <3>2
    <2>3. StrandedAlone' /\ OpensClean'
        BY <1>12, StrandedFrame DEF Watchdog
    <2>4. PairWhole' /\ HalfKnown' /\ FailureHarmless' /\ FilesEarlier' /\ Unreported'
        <3>1. PairWhole' /\ HalfKnown'
            BY <1>12 DEF Watchdog, Releases, Child, JobsTypeInv, JobRecords, ChildRecords, FilePairs,
               PairWhole, HalfKnown, FilesEarlier, OwnerKnown, Living
        <3>2. FailureHarmless' /\ FilesEarlier' /\ Unreported'
            BY <1>12 DEF Watchdog, Releases, Child, JobsTypeInv, JobRecords, ChildRecords, FilePairs,
               FailureHarmless, FilesEarlier, HalfKnown, PairWhole, OwnerKnown, Living, Unreported
        <3>3. QED
            BY <3>1, <3>2
    <2>5. QED
        BY <2>1, <2>2, <2>3, <2>4
<1>13. CASE ChildCrashes
    <2>1. JobsTypeInv'
        <3>1. child' \in ChildRecords
            BY <1>13, JobsAssumption DEF ChildCrashes, Child, ChildRecords, ChildStages, FilePairs,
               JobsTypeInv
        <3>2. broken' \in [answer : BOOLEAN, pair : BOOLEAN]
            BY <1>13, JobsAssumption DEF ChildCrashes, Child, JobsTypeInv
        <3>3. failures' \in 0..MaxFailures
            BY <1>13, JobsAssumption DEF ChildCrashes, Child, Mishap, MayFail, JobsTypeInv
        <3>4. QED
            BY <1>13, <3>1, <3>2, <3>3 DEF ChildCrashes, Child, JobsTypeInv
    <2>2. OwnerKnown' /\ TriggerAlone' /\ LateKnown'
        BY <1>13 DEF ChildCrashes, Child, JobsTypeInv, OwnerKnown, TriggerAlone, LateKnown, Living,
           Validating
    <2>3. StrandedAlone' /\ OpensClean'
        BY <1>13, StrandedFrame DEF ChildCrashes
    <2>4. PairWhole' /\ HalfKnown' /\ FailureHarmless' /\ FilesEarlier' /\ Unreported'
        <3>1. PairWhole' /\ HalfKnown'
            BY <1>13 DEF ChildCrashes, Child, JobsTypeInv, JobRecords, ChildRecords, FilePairs,
               PairWhole, HalfKnown, FilesEarlier, OwnerKnown, Living
        <3>2. FailureHarmless' /\ FilesEarlier' /\ Unreported'
            BY <1>13 DEF ChildCrashes, Child, JobsTypeInv, JobRecords, ChildRecords, FilePairs,
               FailureHarmless, FilesEarlier, HalfKnown, PairWhole, OwnerKnown, Living, Unreported
        <3>3. QED
            BY <3>1, <3>2
    <2>5. QED
        BY <2>1, <2>2, <2>3, <2>4
<1>14. CASE Monitor
    <2>1. JobsTypeInv'
        <3>1. job' \in JobRecords
            BY <1>14, JobsAssumption DEF Monitor, Child, JobRecords, JobsTypeInv
        <3>2. child' \in ChildRecords
            BY <1>14, JobsAssumption DEF Monitor, Child, ChildRecords, ChildStages, FilePairs,
               JobsTypeInv
        <3>3. QED
            BY <1>14, <3>1, <3>2 DEF Monitor, Child, JobsTypeInv
    <2>2. OwnerKnown' /\ TriggerAlone' /\ LateKnown'
        BY <1>14 DEF Monitor, Child, JobsTypeInv, OwnerKnown, TriggerAlone, LateKnown, Living,
           Validating
    <2>3. StrandedAlone' /\ OpensClean'
        BY <1>14, StrandedFrame DEF Monitor
    <2>4. PairWhole' /\ HalfKnown' /\ FailureHarmless' /\ FilesEarlier' /\ Unreported'
        <3>1. PairWhole' /\ HalfKnown'
            BY <1>14 DEF Monitor, Child, JobsTypeInv, JobRecords, ChildRecords, FilePairs, PairWhole,
               HalfKnown, FilesEarlier, OwnerKnown, Living
        <3>2. FailureHarmless' /\ FilesEarlier' /\ Unreported'
            BY <1>14 DEF Monitor, Child, JobsTypeInv, JobRecords, ChildRecords, FilePairs,
               FailureHarmless, FilesEarlier, HalfKnown, PairWhole, OwnerKnown, Living, Unreported
        <3>3. QED
            BY <3>1, <3>2
    <2>5. QED
        BY <2>1, <2>2, <2>3, <2>4
<1>15. ASSUME NEW ok \in BOOLEAN, Prepare(ok) PROVE JobsIInv'
    <2>1. JobsTypeInv'
        <3>1. asked' \subseteq Asks
            BY <1>15, JobsAssumption DEF Prepare, CleanupRetried, Admitted, Validating, Asks,
               JobsTypeInv
        <3>2. validation' \in Validations
            BY <1>15, JobsAssumption DEF Prepare, CleanupRetried, Admitted, Validating, Validations,
               Verdicts, JobsTypeInv
        <3>3. stranded' \in BOOLEAN
            BY <1>15, JobsAssumption DEF Prepare, CleanupRetried, Admitted, Validating, Validations,
               JobsTypeInv
        <3>4. failures' \in 0..MaxFailures
            BY <1>15, JobsAssumption DEF Prepare, CleanupRetried, Admitted, Validating, Mishap,
               MayFail, JobsTypeInv
        <3>5. QED
            BY <1>15, <3>1, <3>2, <3>3, <3>4 DEF Prepare, CleanupRetried, Admitted, Validating,
               JobsTypeInv
    <2>2. OwnerKnown' /\ TriggerAlone' /\ LateKnown'
        BY <1>15 DEF Prepare, CleanupRetried, Admitted, Validating, JobsTypeInv, OwnerKnown,
           TriggerAlone, LateKnown, Living, Validating
    <2>3. StrandedAlone' /\ OpensClean'
        BY <1>15 DEF Prepare, CleanupRetried, Admitted, Validating, JobsTypeInv, Validations,
           StrandedAlone, OpensClean
    <2>4. PairWhole' /\ HalfKnown' /\ FailureHarmless' /\ FilesEarlier' /\ Unreported'
        BY <1>15, FilesFrame DEF Prepare
    <2>5. QED
        BY <2>1, <2>2, <2>3, <2>4
<1>16. ASSUME NEW ok \in BOOLEAN, StartValidation(ok) PROVE JobsIInv'
    <2>1. JobsTypeInv'
        <3>1. asked' \subseteq Asks
            BY <1>16, JobsAssumption DEF StartValidation, CleanupRetried, Admitted, Asks, JobsTypeInv
        <3>2. validation' \in Validations
            BY <1>16, JobsAssumption DEF StartValidation, CleanupRetried, Admitted, Validations,
               Verdicts, JobsTypeInv
        <3>3. stranded' \in BOOLEAN
            BY <1>16, JobsAssumption DEF StartValidation, CleanupRetried, Admitted, Validations,
               JobsTypeInv
        <3>4. failures' \in 0..MaxFailures
            BY <1>16, JobsAssumption DEF StartValidation, CleanupRetried, Admitted, Mishap, MayFail,
               JobsTypeInv
        <3>5. QED
            BY <1>16, <3>1, <3>2, <3>3, <3>4 DEF StartValidation, CleanupRetried, Admitted, JobsTypeInv
    <2>2. OwnerKnown' /\ TriggerAlone' /\ LateKnown'
        BY <1>16 DEF StartValidation, CleanupRetried, Admitted, JobsTypeInv, OwnerKnown, TriggerAlone,
           LateKnown, Living, Validating
    <2>3. StrandedAlone' /\ OpensClean'
        BY <1>16 DEF StartValidation, CleanupRetried, Admitted, JobsTypeInv, Validations,
           StrandedAlone, OpensClean
    <2>4. PairWhole' /\ HalfKnown' /\ FailureHarmless' /\ FilesEarlier' /\ Unreported'
        BY <1>16, FilesFrame DEF StartValidation
    <2>5. QED
        BY <2>1, <2>2, <2>3, <2>4
<1>17. CASE CancelValidation
    <2>1. JobsTypeInv'
        <3>1. validation' \in Validations
            BY <1>17, JobsAssumption DEF CancelValidation, Validations, Verdicts, JobsTypeInv
        <3>2. QED
            BY <1>17, <3>1 DEF CancelValidation, JobsTypeInv
    <2>2. OwnerKnown' /\ TriggerAlone' /\ LateKnown'
        BY <1>17 DEF CancelValidation, JobsTypeInv, OwnerKnown, TriggerAlone, LateKnown, Living,
           Validating
    <2>3. StrandedAlone' /\ OpensClean'
        BY <1>17 DEF CancelValidation, JobsTypeInv, Validations, StrandedAlone, OpensClean
    <2>4. PairWhole' /\ HalfKnown' /\ FailureHarmless' /\ FilesEarlier' /\ Unreported'
        BY <1>17, FilesFrame DEF CancelValidation
    <2>5. QED
        BY <2>1, <2>2, <2>3, <2>4
<1>18. ASSUME NEW kind \in {"rig", "temporary"}, NEW how \in {"well", "closed", "stuck"},
              OpenRuntime(kind, how)
       PROVE JobsIInv'
    <2>1. JobsTypeInv'
        <3>1. validation' \in Validations
            BY <1>18, JobsAssumption DEF OpenRuntime, Validations, Verdicts, JobsTypeInv
        <3>2. stranded' \in BOOLEAN
            BY <1>18, JobsAssumption DEF OpenRuntime, Validations, JobsTypeInv
        <3>3. failures' \in 0..MaxFailures
            BY <1>18, JobsAssumption DEF OpenRuntime, Mishap, MayFail, JobsTypeInv
        <3>4. QED
            BY <1>18, <3>1, <3>2, <3>3 DEF OpenRuntime, JobsTypeInv
    <2>2. OwnerKnown' /\ TriggerAlone' /\ LateKnown'
        BY <1>18 DEF OpenRuntime, JobsTypeInv, OwnerKnown, TriggerAlone, LateKnown, Living, Validating
    <2>3. StrandedAlone' /\ OpensClean'
        BY <1>18 DEF OpenRuntime, JobsTypeInv, Validations, StrandedAlone, OpensClean
    <2>4. PairWhole' /\ HalfKnown' /\ FailureHarmless' /\ FilesEarlier' /\ Unreported'
        BY <1>18, FilesFrame DEF OpenRuntime
    <2>5. QED
        BY <2>1, <2>2, <2>3, <2>4
<1>19. ASSUME NEW verdict \in {"PASS", "FAIL"}, RunRecipe(verdict) PROVE JobsIInv'
    <2>1. JobsTypeInv'
        <3>1. validation' \in Validations
            BY <1>19, JobsAssumption DEF RunRecipe, Validations, Verdicts, JobsTypeInv
        <3>2. failures' \in 0..MaxFailures
            BY <1>19, JobsAssumption DEF RunRecipe, Mishap, MayFail, JobsTypeInv
        <3>3. QED
            BY <1>19, <3>1, <3>2 DEF RunRecipe, JobsTypeInv
    <2>2. OwnerKnown' /\ TriggerAlone' /\ LateKnown'
        BY <1>19 DEF RunRecipe, JobsTypeInv, OwnerKnown, TriggerAlone, LateKnown, Living, Validating
    <2>3. StrandedAlone' /\ OpensClean'
        BY <1>19 DEF RunRecipe, JobsTypeInv, Validations, StrandedAlone, OpensClean
    <2>4. PairWhole' /\ HalfKnown' /\ FailureHarmless' /\ FilesEarlier' /\ Unreported'
        BY <1>19, FilesFrame DEF RunRecipe
    <2>5. QED
        BY <2>1, <2>2, <2>3, <2>4
<1>20. ASSUME NEW ok \in BOOLEAN, NEW crashes \in BOOLEAN, CloseValidation(ok, crashes) PROVE JobsIInv'
    <2>1. JobsTypeInv'
        <3>1. validation' \in Validations
            BY <1>20, JobsAssumption DEF CloseValidation, Validations, Verdicts, JobsTypeInv
        <3>2. stranded' \in BOOLEAN
            BY <1>20, JobsAssumption DEF CloseValidation, Validations, JobsTypeInv
        <3>3. failures' \in 0..MaxFailures
            BY <1>20, JobsAssumption DEF CloseValidation, Mishap, MayFail, JobsTypeInv
        <3>4. QED
            BY <1>20, <3>1, <3>2, <3>3 DEF CloseValidation, JobsTypeInv
    <2>2. OwnerKnown' /\ TriggerAlone' /\ LateKnown'
        BY <1>20 DEF CloseValidation, JobsTypeInv, OwnerKnown, TriggerAlone, LateKnown, Living,
           Validating
    <2>3. StrandedAlone' /\ OpensClean'
        BY <1>20 DEF CloseValidation, JobsTypeInv, Validations, StrandedAlone, OpensClean
    <2>4. PairWhole' /\ HalfKnown' /\ FailureHarmless' /\ FilesEarlier' /\ Unreported'
        BY <1>20, FilesFrame DEF CloseValidation
    <2>5. QED
        BY <2>1, <2>2, <2>3, <2>4
<1>21. CASE DeleteProfile
    <2>1. JobsTypeInv'
        <3>1. files' \in FilePairs
            <4>1. PICK t \in {0, files.timing}, p \in {0, files.profile}, g \in BOOLEAN :
                      files' = [files EXCEPT !.timing = t, !.profile = p, !.going = g]
                BY <1>21 DEF DeleteProfile, FilePairs, JobsTypeInv
            <4>2. QED
                <5>1. t \in 0..MaxJobs /\ p \in 0..MaxJobs
                    BY <4>1, NoFile DEF FilePairs
                <5>2. QED
                    BY <4>1, <5>1, NoFile, PairWritten
        <3>2. QED
            BY <1>21, <3>1 DEF DeleteProfile, JobsTypeInv
    <2>2. OwnerKnown' /\ TriggerAlone' /\ LateKnown'
        BY <1>21, ApartFrame DEF DeleteProfile
    <2>3. StrandedAlone' /\ OpensClean'
        BY <1>21, StrandedFrame DEF DeleteProfile
    <2>4. PairWhole' /\ HalfKnown' /\ FailureHarmless' /\ FilesEarlier' /\ Unreported'
        <3>1. PairWhole' /\ HalfKnown'
            BY <1>21 DEF DeleteProfile, JobsTypeInv, JobRecords, ChildRecords, FilePairs, PairWhole,
               HalfKnown, FilesEarlier, OwnerKnown, Living
        <3>2. FailureHarmless' /\ FilesEarlier' /\ Unreported'
            BY <1>21 DEF DeleteProfile, JobsTypeInv, JobRecords, ChildRecords, FilePairs,
               FailureHarmless, FilesEarlier, HalfKnown, PairWhole, OwnerKnown, Living, Unreported
        <3>3. QED
            BY <3>1, <3>2
    <2>5. QED
        BY <2>1, <2>2, <2>3, <2>4
<1>22. ASSUME NEW ok \in BOOLEAN, DeleteTiming(ok) PROVE JobsIInv'
    <2>1. JobsTypeInv'
        <3>1. files' \in FilePairs
            <4>1. PICK t \in {0, files.timing}, p \in {0, files.profile}, g \in BOOLEAN :
                      files' = [files EXCEPT !.timing = t, !.profile = p, !.going = g]
                BY <1>22 DEF DeleteTiming, FilePairs, JobsTypeInv
            <4>2. QED
                <5>1. t \in 0..MaxJobs /\ p \in 0..MaxJobs
                    BY <4>1, NoFile DEF FilePairs
                <5>2. QED
                    BY <4>1, <5>1, NoFile, PairWritten
        <3>2. failures' \in 0..MaxFailures
            BY <1>22, JobsAssumption DEF DeleteTiming, Mishap, MayFail, JobsTypeInv
        <3>3. QED
            BY <1>22, <3>1, <3>2 DEF DeleteTiming, JobsTypeInv
    <2>2. OwnerKnown' /\ TriggerAlone' /\ LateKnown'
        BY <1>22 DEF DeleteTiming, JobsTypeInv, OwnerKnown, TriggerAlone, LateKnown, Living, Validating
    <2>3. StrandedAlone' /\ OpensClean'
        BY <1>22, StrandedFrame DEF DeleteTiming
    <2>4. PairWhole' /\ HalfKnown' /\ FailureHarmless' /\ FilesEarlier' /\ Unreported'
        <3>1. PairWhole' /\ HalfKnown'
            BY <1>22 DEF DeleteTiming, JobsTypeInv, JobRecords, ChildRecords, FilePairs, PairWhole,
               HalfKnown, FilesEarlier, OwnerKnown, Living
        <3>2. FailureHarmless' /\ FilesEarlier' /\ Unreported'
            BY <1>22 DEF DeleteTiming, JobsTypeInv, JobRecords, ChildRecords, FilePairs,
               FailureHarmless, FilesEarlier, HalfKnown, PairWhole, OwnerKnown, Living, Unreported
        <3>3. QED
            BY <3>1, <3>2
    <2>5. QED
        BY <2>1, <2>2, <2>3, <2>4
<1>23. CASE ChildStumbles
    <2>1. JobsTypeInv'
        <3>1. files' \in FilePairs
            BY <1>23, JobsAssumption DEF ChildStumbles, Refuses, Child, FilePairs, ChildRecords, JobRecords, JobsTypeInv
        <3>2. child' \in ChildRecords
            BY <1>23, JobsAssumption DEF ChildStumbles, Child, ChildRecords, ChildStages, FilePairs,
               JobsTypeInv
        <3>3. failures' \in 0..MaxFailures
            BY <1>23, JobsAssumption DEF ChildStumbles, Mishap, JobsTypeInv
        <3>4. QED
            BY <1>23, <3>1, <3>2, <3>3 DEF ChildStumbles, JobsTypeInv
    <2>2. OwnerKnown' /\ TriggerAlone' /\ LateKnown'
        BY <1>23 DEF ChildStumbles, Child, JobsTypeInv, OwnerKnown, TriggerAlone, LateKnown, Living,
           Validating
    <2>3. StrandedAlone' /\ OpensClean'
        BY <1>23, StrandedFrame DEF ChildStumbles, Refuses, Child
    <2>4. PairWhole' /\ HalfKnown' /\ FailureHarmless' /\ FilesEarlier' /\ Unreported'
        <3>1. PairWhole' /\ HalfKnown'
            BY <1>23 DEF ChildStumbles, Refuses, Child, JobsTypeInv, JobRecords, ChildRecords, FilePairs, PairWhole,
               HalfKnown, FilesEarlier, OwnerKnown, Living
        <3>2. FailureHarmless' /\ FilesEarlier' /\ Unreported'
            BY <1>23 DEF ChildStumbles, Refuses, Child, JobsTypeInv, JobRecords, ChildRecords, FilePairs,
               FailureHarmless, FilesEarlier, HalfKnown, PairWhole, OwnerKnown, Living, Unreported
        <3>3. QED
            BY <3>1, <3>2
    <2>5. QED
        BY <2>1, <2>2, <2>3, <2>4
<1>25. CASE PortalDies
    <2>1. JobsTypeInv'
        <3>1. asked' \subseteq Asks
            BY <1>25, JobsAssumption DEF PortalDies, Child, Asks, JobsTypeInv
        <3>2. job' \in JobRecords
            BY <1>25, JobsAssumption DEF PortalDies, Child, JobRecords, JobsTypeInv
        <3>3. child' \in ChildRecords
            BY <1>25, JobsAssumption DEF PortalDies, Child, ChildRecords, ChildStages, FilePairs,
               JobsTypeInv
        <3>4. validation' \in Validations
            BY <1>25, JobsAssumption DEF PortalDies, Child, Validations, Verdicts, JobsTypeInv
        <3>5. stranded' \in BOOLEAN
            BY <1>25, JobsAssumption DEF PortalDies, Child, Validations, JobsTypeInv
        <3>6. broken' \in [answer : BOOLEAN, pair : BOOLEAN]
            BY <1>25, JobsAssumption DEF PortalDies, Child, JobsTypeInv
        <3>7. failures' \in 0..MaxFailures
            BY <1>25, JobsAssumption DEF PortalDies, Child, Mishap, MayFail, JobsTypeInv
        <3>8. files' \in FilePairs
            BY <1>25 DEF PortalDies, FilePairs, JobsTypeInv
        <3>9. QED
            BY <1>25, <3>1, <3>2, <3>3, <3>4, <3>5, <3>6, <3>7, <3>8 DEF PortalDies, JobsTypeInv
    <2>2. OwnerKnown' /\ TriggerAlone' /\ LateKnown'
        BY <1>25 DEF PortalDies, Child, JobsTypeInv, OwnerKnown, TriggerAlone, LateKnown, Living,
           Validating
    <2>3. StrandedAlone' /\ OpensClean'
        BY <1>25 DEF PortalDies, Child, JobsTypeInv, Validations, StrandedAlone, OpensClean
    <2>4. PairWhole' /\ HalfKnown' /\ FailureHarmless' /\ FilesEarlier' /\ Unreported'
        <3>1. PairWhole' /\ HalfKnown'
            BY <1>25 DEF PortalDies, Child, JobsTypeInv, JobRecords, ChildRecords, FilePairs,
               PairWhole, HalfKnown, FilesEarlier, OwnerKnown, Living
        <3>2. FailureHarmless' /\ FilesEarlier' /\ Unreported'
            BY <1>25 DEF PortalDies, Child, JobsTypeInv, JobRecords, ChildRecords, FilePairs,
               FailureHarmless, FilesEarlier, HalfKnown, PairWhole, OwnerKnown, Living, Unreported
        <3>3. QED
            BY <3>1, <3>2
    <2>5. QED
        BY <2>1, <2>2, <2>3, <2>4
<1>26. CASE UNCHANGED jobsVars
    BY <1>26 DEF jobsVars, JobsTypeInv, OwnerKnown, TriggerAlone, StrandedAlone, PairWhole,
       FailureHarmless, LateKnown, OpensClean, FilesEarlier, HalfKnown, Unreported, Living, Validating
<1>27. QED
    BY <1>1, <1>2, <1>3, <1>4, <1>5, <1>6, <1>7, <1>8, <1>9, <1>10, <1>11, <1>12, <1>13, <1>14, <1>15,
       <1>16, <1>17, <1>18, <1>19, <1>20, <1>21, <1>22, <1>23, <1>25, <1>26 DEF JobsNext

\* A process that may have the camera open is known, the Trigger, the camera jobs and the maintenance
\* keep apart, and the pair of files of a camera is whole (JobsSafe, with the exceptions it names).
THEOREM JobsAreSafe == JobsSpec => []JobsSafe
<1>1. JobsIInv => JobsSafe
    BY DEF JobsIInv
<1>2. QED
    BY JobsInitially, JobsStep, <1>1, PTL DEF JobsSpec

(* ---- The clock ---- *)

Record == [synced : BOOLEAN, sync : 0..MaxSyncs, busy : BOOLEAN]
Kinds ==
    /\ portal \in Record /\ disk \in Record
    /\ daemon \in [gps : Record, marker : 0..MaxSyncs]
    /\ poll \in [at : {"idle", "answered"}, gps : Record]
    /\ receiver \in [at : {"idle", "acquire", "adjusted", "published"}, mode : Modes]
    /\ sequence \in [active : BOOLEAN, sync : 0..MaxSyncs]
    /\ gate \in {"open", "checked", "locked", "orphan"}
    /\ tally \in [syncs : 0..MaxSyncs, restarts : Nat, before : 0..MaxSyncs]

\* Nothing of an earlier boot is left in a process: a copy in memory has no synchronization, or one
\* made since. The file may have an old one, but then the runtime found it when it started.
Recent(sync) == sync = 0 \/ sync > tally.before
ClocksRecent ==
    /\ Recent(portal.sync) /\ Recent(daemon.gps.sync) /\ Recent(poll.gps.sync)
    /\ Recent(disk.sync) \/ disk.sync = daemon.marker
    /\ tally.before <= tally.syncs
    /\ receiver.at \in {"adjusted", "published"} /\ SetsTime(receiver.mode) => tally.syncs > tally.before
\* Only the portal's own record says that a synchronization goes on.
BusyHere == ~poll.gps.busy /\ ~daemon.gps.busy /\ (receiver.at = "published" => ~portal.busy)
AuthorityIInv == Kinds /\ ClocksRecent /\ BusyHere /\ ClockOfThisBoot

\* The invariant holds at the start.
LEMMA AuthorityInitially == AuthorityInit => AuthorityIInv
BY AuthorityAssumption
DEF AuthorityInit, AuthorityIInv, Kinds, Record, ClocksRecent, BusyHere, Recent, ClockOfThisBoot, Unsynced, Modes

\* What the runtime takes from the file is recent, and so is what it had.
LEMMA RefreshedRecent ==
    ASSUME AuthorityIInv
    PROVE  Refreshed \in Record /\ Recent(Refreshed.sync) /\ ~Refreshed.busy
BY DEF AuthorityIInv, Kinds, Record, ClocksRecent, Recent, Refreshed, Loaded, Trusted

\* Every step keeps the invariant.
LEMMA AuthorityStep == AuthorityIInv /\ [AuthorityNext]_authorityVars => AuthorityIInv'
<1> SUFFICES ASSUME AuthorityIInv, [AuthorityNext]_authorityVars PROVE AuthorityIInv'
    OBVIOUS
<1> USE AuthorityAssumption DEF AuthorityIInv, Kinds, ClocksRecent, BusyHere, Recent, ClockOfThisBoot
<1>1. ASSUME NEW mode \in Modes, StartSync(mode) PROVE AuthorityIInv'
    <2>1. portal' \in Record /\ portal'.sync = portal.sync
        BY <1>1 DEF StartSync, Record
    <2>2. receiver'.at = "acquire"
        BY <1>1 DEF StartSync
    <2>3. QED
        BY <1>1, <2>1, <2>2 DEF StartSync
<1>2. CASE AdjustClock
    BY <1>2 DEF AdjustClock, SetsTime
<1>3. CASE PublishSync
    BY <1>3 DEF PublishSync, Record
<1>4. CASE SaveSync
    BY <1>4 DEF SaveSync
<1>5. CASE FailSync
    <2>1. portal' \in Record /\ portal'.sync = portal.sync
        BY <1>5 DEF FailSync, Record, SetsTime
    <2>2. receiver'.at = "idle"
        BY <1>5 DEF FailSync
    <2>3. QED
        BY <1>5, <2>1, <2>2 DEF FailSync
<1>6. CASE StateSet
    <2>1. tally.syncs + 1 \in 0..MaxSyncs /\ tally.syncs \in 0..MaxSyncs
        BY <1>6 DEF StateSet
    <2>2. portal' = [synced |-> TRUE, sync |-> tally.syncs + 1, busy |-> portal.busy]
        BY <1>6 DEF StateSet, Record
    <2>3. portal' \in Record /\ portal'.sync = tally.syncs + 1 /\ portal'.busy = portal.busy
        BY <2>1, <2>2 DEF Record
    <2>4. tally' = [syncs |-> tally.syncs + 1, restarts |-> tally.restarts, before |-> tally.before]
        BY <1>6 DEF StateSet
    <2>5. UNCHANGED <<disk, daemon, receiver, poll, gate, sequence>>
        BY <1>6 DEF StateSet
    <2>6. tally' \in [syncs : 0..MaxSyncs, restarts : Nat, before : 0..MaxSyncs]
        BY <2>1, <2>4
    <2>7. Kinds'
        BY <2>3, <2>5, <2>6
    <2>8. tally'.syncs = tally.syncs + 1 /\ tally'.before = tally.before
        BY <2>4
    <2>9. tally.before \in Int /\ tally.syncs \in Int
        OBVIOUS
    <2>10. ClocksRecent'
        <3>1. Recent(portal.sync)' /\ tally'.before <= tally'.syncs
            BY <2>3, <2>8, <2>9
        <3>2. /\ Recent(daemon.gps.sync)' /\ Recent(poll.gps.sync)'
              /\ (Recent(disk.sync)' \/ disk'.sync = daemon'.marker)
            BY <2>5, <2>8
        <3>3. receiver'.at \in {"adjusted", "published"} /\ SetsTime(receiver'.mode) => tally'.syncs > tally'.before
            BY <2>5, <2>8, <2>9
        <3>4. QED
            BY <3>1, <3>2, <3>3
    <2>11. BusyHere' /\ ClockOfThisBoot'
        BY <2>3, <2>5, <2>8
    <2>12. QED
        BY <2>7, <2>10, <2>11
<1>7. CASE SaveState
    BY <1>7 DEF SaveState
<1>8. CASE AnswerStatus
    BY <1>8, RefreshedRecent DEF AnswerStatus
<1>9. CASE StoreStatus
    BY <1>9 DEF StoreStatus, Unsynced, Record
<1>10. CASE CheckStart \/ LockStart \/ StartRefused
    BY <1>10 DEF CheckStart, LockStart, StartRefused
<1>11. CASE RuntimeStarts
    <2>1. daemon'.gps = Refreshed /\ daemon'.marker = daemon.marker
        BY <1>11 DEF RuntimeStarts
    <2>2. ValidGps(Refreshed) => Refreshed.sync > tally.before
        BY RefreshedRecent DEF ValidGps
    <2>3. sequence' \in [active : BOOLEAN, sync : 0..MaxSyncs] /\ ClockOfThisBoot'
        BY <1>11, <2>2, RefreshedRecent DEF RuntimeStarts, Record
    <2>4. daemon' \in [gps : Record, marker : 0..MaxSyncs]
        BY <1>11, RefreshedRecent DEF RuntimeStarts
    <2>5. QED
        BY <1>11, <2>1, <2>3, <2>4, RefreshedRecent DEF RuntimeStarts
<1>12. CASE RunEnds
    BY <1>12 DEF RunEnds
<1>13. CASE PortalRestarts
    BY <1>13 DEF PortalRestarts, PortalAnew, Unsynced, Record
<1>14. CASE RuntimeRestarts
    BY <1>14 DEF RuntimeRestarts, RuntimeAnew, Marker, Unsynced, Record
<1>15. CASE MachineBoots
    <2>1. /\ portal' = Unsynced /\ poll' = [at |-> "idle", gps |-> Unsynced] /\ disk' = disk
          /\ receiver' = [receiver EXCEPT !.at = "idle"]
          /\ daemon' = [gps |-> Unsynced, marker |-> disk.sync]
          /\ sequence' = [active |-> FALSE, sync |-> 0]
        BY <1>15 DEF MachineBoots, PortalAnew, RuntimeAnew, Marker
    <2>2. tally' = [syncs |-> tally.syncs, restarts |-> tally.restarts + 1, before |-> tally.syncs]
        BY <1>15 DEF MachineBoots
    <2>3. Unsynced \in Record /\ Unsynced.sync = 0 /\ ~Unsynced.busy
        BY DEF Unsynced, Record
    <2>4. receiver' \in [at : {"idle"}, mode : Modes] /\ poll' \in [at : {"idle"}, gps : Record]
        BY <2>1, <2>3
    <2>5. Kinds' /\ ClockOfThisBoot'
        <3>1. daemon' \in [gps : Record, marker : 0..MaxSyncs] /\ sequence' \in [active : BOOLEAN, sync : 0..MaxSyncs]
            BY <2>1, <2>3 DEF Record
        <3>2. tally' \in [syncs : 0..MaxSyncs, restarts : Nat, before : 0..MaxSyncs]
            BY <2>2
        <3>3. gate' = "open" /\ portal' \in Record /\ disk' \in Record
            BY <1>15, <2>1, <2>3 DEF MachineBoots
        <3>4. ~sequence'.active
            BY <2>1
        <3>5. QED
            BY <2>4, <3>1, <3>2, <3>3, <3>4
    <2>6. Recent(disk.sync)' \/ disk'.sync = daemon'.marker
        BY <2>1
    <2>7. tally'.before <= tally'.syncs /\ receiver'.at \in {"idle"}
        BY <2>1, <2>2
    <2>8. ClocksRecent'
        BY <2>1, <2>3, <2>6, <2>7
    <2>9. BusyHere'
        BY <2>1, <2>3, <2>7
    <2>10. QED
        BY <2>5, <2>8, <2>9
<1>16. CASE UNCHANGED authorityVars
    BY <1>16 DEF authorityVars
<1>17. QED
    BY <1>1, <1>2, <1>3, <1>4, <1>5, <1>6, <1>7, <1>8, <1>9, <1>10, <1>11, <1>12, <1>13, <1>14,
       <1>15, <1>16 DEF AuthorityNext

\* No run is active on a synchronization made before the machine's last boot, whatever was saved,
\* lost or polled since (runtime_daemon.py:489).
THEOREM ClockIsOfThisBoot == AuthoritySpec => []ClockOfThisBoot
<1>1. AuthorityIInv => ClockOfThisBoot
    BY DEF AuthorityIInv
<1>2. QED
    BY AuthorityInitially, AuthorityStep, <1>1, PTL DEF AuthoritySpec

(* ---- The hardware ---- *)
Requests == [at : {"none", "cameras", "mounts", "passed", "rpc", "asked"}, rigs : SUBSET Rigs,
             start : BOOLEAN, batch : SUBSET Rigs, token : Nat]
Issued == [id : Nat, rig : Rigs, batch : SUBSET Rigs, seen : Nat \X Nat]
PreflightKinds ==
    /\ fix \in 0..MaxFixes /\ counts \in [issues : Nat, changes : 0..MaxChanges, deaths : Nat]
    /\ setup \in [Rigs -> 0..MaxChanges] /\ \A r \in Rigs : setup[r] <= counts.changes
    /\ passed \in [Parts -> [Rigs -> -1..MaxChanges]] /\ active \in SUBSET Rigs
    /\ owner \in Requests /\ owner.at # "asked" /\ owner.token <= counts.issues
    /\ waiting \in Requests /\ waiting.at \in {"none", "asked"} /\ waiting.token <= counts.issues
    /\ tokens \subseteq Issued
    /\ \A t \in tokens : t.id \in 1..counts.issues /\ t.rig \in t.batch
    /\ spent \subseteq (1..counts.issues) \X SUBSET Rigs
\* How far the request that has the lock is says what has passed, also with the whole batch of a token.
OwnerFit ==
    /\ owner.at \in {"cameras", "mounts", "passed"} => owner.batch = owner.rigs /\ owner.token = 0
    /\ owner.at = "mounts" => \A r \in owner.rigs : passed["camera"][r] = setup[r]
    /\ owner.at \in {"passed", "rpc"} =>
        (\A r \in owner.rigs : Fit(r)) /\ (\A r \in owner.batch : Tried(r))
\* A token of the present configuration is of hardware that passed with it.
TokensFit ==
    \A t \in tokens :
        /\ t.seen[2] <= setup[t.rig] /\ (t.seen[2] = setup[t.rig] => Fit(t.rig))
        /\ \A r \in t.batch : Tried(r)
\* A token that may still be used has not been.
TokensFresh ==
    /\ \A t \in tokens : <<t.id, {t.rig}>> \notin spent
    /\ owner.at = "rpc" /\ owner.token # 0 =>
        /\ <<owner.token, owner.rigs>> \notin spent
        /\ \A t \in tokens : ~(t.id = owner.token /\ {t.rig} = owner.rigs)
PreflightIInv == PreflightKinds /\ OwnerFit /\ TokensFit /\ TokensFresh /\ PreflightSafe

\* The invariant holds at the start.
LEMMA PreflightInitially == PreflightInit => PreflightIInv
<1> SUFFICES ASSUME PreflightInit PROVE PreflightIInv
    OBVIOUS
<1>1. NoRequest \in Requests /\ NoRequest.at = "none" /\ NoRequest.token = 0
    BY DEF NoRequest, Requests
<1>2. {MaxFixes, MaxIssues, MaxChanges, MaxDeaths} \subseteq Nat
    BY PreflightAssumption
<1>3. counts = [issues |-> 0, changes |-> 0, deaths |-> 0] /\ counts \in [issues : Nat, changes : 0..MaxChanges, deaths : Nat]
    BY <1>2 DEF PreflightInit
<1>4. setup \in [Rigs -> 0..MaxChanges] /\ passed \in [Parts -> [Rigs -> -1..MaxChanges]]
      /\ \A r \in Rigs : setup[r] <= counts.changes
    BY <1>2, <1>3 DEF PreflightInit
<1>5. PreflightKinds
    BY <1>1, <1>2, <1>3, <1>4 DEF PreflightInit, PreflightKinds
<1>6. QED
    BY <1>1, <1>5 DEF PreflightInit, PreflightIInv, OwnerFit, TokensFit, TokensFresh, PreflightSafe, StartedFit,
       BatchWhole, TokensOnce

\* A preflight that passes, or not, forgets nothing that passed with the present configuration.
LEMMA PassKeeps ==
    ASSUME PreflightKinds, NEW part \in Parts, NEW well \in SUBSET Rigs, Pass(part, well), UNCHANGED setup
    PROVE  /\ passed' \in [Parts -> [Rigs -> -1..MaxChanges]]
           /\ \A r \in Rigs : (Fit(r) => Fit(r)') /\ (Tried(r) => Tried(r)')
           /\ \A r \in well : passed'[part][r] = setup[r]
           /\ \A other \in Parts : other # part => passed'[other] = passed[other]
           /\ \A r \in Rigs \ well : passed'[part][r] = passed[part][r]
<1>1. \A r \in Rigs : setup[r] \in -1..MaxChanges /\ setup[r] >= 0
    BY PreflightAssumption DEF PreflightKinds
<1>2. passed' = [passed EXCEPT ![part] = [r \in Rigs |-> IF r \in well THEN setup[r] ELSE passed[part][r]]]
    BY DEF Pass
<1>3. [r \in Rigs |-> IF r \in well THEN setup[r] ELSE passed[part][r]] \in [Rigs -> -1..MaxChanges]
    BY <1>1 DEF PreflightKinds
<1>4. passed' \in [Parts -> [Rigs -> -1..MaxChanges]]
    BY <1>2, <1>3 DEF PreflightKinds
<1>5. /\ \A r \in well : passed'[part][r] = setup[r]
      /\ \A other \in Parts : other # part => passed'[other] = passed[other]
      /\ \A r \in Rigs \ well : passed'[part][r] = passed[part][r]
    BY <1>2 DEF PreflightKinds
<1>6. \A r \in Rigs, q \in Parts : passed'[q][r] = passed[q][r] \/ passed'[q][r] = setup[r]
    BY <1>5
<1>7. \A r \in Rigs : (Fit(r) => Fit(r)') /\ (Tried(r) => Tried(r)')
    BY <1>1, <1>6 DEF Fit, Tried, Parts
<1>8. QED
    BY <1>4, <1>5, <1>7

\* Every step keeps the invariant.
LEMMA PreflightStep == PreflightIInv /\ [PreflightNext]_preflightVars => PreflightIInv'
<1> SUFFICES ASSUME PreflightIInv, [PreflightNext]_preflightVars PROVE PreflightIInv'
    OBVIOUS
<1>0. /\ {MaxFixes, MaxIssues, MaxChanges, MaxDeaths} \subseteq Nat /\ Mounted \subseteq Rigs
      /\ NoRequest \in Requests /\ NoRequest.at = "none" /\ NoRequest.token = 0
    BY PreflightAssumption DEF NoRequest, Requests
<1> USE DEF PreflightIInv, PreflightSafe, StartedFit, BatchWhole, TokensOnce
<1>1. CASE ChangeFix
    BY <1>0, <1>1 DEF ChangeFix, PreflightKinds, OwnerFit, TokensFit, TokensFresh, Fit, Tried
<1>2. CASE ChangeSetup
    <2>1. PICK r \in Rigs : setup' = [setup EXCEPT ![r] = @ + 1]
        BY <1>2 DEF ChangeSetup
    <2>2. /\ owner = NoRequest /\ counts' = [counts EXCEPT !.changes = @ + 1] /\ counts.changes < MaxChanges
          /\ UNCHANGED <<fix, owner, waiting, tokens, passed, active, spent, flaws>>
        BY <1>2 DEF ChangeSetup, MayChange, Free
    <2>3. counts' \in [issues : Nat, changes : 0..MaxChanges, deaths : Nat]
          /\ counts'.changes = counts.changes + 1 /\ counts'.issues = counts.issues
        BY <1>0, <2>2 DEF PreflightKinds
    <2>4. setup' \in [Rigs -> 0..MaxChanges] /\ \A q \in Rigs : setup'[q] <= counts'.changes
          /\ setup[q] <= setup'[q] /\ (q # r => setup'[q] = setup[q]) /\ setup'[r] = setup[r] + 1
        BY <1>0, <2>1, <2>2, <2>3 DEF PreflightKinds
    <2>5. PreflightKinds'
        BY <2>2, <2>3, <2>4 DEF PreflightKinds
    <2>6. TokensFit'
        <3> SUFFICES ASSUME NEW t \in tokens
                     PROVE  /\ t.seen[2] <= setup'[t.rig] /\ (t.seen[2] = setup'[t.rig] => Fit(t.rig)')
                            /\ \A q \in t.batch : Tried(q)'
            BY <2>2 DEF TokensFit
        <3>1. t.rig \in Rigs /\ t.seen[2] \in Nat /\ setup[t.rig] \in Nat /\ setup'[t.rig] \in Nat
              /\ setup[r] \in Nat
            BY <1>0, <2>4 DEF PreflightKinds, Issued
        <3>2. t.seen[2] <= setup[t.rig] /\ (t.seen[2] = setup[t.rig] => Fit(t.rig))
              /\ \A q \in t.batch : Tried(q)
            BY DEF TokensFit
        <3>3. CASE t.rig = r
            BY <2>2, <2>4, <3>1, <3>2, <3>3 DEF Tried
        <3>4. CASE t.rig # r
            BY <2>2, <2>4, <3>1, <3>2, <3>4 DEF Tried, Fit
        <3>5. QED
            BY <3>3, <3>4
    <2>7. OwnerFit' /\ TokensFresh'
        BY <1>0, <2>2 DEF OwnerFit, TokensFresh
    <2>8. QED
        BY <2>2, <2>5, <2>6, <2>7
<1>3. CASE Begin
    <2>1. PICK rigs \in SUBSET Rigs, start \in BOOLEAN :
            owner' = [NoRequest EXCEPT !.at = "cameras", !.rigs = rigs, !.start = start, !.batch = rigs]
        BY <1>3 DEF Begin
    <2>2. owner' = [at |-> "cameras", rigs |-> rigs, start |-> start, batch |-> rigs, token |-> 0]
        BY <2>1 DEF NoRequest
    <2>3. UNCHANGED <<fix, setup, waiting, tokens, passed, active, spent, flaws, counts>>
        BY <1>3 DEF Begin
    <2>4. QED
        BY <2>2, <2>3 DEF PreflightKinds, Requests, OwnerFit, TokensFit, TokensFresh, Fit, Tried
<1>4. CASE Cameras
    <2>1. PICK well \in SUBSET owner.rigs :
            /\ Pass("camera", well)
            /\ owner' = IF well = owner.rigs THEN [owner EXCEPT !.at = "mounts"] ELSE NoRequest
        BY <1>4 DEF Cameras, All
    <2>2. owner.at = "cameras" /\ UNCHANGED <<fix, setup, waiting, tokens, active, spent, flaws, counts>>
        BY <1>4 DEF Cameras
    <2>3. /\ passed' \in [Parts -> [Rigs -> -1..MaxChanges]]
          /\ \A r \in Rigs : (Fit(r) => Fit(r)') /\ (Tried(r) => Tried(r)')
          /\ \A r \in well : passed'["camera"][r] = setup[r]
        BY <2>1, <2>2, PassKeeps DEF PreflightKinds, Requests, Parts
    <2>4. owner' \in Requests /\ owner'.at \in {"mounts", "none"} /\ owner'.token = 0
          /\ (owner'.at = "mounts" => owner'.rigs = owner.rigs /\ owner'.batch = owner.batch /\ well = owner.rigs)
        BY <1>0, <2>1, <2>2 DEF PreflightKinds, Requests, OwnerFit
    <2>5. PreflightKinds'
        BY <2>2, <2>3, <2>4 DEF PreflightKinds
    <2>6. OwnerFit' /\ TokensFresh'
        BY <2>2, <2>3, <2>4 DEF OwnerFit, TokensFresh
    <2>7. TokensFit'
        BY <2>2, <2>3 DEF TokensFit, PreflightKinds, Issued
    <2>8. QED
        BY <2>2, <2>5, <2>6, <2>7
<1>5. CASE Mounts
    <2> DEFINE wanted == owner.rigs \cap Mounted
    <2>1. PICK placed \in SUBSET wanted, tracking \in SUBSET wanted :
            /\ Pass("mount", tracking)
            /\ owner' = IF placed = wanted /\ tracking = wanted
                        THEN [owner EXCEPT !.at = IF owner.start THEN "rpc" ELSE "passed"] ELSE NoRequest
        BY <1>5 DEF Mounts, All
    <2>2. owner.at = "mounts" /\ UNCHANGED <<fix, setup, waiting, tokens, active, spent, flaws, counts>>
        BY <1>5 DEF Mounts
    <2>3. /\ passed' \in [Parts -> [Rigs -> -1..MaxChanges]]
          /\ \A r \in Rigs : (Fit(r) => Fit(r)') /\ (Tried(r) => Tried(r)')
          /\ \A r \in tracking : passed'["mount"][r] = setup[r]
          /\ passed'["camera"] = passed["camera"]
        BY <1>0, <2>1, <2>2, PassKeeps DEF PreflightKinds, Requests, Parts
    <2>4. owner' \in Requests /\ owner'.at \in {"rpc", "passed", "none"} /\ owner'.token = 0
          /\ (owner'.at # "none" =>
                owner'.rigs = owner.rigs /\ owner'.batch = owner.batch /\ tracking = wanted)
        BY <1>0, <2>1, <2>2 DEF PreflightKinds, Requests, OwnerFit
    <2>5. PreflightKinds'
        BY <2>2, <2>3, <2>4 DEF PreflightKinds
    <2>6. owner'.at # "none" => \A r \in owner.rigs : Fit(r)' /\ Tried(r)'
        <3>1. \A r \in owner.rigs : passed["camera"][r] = setup[r] /\ setup[r] >= 0
            BY <1>0, <2>2 DEF OwnerFit, PreflightKinds, Requests
        <3>2. QED
            BY <2>2, <2>3, <2>4, <3>1 DEF Fit, Tried
    <2>7. OwnerFit' /\ TokensFresh'
        BY <2>2, <2>4, <2>6 DEF OwnerFit, TokensFresh
    <2>8. TokensFit'
        BY <2>2, <2>3 DEF TokensFit, PreflightKinds, Issued
    <2>9. QED
        BY <2>2, <2>5, <2>7, <2>8
<1>6. CASE IssueTokens
    <2> DEFINE id == counts.issues + 1
               new == {[id |-> id, rig |-> r, batch |-> owner.rigs, seen |-> Identity(r)] : r \in owner.rigs}
    <2>1. /\ owner.at = "passed" /\ tokens' = tokens \cup new /\ owner' = NoRequest
          /\ counts' = [counts EXCEPT !.issues = @ + 1]
          /\ UNCHANGED <<fix, setup, waiting, passed, active, spent, flaws>>
        BY <1>6 DEF IssueTokens
    <2>2. counts' \in [issues : Nat, changes : 0..MaxChanges, deaths : Nat] /\ counts'.issues = id
          /\ counts'.changes = counts.changes /\ counts.issues \in Nat
        BY <2>1 DEF PreflightKinds
    <2>3. \A t \in new : /\ t \in Issued /\ t.id = id /\ t.rig \in owner.rigs /\ t.batch = owner.rigs
                         /\ t.seen[2] = setup[t.rig]
        BY <1>0, <2>2 DEF Issued, Identity, PreflightKinds, Requests
    <2> HIDE DEF new
    <2>4. PreflightKinds'
        <3>1. \A t \in tokens' : t \in Issued /\ t.id \in 1..counts'.issues /\ t.rig \in t.batch
            BY <2>1, <2>2, <2>3 DEF PreflightKinds
        <3>2. spent \subseteq (1..counts'.issues) \X SUBSET Rigs
            BY <2>2 DEF PreflightKinds
        <3>3. tokens' \subseteq Issued
            BY <3>1
        <3>4. owner.token <= counts'.issues /\ waiting.token <= counts'.issues /\ 0 <= counts'.issues
            BY <2>2 DEF PreflightKinds, Requests
        <3>5. QED
            BY <1>0, <2>1, <2>2, <3>1, <3>2, <3>3, <3>4 DEF PreflightKinds
    <2>5. TokensFit'
        <3>1. \A r \in Rigs : Fit(r)' = Fit(r) /\ Tried(r)' = Tried(r)
            BY <2>1 DEF Fit, Tried
        <3>2. \A t \in new : t.seen[2] <= setup[t.rig] /\ Fit(t.rig) /\ \A r \in t.batch : Tried(r)
            BY <1>0, <2>1, <2>3 DEF OwnerFit, PreflightKinds, Requests
        <3>3. QED
            BY <2>1, <2>3, <3>1, <3>2 DEF TokensFit, PreflightKinds, Issued, Requests
    <2>6. TokensFresh'
        <3>1. \A t \in new : <<t.id, {t.rig}>> \notin spent
            BY <2>2, <2>3 DEF PreflightKinds
        <3>2. QED
            BY <1>0, <2>1, <3>1 DEF TokensFresh
    <2>7. OwnerFit'
        BY <1>0, <2>1 DEF OwnerFit
    <2>8. QED
        BY <2>1, <2>4, <2>5, <2>6, <2>7
<1>7. CASE ExpireToken
    <2>1. tokens' \subseteq tokens
          /\ UNCHANGED <<fix, setup, owner, waiting, passed, active, spent, flaws, counts>>
        BY <1>7 DEF ExpireToken
    <2>2. QED
        BY <2>1 DEF PreflightKinds, OwnerFit, TokensFit, TokensFresh, Fit, Tried
<1>8. CASE AskStart
    <2>1. PICK id \in 1..counts.issues, r \in Rigs, whose \in Rigs :
            waiting' = [NoRequest EXCEPT !.at = "asked", !.rigs = {r}, !.token = id, !.start = TRUE,
                                         !.batch = {whose}]
        BY <1>8 DEF AskStart
    <2>2. waiting' = [at |-> "asked", rigs |-> {r}, start |-> TRUE, batch |-> {whose}, token |-> id]
        BY <2>1 DEF NoRequest
    <2>3. waiting' \in Requests /\ waiting'.at = "asked" /\ waiting'.token <= counts.issues
        <3>1. id \in Nat /\ id <= counts.issues /\ {r} \in SUBSET Rigs /\ {whose} \in SUBSET Rigs
            BY DEF PreflightKinds
        <3>2. QED
            BY <2>2, <3>1 DEF Requests
    <2>4. UNCHANGED <<fix, setup, owner, tokens, passed, active, spent, flaws, counts>>
        BY <1>8 DEF AskStart
    <2>5. QED
        BY <2>3, <2>4 DEF PreflightKinds, OwnerFit, TokensFit, TokensFresh, Fit, Tried
<1>9. CASE ConsumeToken
    <2> DEFINE good == {t \in Presented : waiting.rigs = {t.rig} /\ t.seen = Identity(t.rig)}
               whole == UNION {t.batch : t \in good}
    <2>1. /\ owner' = IF good = {} THEN NoRequest ELSE [waiting EXCEPT !.at = "rpc", !.batch = whole]
          /\ tokens' = tokens \ Presented /\ waiting' = NoRequest
          /\ UNCHANGED <<fix, setup, passed, active, spent, flaws, counts>>
        BY <1>9 DEF ConsumeToken, Left
    <2>2. \A t \in good : t \in tokens /\ t.id = waiting.token /\ waiting.rigs = {t.rig}
                          /\ t.seen[2] = setup[t.rig]
        BY DEF Presented, Identity
    <2>3. whole \subseteq Rigs
        BY <2>2 DEF PreflightKinds, Issued
    <2>4. \A t \in good : Fit(t.rig) /\ \A r \in t.batch : Tried(r)
        BY <2>2 DEF TokensFit
    <2>5. good # {} => \A t \in tokens' : ~(t.id = waiting.token /\ waiting.rigs = {t.rig})
        BY <2>1 DEF Presented
    <2>6. good # {} => /\ \A r \in waiting.rigs : Fit(r)
                       /\ \A r \in whole : Tried(r)
                       /\ <<waiting.token, waiting.rigs>> \notin spent
        BY <2>2, <2>4 DEF TokensFresh
    <2> HIDE DEF good, whole
    <2>7. owner' \in Requests /\ owner'.token <= counts.issues /\ owner'.at \in {"none", "rpc"}
          /\ (owner'.at = "rpc" => /\ good # {} /\ owner'.rigs = waiting.rigs
                                   /\ owner'.token = waiting.token /\ owner'.batch = whole)
        <3>1. CASE good = {}
            BY <1>0, <2>1, <3>1 DEF PreflightKinds
        <3>2. CASE good # {}
            <4>1. owner' = [at |-> "rpc", rigs |-> waiting.rigs, start |-> waiting.start, batch |-> whole,
                            token |-> waiting.token]
                BY <2>1, <3>2 DEF PreflightKinds, Requests
            <4>2. QED
                BY <2>3, <3>2, <4>1 DEF PreflightKinds, Requests
        <3>3. QED
            BY <3>1, <3>2
    <2>8. PreflightKinds'
        BY <1>0, <2>1, <2>7 DEF PreflightKinds
    <2>9. OwnerFit' /\ TokensFit'
        BY <2>1, <2>6, <2>7 DEF OwnerFit, TokensFit, Fit, Tried
    <2>10. TokensFresh'
        BY <2>1, <2>5, <2>6, <2>7 DEF TokensFresh
    <2>11. QED
        BY <2>1, <2>8, <2>9, <2>10
<1>10. CASE RuntimeAdmits
    <2>1. /\ owner.at = "rpc" /\ active' = active \cup owner.rigs /\ owner' = NoRequest
          /\ spent' = IF owner.token = 0 THEN spent ELSE spent \cup {<<owner.token, owner.rigs>>}
          /\ UNCHANGED <<fix, setup, waiting, tokens, passed, counts>>
        BY <1>10 DEF RuntimeAdmits
    <2>2. flaws' = flaws \cup {f \in {"unfit", "batch", "twice"} :
                    \/ f = "unfit" /\ \E r \in owner.rigs : ~Fit(r)
                    \/ f = "batch" /\ \E r \in owner.batch : ~Tried(r)
                    \/ f = "twice" /\ <<owner.token, owner.rigs>> \in spent}
        BY <1>10 DEF RuntimeAdmits
    <2>3. <<owner.token, owner.rigs>> \notin spent
        BY <2>1 DEF TokensFresh, PreflightKinds
    <2>4. PreflightSafe'
        BY <2>1, <2>2, <2>3 DEF OwnerFit
    <2>5. PreflightKinds'
        <3>1. spent' \subseteq (1..counts.issues) \X SUBSET Rigs
            BY <2>1 DEF PreflightKinds, Requests
        <3>2. QED
            BY <1>0, <2>1, <3>1 DEF PreflightKinds, Requests
    <2>6. TokensFresh'
        BY <1>0, <2>1 DEF TokensFresh, PreflightKinds
    <2>7. OwnerFit' /\ TokensFit'
        BY <1>0, <2>1 DEF OwnerFit, TokensFit, Fit, Tried
    <2>8. QED
        BY <2>4, <2>5, <2>6, <2>7
<1>11. CASE RuntimeRefuses
    BY <1>0, <1>11 DEF RuntimeRefuses, PreflightKinds, OwnerFit, TokensFit, TokensFresh, Fit, Tried
<1>12. CASE SequenceEnds
    BY <1>12 DEF SequenceEnds, PreflightKinds, OwnerFit, TokensFit, TokensFresh, Fit, Tried
<1>13. CASE PortalGone
    <2>1. /\ counts' = [counts EXCEPT !.deaths = @ + 1] /\ owner' = NoRequest /\ waiting' = NoRequest
          /\ tokens' = {} /\ UNCHANGED <<fix, setup, passed, active, spent, flaws>>
        BY <1>13 DEF PortalGone
    <2>2. counts' \in [issues : Nat, changes : 0..MaxChanges, deaths : Nat]
          /\ counts'.issues = counts.issues /\ counts'.changes = counts.changes
        BY <2>1 DEF PreflightKinds
    <2>3. QED
        BY <1>0, <2>1, <2>2 DEF PreflightKinds, OwnerFit, TokensFit, TokensFresh
<1>14. CASE UNCHANGED preflightVars
    BY <1>14 DEF preflightVars, PreflightKinds, OwnerFit, TokensFit, TokensFresh, Fit, Tried
<1>15. QED
    BY <1>1, <1>2, <1>3, <1>4, <1>5, <1>6, <1>7, <1>8, <1>9, <1>10, <1>11, <1>12, <1>13, <1>14
    DEF PreflightNext

\* A RIG starts on hardware that passed as it is configured, with its whole batch, and once per token
\* (app.py:5318, app.py:5602, app.py:5294).
THEOREM PreflightIsSafe == PreflightSpec => []PreflightSafe
<1>1. PreflightIInv => PreflightSafe
    BY DEF PreflightIInv
<1>2. QED
    BY PreflightInitially, PreflightStep, <1>1, PTL DEF PreflightSpec

(* ---- Both ---- *)

AdmissionIInv == AuthorityIInv /\ PreflightIInv

\* A part of a study that is not of the admission leaves the admission alone.
LEMMA AdmissionApart ==
    [StudyNext]_StudyVars =>
        [AuthorityNext]_authorityVars /\ [PreflightNext]_preflightVars
BY DEF StudyNext, StudyVars, admissionVars, RearmPart, SelectionPart, QualificationPart, CachePart, JobsPart,
       AuthorityPart, PreflightPart

\* The invariants are stronger than the types the runs check.
LEMMA AdmissionTyped == AdmissionIInv => AdmissionSafe
<1> SUFFICES ASSUME AdmissionIInv PROVE AdmissionSafe
    OBVIOUS
<1>1. AuthorityTypeInv
    BY DEF AdmissionIInv, AuthorityIInv, Kinds, Record, BusyHere, AuthorityTypeInv
<1>2. PreflightTypeInv
    BY DEF AdmissionIInv, PreflightIInv, PreflightKinds, Requests, Issued, PreflightTypeInv
<1>3. QED
    BY <1>1, <1>2 DEF AdmissionIInv, AuthorityIInv, PreflightIInv, AdmissionSafe

\* Whatever else is studied beside them, a run starts on a clock of this boot and on hardware that
\* passed (runtime_daemon.py:489, app.py:5318).
THEOREM AdmissionIsSafe == StudySpec => []AdmissionSafe
<1>1. StudyInit => AdmissionIInv
    BY AuthorityInitially, PreflightInitially DEF StudyInit, AdmissionIInv
<1>2. AdmissionIInv /\ [StudyNext]_StudyVars => AdmissionIInv'
    BY AdmissionApart, AuthorityStep, PreflightStep DEF AdmissionIInv
<1>3. QED
    BY <1>1, <1>2, AdmissionTyped, PTL DEF StudySpec

(* ---- Numbers ---- *)

\* A number of a set that is not above any other is its minimum; likewise the maximum.
LEMMA MinIs ==
    ASSUME NEW S \in SUBSET Int, NEW m \in S, \A y \in S : m <= y
    PROVE  Min(S) = m
<1>1. \E x \in S : \A y \in S : x <= y
    OBVIOUS
<1>2. Min(S) \in S /\ \A y \in S : Min(S) <= y
    BY <1>1 DEF Min
<1>3. Min(S) \in Int /\ m \in Int /\ Min(S) <= m /\ m <= Min(S)
    BY <1>2
<1>4. QED
    BY <1>3

LEMMA MaxIs ==
    ASSUME NEW S \in SUBSET Int, NEW m \in S, \A y \in S : m >= y
    PROVE  Max(S) = m
<1>1. \E x \in S : \A y \in S : x >= y
    OBVIOUS
<1>2. Max(S) \in S /\ \A y \in S : Max(S) >= y
    BY <1>1 DEF Max
<1>3. Max(S) \in Int /\ m \in Int /\ Max(S) >= m /\ m >= Max(S)
    BY <1>2
<1>4. QED
    BY <1>3

\* The greater, and the smaller, of two numbers.
LEMMA MaxOfTwo ==
    ASSUME NEW a \in Int, NEW b \in Int
    PROVE  Max({a, b}) = IF a >= b THEN a ELSE b
<1>1. CASE a >= b
    BY <1>1, MaxIs
<1>2. CASE ~(a >= b)
    BY <1>2, MaxIs
<1>3. QED
    BY <1>1, <1>2

LEMMA MinOfTwo ==
    ASSUME NEW a \in Int, NEW b \in Int
    PROVE  Min({a, b}) = IF a <= b THEN a ELSE b
<1>1. CASE a <= b
    BY <1>1, MinIs
<1>2. CASE ~(a <= b)
    BY <1>2, MinIs
<1>3. QED
    BY <1>1, <1>2

(* ---- The qualification of a contract ---- *)

\* While the recipe runs, its budgets are those of the contract, and no operation of this attempt has
\* exceeded them.
RecipeKept ==
    /\ qualify = "recipe" => recipe = contract /\ \A kind \in Kinds4 : attempt[kind] <= recipe[kind]
    /\ qualify = "validated" => \A kind \in Kinds4 : attempt[kind] <= contract[kind]
\* A budget covers the operations that raised it.
RaisesCovered == \A kind \in {"set", "single", "bracket"} : contract[kind] >= longest[kind]
QualificationIInv == QualificationTypeInv /\ RecipeKept /\ RaisesCovered

\* A margin covers what it is the margin of, and grows with it.
LEMMA Margins ==
    ASSUME NEW n \in Nat
    PROVE  /\ Margin(n) \in Nat /\ Margin(n) > n
           /\ \A m \in Nat : m <= n => Margin(m) <= Margin(n)
BY DEF Margin

\* No budget needs more than twice the margin of the longest operation.
LEMMA UpperNumber == Worst \in Nat /\ Margin(Worst) \in Nat /\ Upper = 2 * Margin(Worst) + 2 /\ Upper \in Nat
<1>1. Worst \in Nat
    BY QualificationAssumption
<1>2. Margin(Worst) \in Nat
    BY <1>1, Margins
<1>3. QED
    BY <1>1, <1>2 DEF Upper

LEMMA QualificationStarts == QualificationInit => QualificationIInv
<1> SUFFICES ASSUME QualificationInit
             PROVE  QualificationIInv
    OBVIOUS
<1>1. PICK s \in 0..Worst, p \in 0..Worst, b \in 0..Worst, cold \in 0..Worst :
          contract = [set |-> Margin(s), single |-> Margin(p), bracket |-> Margin(b),
                      first |-> Max({Margin(p), Margin(cold)})]
    BY DEF QualificationInit
<1>2. Worst \in Nat /\ Margin(Worst) \in Nat /\ Upper = 2 * Margin(Worst) + 2 /\ Upper \in Nat
    BY QualificationAssumption, Margins DEF Upper
<1>3. \A n \in 0..Worst : Margin(n) \in 0..Upper
    BY <1>2, Margins
<1>4. Max({Margin(p), Margin(cold)}) \in 0..Upper
    BY <1>2, <1>3, MaxOfTwo
<1>5. contract \in [Kinds4 -> 0..Upper]
    BY <1>1, <1>3, <1>4 DEF Kinds4
<1>6. recipe = Zeros /\ longest = Zeros /\ attempt = Zeros /\ Zeros \in [Kinds4 -> 0..Worst]
      /\ Zeros \in [Kinds4 -> 0..Upper]
    BY <1>2 DEF QualificationInit, Zeros
<1>7. QED
    BY <1>2, <1>5, <1>6, QualificationAssumption
    DEF QualificationInit, QualificationIInv, QualificationTypeInv, RecipeKept, RaisesCovered, Zeros, Kinds4

\* An operation that took longer than its budget leaves one that covers it, and lowers none.
LEMMA RevisionCovers ==
    ASSUME QualificationIInv, qualify = "recipe", NEW kind \in Kinds4, NEW takes \in 0..Worst,
           takes > recipe[kind], Revised(kind, takes).single <= Upper
    PROVE  /\ Revised(kind, takes) \in [Kinds4 -> 0..Upper]
           /\ \A k \in Kinds4 : Revised(kind, takes)[k] >= contract[k]
           /\ kind # "first" => Revised(kind, takes)[kind] >= takes
<1>1. Worst \in Nat /\ Margin(Worst) \in Nat /\ Upper = 2 * Margin(Worst) + 2 /\ Margin(Worst) > Worst
    BY QualificationAssumption, Margins DEF Upper
<1>2. contract \in [Kinds4 -> 0..Upper] /\ recipe = contract
    BY DEF QualificationIInv, QualificationTypeInv, RecipeKept
<1>3. takes \in Nat /\ takes <= Worst /\ Margin(takes) \in Nat /\ Margin(takes) > takes
      /\ Margin(takes) <= Margin(Worst)
    BY <1>1, Margins
<1>4. /\ takes - recipe[kind] \in Nat /\ takes - recipe[kind] <= Worst
      /\ Margin(takes - recipe[kind]) \in Nat
      /\ Margin(takes - recipe[kind]) > takes - recipe[kind]
      /\ Margin(takes - recipe[kind]) <= Margin(Worst)
    BY <1>1, <1>2, <1>3, Margins DEF Kinds4
<1>5. CASE kind = "set"
    <2>1. PICK top \in 0..Upper : top = Max({contract.set, Margin(takes)})
                                  /\ top >= contract.set /\ top >= takes
        BY <1>1, <1>2, <1>3, MaxOfTwo DEF Kinds4
    <2>2. Revised(kind, takes) = [contract EXCEPT !.set = top]
        BY <1>5, <2>1 DEF Revised
    <2>3. QED
        BY <1>2, <1>5, <2>1, <2>2 DEF Kinds4
<1>6. CASE kind = "bracket"
    <2>1. PICK top \in 0..Upper : top = contract.bracket + Margin(takes - recipe[kind])
                                  /\ top >= contract.bracket /\ top >= takes
        BY <1>1, <1>2, <1>3, <1>4, <1>6 DEF Kinds4
    <2>2. Revised(kind, takes) = [contract EXCEPT !.bracket = top]
        BY <1>6, <2>1 DEF Revised
    <2>3. QED
        BY <1>2, <1>6, <2>1, <2>2 DEF Kinds4
<1>7. CASE kind \in {"first", "single"}
    <2>1. PICK sum \in Nat : sum = contract.single + Margin(takes - recipe[kind])
        BY <1>2, <1>4 DEF Kinds4
    <2>2. Revised(kind, takes) = [contract EXCEPT !.single = sum]
        BY <1>7, <2>1 DEF Revised
    <2>3. sum <= Upper
        BY <1>2, <2>2 DEF Kinds4
    <2>4. PICK top \in 0..Upper : top = sum
                                  /\ top >= contract.single /\ (kind = "single" => top >= takes)
        BY <1>1, <1>2, <1>3, <1>4, <2>1, <2>3 DEF Kinds4
    <2>5. QED
        BY <1>2, <1>7, <2>2, <2>4 DEF Kinds4
<1>8. QED
    BY <1>5, <1>6, <1>7 DEF Kinds4

LEMMA CommandStep == ASSUME QualificationIInv, NEW takes \in 0..Worst, Command(takes) PROVE QualificationIInv'
<1>1. PICK kind \in Kinds4 : kind = Recipe[command]
    <2>1. Recipe \in Seq(Kinds4) /\ Len(Recipe) \in Nat
        BY QualificationAssumption DEF Kinds4
    <2>2. command \in 1..Len(Recipe)
        BY <2>1 DEF Command, QualificationIInv, QualificationTypeInv
    <2>3. QED
        BY <2>1, <2>2
<1>2. /\ qualify = "recipe" /\ command <= Len(Recipe) /\ UNCHANGED <<recipe, refusals>>
      /\ attempt' = [attempt EXCEPT ![kind] = Max({@, takes})]
    BY <1>1 DEF Command
<1>3. /\ contract \in [Kinds4 -> 0..Upper] /\ recipe \in [Kinds4 -> 0..Upper]
      /\ longest \in [Kinds4 -> 0..Worst] /\ attempt \in [Kinds4 -> 0..Worst] /\ Worst \in Nat
      /\ recipe = contract /\ command \in 1..Len(Recipe) + 1 /\ Len(Recipe) \in Nat
    BY <1>2, QualificationAssumption DEF QualificationIInv, QualificationTypeInv, RecipeKept
<1>4. PICK most \in 0..Worst : most = Max({attempt[kind], takes})
                               /\ most = IF attempt[kind] >= takes THEN attempt[kind] ELSE takes
    <2>1. attempt[kind] \in Int /\ takes \in Int /\ attempt[kind] \in 0..Worst
        BY <1>3
    <2>2. Max({attempt[kind], takes}) = IF attempt[kind] >= takes THEN attempt[kind] ELSE takes
        BY <2>1, MaxOfTwo
    <2>3. QED
        BY <2>1, <2>2
<1>5. attempt' = [attempt EXCEPT ![kind] = most] /\ attempt' \in [Kinds4 -> 0..Worst]
    BY <1>2, <1>3, <1>4
<1>6. CASE takes <= recipe[kind]
    <2>1. command' = command + 1 /\ UNCHANGED <<contract, qualify, longest>>
        BY <1>1, <1>6 DEF Command
    <2>2. \A k \in Kinds4 : attempt'[k] <= recipe[k]
        BY <1>2, <1>3, <1>4, <1>5, <1>6 DEF QualificationIInv, RecipeKept
    <2>3. QualificationTypeInv'
        BY <1>2, <1>3, <1>5, <2>1 DEF QualificationIInv, QualificationTypeInv
    <2>4. RecipeKept' /\ RaisesCovered'
        BY <1>2, <1>3, <2>1, <2>2 DEF QualificationIInv, RecipeKept, RaisesCovered
    <2>5. QED
        BY <2>3, <2>4 DEF QualificationIInv
<1>7. CASE ~(takes <= recipe[kind])
    <2>1. /\ contract' = Revised(kind, takes) /\ qualify' = "preflight" /\ UNCHANGED command
          /\ longest' = [longest EXCEPT ![kind] = Max({@, takes})]
          /\ Revised(kind, takes).single <= Upper
        BY <1>1, <1>7 DEF Command
    <2>2. PICK top \in 0..Worst : top = Max({longest[kind], takes})
                                  /\ top = IF longest[kind] >= takes THEN longest[kind] ELSE takes
        <3>1. longest[kind] \in Int /\ takes \in Int /\ longest[kind] \in 0..Worst
            BY <1>3
        <3>2. Max({longest[kind], takes}) = IF longest[kind] >= takes THEN longest[kind] ELSE takes
            BY <3>1, MaxOfTwo
        <3>3. QED
            BY <3>1, <3>2
    <2>3. longest' = [longest EXCEPT ![kind] = top] /\ longest' \in [Kinds4 -> 0..Worst]
        BY <1>3, <2>1, <2>2
    <2>4. /\ contract' \in [Kinds4 -> 0..Upper] /\ \A k \in Kinds4 : contract'[k] >= contract[k]
          /\ kind # "first" => contract'[kind] >= takes
        BY <1>2, <1>3, <1>7, <2>1, RevisionCovers
    <2>5. Upper \in Nat
        BY UpperNumber
    <2>6. RaisesCovered'
        <3>1. ASSUME NEW k \in {"set", "single", "bracket"}
              PROVE  contract'[k] >= longest'[k]
            <4>1. k \in Kinds4 /\ contract[k] >= longest[k] /\ contract'[k] >= contract[k]
                BY <2>4 DEF QualificationIInv, RaisesCovered, Kinds4
            <4>2. contract[k] \in Nat /\ contract'[k] \in Nat /\ longest[k] \in Nat /\ takes \in Nat
                BY <1>3, <2>4, <2>5, <4>1
            <4>3. QED
                BY <1>3, <2>2, <2>3, <2>4, <4>1, <4>2
        <3>2. QED
            BY <3>1 DEF RaisesCovered
    <2>7. QED
        BY <1>2, <1>3, <1>5, <2>1, <2>3, <2>4, <2>6
        DEF QualificationIInv, QualificationTypeInv, RecipeKept
<1>8. QED
    BY <1>6, <1>7

LEMMA QualificationStep ==
    QualificationIInv /\ [QualificationNext]_qualificationVars => QualificationIInv'
<1> SUFFICES ASSUME QualificationIInv, [QualificationNext]_qualificationVars
             PROVE  QualificationIInv'
    OBVIOUS
<1>1. ASSUME NEW ready \in BOOLEAN, NEW gives_up \in BOOLEAN, Preflight(ready, gives_up)
      PROVE  QualificationIInv'
    <2>1. Len(Recipe) \in Nat /\ Worst \in Nat /\ Upper \in Nat /\ MaxRefusals \in Nat
        BY QualificationAssumption, UpperNumber
    <2>2. Zeros \in [Kinds4 -> 0..Worst] /\ \A k \in Kinds4 : Zeros[k] = 0
        BY <2>1 DEF Zeros
    <2>3. RaisesCovered'
        BY <1>1 DEF Preflight, QualificationIInv, RaisesCovered
    <2>4. CASE ready
        <3>1. /\ qualify' = "recipe" /\ recipe' = contract /\ command' = 1 /\ attempt' = Zeros
              /\ UNCHANGED <<refusals, contract, longest>>
            BY <1>1, <2>4 DEF Preflight
        <3>2. QualificationTypeInv'
            BY <2>1, <2>2, <3>1 DEF QualificationIInv, QualificationTypeInv
        <3>3. \A kind \in Kinds4 : attempt'[kind] <= recipe'[kind]
            BY <2>1, <2>2, <3>1 DEF QualificationIInv, QualificationTypeInv
        <3>4. QED
            BY <2>3, <3>1, <3>2, <3>3 DEF QualificationIInv, RecipeKept
    <2>5. CASE ~ready
        <3>1. /\ qualify' \in {"preflight", "cancelled"} /\ refusals' = refusals + 1 /\ refusals < MaxRefusals
              /\ UNCHANGED <<recipe, command, attempt, contract, longest>>
            BY <1>1, <2>5 DEF Preflight
        <3>2. QualificationTypeInv'
            BY <2>1, <3>1 DEF QualificationIInv, QualificationTypeInv
        <3>3. QED
            BY <2>3, <3>1, <3>2 DEF QualificationIInv, RecipeKept
    <2>6. QED
        BY <2>4, <2>5
<1>2. CASE CommandFails \/ Validated
    BY <1>2 DEF CommandFails, Validated, QualificationIInv, QualificationTypeInv, RecipeKept, RaisesCovered
<1>3. CASE UNCHANGED qualificationVars
    BY <1>3 DEF qualificationVars, QualificationIInv, QualificationTypeInv, RecipeKept, RaisesCovered
<1>4. QED
    BY <1>1, <1>2, <1>3, CommandStep DEF QualificationNext

LEMMA QualificationIsSound == QualificationIInv => QualificationTypeInv /\ ContractCovers
BY DEF QualificationIInv, RecipeKept, RaisesCovered, ContractCovers

(* ---- The search of the pause ---- *)

\* Where the candidate and the limits of the search are: the bisection is between a delay below
\* which nothing will do and one that was passed.
SearchInOrder ==
    /\ search.stage = "high" => search.at >= 1
    /\ search.stage = "zero" => search.at = 0 /\ search.high >= 1
    /\ search.stage = "bisect" => /\ 1 <= search.low /\ search.low < search.high
                                  /\ search.at = Middle(search.low, search.high)
\* What passed is sustained, and the guarded delay is never below the policy.
PassedSustained ==
    /\ \A d \in Delays : outcomes[d] = "passed" => d >= ability.pair
    /\ search.stage \in {"burst", "exposures", "done"} =>
        minimum >= ability.pair /\ search.at >= Guarded(minimum)
    /\ search.stage \in {"exposures", "done"} => search.at >= ability.burst
    /\ search.stage = "done" =>
        search.at >= ability.exposures /\ outcomes[search.at] = "passed" /\ session = "clean"
\* Without a glitch what failed is not sustained, and the search closes in on the shortest delay.
FailedBelow ==
    /\ search.stage \in {"high", "zero", "bisect"} =>
        \A d \in Delays : outcomes[d] = "failed" => d < ability.pair
    /\ search.stage \in {"zero", "bisect"} => ability.pair <= search.high
    /\ search.stage = "bisect" => search.low <= ability.pair
    /\ search.stage = "verify" => search.at = ability.pair
    /\ search.stage \in {"burst", "exposures", "done"} =>
        /\ minimum = ability.pair
        /\ \A d \in Guarded(minimum)..search.at - 1 : ~Sustains(d)
    /\ session = "upset" /\ Searching => search.at < Needed
RearmIInv ==
    /\ RearmTypeInv /\ SearchInOrder /\ PassedSustained /\ ability.pair <= ability.burst
    /\ glitches = 0 => FailedBelow
    /\ RearmFound

LEMMA Middles ==
    ASSUME NEW low \in Nat, NEW high \in Nat, low <= high
    PROVE  /\ Middle(low, high) \in Nat /\ low <= Middle(low, high) /\ Middle(low, high) <= high
           /\ low < high => Middle(low, high) < high
BY DEF Middle

\* The guarded delay is above the delay.
LEMMA Guards == ASSUME NEW n \in Nat PROVE Guarded(n) \in Nat /\ Guarded(n) > n
BY DEF Guarded

LEMMA RearmStarts == RearmInit => RearmIInv
<1> SUFFICES ASSUME RearmInit
             PROVE  RearmIInv
    OBVIOUS
<1>1. PICK start \in 1..Ceiling : search = [stage |-> "high", at |-> start, low |-> 0, high |-> start]
    BY DEF RearmInit
<1>2. Ceiling \in Nat /\ MaxGlitches \in Nat
    BY RearmAssumption
<1>3. RearmTypeInv
    BY <1>1, <1>2 DEF RearmInit, RearmTypeInv, Delays, Stages
<1>4. SearchInOrder
    BY <1>1, <1>2 DEF SearchInOrder
<1>5. PassedSustained /\ FailedBelow /\ RearmFound
    BY <1>1, <1>2 DEF RearmInit, PassedSustained, FailedBelow, RearmFound, Delays
<1>6. QED
    BY <1>3, <1>4, <1>5 DEF RearmInit, RearmIInv

\* A candidate that passed takes the search on.
LEMMA Forward ==
    ASSUME RearmIInv, Searching, search.at >= Needed, session = "clean", search' = Onward,
           outcomes' = [outcomes EXCEPT ![search.at] = "passed"],
           minimum' = IF search.stage = "verify" THEN search.at ELSE minimum,
           UNCHANGED <<ability, session, glitches>>
    PROVE  RearmIInv'
<1>1. Ceiling \in Nat /\ MaxGlitches \in Nat /\ 0 \in 0..Ceiling
    BY RearmAssumption
<1>2. /\ search \in [stage : Stages, at : 0..Ceiling, low : 0..Ceiling, high : 0..Ceiling]
      /\ outcomes \in [0..Ceiling -> {"none", "passed", "failed"}] /\ minimum \in 0..Ceiling
      /\ ability \in [pair : 0..Ceiling + 1, burst : 0..Ceiling + 1, exposures : 0..Ceiling + 1]
      /\ session = "clean" /\ glitches \in 0..MaxGlitches
    BY DEF RearmIInv, RearmTypeInv, Delays
<1>3. /\ outcomes' \in [0..Ceiling -> {"none", "passed", "failed"}] /\ minimum' \in 0..Ceiling
      /\ outcomes'[search.at] = "passed"
      /\ \A d \in 0..Ceiling : d # search.at => outcomes'[d] = outcomes[d]
    BY <1>2
<1>4. search.at >= ability.pair
    BY <1>1, <1>2 DEF Needed, RearmIInv, PassedSustained, Searching, Stages
<1>5. \A d \in Delays' : outcomes'[d] = "passed" => d >= ability'.pair
    BY <1>2, <1>3, <1>4 DEF RearmIInv, PassedSustained, Delays
<1>6. glitches = 0 /\ search.stage \in {"high", "zero", "bisect"} =>
          \A d \in Delays' : outcomes'[d] = "failed" => d < ability'.pair
    BY <1>2, <1>3 DEF RearmIInv, FailedBelow, Delays
<1>7. session' = "clean" /\ glitches' = glitches /\ ability' = ability /\ Ceiling' = Ceiling
    BY <1>2
<1>8. CASE search.stage = "high"
    <2>1. search' = [search EXCEPT !.stage = "zero", !.at = 0, !.high = search.at]
        BY <1>8 DEF Onward
    <2>2. /\ search' \in [stage : Stages, at : 0..Ceiling, low : 0..Ceiling, high : 0..Ceiling]
          /\ search'.stage = "zero" /\ search'.at = 0 /\ search'.high = search.at
        BY <1>1, <1>2, <2>1 DEF Stages
    <2>3. RearmTypeInv' /\ SearchInOrder'
        BY <1>1, <1>2, <1>3, <1>7, <1>8, <2>2 DEF RearmTypeInv, SearchInOrder, RearmIInv, Delays
    <2>4. PassedSustained' /\ (glitches' = 0 => FailedBelow') /\ RearmFound'
        BY <1>2, <1>4, <1>5, <1>6, <1>7, <1>8, <2>2 DEF PassedSustained, FailedBelow, RearmFound
    <2>5. QED
        BY <1>7, <2>3, <2>4 DEF RearmIInv
<1>9. CASE search.stage = "zero"
    <2>1. search' = [search EXCEPT !.stage = "verify", !.at = 0]
        BY <1>9 DEF Onward
    <2>2. /\ search' \in [stage : Stages, at : 0..Ceiling, low : 0..Ceiling, high : 0..Ceiling]
          /\ search'.stage = "verify" /\ search'.at = 0
        BY <1>1, <1>2, <2>1 DEF Stages
    <2>3. RearmTypeInv' /\ SearchInOrder'
        BY <1>1, <1>2, <1>3, <1>7, <2>2 DEF RearmTypeInv, SearchInOrder, Delays
    <2>4. ability.pair = 0
        BY <1>2, <1>4, <1>9 DEF RearmIInv, SearchInOrder
    <2>5. PassedSustained' /\ (glitches' = 0 => FailedBelow') /\ RearmFound'
        BY <1>2, <1>5, <1>7, <2>2, <2>4 DEF PassedSustained, FailedBelow, RearmFound
    <2>6. QED
        BY <1>7, <2>3, <2>5 DEF RearmIInv
<1>10. CASE search.stage = "bisect"
    <2>1. /\ 1 <= search.low /\ search.low < search.high /\ search.at = Middle(search.low, search.high)
          /\ glitches = 0 => search.low <= ability.pair
        BY <1>10 DEF RearmIInv, SearchInOrder, FailedBelow
    <2>2. search.low <= search.at /\ search.at < search.high
        BY <1>2, <2>1, Middles
    <2>3. CASE search.low = search.at
        <3>1. search' = [search EXCEPT !.stage = "verify", !.high = search.at]
            BY <1>10, <2>3 DEF Onward
        <3>2. /\ search' \in [stage : Stages, at : 0..Ceiling, low : 0..Ceiling, high : 0..Ceiling]
              /\ search'.stage = "verify" /\ search'.at = search.at
            BY <1>1, <1>2, <3>1 DEF Stages
        <3>3. RearmTypeInv' /\ SearchInOrder'
            BY <1>1, <1>2, <1>3, <1>7, <3>2 DEF RearmTypeInv, SearchInOrder, Delays
        <3>4. glitches = 0 => search.at = ability.pair
            BY <1>2, <1>4, <2>1, <2>3
        <3>5. PassedSustained' /\ (glitches' = 0 => FailedBelow') /\ RearmFound'
            BY <1>2, <1>5, <1>7, <3>2, <3>4 DEF PassedSustained, FailedBelow, RearmFound
        <3>6. QED
            BY <1>7, <3>3, <3>5 DEF RearmIInv
    <2>4. CASE search.low # search.at
        <3>1. search' = [search EXCEPT !.high = search.at, !.at = Middle(search.low, search.at)]
            BY <1>10, <2>4 DEF Onward
        <3>2. /\ Middle(search.low, search.at) \in 0..Ceiling /\ Middle(search.low, search.at) < search.at
              /\ search.low < search.at
            <4>1. search.low \in Nat /\ search.at \in Nat /\ search.low < search.at /\ search.at <= Ceiling
                BY <1>1, <1>2, <2>2, <2>4
            <4>2. QED
                BY <1>1, <4>1, Middles
        <3>3. /\ search' \in [stage : Stages, at : 0..Ceiling, low : 0..Ceiling, high : 0..Ceiling]
              /\ search'.stage = "bisect" /\ search'.at = Middle(search'.low, search'.high)
              /\ search'.low = search.low /\ search'.high = search.at
            BY <1>1, <1>2, <1>10, <3>1, <3>2 DEF Stages
        <3>4. RearmTypeInv' /\ SearchInOrder'
            BY <1>1, <1>2, <1>3, <1>7, <2>1, <3>2, <3>3 DEF RearmTypeInv, SearchInOrder, Delays, Middle
        <3>5. PassedSustained' /\ (glitches' = 0 => FailedBelow') /\ RearmFound'
            BY <1>2, <1>4, <1>5, <1>6, <1>7, <1>10, <2>1, <3>3 DEF PassedSustained, FailedBelow, RearmFound
        <3>6. QED
            BY <1>7, <3>4, <3>5 DEF RearmIInv
    <2>5. QED
        BY <2>3, <2>4
<1>11. CASE search.stage = "verify"
    <2>1. minimum' = search.at /\ Guarded(search.at) \in Nat /\ Guarded(search.at) > search.at
        BY <1>2, <1>11, Guards
    <2>2. glitches = 0 => search.at = ability.pair
        BY <1>11 DEF RearmIInv, FailedBelow
    <2>3. CASE Guarded(search.at) > Ceiling
        <3>1. search' = [search EXCEPT !.stage = "failed"]
            BY <1>11, <2>3 DEF Onward
        <3>2. /\ search' \in [stage : Stages, at : 0..Ceiling, low : 0..Ceiling, high : 0..Ceiling]
              /\ search'.stage = "failed"
            BY <1>1, <1>2, <3>1 DEF Stages
        <3>3. RearmTypeInv' /\ SearchInOrder'
            BY <1>1, <1>2, <1>3, <1>7, <3>2 DEF RearmTypeInv, SearchInOrder, Delays
        <3>4. glitches' = 0 => \A d \in Delays' : ~(d >= Guarded(ability'.pair))
            BY <1>1, <1>2, <1>7, <2>1, <2>2, <2>3 DEF Delays
        <3>5. PassedSustained' /\ (glitches' = 0 => FailedBelow') /\ RearmFound'
            BY <1>2, <1>5, <1>7, <3>2, <3>4 DEF PassedSustained, FailedBelow, RearmFound
        <3>6. QED
            BY <1>7, <3>3, <3>5 DEF RearmIInv
    <2>4. CASE ~(Guarded(search.at) > Ceiling)
        <3>1. search' = [search EXCEPT !.stage = "burst", !.at = Guarded(search.at)]
            BY <1>11, <2>4 DEF Onward
        <3>2. /\ search' \in [stage : Stages, at : 0..Ceiling, low : 0..Ceiling, high : 0..Ceiling]
              /\ search'.stage = "burst" /\ search'.at = Guarded(search.at)
            <4>1. Guarded(search.at) \in 0..Ceiling
                BY <1>1, <2>1, <2>4
            <4>2. QED
                BY <1>2, <3>1, <4>1 DEF Stages
        <3>3. RearmTypeInv' /\ SearchInOrder'
            BY <1>1, <1>2, <1>3, <1>7, <3>2 DEF RearmTypeInv, SearchInOrder, Delays
        <3>4. PassedSustained'
            <4>1. Guarded(minimum') = search'.at /\ search'.at \in Nat /\ minimum' >= ability'.pair
                BY <1>4, <1>7, <2>1, <3>2 DEF Guarded
            <4>2. QED
                BY <1>5, <3>2, <4>1 DEF PassedSustained, Guarded
        <3>5. (glitches' = 0 => FailedBelow') /\ RearmFound'
            <4>1. Guarded(minimum') = search'.at
                BY <2>1, <3>2 DEF Guarded
            <4>2. \A d \in Guarded(minimum')..search'.at - 1 : FALSE
                BY <1>2, <2>1, <3>2, <4>1
            <4>3. QED
                BY <1>2, <1>7, <2>1, <2>2, <3>2, <4>2 DEF FailedBelow, RearmFound, Guarded
        <3>6. QED
            BY <1>7, <3>3, <3>4, <3>5 DEF RearmIInv
    <2>5. QED
        BY <2>3, <2>4
<1>12. CASE search.stage \in {"burst", "exposures"}
    <2>1. PICK next \in {"exposures", "done"} :
              /\ search' = [search EXCEPT !.stage = next]
              /\ next = IF search.stage = "burst" THEN "exposures" ELSE "done"
        BY <1>12 DEF Onward
    <2>2. /\ search' \in [stage : Stages, at : 0..Ceiling, low : 0..Ceiling, high : 0..Ceiling]
          /\ search'.stage = next /\ search'.at = search.at /\ minimum' = minimum
        BY <1>1, <1>2, <1>12, <2>1 DEF Stages
    <2>3. RearmTypeInv' /\ SearchInOrder'
        BY <1>1, <1>2, <1>3, <1>7, <2>1, <2>2 DEF RearmTypeInv, SearchInOrder, Delays
    <2>4. search.at >= ability.burst /\ (search.stage = "exposures" => search.at >= ability.exposures)
        BY <1>12 DEF Needed, RearmIInv, PassedSustained
    <2>5. PassedSustained'
        BY <1>2, <1>3, <1>5, <1>7, <1>12, <2>1, <2>2, <2>4 DEF PassedSustained, RearmIInv, Guarded
    <2>6. (glitches' = 0 => FailedBelow') /\ RearmFound'
        BY <1>2, <1>7, <1>12, <2>1, <2>2 DEF FailedBelow, RearmFound, RearmIInv, Guarded, Sustains
    <2>7. QED
        BY <1>7, <2>3, <2>5, <2>6 DEF RearmIInv
<1>13. QED
    BY <1>2, <1>8, <1>9, <1>10, <1>11, <1>12 DEF Searching, Stages

\* A candidate that failed takes the search back: to a longer delay, or to its end.
LEMMA Back ==
    ASSUME RearmIInv, Searching, search' = Backward, session' = "clean",
           glitches' \in 0..MaxGlitches, glitches' = 0 => glitches = 0 /\ search.at < Needed,
           UNCHANGED <<outcomes, minimum, ability>>
    PROVE  RearmIInv'
<1>1. Ceiling \in Nat /\ MaxGlitches \in Nat /\ 0 \in 0..Ceiling /\ Jump \in Nat \ {0}
    BY RearmAssumption
<1>2. /\ search \in [stage : Stages, at : 0..Ceiling, low : 0..Ceiling, high : 0..Ceiling]
      /\ outcomes \in [0..Ceiling -> {"none", "passed", "failed"}] /\ minimum \in 0..Ceiling
      /\ ability \in [pair : 0..Ceiling + 1, burst : 0..Ceiling + 1, exposures : 0..Ceiling + 1]
    BY DEF RearmIInv, RearmTypeInv, Delays
<1>3. \A d \in Delays' : outcomes'[d] = "passed" => d >= ability'.pair
    BY <1>2 DEF RearmIInv, PassedSustained, Delays
<1>4. glitches' = 0 /\ search.stage \in {"high", "zero", "bisect"} =>
          \A d \in Delays' : outcomes'[d] = "failed" => d < ability'.pair
    BY <1>2 DEF RearmIInv, FailedBelow, Delays
<1>5. session' = "clean" /\ glitches' \in 0..MaxGlitches' /\ ability' = ability /\ minimum' = minimum
      /\ outcomes' = outcomes
    OBVIOUS
<1>6. ASSUME search' = [search EXCEPT !.stage = "failed"],
             glitches' = 0 => \A d \in Delays : d >= Guarded(ability.pair) => ~Sustains(d)
      PROVE  RearmIInv'
    <2>1. /\ search' \in [stage : Stages, at : 0..Ceiling, low : 0..Ceiling, high : 0..Ceiling]
          /\ search'.stage = "failed"
        BY <1>2, <1>6 DEF Stages
    <2>2. RearmTypeInv' /\ SearchInOrder'
        BY <1>2, <1>5, <2>1 DEF RearmTypeInv, SearchInOrder, Delays
    <2>3. PassedSustained' /\ (glitches' = 0 => FailedBelow') /\ RearmFound'
        BY <1>2, <1>3, <1>5, <1>6, <2>1 DEF PassedSustained, FailedBelow, RearmFound, Delays, Sustains, Guarded
    <2>4. QED
        BY <1>5, <2>2, <2>3 DEF RearmIInv
<1>7. CASE search.stage = "high"
    <2>1. search.at >= 1
        BY <1>7 DEF RearmIInv, SearchInOrder
    <2>2. CASE search.at >= Ceiling
        <3>1. search' = [search EXCEPT !.stage = "failed"]
            BY <1>7, <2>2 DEF Backward
        <3>2. ability.pair \in Nat /\ Guarded(ability.pair) \in Nat /\ Guarded(ability.pair) > ability.pair
            BY <1>1, <1>2, Guards
        <3>3. glitches' = 0 => search.at < ability.pair
            BY <1>7 DEF Needed
        <3>4. glitches' = 0 => \A d \in Delays : ~(d >= Guarded(ability.pair))
            BY <1>1, <1>2, <2>2, <3>2, <3>3 DEF Delays
        <3>5. QED
            BY <1>6, <3>1, <3>4
    <2>3. CASE ~(search.at >= Ceiling)
        <3>1. PICK to \in 0..Ceiling : to = Lesser(Ceiling, search.at + Jump) /\ to >= 1
            BY <1>1, <1>2, <2>1 DEF Lesser
        <3>2. search' = [search EXCEPT !.at = to]
            BY <1>7, <2>3, <3>1 DEF Backward
        <3>3. /\ search' \in [stage : Stages, at : 0..Ceiling, low : 0..Ceiling, high : 0..Ceiling]
              /\ search'.stage = "high" /\ search'.at >= 1
            BY <1>2, <1>7, <3>1, <3>2
        <3>4. RearmTypeInv' /\ SearchInOrder'
            BY <1>2, <1>5, <3>3 DEF RearmTypeInv, SearchInOrder, Delays
        <3>5. PassedSustained' /\ (glitches' = 0 => FailedBelow') /\ RearmFound'
            BY <1>2, <1>3, <1>4, <1>5, <1>7, <3>3 DEF PassedSustained, FailedBelow, RearmFound
        <3>6. QED
            BY <1>5, <3>4, <3>5 DEF RearmIInv
    <2>4. QED
        BY <2>2, <2>3
<1>8. ASSUME NEW low \in 1..Ceiling, search' = Bisected(low), low <= search.high,
             search.stage \in {"zero", "bisect"}, glitches' = 0 => low <= ability.pair
      PROVE  RearmIInv'
    <2>1. search.high \in Nat /\ low \in Nat /\ search.high <= Ceiling
        BY <1>2
    <2>2. PICK middle \in 0..Ceiling : middle = Middle(low, search.high) /\ low <= middle
                                       /\ middle <= search.high
        BY <1>1, <1>8, <2>1, Middles
    <2>3. PICK next \in {"verify", "bisect"} : next = IF low = search.high THEN "verify" ELSE "bisect"
        OBVIOUS
    <2>4. search' = [search EXCEPT !.stage = next, !.low = low, !.at = middle]
        BY <1>8, <2>2, <2>3 DEF Bisected
    <2>5. low \in 0..Ceiling /\ middle \in 0..Ceiling /\ next \in Stages
        BY <2>1, <1>8, <2>2, <2>3 DEF Stages
    <2>6. /\ search' \in [stage : Stages, at : 0..Ceiling, low : 0..Ceiling, high : 0..Ceiling]
          /\ search'.stage = next /\ search'.at = middle /\ search'.low = low /\ search'.high = search.high
        BY <1>2, <2>4, <2>5
    <2>7. next = "bisect" => 1 <= low /\ low < search.high
        BY <1>8, <2>1, <2>3
    <2>8. RearmTypeInv' /\ SearchInOrder'
        BY <1>2, <1>5, <2>2, <2>3, <2>6, <2>7 DEF RearmTypeInv, SearchInOrder, Delays, Middle
    <2>9. glitches' = 0 => ability.pair <= search.high
        BY <1>8 DEF RearmIInv, FailedBelow
    <2>10. next = "verify" /\ glitches' = 0 => middle = ability.pair
        BY <1>2, <1>8, <2>1, <2>2, <2>3, <2>9
    <2>11. PassedSustained'
        BY <1>3, <2>3, <2>6 DEF PassedSustained
    <2>12. (glitches' = 0 => FailedBelow') /\ RearmFound'
        BY <1>4, <1>5, <1>8, <2>3, <2>6, <2>9, <2>10 DEF FailedBelow, RearmFound
    <2>13. QED
        BY <1>5, <2>8, <2>11, <2>12 DEF RearmIInv
<1>9. CASE search.stage = "zero"
    <2>1. search.at = 0 /\ search.high >= 1 /\ search' = Bisected(1) /\ (glitches' = 0 => 0 < ability.pair)
        BY <1>9 DEF RearmIInv, SearchInOrder, Backward, Needed
    <2>2. 1 \in 1..Ceiling /\ 1 <= search.high /\ (glitches' = 0 => 1 <= ability.pair)
        BY <1>1, <1>2, <2>1
    <2>3. QED
        BY <1>8, <1>9, <2>1, <2>2
<1>10. CASE search.stage = "bisect"
    <2>1. /\ 1 <= search.low /\ search.low < search.high /\ search.at = Middle(search.low, search.high)
          /\ search' = Bisected(search.at + 1) /\ (glitches' = 0 => search.at < ability.pair)
        BY <1>10 DEF RearmIInv, SearchInOrder, Backward, Needed
    <2>2. search.at < search.high
        BY <1>2, <2>1, Middles
    <2>3. /\ search.at + 1 \in 1..Ceiling /\ search.at + 1 <= search.high
          /\ glitches' = 0 => search.at + 1 <= ability.pair
        BY <1>1, <1>2, <2>1, <2>2
    <2>4. QED
        BY <1>8, <1>10, <2>1, <2>3
<1>11. CASE search.stage \in {"verify", "burst", "exposures"}
    <2>1. search.stage = "verify" => glitches' # 0
        BY <1>2, <1>11 DEF Needed, RearmIInv, FailedBelow
    <2>2. glitches' = 0 => ~Sustains(search.at)
        BY <1>2, <1>11, <2>1 DEF Needed, Sustains
    <2>3. glitches' = 0 => /\ minimum = ability.pair
                           /\ \A d \in Guarded(minimum)..search.at - 1 : ~Sustains(d)
        BY <1>11, <2>1 DEF RearmIInv, FailedBelow
    <2>4. Guarded(minimum) \in Nat
        BY <1>2, Guards
    <2>5. glitches' = 0 => \A d \in Guarded(minimum)..search.at : ~Sustains(d)
        <3>1. ASSUME glitches' = 0, NEW d \in Guarded(minimum)..search.at
              PROVE  ~Sustains(d)
            <4>1. d = search.at \/ d \in Guarded(minimum)..search.at - 1
                BY <1>2, <2>4
            <4>2. QED
                BY <2>2, <2>3, <3>1, <4>1
        <3>2. QED
            BY <3>1
    <2>6. CASE search.at + 1 > Ceiling
        <3>1. search' = [search EXCEPT !.stage = "failed"]
            BY <1>11, <2>6 DEF Backward
        <3>2. ASSUME glitches' = 0, NEW d \in Delays, d >= Guarded(ability.pair)
              PROVE  ~Sustains(d)
            <4>1. Guarded(ability.pair) = Guarded(minimum)
                BY <2>3, <3>2
            <4>2. d \in Guarded(minimum)..search.at
                BY <1>1, <1>2, <2>4, <2>6, <3>2, <4>1 DEF Delays
            <4>3. QED
                BY <2>5, <3>2, <4>2
        <3>3. QED
            BY <1>6, <3>1, <3>2
    <2>7. CASE ~(search.at + 1 > Ceiling)
        <3>1. PICK to \in 0..Ceiling : to = search.at + 1
            BY <1>1, <1>2, <2>7
        <3>2. search' = [search EXCEPT !.at = to]
            BY <1>2, <1>11, <2>7, <3>1 DEF Backward
        <3>3. /\ search' \in [stage : Stages, at : 0..Ceiling, low : 0..Ceiling, high : 0..Ceiling]
              /\ search'.stage = search.stage /\ search'.at = to
            BY <1>2, <3>1, <3>2
        <3>4. RearmTypeInv' /\ SearchInOrder'
            BY <1>2, <1>5, <1>11, <3>3 DEF RearmTypeInv, SearchInOrder, Delays
        <3>5. Guarded(minimum') = Guarded(minimum) /\ \A d : Sustains(d)' <=> Sustains(d)
            BY <1>5 DEF Guarded, Sustains
        <3>6. PassedSustained'
            BY <1>1, <1>2, <1>3, <1>5, <1>11, <2>4, <3>1, <3>3 DEF PassedSustained, RearmIInv, Guarded
        <3>7. to - 1 = search.at
            BY <1>2, <3>1
        <3>8. (glitches' = 0 => FailedBelow') /\ RearmFound'
            BY <1>5, <1>11, <2>1, <2>3, <2>5, <3>3, <3>7 DEF FailedBelow, RearmFound, Guarded, Sustains
        <3>9. QED
            BY <1>5, <3>4, <3>6, <3>8 DEF RearmIInv
    <2>8. QED
        BY <2>6, <2>7
<1>12. QED
    BY <1>2, <1>7, <1>9, <1>10, <1>11 DEF Searching, Stages

LEMMA RearmStep == RearmIInv /\ [RearmNext]_rearmVars => RearmIInv'
<1> SUFFICES ASSUME RearmIInv, [RearmNext]_rearmVars
             PROVE  RearmIInv'
    OBVIOUS
<1>1. Ceiling \in Nat /\ MaxGlitches \in Nat
    BY RearmAssumption
<1>2. /\ search \in [stage : Stages, at : 0..Ceiling, low : 0..Ceiling, high : 0..Ceiling]
      /\ outcomes \in [0..Ceiling -> {"none", "passed", "failed"}] /\ minimum \in 0..Ceiling
      /\ ability \in [pair : 0..Ceiling + 1, burst : 0..Ceiling + 1, exposures : 0..Ceiling + 1]
      /\ session \in {"clean", "upset"} /\ glitches \in 0..MaxGlitches
    BY DEF RearmIInv, RearmTypeInv, Delays
<1>3. CASE Probe(TRUE)
    <2>1. /\ Searching /\ search.at >= Needed /\ session = "clean" /\ search' = Onward
          /\ outcomes' = [outcomes EXCEPT ![search.at] = "passed"]
          /\ minimum' = IF search.stage = "verify" THEN search.at ELSE minimum
          /\ UNCHANGED <<ability, session, glitches>>
        BY <1>3 DEF Probe
    <2>2. QED
        BY <2>1, Forward
<1>4. CASE Probe(FALSE)
    <2>1. /\ Searching /\ search' = search /\ session' = "upset" /\ UNCHANGED <<minimum, ability>>
          /\ outcomes' = [outcomes EXCEPT ![search.at] = "failed"]
          /\ search.at < Needed \/ glitches < MaxGlitches
          /\ glitches' = IF search.at >= Needed THEN glitches + 1 ELSE glitches
        BY <1>4 DEF Probe
    <2>2. Needed \in Nat
        BY <1>1, <1>2 DEF Needed
    <2>3. /\ glitches' \in 0..MaxGlitches
          /\ glitches' = 0 => glitches = 0 /\ search.at < Needed
        BY <1>1, <1>2, <2>1, <2>2
    <2>4. /\ outcomes' \in [0..Ceiling -> {"none", "passed", "failed"}]
          /\ outcomes'[search.at] = "failed"
          /\ \A d \in 0..Ceiling : d # search.at => outcomes'[d] = outcomes[d]
        BY <1>2, <2>1
    <2>5. RearmTypeInv' /\ SearchInOrder'
        BY <1>2, <2>1, <2>3, <2>4 DEF RearmTypeInv, SearchInOrder, RearmIInv, Delays, Middle
    <2>6. search.stage \notin {"done", "failed"}
        BY <2>1 DEF Searching
    <2>7. PassedSustained'
        BY <1>2, <2>1, <2>4, <2>6 DEF PassedSustained, RearmIInv, Delays, Guarded
    <2>8. Needed' = Needed
        BY <2>1 DEF Needed
    <2>9. search.stage \in {"high", "zero", "bisect"} => Needed = ability.pair
        BY DEF Needed
    <2>10. glitches' = 0 => FailedBelow'
        BY <1>2, <2>1, <2>3, <2>4, <2>6, <2>8, <2>9 DEF FailedBelow, RearmIInv, Delays, Guarded, Sustains
    <2>11. RearmFound'
        BY <2>1, <2>6 DEF RearmFound
    <2>12. QED
        BY <2>1, <2>5, <2>7, <2>10, <2>11 DEF RearmIInv
<1>5. CASE Recall
    <2>1. /\ Searching /\ session = "clean" /\ ~Fresh
          /\ search' = IF outcomes[search.at] = "passed" THEN Onward ELSE Backward
          /\ UNCHANGED <<outcomes, minimum, ability, session, glitches>>
        BY <1>5 DEF Recall
    <2>2. search.stage \in {"high", "zero", "bisect"} /\ outcomes[search.at] \in {"passed", "failed"}
        BY <1>2, <2>1 DEF Fresh, Searching, Stages
    <2>3. Needed = ability.pair
        BY <2>2 DEF Needed
    <2>4. CASE outcomes[search.at] = "passed"
        <3>1. search.at >= Needed
            BY <1>2, <2>3, <2>4 DEF RearmIInv, PassedSustained, Delays
        <3>2. outcomes' = [outcomes EXCEPT ![search.at] = "passed"]
            BY <1>2, <2>1, <2>4
        <3>3. QED
            BY <2>1, <2>2, <2>4, <3>1, <3>2, Forward
    <2>5. CASE outcomes[search.at] = "failed"
        <3>1. glitches = 0 => search.at < Needed
            BY <1>2, <2>2, <2>3, <2>5 DEF RearmIInv, FailedBelow, Delays
        <3>2. glitches' \in 0..MaxGlitches /\ glitches' = glitches /\ session' = "clean" /\ search' = Backward
            BY <1>2, <2>1, <2>5
        <3>3. QED
            BY <2>1, <3>1, <3>2, Back
    <2>6. QED
        BY <2>2, <2>4, <2>5
<1>6. CASE Recover(TRUE)
    <2>1. /\ Searching /\ session = "upset" /\ session' = "clean" /\ search' = Backward
          /\ UNCHANGED <<outcomes, minimum, ability, glitches>>
        BY <1>6 DEF Recover
    <2>2. glitches = 0 => search.at < Needed
        BY <2>1 DEF RearmIInv, FailedBelow
    <2>3. glitches' \in 0..MaxGlitches /\ (glitches' = 0 => glitches = 0 /\ search.at < Needed)
        BY <1>2, <2>1, <2>2
    <2>4. QED
        BY <2>1, <2>3, Back
<1>7. CASE Recover(FALSE)
    <2>1. /\ session' = session /\ search' = [search EXCEPT !.stage = "failed"]
          /\ glitches' = glitches + 1 /\ glitches < MaxGlitches /\ UNCHANGED <<outcomes, minimum, ability>>
        BY <1>7 DEF Recover
    <2>2. /\ search' \in [stage : Stages, at : 0..Ceiling, low : 0..Ceiling, high : 0..Ceiling]
          /\ search'.stage = "failed"
        BY <1>2, <2>1 DEF Stages
    <2>3. glitches' \in 0..MaxGlitches /\ glitches' # 0
        BY <1>1, <1>2, <2>1
    <2>4. RearmTypeInv' /\ SearchInOrder'
        BY <1>2, <2>1, <2>2, <2>3 DEF RearmTypeInv, SearchInOrder, Delays
    <2>5. PassedSustained' /\ RearmFound'
        BY <2>1, <2>2, <2>3 DEF PassedSustained, RearmFound, RearmIInv, Delays
    <2>6. QED
        BY <2>1, <2>3, <2>4, <2>5 DEF RearmIInv
<1>8. CASE UNCHANGED rearmVars
    BY <1>8 DEF rearmVars, RearmIInv, RearmTypeInv, SearchInOrder, PassedSustained, FailedBelow,
                RearmFound, Needed, Searching, Sustains, Guarded, Delays
<1>9. QED
    BY <1>3, <1>4, <1>5, <1>6, <1>7, <1>8 DEF RearmNext

LEMMA RearmIsSound == RearmIInv => RearmTypeInv /\ RearmProven /\ RearmFound
<1> SUFFICES ASSUME RearmIInv
             PROVE  RearmProven
    BY DEF RearmIInv
<1>1. /\ search.at \in 0..Ceiling /\ search.stage \in Stages
      /\ ability.pair \in Nat /\ ability.burst \in Nat /\ ability.exposures \in Nat
    BY RearmAssumption DEF RearmIInv, RearmTypeInv
<1>2. QED
    BY <1>1 DEF RearmIInv, PassedSustained, FailedBelow, RearmProven, Sustains

(* ---- The selection of the primitives ---- *)

\* Where the selection is: the primitive in hand is one of them, it passed every bracket before the one
\* in hand, and the samples are of a bracket that something passed.
TurnKept ==
    /\ camera \in [fires : [Names -> SUBSET Shots], takes : [Names -> 1..Slowest]]
    /\ turn.primitive \in 1..Len(Primitives)
    /\ stage = "cold" => turn.primitive = 1
    /\ stage \in {"cold", "single"} => turn.samples < Trials
    /\ stage = "bracket" => turn.size \in Sizes /\ \A n \in Sizes : n < turn.size => Current \in proven[n]
    /\ stage = "sample" => turn.size \in Supported /\ turn.rejected <= Wanted(turn.size)
\* What passed fires the camera, and only what passed is published, each in its stage.
PublishedProven ==
    /\ \A n \in Shots : \A p \in proven[n] : n \in camera.fires[p]
    /\ \A n \in Shots : chosen[n] # Nobody => chosen[n] \in proven[n]
    /\ stage \in {"cold", "single", "select"} => chosen[1] = Nobody
    /\ stage \in {"cold", "single", "select", "bracket", "timing"} => \A n \in Sizes : chosen[n] = Nobody
    /\ stage \in {"bracket", "timing", "sample", "reopen", "qualify"} => chosen[1] # Nobody
    /\ stage = "sample" => \A n \in Supported : n < turn.size => chosen[n] # Nobody
    /\ stage \in {"reopen", "qualify"} => \A n \in Supported : chosen[n] # Nobody
\* One primitive passed every bracket of the timing, and they publish no other.
TimingShared ==
    /\ stage \in {"cold", "single", "select", "bracket", "timing"} => timing.sizes = {}
    /\ \A n \in timing.sizes : /\ timing.primitive \in proven[n]
                               /\ chosen[n] # Nobody => chosen[n] = timing.primitive
    /\ stage \in {"sample", "reopen", "qualify"} /\ Pairs # {} => Cardinality(timing.sizes) = 2
\* A primitive that a single photo rejected is remembered until the session is opened again.
RejectionKept ==
    /\ stage = "single" /\ ~exploratory => \A i \in 1..turn.primitive - 1 : Primitives[i] \in proven[1]
    /\ stage \notin {"cold", "single"} /\ ~exploratory => proven[1] = Names
    /\ stage = "qualify" /\ exploratory => ~upset
\* "capture" loses only to a primitive that is more than 50 ms faster.
CapturePreferred ==
    chosen[1] # Nobody /\ "capture" \in proven[1] /\ chosen[1] # "capture" =>
        peaks["capture"][1] > peaks[chosen[1]][1] + 1
SelectionIInv ==
    /\ SelectionTypeInv /\ ~retested
    /\ TurnKept /\ PublishedProven /\ TimingShared /\ RejectionKept /\ CapturePreferred

\* What the selection is given.
LEMMA SelectionGiven ==
    /\ Len(Primitives) \in Nat \ {0}
    /\ \A i \in 1..Len(Primitives) : Primitives[i] \in Names
    /\ \A p \in Names : \E i \in 1..Len(Primitives) : p = Primitives[i]
    /\ Nobody \notin Names /\ Names # {}
    /\ Sizes \subseteq Nat \ {0, 1} /\ IsFiniteSet(Sizes) /\ Sizes \subseteq Shots
    /\ 1 \in Shots /\ 1 \notin Sizes
    /\ Trials \in Nat \ {0} /\ Slowest \in Nat \ {0} /\ MaxFlops \in Nat
BY SelectionAssumption DEF Names, Shots, ToSet

\* The least number of a set.
LEMMA LeastNumber ==
    ASSUME NEW S \in SUBSET Nat, S # {}
    PROVE  /\ \E x \in S : \A y \in S : x <= y
           /\ Min(S) \in S /\ \A y \in S : Min(S) <= y
<1>1. \E x \in S : \A y \in S : ~(<<y, x>> \in OpToRel(<, Nat))
    BY WFMin, NatLessThanWellFounded
<1>2. PICK x \in S : \A y \in S : ~(<<y, x>> \in OpToRel(<, Nat))
    BY <1>1
<1>3. ASSUME NEW y \in S, ~(x <= y)
      PROVE  FALSE
    <2>1. y \in Nat /\ x \in Nat /\ y < x
        BY <1>3
    <2>2. <<y, x>> \in Nat \X Nat
        BY <2>1
    <2>3. <<y, x>> \in OpToRel(<, Nat)
        BY <2>1, <2>2 DEF OpToRel
    <2>4. QED
        BY <1>2, <2>3
<1>4. \E z \in S : \A y \in S : z <= y
    BY <1>3
<1>5. QED
    BY <1>4 DEF Min

\* Of what is compared by two numbers, one after the other, something is least.
LEMMA LeastOfTwo ==
    ASSUME NEW S, S # {}, NEW f \in [S -> Nat], NEW g \in [S -> Nat]
    PROVE  \E p \in S : \A q \in S : f[p] < f[q] \/ (f[p] = f[q] /\ g[p] <= g[q])
<1>1. PICK m \in {f[q] : q \in S} : \A y \in {f[q] : q \in S} : m <= y
    <2>1. {f[q] : q \in S} \in SUBSET Nat /\ {f[q] : q \in S} # {}
        OBVIOUS
    <2>2. QED
        BY <2>1, LeastNumber
<1> DEFINE T == {q \in S : f[q] = m}
<1>2. PICK k \in {g[q] : q \in T} : \A y \in {g[q] : q \in T} : k <= y
    <2>1. {g[q] : q \in T} \in SUBSET Nat /\ {g[q] : q \in T} # {}
        BY <1>1
    <2>2. QED
        BY <2>1, LeastNumber
<1>3. PICK p \in T : k = g[p]
    BY <1>2
<1>4. ASSUME NEW q \in S
      PROVE  f[p] < f[q] \/ (f[p] = f[q] /\ g[p] <= g[q])
    <2>1. f[p] = m /\ f[q] \in Nat /\ m \in Nat /\ m <= f[q] /\ (f[q] = m => g[p] <= g[q])
        BY <1>1, <1>2, <1>3
    <2>2. QED
        BY <2>1
<1>5. QED
    BY <1>3, <1>4

\* The numbers of a finite set have a bound.
LEMMA FiniteBound ==
    ASSUME NEW S \in SUBSET Nat, IsFiniteSet(S)
    PROVE  \E b \in Nat : \A x \in S : x <= b
<1>1. PICK all \in Seq(S) : \A x \in S : \E n \in 1..Len(all) : all[n] = x
    BY DEF IsFiniteSet
<1> DEFINE Bounded(n) == \E b \in Nat : \A i \in 1..n : all[i] <= b
<1> DEFINE Unbounded == {n \in Nat : n <= Len(all) /\ ~Bounded(n)}
<1>2. Len(all) \in Nat /\ \A i \in 1..Len(all) : all[i] \in Nat
    <2>1. all \in Seq(S) /\ Len(all) \in Nat
        BY <1>1
    <2>2. \A i \in 1..Len(all) : all[i] \in S
        BY <2>1
    <2>3. QED
        BY <2>1, <2>2
<1>3. ASSUME Unbounded # {}
      PROVE  FALSE
    <2>1. PICK n \in Unbounded : \A m \in Unbounded : n <= m
        BY <1>3, LeastNumber
    <2>2. Bounded(0)
        <3>1. 0 \in Nat /\ \A i \in 1..0 : all[i] <= 0
            OBVIOUS
        <3>2. QED
            BY <3>1
    <2>3. n \in Nat /\ n # 0 /\ n <= Len(all)
        BY <2>1, <2>2
    <2>4. n - 1 \in Nat /\ n - 1 <= Len(all) /\ n - 1 \notin Unbounded
        <3> HIDE DEF Unbounded
        <3>1. n - 1 \in Nat /\ n - 1 <= Len(all) /\ ~(n <= n - 1)
            BY <1>2, <2>3
        <3>2. QED
            BY <2>1, <3>1
    <2>5. Bounded(n - 1) /\ ~Bounded(n)
        BY <2>1, <2>4
    <2>6. PICK b \in Nat : \A i \in 1..n - 1 : all[i] <= b
        BY <2>5
    <2>7. PICK last \in Nat : last = all[n]
        <3>1. n \in 1..Len(all)
            BY <1>2, <2>3
        <3>2. QED
            BY <1>2, <3>1
    <2>8. PICK c \in Nat : c >= b /\ c >= last
        <3>1. b \in Nat /\ last \in Nat
            BY <2>6, <2>7
        <3>2. b + last \in Nat /\ b + last >= b /\ b + last >= last
            BY <3>1
        <3>3. QED
            BY <3>2
    <2>9. \A i \in 1..n : all[i] <= c
        <3>1. ASSUME NEW i \in 1..n
              PROVE  all[i] <= c
            <4>1. i = n \/ i \in 1..n - 1
                BY <2>3
            <4>2. CASE i = n
                BY <2>7, <2>8, <4>2
            <4>3. CASE i \in 1..n - 1
                <5>1. i \in 1..Len(all)
                    BY <1>2, <2>3, <4>3
                <5>2. PICK value \in Nat : value = all[i]
                    BY <1>2, <5>1
                <5>3. value <= b
                    BY <2>6, <4>3, <5>2
                <5>4. value \in Nat /\ b \in Nat /\ c \in Nat /\ c >= b
                    BY <2>6, <2>8, <5>2
                <5>5. value <= c
                    BY <5>3, <5>4
                <5>6. QED
                    BY <5>2, <5>5
            <4>4. QED
                BY <4>1, <4>2, <4>3
        <3>2. QED
            BY <3>1
    <2>10. Bounded(n)
        BY <2>9
    <2>11. QED
        BY <2>5, <2>10
<1>4. Bounded(Len(all))
    <2>1. Len(all) \in Nat /\ Len(all) <= Len(all) /\ Len(all) \notin Unbounded
        <3> HIDE DEF Unbounded
        <3>1. QED
            BY <1>2, <1>3
    <2>2. QED
        BY <2>1
<1>5. PICK b \in Nat : \A i \in 1..Len(all) : all[i] <= b
    BY <1>4
<1>6. QED
    BY <1>1, <1>5

\* The brackets of a pair, the smaller one first.
LEMMA PairNumbers ==
    ASSUME NEW s \in Pairs
    PROVE  /\ s \subseteq Supported /\ s \subseteq Sizes /\ Cardinality(s) = 2
           /\ Shared(s) # {} /\ Shared(s) \subseteq Names
           /\ \E a \in s, b \in s : s = {a, b} /\ a < b /\ a \in Nat /\ b \in Nat
                                    /\ Min(s) = a /\ Max(s) = b
<1>1. s \subseteq Supported /\ s \subseteq Sizes /\ Cardinality(s) = 2 /\ Shared(s) # {} /\ Shared(s) \subseteq Names
    BY DEF Pairs, kSubset, Supported, Shared
<1>2. IsFiniteSet(s) /\ s \subseteq Nat
    BY <1>1, SelectionGiven, FS_Subset
<1>3. s # {}
    BY <1>1, FS_EmptySet
<1>4. PICK x \in s : TRUE
    BY <1>3
<1>5. IsFiniteSet(s \ {x}) /\ Cardinality(s \ {x}) = 1
    BY <1>1, <1>2, <1>4, FS_RemoveElement
<1>6. PICK y : s \ {x} = {y}
    BY <1>5, FS_Singleton
<1>7. s = {x, y} /\ x # y /\ y \in s /\ x \in Nat /\ y \in Nat
    BY <1>2, <1>4, <1>6
<1>8. PICK a \in {x, y}, b \in {x, y} : s = {a, b} /\ a < b
    BY <1>7
<1>9. a \in Int /\ b \in Int /\ a \in Nat /\ b \in Nat /\ a \in s /\ b \in s
    BY <1>7, <1>8
<1>10. Min({a, b}) = a /\ Max({a, b}) = b
    BY <1>8, <1>9, MinOfTwo, MaxOfTwo
<1>11. QED
    BY <1>1, <1>8, <1>9, <1>10

\* Where a primitive stands in the order they are tried is a number.
LEMMA Position == ASSUME NEW p PROVE SelectInSeq(Primitives, LAMBDA x : x = p) \in Nat
<1> DEFINE I == {i \in 1..Len(Primitives) : Primitives[i] = p}
<1>1. I \in SUBSET Nat /\ SelectInSeq(Primitives, LAMBDA x : x = p) = IF I # {} THEN Min(I) ELSE 0
    BY SelectionGiven DEF SelectInSeq
<1>2. I # {} => Min(I) \in Nat
    BY <1>1, LeastNumber
<1>3. QED
    BY <1>1, <1>2

\* The fastest of some primitives is one of them.
LEMMA FastestIsOne ==
    ASSUME SelectionTypeInv, NEW n \in Shots, NEW ps \in SUBSET Names, ps # {}
    PROVE  Fastest(ps, n) \in ps
<1> DEFINE f == [p \in ps |-> peaks[p][n]]
           g == [p \in ps |-> SelectInSeq(Primitives, LAMBDA x : x = p)]
<1>1. f \in [ps -> Nat]
    BY SelectionGiven DEF SelectionTypeInv
<1>2. g \in [ps -> Nat]
    <2>1. \A p \in ps : SelectInSeq(Primitives, LAMBDA x : x = p) \in Nat
        BY Position
    <2>2. QED
        BY <2>1
<1>3. \E p \in ps : \A q \in ps : f[p] < f[q] \/ (f[p] = f[q] /\ g[p] <= g[q])
    <2> HIDE DEF f, g
    <2>1. QED
        BY <1>1, <1>2, LeastOfTwo
<1>4. \E p \in ps : \A q \in ps :
        \/ peaks[p][n] < peaks[q][n]
        \/ /\ peaks[p][n] = peaks[q][n]
           /\ SelectInSeq(Primitives, LAMBDA x : x = p) <= SelectInSeq(Primitives, LAMBDA x : x = q)
    BY <1>3
<1>5. QED
    BY <1>4 DEF Fastest

\* The pair of the timing is one of the pairs.
LEMMA BestPairIsOne == ASSUME Pairs # {} PROVE BestPair \in Pairs
<1>1. PICK top \in Nat : \A n \in Sizes : n <= top
    BY SelectionGiven, FiniteBound
<1> DEFINE f == [s \in Pairs |-> top - Width(s)]
           g == [s \in Pairs |-> Min(s)]
<1>2. ASSUME NEW s \in Pairs
      PROVE  Width(s) \in Nat /\ Width(s) <= top /\ Min(s) \in Nat
    <2>1. PICK a \in s, b \in s : a < b /\ a \in Nat /\ b \in Nat /\ Min(s) = a /\ Max(s) = b
        BY PairNumbers
    <2>2. b <= top
        BY <1>1, <2>1, PairNumbers
    <2>3. QED
        BY <2>1, <2>2 DEF Width
<1>3. f \in [Pairs -> Nat] /\ g \in [Pairs -> Nat]
    BY <1>2
<1>4. \E s \in Pairs : \A t \in Pairs : f[s] < f[t] \/ (f[s] = f[t] /\ g[s] <= g[t])
    <2> HIDE DEF f, g
    <2>1. QED
        BY <1>3, LeastOfTwo
<1>5. PICK s \in Pairs : \A t \in Pairs : f[s] < f[t] \/ (f[s] = f[t] /\ g[s] <= g[t])
    BY <1>4
<1>6. ASSUME NEW t \in Pairs
      PROVE  Width(s) > Width(t) \/ (Width(s) = Width(t) /\ Min(s) <= Min(t))
    BY <1>2, <1>5
<1>7. \E u \in Pairs : \A t \in Pairs : Width(u) > Width(t) \/ (Width(u) = Width(t) /\ Min(u) <= Min(t))
    BY <1>6
<1>8. QED
    BY <1>7 DEF BestPair

\* The common primitive of a pair passed both of its brackets.
LEMMA CommonIsShared == ASSUME SelectionTypeInv, NEW s \in Pairs PROVE Common(s) \in Shared(s)
<1>1. PICK a \in s, b \in s : s = {a, b} /\ a \in Nat /\ b \in Nat /\ Min(s) = a /\ Max(s) = b
    BY PairNumbers
<1>2. a \in Shots /\ b \in Shots /\ Shared(s) # {} /\ Shared(s) \subseteq Names
    BY PairNumbers, SelectionGiven
<1> DEFINE worst(p) == Max({peaks[p][n] : n \in s})
           f == [p \in Shared(s) |-> Total(p, s)]
           g == [p \in Shared(s) |-> worst(p)]
<1>3. ASSUME NEW p \in Shared(s)
      PROVE  Total(p, s) \in Nat /\ worst(p) \in Nat
    <2>1. peaks[p][a] \in Nat /\ peaks[p][b] \in Nat
        BY <1>2, SelectionGiven DEF SelectionTypeInv
    <2>2. {peaks[p][n] : n \in s} = {peaks[p][a], peaks[p][b]}
        BY <1>1
    <2>3. peaks[p][a] \in Int /\ peaks[p][b] \in Int
        BY <2>1
    <2>4. Max({peaks[p][a], peaks[p][b]}) = IF peaks[p][a] >= peaks[p][b] THEN peaks[p][a] ELSE peaks[p][b]
        BY <2>3, MaxOfTwo
    <2>5. worst(p) \in Nat
        BY <2>1, <2>2, <2>4
    <2>6. Total(p, s) \in Nat
        BY <1>1, <2>1 DEF Total
    <2>7. QED
        BY <2>5, <2>6
<1>4. f \in [Shared(s) -> Nat] /\ g \in [Shared(s) -> Nat]
    <2> HIDE DEF worst
    <2>1. QED
        BY <1>3
<1>5. \E p \in Shared(s) : \A q \in Shared(s) : f[p] < f[q] \/ (f[p] = f[q] /\ g[p] <= g[q])
    <2> HIDE DEF f, g
    <2>1. QED
        BY <1>2, <1>4, LeastOfTwo
<1>6. \E p \in Shared(s) : \A q \in Shared(s) :
        \/ Total(p, s) < Total(q, s)
        \/ /\ Total(p, s) = Total(q, s)
           /\ worst(p) <= worst(q)
    <2> HIDE DEF worst
    <2>1. QED
        BY <1>5
<1>7. QED
    BY <1>6 DEF Common

\* A probe leaves the body as it is.
LEMMA FiresKeeps ==
    ASSUME SelectionTypeInv, TurnKept, NEW p \in Names, NEW n \in Shots, NEW passes \in BOOLEAN,
           Fires(p, n, passes)
    PROVE  /\ camera' \in [fires : [Names -> SUBSET Shots], takes : [Names -> 1..Slowest]]
           /\ camera'.fires = camera.fires /\ upset' \in BOOLEAN
           /\ flops' \in 0..MaxFlops /\ (passes => n \in camera.fires[p])
<1>1. camera' = camera /\ (passes => n \in camera.fires[p])
    BY DEF Fires
<1>2. camera' \in [fires : [Names -> SUBSET Shots], takes : [Names -> 1..Slowest]]
      /\ camera'.fires = camera.fires
    BY <1>1 DEF TurnKept
<1>3. upset' \in BOOLEAN
    BY DEF Fires, SelectionTypeInv
<1>4. flops' \in 0..MaxFlops
    <2>1. MaxFlops \in Nat /\ flops \in 0..MaxFlops
        BY SelectionGiven DEF SelectionTypeInv
    <2>2. flops' = flops \/ (flops < MaxFlops /\ flops' = flops + 1)
        BY DEF Fires
    <2>3. QED
        BY <2>1, <2>2
<1>5. QED
    BY <1>1, <1>2, <1>3, <1>4

\* A sample makes the longest one no shorter, and only that of its primitive and its size.
LEMMA PeaksKeep ==
    ASSUME SelectionTypeInv, NEW p \in Names, NEW n \in Shots, NEW takes \in 1..Slowest,
           peaks' = Longest(p, n, takes)
    PROVE  /\ peaks' \in [Names -> [Shots -> 0..Slowest]]
           /\ n # 1 => \A q \in Names : peaks'[q][1] = peaks[q][1]
<1>1. peaks \in [Names -> [Shots -> 0..Slowest]] /\ peaks[p][n] \in 0..Slowest /\ Slowest \in Nat
    BY SelectionGiven DEF SelectionTypeInv
<1>2. peaks[p][n] \in Int /\ takes \in Int
    BY <1>1
<1>3. PICK top \in 0..Slowest : top = Max({peaks[p][n], takes})
    <2>1. Max({peaks[p][n], takes}) = IF peaks[p][n] >= takes THEN peaks[p][n] ELSE takes
        BY <1>2, MaxOfTwo
    <2>2. QED
        BY <1>1, <2>1
<1>4. peaks' = [peaks EXCEPT ![p][n] = top]
    BY <1>3 DEF Longest
<1>5. QED
    BY <1>1, <1>4, SelectionGiven

Turns == [primitive : 1..Len(Primitives) + 1, size : Shots, samples : 0..Trials, rejected : 0..Trials + 1]

\* A turn begins without samples, or with the one that proved the bracket.
LEMMA TurnIs ==
    ASSUME NEW p \in 1..Len(Primitives), NEW n \in Shots
    PROVE  /\ Turn(p, n) \in Turns /\ Turn(p, n).primitive = p /\ Turn(p, n).size = n
           /\ Turn(p, n).samples = 0 /\ Turn(p, n).rejected = 0
           /\ [Turn(p, n) EXCEPT !.samples = 1] \in Turns
           /\ [Turn(p, n) EXCEPT !.samples = 1].primitive = p
           /\ [Turn(p, n) EXCEPT !.samples = 1].size = n
           /\ [Turn(p, n) EXCEPT !.samples = 1].rejected = 0
<1>1. p \in 1..Len(Primitives) + 1 /\ 0 \in 0..Trials /\ 1 \in 0..Trials /\ 0 \in 0..Trials + 1
    BY SelectionGiven
<1>2. QED
    BY <1>1 DEF Turn, Turns

\* The state, piece by piece.
LEMMA SelectionFacts ==
    ASSUME SelectionIInv
    PROVE  /\ camera \in [fires : [Names -> SUBSET Shots], takes : [Names -> 1..Slowest]]
           /\ stage \in SelectionStages /\ turn \in Turns /\ turn.primitive \in 1..Len(Primitives)
           /\ turn.size \in Shots
           /\ Current \in Names
           /\ proven \in [Shots -> SUBSET Names] /\ peaks \in [Names -> [Shots -> 0..Slowest]]
           /\ timing.sizes \subseteq Sizes /\ timing.primitive \in Names \cup {Nobody}
           /\ chosen \in [Shots -> Names \cup {Nobody}]
           /\ exploratory \in BOOLEAN /\ upset \in BOOLEAN /\ flops \in 0..MaxFlops
BY SelectionGiven DEF SelectionIInv, SelectionTypeInv, TurnKept, Current, Turns

LEMMA SelectionStarts == SelectionInit => SelectionIInv
<1> SUFFICES ASSUME SelectionInit
             PROVE  SelectionIInv
    OBVIOUS
<1>1. /\ Turn(1, 1) \in Turns /\ Turn(1, 1).primitive = 1 /\ Turn(1, 1).samples = 0
      /\ 1 \in 1..Len(Primitives)
    <2>1. 1 \in 1..Len(Primitives) /\ 1 \in Shots
        BY SelectionGiven
    <2>2. QED
        BY <2>1, TurnIs
<1>2. camera \in [fires : [Names -> SUBSET Shots], takes : [Names -> 1..Slowest]]
    BY DEF SelectionInit
<1>3. proven \in [Shots -> SUBSET Names] /\ peaks \in [Names -> [Shots -> 0..Slowest]]
      /\ chosen \in [Shots -> Names \cup {Nobody}] /\ flops \in 0..MaxFlops
      /\ timing.sizes = {} /\ timing.primitive = Nobody
    BY SelectionGiven DEF SelectionInit
<1>4. SelectionTypeInv
    BY <1>1, <1>2, <1>3 DEF SelectionInit, SelectionTypeInv, SelectionStages, Turns
<1>5. TurnKept /\ RejectionKept
    BY <1>1, <1>2, SelectionGiven DEF SelectionInit, TurnKept, RejectionKept
<1>6. PublishedProven /\ TimingShared /\ CapturePreferred
    BY <1>3, SelectionGiven DEF SelectionInit, PublishedProven, TimingShared, CapturePreferred
<1>7. QED
    BY <1>4, <1>5, <1>6 DEF SelectionInit, SelectionIInv

LEMMA ColdStartStep ==
    ASSUME SelectionIInv, NEW passes \in BOOLEAN, ColdStart(passes) PROVE SelectionIInv'
<1>1. /\ stage = "cold" /\ stage' = "single" /\ Fires(Primitives[1], 1, passes)
      /\ UNCHANGED <<turn, proven, peaks, timing, chosen, exploratory, retested>>
    BY DEF ColdStart
<1>2. Primitives[1] \in Names /\ 1 \in Shots
    BY SelectionGiven
<1>3. /\ camera' \in [fires : [Names -> SUBSET Shots], takes : [Names -> 1..Slowest]]
      /\ camera'.fires = camera.fires /\ upset' \in BOOLEAN
      /\ flops' \in 0..MaxFlops
    BY <1>1, <1>2, FiresKeeps DEF SelectionIInv
<1>4. SelectionTypeInv'
    BY <1>1, <1>3, SelectionFacts DEF SelectionTypeInv, SelectionIInv, SelectionStages, Turns
<1>5. TurnKept'
    BY <1>1, <1>3 DEF TurnKept, SelectionIInv
<1>6. PublishedProven' /\ TimingShared' /\ CapturePreferred'
    BY <1>1, <1>3 DEF PublishedProven, TimingShared, CapturePreferred, SelectionIInv
<1>7. RejectionKept'
    BY <1>1 DEF RejectionKept, TurnKept, SelectionIInv
<1>8. QED
    BY <1>1, <1>3, <1>4, <1>5, <1>6, <1>7 DEF SelectionIInv

\* After the last sample, or the first failure, of a primitive the next one has its turn.
LEMMA NextPrimitiveIs ==
    ASSUME SelectionIInv, stage = "single", NextPrimitive
    PROVE  /\ turn' \in Turns /\ turn'.primitive \in 1..Len(Primitives)
           /\ turn'.samples < Trials
           /\ \/ stage' = "single" /\ turn'.primitive = turn.primitive + 1
              \/ stage' = "select" /\ turn.primitive = Len(Primitives)
<1>1. turn.primitive \in 1..Len(Primitives) /\ Len(Primitives) \in Nat \ {0} /\ turn.size \in Shots
      /\ 1 \in Shots /\ Trials \in Nat \ {0}
    BY SelectionFacts, SelectionGiven
<1>2. CASE turn.primitive < Len(Primitives)
    <2>1. PICK next \in 1..Len(Primitives) : next = turn.primitive + 1
        BY <1>1, <1>2
    <2>2. stage' = "single" /\ turn' = Turn(next, turn.size)
        BY <1>2, <2>1 DEF NextPrimitive
    <2>3. /\ turn' \in Turns /\ turn'.primitive = next /\ turn'.samples = 0
        <3>1. next \in 1..Len(Primitives) /\ turn.size \in Shots /\ turn' = Turn(next, turn.size)
            BY <1>1, <2>1, <2>2
        <3>2. QED
            BY <3>1, TurnIs
    <2>4. QED
        BY <1>1, <2>1, <2>2, <2>3
<1>3. CASE ~(turn.primitive < Len(Primitives))
    <2>1. stage' = "select" /\ turn' = Turn(1, 1) /\ 1 \in 1..Len(Primitives)
          /\ turn.primitive = Len(Primitives)
        BY <1>1, <1>3 DEF NextPrimitive
    <2>2. /\ turn' \in Turns /\ turn'.primitive = 1 /\ turn'.samples = 0
        BY <1>1, <2>1, TurnIs
    <2>3. QED
        BY <1>1, <2>1, <2>2
<1>4. QED
    BY <1>2, <1>3

LEMMA SingleTrialStep ==
    ASSUME SelectionIInv, NEW passes \in BOOLEAN, NEW takes \in 1..Slowest, SingleTrial(passes, takes)
    PROVE  SelectionIInv'
<1>1. /\ stage = "single" /\ Fires(Current, 1, passes) /\ UNCHANGED <<timing, chosen, retested>>
    BY DEF SingleTrial
<1>2. Current \in Names /\ 1 \in Shots
    BY SelectionFacts, SelectionGiven
<1>3. /\ camera' \in [fires : [Names -> SUBSET Shots], takes : [Names -> 1..Slowest]]
      /\ camera'.fires = camera.fires /\ upset' \in BOOLEAN
      /\ flops' \in 0..MaxFlops /\ (passes => 1 \in camera.fires[Current])
    BY <1>1, <1>2, FiresKeeps DEF SelectionIInv
<1>4. peaks' \in [Names -> [Shots -> 0..Slowest]]
    <2>1. peaks' = Longest(Current, 1, takes) \/ peaks' = peaks
        BY DEF SingleTrial
    <2>2. QED
        BY <1>2, <2>1, PeaksKeep, SelectionFacts DEF SelectionIInv
<1>5. /\ turn' \in Turns /\ turn'.primitive \in 1..Len(Primitives) /\ turn'.samples < Trials
      /\ \/ stage' = "single" /\ turn'.primitive \in {turn.primitive, turn.primitive + 1}
         \/ stage' = "select" /\ turn.primitive = Len(Primitives)
    <2>1. CASE passes /\ turn.samples + 1 # Trials
        <3>1. turn' = [turn EXCEPT !.samples = @ + 1] /\ stage' = "single"
            BY <1>1, <2>1 DEF SingleTrial
        <3>2. turn.samples < Trials /\ Trials \in Nat /\ turn.samples \in 0..Trials
            BY <1>1, SelectionFacts, SelectionGiven DEF SelectionIInv, TurnKept, Turns
        <3>3. PICK more \in 0..Trials : more = turn.samples + 1 /\ more < Trials
            BY <2>1, <3>2
        <3>4. turn' = [turn EXCEPT !.samples = more]
            BY <3>1, <3>3
        <3>5. QED
            BY <3>1, <3>3, <3>4, SelectionFacts DEF Turns
    <2>2. CASE ~passes \/ turn.samples + 1 = Trials
        <3>1. NextPrimitive
            BY <2>2 DEF SingleTrial
        <3>2. QED
            BY <1>1, <3>1, NextPrimitiveIs
    <2>3. QED
        BY <2>1, <2>2
<1>6. /\ proven' \in [Shots -> SUBSET Names]
      /\ \A n \in Shots : proven[n] \subseteq proven'[n] /\ (n # 1 => proven'[n] = proven[n])
      /\ \A n \in Shots : \A p \in proven'[n] : p \in proven[n] \/ (passes /\ n = 1 /\ p = Current)
      /\ exploratory' \in BOOLEAN
      /\ ~exploratory' => ~exploratory
                          /\ (turn'.primitive = turn.primitive + 1 \/ stage' = "select"
                                => Current \in proven'[1])
    <2>1. CASE passes /\ turn.samples + 1 # Trials
        <3>1. proven' = proven /\ exploratory' = exploratory /\ stage' = "single"
              /\ turn' = [turn EXCEPT !.samples = @ + 1]
            BY <1>1, <2>1 DEF SingleTrial
        <3>2. turn'.primitive = turn.primitive /\ turn.primitive \in Nat
            BY <3>1, SelectionFacts, SelectionGiven DEF Turns
        <3>3. QED
            BY <3>1, <3>2, SelectionFacts
    <2>2. CASE passes /\ turn.samples + 1 = Trials
        <3>1. proven' = [proven EXCEPT ![1] = @ \cup {Current}] /\ exploratory' = exploratory
            BY <2>2 DEF SingleTrial
        <3>2. QED
            BY <1>2, <2>2, <3>1, SelectionFacts
    <2>3. CASE ~passes
        <3>1. proven' = proven /\ exploratory' = TRUE
            BY <2>3 DEF SingleTrial
        <3>2. QED
            BY <3>1, SelectionFacts
    <2>4. QED
        BY <2>1, <2>2, <2>3
<1>7. SelectionTypeInv'
    BY <1>1, <1>3, <1>4, <1>5, <1>6, SelectionFacts
    DEF SelectionTypeInv, SelectionIInv, SelectionStages, Turns
<1>8. TurnKept'
    BY <1>3, <1>5 DEF TurnKept
<1>9. PublishedProven'
    <2>1. ASSUME NEW n \in Shots, NEW p \in proven'[n]
          PROVE  n \in camera'.fires[p]
        BY <1>3, <1>6, <2>1 DEF SelectionIInv, PublishedProven
    <2>2. \A n \in Shots : chosen'[n] # Nobody => chosen'[n] \in proven'[n]
        BY <1>1, <1>6 DEF SelectionIInv, PublishedProven
    <2>3. QED
        BY <1>1, <1>5, <2>1, <2>2 DEF SelectionIInv, PublishedProven
<1>10. TimingShared' /\ CapturePreferred'
    BY <1>1, <1>5 DEF SelectionIInv, PublishedProven, TimingShared, CapturePreferred
<1>11. RejectionKept'
    <2>1. turn.primitive \in 1..Len(Primitives) /\ Len(Primitives) \in Nat /\ Current = Primitives[turn.primitive]
        BY SelectionFacts, SelectionGiven DEF Current
    <2>2. ~exploratory' => \A i \in 1..turn.primitive - 1 : Primitives[i] \in proven'[1]
        BY <1>1, <1>2, <1>6 DEF SelectionIInv, RejectionKept
    <2>3. ASSUME stage' = "single", ~exploratory', NEW i \in 1..turn'.primitive - 1
          PROVE  Primitives[i] \in proven'[1]
        <3>1. CASE turn'.primitive = turn.primitive
            BY <2>2, <2>3, <3>1
        <3>2. CASE turn'.primitive = turn.primitive + 1
            <4>1. i = turn.primitive \/ i \in 1..turn.primitive - 1
                BY <2>1, <2>3, <3>2
            <4>2. QED
                BY <1>6, <2>1, <2>2, <2>3, <3>2, <4>1
        <3>3. QED
            BY <1>5, <2>3, <3>1, <3>2
    <2>4. ASSUME stage' = "select", ~exploratory'
          PROVE  proven'[1] = Names
        <3>1. \A i \in 1..Len(Primitives) : Primitives[i] \in proven'[1]
            <4>1. ASSUME NEW i \in 1..Len(Primitives)
                  PROVE  Primitives[i] \in proven'[1]
                <5>1. turn.primitive = Len(Primitives)
                    BY <1>5, <2>4
                <5>2. i = turn.primitive \/ i \in 1..turn.primitive - 1
                    BY <2>1, <5>1
                <5>3. QED
                    BY <1>6, <2>1, <2>2, <2>4, <5>2
            <4>2. QED
                BY <4>1
        <3>2. Names \subseteq proven'[1]
            BY <3>1, SelectionGiven
        <3>3. proven'[1] \subseteq Names
            BY <1>2, <1>6
        <3>4. QED
            BY <3>2, <3>3
    <2>5. QED
        BY <1>5, <2>3, <2>4 DEF RejectionKept
<1>12. QED
    BY <1>1, <1>3, <1>7, <1>8, <1>9, <1>10, <1>11 DEF SelectionIInv

LEMMA SelectSingleStep == ASSUME SelectionIInv, SelectSingle PROVE SelectionIInv'
<1>1. /\ stage = "select"
      /\ UNCHANGED <<camera, proven, peaks, timing, exploratory, upset, retested, flops>>
    BY DEF SelectSingle
<1>2. 1 \in Shots /\ 1 \in 1..Len(Primitives) /\ Sizes \subseteq Nat /\ Sizes \subseteq Shots
      /\ Nobody \notin Names /\ 1 \notin Sizes
    BY SelectionGiven
<1>3. /\ proven \in [Shots -> SUBSET Names] /\ chosen \in [Shots -> Names \cup {Nobody}]
      /\ peaks \in [Names -> [Shots -> 0..Slowest]] /\ Slowest \in Nat
    BY SelectionFacts, SelectionGiven
<1>4. CASE Reliable(1) = {}
    <2>1. stage' = "failed" /\ UNCHANGED <<chosen, turn>>
        BY <1>4 DEF SelectSingle
    <2>2. SelectionTypeInv'
        BY <1>1, <2>1 DEF SelectionIInv, SelectionTypeInv, SelectionStages
    <2>3. TurnKept' /\ PublishedProven' /\ TimingShared' /\ RejectionKept' /\ CapturePreferred'
        BY <1>1, <2>1 DEF SelectionIInv, TurnKept, PublishedProven, TimingShared, RejectionKept, CapturePreferred
    <2>4. QED
        BY <1>1, <2>2, <2>3 DEF SelectionIInv
<1>5. CASE Reliable(1) # {}
    <2>1. PICK best \in proven[1] : best = Favoured(proven[1])
                                    /\ ("capture" \in proven[1] /\ best # "capture" =>
                                          peaks["capture"][1] > peaks[best][1] + 1)
        <3>1. proven[1] \in SUBSET Names /\ proven[1] # {}
            BY <1>2, <1>3, <1>5 DEF Reliable
        <3>2. PICK fastest \in proven[1] : fastest = Fastest(proven[1], 1)
            BY <1>2, <3>1, FastestIsOne DEF SelectionIInv
        <3>3. CASE "capture" \in proven[1] /\ peaks["capture"][1] <= peaks[fastest][1] + 1
            BY <3>2, <3>3 DEF Favoured
        <3>4. CASE ~("capture" \in proven[1] /\ peaks["capture"][1] <= peaks[fastest][1] + 1)
            <4>1. fastest = Favoured(proven[1])
                BY <3>2, <3>4 DEF Favoured
            <4>2. ASSUME "capture" \in proven[1]
                  PROVE  peaks["capture"][1] > peaks[fastest][1] + 1
                <5>1. peaks["capture"][1] \in Nat /\ peaks[fastest][1] \in Nat
                    BY <1>2, <1>3, <3>1, <3>2, <4>2
                <5>2. QED
                    BY <3>4, <4>2, <5>1
            <4>3. QED
                BY <3>2, <4>1, <4>2
        <3>5. QED
            BY <3>3, <3>4
    <2>2. /\ chosen' = [chosen EXCEPT ![1] = best]
          /\ stage' = IF Sizes = {} THEN "reopen" ELSE "bracket"
          /\ turn' = Turn(1, IF Sizes = {} THEN 1 ELSE Min(Sizes))
        BY <1>5, <2>1 DEF SelectSingle, Reliable
    <2>3. best \in Names /\ best # Nobody
        BY <1>2, <1>3, <2>1
    <2>4. /\ chosen' \in [Shots -> Names \cup {Nobody}] /\ chosen'[1] = best
          /\ \A n \in Sizes : chosen'[n] = chosen[n]
          /\ \A n \in Shots : n # 1 => chosen'[n] = chosen[n]
        BY <1>2, <1>3, <2>2, <2>3
    <2>5. PICK first \in Shots : /\ first = IF Sizes = {} THEN 1 ELSE Min(Sizes)
                                 /\ Sizes # {} => first \in Sizes /\ \A n \in Sizes : first <= n
        BY <1>2, LeastNumber
    <2>6. turn' \in Turns /\ turn'.primitive = 1 /\ turn'.size = first
        BY <1>2, <2>2, <2>5, TurnIs
    <2>7. SelectionTypeInv'
        BY <1>1, <2>2, <2>4, <2>6 DEF SelectionIInv, SelectionTypeInv, SelectionStages, Turns
    <2>8. TurnKept'
        <3>1. \A n \in Sizes : Sizes # {} => ~(n < first)
            BY <1>2, <2>5
        <3>2. QED
            BY <1>1, <1>2, <2>2, <2>5, <2>6, <3>1 DEF SelectionIInv, TurnKept
    <2>9. Supported' = {n \in Sizes : proven[n] # {}}
        BY <1>1 DEF Supported
    <2>10. PublishedProven'
        <3>1. \A n \in Shots : chosen'[n] # Nobody => chosen'[n] \in proven'[n]
            BY <1>1, <2>1, <2>4 DEF SelectionIInv, PublishedProven
        <3>2. stage' = "reopen" => Supported' = {}
            BY <2>2, <2>9
        <3>3. QED
            BY <1>1, <2>2, <2>3, <2>4, <3>1, <3>2 DEF SelectionIInv, PublishedProven
    <2>11. TimingShared'
        <3>1. Supported' = Supported /\ Pairs' = Pairs
            BY <1>1 DEF Supported, Pairs
        <3>2. Sizes = {} => Pairs = {}
            BY PairNumbers
        <3>3. QED
            BY <1>1, <2>2, <3>1, <3>2 DEF SelectionIInv, TimingShared
    <2>12. RejectionKept'
        BY <1>1, <2>2 DEF SelectionIInv, RejectionKept
    <2>13. CapturePreferred'
        BY <1>1, <2>1, <2>4 DEF CapturePreferred
    <2>14. QED
        BY <1>1, <2>7, <2>8, <2>10, <2>11, <2>12, <2>13 DEF SelectionIInv
<1>6. QED
    BY <1>4, <1>5

\* After a bracket the next one has its turn, or the next primitive from the smallest.
LEMMA NextShotIs ==
    ASSUME SelectionIInv, stage = "bracket", NEW left \in SUBSET Sizes, NextShot(left)
    PROVE  /\ turn' \in Turns
           /\ \/ stage' = "bracket" /\ left # {} /\ turn'.primitive = turn.primitive
                 /\ turn'.size \in left /\ \A n \in left : turn'.size <= n
              \/ stage' = "bracket" /\ turn'.primitive \in 1..Len(Primitives)
                 /\ turn'.size \in Sizes /\ \A n \in Sizes : turn'.size <= n
              \/ stage' = "timing" /\ turn'.primitive \in 1..Len(Primitives)
<1>1. turn.primitive \in 1..Len(Primitives) /\ Len(Primitives) \in Nat \ {0} /\ 1 \in Shots
      /\ Sizes \subseteq Nat /\ Sizes \subseteq Shots /\ turn.size \in Sizes
    BY SelectionFacts, SelectionGiven DEF SelectionIInv, TurnKept
<1>2. CASE left # {}
    <2>1. PICK next \in left : next = Min(left) /\ \A n \in left : next <= n
        <3>1. left \in SUBSET Nat
            BY <1>1
        <3>2. QED
            BY <1>2, <3>1, LeastNumber
    <2>2. stage' = "bracket" /\ turn' = Turn(turn.primitive, next) /\ next \in Shots
        BY <1>1, <1>2, <2>1 DEF NextShot
    <2>3. turn' \in Turns /\ turn'.primitive = turn.primitive /\ turn'.size = next
        BY <1>1, <2>2, TurnIs
    <2>4. QED
        BY <1>2, <2>1, <2>2, <2>3
<1>3. CASE left = {} /\ turn.primitive < Len(Primitives)
    <2>1. PICK next \in 1..Len(Primitives) : next = turn.primitive + 1
        BY <1>1, <1>3
    <2>2. PICK least \in Sizes : least = Min(Sizes) /\ \A n \in Sizes : least <= n
        BY <1>1, LeastNumber
    <2>3. stage' = "bracket" /\ turn' = Turn(next, least) /\ least \in Shots
        BY <1>1, <1>3, <2>1, <2>2 DEF NextShot
    <2>4. turn' \in Turns /\ turn'.primitive = next /\ turn'.size = least
        BY <2>1, <2>3, TurnIs
    <2>5. QED
        BY <2>1, <2>2, <2>3, <2>4
<1>4. CASE left = {} /\ ~(turn.primitive < Len(Primitives))
    <2>1. stage' = "timing" /\ turn' = Turn(1, 1)
        BY <1>4 DEF NextShot
    <2>2. 1 \in 1..Len(Primitives)
        BY <1>1
    <2>3. turn' \in Turns /\ turn'.primitive = 1
        BY <1>1, <2>1, <2>2, TurnIs
    <2>4. QED
        BY <2>1, <2>2, <2>3
<1>5. QED
    BY <1>2, <1>3, <1>4

LEMMA BracketTrialStep ==
    ASSUME SelectionIInv, NEW passes \in BOOLEAN, NEW takes \in 1..Slowest, BracketTrial(passes, takes)
    PROVE  SelectionIInv'
<1>1. /\ stage = "bracket" /\ Fires(Current, turn.size, passes) /\ UNCHANGED <<timing, chosen, exploratory>>
      /\ retested' = (retested \/ \E n \in Sizes : n < turn.size /\ Current \notin proven[n])
      /\ turn.size \in Sizes /\ \A n \in Sizes : n < turn.size => Current \in proven[n]
    BY DEF BracketTrial, SelectionIInv, TurnKept
<1>2. Current \in Names /\ turn.size \in Shots /\ turn.size # 1 /\ Sizes \subseteq Nat /\ Sizes \subseteq Shots
    BY <1>1, SelectionFacts, SelectionGiven
<1>3. /\ camera' \in [fires : [Names -> SUBSET Shots], takes : [Names -> 1..Slowest]]
      /\ camera'.fires = camera.fires /\ upset' \in BOOLEAN
      /\ flops' \in 0..MaxFlops /\ (passes => turn.size \in camera.fires[Current])
    BY <1>1, <1>2, FiresKeeps DEF SelectionIInv
<1>4. ~retested' /\ retested' \in BOOLEAN
    BY <1>1 DEF SelectionIInv
<1>5. peaks' \in [Names -> [Shots -> 0..Slowest]] /\ \A q \in Names : peaks'[q][1] = peaks[q][1]
    <2>1. peaks' = Longest(Current, turn.size, takes) \/ peaks' = peaks
        BY DEF BracketTrial
    <2>2. QED
        BY <1>2, <2>1, PeaksKeep, SelectionFacts DEF SelectionIInv
<1>6. PICK left \in SUBSET Sizes :
          /\ NextShot(left)
          /\ left = IF passes THEN Larger(turn.size) ELSE {}
          /\ proven' = IF passes THEN [proven EXCEPT ![turn.size] = @ \cup {Current}] ELSE proven
    BY DEF BracketTrial, Larger, AfterFailure
<1>7. /\ proven' \in [Shots -> SUBSET Names]
      /\ \A n \in Shots : proven[n] \subseteq proven'[n]
      /\ proven'[1] = proven[1]
      /\ \A n \in Shots : \A p \in proven'[n] : p \in proven[n] \/ (passes /\ n = turn.size /\ p = Current)
      /\ passes => Current \in proven'[turn.size]
    <2>1. CASE passes
        <3>1. proven' = [proven EXCEPT ![turn.size] = @ \cup {Current}]
            BY <1>6, <2>1
        <3>2. /\ proven \in [Shots -> SUBSET Names] /\ 1 \in Shots
              /\ proven'[turn.size] = proven[turn.size] \cup {Current}
              /\ \A n \in Shots : n # turn.size => proven'[n] = proven[n]
            BY <1>2, <3>1, SelectionFacts, SelectionGiven
        <3>3. proven' \in [Shots -> SUBSET Names]
            BY <1>2, <3>1, <3>2
        <3>4. QED
            BY <1>2, <2>1, <3>2, <3>3
    <2>2. CASE ~passes
        BY <1>6, <2>2, SelectionFacts
    <2>3. QED
        BY <2>1, <2>2
<1>8. turn' \in Turns /\ turn'.primitive \in 1..Len(Primitives) /\ stage' \in {"bracket", "timing"}
    BY <1>1, <1>6, NextShotIs, SelectionFacts
<1>9. SelectionTypeInv'
    BY <1>1, <1>3, <1>4, <1>5, <1>7, <1>8, SelectionFacts
    DEF SelectionTypeInv, SelectionIInv, SelectionStages, Turns
<1>10. TurnKept'
    <2>1. ASSUME stage' = "bracket"
          PROVE  turn'.size \in Sizes /\ \A n \in Sizes : n < turn'.size => Current' \in proven'[n]
        <3>1. CASE turn'.size \in Sizes /\ \A n \in Sizes : turn'.size <= n
            <4>1. PICK least \in Sizes : least = turn'.size
                BY <3>1
            <4>2. \A n \in Sizes : ~(n < least)
                BY <1>2, <3>1, <4>1
            <4>3. QED
                BY <3>1, <4>1, <4>2
        <3>2. CASE left # {} /\ turn'.primitive = turn.primitive /\ turn'.size \in left
                   /\ \A n \in left : turn'.size <= n
            <4>1. Current' = Current
                BY <3>2 DEF Current
            <4>2. passes /\ left = {m \in Sizes : m > turn.size}
                BY <1>6, <3>2 DEF Larger
            <4>3. ASSUME NEW n \in Sizes, n < turn'.size
                  PROVE  Current \in proven'[n]
                <5>1. n \in Nat /\ turn.size \in Nat /\ turn'.size \in Nat /\ turn'.size \in Sizes
                    BY <1>1, <1>2, <3>2, <4>2
                <5>2. ~(n > turn.size)
                    BY <3>2, <4>2, <4>3, <5>1
                <5>3. n = turn.size \/ n < turn.size
                    BY <5>1, <5>2
                <5>4. QED
                    BY <1>1, <1>2, <1>7, <4>2, <5>3
            <4>4. QED
                BY <3>2, <4>1, <4>2, <4>3
        <3>3. QED
            BY <1>1, <1>6, <2>1, <3>1, <3>2, NextShotIs
    <2>2. QED
        BY <1>3, <1>8, <2>1 DEF TurnKept
<1>11. PublishedProven'
    <2>1. ASSUME NEW n \in Shots, NEW p \in proven'[n]
          PROVE  n \in camera'.fires[p]
        BY <1>3, <1>7, <2>1 DEF SelectionIInv, PublishedProven
    <2>2. \A n \in Shots : chosen'[n] # Nobody => chosen'[n] \in proven'[n]
        BY <1>1, <1>7 DEF SelectionIInv, PublishedProven
    <2>3. QED
        BY <1>1, <1>8, <2>1, <2>2 DEF SelectionIInv, PublishedProven
<1>12. TimingShared'
    BY <1>1, <1>8 DEF SelectionIInv, TimingShared
<1>13. RejectionKept'
    BY <1>1, <1>7, <1>8 DEF SelectionIInv, RejectionKept
<1>14. CapturePreferred'
    <2>1. ASSUME chosen[1] # Nobody, "capture" \in proven[1]
          PROVE  peaks'["capture"][1] = peaks["capture"][1] /\ peaks'[chosen[1]][1] = peaks[chosen[1]][1]
        BY <1>5, <2>1, SelectionFacts, SelectionGiven
    <2>2. QED
        BY <1>1, <1>7, <2>1 DEF SelectionIInv, CapturePreferred
<1>15. QED
    BY <1>3, <1>4, <1>9, <1>10, <1>11, <1>12, <1>13, <1>14 DEF SelectionIInv

\* A bracket that something passed has a least one, and a fastest primitive.
LEMMA SupportedIs ==
    ASSUME SelectionIInv
    PROVE  /\ Supported \subseteq Sizes /\ Supported \subseteq Shots /\ Supported \subseteq Nat
           /\ Supported # {} => Min(Supported) \in Supported /\ \A n \in Supported : Min(Supported) <= n
           /\ \A n \in Supported : Fastest(proven[n], n) \in proven[n]
<1>1. Supported \subseteq Sizes /\ Supported \subseteq Shots /\ Supported \in SUBSET Nat
    BY SelectionGiven DEF Supported
<1>2. \A n \in Supported : proven[n] \in SUBSET Names /\ proven[n] # {}
    BY <1>1, SelectionFacts DEF Supported
<1>3. \A n \in Supported : Fastest(proven[n], n) \in proven[n]
    BY <1>1, <1>2, FastestIsOne DEF SelectionIInv
<1>4. QED
    BY <1>1, <1>3, LeastNumber

LEMMA SelectTimingStep == ASSUME SelectionIInv, SelectTiming PROVE SelectionIInv'
<1>1. /\ stage = "timing"
      /\ UNCHANGED <<camera, proven, peaks, chosen, exploratory, upset, retested, flops>>
    BY DEF SelectTiming
<1>2. /\ Supported \subseteq Sizes /\ Supported \subseteq Shots /\ Supported \subseteq Nat
      /\ Nobody \notin Names /\ proven \in [Shots -> SUBSET Names]
      /\ 1 \in Shots /\ 1 \in 1..Len(Primitives) /\ Sizes \subseteq Shots
    <2>1. 1 \in 1..Len(Primitives)
        BY SelectionGiven
    <2>2. QED
        BY <2>1, SupportedIs, SelectionFacts, SelectionGiven
<1>3. Supported' = Supported /\ Pairs' = Pairs /\ \A n : Wanted(n)' \in {Trials, 1}
    BY <1>1 DEF Supported, Pairs, Wanted
<1>4. PICK sizes \in SUBSET Sizes, primitive \in Names \cup {Nobody} :
          /\ timing'.sizes = sizes /\ timing'.primitive = primitive
          /\ \A n \in sizes : primitive \in proven[n]
          /\ Pairs # {} => Cardinality(sizes) = 2
    <2>1. CASE Pairs # {}
        <3>1. BestPair \in Pairs /\ BestPair \subseteq Sizes /\ Cardinality(BestPair) = 2
            BY <2>1, BestPairIsOne, PairNumbers
        <3>2. Common(BestPair) \in Shared(BestPair)
            BY <3>1, CommonIsShared DEF SelectionIInv
        <3>3. Common(BestPair) \in Names /\ \A n \in BestPair : Common(BestPair) \in proven[n]
            BY <3>2 DEF Shared
        <3>4. timing' = [sizes |-> BestPair, primitive |-> Common(BestPair)]
            BY <2>1 DEF SelectTiming
        <3>5. QED
            BY <3>1, <3>3, <3>4
    <2>2. CASE Pairs = {} /\ Supported # {}
        <3>1. PICK least \in Supported : least = Min(Supported)
            BY <2>2, SupportedIs
        <3>2. Fastest(proven[least], least) \in proven[least] /\ Fastest(proven[least], least) \in Names
            BY <1>2, <3>1, SupportedIs
        <3>3. timing' = [sizes |-> {least}, primitive |-> Fastest(proven[least], least)]
            BY <2>2, <3>1 DEF SelectTiming
        <3>4. {least} \in SUBSET Sizes
            BY <1>2, <3>1
        <3>5. QED
            BY <2>2, <3>2, <3>3, <3>4
    <2>3. CASE Pairs = {} /\ Supported = {}
        <3>1. timing' = timing
            BY <2>3 DEF SelectTiming
        <3>2. QED
            BY <1>1, <2>3, <3>1, SelectionFacts DEF SelectionIInv, TimingShared
    <2>4. QED
        BY <2>1, <2>2, <2>3
<1>5. /\ turn' \in Turns /\ turn'.primitive \in 1..Len(Primitives)
      /\ \/ stage' = "reopen" /\ Supported = {}
         \/ /\ stage' = "sample" /\ turn'.size \in Supported /\ turn'.rejected = 0
            /\ \A n \in Supported : ~(n < turn'.size)
    <2>1. CASE Supported = {}
        BY <2>1, SelectionFacts DEF SelectTiming
    <2>2. CASE Supported # {}
        <3>1. PICK least \in Supported : least = Min(Supported) /\ \A n \in Supported : least <= n
            BY <2>2, SupportedIs
        <3>2. stage' = "sample" /\ turn' = [Turn(1, least) EXCEPT !.samples = 1] /\ least \in Shots
            BY <1>2, <2>2, <3>1 DEF SelectTiming
        <3>3. turn' \in Turns /\ turn'.primitive = 1 /\ turn'.size = least /\ turn'.rejected = 0
            BY <1>2, <3>2, TurnIs
        <3>4. \A n \in Supported : ~(n < least)
            BY <1>2, <3>1
        <3>5. QED
            BY <1>2, <3>2, <3>3, <3>4
    <2>3. QED
        BY <2>1, <2>2
<1>6. SelectionTypeInv'
    BY <1>1, <1>4, <1>5 DEF SelectionIInv, SelectionTypeInv, SelectionStages, Turns
<1>7. TurnKept'
    <2>1. 0 <= Trials /\ 0 <= 1
        BY SelectionGiven
    <2>2. stage' = "sample" => turn'.rejected <= Wanted(turn.size)'
        BY <1>3, <1>5, <2>1 DEF Wanted
    <2>3. QED
        BY <1>1, <1>3, <1>5, <2>2 DEF SelectionIInv, TurnKept, Wanted
<1>8. PublishedProven'
    BY <1>1, <1>3, <1>5 DEF SelectionIInv, PublishedProven
<1>9. TimingShared'
    <2>1. \A n \in timing'.sizes : chosen'[n] = Nobody
        BY <1>1, <1>4 DEF SelectionIInv, PublishedProven
    <2>2. QED
        BY <1>1, <1>3, <1>4, <1>5, <2>1 DEF TimingShared
<1>10. RejectionKept' /\ CapturePreferred'
    BY <1>1, <1>5 DEF SelectionIInv, RejectionKept, CapturePreferred
<1>11. QED
    BY <1>1, <1>6, <1>7, <1>8, <1>9, <1>10 DEF SelectionIInv

\* The primitive a bracket is given has passed it.
LEMMA ForSizePassed ==
    ASSUME SelectionIInv, NEW n \in Supported
    PROVE  /\ ForSize(n) \in proven[n] /\ ForSize(n) \in Names
           /\ n \in timing.sizes => ForSize(n) = timing.primitive
<1>1. n \in Shots /\ proven[n] \subseteq Names /\ Fastest(proven[n], n) \in proven[n]
    BY SupportedIs, SelectionFacts
<1>2. QED
    BY <1>1 DEF ForSize, SelectionIInv, TimingShared

LEMMA TimingSampleStep ==
    ASSUME SelectionIInv, NEW passes \in BOOLEAN, NEW takes \in 1..Slowest, TimingSample(passes, takes)
    PROVE  SelectionIInv'
<1>1. /\ stage = "sample" /\ turn.samples < Wanted(turn.size)
      /\ UNCHANGED <<proven, timing, chosen, exploratory, retested>>
      /\ turn.size \in Supported /\ turn.rejected <= Wanted(turn.size)
    BY DEF TimingSample, SelectionIInv, TurnKept
<1>2. PICK p \in Names : /\ Fires(p, turn.size, passes)
                         /\ peaks' = Longest(p, turn.size, takes) \/ peaks' = peaks
                         /\ p = ForSize(turn.size)
    BY <1>1, ForSizePassed DEF TimingSample
<1>3. turn.size \in Shots /\ turn.size # 1
    BY <1>1, SupportedIs, SelectionGiven
<1>4. /\ camera' \in [fires : [Names -> SUBSET Shots], takes : [Names -> 1..Slowest]]
      /\ camera'.fires = camera.fires /\ upset' \in BOOLEAN
      /\ flops' \in 0..MaxFlops
    BY <1>2, <1>3, FiresKeeps DEF SelectionIInv
<1>5. peaks' \in [Names -> [Shots -> 0..Slowest]] /\ \A q \in Names : peaks'[q][1] = peaks[q][1]
    BY <1>2, <1>3, PeaksKeep, SelectionFacts DEF SelectionIInv
<1>6. Supported' = Supported /\ Pairs' = Pairs /\ \A n : Wanted(n)' = Wanted(n)
    BY <1>1 DEF Supported, Pairs, Wanted
<1>7. Wanted(turn.size) \in 1..Trials /\ Trials \in Nat
    BY SelectionGiven DEF Wanted
<1>8. /\ turn' \in Turns /\ turn'.primitive = turn.primitive /\ turn'.size = turn.size
      /\ stage' \in {"sample", "failed"} /\ (stage' = "sample" => turn'.rejected <= Wanted(turn.size))
    <2>1. turn.samples \in 0..Trials /\ turn.rejected \in 0..Trials + 1 /\ turn \in Turns
        BY SelectionFacts DEF Turns
    <2>2. CASE passes
        <3>1. PICK more \in 0..Trials : more = turn.samples + 1
            BY <1>1, <1>7, <2>1
        <3>2. turn' = [turn EXCEPT !.samples = more] /\ stage' = "sample"
            BY <1>1, <2>2, <3>1 DEF TimingSample
        <3>3. QED
            BY <1>1, <2>1, <3>2 DEF Turns
    <2>3. CASE ~passes
        <3>1. PICK more \in 0..Trials + 1 : more = turn.rejected + 1
            BY <1>1, <1>7, <2>1
        <3>2. /\ turn' = [turn EXCEPT !.rejected = more]
              /\ stage' = IF more > Wanted(turn.size) THEN "failed" ELSE "sample"
            BY <1>1, <2>3, <3>1 DEF TimingSample
        <3>3. turn' \in Turns /\ turn'.primitive = turn.primitive /\ turn'.size = turn.size
              /\ turn'.rejected = more
            BY <2>1, <3>1, <3>2 DEF Turns
        <3>4. ~(more > Wanted(turn.size)) => more <= Wanted(turn.size)
            BY <1>7, <3>1
        <3>5. QED
            BY <3>2, <3>3, <3>4
    <2>4. QED
        BY <2>2, <2>3
<1>9. SelectionTypeInv'
    BY <1>1, <1>4, <1>5, <1>8 DEF SelectionIInv, SelectionTypeInv, SelectionStages, Turns
<1>10. TurnKept'
    <2>1. Wanted(turn.size)' = Wanted(turn.size)
        BY <1>1, <1>8 DEF Wanted
    <2>2. QED
        BY <1>1, <1>4, <1>6, <1>8, <2>1, SelectionFacts DEF TurnKept, Wanted
<1>11. PublishedProven'
    BY <1>1, <1>4, <1>6, <1>8 DEF SelectionIInv, PublishedProven
<1>12. TimingShared' /\ RejectionKept'
    BY <1>1, <1>6, <1>8 DEF SelectionIInv, TimingShared, RejectionKept
<1>13. CapturePreferred'
    <2>1. ASSUME chosen[1] # Nobody, "capture" \in proven[1]
          PROVE  peaks'["capture"][1] = peaks["capture"][1] /\ peaks'[chosen[1]][1] = peaks[chosen[1]][1]
        BY <1>5, <2>1, SelectionFacts, SelectionGiven
    <2>2. QED
        BY <1>1, <2>1 DEF SelectionIInv, CapturePreferred
<1>14. QED
    BY <1>1, <1>4, <1>9, <1>10, <1>11, <1>12, <1>13 DEF SelectionIInv

LEMMA EnoughSamplesStep == ASSUME SelectionIInv, EnoughSamples PROVE SelectionIInv'
<1>1. /\ stage = "sample" /\ Sampled /\ turn.size \in Supported
      /\ UNCHANGED <<camera, proven, peaks, timing, exploratory, upset, retested, flops>>
    BY DEF EnoughSamples, SelectionIInv, TurnKept
<1>2. Supported' = Supported /\ Pairs' = Pairs /\ \A n : Wanted(n)' = Wanted(n)
    BY <1>1 DEF Supported, Pairs, Wanted
<1>3. PICK p \in Names : /\ p = ForSize(turn.size) /\ p \in proven[turn.size] /\ p # Nobody
                         /\ turn.size \in timing.sizes => p = timing.primitive
    BY <1>1, ForSizePassed, SelectionGiven
<1>4. turn.size \in Shots /\ turn.size # 1 /\ turn.size \in Nat /\ 1 \in Shots /\ 1 \in 1..Len(Primitives)
      /\ Supported \subseteq Shots /\ Supported \subseteq Nat
      /\ 0 <= Trials /\ 0 <= 1 /\ Supported \subseteq Sizes /\ Sizes \subseteq Shots
    BY <1>1, SupportedIs, SelectionGiven
<1>5. /\ chosen' \in [Shots -> Names \cup {Nobody}] /\ chosen'[turn.size] = p /\ chosen'[1] = chosen[1]
      /\ \A n \in Shots : n # turn.size => chosen'[n] = chosen[n]
    <2>1. chosen' = [chosen EXCEPT ![turn.size] = p]
        BY <1>1, <1>3 DEF Sampled
    <2>2. QED
        BY <1>4, <2>1, SelectionFacts
<1> DEFINE left == {n \in Supported : n > turn.size}
<1>6. /\ turn' \in Turns /\ turn'.primitive = 1
      /\ \/ stage' = "reopen" /\ left = {}
         \/ /\ stage' = "sample" /\ turn'.size \in left /\ turn'.rejected = 0
            /\ \A n \in left : turn'.size <= n
    <2>1. CASE left = {}
        <3>1. stage' = "reopen" /\ turn' = Turn(1, 1)
            BY <1>1, <2>1 DEF Sampled
        <3>2. turn' \in Turns /\ turn'.primitive = 1
            BY <1>4, <3>1, TurnIs
        <3>3. QED
            BY <2>1, <3>1, <3>2
    <2>2. CASE left # {}
        <3>1. PICK next \in left : next = Min(left) /\ \A n \in left : next <= n
            <4>1. left \in SUBSET Nat
                BY <1>4
            <4>2. QED
                BY <2>2, <4>1, LeastNumber
        <3>2. stage' = "sample" /\ turn' = [Turn(1, next) EXCEPT !.samples = 1] /\ next \in Shots
            BY <1>1, <1>4, <2>2, <3>1 DEF Sampled
        <3>3. turn' \in Turns /\ turn'.primitive = 1 /\ turn'.size = next /\ turn'.rejected = 0
            BY <1>4, <3>2, TurnIs
        <3>4. QED
            BY <3>1, <3>2, <3>3
    <2>3. QED
        BY <2>1, <2>2
<1>7. SelectionTypeInv'
    BY <1>1, <1>5, <1>6 DEF SelectionIInv, SelectionTypeInv, SelectionStages, Turns
<1>8. TurnKept'
    <2>1. stage' = "sample" => turn'.size \in Supported /\ turn'.rejected <= Wanted(turn.size)'
        BY <1>4, <1>6 DEF Wanted
    <2>2. QED
        BY <1>1, <1>2, <1>4, <1>6, <2>1 DEF SelectionIInv, TurnKept, Wanted
<1>9. PublishedProven'
    <2>1. \A n \in Shots : chosen'[n] # Nobody => chosen'[n] \in proven'[n]
        BY <1>1, <1>3, <1>5 DEF SelectionIInv, PublishedProven
    <2>2. \A n \in Supported : n < turn.size => chosen'[n] # Nobody
        BY <1>1, <1>3, <1>4, <1>5 DEF SelectionIInv, PublishedProven
    <2>3. ASSUME NEW n \in Supported, n \notin left
          PROVE  chosen'[n] # Nobody
        <3>1. n = turn.size \/ n < turn.size
            BY <1>4, <2>3
        <3>2. QED
            BY <1>3, <1>5, <2>2, <3>1
    <2>4. ASSUME stage' = "sample", NEW n \in Supported, n < turn'.size
          PROVE  n \notin left
        <3>1. turn'.size \in Nat /\ n \in Nat
            BY <1>4, <1>6, <2>4
        <3>2. QED
            BY <1>6, <2>4, <3>1
    <2>5. stage' \in {"sample", "reopen"} /\ (stage' = "reopen" => left = {})
        BY <1>6
    <2>6. QED
        BY <1>1, <1>2, <1>5, <2>1, <2>3, <2>4, <2>5 DEF SelectionIInv, PublishedProven
<1>10. TimingShared'
    BY <1>1, <1>2, <1>3, <1>4, <1>5, <1>6, SelectionFacts DEF SelectionIInv, TimingShared
<1>11. RejectionKept' /\ CapturePreferred'
    BY <1>1, <1>5, <1>6 DEF SelectionIInv, RejectionKept, CapturePreferred
<1>12. QED
    BY <1>1, <1>7, <1>8, <1>9, <1>10, <1>11 DEF SelectionIInv

LEMMA ReopenStep == ASSUME SelectionIInv, Reopen PROVE SelectionIInv'
<1>1. /\ stage = "reopen" /\ stage' = "qualify" /\ upset' = (upset /\ ~exploratory)
      /\ UNCHANGED <<camera, turn, proven, peaks, timing, chosen, exploratory, retested, flops>>
    BY DEF Reopen, MustReopen
<1>2. Supported' = Supported /\ Pairs' = Pairs
    BY <1>1 DEF Supported, Pairs
<1>3. SelectionTypeInv'
    BY <1>1 DEF SelectionIInv, SelectionTypeInv, SelectionStages
<1>4. TurnKept' /\ PublishedProven' /\ TimingShared' /\ RejectionKept' /\ CapturePreferred'
    BY <1>1, <1>2 DEF SelectionIInv, TurnKept, PublishedProven, TimingShared, RejectionKept, CapturePreferred
<1>5. QED
    BY <1>1, <1>3, <1>4 DEF SelectionIInv

\* A failure to go back to the baseline mode ends it, with the evidence as it stands.
LEMMA BaselineFailsStep == ASSUME SelectionIInv, BaselineFails PROVE SelectionIInv'
<1>1. /\ stage \in {"bracket", "sample"} /\ stage' = "failed" /\ flops < MaxFlops /\ flops' = flops + 1
      /\ UNCHANGED <<camera, turn, proven, peaks, timing, chosen, exploratory, upset, retested>>
    BY DEF BaselineFails
<1>2. Supported' = Supported /\ Pairs' = Pairs
    BY <1>1 DEF Supported, Pairs
<1>3. flops' \in 0..MaxFlops
    BY <1>1, SelectionGiven, SelectionFacts
<1>4. SelectionTypeInv'
    BY <1>1, <1>3 DEF SelectionIInv, SelectionTypeInv, SelectionStages
<1>5. TurnKept' /\ PublishedProven' /\ TimingShared' /\ RejectionKept' /\ CapturePreferred'
    BY <1>1, <1>2 DEF SelectionIInv, TurnKept, PublishedProven, TimingShared, RejectionKept, CapturePreferred
<1>6. QED
    BY <1>1, <1>4, <1>5 DEF SelectionIInv

LEMMA SelectionStep == SelectionIInv /\ [SelectionNext]_selectionVars => SelectionIInv'
<1> SUFFICES ASSUME SelectionIInv, [SelectionNext]_selectionVars
             PROVE  SelectionIInv'
    OBVIOUS
<1>1. ASSUME NEW passes \in BOOLEAN, ColdStart(passes) PROVE SelectionIInv'
    BY <1>1, ColdStartStep
<1>2. ASSUME NEW passes \in BOOLEAN, NEW takes \in 1..Slowest,
             SingleTrial(passes, takes) \/ BracketTrial(passes, takes) \/ TimingSample(passes, takes)
      PROVE  SelectionIInv'
    BY <1>2, SingleTrialStep, BracketTrialStep, TimingSampleStep
<1>3. CASE SelectSingle \/ SelectTiming \/ EnoughSamples \/ Reopen \/ BaselineFails
    BY <1>3, SelectSingleStep, SelectTimingStep, EnoughSamplesStep, ReopenStep, BaselineFailsStep
<1>4. CASE UNCHANGED selectionVars
    <2>1. Supported' = Supported /\ Pairs' = Pairs /\ \A n : Wanted(n)' = Wanted(n)
        BY <1>4 DEF selectionVars, Supported, Pairs, Wanted
    <2>2. SelectionTypeInv' /\ ~retested' /\ TimingShared' /\ RejectionKept' /\ CapturePreferred'
        BY <1>4, <2>1 DEF selectionVars, SelectionIInv, SelectionTypeInv, TimingShared, RejectionKept,
                          CapturePreferred
    <2>3. TurnKept' /\ PublishedProven'
        BY <1>4, <2>1 DEF selectionVars, SelectionIInv, TurnKept, PublishedProven, Current, Wanted
    <2>4. QED
        BY <2>2, <2>3 DEF SelectionIInv
<1>5. QED
    BY <1>1, <1>2, <1>3, <1>4 DEF SelectionNext

LEMMA SelectionIsSound == SelectionIInv => SelectionTypeInv /\ SelectionSound
<1> SUFFICES ASSUME SelectionIInv
             PROVE  SelectionSound
    BY DEF SelectionIInv
<1>1. Sizes \subseteq Shots /\ timing.sizes \subseteq Sizes
    BY SelectionFacts, SelectionGiven
<1>2. \A n \in Shots : chosen[n] # Nobody => chosen[n] \in proven[n] /\ n \in camera.fires[chosen[n]]
    BY DEF SelectionIInv, PublishedProven
<1>3. \A m, n \in timing.sizes : chosen[m] # Nobody /\ chosen[n] # Nobody => chosen[m] = chosen[n]
    BY DEF SelectionIInv, TimingShared
<1>4. stage = "qualify" =>
        /\ chosen[1] # Nobody /\ \A n \in Sizes : chosen[n] # Nobody <=> proven[n] # {}
        /\ Pairs # {} => Cardinality(timing.sizes) = 2
    <2>1. \A n \in Sizes : chosen[n] # Nobody => proven[n] # {}
        BY <1>1, <1>2
    <2>2. stage = "qualify" => \A n \in Sizes : proven[n] # {} => chosen[n] # Nobody
        BY DEF SelectionIInv, PublishedProven, Supported
    <2>3. QED
        BY <2>1, <2>2 DEF SelectionIInv, PublishedProven, TimingShared
<1>5. stage = "qualify" /\ proven[1] # Names => ~upset
    BY DEF SelectionIInv, RejectionKept
<1>6. QED
    BY <1>2, <1>3, <1>4, <1>5 DEF SelectionIInv, SelectionSound, CapturePreferred

(* ---- The calibration ---- *)

CalibrationIInv == RearmIInv /\ SelectionIInv /\ QualificationIInv

\* A step of one part leaves the others alone.
LEMMA CalibrationApart ==
    [StudyNext]_StudyVars =>
        [RearmNext]_rearmVars /\ [SelectionNext]_selectionVars /\ [QualificationNext]_qualificationVars
BY DEF StudyNext, StudyVars, admissionVars, RearmPart, SelectionPart, QualificationPart, CachePart, JobsPart,
       AuthorityPart, PreflightPart

\* What a characterization publishes was passed by its own probes: the pause is the shortest that the
\* camera sustains, the primitives fired what they are published for, and the budgets cover every
\* operation (camera_characterization.py:4564).
THEOREM CalibrationIsSound == StudySpec => []CalibrationSound
<1>1. StudyInit => CalibrationIInv
    BY RearmStarts, SelectionStarts, QualificationStarts
    DEF StudyInit, CalibrationIInv, RearmStill, SelectionStill, QualificationStill
<1>2. CalibrationIInv /\ [StudyNext]_StudyVars => CalibrationIInv'
    BY CalibrationApart, RearmStep, SelectionStep, QualificationStep DEF CalibrationIInv
<1>3. CalibrationIInv => CalibrationSound
    BY RearmIsSound, SelectionIsSound, QualificationIsSound DEF CalibrationIInv, CalibrationSound
<1>4. QED
    BY <1>1, <1>2, <1>3, PTL DEF StudySpec

(* ---- What the plugin knows ---- *)

Settings == [Controls -> Values]
Facts == [Controls -> Values \cup {Unknown}]
BodyStates == [at : Settings, facts : Facts]
\* Nothing that was out of date has been trusted.
Sure == wake \notin {"read", "trusted"}
\* What is known is so.
Right(at, facts) == \A k \in Controls : facts[k] \in {Unknown, at[k]}
\* A SET changes nothing but what it makes the plugin forget.
EffectsKnown ==
    \A at \in Settings, k \in Controls, v \in Values : \A j \in Controls :
        j # k /\ Changed(at, k, v, body.effects)[j] # at[j] => j \in body.invalidates[k]
\* The operations still to be sent leave c at v, or in doubt.
LastIs(ops, c, v) ==
    \E i \in 1..Len(ops) : ops[i] = Op(c, v) /\ \A j \in 1..Len(ops) : j > i => ops[j].key # c
Untouched(ops, c) == \A j \in 1..Len(ops) : ops[j].key # c
Settled(facts, ops, c, v) == LastIs(ops, c, v) \/ (Untouched(ops, c) /\ facts[c] \in {v, Unknown})
GroupSettled(facts, ops, group) ==
    /\ Settled(facts, ops, "iso", group.iso) /\ Settled(facts, ops, "shutter", group.shutter)
    /\ Settled(facts, ops, "mode", IF group.bracket THEN 1 ELSE 0)
\* Where the plugin is, and what it knows there.
PluginInOrder ==
    /\ wake \in {"none", "blank"} => known = Blank
    /\ InRun => wake \in {"none", "fresh", "trusted"}
    /\ wake = "trusted" => InRun
    /\ groups # <<>> => InRun /\ wake \in {"fresh", "trusted"}
    /\ sending # <<>> => groups # <<>>
\* The photo is the last operation of its group, which leaves the settings of the group.
SendingInOrder ==
    /\ \A i \in 1..Len(sending) : i < Len(sending) => sending[i].key # "photo"
    /\ sending # <<>> => GroupSettled(known, sending, photo.group)
\* A photo released early is followed by a shutter SET.
ReleaseInOrder ==
    released = "here" =>
        /\ groups # <<>>
        /\ sending = <<>> => Head(Effective(known, Head(groups))).key = "shutter"
        /\ sending # <<>> => Head(sending).key = "shutter"
CacheIInv ==
    /\ CacheTypeInv /\ PluginInOrder /\ SendingInOrder /\ ReleaseInOrder /\ EarlyInCapture
    /\ Visible => /\ EffectsKnown /\ PhotosKnown
                  /\ Sure => Right(body.at, known)


\* Settings, as functions.
LEMMA ChangedIs ==
    ASSUME NEW at \in Settings, NEW k \in Controls, NEW v \in Values, NEW effects \in SUBSET Effects
    PROVE  Changed(at, k, v, effects) \in Settings /\ Changed(at, k, v, effects)[k] = v
<1>1. ASSUME NEW j \in Controls, Resets(effects, k, v, j) # {}
      PROVE  (CHOOSE e \in Resets(effects, k, v, j) : TRUE).reset \in Values
    <2>1. PICK e \in Resets(effects, k, v, j) : TRUE
        BY <1>1
    <2>2. (CHOOSE e2 \in Resets(effects, k, v, j) : TRUE) \in Resets(effects, k, v, j)
        BY <2>1
    <2>3. QED
        BY <2>2 DEF Resets, Effects
<1>2. QED
    BY <1>1 DEF Changed, Settings

\* A side effect that the probe can see is one that it has seen.
LEMMA ProbesSee ==
    ASSUME CacheInit, Visible
    PROVE  EffectsKnown
<1> DEFINE E == body.effects
<1>1. PICK effects \in UpTo(MaxEffects, Effects), doubtful \in SUBSET Controls, single \in BOOLEAN :
          body = [at |-> Baseline, effects |-> effects, through_single |-> single,
                  invalidates |-> [k \in Controls |-> IF k \in doubtful THEN Controls \ {k}
                                                      ELSE Probed(k, effects)]]
    BY DEF CacheInit
<1>2. effects \in SUBSET Effects /\ E = effects
    <2>1. CASE effects = {}
        BY <1>1, <2>1
    <2>2. CASE effects # {}
        <3>1. PICK f \in [1..MaxEffects -> Effects] : effects = {f[i] : i \in 1..MaxEffects}
            BY <1>1, <2>2 DEF UpTo
        <3>2. QED
            BY <1>1, <3>1
    <2>3. QED
        BY <2>1, <2>2
<1>3. ASSUME NEW at \in Settings, NEW k \in Controls, NEW v \in Values, NEW j \in Controls,
             j # k, Changed(at, k, v, E)[j] # at[j]
      PROVE  j \in body.invalidates[k]
    <2>1. Resets(E, k, v, j) # {}
        BY <1>3 DEF Changed, Settings
    <2>2. \A e \in Resets(E, k, v, j) : e.reset = 1
        BY <1>2 DEF Visible, Resets, Effects, Values, Baseline
    <2>3. PICK e \in Resets(E, k, v, j) : e = CHOOSE e2 \in Resets(E, k, v, j) : TRUE
        BY <2>1
    <2>4. \A now \in Settings : now[k] # v => Changed(now, k, v, E)[j] = 1
        BY <1>3, <2>1, <2>2, <2>3 DEF Changed, Settings
    <2>5. Baseline \in Settings /\ Baseline[k] = 0 /\ Baseline[j] = 0
        BY DEF Baseline, Settings, Values
    <2> DEFINE there == Changed(Baseline, k, 1, E)
    <2>6. there \in Settings /\ there[k] = 1
        <3>1. 1 \in Values
            BY DEF Values
        <3>2. QED
            BY <1>2, <2>5, <3>1, ChangedIs
    <2>7. CASE v = 1
        <3>1. there[j] = 1
            BY <2>4, <2>5, <2>7
        <3>2. j \in Peers(there)
            BY <2>5, <3>1 DEF Peers
        <3>3. QED
            BY <1>1, <1>2, <1>3, <3>2 DEF Probed
    <2>8. CASE v = 0
        <3>1. Changed(there, k, 0, E)[j] = 1
            BY <2>4, <2>6, <2>8
        <3>2. j \in Peers(Changed(there, k, 0, E))
            BY <2>5, <3>1 DEF Peers
        <3>3. QED
            BY <1>1, <1>2, <1>3, <3>2 DEF Probed
    <2>9. QED
        BY <2>7, <2>8 DEF Values
<1>4. QED
    BY <1>3 DEF EffectsKnown

\* The body: what a SET or a failure leaves of it.
LEMMA BodyIs ==
    ASSUME CacheTypeInv
    PROVE  /\ body.at \in Settings /\ body.effects \in SUBSET Effects
           /\ body.invalidates \in [Controls -> SUBSET Controls] /\ body.through_single \in BOOLEAN
           /\ known \in Facts
           /\ \A at \in Settings :
                /\ [body EXCEPT !.at = at] \in
                      [at : [Controls -> Values], effects : SUBSET Effects,
                       invalidates : [Controls -> SUBSET Controls], through_single : BOOLEAN]
                /\ [body EXCEPT !.at = at].at = at
                /\ [body EXCEPT !.at = at].effects = body.effects
                /\ [body EXCEPT !.at = at].invalidates = body.invalidates
                /\ [body EXCEPT !.at = at].through_single = body.through_single
BY DEF CacheTypeInv, Settings, Facts

\* After a SET what is known stays right.
LEMMA LearntIs ==
    ASSUME CacheTypeInv, NEW at \in Settings, NEW facts \in Facts, NEW k \in Controls, NEW v \in Values
    PROVE  /\ Learnt(facts, k, v) \in Facts /\ Learnt(facts, k, v)[k] = v
           /\ \A j \in Controls : j # k => Learnt(facts, k, v)[j] \in {facts[j], Unknown}
           /\ EffectsKnown /\ Right(at, facts) =>
                  Right(Changed(at, k, v, body.effects), Learnt(facts, k, v))
<1>1. /\ Learnt(facts, k, v) \in Facts /\ Learnt(facts, k, v)[k] = v
      /\ \A j \in Controls : j # k => Learnt(facts, k, v)[j] \in {facts[j], Unknown}
    BY DEF Learnt, Facts
<1>2. ASSUME EffectsKnown, Right(at, facts), NEW j \in Controls
      PROVE  Learnt(facts, k, v)[j] \in {Unknown, Changed(at, k, v, body.effects)[j]}
    <2>1. CASE j = k
        BY <1>1, <2>1, BodyIs, ChangedIs
    <2>2. CASE j # k /\ j \in body.invalidates[k]
        BY <2>2 DEF Learnt
    <2>3. CASE j # k /\ j \notin body.invalidates[k]
        <3>1. Changed(at, k, v, body.effects)[j] = at[j]
            BY <1>2, <2>3 DEF EffectsKnown
        <3>2. QED
            BY <1>2, <2>3, <3>1 DEF Learnt, Right
    <2>4. QED
        BY <2>1, <2>2, <2>3
<1>3. QED
    BY <1>1, <1>2 DEF Right

LEMMA EnsuredIs ==
    ASSUME CacheTypeInv, NEW s \in BodyStates, NEW k \in Controls, NEW v \in Values
    PROVE  /\ Ensured(s, k, v) \in BodyStates
           /\ EffectsKnown /\ Right(s.at, s.facts) => Right(Ensured(s, k, v).at, Ensured(s, k, v).facts)
<1> DEFINE fact == IF s.facts[k] = Unknown THEN s.at[k] ELSE s.facts[k]
<1>1. s.at \in Settings /\ s.facts \in Facts
    BY DEF BodyStates
<1>2. CASE fact = v
    <2>1. Ensured(s, k, v) = [s EXCEPT !.facts = [s.facts EXCEPT ![k] = v]]
        BY <1>2 DEF Ensured
    <2>2. [s.facts EXCEPT ![k] = v] \in Facts
        BY <1>1 DEF Facts
    <2>3. Ensured(s, k, v) \in BodyStates /\ Ensured(s, k, v).at = s.at
          /\ Ensured(s, k, v).facts = [s.facts EXCEPT ![k] = v]
        BY <2>1, <2>2 DEF BodyStates
    <2>4. Right(s.at, s.facts) => s.at[k] = v
        BY <1>2 DEF Right
    <2>5. ASSUME Right(s.at, s.facts)
          PROVE  Right(s.at, [s.facts EXCEPT ![k] = v])
        BY <1>1, <2>4, <2>5 DEF Right, Facts
    <2>6. QED
        BY <2>3, <2>5
<1>3. CASE fact # v
    <2>1. Ensured(s, k, v) = [at |-> Changed(s.at, k, v, body.effects), facts |-> Learnt(s.facts, k, v)]
        BY <1>3 DEF Ensured
    <2>2. Changed(s.at, k, v, body.effects) \in Settings /\ Learnt(s.facts, k, v) \in Facts
        BY <1>1, BodyIs, ChangedIs, LearntIs
    <2>3. QED
        BY <1>1, <2>1, <2>2, LearntIs DEF BodyStates
<1>4. QED
    BY <1>2, <1>3

\* The same of the settings of a preflight, and of what a failure on the way may leave.
LEMMA EnsureIs ==
    ASSUME CacheTypeInv, NEW s \in BodyStates, NEW iso \in Values, NEW again \in BOOLEAN
    PROVE  /\ Ensure(s, iso, again) \in BodyStates
           /\ EffectsKnown /\ Right(s.at, s.facts) =>
                  Right(Ensure(s, iso, again).at, Ensure(s, iso, again).facts)
           /\ Interrupted(s, iso, again) \subseteq Settings
<1>1. "mode" \in Controls /\ "iso" \in Controls /\ 0 \in Values
    BY DEF Controls, Values
<1>2. \A r \in BodyStates : /\ Defaults(r) \in BodyStates
                            /\ EffectsKnown /\ Right(r.at, r.facts) => Right(Defaults(r).at, Defaults(r).facts)
    BY <1>1, EnsuredIs DEF Defaults
<1> DEFINE required == Ensured(Defaults(s), "iso", iso)
<1>3. /\ required \in BodyStates
      /\ EffectsKnown /\ Right(s.at, s.facts) => Right(required.at, required.facts)
    BY <1>1, <1>2, EnsuredIs
<1>4. Ensure(s, iso, again) = IF again THEN Defaults(required) ELSE required
    BY DEF Ensure
<1>5. Ensure(s, iso, FALSE) = required
    BY DEF Ensure
<1>6. Ensure(s, iso, again) \in BodyStates
    BY <1>2, <1>3, <1>4
<1>7. Interrupted(s, iso, again) \subseteq Settings
    BY <1>2, <1>3, <1>5, <1>6 DEF Interrupted, BodyStates
<1>8. QED
    BY <1>2, <1>3, <1>4, <1>6, <1>7

\* What the plugin finds when it is called.
LEMMA RecoveredIs ==
    ASSUME CacheIInv
    PROVE  /\ Recovered \in BodyStates
           /\ wake = "none" /\ ~InRun => Recovered.facts = Blank
           /\ wake # "none" => Recovered.facts = known
           /\ Visible /\ Sure => Right(Recovered.at, Recovered.facts)
<1>1. /\ CacheTypeInv /\ body.at \in Settings /\ known \in Facts /\ Blank \in Facts
      /\ memory.init \in Values \cup {Unknown} /\ Settings \subseteq Facts
    BY BodyIs DEF CacheIInv, CacheTypeInv, Blank, Facts, Settings
<1>2. CASE wake = "none" /\ memory.init # Unknown
    <2>1. [at |-> body.at, facts |-> body.at] \in BodyStates /\ memory.init \in Values
          /\ Right(body.at, body.at)
        BY <1>1, <1>2 DEF BodyStates, Right
    <2>2. Recovered = Ensure([at |-> body.at, facts |-> body.at], memory.init, TRUE)
        BY <1>2 DEF Recovered
    <2>3. QED
        BY <1>1, <1>2, <2>1, <2>2, EnsureIs DEF CacheIInv, InRun
<1>3. CASE wake = "none" /\ memory.init = Unknown
    BY <1>1, <1>3 DEF Recovered, BodyStates, Right, InRun, Blank
<1>4. CASE wake # "none"
    BY <1>1, <1>4 DEF Recovered, BodyStates, CacheIInv
<1>5. QED
    BY <1>2, <1>3, <1>4


(* ---- A group of a capture ---- *)

Sets == [key : Controls, value : Values]
\* Sifting: what was let through, and what is known after it.
Sifting(base, acc) ==
    /\ acc \in [ops : Seq(Sets), facts : Facts]
    /\ \A c \in Controls :
        \/ Untouched(acc.ops, c) /\ acc.facts[c] \in {base[c], Unknown}
        \/ \E w \in Values : LastIs(acc.ops, c, w) /\ acc.facts[c] \in {w, Unknown}

\* An operation more settles its own setting, and no other.
LEMMA AppendIs ==
    ASSUME NEW S, NEW ops \in Seq(S), NEW op \in S
    PROVE  /\ Append(ops, op) \in Seq(S) /\ Len(Append(ops, op)) = Len(ops) + 1
           /\ \A c, w : op = Op(c, w) => LastIs(Append(ops, op), c, w)
           /\ \A c, w : op.key # c /\ LastIs(ops, c, w) => LastIs(Append(ops, op), c, w)
           /\ \A c : op.key # c /\ Untouched(ops, c) => Untouched(Append(ops, op), c)
<1> DEFINE more == Append(ops, op)
           n == Len(ops)
<1>1. /\ n \in Nat /\ more \in Seq(S) /\ Len(more) = n + 1 /\ more[n + 1] = op
      /\ \A i \in 1..n : more[i] = ops[i]
    OBVIOUS
<1>2. \A i \in 1..n + 1 : i \in 1..n \/ i = n + 1
    BY <1>1
<1>3. \A i \in 1..n : i \in 1..n + 1 /\ ~(i > n + 1)
    BY <1>1
<1>4. n + 1 \in 1..n + 1 /\ \A j \in 1..n + 1 : ~(j > n + 1)
    BY <1>1
<1> HIDE DEF more, n
<1>5. ASSUME NEW c, NEW w, op = Op(c, w)
      PROVE  LastIs(more, c, w)
    BY <1>1, <1>4, <1>5 DEF LastIs
<1>6. ASSUME NEW c, op.key # c, Untouched(ops, c)
      PROVE  Untouched(more, c)
    BY <1>1, <1>2, <1>6 DEF Untouched, n
<1>7. ASSUME NEW c, NEW w, op.key # c, LastIs(ops, c, w)
      PROVE  LastIs(more, c, w)
    <2>1. PICK i \in 1..n : ops[i] = Op(c, w) /\ \A j \in 1..n : j > i => ops[j].key # c
        BY <1>7 DEF LastIs, n
    <2>2. i \in 1..n + 1 /\ more[i] = Op(c, w)
        BY <1>1, <1>3, <2>1
    <2>3. \A j \in 1..n + 1 : j > i => more[j].key # c
        BY <1>1, <1>2, <1>7, <2>1
    <2>4. QED
        BY <1>1, <2>2, <2>3 DEF LastIs
<1>8. QED
    BY <1>1, <1>5, <1>6, <1>7 DEF more, n

\* A SET that is left out was settled, by what is known or by an earlier one.
LEMMA SiftedIs ==
    ASSUME CacheTypeInv, NEW base \in Facts, NEW acc, Sifting(base, acc), NEW k \in Controls, NEW v \in Values
    PROVE  /\ Sifting(base, Sifted(acc, Op(k, v)))
           /\ Len(Sifted(acc, Op(k, v)).ops) <= Len(acc.ops) + 1
           /\ Settled(base, Sifted(acc, Op(k, v)).ops, k, v)
           /\ \A c \in Controls, w \in Values :
                c # k /\ Settled(base, acc.ops, c, w) => Settled(base, Sifted(acc, Op(k, v)).ops, c, w)
<1>1. acc.ops \in Seq(Sets) /\ acc.facts \in Facts /\ Len(acc.ops) \in Nat
    BY DEF Sifting
<1>2. Op(k, v) \in Sets /\ Op(k, v).key = k /\ Op(k, v).value = v
    BY DEF Op, Sets
<1>3. CASE acc.facts[k] = v
    <2>1. Sifted(acc, Op(k, v)) = acc
        BY <1>2, <1>3 DEF Sifted
    <2>2. Settled(base, acc.ops, k, v)
        <3>1. v # Unknown
            BY DEF Values, Unknown
        <3>2. CASE Untouched(acc.ops, k) /\ acc.facts[k] \in {base[k], Unknown}
            BY <1>3, <3>1, <3>2 DEF Settled
        <3>3. CASE \E w \in Values : LastIs(acc.ops, k, w) /\ acc.facts[k] \in {w, Unknown}
            BY <1>3, <3>1, <3>3 DEF Settled
        <3>4. QED
            BY <3>2, <3>3 DEF Sifting
    <2>3. QED
        BY <1>1, <2>1, <2>2
<1>4. CASE acc.facts[k] # v
    <2> DEFINE ops == Append(acc.ops, Op(k, v))
               facts == Learnt(acc.facts, k, v)
    <2>1. Sifted(acc, Op(k, v)) = [ops |-> ops, facts |-> facts]
        BY <1>2, <1>4 DEF Sifted
    <2>2. /\ facts \in Facts /\ facts[k] = v
          /\ \A j \in Controls : j # k => facts[j] \in {acc.facts[j], Unknown}
        BY <1>1, BodyIs, LearntIs
    <2>3. /\ ops \in Seq(Sets) /\ Len(ops) = Len(acc.ops) + 1 /\ LastIs(ops, k, v)
          /\ \A c, w : k # c /\ LastIs(acc.ops, c, w) => LastIs(ops, c, w)
          /\ \A c : k # c /\ Untouched(acc.ops, c) => Untouched(ops, c)
        BY <1>1, <1>2, AppendIs
    <2> HIDE DEF ops, facts
    <2>4. ASSUME NEW c \in Controls
          PROVE  \/ Untouched(ops, c) /\ facts[c] \in {base[c], Unknown}
                 \/ \E w \in Values : LastIs(ops, c, w) /\ facts[c] \in {w, Unknown}
        <3>1. CASE c = k
            BY <2>2, <2>3, <3>1
        <3>2. CASE c # k
            <4>1. facts[c] \in {acc.facts[c], Unknown}
                BY <2>2, <3>2
            <4>2. CASE Untouched(acc.ops, c) /\ acc.facts[c] \in {base[c], Unknown}
                BY <2>3, <3>2, <4>1, <4>2
            <4>3. CASE \E w \in Values : LastIs(acc.ops, c, w) /\ acc.facts[c] \in {w, Unknown}
                BY <2>3, <3>2, <4>1, <4>3
            <4>4. QED
                BY <4>2, <4>3 DEF Sifting
        <3>3. QED
            BY <3>1, <3>2
    <2>5. Sifting(base, Sifted(acc, Op(k, v)))
        BY <2>1, <2>2, <2>3, <2>4 DEF Sifting
    <2>6. Settled(base, ops, k, v)
        BY <2>3 DEF Settled
    <2>7. \A c \in Controls, w \in Values : c # k /\ Settled(base, acc.ops, c, w) => Settled(base, ops, c, w)
        BY <2>3 DEF Settled
    <2>8. Len(ops) <= Len(acc.ops) + 1
        BY <1>1, <2>3
    <2>9. QED
        BY <2>1, <2>5, <2>6, <2>7, <2>8
<1>5. QED
    BY <1>3, <1>4

\* The SETs of a group: three, or four through single shot.
LEMMA OperationsAre ==
    ASSUME CacheTypeInv, NEW group \in Group
    PROVE  \/ Operations(group) = <<Op("iso", group.iso), Op("mode", 0), Op("shutter", group.shutter)>>
              /\ ~group.bracket
           \/ Operations(group) = <<Op("iso", group.iso), Op("mode", 0), Op("shutter", group.shutter), Op("mode", 1)>>
              /\ group.bracket
           \/ Operations(group) = <<Op("iso", group.iso), Op("mode", 1), Op("shutter", group.shutter)>>
              /\ group.bracket
<1>1. group.bracket \in BOOLEAN /\ body.through_single \in BOOLEAN
    BY BodyIs DEF Group
<1>2. QED
    BY <1>1 DEF Operations

\* What is sent for a group: at most four SETs and the photo, and they settle what the group asks for.
LEMMA EffectiveIs ==
    ASSUME CacheTypeInv, NEW facts \in Facts, NEW group \in Group
    PROVE  /\ Effective(facts, group) \in Seq([key : Controls \cup {"photo"}, value : Values])
           /\ Len(Effective(facts, group)) <= 5 /\ Effective(facts, group) # <<>>
           /\ \A i \in 1..Len(Effective(facts, group)) :
                  i < Len(Effective(facts, group)) => Effective(facts, group)[i].key # "photo"
           /\ GroupSettled(facts, Effective(facts, group), group)
<1> DEFINE none == [ops |-> <<>>, facts |-> facts]
           mode == IF group.bracket THEN 1 ELSE 0
           shot == Op("photo", 0)
           Good(acc, n) == /\ Sifting(facts, acc) /\ Len(acc.ops) <= n
                           /\ Settled(facts, acc.ops, "iso", group.iso)
                           /\ Settled(facts, acc.ops, "shutter", group.shutter)
                           /\ Settled(facts, acc.ops, "mode", mode)
<1>1. group.iso \in Values /\ group.shutter \in Values /\ mode \in Values /\ 0 \in Values /\ 1 \in Values
      /\ "iso" \in Controls /\ "mode" \in Controls /\ "shutter" \in Controls
    BY DEF Group, Values, Controls
<1>2. Sifting(facts, none) /\ Len(none.ops) = 0
    BY DEF Sifting, Untouched
<1> DEFINE one == Sifted(none, Op("iso", group.iso))
<1>3. Sifting(facts, one) /\ Len(one.ops) <= 1 /\ Settled(facts, one.ops, "iso", group.iso)
    <2> HIDE DEF none
    <2>1. Sifting(facts, one) /\ Len(one.ops) <= Len(none.ops) + 1 /\ Settled(facts, one.ops, "iso", group.iso)
        BY <1>1, <1>2, SiftedIs
    <2> HIDE DEF one
    <2>2. QED
        BY <1>2, <2>1
<1>4. ASSUME NEW v \in Values
      PROVE  LET two == Sifted(one, Op("mode", v))
                 three == Sifted(two, Op("shutter", group.shutter)) IN
             /\ Sifting(facts, three) /\ Len(three.ops) <= 3
             /\ Settled(facts, three.ops, "iso", group.iso)
             /\ Settled(facts, three.ops, "shutter", group.shutter)
             /\ Settled(facts, three.ops, "mode", v)
    <2> DEFINE two == Sifted(one, Op("mode", v))
               three == Sifted(two, Op("shutter", group.shutter))
    <2> HIDE DEF one
    <2>1. /\ Sifting(facts, two) /\ Len(two.ops) <= Len(one.ops) + 1 /\ Settled(facts, two.ops, "mode", v)
          /\ Settled(facts, two.ops, "iso", group.iso)
        BY <1>1, <1>3, SiftedIs
    <2> HIDE DEF two
    <2>2. /\ Sifting(facts, three) /\ Len(three.ops) <= Len(two.ops) + 1
          /\ Settled(facts, three.ops, "shutter", group.shutter)
          /\ Settled(facts, three.ops, "iso", group.iso) /\ Settled(facts, three.ops, "mode", v)
        BY <1>1, <2>1, SiftedIs
    <2>3. Len(one.ops) \in Nat /\ Len(two.ops) \in Nat /\ Len(three.ops) \in Nat
        BY <1>3, <2>1, <2>2 DEF Sifting
    <2>4. Len(three.ops) <= 3
        BY <1>3, <2>1, <2>2, <2>3
    <2>5. QED
        BY <2>2, <2>4 DEF two
<1> HIDE DEF Good, none, one, mode
<1>5. PICK acc : Effective(facts, group) = Append(acc.ops, shot) /\ Good(acc, 4)
    <2>1. CASE Operations(group) = <<Op("iso", group.iso), Op("mode", 0), Op("shutter", group.shutter)>>
               /\ ~group.bracket
        <3> DEFINE last == Sifted(Sifted(one, Op("mode", 0)), Op("shutter", group.shutter))
        <3>1. Effective(facts, group) = Append(last.ops, shot)
            BY <2>1 DEF Effective, one, none
        <3>2. mode = 0
            BY <2>1 DEF mode
        <3>3. Good(last, 3)
            BY <1>1, <1>4, <3>2 DEF Good
        <3>4. Good(last, 4)
            <4>1. Len(last.ops) \in Nat
                BY <3>3 DEF Good, Sifting
            <4>2. Len(last.ops) <= 4
                BY <3>3, <4>1 DEF Good
            <4>3. QED
                BY <3>3, <4>2 DEF Good
        <3>5. QED
            BY <3>1, <3>4
    <2>2. CASE Operations(group) = <<Op("iso", group.iso), Op("mode", 1), Op("shutter", group.shutter)>>
               /\ group.bracket
        <3> DEFINE last == Sifted(Sifted(one, Op("mode", 1)), Op("shutter", group.shutter))
        <3>1. Effective(facts, group) = Append(last.ops, shot)
            BY <2>2 DEF Effective, one, none
        <3>2. mode = 1
            BY <2>2 DEF mode
        <3>3. Good(last, 3)
            BY <1>1, <1>4, <3>2 DEF Good
        <3>4. Good(last, 4)
            <4>1. Len(last.ops) \in Nat
                BY <3>3 DEF Good, Sifting
            <4>2. Len(last.ops) <= 4
                BY <3>3, <4>1 DEF Good
            <4>3. QED
                BY <3>3, <4>2 DEF Good
        <3>5. QED
            BY <3>1, <3>4
    <2>3. CASE Operations(group) = <<Op("iso", group.iso), Op("mode", 0), Op("shutter", group.shutter), Op("mode", 1)>>
               /\ group.bracket
        <3> DEFINE third == Sifted(Sifted(one, Op("mode", 0)), Op("shutter", group.shutter))
                   last == Sifted(third, Op("mode", 1))
        <3>1. Effective(facts, group) = Append(last.ops, shot)
            BY <2>3 DEF Effective, one, none
        <3>2. mode = 1
            BY <2>3 DEF mode
        <3>3. /\ Sifting(facts, third) /\ Len(third.ops) <= 3
              /\ Settled(facts, third.ops, "iso", group.iso)
              /\ Settled(facts, third.ops, "shutter", group.shutter)
            BY <1>1, <1>4
        <3> HIDE DEF third
        <3>4. /\ Sifting(facts, last) /\ Len(last.ops) <= Len(third.ops) + 1
              /\ Settled(facts, last.ops, "mode", 1) /\ Settled(facts, last.ops, "iso", group.iso)
              /\ Settled(facts, last.ops, "shutter", group.shutter)
            BY <1>1, <3>3, SiftedIs
        <3>5. Len(third.ops) \in Nat /\ Len(last.ops) \in Nat
            BY <3>3, <3>4 DEF Sifting
        <3>6. Len(last.ops) <= 4
            BY <3>3, <3>4, <3>5
        <3>7. Good(last, 4)
            BY <3>2, <3>4, <3>6 DEF Good
        <3>8. QED
            BY <3>1, <3>7
    <2>4. QED
        BY <2>1, <2>2, <2>3, OperationsAre
<1>6. acc.ops \in Seq(Sets) /\ Len(acc.ops) \in Nat /\ Len(acc.ops) <= 4
    BY <1>5 DEF Good, Sifting
<1> DEFINE S == [key : Controls \cup {"photo"}, value : Values]
           ops == Append(acc.ops, shot)
<1>7. acc.ops \in Seq(S) /\ shot \in S /\ shot.key = "photo"
    <2>1. Sets \subseteq S
        BY DEF Sets
    <2>2. acc.ops \in Seq(S)
        <3> HIDE DEF S
        <3>1. QED
            BY <1>6, <2>1
    <2>3. shot \in S /\ shot.key = "photo"
        BY <1>1 DEF Op
    <2>4. QED
        BY <2>2, <2>3
<1>8. /\ ops \in Seq(S) /\ Len(ops) = Len(acc.ops) + 1
      /\ \A c, w : "photo" # c /\ LastIs(acc.ops, c, w) => LastIs(ops, c, w)
      /\ \A c : "photo" # c /\ Untouched(acc.ops, c) => Untouched(ops, c)
    <2> HIDE DEF S, shot
    <2>1. QED
        BY <1>7, AppendIs
<1>9. \A c, w : "photo" # c /\ Settled(facts, acc.ops, c, w) => Settled(facts, ops, c, w)
    <2> HIDE DEF ops
    <2>1. QED
        BY <1>8 DEF Settled
<1>10. GroupSettled(facts, ops, group)
    <2> HIDE DEF ops
    <2>1. QED
        BY <1>5, <1>9 DEF GroupSettled, Good, mode
<1>11. Len(ops) <= 5 /\ ops # <<>>
    BY <1>6, <1>8
<1>12. \A i \in 1..Len(ops) : i < Len(ops) => ops[i].key # "photo"
    <2>1. ASSUME NEW i \in 1..Len(ops), i < Len(ops)
          PROVE  ops[i].key # "photo"
        <3>1. i \in 1..Len(acc.ops)
            BY <1>6, <1>8, <2>1
        <3>2. ops[i] = acc.ops[i] /\ acc.ops[i] \in Sets
            BY <1>6, <3>1
        <3>3. QED
            BY <3>2 DEF Sets, Controls
    <2>2. QED
        BY <2>1
<1>13. QED
    BY <1>5, <1>8, <1>10, <1>11, <1>12


(* ---- The calls of the plugin ---- *)

Photos == [wrong : BOOLEAN, doubted : BOOLEAN, bare : ReleaseKinds, early : ReleaseKinds, group : Group]

\* A sequence of groups is a sequence.
LEMMA GroupsAre ==
    ASSUME NEW g
    PROVE  g \in SeqOf([iso : Values, shutter : Values, bracket : BOOLEAN], MaxGroups)
           <=> g \in Seq(Group) /\ Len(g) <= MaxGroups
<1>1. MaxGroups \in Nat
    BY CacheAssumption
<1>2. ASSUME NEW m \in 0..MaxGroups, g \in [1..m -> Group]
      PROVE  g \in Seq(Group) /\ Len(g) <= MaxGroups
    <2>1. m \in Nat
        BY <1>1
    <2>2. g \in Seq(Group) /\ Len(g) = m
        BY <1>2, <2>1
    <2>3. QED
        BY <1>1, <2>2
<1>3. ASSUME g \in Seq(Group), Len(g) <= MaxGroups
      PROVE  Len(g) \in 0..MaxGroups /\ g \in [1..Len(g) -> Group]
    BY <1>1, <1>3
<1>4. QED
    BY <1>2, <1>3 DEF SeqOf, Group

LEMMA CacheFacts ==
    ASSUME CacheIInv
    PROVE  /\ wake \in {"none", "blank", "read", "fresh", "trusted"}
           /\ memory \in [init : Values \cup {Unknown}, phase : Values \cup {Unknown}]
           /\ groups \in Seq(Group) /\ Len(groups) <= MaxGroups
           /\ sending \in Seq([key : Controls \cup {"photo"}, value : Values]) /\ Len(sending) <= 5
           /\ released \in ReleaseKinds /\ photo \in Photos
           /\ calls \in 0..MaxCalls /\ mishaps \in 0..MaxMishaps
           /\ MaxCalls \in Nat /\ MaxMishaps \in Nat
<1>1. groups \in Seq(Group) /\ Len(groups) <= MaxGroups
    BY GroupsAre DEF CacheIInv, CacheTypeInv
<1>2. QED
    BY <1>1, CacheAssumption DEF CacheIInv, CacheTypeInv, Photos, Group

\* What is known of the body stays so while its profile does.
LEMMA ProfileKept ==
    ASSUME body'.effects = body.effects, body'.invalidates = body.invalidates
    PROVE  (Visible' <=> Visible) /\ (EffectsKnown' <=> EffectsKnown)
BY DEF Visible, EffectsKnown, Changed, Resets

\* A call that leaves no capture behind.
LEMMA CallStep ==
    ASSUME CacheIInv, NEW at \in Settings, body' = [body EXCEPT !.at = at], known' \in Facts,
           wake' \in {"none", "blank", "read", "fresh", "trusted"},
           memory' \in [init : Values \cup {Unknown}, phase : Values \cup {Unknown}],
           groups' = <<>>, sending' = <<>>, released' \in {"no", "cut"},
           photo' \in Photos, photo'.wrong = photo.wrong, photo'.doubted = photo.doubted,
           photo'.bare # "here", photo'.early # "here",
           calls' \in 0..MaxCalls, mishaps' \in 0..MaxMishaps,
           wake' \in {"none", "blank"} => known' = Blank,
           memory'.init # Unknown => wake' \in {"none", "fresh", "trusted"},
           wake' = "trusted" => memory'.init # Unknown,
           Visible /\ Sure' => Right(at, known')
    PROVE  CacheIInv'
<1>1. /\ body' \in [at : [Controls -> Values], effects : SUBSET Effects,
                    invalidates : [Controls -> SUBSET Controls], through_single : BOOLEAN]
      /\ body'.at = at /\ body'.effects = body.effects /\ body'.invalidates = body.invalidates
    BY BodyIs DEF CacheIInv
<1>2. groups' \in Seq(Group) /\ Len(groups') <= MaxGroups
      /\ sending' \in Seq([key : Controls \cup {"photo"}, value : Values]) /\ Len(sending') <= 5
    BY CacheAssumption
<1>3. groups' \in SeqOf([iso : Values, shutter : Values, bracket : BOOLEAN], MaxGroups)
    BY <1>2, GroupsAre
<1>4. CacheTypeInv'
    BY <1>1, <1>2, <1>3 DEF CacheTypeInv, Facts, Photos, Group, ReleaseKinds
<1>5. PluginInOrder' /\ ReleaseInOrder' /\ EarlyInCapture'
    BY DEF PluginInOrder, ReleaseInOrder, EarlyInCapture, InRun
<1>6. SendingInOrder'
    BY <1>2 DEF SendingInOrder
<1>7. Visible' => EffectsKnown' /\ PhotosKnown' /\ (Sure' => Right(body'.at, known'))
    BY <1>1, ProfileKept DEF CacheIInv, PhotosKnown
<1>8. QED
    BY <1>4, <1>5, <1>6, <1>7 DEF CacheIInv

LEMMA FailsStep ==
    ASSUME CacheIInv, NEW states \in SUBSET Settings, Fails(states), calls' \in 0..MaxCalls
    PROVE  CacheIInv'
<1>1. PICK at \in states : body' = [body EXCEPT !.at = at]
    BY DEF Fails
<1>2. /\ known' = Blank /\ wake' = "none" /\ groups' = <<>> /\ sending' = <<>> /\ released' = "no"
      /\ photo' = [photo EXCEPT !.group = NoGroup] /\ memory' = memory
      /\ mishaps < MaxMishaps /\ mishaps' = mishaps + 1
    BY DEF Fails
<1>3. mishaps' \in 0..MaxMishaps
    BY <1>2, CacheFacts
<1>4. Blank \in Facts /\ Right(at, Blank) /\ NoGroup \in Group
    BY DEF Blank, Facts, Right, NoGroup, Group, Values
<1>5. photo' \in Photos /\ photo'.wrong = photo.wrong /\ photo'.doubted = photo.doubted
      /\ photo'.bare = photo.bare /\ photo'.early = photo.early
    BY <1>2, <1>4, CacheFacts DEF Photos
<1>6. at \in Settings
    BY <1>1
<1>7. QED
    BY <1>1, <1>2, <1>3, <1>4, <1>5, <1>6, CacheFacts, CallStep DEF CacheIInv, EarlyInCapture

\* An idle plugin has no early release behind it.
LEMMA IdleIs ==
    ASSUME CacheIInv, Idle
    PROVE  groups = <<>> /\ sending = <<>> /\ released \in {"no", "cut"}
BY CacheFacts DEF Idle, CacheIInv, ReleaseInOrder, ReleaseKinds

LEMMA CountedIs == ASSUME CacheIInv, MayCall, Counted PROVE calls' \in 0..MaxCalls
BY CacheFacts DEF MayCall, Counted

LEMMA TouchedStep ==
    ASSUME CacheIInv, NEW k \in Controls, NEW v \in Values, Touched(k, v) PROVE CacheIInv'
<1> DEFINE at == Changed(body.at, k, v, body.effects)
<1>1. /\ Idle /\ memory.init = Unknown /\ body' = [body EXCEPT !.at = at]
      /\ wake' = (IF wake = "fresh" THEN "read" ELSE wake)
      /\ UNCHANGED <<known, memory, groups, sending, released, photo, calls, mishaps>>
    BY DEF Touched
<1>2. at \in Settings /\ known \in Facts
    BY BodyIs, ChangedIs DEF CacheIInv
<1> HIDE DEF at
<1>3. (Sure' => known = Blank) /\ wake # "trusted"
    BY <1>1, CacheFacts DEF CacheIInv, PluginInOrder, Sure, InRun
<1>4. Right(at, Blank)
    BY DEF Right, Blank
<1>5. QED
    BY <1>1, <1>2, <1>3, <1>4, CacheFacts, IdleIs, CallStep DEF CacheIInv, EarlyInCapture, PluginInOrder

\* A preflight or an initialization: what it begins from is right, or it would not be trusted.
LEMMA ConvergesStep ==
    ASSUME CacheIInv, NEW s \in BodyStates, NEW iso \in Values, NEW again \in BOOLEAN,
           NEW phase \in Values \cup {Unknown}, NEW init \in Values \cup {Unknown},
           NEW state \in {"fresh", "trusted"}, state = "trusted" => init # Unknown,
           MayCall, Counted, released' = "no",
           Visible /\ state = "fresh" => Right(s.at, s.facts),
           Converges(s, iso, again, phase, init, state)
    PROVE  CacheIInv'
<1>1. calls' \in 0..MaxCalls /\ Idle /\ CacheTypeInv
    BY CountedIs DEF MayCall, CacheIInv
<1>2. CASE Fails(Interrupted(s, iso, again))
    BY <1>1, <1>2, EnsureIs, FailsStep
<1>3. CASE ~Fails(Interrupted(s, iso, again))
    <2>1. PICK done \in BodyStates :
              /\ body' = [body EXCEPT !.at = done.at] /\ known' = done.facts /\ wake' = state
              /\ memory' = [init |-> init, phase |-> phase]
              /\ UNCHANGED <<groups, sending, photo, mishaps>>
              /\ EffectsKnown /\ Right(s.at, s.facts) => Right(done.at, done.facts)
        BY <1>1, <1>3, EnsureIs DEF Converges
    <2>2. done.at \in Settings /\ done.facts \in Facts
        BY <2>1 DEF BodyStates
    <2>3. memory' \in [init : Values \cup {Unknown}, phase : Values \cup {Unknown}]
        BY <2>1
    <2>4. Visible /\ Sure' => Right(done.at, done.facts)
        BY <2>1 DEF CacheIInv, Sure
    <2>5. QED
        BY <1>1, <2>1, <2>2, <2>3, <2>4, CacheFacts, IdleIs, CallStep DEF CacheIInv, EarlyInCapture
<1>4. QED
    BY <1>2, <1>3

LEMMA CallPreflightStep == ASSUME CacheIInv, NEW iso \in Values, CallPreflight(iso) PROVE CacheIInv'
<1>1. /\ MayCall /\ Counted /\ released' = "no"
      /\ Converges(Woken("preflight"), iso, FALSE, memory.phase, memory.init, "fresh")
    BY DEF CallPreflight
<1>2. Woken("preflight") = [at |-> Recovered.at, facts |-> Recovered.at]
    BY DEF Woken, Reuses
<1>3. Recovered.at \in Settings /\ Settings \subseteq Facts
    BY RecoveredIs DEF BodyStates, Settings, Facts
<1>4. Woken("preflight") \in BodyStates /\ Right(Woken("preflight").at, Woken("preflight").facts)
    BY <1>2, <1>3 DEF BodyStates, Right
<1>5. memory.phase \in Values \cup {Unknown} /\ memory.init \in Values \cup {Unknown}
    BY CacheFacts
<1>6. QED
    BY <1>1, <1>4, <1>5, ConvergesStep

LEMMA CallInitializeStep ==
    ASSUME CacheIInv, NEW iso \in Values, CallInitialize(iso) PROVE CacheIInv'
<1> DEFINE state == IF Reuses(Recovered, "initialize") /\ wake \in {"read", "trusted"} THEN "trusted"
                    ELSE "fresh"
<1>1. /\ MayCall /\ Counted /\ released' = "no"
      /\ Converges(Woken("initialize"), iso, TRUE, iso, iso, state)
    BY DEF CallInitialize
<1>2. Recovered \in BodyStates /\ (Visible /\ Sure => Right(Recovered.at, Recovered.facts))
    BY <1>1, RecoveredIs
<1>3. [at |-> Recovered.at, facts |-> Recovered.at] \in BodyStates /\ Right(Recovered.at, Recovered.at)
    BY <1>2 DEF BodyStates, Settings, Facts, Right
<1>4. Woken("initialize") \in BodyStates
    BY <1>2, <1>3 DEF Woken
<1>5. Visible /\ state = "fresh" => Right(Woken("initialize").at, Woken("initialize").facts)
    BY <1>2, <1>3 DEF Woken, Sure
<1>6. state \in {"fresh", "trusted"} /\ iso # Unknown /\ iso \in Values \cup {Unknown}
    BY DEF Values, Unknown
<1> HIDE DEF state
<1>7. QED
    BY <1>1, <1>4, <1>5, <1>6, ConvergesStep

LEMMA CallReadInfoStep == ASSUME CacheIInv, CallReadInfo PROVE CacheIInv'
<1>1. MayCall /\ Counted /\ calls' \in 0..MaxCalls /\ Idle /\ CacheTypeInv
    BY CountedIs DEF CallReadInfo, MayCall, CacheIInv
<1>2. Recovered.at \in Settings /\ Recovered.at \in Facts /\ Right(Recovered.at, Recovered.at)
      /\ body.at \in Settings
    BY <1>1, BodyIs, RecoveredIs DEF BodyStates, Settings, Facts, Right
<1>3. CASE Fails({body.at, Recovered.at})
    <2>1. {body.at, Recovered.at} \in SUBSET Settings
        BY <1>2
    <2>2. QED
        BY <1>1, <1>3, <2>1, FailsStep
<1>4. CASE ~Fails({body.at, Recovered.at})
    <2>1. /\ body' = [body EXCEPT !.at = Recovered.at] /\ known' = Recovered.at
          /\ wake' = (IF memory.init = Unknown THEN "read" ELSE "fresh") /\ released' = "no"
          /\ memory' = [memory EXCEPT !.phase = IF wake = "none" THEN memory.init ELSE @]
          /\ UNCHANGED <<groups, sending, photo, mishaps>>
        BY <1>4 DEF CallReadInfo
    <2>2. memory' \in [init : Values \cup {Unknown}, phase : Values \cup {Unknown}]
          /\ memory'.init = memory.init
        BY <2>1, CacheFacts
    <2>3. wake' \in {"read", "fresh"} /\ (memory'.init # Unknown => wake' = "fresh")
        BY <2>1, <2>2
    <2>4. QED
        BY <1>1, <1>2, <2>1, <2>2, <2>3, CacheFacts, IdleIs, CallStep DEF CacheIInv, EarlyInCapture
<1>5. QED
    BY <1>3, <1>4

LEMMA CallPhaseStep == ASSUME CacheIInv, NEW iso \in Values, CallPhase(iso) PROVE CacheIInv'
<1>1. MayCall /\ Counted /\ calls' \in 0..MaxCalls /\ Idle /\ CacheTypeInv /\ memory.init # Unknown
      /\ InRun /\ wake \in {"none", "fresh", "trusted"}
    BY CountedIs DEF CallPhase, MayCall, CacheIInv, InRun, PluginInOrder
<1>2. Recovered.at \in Settings /\ Recovered.facts \in Facts /\ body.at \in Settings
      /\ (Visible /\ Sure => Right(Recovered.at, Recovered.facts))
    BY <1>1, BodyIs, RecoveredIs DEF BodyStates
<1>3. "iso" \in Controls
    BY DEF Controls
<1> DEFINE set == Changed(Recovered.at, "iso", iso, body.effects)
<1>4. set \in Settings /\ Learnt(Recovered.facts, "iso", iso) \in Facts
      /\ (Visible /\ Sure => Right(set, Learnt(Recovered.facts, "iso", iso)))
    BY <1>1, <1>2, <1>3, BodyIs, ChangedIs, LearntIs DEF CacheIInv
<1>5. CASE Fails({body.at, Recovered.at, set})
    <2>1. {body.at, Recovered.at, set} \in SUBSET Settings
        BY <1>2, <1>4
    <2>2. QED
        BY <1>1, <1>5, <2>1, FailsStep
<1>6. CASE ~Fails({body.at, Recovered.at, set})
    <2>1. PICK at \in Settings :
              /\ body' = [body EXCEPT !.at = at] /\ known' \in Facts
              /\ released' \in {released, "no"} /\ (Visible /\ Sure => Right(at, known'))
        BY <1>2, <1>4, <1>6 DEF CallPhase
    <2>2. /\ wake' = (IF wake = "none" THEN "fresh" ELSE wake)
          /\ memory' = [init |-> iso, phase |-> iso]
          /\ UNCHANGED <<groups, sending, mishaps>>
          /\ \E kind \in {photo.early, released} : photo' = [photo EXCEPT !.early = kind]
        BY <1>6 DEF CallPhase
    <2>3. released \in {"no", "cut"} /\ photo.early # "here" /\ photo.early \in ReleaseKinds
          /\ released \in ReleaseKinds
        BY <1>1, IdleIs, CacheFacts DEF CacheIInv, EarlyInCapture, Photos
    <2>4. photo' \in Photos /\ photo'.early # "here" /\ photo'.wrong = photo.wrong
          /\ photo'.doubted = photo.doubted /\ photo'.bare = photo.bare
        BY <2>2, <2>3, CacheFacts DEF Photos
    <2>5. wake' \in {"fresh", "trusted"} /\ (Sure' => Sure)
        BY <1>1, <2>2 DEF Sure
    <2>6. memory' \in [init : Values \cup {Unknown}, phase : Values \cup {Unknown}] /\ memory'.init # Unknown
        BY <2>2 DEF Values, Unknown
    <2>7. QED
        BY <1>1, <2>1, <2>2, <2>3, <2>4, <2>5, <2>6, CacheFacts, IdleIs, CallStep DEF CacheIInv, EarlyInCapture
<1>7. QED
    BY <1>5, <1>6

LEMMA ClearRecoveryStep == ASSUME CacheIInv, ClearRecovery PROVE CacheIInv'
<1>1. /\ Idle /\ memory' = [init |-> Unknown, phase |-> Unknown] /\ known' = Blank
      /\ wake' \in {"none", "blank"} /\ released' = "no"
      /\ UNCHANGED <<body, groups, sending, photo, calls, mishaps>>
    BY DEF ClearRecovery
<1>2. Blank \in Facts /\ Right(body.at, Blank) /\ body.at \in Settings /\ body' = [body EXCEPT !.at = body.at]
    BY <1>1, BodyIs DEF Blank, Facts, Right, CacheIInv, CacheTypeInv
<1>3. memory' \in [init : Values \cup {Unknown}, phase : Values \cup {Unknown}] /\ memory'.init = Unknown
    BY <1>1
<1>4. QED
    BY <1>1, <1>2, <1>3, CacheFacts, IdleIs, CallStep DEF CacheIInv, EarlyInCapture

LEMMA GroupsCutStep == ASSUME CacheIInv, GroupsCut PROVE CacheIInv'
<1>1. /\ groups # <<>> /\ sending = <<>> /\ groups' = <<>> /\ memory' = [memory EXCEPT !.phase = Unknown]
      /\ released' = IF released = "here" THEN "cut" ELSE released
      /\ UNCHANGED <<body, known, wake, sending, photo, calls, mishaps>>
    BY DEF GroupsCut
<1>2. released' \in {"no", "cut"}
    BY <1>1, CacheFacts DEF ReleaseKinds
<1>3. memory' \in [init : Values \cup {Unknown}, phase : Values \cup {Unknown}] /\ memory'.init = memory.init
    BY <1>1, CacheFacts
<1>4. body.at \in Settings /\ known \in Facts /\ body' = [body EXCEPT !.at = body.at]
    BY <1>1, BodyIs DEF CacheIInv, CacheTypeInv
<1>5. QED
    BY <1>1, <1>2, <1>3, <1>4, CacheFacts, CallStep
    DEF CacheIInv, EarlyInCapture, PluginInOrder, InRun, Sure


LEMMA CallCaptureStep ==
    ASSUME CacheIInv, NEW n \in 1..MaxGroups, NEW plan \in [1..n -> Group], CallCapture(plan) PROVE CacheIInv'
<1>1. MayCall /\ Counted /\ calls' \in 0..MaxCalls /\ Idle /\ CacheTypeInv /\ memory.init # Unknown
      /\ InRun /\ wake \in {"none", "fresh", "trusted"}
    BY CountedIs DEF CallCapture, MayCall, CacheIInv, InRun, PluginInOrder
<1>2. Recovered.at \in Settings /\ Recovered.facts \in Facts /\ body.at \in Settings
      /\ (Visible /\ Sure => Right(Recovered.at, Recovered.facts))
    BY <1>1, BodyIs, RecoveredIs DEF BodyStates
<1>3. CASE Fails({body.at, Recovered.at})
    <2>1. {body.at, Recovered.at} \in SUBSET Settings
        BY <1>2
    <2>2. QED
        BY <1>1, <1>3, <2>1, FailsStep
<1>4. CASE ~Fails({body.at, Recovered.at})
    <2>1. /\ body' = [body EXCEPT !.at = Recovered.at] /\ known' = Recovered.facts
          /\ wake' = (IF wake = "none" THEN "fresh" ELSE wake)
          /\ memory' = [memory EXCEPT !.phase = IF wake = "none" THEN memory.init ELSE @]
          /\ groups' = plan /\ sending' = <<>>
          /\ UNCHANGED <<released, photo, mishaps>>
        BY <1>4 DEF CallCapture
    <2>2. memory' \in [init : Values \cup {Unknown}, phase : Values \cup {Unknown}]
          /\ memory'.init = memory.init /\ wake' \in {"fresh", "trusted"} /\ (Sure' => Sure)
        BY <1>1, <2>1, CacheFacts DEF Sure
    <2>3. groups' \in SeqOf([iso : Values, shutter : Values, bracket : BOOLEAN], MaxGroups)
        <3>1. n \in 0..MaxGroups
            BY CacheAssumption
        <3>2. QED
            BY <2>1, <3>1 DEF SeqOf, Group
    <2>4. /\ body' \in [at : [Controls -> Values], effects : SUBSET Effects,
                        invalidates : [Controls -> SUBSET Controls], through_single : BOOLEAN]
          /\ body'.at = Recovered.at /\ body'.effects = body.effects /\ body'.invalidates = body.invalidates
        BY <1>1, <1>2, <2>1, BodyIs
    <2>5. sending' \in Seq([key : Controls \cup {"photo"}, value : Values]) /\ Len(sending') = 0 /\ 0 <= 5
        BY <2>1
    <2>6. released \in {"no", "cut"}
        BY <1>1, IdleIs
    <2>7. CacheTypeInv'
        BY <1>1, <1>2, <2>1, <2>2, <2>3, <2>4, <2>5, CacheFacts DEF CacheTypeInv, Facts, Photos, Group
    <2>8. PluginInOrder' /\ ReleaseInOrder' /\ EarlyInCapture'
        BY <1>1, <2>1, <2>2, <2>6 DEF PluginInOrder, ReleaseInOrder, EarlyInCapture, InRun, CacheIInv
    <2>9. SendingInOrder'
        BY <2>1, <2>5 DEF SendingInOrder
    <2>10. Visible' => EffectsKnown' /\ PhotosKnown' /\ (Sure' => Right(body'.at, known'))
        BY <1>2, <2>1, <2>2, <2>4, ProfileKept DEF CacheIInv, PhotosKnown
    <2>11. QED
        BY <2>7, <2>8, <2>9, <2>10 DEF CacheIInv
<1>5. QED
    BY <1>3, <1>4

LEMMA NextGroupStep == ASSUME CacheIInv, NextGroup PROVE CacheIInv'
<1>1. /\ groups # <<>> /\ sending = <<>> /\ sending' = Effective(known, Head(groups))
      /\ photo' = Untold(Head(groups))
      /\ UNCHANGED <<body, known, wake, memory, groups, released, calls, mishaps>>
    BY DEF NextGroup
<1>2. PICK group \in Group : group = Head(groups)
    BY <1>1, CacheFacts
<1>3. /\ sending' \in Seq([key : Controls \cup {"photo"}, value : Values])
      /\ Len(sending') <= 5 /\ sending' # <<>>
      /\ \A i \in 1..Len(sending') : i < Len(sending') => sending'[i].key # "photo"
      /\ GroupSettled(known, sending', group)
    <2>1. known \in Facts /\ CacheTypeInv
        BY BodyIs DEF CacheIInv
    <2>2. sending' = Effective(known, group)
        BY <1>1, <1>2
    <2>3. /\ Effective(known, group) \in Seq([key : Controls \cup {"photo"}, value : Values])
          /\ Len(Effective(known, group)) <= 5 /\ Effective(known, group) # <<>>
          /\ \A i \in 1..Len(Effective(known, group)) :
                 i < Len(Effective(known, group)) => Effective(known, group)[i].key # "photo"
          /\ GroupSettled(known, Effective(known, group), group)
        BY <1>2, <2>1, EffectiveIs
    <2>4. QED
        BY <2>2, <2>3
<1>4. photo' \in Photos /\ photo'.group = group /\ ~photo'.wrong /\ photo'.bare = "no" /\ photo'.early = "no"
    BY <1>1, <1>2 DEF Untold, Photos, ReleaseKinds
<1>5. CacheTypeInv'
    BY <1>1, <1>3, <1>4 DEF CacheIInv, CacheTypeInv, Photos, Group
<1>6. PluginInOrder' /\ EarlyInCapture'
    BY <1>1, <1>4 DEF CacheIInv, PluginInOrder, EarlyInCapture, InRun
<1>7. SendingInOrder'
    BY <1>1, <1>3, <1>4 DEF SendingInOrder
<1>8. ReleaseInOrder'
    BY <1>1, <1>3 DEF CacheIInv, ReleaseInOrder
<1>9. Visible' => EffectsKnown' /\ PhotosKnown' /\ (Sure' => Right(body'.at, known'))
    BY <1>1, <1>4, ProfileKept DEF CacheIInv, PhotosKnown, Sure
<1>10. QED
    BY <1>5, <1>6, <1>7, <1>8, <1>9 DEF CacheIInv

\* A SET that is sent settles its own setting, and puts no other in a wrong value.
LEMMA TailSettled ==
    ASSUME CacheTypeInv, NEW S, NEW ops \in Seq(S), ops # <<>>, NEW k \in Controls, NEW w \in Values,
           Head(ops) = Op(k, w), NEW c \in Controls, NEW v \in Values, Settled(known, ops, c, v)
    PROVE  Settled(Learnt(known, k, w), Tail(ops), c, v)
<1> DEFINE rest == Tail(ops)
           n == Len(ops)
           facts == Learnt(known, k, w)
<1>1. /\ n \in Nat /\ n > 0 /\ Len(rest) = n - 1 /\ ops[1] = Op(k, w)
      /\ \A i \in 1..n - 1 : rest[i] = ops[i + 1]
    OBVIOUS
<1>2. facts[k] = w /\ \A j \in Controls : j # k => facts[j] \in {known[j], Unknown}
    BY BodyIs, LearntIs
<1>3. Op(k, w).key = k /\ Op(k, w).value = w /\ Op(c, v).key = c /\ Op(c, v).value = v
    BY DEF Op
<1>4. 1 \in 1..n
    BY <1>1
<1> HIDE DEF rest, n, facts
<1>5. \A i \in 1..n - 1 : i + 1 \in 1..n
    BY <1>1
<1>6. CASE Untouched(ops, c) /\ known[c] \in {v, Unknown}
    <2>1. c # k
        BY <1>1, <1>3, <1>4, <1>6 DEF Untouched, n
    <2>2. Untouched(rest, c)
        BY <1>1, <1>5, <1>6 DEF Untouched, n
    <2>3. QED
        BY <1>2, <1>6, <2>1, <2>2 DEF Settled, rest, facts
<1>7. CASE LastIs(ops, c, v)
    <2>1. PICK i \in 1..n : ops[i] = Op(c, v) /\ \A j \in 1..n : j > i => ops[j].key # c
        BY <1>7 DEF LastIs, n
    <2>2. CASE i = 1
        <3>1. c = k /\ v = w
            BY <1>1, <1>3, <2>1, <2>2
        <3>2. \A j \in 1..n - 1 : j + 1 > i
            BY <1>1, <2>2
        <3>3. Untouched(rest, c)
            BY <1>1, <1>5, <2>1, <3>2 DEF Untouched
        <3>4. QED
            BY <1>2, <3>1, <3>3 DEF Settled, rest, facts
    <2>3. CASE i # 1
        <3>1. i - 1 \in 1..n - 1 /\ (i - 1) + 1 = i
            BY <1>1, <2>1, <2>3
        <3>2. rest[i - 1] = Op(c, v)
            BY <1>1, <2>1, <3>1
        <3>3. \A j \in 1..n - 1 : j > i - 1 => j + 1 > i
            BY <1>1, <2>1
        <3>4. \A j \in 1..n - 1 : j > i - 1 => rest[j].key # c
            BY <1>1, <1>5, <2>1, <3>3
        <3>5. LastIs(rest, c, v)
            BY <1>1, <3>1, <3>2, <3>4 DEF LastIs
        <3>6. QED
            BY <3>5 DEF Settled, rest
    <2>4. QED
        BY <2>2, <2>3
<1>8. QED
    BY <1>6, <1>7 DEF Settled

LEMMA SendSetStep == ASSUME CacheIInv, SendSet PROVE CacheIInv'
<1>1. sending # <<>> /\ Head(sending).key # "photo" /\ CacheTypeInv
    BY DEF SendSet, CacheIInv
<1>2. PICK k \in Controls, v \in Values : Head(sending) = Op(k, v)
    <2>1. Head(sending) \in [key : Controls \cup {"photo"}, value : Values]
        <3> DEFINE S == [key : Controls \cup {"photo"}, value : Values]
        <3>1. sending \in Seq(S)
            BY CacheFacts
        <3> HIDE DEF S
        <3>2. Head(sending) \in S
            BY <1>1, <3>1
        <3>3. QED
            BY <3>2 DEF S
    <2>2. Head(sending) = Op(Head(sending).key, Head(sending).value)
        BY <2>1 DEF Op
    <2>3. QED
        BY <1>1, <2>1, <2>2
<1>3. Head(sending).key = k /\ Head(sending).value = v
    BY <1>2 DEF Op
<1> DEFINE at == Changed(body.at, k, v, body.effects)
<1>4. at \in Settings /\ body.at \in Settings /\ known \in Facts
    BY <1>1, BodyIs, ChangedIs
<1>5. CASE Fails({body.at, at}) /\ calls' = calls
    <2>1. {body.at, at} \in SUBSET Settings
        BY <1>4
    <2>2. QED
        BY <1>5, <2>1, FailsStep, CacheFacts
<1>6. CASE ~(Fails({body.at, at}) /\ calls' = calls)
    <2>1. /\ body' = [body EXCEPT !.at = at] /\ known' = Learnt(known, k, v)
          /\ sending' = Tail(sending) /\ released' = "no"
          /\ photo' = [photo EXCEPT !.early = IF k = "shutter" THEN @ ELSE released]
          /\ UNCHANGED <<wake, memory, groups, calls, mishaps>>
        BY <1>3, <1>6 DEF SendSet
    <2>2. known' \in Facts /\ (EffectsKnown /\ Right(body.at, known) => Right(at, known'))
        BY <1>1, <1>4, <2>1, LearntIs
    <2> HIDE DEF at
    <2>3. /\ body' \in [at : [Controls -> Values], effects : SUBSET Effects,
                        invalidates : [Controls -> SUBSET Controls], through_single : BOOLEAN]
          /\ body'.at = at /\ body'.effects = body.effects /\ body'.invalidates = body.invalidates
        BY <1>1, <1>4, <2>1, BodyIs
    <2>4. /\ sending' \in Seq([key : Controls \cup {"photo"}, value : Values]) /\ Len(sending') = Len(sending) - 1
          /\ Len(sending) \in Nat /\ \A i \in 1..Len(sending) - 1 : sending'[i] = sending[i + 1]
        BY <1>1, <2>1, CacheFacts
    <2>5. Len(sending') <= 5
        BY <2>4, CacheFacts
    <2>6. released = "here" => k = "shutter"
        BY <1>1, <1>3 DEF CacheIInv, ReleaseInOrder
    <2>7. photo' \in Photos /\ photo'.group = photo.group /\ photo'.wrong = photo.wrong
          /\ photo'.doubted = photo.doubted /\ photo'.bare = photo.bare /\ photo'.early # "here"
        BY <2>1, <2>6, CacheFacts DEF Photos, CacheIInv, EarlyInCapture
    <2>8. CacheTypeInv'
        BY <1>1, <2>1, <2>2, <2>3, <2>4, <2>5, <2>7 DEF CacheTypeInv, Facts, Photos, Group, ReleaseKinds
    <2>9. PluginInOrder' /\ ReleaseInOrder' /\ EarlyInCapture'
        BY <1>1, <2>1, <2>7, CacheFacts DEF CacheIInv, PluginInOrder, ReleaseInOrder, EarlyInCapture, InRun
    <2>10. SendingInOrder'
        <3>1. ASSUME NEW i \in 1..Len(sending'), i < Len(sending')
              PROVE  sending'[i].key # "photo"
            <4>1. i \in 1..Len(sending) - 1 /\ i + 1 \in 1..Len(sending) /\ i + 1 < Len(sending)
                BY <2>4, <3>1
            <4>2. QED
                BY <2>4, <4>1 DEF CacheIInv, SendingInOrder
        <3>2. photo.group.iso \in Values /\ photo.group.shutter \in Values
              /\ (IF photo.group.bracket THEN 1 ELSE 0) \in Values
            BY CacheFacts DEF Photos, Group, Values
        <3>3. "iso" \in Controls /\ "shutter" \in Controls /\ "mode" \in Controls
            BY DEF Controls
        <3>4. GroupSettled(known, sending, photo.group)
            BY <1>1 DEF CacheIInv, SendingInOrder
        <3>5. GroupSettled(known', sending', photo.group)
            BY <1>1, <1>2, <2>1, <3>2, <3>3, <3>4, CacheFacts, TailSettled DEF GroupSettled
        <3>6. QED
            BY <2>7, <3>1, <3>5 DEF SendingInOrder
    <2>11. wake' = wake /\ wake \in {"fresh", "trusted"}
        BY <1>1, <2>1 DEF CacheIInv, PluginInOrder
    <2>12. Visible' => EffectsKnown' /\ PhotosKnown' /\ (Sure' => Right(body'.at, known'))
        BY <2>2, <2>3, <2>7, <2>11, ProfileKept DEF CacheIInv, PhotosKnown, Sure
    <2>13. QED
        BY <2>8, <2>9, <2>10, <2>12 DEF CacheIInv
<1>7. QED
    BY <1>5, <1>6

\* What a group still needs depends on the profile and on what is known.
LEMMA EffectiveKept ==
    ASSUME body' = body
    PROVE  \A facts, group : Effective(facts, group)' = Effective(facts, group)
<1>1. \A facts, k, v : Learnt(facts, k, v)' = Learnt(facts, k, v)
    BY DEF Learnt
<1>2. \A acc, op : Sifted(acc, op)' = Sifted(acc, op)
    BY <1>1 DEF Sifted
<1>3. \A group : Operations(group)' = Operations(group)
    BY DEF Operations
<1>4. QED
    BY <1>2, <1>3 DEF Effective

LEMMA SendPhotoStep == ASSUME CacheIInv, SendPhoto PROVE CacheIInv'
<1>1. /\ sending # <<>> /\ Head(sending).key = "photo" /\ CacheTypeInv
      /\ groups # <<>> /\ InRun /\ wake \in {"fresh", "trusted"} /\ body.at \in Settings /\ known \in Facts
    BY BodyIs DEF SendPhoto, CacheIInv, PluginInOrder
<1>2. CASE Fails({body.at}) /\ calls' = calls
    <2>1. {body.at} \in SUBSET Settings
        BY <1>1
    <2>2. QED
        BY <1>2, <2>1, FailsStep, CacheFacts
<1>3. CASE ~(Fails({body.at}) /\ calls' = calls)
    <2>1. /\ photo' = [wrong |-> Wrong(body.at, photo.group), doubted |-> Doubted,
                       group |-> NoGroup, early |-> "no", bare |-> released]
          /\ released' = IF Len(groups) > 1 /\ ~photo.group.bracket /\ MayRelease(Effective(known, groups[2]))
                         THEN "here" ELSE "no"
          /\ sending' = <<>> /\ groups' = Tail(groups)
          /\ memory' = IF Len(groups) = 1 THEN [memory EXCEPT !.phase = Unknown] ELSE memory
          /\ UNCHANGED <<body, known, wake, calls, mishaps>>
        BY <1>3 DEF SendPhoto
    <2>2. /\ groups' \in Seq(Group) /\ Len(groups') = Len(groups) - 1 /\ Len(groups') <= MaxGroups
          /\ Len(groups) > 1 => groups' # <<>> /\ Head(groups') = groups[2]
        <3>1. groups \in Seq(Group) /\ groups # <<>> /\ Len(groups) <= MaxGroups /\ MaxGroups \in Nat
            BY <1>1, CacheFacts, CacheAssumption
        <3>2. groups' \in Seq(Group) /\ Len(groups') = Len(groups) - 1
            BY <2>1, <3>1
        <3>3. Len(groups') <= MaxGroups
            BY <3>1, <3>2
        <3>4. Len(groups) > 1 => groups' # <<>> /\ Head(groups') = groups[2]
            BY <2>1, <3>1, <3>2
        <3>5. QED
            BY <3>2, <3>3, <3>4
    <2>3. groups' \in SeqOf([iso : Values, shutter : Values, bracket : BOOLEAN], MaxGroups)
        BY <2>2, GroupsAre
    <2>4. memory' \in [init : Values \cup {Unknown}, phase : Values \cup {Unknown}]
          /\ memory'.init = memory.init
        BY <2>1, CacheFacts
    <2>5. released # "here"
        BY <1>1 DEF CacheIInv, ReleaseInOrder
    <2>6. /\ photo' \in Photos /\ photo'.bare # "here" /\ photo'.early # "here"
          /\ photo'.wrong = Wrong(body.at, photo.group) /\ photo'.doubted = Doubted
        <3>1. Wrong(body.at, photo.group) \in BOOLEAN /\ Doubted \in BOOLEAN /\ NoGroup \in Group
            BY DEF Wrong, Doubted, NoGroup, Group, Values
        <3>2. released \in ReleaseKinds /\ "no" \in ReleaseKinds
            BY CacheFacts DEF ReleaseKinds
        <3>3. QED
            BY <2>1, <2>5, <3>1, <3>2 DEF Photos
    <2>7. sending' \in Seq([key : Controls \cup {"photo"}, value : Values]) /\ Len(sending') = 0 /\ 0 <= 5
        BY <2>1
    <2>8. CacheTypeInv'
        BY <1>1, <2>1, <2>3, <2>4, <2>6, <2>7 DEF CacheTypeInv, Photos, Group, ReleaseKinds
    <2>9. PluginInOrder' /\ EarlyInCapture'
        BY <1>1, <2>1, <2>4, <2>6 DEF CacheIInv, PluginInOrder, EarlyInCapture, InRun
    <2>10. SendingInOrder'
        BY <2>1, <2>7 DEF SendingInOrder
    <2>11. ReleaseInOrder'
        <3>1. ASSUME released' = "here"
              PROVE  groups' # <<>> /\ Head(Effective(known, Head(groups'))).key = "shutter"
            BY <2>1, <2>2, <3>1 DEF MayRelease
        <3>2. Effective(known, Head(groups))' = Effective(known, Head(groups'))
            BY <2>1, EffectiveKept
        <3>3. QED
            BY <2>1, <3>1, <3>2 DEF ReleaseInOrder
    <2>12. Visible => PhotosKnown'
        <3>1. ASSUME Visible, ~Doubted
              PROVE  ~Wrong(body.at, photo.group)
            <4>1. Len(sending) = 1 /\ sending[1].key = "photo"
                <5>1. sending[1] = Head(sending) /\ Len(sending) \in Nat /\ Len(sending) >= 1
                    BY <1>1, CacheFacts
                <5>2. ~(1 < Len(sending))
                    BY <1>1, <5>1 DEF CacheIInv, SendingInOrder
                <5>3. Len(sending) = 1
                    <6> DEFINE n == Len(sending)
                    <6>1. n \in Nat /\ n >= 1 /\ ~(1 < n)
                        BY <5>1, <5>2
                    <6> HIDE DEF n
                    <6>2. n = 1
                        BY <6>1
                    <6>3. QED
                        BY <6>2 DEF n
                <5>4. QED
                    BY <1>1, <5>1, <5>3
            <4>2. \A c \in Controls : \A v : ~LastIs(sending, c, v)
                BY <4>1 DEF LastIs, Op, Controls
            <4>3. /\ known["iso"] \in {photo.group.iso, Unknown}
                  /\ known["shutter"] \in {photo.group.shutter, Unknown}
                  /\ known["mode"] \in {IF photo.group.bracket THEN 1 ELSE 0, Unknown}
                BY <1>1, <4>2 DEF CacheIInv, SendingInOrder, GroupSettled, Settled, Controls
            <4>4. \A k \in Controls : known[k] = body.at[k] /\ known[k] # Unknown
                BY <1>1, <3>1 DEF CacheIInv, Right, Doubted, Sure
            <4>5. photo.group.bracket \in BOOLEAN
                BY CacheFacts DEF Photos, Group
            <4>6. QED
                BY <4>3, <4>4, <4>5 DEF Wrong, Controls
        <3>2. QED
            BY <2>6, <3>1 DEF PhotosKnown
    <2>13. Visible' => EffectsKnown' /\ PhotosKnown' /\ (Sure' => Right(body'.at, known'))
        BY <1>1, <2>1, <2>12, ProfileKept DEF CacheIInv, Sure
    <2>14. QED
        BY <2>8, <2>9, <2>10, <2>11, <2>13, <2>6 DEF CacheIInv
<1>4. QED
    BY <1>2, <1>3

LEMMA CacheStarts == CacheInit => CacheIInv
<1> SUFFICES ASSUME CacheInit
             PROVE  CacheIInv
    OBVIOUS
<1>1. PICK effects \in UpTo(MaxEffects, Effects), doubtful \in SUBSET Controls, single \in BOOLEAN :
          body = [at |-> Baseline, effects |-> effects, through_single |-> single,
                  invalidates |-> [k \in Controls |-> IF k \in doubtful THEN Controls \ {k}
                                                      ELSE Probed(k, effects)]]
    BY DEF CacheInit
<1>2. effects \in SUBSET Effects
    <2>1. CASE effects = {}
        BY <2>1
    <2>2. CASE effects # {}
        <3>1. PICK f \in [1..MaxEffects -> Effects] : effects = {f[i] : i \in 1..MaxEffects}
            BY <1>1, <2>2 DEF UpTo
        <3>2. QED
            BY <3>1
    <2>3. QED
        BY <2>1, <2>2
<1>3. \A k \in Controls : Probed(k, effects) \in SUBSET Controls
    BY DEF Probed, Peers
<1>4. Baseline \in [Controls -> Values]
    BY DEF Baseline, Values
<1>5. body \in [at : [Controls -> Values], effects : SUBSET Effects,
                invalidates : [Controls -> SUBSET Controls], through_single : BOOLEAN]
    BY <1>1, <1>2, <1>3, <1>4
<1>6. /\ known = Blank /\ wake = "none" /\ memory = [init |-> Unknown, phase |-> Unknown]
      /\ groups = <<>> /\ sending = <<>> /\ released = "no" /\ photo = Untold(NoGroup)
      /\ calls = 0 /\ mishaps = 0
    BY DEF CacheInit
<1>7. groups \in SeqOf([iso : Values, shutter : Values, bracket : BOOLEAN], MaxGroups)
    <2>1. groups \in Seq(Group) /\ Len(groups) <= MaxGroups
        BY <1>6, CacheAssumption
    <2>2. QED
        BY <2>1, GroupsAre
<1>8. sending \in Seq([key : Controls \cup {"photo"}, value : Values]) /\ Len(sending) = 0 /\ 0 <= 5
    BY <1>6
<1>9. photo \in Photos /\ ~photo.wrong /\ photo.bare = "no" /\ photo.early = "no"
    BY <1>6 DEF Untold, NoGroup, Photos, Group, Values, ReleaseKinds
<1>10. Blank \in [Controls -> Values \cup {Unknown}] /\ Right(body.at, Blank)
    BY DEF Blank, Right
<1>11. CacheTypeInv
    BY <1>5, <1>6, <1>7, <1>8, <1>9, <1>10, CacheAssumption DEF CacheTypeInv, Photos, Group, ReleaseKinds
<1>12. PluginInOrder /\ ReleaseInOrder /\ EarlyInCapture /\ PhotosKnown
    BY <1>6, <1>9 DEF PluginInOrder, ReleaseInOrder, EarlyInCapture, PhotosKnown, InRun
<1>13. SendingInOrder
    BY <1>6, <1>8 DEF SendingInOrder
<1>14. QED
    BY <1>6, <1>10, <1>11, <1>12, <1>13, ProbesSee DEF CacheIInv

LEMMA CacheStep == CacheIInv /\ [CacheNext]_cacheVars => CacheIInv'
<1> SUFFICES ASSUME CacheIInv, [CacheNext]_cacheVars
             PROVE  CacheIInv'
    OBVIOUS
<1>1. ASSUME NEW k \in Controls, NEW v \in Values, Touched(k, v) PROVE CacheIInv'
    BY <1>1, TouchedStep
<1>2. ASSUME NEW iso \in Values, CallPreflight(iso) \/ CallInitialize(iso) \/ CallPhase(iso) PROVE CacheIInv'
    BY <1>2, CallPreflightStep, CallInitializeStep, CallPhaseStep
<1>3. CASE CallReadInfo \/ ClearRecovery \/ GroupsCut \/ NextGroup \/ SendSet \/ SendPhoto
    BY <1>3, CallReadInfoStep, ClearRecoveryStep, GroupsCutStep, NextGroupStep, SendSetStep, SendPhotoStep
<1>4. ASSUME NEW n \in 1..MaxGroups, NEW plan \in [1..n -> Group], CallCapture(plan) PROVE CacheIInv'
    BY <1>4, CallCaptureStep
<1>5. CASE UNCHANGED cacheVars
    <2>1. CacheTypeInv' /\ PluginInOrder' /\ SendingInOrder' /\ EarlyInCapture'
        BY <1>5 DEF cacheVars, CacheIInv, CacheTypeInv, PluginInOrder, SendingInOrder, EarlyInCapture, InRun
    <2>2. ReleaseInOrder'
        <3>1. Effective(known, Head(groups))' = Effective(known, Head(groups))
            BY <1>5, EffectiveKept DEF cacheVars
        <3>2. QED
            BY <1>5, <3>1 DEF cacheVars, CacheIInv, ReleaseInOrder
    <2>3. Visible' => EffectsKnown' /\ PhotosKnown' /\ (Sure' => Right(body'.at, known'))
        BY <1>5, ProfileKept DEF cacheVars, CacheIInv, PhotosKnown, Sure
    <2>4. QED
        BY <2>1, <2>2, <2>3 DEF CacheIInv
<1>6. QED
    BY <1>1, <1>2, <1>3, <1>4, <1>5 DEF CacheNext

\* What the plugin knows is safe where the invariant holds.
LEMMA CacheIsTrue == CacheIInv => CacheSafe
<1>1. CacheIInv /\ Visible /\ InRun /\ wake # "trusted" => Sure
    BY DEF CacheIInv, PluginInOrder, Sure
<1>2. QED
    BY <1>1 DEF CacheIInv, CacheSafe, CacheTrue, Right

\* For any body whose side effects the characterization can see, and however its runs begin: what the
\* plugin knows during a run is what the camera has, unless the run began with a snapshot that was out
\* of date, and a photo is taken with other settings than its group's only when the plugin can know it.
\* For any body: after an early release the shutter SET follows (profile.py:1998, :1006).
THEOREM CacheIsSafe == CacheSpec => []CacheSafe
BY CacheStarts, CacheStep, CacheIsTrue, PTL DEF CacheSpec
=============================================================================
