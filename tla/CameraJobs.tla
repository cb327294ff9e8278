-------------------------------- MODULE CameraJobs --------------------------------
\* The jobs that own a camera for themselves, and what keeps them and the Trigger apart: the
\* characterization in its own process with the files it publishes, the validation in a thread
\* of the portal, the maintenance helper, and the admission lock (runtime_interlock). What a
\* characterization measures, and what a validation runs, are modelled apart.
EXTENDS Naturals, FiniteSets
CONSTANTS
    MaxJobs,     \* characterizations that are started
    MaxFailures  \* starts, openings, kills and releases that fail, and answers that are lost
ASSUME JobsAssumption == MaxJobs \in Nat \ {0} /\ MaxFailures \in Nat

VARIABLES
    trigger,     \* the Trigger: "idle", "late" (a START whose answer was lost) or "running"
    helper,      \* whether a maintenance helper works, under this portal's JOB or one that has died
    asked,       \* requests that passed the exclusive-access hooks and their own early checks
    job,         \* CharacterizationJob
    child,       \* its process, and the files it found when it began to publish
    files,       \* the camera's pair of files: which characterization wrote each (0: no file),
                 \* and whether the portal is between its two deletions
    validation,  \* CameraValidationJob
    stranded,    \* _stranded_runtime: a temporary runtime that did not release the camera
    broken,      \* history: a START's answer was lost; the pair of files was left broken
    failures
jobsVars == <<trigger, helper, asked, job, child, files, validation, stranded, broken, failures>>

Asks == {"start", "new", "replace", "prepare", "validate"}
ChildStages == {"none", "opening", "measuring", "publishing", "half", "whole", "failing",
                "reported", "killed"}
Living == {"opening", "measuring", "publishing", "half", "whole", "failing"}
Verdicts == {"none", "PASS", "FAIL", "CRASH"}

JobRecords == [running : BOOLEAN, cancelled : BOOLEAN, monitor : BOOLEAN, watchdog : BOOLEAN,
               replaces : BOOLEAN, id : 0..MaxJobs, result : {"none", "SUCCESS", "FAILED"}]
ChildRecords == [stage : ChildStages, timing : 0..MaxJobs, profile : 0..MaxJobs]
FilePairs == [timing : 0..MaxJobs, profile : 0..MaxJobs, going : BOOLEAN]
Validations ==
    [phase : {"idle", "prepared", "starting", "running", "closing"}, cancel : BOOLEAN,
     runtime : {"none", "rig", "temporary"}, verdict : Verdicts]
JobsTypeInv ==
    /\ trigger \in {"idle", "late", "running"} /\ helper \in BOOLEAN /\ asked \subseteq Asks
    /\ job \in JobRecords /\ child \in ChildRecords /\ files \in FilePairs
    /\ validation \in Validations /\ stranded \in BOOLEAN
    /\ broken \in [answer : BOOLEAN, pair : BOOLEAN] /\ failures \in 0..MaxFailures

\* A process at some stage; what it found when it began to publish is of use until it has published.
Child(stage) == [stage |-> stage, timing |-> 0, profile |-> 0]
JobsInit ==
    /\ trigger = "idle" /\ helper = FALSE /\ asked = {}
    /\ job = [running |-> FALSE, cancelled |-> FALSE, monitor |-> FALSE, watchdog |-> FALSE,
              replaces |-> FALSE, id |-> 0, result |-> "none"]
    /\ child = Child("none")
    /\ files = [timing |-> 0, profile |-> 0, going |-> FALSE]
    /\ validation = [phase |-> "idle", cancel |-> FALSE, runtime |-> "none",
                     verdict |-> "none"]
    /\ stranded = FALSE /\ broken = [answer |-> FALSE, pair |-> FALSE] /\ failures = 0

Validating == validation.phase \in {"starting", "running", "closing"}
Mishap == failures < MaxFailures /\ failures' = failures + 1
MayFail(fails) == IF fails THEN Mishap ELSE UNCHANGED failures

(* ---- Admission ---- *)
\* What a request sees before it takes the lock: the hooks of both jobs, and its own early check.
Passes(ask) ==
    CASE ask = "start" -> ~job.running /\ ~Validating
      [] ask \in {"new", "replace"} -> ~job.running /\ ~Validating
      [] ask = "prepare" -> ~Validating /\ ~job.running
      [] OTHER -> ~job.running
Ask(ask) ==
    /\ ask \notin asked /\ Passes(ask)
    /\ asked' = asked \cup {ask}
    /\ UNCHANGED <<trigger, helper, job, child, files, validation, stranded, broken, failures>>
Admitted(ask) == ask \in asked /\ asked' = asked \ {ask}

\* maintenance_running(), asked under the admission lock.
MaintenanceRunning == helper \/ job.running \/ Validating
\* START runs under the lock; if its answer is lost, the lock is left before the Trigger runs.
StartTrigger(lost) ==
    /\ Admitted("start") /\ trigger = "idle"
    /\ MayFail(lost)
    /\ IF MaintenanceRunning THEN UNCHANGED <<trigger, broken>>
       ELSE /\ trigger' = IF lost THEN "late" ELSE "running"
            /\ broken' = [broken EXCEPT !.answer = @ \/ lost]
    /\ UNCHANGED <<helper, job, child, files, validation, stranded>>
TriggerChanges ==
    /\ \/ trigger = "late" /\ trigger' \in {"running", "idle"}
       \/ trigger = "running" /\ trigger' = "idle"
    /\ UNCHANGED <<helper, asked, job, child, files, validation, stranded, broken, failures>>

\* Maintenance is refused while the Trigger runs and while a helper works, and not by a camera job.
StartHelper ==
    /\ trigger # "running" /\ ~helper
    /\ helper' = TRUE
    /\ UNCHANGED <<trigger, asked, job, child, files, validation, stranded, broken, failures>>
HelperEnds ==
    /\ helper /\ helper' = FALSE
    /\ UNCHANGED <<trigger, asked, job, child, files, validation, stranded, broken, failures>>

(* ---- The characterization ---- *)
Reset == [job EXCEPT !.running = FALSE, !.cancelled = FALSE, !.monitor = FALSE, !.watchdog = FALSE,
                     !.result = "FAILED"]
\* The job is started under its own lock and the admission lock. "spawn": no process; "monitor":
\* no monitor thread, the process is ended; "survivor": nor could that be done.
StartJob(ask, how) ==
    /\ Admitted(ask) /\ ask \in {"new", "replace"}
    /\ MayFail(how # "well")
    /\ IF trigger = "running" \/ job.running \/ job.id = MaxJobs THEN UNCHANGED <<job, child>>
       ELSE /\ job' = [(IF how \in {"spawn", "monitor"} THEN Reset
                        ELSE [job EXCEPT !.running = TRUE, !.cancelled = how = "survivor",
                                         !.monitor = how = "well", !.watchdog = FALSE,
                                         !.result = IF how = "survivor" THEN "FAILED" ELSE "none"])
                       EXCEPT !.id = job.id + 1, !.replaces = ask = "replace"]
            /\ child' = Child(IF how \in {"well", "survivor"} THEN "opening" ELSE "none")
    /\ UNCHANGED <<trigger, helper, files, validation, stranded, broken>>

\* What the process does; a cancelled one fails where it looks (job.check), and no later than the
\* end of its measures.
Refuses == IF job.replaces THEN (files.timing = 0) # (files.profile = 0)
           ELSE files.timing # 0 \/ files.profile # 0
ChildGoes(fails) ==
    /\ child.stage \in {"opening", "measuring", "publishing"}
    /\ MayFail(fails)
    /\ LET refused == fails \/ (child.stage = "measuring" /\ job.cancelled)
                      \/ (child.stage = "publishing" /\ Refuses) IN
       /\ child' = IF refused THEN Child("failing")
                    ELSE CASE child.stage = "opening" -> Child("measuring")
                           [] child.stage = "measuring" -> Child("publishing")
                           [] OTHER -> [Child("half") EXCEPT !.timing = files.timing,
                                                        !.profile = files.profile]
       /\ files' = IF ~refused /\ child.stage = "publishing" THEN [files EXCEPT !.timing = job.id]
                   ELSE files
    /\ UNCHANGED <<trigger, helper, asked, job, validation, stranded, broken>>
\* The first file is linked, and its temporary name cannot be removed: nothing is taken back.
ChildStumbles ==
    /\ child.stage = "publishing" /\ ~job.replaces /\ ~Refuses /\ Mishap
    /\ files' = [files EXCEPT !.timing = job.id]
    /\ child' = Child("failing")
    /\ broken' = [broken EXCEPT !.pair = TRUE]
    /\ UNCHANGED <<trigger, helper, asked, job, validation, stranded>>
\* Mutant: the first of the two files is not taken back.
RestoredFirst == files
\* The second file could not be put: a replacement restores both, a new pair is taken away.
Restored == IF job.replaces THEN [files EXCEPT !.timing = child.timing, !.profile = child.profile]
            ELSE [files EXCEPT !.timing = 0]
\* The clean-up fails as well, at once or after the first file; or the second file was linked all
\* the same, and is not taken back.
LeftBehind ==
    {files} \cup IF job.replaces THEN {[files EXCEPT !.timing = child.timing]}
               ELSE {[files EXCEPT !.profile = job.id], [files EXCEPT !.timing = 0, !.profile = job.id]}
ChildCompletes(how) ==
    /\ child.stage = "half" /\ MayFail(how # "well")
    /\ \/ how = "well" /\ files' = [files EXCEPT !.profile = job.id]
       \/ how = "restored" /\ files' = Restored
       \/ how = "left" /\ files' \in LeftBehind
    /\ child' = Child(IF how = "well" THEN "whole" ELSE "failing")
    \* the pair was deleted in between, or is about to be
    /\ broken' = [broken EXCEPT !.pair = @ \/ how = "left" \/ files.timing # job.id \/ files.going]
    /\ UNCHANGED <<trigger, helper, asked, job, validation, stranded>>
ChildReports ==
    /\ child.stage \in {"whole", "failing"}
    /\ child' = Child("reported")
    /\ job' = [job EXCEPT !.result = IF child.stage = "whole" THEN "SUCCESS" ELSE "FAILED"]
    /\ UNCHANGED <<trigger, helper, asked, files, validation, stranded, broken, failures>>

Cancel ==
    /\ job.running /\ ~job.cancelled
    /\ job' = [job EXCEPT !.cancelled = TRUE, !.watchdog = child.stage \in Living]
    /\ UNCHANGED <<trigger, helper, asked, child, files, validation, stranded, broken, failures>>
\* A second cancellation restarts a watchdog that gave up.
CancelAgain ==
    /\ job.running /\ job.cancelled /\ ~job.watchdog /\ child.stage \in Living
    /\ job' = [job EXCEPT !.watchdog = TRUE]
    /\ UNCHANGED <<trigger, helper, asked, child, files, validation, stranded, broken, failures>>
\* With no monitor, the watchdog is the one that releases a stopped process.
Releases(stopped) == stopped /\ ~job.monitor
\* The watchdog ends the process, or finds that it cannot be ended.
Watchdog(stopped) ==
    /\ job.watchdog
    /\ MayFail(~stopped)
    /\ job' = [job EXCEPT !.watchdog = FALSE, !.running = @ /\ ~Releases(stopped)]
    /\ IF stopped /\ child.stage \in Living
       THEN /\ child' = Child("killed")
            /\ broken' = [broken EXCEPT !.pair = @ \/ child.stage = "half"]
       ELSE UNCHANGED <<child, broken>>
    /\ UNCHANGED <<trigger, helper, asked, files, validation, stranded>>
\* Native code may end the process at any moment too.
ChildCrashes ==
    /\ child.stage \in Living /\ Mishap
    /\ child' = Child("killed")
    /\ broken' = [broken EXCEPT !.pair = @ \/ child.stage = "half"]
    /\ UNCHANGED <<trigger, helper, asked, job, files, validation, stranded>>
\* The monitor follows the process until it is dead and its messages are read.
Monitor ==
    /\ job.running /\ job.monitor /\ child.stage \in {"reported", "killed"}
    /\ job' = [job EXCEPT !.running = FALSE, !.monitor = FALSE, !.watchdog = FALSE,
                          !.result = IF child.stage = "reported" THEN @ ELSE "FAILED"]
    /\ child' = Child("none")
    /\ UNCHANGED <<trigger, helper, asked, files, validation, stranded, broken, failures>>

(* ---- The validation ---- *)
\* A temporary runtime that kept the camera must let go of it before anything else.
CleanupRetried(works) == stranded => works
Prepare(works) ==
    /\ Admitted("prepare") /\ MayFail(~works)
    /\ IF trigger = "running" \/ Validating \/ files.timing = 0 \/ files.profile = 0
          \/ ~CleanupRetried(works)
       THEN UNCHANGED <<validation, stranded>>
       ELSE /\ validation' = [validation EXCEPT !.phase = "prepared", !.verdict = "none"]
            /\ stranded' = (stranded /\ ~works)
    /\ UNCHANGED <<trigger, helper, job, child, files, broken>>
\* The authorization is used once; a thread that could not be started gives it back.
StartValidation(works) ==
    /\ Admitted("validate") /\ MayFail(~works)
    /\ IF trigger = "running" \/ validation.phase # "prepared" \/ ~CleanupRetried(works)
       THEN UNCHANGED <<validation, stranded>>
       ELSE /\ validation' = [validation EXCEPT !.phase = IF works THEN "starting" ELSE "prepared",
                                               !.cancel = FALSE]
            /\ stranded' = (stranded /\ ~works)
    /\ UNCHANGED <<trigger, helper, job, child, files, broken>>
CancelValidation ==
    /\ Validating /\ ~validation.cancel
    /\ validation' = [validation EXCEPT !.cancel = TRUE]
    /\ UNCHANGED <<trigger, helper, asked, job, child, files, stranded, broken, failures>>
\* The camera is opened through the runtime of its RIG, or through a temporary one; one that fails
\* to open and to close again is kept as stranded.
OpenRuntime(kind, how) ==
    /\ validation.phase = "starting" /\ MayFail(how # "well")
    /\ IF validation.cancel \/ how # "well"
       THEN /\ validation' = [validation EXCEPT !.phase = "closing", !.verdict = "FAIL"]
            /\ stranded' = (stranded \/ (kind = "temporary" /\ how = "stuck" /\ ~validation.cancel))
       ELSE /\ validation' = [validation EXCEPT !.phase = "running", !.runtime = kind]
            /\ UNCHANGED stranded
    /\ UNCHANGED <<trigger, helper, asked, job, child, files, broken>>
RunRecipe(verdict) ==
    /\ validation.phase = "running"
    /\ MayFail(verdict = "FAIL" /\ ~validation.cancel) /\ (validation.cancel => verdict = "FAIL")
    /\ validation' = [validation EXCEPT !.phase = "closing", !.verdict = verdict]
    /\ UNCHANGED <<trigger, helper, asked, job, child, files, stranded, broken>>
\* The session is closed, a temporary runtime shut down, and the report published; a crash of the
\* thread is reported without the files it was about.
CloseValidation(released, crashes) ==
    /\ validation.phase = "closing" /\ MayFail(~released \/ crashes)
    /\ stranded' = (stranded \/ (validation.runtime = "temporary" /\ ~released))
    /\ validation' = [validation EXCEPT !.phase = "idle", !.runtime = "none",
                        !.verdict = IF crashes THEN "CRASH" ELSE IF released THEN @ ELSE "FAIL"]
    /\ UNCHANGED <<trigger, helper, asked, job, child, files, broken>>
\* After a FAIL the operator may delete the files that the report names, the profile first; an
\* error leaves the other where it is.
DeleteProfile ==
    /\ ~Validating /\ validation.verdict = "FAIL" /\ validation.phase = "idle"
    /\ ~files.going /\ (files.timing # 0 \/ files.profile # 0)
    /\ files' = [files EXCEPT !.profile = 0, !.going = TRUE]
    /\ UNCHANGED <<trigger, helper, asked, job, child, validation, stranded, broken, failures>>
DeleteTiming(fails) ==
    /\ files.going /\ MayFail(fails)
    /\ files' = [files EXCEPT !.timing = IF fails THEN @ ELSE 0, !.going = FALSE]
    /\ broken' = [broken EXCEPT !.pair = @ \/ fails]
    /\ UNCHANGED <<trigger, helper, asked, job, child, validation, stranded>>

\* The portal dies: its threads and, by the parent-death signal, the process of the
\* characterization; a maintenance helper and the Trigger go on.
PortalDies ==
    /\ Mishap
    /\ asked' = {}
    /\ broken' = [broken EXCEPT !.pair = @ \/ child.stage = "half" \/ files.going]
    /\ files' = [files EXCEPT !.going = FALSE]
    /\ job' = [running |-> FALSE, cancelled |-> FALSE, monitor |-> FALSE, watchdog |-> FALSE,
               replaces |-> FALSE, id |-> job.id, result |-> "none"]
    /\ child' = Child("none")
    /\ validation' = [phase |-> "idle", cancel |-> FALSE, runtime |-> "none",
                      verdict |-> "none"]
    /\ stranded' = FALSE
    /\ UNCHANGED <<trigger, helper>>

JobsNext ==
    \/ \E ask \in Asks : Ask(ask)
    \/ \E ask \in {"new", "replace"}, how \in {"well", "spawn", "monitor", "survivor"} :
        StartJob(ask, how)
    \/ \E ok \in BOOLEAN :
        \/ StartTrigger(ok) \/ ChildGoes(ok) \/ Watchdog(ok) \/ DeleteTiming(ok)
        \/ Prepare(ok) \/ StartValidation(ok)
        \/ \E crashes \in BOOLEAN : CloseValidation(ok, crashes)
    \/ \E how \in {"well", "restored", "left"} : ChildCompletes(how)
    \/ \E kind \in {"rig", "temporary"}, how \in {"well", "closed", "stuck"} : OpenRuntime(kind, how)
    \/ \E verdict \in {"PASS", "FAIL"} : RunRecipe(verdict)
    \/ TriggerChanges \/ StartHelper \/ HelperEnds \/ ChildReports \/ Cancel \/ CancelAgain
    \/ ChildCrashes \/ Monitor \/ CancelValidation \/ ChildStumbles
    \/ DeleteProfile \/ PortalDies
JobsSpec == JobsInit /\ [][JobsNext]_jobsVars

(* ---- What the jobs promise ---- *)
\* A process that may have the camera open is never taken for gone (camera_characterization.py:598).
OwnerKnown == child.stage \in Living => job.running
\* The Trigger never runs together with a camera job or the maintenance it must not meet
\* (runtime_interlock.py:56), unless the answer to its START was lost.
TriggerAlone ==
    trigger = "running" /\ ~broken.answer => ~Validating /\ child.stage \notin Living /\ ~helper
\* A temporary runtime is not opened beside one that still has the camera (camera_validation.py:1186).
StrandedAlone == validation.runtime = "temporary" => ~stranded
\* The two files of a camera are of one characterization (camera_characterization.py:959), while
\* nobody is between the two, although any of its steps may fail. The exceptions are in the code,
\* which has no journal of the pair: a roll-back that fails as well, a temporary name that cannot
\* be removed, a death or a deletion between the two files, and a deletion that stops half-way.
PairWhole ==
    child.stage # "half" /\ ~files.going /\ ~broken.pair => files.timing = files.profile
\* A characterization that reports a failure has changed no file, with the same exceptions.
FailureHarmless ==
    child.stage \in {"failing", "reported"} /\ job.result # "SUCCESS" /\ ~broken.pair =>
        files.timing # job.id /\ files.profile # job.id
JobsSafe == JobsTypeInv /\ OwnerKnown /\ TriggerAlone /\ StrandedAlone /\ PairWhole /\ FailureHarmless
=============================================================================
