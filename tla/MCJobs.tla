--------------------------------- MODULE MCJobs ---------------------------------
\* What is done outside a run (characterization, validation, GPS, preflight), and what the camera's
\* plugin knows inside one, in parts that do not share state: `study' says which one a behaviour is of.
EXTENDS RearmSearch, TriggerSelection, Qualification, SettingCache, CameraJobs,
        GpsAuthority, HardwarePreflight, TLC
VARIABLE study
Studies == {"rearm", "selection", "qualification", "cache", "jobs", "authority", "preflight"}

MCPrimitives == <<"trigger_capture", "capture">>
MCRecipe == <<"set", "first", "set", "single", "bracket">>

\* The parts that do not move all begin alike. Of the bodies, only those whose side effects a probe can
\* see are of interest: nothing is promised of the others.
RearmStill == RearmInit /\ search.at = 1 /\ ability.burst = 0 /\ ability.exposures = 0
SelectionStill ==
    /\ SelectionInit
    /\ camera = [fires |-> [p \in Names |-> {}], takes |-> [p \in Names |-> 1]]
QualificationStill == QualificationInit /\ contract = [k \in Kinds4 |-> Margin(0)]
CacheStill ==
    /\ CacheInit /\ body.effects = {} /\ ~body.through_single
    /\ \A k \in Controls : body.invalidates[k] = {}
StudyInit ==
    /\ study \in Studies
    /\ JobsInit /\ AuthorityInit /\ PreflightInit
    /\ CASE study = "rearm" -> SelectionStill /\ QualificationStill /\ CacheStill /\ RearmInit
         [] study = "selection" -> RearmStill /\ QualificationStill /\ CacheStill /\ SelectionInit
         [] study = "qualification" -> RearmStill /\ SelectionStill /\ CacheStill /\ QualificationInit
         [] study = "cache" -> RearmStill /\ SelectionStill /\ QualificationStill /\ CacheInit /\ Visible
         [] OTHER -> RearmStill /\ SelectionStill /\ QualificationStill /\ CacheStill

admissionVars == <<authorityVars, preflightVars>>
StudyVars == <<rearmVars, selectionVars, qualificationVars, cacheVars, jobsVars, admissionVars, study>>
RearmPart(A) ==
    /\ study = "rearm" /\ A
    /\ UNCHANGED <<selectionVars, qualificationVars, cacheVars, jobsVars, admissionVars, study>>
SelectionPart(A) ==
    /\ study = "selection" /\ A
    /\ UNCHANGED <<rearmVars, qualificationVars, cacheVars, jobsVars, admissionVars, study>>
QualificationPart(A) ==
    /\ study = "qualification" /\ A
    /\ UNCHANGED <<rearmVars, selectionVars, cacheVars, jobsVars, admissionVars, study>>
CachePart(A) ==
    /\ study = "cache" /\ A
    /\ UNCHANGED <<rearmVars, selectionVars, qualificationVars, jobsVars, admissionVars, study>>
JobsPart(A) ==
    /\ study = "jobs" /\ A
    /\ UNCHANGED <<rearmVars, selectionVars, qualificationVars, cacheVars, admissionVars, study>>
AuthorityPart(A) ==
    /\ study = "authority" /\ A
    /\ UNCHANGED <<rearmVars, selectionVars, qualificationVars, cacheVars, jobsVars, preflightVars, study>>
PreflightPart(A) ==
    /\ study = "preflight" /\ A
    /\ UNCHANGED <<rearmVars, selectionVars, qualificationVars, cacheVars, jobsVars, authorityVars, study>>

StudyNext ==
    \/ RearmPart(RearmNext) \/ SelectionPart(SelectionNext) \/ QualificationPart(QualificationNext)
    \/ CachePart(CacheNext) \/ JobsPart(JobsNext)
    \/ AuthorityPart(AuthorityNext) \/ PreflightPart(PreflightNext)
StudySpec == StudyInit /\ [][StudyNext]_StudyVars

\* A characterization publishes nothing that its own probes have not passed: the rearm pause, the
\* primitives, and the budgets (camera_characterization.py:4564).
CalibrationSound ==
    /\ RearmTypeInv /\ SelectionTypeInv /\ QualificationTypeInv
    /\ RearmProven /\ RearmFound /\ SelectionSound /\ ContractCovers

\* A run starts on a clock set since the machine's last boot (runtime_daemon.py:489), on hardware
\* that passed as it is configured, with its whole batch, and once per token (app.py:5318).
AdmissionSafe == AuthorityTypeInv /\ ClockOfThisBoot /\ PreflightTypeInv /\ PreflightSafe
=============================================================================
