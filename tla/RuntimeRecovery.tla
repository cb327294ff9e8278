---------------------------- MODULE RuntimeRecovery ----------------------------
(***************************************************************************)
(* What a runtime that starts makes of the runs its predecessor left:      *)
(* trigger_run_journal.py, which keeps one entry per RIG on disk, and      *)
(* RuntimeController._restore_trigger_journal_state / shutdown.  A run and *)
(* its scheduler live in the control group of the runtime and die with it  *)
(* (KillMode=control-group); the journal, and the boot id, do not.         *)
(*                                                                         *)
(* Left out: the recovery of a child inside one runtime (TriggerService),  *)
(* entries of a foreign shape, whose journal is `damaged' as a whole, and  *)
(* a write that fails while the runtime starts, which ends it.             *)
(***************************************************************************)
EXTENDS Integers, FiniteSets, FiniteSetsExt

CONSTANTS
    Rigs,          \* 1 .. 4 in the code; a set of numbers, for the order of recovery
    MaxBoots, MaxLives, MaxRuns,   \* bounds: boots, runtimes, runs
    MaxUnwritten   \* bound: writes of the journal that fail

ASSUME RecoveryAssumption ==
    /\ Rigs \subseteq Nat \ {0} /\ MaxBoots \in Nat \ {0}
    /\ {MaxLives, MaxRuns, MaxUnwritten} \subseteq Nat

VARIABLES
    life,          \* where the runtime is
    lives, boot,   \* how many runtimes and boots there were
    readable,      \* boot_id is not None
    journal,       \* the journal's entry of each RIG
    damaged,       \* _read_unlocked() raises TriggerRunJournalInvalid
    running,       \* the run whose scheduler is alive, 0 if none
    pending,       \* ends of runs that their supervisors have still to write down
    shown,         \* what the state store shows of each RIG
    todo, claimed, \* the RIGs the recovery has still to look at; the one it resumes
    runs,          \* history: the runs there were
    born,          \* history: the boot of each run
    resumed,       \* history: how often each run was resumed by a runtime
    settled,       \* history: the runs whose end was written down
    unwritten      \* history: those whose end could not be written

processVars == <<life, lives, boot, readable>>
diskVars == <<journal, damaged, settled, unwritten>>
runVars == <<running, pending, shown, runs, born, resumed>>
scanVars == <<todo, claimed>>
recoveryVars == <<processVars, diskVars, runVars, scanVars>>

FINAL_STATUSES == {"completed", "stopped", "failed"}
Modes == {"real", "totality_override"}
BootId == IF readable THEN boot ELSE 0
NoEntry == [run |-> 0, mode |-> "real", boot |-> 0, status |-> "none", claims |-> 0]
Entries == [run : 0 .. MaxRuns, mode : Modes, boot : 0 .. MaxBoots,
            status : {"none", "active"} \cup FINAL_STATUSES, claims : 0 .. 1]
Ends == [rig : Rigs, run : 1 .. MaxRuns, status : FINAL_STATUSES]

RecoveryTypeInv ==
    /\ life \in {"down", "restore", "recover", "serving", "stopping"}
    /\ lives \in 0 .. MaxLives /\ boot \in 1 .. MaxBoots /\ readable \in BOOLEAN
    /\ journal \in [Rigs -> Entries] /\ damaged \in BOOLEAN
    /\ running \in [Rigs -> 0 .. MaxRuns] /\ pending \subseteq Ends
    /\ shown \in [Rigs -> {"idle", "running", "failed"}]
    /\ todo \subseteq Rigs /\ claimed \in Rigs \cup {0}
    /\ claimed # 0 => journal[claimed].status = "active" /\ journal[claimed].claims = 1
    /\ runs \in 0 .. MaxRuns /\ born \in [1 .. MaxRuns -> 0 .. MaxBoots]
    /\ resumed \in [1 .. MaxRuns -> 0 .. MaxLives]
    /\ settled \subseteq 1 .. MaxRuns /\ unwritten \subseteq 1 .. MaxRuns

RecoveryInit ==
    /\ life = "down" /\ lives = 0 /\ boot = 1 /\ readable \in BOOLEAN
    /\ journal = [r \in Rigs |-> NoEntry] /\ damaged = FALSE
    /\ running = [r \in Rigs |-> 0] /\ pending = {}
    /\ shown = [r \in Rigs |-> "idle"]
    /\ todo = {} /\ claimed = 0
    /\ runs = 0 /\ born = [n \in 1 .. MaxRuns |-> 0]
    /\ resumed = [n \in 1 .. MaxRuns |-> 0] /\ settled = {} /\ unwritten = {}

-----------------------------------------------------------------------------
\* TriggerRunJournal

\* begin_run(): the entry of the RIG's previous run is overwritten.
Begun(run, mode) == [run |-> run, mode |-> mode, boot |-> BootId, status |-> "active",
                     claims |-> 0]

\* finish() looks at the run id, and not at the status.
Finished(rig, run, status) ==
    IF journal[rig].run = run THEN [journal EXCEPT ![rig].status = status] ELSE journal

Finish(rig, run, status) ==
    /\ journal' = Finished(rig, run, status)
    /\ settled' = IF journal[rig].run = run THEN settled \cup {run} ELSE settled

WithStatus(status) == {r \in Rigs : journal[r].status = status}

-----------------------------------------------------------------------------
\* Runs of a serving runtime.

\* start(): a run that cannot be written down is run all the same, and is not recovered.
RunStarts(rig, mode, written) ==
    /\ life = "serving" /\ running[rig] = 0 /\ runs < MaxRuns
    /\ damaged => ~written
    /\ ~written /\ ~damaged => Cardinality(unwritten) < MaxUnwritten
    /\ runs' = runs + 1
    /\ born' = [born EXCEPT ![runs + 1] = boot]
    /\ running' = [running EXCEPT ![rig] = runs + 1]
    /\ shown' = [shown EXCEPT ![rig] = "running"]
    /\ journal' = IF written THEN [journal EXCEPT ![rig] = Begun(runs + 1, mode)] ELSE journal
    /\ unwritten' = IF written THEN unwritten ELSE unwritten \cup {runs + 1}
    /\ UNCHANGED <<processVars, damaged, settled, pending, resumed, scanVars>>

\* The end of _run(): the RIG is free, and shown so after a completion or a STOP, before
\* the supervisor comes to write the end down.
RunEnds(rig, status) ==
    /\ life \in {"recover", "serving", "stopping"} /\ running[rig] # 0
    /\ running' = [running EXCEPT ![rig] = 0]
    /\ pending' = pending \cup {[rig |-> rig, run |-> running[rig], status |-> status]}
    /\ shown' = IF status = "failed" THEN shown ELSE [shown EXCEPT ![rig] = "idle"]
    /\ UNCHANGED <<processVars, diskVars, runs, born, resumed, scanVars>>

ShownAfter(end) == IF end.status = "failed" /\ running[end.rig] = 0
                   THEN [shown EXCEPT ![end.rig] = "failed"] ELSE shown

EndWritten(end) ==
    /\ end \in pending /\ ~damaged
    /\ Finish(end.rig, end.run, end.status)
    /\ pending' = pending \ {end} /\ shown' = ShownAfter(end)
    /\ UNCHANGED <<processVars, damaged, unwritten, running, runs, born, resumed, scanVars>>

\* _journal_finish() swallows what the write raises.
EndUnwritten(end) ==
    /\ end \in pending
    /\ damaged \/ Cardinality(unwritten) < MaxUnwritten
    /\ pending' = pending \ {end} /\ shown' = ShownAfter(end)
    /\ unwritten' = unwritten \cup {end.run}
    /\ UNCHANGED <<processVars, journal, damaged, settled, running, runs, born, resumed, scanVars>>

-----------------------------------------------------------------------------
\* The start of a runtime.

StartLife ==
    /\ life = "down" /\ lives < MaxLives
    /\ life' = "restore" /\ lives' = lives + 1
    /\ shown' = [r \in Rigs |-> "idle"]
    /\ UNCHANGED <<boot, readable, diskVars, running, pending, runs, born, resumed, scanVars>>

\* _publish_recovery_journal_invalid()
RestoreFails ==
    /\ life = "restore" /\ damaged
    /\ life' = "serving" /\ shown' = [r \in Rigs |-> "failed"]
    /\ UNCHANGED <<lives, boot, readable, diskVars, running, pending, runs, born, resumed, scanVars>>

\* Mutant: the failures of the past stay in the journal.
RestoreSilent ==
    /\ life = "restore" /\ ~damaged
    /\ life' = "recover"
    /\ todo' = WithStatus("active")
    /\ UNCHANGED <<lives, boot, readable, diskVars, runVars, claimed>>
\* The failures of the past are shown again, then the active entries are collected.
Restore ==
    /\ life = "restore" /\ ~damaged
    /\ life' = "recover"
    /\ shown' = [r \in Rigs |-> IF r \in WithStatus("failed") THEN "failed" ELSE shown[r]]
    /\ todo' = WithStatus("active")
    /\ UNCHANGED <<lives, boot, readable, diskVars, running, pending, runs, born, resumed, claimed>>

Chosen(rig) == /\ life = "recover" /\ claimed = 0 /\ rig \in todo /\ rig = Min(todo)

\* Finish as failed, publish, and go on with the next RIG.
GiveUp(rig) ==
    /\ Finish(rig, journal[rig].run, "failed")
    /\ shown' = [shown EXCEPT ![rig] = "failed"]
    /\ todo' = todo \ {rig} /\ claimed' = 0
    /\ UNCHANGED <<processVars, damaged, unwritten, running, pending, runs, born, resumed>>

SameBoot(rig) == BootId # 0 /\ journal[rig].boot = BootId

ForbiddenBoot(rig) == Chosen(rig) /\ ~SameBoot(rig) /\ GiveUp(rig)

LimitReached(rig) == Chosen(rig) /\ SameBoot(rig) /\ journal[rig].claims >= 1 /\ GiveUp(rig)

\* Mutant: the claim is not written down.
ClaimVolatile(rig) ==
    /\ Chosen(rig) /\ SameBoot(rig) /\ journal[rig].claims < 1
    /\ claimed' = rig
    /\ UNCHANGED <<processVars, diskVars, runVars, todo>>
\* claim_runtime_recovery(): on disk before anything is resumed.
Claim(rig) ==
    /\ Chosen(rig) /\ SameBoot(rig) /\ journal[rig].claims < 1
    /\ journal' = [journal EXCEPT ![rig].claims = 1]
    /\ claimed' = rig
    /\ UNCHANGED <<processVars, damaged, settled, unwritten, runVars, todo>>

\* recover_persisted_run(): never a real run, since _recovery_window_open() answers False
\* for every run with a timeline.  The run keeps its id, and its entry is not begun anew.
Resume(rig) ==
    /\ claimed = rig /\ life = "recover" /\ journal[rig].mode = "totality_override"
    /\ running' = [running EXCEPT ![rig] = journal[rig].run]
    /\ resumed' = [resumed EXCEPT ![journal[rig].run] = @ + 1]
    /\ shown' = [shown EXCEPT ![rig] = "running"]
    /\ todo' = todo \ {rig} /\ claimed' = 0
    /\ UNCHANGED <<processVars, diskVars, pending, runs, born>>

ResumeFails(rig) == claimed = rig /\ life = "recover" /\ GiveUp(rig)

Recovered ==
    /\ life = "recover" /\ todo = {} /\ claimed = 0
    /\ life' = "serving"
    /\ UNCHANGED <<lives, boot, readable, diskVars, runVars, scanVars>>

-----------------------------------------------------------------------------
\* The end of a runtime.

Gone ==
    /\ life' = "down"
    /\ running' = [r \in Rigs |-> 0] /\ pending' = {}
    /\ todo' = {} /\ claimed' = 0
    /\ UNCHANGED <<lives, diskVars, shown, runs, born, resumed>>

Dies == life # "down" /\ Gone /\ UNCHANGED <<boot, readable>>

Reboots ==
    /\ boot < MaxBoots
    /\ boot' = boot + 1 /\ readable' \in BOOLEAN
    /\ Gone

\* SIGTERM: shutdown() forces every run to stop, and the process ends when they have,
\* whether or not their supervisors got to the journal.
ShutsDown ==
    /\ life = "serving"
    /\ life' = "stopping"
    /\ UNCHANGED <<lives, boot, readable, diskVars, runVars, scanVars>>

ShutDownEnds ==
    /\ life = "stopping" /\ \A r \in Rigs : running[r] = 0
    /\ Gone /\ UNCHANGED <<boot, readable>>

\* The file is damaged while no runtime runs.
JournalRots ==
    /\ life = "down" /\ ~damaged /\ lives > 0
    /\ damaged' = TRUE
    /\ UNCHANGED <<processVars, journal, settled, unwritten, runVars, scanVars>>

-----------------------------------------------------------------------------
RecoverStep(rig) ==
    ForbiddenBoot(rig) \/ LimitReached(rig) \/ Claim(rig) \/ Resume(rig) \/ ResumeFails(rig)

RecoveryNext ==
    \/ StartLife \/ RestoreFails \/ Restore \/ Recovered
    \/ \E rig \in Rigs :
        \/ RecoverStep(rig)
        \/ \E mode \in Modes, written \in BOOLEAN : RunStarts(rig, mode, written)
        \/ \E status \in FINAL_STATUSES : RunEnds(rig, status)
    \/ \E end \in pending : EndWritten(end) \/ EndUnwritten(end)
    \/ Dies \/ Reboots \/ ShutsDown \/ ShutDownEnds \/ JournalRots

-----------------------------------------------------------------------------
\* "Recover at most once, and only inside the same Linux boot" (runtime_daemon.py:388):
\* however often the runtime dies, a run is resumed once.
ResumedOnce == \A run \in 1 .. MaxRuns : resumed[run] <= 1

\* A scheduler never fires for a run of another boot, whose clock and devices are others.
SameBootOnly == \A rig \in Rigs : running[rig] # 0 => born[running[rig]] = boot

\* A run whose end was written down is over: no restart brings it back.
SettledIsOver == \A rig \in Rigs : running[rig] \notin settled

\* While the runtime serves, an entry says "active" only of a run that is alive or whose
\* supervisor has its end in hand, except when that end could not be written.
JournalTruth ==
    life = "serving" /\ ~damaged =>
        \A rig \in WithStatus("active") :
            LET run == journal[rig].run
            IN  \/ run = running[rig] \/ run \in unwritten
                \/ \E end \in pending : end.run = run

\* A dead runtime's runs come back at most once, where they belong, and never after their end.
RecoverySafe == RecoveryTypeInv /\ ResumedOnce /\ SameBootOnly /\ SettledIsOver /\ JournalTruth

\* A runtime opens for commands only when every run that its predecessor lost is shown as
\* failed or is running again.
LostRunsShown ==
    [][life # "serving" /\ life' = "serving" =>
        \A rig \in Rigs : damaged \/ journal[rig].status \in {"active", "failed"}
                          => \/ shown'[rig] # "idle"
                             \/ journal[rig].run \in unwritten'
                             \/ \E end \in pending' : end.rig = rig]_recoveryVars
=============================================================================
