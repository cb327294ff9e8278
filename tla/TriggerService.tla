--------------------------- MODULE TriggerService ---------------------------
(***************************************************************************)
(* backend/trigger_service.py for one RIG, with the journal entry of that  *)
(* RIG (trigger_run_journal.py), its heartbeat watchdog                    *)
(* (trigger_heartbeat.py) and its camera lease (the IPC session of         *)
(* camera_worker_runtime.py).                                              *)
(*                                                                         *)
(* RPC threads call start, start_totality_only, override_totality and      *)
(* stop.  An admitted run has a supervisor thread (_run) that spawns the   *)
(* scheduler child, watches it, settles it and may start it once more.     *)
(* Each `with self._lock` block is one step; what the code does between    *)
(* two of them, without the lock, is a step of its own.                    *)
(*                                                                         *)
(* Left out: the inputs' contents, the recovery after a restart of the     *)
(* runtime, and a journal that cannot be written.                          *)
(***************************************************************************)
EXTENDS Integers, FiniteSets

CONSTANTS
    Requests,     \* the RPC calls, each made once
    Kind,         \* what each asks for
    MaxRuns,      \* bound: how many runs may be admitted
    MaxFaults     \* bound: children that hang or stick, failures of the system's calls

Modes == {"real", "dryrun", "simulation"}          \* of start()
Runs == 1 .. MaxRuns
Actors == Requests \cup Runs                       \* a run stands for its supervisor
Unclosed == -1                                     \* the holder of a session nobody can close

ASSUME ConstantsAssumption ==
    /\ MaxRuns \in Nat /\ MaxFaults \in Nat
    /\ Kind \in [Requests -> Modes \cup {"totality", "override", "stop", "force"}]
    /\ Requests \cap Runs = {}

VARIABLES
    rig,          \* the service's maps at this RIG: _procs, _starting_by_rig ...
    run,          \* each run: how it was asked for, its child, what its supervisor knows
    runs,         \* how many runs were admitted
    pc,           \* where each actor is
    mine,         \* the run that an emergency start is setting up
    target,       \* the process a stop request looks at
    reply,        \* what a stop request answered
    lease,        \* the run whose camera IPC session is open, 0 for none, Unclosed when its
                  \* close raised and left it
    published,    \* what StateStore shows for this RIG
    journal,      \* this RIG's entry of the run journal
    asked,        \* the runs for which a STOP was accepted
    faults

requestVars == <<mine, target, reply>>
shownVars == <<published, journal>>
vars == <<rig, run, runs, pc, requestVars, lease, shownVars, asked, faults>>

Finished == {"unborn", "done"}
RequestSteps == {"issue", "look", "override", "overridden", "claim", "prepare", "launch",
                 "rollback", "decide", "join", "publish", "signal", "done"}
RunSteps == {"unborn", "born", "check", "build", "handle", "attach", "abort", "announce",
             "watch", "phase", "close", "settle", "note", "look", "override", "overridden",
             "claim", "prepare", "launch", "rollback", "conclude", "done"}

NewRun == [kind |-> "none", attempt |-> 0, id |-> 0, child |-> "none", code |-> "none",
           error |-> FALSE, silent |-> FALSE, safe |-> FALSE, termed |-> FALSE,
           alive |-> FALSE, manual |-> FALSE, fed |-> 0]

TypeInv ==
    /\ rig \in [procs : {0} \cup Runs, supervisor : {0} \cup Runs, inputs : {0} \cup Runs,
                starting : BOOLEAN, manual : BOOLEAN, cancel : BOOLEAN,
                suppressed : BOOLEAN, stopping : BOOLEAN,
                unfrozen : BOOLEAN,    \* history: a START raised and left its startup flag
                crossed : BOOLEAN]     \* history: a start wrote the flags of another run, or left its own
    /\ run \in [Runs -> [kind : Modes \cup {"totality", "none"}, attempt : 0 .. 1,
                         id : {0} \cup Runs, child : {"none", "run", "hung", "stuck", "dead"},
                         code : {"none", "ok", "bad"}, error : BOOLEAN, silent : BOOLEAN,
                         safe : BOOLEAN, termed : BOOLEAN, alive : BOOLEAN,
                         manual : BOOLEAN, fed : {0} \cup Runs]]
    /\ runs \in 0 .. MaxRuns
    /\ \A q \in Requests : pc[q] \in RequestSteps
    /\ \A r \in Runs : pc[r] \in RunSteps
    /\ mine \in [Actors -> {0} \cup Runs]
    /\ target \in [Requests -> {0} \cup Runs]
    /\ reply \in [Requests -> {"none", "not_running", "coalesced", "stopping", "stopped"}]
    /\ lease \in {0, Unclosed} \cup Runs
    /\ published \in [running : BOOLEAN,
                      phase : {"idle", "starting", "recovering", "waiting", "capture",
                               "totality_override", "stopping", "failed"}]
    /\ journal \in [id : {0} \cup Runs, status : {"none", "active", "completed", "stopped", "failed"},
                    recovered : BOOLEAN]
    /\ asked \subseteq Runs
    /\ faults \in 0 .. MaxFaults
    \* the handle that STOP acts on always belongs to a process that was created
    /\ rig.procs # 0 => run[rig.procs].child # "none"

Init ==
    /\ rig = [procs |-> 0, supervisor |-> 0, inputs |-> 0, starting |-> FALSE,
              manual |-> FALSE, cancel |-> FALSE, suppressed |-> FALSE, stopping |-> FALSE,
              unfrozen |-> FALSE, crossed |-> FALSE]
    /\ run = [r \in Runs |-> NewRun]
    /\ runs = 0
    /\ pc = [a \in Actors |-> IF a \in Requests THEN "issue" ELSE "unborn"]
    /\ mine = [a \in Actors |-> 0]
    /\ target = [q \in Requests |-> 0] /\ reply = [q \in Requests |-> "none"]
    /\ lease = 0
    /\ published = [running |-> FALSE, phase |-> "idle"]
    /\ journal = [id |-> 0, status |-> "none", recovered |-> FALSE]
    /\ asked = {} /\ faults = 0

-----------------------------------------------------------------------------
(* Helpers                                                                   *)

\* poll() is None
Live(r) == r # 0 /\ run[r].child \in {"run", "hung", "stuck"}

\* already started, for start() and is_active_or_starting()
Busy == rig.starting \/ Live(rig.procs)

\* A killed process dies, unless it sits in a system call that cannot be interrupted.
Killed(child) == IF child = "stuck" THEN "stuck" ELSE "dead"

\* A simulation opens no camera session; one RIG has at most one (external).
Leased(kind) == kind # "simulation"
\* Mutant: the camera runtime grants a second session.
MayLeaseAlways(kind) == TRUE
MayLease(kind) == Leased(kind) => lease = 0

\* close_ipc_session() of the run's session, if it has one. It raises when the camera runtime has
\* lost the server meanwhile: that is logged, and the session stays for good (external).
CloseLease(r) ==
    \/ lease' = (IF lease = r THEN 0 ELSE lease) /\ UNCHANGED faults
    \/ lease = r /\ lease' = Unclosed /\ faults < MaxFaults /\ faults' = faults + 1

\* The id of the run's journal entry: only real and Totality runs are journaled.
Journaled(kind, r) == IF kind \in {"real", "totality"} THEN r ELSE 0

JournalBegin(id) ==
    IF id = 0 THEN journal ELSE [id |-> id, status |-> "active", recovered |-> FALSE]
\* Mutant: the entry stays active.
JournalFinishForgets(id, status) == journal
JournalFinish(id, status) ==
    IF id # 0 /\ journal.id = id THEN [journal EXCEPT !.status = status] ELSE journal

Show(running, phase) == published' = [running |-> running, phase |-> phase]

Goto(a, step) == pc' = [pc EXCEPT ![a] = step]

\* A run of this kind is admitted: it gets the next number and waits at `step`.
Admit(a, there, kind, attempt, id, step) ==
    /\ runs < MaxRuns
    /\ runs' = runs + 1
    /\ run' = [run EXCEPT ![runs + 1] =
                  [NewRun EXCEPT !.kind = kind, !.attempt = attempt, !.id = id]]
    /\ pc' = [pc EXCEPT ![a] = there, ![runs + 1] = step]

Fault == faults < MaxFaults /\ faults' = faults + 1

\* A run that has not ended, or whose child survived, still needs the flags, which are the RIG's.
NeedsFlags(r) == pc[r] \notin Finished \/ run[r].alive
Crosses == rig.crossed \/ \E r \in Runs : NeedsFlags(r)

-----------------------------------------------------------------------------
(* start(): the whole call holds the lock.                                   *)

AtStart(q) == pc[q] = "issue" /\ Kind[q] \in Modes

StartRefused(q) ==
    /\ AtStart(q) /\ Busy
    /\ Goto(q, "done")
    /\ UNCHANGED <<rig, run, runs, requestVars, lease, shownVars, asked, faults>>

\* The inputs or the configuration are invalid, or the camera session is refused.
StartRejected(q) ==
    /\ AtStart(q) /\ ~Busy
    /\ rig' = [rig EXCEPT !.suppressed = FALSE, !.manual = FALSE, !.cancel = FALSE,
                          !.inputs = 0, !.crossed = Crosses]
    /\ Goto(q, "done")
    /\ UNCHANGED <<run, runs, requestVars, lease, shownVars, asked, faults>>

StartAccepted(q) ==
    /\ AtStart(q) /\ ~Busy /\ MayLease(Kind[q])
    /\ LET r == runs + 1
           id == Journaled(Kind[q], r)
       IN  /\ Admit(q, "done", Kind[q], 0, id, "check")
           /\ rig' = [rig EXCEPT !.starting = TRUE, !.suppressed = FALSE, !.manual = FALSE,
                                 !.cancel = FALSE, !.inputs = r, !.supervisor = r,
                                 !.crossed = Crosses]
           /\ lease' = IF Leased(Kind[q]) THEN r ELSE lease
           /\ journal' = JournalBegin(id)
    /\ Show(TRUE, "starting")
    /\ UNCHANGED <<requestVars, asked, faults>>

\* The inputs of a simulation cannot be written to its snapshot: the call raises with the RIG marked
\* as starting, and nothing takes the mark back.
StartUnfrozen(q) ==
    /\ AtStart(q) /\ ~Busy /\ Kind[q] = "simulation" /\ Fault
    /\ rig' = [rig EXCEPT !.starting = TRUE, !.suppressed = FALSE, !.manual = FALSE, !.cancel = FALSE,
                          !.inputs = 0, !.unfrozen = TRUE, !.crossed = TRUE]
    /\ Goto(q, "done")
    /\ UNCHANGED <<run, runs, requestVars, lease, shownVars, asked>>

\* The supervisor thread cannot be started: everything is rolled back.
StartBroken(q) ==
    /\ AtStart(q) /\ ~Busy /\ MayLease(Kind[q]) /\ Fault
    /\ LET id == Journaled(Kind[q], runs + 1)
       IN  /\ Admit(q, "done", Kind[q], 0, id, "done")
           /\ journal' = IF id = 0 THEN journal
                         ELSE [id |-> id, status |-> "failed", recovered |-> FALSE]
    /\ rig' = [rig EXCEPT !.suppressed = FALSE, !.manual = FALSE, !.cancel = FALSE,
                          !.inputs = 0, !.supervisor = 0, !.crossed = Crosses]
    /\ lease' \in {lease} \cup (IF Leased(Kind[q]) THEN {Unclosed} ELSE {})
    /\ Show(FALSE, "idle")
    /\ UNCHANGED <<requestVars, asked>>

-----------------------------------------------------------------------------
(* _run(): the supervisor of run r.                                          *)

\* A STOP that came before Popen() ends the run here.
Check(r) ==
    /\ pc[r] = "check"
    /\ Goto(r, IF rig.cancel THEN "close" ELSE "build")
    /\ UNCHANGED <<rig, run, runs, requestVars, lease, shownVars, asked, faults>>

\* The command is built from the RIG's active inputs, and Popen() succeeds.
Popen(r) ==
    /\ pc[r] = "build" /\ rig.inputs # 0
    /\ run' = [run EXCEPT ![r].child = "run", ![r].fed = rig.inputs]
    /\ Goto(r, "handle")
    /\ UNCHANGED <<rig, runs, requestVars, lease, shownVars, asked, faults>>

\* The inputs were cleared meanwhile, or Popen() raises.
PopenFails(r) ==
    /\ pc[r] = "build"
    /\ IF rig.inputs = 0 THEN UNCHANGED faults ELSE Fault
    /\ run' = [run EXCEPT ![r].error = TRUE]
    /\ Goto(r, "close")
    /\ UNCHANGED <<rig, runs, requestVars, lease, shownVars, asked>>

\* Mutant: the handle is published before Popen() created the child.
PublishHandleEarly(r) ==
    /\ pc[r] = "build"
    /\ rig' = [rig EXCEPT !.procs = r]
    /\ Goto(r, "attach")
    /\ UNCHANGED <<run, runs, requestVars, lease, shownVars, asked, faults>>
\* The child's handle is published at once.
PublishHandle(r) ==
    /\ pc[r] = "handle"
    /\ rig' = [rig EXCEPT !.procs = r]
    /\ Goto(r, "attach")
    /\ UNCHANGED <<run, runs, requestVars, lease, shownVars, asked, faults>>

\* Mutant: the cancellation is not looked at again after Popen().
AttachIgnoresCancel(r) ==
    /\ pc[r] = "attach"
    /\ rig' = [rig EXCEPT !.starting = FALSE]
    /\ Goto(r, "announce")
    /\ UNCHANGED <<run, runs, requestVars, lease, shownVars, asked, faults>>
\* With the heartbeat watched, startup ends, unless a STOP raced with Popen().
Attach(r) ==
    /\ pc[r] = "attach"
    /\ rig' = IF rig.cancel THEN rig ELSE [rig EXCEPT !.starting = FALSE]
    /\ Goto(r, IF rig.cancel THEN "abort" ELSE "announce")
    /\ UNCHANGED <<run, runs, requestVars, lease, shownVars, asked, faults>>

\* The heartbeat threads, the pipes or the reader raise.
SuperviseFails(r) ==
    /\ pc[r] \in {"attach", "watch"} /\ Fault
    /\ run' = [run EXCEPT ![r].error = TRUE]
    /\ Goto(r, "abort")
    /\ UNCHANGED <<rig, runs, requestVars, lease, shownVars, asked>>

\* terminate(), wait, kill(), wait
Abort(r) ==
    /\ pc[r] = "abort"
    /\ IF Live(r) /\ run[r].child # "stuck"
       THEN \E code \in {"ok", "bad"} :
                run' = [run EXCEPT ![r].child = Killed(run[r].child), ![r].code = code]
       ELSE UNCHANGED run
    /\ Goto(r, "close")
    /\ UNCHANGED <<rig, runs, requestVars, lease, shownVars, asked, faults>>

Announce(r) ==
    /\ pc[r] = "announce"
    /\ Show(TRUE, IF run[r].kind = "totality" THEN "totality_override" ELSE "waiting")
    /\ Goto(r, "watch")
    /\ UNCHANGED <<rig, run, runs, requestVars, lease, journal, asked, faults>>

\* A phase line of the child is read, and shown if updates were not suppressed then.
ReadPhase(r) ==
    /\ pc[r] = "watch" /\ ~rig.suppressed
    /\ Goto(r, "phase")
    /\ UNCHANGED <<rig, run, runs, requestVars, lease, shownVars, asked, faults>>

ShowPhase(r) ==
    /\ pc[r] = "phase"
    /\ published' = [published EXCEPT !.phase = "capture"]
    /\ Goto(r, "watch")
    /\ UNCHANGED <<rig, run, runs, requestVars, lease, journal, asked, faults>>

\* End of the child's output, and wait()
ReadEnd(r) ==
    /\ pc[r] = "watch" /\ run[r].child = "dead"
    /\ Goto(r, "close")
    /\ UNCHANGED <<rig, run, runs, requestVars, lease, shownVars, asked, faults>>

\* Mutant: the camera session is left open.
CloseSessionForgotten(r) ==
    /\ pc[r] = "close"
    /\ \E safe \in IF run[r].code = "bad" THEN BOOLEAN ELSE {FALSE} :
          run' = [run EXCEPT ![r].alive = Live(r), ![r].safe = safe]
    /\ Goto(r, "settle")
    /\ UNCHANGED <<rig, runs, requestVars, lease, shownVars, asked, faults>>
\* The watchdog ends with the last stage it heard of (read only if the child failed),
\* then the camera session; the child is polled.
CloseSession(r) ==
    /\ pc[r] = "close"
    /\ CloseLease(r)
    /\ \E safe \in IF run[r].code = "bad" THEN BOOLEAN ELSE {FALSE} :
          run' = [run EXCEPT ![r].alive = Live(r), ![r].safe = safe]
    /\ Goto(r, "settle")
    /\ UNCHANGED <<rig, runs, requestVars, shownVars, asked>>

OwnsProcess(r) ==
    IF run[r].child = "none"
    THEN rig.procs = 0 \/ rig.starting
    ELSE rig.procs = r \/ (rig.procs = 0 /\ rig.cancel)

Failed(r) == \/ run[r].error \/ run[r].code = "bad"
             \/ run[r].child = "none" /\ ~rig.manual

\* The timeline holds naive datetimes and now() is aware: comparing them raises, the
\* handler answers False, so the window of a run with a timeline is never open.
RecoveryWindowOpen(kind) == kind = "totality"

\* Mutant: a run that the operator stopped is recovered.
MayRecoverAfterStop(r) ==
    /\ run[r].kind \in {"real", "totality"}
    /\ Failed(r)
    /\ run[r].attempt < 1 /\ ~run[r].silent
    /\ run[r].safe
    /\ RecoveryWindowOpen(run[r].kind)
MayRecover(r) ==
    /\ run[r].kind \in {"real", "totality"}
    /\ Failed(r) /\ ~rig.manual
    /\ run[r].attempt < 1 /\ ~run[r].silent
    /\ run[r].safe
    /\ RecoveryWindowOpen(run[r].kind)

\* Mutant: the mark that a graceful STOP is under way stays.
ClearedKeepsStop(r) == [rig EXCEPT !.procs = IF rig.procs = r THEN 0 ELSE rig.procs,
                                   !.starting = FALSE, !.inputs = 0, !.suppressed = FALSE,
                                   !.manual = FALSE, !.cancel = FALSE]
\* The supervisor takes its child off the books, if the books still name it; a child
\* that could not be killed stays on them.
Cleared(r) == [rig EXCEPT !.procs = IF rig.procs = r THEN 0 ELSE rig.procs,
                          !.starting = FALSE, !.inputs = 0, !.suppressed = FALSE,
                          !.manual = FALSE, !.cancel = FALSE, !.stopping = FALSE]
\* Mutant: a child that could not be killed is forgotten.
BooksForgetLive(r) == IF OwnsProcess(r) THEN Cleared(r) ELSE rig
Books(r) == IF ~OwnsProcess(r) THEN rig
            ELSE IF run[r].alive THEN [rig EXCEPT !.suppressed = TRUE, !.starting = FALSE]
            ELSE Cleared(r)

Settle(r) ==
    /\ pc[r] = "settle"
    /\ LET owns == OwnsProcess(r)
           alive == run[r].alive
       IN  /\ rig' = [Books(r) EXCEPT !.supervisor = IF rig.supervisor = r THEN 0 ELSE @]
           /\ run' = [run EXCEPT ![r].manual = rig.manual]
           /\ Goto(r, IF ~owns THEN "done"
                      ELSE IF ~alive /\ MayRecover(r) THEN "note" ELSE "conclude")
    /\ UNCHANGED <<runs, requestVars, lease, shownVars, asked, faults>>

\* The journal allows one recovery of an entry; the RIG is shown as recovering.
NoteRecovery(r) ==
    /\ pc[r] = "note"
    /\ LET allowed == run[r].id # 0 =>
                 journal.id = run[r].id /\ journal.status = "active" /\ ~journal.recovered
       IN  IF allowed
           THEN /\ journal' = IF run[r].id = 0 THEN journal
                              ELSE [journal EXCEPT !.recovered = TRUE]
                /\ Show(TRUE, "recovering")
                /\ Goto(r, "look")
           ELSE /\ UNCHANGED shownVars
                /\ Goto(r, "conclude")
    /\ UNCHANGED <<rig, run, runs, requestVars, lease, asked, faults>>

Outcome(r) == IF run[r].alive THEN "failed"
              ELSE IF run[r].code = "ok" /\ ~run[r].error THEN "completed"
              ELSE IF run[r].manual THEN "stopped" ELSE "failed"

\* The result is published and journaled; a child that survived stays shown as running.
Conclude(r) ==
    /\ pc[r] = "conclude"
    /\ Show(run[r].alive, IF Outcome(r) = "failed" THEN "failed" ELSE "idle")
    /\ journal' = JournalFinish(run[r].id, Outcome(r))
    /\ Goto(r, "done")
    /\ UNCHANGED <<rig, run, runs, requestVars, lease, asked, faults>>

-----------------------------------------------------------------------------
(* The child, and the watchdog that kills a silent one (outside the lock).   *)

ChildExits(r) ==
    /\ Live(r)
    /\ \E code \in {"ok", "bad"} :
          run' = [run EXCEPT ![r].child = "dead", ![r].code = code]
    /\ UNCHANGED <<rig, runs, pc, requestVars, lease, shownVars, asked, faults>>

\* It stops sending heartbeats, and may moreover be impossible to kill.
ChildHangs(r) ==
    /\ run[r].child = "run" /\ Fault
    /\ \E how \in {"hung", "stuck"} : run' = [run EXCEPT ![r].child = how]
    /\ UNCHANGED <<rig, runs, pc, requestVars, lease, shownVars, asked>>

\* Mutant: the silence is noted, but the child is not killed.
HeartbeatTimeoutKeepsChild(r) ==
    /\ pc[r] \in {"attach", "abort", "announce", "watch", "phase"}
    /\ run[r].child \in {"hung", "stuck"} /\ ~run[r].silent /\ ~rig.manual
    /\ run' = [run EXCEPT ![r].silent = TRUE]
    /\ UNCHANGED <<rig, runs, pc, requestVars, lease, shownVars, asked, faults>>
HeartbeatTimeout(r) ==
    /\ pc[r] \in {"attach", "abort", "announce", "watch", "phase"}
    /\ run[r].child \in {"hung", "stuck"} /\ ~run[r].silent /\ ~rig.manual
    /\ run' = [run EXCEPT ![r].silent = TRUE, ![r].child = Killed(run[r].child),
                          ![r].code = IF run[r].child = "stuck" THEN @ ELSE "bad"]
    /\ UNCHANGED <<rig, runs, pc, requestVars, lease, shownVars, asked, faults>>

-----------------------------------------------------------------------------
(* start_totality_only() and override_totality(), called by a request or, to *)
(* recover run a, by its supervisor.                                         *)

Recovering(a) == a \in Runs

\* The call ends: a supervisor that could not recover its run reports the failure.
Leave(a, started) ==
    Goto(a, IF Recovering(a) /\ ~started THEN "conclude" ELSE "done")

EmergencyLook(a) ==
    /\ \/ pc[a] = "look"
       \/ a \in Requests /\ pc[a] = "issue" /\ Kind[a] = "totality"
    /\ IF rig.starting THEN Leave(a, FALSE)
       ELSE Goto(a, IF Live(rig.procs) THEN "override" ELSE "claim")
    /\ UNCHANGED <<rig, run, runs, requestVars, lease, shownVars, asked, faults>>

\* A live child gets SIGUSR1, and its later phases are not shown.
Override(a) ==
    /\ \/ pc[a] = "override"
       \/ a \in Requests /\ pc[a] = "issue" /\ Kind[a] = "override"
    /\ IF Live(rig.procs)
       THEN rig' = [rig EXCEPT !.suppressed = TRUE] /\ Goto(a, "overridden")
       ELSE UNCHANGED rig /\ Leave(a, FALSE)
    /\ UNCHANGED <<run, runs, requestVars, lease, shownVars, asked, faults>>

ShowOverride(a) ==
    /\ pc[a] = "overridden"
    /\ published' = [published EXCEPT !.phase = "totality_override"]
    /\ Leave(a, FALSE)
    /\ UNCHANGED <<rig, run, runs, requestVars, lease, journal, asked, faults>>

\* The second lock block looks at the startup flag only, not at the process.
EmergencyClaim(a) ==
    /\ pc[a] = "claim"
    /\ IF rig.starting
       THEN Leave(a, FALSE) /\ UNCHANGED <<rig, run, runs, mine>>
       ELSE /\ LET attempt == IF Recovering(a) THEN run[a].attempt + 1 ELSE 0
                   id == IF Recovering(a) THEN run[a].id ELSE runs + 1
               IN  Admit(a, "prepare", "totality", attempt, id, "born")
            /\ rig' = [rig EXCEPT !.starting = TRUE, !.suppressed = TRUE,
                                  !.manual = FALSE, !.cancel = FALSE,
                                  !.crossed = @ \/ \E r \in Runs \ {a} : NeedsFlags(r)]
            /\ mine' = [mine EXCEPT ![a] = runs + 1]
    /\ UNCHANGED <<target, reply, lease, shownVars, asked, faults>>

\* Inputs, configuration and camera session, without the lock
EmergencyPrepare(a) ==
    /\ pc[a] = "prepare" /\ MayLease("totality")
    /\ lease' = mine[a]
    /\ rig' = [rig EXCEPT !.inputs = mine[a]]
    /\ Goto(a, "launch")
    /\ UNCHANGED <<run, runs, requestVars, shownVars, asked, faults>>

ShownAtLaunch(a) == IF Recovering(a) THEN "recovering" ELSE "totality_override"

\* The journal entry begins, the RIG is shown as running, the supervisor starts.
EmergencyLaunch(a) ==
    /\ pc[a] = "launch"
    /\ journal' = IF Recovering(a) THEN journal ELSE JournalBegin(mine[a])
    /\ Show(TRUE, ShownAtLaunch(a))
    /\ rig' = [rig EXCEPT !.supervisor = mine[a]]
    /\ pc' = [pc EXCEPT ![a] = "done", ![mine[a]] = "check"]
    /\ UNCHANGED <<run, runs, requestVars, lease, asked, faults>>

\* Any exception after the claim, the last one when the thread cannot be started: journal, flags and inputs first ...
EmergencyFails(a) ==
    /\ pc[a] \in {"prepare", "launch"}
    /\ pc[a] = "launch" => faults < MaxFaults
    /\ faults' = IF pc[a] = "launch" THEN faults + 1 ELSE faults
    /\ journal' = IF pc[a] = "launch" /\ ~Recovering(a)
                  THEN [id |-> mine[a], status |-> "failed", recovered |-> FALSE]
                  ELSE JournalFinish(run[mine[a]].id, "failed")
    /\ rig' = [rig EXCEPT !.starting = FALSE, !.suppressed = FALSE, !.manual = FALSE,
                          !.cancel = FALSE, !.supervisor = 0, !.inputs = 0,
                          !.crossed = @ \/ rig.manual]
    /\ IF pc[a] = "launch" THEN Show(TRUE, ShownAtLaunch(a)) ELSE UNCHANGED published
    /\ pc' = [pc EXCEPT ![a] = "rollback", ![mine[a]] = "done"]
    /\ UNCHANGED <<run, runs, requestVars, lease, asked>>

\* Mutant: what was shown is not rolled back.
EmergencyRollbackSilent(a) ==
    /\ pc[a] = "rollback"
    /\ CloseLease(mine[a])
    /\ Leave(a, FALSE)
    /\ UNCHANGED <<rig, run, runs, requestVars, shownVars, asked>>
\* ... then the camera session and what is shown.
EmergencyRollback(a) ==
    /\ pc[a] = "rollback"
    /\ CloseLease(mine[a])
    /\ Show(FALSE, "idle")
    /\ Leave(a, FALSE)
    /\ UNCHANGED <<rig, run, runs, requestVars, journal, asked>>

-----------------------------------------------------------------------------
(* stop()                                                                    *)

Answer(q, what) == reply' = [reply EXCEPT ![q] = what] /\ Goto(q, "done")

\* The run that a STOP is about: the live child, else the one that starts; 0 for none, after a START
\* that left its startup flag
CurrentRun == IF Live(rig.procs) THEN rig.procs
              ELSE IF runs # 0 /\ pc[runs] \notin {"conclude", "done"} THEN runs ELSE 0

AtStop(q) == pc[q] = "issue" /\ Kind[q] \in {"stop", "force"}

StopNothing(q) ==
    /\ AtStop(q) /\ ~Busy
    /\ rig' = [rig EXCEPT !.stopping = FALSE]
    /\ Answer(q, "not_running")
    /\ UNCHANGED <<run, runs, mine, target, lease, shownVars, asked, faults>>

Coalesces(q) == rig.stopping /\ Kind[q] = "stop"

\* A second graceful STOP is answered at once.
StopCoalesced(q) ==
    /\ AtStop(q) /\ Busy /\ Coalesces(q)
    /\ target' = [target EXCEPT ![q] = CurrentRun]
    /\ Answer(q, "coalesced")
    /\ UNCHANGED <<rig, run, runs, mine, lease, shownVars, asked, faults>>

StopAccepted(q) ==
    /\ AtStop(q) /\ Busy /\ ~Coalesces(q)
    /\ rig' = [rig EXCEPT !.stopping = TRUE, !.suppressed = TRUE, !.manual = TRUE,
                          !.cancel = @ \/ rig.starting]
    /\ target' = [target EXCEPT ![q] = rig.procs]
    /\ asked' = asked \cup ({CurrentRun} \ {0})
    /\ Goto(q, IF rig.starting /\ ~Live(rig.procs) THEN "join" ELSE "decide")
    /\ UNCHANGED <<run, runs, mine, reply, lease, shownVars, faults>>

\* Startup was cancelled: its supervisor has five seconds to end, then look again.
StopJoin(q) ==
    /\ pc[q] = "join"
    /\ target' = [target EXCEPT ![q] = rig.procs]
    /\ IF Live(rig.procs) THEN UNCHANGED <<rig, reply>> /\ Goto(q, "decide")
       ELSE IF rig.starting THEN UNCHANGED rig /\ Answer(q, "stopping")
       ELSE rig' = [rig EXCEPT !.stopping = FALSE] /\ Answer(q, "stopped")
    /\ UNCHANGED <<run, runs, mine, lease, shownVars, asked, faults>>

\* The child may have ended since the flags were set.
StopDecide(q) ==
    /\ pc[q] = "decide"
    /\ IF Live(target[q]) THEN UNCHANGED <<rig, reply>> /\ Goto(q, "publish")
       ELSE rig' = [rig EXCEPT !.stopping = FALSE] /\ Answer(q, "stopped")
    /\ UNCHANGED <<run, runs, mine, target, lease, shownVars, asked, faults>>

StopPublish(q) ==
    /\ pc[q] = "publish"
    /\ Show(TRUE, "stopping")
    /\ Goto(q, "signal")
    /\ UNCHANGED <<rig, run, runs, requestVars, lease, journal, asked, faults>>

\* SIGTERM, or SIGKILL for a forced STOP
StopSignal(q) ==
    /\ pc[q] = "signal"
    /\ LET r == target[q]
       IN  run' = IF ~Live(r) THEN run
                  ELSE IF Kind[q] = "stop" THEN [run EXCEPT ![r].termed = TRUE]
                  ELSE [run EXCEPT ![r].child = Killed(run[r].child),
                                   ![r].code = IF run[r].child = "stuck" THEN @ ELSE "bad"]
    /\ Answer(q, "stopping")
    /\ UNCHANGED <<rig, runs, mine, target, lease, shownVars, asked, faults>>

-----------------------------------------------------------------------------
Supervisor(r) ==
    \/ Check(r) \/ Popen(r) \/ PopenFails(r) \/ PublishHandle(r) \/ Attach(r)
    \/ SuperviseFails(r) \/ Abort(r) \/ Announce(r) \/ ReadPhase(r) \/ ShowPhase(r)
    \/ ReadEnd(r) \/ CloseSession(r) \/ Settle(r) \/ NoteRecovery(r) \/ Conclude(r)

Child(r) == ChildExits(r) \/ ChildHangs(r) \/ HeartbeatTimeout(r)

Emergency(a) ==
    \/ EmergencyLook(a) \/ Override(a) \/ ShowOverride(a) \/ EmergencyClaim(a)
    \/ EmergencyPrepare(a) \/ EmergencyLaunch(a) \/ EmergencyFails(a) \/ EmergencyRollback(a)

Stop(q) ==
    \/ StopNothing(q) \/ StopCoalesced(q) \/ StopAccepted(q) \/ StopJoin(q)
    \/ StopDecide(q) \/ StopPublish(q) \/ StopSignal(q)

Start(q) ==
    \/ StartRefused(q) \/ StartRejected(q) \/ StartUnfrozen(q) \/ StartAccepted(q) \/ StartBroken(q)

Next ==
    \/ \E q \in Requests : Start(q) \/ Stop(q)
    \/ \E a \in Actors : Emergency(a)
    \/ \E r \in Runs : Supervisor(r) \/ Child(r)

Spec == Init /\ [][Next]_vars

\* A child that was told to stop stops at its next safe boundary.
ChildObeys(r) == run[r].termed /\ run[r].child = "run" /\ ChildExits(r)

\* Threads run, a child that is told to stop ends, a silent one is noticed, and the
\* output of a dead child is finite, so that its end is reached (SF: every phase line
\* read disables ReadEnd for a while).  Nothing forces a request to be made, a child to
\* end by itself, or a call to fail.
Fairness ==
    /\ \A r \in Runs : WF_vars(Supervisor(r)) /\ SF_vars(ReadEnd(r))
    /\ \A r \in Runs : WF_vars(ChildObeys(r)) /\ WF_vars(HeartbeatTimeout(r))
    /\ \A a \in Actors : WF_vars(pc[a] # "issue" /\ Emergency(a))
    /\ \A q \in Requests : WF_vars(pc[q] # "issue" /\ Stop(q))

FairSpec == Spec /\ Fairness

-----------------------------------------------------------------------------
(* Properties                                                                *)

Quiet == /\ \A r \in Runs : pc[r] \in Finished
         /\ \A q \in Requests : pc[q] \in {"issue", "done"}

\* A child that could not be killed when its supervisor left it
Abandoned == {r \in Runs : run[r].alive}

\* One scheduler drives the RIG's camera: two live children with a camera never exist,
\* except beside one that its supervisor could not kill.  Neither start() nor the second
\* block of start_totality_only() ensures it alone: the camera session does.
OneScheduler ==
    \A r, s \in Runs \ Abandoned :
        r # s /\ Live(r) /\ Live(s) => ~(Leased(run[r].kind) /\ Leased(run[s].kind))

\* When all is quiet, the journal holds no active entry: a restart of the runtime would
\* take it for a run to recover.  (Not so after a start that took the handle over from a run
\* that was not settled: see below.)
JournalSettled == Quiet /\ ~rig.crossed => journal.status # "active"

\* When all is quiet and no child survived, the RIG is shown as not running, whatever
\* the order in which runs that overlapped published their ends.
PublishedSettles == Quiet /\ Abandoned = {} => ~published.running

\* When all is quiet and no child survived, nothing of the runs is left that would block
\* the next start: no process on the books, no camera session but one that could not be
\* closed, no startup flag but that of a START that raised ...
RigFree ==
    Quiet /\ Abandoned = {} =>
        /\ rig.procs = 0 /\ lease \in {0, Unclosed}
        /\ rig.starting => rig.unfrozen

\* ... nor anything that would disturb it: no cancellation that would end it before its
\* Popen(), no mark of a STOP that would journal it as stopped and suspend its watchdog.
RigReady == RigFree /\ (Quiet /\ Abandoned = {} /\ ~rig.unfrozen => ~rig.cancel /\ ~rig.manual)

\* A startup that a STOP cancelled is never announced nor watched: its child, if Popen()
\* was faster, is ended first.  (The latest run is the one that starts, unless a START left
\* its flag behind.)
CancelledNeverRuns ==
    rig.cancel /\ ~rig.unfrozen => runs # 0 /\ pc[runs] \notin {"announce", "watch", "phase"}

\* A child that outlives its supervisor stays on the books, where STOP finds it.
SurvivorStaysReachable ==
    \A r \in Runs : pc[r] = "done" /\ Live(r) => rig.procs = r

\* A graceful STOP that is answered as a repetition repeats one accepted for this run.
CoalescedStopWasAsked ==
    \A q \in Requests : reply[q] = "coalesced" => target[q] \in asked \cup {0}

\* The end of a journaled run that the operator stopped is journaled as such, not as a
\* failure, however its child ended, unless the child survived.
StoppedIsNotFailed ==
    \A r \in asked :
        pc[r] = "done" /\ r \notin Abandoned /\ run[r].id # 0 /\ journal.id = run[r].id
            => journal.status \in {"stopped", "completed"}

\* The operator can believe what a STOP tells, run after run: neither its answer nor the
\* journal is about an earlier run than the one that was stopped, as long as no start wrote
\* the flags before that earlier run was settled (then both may be; see below).
StopTruthful == ~rig.crossed => CoalescedStopWasAsked /\ StoppedIsNotFailed

\* A run for which a STOP was accepted is not started again by the recovery.
StoppedRunNotRecovered ==
    \A r \in asked : \A s \in Runs :
        s > r /\ run[s].id = run[r].id => run[s].attempt = 0

\* An accepted STOP ends the run, unless its child hangs: then the watchdog is suspended
\* on purpose and only a forced STOP ends it.
StopEndsRun ==
    \A r \in Runs :
        r \in asked ~> (pc[r] = "done" \/ run[r].child \in {"hung", "stuck"})

\* The run of a child that goes silent under supervision comes to its end, with every
\* recovery it asks for made or given up, unless a STOP suspends the watchdog.
SilentRunEnds ==
    \A r \in Runs :
        (pc[r] = "watch" /\ run[r].child = "hung") ~> (pc[r] = "done" \/ rig.manual)

-----------------------------------------------------------------------------
(* What the repository says of the service and the code does not do.  The     *)
(* properties above moreover leave out, each by a condition or by the        *)
(* requests that its run lets meet, what the code does not keep: after a     *)
(* start that crosses a run which is not settled, the STOP of the one may be *)
(* answered by the other's and the journal may keep an active entry; the     *)
(* same after a STOP of an emergency start whose preparation fails; and a    *)
(* START between the end of a stopped child and its settlement lets it be    *)
(* recovered (StoppedRunNotRecovered).                                       *)

\* _freeze_run_inputs() freezes the inputs of a run under its own snapshot, and its child is meant
\* to get those; but the paths lie in maps of the RIG, which a start, a failure or a settlement of
\* another run writes as well (no run checks this: a simulation, which needs no camera session, may
\* be given the inputs of an emergency start that overlaps with it).
OwnInputs == \A r \in Runs : run[r].fed \in {0, r}

\* trigger_service.py: "Only real eclipse runs can be recovered automatically."  So a
\* real run whose child fails at a safe boundary is not given up at the first failure.
RealRunsRecover ==
    \A r \in Runs :
        pc[r] = "conclude" /\ run[r].kind = "real" /\ run[r].attempt = 0 =>
            ~(/\ run[r].code = "bad" /\ run[r].safe
              /\ ~run[r].silent /\ ~run[r].manual /\ ~run[r].alive)
=============================================================================
