-------------------------- MODULE TriggerServiceProofs --------------------------
(***************************************************************************)
(* What TriggerService promises, for any number of requests, runs and      *)
(* faults.  Whatever requests meet on the RIG, its state keeps its types,  *)
(* one scheduler drives the camera, a cancelled startup is never watched,  *)
(* and nothing is left that would block the next start.  As long as no     *)
(* runs crossed (rig.crossed), the journal, the flags of a STOP and its    *)
(* answers agree moreover with the run that they are about.                *)
(***************************************************************************)
EXTENDS TriggerService, TLAPS

-----------------------------------------------------------------------------
(* The inductive invariant *)

\* The steps of a supervisor at which its run has the camera session
Holding == {"check", "build", "handle", "attach", "abort", "announce", "watch", "phase",
            "close"}
\* The steps before Popen() created the child
Childless == {"unborn", "born", "check", "build"}
\* The steps at which the child is supervised
Supervised == {"handle", "attach", "announce", "watch", "phase"}
\* The steps from the settlement of a run to the claim of its recovery
ToRecovery == {"note", "look", "override", "overridden", "claim"}
\* The steps at which an emergency start has a run that no supervisor works for
SettingUp == {"prepare", "launch", "rollback"}

\* Runs are numbered as they are admitted.
Numbered(r) ==
    /\ pc[r] = "unborn" <=> r > runs
    /\ pc[r] = "unborn" => run[r] = NewRun
\* A child exists once Popen() returned, and one that is alive after the end of its session is known
\* to have survived.
ChildKnown(r) ==
    /\ pc[r] \in Childless => run[r].child = "none"
    /\ pc[r] \in Supervised => run[r].child # "none"
    /\ pc[r] \in Holding => ~run[r].alive
    /\ Live(r) => pc[r] \in Holding \/ run[r].alive
\* A run with a camera has the RIG's session from its first step to its last.
HoldsSession(r) == pc[r] \in Holding /\ Leased(run[r].kind) => lease = r
\* Only a first attempt is on its way to a recovery.
RecoversOnce(r) == pc[r] \in ToRecovery => run[r].attempt = 0

RunFits(r) == Numbered(r) /\ ChildKnown(r) /\ HoldsSession(r) /\ RecoversOnce(r)

\* An emergency start has the run that it admitted, with the session once it is prepared.
HandFits(a) ==
    /\ pc[a] \in SettingUp =>
           /\ mine[a] \in Runs
           /\ run[mine[a]].child = "none" /\ run[mine[a]].kind = "totality" /\ ~run[mine[a]].alive
           /\ pc[mine[a]] = IF pc[a] = "rollback" THEN "done" ELSE "born"
    /\ pc[a] = "launch" => lease = mine[a]

RunsFit == \A r \in Runs : RunFits(r)
HandsFit == \A a \in Actors : HandFits(a)
\* No two emergency starts set up the same run.
HandsApart ==
    \A a, b \in Actors : a # b /\ pc[a] \in SettingUp /\ pc[b] \in SettingUp => mine[a] # mine[b]
StepsKnown == pc \in [Actors -> RequestSteps \cup RunSteps]

TriggerIInv == TypeInv /\ StepsKnown /\ RunsFit /\ HandsFit /\ HandsApart

\* The sets of the type invariant
RigRecord == [procs : {0} \cup Runs, supervisor : {0} \cup Runs, inputs : {0} \cup Runs,
              starting : BOOLEAN, manual : BOOLEAN, cancel : BOOLEAN,
              suppressed : BOOLEAN, stopping : BOOLEAN,
              unfrozen : BOOLEAN, crossed : BOOLEAN]
RunRecord == [kind : Modes \cup {"totality", "none"}, attempt : 0 .. 1,
              id : {0} \cup Runs, child : {"none", "run", "hung", "stuck", "dead"},
              code : {"none", "ok", "bad"}, error : BOOLEAN, silent : BOOLEAN,
              safe : BOOLEAN, termed : BOOLEAN, alive : BOOLEAN,
              manual : BOOLEAN, fed : {0} \cup Runs]
ShownRecord == [running : BOOLEAN,
                phase : {"idle", "starting", "recovering", "waiting", "capture",
                         "totality_override", "stopping", "failed"}]
EntryRecord == [id : {0} \cup Runs,
                status : {"none", "active", "completed", "stopped", "failed"},
                recovered : BOOLEAN]

\* The parts of the type invariant, so that a step proves those that it disturbs
RigTyped == rig \in RigRecord
RunsTyped == run \in [Runs -> RunRecord] /\ runs \in 0 .. MaxRuns
StepsTyped == /\ \A q \in Requests : pc[q] \in RequestSteps
              /\ \A r \in Runs : pc[r] \in RunSteps
RequestsTyped == /\ mine \in [Actors -> {0} \cup Runs] /\ target \in [Requests -> {0} \cup Runs]
                 /\ reply \in [Requests -> {"none", "not_running", "coalesced", "stopping", "stopped"}]
ShownTyped == lease \in {0, Unclosed} \cup Runs /\ published \in ShownRecord /\ journal \in EntryRecord
CountsTyped == asked \subseteq Runs /\ faults \in 0 .. MaxFaults
HandleCreated == rig.procs # 0 => run[rig.procs].child # "none"

\* The type invariant is the conjunction of its parts.
LEMMA TypesApart ==
    TypeInv <=> /\ RigTyped /\ RunsTyped /\ StepsTyped /\ RequestsTyped
                /\ ShownTyped /\ CountsTyped /\ HandleCreated
BY DEF TypeInv, RigRecord, RunRecord, ShownRecord, EntryRecord, RigTyped, RunsTyped, StepsTyped,
       RequestsTyped, ShownTyped, CountsTyped, HandleCreated

\* The parts after a step give the type invariant after the step.
LEMMA TypesTogether ==
    /\ RigTyped' /\ RunsTyped' /\ StepsTyped' /\ RequestsTyped'
    /\ ShownTyped' /\ CountsTyped' /\ HandleCreated'
    => TypeInv'
BY DEF TypeInv, RigRecord, RunRecord, ShownRecord, EntryRecord, RigTyped, RunsTyped, StepsTyped,
       RequestsTyped, ShownTyped, CountsTyped, HandleCreated

-----------------------------------------------------------------------------
(* Steps that set up no run *)

\* What no step changes in the record of an admitted run
SameRun(r) ==
    /\ run'[r].kind = run[r].kind /\ run'[r].attempt = run[r].attempt /\ run'[r].id = run[r].id

\* A child that ends, hangs, is killed or is told to stop leaves its run as it should be.
LEMMA ChildKeeps ==
    ASSUME TriggerIInv, NEW r \in Runs, Live(r), SameRun(r), run'[r].alive = run[r].alive,
           run'[r].child # "none", pc'[r] = pc[r], UNCHANGED <<runs, lease>>
    PROVE  RunFits(r)'
<1>1. RunFits(r) /\ run[r].child # "none" /\ r # 0
    BY ConstantsAssumption DEF TriggerIInv, RunsFit, Live, Runs
<1>2. Numbered(r)'
    BY <1>1 DEF RunFits, Numbered, NewRun
<1>3. ChildKnown(r)'
    BY <1>1 DEF RunFits, ChildKnown, Live, Childless
<1>4. HoldsSession(r)' /\ RecoversOnce(r)'
    BY <1>1 DEF RunFits, HoldsSession, RecoversOnce, SameRun, Leased
<1>5. QED
    BY <1>2, <1>3, <1>4 DEF RunFits

\* A run that nothing happens to stays as it should be, as long as it has its session.
LEMMA RunKeeps ==
    ASSUME TriggerIInv, NEW r \in Runs, run'[r] = run[r], pc'[r] = pc[r], UNCHANGED runs,
           UNCHANGED lease \/ lease # r
    PROVE  RunFits(r)'
<1>1. RunFits(r)
    BY DEF TriggerIInv, RunsFit
<1>2. HoldsSession(r)'
    BY <1>1 DEF RunFits, HoldsSession, Leased
<1>3. QED
    BY <1>1, <1>2 DEF RunFits, Numbered, ChildKnown, RecoversOnce, Live

\* While only children change, everything stays as it should be.
LEMMA ChildrenChange ==
    ASSUME TriggerIInv, UNCHANGED <<pc, runs, lease, mine>>,
           \A r \in Runs : \/ run'[r] = run[r]
                           \/ Live(r) /\ SameRun(r) /\ run'[r].alive = run[r].alive /\ run'[r].child # "none"
    PROVE  StepsKnown' /\ RunsFit' /\ HandsFit' /\ HandsApart'
<1>1. RunsFit'
    <2> SUFFICES ASSUME NEW r \in Runs PROVE RunFits(r)'
        BY DEF RunsFit
    <2>1. CASE run'[r] = run[r]
        BY <2>1, RunKeeps
    <2>2. CASE run'[r] # run[r]
        BY <2>2, ChildKeeps
    <2>3. QED
        BY <2>1, <2>2
<1>2. HandsFit'
    <2> SUFFICES ASSUME NEW a \in Actors PROVE HandFits(a)'
        BY DEF HandsFit
    <2>1. HandFits(a)
        BY DEF TriggerIInv, HandsFit
    <2>2. pc[a] \in SettingUp => run'[mine[a]] = run[mine[a]]
        BY <2>1 DEF HandFits, Live
    <2>3. QED
        BY <2>1, <2>2 DEF HandFits
<1>3. StepsKnown' /\ HandsApart'
    BY DEF TriggerIInv, StepsKnown, HandsApart
<1>4. QED
    BY <1>1, <1>2, <1>3

\* An actor's step, other than those of an emergency start that sets up a run, concerns its own run
\* and children that are alive.
LEMMA ActorMoves ==
    ASSUME TriggerIInv, NEW a \in Actors, NEW step, step \in RequestSteps \cup RunSteps,
           pc' = [pc EXCEPT ![a] = step], UNCHANGED <<runs, mine>>,
           pc[a] \notin SettingUp, step \notin SettingUp,
           UNCHANGED lease \/ (lease = a /\ a \in Runs),
           a \in Runs => RunFits(a)' /\ pc[a] \notin {"born", "done"},
           \A r \in Runs \ {a} :
               \/ run'[r] = run[r]
               \/ Live(r) /\ SameRun(r) /\ run'[r].alive = run[r].alive /\ run'[r].child # "none"
                    /\ UNCHANGED lease
    PROVE  StepsKnown' /\ RunsFit' /\ HandsFit' /\ HandsApart'
<1>1. StepsKnown' /\ pc'[a] = step /\ \A b \in Actors \ {a} : pc'[b] = pc[b]
    BY DEF TriggerIInv, StepsKnown
<1>2. RunsFit'
    <2> SUFFICES ASSUME NEW r \in Runs PROVE RunFits(r)'
        BY DEF RunsFit
    <2>1. CASE r = a
        BY <2>1
    <2>2. CASE r # a
        <3>1. pc'[r] = pc[r]
            BY <2>2, <1>1 DEF Actors
        <3>2. CASE run'[r] = run[r]
            BY <2>2, <3>1, <3>2, RunKeeps
        <3>3. CASE run'[r] # run[r]
            BY <2>2, <3>1, <3>3, ChildKeeps
        <3>4. QED
            BY <3>2, <3>3
    <2>3. QED
        BY <2>1, <2>2
<1>3. HandsFit'
    <2> SUFFICES ASSUME NEW b \in Actors, pc'[b] \in SettingUp PROVE HandFits(b)'
        BY DEF HandsFit, HandFits, SettingUp
    <2>1. b # a /\ pc'[b] = pc[b] /\ pc[b] \in SettingUp
        BY <1>1
    <2>2. /\ mine[b] \in Runs /\ run[mine[b]].child = "none" /\ pc[mine[b]] \in {"born", "done"}
          /\ pc[mine[b]] = IF pc[b] = "rollback" THEN "done" ELSE "born"
          /\ run[mine[b]].kind = "totality" /\ ~run[mine[b]].alive /\ (pc[b] = "launch" => lease = mine[b])
        BY <2>1 DEF TriggerIInv, HandsFit, HandFits
    <2>3. mine[b] # a
        BY <2>2
    <2>4. mine[b] \in Actors /\ pc'[mine[b]] = pc[mine[b]] /\ run'[mine[b]] = run[mine[b]]
        BY <1>1, <2>2, <2>3 DEF Actors, Live
    <2>5. pc[b] = "launch" => lease' = mine[b]
        BY <2>2, <2>3
    <2>6. QED
        BY <2>1, <2>2, <2>4, <2>5 DEF HandFits
<1>4. HandsApart'
    BY <1>1 DEF TriggerIInv, HandsApart
<1>5. QED
    BY <1>1, <1>2, <1>3, <1>4

-----------------------------------------------------------------------------
(* The parts of the type invariant, step by step *)

\* A part of the type invariant stays true where its variables stay the same.
LEMMA TypeFrames ==
    ASSUME TypeInv
    PROVE  /\ UNCHANGED rig => RigTyped'
           /\ UNCHANGED <<run, runs>> => RunsTyped'
           /\ UNCHANGED pc => StepsTyped'
           /\ UNCHANGED <<mine, target, reply>> => RequestsTyped'
           /\ UNCHANGED <<lease, published, journal>> => ShownTyped'
           /\ UNCHANGED <<asked, faults>> => CountsTyped'
           /\ UNCHANGED <<rig, run>> => HandleCreated'
BY TypesApart DEF RigTyped, RunsTyped, StepsTyped, RequestsTyped, ShownTyped, CountsTyped, HandleCreated

\* An actor's step goes to a step of its kind.
LEMMA StepTyped ==
    ASSUME TriggerIInv, NEW a \in Actors, NEW step, pc' = [pc EXCEPT ![a] = step],
           \/ a \in Runs /\ step \in RunSteps
           \/ a \in Requests /\ step \in RequestSteps
    PROVE  StepsTyped'
<1>1. Requests \cap Runs = {}
    BY ConstantsAssumption
<1>2. StepsTyped
    BY TypesApart DEF TriggerIInv
<1>3. pc'[a] = step /\ \A b \in Actors \ {a} : pc'[b] = pc[b]
    BY DEF TriggerIInv, StepsKnown
<1>4. QED
    BY <1>1, <1>2, <1>3 DEF StepsTyped, Actors

\* The handle on the books belongs to a child as long as children are not uncreated.
LEMMA HandleKeeps ==
    ASSUME TypeInv, rig'.procs \in {0, rig.procs},
           \A r \in Runs : run[r].child # "none" => run'[r].child # "none"
    PROVE  HandleCreated'
<1>1. rig.procs \in {0} \cup Runs /\ HandleCreated
    BY TypesApart DEF RigTyped, RigRecord
<1>2. QED
    BY <1>1 DEF HandleCreated

\* A fault is counted within its bound.
LEMMA FaultsTyped ==
    ASSUME TypeInv, UNCHANGED faults \/ Fault, UNCHANGED asked
    PROVE  CountsTyped'
BY TypesApart, ConstantsAssumption DEF CountsTyped, Fault

\* A run's record may change by itself.
LEMMA RunTyped ==
    ASSUME TypeInv, NEW r \in Runs, NEW new \in RunRecord, run' = [run EXCEPT ![r] = new],
           UNCHANGED runs
    PROVE  RunsTyped' /\ run'[r] = new /\ \A s \in Runs \ {r} : run'[s] = run[s]
BY TypesApart DEF RunsTyped

-----------------------------------------------------------------------------
(* The supervisor *)

\* What a supervisor's step may assume of its run
LEMMA SupervisorAt ==
    ASSUME TriggerIInv, NEW r \in Runs
    PROVE  /\ r \in Actors /\ r \in Nat \ {0} /\ run[r] \in RunRecord /\ pc[r] \in RunSteps /\ runs \in 0 .. MaxRuns
           /\ Numbered(r) /\ ChildKnown(r) /\ HoldsSession(r) /\ RecoversOnce(r)
           /\ RunFits(r) /\ TypeInv /\ rig \in RigRecord
BY TypesApart, ConstantsAssumption
   DEF TriggerIInv, RunsFit, RunFits, Actors, Runs, RunsTyped, StepsTyped, RigTyped

\* The steps that only move the supervisor, or change what the RIG's maps say beside the handle, or
\* what is shown and journaled.
LEMMA SupervisorMoves ==
    ASSUME TriggerIInv, NEW r \in Runs, NEW step \in RunSteps, pc' = [pc EXCEPT ![r] = step],
           UNCHANGED <<run, runs, requestVars, lease, asked, faults>>,
           rig' \in RigRecord, published' \in ShownRecord,
           journal' \in EntryRecord, HandleCreated',
           pc[r] \notin SettingUp \cup {"unborn", "born", "done"}, step \notin SettingUp \cup {"unborn"},
           step \in Holding => pc[r] \in Holding,
           pc[r] \in Holding => step \in Holding,
           step \in Supervised => pc[r] \in Supervised,
           step \notin Childless \/ pc[r] \in Childless,
           step \in ToRecovery => pc[r] \in ToRecovery \/ run[r].attempt = 0
    PROVE  TriggerIInv'
<1>1. TypeInv /\ RunFits(r) /\ Numbered(r) /\ ChildKnown(r) /\ HoldsSession(r) /\ RecoversOnce(r) /\ r \in Actors
    BY SupervisorAt
<1>2. pc'[r] = step
    BY <1>1 DEF TriggerIInv, StepsKnown
<1>3. Numbered(r)' /\ HoldsSession(r)'
    BY <1>1, <1>2 DEF Numbered, HoldsSession, Leased
<1>4. ChildKnown(r)'
    BY <1>1, <1>2 DEF ChildKnown, Live
<1>5. RecoversOnce(r)'
    BY <1>1, <1>2 DEF RecoversOnce
<1>6. RunFits(r)'
    BY <1>3, <1>4, <1>5 DEF RunFits
<1>7. StepsKnown' /\ RunsFit' /\ HandsFit' /\ HandsApart'
    BY <1>1, <1>6, ActorMoves DEF requestVars
<1>8. RigTyped' /\ RunsTyped' /\ StepsTyped' /\ RequestsTyped' /\ ShownTyped' /\ CountsTyped'
    <2>1. RunsTyped' /\ RequestsTyped' /\ CountsTyped' /\ ShownTyped
        BY <1>1, TypeFrames, TypesApart DEF requestVars
    <2>2. StepsTyped'
        BY <1>1, StepTyped
    <2>3. QED
        BY <2>1, <2>2 DEF RigTyped, ShownTyped
<1>9. QED
    BY <1>7, <1>8, TypesTogether DEF TriggerIInv

\* The moves of a supervised run, until its session is closed.
LEMMA WatchingKeeps ==
    ASSUME TriggerIInv, NEW r \in Runs,
           Check(r) \/ Attach(r) \/ Announce(r) \/ ReadPhase(r) \/ ShowPhase(r) \/ ReadEnd(r)
    PROVE  TriggerIInv'
<1>1. TypeInv /\ rig \in RigRecord /\ published \in ShownRecord /\ journal \in EntryRecord
    BY TypesApart DEF TriggerIInv, RigTyped, ShownTyped
<1>2. CASE Check(r)
    <2>1. UNCHANGED <<rig, published, journal>> /\ HandleCreated'
        BY <1>1, <1>2, TypeFrames DEF Check, shownVars
    <2>2. QED
        BY <1>1, <1>2, <2>1, SupervisorMoves
        DEF Check, Goto, SettingUp, Holding, Supervised, Childless, ToRecovery, RunSteps
<1>3. CASE Attach(r)
    <2>1. rig' \in RigRecord /\ rig'.procs = rig.procs
        BY <1>1, <1>3 DEF Attach, RigRecord
    <2>2. UNCHANGED <<published, journal>> /\ HandleCreated'
        BY <1>1, <1>3, <2>1, HandleKeeps DEF Attach, shownVars
    <2>3. QED
        BY <1>1, <1>3, <2>1, <2>2, SupervisorMoves
        DEF Attach, Goto, SettingUp, Holding, Supervised, Childless, ToRecovery, RunSteps
<1>4. CASE Announce(r)
    <2>1. UNCHANGED <<rig, journal>> /\ HandleCreated'
        BY <1>1, <1>4, TypeFrames DEF Announce
    <2>2. published' \in ShownRecord
        BY <1>4 DEF Announce, Show, ShownRecord
    <2>3. QED
        BY <1>1, <1>4, <2>1, <2>2, SupervisorMoves
        DEF Announce, Goto, SettingUp, Holding, Supervised, Childless, ToRecovery, RunSteps
<1>5. CASE ReadPhase(r)
    <2>1. UNCHANGED <<rig, published, journal>> /\ HandleCreated'
        BY <1>1, <1>5, TypeFrames DEF ReadPhase, shownVars
    <2>2. QED
        BY <1>1, <1>5, <2>1, SupervisorMoves
        DEF ReadPhase, Goto, SettingUp, Holding, Supervised, Childless, ToRecovery, RunSteps
<1>6. CASE ShowPhase(r)
    <2>1. UNCHANGED <<rig, journal>> /\ HandleCreated'
        BY <1>1, <1>6, TypeFrames DEF ShowPhase
    <2>2. published' \in ShownRecord
        BY <1>1, <1>6 DEF ShowPhase, ShownRecord
    <2>3. QED
        BY <1>1, <1>6, <2>1, <2>2, SupervisorMoves
        DEF ShowPhase, Goto, SettingUp, Holding, Supervised, Childless, ToRecovery, RunSteps
<1>7. CASE ReadEnd(r)
    <2>1. UNCHANGED <<rig, published, journal>> /\ HandleCreated'
        BY <1>1, <1>7, TypeFrames DEF ReadEnd, shownVars
    <2>2. QED
        BY <1>1, <1>7, <2>1, SupervisorMoves
        DEF ReadEnd, Goto, SettingUp, Holding, Supervised, Childless, ToRecovery, RunSteps
<1>8. QED
    BY <1>2, <1>3, <1>4, <1>5, <1>6, <1>7

\* The steps that publish the handle, and that end a settled run or send it to its recovery.
LEMMA BooksKeep ==
    ASSUME TriggerIInv, NEW r \in Runs, PublishHandle(r) \/ NoteRecovery(r) \/ Conclude(r)
    PROVE  TriggerIInv'
<1>1. /\ TypeInv /\ rig \in RigRecord /\ published \in ShownRecord /\ journal \in EntryRecord
      /\ run[r].alive \in BOOLEAN /\ RecoversOnce(r) /\ ChildKnown(r)
    BY TypesApart, SupervisorAt DEF TriggerIInv, RigTyped, ShownTyped, RunRecord
<1>2. CASE PublishHandle(r)
    <2>1. rig' \in RigRecord /\ rig'.procs = r
        BY <1>1, <1>2 DEF PublishHandle, RigRecord
    <2>2. UNCHANGED <<published, journal, run>>
        BY <1>2 DEF PublishHandle, shownVars
    <2>3. HandleCreated'
        BY <1>1, <1>2, <2>1, <2>2 DEF PublishHandle, HandleCreated, ChildKnown, Supervised
    <2>4. QED
        BY <1>1, <1>2, <2>1, <2>2, <2>3, SupervisorMoves
        DEF PublishHandle, Goto, SettingUp, Holding, Supervised, Childless, ToRecovery, RunSteps
<1>3. CASE NoteRecovery(r)
    <2>1. UNCHANGED rig /\ HandleCreated' /\ UNCHANGED <<run, runs, requestVars, lease, asked, faults>>
        BY <1>1, <1>3, TypeFrames DEF NoteRecovery
    <2>2. published' \in ShownRecord
        <3>1. published' = published \/ published' = [running |-> TRUE, phase |-> "recovering"]
            BY <1>3 DEF NoteRecovery, Show, shownVars
        <3>2. [running |-> TRUE, phase |-> "recovering"] \in ShownRecord
            BY DEF ShownRecord
        <3>3. QED
            BY <1>1, <3>1, <3>2
    <2>3. journal' \in EntryRecord
        <3>1. journal' \in {journal, [journal EXCEPT !.recovered = TRUE]}
            BY <1>3 DEF NoteRecovery, shownVars
        <3>2. QED
            BY <1>1, <3>1 DEF EntryRecord
    <2>4. PICK step \in {"look", "conclude"} : pc' = [pc EXCEPT ![r] = step]
        BY <1>3 DEF NoteRecovery, Goto
    <2>5. pc[r] = "note"
        BY <1>3 DEF NoteRecovery
    <2>6. QED
        BY <1>1, <2>1, <2>2, <2>3, <2>4, <2>5, SupervisorMoves
        DEF SettingUp, Holding, Supervised, Childless, ToRecovery, RunSteps
<1>4. CASE Conclude(r)
    <2>1. UNCHANGED rig /\ HandleCreated'
        BY <1>1, <1>4, TypeFrames DEF Conclude
    <2>2. published' \in ShownRecord /\ journal' \in EntryRecord
        BY <1>1, <1>4 DEF Conclude, Show, ShownRecord, EntryRecord, JournalFinish, Outcome
    <2>3. QED
        BY <1>1, <1>4, <2>1, <2>2, SupervisorMoves
        DEF Conclude, Goto, SettingUp, Holding, Supervised, Childless, ToRecovery, RunSteps
<1>5. QED
    BY <1>2, <1>3, <1>4

\* The steps in which the supervisor writes what it knows of its run.
LEMMA SupervisorWrites ==
    ASSUME TriggerIInv, NEW r \in Runs, NEW step \in RunSteps, NEW new \in RunRecord,
           pc' = [pc EXCEPT ![r] = step], run' = [run EXCEPT ![r] = new],
           UNCHANGED <<runs, requestVars, published, journal>>,
           UNCHANGED lease \/ lease = r, lease' \in {0, Unclosed} \cup Runs,
           rig' \in RigRecord, rig'.procs \in {0, rig.procs},
           UNCHANGED <<asked, faults>> \/ CountsTyped',
           pc[r] \notin SettingUp \cup {"unborn", "born", "done"}, step \notin SettingUp \cup {"unborn"},
           new.kind = run[r].kind, new.attempt = run[r].attempt,
           run[r].child # "none" => new.child # "none",
           RunFits(r)'
    PROVE  TriggerIInv'
<1>1. TypeInv /\ r \in Actors
    BY SupervisorAt
<1>2. RunsTyped' /\ run'[r] = new /\ \A s \in Runs \ {r} : run'[s] = run[s]
    BY <1>1, RunTyped
<1>3. StepsKnown' /\ RunsFit' /\ HandsFit' /\ HandsApart'
    BY <1>1, <1>2, ActorMoves DEF requestVars
<1>4. HandleCreated'
    BY <1>1, <1>2, HandleKeeps
<1>5. RigTyped' /\ StepsTyped' /\ RequestsTyped' /\ ShownTyped' /\ CountsTyped'
    <2>1. RequestsTyped' /\ CountsTyped' /\ ShownTyped
        BY <1>1, TypeFrames, TypesApart DEF requestVars
    <2>2. StepsTyped'
        BY <1>1, StepTyped
    <2>3. QED
        BY <2>1, <2>2 DEF RigTyped, ShownTyped
<1>6. QED
    BY <1>2, <1>3, <1>4, <1>5, TypesTogether DEF TriggerIInv

\* The run of such a step fits if it did before and if what is written suits the new step.
LEMMA WrittenFits ==
    ASSUME TriggerIInv, NEW r \in Runs, NEW step \in RunSteps, NEW new \in RunRecord,
           pc' = [pc EXCEPT ![r] = step], run' = [run EXCEPT ![r] = new], UNCHANGED runs,
           pc[r] # "unborn", step # "unborn", new.kind = run[r].kind, new.attempt = run[r].attempt,
           step \in Childless => new.child = "none",
           step \in Supervised => new.child # "none",
           step \in Holding => ~new.alive /\ pc[r] \in Holding /\ UNCHANGED lease,
           new.child \in {"run", "hung", "stuck"} => step \in Holding \/ new.alive,
           step \in ToRecovery => new.attempt = 0
    PROVE  RunFits(r)'
<1>1. RunFits(r) /\ Numbered(r) /\ HoldsSession(r) /\ r \in Actors /\ TypeInv
    BY SupervisorAt
<1>2. pc'[r] = step /\ run'[r] = new
    BY <1>1, RunTyped DEF TriggerIInv, StepsKnown
<1>3. Numbered(r)' /\ HoldsSession(r)'
    BY <1>1, <1>2 DEF Numbered, HoldsSession, Leased
<1>4. ChildKnown(r)' /\ RecoversOnce(r)'
    BY <1>1, <1>2 DEF ChildKnown, RecoversOnce, Live
<1>5. QED
    BY <1>3, <1>4 DEF RunFits

\* Popen(), its failure and that of the supervision, the end of the child, of the session, and of the run.
LEMMA WritingKeeps ==
    ASSUME TriggerIInv, NEW r \in Runs,
           Popen(r) \/ PopenFails(r) \/ SuperviseFails(r) \/ Abort(r) \/ CloseSession(r) \/ Settle(r)
    PROVE  TriggerIInv'
<1>1. /\ TypeInv /\ rig \in RigRecord /\ RecoversOnce(r) /\ ChildKnown(r) /\ HoldsSession(r)
      /\ run[r] \in RunRecord /\ lease \in {0, Unclosed} \cup Runs /\ r \in Nat \ {0}
    BY TypesApart, SupervisorAt DEF TriggerIInv, ShownTyped
<1>2. CASE Popen(r)
    <2> DEFINE new == [run[r] EXCEPT !.child = "run", !.fed = rig.inputs]
    <2>1. new \in RunRecord
        BY <1>1 DEF RunRecord, RigRecord
    <2>2. run' = [run EXCEPT ![r] = new] /\ pc[r] = "build" /\ pc' = [pc EXCEPT ![r] = "handle"]
        BY <1>2 DEF Popen, Goto
    <2>3. new.child = "run" /\ new.kind = run[r].kind /\ new.attempt = run[r].attempt /\ new.alive = run[r].alive
        BY <1>1 DEF RunRecord
    <2>4. UNCHANGED <<rig, runs, requestVars, lease, published, journal, asked, faults>>
        BY <1>2 DEF Popen, shownVars
    <2> HIDE DEF new
    <2>5. RunFits(r)'
        BY <1>1, <2>1, <2>2, <2>3, <2>4, WrittenFits
        DEF ChildKnown, Holding, Supervised, Childless, ToRecovery, RunSteps
    <2>6. QED
        BY <1>1, <2>1, <2>2, <2>3, <2>4, <2>5, SupervisorWrites DEF SettingUp, RunSteps
<1>3. CASE PopenFails(r)
    <2> DEFINE new == [run[r] EXCEPT !.error = TRUE]
    <2>1. new \in RunRecord
        BY <1>1 DEF RunRecord
    <2>2. run' = [run EXCEPT ![r] = new] /\ pc[r] = "build" /\ pc' = [pc EXCEPT ![r] = "close"]
        BY <1>3 DEF PopenFails, Goto
    <2>3. new.child = run[r].child /\ new.kind = run[r].kind /\ new.attempt = run[r].attempt /\ new.alive = run[r].alive
        BY <1>1 DEF RunRecord
    <2>4. UNCHANGED <<rig, runs, requestVars, lease, published, journal>> /\ CountsTyped'
        BY <1>1, <1>3, FaultsTyped DEF PopenFails, shownVars
    <2> HIDE DEF new
    <2>5. RunFits(r)'
        BY <1>1, <2>1, <2>2, <2>3, <2>4, WrittenFits
        DEF ChildKnown, Holding, Supervised, Childless, ToRecovery, RunSteps
    <2>6. QED
        BY <1>1, <2>1, <2>2, <2>3, <2>4, <2>5, SupervisorWrites DEF SettingUp, RunSteps
<1>4. CASE SuperviseFails(r)
    <2> DEFINE new == [run[r] EXCEPT !.error = TRUE]
    <2>1. new \in RunRecord
        BY <1>1 DEF RunRecord
    <2>2. run' = [run EXCEPT ![r] = new] /\ pc[r] \in {"attach", "watch"} /\ pc' = [pc EXCEPT ![r] = "abort"]
        BY <1>4 DEF SuperviseFails, Goto
    <2>3. new.child = run[r].child /\ new.kind = run[r].kind /\ new.attempt = run[r].attempt /\ new.alive = run[r].alive
        BY <1>1 DEF RunRecord
    <2>4. UNCHANGED <<rig, runs, requestVars, lease, published, journal>> /\ CountsTyped'
        BY <1>1, <1>4, FaultsTyped DEF SuperviseFails, shownVars
    <2> HIDE DEF new
    <2>5. RunFits(r)'
        BY <1>1, <2>1, <2>2, <2>3, <2>4, WrittenFits
        DEF ChildKnown, Holding, Supervised, Childless, ToRecovery, RunSteps
    <2>6. QED
        BY <1>1, <2>1, <2>2, <2>3, <2>4, <2>5, SupervisorWrites DEF SettingUp, RunSteps
<1>5. CASE Abort(r)
    <2>1. PICK new \in RunRecord :
              /\ run' = [run EXCEPT ![r] = new] /\ new.kind = run[r].kind
              /\ new.attempt = run[r].attempt /\ new.alive = run[r].alive
              /\ (run[r].child # "none" => new.child # "none")
        <3>1. CASE UNCHANGED run
            <4>1. run' = [run EXCEPT ![r] = run[r]]
                BY <1>1, <3>1, TypesApart DEF RunsTyped
            <4>2. QED
                BY <1>1, <4>1
        <3>2. CASE ~UNCHANGED run
            <4>1. PICK code \in {"ok", "bad"} :
                      run' = [run EXCEPT ![r].child = Killed(run[r].child), ![r].code = code]
                BY <1>5, <3>2 DEF Abort
            <4> DEFINE new == [run[r] EXCEPT !.child = Killed(run[r].child), !.code = code]
            <4>2. new \in RunRecord /\ new.child # "none"
                BY <1>1 DEF RunRecord, Killed
            <4>3. new.kind = run[r].kind /\ new.attempt = run[r].attempt /\ new.alive = run[r].alive
                BY <1>1 DEF RunRecord
            <4>4. run' = [run EXCEPT ![r] = new]
                BY <4>1
            <4>5. QED
                BY <4>2, <4>3, <4>4
        <3>3. QED
            BY <3>1, <3>2
    <2>2. pc[r] = "abort" /\ pc' = [pc EXCEPT ![r] = "close"]
        BY <1>5 DEF Abort, Goto
    <2>3. UNCHANGED <<rig, runs, requestVars, lease, published, journal, asked, faults>>
        BY <1>5 DEF Abort, shownVars
    <2>4. RunFits(r)'
        BY <1>1, <2>1, <2>2, <2>3, WrittenFits
        DEF ChildKnown, Holding, Supervised, Childless, ToRecovery, RunSteps
    <2>5. QED
        BY <1>1, <2>1, <2>2, <2>3, <2>4, SupervisorWrites DEF SettingUp, RunSteps
<1>6. CASE CloseSession(r)
    <2>1. PICK safe \in BOOLEAN : run' = [run EXCEPT ![r].alive = Live(r), ![r].safe = safe]
        BY <1>6 DEF CloseSession
    <2> DEFINE new == [run[r] EXCEPT !.alive = Live(r), !.safe = safe]
    <2>2. Live(r) \in BOOLEAN /\ (run[r].child \in {"run", "hung", "stuck"} <=> Live(r))
        BY <1>1 DEF Live
    <2>3. new \in RunRecord
        BY <1>1, <2>2 DEF RunRecord
    <2>4. new.child = run[r].child /\ new.kind = run[r].kind /\ new.attempt = run[r].attempt /\ new.alive = Live(r)
        BY <1>1 DEF RunRecord
    <2>5. run' = [run EXCEPT ![r] = new] /\ pc[r] = "close" /\ pc' = [pc EXCEPT ![r] = "settle"]
        BY <1>6, <2>1 DEF CloseSession, Goto
    <2>6. UNCHANGED <<rig, runs, requestVars, published, journal>> /\ CountsTyped'
        <3>1. UNCHANGED faults \/ Fault
            BY <1>6 DEF CloseSession, CloseLease, Fault
        <3>2. QED
            BY <1>1, <1>6, <3>1, FaultsTyped DEF CloseSession, shownVars
    <2>7. (UNCHANGED lease \/ lease = r) /\ lease' \in {0, Unclosed} \cup Runs
        BY <1>1, <1>6 DEF CloseSession, CloseLease
    <2> HIDE DEF new
    <2>8. RunFits(r)'
        BY <1>1, <2>2, <2>3, <2>4, <2>5, <2>6, <2>7, WrittenFits
        DEF Holding, Supervised, Childless, ToRecovery, RunSteps
    <2>9. QED
        BY <1>1, <2>3, <2>4, <2>5, <2>6, <2>7, <2>8, SupervisorWrites DEF SettingUp, RunSteps
<1>7. CASE Settle(r)
    <2> DEFINE new == [run[r] EXCEPT !.manual = rig.manual]
    <2>1. new \in RunRecord
        BY <1>1 DEF RunRecord, RigRecord
    <2>2. run' = [run EXCEPT ![r] = new] /\ pc[r] = "settle"
        BY <1>7 DEF Settle
    <2>3. new.child = run[r].child /\ new.kind = run[r].kind /\ new.attempt = run[r].attempt /\ new.alive = run[r].alive
        BY <1>1 DEF RunRecord
    <2>4. UNCHANGED <<runs, requestVars, lease, published, journal, asked, faults>>
        BY <1>7 DEF Settle, shownVars
    <2>5. Books(r) \in RigRecord /\ Books(r).procs \in {0, rig.procs}
        BY <1>1 DEF Books, Cleared, RigRecord
    <2>6. rig' \in RigRecord /\ rig'.procs \in {0, rig.procs}
        BY <1>7, <2>5 DEF Settle, RigRecord
    <2>7. PICK step \in {"done", "note", "conclude"} :
              pc' = [pc EXCEPT ![r] = step] /\ (step = "note" => run[r].attempt = 0)
        <3>1. MayRecover(r) => run[r].attempt = 0
            BY <1>1 DEF MayRecover, RunRecord
        <3>2. QED
            BY <1>7, <3>1 DEF Settle, Goto
    <2> HIDE DEF new
    <2>8. new.child \in {"run", "hung", "stuck"} => new.alive
        BY <1>1, <2>2, <2>3 DEF ChildKnown, Holding, Live
    <2>9. RunFits(r)'
        BY <1>1, <2>1, <2>2, <2>3, <2>4, <2>7, <2>8, WrittenFits
        DEF Holding, Supervised, Childless, ToRecovery, RunSteps
    <2>10. QED
        BY <1>1, <2>1, <2>2, <2>3, <2>4, <2>6, <2>7, <2>9, SupervisorWrites DEF SettingUp, RunSteps
<1>8. QED
    BY <1>2, <1>3, <1>4, <1>5, <1>6, <1>7

-----------------------------------------------------------------------------
(* The child *)

\* A child that ends, hangs or is killed by the watchdog keeps the invariant.
LEMMA ChildStepKeeps ==
    ASSUME TriggerIInv, NEW r \in Runs, Child(r)
    PROVE  TriggerIInv'
<1>1. TypeInv /\ run[r] \in RunRecord /\ r \in Nat \ {0}
    BY SupervisorAt
<1>2. PICK new \in RunRecord :
          /\ run' = [run EXCEPT ![r] = new] /\ new.kind = run[r].kind /\ new.id = run[r].id
          /\ new.attempt = run[r].attempt /\ new.alive = run[r].alive /\ new.child # "none" /\ Live(r)
    <2>1. CASE ChildExits(r)
        <3>1. PICK code \in {"ok", "bad"} : run' = [run EXCEPT ![r].child = "dead", ![r].code = code]
            BY <2>1 DEF ChildExits
        <3> DEFINE new == [run[r] EXCEPT !.child = "dead", !.code = code]
        <3>2. new \in RunRecord /\ new.child # "none"
            BY <1>1 DEF RunRecord
        <3>3. new.kind = run[r].kind /\ new.id = run[r].id /\ new.attempt = run[r].attempt /\ new.alive = run[r].alive
            BY <1>1 DEF RunRecord
        <3>4. run' = [run EXCEPT ![r] = new] /\ Live(r)
            BY <2>1, <3>1 DEF ChildExits
        <3>5. QED
            BY <3>2, <3>3, <3>4
    <2>2. CASE ChildHangs(r)
        <3>1. PICK how \in {"hung", "stuck"} : run' = [run EXCEPT ![r].child = how]
            BY <2>2 DEF ChildHangs
        <3> DEFINE new == [run[r] EXCEPT !.child = how]
        <3>2. new \in RunRecord /\ new.child # "none"
            BY <1>1 DEF RunRecord
        <3>3. new.kind = run[r].kind /\ new.id = run[r].id /\ new.attempt = run[r].attempt /\ new.alive = run[r].alive
            BY <1>1 DEF RunRecord
        <3>4. run' = [run EXCEPT ![r] = new] /\ Live(r)
            BY <1>1, <2>2, <3>1 DEF ChildHangs, Live
        <3>5. QED
            BY <3>2, <3>3, <3>4
    <2>3. CASE HeartbeatTimeout(r)
        <3> DEFINE code == IF run[r].child = "stuck" THEN run[r].code ELSE "bad"
        <3> DEFINE new == [run[r] EXCEPT !.silent = TRUE, !.child = Killed(run[r].child), !.code = code]
        <3>1. new \in RunRecord /\ new.child # "none"
            BY <1>1 DEF RunRecord, Killed
        <3>2. new.kind = run[r].kind /\ new.id = run[r].id /\ new.attempt = run[r].attempt /\ new.alive = run[r].alive
            BY <1>1 DEF RunRecord
        <3>3. run' = [run EXCEPT ![r] = new] /\ Live(r)
            BY <1>1, <2>3, TypesApart DEF HeartbeatTimeout, Live, RunsTyped, RunRecord
        <3> HIDE DEF new
        <3>4. QED
            BY <3>1, <3>2, <3>3
    <2>4. QED
        BY <2>1, <2>2, <2>3 DEF Child
<1>3. UNCHANGED <<rig, runs, pc, requestVars, lease, shownVars>> /\ CountsTyped'
    BY <1>1, FaultsTyped DEF Child, ChildExits, ChildHangs, HeartbeatTimeout
<1>4. RunsTyped' /\ run'[r] = new /\ \A s \in Runs \ {r} : run'[s] = run[s]
    BY <1>1, <1>2, <1>3, RunTyped
<1>5. StepsKnown' /\ RunsFit' /\ HandsFit' /\ HandsApart'
    BY <1>2, <1>3, <1>4, ChildrenChange DEF SameRun, requestVars
<1>6. RigTyped' /\ StepsTyped' /\ RequestsTyped' /\ ShownTyped'
    BY <1>1, <1>3, TypeFrames DEF requestVars, shownVars
<1>7. HandleCreated'
    BY <1>1, <1>2, <1>3, <1>4, HandleKeeps, TypesApart DEF RigTyped, RigRecord
<1>8. QED
    BY <1>3, <1>4, <1>5, <1>6, <1>7, TypesTogether DEF TriggerIInv

-----------------------------------------------------------------------------
(* Requests *)

\* A step of a request that admits no run
LEMMA RequestMoves ==
    ASSUME TriggerIInv, NEW q \in Requests, NEW step \in RequestSteps, pc' = [pc EXCEPT ![q] = step],
           UNCHANGED <<runs, mine, lease>>, faults' \in 0 .. MaxFaults,
           \A r \in Runs : \/ run'[r] = run[r]
                           \/ Live(r) /\ SameRun(r) /\ run'[r].alive = run[r].alive /\ run'[r].child # "none",
           RunsTyped', rig' \in RigRecord, rig'.procs = rig.procs,
           published' \in ShownRecord, journal' \in EntryRecord,
           target' \in [Requests -> {0} \cup Runs],
           reply' \in [Requests -> {"none", "not_running", "coalesced", "stopping", "stopped"}],
           asked' \subseteq Runs, pc[q] \notin SettingUp, step \notin SettingUp
    PROVE  TriggerIInv'
<1>1. TypeInv /\ q \in Actors /\ q \notin Runs
    BY ConstantsAssumption DEF TriggerIInv, Actors
<1>2. StepsKnown' /\ RunsFit' /\ HandsFit' /\ HandsApart'
    BY <1>1, ActorMoves
<1>3. HandleCreated'
    BY <1>1, HandleKeeps DEF Live
<1>4. RigTyped' /\ StepsTyped' /\ RequestsTyped' /\ ShownTyped' /\ CountsTyped'
    <2>1. RequestsTyped /\ ShownTyped /\ CountsTyped
        BY <1>1, TypesApart
    <2>2. StepsTyped'
        BY <1>1, StepTyped
    <2>3. QED
        BY <2>1, <2>2 DEF RigTyped, ShownTyped, RequestsTyped, CountsTyped
<1>5. QED
    BY <1>2, <1>3, <1>4, TypesTogether DEF TriggerIInv

\* What a request's step may assume
LEMMA RequestAt ==
    ASSUME TriggerIInv
    PROVE  /\ TypeInv /\ RunsTyped /\ rig \in RigRecord /\ published \in ShownRecord /\ journal \in EntryRecord
           /\ target \in [Requests -> {0} \cup Runs]
           /\ reply \in [Requests -> {"none", "not_running", "coalesced", "stopping", "stopped"}]
           /\ asked \subseteq Runs /\ faults \in 0 .. MaxFaults /\ lease \in {0, Unclosed} \cup Runs
           /\ mine \in [Actors -> {0} \cup Runs] /\ CountsTyped
BY TypesApart DEF TriggerIInv, RigTyped, ShownTyped, RequestsTyped, CountsTyped

\* start() that is refused or rejected, or raises
LEMMA RefusalKeeps ==
    ASSUME TriggerIInv, NEW q \in Requests, StartRefused(q) \/ StartRejected(q) \/ StartUnfrozen(q)
    PROVE  TriggerIInv'
<1>1. pc[q] = "issue" /\ pc' = [pc EXCEPT ![q] = "done"]
    BY DEF StartRefused, StartRejected, StartUnfrozen, AtStart, Goto
<1>2. UNCHANGED <<run, runs, mine, target, reply, lease, published, journal, asked>>
    BY DEF StartRefused, StartRejected, StartUnfrozen, requestVars, shownVars
<1>3. rig' \in RigRecord /\ rig'.procs = rig.procs
    <2>1. Crosses \in BOOLEAN
        BY RequestAt DEF Crosses, RigRecord
    <2>2. QED
        BY <2>1, RequestAt DEF StartRefused, StartRejected, StartUnfrozen, RigRecord
<1>4. RunsTyped'
    BY <1>2, RequestAt, TypeFrames
<1>5. faults' \in 0 .. MaxFaults
    BY RequestAt, ConstantsAssumption DEF StartRefused, StartRejected, StartUnfrozen, Fault
<1>6. QED
    BY <1>1, <1>2, <1>3, <1>4, <1>5, RequestAt, RequestMoves DEF SettingUp, RequestSteps

\* stop() in all its steps
LEMMA StopKeeps ==
    ASSUME TriggerIInv, NEW q \in Requests, Stop(q)
    PROVE  TriggerIInv'
<1>1. PICK step \in {"decide", "join", "publish", "signal", "done"} : pc' = [pc EXCEPT ![q] = step]
    BY DEF Stop, StopNothing, StopCoalesced, StopAccepted, StopJoin, StopDecide, StopPublish, StopSignal,
           Goto, Answer
<1>2. pc[q] \in {"issue", "join", "decide", "publish", "signal"}
    BY DEF Stop, StopNothing, StopCoalesced, StopAccepted, StopJoin, StopDecide, StopPublish, StopSignal, AtStop
<1>3. UNCHANGED <<runs, mine, lease, journal, faults>>
    BY DEF Stop, StopNothing, StopCoalesced, StopAccepted, StopJoin, StopDecide, StopPublish, StopSignal,
           Answer, requestVars, shownVars
<1>4. rig' \in RigRecord /\ rig'.procs = rig.procs
    <2>1. rig' = rig \/ rig' = [rig EXCEPT !.stopping = FALSE]
            \/ rig' = [rig EXCEPT !.stopping = TRUE, !.suppressed = TRUE, !.manual = TRUE,
                                  !.cancel = @ \/ rig.starting]
        BY DEF Stop, StopNothing, StopCoalesced, StopAccepted, StopJoin, StopDecide, StopPublish, StopSignal
    <2>2. QED
        BY <2>1, RequestAt DEF RigRecord
<1>5. published' \in ShownRecord
    <2>1. published' = published \/ published' = [running |-> TRUE, phase |-> "stopping"]
        BY DEF Stop, StopNothing, StopCoalesced, StopAccepted, StopJoin, StopDecide, StopPublish, StopSignal,
               Show, shownVars
    <2>2. [running |-> TRUE, phase |-> "stopping"] \in ShownRecord
        BY DEF ShownRecord
    <2>3. QED
        BY <2>1, <2>2, RequestAt
<1>6. CurrentRun \in {0} \cup Runs
    BY RequestAt, ConstantsAssumption DEF CurrentRun, Live, RigRecord, RunsTyped, Runs
<1>7. target' \in [Requests -> {0} \cup Runs] /\ asked' \subseteq Runs
    <2>1. rig.procs \in {0} \cup Runs
        BY RequestAt DEF RigRecord
    <2>2. target' = target \/ \E r \in {0} \cup Runs : target' = [target EXCEPT ![q] = r]
        BY <1>6, <2>1
        DEF Stop, StopNothing, StopCoalesced, StopAccepted, StopJoin, StopDecide, StopPublish, StopSignal,
            requestVars
    <2>3. asked' = asked \/ asked' = asked \cup ({CurrentRun} \ {0})
        BY DEF Stop, StopNothing, StopCoalesced, StopAccepted, StopJoin, StopDecide, StopPublish, StopSignal
    <2>4. QED
        BY <1>6, <2>2, <2>3, RequestAt
<1>8. reply' \in [Requests -> {"none", "not_running", "coalesced", "stopping", "stopped"}]
    <2>1. reply' = reply \/ \E what \in {"not_running", "coalesced", "stopping", "stopped"} :
                                reply' = [reply EXCEPT ![q] = what]
        BY DEF Stop, StopNothing, StopCoalesced, StopAccepted, StopJoin, StopDecide, StopPublish, StopSignal,
               Answer, requestVars
    <2>2. QED
        BY <2>1, RequestAt
<1>9. /\ RunsTyped'
      /\ \A r \in Runs : \/ run'[r] = run[r]
                         \/ Live(r) /\ SameRun(r) /\ run'[r].alive = run[r].alive /\ run'[r].child # "none"
    <2>1. CASE UNCHANGED run
        BY <1>3, <2>1, RequestAt, TypeFrames
    <2>2. CASE ~UNCHANGED run
        <3> DEFINE r == target[q]
        <3>1. StopSignal(q) /\ Live(r)
            BY <2>2 DEF Stop, StopNothing, StopCoalesced, StopAccepted, StopJoin, StopDecide, StopPublish,
                        StopSignal
        <3>2. r \in Runs /\ run[r] \in RunRecord
            BY <3>1, RequestAt DEF Live, RunsTyped
        <3> DEFINE code == IF run[r].child = "stuck" THEN run[r].code ELSE "bad"
        <3> DEFINE ended == [run[r] EXCEPT !.child = Killed(run[r].child), !.code = code]
        <3> DEFINE told == [run[r] EXCEPT !.termed = TRUE]
        <3>3. run' = [run EXCEPT ![r] = told] \/ run' = [run EXCEPT ![r] = ended]
            BY <3>1, <3>2, RequestAt DEF StopSignal, RunsTyped, RunRecord
        <3>4. told \in RunRecord /\ ended \in RunRecord /\ told.child # "none" /\ ended.child # "none"
            <4>1. run[r].child # "none"
                BY <3>1 DEF Live
            <4>2. told \in RunRecord /\ told.child # "none"
                BY <3>2, <4>1 DEF RunRecord
            <4>3. Killed(run[r].child) \in {"stuck", "dead"} /\ code \in {"none", "ok", "bad"}
                BY <3>2 DEF Killed, RunRecord
            <4>4. ASSUME NEW c \in {"stuck", "dead"}, NEW k \in {"none", "ok", "bad"}
                  PROVE  LET new == [run[r] EXCEPT !.child = c, !.code = k]
                         IN  new \in RunRecord /\ new.child # "none"
                BY <3>2 DEF RunRecord
            <4>5. ended \in RunRecord /\ ended.child # "none"
                BY <4>3, <4>4
            <4>6. QED
                BY <4>2, <4>5
        <3>5. /\ told.kind = run[r].kind /\ told.attempt = run[r].attempt /\ told.id = run[r].id
              /\ told.alive = run[r].alive
            BY <3>2 DEF RunRecord
        <3>6. /\ ended.kind = run[r].kind /\ ended.attempt = run[r].attempt /\ ended.id = run[r].id
              /\ ended.alive = run[r].alive
            BY <3>2 DEF RunRecord
        <3> HIDE DEF told, ended
        <3>7. PICK new \in {told, ended} : run' = [run EXCEPT ![r] = new]
            BY <3>3
        <3>8. RunsTyped' /\ run'[r] = new /\ \A s \in Runs \ {r} : run'[s] = run[s]
            BY <1>3, <3>2, <3>4, <3>7, RunTyped, RequestAt
        <3>9. QED
            BY <3>1, <3>2, <3>4, <3>5, <3>6, <3>8 DEF SameRun
    <2>3. QED
        BY <2>1, <2>2
<1>10. QED
    BY <1>1, <1>2, <1>3, <1>4, <1>5, <1>7, <1>8, <1>9, RequestAt, RequestMoves DEF SettingUp, RequestSteps

-----------------------------------------------------------------------------
(* Admissions *)

\* The record of a run at its admission
Newcomer(kind, attempt, id) == [NewRun EXCEPT !.kind = kind, !.attempt = attempt, !.id = id]

\* A run that is admitted is a new one, and disturbs no other run and no other emergency start.
LEMMA AdmissionKeeps ==
    ASSUME TriggerIInv, NEW a \in Actors, NEW there \in RequestSteps \cap RunSteps,
           NEW kind \in Modes \cup {"totality"}, NEW attempt \in 0 .. 1, NEW id \in {0} \cup Runs,
           NEW step \in {"born", "check", "done"}, Admit(a, there, kind, attempt, id, step),
           NEW n \in Runs, n = runs + 1,
           a \in Runs => pc[a] \notin {"unborn", "born", "done"},
           \A b \in Actors \ {a} : mine'[b] = mine[b],
           UNCHANGED lease \/ lease = 0,
           there \in SettingUp => mine'[a] = n
    PROVE  /\ n # a /\ pc'[a] = there /\ pc'[n] = step /\ runs' = n
           /\ run[n].child = "none"
           /\ run'[n] = Newcomer(kind, attempt, id)
           /\ \A r \in Runs \ {n} : run'[r] = run[r]
           /\ \A r \in Runs \ {n, a} : RunFits(r)'
           /\ \A b \in Actors \ {a} : HandFits(b)'
           /\ StepsKnown' /\ StepsTyped' /\ RunsTyped' /\ HandsApart'
<1> DEFINE new == Newcomer(kind, attempt, id)
<1>1. TypeInv /\ StepsKnown /\ RunsTyped /\ StepsTyped /\ Requests \cap Runs = {} /\ MaxRuns \in Nat
    BY ConstantsAssumption, TypesApart DEF TriggerIInv
<1>2. runs' = n /\ runs \in Nat
    BY <1>1 DEF Admit, Runs, RunsTyped
<1>3. pc[n] = "unborn" /\ run[n] = NewRun /\ run[n].child = "none"
    BY <1>1, <1>2, SupervisorAt DEF Numbered, NewRun
<1>4. n # a /\ n \in Actors
    BY <1>1, <1>2, <1>3 DEF Actors
<1>5. pc' = [pc EXCEPT ![a] = there, ![n] = step] /\ run' = [run EXCEPT ![n] = new]
    BY DEF Admit, Newcomer
<1>6. pc'[a] = there /\ pc'[n] = step /\ \A b \in Actors \ {a, n} : pc'[b] = pc[b]
    BY <1>1, <1>4, <1>5 DEF StepsKnown
<1>7. StepsKnown' /\ StepsTyped'
    <2>1. there \in RequestSteps \cup RunSteps /\ step \in RequestSteps \cup RunSteps
        BY DEF RunSteps
    <2>2. StepsKnown'
        BY <1>1, <1>5, <2>1 DEF StepsKnown
    <2>3. step \in RunSteps
        BY DEF RunSteps
    <2>4. QED
        BY <1>1, <1>2, <1>4, <1>6, <2>2, <2>3 DEF StepsTyped, Actors
<1>8. new \in RunRecord
    BY DEF RunRecord, NewRun, Newcomer
<1>9. RunsTyped' /\ run'[n] = new /\ \A r \in Runs \ {n} : run'[r] = run[r]
    BY <1>1, <1>2, <1>5, <1>8 DEF RunsTyped, Runs
<1>10. ASSUME NEW r \in Runs \ {n, a} PROVE RunFits(r)'
    <2>1. Numbered(r) /\ ChildKnown(r) /\ HoldsSession(r) /\ RecoversOnce(r) /\ r \in Nat \ {0} /\ r \in Actors
        BY SupervisorAt
    <2>2. pc'[r] = pc[r] /\ run'[r] = run[r]
        BY <1>6, <1>9, <2>1
    <2>3. Numbered(r)'
        BY <1>2, <2>1, <2>2 DEF Numbered
    <2>4. ChildKnown(r)' /\ RecoversOnce(r)' /\ HoldsSession(r)'
        BY <2>1, <2>2 DEF ChildKnown, RecoversOnce, HoldsSession, Live, Leased
    <2>5. QED
        BY <2>3, <2>4 DEF RunFits
<1>11. ASSUME NEW b \in Actors \ {a} PROVE HandFits(b)'
    <2>1. CASE b = n
        BY <1>6, <2>1 DEF HandFits, SettingUp
    <2>2. CASE b # n /\ pc[b] \in SettingUp
        <3>1. HandFits(b) /\ pc'[b] = pc[b] /\ mine'[b] = mine[b]
            BY <1>6, <2>2 DEF TriggerIInv, HandsFit
        <3>2. /\ mine[b] \in Runs /\ pc[mine[b]] \in {"born", "done"} /\ run[mine[b]].child = "none"
              /\ run[mine[b]].kind = "totality" /\ ~run[mine[b]].alive
              /\ pc[mine[b]] = IF pc[b] = "rollback" THEN "done" ELSE "born"
            BY <2>2, <3>1 DEF HandFits
        <3>3. mine[b] \in Actors \ {a, n} /\ mine[b] # 0
            BY <1>3, <3>2 DEF Actors, Runs
        <3>4. pc'[mine[b]] = pc[mine[b]] /\ run'[mine[b]] = run[mine[b]]
            BY <1>6, <1>9, <3>2, <3>3
        <3>5. pc[b] = "launch" => lease' = mine[b]
            BY <3>1, <3>3 DEF HandFits
        <3>6. QED
            BY <3>1, <3>2, <3>4, <3>5 DEF HandFits
    <2>3. CASE b # n /\ pc[b] \notin SettingUp
        BY <1>6, <2>3 DEF HandFits, SettingUp
    <2>4. QED
        BY <2>1, <2>2, <2>3
<1>12. HandsApart'
    <2>1. \A b \in Actors \ {a} : pc'[b] \in SettingUp =>
              pc[b] \in SettingUp /\ mine'[b] = mine[b] /\ mine[b] # n
        BY <1>3, <1>6 DEF TriggerIInv, HandsFit, HandFits, SettingUp
    <2>2. QED
        BY <1>6, <2>1 DEF TriggerIInv, HandsApart
<1>13. QED
    BY <1>2, <1>3, <1>4, <1>6, <1>7, <1>9, <1>10, <1>11, <1>12

\* The new run fits at its first step, with the camera session if it is admitted by start().
LEMMA AdmittedFits ==
    ASSUME NEW n \in Runs, NEW kind, NEW attempt, NEW id, NEW step \in {"born", "check", "done"},
           run'[n] = Newcomer(kind, attempt, id),
           pc'[n] = step, runs' = n, step = "check" /\ Leased(kind) => lease' = n, MaxRuns \in Nat
    PROVE  RunFits(n)'
<1>1. run'[n].child = "none" /\ ~run'[n].alive /\ run'[n].kind = kind
    BY DEF NewRun, Newcomer
<1>2. Numbered(n)' /\ ChildKnown(n)'
    BY <1>1 DEF Numbered, ChildKnown, Holding, Supervised, Childless, Live, Runs
<1>3. HoldsSession(n)' /\ RecoversOnce(n)'
    BY <1>1 DEF HoldsSession, RecoversOnce, Holding, ToRecovery, Leased
<1>4. QED
    BY <1>2, <1>3 DEF RunFits

\* start() that is accepted, or whose supervisor cannot be started
LEMMA StartKeeps ==
    ASSUME TriggerIInv, NEW q \in Requests, StartAccepted(q) \/ StartBroken(q)
    PROVE  TriggerIInv'
<1>1. /\ Kind[q] \in Modes /\ MayLease(Kind[q]) /\ pc[q] = "issue" /\ runs < MaxRuns
      /\ UNCHANGED <<mine, target, reply, asked>>
    BY DEF StartAccepted, StartBroken, AtStart, Admit, requestVars
<1>2. q \in Actors /\ q \notin Runs /\ MaxRuns \in Nat
    BY ConstantsAssumption DEF Actors
<1>3. PICK n \in Runs : n = runs + 1
    BY <1>1, <1>2, RequestAt DEF Runs, RunsTyped
<1> DEFINE id == Journaled(Kind[q], n)
<1>4. id \in {0} \cup Runs
    BY <1>3 DEF Journaled
<1>5. PICK step \in {"check", "done"} :
          /\ Admit(q, "done", Kind[q], 0, id, step)
          /\ step = "check" => lease' = IF Leased(Kind[q]) THEN n ELSE lease
          /\ step = "done" => lease' \in {lease} \cup (IF Leased(Kind[q]) THEN {Unclosed} ELSE {})
    BY <1>3 DEF StartAccepted, StartBroken
<1>6. (UNCHANGED lease \/ lease = 0) /\ lease' \in {0, lease, n, Unclosed}
    BY <1>1, <1>5 DEF MayLease
<1>7. /\ n # q /\ pc'[q] = "done" /\ pc'[n] = step /\ runs' = n
      /\ run[n].child = "none"
      /\ run'[n] = Newcomer(Kind[q], 0, id)
      /\ \A r \in Runs \ {n} : run'[r] = run[r]
      /\ \A r \in Runs \ {n, q} : RunFits(r)'
      /\ \A b \in Actors \ {q} : HandFits(b)'
      /\ StepsKnown' /\ StepsTyped' /\ RunsTyped' /\ HandsApart'
    <2>1. "done" \in RequestSteps \cap RunSteps /\ "done" \notin SettingUp
        BY DEF RequestSteps, RunSteps, SettingUp
    <2>2. Kind[q] \in Modes \cup {"totality"} /\ 0 \in 0 .. 1 /\ step \in {"born", "check", "done"}
        BY <1>1
    <2>3. \A b \in Actors \ {q} : mine'[b] = mine[b]
        BY <1>1
    <2>4. Admit(q, "done", Kind[q], 0, id, step)
        BY <1>5
    <2> HIDE DEF id
    <2>5. QED
        BY <1>2, <1>3, <1>4, <1>6, <2>1, <2>2, <2>3, <2>4, AdmissionKeeps
<1>8. RunFits(n)'
    <2>1. step \in {"born", "check", "done"} /\ (step = "check" /\ Leased(Kind[q]) => lease' = n)
        BY <1>5
    <2> HIDE DEF id
    <2>2. QED
        BY <1>2, <1>7, <2>1, AdmittedFits
<1>9. RunsFit' /\ HandsFit'
    <2>1. HandFits(q)'
        BY <1>7 DEF HandFits, SettingUp
    <2>2. QED
        BY <1>2, <1>7, <1>8, <2>1 DEF RunsFit, HandsFit
<1>10. RigTyped' /\ rig'.procs = rig.procs
    <2>1. Crosses \in BOOLEAN
        BY RequestAt DEF Crosses, RigRecord
    <2>2. QED
        BY <1>3, <2>1, RequestAt DEF StartAccepted, StartBroken, RigTyped, RigRecord
<1>11. ShownTyped'
    <2>1. lease' \in {0, Unclosed} \cup Runs
        BY <1>3, <1>6, RequestAt
    <2>2. published' \in ShownRecord
        <3>1. published' \in {[running |-> TRUE, phase |-> "starting"], [running |-> FALSE, phase |-> "idle"]}
            BY DEF StartAccepted, StartBroken, Show
        <3>2. /\ [running |-> TRUE, phase |-> "starting"] \in ShownRecord
              /\ [running |-> FALSE, phase |-> "idle"] \in ShownRecord
            BY DEF ShownRecord
        <3>3. QED
            BY <3>1, <3>2
    <2>3. journal' \in {journal, [id |-> id, status |-> "active", recovered |-> FALSE],
                         [id |-> id, status |-> "failed", recovered |-> FALSE]}
        BY <1>3 DEF StartAccepted, StartBroken, JournalBegin
    <2>4. /\ [id |-> id, status |-> "active", recovered |-> FALSE] \in EntryRecord
          /\ [id |-> id, status |-> "failed", recovered |-> FALSE] \in EntryRecord
        BY <1>4 DEF EntryRecord
    <2> HIDE DEF id
    <2>5. journal' \in EntryRecord
        BY <2>3, <2>4, RequestAt
    <2>6. QED
        BY <2>1, <2>2, <2>5 DEF ShownTyped
<1>12. RequestsTyped' /\ CountsTyped'
    <2>1. UNCHANGED faults \/ Fault
        BY DEF StartAccepted, StartBroken
    <2>2. QED
        BY <1>1, <2>1, RequestAt, TypeFrames, FaultsTyped
<1>13. HandleCreated'
    BY <1>7, <1>10, RequestAt, HandleKeeps
<1>14. QED
    BY <1>7, <1>9, <1>10, <1>11, <1>12, <1>13, TypesTogether DEF TriggerIInv

-----------------------------------------------------------------------------
(* Emergency starts, by a request or by the supervisor of a failed run *)

\* What an emergency start's step may assume of its actor
LEMMA EmergencyAt ==
    ASSUME TriggerIInv, NEW a \in Actors
    PROVE  /\ a \in Runs => ~(a \in Requests) /\ Recovering(a) /\ pc[a] \in RunSteps
           /\ a \notin Runs => a \in Requests /\ ~Recovering(a) /\ pc[a] \in RequestSteps
BY ConstantsAssumption, TypesApart DEF TriggerIInv, Actors, Recovering, StepsTyped

\* An emergency start that looks around, finds a startup, or signals a live child
LEMMA OverrideKeeps ==
    ASSUME TriggerIInv, NEW a \in Actors,
           EmergencyLook(a) \/ Override(a) \/ ShowOverride(a) \/ (EmergencyClaim(a) /\ rig.starting)
    PROVE  TriggerIInv'
<1>1. /\ UNCHANGED <<run, runs, mine, target, reply, lease, journal, asked, faults>>
      /\ (UNCHANGED rig \/ rig' = [rig EXCEPT !.suppressed = TRUE])
      /\ (UNCHANGED published \/ published' = [published EXCEPT !.phase = "totality_override"])
    BY DEF EmergencyLook, Override, ShowOverride, EmergencyClaim, requestVars, shownVars
<1>2. PICK step \in {"conclude", "done", "override", "overridden", "claim"} :
          /\ pc' = [pc EXCEPT ![a] = step]
          /\ a \in Runs => step # "done"
          /\ a \notin Runs => step # "conclude"
    BY EmergencyAt DEF EmergencyLook, Override, ShowOverride, EmergencyClaim, Leave, Goto
<1>3. pc[a] \in {"look", "override", "overridden", "claim"} \/ (a \in Requests /\ pc[a] = "issue")
    BY DEF EmergencyLook, Override, ShowOverride, EmergencyClaim
<1>4. rig' \in RigRecord /\ rig'.procs = rig.procs
    BY <1>1, RequestAt DEF RigRecord
<1>5. published' \in ShownRecord /\ journal' \in EntryRecord
    BY <1>1, RequestAt DEF ShownRecord
<1>6. RunsTyped' /\ HandleCreated'
    <2>1. RunsTyped'
        BY <1>1, RequestAt, TypeFrames
    <2>2. rig'.procs \in {0, rig.procs} /\ \A r \in Runs : run[r].child # "none" => run'[r].child # "none"
        BY <1>1, <1>4
    <2>3. QED
        BY <2>1, <2>2, RequestAt, HandleKeeps
<1>7. CASE a \in Runs
    <2>1. pc[a] \in ToRecovery /\ run[a].attempt = 0
        BY <1>3, <1>7, EmergencyAt, SupervisorAt DEF RecoversOnce, ToRecovery
    <2>2. step \in RunSteps /\ step \notin SettingUp \cup {"unborn"} /\ step \notin Holding \cup Childless \cup Supervised
        BY <1>2, <1>7 DEF RunSteps, SettingUp, Holding, Childless, Supervised
    <2>3. pc[a] \notin SettingUp \cup {"unborn", "born", "done"} /\ pc[a] \notin Holding
        BY <2>1 DEF ToRecovery, SettingUp, Holding
    <2>4. UNCHANGED <<run, runs, requestVars, lease, asked, faults>>
        BY <1>1 DEF requestVars
    <2>5. QED
        BY <1>2, <1>4, <1>5, <1>6, <1>7, <2>1, <2>2, <2>3, <2>4, SupervisorMoves
<1>8. CASE a \notin Runs
    <2>1. a \in Requests /\ step \in RequestSteps /\ step \notin SettingUp /\ pc[a] \notin SettingUp
        BY <1>2, <1>3, <1>8, EmergencyAt DEF RequestSteps, SettingUp
    <2>2. UNCHANGED <<runs, mine, lease, faults>> /\ \A r \in Runs : run'[r] = run[r]
        BY <1>1
    <2>3. /\ target' \in [Requests -> {0} \cup Runs] /\ asked' \subseteq Runs
          /\ reply' \in [Requests -> {"none", "not_running", "coalesced", "stopping", "stopped"}]
        BY <1>1, RequestAt
    <2>4. faults' \in 0 .. MaxFaults
        BY <1>1, RequestAt
    <2>5. QED
        BY <1>2, <1>4, <1>5, <1>6, <2>1, <2>2, <2>3, <2>4, RequestMoves
<1>9. QED
    BY <1>7, <1>8

\* The claim of the startup admits a run, which is the second attempt of a recovery.
LEMMA ClaimKeeps ==
    ASSUME TriggerIInv, NEW a \in Actors, EmergencyClaim(a), ~rig.starting
    PROVE  TriggerIInv'
<1> DEFINE attempt == IF Recovering(a) THEN run[a].attempt + 1 ELSE 0
<1> DEFINE id == IF Recovering(a) THEN run[a].id ELSE runs + 1
<1>1. /\ pc[a] = "claim" /\ Admit(a, "prepare", "totality", attempt, id, "born")
      /\ \E crossed \in BOOLEAN :
             rig' = [rig EXCEPT !.starting = TRUE, !.suppressed = TRUE, !.manual = FALSE, !.cancel = FALSE,
                                !.crossed = crossed]
      /\ mine' = [mine EXCEPT ![a] = runs + 1]
      /\ UNCHANGED <<target, reply, lease, published, journal, asked, faults>>
    <2>1. (rig.crossed \/ \E r \in Runs \ {a} : NeedsFlags(r)) \in BOOLEAN
        BY RequestAt DEF RigRecord
    <2>2. QED
        BY <2>1 DEF EmergencyClaim, shownVars
<1>2. MaxRuns \in Nat /\ RunsTyped /\ mine \in [Actors -> {0} \cup Runs]
    BY ConstantsAssumption, RequestAt
<1>3. PICK n \in Runs : n = runs + 1
    BY <1>1, <1>2 DEF Admit, Runs, RunsTyped
<1>4. attempt \in 0 .. 1 /\ id \in {0} \cup Runs
    <2>1. CASE a \in Runs
        <3>1. run[a].attempt = 0 /\ run[a] \in RunRecord /\ Recovering(a)
            BY <1>1, <2>1, EmergencyAt, SupervisorAt DEF RecoversOnce, ToRecovery
        <3>2. QED
            BY <3>1 DEF RunRecord
    <2>2. CASE a \notin Runs
        BY <1>3, <2>2, EmergencyAt
    <2>3. QED
        BY <2>1, <2>2
<1>5. /\ mine'[a] = n /\ \A b \in Actors \ {a} : mine'[b] = mine[b]
    BY <1>1, <1>2, <1>3
<1>6. /\ n # a /\ pc'[a] = "prepare" /\ pc'[n] = "born" /\ runs' = n
      /\ run[n].child = "none"
      /\ run'[n] = Newcomer("totality", attempt, id)
      /\ \A r \in Runs \ {n} : run'[r] = run[r]
      /\ \A r \in Runs \ {n, a} : RunFits(r)'
      /\ \A b \in Actors \ {a} : HandFits(b)'
      /\ StepsKnown' /\ StepsTyped' /\ RunsTyped' /\ HandsApart'
    <2>1. "prepare" \in RequestSteps \cap RunSteps
        BY DEF RequestSteps, RunSteps
    <2>2. Admit(a, "prepare", "totality", attempt, id, "born") /\ UNCHANGED lease
        BY <1>1
    <2>3. a \in Runs => pc[a] \notin {"unborn", "born", "done"}
        BY <1>1
    <2> HIDE DEF attempt, id
    <2>4. QED
        BY <1>3, <1>4, <1>5, <2>1, <2>2, <2>3, AdmissionKeeps
<1>7. RunFits(n)'
    <2> HIDE DEF attempt, id
    <2>1. QED
        BY <1>2, <1>6, AdmittedFits
<1>8. HandFits(a)'
    <2>1. run'[n].child = "none" /\ run'[n].kind = "totality" /\ ~run'[n].alive
        BY <1>6 DEF Newcomer, NewRun
    <2>2. QED
        BY <1>5, <1>6, <2>1 DEF HandFits
<1>9. a \in Runs => RunFits(a)'
    <2> SUFFICES ASSUME a \in Runs PROVE RunFits(a)'
        OBVIOUS
    <2>1. Numbered(a) /\ ChildKnown(a) /\ run'[a] = run[a] /\ runs \in Nat /\ a \in Nat
        BY <1>2, <1>6, SupervisorAt DEF RunsTyped
    <2>2. Numbered(a)'
        BY <1>1, <1>3, <1>6, <2>1 DEF Numbered
    <2>3. ChildKnown(a)'
        BY <1>1, <1>6, <2>1 DEF ChildKnown, Holding, Supervised, Childless, Live
    <2>4. HoldsSession(a)' /\ RecoversOnce(a)'
        BY <1>6 DEF HoldsSession, RecoversOnce, Holding, ToRecovery
    <2>5. QED
        BY <2>2, <2>3, <2>4 DEF RunFits
<1>10. RunsFit' /\ HandsFit'
    BY <1>6, <1>7, <1>8, <1>9 DEF RunsFit, HandsFit
<1>11. RigTyped' /\ rig'.procs = rig.procs
    BY <1>1, RequestAt DEF RigTyped, RigRecord
<1>12. RequestsTyped'
    BY <1>1, <1>2, <1>3, RequestAt DEF RequestsTyped
<1>13. ShownTyped' /\ CountsTyped'
    BY <1>1, RequestAt, TypeFrames
<1>14. HandleCreated'
    <2>1. \A r \in Runs : run[r].child # "none" => run'[r].child # "none"
        BY <1>6
    <2>2. QED
        BY <1>11, <2>1, RequestAt, HandleKeeps
<1>15. QED
    BY <1>6, <1>10, <1>11, <1>12, <1>13, <1>14, TypesTogether DEF TriggerIInv

\* An emergency start and its run move on together.
LEMMA HandMoves ==
    ASSUME TriggerIInv, NEW a \in Actors, pc[a] \in SettingUp, NEW m \in Runs, m = mine[a],
           StepsKnown', \A b \in Actors \ {a, m} : pc'[b] = pc[b], UNCHANGED <<run, runs, mine>>,
           pc'[a] \in {"launch", "rollback", "done"} \/ (pc'[a] = "conclude" /\ a \in Runs),
           pc'[m] \in {"born", "check", "done"},
           pc'[m] = "check" => lease' = m,
           pc'[a] = "launch" => lease' = m /\ pc'[m] = "born",
           pc'[a] = "rollback" => pc'[m] = "done",
           UNCHANGED lease \/ lease = 0 \/ lease = m
    PROVE  RunsFit' /\ HandsFit' /\ HandsApart' /\ StepsTyped' /\ RunsTyped'
<1>1. /\ TypeInv /\ pc[m] \in {"born", "done"} /\ run[m].child = "none" /\ run[m].kind = "totality"
      /\ ~run[m].alive /\ m # a /\ m \in Actors /\ m # 0
    BY SupervisorAt DEF TriggerIInv, HandsFit, HandFits, SettingUp
<1>2. RunsFit'
    <2> SUFFICES ASSUME NEW r \in Runs PROVE RunFits(r)'
        BY DEF RunsFit
    <2>1. Numbered(r) /\ ChildKnown(r) /\ HoldsSession(r) /\ RecoversOnce(r) /\ r \in Actors /\ r # 0
        BY SupervisorAt
    <2>2. CASE r = m
        <3>1. Numbered(r)' /\ ChildKnown(r)'
            BY <1>1, <2>1, <2>2 DEF Numbered, ChildKnown, Holding, Supervised, Childless, Live
        <3>2. HoldsSession(r)' /\ RecoversOnce(r)'
            BY <2>2 DEF HoldsSession, RecoversOnce, Holding, ToRecovery
        <3>3. QED
            BY <3>1, <3>2 DEF RunFits
    <2>3. CASE r = a
        <3>1. Numbered(r)' /\ ChildKnown(r)'
            BY <2>1, <2>3 DEF Numbered, ChildKnown, Holding, Supervised, Childless, Live, SettingUp
        <3>2. HoldsSession(r)' /\ RecoversOnce(r)'
            BY <2>3 DEF HoldsSession, RecoversOnce, Holding, ToRecovery
        <3>3. QED
            BY <3>1, <3>2 DEF RunFits
    <2>4. CASE r # m /\ r # a
        <3>1. pc'[r] = pc[r]
            BY <2>1, <2>4
        <3>2. HoldsSession(r)'
            BY <2>1, <2>4, <3>1 DEF HoldsSession, Leased
        <3>3. QED
            BY <2>1, <3>1, <3>2 DEF RunFits, Numbered, ChildKnown, RecoversOnce, Live
    <2>5. QED
        BY <2>2, <2>3, <2>4
<1>3. ASSUME NEW b \in Actors \ {a}, pc'[b] \in SettingUp
      PROVE  pc[b] \in SettingUp /\ pc'[b] = pc[b] /\ mine[b] # m /\ mine[b] # a /\ b # m
    <2>1. b # m
        BY <1>1, <1>3 DEF SettingUp
    <2>2. pc'[b] = pc[b]
        BY <2>1
    <2>3. pc[mine[b]] \in {"born", "done"}
        BY <1>3, <2>2 DEF TriggerIInv, HandsFit, HandFits
    <2>4. QED
        BY <1>1, <1>3, <2>1, <2>2, <2>3 DEF TriggerIInv, HandsApart, SettingUp
<1>4. HandsFit'
    <2> SUFFICES ASSUME NEW b \in Actors, pc'[b] \in SettingUp PROVE HandFits(b)'
        BY DEF HandsFit, HandFits, SettingUp
    <2>1. CASE b = a
        BY <1>1, <2>1 DEF HandFits, SettingUp
    <2>2. CASE b # a
        <3>1. pc[b] \in SettingUp /\ pc'[b] = pc[b] /\ mine[b] # m /\ mine[b] # a
            BY <1>3, <2>2
        <3>2. HandFits(b) /\ mine[b] \in Runs /\ mine[b] \in Actors /\ mine[b] # 0
            BY <3>1, SupervisorAt DEF TriggerIInv, HandsFit, HandFits
        <3>3. pc'[mine[b]] = pc[mine[b]]
            BY <3>1, <3>2
        <3>4. QED
            BY <3>1, <3>2, <3>3 DEF HandFits
    <2>3. QED
        BY <2>1, <2>2
<1>5. HandsApart'
    <2>1. \A b \in Actors \ {a} : pc'[b] \in SettingUp => pc[b] \in SettingUp /\ mine[b] # m
        BY <1>3
    <2>2. QED
        BY <2>1 DEF TriggerIInv, HandsApart
<1>6. StepsTyped'
    <2>1. Requests \cap Runs = {} /\ StepsTyped
        BY <1>1, ConstantsAssumption, TypesApart
    <2>2. QED
        BY <1>1, <2>1 DEF StepsTyped, Actors, RequestSteps, RunSteps
<1>7. RunsTyped'
    BY <1>1, TypeFrames
<1>8. QED
    BY <1>2, <1>4, <1>5, <1>6, <1>7

\* The run that an emergency start admitted: its session, its journal entry and its supervisor, or its end
LEMMA SetUpKeeps ==
    ASSUME TriggerIInv, NEW a \in Actors,
           EmergencyPrepare(a) \/ EmergencyLaunch(a) \/ EmergencyFails(a) \/ EmergencyRollback(a)
    PROVE  TriggerIInv'
<1>1. pc[a] \in SettingUp
    BY DEF EmergencyPrepare, EmergencyLaunch, EmergencyFails, EmergencyRollback, SettingUp
<1>2. PICK m \in Runs : m = mine[a]
    BY <1>1 DEF TriggerIInv, HandsFit, HandFits
<1>3. /\ TypeInv /\ StepsKnown /\ pc[m] = (IF pc[a] = "rollback" THEN "done" ELSE "born") /\ m # a
      /\ run[m] \in RunRecord /\ m \in Actors /\ (pc[a] = "launch" => lease = m) /\ lease \in {0, Unclosed} \cup Runs
    BY <1>1, <1>2, SupervisorAt, RequestAt DEF TriggerIInv, HandsFit, HandFits, SettingUp
<1>4. UNCHANGED <<run, runs, mine, target, reply, asked>>
    BY DEF EmergencyPrepare, EmergencyLaunch, EmergencyFails, EmergencyRollback, requestVars
<1>5. /\ StepsKnown' /\ \A b \in Actors \ {a, m} : pc'[b] = pc[b]
      /\ pc'[a] \in {"launch", "rollback", "done"} \/ (pc'[a] = "conclude" /\ a \in Runs)
      /\ pc'[m] \in {"born", "check", "done"}
      /\ pc'[m] = "check" => lease' = m
      /\ pc'[a] = "launch" => lease' = m /\ pc'[m] = "born"
      /\ pc'[a] = "rollback" => pc'[m] = "done"
      /\ UNCHANGED lease \/ lease = 0 \/ lease = m
      /\ lease' \in {0, Unclosed} \cup Runs
    <2>1. CASE EmergencyPrepare(a)
        <3>1. pc[a] = "prepare" /\ pc' = [pc EXCEPT ![a] = "launch"] /\ lease' = m /\ lease = 0
            BY <1>2, <2>1 DEF EmergencyPrepare, Goto, MayLease, Leased
        <3>2. StepsKnown'
            BY <1>3, <3>1 DEF StepsKnown, RequestSteps
        <3>3. QED
            BY <1>3, <3>1, <3>2 DEF StepsKnown
    <2>2. CASE EmergencyLaunch(a)
        <3>1. pc[a] = "launch" /\ pc' = [pc EXCEPT ![a] = "done", ![m] = "check"] /\ lease' = lease
            BY <1>2, <2>2 DEF EmergencyLaunch
        <3>2. StepsKnown'
            BY <1>3, <3>1 DEF StepsKnown, RequestSteps, RunSteps
        <3>3. QED
            BY <1>3, <3>1, <3>2 DEF StepsKnown
    <2>3. CASE EmergencyFails(a)
        <3>1. pc' = [pc EXCEPT ![a] = "rollback", ![m] = "done"] /\ lease' = lease
            BY <1>2, <2>3 DEF EmergencyFails
        <3>2. StepsKnown'
            BY <1>3, <3>1 DEF StepsKnown, RequestSteps
        <3>3. QED
            BY <1>3, <3>1, <3>2 DEF StepsKnown
    <2>4. CASE EmergencyRollback(a)
        <3>1. PICK step \in {"done", "conclude"} :
                  pc' = [pc EXCEPT ![a] = step] /\ (step = "conclude" => a \in Runs)
            BY <2>4 DEF EmergencyRollback, Leave, Goto, Recovering
        <3>2. pc[a] = "rollback" /\ (UNCHANGED lease \/ lease = m) /\ lease' \in {0, lease, Unclosed}
            BY <1>2, <2>4 DEF EmergencyRollback, CloseLease
        <3>3. StepsKnown'
            BY <1>3, <3>1 DEF StepsKnown, RequestSteps, RunSteps
        <3>4. QED
            BY <1>3, <3>1, <3>2, <3>3 DEF StepsKnown
    <2>5. QED
        BY <2>1, <2>2, <2>3, <2>4
<1>6. RunsFit' /\ HandsFit' /\ HandsApart' /\ StepsTyped' /\ RunsTyped'
    <2>1. UNCHANGED <<run, runs, mine>>
        BY <1>4
    <2>2. QED
        BY <1>1, <1>2, <1>5, <2>1, HandMoves
<1>7. rig' \in RigRecord /\ rig'.procs = rig.procs
    BY <1>2, RequestAt
    DEF EmergencyPrepare, EmergencyLaunch, EmergencyFails, EmergencyRollback, RigRecord
<1>8. published' \in ShownRecord
    <2>1. \/ published' = published \/ published' = [running |-> TRUE, phase |-> "recovering"]
          \/ published' = [running |-> TRUE, phase |-> "totality_override"]
          \/ published' = [running |-> FALSE, phase |-> "idle"]
        BY DEF EmergencyPrepare, EmergencyLaunch, EmergencyFails, EmergencyRollback, Show, ShownAtLaunch,
               shownVars
    <2>2. /\ [running |-> TRUE, phase |-> "recovering"] \in ShownRecord
          /\ [running |-> TRUE, phase |-> "totality_override"] \in ShownRecord
          /\ [running |-> FALSE, phase |-> "idle"] \in ShownRecord
        BY DEF ShownRecord
    <2>3. QED
        BY <2>1, <2>2, RequestAt
<1>9. journal' \in EntryRecord
    <2>1. \/ journal' = journal \/ journal' = [journal EXCEPT !.status = "failed"]
          \/ journal' = [id |-> m, status |-> "active", recovered |-> FALSE]
          \/ journal' = [id |-> m, status |-> "failed", recovered |-> FALSE]
        BY <1>2 DEF EmergencyPrepare, EmergencyLaunch, EmergencyFails, EmergencyRollback, JournalBegin,
               JournalFinish, shownVars
    <2>2. /\ [id |-> m, status |-> "active", recovered |-> FALSE] \in EntryRecord
          /\ [id |-> m, status |-> "failed", recovered |-> FALSE] \in EntryRecord
        BY DEF EntryRecord
    <2>3. journal \in EntryRecord /\ [journal EXCEPT !.status = "failed"] \in EntryRecord
        BY RequestAt DEF EntryRecord
    <2>4. QED
        BY <2>1, <2>2, <2>3
<1>10. RigTyped' /\ ShownTyped' /\ RequestsTyped'
    BY <1>3, <1>4, <1>5, <1>7, <1>8, <1>9, TypeFrames DEF RigTyped, ShownTyped
<1>11. CountsTyped'
    <2>1. UNCHANGED faults \/ Fault
        BY DEF EmergencyPrepare, EmergencyLaunch, EmergencyFails, EmergencyRollback, CloseLease, Fault
    <2>2. QED
        BY <1>3, <1>4, <2>1, FaultsTyped
<1>12. HandleCreated'
    <2>1. rig'.procs \in {0, rig.procs} /\ (\A r \in Runs : run[r].child # "none" => run'[r].child # "none")
        BY <1>4, <1>7
    <2>2. QED
        BY <1>3, <1>4, <1>7, <2>1, HandleKeeps
<1>13. QED
    BY <1>5, <1>6, <1>10, <1>11, <1>12, TypesTogether DEF TriggerIInv

-----------------------------------------------------------------------------
(* The theorems *)

\* The invariant holds at first.
LEMMA TriggerStarts == Init => TriggerIInv
<1> SUFFICES ASSUME Init PROVE TriggerIInv
    OBVIOUS
<1>1. MaxRuns \in Nat /\ MaxFaults \in Nat /\ Requests \cap Runs = {} /\ 0 \notin Runs
    BY ConstantsAssumption DEF Runs
<1>2. TypeInv
    <2>1. RigTyped /\ HandleCreated
        BY DEF Init, RigTyped, RigRecord, HandleCreated
    <2>2. RunsTyped
        BY <1>1 DEF Init, RunsTyped, RunRecord, NewRun
    <2>3. StepsTyped
        BY <1>1 DEF Init, StepsTyped, Actors, RequestSteps, RunSteps
    <2>4. RequestsTyped
        BY DEF Init, RequestsTyped
    <2>5. ShownTyped
        BY DEF Init, ShownTyped, ShownRecord, EntryRecord
    <2>6. CountsTyped
        BY <1>1 DEF Init, CountsTyped
    <2>7. QED
        BY <2>1, <2>2, <2>3, <2>4, <2>5, <2>6, TypesApart
<1>3. StepsKnown
    BY DEF Init, StepsKnown, RequestSteps, RunSteps
<1>4. RunsFit
    <2> SUFFICES ASSUME NEW r \in Runs PROVE RunFits(r)
        BY DEF RunsFit
    <2>1. r \in Actors /\ r \notin Requests /\ r > 0
        BY <1>1 DEF Actors, Runs
    <2>2. pc[r] = "unborn" /\ run[r] = NewRun /\ runs = 0
        BY <2>1 DEF Init
    <2>3. QED
        BY <2>1, <2>2 DEF RunFits, Numbered, ChildKnown, HoldsSession, RecoversOnce, NewRun, Live, Holding,
                          Supervised, Childless, ToRecovery
<1>5. \A a \in Actors : pc[a] \notin SettingUp
    BY DEF Init, SettingUp
<1>6. HandsFit /\ HandsApart
    BY <1>5 DEF HandsFit, HandFits, HandsApart, SettingUp
<1>7. QED
    BY <1>2, <1>3, <1>4, <1>6 DEF TriggerIInv

\* Every step keeps the invariant.
LEMMA TriggerStep == TriggerIInv /\ [Next]_vars => TriggerIInv'
<1> SUFFICES ASSUME TriggerIInv, [Next]_vars PROVE TriggerIInv'
    OBVIOUS
<1>1. CASE UNCHANGED vars
    <2>1. TypeInv'
        BY <1>1 DEF TriggerIInv, TypeInv, vars, requestVars, shownVars
    <2>2. UNCHANGED <<rig, run, runs, pc, mine, lease>>
        BY <1>1 DEF vars, requestVars
    <2>3. StepsKnown' /\ RunsFit' /\ HandsFit' /\ HandsApart'
        BY <2>2, ChildrenChange
    <2>4. QED
        BY <2>1, <2>3 DEF TriggerIInv
<1>2. ASSUME NEW q \in Requests, Start(q) \/ Stop(q) PROVE TriggerIInv'
    BY <1>2, RefusalKeeps, StartKeeps, StopKeeps DEF Start
<1>3. ASSUME NEW a \in Actors, Emergency(a) PROVE TriggerIInv'
    BY <1>3, OverrideKeeps, ClaimKeeps, SetUpKeeps DEF Emergency
<1>4. ASSUME NEW r \in Runs, Supervisor(r) PROVE TriggerIInv'
    BY <1>4, WatchingKeeps, BooksKeep, WritingKeeps DEF Supervisor
<1>5. ASSUME NEW r \in Runs, Child(r) PROVE TriggerIInv'
    BY <1>5, ChildStepKeeps
<1>6. QED
    BY <1>1, <1>2, <1>3, <1>4, <1>5 DEF Next

\* The invariant holds throughout.
LEMMA TriggerAlways == Spec => []TriggerIInv
BY TriggerStarts, TriggerStep, PTL DEF Spec

\* The service's maps, the runs, the requests, the camera session, what is shown and the journal keep
\* their types, no run is recovered twice, and the handle that a STOP signals belongs to a process,
\* whatever requests meet (trigger_service.py).
THEOREM TriggerTypes == Spec => []TypeInv
<1>1. TriggerIInv => TypeInv
    BY DEF TriggerIInv
<1>2. QED
    BY <1>1, TriggerAlways, PTL

\* One scheduler drives the camera: of two children that are alive and need it, one is abandoned by a
\* supervisor that could not kill it, for any requests that meet and any number of runs and faults
\* (trigger_service.py, with the sessions of camera_worker_runtime.py).
THEOREM CameraHasOneScheduler == Spec => []OneScheduler
<1>1. TriggerIInv => OneScheduler
    <2> SUFFICES ASSUME TriggerIInv, NEW r \in Runs \ Abandoned, NEW s \in Runs \ Abandoned,
                        r # s, Live(r), Live(s), Leased(run[r].kind), Leased(run[s].kind)
                 PROVE  FALSE
        BY DEF OneScheduler
    <2>1. ASSUME NEW t \in Runs \ Abandoned, Live(t), Leased(run[t].kind) PROVE lease = t
        <3>1. ChildKnown(t) /\ HoldsSession(t) /\ ~run[t].alive
            BY SupervisorAt DEF Abandoned
        <3>2. QED
            BY <2>1, <3>1 DEF ChildKnown, HoldsSession
    <2>2. lease = r /\ lease = s
        BY <2>1
    <2>3. QED
        BY <2>2
<1>2. QED
    BY <1>1, TriggerAlways, PTL

-----------------------------------------------------------------------------
(* Runs that do not cross: what a step does to the runs and to the flags.    *)

\* A START that is not refused as busy, and the claim of an emergency start
Begins(a) == \/ a \in Requests /\ (StartRejected(a) \/ StartAccepted(a) \/ StartBroken(a))
             \/ EmergencyClaim(a) /\ ~rig.starting

\* A step that crosses no runs (rig.crossed): what begins finds no other run under way and no child that
\* survived, no START leaves its flag, and no emergency start fails under a STOP.
RunsApart ==
    /\ \A a \in Actors : Begins(a) => \A r \in Runs \ {a} : pc[r] \in Finished /\ ~Live(r) /\ ~run[r].alive
    /\ \A q \in Requests : ~StartUnfrozen(q)
    /\ \A a \in Actors : EmergencyFails(a) => ~rig.manual

\* The steps of a run from its admission to Attach(), while its child is watched, and from
\* then on to its settlement
Starting == {"born", "check", "build", "handle", "attach"}
Watching == {"announce", "watch", "phase"}
Ending == {"abort", "close", "settle"}
Unsettled == Starting \cup Watching \cup Ending

\* What a calm step leaves of a run's record: its child is neither created nor revived.
CalmRecord(r) ==
    /\ run'[r].kind = run[r].kind /\ run'[r].attempt = run[r].attempt /\ run'[r].id = run[r].id
    /\ run'[r].manual = run[r].manual /\ run'[r].alive = run[r].alive
    /\ run'[r].child = "none" <=> run[r].child = "none"
    /\ Live(r)' => Live(r)

\* How a run moves in a calm step
CalmMove(from, to) ==
    \/ from = to
    \/ from = "check" /\ to = "build"
    \/ from \in {"check", "build", "attach", "abort"} \cup Watching /\ to \in {"abort", "close"}
    \/ from \in Watching /\ to \in Watching
    \/ from \in ToRecovery /\ to \in (ToRecovery \ {"note"}) \cup {"conclude"}

\* What the flags keep in a calm step: a STOP that found nothing to stop may take its own back.
CalmRig ==
    /\ rig'.procs = rig.procs /\ rig'.starting = rig.starting
    /\ rig'.manual = rig.manual /\ rig'.cancel = rig.cancel /\ (rig'.stopping => rig.stopping)

\* A calm step admits, launches, settles and concludes no run and accepts no STOP.
Calm ==
    /\ CalmRig /\ UNCHANGED <<runs, mine, lease, asked>>
    /\ journal'.id = journal.id /\ journal'.status = journal.status
    /\ \A r \in Runs : CalmRecord(r) /\ CalmMove(pc[r], pc'[r])
    /\ \A a \in Actors : pc[a] \in SettingUp \/ pc'[a] \in SettingUp => pc'[a] = pc[a]

\* The other steps, but for a START that leaves its flag
Major ==
    \/ \E q \in Requests : StartRejected(q) \/ StartAccepted(q) \/ StartBroken(q) \/ StopAccepted(q)
    \/ \E a \in Actors : \/ (EmergencyClaim(a) /\ ~rig.starting)
                         \/ EmergencyPrepare(a) \/ EmergencyLaunch(a) \/ EmergencyFails(a)
                         \/ EmergencyRollback(a)
    \/ \E r \in Runs : \/ Popen(r) \/ PublishHandle(r) \/ (Attach(r) /\ ~rig.cancel)
                       \/ CloseSession(r) \/ Settle(r) \/ Conclude(r)

\* A state of the service, as the lemmas below use it
LEMMA StateIs ==
    ASSUME TriggerIInv
    PROVE  /\ Runs \subseteq Nat \ {0} /\ Runs \subseteq Actors /\ Requests \subseteq Actors
           /\ Requests \cap Runs = {} /\ Actors = Requests \cup Runs
           /\ pc \in [Actors -> RequestSteps \cup RunSteps] /\ (\A q \in Requests : pc[q] \in RequestSteps)
           /\ (\A r \in Runs : pc[r] \in RunSteps)
           /\ rig \in RigRecord /\ run \in [Runs -> RunRecord] /\ runs \in 0 .. MaxRuns
           /\ mine \in [Actors -> {0} \cup Runs] /\ journal \in EntryRecord /\ lease \in {0, Unclosed} \cup Runs
           /\ asked \subseteq Runs
BY TypesApart, ConstantsAssumption
   DEF TriggerIInv, StepsKnown, Actors, Runs, RunsTyped, StepsTyped, RigTyped, RequestsTyped, ShownTyped, CountsTyped

\* A step in which one actor moves, and no run begins, is launched, settles or concludes, is calm.
LEMMA CalmWhen ==
    ASSUME TriggerIInv, NEW a \in Actors, NEW step, pc' = [pc EXCEPT ![a] = step],
           a \in Runs => CalmMove(pc[a], step), pc[a] \notin SettingUp, step \notin SettingUp,
           CalmRig, UNCHANGED <<runs, mine, lease, asked>>,
           journal'.id = journal.id, journal'.status = journal.status,
           \A r \in Runs : CalmRecord(r)
    PROVE  Calm
<1>1. pc'[a] = step /\ \A b \in Actors \ {a} : pc'[b] = pc[b]
    BY StateIs
<1>2. \A r \in Runs : CalmMove(pc[r], pc'[r])
    BY <1>1, StateIs DEF CalmMove
<1>3. QED
    BY <1>1, <1>2 DEF Calm

\* Records that stay are calm.
LEMMA CalmFrames ==
    /\ UNCHANGED run => \A r \in Runs : CalmRecord(r)
    /\ UNCHANGED rig => CalmRig
    /\ UNCHANGED journal => journal'.id = journal.id /\ journal'.status = journal.status
BY DEF CalmRecord, CalmRig, Live

\* What happens to one child is calm, unless it is created.
LEMMA CalmChild ==
    ASSUME TriggerIInv, NEW r \in Runs, NEW new, run' = [run EXCEPT ![r] = new],
           new.kind = run[r].kind, new.attempt = run[r].attempt, new.id = run[r].id,
           new.manual = run[r].manual, new.alive = run[r].alive, new.child = "none" <=> run[r].child = "none",
           new.child \in {"run", "hung", "stuck"} => run[r].child \in {"run", "hung", "stuck"}
    PROVE  \A s \in Runs : CalmRecord(s)
<1>1. run'[r] = new /\ (\A s \in Runs \ {r} : run'[s] = run[s]) /\ r # 0
    BY StateIs
<1>2. QED
    BY <1>1 DEF CalmRecord, Live

\* The supervisor's calm steps
LEMMA SupervisorCalm ==
    ASSUME TriggerIInv, NEW r \in Runs,
           \/ Check(r) \/ PopenFails(r) \/ (Attach(r) /\ rig.cancel) \/ SuperviseFails(r) \/ Abort(r)
           \/ Announce(r) \/ ReadPhase(r) \/ ShowPhase(r) \/ ReadEnd(r) \/ NoteRecovery(r)
    PROVE  Calm
<1> DEFINE Frame == UNCHANGED <<runs, mine, lease, asked>> /\ CalmRig
<1>1. r \in Actors /\ run[r] \in RunRecord /\ pc[r] \in RunSteps
    BY StateIs
<1>2. CASE Check(r) \/ Announce(r) \/ ReadPhase(r) \/ ShowPhase(r) \/ ReadEnd(r) \/ (Attach(r) /\ rig.cancel)
    <2>1. PICK step : pc' = [pc EXCEPT ![r] = step] /\ CalmMove(pc[r], step) /\ step \notin SettingUp
        BY <1>2 DEF Check, Announce, ReadPhase, ShowPhase, ReadEnd, Attach, Goto, CalmMove, Watching, SettingUp
    <2>2. pc[r] \notin SettingUp
        BY <1>2 DEF Check, Announce, ReadPhase, ShowPhase, ReadEnd, Attach, SettingUp
    <2>3. UNCHANGED <<rig, run, runs, mine, lease, asked, journal>>
        BY <1>2 DEF Check, Announce, ReadPhase, ShowPhase, ReadEnd, Attach, shownVars, requestVars
    <2>4. QED
        BY <1>1, <2>1, <2>2, <2>3, CalmFrames, CalmWhen
<1>3. CASE NoteRecovery(r)
    <2>1. PICK step \in {"look", "conclude"} : pc' = [pc EXCEPT ![r] = step]
        BY <1>3 DEF NoteRecovery, Goto
    <2>2. CalmMove(pc[r], step) /\ step \notin SettingUp /\ pc[r] \notin SettingUp
        BY <1>3, <2>1 DEF NoteRecovery, CalmMove, ToRecovery, SettingUp
    <2>3. journal'.id = journal.id /\ journal'.status = journal.status
        <3>1. journal' \in {journal, [journal EXCEPT !.recovered = TRUE]}
            BY <1>3 DEF NoteRecovery, shownVars
        <3>2. QED
            BY <3>1, StateIs DEF EntryRecord
    <2>4. UNCHANGED <<rig, run, runs, mine, lease, asked>>
        BY <1>3 DEF NoteRecovery, requestVars
    <2>5. QED
        BY <1>1, <2>1, <2>2, <2>3, <2>4, CalmFrames, CalmWhen
<1>4. CASE PopenFails(r) \/ SuperviseFails(r)
    <2>1. PICK step \in {"abort", "close"} : pc' = [pc EXCEPT ![r] = step]
        BY <1>4 DEF PopenFails, SuperviseFails, Goto
    <2>2. CalmMove(pc[r], step) /\ step \notin SettingUp /\ pc[r] \notin SettingUp
        BY <1>4, <2>1 DEF PopenFails, SuperviseFails, CalmMove, Watching, SettingUp
    <2>3. run' = [run EXCEPT ![r] = [run[r] EXCEPT !.error = TRUE]]
        BY <1>4 DEF PopenFails, SuperviseFails
    <2>4. \A s \in Runs : CalmRecord(s)
        BY <1>1, <2>3, CalmChild DEF RunRecord
    <2>5. UNCHANGED <<rig, runs, mine, lease, asked, journal>>
        BY <1>4 DEF PopenFails, SuperviseFails, requestVars, shownVars
    <2>6. QED
        BY <1>1, <2>1, <2>2, <2>4, <2>5, CalmFrames, CalmWhen
<1>5. CASE Abort(r)
    <2>1. pc' = [pc EXCEPT ![r] = "close"] /\ pc[r] = "abort"
        BY <1>5 DEF Abort, Goto
    <2>2. CalmMove("abort", "close") /\ "close" \notin SettingUp /\ "abort" \notin SettingUp
        BY DEF CalmMove, SettingUp
    <2>3. \A s \in Runs : CalmRecord(s)
        <3>1. CASE UNCHANGED run
            BY <3>1, CalmFrames
        <3>2. CASE ~UNCHANGED run
            <4>1. PICK code \in {"ok", "bad"} :
                      Live(r) /\ run' = [run EXCEPT ![r] = [run[r] EXCEPT !.child = Killed(run[r].child), !.code = code]]
                BY <1>5, <3>2 DEF Abort
            <4>2. QED
                BY <1>1, <4>1, CalmChild DEF RunRecord, Killed, Live
        <3>3. QED
            BY <3>1, <3>2
    <2>4. UNCHANGED <<rig, runs, mine, lease, asked, journal>>
        BY <1>5 DEF Abort, requestVars, shownVars
    <2>5. QED
        BY <1>1, <2>1, <2>2, <2>3, <2>4, CalmFrames, CalmWhen
<1>6. QED
    BY <1>2, <1>3, <1>4, <1>5

\* What happens to a child by itself, or by its watchdog, is calm.
LEMMA ChildCalm ==
    ASSUME TriggerIInv, NEW r \in Runs, Child(r)
    PROVE  Calm
<1>1. run[r] \in RunRecord
    BY StateIs
<1>2. UNCHANGED <<rig, runs, pc, mine, lease, asked, journal>>
    BY DEF Child, ChildExits, ChildHangs, HeartbeatTimeout, requestVars, shownVars
<1>3. \A s \in Runs : CalmRecord(s)
    <2>1. CASE ChildExits(r)
        <3>1. PICK code \in {"ok", "bad"} :
                  Live(r) /\ run' = [run EXCEPT ![r] = [run[r] EXCEPT !.child = "dead", !.code = code]]
            BY <2>1 DEF ChildExits
        <3>2. QED
            BY <1>1, <3>1, CalmChild DEF RunRecord, Live
    <2>2. CASE ChildHangs(r)
        <3>1. PICK how \in {"hung", "stuck"} :
                  run[r].child = "run" /\ run' = [run EXCEPT ![r] = [run[r] EXCEPT !.child = how]]
            BY <2>2 DEF ChildHangs
        <3>2. QED
            BY <1>1, <3>1, CalmChild DEF RunRecord
    <2>3. CASE HeartbeatTimeout(r)
        <3> DEFINE code == IF run[r].child = "stuck" THEN run[r].code ELSE "bad"
                   new == [run[r] EXCEPT !.silent = TRUE, !.child = Killed(run[r].child), !.code = code]
        <3>1. run[r].child \in {"hung", "stuck"} /\ run' = [run EXCEPT ![r] = new]
            BY <2>3 DEF HeartbeatTimeout
        <3>2. /\ new.kind = run[r].kind /\ new.attempt = run[r].attempt /\ new.id = run[r].id
              /\ new.manual = run[r].manual /\ new.alive = run[r].alive /\ new.child = Killed(run[r].child)
            BY <1>1 DEF RunRecord
        <3> HIDE DEF new
        <3>3. QED
            BY <3>1, <3>2, CalmChild DEF Killed
    <2>4. QED
        BY <2>1, <2>2, <2>3 DEF Child
<1>4. QED
    BY <1>2, <1>3, CalmFrames DEF Calm, CalmMove

\* A refused START, and every step of a STOP but the one that accepts it, are calm.
LEMMA RequestCalm ==
    ASSUME TriggerIInv, NEW q \in Requests,
           \/ StartRefused(q) \/ StopNothing(q) \/ StopCoalesced(q) \/ StopJoin(q) \/ StopDecide(q)
           \/ StopPublish(q) \/ StopSignal(q)
    PROVE  Calm
<1>1. q \in Actors /\ q \notin Runs /\ rig \in RigRecord
    BY StateIs
<1>2. PICK step : pc' = [pc EXCEPT ![q] = step] /\ step \in {"done", "decide", "publish", "signal"}
    BY DEF StartRefused, StopNothing, StopCoalesced, StopJoin, StopDecide, StopPublish, StopSignal, Goto, Answer
<1>3. pc[q] \in {"issue", "join", "decide", "publish", "signal"}
    BY DEF StartRefused, StopNothing, StopCoalesced, StopJoin, StopDecide, StopPublish, StopSignal, AtStart, AtStop
<1>4. CalmRig
    BY <1>1 DEF StartRefused, StopNothing, StopCoalesced, StopJoin, StopDecide, StopPublish, StopSignal, CalmRig,
                RigRecord
<1>5. UNCHANGED <<runs, mine, lease, asked, journal>>
    BY DEF StartRefused, StopNothing, StopCoalesced, StopJoin, StopDecide, StopPublish, StopSignal, requestVars,
           shownVars
<1>6. \A s \in Runs : CalmRecord(s)
    <2>1. CASE UNCHANGED run
        BY <2>1, CalmFrames
    <2>2. CASE ~UNCHANGED run
        <3>1. StopSignal(q) /\ Live(target[q]) /\ target[q] \in Runs
            <4>1. StopSignal(q)
                BY <2>2 DEF StartRefused, StopNothing, StopCoalesced, StopJoin, StopDecide, StopPublish
            <4>2. target[q] \in {0} \cup Runs
                BY TypesApart DEF TriggerIInv, RequestsTyped
            <4>3. QED
                BY <2>2, <4>1, <4>2 DEF StopSignal, Live
        <3> DEFINE r == target[q]
        <3>2. run[r] \in RunRecord
            BY <3>1, StateIs
        <3>3. \/ run' = [run EXCEPT ![r] = [run[r] EXCEPT !.termed = TRUE]]
              \/ \E code : run' = [run EXCEPT ![r] = [run[r] EXCEPT !.child = Killed(run[r].child), !.code = code]]
            BY <3>1 DEF StopSignal
        <3>4. CASE run' = [run EXCEPT ![r] = [run[r] EXCEPT !.termed = TRUE]]
            BY <3>1, <3>2, <3>4, CalmChild DEF RunRecord
        <3>5. ASSUME NEW code, run' = [run EXCEPT ![r] = [run[r] EXCEPT !.child = Killed(run[r].child), !.code = code]]
              PROVE  \A s \in Runs : CalmRecord(s)
            <4> DEFINE new == [run[r] EXCEPT !.child = Killed(run[r].child), !.code = code]
            <4>1. /\ new.kind = run[r].kind /\ new.attempt = run[r].attempt /\ new.id = run[r].id
                  /\ new.manual = run[r].manual /\ new.alive = run[r].alive /\ new.child = Killed(run[r].child)
                BY <3>2 DEF RunRecord
            <4>2. run' = [run EXCEPT ![r] = new]
                BY <3>5
            <4>3. run[r].child \in {"run", "hung", "stuck"}
                BY <3>1 DEF Live
            <4> HIDE DEF new
            <4>4. QED
                BY <3>1, <4>1, <4>2, <4>3, CalmChild DEF Killed
        <3>6. QED
            BY <3>3, <3>4, <3>5
    <2>3. QED
        BY <2>1, <2>2
<1>7. QED
    BY <1>1, <1>2, <1>3, <1>4, <1>5, <1>6, CalmFrames, CalmWhen DEF SettingUp

\* The steps of an emergency start that admit nothing are calm.
LEMMA EmergencyCalm ==
    ASSUME TriggerIInv, NEW a \in Actors,
           EmergencyLook(a) \/ Override(a) \/ ShowOverride(a) \/ (EmergencyClaim(a) /\ rig.starting)
    PROVE  Calm
<1>1. PICK step : pc' = [pc EXCEPT ![a] = step] /\ step \in {"override", "overridden", "claim", "conclude", "done"}
                  /\ (a \in Runs => step # "done")
    BY DEF EmergencyLook, Override, ShowOverride, EmergencyClaim, Leave, Goto, Recovering
<1>2. /\ pc[a] \in {"look", "override", "overridden", "claim", "issue"}
      /\ a \in Runs => pc[a] # "issue"
    BY StateIs DEF EmergencyLook, Override, ShowOverride, EmergencyClaim
<1>3. UNCHANGED <<run, runs, mine, lease, asked, journal>> /\ CalmRig
    BY StateIs DEF EmergencyLook, Override, ShowOverride, EmergencyClaim, requestVars, shownVars, CalmRig, RigRecord
<1>4. QED
    BY <1>1, <1>2, <1>3, CalmFrames, CalmWhen DEF SettingUp, CalmMove, ToRecovery

\* Every step is calm or one of those that matter.
LEMMA StepKinds ==
    ASSUME TriggerIInv, [Next]_vars
    PROVE  Calm \/ Major \/ \E q \in Requests : StartUnfrozen(q)
<1>1. CASE UNCHANGED vars
    <2>1. UNCHANGED <<rig, run, runs, pc, mine, lease, asked, journal>>
        BY <1>1 DEF vars, requestVars, shownVars
    <2>2. QED
        BY <2>1, CalmFrames DEF Calm, CalmMove
<1>2. ASSUME NEW q \in Requests, Start(q) \/ Stop(q) PROVE Calm \/ Major \/ StartUnfrozen(q)
    BY <1>2, RequestCalm DEF Start, Stop, Major
<1>3. ASSUME NEW a \in Actors, Emergency(a) PROVE Calm \/ Major
    BY <1>3, EmergencyCalm DEF Emergency, Major
<1>4. ASSUME NEW r \in Runs, Supervisor(r) PROVE Calm \/ Major
    BY <1>4, SupervisorCalm DEF Supervisor, Major
<1>5. ASSUME NEW r \in Runs, Child(r) PROVE Calm \/ Major
    BY <1>5, ChildCalm
<1>6. QED
    BY <1>1, <1>2, <1>3, <1>4, <1>5 DEF Next

\* A step that is not calm changes something, so that it is apart where the steps are.
LEMMA MajorSteps ==
    ASSUME TriggerIInv, [Next]_vars, [RunsApart]_vars, ~Calm
    PROVE  Major /\ RunsApart
<1>1. ~UNCHANGED vars
    <2> SUFFICES ASSUME UNCHANGED vars PROVE Calm
        OBVIOUS
    <2>1. UNCHANGED <<rig, run, runs, pc, mine, lease, asked, journal>>
        BY DEF vars, requestVars, shownVars
    <2>2. QED
        BY <2>1, CalmFrames DEF Calm, CalmMove
<1>2. QED
    BY <1>1, StepKinds DEF RunsApart

-----------------------------------------------------------------------------
(* What each of the other steps does *)

\* Actor a goes to a step, and the others stay where they are.
Moves(a, step) == pc'[a] = step /\ \A b \in Actors \ {a} : pc'[b] = pc[b]
\* The flags beside the startup's
HandleStays == rig'.procs = rig.procs
FlagsReset == ~rig'.manual /\ ~rig'.cancel /\ rig'.stopping = rig.stopping /\ HandleStays
\* The run that is admitted
New == runs + 1
\* Actor a goes to a step and the run is admitted at another one.
Admits(a, there, kind, attempt, id, step) ==
    /\ New \in Runs /\ runs' = New /\ pc[New] = "unborn" /\ run[New] = NewRun /\ a # New
    /\ pc'[a] = there /\ pc'[New] = step /\ \A b \in Actors \ {a, New} : pc'[b] = pc[b]
    /\ run'[New].kind = kind /\ run'[New].attempt = attempt /\ run'[New].id = id
    /\ run'[New].child = "none" /\ ~run'[New].alive /\ ~run'[New].manual
    /\ \A s \in Runs \ {New} : run'[s] = run[s]

LEMMA MovesTo ==
    ASSUME TriggerIInv, NEW a \in Actors, NEW step, pc' = [pc EXCEPT ![a] = step]
    PROVE  Moves(a, step)
BY StateIs DEF Moves

LEMMA AdmitIs ==
    ASSUME TriggerIInv, NEW a \in Actors, NEW there, NEW kind, NEW attempt, NEW id, NEW step,
           Admit(a, there, kind, attempt, id, step), pc[a] # "unborn"
    PROVE  Admits(a, there, kind, attempt, id, step)
<1>1. runs \in 0 .. MaxRuns /\ runs < MaxRuns /\ runs' = New /\ MaxRuns \in Nat
    BY StateIs, ConstantsAssumption DEF Admit, New
<1>2. New \in Runs /\ New \in Actors
    BY <1>1 DEF New, Runs, Actors
<1>3. pc[New] = "unborn" /\ run[New] = NewRun
    BY <1>1, <1>2 DEF TriggerIInv, RunsFit, RunFits, Numbered, New, Runs
<1>4. pc' = [pc EXCEPT ![a] = there, ![New] = step]
    BY DEF Admit, New
<1>5. run' = [run EXCEPT ![New] = [NewRun EXCEPT !.kind = kind, !.attempt = attempt, !.id = id]]
    BY DEF Admit, New
<1>6. /\ pc'[a] = there /\ pc'[New] = step /\ \A b \in Actors \ {a, New} : pc'[b] = pc[b]
    BY <1>2, <1>3, <1>4, StateIs
<1>7. /\ run'[New] = [NewRun EXCEPT !.kind = kind, !.attempt = attempt, !.id = id]
      /\ \A s \in Runs \ {New} : run'[s] = run[s]
    BY <1>2, <1>5, StateIs
<1> HIDE DEF New
<1>8. QED
    BY <1>1, <1>2, <1>3, <1>6, <1>7 DEF Admits, NewRun

\* A START that is rejected clears the flags of earlier STOPs.
LEMMA RejectIs ==
    ASSUME TriggerIInv, NEW q \in Requests, StartRejected(q)
    PROVE  /\ Moves(q, "done") /\ pc[q] = "issue" /\ q \notin Runs /\ ~rig.starting /\ ~rig'.starting /\ FlagsReset
           /\ UNCHANGED <<run, runs, mine, lease, journal, asked, published>>
           /\ RunsApart => \A r \in Runs : pc[r] \in Finished /\ ~Live(r) /\ ~run[r].alive
<1>1. pc' = [pc EXCEPT ![q] = "done"] /\ pc[q] = "issue" /\ q \in Actors /\ q \notin Runs
    BY StateIs DEF StartRejected, AtStart, Goto
<1>2. Moves(q, "done")
    BY <1>1, MovesTo
<1>3. ~rig.starting /\ ~rig'.starting /\ FlagsReset
    BY StateIs DEF StartRejected, Busy, FlagsReset, HandleStays, RigRecord
<1>4. UNCHANGED <<run, runs, mine, lease, journal, asked, published>>
    BY DEF StartRejected, requestVars, shownVars
<1>5. Begins(q) /\ q \in Actors
    BY <1>1 DEF Begins
<1>6. QED
    BY <1>1, <1>2, <1>3, <1>4, <1>5 DEF RunsApart

\* A START that raises leaves its flag, and the histories say so.
LEMMA UnfrozenIs ==
    ASSUME TriggerIInv, NEW q \in Requests, StartUnfrozen(q)
    PROVE  /\ Moves(q, "done") /\ pc[q] = "issue" /\ q \notin Runs /\ FlagsReset
           /\ rig'.unfrozen /\ rig'.crossed /\ UNCHANGED <<run, runs, mine, lease, journal, asked, published>>
<1>1. Moves(q, "done") /\ q \notin Runs
    BY StateIs, MovesTo DEF StartUnfrozen, Goto
<1>2. QED
    BY <1>1, StateIs
    DEF StartUnfrozen, AtStart, FlagsReset, HandleStays, RigRecord, requestVars, shownVars

\* A START that is accepted admits a run, which its supervisor works for.
LEMMA AcceptIs ==
    ASSUME TriggerIInv, NEW q \in Requests, StartAccepted(q)
    PROVE  /\ Admits(q, "done", Kind[q], 0, Journaled(Kind[q], New), "check")
           /\ pc[q] = "issue" /\ q \notin Runs /\ ~rig.starting /\ rig'.starting /\ FlagsReset
           /\ lease' = (IF Leased(Kind[q]) THEN New ELSE lease) /\ (Leased(Kind[q]) => lease = 0)
           /\ journal' = JournalBegin(Journaled(Kind[q], New))
           /\ Kind[q] \in Modes
           /\ UNCHANGED <<mine, asked>>
           /\ RunsApart => \A r \in Runs : pc[r] \in Finished /\ ~Live(r) /\ ~run[r].alive
<1>1. pc[q] = "issue" /\ q \in Actors /\ q \notin Runs /\ Kind[q] \in Modes
    BY StateIs DEF StartAccepted, AtStart
<1>2. Admits(q, "done", Kind[q], 0, Journaled(Kind[q], New), "check")
    BY <1>1, AdmitIs DEF StartAccepted, New
<1>3. ~rig.starting /\ rig'.starting /\ FlagsReset
    BY StateIs DEF StartAccepted, Busy, FlagsReset, HandleStays, RigRecord
<1>4. /\ lease' = (IF Leased(Kind[q]) THEN New ELSE lease) /\ (Leased(Kind[q]) => lease = 0)
      /\ journal' = JournalBegin(Journaled(Kind[q], New)) /\ UNCHANGED <<mine, asked>>
    BY DEF StartAccepted, MayLease, New, requestVars
<1>5. Begins(q) /\ q \in Actors
    BY <1>1 DEF Begins
<1>6. QED
    BY <1>1, <1>2, <1>3, <1>4, <1>5 DEF RunsApart

\* A START whose supervisor cannot be started leaves a run that is over.
LEMMA BrokenIs ==
    ASSUME TriggerIInv, NEW q \in Requests, StartBroken(q)
    PROVE  /\ Admits(q, "done", Kind[q], 0, Journaled(Kind[q], New), "done")
           /\ pc[q] = "issue" /\ q \notin Runs /\ ~rig.starting /\ ~rig'.starting /\ FlagsReset
           /\ journal' = IF Journaled(Kind[q], New) = 0 THEN journal
                         ELSE [id |-> Journaled(Kind[q], New), status |-> "failed", recovered |-> FALSE]
           /\ Kind[q] \in Modes /\ ~published'.running
           /\ UNCHANGED <<mine, asked>> /\ (lease' = lease \/ (lease = 0 /\ lease' = Unclosed))
           /\ RunsApart => \A r \in Runs : pc[r] \in Finished /\ ~Live(r) /\ ~run[r].alive
<1>1. pc[q] = "issue" /\ q \in Actors /\ q \notin Runs /\ Kind[q] \in Modes
    BY StateIs DEF StartBroken, AtStart
<1>2. Admits(q, "done", Kind[q], 0, Journaled(Kind[q], New), "done")
    BY <1>1, AdmitIs DEF StartBroken, New
<1>3. ~rig.starting /\ ~rig'.starting /\ FlagsReset
    BY StateIs DEF StartBroken, Busy, FlagsReset, HandleStays, RigRecord
<1>4. /\ journal' = IF Journaled(Kind[q], New) = 0 THEN journal
                    ELSE [id |-> Journaled(Kind[q], New), status |-> "failed", recovered |-> FALSE]
      /\ ~published'.running /\ UNCHANGED <<mine, asked>>
      /\ lease' = lease \/ (lease = 0 /\ lease' = Unclosed)
    BY DEF StartBroken, New, requestVars, Show, MayLease
<1>5. Begins(q) /\ q \in Actors
    BY <1>1 DEF Begins
<1>6. QED
    BY <1>1, <1>2, <1>3, <1>4, <1>5 DEF RunsApart

\* The claim of an emergency start admits a run that waits to be set up.
LEMMA ClaimIs ==
    ASSUME TriggerIInv, NEW a \in Actors, EmergencyClaim(a), ~rig.starting
    PROVE  /\ Admits(a, "prepare", "totality", IF a \in Runs THEN run[a].attempt + 1 ELSE 0,
                      IF a \in Runs THEN run[a].id ELSE New, "born")
           /\ pc[a] = "claim" /\ rig'.starting /\ FlagsReset
           /\ mine'[a] = New /\ (\A b \in Actors \ {a} : mine'[b] = mine[b])
           /\ UNCHANGED <<lease, journal, asked, published>>
           /\ RunsApart => \A r \in Runs \ {a} : pc[r] \in Finished /\ ~Live(r) /\ ~run[r].alive
<1>1. pc[a] = "claim"
    BY DEF EmergencyClaim
<1>2. Admits(a, "prepare", "totality", IF a \in Runs THEN run[a].attempt + 1 ELSE 0,
             IF a \in Runs THEN run[a].id ELSE New, "born")
    BY <1>1, AdmitIs DEF EmergencyClaim, Recovering, New
<1>3. rig'.starting /\ FlagsReset
    <2>1. PICK crossed \in BOOLEAN :
              rig' = [rig EXCEPT !.starting = TRUE, !.suppressed = TRUE, !.manual = FALSE, !.cancel = FALSE,
                                 !.crossed = crossed]
        <3>1. (rig.crossed \/ \E r \in Runs \ {a} : NeedsFlags(r)) \in BOOLEAN
            BY StateIs DEF RigRecord
        <3>2. QED
            BY <3>1 DEF EmergencyClaim
    <2>2. rig \in RigRecord
        BY StateIs
    <2>3. QED
        BY <2>1, <2>2 DEF FlagsReset, HandleStays, RigRecord
<1>4. mine'[a] = New /\ (\A b \in Actors \ {a} : mine'[b] = mine[b])
    BY StateIs DEF EmergencyClaim, New
<1>5. UNCHANGED <<lease, journal, asked, published>>
    BY DEF EmergencyClaim, shownVars
<1>6. Begins(a)
    BY DEF Begins
<1>7. QED
    BY <1>1, <1>2, <1>3, <1>4, <1>5, <1>6 DEF RunsApart

\* The flags that the lemmas follow stay.
FlagsStay == /\ HandleStays /\ rig'.starting = rig.starting /\ rig'.manual = rig.manual
             /\ rig'.cancel = rig.cancel /\ rig'.stopping = rig.stopping
\* What stays of a run's record when its child changes or its supervisor writes what it learnt
SameOrigin(r) ==
    /\ run'[r].kind = run[r].kind /\ run'[r].attempt = run[r].attempt /\ run'[r].id = run[r].id

\* Popen() creates the child.
LEMMA PopenIs ==
    ASSUME TriggerIInv, NEW r \in Runs, Popen(r)
    PROVE  /\ Moves(r, "handle") /\ pc[r] = "build" /\ FlagsStay
           /\ SameOrigin(r) /\ run'[r].child = "run" /\ run'[r].alive = run[r].alive /\ run'[r].manual = run[r].manual
           /\ \A s \in Runs \ {r} : run'[s] = run[s]
           /\ UNCHANGED <<runs, mine, lease, journal, asked, published>>
<1>1. Moves(r, "handle")
    BY StateIs, MovesTo DEF Popen, Goto
<1>2. /\ SameOrigin(r) /\ run'[r].child = "run" /\ run'[r].alive = run[r].alive /\ run'[r].manual = run[r].manual
      /\ \A s \in Runs \ {r} : run'[s] = run[s]
    <2>1. run[r] \in RunRecord /\ run \in [Runs -> RunRecord]
        BY StateIs
    <2>2. run' = [run EXCEPT ![r] = [run[r] EXCEPT !.child = "run", !.fed = rig.inputs]]
        BY DEF Popen
    <2>3. run'[r] = [run[r] EXCEPT !.child = "run", !.fed = rig.inputs] /\ \A s \in Runs \ {r} : run'[s] = run[s]
        BY <2>1, <2>2
    <2>4. QED
        BY <2>1, <2>3 DEF SameOrigin, RunRecord
<1>3. pc[r] = "build" /\ FlagsStay /\ UNCHANGED <<runs, mine, lease, journal, asked, published>>
    BY DEF Popen, FlagsStay, HandleStays, requestVars, shownVars
<1>4. QED
    BY <1>1, <1>2, <1>3

\* The handle of the child is published, and the startup ends unless it was cancelled.
LEMMA HandleIs ==
    ASSUME TriggerIInv, NEW r \in Runs, PublishHandle(r)
    PROVE  /\ Moves(r, "attach") /\ pc[r] = "handle" /\ rig'.procs = r
           /\ rig'.starting = rig.starting /\ rig'.manual = rig.manual
           /\ rig'.cancel = rig.cancel /\ rig'.stopping = rig.stopping
           /\ UNCHANGED <<run, runs, mine, lease, journal, asked, published>>
<1>1. Moves(r, "attach")
    BY StateIs, MovesTo DEF PublishHandle, Goto
<1>2. QED
    BY <1>1, StateIs DEF PublishHandle, RigRecord, requestVars, shownVars

LEMMA AttachIs ==
    ASSUME TriggerIInv, NEW r \in Runs, Attach(r), ~rig.cancel
    PROVE  /\ Moves(r, "announce") /\ pc[r] = "attach" /\ ~rig'.starting /\ HandleStays
           /\ rig'.manual = rig.manual /\ rig'.cancel = rig.cancel /\ rig'.stopping = rig.stopping
           /\ UNCHANGED <<run, runs, mine, lease, journal, asked, published>>
<1>1. Moves(r, "announce")
    BY StateIs, MovesTo DEF Attach, Goto
<1>2. QED
    BY <1>1, StateIs DEF Attach, RigRecord, HandleStays, requestVars, shownVars

\* The camera session is closed, and a child that is still alive is known to survive.
LEMMA CloseIs ==
    ASSUME TriggerIInv, NEW r \in Runs, CloseSession(r)
    PROVE  /\ Moves(r, "settle") /\ pc[r] = "close" /\ FlagsStay
           /\ SameOrigin(r) /\ run'[r].child = run[r].child /\ run'[r].alive = Live(r) /\ run'[r].manual = run[r].manual
           /\ \A s \in Runs \ {r} : run'[s] = run[s]
           /\ lease' = lease \/ (lease = r /\ lease' \in {0, Unclosed})
           /\ lease' # r
           /\ UNCHANGED <<runs, mine, journal, asked, published>>
<1>1. Moves(r, "settle")
    BY StateIs, MovesTo DEF CloseSession, Goto
<1>2. /\ SameOrigin(r) /\ run'[r].child = run[r].child /\ run'[r].alive = Live(r) /\ run'[r].manual = run[r].manual
      /\ \A s \in Runs \ {r} : run'[s] = run[s]
    <2>1. run[r] \in RunRecord /\ run \in [Runs -> RunRecord]
        BY StateIs
    <2>2. PICK safe \in BOOLEAN : run' = [run EXCEPT ![r] = [run[r] EXCEPT !.alive = Live(r), !.safe = safe]]
        BY DEF CloseSession
    <2>3. run'[r] = [run[r] EXCEPT !.alive = Live(r), !.safe = safe] /\ \A s \in Runs \ {r} : run'[s] = run[s]
        BY <2>1, <2>2
    <2>4. QED
        BY <2>1, <2>3 DEF SameOrigin, RunRecord
<1>3. /\ pc[r] = "close" /\ FlagsStay
      /\ UNCHANGED <<runs, mine, journal, asked, published>>
      /\ lease' = lease \/ (lease = r /\ lease' \in {0, Unclosed})
      /\ lease' # r
    BY StateIs DEF CloseSession, CloseLease, FlagsStay, HandleStays, requestVars, shownVars, Unclosed
<1>4. QED
    BY <1>1, <1>2, <1>3

\* A run that owns the books settles them: its child is taken off, unless it survives.
LEMMA SettleIs ==
    ASSUME TriggerIInv, NEW r \in Runs, Settle(r), OwnsProcess(r)
    PROVE  /\ pc[r] = "settle" /\ ~rig'.starting
           /\ \/ Moves(r, "conclude")
              \/ Moves(r, "note") /\ ~run[r].alive /\ ~rig.manual /\ run[r].attempt = 0
                 /\ run[r].kind \in {"real", "totality"}
           /\ run[r].alive => /\ HandleStays /\ rig'.manual = rig.manual
                              /\ rig'.cancel = rig.cancel /\ rig'.stopping = rig.stopping
           /\ ~run[r].alive => /\ rig'.procs = (IF rig.procs = r THEN 0 ELSE rig.procs)
                               /\ ~rig'.manual /\ ~rig'.cancel /\ ~rig'.stopping
           /\ SameOrigin(r) /\ run'[r].child = run[r].child /\ run'[r].alive = run[r].alive
           /\ run'[r].manual = rig.manual /\ \A s \in Runs \ {r} : run'[s] = run[s]
           /\ UNCHANGED <<runs, mine, lease, journal, asked, published>>
<1>1. pc[r] = "settle" /\ UNCHANGED <<runs, mine, lease, journal, asked, published>>
    BY DEF Settle, requestVars, shownVars
<1>2. run[r] \in RunRecord /\ run \in [Runs -> RunRecord] /\ r \in Actors /\ rig \in RigRecord
    BY StateIs
<1>3. run' = [run EXCEPT ![r] = [run[r] EXCEPT !.manual = rig.manual]]
    BY DEF Settle
<1>4. run'[r] = [run[r] EXCEPT !.manual = rig.manual] /\ \A s \in Runs \ {r} : run'[s] = run[s]
    BY <1>2, <1>3
<1>5. SameOrigin(r) /\ run'[r].child = run[r].child /\ run'[r].alive = run[r].alive /\ run'[r].manual = rig.manual
    BY <1>2, <1>4 DEF SameOrigin, RunRecord
<1>6. \/ pc' = [pc EXCEPT ![r] = "conclude"]
      \/ pc' = [pc EXCEPT ![r] = "note"] /\ ~run[r].alive /\ MayRecover(r)
    BY DEF Settle, Goto
<1>7. MayRecover(r) => ~rig.manual /\ run[r].attempt = 0 /\ run[r].kind \in {"real", "totality"}
    <2>1. run[r].attempt \in 0 .. 1
        BY <1>2 DEF RunRecord
    <2>2. QED
        BY <2>1 DEF MayRecover
<1>8. \/ Moves(r, "conclude")
      \/ Moves(r, "note") /\ ~run[r].alive /\ ~rig.manual /\ run[r].attempt = 0
         /\ run[r].kind \in {"real", "totality"}
    BY <1>2, <1>6, <1>7, MovesTo
<1>9. rig' = [Books(r) EXCEPT !.supervisor = IF rig.supervisor = r THEN 0 ELSE @]
    BY DEF Settle
<1>10. CASE run[r].alive
    <2>1. Books(r) = [rig EXCEPT !.suppressed = TRUE, !.starting = FALSE]
        BY <1>10 DEF Books
    <2>2. ~rig'.starting /\ HandleStays /\ rig'.manual = rig.manual /\ rig'.cancel = rig.cancel
          /\ rig'.stopping = rig.stopping
        BY <1>2, <1>9, <2>1 DEF RigRecord, HandleStays
    <2>3. QED
        BY <1>1, <1>4, <1>5, <1>8, <1>10, <2>2
<1>11. CASE ~run[r].alive
    <2>1. Books(r) = Cleared(r)
        BY <1>11 DEF Books
    <2>2. ~rig'.starting /\ rig'.procs = (IF rig.procs = r THEN 0 ELSE rig.procs) /\ ~rig'.manual /\ ~rig'.cancel
          /\ ~rig'.stopping
        BY <1>2, <1>9, <2>1 DEF RigRecord, Cleared
    <2>3. QED
        BY <1>1, <1>4, <1>5, <1>8, <1>11, <2>2
<1>12. QED
    BY <1>10, <1>11

\* The end of a run is shown and journaled.
LEMMA ConcludeIs ==
    ASSUME TriggerIInv, NEW r \in Runs, Conclude(r)
    PROVE  /\ Moves(r, "done") /\ pc[r] = "conclude" /\ FlagsStay
           /\ journal' = JournalFinish(run[r].id, Outcome(r)) /\ published'.running = run[r].alive
           /\ UNCHANGED <<run, runs, mine, lease, asked>>
<1>1. Moves(r, "done")
    BY StateIs, MovesTo DEF Conclude, Goto
<1>2. QED
    BY <1>1 DEF Conclude, Show, FlagsStay, HandleStays, requestVars

\* A STOP that is accepted is about the current run.
LEMMA StopIs ==
    ASSUME TriggerIInv, NEW q \in Requests, StopAccepted(q)
    PROVE  /\ pc[q] = "issue" /\ (Moves(q, "join") \/ Moves(q, "decide"))
           /\ q \notin Runs /\ Busy /\ asked' = asked \cup ({CurrentRun} \ {0})
           /\ HandleStays /\ rig'.starting = rig.starting /\ rig'.manual /\ rig'.stopping
           /\ (rig'.cancel => rig.cancel \/ rig.starting)
           /\ UNCHANGED <<run, runs, mine, lease, journal, published>>
<1>1. q \in Actors /\ q \notin Runs
    BY StateIs
<1>2. PICK step \in {"join", "decide"} : pc' = [pc EXCEPT ![q] = step]
    BY DEF StopAccepted, Goto
<1>3. Moves(q, "join") \/ Moves(q, "decide")
    BY <1>1, <1>2, MovesTo
<1>4. HandleStays /\ rig'.starting = rig.starting /\ rig'.manual /\ rig'.stopping
      /\ (rig'.cancel => rig.cancel \/ rig.starting)
    BY StateIs DEF StopAccepted, HandleStays, RigRecord
<1>5. QED
    BY <1>1, <1>3, <1>4 DEF StopAccepted, AtStop, shownVars

\* What an emergency start knows of the run that it sets up
LEMMA HandIs ==
    ASSUME TriggerIInv, NEW a \in Actors, pc[a] \in SettingUp
    PROVE  /\ mine[a] \in Runs /\ mine[a] # a /\ run[mine[a]].child = "none" /\ run[mine[a]].kind = "totality"
           /\ ~run[mine[a]].alive /\ (pc[a] = "launch" => lease = mine[a])
           /\ pc[mine[a]] = IF pc[a] = "rollback" THEN "done" ELSE "born"
           /\ \A b \in Actors \ {a} : pc[b] \in SettingUp => mine[b] # mine[a]
<1>1. HandFits(a)
    BY DEF TriggerIInv, HandsFit
<1>2. mine[a] # a
    BY <1>1 DEF HandFits, SettingUp
<1>3. QED
    BY <1>1, <1>2 DEF HandFits, TriggerIInv, HandsApart

\* The set-up run gets the camera session ...
LEMMA PrepareIs ==
    ASSUME TriggerIInv, NEW a \in Actors, EmergencyPrepare(a)
    PROVE  /\ Moves(a, "launch") /\ pc[a] = "prepare" /\ FlagsStay /\ lease' = mine[a]
           /\ UNCHANGED <<run, runs, mine, journal, asked, published>>
<1>1. Moves(a, "launch")
    BY MovesTo DEF EmergencyPrepare, Goto
<1>2. QED
    BY <1>1, StateIs DEF EmergencyPrepare, RigRecord, FlagsStay, HandleStays, requestVars, shownVars

\* ... and its supervisor, with a journal entry if it is no recovery;
LEMMA LaunchIs ==
    ASSUME TriggerIInv, NEW a \in Actors, EmergencyLaunch(a)
    PROVE  /\ pc[a] = "launch" /\ pc'[a] = "done" /\ pc'[mine[a]] = "check"
           /\ \A b \in Actors \ {a, mine[a]} : pc'[b] = pc[b]
           /\ journal' = IF a \in Runs THEN journal ELSE JournalBegin(mine[a])
           /\ FlagsStay /\ UNCHANGED <<run, runs, mine, lease, asked>>
<1>1. pc[a] = "launch" /\ pc' = [pc EXCEPT ![a] = "done", ![mine[a]] = "check"]
    BY DEF EmergencyLaunch
<1>2. mine[a] \in Actors /\ mine[a] # a
    BY <1>1, HandIs, StateIs DEF SettingUp
<1>3. pc'[a] = "done" /\ pc'[mine[a]] = "check" /\ \A b \in Actors \ {a, mine[a]} : pc'[b] = pc[b]
    BY <1>1, <1>2, StateIs
<1>4. QED
    BY <1>1, <1>3, StateIs DEF EmergencyLaunch, Recovering, RigRecord, FlagsStay, HandleStays, requestVars

\* or else it is over, and the flags are those of a RIG where nothing starts.
LEMMA FailsIs ==
    ASSUME TriggerIInv, NEW a \in Actors, EmergencyFails(a)
    PROVE  /\ pc[a] \in {"prepare", "launch"} /\ pc'[a] = "rollback" /\ pc'[mine[a]] = "done"
           /\ \A b \in Actors \ {a, mine[a]} : pc'[b] = pc[b]
           /\ journal' = IF pc[a] = "launch" /\ a \notin Runs
                         THEN [id |-> mine[a], status |-> "failed", recovered |-> FALSE]
                         ELSE JournalFinish(run[mine[a]].id, "failed")
           /\ ~rig'.starting /\ FlagsReset /\ UNCHANGED <<run, runs, mine, lease, asked>>
<1>1. pc[a] \in {"prepare", "launch"} /\ pc' = [pc EXCEPT ![a] = "rollback", ![mine[a]] = "done"]
    BY DEF EmergencyFails
<1>2. mine[a] \in Actors /\ mine[a] # a
    BY <1>1, HandIs, StateIs DEF SettingUp
<1>3. pc'[a] = "rollback" /\ pc'[mine[a]] = "done" /\ \A b \in Actors \ {a, mine[a]} : pc'[b] = pc[b]
    BY <1>1, <1>2, StateIs
<1>4. ~rig'.starting /\ FlagsReset
    BY StateIs DEF EmergencyFails, RigRecord, FlagsReset, HandleStays
<1>5. QED
    BY <1>1, <1>3, <1>4 DEF EmergencyFails, Recovering, requestVars

LEMMA RollbackIs ==
    ASSUME TriggerIInv, NEW a \in Actors, EmergencyRollback(a)
    PROVE  /\ pc[a] = "rollback" /\ Moves(a, IF a \in Runs THEN "conclude" ELSE "done")
           /\ lease' = lease \/ (lease = mine[a] /\ lease' \in {0, Unclosed})
           /\ lease' # mine[a]
           /\ FlagsStay /\ ~published'.running /\ UNCHANGED <<run, runs, mine, journal, asked>>
<1>1. Moves(a, IF a \in Runs THEN "conclude" ELSE "done")
    <2>1. pc' = [pc EXCEPT ![a] = IF a \in Runs THEN "conclude" ELSE "done"]
        BY DEF EmergencyRollback, Leave, Goto, Recovering
    <2>2. QED
        BY <2>1, MovesTo
<1>2. QED
    BY <1>1, HandIs, StateIs
    DEF EmergencyRollback, CloseLease, SettingUp, Show, FlagsStay, HandleStays, requestVars, Unclosed

-----------------------------------------------------------------------------
(* One run at a time                                                         *)

\* The steps at which a run whose child was created has the handle on the books
Attached == {"attach"} \cup Watching \cup Ending
\* The steps of a run that recovers, or tried to recover, another way than by a live child
Recoverer == SettingUp \cup {"conclude"}

\* The run under way is the latest, or the one that the latest is to recover; a live child is the
\* latest run's.
Placed(r) ==
    /\ pc[r] \in Unsettled \cup ToRecovery => r = runs
    /\ pc[r] \in SettingUp => mine[r] = runs
    /\ pc[r] = "conclude" => mine[r] = IF r = runs THEN 0 ELSE runs
    /\ pc[r] \notin Recoverer \cup {"done"} => mine[r] = 0
    /\ pc[r] \in {"rollback", "conclude"} /\ mine[r] # 0 =>
           pc[mine[r]] = "done" /\ run[mine[r]].child = "none"
    /\ Live(r) => r = runs
\* Until its child is attached, or if it has none, a run starts; from then on the books are its own.
Owned(r) ==
    /\ pc[r] \in Starting => rig.starting
    /\ pc[r] \in Ending /\ run[r].child = "none" => rig.starting
    /\ pc[r] \in Attached /\ run[r].child # "none" => rig.procs = r
    /\ Live(r) /\ pc[r] # "handle" => rig.procs = r
\* Between its settlement and its recovery or its end a run does not start, and only a run whose child
\* is dead is recovered.
Resting(r) ==
    /\ pc[r] \in ToRecovery \cup {"rollback", "conclude"} => ~rig.starting
    /\ pc[r] \in ToRecovery \cup SettingUp => ~run[r].alive /\ run[r].kind \in {"real", "totality"}
\* What starts is the latest run.
StartUnderWay == rig.starting => runs # 0 /\ pc[runs] \in Starting \cup Ending
\* The handle on the books is that of the run under way, or of a child that survived.
HandleInUse == rig.procs # 0 => run[rig.procs].alive \/ pc[rig.procs] \in Attached

AloneInv ==
    /\ \A r \in Runs : Placed(r) /\ Owned(r) /\ Resting(r)
    /\ StartUnderWay /\ HandleInUse

\* The run at one of these steps is the latest, and no other one is under way at them.
LEMMA LatestIs ==
    ASSUME TriggerIInv, AloneInv, NEW r \in Runs, pc[r] \in Unsettled \cup ToRecovery
    PROVE  /\ r = runs
           /\ \A s \in Runs \ {r} : pc[s] \in Finished \cup Recoverer /\ ~Live(s)
<1>1. Placed(r) /\ \A s \in Runs : Placed(s)
    BY DEF AloneInv
<1>2. r = runs
    BY <1>1 DEF Placed, Finished, Recoverer, Unsettled, Starting, Watching, Ending, ToRecovery, SettingUp,
        Attached
<1>3. \A s \in Runs : pc[s] \in RunSteps /\ (pc[s] \in Unsettled \cup ToRecovery \/ Live(s) => s = runs)
    BY <1>1, StateIs DEF Placed
<1>4. \A s \in Runs : pc[s] \notin Unsettled \cup ToRecovery => pc[s] \in Finished \cup Recoverer
    BY <1>3 DEF RunSteps, Finished, Recoverer, Unsettled, Starting, Watching, Ending, ToRecovery, SettingUp
<1>5. QED
    BY <1>2, <1>3, <1>4

\* A run that settles owns the books.
LEMMA SettlesOwn ==
    ASSUME TriggerIInv, AloneInv, NEW r \in Runs, pc[r] = "settle"
    PROVE  OwnsProcess(r)
BY DEF AloneInv, Owned, OwnsProcess, Ending, Attached, Watching

LEMMA AloneCalm ==
    ASSUME TriggerIInv, AloneInv, Calm
    PROVE  AloneInv'
<1>1. \A r \in Runs : CalmRecord(r) /\ CalmMove(pc[r], pc'[r])
    BY DEF Calm
<1>2. ASSUME NEW r \in Runs PROVE Placed(r)'
    <2>1. Placed(r) /\ CalmMove(pc[r], pc'[r]) /\ CalmRecord(r) /\ UNCHANGED <<runs, mine>>
        BY <1>1 DEF AloneInv, Calm
    <2>2. mine[r] \in Runs => CalmMove(pc[mine[r]], pc'[mine[r]]) /\ CalmRecord(mine[r])
        BY <1>1
    <2>3. mine[r] \in {0} \cup Runs
        BY StateIs
    <2>4. QED
        BY <2>1, <2>2, <2>3 DEF Placed, CalmMove, CalmRecord, Recoverer, SettingUp, Finished, ToRecovery, Watching,
            Unsettled, Starting, Ending, Attached
<1>3. ASSUME NEW r \in Runs PROVE Owned(r)' /\ Resting(r)'
    <2>1. Owned(r) /\ Resting(r) /\ CalmMove(pc[r], pc'[r]) /\ CalmRecord(r) /\ CalmRig /\ ChildKnown(r)
        BY <1>1, SupervisorAt DEF AloneInv, Calm
    <2>2. Owned(r)'
        BY <2>1 DEF Owned, CalmMove, CalmRecord, CalmRig, Starting, Watching, Ending, Attached, ToRecovery, ChildKnown,
                    Supervised, Childless
    <2>3. Resting(r)'
        BY <2>1 DEF Resting, CalmMove, CalmRecord, CalmRig, Watching, ToRecovery, SettingUp
    <2>4. QED
        BY <2>2, <2>3
<1>4. StartUnderWay'
    <2>1. CASE ~rig.starting
        BY <2>1 DEF StartUnderWay, Calm, CalmRig
    <2>2. CASE rig.starting
        <3>1. runs \in Runs /\ pc[runs] \in Starting \cup Ending /\ UNCHANGED runs
            BY <2>2, StateIs DEF AloneInv, StartUnderWay, Runs, Calm
        <3>2. CalmMove(pc[runs], pc'[runs])
            BY <1>1, <3>1
        <3>3. QED
            BY <3>1, <3>2, StateIs DEF StartUnderWay, CalmMove, Starting, Ending, Watching, ToRecovery
    <2>3. QED
        BY <2>1, <2>2
<1>5. HandleInUse'
    <2>1. CASE rig.procs = 0
        BY <2>1 DEF HandleInUse, Calm, CalmRig
    <2>2. CASE rig.procs # 0
        <3>1. rig.procs \in Runs /\ rig'.procs = rig.procs
            BY <2>2, StateIs DEF RigRecord, Calm, CalmRig
        <3>2. CalmMove(pc[rig.procs], pc'[rig.procs]) /\ CalmRecord(rig.procs)
            BY <1>1, <3>1
        <3>3. QED
            BY <2>2, <3>1, <3>2 DEF AloneInv, HandleInUse, CalmMove, CalmRecord, Attached, Watching, Ending, ToRecovery
    <2>4. QED
        BY <2>1, <2>2
<1>6. QED
    BY <1>2, <1>3, <1>4, <1>5 DEF AloneInv

\* Nothing is under way when a START begins.
LEMMA AloneStart ==
    ASSUME TriggerIInv, AloneInv, RunsApart, NEW q \in Requests,
           StartRejected(q) \/ StartAccepted(q) \/ StartBroken(q)
    PROVE  AloneInv'
<1>1. \A r \in Runs : pc[r] \in Finished /\ ~Live(r) /\ Placed(r) /\ Owned(r)
    BY RejectIs, AcceptIs, BrokenIs DEF AloneInv
<1>2. q \in Actors /\ q \notin Runs /\ Runs \subseteq Actors /\ rig \in RigRecord /\ 0 \notin Runs
    BY StateIs
<1>3. CASE StartRejected(q)
    <2>1. /\ Moves(q, "done") /\ ~rig'.starting /\ FlagsReset /\ UNCHANGED <<run, runs, mine>>
        BY <1>3, RejectIs
    <2>2. \A r \in Runs : pc'[r] = pc[r] /\ run'[r] = run[r]
        BY <1>2, <2>1 DEF Moves
    <2>3. ASSUME NEW r \in Runs PROVE Placed(r)' /\ Owned(r)' /\ Resting(r)'
        <3>1. mine[r] \in {0} \cup Runs
            BY StateIs
        <3>2. QED
            BY <1>1, <2>1, <2>2, <3>1 DEF Placed, Owned, Resting, Live, FlagsReset, HandleStays, Finished,
                Starting, Ending, Attached, Watching, ToRecovery, SettingUp,
                Unsettled, Recoverer
    <2>4. StartUnderWay' /\ HandleInUse'
        BY <1>2, <2>1, <2>2 DEF AloneInv, StartUnderWay, HandleInUse, FlagsReset, HandleStays, RigRecord
    <2>5. QED
        BY <2>3, <2>4 DEF AloneInv
<1>4. ASSUME NEW step, Admits(q, "done", Kind[q], 0, Journaled(Kind[q], New), step), UNCHANGED mine,
             (step = "check" /\ rig'.starting) \/ (step = "done" /\ ~rig'.starting), FlagsReset
      PROVE  AloneInv'
    <2>1. /\ \A r \in Runs \ {New} : pc'[r] = pc[r] /\ run'[r] = run[r]
          /\ New \in Runs /\ runs' = New /\ pc[New] = "unborn" /\ pc'[New] = step /\ run'[New].child = "none"
          /\ ~run'[New].alive /\ rig'.procs = rig.procs /\ run[New].child = "none" /\ ~run[New].alive
        BY <1>2, <1>4 DEF Admits, FlagsReset, HandleStays, NewRun
    <2>2. ASSUME NEW r \in Runs PROVE Placed(r)' /\ Owned(r)' /\ Resting(r)'
        <3>1. mine[r] \in {0} \cup Runs
            BY StateIs
        <3>2. CASE r = New
            BY <1>1, <1>2, <1>4, <2>1, <3>2 DEF Placed, Owned, Resting, Live, Finished, Recoverer,
                Starting, Ending, Attached, Watching, ToRecovery, SettingUp,
                Unsettled
        <3>3. CASE r # New
            BY <1>1, <1>2, <1>4, <2>1, <3>1, <3>3 DEF Placed, Owned, Resting, Live, Finished, Recoverer,
                Starting, Ending, Attached, Watching, ToRecovery, SettingUp,
                Unsettled
        <3>4. QED
            BY <3>2, <3>3
    <2>3. StartUnderWay'
        BY <1>2, <1>4, <2>1 DEF StartUnderWay, Starting
    <2>4. HandleInUse'
        <3>1. rig.procs # 0 => rig.procs \in Runs /\ run[rig.procs].alive
            BY <1>1, <1>2 DEF AloneInv, HandleInUse, RigRecord, Finished, Attached, Watching, Ending
        <3>2. QED
            BY <2>1, <3>1 DEF HandleInUse
    <2>5. QED
        BY <2>2, <2>3, <2>4 DEF AloneInv
<1>5. CASE StartAccepted(q)
    BY <1>4, <1>5, AcceptIs
<1>6. CASE StartBroken(q)
    BY <1>4, <1>6, BrokenIs
<1>7. QED
    BY <1>3, <1>5, <1>6

\* Nothing but the run to recover is under way when an emergency start claims the RIG.
LEMMA AloneClaim ==
    ASSUME TriggerIInv, AloneInv, RunsApart, NEW a \in Actors, EmergencyClaim(a), ~rig.starting
    PROVE  AloneInv'
<1>1. \A r \in Runs : Placed(r) /\ Owned(r) /\ Resting(r) /\ ChildKnown(r) /\ (r # a => pc[r] \in Finished /\ ~Live(r))
    BY ClaimIs, SupervisorAt DEF AloneInv
<1>2. Runs \subseteq Actors /\ rig \in RigRecord /\ 0 \notin Runs
    BY StateIs
<1>3. /\ \A r \in Runs \ {New, a} : pc'[r] = pc[r] /\ run'[r] = run[r] /\ mine'[r] = mine[r]
      /\ New \in Runs /\ New # a /\ runs' = New /\ pc[New] = "unborn" /\ pc'[New] = "born" /\ run'[New].child = "none"
      /\ mine'[New] = mine[New] /\ mine'[a] = New /\ pc[a] = "claim" /\ pc'[a] = "prepare"
      /\ ~run'[New].alive /\ rig'.procs = rig.procs /\ rig'.starting
      /\ a \in Runs => run'[a] = run[a]
    BY <1>2, ClaimIs DEF Admits, FlagsReset, HandleStays
<1>4. ASSUME NEW r \in Runs PROVE Placed(r)' /\ Owned(r)' /\ Resting(r)'
    <2>1. mine[r] \in {0} \cup Runs
        BY StateIs
    <2>2. CASE r = New
        BY <1>1, <1>2, <1>3, <2>2 DEF Placed, Owned, Resting, Live, Finished, Recoverer,
            Starting, Ending, Attached, Watching, ToRecovery, SettingUp,
            Unsettled
    <2>3. CASE r = a
        <3>1. ~Live(r) /\ ~run[r].alive /\ run[r].kind \in {"real", "totality"}
            BY <1>1, <1>3, <2>3 DEF Resting, ChildKnown, ToRecovery, Holding
        <3>2. QED
            BY <1>2, <1>3, <2>3, <3>1 DEF Placed, Owned, Resting, Live, Finished, Recoverer,
                Starting, Ending, Attached, Watching, ToRecovery, SettingUp,
                Unsettled
    <2>4. CASE r # New /\ r # a
        <3>1. mine'[r] = mine[r] /\ pc'[r] = pc[r] /\ run'[r] = run[r] /\ pc[r] \in Finished /\ ~Live(r)
            BY <1>1, <1>3, <2>4
        <3>2. QED
            BY <1>1, <1>2, <1>3, <2>1, <2>4, <3>1 DEF Placed, Owned, Resting, Live, Finished, Recoverer,
                Starting, Ending, Attached, Watching, ToRecovery, SettingUp,
                Unsettled
    <2>5. QED
        BY <2>2, <2>3, <2>4
<1>5. StartUnderWay'
    BY <1>2, <1>3 DEF StartUnderWay, Starting
<1>6. HandleInUse'
    <2>1. rig.procs # 0 => rig.procs \in Runs /\ run[rig.procs].alive
        BY <1>1, <1>2, <1>3 DEF AloneInv, HandleInUse, RigRecord, Finished, Attached, Watching, Ending
    <2>2. rig.procs # New
        BY <1>2, <1>3, <2>1 DEF TriggerIInv, RunsFit, RunFits, Numbered, NewRun
    <2>3. QED
        BY <1>3, <2>1, <2>2 DEF HandleInUse
<1>7. QED
    BY <1>4, <1>5, <1>6 DEF AloneInv

\* The steps of a supervisor that matter concern the latest run.
LEMMA AloneSupervisor ==
    ASSUME TriggerIInv, AloneInv, NEW r \in Runs,
           \/ Popen(r) \/ PublishHandle(r) \/ (Attach(r) /\ ~rig.cancel) \/ CloseSession(r) \/ Settle(r)
           \/ Conclude(r)
    PROVE  AloneInv'
<1> DEFINE Still(s) == pc'[s] = pc[s] /\ run'[s] = run[s]
<1>1. Runs \subseteq Actors /\ rig \in RigRecord /\ 0 \notin Runs /\ \A s \in Runs : mine[s] \in {0} \cup Runs
    BY StateIs
<1>2. \A s \in Runs : Placed(s) /\ Owned(s) /\ Resting(s) /\ ChildKnown(s)
    BY SupervisorAt DEF AloneInv
<1>3. UNCHANGED <<runs, mine>> /\ \A s \in Runs \ {r} : Still(s)
    BY <1>1, PopenIs, HandleIs, AttachIs, CloseIs, SettleIs, SettlesOwn, ConcludeIs DEF Moves, Settle
<1>4. CASE Conclude(r)
    <2>1. pc[r] = "conclude" /\ pc'[r] = "done" /\ FlagsStay /\ run'[r] = run[r]
        BY <1>4, ConcludeIs DEF Moves
    <2>2. ASSUME NEW s \in Runs PROVE Placed(s)' /\ Owned(s)' /\ Resting(s)'
        BY <1>1, <1>2, <1>3, <2>1 DEF Placed, Owned, Resting, Live, FlagsStay, HandleStays, Finished, Recoverer,
            Starting, Ending, Attached, Watching, ToRecovery, SettingUp,
            Unsettled
    <2>3. StartUnderWay'
        <3>1. rig.starting => runs \in Runs
            BY StateIs DEF AloneInv, StartUnderWay, Runs
        <3>2. QED
            BY <1>3, <2>1, <3>1 DEF AloneInv, StartUnderWay, FlagsStay, Starting, Ending
    <2>4. HandleInUse'
        BY <1>1, <1>3, <2>1 DEF AloneInv, HandleInUse, FlagsStay, HandleStays, RigRecord, Ending, Attached, Watching
    <2>5. QED
        BY <2>2, <2>3, <2>4 DEF AloneInv
<1>5. CASE pc[r] \in Unsettled
    <2>1. r = runs /\ \A s \in Runs \ {r} : pc[s] \in Finished \cup Recoverer /\ ~Live(s)
        BY <1>5, LatestIs
    <2>2. ASSUME NEW s \in Runs \ {r} PROVE Placed(s)' /\ Owned(s)'
        <3>1. Still(s) /\ pc[s] \in Finished \cup Recoverer /\ ~Live(s) /\ Placed(s) /\ mine[s] \in {0} \cup Runs
            BY <1>1, <1>2, <1>3, <2>1
        <3>2. mine[s] # r \/ pc[s] \notin {"rollback", "conclude"}
            BY <1>1, <1>5, <3>1 DEF Placed, Unsettled, Starting, Watching, Ending,
                Recoverer, Attached, ToRecovery, SettingUp, Finished
        <3>3. QED
            BY <1>3, <3>1, <3>2 DEF Placed, Owned, Live, Finished, Recoverer, Starting, Watching, Ending, Attached,
                SettingUp,
                Unsettled, ToRecovery
    <2>3. rig'.starting => rig.starting
        BY PopenIs, HandleIs, AttachIs, CloseIs, SettleIs, SettlesOwn, ConcludeIs DEF Settle, FlagsStay
    <2>4. ASSUME NEW s \in Runs \ {r} PROVE Resting(s)'
        BY <1>2, <1>3, <2>3 DEF Resting
    <2>5. Placed(r)' /\ Owned(r)' /\ Resting(r)' /\ StartUnderWay'
        <3>1. Placed(r) /\ Owned(r) /\ Resting(r) /\ ChildKnown(r) /\ r # 0
            BY <1>1, <1>2
        <3>2. CASE Popen(r)
            BY <1>3, <2>1, <3>1, <3>2, PopenIs DEF Placed, Owned, Resting, StartUnderWay, Moves, FlagsStay, HandleStays, Live,
                Finished, Recoverer, Starting, Watching, Ending, Attached, ToRecovery, SettingUp,
                Unsettled
        <3>3. CASE PublishHandle(r)
            BY <1>3, <2>1, <3>1, <3>3, HandleIs DEF Placed, Owned, Resting, StartUnderWay, Moves, Live,
                Finished, Recoverer, Starting, Watching, Ending, Attached, ToRecovery, SettingUp,
                Unsettled
        <3>4. CASE Attach(r) /\ ~rig.cancel
            BY <1>3, <2>1, <3>1, <3>4, AttachIs DEF Placed, Owned, Resting, StartUnderWay, Moves, HandleStays, Live,
                Finished, Recoverer, Starting, Watching, Ending, Attached, ToRecovery, SettingUp,
                Unsettled
        <3>5. CASE CloseSession(r)
            BY <1>3, <2>1, <3>1, <3>5, CloseIs DEF Placed, Owned, Resting, StartUnderWay, Moves, FlagsStay, HandleStays, Live,
                Finished, Recoverer, Starting, Watching, Ending, Attached, ToRecovery, SettingUp, SameOrigin,
                Unsettled
        <3>6. CASE Settle(r)
            <4>1. pc[r] = "settle" /\ OwnsProcess(r)
                BY <3>6, SettlesOwn DEF Settle
            <4>2. Live(r) => run[r].alive
                BY <3>1, <4>1 DEF ChildKnown, Holding
            <4>3. QED
                BY <1>3, <2>1, <3>1, <3>6, <4>1, <4>2, SettleIs DEF Placed, Owned, Resting, StartUnderWay, Moves, HandleStays, Live,
                    Finished, Recoverer, Starting, Watching, Ending, Attached, ToRecovery, SettingUp, SameOrigin,
                    Unsettled
        <3>7. QED
            BY <1>5, <3>2, <3>3, <3>4, <3>5, <3>6 DEF Conclude, Unsettled, Starting, Watching, Ending
    <2>6. HandleInUse'
        <3>1. rig'.procs \in {0, r, rig.procs} /\ (run[r].alive => run'[r].alive)
            BY <1>2, <1>5, PopenIs, HandleIs, AttachIs, CloseIs, SettleIs, SettlesOwn, ConcludeIs
            DEF Settle, FlagsStay, HandleStays, ChildKnown, Holding, CloseSession
        <3>2. rig'.procs = r => run'[r].alive \/ pc'[r] \in Attached
            <4>1. pc'[r] \in Attached \/ (rig'.procs = rig.procs /\ pc[r] \notin Attached) \/ Settle(r)
                BY <1>5, PopenIs, HandleIs, AttachIs, CloseIs, ConcludeIs
                DEF Moves, FlagsStay, HandleStays, Attached, Watching, Ending
            <4>2. ASSUME Settle(r), ~run[r].alive
                  PROVE  rig'.procs # r
                <5>1. pc[r] = "settle"
                    BY <4>2 DEF Settle
                <5>2. OwnsProcess(r)
                    BY <5>1, SettlesOwn
                <5>3. rig'.procs = IF rig.procs = r THEN 0 ELSE rig.procs
                    BY <4>2, <5>2, SettleIs
                <5>4. QED
                    BY <1>1, <5>3
            <4>3. QED
                BY <1>1, <3>1, <4>1, <4>2 DEF AloneInv, HandleInUse
        <3>3. rig.procs # 0 /\ rig.procs # r => rig.procs \in Runs \ {r} /\ run[rig.procs].alive
            BY <1>1, <2>1 DEF AloneInv, HandleInUse, RigRecord, Attached, Watching, Ending, Finished, Recoverer, SettingUp
        <3>4. QED
            BY <1>3, <3>1, <3>2, <3>3 DEF HandleInUse
    <2>7. QED
        BY <2>2, <2>4, <2>5, <2>6 DEF AloneInv
<1>6. QED
    BY <1>4, <1>5 DEF Popen, PublishHandle, Attach, CloseSession, Settle, Unsettled, Starting, Watching, Ending

\* While an emergency start sets up its run, that run is the latest.
LEMMA AloneSetUp ==
    ASSUME TriggerIInv, AloneInv, NEW a \in Actors,
           EmergencyPrepare(a) \/ EmergencyLaunch(a) \/ EmergencyFails(a) \/ EmergencyRollback(a)
    PROVE  AloneInv'
<1>1. /\ Runs \subseteq Actors /\ rig \in RigRecord /\ 0 \notin Runs /\ \A s \in Runs : mine[s] \in {0} \cup Runs
      /\ rig.starting => runs \in Runs
    BY StateIs DEF AloneInv, StartUnderWay, Runs
<1>2. \A s \in Runs : Placed(s) /\ Owned(s) /\ Resting(s) /\ ChildKnown(s)
    BY SupervisorAt DEF AloneInv
<1>3. pc[a] \in SettingUp
    BY DEF EmergencyPrepare, EmergencyLaunch, EmergencyFails, EmergencyRollback, SettingUp
<1>4. PICK m \in Runs :
      /\ m = mine[a] /\ m # a /\ run[m].child = "none" /\ ~run[m].alive
      /\ pc[m] = IF pc[a] = "rollback" THEN "done" ELSE "born"
    BY <1>3, HandIs
<1>5. a \in Runs \/ pc[a] # "rollback" => m = runs
    BY <1>2, <1>3, <1>4 DEF Placed, Finished, SettingUp,
        Unsettled, Recoverer, Starting, Watching, Ending, Attached, ToRecovery
<1>6. UNCHANGED <<run, runs, mine>> /\ \A s \in Runs \ {a, m} : pc'[s] = pc[s]
    BY <1>1, <1>4, PrepareIs, LaunchIs, FailsIs, RollbackIs DEF Moves
<1>7. rig'.procs = rig.procs /\ (rig'.starting => rig.starting)
    BY PrepareIs, LaunchIs, FailsIs, RollbackIs DEF FlagsStay, FlagsReset, HandleStays
<1>8. /\ rig'.starting = rig.starting \/ (~rig'.starting /\ pc'[a] = "rollback" /\ pc'[m] = "done" /\ m = runs)
      /\ pc'[a] \in {"launch", "done", "rollback", "conclude"} /\ (pc'[a] = "conclude" => pc[a] = "rollback")
      /\ pc'[m] = pc[m] \/ (pc'[m] \in {"check", "done"} /\ pc[a] # "rollback")
      /\ pc'[a] = "rollback" => pc'[m] = "done" /\ ~rig'.starting
      /\ pc'[m] = "done" => pc[m] = "done" \/ ~rig'.starting
      /\ pc'[a] = "launch" => pc'[m] = pc[m] /\ pc[a] = "prepare"
    BY <1>1, <1>3, <1>4, <1>5, PrepareIs, LaunchIs, FailsIs, RollbackIs DEF Moves, FlagsStay
<1>9. ASSUME NEW s \in Runs \ {a, m} PROVE Placed(s)' /\ Owned(s)' /\ Resting(s)'
    <2>1. Placed(s) /\ Owned(s) /\ Resting(s) /\ mine[s] \in {0} \cup Runs /\ pc'[s] = pc[s] /\ run'[s] = run[s]
        BY <1>1, <1>2, <1>6
    <2>2. pc[s] \in Unsettled => runs # m /\ rig'.starting = rig.starting
        BY <1>8, <2>1 DEF Placed, Unsettled, Starting, Watching, Ending, Recoverer, SettingUp, Finished,
            Attached, ToRecovery
    <2>3. pc[s] \in {"rollback", "conclude"} /\ mine[s] # 0 => pc'[mine[s]] = "done"
        BY <1>3, <1>4, <1>6, <1>8, <2>1 DEF Placed, SettingUp,
            Unsettled, Recoverer, Starting, Watching, Ending, Attached, ToRecovery, Finished
    <2>4. Placed(s)'
        BY <1>6, <2>1, <2>3 DEF Placed, Live,
            Unsettled, Recoverer, Starting, Watching, Ending, Attached, ToRecovery, SettingUp, Finished
    <2>5. Owned(s)' /\ Resting(s)'
        BY <1>7, <2>1, <2>2 DEF Owned, Resting, Live, Unsettled, Ending
    <2>6. QED
        BY <2>4, <2>5
<1>10. Placed(m)' /\ Owned(m)' /\ Resting(m)'
    <2>1. Placed(m) /\ Owned(m) /\ run'[m] = run[m] /\ mine'[m] = mine[m] /\ runs' = runs /\ m # 0 /\ ~Live(m)
        BY <1>1, <1>2, <1>4, <1>6 DEF Live
    <2>2. CASE pc'[m] = "done"
        BY <1>4, <2>1, <2>2 DEF Placed, Owned, Resting, Live, Recoverer, Unsettled, Starting, Watching,
            Ending, Attached, ToRecovery, SettingUp
    <2>3. CASE pc'[m] \in {"born", "check"}
        <3>1. pc[m] = "born" /\ rig'.starting = rig.starting /\ m = runs
            BY <1>4, <1>5, <1>8, <2>3
        <3>2. mine[m] = 0 /\ rig.starting
            BY <2>1, <3>1 DEF Placed, Owned, Recoverer, SettingUp, Starting
        <3>3. Placed(m)'
            BY <1>4, <2>1, <2>3, <3>1, <3>2 DEF Placed, Live, Recoverer, SettingUp
        <3>4. Owned(m)' /\ Resting(m)'
            BY <1>4, <2>1, <2>3, <3>1, <3>2 DEF Owned, Resting, Live, Starting, Watching, Ending, Attached, ToRecovery, SettingUp
        <3>5. QED
            BY <3>3, <3>4
    <2>4. QED
        BY <1>4, <1>8, <2>2, <2>3
<1>11. ASSUME a \in Runs PROVE Placed(a)' /\ Owned(a)' /\ Resting(a)'
    <2>1. Placed(a) /\ Owned(a) /\ Resting(a) /\ ChildKnown(a) /\ run'[a] = run[a] /\ m = runs /\ mine'[a] = m
        BY <1>2, <1>4, <1>5, <1>6, <1>11
    <2>2. pc[a] \in {"prepare", "launch", "rollback"} /\ (pc[a] = "rollback" => ~rig.starting /\ pc[m] = "done")
        BY <1>3, <1>4, <2>1 DEF SettingUp, Resting
    <2>3. QED
        BY <1>1, <1>4, <1>6, <1>7, <1>8, <2>1, <2>2 DEF Placed, Owned, Resting, Live, Finished, Recoverer, Starting, Watching,
            Ending, Attached, ToRecovery, SettingUp,
            Unsettled
<1>12. StartUnderWay'
    <2>1. CASE rig'.starting
        <3>1. rig.starting /\ runs \in Runs /\ pc[runs] \in Starting \cup Ending /\ UNCHANGED runs
            BY <1>1, <1>6, <1>7, <2>1 DEF AloneInv, StartUnderWay
        <3>2. runs # a
            BY <1>3, <3>1 DEF SettingUp, Starting, Ending
        <3>3. pc'[runs] \in Starting \cup Ending
            <4>1. CASE runs = m
                BY <1>4, <1>8, <2>1, <3>1, <4>1 DEF Starting, Ending
            <4>2. CASE runs # m
                BY <1>6, <3>1, <3>2, <4>2
            <4>3. QED
                BY <4>1, <4>2
        <3>4. QED
            BY <1>1, <3>1, <3>3 DEF StartUnderWay
    <2>2. QED
        BY <2>1 DEF StartUnderWay
<1>13. HandleInUse'
    <2>1. rig.procs # 0 => rig.procs \in Runs /\ rig.procs # m /\ (run[rig.procs].alive \/ rig.procs # a)
        BY <1>1, <1>3, <1>4 DEF AloneInv, HandleInUse, RigRecord, Attached, Watching, Ending, SettingUp
    <2>2. QED
        BY <1>6, <1>7, <2>1 DEF AloneInv, HandleInUse
<1>14. \A s \in Runs : Placed(s)' /\ Owned(s)' /\ Resting(s)'
    <2> SUFFICES ASSUME NEW s \in Runs PROVE Placed(s)' /\ Owned(s)' /\ Resting(s)'
        OBVIOUS
    <2>1. CASE s = m
        BY <1>10, <2>1
    <2>2. CASE s = a
        BY <1>11, <2>2
    <2>3. CASE s \notin {a, m}
        BY <1>9, <2>3
    <2>4. QED
        BY <2>1, <2>2, <2>3
<1>15. QED
    BY <1>12, <1>13, <1>14 DEF AloneInv

\* A STOP moves no run.
LEMMA AloneStop ==
    ASSUME TriggerIInv, AloneInv, NEW q \in Requests, StopAccepted(q)
    PROVE  AloneInv'
<1>1. /\ UNCHANGED <<run, runs, mine>> /\ rig'.procs = rig.procs /\ rig'.starting = rig.starting
      /\ \A b \in Actors \ {q} : pc'[b] = pc[b]
    BY StopIs DEF Moves, HandleStays
<1>2. /\ \A s \in Runs : pc'[s] = pc[s] /\ mine[s] \in {0} \cup Runs /\ Placed(s) /\ Owned(s) /\ Resting(s)
      /\ rig \in RigRecord /\ (rig.starting => runs \in Runs)
    BY <1>1, StateIs DEF AloneInv, StartUnderWay, Runs
<1>3. \A s \in Runs : Placed(s)' /\ Owned(s)' /\ Resting(s)'
    BY <1>1, <1>2 DEF Placed, Owned, Resting, Live,
        Unsettled, Recoverer, Starting, Watching, Ending, Attached, ToRecovery, SettingUp, Finished
<1>4. StartUnderWay' /\ HandleInUse'
    BY <1>1, <1>2 DEF AloneInv, StartUnderWay, HandleInUse, RigRecord
<1>5. QED
    BY <1>3, <1>4 DEF AloneInv

LEMMA AloneStarts == Init /\ TriggerIInv => AloneInv
<1> SUFFICES ASSUME Init, TriggerIInv PROVE AloneInv
    OBVIOUS
<1>1. \A r \in Runs : pc[r] = "unborn" /\ run[r] = NewRun /\ mine[r] = 0
    BY StateIs DEF Init
<1>2. rig.procs = 0 /\ ~rig.starting
    BY DEF Init
<1>3. QED
    BY <1>1, <1>2 DEF AloneInv, Placed, Owned, Resting, StartUnderWay, HandleInUse, NewRun, Live, Finished, Recoverer,
        Starting, Watching, Ending, Attached, ToRecovery, SettingUp,
        Unsettled

\* As long as runs do not cross, there is one at a time.
LEMMA AloneStep == TriggerIInv /\ AloneInv /\ [Next]_vars /\ [RunsApart]_vars => AloneInv'
<1> SUFFICES ASSUME TriggerIInv, AloneInv, [Next]_vars, [RunsApart]_vars PROVE AloneInv'
    OBVIOUS
<1>1. CASE Calm
    BY <1>1, AloneCalm
<1>2. CASE ~Calm
    <2>1. Major /\ RunsApart
        BY <1>2, MajorSteps
    <2>2. QED
        BY <2>1, AloneStart, AloneClaim, AloneSupervisor, AloneSetUp, AloneStop DEF Major
<1>3. QED
    BY <1>1, <1>2

\* What was crossed stays crossed, and a flag that was left stays left.
LEMMA HistoryStays ==
    ASSUME TriggerIInv, [Next]_vars
    PROVE  (rig.crossed => rig'.crossed) /\ (rig.unfrozen => rig'.unfrozen)
<1>1. rig \in RigRecord
    BY StateIs
<1>2. CASE UNCHANGED rig
    BY <1>2
<1>3. ASSUME NEW q \in Requests, Start(q) \/ Stop(q)
      PROVE  (rig.crossed => rig'.crossed) /\ (rig.unfrozen => rig'.unfrozen)
    BY <1>1, <1>3
    DEF Start, StartRefused, StartRejected, StartUnfrozen, StartAccepted, StartBroken, Crosses, Stop, StopNothing,
        StopCoalesced, StopAccepted, StopJoin, StopDecide, StopPublish, StopSignal, RigRecord
<1>4. ASSUME NEW a \in Actors, Emergency(a)
      PROVE  (rig.crossed => rig'.crossed) /\ (rig.unfrozen => rig'.unfrozen)
    BY <1>1, <1>4
    DEF Emergency, EmergencyLook, Override, ShowOverride, EmergencyClaim, EmergencyPrepare, EmergencyLaunch,
        EmergencyFails, EmergencyRollback, RigRecord
<1>5. ASSUME NEW r \in Runs, Supervisor(r)
      PROVE  (rig.crossed => rig'.crossed) /\ (rig.unfrozen => rig'.unfrozen)
    <2>1. CASE Settle(r)
        <3>1. Books(r) \in RigRecord /\ Books(r).crossed = rig.crossed /\ Books(r).unfrozen = rig.unfrozen
            BY <1>1 DEF Books, Cleared, RigRecord
        <3>2. rig' = [Books(r) EXCEPT !.supervisor = IF rig.supervisor = r THEN 0 ELSE @]
            BY <2>1 DEF Settle
        <3>3. QED
            BY <3>1, <3>2 DEF RigRecord
    <2>2. CASE ~Settle(r)
        BY <1>1, <1>5, <2>2
        DEF Supervisor, Check, Popen, PopenFails, PublishHandle, Attach, SuperviseFails, Abort, Announce, ReadPhase,
            ShowPhase, ReadEnd, CloseSession, NoteRecovery, Conclude, RigRecord
    <2>3. QED
        BY <2>1, <2>2
<1>6. ASSUME NEW r \in Runs, Child(r) PROVE UNCHANGED rig
    BY <1>6 DEF Child, ChildExits, ChildHangs, HeartbeatTimeout
<1>7. QED
    BY <1>2, <1>3, <1>4, <1>5, <1>6 DEF Next, vars

\* A step that leaves the runs uncrossed finds them uncrossed and apart.
LEMMA UncrossedStep ==
    ASSUME TriggerIInv, [Next]_vars, ~rig'.crossed
    PROVE  ~rig.crossed /\ RunsApart
<1>1. ~rig.crossed
    BY HistoryStays
<1>2. \A r \in Runs : ~NeedsFlags(r) => pc[r] \in Finished /\ ~Live(r) /\ ~run[r].alive
    BY SupervisorAt DEF NeedsFlags, ChildKnown, Finished, Holding
<1>3. ASSUME NEW q \in Requests, StartRejected(q) \/ StartAccepted(q) \/ StartBroken(q)
      PROVE  \A r \in Runs : pc[r] \in Finished /\ ~Live(r) /\ ~run[r].alive
    <2>1. rig'.crossed = Crosses
        BY <1>3, StateIs DEF StartRejected, StartAccepted, StartBroken, RigRecord
    <2>2. QED
        BY <1>2, <2>1 DEF Crosses
<1>4. ASSUME NEW a \in Actors, EmergencyClaim(a), ~rig.starting
      PROVE  \A r \in Runs \ {a} : pc[r] \in Finished /\ ~Live(r) /\ ~run[r].alive
    <2>1. rig'.crossed = (rig.crossed \/ \E r \in Runs \ {a} : NeedsFlags(r))
        BY <1>4, StateIs DEF EmergencyClaim, RigRecord
    <2>2. QED
        BY <1>2, <2>1
<1>5. \A q \in Requests : ~StartUnfrozen(q)
    BY UnfrozenIs
<1>6. \A a \in Actors : EmergencyFails(a) => ~rig.manual
    BY StateIs DEF EmergencyFails, RigRecord
<1>7. QED
    BY <1>1, <1>3, <1>4, <1>5, <1>6 DEF RunsApart, Begins

LEMMA AloneAlways == Spec => [](rig.crossed \/ AloneInv)
<1>1. Init /\ TriggerIInv => rig.crossed \/ AloneInv
    BY AloneStarts
<1>2. TriggerIInv /\ (rig.crossed \/ AloneInv) /\ [Next]_vars => (rig.crossed \/ AloneInv)'
    BY AloneStep, UncrossedStep
<1>3. QED
    BY <1>1, <1>2, TriggerAlways, PTL DEF Spec

\* A child that outlives its supervisor stays on the books, where STOP finds it, as long as no runs
\* crossed (trigger_service.py).
THEOREM SurvivorIsReachable == Spec => [](rig.crossed \/ SurvivorStaysReachable)
<1>1. TriggerIInv /\ AloneInv => SurvivorStaysReachable
    BY DEF AloneInv, Owned, SurvivorStaysReachable
<1>2. QED
    BY <1>1, TriggerAlways, AloneAlways, PTL

\* The latest run is not watched while a startup is under way or was cancelled, whatever requests meet,
\* unless a START left its flag.
LatestWaits == (rig.starting \/ rig.cancel) /\ ~rig.unfrozen => runs # 0 /\ pc[runs] \notin Watching

\* A settlement raises no flag, whosever the books are.
LEMMA SettleLowers ==
    ASSUME TriggerIInv, NEW r \in Runs, Settle(r)
    PROVE  /\ (rig'.starting => rig.starting) /\ (rig'.cancel => rig.cancel) /\ UNCHANGED runs
           /\ \E step \in {"done", "note", "conclude"} : Moves(r, step)
<1>1. rig \in RigRecord /\ r \in Actors
    BY StateIs
<1>2. (Books(r).starting => rig.starting) /\ (Books(r).cancel => rig.cancel) /\ Books(r) \in RigRecord
    BY <1>1 DEF Books, Cleared, RigRecord
<1>3. rig' = [Books(r) EXCEPT !.supervisor = IF rig.supervisor = r THEN 0 ELSE @]
    BY DEF Settle
<1>4. (rig'.starting => rig.starting) /\ (rig'.cancel => rig.cancel)
    BY <1>2, <1>3 DEF RigRecord
<1>5. \E step \in {"done", "note", "conclude"} : pc' = [pc EXCEPT ![r] = step]
    BY DEF Settle, Goto
<1>6. QED
    BY <1>1, <1>4, <1>5, MovesTo DEF Settle

LEMMA LatestWaitsStep == TriggerIInv /\ LatestWaits /\ [Next]_vars => LatestWaits'
<1> SUFFICES ASSUME TriggerIInv, LatestWaits, [Next]_vars, rig'.starting \/ rig'.cancel, ~rig'.unfrozen,
                    ~rig.unfrozen
             PROVE  runs' # 0 /\ pc'[runs'] \notin Watching
    BY HistoryStays DEF LatestWaits
<1>1. runs \in 0 .. MaxRuns /\ (runs # 0 => runs \in Runs) /\ Runs \subseteq Actors
    BY StateIs DEF Runs
<1>2. CASE Calm
    BY <1>1, <1>2 DEF LatestWaits, Calm, CalmRig, CalmMove, Watching, ToRecovery
<1>3. ASSUME NEW q \in Requests, StartRejected(q) PROVE FALSE
    BY <1>3, RejectIs DEF FlagsReset
<1>4. ASSUME NEW q \in Requests, StartAccepted(q) PROVE runs' # 0 /\ pc'[runs'] \notin Watching
    BY <1>1, <1>4, AcceptIs, StateIs DEF Admits, Watching
<1>5. ASSUME NEW q \in Requests, StartBroken(q) PROVE FALSE
    BY <1>5, BrokenIs DEF FlagsReset
<1>6. ASSUME NEW q \in Requests, StopAccepted(q) PROVE runs' # 0 /\ pc'[runs'] \notin Watching
    BY <1>1, <1>6, StopIs DEF LatestWaits, Moves
<1>7. ASSUME NEW a \in Actors, EmergencyClaim(a), ~rig.starting PROVE runs' # 0 /\ pc'[runs'] \notin Watching
    BY <1>1, <1>7, ClaimIs, StateIs DEF Admits, Watching
<1>8. ASSUME NEW a \in Actors, EmergencyPrepare(a) PROVE runs' # 0 /\ pc'[runs'] \notin Watching
    BY <1>1, <1>8, PrepareIs DEF LatestWaits, Moves, FlagsStay, Watching
<1>9. ASSUME NEW a \in Actors, EmergencyLaunch(a) PROVE runs' # 0 /\ pc'[runs'] \notin Watching
    BY <1>1, <1>9, LaunchIs DEF LatestWaits, FlagsStay, Watching
<1>10. ASSUME NEW a \in Actors, EmergencyFails(a) PROVE FALSE
    BY <1>10, FailsIs DEF FlagsReset
<1>11. ASSUME NEW a \in Actors, EmergencyRollback(a) PROVE runs' # 0 /\ pc'[runs'] \notin Watching
    BY <1>1, <1>11, RollbackIs DEF LatestWaits, Moves, FlagsStay, Watching
<1>12. ASSUME NEW r \in Runs, Popen(r) \/ PublishHandle(r) \/ CloseSession(r) \/ Conclude(r)
       PROVE  runs' # 0 /\ pc'[runs'] \notin Watching
    BY <1>1, <1>12, PopenIs, HandleIs, CloseIs, ConcludeIs DEF LatestWaits, Moves, FlagsStay, Watching
<1>13. ASSUME NEW r \in Runs, Attach(r), ~rig.cancel PROVE FALSE
    BY <1>13, AttachIs
<1>14. ASSUME NEW r \in Runs, Settle(r) PROVE runs' # 0 /\ pc'[runs'] \notin Watching
    BY <1>1, <1>14, SettleLowers DEF LatestWaits, Moves, Watching
<1>15. ASSUME NEW q \in Requests, StartUnfrozen(q) PROVE FALSE
    BY <1>15, UnfrozenIs
<1>16. QED
    BY <1>2, <1>3, <1>4, <1>5, <1>6, <1>7, <1>8, <1>9, <1>10, <1>11, <1>12, <1>13, <1>14,
       <1>15, StepKinds DEF Major

\* The startup that a STOP cancelled, which is the latest run's, is never announced nor watched, whatever
\* requests meet (trigger_service.py, the second look at the cancellation).
THEOREM CancelledStartNeverRuns == Spec => []CancelledNeverRuns
<1>1. Init => LatestWaits
    BY DEF Init, LatestWaits
<1>2. LatestWaits => CancelledNeverRuns
    BY DEF LatestWaits, CancelledNeverRuns, Watching
<1>3. QED
    BY <1>1, <1>2, TriggerAlways, LatestWaitsStep, PTL DEF Spec

-----------------------------------------------------------------------------
(* Where runs come from, and which were stopped *)

\* A journaled run has an entry of its own, or that of the one earlier run that it recovers, which was
\* not stopped and does nothing but wait for it.
Original(r) ==
    /\ run[r].attempt = 0 => run[r].id \in {0, r}
    /\ run[r].attempt = 0 /\ run[r].kind \in {"real", "totality"} => run[r].id = r
    /\ run[r].attempt = 1 =>
           /\ run[r].id \in Runs /\ run[r].id < r /\ run[run[r].id].attempt = 0
           /\ pc[run[r].id] \in Recoverer \cup {"done"} /\ run[r].id \notin asked
OnceRecovered ==
    \A r, s \in Runs : run[r].attempt = 1 /\ run[s].attempt = 1 /\ run[r].id = run[s].id => r = s
\* An emergency start by a supervisor recovers its run; one by a request is a first attempt.
HandOriginal(a) ==
    pc[a] \in SettingUp =>
        IF a \in Runs THEN run[mine[a]].attempt = 1 /\ run[mine[a]].id = a
                      ELSE run[mine[a]].attempt = 0
\* A run that was stopped is known to be stopped until it is settled, then it ends.
StopNoted(r) ==
    r \in asked =>
        /\ r <= runs
        /\ pc[r] \in Unsettled => rig.manual
        /\ pc[r] \notin ToRecovery
        /\ pc[r] = "conclude" => run[r].manual \/ run[r].alive

OriginInv ==
    /\ \A r \in Runs : Original(r) /\ StopNoted(r)
    /\ OnceRecovered
    /\ \A a \in Actors : HandOriginal(a)

\* Runs that keep their origin, wait where they waited, and were not stopped since, are as original as before.
LEMMA OriginsKeep ==
    ASSUME TriggerIInv, OriginInv, \A r \in Runs : SameOrigin(r),
           \A r \in Runs : pc[r] \in Recoverer \cup {"done"} => pc'[r] \in Recoverer \cup {"done"},
           asked' \subseteq asked \cup {runs}
    PROVE  (\A r \in Runs : Original(r)') /\ OnceRecovered'
<1>1. Runs \subseteq Nat \ {0}
    BY StateIs
<1>2. ASSUME NEW r \in Runs PROVE Original(r)'
    <2>1. Original(r) /\ SameOrigin(r)
        BY DEF OriginInv
    <2>2. CASE run[r].attempt = 1
        <3>1. PICK o \in Runs : /\ o = run[r].id /\ o < r /\ run[o].attempt = 0 /\ pc[o] \in Recoverer \cup {"done"}
                                /\ o \notin asked
            BY <2>1, <2>2 DEF Original
        <3>2. r <= runs
            <4>1. run[r] # NewRun
                BY <2>2 DEF NewRun
            <4>2. QED
                BY <1>1, <4>1, StateIs, SupervisorAt DEF Numbered
        <3>3. o # runs
            BY <1>1, <3>1, <3>2, StateIs
        <3>4. SameOrigin(o) /\ pc'[o] \in Recoverer \cup {"done"} /\ o \notin asked'
            BY <3>1, <3>3
        <3>5. QED
            BY <2>1, <2>2, <3>1, <3>4 DEF Original, SameOrigin
    <2>3. CASE run[r].attempt # 1
        BY <2>1, <2>3 DEF Original, SameOrigin
    <2>4. QED
        BY <2>2, <2>3
<1>3. OnceRecovered'
    BY DEF OriginInv, OnceRecovered, SameOrigin
<1>4. QED
    BY <1>2, <1>3

\* The admission of a first attempt adds a run with an entry of its own, or none.
LEMMA OriginsAdmit ==
    ASSUME TriggerIInv, OriginInv, NEW a, NEW there, NEW kind, NEW id, NEW step,
           Admits(a, there, kind, 0, id, step), a \in Runs => pc[a] \notin Recoverer \cup {"done"},
           id \in {0, New}, kind \in {"real", "totality"} => id = New, UNCHANGED asked
    PROVE  (\A r \in Runs : Original(r)') /\ OnceRecovered'
<1>1. Runs \subseteq Nat \ {0} /\ Runs \subseteq Actors
    BY StateIs
<1>2. PICK n \in Runs :
      /\ n = New /\ pc[n] = "unborn" /\ run[n] = NewRun /\ run'[n].attempt = 0 /\ run'[n].id = id
      /\ run'[n].kind = kind /\ \A s \in Runs \ {n} : run'[s] = run[s] /\ (s # a => pc'[s] = pc[s])
    BY <1>1 DEF Admits
<1>3. ASSUME NEW r \in Runs \ {n} PROVE Original(r)'
    <2>1. Original(r) /\ run'[r] = run[r]
        BY <1>2 DEF OriginInv
    <2>2. CASE run[r].attempt = 1
        <3>1. PICK o \in Runs : /\ o = run[r].id /\ o < r /\ run[o].attempt = 0 /\ pc[o] \in Recoverer \cup {"done"}
                                /\ o \notin asked
            BY <2>1, <2>2 DEF Original
        <3>2. o # n /\ o # a
            BY <1>2, <3>1 DEF Recoverer, SettingUp
        <3>3. QED
            BY <1>2, <2>1, <2>2, <3>1, <3>2 DEF Original
    <2>3. CASE run[r].attempt # 1
        BY <2>1, <2>3 DEF Original
    <2>4. QED
        BY <2>2, <2>3
<1>4. Original(n)'
    BY <1>2 DEF Original
<1>5. OnceRecovered'
    BY <1>2 DEF OriginInv, OnceRecovered
<1>6. QED
    BY <1>3, <1>4, <1>5

\* The claim of a recovery admits the one run that recovers run a, which was not stopped.
LEMMA OriginsRecover ==
    ASSUME TriggerIInv, AloneInv, OriginInv, NEW a \in Runs, EmergencyClaim(a), ~rig.starting
    PROVE  (\A r \in Runs : Original(r)') /\ OnceRecovered' /\ run'[New].attempt = 1 /\ run'[New].id = a
           /\ a < New /\ a \notin asked
<1>1. Runs \subseteq Nat \ {0} /\ Runs \subseteq Actors /\ runs \in Nat /\ a \in Actors
    BY StateIs
<1>2. pc[a] = "claim" /\ run[a].attempt = 0 /\ run[a].id = a /\ a \notin asked
    BY ClaimIs, SupervisorAt, <1>1 DEF AloneInv, Resting, OriginInv, Original, StopNoted, RecoversOnce, ToRecovery
<1>3. PICK n \in Runs :
      /\ n = New /\ n # a /\ pc[n] = "unborn" /\ run[n] = NewRun /\ run'[n].attempt = 1 /\ run'[n].id = a
      /\ run'[n].kind = "totality" /\ pc'[a] = "prepare"
      /\ \A s \in Runs \ {n} : run'[s] = run[s] /\ (s # a => pc'[s] = pc[s])
    BY <1>1, <1>2, ClaimIs DEF Admits
<1>4. UNCHANGED asked
    BY <1>1, ClaimIs
<1>5. a < n
    <2>1. a <= runs
        BY <1>1, <1>2, SupervisorAt DEF Numbered
    <2>2. QED
        BY <1>1, <1>3, <2>1 DEF New
<1>6. ASSUME NEW r \in Runs \ {n}, run[r].attempt = 1 PROVE run[r].id # a /\ Original(r)'
    <2>1. Original(r) /\ run'[r] = run[r]
        BY <1>3 DEF OriginInv
    <2>2. PICK o \in Runs : /\ o = run[r].id /\ o < r /\ run[o].attempt = 0 /\ pc[o] \in Recoverer \cup {"done"}
                            /\ o \notin asked
        BY <1>6, <2>1 DEF Original
    <2>3. o # n /\ o # a
        BY <1>2, <1>3, <2>2 DEF Recoverer, SettingUp
    <2>4. QED
        BY <1>3, <1>4, <1>6, <2>1, <2>2, <2>3 DEF Original
<1>7. ASSUME NEW r \in Runs \ {n}, run[r].attempt # 1 PROVE Original(r)'
    BY <1>3, <1>7 DEF OriginInv, Original
<1>8. Original(n)'
    BY <1>2, <1>3, <1>4, <1>5 DEF Original, Recoverer, SettingUp
<1>9. OnceRecovered'
    BY <1>3, <1>6 DEF OriginInv, OnceRecovered
<1>10. QED
    BY <1>2, <1>3, <1>5, <1>6, <1>7, <1>8, <1>9

\* Emergency starts know their runs as long as those keep their origin.
LEMMA HandOriginsKeep ==
    ASSUME TriggerIInv, OriginInv, UNCHANGED mine, \A a \in Actors : pc'[a] \in SettingUp => pc[a] \in SettingUp,
           \A r \in Runs : r <= runs => SameOrigin(r)
    PROVE  \A a \in Actors : HandOriginal(a)'
<1> SUFFICES ASSUME NEW a \in Actors, pc'[a] \in SettingUp PROVE HandOriginal(a)'
    BY DEF HandOriginal
<1>1. HandOriginal(a) /\ pc[a] \in SettingUp
    BY DEF OriginInv
<1>2. mine[a] \in Runs /\ pc[mine[a]] # "unborn"
    BY <1>1, HandIs
<1>3. mine[a] <= runs
    BY <1>2, SupervisorAt DEF Numbered
<1>4. QED
    BY <1>1, <1>2, <1>3 DEF HandOriginal, SameOrigin

\* The origins of the runs, through calm steps, the supervisors' and those of emergency starts, which are
\* set up in order
LEMMA OriginCalm ==
    ASSUME TriggerIInv, AloneInv, OriginInv, Calm
    PROVE  OriginInv'
<1>1. \A r \in Runs : SameOrigin(r) /\ CalmMove(pc[r], pc'[r]) /\ CalmRecord(r)
    BY DEF Calm, CalmRecord, SameOrigin
<1>2. (\A r \in Runs : Original(r)') /\ OnceRecovered'
    <2>1. \A r \in Runs : pc[r] \in Recoverer \cup {"done"} => pc'[r] \in Recoverer \cup {"done"}
        BY <1>1 DEF CalmMove, Recoverer, SettingUp, Watching, ToRecovery
    <2>2. QED
        BY <1>1, <2>1, OriginsKeep DEF Calm
<1>3. \A a \in Actors : HandOriginal(a)'
    BY <1>1, HandOriginsKeep DEF Calm
<1>4. \A r \in Runs : StopNoted(r)'
    BY <1>1 DEF OriginInv, StopNoted, Calm, CalmRig, CalmMove, CalmRecord, Unsettled, Starting, Watching, Ending, ToRecovery
<1>5. QED
    BY <1>2, <1>3, <1>4 DEF OriginInv

LEMMA OriginStart ==
    ASSUME TriggerIInv, AloneInv, OriginInv, RunsApart, NEW q \in Requests,
           StartRejected(q) \/ StartAccepted(q) \/ StartBroken(q)
    PROVE  OriginInv'
<1>1. q \in Actors /\ q \notin Runs /\ Runs \subseteq Actors /\ Runs \subseteq Nat \ {0} /\ runs \in Nat
    BY StateIs
<1>2. \A r \in Runs : pc[r] \in Finished
    BY RejectIs, AcceptIs, BrokenIs
<1>3. UNCHANGED <<mine, asked>>
    BY RejectIs, AcceptIs, BrokenIs
<1>4. CASE StartRejected(q)
    <2>1. /\ UNCHANGED <<run, runs>> /\ pc'[q] = "done" /\ \A b \in Actors \ {q} : pc'[b] = pc[b]
        BY <1>4, RejectIs DEF Moves
    <2>2. (\A r \in Runs : Original(r)') /\ OnceRecovered'
        BY <1>1, <1>3, <2>1, OriginsKeep DEF SameOrigin
    <2>3. \A a \in Actors : HandOriginal(a)'
        BY <1>1, <1>3, <2>1, HandOriginsKeep DEF SameOrigin, SettingUp
    <2>4. \A r \in Runs : StopNoted(r)'
        BY <1>1, <1>2, <1>3, <2>1
        DEF OriginInv, StopNoted, Finished, Unsettled, Starting, Watching, Ending, ToRecovery
    <2>5. QED
        BY <2>2, <2>3, <2>4 DEF OriginInv
<1>5. ASSUME NEW step \in {"check", "done"}, Admits(q, "done", Kind[q], 0, Journaled(Kind[q], New), step),
             Kind[q] \in Modes
      PROVE  OriginInv'
    <2>1. Journaled(Kind[q], New) \in {0, New} /\ (Kind[q] \in {"real", "totality"} => Journaled(Kind[q], New) = New)
        BY DEF Journaled
    <2>2. (\A r \in Runs : Original(r)') /\ OnceRecovered'
        <3> DEFINE id == Journaled(Kind[q], New)
        <3> HIDE DEF id
        <3>1. Admits(q, "done", Kind[q], 0, id, step) /\ id \in {0, New} /\ (Kind[q] \in {"real", "totality"} => id = New)
            BY <1>5, <2>1 DEF id
        <3>2. QED
            BY <1>1, <1>3, <3>1, OriginsAdmit
    <2>3. PICK n \in Runs : /\ n = New /\ pc[n] = "unborn" /\ pc'[n] = step /\ pc'[q] = "done" /\ runs' = n
                            /\ \A b \in Actors \ {q, n} : pc'[b] = pc[b]
                            /\ \A s \in Runs \ {n} : run'[s] = run[s]
        BY <1>5 DEF Admits
    <2>4. \A a \in Actors : HandOriginal(a)'
        BY <1>1, <1>3, <2>3, HandOriginsKeep DEF New, SameOrigin, SettingUp
    <2>5. ASSUME NEW r \in asked PROVE StopNoted(r)'
        <3>1. r \in Runs /\ r <= runs /\ r # n
            BY <1>1, <2>3, StateIs DEF OriginInv, StopNoted, New
        <3>2. pc'[r] = pc[r] /\ pc[r] \in Finished /\ r <= runs'
            BY <1>1, <1>2, <2>3, <3>1 DEF New
        <3>3. QED
            BY <3>2 DEF StopNoted, Finished, Unsettled, Starting, Watching, Ending, ToRecovery
    <2>6. QED
        BY <1>3, <2>2, <2>4, <2>5 DEF OriginInv, StopNoted
<1>6. CASE StartAccepted(q)
    BY <1>5, <1>6, AcceptIs
<1>7. CASE StartBroken(q)
    BY <1>5, <1>7, BrokenIs
<1>8. QED
    BY <1>4, <1>6, <1>7

LEMMA OriginClaim ==
    ASSUME TriggerIInv, AloneInv, OriginInv, RunsApart, NEW a \in Actors, EmergencyClaim(a), ~rig.starting
    PROVE  OriginInv'
<1>1. /\ Runs \subseteq Actors /\ Runs \subseteq Nat \ {0} /\ runs \in Nat /\ Requests \cap Runs = {}
      /\ Actors = Requests \cup Runs
    BY StateIs
<1>2. PICK n \in Runs :
      /\ n = New /\ n # a /\ pc[n] = "unborn" /\ pc'[n] = "born" /\ pc'[a] = "prepare" /\ runs' = n
      /\ mine'[a] = n /\ (\A b \in Actors \ {a} : mine'[b] = mine[b]) /\ UNCHANGED asked
      /\ run'[n].kind = "totality" /\ run'[n].attempt = (IF a \in Runs THEN run[a].attempt + 1 ELSE 0)
      /\ \A b \in Actors \ {a, n} : pc'[b] = pc[b]
      /\ \A s \in Runs \ {n} : run'[s] = run[s]
    BY ClaimIs DEF Admits
<1>3. pc[a] = "claim" /\ \A r \in Runs \ {a} : pc[r] \in Finished
    BY ClaimIs
<1>4. /\ (\A r \in Runs : Original(r)') /\ OnceRecovered'
      /\ IF a \in Runs THEN run'[n].attempt = 1 /\ run'[n].id = a ELSE run'[n].attempt = 0
    <2>1. CASE a \in Runs
        BY <1>2, <2>1, OriginsRecover
    <2>2. CASE a \notin Runs
        <3>1. Admits(a, "prepare", "totality", 0, New, "born") /\ UNCHANGED asked
            BY <2>2, ClaimIs
        <3>2. QED
            BY <1>2, <2>2, <3>1, OriginsAdmit
    <2>3. QED
        BY <2>1, <2>2
<1>5. ASSUME NEW b \in Actors, pc'[b] \in SettingUp PROVE HandOriginal(b)'
    <2>1. CASE b = a
        BY <1>2, <1>4, <2>1 DEF HandOriginal
    <2>2. CASE b # a
        <3>1. b # n /\ pc'[b] = pc[b] /\ mine'[b] = mine[b]
            BY <1>2, <1>5, <2>2 DEF SettingUp
        <3>2. mine[b] \in Runs /\ mine[b] # n
            BY <1>2, <1>5, <3>1, HandIs
        <3>3. QED
            BY <1>2, <1>5, <3>1, <3>2 DEF OriginInv, HandOriginal
    <2>3. QED
        BY <2>1, <2>2
<1>6. ASSUME NEW r \in asked PROVE StopNoted(r)'
    <2>1. r \in Runs /\ r <= runs /\ r # n /\ r <= runs'
        <3>1. r \in Runs /\ r <= runs
            BY StateIs DEF OriginInv, StopNoted
        <3>2. r \in Nat /\ runs \in Nat /\ n = runs + 1 /\ runs' = n
            BY <1>1, <1>2, <3>1 DEF New
        <3>3. QED
            BY <3>1, <3>2
    <2>2. r # a
        BY <1>3, <2>1 DEF OriginInv, StopNoted, ToRecovery
    <2>3. pc'[r] = pc[r] /\ pc[r] \in Finished
        BY <1>1, <1>2, <1>3, <2>1, <2>2
    <2>4. QED
        BY <2>1, <2>3 DEF StopNoted, Finished, Unsettled, Starting, Watching, Ending, ToRecovery
<1>7. QED
    BY <1>2, <1>4, <1>5, <1>6 DEF OriginInv, StopNoted, HandOriginal

\* The run that a STOP is about is the latest: it starts, or its child is alive.
LEMMA StoppedIs ==
    ASSUME TriggerIInv, AloneInv, Busy
    PROVE  /\ CurrentRun = runs /\ runs \in Runs
           /\ pc[runs] \in Unsettled \/ (run[runs].alive /\ Live(runs))
           /\ pc[runs] \notin ToRecovery
<1>1. Live(rig.procs) => rig.procs = runs /\ runs \in Runs
    BY StateIs DEF AloneInv, Placed, RigRecord, Live
<1>2. rig.starting => runs \in Runs /\ pc[runs] \in Starting \cup Ending
    BY StateIs DEF AloneInv, StartUnderWay, Runs
<1>3. CASE Live(rig.procs)
    <2>1. ChildKnown(runs) /\ Resting(runs) /\ Live(runs)
        BY <1>1, <1>3, SupervisorAt DEF AloneInv
    <2>2. pc[runs] \in Unsettled \/ (run[runs].alive /\ Live(runs))
        BY <2>1 DEF ChildKnown, Holding, Unsettled, Starting, Watching, Ending
    <2>3. pc[runs] \notin ToRecovery
        BY <2>1, <2>2 DEF Resting, Unsettled, Starting, Watching, Ending, ToRecovery
    <2>4. QED
        BY <1>1, <1>3, <2>2, <2>3 DEF CurrentRun
<1>4. CASE ~Live(rig.procs)
    BY <1>2, <1>4, StateIs DEF Busy, CurrentRun, Unsettled, Starting, Ending, ToRecovery
<1>5. QED
    BY <1>3, <1>4

LEMMA OriginStop ==
    ASSUME TriggerIInv, AloneInv, OriginInv, NEW q \in Requests, StopAccepted(q)
    PROVE  OriginInv'
<1>1. /\ UNCHANGED <<run, runs, mine>> /\ rig'.manual /\ Busy /\ asked' = asked \cup ({CurrentRun} \ {0})
      /\ \A b \in Actors \ {q} : pc'[b] = pc[b]
      /\ pc'[q] \in {"join", "decide"}
    BY StopIs DEF Moves
<1>2. CurrentRun = runs /\ runs \in Runs /\ pc[runs] \notin ToRecovery /\ (pc[runs] \in Unsettled \/ run[runs].alive)
    BY <1>1, StoppedIs
<1>3. \A r \in Runs : pc'[r] = pc[r] /\ r \in Nat
    BY <1>1, StateIs
<1>4. (\A r \in Runs : Original(r)') /\ OnceRecovered'
    BY <1>1, <1>2, <1>3, OriginsKeep DEF SameOrigin
<1>5. \A a \in Actors : HandOriginal(a)'
    BY <1>1, HandOriginsKeep DEF SameOrigin, SettingUp
<1>6. ASSUME NEW r \in Runs, r \in asked' PROVE StopNoted(r)'
    <2>1. CASE r = runs
        BY <1>1, <1>2, <1>3, <2>1 DEF StopNoted, Unsettled, Starting, Watching, Ending
    <2>2. CASE r # runs
        <3>1. r \in asked /\ StopNoted(r)
            BY <1>1, <1>2, <1>6, <2>2 DEF OriginInv
        <3>2. QED
            BY <1>1, <1>3, <3>1 DEF StopNoted
    <2>3. QED
        BY <2>1, <2>2
<1>7. QED
    BY <1>4, <1>5, <1>6 DEF OriginInv, StopNoted

LEMMA OriginSupervisor ==
    ASSUME TriggerIInv, AloneInv, OriginInv, NEW r \in Runs,
           \/ Popen(r) \/ PublishHandle(r) \/ (Attach(r) /\ ~rig.cancel) \/ CloseSession(r) \/ Settle(r)
           \/ Conclude(r)
    PROVE  OriginInv'
<1>1. \A s \in Runs \ {r} : pc'[s] = pc[s] /\ run'[s] = run[s]
    BY StateIs, PopenIs, HandleIs, AttachIs, CloseIs, SettleIs, SettlesOwn, ConcludeIs DEF Moves, Settle
<1>2. UNCHANGED <<runs, mine, asked>> /\ \A b \in Requests : pc'[b] = pc[b]
    BY StateIs, PopenIs, HandleIs, AttachIs, CloseIs, SettleIs, SettlesOwn, ConcludeIs DEF Moves, Settle
<1>3. SameOrigin(r) /\ pc'[r] \notin SettingUp /\ (pc[r] \in Unsettled \/ (pc[r] = "conclude" /\ pc'[r] = "done"))
    BY PopenIs, HandleIs, AttachIs, CloseIs, SettleIs, SettlesOwn, ConcludeIs
    DEF Moves, Settle, SameOrigin, Unsettled, Starting, Watching, Ending, SettingUp
<1>4. (\A s \in Runs : Original(s)') /\ OnceRecovered'
    <2>1. \A s \in Runs : SameOrigin(s)
        BY <1>1, <1>3 DEF SameOrigin
    <2>2. \A s \in Runs : pc[s] \in Recoverer \cup {"done"} => pc'[s] \in Recoverer \cup {"done"}
        BY <1>1, <1>3 DEF Recoverer, SettingUp, Unsettled, Starting, Watching, Ending
    <2>3. QED
        BY <1>2, <2>1, <2>2, OriginsKeep
<1>5. \A a \in Actors : HandOriginal(a)'
    <2>1. \A a \in Actors : pc'[a] \in SettingUp => pc[a] \in SettingUp
        BY <1>1, <1>2, <1>3, StateIs
    <2>2. QED
        BY <1>1, <1>2, <1>3, <2>1, HandOriginsKeep DEF SameOrigin
<1>6. ASSUME NEW s \in Runs, s \in asked PROVE StopNoted(s)'
    <2>1. StopNoted(s)
        BY DEF OriginInv
    <2>2. CASE s # r
        <3>1. pc[s] \in Unsettled => Conclude(r)
            <4>1. pc[s] \in Unsettled => pc[r] \notin Unsettled
                BY <2>2, LatestIs DEF Unsettled
            <4>2. QED
                BY <4>1 DEF Unsettled, Starting, Watching, Ending, Popen, PublishHandle, Attach, CloseSession, Settle
        <3>2. pc[s] \in Unsettled => rig'.manual = rig.manual
            BY <3>1, ConcludeIs DEF FlagsStay
        <3>3. QED
            BY <1>1, <1>2, <1>6, <2>1, <2>2, <3>2 DEF StopNoted
    <2>3. CASE s = r /\ Settle(r)
        <3>1. rig.manual /\ r <= runs
            BY <1>6, <2>1, <2>3 DEF StopNoted, Settle, Unsettled, Ending
        <3>2. pc'[r] = "conclude" /\ run'[r].manual
            BY <2>3, <3>1, SettleIs, SettlesOwn DEF Settle, Moves
        <3>3. QED
            BY <1>2, <2>3, <3>1, <3>2 DEF StopNoted, Unsettled, Starting, Watching, Ending, ToRecovery
    <2>4. CASE s = r /\ Conclude(r)
        <3>1. pc'[r] = "done" /\ r <= runs
            BY <1>6, <2>1, <2>4, ConcludeIs DEF StopNoted, Moves
        <3>2. QED
            BY <1>2, <2>4, <3>1 DEF StopNoted, Unsettled, Starting, Watching, Ending, ToRecovery
    <2>5. CASE s = r /\ ~Settle(r) /\ ~Conclude(r)
        <3>1. rig.manual /\ r <= runs
            BY <1>3, <1>6, <2>1, <2>5 DEF StopNoted, Conclude, Popen, PublishHandle, Attach, CloseSession
        <3>2. rig'.manual = rig.manual /\ pc'[r] \in {"handle", "attach", "announce", "settle"}
            BY <2>5, PopenIs, HandleIs, AttachIs, CloseIs DEF FlagsStay, Moves
        <3>3. QED
            BY <1>2, <2>5, <3>1, <3>2 DEF StopNoted, ToRecovery
    <2>6. QED
        BY <2>2, <2>3, <2>4, <2>5
<1>7. QED
    BY <1>2, <1>4, <1>5, <1>6 DEF OriginInv, StopNoted

LEMMA OriginSetUp ==
    ASSUME TriggerIInv, AloneInv, OriginInv, NEW a \in Actors,
           EmergencyPrepare(a) \/ EmergencyLaunch(a) \/ EmergencyFails(a) \/ EmergencyRollback(a)
    PROVE  OriginInv'
<1>1. pc[a] \in SettingUp
    BY DEF EmergencyPrepare, EmergencyLaunch, EmergencyFails, EmergencyRollback, SettingUp
<1>2. PICK m \in Runs :
      /\ m = mine[a] /\ m # a /\ pc[m] = IF pc[a] = "rollback" THEN "done" ELSE "born"
    BY <1>1, HandIs
<1>3. /\ UNCHANGED <<run, runs, mine, asked>>
      /\ \A b \in Actors \ {a, m} : pc'[b] = pc[b]
    BY <1>2, PrepareIs, LaunchIs, FailsIs, RollbackIs DEF Moves
<1>4. /\ pc'[a] \in SettingUp \cup {"conclude", "done"}
      /\ pc'[a] = "conclude" => pc[a] = "rollback"
      /\ pc'[m] = pc[m] \/ (pc[m] = "born" /\ pc'[m] \in {"check", "done"})
      /\ rig'.manual = rig.manual \/ (pc'[m] = "done" /\ pc[m] = "born")
    BY <1>2, StateIs, PrepareIs, LaunchIs, FailsIs, RollbackIs DEF Moves, FlagsStay, SettingUp
<1>5. (\A r \in Runs : Original(r)') /\ OnceRecovered'
    <2>1. \A s \in Runs : pc[s] \in Recoverer \cup {"done"} => pc'[s] \in Recoverer \cup {"done"}
        BY <1>3, <1>4, StateIs DEF Recoverer, SettingUp
    <2>2. QED
        BY <1>3, <2>1, OriginsKeep DEF SameOrigin
<1>6. \A b \in Actors : HandOriginal(b)'
    <2>1. \A b \in Actors : pc'[b] \in SettingUp => pc[b] \in SettingUp
        BY <1>1, <1>3, <1>4 DEF SettingUp
    <2>2. QED
        BY <1>3, <2>1, HandOriginsKeep DEF SameOrigin
<1>7. ASSUME NEW s \in Runs, s \in asked PROVE StopNoted(s)'
    <2>1. StopNoted(s)
        BY DEF OriginInv
    <2>2. CASE s = a
        <3>1. HandOriginal(a) /\ Original(m)
            BY <1>2 DEF OriginInv
        <3>2. FALSE
            BY <1>1, <1>2, <1>7, <2>2, <3>1 DEF HandOriginal, Original
        <3>3. QED
            BY <3>2
    <2>3. CASE s = m
        BY <1>3, <1>4, <1>7, <2>1, <2>3 DEF StopNoted, Unsettled, Starting, Watching, Ending, ToRecovery
    <2>4. CASE s # a /\ s # m
        <3>1. pc'[s] = pc[s]
            BY <1>3, <2>4, StateIs
        <3>2. pc[s] \in Unsettled => rig'.manual = rig.manual
            <4>1. pc[s] \in Unsettled => pc[m] \notin Unsettled
                BY <2>4, LatestIs DEF Unsettled
            <4>2. QED
                BY <1>4, <4>1 DEF Unsettled, Starting
        <3>3. QED
            BY <1>3, <1>7, <2>1, <3>1, <3>2 DEF StopNoted
    <2>5. QED
        BY <2>2, <2>3, <2>4
<1>8. QED
    BY <1>3, <1>5, <1>6, <1>7 DEF OriginInv, StopNoted

LEMMA OriginStarts == Init /\ TriggerIInv => OriginInv
<1> SUFFICES ASSUME Init, TriggerIInv PROVE OriginInv
    OBVIOUS
<1>1. /\ \A r \in Runs : run[r].attempt = 0 /\ run[r].id = 0 /\ run[r].kind = "none"
      /\ \A a \in Actors : pc[a] \in {"issue", "unborn"}
      /\ asked = {}
    BY DEF Init, NewRun
<1>2. QED
    BY <1>1 DEF OriginInv, Original, OnceRecovered, HandOriginal, StopNoted, SettingUp

LEMMA OriginStep == TriggerIInv /\ AloneInv /\ OriginInv /\ [Next]_vars /\ [RunsApart]_vars => OriginInv'
<1> SUFFICES ASSUME TriggerIInv, AloneInv, OriginInv, [Next]_vars, [RunsApart]_vars PROVE OriginInv'
    OBVIOUS
<1>1. CASE Calm
    BY <1>1, OriginCalm
<1>2. CASE ~Calm
    <2>1. Major /\ RunsApart
        BY <1>2, MajorSteps
    <2>2. QED
        BY <2>1, OriginStart, OriginClaim, OriginSupervisor, OriginSetUp, OriginStop DEF Major
<1>3. QED
    BY <1>1, <1>2

LEMMA OriginAlways == Spec => [](rig.crossed \/ OriginInv)
<1>1. Init /\ TriggerIInv => rig.crossed \/ OriginInv
    BY OriginStarts
<1>2. TriggerIInv /\ (rig.crossed \/ AloneInv) /\ (rig.crossed \/ OriginInv) /\ [Next]_vars
      => (rig.crossed \/ OriginInv)'
    BY OriginStep, UncrossedStep
<1>3. QED
    BY <1>1, <1>2, TriggerAlways, AloneAlways, PTL DEF Spec

\* A run for which a STOP was accepted is not started again by the recovery, as long as no runs crossed
\* (trigger_service.py, _run's last block).
THEOREM StoppedStaysStopped == Spec => [](rig.crossed \/ StoppedRunNotRecovered)
<1>1. TriggerIInv /\ OriginInv => StoppedRunNotRecovered
    <2> SUFFICES ASSUME TriggerIInv, OriginInv, NEW r \in asked, NEW s \in Runs, s > r, run[s].id = run[r].id,
                        run[s].attempt # 0
                 PROVE  FALSE
        BY DEF StoppedRunNotRecovered
    <2>1. r \in Runs /\ r \in Nat /\ s \in Nat /\ run[r].attempt \in {0, 1} /\ run[s].attempt = 1 /\ 0 \notin Runs
        BY StateIs DEF RunRecord
    <2>2. run[s].id \in Runs /\ run[s].id \notin asked
        BY <2>1 DEF OriginInv, Original
    <2>3. run[r].attempt = 1
        BY <2>1, <2>2 DEF OriginInv, Original
    <2>4. r = s
        BY <2>1, <2>3 DEF OriginInv, OnceRecovered
    <2>5. QED
        BY <2>1, <2>4
<1>2. QED
    BY <1>1, TriggerAlways, OriginAlways, PTL

-----------------------------------------------------------------------------
(* The journal *)

\* An active entry is that of a run under way.
JournalRuns ==
    journal.status = "active" =>
        journal.id # 0 /\ \E r \in Runs : pc[r] \notin Finished /\ run[r].id = journal.id

\* An entry that stays active, for a run that stays under way
LEMMA JournalKeeps ==
    ASSUME TriggerIInv, JournalRuns, journal'.status = "active" => UNCHANGED <<journal.id, journal.status>>,
           \A r \in Runs : journal'.status = "active" /\ pc[r] \notin Finished /\ run[r].id = journal.id =>
               \E s \in Runs : pc'[s] \notin Finished /\ run'[s].id = journal.id
    PROVE  JournalRuns'
BY DEF JournalRuns

LEMMA JournalStep ==
    TriggerIInv /\ AloneInv /\ OriginInv /\ JournalRuns /\ [Next]_vars /\ [RunsApart]_vars => JournalRuns'
<1> SUFFICES ASSUME TriggerIInv, AloneInv, OriginInv, JournalRuns, [Next]_vars, [RunsApart]_vars PROVE JournalRuns'
    OBVIOUS
<1>1. /\ Runs \subseteq Actors /\ Requests \subseteq Actors /\ Requests \cap Runs = {} /\ journal \in EntryRecord
      /\ Actors = Requests \cup Runs /\ 0 \notin Runs
    BY StateIs
<1>2. CASE Calm
    <2>1. \A r \in Runs : run'[r].id = run[r].id /\ CalmMove(pc[r], pc'[r])
        BY <1>2 DEF Calm, CalmRecord
    <2>2. \A r \in Runs : pc[r] \notin Finished => pc'[r] \notin Finished
        BY <2>1 DEF CalmMove, Finished, Watching, ToRecovery
    <2>3. QED
        BY <1>2, <2>1, <2>2, JournalKeeps DEF Calm
<1>3. ASSUME NEW q \in Requests, StartRejected(q) \/ StopAccepted(q) PROVE JournalRuns'
    <2>1. UNCHANGED <<run, journal>> /\ \A r \in Runs : pc'[r] = pc[r]
        BY <1>1, <1>3, RejectIs, StopIs DEF Moves
    <2>2. QED
        BY <2>1, JournalKeeps
<1>4. ASSUME NEW q \in Requests, StartAccepted(q) \/ StartBroken(q), RunsApart PROVE JournalRuns'
    <2>1. \A r \in Runs : pc[r] \in Finished
        BY <1>4, AcceptIs, BrokenIs
    <2>2. journal.status # "active"
        BY <2>1 DEF JournalRuns
    <2>3. CASE StartBroken(q)
        BY <2>2, <2>3, BrokenIs DEF JournalRuns
    <2>4. CASE StartAccepted(q)
        <3>1. PICK n \in Runs : n = New /\ pc'[n] = "check" /\ run'[n].id = Journaled(Kind[q], n)
            BY <2>4, AcceptIs DEF Admits
        <3>2. journal' = JournalBegin(Journaled(Kind[q], n))
            BY <2>4, <3>1, AcceptIs
        <3>3. CASE Journaled(Kind[q], n) = 0
            BY <2>2, <3>2, <3>3 DEF JournalBegin, JournalRuns
        <3>4. CASE Journaled(Kind[q], n) # 0
            BY <1>1, <3>1, <3>2, <3>4 DEF JournalBegin, JournalRuns, Finished
        <3>5. QED
            BY <3>3, <3>4
    <2>5. QED
        BY <1>4, <2>3, <2>4
<1>5. ASSUME NEW a \in Actors, EmergencyClaim(a), ~rig.starting, RunsApart PROVE JournalRuns'
    <2>1. UNCHANGED journal /\ \A r \in Runs \ {a} : pc[r] \in Finished
        BY <1>5, ClaimIs
    <2>2. a \in Runs => pc'[a] = "prepare" /\ run'[a] = run[a]
        BY <1>5, ClaimIs DEF Admits
    <2>3. QED
        BY <2>1, <2>2, JournalKeeps DEF Finished
<1>6. ASSUME NEW r \in Runs, Popen(r) \/ PublishHandle(r) \/ (Attach(r) /\ ~rig.cancel) \/ CloseSession(r) \/ Settle(r)
      PROVE  JournalRuns'
    <2>1. UNCHANGED journal /\ pc'[r] \notin Finished /\ run'[r].id = run[r].id
        BY <1>6, PopenIs, HandleIs, AttachIs, CloseIs, SettleIs, SettlesOwn DEF Moves, Settle, SameOrigin, Finished
    <2>2. \A s \in Runs \ {r} : pc'[s] = pc[s] /\ run'[s] = run[s]
        BY <1>1, <1>6, PopenIs, HandleIs, AttachIs, CloseIs, SettleIs, SettlesOwn DEF Moves, Settle
    <2>3. QED
        BY <2>1, <2>2, JournalKeeps
<1>7. ASSUME NEW r \in Runs, Conclude(r) PROVE JournalRuns'
    <2>1. journal' = JournalFinish(run[r].id, Outcome(r)) /\ UNCHANGED run /\ \A s \in Runs \ {r} : pc'[s] = pc[s]
        BY <1>1, <1>7, ConcludeIs DEF Moves
    <2>2. Outcome(r) # "active"
        BY DEF Outcome
    <2>3. journal'.status = "active" => UNCHANGED journal /\ (run[r].id = 0 \/ run[r].id # journal.id)
        BY <1>1, <2>1, <2>2 DEF JournalFinish, EntryRecord
    <2>4. journal'.status = "active" => journal.id # 0
        BY <2>3 DEF JournalRuns
    <2>5. QED
        BY <2>1, <2>3, <2>4, JournalKeeps
<1>8. ASSUME NEW a \in Actors, EmergencyPrepare(a) \/ EmergencyRollback(a) PROVE JournalRuns'
    <2>1. UNCHANGED <<run, journal>> /\ (\A s \in Runs \ {a} : pc'[s] = pc[s]) /\ (a \in Runs => pc'[a] \notin Finished)
        BY <1>1, <1>8, PrepareIs, RollbackIs DEF Moves, Finished
    <2>2. QED
        BY <2>1, JournalKeeps
<1>9. ASSUME NEW a \in Actors, EmergencyLaunch(a) PROVE JournalRuns'
    <2>1. PICK m \in Runs : m = mine[a] /\ m # a /\ run[m].kind = "totality"
        BY <1>9, HandIs DEF EmergencyLaunch, SettingUp
    <2>2. UNCHANGED run /\ pc'[m] = "check" /\ (\A s \in Runs \ {a, m} : pc'[s] = pc[s])
        BY <1>1, <1>9, <2>1, LaunchIs
    <2>3. HandOriginal(a) /\ Original(m) /\ pc[a] = "launch"
        BY <1>9, <2>1 DEF OriginInv, EmergencyLaunch
    <2>4. CASE a \in Runs
        <3>1. run[m].attempt = 1 /\ run[m].id = a
            BY <2>1, <2>3, <2>4 DEF HandOriginal, SettingUp
        <3>2. run[a].attempt = 0 /\ Resting(a) /\ Original(a)
            BY <2>3, <2>4, <3>1 DEF Original, OriginInv, AloneInv
        <3>3. run[a].id = a
            BY <2>3, <3>2 DEF Original, Resting, SettingUp
        <3>4. UNCHANGED journal
            BY <1>9, <2>4, LaunchIs
        <3>5. QED
            BY <2>1, <2>2, <2>4, <3>1, <3>3, <3>4, JournalKeeps DEF Finished
    <2>5. CASE a \notin Runs
        <3>1. run[m].attempt = 0
            BY <2>1, <2>3, <2>5 DEF HandOriginal, SettingUp
        <3>2. run[m].id = m
            BY <2>1, <2>3, <3>1 DEF Original
        <3>3. journal' = JournalBegin(m)
            BY <1>9, <2>1, <2>5, LaunchIs
        <3>4. QED
            BY <1>1, <2>2, <3>2, <3>3 DEF JournalBegin, JournalRuns, Finished
    <2>6. QED
        BY <2>4, <2>5
<1>10. ASSUME NEW a \in Actors, EmergencyFails(a) PROVE JournalRuns'
    <2>1. PICK m \in Runs : m = mine[a] /\ m # a /\ run[m].kind = "totality"
        BY <1>10, HandIs DEF EmergencyFails, SettingUp
    <2>2. UNCHANGED run /\ pc'[a] = "rollback" /\ (\A s \in Runs \ {a, m} : pc'[s] = pc[s])
        BY <1>1, <1>10, <2>1, FailsIs
    <2>3. journal'.status = "active" => UNCHANGED journal /\ (run[m].id = 0 \/ run[m].id # journal.id)
        BY <1>1, <1>10, <2>1, FailsIs DEF JournalFinish, EntryRecord
    <2>4. journal'.status = "active" => journal.id # 0
        BY <2>3 DEF JournalRuns
    <2>5. QED
        BY <2>2, <2>3, <2>4, JournalKeeps DEF Finished
<1>11. QED
    BY <1>2, <1>3, <1>4, <1>5, <1>6, <1>7, <1>8, <1>9, <1>10, MajorSteps DEF Major

\* When all is quiet the journal holds no active entry, unless runs crossed (trigger_run_journal.py, as
\* trigger_service.py calls it).
THEOREM JournalIsSettled == Spec => []JournalSettled
<1>1. Init => rig.crossed \/ JournalRuns
    BY DEF Init, JournalRuns
<1>2. (rig.crossed \/ JournalRuns) => JournalSettled
    BY DEF JournalRuns, JournalSettled, Quiet
<1>3. /\ TriggerIInv /\ (rig.crossed \/ AloneInv) /\ (rig.crossed \/ OriginInv) /\ (rig.crossed \/ JournalRuns)
      /\ [Next]_vars
      => (rig.crossed \/ JournalRuns)'
    BY JournalStep, UncrossedStep
<1>4. QED
    BY <1>1, <1>2, <1>3, TriggerAlways, AloneAlways, OriginAlways, PTL DEF Spec

-----------------------------------------------------------------------------
(* What is left on the RIG *)

\* The camera session is open for a run on its way, or one that an emergency start launches or rolls back,
\* unless nobody can close it.
LeaseHeld ==
    lease \notin {0, Unclosed} =>
        pc[lease] \in Holding \/ \E a \in Actors : mine[a] = lease /\ pc[a] \in {"launch", "rollback"}

\* A session that stays open, for a run that stays on its way
LEMMA LeaseKeeps ==
    ASSUME TriggerIInv, LeaseHeld, lease' \in {0, Unclosed, lease},
           lease \in Runs /\ lease' = lease /\ pc[lease] \in Holding => pc'[lease] \in Holding,
           \A a \in Actors : lease \in Runs /\ lease' = lease /\ mine[a] = lease /\ pc[a] \in {"launch", "rollback"} =>
               mine'[a] = lease /\ pc'[a] \in {"launch", "rollback"}
    PROVE  LeaseHeld'
BY StateIs DEF LeaseHeld

LEMMA LeaseStep == TriggerIInv /\ LeaseHeld /\ [Next]_vars => LeaseHeld'
<1> SUFFICES ASSUME TriggerIInv, LeaseHeld, [Next]_vars PROVE LeaseHeld'
    OBVIOUS
<1>1. /\ Runs \subseteq Actors /\ Requests \subseteq Actors /\ Requests \cap Runs = {} /\ lease \in {0, Unclosed} \cup Runs
      /\ 0 \notin Runs
    BY StateIs
<1>2. CASE Calm
    <2>1. lease \in Runs => CalmMove(pc[lease], pc'[lease])
        BY <1>1, <1>2 DEF Calm
    <2>2. QED
        BY <1>1, <1>2, <2>1 DEF LeaseHeld, Calm, CalmMove, Holding, Watching, ToRecovery, SettingUp
<1>3. ASSUME NEW q \in Requests, StartRejected(q) \/ StartUnfrozen(q) \/ StopAccepted(q) PROVE LeaseHeld'
    BY <1>1, <1>3, RejectIs, UnfrozenIs, StopIs, LeaseKeeps DEF Moves
<1>4. ASSUME NEW q \in Requests, StartAccepted(q) \/ StartBroken(q) PROVE LeaseHeld'
    <2>1. PICK n \in Runs : /\ n = New /\ pc[n] = "unborn" /\ pc'[n] \in {"check", "done"} /\ pc[q] = "issue"
                            /\ \A b \in Actors \ {q, n} : pc'[b] = pc[b]
        BY <1>4, AcceptIs, BrokenIs DEF Admits
    <2>2. lease' \in {lease, Unclosed} \/ (lease' = n /\ pc'[n] = "check")
        BY <1>4, <2>1, AcceptIs, BrokenIs DEF Admits
    <2>3. UNCHANGED mine
        BY <1>4, AcceptIs, BrokenIs
    <2>4. CASE lease' \in {lease, Unclosed}
        BY <1>1, <2>1, <2>3, <2>4, LeaseKeeps DEF Holding
    <2>5. CASE lease' = n /\ pc'[n] = "check"
        BY <2>5 DEF LeaseHeld, Holding
    <2>6. QED
        BY <2>2, <2>4, <2>5
<1>5. ASSUME NEW a \in Actors, EmergencyClaim(a), ~rig.starting PROVE LeaseHeld'
    <2>1. PICK n \in Runs : /\ n = New /\ pc[n] = "unborn" /\ pc[a] = "claim" /\ UNCHANGED lease
                            /\ \A b \in Actors \ {a, n} : pc'[b] = pc[b]
                            /\ \A b \in Actors \ {a} : mine'[b] = mine[b]
        BY <1>5, ClaimIs DEF Admits
    <2>2. QED
        BY <1>1, <2>1, LeaseKeeps DEF Holding
<1>6. ASSUME NEW a \in Actors, EmergencyPrepare(a) PROVE LeaseHeld'
    BY <1>6, PrepareIs DEF LeaseHeld, Moves
<1>7. ASSUME NEW a \in Actors, EmergencyLaunch(a) PROVE LeaseHeld'
    <2>1. lease' = mine[a] /\ pc'[mine[a]] = "check"
        BY <1>7, LaunchIs, HandIs DEF SettingUp
    <2>2. QED
        BY <2>1 DEF LeaseHeld, Holding
<1>8. ASSUME NEW a \in Actors, EmergencyFails(a) PROVE LeaseHeld'
    <2>1. PICK m \in Runs : m = mine[a] /\ m # a /\ pc[m] = "born" /\ (pc[a] = "launch" => lease = m)
        BY <1>8, HandIs, FailsIs DEF SettingUp
    <2>2. /\ pc[a] \in {"prepare", "launch"} /\ pc'[a] = "rollback" /\ UNCHANGED <<lease, mine>>
          /\ \A b \in Actors \ {a, m} : pc'[b] = pc[b]
        BY <1>8, <2>1, FailsIs
    <2>3. QED
        BY <1>1, <2>1, <2>2, LeaseKeeps DEF Holding
<1>9. ASSUME NEW a \in Actors, EmergencyRollback(a) PROVE LeaseHeld'
    <2>1. pc[a] = "rollback" /\ UNCHANGED mine /\ \A b \in Actors \ {a} : pc'[b] = pc[b]
        BY <1>9, RollbackIs DEF Moves
    <2>2. lease' \in {0, Unclosed, lease} /\ (lease' = lease => lease # mine[a])
        BY <1>9, RollbackIs
    <2>3. QED
        BY <1>1, <2>1, <2>2, LeaseKeeps DEF Holding
<1>10. ASSUME NEW r \in Runs,
              Popen(r) \/ PublishHandle(r) \/ (Attach(r) /\ ~rig.cancel) \/ Settle(r) \/ Conclude(r)
       PROVE  LeaseHeld'
    <2>1. /\ UNCHANGED <<lease, mine>> /\ \A b \in Actors \ {r} : pc'[b] = pc[b]
          /\ pc[r] \in Holding => pc'[r] \in Holding
          /\ pc[r] \notin {"launch", "rollback"}
        BY <1>10, PopenIs, HandleIs, AttachIs, SettleLowers, ConcludeIs DEF Moves, Settle, Conclude, Holding, requestVars
    <2>2. QED
        BY <1>1, <2>1, LeaseKeeps
<1>11. ASSUME NEW r \in Runs, CloseSession(r) PROVE LeaseHeld'
    <2>1. /\ pc[r] = "close" /\ UNCHANGED mine /\ \A b \in Actors \ {r} : pc'[b] = pc[b]
          /\ lease' \in {0, Unclosed, lease} /\ (lease' = lease => lease # r)
        BY <1>11, CloseIs DEF Moves
    <2>2. QED
        BY <1>1, <2>1, LeaseKeeps
<1>12. QED
    BY <1>2, <1>3, <1>4, <1>5, <1>6, <1>7, <1>8, <1>9, <1>10, <1>11, StepKinds DEF Major

LEMMA LeaseAlways == Spec => []LeaseHeld
<1>1. Init => LeaseHeld
    BY DEF Init, LeaseHeld
<1>2. QED
    BY <1>1, TriggerAlways, LeaseStep, PTL DEF Spec

\* A child that survived stays a survivor.
LEMMA SurvivorsStay ==
    ASSUME TriggerIInv, [Next]_vars, NEW r \in Runs, run[r].alive
    PROVE  run'[r].alive
<1>1. ChildKnown(r) /\ run[r] # NewRun /\ 0 \notin Runs /\ r \in Actors /\ run[r] \in RunRecord
    BY SupervisorAt, StateIs DEF NewRun
<1>2. CASE Calm
    BY <1>2 DEF Calm, CalmRecord
<1>3. ASSUME NEW q \in Requests, StartRejected(q) \/ StartUnfrozen(q) \/ StopAccepted(q) PROVE run'[r].alive
    BY <1>3, RejectIs, UnfrozenIs, StopIs
<1>4. ASSUME NEW q \in Requests, StartAccepted(q) \/ StartBroken(q) PROVE run'[r].alive
    <2>1. r # New /\ \A s \in Runs \ {New} : run'[s] = run[s]
        BY <1>1, <1>4, AcceptIs, BrokenIs DEF Admits
    <2>2. QED
        BY <2>1
<1>5. ASSUME NEW a \in Actors, EmergencyClaim(a), ~rig.starting PROVE run'[r].alive
    <2>1. r # New /\ \A s \in Runs \ {New} : run'[s] = run[s]
        BY <1>1, <1>5, ClaimIs DEF Admits
    <2>2. QED
        BY <2>1
<1>6. ASSUME NEW a \in Actors, EmergencyPrepare(a) \/ EmergencyLaunch(a) \/ EmergencyFails(a) \/ EmergencyRollback(a)
      PROVE  run'[r].alive
    BY <1>6, PrepareIs, LaunchIs, FailsIs, RollbackIs
<1>7. ASSUME NEW s \in Runs, Popen(s) \/ PublishHandle(s) \/ (Attach(s) /\ ~rig.cancel) \/ Conclude(s) PROVE run'[r].alive
    BY <1>7, PopenIs, HandleIs, AttachIs, ConcludeIs
<1>8. ASSUME NEW s \in Runs, CloseSession(s) PROVE run'[r].alive
    <2>1. r # s
        BY <1>1, <1>8, CloseIs DEF ChildKnown, Holding
    <2>2. QED
        BY <1>8, <2>1, CloseIs
<1>9. ASSUME NEW s \in Runs, Settle(s) PROVE run'[r].alive
    <2>1. run' = [run EXCEPT ![s] = [run[s] EXCEPT !.manual = rig.manual]] /\ run[s] \in RunRecord
        BY <1>9, StateIs DEF Settle
    <2>2. QED
        BY <1>1, <2>1, StateIs DEF RunRecord
<1>10. QED
    BY <1>2, <1>3, <1>4, <1>5, <1>6, <1>7, <1>8, <1>9, StepKinds DEF Major

\* A STOP that was accepted stays accepted.
LEMMA AskedStay ==
    ASSUME TriggerIInv, [Next]_vars
    PROVE  asked \subseteq asked'
<1>1. ASSUME NEW r \in Runs, Settle(r) PROVE asked \subseteq asked'
    BY <1>1 DEF Settle
<1>2. QED
    BY <1>1, StepKinds, RejectIs, UnfrozenIs, AcceptIs, BrokenIs, StopIs, ClaimIs, PrepareIs, LaunchIs, FailsIs, RollbackIs,
       PopenIs, HandleIs, AttachIs, CloseIs, ConcludeIs DEF Major, Calm

\* The latest run is not settled yet, or its child survived.
LatestStands == runs # 0 /\ (pc[runs] \in Unsettled \/ run[runs].alive)
\* The flags are raised for the latest run only; the STOP's for one that was stopped.
FlagsHeld ==
    /\ rig.cancel => rig.starting \/ (runs # 0 /\ run[runs].alive)
    /\ rig.manual => LatestStands
    /\ rig.stopping => LatestStands /\ runs \in asked

\* Where the flags stay, and the latest run stays unsettled
LEMMA FlagsKeep ==
    ASSUME TriggerIInv, [Next]_vars, FlagsHeld, UNCHANGED runs,
           rig'.cancel => rig.cancel, rig'.manual => rig.manual, rig'.stopping => rig.stopping,
           rig'.cancel /\ rig.starting => rig'.starting,
           runs # 0 /\ pc[runs] \in Unsettled => pc'[runs] \in Unsettled
    PROVE  FlagsHeld'
<1>1. (runs # 0 /\ run[runs].alive => run'[runs].alive) /\ asked \subseteq asked'
    BY SurvivorsStay, AskedStay, StateIs DEF Runs
<1>2. QED
    BY <1>1 DEF FlagsHeld, LatestStands

\* No emergency start fails for which a STOP was accepted, where runs do not cross.
LEMMA SparedIs ==
    ASSUME TriggerIInv, OriginInv, RunsApart, NEW a \in Actors, EmergencyFails(a)
    PROVE  mine[a] \notin asked
<1>1. mine[a] \in Runs /\ pc[mine[a]] = "born" /\ ~rig.manual
    BY FailsIs, HandIs DEF RunsApart, SettingUp
<1>2. QED
    BY <1>1 DEF OriginInv, StopNoted, Unsettled, Starting

LEMMA FlagsStep ==
    TriggerIInv /\ AloneInv /\ OriginInv /\ FlagsHeld /\ [Next]_vars /\ [RunsApart]_vars => FlagsHeld'
<1> SUFFICES ASSUME TriggerIInv, AloneInv, OriginInv, FlagsHeld, [Next]_vars, [RunsApart]_vars PROVE FlagsHeld'
    OBVIOUS
<1>1. /\ Runs \subseteq Actors /\ Requests \subseteq Actors /\ Requests \cap Runs = {} /\ runs \in 0 .. MaxRuns
      /\ (runs # 0 => runs \in Runs) /\ rig \in RigRecord /\ asked \subseteq asked'
    BY StateIs, AskedStay DEF Runs
<1>2. CASE Calm
    <2>1. runs # 0 => CalmMove(pc[runs], pc'[runs])
        BY <1>1, <1>2 DEF Calm
    <2>2. runs # 0 /\ pc[runs] \in Unsettled => pc'[runs] \in Unsettled
        BY <2>1 DEF CalmMove, Unsettled, Starting, Watching, Ending, ToRecovery
    <2>3. QED
        BY <1>2, <2>2, FlagsKeep DEF Calm, CalmRig
<1>3. ASSUME NEW q \in Requests, StartRejected(q) \/ StartAccepted(q) \/ StartBroken(q), RunsApart PROVE FlagsHeld'
    <2>1. FlagsReset /\ \A r \in Runs : pc[r] \in Finished /\ ~run[r].alive
        BY <1>3, RejectIs, AcceptIs, BrokenIs
    <2>2. ~rig.stopping
        BY <1>1, <2>1 DEF FlagsHeld, LatestStands, Finished, Unsettled, Starting, Watching, Ending
    <2>3. QED
        BY <2>1, <2>2 DEF FlagsReset, FlagsHeld
<1>4. ASSUME NEW q \in Requests, StopAccepted(q) PROVE FlagsHeld'
    <2>1. CurrentRun = runs /\ runs \in Runs /\ (pc[runs] \in Unsettled \/ run[runs].alive) /\ runs # 0
        BY <1>4, StoppedIs, StopIs, StateIs
    <2>2. pc'[runs] = pc[runs] /\ UNCHANGED <<runs, run>> /\ runs \in asked'
        BY <1>1, <1>4, <2>1, StopIs DEF Moves
    <2>3. rig'.cancel => rig'.starting \/ (runs # 0 /\ run[runs].alive)
        BY <1>4, StopIs DEF FlagsHeld
    <2>4. QED
        BY <2>1, <2>2, <2>3 DEF FlagsHeld, LatestStands
<1>5. ASSUME NEW a \in Actors, EmergencyClaim(a), ~rig.starting, RunsApart PROVE FlagsHeld'
    <2>1. FlagsReset /\ pc[a] = "claim" /\ \A r \in Runs \ {a} : pc[r] \in Finished /\ ~run[r].alive
        BY <1>5, ClaimIs
    <2>2. a \in Runs => ~run[a].alive
        BY <2>1 DEF AloneInv, Resting, ToRecovery
    <2>3. ~rig.stopping
        BY <1>1, <2>1, <2>2 DEF FlagsHeld, LatestStands, Finished, Unsettled, Starting, Watching, Ending
    <2>4. QED
        BY <2>1, <2>3 DEF FlagsReset, FlagsHeld
<1>6. ASSUME NEW a \in Actors, EmergencyPrepare(a) \/ EmergencyLaunch(a) \/ EmergencyRollback(a) PROVE FlagsHeld'
    <2>1. pc[a] \in SettingUp
        BY <1>6 DEF EmergencyPrepare, EmergencyLaunch, EmergencyRollback, SettingUp
    <2>2. FlagsStay /\ UNCHANGED runs
        BY <1>6, PrepareIs, LaunchIs, RollbackIs
    <2>3. \A r \in Runs \ {a} : pc'[r] = pc[r] \/ pc'[r] = "check"
        BY <1>1, <1>6, PrepareIs, LaunchIs, RollbackIs DEF Moves
    <2>4. runs # 0 /\ pc[runs] \in Unsettled => pc'[runs] \in Unsettled
        BY <1>1, <2>1, <2>3 DEF SettingUp, Unsettled, Starting, Watching, Ending
    <2>5. QED
        BY <2>2, <2>4, FlagsKeep DEF FlagsStay
<1>7. ASSUME NEW a \in Actors, EmergencyFails(a), RunsApart PROVE FlagsHeld'
    <2>1. FlagsReset /\ mine[a] \in Runs /\ pc[mine[a]] = "born" /\ mine[a] \notin asked
        BY <1>7, FailsIs, HandIs, SparedIs DEF SettingUp
    <2>2. mine[a] = runs
        BY <2>1, LatestIs DEF Unsettled, Starting
    <2>3. ~rig.stopping
        BY <2>1, <2>2 DEF FlagsHeld
    <2>4. QED
        BY <2>1, <2>3 DEF FlagsReset, FlagsHeld
<1>8. ASSUME NEW r \in Runs, Popen(r) \/ PublishHandle(r) \/ (Attach(r) /\ ~rig.cancel) \/ CloseSession(r)
      PROVE  FlagsHeld'
    <2>1. /\ rig'.cancel = rig.cancel /\ rig'.manual = rig.manual /\ rig'.stopping = rig.stopping /\ UNCHANGED runs
          /\ rig'.starting = rig.starting \/ ~rig.cancel
        BY <1>8, PopenIs, HandleIs, AttachIs, CloseIs DEF FlagsStay
    <2>2. pc'[r] \in Unsettled /\ \A s \in Runs \ {r} : pc'[s] = pc[s]
        BY <1>1, <1>8, PopenIs, HandleIs, AttachIs, CloseIs DEF Moves, Unsettled, Starting, Watching, Ending
    <2>3. runs # 0 /\ pc[runs] \in Unsettled => pc'[runs] \in Unsettled
        BY <1>1, <2>2
    <2>4. QED
        BY <2>1, <2>3, FlagsKeep
<1>9. ASSUME NEW r \in Runs, Settle(r) PROVE FlagsHeld'
    <2>1. OwnsProcess(r) /\ pc[r] = "settle"
        BY <1>9, SettlesOwn DEF Settle
    <2>2. CASE ~run[r].alive
        BY <1>9, <2>1, <2>2, SettleIs DEF FlagsHeld
    <2>3. CASE run[r].alive
        <3>1. r = runs /\ runs # 0
            BY <2>1, LatestIs, StateIs DEF Unsettled, Ending
        <3>2. UNCHANGED runs /\ run'[r].alive /\ rig'.manual = rig.manual /\ rig'.cancel = rig.cancel
              /\ rig'.stopping = rig.stopping
            BY <1>9, <2>1, <2>3, SettleIs
        <3>3. QED
            BY <1>1, <3>1, <3>2 DEF FlagsHeld, LatestStands
    <2>4. QED
        BY <2>2, <2>3
<1>10. ASSUME NEW r \in Runs, Conclude(r) PROVE FlagsHeld'
    <2>1. FlagsStay /\ UNCHANGED runs /\ pc[r] = "conclude" /\ \A s \in Runs \ {r} : pc'[s] = pc[s]
        BY <1>1, <1>10, ConcludeIs DEF Moves
    <2>2. runs # 0 /\ pc[runs] \in Unsettled => pc'[runs] \in Unsettled
        BY <1>1, <2>1 DEF Unsettled, Starting, Watching, Ending
    <2>3. QED
        BY <2>1, <2>2, FlagsKeep DEF FlagsStay
<1>11. QED
    BY <1>2, <1>3, <1>4, <1>5, <1>6, <1>7, <1>8, <1>9, <1>10, MajorSteps DEF Major

LEMMA FlagsAlways == Spec => [](rig.crossed \/ FlagsHeld)
<1>1. Init => rig.crossed \/ FlagsHeld
    BY DEF Init, FlagsHeld
<1>2. /\ TriggerIInv /\ (rig.crossed \/ AloneInv) /\ (rig.crossed \/ OriginInv) /\ (rig.crossed \/ FlagsHeld)
      /\ [Next]_vars
      => (rig.crossed \/ FlagsHeld)'
    BY FlagsStep, UncrossedStep
<1>3. QED
    BY <1>1, <1>2, TriggerAlways, AloneAlways, OriginAlways, PTL DEF Spec

\* What starts is the latest run, until its handle is on the books or it is settled, unless a START left
\* its flag; and what is on the books is a run on its way or a child that survived.  This holds whatever
\* requests meet.
StartHeld ==
    rig.starting /\ ~rig.unfrozen /\ rig.procs = 0 =>
        /\ runs # 0
        /\ \/ pc[runs] \in {"born", "check", "build", "handle"}
           \/ pc[runs] \in Ending /\ run[runs].child = "none"
BooksHeld == StartHeld /\ HandleInUse

\* A step that neither touches the books nor begins a run
LEMMA BooksStay ==
    ASSUME TriggerIInv, [Next]_vars, BooksHeld, rig'.procs = rig.procs, rig'.starting => rig.starting, UNCHANGED runs,
           \A r \in Runs : pc[r] \in Attached => pc'[r] \in Attached,
           \A r \in Runs : pc[r] \in {"born", "check", "build", "handle"} =>
               pc'[r] \in {"born", "check", "build", "handle"} \/ (pc'[r] \in Ending /\ run'[r].child = "none")
               \/ ~rig'.starting \/ rig'.procs # 0,
           \A r \in Runs : pc[r] \in Ending /\ run[r].child = "none" =>
               (pc'[r] \in Ending /\ run'[r].child = "none") \/ ~rig'.starting
    PROVE  BooksHeld'
<1>1. (runs # 0 => runs \in Runs) /\ rig.procs \in {0} \cup Runs
    BY StateIs DEF Runs, RigRecord
<1>2. rig.procs # 0 /\ run[rig.procs].alive => run'[rig.procs].alive
    BY <1>1, SurvivorsStay
<1>3. HandleInUse'
    BY <1>1, <1>2 DEF BooksHeld, HandleInUse
<1>4. StartHeld'
    <2> SUFFICES ASSUME rig'.starting, ~rig'.unfrozen, rig'.procs = 0
                 PROVE  /\ runs # 0
                        /\ \/ pc'[runs] \in {"born", "check", "build", "handle"}
                           \/ pc'[runs] \in Ending /\ run'[runs].child = "none"
        BY DEF StartHeld
    <2>1. ~rig.unfrozen /\ rig.starting /\ rig.procs = 0
        BY HistoryStays
    <2>2. QED
        BY <1>1, <2>1 DEF BooksHeld, StartHeld
<1>5. QED
    BY <1>3, <1>4 DEF BooksHeld

LEMMA BooksStep == TriggerIInv /\ BooksHeld /\ [Next]_vars => BooksHeld'
<1> SUFFICES ASSUME TriggerIInv, BooksHeld, [Next]_vars PROVE BooksHeld'
    OBVIOUS
<1> DEFINE Waits == {"born", "check", "build", "handle"}
<1>1. /\ Runs \subseteq Actors /\ Requests \subseteq Actors /\ Requests \cap Runs = {} /\ runs \in 0 .. MaxRuns
      /\ (runs # 0 => runs \in Runs) /\ rig \in RigRecord /\ 0 \notin Runs /\ rig.procs \in {0} \cup Runs
    BY StateIs DEF Runs, RigRecord
<1>2. CASE Calm
    <2>1. \A r \in Runs : CalmMove(pc[r], pc'[r]) /\ ChildKnown(r) /\ (run'[r].child = "none" <=> run[r].child = "none")
        BY <1>2, SupervisorAt DEF Calm, CalmRecord
    <2>2. \A r \in Runs : pc[r] \in Attached => pc'[r] \in Attached
        BY <2>1 DEF CalmMove, Attached, Watching, Ending, ToRecovery
    <2>3. \A r \in Runs : pc[r] \in Waits => pc'[r] \in Waits \/ (pc'[r] \in Ending /\ run'[r].child = "none")
        BY <2>1 DEF CalmMove, ChildKnown, Childless, Ending, ToRecovery, Watching
    <2>4. \A r \in Runs : pc[r] \in Ending /\ run[r].child = "none" => pc'[r] \in Ending /\ run'[r].child = "none"
        BY <2>1 DEF CalmMove, Ending, ToRecovery, Watching
    <2>5. QED
        BY <1>2, <2>2, <2>3, <2>4, BooksStay DEF Calm, CalmRig
<1>3. ASSUME NEW q \in Requests, StartRejected(q) \/ StopAccepted(q) PROVE BooksHeld'
    <2>1. UNCHANGED <<run, runs>> /\ rig'.procs = rig.procs /\ (rig'.starting => rig.starting)
          /\ \A r \in Runs : pc'[r] = pc[r]
        BY <1>1, <1>3, RejectIs, StopIs DEF Moves, FlagsReset, HandleStays
    <2>2. QED
        BY <2>1, BooksStay
<1>4. ASSUME NEW q \in Requests, StartUnfrozen(q) PROVE BooksHeld'
    <2>1. rig'.unfrozen /\ UNCHANGED run /\ rig'.procs = rig.procs /\ \A r \in Runs : pc'[r] = pc[r]
        BY <1>1, <1>4, UnfrozenIs DEF Moves, FlagsReset, HandleStays
    <2>2. QED
        BY <1>1, <2>1 DEF BooksHeld, StartHeld, HandleInUse
<1>5. ASSUME NEW q \in Requests, StartAccepted(q) \/ StartBroken(q) PROVE BooksHeld'
    <2>1. /\ runs' = New /\ New \in Runs /\ pc[New] = "unborn" /\ run[New] = NewRun
          /\ \A r \in Runs \ {New} : pc'[r] = pc[r] /\ run'[r] = run[r]
          /\ pc'[New] = "check" \/ ~rig'.starting
          /\ rig'.procs = rig.procs
        BY <1>1, <1>5, AcceptIs, BrokenIs DEF Admits, FlagsReset, HandleStays
    <2>2. rig.procs # New
        BY <1>1, <2>1 DEF BooksHeld, HandleInUse, Attached, Watching, Ending, NewRun
    <2>3. QED
        BY <1>1, <2>1, <2>2 DEF BooksHeld, StartHeld, HandleInUse
<1>6. ASSUME NEW a \in Actors, EmergencyClaim(a), ~rig.starting PROVE BooksHeld'
    <2>1. /\ runs' = New /\ New \in Runs /\ pc[New] = "unborn" /\ run[New] = NewRun /\ pc[a] = "claim"
          /\ \A r \in Runs \ {a, New} : pc'[r] = pc[r] /\ run'[r] = run[r]
          /\ a \in Runs => a # New /\ run'[a] = run[a]
          /\ pc'[New] = "born" /\ rig'.procs = rig.procs
        BY <1>1, <1>6, ClaimIs DEF Admits, FlagsReset, HandleStays
    <2>2. rig.procs # New /\ (rig.procs = a /\ a \in Runs => run[a].alive)
        BY <1>1, <2>1 DEF BooksHeld, HandleInUse, Attached, Watching, Ending, NewRun
    <2>3. QED
        BY <1>1, <2>1, <2>2 DEF BooksHeld, StartHeld, HandleInUse
<1>7. ASSUME NEW a \in Actors, EmergencyPrepare(a) \/ EmergencyLaunch(a) \/ EmergencyRollback(a) \/ EmergencyFails(a)
      PROVE  BooksHeld'
    <2>1. pc[a] \in SettingUp
        BY <1>7 DEF EmergencyPrepare, EmergencyLaunch, EmergencyRollback, EmergencyFails, SettingUp
    <2>2. PICK m \in Runs : m = mine[a] /\ m # a /\ pc[m] = IF pc[a] = "rollback" THEN "done" ELSE "born"
        BY <2>1, HandIs
    <2>3. /\ UNCHANGED <<run, runs>> /\ rig'.procs = rig.procs /\ (rig'.starting => rig.starting)
          /\ \A r \in Runs \ {a, m} : pc'[r] = pc[r]
          /\ pc'[m] \in {pc[m], "check"} \/ ~rig'.starting
        BY <1>1, <1>7, <2>2, PrepareIs, LaunchIs, RollbackIs, FailsIs DEF Moves, FlagsStay, FlagsReset, HandleStays
    <2>4. pc[a] \notin Attached /\ pc[a] \notin Waits /\ pc[m] \notin Attached
        BY <2>1, <2>2 DEF SettingUp, Attached, Watching, Ending
    <2>5. QED
        BY <1>1, <2>1, <2>2, <2>3, <2>4, BooksStay DEF SettingUp, Attached, Watching, Ending
<1>8. ASSUME NEW r \in Runs, Popen(r) \/ CloseSession(r) \/ Conclude(r) PROVE BooksHeld'
    <2>1. /\ UNCHANGED runs /\ rig'.procs = rig.procs /\ rig'.starting = rig.starting
          /\ \A s \in Runs \ {r} : pc'[s] = pc[s] /\ run'[s] = run[s]
          /\ \/ pc[r] = "build" /\ pc'[r] = "handle"
             \/ pc[r] = "close" /\ pc'[r] = "settle" /\ run'[r].child = run[r].child
             \/ pc[r] = "conclude"
        BY <1>1, <1>8, PopenIs, CloseIs, ConcludeIs DEF Moves, FlagsStay, HandleStays
    <2>2. QED
        BY <2>1, BooksStay DEF Attached, Watching, Ending
<1>9. ASSUME NEW r \in Runs, PublishHandle(r) PROVE BooksHeld'
    <2>1. rig'.procs = r /\ pc'[r] = "attach"
        BY <1>9, HandleIs DEF Moves
    <2>2. QED
        BY <1>1, <2>1 DEF BooksHeld, StartHeld, HandleInUse, Attached
<1>10. ASSUME NEW r \in Runs, Attach(r), ~rig.cancel PROVE BooksHeld'
    <2>1. /\ UNCHANGED <<run, runs>> /\ rig'.procs = rig.procs /\ ~rig'.starting
          /\ pc[r] = "attach" /\ pc'[r] = "announce" /\ \A s \in Runs \ {r} : pc'[s] = pc[s]
        BY <1>1, <1>10, AttachIs DEF Moves, HandleStays
    <2>2. QED
        BY <2>1, BooksStay DEF Attached, Watching, Ending
<1>11. ASSUME NEW r \in Runs, Settle(r) PROVE BooksHeld'
    <2>1. /\ pc[r] = "settle" /\ UNCHANGED runs /\ ChildKnown(r)
          /\ \A s \in Runs \ {r} : pc'[s] = pc[s]
        BY <1>1, <1>11, SettleLowers, SupervisorAt DEF Settle, Moves
    <2>2. \A s \in Runs : run'[s].child = run[s].child /\ run'[s].alive = run[s].alive
        <3>1. run' = [run EXCEPT ![r] = [run[r] EXCEPT !.manual = rig.manual]] /\ run \in [Runs -> RunRecord]
            BY <1>11, StateIs DEF Settle
        <3>2. QED
            BY <3>1 DEF RunRecord
    <2>3. Books(r) \in RigRecord /\ rig' = [Books(r) EXCEPT !.supervisor = IF rig.supervisor = r THEN 0 ELSE @]
        BY <1>1, <1>11 DEF Books, Cleared, RigRecord, Settle
    <2>4. CASE OwnsProcess(r)
        <3>1. ~rig'.starting /\ rig'.procs = IF ~run[r].alive /\ rig.procs = r THEN 0 ELSE rig.procs
            BY <1>1, <2>3, <2>4 DEF Books, Cleared, RigRecord
        <3>2. QED
            BY <1>1, <2>1, <2>2, <3>1 DEF BooksHeld, StartHeld, HandleInUse
    <2>5. CASE ~OwnsProcess(r)
        <3>1. rig'.procs = rig.procs /\ rig'.starting = rig.starting
            BY <1>1, <2>3, <2>5 DEF Books, RigRecord
        <3>2. rig.procs # r /\ ~(run[r].child = "none" /\ rig.starting)
            BY <1>1, <2>1, <2>5 DEF OwnsProcess, TriggerIInv, TypeInv
        <3>3. HandleInUse'
            BY <1>1, <2>1, <2>2, <3>1, <3>2 DEF BooksHeld, HandleInUse
        <3>4. StartHeld'
            <4> SUFFICES ASSUME rig'.starting, ~rig'.unfrozen, rig'.procs = 0
                         PROVE  /\ runs # 0
                                /\ \/ pc'[runs] \in Waits
                                   \/ pc'[runs] \in Ending /\ run'[runs].child = "none"
                BY <2>1 DEF StartHeld
            <4>1. ~rig.unfrozen /\ rig.starting /\ rig.procs = 0
                BY <3>1, HistoryStays
            <4>2. runs # 0 /\ (pc[runs] \in Waits \/ (pc[runs] \in Ending /\ run[runs].child = "none"))
                BY <4>1 DEF BooksHeld, StartHeld
            <4>3. runs # r
                BY <2>1, <3>2, <4>1, <4>2
            <4>4. QED
                BY <1>1, <2>1, <2>2, <4>2, <4>3
        <3>5. QED
            BY <3>3, <3>4 DEF BooksHeld
    <2>6. QED
        BY <2>4, <2>5
<1>12. QED
    BY <1>2, <1>3, <1>4, <1>5, <1>6, <1>7, <1>8, <1>9, <1>10, <1>11, StepKinds DEF Major

\* When all is quiet and no child survived, nothing is left that would block the next start: no handle on
\* the books, no camera session but one that nobody can close, no startup flag but that of a START that
\* raised, whatever requests met (trigger_service.py, _run's last block and start_totality_only()).
THEOREM RigIsFree == Spec => []RigFree
<1>1. Init => BooksHeld
    BY DEF Init, BooksHeld, StartHeld, HandleInUse
<1>2. TriggerIInv /\ BooksHeld /\ LeaseHeld => RigFree
    <2> SUFFICES ASSUME TriggerIInv, BooksHeld, LeaseHeld, Quiet, Abandoned = {}
                 PROVE  rig.procs = 0 /\ lease \in {0, Unclosed} /\ (rig.starting => rig.unfrozen)
        BY DEF RigFree
    <2>1. /\ \A r \in Runs : pc[r] \in {"unborn", "done"} /\ ~run[r].alive
          /\ \A q \in Requests : pc[q] \in {"issue", "done"}
        BY DEF Quiet, Finished, Abandoned
    <2>2. /\ rig.procs \in {0} \cup Runs /\ lease \in {0, Unclosed} \cup Runs /\ Actors = Requests \cup Runs
          /\ (runs # 0 => runs \in Runs)
        BY StateIs DEF RigRecord, Runs
    <2>3. rig.procs = 0
        BY <2>1, <2>2 DEF BooksHeld, HandleInUse, Attached, Watching, Ending
    <2>4. lease \in {0, Unclosed}
        BY <2>1, <2>2 DEF LeaseHeld, Holding
    <2>5. rig.starting => rig.unfrozen
        BY <2>1, <2>2, <2>3 DEF BooksHeld, StartHeld, Ending
    <2>6. QED
        BY <2>3, <2>4, <2>5
<1>3. QED
    BY <1>1, <1>2, TriggerAlways, LeaseAlways, BooksStep, PTL DEF Spec

\* Nor is there anything that would disturb it, no cancellation and no mark of a STOP, as long as no runs
\* crossed.
THEOREM RigIsReady == Spec => [](rig.crossed \/ RigReady)
<1>1. TriggerIInv /\ AloneInv /\ FlagsHeld /\ RigFree => RigReady
    <2> SUFFICES ASSUME TriggerIInv, AloneInv, FlagsHeld, RigFree, Quiet, Abandoned = {}, ~rig.unfrozen
                 PROVE  ~rig.cancel /\ ~rig.manual
        BY DEF RigReady
    <2>1. runs # 0 => pc[runs] \in Finished /\ ~run[runs].alive
        BY StateIs DEF Quiet, Abandoned, Runs
    <2>2. ~LatestStands
        BY <2>1 DEF LatestStands, Finished, Unsettled, Starting, Watching, Ending
    <2>3. ~rig.starting
        BY DEF RigFree
    <2>4. QED
        BY <2>1, <2>2, <2>3 DEF FlagsHeld
<1>2. QED
    BY <1>1, TriggerAlways, AloneAlways, FlagsAlways, RigIsFree, PTL

-----------------------------------------------------------------------------
(* What a STOP tells *)

\* What a step does to a request: nothing, or the request's own step.  Only a STOP looks at a process and
\* answers.
LEMMA RequestIs ==
    ASSUME TriggerIInv, [Next]_vars, NEW q \in Requests
    PROVE  \/ pc'[q] = pc[q] /\ target'[q] = target[q] /\ reply'[q] = reply[q]
           \/ pc[q] # "done" /\ target'[q] = target[q] /\ reply'[q] = reply[q] /\ (Start(q) \/ Emergency(q))
           \/ pc[q] # "done" /\ Stop(q)
<1>1. /\ q \in Actors /\ Requests \cap Runs = {} /\ Requests \subseteq Actors /\ Runs \subseteq Actors
      /\ pc \in [Actors -> RequestSteps \cup RunSteps]
      /\ target \in [Requests -> {0} \cup Runs]
      /\ reply \in [Requests -> {"none", "not_running", "coalesced", "stopping", "stopped"}]
    BY StateIs, TypesApart DEF TriggerIInv, RequestsTyped
<1> DEFINE Still == pc'[q] = pc[q] /\ target'[q] = target[q] /\ reply'[q] = reply[q]
           Mine == \/ pc[q] # "done" /\ target'[q] = target[q] /\ reply'[q] = reply[q] /\ (Start(q) \/ Emergency(q))
                   \/ pc[q] # "done" /\ Stop(q)
<1>2. ASSUME UNCHANGED vars PROVE Still
    BY <1>2 DEF vars, requestVars
<1>3. ASSUME NEW p \in Requests, Start(p)
      PROVE  /\ UNCHANGED <<target, reply>> /\ pc[p] # "done"
             /\ p # q => pc'[q] = pc[q]
    <2>1. UNCHANGED <<target, reply>> /\ pc[p] = "issue"
        BY <1>3 DEF Start, StartRefused, StartRejected, StartUnfrozen, StartAccepted, StartBroken, requestVars, AtStart
    <2>2. CASE StartRefused(p) \/ StartRejected(p) \/ StartUnfrozen(p)
        BY <1>1, <2>1, <2>2 DEF StartRefused, StartRejected, StartUnfrozen, Goto
    <2>3. CASE StartAccepted(p) \/ StartBroken(p)
        BY <1>1, <2>1, <2>3, AcceptIs, BrokenIs DEF Admits
    <2>4. QED
        BY <1>3, <2>1, <2>2, <2>3 DEF Start
<1>4. ASSUME NEW p \in Requests, Stop(p)
      PROVE  /\ pc[p] # "done"
             /\ p # q => pc'[q] = pc[q] /\ target'[q] = target[q] /\ reply'[q] = reply[q]
    BY <1>1, <1>4 DEF Stop, StopNothing, StopCoalesced, StopAccepted, StopJoin, StopDecide, StopPublish, StopSignal,
                      AtStop, Answer, Goto, requestVars
<1>5. ASSUME NEW a \in Actors, Emergency(a)
      PROVE  UNCHANGED <<target, reply>> /\ pc[a] # "done" /\ (a # q => pc'[q] = pc[q])
    <2>1. UNCHANGED <<target, reply>> /\ pc[a] # "done"
        BY <1>5 DEF Emergency, EmergencyLook, Override, ShowOverride, EmergencyClaim, EmergencyPrepare, EmergencyLaunch,
                    EmergencyFails, EmergencyRollback, requestVars
    <2>2. CASE EmergencyLook(a) \/ Override(a) \/ ShowOverride(a) \/ (EmergencyClaim(a) /\ rig.starting)
        BY <1>1, <2>1, <2>2 DEF EmergencyLook, Override, ShowOverride, EmergencyClaim, Leave, Goto
    <2>3. CASE EmergencyClaim(a) /\ ~rig.starting
        BY <1>1, <2>1, <2>3, ClaimIs DEF Admits
    <2>4. CASE EmergencyPrepare(a) \/ EmergencyRollback(a)
        BY <1>1, <2>1, <2>4, PrepareIs, RollbackIs DEF Moves
    <2>5. CASE EmergencyLaunch(a) \/ EmergencyFails(a)
        <3>1. mine[a] \in Runs
            BY <2>5, HandIs DEF EmergencyLaunch, EmergencyFails, SettingUp
        <3>2. QED
            BY <1>1, <2>1, <2>5, <3>1, LaunchIs, FailsIs
    <2>6. QED
        BY <1>5, <2>1, <2>2, <2>3, <2>4, <2>5 DEF Emergency
<1>6. ASSUME NEW r \in Runs, Supervisor(r) \/ Child(r) PROVE pc'[q] = pc[q] /\ UNCHANGED <<target, reply>>
    <2>1. UNCHANGED <<target, reply>>
        BY <1>6 DEF Supervisor, Check, Popen, PopenFails, PublishHandle, Attach, SuperviseFails, Abort, Announce,
            ReadPhase, ShowPhase, ReadEnd, CloseSession, Settle, NoteRecovery, Conclude, Child, ChildExits, ChildHangs,
            HeartbeatTimeout, requestVars
    <2>2. UNCHANGED pc \/ \E step : pc' = [pc EXCEPT ![r] = step]
        BY <1>6 DEF Supervisor, Check, Popen, PopenFails, PublishHandle, Attach, SuperviseFails, Abort, Announce,
            ReadPhase, ShowPhase, ReadEnd, CloseSession, Settle, NoteRecovery, Conclude, Child, ChildExits, ChildHangs,
            HeartbeatTimeout, Goto
    <2>3. QED
        BY <1>1, <2>1, <2>2
<1>7. ASSUME NEW p \in Requests, Start(p) PROVE Still \/ Mine
    BY <1>3, <1>7
<1>8. ASSUME NEW p \in Requests, Stop(p) PROVE Still \/ Mine
    BY <1>4, <1>8
<1>9. ASSUME NEW a \in Actors, Emergency(a) PROVE Still \/ Mine
    BY <1>5, <1>9
<1>10. Still \/ Mine
    <2> HIDE DEF Still, Mine
    <2>1. CASE UNCHANGED vars
        BY <1>2, <2>1
    <2>2. ASSUME NEW r \in Runs, Supervisor(r) \/ Child(r) PROVE Still
        BY <1>6, <2>2 DEF Still
    <2>3. QED
        BY <1>7, <1>8, <1>9, <2>1, <2>2 DEF Next
<1>11. QED
    BY <1>10

\* A STOP that was answered as a repetition is over, and was about a run that was stopped.
Answered ==
    \A q \in Requests : reply[q] = "coalesced" => pc[q] = "done" /\ target[q] \in asked

LEMMA AnsweredStep ==
    TriggerIInv /\ AloneInv /\ FlagsHeld /\ Answered /\ [Next]_vars => Answered'
<1> SUFFICES ASSUME TriggerIInv, AloneInv, FlagsHeld, Answered, [Next]_vars, NEW q \in Requests,
                    reply'[q] = "coalesced"
             PROVE  pc'[q] = "done" /\ target'[q] \in asked'
    BY DEF Answered
<1>1. asked \subseteq asked' /\ q \in Actors
    BY AskedStay, StateIs
<1>2. reply[q] = "coalesced" => pc[q] = "done" /\ target[q] \in asked
    BY DEF Answered
<1>3. CASE pc[q] # "done" /\ Stop(q)
    <2>1. reply \in [Requests -> {"none", "not_running", "coalesced", "stopping", "stopped"}]
          /\ target \in [Requests -> {0} \cup Runs] /\ pc \in [Actors -> RequestSteps \cup RunSteps]
        BY TypesApart, StateIs DEF TriggerIInv, RequestsTyped
    <2>2. StopCoalesced(q)
        BY <1>2, <1>3, <2>1 DEF Stop, StopNothing, StopAccepted, StopJoin, StopDecide, StopPublish, StopSignal, Answer,
            requestVars
    <2>3. pc'[q] = "done" /\ target'[q] = CurrentRun /\ rig.stopping /\ Busy
        BY <1>1, <2>1, <2>2 DEF StopCoalesced, Answer, Goto, Coalesces
    <2>4. CurrentRun = runs
        BY <2>3, StoppedIs
    <2>5. QED
        BY <1>1, <2>3, <2>4 DEF FlagsHeld
<1>4. CASE ~(pc[q] # "done" /\ Stop(q))
    <2>1. reply'[q] = reply[q] /\ target'[q] = target[q] /\ (pc'[q] = pc[q] \/ pc[q] # "done")
        BY <1>4, RequestIs
    <2>2. QED
        BY <1>1, <1>2, <2>1
<1>5. QED
    BY <1>3, <1>4

\* The recovery of a run waits for the run that it admitted: where that one was stopped, it does not end
\* before the recovering one.
SetUpNotAsked(s) == run[s].attempt = 1 /\ s \in asked => pc[run[s].id] \notin {"rollback", "conclude"}
\* The journal holds no failure of a run that was stopped, unless its child survived.
NotFailed(r) ==
    r \in asked /\ pc[r] = "done" /\ ~run[r].alive /\ run[r].id # 0 /\ journal.id = run[r].id
        => journal.status \in {"stopped", "completed"}
StopsJournaled == \A r \in Runs : SetUpNotAsked(r) /\ NotFailed(r)

\* Of two runs with the same entry, the one that was stopped recovers the other one.
LEMMA ShareEntry ==
    ASSUME TriggerIInv, OriginInv, NEW r \in Runs, NEW s \in Runs \ {r}, run[r].id = run[s].id, run[s].id # 0, s \in asked
    PROVE  run[s].attempt = 1 /\ run[s].id = r
<1>1. run[r] \in RunRecord /\ run[s] \in RunRecord /\ Original(r) /\ Original(s)
    BY StateIs DEF OriginInv
<1>2. run[r].attempt \in {0, 1} /\ run[s].attempt \in {0, 1}
    BY <1>1 DEF RunRecord
<1>3. ~(run[r].attempt = 1 /\ run[s].attempt = 1)
    BY DEF OriginInv, OnceRecovered
<1>4. ~(run[r].attempt = 1 /\ run[s].attempt = 0)
    BY <1>1 DEF Original
<1>5. run[r].attempt = 0 => run[r].id = r
    BY <1>1 DEF Original
<1>6. run[s].attempt = 0 => run[s].id = s
    BY <1>1 DEF Original
<1>7. QED
    BY <1>2, <1>3, <1>4, <1>5, <1>6

\* The run that a recovery admitted is the one whose emergency start that supervisor makes.
LEMMA RecoveredIs ==
    ASSUME TriggerIInv, OriginInv, NEW s \in Runs, run[s].attempt = 1, pc[run[s].id] \in SettingUp
    PROVE  run[s].id \in Runs /\ mine[run[s].id] = s
<1>1. PICK o \in Runs : o = run[s].id
    BY DEF OriginInv, Original
<1>2. o \in Actors /\ mine[o] \in Runs
    BY <1>1, HandIs, StateIs
<1>3. run[mine[o]].attempt = 1 /\ run[mine[o]].id = o
    BY <1>1, <1>2 DEF OriginInv, HandOriginal
<1>4. QED
    BY <1>1, <1>2, <1>3 DEF OriginInv, OnceRecovered

\* A run that waits for its recovery, or is over, moves on by its own emergency start, or ends.
LEMMA WaitsOn ==
    ASSUME TriggerIInv, AloneInv, Major, NEW o \in Runs, pc[o] \in Recoverer \cup {"done"}
    PROVE  \/ pc'[o] = pc[o]
           \/ EmergencyPrepare(o) /\ pc'[o] = "launch"
           \/ EmergencyLaunch(o) /\ pc'[o] = "done"
           \/ EmergencyFails(o) /\ pc'[o] = "rollback"
           \/ EmergencyRollback(o) /\ pc[o] = "rollback"
           \/ Conclude(o) /\ pc'[o] = "done"
<1>1. o \in Actors /\ Runs \subseteq Actors /\ Requests \cap Runs = {}
    BY StateIs
<1>2. pc[o] \in {"prepare", "launch", "rollback", "conclude", "done"}
    BY DEF Recoverer, SettingUp
<1>3. ASSUME NEW q \in Requests, StartRejected(q) \/ StartAccepted(q) \/ StartBroken(q) \/ StopAccepted(q)
      PROVE  pc'[o] = pc[o]
    BY <1>1, <1>2, <1>3, RejectIs, AcceptIs, BrokenIs, StopIs DEF Moves, Admits
<1>4. ASSUME NEW a \in Actors, EmergencyClaim(a), ~rig.starting PROVE pc'[o] = pc[o]
    BY <1>1, <1>2, <1>4, ClaimIs DEF Admits
<1>5. ASSUME NEW a \in Actors, EmergencyPrepare(a) \/ EmergencyLaunch(a) \/ EmergencyFails(a) \/ EmergencyRollback(a), a # o
      PROVE  pc'[o] = pc[o]
    <2>1. pc[a] \in SettingUp
        BY <1>5 DEF EmergencyPrepare, EmergencyLaunch, EmergencyFails, EmergencyRollback, SettingUp
    <2>2. pc[a] # "rollback" => mine[a] # o
        BY <1>2, <2>1, HandIs
    <2>3. QED
        BY <1>1, <1>5, <2>2, PrepareIs, LaunchIs, FailsIs, RollbackIs DEF Moves
<1>6. ASSUME NEW r \in Runs, Popen(r) \/ PublishHandle(r) \/ (Attach(r) /\ ~rig.cancel) \/ CloseSession(r) \/ Settle(r)
      PROVE  pc'[o] = pc[o]
    BY <1>1, <1>2, <1>6, PopenIs, HandleIs, AttachIs, CloseIs, SettleLowers DEF Moves, Settle
<1>7. ASSUME NEW r \in Runs, Conclude(r), r # o PROVE pc'[o] = pc[o]
    BY <1>1, <1>7, ConcludeIs DEF Moves
<1>8. /\ EmergencyPrepare(o) => pc'[o] = "launch"
      /\ EmergencyLaunch(o) => pc'[o] = "done"
      /\ EmergencyFails(o) => pc'[o] = "rollback"
      /\ EmergencyRollback(o) => pc[o] = "rollback"
      /\ Conclude(o) => pc'[o] = "done"
    BY <1>1, PrepareIs, LaunchIs, FailsIs, RollbackIs, ConcludeIs DEF Moves
<1>9. QED
    BY <1>3, <1>4, <1>5, <1>6, <1>7, <1>8 DEF Major

\* What a step changes of a run's origin: it admits the run.
LEMMA OriginsStay ==
    ASSUME TriggerIInv, Major, NEW r \in Runs, r # New \/ UNCHANGED runs
    PROVE  SameOrigin(r)
<1>1. r \in Actors /\ run[r] \in RunRecord /\ run \in [Runs -> RunRecord] /\ runs \in Nat
    BY StateIs
<1>2. ASSUME NEW q \in Requests, StartRejected(q) \/ StopAccepted(q) PROVE SameOrigin(r)
    BY <1>2, RejectIs, StopIs DEF SameOrigin
<1>3. ASSUME NEW q \in Requests, StartAccepted(q) \/ StartBroken(q) PROVE SameOrigin(r)
    <2>1. runs' = New /\ \A s \in Runs \ {New} : run'[s] = run[s]
        BY <1>3, AcceptIs, BrokenIs DEF Admits
    <2>2. r # New
        BY <1>1, <2>1 DEF New
    <2>3. QED
        BY <2>1, <2>2 DEF SameOrigin
<1>4. ASSUME NEW a \in Actors, EmergencyClaim(a), ~rig.starting PROVE SameOrigin(r)
    <2>1. runs' = New /\ \A s \in Runs \ {New} : run'[s] = run[s]
        BY <1>4, ClaimIs DEF Admits
    <2>2. r # New
        BY <1>1, <2>1 DEF New
    <2>3. QED
        BY <2>1, <2>2 DEF SameOrigin
<1>5. ASSUME NEW a \in Actors, EmergencyPrepare(a) \/ EmergencyLaunch(a) \/ EmergencyFails(a) \/ EmergencyRollback(a)
      PROVE  SameOrigin(r)
    BY <1>5, PrepareIs, LaunchIs, FailsIs, RollbackIs DEF SameOrigin
<1>6. ASSUME NEW s \in Runs, Popen(s) \/ PublishHandle(s) \/ (Attach(s) /\ ~rig.cancel) \/ CloseSession(s) \/ Conclude(s)
      PROVE  SameOrigin(r)
    BY <1>6, PopenIs, HandleIs, AttachIs, CloseIs, ConcludeIs DEF SameOrigin
<1>7. ASSUME NEW s \in Runs, Settle(s) PROVE SameOrigin(r)
    <2>1. run' = [run EXCEPT ![s] = [run[s] EXCEPT !.manual = rig.manual]] /\ run[s] \in RunRecord
        BY <1>7, StateIs DEF Settle
    <2>2. QED
        BY <1>1, <2>1 DEF RunRecord, SameOrigin
<1>8. QED
    BY <1>2, <1>3, <1>4, <1>5, <1>6, <1>7 DEF Major

\* A STOP that is accepted is for the latest run, which is on its way or survived.
LEMMA AskedFor ==
    ASSUME TriggerIInv, AloneInv, Major, NEW s \in asked', s \notin asked
    PROVE  s = runs /\ Busy /\ UNCHANGED <<run, journal>> /\ pc'[s] = pc[s]
<1>1. ASSUME NEW r \in Runs, Settle(r) PROVE UNCHANGED asked
    BY <1>1 DEF Settle
<1>2. PICK q \in Requests : StopAccepted(q)
    BY <1>1, RejectIs, AcceptIs, BrokenIs, ClaimIs, PrepareIs, LaunchIs, FailsIs, RollbackIs, PopenIs, HandleIs,
       AttachIs, CloseIs, ConcludeIs DEF Major
<1>3. s = runs /\ runs \in Runs
    BY <1>2, StopIs, StoppedIs
<1>4. QED
    BY <1>2, <1>3, StateIs, StopIs DEF Moves

LEMMA SetUpStep ==
    ASSUME TriggerIInv, AloneInv, OriginInv, StopsJournaled, [Next]_vars, [RunsApart]_vars,
           NEW s \in Runs
    PROVE  SetUpNotAsked(s)'
<1> SUFFICES ASSUME run'[s].attempt = 1, s \in asked', pc'[run'[s].id] \in {"rollback", "conclude"} PROVE FALSE
    BY DEF SetUpNotAsked
<1>1. CASE Calm
    <2>1. run[s].attempt = 1 /\ s \in asked /\ run'[s].id = run[s].id
        BY <1>1 DEF Calm, CalmRecord
    <2>2. PICK o \in Runs : o = run[s].id /\ pc[o] \in Recoverer \cup {"done"}
        BY <2>1 DEF OriginInv, Original
    <2>3. CalmMove(pc[o], pc'[o]) /\ pc'[o] \in {"rollback", "conclude"}
        BY <1>1, <2>1, <2>2 DEF Calm
    <2>4. pc[o] \in {"rollback", "conclude"}
        BY <2>2, <2>3 DEF CalmMove, Watching, ToRecovery, Recoverer, SettingUp
    <2>5. QED
        BY <2>1, <2>2, <2>4 DEF StopsJournaled, SetUpNotAsked
<1>2. CASE ~Calm
    <2>1. Major /\ RunsApart
        BY <1>2, MajorSteps
    <2>2. s <= runs
        <3>1. s \in asked => s <= runs
            BY DEF OriginInv, StopNoted
        <3>2. QED
            BY <2>1, <3>1, AskedFor, StateIs
    <2>3. s # New
        BY <2>2, StateIs DEF New
    <2>4. run[s].attempt = 1 /\ run'[s].id = run[s].id
        BY <2>1, <2>3, OriginsStay DEF SameOrigin
    <2>5. PICK o \in Runs : o = run[s].id /\ o < s /\ pc[o] \in Recoverer \cup {"done"}
        BY <2>4 DEF OriginInv, Original
    <2>6. pc'[o] \in {"rollback", "conclude"}
        BY <2>4, <2>5
    <2>7. CASE EmergencyFails(o)
        <3>1. pc[o] \in {"prepare", "launch"} /\ pc'[o] = "rollback" /\ UNCHANGED asked /\ o \in Actors
            BY <2>7, FailsIs, StateIs
        <3>2. mine[o] = s
            BY <2>4, <2>5, <3>1, RecoveredIs DEF SettingUp
        <3>3. s \notin asked
            BY <2>1, <2>7, <3>1, <3>2, SparedIs
        <3>4. QED
            BY <3>1, <3>3
    <2>8. CASE ~EmergencyFails(o)
        <3>1. pc[o] \in {"rollback", "conclude"}
            BY <2>1, <2>5, <2>6, <2>8, WaitsOn
        <3>2. s \notin asked
            BY <2>4, <2>5, <3>1 DEF StopsJournaled, SetUpNotAsked
        <3>3. s = runs /\ (pc[s] \in Unsettled \/ Live(s))
            BY <2>1, <3>2, AskedFor, StoppedIs
        <3>4. mine[o] = s
            <4>1. Placed(o) /\ o # runs
                BY <2>5, <3>3, StateIs DEF AloneInv
            <4>2. CASE pc[o] = "conclude"
                BY <3>3, <4>1, <4>2 DEF Placed
            <4>3. CASE pc[o] = "rollback"
                BY <3>3, <4>1, <4>3 DEF Placed, SettingUp
            <4>4. QED
                BY <3>1, <4>2, <4>3
        <3>5. pc[s] = "done" /\ run[s].child = "none"
            BY <3>1, <3>4, StateIs DEF AloneInv, Placed
        <3>6. QED
            BY <3>3, <3>5 DEF Live, Unsettled, Starting, Watching, Ending
    <2>9. QED
        BY <2>7, <2>8
<1>3. QED
    BY <1>1, <1>2

\* The steps that end a run that was stopped, or write another entry than its own
LEMMA NotFailedStep ==
    ASSUME TriggerIInv, AloneInv, OriginInv, StopsJournaled, [Next]_vars, [RunsApart]_vars,
           NEW r \in Runs
    PROVE  NotFailed(r)'
<1> SUFFICES ASSUME r \in asked', pc'[r] = "done", ~run'[r].alive, run'[r].id # 0, journal'.id = run'[r].id
             PROVE  journal'.status \in {"stopped", "completed"}
    BY DEF NotFailed
<1>1. ~run[r].alive
    BY SurvivorsStay
<1>2. r \in asked /\ pc[r] = "done" /\ run[r].id # 0 /\ journal.id = run[r].id => journal.status \in {"stopped", "completed"}
    BY <1>1 DEF StopsJournaled, NotFailed
<1>3. CASE Calm
    BY <1>2, <1>3 DEF Calm, CalmRecord, CalmMove, Watching, ToRecovery
<1>4. CASE ~Calm
    <2>1. Major /\ RunsApart
        BY <1>4, MajorSteps
    <2>2. CASE r \notin asked
        <3>1. pc[r] = "done" /\ (pc[r] \in Unsettled \/ run[r].alive)
            BY <2>1, <2>2, AskedFor, StoppedIs
        <3>2. QED
            BY <1>1, <3>1 DEF Unsettled, Starting, Watching, Ending
    <2>3. CASE r \in asked
        <3>1. r <= runs /\ r # New /\ runs \in Nat /\ r \in Actors /\ Requests \cap Runs = {} /\ Runs \subseteq Actors
              /\ journal \in EntryRecord /\ 0 \notin Runs
            BY <2>3, StateIs DEF OriginInv, StopNoted, New
        <3>2. run'[r].id = run[r].id
            BY <2>1, <3>1, OriginsStay DEF SameOrigin
        <3>3. CASE UNCHANGED journal /\ pc'[r] = pc[r]
            BY <1>2, <2>3, <3>2, <3>3
        <3>4. ASSUME NEW q \in Requests, StartRejected(q) \/ StopAccepted(q) PROVE UNCHANGED journal /\ pc'[r] = pc[r]
            BY <3>1, <3>4, RejectIs, StopIs DEF Moves
        <3>5. ASSUME NEW q \in Requests, StartAccepted(q) \/ StartBroken(q) PROVE UNCHANGED journal /\ pc'[r] = pc[r]
            <4>1. pc'[r] = pc[r]
                BY <3>1, <3>5, AcceptIs, BrokenIs DEF Admits
            <4>2. run[r].id # New
                BY <3>1, SupervisorAt, StateIs DEF OriginInv, Original, New, RunRecord
            <4>3. Journaled(Kind[q], New) \in {0, New}
                BY DEF Journaled
            <4>4. UNCHANGED journal
                BY <3>2, <3>5, <4>2, <4>3, AcceptIs, BrokenIs DEF JournalBegin
            <4>5. QED
                BY <4>1, <4>4
        <3>6. ASSUME NEW a \in Actors, EmergencyClaim(a), ~rig.starting PROVE UNCHANGED journal /\ pc'[r] = pc[r]
            BY <3>1, <3>6, ClaimIs DEF Admits
        <3>7. ASSUME NEW a \in Actors, EmergencyPrepare(a) \/ EmergencyRollback(a)
              PROVE  UNCHANGED journal /\ pc'[r] = pc[r]
            BY <3>1, <3>7, PrepareIs, RollbackIs DEF Moves
        <3>8. ASSUME NEW s \in Runs, Popen(s) \/ PublishHandle(s) \/ (Attach(s) /\ ~rig.cancel) \/ CloseSession(s) \/ Settle(s)
              PROVE  UNCHANGED journal /\ pc'[r] = pc[r]
            BY <3>1, <3>8, PopenIs, HandleIs, AttachIs, CloseIs, SettleIs, SettlesOwn DEF Moves, Settle
        <3>9. ASSUME NEW a \in Actors, EmergencyLaunch(a) \/ EmergencyFails(a)
              PROVE  journal'.status \in {"stopped", "completed"}
            <4>1. PICK m \in Runs : /\ m = mine[a] /\ m # a /\ pc[m] = "born" /\ run[m].kind = "totality"
                                    /\ \A b \in Actors \ {a, m} : pc'[b] = pc[b]
                BY <3>9, HandIs, LaunchIs, FailsIs DEF SettingUp
            <4>2. a \in Runs => run[m].attempt = 1 /\ run[m].id = a /\ a \notin asked
                BY <3>9, <4>1, LaunchIs, FailsIs DEF OriginInv, HandOriginal, Original, SettingUp
            <4>3. a \notin Runs => run[m].id = m
                BY <3>9, <4>1, LaunchIs, FailsIs DEF OriginInv, HandOriginal, Original, SettingUp
            <4>4. r # m
                <5>1. CASE EmergencyLaunch(a)
                    BY <4>1, <5>1, LaunchIs
                <5>2. CASE EmergencyFails(a)
                    BY <2>1, <2>3, <4>1, <5>2, SparedIs
                <5>3. QED
                    BY <3>9, <5>1, <5>2
            <4>5. r # a
                BY <2>3, <4>2
            <4>6. pc'[r] = pc[r] /\ run[r].id # run[m].id
                <5>1. ~(run[r].attempt = 1 /\ run[r].id = m)
                    BY <4>1 DEF OriginInv, Original, Recoverer, SettingUp
                <5>2. ASSUME run[r].id = run[m].id PROVE FALSE
                    <6>1. run[r].attempt = 1 /\ run[r].id = m
                        BY <2>3, <3>2, <4>4, <5>2, ShareEntry
                    <6>2. QED
                        BY <5>1, <6>1
                <5>3. QED
                    BY <3>1, <4>1, <4>4, <4>5, <5>2
            <4>7. journal' \in {journal, JournalFinish(run[m].id, "failed")} \/ (a \notin Runs /\ journal'.id = m)
                BY <3>9, <4>1, LaunchIs, FailsIs DEF JournalBegin
            <4>8. UNCHANGED journal
                BY <3>1, <3>2, <4>3, <4>6, <4>7 DEF JournalFinish, EntryRecord
            <4>9. QED
                BY <3>3, <4>6, <4>8
        <3>10. ASSUME NEW s \in Runs, Conclude(s) PROVE journal'.status \in {"stopped", "completed"}
            <4>1. journal' = JournalFinish(run[s].id, Outcome(s)) /\ pc[s] = "conclude"
                  /\ \A b \in Runs \ {s} : pc'[b] = pc[b]
                BY <3>1, <3>10, ConcludeIs DEF Moves
            <4>2. CASE r = s
                <5>1. run[r].manual
                    BY <1>1, <2>3, <4>1, <4>2 DEF OriginInv, StopNoted
                <5>2. Outcome(r) \in {"stopped", "completed"}
                    BY <1>1, <5>1 DEF Outcome
                <5>3. journal.id = run[r].id
                    BY <3>1, <3>2, <4>1, <4>2 DEF JournalFinish, EntryRecord
                <5>4. QED
                    BY <3>1, <3>2, <4>1, <4>2, <5>2, <5>3 DEF JournalFinish, EntryRecord
            <4>3. CASE r # s
                <5>1. run[s].id # run[r].id
                    <6> SUFFICES ASSUME run[s].id = run[r].id PROVE FALSE
                        OBVIOUS
                    <6>1. run[r].attempt = 1 /\ run[r].id = s
                        BY <2>3, <3>2, <4>3, ShareEntry
                    <6>2. QED
                        BY <2>3, <4>1, <6>1 DEF StopsJournaled, SetUpNotAsked
                <5>2. UNCHANGED journal
                    BY <3>1, <3>2, <4>1, <5>1 DEF JournalFinish, EntryRecord
                <5>3. QED
                    BY <3>3, <4>1, <4>3, <5>2
            <4>4. QED
                BY <4>2, <4>3
        <3>11. QED
            BY <2>1, <3>3, <3>4, <3>5, <3>6, <3>7, <3>8, <3>9, <3>10 DEF Major
    <2>4. QED
        BY <2>2, <2>3
<1>5. QED
    BY <1>3, <1>4

LEMMA StopsAlways == Spec => [](rig.crossed \/ (StopsJournaled /\ Answered))
<1>1. Init => rig.crossed \/ (StopsJournaled /\ Answered)
    BY DEF Init, StopsJournaled, SetUpNotAsked, NotFailed, Answered
<1>2. /\ TriggerIInv /\ AloneInv /\ OriginInv /\ FlagsHeld /\ StopsJournaled /\ Answered
      /\ [Next]_vars /\ [RunsApart]_vars
      => StopsJournaled' /\ Answered'
    BY SetUpStep, NotFailedStep, AnsweredStep DEF StopsJournaled
<1>3. /\ TriggerIInv /\ (rig.crossed \/ AloneInv) /\ (rig.crossed \/ OriginInv) /\ (rig.crossed \/ FlagsHeld)
      /\ (rig.crossed \/ (StopsJournaled /\ Answered)) /\ [Next]_vars
      => (rig.crossed \/ (StopsJournaled /\ Answered))'
    BY <1>2, UncrossedStep
<1>4. QED
    BY <1>1, <1>3, TriggerAlways, AloneAlways, OriginAlways, FlagsAlways, PTL DEF Spec

\* As long as no runs crossed, a graceful STOP that is answered as a repetition repeats one that was
\* accepted for the same run, and the end of a journaled run that the operator stopped is not journaled as
\* a failure, unless its child survived (trigger_service.py, stop() and _run's last block).
THEOREM StopTellsTruth == Spec => []StopTruthful
<1>1. TriggerIInv /\ (rig.crossed \/ (StopsJournaled /\ Answered)) => StopTruthful
    BY StateIs DEF StopsJournaled, NotFailed, StoppedIsNotFailed, Abandoned, Answered, CoalescedStopWasAsked, StopTruthful
<1>2. QED
    BY <1>1, TriggerAlways, StopsAlways, PTL

=============================================================================
