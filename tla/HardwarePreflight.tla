----------------------------- MODULE HardwarePreflight -----------------------------
\* The preparation of the hardware before a START (trigger_start_preflight.py), the tokens it hands to
\* the portal's client, and the admission of the START that brings one back (app.py). What the GPS
\* record says, and who may say it, is GpsAuthority's: here it is valid or not when it is read, and
\* its contents, which are part of a token's identity, may change at any time.
EXTENDS Integers, FiniteSets

CONSTANTS Rigs,        \* the active RIGs
          Mounted,     \* those with a pilotable mount
          MaxFixes,    \* bound: changes of the GPS record
          MaxIssues,   \* bound: preflights that issue tokens
          MaxChanges,  \* bound: changes of the RIG configuration
          MaxDeaths    \* bound: restarts of the portal
ASSUME PreflightAssumption ==
    /\ Mounted \subseteq Rigs /\ IsFiniteSet(Rigs)
    /\ {MaxFixes, MaxIssues, MaxChanges, MaxDeaths} \subseteq Nat

VARIABLES fix,      \* the contents of the GPS record, as a version
          setup,    \* per RIG, the version of its configuration
          owner,    \* the request that holds the admission lock, and how far it is
          waiting,  \* a START with a token, GPS checked, that waits for the lock
          tokens,   \* the tokens in the portal
          passed,   \* per RIG, the version its camera, and its mount, last passed with (-1: never)
          active,   \* the RIGs that run
          spent,    \* the tokens a run was started with
          flaws,    \* what was wrong with a START that was admitted
          counts    \* issues, changes and deaths so far
preflightVars == <<fix, setup, owner, waiting, tokens, passed, active, spent, flaws, counts>>

Parts == {"camera", "mount"}
NoRequest == [at |-> "none", rigs |-> {}, start |-> FALSE, batch |-> {}, token |-> 0]

PreflightTypeInv ==
    /\ fix \in 0..MaxFixes /\ setup \in [Rigs -> 0..MaxChanges]
    /\ owner.at \in {"none", "cameras", "mounts", "passed", "rpc"}
    /\ owner.rigs \subseteq Rigs /\ waiting.rigs \subseteq Rigs /\ active \subseteq Rigs
    /\ \A t \in tokens : t.rig \in t.batch /\ t.batch \subseteq Rigs /\ t.id \in 1..counts.issues
    /\ passed \in [Parts -> [Rigs -> -1..MaxChanges]]

PreflightInit ==
    /\ fix = 0 /\ setup = [r \in Rigs |-> 0]
    /\ owner = NoRequest /\ waiting = NoRequest /\ tokens = {}
    /\ passed = [p \in Parts |-> [r \in Rigs |-> -1]]
    /\ active = {} /\ spent = {} /\ flaws = {}
    /\ counts = [issues |-> 0, changes |-> 0, deaths |-> 0]

Free == owner = NoRequest
Pass(part, well) ==
    passed' = [passed EXCEPT ![part] = [r \in Rigs |-> IF r \in well THEN setup[r] ELSE @[r]]]

\* POST /api/gps/state takes no lock; a GPS synchronization takes it only while it is admitted.
ChangeFix ==
    /\ fix < MaxFixes /\ fix' = fix + 1
    /\ UNCHANGED <<setup, owner, waiting, tokens, passed, active, spent, flaws, counts>>

\* _rig_config_mutation_interlock: under the admission lock, with nothing active.
MayChange == Free /\ active = {}
ChangeSetup ==
    /\ MayChange /\ counts.changes < MaxChanges
    /\ \E r \in Rigs : setup' = [setup EXCEPT ![r] = @ + 1]
    /\ counts' = [counts EXCEPT !.changes = @ + 1]
    /\ UNCHANGED <<fix, owner, waiting, tokens, passed, active, spent, flaws>>

-----------------------------------------------------------------------------
\* prepare_trigger_hardware_batch, under the admission lock from the second GPS check on: for a batch
\* of RIGs (api_trigger_preflight), or for the one RIG of a START without a token.
Begin ==
    /\ Free
    /\ \E rigs \in SUBSET Rigs, start \in BOOLEAN :
        /\ rigs # {} /\ rigs \cap active = {} /\ (start => Cardinality(rigs) = 1)
        /\ owner' = [NoRequest EXCEPT !.at = "cameras", !.rigs = rigs, !.start = start, !.batch = rigs]
    /\ UNCHANGED <<fix, setup, waiting, tokens, passed, active, spent, flaws, counts>>

\* Every camera is tested, in parallel; one failure ends the preflight before any mount moves.
All(well, wanted) == well = wanted
Cameras ==
    /\ owner.at = "cameras"
    /\ \E well \in SUBSET owner.rigs :
        /\ Pass("camera", well)
        /\ owner' = IF All(well, owner.rigs) THEN [owner EXCEPT !.at = "mounts"] ELSE NoRequest
    /\ UNCHANGED <<fix, setup, waiting, tokens, active, spent, flaws, counts>>

\* Every mount is given place and time; only when all have them does every one start to track. The
\* GPS record may lack a place, or a mount may fail at either barrier.
Mounts ==
    /\ owner.at = "mounts"
    /\ LET wanted == owner.rigs \cap Mounted IN
       \E placed, tracking \in SUBSET wanted :
        /\ ~All(placed, wanted) => tracking = {}
        /\ Pass("mount", tracking)
        /\ owner' = IF All(placed, wanted) /\ All(tracking, wanted)
                    THEN [owner EXCEPT !.at = IF owner.start THEN "rpc" ELSE "passed"]
                    ELSE NoRequest
    /\ UNCHANGED <<fix, setup, waiting, tokens, active, spent, flaws, counts>>

\* _trigger_preflight_identity: the RIG's configuration and the GPS record, as they are now. The
\* selected files do not change here.
\* Mutant: the identity leaves the RIG's configuration out.
IdentityOfFix(r) == <<fix, 0>>
Identity(r) == <<fix, setup[r]>>

\* _issue_trigger_preflight_tokens: one per RIG, only now that all have passed. The lock is given back.
IssueTokens ==
    /\ owner.at = "passed" /\ counts.issues < MaxIssues
    /\ counts' = [counts EXCEPT !.issues = @ + 1]
    /\ tokens' = tokens \cup {[id |-> counts.issues + 1, rig |-> r, batch |-> owner.rigs,
                               seen |-> Identity(r)] : r \in owner.rigs}
    /\ owner' = NoRequest
    /\ UNCHANGED <<fix, setup, waiting, passed, active, spent, flaws>>

\* _prune_trigger_preflight_tokens_locked, 120 s after the issue.
ExpireToken ==
    /\ \E t \in tokens : tokens' = tokens \ {t}
    /\ UNCHANGED <<fix, setup, owner, waiting, passed, active, spent, flaws, counts>>

-----------------------------------------------------------------------------
\* api_trigger_start with a token: the GPS is checked, then the lock is asked for. The client may
\* send the same token twice, or that of another RIG (whose is the batch of the request till then).
AskStart ==
    /\ waiting = NoRequest
    /\ \E id \in 1..counts.issues, r, whose \in Rigs :
        waiting' = [NoRequest EXCEPT !.at = "asked", !.rigs = {r}, !.token = id, !.start = TRUE,
                                     !.batch = {whose}]
    /\ UNCHANGED <<fix, setup, owner, tokens, passed, active, spent, flaws, counts>>

\* _consume_trigger_preflight_token: popped whatever comes of it; a token that is missing, expired or
\* of another identity refuses the START.
Presented == {t \in tokens : t.id = waiting.token /\ waiting.batch = {t.rig}}
Left == tokens \ Presented
ConsumeToken ==
    /\ Free /\ waiting.at = "asked"
    /\ LET good == {t \in Presented : waiting.rigs = {t.rig} /\ t.seen = Identity(t.rig)} IN
       owner' = IF good = {} THEN NoRequest
                ELSE [waiting EXCEPT !.at = "rpc", !.batch = UNION {t.batch : t \in good}]
    /\ tokens' = Left /\ waiting' = NoRequest
    /\ UNCHANGED <<fix, setup, passed, active, spent, flaws, counts>>

\* trigger.start in the runtime: refused by its own GPS check or because the RIG runs already, or
\* admitted. The lock is given back with the answer, or when the answer is lost.
Fit(r) == passed["camera"][r] = setup[r] /\ (r \in Mounted => passed["mount"][r] = setup[r])
Tried(r) == passed["camera"][r] >= 0 /\ (r \in Mounted => passed["mount"][r] >= 0)
RuntimeAdmits ==
    /\ owner.at = "rpc" /\ owner.rigs \cap active = {}
    /\ active' = active \cup owner.rigs
    /\ spent' = IF owner.token = 0 THEN spent ELSE spent \cup {<<owner.token, owner.rigs>>}
    /\ flaws' = flaws \cup {f \in {"unfit", "batch", "twice"} :
                    \/ f = "unfit" /\ \E r \in owner.rigs : ~Fit(r)
                    \/ f = "batch" /\ \E r \in owner.batch : ~Tried(r)
                    \/ f = "twice" /\ <<owner.token, owner.rigs>> \in spent}
    /\ owner' = NoRequest
    /\ UNCHANGED <<fix, setup, waiting, tokens, passed, counts>>
RuntimeRefuses ==
    /\ owner.at = "rpc" /\ owner' = NoRequest
    /\ UNCHANGED <<fix, setup, waiting, tokens, passed, active, spent, flaws, counts>>
SequenceEnds ==
    /\ \E r \in active : active' = active \ {r}
    /\ UNCHANGED <<fix, setup, owner, waiting, tokens, passed, spent, flaws, counts>>

\* A portal that restarts drops its lock, its requests and its tokens; a START it has sent on has been
\* answered by the time the next portal serves.
PortalGone ==
    /\ counts.deaths < MaxDeaths
    /\ counts' = [counts EXCEPT !.deaths = @ + 1]
    /\ owner' = NoRequest /\ waiting' = NoRequest /\ tokens' = {}
    /\ UNCHANGED <<fix, setup, passed, active, spent, flaws>>

PreflightNext ==
    \/ ChangeFix \/ ChangeSetup \/ Begin \/ Cameras \/ Mounts \/ IssueTokens \/ ExpireToken
    \/ AskStart \/ ConsumeToken \/ RuntimeAdmits \/ RuntimeRefuses \/ SequenceEnds \/ PortalGone
PreflightSpec == PreflightInit /\ [][PreflightNext]_preflightVars
-----------------------------------------------------------------------------
\* A RIG starts only with a camera and a mount that passed with the very configuration it starts with
\* (app.py:5318).
StartedFit == "unfit" \notin flaws
\* A RIG starts on a token only if every RIG of its batch passed: "a camera/mount failure can never
\* leave an earlier RIG sequence already running" (app.py:5602).
BatchWhole == "batch" \notin flaws
\* A token starts one run (app.py:5294).
TokensOnce == "twice" \notin flaws
PreflightSafe == StartedFit /\ BatchWhole /\ TokensOnce
=============================================================================
