------------------------------ MODULE Qualification ------------------------------
\* The final qualification of a timing contract (qualify_operational_contract_v3): the recipe of
\* camera_validation is executed by the real plugin in one camera session; an operation over its
\* budget revises that budget and the recipe starts again. Durations in units of 50 ms.
EXTENDS Naturals, Sequences, FiniteSets, SequencesExt, FiniteSetsExt
CONSTANTS
    Recipe,      \* the commands: "set", the "first" photo, "single" and "bracket" photos
    Worst,       \* no operation lasts longer
    MaxRefusals  \* times the camera asks the operator for a physical setting
ASSUME QualificationAssumption ==
    /\ Recipe \in Seq({"set", "first", "single", "bracket"}) \ {<<>>}
    /\ Worst \in Nat /\ MaxRefusals \in Nat

VARIABLES
    contract,  \* the budgets of the timing contract
    qualify,   \* "preflight", "recipe", or how it ended
    command,   \* command_index
    recipe,    \* the budgets this attempt was built with
    longest,   \* history: the longest operation of each kind that forced a revision
    attempt,   \* history: the longest operation of each kind in this attempt
    refusals
qualificationVars == <<contract, qualify, command, recipe, longest, attempt, refusals>>

Kinds4 == {"set", "first", "single", "bracket"}
Margin(n) == n + 1 + (n + 9) \div 10
\* Bound on a budget: a first photo that is always late raises the one of the others without end.
Upper == 2 * Margin(Worst) + 2
QualificationTypeInv ==
    /\ contract \in [Kinds4 -> 0..Upper] /\ recipe \in [Kinds4 -> 0..Upper]
    /\ qualify \in {"preflight", "recipe", "validated", "cancelled", "failed"}
    /\ command \in 1..Len(Recipe) + 1
    /\ longest \in [Kinds4 -> 0..Worst] /\ attempt \in [Kinds4 -> 0..Worst]
    /\ refusals \in 0..MaxRefusals

Zeros == [k \in Kinds4 |-> 0]
\* The contract as it was measured: the first photo of a session never has less than another
\* one, and exactly as much if it could not be measured.
QualificationInit ==
    /\ \E s, p, b \in 0..Worst : \E cold \in 0..Worst :
        contract = [set |-> Margin(s), single |-> Margin(p), bracket |-> Margin(b),
                    first |-> Max({Margin(p), Margin(cold)})]
    /\ qualify = "preflight" /\ command = 1 /\ recipe = Zeros
    /\ longest = Zeros /\ attempt = Zeros /\ refusals = 0

\* The plugin brings the camera to its state; a setting it cannot change is left to the operator,
\* who corrects it or gives up.
Preflight(ready, gives_up) ==
    /\ qualify = "preflight"
    /\ IF ready
       THEN /\ qualify' = "recipe" /\ recipe' = contract /\ command' = 1 /\ attempt' = Zeros
            /\ UNCHANGED refusals
       ELSE /\ refusals < MaxRefusals /\ refusals' = refusals + 1
            /\ qualify' = IF gives_up THEN "cancelled" ELSE qualify
            /\ UNCHANGED <<recipe, command, attempt>>
    /\ UNCHANGED <<contract, longest>>

\* The budget that is raised: of a single photo, the first one included, single_overhead_ms.
Revised(kind, takes) ==
    IF kind = "set" THEN [contract EXCEPT !.set = Max({@, Margin(takes)})]
    ELSE IF kind = "bracket" THEN [contract EXCEPT !.bracket = @ + Margin(takes - recipe[kind])]
    ELSE [contract EXCEPT !.single = @ + Margin(takes - recipe[kind])]

\* One command: it fails, it keeps its budget, or the budget is revised and all starts again.
Command(takes) ==
    /\ qualify = "recipe" /\ command <= Len(Recipe)
    /\ LET kind == Recipe[command] IN
       /\ attempt' = [attempt EXCEPT ![kind] = Max({@, takes})]
       /\ IF takes <= recipe[kind]
          THEN command' = command + 1 /\ UNCHANGED <<contract, qualify, longest>>
          ELSE /\ Revised(kind, takes).single <= Upper
               /\ contract' = Revised(kind, takes) /\ qualify' = "preflight"
               /\ longest' = [longest EXCEPT ![kind] = Max({@, takes})]
               /\ UNCHANGED command
    /\ UNCHANGED <<recipe, refusals>>
CommandFails ==
    /\ qualify = "recipe" /\ command <= Len(Recipe)
    /\ qualify' = "failed"
    /\ UNCHANGED <<contract, command, recipe, longest, attempt, refusals>>
Validated ==
    /\ qualify = "recipe" /\ command > Len(Recipe)
    /\ qualify' = "validated"
    /\ UNCHANGED <<contract, command, recipe, longest, attempt, refusals>>

QualificationNext ==
    \/ \E ready, gives_up \in BOOLEAN : Preflight(ready, gives_up)
    \/ \E takes \in 0..Worst : Command(takes)
    \/ CommandFails \/ Validated
QualificationSpec == QualificationInit /\ [][QualificationNext]_qualificationVars

(* ---- What the qualification promises ---- *)
\* A revised budget covers the operation that forced the revision (:4510), and a validated
\* contract covers every operation of its last, uninterrupted attempt (:4564).
ContractCovers ==
    /\ \A kind \in {"set", "single", "bracket"} : contract[kind] >= longest[kind]
    /\ qualify = "validated" => \A kind \in Kinds4 : attempt[kind] <= contract[kind]
=============================================================================
