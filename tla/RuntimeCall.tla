----------------------------- MODULE RuntimeCall -----------------------------
(***************************************************************************)
(* What a call of the runtime promises to the portal, whatever is lost on  *)
(* the way: a call takes effect at most once while the runtime remembers   *)
(* it; an answer is only given to a call that took effect; and a call that *)
(* is said to be unavailable never takes effect.                           *)
(***************************************************************************)
EXTENDS Naturals
CONSTANT Calls

VARIABLES
    effective,   \* the calls that took effect and are remembered
    ever,        \* how often each of them ever did
    outcome      \* what each caller was told

callVars == <<effective, ever, outcome>>

Outcomes == {"none", "answer", "unavailable", "unknown"}

CallInit ==
    /\ effective = {} /\ ever = [c \in Calls |-> 0]
    /\ outcome = [c \in Calls |-> "none"]

TakeEffect(c) ==
    /\ c \notin effective /\ outcome[c] # "unavailable"
    /\ effective' = effective \cup {c} /\ ever' = [ever EXCEPT ![c] = @ + 1]
    /\ UNCHANGED outcome

Return(c, told) ==
    /\ outcome[c] = "none"
    /\ told = "answer" => ever[c] > 0
    /\ told = "unavailable" => ever[c] = 0
    /\ outcome' = [outcome EXCEPT ![c] = told]
    /\ UNCHANGED <<effective, ever>>

\* The runtime ends and the next one knows nothing of the calls, or it drops an answer.
Forget(lost) == effective' = effective \ lost /\ UNCHANGED <<ever, outcome>>

CallNext ==
    \/ \E c \in Calls : TakeEffect(c) \/ \E told \in Outcomes \ {"none"} : Return(c, told)
    \/ \E lost \in SUBSET effective : Forget(lost)

CallSpec == CallInit /\ [][CallNext]_callVars
=============================================================================
