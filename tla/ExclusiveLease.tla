----------------------------- MODULE ExclusiveLease -----------------------------
(***************************************************************************)
(* What the camera runtime promises its clients: a RIG has one holder at a *)
(* time, and as long as it has one its camera binding does not change.     *)
(***************************************************************************)
CONSTANTS Sessions, Rigs, Bindings, Unbound
VARIABLES
    held,          \* the RIGs each session holds
    bound,         \* the camera each RIG is bound to, or Unbound
    ended          \* the runtime shuts down and promises nothing any more

LeaseInit ==
    /\ held = [s \in Sessions |-> {}]
    /\ bound = [r \in Rigs |-> Unbound] /\ ended = FALSE

Acquire(s, R) ==
    /\ held[s] = {} /\ R # {} /\ \A t \in Sessions : held[t] \cap R = {}
    /\ held' = [held EXCEPT ![s] = R]
    /\ UNCHANGED <<bound, ended>>

Release(s) ==
    /\ held' = [held EXCEPT ![s] = {}]
    /\ UNCHANGED <<bound, ended>>

\* A RIG without a camera may get one under a lease of all RIGs.
Rebind ==
    /\ bound' \in [Rigs -> Bindings \cup {Unbound}]
    /\ \A r \in Rigs : bound'[r] = bound[r] \/ bound[r] = Unbound
                       \/ \A s \in Sessions : r \notin held[s]
    /\ UNCHANGED <<held, ended>>

End == ended' = TRUE
AfterEnd == ended /\ ended'

LeaseNext ==
    \/ \E s \in Sessions : Release(s) \/ \E R \in SUBSET Rigs : Acquire(s, R)
    \/ Rebind \/ End \/ AfterEnd

LeaseSpec == LeaseInit /\ [][LeaseNext]_<<held, bound, ended>>
=============================================================================
