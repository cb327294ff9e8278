----------------------------- MODULE MCRuntime -----------------------------
\* The daemon in the parts that do not share state: `part' says which one a behaviour is of.
EXTENDS RuntimeRpc, RuntimeRecovery, RuntimeRelay
CONSTANTS c1
VARIABLE part
RuntimeInit == part \in {"rpc", "recovery", "relay"} /\ RpcInit /\ RecoveryInit /\ RelayInit
RpcPart(A) == part = "rpc" /\ A /\ UNCHANGED <<recoveryVars, relayVars, part>>
RecoveryPart(A) == part = "recovery" /\ A /\ UNCHANGED <<rpcVars, relayVars, part>>
RelayPart(A) == part = "relay" /\ A /\ UNCHANGED <<rpcVars, recoveryVars, part>>
RuntimeNext == RpcPart(RpcNext) \/ RecoveryPart(RecoveryNext) \/ RelayPart(RelayNext)
RuntimeVars == <<rpcVars, recoveryVars, relayVars, part>>
RuntimeSpec ==
    /\ RuntimeInit /\ [][RuntimeNext]_RuntimeVars
    /\ WF_RuntimeVars(RpcPart(MainStep))
    /\ \A h \in Connections : WF_RuntimeVars(RpcPart(HandlerStep(h)))
=============================================================================
