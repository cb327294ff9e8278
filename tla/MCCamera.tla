------------------------------- MODULE MCCamera -------------------------------
\* CameraLease and CameraSession are checked side by side: part is the one that runs.
EXTENDS TLC, CameraLease, CameraSession
CONSTANTS s1, s2, s3, h1, h2
VARIABLE part

Init == part \in {"lease", "session"} /\ CameraLeaseInit /\ CameraSessionInit

LeasePart == part = "lease" /\ CameraLeaseNext /\ UNCHANGED <<part, sessionVars>>
SessionPart == part = "session" /\ CameraSessionNext /\ UNCHANGED <<part, leaseVars>>

Spec == Init /\ [][LeasePart \/ SessionPart]_<<part, leaseVars, sessionVars>>
Symmetric == Permutations({h1, h2})
=============================================================================
