-------------------------- MODULE MCGenericWorker --------------------------
(* Instances of GenericWorker: a sequencer call with a deadline, a diagnostic  *)
(* one, and up to two threads that stop the worker.                            *)
EXTENDS GenericWorker

CONSTANTS photo, probe, s1, s2

MCPriority == [j \in Jobs |->
    IF j = photo THEN PRIORITY_SEQUENCER ELSE PRIORITY_DIAGNOSTIC]
=============================================================================
