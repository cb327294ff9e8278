------------------------- MODULE MCSupervisedDevice -------------------------
(* Instances of SupervisedDevice: the threads are model values. *)
EXTENDS SupervisedDevice

CONSTANTS m1, m2, stop1, reader1
=============================================================================
