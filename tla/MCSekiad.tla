------------------------------ MODULE MCSekiad ------------------------------
(* Instances of Sekiad for TLC.                                            *)
EXTENDS Sekiad, MCDaemon

CONSTANT name

OneName == [p \in Procs |-> name]
=============================================================================
