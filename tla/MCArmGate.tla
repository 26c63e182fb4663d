------------------------------ MODULE MCArmGate ------------------------------
(* Instances of ArmGate for TLC.                                             *)
EXTENDS ArmGate
CONSTANT q1
=============================================================================
