-------------------------- MODULE MCDeviceAdmission --------------------------
(* Instances of DeviceAdmission for TLC.                                     *)
EXTENDS DeviceAdmission, TLC

Symmetry == Permutations(Devices)
=============================================================================
