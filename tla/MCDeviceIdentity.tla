-------------------------- MODULE MCDeviceIdentity --------------------------
(* Model-checking instance of DeviceIdentity.  No symmetry: the run checks liveness. *)
EXTENDS DeviceIdentity

CONSTANTS r1, r2, r3, c1, c2, f1, f2
=============================================================================
