------------------------- MODULE MCLegacyVMCreation -------------------------
(* Model-checking instance of LegacyVMCreation: two resource versions of   *)
(* the environment, every class of VM environment.                         *)
EXTENDS LegacyVMCreation

CONSTANTS r1, r2

MCResources == {r1, r2}

AllEnvs == [persistent: BOOLEAN, guiEnabled: BOOLEAN]
PersistentEnvs == [persistent: {TRUE}, guiEnabled: BOOLEAN]
EphemeralEnvs == [persistent: {FALSE}, guiEnabled: BOOLEAN]
=============================================================================
