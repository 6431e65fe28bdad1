-------------------------- MODULE MCDeviceCommands --------------------------
(***************************************************************************)
(* Instances of DeviceCommands for TLC.                                    *)
(***************************************************************************)
EXTENDS DeviceCommands, TLC

CONSTANTS c1, c2, heartbeat, poll

\* The two claimers run the same code.
ClaimerSymmetry == Permutations(Claimers)
=============================================================================
