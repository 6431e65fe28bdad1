---------------------------- MODULE MCScriptRuns ----------------------------
(***************************************************************************)
(* Instances of ScriptRuns for TLC.                                        *)
(***************************************************************************)
EXTENDS ScriptRuns, TLC

\* No action tells two cancel commands apart.  Used only without fairness.
StopSymmetry == Permutations(Cancels)
=============================================================================
