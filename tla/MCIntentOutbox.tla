--------------------------- MODULE MCIntentOutbox ---------------------------
(***************************************************************************)
(* Instances of IntentOutbox for TLC.                                      *)
(***************************************************************************)
EXTENDS IntentOutbox
=============================================================================
