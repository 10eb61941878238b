------------------------------ MODULE MCClient ------------------------------
(***************************************************************************)
(* An instance of the commands and their workers small enough for TLC.     *)
(***************************************************************************)
EXTENDS ClientProperties, TLC
=============================================================================
