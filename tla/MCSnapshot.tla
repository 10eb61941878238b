----------------------------- MODULE MCSnapshot -----------------------------
(* An instance of SnapshotProperties.  A process alone meets three edits; or  *)
(* two processes open an empty store at once, with a file too many.           *)
EXTENDS SnapshotProperties
CONSTANTS p, q
Both == {[procs |-> {p}, files |-> 2, edits |-> 3], [procs |-> {p, q}, files |-> 1, edits |-> 1]}
=============================================================================
