------------------------------ MODULE MCWorker ------------------------------
(***************************************************************************)
(* Instances of the worker small enough for TLC.                           *)
(***************************************************************************)
EXTENDS WorkerProperties, TLC

\* For an instance without inventory jobs and without fairness: no action, and no
\* property it checks, tells two processes or two jobs apart.
WorkerSymmetry == Permutations(Proc) \cup Permutations(Job)
=============================================================================
