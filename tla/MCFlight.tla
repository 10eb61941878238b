------------------------------- MODULE MCFlight -------------------------------
(***************************************************************************)
(* Instances of the flight recorder small enough for TLC.                  *)
(***************************************************************************)
EXTENDS FlightProperties

CONSTANTS coordinator, handler, direct,   \* threads
          worker, command,                \* processes
          small, large                    \* records

\* The worker's two threads, and a command that runs the engine itself.
TwoProcesses ==
    [t \in {coordinator, handler, direct} |-> IF t = direct THEN command ELSE worker]

OneProcess == [t \in {coordinator, handler} |-> worker]

\* The large record fills the ring, so that one of the two has to go.
Sizes == [r \in {small, large} |-> IF r = large THEN 2 ELSE 1]
=============================================================================
