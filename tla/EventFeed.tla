------------------------------ MODULE EventFeed -----------------------------
(***************************************************************************)
(* What the worker promises a client about the events of a job: one feed   *)
(* per job that only ever grows at its end.  A client that has seen the    *)
(* first n events asks for those after n (operation "status", parameter    *)
(* `since`) and so sees every event once, in order.                        *)
(***************************************************************************)
EXTENDS Sequences

CONSTANTS Job, Stage

VARIABLE feed   \* feed[j]: the stages of the events of j, oldest first

Init == feed = [j \in Job |-> <<>>]

Publish(j, stage) == feed' = [feed EXCEPT ![j] = Append(feed[j], stage)]

Next == \E j \in Job, stage \in Stage : Publish(j, stage)

Spec == Init /\ [][Next]_feed
=============================================================================
