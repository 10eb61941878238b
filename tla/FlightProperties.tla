--------------------------- MODULE FlightProperties ---------------------------
(***************************************************************************)
(* What the flight recorder must keep, stated over module FlightRecorder.  *)
(***************************************************************************)
EXTENDS FlightRecorder

Locals == [pc : Pc, rec : Record \cup {NoRecord}, now : Nat,
           todo : SUBSET Record, ids : SUBSET Record,
           gone : SUBSET Record, seen : SUBSET Record]

\* Every variable holds a value of its kind; the thread whose transaction is
\* open is evicting (store.py:622), and only it has uncommitted deletions.
TypeOK ==
    /\ clock \in Nat /\ used \in [purges : Nat, faults : Nat, lost : Nat]
    /\ files \subseteq Record /\ temps \subseteq Record /\ fresh \subseteq Record /\ Rows \subseteq Record
    /\ table \in [Rows -> Nat]
    /\ writer \in Thread \cup {NoThread}
    /\ thread \in [Thread -> Locals]
    /\ \A t \in Thread : thread[t].gone # {} => writer = t
    /\ writer # NoThread => thread[writer].pc \in Evicting

Settled == \A t \in Thread : At(t, "idle")

\* A file that no row names is on its way into the table, or a purge is about
\* to remove it: unless a process died or an unlink
\* failed, no encrypted record is left that
\* eviction would never find, though INSERT and unlink can come in any order
\* and a statement can fail (append_flight_record, purge_flight_recorder).
NoOrphanFile ==
    used.lost = 0 =>
        \A r \in files \ Rows : \E t \in Thread :
            \/ At(t, "insert") /\ thread[t].rec = r
            \/ thread[t].pc \in Purging

\* A row lost its file only to an eviction that will delete the row as well,
\* with purges and failures left aside (_evict_flight_records).
RowsHaveFiles ==
    used.purges = 0 /\ used.faults = 0 =>
        \A r \in Rows \ files : \E t \in Thread : r \in thread[t].ids \cup thread[t].gone

\* Once every append has evicted, the rows fit into the ring, whoever appended
\* at the same time (FLIGHT_MAX_BYTES).
CapacityHeld == (Settled /\ used.faults = 0) => Bytes(Rows) <= MaxBytes

PurgeEnds(t) == At(t, "globDrop") /\ thread'[t].pc = "expired"

\* When a purge ends, none of the *.enc files is left that existed when it was
\* asked for, whether a row named them, an append was still to insert its row,
\* or a crash or a failed unlink had left them without one
\* (purge_flight_recorder).  Of an append in flight the row may stay, without
\* its file.  The file of mkstemp is not an *.enc file: see PurgeLeavesNothing.
PurgeErases == [][\A t \in Thread : PurgeEnds(t) => thread[t].seen \cap files = {}]_vars

\* The temporary files of appends that are over: encrypted records too.
Leftover == {r \in temps : \A u \in Thread : thread[u].rec # r}

\* "deletes indexed records and any remaining encrypted recorder files
\* immediately" (docs/SESSION_EVIDENCE.md:75): also what an append left that
\* died between mkstemp and os.replace (_atomic_write).  Where one process has
\* all the threads, its death ends a purge as well, and what is left when a
\* purge ends was there when it was asked for.
PurgeLeavesNothing == [][\A t \in Thread : PurgeEnds(t) => Leftover = {}]_vars
=============================================================================
