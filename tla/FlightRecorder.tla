---------------------------- MODULE FlightRecorder ----------------------------
(***************************************************************************)
(* The flight recorder of LocalStore (store.py:607): encrypted files in a  *)
(* directory and a table that indexes them.  A record is appended by the   *)
(* engine in the coordinator's thread, purged by the request thread, and   *)
(* either may share the state directory with another process.              *)
(*                                                                         *)
(* SQLite lets one transaction write at a time; a SELECT that precedes the *)
(* first DELETE of a method is outside its transaction.                    *)
(***************************************************************************)
EXTENDS Integers, FiniteSets, FiniteSetsExt

CONSTANTS Thread,     \* threads that call the recorder
          Appender,   \* those that run the engine, which appends (engine.py:1147)
          Purger,     \* those that serve requests, which purge (worker.py:404)
          Owner,      \* Owner[t]: the process of thread t
          NoThread,
          Record,     \* identifiers of records
          NoRecord,
          Size,       \* Size[r]: bytes of the serialized payload
          MaxBytes,   \* FLIGHT_MAX_BYTES
          Retention,  \* FLIGHT_RETENTION
          MaxClock,   \* bound: how far time goes
          MaxPurges,  \* bound: purges
          MaxFaults   \* bound: crashes and statements that fail

ASSUME RecorderAssumption ==
    /\ Appender \subseteq Thread /\ Purger \subseteq Thread
    /\ NoThread \notin Thread /\ NoRecord \notin Record
    /\ IsFiniteSet(Record)
    /\ Size \in [Record -> Nat] /\ MaxBytes \in Nat
    /\ Retention \in Nat \ {0}
    /\ MaxClock \in Nat /\ MaxPurges \in Nat /\ MaxFaults \in Nat

VARIABLES clock,   \* the time, which no two appends read alike
          files,   \* records whose *.enc file exists
          temps,   \* records whose bytes are in a file of mkstemp
          table,   \* rows of flight_records: table[r] is recorded_at
          fresh,   \* records no append has taken yet (uuid4)
          writer,  \* thread whose write transaction is open
          thread,  \* thread[t]: where t is in a method, and its locals
          used     \* how much of each bound has been spent; lost: crashes and files that
                   \* could not be unlinked

vars == <<clock, files, temps, table, fresh, writer, thread, used>>

Pc == {"idle", "write", "replace", "insert",
       "expired", "dropExpired", "deleteExpired", "rows", "dropRows", "deleteRows",
       "purge", "purgeDelete", "purgeDrop", "glob", "globDrop"}

Evicting == {"expired", "dropExpired", "deleteExpired", "rows", "dropRows", "deleteRows"}
Purging == {"purge", "purgeDelete", "purgeDrop", "glob", "globDrop"}

\* todo: files still to unlink; ids: rows to delete next; gone: rows deleted in
\* the open transaction; seen: the *.enc files there were when a purge began.
Idle == [pc |-> "idle", rec |-> NoRecord, now |-> 0,
         todo |-> {}, ids |-> {}, gone |-> {}, seen |-> {}]

Init ==
    /\ clock = 1
    /\ files = {}
    /\ temps = {}
    /\ table = [r \in {} |-> 0]
    /\ fresh = Record
    /\ writer = NoThread
    /\ thread = [t \in Thread |-> Idle]
    /\ used = [purges |-> 0, faults |-> 0, lost |-> 0]

Rows == DOMAIN table

\* Mutant: the DELETE is not committed.
KeepRows(rows) == table

\* DELETE FROM flight_records WHERE id = ?
Without(rows) == [r \in Rows \ rows |-> table[r]]

At(t, pc) == thread[t].pc = pc

\* Mutant: a transaction does not wait for another.
AnyMayWrite(t) == TRUE

Free(t) == writer \in {t, NoThread}
Bytes(rows) == MapThenSumSet(LAMBDA r : Size[r], rows)

\* SELECT ... WHERE expires_at <= ?
Expired(now) == {r \in Rows : table[r] + Retention <= now}

\* r and the rows after it in ORDER BY recorded_at
FromItOn(rows, r) == {q \in rows : table[q] >= table[r]}

\* Mutant: the loop stops one row too early.
OverflowLess(rows) == {r \in rows : Bytes(FromItOn(rows, r) \ {r}) > MaxBytes}

\* The loop drops a row while it and all that come after it exceed the limit.
Overflow(rows) == {r \in rows : Bytes(FromItOn(rows, r)) > MaxBytes}

Tick ==
    /\ clock < MaxClock
    /\ clock' = clock + 1
    /\ UNCHANGED <<files, temps, table, fresh, writer, thread, used>>

-----------------------------------------------------------------------------
(* append_flight_record                                                     *)

Append(t, r) ==
    /\ t \in Appender /\ At(t, "idle") /\ r \in fresh /\ Size[r] <= MaxBytes
    /\ clock < MaxClock
    /\ clock' = clock + 1
    /\ fresh' = fresh \ {r}
    /\ thread' = [thread EXCEPT ![t] = [Idle EXCEPT !.pc = "write", !.rec = r,
                                                    !.now = clock + 1]]
    /\ UNCHANGED <<files, temps, table, writer, used>>

\* _atomic_write
WriteTemp(t) ==
    /\ At(t, "write")
    /\ temps' = temps \cup {thread[t].rec}
    /\ thread' = [thread EXCEPT ![t].pc = "replace"]
    /\ UNCHANGED <<clock, files, table, fresh, writer, used>>

Replace(t) ==
    /\ At(t, "replace")
    /\ temps' = temps \ {thread[t].rec}
    /\ files' = files \cup {thread[t].rec}
    /\ thread' = [thread EXCEPT ![t].pc = "insert"]
    /\ UNCHANGED <<clock, table, fresh, writer, used>>

Insert(t) ==
    /\ At(t, "insert") /\ Free(t)
    /\ table' = [r \in Rows \cup {thread[t].rec} |->
                    IF r = thread[t].rec THEN thread[t].now ELSE table[r]]
    /\ thread' = [thread EXCEPT ![t].pc = "expired"]
    /\ UNCHANGED <<clock, files, temps, fresh, writer, used>>

\* Mutant: the file is left behind.
KeepTarget(rec) == files

\* except sqlite3.Error: target.unlink(missing_ok=True)
DropTarget(rec) == files \ {rec}

\* A statement raises sqlite3.Error: the transaction is rolled back.  In an
\* append the target is removed, in a purge nothing more is done.  A write that
\* fails removes its temporary file, and there is no target yet.
StatementFails(t) ==
    /\ thread[t].pc \in {"replace", "insert", "expired", "deleteExpired", "rows", "deleteRows",
                         "purge", "purgeDelete"}
    /\ used.faults < MaxFaults
    /\ used' = [used EXCEPT !.faults = @ + 1]
    /\ files' = DropTarget(thread[t].rec)
    /\ temps' = temps \ {thread[t].rec}
    /\ writer' = IF writer = t THEN NoThread ELSE writer
    /\ thread' = [thread EXCEPT ![t] = Idle]
    /\ UNCHANGED <<clock, table, fresh>>

-----------------------------------------------------------------------------
(* _delete_flight_paths: one file after the other                           *)

\* One file while there are any, then on to pc.
Unlink(t, from, pc) ==
    /\ At(t, from)
    /\ IF thread[t].todo = {}
       THEN /\ thread' = [thread EXCEPT ![t].pc = pc]
            /\ UNCHANGED files
       ELSE \E r \in thread[t].todo :
            /\ files' = files \ {r}
            /\ thread' = [thread EXCEPT ![t].todo = @ \ {r}]
    /\ UNCHANGED <<clock, temps, table, fresh, writer, used>>

\* except OSError: continue; in the last loop of a purge it ends the purge.
UnlinkFails(t) ==
    /\ used.faults < MaxFaults
    /\ used' = [used EXCEPT !.faults = @ + 1, !.lost = @ + 1]
    /\ \E r \in thread[t].todo :
        \/ /\ thread[t].pc \in {"dropExpired", "dropRows", "purgeDrop"}
           /\ thread' = [thread EXCEPT ![t].todo = @ \ {r}]
        \/ /\ At(t, "globDrop")
           /\ thread' = [thread EXCEPT ![t] = Idle]
    /\ UNCHANGED <<clock, files, temps, table, fresh, writer>>

-----------------------------------------------------------------------------
(* _evict_flight_records                                                    *)

SelectExpired(t) ==
    /\ At(t, "expired")
    /\ LET ids == Expired(thread[t].now)
       IN thread' = [thread EXCEPT ![t].pc = "dropExpired",
                                   ![t].todo = ids, ![t].ids = ids]
    /\ UNCHANGED <<clock, files, temps, table, fresh, writer, used>>

DropExpired(t) == Unlink(t, "dropExpired", "deleteExpired")

\* if expired_ids: the DELETE opens the transaction
DeleteExpired(t) ==
    /\ At(t, "deleteExpired")
    /\ thread[t].ids # {} => Free(t)
    /\ writer' = IF thread[t].ids # {} THEN t ELSE writer
    /\ thread' = [thread EXCEPT ![t].pc = "rows", ![t].gone = thread[t].ids]
    /\ UNCHANGED <<clock, files, temps, table, fresh, used>>

SelectRows(t) ==
    /\ At(t, "rows")
    /\ LET ids == Overflow(Rows \ thread[t].gone)
       IN thread' = [thread EXCEPT ![t].pc = "dropRows",
                                   ![t].todo = ids, ![t].ids = ids]
    /\ UNCHANGED <<clock, files, temps, table, fresh, writer, used>>

DropRows(t) == Unlink(t, "dropRows", "deleteRows")

\* if remove: DELETE; then the transaction, if any, is committed
DeleteRows(t) ==
    /\ At(t, "deleteRows")
    /\ thread[t].ids # {} => Free(t)
    /\ table' = Without(thread[t].gone \cup thread[t].ids)
    /\ writer' = IF writer = t THEN NoThread ELSE writer
    /\ thread' = [thread EXCEPT ![t] = Idle]
    /\ UNCHANGED <<clock, files, temps, fresh, used>>

-----------------------------------------------------------------------------
(* purge_flight_recorder, after which the request thread calls              *)
(* flight_recorder_status, which evicts.                                    *)

Purge(t) ==
    /\ t \in Purger /\ At(t, "idle")
    /\ used.purges < MaxPurges
    /\ used' = [used EXCEPT !.purges = @ + 1]
    /\ thread' = [thread EXCEPT ![t] = [Idle EXCEPT !.pc = "purge", !.seen = files]]
    /\ UNCHANGED <<clock, files, temps, table, fresh, writer>>

PurgeSelect(t) ==
    /\ At(t, "purge")
    /\ thread' = [thread EXCEPT ![t].pc = "purgeDelete", ![t].todo = Rows]
    /\ UNCHANGED <<clock, files, temps, table, fresh, writer, used>>

PurgeDelete(t) ==
    /\ At(t, "purgeDelete") /\ Free(t)
    /\ table' = [r \in {} |-> 0]
    /\ thread' = [thread EXCEPT ![t].pc = "purgeDrop"]
    /\ UNCHANGED <<clock, files, temps, fresh, writer, used>>

PurgeDrop(t) == Unlink(t, "purgeDrop", "glob")

\* Mutant: only the files the index named are removed.
GlobNothing == {}

\* glob("*.enc"), which lists the directory before the first unlink
Globbed == files

Glob(t) ==
    /\ At(t, "glob")
    /\ thread' = [thread EXCEPT ![t].pc = "globDrop", ![t].todo = Globbed]
    /\ UNCHANGED <<clock, files, temps, table, fresh, writer, used>>

\* flight_recorder_status follows.
GlobDrop(t) ==
    \/ thread[t].todo # {} /\ Unlink(t, "globDrop", "globDrop")
    \/ /\ At(t, "globDrop") /\ thread[t].todo = {}
       /\ thread' = [thread EXCEPT ![t] = [Idle EXCEPT !.pc = "expired", !.now = clock]]
       /\ UNCHANGED <<clock, files, temps, table, fresh, writer, used>>

-----------------------------------------------------------------------------

\* The process of a thread dies: its open transaction is rolled back.
Crash(t) ==
    /\ ~At(t, "idle")
    /\ used.faults < MaxFaults
    /\ used' = [used EXCEPT !.faults = @ + 1, !.lost = @ + 1]
    /\ writer' = IF writer # NoThread /\ Owner[writer] = Owner[t] THEN NoThread ELSE writer
    /\ thread' = [u \in Thread |-> IF Owner[u] = Owner[t] THEN Idle ELSE thread[u]]
    /\ UNCHANGED <<clock, files, temps, table, fresh>>

Next ==
    \/ Tick
    \/ \E t \in Thread :
        \/ \E r \in Record : Append(t, r)
        \/ WriteTemp(t) \/ Replace(t) \/ Insert(t)
        \/ StatementFails(t) \/ UnlinkFails(t)
        \/ SelectExpired(t) \/ DropExpired(t) \/ DeleteExpired(t)
        \/ SelectRows(t) \/ DropRows(t) \/ DeleteRows(t)
        \/ Purge(t) \/ PurgeSelect(t) \/ PurgeDelete(t) \/ PurgeDrop(t)
        \/ Glob(t) \/ GlobDrop(t) \/ Crash(t)

Spec == Init /\ [][Next]_vars
=============================================================================
