------------------------------ MODULE JobStore ------------------------------
(***************************************************************************)
(* The tables `jobs` and `events` of LocalStore (store.py).  Every method  *)
(* of the store is one SQLite transaction, so every operator below is one  *)
(* atomic change of the tables; what a caller does between two of them is  *)
(* in module Worker.                                                       *)
(*                                                                         *)
(* A row keeps the columns that decide control.  Timestamps, paths, the    *)
(* options document and error texts are left out; `created_at` is kept as  *)
(* the order in which rows were created.                                   *)
(***************************************************************************)
EXTENDS Naturals, Sequences, FiniteSets

CONSTANTS Job,        \* job identifiers a client can be given
          ListLimit   \* rows JobCoordinator asks list_jobs for (1000 in the code)

ASSUME JobAssumption == IsFiniteSet(Job)
ASSUME ListLimitAssumption == ListLimit \in Nat \ {0}

VARIABLES jobs,       \* jobs[j]: the row of j, or Absent
          order,      \* the jobs in the order their rows were created
          events,     \* events[j]: the rows of j, keyed by sequence number
          artifacts   \* artifacts[j][f]: attempt that wrote report file f, 0 if none

storeVars == <<jobs, order, events, artifacts>>

Status == {"queued", "running", "complete", "failed", "cancelled"}
Terminal == {"complete", "failed", "cancelled"}
\* "reported" stands for whichever result_state the completed report carries.
Result == {"null", "reported", "analysis_incomplete", "internal_error", "cancelled"}
Stage == {"queue", "resume", "snapshot", "analysis", "performance", "report",
          "heartbeat", "cancelled", "error"}
\* write_report writes the JSON document first, then its three renderings.
Format == {"json", "rendered"}

Absent == [status |-> "absent", attempt |-> 0, cancel |-> FALSE,
           result |-> "null", report |-> FALSE]

Row == [status : Status \cup {"absent"}, attempt : Nat, cancel : BOOLEAN,
        result : Result, report : BOOLEAN]

StoreInit ==
    /\ jobs = [j \in Job |-> Absent]
    /\ order = <<>>
    /\ events = [j \in Job |-> <<>>]
    /\ artifacts = [j \in Job |-> [f \in Format |-> 0]]

-----------------------------------------------------------------------------
(* UPDATE and INSERT statements on jobs.                                    *)

CreateJob(j) ==
    /\ jobs' = [jobs EXCEPT ![j] = [Absent EXCEPT !.status = "queued"]]
    /\ order' = Append(order, j)

\* WHERE id = ? AND status = 'queued'
Claimable(j) == jobs[j].status = "queued"

MarkRunning(j) ==
    jobs' = [jobs EXCEPT ![j] = [status  |-> "running",
                                 attempt |-> jobs[j].attempt + 1,
                                 cancel  |-> FALSE,
                                 result  |-> jobs[j].result,
                                 report  |-> jobs[j].report]]

\* WHERE id = ? AND status IN ('queued', 'running')
Cancellable(j) == jobs[j].status \in {"queued", "running"}

RequestCancel(j) == jobs' = [jobs EXCEPT ![j].cancel = TRUE]

\* No condition on the status: whatever the row says is overwritten.
MarkCancelled(j) ==
    jobs' = [jobs EXCEPT ![j].status = "cancelled", ![j].result = "cancelled"]

\* Mutant: a complete job can be resumed as well.
ResumableAny(j) == jobs[j].status \in Terminal

\* WHERE id = ? AND status IN ('failed', 'cancelled'); report_path is kept.
Resumable(j) == jobs[j].status \in {"failed", "cancelled"}

ResumeJob(j) ==
    jobs' = [jobs EXCEPT ![j].status = "queued", ![j].cancel = FALSE,
                         ![j].result = "null"]

\* No condition on the status.
CompleteJob(j, result) ==
    jobs' = [jobs EXCEPT ![j] = [status  |-> "complete",
                                 attempt |-> jobs[j].attempt,
                                 cancel  |-> FALSE,
                                 result  |-> result,
                                 report  |-> TRUE]]

\* Mutant: WHERE id = ? AND status = 'running'.
FailJobIfRunning(j, result) ==
    jobs' = IF jobs[j].status = "running"
            THEN [jobs EXCEPT ![j].status = "failed", ![j].result = result] ELSE jobs

\* Mutant: the status alone is written.
FailJobNoResult(j, result) == jobs' = [jobs EXCEPT ![j].status = "failed"]

\* No condition on the status.
FailJob(j, result) ==
    jobs' = [jobs EXCEPT ![j].status = "failed", ![j].result = result]

\* Mutant: only attempts that had been asked to stop are recovered.
RecoverCancelledJobs ==
    jobs' = [j \in Job |->
                IF jobs[j].status = "running" /\ jobs[j].cancel
                THEN [jobs[j] EXCEPT !.status = "failed", !.result = "analysis_incomplete"]
                ELSE jobs[j]]

\* WHERE status = 'running'
RecoverInterruptedJobs ==
    jobs' = [j \in Job |->
                IF jobs[j].status = "running"
                THEN [jobs[j] EXCEPT !.status = "failed", !.result = "analysis_incomplete"]
                ELSE jobs[j]]

-----------------------------------------------------------------------------
(* The events table, whose primary key is (job_id, sequence).               *)

\* COALESCE(MAX(sequence), 0)
LastKey(rows) ==
    IF DOMAIN rows = {} THEN 0
    ELSE CHOOSE n \in DOMAIN rows : \A k \in DOMAIN rows : k <= n

LastSequence(j) == LastKey(events[j])

\* INSERT raises sqlite3.IntegrityError when the key is taken.
KeyTaken(j, n) == n \in DOMAIN events[j]

\* Mutant: the number is taken before the counter moves.
AppendEventBefore(j, n, stage) ==
    events' = [events EXCEPT ![j] =
                  [k \in DOMAIN events[j] \cup {n - 1} |->
                      IF k = n - 1 THEN stage ELSE events[j][k]]]

AppendEvent(j, n, stage) ==
    events' = [events EXCEPT ![j] =
                  [k \in DOMAIN events[j] \cup {n} |->
                      IF k = n THEN stage ELSE events[j][k]]]

\* Mutant: INSERT OR REPLACE.
TryReplace(j, n, stage) == AppendEvent(j, n, stage)

\* The INSERT as its caller sees it: the table is left alone when it raises.
TryAppend(j, n, stage) ==
    IF KeyTaken(j, n) THEN UNCHANGED events ELSE AppendEvent(j, n, stage)

-----------------------------------------------------------------------------
(* list_jobs(limit) returns the newest rows first; the coordinator walks    *)
(* them backwards and keeps the queued ones, oldest first.                  *)

Created(j) == CHOOSE i \in DOMAIN order : order[i] = j

QueuedInWindow ==
    {j \in Job : /\ jobs[j].status = "queued"
                 /\ \E i \in DOMAIN order : order[i] = j /\ i + ListLimit > Len(order)}

\* The queues a coordinator can start from: exactly one, listed by age.
RestoredQueue ==
    {q \in [1..Cardinality(QueuedInWindow) -> QueuedInWindow] :
        /\ \A j \in QueuedInWindow : \E i \in DOMAIN q : q[i] = j
        /\ \A i, k \in DOMAIN q : i < k => Created(q[i]) < Created(q[k])}

\* Mutant: a file that is already there is not written again.
WriteArtifactOnce(j, f, attempt) ==
    artifacts' = IF artifacts[j][f] = 0 THEN [artifacts EXCEPT ![j][f] = attempt]
                 ELSE artifacts

\* One file of write_report, replaced atomically (_atomic_write).
WriteArtifact(j, f, attempt) ==
    artifacts' = [artifacts EXCEPT ![j][f] = attempt]
=============================================================================
