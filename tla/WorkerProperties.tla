-------------------------- MODULE WorkerProperties --------------------------
(***************************************************************************)
(* What the worker must keep, stated over the state of module Worker.      *)
(***************************************************************************)
EXTENDS Worker

\* The tables have the columns their schema declares (store.py:57), events
\* being keyed by positive numbers.
JobsTypeOK == jobs \in [Job -> Row] /\ order \in Seq(Job)

EventsTypeOK ==
    /\ events \in [Job -> {events[j] : j \in Job}]
    /\ \A j \in Job : /\ DOMAIN events[j] \subseteq Nat \ {0}
                      /\ events[j] \in [DOMAIN events[j] -> Stage]

StoreTypeOK == JobsTypeOK /\ EventsTypeOK /\ artifacts \in [Job -> [Format -> Nat]]

ProcTypeOK ==
    /\ lock \in Proc \cup {NoProc}
    /\ mode \in [Proc -> Mode]
    /\ queue \in [Proc -> Seq(Job)]
    /\ running \in [Proc -> Job \cup {NoJob}]
    /\ used \in [{"requests", "faults"} -> Nat]

CoordRecord == [pc : CoordPc, job : Job \cup {NoJob}, seq : Nat, attempt : Nat,
                phase : DOMAIN Phase, cancel : BOOLEAN, result : Result, heart : Heart]

CoordTypeOK ==
    /\ coord \in [Proc -> CoordRecord]
    /\ \A p \in Proc :
           (coord[p].pc \notin {"get", "exited", "dead"} \/ coord[p].heart # "none")
               => coord[p].job \in Job

MainRecord == [pc : MainPc, op : Op, job : Job \cup {NoJob}, seq : Nat]

MainTypeOK ==
    /\ main \in [Proc -> MainRecord]
    /\ \A p \in Proc : main[p].pc # "idle" =>
           main[p].job \in Job /\ main[p].op \in Stage

\* Every variable holds a value of its kind, and a thread between taking a job
\* or a request on and letting go of it names the job (worker.py:141, 314).
TypeOK == StoreTypeOK /\ ProcTypeOK /\ CoordTypeOK /\ MainTypeOK

Lost(p) == CoordAlive(p) /\ coord[p].pc = "dead"

\* The thread of p may still execute jobs.
Unfinished(p) == CoordAlive(p) /\ coord[p].pc \notin {"exited", "dead"}

\* No worker serves while a thread that outlived its join still executes.
Alone == \A p \in Proc : mode[p] = "released" /\ Unfinished(p) => lock = NoProc

Executes(p, j) == CoordAlive(p) /\ coord[p].job = j /\ coord[p].pc \in Executing

-----------------------------------------------------------------------------
(* Events.                                                                  *)

\* The events of a job are numbered 1, 2, 3, ... with no gap, though the
\* coordinator, its heartbeat and the request thread each number them from a
\* counter of their own (DurableEmitter, worker.py:102) and an INSERT can fail.
EventsContiguous == \A j \in Job : DOMAIN events[j] = 1..LastSequence(j)

Feed == INSTANCE EventFeed WITH feed <- events

\* Polling "status" with the last sequence seen shows every event once and in
\* order: the events table implements one growing feed per job, under every
\* interleaving of the three emitters and with an old process still writing.
FeedSpec == Feed!Spec

-----------------------------------------------------------------------------
(* Jobs.                                                                    *)

\* A queued job of a serving worker is in the queue, in the hands of the
\* coordinator, or about to be enqueued by the request being handled: neither
\* a crash between create_job and enqueue nor the end of a worker strands it.
NoStrandedQueuedJob ==
    \A p \in Proc, j \in Job :
        (mode[p] = "up" /\ ~Lost(p) /\ jobs[j].status = "queued") =>
            \/ \E i \in DOMAIN queue[p] : queue[p][i] = j
            \/ (coord[p].job = j /\ coord[p].pc \in PreClaim \cup {"preCancel"})
            \/ (main[p].job = j /\ main[p].op \in {"queue", "resume"})

\* A complete job has its report event and all its report files, every file
\* written by the attempt the row counts: never a file left by an attempt that
\* failed or was interrupted half-way (write_report, complete_job).
CompleteHasReport ==
    \A j \in Job : jobs[j].status = "complete" =>
        /\ jobs[j].report
        /\ \A f \in Format : artifacts[j][f] = jobs[j].attempt
        /\ \E n \in DOMAIN events[j] : events[j][n] = "report"

\* While a process holds the lock, a running job is being executed: a crash or
\* an exit never leaves a row "running" that no start recovers, and no way out
\* of the coordinator's loop forgets the row (recover_interrupted_jobs, _run).
RunningHasRunner ==
    \A j \in Job : (jobs[j].status = "running" /\ lock # NoProc) =>
        \E p \in Proc : Executes(p, j) \/ (coord[p].job = j /\ coord[p].pc = "crashFail")

\* The result column, which the client's exit code is computed from, always
\* belongs to the status, whichever threads wrote the two last.
ResultMatchesStatus ==
    \A j \in Job :
        /\ jobs[j].status \in {"absent", "queued", "running"} => jobs[j].result = "null"
        /\ jobs[j].status = "complete" => jobs[j].result = "reported"
        /\ jobs[j].status = "cancelled" => jobs[j].result = "cancelled"
        /\ jobs[j].status = "failed" =>
               jobs[j].result \in {"analysis_incomplete", "internal_error"}

\* A complete job stays complete, save for a cancel request that had read the
\* row while it was queued and writes only now (worker.py:385).
CompleteStays ==
    [][\A j \in Job :
        (jobs[j].status = "complete" /\ jobs'[j].status # "complete") =>
            /\ jobs'[j].status = "cancelled"
            /\ \E p \in Proc : main[p].pc = "mark" /\ main[p].job = j]_vars

\* A job that is queued or running is terminal some day, unless the thread that
\* executes jobs has ended in a worker that goes on answering requests.
JobsSettle ==
    \A j \in Job : jobs[j].status \in {"queued", "running"} ~>
        (jobs[j].status \in Terminal \/ \E p \in Proc : Lost(p))

-----------------------------------------------------------------------------
(* What the documents, messages and tests say and the code does not keep.   *)

\* A cancel request that was accepted for a queued job is not forgotten when
\* the coordinator claims the job (README.md:138, cli.py:643).
AcceptedCancelKept ==
    [][\A j \in Job :
        (jobs[j].status = "queued" /\ jobs[j].cancel /\ jobs'[j].status = "running")
            => jobs'[j].cancel]_vars
=============================================================================
