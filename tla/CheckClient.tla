---------------------------- MODULE CheckClient ----------------------------
(***************************************************************************)
(* `check` commands and the workers they launch (cli.py, worker_client.py, *)
(* ipc.py).  A command finds or launches a worker, submits its job, polls  *)
(* it and leaves with an exit code; a command run with --direct executes   *)
(* its job itself, without the lock of the workers.  A command is named by *)
(* the job it submits.                                                     *)
(*                                                                         *)
(* The tables are those of JobStore.  The threads inside a worker are in   *)
(* module Worker; here a request is answered in one step, save for the     *)
(* polls, and a job is executed in few.  Timers are not modelled: an       *)
(* answer that comes too late is counted as a fault.                       *)
(***************************************************************************)
EXTENDS JobStore

CONSTANTS Proc, NoProc, NoJob,
          Direct,         \* the commands run with --direct
          StartAttempts,  \* WORKER_START_ATTEMPTS (3 in the code)
          MaxFaults       \* bound: crashes, late answers, failures of the engine, Ctrl-C

ASSUME ClientAssumption ==
    /\ NoProc \notin Proc /\ NoJob \notin Job
    /\ Direct \subseteq Job /\ Proc \cap Job = {}
    /\ StartAttempts \in Nat \ {0} /\ MaxFaults \in Nat

VARIABLES lock,     \* the process that holds worker.lock
          socket,   \* the process that bound the socket path, NoProc if no file
          proc,     \* proc[p]: where process p is, and the command that launched it
          queue,    \* queue[p]: the queue of its coordinator
          exec,     \* exec[x]: what process or direct command x is executing
          client,   \* client[c]: where command c is
          request,  \* request[c]: the last request of c, and its answer
          used      \* how much of the bound has been spent

clientVars == <<lock, socket, proc, queue, exec, client, request, used>>
vars == <<storeVars, clientVars>>

Executor == Proc \cup Direct
ProcPc == {"down", "starting", "locked", "serving", "closing", "closed"}
ExecPc == {"idle", "write", "report", "complete",
           "fail", "failEvent", "cancel", "cancelEvent"}
ClientPc == {"new", "ping", "launch", "wait", "request", "answer", "load",
             "direct", "done"}
RequestState == {"none", "sent", "row", "answered", "refused", "lost"}

Down == [pc |-> "down", by |-> NoJob]
Idle == [pc |-> "idle", job |-> NoJob, result |-> "null"]
NoRequest == [op |-> "none", to |-> NoProc, state |-> "none", row |-> Absent, events |-> <<>>]

Init ==
    /\ StoreInit
    /\ lock = NoProc /\ socket = NoProc
    /\ proc = [p \in Proc |-> Down]
    /\ queue = [p \in Proc |-> <<>>]
    /\ exec = [x \in Executor |-> Idle]
    /\ client = [c \in Job |-> [pc |-> "new", op |-> "submit", launches |-> 0,
                                known |-> FALSE, shown |-> <<>>, exit |-> 0]]
    /\ request = [c \in Job |-> NoRequest]
    /\ used = 0

Spend == used < MaxFaults /\ used' = used + 1

Emit(j, stage) == AppendEvent(j, LastSequence(j) + 1, stage)

-----------------------------------------------------------------------------
(* A worker process: main(), Worker.__init__, the end of Worker.run.        *)

\* Requests that reached p and were not answered: their connection is closed.
Dropped(p) ==
    request' = [c \in Job |->
                  IF request[c].to = p /\ request[c].state \in {"sent", "row"}
                  THEN [request[c] EXCEPT !.state = "lost"] ELSE request[c]]

\* StateLock.__enter__, LocalStore, recover_interrupted_jobs, JobCoordinator.
Lock(p) ==
    /\ proc[p].pc = "starting" /\ lock = NoProc
    /\ lock' = p
    /\ proc' = [proc EXCEPT ![p].pc = "locked"]
    /\ RecoverInterruptedJobs
    /\ \E q \in RestoredQueue : queue' = [queue EXCEPT ![p] = q]
    /\ UNCHANGED <<order, events, artifacts, socket, exec, client, request, used>>

\* Mutant: a process that does not get the lock cleans up the socket path.
RefusedUnlinks(p) ==
    /\ proc[p].pc = "starting" /\ lock # NoProc
    /\ proc' = [proc EXCEPT ![p] = Down]
    /\ socket' = NoProc
    /\ UNCHANGED <<storeVars, lock, queue, exec, client, request, used>>

\* except WorkerAlreadyRunning: return 0
AlreadyRunning(p) ==
    /\ proc[p].pc = "starting" /\ lock # NoProc
    /\ proc' = [proc EXCEPT ![p] = Down]
    /\ UNCHANGED <<storeVars, lock, socket, queue, exec, client, request, used>>

\* IPCServer.__init__: whatever socket is at the path is replaced.
Bind(p) ==
    /\ proc[p].pc = "locked"
    /\ socket' = p
    /\ proc' = [proc EXCEPT ![p].pc = "serving"]
    /\ UNCHANGED <<storeVars, lock, queue, exec, client, request, used>>

\* Worker._handle runs in one thread: no request is half-way through.
Free(p) == \A c \in Job : ~(request[c].to = p /\ request[c].state = "row")

HasWork(p) == queue[p] # <<>> \/ exec[p].pc # "idle"

Leave(p) ==
    /\ proc[p].pc = "serving" /\ Free(p)
    /\ proc' = [proc EXCEPT ![p].pc = "closing"]
    /\ UNCHANGED <<storeVars, lock, socket, queue, exec, client, request>>

IdleExit(p) == ~HasWork(p) /\ Leave(p) /\ UNCHANGED used

\* respond raises IPCError for an answer over MAX_MESSAGE_BYTES (a long list
\* of jobs, say), which Worker.run does not catch.
AnswerTooLarge(p) == Leave(p) /\ Spend

\* finally: server.close() unlinks whatever socket is at the path.
Close(p) ==
    /\ proc[p].pc = "closing"
    /\ socket' = NoProc
    /\ proc' = [proc EXCEPT ![p].pc = "closed"]
    /\ UNCHANGED <<storeVars, lock, queue, exec, client, request, used>>

Gone(p) ==
    /\ proc' = [proc EXCEPT ![p] = Down]
    /\ lock' = IF lock = p THEN NoProc ELSE lock
    /\ queue' = [queue EXCEPT ![p] = <<>>]
    /\ exec' = [exec EXCEPT ![p] = Idle]
    /\ Dropped(p)
    /\ UNCHANGED <<storeVars, client>>

\* The coordinator's thread, if stop() gave up on it, dies with the process.
Exit(p) ==
    /\ proc[p].pc = "closed"
    /\ Gone(p)
    /\ UNCHANGED <<socket, used>>

\* The path of the socket survives a crash.
Crash(p) ==
    /\ proc[p].pc \in {"starting", "locked", "serving", "closing"}
    /\ Gone(p)
    /\ Spend
    /\ UNCHANGED socket

-----------------------------------------------------------------------------
(* Worker._handle: submit, status and cancel.                               *)

Arrived(p, c, op) ==
    /\ proc[p].pc = "serving" /\ Free(p)
    /\ request[c].to = p /\ request[c].op = op /\ request[c].state = "sent"

HandleSubmit(p, c) ==
    /\ Arrived(p, c, "submit")
    /\ CreateJob(c)
    /\ Emit(c, "queue")
    /\ queue' = [queue EXCEPT ![p] = Append(@, c)]
    /\ request' = [request EXCEPT ![c].state = "answered"]
    /\ UNCHANGED <<artifacts, lock, socket, proc, exec, client, used>>

\* A queued job is cancelled at once, a running one is asked to stop.
HandleCancel(p, c) ==
    /\ Arrived(p, c, "cancel")
    /\ IF ~Cancellable(c)
       THEN UNCHANGED <<jobs, events>>
       ELSE IF jobs[c].status = "queued"
       THEN MarkCancelled(c) /\ Emit(c, "cancelled")
       ELSE RequestCancel(c) /\ UNCHANGED events
    /\ request' = [request EXCEPT
          ![c].state = IF Cancellable(c) THEN "answered" ELSE "refused"]
    /\ UNCHANGED <<order, artifacts, lock, socket, proc, queue, exec, client, used>>

\* Events after the last one the client has seen, oldest first.
EventsSince(c, n) ==
    LET new == {k \in DOMAIN events[c] : k > n}
    IN [i \in 1..Cardinality(new) |-> events[c][n + i]]

\* job = self.store.get_job(job_id)
StatusRow(p, c) ==
    /\ Arrived(p, c, "status")
    /\ request' = [request EXCEPT ![c].state = "row", ![c].row = jobs[c]]
    /\ UNCHANGED <<storeVars, lock, socket, proc, queue, exec, client, used>>

\* events = self.store.events_since(job_id, since), and the answer.
StatusEvents(p, c) ==
    /\ proc[p].pc = "serving" /\ request[c].to = p /\ request[c].state = "row"
    /\ request' = [request EXCEPT ![c].state = "answered",
                                  ![c].events = EventsSince(c, Len(client[c].shown))]
    /\ UNCHANGED <<storeVars, lock, socket, proc, queue, exec, client, used>>

-----------------------------------------------------------------------------
(* The execution of a job, by the coordinator of a worker or by a direct    *)
(* command: module Worker has its steps one by one.                         *)

\* A queued job is claimed, or cancelled if it was asked to before.
Claim(p) ==
    /\ proc[p].pc \notin {"down", "starting"} /\ exec[p].pc = "idle" /\ queue[p] # <<>>
    /\ LET j == Head(queue[p])
       IN IF Claimable(j)
          THEN MarkRunning(j) /\ exec' = [exec EXCEPT ![p] = [Idle EXCEPT !.pc = "write", !.job = j]]
          ELSE UNCHANGED <<jobs, exec>>
    /\ queue' = [queue EXCEPT ![p] = Tail(@)]
    /\ UNCHANGED <<order, events, artifacts, lock, socket, proc, client, request, used>>

\* Mutant: the job is completed before the event that announces its report.
CompletedFirst == [write |-> "complete", complete |-> "report",
                   report |-> "idle", fail |-> "failEvent", failEvent |-> "idle",
                   cancel |-> "cancelEvent", cancelEvent |-> "idle"]

\* The order of the engine's calls: write_report, the event, complete_job, and
\* on the error paths the row before the event.
Then == [write |-> "report", report |-> "complete",
         complete |-> "idle", fail |-> "failEvent", failEvent |-> "idle",
         cancel |-> "cancelEvent", cancelEvent |-> "idle"]

Calls(x, pc) == exec[x].pc = pc /\ exec' = [exec EXCEPT ![x].pc = Then[pc]]

EngineEvent(x, pc, stage) ==
    /\ Calls(x, pc)
    /\ Emit(exec[x].job, stage)
    /\ UNCHANGED <<jobs, artifacts>>

EngineStep(x) ==
    \/ EngineEvent(x, "report", "report")
    \/ EngineEvent(x, "failEvent", "error")
    \/ EngineEvent(x, "cancelEvent", "cancelled")
    \/ /\ Calls(x, "write")
       /\ WriteArtifact(exec[x].job, "json", jobs[exec[x].job].attempt)
       /\ UNCHANGED <<jobs, events>>
    \/ Calls(x, "complete") /\ CompleteJob(exec[x].job, "reported") /\ UNCHANGED <<events, artifacts>>
    \/ Calls(x, "fail") /\ FailJob(exec[x].job, exec[x].result) /\ UNCHANGED <<events, artifacts>>
    \/ Calls(x, "cancel") /\ MarkCancelled(exec[x].job) /\ UNCHANGED <<events, artifacts>>

Engine(x) ==
    /\ EngineStep(x)
    /\ UNCHANGED <<order, lock, socket, proc, queue, client, request, used>>

\* _ensure_not_cancelled; a direct command passes cancelled=lambda: False.
EngineCancelled(p) ==
    /\ exec[p].pc = "write" /\ jobs[exec[p].job].cancel
    /\ exec' = [exec EXCEPT ![p].pc = "cancel"]
    /\ UNCHANGED <<storeVars, lock, socket, proc, queue, client, request, used>>

EngineRaises(x, result) ==
    /\ exec[x].pc \in {"write", "report", "complete"}
    /\ exec' = [exec EXCEPT ![x].pc = "fail", ![x].result = result]
    /\ Spend
    /\ UNCHANGED <<storeVars, lock, socket, proc, queue, client, request>>

-----------------------------------------------------------------------------
(* ensure_worker.                                                           *)

OnlyClient == UNCHANGED <<storeVars, lock, socket, queue, exec>>

Done(c, code) == [client[c] EXCEPT !.pc = "done", !.exit = code]

\* _remote_failure; a cancel that fails is ignored (cli.py:643).
Failed(c) == Done(c, IF client[c].op = "cancel" THEN 4 ELSE 2)

\* The listener accepts until it is closed, whether anyone answers or not.
Listening == socket # NoProc /\ proc[socket].pc \in {"serving", "closing"}

Answers == socket # NoProc /\ proc[socket].pc = "serving"

Mine(c) == {p \in Proc : proc[p].by = c}

\* The call is over: nobody waits for the processes it launched.
CallOver(c) ==
    proc' = [p \in Proc |-> IF proc[p].by = c THEN [proc[p] EXCEPT !.by = NoJob] ELSE proc[p]]

Begin(c) ==
    /\ c \notin Direct /\ client[c].pc = "new"
    /\ client' = [client EXCEPT ![c].pc = "ping"]
    /\ OnlyClient /\ UNCHANGED <<proc, request, used>>

\* The ping of ensure_worker and the probe before each launch, which nothing
\* but time separates, are one; "wait" pings while a child is starting.
Pinging == {"ping", "wait"}

PingAnswered(c) ==
    /\ client[c].pc \in Pinging /\ Answers
    /\ client' = [client EXCEPT ![c].pc = "request", ![c].launches = 0]
    /\ CallOver(c)
    /\ OnlyClient /\ UNCHANGED <<request, used>>

\* for attempt in range(1, WORKER_START_ATTEMPTS + 1), after the last of which
\* WorkerUnavailable is raised.
NextAttempt(c) ==
    IF client[c].launches < StartAttempts THEN [client[c] EXCEPT !.pc = "ping"]
    ELSE Failed(c)

\* Mutant: another process is launched though the last one is alive.
WaitOver(c) == TRUE

\* process.poll() is not None
ChildExited(c) == Mine(c) = {}

\* No worker answers, or none in time.
PingFails(c) ==
    /\ client[c].pc \in Pinging
    /\ client[c].pc = "wait" => ChildExited(c)
    /\ IF Answers THEN Spend ELSE UNCHANGED used
    /\ client' = [client EXCEPT ![c] =
          IF client[c].pc = "ping" THEN [client[c] EXCEPT !.pc = "launch"] ELSE NextAttempt(c)]
    /\ OnlyClient /\ UNCHANGED <<proc, request>>

Launched(c, pc) == [client[c] EXCEPT !.pc = pc, !.launches = @ + 1]

\* subprocess.Popen
Launch(c, p) ==
    /\ client[c].pc = "launch" /\ proc[p].pc = "down"
    /\ proc' = [proc EXCEPT ![p] = [pc |-> "starting", by |-> c]]
    /\ client' = [client EXCEPT ![c] = Launched(c, "wait")]
    /\ OnlyClient /\ UNCHANGED <<request, used>>

\* Popen raises OSError.
LaunchFails(c) ==
    /\ client[c].pc = "launch"
    /\ client' = [client EXCEPT ![c] = IF client[c].launches + 1 < StartAttempts
                                       THEN Launched(c, "ping") ELSE Failed(c)]
    /\ Spend
    /\ OnlyClient /\ UNCHANGED <<proc, request>>

\* time.monotonic() >= deadline: WorkerUnavailable, whoever is still starting.
GiveUp(c) ==
    /\ client[c].pc \in Pinging
    /\ client' = [client EXCEPT ![c] = Failed(c)]
    /\ CallOver(c)
    /\ OnlyClient /\ UNCHANGED <<request, used>>

-----------------------------------------------------------------------------
(* ipc.request and the loop of _run_worker_check.                           *)

Send(c) ==
    /\ client[c].pc = "request"
    /\ IF Listening
       THEN /\ request' = [request EXCEPT ![c] = [NoRequest EXCEPT
                              !.op = client[c].op, !.to = socket, !.state = "sent"]]
            /\ client' = [client EXCEPT ![c].pc = "answer"]
       ELSE /\ client' = [client EXCEPT ![c] = Failed(c)]
            /\ UNCHANGED request
    /\ OnlyClient /\ UNCHANGED <<proc, used>>

\* connection.poll(timeout) returns False; the worker answers to nobody.
Late(c) ==
    /\ client[c].pc = "answer" /\ request[c].state \in {"sent", "row"}
    /\ client' = [client EXCEPT ![c] = Failed(c)]
    /\ Spend
    /\ OnlyClient /\ UNCHANGED <<proc, request>>

Refused(c) ==
    /\ client[c].pc = "answer" /\ request[c].state \in {"lost", "refused"}
    /\ client' = [client EXCEPT ![c] = Failed(c)]
    /\ OnlyClient /\ UNCHANGED <<proc, request, used>>

\* Where a poll leads, by the status of the row it brought.
AfterPoll(c, row) ==
    CASE row.status = "cancelled" -> Done(c, 4)
      [] row.status = "failed" -> Done(c, IF row.result = "internal_error" THEN 3 ELSE 2)
      [] row.status = "complete" -> [client[c] EXCEPT !.pc = "load"]
      [] OTHER -> [client[c] EXCEPT !.pc = "ping"]

Answered(c) ==
    /\ client[c].pc = "answer" /\ request[c].state = "answered"
    /\ client' = [client EXCEPT ![c] =
          CASE client[c].op = "submit" ->
                   [client[c] EXCEPT !.pc = "ping", !.op = "status", !.known = TRUE]
            [] client[c].op = "status" ->
                   [AfterPoll(c, request[c].row) EXCEPT !.shown = @ \o request[c].events]
            [] client[c].op = "cancel" -> Done(c, 4)]
    /\ request' = [request EXCEPT ![c] = NoRequest]
    /\ OnlyClient /\ UNCHANGED <<proc, used>>

\* _load_report: the report of the attempt the row counts.
LoadReport(c) ==
    /\ client[c].pc = "load"
    /\ client' = [client EXCEPT ![c] =
          Done(c, IF artifacts[c]["json"] = jobs[c].attempt THEN 0 ELSE 2)]
    /\ OnlyClient /\ UNCHANGED <<proc, request, used>>

\* KeyboardInterrupt inside the try: a job whose identifier has not come back
\* yet is left alone.
Interrupt(c) ==
    /\ client[c].pc \in Pinging \cup {"launch", "request", "answer"}
    /\ client[c].op # "cancel"
    /\ client' = [client EXCEPT ![c] =
          IF client[c].known THEN [client[c] EXCEPT !.pc = "ping", !.op = "cancel", !.launches = 0]
          ELSE Done(c, 4)]
    /\ CallOver(c)
    /\ Spend
    /\ OnlyClient /\ UNCHANGED request

-----------------------------------------------------------------------------
(* run_check: start_job inserts a running row, whoever holds the lock.      *)

StartDirect(c) ==
    /\ c \in Direct /\ client[c].pc = "new"
    /\ jobs' = [jobs EXCEPT ![c] = [Absent EXCEPT !.status = "running", !.attempt = 1]]
    /\ order' = Append(order, c)
    /\ exec' = [exec EXCEPT ![c] = [Idle EXCEPT !.pc = "write", !.job = c]]
    /\ client' = [client EXCEPT ![c].pc = "direct"]
    /\ UNCHANGED <<events, artifacts, lock, socket, proc, queue, request, used>>

FinishDirect(c) ==
    /\ client[c].pc = "direct" /\ exec[c].pc = "idle"
    /\ client' = [client EXCEPT ![c] = Done(c,
          CASE exec[c].result = "null" -> 0
            [] exec[c].result = "internal_error" -> 3
            [] OTHER -> 2)]
    /\ OnlyClient /\ UNCHANGED <<proc, request, used>>

\* Nothing catches a Ctrl-C here: the row stays as it is (counted as a fault).
InterruptDirect(c) ==
    /\ client[c].pc = "direct"
    /\ client' = [client EXCEPT ![c] = Done(c, 130)]
    /\ exec' = [exec EXCEPT ![c] = Idle]
    /\ Spend
    /\ UNCHANGED <<storeVars, lock, socket, proc, queue, request>>

-----------------------------------------------------------------------------

ProcessStep(p) ==
    \/ Lock(p) \/ AlreadyRunning(p) \/ Bind(p) \/ Close(p) \/ Exit(p)

HandlerStep(p) == \E c \in Job :
    HandleSubmit(p, c) \/ HandleCancel(p, c) \/ StatusRow(p, c) \/ StatusEvents(p, c)

ExecStep(p) == Claim(p) \/ Engine(p) \/ EngineCancelled(p)

\* Begin and StartDirect are the user's, Interrupt too.
CommandStep(c) ==
    \/ PingAnswered(c) \/ PingFails(c) \/ (\E p \in Proc : Launch(c, p))
    \/ Send(c) \/ Refused(c) \/ Answered(c) \/ LoadReport(c)

DirectStep(c) == Engine(c) \/ FinishDirect(c)

Next ==
    \/ \E p \in Proc :
          \/ ProcessStep(p) \/ HandlerStep(p) \/ ExecStep(p)
          \/ IdleExit(p) \/ AnswerTooLarge(p) \/ Crash(p)
    \/ \E c \in Job : \/ Begin(c) \/ CommandStep(c) \/ LaunchFails(c) \/ GiveUp(c)
                      \/ Late(c) \/ Interrupt(c)
    \/ \E c \in Direct : StartDirect(c) \/ DirectStep(c) \/ InterruptDirect(c)
    \/ \E x \in Executor, result \in {"analysis_incomplete", "internal_error"} :
          EngineRaises(x, result)

Spec == Init /\ [][Next]_vars

\* Processes and threads are scheduled; faults and users owe nothing.
Fairness ==
    /\ \A p \in Proc : WF_vars(ProcessStep(p)) /\ WF_vars(HandlerStep(p)) /\ WF_vars(ExecStep(p))
    /\ \A c \in Job \ Direct : WF_vars(CommandStep(c))
    /\ \A c \in Direct : WF_vars(DirectStep(c))

FairSpec == Spec /\ Fairness
=============================================================================
