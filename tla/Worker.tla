------------------------------- MODULE Worker -------------------------------
(***************************************************************************)
(* The on-demand worker (worker.py): processes that compete for the state  *)
(* lock, and in each of them the thread that answers requests one at a     *)
(* time (Worker.run), the thread that executes jobs one at a time          *)
(* (JobCoordinator._run) and the heartbeat thread of the job being         *)
(* executed.  They share the tables of JobStore, and no transaction spans  *)
(* two steps of a thread.                                                  *)
(*                                                                         *)
(* The engine (engine.py) appears as the order of its calls to the store,  *)
(* the emitter and the cancellation test; it may raise anywhere.  The one  *)
(* statement of the store that can raise is the INSERT of an event whose   *)
(* sequence number is taken.  Timers are not modelled: a timeout may       *)
(* expire whenever the code could observe it.                              *)
(***************************************************************************)
EXTENDS JobStore

CONSTANTS Proc, NoProc, NoJob,
          Inventory,    \* jobs of scope named, all or session
          MaxRequests,  \* bound: submit, cancel, resume and shutdown requests, and
                        \* heartbeat events
          MaxFaults     \* bound: crashes, failed thread starts and expired joins

ASSUME WorkerAssumption ==
    /\ NoProc \notin Proc /\ NoJob \notin Job
    /\ Inventory \subseteq Job
    /\ MaxRequests \in Nat /\ MaxFaults \in Nat

VARIABLES lock,     \* the process whose StateLock is held
          mode,     \* mode[p]: where main() of process p is
          queue,    \* queue[p]: JobCoordinator._queue
          running,  \* running[p]: JobCoordinator._running_job
          coord,    \* coord[p]: the thread executing jobs, and its emitter
          main,     \* main[p]: the thread answering requests, and its emitter
          used      \* how much of each bound has been spent

procVars == <<lock, mode, queue, running, coord, main, used>>
vars == <<storeVars, procVars>>

Mode == {"down", "recovering", "up", "stopping", "released"}
Phase == <<"snapshot", "analysis", "performance">>

PreClaim == {"got", "emitter", "claim"}
Engine == {"check", "stage", "writeJson", "writeRest", "reportEvent", "complete"}
Executing == Engine \cup {"claimed", "cancel", "cancelEvent", "fail", "failEvent"}
CoordPc == PreClaim \cup Executing \cup
    {"get", "preCancel", "preCancelEvent", "crashFail", "crashEvent",
     "crashDead", "fin", "exited", "dead"}
Heart == {"none", "beating", "stopped", "unstarted"}
MainPc == {"idle", "look", "mark", "read", "emit", "enqueue"}
\* A request is named by the event it ends with.
Op == {"none", "queue", "cancelled", "resume"}

IdleCoord == [pc |-> "get", job |-> NoJob, seq |-> 0, attempt |-> 0, phase |-> 1,
              cancel |-> FALSE, result |-> "null", heart |-> "none"]

IdleMain == [pc |-> "idle", op |-> "none", job |-> NoJob, seq |-> 0]

Init ==
    /\ StoreInit
    /\ lock = NoProc
    /\ mode = [p \in Proc |-> "down"]
    /\ queue = [p \in Proc |-> <<>>]
    /\ running = [p \in Proc |-> NoJob]
    /\ coord = [p \in Proc |-> IdleCoord]
    /\ main = [p \in Proc |-> IdleMain]
    /\ used = [requests |-> 0, faults |-> 0]

Spend(what, bound) == used[what] < bound /\ used' = [used EXCEPT ![what] = @ + 1]

HasWork(p) == running[p] # NoJob \/ queue[p] # <<>>

\* Mutant: the counter starts at the next number instead of the last one.
EmitterStartsAtNext(j) == LastSequence(j) + 1

\* DurableEmitter.__init__: store.next_event_sequence(job_id) - 1
EmitterStart(j) == LastSequence(j)

\* Mutant: put_nowait on a queue of length one, its exception ignored.
PutUnlessFull(q, j) == IF q = <<>> THEN <<j>> ELSE q

\* queue.Queue.put
Put(q, j) == Append(q, j)

-----------------------------------------------------------------------------
(* The process: main(), Worker.__init__ and the end of Worker.run.          *)

Start(p) ==
    /\ mode[p] = "down" /\ lock = NoProc
    /\ lock' = p
    /\ mode' = [mode EXCEPT ![p] = "recovering"]
    /\ RecoverInterruptedJobs
    /\ UNCHANGED <<order, events, artifacts, queue, running, coord, main, used>>

Restore(p) ==
    /\ mode[p] = "recovering"
    /\ \E q \in RestoredQueue : queue' = [queue EXCEPT ![p] = q]
    /\ mode' = [mode EXCEPT ![p] = "up"]
    /\ UNCHANGED <<storeVars, lock, running, coord, main, used>>

Stopping(p) == mode' = [mode EXCEPT ![p] = "stopping"]

IdleExit(p) ==
    /\ mode[p] = "up" /\ main[p].pc = "idle" /\ ~HasWork(p)
    /\ Stopping(p)
    /\ UNCHANGED <<storeVars, lock, queue, running, coord, main, used>>

Shutdown(p) ==
    /\ mode[p] = "up" /\ main[p].pc = "idle" /\ ~HasWork(p)
    /\ Spend("requests", MaxRequests)
    /\ Stopping(p)
    /\ UNCHANGED <<storeVars, lock, queue, running, coord, main>>

\* JobCoordinator.stop waits for its thread, and StateLock.__exit__ follows.
Released(p) ==
    /\ mode[p] = "stopping"
    /\ mode' = [mode EXCEPT ![p] = "released"]
    /\ lock' = NoProc
    /\ UNCHANGED <<storeVars, queue, running, coord, main>>

StopJoined(p) ==
    /\ coord[p].pc \in {"exited", "dead"}
    /\ Released(p)
    /\ UNCHANGED used

\* join(timeout=5) returns with the daemon thread still running.
StopTimedOut(p) ==
    /\ coord[p].pc \notin {"exited", "dead"}
    /\ Released(p)
    /\ Spend("faults", MaxFaults)

\* The operating system takes back everything the process had.
Gone(p) ==
    /\ mode' = [mode EXCEPT ![p] = "down"]
    /\ lock' = IF lock = p THEN NoProc ELSE lock
    /\ queue' = [queue EXCEPT ![p] = <<>>]
    /\ running' = [running EXCEPT ![p] = NoJob]
    /\ coord' = [coord EXCEPT ![p] = IdleCoord]
    /\ main' = [main EXCEPT ![p] = IdleMain]
    /\ UNCHANGED storeVars

Exit(p) == mode[p] = "released" /\ Gone(p) /\ UNCHANGED used

Crash(p) ==
    /\ mode[p] \in {"recovering", "up", "stopping"}
    /\ Gone(p)
    /\ Spend("faults", MaxFaults)

-----------------------------------------------------------------------------
(* The thread that answers requests: Worker._handle, one store call a step. *)
(* A request the code refuses changes nothing and is not a step.            *)

Accept(p, j, op, pc) ==
    /\ mode[p] = "up" /\ main[p].pc = "idle"
    /\ Spend("requests", MaxRequests)
    /\ main' = [main EXCEPT ![p] = [pc |-> pc, op |-> op, job |-> j, seq |-> 0]]
    /\ UNCHANGED <<events, artifacts, lock, mode, queue, running, coord>>

Submit(p, j) ==
    /\ jobs[j].status = "absent"
    /\ Accept(p, j, "queue", "read")
    /\ CreateJob(j)

Cancel(p, j) ==
    /\ Cancellable(j)
    /\ Accept(p, j, "cancelled", "look")
    /\ RequestCancel(j)
    /\ UNCHANGED order

Resume(p, j) ==
    /\ Resumable(j)
    /\ Accept(p, j, "resume", "read")
    /\ ResumeJob(j)
    /\ UNCHANGED order

\* job = store.get_job(job_id); if job.status == "queued"
CancelLook(p) ==
    /\ mode[p] = "up" /\ main[p].pc = "look"
    /\ main' = [main EXCEPT ![p] = IF jobs[main[p].job].status = "queued"
                                   THEN [main[p] EXCEPT !.pc = "mark"]
                                   ELSE IdleMain]
    /\ UNCHANGED <<storeVars, lock, mode, queue, running, coord, used>>

CancelMark(p) ==
    /\ mode[p] = "up" /\ main[p].pc = "mark"
    /\ MarkCancelled(main[p].job)
    /\ main' = [main EXCEPT ![p].pc = "read"]
    /\ UNCHANGED <<order, events, artifacts, lock, mode, queue, running, coord, used>>

HandlerEmitter(p) ==
    /\ mode[p] = "up" /\ main[p].pc = "read"
    /\ main' = [main EXCEPT ![p].pc = "emit", ![p].seq = EmitterStart(main[p].job)]
    /\ UNCHANGED <<storeVars, lock, mode, queue, running, coord, used>>

\* Worker.run catches no sqlite3 error: a taken key ends the worker.
HandlerEmit(p) ==
    /\ mode[p] = "up" /\ main[p].pc = "emit"
    /\ LET j == main[p].job
           n == main[p].seq + 1
       IN /\ TryAppend(j, n, main[p].op)
          /\ mode' = IF KeyTaken(j, n) THEN [mode EXCEPT ![p] = "stopping"] ELSE mode
          /\ main' = [main EXCEPT ![p] =
                         IF KeyTaken(j, n) \/ main[p].op = "cancelled" THEN IdleMain
                         ELSE [main[p] EXCEPT !.pc = "enqueue", !.seq = n]]
    /\ UNCHANGED <<jobs, order, artifacts, lock, queue, running, coord, used>>

Enqueue(p) ==
    /\ mode[p] = "up" /\ main[p].pc = "enqueue"
    /\ queue' = [queue EXCEPT ![p] = Put(queue[p], main[p].job)]
    /\ main' = [main EXCEPT ![p] = IdleMain]
    /\ UNCHANGED <<storeVars, lock, mode, running, coord, used>>

HandlerStep(p) ==
    \/ CancelLook(p) \/ CancelMark(p)
    \/ HandlerEmitter(p) \/ HandlerEmit(p) \/ Enqueue(p)

-----------------------------------------------------------------------------
(* The thread that executes jobs: JobCoordinator._run up to the engine.     *)

CoordAlive(p) == mode[p] \in {"up", "stopping", "released"}
At(p, pc) == CoordAlive(p) /\ coord[p].pc = pc
To(p, pc) == [coord[p] EXCEPT !.pc = pc]
Raised(p) == [coord[p] EXCEPT !.pc = "fail", !.result = "internal_error"]
Goto(p, pc) == coord' = [coord EXCEPT ![p].pc = pc]

\* emitter.emit(stage), which leaves the thread in one of two states: the
\* counter moves even when the INSERT raises.
Emit(p, stage, then, raised) ==
    LET j == coord[p].job
        n == coord[p].seq + 1
    IN /\ TryAppend(j, n, stage)
       /\ coord' = [coord EXCEPT ![p] =
              [(IF KeyTaken(j, n) THEN raised ELSE then) EXCEPT !.seq = n]]

\* queue.get; the job is not in _running_job yet.
Dequeue(p) ==
    /\ At(p, "get") /\ queue[p] # <<>>
    /\ queue' = [queue EXCEPT ![p] = Tail(queue[p])]
    /\ coord' = [coord EXCEPT ![p] = [IdleCoord EXCEPT !.pc = "got",
                                                       !.job = Head(queue[p])]]
    /\ UNCHANGED <<storeVars, lock, mode, running, main, used>>

StopSeen(p) ==
    /\ At(p, "get") /\ queue[p] = <<>> /\ mode[p] # "up"
    /\ Goto(p, "exited")
    /\ UNCHANGED <<storeVars, lock, mode, queue, running, main, used>>

\* store.get_job: only a queued job is taken on, its cancel flag is kept.
ReadJob(p) ==
    /\ At(p, "got")
    /\ LET j == coord[p].job
       IN coord' = [coord EXCEPT
              ![p].pc = IF jobs[j].status = "queued" THEN "emitter" ELSE "fin",
              ![p].cancel = jobs[j].cancel]
    /\ UNCHANGED <<storeVars, lock, mode, queue, running, main, used>>

CoordEmitter(p) ==
    /\ At(p, "emitter")
    /\ coord' = [coord EXCEPT ![p].seq = EmitterStart(coord[p].job),
                              ![p].pc = IF coord[p].cancel THEN "preCancel" ELSE "claim"]
    /\ UNCHANGED <<storeVars, lock, mode, queue, running, main, used>>

PreCancel(p) ==
    /\ At(p, "preCancel")
    /\ MarkCancelled(coord[p].job)
    /\ Goto(p, "preCancelEvent")
    /\ UNCHANGED <<order, events, artifacts, lock, mode, queue, running, main, used>>

PreCancelEvent(p) ==
    /\ At(p, "preCancelEvent")
    /\ Emit(p, "cancelled", To(p, "fin"), To(p, "crashFail"))
    /\ UNCHANGED <<jobs, order, artifacts, lock, mode, queue, running, main, used>>

\* if not store.mark_running(job_id): continue
Claim(p) ==
    /\ At(p, "claim")
    /\ LET j == coord[p].job
       IN IF Claimable(j)
          THEN /\ MarkRunning(j)
               /\ coord' = [coord EXCEPT ![p].pc = "claimed",
                                         ![p].attempt = jobs[j].attempt + 1]
          ELSE UNCHANGED jobs /\ Goto(p, "fin")
    /\ UNCHANGED <<order, events, artifacts, lock, mode, queue, running, main, used>>

\* _running_job is set and the heartbeat thread started.
BeginExecution(p) ==
    /\ At(p, "claimed")
    /\ running' = [running EXCEPT ![p] = coord[p].job]
    /\ coord' = [coord EXCEPT ![p].pc = "check", ![p].heart = "beating"]
    /\ UNCHANGED <<storeVars, lock, mode, queue, main, used>>

\* heartbeat.start() raises: the system has no thread left.
NoThread(p) ==
    /\ At(p, "claimed")
    /\ running' = [running EXCEPT ![p] = coord[p].job]
    /\ coord' = [coord EXCEPT ![p].pc = "crashFail", ![p].heart = "unstarted"]
    /\ Spend("faults", MaxFaults)
    /\ UNCHANGED <<storeVars, lock, mode, queue, main>>

\* except Exception: fail_job, then an emit that nothing guards.
CrashFail(p) ==
    /\ At(p, "crashFail")
    /\ FailJob(coord[p].job, "internal_error")
    /\ Goto(p, "crashEvent")
    /\ UNCHANGED <<order, events, artifacts, lock, mode, queue, running, main, used>>

CrashEvent(p) ==
    /\ At(p, "crashEvent")
    /\ Emit(p, "error", To(p, "fin"), To(p, "crashDead"))
    /\ UNCHANGED <<jobs, order, artifacts, lock, mode, queue, running, main, used>>

\* finally: the heartbeat is joined, _running_job cleared.  An exception on the
\* way ends the thread; otherwise the loop tests _stopping.  Joining a thread
\* that never started raises too, before _running_job is cleared.
Finish(p) ==
    /\ At(p, "fin") \/ At(p, "crashDead")
    /\ running' = IF coord[p].heart = "unstarted" THEN running
                  ELSE [running EXCEPT ![p] = NoJob]
    /\ coord' = [coord EXCEPT ![p] = [IdleCoord EXCEPT
           !.pc = IF coord[p].pc = "crashDead" \/ coord[p].heart = "unstarted" THEN "dead"
                  ELSE IF mode[p] # "up" THEN "exited" ELSE "get"]]
    /\ UNCHANGED <<storeVars, lock, mode, queue, main, used>>

-----------------------------------------------------------------------------
(* The engine: execute_check, execute_discovered_check and                  *)
(* execute_session_diagnosis between the claim and their return.            *)

EngineGoto(p, pc) ==
    /\ Goto(p, pc)
    /\ UNCHANGED <<storeVars, lock, mode, queue, running, main, used>>

CancelSeen(p) == jobs[coord[p].job].cancel

\* _ensure_not_cancelled before a phase
NotCancelled(p) == At(p, "check") /\ ~CancelSeen(p) /\ EngineGoto(p, "stage")
CancelHonoured(p) == At(p, "check") /\ CancelSeen(p) /\ EngineGoto(p, "cancel")

\* _analyze_inventory_copies takes SnapshotCancelled for a snapshot that could
\* not be read; when it was the only copy nothing tests for cancellation again.
CancelSwallowed(p) ==
    /\ At(p, "check") /\ CancelSeen(p)
    /\ coord[p].job \in Inventory /\ coord[p].phase = 2
    /\ coord' = [coord EXCEPT ![p].pc = "stage", ![p].phase = 3]
    /\ UNCHANGED <<storeVars, lock, mode, queue, running, main, used>>

\* The events of a phase, after which the next phase or the report is due.
EmitStage(p) ==
    /\ At(p, "stage")
    /\ LET i == coord[p].phase
       IN Emit(p, Phase[i],
               IF i = Len(Phase) THEN To(p, "writeJson")
               ELSE [To(p, "check") EXCEPT !.phase = i + 1],
               Raised(p))
    /\ UNCHANGED <<jobs, order, artifacts, lock, mode, queue, running, main, used>>

WriteReport(p, pc, format, next) ==
    /\ At(p, pc)
    /\ WriteArtifact(coord[p].job, format, coord[p].attempt)
    /\ Goto(p, next)
    /\ UNCHANGED <<jobs, order, events, lock, mode, queue, running, main, used>>

WriteJson(p) == WriteReport(p, "writeJson", "json", "writeRest")
WriteRest(p) == WriteReport(p, "writeRest", "rendered", "reportEvent")

ReportEvent(p) ==
    /\ At(p, "reportEvent")
    /\ Emit(p, "report", To(p, "complete"), Raised(p))
    /\ UNCHANGED <<jobs, order, artifacts, lock, mode, queue, running, main, used>>

Complete(p) ==
    /\ At(p, "complete")
    /\ CompleteJob(coord[p].job, "reported")
    /\ Goto(p, "fin")
    /\ UNCHANGED <<order, events, artifacts, lock, mode, queue, running, main, used>>

\* Any other exception of the engine, anywhere in it.
EngineRaises(p, result) ==
    /\ CoordAlive(p) /\ coord[p].pc \in Engine
    /\ coord' = [coord EXCEPT ![p] = [Raised(p) EXCEPT !.result = result]]
    /\ UNCHANGED <<storeVars, lock, mode, queue, running, main, used>>

\* except OperationCancelled: mark_cancelled, then _safe_emit
EngineCancel(p) ==
    /\ At(p, "cancel")
    /\ MarkCancelled(coord[p].job)
    /\ Goto(p, "cancelEvent")
    /\ UNCHANGED <<order, events, artifacts, lock, mode, queue, running, main, used>>

\* except ...: fail_job, then _safe_emit
EngineFail(p) ==
    /\ At(p, "fail")
    /\ FailJob(coord[p].job, coord[p].result)
    /\ Goto(p, "failEvent")
    /\ UNCHANGED <<order, events, artifacts, lock, mode, queue, running, main, used>>

LastEvent(p, pc, stage) ==
    /\ At(p, pc)
    /\ Emit(p, stage, To(p, "fin"), To(p, "fin"))
    /\ UNCHANGED <<jobs, order, artifacts, lock, mode, queue, running, main, used>>

CancelEvent(p) == LastEvent(p, "cancelEvent", "cancelled")
FailEvent(p) == LastEvent(p, "failEvent", "error")

-----------------------------------------------------------------------------
(* The heartbeat thread writes through the emitter of the job, whose lock   *)
(* makes a beat atomic; a taken key ends it.                                *)

Heartbeat(p) ==
    /\ CoordAlive(p) /\ coord[p].heart = "beating"
    /\ Spend("requests", MaxRequests)
    /\ Emit(p, "heartbeat", coord[p], [coord[p] EXCEPT !.heart = "stopped"])
    /\ UNCHANGED <<jobs, order, artifacts, lock, mode, queue, running, main>>

-----------------------------------------------------------------------------

CoordStep(p) ==
    \/ Dequeue(p) \/ StopSeen(p) \/ ReadJob(p) \/ CoordEmitter(p)
    \/ PreCancel(p) \/ PreCancelEvent(p) \/ Claim(p) \/ BeginExecution(p)
    \/ CrashFail(p) \/ CrashEvent(p) \/ Finish(p)
    \/ NotCancelled(p) \/ CancelHonoured(p) \/ CancelSwallowed(p) \/ EmitStage(p)
    \/ WriteJson(p) \/ WriteRest(p) \/ ReportEvent(p) \/ Complete(p)
    \/ \E result \in {"analysis_incomplete", "internal_error"} : EngineRaises(p, result)
    \/ EngineCancel(p) \/ EngineFail(p) \/ CancelEvent(p) \/ FailEvent(p)

ProcessStep(p) == Start(p) \/ Restore(p) \/ StopJoined(p) \/ Exit(p)

\* Everything that no scheduling owes to anybody.
Environment(p) ==
    \/ \E j \in Job : Submit(p, j) \/ Cancel(p, j) \/ Resume(p, j)
    \/ Shutdown(p) \/ IdleExit(p) \/ StopTimedOut(p) \/ Crash(p)
    \/ NoThread(p) \/ Heartbeat(p)

Next == \E p \in Proc :
    ProcessStep(p) \/ HandlerStep(p) \/ CoordStep(p) \/ Environment(p)

Spec == Init /\ [][Next]_vars

\* Threads are scheduled, the engine returns, and some client keeps calling
\* ensure_worker, which launches a process when none answers.
Fairness == \A p \in Proc :
    WF_vars(ProcessStep(p)) /\ WF_vars(HandlerStep(p)) /\ WF_vars(CoordStep(p))

FairSpec == Spec /\ Fairness
=============================================================================
