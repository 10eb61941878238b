-------------------------- MODULE WorkerRowProofs --------------------------
(***************************************************************************)
(* Proofs that relate the threads of the worker to the rows they work on,  *)
(* for any jobs, processes and bounds.                                     *)
(***************************************************************************)
EXTENDS WorkerProofs

-----------------------------------------------------------------------------
(* A step of the thread that executes jobs, as the row of its job sees it:  *)
(* r is its state before and c its state after the step.                    *)

\* The moves that write neither the row nor a file of the job.
Passes(from, to) ==
    \/ from = "emitter" /\ to \in {"preCancel", "claim"}
    \/ from = "preCancelEvent" /\ to \in {"fin", "crashFail"}
    \/ from = "claimed" /\ to \in {"check", "crashFail"}
    \/ from = "crashEvent" /\ to \in {"fin", "crashDead"}
    \/ from = "check" /\ to \in {"stage", "cancel"}
    \/ from = "stage" /\ to \in {"check", "writeJson"}
    \/ from \in Engine /\ to = "fail"
    \/ from \in {"cancelEvent", "failEvent"} /\ to = "fin"
    \/ from = to

Same(r, c) == c.job = r.job /\ c.attempt = r.attempt

\* The steps that write the row.
WritesRow(p, r, c) ==
    \/ /\ r.pc = "claim" /\ c.pc = "claimed" /\ jobs[r.job].status = "queued"
       /\ c.job = r.job /\ c.attempt = jobs[r.job].attempt + 1
       /\ MarkRunning(r.job)
    \/ /\ r.pc = "preCancel" /\ c.pc = "preCancelEvent" /\ Same(r, c)
       /\ MarkCancelled(r.job)
    \/ /\ r.pc = "cancel" /\ c.pc = "cancelEvent" /\ Same(r, c)
       /\ MarkCancelled(r.job)
    \/ /\ \/ r.pc = "crashFail" /\ c.pc = "crashEvent"
          \/ r.pc = "fail" /\ c.pc = "failEvent"
       /\ Same(r, c)
       /\ \E result \in Result : FailJob(r.job, result)
    \/ /\ r.pc = "complete" /\ c.pc = "fin" /\ Same(r, c)
       /\ CompleteJob(r.job, "reported")

\* The steps that write a file of the report.
WritesFile(p, r, c) ==
    \/ /\ r.pc = "writeJson" /\ c.pc = "writeRest" /\ Same(r, c)
       /\ WriteArtifact(r.job, "json", r.attempt)
    \/ /\ r.pc = "writeRest" /\ c.pc = "reportEvent" /\ Same(r, c)
       /\ WriteArtifact(r.job, "rendered", r.attempt)

HasReport(j) == \E n \in DOMAIN events[j] : events[j][n] = "report"

\* The steps between two jobs, and the other two that only look.
Looks(p, r, c) ==
    \/ /\ r.pc = "get" /\ c.pc = "got" /\ queue[p] # <<>>
       /\ c.job = Head(queue[p]) /\ queue' = [queue EXCEPT ![p] = Tail(queue[p])]
    \/ /\ r.pc = "got" /\ Same(r, c) /\ queue' = queue
       /\ c.pc = IF jobs[r.job].status = "queued" THEN "emitter" ELSE "fin"
    \/ /\ r.pc = "claim" /\ c.pc = "fin" /\ Same(r, c) /\ queue' = queue
       /\ jobs[r.job].status # "queued"
    \/ /\ r.pc = "reportEvent" /\ c.pc = "complete" /\ Same(r, c) /\ queue' = queue
       /\ HasReport(c.job)'
    \/ /\ r.pc \in {"get", "fin", "crashDead"} /\ c.pc \in {"get", "exited", "dead"}
       /\ c.job \in {r.job, NoJob} /\ queue' = queue
       /\ c.pc = "exited" => mode[p] # "up"

RowStep(p, r, c) ==
    \/ Passes(r.pc, c.pc) /\ Same(r, c) /\ UNCHANGED <<jobs, artifacts, queue>>
    \/ WritesRow(p, r, c) /\ UNCHANGED <<artifacts, queue>>
    \/ WritesFile(p, r, c) /\ UNCHANGED <<jobs, queue>>
    \/ Looks(p, r, c) /\ UNCHANGED <<jobs, artifacts>>

CoordMoves(p) == CoordStep(p) \/ NoThread(p) \/ Heartbeat(p)

\* What emitter.emit does to the thread that calls it.
LEMMA EmitShape ==
    ASSUME NEW p \in Proc, coord \in [Proc -> CoordRecord], EventsTypeOK, NEW stage,
           NEW then \in CoordRecord, NEW raised \in CoordRecord,
           coord[p].job \in Job, Emit(p, stage, then, raised)
    PROVE  \E c : /\ coord' = [coord EXCEPT ![p] = c]
                  /\ \/ c.pc = then.pc /\ Same(then, c)
                     \/ c.pc = raised.pc /\ Same(raised, c)
                  /\ \/ c.pc = raised.pc /\ Same(raised, c)
                     \/ \E n \in DOMAIN (events'[coord[p].job]) :
                            events'[coord[p].job][n] = stage
<1> DEFINE j == coord[p].job
           n == coord[p].seq + 1
           c == [(IF KeyTaken(j, n) THEN raised ELSE then) EXCEPT !.seq = n]
<1>1. coord' = [coord EXCEPT ![p] = c] /\ TryAppend(j, n, stage)
    BY DEF Emit
<1>2. CASE KeyTaken(j, n)
    <2>1. c.pc = raised.pc /\ Same(raised, c)
        BY <1>2 DEF CoordRecord, Same
    <2> HIDE DEF c
    <2> QED BY <1>1, <2>1
<1>3. CASE ~KeyTaken(j, n)
    <2>1. c.pc = then.pc /\ Same(then, c)
        BY <1>3 DEF CoordRecord, Same
    <2>2. n \in DOMAIN (events'[j]) /\ events'[j][n] = stage
        BY <1>1, <1>3 DEF TryAppend, AppendEvent, EventsTypeOK
    <2> HIDE DEF c, n
    <2> QED BY <1>1, <2>1, <2>2
<1> QED BY <1>2, <1>3

\* Every step of the thread that executes jobs is one of these.
LEMMA CoordShape ==
    ASSUME TypeOK, NEW p \in Proc, CoordMoves(p)
    PROVE  /\ \E c : coord' = [coord EXCEPT ![p] = c] /\ RowStep(p, coord[p], c)
           /\ UNCHANGED <<order, lock, mode, main>>
<1> DEFINE r == coord[p]
           j == coord[p].job
<1>0. /\ coord \in [Proc -> CoordRecord] /\ r \in CoordRecord /\ EventsTypeOK
      /\ r.pc \notin {"get", "exited", "dead"} \/ r.heart # "none" => j \in Job
    BY DEF TypeOK, CoordTypeOK, StoreTypeOK
<1>frame. UNCHANGED <<order, lock, mode, main>>
    BY DEF CoordMoves, CoordStep, Dequeue, StopSeen, ReadJob, CoordEmitter, PreCancel,
           PreCancelEvent, Claim, BeginExecution, NoThread, CrashFail, CrashEvent, Finish,
           NotCancelled, CancelHonoured, CancelSwallowed, EngineGoto, EmitStage, WriteJson,
           WriteRest, WriteReport, ReportEvent, Complete, EngineRaises, EngineCancel,
           EngineFail, CancelEvent, FailEvent, LastEvent, Heartbeat, storeVars
<1>to. ASSUME NEW pc, Goto(p, pc)
       PROVE  \E c : coord' = [coord EXCEPT ![p] = c] /\ c.pc = pc /\ Same(r, c)
    <2> DEFINE c == [r EXCEPT !.pc = pc]
    <2>1. coord' = [coord EXCEPT ![p] = c]
        BY <1>0, <1>to DEF Goto
    <2>2. c.pc = pc /\ Same(r, c)
        BY <1>0 DEF CoordRecord, Same
    <2> HIDE DEF c
    <2> QED BY <2>1, <2>2
<1>1. CASE Dequeue(p)
    <2> DEFINE c == [IdleCoord EXCEPT !.pc = "got", !.job = Head(queue[p])]
    <2>1. coord' = [coord EXCEPT ![p] = c] /\ c.pc = "got" /\ c.job = Head(queue[p])
        BY <1>1 DEF Dequeue, IdleCoord
    <2> HIDE DEF c
    <2>2. Looks(p, r, c) /\ UNCHANGED <<jobs, artifacts>>
        BY <1>1, <2>1 DEF Dequeue, At, Looks, storeVars
    <2> QED BY <1>frame, <2>1, <2>2 DEF RowStep
<1>2. CASE StopSeen(p)
    <2>1. PICK c : coord' = [coord EXCEPT ![p] = c] /\ c.pc = "exited" /\ Same(r, c)
        BY <1>2, <1>to DEF StopSeen
    <2>2. Looks(p, r, c) /\ UNCHANGED <<jobs, artifacts>>
        BY <1>2, <2>1 DEF StopSeen, At, Looks, Same, storeVars
    <2> QED BY <1>frame, <2>1, <2>2 DEF RowStep
<1>3. CASE ReadJob(p)
    <2> DEFINE c == [r EXCEPT !.pc = IF jobs[j].status = "queued" THEN "emitter" ELSE "fin",
                              !.cancel = jobs[j].cancel]
    <2>1. coord' = [coord EXCEPT ![p] = c]
        BY <1>0, <1>3 DEF ReadJob
    <2>2. /\ c.pc = IF jobs[j].status = "queued" THEN "emitter" ELSE "fin"
          /\ Same(r, c)
        BY <1>0 DEF CoordRecord, Same
    <2> HIDE DEF c
    <2>3. Looks(p, r, c) /\ UNCHANGED <<jobs, artifacts>>
        BY <1>3, <2>2 DEF ReadJob, At, Looks, storeVars
    <2> QED BY <1>frame, <2>1, <2>3 DEF RowStep
<1>4. CASE CoordEmitter(p)
    <2> DEFINE c == [r EXCEPT !.seq = EmitterStart(j),
                              !.pc = IF r.cancel THEN "preCancel" ELSE "claim"]
    <2>1. coord' = [coord EXCEPT ![p] = c]
        BY <1>0, <1>4 DEF CoordEmitter
    <2>2. c.pc \in {"preCancel", "claim"} /\ Same(r, c)
        BY <1>0 DEF CoordRecord, Same
    <2> HIDE DEF c
    <2>3. Passes(r.pc, c.pc) /\ UNCHANGED <<jobs, artifacts, queue>>
        BY <1>4, <2>2 DEF CoordEmitter, At, Passes, storeVars
    <2> QED BY <1>frame, <2>1, <2>2, <2>3 DEF RowStep
<1>5. CASE Claim(p)
    <2>1. CASE Claimable(j)
        <3> DEFINE c == [r EXCEPT !.pc = "claimed", !.attempt = jobs[j].attempt + 1]
        <3>1. coord' = [coord EXCEPT ![p] = c]
            BY <1>0, <1>5, <2>1 DEF Claim
        <3>2. c.pc = "claimed" /\ c.job = j /\ c.attempt = jobs[j].attempt + 1
            BY <1>0 DEF CoordRecord
        <3> HIDE DEF c
        <3>3. WritesRow(p, r, c) /\ UNCHANGED <<artifacts, queue>>
            BY <1>5, <2>1, <3>2 DEF Claim, Claimable, At, WritesRow
        <3> QED BY <1>frame, <3>1, <3>3 DEF RowStep
    <2>2. CASE ~Claimable(j)
        <3>1. PICK c : coord' = [coord EXCEPT ![p] = c] /\ c.pc = "fin" /\ Same(r, c)
            BY <1>5, <2>2, <1>to DEF Claim
        <3>2. Looks(p, r, c) /\ UNCHANGED <<jobs, artifacts>>
            BY <1>5, <2>2, <3>1 DEF Claim, Claimable, At, Looks
        <3> QED BY <1>frame, <3>1, <3>2 DEF RowStep
    <2> QED BY <2>1, <2>2
<1>6. CASE BeginExecution(p) \/ NoThread(p)
    <2> DEFINE begun == [r EXCEPT !.pc = "check", !.heart = "beating"]
               unstarted == [r EXCEPT !.pc = "crashFail", !.heart = "unstarted"]
    <2>1. coord' = [coord EXCEPT ![p] = begun] \/ coord' = [coord EXCEPT ![p] = unstarted]
        BY <1>0, <1>6 DEF BeginExecution, NoThread
    <2>2. /\ begun.pc = "check" /\ Same(r, begun)
          /\ unstarted.pc = "crashFail" /\ Same(r, unstarted)
        BY <1>0 DEF CoordRecord, Same
    <2> HIDE DEF begun, unstarted
    <2>3. r.pc = "claimed" /\ UNCHANGED <<jobs, artifacts, queue>>
        BY <1>6 DEF BeginExecution, NoThread, At, storeVars
    <2>4. Passes(r.pc, begun.pc) /\ Passes(r.pc, unstarted.pc)
        BY <2>2, <2>3 DEF Passes
    <2> QED BY <1>frame, <2>1, <2>2, <2>3, <2>4 DEF RowStep
<1>7. CASE Finish(p)
    <2> DEFINE pc == IF r.pc = "crashDead" \/ r.heart = "unstarted" THEN "dead"
                     ELSE IF mode[p] # "up" THEN "exited" ELSE "get"
               c == [IdleCoord EXCEPT !.pc = pc]
    <2>1. coord' = [coord EXCEPT ![p] = c]
        BY <1>7 DEF Finish
    <2>2. c.pc = pc /\ c.job = NoJob
        BY DEF IdleCoord
    <2> HIDE DEF c
    <2>3. Looks(p, r, c) /\ UNCHANGED <<jobs, artifacts>>
        BY <1>7, <2>2 DEF Finish, At, Looks, storeVars
    <2> QED BY <1>frame, <2>1, <2>3 DEF RowStep
<1>8. CASE CancelSwallowed(p)
    <2> DEFINE c == [r EXCEPT !.pc = "stage", !.phase = 3]
    <2>1. coord' = [coord EXCEPT ![p] = c]
        BY <1>0, <1>8 DEF CancelSwallowed
    <2>2. c.pc = "stage" /\ Same(r, c)
        BY <1>0 DEF CoordRecord, Same
    <2> HIDE DEF c
    <2>3. Passes(r.pc, c.pc) /\ UNCHANGED <<jobs, artifacts, queue>>
        BY <1>8, <2>2 DEF CancelSwallowed, At, Passes, storeVars
    <2> QED BY <1>frame, <2>1, <2>2, <2>3 DEF RowStep
<1>9. CASE NotCancelled(p) \/ CancelHonoured(p)
    <2>1. PICK c : /\ coord' = [coord EXCEPT ![p] = c] /\ Same(r, c)
                   /\ c.pc \in {"stage", "cancel"}
        BY <1>9, <1>to DEF NotCancelled, CancelHonoured, EngineGoto
    <2>2. Passes(r.pc, c.pc) /\ UNCHANGED <<jobs, artifacts, queue>>
        BY <1>9, <2>1 DEF NotCancelled, CancelHonoured, EngineGoto, At, Passes, storeVars
    <2> QED BY <1>frame, <2>1, <2>2 DEF RowStep
<1>10. CASE WriteJson(p) \/ WriteRest(p)
    <2>1. PICK c : /\ coord' = [coord EXCEPT ![p] = c] /\ Same(r, c)
                   /\ \/ WriteJson(p) /\ c.pc = "writeRest"
                      \/ WriteRest(p) /\ c.pc = "reportEvent"
        BY <1>10, <1>to DEF WriteJson, WriteRest, WriteReport
    <2>2. WritesFile(p, r, c) /\ UNCHANGED <<jobs, queue>>
        BY <1>10, <2>1 DEF WriteJson, WriteRest, WriteReport, At, WritesFile
    <2> QED BY <1>frame, <2>1, <2>2 DEF RowStep
<1>11. CASE PreCancel(p) \/ EngineCancel(p) \/ Complete(p)
    <2>1. PICK c : /\ coord' = [coord EXCEPT ![p] = c] /\ Same(r, c)
                   /\ \/ PreCancel(p) /\ c.pc = "preCancelEvent"
                      \/ EngineCancel(p) /\ c.pc = "cancelEvent"
                      \/ Complete(p) /\ c.pc = "fin"
        BY <1>11, <1>to DEF PreCancel, EngineCancel, Complete
    <2>2. WritesRow(p, r, c) /\ UNCHANGED <<artifacts, queue>>
        BY <1>11, <2>1 DEF PreCancel, EngineCancel, Complete, At, WritesRow
    <2> QED BY <1>frame, <2>1, <2>2 DEF RowStep
<1>12. CASE CrashFail(p) \/ EngineFail(p)
    <2>1. PICK c : /\ coord' = [coord EXCEPT ![p] = c] /\ Same(r, c)
                   /\ \/ CrashFail(p) /\ c.pc = "crashEvent"
                      \/ EngineFail(p) /\ c.pc = "failEvent"
        BY <1>12, <1>to DEF CrashFail, EngineFail
    <2>2. \E result \in Result : FailJob(j, result)
        <3>1. "internal_error" \in Result /\ r.result \in Result
            BY <1>0 DEF Result, CoordRecord
        <3> QED BY <1>12, <3>1 DEF CrashFail, EngineFail
    <2>3. WritesRow(p, r, c) /\ UNCHANGED <<artifacts, queue>>
        BY <1>12, <2>1, <2>2 DEF CrashFail, EngineFail, At, WritesRow
    <2> QED BY <1>frame, <2>1, <2>3 DEF RowStep
<1>13. ASSUME NEW result, EngineRaises(p, result)
       PROVE  \E c : coord' = [coord EXCEPT ![p] = c] /\ RowStep(p, r, c)
    <2> DEFINE c == [Raised(p) EXCEPT !.result = result]
    <2>1. coord' = [coord EXCEPT ![p] = c]
        BY <1>13 DEF EngineRaises
    <2>2. c.pc = "fail" /\ Same(r, c)
        BY <1>0 DEF Raised, CoordRecord, Same
    <2> HIDE DEF c
    <2>3. Passes(r.pc, c.pc) /\ UNCHANGED <<jobs, artifacts, queue>>
        BY <1>13, <2>2 DEF EngineRaises, Passes, storeVars
    <2> QED BY <2>1, <2>2, <2>3 DEF RowStep
<1>raised. Raised(p) \in CoordRecord /\ Raised(p).pc = "fail" /\ Same(r, Raised(p))
    BY <1>0 DEF Raised, CoordRecord, CoordPc, Executing, Result, Same
<1>then. ASSUME NEW pc \in CoordPc
         PROVE  To(p, pc) \in CoordRecord /\ To(p, pc).pc = pc /\ Same(r, To(p, pc))
    BY <1>0 DEF To, CoordRecord, Same
<1>pcs. {"fin", "crashFail", "crashDead", "check", "writeJson", "complete"} \subseteq CoordPc
    BY DEF CoordPc, Executing, Engine
<1>emits. ASSUME NEW stage, NEW then \in CoordRecord, NEW raised \in CoordRecord,
                 j \in Job, Emit(p, stage, then, raised), Same(r, then), Same(r, raised),
                 UNCHANGED <<jobs, artifacts, queue>>,
                 Passes(r.pc, raised.pc),
                 \/ Passes(r.pc, then.pc)
                 \/ r.pc = "reportEvent" /\ then.pc = "complete" /\ stage = "report"
          PROVE  \E c : coord' = [coord EXCEPT ![p] = c] /\ RowStep(p, r, c)
    <2>1. PICK c : /\ coord' = [coord EXCEPT ![p] = c]
                   /\ \/ c.pc = then.pc /\ Same(then, c)
                      \/ c.pc = raised.pc /\ Same(raised, c)
                   /\ \/ c.pc = raised.pc /\ Same(raised, c)
                      \/ \E n \in DOMAIN (events'[j]) : events'[j][n] = stage
        BY <1>0, <1>emits, EmitShape
    <2>2. Same(r, c)
        BY <1>emits, <2>1 DEF Same
    <2>3. CASE Passes(r.pc, c.pc)
        BY <1>emits, <2>1, <2>2, <2>3 DEF RowStep
    <2>4. CASE ~Passes(r.pc, c.pc)
        <3>1. c.pc # raised.pc
            BY <1>emits, <2>4
        <3>2. r.pc = "reportEvent" /\ c.pc = "complete" /\ stage = "report"
            BY <1>emits, <2>1, <2>4, <3>1
        <3>3. HasReport(c.job)'
            BY <2>1, <2>2, <3>1, <3>2 DEF HasReport, Same
        <3> QED BY <1>emits, <2>1, <2>2, <3>2, <3>3 DEF RowStep, Looks
    <2> QED BY <2>3, <2>4
<1>14. CASE PreCancelEvent(p) \/ CrashEvent(p) \/ CancelEvent(p) \/ FailEvent(p)
    <2> USE DEF PreCancelEvent, CrashEvent, CancelEvent, FailEvent, LastEvent, At
    <2>1. j \in Job /\ UNCHANGED <<jobs, artifacts, queue>>
        BY <1>0, <1>14
    <2>2. CASE PreCancelEvent(p)
        BY <2>1, <2>2, <1>then, <1>pcs, <1>emits DEF Passes
    <2>3. CASE CrashEvent(p)
        BY <2>1, <2>3, <1>then, <1>pcs, <1>emits DEF Passes
    <2>4. CASE CancelEvent(p) \/ FailEvent(p)
        BY <2>1, <2>4, <1>then, <1>pcs, <1>emits DEF Passes
    <2> QED BY <1>14, <1>frame, <2>2, <2>3, <2>4
<1>15. CASE ReportEvent(p)
    <2>1. j \in Job /\ UNCHANGED <<jobs, artifacts, queue>>
        BY <1>0, <1>15 DEF ReportEvent, At
    <2>2. r.pc = "reportEvent" /\ Emit(p, "report", To(p, "complete"), Raised(p))
        BY <1>15 DEF ReportEvent, At
    <2>3. Passes(r.pc, Raised(p).pc)
        BY <1>raised, <2>2 DEF Passes, Engine
    <2>4. To(p, "complete") \in CoordRecord /\ To(p, "complete").pc = "complete"
          /\ Same(r, To(p, "complete"))
        BY <1>then, <1>pcs
    <2> QED BY <1>raised, <1>emits, <1>frame, <2>1, <2>2, <2>3, <2>4
<1>16. CASE EmitStage(p)
    <2> DEFINE i == r.phase
               on == [To(p, "check") EXCEPT !.phase = i + 1]
               then == IF i = Len(Phase) THEN To(p, "writeJson") ELSE on
    <2>1. j \in Job /\ UNCHANGED <<jobs, artifacts, queue>> /\ r.pc = "stage"
        BY <1>0, <1>16 DEF EmitStage, At
    <2>2. i \in 1..3 /\ Len(Phase) = 3 /\ DOMAIN Phase = 1..3
        BY <1>0 DEF CoordRecord, Phase
    <2>3. i # 3 => on \in CoordRecord /\ on.pc = "check" /\ Same(r, on)
        <3>1. i # 3 => i + 1 \in 1..3
            BY <2>2
        <3>2. To(p, "check") \in CoordRecord /\ To(p, "check").pc = "check"
              /\ Same(r, To(p, "check"))
            BY <1>then, <1>pcs
        <3> QED BY <2>2, <3>1, <3>2 DEF CoordRecord, Same
    <2>4. /\ then \in CoordRecord /\ Same(r, then)
          /\ then.pc \in {"check", "writeJson"}
        BY <1>then, <1>pcs, <2>2, <2>3
    <2>5. Emit(p, Phase[i], then, Raised(p))
        BY <1>16 DEF EmitStage
    <2> HIDE DEF then, on
    <2>6. Passes(r.pc, then.pc) /\ Passes(r.pc, Raised(p).pc)
        BY <1>raised, <2>1, <2>4 DEF Passes, Engine
    <2> QED BY <1>raised, <1>emits, <1>frame, <2>1, <2>4, <2>5, <2>6
<1>17. CASE Heartbeat(p)
    <2> DEFINE stopped == [r EXCEPT !.heart = "stopped"]
    <2>1. j \in Job /\ UNCHANGED <<jobs, artifacts, queue>>
        BY <1>0, <1>17 DEF Heartbeat
    <2>2. stopped \in CoordRecord /\ stopped.pc = r.pc /\ Same(r, stopped) /\ Same(r, r)
        BY <1>0 DEF CoordRecord, Heart, Same
    <2>3. Emit(p, "heartbeat", r, stopped)
        BY <1>17 DEF Heartbeat
    <2> HIDE DEF stopped
    <2>4. Passes(r.pc, stopped.pc) /\ Passes(r.pc, r.pc)
        BY <2>2 DEF Passes
    <2> QED BY <1>0, <1>emits, <1>frame, <2>1, <2>2, <2>3, <2>4
<1> QED BY <1>frame, <1>1, <1>2, <1>3, <1>4, <1>5, <1>6, <1>7, <1>8, <1>9, <1>10, <1>11,
           <1>12, <1>13, <1>14, <1>15, <1>16, <1>17 DEF CoordMoves, CoordStep

-----------------------------------------------------------------------------
(* The steps of everybody else: processes, requests, crashes.               *)

Requests(p) == \E j \in Job : Submit(p, j) \/ Cancel(p, j) \/ Resume(p, j)

Leaves(p) == Exit(p) \/ Crash(p)

OtherMoves(p) ==
    \/ ProcessStep(p) \/ HandlerStep(p) \/ Requests(p)
    \/ Shutdown(p) \/ IdleExit(p) \/ StopTimedOut(p) \/ Crash(p)

LEMMA NextMoves ==
    [Next]_vars => (\E p \in Proc : CoordMoves(p) \/ OtherMoves(p)) \/ UNCHANGED vars
BY DEF Next, CoordMoves, OtherMoves, Requests, Environment

\* They complete no job and start none, they leave no row out, and only the thread
\* of a job counts its attempts.
Gentle ==
    \A k \in Job :
        /\ jobs'[k].status \in {"complete", "running"} =>
               jobs'[k].status = jobs[k].status /\ jobs'[k].report = jobs[k].report
        /\ jobs[k].status # "absent" =>
               jobs'[k].status # "absent" /\ jobs'[k].attempt = jobs[k].attempt

LEMMA StatementsAreGentle ==
    ASSUME jobs \in [Job -> Row], NEW j \in Job,
           \/ UNCHANGED jobs \/ RecoverInterruptedJobs
           \/ (jobs[j].status = "absent" /\ CreateJob(j)) \/ RequestCancel(j)
           \/ MarkCancelled(j) \/ ResumeJob(j)
           \/ \E result \in Result : FailJob(j, result)
    PROVE  Gentle
<1> USE DEF Gentle
<1>1. CASE UNCHANGED jobs
    BY <1>1
<1>2. CASE RecoverInterruptedJobs
    BY <1>2 DEF RecoverInterruptedJobs, Row
<1>3. CASE jobs[j].status = "absent" /\ CreateJob(j)
    BY <1>3 DEF CreateJob, Absent
<1>4. CASE RequestCancel(j)
    BY <1>4 DEF RequestCancel, Row
<1>5. CASE MarkCancelled(j)
    BY <1>5 DEF MarkCancelled, Row
<1>6. CASE ResumeJob(j)
    BY <1>6 DEF ResumeJob, Row
<1>7. ASSUME NEW result \in Result, FailJob(j, result) PROVE Gentle
    <2> DEFINE row == [jobs[j] EXCEPT !.status = "failed", !.result = result]
    <2>1. jobs' = [jobs EXCEPT ![j] = row]
        BY <1>7 DEF FailJob
    <2>2. row.status = "failed" /\ row.attempt = jobs[j].attempt
        BY DEF Row
    <2> HIDE DEF row
    <2> QED BY <2>1, <2>2
<1> QED BY <1>1, <1>2, <1>3, <1>4, <1>5, <1>6, <1>7

LEMMA OtherShape ==
    ASSUME TypeOK, NEW p \in Proc, OtherMoves(p)
    PROVE  /\ Gentle /\ UNCHANGED artifacts
           /\ \/ coord' = coord /\ ~Leaves(p)
              \/ coord' = [coord EXCEPT ![p] = IdleCoord] /\ Leaves(p)
<1>0. jobs \in [Job -> Row]
    BY DEF TypeOK, StoreTypeOK, JobsTypeOK
<1>1. ASSUME UNCHANGED jobs PROVE Gentle
    BY <1>1 DEF Gentle
<1>2. CASE Start(p)
    <2>1. Gentle
        BY <1>0, <1>2 DEF Start, RecoverInterruptedJobs, Gentle, Row
    <2> QED BY <1>2, <2>1 DEF Start, Leaves, Exit, Crash
<1>3. CASE Restore(p) \/ StopJoined(p) \/ StopTimedOut(p) \/ Shutdown(p) \/ IdleExit(p)
    BY <1>1, <1>3 DEF Restore, StopJoined, StopTimedOut, Released, Shutdown, IdleExit,
                      Stopping, storeVars, Leaves, Exit, Crash, Gone, ProcTypeOK, TypeOK
<1>4. CASE Exit(p) \/ Crash(p)
    BY <1>1, <1>4 DEF Exit, Crash, Gone, Leaves, storeVars
<1>5. CASE HandlerStep(p) \/ Requests(p)
    <2>1. mode[p] = "up" /\ coord' = coord /\ UNCHANGED artifacts
        BY <1>5 DEF HandlerStep, Requests, CancelLook, CancelMark, HandlerEmitter, HandlerEmit,
                    Enqueue, Submit, Cancel, Resume, Accept, storeVars
    <2>2. mode'[p] # "down"
        BY <1>5, <2>1 DEF HandlerStep, Requests, CancelLook, CancelMark, HandlerEmitter,
             HandlerEmit, Enqueue, Submit, Cancel, Resume, Accept, TypeOK, ProcTypeOK
    <2>3. ~Leaves(p)
        BY <2>2 DEF Leaves, Exit, Crash, Gone, TypeOK, ProcTypeOK
    <2>4. CASE CancelMark(p)
        <3>1. main[p].job \in Job /\ MarkCancelled(main[p].job)
            BY <2>4 DEF CancelMark, TypeOK, MainTypeOK
        <3> QED BY <1>0, <2>1, <2>3, <3>1, StatementsAreGentle
    <2>5. CASE Requests(p)
        BY <1>0, <2>1, <2>3, <2>5, StatementsAreGentle DEF Requests, Submit, Cancel, Resume
    <2>6. CASE HandlerStep(p) /\ ~CancelMark(p)
        <3>1. UNCHANGED jobs
            BY <2>6 DEF HandlerStep, CancelLook, HandlerEmitter, HandlerEmit, Enqueue, storeVars
        <3> QED BY <1>1, <2>1, <2>3, <3>1
    <2> QED BY <1>5, <2>4, <2>5, <2>6
<1> QED BY <1>2, <1>3, <1>4, <1>5 DEF OtherMoves, ProcessStep

-----------------------------------------------------------------------------
(* Who holds what.                                                          *)

\* A process between taking the lock and giving it back is the one that holds it.
LockIsHeld == \A p \in Proc : mode[p] \in {"recovering", "up", "stopping"} <=> lock = p

\* A process that does not serve yet has no thread at work.
StartsEmpty ==
    \A p \in Proc : mode[p] \in {"down", "recovering"} =>
        coord[p] = IdleCoord /\ main[p] = IdleMain

\* The loop is not left while the process serves.
StaysUp == \A p \in Proc : mode[p] = "up" => coord[p].pc # "exited"

ProcInv == LockIsHeld /\ StartsEmpty /\ StaysUp

LEMMA NextKeepsProcInv == TypeOK /\ ProcInv /\ [Next]_vars => ProcInv'
<1> SUFFICES ASSUME TypeOK, ProcInv, [Next]_vars PROVE ProcInv'
    OBVIOUS
<1> USE DEF ProcInv
<1>0. /\ mode \in [Proc -> Mode] /\ coord \in [Proc -> CoordRecord]
      /\ main \in [Proc -> MainRecord] /\ NoProc \notin Proc
    BY WorkerAssumption DEF TypeOK, ProcTypeOK, CoordTypeOK, MainTypeOK
<1>1. ASSUME NEW p \in Proc, CoordMoves(p) PROVE ProcInv'
    <2>1. PICK c : coord' = [coord EXCEPT ![p] = c] /\ RowStep(p, coord[p], c)
        BY <1>1, CoordShape
    <2>2. UNCHANGED <<lock, mode, main>>
        BY <1>1, CoordShape
    <2>3. mode[p] \in {"up", "stopping", "released"}
        BY <1>1 DEF CoordMoves, CoordStep, Dequeue, StopSeen, ReadJob, CoordEmitter,
           PreCancel, PreCancelEvent, Claim, BeginExecution, NoThread, CrashFail, CrashEvent,
           Finish, NotCancelled, CancelHonoured, CancelSwallowed, EmitStage, WriteJson,
           WriteRest, WriteReport, ReportEvent, Complete, EngineRaises, EngineCancel,
           EngineFail, CancelEvent, FailEvent, LastEvent, Heartbeat, At, CoordAlive
    <2>4. LockIsHeld'
        BY <2>2 DEF LockIsHeld
    <2>5. StartsEmpty'
        BY <1>0, <2>1, <2>2, <2>3 DEF StartsEmpty
    <2>6. c.pc = "exited" => mode[p] # "up" \/ coord[p].pc = "exited"
        BY <2>1 DEF RowStep, Passes, WritesRow, WritesFile, Looks
    <2>7. StaysUp'
        BY <1>0, <2>1, <2>2, <2>6 DEF StaysUp
    <2> QED BY <2>4, <2>5, <2>7
<1>2. ASSUME NEW p \in Proc, OtherMoves(p) PROVE ProcInv'
    <2>1. CASE Start(p)
        BY <1>0, <2>1 DEF Start, LockIsHeld, StartsEmpty, StaysUp
    <2>2. CASE Restore(p)
        BY <1>0, <2>2 DEF Restore, LockIsHeld, StartsEmpty, StaysUp, IdleCoord
    <2>3. CASE Shutdown(p) \/ IdleExit(p)
        BY <1>0, <2>3 DEF Shutdown, IdleExit, Stopping, LockIsHeld, StartsEmpty, StaysUp
    <2>4. CASE StopJoined(p) \/ StopTimedOut(p)
        BY <1>0, <2>4 DEF StopJoined, StopTimedOut, Released, LockIsHeld, StartsEmpty, StaysUp
    <2>5. CASE Exit(p) \/ Crash(p)
        BY <1>0, <2>5 DEF Exit, Crash, Gone, LockIsHeld, StartsEmpty, StaysUp
    <2>6. CASE HandlerStep(p) \/ Requests(p)
        <3>1. /\ UNCHANGED <<lock, coord>> /\ mode[p] = "up"
              /\ mode' = mode \/ mode' = [mode EXCEPT ![p] = "stopping"]
              /\ \A q \in Proc \ {p} : main'[q] = main[q]
            BY <1>0, <2>6 DEF HandlerStep, Requests, CancelLook, CancelMark, HandlerEmitter,
                        HandlerEmit, Enqueue, Submit, Cancel, Resume, Accept, storeVars
        <3>2. LockIsHeld' /\ StaysUp'
            BY <1>0, <3>1 DEF LockIsHeld, StaysUp
        <3>3. StartsEmpty'
            BY <1>0, <3>1 DEF StartsEmpty
        <3> QED BY <3>2, <3>3
    <2> QED BY <1>2, <2>1, <2>2, <2>3, <2>4, <2>5, <2>6 DEF OtherMoves, ProcessStep
<1>3. CASE UNCHANGED vars
    BY <1>3 DEF vars, procVars, LockIsHeld, StartsEmpty, StaysUp
<1> QED BY <1>1, <1>2, <1>3, NextMoves

LEMMA ProcInvariant == Spec => []ProcInv
<1>1. Init => ProcInv
    BY WorkerAssumption DEF Init, ProcInv, LockIsHeld, StartsEmpty, StaysUp
<1> QED BY <1>1, NextKeepsProcInv, TypeCorrect, PTL DEF Spec

-----------------------------------------------------------------------------
(* The rows while one thread at most executes jobs.                         *)

\* Two threads never execute at once.
OneActive == \A p, q \in Proc : Unfinished(p) /\ Unfinished(q) => p = q

\* Where a thread has the running job of its row still to settle.
Runner == Engine \cup {"claimed", "cancel", "fail", "crashFail"}

\* Where it has a write to the row before it.
Unsettled == Runner \cup {"emitter", "preCancel", "preCancelEvent", "claim"}

RunningInHand ==
    lock # NoProc =>
        \A j \in Job : jobs[j].status = "running" =>
            \E p \in Proc : coord[p].job = j /\ coord[p].pc \in Runner

\* What a thread may rely on at each place: its row is there and not complete, it
\* counts the attempt that is being made, and the files and the event that are
\* said to be written are.
RowSound(p) ==
    LET j == coord[p].job
        pc == coord[p].pc
    IN  /\ pc \in Unsettled => jobs[j].status \notin {"complete", "absent"}
        /\ pc \in Engine \cup {"claimed"} => jobs[j].attempt = coord[p].attempt
        /\ pc \in {"writeRest", "reportEvent", "complete"} =>
               artifacts[j]["json"] = coord[p].attempt
        /\ pc \in {"reportEvent", "complete"} =>
               artifacts[j]["rendered"] = coord[p].attempt
        /\ pc = "complete" => HasReport(j)

RowsSound == \A p \in Proc : RowSound(p)

RowInv == OneActive /\ RunningInHand /\ RowsSound /\ CompleteHasReport

\* A report event is never taken back.
LEMMA ReportsStay ==
    ASSUME IInv, [Next]_vars, NEW j \in Job, HasReport(j)
    PROVE  HasReport(j)'
<1>1. CASE UNCHANGED events
    BY <1>1 DEF HasReport
<1>2. ASSUME NEW k \in Job, NEW stage \in Stage, Feed!Publish(k, stage)
      PROVE  HasReport(j)'
    <2>1. events[k] \in Seq(Stage)
        BY DEF IInv, TypeOK, StoreTypeOK, EventsTypeOK, Gapless
    <2>2. events' = [events EXCEPT ![k] = Append(events[k], stage)]
        BY <1>2 DEF Feed!Publish
    <2>3. PICK n \in DOMAIN events[j] : events[j][n] = "report"
        BY DEF HasReport
    <2>4. DOMAIN events = Job
        BY DEF IInv, TypeOK, StoreTypeOK, EventsTypeOK
    <2>5. n \in DOMAIN (events'[j]) /\ events'[j][n] = "report"
        <3>1. CASE k = j
            <4>1. n \in 1..Len(events[k]) /\ events'[j] = Append(events[k], stage)
                BY <2>1, <2>2, <2>3, <2>4, <3>1
            <4> QED BY <2>1, <2>3, <4>1, <3>1
        <3>2. CASE k # j
            BY <2>2, <2>3, <2>4, <3>2
        <3> QED BY <3>1, <3>2
    <2> QED BY <2>5 DEF HasReport
<1> QED BY <1>1, <1>2, StepPublishes DEF Feed!Next

\* A thread that has a row in its hands is unfinished.
LEMMA UnsettledIsUnfinished ==
    ASSUME TypeOK, ProcInv, NEW p \in Proc, coord[p].pc \in Unsettled
    PROVE  Unfinished(p)
<1>1. coord[p].pc \notin {"get", "exited", "dead"}
    BY DEF Unsettled, Runner, Engine
<1>2. mode[p] \notin {"down", "recovering"}
    BY <1>1 DEF ProcInv, StartsEmpty, IdleCoord
<1> QED BY <1>1, <1>2 DEF Unfinished, CoordAlive, TypeOK, ProcTypeOK, Mode

LEMMA StaysAlone ==
    ASSUME TypeOK, ProcInv, Alone, OneActive, [Next]_vars
    PROVE  OneActive'
<1>0. /\ mode \in [Proc -> Mode] /\ coord \in [Proc -> CoordRecord]
      /\ NoProc \notin Proc
    BY WorkerAssumption DEF TypeOK, ProcTypeOK, CoordTypeOK
<1>1. ASSUME NEW p \in Proc, CoordMoves(p), NEW q \in Proc, Unfinished(q)'
      PROVE  Unfinished(q)
    <2>1. PICK c : coord' = [coord EXCEPT ![p] = c] /\ RowStep(p, coord[p], c)
        BY <1>1, CoordShape
    <2>2. mode' = mode
        BY <1>1, CoordShape
    <2>3. c.pc \notin {"exited", "dead"} => coord[p].pc \notin {"exited", "dead"}
        BY <2>1 DEF RowStep, Passes, WritesRow, WritesFile, Looks, Engine
    <2> QED BY <1>0, <1>1, <2>1, <2>2, <2>3 DEF Unfinished, CoordAlive
<1>2. ASSUME NEW p \in Proc, OtherMoves(p), NEW q \in Proc, Unfinished(q)', ~Unfinished(q)
      PROVE  Restore(p) /\ q = p
    <2>1. CASE coord' = coord /\ ~Leaves(p)
        <3>1. CASE q # p
            <4>1. mode'[q] = mode[q]
                BY <1>0, <1>2, <3>1 DEF OtherMoves, ProcessStep, Start, Restore, StopJoined,
                   StopTimedOut, Released, Shutdown, IdleExit, Stopping, Exit, Crash, Gone,
                   HandlerStep, Requests, CancelLook, CancelMark, HandlerEmitter, HandlerEmit,
                   Enqueue, Submit, Cancel, Resume, Accept
            <4> QED BY <1>2, <2>1, <4>1 DEF Unfinished, CoordAlive
        <3>2. CASE q = p /\ ~Restore(p)
            <4>1. mode'[p] \in {"up", "stopping", "released"} =>
                      mode[p] \in {"up", "stopping", "released"}
                BY <1>0, <1>2, <2>1, <3>2 DEF OtherMoves, ProcessStep, Start, StopJoined,
                   StopTimedOut, Released, Shutdown, IdleExit, Stopping, Leaves,
                   HandlerStep, Requests, CancelLook, CancelMark, HandlerEmitter, HandlerEmit,
                   Enqueue, Submit, Cancel, Resume, Accept
            <4> QED BY <1>2, <2>1, <3>2, <4>1 DEF Unfinished, CoordAlive
        <3> QED BY <3>1, <3>2
    <2>2. CASE coord' = [coord EXCEPT ![p] = IdleCoord] /\ Leaves(p)
        <3>1. mode' = [mode EXCEPT ![p] = "down"]
            BY <2>2 DEF Leaves, Exit, Crash, Gone
        <3> QED BY <1>0, <1>2, <2>2, <3>1 DEF Unfinished, CoordAlive
    <2> QED BY <1>2, <2>1, <2>2, OtherShape
<1>3. ASSUME NEW p \in Proc, Restore(p), NEW q \in Proc \ {p}
      PROVE  ~Unfinished(q)
    <2>1. lock = p
        BY <1>3 DEF Restore, ProcInv, LockIsHeld
    <2>2. mode[q] \notin {"up", "stopping"}
        BY <2>1 DEF ProcInv, LockIsHeld
    <2>3. ~(mode[q] = "released" /\ Unfinished(q))
        BY <1>0, <2>1 DEF Alone
    <2> QED BY <2>2, <2>3 DEF Unfinished, CoordAlive
<1>4. CASE UNCHANGED vars
    BY <1>4 DEF vars, procVars, OneActive, Unfinished, CoordAlive
<1>5. ASSUME NEW p \in Proc, CoordMoves(p) \/ OtherMoves(p) PROVE OneActive'
    <2> SUFFICES ASSUME NEW q1 \in Proc, NEW q2 \in Proc, Unfinished(q1)', Unfinished(q2)'
                 PROVE  q1 = q2
        BY DEF OneActive
    <2>1. CASE Unfinished(q1) /\ Unfinished(q2)
        BY <2>1 DEF OneActive
    <2>2. CASE ~Unfinished(q1) \/ ~Unfinished(q2)
        <3>1. Restore(p)
            BY <1>1, <1>2, <1>5, <2>2
        <3>2. \A q \in Proc : Unfinished(q)' => q = p
            <4>1. OtherMoves(p)
                BY <3>1 DEF OtherMoves, ProcessStep
            <4> QED BY <1>2, <1>3, <3>1, <4>1
        <3> QED BY <3>2
    <2> QED BY <2>1, <2>2
<1> QED BY <1>4, <1>5, NextMoves

LEMMA RunningStaysInHand ==
    ASSUME TypeOK, ProcInv, Alone, RunningInHand, [Next]_vars
    PROVE  RunningInHand'
<1>0. /\ mode \in [Proc -> Mode] /\ coord \in [Proc -> CoordRecord] /\ jobs \in [Job -> Row]
      /\ NoProc \notin Proc
    BY WorkerAssumption DEF TypeOK, ProcTypeOK, CoordTypeOK, StoreTypeOK, JobsTypeOK
<1>1. ASSUME NEW p \in Proc, CoordMoves(p) PROVE RunningInHand'
    <2>1. PICK c : coord' = [coord EXCEPT ![p] = c] /\ RowStep(p, coord[p], c)
        BY <1>1, CoordShape
    <2>2. lock' = lock
        BY <1>1, CoordShape
    <2> DEFINE r == coord[p]
    <2> SUFFICES ASSUME lock # NoProc, NEW j \in Job, jobs'[j].status = "running"
                 PROVE  \E q \in Proc : coord'[q].job = j /\ coord'[q].pc \in Runner
        BY <2>2 DEF RunningInHand
    <2>3. CASE r.pc = "claim" /\ c.pc = "claimed" /\ c.job = j
        BY <1>0, <2>1, <2>3 DEF Runner
    <2>4. CASE ~(r.pc = "claim" /\ c.pc = "claimed" /\ c.job = j)
        <3>1. \/ jobs'[j] = jobs[j]
              \/ WritesRow(p, r, c) /\ j = r.job
            <4>1. UNCHANGED jobs \/ WritesRow(p, r, c)
                BY <2>1 DEF RowStep
            <4>2. WritesRow(p, r, c) /\ j # r.job => jobs'[j] = jobs[j]
                BY <1>0 DEF WritesRow, MarkRunning, MarkCancelled, FailJob, CompleteJob
            <4> QED BY <4>1, <4>2
        <3>2. ~(WritesRow(p, r, c) /\ j = r.job)
            <4> SUFFICES ASSUME WritesRow(p, r, c), j = r.job PROVE FALSE
                OBVIOUS
            <4>1. CASE MarkCancelled(j)
                BY <1>0, <4>1 DEF MarkCancelled, Row
            <4>2. CASE \E result \in Result : FailJob(j, result)
                BY <1>0, <4>2 DEF FailJob, Row
            <4>3. CASE CompleteJob(j, "reported")
                BY <1>0, <4>3 DEF CompleteJob
            <4> QED BY <2>4, <4>1, <4>2, <4>3 DEF WritesRow
        <3>3. PICK q \in Proc : coord[q].job = j /\ coord[q].pc \in Runner
            BY <3>1, <3>2 DEF RunningInHand
        <3>4. CASE q # p
            BY <1>0, <2>1, <3>3, <3>4
        <3>5. CASE q = p
            <4>1. c.job = j /\ c.pc \in Runner
                BY <2>1, <3>2, <3>3, <3>5
                   DEF RowStep, Passes, Same, WritesRow, WritesFile, Looks, Runner, Engine
            <4> QED BY <1>0, <2>1, <4>1
        <3> QED BY <3>4, <3>5
    <2> QED BY <2>3, <2>4
<1>2. ASSUME NEW p \in Proc, OtherMoves(p) PROVE RunningInHand'
    <2>1. Gentle
        BY <1>2, OtherShape
    <2>2. CASE Start(p)
        <3>1. \A j \in Job : jobs'[j].status # "running"
            BY <1>0, <2>2 DEF Start, RecoverInterruptedJobs, Row
        <3> QED BY <3>1 DEF RunningInHand
    <2>3. CASE Crash(p)
        <3>1. lock' = NoProc
            BY <1>0, <2>3 DEF Crash, Gone, ProcInv, LockIsHeld
        <3> QED BY <3>1 DEF RunningInHand
    <2>4. CASE Exit(p)
        <3> SUFFICES ASSUME lock' # NoProc, NEW j \in Job, jobs'[j].status = "running"
                     PROVE  \E q \in Proc : coord'[q].job = j /\ coord'[q].pc \in Runner
            BY DEF RunningInHand
        <3>1. /\ lock' = lock /\ mode[p] = "released" /\ UNCHANGED jobs
              /\ coord' = [coord EXCEPT ![p] = IdleCoord]
            BY <2>4 DEF Exit, Gone, ProcInv, LockIsHeld, storeVars
        <3>2. PICK q \in Proc : coord[q].job = j /\ coord[q].pc \in Runner
            BY <3>1 DEF RunningInHand
        <3>3. ~Unfinished(p)
            BY <3>1 DEF Alone
        <3>4. q # p
            BY <3>2, <3>3, UnsettledIsUnfinished DEF Unsettled
        <3> QED BY <1>0, <3>1, <3>2, <3>4
    <2>5. CASE ~Start(p) /\ ~Leaves(p)
        <3>1. coord' = coord
            BY <1>2, <2>5, OtherShape
        <3>2. lock' = lock \/ lock' = NoProc
            BY <1>2, <2>5 DEF OtherMoves, ProcessStep, Restore, StopJoined, Leaves,
                   StopTimedOut, Released, Shutdown, IdleExit, Stopping,
                   HandlerStep, Requests, CancelLook, CancelMark, HandlerEmitter, HandlerEmit,
                   Enqueue, Submit, Cancel, Resume, Accept
        <3> QED BY <2>1, <3>1, <3>2 DEF RunningInHand, Gentle
    <2> QED BY <2>2, <2>3, <2>4, <2>5 DEF Leaves
<1>3. CASE UNCHANGED vars
    BY <1>3 DEF vars, storeVars, procVars, RunningInHand
<1> QED BY <1>1, <1>2, <1>3, NextMoves

\* The step of a thread keeps what it and the others rely on.
LEMMA CoordKeepsRows ==
    ASSUME IInv, ProcInv, OneActive, RowsSound, CompleteHasReport,
           [Next]_vars, NEW p \in Proc, CoordMoves(p)
    PROVE  RowsSound' /\ CompleteHasReport'
<1> DEFINE r == coord[p]
           j == coord[p].job
<1>0. /\ coord \in [Proc -> CoordRecord] /\ jobs \in [Job -> Row]
      /\ artifacts \in [Job -> [Format -> Nat]] /\ TypeOK
    BY DEF IInv, TypeOK, CoordTypeOK, StoreTypeOK, JobsTypeOK
<1>1. PICK c : coord' = [coord EXCEPT ![p] = c] /\ RowStep(p, r, c)
    BY <1>0, CoordShape
<1>stay. \A k \in Job : HasReport(k) => HasReport(k)'
    BY ReportsStay
<1>typed. ASSUME NEW q \in Proc, coord[q].pc \in Unsettled PROVE coord[q].job \in Job
    <2>1. coord[q].pc \notin {"get", "exited", "dead"}
        BY <1>typed DEF Unsettled, Runner, Engine
    <2> QED BY <2>1 DEF IInv, TypeOK, CoordTypeOK
<1>writes. ASSUME WritesRow(p, r, c) \/ WritesFile(p, r, c)
           PROVE  /\ r.pc \in Unsettled /\ j \in Job
                  /\ jobs[j].status \notin {"complete", "absent"}
                  /\ \A q \in Proc \ {p} : coord[q].pc \notin Unsettled
    <2>1. r.pc \in Unsettled
        BY <1>writes DEF WritesRow, WritesFile, Unsettled, Runner, Engine
    <2>2. \A q \in Proc \ {p} : coord[q].pc \notin Unsettled
        BY <1>0, <2>1, UnsettledIsUnfinished DEF OneActive
    <2> QED BY <2>1, <2>2, <1>typed DEF RowsSound, RowSound
<1>2. ASSUME NEW q \in Proc \ {p} PROVE RowSound(q)'
    <2>1. coord'[q] = coord[q]
        BY <1>0, <1>1
    <2>2. CASE coord[q].pc \in Unsettled
        <3>1. UNCHANGED <<jobs, artifacts>>
            BY <1>1, <1>writes, <2>2 DEF RowStep
        <3> QED BY <1>stay, <1>typed, <2>1, <2>2, <3>1 DEF RowsSound, RowSound
    <2>3. CASE coord[q].pc \notin Unsettled
        BY <2>1, <2>3 DEF RowSound, Unsettled, Runner, Engine
    <2> QED BY <2>2, <2>3
<1>3. RowSound(p)'
    <2>0. coord'[p] = c /\ RowSound(p)
        BY <1>0, <1>1 DEF RowsSound
    <2>1. CASE Passes(r.pc, c.pc) /\ Same(r, c) /\ UNCHANGED <<jobs, artifacts, queue>>
        <3>1. /\ c.pc \in Unsettled => r.pc \in Unsettled
              /\ c.pc \in Engine \cup {"claimed"} => r.pc \in Engine \cup {"claimed"}
              /\ c.pc \in {"writeRest", "reportEvent", "complete"} => r.pc = c.pc
            BY <2>1 DEF Passes, Unsettled, Runner, Engine
        <3>2. c.pc \in Unsettled => j \in Job
            BY <3>1, <1>typed
        <3>3. ASSUME c.pc = "complete" PROVE HasReport(c.job)'
            <4>1. c.job = j /\ j \in Job /\ r.pc = "complete"
                BY <2>1, <3>1, <3>2, <3>3 DEF Same, Unsettled, Runner, Engine
            <4>2. HasReport(c.job)
                BY <2>0, <4>1 DEF RowSound
            <4> QED BY <1>stay, <4>1, <4>2
        <3> QED BY <2>0, <2>1, <3>1, <3>3 DEF RowSound, Same, HasReport
    <2>2. CASE WritesRow(p, r, c)
        <3>0. j \in Job /\ jobs[j] \in Row /\ jobs[j].status \notin {"complete", "absent"}
            BY <1>0, <1>writes, <2>2
        <3>1. CASE c.pc = "claimed"
            <4>1. /\ c.job = j /\ c.attempt = jobs[j].attempt + 1 /\ MarkRunning(j)
                BY <2>2, <3>1 DEF WritesRow
            <4>2. jobs'[j].status = "running" /\ jobs'[j].attempt = c.attempt
                BY <1>0, <3>0, <4>1 DEF MarkRunning
            <4> QED BY <2>0, <3>1, <4>1, <4>2 DEF RowSound, Engine
        <3>2. CASE c.pc = "preCancelEvent"
            <4>1. c.job = j /\ MarkCancelled(j)
                BY <2>2, <3>2 DEF WritesRow, Same
            <4>2. jobs'[j].status = "cancelled"
                BY <1>0, <3>0, <4>1 DEF MarkCancelled, Row
            <4> QED BY <2>0, <3>2, <4>1, <4>2 DEF RowSound, Engine
        <3>3. CASE c.pc \notin {"claimed", "preCancelEvent"}
            <4>1. c.pc \notin Unsettled
                BY <2>2, <3>3 DEF WritesRow, Unsettled, Runner, Engine
            <4> QED BY <2>0, <4>1 DEF RowSound, Unsettled, Runner, Engine
        <3> QED BY <3>1, <3>2, <3>3
    <2>3. CASE WritesFile(p, r, c) /\ UNCHANGED <<jobs, queue>>
        <3>0. j \in Job /\ artifacts[j] \in [Format -> Nat]
            BY <1>0, <1>writes, <2>3
        <3>1. CASE c.pc = "writeRest"
            <4>1. r.pc = "writeJson" /\ Same(r, c) /\ WriteArtifact(j, "json", r.attempt)
                BY <2>3, <3>1 DEF WritesFile
            <4>2. artifacts'[j]["json"] = r.attempt
                BY <1>0, <3>0, <4>1 DEF WriteArtifact, Format
            <4> QED BY <2>0, <2>3, <3>1, <4>1, <4>2
                    DEF RowSound, Same, Unsettled, Runner, Engine
        <3>2. CASE c.pc = "reportEvent"
            <4>1. r.pc = "writeRest" /\ Same(r, c) /\ WriteArtifact(j, "rendered", r.attempt)
                BY <2>3, <3>2 DEF WritesFile
            <4>2. /\ artifacts'[j]["rendered"] = r.attempt
                  /\ artifacts'[j]["json"] = artifacts[j]["json"]
                BY <1>0, <3>0, <4>1 DEF WriteArtifact, Format
            <4> QED BY <2>0, <2>3, <3>2, <4>1, <4>2
                    DEF RowSound, Same, Unsettled, Runner, Engine
        <3> QED BY <2>3, <3>1, <3>2 DEF WritesFile
    <2>4. CASE Looks(p, r, c) /\ UNCHANGED <<jobs, artifacts>>
        <3>1. CASE c.pc = "emitter"
            <4>1. c.job = j /\ jobs[j].status = "queued"
                BY <2>4, <3>1 DEF Looks, Same
            <4> QED BY <2>0, <2>4, <3>1, <4>1 DEF RowSound, Engine
        <3>2. CASE c.pc = "complete"
            <4>1. r.pc = "reportEvent" /\ Same(r, c) /\ HasReport(c.job)'
                BY <2>4, <3>2 DEF Looks
            <4> QED BY <2>0, <2>4, <3>2, <4>1
                    DEF RowSound, Same, Unsettled, Runner, Engine, HasReport
        <3>3. CASE c.pc \notin {"emitter", "complete"}
            <4>1. c.pc \notin Unsettled
                BY <2>4, <3>3 DEF Looks, Unsettled, Runner, Engine
            <4> QED BY <2>0, <4>1 DEF RowSound, Unsettled, Runner, Engine
        <3> QED BY <3>1, <3>2, <3>3
    <2> QED BY <1>1, <2>1, <2>2, <2>3, <2>4 DEF RowStep
<1>4. CompleteHasReport'
    <2> SUFFICES ASSUME NEW k \in Job, jobs'[k].status = "complete"
                 PROVE  /\ jobs'[k].report
                        /\ \A f \in Format : artifacts'[k][f] = jobs'[k].attempt
                        /\ HasReport(k)'
        BY DEF CompleteHasReport, HasReport
    <2>1. CASE k = j /\ WritesRow(p, r, c)
        <3>0. jobs[k] \in Row
            BY <1>0
        <3>1. r.pc = "complete" /\ CompleteJob(k, "reported") /\ UNCHANGED artifacts
            <4>1. ~MarkRunning(k) /\ ~MarkCancelled(k)
                BY <1>0, <3>0 DEF MarkRunning, MarkCancelled, Row
            <4>2. ~\E result \in Result : FailJob(k, result)
                BY <1>0, <3>0 DEF FailJob, Row
            <4>3. UNCHANGED artifacts
                BY <1>1, <2>1 DEF RowStep, WritesRow, WritesFile, Passes, Looks, Engine
            <4> QED BY <2>1, <4>1, <4>2, <4>3 DEF WritesRow
        <3>2. jobs'[k].report /\ jobs'[k].attempt = jobs[k].attempt
            BY <1>0, <3>1 DEF CompleteJob
        <3>3. /\ artifacts[k]["json"] = jobs[k].attempt
              /\ artifacts[k]["rendered"] = jobs[k].attempt
              /\ HasReport(k)
            BY <2>1, <3>1 DEF RowsSound, RowSound, Engine
        <3> QED BY <1>stay, <3>1, <3>2, <3>3 DEF Format
    <2>2. CASE ~(k = j /\ WritesRow(p, r, c))
        <3>1. jobs'[k] = jobs[k]
            <4>1. UNCHANGED jobs \/ (WritesRow(p, r, c) /\ k # j)
                BY <1>1, <2>2 DEF RowStep
            <4> QED BY <1>0, <4>1
                    DEF WritesRow, MarkRunning, MarkCancelled, FailJob, CompleteJob
        <3>2. artifacts'[k] = artifacts[k]
            <4>1. UNCHANGED artifacts \/ WritesFile(p, r, c)
                BY <1>1 DEF RowStep
            <4>2. CASE WritesFile(p, r, c)
                <5>1. k # j
                    BY <1>writes, <3>1, <4>2
                <5> QED BY <1>0, <4>2, <5>1 DEF WritesFile, WriteArtifact
            <4> QED BY <4>1, <4>2
        <3> QED BY <1>stay, <3>1, <3>2 DEF CompleteHasReport, HasReport
    <2> QED BY <2>1, <2>2
<1> QED BY <1>2, <1>3, <1>4 DEF RowsSound

\* So does the step of anybody else.
LEMMA OthersKeepRows ==
    ASSUME IInv, ProcInv, RowsSound, CompleteHasReport,
           [Next]_vars, NEW p \in Proc, OtherMoves(p)
    PROVE  RowsSound' /\ CompleteHasReport'
<1>0. coord \in [Proc -> CoordRecord] /\ TypeOK
    BY DEF IInv, TypeOK, CoordTypeOK
<1>1. /\ Gentle /\ UNCHANGED artifacts
      /\ coord' = coord \/ coord' = [coord EXCEPT ![p] = IdleCoord]
    BY <1>0, OtherShape
<1>stay. \A k \in Job : HasReport(k) => HasReport(k)'
    BY ReportsStay
<1>2. ASSUME NEW q \in Proc PROVE RowSound(q)'
    <2>1. CASE coord'[q] = coord[q] /\ coord[q].pc \in Unsettled
        <3>1. coord[q].job \in Job
            <4>1. coord[q].pc \notin {"get", "exited", "dead"}
                BY <2>1 DEF Unsettled, Runner, Engine
            <4> QED BY <4>1 DEF IInv, TypeOK, CoordTypeOK
        <3> QED BY <1>1, <1>stay, <2>1, <3>1
                DEF RowsSound, RowSound, Gentle, Unsettled, Runner, Engine
    <2>2. CASE coord'[q].pc \notin Unsettled
        BY <2>2 DEF RowSound, Unsettled, Runner, Engine
    <2>3. IdleCoord.pc \notin Unsettled
        BY DEF IdleCoord, Unsettled, Runner, Engine
    <2> QED BY <1>0, <1>1, <2>1, <2>2, <2>3
<1>3. CompleteHasReport'
    BY <1>1, <1>stay DEF CompleteHasReport, HasReport, Gentle
<1> QED BY <1>2, <1>3 DEF RowsSound

LEMMA NextKeepsRowInv == IInv /\ ProcInv /\ Alone /\ RowInv /\ [Next]_vars => RowInv'
<1> SUFFICES ASSUME IInv, ProcInv, Alone, RowInv, [Next]_vars PROVE RowInv'
    OBVIOUS
<1> USE DEF RowInv
<1>0. TypeOK
    BY DEF IInv
<1>1. OneActive' /\ RunningInHand'
    BY <1>0, StaysAlone, RunningStaysInHand
<1>2. CASE UNCHANGED vars
    <2>1. UNCHANGED <<jobs, artifacts, events, coord>>
        BY <1>2 DEF vars, storeVars, procVars
    <2>2. ASSUME NEW p \in Proc PROVE RowSound(p)'
        <3>1. RowSound(p)
            BY DEF RowsSound
        <3> QED BY <2>1, <3>1 DEF RowSound, HasReport
    <2>3. CompleteHasReport'
        BY <2>1 DEF CompleteHasReport
    <2> QED BY <1>1, <2>2, <2>3 DEF RowsSound
<1>3. RowsSound' /\ CompleteHasReport'
    BY <1>2, NextMoves, CoordKeepsRows, OthersKeepRows
<1> QED BY <1>1, <1>3

-----------------------------------------------------------------------------
(* What follows, as long as no thread outlives its join into the service of *)
(* the next worker.                                                         *)

\* The rows of the jobs and the threads that work on them agree.
THEOREM RowInvariant == Spec /\ []Alone => []RowInv
<1>1. Init => RowInv
    BY DEF Init, StoreInit, Absent, IdleCoord, RowInv, OneActive, Unfinished, CoordAlive,
           RunningInHand, RowsSound, RowSound, CompleteHasReport, Unsettled, Runner, Engine
<1> QED BY <1>1, NextKeepsRowInv, InductiveInvariant, ProcInvariant, PTL DEF Spec

\* A complete job has its report event and all its files, each written by the
\* attempt that the row counts (write_report, complete_job).
THEOREM CompleteJobsHaveReports == Spec /\ []Alone => []CompleteHasReport
<1>1. RowInv => CompleteHasReport
    BY DEF RowInv
<1> QED BY <1>1, RowInvariant, PTL

\* While the lock is held, every running job is in the hands of a thread
\* (recover_interrupted_jobs, JobCoordinator._run).
THEOREM RunningJobsHaveRunners == Spec /\ []Alone => []RunningHasRunner
<1>1. TypeOK /\ ProcInv /\ RowInv => RunningHasRunner
    <2> SUFFICES ASSUME TypeOK, ProcInv, RowInv, lock # NoProc, NEW j \in Job,
                        jobs[j].status = "running"
                 PROVE  \E p \in Proc : Executes(p, j)
                                        \/ (coord[p].job = j /\ coord[p].pc = "crashFail")
        BY DEF RunningHasRunner
    <2>1. PICK p \in Proc : coord[p].job = j /\ coord[p].pc \in Runner
        BY DEF RowInv, RunningInHand
    <2>2. CoordAlive(p)
        BY <2>1, UnsettledIsUnfinished DEF Unsettled, Unfinished
    <2> QED BY <2>1, <2>2 DEF Executes, Executing, Runner
<1> QED BY <1>1, TypeCorrect, ProcInvariant, RowInvariant, PTL

\* A row leaves "complete" only by the hand of a cancel request that read it
\* while it was queued (worker.py:385).
THEOREM CompleteJobsStay == Spec /\ []Alone => CompleteStays
<1> DEFINE Stays ==
        \A j \in Job :
            (jobs[j].status = "complete" /\ jobs'[j].status # "complete") =>
                /\ jobs'[j].status = "cancelled"
                /\ \E p \in Proc : main[p].pc = "mark" /\ main[p].job = j
<1>1. IInv /\ ProcInv /\ RowInv /\ [Next]_vars => Stays
    <2> SUFFICES ASSUME IInv, RowInv, [Next]_vars, NEW j \in Job,
                        jobs[j].status = "complete", jobs'[j].status # "complete"
                 PROVE  /\ jobs'[j].status = "cancelled"
                        /\ \E p \in Proc : main[p].pc = "mark" /\ main[p].job = j
        OBVIOUS
    <2>0. jobs \in [Job -> Row] /\ TypeOK
        BY DEF IInv, TypeOK, StoreTypeOK, JobsTypeOK
    <2>1. ASSUME NEW p \in Proc, CoordMoves(p) PROVE FALSE
        <3>1. PICK c : RowStep(p, coord[p], c)
            BY <2>0, <2>1, CoordShape
        <3>2. WritesRow(p, coord[p], c)
            BY <3>1 DEF RowStep
        <3>3. j = coord[p].job
            BY <2>0, <3>2 DEF WritesRow, MarkRunning, MarkCancelled, FailJob, CompleteJob
        <3>4. coord[p].pc \in Unsettled
            BY <3>2 DEF WritesRow, Unsettled, Runner, Engine
        <3> QED BY <3>3, <3>4 DEF RowInv, RowsSound, RowSound
    <2>2. ASSUME NEW p \in Proc, OtherMoves(p), ~CancelMark(p) PROVE FALSE
        <3>1. CASE Requests(p)
            BY <2>0, <3>1 DEF Requests, Submit, Cancel, Resume, CreateJob, RequestCancel,
                              ResumeJob, Resumable, Cancellable, Row
        <3>2. CASE Start(p)
            BY <2>0, <3>2 DEF Start, RecoverInterruptedJobs
        <3>3. CASE ~Requests(p) /\ ~Start(p)
            BY <2>2, <3>3 DEF OtherMoves, ProcessStep, Restore, StopJoined, StopTimedOut,
               Released, Shutdown, IdleExit, Exit, Crash, Gone, HandlerStep, CancelLook,
               HandlerEmitter, HandlerEmit, Enqueue, storeVars
        <3> QED BY <3>1, <3>2, <3>3
    <2>3. PICK p \in Proc : CancelMark(p)
        <3>1. ~UNCHANGED vars
            BY DEF vars, storeVars
        <3> QED BY <2>1, <2>2, <3>1, NextMoves
    <2>4. main[p].job = j
        BY <2>0, <2>3 DEF CancelMark, MarkCancelled
    <2>5. jobs'[j].status = "cancelled"
        BY <2>0, <2>3, <2>4 DEF CancelMark, MarkCancelled, Row
    <2> QED BY <2>3, <2>4, <2>5 DEF CancelMark
<1>2. CompleteStays <=> [][Stays]_vars
    BY DEF CompleteStays
<1> HIDE DEF Stays
<1> QED BY <1>1, <1>2, InductiveInvariant, ProcInvariant, RowInvariant, PTL DEF Spec

-----------------------------------------------------------------------------
(* When the premise holds.                                                  *)

\* It does as long as every coordinator ends within its join ...
THEOREM AloneWhenJoined ==
    Spec /\ [][\A p \in Proc : ~StopTimedOut(p)]_vars => []Alone
<1> DEFINE Joined == \A p \in Proc : mode[p] = "released" => ~Unfinished(p)
           InTime == \A p \in Proc : ~StopTimedOut(p)
<1>1. Init => Joined
    BY DEF Init
<1>2. TypeOK /\ Joined /\ [Next]_vars /\ [InTime]_vars => Joined'
    <2> SUFFICES ASSUME TypeOK, Joined, [Next]_vars, [InTime]_vars,
                        NEW q \in Proc, mode'[q] = "released"
                 PROVE  coord'[q].pc \in {"exited", "dead"}
        BY DEF Unfinished
    <2>0. mode \in [Proc -> Mode] /\ coord \in [Proc -> CoordRecord]
        BY DEF TypeOK, ProcTypeOK, CoordTypeOK
    <2>1. mode[q] = "released" => coord[q].pc \in {"exited", "dead"}
        BY DEF Unfinished, CoordAlive
    <2>2. CASE UNCHANGED vars
        BY <2>1, <2>2 DEF vars, procVars
    <2>3. ASSUME NEW p \in Proc, CoordMoves(p)
          PROVE  coord'[q].pc \in {"exited", "dead"}
        <3>1. PICK c : coord' = [coord EXCEPT ![p] = c] /\ RowStep(p, coord[p], c)
            BY <2>3, CoordShape
        <3>2. mode' = mode
            BY <2>3, CoordShape
        <3>3. coord[p].pc \in {"exited", "dead"} => c.pc \in {"exited", "dead"}
            BY <3>1 DEF RowStep, Passes, WritesRow, WritesFile, Looks, Engine
        <3> QED BY <2>0, <2>1, <3>1, <3>2, <3>3
    <2>4. ASSUME NEW p \in Proc, OtherMoves(p), ~UNCHANGED vars
          PROVE  coord'[q].pc \in {"exited", "dead"}
        <3>1. ~StopTimedOut(p)
            BY <2>4
        <3>2. CASE StopJoined(p) /\ q = p
            BY <3>2 DEF StopJoined, Released
        <3>3. CASE ~(StopJoined(p) /\ q = p)
            <4>1. mode[q] = "released"
                BY <2>0, <2>4, <3>1, <3>3 DEF OtherMoves, ProcessStep, Start, Restore,
                   StopJoined, Released, Shutdown, IdleExit, Stopping, Exit, Crash, Gone,
                   HandlerStep, Requests, CancelLook, CancelMark, HandlerEmitter,
                   HandlerEmit, Enqueue, Submit, Cancel, Resume, Accept
            <4>2. coord'[q] = coord[q]
                <5>1. Leaves(p) => mode'[p] = "down"
                    BY <2>0 DEF Leaves, Exit, Crash, Gone
                <5>2. coord' = coord \/ (q # p /\ coord' = [coord EXCEPT ![p] = IdleCoord])
                    BY <2>4, <5>1, OtherShape
                <5> QED BY <2>0, <5>2
            <4> QED BY <2>1, <4>1, <4>2
        <3> QED BY <3>2, <3>3
    <2> QED BY <2>2, <2>3, <2>4, NextMoves
<1>3. Joined => Alone
    BY DEF Alone
<1> HIDE DEF Joined, InTime
<1>4. Spec /\ [][InTime]_vars => []Joined
    BY <1>1, <1>2, TypeCorrect, PTL DEF Spec
<1> QED BY <1>3, <1>4, PTL DEF InTime

\* ... and always when a state directory has one process at a time.
THEOREM AloneByItself ==
    ASSUME NEW p, Proc = {p}
    PROVE  Spec => []Alone
<1>1. TypeOK /\ ProcInv => Alone
    BY DEF Alone, ProcInv, LockIsHeld, TypeOK, ProcTypeOK
<1> QED BY <1>1, TypeCorrect, ProcInvariant, PTL

\* With one process to a state directory no premise is left: its crashes, restarts
\* and joins that time out never part a row from the thread that settles it, nor a
\* complete job from its report.
THEOREM OneProcessKeepsRows ==
    ASSUME NEW p, Proc = {p}
    PROVE  Spec => [](CompleteHasReport /\ RunningHasRunner)
<1>1. Spec => []Alone
    BY AloneByItself
<1> QED BY <1>1, CompleteJobsHaveReports, RunningJobsHaveRunners, PTL

-----------------------------------------------------------------------------
(* No queued job is stranded.                                               *)

\* No thread and no queue names a job that has no row.
RowsKnown ==
    \A p \in Proc :
        /\ coord[p].job \in Job => jobs[coord[p].job].status # "absent"
        /\ main[p].job \in Job => jobs[main[p].job].status # "absent"
        /\ \A i \in DOMAIN queue[p] : jobs[queue[p][i]].status # "absent"

\* list_jobs knows every row.
Listed == \A j \in Job : jobs[j].status # "absent" => \E i \in DOMAIN order : order[i] = j

\* The request thread is at rest between requests, and enqueues only what it made
\* a queued row of.
HandlerRests ==
    \A p \in Proc :
        /\ main[p].pc = "idle" => main[p].op = "none"
        /\ main[p].pc \in {"look", "mark"} => main[p].op = "cancelled"
        /\ main[p].pc = "enqueue" => main[p].op # "cancelled"

\* The store has no more rows than the coordinator asks for.
Few == Len(order) <= ListLimit

QueueInv == RowsKnown /\ Listed /\ HandlerRests /\ NoStrandedQueuedJob

\* What is left of a queue was in it.
LEMMA TailOf ==
    ASSUME NEW S, NEW s \in Seq(S), s # <<>>
    PROVE  /\ Tail(s) \in Seq(S) /\ Head(s) = s[1] /\ 1 \in DOMAIN s
           /\ \A i \in DOMAIN Tail(s) : i + 1 \in DOMAIN s /\ Tail(s)[i] = s[i + 1]
           /\ \A i \in DOMAIN s : i # 1 => i - 1 \in DOMAIN Tail(s) /\ Tail(s)[i - 1] = s[i]
<1>1. Len(s) \in Nat /\ Len(s) >= 1 /\ DOMAIN s = 1..Len(s)
    OBVIOUS
<1>2. Tail(s) \in Seq(S) /\ Len(Tail(s)) = Len(s) - 1 /\ DOMAIN Tail(s) = 1..(Len(s) - 1)
    BY <1>1
<1>3. \A i \in 1..(Len(s) - 1) : Tail(s)[i] = s[i + 1]
    BY <1>1
<1> QED BY <1>1, <1>2, <1>3

\* What a step of the job thread does to the rows.
LEMMA CoordKeepsRowsKnown ==
    ASSUME TypeOK, RowsKnown, NEW p \in Proc, CoordMoves(p)
    PROVE  /\ RowsKnown'
           /\ \A j \in Job : /\ jobs'[j].status = "absent" <=> jobs[j].status = "absent"
                             /\ jobs'[j].status = "queued" => jobs[j].status = "queued"
<1> DEFINE r == coord[p]
<1>0. /\ coord \in [Proc -> CoordRecord] /\ jobs \in [Job -> Row] /\ NoJob \notin Job
      /\ queue \in [Proc -> Seq(Job)] /\ main \in [Proc -> MainRecord]
    BY WorkerAssumption DEF TypeOK, CoordTypeOK, StoreTypeOK, JobsTypeOK, ProcTypeOK, MainTypeOK
<1>1. PICK c : coord' = [coord EXCEPT ![p] = c] /\ RowStep(p, r, c)
    BY CoordShape
<1>2. main' = main
    BY CoordShape
<1>3. r.pc \notin {"get", "exited", "dead"} => r.job \in Job
    BY DEF TypeOK, CoordTypeOK
<1>4. ASSUME NEW j \in Job
      PROVE  /\ jobs'[j].status = "absent" <=> jobs[j].status = "absent"
             /\ jobs'[j].status = "queued" => jobs[j].status = "queued"
    <2>1. CASE ~WritesRow(p, r, c) \/ j # r.job
        <3>1. jobs'[j] = jobs[j]
            BY <1>0, <1>1, <2>1 DEF RowStep, WritesRow, MarkRunning, MarkCancelled, FailJob,
                                    CompleteJob
        <3> QED BY <3>1
    <2>2. CASE WritesRow(p, r, c) /\ j = r.job
        <3>1. jobs[j].status # "absent" /\ jobs[j] \in Row
            BY <1>0, <2>2 DEF RowsKnown
        <3>2. jobs'[j].status \in {"running", "cancelled", "failed", "complete"}
            <4>1. MarkRunning(j) => jobs'[j].status = "running"
                BY <1>0 DEF MarkRunning
            <4>2. MarkCancelled(j) => jobs'[j].status = "cancelled"
                BY <1>0, <3>1 DEF MarkCancelled, Row
            <4>3. ASSUME NEW result, FailJob(j, result) PROVE jobs'[j].status = "failed"
                BY <1>0, <3>1, <4>3 DEF FailJob, Row
            <4>4. CompleteJob(j, "reported") => jobs'[j].status = "complete"
                BY <1>0 DEF CompleteJob
            <4> QED BY <2>2, <4>1, <4>2, <4>3, <4>4 DEF WritesRow
        <3> QED BY <3>1, <3>2
    <2> QED BY <2>1, <2>2
<1>5. \A q \in Proc : \A i \in DOMAIN (queue'[q]) : jobs[queue'[q][i]].status # "absent"
    <2>1. CASE queue' = queue
        BY <2>1 DEF RowsKnown
    <2>2. CASE queue[p] # <<>> /\ queue' = [queue EXCEPT ![p] = Tail(queue[p])]
        <3> SUFFICES ASSUME NEW q \in Proc, NEW i \in DOMAIN (queue'[q])
                     PROVE  jobs[queue'[q][i]].status # "absent"
            OBVIOUS
        <3>1. CASE q = p
            <4>1. queue[p] \in Seq(Job) /\ queue'[q] = Tail(queue[p])
                BY <1>0, <2>2, <3>1
            <4>2. \A k \in DOMAIN Tail(queue[p]) :
                      k + 1 \in DOMAIN queue[p] /\ Tail(queue[p])[k] = queue[p][k + 1]
                BY <2>2, <4>1, TailOf
            <4>3. i \in DOMAIN Tail(queue[p])
                BY <4>1
            <4> QED BY <4>1, <4>2, <4>3 DEF RowsKnown
        <3>2. CASE q # p
            BY <1>0, <2>2, <3>2 DEF RowsKnown
        <3> QED BY <3>1, <3>2
    <2> QED BY <1>1, <2>1, <2>2 DEF RowStep, Looks
<1>6. c.job \in Job => jobs[c.job].status # "absent"
    <2>1. c.job = r.job \/ c.job = NoJob \/ (queue[p] # <<>> /\ c.job = Head(queue[p]))
        BY <1>1 DEF RowStep, WritesRow, WritesFile, Looks, Same
    <2>2. queue[p] # <<>> => 1 \in DOMAIN queue[p] /\ Head(queue[p]) = queue[p][1]
        BY <1>0
    <2> QED BY <1>0, <2>1, <2>2 DEF RowsKnown
<1>7. RowsKnown'
    <2>1. ASSUME NEW q \in Proc
          PROVE  /\ coord'[q].job \in Job => jobs'[coord'[q].job].status # "absent"
                 /\ main'[q].job \in Job => jobs'[main'[q].job].status # "absent"
        BY <1>0, <1>1, <1>2, <1>4, <1>6 DEF RowsKnown
    <2>2. ASSUME NEW q \in Proc, NEW i \in DOMAIN (queue'[q])
          PROVE  jobs'[queue'[q][i]].status # "absent"
        <3>1. queue'[q] \in Seq(Job)
            <4>1. \/ queue' = queue
                  \/ queue[p] # <<>> /\ queue' = [queue EXCEPT ![p] = Tail(queue[p])]
                BY <1>1 DEF RowStep, Looks
            <4>2. queue[p] # <<>> => Tail(queue[p]) \in Seq(Job)
                BY <1>0, TailOf
            <4> QED BY <1>0, <4>1, <4>2
        <3>2. queue'[q][i] \in Job
            BY <3>1
        <3> QED BY <1>4, <1>5, <3>2
    <2> QED BY <2>1, <2>2 DEF RowsKnown
<1> QED BY <1>4, <1>7

\* A step of the request thread: r is its state before and m its state after.
Accepts(r, m) ==
    \E j \in Job :
        /\ r.pc = "idle" /\ m.job = j
        /\ \/ /\ m.pc = "read" /\ m.op = "queue" /\ jobs[j].status = "absent"
              /\ CreateJob(j)
           \/ /\ m.pc = "look" /\ m.op = "cancelled" /\ Cancellable(j)
              /\ RequestCancel(j) /\ UNCHANGED order
           \/ /\ m.pc = "read" /\ m.op = "resume" /\ Resumable(j)
              /\ ResumeJob(j) /\ UNCHANGED order

Proceeds(r, m) ==
    /\ UNCHANGED order
    /\ m.job = r.job /\ m.op = r.op
    /\ \/ r.pc = "look" /\ m.pc = "mark" /\ UNCHANGED jobs
       \/ r.pc = "mark" /\ m.pc = "read" /\ MarkCancelled(r.job)
       \/ r.pc = "read" /\ m.pc = "emit" /\ UNCHANGED jobs
       \/ r.pc = "emit" /\ m.pc = "enqueue" /\ r.op # "cancelled" /\ UNCHANGED jobs

Ends(p, r, m) ==
    /\ UNCHANGED <<jobs, order>> /\ m = IdleMain
    /\ \/ /\ r.pc \in {"look", "emit"} /\ queue' = queue
          /\ (r.pc = "look" \/ r.op = "cancelled" \/ mode'[p] # "up")
       \/ r.pc = "enqueue" /\ queue' = [queue EXCEPT ![p] = Append(queue[p], r.job)]

LEMMA HandlerShape ==
    ASSUME TypeOK, NEW p \in Proc, HandlerStep(p) \/ Requests(p)
    PROVE  /\ \E m : /\ main' = [main EXCEPT ![p] = m]
                     /\ \/ Accepts(main[p], m) /\ queue' = queue
                        \/ Proceeds(main[p], m) /\ queue' = queue
                        \/ Ends(p, main[p], m)
           /\ mode[p] = "up" /\ coord' = coord
           /\ \A q \in Proc \ {p} : mode'[q] = mode[q]
<1> DEFINE r == main[p]
           Shape(m) == \/ Accepts(r, m) /\ queue' = queue
                       \/ Proceeds(r, m) /\ queue' = queue
                       \/ Ends(p, r, m)
<1>0. /\ main \in [Proc -> MainRecord] /\ r \in MainRecord /\ mode \in [Proc -> Mode]
      /\ r.pc # "idle" => r.job \in Job
    BY DEF TypeOK, MainTypeOK, ProcTypeOK
<1>1. /\ mode[p] = "up" /\ coord' = coord
      /\ \A q \in Proc \ {p} : mode'[q] = mode[q]
    BY <1>0 DEF HandlerStep, Requests, CancelLook, CancelMark, HandlerEmitter, HandlerEmit,
                Enqueue, Submit, Cancel, Resume, Accept, storeVars
<1>2. ASSUME NEW j \in Job, NEW op, NEW pc, Accept(p, j, op, pc)
      PROVE  \E m : /\ main' = [main EXCEPT ![p] = m] /\ r.pc = "idle" /\ queue' = queue
                    /\ m.pc = pc /\ m.op = op /\ m.job = j
    <2> DEFINE m == [pc |-> pc, op |-> op, job |-> j, seq |-> 0]
    <2>1. /\ main' = [main EXCEPT ![p] = m] /\ r.pc = "idle" /\ queue' = queue
          /\ m.pc = pc /\ m.op = op /\ m.job = j
        BY <1>2 DEF Accept
    <2> HIDE DEF m
    <2> QED BY <2>1
<1>3. CASE Requests(p)
    <2> PICK j \in Job : Submit(p, j) \/ Cancel(p, j) \/ Resume(p, j)
        BY <1>3 DEF Requests
    <2>1. CASE Submit(p, j)
        <3>1. PICK m : /\ main' = [main EXCEPT ![p] = m] /\ r.pc = "idle" /\ queue' = queue
                       /\ m.pc = "read" /\ m.op = "queue" /\ m.job = j
            BY <1>2, <2>1 DEF Submit
        <3> QED BY <1>1, <2>1, <3>1 DEF Submit, Accepts
    <2>2. CASE Cancel(p, j)
        <3>1. PICK m : /\ main' = [main EXCEPT ![p] = m] /\ r.pc = "idle" /\ queue' = queue
                       /\ m.pc = "look" /\ m.op = "cancelled" /\ m.job = j
            BY <1>2, <2>2 DEF Cancel
        <3> QED BY <1>1, <2>2, <3>1 DEF Cancel, Accepts
    <2>3. CASE Resume(p, j)
        <3>1. PICK m : /\ main' = [main EXCEPT ![p] = m] /\ r.pc = "idle" /\ queue' = queue
                       /\ m.pc = "read" /\ m.op = "resume" /\ m.job = j
            BY <1>2, <2>3 DEF Resume
        <3> QED BY <1>1, <2>3, <3>1 DEF Resume, Accepts
    <2> QED BY <2>1, <2>2, <2>3
<1>4. CASE CancelLook(p)
    <2> DEFINE on == [r EXCEPT !.pc = "mark"]
    <2>1. main' = [main EXCEPT ![p] = on] \/ main' = [main EXCEPT ![p] = IdleMain]
        BY <1>4 DEF CancelLook
    <2>2. on.pc = "mark" /\ on.job = r.job /\ on.op = r.op
        BY <1>0 DEF MainRecord
    <2> HIDE DEF on
    <2>3. r.pc = "look" /\ UNCHANGED <<jobs, order, queue>>
        BY <1>4 DEF CancelLook, storeVars
    <2>4. Shape(on) /\ Shape(IdleMain)
        BY <2>2, <2>3 DEF Proceeds, Ends
    <2> QED BY <1>1, <2>1, <2>4
<1>5. CASE CancelMark(p)
    <2> DEFINE on == [r EXCEPT !.pc = "read"]
    <2>1. main' = [main EXCEPT ![p] = on]
        BY <1>0, <1>5 DEF CancelMark
    <2>2. on.pc = "read" /\ on.job = r.job /\ on.op = r.op
        BY <1>0 DEF MainRecord
    <2> HIDE DEF on
    <2>3. Shape(on)
        BY <1>5, <2>2 DEF CancelMark, Proceeds
    <2> QED BY <1>1, <2>1, <2>3
<1>6. CASE HandlerEmitter(p)
    <2> DEFINE on == [r EXCEPT !.pc = "emit", !.seq = EmitterStart(r.job)]
    <2>1. main' = [main EXCEPT ![p] = on]
        BY <1>0, <1>6 DEF HandlerEmitter
    <2>2. on.pc = "emit" /\ on.job = r.job /\ on.op = r.op
        BY <1>0 DEF MainRecord
    <2> HIDE DEF on
    <2>3. Shape(on)
        BY <1>6, <2>2 DEF HandlerEmitter, Proceeds, storeVars
    <2> QED BY <1>1, <2>1, <2>3
<1>7. CASE HandlerEmit(p)
    <2> DEFINE n == r.seq + 1
               taken == KeyTaken(r.job, n)
               on == [r EXCEPT !.pc = "enqueue", !.seq = n]
    <2>1. /\ (taken \/ r.op = "cancelled") => main' = [main EXCEPT ![p] = IdleMain]
          /\ (~taken /\ r.op # "cancelled") => main' = [main EXCEPT ![p] = on]
          /\ taken => mode'[p] = "stopping"
          /\ r.pc = "emit" /\ UNCHANGED <<jobs, order, queue>>
        BY <1>0, <1>7 DEF HandlerEmit
    <2>2. on.pc = "enqueue" /\ on.job = r.job /\ on.op = r.op
        BY <1>0 DEF MainRecord
    <2> HIDE DEF on, taken
    <2>3. CASE taken \/ r.op = "cancelled"
        <3>1. Shape(IdleMain)
            BY <2>1, <2>3 DEF Ends
        <3> QED BY <1>1, <2>1, <2>3, <3>1
    <2>4. CASE ~taken /\ r.op # "cancelled"
        <3>1. Shape(on)
            BY <2>1, <2>2, <2>4 DEF Proceeds
        <3> QED BY <1>1, <2>1, <2>4, <3>1
    <2> QED BY <2>3, <2>4
<1>8. CASE Enqueue(p)
    <2>1. main' = [main EXCEPT ![p] = IdleMain] /\ Shape(IdleMain)
        BY <1>8 DEF Enqueue, Put, Ends, storeVars
    <2> QED BY <1>1, <2>1
<1> QED BY <1>3, <1>4, <1>5, <1>6, <1>7, <1>8 DEF HandlerStep

\* A restored queue holds every queued job when list_jobs returns every row.
LEMMA RestoredHasAll ==
    ASSUME TypeOK, Listed, Few, NEW q \in RestoredQueue
    PROVE  /\ \A j \in Job : jobs[j].status = "queued" => \E i \in DOMAIN q : q[i] = j
           /\ \A i \in DOMAIN q : q[i] \in Job /\ jobs[q[i]].status = "queued"
<1>1. order \in Seq(Job) /\ ListLimit \in Nat
    BY ListLimitAssumption DEF TypeOK, StoreTypeOK, JobsTypeOK
<1>2. ASSUME NEW j \in Job, jobs[j].status = "queued" PROVE j \in QueuedInWindow
    <2>1. PICK i \in DOMAIN order : order[i] = j
        BY <1>2 DEF Listed
    <2>2. i + ListLimit > Len(order)
        BY <1>1, <2>1 DEF Few
    <2> QED BY <1>2, <2>1, <2>2 DEF QueuedInWindow
<1>3. \A j \in QueuedInWindow : \E i \in DOMAIN q : q[i] = j
    BY DEF RestoredQueue
<1>4. \A i \in DOMAIN q : q[i] \in QueuedInWindow
    BY DEF RestoredQueue
<1> QED BY <1>2, <1>3, <1>4 DEF QueuedInWindow

\* What a statement of the request thread does to the rows.
LEMMA HandlerKeepsRows ==
    ASSUME TypeOK, RowsKnown, NEW p \in Proc, NEW m,
           \/ Accepts(main[p], m)
           \/ Proceeds(main[p], m)
           \/ Ends(p, main[p], m)
    PROVE  \A k \in Job :
              /\ jobs[k].status # "absent" => jobs'[k].status # "absent"
              /\ jobs'[k].status # "absent" =>
                    \/ jobs[k].status # "absent" /\ order' = order
                    \/ jobs[k].status # "absent" /\ \E j \in Job : order' = Append(order, j)
                    \/ order' = Append(order, k)
              /\ jobs'[k].status = "queued" =>
                    \/ jobs[k].status = "queued"
                    \/ Accepts(main[p], m) /\ m.job = k /\ m.op \in {"queue", "resume"}
              /\ Accepts(main[p], m) /\ m.job = k => jobs'[k].status # "absent"
<1> DEFINE r == main[p]
<1>0. jobs \in [Job -> Row] /\ (r.pc # "idle" => r.job \in Job)
    BY DEF TypeOK, StoreTypeOK, JobsTypeOK, MainTypeOK
<1> TAKE k \in Job
<1>1. ASSUME NEW j \in Job, r.pc = "idle", m.job = j, m.op = "queue",
             jobs[j].status = "absent", CreateJob(j)
      PROVE  /\ jobs[k].status # "absent" => jobs'[k].status # "absent"
             /\ jobs'[k].status # "absent" =>
                    \/ jobs[k].status # "absent" /\ order' = Append(order, j)
                    \/ order' = Append(order, k)
             /\ jobs'[k].status = "queued" => jobs[k].status = "queued" \/ m.job = k
             /\ m.job = k => jobs'[k].status # "absent"
    <2> DEFINE row == [Absent EXCEPT !.status = "queued"]
    <2>1. jobs' = [jobs EXCEPT ![j] = row] /\ order' = Append(order, j)
        BY <1>1 DEF CreateJob
    <2>2. row.status = "queued"
        BY DEF Absent
    <2> HIDE DEF row
    <2> QED BY <1>0, <1>1, <2>1, <2>2
<1>2. ASSUME NEW j \in Job, jobs[j].status # "absent", order' = order,
             RequestCancel(j) \/ MarkCancelled(j) \/ UNCHANGED jobs
      PROVE  /\ jobs[k].status # "absent" <=> jobs'[k].status # "absent"
             /\ jobs'[k].status = "queued" => jobs[k].status = "queued"
             /\ j = k => jobs'[k].status # "absent"
    <2> DEFINE asked == [jobs[j] EXCEPT !.cancel = TRUE]
               marked == [jobs[j] EXCEPT !.status = "cancelled", !.result = "cancelled"]
    <2>1. \/ jobs' = [jobs EXCEPT ![j] = asked]
          \/ jobs' = [jobs EXCEPT ![j] = marked]
          \/ jobs' = jobs
        BY <1>0, <1>2 DEF RequestCancel, MarkCancelled
    <2>2. asked.status = jobs[j].status /\ marked.status = "cancelled"
        BY <1>0 DEF Row
    <2> HIDE DEF asked, marked
    <2> QED BY <1>0, <1>2, <2>1, <2>2
<1>3. ASSUME NEW j \in Job, jobs[j].status # "absent", order' = order, ResumeJob(j)
      PROVE  /\ jobs[k].status # "absent" <=> jobs'[k].status # "absent"
             /\ jobs'[k].status = "queued" => jobs[k].status = "queued" \/ j = k
             /\ j = k => jobs'[k].status # "absent"
    <2> DEFINE row == [jobs[j] EXCEPT !.status = "queued", !.cancel = FALSE,
                                      !.result = "null"]
    <2>1. jobs' = [jobs EXCEPT ![j] = row]
        BY <1>0, <1>3 DEF ResumeJob
    <2>2. row.status = "queued"
        BY <1>0 DEF Row
    <2> HIDE DEF row
    <2> QED BY <1>0, <1>3, <2>1, <2>2
<1>4. CASE Accepts(r, m)
    <2>1. PICK j \in Job :
            /\ r.pc = "idle" /\ m.job = j
            /\ \/ m.op = "queue" /\ jobs[j].status = "absent" /\ CreateJob(j)
               \/ m.op = "cancelled" /\ Cancellable(j) /\ RequestCancel(j) /\ order' = order
               \/ m.op = "resume" /\ Resumable(j) /\ ResumeJob(j) /\ order' = order
        BY <1>4 DEF Accepts
    <2>2. CASE m.op = "queue" /\ jobs[j].status = "absent" /\ CreateJob(j)
        BY <1>1, <1>4, <2>1, <2>2
    <2>3. CASE m.op = "cancelled" /\ Cancellable(j) /\ RequestCancel(j) /\ order' = order
        <3>1. jobs[j].status # "absent"
            BY <2>3 DEF Cancellable
        <3> QED BY <1>2, <1>4, <2>1, <2>3, <3>1
    <2>4. CASE m.op = "resume" /\ Resumable(j) /\ ResumeJob(j) /\ order' = order
        <3>1. jobs[j].status # "absent"
            BY <2>4 DEF Resumable
        <3> QED BY <1>3, <1>4, <2>1, <2>4, <3>1
    <2> QED BY <2>1, <2>2, <2>3, <2>4
<1>5. CASE Proceeds(r, m)
    <2>1. r.pc # "idle"
        BY <1>5 DEF Proceeds
    <2>2. r.job \in Job /\ jobs[r.job].status # "absent"
        BY <1>0, <2>1 DEF RowsKnown
    <2>3. ~Accepts(r, m)
        BY <2>1 DEF Accepts
    <2>4. order' = order /\ (MarkCancelled(r.job) \/ UNCHANGED jobs)
        BY <1>5 DEF Proceeds
    <2> QED BY <1>2, <2>2, <2>3, <2>4
<1>6. CASE Ends(p, r, m)
    <2>1. ~Accepts(r, m) /\ UNCHANGED <<jobs, order>>
        BY <1>6 DEF Ends, Accepts
    <2> QED BY <2>1
<1> QED BY <1>4, <1>5, <1>6

LEMMA HandlerKeepsQueueInv ==
    ASSUME TypeOK, ProcInv, QueueInv, NEW p \in Proc, HandlerStep(p) \/ Requests(p)
    PROVE  QueueInv'
<1> DEFINE r == main[p]
<1>0. /\ main \in [Proc -> MainRecord] /\ queue \in [Proc -> Seq(Job)] /\ order \in Seq(Job)
      /\ NoJob \notin Job
      /\ r.pc # "idle" => r.job \in Job
    BY WorkerAssumption DEF TypeOK, MainTypeOK, ProcTypeOK, StoreTypeOK, JobsTypeOK
<1>1. /\ mode[p] = "up" /\ coord' = coord
      /\ \A q \in Proc \ {p} : mode'[q] = mode[q]
    BY HandlerShape
<1>2. PICK m : /\ main' = [main EXCEPT ![p] = m]
               /\ \/ Accepts(r, m) /\ queue' = queue
                  \/ Proceeds(r, m) /\ queue' = queue
                  \/ Ends(p, r, m)
    BY HandlerShape
<1>3. ASSUME NEW k \in Job
      PROVE  /\ jobs[k].status # "absent" => jobs'[k].status # "absent"
             /\ jobs'[k].status # "absent" =>
                    \/ jobs[k].status # "absent" /\ order' = order
                    \/ jobs[k].status # "absent" /\ \E j \in Job : order' = Append(order, j)
                    \/ order' = Append(order, k)
             /\ jobs'[k].status = "queued" =>
                    \/ jobs[k].status = "queued"
                    \/ Accepts(r, m) /\ m.job = k /\ m.op \in {"queue", "resume"}
             /\ Accepts(r, m) /\ m.job = k => jobs'[k].status # "absent"
    BY <1>2, HandlerKeepsRows DEF QueueInv
<1>4. /\ queue' = queue \/ queue' = [queue EXCEPT ![p] = Append(queue[p], r.job)]
      /\ queue' # queue => r.job \in Job
    BY <1>0, <1>2 DEF Ends
<1>5. ASSUME NEW q \in Proc
      PROVE  /\ \A i \in DOMAIN queue[q] : i \in DOMAIN (queue'[q]) /\ queue'[q][i] = queue[q][i]
             /\ \A i \in DOMAIN (queue'[q]) : queue'[q][i] \in Job /\
                    ((i \in DOMAIN queue[q] /\ queue'[q][i] = queue[q][i]) \/ queue'[q][i] = r.job)
    <2>1. CASE queue'[q] = queue[q]
        BY <1>0, <2>1
    <2>2. CASE q = p /\ queue'[q] = Append(queue[p], r.job) /\ r.job \in Job
        BY <1>0, <2>2
    <2> QED BY <1>0, <1>4, <2>1, <2>2
<1>6. RowsKnown'
    <2>1. m.job \in Job => jobs'[m.job].status # "absent"
        <3>1. CASE Accepts(r, m)
            BY <1>3, <3>1
        <3>2. CASE Proceeds(r, m)
            BY <1>0, <1>3, <3>2 DEF Proceeds, QueueInv, RowsKnown
        <3>3. CASE Ends(p, r, m)
            BY <1>0, <3>3 DEF Ends, IdleMain
        <3> QED BY <1>2, <3>1, <3>2, <3>3
    <2>2. ASSUME NEW q \in Proc, NEW i \in DOMAIN (queue'[q])
          PROVE  jobs'[queue'[q][i]].status # "absent"
        <3>1. queue'[q][i] \in Job /\ jobs[queue'[q][i]].status # "absent"
            BY <1>5 DEF QueueInv, RowsKnown
        <3> QED BY <1>3, <3>1
    <2>3. ASSUME NEW q \in Proc
          PROVE  /\ coord[q].job \in Job => jobs'[coord[q].job].status # "absent"
                 /\ main'[q].job \in Job => jobs'[main'[q].job].status # "absent"
        BY <1>0, <1>2, <1>3, <2>1 DEF QueueInv, RowsKnown
    <2> QED BY <1>1, <2>2, <2>3 DEF RowsKnown
<1>7. Listed'
    <2> SUFFICES ASSUME NEW k \in Job, jobs'[k].status # "absent"
                 PROVE  \E i \in DOMAIN order' : order'[i] = k
        BY DEF Listed
    <2>1. CASE jobs[k].status # "absent"
        <3>1. PICK i \in DOMAIN order : order[i] = k
            BY <2>1 DEF QueueInv, Listed
        <3>2. order' = order \/ \E j \in Job : order' = Append(order, j)
            BY <1>3
        <3>3. ASSUME NEW j \in Job, order' = Append(order, j)
              PROVE  i \in DOMAIN order' /\ order'[i] = k
            BY <1>0, <3>1, <3>3
        <3> QED BY <3>1, <3>2, <3>3
    <2>2. CASE order' = Append(order, k)
        <3>1. Len(order) + 1 \in DOMAIN order' /\ order'[Len(order) + 1] = k
            BY <1>0, <2>2
        <3> QED BY <3>1
    <2> QED BY <1>3, <2>1, <2>2
<1>8. HandlerRests'
    <2>1. /\ m.pc = "idle" => m.op = "none"
          /\ m.pc \in {"look", "mark"} => m.op = "cancelled"
          /\ m.pc = "enqueue" => m.op # "cancelled"
        <3>1. CASE Accepts(r, m)
            BY <3>1 DEF Accepts
        <3>2. CASE Proceeds(r, m)
            BY <3>2 DEF Proceeds, QueueInv, HandlerRests
        <3>3. CASE Ends(p, r, m)
            BY <3>3 DEF Ends, IdleMain
        <3> QED BY <1>2, <3>1, <3>2, <3>3
    <2> QED BY <1>0, <1>2, <2>1 DEF QueueInv, HandlerRests
<1>9. NoStrandedQueuedJob'
    <2> SUFFICES ASSUME NEW q \in Proc, NEW k \in Job, mode'[q] = "up",
                        ~Lost(q)', jobs'[k].status = "queued"
                 PROVE  \/ \E i \in DOMAIN (queue'[q]) : queue'[q][i] = k
                        \/ coord'[q].job = k /\ coord'[q].pc \in PreClaim \cup {"preCancel"}
                        \/ main'[q].job = k /\ main'[q].op \in {"queue", "resume"}
        BY DEF NoStrandedQueuedJob
    <2>1. q = p
        <3> SUFFICES ASSUME q # p PROVE FALSE
            OBVIOUS
        <3>1. mode[q] = "up"
            BY <1>1
        <3> QED BY <1>1, <3>1 DEF ProcInv, LockIsHeld
    <2>2. ~Lost(p)
        BY <1>1, <2>1 DEF Lost, CoordAlive
    <2>3. main'[p] = m
        BY <1>0, <1>2
    <2>4. CASE Accepts(r, m) /\ m.job = k /\ m.op \in {"queue", "resume"}
        BY <2>1, <2>3, <2>4
    <2>5. CASE jobs[k].status = "queued"
        <3>1. \/ \E i \in DOMAIN queue[p] : queue[p][i] = k
              \/ coord[p].job = k /\ coord[p].pc \in PreClaim \cup {"preCancel"}
              \/ main[p].job = k /\ main[p].op \in {"queue", "resume"}
            BY <1>1, <2>2, <2>5 DEF QueueInv, NoStrandedQueuedJob
        <3>2. CASE \E i \in DOMAIN queue[p] : queue[p][i] = k
            BY <1>5, <2>1, <3>2
        <3>3. CASE coord[p].job = k /\ coord[p].pc \in PreClaim \cup {"preCancel"}
            BY <1>1, <2>1, <3>3
        <3>4. CASE main[p].job = k /\ main[p].op \in {"queue", "resume"}
            <4>1. r.op # "none" /\ r.op # "cancelled" /\ r.pc \notin {"idle", "look", "mark"}
                BY <3>4 DEF QueueInv, HandlerRests
            <4>2. CASE Accepts(r, m)
                BY <4>1, <4>2 DEF Accepts
            <4>3. CASE Proceeds(r, m)
                BY <2>1, <2>3, <3>4, <4>3 DEF Proceeds
            <4>4. CASE Ends(p, r, m)
                <5>1. queue' = [queue EXCEPT ![p] = Append(queue[p], k)]
                    BY <2>1, <3>4, <4>1, <4>4 DEF Ends
                <5>2. queue[p] \in Seq(Job) /\ queue'[p] = Append(queue[p], k)
                    BY <1>0, <5>1
                <5>3. /\ Len(queue[p]) + 1 \in DOMAIN (queue'[p])
                      /\ queue'[p][Len(queue[p]) + 1] = k
                    BY <5>2
                <5> QED BY <2>1, <5>3
            <4> QED BY <1>2, <4>2, <4>3, <4>4
        <3> QED BY <3>1, <3>2, <3>3, <3>4
    <2> QED BY <1>3, <2>4, <2>5
<1> QED BY <1>6, <1>7, <1>8, <1>9 DEF QueueInv

LEMMA CoordKeepsQueueInv ==
    ASSUME TypeOK, QueueInv, NEW p \in Proc, CoordMoves(p)
    PROVE  QueueInv'
<1> DEFINE r == coord[p]
<1>0. /\ coord \in [Proc -> CoordRecord] /\ queue \in [Proc -> Seq(Job)]
      /\ jobs \in [Job -> Row]
    BY DEF TypeOK, CoordTypeOK, ProcTypeOK, StoreTypeOK, JobsTypeOK
<1>1. PICK c : coord' = [coord EXCEPT ![p] = c] /\ RowStep(p, r, c)
    BY CoordShape
<1>2. UNCHANGED <<order, lock, mode, main>>
    BY CoordShape
<1>3. RowsKnown' /\ \A j \in Job :
          /\ jobs'[j].status = "absent" <=> jobs[j].status = "absent"
          /\ jobs'[j].status = "queued" => jobs[j].status = "queued"
    BY CoordKeepsRowsKnown DEF QueueInv
<1>4. Listed' /\ HandlerRests'
    BY <1>2, <1>3 DEF QueueInv, Listed, HandlerRests
<1>5. queue' = queue \/ (r.pc = "get" /\ c.pc = "got" /\ queue[p] # <<>> /\
          c.job = Head(queue[p]) /\ queue' = [queue EXCEPT ![p] = Tail(queue[p])])
    BY <1>1 DEF RowStep, Looks
<1>6. NoStrandedQueuedJob'
    <2> SUFFICES ASSUME NEW q \in Proc, NEW k \in Job, mode[q] = "up",
                        ~Lost(q)', jobs'[k].status = "queued"
                 PROVE  \/ \E i \in DOMAIN (queue'[q]) : queue'[q][i] = k
                        \/ coord'[q].job = k /\ coord'[q].pc \in PreClaim \cup {"preCancel"}
                        \/ main[q].job = k /\ main[q].op \in {"queue", "resume"}
        BY <1>2 DEF NoStrandedQueuedJob
    <2>1. ~Lost(q)
        <3>1. r.pc = "dead" => c.pc = "dead"
            BY <1>1 DEF RowStep, Passes, WritesRow, WritesFile, Looks, Engine
        <3> QED BY <1>0, <1>1, <1>2, <3>1 DEF Lost, CoordAlive
    <2>2. \/ \E i \in DOMAIN queue[q] : queue[q][i] = k
          \/ coord[q].job = k /\ coord[q].pc \in PreClaim \cup {"preCancel"}
          \/ main[q].job = k /\ main[q].op \in {"queue", "resume"}
        BY <1>3, <2>1 DEF QueueInv, NoStrandedQueuedJob
    <2>3. CASE q # p
        <3>1. coord'[q] = coord[q] /\ queue'[q] = queue[q]
            BY <1>0, <1>1, <1>5, <2>3
        <3> QED BY <2>2, <3>1
    <2>4. CASE q = p /\ \E i \in DOMAIN queue[p] : queue[p][i] = k
        <3>1. CASE queue' = queue
            BY <2>4, <3>1
        <3>2. CASE /\ c.pc = "got" /\ queue[p] # <<>> /\ c.job = Head(queue[p])
                   /\ queue' = [queue EXCEPT ![p] = Tail(queue[p])]
            <4>1. PICK i \in DOMAIN queue[p] : queue[p][i] = k
                BY <2>4
            <4>2. /\ Head(queue[p]) = queue[p][1]
                  /\ \A n \in DOMAIN queue[p] : n # 1 =>
                        n - 1 \in DOMAIN Tail(queue[p]) /\ Tail(queue[p])[n - 1] = queue[p][n]
                BY <1>0, <3>2, TailOf
            <4>3. CASE i = 1
                <5>1. c.job = k /\ coord'[p] = c /\ "got" \in PreClaim
                    BY <1>0, <1>1, <3>2, <4>1, <4>2, <4>3 DEF PreClaim
                <5> QED BY <2>4, <3>2, <5>1
            <4>4. CASE i # 1
                <5>1. queue'[p] = Tail(queue[p])
                    BY <1>0, <3>2
                <5>2. i - 1 \in DOMAIN (queue'[p]) /\ queue'[p][i - 1] = k
                    BY <4>1, <4>2, <4>4, <5>1
                <5> QED BY <2>4, <5>2
            <4> QED BY <4>3, <4>4
        <3> QED BY <1>5, <3>1, <3>2
    <2>5. CASE q = p /\ r.job = k /\ r.pc \in PreClaim \cup {"preCancel"}
        <3>1. jobs[k].status = "queued"
            BY <1>3
        <3>2. ~WritesRow(p, r, c)
            <4> SUFFICES ASSUME WritesRow(p, r, c) PROVE FALSE
                OBVIOUS
            <4>1. MarkRunning(k) \/ MarkCancelled(k)
                BY <2>5 DEF WritesRow, PreClaim
            <4>2. MarkRunning(k) => jobs'[k].status = "running"
                BY <1>0 DEF MarkRunning
            <4>3. MarkCancelled(k) => jobs'[k].status = "cancelled"
                BY <1>0 DEF MarkCancelled, Row
            <4> QED BY <4>1, <4>2, <4>3
        <3>3. c.job = k /\ c.pc \in PreClaim \cup {"preCancel"}
            <4>1. CASE Passes(r.pc, c.pc) /\ Same(r, c)
                BY <2>5, <4>1 DEF Passes, Same, PreClaim, Engine
            <4>2. CASE Looks(p, r, c)
                BY <2>5, <3>1, <4>2 DEF Looks, Same, PreClaim
            <4>3. ~WritesFile(p, r, c)
                BY <2>5 DEF WritesFile, PreClaim
            <4> QED BY <1>1, <3>2, <4>1, <4>2, <4>3 DEF RowStep
        <3> QED BY <1>0, <1>1, <2>5, <3>3
    <2> QED BY <1>2, <2>2, <2>3, <2>4, <2>5
<1> QED BY <1>3, <1>4, <1>6 DEF QueueInv

LEMMA NextKeepsQueueInv == TypeOK /\ ProcInv /\ Few /\ QueueInv /\ [Next]_vars => QueueInv'
<1> SUFFICES ASSUME TypeOK, ProcInv, Few, QueueInv, [Next]_vars PROVE QueueInv'
    OBVIOUS
<1>0. /\ mode \in [Proc -> Mode] /\ coord \in [Proc -> CoordRecord]
      /\ main \in [Proc -> MainRecord] /\ queue \in [Proc -> Seq(Job)]
      /\ jobs \in [Job -> Row] /\ NoProc \notin Proc /\ NoJob \notin Job
    BY WorkerAssumption DEF TypeOK, ProcTypeOK, CoordTypeOK, MainTypeOK, StoreTypeOK, JobsTypeOK
<1>1. CASE UNCHANGED vars
    BY <1>1 DEF vars, procVars, storeVars, QueueInv, RowsKnown, Listed, HandlerRests,
                NoStrandedQueuedJob, Lost, CoordAlive
\* A step of a process that writes no row and ends, at most, its own threads.
<1>2. ASSUME NEW p \in Proc, UNCHANGED <<jobs, order>>,
             \A q \in Proc : \/ main'[q] = main[q] /\ coord'[q] = coord[q] /\ queue'[q] = queue[q]
                             \/ main'[q] = IdleMain /\ coord'[q] = IdleCoord /\ queue'[q] = <<>>,
             \A q \in Proc : mode'[q] = "up" =>
                 /\ mode[q] = "up" /\ coord'[q] = coord[q]
                 /\ queue'[q] = queue[q] /\ main'[q] = main[q]
      PROVE  QueueInv'
    <2>1. RowsKnown'
        BY <1>0, <1>2 DEF QueueInv, RowsKnown, IdleMain, IdleCoord
    <2>2. Listed' /\ HandlerRests'
        BY <1>2 DEF QueueInv, Listed, HandlerRests, IdleMain
    <2>3. NoStrandedQueuedJob'
        BY <1>2 DEF QueueInv, NoStrandedQueuedJob, Lost, CoordAlive
    <2> QED BY <2>1, <2>2, <2>3 DEF QueueInv
<1>3. ASSUME NEW p \in Proc, OtherMoves(p) PROVE QueueInv'
    <2>1. CASE Start(p)
        <3>1. /\ UNCHANGED <<order, queue, coord, main>> /\ lock = NoProc
              /\ mode' = [mode EXCEPT ![p] = "recovering"]
            BY <2>1 DEF Start
        <3>2. \A j \in Job : jobs'[j].status = "absent" <=> jobs[j].status = "absent"
            BY <1>0, <2>1 DEF Start, RecoverInterruptedJobs, Row
        <3>3. \A q \in Proc : mode'[q] # "up"
            BY <1>0, <3>1 DEF ProcInv, LockIsHeld
        <3>4. \A q \in Proc : \A i \in DOMAIN queue[q] : queue[q][i] \in Job
            BY <1>0
        <3>5. RowsKnown' /\ Listed' /\ HandlerRests'
            BY <3>1, <3>2, <3>4 DEF QueueInv, RowsKnown, Listed, HandlerRests
        <3>6. NoStrandedQueuedJob'
            BY <3>3 DEF NoStrandedQueuedJob
        <3> QED BY <3>5, <3>6 DEF QueueInv
    <2>2. CASE Restore(p)
        <3>1. PICK new \in RestoredQueue : queue' = [queue EXCEPT ![p] = new]
            BY <2>2 DEF Restore
        <3>2. /\ UNCHANGED <<jobs, order, coord, main>> /\ mode[p] = "recovering"
              /\ mode' = [mode EXCEPT ![p] = "up"]
            BY <2>2 DEF Restore, storeVars
        <3>3. /\ \A j \in Job : jobs[j].status = "queued" => \E i \in DOMAIN new : new[i] = j
              /\ \A i \in DOMAIN new : new[i] \in Job /\ jobs[new[i]].status = "queued"
            BY <3>1, RestoredHasAll DEF QueueInv
        <3>4. ASSUME NEW q \in Proc, mode'[q] = "up" PROVE q = p
            BY <1>0, <3>2, <3>4 DEF ProcInv, LockIsHeld
        <3>5. queue'[p] = new /\ \A q \in Proc \ {p} : queue'[q] = queue[q]
            BY <1>0, <3>1
        <3>6. RowsKnown' /\ Listed' /\ HandlerRests'
            BY <3>2, <3>3, <3>5 DEF QueueInv, RowsKnown, Listed, HandlerRests
        <3>7. NoStrandedQueuedJob'
            BY <3>2, <3>3, <3>4, <3>5 DEF NoStrandedQueuedJob
        <3> QED BY <3>6, <3>7 DEF QueueInv
    <2>3. CASE StopJoined(p) \/ StopTimedOut(p) \/ Shutdown(p) \/ IdleExit(p)
        <3>1. UNCHANGED <<jobs, order, queue, coord, main>> /\ \A q \in Proc :
                  mode'[q] = "up" => mode[q] = "up"
            BY <1>0, <2>3 DEF StopJoined, StopTimedOut, Released, Shutdown, IdleExit,
                              Stopping, storeVars
        <3> QED BY <1>2, <3>1
    <2>4. CASE Exit(p) \/ Crash(p)
        <3>1. /\ UNCHANGED <<jobs, order>> /\ mode' = [mode EXCEPT ![p] = "down"]
              /\ queue' = [queue EXCEPT ![p] = <<>>]
              /\ coord' = [coord EXCEPT ![p] = IdleCoord]
              /\ main' = [main EXCEPT ![p] = IdleMain]
            BY <2>4 DEF Exit, Crash, Gone, storeVars
        <3> QED BY <1>0, <1>2, <3>1
    <2>5. CASE HandlerStep(p) \/ Requests(p)
        BY <2>5, HandlerKeepsQueueInv
    <2> QED BY <1>3, <2>1, <2>2, <2>3, <2>4, <2>5 DEF OtherMoves, ProcessStep
<1> QED BY <1>1, <1>3, CoordKeepsQueueInv, NextMoves

\* As long as the store has no more rows than list_jobs is asked for, every queued
\* job of a serving worker is in its queue or in the hands of one of its threads,
\* through every crash, restart, resume and cancellation (worker.py:160).
THEOREM NoJobStranded == Spec /\ []Few => []NoStrandedQueuedJob
<1>1. Init => QueueInv
    BY WorkerAssumption DEF Init, StoreInit, Absent, IdleCoord, IdleMain, QueueInv, RowsKnown,
                            Listed, HandlerRests, NoStrandedQueuedJob
<1>2. QueueInv => NoStrandedQueuedJob
    BY DEF QueueInv
<1> QED BY <1>1, <1>2, NextKeepsQueueInv, TypeCorrect, ProcInvariant, PTL DEF Spec

\* list_jobs knows a row once.
ListedOnce ==
    \A i \in DOMAIN order :
        /\ jobs[order[i]].status # "absent"
        /\ \A k \in DOMAIN order : order[i] = order[k] => i = k

LEMMA NoMoreRowsThanJobs ==
    ASSUME TypeOK, ListedOnce, Cardinality(Job) <= ListLimit
    PROVE  Few
<1>1. order \in [1..Len(order) -> Job] /\ Len(order) \in Nat
    BY DEF TypeOK, StoreTypeOK, JobsTypeOK
<1>2. order \in Injection(1..Len(order), Job)
    <2>1. \A i, k \in 1..Len(order) : order[i] = order[k] => i = k
        BY <1>1 DEF ListedOnce
    <2> QED BY <1>1, <2>1 DEF Injection, IsInjective
<1>3. Cardinality(1..Len(order)) <= Cardinality(Job)
    BY <1>2, JobAssumption, FS_Injection
<1>4. Cardinality(1..Len(order)) = Len(order)
    <2>1. 1 \in Int /\ Len(order) \in Int
        BY <1>1
    <2>2. Cardinality(1..Len(order)) = IF 1 > Len(order) THEN 0 ELSE Len(order) - 1 + 1
        BY <2>1, FS_Interval
    <2> QED BY <1>1, <2>2
<1>5. Cardinality(Job) \in Nat /\ ListLimit \in Nat
    BY JobAssumption, ListLimitAssumption, FS_CardinalityType
<1> QED BY <1>1, <1>3, <1>4, <1>5 DEF Few

LEMMA NextKeepsListedOnce ==
    ASSUME TypeOK, RowsKnown, ListedOnce, [Next]_vars
    PROVE  ListedOnce'
<1>0. jobs \in [Job -> Row] /\ order \in Seq(Job)
    BY DEF TypeOK, StoreTypeOK, JobsTypeOK
<1>1. \A j \in Job : jobs[j].status # "absent" => jobs'[j].status # "absent"
    <2>1. ASSUME NEW p \in Proc, CoordMoves(p)
          PROVE  \A j \in Job : jobs[j].status # "absent" => jobs'[j].status # "absent"
        BY <2>1, CoordKeepsRowsKnown
    <2>2. ASSUME NEW p \in Proc, OtherMoves(p)
          PROVE  \A j \in Job : jobs[j].status # "absent" => jobs'[j].status # "absent"
        BY <2>2, OtherShape DEF Gentle
    <2> QED BY <2>1, <2>2, NextMoves DEF vars, storeVars
<1>2. CASE order' = order
    BY <1>0, <1>1, <1>2 DEF ListedOnce
<1>3. ASSUME NEW p \in Proc, NEW j \in Job, Submit(p, j)
      PROVE  ListedOnce'
    <2>1. jobs[j].status = "absent" /\ order' = Append(order, j)
        BY <1>3 DEF Submit, CreateJob
    <2>2. jobs'[j].status # "absent"
        BY <1>0, <1>3 DEF Submit, CreateJob, Absent
    <2>3. \A i \in DOMAIN order : order[i] # j /\ order[i] \in Job
        BY <1>0, <2>1 DEF ListedOnce
    <2>4. /\ DOMAIN order' = DOMAIN order \cup {Len(order) + 1}
          /\ order'[Len(order) + 1] = j
          /\ \A i \in DOMAIN order : order'[i] = order[i] /\ i # Len(order) + 1
        BY <1>0, <2>1
    <2> QED BY <1>1, <2>2, <2>3, <2>4 DEF ListedOnce
<1>4. order' = order \/ \E p \in Proc, j \in Job : Submit(p, j)
    <2>1. ASSUME NEW p \in Proc, OtherMoves(p), \A j \in Job : ~Submit(p, j)
          PROVE  order' = order
        BY <2>1 DEF OtherMoves, ProcessStep, Start, Restore, StopJoined, StopTimedOut, Released,
           Shutdown, IdleExit, Exit, Crash, Gone, HandlerStep, Requests, CancelLook,
           CancelMark, HandlerEmitter, HandlerEmit, Enqueue, Cancel, Resume, storeVars
    <2> QED BY <2>1, CoordShape, NextMoves DEF vars, storeVars
<1> QED BY <1>2, <1>3, <1>4

\* No premise is left when there are no more jobs than that.
THEOREM NoJobStrandedOfFew ==
    ASSUME Cardinality(Job) <= ListLimit
    PROVE  Spec => []NoStrandedQueuedJob
<1>1. Init => QueueInv /\ ListedOnce
    BY WorkerAssumption DEF Init, StoreInit, Absent, IdleCoord, IdleMain, QueueInv, RowsKnown,
                            Listed, HandlerRests, NoStrandedQueuedJob, ListedOnce
<1>2. TypeOK /\ ProcInv /\ QueueInv /\ ListedOnce /\ [Next]_vars => (QueueInv /\ ListedOnce)'
    BY NoMoreRowsThanJobs, NextKeepsQueueInv, NextKeepsListedOnce DEF QueueInv
<1>3. QueueInv => NoStrandedQueuedJob
    BY DEF QueueInv
<1> QED BY <1>1, <1>2, <1>3, TypeCorrect, ProcInvariant, PTL DEF Spec
=============================================================================
