---------------------------- MODULE WorkerProofs ----------------------------
(***************************************************************************)
(* Proofs about the worker, for any jobs, processes and bounds.            *)
(***************************************************************************)
EXTENDS WorkerProperties, FiniteSetTheorems, TLAPS

-----------------------------------------------------------------------------
(* Facts about the events table.                                            *)

\* The last number of a gapless feed is its length.
LEMMA LastOfGapless ==
    ASSUME NEW rows, NEW n \in Nat, DOMAIN rows = 1..n
    PROVE  LastKey(rows) = n
<1>1. CASE n = 0
    BY <1>1 DEF LastKey
<1>2. CASE n # 0
    <2>1. n \in DOMAIN rows /\ \A k \in DOMAIN rows : k <= n
        BY <1>2
    <2>2. ASSUME NEW m \in DOMAIN rows, \A k \in DOMAIN rows : k <= m
          PROVE  m = n
        <3>1. m \in 1..n /\ n <= m
            BY <2>1, <2>2
        <3> QED BY <3>1
    <2>3. (CHOOSE m \in DOMAIN rows : \A k \in DOMAIN rows : k <= m) = n
        BY <2>1, <2>2
    <2> QED BY <2>1, <2>3 DEF LastKey
<1> QED BY <1>1, <1>2

\* What the proofs need to know of a gapless table.
Gapless == \A j \in Job : LastSequence(j) \in Nat /\ DOMAIN events[j] = 1..LastSequence(j)

\* An INSERT at most one past the end, whether it raises or not, keeps every
\* feed gapless, shortens none, and leaves none shorter than the number tried.
LEMMA TryAppendKeepsGapless ==
    ASSUME EventsTypeOK, Gapless, NEW j \in Job, NEW stage \in Stage, NEW n \in Nat,
           n >= 1, n <= LastSequence(j) + 1, TryAppend(j, n, stage)
    PROVE  /\ Gapless'
           /\ \A k \in Job : LastSequence(k)' >= LastSequence(k)
           /\ LastSequence(j)' >= n
           /\ EventsTypeOK'
<1>1. CASE KeyTaken(j, n)
    <2>1. events' = events
        BY <1>1 DEF TryAppend
    <2>2. \A k \in Job : LastSequence(k)' = LastSequence(k)
        BY <2>1 DEF LastSequence
    <2>3. n <= LastSequence(j)
        BY <1>1 DEF KeyTaken, Gapless
    <2> QED BY <2>1, <2>2, <2>3 DEF Gapless, EventsTypeOK
<1>2. CASE ~KeyTaken(j, n)
    <2>1. n = LastSequence(j) + 1
        BY <1>2 DEF KeyTaken, Gapless
    <2>2. events' = [events EXCEPT ![j] = [i \in DOMAIN events[j] \cup {n} |->
                        IF i = n THEN stage ELSE events[j][i]]]
        BY <1>2 DEF TryAppend, AppendEvent
    <2>3. /\ events'[j] = [i \in 1..n |-> IF i = n THEN stage ELSE events[j][i]]
          /\ \A k \in Job \ {j} : events'[k] = events[k]
          /\ DOMAIN events' = Job
        <3>1. DOMAIN events[j] \cup {n} = 1..n
            BY <2>1 DEF Gapless
        <3> QED BY <2>2, <3>1 DEF EventsTypeOK
    <2>4. LastSequence(j)' = n
        BY <2>3, LastOfGapless DEF LastSequence
    <2>5. \A k \in Job \ {j} : LastSequence(k)' = LastSequence(k)
        BY <2>3 DEF LastSequence
    <2>6. Gapless'
        BY <2>3, <2>4, <2>5 DEF Gapless
    <2>7. \A k \in Job : LastSequence(k)' >= LastSequence(k)
        BY <2>1, <2>4, <2>5 DEF Gapless
    <2>8. events' \in [Job -> {events'[k] : k \in Job}]
        BY <2>2 DEF EventsTypeOK
    <2>9. \A k \in Job : events'[k] \in [DOMAIN events'[k] -> Stage]
        <3>1. events'[j] \in [1..n -> Stage]
            <4>1. ASSUME NEW i \in 1..n, i # n PROVE events[j][i] \in Stage
                BY <4>1, <2>1 DEF EventsTypeOK, Gapless
            <4> QED BY <4>1, <2>3
        <3>2. DOMAIN events'[j] = 1..n
            BY <2>3
        <3>3. ASSUME NEW k \in Job \ {j} PROVE events'[k] \in [DOMAIN events'[k] -> Stage]
            <4>1. events'[k] = events[k]
                BY <2>3
            <4> QED BY <4>1 DEF EventsTypeOK
        <3> QED BY <3>1, <3>2, <3>3
    <2>10. \A k \in Job : (DOMAIN events'[k]) \subseteq Nat \ {0}
        BY <2>6 DEF Gapless
    <2>11. EventsTypeOK'
        BY <2>8, <2>9, <2>10 DEF EventsTypeOK
    <2> QED BY <2>1, <2>4, <2>6, <2>7, <2>11
<1> QED BY <1>1, <1>2

-----------------------------------------------------------------------------
(* The inductive invariant: no counter is ahead of the feed it numbers.     *)

CoordBehind ==
    \A p \in Proc : coord[p].job \in Job => coord[p].seq <= LastSequence(coord[p].job)

MainBehind ==
    \A p \in Proc : main[p].job \in Job => main[p].seq <= LastSequence(main[p].job)

Behind == CoordBehind /\ MainBehind

IInv == TypeOK /\ Gapless /\ Behind

LEMMA InitIInv == Init => IInv
<1> SUFFICES ASSUME Init PROVE IInv
    OBVIOUS
<1> USE DEF Init, StoreInit
<1>1. StoreTypeOK
    BY DEF StoreTypeOK, JobsTypeOK, EventsTypeOK, Absent, Row, Status, Result, Format
<1>2. ProcTypeOK
    BY DEF ProcTypeOK, Mode
<1>3. CoordTypeOK
    BY DEF CoordTypeOK, CoordRecord, IdleCoord, CoordPc, Phase, Result, Heart
<1>4. MainTypeOK
    BY DEF MainTypeOK, MainRecord, IdleMain, MainPc, Op
<1>5. \A j \in Job : LastSequence(j) = 0
    BY DEF LastSequence, LastKey
<1>6. Gapless
    BY <1>5 DEF Gapless
<1>7. Behind
    BY <1>5, WorkerAssumption DEF Behind, CoordBehind, MainBehind, IdleCoord, IdleMain
<1> QED BY <1>1, <1>2, <1>3, <1>4, <1>6, <1>7 DEF IInv, TypeOK

\* A step that leaves the events alone leaves their numbers alone.
LEMMA QuietStep ==
    ASSUME Gapless, UNCHANGED events
    PROVE  Gapless' /\ \A j \in Job : LastSequence(j)' = LastSequence(j)
BY DEF Gapless, LastSequence

\* Every statement on the jobs table leaves a table of rows.
LEMMA JobStatements ==
    ASSUME jobs \in [Job -> Row], NEW j \in Job, NEW result \in Result,
           \/ CreateJob(j) \/ MarkRunning(j) \/ RequestCancel(j) \/ MarkCancelled(j)
           \/ ResumeJob(j) \/ CompleteJob(j, result) \/ FailJob(j, result)
           \/ RecoverInterruptedJobs
    PROVE  jobs' \in [Job -> Row]
<1> USE DEF Row, Status, Result
<1>1. CASE CreateJob(j)
    BY <1>1 DEF CreateJob, Absent
<1>2. CASE MarkRunning(j)
    <2>1. jobs[j] \in Row
        OBVIOUS
    <2> QED BY <1>2, <2>1, SMT DEF MarkRunning
<1>3. CASE RequestCancel(j)
    BY <1>3 DEF RequestCancel
<1>4. CASE MarkCancelled(j)
    <2> DEFINE r == [jobs[j] EXCEPT !.status = "cancelled", !.result = "cancelled"]
    <2>1. jobs[j] \in Row /\ r \in Row
        OBVIOUS
    <2>2. jobs' = [jobs EXCEPT ![j] = r]
        BY <1>4 DEF MarkCancelled
    <2> HIDE DEF r
    <2> QED BY <2>1, <2>2
<1>5. CASE ResumeJob(j)
    <2> DEFINE r == [jobs[j] EXCEPT !.status = "queued", !.cancel = FALSE, !.result = "null"]
    <2>1. jobs[j] \in Row /\ r \in Row
        OBVIOUS
    <2>2. jobs' = [jobs EXCEPT ![j] = r]
        BY <1>5 DEF ResumeJob
    <2> HIDE DEF r
    <2> QED BY <2>1, <2>2
<1>6. CASE CompleteJob(j, result)
    BY <1>6 DEF CompleteJob
<1>7. CASE FailJob(j, result)
    <2> DEFINE r == [jobs[j] EXCEPT !.status = "failed", !.result = result]
    <2>1. jobs[j] \in Row /\ r \in Row
        OBVIOUS
    <2>2. jobs' = [jobs EXCEPT ![j] = r]
        BY <1>7 DEF FailJob
    <2> HIDE DEF r
    <2> QED BY <2>1, <2>2
<1>8. CASE RecoverInterruptedJobs
    BY <1>8, ZenonT(60) DEF RecoverInterruptedJobs
<1> HIDE DEF Row, Status, Result
<1> QED BY <1>1, <1>2, <1>3, <1>4, <1>5, <1>6, <1>7, <1>8

\* A thread that changes its own state, and no event, keeps the invariant as
\* long as its new state is sound.
LEMMA QuietCoordStep ==
    ASSUME IInv, NEW p \in Proc, NEW c \in CoordRecord,
           (c.pc \notin {"get", "exited", "dead"} \/ c.heart # "none") => c.job \in Job,
           c.job \in Job => c.seq <= LastSequence(c.job),
           coord' = [coord EXCEPT ![p] = c], UNCHANGED <<events, main>>,
           StoreTypeOK', ProcTypeOK'
    PROVE  IInv'
<1> USE DEF IInv, TypeOK, Behind
<1>1. Gapless' /\ \A j \in Job : LastSequence(j)' = LastSequence(j)
    BY QuietStep
<1>2. CoordTypeOK'
    BY DEF CoordTypeOK
<1>3. CoordBehind'
    BY <1>1 DEF CoordTypeOK, CoordBehind
<1>4. MainTypeOK' /\ MainBehind'
    BY <1>1 DEF MainTypeOK, MainBehind
<1> QED BY <1>1, <1>2, <1>3, <1>4

LEMMA QuietMainStep ==
    ASSUME IInv, NEW p \in Proc, NEW m \in MainRecord,
           m.pc # "idle" => m.job \in Job /\ m.op \in Stage,
           m.job \in Job => m.seq <= LastSequence(m.job),
           main' = [main EXCEPT ![p] = m], UNCHANGED <<events, coord>>,
           StoreTypeOK', ProcTypeOK'
    PROVE  IInv'
<1> USE DEF IInv, TypeOK, Behind
<1>1. Gapless' /\ \A j \in Job : LastSequence(j)' = LastSequence(j)
    BY QuietStep
<1>2. MainTypeOK'
    BY DEF MainTypeOK
<1>3. MainBehind'
    BY <1>1 DEF MainTypeOK, MainBehind
<1>4. CoordTypeOK' /\ CoordBehind'
    BY <1>1 DEF CoordTypeOK, CoordBehind
<1> QED BY <1>1, <1>2, <1>3, <1>4

\* emitter.emit keeps the invariant whether or not the INSERT raises.
LEMMA EmitKeepsIInv ==
    ASSUME IInv, NEW p \in Proc, NEW stage \in Stage,
           NEW then \in CoordRecord, NEW raised \in CoordRecord,
           coord[p].job \in Job, then.job = coord[p].job, raised.job = coord[p].job,
           Emit(p, stage, then, raised), UNCHANGED <<jobs, order, artifacts, main>>,
           ProcTypeOK'
    PROVE  IInv'
<1> USE DEF IInv, TypeOK, Behind
<1> DEFINE j == coord[p].job
           n == coord[p].seq + 1
           c == [(IF KeyTaken(j, n) THEN raised ELSE then) EXCEPT !.seq = n]
<1>1. n \in Nat /\ n >= 1 /\ n <= LastSequence(j) + 1
    BY DEF CoordTypeOK, CoordRecord, CoordBehind, Gapless
<1>2. TryAppend(j, n, stage) /\ coord' = [coord EXCEPT ![p] = c]
    BY DEF Emit
<1>3. /\ Gapless' /\ EventsTypeOK' /\ LastSequence(j)' >= n
      /\ \A k \in Job : LastSequence(k)' >= LastSequence(k)
    BY <1>1, <1>2, TryAppendKeepsGapless DEF StoreTypeOK
<1>4. c \in CoordRecord /\ c.job = j /\ c.seq = n
    BY <1>1 DEF CoordRecord
<1> HIDE DEF c
<1>5. CoordTypeOK'
    BY <1>2, <1>4 DEF CoordTypeOK
<1>6. ASSUME NEW q \in Proc, NEW k \in Job, coord'[q].job = k
      PROVE  coord'[q].seq <= LastSequence(k)'
    <2>1. CASE q = p
        BY <2>1, <1>2, <1>3, <1>4, <1>6 DEF CoordTypeOK
    <2>2. CASE q # p
        <3>1. coord'[q] = coord[q]
            BY <2>2, <1>2 DEF CoordTypeOK
        <3>2. coord[q].seq \in Nat /\ coord[q].seq <= LastSequence(k)
            BY <3>1, <1>6 DEF CoordBehind, CoordTypeOK, CoordRecord
        <3>3. LastSequence(k)' >= LastSequence(k)
              /\ LastSequence(k)' \in Nat /\ LastSequence(k) \in Nat
            BY <1>3 DEF Gapless
        <3> QED BY <3>1, <3>2, <3>3
    <2> QED BY <2>1, <2>2
<1>7. CoordBehind'
    BY <1>6 DEF CoordBehind
<1>8. MainTypeOK' /\ MainBehind'
    BY <1>3 DEF MainTypeOK, MainRecord, MainBehind, Gapless
<1>9. StoreTypeOK'
    BY <1>3 DEF StoreTypeOK, JobsTypeOK
<1> QED BY <1>3, <1>5, <1>7, <1>8, <1>9

-----------------------------------------------------------------------------
(* The steps of a process.                                                  *)

\* Spending keeps the counters counting.
LEMMA SpendType ==
    ASSUME ProcTypeOK, NEW what \in {"requests", "faults"}, NEW bound,
           Spend(what, bound)
    PROVE  used' \in [{"requests", "faults"} -> Nat]
BY DEF ProcTypeOK, Spend

LEMMA ProcessStepKeepsIInv ==
    ASSUME IInv, NEW p \in Proc,
           ProcessStep(p) \/ IdleExit(p) \/ Shutdown(p) \/ StopTimedOut(p) \/ Crash(p)
    PROVE  IInv'
<1> USE DEF IInv, TypeOK, Behind
<1> DEFINE Same == UNCHANGED <<events, coord, main>>
<1>1. CASE Start(p)
    <2>1. jobs' \in [Job -> Row]
        BY <1>1, ZenonT(60) DEF Start, RecoverInterruptedJobs, StoreTypeOK, JobsTypeOK, Row, Status, Result
    <2>2. StoreTypeOK'
        BY <1>1, <2>1 DEF Start, StoreTypeOK, JobsTypeOK, EventsTypeOK
    <2>3. ProcTypeOK'
        BY <1>1 DEF Start, ProcTypeOK, Mode
    <2>4. Same
        BY <1>1 DEF Start
    <2> QED BY <2>2, <2>3, <2>4, QuietStep
            DEF CoordTypeOK, MainTypeOK, CoordBehind, MainBehind
<1>2. CASE Restore(p)
    <2>1. StoreTypeOK'
        BY <1>2 DEF Restore, storeVars, StoreTypeOK, JobsTypeOK, EventsTypeOK
    <2>2. PICK q \in RestoredQueue : queue' = [queue EXCEPT ![p] = q]
        BY <1>2 DEF Restore
    <2>3. QueuedInWindow \in SUBSET Job /\ Cardinality(QueuedInWindow) \in Nat
        <3>1. QueuedInWindow \subseteq Job
            BY DEF QueuedInWindow
        <3> QED BY <3>1, JobAssumption, FS_Subset, FS_CardinalityType
    <2>4. q \in Seq(Job)
        <3>1. q \in [1..Cardinality(QueuedInWindow) -> Job]
            BY <2>3 DEF RestoredQueue
        <3> QED BY <2>3, <3>1
    <2>5. ProcTypeOK'
        BY <1>2, <2>2, <2>4 DEF Restore, ProcTypeOK, Mode
    <2>6. Same
        BY <1>2 DEF Restore, storeVars
    <2> QED BY <2>1, <2>5, <2>6, QuietStep
            DEF CoordTypeOK, MainTypeOK, CoordBehind, MainBehind
<1>3. CASE StopJoined(p) \/ StopTimedOut(p) \/ IdleExit(p) \/ Shutdown(p)
    <2> USE DEF StopJoined, StopTimedOut, Released, IdleExit, Shutdown, Stopping
    <2>1. StoreTypeOK'
        BY <1>3 DEF storeVars, StoreTypeOK, JobsTypeOK, EventsTypeOK
    <2>2. ProcTypeOK'
        <3>1. used' \in [{"requests", "faults"} -> Nat]
            BY <1>3, SpendType DEF ProcTypeOK
        <3> QED BY <1>3, <3>1 DEF ProcTypeOK, Mode, storeVars
    <2>3. Same
        BY <1>3 DEF storeVars
    <2> QED BY <2>1, <2>2, <2>3, QuietStep
            DEF CoordTypeOK, MainTypeOK, CoordBehind, MainBehind
<1>4. CASE Exit(p) \/ Crash(p)
    <2> USE DEF Exit, Crash, Gone
    <2>1. StoreTypeOK'
        BY <1>4 DEF storeVars, StoreTypeOK, JobsTypeOK, EventsTypeOK
    <2>2. ProcTypeOK'
        <3>1. used' \in [{"requests", "faults"} -> Nat]
            BY <1>4, SpendType DEF ProcTypeOK
        <3>2. queue' \in [Proc -> Seq(Job)]
            <4>1. <<>> \in Seq(Job)
                OBVIOUS
            <4> QED BY <1>4, <4>1 DEF ProcTypeOK
        <3>3. lock' \in Proc \cup {NoProc} /\ mode' \in [Proc -> Mode]
            BY <1>4 DEF ProcTypeOK, Mode
        <3>4. running' \in [Proc -> Job \cup {NoJob}]
            BY <1>4 DEF ProcTypeOK
        <3> QED BY <3>1, <3>2, <3>3, <3>4 DEF ProcTypeOK
    <2>3. CoordTypeOK' /\ MainTypeOK'
        <3>1. IdleCoord \in CoordRecord /\ IdleCoord.pc = "get" /\ IdleCoord.heart = "none"
            BY DEF IdleCoord, CoordRecord, CoordPc, Phase, Result, Heart
        <3>2. IdleMain \in MainRecord /\ IdleMain.pc = "idle"
            BY DEF IdleMain, MainRecord, MainPc, Op
        <3> QED BY <1>4, <3>1, <3>2 DEF CoordTypeOK, MainTypeOK
    <2>4. Gapless' /\ \A j \in Job : LastSequence(j)' = LastSequence(j)
        BY <1>4, QuietStep DEF storeVars
    <2>5. CoordBehind' /\ MainBehind'
        BY <1>4, <2>4, WorkerAssumption
        DEF CoordTypeOK, MainTypeOK, CoordBehind, MainBehind, IdleCoord, IdleMain
    <2> QED BY <2>1, <2>2, <2>3, <2>4, <2>5
<1> QED BY <1>1, <1>2, <1>3, <1>4 DEF ProcessStep

-----------------------------------------------------------------------------
(* The thread that answers requests.                                        *)

LEMMA RequestKeepsIInv ==
    ASSUME IInv, NEW p \in Proc, NEW j \in Job, Submit(p, j) \/ Cancel(p, j) \/ Resume(p, j)
    PROVE  IInv'
<1> USE DEF Submit, Cancel, Resume, Accept
<1>1. PICK m \in MainRecord : /\ m.job = j /\ m.op \in Stage /\ m.seq = 0
                              /\ main' = [main EXCEPT ![p] = m]
    BY DEF MainRecord, MainPc, Op, Stage
<1>2. jobs' \in [Job -> Row]
    BY JobStatements DEF IInv, TypeOK, StoreTypeOK, JobsTypeOK, Result
<1>3. order' \in Seq(Job)
    <2>1. order \in Seq(Job)
        BY DEF IInv, TypeOK, StoreTypeOK, JobsTypeOK
    <2>2. order' = order \/ order' = Append(order, j)
        BY DEF CreateJob
    <2> QED BY <2>1, <2>2
<1>4. StoreTypeOK'
    BY <1>2, <1>3 DEF IInv, TypeOK, StoreTypeOK, JobsTypeOK, EventsTypeOK
<1>5. ProcTypeOK'
    <2>1. used' \in [{"requests", "faults"} -> Nat]
        BY SpendType DEF IInv, TypeOK
    <2> QED BY <2>1 DEF IInv, TypeOK, ProcTypeOK
<1>6. m.seq <= LastSequence(j)
    BY <1>1 DEF IInv, Gapless
<1>7. UNCHANGED <<events, coord>>
    OBVIOUS
<1> QED BY <1>1, <1>4, <1>5, <1>6, <1>7, QuietMainStep

LEMMA HandlerStepKeepsIInv ==
    ASSUME IInv, NEW p \in Proc, HandlerStep(p)
    PROVE  IInv'
<1> USE DEF IInv, TypeOK
<1> DEFINE j == main[p].job
<1>1. main[p] \in MainRecord
    BY DEF MainTypeOK
<1>2. IdleMain \in MainRecord /\ IdleMain.pc = "idle" /\ IdleMain.job \notin Job
    BY WorkerAssumption DEF IdleMain, MainRecord, MainPc, Op
<1>3. main[p].pc # "idle" => j \in Job /\ main[p].op \in Stage
    BY DEF MainTypeOK
<1>4. CASE CancelLook(p)
    <2> USE <1>4 DEF CancelLook
    <2>1. DEFINE m == IF jobs[j].status = "queued" THEN [main[p] EXCEPT !.pc = "mark"]
                      ELSE IdleMain
    <2>2. /\ m \in MainRecord
          /\ m.pc # "idle" => m.job \in Job /\ m.op \in Stage
          /\ m.job \in Job => m.seq <= LastSequence(m.job)
        BY <1>1, <1>2, <1>3 DEF MainRecord, MainPc, Behind, MainBehind
    <2>3. StoreTypeOK' /\ ProcTypeOK'
        BY DEF storeVars, StoreTypeOK, JobsTypeOK, EventsTypeOK, ProcTypeOK
    <2>4. main' = [main EXCEPT ![p] = m] /\ UNCHANGED <<events, coord>>
        BY DEF storeVars
    <2> QED BY <2>2, <2>3, <2>4, QuietMainStep
<1>5. CASE CancelMark(p)
    <2> USE <1>5 DEF CancelMark
    <2>1. DEFINE m == [main[p] EXCEPT !.pc = "read"]
    <2>2. /\ m \in MainRecord
          /\ m.pc # "idle" => m.job \in Job /\ m.op \in Stage
          /\ m.job \in Job => m.seq <= LastSequence(m.job)
        BY <1>1, <1>3 DEF MainRecord, MainPc, Behind, MainBehind
    <2>3. StoreTypeOK'
        <3>1. jobs' \in [Job -> Row]
            BY <1>3, JobStatements DEF StoreTypeOK, JobsTypeOK, Result
        <3> QED BY <3>1 DEF StoreTypeOK, JobsTypeOK, EventsTypeOK
    <2>4. ProcTypeOK'
        BY DEF ProcTypeOK
    <2>5. main' = [main EXCEPT ![p] = m] /\ UNCHANGED <<events, coord>>
        BY DEF MainTypeOK
    <2> QED BY <2>2, <2>3, <2>4, <2>5, QuietMainStep
<1>6. CASE HandlerEmitter(p)
    <2> USE <1>6 DEF HandlerEmitter, EmitterStart
    <2>1. DEFINE m == [main[p] EXCEPT !.pc = "emit", !.seq = LastSequence(j)]
    <2>2. LastSequence(j) \in Nat
        BY <1>3 DEF Gapless
    <2>3. /\ m \in MainRecord
          /\ m.pc # "idle" => m.job \in Job /\ m.op \in Stage
          /\ m.job \in Job => m.seq <= LastSequence(m.job)
        <3>1. m \in MainRecord /\ m.op = main[p].op /\ m.pc = "emit"
              /\ m.job = j /\ m.seq = LastSequence(j)
            BY <1>1, <1>3, <2>2 DEF MainRecord, MainPc
        <3> QED BY <1>3, <1>6, <2>2, <3>1
    <2>4. StoreTypeOK' /\ ProcTypeOK'
        BY DEF storeVars, StoreTypeOK, JobsTypeOK, EventsTypeOK, ProcTypeOK
    <2>5. main' = [main EXCEPT ![p] = m] /\ UNCHANGED <<events, coord>>
        BY DEF storeVars, MainTypeOK
    <2> QED BY <2>3, <2>4, <2>5, QuietMainStep
<1>7. ASSUME HandlerEmit(p), NEW i \in Job, i = j PROVE IInv'
    <2> DEFINE n == main[p].seq + 1
               m == IF KeyTaken(i, n) \/ main[p].op = "cancelled" THEN IdleMain
                    ELSE [main[p] EXCEPT !.pc = "enqueue", !.seq = n]
    <2>1. main[p].op \in Stage
        BY <1>3, <1>7 DEF HandlerEmit
    <2>2. TryAppend(i, n, main[p].op) /\ main' = [main EXCEPT ![p] = m]
        BY <1>7 DEF HandlerEmit
    <2>3. n \in Nat /\ n >= 1 /\ n <= LastSequence(i) + 1
        BY <1>1, <1>7, <2>1 DEF MainRecord, Behind, MainBehind, Gapless
    <2>4. /\ Gapless' /\ EventsTypeOK' /\ LastSequence(i)' >= n
          /\ \A k \in Job : LastSequence(k)' >= LastSequence(k)
        BY <1>7, <2>1, <2>2, <2>3, TryAppendKeepsGapless DEF StoreTypeOK
    <2>5. m \in MainRecord /\ (m.pc # "idle" => m.job \in Job /\ m.op \in Stage)
          /\ (m.job \in Job => m.job = i /\ m.seq = n)
        BY <1>1, <1>2, <1>7, <2>1, <2>3 DEF MainRecord, MainPc
    <2> HIDE DEF m
    <2>6. MainTypeOK'
        BY <2>2, <2>5 DEF MainTypeOK
    <2>7. ASSUME NEW q \in Proc, NEW k \in Job, main'[q].job = k
          PROVE  main'[q].seq <= LastSequence(k)'
        <3>1. CASE q = p
            BY <3>1, <2>2, <2>4, <2>5, <2>7 DEF MainTypeOK
        <3>2. CASE q # p
            <4>1. main'[q] = main[q]
                BY <3>2, <2>2 DEF MainTypeOK
            <4>2. main[q].seq \in Nat /\ main[q].seq <= LastSequence(k)
                BY <4>1, <2>7 DEF Behind, MainBehind, MainTypeOK, MainRecord
            <4>3. LastSequence(k)' >= LastSequence(k)
                  /\ LastSequence(k)' \in Nat /\ LastSequence(k) \in Nat
                BY <2>4 DEF Gapless
            <4> QED BY <4>1, <4>2, <4>3
        <3> QED BY <3>1, <3>2
    <2>8. MainBehind'
        BY <2>7 DEF MainBehind
    <2>9. CoordTypeOK' /\ CoordBehind'
        BY <1>7, <2>4 DEF HandlerEmit, CoordTypeOK, CoordRecord, Behind, CoordBehind, Gapless
    <2>10. StoreTypeOK' /\ ProcTypeOK'
        BY <1>7, <2>4 DEF HandlerEmit, StoreTypeOK, JobsTypeOK, ProcTypeOK, Mode
    <2> QED BY <2>4, <2>6, <2>8, <2>9, <2>10 DEF Behind
<1>8. CASE Enqueue(p)
    <2> USE <1>8 DEF Enqueue, Put
    <2>1. StoreTypeOK'
        BY DEF storeVars, StoreTypeOK, JobsTypeOK, EventsTypeOK
    <2>2. ProcTypeOK'
        <3>1. j \in Job /\ queue[p] \in Seq(Job)
            BY <1>3 DEF ProcTypeOK
        <3>2. Append(queue[p], j) \in Seq(Job)
            BY <3>1
        <3> QED BY <3>2 DEF ProcTypeOK
    <2>3. main' = [main EXCEPT ![p] = IdleMain] /\ UNCHANGED <<events, coord>>
        BY DEF storeVars
    <2> QED BY <1>2, <2>1, <2>2, <2>3, QuietMainStep
<1>9. HandlerEmit(p) => j \in Job
    BY <1>3 DEF HandlerEmit
<1> QED BY <1>4, <1>5, <1>6, <1>7, <1>8, <1>9 DEF HandlerStep

-----------------------------------------------------------------------------
(* The thread that executes jobs.                                           *)

\* The three ways a step of the coordinator can write to the other tables.
LEMMA CoordFrame ==
    ASSUME TypeOK,
           UNCHANGED <<order, events, lock, mode, main>>,
           jobs' \in [Job -> Row], artifacts' \in [Job -> [Format -> Nat]],
           queue' \in [Proc -> Seq(Job)], running' \in [Proc -> Job \cup {NoJob}],
           used' \in [{"requests", "faults"} -> Nat]
    PROVE  StoreTypeOK' /\ ProcTypeOK'
BY DEF TypeOK, StoreTypeOK, JobsTypeOK, EventsTypeOK, ProcTypeOK

\* A step that moves the coordinator within a job and at most writes its row.
LEMMA CoordWrite ==
    ASSUME IInv, NEW p \in Proc, NEW c \in CoordRecord, coord[p].job \in Job,
           c.job = coord[p].job, c.seq = coord[p].seq,
           coord' = [coord EXCEPT ![p] = c],
           jobs' \in [Job -> Row], artifacts' \in [Job -> [Format -> Nat]],
           running' \in [Proc -> Job \cup {NoJob}],
           used' \in [{"requests", "faults"} -> Nat],
           UNCHANGED <<order, events, lock, mode, queue, main>>
    PROVE  IInv'
<1>1. StoreTypeOK' /\ ProcTypeOK'
    BY CoordFrame DEF IInv, TypeOK, ProcTypeOK
<1>2. c.job \in Job => c.seq <= LastSequence(c.job)
    BY DEF IInv, Behind, CoordBehind
<1> QED BY <1>1, <1>2, QuietCoordStep

LEMMA QueueStepKeepsIInv ==
    ASSUME IInv, NEW p \in Proc,
           Dequeue(p) \/ StopSeen(p) \/ CoordEmitter(p) \/ Finish(p)
    PROVE  IInv'
<1> USE DEF IInv, TypeOK
<1> DEFINE Typed == /\ jobs \in [Job -> Row] /\ artifacts \in [Job -> [Format -> Nat]]
                    /\ queue \in [Proc -> Seq(Job)] /\ running \in [Proc -> Job \cup {NoJob}]
                    /\ used \in [{"requests", "faults"} -> Nat]
<1>0. Typed
    BY DEF StoreTypeOK, JobsTypeOK, ProcTypeOK
<1>1. coord[p] \in CoordRecord
    BY DEF CoordTypeOK
<1>idle. IdleCoord \in CoordRecord /\ IdleCoord.job = NoJob /\ IdleCoord.seq = 0
         /\ IdleCoord.heart = "none"
    BY DEF CoordRecord, IdleCoord, CoordPc, Phase, Result, Heart
<1>2. CASE Dequeue(p)
    <2> USE <1>2 DEF Dequeue
    <2> DEFINE c == [IdleCoord EXCEPT !.pc = "got", !.job = Head(queue[p])]
    <2>1. queue[p] \in Seq(Job) /\ queue[p] # <<>>
        BY <1>0
    <2>2. Head(queue[p]) \in Job /\ Tail(queue[p]) \in Seq(Job)
        BY <2>1
    <2>3. c \in CoordRecord /\ c.job \in Job /\ c.seq = 0
        BY <1>idle, <2>2 DEF CoordRecord, CoordPc, PreClaim
    <2>4. c.seq <= LastSequence(c.job)
        BY <2>3 DEF Gapless
    <2>5. UNCHANGED <<storeVars, lock, mode, running, main, used>>
        OBVIOUS
    <2>6. queue' \in [Proc -> Seq(Job)]
        BY <1>0, <2>2
    <2>7. StoreTypeOK' /\ ProcTypeOK'
        BY <1>0, <2>5, <2>6, CoordFrame DEF storeVars
    <2>8. coord' = [coord EXCEPT ![p] = c]
        OBVIOUS
    <2> HIDE DEF c
    <2> QED BY <2>3, <2>4, <2>5, <2>7, <2>8, QuietCoordStep DEF storeVars
<1>3. CASE StopSeen(p)
    <2> USE <1>3 DEF StopSeen, Goto, At
    <2> DEFINE c == [coord[p] EXCEPT !.pc = "exited"]
    <2>1. c \in CoordRecord /\ c.pc = "exited"
          /\ c.job = coord[p].job /\ c.seq = coord[p].seq /\ c.heart = coord[p].heart
        BY <1>1 DEF CoordRecord, CoordPc
    <2>2. /\ c.job \in Job => c.seq <= LastSequence(c.job)
          /\ c.heart # "none" => c.job \in Job
        BY <2>1 DEF Behind, CoordBehind, CoordTypeOK
    <2>3. StoreTypeOK' /\ ProcTypeOK'
        BY <1>0, CoordFrame DEF storeVars
    <2>4. coord' = [coord EXCEPT ![p] = c] /\ UNCHANGED <<events, main>>
        BY DEF CoordTypeOK, storeVars
    <2> HIDE DEF c
    <2> QED BY <2>1, <2>2, <2>3, <2>4, QuietCoordStep
<1>4. CASE CoordEmitter(p)
    <2> USE <1>4 DEF CoordEmitter, EmitterStart, At
    <2> DEFINE c == [coord[p] EXCEPT !.seq = LastSequence(coord[p].job),
                             !.pc = IF coord[p].cancel THEN "preCancel" ELSE "claim"]
    <2>1. coord[p].job \in Job
        BY DEF CoordTypeOK
    <2>2. LastSequence(coord[p].job) \in Nat
        BY <2>1 DEF Gapless
    <2>3. c \in CoordRecord /\ c.job = coord[p].job /\ c.seq = LastSequence(coord[p].job)
        BY <1>1, <2>2 DEF CoordRecord, CoordPc, PreClaim
    <2>4. c.seq <= LastSequence(c.job)
        BY <2>2, <2>3
    <2>5. StoreTypeOK' /\ ProcTypeOK'
        BY <1>0, CoordFrame DEF storeVars
    <2>6. coord' = [coord EXCEPT ![p] = c] /\ UNCHANGED <<events, main>>
        BY DEF CoordTypeOK, storeVars
    <2> HIDE DEF c
    <2> QED BY <2>1, <2>3, <2>4, <2>5, <2>6, QuietCoordStep
<1>5. CASE Finish(p)
    <2> USE <1>5 DEF Finish
    <2>1. PICK pc \in {"dead", "exited", "get"} :
              coord' = [coord EXCEPT ![p] = [IdleCoord EXCEPT !.pc = pc]]
        OBVIOUS
    <2> DEFINE c == [IdleCoord EXCEPT !.pc = pc]
    <2>2. c \in CoordRecord /\ c.pc = pc /\ c.job \notin Job /\ c.heart = "none"
        BY <1>idle, WorkerAssumption DEF CoordRecord, CoordPc
    <2>3. running' \in [Proc -> Job \cup {NoJob}]
        BY <1>0
    <2>4. UNCHANGED <<storeVars, lock, mode, queue, main, used>>
        OBVIOUS
    <2>5. StoreTypeOK' /\ ProcTypeOK'
        BY <1>0, <2>3, <2>4, CoordFrame DEF storeVars
    <2> HIDE DEF c
    <2>6. coord' = [coord EXCEPT ![p] = c]
        BY <2>1 DEF c
    <2> QED BY <2>2, <2>4, <2>5, <2>6, QuietCoordStep DEF storeVars
<1> QED BY <1>2, <1>3, <1>4, <1>5

LEMMA GotoRecord ==
    ASSUME CoordTypeOK, NEW p \in Proc, NEW pc \in CoordPc, Goto(p, pc)
    PROVE  \E c \in CoordRecord : /\ c.job = coord[p].job /\ c.seq = coord[p].seq
                                  /\ coord' = [coord EXCEPT ![p] = c]
<1> DEFINE c == [coord[p] EXCEPT !.pc = pc]
<1>1. coord[p] \in CoordRecord /\ coord' = [coord EXCEPT ![p] = c]
    BY DEF CoordTypeOK, Goto
<1>2. c \in CoordRecord /\ c.job = coord[p].job /\ c.seq = coord[p].seq
    BY <1>1 DEF CoordRecord
<1> HIDE DEF c
<1> QED BY <1>1, <1>2

WritingStep(p) ==
    \/ ReadJob(p) \/ PreCancel(p) \/ Claim(p) \/ BeginExecution(p) \/ NoThread(p)
    \/ CrashFail(p) \/ NotCancelled(p) \/ CancelHonoured(p) \/ CancelSwallowed(p)
    \/ WriteJson(p) \/ WriteRest(p) \/ Complete(p) \/ EngineCancel(p) \/ EngineFail(p)
    \/ \E result \in {"analysis_incomplete", "internal_error"} : EngineRaises(p, result)

LEMMA WritingStepKeepsIInv ==
    ASSUME IInv, NEW p \in Proc, WritingStep(p)
    PROVE  IInv'
<1> DEFINE Moved == \E c \in CoordRecord : /\ c.job = coord[p].job /\ c.seq = coord[p].seq
                                           /\ coord' = [coord EXCEPT ![p] = c]
           Typed == /\ jobs' \in [Job -> Row] /\ artifacts' \in [Job -> [Format -> Nat]]
                    /\ running' \in [Proc -> Job \cup {NoJob}]
                    /\ used' \in [{"requests", "faults"} -> Nat]
           Frame == UNCHANGED <<order, events, lock, mode, queue, main>>
<1>0. /\ jobs \in [Job -> Row] /\ artifacts \in [Job -> [Format -> Nat]]
      /\ running \in [Proc -> Job \cup {NoJob}]
      /\ used \in [{"requests", "faults"} -> Nat]
      /\ coord[p] \in CoordRecord /\ coord \in [Proc -> CoordRecord] /\ CoordTypeOK
    BY DEF IInv, TypeOK, StoreTypeOK, JobsTypeOK, ProcTypeOK, CoordTypeOK
<1>1. coord[p].job \in Job
    <2>1. coord[p].pc \notin {"get", "exited", "dead"}
        BY DEF WritingStep, ReadJob, PreCancel, Claim, BeginExecution, NoThread, CrashFail,
               NotCancelled, CancelHonoured, CancelSwallowed, WriteJson, WriteRest,
               WriteReport, Complete, EngineCancel, EngineFail, EngineRaises, Engine, At
    <2> QED BY <2>1, <1>0 DEF CoordTypeOK
<1> DEFINE j == coord[p].job
<1>2. coord[p].result \in Result /\ coord[p].attempt \in Nat /\ jobs[j] \in Row
    BY <1>0, <1>1 DEF CoordRecord
<1>3. {"fin", "emitter", "preCancelEvent", "claimed", "crashFail", "crashEvent", "check",
       "stage", "cancel", "cancelEvent", "fail", "failEvent", "writeRest", "reportEvent"}
      \subseteq CoordPc
    BY DEF CoordPc, PreClaim, Executing, Engine
<1>4. CASE ReadJob(p)
    <2> DEFINE c == [coord[p] EXCEPT
                        !.pc = IF jobs[j].status = "queued" THEN "emitter" ELSE "fin",
                        !.cancel = jobs[j].cancel]
    <2>1. coord' = [coord EXCEPT ![p] = c]
        BY <1>0, <1>4 DEF ReadJob
    <2>2. c \in CoordRecord /\ c.job = coord[p].job /\ c.seq = coord[p].seq
        BY <1>0, <1>2, <1>3 DEF CoordRecord, Row
    <2> HIDE DEF c
    <2> QED BY <1>0, <1>1, <1>4, <2>1, <2>2, CoordWrite DEF ReadJob, storeVars
<1>5. CASE Claim(p)
    <2>1. CASE Claimable(j)
        <3> DEFINE c == [coord[p] EXCEPT !.pc = "claimed", !.attempt = jobs[j].attempt + 1]
        <3>1. coord' = [coord EXCEPT ![p] = c] /\ MarkRunning(j)
            BY <1>0, <1>5, <2>1 DEF Claim
        <3>2. jobs' \in [Job -> Row]
            BY <1>0, <1>1, <3>1, JobStatements DEF Result
        <3>3. c \in CoordRecord /\ c.job = coord[p].job /\ c.seq = coord[p].seq
            <4>1. jobs[j].attempt + 1 \in Nat
                BY <1>2 DEF Row
            <4> QED BY <1>0, <1>3, <4>1 DEF CoordRecord
        <3> HIDE DEF c
        <3> QED BY <1>0, <1>1, <1>5, <3>1, <3>2, <3>3, CoordWrite DEF Claim
    <2>2. CASE ~Claimable(j)
        <3>1. Goto(p, "fin") /\ UNCHANGED jobs
            BY <1>5, <2>2 DEF Claim
        <3>2. Moved
            BY <1>0, <1>3, <3>1, GotoRecord
        <3> QED BY <1>0, <1>1, <1>5, <3>1, <3>2, CoordWrite DEF Claim
    <2> QED BY <2>1, <2>2
<1>6. CASE BeginExecution(p)
    <2> DEFINE c == [coord[p] EXCEPT !.pc = "check", !.heart = "beating"]
    <2>1. coord' = [coord EXCEPT ![p] = c] /\ running' \in [Proc -> Job \cup {NoJob}]
        BY <1>0, <1>1, <1>6 DEF BeginExecution
    <2>2. c \in CoordRecord /\ c.job = coord[p].job /\ c.seq = coord[p].seq
        BY <1>0, <1>3 DEF CoordRecord, Heart
    <2> HIDE DEF c
    <2> QED BY <1>0, <1>1, <1>6, <2>1, <2>2, CoordWrite DEF BeginExecution, storeVars
<1>7. CASE NoThread(p)
    <2> DEFINE c == [coord[p] EXCEPT !.pc = "crashFail", !.heart = "unstarted"]
    <2>1. coord' = [coord EXCEPT ![p] = c] /\ running' \in [Proc -> Job \cup {NoJob}]
        BY <1>0, <1>1, <1>7 DEF NoThread
    <2>2. c \in CoordRecord /\ c.job = coord[p].job /\ c.seq = coord[p].seq
        BY <1>0, <1>3 DEF CoordRecord, Heart
    <2>3. used' \in [{"requests", "faults"} -> Nat]
        BY <1>7, SpendType DEF NoThread, IInv, TypeOK
    <2> HIDE DEF c
    <2> QED BY <1>0, <1>1, <1>7, <2>1, <2>2, <2>3, CoordWrite DEF NoThread, storeVars
<1>8. CASE CancelSwallowed(p)
    <2> DEFINE c == [coord[p] EXCEPT !.pc = "stage", !.phase = 3]
    <2>1. coord' = [coord EXCEPT ![p] = c]
        BY <1>0, <1>8 DEF CancelSwallowed
    <2>2. c \in CoordRecord /\ c.job = coord[p].job /\ c.seq = coord[p].seq
        <3>1. 3 \in DOMAIN Phase
            BY DEF Phase
        <3> QED BY <1>0, <1>3, <3>1 DEF CoordRecord
    <2> HIDE DEF c
    <2> QED BY <1>0, <1>1, <1>8, <2>1, <2>2, CoordWrite DEF CancelSwallowed, storeVars
<1>9. CASE \E result \in {"analysis_incomplete", "internal_error"} : EngineRaises(p, result)
    <2> PICK result \in {"analysis_incomplete", "internal_error"} : EngineRaises(p, result)
        BY <1>9
    <2> DEFINE c == [coord[p] EXCEPT !.pc = "fail", !.result = result]
    <2>1. coord' = [coord EXCEPT ![p] = c]
        BY <1>0 DEF EngineRaises, Raised
    <2>2. c \in CoordRecord /\ c.job = coord[p].job /\ c.seq = coord[p].seq
        BY <1>0, <1>3 DEF CoordRecord, Result
    <2> HIDE DEF c
    <2> QED BY <1>0, <1>1, <2>1, <2>2, CoordWrite DEF EngineRaises, storeVars
<1>10. CASE NotCancelled(p) \/ CancelHonoured(p)
    <2>1. Moved
        BY <1>0, <1>3, <1>10, GotoRecord DEF NotCancelled, CancelHonoured, EngineGoto
    <2> QED BY <1>0, <1>1, <1>10, <2>1, CoordWrite
            DEF NotCancelled, CancelHonoured, EngineGoto, storeVars
<1>11. CASE WriteJson(p) \/ WriteRest(p)
    <2> USE DEF WriteJson, WriteRest, WriteReport
    <2>1. Moved
        BY <1>0, <1>3, <1>11, GotoRecord
    <2>2. artifacts' \in [Job -> [Format -> Nat]]
        BY <1>0, <1>1, <1>2, <1>11 DEF WriteArtifact, Format
    <2> QED BY <1>0, <1>1, <1>11, <2>1, <2>2, CoordWrite
<1>12. CASE PreCancel(p) \/ CrashFail(p) \/ Complete(p) \/ EngineCancel(p) \/ EngineFail(p)
    <2> USE DEF PreCancel, CrashFail, Complete, EngineCancel, EngineFail
    <2>1. Moved
        BY <1>0, <1>3, <1>12, GotoRecord
    <2>2. jobs' \in [Job -> Row]
        BY <1>0, <1>1, <1>2, <1>12, JobStatements DEF Result
    <2> QED BY <1>0, <1>1, <1>12, <2>1, <2>2, CoordWrite
<1> QED BY <1>4, <1>5, <1>6, <1>7, <1>8, <1>9, <1>10, <1>11, <1>12 DEF WritingStep

EmittingStep(p) ==
    \/ PreCancelEvent(p) \/ CrashEvent(p) \/ EmitStage(p) \/ ReportEvent(p)
    \/ CancelEvent(p) \/ FailEvent(p) \/ Heartbeat(p)

LEMMA EmittingStepKeepsIInv ==
    ASSUME IInv, NEW p \in Proc, EmittingStep(p)
    PROVE  IInv'
<1>0. coord[p] \in CoordRecord /\ ProcTypeOK
    BY DEF IInv, TypeOK, CoordTypeOK
<1>1. coord[p].job \in Job
    <2>1. coord[p].pc \notin {"get", "exited", "dead"} \/ coord[p].heart # "none"
        BY DEF EmittingStep, PreCancelEvent, CrashEvent, EmitStage, ReportEvent,
               CancelEvent, FailEvent, LastEvent, Heartbeat, At
    <2> QED BY <2>1, <1>0 DEF IInv, TypeOK, CoordTypeOK
<1>2. /\ To(p, "fin") \in CoordRecord /\ To(p, "fin").job = coord[p].job
      /\ To(p, "crashFail") \in CoordRecord /\ To(p, "crashFail").job = coord[p].job
      /\ To(p, "crashDead") \in CoordRecord /\ To(p, "crashDead").job = coord[p].job
      /\ To(p, "writeJson") \in CoordRecord /\ To(p, "writeJson").job = coord[p].job
      /\ To(p, "complete") \in CoordRecord /\ To(p, "complete").job = coord[p].job
      /\ Raised(p) \in CoordRecord /\ Raised(p).job = coord[p].job
    BY <1>0 DEF To, Raised, CoordRecord, CoordPc, Executing, Engine, Result
<1>3. {"cancelled", "error", "report", "heartbeat"} \subseteq Stage
    BY DEF Stage
<1>4. CASE PreCancelEvent(p) \/ CrashEvent(p) \/ ReportEvent(p) \/ CancelEvent(p) \/ FailEvent(p)
    <2> USE DEF PreCancelEvent, CrashEvent, ReportEvent, CancelEvent, FailEvent, LastEvent
    <2>1. ProcTypeOK' /\ UNCHANGED <<jobs, order, artifacts, main>>
        BY <1>0, <1>4 DEF ProcTypeOK
    <2> QED BY <1>1, <1>2, <1>3, <1>4, <2>1, EmitKeepsIInv
<1>5. CASE EmitStage(p)
    <2> DEFINE i == coord[p].phase
               then == IF i = Len(Phase) THEN To(p, "writeJson")
                       ELSE [To(p, "check") EXCEPT !.phase = i + 1]
    <2>1. i \in 1..3 /\ Len(Phase) = 3 /\ Phase[i] \in Stage
        BY <1>0 DEF CoordRecord, Phase, Stage
    <2>2. then \in CoordRecord /\ then.job = coord[p].job
        <3>1. CASE i = 3
            BY <3>1, <2>1, <1>2
        <3>2. CASE i # 3
            <4>1. i + 1 \in DOMAIN Phase
                BY <3>2, <2>1 DEF Phase
            <4> QED BY <3>2, <4>1, <2>1, <1>0 DEF To, CoordRecord, CoordPc, Executing, Engine
        <3> QED BY <3>1, <3>2
    <2>3. ProcTypeOK' /\ UNCHANGED <<jobs, order, artifacts, main>>
        BY <1>0, <1>5 DEF EmitStage, ProcTypeOK
    <2>4. Emit(p, Phase[i], then, Raised(p))
        BY <1>5 DEF EmitStage
    <2> HIDE DEF then, i
    <2> QED BY <1>1, <1>2, <2>1, <2>2, <2>3, <2>4, EmitKeepsIInv
<1>6. CASE Heartbeat(p)
    <2> DEFINE stopped == [coord[p] EXCEPT !.heart = "stopped"]
    <2>1. stopped \in CoordRecord /\ stopped.job = coord[p].job
        BY <1>0 DEF CoordRecord, Heart
    <2>2. used' \in [{"requests", "faults"} -> Nat]
        BY <1>0, <1>6, SpendType DEF Heartbeat
    <2>3. ProcTypeOK' /\ UNCHANGED <<jobs, order, artifacts, main>>
        BY <1>0, <1>6, <2>2 DEF Heartbeat, ProcTypeOK
    <2>4. Emit(p, "heartbeat", coord[p], stopped)
        BY <1>6 DEF Heartbeat
    <2> HIDE DEF stopped
    <2> QED BY <1>0, <1>1, <1>3, <2>1, <2>3, <2>4, EmitKeepsIInv
<1> QED BY <1>4, <1>5, <1>6 DEF EmittingStep

-----------------------------------------------------------------------------
(* The invariant and what follows from it.                                  *)

LEMMA NextKeepsIInv == IInv /\ [Next]_vars => IInv'
<1> SUFFICES ASSUME IInv, [Next]_vars PROVE IInv'
    OBVIOUS
<1>1. ASSUME NEW p \in Proc,
             ProcessStep(p) \/ HandlerStep(p) \/ CoordStep(p) \/ Environment(p)
      PROVE  IInv'
    <2>1. CASE ProcessStep(p) \/ IdleExit(p) \/ Shutdown(p) \/ StopTimedOut(p) \/ Crash(p)
        BY <2>1, ProcessStepKeepsIInv
    <2>2. CASE HandlerStep(p)
        BY <2>2, HandlerStepKeepsIInv
    <2>3. CASE \E j \in Job : Submit(p, j) \/ Cancel(p, j) \/ Resume(p, j)
        BY <2>3, RequestKeepsIInv
    <2>4. CASE Dequeue(p) \/ StopSeen(p) \/ CoordEmitter(p) \/ Finish(p)
        BY <2>4, QueueStepKeepsIInv
    <2>5. CASE WritingStep(p)
        BY <2>5, WritingStepKeepsIInv
    <2>6. CASE EmittingStep(p)
        BY <2>6, EmittingStepKeepsIInv
    <2> QED BY <1>1, <2>1, <2>2, <2>3, <2>4, <2>5, <2>6
            DEF CoordStep, Environment, WritingStep, EmittingStep
<1>2. CASE UNCHANGED vars
    <2>1. UNCHANGED <<jobs, order, events, artifacts, lock, mode, queue, running,
                      coord, main, used>>
        BY <1>2 DEF vars, storeVars, procVars
    <2>2. Gapless' /\ \A j \in Job : LastSequence(j)' = LastSequence(j)
        BY <2>1, QuietStep DEF IInv
    <2>3. StoreTypeOK' /\ ProcTypeOK'
        BY <2>1 DEF IInv, TypeOK, StoreTypeOK, JobsTypeOK, EventsTypeOK, ProcTypeOK
    <2>4. CoordTypeOK' /\ MainTypeOK'
        BY <2>1 DEF IInv, TypeOK, CoordTypeOK, MainTypeOK
    <2>5. Behind'
        BY <2>1, <2>2 DEF IInv, TypeOK, CoordTypeOK, MainTypeOK, Behind, CoordBehind, MainBehind
    <2> QED BY <2>2, <2>3, <2>4, <2>5 DEF IInv, TypeOK
<1> QED BY <1>1, <1>2 DEF Next

\* The inductive invariant holds in every state of every execution: the counter
\* of no emitter, alive in whichever process, is ahead of the feed it numbers.
THEOREM InductiveInvariant == Spec => []IInv
BY InitIInv, NextKeepsIInv, PTL DEF Spec

\* Type correctness, for any jobs, processes and bounds.
THEOREM TypeCorrect == Spec => []TypeOK
<1>1. IInv => TypeOK
    BY DEF IInv
<1> QED BY <1>1, InductiveInvariant, PTL

\* The numbers of a job's events never show a gap (DurableEmitter, append_event).
THEOREM EventsAreContiguous == Spec => []EventsContiguous
<1>1. IInv => EventsContiguous
    BY DEF IInv, Gapless, EventsContiguous
<1> QED BY <1>1, InductiveInvariant, PTL

-----------------------------------------------------------------------------
(* The worker implements the feed.                                          *)

\* An INSERT at most one past the end appends one event or none.
LEMMA TryAppendPublishes ==
    ASSUME EventsTypeOK, Gapless, NEW j \in Job, NEW stage \in Stage, NEW n \in Nat,
           n >= 1, n <= LastSequence(j) + 1, TryAppend(j, n, stage)
    PROVE  Feed!Publish(j, stage) \/ UNCHANGED events
<1>1. CASE KeyTaken(j, n)
    BY <1>1 DEF TryAppend
<1>2. CASE ~KeyTaken(j, n)
    <2>1. n = LastSequence(j) + 1 /\ DOMAIN events[j] = 1..(n - 1)
        BY <1>2 DEF KeyTaken, Gapless
    <2>2. events[j] \in Seq(Stage) /\ Len(events[j]) = n - 1
        BY <2>1 DEF EventsTypeOK
    <2>3. Append(events[j], stage) =
              [i \in 1..n |-> IF i = n THEN stage ELSE events[j][i]]
        BY <2>2
    <2>4. (DOMAIN events[j]) \cup {n} = 1..n
        BY <2>1
    <2>5. events' = [events EXCEPT ![j] = Append(events[j], stage)]
        BY <1>2, <2>3, <2>4 DEF TryAppend, AppendEvent
    <2> QED BY <2>5 DEF Feed!Publish
<1> QED BY <1>1, <1>2

LEMMA StepPublishes ==
    ASSUME IInv, [Next]_vars
    PROVE  Feed!Next \/ UNCHANGED events
<1>1. CASE UNCHANGED vars
    BY <1>1 DEF vars, storeVars
<1>2. ASSUME NEW p \in Proc, EmittingStep(p)
      PROVE  Feed!Next \/ UNCHANGED events
    <2> DEFINE n == coord[p].seq + 1
    <2>1. coord[p] \in CoordRecord /\ coord[p].job \in Job
        <3>1. coord[p].pc \notin {"get", "exited", "dead"} \/ coord[p].heart # "none"
            BY <1>2 DEF EmittingStep, PreCancelEvent, CrashEvent, EmitStage, ReportEvent,
                        CancelEvent, FailEvent, LastEvent, Heartbeat, At
        <3> QED BY <3>1 DEF IInv, TypeOK, CoordTypeOK
    <2>2. n \in Nat /\ n >= 1 /\ n <= LastSequence(coord[p].job) + 1
        BY <2>1 DEF CoordRecord, IInv, Behind, CoordBehind, Gapless
    <2>3. PICK stage \in Stage : TryAppend(coord[p].job, n, stage)
        <3>1. Phase[coord[p].phase] \in Stage
            BY <2>1 DEF CoordRecord, Phase, Stage
        <3>2. {"cancelled", "error", "report", "heartbeat"} \subseteq Stage
            BY DEF Stage
        <3> QED BY <1>2, <3>1, <3>2 DEF EmittingStep, PreCancelEvent, CrashEvent, EmitStage,
                    ReportEvent, CancelEvent, FailEvent, LastEvent, Heartbeat, Emit
    <2> QED BY <2>1, <2>2, <2>3, TryAppendPublishes
            DEF IInv, TypeOK, StoreTypeOK, Feed!Next
<1>3. ASSUME NEW p \in Proc, HandlerEmit(p)
      PROVE  Feed!Next \/ UNCHANGED events
    <2> DEFINE n == main[p].seq + 1
    <2>1. main[p] \in MainRecord /\ main[p].job \in Job /\ main[p].op \in Stage
        BY <1>3 DEF HandlerEmit, IInv, TypeOK, MainTypeOK
    <2>2. n \in Nat /\ n >= 1 /\ n <= LastSequence(main[p].job) + 1
        BY <2>1 DEF MainRecord, IInv, Behind, MainBehind, Gapless
    <2>3. TryAppend(main[p].job, n, main[p].op)
        BY <1>3 DEF HandlerEmit
    <2> QED BY <2>1, <2>2, <2>3, TryAppendPublishes
            DEF IInv, TypeOK, StoreTypeOK, Feed!Next
<1>4. ASSUME NEW p \in Proc,
             ProcessStep(p) \/ IdleExit(p) \/ Shutdown(p) \/ StopTimedOut(p) \/ Crash(p)
      PROVE  UNCHANGED events
    BY <1>4 DEF ProcessStep, Start, Restore, StopJoined, StopTimedOut, Released, IdleExit,
                Shutdown, Exit, Crash, Gone, storeVars
<1>5. ASSUME NEW p \in Proc,
             \/ CancelLook(p) \/ CancelMark(p) \/ HandlerEmitter(p) \/ Enqueue(p)
             \/ \E j \in Job : Submit(p, j) \/ Cancel(p, j) \/ Resume(p, j)
      PROVE  UNCHANGED events
    BY <1>5 DEF CancelLook, CancelMark, HandlerEmitter, Enqueue, Submit, Cancel, Resume,
                Accept, storeVars
<1>6. ASSUME NEW p \in Proc,
             Dequeue(p) \/ StopSeen(p) \/ CoordEmitter(p) \/ Finish(p) \/ WritingStep(p)
      PROVE  UNCHANGED events
    BY <1>6 DEF Dequeue, StopSeen, CoordEmitter, Finish, WritingStep, ReadJob, PreCancel,
                Claim, BeginExecution, NoThread, CrashFail, NotCancelled, CancelHonoured,
                EngineGoto, CancelSwallowed, WriteJson, WriteRest, WriteReport, Complete,
                EngineCancel, EngineFail, EngineRaises, storeVars
<1> QED BY <1>1, <1>2, <1>3, <1>4, <1>5, <1>6
        DEF Next, HandlerStep, CoordStep, Environment, WritingStep, EmittingStep

\* Refinement: whatever the threads, processes and crashes do, the events table
\* behaves as one feed per job that grows at its end (events_since, "status").
THEOREM WorkerImplementsFeed == Spec => FeedSpec
<1>1. Init => Feed!Init
    BY DEF Init, StoreInit, Feed!Init
<1>2. IInv /\ [Next]_vars => [Feed!Next]_events
    BY StepPublishes
<1> QED BY <1>1, <1>2, InductiveInvariant, PTL DEF Spec, FeedSpec, Feed!Spec

-----------------------------------------------------------------------------
(* The result column.                                                       *)

\* What the coordinator is about to write as the result of a failure is one.
FailuresKnown ==
    \A p \in Proc : coord[p].pc = "fail" =>
        coord[p].result \in {"analysis_incomplete", "internal_error"}

RInv == ResultMatchesStatus /\ FailuresKnown

\* Every statement on the jobs table, used as the code uses it, keeps status and
\* result of all rows in step.
LEMMA StatementsKeepResults ==
    ASSUME jobs \in [Job -> Row], ResultMatchesStatus, NEW j \in Job,
           \/ UNCHANGED jobs \/ RecoverInterruptedJobs
           \/ CreateJob(j) \/ (Claimable(j) /\ MarkRunning(j)) \/ RequestCancel(j)
           \/ MarkCancelled(j) \/ ResumeJob(j) \/ CompleteJob(j, "reported")
           \/ \E result \in {"analysis_incomplete", "internal_error"} : FailJob(j, result)
    PROVE  ResultMatchesStatus'
<1> USE DEF ResultMatchesStatus
<1>1. CASE UNCHANGED jobs
    BY <1>1
<1>2. CASE RecoverInterruptedJobs
    BY <1>2 DEF RecoverInterruptedJobs, Row
<1>3. CASE CreateJob(j)
    BY <1>3 DEF CreateJob, Absent
<1>4. CASE Claimable(j) /\ MarkRunning(j)
    BY <1>4 DEF Claimable, MarkRunning
<1>5. CASE RequestCancel(j)
    BY <1>5 DEF RequestCancel, Row
<1>6. CASE MarkCancelled(j)
    BY <1>6 DEF MarkCancelled, Row
<1>7. CASE ResumeJob(j)
    BY <1>7 DEF ResumeJob, Row
<1>8. CASE CompleteJob(j, "reported")
    BY <1>8 DEF CompleteJob
<1>9. CASE \E result \in {"analysis_incomplete", "internal_error"} : FailJob(j, result)
    BY <1>9 DEF FailJob, Row
<1> QED BY <1>1, <1>2, <1>3, <1>4, <1>5, <1>6, <1>7, <1>8, <1>9

LEMMA NextKeepsResults == IInv /\ RInv /\ [Next]_vars => ResultMatchesStatus'
<1> SUFFICES ASSUME IInv, RInv, [Next]_vars PROVE ResultMatchesStatus'
    OBVIOUS
<1>0. /\ jobs \in [Job -> Row] /\ coord \in [Proc -> CoordRecord]
      /\ ResultMatchesStatus /\ FailuresKnown
    BY DEF IInv, TypeOK, StoreTypeOK, JobsTypeOK, CoordTypeOK, RInv
<1>1. ASSUME UNCHANGED jobs PROVE ResultMatchesStatus'
    BY <1>0, <1>1 DEF ResultMatchesStatus
<1>2. ASSUME NEW p \in Proc, ProcessStep(p) PROVE ResultMatchesStatus'
    <2>1. CASE Start(p)
        BY <1>0, <2>1 DEF Start, RecoverInterruptedJobs, Row, ResultMatchesStatus
    <2>2. CASE Restore(p) \/ StopJoined(p) \/ Exit(p)
        BY <1>1, <2>2 DEF Restore, StopJoined, Released, Exit, Gone, storeVars
    <2> QED BY <1>2, <2>1, <2>2 DEF ProcessStep
<1>3. ASSUME NEW p \in Proc, HandlerStep(p) PROVE ResultMatchesStatus'
    <2>1. CASE CancelMark(p)
        <3>1. main[p].job \in Job /\ MarkCancelled(main[p].job)
            BY <2>1 DEF CancelMark, IInv, TypeOK, MainTypeOK
        <3> QED BY <1>0, <3>1, StatementsKeepResults
    <2>2. CASE CancelLook(p) \/ HandlerEmitter(p) \/ HandlerEmit(p) \/ Enqueue(p)
        BY <1>1, <2>2 DEF CancelLook, HandlerEmitter, HandlerEmit, Enqueue, storeVars
    <2> QED BY <1>3, <2>1, <2>2 DEF HandlerStep
<1>4. ASSUME NEW p \in Proc, Environment(p) PROVE ResultMatchesStatus'
    <2>1. ASSUME NEW j \in Job, Submit(p, j) \/ Cancel(p, j) \/ Resume(p, j)
          PROVE  ResultMatchesStatus'
        BY <1>0, <2>1, StatementsKeepResults DEF Submit, Cancel, Resume
    <2>2. CASE Shutdown(p) \/ IdleExit(p) \/ StopTimedOut(p) \/ Crash(p)
               \/ NoThread(p) \/ Heartbeat(p)
        BY <1>1, <2>2 DEF Shutdown, IdleExit, StopTimedOut, Released, Crash, Gone,
                          NoThread, Heartbeat, storeVars
    <2> QED BY <1>4, <2>1, <2>2 DEF Environment
<1>5. ASSUME NEW p \in Proc, CoordStep(p) PROVE ResultMatchesStatus'
    <2> DEFINE j == coord[p].job
    <2>1. CASE PreCancel(p) \/ Claim(p) \/ CrashFail(p) \/ Complete(p)
               \/ EngineCancel(p) \/ EngineFail(p)
        <3>1. j \in Job
            BY <2>1 DEF PreCancel, Claim, CrashFail, Complete, EngineCancel, EngineFail, At,
                        IInv, TypeOK, CoordTypeOK
        <3>2. EngineFail(p) => coord[p].result \in {"analysis_incomplete", "internal_error"}
            BY <1>0 DEF EngineFail, At, FailuresKnown
        <3>3. CASE PreCancel(p) \/ EngineCancel(p)
            BY <1>0, <3>1, <3>3, StatementsKeepResults DEF PreCancel, EngineCancel
        <3>4. CASE Claim(p)
            BY <1>0, <1>1, <3>1, <3>4, StatementsKeepResults DEF Claim
        <3>5. CASE CrashFail(p) \/ EngineFail(p)
            <4>1. \E result \in {"analysis_incomplete", "internal_error"} : FailJob(j, result)
                BY <3>2, <3>5 DEF CrashFail, EngineFail
            <4> QED BY <1>0, <3>1, <4>1, StatementsKeepResults
        <3>6. CASE Complete(p)
            BY <1>0, <3>1, <3>6, StatementsKeepResults DEF Complete
        <3> QED BY <2>1, <3>3, <3>4, <3>5, <3>6
    <2>2. CASE UNCHANGED jobs
        BY <1>1, <2>2
    <2>3. UNCHANGED jobs \/ PreCancel(p) \/ Claim(p) \/ CrashFail(p) \/ Complete(p)
          \/ EngineCancel(p) \/ EngineFail(p)
        BY <1>5 DEF CoordStep, Dequeue, StopSeen, ReadJob, CoordEmitter, PreCancelEvent,
                    BeginExecution, CrashEvent, Finish, NotCancelled, CancelHonoured,
                    EngineGoto, CancelSwallowed, EmitStage, WriteJson, WriteRest, WriteReport,
                    ReportEvent, EngineRaises, CancelEvent, FailEvent, LastEvent, storeVars
    <2> QED BY <2>1, <2>2, <2>3
<1>6. CASE UNCHANGED vars
    BY <1>1, <1>6 DEF vars, storeVars
<1> QED BY <1>2, <1>3, <1>4, <1>5, <1>6 DEF Next

LEMMA NextKeepsFailures == IInv /\ RInv /\ [Next]_vars => FailuresKnown'
<1> SUFFICES ASSUME IInv, FailuresKnown, [Next]_vars PROVE FailuresKnown'
    BY DEF RInv
<1>0. coord \in [Proc -> CoordRecord]
    BY DEF IInv, TypeOK, CoordTypeOK
<1> DEFINE Known(c) == c.pc = "fail" =>
                           c.result \in {"analysis_incomplete", "internal_error"}
<1>1. ASSUME NEW p \in Proc, NEW c, Known(c), coord' = [coord EXCEPT ![p] = c]
      PROVE  FailuresKnown'
    BY <1>0, <1>1 DEF FailuresKnown
<1>2. ASSUME UNCHANGED coord PROVE FailuresKnown'
    BY <1>2 DEF FailuresKnown
<1>3. ASSUME NEW p \in Proc, ProcessStep(p) \/ HandlerStep(p) PROVE FailuresKnown'
    <2>1. CASE Exit(p)
        BY <2>1, <1>1 DEF Exit, Gone, IdleCoord
    <2>2. CASE ~Exit(p)
        BY <1>2, <1>3, <2>2 DEF ProcessStep, Start, Restore, StopJoined, Released,
           HandlerStep, CancelLook, CancelMark, HandlerEmitter, HandlerEmit, Enqueue
    <2> QED BY <2>1, <2>2
<1>4. ASSUME NEW p \in Proc, Environment(p) PROVE FailuresKnown'
    <2>1. CASE Crash(p)
        BY <2>1, <1>1 DEF Crash, Gone, IdleCoord
    <2>2. CASE NoThread(p)
        BY <1>0, <2>2 DEF NoThread, FailuresKnown
    <2>3. CASE Heartbeat(p)
        <3> DEFINE n == coord[p].seq + 1
                   c == [(IF KeyTaken(coord[p].job, n) THEN [coord[p] EXCEPT !.heart = "stopped"]
                          ELSE coord[p]) EXCEPT !.seq = n]
        <3>1. coord' = [coord EXCEPT ![p] = c]
            BY <2>3 DEF Heartbeat, Emit
        <3>2. c.pc = coord[p].pc /\ c.result = coord[p].result
            BY <1>0 DEF CoordRecord
        <3>3. Known(c)
            BY <3>2 DEF FailuresKnown
        <3> HIDE DEF c, Known
        <3> QED BY <3>1, <3>3, <1>1
    <2>4. CASE \/ \E j \in Job : Submit(p, j) \/ Cancel(p, j) \/ Resume(p, j)
               \/ Shutdown(p) \/ IdleExit(p) \/ StopTimedOut(p)
        BY <1>2, <2>4 DEF Submit, Cancel, Resume, Accept, Shutdown, IdleExit, StopTimedOut,
                          Released
    <2> QED BY <1>4, <2>1, <2>2, <2>3, <2>4 DEF Environment
<1>5. ASSUME NEW p \in Proc, CoordStep(p) PROVE FailuresKnown'
    <2>1. PICK c : coord' = [coord EXCEPT ![p] = c] /\ Known(c)
        <3>1. CASE EmitStage(p) \/ ReportEvent(p) \/ PreCancelEvent(p) \/ CrashEvent(p)
                   \/ CancelEvent(p) \/ FailEvent(p)
            <4>1. PICK then, raised : /\ then \in CoordRecord /\ raised \in CoordRecord
                                      /\ \E stage : Emit(p, stage, then, raised)
                                      /\ Known(then) /\ Known(raised)
                <5>1. /\ To(p, "fin") \in CoordRecord /\ Known(To(p, "fin"))
                      /\ To(p, "complete") \in CoordRecord /\ Known(To(p, "complete"))
                      /\ To(p, "crashFail") \in CoordRecord /\ Known(To(p, "crashFail"))
                      /\ To(p, "crashDead") \in CoordRecord /\ Known(To(p, "crashDead"))
                      /\ Raised(p) \in CoordRecord /\ Known(Raised(p))
                    BY <1>0, ZenonT(90) DEF To, Raised, CoordRecord, CoordPc, Executing, Engine, Result
                <5>2. CASE EmitStage(p)
                    <6> DEFINE i == coord[p].phase
                               next == IF i = Len(Phase) THEN To(p, "writeJson")
                                       ELSE [To(p, "check") EXCEPT !.phase = i + 1]
                    <6>1. i \in 1..3 /\ Len(Phase) = 3 /\ DOMAIN Phase = 1..3
                        BY <1>0 DEF CoordRecord, Phase
                    <6>2. next \in CoordRecord /\ next.pc # "fail"
                        <7>1. CASE i = 3
                            BY <1>0, <6>1, <7>1 DEF To, CoordRecord, CoordPc, Executing, Engine
                        <7>2. CASE i # 3
                            <8>1. i + 1 \in 1..3
                                BY <6>1, <7>2
                            <8>2. next = [To(p, "check") EXCEPT !.phase = i + 1]
                                BY <6>1, <7>2
                            <8> HIDE DEF i
                            <8> QED BY <1>0, <8>1, <8>2, <6>1, ZenonT(90) DEF To, CoordRecord, CoordPc, Executing, Engine
                        <7> QED BY <7>1, <7>2
                    <6>3. Emit(p, Phase[i], next, Raised(p))
                        BY <5>2 DEF EmitStage
                    <6>4. Known(next)
                        BY <6>2
                    <6> HIDE DEF next, Known
                    <6>5. \E stage : Emit(p, stage, next, Raised(p))
                        BY <6>3
                    <6> QED BY <5>1, <6>2, <6>4, <6>5
                <5> QED BY <3>1, <5>1, <5>2 DEF ReportEvent, PreCancelEvent, CrashEvent,
                           CancelEvent, FailEvent, LastEvent
            <4> DEFINE n == coord[p].seq + 1
                       c == [(IF KeyTaken(coord[p].job, n) THEN raised ELSE then)
                                 EXCEPT !.seq = n]
            <4>2. coord' = [coord EXCEPT ![p] = c]
                BY <4>1 DEF Emit
            <4>3. Known(c)
                BY <4>1 DEF CoordRecord
            <4> HIDE DEF c, Known
            <4> QED BY <4>2, <4>3
        <3>2. CASE \E result \in {"analysis_incomplete", "internal_error"} :
                       EngineRaises(p, result)
            <4>1. PICK result \in {"analysis_incomplete", "internal_error"} :
                      EngineRaises(p, result)
                BY <3>2
            <4> DEFINE c == [Raised(p) EXCEPT !.result = result]
            <4>2. coord' = [coord EXCEPT ![p] = c]
                BY <4>1 DEF EngineRaises
            <4>3. c.result = result
                BY <1>0 DEF Raised, CoordRecord
            <4>4. Known(c)
                BY <4>3
            <4> HIDE DEF c, Known
            <4> QED BY <4>2, <4>4
        <3>3. CASE Dequeue(p)
            <4> DEFINE c == [IdleCoord EXCEPT !.pc = "got", !.job = Head(queue[p])]
            <4>1. coord' = [coord EXCEPT ![p] = c]
                BY <3>3 DEF Dequeue
            <4>2. Known(c)
                BY DEF IdleCoord
            <4> HIDE DEF c, Known
            <4> QED BY <4>1, <4>2
        <3>4. CASE Finish(p)
            <4> DEFINE pc == IF coord[p].pc = "crashDead" \/ coord[p].heart = "unstarted"
                             THEN "dead"
                             ELSE IF mode[p] # "up" THEN "exited" ELSE "get"
                       c == [IdleCoord EXCEPT !.pc = pc]
            <4>1. coord' = [coord EXCEPT ![p] = c]
                BY <3>4 DEF Finish
            <4>2. Known(c)
                BY DEF IdleCoord
            <4> HIDE DEF c, Known
            <4> QED BY <4>1, <4>2
        <3>5. CASE ReadJob(p) \/ CoordEmitter(p) \/ Claim(p) \/ BeginExecution(p)
                   \/ CancelSwallowed(p)
            BY <1>0, <3>5 DEF ReadJob, CoordEmitter, Claim, BeginExecution, CancelSwallowed,
                              Goto, CoordRecord
        <3>6. CASE StopSeen(p) \/ PreCancel(p) \/ CrashFail(p) \/ NotCancelled(p)
                   \/ CancelHonoured(p) \/ WriteJson(p) \/ WriteRest(p) \/ Complete(p)
                   \/ EngineCancel(p) \/ EngineFail(p)
            BY <1>0, <3>6 DEF StopSeen, PreCancel, CrashFail, NotCancelled, CancelHonoured,
               EngineGoto, WriteJson, WriteRest, WriteReport, Complete, EngineCancel,
               EngineFail, Goto, CoordRecord
        <3> QED BY <1>5, <3>1, <3>2, <3>3, <3>4, <3>5, <3>6 DEF CoordStep
    <2> HIDE DEF Known
    <2> QED BY <2>1, <1>1
<1>6. CASE UNCHANGED vars
    BY <1>2, <1>6 DEF vars, procVars
<1> QED BY <1>3, <1>4, <1>5, <1>6 DEF Next

\* Status and result_state, from which the client computes its exit code, never
\* disagree, whichever threads and processes wrote the row last.
THEOREM ResultsMatch == Spec => []ResultMatchesStatus
<1>1. Init => RInv
    BY DEF Init, StoreInit, Absent, IdleCoord, RInv, ResultMatchesStatus, FailuresKnown
<1>2. IInv /\ RInv /\ [Next]_vars => RInv'
    BY NextKeepsResults, NextKeepsFailures DEF RInv
<1>3. RInv => ResultMatchesStatus
    BY DEF RInv
<1> QED BY <1>1, <1>2, <1>3, InductiveInvariant, PTL DEF Spec
=============================================================================
