----------------------------- MODULE ClientProofs -----------------------------
(***************************************************************************)
(* How commands and workers find each other, for any number of commands,   *)
(* processes, attempts and faults: the lock and the socket path name the   *)
(* worker that serves, and no command has two processes of its own (IInv). *)
(* Then what the polls bring: the rows, the events, the reports, the       *)
(* requests under way and what each command has seen agree (JInv).         *)
(***************************************************************************)
EXTENDS ClientProperties, FiniteSetTheorems, TLAPS

-----------------------------------------------------------------------------
(* The inductive invariant                                                  *)

\* A process that has passed StateLock.__enter__ and has not yet gone.
Holding == {"locked", "serving", "closing", "closed"}

LockIsHeld == \A p \in Proc : proc[p].pc \in Holding => lock = p

\* A command waits for the one process it launched, and has none otherwise.
ChildrenWaitedFor ==
    \A c \in Job : /\ client[c].pc # "wait" => Mine(c) = {}
                   /\ \A p, q \in Mine(c) : p = q

ProcShape == proc \in [Proc -> [pc : ProcPc, by : Job \cup {NoJob}]]

\* What the EXCEPTs of the steps need to know of the record of a command.
Shaped(d) ==
    {"pc", "launches", "exit", "op"} \subseteq DOMAIN d /\ d.op \in {"submit", "status", "cancel"}

ClientShape ==
    /\ DOMAIN client = Job
    /\ \A c \in Job : Shaped(client[c])

Shapes == ProcShape /\ ClientShape /\ lock \in Proc \cup {NoProc}

IInv == Shapes /\ LockIsHeld /\ ServingIsReachable /\ ChildrenWaitedFor

LEMMA InitIInv == Init => IInv
BY ClientAssumption DEF Init, IInv, Shapes, ProcShape, ClientShape, Shaped, LockIsHeld,
   ServingIsReachable,
   ChildrenWaitedFor, Down, ProcPc, Holding, Mine

-----------------------------------------------------------------------------
(* Steps                                                                    *)

\* A step that touches neither the processes nor the commands.
LEMMA ElsewhereIInv ==
    ASSUME IInv, UNCHANGED <<lock, socket, proc, client>>
    PROVE  IInv'
BY DEF IInv, Shapes, ProcShape, ClientShape, LockIsHeld, ServingIsReachable, ChildrenWaitedFor, Mine

\* A process goes on, keeping who launched it, or goes.
LEMMA ProcessIInv ==
    ASSUME IInv, NEW p \in Proc, NEW s \in ProcPc, NEW b \in {proc[p].by, NoJob},
           proc' = [proc EXCEPT ![p] = [pc |-> s, by |-> b]], client' = client,
           \/ /\ s \in Holding /\ lock' = p /\ (lock = p \/ lock = NoProc)
              /\ s = "serving" => socket' = p
           \/ s = "down" /\ lock' \in {lock, IF lock = p THEN NoProc ELSE lock},
           (\E q \in Proc : q # p /\ proc[q].pc = "serving") => socket' = socket
    PROVE  IInv'
<1>1. Shapes'
    BY ClientAssumption DEF IInv, Shapes, ProcShape, ClientShape, ProcPc
<1>2. LockIsHeld'
    BY ClientAssumption DEF IInv, Shapes, ProcShape, LockIsHeld, Holding
<1>3. ServingIsReachable'
    BY <1>1, <1>2 DEF IInv, Shapes, ProcShape, ServingIsReachable, Holding, LockIsHeld
<1>4. \A c \in Job : Mine(c)' \subseteq Mine(c)
    BY ClientAssumption DEF IInv, Shapes, ProcShape, Mine
<1>5. ChildrenWaitedFor'
    BY <1>4 DEF IInv, ChildrenWaitedFor
<1> QED BY <1>1, <1>2, <1>3, <1>5 DEF IInv

LEMMA ProcessSteps ==
    ASSUME IInv, NEW p \in Proc,
           \/ Lock(p) \/ AlreadyRunning(p) \/ Bind(p) \/ Close(p) \/ Exit(p)
           \/ IdleExit(p) \/ AnswerTooLarge(p) \/ Crash(p)
    PROVE  IInv'
<1>0. \A s \in ProcPc :
          [proc EXCEPT ![p].pc = s] = [proc EXCEPT ![p] = [pc |-> s, by |-> proc[p].by]]
    <2> TAKE s \in ProcPc
    <2>1. [proc[p] EXCEPT !.pc = s] = [pc |-> s, by |-> proc[p].by]
        BY DEF IInv, Shapes, ProcShape
    <2> QED BY <2>1
<1>1. proc[p].pc \in Holding => \A q \in Proc \ {p} : proc[q].pc # "serving"
    BY DEF IInv, LockIsHeld, Holding
<1>2. CASE Lock(p)
    <2>1. proc' = [proc EXCEPT ![p] = [pc |-> "locked", by |-> proc[p].by]]
        BY <1>0, <1>2 DEF Lock, ProcPc
    <2> QED BY <1>2, <2>1, ProcessIInv DEF Lock, ProcPc, Holding
<1>3. CASE AlreadyRunning(p)
    <2> QED BY <1>3, ProcessIInv DEF AlreadyRunning, ProcPc, Down
<1>4. CASE Bind(p)
    <2>1. proc' = [proc EXCEPT ![p] = [pc |-> "serving", by |-> proc[p].by]]
        BY <1>0, <1>4 DEF Bind, ProcPc
    <2>2. lock = p
        BY <1>4 DEF Bind, IInv, LockIsHeld, Holding
    <2> QED BY <1>1, <1>4, <2>1, <2>2, ProcessIInv DEF Bind, ProcPc, Holding
<1>5. CASE Close(p)
    <2>1. proc' = [proc EXCEPT ![p] = [pc |-> "closed", by |-> proc[p].by]]
        BY <1>0, <1>5 DEF Close, ProcPc
    <2>2. lock = p
        BY <1>5 DEF Close, IInv, LockIsHeld, Holding
    <2> QED BY <1>1, <1>5, <2>1, <2>2, ProcessIInv DEF Close, ProcPc, Holding
<1>6. CASE Exit(p) \/ Crash(p)
    <2>1. proc' = [proc EXCEPT ![p] = Down] /\ lock' = (IF lock = p THEN NoProc ELSE lock)
          /\ socket' = socket /\ client' = client
        BY <1>6 DEF Exit, Crash, Gone
    <2> QED BY <2>1, ProcessIInv DEF ProcPc, Down
<1>7. CASE IdleExit(p) \/ AnswerTooLarge(p)
    <2>1. proc[p].pc = "serving" /\ proc' = [proc EXCEPT ![p].pc = "closing"]
          /\ UNCHANGED <<lock, socket, client>>
        BY <1>7 DEF IdleExit, AnswerTooLarge, Leave
    <2>2. proc' = [proc EXCEPT ![p] = [pc |-> "closing", by |-> proc[p].by]]
        BY <1>0, <2>1 DEF ProcPc
    <2>3. lock = p
        BY <2>1 DEF IInv, LockIsHeld, Holding
    <2> QED BY <2>1, <2>2, <2>3, ProcessIInv DEF ProcPc, Holding
<1> QED BY <1>2, <1>3, <1>4, <1>5, <1>6, <1>7

\* A command goes on without a process of its own, or waits for the same one.
LEMMA CommandIInv ==
    ASSUME IInv, NEW c \in Job, NEW d, client' = [client EXCEPT ![c] = d],
           Shaped(d), UNCHANGED <<lock, socket>>,
           \/ proc' = proc /\ (d.pc # "wait" => Mine(c) = {})
           \/ CallOver(c)
    PROVE  IInv'
<1>1. ClientShape' /\ client'[c] = d /\ \A e \in Job \ {c} : client'[e] = client[e]
    BY DEF IInv, Shapes, ClientShape
<1>2. \A p \in Proc : proc'[p] \in {proc[p], [proc[p] EXCEPT !.by = NoJob]}
    BY DEF CallOver
<1>3. ProcShape' /\ \A p \in Proc : /\ proc'[p].pc = proc[p].pc
                                    /\ proc'[p].by \in {proc[p].by, NoJob}
    BY <1>2 DEF IInv, Shapes, ProcShape, CallOver
<1>4. LockIsHeld' /\ ServingIsReachable'
    BY <1>3 DEF IInv, LockIsHeld, ServingIsReachable
<1>5. \A e \in Job : Mine(e)' \subseteq Mine(e)
    BY <1>3, ClientAssumption DEF Mine
<1>6. Mine(c)' = {} \/ (d.pc = "wait")
    <2>1. CASE CallOver(c)
        BY <2>1, ClientAssumption DEF IInv, Shapes, ProcShape, CallOver, Mine
    <2>2. CASE proc' = proc /\ (d.pc # "wait" => Mine(c) = {})
        BY <2>2 DEF Mine
    <2> QED BY <2>1, <2>2
<1>7. ChildrenWaitedFor'
    BY <1>1, <1>5, <1>6 DEF IInv, ChildrenWaitedFor
<1> QED BY <1>1, <1>3, <1>4, <1>7 DEF IInv, Shapes

\* Where a command goes next, and that it is a record of the same shape.
Goes(c, d) ==
    client' = [client EXCEPT ![c] = d] /\ Shaped(d)

LEMMA CommandSteps ==
    ASSUME IInv, NEW c \in Job,
           \/ Begin(c) \/ PingAnswered(c) \/ PingFails(c) \/ Send(c) \/ Refused(c) \/ Answered(c)
           \/ LoadReport(c) \/ LaunchFails(c) \/ GiveUp(c) \/ Late(c) \/ Interrupt(c)
           \/ StartDirect(c) \/ FinishDirect(c) \/ InterruptDirect(c)
    PROVE  IInv'
<1>0. /\ Shaped(client[c])
      /\ client[c].pc # "wait" => Mine(c) = {}
    BY DEF IInv, Shapes, ClientShape, ChildrenWaitedFor
<1>d. \A k : Shaped(Done(c, k))
    BY <1>0 DEF Done, Shaped
<1>f. Shaped(Failed(c))
    BY <1>d DEF Failed
<1>1. CASE PingAnswered(c) \/ GiveUp(c) \/ Interrupt(c)
    <2>1. CallOver(c) /\ UNCHANGED <<lock, socket>>
        BY <1>1 DEF PingAnswered, GiveUp, Interrupt, OnlyClient
    <2>2. \E d : Goes(c, d)
        <3>1. CASE PingAnswered(c)
            <4>1. Goes(c, [client[c] EXCEPT !.pc = "request", !.launches = 0])
                BY <1>0, <3>1 DEF PingAnswered, Goes, Shaped
            <4> QED BY <4>1
        <3>2. CASE GiveUp(c)
            <4>1. Goes(c, Failed(c))
                BY <1>f, <3>2 DEF GiveUp, Goes
            <4> QED BY <4>1
        <3>3. CASE Interrupt(c)
            <4>1. Goes(c, IF client[c].known
                          THEN [client[c] EXCEPT !.pc = "ping", !.op = "cancel", !.launches = 0]
                          ELSE Done(c, 4))
                BY <1>0, <1>d, <3>3 DEF Interrupt, Goes, Shaped
            <4> QED BY <4>1
        <3> QED BY <1>1, <3>1, <3>2, <3>3
    <2> QED BY <2>1, <2>2, CommandIInv DEF Goes
<1>2. CASE \/ Begin(c) \/ Send(c) \/ Refused(c) \/ Answered(c) \/ LoadReport(c) \/ LaunchFails(c)
           \/ Late(c) \/ StartDirect(c) \/ FinishDirect(c) \/ InterruptDirect(c)
    <2>1. UNCHANGED <<lock, socket, proc>> /\ client[c].pc # "wait"
        BY <1>2 DEF Begin, Send, Refused, Answered, LoadReport, LaunchFails, Late, StartDirect,
                    FinishDirect, InterruptDirect, OnlyClient
    <2>2. \E d : Goes(c, d)
        <3>1. CASE Begin(c)
            <4>1. Goes(c, [client[c] EXCEPT !.pc = "ping"])
                BY <1>0, <3>1 DEF Begin, Goes, Shaped
            <4> QED BY <4>1
        <3>2. CASE Send(c)
            <4>1. \/ Goes(c, [client[c] EXCEPT !.pc = "answer"])
                  \/ Goes(c, Failed(c))
                BY <1>0, <1>f, <3>2 DEF Send, Goes, Shaped
            <4> QED BY <4>1
        <3>3. CASE Refused(c) \/ Late(c)
            <4>1. Goes(c, Failed(c))
                BY <1>f, <3>3 DEF Refused, Late, Goes
            <4> QED BY <4>1
        <3>4. CASE Answered(c)
            <4> DEFINE a == AfterPoll(c, request[c].row)
                       d == CASE client[c].op = "submit" ->
                                   [client[c] EXCEPT !.pc = "ping", !.op = "status", !.known = TRUE]
                              [] client[c].op = "status" ->
                                   [a EXCEPT !.shown = @ \o request[c].events]
                              [] client[c].op = "cancel" -> Done(c, 4)
            <4>1. client' = [client EXCEPT ![c] = d]
                BY <3>4 DEF Answered
            <4>2. Shaped(a)
                BY <1>0, <1>d DEF AfterPoll, Shaped
            <4> HIDE DEF a
            <4>3. client[c].op \in {"submit", "status", "cancel"}
                BY <1>0 DEF Shaped
            <4>4. Shaped(d)
                BY <1>0, <1>d, <4>2, <4>3 DEF Shaped
            <4> QED BY <4>1, <4>4 DEF Goes
        <3>5. CASE LoadReport(c) \/ FinishDirect(c) \/ InterruptDirect(c)
            <4>1. \E k : client' = [client EXCEPT ![c] = Done(c, k)]
                BY <3>5 DEF LoadReport, FinishDirect, InterruptDirect
            <4> QED BY <1>d, <4>1 DEF Goes
        <3>6. CASE LaunchFails(c)
            <4>1. Shaped(Launched(c, "ping"))
                BY <1>0 DEF Launched, Shaped
            <4>2. \/ Goes(c, Launched(c, "ping"))
                  \/ Goes(c, Failed(c))
                BY <1>f, <3>6, <4>1 DEF LaunchFails, Goes
            <4> QED BY <4>2
        <3>7. CASE StartDirect(c)
            <4>1. Goes(c, [client[c] EXCEPT !.pc = "direct"])
                BY <1>0, <3>7 DEF StartDirect, Goes, Shaped
            <4> QED BY <4>1
        <3> QED BY <1>2, <3>1, <3>2, <3>3, <3>4, <3>5, <3>6, <3>7
    <2> QED BY <1>0, <2>1, <2>2, CommandIInv DEF Goes, Shaped
<1>3. CASE PingFails(c)
    <2>1. UNCHANGED <<lock, socket, proc>> /\ Mine(c) = {}
        BY <1>0, <1>3 DEF PingFails, OnlyClient, ChildExited
    <2>2. \E d : Goes(c, d)
        <3>1. \/ Goes(c, [client[c] EXCEPT !.pc = "launch"])
              \/ Goes(c, [client[c] EXCEPT !.pc = "ping"])
              \/ Goes(c, Failed(c))
            BY <1>0, <1>f, <1>3 DEF PingFails, NextAttempt, Goes, Shaped
        <3> QED BY <3>1
    <2> QED BY <2>1, <2>2, CommandIInv DEF Goes
<1> QED BY <1>1, <1>2, <1>3

LEMMA LaunchIInv ==
    ASSUME IInv, NEW c \in Job, NEW p \in Proc, Launch(c, p)
    PROVE  IInv'
<1>1. /\ proc' = [proc EXCEPT ![p] = [pc |-> "starting", by |-> c]] /\ UNCHANGED <<lock, socket>>
      /\ client[c].pc = "launch" /\ proc[p].pc = "down"
    BY DEF Launch, OnlyClient
<1>2. PICK d : client' = [client EXCEPT ![c] = d] /\ d = Launched(c, "wait")
    BY DEF Launch
<1>3. d.pc = "wait" /\ Shaped(d)
    BY <1>2 DEF IInv, Shapes, ClientShape, Launched, Shaped
<1>4. Shapes'
    BY <1>1, <1>2, <1>3 DEF IInv, Shapes, ProcShape, ClientShape, ProcPc
<1>5. LockIsHeld' /\ ServingIsReachable'
    BY <1>1 DEF IInv, Shapes, ProcShape, LockIsHeld, ServingIsReachable, Holding
<1>6. Mine(c) = {} /\ Mine(c)' = {p}
    BY <1>1 DEF IInv, Shapes, ProcShape, ChildrenWaitedFor, Mine
<1>7. \A e \in Job \ {c} : Mine(e)' \subseteq Mine(e) /\ client'[e] = client[e]
    BY <1>1, <1>2 DEF IInv, Shapes, ProcShape, ClientShape, Mine
<1>8. ChildrenWaitedFor'
    BY <1>2, <1>3, <1>6, <1>7 DEF IInv, Shapes, ClientShape, ChildrenWaitedFor
<1> QED BY <1>4, <1>5, <1>8 DEF IInv

LEMMA NextIInv == IInv /\ [Next]_vars => IInv'
<1> SUFFICES ASSUME IInv, [Next]_vars PROVE IInv'
    OBVIOUS
<1>1. CASE UNCHANGED vars
    BY <1>1, ElsewhereIInv DEF vars, clientVars
<1>2. CASE \E p \in Proc : HandlerStep(p) \/ ExecStep(p)
    <2>1. UNCHANGED <<lock, socket, proc, client>>
        BY <1>2 DEF HandlerStep, HandleSubmit, HandleCancel, StatusRow, StatusEvents, ExecStep,
           Claim,
                    Engine, EngineCancelled
    <2> QED BY <2>1, ElsewhereIInv
<1>3. CASE \/ \E x \in Direct : Engine(x)
           \/ \E x \in Executor, result \in {"analysis_incomplete", "internal_error"} :
                 EngineRaises(x, result)
    <2>1. UNCHANGED <<lock, socket, proc, client>>
        BY <1>3 DEF Engine, EngineRaises
    <2> QED BY <2>1, ElsewhereIInv
<1>4. CASE \E p \in Proc : ProcessStep(p) \/ IdleExit(p) \/ AnswerTooLarge(p) \/ Crash(p)
    BY <1>4, ProcessSteps DEF ProcessStep
<1>5. CASE \E c \in Job, p \in Proc : Launch(c, p)
    BY <1>5, LaunchIInv
<1>6. CASE \E c \in Job : \/ Begin(c) \/ PingAnswered(c) \/ PingFails(c) \/ Send(c) \/ Refused(c)
                          \/ Answered(c) \/ LoadReport(c) \/ LaunchFails(c) \/ GiveUp(c) \/ Late(c)
                          \/ Interrupt(c) \/ StartDirect(c) \/ FinishDirect(c) \/ InterruptDirect(c)
    BY <1>6, CommandSteps
<1> QED BY <1>1, <1>2, <1>3, <1>4, <1>5, <1>6, ClientAssumption DEF Next, CommandStep, DirectStep

-----------------------------------------------------------------------------
(* The theorems                                                             *)

\* The lock names who holds it, the socket path the worker that serves, and a
\* command waits for one process at most (worker_client.py, ipc.py, worker.py).
THEOREM MeetingInvariant == Spec => []IInv
BY InitIInv, NextIInv, PTL DEF Spec

\* A worker that serves holds the lock and is found at the socket path,
\* whichever processes crash, leave late or are launched besides it (ipc.py).
THEOREM WorkerIsReachable == Spec => []ServingIsReachable
<1>1. IInv => ServingIsReachable
    BY DEF IInv
<1> QED BY <1>1, MeetingInvariant, PTL

\* A command never has two processes of its own at once, after any number of
\* attempts, failures and interrupts (ensure_worker).
THEOREM OneChild == Spec => []OneChildAtATime
<1>1. IInv => OneChildAtATime
    <2> SUFFICES ASSUME IInv, NEW c \in Job PROVE Cardinality(Mine(c)) <= 1
        BY DEF OneChildAtATime
    <2>1. CASE Mine(c) = {}
        BY <2>1, FS_EmptySet
    <2>2. CASE Mine(c) # {}
        <3>1. PICK p \in Mine(c) : TRUE
            BY <2>2
        <3>2. \A q \in Mine(c) : q = p
            BY <3>1 DEF IInv, ChildrenWaitedFor
        <3>3. Mine(c) = {p}
            BY <3>1, <3>2
        <3>4. Cardinality({p}) = 1
            BY FS_Singleton
        <3> QED BY <3>3, <3>4
    <2> QED BY <2>1, <2>2
<1> QED BY <1>1, MeetingInvariant, PTL

-----------------------------------------------------------------------------
(* The second invariant: rows, events and polls                             *)

Commands == [pc : ClientPc, op : {"submit", "status", "cancel"}, launches : 0..StartAttempts,
             known : BOOLEAN, shown : Seq(Stage), exit : 0..4 \cup {130}]
Requests == [op : {"none", "submit", "status", "cancel"}, to : Proc \cup {NoProc},
             state : RequestState, row : Row, events : Seq(Stage)]
Execs == [pc : ExecPc, job : Job \cup {NoJob}, result : Result]

\* A command that may launch a worker has an attempt left.
AttemptLeft(d) == d.pc \notin {"wait", "load", "direct", "done"} => d.launches < StartAttempts

Types ==
    /\ jobs \in [Job -> Row] /\ events \in [Job -> Seq(Stage)]
    /\ artifacts \in [Job -> [Format -> Nat]]
    /\ socket \in Proc \cup {NoProc} /\ queue \in [Proc -> Seq(Job)]
    /\ exec \in [Executor -> Execs]
    /\ client \in [Job -> Commands] /\ \A c \in Job : AttemptLeft(client[c])
    /\ request \in [Job -> Requests]

Reported(s) == \E i \in DOMAIN s : s[i] = "report"
Extends(s, t) == \A i \in DOMAIN s : i \in DOMAIN t /\ t[i] = s[i]

\* What is so of the row r of the job that e executes, of its events and of
\* the attempt that wrote its report.
Doing(e, r, ev, w) ==
    /\ e.pc \in {"write", "report", "complete", "fail", "cancel"} => r.status = "running"
    /\ e.pc \in {"report", "complete"} => w = r.attempt
    /\ e.pc = "complete" => Reported(ev)

Works(e, pc) == e.pc # "idle" => pc \in Holding /\ e.job \in Job \ Direct

WorkersOK ==
    \A p \in Proc :
        /\ Works(exec[p], proc[p].pc)
        /\ exec[p].pc # "idle" =>
              Doing(exec[p], jobs[exec[p].job], events[exec[p].job], artifacts[exec[p].job]["json"])

\* An exit code that speaks of the row says what is in it.
Exits(d, r) ==
    d.pc = "done" => /\ d.exit = 0 => r.status = "complete"
                     /\ d.exit = 3 => r.status = "failed" /\ r.result = "internal_error"

\* A direct command c, what it executes, and its row.
Directly(c, d, q, e, r) ==
    /\ d.pc \in {"new", "direct", "done"} /\ d.shown = <<>> /\ q.state = "none"
    /\ e.pc # "idle" => d.pc = "direct"
    /\ d.pc = "direct" =>
        /\ e.job = c /\ e.pc \notin {"cancel", "cancelEvent"}
        /\ e.pc \in {"write", "report", "complete"} => e.result = "null"
        /\ e.pc = "fail" => e.result # "null"
        /\ e.pc \in {"failEvent", "idle"} =>
              \/ e.pc = "idle" /\ e.result = "null" /\ r.status = "complete"
              \/ e.result # "null" /\ r.status = "failed" /\ r.result = e.result
    /\ r.status # "queued"
    /\ Exits(d, r)

\* A submission finds no row.
Fresh(d, q, r) ==
    /\ d.op = "submit" /\ d.pc \in {"new", "ping", "launch", "wait", "request"} =>
          r.status = "absent" /\ q.state = "none"
    /\ q.op = "submit" /\ q.state = "sent" => r.status = "absent"

\* An end that a poll has seen is still the end of the row.
Seen(q, r) ==
    q.op = "status" /\ q.state \in {"row", "answered"} /\ q.row.status \in Terminal =>
        r.status = q.row.status /\ r.result = q.row.result

\* The events of an answer follow those that were shown, and if its row is
\* complete then one of these is the report.
Answer(d, q, ev) ==
    d.pc = "answer" /\ q.op = "status" /\ q.state = "answered" =>
        /\ \A i \in DOMAIN q.events :
              Len(d.shown) + i \in DOMAIN ev /\ ev[Len(d.shown) + i] = q.events[i]
        /\ q.row.status = "complete" => Reported(d.shown) \/ Reported(q.events)

\* A command of a worker, its request, its row, its events and its report.
Remotely(d, q, r, ev, w) ==
    /\ d.pc # "direct"
    /\ d.pc = "answer" => q.op = d.op
    /\ Fresh(d, q, r) /\ Seen(q, r) /\ Answer(d, q, ev) /\ Exits(d, r)
    /\ Extends(d.shown, ev)
    /\ d.pc = "load" \/ (d.pc = "done" /\ d.exit = 0) =>
          r.status = "complete" /\ Reported(d.shown)
    /\ r.status = "complete" => Reported(ev) /\ w = r.attempt

CommandsOK ==
    /\ \A c \in Direct : Directly(c, client[c], request[c], exec[c], jobs[c])
    /\ \A c \in Job \ Direct :
          Remotely(client[c], request[c], jobs[c], events[c], artifacts[c]["json"])

JInv == Types /\ WorkersOK /\ CommandsOK

-----------------------------------------------------------------------------
(* Sequences of events                                                      *)

LEMMA LastOfFeed ==
    ASSUME NEW s \in Seq(Stage)
    PROVE  LastKey(s) = Len(s)
<1>1. DOMAIN s = 1 .. Len(s) /\ Len(s) \in Nat
    OBVIOUS
<1>2. CASE Len(s) = 0
    BY <1>1, <1>2 DEF LastKey
<1>3. CASE Len(s) # 0
    <2>1. Len(s) \in DOMAIN s /\ \A k \in DOMAIN s : k <= Len(s)
        BY <1>1, <1>3
    <2>2. \A n \in DOMAIN s : (\A k \in DOMAIN s : k <= n) => n = Len(s)
        BY <1>1, <2>1
    <2>3. LastKey(s) = CHOOSE n \in DOMAIN s : \A k \in DOMAIN s : k <= n
        BY <2>1 DEF LastKey
    <2> QED BY <2>1, <2>2, <2>3
<1> QED BY <1>2, <1>3

\* An event is added at the end of its feed.
LEMMA EmitStep ==
    ASSUME events \in [Job -> Seq(Stage)], NEW j \in Job, NEW stage \in Stage, Emit(j, stage)
    PROVE  /\ events' \in [Job -> Seq(Stage)]
           /\ \A c \in Job \ {j} : events'[c] = events[c]
           /\ Extends(events[j], events'[j])
           /\ stage = "report" => Reported(events'[j])
<1> DEFINE s == events[j]
           n == Len(s) + 1
           t == [k \in DOMAIN s \cup {n} |-> IF k = n THEN stage ELSE s[k]]
<1>1. s \in Seq(Stage) /\ DOMAIN s = 1 .. Len(s) /\ Len(s) \in Nat
    OBVIOUS
<1>2. LastSequence(j) = Len(s)
    BY <1>1, LastOfFeed DEF LastSequence
<1>3. events' = [events EXCEPT ![j] = t]
    BY <1>2 DEF Emit, AppendEvent
<1>4. DOMAIN s \cup {n} = 1 .. n /\ n \in Nat
    BY <1>1
<1>5. \A k \in 1 .. n : t[k] \in Stage
    BY <1>1, <1>4
<1>6. t \in Seq(Stage)
    <2>1. t = [k \in 1 .. n |-> t[k]]
        BY <1>4
    <2>2. \A k \in 1 .. n : t[k] \in Stage
        BY <1>5
    <2> HIDE DEF t
    <2>3. [k \in 1 .. n |-> t[k]] \in Seq(Stage)
        BY <1>4, <2>2
    <2> QED BY <2>1, <2>3
<1>7. Extends(s, t) /\ t[n] = stage /\ n \in DOMAIN t
    BY <1>1, <1>4 DEF Extends
<1> HIDE DEF t, n, s
<1>8. events'[j] = t
    BY <1>3
<1> QED BY <1>3, <1>6, <1>7, <1>8 DEF Reported, s

\* What is left of a feed after its first n events.
LEMMA EventsAfter ==
    ASSUME NEW c \in Job, events[c] \in Seq(Stage), NEW n \in Nat, n <= Len(events[c])
    PROVE  /\ EventsSince(c, n) \in Seq(Stage)
           /\ \A i \in DOMAIN EventsSince(c, n) :
                 n + i \in DOMAIN events[c] /\ events[c][n + i] = EventsSince(c, n)[i]
           /\ \A k \in DOMAIN events[c] : k > n => /\ k - n \in DOMAIN EventsSince(c, n)
                                                   /\ EventsSince(c, n)[k - n] = events[c][k]
<1> DEFINE m == Len(events[c])
<1>1. m \in Nat /\ DOMAIN events[c] = 1 .. m
    OBVIOUS
<1>2. {k \in DOMAIN events[c] : k > n} = (n + 1) .. m
    BY <1>1
<1>3. Cardinality((n + 1) .. m) = m - n
    <2>1. n + 1 \in Int /\ m \in Int
        BY <1>1
    <2>2. Cardinality((n + 1) .. m) = IF n + 1 > m THEN 0 ELSE m - (n + 1) + 1
        BY <2>1, FS_Interval
    <2> QED BY <1>1, <2>2
<1>4. EventsSince(c, n) = [i \in 1 .. (m - n) |-> events[c][n + i]]
    BY <1>2, <1>3 DEF EventsSince
<1>5. \A i \in 1 .. (m - n) : n + i \in 1 .. m
    BY <1>1
<1>6. \A k \in 1 .. m : k > n => k - n \in 1 .. (m - n) /\ n + (k - n) = k
    BY <1>1
<1>7. EventsSince(c, n) \in Seq(Stage)
    <2>1. \A i \in 1 .. (m - n) : events[c][n + i] \in Stage
        BY <1>1, <1>5
    <2> QED BY <1>1, <1>4, <2>1
<1> QED BY <1>1, <1>4, <1>5, <1>6, <1>7

LEMMA ShownLength ==
    ASSUME NEW s \in Seq(Stage), NEW t \in Seq(Stage), Extends(s, t)
    PROVE  Len(s) \in Nat /\ Len(s) <= Len(t)
<1>1. CASE Len(s) = 0
    BY <1>1
<1>2. CASE Len(s) # 0
    <2>1. Len(s) \in DOMAIN s
        BY <1>2
    <2> QED BY <2>1 DEF Extends
<1> QED BY <1>1, <1>2

LEMMA ShowsMore ==
    ASSUME NEW s \in Seq(Stage), NEW t \in Seq(Stage), NEW ev,
           Extends(s, ev),
           \A i \in DOMAIN t : Len(s) + i \in DOMAIN ev /\ ev[Len(s) + i] = t[i]
    PROVE  /\ s \o t \in Seq(Stage) /\ Extends(s \o t, ev)
           /\ Reported(s) \/ Reported(t) => Reported(s \o t)
<1>1. /\ DOMAIN s = 1 .. Len(s) /\ DOMAIN t = 1 .. Len(t) /\ Len(s) \in Nat /\ Len(t) \in Nat
      /\ DOMAIN (s \o t) = 1 .. (Len(s) + Len(t))
      /\ \A i \in 1 .. Len(s) : (s \o t)[i] = s[i]
      /\ \A i \in 1 .. Len(t) : (s \o t)[Len(s) + i] = t[i]
    OBVIOUS
<1>2. \A i \in DOMAIN (s \o t) : i \in DOMAIN s \/ (i - Len(s) \in DOMAIN t /\ i = Len(s) + (i - Len(s)))
    BY <1>1
<1>3. Extends(s \o t, ev)
    <2> SUFFICES ASSUME NEW i \in DOMAIN (s \o t)
                 PROVE  i \in DOMAIN ev /\ ev[i] = (s \o t)[i]
        BY DEF Extends
    <2>1. CASE i \in DOMAIN s
        BY <1>1, <2>1 DEF Extends
    <2>2. CASE i - Len(s) \in DOMAIN t /\ i = Len(s) + (i - Len(s))
        BY <1>1, <2>2
    <2> QED BY <1>2, <2>1, <2>2
<1>4. Reported(s) => Reported(s \o t)
    BY <1>1 DEF Reported
<1>5. Reported(t) => Reported(s \o t)
    <2> SUFFICES ASSUME NEW i \in 1 .. Len(t), t[i] = "report" PROVE Reported(s \o t)
        BY <1>1 DEF Reported
    <2>1. Len(s) + i \in DOMAIN (s \o t) /\ (s \o t)[Len(s) + i] = "report"
        BY <1>1
    <2> QED BY <2>1 DEF Reported
<1> QED BY <1>3, <1>4, <1>5

-----------------------------------------------------------------------------
(* What a command knows stays true                                          *)

\* A row goes on: an end is an end, and only a reported attempt is completed.
Grown(r, ev, w, r2, ev2, w2) ==
    /\ r.status = "absent" => r2.status = "absent"
    /\ r.status \in Terminal => /\ r2.status = r.status /\ r2.result = r.result
                                /\ r.status = "complete" => r2.attempt = r.attempt /\ w2 = w
    /\ Extends(ev, ev2)
    /\ r2.status = "complete" /\ r.status # "complete" => Reported(ev2) /\ w2 = r2.attempt

LEMMA SameGrown == ASSUME NEW r, NEW ev, NEW w PROVE Grown(r, ev, w, r, ev, w)
BY DEF Grown, Extends

LEMMA RemotelyGrown ==
    ASSUME NEW d, NEW q, NEW r, NEW ev, NEW w, NEW r2, NEW ev2, NEW w2,
           Remotely(d, q, r, ev, w), Grown(r, ev, w, r2, ev2, w2)
    PROVE  Remotely(d, q, r2, ev2, w2)
<1>1. Reported(ev) => Reported(ev2)
    BY DEF Grown, Extends, Reported
<1>2. Extends(d.shown, ev2)
    BY DEF Remotely, Grown, Extends
<1>3. Answer(d, q, ev2)
    BY DEF Remotely, Answer, Grown, Extends
<1>4. Fresh(d, q, r2) /\ Seen(q, r2) /\ Exits(d, r2)
    BY DEF Remotely, Grown, Fresh, Seen, Exits, Terminal
<1> QED BY <1>1, <1>2, <1>3, <1>4 DEF Remotely, Grown, Terminal

\* A request is refused, dropped or, if it was a cancellation, carried out.
LEMMA RemotelyRequest ==
    ASSUME NEW d, NEW q, NEW q2, NEW r, NEW ev, NEW w,
           Remotely(d, q, r, ev, w), q.state # "none", q2.op = q.op,
           \/ q2.state \in {"lost", "refused"}
           \/ q2.state = "answered" /\ q.op = "cancel"
    PROVE  Remotely(d, q2, r, ev, w)
BY DEF Remotely, Fresh, Seen, Answer

\* A command that ends on a failure, or is cancelled, says nothing of the row.
LEMMA RemotelyFails ==
    ASSUME NEW d, NEW d2, NEW q, NEW r, NEW ev, NEW w,
           Remotely(d, q, r, ev, w), d2.pc = "done", d2.exit \notin {0, 3}, d2.shown = d.shown
    PROVE  Remotely(d2, q, r, ev, w)
BY DEF Remotely, Fresh, Answer, Exits

\* It goes on to the next ping, launch or request.
LEMMA RemotelyGoes ==
    ASSUME NEW d, NEW d2, NEW q, NEW r, NEW ev, NEW w,
           Remotely(d, q, r, ev, w), d2.pc \in {"ping", "launch", "wait", "request"},
           d2.shown = d.shown,
           \/ d2.op = d.op /\ d.pc \in {"new", "ping", "launch", "wait", "request"}
           \/ d2.op # "submit"
    PROVE  Remotely(d2, q, r, ev, w)
BY DEF Remotely, Fresh, Answer, Exits

-----------------------------------------------------------------------------
(* The second invariant is kept                                             *)

LEMMA InitJInv == Init => JInv
<1> SUFFICES ASSUME Init PROVE JInv
    OBVIOUS
<1>1. Absent \in Row
    BY DEF Absent, Row, Result
<1>2. Types
    <2>1. \A c \in Job : client[c] \in Commands /\ AttemptLeft(client[c])
        BY ClientAssumption DEF Init, Commands, ClientPc, AttemptLeft
    <2>2. NoRequest \in Requests
        BY <1>1 DEF NoRequest, Requests, RequestState
    <2>3. Idle \in Execs
        BY DEF Idle, Execs, ExecPc, Result
    <2> QED BY <1>1, <2>1, <2>2, <2>3 DEF Init, StoreInit, Types
<1>3. WorkersOK
    BY DEF Init, WorkersOK, Works, Idle, Executor
<1>4. CommandsOK
    <2>1. ASSUME NEW c \in Direct PROVE Directly(c, client[c], request[c], exec[c], jobs[c])
        BY ClientAssumption DEF Init, StoreInit, Directly, Exits, Idle, NoRequest, Absent, Executor
    <2>2. ASSUME NEW c \in Job \ Direct
          PROVE  Remotely(client[c], request[c], jobs[c], events[c], artifacts[c]["json"])
        BY DEF Init, StoreInit, Remotely, Fresh, Seen, Answer, Exits, Extends, NoRequest, Absent
    <2> QED BY <2>1, <2>2 DEF CommandsOK
<1> QED BY <1>2, <1>3, <1>4 DEF JInv

\* At most one process executes, and no other holds the lock then.
LEMMA OneExecutes ==
    ASSUME IInv, JInv, NEW p \in Proc, exec[p].pc # "idle"
    PROVE  /\ proc[p].pc \in Holding /\ lock = p /\ p # NoProc
           /\ exec[p].job \in Job /\ exec[p].job \notin Direct
           /\ \A q \in Proc \ {p} : exec[q].pc = "idle" /\ proc[q].pc \notin Holding
BY ClientAssumption DEF IInv, LockIsHeld, JInv, WorkersOK, Works

LEMMA ExecutorsApart == Proc \cap Direct = {} /\ Direct \subseteq Job
BY ClientAssumption

\* A process whose step leaves the store and the commands alone.
LEMMA ProcessJInv ==
    ASSUME IInv, JInv, NEW p \in Proc, UNCHANGED <<storeVars, queue, exec, client, request>>,
           NEW s, proc' = [proc EXCEPT ![p] = s], proc[p].pc \in Holding => s.pc \in Holding,
           socket' \in Proc \cup {NoProc}
    PROVE  JInv'
<1>1. Types'
    BY DEF JInv, Types, storeVars
<1>2. CommandsOK'
    BY DEF JInv, CommandsOK, storeVars
<1>3. WorkersOK'
    <2>1. \A q \in Proc : proc[q].pc \in Holding => proc'[q].pc \in Holding
        BY DEF IInv, Shapes, ProcShape
    <2> QED BY <2>1 DEF JInv, WorkersOK, Works, storeVars
<1> QED BY <1>1, <1>2, <1>3 DEF JInv

LEMMA GoneJInv ==
    ASSUME IInv, JInv, NEW p \in Proc, Gone(p), socket' = socket
    PROVE  JInv'
<1>0. UNCHANGED storeVars /\ client' = client
    BY DEF Gone
<1>1. \A c \in Job :
         \/ request'[c] = request[c]
         \/ /\ request[c].state \in {"sent", "row"}
            /\ request'[c] = [request[c] EXCEPT !.state = "lost"]
    BY DEF Gone, Dropped
<1>2. ASSUME NEW c \in Job PROVE request'[c] \in Requests
    <2>1. request[c] \in Requests
        BY DEF JInv, Types
    <2>2. [request[c] EXCEPT !.state = "lost"] \in Requests
        BY <2>1 DEF Requests, RequestState
    <2> QED BY <1>1, <2>1, <2>2
<1>i. Idle \in Execs /\ Idle.pc = "idle"
    BY DEF Idle, Execs, ExecPc, Result
<1>3. Types'
    <2>1. request' \in [Job -> Requests]
        BY <1>2 DEF Gone, Dropped
    <2>2. queue' \in [Proc -> Seq(Job)]
        BY DEF JInv, Types, Gone
    <2>3. exec' \in [Executor -> Execs]
        BY <1>i DEF JInv, Types, Gone
    <2> QED BY <1>0, <2>1, <2>2, <2>3 DEF JInv, Types, storeVars
<1>4. WorkersOK'
    <2> SUFFICES ASSUME NEW q \in Proc, exec'[q].pc # "idle"
                 PROVE  q # p
        BY <1>0 DEF JInv, WorkersOK, Works, Gone, storeVars, Types, Executor, IInv, Shapes, ProcShape
    <2> QED BY <1>i DEF Gone, JInv, Types, Executor
<1>5. CommandsOK'
    <2>1. ASSUME NEW c \in Direct
          PROVE  Directly(c, client'[c], request'[c], exec'[c], jobs'[c])
        <3>1. exec'[c] = exec[c]
            BY ExecutorsApart DEF Gone, JInv, Types, Executor
        <3>2. request'[c] = request[c]
            BY <1>1, ExecutorsApart DEF JInv, CommandsOK, Directly
        <3> QED BY <1>0, <3>1, <3>2 DEF JInv, CommandsOK, storeVars
    <2>2. ASSUME NEW c \in Job \ Direct
          PROVE  Remotely(client'[c], request'[c], jobs'[c], events'[c], artifacts'[c]["json"])
        <3>0. Remotely(client[c], request[c], jobs[c], events[c], artifacts[c]["json"])
            BY DEF JInv, CommandsOK
        <3>1. CASE request'[c] = request[c]
            BY <1>0, <3>0, <3>1 DEF storeVars
        <3>2. CASE /\ request[c].state \in {"sent", "row"}
                   /\ request'[c] = [request[c] EXCEPT !.state = "lost"]
            <4>1. request'[c].op = request[c].op /\ request'[c].state = "lost"
                BY <3>2 DEF JInv, Types, Requests
            <4>2. Remotely(client[c], request'[c], jobs[c], events[c], artifacts[c]["json"])
                BY <3>0, <3>2, <4>1, RemotelyRequest
            <4> QED BY <1>0, <4>2 DEF storeVars
        <3> QED BY <1>1, <3>1, <3>2
    <2> QED BY <2>1, <2>2 DEF CommandsOK
<1> QED BY <1>3, <1>4, <1>5 DEF JInv

-----------------------------------------------------------------------------
(* Steps on the tables                                                      *)

\* A step that lets every row go on, and leaves the commands to their polls.
LEMMA StoreJInv ==
    ASSUME JInv, Types', UNCHANGED <<client, request>>, WorkersOK',
           \A c \in Job \ Direct :
              Grown(jobs[c], events[c], artifacts[c]["json"],
                    jobs'[c], events'[c], artifacts'[c]["json"]),
           \A c \in Direct : Directly(c, client[c], request[c], exec'[c], jobs'[c])
    PROVE  JInv'
<1>1. ASSUME NEW c \in Job \ Direct
      PROVE  Remotely(client'[c], request'[c], jobs'[c], events'[c], artifacts'[c]["json"])
    <2>1. Remotely(client[c], request[c], jobs[c], events[c], artifacts[c]["json"])
        BY DEF JInv, CommandsOK
    <2>2. Remotely(client[c], request[c], jobs'[c], events'[c], artifacts'[c]["json"])
        BY <2>1, RemotelyGrown
    <2> QED BY <2>2
<1> QED BY <1>1 DEF JInv, CommandsOK

LEMMA DoingKept ==
    ASSUME NEW e, NEW r, NEW ev, NEW w, NEW r2, NEW ev2, NEW w2,
           Doing(e, r, ev, w), Extends(ev, ev2),
           r.status = "running" => r2.status = "running" /\ r2.attempt = r.attempt /\ w2 = w
    PROVE  Doing(e, r2, ev2, w2)
BY DEF Doing, Extends, Reported

\* The worker that executes does not lose its job to a step elsewhere.
LEMMA WorkersKept ==
    ASSUME JInv, exec' = exec, proc' = proc,
           \A c \in Job \ Direct :
              /\ Extends(events[c], events'[c])
              /\ jobs[c].status = "running" =>
                    /\ jobs'[c].status = "running" /\ jobs'[c].attempt = jobs[c].attempt
                    /\ artifacts'[c]["json"] = artifacts[c]["json"]
    PROVE  WorkersOK'
<1> SUFFICES ASSUME NEW p \in Proc
             PROVE  /\ Works(exec[p], proc[p].pc)
                    /\ exec[p].pc # "idle" =>
                          Doing(exec[p], jobs'[exec[p].job], events'[exec[p].job],
                                artifacts'[exec[p].job]["json"])
    BY DEF WorkersOK
<1>1. Works(exec[p], proc[p].pc)
    BY DEF JInv, WorkersOK
<1>2. ASSUME exec[p].pc # "idle"
      PROVE  Doing(exec[p], jobs'[exec[p].job], events'[exec[p].job],
                   artifacts'[exec[p].job]["json"])
    <2>1. PICK j \in Job \ Direct : j = exec[p].job
        BY <1>1, <1>2 DEF Works
    <2>2. Doing(exec[p], jobs[j], events[j], artifacts[j]["json"])
        BY <1>2, <2>1 DEF JInv, WorkersOK
    <2>3. Doing(exec[p], jobs'[j], events'[j], artifacts'[j]["json"])
        BY <2>2, DoingKept
    <2> QED BY <2>1, <2>3
<1> QED BY <1>1, <1>2

LEMMA LockJInv == ASSUME IInv, JInv, NEW p \in Proc, Lock(p) PROVE JInv'
<1>1. \A q \in Proc : exec[q].pc = "idle"
    BY OneExecutes DEF Lock
<1>2. /\ UNCHANGED <<order, events, artifacts, socket, exec, client, request>>
      /\ \A c \in Job : \/ jobs'[c] = jobs[c]
                        \/ /\ jobs[c].status = "running"
                           /\ jobs'[c] = [jobs[c] EXCEPT !.status = "failed",
                                                         !.result = "analysis_incomplete"]
    BY DEF Lock, RecoverInterruptedJobs
<1>3. ASSUME NEW c \in Job
      PROVE  /\ jobs'[c] \in Row
             /\ \/ jobs'[c] = jobs[c]
                \/ jobs[c].status = "running" /\ jobs'[c].status = "failed"
    <2>1. jobs[c] \in Row
        BY DEF JInv, Types
    <2>2. [jobs[c] EXCEPT !.status = "failed", !.result = "analysis_incomplete"] \in Row
        BY <2>1 DEF Row, Status, Result
    <2> QED BY <1>2, <2>1, <2>2 DEF Row
<1>4. queue' \in [Proc -> Seq(Job)]
    <2>1. PICK q \in RestoredQueue : queue' = [queue EXCEPT ![p] = q]
        BY DEF Lock
    <2>2. QueuedInWindow \subseteq Job /\ IsFiniteSet(QueuedInWindow)
        BY JobAssumption, FS_Subset DEF QueuedInWindow
    <2>3. Cardinality(QueuedInWindow) \in Nat
        BY <2>2, FS_CardinalityType
    <2>4. q \in Seq(Job)
        <3>1. q \in [1 .. Cardinality(QueuedInWindow) -> QueuedInWindow]
            BY DEF RestoredQueue
        <3> QED BY <2>2, <2>3, <3>1
    <2> QED BY <2>1, <2>4 DEF JInv, Types
<1>5. Types'
    <2>1. jobs' \in [Job -> Row]
        BY <1>3 DEF Lock, RecoverInterruptedJobs
    <2> QED BY <1>2, <1>4, <2>1 DEF JInv, Types
<1>6. WorkersOK'
    BY <1>1, <1>2 DEF WorkersOK, Works
<1>7. ASSUME NEW c \in Job \ Direct
      PROVE  Grown(jobs[c], events[c], artifacts[c]["json"],
                   jobs'[c], events'[c], artifacts'[c]["json"])
    BY <1>2, <1>3 DEF Grown, Extends, Terminal
<1>8. ASSUME NEW c \in Direct PROVE Directly(c, client[c], request[c], exec'[c], jobs'[c])
    <2>1. c \in Job /\ Directly(c, client[c], request[c], exec[c], jobs[c])
        BY ExecutorsApart DEF JInv, CommandsOK
    <2>2. CASE jobs'[c] = jobs[c]
        BY <1>2, <2>1, <2>2
    <2>3. CASE jobs[c].status = "running" /\ jobs'[c].status = "failed"
        BY <1>2, <2>1, <2>3 DEF Directly, Exits
    <2> QED BY <1>3, <2>1, <2>2, <2>3
<1> QED BY <1>2, <1>5, <1>6, <1>7, <1>8, StoreJInv

-----------------------------------------------------------------------------
(* The answers of a worker                                                  *)

\* The request of c is dealt with, its row goes on, and nothing else changes.
LEMMA HandlerJInv ==
    ASSUME JInv, NEW c \in Job \ Direct, NEW q \in Requests,
           request' = [request EXCEPT ![c] = q],
           UNCHANGED <<socket, proc, exec, client>>,
           jobs' \in [Job -> Row], events' \in [Job -> Seq(Stage)], artifacts' = artifacts,
           queue' \in [Proc -> Seq(Job)],
           \A k \in Job \ {c} : jobs'[k] = jobs[k] /\ events'[k] = events[k],
           Extends(events[c], events'[c]),
           jobs[c].status = "running" =>
               jobs'[c].status = "running" /\ jobs'[c].attempt = jobs[c].attempt,
           Remotely(client[c], q, jobs'[c], events'[c], artifacts[c]["json"])
    PROVE  JInv'
<1>1. Types'
    BY DEF JInv, Types
<1>2. WorkersOK'
    <2>1. \A k \in Job \ Direct : Extends(events[k], events'[k])
        BY DEF Extends
    <2> QED BY <2>1, WorkersKept
<1>3. CommandsOK'
    <2>1. ASSUME NEW k \in Direct PROVE Directly(k, client'[k], request'[k], exec'[k], jobs'[k])
        BY ExecutorsApart DEF JInv, CommandsOK, Types
    <2>2. ASSUME NEW k \in Job \ Direct
          PROVE  Remotely(client'[k], request'[k], jobs'[k], events'[k], artifacts'[k]["json"])
        <3>1. CASE k = c
            BY <3>1 DEF JInv, Types
        <3>2. CASE k # c
            BY <3>2 DEF JInv, CommandsOK, Types
        <3> QED BY <3>1, <3>2
    <2> QED BY <2>1, <2>2 DEF CommandsOK
<1> QED BY <1>1, <1>2, <1>3 DEF JInv

\* Only the commands of a worker have requests.
LEMMA RequestOfWorker ==
    ASSUME JInv, NEW c \in Job, request[c].state # "none"
    PROVE  /\ c \in Job \ Direct
           /\ Remotely(client[c], request[c], jobs[c], events[c], artifacts[c]["json"])
           /\ request[c] \in Requests /\ client[c] \in Commands /\ jobs[c] \in Row
           /\ events[c] \in Seq(Stage) /\ artifacts[c] \in [Format -> Nat]
BY DEF JInv, Types, CommandsOK, Directly

LEMMA HandleSubmitJInv ==
    ASSUME IInv, JInv, NEW p \in Proc, NEW c \in Job, HandleSubmit(p, c)
    PROVE  JInv'
<1>1. /\ request[c].op = "submit" /\ request[c].state = "sent"
      /\ UNCHANGED <<artifacts, socket, proc, exec, client>>
    BY DEF HandleSubmit, Arrived
<1>2. /\ c \in Job \ Direct /\ request[c] \in Requests /\ events[c] \in Seq(Stage)
      /\ Remotely(client[c], request[c], jobs[c], events[c], artifacts[c]["json"])
    BY <1>1, RequestOfWorker
<1>3. PICK r : r = [Absent EXCEPT !.status = "queued"]
    OBVIOUS
<1>4. r \in Row /\ r.status = "queued"
    BY <1>3 DEF Absent, Row, Status, Result
<1>5. jobs' = [jobs EXCEPT ![c] = r]
    BY <1>3 DEF HandleSubmit, CreateJob
<1>6. /\ events' \in [Job -> Seq(Stage)] /\ Extends(events[c], events'[c])
      /\ \A k \in Job \ {c} : events'[k] = events[k]
    <2>1. events \in [Job -> Seq(Stage)] /\ Emit(c, "queue") /\ "queue" \in Stage
        BY DEF JInv, Types, HandleSubmit, Stage
    <2> QED BY <2>1, EmitStep
<1>7. PICK q : q = [request[c] EXCEPT !.state = "answered"]
    OBVIOUS
<1>8. q \in Requests /\ q.op = "submit" /\ q.state = "answered"
    BY <1>1, <1>2, <1>7 DEF Requests, RequestState
<1>9. request' = [request EXCEPT ![c] = q]
    BY <1>7 DEF HandleSubmit, JInv, Types
<1>10. queue' \in [Proc -> Seq(Job)]
    BY DEF HandleSubmit, JInv, Types
<1>11. jobs[c].status = "absent"
    BY <1>1, <1>2 DEF Remotely, Fresh
<1>12. Remotely(client[c], q, jobs'[c], events'[c], artifacts[c]["json"])
    <2>1. jobs'[c] = r
        BY <1>5 DEF JInv, Types
    <2>2. Extends(client[c].shown, events'[c])
        BY <1>2, <1>6 DEF Remotely, Extends
    <2> QED BY <1>1, <1>2, <1>4, <1>8, <1>11, <2>1, <2>2
            DEF Remotely, Fresh, Seen, Answer, Exits
<1> QED BY <1>1, <1>2, <1>4, <1>5, <1>6, <1>8, <1>9, <1>10, <1>11, <1>12, HandlerJInv
        DEF JInv, Types

LEMMA HandleCancelJInv ==
    ASSUME IInv, JInv, NEW p \in Proc, NEW c \in Job, HandleCancel(p, c)
    PROVE  JInv'
<1>1. /\ request[c].op = "cancel" /\ request[c].state = "sent"
      /\ UNCHANGED <<artifacts, socket, proc, exec, queue, client>>
    BY DEF HandleCancel, Arrived
<1>2. /\ c \in Job \ Direct /\ request[c] \in Requests /\ events[c] \in Seq(Stage)
      /\ jobs[c] \in Row
      /\ Remotely(client[c], request[c], jobs[c], events[c], artifacts[c]["json"])
    BY <1>1, RequestOfWorker
<1>3. PICK q : q = [request[c] EXCEPT !.state = IF Cancellable(c) THEN "answered" ELSE "refused"]
    OBVIOUS
<1>4. q \in Requests /\ q.op = "cancel" /\ q.state \in {"answered", "refused"}
    BY <1>1, <1>2, <1>3 DEF Requests, RequestState
<1>5. request' = [request EXCEPT ![c] = q]
    BY <1>3 DEF HandleCancel, JInv, Types
<1>6. Remotely(client[c], q, jobs[c], events[c], artifacts[c]["json"])
    BY <1>1, <1>2, <1>4, RemotelyRequest
<1>7. /\ jobs' \in [Job -> Row] /\ events' \in [Job -> Seq(Stage)]
      /\ \A k \in Job \ {c} : jobs'[k] = jobs[k] /\ events'[k] = events[k]
      /\ Extends(events[c], events'[c])
      /\ \/ jobs'[c] = jobs[c]
         \/ jobs[c].status = "queued" /\ jobs'[c].status = "cancelled"
         \/ /\ jobs[c].status = "running" /\ jobs'[c].status = "running"
            /\ jobs'[c].attempt = jobs[c].attempt
    <2>0. jobs \in [Job -> Row] /\ events \in [Job -> Seq(Stage)]
        BY DEF JInv, Types
    <2>1. CASE ~Cancellable(c)
        <3>1. jobs' = jobs /\ events' = events
            BY <2>1 DEF HandleCancel
        <3> QED BY <2>0, <3>1 DEF Extends
    <2>2. CASE jobs[c].status = "queued"
        <3>1. PICK r : r = [jobs[c] EXCEPT !.status = "cancelled", !.result = "cancelled"]
            OBVIOUS
        <3>2. r \in Row /\ r.status = "cancelled"
            BY <1>2, <3>1 DEF Row, Status, Result
        <3>3. jobs' = [jobs EXCEPT ![c] = r] /\ Emit(c, "cancelled")
            BY <2>0, <2>2, <3>1 DEF HandleCancel, Cancellable, MarkCancelled
        <3>4. "cancelled" \in Stage
            BY DEF Stage
        <3> QED BY <2>0, <2>2, <3>2, <3>3, <3>4, EmitStep
    <2>3. CASE jobs[c].status = "running"
        <3>1. PICK r : r = [jobs[c] EXCEPT !.cancel = TRUE]
            OBVIOUS
        <3>2. r \in Row /\ r.status = "running" /\ r.attempt = jobs[c].attempt
            BY <1>2, <2>3, <3>1 DEF Row
        <3>3. jobs' = [jobs EXCEPT ![c] = r] /\ events' = events
            BY <2>0, <2>3, <3>1 DEF HandleCancel, Cancellable, RequestCancel
        <3> QED BY <2>0, <2>3, <3>2, <3>3 DEF Extends
    <2> QED BY <2>1, <2>2, <2>3 DEF Cancellable
<1>8. Grown(jobs[c], events[c], artifacts[c]["json"], jobs'[c], events'[c], artifacts[c]["json"])
    BY <1>7 DEF Grown, Terminal
<1>9. Remotely(client[c], q, jobs'[c], events'[c], artifacts[c]["json"])
    BY <1>6, <1>8, RemotelyGrown
<1>10. jobs[c].status = "running" =>
          jobs'[c].status = "running" /\ jobs'[c].attempt = jobs[c].attempt
    BY <1>7
<1> QED BY <1>1, <1>2, <1>4, <1>5, <1>7, <1>9, <1>10, HandlerJInv DEF JInv, Types

LEMMA StatusRowJInv ==
    ASSUME IInv, JInv, NEW p \in Proc, NEW c \in Job, StatusRow(p, c)
    PROVE  JInv'
<1>1. /\ request[c].op = "status" /\ request[c].state = "sent"
      /\ UNCHANGED <<storeVars, socket, proc, exec, queue, client>>
    BY DEF StatusRow, Arrived
<1>2. /\ c \in Job \ Direct /\ request[c] \in Requests /\ jobs[c] \in Row
      /\ Remotely(client[c], request[c], jobs[c], events[c], artifacts[c]["json"])
    BY <1>1, RequestOfWorker
<1>3. PICK q : q = [request[c] EXCEPT !.state = "row", !.row = jobs[c]]
    OBVIOUS
<1>4. q \in Requests /\ q.op = "status" /\ q.state = "row" /\ q.row = jobs[c]
    BY <1>1, <1>2, <1>3 DEF Requests, RequestState
<1>5. request' = [request EXCEPT ![c] = q]
    BY <1>3 DEF StatusRow, JInv, Types
<1>6. Remotely(client[c], q, jobs[c], events[c], artifacts[c]["json"])
    BY <1>1, <1>2, <1>4 DEF Remotely, Fresh, Seen, Answer
<1>7. jobs' = jobs /\ events' = events /\ artifacts' = artifacts
    BY <1>1 DEF storeVars
<1> QED BY <1>1, <1>2, <1>4, <1>5, <1>6, <1>7, HandlerJInv DEF JInv, Types, Extends

LEMMA StatusEventsJInv ==
    ASSUME IInv, JInv, NEW p \in Proc, NEW c \in Job, StatusEvents(p, c)
    PROVE  JInv'
<1>1. request[c].state = "row" /\ UNCHANGED <<storeVars, socket, proc, exec, queue, client>>
    BY DEF StatusEvents
<1>2. /\ c \in Job \ Direct /\ request[c] \in Requests /\ events[c] \in Seq(Stage)
      /\ client[c] \in Commands
      /\ Remotely(client[c], request[c], jobs[c], events[c], artifacts[c]["json"])
    BY <1>1, RequestOfWorker
<1>3. PICK ev : ev = EventsSince(c, Len(client[c].shown))
    OBVIOUS
<1>4. PICK n : n = Len(client[c].shown)
    OBVIOUS
<1>5. n \in Nat /\ n <= Len(events[c]) /\ DOMAIN client[c].shown = 1 .. n
    <2>1. client[c].shown \in Seq(Stage) /\ Extends(client[c].shown, events[c])
        BY <1>2 DEF Commands, Remotely
    <2> QED BY <1>2, <1>4, <2>1, ShownLength
<1>6. /\ ev \in Seq(Stage)
      /\ \A i \in DOMAIN ev : n + i \in DOMAIN events[c] /\ events[c][n + i] = ev[i]
      /\ \A k \in DOMAIN events[c] : k > n => k - n \in DOMAIN ev /\ ev[k - n] = events[c][k]
    BY <1>2, <1>3, <1>4, <1>5, EventsAfter
<1>7. PICK q : q = [request[c] EXCEPT !.state = "answered", !.events = ev]
    OBVIOUS
<1>8. /\ q \in Requests /\ q.op = request[c].op /\ q.state = "answered"
      /\ q.row = request[c].row /\ q.events = ev
    BY <1>2, <1>6, <1>7 DEF Requests, RequestState
<1>9. request' = [request EXCEPT ![c] = q]
    BY <1>3, <1>7 DEF StatusEvents, JInv, Types
<1>10. Reported(events[c]) => Reported(client[c].shown) \/ Reported(ev)
    <2> SUFFICES ASSUME NEW k \in DOMAIN events[c], events[c][k] = "report"
                 PROVE  Reported(client[c].shown) \/ Reported(ev)
        BY DEF Reported
    <2>1. CASE k > n
        BY <1>6, <2>1 DEF Reported
    <2>2. CASE ~(k > n)
        <3>1. k \in DOMAIN client[c].shown
            BY <1>2, <1>5, <2>2
        <3>2. client[c].shown[k] = "report"
            BY <1>2, <3>1 DEF Remotely, Extends
        <3> QED BY <3>1, <3>2 DEF Reported
    <2> QED BY <2>1, <2>2
<1>11. Answer(client[c], q, events[c])
    <2>1. request[c].op = "status" /\ q.row.status = "complete" => Reported(events[c])
        BY <1>1, <1>2, <1>8 DEF Remotely, Seen, Terminal
    <2> QED BY <1>4, <1>6, <1>8, <1>10, <2>1 DEF Answer
<1>12. Remotely(client[c], q, jobs[c], events[c], artifacts[c]["json"])
    BY <1>1, <1>2, <1>8, <1>11 DEF Remotely, Fresh, Seen
<1>13. jobs' = jobs /\ events' = events /\ artifacts' = artifacts
    BY <1>1 DEF storeVars
<1> QED BY <1>1, <1>2, <1>8, <1>9, <1>12, <1>13, HandlerJInv DEF JInv, Types, Extends

-----------------------------------------------------------------------------
(* The execution of a job                                                   *)

\* A worker that executes goes on, whatever the others have in their queues.
LEMMA WorkerGoesJInv ==
    ASSUME IInv, JInv, NEW p \in Proc, NEW j \in Job \ Direct, NEW e \in Execs,
           proc[p].pc \in Holding, exec' = [exec EXCEPT ![p] = e],
           e.pc # "idle" => e.job = j,
           UNCHANGED <<socket, proc, client, request>>,
           Types', \A c \in Job \ {j} : /\ jobs'[c] = jobs[c] /\ events'[c] = events[c]
                                        /\ artifacts'[c] = artifacts[c],
           Grown(jobs[j], events[j], artifacts[j]["json"],
                 jobs'[j], events'[j], artifacts'[j]["json"]),
           Doing(e, jobs'[j], events'[j], artifacts'[j]["json"])
    PROVE  JInv'
<1>1. exec'[p] = e /\ \A x \in Executor \ {p} : exec'[x] = exec[x]
    BY DEF JInv, Types, Executor
<1>2. \A q \in Proc \ {p} : exec[q].pc = "idle"
    BY OneExecutes
<1>3. WorkersOK'
    <2> SUFFICES ASSUME NEW q \in Proc, exec'[q].pc # "idle"
                 PROVE  /\ Works(exec'[q], proc'[q].pc)
                        /\ Doing(exec'[q], jobs'[exec'[q].job], events'[exec'[q].job],
                                 artifacts'[exec'[q].job]["json"])
        BY DEF WorkersOK, Works
    <2>1. q = p
        BY <1>1, <1>2 DEF Executor
    <2> QED BY <1>1, <2>1 DEF Works
<1>4. ASSUME NEW c \in Job \ Direct
      PROVE  Grown(jobs[c], events[c], artifacts[c]["json"],
                   jobs'[c], events'[c], artifacts'[c]["json"])
    <2>1. CASE c = j
        BY <2>1
    <2>2. CASE c # j
        BY <2>2, SameGrown
    <2> QED BY <2>1, <2>2
<1>5. ASSUME NEW c \in Direct PROVE Directly(c, client[c], request[c], exec'[c], jobs'[c])
    BY <1>1, ExecutorsApart DEF JInv, CommandsOK, Executor
<1> QED BY <1>3, <1>4, <1>5, StoreJInv

\* A direct command goes on with its own job.
LEMMA DirectGoesJInv ==
    ASSUME IInv, JInv, NEW c \in Direct, NEW e \in Execs, exec' = [exec EXCEPT ![c] = e],
           UNCHANGED <<socket, proc, client, request>>,
           Types', \A k \in Job \ {c} : /\ jobs'[k] = jobs[k] /\ events'[k] = events[k]
                                        /\ artifacts'[k] = artifacts[k],
           Directly(c, client[c], request[c], e, jobs'[c])
    PROVE  JInv'
<1>1. exec'[c] = e /\ \A x \in Executor \ {c} : exec'[x] = exec[x]
    BY DEF JInv, Types, Executor
<1>2. WorkersOK'
    <2> SUFFICES ASSUME NEW q \in Proc
                 PROVE  /\ Works(exec[q], proc[q].pc)
                        /\ exec[q].pc # "idle" =>
                              Doing(exec[q], jobs'[exec[q].job], events'[exec[q].job],
                                    artifacts'[exec[q].job]["json"])
        BY <1>1, ExecutorsApart DEF WorkersOK, Executor
    <2> QED BY DEF JInv, WorkersOK, Works
<1>3. ASSUME NEW k \in Job \ Direct
      PROVE  Grown(jobs[k], events[k], artifacts[k]["json"],
                   jobs'[k], events'[k], artifacts'[k]["json"])
    BY SameGrown
<1>4. ASSUME NEW k \in Direct PROVE Directly(k, client[k], request[k], exec'[k], jobs'[k])
    <2>1. CASE k = c
        BY <1>1, <2>1
    <2>2. CASE k # c
        BY <1>1, <2>2, ExecutorsApart DEF JInv, CommandsOK, Executor
    <2> QED BY <2>1, <2>2
<1> QED BY <1>2, <1>3, <1>4, StoreJInv

LEMMA ClaimJInv == ASSUME IInv, JInv, NEW p \in Proc, Claim(p) PROVE JInv'
<1>1. /\ proc[p].pc \in Holding /\ exec[p].pc = "idle" /\ queue[p] # <<>>
      /\ UNCHANGED <<events, artifacts, socket, proc, client, request>>
    BY DEF Claim, IInv, Shapes, ProcShape, ProcPc, Holding
<1>2. PICK j \in Job : j = Head(queue[p])
    BY <1>1 DEF JInv, Types
<1>3. queue' \in [Proc -> Seq(Job)]
    BY <1>1 DEF Claim, JInv, Types
<1>4. CASE ~Claimable(j)
    <2>1. jobs' = jobs /\ exec' = exec
        BY <1>2, <1>4 DEF Claim
    <2>2. Types'
        BY <1>1, <1>3, <2>1 DEF JInv, Types
    <2>3. WorkersOK'
        BY <1>1, <2>1, WorkersKept DEF Extends
    <2> QED BY <1>1, <2>1, <2>2, <2>3, StoreJInv, SameGrown DEF JInv, CommandsOK
<1>5. CASE Claimable(j)
    <2>1. j \in Job \ Direct
        BY <1>5 DEF Claimable, JInv, CommandsOK, Directly
    <2>2. PICK r : r = [status |-> "running", attempt |-> jobs[j].attempt + 1, cancel |-> FALSE,
                        result |-> jobs[j].result, report |-> jobs[j].report]
        OBVIOUS
    <2>3. jobs[j] \in Row
        BY DEF JInv, Types
    <2>4. r \in Row /\ r.status = "running"
        BY <2>2, <2>3 DEF Row, Status
    <2>5. PICK e : e = [Idle EXCEPT !.pc = "write", !.job = j]
        OBVIOUS
    <2>6. e \in Execs /\ e.pc = "write" /\ e.job = j
        BY <2>5 DEF Idle, Execs, ExecPc, Result
    <2>7. jobs' = [jobs EXCEPT ![j] = r] /\ exec' = [exec EXCEPT ![p] = e]
        BY <1>2, <1>5, <2>2, <2>5 DEF Claim, MarkRunning
    <2>8. Types'
        BY <1>1, <1>3, <2>4, <2>6, <2>7 DEF JInv, Types
    <2>9. jobs'[j] = r /\ jobs[j].status = "queued"
        BY <1>5, <2>7 DEF JInv, Types, Claimable
    <2>10. Grown(jobs[j], events[j], artifacts[j]["json"],
                 jobs'[j], events'[j], artifacts'[j]["json"])
        BY <1>1, <2>4, <2>9 DEF Grown, Extends, Terminal
    <2>11. Doing(e, jobs'[j], events'[j], artifacts'[j]["json"])
        BY <2>4, <2>6, <2>9 DEF Doing
    <2>12. \A c \in Job \ {j} : jobs'[c] = jobs[c]
        BY <2>7 DEF JInv, Types
    <2> QED BY <1>1, <2>1, <2>6, <2>7, <2>8, <2>10, <2>11, <2>12, WorkerGoesJInv
<1> QED BY <1>4, <1>5

\* What one call of the engine does to the job it is about.
LEMMA EngineFacts ==
    ASSUME JInv, NEW x \in Executor, NEW j \in Job, j = exec[x].job, Engine(x)
    PROVE  /\ UNCHANGED <<socket, proc, queue, client, request>> /\ Types'
           /\ \A c \in Job \ {j} : /\ jobs'[c] = jobs[c] /\ events'[c] = events[c]
                                   /\ artifacts'[c] = artifacts[c]
           /\ \E e \in Execs :
                /\ exec' = [exec EXCEPT ![x] = e] /\ e.job = j /\ e.result = exec[x].result
                /\ \/ /\ exec[x].pc = "write" /\ e.pc = "report"
                      /\ jobs'[j] = jobs[j] /\ events'[j] = events[j]
                      /\ artifacts'[j]["json"] = jobs[j].attempt
                   \/ /\ exec[x].pc = "report" /\ e.pc = "complete"
                      /\ jobs'[j] = jobs[j] /\ artifacts'[j] = artifacts[j]
                      /\ Extends(events[j], events'[j]) /\ Reported(events'[j])
                   \/ /\ exec[x].pc = "complete" /\ e.pc = "idle"
                      /\ jobs'[j].status = "complete" /\ jobs'[j].attempt = jobs[j].attempt
                      /\ events'[j] = events[j] /\ artifacts'[j] = artifacts[j]
                   \/ /\ exec[x].pc = "fail" /\ e.pc = "failEvent"
                      /\ jobs'[j].status = "failed" /\ jobs'[j].result = exec[x].result
                      /\ events'[j] = events[j] /\ artifacts'[j] = artifacts[j]
                   \/ /\ exec[x].pc = "cancel" /\ e.pc = "cancelEvent"
                      /\ jobs'[j].status = "cancelled"
                      /\ events'[j] = events[j] /\ artifacts'[j] = artifacts[j]
                   \/ /\ exec[x].pc \in {"failEvent", "cancelEvent"} /\ e.pc = "idle"
                      /\ jobs'[j] = jobs[j] /\ artifacts'[j] = artifacts[j]
                      /\ Extends(events[j], events'[j])
<1>1. /\ UNCHANGED <<socket, proc, queue, client, request>> /\ EngineStep(x)
    BY DEF Engine
<1>2. /\ exec[x] \in Execs /\ exec \in [Executor -> Execs] /\ jobs \in [Job -> Row]
      /\ events \in [Job -> Seq(Stage)] /\ artifacts \in [Job -> [Format -> Nat]]
      /\ jobs[j] \in Row /\ artifacts[j] \in [Format -> Nat]
    BY DEF JInv, Types
<1>3. ASSUME NEW a \in DOMAIN Then, NEW b \in ExecPc, Then[a] = b, Calls(x, a)
      PROVE  \E e \in Execs : /\ exec' = [exec EXCEPT ![x] = e] /\ exec[x].pc = a /\ e.pc = b
                              /\ e.job = j /\ e.result = exec[x].result
    <2>1. PICK e : e = [exec[x] EXCEPT !.pc = b]
        OBVIOUS
    <2>2. e \in Execs /\ e.pc = b /\ e.job = j /\ e.result = exec[x].result
        BY <1>2, <2>1 DEF Execs
    <2>3. exec' = [exec EXCEPT ![x] = e] /\ exec[x].pc = a
        BY <1>2, <1>3, <2>1 DEF Calls
    <2> QED BY <2>2, <2>3
<1>4. /\ Then["write"] = "report" /\ Then["report"] = "complete" /\ Then["complete"] = "idle"
      /\ Then["fail"] = "failEvent" /\ Then["failEvent"] = "idle"
      /\ Then["cancel"] = "cancelEvent" /\ Then["cancelEvent"] = "idle"
      /\ DOMAIN Then = {"write", "report", "complete", "fail", "failEvent", "cancel", "cancelEvent"}
      /\ {"report", "complete", "idle", "failEvent", "cancelEvent"} \subseteq ExecPc
    BY DEF Then, ExecPc
<1>5. ASSUME NEW e \in Execs, exec' = [exec EXCEPT ![x] = e], jobs' \in [Job -> Row],
             events' \in [Job -> Seq(Stage)], artifacts' \in [Job -> [Format -> Nat]]
      PROVE  Types'
    BY <1>1, <1>5 DEF JInv, Types
<1>6. CASE Calls(x, "write")
    <2>1. PICK e \in Execs : /\ exec' = [exec EXCEPT ![x] = e] /\ exec[x].pc = "write"
                             /\ e.pc = "report" /\ e.job = j /\ e.result = exec[x].result
        BY <1>3, <1>4, <1>6
    <2>2. WriteArtifact(j, "json", jobs[j].attempt) /\ jobs' = jobs /\ events' = events
        BY <1>1, <2>1 DEF EngineStep, EngineEvent, Calls
    <2>3. PICK a : a = [artifacts[j] EXCEPT !["json"] = jobs[j].attempt]
        OBVIOUS
    <2>4. a \in [Format -> Nat] /\ a["json"] = jobs[j].attempt
        BY <1>2, <2>3 DEF Format, Row
    <2>5. artifacts' = [artifacts EXCEPT ![j] = a]
        BY <2>2, <2>3 DEF WriteArtifact
    <2>6. Types'
        BY <1>2, <1>5, <2>1, <2>2, <2>4, <2>5
    <2> QED BY <1>1, <1>2, <2>1, <2>2, <2>4, <2>5, <2>6
<1>7. CASE Calls(x, "report")
    <2>1. PICK e \in Execs : /\ exec' = [exec EXCEPT ![x] = e] /\ exec[x].pc = "report"
                             /\ e.pc = "complete" /\ e.job = j /\ e.result = exec[x].result
        BY <1>3, <1>4, <1>7
    <2>2. Emit(j, "report") /\ jobs' = jobs /\ artifacts' = artifacts
        BY <1>1, <2>1 DEF EngineStep, EngineEvent, Calls
    <2>3. /\ events' \in [Job -> Seq(Stage)] /\ Extends(events[j], events'[j])
          /\ Reported(events'[j]) /\ \A c \in Job \ {j} : events'[c] = events[c]
        BY <1>2, <2>2, EmitStep DEF Stage
    <2>4. Types'
        BY <1>2, <1>5, <2>1, <2>2, <2>3
    <2> QED BY <1>1, <1>2, <2>1, <2>2, <2>3, <2>4
<1>8. CASE Calls(x, "failEvent") \/ Calls(x, "cancelEvent")
    <2>1. PICK e \in Execs : /\ exec' = [exec EXCEPT ![x] = e] /\ e.pc = "idle" /\ e.job = j
                             /\ exec[x].pc \in {"failEvent", "cancelEvent"}
                             /\ e.result = exec[x].result
        BY <1>3, <1>4, <1>8
    <2>2. (Emit(j, "error") \/ Emit(j, "cancelled")) /\ jobs' = jobs /\ artifacts' = artifacts
        BY <1>1, <2>1 DEF EngineStep, EngineEvent, Calls
    <2>3. /\ events' \in [Job -> Seq(Stage)] /\ Extends(events[j], events'[j])
          /\ \A c \in Job \ {j} : events'[c] = events[c]
        BY <1>2, <2>2, EmitStep DEF Stage
    <2>4. Types'
        BY <1>2, <1>5, <2>1, <2>2, <2>3
    <2> QED BY <1>1, <1>2, <2>1, <2>2, <2>3, <2>4
<1>9. CASE Calls(x, "complete")
    <2>1. PICK e \in Execs : /\ exec' = [exec EXCEPT ![x] = e] /\ exec[x].pc = "complete"
                             /\ e.pc = "idle" /\ e.job = j /\ e.result = exec[x].result
        BY <1>3, <1>4, <1>9
    <2>2. CompleteJob(j, "reported") /\ events' = events /\ artifacts' = artifacts
        BY <1>1, <2>1 DEF EngineStep, EngineEvent, Calls
    <2>3. PICK r : r = [status |-> "complete", attempt |-> jobs[j].attempt, cancel |-> FALSE,
                        result |-> "reported", report |-> TRUE]
        OBVIOUS
    <2>4. r \in Row /\ r.status = "complete" /\ r.attempt = jobs[j].attempt
        BY <1>2, <2>3 DEF Row, Status, Result
    <2>5. jobs' = [jobs EXCEPT ![j] = r]
        BY <2>2, <2>3 DEF CompleteJob
    <2>6. Types'
        BY <1>2, <1>5, <2>1, <2>2, <2>4, <2>5
    <2> QED BY <1>1, <1>2, <2>1, <2>2, <2>4, <2>5, <2>6
<1>10. CASE Calls(x, "fail")
    <2>1. PICK e \in Execs : /\ exec' = [exec EXCEPT ![x] = e] /\ exec[x].pc = "fail"
                             /\ e.pc = "failEvent" /\ e.job = j /\ e.result = exec[x].result
        BY <1>3, <1>4, <1>10
    <2>2. FailJob(j, exec[x].result) /\ events' = events /\ artifacts' = artifacts
        BY <1>1, <2>1 DEF EngineStep, EngineEvent, Calls
    <2>3. PICK r : r = [jobs[j] EXCEPT !.status = "failed", !.result = exec[x].result]
        OBVIOUS
    <2>4. r \in Row /\ r.status = "failed" /\ r.result = exec[x].result
        BY <1>2, <2>3 DEF Row, Status, Execs
    <2>5. jobs' = [jobs EXCEPT ![j] = r]
        BY <1>2, <2>2, <2>3 DEF FailJob
    <2>6. Types'
        BY <1>2, <1>5, <2>1, <2>2, <2>4, <2>5
    <2> QED BY <1>1, <1>2, <2>1, <2>2, <2>4, <2>5, <2>6
<1>11. CASE Calls(x, "cancel")
    <2>1. PICK e \in Execs : /\ exec' = [exec EXCEPT ![x] = e] /\ exec[x].pc = "cancel"
                             /\ e.pc = "cancelEvent" /\ e.job = j /\ e.result = exec[x].result
        BY <1>3, <1>4, <1>11
    <2>2. MarkCancelled(j) /\ events' = events /\ artifacts' = artifacts
        BY <1>1, <2>1 DEF EngineStep, EngineEvent, Calls
    <2>3. PICK r : r = [jobs[j] EXCEPT !.status = "cancelled", !.result = "cancelled"]
        OBVIOUS
    <2>4. r \in Row /\ r.status = "cancelled"
        BY <1>2, <2>3 DEF Row, Status, Result
    <2>5. jobs' = [jobs EXCEPT ![j] = r]
        BY <1>2, <2>2, <2>3 DEF MarkCancelled
    <2>6. Types'
        BY <1>2, <1>5, <2>1, <2>2, <2>4, <2>5
    <2> QED BY <1>1, <1>2, <2>1, <2>2, <2>4, <2>5, <2>6
<1> QED BY <1>1, <1>6, <1>7, <1>8, <1>9, <1>10, <1>11 DEF EngineStep, EngineEvent

LEMMA WorkerEngineJInv == ASSUME IInv, JInv, NEW p \in Proc, Engine(p) PROVE JInv'
<1>1. exec[p].pc # "idle"
    BY DEF Engine, EngineStep, EngineEvent, Calls
<1>2. PICK j \in Job \ Direct : j = exec[p].job
    BY <1>1, OneExecutes
<1>3. Doing(exec[p], jobs[j], events[j], artifacts[j]["json"])
    BY <1>1, <1>2 DEF JInv, WorkersOK
<1>4. PICK e \in Execs :
        /\ exec' = [exec EXCEPT ![p] = e] /\ e.job = j
        /\ Grown(jobs[j], events[j], artifacts[j]["json"],
                 jobs'[j], events'[j], artifacts'[j]["json"])
        /\ Doing(e, jobs'[j], events'[j], artifacts'[j]["json"])
    <2>1. p \in Executor
        BY DEF Executor
    <2> QED BY <1>2, <1>3, <2>1, EngineFacts DEF Grown, Doing, Extends, Terminal, Reported
<1>5. /\ UNCHANGED <<socket, proc, queue, client, request>> /\ Types'
      /\ \A c \in Job \ {j} : /\ jobs'[c] = jobs[c] /\ events'[c] = events[c]
                              /\ artifacts'[c] = artifacts[c]
    <2>1. p \in Executor
        BY DEF Executor
    <2> QED BY <1>2, <2>1, EngineFacts
<1>6. proc[p].pc \in Holding
    BY <1>1, OneExecutes
<1> QED BY <1>2, <1>4, <1>5, <1>6, WorkerGoesJInv

LEMMA DirectEngineJInv == ASSUME IInv, JInv, NEW c \in Direct, Engine(c) PROVE JInv'
<1>1. exec[c].pc # "idle"
    BY DEF Engine, EngineStep, EngineEvent, Calls
<1>2. c \in Job /\ c \in Executor /\ Directly(c, client[c], request[c], exec[c], jobs[c])
    BY ExecutorsApart DEF JInv, CommandsOK, Executor
<1>3. exec[c].job = c
    BY <1>1, <1>2 DEF Directly
<1>4. PICK e \in Execs : /\ exec' = [exec EXCEPT ![c] = e]
                         /\ Directly(c, client[c], request[c], e, jobs'[c])
    BY <1>1, <1>2, <1>3, EngineFacts DEF Directly, Exits
<1>5. /\ UNCHANGED <<socket, proc, queue, client, request>> /\ Types'
      /\ \A k \in Job \ {c} : /\ jobs'[k] = jobs[k] /\ events'[k] = events[k]
                              /\ artifacts'[k] = artifacts[k]
    BY <1>2, <1>3, EngineFacts
<1> QED BY <1>4, <1>5, DirectGoesJInv

\* The engine turns to an error path, or to the cancellation.
LEMMA TurnsJInv ==
    ASSUME IInv, JInv, NEW x \in Executor,
           \/ x \in Proc /\ EngineCancelled(x)
           \/ \E result \in {"analysis_incomplete", "internal_error"} : EngineRaises(x, result)
    PROVE  JInv'
<1>1. /\ UNCHANGED <<storeVars, socket, proc, queue, client, request>>
      /\ exec[x].pc \in {"write", "report", "complete"}
    BY DEF EngineCancelled, EngineRaises
<1>2. exec[x] \in Execs /\ exec \in [Executor -> Execs]
    BY DEF JInv, Types
<1>3. PICK e \in Execs : /\ exec' = [exec EXCEPT ![x] = e] /\ e.job = exec[x].job
                         /\ \/ e.pc = "fail" /\ e.result # "null"
                            \/ e.pc = "cancel" /\ x \in Proc
    <2>1. CASE x \in Proc /\ EngineCancelled(x)
        <3>1. PICK e : e = [exec[x] EXCEPT !.pc = "cancel"]
            OBVIOUS
        <3>2. e \in Execs /\ e.pc = "cancel" /\ e.job = exec[x].job
            BY <1>2, <3>1 DEF Execs, ExecPc
        <3>3. exec' = [exec EXCEPT ![x] = e]
            BY <1>2, <2>1, <3>1 DEF EngineCancelled
        <3> QED BY <2>1, <3>2, <3>3
    <2>2. ASSUME NEW result \in {"analysis_incomplete", "internal_error"}, EngineRaises(x, result)
          PROVE  \E e \in Execs : /\ exec' = [exec EXCEPT ![x] = e] /\ e.job = exec[x].job
                                  /\ e.pc = "fail" /\ e.result # "null"
        <3>1. PICK e : e = [exec[x] EXCEPT !.pc = "fail", !.result = result]
            OBVIOUS
        <3>2. e \in Execs /\ e.pc = "fail" /\ e.job = exec[x].job /\ e.result = result
            BY <1>2, <3>1 DEF Execs, ExecPc, Result
        <3>3. exec' = [exec EXCEPT ![x] = e]
            BY <1>2, <2>2, <3>1 DEF EngineRaises
        <3> QED BY <3>2, <3>3
    <2> QED BY <2>1, <2>2
<1>4. jobs' = jobs /\ events' = events /\ artifacts' = artifacts
    BY <1>1 DEF storeVars
<1>5. Types'
    BY <1>1, <1>3, <1>4 DEF JInv, Types
<1>6. CASE x \in Proc
    <2>1. exec[x].pc # "idle"
        BY <1>1
    <2>2. proc[x].pc \in Holding /\ exec[x].job \in Job \ Direct
        BY <1>6, <2>1, OneExecutes
    <2>3. PICK j \in Job \ Direct : j = exec[x].job
        BY <2>2
    <2>4. Doing(exec[x], jobs[j], events[j], artifacts[j]["json"])
        BY <1>6, <2>1, <2>3 DEF JInv, WorkersOK
    <2>5. Doing(e, jobs'[j], events'[j], artifacts'[j]["json"])
        BY <1>1, <1>3, <1>4, <2>4 DEF Doing
    <2> QED BY <1>1, <1>3, <1>4, <1>5, <1>6, <2>2, <2>3, <2>5, WorkerGoesJInv, SameGrown
<1>7. CASE x \in Direct
    <2>1. Directly(x, client[x], request[x], exec[x], jobs[x])
        BY <1>7 DEF JInv, CommandsOK
    <2>2. Directly(x, client[x], request[x], e, jobs'[x])
        BY <1>1, <1>3, <1>4, <1>7, <2>1, ExecutorsApart DEF Directly
    <2> QED BY <1>1, <1>3, <1>4, <1>5, <1>7, <2>2, DirectGoesJInv
<1> QED BY <1>6, <1>7 DEF Executor

-----------------------------------------------------------------------------
(* The commands                                                             *)

\* A command c becomes d and its request q, and the workers go on.
LEMMA CommandJInv ==
    ASSUME IInv, JInv, NEW c \in Job, NEW d \in Commands, NEW q \in Requests, AttemptLeft(d),
           client' = [client EXCEPT ![c] = d], request' = [request EXCEPT ![c] = q],
           UNCHANGED <<storeVars, socket, queue, exec>>,
           \A p \in Proc : proc[p].pc \in Holding => proc'[p].pc = proc[p].pc,
           c \in Direct => Directly(c, d, q, exec[c], jobs[c]),
           c \notin Direct => Remotely(d, q, jobs[c], events[c], artifacts[c]["json"])
    PROVE  JInv'
<1>0. jobs' = jobs /\ events' = events /\ artifacts' = artifacts
    BY DEF storeVars
<1>1. /\ client'[c] = d /\ request'[c] = q
      /\ \A k \in Job \ {c} : client'[k] = client[k] /\ request'[k] = request[k]
    BY DEF JInv, Types
<1>2. Types'
    BY <1>0 DEF JInv, Types
<1>3. WorkersOK'
    BY <1>0 DEF JInv, WorkersOK, Works
<1>4. ASSUME NEW k \in Direct PROVE Directly(k, client'[k], request'[k], exec'[k], jobs'[k])
    <2>1. CASE k = c
        BY <1>0, <1>1, <2>1
    <2>2. CASE k # c
        BY <1>0, <1>1, <2>2, ExecutorsApart DEF JInv, CommandsOK
    <2> QED BY <2>1, <2>2
<1>5. ASSUME NEW k \in Job \ Direct
      PROVE  Remotely(client'[k], request'[k], jobs'[k], events'[k], artifacts'[k]["json"])
    <2>1. CASE k = c
        BY <1>0, <1>1, <2>1
    <2>2. CASE k # c
        BY <1>0, <1>1, <2>2 DEF JInv, CommandsOK
    <2> QED BY <2>1, <2>2
<1> QED BY <1>2, <1>3, <1>4, <1>5 DEF JInv, CommandsOK

\* The end of a call changes no process but in who waits for it.
LEMMA CallOverKeeps ==
    ASSUME IInv, NEW c \in Job, CallOver(c) \/ proc' = proc
    PROVE  \A p \in Proc : proc'[p].pc = proc[p].pc
BY DEF IInv, Shapes, ProcShape, CallOver

\* The commands of a worker, and what they know.
LEMMA CommandOfWorker ==
    ASSUME JInv, NEW c \in Job, client[c].pc \notin {"new", "direct", "done"}
    PROVE  /\ c \in Job \ Direct
           /\ Remotely(client[c], request[c], jobs[c], events[c], artifacts[c]["json"])
BY DEF JInv, CommandsOK, Directly

LEMMA CommandTypes ==
    ASSUME JInv, NEW c \in Job
    PROVE  /\ client[c] \in Commands /\ AttemptLeft(client[c]) /\ request[c] \in Requests
           /\ client \in [Job -> Commands] /\ request \in [Job -> Requests]
           /\ events[c] \in Seq(Stage) /\ jobs[c] \in Row
BY DEF JInv, Types

LEMMA DoneTypes ==
    ASSUME JInv, NEW c \in Job, NEW k \in 0..4 \cup {130}
    PROVE  /\ Done(c, k) \in Commands /\ AttemptLeft(Done(c, k))
           /\ Done(c, k).pc = "done" /\ Done(c, k).exit = k
           /\ Done(c, k).shown = client[c].shown /\ Done(c, k).op = client[c].op
<1>1. client[c] \in Commands
    BY CommandTypes
<1> QED BY <1>1 DEF Done, Commands, AttemptLeft, ClientPc

\* A command that has not ended fails.
LEMMA FailedJInv ==
    ASSUME IInv, JInv, NEW c \in Job, NEW k \in {2, 4}, client[c].pc \notin {"new", "direct", "done"},
           client' = [client EXCEPT ![c] = Done(c, k)], request' = request,
           UNCHANGED <<storeVars, socket, queue, exec>>, CallOver(c) \/ proc' = proc
    PROVE  JInv'
<1>1. PICK d : d = Done(c, k)
    OBVIOUS
<1>2. /\ d \in Commands /\ AttemptLeft(d) /\ d.pc = "done" /\ d.exit = k
      /\ d.shown = client[c].shown
    BY <1>1, DoneTypes
<1>3. c \in Job \ Direct /\ Remotely(d, request[c], jobs[c], events[c], artifacts[c]["json"])
    BY <1>2, CommandOfWorker, RemotelyFails
<1>4. request' = [request EXCEPT ![c] = request[c]] /\ request[c] \in Requests
    BY CommandTypes
<1> QED BY <1>1, <1>2, <1>3, <1>4, CommandJInv, CallOverKeeps

\* A command goes on to d.
LEMMA GoesJInv ==
    ASSUME IInv, JInv, NEW c \in Job \ Direct, NEW d \in Commands, AttemptLeft(d),
           client' = [client EXCEPT ![c] = d], request' = request,
           UNCHANGED <<storeVars, socket, queue, exec>>,
           \A p \in Proc : proc[p].pc \in Holding => proc'[p].pc = proc[p].pc,
           d.pc \in {"ping", "launch", "wait", "request"}, d.shown = client[c].shown,
           \/ d.op = client[c].op /\ client[c].pc \in {"new", "ping", "launch", "wait", "request"}
           \/ d.op # "submit"
    PROVE  JInv'
<1>1. Remotely(client[c], request[c], jobs[c], events[c], artifacts[c]["json"])
    BY DEF JInv, CommandsOK
<1>2. Remotely(d, request[c], jobs[c], events[c], artifacts[c]["json"])
    BY <1>1, RemotelyGoes
<1>3. request' = [request EXCEPT ![c] = request[c]] /\ request[c] \in Requests
    BY CommandTypes
<1> QED BY <1>2, <1>3, CommandJInv

\* The record of a command that counts its launches anew, or one more.
Counting(m, s, l) == [m EXCEPT !.pc = s, !.launches = l]

LEMMA LaunchTypes ==
    ASSUME NEW m \in Commands, NEW s \in ClientPc, NEW l \in 0..StartAttempts
    PROVE  /\ Counting(m, s, l) \in Commands /\ Counting(m, s, l).pc = s
           /\ Counting(m, s, l).launches = l /\ Counting(m, s, l).op = m.op
           /\ Counting(m, s, l).shown = m.shown
BY ZenonT(30) DEF Commands, Counting

LEMMA LaunchRange ==
    ASSUME JInv, NEW c \in Job
    PROVE  /\ 0 \in 0..StartAttempts /\ 0 < StartAttempts
           /\ client[c].launches < StartAttempts => client[c].launches + 1 \in 0..StartAttempts
<1>1. client[c].launches \in 0..StartAttempts
    BY CommandTypes DEF Commands
<1> QED BY <1>1, ClientAssumption

LEMMA FailedIs == ASSUME NEW c \in Job PROVE \E k \in {2, 4} : Failed(c) = Done(c, k)
BY DEF Failed

LEMMA LookingJInv ==
    ASSUME IInv, JInv, NEW c \in Job,
           \/ Begin(c) \/ PingAnswered(c) \/ PingFails(c) \/ LaunchFails(c) \/ GiveUp(c)
           \/ Late(c) \/ Refused(c) \/ Interrupt(c) \/ \E p \in Proc : Launch(c, p)
    PROVE  JInv'
<1>0. client[c] \in Commands /\ AttemptLeft(client[c]) /\ client \in [Job -> Commands]
    BY CommandTypes
<1>l. /\ 0 \in 0..StartAttempts /\ 0 < StartAttempts
      /\ client[c].launches < StartAttempts => client[c].launches + 1 \in 0..StartAttempts
    BY LaunchRange
<1>c. c \in Job \ Direct
    BY CommandOfWorker DEF Begin, PingAnswered, PingFails, LaunchFails, GiveUp, Late, Refused,
                           Interrupt, Launch, Pinging
<1>1. CASE Begin(c)
    <2>1. PICK d : d = [client[c] EXCEPT !.pc = "ping"]
        OBVIOUS
    <2>2. /\ d \in Commands /\ AttemptLeft(d) /\ d.pc = "ping" /\ d.op = client[c].op
          /\ d.shown = client[c].shown
        BY <1>0, <1>1, <2>1 DEF Begin, Commands, AttemptLeft, ClientPc
    <2>3. client' = [client EXCEPT ![c] = d]
        BY <1>0, <1>1, <2>1 DEF Begin
    <2> QED BY <1>1, <1>c, <2>2, <2>3, GoesJInv DEF Begin, OnlyClient
<1>2. CASE PingAnswered(c)
    <2>1. PICK d : d = [client[c] EXCEPT !.pc = "request", !.launches = 0]
        OBVIOUS
    <2>2. /\ d \in Commands /\ AttemptLeft(d) /\ d.pc = "request" /\ d.op = client[c].op
          /\ d.shown = client[c].shown
        <3>1. "request" \in ClientPc /\ d = Counting(client[c], "request", 0)
            BY <2>1 DEF ClientPc, Counting
        <3>2. d \in Commands /\ d.pc = "request" /\ d.launches = 0 /\ d.op = client[c].op
              /\ d.shown = client[c].shown
            BY <1>0, <1>l, <2>1, <3>1, LaunchTypes
        <3> QED BY <1>l, <3>2 DEF AttemptLeft
    <2>3. client' = [client EXCEPT ![c] = d]
        BY <1>0, <1>2, <2>1 DEF PingAnswered
    <2> QED BY <1>2, <1>c, <2>2, <2>3, GoesJInv, CallOverKeeps DEF PingAnswered, OnlyClient, Pinging
<1>3. CASE PingFails(c)
    <2>1. /\ client[c].pc \in {"ping", "wait"} /\ request' = request /\ proc' = proc
          /\ UNCHANGED <<storeVars, socket, queue, exec>>
        BY <1>3 DEF PingFails, OnlyClient, Pinging
    <2>2. CASE client[c].pc = "ping"
        <3>1. PICK d : d = [client[c] EXCEPT !.pc = "launch"]
            OBVIOUS
        <3>2. /\ d \in Commands /\ AttemptLeft(d) /\ d.pc = "launch" /\ d.op = client[c].op
              /\ d.shown = client[c].shown
            BY <1>0, <2>2, <3>1 DEF Commands, AttemptLeft, ClientPc
        <3>3. client' = [client EXCEPT ![c] = d]
            BY <1>3, <2>2, <3>1 DEF PingFails
        <3> QED BY <1>c, <2>1, <3>2, <3>3, GoesJInv
    <2>3. CASE client[c].pc = "wait" /\ client[c].launches < StartAttempts
        <3>1. PICK d : d = [client[c] EXCEPT !.pc = "ping"]
            OBVIOUS
        <3>2. /\ d \in Commands /\ AttemptLeft(d) /\ d.pc = "ping" /\ d.op = client[c].op
              /\ d.shown = client[c].shown
            BY <1>0, <2>3, <3>1 DEF Commands, AttemptLeft, ClientPc
        <3>3. client' = [client EXCEPT ![c] = d]
            BY <1>3, <2>3, <3>1 DEF PingFails, NextAttempt
        <3> QED BY <1>c, <2>1, <3>2, <3>3, GoesJInv
    <2>4. CASE client[c].pc = "wait" /\ ~(client[c].launches < StartAttempts)
        <3>1. client' = [client EXCEPT ![c] = Failed(c)]
            BY <1>3, <2>4 DEF PingFails, NextAttempt
        <3>2. PICK k \in {2, 4} : Failed(c) = Done(c, k)
            BY FailedIs
        <3> QED BY <2>1, <3>1, <3>2, FailedJInv
    <2> QED BY <2>1, <2>2, <2>3, <2>4
<1>4. CASE \E p \in Proc : Launch(c, p)
    <2>0. PICK p \in Proc : Launch(c, p)
        BY <1>4
    <2>1. PICK d : d = Launched(c, "wait")
        OBVIOUS
    <2>2. client[c].pc = "launch" /\ client[c].launches < StartAttempts
        BY <1>0, <2>0 DEF Launch, AttemptLeft
    <2>3. /\ d \in Commands /\ AttemptLeft(d) /\ d.pc = "wait" /\ d.op = client[c].op
          /\ d.shown = client[c].shown
        <3>1. "wait" \in ClientPc
            BY DEF ClientPc
        <3>2. d = Counting(client[c], "wait", client[c].launches + 1)
            BY <2>1 DEF Launched, Counting
        <3>3. d \in Commands /\ d.pc = "wait" /\ d.op = client[c].op /\ d.shown = client[c].shown
            BY <1>0, <1>l, <2>2, <3>1, <3>2, LaunchTypes
        <3> QED BY <3>3 DEF AttemptLeft
    <2>4. \A k \in Proc : proc[k].pc \in Holding => proc'[k].pc = proc[k].pc
        BY <2>0 DEF Launch, IInv, Shapes, ProcShape, Holding
    <2> QED BY <1>c, <2>0, <2>1, <2>2, <2>3, <2>4, GoesJInv DEF Launch, OnlyClient
<1>5. CASE LaunchFails(c)
    <2>1. /\ client[c].pc = "launch" /\ request' = request /\ proc' = proc
          /\ UNCHANGED <<storeVars, socket, queue, exec>>
        BY <1>5 DEF LaunchFails, OnlyClient
    <2>2. CASE client[c].launches + 1 < StartAttempts
        <3>1. PICK d : d = Launched(c, "ping")
            OBVIOUS
        <3>2. /\ d \in Commands /\ AttemptLeft(d) /\ d.pc = "ping" /\ d.op = client[c].op
              /\ d.shown = client[c].shown
            <4>1. "ping" \in ClientPc
                BY DEF ClientPc
            <4>2. d = Counting(client[c], "ping", client[c].launches + 1)
                BY <3>1 DEF Launched, Counting
            <4>3. client[c].launches < StartAttempts
                BY <1>0, <2>1 DEF AttemptLeft
            <4>4. /\ d \in Commands /\ d.pc = "ping" /\ d.op = client[c].op
                  /\ d.shown = client[c].shown /\ d.launches = client[c].launches + 1
                BY <1>0, <1>l, <4>1, <4>2, <4>3, LaunchTypes
            <4> QED BY <2>2, <4>4 DEF AttemptLeft
        <3>3. client' = [client EXCEPT ![c] = d]
            BY <1>5, <2>2, <3>1 DEF LaunchFails
        <3> QED BY <1>c, <2>1, <3>2, <3>3, GoesJInv
    <2>3. CASE ~(client[c].launches + 1 < StartAttempts)
        <3>1. client' = [client EXCEPT ![c] = Failed(c)]
            BY <1>5, <2>3 DEF LaunchFails
        <3>2. PICK k \in {2, 4} : Failed(c) = Done(c, k)
            BY FailedIs
        <3> QED BY <2>1, <3>1, <3>2, FailedJInv
    <2> QED BY <2>2, <2>3
<1>6. CASE GiveUp(c) \/ Late(c) \/ Refused(c)
    <2>1. /\ client[c].pc \notin {"new", "direct", "done"} /\ request' = request
          /\ UNCHANGED <<storeVars, socket, queue, exec>> /\ (CallOver(c) \/ proc' = proc)
          /\ client' = [client EXCEPT ![c] = Failed(c)]
        BY <1>6 DEF GiveUp, Late, Refused, OnlyClient, Pinging
    <2>2. PICK k \in {2, 4} : Failed(c) = Done(c, k)
        BY FailedIs
    <2> QED BY <2>1, <2>2, FailedJInv
<1>7. CASE Interrupt(c)
    <2>1. /\ client[c].pc \notin {"new", "direct", "done"} /\ request' = request
          /\ UNCHANGED <<storeVars, socket, queue, exec>> /\ CallOver(c)
        BY <1>7 DEF Interrupt, OnlyClient, Pinging
    <2>2. CASE client[c].known
        <3>1. PICK d : d = [client[c] EXCEPT !.pc = "ping", !.op = "cancel", !.launches = 0]
            OBVIOUS
        <3>2. /\ d \in Commands /\ AttemptLeft(d) /\ d.pc = "ping" /\ d.op = "cancel"
              /\ d.shown = client[c].shown
            <4>1. PICK m : m = [client[c] EXCEPT !.op = "cancel"]
                OBVIOUS
            <4>2. m \in Commands /\ m.op = "cancel" /\ m.shown = client[c].shown
                BY <1>0, <4>1 DEF Commands
            <4>3. d = Counting(m, "ping", 0) /\ "ping" \in ClientPc
                BY <1>0, <3>1, <4>1 DEF Commands, ClientPc, Counting
            <4>4. d \in Commands /\ d.pc = "ping" /\ d.launches = 0 /\ d.op = m.op /\ d.shown = m.shown
                BY <1>l, <4>2, <4>3, LaunchTypes
            <4> QED BY <1>l, <4>2, <4>4 DEF AttemptLeft
        <3>3. client' = [client EXCEPT ![c] = d]
            BY <1>7, <2>2, <3>1 DEF Interrupt
        <3> QED BY <1>c, <2>1, <3>2, <3>3, GoesJInv, CallOverKeeps
    <2>3. CASE ~client[c].known
        <3>1. client' = [client EXCEPT ![c] = Done(c, 4)]
            BY <1>7, <2>3 DEF Interrupt
        <3> QED BY <2>1, <3>1, FailedJInv
    <2> QED BY <2>2, <2>3
<1> QED BY <1>1, <1>2, <1>3, <1>4, <1>5, <1>6, <1>7

LEMMA SendJInv == ASSUME IInv, JInv, NEW c \in Job, Send(c) PROVE JInv'
<1>0. client[c] \in Commands /\ AttemptLeft(client[c]) /\ client \in [Job -> Commands]
      /\ socket \in Proc \cup {NoProc}
    BY CommandTypes DEF JInv, Types
<1>1. /\ client[c].pc = "request" /\ proc' = proc /\ UNCHANGED <<storeVars, socket, queue, exec>>
    BY DEF Send, OnlyClient
<1>2. /\ c \in Job \ Direct
      /\ Remotely(client[c], request[c], jobs[c], events[c], artifacts[c]["json"])
    BY <1>1, CommandOfWorker
<1>3. CASE ~Listening
    <2>1. client' = [client EXCEPT ![c] = Failed(c)] /\ request' = request
        BY <1>3 DEF Send
    <2>2. PICK k \in {2, 4} : Failed(c) = Done(c, k)
        BY FailedIs
    <2> QED BY <1>1, <2>1, <2>2, FailedJInv
<1>4. CASE Listening
    <2>1. PICK d : d = [client[c] EXCEPT !.pc = "answer"]
        OBVIOUS
    <2>2. /\ d \in Commands /\ AttemptLeft(d) /\ d.pc = "answer" /\ d.op = client[c].op
          /\ d.shown = client[c].shown
        BY <1>0, <1>1, <2>1 DEF Commands, AttemptLeft, ClientPc
    <2>3. PICK q : q = [NoRequest EXCEPT !.op = client[c].op, !.to = socket, !.state = "sent"]
        OBVIOUS
    <2>4. q \in Requests /\ q.op = client[c].op /\ q.state = "sent"
        <3>1. Absent \in Row
            BY DEF Absent, Row, Result
        <3>2. PICK z : z = NoRequest
            OBVIOUS
        <3>3. z \in Requests
            BY <3>1, <3>2 DEF NoRequest, Requests, RequestState
        <3>4. client[c].op \in {"submit", "status", "cancel"} /\ "sent" \in RequestState
            BY <1>0 DEF Commands, RequestState
        <3>5. q = [z EXCEPT !.op = client[c].op, !.to = socket, !.state = "sent"]
            BY <2>3, <3>2
        <3> QED BY <1>0, <3>3, <3>4, <3>5 DEF Requests
    <2>5. client' = [client EXCEPT ![c] = d] /\ request' = [request EXCEPT ![c] = q]
        BY <1>0, <1>4, <2>1, <2>3 DEF Send
    <2>6. Remotely(d, q, jobs[c], events[c], artifacts[c]["json"])
        BY <1>1, <1>2, <2>2, <2>4 DEF Remotely, Fresh, Seen, Answer, Exits
    <2> QED BY <1>1, <1>2, <2>2, <2>4, <2>5, <2>6, CommandJInv
<1> QED BY <1>3, <1>4

LEMMA AnsweredJInv == ASSUME IInv, JInv, NEW c \in Job, Answered(c) PROVE JInv'
<1>0. /\ client[c] \in Commands /\ AttemptLeft(client[c]) /\ client \in [Job -> Commands]
      /\ request[c] \in Requests /\ events[c] \in Seq(Stage)
    BY CommandTypes
<1>1. /\ client[c].pc = "answer" /\ request[c].state = "answered" /\ proc' = proc
      /\ UNCHANGED <<storeVars, socket, queue, exec>>
    BY DEF Answered, OnlyClient
<1>2. /\ c \in Job \ Direct
      /\ Remotely(client[c], request[c], jobs[c], events[c], artifacts[c]["json"])
    BY <1>1, CommandOfWorker
<1>3. PICK q : q = NoRequest
    OBVIOUS
<1>4. q \in Requests /\ q.op = "none" /\ q.state = "none" /\ request' = [request EXCEPT ![c] = q]
    BY <1>3 DEF Answered, NoRequest, Requests, RequestState, Absent, Row, Result
<1>5. \A p \in Proc : proc[p].pc \in Holding => proc'[p].pc = proc[p].pc
    BY <1>1
<1>6. CASE client[c].op = "submit"
    <2>1. PICK d : d = [client[c] EXCEPT !.pc = "ping", !.op = "status", !.known = TRUE]
        OBVIOUS
    <2>2. /\ d \in Commands /\ AttemptLeft(d) /\ d.pc = "ping" /\ d.op = "status"
          /\ d.shown = client[c].shown
        BY <1>0, <1>1, <2>1 DEF Commands, AttemptLeft, ClientPc
    <2>3. client' = [client EXCEPT ![c] = d]
        BY <1>6, <2>1 DEF Answered
    <2>4. Remotely(d, q, jobs[c], events[c], artifacts[c]["json"])
        BY <1>2, <1>4, <2>2 DEF Remotely, Fresh, Seen, Answer, Exits
    <2> QED BY <1>1, <1>2, <1>4, <1>5, <2>2, <2>3, <2>4, CommandJInv
<1>7. CASE client[c].op = "cancel"
    <2>1. PICK d : d = Done(c, 4)
        OBVIOUS
    <2>2. /\ d \in Commands /\ AttemptLeft(d) /\ d.pc = "done" /\ d.exit = 4
          /\ d.shown = client[c].shown
        BY <2>1, DoneTypes
    <2>3. client' = [client EXCEPT ![c] = d]
        BY <1>7, <2>1 DEF Answered
    <2>4. Remotely(d, q, jobs[c], events[c], artifacts[c]["json"])
        BY <1>2, <1>4, <2>2 DEF Remotely, Fresh, Seen, Answer, Exits
    <2> QED BY <1>1, <1>2, <1>4, <1>5, <2>2, <2>3, <2>4, CommandJInv
<1>8. CASE client[c].op = "status"
    <2>1. PICK a : a = AfterPoll(c, request[c].row)
        OBVIOUS
    <2>2. PICK row \in Row : row = request[c].row
        BY <1>0 DEF Requests
    <2>3. /\ a \in Commands /\ AttemptLeft(a) /\ a.shown = client[c].shown /\ a.op = "status"
          /\ \/ a.pc = "done" /\ a.exit \in {2, 4}
             \/ /\ a.pc = "done" /\ a.exit = 3
                /\ row.status = "failed" /\ row.result = "internal_error"
             \/ a.pc = "load" /\ row.status = "complete"
             \/ a.pc = "ping"
        <3>1. CASE row.status = "cancelled"
            BY <1>8, <2>1, <2>2, <3>1, DoneTypes DEF AfterPoll
        <3>2. CASE row.status = "failed" /\ row.result = "internal_error"
            <4>1. a = Done(c, 3)
                BY <2>1, <2>2, <3>2 DEF AfterPoll
            <4> QED BY <1>8, <3>2, <4>1, DoneTypes
        <3>3. CASE row.status = "failed" /\ row.result # "internal_error"
            <4>1. a = Done(c, 2)
                BY <2>1, <2>2, <3>3 DEF AfterPoll
            <4> QED BY <1>8, <3>3, <4>1, DoneTypes
        <3>4. CASE row.status = "complete"
            <4>1. a = [client[c] EXCEPT !.pc = "load"]
                BY <2>1, <2>2, <3>4 DEF AfterPoll
            <4> QED BY <1>0, <1>8, <3>4, <4>1 DEF Commands, AttemptLeft, ClientPc
        <3>5. CASE row.status \notin {"cancelled", "failed", "complete"}
            <4>1. a = [client[c] EXCEPT !.pc = "ping"]
                BY <2>1, <2>2, <3>5 DEF AfterPoll
            <4> QED BY <1>0, <1>1, <1>8, <4>1 DEF Commands, AttemptLeft, ClientPc
        <3> QED BY <3>1, <3>2, <3>3, <3>4, <3>5
    <2>4. PICK s : s = client[c].shown \o request[c].events
        OBVIOUS
    <2>5. /\ s \in Seq(Stage) /\ Extends(s, events[c])
          /\ Reported(client[c].shown) \/ Reported(request[c].events) => Reported(s)
        <3>1. client[c].shown \in Seq(Stage) /\ request[c].events \in Seq(Stage)
            BY <1>0 DEF Commands, Requests
        <3>2. /\ Extends(client[c].shown, events[c])
              /\ \A i \in DOMAIN request[c].events :
                    /\ Len(client[c].shown) + i \in DOMAIN events[c]
                    /\ events[c][Len(client[c].shown) + i] = request[c].events[i]
            BY <1>1, <1>2, <1>8 DEF Remotely, Answer
        <3> QED BY <2>4, <3>1, <3>2, ShowsMore
    <2>6. PICK d : d = [a EXCEPT !.shown = s]
        OBVIOUS
    <2>7. /\ d \in Commands /\ AttemptLeft(d) /\ d.pc = a.pc /\ d.op = a.op /\ d.exit = a.exit
          /\ d.shown = s
        BY <2>3, <2>5, <2>6 DEF Commands, AttemptLeft
    <2>8. client' = [client EXCEPT ![c] = d]
        <3>1. client' = [client EXCEPT ![c] = [AfterPoll(c, request[c].row) EXCEPT
                                                  !.shown = @ \o request[c].events]]
            BY <1>8 DEF Answered
        <3> HIDE DEF AfterPoll
        <3>2. client' = [client EXCEPT ![c] = [a EXCEPT !.shown = a.shown \o request[c].events]]
            BY <2>1, <3>1
        <3> QED BY <2>3, <2>4, <2>6, <3>2
    <2>9. /\ row.status \in Terminal => jobs[c].status = row.status /\ jobs[c].result = row.result
          /\ row.status = "complete" => Reported(s)
        BY <1>1, <1>2, <1>8, <2>2, <2>5 DEF Remotely, Seen, Answer
    <2>10. Remotely(d, q, jobs[c], events[c], artifacts[c]["json"])
        BY <1>2, <1>4, <2>3, <2>5, <2>7, <2>9 DEF Remotely, Fresh, Seen, Answer, Exits, Terminal
    <2> QED BY <1>1, <1>2, <1>4, <1>5, <2>7, <2>8, <2>10, CommandJInv
<1> QED BY <1>0, <1>6, <1>7, <1>8 DEF Commands

LEMMA LoadReportJInv == ASSUME IInv, JInv, NEW c \in Job, LoadReport(c) PROVE JInv'
<1>1. /\ client[c].pc = "load" /\ proc' = proc /\ request' = request
      /\ UNCHANGED <<storeVars, socket, queue, exec>>
    BY DEF LoadReport, OnlyClient
<1>2. /\ c \in Job \ Direct
      /\ Remotely(client[c], request[c], jobs[c], events[c], artifacts[c]["json"])
    BY <1>1, CommandOfWorker
<1>3. PICK k \in {0, 2} : client' = [client EXCEPT ![c] = Done(c, k)]
    BY DEF LoadReport
<1>4. PICK d : d = Done(c, k)
    OBVIOUS
<1>5. /\ d \in Commands /\ AttemptLeft(d) /\ d.pc = "done" /\ d.exit = k
      /\ d.shown = client[c].shown
    BY <1>4, DoneTypes
<1>6. Remotely(d, request[c], jobs[c], events[c], artifacts[c]["json"])
    BY <1>1, <1>2, <1>5 DEF Remotely, Fresh, Answer, Exits
<1>7. request' = [request EXCEPT ![c] = request[c]] /\ request[c] \in Requests
    BY <1>1, CommandTypes
<1> QED BY <1>1, <1>2, <1>3, <1>4, <1>5, <1>6, <1>7, CommandJInv

LEMMA StartDirectJInv == ASSUME IInv, JInv, NEW c \in Direct, StartDirect(c) PROVE JInv'
<1>0. c \in Job /\ Directly(c, client[c], request[c], exec[c], jobs[c]) /\ c \in Executor
    BY ExecutorsApart DEF JInv, CommandsOK, Executor
<1>1. PICK r : r = [Absent EXCEPT !.status = "running", !.attempt = 1]
    OBVIOUS
<1>2. PICK e : e = [Idle EXCEPT !.pc = "write", !.job = c]
    OBVIOUS
<1>3. PICK d : d = [client[c] EXCEPT !.pc = "direct"]
    OBVIOUS
<1>4. /\ client[c].pc = "new" /\ jobs' = [jobs EXCEPT ![c] = r]
      /\ exec' = [exec EXCEPT ![c] = e] /\ client' = [client EXCEPT ![c] = d]
      /\ UNCHANGED <<events, artifacts, socket, proc, queue, request>>
    BY <1>1, <1>2, <1>3, CommandTypes, <1>0 DEF StartDirect
<1>5. r \in Row /\ r.status = "running"
    BY <1>1 DEF Absent, Row, Status, Result
<1>6. e \in Execs /\ e.pc = "write" /\ e.job = c /\ e.result = "null"
    BY <1>0, <1>2 DEF Idle, Execs, ExecPc, Result
<1>7. /\ d \in Commands /\ AttemptLeft(d) /\ d.pc = "direct" /\ d.shown = client[c].shown
    <2>1. client[c] \in Commands
        BY <1>0, CommandTypes
    <2> QED BY <1>3, <2>1 DEF Commands, AttemptLeft, ClientPc
<1>8. Types'
    BY <1>0, <1>4, <1>5, <1>6, <1>7 DEF JInv, Types
<1>9. Directly(c, d, request[c], e, r)
    BY <1>0, <1>5, <1>6, <1>7 DEF Directly, Exits
<1>10. /\ jobs'[c] = r /\ exec'[c] = e /\ client'[c] = d
       /\ \A k \in Job \ {c} : jobs'[k] = jobs[k] /\ client'[k] = client[k]
       /\ \A x \in Executor \ {c} : exec'[x] = exec[x]
    BY <1>0, <1>4 DEF JInv, Types
<1>11. CommandsOK'
    <2>1. ASSUME NEW k \in Direct PROVE Directly(k, client'[k], request'[k], exec'[k], jobs'[k])
        <3>1. CASE k = c
            BY <1>4, <1>9, <1>10, <3>1
        <3>2. CASE k # c
            BY <1>4, <1>10, <3>2, ExecutorsApart DEF JInv, CommandsOK, Executor
        <3> QED BY <3>1, <3>2
    <2>2. ASSUME NEW k \in Job \ Direct
          PROVE  Remotely(client'[k], request'[k], jobs'[k], events'[k], artifacts'[k]["json"])
        BY <1>4, <1>10 DEF JInv, CommandsOK
    <2> QED BY <2>1, <2>2 DEF CommandsOK
<1>12. WorkersOK'
    <2> SUFFICES ASSUME NEW p \in Proc
                 PROVE  /\ Works(exec'[p], proc'[p].pc)
                        /\ exec'[p].pc # "idle" =>
                              Doing(exec'[p], jobs'[exec'[p].job], events'[exec'[p].job],
                                    artifacts'[exec'[p].job]["json"])
        BY DEF WorkersOK
    <2>1. exec'[p] = exec[p]
        BY <1>10, ExecutorsApart DEF Executor
    <2>2. exec[p].pc # "idle" => exec[p].job \in Job \ {c}
        BY OneExecutes
    <2> QED BY <1>4, <1>10, <2>1, <2>2 DEF JInv, WorkersOK
<1> QED BY <1>8, <1>11, <1>12 DEF JInv

LEMMA EndDirectJInv ==
    ASSUME IInv, JInv, NEW c \in Direct, FinishDirect(c) \/ InterruptDirect(c)
    PROVE  JInv'
<1>0. /\ c \in Job /\ Directly(c, client[c], request[c], exec[c], jobs[c]) /\ c \in Executor
      /\ request[c] \in Requests /\ exec[c] \in Execs /\ exec \in [Executor -> Execs]
      /\ request \in [Job -> Requests]
    BY ExecutorsApart DEF JInv, CommandsOK, Executor, Types
<1>1. CASE FinishDirect(c)
    <2>1. PICK k \in {0, 2, 3} : /\ client' = [client EXCEPT ![c] = Done(c, k)]
                                 /\ k = 0 => exec[c].result = "null"
                                 /\ k = 3 => exec[c].result = "internal_error"
        <3> DEFINE k == CASE exec[c].result = "null" -> 0
                          [] exec[c].result = "internal_error" -> 3
                          [] OTHER -> 2
        <3>1. k \in {0, 2, 3} /\ (k = 0 => exec[c].result = "null")
              /\ (k = 3 => exec[c].result = "internal_error")
            OBVIOUS
        <3>2. client' = [client EXCEPT ![c] = Done(c, k)]
            BY <1>1 DEF FinishDirect
        <3> HIDE DEF k
        <3> QED BY <3>1, <3>2
    <2>2. PICK d : d = Done(c, k)
        OBVIOUS
    <2>3. /\ d \in Commands /\ AttemptLeft(d) /\ d.pc = "done" /\ d.exit = k
          /\ d.shown = client[c].shown
        BY <1>0, <2>2, DoneTypes
    <2>4. /\ client[c].pc = "direct" /\ exec[c].pc = "idle" /\ proc' = proc /\ request' = request
          /\ UNCHANGED <<storeVars, socket, queue, exec>>
        BY <1>1 DEF FinishDirect, OnlyClient
    <2>5. Directly(c, d, request[c], exec[c], jobs[c])
        BY <1>0, <2>1, <2>3, <2>4 DEF Directly, Exits
    <2>6. request' = [request EXCEPT ![c] = request[c]]
        BY <1>0, <2>4
    <2> QED BY <1>0, <2>1, <2>2, <2>3, <2>4, <2>5, <2>6, CommandJInv
<1>2. CASE InterruptDirect(c)
    <2>1. PICK d : d = Done(c, 130)
        OBVIOUS
    <2>2. /\ d \in Commands /\ AttemptLeft(d) /\ d.pc = "done" /\ d.exit = 130
          /\ d.shown = client[c].shown
        BY <1>0, <2>1, DoneTypes
    <2>3. /\ client' = [client EXCEPT ![c] = d] /\ exec' = [exec EXCEPT ![c] = Idle]
          /\ UNCHANGED <<storeVars, socket, proc, queue, request>>
        BY <1>2, <2>1 DEF InterruptDirect
    <2>4. Idle \in Execs /\ Idle.pc = "idle"
        BY DEF Idle, Execs, ExecPc, Result
    <2>5. Directly(c, d, request[c], Idle, jobs[c])
        BY <1>0, <2>2, <2>4 DEF Directly, Exits
    <2>6. jobs' = jobs /\ events' = events /\ artifacts' = artifacts
        BY <2>3 DEF storeVars
    <2>7. Types'
        BY <1>0, <2>2, <2>3, <2>4, <2>6 DEF JInv, Types
    <2>8. /\ exec'[c] = Idle /\ client'[c] = d
          /\ \A k \in Job \ {c} : client'[k] = client[k]
          /\ \A x \in Executor \ {c} : exec'[x] = exec[x]
        BY <1>0, <2>3 DEF JInv, Types
    <2>9. CommandsOK'
        <3>1. ASSUME NEW k \in Direct PROVE Directly(k, client'[k], request'[k], exec'[k], jobs'[k])
            <4>1. CASE k = c
                BY <2>3, <2>5, <2>6, <2>8, <4>1
            <4>2. CASE k # c
                BY <2>3, <2>6, <2>8, <4>2, ExecutorsApart DEF JInv, CommandsOK, Executor
            <4> QED BY <4>1, <4>2
        <3>2. ASSUME NEW k \in Job \ Direct
              PROVE  Remotely(client'[k], request'[k], jobs'[k], events'[k], artifacts'[k]["json"])
            BY <2>3, <2>6, <2>8 DEF JInv, CommandsOK
        <3> QED BY <3>1, <3>2 DEF CommandsOK
    <2>10. WorkersOK'
        <3>1. \A p \in Proc : exec'[p] = exec[p]
            BY <2>8, ExecutorsApart DEF Executor
        <3> QED BY <2>3, <2>6, <3>1 DEF JInv, WorkersOK
    <2> QED BY <2>7, <2>9, <2>10 DEF JInv
<1> QED BY <1>1, <1>2

-----------------------------------------------------------------------------
(* The second invariant, and what it says                                   *)

LEMMA ProcessesJInv ==
    ASSUME IInv, JInv, NEW p \in Proc,
           \/ AlreadyRunning(p) \/ Bind(p) \/ Close(p) \/ IdleExit(p) \/ AnswerTooLarge(p)
    PROVE  JInv'
<1>1. UNCHANGED <<storeVars, queue, exec, client, request>>
    BY DEF AlreadyRunning, Bind, Close, IdleExit, AnswerTooLarge, Leave
<1>2. socket' \in Proc \cup {NoProc}
    BY DEF AlreadyRunning, Bind, Close, IdleExit, AnswerTooLarge, Leave, JInv, Types
<1>3. CASE AlreadyRunning(p)
    <2>1. proc[p].pc \notin Holding /\ proc' = [proc EXCEPT ![p] = Down]
        BY <1>3 DEF AlreadyRunning, Holding
    <2> QED BY <1>1, <1>2, <2>1, ProcessJInv
<1>4. ASSUME NEW x \in Holding, proc' = [proc EXCEPT ![p].pc = x]
      PROVE  JInv'
    <2>1. PICK s : s = [proc[p] EXCEPT !.pc = x]
        OBVIOUS
    <2>2. proc[p] \in [pc : ProcPc, by : Job \cup {NoJob}]
        BY DEF IInv, Shapes, ProcShape
    <2>3. s.pc = x
        BY <2>1, <2>2
    <2>4. proc' = [proc EXCEPT ![p] = s]
        BY <1>4, <2>1
    <2> QED BY <1>1, <1>2, <2>3, <2>4, ProcessJInv
<1>5. CASE Bind(p)
    BY <1>4, <1>5 DEF Bind, Holding
<1>6. CASE Close(p)
    BY <1>4, <1>6 DEF Close, Holding
<1>7. CASE IdleExit(p) \/ AnswerTooLarge(p)
    BY <1>4, <1>7 DEF IdleExit, AnswerTooLarge, Leave, Holding
<1> QED BY <1>3, <1>5, <1>6, <1>7

LEMMA NextJInv == IInv /\ JInv /\ [Next]_vars => JInv'
<1> SUFFICES ASSUME IInv, JInv, [Next]_vars PROVE JInv'
    OBVIOUS
<1>1. CASE UNCHANGED vars
    BY <1>1 DEF vars, clientVars, storeVars, JInv, Types, WorkersOK, CommandsOK
<1>2. ASSUME NEW p \in Proc,
             \/ ProcessStep(p) \/ HandlerStep(p) \/ ExecStep(p)
             \/ IdleExit(p) \/ AnswerTooLarge(p) \/ Crash(p)
      PROVE  JInv'
    <2>1. CASE Lock(p)
        BY <2>1, LockJInv
    <2>2. CASE AlreadyRunning(p) \/ Bind(p) \/ Close(p) \/ IdleExit(p) \/ AnswerTooLarge(p)
        BY <2>2, ProcessesJInv
    <2>3. CASE Exit(p) \/ Crash(p)
        <3>1. Gone(p) /\ socket' = socket
            BY <2>3 DEF Exit, Crash
        <3> QED BY <3>1, GoneJInv
    <2>4. CASE HandlerStep(p)
        BY <2>4, HandleSubmitJInv, HandleCancelJInv, StatusRowJInv, StatusEventsJInv
           DEF HandlerStep
    <2>5. CASE ExecStep(p)
        <3>1. CASE EngineCancelled(p)
            <4>1. p \in Executor
                BY DEF Executor
            <4> QED BY <3>1, <4>1, TurnsJInv
        <3> QED BY <2>5, <3>1, ClaimJInv, WorkerEngineJInv DEF ExecStep
    <2> QED BY <1>2, <2>1, <2>2, <2>3, <2>4, <2>5 DEF ProcessStep
<1>3. ASSUME NEW c \in Job,
             \/ Begin(c) \/ CommandStep(c) \/ LaunchFails(c) \/ GiveUp(c) \/ Late(c) \/ Interrupt(c)
      PROVE  JInv'
    <2>1. CASE Send(c)
        BY <2>1, SendJInv
    <2>2. CASE Answered(c)
        BY <2>2, AnsweredJInv
    <2>3. CASE LoadReport(c)
        BY <2>3, LoadReportJInv
    <2> QED BY <1>3, <2>1, <2>2, <2>3, LookingJInv DEF CommandStep
<1>4. ASSUME NEW c \in Direct, StartDirect(c) \/ DirectStep(c) \/ InterruptDirect(c)
      PROVE  JInv'
    BY <1>4, StartDirectJInv, DirectEngineJInv, EndDirectJInv DEF DirectStep
<1>5. ASSUME NEW x \in Executor, NEW result \in {"analysis_incomplete", "internal_error"},
             EngineRaises(x, result)
      PROVE  JInv'
    BY <1>5, TurnsJInv
<1> QED BY <1>1, <1>2, <1>3, <1>4, <1>5 DEF Next

\* The rows, the events, the requests and the commands agree with each other
\* at every moment (store.py:320, worker.py:368, cli.py:593).
THEOREM CommandsInvariant == Spec => []JInv
<1>1. Init => JInv
    BY InitJInv
<1>2. IInv /\ JInv /\ [Next]_vars => JInv'
    BY NextJInv
<1> QED BY <1>1, <1>2, MeetingInvariant, PTL DEF Spec

\* What a command shows of its job are the events of the feed, in order and
\* each once, and a command that ends well has shown, and finds, the report of
\* the attempt its row counts, whatever restarts between its polls (cli.py:593,
\* worker.py:368).
THEOREM CommandsShowRight == Spec => []CommandOK
<1>1. IInv /\ JInv => CommandOK
    <2> SUFFICES ASSUME IInv, JInv PROVE CommandOK
        OBVIOUS
    <2>1. TypeOK
        <3>1. \A c \in Job : request[c].state \in RequestState /\ request[c].row \in Row
            BY DEF JInv, Types, Requests
        <3> QED BY <3>1 DEF IInv, Shapes, ProcShape, JInv, Types, Commands, Execs, TypeOK
    <2>2. ShownInOrder
        <3> SUFFICES ASSUME NEW c \in Job, NEW i \in DOMAIN client[c].shown
                     PROVE  i \in DOMAIN events[c] /\ client[c].shown[i] = events[c][i]
            BY DEF ShownInOrder
        <3>1. CASE c \in Direct
            BY <3>1 DEF JInv, CommandsOK, Directly
        <3>2. CASE c \in Job \ Direct
            BY <3>2 DEF JInv, CommandsOK, Remotely, Extends
        <3> QED BY <3>1, <3>2
    <2>3. CompleteIsShown
        <3> SUFFICES ASSUME NEW c \in Job \ Direct,
                            client[c].pc = "load" \/ (client[c].pc = "done" /\ client[c].exit = 0)
                     PROVE  Reported(client[c].shown) /\ artifacts[c]["json"] = jobs[c].attempt
            BY DEF CompleteIsShown, Reported
        <3> QED BY DEF JInv, CommandsOK, Remotely
    <2> QED BY <2>1, <2>2, <2>3 DEF CommandOK
<1> QED BY <1>1, MeetingInvariant, CommandsInvariant, PTL

\* An exit code that speaks of the row agrees with it, though a worker that
\* starts may have failed the row of a direct command (store.py:309, cli.py:593).
THEOREM ExitsMatch == Spec => []ExitMatchesRow
<1>1. JInv => ExitMatchesRow
    <2> SUFFICES ASSUME JInv, NEW c \in Job, client[c].pc = "done", client[c].exit \in {0, 3}
                 PROVE  /\ client[c].exit = 0 => jobs[c].status = "complete"
                        /\ client[c].exit = 3 => jobs[c].status = "failed"
                                                 /\ jobs[c].result = "internal_error"
        BY DEF ExitMatchesRow
    <2>1. CASE c \in Direct
        BY <2>1 DEF JInv, CommandsOK, Directly, Exits
    <2>2. CASE c \in Job \ Direct
        BY <2>2 DEF JInv, CommandsOK, Remotely, Exits
    <2> QED BY <2>1, <2>2
<1> QED BY <1>1, CommandsInvariant, PTL
=============================================================================
