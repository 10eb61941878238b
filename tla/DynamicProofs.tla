---------------------------- MODULE DynamicProofs ----------------------------
(***************************************************************************)
(* What runs in a container was approved, what stays behind is what the    *)
(* code does not ask about, nobody ends a container of another name, and   *)
(* the model is called as often as the plan says, for any processes,       *)
(* skills, requests, plans and faults.                                     *)
(***************************************************************************)
EXTENDS DynamicProperties, SequenceTheorems, TLAPS

-----------------------------------------------------------------------------
(* The inductive invariant                                                  *)

Locals ==
    [pc : Pc, options : Request \cup {None}, token : Plan \cup {None}, substitute : BOOLEAN,
     skill : Content \cup {None}, config : Content \cup {None}, cancel : BOOLEAN,
     at : Place, verdict : Verdict, leak : Leak, uses : Nat, passed : Nat, treated : Nat,
     whole : Nat, unsure : BOOLEAN, outcome : Outcome, state : ResultState \cup {"none"}]

Tests == {"next", "running", "waited", "removed", "checked", "traces"}

\* A check that was asked for has its options, one that was captured its files.
Captured(j) ==
    /\ j.pc # "idle" => j.options \in Request
    /\ j.pc \notin {"idle", "queued"} => j.skill \in Content /\ j.config \in Content

\* Trials are run under the token of a plan that was reported, and the plan of
\* what was captured is that plan.
Approves(j, reported) == j.pc \in Tests => j.token = ModelPlan(j) /\ j.token \in reported

Of(c, p) == c.id.proc = p /\ c.id.number = jobs[p]

\* A container of the running check of p is the one p waits for or is about to
\* remove; or the engine refused to, and the answer about it is on its way; or
\* it came late; unless a cleanup got no answer.
Traced(j, c) ==
    \/ j.pc = "idle" \/ j.unsure \/ c.left = "late"
    \/ j.pc \in {"running", "waited"} /\ c.id.at = j.at
    \/ c.left = "refused" /\ \/ Unread(c.id.at)
                             \/ j.pc = "removed" /\ c.id.at = j.at
                             \/ j.pc = "checked" /\ c.id.at = j.at /\ j.leak = "leak"
                             \/ j.pc = "merge" /\ j.outcome = "containment"

\* What the engine has, or was asked for, was approved, and bears the name of
\* its execution.
Bears(p, j, c) == j.pc # "idle" => c.name = ContainerName(p, j.options, c.id.at)
Known(c) ==
    /\ c.id.proc \in Proc /\ c.id.number \in Nat /\ c.id.number <= jobs[c.id.proc]
    /\ c.ran \in plans /\ c.ran = c.approved /\ c.left \in {"no", "late", "refused"}
    /\ \A p \in Proc : Of(c, p) => Bears(p, job[p], c)

ContainersOK ==
    /\ \A c \in requests \cup containers : Known(c)
    /\ \A c \in containers : \A p \in Proc : Of(c, p) => Traced(job[p], c)

Bounds ==
    /\ live \in [skill : Content, config : Content]
    /\ plans \subseteq Plan /\ setting \in Settings
    /\ jobs \in [Proc -> 0 .. setting.jobs]
    /\ edits \in 0 .. setting.edits /\ faults \in 0 .. setting.faults

JobsOK ==
    /\ job \in [Proc -> Locals]
    /\ \A p \in Proc : Captured(job[p]) /\ Approves(job[p], plans)

IInv == Bounds /\ JobsOK /\ ContainersOK

\* What the requests and the bounds of a setting are.
LEMMA SettingTypes ==
    ASSUME Bounds
    PROVE  /\ setting.asks \in [Proc -> SUBSET Request]
           /\ setting.seen \subseteq Plan
           /\ setting.jobs \in Nat /\ setting.edits \in Nat /\ setting.faults \in Nat
           /\ jobs \in [Proc -> Nat] /\ faults \in Nat /\ edits \in Nat
BY RequestAssumption, DynamicAssumption DEF Bounds

\* Nothing runs at the start.
LEMMA InitIInv == Init => IInv
<1> SUFFICES ASSUME Init PROVE IInv
    OBVIOUS
<1>1. Bounds
    <2>1. setting \in Settings /\ setting.jobs \in Nat /\ setting.edits \in Nat
          /\ setting.faults \in Nat
          /\ setting.seen \subseteq Plan
        BY RequestAssumption DEF Init
    <2>2. (CHOOSE c \in Content : TRUE) \in Content
        BY DynamicAssumption
    <2> QED BY <2>1, <2>2, DynamicAssumption DEF Init, Bounds
<1>2. Idle \in Locals
    BY DEF Idle, Locals, Pc, Verdict, Leak, Outcome, Probe, Place
<1>3. JobsOK
    BY <1>2 DEF Init, JobsOK, Captured, Approves, Tests, Idle
<1>4. ContainersOK
    BY DEF Init, ContainersOK
<1> QED BY <1>1, <1>3, <1>4 DEF IInv

-----------------------------------------------------------------------------
(* Steps of one process that add no container                               *)

\* A container that was there before, perhaps refused since.
Like(c, d) ==
    /\ c.id = d.id /\ c.name = d.name /\ c.ran = d.ran /\ c.approved = d.approved
    /\ c.left \in {"no", "late", "refused"} /\ (d.left # "no" => c.left = d.left)

\* The job of p becomes l, which is as good as the one before, and every
\* container of its check that is left is still accounted for.
LEMMA KeepsLike ==
    ASSUME IInv, NEW p \in Proc, NEW l \in Locals,
           job' = [job EXCEPT ![p] = l],
           Captured(l), Approves(l, plans'),
           l.pc # "idle" => job[p].pc # "idle" /\ l.options = job[p].options,
           plans \subseteq plans', plans' \subseteq Plan,
           requests' \subseteq requests,
           \A c \in containers' : \E d \in containers : Like(c, d),
           \A c \in containers' : Of(c, p) => Traced(l, c),
           faults' \in 0 .. setting.faults,
           UNCHANGED <<setting, live, edits, jobs>>
    PROVE  IInv'
<1>1. Bounds'
    BY DEF IInv, Bounds
<1>2. JobsOK'
    <2>1. job' \in [Proc -> Locals]
        BY DEF IInv, JobsOK
    <2>2. ASSUME NEW q \in Proc PROVE Captured(job'[q]) /\ Approves(job'[q], plans')
        <3>1. CASE q = p
            BY <3>1 DEF IInv, JobsOK
        <3>2. CASE q # p
            BY <3>2 DEF IInv, JobsOK, Approves
        <3> QED BY <3>1, <3>2
    <2> QED BY <2>1, <2>2 DEF JobsOK
<1>3. \A c \in requests' \cup containers' : \E d \in requests \cup containers : Like(c, d)
    <2>1. \A c \in requests : Like(c, c)
        BY DEF IInv, ContainersOK, Known, Like
    <2> QED BY <2>1
<1>4. ASSUME NEW c \in requests' \cup containers' PROVE Known(c)'
    <2>1. PICK d \in requests \cup containers : Like(c, d)
        BY <1>3
    <2>2. Known(d)
        BY DEF IInv, ContainersOK
    <2>3. ASSUME NEW q \in Proc, Of(c, q)' PROVE Bears(q, job'[q], c)
        <3>1. Of(d, q) /\ Bears(q, job[q], d)
            BY <2>1, <2>2, <2>3 DEF Of, Like, Known
        <3>2. CASE q = p
            BY <3>1, <3>2, <2>1 DEF IInv, JobsOK, Bears, Like
        <3>3. CASE q # p
            BY <3>1, <3>3, <2>1 DEF IInv, JobsOK, Bears, Like
        <3> QED BY <3>2, <3>3
    <2> QED BY <2>1, <2>2, <2>3 DEF Known, Like
<1>5. ASSUME NEW c \in containers', NEW q \in Proc, Of(c, q)' PROVE Traced(job'[q], c)
    <2>1. PICK d \in containers : Like(c, d)
        OBVIOUS
    <2>2. Of(c, q) /\ Of(d, q)
        BY <1>5, <2>1 DEF Of, Like
    <2>3. CASE q = p
        BY <2>2, <2>3 DEF IInv, JobsOK
    <2>4. CASE q # p
        <3>1. job'[q] = job[q] /\ Traced(job[q], d)
            BY <2>2, <2>4 DEF IInv, JobsOK, ContainersOK
        <3> QED BY <2>1, <3>1 DEF Traced, Like
    <2> QED BY <2>3, <2>4
<1> QED BY <1>1, <1>2, <1>4, <1>5 DEF IInv, ContainersOK

LEMMA Keeps ==
    ASSUME IInv, NEW p \in Proc, NEW l \in Locals,
           job' = [job EXCEPT ![p] = l],
           Captured(l), Approves(l, plans'),
           l.pc # "idle" => job[p].pc # "idle" /\ l.options = job[p].options,
           plans \subseteq plans', plans' \subseteq Plan,
           requests' \subseteq requests, containers' \subseteq containers,
           \A c \in containers' : Of(c, p) => Traced(l, c),
           faults' \in 0 .. setting.faults,
           UNCHANGED <<setting, live, edits, jobs>>
    PROVE  IInv'
<1>1. \A c \in containers' : \E d \in containers : Like(c, d)
    BY DEF IInv, ContainersOK, Known, Like
<1> QED BY <1>1, KeepsLike

\* The job of a process, and what is known of it.
LEMMA Own ==
    ASSUME IInv, NEW p \in Proc
    PROVE  /\ job[p] \in Locals /\ job \in [Proc -> Locals]
           /\ Captured(job[p]) /\ Approves(job[p], plans)
           /\ \A c \in containers : Of(c, p) => Traced(job[p], c)
           /\ plans \subseteq Plan /\ faults \in 0 .. setting.faults
           /\ live \in [skill : Content, config : Content]
BY DEF IInv, Bounds, JobsOK, ContainersOK

\* A fault stays within its bound.
LEMMA OneMoreFault == ASSUME IInv, Spend(faults) PROVE faults' \in 0 .. setting.faults
BY SettingTypes DEF IInv, Bounds, Spend

\* The place after one is a place.
LEMMA FollowingPlace ==
    ASSUME NEW o \in Request, NEW at \in Place PROVE Following(o, at) \in Place
<1>1. [at EXCEPT !.setup = FALSE] \in Place
    BY DEF Place
<1>2. \A c, r \in Nat : Trial(o, c, r) \in Place
    BY DEF Trial, Request, Place
<1>3. at.case \in Nat /\ at.rep \in Nat
    BY DEF Place
<1>4. Trial(o, at.case, at.rep + 1) \in Place /\ Trial(o, at.case + 1, 1) \in Place
    BY <1>2, <1>3
<1> QED BY <1>1, <1>4 DEF Following

\* A check that ends, or that is merged with the analysis after an answered
\* cleanup, keeps the invariant.
LEMMA Raises ==
    ASSUME IInv, NEW p \in Proc, NEW state \in ResultState, Raised(p, state),
           faults' \in 0 .. setting.faults,
           UNCHANGED <<setting, live, requests, containers, plans, edits, jobs>>
    PROVE  IInv'
<1> DEFINE l == [job[p] EXCEPT !.pc = "idle", !.state = state]
<1>1. l \in Locals /\ l.pc = "idle"
    <2> DEFINE m == [job[p] EXCEPT !.pc = "idle"]
    <2>1. m \in Locals /\ m.pc = "idle"
        BY Own DEF Locals, Pc
    <2>2. l = [m EXCEPT !.state = state]
        OBVIOUS
    <2> HIDE DEF m, l
    <2> QED BY <2>1, <2>2 DEF Locals
<1>2. Captured(l) /\ Approves(l, plans') /\ \A c \in containers' : Of(c, p) => Traced(l, c)
    BY <1>1 DEF Captured, Approves, Traced, Tests
<1>3. job' = [job EXCEPT ![p] = l]
    BY DEF Raised, Set
<1> HIDE DEF l
<1>4. plans \subseteq plans' /\ plans' \subseteq Plan /\ containers' \subseteq containers
    BY Own
<1> QED BY <1>1, <1>2, <1>3, <1>4, Keeps

LEMMA EndsWith ==
    ASSUME IInv, NEW p \in Proc, NEW outcome \in Outcome, Ends(p, outcome),
           job[p].pc \in {"captured", "next", "checked", "traces"},
           job[p].pc = "checked" => Unread(job[p].at) \/ outcome = "containment",
           plans \subseteq plans', plans' \subseteq Plan,
           faults' \in 0 .. setting.faults,
           UNCHANGED <<setting, live, requests, containers, edits, jobs>>
    PROVE  IInv'
<1> DEFINE l == [job[p] EXCEPT !.pc = "merge", !.outcome = outcome]
<1>1. l \in Locals /\ l.pc = "merge" /\ l.options = job[p].options
      /\ l.skill = job[p].skill /\ l.config = job[p].config /\ l.unsure = job[p].unsure
      /\ l.outcome = outcome
    <2> DEFINE m == [job[p] EXCEPT !.pc = "merge"]
    <2>1. /\ m \in Locals /\ m.pc = "merge" /\ m.options = job[p].options
          /\ m.skill = job[p].skill /\ m.config = job[p].config /\ m.unsure = job[p].unsure
        BY Own DEF Locals, Pc
    <2>2. l = [m EXCEPT !.outcome = outcome]
        OBVIOUS
    <2> HIDE DEF m, l
    <2> QED BY <2>1, <2>2 DEF Locals
<1>2. Captured(l)
    BY <1>1, Own DEF Captured
<1>3. Approves(l, plans')
    BY <1>1 DEF Approves, Tests
<1>4. \A c \in containers' : Of(c, p) => Traced(l, c)
    BY <1>1, Own DEF Traced
<1>5. job' = [job EXCEPT ![p] = l]
    BY DEF Ends, Set
<1> HIDE DEF l
<1> QED BY <1>1, <1>2, <1>3, <1>4, <1>5, Keeps

\* The plan of a captured check is a plan, and is reported.
LEMMA PlanReported ==
    ASSUME IInv, NEW p \in Proc, Plans(p)
    PROVE  /\ plans' = plans \cup {ModelPlan(job[p])} /\ plans' \subseteq Plan
           /\ job[p].options \in Request
           /\ UNCHANGED <<setting, live, requests, containers, edits, jobs>>
BY Own DEF Plans, ModelPlan, Plan, Captured

-----------------------------------------------------------------------------
(* The actions                                                              *)

LEMMA SubmitIInv == ASSUME IInv, NEW p \in Proc, Submit(p) PROVE IInv'
<1>1. PICK o \in setting.asks[p], t \in plans \cup {None}, s \in BOOLEAN :
        /\ job[p].pc = "idle" /\ jobs[p] < setting.jobs
        /\ job' = [job EXCEPT ![p] =
             [Idle EXCEPT !.pc = "queued", !.options = o, !.token = t, !.substitute = s]]
        /\ jobs' = [jobs EXCEPT ![p] = @ + 1]
        /\ UNCHANGED <<setting, live, requests, containers, plans, faults, edits>>
    BY ZenonT(60) DEF Submit, Set
<1> DEFINE l == [Idle EXCEPT !.pc = "queued", !.options = o, !.token = t, !.substitute = s]
<1>2. o \in Request /\ t \in Plan \cup {None}
    BY SettingTypes, Own DEF IInv
<1>3. l \in Locals /\ l.pc = "queued" /\ l.options = o
    BY <1>2 DEF Idle, Locals, Pc, Verdict, Leak, Outcome, Probe, Place
<1>4. job' = [job EXCEPT ![p] = l]
    BY <1>1
<1> HIDE DEF l
<1>5. Bounds'
    BY <1>1, SettingTypes DEF IInv, Bounds
<1>6. JobsOK'
    <2>1. job' \in [Proc -> Locals]
        BY <1>3, <1>4, Own
    <2>2. ASSUME NEW q \in Proc PROVE Captured(job'[q]) /\ Approves(job'[q], plans')
        <3>1. CASE q = p
            BY <3>1, <1>2, <1>3, <1>4, Own DEF Captured, Approves, Tests
        <3>2. CASE q # p
            BY <3>2, <1>1, <1>4 DEF IInv, JobsOK
        <3> QED BY <3>1, <3>2
    <2> QED BY <2>1, <2>2 DEF JobsOK
<1>7. ContainersOK'
    <2>1. jobs \in [Proc -> Nat] /\ jobs'[p] = jobs[p] + 1
          /\ \A q \in Proc : q # p => jobs'[q] = jobs[q] /\ job'[q] = job[q]
        BY <1>1, <1>4, SettingTypes, Own DEF IInv
    <2>2. ASSUME NEW c \in requests \cup containers
          PROVE  /\ Known(c)'
                 /\ \A q \in Proc : Of(c, q)' => Of(c, q) /\ job'[q] = job[q]
        <3>1. Known(c)
            BY DEF IInv, ContainersOK
        <3>2. c.id.number <= jobs'[c.id.proc]
            BY <2>1, <3>1 DEF Known
        <3>3. ASSUME NEW q \in Proc, Of(c, q)' PROVE Of(c, q) /\ job'[q] = job[q]
            <4>1. q # p
                BY <2>1, <3>1, <3>3 DEF Of, Known
            <4> QED BY <2>1, <3>3, <4>1 DEF Of
        <3> QED BY <1>1, <3>1, <3>2, <3>3 DEF Known
    <2> QED BY <1>1, <2>2 DEF IInv, ContainersOK
<1> QED BY <1>5, <1>6, <1>7 DEF IInv

LEMMA CaptureIInv == ASSUME IInv, NEW p \in Proc, Capture(p) PROVE IInv'
<1> DEFINE j == job[p]
           l == IF j.cancel THEN [j EXCEPT !.pc = "idle", !.state = "cancelled"]
                ELSE [j EXCEPT !.pc = "captured", !.skill = live.skill, !.config = live.config]
<1>1. j \in Locals /\ Captured(j) /\ live.skill \in Content /\ live.config \in Content
      /\ plans \subseteq Plan /\ faults \in 0 .. setting.faults
    BY Own
<1>2. l \in Locals /\ l.pc \in {"idle", "captured"} /\ Captured(l) /\ l.options = j.options
    <2>1. CASE j.cancel
        BY <1>1, <2>1, ZenonT(60) DEF Capture, Captured, Locals, Pc, ResultState
    <2>2. CASE ~j.cancel
        BY <1>1, <2>2 DEF Capture, Captured, Locals, Pc
    <2> QED BY <2>1, <2>2
<1>3. Approves(l, plans')
    BY <1>2 DEF Approves, Tests
<1>4. \A c \in containers' : Of(c, p) => Traced(l, c)
    <2>1. j.pc = "queued" /\ containers' = containers
        BY DEF Capture
    <2>2. l.unsure = j.unsure
        BY <1>1 DEF Locals
    <2> QED BY <2>1, <2>2, Own DEF Traced
<1>5. job' = [job EXCEPT ![p] = l] /\ j.pc = "queued" /\ UNCHANGED <<setting, live, requests, containers, plans, faults, edits, jobs>>
    BY DEF Capture, Set
<1>6. job[p].pc # "idle" /\ l.options = job[p].options
    BY <1>2, <1>5
<1> HIDE DEF l, j
<1> QED BY <1>1, <1>2, <1>3, <1>4, <1>5, <1>6, Keeps

LEMMA StaleIInv == ASSUME IInv, NEW p \in Proc, StaleOrCancelled(p) PROVE IInv'
<1>1. Raised(p, "analysis_incomplete") \/ Raised(p, "cancelled")
    BY DEF StaleOrCancelled
<1>2. faults' \in 0 .. setting.faults /\ UNCHANGED <<setting, live, requests, containers, plans, edits, jobs>>
    BY Own DEF StaleOrCancelled
<1>3. {"analysis_incomplete", "cancelled"} \subseteq ResultState
    BY DEF ResultState
<1> QED BY <1>1, <1>2, <1>3, Raises

LEMMA NotRunIInv ==
    ASSUME IInv, NEW p \in Proc, Skip(p) \/ NotReady(p) \/ NoContext(p) PROVE IInv'
<1>1. Plans(p) /\ job[p].pc = "captured"
    BY DEF Skip, NotReady, NoContext, Plans
<1>2. faults' \in 0 .. setting.faults
    BY OneMoreFault, Own DEF Skip, NotReady, NoContext
<1>3. Ends(p, "skipped") \/ Ends(p, "unsupported") \/ Ends(p, "failed")
    BY DEF Skip, NotReady, NoContext
<1>4. {"skipped", "unsupported", "failed"} \subseteq Outcome
    BY DEF Outcome
<1> QED BY <1>1, <1>2, <1>3, <1>4, PlanReported, EndsWith

LEMMA BeginIInv == ASSUME IInv, NEW p \in Proc, Begin(p) PROVE IInv'
<1> DEFINE l == [job[p] EXCEPT !.pc = "next"]
<1>1. /\ job[p].pc = "captured" /\ job[p].token = ModelPlan(job[p])
      /\ job' = [job EXCEPT ![p] = l] /\ UNCHANGED faults
      /\ plans' = plans \cup {ModelPlan(job[p])} /\ plans' \subseteq Plan
      /\ UNCHANGED <<setting, live, requests, containers, edits, jobs>>
    BY PlanReported DEF Begin, Plans, Approved, Mismatch, Set
<1>2. /\ l \in Locals /\ l.pc = "next" /\ l.token = job[p].token /\ l.options = job[p].options
      /\ l.skill = job[p].skill /\ l.config = job[p].config /\ l.unsure = job[p].unsure
    BY Own DEF Locals, Pc
<1>3. Captured(l) /\ Approves(l, plans')
    BY <1>1, <1>2, Own DEF Captured, Approves, ModelPlan
<1>4. \A c \in containers' : Of(c, p) => Traced(l, c)
    BY <1>1, <1>2, Own DEF Traced
<1> HIDE DEF l
<1> QED BY <1>1, <1>2, <1>3, <1>4, Keeps, Own

LEMMA MergeIInv == ASSUME IInv, NEW p \in Proc, Merge(p) PROVE IInv'
<1>1. PICK state \in ResultState : Raised(p, state)
    BY DEF Merge, MergedState, ResultState, Raised
<1>2. faults' \in 0 .. setting.faults /\ UNCHANGED <<setting, live, requests, containers, plans, edits, jobs>>
    BY Own DEF Merge
<1> QED BY <1>1, <1>2, Raises

LEMMA StoppedIInv == ASSUME IInv, NEW p \in Proc, Stopped(p) PROVE IInv'
BY EndsWith, Own DEF Stopped, Outcome

\* The one step that adds a container: it runs the plan of the token.
LEMMA LaunchIInv == ASSUME IInv, NEW p \in Proc, Launch(p) PROVE IInv'
<1> DEFINE l == Launched(p)
<1>0. PICK k : k = Container(p)
    OBVIOUS
<1>1. /\ job[p].pc = "next" /\ job' = [job EXCEPT ![p] = l]
      /\ containers' \subseteq containers \cup {k} /\ requests' \subseteq requests \cup {k}
      /\ UNCHANGED <<setting, live, plans, edits, jobs>>
    BY <1>0 DEF Launch, LaunchSoon, LaunchLate, Set
<1>2. /\ l \in Locals /\ l.pc = "running" /\ l.options = job[p].options
      /\ l.token = job[p].token /\ l.skill = job[p].skill /\ l.config = job[p].config
      /\ l.at = job[p].at /\ l.unsure = job[p].unsure
    <2>1. job[p].uses + Uses(job[p].options, job[p].at) \in Nat
        BY Own DEF Locals, Uses
    <2> DEFINE n == job[p].uses + Uses(job[p].options, job[p].at)
    <2>2. l = [job[p] EXCEPT !.pc = "running", !.uses = n]
        BY Own DEF Launched, Locals
    <2> HIDE DEF n
    <2>3. n \in Nat
        BY <2>1 DEF n
    <2> QED BY <2>2, <2>3, Own, ZenonT(60) DEF Locals, Pc
<1>3. Captured(l) /\ Approves(l, plans)
    BY <1>1, <1>2, Own DEF Captured, Approves, Tests, ModelPlan
<1>4. /\ k.id.proc = p /\ k.id.number = jobs[p] /\ k.id.at = job[p].at
      /\ k.name = ContainerName(p, job[p].options, job[p].at)
      /\ k.ran = ModelPlan(job[p]) /\ k.approved = job[p].token /\ k.left = "no"
    BY <1>0 DEF Container, ExecutionOf, OwnName
<1>5. k.ran \in plans /\ k.ran = k.approved /\ jobs[p] \in Nat
    BY <1>1, <1>4, SettingTypes, Own DEF Approves, Tests, IInv
<1>6. faults' \in 0 .. setting.faults
    BY OneMoreFault, Own DEF Launch, LaunchSoon, LaunchLate
<1> HIDE DEF l
<1>7. Bounds'
    BY <1>1, <1>6 DEF IInv, Bounds
<1>8. JobsOK'
    <2>1. job' \in [Proc -> Locals]
        BY <1>1, <1>2, Own
    <2>2. ASSUME NEW q \in Proc PROVE Captured(job'[q]) /\ Approves(job'[q], plans')
        <3>1. CASE q = p
            BY <3>1, <1>1, <1>3, Own
        <3>2. CASE q # p
            BY <3>2, <1>1 DEF IInv, JobsOK
        <3> QED BY <3>1, <3>2
    <2> QED BY <2>1, <2>2 DEF JobsOK
<1>9. ContainersOK'
    <2>1. job'[p] = l /\ \A q \in Proc : q # p => job'[q] = job[q]
        BY <1>1, Own
    <2>2. ASSUME NEW c \in requests \cup containers PROVE Known(c)'
        BY <1>1, <1>2, <2>1 DEF IInv, ContainersOK, Known, Of, Bears
    <2>3. Known(k)'
        BY <1>1, <1>2, <1>4, <1>5, <2>1 DEF Known, Of, Bears
    <2>4. ASSUME NEW c \in containers', NEW q \in Proc, Of(c, q)' PROVE Traced(job'[q], c)
        <3>1. CASE c = k
            BY <2>1, <2>4, <3>1, <1>1, <1>2, <1>4 DEF Of, Traced
        <3>2. CASE c \in containers
            <4>1. Of(c, q) /\ Traced(job[q], c)
                BY <2>4, <3>2, <1>1 DEF IInv, ContainersOK, Of
            <4>2. CASE q = p
                BY <4>1, <4>2, <2>1, <1>1, <1>2 DEF Traced
            <4> QED BY <2>1, <4>1, <4>2
        <3> QED BY <1>1, <3>1, <3>2
    <2> QED BY <1>1, <2>2, <2>3, <2>4 DEF ContainersOK
<1> QED BY <1>7, <1>8, <1>9 DEF IInv

\* A slow engine creates what was approved when it was asked for; what nobody
\* waits for any more is marked as late.
LEMMA CreatesIInv == ASSUME IInv, Creates PROVE IInv'
<1>1. PICK r \in requests :
        /\ requests' = requests \ {r}
        /\ containers' \subseteq containers \cup {[r EXCEPT !.left = IF Waits(r.id) THEN "no" ELSE "late"]}
        /\ UNCHANGED <<setting, live, job, plans, faults, edits, jobs>>
    BY DEF Creates
<1> DEFINE k == [r EXCEPT !.left = IF Waits(r.id) THEN "no" ELSE "late"]
<1>2. Known(r)
    BY DEF IInv, ContainersOK
<1>3. /\ k.id = r.id /\ k.name = r.name /\ k.ran = r.ran /\ k.approved = r.approved
      /\ k.left = IF Waits(r.id) THEN "no" ELSE "late"
    BY <1>2 DEF Known
<1> HIDE DEF k
<1>4. Known(k)
    BY <1>2, <1>3 DEF Known, Of, Bears
<1>5. ASSUME NEW p \in Proc, Of(k, p) PROVE Traced(job[p], k)
    BY <1>3, <1>5 DEF Of, Traced, Waits, ExecutionOf
<1>6. \A c \in (requests \cup containers)' : Known(c)
    BY <1>1, <1>4 DEF IInv, ContainersOK, k
<1>7. \A c \in containers' : \A p \in Proc : Of(c, p) => Traced(job[p], c)
    BY <1>1, <1>5 DEF IInv, ContainersOK, k
<1> QED BY <1>1, <1>6, <1>7 DEF IInv, Bounds, JobsOK, ContainersOK, Known, Of

LEMMA GivesUpIInv ==
    ASSUME IInv, NEW p \in Proc, LaunchFails(p) \/ Unkillable(p) PROVE IInv'
<1>1. Raised(p, "internal_error") /\ Spend(faults)
      /\ UNCHANGED <<setting, live, requests, containers, plans, edits, jobs>>
    BY DEF LaunchFails, Unkillable
<1>2. "internal_error" \in ResultState
    BY DEF ResultState
<1> QED BY <1>1, <1>2, OneMoreFault, Raises

\* The client of p has ended: what is left of its container bears the name that
\* is about to be removed.
LEMMA WaitedIInv ==
    ASSUME IInv, NEW p \in Proc, ClientExits(p) \/ ClientAlone(p) \/ Killed(p) PROVE IInv'
<1>1. PICK v \in Verdict : Waited(p, v)
    BY DEF ClientExits, ClientAlone, Killed, Verdict
<1> DEFINE m == [job[p] EXCEPT !.pc = "waited"]
           l == [m EXCEPT !.verdict = v]
<1>2. /\ m \in Locals /\ m.pc = "waited" /\ m.options = job[p].options /\ m.token = job[p].token
      /\ m.skill = job[p].skill /\ m.config = job[p].config /\ m.at = job[p].at
      /\ m.unsure = job[p].unsure
    BY Own DEF Locals, Pc
<1>3. job' = [job EXCEPT ![p] = l]
    BY <1>1 DEF Waited, Set
<1> HIDE DEF m
<1>4. /\ l \in Locals /\ l.pc = "waited" /\ l.options = job[p].options /\ l.token = job[p].token
      /\ l.skill = job[p].skill /\ l.config = job[p].config /\ l.at = job[p].at
      /\ l.unsure = job[p].unsure
    BY <1>2 DEF Locals
<1> HIDE DEF l
<1>5. /\ job[p].pc = "running" /\ containers' \subseteq containers
      /\ UNCHANGED <<setting, live, requests, plans, faults, edits, jobs>>
    BY DEF ClientExits, ClientAlone, Killed, Attached
<1>6. Captured(l) /\ Approves(l, plans')
    BY <1>4, <1>5, Own DEF Captured, Approves, Tests, ModelPlan
<1>7. \A c \in containers' : Of(c, p) => Traced(l, c)
    BY <1>4, <1>5, Own DEF Traced
<1>8. plans \subseteq plans' /\ plans' \subseteq Plan /\ faults' \in 0 .. setting.faults
    BY <1>5, Own
<1> QED BY <1>3, <1>4, <1>5, <1>6, <1>7, <1>8, Keeps

\* The removal takes every container with the name of the execution away, or
\* marks it; then the check looks for the name.
LEMMA RemoveIInv == ASSUME IInv, NEW p \in Proc, Remove(p) PROVE IInv'
<1> DEFINE l == [job[p] EXCEPT !.pc = "removed"]
           mine == Named(OwnName(p))
<1>1. /\ l \in Locals /\ l.pc = "removed" /\ l.options = job[p].options /\ l.token = job[p].token
      /\ l.skill = job[p].skill /\ l.config = job[p].config /\ l.at = job[p].at
      /\ l.unsure = job[p].unsure
    BY Own DEF Locals, Pc
<1>2. /\ job[p].pc = "waited" /\ job' = [job EXCEPT ![p] = l]
      /\ containers' \subseteq (containers \ mine) \cup {Refused(c) : c \in mine}
      /\ UNCHANGED <<setting, live, requests, plans, edits, jobs>>
    BY DEF Remove, Set
<1>3. faults' \in 0 .. setting.faults
    BY OneMoreFault, Own DEF Remove
<1> HIDE DEF l
<1>4. Captured(l) /\ Approves(l, plans')
    BY <1>1, <1>2, Own DEF Captured, Approves, Tests, ModelPlan
<1>5. ASSUME NEW d \in containers
      PROVE  Like(d, d) /\ Like(Refused(d), d) /\ Refused(d).left \in {"late", "refused"}
    BY DEF IInv, ContainersOK, Known, Like, Refused
<1>6. \A c \in containers' : \E d \in containers : Like(c, d)
    BY <1>2, <1>5 DEF Named
<1>7. ASSUME NEW c \in containers', Of(c, p) PROVE Traced(l, c)
    <2>1. CASE c \in containers \ mine
        <3>1. Traced(job[p], c) /\ Bears(p, job[p], c)
            BY <1>7, <2>1 DEF IInv, ContainersOK, Known
        <3>2. c.name # OwnName(p)
            BY <2>1 DEF Named
        <3>3. c.id.at # job[p].at
            BY <1>2, <3>1, <3>2 DEF Bears, OwnName
        <3> QED BY <1>1, <1>2, <3>1, <3>3 DEF Traced
    <2>2. CASE \E d \in mine : c = Refused(d)
        <3>1. PICK d \in containers : c = Refused(d)
            BY <2>2 DEF Named
        <3>2. /\ c.left \in {"late", "refused"} /\ c.id = d.id
              /\ c.left = "refused" => d.left # "late"
            BY <3>1, <1>5 DEF Like
        <3>3. Traced(job[p], d)
            BY <1>7, <3>2 DEF IInv, ContainersOK, Of
        <3> QED BY <1>1, <1>2, <3>2, <3>3 DEF Traced
    <2> QED BY <1>2, <2>1, <2>2
<1>8. plans \subseteq plans' /\ plans' \subseteq Plan
    BY <1>2, Own
<1> QED BY <1>1, <1>2, <1>3, <1>4, <1>6, <1>7, <1>8, KeepsLike

LEMMA LeakCheckIInv == ASSUME IInv, NEW p \in Proc, LeakCheck(p) PROVE IInv'
<1>1. PICK k \in Leak : /\ job' = [job EXCEPT ![p] = [job[p] EXCEPT !.pc = "checked", !.leak = k]]
                        /\ Named(OwnName(p)) # {} => k = "leak"
    BY DEF LeakCheck, Set, Leak
<1> DEFINE m == [job[p] EXCEPT !.pc = "checked"]
           l == [m EXCEPT !.leak = k]
<1>2. /\ m \in Locals /\ m.pc = "checked" /\ m.options = job[p].options /\ m.token = job[p].token
      /\ m.skill = job[p].skill /\ m.config = job[p].config /\ m.at = job[p].at
      /\ m.unsure = job[p].unsure
    BY Own DEF Locals, Pc
<1>3. job' = [job EXCEPT ![p] = l]
    BY <1>1
<1> HIDE DEF m
<1>4. /\ l \in Locals /\ l.pc = "checked" /\ l.options = job[p].options /\ l.token = job[p].token
      /\ l.skill = job[p].skill /\ l.config = job[p].config /\ l.at = job[p].at
      /\ l.unsure = job[p].unsure /\ l.leak = k
    BY <1>2 DEF Locals
<1> HIDE DEF l
<1>5. /\ job[p].pc = "removed"
      /\ UNCHANGED <<setting, live, requests, containers, plans, faults, edits, jobs>>
    BY DEF LeakCheck
<1>6. Captured(l) /\ Approves(l, plans')
    BY <1>4, <1>5, Own DEF Captured, Approves, Tests, ModelPlan
<1>7. ASSUME NEW c \in containers', Of(c, p) PROVE Traced(l, c)
    <2>1. Traced(job[p], c) /\ Bears(p, job[p], c)
        BY <1>5, <1>7 DEF IInv, ContainersOK, Known
    <2>2. c.id.at = job[p].at => k = "leak"
        BY <1>1, <1>5, <2>1 DEF Bears, OwnName, Named
    <2> QED BY <1>4, <1>5, <2>1, <2>2 DEF Traced
<1>8. plans \subseteq plans' /\ plans' \subseteq Plan /\ faults' \in 0 .. setting.faults
    BY <1>5, Own
<1> QED BY <1>3, <1>4, <1>5, <1>6, <1>7, <1>8, Keeps

LEMMA UnknownIInv == ASSUME IInv, NEW p \in Proc, CleanupUnknown(p) PROVE IInv'
<1> DEFINE m == [job[p] EXCEPT !.pc = "checked"]
           n == [m EXCEPT !.leak = "unknown"]
           l == [n EXCEPT !.unsure = TRUE]
<1>1. /\ m \in Locals /\ m.pc = "checked" /\ m.options = job[p].options /\ m.token = job[p].token
      /\ m.skill = job[p].skill /\ m.config = job[p].config
    BY Own DEF Locals, Pc
<1>2. job' = [job EXCEPT ![p] = l]
    BY DEF CleanupUnknown, Set
<1> HIDE DEF m
<1>3. /\ n \in Locals /\ n.pc = "checked" /\ n.options = job[p].options /\ n.token = job[p].token
      /\ n.skill = job[p].skill /\ n.config = job[p].config
    BY <1>1 DEF Locals, Leak
<1> HIDE DEF n
<1>4. /\ l \in Locals /\ l.pc = "checked" /\ l.options = job[p].options /\ l.token = job[p].token
      /\ l.skill = job[p].skill /\ l.config = job[p].config /\ l.unsure
    BY <1>3 DEF Locals
<1> HIDE DEF l
<1>5. /\ job[p].pc \in {"waited", "removed"} /\ Spend(faults)
      /\ UNCHANGED <<setting, live, requests, containers, plans, edits, jobs>>
    BY DEF CleanupUnknown
<1>6. Captured(l) /\ Approves(l, plans')
    BY <1>4, <1>5, Own DEF Captured, Approves, Tests, ModelPlan
<1>7. \A c \in containers' : Of(c, p) => Traced(l, c)
    BY <1>4 DEF Traced
<1>8. plans \subseteq plans' /\ plans' \subseteq Plan /\ faults' \in 0 .. setting.faults
    BY <1>5, Own, OneMoreFault
<1> QED BY <1>2, <1>4, <1>5, <1>6, <1>7, <1>8, Keeps

\* What a step of the loop may leave behind: the same check, further on.
LEMMA GoesOn ==
    ASSUME IInv, NEW p \in Proc, NEW l \in Locals,
           job[p].pc = "checked", l.pc \in {"next", "traces"},
           job[p].leak = "leak" => Unread(job[p].at),
           l.options = job[p].options, l.token = job[p].token, l.skill = job[p].skill,
           l.config = job[p].config, l.unsure = job[p].unsure,
           job' = [job EXCEPT ![p] = l],
           UNCHANGED <<setting, live, requests, containers, plans, faults, edits, jobs>>
    PROVE  IInv'
<1>1. Captured(l) /\ Approves(l, plans')
    BY Own DEF Captured, Approves, Tests, ModelPlan
<1>2. \A c \in containers' : Of(c, p) => Traced(l, c)
    BY Own DEF Traced
<1>3. plans \subseteq plans' /\ plans' \subseteq Plan /\ faults' \in 0 .. setting.faults
      /\ containers' \subseteq containers
    BY Own
<1> QED BY <1>1, <1>2, <1>3, Keeps

\* The next place of the loop.
LEMMA AdvanceTypes ==
    ASSUME NEW j \in Locals, j.options \in Request
    PROVE  /\ Advance(j) \in Locals /\ Advance(j).pc \in {"next", "traces"}
           /\ Advance(j).options = j.options /\ Advance(j).token = j.token
           /\ Advance(j).skill = j.skill /\ Advance(j).config = j.config
           /\ Advance(j).unsure = j.unsure
           /\ Advance(j).at = Following(j.options, j.at)
           /\ Advance(j).uses = j.uses /\ Advance(j).treated = j.treated
           /\ Advance(j).passed = j.passed /\ Advance(j).outcome = j.outcome
           /\ Advance(j).whole = j.whole /\ Advance(j).cancel = j.cancel
           /\ Advance(j).verdict = "none"
           /\ Advance(j).state = j.state
           /\ Advance(j).pc = "traces" <=> AllDone(j.options, Following(j.options, j.at))
<1> DEFINE at == Following(j.options, j.at)
           pc == IF AllDone(j.options, at) THEN "traces" ELSE "next"
           l == [j EXCEPT !.pc = pc, !.at = at, !.verdict = "none", !.leak = "none"]
<1>1. j.at \in Place
    BY DEF Locals
<1>2. at \in Place
    BY <1>1, FollowingPlace
<1>3. pc \in {"next", "traces"} /\ (pc = "traces" <=> AllDone(j.options, at))
    OBVIOUS
<1>4. Advance(j) = l
    BY DEF Advance
<1> HIDE DEF at, pc
<1>5. /\ l \in Locals /\ l.pc = pc /\ l.options = j.options /\ l.token = j.token
      /\ l.skill = j.skill /\ l.config = j.config /\ l.unsure = j.unsure /\ l.at = at
      /\ l.uses = j.uses /\ l.treated = j.treated /\ l.passed = j.passed /\ l.whole = j.whole /\ l.cancel = j.cancel
      /\ l.outcome = j.outcome /\ l.state = j.state /\ l.verdict = "none"
    <2> DEFINE l1 == [j EXCEPT !.pc = pc]
               l2 == [l1 EXCEPT !.at = at]
               l3 == [l2 EXCEPT !.verdict = "none"]
    <2>1. /\ l1 \in Locals /\ l1.pc = pc /\ l1.options = j.options /\ l1.token = j.token
          /\ l1.skill = j.skill /\ l1.config = j.config /\ l1.unsure = j.unsure
          /\ l1.uses = j.uses /\ l1.treated = j.treated /\ l1.passed = j.passed /\ l1.whole = j.whole /\ l1.cancel = j.cancel
          /\ l1.outcome = j.outcome /\ l1.state = j.state
        BY <1>3 DEF Locals, Pc
    <2>2. l = [l3 EXCEPT !.leak = "none"]
        OBVIOUS
    <2> HIDE DEF l1
    <2>3. /\ l2 \in Locals /\ l2.pc = pc /\ l2.options = j.options /\ l2.token = j.token
          /\ l2.skill = j.skill /\ l2.config = j.config /\ l2.unsure = j.unsure /\ l2.at = at
          /\ l2.uses = j.uses /\ l2.treated = j.treated /\ l2.passed = j.passed /\ l2.whole = j.whole /\ l2.cancel = j.cancel
          /\ l2.outcome = j.outcome /\ l2.state = j.state
        BY <2>1, <1>2 DEF Locals
    <2> HIDE DEF l2
    <2>4. /\ l3 \in Locals /\ l3.pc = pc /\ l3.options = j.options /\ l3.token = j.token
          /\ l3.skill = j.skill /\ l3.config = j.config /\ l3.unsure = j.unsure /\ l3.at = at
          /\ l3.uses = j.uses /\ l3.treated = j.treated /\ l3.passed = j.passed /\ l3.whole = j.whole /\ l3.cancel = j.cancel
          /\ l3.outcome = j.outcome /\ l3.state = j.state /\ l3.verdict = "none"
        BY <2>3 DEF Locals, Verdict
    <2> HIDE DEF l3
    <2> QED BY <2>2, <2>4 DEF Locals, Leak
<1> QED BY <1>3, <1>4, <1>5 DEF at

\* The same check, one execution further on.
Further(j, l) ==
    /\ l \in Locals /\ l.pc \in {"next", "traces"} /\ l.options = j.options
    /\ l.token = j.token /\ l.skill = j.skill /\ l.config = j.config /\ l.unsure = j.unsure
    /\ l.at = Following(j.options, j.at) /\ l.uses = j.uses /\ l.outcome = j.outcome
    /\ l.state = j.state /\ l.cancel = j.cancel /\ l.verdict = "none"
    /\ (l.pc = "traces") <=> AllDone(j.options, l.at)

\* It has counted the trial it was at.
Tallied(j, l) == LET here == Kind(j.options, j.at) = "trial" IN
    /\ l.treated = IF here THEN j.treated + 1 ELSE j.treated
    /\ l.whole = IF here /\ j.verdict # "cancelled" THEN j.whole + 1 ELSE j.whole
    /\ l.passed = IF here /\ j.verdict = "pass" THEN j.passed + 1 ELSE j.passed

\* What becomes of the result of an execution.
LEMMA RecordStep ==
    ASSUME IInv, NEW p \in Proc, Record(p)
    PROVE  LET j == job[p] IN
           \/ Ends(p, "failed") /\ Unread(j.at)
           \/ Ends(p, "containment")
           \/ \E l : /\ Further(j, l) /\ Tallied(j, l) /\ job' = [job EXCEPT ![p] = l]
                     /\ j.leak = "leak" => Unread(j.at)
<1> DEFINE j == job[p]
           k == Kind(j.options, j.at)
           l == Advance(j)
<1>1. j \in Locals /\ j.options \in Request
    BY Own DEF Record, Captured
<1>2. /\ Further(j, l) /\ l.treated = j.treated /\ l.whole = j.whole /\ l.passed = j.passed
    BY <1>1, AdvanceTypes DEF Further
<1>3. k \in {"probe", "setup"} => Unread(j.at)
    BY DEF Kind, Unread
<1>4. CASE (k \in {"probe", "setup"} /\ Ends(p, "failed")) \/ Ends(p, "containment")
    BY <1>3, <1>4
<1>5. CASE k \in {"probe", "setup"} /\ Set(p, l)
    <2>1. Tallied(j, l)
        BY <1>2, <1>5 DEF Tallied
    <2> QED BY <1>2, <1>3, <1>5, <2>1 DEF Set
<1>6. CASE k \in {"trial", "control"} /\ ~Violates(j) /\
           Set(p, [l EXCEPT !.treated = IF k = "trial" THEN @ + 1 ELSE @,
                            !.whole = IF k = "trial" /\ j.verdict # "cancelled" THEN @ + 1 ELSE @,
                            !.passed = IF k = "trial" /\ j.verdict = "pass" THEN @ + 1 ELSE @])
    <2> DEFINE t == IF k = "trial" THEN l.treated + 1 ELSE l.treated
               w == IF k = "trial" /\ j.verdict # "cancelled" THEN l.whole + 1 ELSE l.whole
               n == IF k = "trial" /\ j.verdict = "pass" THEN l.passed + 1 ELSE l.passed
               m1 == [l EXCEPT !.treated = t]
               m2 == [m1 EXCEPT !.whole = w]
               m == [m2 EXCEPT !.passed = n]
    <2>1. /\ t \in Nat /\ w \in Nat /\ n \in Nat
          /\ t = IF k = "trial" THEN j.treated + 1 ELSE j.treated
          /\ w = IF k = "trial" /\ j.verdict # "cancelled" THEN j.whole + 1 ELSE j.whole
          /\ n = IF k = "trial" /\ j.verdict = "pass" THEN j.passed + 1 ELSE j.passed
        BY <1>2 DEF Locals, Further
    <2>2. job' = [job EXCEPT ![p] = m] /\ j.leak # "leak"
        BY <1>6 DEF Set, Violates
    <2> HIDE DEF t, w, n, l
    <2>3. Further(j, m1) /\ m1.treated = t
        BY <1>2, <2>1 DEF Locals, Further
    <2> HIDE DEF m1
    <2>4. Further(j, m2) /\ m2.treated = t /\ m2.whole = w
        BY <2>1, <2>3 DEF Locals, Further
    <2> HIDE DEF m2
    <2>5. Further(j, m) /\ m.treated = t /\ m.whole = w /\ m.passed = n
        BY <2>1, <2>4 DEF Locals, Further
    <2> HIDE DEF m
    <2>6. Tallied(j, m)
        BY <2>1, <2>5 DEF Tallied
    <2> QED BY <2>2, <2>5, <2>6
<1> QED BY <1>4, <1>5, <1>6 DEF Record

LEMMA RecordIInv == ASSUME IInv, NEW p \in Proc, Record(p) PROVE IInv'
<1>1. /\ job[p].pc = "checked"
      /\ UNCHANGED <<setting, live, requests, containers, plans, faults, edits, jobs>>
    BY DEF Record
<1>2. CASE (Ends(p, "failed") /\ Unread(job[p].at)) \/ Ends(p, "containment")
    BY <1>1, <1>2, EndsWith, Own DEF Outcome
<1>3. ASSUME NEW l, Further(job[p], l), job' = [job EXCEPT ![p] = l],
             job[p].leak = "leak" => Unread(job[p].at)
      PROVE  IInv'
    BY <1>1, <1>3, GoesOn DEF Further
<1> QED BY <1>2, <1>3, RecordStep

LEMMA TracesIInv == ASSUME IInv, NEW p \in Proc, PersistTraces(p) PROVE IInv'
<1>1. /\ job[p].pc = "traces"
      /\ UNCHANGED <<setting, live, requests, containers, plans, edits, jobs>>
    BY DEF PersistTraces
<1>2. CASE Ends(p, "completed") /\ UNCHANGED faults
    BY <1>1, <1>2, EndsWith, Own DEF Outcome
<1>3. CASE Raised(p, "analysis_incomplete") /\ Spend(faults)
    BY <1>1, <1>3, Raises, OneMoreFault DEF ResultState
<1> QED BY <1>2, <1>3 DEF PersistTraces

LEMMA EditIInv == ASSUME IInv, Edit PROVE IInv'
<1>1. Bounds'
    <2>1. PICK f \in {"skill", "config"}, c \in Content : live' = [live EXCEPT ![f] = c]
        BY DEF Edit
    <2>2. live' \in [skill : Content, config : Content]
        BY <2>1 DEF IInv, Bounds
    <2>3. edits' \in 0 .. setting.edits
        BY SettingTypes DEF Edit, IInv, Bounds
    <2> QED BY <2>2, <2>3 DEF Edit, IInv, Bounds
<1>2. JobsOK'
    BY DEF Edit, IInv, JobsOK
<1>3. ContainersOK'
    BY DEF Edit, IInv, ContainersOK, Known, Of
<1> QED BY <1>1, <1>2, <1>3 DEF IInv

LEMMA CancelIInv == ASSUME IInv, NEW p \in Proc, Cancel(p) PROVE IInv'
<1> DEFINE l == [job[p] EXCEPT !.cancel = TRUE]
<1>1. /\ l \in Locals /\ l.pc = job[p].pc /\ l.options = job[p].options
      /\ l.token = job[p].token /\ l.skill = job[p].skill /\ l.config = job[p].config
      /\ l.at = job[p].at /\ l.unsure = job[p].unsure /\ l.leak = job[p].leak
      /\ l.outcome = job[p].outcome
    BY Own, ZenonT(60) DEF Locals
<1>2. /\ job' = [job EXCEPT ![p] = l]
      /\ UNCHANGED <<setting, live, requests, containers, plans, faults, edits, jobs>>
    BY DEF Cancel, Set
<1> HIDE DEF l
<1>3. Captured(l) /\ Approves(l, plans')
    BY <1>1, <1>2, Own DEF Captured, Approves, ModelPlan
<1>4. \A c \in containers' : Of(c, p) => Traced(l, c)
    BY <1>1, <1>2, Own DEF Traced
<1>5. plans \subseteq plans' /\ plans' \subseteq Plan /\ faults' \in 0 .. setting.faults
    BY <1>2, Own
<1> QED BY <1>1, <1>2, <1>3, <1>4, <1>5, Keeps

LEMMA CrashIInv == ASSUME IInv, NEW p \in Proc, Crash(p) PROVE IInv'
<1>1. Idle \in Locals /\ Idle.pc = "idle"
    BY DEF Idle, Locals, Pc, Verdict, Leak, Outcome, Probe, Place
<1>2. Captured(Idle) /\ Approves(Idle, plans') /\ \A c \in containers' : Traced(Idle, c)
    BY <1>1 DEF Captured, Approves, Traced, Tests
<1>3. /\ job' = [job EXCEPT ![p] = Idle] /\ Spend(faults)
      /\ UNCHANGED <<setting, live, requests, containers, plans, edits, jobs>>
    BY DEF Crash, Set
<1>4. plans \subseteq plans' /\ plans' \subseteq Plan /\ faults' \in 0 .. setting.faults
    BY <1>3, Own, OneMoreFault
<1> QED BY <1>1, <1>2, <1>3, <1>4, Keeps

LEMMA OrphanIInv == ASSUME IInv, OrphanExits PROVE IInv'
<1>1. /\ containers' \subseteq containers
      /\ UNCHANGED <<setting, live, job, requests, plans, faults, edits, jobs>>
    BY DEF OrphanExits
<1>2. Bounds' /\ JobsOK'
    BY <1>1 DEF IInv, Bounds, JobsOK
<1>3. ContainersOK'
    BY <1>1 DEF IInv, ContainersOK, Known, Of
<1> QED BY <1>2, <1>3 DEF IInv

\* Every step keeps the invariant.
LEMMA NextIInv == IInv /\ [Next]_vars => IInv'
<1> SUFFICES ASSUME IInv, [Next]_vars PROVE IInv'
    OBVIOUS
<1>1. CASE UNCHANGED vars
    BY <1>1 DEF vars, IInv, Bounds, JobsOK, ContainersOK, Known, Of
<1>2. ASSUME NEW p \in Proc, Goes(p) PROVE IInv'
    BY <1>2, CaptureIInv, StaleIInv, NotRunIInv, BeginIInv, MergeIInv, StoppedIInv, LaunchIInv,
       WaitedIInv, RemoveIInv, LeakCheckIInv, RecordIInv, TracesIInv DEF Goes
<1>3. ASSUME NEW p \in Proc, EngineFault(p) PROVE IInv'
    BY <1>3, NotRunIInv, GivesUpIInv, UnknownIInv DEF EngineFault
<1>4. ASSUME NEW p \in Proc, Submit(p) \/ ClientExits(p) \/ Cancel(p) \/ Crash(p) PROVE IInv'
    BY <1>4, SubmitIInv, WaitedIInv, CancelIInv, CrashIInv
<1>5. CASE Edit \/ Creates \/ OrphanExits
    BY <1>5, EditIInv, CreatesIInv, OrphanIInv
<1> QED BY <1>1, <1>2, <1>3, <1>4, <1>5 DEF Next

THEOREM TestsInvariant == Spec => []IInv
BY InitIInv, NextIInv, PTL DEF Spec

-----------------------------------------------------------------------------
(* What it implies                                                          *)

\* Every variable of the dynamic tests keeps its type.
THEOREM TestTypes == Spec => []TypeOK
<1>1. IInv => TypeOK
    BY SettingTypes, Own DEF IInv, Bounds, JobsOK, ContainersOK, Known, Locals, TypeOK
<1> QED BY <1>1, TestsInvariant, PTL

\* Whatever is edited, and whatever the processes and the engine do, a container
\* runs the inputs of a plan that was reported and approved.
THEOREM OnlyApproved == Spec => []OnlyApprovedRuns
<1>1. IInv => OnlyApprovedRuns
    BY DEF IInv, ContainersOK, Known, OnlyApprovedRuns
<1> QED BY <1>1, TestsInvariant, PTL

\* A check whose cleanups were answered has left, when its trials are over, only
\* containers that were created late, or that the engine refused to remove: and
\* then it says containment, but for the probe and the installations.
THEOREM NothingLeft == Spec => []LeavesNothing
<1>1. IInv => LeavesNothing
    <2> SUFFICES ASSUME IInv, NEW p \in Proc, job[p].pc \in {"merge", "traces"}, ~job[p].unsure,
                        NEW c \in containers, <<c.id.proc, c.id.number>> = <<p, jobs[p]>>
                 PROVE  \/ c.left = "late"
                        \/ c.left = "refused" /\ (Unread(c.id.at) \/ job[p].outcome = "containment")
        BY DEF LeavesNothing
    <2>1. Of(c, p)
        BY DEF Of
    <2> QED BY <2>1, Own DEF Traced
<1> QED BY <1>1, TestsInvariant, PTL

-----------------------------------------------------------------------------
(* Whose container a name is                                                *)

\* A container bears the name of an execution of its process.
Borne(p) == {ContainerName(p, o, at) : o \in Request, at \in Place}
NamesOK == \A c \in requests \cup containers : c.id.proc \in Proc /\ c.name \in Borne(c.id.proc)

\* Where a name is kept, it starts with the skill's.
LEMMA NameStart ==
    ASSUME NEW p \in Proc, NEW o \in Request, NEW at \in Place,
           NEW i \in DOMAIN (SkillOf[p] \o <<Dash>>), i <= Kept
    PROVE  /\ i \in DOMAIN ContainerName(p, o, at)
           /\ ContainerName(p, o, at)[i] = (SkillOf[p] \o <<Dash>>)[i]
<1> DEFINE T == Char \cup Nat
           start == SkillOf[p] \o <<Dash>>
           rest == Suffix(p, o, at)
           whole == start \o rest
           kept == AtMost(Kept, Len(whole))
<1>1. start \in Seq(T)
    <2>1. SkillOf[p] \in Seq(T) /\ <<Dash>> \in Seq(T)
        BY DynamicAssumption
    <2> QED BY <2>1, ConcatProperties
<1>2. rest \in Seq(T)
    <2>1. <<Version>> \in Seq(T) /\ <<Dash>> \in Seq(T)
        BY DynamicAssumption
    <2>2. <<Word(o, at)>> \in Seq(T)
        BY DynamicAssumption DEF Word, Place
    <2>3. CaseId(p, at.case) \in Seq(T)
        <3>1. CASE at.case \in DOMAIN CaseIds[p]
            <4>1. CaseIds[p] \in Seq(Seq(Char))
                BY DynamicAssumption
            <4>2. CaseIds[p][at.case] \in Seq(Char)
                BY <3>1, <4>1
            <4> QED BY <3>1, <4>2 DEF CaseId
        <3>2. CASE at.case \notin DOMAIN CaseIds[p]
            BY <3>2 DEF CaseId, Place
        <3> QED BY <3>1, <3>2
    <2>4. CaseId(p, at.case) \o <<Dash>> \in Seq(T)
        BY <2>1, <2>3, ConcatProperties
    <2>5. (CaseId(p, at.case) \o <<Dash>>) \o <<Word(o, at)>> \in Seq(T)
        BY <2>2, <2>4, ConcatProperties
    <2> QED BY <2>1, <2>5 DEF Suffix
<1> HIDE DEF rest, start, T
<1>3. /\ whole \in Seq(T) /\ Len(whole) = Len(start) + Len(rest)
      /\ \A n \in 1 .. Len(start) + Len(rest) :
            whole[n] = IF n <= Len(start) THEN start[n] ELSE rest[n - Len(start)]
    BY <1>1, <1>2, ConcatProperties
<1>4. i \in 1 .. Len(start)
    BY <1>1 DEF start
<1>5. Len(start) \in Nat /\ Len(rest) \in Nat /\ Kept \in Nat
    BY <1>1, <1>2, DynamicAssumption
<1> HIDE DEF whole
<1>6. kept \in Nat /\ kept <= Len(whole) /\ i <= kept
    BY <1>3, <1>4, <1>5 DEF AtMost
<1> HIDE DEF kept
<1>7. \A n \in 1 .. kept : whole[n] \in T
    BY <1>3, <1>6
<1>8. /\ SubSeq(whole, 1, kept) \in Seq(T) /\ Len(SubSeq(whole, 1, kept)) = kept
      /\ \A n \in 1 .. kept : SubSeq(whole, 1, kept)[n] = whole[n]
    <2>1. 1 \in Int /\ kept \in Int /\ kept - 1 + 1 = kept
        BY <1>6
    <2>2. /\ SubSeq(whole, 1, kept) \in Seq(T)
          /\ Len(SubSeq(whole, 1, kept)) = IF 1 <= kept THEN kept - 1 + 1 ELSE 0
          /\ \A n \in 1 .. kept - 1 + 1 : SubSeq(whole, 1, kept)[n] = whole[1 + n - 1]
        BY <1>7, <2>1, SubSeqProperties
    <2> QED BY <1>6, <2>1, <2>2
<1>9. ContainerName(p, o, at) = SubSeq(whole, 1, kept)
    BY DEF ContainerName, Cut, whole, kept, rest, start
<1>10. DOMAIN SubSeq(whole, 1, kept) = 1 .. kept
    BY <1>8
<1>11. i \in 1 .. kept /\ SubSeq(whole, 1, kept)[i] = start[i]
    BY <1>3, <1>4, <1>5, <1>6, <1>8
<1> QED BY <1>9, <1>10, <1>11 DEF start

\* The names of two skills that differ where they are kept are told apart.
LEMMA NamesDiffer ==
    ASSUME NEW p \in Proc, NEW q \in Proc, Distinguished(p, q)
    PROVE  Borne(p) \cap Borne(q) = {}
<1> SUFFICES ASSUME NEW o \in Request, NEW at \in Place, NEW x \in Request, NEW y \in Place,
                    ContainerName(p, o, at) = ContainerName(q, x, y)
             PROVE  FALSE
    BY DEF Borne
<1>1. PICK i \in DOMAIN (SkillOf[p] \o <<Dash>>) \cap DOMAIN (SkillOf[q] \o <<Dash>>) :
         i <= Kept /\ (SkillOf[p] \o <<Dash>>)[i] # (SkillOf[q] \o <<Dash>>)[i]
    BY DEF Distinguished
<1> QED BY <1>1, NameStart

\* A step that adds a container is the launch of one; every other step only
\* removes some.
LEMMA ContainersAfter ==
    ASSUME [Next]_vars
    PROVE  \/ containers \subseteq containers'
           \/ \E p \in Proc : /\ ClientExits(p)
                              /\ \A c \in containers : c.id # ExecutionOf(p) => c \in containers'
           \/ \E p \in Proc : Remove(p) /\ containers \ Named(OwnName(p)) \subseteq containers'
           \/ \E c \in containers : ~Waits(c.id) /\ containers' = containers \ {c}
<1>1. CASE UNCHANGED vars
    BY <1>1 DEF vars
<1>2. CASE Edit \/ Creates
    BY <1>2 DEF Edit, Creates
<1>3. CASE OrphanExits
    BY <1>3 DEF OrphanExits
<1>4. CASE \E p \in Proc : Submit(p) \/ EngineFault(p) \/ Cancel(p) \/ Crash(p)
    BY <1>4 DEF Submit, EngineFault, NotReady, NoContext, Plans, LaunchFails, Unkillable,
                CleanupUnknown, Cancel, Crash
<1>5. CASE \E p \in Proc : ClientExits(p)
    BY <1>5 DEF ClientExits
<1>6. CASE \E p \in Proc : Goes(p)
    <2>1. PICK p \in Proc : Goes(p)
        BY <1>6
    <2>2. CASE Launch(p)
        BY <2>2 DEF Launch, LaunchSoon, LaunchLate
    <2>3. CASE Remove(p)
        BY <2>3 DEF Remove
    <2>4. CASE ~Launch(p) /\ ~Remove(p)
        BY <2>1, <2>4 DEF Goes, Capture, StaleOrCancelled, Skip, Begin, Plans, Merge, Stopped,
                          ClientAlone, Killed, LeakCheck, Record, PersistTraces
    <2> QED BY <2>2, <2>3, <2>4
<1> QED BY <1>1, <1>2, <1>3, <1>4, <1>5, <1>6 DEF Next

\* Where a container, or a request for one, comes from.
LEMMA NamesAfter ==
    ASSUME IInv, [Next]_vars, NEW c \in (requests \cup containers)'
    PROVE  \/ \E d \in requests \cup containers : c.id = d.id /\ c.name = d.name
           \/ \E p \in Proc : job[p].pc = "next" /\ c = Container(p)
<1>1. CASE UNCHANGED <<requests, containers>>
    BY <1>1
<1>2. CASE \E p \in Proc : Launch(p)
    BY <1>2 DEF Launch, LaunchSoon, LaunchLate
<1>3. CASE \E p \in Proc : Remove(p)
    <2>1. PICK p \in Proc : Remove(p)
        BY <1>3
    <2>2. requests' = requests /\ containers' \subseteq containers \cup {Refused(d) : d \in containers}
        BY <2>1 DEF Remove, Named
    <2>3. \A d \in containers : Refused(d).id = d.id /\ Refused(d).name = d.name
        BY DEF Refused
    <2> QED BY <2>2, <2>3
<1>4. CASE Creates
    <2>1. PICK r \in requests :
             /\ requests' \subseteq requests
             /\ containers' \subseteq containers \cup {[r EXCEPT !.left = IF Waits(r.id) THEN "no" ELSE "late"]}
        BY <1>4 DEF Creates
    <2>2. [r EXCEPT !.left = IF Waits(r.id) THEN "no" ELSE "late"].id = r.id
          /\ [r EXCEPT !.left = IF Waits(r.id) THEN "no" ELSE "late"].name = r.name
        OBVIOUS
    <2> QED BY <2>1, <2>2
<1>5. CASE requests' = requests /\ containers' \subseteq containers
    BY <1>5
<1>6. CASE \E p \in Proc : Goes(p) /\ ~Launch(p) /\ ~Remove(p)
    BY <1>1, <1>6 DEF Goes, Capture, StaleOrCancelled, Skip, Begin, Plans, Merge, Stopped,
                      ClientAlone, Killed, LeakCheck, Record, PersistTraces
<1>7. CASE \E p \in Proc : Submit(p) \/ EngineFault(p) \/ Cancel(p) \/ Crash(p) \/ ClientExits(p)
    BY <1>1, <1>5, <1>7 DEF Submit, EngineFault, NotReady, NoContext, Plans, LaunchFails,
                      Unkillable, CleanupUnknown, Cancel, Crash, ClientExits
<1>8. CASE Edit \/ OrphanExits \/ UNCHANGED vars
    BY <1>1, <1>5, <1>8 DEF Edit, OrphanExits, vars
<1> QED BY <1>2, <1>3, <1>4, <1>6, <1>7, <1>8 DEF Next

LEMMA NextNames == IInv /\ NamesOK /\ [Next]_vars => NamesOK'
<1> SUFFICES ASSUME IInv, NamesOK, [Next]_vars, NEW c \in (requests \cup containers)'
             PROVE  c.id.proc \in Proc /\ c.name \in Borne(c.id.proc)
    BY DEF NamesOK
<1>1. CASE \E d \in requests \cup containers : c.id = d.id /\ c.name = d.name
    BY <1>1 DEF NamesOK
<1>2. CASE \E p \in Proc : job[p].pc = "next" /\ c = Container(p)
    <2>1. PICK p \in Proc : job[p].pc = "next" /\ c = Container(p)
        BY <1>2
    <2>2. job[p].options \in Request /\ job[p].at \in Place
        BY <2>1, Own DEF Captured, Locals
    <2> QED BY <2>1, <2>2 DEF Container, ExecutionOf, OwnName, Borne
<1> QED BY <1>1, <1>2, NamesAfter

\* No step of a process with another name ends the execution a client waits for.
LEMMA StepEndsOwn ==
    ASSUME IInv, NamesOK, [Next]_vars, NEW p \in Proc,
           Attached(p), ~(\E c \in containers' : c.id = ExecutionOf(p))
    PROVE  \E q \in Proc : job'[q] # job[q] /\ (q = p \/ ~Distinguished(p, q))
<1>1. PICK c \in containers : c.id = ExecutionOf(p)
    BY DEF Attached
<1>2. /\ c.id.proc = p /\ c.name \in Borne(p) /\ job[p].pc = "running" /\ c \notin containers'
    BY <1>1 DEF NamesOK, ExecutionOf, Attached
<1>3. CASE \E q \in Proc : /\ ClientExits(q)
                           /\ \A d \in containers : d.id # ExecutionOf(q) => d \in containers'
    <2>1. PICK q \in Proc : /\ ClientExits(q)
                            /\ \A d \in containers : d.id # ExecutionOf(q) => d \in containers'
        BY <1>3
    <2>2. q = p
        BY <1>2, <2>1 DEF ExecutionOf
    <2>3. job'[p].pc = "waited"
        BY <2>1, <2>2, Own DEF ClientExits, Waited, Set, Locals
    <2> QED BY <1>2, <2>3
<1>4. CASE \E q \in Proc : Remove(q) /\ containers \ Named(OwnName(q)) \subseteq containers'
    <2>1. PICK q \in Proc : Remove(q) /\ containers \ Named(OwnName(q)) \subseteq containers'
        BY <1>4
    <2>2. c.name = OwnName(q)
        BY <1>2, <2>1 DEF Named
    <2>3. job[q].options \in Request /\ job[q].at \in Place /\ job[q].pc = "waited"
        BY <2>1, Own DEF Captured, Locals, Remove
    <2>4. c.name \in Borne(q)
        BY <2>2, <2>3 DEF OwnName, Borne
    <2>5. ~Distinguished(p, q)
        BY <1>2, <2>4, NamesDiffer
    <2>6. job'[q].pc = "removed"
        BY <2>1, Own DEF Remove, Set, Locals
    <2> QED BY <2>3, <2>5, <2>6
<1>5. CASE \E d \in containers : ~Waits(d.id) /\ containers' = containers \ {d}
    BY <1>1, <1>2, <1>5 DEF Waits
<1>6. CASE containers \subseteq containers'
    BY <1>2, <1>6
<1> QED BY <1>3, <1>4, <1>5, <1>6, ContainersAfter

\* A container a client waits for ends only by a step of its own process, or of
\* one whose skill's name is the same as far as the container's name keeps it: a
\* cleanup, which removes by name, meets no other's (build_launch, job_id[:40],
\* and _cleanup_launch), whatever the ids of the cases and wherever names are cut.
THEOREM OnlyOwnEnds == Spec => NobodyElseEnds
<1> DEFINE Body == \A p \in Proc : Attached(p) /\ ~(\E c \in containers' : c.id = ExecutionOf(p))
                       => \E q \in Proc : job'[q] # job[q] /\ (q = p \/ ~Distinguished(p, q))
<1>1. Init => NamesOK
    BY DEF Init, NamesOK
<1>2. IInv /\ NamesOK /\ [Next]_vars => Body
    BY StepEndsOwn
<1>3. NobodyElseEnds <=> [][Body]_vars
    BY DEF NobodyElseEnds
<1> HIDE DEF Body
<1> QED BY <1>1, <1>2, <1>3, NextNames, TestsInvariant, PTL DEF Spec

-----------------------------------------------------------------------------
(* What is counted                                                          *)

Before == {"queued", "captured"}
Executing == {"running", "waited", "removed", "checked"}

\* The executions before this one that called the model, and this one too once
\* it is launched.
Called(j) ==
    (j.at.case - 1) * LastRep(j.options) + (j.at.rep - 1)
        + (IF j.pc \in Executing /\ ~j.at.setup THEN 1 ELSE 0)

\* Where the loop is, and what it has counted on its way there.
Progress(j) ==
    IF j.at.case = 0
    THEN j.uses = 0 /\ j.treated = 0 /\ ~j.at.setup /\ j.pc # "traces"
    ELSE /\ j.at.rep \in 1 .. LastRep(j.options)
         /\ IF j.pc = "traces" THEN j.at.case = Selected(j.options) + 1 /\ j.at.rep = 1
            ELSE j.at.case <= Selected(j.options)
         /\ j.uses = Called(j)
         /\ j.treated = (j.at.case - 1) * Repetitions(j.options)
                            + AtMost(j.at.rep - 1, Repetitions(j.options))

PlannedUses(j) ==
    j.uses > 0 => /\ j.uses <= RuntimeUses(j.options)
                  /\ j.outcome = "completed" => j.uses = RuntimeUses(j.options)

\* A cancellation cut a trial short, and the loop will look at it before the
\* next: only a control run can come before that.
CutLate(j) ==
    j.cancel /\ \/ j.pc = "traces" \/ j.at.rep > Repetitions(j.options)
                \/ j.pc = "next" /\ LooksAtCancel(j.options, j.at)

Tally(j) ==
    /\ j.passed <= j.whole /\ j.whole <= j.treated
    /\ j.whole = j.treated \/ (j.whole = j.treated - 1 /\ CutLate(j))

\* An outcome that does not say that the tests failed.
WholeTests(j) ==
    \/ j.treated = 0 /\ j.outcome \in {"skipped", "unsupported"}
    \/ /\ j.treated = Selected(j.options) * Repetitions(j.options)
       /\ j.whole >= j.treated - 1 /\ j.passed <= j.whole

Reproduced(j) == j.state = "confirmed_issues" => j.treated - j.passed >= Repetitions(j.options)

Decided == {"no_confirmed_issues", "indeterminate", "confirmed_issues"}

Counted(j) ==
    /\ j.verdict = "cancelled" => j.cancel
    /\ j.pc \in Before => /\ j.uses = 0 /\ j.treated = 0 /\ j.whole = 0 /\ j.passed = 0
                         /\ j.at = Probe
    /\ j.pc \in Tests => Progress(j) /\ Tally(j)
    /\ j.pc \in Before \cup Tests => j.outcome = "none"
    /\ j.pc = "merge" => DynamicFailed(j) \/ WholeTests(j)
    /\ j.pc # "idle" => j.state = "none"
    /\ j.pc \in {"merge", "idle"} => PlannedUses(j)
    /\ j.pc = "idle" /\ j.state \in Decided => j.options \in Request /\ WholeTests(j) /\ Reproduced(j)

CInv == \A p \in Proc : Counted(job[p])

-----------------------------------------------------------------------------
(* The arithmetic of a plan                                                 *)

\* The plan and the loop compute the same numbers.
LEMMA PlanNumbers ==
    ASSUME NEW o \in Request
    PROVE  /\ Selected(o) \in Nat \ {0} /\ SelectedCount(o) = Selected(o)
           /\ \/ Repetitions(o) = 1 /\ LastRep(o) = 1 /\ RuntimeUses(o) = Selected(o)
              \/ Repetitions(o) = 3 /\ LastRep(o) = 4 /\ RuntimeUses(o) = Selected(o) * 4
              \/ Repetitions(o) = 5 /\ LastRep(o) = 6 /\ RuntimeUses(o) = Selected(o) * 6
<1>1. o.depth \in {"quick", "standard", "deep"} /\ o.cases \in Nat \ {0}
    BY DEF Request
<1>2. CASE o.depth = "quick"
    BY <1>2 DEF Selected, SelectedCount, Repetitions, LastRep, RuntimeUses, ControlRuns
<1>3. CASE o.depth = "standard"
    <2>1. CaseCount(o) \in Nat \ {0}
        BY <1>1, <1>3 DEF CaseCount
    <2> DEFINE n == AtMost(3, CaseCount(o))
    <2>2. n \in Nat \ {0}
        BY <2>1 DEF AtMost
    <2>3. Selected(o) = n /\ SelectedCount(o) = n /\ Repetitions(o) = 3 /\ ControlRuns(o) = n
        BY <1>3 DEF Selected, SelectedCount, Repetitions, ControlRuns
    <2> HIDE DEF n
    <2> QED BY <2>2, <2>3 DEF LastRep, RuntimeUses
<1>4. CASE o.depth = "deep"
    <2> DEFINE n == CaseCount(o)
    <2>1. n \in Nat \ {0}
        BY <1>1, <1>4 DEF CaseCount
    <2>2. Selected(o) = n /\ SelectedCount(o) = n /\ Repetitions(o) = 5 /\ ControlRuns(o) = n
        BY <1>4 DEF Selected, SelectedCount, Repetitions, ControlRuns
    <2> HIDE DEF n
    <2> QED BY <2>1, <2>2 DEF LastRep, RuntimeUses
<1> QED BY <1>1, <1>2, <1>3, <1>4

\* A place of the loop has never seen more calls than were planned.
LEMMA WithinPlan ==
    ASSUME NEW j \in Locals, j.options \in Request, j.pc \in Tests, Progress(j)
    PROVE  /\ j.uses <= RuntimeUses(j.options)
           /\ j.pc = "traces" => /\ j.uses = RuntimeUses(j.options)
                                 /\ j.treated = Selected(j.options) * Repetitions(j.options)
<1> DEFINE o == j.options
<1>1. /\ j.at.case \in Nat /\ j.at.rep \in Nat /\ j.at.setup \in BOOLEAN
      /\ Selected(o) \in Nat \ {0} /\ RuntimeUses(o) \in Nat
    BY PlanNumbers DEF Locals, Place
<1>2. CASE j.at.case = 0
    BY <1>1, <1>2 DEF Progress
<1>3. CASE j.at.case # 0
    <2>1. /\ j.at.rep \in 1 .. LastRep(o) /\ j.uses = Called(j)
          /\ j.treated = (j.at.case - 1) * Repetitions(o) + AtMost(j.at.rep - 1, Repetitions(o))
          /\ IF j.pc = "traces" THEN j.at.case = Selected(o) + 1 /\ j.at.rep = 1
             ELSE j.at.case <= Selected(o)
        BY <1>3 DEF Progress
    <2>2. CASE Repetitions(o) = 1 /\ LastRep(o) = 1 /\ RuntimeUses(o) = Selected(o)
        BY <1>1, <1>3, <2>1, <2>2 DEF Called, AtMost, Executing
    <2>3. CASE Repetitions(o) = 3 /\ LastRep(o) = 4 /\ RuntimeUses(o) = Selected(o) * 4
        BY <1>1, <1>3, <2>1, <2>3 DEF Called, AtMost, Executing
    <2>4. CASE Repetitions(o) = 5 /\ LastRep(o) = 6 /\ RuntimeUses(o) = Selected(o) * 6
        BY <1>1, <1>3, <2>1, <2>4 DEF Called, AtMost, Executing
    <2> QED BY <2>2, <2>3, <2>4, PlanNumbers
<1> QED BY <1>2, <1>3

\* An execution that has ended and is followed by another keeps the count.
LEMMA FurtherCounted ==
    ASSUME NEW j \in Locals, j.options \in Request, j.pc = "checked", Progress(j),
           NEW l, Further(j, l),
           l.treated = IF Kind(j.options, j.at) = "trial" THEN j.treated + 1 ELSE j.treated
    PROVE  Progress(l)
<1> DEFINE o == j.options
           c == j.at.case
           r == j.at.rep
<1>1. /\ j.at \in Place /\ c \in Nat /\ r \in Nat /\ j.at.setup \in BOOLEAN /\ o.deps \in BOOLEAN
      /\ Selected(o) \in Nat \ {0} /\ SelectedCount(o) = Selected(o) /\ j.treated \in Nat
      /\ l.at = Following(o, j.at) /\ l.uses = j.uses /\ l.options = o
      /\ l.pc \in {"next", "traces"} /\ (l.pc = "traces" <=> l.at.case > Selected(o))
    BY PlanNumbers DEF Locals, Place, Further, AllDone, Request
<1>2. CASE c = 0
    <2>1. ~j.at.setup /\ j.uses = 0 /\ j.treated = 0
        BY <1>2 DEF Progress
    <2>2. l.at = Trial(o, 1, 1) /\ l.treated = 0
        BY <1>1, <1>2, <2>1 DEF Following, Kind
    <2>3. l.at.case = 1 /\ l.at.rep = 1
        BY <2>2 DEF Trial
    <2>4. l.pc = "next"
        BY <1>1, <2>3
    <2>5. (1 - 1) * LastRep(o) = 0 /\ (1 - 1) * Repetitions(o) = 0 /\ 1 \in 1 .. LastRep(o)
          /\ AtMost(1 - 1, Repetitions(o)) = 0
        BY PlanNumbers DEF AtMost
    <2>6. Called(l) = 0
        BY <1>1, <2>3, <2>4, <2>5 DEF Called, Executing
    <2> QED BY <1>1, <2>1, <2>2, <2>3, <2>4, <2>5, <2>6 DEF Progress
<1>3. CASE c # 0 /\ j.at.setup
    <2>1. l.at = [j.at EXCEPT !.setup = FALSE] /\ l.treated = j.treated
        BY <1>1, <1>3 DEF Following, Kind
    <2>2. l.at.case = c /\ l.at.rep = r
        BY <1>1, <2>1 DEF Place
    <2> QED BY <1>1, <1>3, <2>1, <2>2 DEF Progress, Called, Executing
<1>4. CASE c # 0 /\ ~j.at.setup
    <2>1. /\ r \in 1 .. LastRep(o) /\ c <= Selected(o)
          /\ j.uses = (c - 1) * LastRep(o) + (r - 1) + 1
          /\ j.treated = (c - 1) * Repetitions(o) + AtMost(r - 1, Repetitions(o))
        BY <1>4 DEF Progress, Called, Executing
    <2>2. l.treated = IF r <= Repetitions(o) THEN j.treated + 1 ELSE j.treated
        BY <1>1, <1>4 DEF Kind
    <2>3. CASE r < LastRep(o)
        <3>1. l.at.case = c /\ l.at.rep = r + 1
            BY <1>1, <1>4, <2>3 DEF Following, Trial
        <3>2. l.pc = "next"
            BY <1>1, <2>1, <3>1
        <3>3. l.uses = Called(l)
            BY <1>1, <2>1, <3>1, <3>2, PlanNumbers DEF Called, Executing
        <3>4. l.treated = (c - 1) * Repetitions(o) + AtMost(r, Repetitions(o))
            BY <1>1, <2>1, <2>2, <2>3, PlanNumbers DEF AtMost
        <3> QED BY <1>1, <2>1, <2>3, <3>1, <3>2, <3>3, <3>4, <1>4, PlanNumbers DEF Progress
    <2>4. CASE r = LastRep(o)
        <3>1. l.at.case = c + 1 /\ l.at.rep = 1
            BY <1>1, <1>4, <2>4 DEF Following, Trial
        <3>2. l.pc = "traces" <=> c = Selected(o)
            BY <1>1, <2>1, <3>1
        <3>3. l.uses = Called(l)
            BY <1>1, <2>1, <2>4, <3>1, PlanNumbers DEF Called, Executing
        <3>4. l.treated = c * Repetitions(o)
            BY <1>1, <2>1, <2>2, <2>4, PlanNumbers DEF AtMost
        <3>5. AtMost(0, Repetitions(o)) = 0
            BY PlanNumbers DEF AtMost
        <3> QED BY <1>1, <2>1, <2>4, <3>1, <3>2, <3>3, <3>4, <3>5, <1>4, PlanNumbers DEF Progress
    <2> QED BY <2>1, <2>3, <2>4, PlanNumbers
<1> QED BY <1>1, <1>2, <1>3, <1>4

\* Of the trials the loop has counted, all but one cut short at the end are whole.
LEMMA FurtherTally ==
    ASSUME NEW j \in Locals, j.options \in Request, j.pc = "checked", Progress(j), Tally(j),
           j.verdict = "cancelled" => j.cancel,
           NEW l, Further(j, l), Tallied(j, l)
    PROVE  Tally(l)
<1> DEFINE o == j.options
           c == j.at.case
           r == j.at.rep
<1>1. /\ j.at \in Place /\ c \in Nat /\ r \in Nat /\ j.at.setup \in BOOLEAN /\ o.deps \in BOOLEAN
      /\ l.at = Following(o, j.at) /\ l.options = o /\ l.cancel = j.cancel
      /\ l.pc \in {"next", "traces"}
      /\ j.treated \in Nat /\ j.whole \in Nat /\ j.passed \in Nat /\ Repetitions(o) \in {1, 3, 5}
      /\ LastRep(o) \in {1, 4, 6} /\ Repetitions(o) <= LastRep(o) /\ LastRep(o) <= Repetitions(o) + 1
    BY PlanNumbers DEF Locals, Place, Further, Request
<1>2. \A m, n \in Nat : Trial(o, m, n).rep = n /\ Trial(o, m, n).setup = o.deps
    BY DEF Trial
<1>3. ASSUME NEW m \in Nat, NEW n \in Nat, l.at = Trial(o, m, n), j.cancel PROVE CutLate(l)
    <2>1. l.at.rep = n /\ l.at.setup = o.deps
        BY <1>2, <1>3
    <2> QED BY <1>1, <1>3, <2>1 DEF CutLate, LooksAtCancel
<1>4. CASE Kind(o, j.at) = "trial"
    <2>1. c # 0 /\ ~j.at.setup /\ r <= Repetitions(o)
        BY <1>4 DEF Kind
    <2>2. j.whole = j.treated
        BY <1>1, <2>1 DEF Tally, CutLate
    <2>3. l.at = Trial(o, c, r + 1) \/ l.at = Trial(o, c + 1, 1)
        BY <1>1, <2>1 DEF Following
    <2>4. c + 1 \in Nat /\ r + 1 \in Nat /\ 1 \in Nat
        BY <1>1
    <2>5. j.verdict = "cancelled" => CutLate(l)
        BY <1>1, <1>3, <2>3, <2>4
    <2> QED BY <1>1, <1>4, <2>2, <2>5 DEF Tally, Tallied
<1>5. CASE Kind(o, j.at) # "trial"
    <2>1. l.whole = j.whole /\ l.treated = j.treated /\ l.passed = j.passed
        BY <1>5 DEF Tallied
    <2>2. CASE j.whole = j.treated
        BY <2>1, <2>2 DEF Tally
    <2>3. CASE j.whole # j.treated
        <3>1. j.whole = j.treated - 1 /\ j.cancel /\ r > Repetitions(o)
            BY <2>3 DEF Tally, CutLate
        <3>2. CASE j.at.setup
            BY <1>1, <2>1, <3>1, <3>2 DEF Tally, CutLate, Following, Place
        <3>3. CASE ~j.at.setup
            <4>1. l.at = Trial(o, c, r + 1) \/ l.at = Trial(o, c + 1, 1)
                BY <1>1, <3>3 DEF Following
            <4>2. c + 1 \in Nat /\ r + 1 \in Nat /\ 1 \in Nat
                BY <1>1
            <4>3. CutLate(l)
                BY <1>1, <1>3, <3>1, <4>1, <4>2
            <4> QED BY <2>1, <3>1, <4>3 DEF Tally
        <3> QED BY <1>1, <3>2, <3>3
    <2> QED BY <2>2, <2>3
<1> QED BY <1>4, <1>5

-----------------------------------------------------------------------------
(* The actions                                                              *)

\* The job of p becomes l, the others stay.
LEMMA OneJob ==
    ASSUME IInv, CInv, NEW p \in Proc, NEW l, job' = [job EXCEPT ![p] = l], Counted(l)
    PROVE  CInv'
BY Own DEF CInv

\* What is known of the options and the counters of a job.
LEMMA OwnCount ==
    ASSUME IInv, CInv, NEW p \in Proc
    PROVE  /\ job[p] \in Locals /\ Counted(job[p])
           /\ job[p].pc # "idle" => job[p].options \in Request
           /\ job[p].pc \in Before \cup Tests \cup {"merge"} => PlannedUses(job[p])
<1>1. job[p] \in Locals /\ Counted(job[p]) /\ (job[p].pc # "idle" => job[p].options \in Request)
    BY Own DEF CInv, Captured
<1>2. CASE job[p].pc \in Tests
    BY <1>1, <1>2, WithinPlan DEF Counted, PlannedUses, Before, Tests
<1>3. CASE job[p].pc \in Before \cup {"merge"}
    BY <1>1, <1>3 DEF Counted, PlannedUses, Before
<1> QED BY <1>1, <1>2, <1>3

\* The check raises before anything was decided.
LEMMA RaisesCounted ==
    ASSUME IInv, CInv, NEW p \in Proc, job[p].pc \in Before \cup Tests \cup {"merge"},
           NEW state \in ResultState, Raised(p, state),
           state \in Decided => WholeTests(job[p]),
           state = "confirmed_issues" => MayConfirm(job[p])
    PROVE  CInv'
<1> DEFINE m == [job[p] EXCEPT !.pc = "idle"]
           l == [m EXCEPT !.state = state]
<1>1. /\ m \in Locals /\ m.pc = "idle" /\ m.options = job[p].options /\ m.uses = job[p].uses
      /\ m.treated = job[p].treated /\ m.outcome = job[p].outcome /\ m.whole = job[p].whole
      /\ m.passed = job[p].passed /\ m.verdict = job[p].verdict /\ m.cancel = job[p].cancel
    BY Own DEF Locals, Pc
<1>2. job' = [job EXCEPT ![p] = l]
    BY DEF Raised, Set
<1> HIDE DEF m
<1>3. /\ l.pc = "idle" /\ l.options = job[p].options /\ l.uses = job[p].uses
      /\ l.treated = job[p].treated /\ l.outcome = job[p].outcome /\ l.state = state
      /\ l.whole = job[p].whole /\ l.passed = job[p].passed /\ l.verdict = job[p].verdict
      /\ l.cancel = job[p].cancel
    BY <1>1 DEF Locals
<1> HIDE DEF l
<1>4. Counted(l)
    BY <1>3, OwnCount DEF Counted, PlannedUses, WholeTests, Reproduced, MayConfirm, Before, Tests
<1> QED BY <1>2, <1>4, OneJob

\* The tests end with an outcome.
LEMMA EndsCounted ==
    ASSUME IInv, CInv, NEW p \in Proc, job[p].pc \in {"captured", "next", "checked", "traces"},
           NEW outcome \in Outcome, Ends(p, outcome),
           outcome \in {"containment", "failed"} \/
               (outcome \in {"skipped", "unsupported"} /\ job[p].pc = "captured") \/
               (outcome = "completed" /\ job[p].pc = "traces")
    PROVE  CInv'
<1> DEFINE m == [job[p] EXCEPT !.pc = "merge"]
           l == [m EXCEPT !.outcome = outcome]
<1>1. /\ m \in Locals /\ m.pc = "merge" /\ m.options = job[p].options /\ m.uses = job[p].uses
      /\ m.treated = job[p].treated /\ m.state = job[p].state /\ m.whole = job[p].whole
      /\ m.passed = job[p].passed /\ m.verdict = job[p].verdict /\ m.cancel = job[p].cancel
    BY Own DEF Locals, Pc
<1>2. job' = [job EXCEPT ![p] = l]
    BY DEF Ends, Set
<1> HIDE DEF m
<1>3. /\ l.pc = "merge" /\ l.options = job[p].options /\ l.uses = job[p].uses
      /\ l.treated = job[p].treated /\ l.state = job[p].state /\ l.outcome = outcome
      /\ l.whole = job[p].whole /\ l.passed = job[p].passed /\ l.verdict = job[p].verdict
      /\ l.cancel = job[p].cancel
    BY <1>1 DEF Locals
<1> HIDE DEF l
<1>4. /\ job[p] \in Locals /\ Counted(job[p]) /\ job[p].options \in Request
      /\ PlannedUses(job[p])
    BY OwnCount DEF Before, Tests
<1>5. job[p].pc = "traces" => /\ job[p].uses = RuntimeUses(job[p].options)
                              /\ job[p].treated = Selected(job[p].options) * Repetitions(job[p].options)
                              /\ job[p].whole >= job[p].treated - 1 /\ job[p].passed <= job[p].whole
    BY <1>4, WithinPlan DEF Counted, Tally, Tests, Locals
<1>6. job[p].pc = "captured" => job[p].uses = 0 /\ job[p].treated = 0
    BY <1>4 DEF Counted, Before
<1>7. PlannedUses(l)
    BY <1>3, <1>4, <1>5, <1>6 DEF PlannedUses
<1>8. DynamicFailed(l) \/ WholeTests(l)
    BY <1>3, <1>5, <1>6 DEF DynamicFailed, WholeTests
<1>9. l.state = "none" /\ (l.verdict = "cancelled" => l.cancel)
    BY <1>3, <1>4 DEF Counted
<1> QED BY <1>2, <1>3, <1>7, <1>8, <1>9, OneJob DEF Counted, Before, Tests

\* A step that counts nothing: the process waits, cleans up, or is cancelled.
Same(j, l) ==
    /\ l.options = j.options /\ l.at = j.at /\ l.uses = j.uses /\ l.treated = j.treated
    /\ l.outcome = j.outcome /\ l.state = j.state /\ l.whole = j.whole /\ l.passed = j.passed
    /\ (j.cancel => l.cancel) /\ (l.verdict = "cancelled" => j.verdict = "cancelled" \/ l.cancel)
    /\ l.pc = j.pc \/ (l.pc \in Executing /\ j.pc \in Executing)

LEMMA SameCounted ==
    ASSUME IInv, CInv, NEW p \in Proc, NEW l, Same(job[p], l), job' = [job EXCEPT ![p] = l]
    PROVE  CInv'
<1>1. Counted(job[p])
    BY OwnCount
<1>2. CASE l.pc = job[p].pc
    <2>1. (Progress(job[p]) <=> Progress(l)) /\ (Tally(job[p]) => Tally(l))
        BY <1>2 DEF Same, Progress, Called, Tally, CutLate
    <2>2. Counted(l)
        BY <1>1, <1>2, <2>1 DEF Same, Counted, PlannedUses, WholeTests, Reproduced, DynamicFailed
    <2> QED BY <2>2, OneJob
<1>3. CASE l.pc \in Executing /\ job[p].pc \in Executing
    <2>1. (Progress(job[p]) <=> Progress(l)) /\ (Tally(job[p]) => Tally(l))
        BY <1>3 DEF Same, Progress, Called, Executing, Tally, CutLate
    <2>2. Counted(l)
        BY <1>1, <1>3, <2>1 DEF Same, Counted, Executing, Tests, Before
    <2> QED BY <2>2, OneJob
<1> QED BY <1>2, <1>3 DEF Same

LEMMA InitCounted == Init => CInv
BY DEF Init, CInv, Counted, Idle, Before, Tests, PlannedUses, Decided

LEMMA SubmitCounted == ASSUME IInv, CInv, NEW p \in Proc, Submit(p) PROVE CInv'
<1>1. PICK o \in setting.asks[p], t \in plans \cup {None}, s \in BOOLEAN :
        job' = [job EXCEPT ![p] =
             [Idle EXCEPT !.pc = "queued", !.options = o, !.token = t, !.substitute = s]]
    BY ZenonT(60) DEF Submit, Set
<1> DEFINE l == [Idle EXCEPT !.pc = "queued", !.options = o, !.token = t, !.substitute = s]
<1>2. /\ l.pc = "queued" /\ l.uses = 0 /\ l.treated = 0 /\ l.at = Probe /\ l.outcome = "none"
      /\ l.state = "none" /\ l.whole = 0 /\ l.passed = 0 /\ l.verdict = "none"
    BY DEF Idle
<1>3. job' = [job EXCEPT ![p] = l]
    BY <1>1
<1> HIDE DEF l
<1>4. Counted(l)
    BY <1>2 DEF Counted, Before, Tests
<1> QED BY <1>3, <1>4, OneJob

LEMMA CaptureCounted == ASSUME IInv, CInv, NEW p \in Proc, Capture(p) PROVE CInv'
<1>1. job[p].pc = "queued"
    BY DEF Capture
<1>2. CASE job[p].cancel
    <2>1. Raised(p, "cancelled")
        BY <1>2 DEF Capture, Raised, Set
    <2> QED BY <1>1, <2>1, RaisesCounted DEF ResultState, Decided, Before
<1>3. CASE ~job[p].cancel
    <2> DEFINE l == [job[p] EXCEPT !.pc = "captured", !.skill = live.skill, !.config = live.config]
    <2>1. /\ l.pc = "captured" /\ l.uses = job[p].uses /\ l.treated = job[p].treated
          /\ l.at = job[p].at /\ l.outcome = job[p].outcome /\ l.state = job[p].state
          /\ l.whole = job[p].whole /\ l.passed = job[p].passed /\ l.verdict = job[p].verdict
          /\ l.cancel = job[p].cancel
        BY Own DEF Locals
    <2>2. job' = [job EXCEPT ![p] = l]
        BY <1>3 DEF Capture, Set
    <2> HIDE DEF l
    <2>3. Counted(l)
        BY <1>1, <2>1, OwnCount DEF Counted, Before, Tests
    <2> QED BY <2>2, <2>3, OneJob
<1> QED BY <1>2, <1>3

LEMMA StaleCounted == ASSUME IInv, CInv, NEW p \in Proc, StaleOrCancelled(p) PROVE CInv'
<1>1. job[p].pc = "captured" /\ (Raised(p, "analysis_incomplete") \/ Raised(p, "cancelled"))
    BY DEF StaleOrCancelled
<1> QED BY <1>1, RaisesCounted DEF ResultState, Decided, Before

LEMMA NotRunCounted ==
    ASSUME IInv, CInv, NEW p \in Proc, Skip(p) \/ NotReady(p) \/ NoContext(p) PROVE CInv'
<1>1. /\ job[p].pc = "captured"
      /\ Ends(p, "skipped") \/ Ends(p, "unsupported") \/ Ends(p, "failed")
    BY DEF Skip, NotReady, NoContext, Plans
<1> QED BY <1>1, EndsCounted DEF Outcome

LEMMA BeginCounted == ASSUME IInv, CInv, NEW p \in Proc, Begin(p) PROVE CInv'
<1> DEFINE l == [job[p] EXCEPT !.pc = "next"]
<1>1. /\ l.pc = "next" /\ l.uses = job[p].uses /\ l.treated = job[p].treated
      /\ l.outcome = job[p].outcome /\ l.state = job[p].state /\ l.at = job[p].at
      /\ l.whole = job[p].whole /\ l.passed = job[p].passed /\ l.verdict = job[p].verdict
      /\ l.cancel = job[p].cancel
    BY Own DEF Locals
<1>2. job[p].pc = "captured" /\ job' = [job EXCEPT ![p] = l]
    BY DEF Begin, Plans, Set
<1> HIDE DEF l
<1>3. job[p].at = Probe
    BY <1>2, OwnCount DEF Counted, Before
<1>4. Progress(l) /\ Tally(l)
    BY <1>1, <1>2, <1>3, OwnCount DEF Counted, Progress, Tally, Before, Probe
<1>5. Counted(l)
    BY <1>1, <1>2, <1>4, OwnCount DEF Counted, Before, Tests
<1> QED BY <1>2, <1>5, OneJob

LEMMA MergeCounted == ASSUME IInv, CInv, NEW p \in Proc, Merge(p) PROVE CInv'
<1>1. PICK static \in {"clean", "findings", "failed"}, confirmed \in BOOLEAN :
        /\ confirmed => MayConfirm(job[p])
        /\ Set(p, [job[p] EXCEPT !.pc = "idle", !.state = MergedState(job[p], static, confirmed)])
    BY DEF Merge
<1> DEFINE state == MergedState(job[p], static, confirmed)
<1>2. /\ state \in ResultState
      /\ DynamicFailed(job[p]) => state = "analysis_incomplete"
      /\ state = "confirmed_issues" => confirmed
    BY DEF MergedState, ResultState
<1>3. Raised(p, state) /\ job[p].pc = "merge"
    BY <1>1 DEF Raised, Merge
<1> HIDE DEF state
<1>4. /\ state \in Decided => WholeTests(job[p])
      /\ state = "confirmed_issues" => MayConfirm(job[p])
    BY <1>1, <1>2, <1>3, OwnCount DEF Counted, Decided
<1> QED BY <1>2, <1>3, <1>4, RaisesCounted

LEMMA LaunchCounted == ASSUME IInv, CInv, NEW p \in Proc, Launch(p) PROVE CInv'
<1> DEFINE j == job[p]
           n == j.uses + Uses(j.options, j.at)
           m == [j EXCEPT !.pc = "running"]
           l == [m EXCEPT !.uses = n]
<1>1. j.pc = "next" /\ j \in Locals /\ j.options \in Request /\ Counted(j)
    BY OwnCount DEF Launch
<1>2. job' = [job EXCEPT ![p] = l]
    BY <1>1 DEF Launch, Launched, Set, Locals
<1>3. /\ m.pc = "running" /\ m.options = j.options /\ m.at = j.at /\ m.uses = j.uses
      /\ m.treated = j.treated /\ m.outcome = j.outcome /\ m.state = j.state /\ m \in Locals
      /\ m.whole = j.whole /\ m.passed = j.passed /\ m.verdict = j.verdict /\ m.cancel = j.cancel
    BY <1>1 DEF Locals, Pc
<1> HIDE DEF m
<1>4. n \in Nat /\ n = j.uses + (IF j.at.case # 0 /\ ~j.at.setup THEN 1 ELSE 0)
    BY <1>1 DEF Uses, Kind, Locals
<1> HIDE DEF n
<1>5. /\ l.pc = "running" /\ l.options = j.options /\ l.at = j.at /\ l.uses = n
      /\ l.treated = j.treated /\ l.outcome = j.outcome /\ l.state = j.state
      /\ l.whole = j.whole /\ l.passed = j.passed /\ l.verdict = j.verdict /\ l.cancel = j.cancel
    BY <1>3, <1>4 DEF Locals
<1> HIDE DEF l
<1>6. Progress(j) /\ j.at.case \in Nat /\ j.at.rep \in Nat
    BY <1>1 DEF Counted, Tests, Locals, Place
<1>7. Progress(l)
    <2>1. CASE j.at.case = 0
        BY <1>1, <1>4, <1>5, <1>6, <2>1 DEF Progress
    <2>2. CASE j.at.case # 0
        <3>1. j.uses = (j.at.case - 1) * LastRep(j.options) + (j.at.rep - 1)
            BY <1>1, <1>6, <2>2, PlanNumbers DEF Progress, Called, Executing
        <3>2. l.uses = Called(l)
            BY <1>1, <1>4, <1>5, <1>6, <2>2, <3>1, PlanNumbers DEF Called, Executing
        <3> QED BY <1>1, <1>5, <1>6, <2>2, <3>2 DEF Progress
    <2> QED BY <2>1, <2>2
<1>8. Tally(l)
    <2>1. Tally(j) /\ ~(j.cancel /\ LooksAtCancel(j.options, j.at))
        BY <1>1 DEF Counted, Tests, Launch
    <2> QED BY <1>1, <1>5, <2>1 DEF Tally, CutLate
<1>9. Counted(l)
    BY <1>1, <1>5, <1>7, <1>8 DEF Counted, Before, Tests
<1> QED BY <1>2, <1>9, OneJob

LEMMA GivesUpCounted ==
    ASSUME IInv, CInv, NEW p \in Proc, LaunchFails(p) \/ Unkillable(p) PROVE CInv'
<1>1. Raised(p, "internal_error") /\ job[p].pc \in Tests
    BY DEF LaunchFails, Unkillable, Tests
<1> QED BY <1>1, RaisesCounted DEF ResultState, Decided

LEMMA WaitedCounted ==
    ASSUME IInv, CInv, NEW p \in Proc, ClientExits(p) \/ ClientAlone(p) \/ Killed(p) PROVE CInv'
<1>1. PICK v \in Verdict : Waited(p, v) /\ (v = "cancelled" => job[p].cancel)
    BY DEF ClientExits, ClientAlone, Killed, Verdict
<1> DEFINE l == [job[p] EXCEPT !.pc = "waited", !.verdict = v]
<1>2. job[p].pc = "running" /\ job' = [job EXCEPT ![p] = l]
    BY <1>1 DEF ClientExits, ClientAlone, Killed, Attached, Waited, Set
<1>3. Same(job[p], l)
    BY <1>1, <1>2, Own DEF Same, Locals, Executing
<1> HIDE DEF l
<1> QED BY <1>2, <1>3, SameCounted

LEMMA CleanupCounted ==
    ASSUME IInv, CInv, NEW p \in Proc, Remove(p) \/ LeakCheck(p) \/ CleanupUnknown(p) \/ Cancel(p)
    PROVE  CInv'
<1>1. CASE Remove(p)
    <2> DEFINE l == [job[p] EXCEPT !.pc = "removed"]
    <2>1. Same(job[p], l) /\ job' = [job EXCEPT ![p] = l]
        BY <1>1, Own DEF Remove, Set, Same, Locals, Executing
    <2> QED BY <2>1, SameCounted
<1>2. CASE LeakCheck(p)
    <2>1. PICK k \in Leak : job' = [job EXCEPT ![p] = [job[p] EXCEPT !.pc = "checked", !.leak = k]]
        BY <1>2 DEF LeakCheck, Set, Leak
    <2>2. Same(job[p], [job[p] EXCEPT !.pc = "checked", !.leak = k])
        BY <1>2, Own DEF LeakCheck, Same, Locals, Executing
    <2> QED BY <2>1, <2>2, SameCounted
<1>3. CASE CleanupUnknown(p)
    <2> DEFINE l == [job[p] EXCEPT !.pc = "checked", !.leak = "unknown", !.unsure = TRUE]
    <2>1. Same(job[p], l) /\ job' = [job EXCEPT ![p] = l]
        BY <1>3, Own DEF CleanupUnknown, Set, Same, Locals, Executing
    <2> QED BY <2>1, SameCounted
<1>4. CASE Cancel(p)
    <2> DEFINE l == [job[p] EXCEPT !.cancel = TRUE]
    <2>1. Same(job[p], l) /\ job' = [job EXCEPT ![p] = l]
        BY <1>4, Own DEF Cancel, Set, Same, Locals
    <2> QED BY <2>1, SameCounted
<1> QED BY <1>1, <1>2, <1>3, <1>4

LEMMA RecordCounted == ASSUME IInv, CInv, NEW p \in Proc, Record(p) PROVE CInv'
<1>1. job[p].pc = "checked" /\ job[p] \in Locals /\ job[p].options \in Request /\ Counted(job[p])
    BY OwnCount DEF Record
<1>2. CASE Ends(p, "failed") \/ Ends(p, "containment")
    BY <1>1, <1>2, EndsCounted DEF Outcome
<1>3. ASSUME NEW l, Further(job[p], l), Tallied(job[p], l), job' = [job EXCEPT ![p] = l]
      PROVE  CInv'
    <2>1. Progress(l)
        BY <1>1, <1>3, FurtherCounted DEF Counted, Tallied, Tests
    <2>2. Tally(l)
        BY <1>1, <1>3, FurtherTally DEF Counted, Tests
    <2>3. Counted(l)
        BY <1>1, <1>3, <2>1, <2>2 DEF Counted, Further, Before, Tests
    <2> QED BY <1>3, <2>3, OneJob
<1> QED BY <1>2, <1>3, RecordStep

LEMMA TracesCounted == ASSUME IInv, CInv, NEW p \in Proc, PersistTraces(p) PROVE CInv'
<1>1. /\ job[p].pc = "traces"
      /\ Ends(p, "completed") \/ Raised(p, "analysis_incomplete")
    BY DEF PersistTraces
<1> QED BY <1>1, EndsCounted, RaisesCounted DEF Outcome, ResultState, Decided, Tests

LEMMA CrashCounted == ASSUME IInv, CInv, NEW p \in Proc, Crash(p) PROVE CInv'
<1>1. Counted(Idle)
    BY DEF Counted, Idle, Before, Tests, PlannedUses, Decided
<1> QED BY <1>1, OneJob DEF Crash, Set

LEMMA NextCounted == IInv /\ CInv /\ [Next]_vars => CInv'
<1> SUFFICES ASSUME IInv, CInv, [Next]_vars PROVE CInv'
    OBVIOUS
<1>1. CASE UNCHANGED job
    BY <1>1 DEF CInv
<1>2. ASSUME NEW p \in Proc, Goes(p) PROVE CInv'
    BY <1>2, CaptureCounted, StaleCounted, NotRunCounted, BeginCounted, MergeCounted,
       LaunchCounted, WaitedCounted, CleanupCounted, RecordCounted, TracesCounted,
       EndsCounted DEF Goes, Stopped, Outcome
<1>3. ASSUME NEW p \in Proc, EngineFault(p) PROVE CInv'
    BY <1>3, NotRunCounted, GivesUpCounted, CleanupCounted DEF EngineFault
<1>4. ASSUME NEW p \in Proc, Submit(p) \/ ClientExits(p) \/ Cancel(p) \/ Crash(p) PROVE CInv'
    BY <1>4, SubmitCounted, WaitedCounted, CleanupCounted, CrashCounted
<1>5. CASE Edit \/ Creates \/ OrphanExits \/ UNCHANGED vars
    BY <1>1, <1>5 DEF Edit, Creates, OrphanExits, vars
<1> QED BY <1>2, <1>3, <1>4, <1>5 DEF Next

-----------------------------------------------------------------------------

\* The model is never called more often than the approved plan says, and a
\* completed test has called it exactly that often (plan_dynamic_tests,
\* run_dynamic_tests), for any number of cases.
THEOREM CallsArePlanned == Spec => []UsesAsPlanned
<1>1. IInv /\ CInv => UsesAsPlanned
    BY OwnCount DEF UsesAsPlanned, PlannedUses, Counted, Before, Tests, Pc, Locals
<1> QED BY <1>1, TestsInvariant, InitCounted, NextCounted, PTL DEF Spec

\* A verdict rests on every trial of the plan, or on none; a cancellation cut at
\* most the last of them short, which then did not pass, and a confirmed defect
\* was reproduced in every repetition but that one at most.
THEOREM VerdictsAreWhole == Spec => []NoPartialVerdict
<1>1. IInv /\ CInv => NoPartialVerdict
    <2> SUFFICES ASSUME IInv, CInv, NEW p \in Proc,
                        job[p].state \in {"no_confirmed_issues", "indeterminate", "confirmed_issues"}
                 PROVE  LET j == job[p] IN
                        \/ j.treated = 0 /\ j.outcome \in {"skipped", "unsupported"}
                        \/ /\ j.treated = Selected(j.options) * Repetitions(j.options)
                           /\ j.whole >= j.treated - 1 /\ j.passed <= j.whole
                           /\ j.state = "confirmed_issues" => j.whole - j.passed >= Repetitions(j.options) - 1
        BY DEF NoPartialVerdict
    <2>1. job[p] \in Locals /\ Counted(job[p])
        BY OwnCount
    <2>2. /\ job[p].pc = "idle" /\ job[p].options \in Request
          /\ WholeTests(job[p]) /\ Reproduced(job[p])
        BY <2>1 DEF Counted, Decided
    <2>3. /\ job[p].treated \in Nat /\ job[p].whole \in Nat /\ job[p].passed \in Nat
          /\ Repetitions(job[p].options) \in {1, 3, 5}
        BY <2>1, <2>2, PlanNumbers DEF Locals
    <2> QED BY <2>2, <2>3 DEF WholeTests, Reproduced
<1> QED BY <1>1, TestsInvariant, InitCounted, NextCounted, PTL DEF Spec
=============================================================================
