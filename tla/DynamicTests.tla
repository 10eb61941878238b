---------------------------- MODULE DynamicTests ----------------------------
(***************************************************************************)
(* Dynamic tests: host processes (the worker, commands run with --direct)  *)
(* check a skill by running the agent on it in containers of one shared    *)
(* container engine.  A first check answers a plan and its token; a second *)
(* one carries the token and runs trials.  A token is the SHA-256 of all   *)
(* the inputs of the plan: here, the record of those inputs.               *)
(*                                                                         *)
(* A trial is one "docker run": the process launches a client, waits for   *)
(* it (exit, deadline or cancellation), then asks the engine to remove     *)
(* the container by its NAME and to list what still bears that name.       *)
(* DYNAMIC_LOCK is left out: it belongs to one process, which runs one     *)
(* check at a time, so it is never contended.                              *)
(***************************************************************************)
EXTENDS Naturals, Sequences, FiniteSets

CONSTANTS Proc,        \* the processes that run checks
          Char,        \* what names are made of: a text is a sequence of these
          Dash, Control, Version,  \* "-", and the words control, runtime-version
          Kept,        \* how much of a job id its container's name keeps (40)
          SkillOf,     \* the name of the skill each process checks, a text
          CaseIds,     \* and the ids of its cases, in order: texts
          Content,     \* contents of a skill tree or of a configuration file
          None,
          Settings     \* bounds: what users, the engine and crashes may do, one
                       \* of these in each behaviour

ASSUME DynamicAssumption ==
    /\ SkillOf \in [Proc -> Seq(Char)] /\ CaseIds \in [Proc -> Seq(Seq(Char))]
    /\ {Dash, Control, Version} \subseteq Char /\ Kept \in Nat
    /\ None \notin Content /\ Content # {}

VARIABLES setting,      \* the bounds of this run, which never change
          live,         \* the files now: the skill trees and the configuration
          job,          \* per process, its check: request, captured inputs, progress
          requests,     \* the containers the engine was asked for and will create
          containers,   \* what the engine has, running or not
          plans,        \* the plans reported so far: what a user can approve
          faults, edits, jobs

vars == <<setting, live, job, requests, containers, plans, faults, edits, jobs>>

-----------------------------------------------------------------------------
(* The plan *)

\* A request: its depth, the authored cases of the skill, whether it installs
\* dependencies and whether some of the session's context is replaced
Request == [depth : {"quick", "standard", "deep"}, cases : Nat \ {0}, deps : BOOLEAN,
            replaced : BOOLEAN]
Plan == [skill : Content, config : Content, options : Request]

\* A setting: the requests each process may get, the plans reported by earlier
\* checks, the processes whose checks may be cancelled, the number of checks per
\* process, of edits of the files, and of engine faults and crashes
ASSUME RequestAssumption ==
    \A s \in Settings :
        s.asks \in [Proc -> SUBSET Request] /\ s.seen \subseteq Plan
        /\ s.cancels \subseteq Proc /\ {s.jobs, s.edits, s.faults} \subseteq Nat

AtMost(a, b) == IF a < b THEN a ELSE b

\* load_authored_contract or infer_contract; deep adds two adversarial cases
CaseCount(o) == IF o.depth = "deep" THEN o.cases + 2 ELSE o.cases

Selected(o) == CASE o.depth = "quick"    -> 1
                 [] o.depth = "standard" -> AtMost(3, CaseCount(o))
                 [] o.depth = "deep"     -> CaseCount(o)
Repetitions(o) == CASE o.depth = "quick" -> 1 [] o.depth = "standard" -> 3 [] o.depth = "deep" -> 5
ControlRuns(o) == IF o.depth = "quick" THEN 0 ELSE Selected(o)
RuntimeUses(o) == Selected(o) * Repetitions(o) + ControlRuns(o)

ModelPlan(j) == [skill |-> j.skill, config |-> j.config, options |-> j.options]

-----------------------------------------------------------------------------
(* The loop of run_dynamic_tests: where it is, and what comes next.  Case 0 *)
(* is the version probe; the repetition after the last is the control run;  *)
(* setup is the installation of dependencies, in the workspace of a trial.  *)

Place == [case : Nat, rep : Nat, setup : BOOLEAN]
Probe == [case |-> 0, rep |-> 0, setup |-> FALSE]

AllSelected(o) == CaseCount(o)
SelectedCount(o) == IF o.depth = "quick" THEN 1
                    ELSE IF o.depth = "standard" THEN AtMost(3, CaseCount(o))
                    ELSE CaseCount(o)

LastRep(o) == Repetitions(o) + (IF ControlRuns(o) > 0 THEN 1 ELSE 0)

Kind(o, at) == IF at.case = 0 THEN "probe" ELSE IF at.setup THEN "setup"
               ELSE IF at.rep <= Repetitions(o) THEN "trial" ELSE "control"

Trial(o, c, r) == [case |-> c, rep |-> r, setup |-> o.deps]

Following(o, at) ==
    IF at.setup THEN [at EXCEPT !.setup = FALSE]
    ELSE IF at.case > 0 /\ at.rep < LastRep(o) THEN Trial(o, at.case, at.rep + 1)
    ELSE Trial(o, at.case + 1, 1)

AllDone(o, at) == at.case > SelectedCount(o)

\* The last word of a job id; an installation has the one of its trial
Word(o, at) == IF at.rep > Repetitions(o) THEN Control ELSE at.rep
\* A case without an id of its own is told apart by its number
CaseId(p, n) == IF n \in DOMAIN CaseIds[p] THEN CaseIds[p][n] ELSE <<n>>
Suffix(p, o, at) == IF at.case = 0 THEN <<Version>>
                    ELSE CaseId(p, at.case) \o <<Dash>> \o <<Word(o, at)>>
Cut(text) == SubSeq(text, 1, AtMost(Kept, Len(text)))

NameWithoutSkill(p, o, at) == Cut(Suffix(p, o, at))

\* f"skill-doctor-{job_id[:40]}" with job_id = f"{skill}-{case}-{repetition}"
ContainerName(p, o, at) == Cut(SkillOf[p] \o <<Dash>> \o Suffix(p, o, at))

-----------------------------------------------------------------------------
(* State *)

Verdict == {"none", "pass", "fail", "exposed", "timeout", "cancelled"}
Leak == {"none", "clean", "leak", "unknown"}
Outcome == {"none", "skipped", "unsupported", "completed", "containment", "failed"}
ResultState == {"no_confirmed_issues", "indeterminate", "confirmed_issues",
                "analysis_incomplete", "cancelled", "internal_error"}
Pc == {"idle", "queued", "captured", "next", "running", "waited", "removed",
       "checked", "traces", "merge"}

Idle == [pc |-> "idle", options |-> None, token |-> None, substitute |-> FALSE,
         skill |-> None, config |-> None, cancel |-> FALSE,
         at |-> Probe, verdict |-> "none", leak |-> "none", uses |-> 0, passed |-> 0,
         treated |-> 0, whole |-> 0, unsure |-> FALSE, outcome |-> "none", state |-> "none"]

Init == /\ setting \in Settings
        /\ live \in [skill : {CHOOSE c \in Content : TRUE}, config : {CHOOSE c \in Content : TRUE}]
        /\ job = [p \in Proc |-> Idle]
        /\ requests = {} /\ containers = {}
        /\ plans = setting.seen
        /\ faults = 0 /\ edits = 0
        /\ jobs = [p \in Proc |-> 0]

Set(p, j) == job' = [job EXCEPT ![p] = j]
Spend(q) == q < setting.faults /\ faults' = q + 1

ExecutionOf(p) == [proc |-> p, number |-> jobs[p], at |-> job[p].at]
Waits(id) == job[id.proc].pc = "running" /\ id = ExecutionOf(id.proc)
Attached(p) == job[p].pc = "running" /\ \E c \in containers : c.id = ExecutionOf(p)
Asked(p) == {r \in requests : r.id = ExecutionOf(p)}
OwnName(p) == ContainerName(p, job[p].options, job[p].at)
Named(n) == {c \in containers : c.name = n}

-----------------------------------------------------------------------------
(* The check around the tests *)

\* A check with --dynamic, with the token of a plan seen before or without one
Submit(p) == \E o \in setting.asks[p], t \in plans \cup {None}, s \in BOOLEAN :
    /\ job[p].pc = "idle" /\ jobs[p] < setting.jobs
    /\ s => o.replaced
    /\ Set(p, [Idle EXCEPT !.pc = "queued", !.options = o, !.token = t, !.substitute = s])
    /\ jobs' = [jobs EXCEPT ![p] = @ + 1]
    /\ UNCHANGED <<setting, live, requests, containers, plans, faults, edits>>

\* The job starts: the options are read again, with the configuration file as
\* it is now, and the skill is snapshotted and analyzed
Capture(p) ==
    /\ job[p].pc = "queued"
    /\ Set(p, IF job[p].cancel
              THEN [job[p] EXCEPT !.pc = "idle", !.state = "cancelled"]
              ELSE [job[p] EXCEPT !.pc = "captured", !.skill = live.skill,
                                  !.config = live.config])
    /\ UNCHANGED <<setting, live, requests, containers, plans, faults, edits, jobs>>

Ends(p, outcome) == Set(p, [job[p] EXCEPT !.pc = "merge", !.outcome = outcome])
Raised(p, state) == Set(p, [job[p] EXCEPT !.pc = "idle", !.state = state])

\* verify_snapshot reads the files again, and looks at the cancellation too
StaleOrCancelled(p) ==
    /\ job[p].pc = "captured"
    /\ \/ live.skill # job[p].skill /\ Raised(p, "analysis_incomplete")
       \/ job[p].cancel /\ Raised(p, "cancelled")
    /\ UNCHANGED <<setting, live, requests, containers, plans, faults, edits, jobs>>

MismatchOfSkill(j) == j.token.skill # j.skill \/ j.token.options # j.options
Mismatch(j) == j.token # ModelPlan(j)

\* orchestrate_dynamic: the plan, which every report carries, then the early
\* returns in their order
Plans(p) == /\ job[p].pc = "captured" /\ live.skill = job[p].skill /\ ~job[p].cancel
            /\ plans' = plans \cup {ModelPlan(job[p])}
            /\ UNCHANGED <<setting, live, requests, containers, edits, jobs>>

Approved(j) == j.token # None /\ ~Mismatch(j)
Consented(j) == j.options.replaced => j.substitute

Skip(p) == /\ Plans(p)
           /\ ~Approved(job[p]) \/ ~Consented(job[p])
           /\ Ends(p, "skipped")
           /\ UNCHANGED faults

NotReady(p) == /\ Plans(p) /\ Approved(job[p]) /\ Spend(faults)
               /\ Ends(p, "unsupported")

\* _runtime_context raises: no proxy token, no exact version, a bad document
NoContext(p) == /\ Plans(p) /\ Approved(job[p]) /\ Consented(job[p]) /\ Spend(faults)
                /\ Ends(p, "failed")

Begin(p) == /\ Plans(p) /\ Approved(job[p]) /\ Consented(job[p])
            /\ Set(p, [job[p] EXCEPT !.pc = "next"])
            /\ UNCHANGED faults

\* The engine merges the outcome of the tests with the static analysis and
\* completes the job, without looking at the cancellation again.  What
\* assess_causality makes of the trials is left open where they fail.
DynamicFailed(j) == j.outcome \in {"containment", "failed"}
MayConfirm(j) == /\ Repetitions(j.options) >= 2
                 /\ j.treated - j.passed >= Repetitions(j.options)
MergedOutcome(j, static, confirmed) == j.outcome
MergedState(j, static, confirmed) ==
    IF DynamicFailed(j) \/ static = "failed" THEN "analysis_incomplete"
    ELSE IF confirmed THEN "confirmed_issues"
    ELSE IF static = "findings" \/ j.treated > 0 THEN "indeterminate"
    ELSE "no_confirmed_issues"
Merge(p) == \E static \in {"clean", "findings", "failed"}, confirmed \in BOOLEAN :
    /\ job[p].pc = "merge"
    /\ confirmed => MayConfirm(job[p])
    /\ Set(p, [job[p] EXCEPT !.pc = "idle", !.state = MergedState(job[p], static, confirmed)])
    /\ UNCHANGED <<setting, live, requests, containers, plans, faults, edits, jobs>>

-----------------------------------------------------------------------------
(* One execution in a sandbox *)

LooksOnce(o, at) == at.case = 0

\* The loop looks at the cancellation when it takes the lock and before every
\* repetition, not before the control run
LooksAtCancel(o, at) == at.case = 0 \/ (at.rep <= Repetitions(o) /\ at.setup = o.deps)

Stopped(p) == LET j == job[p] IN
    /\ j.pc = "next" /\ j.cancel /\ LooksAtCancel(j.options, j.at)
    /\ Ends(p, "failed")
    /\ UNCHANGED <<setting, live, requests, containers, plans, faults, edits, jobs>>

Uses(o, at) == IF Kind(o, at) \in {"trial", "control"} THEN 1 ELSE 0
Launched(p) == LET j == job[p] IN
    [j EXCEPT !.pc = "running", !.uses = @ + Uses(j.options, j.at)]

\* The container gets the captured bytes
Container(p) == [id |-> ExecutionOf(p), name |-> OwnName(p), ran |-> ModelPlan(job[p]),
                 approved |-> job[p].token, left |-> "no"]

Free(n) == Named(n) = {}

\* The client asks the engine for a container and waits for it.  A name in use
\* is refused, and the client then ends at once.  A slow engine answers later
LaunchSoon(p) ==
    /\ containers' = IF Free(OwnName(p)) THEN containers \cup {Container(p)} ELSE containers
    /\ UNCHANGED <<requests, faults>>
LaunchLate(p) ==
    /\ requests' = requests \cup {Container(p)} /\ Spend(faults)
    /\ UNCHANGED containers
Launch(p) == LET j == job[p] IN
    /\ j.pc = "next"
    /\ ~(j.cancel /\ LooksAtCancel(j.options, j.at))
    /\ Set(p, Launched(p))
    /\ LaunchSoon(p) \/ LaunchLate(p)
    /\ UNCHANGED <<setting, live, plans, edits, jobs>>

\* The backend is gone: SandboxUnavailable, which only the engine catches
LaunchFails(p) ==
    /\ job[p].pc = "next" /\ Spend(faults)
    /\ ~(job[p].cancel /\ LooksAtCancel(job[p].options, job[p].at))
    /\ Raised(p, "internal_error")
    /\ UNCHANGED <<setting, live, requests, containers, plans, edits, jobs>>

Waited(p, v) == Set(p, [job[p] EXCEPT !.pc = "waited", !.verdict = v])

\* The container ends by itself, and --rm removes it, or fails to
ClientExits(p) == \E v \in {"pass", "fail", "exposed"}, gone \in BOOLEAN :
    /\ Attached(p)
    /\ Waited(p, v)
    /\ containers' = {c \in containers : gone => c.id # ExecutionOf(p)}
    /\ UNCHANGED <<setting, live, requests, plans, faults, edits, jobs>>

\* The engine refused it, or it was removed under the client
ClientAlone(p) == \E v \in {"pass", "fail"} :
    /\ job[p].pc = "running" /\ ~Attached(p) /\ Asked(p) = {}
    /\ Waited(p, v)
    /\ UNCHANGED <<setting, live, requests, containers, plans, faults, edits, jobs>>

KilledIfCancelled(p) ==
    /\ job[p].pc = "running" /\ job[p].cancel
    /\ Waited(p, "cancelled")
    /\ UNCHANGED <<setting, live, requests, containers, plans, faults, edits, jobs>>

\* The client is killed, which leaves its container, or its request, to the engine
Killed(p) ==
    /\ job[p].pc = "running"
    /\ Waited(p, IF job[p].cancel THEN "cancelled" ELSE "timeout")
    /\ UNCHANGED <<setting, live, requests, containers, plans, faults, edits, jobs>>

\* It outlives both waits: TimeoutExpired passes every handler below the engine
Unkillable(p) ==
    /\ job[p].pc = "running" /\ Spend(faults)
    /\ Raised(p, "internal_error")
    /\ UNCHANGED <<setting, live, requests, containers, plans, edits, jobs>>

\* _cleanup_launch: rm --force by the name, which the engine may refuse: its
\* return code is not looked at
Refused(c) == [c EXCEPT !.left = IF @ = "late" THEN "late" ELSE "refused"]
Remove(p) ==
    /\ job[p].pc = "waited"
    /\ Set(p, [job[p] EXCEPT !.pc = "removed"])
    /\ LET mine == Named(OwnName(p)) IN
         \/ containers' = containers \ mine /\ UNCHANGED faults
         \/ /\ mine # {} /\ Spend(faults)
            /\ containers' = (containers \ mine) \cup {Refused(c) : c \in mine}
    /\ UNCHANGED <<setting, live, requests, plans, edits, jobs>>

\* then ps --all, for the name alone
LeakCheck(p) ==
    /\ job[p].pc = "removed"
    /\ Set(p, [job[p] EXCEPT !.pc = "checked",
                   !.leak = IF Named(OwnName(p)) = {} THEN "clean" ELSE "leak"])
    /\ UNCHANGED <<setting, live, requests, containers, plans, faults, edits, jobs>>

\* None: the engine cannot be called, or ps fails
CleanupUnknown(p) ==
    /\ job[p].pc \in {"waited", "removed"} /\ Spend(faults)
    /\ Set(p, [job[p] EXCEPT !.pc = "checked", !.leak = "unknown", !.unsure = TRUE])
    /\ UNCHANGED <<setting, live, requests, containers, plans, edits, jobs>>

\* Where the result of an execution goes.  Only a trial's leak is looked at,
\* and an unknown one counts as none
Advance(j) == LET at == Following(j.options, j.at) IN
    [j EXCEPT !.pc = IF AllDone(j.options, at) THEN "traces" ELSE "next", !.at = at,
              !.verdict = "none", !.leak = "none"]

ViolatesByCanary(j) == Kind(j.options, j.at) \in {"trial", "control"} /\ j.verdict = "exposed"
Violates(j) == Kind(j.options, j.at) \in {"trial", "control"}
               /\ (j.verdict = "exposed" \/ j.leak = "leak")

Record(p) == LET j == job[p]  k == Kind(j.options, j.at) IN
    /\ j.pc = "checked"
    /\ \/ k \in {"probe", "setup"} /\ j.verdict \notin {"pass", "exposed"}
          /\ Ends(p, "failed")
       \/ k \in {"probe", "setup"} /\ j.verdict \in {"pass", "exposed"}
          /\ Set(p, Advance(j))
       \/ k \in {"trial", "control"} /\ Violates(j) /\ Ends(p, "containment")
       \/ k \in {"trial", "control"} /\ ~Violates(j)
          /\ Set(p, [Advance(j) EXCEPT
                       !.treated = IF k = "trial" THEN @ + 1 ELSE @,
                       !.whole = IF k = "trial" /\ j.verdict # "cancelled" THEN @ + 1 ELSE @,
                       !.passed = IF k = "trial" /\ j.verdict = "pass" THEN @ + 1 ELSE @])
    /\ UNCHANGED <<setting, live, requests, containers, plans, faults, edits, jobs>>

\* The traces go to the artifact store; a StoreError passes to the engine
PersistTraces(p) ==
    /\ job[p].pc = "traces"
    /\ \/ Ends(p, "completed") /\ UNCHANGED faults
       \/ Raised(p, "analysis_incomplete") /\ Spend(faults)
    /\ UNCHANGED <<setting, live, requests, containers, plans, edits, jobs>>

-----------------------------------------------------------------------------
(* Around them *)

Edit == \E f \in {"skill", "config"}, c \in Content :
    /\ edits < setting.edits /\ edits' = edits + 1
    /\ c # live[f]
    /\ live' = [live EXCEPT ![f] = c]
    /\ UNCHANGED <<setting, job, requests, containers, plans, faults, jobs>>

Cancel(p) ==
    /\ p \in setting.cancels /\ job[p].pc # "idle" /\ ~job[p].cancel
    /\ Set(p, [job[p] EXCEPT !.cancel = TRUE])
    /\ UNCHANGED <<setting, live, requests, containers, plans, faults, edits, jobs>>

Crash(p) ==
    /\ job[p].pc # "idle" /\ Spend(faults)
    /\ Set(p, Idle)
    /\ UNCHANGED <<setting, live, requests, containers, plans, edits, jobs>>

\* A slow engine does what a client asked for, also when the client was killed
\* since, unless the name is in use by then
Creates == \E r \in requests :
    /\ requests' = requests \ {r}
    /\ containers' = IF ~Free(r.name) THEN containers
                     ELSE containers \cup {[r EXCEPT !.left = IF Waits(r.id) THEN "no" ELSE "late"]}
    /\ UNCHANGED <<setting, live, job, plans, faults, edits, jobs>>

\* A container nobody waits for ends by itself
OrphanExits == \E c \in containers :
    /\ ~Waits(c.id)
    /\ containers' = containers \ {c}
    /\ UNCHANGED <<setting, live, job, requests, plans, faults, edits, jobs>>

Goes(p) == \/ Capture(p) \/ StaleOrCancelled(p) \/ Skip(p) \/ Begin(p) \/ Merge(p)
           \/ Stopped(p) \/ Launch(p) \/ ClientAlone(p) \/ Killed(p)
           \/ Remove(p) \/ LeakCheck(p) \/ Record(p) \/ PersistTraces(p)

EngineFault(p) == NotReady(p) \/ NoContext(p) \/ LaunchFails(p) \/ Unkillable(p)
                  \/ CleanupUnknown(p)

Next == \/ \E p \in Proc : Submit(p) \/ Goes(p) \/ ClientExits(p) \/ EngineFault(p)
                         \/ Cancel(p) \/ Crash(p)
        \/ Edit \/ Creates \/ OrphanExits

Spec == Init /\ [][Next]_vars

\* A process goes on: its own steps, the deadline of a client among them.
\* Nothing says that a container ever ends by itself
FairSpec == Spec /\ \A p \in Proc : WF_vars(Goes(p))
=============================================================================
