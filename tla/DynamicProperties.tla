------------------------- MODULE DynamicProperties -------------------------
(* What the dynamic tests promise: consent, bounds, isolation, and an end. *)
EXTENDS DynamicTests

TypeOK ==
    /\ live \in [skill : Content, config : Content]
    /\ plans \subseteq Plan
    /\ setting \in Settings
    /\ jobs \in [Proc -> 0 .. setting.jobs] /\ edits \in 0 .. setting.edits /\ faults \in 0 .. setting.faults
    /\ \A p \in Proc : LET j == job[p] IN
        /\ j.pc \in Pc /\ j.verdict \in Verdict /\ j.leak \in Leak /\ j.outcome \in Outcome
        /\ j.state \in ResultState \cup {"none"}
        /\ j.options \in Request \cup {None} /\ j.at \in Place
        /\ j.token \in Plan \cup {None}
        /\ {j.skill, j.config} \subseteq Content \cup {None}
        /\ {j.substitute, j.cancel, j.unsure} \subseteq BOOLEAN
        /\ {j.uses, j.passed, j.treated, j.whole} \subseteq Nat
    /\ \A c \in requests \cup containers : /\ c.id.proc \in Proc /\ c.ran \in Plan
                                           /\ c.left \in {"no", "late", "refused"}

\* Whatever was edited since the plan was shown, a container runs exactly what
\* the user approved: the skill mounted, the configuration and every option
\* are those of a plan that was reported (dynamic_orchestration.py, the token).
OnlyApprovedRuns ==
    \A c \in requests \cup containers : c.ran = c.approved /\ c.ran \in plans

\* The model is never called more often than the approved plan says, and a
\* completed test has called it exactly that often: the plan's arithmetic
\* (plan_dynamic_tests) agrees with the loop (run_dynamic_tests).
UsesAsPlanned ==
    \A p \in Proc : LET j == job[p] IN
        j.uses > 0 => /\ j.uses <= RuntimeUses(j.options)
                      /\ j.outcome = "completed" => j.uses = RuntimeUses(j.options)

\* The version probe, and the installation of dependencies.
Unread(at) == at.case = 0 \/ at.setup

\* When a test ended with an outcome and every cleanup was answered, a
\* container of the check that is still there was created by the engine only
\* after its client had been killed (_cleanup_launch asks once and goes), or the
\* engine refused to remove it: then the outcome says containment, unless it is
\* the container of the version probe or of an installation, whose leak answer
\* run_dynamic_tests and _trial do not read.
LeavesNothing ==
    \A p \in Proc : job[p].pc \in {"merge", "traces"} /\ ~job[p].unsure =>
        \A c \in containers : <<c.id.proc, c.id.number>> = <<p, jobs[p]>> =>
            \/ c.left = "late"
            \/ c.left = "refused" /\ (Unread(c.id.at) \/ job[p].outcome = "containment")

\* A report that does not call the analysis incomplete has no partial tests
\* behind it: every treatment trial of the plan was made, and all but the last
\* ended by themselves or at their deadline; a cancellation can have cut short
\* only the last, after which the loop does not look at it again, and what it
\* cut is not among those that passed.  So a confirmed defect was reproduced
\* that often, or once less (run_dynamic_tests, assess_causality).
NoPartialVerdict ==
    \A p \in Proc : LET j == job[p] IN
        j.state \in {"no_confirmed_issues", "indeterminate", "confirmed_issues"} =>
            \/ j.treated = 0 /\ j.outcome \in {"skipped", "unsupported"}
            \/ /\ j.treated = Selected(j.options) * Repetitions(j.options)
               /\ j.whole >= j.treated - 1 /\ j.passed <= j.whole
               /\ j.state = "confirmed_issues" => j.whole - j.passed >= Repetitions(j.options) - 1

\* Two processes whose skills' names differ where the container's name is cut.
Distinguished(p, q) ==
    LET mine == SkillOf[p] \o <<Dash>>  its == SkillOf[q] \o <<Dash>>
    IN  \E i \in DOMAIN mine \cap DOMAIN its : i <= Kept /\ mine[i] # its[i]

\* A container a client waits for ends only by a step of its own process, or of
\* one whose skill's name is not told apart from its own in the characters a
\* container's name keeps: a cleanup, which removes by name, meets no other's.
NobodyElseEnds ==
    [][\A p \in Proc : Attached(p) /\ ~(\E c \in containers' : c.id = ExecutionOf(p))
            => \E q \in Proc : job'[q] # job[q] /\ (q = p \/ ~Distinguished(p, q))]_vars

\* Every check that starts ends: no container and no cancellation keeps a
\* process waiting for ever, whatever the engine answers.
ChecksEnd == \A p \in Proc : (job[p].pc # "idle") ~> (job[p].pc = "idle")
=============================================================================
