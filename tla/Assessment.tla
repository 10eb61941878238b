----------------------------- MODULE Assessment -----------------------------
(***************************************************************************)
(* What a report concludes from trials: performance against budgets and    *)
(* baselines, the causal role of the skill, and which findings block.      *)
(* Digests are the contents themselves.                                    *)
(***************************************************************************)
EXTENDS SessionTrace

CONSTANTS Content,     \* contents of a skill directory
          Ruleset,     \* versions of the effective rule set
          RuleId,      \* ids of rules: those the program names and those of rule packs
          Heavy,       \* contents over the context budget, where one is set
          Context,     \* platform, runtime, model, permission, configuration, backend
          Unlimited    \* an explicit null in a budget document

(* The trials of one case: how many ran with the skill, how many failed,     *)
(* whether one timed out or was cancelled, and the run without the skill     *)
Case == [id : Nat, trials : Nat \ {0}, failed : Nat, timedOut : BOOLEAN, cancelled : BOOLEAN,
         control : {"none", "passed", "failed"}, trusted : BOOLEAN]
(* The trials of one skill: its cases, and the median latency with the skill *)
Load == [cases : SUBSET Case, latency : Nat]

Samples(load) == MapThenSumSet(LAMBDA k : k.trials, load.cases)
TimedOut(load) == \E k \in load.cases : k.timedOut
Cancelled(load) == \E k \in load.cases : k.cancelled

\* A finding: what its id is made of, and of how many kinds its evidence is
Severity == {"info", "low", "medium", "high", "critical"}
Finding == [rule : RuleId, severity : Severity, confidence : {"low", "medium", "high"},
            about : Seq(Nat), kinds : Nat]
Found(rule, severity, confidence, about, kinds) ==
    [rule |-> rule, severity |-> severity, confidence |-> confidence,
     about |-> about, kinds |-> kinds]

-----------------------------------------------------------------------------
(* Performance: a result is the load measured on one snapshot of a skill     *)

\* User and project documents, the default of each before its skill entry
Budget == [1 .. 4 -> Nat \cup {None, Unlimited}]
LatencyLimit(site) == LastSaid(site.budget)

OverBudget(site, load) ==
    /\ LatencyLimit(site) \notin {None, Unlimited}
    /\ load.latency > LatencyLimit(site)

Series(site, r, rules) ==
    [name |-> r.name, context |-> r.context, rules |-> rules, budget |-> site.budget]

\* What becomes a baseline: failed trials do, cancelled ones do not
SteadyOrQuick(load) == ~TimedOut(load) /\ ~Cancelled(load)
Steady(load) == Samples(load) >= 3 /\ ~TimedOut(load) /\ ~Cancelled(load)

\* The rows that the first n of these results add, measured one after the
\* other from now on
Recorded(site, results, now, n, rules, controlled) ==
    {[at |-> now + i, series |-> Series(site, results[i], rules), content |-> results[i].content,
      samples |-> Samples(results[i].load), latency |-> results[i].load.latency]
        : i \in {k \in 1 .. n : controlled /\ Steady(results[k].load)}}

\* latest_performance_baseline: rows of the series for another snapshot, and
\* the latest of them, if any
ComparableOwn(rows, series, content) == {b \in rows : b.series = series}
Comparable(rows, series, content) == {b \in rows : b.series = series /\ b.content # content}
Baseline(rows, series, content) ==
    LET bs == Comparable(rows, series, content) IN {b \in bs : \A o \in bs : o.at <= b.at}

Slower(new, old) == 10 * new > 12 * old /\ new - old >= 500

Regressed(rows, site, r, rules, controlled) ==
    /\ controlled /\ Samples(r.load) >= 3
    /\ \E b \in Baseline(rows, Series(site, r, rules), r.content) :
          b.samples >= 3 /\ Slower(r.load.latency, b.latency)

Where(test, finding) == IF test THEN {finding} ELSE {}

ResultFindings(rows, site, r, rules, controlled) ==
    Where(OverBudget(site, r.load),
          Found("ASD700", "medium", IF Samples(r.load) >= 3 THEN "high" ELSE "medium",
                <<r.name, r.load.latency>>, 2))
    \cup Where(TimedOut(r.load), Found("ASD702", "high", "high", <<r.name>>, 2))
    \cup Where(Regressed(rows, site, r, rules, controlled),
               Found("ASD701", "medium", "high", <<r.name, r.content>>, 2))

\* analyze_performance: the findings, context budgets included
Performance(rows, site, contents, results, now, rules, controlled) ==
    (UNION {ResultFindings(rows \cup Recorded(site, results, now, i - 1, rules, controlled),
                           site, results[i], rules, controlled) : i \in DOMAIN results})
    \cup {Found("ASD700", "low", "medium", <<c>>, 2) :
            c \in IF site.context THEN contents \cap Heavy ELSE {}}

-----------------------------------------------------------------------------
(* Causality *)

\* Trials are grouped by the name and the content of the skill, and the case
GroupOf(r, k) == <<r.name, r.content, k.id>>
Groups(results) == UNION {{GroupOf(results[i], k) : k \in results[i].load.cases} : i \in DOMAIN results}
InGroup(results, g) == UNION {{<<i, k>> : k \in {j \in results[i].load.cases : GroupOf(results[i], j) = g}}
                                : i \in DOMAIN results}

Reproduced(runs) ==
    /\ \A r \in runs : r[2].trusted
    /\ MapThenSumSet(LAMBDA r : r[2].trials, runs) >= 2
    /\ \A r \in runs : r[2].failed = r[2].trials
Counterfactual(runs) == /\ \E r \in runs : r[2].control # "none"
                        /\ \A r \in runs : r[2].control # "failed"

CausalFindings(results) ==
    {LET runs == InGroup(results, g) IN
     Found("ASD600", IF \E r \in runs : r[2].timedOut THEN "high" ELSE "medium", "high",
           <<g[2], g[3]>>, 2)
        : g \in {h \in Groups(results) : /\ Reproduced(InGroup(results, h))
                                         /\ Counterfactual(InGroup(results, h))}}

\* Only findings with evidence of two kinds are flagged
FlaggedCause(f) == f.rule = "ASD600"
Flagged(f) == f.rule = "ASD600" \/ f.kinds >= 2

-----------------------------------------------------------------------------
(* Suppressions: entries of the user's and of the project's file, by id      *)

Entries(files) ==
    {IF files["project"][id] # None THEN files["project"][id] ELSE files["user"][id]
        : id \in DOMAIN files["user"]} \ {None}

AppliesToAnyRules(e, hash, rules, now) == now < e.expires /\ e.hash = hash
Applies(e, hash, rules, now) == now < e.expires /\ e.hash = hash /\ e.rules = rules

Matches(e, f) == f.rule = e.rule /\ (e.about = None \/ e.about = f.about)

Suppressed(files, findings, hash, rules, now) ==
    {f \in findings : \E e \in Entries(files) : Applies(e, hash, rules, now) /\ Matches(e, f)}

Blocking(findings, suppressed) ==
    {f \in findings \ suppressed : /\ Flagged(f)
                                   /\ f.severity \in {"high", "critical"}
                                   /\ f.confidence = "high"}
=============================================================================
