----------------------------- MODULE Diagnosis -----------------------------
(***************************************************************************)
(* Diagnoses one after the other in one state directory: execute_check     *)
(* (of a path), execute_discovered_check (of a selector or of everything)  *)
(* and execute_session_diagnosis.  Between them, and between their steps,  *)
(* the user edits skills and installs or removes copies, the rule set is   *)
(* updated, and suppressions are written and expire.                       *)
(*                                                                         *)
(* The tests themselves are in DynamicTests and the reading of a tree in   *)
(* SnapshotStore: here a snapshot is one step, and so are the trials.      *)
(***************************************************************************)
EXTENDS Assessment

CONSTANTS RuleFindings,  \* what a rule set finds in a content
          Unreadable,    \* contents whose static analysis has failed coverage
          Declares,      \* the name the SKILL.md of a content declares
          TitleOf,       \* the name of the directory behind a target
          Id,            \* ids of suppressions
          World,         \* instances: what may be asked, measured and changed
          Start,         \* per world, the sites and contents it starts with
          Asks, Loads,   \* per world, requests, and results of trials
          Budgets,       \* per world, budget documents that may be written
          Bounds         \* per world: checks, edits, moves, budgets, updates, notes, ticks, faults

Kind == {"path", "named", "all", "session"}

ASSUME DiagnosisAssumption ==
    /\ RuleFindings \in [Content -> [Ruleset -> SUBSET Finding]]
    /\ Unreadable \subseteq Content /\ Heavy \subseteq Content /\ Content \subseteq Nat
    /\ Declares \in [Content -> Nat] /\ TitleOf \in [Target -> Nat]
    /\ {"ASD011", "ASD600", "ASD700", "ASD701", "ASD702"} \subseteq RuleId

\* The trial that breaks containment
Leaked == [latency |-> 0, cases |-> {[id |-> 1, trials |-> 1, failed |-> 1, timedOut |-> FALSE,
                                      cancelled |-> FALSE, control |-> "none", trusted |-> TRUE]}]

ASSUME InstanceAssumption == \A w \in World :
    /\ \A a \in Asks[w] : /\ a.kind \in Kind /\ a.platform \in Platform
                          /\ a.kind = "named" => a.selector \in Selector
                          /\ a.kind = "path" => a.target \in Target
                          /\ a.context \in Context
    /\ \A s \in Start[w] : /\ DOMAIN s.site = {"disk", "claude", "codex", "budget", "context"}
                           /\ s.site.disk \in [Copy -> Target \cup {None, Broken}]
                           /\ s.site.budget \in Budget
                           /\ s.content \in [Target -> Content]
    /\ Budgets[w] \subseteq Budget
    /\ \A load \in Loads[w] : load \in Load /\ IsFiniteSet(load.cases)

VARIABLES world,
          site,         \* copies, settings, budgets: what discovery and budgets read
          content,      \* what each target holds now
          rules,        \* the effective rule set
          cache,        \* static_cache: key and analysis
          baselines,    \* performance_baselines
          files,        \* the two suppression files
          clock,
          check,        \* the diagnosis under way, or the last one
          spent,        \* of the bounds
          measured,     \* history: what was measured, in its order, which is the time
          accepted      \* history: for which inputs the user accepted a rule

vars == <<world, site, content, rules, cache, baselines, files, clock, check, spent,
          measured, accepted>>
history == <<measured, accepted>>
around == <<world, content, rules, files, clock, accepted>>

Spend(k) == /\ spent[k] < Bounds[world][k]
            /\ spent' = [spent EXCEPT ![k] = @ + 1]

Idle == [pc |-> "idle", ask |-> None, rules |-> None, inv |-> <<>>, selected |-> <<>>,
         entries |-> <<>>, failed |-> FALSE, static |-> {}, ran |-> "none",
         results |-> <<>>, performance |-> {}, findings |-> {}, suppressed |-> {},
         blocking |-> {}, state |-> "none"]

Init == /\ world \in World
        /\ \E s \in Start[world] : site = s.site /\ content = s.content
        /\ rules \in {r \in Ruleset : \A s \in Ruleset : r <= s}
        /\ cache = {} /\ baselines = {} /\ clock = 0
        /\ files = [scope \in {"user", "project"} |-> [id \in Id |-> None]]
        /\ check = Idle
        /\ spent = [k \in DOMAIN Bounds[world] |-> 0]
        /\ measured = <<>> /\ accepted = {}

-----------------------------------------------------------------------------
(* The steps of a diagnosis *)

Begin == \E a \in Asks[world] :
    /\ check.pc \in {"idle", "raised", "reported"} /\ Spend("checks")
    /\ check' = [Idle EXCEPT !.pc = IF a.kind = "path" THEN "found" ELSE "begun",
                             !.ask = a, !.rules = IF a.kind = "path" THEN None ELSE rules]
    /\ UNCHANGED <<site, cache, baselines, measured>> /\ UNCHANGED around

\* An exception: cancelled, unreadable, inconsistent.  No report is written
Raise == check' = [check EXCEPT !.pc = "raised"]

Fail == /\ check.pc \notin {"idle", "raised", "reported"} /\ Spend("faults")
        /\ Raise
        /\ UNCHANGED <<site, cache, baselines, measured>> /\ UNCHANGED around

Chosen(a, inv) ==
    CASE a.kind = "named"   -> <<CHOOSE c \in Resolve(inv, a.selector) : TRUE>>
      [] a.kind = "all"     -> InOrder(DOMAIN inv, Before)
      [] a.kind = "session" -> IF Collected(a.session)
                               THEN SessionCopies(inv, a.platform, a.session) ELSE <<>>

Find == LET a == check.ask  inv == Discover(site, a.platform) IN
    /\ check.pc = "begun"
    /\ IF a.kind = "named" /\ Resolve(inv, a.selector) = {}
       THEN Raise
       ELSE check' = [check EXCEPT !.pc = "found", !.inv = inv, !.selected = Chosen(a, inv)]
    /\ UNCHANGED <<site, cache, baselines, measured, spent>> /\ UNCHANGED around

\* Snapshots, with the content as it is now, at the places of their copies
\* among the selected.  A copy that cannot be resolved or read is a failed
\* part of the coverage
Entry(c, t) == [copy |-> c, target |-> t, content |-> content[t]]
Unresolved(c) == check.inv[c].status = "unresolved"
Reads(copies, unreadable) ==
    [i \in {k \in DOMAIN copies : ~Unresolved(copies[k]) /\ copies[k] \notin unreadable} |->
        Entry(copies[i], check.inv[copies[i]].target)]
NothingRead(copies) == copies # <<>> /\ Reads(copies, {}) = <<>>
Unread(copies) == \E i \in DOMAIN copies : Unresolved(copies[i])

ReadSnapshots ==
    /\ check.pc = "found"
    /\ check' = [check EXCEPT !.pc = "read",
              !.entries = IF check.ask.kind = "path" THEN <<Entry(None, check.ask.target)>>
                          ELSE Reads(check.selected, {}),
              !.failed = \/ Unread(check.selected)
                         \/ check.ask.kind = "session" /\ ~Collected(check.ask.session)]
        /\ UNCHANGED <<site, cache, baselines, measured, spent>> /\ UNCHANGED around

ReadFails == \E c \in ToSet(check.selected) :
    /\ check.pc = "found" /\ Spend("faults")
    /\ check' = [check EXCEPT !.pc = "read", !.failed = TRUE,
                    !.entries = Reads(check.selected, {c})]
    /\ UNCHANGED <<site, cache, baselines, measured>> /\ UNCHANGED around

\* analyze, with the declarative rules of the active pack
Analysis(c, title, ruleset) ==
    [findings |-> RuleFindings[c][ruleset]
                    \cup Where(Declares[c] # title, Found("ASD011", "medium", "high", <<c>>, 1)),
     failed |-> c \in Unreadable]

KeyOfContent(c, title, ruleset) == <<c>>
CacheKey(c, title, ruleset) == <<c, title, ruleset>>

Analyzed(c, title, ruleset) ==
    LET hits == {row \in cache : row.key = CacheKey(c, title, ruleset)}
    IN  IF hits = {} THEN Analysis(c, title, ruleset) ELSE (CHOOSE row \in hits : TRUE).analysis

\* Equal contents are one group, analyzed as the first of its copies; the
\* copies of a group are verified before the next group is analyzed
ContentsOf(es) == {es[i].content : i \in DOMAIN es}
FirstOf(es, c) == Min({j \in DOMAIN es : es[j].content = c})
Stale(es, i) == content[es[i].target] # es[i].content
AnalyzedOnce(es) == {c \in ContentsOf(es) :
    \A j \in DOMAIN es : Stale(es, j) => FirstOf(es, c) <= FirstOf(es, es[j].content)}

\* _effective_ruleset (of a path), _analyze_snapshot, verify_snapshot
Analyze ==
    LET es == check.entries
        ruleset == IF check.ask.kind = "path" THEN rules ELSE check.rules
        row(c) == LET title == TitleOf[es[FirstOf(es, c)].target] IN
                  [key |-> CacheKey(c, title, ruleset), analysis |-> Analyzed(c, title, ruleset)]
        rows == {row(c) : c \in AnalyzedOnce(es)}
    IN
    /\ check.pc = "read"
    /\ cache' = cache \cup rows
    /\ IF \E i \in DOMAIN es : Stale(es, i)
       THEN Raise
       ELSE check' = [check EXCEPT !.pc = "analyzed", !.rules = ruleset,
                         !.static = UNION {r.analysis.findings : r \in rows},
                         !.failed = @ \/ \E r \in rows : r.analysis.failed]
    /\ UNCHANGED <<site, baselines, measured, spent>> /\ UNCHANGED around

\* orchestrate_dynamic: not asked, a plan only, or results for the copies in
\* the order of their contents; where a test fails, for those before it, and
\* for the one trial that broke containment
NameOf(e) == IF e.copy = None THEN TitleOf[e.target] ELSE e.copy.name
Earlier(es, i, j) == \/ FirstOf(es, es[i].content) < FirstOf(es, es[j].content)
                     \/ es[i].content = es[j].content /\ i < j
Grouped(es) == InOrder(DOMAIN es, LAMBDA i, j : Earlier(es, i, j))
Result(e, context, load) ==
    [name |-> NameOf(e), content |-> e.content, context |-> context, load |-> load]
Leak(e) == Result(e, None, Leaked)

Outcome(ran, results) ==
    /\ check' = [check EXCEPT !.pc = "tested", !.ran = ran, !.results = results,
                              !.failed = @ \/ ran = "failed"]
    /\ UNCHANGED <<site, cache, baselines, measured>> /\ UNCHANGED around

Test ==
    LET es == check.entries
        order == Grouped(es)
        context == check.ask.context
    IN
    /\ check.pc = "analyzed"
    /\ \/ ~check.ask.dynamic /\ Outcome("none", <<>>) /\ UNCHANGED spent
       \/ check.ask.dynamic /\ Outcome("skipped", <<>>) /\ UNCHANGED spent
       \/ \E load \in [DOMAIN order -> Loads[world]] :
           LET results == [i \in DOMAIN order |-> Result(es[order[i]], context, load[i])] IN
           /\ check.ask.dynamic /\ es # <<>>
           /\ \/ Outcome("done", results) /\ UNCHANGED spent
              \/ \E i \in DOMAIN order : \E tail \in {<<>>, <<Leak(es[order[i]])>>} :
                    /\ Outcome("failed", SubSeq(results, 1, i - 1) \o tail)
                    /\ Spend("faults")

\* analyze_performance; the rows are committed one by one
Contents(ch) == ContentsOf(ch.entries)
Measure ==
    LET rs == check.results
        now == Len(measured)
        controlled == check.ask.controlled /\ rs # <<>>
    IN
    /\ check.pc = "tested"
    /\ check' = [check EXCEPT !.pc = "measured",
           !.performance = Performance(baselines, site, Contents(check), rs, now, check.rules,
                                          controlled)]
    /\ baselines' = baselines \cup Recorded(site, rs, now, Len(rs), check.rules, controlled)
    /\ measured' = measured \o
          [i \in DOMAIN rs |-> [result |-> rs[i], rules |-> check.rules, budget |-> site.budget,
                                controlled |-> controlled]]
    /\ UNCHANGED <<site, cache, spent>> /\ UNCHANGED around

-----------------------------------------------------------------------------
(* The report *)

\* The hash a suppression is bound to: of the snapshot, or of the inventory,
\* the snapshots and what the session named
Hash(ch) == [contents |-> Contents(ch), inv |-> ch.inv, session |-> ch.ask.session]

Targets(ch) == SessionCopies(ch.inv, ch.ask.platform, ch.ask.session)
Unresolvable(ch) == Unmapped(ch.inv, ch.ask.platform, ch.ask.session)
Prompted(ch) == Targets(ch) = <<>> /\ Unresolvable(ch) = {}
                /\ TriggerCandidates(ch.inv, ch.ask.session) # {}

\* _quick_hypotheses, as categories
Leads(ch) == Where(ShowsErrors(ch.ask.platform, ch.ask.session), "runtime")
             \cup Where(ch.static # {}, "skill")
             \cup Where(Unresolvable(ch) # {}, "configuration")
             \cup Where(Prompted(ch), "trigger")
Hypotheses(ch) ==
    IF ch.ask.kind # "session" THEN {}
    ELSE IF ~Collected(ch.ask.session) THEN {"missing_evidence"}
    ELSE IF Leads(ch) # {} THEN Leads(ch)
    ELSE IF Targets(ch) # <<>> THEN {"indeterminate"} ELSE {"missing_evidence"}

AllFindings(ch) == ch.static \cup ch.performance \cup CausalFindings(ch.results)

\* What the three functions make of coverage, findings, trials and hypotheses
State == {"no_confirmed_issues", "indeterminate", "confirmed_issues", "analysis_incomplete"}
ResultState(ch) ==
    IF ch.failed THEN "analysis_incomplete"
    ELSE IF CausalFindings(ch.results) # {} THEN "confirmed_issues"
    ELSE IF AllFindings(ch) = {} /\ ch.results = <<>> /\ Hypotheses(ch) = {}
    THEN "no_confirmed_issues" ELSE "indeterminate"

Conclude ==
    LET found == AllFindings(check)
        suppressed == Suppressed(files, found, Hash(check), check.rules, clock)
    IN
    /\ check.pc = "measured"
    /\ check' = [check EXCEPT !.pc = "reported", !.findings = found,
                    !.suppressed = suppressed, !.blocking = Blocking(found, suppressed),
                    !.state = ResultState(check)]
    /\ UNCHANGED <<site, cache, baselines, measured, spent>> /\ UNCHANGED around

Exit(ch) == IF ch.pc = "raised" \/ ch.state = "analysis_incomplete" THEN 2
            ELSE IF ch.blocking # {} THEN 1 ELSE 0

-----------------------------------------------------------------------------
(* Around it *)

EditSkill == \E t \in Target, c \in Content :
    /\ c # content[t] /\ Spend("edits")
    /\ content' = [content EXCEPT ![t] = c]
    /\ UNCHANGED <<world, site, rules, cache, baselines, files, clock, check>> /\ UNCHANGED history

\* A copy is installed, removed, or linked to another target
Move == \E c \in Copy, t \in Target \cup {None} :
    /\ t # site.disk[c] /\ Spend("moves")
    /\ site' = [site EXCEPT !.disk[c] = t]
    /\ UNCHANGED <<world, content, rules, cache, baselines, files, clock, check>> /\ UNCHANGED history

\* A budget document is edited
EditBudget == \E budget \in Budgets[world] :
    /\ budget # site.budget /\ Spend("budgets")
    /\ site' = [site EXCEPT !.budget = budget]
    /\ UNCHANGED <<world, content, rules, cache, baselines, files, clock, check>> /\ UNCHANGED history

\* A pack is installed, rolled back or revoked
UpdateRules == \E r \in Ruleset :
    /\ r # rules /\ Spend("updates")
    /\ rules' = r
    /\ UNCHANGED <<world, site, content, cache, baselines, files, clock, check>> /\ UNCHANGED history

\* The user accepts a finding of the last report, or its whole rule, until
\* the next tick
Accept == \E f \in check.findings, scope \in {"user", "project"}, id \in Id, wide \in BOOLEAN :
    LET about == IF wide THEN None ELSE f.about IN
    /\ check.pc = "reported" /\ Spend("notes")
    /\ files' = [files EXCEPT ![scope][id] =
                    [rule |-> f.rule, about |-> about, hash |-> Hash(check),
                     rules |-> check.rules, expires |-> clock + 1]]
    /\ accepted' = accepted \cup
          {[rule |-> f.rule, about |-> about, contents |-> Contents(check), inv |-> check.inv,
            rules |-> check.rules, expires |-> clock + 1]}
    /\ UNCHANGED <<world, site, content, rules, cache, baselines, clock, check, measured>>

Tick == /\ Spend("ticks")
        /\ clock' = clock + 1
        /\ UNCHANGED <<world, site, content, rules, cache, baselines, files, check>>
        /\ UNCHANGED history

Next == \/ Begin \/ Find \/ ReadSnapshots \/ ReadFails \/ Analyze \/ Test \/ Measure \/ Conclude \/ Fail
        \/ EditSkill \/ Move \/ EditBudget \/ UpdateRules \/ Accept \/ Tick

Spec == Init /\ [][Next]_vars
=============================================================================
