------------------------ MODULE DiagnosisProperties ------------------------
(***************************************************************************)
(* What a report may be trusted for: that it is about the copies the       *)
(* platform really loads, that what it leaves out makes it incomplete,     *)
(* that nothing cached or accepted under other inputs speaks in it, and    *)
(* that a regression is one.                                               *)
(***************************************************************************)
EXTENDS Diagnosis

\* Every state variable has its type; a baseline never rests on fewer than
\* three trials.  (analyze_performance, record_performance_baseline)
Row == [at : Nat, series : [name : Nat, context : Context \cup {None}, rules : Ruleset,
                               budget : Budget],
        content : Content, samples : {n \in Nat : n >= 3}, latency : Nat]
TypeOK ==
    /\ content \in [Target -> Content] /\ rules \in Ruleset /\ clock \in Nat
    /\ baselines \subseteq Row
    /\ \A row \in cache : row.analysis.findings \subseteq Finding
    /\ check.pc \in {"idle", "begun", "found", "read", "analyzed", "tested", "measured",
                     "raised", "reported"}
    /\ ToSet(check.selected) \subseteq Copy
    /\ \A c \in DOMAIN check.inv : check.inv[c].status \in Status
    /\ check.findings \subseteq Finding
    /\ check.suppressed \subseteq check.findings /\ check.blocking \subseteq check.findings
    /\ check.state \in State \cup {"none"}

-----------------------------------------------------------------------------
(* Copies *)

\* What the administrators' files say last about the lock stands: then only
\* enterprise and plugin copies are loaded, whatever the user's, the
\* project's and the local file say.  (_claude_settings, discover_claude)
LocksHold ==
    LET managed == [l \in Managed |-> site.claude[l].lock] IN
    (LayersOf(managed) # {} /\ managed[Max(LayersOf(managed))] = TRUE)
        => \A c \in DOMAIN check.inv :
              PlatformOf[c.place] = "claude" /\ check.inv[c].status = "active"
                => Source(c) \in {"enterprise", "plugin"}

\* The copies a platform can load: enabled, and the first of their target
Loadable(inv) == {c \in DOMAIN inv :
    /\ inv[c].target # Broken /\ Enabled(site, c)
    /\ \A d \in DOMAIN inv : inv[d].target = inv[c].target => ~Before(d, c)}
First(copies) == {c \in copies : \A d \in copies : ~Before(d, c)}
OfName(inv, n) == {c \in Loadable(inv) : c.name = n}

\* Codex knows a copy, a plugin's too, by its name alone, and loads one by a
\* name that no other has
EffectiveCodex(inv, q, n) ==
    IF q = None /\ Cardinality(OfName(inv, n)) = 1 THEN OfName(inv, n) ELSE {}

\* Claude knows the copies of a plugin by the plugin's name, others by their
\* own; a nested copy by its directory beside another of its name, and else by
\* its name.  It loads the first
Nested(inv, n) == {c \in OfName(inv, n) : Source(c) = "nested"}
Ordinary(inv, n) == {c \in OfName(inv, n) : Source(c) \notin {"nested", "plugin"}}
Plugged(inv, q, n) == {c \in OfName(inv, n) : Source(c) = "plugin" /\ PluginOf[c.place][1] = q}
Beside(inv, q, n) ==
    {c \in Nested(inv, n) : Ordinary(inv, n) # {} /\ DirectoryOf[c.place] = q}
EffectiveClaude(inv, q, n) ==
    IF q # None THEN First(Plugged(inv, q, n) \cup Beside(inv, q, n))
    ELSE IF Ordinary(inv, n) # {} THEN First(Ordinary(inv, n)) ELSE Nested(inv, n)

Effective(inv, platform, selector) ==
    IF platform = "codex" THEN EffectiveCodex(inv, selector[1], selector[2])
    ELSE EffectiveClaude(inv, selector[1], selector[2])

\* Nested copies of one name, and no other copy of it
Contested(inv, n) == Ordinary(inv, n) = {} /\ \E c, d \in Nested(inv, n) : c # d

\* A named check is of exactly the copy the platform loads under the name,
\* and fails where there is none; every copy a session's signals select is
\* the one the platform loads under its selector.  (Of several nested copies
\* of a name that no other copy has, the documentation keeps each and the code
\* the first: nothing is said of such names.)
\* (discover_codex, discover_claude, Inventory.resolve, _select_session_targets)
EffectiveCopy ==
    LET inv == check.inv  a == check.ask IN
    /\ /\ check.pc \notin {"idle", "begun", "raised"} /\ a.kind = "named"
       /\ ~Contested(inv, a.selector[2])
       => ToSet(check.selected) = Effective(inv, a.platform, a.selector)
    /\ check.pc # "idle" /\ a.kind = "session" =>
          \A c \in ToSet(check.selected) :
              Contested(inv, c.name) \/ Effective(inv, a.platform, inv[c].selector) = {c}

\* A report that is not incomplete has analyzed every copy it selected: none
\* was broken, unreadable or dropped on the way.
\* (_analyze_inventory_copies, _result_state)
AllAccounted ==
    check.pc = "reported" /\ check.state # "analysis_incomplete" =>
        /\ \A c \in ToSet(check.selected) : \E e \in ToSet(check.entries) : e.copy = c
        /\ Contents(check) \cap Unreadable = {}
        /\ check.ask.kind = "session" => Collected(check.ask.session)

-----------------------------------------------------------------------------
(* Inputs *)

\* The static findings of a report are those of the contents it read, under
\* the rules it names, whatever the cache holds from earlier contents and
\* rule sets.  (The finding on the directory's name is left aside: equal
\* contents are analyzed once, under the first directory.)
\* (_cache_key, _analyze_snapshot)
ReportFollowsRules ==
    check.pc \in {"analyzed", "tested", "measured", "reported"} =>
        {f \in check.static : f.rule # "ASD011"}
            = {f \in UNION {RuleFindings[c][check.rules] : c \in Contents(check)} : f.rule # "ASD011"}

\* A suppressed finding, or its rule, was accepted by the user for the same
\* contents, the same copies and the same rules, and the acceptance has not
\* expired.  (resolve_suppressions)
SuppressionLapses == [][
    Conclude => \A f \in check'.suppressed : \E a \in accepted :
        /\ a.rule = f.rule /\ a.about \in {None, f.about}
        /\ a.contents = Contents(check) /\ a.inv = check.inv /\ a.rules = check.rules
        /\ clock < a.expires]_vars

\* Exit 0 lets no timeout of a trial through that the user has not accepted
\* for these inputs.  (assess_causality, resolve_suppressions, execute_check)
GateHolds ==
    check.pc = "reported" /\ Exit(check) = 0 =>
        \A i \in DOMAIN check.results :
            TimedOut(check.results[i].load) =>
                \E a \in accepted : /\ a.rule = "ASD702"
                                    /\ a.contents = Contents(check) /\ a.rules = check.rules

\* A regression is reported exactly where the trials of a content are slower
\* by a fifth and half a second than the last controlled trials of another
\* content of the same skill in the same runtime context, under the same rules
\* and budgets, of which at least three ran and none timed out or was
\* cancelled.  (Whether they passed makes no difference: BaselinesSucceed.)
\* (analyze_performance, latest_performance_baseline)
Eligible(i, j) ==
    LET new == measured[i]  old == measured[j] IN
    /\ j < i
    /\ old.result.name = new.result.name /\ old.result.content # new.result.content
    /\ old.result.context = new.result.context
    /\ old.rules = new.rules /\ old.budget = new.budget
    /\ old.controlled /\ Samples(old.result.load) >= 3
    /\ ~TimedOut(old.result.load) /\ ~Cancelled(old.result.load)
Worse(i) == \E j \in DOMAIN measured :
    /\ Eligible(i, j) /\ \A k \in DOMAIN measured : Eligible(i, k) => k <= j
    /\ LET new == measured[i].result.load  old == measured[j].result.load IN
       /\ Samples(new) >= 3
       /\ new.latency * 10 > old.latency * 12 /\ new.latency >= old.latency + 500
RegressionIsReal ==
    check.pc \in {"measured", "reported"} =>
        LET here == Len(measured) - Len(check.results) + 1 .. Len(measured) IN
        {f.about : f \in {g \in check.performance : g.rule = "ASD701"}}
            = {<<measured[i].result.name, measured[i].result.content>>
                 : i \in {k \in here : measured[k].controlled /\ Worse(k)}}

\* What docs/PERFORMANCE.md:15-16 says of a baseline: it rests on at least three
\* trials with the skill that passed, none of them cancelled.  It does not hold:
\* trials that all failed are recorded like others.
\* (analyze_performance, record_performance_baseline)
Passed(load) == MapThenSumSet(LAMBDA k : k.trials - k.failed, load.cases)
BaselinesSucceed == \A b \in baselines :
    LET load == measured[b.at].result.load IN Passed(load) >= 3 /\ ~Cancelled(load)
=============================================================================
