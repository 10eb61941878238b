----------------------------- MODULE MCDiagnosis -----------------------------
(* Instances of DiagnosisProperties, in one run.  "claude" and "codex": one  *)
(* diagnosis of every small inventory.  "both": a check of two Codex copies  *)
(* of one name, with tests; "moved": two such checks without, a copy moved   *)
(* between.  "history": three tested checks of one skill that is edited;     *)
(* "contexts": two, in two contexts, while budgets are edited; "accepted":   *)
(* two, while the rules change and findings are accepted.                    *)
EXTENDS DiagnosisProperties, TLC

CONSTANTS t1, t2, t3, qa, qb, p

Sourced == <<"enterprise", "personal", "nested", "nested", "plugin", "personal-command",
             "repository", "user", "plugin">>
MCPlace == 1 .. 9
MCPlatformOf == [l \in MCPlace |-> IF l <= 6 THEN "claude" ELSE "codex"]
MCSourceOf == [l \in MCPlace |-> Sourced[l]]
MCDirectoryOf == 3 :> qa @@ 4 :> qb
MCPluginOf == 5 :> <<p, 1>> @@ 9 :> <<p, 1>>
MCKey == {<<p, None>>, <<p, 1>>, <<p, 2>>}

(* Content 2 loses the finding of content 1 and gains one under rules 2      *)
Static(c, r) == {Found("ASD101", "high", "high", <<c>>, 1) : x \in {y \in {1} : c = 1 \/ r = 2}}
MCRuleFindings == [c \in 1 .. 3 |-> [r \in {1, 2} |-> Static(c, r)]]
MCDeclares == [c \in 1 .. 3 |-> 1]
MCTitleOf == t1 :> 1 @@ t2 :> 1 @@ t3 :> 2

Trials(n, failed, timedOut, control, latency) ==
    [cases |-> {[id |-> 1, trials |-> n, failed |-> failed, timedOut |-> timedOut,
                 cancelled |-> FALSE, control |-> control, trusted |-> TRUE]}, latency |-> latency]
Fast == Trials(3, 0, FALSE, "passed", 1000)
Slow == Trials(3, 3, FALSE, "passed", 2000)
Once == Trials(1, 0, FALSE, "none", 2000)
Late == Trials(3, 3, TRUE, "passed", 3000)
Cut == [cases |-> {[k EXCEPT !.failed = 1, !.cancelled = TRUE, !.control = "failed"] : k \in Fast.cases},
        latency |-> 500]

AskIn(context, kind, platform, selector, session, target, dynamic, controlled) ==
    [kind |-> kind, platform |-> platform, selector |-> selector, session |-> session,
     target |-> target, dynamic |-> dynamic, controlled |-> controlled, context |-> context]
Ask(kind, platform, selector, session, target, dynamic, controlled) ==
    AskIn(1, kind, platform, selector, session, target, dynamic, controlled)
Talk(source, passages, overlap) ==
    [source |-> source, oversized |-> FALSE, passages |-> passages, overlap |-> overlap]
Words(part, says, of) == [part |-> part, says |-> says, of |-> of]
MCSorted == << <<qa, 1>>, <<qb, 1>>, <<None, 1>>, <<p, 1>>, <<qa, 2>>, <<qb, 2>>, <<None, 2>>, <<p, 2>> >>

Plain == <<None, 1>>
Named(platform, q) == Ask("named", platform, <<q, 1>>, None, None, FALSE, FALSE)
All(platform, dynamic) == Ask("all", platform, None, None, None, dynamic, dynamic)
During(platform, s) == Ask("session", platform, None, s, None, FALSE, FALSE)
PathIn(context, dynamic, controlled) ==
    AskIn(context, "path", "claude", None, None, t1, dynamic, controlled)
Path(dynamic, controlled) == PathIn(1, dynamic, controlled)

Talks(q) ==
    {Talk("matched", {Words("text", "dollar", Plain)}, {}),
     Talk("supplied", {Words("output", "slash", Plain), Words("text", "slash", <<q, 1>>),
                       Words("output", "error", Plain)}, {}),
     Talk("latest", {Words("input", "path", Plain), Words("skill", "using", <<q, 1>>)}, {}),
     Talk("latest", {}, {t1, t2}), Talk(Located(FALSE, FALSE, {}), {}, {}),
     [Talk("latest", {}, {}) EXCEPT !.oversized = TRUE]}
MCAsks == [w \in World |->
    CASE w = "claude" -> {Named("claude", q) : q \in {None, qa, qb, p}} \cup {All("claude", FALSE)}
                         \cup {During("claude", s) : s \in Talks(qa)}
      [] w = "codex"  -> {Named("codex", q) : q \in {None, p}} \cup {All("codex", FALSE)}
                         \cup {During("codex", s) : s \in Talks(p)}
      [] w = "both"   -> {All("codex", TRUE)}
      [] w = "moved"  -> {All("codex", FALSE)}
      [] w = "history" -> {Path(TRUE, TRUE), Path(TRUE, FALSE)}
      [] w = "contexts" -> {PathIn(context, TRUE, TRUE) : context \in {1, 2}}
      [] w = "accepted" -> {Path(TRUE, TRUE), Path(FALSE, FALSE)}]
MCLoads == [w \in World |-> CASE w = "both" -> {Fast, Slow} [] w = "accepted" -> {Fast, Late}
                              [] w = "contexts" -> {Fast, Slow, [Late EXCEPT !.latency = 500], Cut}
                              [] OTHER -> {Fast, Slow, Once, Cut}]
NoBudget == [i \in 1 .. 4 |-> None]
Bound(checks, edits, moves, budgets, updates, notes, ticks, faults) ==
    [checks |-> checks, edits |-> edits, moves |-> moves, budgets |-> budgets, updates |-> updates, notes |-> notes,
     ticks |-> ticks, faults |-> faults]
MCBounds == [w \in World |-> CASE w = "both" -> Bound(1, 1, 0, 0, 0, 0, 0, 1)
                               [] w = "moved" -> Bound(2, 0, 1, 0, 0, 1, 0, 0)
                               [] w = "history" -> Bound(3, 2, 0, 0, 0, 0, 0, 0)
                               [] w = "contexts" -> Bound(2, 1, 0, 1, 0, 0, 0, 0)
                               [] w = "accepted" -> Bound(2, 1, 0, 0, 1, 1, 1, 0)
                               [] w = "codex" -> Bound(1, 0, 0, 0, 0, 0, 0, 1)
                               [] OTHER -> Bound(1, 0, 0, 0, 0, 0, 0, 0)]
MCBudgets == [w \in World |-> {NoBudget, [NoBudget EXCEPT ![2] = 5000]}]

(* Sites.  The settings layers are the user's, the project's, the local one, *)
(* the managed one and its drop-ins                                          *)
Silent == [l \in Layer |-> [lock |-> None, skills |-> [s \in Selector |-> None],
                            plugins |-> [key \in Key |-> None]]]
Lock(settings, l, v) == [settings EXCEPT ![l].lock = v]
Skill(settings, l, s, v) == [settings EXCEPT ![l].skills[s] = v]
Plug(settings, l, market, v) == [settings EXCEPT ![l].plugins[<<p, market>>] = v]
Few == LET on == Plug(Silent, 1, 1, TRUE) IN
    {on, Lock(Lock(on, 2, FALSE), 5, TRUE), Skill(on, 1, Plain, FALSE), Skill(on, 2, <<qa, 1>>, FALSE)}
Settings == LET on == Plug(Silent, 1, 1, TRUE)  other == Plug(Silent, 2, 2, TRUE) IN
    Few \cup {Silent, Plug(on, 4, 1, FALSE), other, Plug(other, 1, 1, FALSE),
               Lock(Lock(on, 1, FALSE), 4, TRUE), Lock(on, 2, TRUE), Lock(Lock(on, 4, TRUE), 5, FALSE),
               Skill(Skill(on, 1, Plain, FALSE), 3, Plain, TRUE)}

Empty == [disk |-> [c \in Copy |-> None], claude |-> Silent,
          codex |-> [disabled |-> {}, plugins |-> [key \in Key |-> None]],
          budget |-> NoBudget, context |-> FALSE]
\* Up to so many copies; which target is which makes no difference
Small(places, copies) == {d \in [places -> Target \cup {None, Broken}] :
    /\ Cardinality({l \in places : d[l] # None}) \in 1 .. copies
    /\ \A l \in places : d[l] = t2 => \E k \in places : k < l /\ d[k] = t1
    /\ \A l \in places : d[l] = t3 => \E k \in places : k < l /\ d[k] = t2}
Disk(d) == [c \in Copy |-> IF c.place \in DOMAIN d /\ c.name = 1 THEN d[c.place] ELSE None]
At(l) == [place |-> l, name |-> 1]

Sites == [w \in World |->
    CASE w = "claude" -> {[Empty EXCEPT !.disk = Disk(d), !.claude = s] :
                            d \in Small(1 .. 6, 2), s \in Settings}
                        \cup {[Empty EXCEPT !.disk = Disk(d), !.claude = s] :
                                d \in Small(1 .. 6, 3), s \in Few}
      [] w = "codex" -> {[Empty EXCEPT !.disk = Disk(d), !.codex.disabled = off,
                              !.codex.plugins[<<p, 1>>] = own, !.codex.plugins[<<p, None>>] = bare] :
                            d \in Small(7 .. 9, 3), off \in SUBSET {At(7)},
                            own \in {None, TRUE}, bare \in {None, FALSE}}
      [] w \in {"both", "moved"} -> {[Empty EXCEPT !.disk = Disk(7 :> t1 @@ 8 :> t), !.context = TRUE]
                                        : t \in {t2, t3}}
      [] w \in {"history", "contexts"} -> {Empty}
      [] w = "accepted" -> {[Empty EXCEPT !.budget = bd] :
                            bd \in {NoBudget, [NoBudget EXCEPT ![1] = 1500, ![3] = Unlimited],
                                    [NoBudget EXCEPT ![2] = 1500]}}]
MCStart == [w \in World |->
    {[site |-> s, content |-> t1 :> 1 @@ t2 :> c @@ t3 :> 1] :
        s \in Sites[w], c \in IF w \in {"both", "moved"} THEN {1, 2} ELSE {2}}]
=============================================================================
