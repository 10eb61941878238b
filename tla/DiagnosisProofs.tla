---------------------------- MODULE DiagnosisProofs ----------------------------
(***************************************************************************)
(* What a report may be trusted for, whatever the skills, the rules, the   *)
(* copies, the sessions and the order of the diagnoses: its findings are   *)
(* those of the contents it read, nothing it dropped leaves it complete,   *)
(* no acceptance of other inputs silences it, and a copy it is about is    *)
(* one the platform loads.                                                 *)
(***************************************************************************)
EXTENDS DiagnosisProperties, FiniteSetTheorems, SequenceTheorems, WellFoundedInduction, TLAPS

-----------------------------------------------------------------------------
(* The inductive invariant                                                  *)

Fields == {"pc", "ask", "rules", "inv", "selected", "entries", "failed", "static", "ran",
           "results", "performance", "findings", "suppressed", "blocking", "state"}
Shape == /\ DOMAIN check = Fields /\ check.failed \in BOOLEAN
         /\ DOMAIN files = {"user", "project"}
         /\ \A scope \in {"user", "project"} : DOMAIN files[scope] = Id

\* An entry of a suppression file was accepted, for what it names.
Is(a, e) == /\ a.rule = e.rule /\ a.about = e.about /\ a.contents = e.hash.contents
            /\ a.inv = e.hash.inv /\ a.rules = e.rules /\ a.expires = e.expires
FilesAccepted ==
    \A scope \in {"user", "project"}, id \in Id :
        files[scope][id] # None => \E a \in accepted : Is(a, files[scope][id])

\* A row of the cache is the analysis of what its key says.
CacheSound ==
    \A row \in cache : \E c, title, ruleset :
        row.key = <<c, title, ruleset>> /\ row.analysis = Analysis(c, title, ruleset)

\* How far a diagnosis is.
Has == [read |-> {"read", "analyzed", "tested", "measured", "reported"},
        analyzed |-> {"analyzed", "tested", "measured", "reported"},
        measured |-> {"measured", "reported"}]

\* A diagnosis ch of which no part failed has an entry for every copy.
Covers(ch) ==
    ch.pc \in Has.read /\ ~ch.failed =>
        /\ \A c \in ToSet(ch.selected) : \E e \in ToSet(ch.entries) : e.copy = c
        /\ ch.ask.kind = "session" => Collected(ch.ask.session)

Static(ch) ==
    ch.pc \in Has.analyzed =>
        /\ {f \in ch.static : f.rule # "ASD011"}
            = {f \in UNION {RuleFindings[c][ch.rules] : c \in Contents(ch)} : f.rule # "ASD011"}
        /\ ~ch.failed => Contents(ch) \cap Unreadable = {}

Timeout(r) == Found("ASD702", "high", "high", <<r.name>>, 2)
TimeoutsFound(ch) ==
    ch.pc \in Has.measured =>
        \A i \in DOMAIN ch.results :
            TimedOut(ch.results[i].load) => Timeout(ch.results[i]) \in ch.performance

\* The acceptances acc that a report goes by.
Reported(ch, acc) ==
    ch.pc = "reported" =>
        /\ ch.failed => ch.state = "analysis_incomplete"
        /\ ch.performance \subseteq ch.findings
        /\ ch.blocking = Blocking(ch.findings, ch.suppressed)
        /\ \A f \in ch.suppressed : \E a \in acc :
              a.rule = f.rule /\ a.contents = Contents(ch) /\ a.rules = ch.rules

\* A diagnosis of a path selects no copy.
PathAlone(ch) ==
    ch.pc \notin {"idle", "raised"} /\ ch.ask.kind = "path" =>
        ch.pc # "begun" /\ ToSet(ch.selected) = {}

ReportOK(ch, acc) == PathAlone(ch) /\ Covers(ch) /\ Static(ch) /\ TimeoutsFound(ch) /\ Reported(ch, acc)

IInv == Shape /\ FilesAccepted /\ CacheSound /\ ReportOK(check, accepted)

LEMMA InitIInv == Init => IInv
<1> SUFFICES ASSUME Init PROVE IInv
    OBVIOUS
<1>1. check = Idle /\ DOMAIN Idle = Fields /\ Idle.failed = FALSE /\ Idle.pc = "idle"
    BY DEF Init, Idle, Fields
<1>2. Shape
    BY <1>1 DEF Init, Shape
<1>3. FilesAccepted /\ CacheSound
    BY DEF Init, FilesAccepted, CacheSound
<1>4. ReportOK(check, accepted)
    BY <1>1 DEF ReportOK, PathAlone, Covers, Static, TimeoutsFound, Reported, Has
<1> QED BY <1>2, <1>3, <1>4 DEF IInv

-----------------------------------------------------------------------------
(* Steps                                                                    *)

\* Acceptances are never withdrawn.
LEMMA MoreAccepted ==
    ASSUME NEW ch, NEW acc, NEW more, acc \subseteq more, ReportOK(ch, acc)
    PROVE  ReportOK(ch, more)
BY DEF ReportOK, Reported

\* A diagnosis that has not reported, or was given up, promises little.
LEMMA Given ==
    ASSUME NEW ch, NEW acc, ch.pc \in {"idle", "begun", "found", "raised"}, PathAlone(ch)
    PROVE  ReportOK(ch, acc)
BY DEF ReportOK, Covers, Static, TimeoutsFound, Reported, Has

\* A step of the diagnosis to ch.
LEMMA CheckIInv ==
    ASSUME IInv, NEW ch, DOMAIN ch = Fields, ch.failed \in BOOLEAN, check' = ch,
           ReportOK(ch, accepted), UNCHANGED <<files, accepted>>, CacheSound'
    PROVE  IInv'
<1>1. Shape' /\ FilesAccepted'
    BY DEF IInv, Shape, FilesAccepted
<1> QED BY <1>1 DEF IInv

\* The world changes and the diagnosis does not see it.
LEMMA AroundIInv ==
    ASSUME IInv, UNCHANGED <<files, accepted, check, cache>>
    PROVE  IInv'
BY DEF IInv, Shape, FilesAccepted, CacheSound

LEMMA RaiseIInv ==
    ASSUME IInv, Raise, UNCHANGED <<files, accepted>>, CacheSound'
    PROVE  IInv'
<1>1. PICK ch : ch = [check EXCEPT !.pc = "raised"]
    OBVIOUS
<1>2. DOMAIN ch = Fields /\ ch.failed \in BOOLEAN /\ ch.pc = "raised"
    BY <1>1 DEF IInv, Shape, Fields
<1>3. ReportOK(ch, accepted)
    BY <1>2, Given DEF PathAlone
<1> QED BY <1>1, <1>2, <1>3, CheckIInv DEF Raise

LEMMA SameCache == ASSUME IInv, cache' = cache PROVE CacheSound'
BY DEF IInv, CacheSound

LEMMA BeginIInv == ASSUME IInv, Begin PROVE IInv'
<1>1. PICK a \in Asks[world] :
        check' = [Idle EXCEPT !.pc = IF a.kind = "path" THEN "found" ELSE "begun",
                              !.ask = a, !.rules = IF a.kind = "path" THEN None ELSE rules]
    BY DEF Begin
<1>2. DOMAIN check' = Fields /\ (check').failed = FALSE /\ (check').pc \in {"found", "begun"}
    BY <1>1 DEF Idle, Fields
<1>3. UNCHANGED <<files, accepted, cache>>
    BY DEF Begin, around
<1>4. PathAlone(check')
    BY <1>1 DEF Idle, PathAlone, ToSet
<1>5. ReportOK(check', accepted)
    BY <1>2, <1>4, Given
<1> QED BY <1>2, <1>3, <1>5, SameCache, CheckIInv

LEMMA FindIInv == ASSUME IInv, Find PROVE IInv'
<1>1. UNCHANGED <<files, accepted, cache>>
    BY DEF Find, around
<1>2. CASE Raise
    BY <1>1, <1>2, SameCache, RaiseIInv
<1>3. CASE ~Raise
    <2>1. PICK inv, sel : check' = [check EXCEPT !.pc = "found", !.inv = inv, !.selected = sel]
        BY <1>3 DEF Find
    <2>2. DOMAIN check' = Fields /\ (check').failed \in BOOLEAN /\ (check').pc = "found"
        BY <2>1 DEF IInv, Shape, Fields
    <2>3. PathAlone(check')
        <3>1. (check').ask = check.ask /\ check.ask.kind # "path"
            BY <2>1 DEF Find, IInv, Shape, Fields, ReportOK, PathAlone
        <3> QED BY <3>1 DEF PathAlone
    <2>4. ReportOK(check', accepted)
        BY <2>2, <2>3, Given
    <2> QED BY <1>1, <2>2, <2>4, SameCache, CheckIInv
<1> QED BY <1>2, <1>3

\* What was read covers the selection, if no part failed.
LEMMA ReadIInv == ASSUME IInv, ReadSnapshots \/ ReadFails PROVE IInv'
<1>1. UNCHANGED <<files, accepted, cache>> /\ check.pc = "found"
    BY DEF ReadSnapshots, ReadFails, around
<1>2. PICK ch : ch = check'
    OBVIOUS
<1>3. /\ DOMAIN ch = Fields /\ ch.pc = "read" /\ ch.ask = check.ask
      /\ ch.selected = check.selected /\ ch.failed \in BOOLEAN
    BY <1>2 DEF ReadSnapshots, ReadFails, IInv, Shape, Fields
<1>4. PathAlone(ch)
    BY <1>1, <1>3 DEF IInv, ReportOK, PathAlone
<1>5. Covers(ch)
    <2> SUFFICES ASSUME ~ch.failed
                 PROVE  /\ \A c \in ToSet(ch.selected) : \E e \in ToSet(ch.entries) : e.copy = c
                        /\ ch.ask.kind = "session" => Collected(ch.ask.session)
        BY DEF Covers
    <2>1. ReadSnapshots
        BY <1>2 DEF ReadFails, IInv, Shape, Fields
    <2>2. /\ ch.failed = (Unread(check.selected) \/
                            (check.ask.kind = "session" /\ ~Collected(check.ask.session)))
          /\ ch.entries = IF check.ask.kind = "path" THEN <<Entry(None, check.ask.target)>>
                          ELSE Reads(check.selected, {})
        BY <1>2, <2>1 DEF ReadSnapshots, IInv, Shape, Fields
    <2>3. ASSUME NEW c \in ToSet(ch.selected) PROVE \E e \in ToSet(ch.entries) : e.copy = c
        <3>1. ch.ask.kind # "path"
            BY <1>3, <1>4, <2>3 DEF PathAlone
        <3>2. PICK i \in DOMAIN check.selected : c = check.selected[i]
            BY <1>3, <2>3 DEF ToSet
        <3>3. ~Unresolved(check.selected[i])
            BY <2>2 DEF Unread
        <3>4. ch.entries = Reads(check.selected, {})
            BY <1>3, <2>2, <3>1
        <3>5. i \in DOMAIN ch.entries /\ ch.entries[i] = Entry(c, check.inv[c].target)
            BY <3>2, <3>3, <3>4 DEF Reads
        <3> QED BY <3>5 DEF ToSet, Entry
    <2> QED BY <1>3, <2>2, <2>3
<1>6. ReportOK(ch, accepted)
    BY <1>3, <1>4, <1>5 DEF ReportOK, Static, TimeoutsFound, Reported, Has
<1> QED BY <1>1, <1>2, <1>3, <1>6, SameCache, CheckIInv

\* What the cache says of a key is what the analysis would say.
LEMMA AnalyzedIs ==
    ASSUME CacheSound, NEW c, NEW title, NEW ruleset
    PROVE  Analyzed(c, title, ruleset) = Analysis(c, title, ruleset)
<1> DEFINE hits == {row \in cache : row.key = CacheKey(c, title, ruleset)}
<1>1. CASE hits = {}
    BY <1>1 DEF Analyzed
<1>2. CASE hits # {}
    <2>1. PICK row \in hits : row = CHOOSE r \in hits : TRUE
        BY <1>2
    <2>2. Analyzed(c, title, ruleset) = row.analysis
        BY <1>2, <2>1 DEF Analyzed
    <2>3. PICK c2, t2, r2 : row.key = <<c2, t2, r2>> /\ row.analysis = Analysis(c2, t2, r2)
        BY <2>1 DEF CacheSound
    <2>4. c2 = c /\ t2 = title /\ r2 = ruleset
        BY <2>1, <2>3 DEF CacheKey
    <2> QED BY <2>2, <2>3, <2>4
<1> QED BY <1>1, <1>2

LEMMA AnalyzeIInv == ASSUME IInv, Analyze PROVE IInv'
<1> DEFINE es == check.entries
           ruleset == IF check.ask.kind = "path" THEN rules ELSE check.rules
           title(c) == TitleOf[es[FirstOf(es, c)].target]
           row(c) == [key |-> CacheKey(c, title(c), ruleset),
                      analysis |-> Analyzed(c, title(c), ruleset)]
           rows == {row(c) : c \in AnalyzedOnce(es)}
<1>1. UNCHANGED <<files, accepted>> /\ check.pc = "read" /\ cache' = cache \cup rows
    BY DEF Analyze, around
<1>2. ASSUME NEW c PROVE row(c).analysis = Analysis(c, title(c), ruleset)
    BY AnalyzedIs DEF IInv
<1>3. CacheSound'
    <2> SUFFICES ASSUME NEW r \in rows
                 PROVE  \E c, t, n : r.key = <<c, t, n>> /\ r.analysis = Analysis(c, t, n)
        BY <1>1 DEF IInv, CacheSound, Analysis
    <2>1. PICK c : r = row(c)
        OBVIOUS
    <2>2. r.key = <<c, title(c), ruleset>>
        BY <2>1 DEF CacheKey
    <2> QED BY <1>2, <2>1, <2>2
<1>4. CASE \E i \in DOMAIN es : Stale(es, i)
    <2>1. Raise
        BY <1>4 DEF Analyze
    <2> QED BY <1>1, <1>3, <2>1, RaiseIInv
<1>5. CASE ~\E i \in DOMAIN es : Stale(es, i)
    <2>1. PICK ch : ch = check'
        OBVIOUS
    <2>2. check' = [check EXCEPT !.pc = "analyzed", !.rules = ruleset,
                         !.static = UNION {r.analysis.findings : r \in rows},
                         !.failed = @ \/ \E r \in rows : r.analysis.failed]
        BY <1>5 DEF Analyze
    <2> HIDE DEF rows
    <2>3. /\ DOMAIN ch = Fields /\ ch.pc = "analyzed" /\ ch.rules = ruleset
          /\ ch.static = UNION {r.analysis.findings : r \in rows}
          /\ ch.failed = (check.failed \/ \E r \in rows : r.analysis.failed)
          /\ ch.ask = check.ask /\ ch.selected = check.selected /\ ch.entries = es
        BY <2>1, <2>2 DEF IInv, Shape, Fields
    <2> USE DEF rows
    <2>4. AnalyzedOnce(es) = Contents(ch)
        BY <1>5, <2>3 DEF AnalyzedOnce, Contents
    <2>5. \A c \in Contents(ch) : \E r \in rows : r.analysis = Analysis(c, title(c), ruleset)
        BY <1>2, <2>4
    <2>6. \A r \in rows : \E c \in Contents(ch) : r.analysis = Analysis(c, title(c), ruleset)
        BY <1>2, <2>4
    <2> HIDE DEF rows, title, row
    <2>7. ASSUME NEW c, NEW t, NEW f, f.rule # "ASD011"
          PROVE  f \in Analysis(c, t, ruleset).findings <=> f \in RuleFindings[c][ruleset]
        <3>1. Found("ASD011", "medium", "high", <<c>>, 1).rule = "ASD011"
            BY DEF Found
        <3> QED BY <2>7, <3>1 DEF Analysis, Where
    <2>8. \A f : f.rule # "ASD011" =>
              (f \in ch.static <=> \E c \in Contents(ch) : f \in RuleFindings[c][ruleset])
        BY <2>3, <2>5, <2>6, <2>7
    <2>9. Static(ch)
        <3>0. \A c : Analysis(c, title(c), ruleset).failed = (c \in Unreadable)
            BY DEF Analysis
        <3>1. ~ch.failed => Contents(ch) \cap Unreadable = {}
            <4> SUFFICES ASSUME ~ch.failed, NEW c \in Contents(ch), c \in Unreadable PROVE FALSE
                OBVIOUS
            <4>1. PICK r \in rows : r.analysis = Analysis(c, title(c), ruleset)
                BY <2>5
            <4>2. r.analysis.failed
                BY <3>0, <4>1
            <4> QED BY <2>3, <4>2
        <3> QED BY <2>3, <2>8, <3>1 DEF Static
    <2>10. Covers(ch) /\ PathAlone(ch)
        BY <1>1, <2>3 DEF IInv, ReportOK, Covers, PathAlone, Has
    <2>11. ReportOK(ch, accepted)
        BY <2>3, <2>9, <2>10 DEF ReportOK, TimeoutsFound, Reported, Has
    <2>12. ch.failed \in BOOLEAN
        BY <2>3
    <2> QED BY <1>1, <1>3, <2>1, <2>3, <2>11, <2>12, CheckIInv
<1> QED BY <1>4, <1>5

LEMMA TestIInv == ASSUME IInv, Test PROVE IInv'
<1>1. PICK ran, results : Outcome(ran, results) /\ check.pc = "analyzed"
    BY DEF Test
<1>2. UNCHANGED <<files, accepted, cache>>
    BY <1>1 DEF Outcome, around
<1>3. PICK ch : ch = check'
    OBVIOUS
<1>4. /\ DOMAIN ch = Fields /\ ch.pc = "tested" /\ ch.failed = (check.failed \/ ran = "failed")
      /\ ch.ask = check.ask /\ ch.selected = check.selected /\ ch.entries = check.entries
      /\ ch.static = check.static /\ ch.rules = check.rules
    BY <1>1, <1>3 DEF Outcome, IInv, Shape, Fields
<1>5. Static(ch)
    BY <1>1, <1>4 DEF IInv, ReportOK, Static, Contents, Has
<1>6. Covers(ch) /\ PathAlone(ch)
    BY <1>1, <1>4 DEF IInv, ReportOK, Covers, PathAlone, Has
<1>7. ReportOK(ch, accepted)
    BY <1>4, <1>5, <1>6 DEF ReportOK, TimeoutsFound, Reported, Has
<1>8. ch.failed \in BOOLEAN
    BY <1>4
<1> QED BY <1>2, <1>3, <1>4, <1>7, <1>8, SameCache, CheckIInv

\* A timeout in the trials is among what the measurements find.
LEMMA TimeoutPerformance ==
    ASSUME NEW rows, NEW s, NEW contents, NEW rs, NEW now, NEW ruleset, NEW controlled,
           NEW i \in DOMAIN rs, TimedOut(rs[i].load)
    PROVE  Timeout(rs[i]) \in Performance(rows, s, contents, rs, now, ruleset, controlled)
<1> DEFINE R(j) == ResultFindings(rows \cup Recorded(s, rs, now, j - 1, ruleset, controlled),
                                  s, rs[j], ruleset, controlled)
<1>1. Timeout(rs[i]) \in R(i)
    BY DEF ResultFindings, Where, Timeout
<1> HIDE DEF R
<1>2. Timeout(rs[i]) \in UNION {R(j) : j \in DOMAIN rs}
    BY <1>1
<1> QED BY <1>2 DEF Performance, R

LEMMA MeasureIInv == ASSUME IInv, Measure PROVE IInv'
<1>1. UNCHANGED <<files, accepted, cache>> /\ check.pc = "tested"
    BY DEF Measure, around
<1>2. PICK controlled, p :
        /\ p = Performance(baselines, site, Contents(check), check.results, Len(measured),
                           check.rules, controlled)
        /\ check' = [check EXCEPT !.pc = "measured", !.performance = p]
    BY DEF Measure
<1>3. PICK ch : ch = check'
    OBVIOUS
<1>4. /\ DOMAIN ch = Fields /\ ch.pc = "measured" /\ ch.failed = check.failed
      /\ ch.ask = check.ask /\ ch.selected = check.selected /\ ch.entries = check.entries
      /\ ch.static = check.static /\ ch.rules = check.rules /\ ch.results = check.results
      /\ ch.performance = p
    BY <1>2, <1>3 DEF IInv, Shape, Fields
<1>5. Static(ch)
    BY <1>1, <1>4 DEF IInv, ReportOK, Static, Contents, Has
<1>6. Covers(ch) /\ PathAlone(ch)
    BY <1>1, <1>4 DEF IInv, ReportOK, Covers, PathAlone, Has
<1>7. TimeoutsFound(ch)
    BY <1>2, <1>4, TimeoutPerformance DEF TimeoutsFound
<1>8. ReportOK(ch, accepted)
    BY <1>4, <1>5, <1>6, <1>7 DEF ReportOK, Reported
<1>9. ch.failed \in BOOLEAN
    BY <1>4 DEF IInv, Shape
<1> QED BY <1>1, <1>3, <1>4, <1>8, <1>9, SameCache, CheckIInv

\* A finding that the two files silence, or its rule, was accepted for these
\* inputs, and the acceptance has not expired.
LEMMA SuppressedAccepted ==
    ASSUME IInv, NEW found, NEW ch, NEW f \in Suppressed(files, found, Hash(ch), ch.rules, clock)
    PROVE  \E a \in accepted : /\ a.rule = f.rule /\ a.about \in {None, f.about}
                               /\ a.contents = Contents(ch) /\ a.inv = ch.inv /\ a.rules = ch.rules
                               /\ clock < a.expires
<1>1. PICK e \in Entries(files) : Applies(e, Hash(ch), ch.rules, clock) /\ Matches(e, f)
    BY DEF Suppressed
<1>2. PICK scope \in {"user", "project"}, id \in Id : e = files[scope][id] /\ files[scope][id] # None
    BY DEF Entries, IInv, Shape
<1>3. PICK a \in accepted : Is(a, e)
    BY <1>2 DEF IInv, FilesAccepted
<1>4. e.hash.contents = Contents(ch) /\ e.hash.inv = ch.inv
    BY <1>1 DEF Applies, Hash
<1>5. e.rules = ch.rules /\ clock < e.expires /\ f.rule = e.rule /\ e.about \in {None, f.about}
    BY <1>1 DEF Applies, Matches
<1>6. /\ a.rule = f.rule /\ a.about \in {None, f.about}
      /\ a.contents = Contents(ch) /\ a.inv = ch.inv /\ a.rules = ch.rules
      /\ clock < a.expires
    BY <1>3, <1>4, <1>5 DEF Is
<1> QED BY <1>6

LEMMA ConcludeIInv == ASSUME IInv, Conclude PROVE IInv'
<1> DEFINE found == AllFindings(check)
           suppressed == Suppressed(files, found, Hash(check), check.rules, clock)
<1>1. UNCHANGED <<files, accepted, cache>> /\ check.pc = "measured"
    BY DEF Conclude, around
<1>2. check' = [check EXCEPT !.pc = "reported", !.findings = found,
                    !.suppressed = suppressed, !.blocking = Blocking(found, suppressed),
                    !.state = ResultState(check)]
    BY DEF Conclude
<1>3. PICK ch : ch = check'
    OBVIOUS
<1>4. \A f \in suppressed : \E a \in accepted :
          a.rule = f.rule /\ a.contents = Contents(check) /\ a.rules = check.rules
    BY SuppressedAccepted
<1>5. check.performance \subseteq found
    BY DEF AllFindings
<1> HIDE DEF found, suppressed
<1>6. /\ DOMAIN ch = Fields /\ ch.pc = "reported" /\ ch.failed = check.failed
      /\ ch.ask = check.ask /\ ch.selected = check.selected /\ ch.entries = check.entries
      /\ ch.static = check.static /\ ch.rules = check.rules /\ ch.results = check.results
      /\ ch.performance = check.performance /\ ch.state = ResultState(check)
      /\ ch.findings = found /\ ch.suppressed = suppressed /\ ch.blocking = Blocking(found, suppressed)
    BY <1>2, <1>3 DEF IInv, Shape, Fields
<1>7. Static(ch)
    BY <1>1, <1>6 DEF IInv, ReportOK, Static, Contents, Has
<1>8. Covers(ch) /\ PathAlone(ch) /\ TimeoutsFound(ch)
    BY <1>1, <1>6 DEF IInv, ReportOK, Covers, PathAlone, TimeoutsFound, Has
<1>9. Reported(ch, accepted)
    <2>1. ch.failed => ch.state = "analysis_incomplete"
        BY <1>6 DEF ResultState
    <2>2. Contents(ch) = Contents(check)
        BY <1>6 DEF Contents
    <2> QED BY <1>4, <1>5, <1>6, <2>1, <2>2 DEF Reported
<1>10. ReportOK(ch, accepted)
    BY <1>7, <1>8, <1>9 DEF ReportOK
<1>11. ch.failed \in BOOLEAN
    BY <1>6 DEF IInv, Shape
<1> QED BY <1>1, <1>3, <1>6, <1>10, <1>11, SameCache, CheckIInv

\* Only here an entry is written, and what it says is what is accepted.
LEMMA AcceptIInv == ASSUME IInv, Accept PROVE IInv'
<1>1. UNCHANGED <<check, cache>>
    BY DEF Accept
<1>2. PICK f \in check.findings, scope \in {"user", "project"}, id \in Id, wide \in BOOLEAN :
        LET about == IF wide THEN None ELSE f.about IN
        /\ files' = [files EXCEPT ![scope][id] =
                       [rule |-> f.rule, about |-> about, hash |-> Hash(check),
                        rules |-> check.rules, expires |-> clock + 1]]
        /\ accepted' = accepted \cup
             {[rule |-> f.rule, about |-> about, contents |-> Contents(check), inv |-> check.inv,
               rules |-> check.rules, expires |-> clock + 1]}
    BY DEF Accept
<1> DEFINE about == IF wide THEN None ELSE f.about
           e == [rule |-> f.rule, about |-> about, hash |-> Hash(check),
                 rules |-> check.rules, expires |-> clock + 1]
           a == [rule |-> f.rule, about |-> about, contents |-> Contents(check),
                 inv |-> check.inv, rules |-> check.rules, expires |-> clock + 1]
<1>0. files' = [files EXCEPT ![scope][id] = e] /\ accepted' = accepted \cup {a}
    BY <1>2
<1>3. Is(a, e)
    BY DEF Is, Hash
<1> HIDE DEF a, e
<1>4. Shape'
    BY <1>0, <1>1 DEF IInv, Shape
<1>5. FilesAccepted'
    <2> SUFFICES ASSUME NEW s \in {"user", "project"}, NEW i \in Id, files'[s][i] # None
                 PROVE  \E b \in accepted' : Is(b, files'[s][i])
        BY DEF FilesAccepted, Is
    <2>1. CASE s = scope /\ i = id
        <3>1. files'[s][i] = e
            BY <1>0, <2>1 DEF IInv, Shape
        <3> QED BY <1>0, <1>3, <3>1
    <2>2. CASE ~(s = scope /\ i = id)
        <3>1. files'[s][i] = files[s][i]
            BY <1>0, <2>2 DEF IInv, Shape
        <3> QED BY <1>0, <3>1 DEF IInv, FilesAccepted
    <2> QED BY <2>1, <2>2
<1>6. ReportOK(check, accepted')
    BY <1>0, MoreAccepted DEF IInv
<1>7. CacheSound'
    BY <1>1, SameCache
<1> QED BY <1>1, <1>4, <1>5, <1>6, <1>7 DEF IInv

LEMMA NextIInv == ASSUME IInv, [Next]_vars PROVE IInv'
<1>1. CASE Begin
    BY <1>1, BeginIInv
<1>2. CASE Find
    BY <1>2, FindIInv
<1>3. CASE ReadSnapshots \/ ReadFails
    BY <1>3, ReadIInv
<1>4. CASE Analyze
    BY <1>4, AnalyzeIInv
<1>5. CASE Test
    BY <1>5, TestIInv
<1>6. CASE Measure
    BY <1>6, MeasureIInv
<1>7. CASE Conclude
    BY <1>7, ConcludeIInv
<1>8. CASE Fail
    <2>1. Raise /\ UNCHANGED <<files, accepted, cache>>
        BY <1>8 DEF Fail, around
    <2> QED BY <2>1, SameCache, RaiseIInv
<1>9. CASE EditSkill \/ Move \/ EditBudget \/ UpdateRules \/ Tick
    <2>1. UNCHANGED <<files, accepted, check, cache>>
        BY <1>9 DEF EditSkill, Move, EditBudget, UpdateRules, Tick, history
    <2> QED BY <2>1, AroundIInv
<1>10. CASE Accept
    BY <1>10, AcceptIInv
<1>11. CASE UNCHANGED vars
    <2>1. UNCHANGED <<files, accepted, check, cache>>
        BY <1>11 DEF vars
    <2> QED BY <2>1, AroundIInv
<1> QED BY <1>1, <1>2, <1>3, <1>4, <1>5, <1>6, <1>7, <1>8, <1>9, <1>10, <1>11 DEF Next

-----------------------------------------------------------------------------
(* What a report may be trusted for                                         *)

\* What the diagnoses keep among themselves: the two suppression files hold
\* only what was accepted, a row of the cache only what its key says, and the
\* diagnosis under way what its steps so far promise.
\* (append_suppression, _analyze_snapshot, execute_check)
THEOREM DiagnosisInvariant == Spec => []IInv
<1>1. Init => IInv
    BY InitIInv
<1>2. IInv /\ [Next]_vars => IInv'
    BY NextIInv
<1> QED BY <1>1, <1>2, PTL DEF Spec

\* A report that is not incomplete has analyzed every copy it selected: none
\* was broken, unreadable or dropped on the way.
\* (_analyze_inventory_copies, _result_state)
THEOREM CompleteReportsAccount == Spec => []AllAccounted
<1>1. IInv => AllAccounted
    BY DEF IInv, Shape, ReportOK, Covers, Static, Reported, AllAccounted, Has
<1> QED BY <1>1, DiagnosisInvariant, PTL

\* The static findings of a report are those of the contents it read, under
\* the rules it names, whatever the cache holds from earlier contents and
\* rule sets.  (_cache_key, _analyze_snapshot)
THEOREM ReportsFollowRules == Spec => []ReportFollowsRules
<1>1. IInv => ReportFollowsRules
    BY DEF IInv, ReportOK, Static, ReportFollowsRules, Has
<1> QED BY <1>1, DiagnosisInvariant, PTL

\* Exit 0 lets no timeout of a trial through that the user has not accepted
\* for these inputs.  (assess_causality, resolve_suppressions, execute_check)
THEOREM TimeoutsGate == Spec => []GateHolds
<1>1. ASSUME IInv PROVE GateHolds
    <2> SUFFICES ASSUME check.pc = "reported", Exit(check) = 0,
                        NEW i \in DOMAIN check.results, TimedOut(check.results[i].load)
                 PROVE  \E a \in accepted : /\ a.rule = "ASD702"
                                            /\ a.contents = Contents(check) /\ a.rules = check.rules
        BY DEF GateHolds
    <2> DEFINE f == Timeout(check.results[i])
    <2>1. f \in check.findings
        BY <1>1 DEF IInv, ReportOK, TimeoutsFound, Reported, Has
    <2>2. f.rule = "ASD702" /\ Flagged(f) /\ f.severity = "high" /\ f.confidence = "high"
        BY DEF Timeout, Found, Flagged
    <2> HIDE DEF f
    <2>3. check.blocking = {}
        BY DEF Exit
    <2>4. f \in check.suppressed
        BY <1>1, <2>1, <2>2, <2>3 DEF IInv, ReportOK, Reported, Blocking
    <2> QED BY <1>1, <2>2, <2>4 DEF IInv, ReportOK, Reported
<1> QED BY <1>1, DiagnosisInvariant, PTL

\* A suppressed finding, or its rule, was accepted by the user for the same
\* contents, the same copies and the same rules, and the acceptance has not
\* expired.  (resolve_suppressions)
THEOREM SuppressionsLapse == Spec => SuppressionLapses
<1> DEFINE Lapses ==
        Conclude => \A f \in check'.suppressed : \E a \in accepted :
            /\ a.rule = f.rule /\ a.about \in {None, f.about}
            /\ a.contents = Contents(check) /\ a.inv = check.inv /\ a.rules = check.rules
            /\ clock < a.expires
<1>1. ASSUME IInv PROVE Lapses
    <2> SUFFICES ASSUME Conclude, NEW f \in check'.suppressed
                 PROVE  \E a \in accepted :
                            /\ a.rule = f.rule /\ a.about \in {None, f.about}
                            /\ a.contents = Contents(check) /\ a.inv = check.inv
                            /\ a.rules = check.rules /\ clock < a.expires
        OBVIOUS
    <2> DEFINE s == Suppressed(files, AllFindings(check), Hash(check), check.rules, clock)
    <2> HIDE DEF s
    <2>1. \E b, st, found : check' = [check EXCEPT !.pc = "reported", !.findings = found,
                        !.suppressed = s, !.blocking = b, !.state = st]
        BY DEF Conclude, s
    <2>2. check'.suppressed = s
        BY <1>1, <2>1 DEF IInv, Shape, Fields
    <2>3. f \in Suppressed(files, AllFindings(check), Hash(check), check.rules, clock)
        BY <2>2 DEF s
    <2> QED BY <1>1, <2>3, SuppressedAccepted
<1>2. SuppressionLapses <=> [][Lapses]_vars
    BY DEF SuppressionLapses
<1> HIDE DEF Lapses
<1> QED BY <1>1, <1>2, DiagnosisInvariant, PTL

-----------------------------------------------------------------------------
(* Discovery                                                                *)

LEMMA CopyFinite == IsFiniteSet(Copy)
<1> DEFINE f == [x \in Place \X Name |-> [place |-> x[1], name |-> x[2]]]
<1>1. IsFiniteSet(Place \X Name)
    BY PlaceAssumption, FS_Product
<1>2. f \in Surjection(Place \X Name, Copy)
    <2>1. \A c \in Copy : f[<<c.place, c.name>>] = c
        BY DEF Copy
    <2>2. \A c \in Copy : <<c.place, c.name>> \in Place \X Name
        BY DEF Copy
    <2>3. f \in [Place \X Name -> Copy]
        BY DEF Copy
    <2> QED BY <2>1, <2>2, <2>3 DEF Surjection
<1> QED BY <1>1, <1>2, FS_Surjection

\* Copies are in one order.
LEMMA BeforeOrders ==
    ASSUME NEW c \in Copy, NEW d \in Copy
    PROVE  ~Before(c, c) /\ (c = d \/ Before(c, d) \/ Before(d, c)) /\ ~(Before(c, d) /\ Before(d, c))
<1>1. c.place \in Nat /\ c.name \in Nat /\ d.place \in Nat /\ d.name \in Nat
    BY PlaceAssumption DEF Copy
<1>2. c.place = d.place /\ c.name = d.name => c = d
    BY DEF Copy
<1> QED BY <1>1, <1>2 DEF Before

LEMMA SingleCardinality ==
    ASSUME NEW S, S \subseteq Copy
    PROVE  Cardinality(S) = 1 <=> \E c : S = {c}
<1>1. IsFiniteSet(S)
    BY CopyFinite, FS_Subset
<1> QED BY <1>1, FS_Singleton

\* What a platform would load on a disk s, before copies of one selector are
\* told apart, and the selectors it gives them.
Live(s, p) == {c \in Present(s, p) : Resolves(s, c) /\ Enabled(s, c) /\ ~Alias(s, c)}
SelectorOf(s, p, c) == IF Source(c) = "nested" /\ c \in Live(s, p)
                          /\ ~\E d \in Live(s, p) : Source(d) # "nested"
                                                    /\ Lexical(d) = <<None, c.name>>
                       THEN <<None, c.name>> ELSE Lexical(c)

LEMMA DiscoverIs ==
    ASSUME NEW s, NEW p, NEW inv, inv = Discover(s, p)
    PROVE  /\ DOMAIN inv = Present(s, p) /\ DOMAIN inv \subseteq Copy
           /\ \A c \in DOMAIN inv :
                /\ inv[c].target = s.disk[c] /\ inv[c].selector = SelectorOf(s, p, c)
                /\ c \notin Live(s, p) => inv[c].status \notin {"active", "ambiguous"}
                /\ c \in Live(s, p) /\ p = "codex" =>
                      inv[c].status =
                        IF \E d \in Live(s, p) : d # c /\ SelectorOf(s, p, d) = SelectorOf(s, p, c)
                        THEN "ambiguous" ELSE "active"
                /\ c \in Live(s, p) /\ p # "codex" =>
                      inv[c].status =
                        IF \E d \in Live(s, p) : d # c /\ SelectorOf(s, p, d) = SelectorOf(s, p, c)
                                                 /\ Before(d, c)
                        THEN "shadowed" ELSE "active"
<1> DEFINE st == Materialized(s, p)
           sel == Selectors(st)
<1>1. DOMAIN st = Present(s, p) /\ Present(s, p) \subseteq Copy
    BY DEF Materialized, Present
<1>2. \A c \in Present(s, p) : /\ st[c] = "active" <=> c \in Live(s, p)
                               /\ st[c] # "active" => st[c] \in {"unresolved", "inactive", "shadowed"}
    BY DEF Materialized, Live
<1>3. Live(s, p) \subseteq Present(s, p)
    BY DEF Live
<1> HIDE DEF st
<1>4. DOMAIN sel = Present(s, p)
    BY <1>1 DEF Selectors
<1>5. \A c \in Present(s, p) : sel[c] = SelectorOf(s, p, c)
    <2> SUFFICES ASSUME NEW c \in Present(s, p) PROVE sel[c] = SelectorOf(s, p, c)
        OBVIOUS
    <2>1. Qualified(st, c) <=> \E d \in Live(s, p) : Source(d) # "nested"
                                                    /\ Lexical(d) = <<None, c.name>>
        BY <1>1, <1>2, <1>3 DEF Qualified
    <2>2. sel[c] = IF Source(c) = "nested" /\ st[c] = "active" /\ ~Qualified(st, c)
                   THEN <<None, c.name>> ELSE Lexical(c)
        BY <1>1 DEF Selectors
    <2> QED BY <1>2, <2>1, <2>2 DEF SelectorOf
<1> HIDE DEF sel
<1>6. inv = [c \in Present(s, p) |-> [status |-> SettledStatus(st, sel, c), selector |-> sel[c],
                                      target |-> s.disk[c]]]
    BY <1>1 DEF Discover, st, sel
<1>7. \A c \in Present(s, p) : Rivals(st, sel, c)
        = {d \in Live(s, p) : d # c /\ SelectorOf(s, p, d) = SelectorOf(s, p, c)}
    BY <1>1, <1>2, <1>3, <1>5 DEF Rivals
<1>8. \A c \in Present(s, p) : PlatformOf[c.place] = p
    BY DEF Present
<1> SUFFICES ASSUME NEW c \in Present(s, p)
             PROVE  /\ c \notin Live(s, p) => inv[c].status \notin {"active", "ambiguous"}
                    /\ c \in Live(s, p) /\ p = "codex" =>
                      inv[c].status =
                        IF \E d \in Live(s, p) : d # c /\ SelectorOf(s, p, d) = SelectorOf(s, p, c)
                        THEN "ambiguous" ELSE "active"
                    /\ c \in Live(s, p) /\ p # "codex" =>
                      inv[c].status =
                        IF \E d \in Live(s, p) : d # c /\ SelectorOf(s, p, d) = SelectorOf(s, p, c)
                                                 /\ Before(d, c)
                        THEN "shadowed" ELSE "active"
    BY <1>1, <1>5, <1>6
<1>9. inv[c].status = SettledStatus(st, sel, c)
    BY <1>6
<1>10. CASE c \notin Live(s, p)
    BY <1>2, <1>9, <1>10 DEF SettledStatus
<1>11. CASE c \in Live(s, p)
    <2>1. st[c] = "active" /\ PlatformOf[c.place] = p
        BY <1>2, <1>8, <1>11
    <2>2. Rivals(st, sel, c)
        = {d \in Live(s, p) : d # c /\ SelectorOf(s, p, d) = SelectorOf(s, p, c)}
        BY <1>7
    <2>3. CASE p = "codex"
        BY <1>9, <1>11, <2>1, <2>2, <2>3 DEF SettledStatus
    <2>4. CASE p # "codex"
        BY <1>9, <1>11, <2>1, <2>2, <2>4 DEF SettledStatus
    <2> QED BY <2>3, <2>4
<1> QED BY <1>10, <1>11

\* The copies that a selector is looked up among.
Matching(inv, selector) == {c \in Selectable(inv) : inv[c].selector = selector}

LEMMA ResolveIs ==
    ASSUME NEW inv, DOMAIN inv \subseteq Copy, NEW selector
    PROVE  /\ Resolve(inv, selector) \subseteq Matching(inv, selector)
           /\ \A c : Matching(inv, selector) = {c} /\ inv[c].status = "active"
                        => Resolve(inv, selector) = {c}
           /\ Resolve(inv, selector) # {} =>
                 \E c : /\ Resolve(inv, selector) = {c} /\ Matching(inv, selector) = {c}
                        /\ inv[c].status = "active"
<1> DEFINE M == Matching(inv, selector)
<1>1. M \subseteq Copy
    BY DEF Matching, Selectable
<1>2. Resolve(inv, selector) = IF Sole(inv, M) THEN M ELSE {}
    BY DEF Resolve, Matching
<1>3. Sole(inv, M) <=> (\E c : M = {c}) /\ \A c \in M : inv[c].status = "active"
    BY <1>1, SingleCardinality DEF Sole
<1> HIDE DEF M
<1>4. \A c : M = {c} /\ inv[c].status = "active" => Resolve(inv, selector) = {c}
    BY <1>2, <1>3
<1>5. Resolve(inv, selector) # {} =>
          \E c : Resolve(inv, selector) = {c} /\ M = {c} /\ inv[c].status = "active"
    BY <1>2, <1>3
<1>6. Resolve(inv, selector) \subseteq M
    BY <1>2
<1> QED BY <1>4, <1>5, <1>6 DEF M

\* An active copy is what its selector stands for.
LEMMA ActiveAlone ==
    ASSUME NEW s, NEW p, NEW inv, inv = Discover(s, p),
           NEW c \in DOMAIN inv, inv[c].status = "active"
    PROVE  Resolve(inv, inv[c].selector) = {c}
<1>1. DOMAIN inv \subseteq Copy /\ c \in Copy /\ c \in Live(s, p)
    BY DiscoverIs
<1>2. c \in Matching(inv, inv[c].selector)
    BY DEF Matching, Selectable
<1>3. ASSUME NEW d \in Matching(inv, inv[c].selector), d # c PROVE FALSE
    <2>1. /\ d \in DOMAIN inv /\ d \in Copy /\ inv[d].status \in {"active", "ambiguous"}
          /\ inv[d].selector = inv[c].selector
        BY <1>1 DEF Matching, Selectable
    <2>2. d \in Live(s, p) /\ SelectorOf(s, p, d) = SelectorOf(s, p, c)
        BY <2>1, DiscoverIs
    <2>3. CASE p = "codex"
        <3>1. inv[c].status = "ambiguous"
            BY <1>1, <1>3, <2>2, <2>3, DiscoverIs
        <3> QED BY <3>1
    <2>4. CASE p # "codex"
        <3>1. ~Before(d, c)
            BY <1>1, <1>3, <2>2, <2>4, DiscoverIs
        <3>2. ~Before(c, d)
            BY <1>1, <1>3, <2>1, <2>2, <2>4, DiscoverIs
        <3> QED BY <1>1, <1>3, <2>1, <3>1, <3>2, BeforeOrders
    <2> QED BY <2>3, <2>4
<1>4. Matching(inv, inv[c].selector) = {c}
    BY <1>2, <1>3
<1> QED BY <1>1, <1>4, ResolveIs

\* Of the copies Codex could load under a name, none is preferred.
LEMMA CodexMatches ==
    ASSUME NEW s, NEW inv, inv = Discover(s, "codex"), NEW selector
    PROVE  /\ Matching(inv, selector) = {c \in Live(s, "codex") : Lexical(c) = selector}
           /\ \A c : Matching(inv, selector) = {c} => inv[c].status = "active"
<1>1. \A c \in Copy : PlatformOf[c.place] = "codex" => Source(c) # "nested"
    <2> SUFFICES ASSUME NEW c \in Copy, PlatformOf[c.place] = "codex" PROVE Source(c) # "nested"
        OBVIOUS
    <2>1. Source(c) \in ToSet(Sources("codex"))
        BY PlaceAssumption DEF Copy, Source
    <2>2. ToSet(Sources("codex")) =
              {"repository", "user", "user-legacy", "admin", "system", "plugin"}
        BY DEF ToSet, Sources
    <2> QED BY <2>1, <2>2
<1>2. \A c \in DOMAIN inv : SelectorOf(s, "codex", c) = Lexical(c)
    <2>1. \A c \in DOMAIN inv : c \in Copy /\ PlatformOf[c.place] = "codex"
        <3>1. DOMAIN inv = Present(s, "codex")
            BY DiscoverIs
        <3> QED BY <3>1 DEF Present
    <2> QED BY <1>1, <2>1 DEF SelectorOf
<1>3. \A c \in DOMAIN inv : inv[c].status \in {"active", "ambiguous"} <=> c \in Live(s, "codex")
    BY DiscoverIs
<1>4. Live(s, "codex") \subseteq DOMAIN inv
    BY DiscoverIs DEF Live
<1>5. \A c \in DOMAIN inv : inv[c].selector = Lexical(c)
    BY <1>2, DiscoverIs
<1>6. Matching(inv, selector) = {c \in Live(s, "codex") : Lexical(c) = selector}
    BY <1>3, <1>4, <1>5 DEF Matching, Selectable
<1>7. ASSUME NEW c, Matching(inv, selector) = {c} PROVE inv[c].status = "active"
    <2>1. c \in Live(s, "codex") /\ Lexical(c) = selector
        BY <1>6, <1>7
    <2>2. ~\E d \in Live(s, "codex") : d # c /\ SelectorOf(s, "codex", d) = SelectorOf(s, "codex", c)
        BY <1>2, <1>4, <1>6, <1>7, <2>1
    <2> QED BY <1>4, <2>1, <2>2, DiscoverIs
<1> QED BY <1>6, <1>7

\* Of the copies Claude could load under a selector, the first is.
LEMMA ClaudeMatches ==
    ASSUME NEW s, NEW p, p # "codex", NEW inv, inv = Discover(s, p), NEW selector
    PROVE  /\ Matching(inv, selector)
                = First({c \in Live(s, p) : SelectorOf(s, p, c) = selector})
           /\ \A c \in Matching(inv, selector) : inv[c].status = "active"
<1>1. Live(s, p) \subseteq DOMAIN inv /\ Live(s, p) \subseteq Copy
    BY DiscoverIs DEF Live
<1>2. \A c \in Live(s, p) : ~Before(c, c)
    BY <1>1, BeforeOrders
<1>3. ASSUME NEW c \in DOMAIN inv
      PROVE  inv[c].status \in {"active", "ambiguous"} <=>
                /\ c \in Live(s, p)
                /\ ~\E d \in Live(s, p) : SelectorOf(s, p, d) = SelectorOf(s, p, c) /\ Before(d, c)
    BY <1>2, DiscoverIs
<1>4. \A c \in DOMAIN inv : inv[c].selector = SelectorOf(s, p, c) /\ inv[c].status # "ambiguous"
    <2> SUFFICES ASSUME NEW c \in DOMAIN inv
                 PROVE  inv[c].selector = SelectorOf(s, p, c) /\ inv[c].status # "ambiguous"
        OBVIOUS
    <2>1. CASE c \in Live(s, p)
        BY <2>1, DiscoverIs
    <2>2. CASE c \notin Live(s, p)
        BY <2>2, DiscoverIs
    <2> QED BY <2>1, <2>2
<1>5. Matching(inv, selector) = First({c \in Live(s, p) : SelectorOf(s, p, c) = selector})
    BY <1>1, <1>3, <1>4 DEF Matching, Selectable, First
<1>6. \A c \in Matching(inv, selector) : inv[c].status = "active"
    BY <1>4 DEF Matching, Selectable
<1> QED BY <1>5, <1>6

\* The copies that can be loaded are those discovery keeps.
LEMMA LoadableIs ==
    ASSUME NEW s, NEW p, NEW inv, inv = Discover(s, p),
           \A c \in Copy : Enabled(site, c) <=> Enabled(s, c)
    PROVE  Loadable(inv) = Live(s, p)
<1>1. \A c \in DOMAIN inv : inv[c].target = s.disk[c]
    BY DiscoverIs
<1>2. DOMAIN inv = Present(s, p) /\ DOMAIN inv \subseteq Copy
    BY DiscoverIs
<1>3. \A c \in Present(s, p) : PlatformOf[c.place] = p
    BY DEF Present
<1>4. ASSUME NEW c \in Present(s, p)
      PROVE  c \in Loadable(inv) <=> c \in Live(s, p)
    <2>1. inv[c].target # Broken <=> Resolves(s, c)
        BY <1>1, <1>2, <1>4 DEF Resolves
    <2>2. Resolves(s, c) =>
             (Alias(s, c) <=> \E d \in DOMAIN inv : inv[d].target = inv[c].target /\ Before(d, c))
        BY <1>1, <1>2, <1>3, <1>4 DEF Alias, SameTarget
    <2> QED BY <1>2, <1>4, <2>1, <2>2 DEF Loadable, Live
<1> QED BY <1>2, <1>4 DEF Loadable, Live

\* What begins a selector is never missing where the source has a prefix.
LEMMA PrefixIs ==
    ASSUME NEW c \in Copy
    PROVE  /\ Source(c) = "nested" => Prefix(c.place) = DirectoryOf[c.place] /\ DirectoryOf[c.place] # None
           /\ Source(c) = "plugin" /\ PlatformOf[c.place] # "codex" =>
                 Prefix(c.place) = PluginOf[c.place][1] /\ PluginOf[c.place][1] # None
           /\ Source(c) \notin {"nested", "plugin"} => Prefix(c.place) = None
           /\ PlatformOf[c.place] = "codex" => Source(c) # "nested" /\ Prefix(c.place) = None
<1>1. c.place \in Place
    BY DEF Copy
<1>2. /\ PlatformOf[c.place] \in {"codex", "claude"}
      /\ Source(c) \in ToSet(Sources(PlatformOf[c.place]))
    BY <1>1, PlaceAssumption DEF Source, Platform
<1>3. PlatformOf[c.place] = "codex" => Source(c) # "nested"
    <2>1. ToSet(Sources("codex")) =
              {"repository", "user", "user-legacy", "admin", "system", "plugin"}
        BY DEF ToSet, Sources
    <2> QED BY <1>2, <2>1
<1> QED BY <1>1, <1>2, <1>3, PlaceAssumption DEF Prefix, Source

LEMMA ClaudeEffective ==
    ASSUME NEW s, NEW inv, inv = Discover(s, "claude"),
           \A c \in Copy : Enabled(site, c) <=> Enabled(s, c), NEW q, NEW n, ~Contested(inv, n)
    PROVE  EffectiveClaude(inv, q, n)
              = First({c \in Live(s, "claude") : SelectorOf(s, "claude", c) = <<q, n>>})
<1> DEFINE live == {c \in Live(s, "claude") : c.name = n}
           nested == {c \in live : Source(c) = "nested"}
           ordinary == {c \in live : Source(c) \notin {"nested", "plugin"}}
           M == {c \in Live(s, "claude") : SelectorOf(s, "claude", c) = <<q, n>>}
<1>1. Loadable(inv) = Live(s, "claude")
    BY LoadableIs
<1>2. /\ Nested(inv, n) = nested /\ Ordinary(inv, n) = ordinary
      /\ Plugged(inv, q, n) = {c \in live : Source(c) = "plugin" /\ PluginOf[c.place][1] = q}
      /\ Beside(inv, q, n) = {c \in nested : ordinary # {} /\ DirectoryOf[c.place] = q}
    BY <1>1 DEF OfName, Nested, Ordinary, Plugged, Beside
<1>3. \A c \in Live(s, "claude") : c \in Copy /\ PlatformOf[c.place] = "claude"
    BY DEF Live, Present
<1>4. \A c \in Live(s, "claude") :
          /\ Source(c) = "nested" => Prefix(c.place) = DirectoryOf[c.place] /\ DirectoryOf[c.place] # None
          /\ Source(c) = "plugin" => Prefix(c.place) = PluginOf[c.place][1] /\ PluginOf[c.place][1] # None
          /\ Source(c) \notin {"nested", "plugin"} => Prefix(c.place) = None
    BY <1>3, PrefixIs
<1>5. (\E d \in Live(s, "claude") : Source(d) # "nested" /\ Lexical(d) = <<None, n>>) <=> ordinary # {}
    BY <1>4 DEF Lexical
<1>6. \A c \in Live(s, "claude") : SelectorOf(s, "claude", c) = <<q, n>> <=>
          /\ c.name = n
          /\ IF Source(c) = "nested" /\ ordinary = {} THEN q = None ELSE Prefix(c.place) = q
    <2> SUFFICES ASSUME NEW c \in Live(s, "claude")
                 PROVE  SelectorOf(s, "claude", c) = <<q, n>> <=>
                            /\ c.name = n
                            /\ IF Source(c) = "nested" /\ ordinary = {} THEN q = None
                               ELSE Prefix(c.place) = q
        OBVIOUS
    <2>1. CASE c.name = n
        <3>1. SelectorOf(s, "claude", c) = IF Source(c) = "nested" /\ ordinary = {} THEN <<None, n>>
                                           ELSE <<Prefix(c.place), n>>
            BY <1>5, <2>1 DEF SelectorOf, Lexical
        <3> HIDE DEF ordinary
        <3> QED BY <2>1, <3>1
    <2>2. CASE c.name # n
        BY <2>2 DEF SelectorOf, Lexical
    <2> QED BY <2>1, <2>2
<1>7. CASE q # None
    <2>1. M = Plugged(inv, q, n) \cup Beside(inv, q, n)
        BY <1>2, <1>4, <1>6, <1>7
    <2> QED BY <1>7, <2>1 DEF EffectiveClaude
<1>8. CASE q = None /\ ordinary # {}
    <2>1. M = ordinary
        BY <1>4, <1>6, <1>8
    <2> QED BY <1>2, <1>8, <2>1 DEF EffectiveClaude
<1>9. CASE q = None /\ ordinary = {}
    <2>1. M = nested
        BY <1>4, <1>6, <1>9
    <2>2. \A c, d \in nested : c = d
        BY <1>2, <1>9 DEF Contested
    <2>3. \A c \in nested : ~Before(c, c)
        BY <1>3, BeforeOrders
    <2>4. First(nested) = nested
        BY <2>2, <2>3 DEF First
    <2> QED BY <1>2, <1>9, <2>1, <2>4 DEF EffectiveClaude
<1> QED BY <1>7, <1>8, <1>9

\* What discovery makes of a disk resolves a selector to what the platform
\* loads under it.
LEMMA ResolveEffective ==
    ASSUME NEW s, NEW p \in Platform, NEW inv, inv = Discover(s, p),
           \A c \in Copy : Enabled(site, c) <=> Enabled(s, c), NEW q, NEW n,
           ~Contested(inv, n), Resolve(inv, <<q, n>>) # {}
    PROVE  Resolve(inv, <<q, n>>) = Effective(inv, p, <<q, n>>)
<1> DEFINE selector == <<q, n>>
<1>1. DOMAIN inv \subseteq Copy
    BY DiscoverIs
<1>2. PICK c : Resolve(inv, selector) = {c} /\ Matching(inv, selector) = {c}
    BY <1>1, ResolveIs
<1>3. selector[1] = q /\ selector[2] = n
    OBVIOUS
<1>4. CASE p = "codex"
    <2>1. Loadable(inv) = Live(s, "codex")
        BY <1>4, LoadableIs
    <2>2. \A d \in Live(s, "codex") : Lexical(d) = selector <=> q = None /\ d.name = n
        <3>1. \A d \in Live(s, "codex") : d \in Copy /\ PlatformOf[d.place] = "codex"
            BY DEF Live, Present
        <3> QED BY <3>1, PrefixIs DEF Lexical
    <2>3. {c} = {d \in Live(s, "codex") : Lexical(d) = selector}
        BY <1>2, <1>4, CodexMatches
    <2>4. q = None /\ OfName(inv, n) = {c}
        BY <2>1, <2>2, <2>3 DEF OfName
    <2>5. Cardinality({c}) = 1
        BY FS_Singleton
    <2>6. EffectiveCodex(inv, q, n) = {c}
        BY <2>4, <2>5 DEF EffectiveCodex
    <2> QED BY <1>2, <1>3, <1>4, <2>6 DEF Effective
<1>5. CASE p = "claude"
    <2>1. Effective(inv, p, selector) = EffectiveClaude(inv, q, n)
        BY <1>3, <1>5 DEF Effective
    <2>2. EffectiveClaude(inv, q, n)
              = First({d \in Live(s, "claude") : SelectorOf(s, "claude", d) = selector})
        BY <1>5, ClaudeEffective
    <2>3. Matching(inv, selector)
              = First({d \in Live(s, "claude") : SelectorOf(s, "claude", d) = selector})
        BY <1>5, ClaudeMatches
    <2> QED BY <1>2, <2>1, <2>2, <2>3
<1> QED BY <1>4, <1>5 DEF Platform

-----------------------------------------------------------------------------
(* What a diagnosis knows of the copies                                     *)

\* A diagnosis ch of what w may ask for, under these settings, knows nothing
\* of the copies yet, or what discovery made of some disk and chose from it.
Known(ch, w, claude, codex) ==
    /\ ch.pc # "idle" => ch.ask \in Asks[w]
    /\ \/ /\ ch.inv = <<>> /\ ch.selected = <<>>
          /\ ch.pc \in {"idle", "begun", "raised"} \/ ch.ask.kind = "path"
       \/ \E s : /\ s.claude = claude /\ s.codex = codex
                 /\ ch.inv = Discover(s, ch.ask.platform)
                 /\ ch.selected = Chosen(ch.ask, ch.inv)
                 /\ ch.ask.kind = "named" => Resolve(ch.inv, ch.ask.selector) # {}

CInv == /\ DOMAIN check = Fields /\ world \in World
        /\ DOMAIN site = {"disk", "claude", "codex", "budget", "context"}
        /\ Known(check, world, site.claude, site.codex)

LEMMA InitCInv == Init => CInv
<1> SUFFICES ASSUME Init PROVE CInv
    OBVIOUS
<1>1. check = Idle /\ world \in World /\ \E s \in Start[world] : site = s.site
    BY DEF Init
<1>2. DOMAIN site = {"disk", "claude", "codex", "budget", "context"}
    BY <1>1, InstanceAssumption
<1>3. DOMAIN check = Fields /\ check.pc = "idle" /\ check.inv = <<>> /\ check.selected = <<>>
    BY <1>1 DEF Idle, Fields
<1> QED BY <1>1, <1>2, <1>3 DEF CInv, Known

\* The steps after discovery leave alone what it found.
LEMMA KeptIsKnown ==
    ASSUME CInv, UNCHANGED <<world, site>>, DOMAIN check' = Fields, check'.ask = check.ask,
           check'.inv = check.inv, check'.selected = check.selected, check.pc # "idle",
           check'.pc = "raised" \/ check.pc \notin {"idle", "begun", "raised"}
    PROVE  CInv'
BY DEF CInv, Known

LEMMA BeginCInv == ASSUME CInv, Begin PROVE CInv'
<1>1. PICK a \in Asks[world] :
        check' = [Idle EXCEPT !.pc = IF a.kind = "path" THEN "found" ELSE "begun",
                              !.ask = a, !.rules = IF a.kind = "path" THEN None ELSE rules]
    BY DEF Begin
<1>2. UNCHANGED <<world, site>>
    BY DEF Begin, around
<1>3. /\ DOMAIN check' = Fields /\ check'.ask = a /\ check'.inv = <<>> /\ check'.selected = <<>>
      /\ check'.pc = "begun" \/ a.kind = "path"
    BY <1>1 DEF Idle, Fields
<1> QED BY <1>2, <1>3 DEF CInv, Known

LEMMA FindCInv == ASSUME CInv, Find PROVE CInv'
<1>1. UNCHANGED <<world, site>> /\ check.pc = "begun"
    BY DEF Find, around
<1>2. CASE Raise
    <2>1. /\ DOMAIN check' = Fields /\ check'.ask = check.ask /\ check'.inv = check.inv
          /\ check'.selected = check.selected /\ check'.pc = "raised"
        BY <1>2 DEF Raise, CInv, Fields
    <2> QED BY <1>1, <2>1, KeptIsKnown
<1>3. CASE ~Raise
    <2> DEFINE a == check.ask
               inv == Discover(site, a.platform)
    <2>1. /\ check' = [check EXCEPT !.pc = "found", !.inv = inv, !.selected = Chosen(a, inv)]
          /\ a.kind = "named" => Resolve(inv, a.selector) # {}
        BY <1>3 DEF Find
    <2> HIDE DEF inv
    <2>2. /\ DOMAIN check' = Fields /\ check'.ask = a /\ check'.inv = inv
          /\ check'.selected = Chosen(a, inv) /\ check'.pc = "found"
        BY <2>1 DEF CInv, Fields
    <2>3. a \in Asks[world]
        BY <1>1 DEF CInv, Known
    <2>4. Known(check', world, site.claude, site.codex)
        BY <2>1, <2>2, <2>3 DEF Known, inv
    <2> QED BY <1>1, <2>2, <2>4 DEF CInv
<1> QED BY <1>2, <1>3

LEMMA LaterCInv ==
    ASSUME CInv, ReadSnapshots \/ ReadFails \/ Analyze \/ Test \/ Measure \/ Conclude \/ Fail
    PROVE  CInv'
<1>1. UNCHANGED <<world, site>>
    BY DEF ReadSnapshots, ReadFails, Analyze, Test, Outcome, Measure, Conclude, Fail, around
<1> DEFINE Kept == /\ DOMAIN check' = Fields /\ check'.ask = check.ask
                   /\ check'.inv = check.inv /\ check'.selected = check.selected
<1>2. Raise => Kept /\ check'.pc = "raised"
    BY DEF Raise, CInv, Fields
<1>3. ReadSnapshots \/ ReadFails => Kept /\ check.pc = "found"
    BY DEF ReadSnapshots, ReadFails, CInv, Fields
<1>4. Analyze => Kept /\ check.pc = "read"
    <2> SUFFICES ASSUME Analyze PROVE Kept /\ check.pc = "read"
        OBVIOUS
    <2>1. CASE Raise
        BY <1>2, <2>1 DEF Analyze
    <2>2. CASE ~Raise
        <3> DEFINE es == check.entries
                   ruleset == IF check.ask.kind = "path" THEN rules ELSE check.rules
                   title(c) == TitleOf[es[FirstOf(es, c)].target]
                   rows == {[key |-> CacheKey(c, title(c), ruleset),
                             analysis |-> Analyzed(c, title(c), ruleset)] : c \in AnalyzedOnce(es)}
        <3>1. check' = [check EXCEPT !.pc = "analyzed", !.rules = ruleset,
                             !.static = UNION {r.analysis.findings : r \in rows},
                             !.failed = @ \/ \E r \in rows : r.analysis.failed]
            BY <2>2 DEF Analyze
        <3> HIDE DEF rows, ruleset
        <3> QED BY <3>1 DEF Analyze, CInv, Fields
    <2> QED BY <2>1, <2>2
<1>5. Test => Kept /\ check.pc = "analyzed"
    <2> SUFFICES ASSUME Test PROVE Kept /\ check.pc = "analyzed"
        OBVIOUS
    <2>1. PICK ran, results : Outcome(ran, results) /\ check.pc = "analyzed"
        BY DEF Test
    <2> QED BY <2>1 DEF Outcome, CInv, Fields
<1>6. Measure => Kept /\ check.pc = "tested"
    <2> SUFFICES ASSUME Measure PROVE Kept /\ check.pc = "tested"
        OBVIOUS
    <2>1. PICK p : check' = [check EXCEPT !.pc = "measured", !.performance = p]
        BY DEF Measure
    <2> QED BY <2>1 DEF Measure, CInv, Fields
<1>7. Conclude => Kept /\ check.pc = "measured"
    <2> SUFFICES ASSUME Conclude PROVE Kept /\ check.pc = "measured"
        OBVIOUS
    <2>1. PICK found, s, b, st : check' = [check EXCEPT !.pc = "reported", !.findings = found,
                        !.suppressed = s, !.blocking = b, !.state = st]
        BY DEF Conclude
    <2> QED BY <2>1 DEF Conclude, CInv, Fields
<1>8. Fail => Raise /\ check.pc # "idle"
    BY DEF Fail
<1>9. /\ Kept /\ check.pc # "idle"
      /\ check'.pc = "raised" \/ check.pc \notin {"idle", "begun", "raised"}
    BY <1>2, <1>3, <1>4, <1>5, <1>6, <1>7, <1>8
<1> QED BY <1>1, <1>9, KeptIsKnown

\* Only the disk and the budgets change under a diagnosis.
LEMMA AroundCInv ==
    ASSUME CInv, EditSkill \/ Move \/ EditBudget \/ UpdateRules \/ Accept \/ Tick \/ UNCHANGED vars
    PROVE  CInv'
<1>1. UNCHANGED <<world, check>>
    BY DEF EditSkill, Move, EditBudget, UpdateRules, Accept, Tick, vars
<1>2. DOMAIN site' = DOMAIN site /\ site'.claude = site.claude /\ site'.codex = site.codex
    <2>1. CASE UNCHANGED site
        BY <2>1
    <2>2. CASE Move \/ EditBudget
        BY <2>2 DEF Move, EditBudget, CInv
    <2> QED BY <2>1, <2>2 DEF EditSkill, UpdateRules, Accept, Tick, vars
<1> QED BY <1>1, <1>2 DEF CInv

LEMMA NextCInv == ASSUME CInv, [Next]_vars PROVE CInv'
BY BeginCInv, FindCInv, LaterCInv, AroundCInv DEF Next

LEMMA CopiesKnown == Spec => []CInv
<1>1. Init => CInv
    BY InitCInv
<1>2. CInv /\ [Next]_vars => CInv'
    BY NextCInv
<1> QED BY <1>1, <1>2, PTL DEF Spec

\* An active copy of the inventory is one its platform's settings enable.
LEMMA ActiveEnabled ==
    ASSUME CInv, NEW c \in DOMAIN check.inv, check.inv[c].status = "active"
    PROVE  c \in Copy /\ Enabled(site, c)
<1>1. check.inv # <<>>
    OBVIOUS
<1>2. PICK s : /\ s.claude = site.claude /\ s.codex = site.codex
               /\ check.inv = Discover(s, check.ask.platform)
    BY <1>1 DEF CInv, Known
<1>3. c \in Copy /\ c \in Live(s, check.ask.platform)
    BY <1>2, DiscoverIs
<1> QED BY <1>2, <1>3 DEF Live, Enabled, ClaudeEnables, CodexEnables

\* What the administrators' files say last about the lock stands: then only
\* enterprise and plugin copies are loaded, whatever the user's, the
\* project's and the local file say.  (_claude_settings, discover_claude)
THEOREM LocksAlwaysHold == Spec => []LocksHold
<1>1. ASSUME CInv PROVE LocksHold
    <2> DEFINE managed == [l \in Managed |-> site.claude[l].lock]
               all == [l \in Layer |-> site.claude[l].lock]
    <2> SUFFICES ASSUME LayersOf(managed) # {}, managed[Max(LayersOf(managed))] = TRUE,
                        NEW c \in DOMAIN check.inv,
                        PlatformOf[c.place] = "claude", check.inv[c].status = "active"
                 PROVE  Source(c) \in {"enterprise", "plugin"}
        BY DEF LocksHold
    <2>1. LayersOf(managed) = {l \in {4, 5} : site.claude[l].lock # None}
        BY DEF LayersOf, Managed
    <2>2. LayersOf(all) = {l \in 1 .. 5 : site.claude[l].lock # None}
        BY DEF LayersOf, Layer
    <2> DEFINE m == IF 5 \in LayersOf(managed) THEN 5 ELSE 4
    <2>3. m \in LayersOf(managed) /\ \A l \in LayersOf(managed) : m >= l
        BY <2>1
    <2>4. m \in LayersOf(all) /\ \A l \in LayersOf(all) : m >= l
        BY <2>1, <2>2, <2>3
    <2>5. Max(LayersOf(managed)) = m
        BY <2>1, <2>3 DEF Max
    <2>6. Max(LayersOf(all)) = m
        BY <2>2, <2>4 DEF Max
    <2>7. managed[m] = TRUE /\ all[m] = managed[m]
        BY <2>1, <2>2, <2>3, <2>4, <2>5 DEF Managed, Layer
    <2>8. Locked(site.claude)
        BY <2>4, <2>6, <2>7 DEF Locked, LastSaid
    <2>9. Enabled(site, c)
        BY <1>1, ActiveEnabled
    <2> QED BY <2>8, <2>9 DEF Enabled, ClaudeEnables
<1> QED BY <1>1, CopiesKnown, PTL

\* A named check is of exactly the copy the platform loads under the name,
\* and fails where there is none; every copy a session's signals select is
\* the one the platform loads under its selector.  (Names of several nested
\* copies and no other are left out, as in the property.)
\* (discover_codex, discover_claude, Inventory.resolve, _select_session_targets)
THEOREM ChecksFindTheCopy == Spec => []EffectiveCopy
<1>1. ASSUME CInv PROVE EffectiveCopy
    <2> DEFINE inv == check.inv
               a == check.ask
    <2>1. ASSUME NEW s, s.claude = site.claude, s.codex = site.codex, NEW c \in Copy
          PROVE  Enabled(site, c) <=> Enabled(s, c)
        BY <2>1 DEF Enabled, ClaudeEnables, CodexEnables
    <2>2. ASSUME check.pc \notin {"idle", "begun", "raised"}, a.kind = "named",
                 ~Contested(inv, a.selector[2])
          PROVE  ToSet(check.selected) = Effective(inv, a.platform, a.selector)
        <3>1. PICK s : /\ s.claude = site.claude /\ s.codex = site.codex
                       /\ inv = Discover(s, a.platform) /\ check.selected = Chosen(a, inv)
                       /\ Resolve(inv, a.selector) # {}
            BY <1>1, <2>2 DEF CInv, Known
        <3>2. a.selector \in Selector /\ a.platform \in Platform
            BY <1>1, <2>2, InstanceAssumption DEF CInv, Known
        <3>3. PICK q, n : a.selector = <<q, n>>
            BY <3>2 DEF Selector
        <3>4. Resolve(inv, a.selector) = Effective(inv, a.platform, a.selector)
            <4>1. a.selector[2] = n
                BY <3>3
            <4> QED BY <2>1, <2>2, <3>1, <3>2, <3>3, <4>1, ResolveEffective
        <3>5. DOMAIN inv \subseteq Copy
            BY <3>1, DiscoverIs
        <3> DEFINE found == Resolve(inv, a.selector)
        <3>6. \E c : found = {c}
            <4>1. found # {} => \E c : found = {c} /\ Matching(inv, a.selector) = {c}
                                                   /\ inv[c].status = "active"
                BY <3>5, ResolveIs
            <4> QED BY <3>1, <4>1
        <3>7. PICK c : found = {c}
            BY <3>6
        <3>8. check.selected = <<c>>
            BY <2>2, <3>1, <3>7 DEF Chosen
        <3> QED BY <3>4, <3>7, <3>8 DEF ToSet
    <2>3. ASSUME check.pc # "idle", a.kind = "session", NEW c \in ToSet(check.selected),
                 ~Contested(inv, c.name)
          PROVE  Effective(inv, a.platform, inv[c].selector) = {c}
        <3>1. check.selected # <<>>
            BY <2>3 DEF ToSet
        <3>2. PICK s : /\ s.claude = site.claude /\ s.codex = site.codex
                       /\ inv = Discover(s, a.platform) /\ check.selected = Chosen(a, inv)
            BY <1>1, <3>1 DEF CInv, Known
        <3>3. check.selected = SessionCopies(inv, a.platform, a.session)
            BY <2>3, <3>1, <3>2 DEF Chosen
        <3>4. PICK i \in DOMAIN check.selected : c = check.selected[i]
            BY <2>3 DEF ToSet
        <3>5. Mapped(inv, Sorted[i]) # {} /\ c = CHOOSE d \in Mapped(inv, Sorted[i]) : TRUE
            BY <3>3, <3>4 DEF SessionCopies
        <3>6. c \in Mapped(inv, Sorted[i])
            BY <3>5
        <3>7. c \in DOMAIN inv /\ inv[c].status = "active"
            BY <3>6 DEF Mapped, Signalled, Selectable, Sole
        <3>8. Resolve(inv, inv[c].selector) = {c}
            BY <3>2, <3>7, ActiveAlone
        <3>9. inv[c].selector = SelectorOf(s, a.platform, c)
            BY <3>2, <3>7, DiscoverIs
        <3>10. PICK q : inv[c].selector = <<q, c.name>>
            BY <3>9 DEF SelectorOf, Lexical
        <3>11. Resolve(inv, <<q, c.name>>) # {}
            BY <3>8, <3>10
        <3>12. a.platform \in Platform
            BY <1>1, <2>3, InstanceAssumption DEF CInv, Known
        <3>13. Resolve(inv, <<q, c.name>>) = Effective(inv, a.platform, <<q, c.name>>)
            BY <2>1, <2>3, <3>2, <3>11, <3>12, ResolveEffective
        <3> QED BY <3>8, <3>10, <3>13
    <2> QED BY <2>2, <2>3 DEF EffectiveCopy
<1> QED BY <1>1, CopiesKnown, PTL

-----------------------------------------------------------------------------
(* Measurements                                                             *)

Listed(s) == s \in Seq(ToSet(s))

LEMMA ListedFunction ==
    ASSUME NEW n \in Nat, NEW s, s = [i \in 1 .. n |-> s[i]]
    PROVE  Listed(s) /\ Len(s) = n
<1>1. s \in [1 .. n -> ToSet(s)]
    BY DEF ToSet
<1>2. s \in Seq(ToSet(s))
    BY <1>1, SeqDef
<1> QED BY <1>1, <1>2, LenProperties DEF Listed

LEMMA ListedIs ==
    ASSUME NEW s, Listed(s)
    PROVE  Len(s) \in Nat /\ DOMAIN s = 1 .. Len(s)
BY LenProperties DEF Listed

LEMMA ListedConcat ==
    ASSUME NEW s, NEW t, Listed(s), Listed(t)
    PROVE  /\ Listed(s \o t) /\ Len(s \o t) = Len(s) + Len(t)
           /\ \A i \in 1 .. Len(s) : (s \o t)[i] = s[i]
           /\ \A i \in 1 .. Len(t) : (s \o t)[Len(s) + i] = t[i]
<1> DEFINE S == ToSet(s) \cup ToSet(t)
<1>1. s \in Seq(S) /\ t \in Seq(S)
    BY SeqMonotonic DEF Listed
<1> HIDE DEF S
<1>2. Len(s) \in Nat /\ Len(t) \in Nat
    BY ListedIs
<1>3. /\ s \o t \in Seq(S) /\ Len(s \o t) = Len(s) + Len(t)
      /\ \A i \in 1 .. Len(s) + Len(t) : (s \o t)[i] =
             IF i <= Len(s) THEN s[i] ELSE t[i - Len(s)]
    BY <1>1, ConcatProperties
<1>4. \A i \in 1 .. Len(s) : (s \o t)[i] = s[i]
    BY <1>2, <1>3
<1>5. \A i \in 1 .. Len(t) : (s \o t)[Len(s) + i] = t[i]
    BY <1>2, <1>3
<1>6. s \o t \in [1 .. Len(s) + Len(t) -> S]
    BY <1>3, LenProperties
<1>7. s \o t = [i \in 1 .. Len(s) + Len(t) |-> (s \o t)[i]]
    BY <1>6
<1>8. Listed(s \o t)
    BY <1>2, <1>7, ListedFunction
<1> QED BY <1>3, <1>4, <1>5, <1>8

LEMMA ListedPrefix ==
    ASSUME NEW s, Listed(s), NEW n \in Nat, n <= Len(s)
    PROVE  /\ Listed(SubSeq(s, 1, n)) /\ Len(SubSeq(s, 1, n)) = n
           /\ \A i \in 1 .. n : SubSeq(s, 1, n)[i] = s[i]
<1>1. Len(s) \in Nat /\ DOMAIN s = 1 .. Len(s)
    BY ListedIs
<1>2. \A i \in 1 .. n : s[i] \in ToSet(s)
    BY <1>1 DEF ToSet
<1>3. /\ SubSeq(s, 1, n) \in Seq(ToSet(s)) /\ Len(SubSeq(s, 1, n)) = n
      /\ \A i \in 1 .. n : SubSeq(s, 1, n)[i] = s[i]
    <2>1. /\ SubSeq(s, 1, n) \in Seq(ToSet(s))
          /\ Len(SubSeq(s, 1, n)) = IF 1 <= n THEN n - 1 + 1 ELSE 0
          /\ \A i \in 1 .. n - 1 + 1 : SubSeq(s, 1, n)[i] = s[1 + i - 1]
        BY <1>2, SubSeqProperties
    <2> QED BY <2>1
<1>4. SubSeq(s, 1, n) \in [1 .. n -> ToSet(s)]
    BY <1>3, LenProperties
<1>5. SubSeq(s, 1, n) = [i \in 1 .. n |-> SubSeq(s, 1, n)[i]]
    BY <1>4
<1> QED BY <1>3, <1>5, ListedFunction

\* The row of the measurement m, the i-th, and the rows that the first n of the
\* measurements ms leave.
RowOf(i, m) == [at |-> i,
                series |-> [name |-> m.result.name, context |-> m.result.context,
                            rules |-> m.rules, budget |-> m.budget],
                content |-> m.result.content, samples |-> Samples(m.result.load),
                latency |-> m.result.load.latency]
RowsOf(ms, n) == {RowOf(i, ms[i]) : i \in
                    {k \in 1 .. n : ms[k].controlled /\ Steady(ms[k].result.load)}}

\* The regressions of a report ch, if ms was measured.
EligibleIn(ms, i, j) ==
    /\ j < i
    /\ ms[j].result.name = ms[i].result.name /\ ms[j].result.content # ms[i].result.content
    /\ ms[j].result.context = ms[i].result.context
    /\ ms[j].rules = ms[i].rules /\ ms[j].budget = ms[i].budget
    /\ ms[j].controlled /\ Samples(ms[j].result.load) >= 3
    /\ ~TimedOut(ms[j].result.load) /\ ~Cancelled(ms[j].result.load)
SlowerIn(ms, i, j) ==
    /\ Samples(ms[i].result.load) >= 3
    /\ ms[i].result.load.latency * 10 > ms[j].result.load.latency * 12
    /\ ms[i].result.load.latency >= ms[j].result.load.latency + 500
WorseIn(ms, i) == \E j \in DOMAIN ms :
    /\ EligibleIn(ms, i, j) /\ \A k \in DOMAIN ms : EligibleIn(ms, i, k) => k <= j
    /\ SlowerIn(ms, i, j)
RegressionsIn(ch, ms) ==
    {f.about : f \in {g \in ch.performance : g.rule = "ASD701"}}
        = {<<ms[i].result.name, ms[i].result.content>>
             : i \in {k \in Len(ms) - Len(ch.results) + 1 .. Len(ms) :
                        ms[k].controlled /\ WorseIn(ms, k)}}

Tested(ch) == /\ IsFiniteSet(DOMAIN ch.entries) /\ Listed(ch.results)
              /\ \A i \in DOMAIN ch.results : ch.results[i].load.latency \in Nat

MInv == /\ Listed(measured)
        /\ \A i \in DOMAIN measured : measured[i].result.load.latency \in Nat
        /\ baselines = RowsOf(measured, Len(measured))
        /\ Tested(check)
        /\ check.pc \in Has.measured => RegressionsIn(check, measured)

LEMMA RealRegressions == MInv => RegressionIsReal
BY DEF MInv, RegressionIsReal, RegressionsIn, WorseIn, SlowerIn, EligibleIn, Worse, Eligible, Has

LEMMA EmptyListed == Listed(<<>>) /\ Len(<<>>) = 0 /\ DOMAIN <<>> = {}
BY EmptySeq DEF Listed

LEMMA OneFinite == ASSUME NEW c PROVE IsFiniteSet(DOMAIN <<c>>)
<1>1. DOMAIN <<c>> = {1}
    OBVIOUS
<1>2. \A x : IsFiniteSet({x})
    BY FS_Singleton
<1>3. IsFiniteSet({1})
    BY <1>2
<1> QED BY <1>1, <1>3, Zenon

LEMMA InitMInv == Init => MInv
<1> SUFFICES ASSUME Init PROVE MInv
    OBVIOUS
<1>1. measured = <<>> /\ baselines = {} /\ check = Idle
    BY DEF Init
<1>2. Idle.entries = <<>> /\ Idle.results = <<>> /\ Idle.pc = "idle"
    BY DEF Idle
<1>3. RowsOf(<<>>, Len(<<>>)) = {}
    BY EmptyListed DEF RowsOf
<1>4. Tested(Idle)
    BY <1>2, EmptyListed, FS_EmptySet DEF Tested
<1> QED BY <1>1, <1>2, <1>3, <1>4, EmptyListed DEF MInv, Has

\* A step that measures nothing and ends in nothing measured.
LEMMA BeforeMInv ==
    ASSUME MInv, UNCHANGED <<measured, baselines>>, Tested(check'), check'.pc \notin Has.measured
    PROVE  MInv'
BY DEF MInv

\* The copies that are chosen are finitely many.
LEMMA ChosenFinite ==
    ASSUME CInv, check.pc = "found", check.ask.kind # "path"
    PROVE  IsFiniteSet(DOMAIN check.selected)
<1> DEFINE a == check.ask
           inv == check.inv
<1>1. PICK s : inv = Discover(s, a.platform) /\ check.selected = Chosen(a, inv)
    BY DEF CInv, Known
<1>2. a.kind \in {"named", "all", "session"}
    BY InstanceAssumption DEF CInv, Known, Kind
<1>3. CASE a.kind = "named"
    <2>1. PICK c : check.selected = <<c>>
        BY <1>1, <1>3 DEF Chosen
    <2>2. DOMAIN check.selected = DOMAIN <<c>>
        BY <2>1
    <2> QED BY <2>2, OneFinite
<1>4. CASE a.kind = "all"
    <2>1. IsFiniteSet(DOMAIN inv)
        BY <1>1, DiscoverIs, CopyFinite, FS_Subset
    <2>2. Cardinality(DOMAIN inv) \in Nat
        BY <2>1, FS_CardinalityType
    <2>3. DOMAIN check.selected = 1 .. Cardinality(DOMAIN inv)
        BY <1>1, <1>4 DEF Chosen, InOrder
    <2> QED BY <2>2, <2>3, FS_Interval
<1>5. CASE a.kind = "session"
    <2>1. DOMAIN check.selected \subseteq DOMAIN Sorted
        BY <1>1, <1>5 DEF Chosen, SessionCopies, Signals
    <2>2. IsFiniteSet(DOMAIN Sorted)
        <3>1. Len(Sorted) \in Nat /\ DOMAIN Sorted = 1 .. Len(Sorted)
            BY SortedAssumption, LenProperties
        <3> QED BY <3>1, FS_Interval
    <2> QED BY <2>1, <2>2, FS_Subset
<1> QED BY <1>2, <1>3, <1>4, <1>5

LEMMA SetupMInv ==
    ASSUME IInv, CInv, MInv, Begin \/ Find \/ ReadSnapshots \/ ReadFails \/ Analyze \/ Fail
    PROVE  MInv'
<1>1. UNCHANGED <<measured, baselines>>
    BY DEF Begin, Find, ReadSnapshots, ReadFails, Analyze, Fail
<1> DEFINE Kept == check'.entries = check.entries /\ check'.results = check.results
<1>2. Kept => Tested(check')
    BY DEF MInv, Tested
<1>3. CASE Begin
    <2>1. PICK a \in Asks[world] :
            check' = [Idle EXCEPT !.pc = IF a.kind = "path" THEN "found" ELSE "begun",
                                  !.ask = a, !.rules = IF a.kind = "path" THEN None ELSE rules]
        BY <1>3 DEF Begin
    <2>2. check'.entries = <<>> /\ check'.results = <<>> /\ check'.pc \in {"found", "begun"}
        BY <2>1 DEF Idle
    <2>3. Tested(check')
        BY <2>2, EmptyListed, FS_EmptySet DEF Tested
    <2> QED BY <1>1, <2>2, <2>3, BeforeMInv DEF Has
<1>4. CASE Raise
    <2>1. Kept /\ check'.pc = "raised"
        BY <1>4 DEF Raise, CInv, Fields
    <2> QED BY <1>1, <1>2, <2>1, BeforeMInv DEF Has
<1>5. CASE Find /\ ~Raise
    <2>1. PICK inv, sel : check' = [check EXCEPT !.pc = "found", !.inv = inv, !.selected = sel]
        BY <1>5 DEF Find
    <2>2. Kept /\ check'.pc = "found"
        BY <2>1 DEF CInv, Fields
    <2> QED BY <1>1, <1>2, <2>2, BeforeMInv DEF Has
<1>6. CASE ReadSnapshots \/ ReadFails
    <2>1. /\ check.pc = "found" /\ check'.pc = "read" /\ check'.results = check.results
          /\ \/ check'.entries = <<Entry(None, check.ask.target)>>
             \/ \E unreadable : check'.entries = Reads(check.selected, unreadable)
                                /\ check.ask.kind # "path"
        <3>1. CASE ReadSnapshots
            BY <3>1 DEF ReadSnapshots, CInv, Fields
        <3>2. CASE ReadFails
            <4>1. check.ask.kind # "path" /\ check.pc = "found"
                BY <3>2 DEF ReadFails, IInv, ReportOK, PathAlone
            <4>2. PICK c : check' = [check EXCEPT !.pc = "read", !.failed = TRUE,
                                                  !.entries = Reads(check.selected, {c})]
                BY <3>2 DEF ReadFails
            <4> QED BY <4>1, <4>2 DEF CInv, Fields
        <3> QED BY <1>6, <3>1, <3>2
    <2>2. IsFiniteSet(DOMAIN check'.entries)
        <3>1. CASE check'.entries = <<Entry(None, check.ask.target)>>
            BY <3>1, OneFinite
        <3>2. CASE \E unreadable : check'.entries = Reads(check.selected, unreadable)
                                   /\ check.ask.kind # "path"
            <4>1. DOMAIN check'.entries \subseteq DOMAIN check.selected
                BY <3>2 DEF Reads
            <4> QED BY <2>1, <3>2, <4>1, ChosenFinite, FS_Subset
        <3> QED BY <2>1, <3>1, <3>2
    <2>3. Tested(check')
        BY <2>1, <2>2 DEF MInv, Tested
    <2> QED BY <1>1, <2>1, <2>3, BeforeMInv DEF Has
<1>7. CASE Analyze /\ ~Raise
    <2> DEFINE es == check.entries
               ruleset == IF check.ask.kind = "path" THEN rules ELSE check.rules
               title(c) == TitleOf[es[FirstOf(es, c)].target]
               rows == {[key |-> CacheKey(c, title(c), ruleset),
                         analysis |-> Analyzed(c, title(c), ruleset)] : c \in AnalyzedOnce(es)}
    <2>1. check' = [check EXCEPT !.pc = "analyzed", !.rules = ruleset,
                         !.static = UNION {r.analysis.findings : r \in rows},
                         !.failed = @ \/ \E r \in rows : r.analysis.failed]
        BY <1>7 DEF Analyze
    <2> HIDE DEF rows, ruleset
    <2>2. Kept /\ check'.pc = "analyzed"
        BY <2>1 DEF CInv, Fields
    <2> QED BY <1>1, <1>2, <2>2, BeforeMInv DEF Has
<1> QED BY <1>3, <1>4, <1>5, <1>6, <1>7 DEF Fail

LEMMA TestMInv == ASSUME CInv, MInv, Test PROVE MInv'
<1> DEFINE es == check.entries
           order == Grouped(es)
           n == Cardinality(DOMAIN es)
<1>1. UNCHANGED <<measured, baselines>>
    BY DEF Test, Outcome
<1>2. n \in Nat
    BY FS_CardinalityType DEF MInv, Tested
<1>3. DOMAIN order = 1 .. n
    BY DEF Grouped, InOrder
<1>4. ASSUME NEW ran, NEW rs, Outcome(ran, rs), Listed(rs),
             \A i \in DOMAIN rs : rs[i].load.latency \in Nat
      PROVE  MInv'
    <2>1. check'.pc = "tested" /\ check'.entries = es /\ check'.results = rs
        BY <1>4 DEF Outcome, CInv, Fields
    <2>2. Tested(check')
        BY <1>4, <2>1 DEF MInv, Tested
    <2> QED BY <1>1, <2>1, <2>2, BeforeMInv DEF Has
<1>5. CASE \E ran : Outcome(ran, <<>>)
    BY <1>4, <1>5, EmptyListed
<1>6. CASE ~\E ran : Outcome(ran, <<>>)
    <2>1. PICK load \in [DOMAIN order -> Loads[world]] :
            LET results == [i \in DOMAIN order |-> Result(es[order[i]], check.ask.context, load[i])] IN
            \/ Outcome("done", results)
            \/ \E i \in DOMAIN order : \E tail \in {<<>>, <<Leak(es[order[i]])>>} :
                  Outcome("failed", SubSeq(results, 1, i - 1) \o tail)
        BY <1>6 DEF Test
    <2> DEFINE results == [i \in DOMAIN order |-> Result(es[order[i]], check.ask.context, load[i])]
    <2> HIDE DEF order
    <2>2. /\ results = [i \in 1 .. n |-> results[i]]
          /\ \A i \in 1 .. n : results[i].load = load[i]
        BY <1>3 DEF Result
    <2>3. \A i \in 1 .. n : results[i].load.latency \in Nat
        <3>1. \A i \in 1 .. n : load[i] \in Load
            BY <1>3, InstanceAssumption DEF CInv
        <3> QED BY <2>2, <3>1 DEF Load
    <2>4. DOMAIN results = 1 .. n
        BY <1>3
    <2> HIDE DEF results, n
    <2>5. Listed(results) /\ Len(results) = n
        BY <1>2, <2>2, ListedFunction
    <2>6. CASE Outcome("done", results)
        BY <1>4, <2>3, <2>4, <2>5, <2>6
    <2>7. CASE \E i \in DOMAIN order : \E tail \in {<<>>, <<Leak(es[order[i]])>>} :
                  Outcome("failed", SubSeq(results, 1, i - 1) \o tail)
        <3>0. PICK i \in 1 .. n : \E tail \in {<<>>, <<Leak(es[order[i]])>>} :
                  Outcome("failed", SubSeq(results, 1, i - 1) \o tail)
            BY <1>3, <2>7
        <3>1. PICK tail : /\ Outcome("failed", SubSeq(results, 1, i - 1) \o tail)
                          /\ tail = <<>> \/ tail = <<Leak(es[order[i]])>>
            BY <3>0
        <3> DEFINE prefix == SubSeq(results, 1, i - 1)
        <3>2. /\ Listed(prefix) /\ Len(prefix) = i - 1
              /\ \A j \in 1 .. i - 1 : prefix[j] = results[j]
            BY <1>2, <2>5, ListedPrefix
        <3>3. Listed(tail) /\ \A j \in 1 .. Len(tail) : tail[j].load.latency \in Nat
            <4>1. CASE tail = <<>>
                BY <4>1, EmptyListed
            <4>2. CASE tail = <<Leak(es[order[i]])>>
                <5>1. Leak(es[order[i]]).load.latency = 0
                    BY DEF Leak, Result, Leaked
                <5> HIDE DEF es
                <5>2. tail = [j \in 1 .. 1 |-> tail[j]] /\ tail[1] = Leak(es[order[i]])
                    BY <4>2
                <5>3. Listed(tail) /\ Len(tail) = 1
                    BY <5>2, ListedFunction
                <5> QED BY <5>1, <5>2, <5>3
            <4> QED BY <3>1, <4>1, <4>2
        <3> HIDE DEF prefix
        <3>4. /\ Listed(prefix \o tail) /\ Len(prefix \o tail) = Len(prefix) + Len(tail)
              /\ \A j \in 1 .. Len(prefix) : (prefix \o tail)[j] = prefix[j]
              /\ \A j \in 1 .. Len(tail) : (prefix \o tail)[Len(prefix) + j] = tail[j]
            BY <3>2, <3>3, ListedConcat
        <3>5. ASSUME NEW j \in DOMAIN (prefix \o tail)
              PROVE  (prefix \o tail)[j].load.latency \in Nat
            <4>1. j \in 1 .. Len(prefix) + Len(tail) /\ Len(tail) \in Nat
                BY <3>3, <3>4, <3>5, ListedIs
            <4>2. CASE j <= i - 1
                BY <1>2, <2>3, <3>2, <3>4, <4>1, <4>2
            <4>3. CASE j > i - 1
                <5>1. j - Len(prefix) \in 1 .. Len(tail) /\ j = Len(prefix) + (j - Len(prefix))
                    BY <3>2, <4>1, <4>3
                <5> QED BY <3>3, <3>4, <5>1
            <4> QED BY <1>2, <4>1, <4>2, <4>3
        <3> QED BY <1>4, <3>1, <3>4, <3>5 DEF prefix
    <2> QED BY <2>1, <2>6, <2>7 DEF results
<1> QED BY <1>5, <1>6

\* What a load of the results rs, the i-th, is measured as.
Measurement(r, ruleset, budget, controlled) ==
    [result |-> r, rules |-> ruleset, budget |-> budget, controlled |-> controlled]

\* new extends ms by what rs is measured as.
Extends(new, ms, rs, ruleset, budget, controlled) ==
    /\ Len(ms) \in Nat /\ Len(rs) \in Nat /\ Len(new) = Len(ms) + Len(rs)
    /\ DOMAIN ms = 1 .. Len(ms) /\ DOMAIN rs = 1 .. Len(rs) /\ DOMAIN new = 1 .. Len(new)
    /\ \A k \in 1 .. Len(ms) : new[k] = ms[k]
    /\ \A i \in 1 .. Len(rs) : new[Len(ms) + i] = Measurement(rs[i], ruleset, budget, controlled)

LEMMA MeasuredExtends ==
    ASSUME NEW ms, NEW rs, Listed(ms), Listed(rs), NEW ruleset, NEW budget, NEW controlled, NEW new,
           new = ms \o [i \in DOMAIN rs |-> Measurement(rs[i], ruleset, budget, controlled)]
    PROVE  Listed(new) /\ Extends(new, ms, rs, ruleset, budget, controlled)
<1> DEFINE add == [i \in DOMAIN rs |-> Measurement(rs[i], ruleset, budget, controlled)]
<1>1. Len(rs) \in Nat /\ DOMAIN rs = 1 .. Len(rs) /\ Len(ms) \in Nat /\ DOMAIN ms = 1 .. Len(ms)
    BY ListedIs
<1>2. /\ add = [i \in 1 .. Len(rs) |-> add[i]]
      /\ \A i \in 1 .. Len(rs) : add[i] = Measurement(rs[i], ruleset, budget, controlled)
    BY <1>1
<1> HIDE DEF add
<1>3. Listed(add) /\ Len(add) = Len(rs)
    BY <1>1, <1>2, ListedFunction
<1>4. new = ms \o add
    BY DEF add
<1>5. /\ Listed(new) /\ Len(new) = Len(ms) + Len(add)
      /\ \A i \in 1 .. Len(ms) : new[i] = ms[i]
      /\ \A i \in 1 .. Len(add) : new[Len(ms) + i] = add[i]
    <2>1. /\ Listed(ms \o add) /\ Len(ms \o add) = Len(ms) + Len(add)
          /\ \A i \in 1 .. Len(ms) : (ms \o add)[i] = ms[i]
          /\ \A i \in 1 .. Len(add) : (ms \o add)[Len(ms) + i] = add[i]
        BY <1>3, ListedConcat
    <2> QED BY <1>4, <2>1, Zenon
<1>6. DOMAIN new = 1 .. Len(new)
    BY <1>5, ListedIs
<1> QED BY <1>1, <1>2, <1>3, <1>5, <1>6 DEF Extends

\* The rows grow with the measurements.
GrowsBy(new, ms, rs, s, ruleset, controlled, i) ==
    RowsOf(ms, Len(ms)) \cup Recorded(s, rs, Len(ms), i, ruleset, controlled)
        = RowsOf(new, Len(ms) + i)

LEMMA RowsGrow ==
    ASSUME NEW s, NEW ms, NEW rs, NEW ruleset, NEW controlled, NEW new,
           Extends(new, ms, rs, ruleset, s.budget, controlled),
           NEW i \in Nat, i <= Len(rs)
    PROVE  GrowsBy(new, ms, rs, s, ruleset, controlled, i)
<1> DEFINE L == Len(ms)
           old == {k \in 1 .. L : ms[k].controlled /\ Steady(ms[k].result.load)}
           added == {k \in 1 .. i : controlled /\ Steady(rs[k].load)}
           both == {k \in 1 .. L + i : new[k].controlled /\ Steady(new[k].result.load)}
           R(k) == [at |-> L + k, series |-> Series(s, rs[k], ruleset), content |-> rs[k].content,
                    samples |-> Samples(rs[k].load), latency |-> rs[k].load.latency]
<1>1. L \in Nat /\ \A k \in 1 .. L : new[k] = ms[k]
    BY DEF Extends
<1>2. ASSUME NEW k \in 1 .. i
      PROVE  /\ L + k \in 1 .. L + i /\ L + k > L
             /\ new[L + k].controlled = controlled /\ new[L + k].result = rs[k]
             /\ RowOf(L + k, new[L + k]) = R(k)
    <2>1. k \in 1 .. Len(rs)
        BY DEF Extends
    <2>2. new[L + k] = Measurement(rs[k], ruleset, s.budget, controlled)
        BY <2>1 DEF Extends
    <2> QED BY <1>1, <2>2 DEF Measurement, RowOf, Series
<1>3. \A k \in 1 .. L + i : k \in 1 .. L \/ \E j \in 1 .. i : k = L + j
    <2> SUFFICES ASSUME NEW k \in 1 .. L + i, k \notin 1 .. L PROVE \E j \in 1 .. i : k = L + j
        OBVIOUS
    <2>1. k - L \in 1 .. i /\ k = L + (k - L)
        BY <1>1
    <2> QED BY <2>1
<1>4. \A k \in 1 .. L : k \in both <=> k \in old
    BY <1>1
<1>5. \A k \in 1 .. i : L + k \in both <=> k \in added
    BY <1>2
<1>6. old \subseteq 1 .. L /\ added \subseteq 1 .. i /\ both \subseteq 1 .. L + i
    OBVIOUS
<1>7. /\ RowsOf(ms, L) = {RowOf(k, ms[k]) : k \in old}
      /\ RowsOf(new, L + i) = {RowOf(k, new[k]) : k \in both}
      /\ Recorded(s, rs, L, i, ruleset, controlled) = {R(k) : k \in added}
    BY DEF RowsOf, Recorded
<1> HIDE DEF L, old, added, both, R
<1>8. \A k \in 1 .. i : RowOf(L + k, new[L + k]) = R(k)
    BY <1>2
<1>9. {RowOf(k, ms[k]) : k \in old} \subseteq {RowOf(k, new[k]) : k \in both}
    BY <1>1, <1>4, <1>6
<1>10. {R(k) : k \in added} \subseteq {RowOf(k, new[k]) : k \in both}
    BY <1>5, <1>6, <1>8
<1>11. ASSUME NEW k \in both
       PROVE  RowOf(k, new[k]) \in {RowOf(j, ms[j]) : j \in old} \cup {R(j) : j \in added}
    <2>1. CASE k \in 1 .. L
        BY <1>1, <1>4, <2>1
    <2>2. CASE k \notin 1 .. L
        <3>1. PICK j \in 1 .. i : k = L + j
            BY <1>3, <1>6, <2>2
        <3>2. j \in added /\ RowOf(k, new[k]) = R(j)
            BY <1>5, <1>8, <3>1
        <3> QED BY <3>2
    <2> QED BY <2>1, <2>2
<1>12. RowsOf(ms, L) \cup Recorded(s, rs, L, i, ruleset, controlled) = RowsOf(new, L + i)
    BY <1>7, <1>9, <1>10, <1>11
<1> QED BY <1>12 DEF L, GrowsBy

LEMMA SlowerIs ==
    ASSUME NEW a \in Nat, NEW b \in Nat
    PROVE  Slower(a, b) <=> a * 10 > b * 12 /\ a >= b + 500
BY DEF Slower

\* The n-th measurement has regressed, by the rows the earlier ones left,
\* where it is worse than the last of them it may be compared with.
LEMMA RegressedIs ==
    ASSUME NEW s, NEW new, NEW N \in Nat, DOMAIN new = 1 .. N, NEW n \in 1 .. N,
           NEW ruleset, NEW controlled,
           \A k \in 1 .. N : new[k].result.load.latency \in Nat,
           new[n].rules = ruleset, new[n].budget = s.budget, new[n].controlled = controlled
    PROVE  Regressed(RowsOf(new, n - 1), s, new[n].result, ruleset, controlled)
              <=> controlled /\ WorseIn(new, n)
<1> DEFINE r == new[n].result
           rows == RowsOf(new, n - 1)
           bs == Comparable(rows, Series(s, r, ruleset), r.content)
           E == {j \in DOMAIN new : EligibleIn(new, n, j)}
<1>1. \A j \in E : j \in 1 .. n - 1
    BY DEF EligibleIn
<1>2. ASSUME NEW j \in 1 .. n - 1
      PROVE  j \in E <=> /\ new[j].controlled /\ Steady(new[j].result.load)
                         /\ RowOf(j, new[j]).series = Series(s, r, ruleset)
                         /\ RowOf(j, new[j]).content # r.content
    <2>1. j \in DOMAIN new /\ j < n
        OBVIOUS
    <2>2. RowOf(j, new[j]).series = Series(s, r, ruleset) <=>
             /\ new[j].result.name = r.name /\ new[j].result.context = r.context
             /\ new[j].rules = ruleset /\ new[j].budget = s.budget
        BY DEF RowOf, Series
    <2>3. RowOf(j, new[j]).content = new[j].result.content
        BY DEF RowOf
    <2> QED BY <2>1, <2>2, <2>3 DEF EligibleIn, Steady
<1>3. bs = {RowOf(j, new[j]) : j \in E}
    <2>1. \A j \in E : RowOf(j, new[j]) \in rows
        BY <1>1, <1>2 DEF RowsOf
    <2>2. \A j \in E : RowOf(j, new[j]) \in bs
        BY <1>1, <1>2, <2>1 DEF Comparable
    <2>3. ASSUME NEW b \in bs PROVE \E j \in E : b = RowOf(j, new[j])
        <3>1. b \in rows /\ b.series = Series(s, r, ruleset) /\ b.content # r.content
            BY DEF Comparable
        <3>2. PICK j \in 1 .. n - 1 : /\ b = RowOf(j, new[j]) /\ new[j].controlled
                                      /\ Steady(new[j].result.load)
            BY <3>1 DEF RowsOf
        <3> QED BY <1>2, <3>1, <3>2
    <2> HIDE DEF bs, E
    <2> QED BY <2>2, <2>3
<1>4. \A j \in E : /\ RowOf(j, new[j]).at = j /\ j \in Nat
                   /\ RowOf(j, new[j]).samples >= 3
                   /\ RowOf(j, new[j]).latency = new[j].result.load.latency
    BY DEF RowOf, EligibleIn
<1>5. \A j \in E : Slower(r.load.latency, RowOf(j, new[j]).latency) /\ Samples(r.load) >= 3
                      <=> SlowerIn(new, n, j)
    <2> SUFFICES ASSUME NEW j \in E
                 PROVE  Slower(r.load.latency, RowOf(j, new[j]).latency) /\ Samples(r.load) >= 3
                           <=> SlowerIn(new, n, j)
        OBVIOUS
    <2>1. r.load.latency \in Nat /\ new[j].result.load.latency \in Nat
        OBVIOUS
    <2>2. RowOf(j, new[j]).latency = new[j].result.load.latency
        BY <1>4
    <2>3. Slower(r.load.latency, new[j].result.load.latency) <=>
             /\ r.load.latency * 10 > new[j].result.load.latency * 12
             /\ r.load.latency >= new[j].result.load.latency + 500
        BY <2>1, SlowerIs
    <2> QED BY <2>2, <2>3, Zenon DEF SlowerIn
<1>6. WorseIn(new, n) <=> \E j \in E : (\A k \in E : k <= j) /\ SlowerIn(new, n, j)
    BY DEF WorseIn
<1>7. Baseline(rows, Series(s, r, ruleset), r.content) = {b \in bs : \A o \in bs : o.at <= b.at}
    BY DEF Baseline
<1> HIDE DEF bs, E, rows
<1>8. (\E b \in {b \in bs : \A o \in bs : o.at <= b.at} :
          b.samples >= 3 /\ Slower(r.load.latency, b.latency)) <=>
      \E j \in E : (\A k \in E : k <= j) /\ Slower(r.load.latency, RowOf(j, new[j]).latency)
    <2>1. ASSUME NEW j \in E, \A k \in E : k <= j,
                 Slower(r.load.latency, RowOf(j, new[j]).latency)
          PROVE  \E b \in {b \in bs : \A o \in bs : o.at <= b.at} :
                    b.samples >= 3 /\ Slower(r.load.latency, b.latency)
        <3>1. RowOf(j, new[j]) \in bs /\ RowOf(j, new[j]).samples >= 3
            BY <1>3, <1>4
        <3>2. \A o \in bs : o.at <= RowOf(j, new[j]).at
            BY <1>3, <1>4, <2>1
        <3> QED BY <2>1, <3>1, <3>2
    <2>2. ASSUME NEW b \in bs, \A o \in bs : o.at <= b.at, Slower(r.load.latency, b.latency)
          PROVE  \E j \in E : /\ \A k \in E : k <= j
                             /\ Slower(r.load.latency, RowOf(j, new[j]).latency)
        <3>1. PICK j \in E : b = RowOf(j, new[j])
            BY <1>3
        <3>2. \A k \in E : RowOf(k, new[k]).at <= b.at
            BY <1>3, <2>2
        <3>3. \A k \in E : k <= j
            BY <1>4, <3>1, <3>2
        <3> QED BY <2>2, <3>1, <3>3
    <2> QED BY <2>1, <2>2
<1>9. Regressed(rows, s, r, ruleset, controlled) <=>
         /\ controlled /\ Samples(r.load) >= 3
         /\ \E j \in E : (\A k \in E : k <= j) /\ Slower(r.load.latency, RowOf(j, new[j]).latency)
    BY <1>7, <1>8 DEF Regressed
<1>10. Regressed(rows, s, r, ruleset, controlled) <=> controlled /\ WorseIn(new, n)
    BY <1>5, <1>6, <1>9
<1> QED BY <1>10 DEF rows

\* What a measurement finds of baselines are the regressions.
LEMMA PerformanceRegressions ==
    ASSUME NEW s, NEW ms, NEW rs, NEW contents, NEW ruleset, NEW controlled, NEW new,
           Extends(new, ms, rs, ruleset, s.budget, controlled),
           \A k \in DOMAIN new : new[k].result.load.latency \in Nat
    PROVE  {f.about : f \in {g \in Performance(RowsOf(ms, Len(ms)), s, contents, rs, Len(ms),
                                               ruleset, controlled) : g.rule = "ASD701"}}
            = {<<new[k].result.name, new[k].result.content>>
                 : k \in {l \in Len(new) - Len(rs) + 1 .. Len(new) :
                            new[l].controlled /\ WorseIn(new, l)}}
<1> DEFINE L == Len(ms)
           rows(i) == RowsOf(ms, L) \cup Recorded(s, rs, L, i - 1, ruleset, controlled)
           found(i) == ResultFindings(rows(i), s, rs[i], ruleset, controlled)
           P == Performance(RowsOf(ms, L), s, contents, rs, L, ruleset, controlled)
           about(i) == <<rs[i].name, rs[i].content>>
           regressed == {i \in DOMAIN rs : Regressed(rows(i), s, rs[i], ruleset, controlled)}
           worse == {l \in Len(new) - Len(rs) + 1 .. Len(new) : new[l].controlled /\ WorseIn(new, l)}
<1>1. /\ L \in Nat /\ Len(rs) \in Nat /\ Len(new) = L + Len(rs)
      /\ DOMAIN rs = 1 .. Len(rs) /\ DOMAIN new = 1 .. Len(new)
    BY DEF Extends
<1>2. ASSUME NEW i \in 1 .. Len(rs)
      PROVE  /\ new[L + i] = Measurement(rs[i], ruleset, s.budget, controlled)
             /\ i \in regressed <=> L + i \in worse
    <2>1. new[L + i] = Measurement(rs[i], ruleset, s.budget, controlled)
        BY DEF Extends
    <2>2. /\ new[L + i].result = rs[i] /\ new[L + i].rules = ruleset
          /\ new[L + i].budget = s.budget /\ new[L + i].controlled = controlled
        BY <2>1 DEF Measurement
    <2>3. i - 1 \in Nat /\ i - 1 <= Len(rs) /\ L + (i - 1) = (L + i) - 1
        BY <1>1
    <2>4. rows(i) = RowsOf(new, (L + i) - 1)
        <3>1. PICK j \in Nat : j = i - 1 /\ j <= Len(rs) /\ L + j = (L + i) - 1
            BY <2>3
        <3>2. GrowsBy(new, ms, rs, s, ruleset, controlled, j)
            BY <3>1, RowsGrow
        <3> QED BY <3>1, <3>2 DEF GrowsBy
    <2>5. L + i \in 1 .. Len(new) /\ Len(new) \in Nat
        BY <1>1
    <2>6. Regressed(RowsOf(new, (L + i) - 1), s, new[L + i].result, ruleset, controlled)
             <=> controlled /\ WorseIn(new, L + i)
        <3> HIDE DEF L
        <3>1. \A k \in 1 .. Len(new) : new[k].result.load.latency \in Nat
            BY <1>1
        <3> QED BY <1>1, <2>2, <2>5, <3>1, RegressedIs
    <2>7. Regressed(rows(i), s, rs[i], ruleset, controlled)
             <=> new[L + i].controlled /\ WorseIn(new, L + i)
        BY <2>2, <2>4, <2>6
    <2>8. L + i \in Len(new) - Len(rs) + 1 .. Len(new)
        BY <1>1
    <2> HIDE DEF rows, L
    <2> QED BY <1>1, <2>1, <2>7, <2>8
<1>3. \A l \in worse : \E i \in 1 .. Len(rs) : l = L + i
    <2> SUFFICES ASSUME NEW l \in worse PROVE \E i \in 1 .. Len(rs) : l = L + i
        OBVIOUS
    <2>1. l \in Len(new) - Len(rs) + 1 .. Len(new)
        OBVIOUS
    <2>2. l - L \in 1 .. Len(rs) /\ l = L + (l - L)
        BY <1>1, <2>1
    <2> QED BY <2>2
<1>4. \A i \in 1 .. Len(rs) : about(i) = <<new[L + i].result.name, new[L + i].result.content>>
    <2> SUFFICES ASSUME NEW i \in 1 .. Len(rs)
                 PROVE  about(i) = <<new[L + i].result.name, new[L + i].result.content>>
        OBVIOUS
    <2>1. new[L + i] = Measurement(rs[i], ruleset, s.budget, controlled)
        BY <1>2
    <2>2. new[L + i].result = rs[i]
        BY <2>1 DEF Measurement
    <2> QED BY <2>2
<1>5. \A f : f \in P /\ f.rule = "ASD701" <=>
        \E i \in regressed : f = Found("ASD701", "medium", "high", about(i), 2)
    <2>1. \A f, i : f \in found(i) /\ f.rule = "ASD701" <=>
            /\ Regressed(rows(i), s, rs[i], ruleset, controlled)
            /\ f = Found("ASD701", "medium", "high", about(i), 2)
        <3> HIDE DEF rows
        <3> QED BY DEF ResultFindings, Where, Found
    <2> DEFINE heavy == {Found("ASD700", "low", "medium", <<c>>, 2) :
                           c \in IF s.context THEN contents \cap Heavy ELSE {}}
    <2>2. P = (UNION {found(i) : i \in DOMAIN rs}) \cup heavy
        BY DEF Performance
    <2>3. \A f \in heavy : f.rule # "ASD701"
        BY DEF Found
    <2> DEFINE Here(i) == Regressed(rows(i), s, rs[i], ruleset, controlled)
               F(i) == Found("ASD701", "medium", "high", about(i), 2)
    <2>4. regressed = {i \in DOMAIN rs : Here(i)}
        OBVIOUS
    <2>5. \A f, i : f \in found(i) /\ f.rule = "ASD701" <=> Here(i) /\ f = F(i)
        BY <2>1
    <2> HIDE DEF P, found, rows, about, regressed, Here, F, heavy
    <2>6. ASSUME NEW f \in P, f.rule = "ASD701" PROVE \E i \in regressed : f = F(i)
        <3>1. PICK i \in DOMAIN rs : f \in found(i)
            BY <2>2, <2>3, <2>6
        <3>2. Here(i) /\ f = F(i)
            BY <2>5, <2>6, <3>1
        <3> QED BY <2>4, <3>2
    <2>7. ASSUME NEW i \in regressed PROVE F(i) \in P /\ F(i).rule = "ASD701"
        BY <2>2, <2>4, <2>5
    <2> QED BY <2>6, <2>7 DEF F
<1>6. \A a : Found("ASD701", "medium", "high", a, 2).about = a
    BY DEF Found
<1> HIDE DEF P, regressed, worse, L, about
<1>7. {f.about : f \in {g \in P : g.rule = "ASD701"}} = {about(i) : i \in regressed}
    BY <1>5, <1>6
<1>8. {about(i) : i \in regressed} = {<<new[k].result.name, new[k].result.content>> : k \in worse}
    <2>1. regressed \subseteq 1 .. Len(rs)
        BY <1>1 DEF regressed
    <2> QED BY <1>2, <1>3, <1>4, <2>1
<1> QED BY <1>7, <1>8 DEF P, worse, L

LEMMA MeasureMInv == ASSUME CInv, MInv, Measure PROVE MInv'
<1>1. PICK controlled, p :
        /\ p = Performance(baselines, site, Contents(check), check.results, Len(measured),
                           check.rules, controlled)
        /\ check' = [check EXCEPT !.pc = "measured", !.performance = p]
        /\ baselines' = baselines \cup Recorded(site, check.results, Len(measured),
                                                Len(check.results), check.rules, controlled)
        /\ measured' = measured \o [i \in DOMAIN check.results |->
                            Measurement(check.results[i], check.rules, site.budget, controlled)]
    BY DEF Measure, Measurement
<1> DEFINE rs == check.results
           new == measured'
<1>2. Listed(measured) /\ Listed(rs)
    BY DEF MInv, Tested
<1>3. Listed(new) /\ Extends(new, measured, rs, check.rules, site.budget, controlled)
    BY <1>1, <1>2, MeasuredExtends
<1>4. ASSUME NEW k \in DOMAIN new PROVE new[k].result.load.latency \in Nat
    <2>1. k \in 1 .. Len(measured) + Len(rs)
        BY <1>3 DEF Extends
    <2>2. CASE k <= Len(measured)
        BY <1>3, <2>1, <2>2 DEF MInv, Extends
    <2>3. CASE k > Len(measured)
        <3>1. k - Len(measured) \in 1 .. Len(rs) /\ k = Len(measured) + (k - Len(measured))
            BY <1>3, <2>1, <2>3 DEF Extends
        <3>2. new[k].result = rs[k - Len(measured)]
            <4>1. new[Len(measured) + (k - Len(measured))]
                    = Measurement(rs[k - Len(measured)], check.rules, site.budget, controlled)
                BY <1>3, <3>1 DEF Extends
            <4> QED BY <3>1, <4>1 DEF Measurement
        <3>3. rs[k - Len(measured)].load.latency \in Nat
            BY <1>3, <3>1 DEF MInv, Tested, Extends
        <3> QED BY <3>2, <3>3
    <2> QED BY <1>3, <2>1, <2>2, <2>3 DEF Extends
<1>5. baselines' = RowsOf(new, Len(new))
    <2>1. Len(rs) \in Nat /\ Len(rs) <= Len(rs) /\ Len(new) = Len(measured) + Len(rs)
        BY <1>3 DEF Extends
    <2>2. RowsOf(measured, Len(measured))
             \cup Recorded(site, rs, Len(measured), Len(rs), check.rules, controlled)
            = RowsOf(new, Len(measured) + Len(rs))
        <3>1. PICK s, ms, r, n, l : /\ s = site /\ ms = measured /\ r = rs /\ n = new
                                    /\ l = Len(rs)
            OBVIOUS
        <3>2. Extends(n, ms, r, check.rules, s.budget, controlled) /\ l \in Nat /\ l <= Len(r)
            BY <1>3, <2>1, <3>1
        <3>3. GrowsBy(n, ms, r, s, check.rules, controlled, l)
            BY <3>2, RowsGrow
        <3> QED BY <3>1, <3>3 DEF GrowsBy
    <2> QED BY <1>1, <2>1, <2>2 DEF MInv
<1>6. /\ check'.pc = "measured" /\ check'.results = rs /\ check'.entries = check.entries
      /\ check'.performance = p
    BY <1>1 DEF CInv, Fields
<1>7. RegressionsIn(check', new)
    <2>1. p = Performance(RowsOf(measured, Len(measured)), site, Contents(check), rs,
                          Len(measured), check.rules, controlled)
        BY <1>1 DEF MInv
    <2>2. {f.about : f \in {g \in p : g.rule = "ASD701"}}
            = {<<new[k].result.name, new[k].result.content>>
                 : k \in {l \in Len(new) - Len(rs) + 1 .. Len(new) :
                            new[l].controlled /\ WorseIn(new, l)}}
        <3>1. PICK s, ms, r, n : s = site /\ ms = measured /\ r = rs /\ n = new
            OBVIOUS
        <3>2. /\ Extends(n, ms, r, check.rules, s.budget, controlled)
              /\ \A k \in DOMAIN n : n[k].result.load.latency \in Nat
            BY <1>3, <1>4, <3>1
        <3>3. {f.about : f \in {g \in Performance(RowsOf(ms, Len(ms)), s, Contents(check), r,
                                    Len(ms), check.rules, controlled) : g.rule = "ASD701"}}
                = {<<n[k].result.name, n[k].result.content>>
                     : k \in {l \in Len(n) - Len(r) + 1 .. Len(n) :
                                n[l].controlled /\ WorseIn(n, l)}}
            BY <3>2, PerformanceRegressions
        <3> QED BY <2>1, <3>1, <3>3
    <2> QED BY <1>6, <2>2 DEF RegressionsIn
<1>8. Tested(check')
    BY <1>6 DEF MInv, Tested
<1> QED BY <1>3, <1>4, <1>5, <1>7, <1>8 DEF MInv

LEMMA NextMInv == ASSUME IInv, CInv, MInv, [Next]_vars PROVE MInv'
<1>1. CASE Begin \/ Find \/ ReadSnapshots \/ ReadFails \/ Analyze \/ Fail
    BY <1>1, SetupMInv
<1>2. CASE Test
    BY <1>2, TestMInv
<1>3. CASE Measure
    BY <1>3, MeasureMInv
<1>4. CASE Conclude
    <2>1. PICK found, s, b, st : check' = [check EXCEPT !.pc = "reported", !.findings = found,
                        !.suppressed = s, !.blocking = b, !.state = st]
        BY <1>4 DEF Conclude
    <2>2. /\ check'.results = check.results /\ check'.entries = check.entries
          /\ check'.performance = check.performance
        BY <2>1 DEF CInv, Fields
    <2>3. UNCHANGED <<measured, baselines>> /\ check.pc = "measured"
        BY <1>4 DEF Conclude
    <2> QED BY <2>2, <2>3 DEF MInv, Tested, RegressionsIn, Has
<1>5. CASE EditSkill \/ Move \/ EditBudget \/ UpdateRules \/ Accept \/ Tick \/ UNCHANGED vars
    <2>1. UNCHANGED <<check, measured, baselines>>
        BY <1>5 DEF EditSkill, Move, EditBudget, UpdateRules, Accept, Tick, vars, history
    <2> QED BY <2>1 DEF MInv
<1> QED BY <1>1, <1>2, <1>3, <1>4, <1>5 DEF Next

\* A regression is reported exactly where the trials of a content are slower
\* by a fifth and half a second than the last controlled trials of another
\* content of the same skill in the same runtime context, under the same rules
\* and budgets, of which at least three ran and none timed out or was
\* cancelled.  (Whether they passed makes no difference: BaselinesSucceed.)
\* (analyze_performance, latest_performance_baseline)
THEOREM RegressionsAreReal == Spec => []RegressionIsReal
<1>1. Init => MInv
    BY InitMInv
<1>2. IInv /\ CInv /\ MInv /\ [Next]_vars => MInv'
    BY NextMInv
<1>3. MInv => RegressionIsReal
    BY RealRegressions
<1> QED BY <1>1, <1>2, <1>3, DiagnosisInvariant, CopiesKnown, PTL DEF Spec

-----------------------------------------------------------------------------
(* Orders and sums: that every set of naturals has a least element is the   *)
(* induction they need.                                                     *)

Lesser == {ss \in Nat \X Nat : ss[1] < ss[2]}

LEMMA LeastNumber ==
    ASSUME NEW T \in SUBSET Nat, T # {}
    PROVE  \E n \in T : \A m \in T : n <= m
<1>1. OpToRel(<, Nat) = Lesser
    BY Zenon DEF OpToRel, Lesser
<1>2. IsWellFoundedOn(Lesser, Nat)
    BY <1>1, NatLessThanWellFounded, Zenon
<1>3. \E n \in T : \A m \in T : ~(<<m, n>> \in Lesser)
    BY <1>2, WFMin, Zenon
<1>4. PICK n \in T : \A m \in T : ~(<<m, n>> \in Lesser)
    BY <1>3
<1>5. \A m \in T : ~(m < n)
    BY <1>4 DEF Lesser
<1> QED BY <1>5

\* Of a finite set in one order every place is somebody's.
LEMMA Ranked ==
    ASSUME NEW S, IsFiniteSet(S), NEW R,
           \A x \in S : <<x, x>> \notin R,
           \A x, y, z \in S : <<x, y>> \in R /\ <<y, z>> \in R => <<x, z>> \in R,
           \A x, y \in S : x = y \/ <<x, y>> \in R \/ <<y, x>> \in R
    PROVE  \A i \in 1 .. Cardinality(S) :
              \E x \in S : Cardinality({y \in S : <<y, x>> \in R}) = i - 1
<1> DEFINE n == Cardinality(S)
           below(x) == {y \in S : <<y, x>> \in R}
           rank == [x \in S |-> Cardinality(below(x))]
           T == 0 .. n - 1
<1>1. n \in Nat
    BY FS_CardinalityType
<1>2. ASSUME NEW x \in S, NEW U \in SUBSET S, x \notin U
      PROVE  IsFiniteSet(U) /\ Cardinality(U) \in Nat /\ Cardinality(U) < n
    <2>1. IsFiniteSet(U) /\ Cardinality(U) <= n /\ (Cardinality(U) = n => U = S)
        BY FS_Subset
    <2>2. Cardinality(U) \in Nat
        BY <2>1, FS_CardinalityType
    <2> QED BY <1>1, <1>2, <2>1, <2>2
<1>3. \A x \in S : Cardinality(below(x)) \in T
    <2> TAKE x \in S
    <2>1. x \notin below(x) /\ below(x) \in SUBSET S
        OBVIOUS
    <2> HIDE DEF below
    <2> QED BY <1>1, <1>2, <2>1
<1>4. ASSUME NEW x \in S, NEW y \in S, <<x, y>> \in R
      PROVE  Cardinality(below(x)) # Cardinality(below(y))
    <2>1. below(x) \subseteq below(y) /\ x \in below(y) /\ x \notin below(x)
        BY <1>4
    <2>2. y \notin below(y) /\ below(y) \in SUBSET S
        OBVIOUS
    <2> HIDE DEF below
    <2>3. IsFiniteSet(below(y))
        BY <1>2, <2>2
    <2> QED BY <2>1, <2>3, FS_Subset
<1> HIDE DEF below
<1>5. rank \in [S -> T]
    BY <1>3
<1>6. rank \in Injection(S, T)
    <2>1. \A x, y \in S : rank[x] = rank[y] => x = y
        BY <1>4
    <2> HIDE DEF rank
    <2> QED BY <1>5, <2>1 DEF Injection, IsInjective
<1>7. IsFiniteSet(T) /\ Cardinality(T) = n
    <2>1. 0 \in Int /\ n - 1 \in Int
        BY <1>1
    <2>2. /\ IsFiniteSet(0 .. n - 1)
          /\ Cardinality(0 .. n - 1) = IF 0 > n - 1 THEN 0 ELSE n - 1 - 0 + 1
        BY <2>1, FS_Interval
    <2> HIDE DEF n
    <2> QED BY <1>1, <2>2
<1>8. rank \in Surjection(S, T)
    <2> HIDE DEF rank, T, n
    <2> QED BY <1>6, <1>7, FS_Injection DEF n
<1>9. \A k \in T : \E x \in S : rank[x] = k
    <2> HIDE DEF rank, T
    <2> QED BY <1>8 DEF Surjection
<1>10. \A i \in 1 .. n : i - 1 \in T
    BY <1>1
<1> QED BY <1>9, <1>10 DEF below

\* The copies of an inventory, in their order, are copies of it.
LEMMA CopiesInOrder ==
    ASSUME NEW S \in SUBSET Copy
    PROVE  \A i \in 1 .. Cardinality(S) : InOrder(S, Before)[i] \in S
<1> DEFINE R == {xy \in S \X S : Before(xy[1], xy[2])}
<1>1. IsFiniteSet(S)
    BY CopyFinite, FS_Subset
<1>2. \A x, y \in S : <<x, y>> \in R <=> Before(x, y)
    OBVIOUS
<1>3. \A x, y, z \in S : Before(x, y) /\ Before(y, z) => Before(x, z)
    <2> SUFFICES ASSUME NEW x \in S, NEW y \in S, NEW z \in S, Before(x, y), Before(y, z)
                 PROVE  Before(x, z)
        OBVIOUS
    <2>1. /\ x.place \in Nat /\ x.name \in Nat /\ y.place \in Nat /\ y.name \in Nat
          /\ z.place \in Nat /\ z.name \in Nat
        BY PlaceAssumption DEF Copy
    <2> QED BY <2>1 DEF Before
<1> HIDE DEF R
<1>4. \A x, y \in S : ~Before(x, x) /\ (x = y \/ Before(x, y) \/ Before(y, x))
    BY BeforeOrders
<1>5. \A i \in 1 .. Cardinality(S) :
          \E x \in S : Cardinality({y \in S : <<y, x>> \in R}) = i - 1
    BY <1>1, <1>2, <1>3, <1>4, Ranked
<1>6. \A x \in S : {y \in S : <<y, x>> \in R} = {y \in S : Before(y, x)}
    BY <1>2
<1>7. \A i \in 1 .. Cardinality(S) :
          InOrder(S, Before)[i] = CHOOSE x \in S : Cardinality({y \in S : Before(y, x)}) = i - 1
    BY DEF InOrder
<1> QED BY <1>5, <1>6, <1>7

\* The first of the entries with a content is one of them.
LEMMA FirstIs ==
    ASSUME NEW es, DOMAIN es \subseteq Nat, NEW c \in ContentsOf(es)
    PROVE  FirstOf(es, c) \in DOMAIN es /\ es[FirstOf(es, c)].content = c
<1> DEFINE T == {j \in DOMAIN es : es[j].content = c}
<1>1. T \in SUBSET Nat /\ T # {}
    BY DEF ContentsOf
<1>2. PICK n \in T : \A m \in T : n <= m
    <2> HIDE DEF T
    <2> QED BY <1>1, LeastNumber
<1>3. FirstOf(es, c) = CHOOSE x \in T : \A y \in T : x <= y
    BY DEF FirstOf, Min
<1> HIDE DEF T
<1>4. FirstOf(es, c) \in T
    BY <1>2, <1>3
<1> QED BY <1>4 DEF T

\* The entries in the order of their contents are entries.
LEMMA EntriesGrouped ==
    ASSUME NEW es, DOMAIN es \subseteq Nat, IsFiniteSet(DOMAIN es)
    PROVE  \A i \in 1 .. Cardinality(DOMAIN es) : Grouped(es)[i] \in DOMAIN es
<1> DEFINE S == DOMAIN es
           first(i) == FirstOf(es, es[i].content)
           R == {xy \in S \X S : Earlier(es, xy[1], xy[2])}
<1>1. \A i \in S : first(i) \in S /\ es[first(i)].content = es[i].content
    BY FirstIs DEF ContentsOf
<1>2. \A i, j \in S : first(i) = first(j) <=> es[i].content = es[j].content
    BY <1>1
<1>3. \A i, j \in S : Earlier(es, i, j)
          <=> first(i) < first(j) \/ (first(i) = first(j) /\ i < j)
    BY <1>2 DEF Earlier
<1>4. \A i \in S : i \in Nat /\ first(i) \in Nat
    BY <1>1
<1>5. \A x, y \in S : <<x, y>> \in R <=> Earlier(es, x, y)
    OBVIOUS
<1> HIDE DEF R, first
<1>6. \A x \in S : ~Earlier(es, x, x)
    BY <1>3, <1>4
<1>7. \A x, y, z \in S : Earlier(es, x, y) /\ Earlier(es, y, z) => Earlier(es, x, z)
    BY <1>3, <1>4
<1>8. \A x, y \in S : x = y \/ Earlier(es, x, y) \/ Earlier(es, y, x)
    BY <1>3, <1>4
<1> HIDE DEF S
<1>9. \A i \in 1 .. Cardinality(S) :
          \E x \in S : Cardinality({y \in S : <<y, x>> \in R}) = i - 1
    BY <1>5, <1>6, <1>7, <1>8, Ranked DEF S
<1>10. \A x \in S : {y \in S : <<y, x>> \in R} = {y \in S : Earlier(es, y, x)}
    BY <1>5
<1>11. \A i \in 1 .. Cardinality(S) : Grouped(es)[i]
           = CHOOSE x \in S : Cardinality({y \in S : Earlier(es, y, x)}) = i - 1
    BY DEF Grouped, InOrder, S
<1>12. \A i \in 1 .. Cardinality(S) : Grouped(es)[i] \in S
    BY <1>9, <1>10, <1>11
<1> QED BY <1>12 DEF S

\* The trials of finitely many cases, one case at a time
Picked(s) == CHOOSE x \in s : TRUE
Step(s, f) == IF s = {} THEN 0 ELSE Picked(s).trials + f[s \ {Picked(s)}]
Sums(S) == CHOOSE f : f = [s \in SUBSET S |-> Step(s, f)]

LEMMA CasesFinite ==
    ASSUME NEW S, IsFiniteSet(S), NEW s \in SUBSET S
    PROVE  /\ IsFiniteSet(s) /\ Cardinality(s) \in Nat /\ Cardinality(s) <= Cardinality(S)
           /\ s # {} => /\ Picked(s) \in s /\ Cardinality(s) # 0
                        /\ Cardinality(s \ {Picked(s)}) = Cardinality(s) - 1
           /\ s = {} => Cardinality(s) = 0
<1>1. IsFiniteSet(s) /\ Cardinality(s) \in Nat /\ Cardinality(s) <= Cardinality(S)
    BY FS_Subset, FS_CardinalityType
<1>2. s # {} => Picked(s) \in s
    BY DEF Picked
<1>3. Cardinality(s) = 0 <=> s = {}
    BY <1>1, FS_EmptySet
<1>4. s # {} => Cardinality(s \ {Picked(s)}) = Cardinality(s) - 1
    BY <1>1, <1>2, FS_RemoveElement
<1> QED BY <1>1, <1>2, <1>3, <1>4

\* There is such a function on the small sets, then on larger ones.
LEMMA SumsExist ==
    ASSUME NEW S, IsFiniteSet(S)
    PROVE  Sums(S) = [s \in SUBSET S |-> Step(s, Sums(S))]
<1> DEFINE upto(n) == {s \in SUBSET S : Cardinality(s) <= n}
           fits(n) == \E f : f = [s \in upto(n) |-> Step(s, f)]
           bad == {n \in Nat : ~fits(n)}
<1>1. bad = {}
    <2> SUFFICES ASSUME bad # {} PROVE FALSE
        OBVIOUS
    <2>1. PICK n \in bad : \A m \in bad : n <= m
        BY LeastNumber
    <2>2. CASE n = 0
        <3>1. upto(0) = {{}}
            <4>1. ASSUME NEW s \in upto(0) PROVE s = {}
                <5>1. s \in SUBSET S /\ Cardinality(s) <= 0
                    OBVIOUS
                <5> HIDE DEF upto
                <5>2. Cardinality(s) \in Nat /\ (s # {} => Cardinality(s) # 0)
                    BY <5>1, CasesFinite
                <5> QED BY <5>1, <5>2
            <4>2. {} \in upto(0)
                BY FS_EmptySet
            <4> QED BY <4>1, <4>2
        <3> DEFINE f == [s \in upto(0) |-> 0]
        <3>2. f = [s \in upto(0) |-> Step(s, f)]
            BY <3>1 DEF Step
        <3>3. fits(0)
            <4> HIDE DEF f
            <4> QED BY <3>2
        <3> QED BY <2>1, <2>2, <3>3
    <2>3. CASE n # 0
        <3>1. n \in Nat /\ n - 1 \in Nat /\ n - 1 \notin bad
            <4>1. n \in Nat
                BY <2>1
            <4>2. n - 1 \in Nat /\ n - 1 < n
                BY <4>1, <2>3
            <4>3. n - 1 \notin bad
                <5> HIDE DEF bad
                <5> QED BY <2>1, <4>1, <4>2
            <4> QED BY <4>1, <4>2, <4>3
        <3>2. PICK f : f = [s \in upto(n - 1) |-> Step(s, f)]
            BY <3>1
        <3> DEFINE g == [s \in upto(n) |-> Step(s, f)]
        <3>3. upto(n - 1) \subseteq upto(n)
            <4>1. \A s \in SUBSET S : Cardinality(s) \in Nat
                BY CasesFinite
            <4> QED BY <3>1, <4>1
        <3>4. \A s \in upto(n - 1) : g[s] = f[s]
            BY <3>2, <3>3, Zenon
        <3>5. ASSUME NEW s \in upto(n) PROVE Step(s, f) = Step(s, g)
            <4>1. CASE s = {}
                BY <4>1 DEF Step
            <4>2. CASE s # {}
                <5>1. s \ {Picked(s)} \in upto(n - 1)
                    BY <3>1, <4>2, CasesFinite
                <5>2. g[s \ {Picked(s)}] = f[s \ {Picked(s)}]
                    BY <3>4, <5>1, Zenon
                <5> QED BY <4>2, <5>2 DEF Step
            <4> QED BY <4>1, <4>2
        <3>6. g = [s \in upto(n) |-> Step(s, g)]
            BY <3>5, Zenon
        <3>7. fits(n)
            <4> HIDE DEF g
            <4> QED BY <3>6
        <3> QED BY <2>1, <3>7
    <2> QED BY <2>2, <2>3
<1>2. Cardinality(S) \in Nat /\ upto(Cardinality(S)) = SUBSET S
    BY CasesFinite
<1>3. fits(Cardinality(S))
    BY <1>1, <1>2
<1>4. \E f : f = [s \in SUBSET S |-> Step(s, f)]
    BY <1>2, <1>3
<1> QED BY <1>4 DEF Sums

LEMMA SamplesNatural ==
    ASSUME NEW load \in Load, IsFiniteSet(load.cases)
    PROVE  Samples(load) \in Nat
<1> DEFINE S == load.cases
           f == Sums(S)
           T == {Cardinality(s) : s \in {u \in SUBSET S : f[u] \notin Nat}}
<1>1. Samples(load) = f[S]
    BY Zenon DEF Samples, MapThenSumSet, MapThenFoldSet, Sums, Step, Picked
<1>2. S \in SUBSET Case
    BY DEF Load
<1>3. f = [s \in SUBSET S |-> Step(s, f)]
    BY SumsExist
<1>4. \A c \in S : c.trials \in Nat
    BY <1>2 DEF Case
<1> HIDE DEF f, S
<1>5. T = {}
    <2> SUFFICES ASSUME T # {} PROVE FALSE
        OBVIOUS
    <2>1. T \in SUBSET Nat
        BY CasesFinite DEF S
    <2>2. PICK n \in T : \A m \in T : n <= m
        <3> HIDE DEF T
        <3> QED BY <2>1, LeastNumber
    <2>3. PICK s \in SUBSET S : f[s] \notin Nat /\ Cardinality(s) = n
        OBVIOUS
    <2>4. f[s] = Step(s, f)
        BY <1>3
    <2>5. s # {}
        BY <2>3, <2>4 DEF Step
    <2>6. /\ Picked(s) \in s /\ Cardinality(s) \in Nat
          /\ Cardinality(s \ {Picked(s)}) = Cardinality(s) - 1
        BY <2>5, CasesFinite DEF S
    <2>7. Cardinality(s \ {Picked(s)}) \notin T
        <3> HIDE DEF T
        <3> QED BY <2>2, <2>3, <2>6
    <2>8. f[s \ {Picked(s)}] \in Nat
        BY <2>7
    <2>9. Picked(s).trials \in Nat
        BY <1>4, <2>6
    <2> QED BY <2>3, <2>4, <2>5, <2>8, <2>9 DEF Step
<1>6. f[S] \in Nat
    BY <1>5
<1> QED BY <1>1, <1>6

-----------------------------------------------------------------------------
(* Types                                                                    *)

Pcs == {"idle", "begun", "found", "read", "analyzed", "tested", "measured", "raised", "reported"}

\* What discovery says of a copy; an entry of a snapshot; the result of a test
CopyOK(i) == i.status \in Status /\ (i.status # "unresolved" => i.target \in Target)
EntryOK(e) == e.target \in Target /\ e.content \in Content /\ NameOf(e) \in Nat
ResultOK(r) == r.name \in Nat /\ r.content \in Content /\ r.load \in Load /\ IsFiniteSet(r.load.cases)
               /\ r.context \in Context \cup {None}

\* Which rules a diagnosis goes by is settled as it begins; of a path, as it
\* analyzes.
RulesKnown(ch) ==
    \/ ch.pc \in {"idle", "raised"} \/ ch.rules \in Ruleset
    \/ ch.ask.kind = "path" /\ ch.pc \in {"found", "read"}

CheckTyped(ch) ==
    /\ ch.pc \in Pcs /\ RulesKnown(ch)
    /\ DOMAIN ch.inv \subseteq Copy /\ \A c \in DOMAIN ch.inv : CopyOK(ch.inv[c])
    /\ DOMAIN ch.selected \subseteq Nat
    /\ \A i \in DOMAIN ch.selected : ch.selected[i] \in DOMAIN ch.inv
    /\ DOMAIN ch.entries \subseteq Nat /\ \A i \in DOMAIN ch.entries : EntryOK(ch.entries[i])
    /\ \A i \in DOMAIN ch.results : ResultOK(ch.results[i])
    /\ ch.static \subseteq Finding /\ ch.performance \subseteq Finding
    /\ ch.findings \subseteq Finding
    /\ ch.suppressed \subseteq ch.findings /\ ch.blocking \subseteq ch.findings
    /\ ch.state \in State \cup {"none"}

SiteTyped == site.disk \in [Copy -> Target \cup {None, Broken}] /\ site.budget \in Budget
CacheTyped == \A row \in cache : row.analysis.findings \subseteq Finding

TInv == /\ content \in [Target -> Content] /\ rules \in Ruleset /\ clock \in Nat
        /\ SiteTyped /\ CacheTyped /\ baselines \subseteq Row /\ CheckTyped(check)

LEMMA TypesOK == TInv => TypeOK
BY DEF TInv, CacheTyped, CheckTyped, Pcs, CopyOK, TypeOK, ToSet

LEMMA FoundIs ==
    ASSUME NEW rule \in RuleId, NEW severity \in Severity,
           NEW confidence \in {"low", "medium", "high"}, NEW about \in Seq(Nat), NEW kinds \in Nat
    PROVE  Found(rule, severity, confidence, about, kinds) \in Finding
BY DEF Found, Finding

LEMMA InitTInv == Init => TInv
<1> SUFFICES ASSUME Init PROVE TInv
    OBVIOUS
<1>1. PICK s \in Start[world] : site = s.site /\ content = s.content
    BY DEF Init
<1>2. world \in World /\ rules \in Ruleset /\ clock = 0 /\ cache = {} /\ baselines = {}
    BY DEF Init
<1>3. SiteTyped /\ content \in [Target -> Content]
    BY <1>1, <1>2, InstanceAssumption DEF SiteTyped
<1>4. /\ Idle.pc = "idle" /\ Idle.inv = <<>> /\ Idle.selected = <<>> /\ Idle.entries = <<>>
      /\ Idle.results = <<>> /\ Idle.static = {} /\ Idle.performance = {} /\ Idle.findings = {}
      /\ Idle.suppressed = {} /\ Idle.blocking = {} /\ Idle.state = "none"
    BY DEF Idle
<1>5. CheckTyped(Idle)
    BY <1>4, EmptyListed DEF CheckTyped, Pcs, RulesKnown
<1>6. check = Idle
    BY DEF Init
<1> QED BY <1>2, <1>3, <1>5, <1>6 DEF TInv, CacheTyped

\* A step of the diagnosis to ch
LEMMA CheckTInv ==
    ASSUME TInv, NEW ch, check' = ch, CheckTyped(ch),
           UNCHANGED <<content, rules, clock, site, cache, baselines>>
    PROVE  TInv'
BY DEF TInv, SiteTyped, CacheTyped

LEMMA RaiseTInv ==
    ASSUME TInv, CInv, Raise
    PROVE  CheckTyped(check')
<1>1. /\ check'.pc = "raised" /\ check'.inv = check.inv /\ check'.selected = check.selected
      /\ check'.entries = check.entries /\ check'.results = check.results
      /\ check'.static = check.static /\ check'.performance = check.performance
      /\ check'.findings = check.findings /\ check'.suppressed = check.suppressed
      /\ check'.blocking = check.blocking /\ check'.state = check.state
    BY DEF Raise, CInv, Fields
<1> QED BY <1>1 DEF TInv, CheckTyped, RulesKnown, Pcs

LEMMA BeginTInv == ASSUME TInv, Begin PROVE TInv'
<1>1. PICK a \in Asks[world] :
        check' = [Idle EXCEPT !.pc = IF a.kind = "path" THEN "found" ELSE "begun",
                              !.ask = a, !.rules = IF a.kind = "path" THEN None ELSE rules]
    BY DEF Begin
<1>2. UNCHANGED <<content, rules, clock, site, cache, baselines>>
    BY DEF Begin, around
<1>3. PICK ch : ch = check'
    OBVIOUS
<1>4. /\ ch.pc = IF a.kind = "path" THEN "found" ELSE "begun"
      /\ ch.ask = a /\ ch.rules = IF a.kind = "path" THEN None ELSE rules
      /\ ch.inv = <<>> /\ ch.selected = <<>> /\ ch.entries = <<>>
      /\ ch.results = <<>> /\ ch.static = {} /\ ch.performance = {} /\ ch.findings = {}
      /\ ch.suppressed = {} /\ ch.blocking = {} /\ ch.state = "none"
    BY <1>1, <1>3 DEF Idle
<1>5. RulesKnown(ch) /\ ch.pc \in Pcs
    BY <1>4 DEF RulesKnown, Pcs, TInv
<1>6. CheckTyped(ch)
    BY <1>4, <1>5, EmptyListed DEF CheckTyped
<1> QED BY <1>2, <1>3, <1>6, CheckTInv

\* What discovery makes of a disk has its types.
LEMMA DiscoverTyped ==
    ASSUME NEW s, s.disk \in [Copy -> Target \cup {None, Broken}], NEW p, NEW inv,
           inv = Discover(s, p)
    PROVE  DOMAIN inv \subseteq Copy /\ \A c \in DOMAIN inv : CopyOK(inv[c])
<1> DEFINE st == Materialized(s, p)
           sel == Selectors(st)
<1>1. DOMAIN st = Present(s, p) /\ Present(s, p) \subseteq Copy
    BY DEF Materialized, Present
<1>2. \A c \in Present(s, p) :
          /\ st[c] \in {"unresolved", "inactive", "shadowed", "active"}
          /\ st[c] # "unresolved" => Resolves(s, c)
    BY DEF Materialized
<1> HIDE DEF st
<1> HIDE DEF sel
<1>3. inv = [c \in Present(s, p) |-> [status |-> SettledStatus(st, sel, c), selector |-> sel[c],
                                      target |-> s.disk[c]]]
    BY <1>1 DEF Discover, st, sel
<1>4. ASSUME NEW c \in Present(s, p) PROVE CopyOK(inv[c])
    <2>1. inv[c].status = SettledStatus(st, sel, c) /\ inv[c].target = s.disk[c]
        BY <1>3
    <2>2. \/ SettledStatus(st, sel, c) = st[c]
          \/ SettledStatus(st, sel, c) \in {"ambiguous", "shadowed"} /\ st[c] = "active"
        BY DEF SettledStatus
    <2>3. s.disk[c] # None /\ c \in Copy
        BY <1>1 DEF Present
    <2>4. inv[c].status # "unresolved" => Resolves(s, c)
        BY <1>2, <2>1, <2>2
    <2>5. inv[c].status \in Status
        BY <1>2, <2>1, <2>2 DEF Status
    <2> QED BY <2>1, <2>3, <2>4, <2>5 DEF CopyOK, Resolves
<1> QED BY <1>1, <1>3, <1>4

\* Whichever copies are chosen, they are in the inventory.
LEMMA ChosenTyped ==
    ASSUME NEW a, a.kind \in {"named", "all", "session"}, NEW inv, DOMAIN inv \subseteq Copy,
           a.kind = "named" => Resolve(inv, a.selector) # {}
    PROVE  /\ DOMAIN Chosen(a, inv) \subseteq Nat
           /\ \A i \in DOMAIN Chosen(a, inv) : Chosen(a, inv)[i] \in DOMAIN inv
<1>1. CASE a.kind = "named"
    <2>1. Resolve(inv, a.selector) \subseteq DOMAIN inv
        BY DEF Resolve, Selectable
    <2>2. PICK c \in DOMAIN inv : Chosen(a, inv) = <<c>>
        BY <1>1, <2>1 DEF Chosen
    <2> QED BY <2>2
<1>2. CASE a.kind = "all"
    <2>1. IsFiniteSet(DOMAIN inv) /\ Cardinality(DOMAIN inv) \in Nat
        BY CopyFinite, FS_Subset, FS_CardinalityType
    <2>2. Chosen(a, inv) = InOrder(DOMAIN inv, Before)
        BY <1>2 DEF Chosen
    <2>3. DOMAIN InOrder(DOMAIN inv, Before) = 1 .. Cardinality(DOMAIN inv)
        BY DEF InOrder
    <2>4. \A i \in 1 .. Cardinality(DOMAIN inv) : InOrder(DOMAIN inv, Before)[i] \in DOMAIN inv
        BY CopiesInOrder
    <2> QED BY <2>1, <2>2, <2>3, <2>4
<1>3. CASE a.kind = "session"
    <2>1. CASE ~Collected(a.session)
        <3>1. Chosen(a, inv) = <<>>
            BY <1>3, <2>1 DEF Chosen
        <3> QED BY <3>1, EmptyListed
    <2>2. CASE Collected(a.session)
        <3> DEFINE picked == DOMAIN SessionCopies(inv, a.platform, a.session)
        <3>1. Chosen(a, inv) = SessionCopies(inv, a.platform, a.session)
            BY <1>3, <2>2 DEF Chosen
        <3>2. /\ picked \subseteq DOMAIN Sorted
              /\ \A i \in picked : /\ Mapped(inv, Sorted[i]) # {}
                                   /\ SessionCopies(inv, a.platform, a.session)[i]
                                        = CHOOSE c \in Mapped(inv, Sorted[i]) : TRUE
            BY DEF SessionCopies, Signals
        <3>3. \A i : Mapped(inv, Sorted[i]) \subseteq DOMAIN inv
            BY DEF Mapped, Signalled, Selectable
        <3>4. DOMAIN Sorted \subseteq Nat
            BY SortedAssumption, LenProperties
        <3> HIDE DEF picked
        <3>5. \A i \in picked : SessionCopies(inv, a.platform, a.session)[i] \in DOMAIN inv
            BY <3>2, <3>3
        <3> QED BY <3>1, <3>2, <3>4, <3>5 DEF picked
    <2> QED BY <2>1, <2>2
<1> QED BY <1>1, <1>2, <1>3

LEMMA FindTInv == ASSUME IInv, CInv, TInv, Find PROVE TInv'
<1>1. UNCHANGED <<content, rules, clock, site, cache, baselines>> /\ check.pc = "begun"
    BY DEF Find, around
<1>2. CASE Raise
    BY <1>1, <1>2, RaiseTInv, CheckTInv
<1>3. CASE ~Raise
    <2> DEFINE a == check.ask
               inv == Discover(site, a.platform)
    <2>1. /\ check' = [check EXCEPT !.pc = "found", !.inv = inv, !.selected = Chosen(a, inv)]
          /\ a.kind = "named" => Resolve(inv, a.selector) # {}
        BY <1>3 DEF Find
    <2>2. a.kind \in {"named", "all", "session"}
        <3>1. a.kind \in Kind
            BY <1>1, InstanceAssumption DEF CInv, Known
        <3>2. a.kind # "path"
            BY <1>1 DEF IInv, ReportOK, PathAlone
        <3> QED BY <3>1, <3>2 DEF Kind
    <2>3. DOMAIN inv \subseteq Copy /\ \A c \in DOMAIN inv : CopyOK(inv[c])
        BY DiscoverTyped DEF TInv, SiteTyped
    <2> HIDE DEF inv
    <2>4. PICK ch : ch = check'
        OBVIOUS
    <2>5. /\ ch.pc = "found" /\ ch.inv = inv /\ ch.selected = Chosen(a, inv)
          /\ ch.rules = check.rules /\ ch.ask = a
          /\ ch.entries = check.entries /\ ch.results = check.results
          /\ ch.static = check.static /\ ch.performance = check.performance
          /\ ch.findings = check.findings /\ ch.suppressed = check.suppressed
          /\ ch.blocking = check.blocking /\ ch.state = check.state
        BY <2>1, <2>4 DEF CInv, Fields
    <2>6. /\ DOMAIN Chosen(a, inv) \subseteq Nat
          /\ \A i \in DOMAIN Chosen(a, inv) : Chosen(a, inv)[i] \in DOMAIN inv
        BY <2>1, <2>2, <2>3, ChosenTyped
    <2>7. RulesKnown(ch)
        BY <1>1, <2>2, <2>5 DEF TInv, CheckTyped, RulesKnown
    <2>8. CheckTyped(ch)
        BY <2>3, <2>5, <2>6, <2>7 DEF TInv, CheckTyped, Pcs
    <2> QED BY <1>1, <2>4, <2>8, CheckTInv
<1> QED BY <1>2, <1>3

\* What is read is at a target, and has a name.
LEMMA ReadTInv == ASSUME CInv, TInv, ReadSnapshots \/ ReadFails PROVE TInv'
<1>1. UNCHANGED <<content, rules, clock, site, cache, baselines>> /\ check.pc = "found"
    BY DEF ReadSnapshots, ReadFails, around
<1>2. PICK ch : ch = check'
    OBVIOUS
<1>3. /\ ch.pc = "read" /\ ch.inv = check.inv /\ ch.selected = check.selected
      /\ ch.rules = check.rules /\ ch.ask = check.ask /\ ch.results = check.results
      /\ ch.static = check.static /\ ch.performance = check.performance
      /\ ch.findings = check.findings /\ ch.suppressed = check.suppressed
      /\ ch.blocking = check.blocking /\ ch.state = check.state
    BY <1>2 DEF ReadSnapshots, ReadFails, CInv, Fields
<1>4. \/ ch.entries = <<Entry(None, check.ask.target)>> /\ check.ask.kind = "path"
      \/ \E unreadable : ch.entries = Reads(check.selected, unreadable)
    <2>1. CASE ReadSnapshots
        BY <1>2, <2>1 DEF ReadSnapshots, CInv, Fields
    <2>2. CASE ReadFails
        <3>1. PICK c : check' = [check EXCEPT !.pc = "read", !.failed = TRUE,
                                              !.entries = Reads(check.selected, {c})]
            BY <2>2 DEF ReadFails
        <3> QED BY <1>2, <3>1 DEF CInv, Fields
    <2> QED BY <2>1, <2>2
<1>5. ASSUME NEW t \in Target, NEW c, c = None \/ c \in Copy
      PROVE  EntryOK(Entry(c, t))
    <2>1. content[t] \in Content /\ TitleOf[t] \in Nat
        BY DiagnosisAssumption DEF TInv
    <2>2. c # None => c.name \in Nat
        BY <1>5, PlaceAssumption DEF Copy
    <2> QED BY <2>1, <2>2 DEF EntryOK, Entry, NameOf
<1>6. DOMAIN ch.entries \subseteq Nat /\ \A i \in DOMAIN ch.entries : EntryOK(ch.entries[i])
    <2>1. CASE ch.entries = <<Entry(None, check.ask.target)>> /\ check.ask.kind = "path"
        <3>1. check.ask.target \in Target
            BY <1>1, <2>1, InstanceAssumption DEF CInv, Known
        <3>2. EntryOK(Entry(None, check.ask.target))
            BY <1>5, <3>1
        <3> HIDE DEF Entry
        <3>3. \A e : DOMAIN <<e>> = {1} /\ <<e>>[1] = e
            OBVIOUS
        <3> QED BY <2>1, <3>2, <3>3
    <2>2. CASE \E unreadable : ch.entries = Reads(check.selected, unreadable)
        <3>1. PICK unreadable : ch.entries = Reads(check.selected, unreadable)
            BY <2>2
        <3>2. DOMAIN ch.entries \subseteq DOMAIN check.selected
            BY <3>1 DEF Reads
        <3>3. ASSUME NEW i \in DOMAIN ch.entries PROVE EntryOK(ch.entries[i])
            <4> DEFINE c == check.selected[i]
            <4>1. ch.entries[i] = Entry(c, check.inv[c].target) /\ ~Unresolved(c)
                BY <3>1 DEF Reads
            <4>2. c \in DOMAIN check.inv /\ c \in Copy
                BY <3>2 DEF TInv, CheckTyped
            <4>3. check.inv[c].target \in Target
                BY <4>1, <4>2 DEF TInv, CheckTyped, CopyOK, Unresolved
            <4> HIDE DEF c
            <4> QED BY <1>5, <4>1, <4>2, <4>3
        <3> QED BY <3>2, <3>3 DEF TInv, CheckTyped
    <2> QED BY <1>4, <2>1, <2>2
<1>7. RulesKnown(ch)
    BY <1>1, <1>3 DEF TInv, CheckTyped, RulesKnown
<1>8. CheckTyped(ch)
    BY <1>3, <1>6, <1>7 DEF TInv, CheckTyped, Pcs
<1> QED BY <1>1, <1>2, <1>8, CheckTInv

\* What an analysis finds, or the cache says it found, are findings.
LEMMA AnalyzedTyped ==
    ASSUME CacheTyped, NEW c \in Content, NEW title, NEW ruleset \in Ruleset
    PROVE  Analyzed(c, title, ruleset).findings \subseteq Finding
<1> DEFINE hits == {row \in cache : row.key = CacheKey(c, title, ruleset)}
           missing == Found("ASD011", "medium", "high", <<c>>, 1)
<1>1. CASE hits = {}
    <2>1. Analyzed(c, title, ruleset) = Analysis(c, title, ruleset)
        BY <1>1 DEF Analyzed
    <2>2. <<c>> \in Seq(Nat)
        BY DiagnosisAssumption
    <2>3. missing \in Finding
        <3>1. "ASD011" \in RuleId
            BY DiagnosisAssumption
        <3>2. "medium" \in Severity
            BY DEF Severity
        <3> QED BY <2>2, <3>1, <3>2, FoundIs
    <2>4. RuleFindings[c][ruleset] \subseteq Finding
        BY DiagnosisAssumption
    <2> HIDE DEF missing
    <2>5. Analysis(c, title, ruleset).findings
            = RuleFindings[c][ruleset] \cup Where(Declares[c] # title, missing)
        BY DEF Analysis, missing
    <2> QED BY <2>1, <2>3, <2>4, <2>5 DEF Where
<1>2. CASE hits # {}
    <2>1. PICK row \in hits : row = CHOOSE r \in hits : TRUE
        BY <1>2
    <2>2. Analyzed(c, title, ruleset) = row.analysis
        BY <1>2, <2>1 DEF Analyzed
    <2> QED BY <2>1, <2>2 DEF CacheTyped
<1> QED BY <1>1, <1>2

LEMMA AnalyzeTInv == ASSUME CInv, TInv, Analyze PROVE TInv'
<1> DEFINE es == check.entries
           ruleset == IF check.ask.kind = "path" THEN rules ELSE check.rules
           title(c) == TitleOf[es[FirstOf(es, c)].target]
           row(c) == [key |-> CacheKey(c, title(c), ruleset),
                      analysis |-> Analyzed(c, title(c), ruleset)]
           rows == {row(c) : c \in AnalyzedOnce(es)}
<1>1. /\ UNCHANGED <<content, rules, clock, site, baselines>> /\ cache' = cache \cup rows
      /\ check.pc = "read"
    BY DEF Analyze, around
<1>2. ruleset \in Ruleset
    BY <1>1 DEF TInv, CheckTyped, RulesKnown
<1>3. AnalyzedOnce(es) \subseteq Content
    BY DEF AnalyzedOnce, ContentsOf, TInv, CheckTyped, EntryOK
<1>4. \A r \in rows : r.analysis.findings \subseteq Finding
    <2> SUFFICES ASSUME NEW c \in AnalyzedOnce(es)
                 PROVE  Analyzed(c, title(c), ruleset).findings \subseteq Finding
        OBVIOUS
    <2> HIDE DEF title, ruleset
    <2> QED BY <1>2, <1>3, AnalyzedTyped DEF TInv
<1> HIDE DEF rows
<1>5. CacheTyped'
    BY <1>1, <1>4 DEF TInv, CacheTyped
<1>6. CheckTyped(check')
    <2>1. CASE Raise
        BY <2>1, RaiseTInv
    <2>2. CASE ~Raise
        <3>1. check' = [check EXCEPT !.pc = "analyzed", !.rules = ruleset,
                             !.static = UNION {r.analysis.findings : r \in rows},
                             !.failed = @ \/ \E r \in rows : r.analysis.failed]
            BY <2>2 DEF Analyze, rows
        <3>2. PICK ch : ch = check'
            OBVIOUS
        <3> HIDE DEF ruleset
        <3>3. /\ ch.pc = "analyzed" /\ ch.inv = check.inv /\ ch.selected = check.selected
              /\ ch.rules = ruleset /\ ch.entries = check.entries /\ ch.results = check.results
              /\ ch.static = UNION {r.analysis.findings : r \in rows}
              /\ ch.performance = check.performance
              /\ ch.findings = check.findings /\ ch.suppressed = check.suppressed
              /\ ch.blocking = check.blocking /\ ch.state = check.state
            BY <3>1, <3>2 DEF CInv, Fields
        <3>4. ch.static \subseteq Finding
            BY <1>4, <3>3
        <3>5. CheckTyped(ch)
            BY <1>2, <3>3, <3>4 DEF TInv, CheckTyped, RulesKnown, Pcs
        <3> QED BY <3>2, <3>5
    <2> QED BY <2>1, <2>2
<1> QED BY <1>1, <1>5, <1>6 DEF TInv, SiteTyped

LEMMA LeakedTyped == Leaked \in Load /\ IsFiniteSet(Leaked.cases)
<1>1. Leaked.latency = 0 /\ DOMAIN Leaked = {"cases", "latency"}
    BY DEF Leaked
<1>2. \A k : IsFiniteSet({k})
    BY FS_Singleton
<1>3. IsFiniteSet(Leaked.cases)
    BY <1>2 DEF Leaked
<1>4. Leaked \in Load
    BY DEF Leaked, Load, Case
<1> QED BY <1>3, <1>4

\* The results of the tests are of the entries, in some order.
LEMMA TestTInv == ASSUME CInv, MInv, TInv, Test PROVE TInv'
<1> DEFINE es == check.entries
           order == Grouped(es)
           n == Cardinality(DOMAIN es)
           context == check.ask.context
<1>1. UNCHANGED <<content, rules, clock, site, cache, baselines>> /\ check.pc = "analyzed"
    BY DEF Test, Outcome, around
<1>2. n \in Nat
    BY FS_CardinalityType DEF MInv, Tested
<1>3. DOMAIN order = 1 .. n /\ \A i \in 1 .. n : order[i] \in DOMAIN es
    <2>1. DOMAIN order = 1 .. n
        BY DEF Grouped, InOrder
    <2>2. DOMAIN es \subseteq Nat /\ IsFiniteSet(DOMAIN es)
        BY DEF MInv, Tested, TInv, CheckTyped
    <2> QED BY <2>1, <2>2, EntriesGrouped
<1>4. ASSUME NEW ran, NEW rs, Outcome(ran, rs), \A i \in DOMAIN rs : ResultOK(rs[i])
      PROVE  TInv'
    <2>1. PICK ch : ch = check'
        OBVIOUS
    <2>2. /\ ch.pc = "tested" /\ ch.inv = check.inv /\ ch.selected = check.selected
          /\ ch.rules = check.rules /\ ch.entries = check.entries /\ ch.results = rs
          /\ ch.static = check.static /\ ch.performance = check.performance
          /\ ch.findings = check.findings /\ ch.suppressed = check.suppressed
          /\ ch.blocking = check.blocking /\ ch.state = check.state
        BY <1>4, <2>1 DEF Outcome, CInv, Fields
    <2>3. RulesKnown(ch)
        BY <1>1, <2>2 DEF TInv, CheckTyped, RulesKnown
    <2>4. CheckTyped(ch)
        BY <1>4, <2>2, <2>3 DEF TInv, CheckTyped, Pcs
    <2> QED BY <1>1, <2>1, <2>4, CheckTInv
<1>5. CASE \E ran : Outcome(ran, <<>>)
    BY <1>4, <1>5, EmptyListed
<1>6. CASE ~\E ran : Outcome(ran, <<>>)
    <2>1. PICK load \in [DOMAIN order -> Loads[world]] :
            LET results == [i \in DOMAIN order |-> Result(es[order[i]], context, load[i])] IN
            \/ Outcome("done", results)
            \/ \E i \in DOMAIN order : \E tail \in {<<>>, <<Leak(es[order[i]])>>} :
                  Outcome("failed", SubSeq(results, 1, i - 1) \o tail)
        BY <1>6 DEF Test
    <2> DEFINE results == [i \in DOMAIN order |-> Result(es[order[i]], context, load[i])]
    <2>0. context \in Context
        BY <1>1, InstanceAssumption DEF CInv, Known
    <2> HIDE DEF context
    <2>2. ASSUME NEW i \in 1 .. n, NEW l \in Load, IsFiniteSet(l.cases),
                 NEW x \in Context \cup {None}
          PROVE  ResultOK(Result(es[order[i]], x, l))
        <3>1. EntryOK(es[order[i]])
            BY <1>3 DEF TInv, CheckTyped
        <3> QED BY <2>2, <3>1 DEF ResultOK, Result, EntryOK
    <2>3. \A i \in 1 .. n : ResultOK(results[i])
        <3>1. \A i \in 1 .. n : load[i] \in Load /\ IsFiniteSet(load[i].cases)
            BY <1>3, InstanceAssumption DEF CInv
        <3>2. \A i \in 1 .. n : results[i] = Result(es[order[i]], context, load[i])
            BY <1>3
        <3> HIDE DEF results, n, order
        <3> QED BY <2>0, <2>2, <3>1, <3>2
    <2>4. \A i \in 1 .. n : ResultOK(Leak(es[order[i]]))
        BY <2>2, LeakedTyped DEF Leak
    <2>5. DOMAIN results = 1 .. n
        BY <1>3
    <2>6. results = [i \in 1 .. n |-> results[i]]
        BY <1>3
    <2> HIDE DEF results, n, order
    <2>7. Listed(results) /\ Len(results) = n
        BY <1>2, <2>6, ListedFunction
    <2>8. CASE Outcome("done", results)
        BY <1>4, <2>3, <2>5, <2>8
    <2>9. CASE \E i \in DOMAIN order : \E tail \in {<<>>, <<Leak(es[order[i]])>>} :
                  Outcome("failed", SubSeq(results, 1, i - 1) \o tail)
        <3>0. PICK i \in 1 .. n : \E tail \in {<<>>, <<Leak(es[order[i]])>>} :
                  Outcome("failed", SubSeq(results, 1, i - 1) \o tail)
            BY <1>3, <2>9
        <3>1. PICK tail : /\ Outcome("failed", SubSeq(results, 1, i - 1) \o tail)
                          /\ tail = <<>> \/ tail = <<Leak(es[order[i]])>>
            BY <3>0
        <3> DEFINE prefix == SubSeq(results, 1, i - 1)
        <3>2. /\ Listed(prefix) /\ Len(prefix) = i - 1
              /\ \A j \in 1 .. i - 1 : prefix[j] = results[j]
            BY <1>2, <2>7, ListedPrefix
        <3>3. Listed(tail) /\ \A j \in 1 .. Len(tail) : ResultOK(tail[j])
            <4>1. CASE tail = <<>>
                BY <4>1, EmptyListed
            <4>2. CASE tail = <<Leak(es[order[i]])>>
                <5> HIDE DEF es
                <5>1. tail = [j \in 1 .. 1 |-> tail[j]] /\ tail[1] = Leak(es[order[i]])
                    BY <4>2
                <5>2. Listed(tail) /\ Len(tail) = 1
                    BY <5>1, ListedFunction
                <5> QED BY <2>4, <5>1, <5>2
            <4> QED BY <3>1, <4>1, <4>2
        <3> HIDE DEF prefix
        <3>4. /\ Listed(prefix \o tail) /\ Len(prefix \o tail) = Len(prefix) + Len(tail)
              /\ \A j \in 1 .. Len(prefix) : (prefix \o tail)[j] = prefix[j]
              /\ \A j \in 1 .. Len(tail) : (prefix \o tail)[Len(prefix) + j] = tail[j]
            BY <3>2, <3>3, ListedConcat
        <3>5. ASSUME NEW j \in DOMAIN (prefix \o tail)
              PROVE  ResultOK((prefix \o tail)[j])
            <4>1. j \in 1 .. Len(prefix) + Len(tail) /\ Len(tail) \in Nat
                BY <3>3, <3>4, <3>5, ListedIs
            <4>2. CASE j <= i - 1
                BY <1>2, <2>3, <3>2, <3>4, <4>1, <4>2
            <4>3. CASE j > i - 1
                <5>1. j - Len(prefix) \in 1 .. Len(tail) /\ j = Len(prefix) + (j - Len(prefix))
                    BY <3>2, <4>1, <4>3
                <5> QED BY <3>3, <3>4, <5>1
            <4> QED BY <1>2, <4>1, <4>2, <4>3
        <3> QED BY <1>4, <3>1, <3>4, <3>5 DEF prefix
    <2> QED BY <2>1, <2>8, <2>9 DEF results
<1> QED BY <1>5, <1>6

\* What measurements find are findings.
LEMMA PerformanceTyped ==
    ASSUME NEW rows, NEW s, NEW contents \in SUBSET Content, NEW rs,
           \A i \in DOMAIN rs : ResultOK(rs[i]), NEW now, NEW ruleset, NEW controlled
    PROVE  Performance(rows, s, contents, rs, now, ruleset, controlled) \subseteq Finding
<1> DEFINE before(i) == rows \cup Recorded(s, rs, now, i - 1, ruleset, controlled)
           R(i) == ResultFindings(before(i), s, rs[i], ruleset, controlled)
           C == {Found("ASD700", "low", "medium", <<c>>, 2) :
                    c \in IF s.context THEN contents \cap Heavy ELSE {}}
<1>0. /\ "ASD700" \in RuleId /\ "ASD701" \in RuleId /\ "ASD702" \in RuleId
      /\ "low" \in Severity /\ "medium" \in Severity /\ "high" \in Severity
    BY DiagnosisAssumption DEF Severity
<1>1. ASSUME NEW i \in DOMAIN rs PROVE R(i) \subseteq Finding
    <2> DEFINE r == rs[i]
               f0 == Found("ASD700", "medium", IF Samples(r.load) >= 3 THEN "high" ELSE "medium",
                           <<r.name, r.load.latency>>, 2)
               f1 == Found("ASD701", "medium", "high", <<r.name, r.content>>, 2)
               f2 == Found("ASD702", "high", "high", <<r.name>>, 2)
    <2>1. r.name \in Nat /\ r.load.latency \in Nat /\ r.content \in Nat
        BY DiagnosisAssumption DEF ResultOK, Load
    <2>2. R(i) = Where(OverBudget(s, r.load), f0) \cup Where(TimedOut(r.load), f2)
                 \cup Where(Regressed(before(i), s, r, ruleset, controlled), f1)
        BY DEF ResultFindings
    <2> HIDE DEF r
    <2>3. /\ <<r.name, r.load.latency>> \in Seq(Nat) /\ <<r.name, r.content>> \in Seq(Nat)
          /\ <<r.name>> \in Seq(Nat)
        BY <2>1
    <2>4. f1 \in Finding /\ f2 \in Finding
        BY <1>0, <2>3, FoundIs
    <2>5. f0 \in Finding
        <3>1. (IF Samples(r.load) >= 3 THEN "high" ELSE "medium") \in {"low", "medium", "high"}
            OBVIOUS
        <3> QED BY <1>0, <2>3, <3>1, FoundIs
    <2> HIDE DEF f0, f1, f2, R
    <2> QED BY <2>2, <2>4, <2>5 DEF Where
<1>2. C \subseteq Finding
    <2> SUFFICES ASSUME NEW c \in Content
                 PROVE  Found("ASD700", "low", "medium", <<c>>, 2) \in Finding
        OBVIOUS
    <2>1. <<c>> \in Seq(Nat)
        BY DiagnosisAssumption
    <2> QED BY <1>0, <2>1, FoundIs
<1>3. Performance(rows, s, contents, rs, now, ruleset, controlled)
        = (UNION {R(i) : i \in DOMAIN rs}) \cup C
    BY DEF Performance
<1> HIDE DEF R, C
<1> QED BY <1>1, <1>2, <1>3

\* The rows that measurements add are rows.
LEMMA RecordedTyped ==
    ASSUME NEW s, s.budget \in Budget, NEW rs, Listed(rs),
           \A i \in DOMAIN rs : ResultOK(rs[i]), NEW now \in Nat, NEW ruleset \in Ruleset,
           NEW controlled
    PROVE  Recorded(s, rs, now, Len(rs), ruleset, controlled) \subseteq Row
<1>1. Len(rs) \in Nat /\ DOMAIN rs = 1 .. Len(rs)
    BY ListedIs
<1> SUFFICES ASSUME NEW i \in 1 .. Len(rs), Steady(rs[i].load)
             PROVE  [at |-> now + i, series |-> Series(s, rs[i], ruleset),
                     content |-> rs[i].content, samples |-> Samples(rs[i].load),
                     latency |-> rs[i].load.latency] \in Row
    BY DEF Recorded
<1>2. ResultOK(rs[i])
    BY <1>1
<1> DEFINE n == Samples(rs[i].load)
<1>3. n \in Nat /\ n >= 3
    BY <1>2, SamplesNatural DEF ResultOK, Steady
<1>4. rs[i].load.latency \in Nat /\ rs[i].name \in Nat /\ rs[i].content \in Content
      /\ rs[i].context \in Context \cup {None}
    BY <1>2 DEF ResultOK, Load
<1>5. now + i \in Nat
    BY <1>1
<1>6. Series(s, rs[i], ruleset) \in [name : Nat, context : Context \cup {None}, rules : Ruleset,
                                  budget : Budget]
    BY <1>4 DEF Series
<1> HIDE DEF n
<1>7. [at |-> now + i, series |-> Series(s, rs[i], ruleset), content |-> rs[i].content,
       samples |-> n, latency |-> rs[i].load.latency] \in Row
    BY <1>3, <1>4, <1>5, <1>6 DEF Row
<1> QED BY <1>7 DEF n

LEMMA MeasureTInv == ASSUME CInv, MInv, TInv, Measure PROVE TInv'
<1> DEFINE rs == check.results
           now == Len(measured)
           controlled == check.ask.controlled /\ rs # <<>>
           performance == Performance(baselines, site, Contents(check), rs, now, check.rules,
                                      controlled)
           more == Recorded(site, rs, now, Len(rs), check.rules, controlled)
<1>1. /\ UNCHANGED <<content, rules, clock, site, cache>> /\ check.pc = "tested"
      /\ baselines' = baselines \cup more
      /\ check' = [check EXCEPT !.pc = "measured", !.performance = performance]
    BY DEF Measure, around
<1>2. /\ check.rules \in Ruleset /\ \A i \in DOMAIN rs : ResultOK(rs[i])
      /\ Contents(check) \subseteq Content
    BY <1>1 DEF TInv, CheckTyped, RulesKnown, Contents, ContentsOf, EntryOK
<1>3. performance \subseteq Finding
    BY <1>2, PerformanceTyped
<1>4. more \subseteq Row
    <2>1. now \in Nat /\ Listed(rs)
        BY ListedIs DEF MInv, Tested
    <2>2. site.budget \in Budget
        BY DEF TInv, SiteTyped
    <2> HIDE DEF controlled, rs, now
    <2> QED BY <1>2, <2>1, <2>2, RecordedTyped
<1> HIDE DEF performance, more
<1>5. PICK ch : ch = check'
    OBVIOUS
<1>6. /\ ch.pc = "measured" /\ ch.inv = check.inv /\ ch.selected = check.selected
      /\ ch.rules = check.rules /\ ch.entries = check.entries /\ ch.results = check.results
      /\ ch.static = check.static /\ ch.performance = performance
      /\ ch.findings = check.findings /\ ch.suppressed = check.suppressed
      /\ ch.blocking = check.blocking /\ ch.state = check.state
    BY <1>1, <1>5 DEF CInv, Fields
<1>7. CheckTyped(ch)
    BY <1>2, <1>3, <1>6 DEF TInv, CheckTyped, RulesKnown, Pcs
<1> QED BY <1>1, <1>4, <1>5, <1>7 DEF TInv, SiteTyped, CacheTyped

\* What the trials confirm are findings.
LEMMA CausalTyped ==
    ASSUME NEW rs, \A i \in DOMAIN rs : ResultOK(rs[i])
    PROVE  CausalFindings(rs) \subseteq Finding
<1> DEFINE grade(g) == IF \E r \in InGroup(rs, g) : r[2].timedOut THEN "high" ELSE "medium"
<1>1. ASSUME NEW g \in Groups(rs) PROVE g[2] \in Nat /\ g[3] \in Nat
    <2>0. PICK i \in DOMAIN rs : \E k \in rs[i].load.cases : g = GroupOf(rs[i], k)
        BY DEF Groups
    <2>1. PICK k \in rs[i].load.cases : g = GroupOf(rs[i], k)
        BY <2>0
    <2>2. ResultOK(rs[i])
        OBVIOUS
    <2>3. k \in Case
        BY <2>2 DEF ResultOK, Load
    <2>4. g[2] = rs[i].content /\ g[3] = k.id
        BY <2>1 DEF GroupOf
    <2> QED BY <2>2, <2>3, <2>4, DiagnosisAssumption DEF ResultOK, Case
<1>2. ASSUME NEW f \in CausalFindings(rs) PROVE f \in Finding
    <2>1. PICK g \in Groups(rs) : f = Found("ASD600", grade(g), "high", <<g[2], g[3]>>, 2)
        BY DEF CausalFindings
    <2>2. <<g[2], g[3]>> \in Seq(Nat)
        BY <1>1
    <2>3. grade(g) \in Severity
        BY DEF Severity
    <2>4. "ASD600" \in RuleId
        BY DiagnosisAssumption
    <2> HIDE DEF grade
    <2> QED BY <2>1, <2>2, <2>3, <2>4, FoundIs
<1> QED BY <1>2

LEMMA ConcludeTInv == ASSUME CInv, TInv, Conclude PROVE TInv'
<1> DEFINE found == AllFindings(check)
           suppressed == Suppressed(files, found, Hash(check), check.rules, clock)
<1>1. /\ UNCHANGED <<content, rules, clock, site, cache, baselines>> /\ check.pc = "measured"
      /\ check' = [check EXCEPT !.pc = "reported", !.findings = found,
                    !.suppressed = suppressed, !.blocking = Blocking(found, suppressed),
                    !.state = ResultState(check)]
    BY DEF Conclude, around
<1>2. found \subseteq Finding
    BY CausalTyped DEF AllFindings, TInv, CheckTyped
<1>3. suppressed \subseteq found /\ Blocking(found, suppressed) \subseteq found
    BY DEF Suppressed, Blocking
<1>4. ResultState(check) \in State
    BY DEF ResultState, State
<1> HIDE DEF found, suppressed
<1>5. PICK ch : ch = check'
    OBVIOUS
<1>6. /\ ch.pc = "reported" /\ ch.inv = check.inv /\ ch.selected = check.selected
      /\ ch.rules = check.rules /\ ch.entries = check.entries /\ ch.results = check.results
      /\ ch.static = check.static /\ ch.performance = check.performance
      /\ ch.findings = found /\ ch.suppressed = suppressed
      /\ ch.blocking = Blocking(found, suppressed) /\ ch.state = ResultState(check)
    BY <1>1, <1>5 DEF CInv, Fields
<1>7. CheckTyped(ch)
    BY <1>1, <1>2, <1>3, <1>4, <1>6 DEF TInv, CheckTyped, RulesKnown, Pcs
<1> QED BY <1>1, <1>5, <1>7, CheckTInv

LEMMA AroundTInv ==
    ASSUME CInv, TInv, EditSkill \/ Move \/ EditBudget \/ UpdateRules \/ Accept \/ Tick \/ UNCHANGED vars
    PROVE  TInv'
<1>1. UNCHANGED <<check, cache, baselines>>
    BY DEF EditSkill, Move, EditBudget, UpdateRules, Accept, Tick, vars
<1>2. CheckTyped(check') /\ CacheTyped' /\ baselines' \subseteq Row
    BY <1>1 DEF TInv, CacheTyped
<1>3. /\ content' \in [Target -> Content] /\ rules' \in Ruleset /\ clock' \in Nat
    BY DEF TInv, EditSkill, Move, EditBudget, UpdateRules, Accept, Tick, vars
<1>4. SiteTyped'
    <2>1. CASE UNCHANGED site
        BY <2>1 DEF TInv, SiteTyped
    <2>2. CASE Move
        <3>1. PICK c \in Copy, t \in Target \cup {None} : site' = [site EXCEPT !.disk[c] = t]
            BY <2>2 DEF Move
        <3>2. site'.disk \in [Copy -> Target \cup {None, Broken}] /\ site'.budget = site.budget
            BY <3>1 DEF TInv, SiteTyped
        <3> QED BY <3>2 DEF TInv, SiteTyped
    <2>3. CASE EditBudget
        <3>1. PICK budget \in Budgets[world] : site' = [site EXCEPT !.budget = budget]
            BY <2>3 DEF EditBudget
        <3>2. site'.disk = site.disk /\ site'.budget = budget
            BY <3>1 DEF CInv
        <3>3. budget \in Budget
            BY InstanceAssumption DEF CInv
        <3> QED BY <3>2, <3>3 DEF TInv, SiteTyped
    <2> QED BY <2>1, <2>2, <2>3 DEF EditSkill, UpdateRules, Accept, Tick, vars
<1> QED BY <1>2, <1>3, <1>4 DEF TInv

LEMMA FailTInv == ASSUME CInv, TInv, Fail PROVE TInv'
<1>1. Raise /\ UNCHANGED <<content, rules, clock, site, cache, baselines>>
    BY DEF Fail, around
<1> QED BY <1>1, RaiseTInv, CheckTInv

LEMMA NextTInv == ASSUME IInv, CInv, MInv, TInv, [Next]_vars PROVE TInv'
BY BeginTInv, FindTInv, ReadTInv, AnalyzeTInv, TestTInv, MeasureTInv, ConcludeTInv, FailTInv,
   AroundTInv DEF Next

\* Every finding of a report is one, every baseline rests on at least three
\* trials, and every copy that was chosen is in the inventory, for any
\* inventories, contents, rules and trials.
\* (analyze_performance, record_performance_baseline, Inventory.resolve)
THEOREM DiagnosisTypes == Spec => []TypeOK
<1>1. Init => MInv /\ TInv
    BY InitMInv, InitTInv
<1>2. IInv /\ CInv /\ MInv /\ TInv /\ [Next]_vars => MInv' /\ TInv'
    BY NextMInv, NextTInv
<1>3. TInv => TypeOK
    BY TypesOK
<1> QED BY <1>1, <1>2, <1>3, DiagnosisInvariant, CopiesKnown, PTL DEF Spec

=============================================================================
