---------------------------- MODULE SessionTrace ----------------------------
(***************************************************************************)
(* What a diagnosis reads from the transcript of a session: which skills   *)
(* it names and how, whether it shows errors.  A transcript is a set of    *)
(* passages: what a passage says depends on where in a record it stands,   *)
(* and the platforms' readers look for different things in the same place. *)
(***************************************************************************)
EXTENDS Discovery

CONSTANT Sorted  \* the selectors, in the order of their strings

ASSUME SortedAssumption == Sorted \in Seq(Selector)

(* says: "$x", "/x", "using the x skill", the path of x's SKILL.md, a word   *)
(* that tells of a failure; or the Skill tool is called for x                *)
Passage == [part : {"text", "input", "output", "skill"},
            says : {"dollar", "slash", "using", "path", "error"}, of : Selector]

(* The trace: the one supplied, one that matches the session's id, or else   *)
(* the latest, if any; too large or not; the targets whose description has   *)
(* two terms of the last prompt                                              *)
Session == [source : {"supplied", "matched", "latest", "none"}, oversized : BOOLEAN,
            passages : SUBSET Passage, overlap : SUBSET Target]

\* locate_session_source, with what it finds in its order
Located(supplied, matched, traces) ==
    IF supplied THEN "supplied" ELSE IF matched THEN "matched"
    ELSE IF traces # {} THEN "latest" ELSE "none"

\* collect_session_evidence: nothing, where it raises
Collected(session) == session.source # "none" /\ ~session.oversized

\* _collect_codex: words in the text of messages, paths alone in the input
\* of a tool, errors alone in its output
CodexReads(x) == \/ x.part = "text"
                 \/ x.part = "input" /\ x.says = "path"
                 \/ x.part = "output" /\ x.says = "error"
\* _collect_claude: every string of a message, its tool calls and results too
ClaudeReads(x) == x.part # "skill"

Read(platform, session) ==
    {x \in session.passages : IF platform = "codex" THEN CodexReads(x) ELSE ClaudeReads(x)}
ToolCalls(platform, session) ==
    {x \in session.passages : platform = "claude" /\ x.part = "skill"}

\* _record_text: what was invoked, what of it for certain, which files were read
Said(platform, session, how) == {x.of : x \in {y \in Read(platform, session) : y.says \in how}}
Called(platform, session) == {x.of : x \in ToolCalls(platform, session)}
Explicit(platform, session) == Said(platform, session, {"dollar", "using"}) \cup Called(platform, session)
Invoked(platform, session) == Explicit(platform, session) \cup Said(platform, session, {"slash"})
Accessed(platform, session) == Said(platform, session, {"path"})
ShowsErrors(platform, session) == Said(platform, session, {"error"}) # {}

\* The places in Sorted of the selectors that were named
Signals(platform, session) ==
    {i \in DOMAIN Sorted : Sorted[i] \in Invoked(platform, session) \cup Accessed(platform, session)}

-----------------------------------------------------------------------------
(* Targets *)

\* A signal names a skill by selector or by name
Signalled(inv, signal) == {c \in Selectable(inv) :
    inv[c].selector = signal \/ <<None, c.name>> = signal}
Mapped(inv, signal) ==
    IF Sole(inv, Signalled(inv, signal)) THEN Signalled(inv, signal) ELSE {}

\* The copies the signals select, once each, at the places of their signals
SessionCopies(inv, platform, session) ==
    LET signals == Signals(platform, session)
        picked == {i \in signals : /\ Mapped(inv, Sorted[i]) # {}
                                   /\ \A j \in signals : Mapped(inv, Sorted[j]) = Mapped(inv, Sorted[i])
                                                           => i <= j}
    IN  [i \in picked |-> CHOOSE c \in Mapped(inv, Sorted[i]) : TRUE]

\* The signals that become targets without a copy: a slash alone counts only
\* where it matches something
Unmapped(inv, platform, session) ==
    {s \in {Sorted[i] : i \in Signals(platform, session)} :
        /\ Mapped(inv, s) = {}
        /\ \/ Signalled(inv, s) # {}
           \/ s \in Explicit(platform, session) \cup Accessed(platform, session)}

\* Copies of the project whose description shares terms with the prompt
TriggerCandidates(inv, session) ==
    {c \in DOMAIN inv : /\ inv[c].status = "active"
                        /\ Source(c) \in {"repository", "project", "nested", "added-directory"}
                        /\ inv[c].target \in session.overlap}
=============================================================================
