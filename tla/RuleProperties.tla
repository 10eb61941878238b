---------------------------- MODULE RuleProperties ----------------------------
(***************************************************************************)
(* What the rule packs must keep, stated over module RulePacks.            *)
(***************************************************************************)
EXTENDS RulePacks

States == {meta} \cup {actor[a].next : a \in Actor}

\* Every variable holds a value of its kind.
TypeOK ==
    /\ clock \in Nat /\ changes \in Nat /\ packs \subseteq Pack
    /\ DOMAIN actor = Actor
    /\ \A a \in Actor : actor[a].pc \in Pc /\ actor[a].doc \in Pack \cup {NoPack}
    /\ \A s \in States :
        /\ s.active \in Pack \cup {NoPack} /\ s.history \in Seq(Pack)
        /\ s.pinned \in {Version[p] : p \in Pack} \cup {NoVersion}
        /\ s.feed \in BOOLEAN /\ s.checked \in Nat

\* The active pack and every pack a rollback may activate have their files,
\* wherever a process dies and whichever state.json is written last (_activate
\* writes the document first).
Referenced == ToSet(meta.history) \cup ({meta.active} \ {NoPack})
ActiveInstalled == Referenced \subseteq packs

\* The history holds the packs used before the active one, each once, as many
\* as are kept, whatever stale copy was written (history[-10:], item != active).
HistoryOK ==
    /\ IsInjective(meta.history) /\ Len(meta.history) <= Kept
    /\ meta.active \notin ToSet(meta.history)
    /\ meta.active = NoPack => meta.history = <<>>

\* What state.json says can be acted upon in every state: it has its types, what
\* it names is installed, and its history is a bounded list of distinct packs.
StateOK == TypeOK /\ ActiveInstalled /\ HistoryOK

\* A write that is not based on an outdated state is one operation of the
\* ledger: activations put a pack last and respect the pin, a rollback makes the
\* last two change places, all else is left alone.
Recent(s) == IF s.active = NoPack THEN <<>> ELSE Append(s.history, s.active)
Ledger == INSTANCE RuleLedger
            WITH recent <- Recent(meta), pinned <- meta.pinned, consent <- meta.feed

Writes(a) == actor[a].pc \in {"write", "checked"} /\ actor'[a] # actor[a]
Outdated == \E a \in Actor : Writes(a) /\ actor[a].copy # meta
LedgerSteps == [][Outdated \/ Ledger!Next \/ UNCHANGED Ledger!vars]_vars

\* docs/INSTALLATION.md:60: automatic updates are off until they are approved.
\* Once off, only a process that found them off and turns them on does so.
ConsentIsGiven ==
    [][~meta.feed /\ meta'.feed => \E a \in Actor : Writes(a) /\ ~actor[a].copy.feed]_vars
=============================================================================
