------------------------------- MODULE RulePacks -------------------------------
(***************************************************************************)
(* The signed rule packs of RulePackManager (supply_chain.py:251): a       *)
(* directory of verified documents and state.json, which every operation   *)
(* reads whole, changes and replaces, without a lock.  The commands of     *)
(* "skill-doctor rules" and the engine, before each job, do so from their  *)
(* own processes.                                                          *)
(***************************************************************************)
EXTENDS Integers, Sequences, SequencesExt

CONSTANTS Command,    \* processes that run "skill-doctor rules"
          Engine,     \* processes that run the engine
          Pack,       \* documents with a valid signature
          Version,    \* Version[p]: ruleset_version
          Expires,    \* Expires[p]: the time from which p is expired
          NoPack, NoVersion,
          Kept,       \* 10: history[-10:]
          Interval,   \* 24 hours between two automatic checks
          MaxClock,   \* bound: how far time goes
          MaxChanges  \* bound: commands

ASSUME PacksAssumption ==
    /\ NoPack \notin Pack
    /\ Kept \in Nat \ {0} /\ Interval \in Nat \ {0}
    /\ Expires \in [Pack -> Nat]
    /\ NoVersion \notin {Version[p] : p \in Pack}
    /\ MaxClock \in Nat /\ MaxChanges \in Nat

Actor == Command \cup Engine

VARIABLES clock,
          packs,    \* files in rules/packs
          meta,     \* state.json
          actor,    \* actor[a]: where a is, the state it read, the document it has
          changes

vars == <<clock, packs, meta, actor, changes>>

\* feed: the URL and its approval; checked: last_checked, 0 for none
NoState == [active |-> NoPack, history |-> <<>>, pinned |-> NoVersion,
            feed |-> FALSE, checked |-> 0]

Pc == {"idle", "activate", "file", "write", "checked", "fetch", "compare"}

Idle == [pc |-> "idle", copy |-> NoState, next |-> NoState, doc |-> NoPack]

Init ==
    /\ clock = 1
    /\ packs = {}
    /\ meta = NoState
    /\ actor = [a \in Actor |-> Idle]
    /\ changes = 0

At(a, pc) == actor[a].pc = pc

\* verify_rule_pack: every document here has a valid signature
Verifies(p) == clock < Expires[p]

\* Mutant: the pin is not looked at.
PinAllowsAny(s, p) == TRUE

PinAllows(s, p) == s.pinned \in {NoVersion, Version[p]}

LatestOf(history) == SubSeq(history, IF Len(history) > Kept THEN Len(history) - Kept + 1 ELSE 1,
                            Len(history))

\* The members of a history other than p, in their order
Others(history, p) ==
    LET places == {i \in DOMAIN history : history[i] # p}
    IN  [n \in 1 .. Cardinality(places) |->
            history[CHOOSE i \in places : Cardinality({j \in places : j < i}) = n - 1]]

\* Mutant: installing the active pack again puts it in the history.
ActivatedTwice(s, p) ==
    [s EXCEPT !.active = p,
              !.history = LatestOf(IF s.active = NoPack THEN s.history
                                   ELSE Append(Others(s.history, p), s.active))]

\* The state in which p is active: p leaves the history, the pack before it joins.
Activated(s, p) ==
    LET others == Others(s.history, p)
    IN  [s EXCEPT !.active = p,
                  !.history = LatestOf(IF s.active \in {NoPack, p} THEN others
                                       ELSE Append(others, s.active))]

RolledBack(s) ==
    [s EXCEPT !.active = Last(s.history),
              !.history = LatestOf(Append(Front(s.history), s.active))]

Tick ==
    /\ clock < MaxClock
    /\ clock' = clock + 1
    /\ UNCHANGED <<packs, meta, actor, changes>>

-----------------------------------------------------------------------------
(* Commands: each reads the state, then writes the changed copy.            *)

\* a has read meta and will replace it by s.
Intend(a, s) ==
    /\ a \in Command /\ At(a, "idle")
    /\ changes < MaxChanges
    /\ changes' = changes + 1
    /\ actor' = [actor EXCEPT ![a] = [Idle EXCEPT !.pc = "write", !.copy = meta, !.next = s]]
    /\ UNCHANGED <<clock, packs, meta>>

Pin(a, v) == Intend(a, [meta EXCEPT !.pinned = v])

ConfigureFeed(a) == Intend(a, [meta EXCEPT !.feed = TRUE, !.checked = 0])

DisableFeed(a) == Intend(a, [meta EXCEPT !.feed = FALSE, !.checked = 0])

Rollback(a) == meta.history # <<>> /\ Intend(a, RolledBack(meta))

\* plan and _activate verify the document.
Install(a, p) ==
    /\ a \in Command /\ At(a, "idle")
    /\ Verifies(p)
    /\ changes < MaxChanges
    /\ changes' = changes + 1
    /\ actor' = [actor EXCEPT ![a] = [Idle EXCEPT !.pc = "activate", !.doc = p]]
    /\ UNCHANGED <<clock, packs, meta>>

-----------------------------------------------------------------------------
(* _activate, from the state it reads                                       *)

Return(a) == [actor EXCEPT ![a] = Idle]

\* A refusal ends the command; the engine goes on with the pack it had.
ReadState(a) ==
    /\ At(a, "activate")
    /\ actor' = IF Verifies(actor[a].doc) /\ PinAllows(meta, actor[a].doc)
                THEN [actor EXCEPT ![a].pc = "file", ![a].copy = meta,
                                   ![a].next = Activated(meta, actor[a].doc)]
                ELSE Return(a)
    /\ UNCHANGED <<clock, packs, meta, changes>>

\* Mutant: state.json is replaced before the document is written.
WriteLater(p) == packs

WritePack(p) == packs \cup {p}

WriteDocument(a) ==
    /\ At(a, "file")
    /\ packs' = WritePack(actor[a].doc)
    /\ actor' = [actor EXCEPT ![a].pc = "write"]
    /\ UNCHANGED <<clock, meta, changes>>

\* _write_state
WriteState(a) ==
    /\ At(a, "write")
    /\ meta' = actor[a].next
    /\ actor' = Return(a)
    /\ UNCHANGED <<clock, packs, changes>>

-----------------------------------------------------------------------------
(* The engine: maybe_auto_update.  The load_active that follows it changes  *)
(* nothing, nor does the engine when no check is due.                       *)

Due(s) == s.feed /\ (s.checked = 0 \/ clock - s.checked >= Interval)

AutoUpdate(a) ==
    /\ a \in Engine /\ At(a, "idle") /\ Due(meta)
    /\ actor' = [actor EXCEPT ![a] = [Idle EXCEPT !.pc = "checked", !.copy = meta,
                                                  !.next = [meta EXCEPT !.checked = clock]]]
    /\ UNCHANGED <<clock, packs, meta, changes>>

WriteChecked(a) ==
    /\ At(a, "checked")
    /\ meta' = actor[a].next
    /\ actor' = [actor EXCEPT ![a] = [Idle EXCEPT !.pc = "fetch"]]
    /\ UNCHANGED <<clock, packs, changes>>

Fetch(a, p) ==
    /\ At(a, "fetch") /\ Verifies(p)
    /\ actor' = [actor EXCEPT ![a].pc = "compare", ![a].doc = p]
    /\ UNCHANGED <<clock, packs, meta, changes>>

FetchFails(a) ==
    /\ At(a, "fetch")
    /\ actor' = Return(a)
    /\ UNCHANGED <<clock, packs, meta, changes>>

\* load_active returns a pack or None, or raises.
Loads(s) == s.active = NoPack \/ (s.active \in packs /\ Verifies(s.active))

\* An active pack that no longer loads, and the document it already has, end the
\* update; any other document is activated.
Compare(a) ==
    /\ At(a, "compare")
    /\ actor' = IF Loads(meta) /\ meta.active # actor[a].doc
                THEN [actor EXCEPT ![a].pc = "activate"]
                ELSE Return(a)
    /\ UNCHANGED <<clock, packs, meta, changes>>

\* A process dies or gives up on an OSError.
Crash(a) ==
    /\ ~At(a, "idle")
    /\ actor' = Return(a)
    /\ UNCHANGED <<clock, packs, meta, changes>>

Next ==
    \/ Tick
    \/ \E a \in Actor :
        \/ \E v \in {Version[p] : p \in Pack} \cup {NoVersion} : Pin(a, v)
        \/ ConfigureFeed(a) \/ DisableFeed(a) \/ Rollback(a)
        \/ \E p \in Pack : Install(a, p) \/ Fetch(a, p)
        \/ ReadState(a) \/ WriteDocument(a) \/ WriteState(a)
        \/ AutoUpdate(a) \/ WriteChecked(a) \/ FetchFails(a) \/ Compare(a)
        \/ Crash(a)

Spec == Init /\ [][Next]_vars
=============================================================================
