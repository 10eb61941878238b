------------------------------ MODULE RuleLedger ------------------------------
(***************************************************************************)
(* What the state of the signed rule packs (supply_chain.py:251) promises  *)
(* when its operations come one after the other: the packs in the order of *)
(* their last use, the active one at the end; a pin; the consent to        *)
(* automatic updates.                                                      *)
(***************************************************************************)
EXTENDS Integers, Sequences

CONSTANTS Pack, Version, NoVersion,
          Kept      \* packs kept for a rollback

VARIABLES recent,   \* sequence of distinct packs, the active one last
          pinned, consent

vars == <<recent, pinned, consent>>

Init == recent = <<>> /\ pinned = NoVersion /\ consent = FALSE

\* p gives up its place.
Without(p) ==
    IF \E i \in DOMAIN recent : recent[i] = p
    THEN LET i == CHOOSE i \in DOMAIN recent : recent[i] = p
         IN  SubSeq(recent, 1, i - 1) \o SubSeq(recent, i + 1, Len(recent))
    ELSE recent
Latest(s) == SubSeq(s, Len(s) - (IF Len(s) > Kept + 1 THEN Kept ELSE Len(s) - 1), Len(s))

\* A pin blocks a different version.
Activate(p) ==
    /\ pinned \in {NoVersion, Version[p]}
    /\ recent' = Latest(Append(Without(p), p))
    /\ UNCHANGED <<pinned, consent>>

\* The two packs used last change places.
Rollback ==
    /\ Len(recent) >= 2
    /\ recent' = SubSeq(recent, 1, Len(recent) - 2)
                    \o <<recent[Len(recent)], recent[Len(recent) - 1]>>
    /\ UNCHANGED <<pinned, consent>>

Pin(v) == pinned' = v /\ UNCHANGED <<recent, consent>>

Consent(yes) == consent' = yes /\ UNCHANGED <<recent, pinned>>

Next ==
    \/ \E p \in Pack : Activate(p)
    \/ Rollback
    \/ \E v \in {Version[p] : p \in Pack} \cup {NoVersion} : Pin(v)
    \/ \E yes \in BOOLEAN : Consent(yes)

Spec == Init /\ [][Next]_vars
=============================================================================
