-------------------------------- MODULE MCRules --------------------------------
(***************************************************************************)
(* An instance of the rule packs small enough for TLC.                     *)
(***************************************************************************)
EXTENDS RuleProperties

CONSTANTS old, new, other,   \* packs
          v1, v2             \* versions

\* Two documents carry the same version; one expires early.
Versions == [p \in {old, new, other} |-> IF p = other THEN v2 ELSE v1]
Expiries == [p \in {old, new, other} |-> IF p = old THEN 2 ELSE 9]
=============================================================================
