------------------------------ MODULE MCDynamic ------------------------------
(* An instance of DynamicProperties.  Two processes test two skills at once:  *)
(* p with one whose name leaves its containers nothing but that name, or with *)
(* one whose container gets the name of its own: "a-1-1-1" is skill a, case   *)
(* 1-1, and skill a-1, case 1.  Or p is alone and gets a plan, then its       *)
(* approval, while a file is edited; or it runs an approved plan at the       *)
(* deeper depths, or the same plan twice, the first check having crashed and  *)
(* left its container.                                                        *)
EXTENDS DynamicProperties, TLC
CONSTANTS p, q, r, a, b

Characters == {a, b, Dash, Control, Version} \cup 0 .. 9
Long == [i \in 1 .. Kept |-> b]
Names == p :> <<a>> @@ q :> Long @@ r :> <<a, Dash, 1>>
Ids == p :> << <<1, Dash, 1>> >> @@ q :> <<>> @@ r :> <<>>

Ask(depth, cases, deps, replaced) ==
    [depth |-> depth, cases |-> cases, deps |-> deps, replaced |-> replaced]

QuickDeps == Ask("quick", 1, TRUE, FALSE)
Quick == Ask("quick", 1, FALSE, FALSE)

Seen(asks) == {[skill |-> 1, config |-> 1, options |-> o] : o \in asks}
Setting(asks, seen, stops, checks, changes, misses) ==
    [asks |-> asks, seen |-> seen, cancels |-> stops, jobs |-> checks, edits |-> changes,
     faults |-> misses]
Two(mine, other, its) == p :> mine @@ [x \in {q, r} |-> IF x = other THEN its ELSE {}]
Alone(asks) == Two(asks, q, {})

Together == Setting(Two({Quick}, q, {Quick}), Seen({Quick}), {p}, 1, 0, 1)
Colliding == Setting(Two({Quick}, r, {Quick}), Seen({Quick}), {}, 1, 0, 1)
Edited == Setting(Alone({QuickDeps, Ask("quick", 2, FALSE, TRUE)}), {}, {p}, 2, 1, 1)
Standard == {Ask("standard", 2, TRUE, TRUE)}
Repeated == Setting(Alone(Standard), Seen(Standard), {p}, 1, 0, 1)
Adversarial == {Ask("deep", 1, FALSE, FALSE)}
Deep == Setting(Alone(Adversarial), Seen(Adversarial), {p}, 1, 0, 0)
Again == Setting(Alone({Quick}), Seen({Quick}), {p}, 2, 0, 2)
All == {Together, Colliding, Edited, Repeated, Deep, Again}
=============================================================================
