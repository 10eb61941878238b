------------------------------ MODULE RuleProofs ------------------------------
(***************************************************************************)
(* Whatever outdated state is written last, state.json names packs that    *)
(* are installed and keeps a bounded history of distinct packs, and every  *)
(* write that is not outdated is one operation of the ledger: for any      *)
(* packs, versions, commands and engines.                                  *)
(***************************************************************************)
EXTENDS RuleProperties, FiniteSetTheorems, TLAPS

-----------------------------------------------------------------------------
(* The invariant                                                            *)

Pins == {Version[p] : p \in Pack} \cup {NoVersion}
Contents == [active : Pack \cup {NoPack}, history : Seq(Pack), pinned : Pins,
             feed : BOOLEAN, checked : Nat]

\* The history of s is a bounded list of packs other than the active one.
Orderly(s) ==
    /\ \A i, j \in DOMAIN s.history : s.history[i] = s.history[j] => i = j
    /\ Len(s.history) <= Kept
    /\ \A i \in DOMAIN s.history : s.history[i] # s.active
    /\ s.active = NoPack => s.history = <<>>

\* The packs s names
Named(s, p) == p = s.active \/ \E i \in DOMAIN s.history : p = s.history[i]
InstalledBut(s, doc) == \A p \in Pack : Named(s, p) => p \in packs \/ p = doc

\* One operation makes t of s.
Activates(s, t) == \E p \in Pack : PinAllows(s, p) /\ t = Activated(s, p)
RollsBack(s, t) == s.history # <<>> /\ t = RolledBack(s)
PinsIt(s, t) == \E v \in Pins : t = [s EXCEPT !.pinned = v]
Feeds(s, t) == \E yes \in BOOLEAN : t = [s EXCEPT !.feed = yes, !.checked = 0]
Checks(s, t) == \E n \in Nat : t = [s EXCEPT !.checked = n]
Operation(s, t) ==
    Activates(s, t) \/ RollsBack(s, t) \/ PinsIt(s, t) \/ Feeds(s, t) \/ Checks(s, t)

Writing == {"file", "write", "checked"}

Local == [pc : Pc, copy : Contents, next : Contents, doc : Pack \cup {NoPack}]

\* What a process r holds: the state it will write is orderly, is made of the
\* state it read by one operation, and names installed packs, but for the
\* document it still has to write.
ActorOK(r) ==
    /\ r \in Local
    /\ r.pc \in {"activate", "file", "compare"} => r.doc \in Pack
    /\ Orderly(r.next)
    /\ InstalledBut(r.next, IF r.pc = "file" THEN r.doc ELSE NoPack)
    /\ r.pc \in Writing => Operation(r.copy, r.next)

IInv ==
    /\ clock \in Nat /\ changes \in Nat /\ packs \subseteq Pack
    /\ meta \in Contents /\ Orderly(meta) /\ InstalledBut(meta, NoPack)
    /\ actor \in [Actor -> Local]
    /\ \A a \in Actor : ActorOK(actor[a])

-----------------------------------------------------------------------------
(* Sequences                                                                *)

Short(s, p, t) ==
    /\ t \in Seq(Pack)
    /\ \/ /\ \A i \in DOMAIN s : s[i] # p
          /\ t = s
       \/ \E k \in DOMAIN s :
             /\ s[k] = p
             /\ t = [n \in 1 .. Len(s) - 1 |-> IF n < k THEN s[n] ELSE s[n + 1]]

LEMMA Below ==
    ASSUME NEW n \in Nat
    PROVE  /\ IsFiniteSet(1 .. n) /\ Cardinality(1 .. n) = n
           /\ \A k \in 1 .. n : Cardinality((1 .. n) \ {k}) = n - 1
<1>1. IsFiniteSet(1 .. n) /\ Cardinality(1 .. n) = n
    BY FS_Interval
<1>2. \A k \in 1 .. n : Cardinality((1 .. n) \ {k}) = n - 1
    BY <1>1, FS_RemoveElement
<1> QED BY <1>1, <1>2

\* Removing a pack from a list of distinct packs leaves the others in order.
LEMMA OthersShort ==
    ASSUME NEW s \in Seq(Pack), NEW p,
           \A i, j \in DOMAIN s : s[i] = s[j] => i = j
    PROVE  Short(s, p, Others(s, p))
<1> DEFINE L == Len(s)
           places == {i \in DOMAIN s : s[i] # p}
           before(i) == {j \in places : j < i}
<1>0. L \in Nat /\ DOMAIN s = 1 .. L /\ s = [i \in 1 .. L |-> s[i]]
    OBVIOUS
<1>d. Others(s, p) = [n \in 1 .. Cardinality(places) |->
                         s[CHOOSE i \in places : Cardinality(before(i)) = n - 1]]
    BY DEF Others
<1>1. CASE \A i \in DOMAIN s : s[i] # p
    <2>1. places = 1 .. L
        BY <1>0, <1>1
    <2>2. Cardinality(places) = L
        BY <2>1, <1>0, Below
    <2>3. \A i \in places : Cardinality(before(i)) = i - 1
        <3> TAKE i \in places
        <3>1. before(i) = 1 .. (i - 1) /\ i - 1 \in Nat
            BY <2>1, <1>0
        <3> QED BY <3>1, Below
    <2>4. \A n \in 1 .. L : (CHOOSE i \in places : Cardinality(before(i)) = n - 1) = n
        <3> HIDE DEF places, before
        <3> TAKE n \in 1 .. L
        <3>1. n \in places /\ Cardinality(before(n)) = n - 1
            BY <2>1, <2>3
        <3>2. \A i \in places : Cardinality(before(i)) = n - 1 => i = n
            BY <2>1, <2>3, <1>0
        <3> QED BY <3>1, <3>2
    <2>5. Others(s, p) = s
        <3> HIDE DEF places, before, L
        <3> QED BY <1>d, <2>2, <2>4, <1>0
    <2> QED BY <2>5, <1>1 DEF Short
<1>2. CASE \E k \in DOMAIN s : s[k] = p
    <2>0. PICK k \in DOMAIN s : s[k] = p
        BY <1>2
    <2>1. places = (1 .. L) \ {k} /\ k \in 1 .. L
        BY <1>0, <2>0
    <2>2. Cardinality(places) = L - 1
        BY <2>1, <1>0, Below
    <2> DEFINE rank(i) == IF i < k THEN i - 1 ELSE i - 2
    <2>3. \A i \in places : Cardinality(before(i)) = rank(i)
        <3> TAKE i \in places
        <3>1. CASE i < k
            <4>1. before(i) = 1 .. (i - 1) /\ i - 1 \in Nat
                BY <2>1, <1>0, <3>1
            <4> QED BY <4>1, <3>1, Below
        <3>2. CASE ~(i < k)
            <4>1. before(i) = (1 .. (i - 1)) \ {k} /\ i - 1 \in Nat /\ k \in 1 .. (i - 1)
                BY <2>1, <1>0, <3>2
            <4>2. Cardinality(before(i)) = (i - 1) - 1
                BY <4>1, Below
            <4> QED BY <4>1, <4>2, <3>2, <1>0, <2>1
        <3> QED BY <3>1, <3>2
    <2> DEFINE at(n) == IF n < k THEN n ELSE n + 1
    <2>4. \A n \in 1 .. L - 1 :
              (CHOOSE i \in places : Cardinality(before(i)) = n - 1) = at(n)
        <3> HIDE DEF places, before
        <3> TAKE n \in 1 .. L - 1
        <3>1. at(n) \in places /\ Cardinality(before(at(n))) = n - 1
            BY <2>1, <2>3, <1>0
        <3>2. \A i \in places : Cardinality(before(i)) = n - 1 => i = at(n)
            BY <2>1, <2>3, <1>0
        <3> HIDE DEF at
        <3> QED BY <3>1, <3>2
    <2>5. Others(s, p) = [n \in 1 .. L - 1 |-> s[at(n)]]
        <3> HIDE DEF places, before, L, at
        <3> QED BY <1>d, <2>2, <2>4
    <2>6. \A n \in 1 .. L - 1 : at(n) \in 1 .. L
        BY <1>0, <2>1
    <2>7. Others(s, p) = [n \in 1 .. L - 1 |-> IF n < k THEN s[n] ELSE s[n + 1]]
        BY <2>5
    <2>8. L - 1 \in Nat
        BY <1>0, <2>1
    <2>9. Others(s, p) \in [1 .. L - 1 -> Pack]
        <3> HIDE DEF at
        <3> QED BY <2>5, <2>6, <1>0
    <2>10. Others(s, p) \in Seq(Pack)
        BY <2>8, <2>9
    <2> QED BY <2>7, <2>10, <2>0 DEF Short
<1> QED BY <1>1, <1>2

\* t is s, or is s after its first n members.
Tail1(s, t, n) ==
    /\ n \in Nat /\ t \in Seq(Pack) /\ Len(t) = Len(s) - n
    /\ \A i \in 1 .. Len(t) : t[i] = s[i + n]

\* The list that is kept ends like the one it is cut from.
LEMMA LatestEnds ==
    ASSUME NEW s \in Seq(Pack)
    PROVE  /\ LatestOf(s) \in Seq(Pack)
           /\ Len(s) <= Kept => LatestOf(s) = s
           /\ Len(s) > Kept => Tail1(s, LatestOf(s), Len(s) - Kept)
<1>0. Kept \in Nat \ {0} /\ Len(s) \in Nat
    BY PacksAssumption
<1>1. CASE Len(s) <= Kept
    <2>0. (IF Len(s) > Kept THEN Len(s) - Kept + 1 ELSE 1) = 1
        BY <1>0, <1>1
    <2>1. LatestOf(s) = SubSeq(s, 1, Len(s))
        BY <2>0, Zenon DEF LatestOf
    <2>2. SubSeq(s, 1, Len(s)) = s
        OBVIOUS
    <2> QED BY <2>1, <2>2, <1>1, <1>0
<1>2. CASE Len(s) > Kept
    <2>1. LatestOf(s) = SubSeq(s, Len(s) - Kept + 1, Len(s))
        BY <1>0, <1>2 DEF LatestOf
    <2>2. /\ LatestOf(s) \in Seq(Pack) /\ Len(LatestOf(s)) = Kept
          /\ \A i \in 1 .. Kept : LatestOf(s)[i] = s[i + (Len(s) - Kept)]
        BY <2>1, <1>0, <1>2
    <2> QED BY <2>2, <1>0, <1>2 DEF Tail1
<1> QED BY <1>0, <1>1, <1>2

\* A list of distinct packs that does not hold the pack a.
Apart(s, a) ==
    /\ s \in Seq(Pack)
    /\ \A i, j \in DOMAIN s : s[i] = s[j] => i = j
    /\ \A i \in DOMAIN s : s[i] # a

\* Every member of t is a member of s.
Within(t, s) == \A i \in DOMAIN t : \E j \in DOMAIN s : t[i] = s[j]

\* Cutting a list keeps it one of distinct packs, and not too long.
LEMMA LatestApart ==
    ASSUME NEW s, NEW a, Apart(s, a)
    PROVE  Apart(LatestOf(s), a) /\ Within(LatestOf(s), s) /\ Len(LatestOf(s)) <= Kept
<1>0. s \in Seq(Pack) /\ Len(s) \in Nat /\ Kept \in Nat \ {0}
    BY PacksAssumption DEF Apart
<1>1. CASE Len(s) <= Kept
    BY <1>0, <1>1, LatestEnds DEF Apart, Within
<1>2. CASE Len(s) > Kept
    <2> DEFINE t == LatestOf(s)
               n == Len(s) - Kept
    <2>1. Tail1(s, t, n)
        BY <1>0, <1>2, LatestEnds
    <2> HIDE DEF t, n
    <2>2. \A i \in DOMAIN t : i + n \in DOMAIN s /\ t[i] = s[i + n]
        BY <2>1, <1>0 DEF Tail1
    <2>3. Apart(t, a) /\ Within(t, s)
        BY <2>1, <2>2, <1>0 DEF Apart, Within, Tail1
    <2>4. Len(t) <= Kept
        BY <2>1, <1>0 DEF Tail1, n
    <2> QED BY <2>3, <2>4 DEF t
<1> QED BY <1>0, <1>1, <1>2

LEMMA OthersApart ==
    ASSUME NEW s, NEW a, NEW p, Apart(s, a)
    PROVE  /\ Apart(Others(s, p), a) /\ Apart(Others(s, p), p)
           /\ Within(Others(s, p), s) /\ Len(Others(s, p)) <= Len(s)
<1> DEFINE t == Others(s, p)
<1>0. s \in Seq(Pack) /\ Len(s) \in Nat
    BY DEF Apart
<1>1. Short(s, p, t)
    BY <1>0, OthersShort DEF Apart
<1> HIDE DEF t
<1>2. CASE (\A i \in DOMAIN s : s[i] # p) /\ t = s
    BY <1>0, <1>2 DEF Apart, Within, t
<1>3. CASE \E k \in DOMAIN s :
             /\ s[k] = p
             /\ t = [n \in 1 .. Len(s) - 1 |-> IF n < k THEN s[n] ELSE s[n + 1]]
    <2>1. PICK k \in DOMAIN s :
             /\ s[k] = p
             /\ t = [n \in 1 .. Len(s) - 1 |-> IF n < k THEN s[n] ELSE s[n + 1]]
        BY <1>3
    <2>2. t \in Seq(Pack) /\ DOMAIN t = 1 .. Len(s) - 1 /\ Len(t) = Len(s) - 1
        BY <1>0, <1>1, <2>1 DEF Short
    <2> DEFINE at(n) == IF n < k THEN n ELSE n + 1
    <2>3. \A n \in DOMAIN t : at(n) \in DOMAIN s /\ at(n) # k /\ t[n] = s[at(n)]
        BY <1>0, <2>1, <2>2
    <2>4. \A m, n \in DOMAIN t : at(m) = at(n) => m = n
        BY <2>2, <1>0
    <2> HIDE DEF at
    <2>5. Apart(t, a) /\ Apart(t, p) /\ Within(t, s)
        BY <2>1, <2>2, <2>3, <2>4 DEF Apart, Within
    <2> QED BY <2>5, <2>2, <1>0 DEF t
<1> QED BY <1>1, <1>2, <1>3 DEF Short

\* A pack joins a list at its end.
LEMMA AppendApart ==
    ASSUME NEW s, NEW a, NEW q \in Pack, Apart(s, a), Apart(s, q), q # a
    PROVE  /\ Apart(Append(s, q), a)
           /\ \A i \in DOMAIN Append(s, q) : Append(s, q)[i] = q \/ \E j \in DOMAIN s : Append(s, q)[i] = s[j]
<1>0. s \in Seq(Pack) /\ Append(s, q) \in Seq(Pack) /\ Len(s) \in Nat
    BY DEF Apart
<1>1. /\ DOMAIN Append(s, q) = 1 .. Len(s) + 1 /\ DOMAIN s = 1 .. Len(s)
      /\ \A i \in DOMAIN s : Append(s, q)[i] = s[i]
      /\ Append(s, q)[Len(s) + 1] = q
    BY <1>0
<1> DEFINE t == Append(s, q)
<1> HIDE DEF t
<1> QED BY <1>0, <1>1 DEF Apart, t

-----------------------------------------------------------------------------
(* What the operations make of a state                                      *)

\* The state t is a good one, and names what s names and perhaps p.
Follows(s, t, p) ==
    /\ t \in Contents /\ Orderly(t)
    /\ \A q \in Pack : Named(t, q) => q = p \/ Named(s, q)

LEMMA HistoryApart ==
    ASSUME NEW s \in Contents, Orderly(s)
    PROVE  Apart(s.history, s.active)
BY DEF Contents, Orderly, Apart

\* The active pack is another than all of the history's.
LEMMA ApartOrderly ==
    ASSUME NEW t \in Contents, Apart(t.history, t.active), Len(t.history) <= Kept,
           t.active # NoPack
    PROVE  Orderly(t)
BY DEF Orderly, Apart

LEMMA ActivatedFollows ==
    ASSUME NEW s \in Contents, Orderly(s), NEW p \in Pack
    PROVE  Follows(s, Activated(s, p), p)
<1> DEFINE others == Others(s.history, p)
           t == Activated(s, p)
<1>0. p # NoPack /\ s.active \in Pack \cup {NoPack} /\ s.history \in Seq(Pack)
    BY PacksAssumption DEF Contents
<1>1. Apart(s.history, s.active)
    BY HistoryApart
<1>2. Apart(others, p) /\ Apart(others, s.active) /\ Within(others, s.history)
    BY <1>1, OthersApart
<1> DEFINE long == IF s.active \in {NoPack, p} THEN others ELSE Append(others, s.active)
<1>3. t = [s EXCEPT !.active = p, !.history = LatestOf(long)]
    BY DEF Activated
<1> HIDE DEF t, others
<1>4. /\ Apart(long, p)
      /\ \A i \in DOMAIN long : long[i] = s.active \/ \E j \in DOMAIN s.history : long[i] = s.history[j]
    <2>1. CASE s.active \in {NoPack, p}
        BY <2>1, <1>2 DEF Within
    <2>2. CASE s.active \notin {NoPack, p}
        <3>1. s.active \in Pack /\ s.active # p /\ long = Append(others, s.active)
            BY <2>2, <1>0
        <3>2. /\ Apart(long, p)
              /\ \A i \in DOMAIN long : long[i] = s.active \/ \E j \in DOMAIN others : long[i] = others[j]
            BY <3>1, <1>2, AppendApart
        <3> QED BY <3>2, <1>2 DEF Within
    <2> QED BY <2>1, <2>2
<1> HIDE DEF long
<1>5. /\ Apart(LatestOf(long), p) /\ Within(LatestOf(long), long)
      /\ Len(LatestOf(long)) <= Kept
    BY <1>4, LatestApart
<1>6. t \in Contents /\ t.active = p /\ t.history = LatestOf(long)
    BY <1>3, <1>5 DEF Contents, Apart
<1>7. Orderly(t)
    BY <1>0, <1>5, <1>6, ApartOrderly
<1>8. ASSUME NEW q \in Pack, Named(t, q), q # p
      PROVE  Named(s, q)
    <2>1. PICK i \in DOMAIN LatestOf(long) : q = LatestOf(long)[i]
        BY <1>6, <1>8 DEF Named
    <2>2. PICK j \in DOMAIN long : q = long[j]
        BY <2>1, <1>5 DEF Within
    <2> QED BY <2>2, <1>4 DEF Named
<1> QED BY <1>6, <1>7, <1>8 DEF Follows, t

LEMMA RolledFollows ==
    ASSUME NEW s \in Contents, Orderly(s), s.history # <<>>
    PROVE  /\ Follows(s, RolledBack(s), NoPack)
           /\ RolledBack(s).history = Append(Front(s.history), s.active)
<1> DEFINE h == s.history
           front == Front(h)
           t == RolledBack(s)
<1>0. /\ h \in Seq(Pack) /\ Len(h) \in Nat \ {0} /\ Len(h) <= Kept
      /\ s.active \in Pack
    BY PacksAssumption DEF Contents, Orderly
<1>1. /\ front \in Seq(Pack) /\ Len(front) = Len(h) - 1
      /\ \A i \in 1 .. Len(h) - 1 : front[i] = h[i]
    BY <1>0 DEF Front
<1>2. Last(h) = h[Len(h)] /\ Last(h) \in Pack
    BY <1>0 DEF Last
<1> HIDE DEF front
<1> DEFINE long == Append(front, s.active)
<1>3. /\ long \in Seq(Pack) /\ Len(long) = Len(h)
      /\ \A i \in 1 .. Len(h) - 1 : long[i] = h[i]
      /\ long[Len(h)] = s.active
    BY <1>0, <1>1
<1>4. t = [s EXCEPT !.active = Last(h), !.history = LatestOf(long)]
    BY DEF RolledBack, front
<1>5. LatestOf(long) = long
    BY <1>0, <1>3, LatestEnds
<1> HIDE DEF long, t
<1>6. t \in Contents /\ t.active = Last(h) /\ t.history = long
    BY <1>4, <1>5, <1>2, <1>3 DEF Contents
<1>7. Apart(long, Last(h))
    <2>1. \A i, j \in 1 .. Len(h) : h[i] = h[j] => i = j
        BY <1>0 DEF Orderly
    <2>2. \A i \in 1 .. Len(h) : h[i] # s.active
        BY <1>0 DEF Orderly
    <2>3. DOMAIN long = 1 .. Len(h)
        BY <1>3
    <2>4. \A i, j \in 1 .. Len(h) : long[i] = long[j] => i = j
        BY <1>0, <1>3, <2>1, <2>2
    <2>5. \A i \in 1 .. Len(h) : long[i] # Last(h)
        BY <1>0, <1>2, <1>3, <2>1, <2>2
    <2> HIDE DEF h
    <2> QED BY <1>3, <2>3, <2>4, <2>5 DEF Apart
<1>8. Orderly(t)
    BY <1>0, <1>2, <1>3, <1>6, <1>7, ApartOrderly, PacksAssumption
<1>9. ASSUME NEW q \in Pack, Named(t, q)
      PROVE  Named(s, q)
    <2>1. CASE q = Last(h)
        BY <2>1, <1>0, <1>2 DEF Named
    <2>2. CASE \E i \in DOMAIN long : q = long[i]
        <3>1. PICK i \in 1 .. Len(h) : q = long[i]
            BY <2>2, <1>3
        <3> QED BY <3>1, <1>0, <1>3 DEF Named
    <2>3. q = Last(h) \/ \E i \in DOMAIN long : q = long[i]
        BY <1>6, <1>9, Zenon DEF Named
    <2> QED BY <2>1, <2>2, <2>3
<1>10. t.history = Append(Front(s.history), s.active)
    BY <1>6 DEF long, front
<1>11. Follows(s, t, NoPack)
    BY <1>6, <1>8, <1>9, Zenon DEF Follows
<1> QED BY <1>10, <1>11 DEF t

LEMMA OthersFollow ==
    ASSUME NEW s \in Contents, Orderly(s), NEW t
    PROVE  PinsIt(s, t) \/ Feeds(s, t) \/ Checks(s, t) => Follows(s, t, NoPack)
<1>1. ASSUME PinsIt(s, t) \/ Feeds(s, t) \/ Checks(s, t)
      PROVE  t \in Contents /\ t.active = s.active /\ t.history = s.history
    <2>1. CASE PinsIt(s, t)
        <3>1. PICK v \in Pins : t = [s EXCEPT !.pinned = v]
            BY <2>1 DEF PinsIt
        <3> QED BY <3>1 DEF Contents
    <2>2. CASE Feeds(s, t)
        <3>1. PICK yes \in BOOLEAN : t = [s EXCEPT !.feed = yes, !.checked = 0]
            BY <2>2 DEF Feeds
        <3> QED BY <3>1 DEF Contents
    <2>3. CASE Checks(s, t)
        <3>1. PICK n \in Nat : t = [s EXCEPT !.checked = n]
            BY <2>3 DEF Checks
        <3> QED BY <3>1 DEF Contents
    <2> QED BY <1>1, <2>1, <2>2, <2>3
<1>2. ASSUME t \in Contents, t.active = s.active, t.history = s.history
      PROVE  Follows(s, t, NoPack)
    BY <1>2 DEF Follows, Orderly, Named
<1> QED BY <1>1, <1>2

-----------------------------------------------------------------------------
(* The invariant is inductive                                               *)

\* Installing more does not hurt, nor does it what a process holds.
LEMMA MoreInstalled ==
    ASSUME packs \subseteq packs', NEW s, NEW d, InstalledBut(s, d)
    PROVE  InstalledBut(s, d)'
BY DEF InstalledBut, Named

\* One process moves.
LEMMA OneMoves ==
    ASSUME IInv, NEW a \in Actor,
           clock' \in Nat, changes' \in Nat, packs \subseteq packs', packs' \subseteq Pack,
           meta' \in Contents, Orderly(meta'), InstalledBut(meta, NoPack)',
           actor' = [actor EXCEPT ![a] = actor'[a]],
           ActorOK(actor[a])'
    PROVE  IInv'
<1>1. actor \in [Actor -> Local] /\ actor'[a] \in Local
    BY DEF IInv, ActorOK
<1>2. actor' \in [Actor -> Local] /\ \A b \in Actor \ {a} : actor'[b] = actor[b]
    BY <1>1
<1>3. ASSUME NEW b \in Actor PROVE ActorOK(actor[b])'
    <2>1. CASE b = a
        BY <2>1
    <2>2. CASE b # a
        <3>1. actor'[b] = actor[b] /\ ActorOK(actor[b])
            BY <1>2, <2>2 DEF IInv
        <3>2. PICK r : r = actor[b]
            OBVIOUS
        <3>3. PICK d : d = IF r.pc = "file" THEN r.doc ELSE NoPack
            OBVIOUS
        <3>4. InstalledBut(r.next, d)
            BY <3>1, <3>2, <3>3 DEF ActorOK
        <3>5. InstalledBut(r.next, d)'
            BY <3>4, MoreInstalled
        <3> QED BY <3>1, <3>2, <3>3, <3>5 DEF ActorOK
    <2> QED BY <2>1, <2>2
<1> QED BY <1>2, <1>3 DEF IInv

LEMMA NoStateOK == NoState \in Contents /\ Orderly(NoState) /\ \A p \in Pack : ~Named(NoState, p)
BY PacksAssumption DEF NoState, Contents, Orderly, Named, Pins

LEMMA RulesInit == Init => IInv
<1> SUFFICES ASSUME Init PROVE IInv
    OBVIOUS
<1>1. \A a \in Actor : actor[a] = Idle
    BY DEF Init
<1>2. ActorOK(Idle)
    BY NoStateOK DEF Idle, Local, Pc, ActorOK, Writing, InstalledBut
<1>3. \A a \in Actor : ActorOK(actor[a])
    BY <1>1, <1>2
<1>4. actor \in [Actor -> Local]
    BY <1>3 DEF Init, ActorOK
<1> QED BY <1>3, <1>4, NoStateOK DEF Init, IInv, InstalledBut

\* A process goes to a place where it is not about to write.
LEMMA Goes ==
    ASSUME IInv, NEW a \in Actor, NEW r \in Local, r.pc \notin Writing,
           r.pc \in {"activate", "file", "compare"} => r.doc \in Pack,
           Orderly(r.next), InstalledBut(r.next, NoPack),
           changes' \in Nat, UNCHANGED <<clock, packs>>,
           meta' \in Contents, Orderly(meta'), InstalledBut(meta, NoPack)',
           actor' = [actor EXCEPT ![a] = r]
    PROVE  IInv'
<1>1. actor'[a] = r
    BY DEF IInv
<1>2. InstalledBut(r.next, NoPack)'
    BY MoreInstalled
<1>3. ActorOK(r)'
    BY <1>2 DEF ActorOK, Writing
<1>4. actor' = [actor EXCEPT ![a] = actor'[a]]
    BY <1>1
<1> QED BY <1>1, <1>3, <1>4, OneMoves DEF IInv

LEMMA MetaKept ==
    ASSUME IInv, UNCHANGED <<packs, meta>>
    PROVE  meta' \in Contents /\ Orderly(meta') /\ InstalledBut(meta, NoPack)'
<1>1. PICK s : s = meta
    OBVIOUS
<1>2. InstalledBut(s, NoPack) /\ packs \subseteq packs'
    BY <1>1 DEF IInv
<1>3. InstalledBut(s, NoPack)'
    BY <1>2, MoreInstalled
<1> QED BY <1>1, <1>3 DEF IInv

\* A process that has read meta will write what one operation makes of it.
LEMMA WillWrite ==
    ASSUME IInv, NEW a \in Actor, NEW s, NEW t, s = meta, NEW pc \in {"write", "checked"},
           Operation(s, t), Follows(s, t, NoPack),
           changes' \in Nat, UNCHANGED <<clock, packs, meta>>,
           actor' = [actor EXCEPT ![a] = [Idle EXCEPT !.pc = pc, !.copy = s, !.next = t]]
    PROVE  IInv'
<1> DEFINE r == [Idle EXCEPT !.pc = pc, !.copy = s, !.next = t]
<1>1. r.pc = pc /\ r.copy = s /\ r.next = t /\ r.doc = NoPack
    BY DEF Idle
<1>2. actor'[a] = r
    BY DEF IInv
<1>3. r \in Local
    BY NoStateOK DEF IInv, Follows, Local, Pc, Idle
<1> HIDE DEF r
<1>4. InstalledBut(t, NoPack)'
    BY PacksAssumption DEF IInv, Follows, InstalledBut
<1>5. ActorOK(actor[a])'
    <2>1. r.pc # "file" /\ r.pc \notin {"activate", "file", "compare"}
          /\ r.next = t /\ r.copy = s
        BY <1>1
    <2>2. ActorOK(r)'
        BY <2>1, <1>3, <1>4 DEF ActorOK, Follows
    <2> QED BY <1>2, <2>2
<1>6. actor' = [actor EXCEPT ![a] = actor'[a]]
    BY <1>2 DEF r
<1> QED BY <1>5, <1>6, MetaKept, OneMoves DEF IInv

\* A process gives up or is done.
LEMMA Returns ==
    ASSUME IInv, NEW a \in Actor, actor' = Return(a), changes' \in Nat, UNCHANGED <<clock, packs>>,
           meta' \in Contents, Orderly(meta'), InstalledBut(meta, NoPack)'
    PROVE  IInv'
<1>1. Idle \in Local /\ Idle.pc = "idle" /\ Idle.next = NoState
    BY NoStateOK DEF Idle, Local, Pc
<1>2. InstalledBut(NoState, NoPack) /\ Orderly(NoState)
    BY NoStateOK DEF InstalledBut
<1>3. actor' = [actor EXCEPT ![a] = Idle]
    BY DEF Return
<1> HIDE DEF Idle
<1> QED BY <1>1, <1>2, <1>3, Goes DEF Writing

LEMMA IntendKeeps ==
    ASSUME IInv, NEW a \in Actor, NEW s, NEW t, s = meta, Intend(a, t),
           Operation(s, t), Follows(s, t, NoPack)
    PROVE  IInv'
<1>1. changes' \in Nat
    BY DEF Intend, IInv
<1> QED BY <1>1, WillWrite DEF Intend

LEMMA CommandsKeep ==
    ASSUME IInv, NEW a \in Actor,
           \/ \E v \in {Version[p] : p \in Pack} \cup {NoVersion} : Pin(a, v)
           \/ ConfigureFeed(a) \/ DisableFeed(a) \/ Rollback(a)
    PROVE  IInv'
<1>0. PICK s : s = meta
    OBVIOUS
<1>s. s \in Contents /\ Orderly(s)
    BY <1>0 DEF IInv
<1>1. ASSUME NEW v \in Pins, Pin(a, v) PROVE IInv'
    <2>1. PICK t : t = [s EXCEPT !.pinned = v]
        OBVIOUS
    <2>2. PinsIt(s, t)
        BY <2>1 DEF PinsIt
    <2> QED BY <1>0, <1>s, <1>1, <2>1, <2>2, OthersFollow, IntendKeeps DEF Pin, Operation
<1>2. ASSUME NEW yes \in BOOLEAN, Intend(a, [meta EXCEPT !.feed = yes, !.checked = 0]) PROVE IInv'
    <2>1. PICK t : t = [s EXCEPT !.feed = yes, !.checked = 0]
        OBVIOUS
    <2>2. Feeds(s, t)
        BY <2>1 DEF Feeds
    <2> QED BY <1>0, <1>s, <1>2, <2>1, <2>2, OthersFollow, IntendKeeps DEF Operation
<1>3. CASE Rollback(a)
    <2>1. PICK t : t = RolledBack(s)
        OBVIOUS
    <2>2. s.history # <<>> /\ Intend(a, t)
        BY <1>0, <1>3, <2>1 DEF Rollback
    <2>3. RollsBack(s, t)
        BY <2>1, <2>2 DEF RollsBack
    <2> QED BY <1>0, <1>s, <2>1, <2>2, <2>3, RolledFollows, IntendKeeps DEF Operation
<1> QED BY <1>1, <1>2, <1>3 DEF Pins, ConfigureFeed, DisableFeed

LEMMA InstallKeeps ==
    ASSUME IInv, NEW a \in Actor, NEW p \in Pack, Install(a, p)
    PROVE  IInv'
<1>1. PICK r : r = [Idle EXCEPT !.pc = "activate", !.doc = p]
    OBVIOUS
<1>2. r \in Local /\ r.pc = "activate" /\ r.doc = p /\ r.next = NoState
    BY <1>1, NoStateOK DEF Idle, Local, Pc
<1>3. InstalledBut(NoState, NoPack)
    BY NoStateOK DEF InstalledBut
<1>4. changes' \in Nat
    BY DEF Install, IInv
<1> QED BY <1>1, <1>2, <1>3, <1>4, NoStateOK, MetaKept, Goes DEF Install, Writing

LEMMA FetchKeeps ==
    ASSUME IInv, NEW a \in Actor, NEW p \in Pack, Fetch(a, p)
    PROVE  IInv'
<1>1. PICK r : r = [actor[a] EXCEPT !.pc = "compare", !.doc = p]
    OBVIOUS
<1>2. actor[a] \in Local /\ ActorOK(actor[a]) /\ actor[a].pc = "fetch"
    BY DEF IInv, Fetch, At
<1>3. r \in Local /\ r.pc = "compare" /\ r.doc = p /\ r.next = actor[a].next
    BY <1>1, <1>2 DEF Local, Pc
<1>4. Orderly(r.next) /\ InstalledBut(r.next, NoPack)
    BY <1>2, <1>3 DEF ActorOK
<1>5. actor' = [actor EXCEPT ![a] = r]
    BY <1>1 DEF Fetch
<1> QED BY <1>3, <1>4, <1>5, MetaKept, Goes DEF Fetch, Writing, IInv

LEMMA CompareKeeps ==
    ASSUME IInv, NEW a \in Actor, Compare(a)
    PROVE  IInv'
<1>1. CASE Loads(meta) /\ meta.active # actor[a].doc
    <2>1. PICK r : r = [actor[a] EXCEPT !.pc = "activate"]
        OBVIOUS
    <2>2. actor[a] \in Local /\ ActorOK(actor[a]) /\ actor[a].pc = "compare"
        BY DEF IInv, Compare, At
    <2>3. r \in Local /\ r.pc = "activate" /\ r.doc = actor[a].doc /\ r.next = actor[a].next
        BY <2>1, <2>2 DEF Local, Pc
    <2>4. Orderly(r.next) /\ InstalledBut(r.next, NoPack) /\ r.doc \in Pack
        BY <2>2, <2>3 DEF ActorOK
    <2>5. actor' = [actor EXCEPT ![a] = r]
        BY <1>1, <2>1 DEF Compare
    <2> QED BY <2>3, <2>4, <2>5, MetaKept, Goes DEF Compare, Writing, IInv
<1>2. CASE ~(Loads(meta) /\ meta.active # actor[a].doc)
    BY <1>2, MetaKept, Returns DEF Compare, IInv
<1> QED BY <1>1, <1>2

LEMMA ReadStateKeeps ==
    ASSUME IInv, NEW a \in Actor, ReadState(a)
    PROVE  IInv'
<1>1. CASE Verifies(actor[a].doc) /\ PinAllows(meta, actor[a].doc)
    <2>0. PICK s, p : s = meta /\ p = actor[a].doc
        OBVIOUS
    <2>1. PICK t : t = Activated(s, p)
        OBVIOUS
    <2>2. actor[a] \in Local /\ ActorOK(actor[a]) /\ actor[a].pc = "activate" /\ p \in Pack
        BY <2>0 DEF IInv, ReadState, At, ActorOK
    <2>3. s \in Contents /\ Orderly(s) /\ InstalledBut(s, NoPack)
        BY <2>0 DEF IInv
    <2>4. Follows(s, t, p) /\ Activates(s, t)
        BY <1>1, <2>0, <2>1, <2>2, <2>3, ActivatedFollows DEF Activates
    <2>5. PICK r : r = [actor[a] EXCEPT !.pc = "file", !.copy = s, !.next = t]
        OBVIOUS
    <2>6. actor' = [actor EXCEPT ![a] = r]
        BY <1>1, <2>0, <2>1, <2>5 DEF ReadState
    <2>7. r \in Local /\ r.pc = "file" /\ r.doc = p /\ r.next = t /\ r.copy = s
        BY <2>0, <2>2, <2>3, <2>4, <2>5 DEF Local, Pc, Follows
    <2>8. InstalledBut(t, p)'
        BY <2>3, <2>4, PacksAssumption DEF ReadState, InstalledBut, Follows
    <2>9. ActorOK(r)'
        BY <2>2, <2>4, <2>7, <2>8 DEF ActorOK, Follows, Operation
    <2>10. actor'[a] = r
        BY <2>6 DEF IInv
    <2>11. actor' = [actor EXCEPT ![a] = actor'[a]]
        BY <2>6, <2>10
    <2> QED BY <2>9, <2>10, <2>11, MetaKept, OneMoves DEF ReadState, IInv
<1>2. CASE ~(Verifies(actor[a].doc) /\ PinAllows(meta, actor[a].doc))
    BY <1>2, MetaKept, Returns DEF ReadState, IInv
<1> QED BY <1>1, <1>2

LEMMA WriteDocumentKeeps ==
    ASSUME IInv, NEW a \in Actor, WriteDocument(a)
    PROVE  IInv'
<1>1. PICK r, d : r = [actor[a] EXCEPT !.pc = "write"] /\ d = actor[a].doc
    OBVIOUS
<1>2. actor[a] \in Local /\ ActorOK(actor[a]) /\ actor[a].pc = "file" /\ d \in Pack
    BY <1>1 DEF IInv, WriteDocument, At, ActorOK
<1>3. r \in Local /\ r.pc = "write" /\ r.doc = d /\ r.next = actor[a].next /\ r.copy = actor[a].copy
    BY <1>1, <1>2 DEF Local, Pc
<1>4. packs' = packs \cup {d}
    BY <1>1 DEF WriteDocument, WritePack
<1>5. Orderly(r.next) /\ InstalledBut(r.next, d) /\ Operation(r.copy, r.next)
    BY <1>1, <1>2, <1>3 DEF ActorOK, Writing
<1>6. InstalledBut(r.next, NoPack)'
    BY <1>4, <1>5 DEF InstalledBut
<1>7. ActorOK(r)'
    BY <1>3, <1>5, <1>6 DEF ActorOK
<1>8. actor' = [actor EXCEPT ![a] = r] /\ actor'[a] = r
    BY <1>1 DEF WriteDocument, IInv
<1>9. actor' = [actor EXCEPT ![a] = actor'[a]]
    BY <1>8
<1>10. InstalledBut(meta, NoPack)'
    <2>1. PICK s : s = meta
        OBVIOUS
    <2>2. InstalledBut(s, NoPack)'
        BY <2>1, <1>4, MoreInstalled DEF IInv
    <2> QED BY <2>1, <2>2 DEF WriteDocument
<1> QED BY <1>2, <1>4, <1>7, <1>8, <1>9, <1>10, OneMoves DEF WriteDocument, IInv

LEMMA WritesKeep ==
    ASSUME IInv, NEW a \in Actor, WriteState(a) \/ WriteChecked(a)
    PROVE  IInv'
<1>1. PICK t : t = actor[a].next
    OBVIOUS
<1>2. meta' = t /\ UNCHANGED <<clock, packs, changes>>
    BY <1>1 DEF WriteState, WriteChecked
<1>3. t \in Contents /\ Orderly(t) /\ InstalledBut(t, NoPack)
    BY <1>1 DEF WriteState, WriteChecked, At, IInv, ActorOK, Local
<1>4. InstalledBut(t, NoPack)'
    BY <1>2, <1>3, MoreInstalled
<1>5. meta' \in Contents /\ Orderly(meta') /\ InstalledBut(meta, NoPack)' /\ changes' \in Nat
    BY <1>2, <1>3, <1>4 DEF IInv
<1>6. CASE WriteState(a)
    BY <1>2, <1>5, <1>6, Returns DEF WriteState
<1>7. CASE WriteChecked(a)
    <2>1. PICK r : r = [Idle EXCEPT !.pc = "fetch"]
        OBVIOUS
    <2>2. r \in Local /\ r.pc = "fetch" /\ r.next = NoState
        BY <2>1, NoStateOK DEF Idle, Local, Pc
    <2>3. Orderly(NoState) /\ InstalledBut(NoState, NoPack)
        BY NoStateOK DEF InstalledBut
    <2> QED BY <1>2, <1>5, <1>7, <2>1, <2>2, <2>3, Goes DEF WriteChecked, Writing
<1> QED BY <1>6, <1>7

LEMMA AutoUpdateKeeps ==
    ASSUME IInv, NEW a \in Actor, AutoUpdate(a)
    PROVE  IInv'
<1>1. PICK s, t : s = meta /\ t = [s EXCEPT !.checked = clock]
    OBVIOUS
<1>2. s \in Contents /\ Orderly(s) /\ Checks(s, t)
    BY <1>1 DEF IInv, Checks
<1>3. changes' \in Nat /\ UNCHANGED <<clock, packs, meta>>
    BY DEF AutoUpdate, IInv
<1>4. actor' = [actor EXCEPT ![a] = [Idle EXCEPT !.pc = "checked", !.copy = s, !.next = t]]
    BY <1>1 DEF AutoUpdate
<1> QED BY <1>1, <1>2, <1>3, <1>4, OthersFollow, WillWrite DEF Operation

LEMMA RulesStep == IInv /\ [Next]_vars => IInv'
<1> SUFFICES ASSUME IInv, [Next]_vars PROVE IInv'
    OBVIOUS
<1>1. CASE Tick
    <2>1. \A a \in Actor : ActorOK(actor[a])'
        BY <1>1 DEF IInv, Tick, ActorOK, InstalledBut
    <2> QED BY <1>1, <2>1, MetaKept DEF IInv, Tick
<1>2. CASE UNCHANGED vars
    <2>1. \A a \in Actor : ActorOK(actor[a])'
        BY <1>2 DEF IInv, vars, ActorOK, InstalledBut
    <2> QED BY <1>2, <2>1, MetaKept DEF IInv, vars
<1>3. ASSUME NEW a \in Actor, FetchFails(a) \/ Crash(a) PROVE IInv'
    BY <1>3, MetaKept, Returns DEF FetchFails, Crash, IInv
<1> QED BY <1>1, <1>2, <1>3, CommandsKeep, InstallKeeps, FetchKeeps, CompareKeeps, ReadStateKeeps,
           WriteDocumentKeeps, WritesKeep, AutoUpdateKeeps DEF Next

\* What state.json says and what any process will write of it is orderly and
\* installed, and each write is one operation on what was read.
THEOREM RulesInvariant == Spec => []IInv
BY RulesInit, RulesStep, PTL DEF Spec

LEMMA RulesStateOK == IInv => StateOK
<1> SUFFICES ASSUME IInv PROVE StateOK
    OBVIOUS
<1>1. meta \in Contents /\ Orderly(meta) /\ InstalledBut(meta, NoPack)
    BY DEF IInv
<1>2. \A a \in Actor : actor[a] \in Local
    BY DEF IInv
<1>3. \A s \in States : s \in Contents
    BY <1>1, <1>2 DEF States, Local
<1>4. TypeOK
    BY <1>2, <1>3 DEF TypeOK, IInv, Contents, Pins, Local
<1>5. ActiveInstalled
    <2> SUFFICES ASSUME NEW p \in Referenced PROVE p \in packs
        BY DEF ActiveInstalled
    <2>1. p \in Pack /\ Named(meta, p)
        BY <1>1 DEF Referenced, ToSet, Named, Contents
    <2> QED BY <1>1, <2>1, PacksAssumption DEF InstalledBut
<1>6. HistoryOK
    BY <1>1 DEF HistoryOK, Orderly, IsInjective, ToSet
<1> QED BY <1>4, <1>5, <1>6 DEF StateOK

\* Whatever stale copy is written last and wherever a process dies, state.json
\* can be acted upon: what it names is installed, and its history is a bounded
\* list of distinct packs (_activate, _write_state).
THEOREM StateStaysOK == Spec => []StateOK
BY RulesInvariant, RulesStateOK, PTL

-----------------------------------------------------------------------------
(* The ledger                                                               *)

LEMMA SameMembers ==
    ASSUME NEW s \in Seq(Pack), NEW t \in Seq(Pack), Len(s) = Len(t),
           \A i \in 1 .. Len(s) : s[i] = t[i]
    PROVE  s = t
OBVIOUS

LEMMA Joined ==
    ASSUME NEW s \in Seq(Pack), NEW t \in Seq(Pack)
    PROVE  /\ s \o t \in Seq(Pack) /\ Len(s \o t) = Len(s) + Len(t)
           /\ \A i \in 1 .. Len(s) + Len(t) :
                  (s \o t)[i] = IF i <= Len(s) THEN s[i] ELSE t[i - Len(s)]
OBVIOUS

\* r after p gave up its place in it
CutOut(r, p) ==
    IF \E i \in DOMAIN r : r[i] = p
    THEN LET i == CHOOSE i \in DOMAIN r : r[i] = p
         IN  SubSeq(r, 1, i - 1) \o SubSeq(r, i + 1, Len(r))
    ELSE r

\* t is r without its k-th member.
Lacks(r, k, t) ==
    /\ t \in Seq(Pack) /\ Len(t) = Len(r) - 1
    /\ \A n \in 1 .. Len(r) - 1 : t[n] = IF n < k THEN r[n] ELSE r[n + 1]

LEMMA CutOutLacks ==
    ASSUME NEW r \in Seq(Pack), NEW k \in DOMAIN r,
           \A i \in DOMAIN r : r[i] = r[k] => i = k
    PROVE  Lacks(r, k, CutOut(r, r[k]))
<1>1. (CHOOSE i \in DOMAIN r : r[i] = r[k]) = k
    OBVIOUS
<1>2. CutOut(r, r[k]) = SubSeq(r, 1, k - 1) \o SubSeq(r, k + 1, Len(r))
    BY <1>1 DEF CutOut
<1>3. k \in 1 .. Len(r) /\ Len(r) \in Nat
    OBVIOUS
<1> DEFINE u == SubSeq(r, 1, k - 1)
           v == SubSeq(r, k + 1, Len(r))
<1>4. u \in Seq(Pack) /\ Len(u) = k - 1 /\ \A i \in 1 .. k - 1 : u[i] = r[i]
    BY <1>3
<1>5. /\ v \in Seq(Pack) /\ Len(v) = Len(r) - k
      /\ \A i \in 1 .. Len(r) - k : v[i] = r[i + k]
    BY <1>3
<1> HIDE DEF u, v
<1>6. /\ u \o v \in Seq(Pack) /\ Len(u \o v) = Len(r) - 1
      /\ \A i \in 1 .. Len(r) - 1 : (u \o v)[i] = IF i < k THEN r[i] ELSE r[i + 1]
    BY <1>3, <1>4, <1>5
<1> QED BY <1>2, <1>6 DEF Lacks, u, v

LEMMA LacksUnique ==
    ASSUME NEW r \in Seq(Pack), NEW k, NEW s, NEW t, Lacks(r, k, s), Lacks(r, k, t)
    PROVE  s = t
BY SameMembers DEF Lacks

\* Of two lists that both end with the pack of latest use, the one that is kept
\* one longer.
LEMMA LatestAppend ==
    ASSUME NEW w \in Seq(Pack), NEW p \in Pack
    PROVE  Ledger!Latest(Append(w, p)) = Append(LatestOf(w), p)
<1> DEFINE m == Len(w)
           s == Append(w, p)
           t == Append(LatestOf(w), p)
<1>0. Kept \in Nat \ {0} /\ m \in Nat
    BY PacksAssumption
<1>1. /\ s \in Seq(Pack) /\ Len(s) = m + 1 /\ s[m + 1] = p
      /\ \A i \in 1 .. m : s[i] = w[i]
    OBVIOUS
<1>2. CASE m <= Kept
    <2>1. t = s
        BY <1>0, <1>2, LatestEnds
    <2>2. Len(s) - (IF Len(s) > Kept + 1 THEN Kept ELSE Len(s) - 1) = 1
        BY <1>0, <1>1, <1>2
    <2> HIDE DEF s
    <2>3. Ledger!Latest(s) = SubSeq(s, 1, Len(s))
        BY <2>2, Zenon DEF Ledger!Latest
    <2>4. SubSeq(s, 1, Len(s)) = s
        BY <1>1
    <2> QED BY <2>1, <2>3, <2>4 DEF s
<1>3. CASE m > Kept
    <2>1. Tail1(w, LatestOf(w), m - Kept)
        BY <1>3, LatestEnds
    <2>2. /\ t \in Seq(Pack) /\ Len(t) = Kept + 1 /\ t[Kept + 1] = p
          /\ \A i \in 1 .. Kept : t[i] = w[i + (m - Kept)]
        BY <1>0, <1>3, <2>1 DEF Tail1
    <2>3. Len(s) - (IF Len(s) > Kept + 1 THEN Kept ELSE Len(s) - 1) = m + 1 - Kept
        BY <1>0, <1>1, <1>3
    <2> HIDE DEF s, t
    <2>4. Ledger!Latest(s) = SubSeq(s, m + 1 - Kept, Len(s))
        BY <2>3, Zenon DEF Ledger!Latest
    <2> DEFINE u == SubSeq(s, m + 1 - Kept, m + 1)
    <2>5. /\ u \in Seq(Pack) /\ Len(u) = Kept + 1
          /\ \A i \in 1 .. Kept + 1 : u[i] = s[i + (m - Kept)]
        BY <1>0, <1>1, <1>3
    <2> HIDE DEF u
    <2>6. \A i \in 1 .. Kept + 1 : u[i] = t[i]
        <3> TAKE i \in 1 .. Kept + 1
        <3>1. CASE i = Kept + 1
            <4>1. i + (m - Kept) = m + 1
                BY <3>1, <1>0
            <4> QED BY <4>1, <3>1, <1>1, <2>2, <2>5
        <3>2. CASE i # Kept + 1
            <4>1. i \in 1 .. Kept /\ i + (m - Kept) \in 1 .. m
                BY <3>2, <1>0, <1>3
            <4> QED BY <4>1, <1>1, <2>2, <2>5
        <3> QED BY <3>1, <3>2
    <2>7. u = t
        BY <2>2, <2>5, <2>6, SameMembers
    <2> QED BY <1>1, <2>4, <2>7 DEF s, t, u
<1> QED BY <1>0, <1>2, <1>3

\* What is left of the packs of a state when p gives up its place: what the code
\* makes of the history, with the pack that was active unless it is p.
LEMMA CutOutOthers ==
    ASSUME NEW s \in Contents, Orderly(s), NEW p \in Pack
    PROVE  LET others == Others(s.history, p)
               long == IF s.active \in {NoPack, p} THEN others ELSE Append(others, s.active)
           IN  CutOut(Recent(s), p) = long /\ long \in Seq(Pack)
<1> DEFINE h == s.history
           q == s.active
           others == Others(h, p)
           long == IF q \in {NoPack, p} THEN others ELSE Append(others, q)
<1>0. h \in Seq(Pack) /\ Len(h) \in Nat /\ q \in Pack \cup {NoPack} /\ p # NoPack
    BY PacksAssumption DEF Contents
<1>1. /\ \A i, j \in DOMAIN h : h[i] = h[j] => i = j
      /\ \A i \in DOMAIN h : h[i] # q
      /\ q = NoPack => h = <<>>
    BY DEF Orderly
<1>2. Short(h, p, others)
    BY <1>0, <1>1, OthersShort
<1>3. Recent(s) = IF q = NoPack THEN <<>> ELSE Append(h, q)
    BY DEF Recent
<1> HIDE DEF others, h, q
<1>4. CASE q = NoPack
    <2>1. h = <<>> /\ others = <<>> /\ long = <<>>
        BY <1>1, <1>2, <1>4 DEF Short
    <2>2. CutOut(<<>>, p) = <<>>
        BY DEF CutOut
    <2>3. Recent(s) = <<>>
        BY <1>3, <1>4
    <2>4. long \in Seq(Pack)
        BY <2>1
    <2>5. CutOut(Recent(s), p) = long
        BY <2>1, <2>2, <2>3
    <2> HIDE DEF long
    <2> QED BY <2>4, <2>5 DEF long, others, h, q
<1>5. CASE q # NoPack
    <2> DEFINE r == Append(h, q)
               n == Len(h)
    <2>0. q \in Pack
        BY <1>0, <1>5
    <2>1. /\ r \in Seq(Pack) /\ Len(r) = n + 1 /\ DOMAIN r = 1 .. n + 1 /\ r[n + 1] = q
          /\ \A i \in 1 .. n : r[i] = h[i]
          /\ DOMAIN h = 1 .. n
        BY <1>0, <2>0
    <2>2. \A i, j \in 1 .. n + 1 : r[i] = r[j] => i = j
        BY <1>0, <1>1, <2>1
    <2> HIDE DEF r
    <2>3. CASE q = p
        <3>1. \A i \in 1 .. n : h[i] # p
            BY <1>1, <2>1, <2>3
        <3>2. others = h
            BY <1>2, <2>1, <3>1 DEF Short
        <3>3. long = h
            BY <2>3, <3>2
        <3>4. n + 1 \in DOMAIN r /\ \A i \in DOMAIN r : r[i] = r[n + 1] => i = n + 1
            BY <1>0, <2>1, <2>2
        <3>5. Lacks(r, n + 1, CutOut(r, r[n + 1]))
            BY <2>1, <3>4, CutOutLacks
        <3>6. Lacks(r, n + 1, h)
            BY <1>0, <2>1 DEF Lacks
        <3>7. CutOut(r, p) = h
            BY <2>1, <2>3, <3>5, <3>6, LacksUnique
        <3> QED BY <1>0, <1>3, <1>5, <3>3, <3>7 DEF r, others, h, q
    <2>4. CASE q # p /\ \A i \in DOMAIN h : h[i] # p
        <3>1. others = h
            BY <1>2, <2>1, <2>4 DEF Short
        <3>2. long = r
            BY <1>5, <2>4, <3>1 DEF r
        <3>3. \A i \in DOMAIN r : r[i] # p
            BY <1>0, <2>1, <2>4
        <3>4. CutOut(r, p) = r
            BY <3>3 DEF CutOut
        <3> QED BY <2>1, <1>3, <1>5, <3>2, <3>4 DEF r, others, h, q
    <2>5. CASE q # p /\ \E k \in DOMAIN h : h[k] = p
        <3>1. PICK k \in DOMAIN h :
                 /\ h[k] = p
                 /\ others = [i \in 1 .. n - 1 |-> IF i < k THEN h[i] ELSE h[i + 1]]
            BY <1>2, <2>5 DEF Short
        <3>2. /\ others \in Seq(Pack) /\ Len(others) = n - 1 /\ k \in 1 .. n
              /\ \A i \in 1 .. n - 1 : others[i] = IF i < k THEN h[i] ELSE h[i + 1]
            <4>1. others \in Seq(Pack)
                BY <1>2 DEF Short
            <4>2. k \in 1 .. n /\ n - 1 \in Nat
                BY <1>0, <2>1
            <4>3. DOMAIN others = 1 .. n - 1
                BY <3>1
            <4>4. \A i \in 1 .. n - 1 : others[i] = IF i < k THEN h[i] ELSE h[i + 1]
                BY <3>1
            <4> QED BY <4>1, <4>2, <4>3, <4>4
        <3>3. long = Append(others, q)
            BY <1>5, <2>5
        <3>4. /\ long \in Seq(Pack) /\ Len(long) = n /\ long[n] = q
              /\ \A i \in 1 .. n - 1 : long[i] = others[i]
            BY <1>0, <2>0, <3>2, <3>3
        <3> HIDE DEF long
        <3>5. k \in DOMAIN r /\ r[k] = p /\ \A i \in DOMAIN r : r[i] = r[k] => i = k
            BY <1>0, <2>1, <2>2, <3>1, <3>2
        <3>6. Lacks(r, k, CutOut(r, r[k]))
            BY <2>1, <3>5, CutOutLacks
        <3>7. \A i \in 1 .. n : long[i] = IF i < k THEN r[i] ELSE r[i + 1]
            <4> TAKE i \in 1 .. n
            <4>1. CASE i = n
                BY <4>1, <1>0, <2>1, <3>2, <3>4
            <4>2. CASE i # n
                <5>1. i \in 1 .. n - 1 /\ i + 1 \in 1 .. n
                    BY <4>2, <1>0
                <5> QED BY <5>1, <1>0, <2>1, <3>2, <3>4
            <4> QED BY <4>1, <4>2
        <3>8. Lacks(r, k, long)
            BY <1>0, <2>1, <3>4, <3>7 DEF Lacks
        <3>9. CutOut(r, p) = long
            BY <2>1, <3>5, <3>6, <3>8, LacksUnique
        <3> QED BY <1>3, <1>5, <3>4, <3>9 DEF r, long, others, h, q
    <2> QED BY <2>3, <2>4, <2>5
<1> QED BY <1>4, <1>5

\* An activation puts the pack last, in the place of the oldest when full.
LEMMA ActivatedRecent ==
    ASSUME NEW s \in Contents, Orderly(s), NEW p \in Pack
    PROVE  Recent(Activated(s, p)) = Ledger!Latest(Append(CutOut(Recent(s), p), p))
<1> DEFINE others == Others(s.history, p)
           long == IF s.active \in {NoPack, p} THEN others ELSE Append(others, s.active)
<1>1. CutOut(Recent(s), p) = long /\ long \in Seq(Pack)
    BY CutOutOthers
<1>2. PICK t : t = Activated(s, p)
    OBVIOUS
<1>3. t.active = p /\ t.history = LatestOf(long)
    BY <1>2 DEF Activated, Contents
<1> HIDE DEF others, long
<1>4. Recent(t) = Append(LatestOf(long), p)
    BY <1>3, PacksAssumption DEF Recent
<1> QED BY <1>1, <1>2, <1>4, LatestAppend

\* A rollback exchanges the last two.
LEMMA RolledRecent ==
    ASSUME NEW s \in Contents, Orderly(s), s.history # <<>>, NEW r, r = Recent(s)
    PROVE  /\ Len(r) >= 2
           /\ Recent(RolledBack(s))
                = SubSeq(r, 1, Len(r) - 2) \o <<r[Len(r)], r[Len(r) - 1]>>
<1> DEFINE h == s.history
           n == Len(h)
           q == s.active
<1>0. h \in Seq(Pack) /\ n \in Nat \ {0} /\ q \in Pack
    BY PacksAssumption DEF Contents, Orderly
<1>1. PICK t : t = RolledBack(s)
    OBVIOUS
<1>2. t.active = h[n] /\ t.history = Append(Front(h), q) /\ h[n] \in Pack
    <2>1. t.active = h[n]
        BY <1>1 DEF RolledBack, Last, Contents
    <2>2. t.history = Append(Front(h), q)
        BY <1>1, RolledFollows
    <2>3. h[n] \in Pack
        BY <1>0
    <2> QED BY <2>1, <2>2, <2>3
<1>3. r = Append(h, q)
    BY <1>0, PacksAssumption DEF Recent
<1>4. Recent(t) = Append(Append(Front(h), q), h[n])
    BY <1>0, <1>2, PacksAssumption DEF Recent
<1>5. /\ Front(h) \in Seq(Pack) /\ Len(Front(h)) = n - 1
      /\ \A i \in 1 .. n - 1 : Front(h)[i] = h[i]
    BY <1>0 DEF Front
<1> HIDE DEF h, q
<1>6. /\ r \in Seq(Pack) /\ Len(r) = n + 1 /\ r[n + 1] = q
      /\ \A i \in 1 .. n : r[i] = h[i]
    BY <1>0, <1>3
<1> DEFINE front == Front(h)
<1> HIDE DEF front
<1>f. /\ front \in Seq(Pack) /\ Len(front) = n - 1
      /\ \A i \in 1 .. n - 1 : front[i] = h[i]
    BY <1>5 DEF front
<1> DEFINE u == Append(Append(front, q), h[n])
<1>7. /\ u \in Seq(Pack) /\ Len(u) = n + 1 /\ u[n + 1] = h[n] /\ u[n] = q
      /\ \A i \in 1 .. n - 1 : u[i] = h[i]
    BY <1>0, <1>2, <1>f
<1> DEFINE v == SubSeq(r, 1, Len(r) - 2)
           pair == <<r[Len(r)], r[Len(r) - 1]>>
<1>8. /\ v \in Seq(Pack) /\ Len(v) = n - 1
      /\ \A i \in 1 .. n - 1 : v[i] = h[i]
    <2>1. Len(r) - 2 = n - 1 /\ n - 1 \in Nat /\ n - 1 <= Len(r)
        BY <1>0, <1>6
    <2>2. v = SubSeq(r, 1, n - 1)
        BY <2>1
    <2> DEFINE m == n - 1
    <2> HIDE DEF m, v
    <2>3. v = SubSeq(r, 1, m) /\ m \in Nat /\ m <= Len(r)
        BY <2>1, <2>2 DEF m
    <2>4. v \in Seq(Pack) /\ Len(v) = m /\ \A i \in 1 .. m : v[i] = r[i]
        BY <1>6, <2>3
    <2>5. \A i \in 1 .. m : v[i] = h[i]
        BY <1>0, <1>6, <2>4 DEF m
    <2> QED BY <2>4, <2>5 DEF m
<1>9. pair \in Seq(Pack) /\ Len(pair) = 2 /\ pair[1] = q /\ pair[2] = h[n]
    BY <1>0, <1>2, <1>6
<1> HIDE DEF v, pair, u
<1>10. /\ v \o pair \in Seq(Pack) /\ Len(v \o pair) = n + 1
       /\ \A i \in 1 .. n - 1 : (v \o pair)[i] = h[i]
       /\ (v \o pair)[n] = q /\ (v \o pair)[n + 1] = h[n]
    <2> DEFINE w == v \o pair
    <2>1. w \in Seq(Pack) /\ Len(w) = Len(v) + Len(pair)
        BY <1>8, <1>9, Joined
    <2>5. \A i \in 1 .. Len(v) + Len(pair) :
             w[i] = IF i <= Len(v) THEN v[i] ELSE pair[i - Len(v)]
        BY <1>8, <1>9, Joined
    <2> HIDE DEF w
    <2>2. Len(v) + 1 = n /\ Len(v) + 2 = n + 1
        BY <1>0, <1>8
    <2>3. w[n] = q /\ w[n + 1] = h[n]
        <3>1. /\ n \in Len(v) + 1 .. Len(v) + Len(pair) /\ n - Len(v) = 1
              /\ n + 1 \in Len(v) + 1 .. Len(v) + Len(pair) /\ n + 1 - Len(v) = 2
            BY <1>0, <1>8, <1>9
        <3>2. w[n] = pair[n - Len(v)] /\ w[n + 1] = pair[n + 1 - Len(v)]
            BY <1>0, <1>8, <1>9, <2>5, <3>1
        <3> QED BY <1>9, <3>1, <3>2
    <2>4. Len(w) = n + 1 /\ \A i \in 1 .. n - 1 : w[i] = h[i]
        BY <1>0, <1>8, <1>9, <2>1, <2>5
    <2> QED BY <2>1, <2>3, <2>4 DEF w
<1>11. \A i \in 1 .. n + 1 : u[i] = (v \o pair)[i]
    <2>1. \A i \in 1 .. n + 1 : i \in 1 .. n - 1 \/ i = n \/ i = n + 1
        BY <1>0
    <2> QED BY <1>7, <1>10, <2>1, Zenon
<1>12. u = v \o pair
    BY <1>7, <1>10, <1>11, SameMembers
<1>13. Recent(t) = u
    BY <1>4 DEF u, front
<1>14. Recent(t) = SubSeq(r, 1, Len(r) - 2) \o <<r[Len(r)], r[Len(r) - 1]>>
    BY <1>12, <1>13 DEF v, pair
<1>15. Len(r) >= 2
    BY <1>0, <1>6
<1> QED BY <1>1, <1>14, <1>15

\* One operation on state.json is one operation of the ledger.
LEMMA OperationIsLedgers ==
    ASSUME NEW s \in Contents, Orderly(s), NEW t, s = meta, t = meta', Operation(s, t)
    PROVE  Ledger!Next \/ UNCHANGED Ledger!vars
<1>1. CASE Activates(s, t)
    <2>1. PICK p \in Pack : PinAllows(s, p) /\ t = Activated(s, p)
        BY <1>1 DEF Activates
    <2>2. Recent(t) = Ledger!Latest(Append(CutOut(Recent(s), p), p))
        BY <2>1, ActivatedRecent
    <2>3. Ledger!Without(p) = CutOut(Recent(meta), p)
        BY DEF Ledger!Without, CutOut
    <2>4. t.pinned = s.pinned /\ t.feed = s.feed /\ s.pinned \in {NoVersion, Version[p]}
        BY <2>1 DEF Activated, PinAllows, Contents
    <2>5. Recent(meta)' = Recent(t)
        BY DEF Recent
    <2>6. Ledger!Activate(p)
        BY <2>2, <2>3, <2>4, <2>5 DEF Ledger!Activate
    <2> QED BY <2>6 DEF Ledger!Next
<1>2. CASE RollsBack(s, t)
    <2>1. s.history # <<>> /\ t = RolledBack(s)
        BY <1>2 DEF RollsBack
    <2>2. PICK r : r = Recent(s)
        OBVIOUS
    <2>3. /\ Len(r) >= 2
          /\ Recent(t) = SubSeq(r, 1, Len(r) - 2) \o <<r[Len(r)], r[Len(r) - 1]>>
        BY <2>1, <2>2, RolledRecent
    <2>4. t.pinned = s.pinned /\ t.feed = s.feed
        BY <2>1 DEF RolledBack, Contents
    <2>5. Recent(meta)' = Recent(t)
        BY DEF Recent
    <2>6. Ledger!Rollback
        BY <2>2, <2>3, <2>4, <2>5 DEF Ledger!Rollback
    <2> QED BY <2>6 DEF Ledger!Next
<1>3. CASE PinsIt(s, t) \/ Feeds(s, t) \/ Checks(s, t)
    <2>1. PICK u : u = Recent(s)
        OBVIOUS
    <2>2. CASE PinsIt(s, t)
        <3>1. PICK v \in Pins : t = [s EXCEPT !.pinned = v]
            BY <2>2 DEF PinsIt
        <3>2. t.active = s.active /\ t.history = s.history /\ t.pinned = v /\ t.feed = s.feed
            BY <3>1 DEF Contents
        <3>3. Recent(t) = Recent(s)
            BY <3>2 DEF Recent
        <3>4. Ledger!Pin(v)
            BY <3>2, <3>3 DEF Ledger!Pin, Recent
        <3> QED BY <3>4 DEF Ledger!Next, Pins
    <2>3. CASE Feeds(s, t)
        <3>1. PICK yes \in BOOLEAN : t = [s EXCEPT !.feed = yes, !.checked = 0]
            BY <2>3 DEF Feeds
        <3>2. t.active = s.active /\ t.history = s.history /\ t.pinned = s.pinned /\ t.feed = yes
            BY <3>1 DEF Contents
        <3>3. Ledger!Consent(yes)
            BY <3>2 DEF Ledger!Consent, Recent
        <3> QED BY <3>3 DEF Ledger!Next
    <2>4. CASE Checks(s, t)
        <3>1. PICK n \in Nat : t = [s EXCEPT !.checked = n]
            BY <2>4 DEF Checks
        <3>2. t.active = s.active /\ t.history = s.history /\ t.pinned = s.pinned /\ t.feed = s.feed
            BY <3>1 DEF Contents
        <3> QED BY <3>2 DEF Ledger!vars, Recent
    <2> QED BY <1>3, <2>2, <2>3, <2>4
<1> QED BY <1>1, <1>2, <1>3 DEF Operation

LEMMA StepsAreLedgers ==
    IInv /\ [Next]_vars => Outdated \/ Ledger!Next \/ UNCHANGED Ledger!vars
<1> SUFFICES ASSUME IInv, [Next]_vars, ~Outdated
             PROVE  Ledger!Next \/ UNCHANGED Ledger!vars
    OBVIOUS
<1>1. ASSUME meta' = meta PROVE UNCHANGED Ledger!vars
    BY <1>1 DEF Ledger!vars, Recent
<1>2. ASSUME NEW a \in Actor, WriteState(a) \/ WriteChecked(a)
      PROVE  Ledger!Next \/ UNCHANGED Ledger!vars
    <2>0. actor[a] \in Local /\ ActorOK(actor[a]) /\ actor[a].pc \in {"write", "checked"}
        BY <1>2 DEF IInv, WriteState, WriteChecked, At
    <2>1. actor'[a].pc \in {"idle", "fetch"}
        BY <1>2 DEF WriteState, WriteChecked, Return, Idle, IInv
    <2>2. Writes(a)
        BY <2>0, <2>1 DEF Writes
    <2>3. actor[a].copy = meta
        BY <2>2 DEF Outdated
    <2>4. PICK s, t : s = meta /\ t = meta'
        OBVIOUS
    <2>5. t = actor[a].next
        BY <1>2, <2>4 DEF WriteState, WriteChecked
    <2>6. Operation(s, t)
        BY <2>0, <2>3, <2>4, <2>5 DEF ActorOK, Writing
    <2>7. s \in Contents /\ Orderly(s)
        BY <2>4 DEF IInv
    <2> QED BY <2>4, <2>6, <2>7, OperationIsLedgers
<1>3. ASSUME ~\E a \in Actor : WriteState(a) \/ WriteChecked(a)
      PROVE  meta' = meta
    BY <1>3 DEF Next, vars, Tick, Pin, ConfigureFeed, DisableFeed, Rollback, Intend, Install,
                Fetch, ReadState, WriteDocument, AutoUpdate, FetchFails, Compare, Crash
<1> QED BY <1>1, <1>2, <1>3

\* Every write that is not based on an outdated state is one operation of the
\* ledger, for any packs, versions, commands and engines: activations put a
\* pack last and respect the pin, a rollback makes the last two change places
\* (RulePackManager).
THEOREM WritesAreLedgers == Spec => LedgerSteps
<1> DEFINE Body == Outdated \/ Ledger!Next \/ UNCHANGED Ledger!vars
<1>1. IInv /\ [Next]_vars => [Body]_vars
    BY StepsAreLedgers
<1>2. LedgerSteps <=> [][Body]_vars
    BY DEF LedgerSteps
<1> HIDE DEF Body
<1> QED BY <1>1, <1>2, RulesInvariant, PTL DEF Spec
=============================================================================
