---------------------------- MODULE SnapshotProofs ----------------------------
(***************************************************************************)
(* What a report says was on the disk, what the store refers to is in it,  *)
(* and its key fits, for any processes, files, edits, crashes and limits.  *)
(***************************************************************************)
EXTENDS SnapshotProperties, FiniteSetTheorems, WellFoundedInduction, TLAPS

-----------------------------------------------------------------------------
(* The inductive invariant                                                  *)

Locals ==
    [pc : Pc, key : Key \cup {None}, pass : {"capture", "verify"}, todo : SUBSET File,
     inode : Nat \cup {None}, first : Nat \cup {None}, tree : Tree, again : Tree,
     seen : SUBSET Tree, payload : {None, Reason}]

DiskOK ==
    /\ setting \in Settings /\ edits \in Nat
    /\ dir \in [File -> Nat \cup {Link, None}]
    /\ DOMAIN version \subseteq Nat
    /\ \A i \in DOMAIN version : version[i] \in 0 .. edits
    /\ \A f \in File : dir[f] \in Nat => dir[f] \in DOMAIN version

Walking(r) == r.pc \in {"look", "inspect", "open", "read"}
Verifying(r) == Walking(r) /\ r.pass = "verify"
Storing(r) == r.pc \in {"put", "replace"} /\ r.payload = None
Captured(r) == Storing(r) \/ r.pc = "analyze" \/ Verifying(r)

\* What a process holds: a file it has opened is one there is, and
\* what it has read so far came from a version there was.
Holds(r) ==
    /\ Walking(r) => r.todo # {}
    /\ r.inode # None => r.inode \in DOMAIN version
    /\ r.pc \in {"open", "read"} <=> r.inode # None
    /\ r.pc = "read" => r.first \in 0 .. edits
    /\ r.payload # None => r.pc \in {"put", "replace", "row"}
    /\ \A f \in File : r.tree[f] \in (0 .. edits) \cup {Skipped, None}
    /\ Walking(r) \/ Captured(r) \/ r.pc = "report" => TreeNow \in r.seen
    /\ ~Verifying(r) /\ r.pc # "report" => r.again = Empty

\* A file of r's snapshot that was not as it says in t is not so now, has not
\* been found so by the second walk, and will not be.
Differs(r, t, f) ==
    t[f] # r.tree[f] =>
        /\ TreeNow[f] # r.tree[f]
        /\ r.again[f] # r.tree[f]
        /\ r.pc = "read" /\ f = Lowest(r.todo) => r.first # r.tree[f]

Fits(r) == Captured(r) => \E t \in r.seen : \A f \in FilesOf(r.tree) : Differs(r, t, f)

Real(r) == r.pc = "report" => \E t \in r.seen : \A f \in FilesOf(r.tree) : t[f] = r.tree[f]

\* How far r has come with storing its snapshot, or its feedback.
KeptIn(S, r) ==
    /\ Storing(r) => /\ r.todo \subseteq FilesOf(r.tree)
                     /\ \A f \in FilesOf(r.tree) \ r.todo : OfFile(r.tree[f]) \in S
    /\ r.pc \in {"analyze", "report"} \/ Verifying(r) => Manifest(r.tree) \in S
    /\ r.pc = "row" => r.payload \in S

Kept(r) == KeptIn(Stored, r)

\* A process has a key that was made, and where the credential store refuses a
\* second one, it is the key in it.
Unkeyed == {"off", "making", "failed"}
KeyOf(r) ==
    /\ r.key \in makers \cup {None}
    /\ r.pc \notin Unkeyed => r.key # None
    /\ platform = "keychain" => r.key \in {None, keychain}

RowOK(r) == Holds(r) /\ Fits(r) /\ Real(r) /\ Kept(r) /\ KeyOf(r)

KeysOK ==
    /\ makers \subseteq Proc /\ IsFiniteSet(makers)
    /\ \/ keychain = None /\ makers = {}
       \/ keychain \in makers
    /\ \A d \in Stored : /\ artifacts[d] \in makers
                         /\ platform = "keychain" => artifacts[d] = keychain

IInv == /\ DiskOK /\ KeysOK /\ StoreSound
        /\ proc \in [Proc -> Locals]
        /\ \A p \in Proc : RowOK(proc[p])

-----------------------------------------------------------------------------
(* Facts                                                                    *)

LEMMA LowestIn == ASSUME NEW S \in SUBSET File, S # {} PROVE Lowest(S) \in S
<1>1. S \subseteq Nat
    BY SnapshotAssumption
<1>2. \E x \in S : \A y \in S : ~(<<y, x>> \in OpToRel(<, Nat))
    BY <1>1, NatLessThanWellFounded, WFMin, Zenon
<1>3. PICK x \in S : \A y \in S : <<y, x>> \notin OpToRel(<, Nat)
    BY <1>2
<1>4. \A y \in S : ~(y < x)
    BY <1>1, <1>3, Zenon DEF OpToRel
<1>5. \A y \in S : x <= y
    BY <1>1, <1>4
<1> QED BY <1>5 DEF Lowest

LEMMA AtMostOne ==
    ASSUME NEW S, IsFiniteSet(S), Cardinality(S) <= 1, NEW x \in S, NEW y \in S
    PROVE  x = y
<1>1. Cardinality(S) = 0 \/ Cardinality(S) = 1
    BY FS_CardinalityType
<1>2. Cardinality(S) # 0
    BY FS_EmptySet
<1> QED BY <1>1, <1>2, FS_Singleton

LEMMA Distinct ==
    /\ None \notin Nat /\ None \notin Proc /\ Link \notin Nat /\ Torn \notin Nat
    /\ Skipped \notin Nat /\ None # Link /\ None # Skipped /\ None # Reason
BY SnapshotAssumption, PayloadAssumption

LEMMA TreeNowTree ==
    ASSUME DiskOK
    PROVE  /\ TreeNow \in Tree
           /\ \A f \in File : TreeNow[f] \in (0 .. edits) \cup {Skipped, None}
           /\ \A f \in File : dir[f] \in Nat => TreeNow[f] = version[dir[f]]
           /\ \A f \in File : dir[f] = Link => TreeNow[f] = Skipped
<1>1. \A f \in File : TreeNow[f] = IF dir[f] = None THEN None
                                   ELSE IF dir[f] = Link THEN Skipped ELSE version[dir[f]]
    BY DEF TreeNow
<1>2. \A f \in File : dir[f] \in Nat => dir[f] # None /\ dir[f] # Link
    BY Distinct
<1>3. \A f \in File : dir[f] \in Nat => version[dir[f]] \in 0 .. edits
    BY DEF DiskOK
<1>4. \A f \in File : TreeNow[f] \in (0 .. edits) \cup {Skipped, None}
    BY <1>1, <1>2, <1>3 DEF DiskOK
<1>5. TreeNow \in Tree
    BY <1>4 DEF TreeNow, Tree, DiskOK
<1> QED BY <1>1, <1>2, <1>4, <1>5, Distinct

\* What a process has found and stored is not changed by a step that leaves the
\* disk alone and removes nothing.
LEMMA Steady ==
    ASSUME NEW r \in Locals, UNCHANGED disk, Stored \subseteq Stored'
    PROVE  /\ TreeNow' = TreeNow
           /\ Holds(r) => Holds(r)'
           /\ Fits(r) => Fits(r)'
           /\ Real(r) => Real(r)'
           /\ Kept(r) => Kept(r)'
<1>1. TreeNow' = TreeNow
    BY DEF TreeNow, disk
<1>2. Holds(r) => Holds(r)'
    BY <1>1 DEF Holds, disk, Walking, Captured, Storing, Verifying
<1>3. (Fits(r) => Fits(r)') /\ (Real(r) => Real(r)')
    BY <1>1 DEF Fits, Real, Differs, Captured, Storing, Verifying, Walking
<1>4. Kept(r) => Kept(r)'
    BY DEF Kept, KeptIn, Storing, Verifying, Walking
<1> QED BY <1>1, <1>2, <1>3, <1>4

\* Nor is its key, unless it is made.
LEMMA Monotone ==
    ASSUME NEW r \in Locals, RowOK(r), UNCHANGED disk,
           Stored \subseteq Stored', makers \subseteq makers', platform' = platform,
           r.key # None /\ platform = "keychain" => keychain' = keychain
    PROVE  RowOK(r)'
<1>1. KeyOf(r)'
    BY DEF RowOK, KeyOf
<1> QED BY <1>1, Steady DEF RowOK

\* A process that has ended, has failed or has crashed claims nothing.
LEMMA IdleOK ==
    ASSUME DiskOK, KeysOK
    PROVE  /\ Idle \in Locals /\ RowOK(Idle)
           /\ \A r \in Locals : Failed(r) \in Locals /\ RowOK(Failed(r))
<1>1. Empty \in Tree /\ \A f \in File : Empty[f] = None
    BY DEF Tree, Empty
<1>2. Idle \in Locals
    BY <1>1 DEF Idle, Locals, Pc
<1>3. RowOK(Idle)
    BY <1>1, Distinct DEF Idle, RowOK, Holds, Fits, Real, Kept, KeptIn, KeyOf, Captured, Storing,
                          Verifying, Walking, Unkeyed
<1>4. ASSUME NEW r \in Locals PROVE Failed(r) \in Locals /\ RowOK(Failed(r))
    <2> DEFINE l == [Idle EXCEPT !.pc = "failed"]
    <2>1. l \in Locals
        BY <1>2 DEF Locals, Pc
    <2>2. RowOK(l)
        BY <1>1, Distinct DEF Idle, RowOK, Holds, Fits, Real, Kept, KeptIn, KeyOf, Captured,
           Storing,
                              Verifying, Walking, Unkeyed
    <2> QED BY <2>1, <2>2 DEF Failed
<1> QED BY <1>2, <1>3, <1>4

LEMMA FinishedOK ==
    ASSUME DiskOK, KeysOK, NEW r \in Locals, RowOK(r), r.pc \notin Unkeyed
    PROVE  Finished(r) \in Locals /\ RowOK(Finished(r))
<1> DEFINE l == [Idle EXCEPT !.pc = "done", !.key = r.key]
<1>1. Empty \in Tree /\ \A f \in File : Empty[f] = None
    BY DEF Tree, Empty
<1>2. l \in Locals
    BY IdleOK DEF Locals, Pc
<1>3. RowOK(l)
    BY <1>1, Distinct DEF Idle, RowOK, Holds, Fits, Real, Kept, KeptIn, KeyOf, Captured, Storing,
                          Verifying, Walking, Unkeyed
<1> QED BY <1>2, <1>3 DEF Finished

-----------------------------------------------------------------------------
(* The walk                                                                 *)

\* What is true between two files of a walk.
Between(m) ==
    /\ m.payload = None /\ m.inode = None
    /\ \A f \in File : m.tree[f] \in (0 .. edits) \cup {Skipped, None}
    /\ TreeNow \in m.seen
    /\ m.pass = "capture" => m.again = Empty
    /\ m.pass = "verify" =>
        /\ Manifest(m.tree) \in Stored
        /\ \E t \in m.seen : \A f \in FilesOf(m.tree) :
              t[f] # m.tree[f] => TreeNow[f] # m.tree[f] /\ m.again[f] # m.tree[f]
    /\ m.key \in makers /\ platform = "keychain" => m.key = keychain
    /\ m.key \in makers

LEMMA NextFileOK ==
    ASSUME DiskOK, KeysOK, NEW m \in Locals, Between(m)
    PROVE  NextFile(m) \in Locals /\ RowOK(NextFile(m))
<1>k. m.key # None /\ m.key \in makers /\ (platform = "keychain" => m.key = keychain)
    BY Distinct DEF Between, KeysOK
<1>1. CASE m.todo # {}
    <2> DEFINE l == [m EXCEPT !.pc = "look"]
    <2>1. /\ l \in Locals /\ l.pc = "look" /\ l.todo = m.todo /\ l.pass = m.pass
          /\ l.payload = m.payload /\ l.inode = m.inode /\ l.tree = m.tree /\ l.key = m.key
          /\ l.again = m.again /\ l.seen = m.seen /\ NextFile(m) = l
        BY <1>1 DEF Locals, Pc, NextFile
    <2> HIDE DEF l
    <2>2. Holds(l)
        BY <1>1, <2>1 DEF Between, Holds, Walking, Captured, Storing, Verifying, Locals
    <2>3. Fits(l)
        BY <2>1 DEF Between, Fits, Differs, Walking, Captured, Storing, Verifying
    <2>4. Real(l) /\ Kept(l) /\ KeyOf(l)
        BY <2>1, <1>k DEF Between, Real, Kept, KeptIn, KeyOf, Walking, Storing, Verifying
    <2> QED BY <2>1, <2>2, <2>3, <2>4 DEF RowOK
<1>2. CASE m.todo = {} /\ m.pass = "capture"
    <2> DEFINE l == [m EXCEPT !.pc = "put", !.todo = FilesOf(m.tree)]
    <2>1. /\ l \in Locals /\ l.pc = "put" /\ l.todo = FilesOf(m.tree) /\ l.key = m.key
          /\ l.payload = m.payload /\ l.inode = m.inode /\ l.tree = m.tree
          /\ l.again = m.again /\ l.seen = m.seen /\ NextFile(m) = l
        BY <1>2 DEF Locals, Pc, NextFile, Ended, FilesOf
    <2> HIDE DEF l
    <2>2. Holds(l)
        BY <1>2, <2>1 DEF Between, Holds, Walking, Captured, Storing, Verifying, Locals
    <2>3. \A f \in FilesOf(l.tree) : l.again[f] # l.tree[f]
        BY <1>2, <2>1 DEF Between, Empty, FilesOf
    <2>4. Fits(l)
        BY <2>1, <2>3 DEF Between, Fits, Differs
    <2>5. Real(l) /\ Kept(l) /\ KeyOf(l)
        BY <2>1, <1>k DEF Real, Kept, KeptIn, KeyOf, Walking, Storing, Verifying
    <2> QED BY <2>1, <2>2, <2>4, <2>5 DEF RowOK
<1>3. CASE m.todo = {} /\ m.pass = "verify" /\ m.again # m.tree
    BY <1>3, IdleOK DEF NextFile, Ended
<1>4. CASE m.todo = {} /\ m.pass = "verify" /\ m.again = m.tree
    <2> DEFINE l == [m EXCEPT !.pc = "report"]
    <2>1. /\ l \in Locals /\ l.pc = "report" /\ l.key = m.key
          /\ l.payload = m.payload /\ l.inode = m.inode /\ l.tree = m.tree
          /\ l.again = m.again /\ l.seen = m.seen /\ NextFile(m) = l
        BY <1>4 DEF Locals, Pc, NextFile, Ended
    <2> HIDE DEF l
    <2>2. Holds(l)
        BY <1>4, <2>1 DEF Between, Holds, Walking, Captured, Storing, Verifying, Locals
    <2>3. Fits(l) /\ Real(l)
        BY <1>4, <2>1 DEF Between, Fits, Real, Walking, Captured, Storing, Verifying
    <2>4. Kept(l) /\ KeyOf(l)
        BY <1>4, <2>1, <1>k DEF Between, Kept, KeptIn, KeyOf, Walking, Storing, Verifying
    <2> QED BY <2>1, <2>2, <2>3, <2>4 DEF RowOK
<1> QED BY <1>1, <1>2, <1>3, <1>4 DEF Locals

\* The walk goes on from a file of which it has found x, where the second walk
\* finds what is different different.
LEMMA DidOK ==
    ASSUME DiskOK, KeysOK, NEW r \in Locals, RowOK(r), Walking(r), NEW f \in File,
           NEW x \in (0 .. edits) \cup {Skipped},
           r.pass = "verify" =>
               \A t \in r.seen : (\A g \in FilesOf(r.tree) : Differs(r, t, g)) =>
                   (f \in FilesOf(r.tree) /\ t[f] # r.tree[f] => x # r.tree[f])
    PROVE  Did(Found(r, f, x), f) \in Locals /\ RowOK(Did(Found(r, f, x), f))
<1> DEFINE m == [Found(r, f, x) EXCEPT !.todo = @ \ {f}, !.inode = None, !.first = None]
<1>k. r.key \in makers /\ (platform = "keychain" => r.key = keychain) /\ r.payload = None
    BY Distinct DEF RowOK, KeyOf, Unkeyed, Walking, Holds
<1>1. CASE r.pass = "capture"
    <2>1. [r.tree EXCEPT ![f] = x] \in Tree
        BY DEF Locals, Tree, DiskOK
    <2>2. Found(r, f, x) = [r EXCEPT !.tree = [r.tree EXCEPT ![f] = x]]
        BY <1>1 DEF Found, Locals
    <2>3. /\ m \in Locals /\ m.payload = None /\ m.inode = None /\ m.seen = r.seen
          /\ m.tree = [r.tree EXCEPT ![f] = x] /\ m.pass = "capture" /\ m.again = r.again
          /\ m.key = r.key
        BY <1>1, <2>1, <2>2, <1>k DEF Locals
    <2>4. Between(m)
        <3> HIDE DEF m
        <3>1. \A g \in File : m.tree[g] \in (0 .. edits) \cup {Skipped, None}
            BY <2>3 DEF RowOK, Holds, Locals, Tree
        <3> QED BY <1>1, <1>k, <2>3, <3>1 DEF Between, RowOK, Holds, Walking, Verifying
    <2> HIDE DEF m
    <2>5. NextFile(m) \in Locals /\ RowOK(NextFile(m))
        BY <2>3, <2>4, NextFileOK
    <2> QED BY <2>5 DEF Did, m
<1>2. CASE r.pass = "verify"
    <2>1. [r.again EXCEPT ![f] = x] \in Tree
        BY DEF Locals, Tree, DiskOK
    <2>2. Found(r, f, x) = [r EXCEPT !.again = [r.again EXCEPT ![f] = x]]
        BY <1>2 DEF Found, Locals
    <2>3. /\ m \in Locals /\ m.payload = None /\ m.inode = None /\ m.seen = r.seen
          /\ m.again = [r.again EXCEPT ![f] = x] /\ m.pass = "verify" /\ m.tree = r.tree
          /\ m.key = r.key
        BY <1>2, <2>1, <2>2, <1>k DEF Locals
    <2>4. Between(m)
        <3> HIDE DEF m
        <3>1. PICK t \in r.seen : \A g \in FilesOf(r.tree) : Differs(r, t, g)
            BY <1>2 DEF RowOK, Fits, Captured, Verifying
        <3>2. \A g \in FilesOf(m.tree) :
                 t[g] # m.tree[g] => TreeNow[g] # m.tree[g] /\ m.again[g] # m.tree[g]
            BY <1>2, <2>3, <3>1 DEF Differs, Locals, Tree
        <3>3. Manifest(m.tree) \in Stored
            BY <1>2, <2>3 DEF RowOK, Kept, KeptIn, Verifying
        <3> QED BY <1>2, <1>k, <2>3, <3>1, <3>2, <3>3 DEF Between, RowOK, Holds
    <2> HIDE DEF m
    <2>5. NextFile(m) \in Locals /\ RowOK(NextFile(m))
        BY <2>3, <2>4, NextFileOK
    <2> QED BY <2>5 DEF Did, m
<1> QED BY <1>1, <1>2 DEF Locals

-----------------------------------------------------------------------------
(* Every step keeps the invariant                                           *)

LEMMA InitIInv == Init => IInv
<1> SUFFICES ASSUME Init PROVE IInv
    OBVIOUS
<1>1. DiskOK
    <2>1. \A f \in File : dir[f] \in Nat
        BY SnapshotAssumption DEF Init, FirstInode
    <2> QED BY <2>1 DEF Init, DiskOK, Inode0
<1>2. KeysOK
    BY FS_EmptySet DEF Init, KeysOK, Stored
<1>3. StoreSound
    BY DEF Init, StoreSound, StoredWhole, ManifestHasFiles, ReferencesStored, Stored
<1>4. proc \in [Proc -> Locals] /\ \A p \in Proc : RowOK(proc[p])
    BY <1>1, <1>2, IdleOK DEF Init
<1> QED BY <1>1, <1>2, <1>3, <1>4 DEF IInv

\* A step of p that keeps the disk, what is stored and the keys of the others
\* keeps the invariant if it keeps the shared parts and p's own row.
LEMMA StepOK ==
    ASSUME IInv, NEW p \in Proc, NEW l \in Locals, Set(p, l), UNCHANGED disk,
           Stored \subseteq Stored', makers \subseteq makers', platform' = platform,
           makers # {} /\ platform = "keychain" => keychain' = keychain,
           KeysOK', StoreSound', RowOK(l)'
    PROVE  IInv'
<1>1. DiskOK'
    BY DEF IInv, DiskOK, disk
<1>2. proc' \in [Proc -> Locals]
    BY DEF IInv, Set
<1>3. ASSUME NEW q \in Proc PROVE RowOK(proc[q])'
    <2>1. CASE q = p
        <3>1. proc'[q] = l
            BY <2>1 DEF IInv, Set
        <3> QED BY <3>1 DEF RowOK, Holds, Fits, Real, Kept, KeptIn, KeyOf, Captured, Storing,
           Verifying,
                            Walking, Differs
    <2>2. CASE q # p
        <3>1. PICK r \in Locals : r = proc[q]
            BY DEF IInv
        <3>2. RowOK(r)
            BY <3>1 DEF IInv
        <3>3. r.key # None /\ platform = "keychain" => keychain' = keychain
            BY <3>2 DEF RowOK, KeyOf
        <3>4. RowOK(r)'
            BY <3>2, <3>3, Monotone
        <3>5. proc'[q] = r
            BY <2>2, <3>1 DEF IInv, Set
        <3> QED BY <3>4, <3>5 DEF RowOK, Holds, Fits, Real, Kept, KeptIn, KeyOf, Captured, Storing,
                                  Verifying, Walking, Differs
    <2> QED BY <2>1, <2>2
<1> QED BY <1>1, <1>2, <1>3 DEF IInv

\* A step of p that changes nothing else.
LEMMA OwnStepOK ==
    ASSUME IInv, NEW p \in Proc, NEW l \in Locals, Set(p, l), UNCHANGED <<disk, state, keys>>,
           RowOK(l)
    PROVE  IInv'
<1>1. KeysOK' /\ StoreSound'
    BY DEF IInv, KeysOK, StoreSound, StoredWhole, ManifestHasFiles, ReferencesStored, Stored,
           state, keys
<1>2. Stored' = Stored /\ makers' = makers /\ platform' = platform /\ keychain' = keychain
    BY DEF Stored, state, keys
<1>3. RowOK(l)'
    BY <1>2, Monotone
<1> QED BY <1>1, <1>2, <1>3, StepOK

LEMMA FailsIInv ==
    ASSUME IInv, NEW p \in Proc, Fails(p), UNCHANGED <<disk, state, keys>>
    PROVE  IInv'
<1>1. PICK l \in Locals : l = Failed(proc[p]) /\ RowOK(l)
    BY IdleOK DEF IInv
<1>2. Set(p, l)
    BY <1>1 DEF Fails
<1> QED BY <1>1, <1>2, OwnStepOK

LEMMA CrashIInv == ASSUME IInv, NEW p \in Proc, Crash(p) PROVE IInv'
<1>1. PICK l \in Locals : l = Idle /\ RowOK(l)
    BY IdleOK DEF IInv
<1>2. Set(p, l) /\ UNCHANGED <<disk, state, keys>>
    BY <1>1 DEF Crash
<1> QED BY <1>1, <1>2, OwnStepOK

LEMMA OpenIInv == ASSUME IInv, NEW p \in Proc, Open(p) PROVE IInv'
<1>1. PICK r \in Locals : r = proc[p] /\ RowOK(r)
    BY DEF IInv
<1>2. r.pc = "off"
    BY <1>1 DEF Open
<1>3. CASE keychain = None
    <2>1. PICK l : l = [r EXCEPT !.pc = "making"]
        OBVIOUS
    <2>2. Set(p, l) /\ UNCHANGED <<disk, state, keys>>
        BY <1>1, <1>3, <2>1 DEF Open
    <2>3. l \in Locals
        BY <2>1 DEF Locals, Pc
    <2>4. RowOK(l)
        BY <1>1, <1>2, <2>1 DEF Locals, RowOK, Holds, Fits, Real, Kept, KeptIn, KeyOf, Captured,
           Storing,
                                Verifying, Walking, Unkeyed
    <2> QED BY <2>2, <2>3, <2>4, OwnStepOK
<1>4. CASE keychain # None
    <2>1. PICK l : l = [r EXCEPT !.pc = "ready", !.key = keychain]
        OBVIOUS
    <2>2. Set(p, l) /\ UNCHANGED <<disk, state, keys>>
        BY <1>1, <1>4, <2>1 DEF Open
    <2>3. keychain \in makers /\ keychain \in Proc
        BY <1>4 DEF IInv, KeysOK
    <2>4. l \in Locals
        BY <2>1, <2>3 DEF Locals, Pc, Key
    <2>5. RowOK(l)
        BY <1>1, <1>2, <1>4, <2>1, <2>3 DEF Locals, RowOK, Holds, Fits, Real, Kept, KeptIn, KeyOf,
           Captured,
                                Storing, Verifying, Walking, Unkeyed
    <2> QED BY <2>2, <2>4, <2>5, OwnStepOK
<1> QED BY <1>3, <1>4

LEMMA MakeKeyIInv == ASSUME IInv, NEW p \in Proc, MakeKey(p) PROVE IInv'
<1>1. PICK r \in Locals : r = proc[p] /\ RowOK(r)
    BY DEF IInv
<1>2. r.pc = "making" /\ makers' = makers \cup {p} /\ UNCHANGED <<disk, state, platform>>
    BY <1>1 DEF MakeKey
<1>3. IsFiniteSet(makers')
    BY <1>2, FS_AddElement DEF IInv, KeysOK
<1>4. StoreSound' /\ Stored' = Stored
    BY <1>2 DEF IInv, StoreSound, StoredWhole, ManifestHasFiles, ReferencesStored, Stored, state
<1>5. CASE keychain = None \/ Replaces
    <2>1. PICK l : l = [r EXCEPT !.pc = "ready", !.key = p]
        OBVIOUS
    <2>2. Set(p, l) /\ keychain' = p
        BY <1>1, <1>5, <2>1 DEF MakeKey
    <2>3. l \in Locals
        BY <2>1 DEF Locals, Pc, Key
    <2>4. makers # {} => platform # "keychain"
        BY <1>5, Distinct DEF IInv, KeysOK, Replaces
    <2>5. KeysOK'
        BY <1>2, <1>3, <2>2, <2>4 DEF IInv, KeysOK, Stored, state
    <2>6. Holds(l) /\ Fits(l) /\ Real(l) /\ Kept(l)
        BY <1>1, <1>2, <2>1 DEF Locals, RowOK, Holds, Fits, Real, Kept, KeptIn, Captured,
                                Storing, Verifying, Walking
    <2>7. KeyOf(l)'
        BY <1>2, <2>1, <2>2, Distinct DEF Locals, KeyOf
    <2>8. RowOK(l)'
        BY <1>2, <1>4, <2>3, <2>6, <2>7, Steady DEF RowOK
    <2> QED BY <1>2, <1>4, <2>2, <2>3, <2>4, <2>5, <2>8, StepOK
<1>6. CASE ~(keychain = None \/ Replaces)
    <2>1. PICK l \in Locals : l = Failed(proc[p]) /\ RowOK(l)
        BY IdleOK DEF IInv
    <2>2. Set(p, l) /\ keychain' = keychain
        BY <1>6, <2>1 DEF MakeKey, Fails
    <2>3. KeysOK'
        BY <1>2, <1>3, <1>6, <2>2 DEF IInv, KeysOK, Stored, state
    <2>4. RowOK(l)'
        BY <1>2, <1>4, <2>1, <2>2, Monotone
    <2> QED BY <1>2, <1>4, <2>2, <2>3, <2>4, StepOK
<1> QED BY <1>5, <1>6

LEMMA WalkIInv == ASSUME IInv, NEW p \in Proc, Walk(p) PROVE IInv'
<1>1. PICK r \in Locals : r = proc[p] /\ RowOK(r)
    BY DEF IInv
<1>2. r.pc \in {"ready", "analyze"} /\ UNCHANGED <<disk, artifacts, reports, feedback, keys>>
    BY <1>1 DEF Walk
<1>3. /\ DiskOK /\ KeysOK /\ TreeNow \in Tree /\ Present \in SUBSET File
      /\ r.key \in makers /\ (platform = "keychain" => r.key = keychain)
      /\ r.payload = None /\ r.again = Empty
      /\ \A f \in File : r.tree[f] \in (0 .. edits) \cup {Skipped, None}
    BY <1>1, <1>2, TreeNowTree, Distinct DEF IInv, Present, RowOK, KeyOf, Holds, Unkeyed, Verifying,
                                             Walking
<1>n. r.inode = None
    BY <1>1, <1>2 DEF RowOK, Holds
<1>4. Stored' = Stored /\ makers' = makers /\ platform' = platform /\ keychain' = keychain
    BY <1>2 DEF Stored, keys
<1>5. KeysOK'
    BY <1>2, <1>4 DEF IInv, KeysOK
<1>6. CASE r.pc = "ready"
    <2>1. PICK m : m = [r EXCEPT !.todo = Present, !.pass = "capture", !.seen = {TreeNow}]
        OBVIOUS
    <2>2. /\ m \in Locals /\ m.pass = "capture" /\ m.seen = {TreeNow} /\ m.key = r.key
          /\ m.payload = r.payload /\ m.inode = r.inode /\ m.tree = r.tree /\ m.again = r.again
        BY <1>3, <2>1 DEF Locals
    <2>3. Between(m)
        BY <1>3, <1>n, <2>2 DEF Between
    <2>4. PICK l \in Locals : l = NextFile(m) /\ RowOK(l)
        BY <1>3, <2>2, <2>3, NextFileOK
    <2>5. Set(p, l) /\ cache' = cache
        <3> DEFINE n == [[r EXCEPT !.todo = Present, !.pass = "capture"] EXCEPT !.seen = {TreeNow}]
        <3>1. n = m
            BY <2>1 DEF Locals
        <3>2. Set(p, NextFile(n)) /\ cache' = cache
            BY <1>1, <1>6 DEF Walk, Locals
        <3> QED BY <2>4, <3>1, <3>2
    <2>6. UNCHANGED <<disk, state, keys>>
        BY <1>2, <2>5 DEF state
    <2> QED BY <2>4, <2>5, <2>6, OwnStepOK
<1>7. CASE r.pc = "analyze"
    <2>1. PICK m : m = [r EXCEPT !.todo = Present, !.pass = "verify"]
        OBVIOUS
    <2>2. /\ m \in Locals /\ m.pass = "verify" /\ m.seen = r.seen /\ m.key = r.key
          /\ m.payload = r.payload /\ m.inode = r.inode /\ m.tree = r.tree /\ m.again = r.again
        BY <1>3, <2>1 DEF Locals
    <2>3. PICK t \in r.seen : \A f \in FilesOf(r.tree) : Differs(r, t, f)
        BY <1>1, <1>7 DEF RowOK, Fits, Captured
    <2>4. Between(m)
        <3>1. \A f \in FilesOf(m.tree) :
                  t[f] # m.tree[f] => TreeNow[f] # m.tree[f] /\ m.again[f] # m.tree[f]
            BY <2>2, <2>3 DEF Differs
        <3>2. Manifest(m.tree) \in Stored /\ TreeNow \in m.seen
            BY <1>1, <1>7, <2>2 DEF RowOK, Holds, Captured, Kept, KeptIn
        <3> QED BY <1>3, <1>n, <2>2, <2>3, <3>1, <3>2 DEF Between
    <2>5. PICK l \in Locals : l = NextFile(m) /\ RowOK(l)
        BY <1>3, <2>2, <2>4, NextFileOK
    <2>6. Set(p, l) /\ cache' = cache \cup {r.tree}
        <3> DEFINE n == [[r EXCEPT !.todo = Present, !.pass = "verify"] EXCEPT !.seen = @]
        <3>1. n = m
            BY <2>1 DEF Locals
        <3>2. Set(p, NextFile(n)) /\ cache' = cache \cup {r.tree}
            BY <1>1, <1>7 DEF Walk, Locals
        <3> QED BY <2>5, <3>1, <3>2
    <2>7. Manifest(r.tree) \in Stored
        BY <1>1, <1>7 DEF RowOK, Kept, KeptIn
    <2>8. StoreSound'
        BY <1>2, <1>4, <2>6, <2>7 DEF IInv, StoreSound, StoredWhole, ManifestHasFiles,
           ReferencesStored
    <2>9. RowOK(l)'
        BY <1>2, <1>4, <2>5, Monotone
    <2> QED BY <1>2, <1>4, <1>5, <2>5, <2>6, <2>8, <2>9, StepOK
<1> QED BY <1>2, <1>6, <1>7

LEMMA LookIInv == ASSUME IInv, NEW p \in Proc, Look(p) PROVE IInv'
<1>1. PICK r \in Locals : r = proc[p] /\ RowOK(r)
    BY DEF IInv
<1>2. r.pc = "look" /\ UNCHANGED <<disk, state, keys>>
    BY <1>1 DEF Look
<1>3. PICK f \in File : f = Lowest(r.todo)
    BY <1>1, <1>2, LowestIn DEF RowOK, Holds, Walking, Locals
<1>4. CASE Fails(p)
    BY <1>2, <1>4, FailsIInv
<1>5. CASE Set(p, Did(Found(r, f, Skipped), f))
    <2>1. PICK l \in Locals : l = Did(Found(r, f, Skipped), f) /\ RowOK(l)
        BY <1>1, <1>2, DidOK DEF IInv, Walking, FilesOf
    <2> QED BY <1>2, <1>5, <2>1, OwnStepOK
<1>6. CASE Set(p, [r EXCEPT !.pc = "inspect"])
    <2>1. PICK l : l = [r EXCEPT !.pc = "inspect"]
        OBVIOUS
    <2>2. l \in Locals
        BY <2>1 DEF Locals, Pc
    <2>3. Holds(l) /\ Real(l) /\ Kept(l) /\ KeyOf(l)
        BY <1>1, <1>2, <2>1 DEF Locals, RowOK, Holds, Real, Kept, KeptIn, KeyOf, Captured,
                                Storing, Verifying, Walking, Unkeyed
    <2>4. Fits(l)
        BY <1>1, <1>2, <2>1 DEF Locals, RowOK, Fits, Differs, Captured, Storing, Verifying, Walking
    <2>5. RowOK(l)
        BY <2>3, <2>4 DEF RowOK
    <2> QED BY <1>2, <1>6, <2>1, <2>2, <2>5, OwnStepOK
<1> QED BY <1>1, <1>3, <1>4, <1>5, <1>6 DEF Look

LEMMA InspectIInv == ASSUME IInv, NEW p \in Proc, Inspect(p) PROVE IInv'
<1>1. PICK r \in Locals : r = proc[p] /\ RowOK(r)
    BY DEF IInv
<1>2. r.pc = "inspect" /\ UNCHANGED <<disk, state, keys>>
    BY <1>1 DEF Inspect
<1>3. PICK f \in File : f = Lowest(r.todo)
    BY <1>1, <1>2, LowestIn DEF RowOK, Holds, Walking, Locals
<1>4. CASE Fails(p)
    BY <1>2, <1>4, FailsIInv
<1>5. CASE dir[f] \in Inode /\ Set(p, [r EXCEPT !.pc = "open", !.inode = dir[f]])
    <2>1. PICK l : l = [r EXCEPT !.pc = "open", !.inode = dir[f]]
        OBVIOUS
    <2>2. l \in Locals
        BY <1>5, <2>1 DEF Locals, Pc, Inode
    <2>3. dir[f] \in DOMAIN version /\ dir[f] # None
        BY <1>5, Distinct DEF IInv, DiskOK, Inode
    <2>4. Holds(l) /\ Real(l) /\ Kept(l) /\ KeyOf(l)
        BY <1>1, <1>2, <2>1, <2>3 DEF Locals, RowOK, Holds, Real, Kept, KeptIn, KeyOf, Captured,
                                Storing, Verifying, Walking, Unkeyed
    <2>5. Fits(l)
        BY <1>1, <1>2, <2>1 DEF Locals, RowOK, Fits, Differs, Captured, Storing, Verifying, Walking
    <2>6. RowOK(l)
        BY <2>4, <2>5 DEF RowOK
    <2> QED BY <1>2, <1>5, <2>1, <2>2, <2>6, OwnStepOK
<1> QED BY <1>1, <1>3, <1>4, <1>5 DEF Inspect

LEMMA OpenFileIInv == ASSUME IInv, NEW p \in Proc, OpenFile(p) PROVE IInv'
<1>1. PICK r \in Locals : r = proc[p] /\ RowOK(r)
    BY DEF IInv
<1>2. r.pc = "open" /\ UNCHANGED <<disk, state, keys>>
    BY <1>1 DEF OpenFile
<1>3. PICK f \in File : f = Lowest(r.todo)
    BY <1>1, <1>2, LowestIn DEF RowOK, Holds, Walking, Locals
<1>4. CASE dir[f] # r.inode
    BY <1>1, <1>2, <1>3, <1>4, FailsIInv DEF OpenFile
<1>5. CASE dir[f] = r.inode
    <2>1. PICK l : l = [r EXCEPT !.pc = "read", !.first = version[r.inode]]
        OBVIOUS
    <2>2. version[r.inode] \in 0 .. edits /\ TreeNow[f] = version[r.inode] /\ edits \in Nat
        BY <1>1, <1>2, <1>5, TreeNowTree DEF IInv, DiskOK, RowOK, Holds
    <2>3. l \in Locals
        <3>1. version[r.inode] \in Nat
            BY <2>2
        <3> QED BY <2>1, <3>1 DEF Locals, Pc
    <2>4. Holds(l) /\ Real(l) /\ Kept(l) /\ KeyOf(l)
        BY <1>1, <1>2, <2>1, <2>2 DEF Locals, RowOK, Holds, Real, Kept, KeptIn, KeyOf, Captured,
                                Storing, Verifying, Walking, Unkeyed
    <2>5. Fits(l)
        BY <1>1, <1>2, <1>3, <2>1, <2>2 DEF Locals, RowOK, Fits, Differs, Captured, Storing,
           Verifying,
                                            Walking
    <2>6. RowOK(l)
        BY <2>4, <2>5 DEF RowOK
    <2>7. Set(p, l)
        BY <1>1, <1>3, <1>5, <2>1 DEF OpenFile
    <2> QED BY <1>2, <2>3, <2>6, <2>7, OwnStepOK
<1> QED BY <1>4, <1>5

LEMMA ReadRestIInv == ASSUME IInv, NEW p \in Proc, ReadRest(p) PROVE IInv'
<1>1. PICK r \in Locals : r = proc[p] /\ RowOK(r)
    BY DEF IInv
<1>2. r.pc = "read" /\ UNCHANGED <<disk, state, keys>>
    BY <1>1 DEF ReadRest
<1>3. PICK f \in File : f = Lowest(r.todo)
    BY <1>1, <1>2, LowestIn DEF RowOK, Holds, Walking, Locals
<1>4. CASE ~Unchanged(r)
    BY <1>1, <1>2, <1>3, <1>4, FailsIInv DEF ReadRest
<1>5. CASE Unchanged(r)
    <2>1. Data(r) = r.first /\ r.first \in 0 .. edits
        BY <1>1, <1>2, <1>5 DEF Data, Unchanged, RowOK, Holds
    <2>2. PICK l \in Locals : l = Did(Found(r, f, Data(r)), f) /\ RowOK(l)
        BY <1>1, <1>2, <1>3, <2>1, DidOK DEF IInv, Walking, Differs
    <2>3. Set(p, l)
        BY <1>1, <1>3, <1>5, <2>2 DEF ReadRest
    <2> QED BY <1>2, <2>2, <2>3, OwnStepOK
<1> QED BY <1>4, <1>5

-----------------------------------------------------------------------------
(* Storing, reporting and feedback                                          *)

\* Once what is next is stored, p may go on.
LEMMA AfterPutOK ==
    ASSUME DiskOK, KeysOK, NEW r \in Locals, RowOK(r), r.pc \in {"put", "replace"},
           NEW l, l = AfterPut(r)
    PROVE  /\ l \in Locals /\ l.key = r.key /\ l.payload = r.payload
           /\ Holds(l) /\ Fits(l) /\ Real(l) /\ KeyOf(l)
           /\ \A S : Stored \subseteq S /\ NextPut(r) \in S => KeptIn(S, l)
<1>k. r.key \in makers /\ r.key # None /\ (platform = "keychain" => r.key = keychain)
    BY DEF RowOK, KeyOf, Unkeyed
<1>1. CASE r.payload # None
    <2>1. l = [r EXCEPT !.pc = "row"] /\ NextPut(r) = r.payload
        BY <1>1 DEF AfterPut, NextPut
    <2>2. /\ l \in Locals /\ l.pc = "row" /\ l.key = r.key /\ l.payload = r.payload
          /\ l.inode = r.inode /\ l.tree = r.tree /\ l.again = r.again
        BY <2>1 DEF Locals, Pc
    <2> QED BY <1>k, <1>1, <2>1, <2>2 DEF RowOK, Holds, Fits, Real, Kept, KeptIn, KeyOf, Captured,
       Storing,
                                    Verifying, Walking
<1>2. CASE r.payload = None /\ r.todo # {}
    <2>1. l = [r EXCEPT !.pc = "put", !.todo = r.todo \ {Lowest(r.todo)}]
          /\ NextPut(r) = OfFile(r.tree[Lowest(r.todo)])
        BY <1>2 DEF AfterPut, NextPut, Locals
    <2>2. /\ l \in Locals /\ l.pc = "put" /\ l.key = r.key /\ l.payload = r.payload
          /\ l.inode = r.inode /\ l.tree = r.tree /\ l.again = r.again /\ l.seen = r.seen
          /\ l.todo = r.todo \ {Lowest(r.todo)}
        BY <2>1 DEF Locals, Pc
    <2>3. Holds(l) /\ Real(l) /\ KeyOf(l)
        BY <1>k, <1>2, <2>2 DEF RowOK, Holds, Real, KeyOf, Captured, Storing, Verifying, Walking
    <2>4. Fits(l)
        BY <1>2, <2>2 DEF RowOK, Fits, Captured, Storing, Differs
    <2>5. ASSUME NEW S, Stored \subseteq S, NextPut(r) \in S PROVE KeptIn(S, l)
        <3>1. ASSUME NEW f \in FilesOf(l.tree) \ l.todo PROVE OfFile(l.tree[f]) \in S
            <4>1. CASE f = Lowest(r.todo)
                BY <2>1, <2>2, <2>5, <4>1
            <4>2. CASE f # Lowest(r.todo)
                BY <1>2, <2>2, <2>5, <3>1, <4>2 DEF RowOK, Kept, KeptIn, Storing
            <4> QED BY <4>1, <4>2
        <3>2. l.todo \subseteq FilesOf(l.tree)
            BY <1>2, <2>2 DEF RowOK, Kept, KeptIn, Storing
        <3> QED BY <2>2, <3>1, <3>2 DEF KeptIn, Verifying, Walking
    <2> QED BY <2>2, <2>3, <2>4, <2>5
<1>3. CASE r.payload = None /\ r.todo = {}
    <2>1. l = [r EXCEPT !.pc = "analyze"] /\ NextPut(r) = Manifest(r.tree)
        BY <1>3 DEF AfterPut, NextPut
    <2>2. /\ l \in Locals /\ l.pc = "analyze" /\ l.key = r.key /\ l.payload = r.payload
          /\ l.inode = r.inode /\ l.tree = r.tree /\ l.again = r.again /\ l.seen = r.seen
        BY <2>1 DEF Locals, Pc
    <2>3. Holds(l) /\ Real(l) /\ KeyOf(l)
        BY <1>k, <1>3, <2>2 DEF RowOK, Holds, Real, KeyOf, Captured, Storing, Verifying, Walking
    <2>4. Fits(l)
        BY <1>3, <2>2 DEF RowOK, Fits, Captured, Storing, Differs
    <2>5. \A S : NextPut(r) \in S => KeptIn(S, l)
        BY <2>1, <2>2 DEF Kept, KeptIn, Storing, Verifying, Walking
    <2> QED BY <2>2, <2>3, <2>4, <2>5
<1> QED BY <1>1, <1>2, <1>3

LEMMA PutIInv == ASSUME IInv, NEW p \in Proc, Put(p) PROVE IInv'
<1>1. PICK r \in Locals : r = proc[p] /\ RowOK(r)
    BY DEF IInv
<1>2. r.pc = "put" /\ UNCHANGED <<disk, state, keys>>
    BY <1>1 DEF Put, state
<1>3. CASE NextPut(r) \notin Stored
    <2>1. PICK l : l = [r EXCEPT !.pc = "replace"]
        OBVIOUS
    <2>2. /\ l \in Locals /\ l.pc = "replace" /\ l.key = r.key /\ l.payload = r.payload
          /\ l.inode = r.inode /\ l.tree = r.tree /\ l.again = r.again /\ l.seen = r.seen
          /\ l.todo = r.todo
        BY <2>1 DEF Locals, Pc
    <2>3. Holds(l) /\ Real(l) /\ KeyOf(l)
        BY <1>1, <1>2, <2>2 DEF RowOK, Holds, Real, KeyOf, Captured, Storing, Verifying, Walking,
                                Unkeyed
    <2>4. Fits(l) /\ Kept(l)
        BY <1>1, <1>2, <2>2 DEF RowOK, Fits, Kept, KeptIn, Captured, Storing, Verifying, Walking,
           Differs
    <2>5. RowOK(l) /\ Set(p, l)
        BY <1>1, <1>3, <2>1, <2>3, <2>4 DEF RowOK, Put
    <2> QED BY <1>2, <2>2, <2>5, OwnStepOK
<1>4. CASE NextPut(r) \in Stored /\ artifacts[NextPut(r)] # r.key
    BY <1>1, <1>2, <1>4, FailsIInv DEF Put
<1>5. CASE NextPut(r) \in Stored /\ artifacts[NextPut(r)] = r.key
    <2>1. PICK l : l = AfterPut(r)
        OBVIOUS
    <2>2. l \in Locals /\ RowOK(l)
        BY <1>1, <1>2, <1>5, <2>1, AfterPutOK DEF IInv, RowOK, Kept
    <2>3. Set(p, l)
        BY <1>1, <1>5, <2>1 DEF Put
    <2> QED BY <1>2, <2>2, <2>3, OwnStepOK
<1> QED BY <1>3, <1>4, <1>5

\* What is put next is a file that was read whole, the manifest of files that
\* are stored, or a payload.
LEMMA NextPutSound ==
    ASSUME IInv, NEW r \in Locals, RowOK(r), r.pc = "replace"
    PROVE  /\ NextPut(r) # OfFile(Torn)
           /\ NextPut(r)[1] = "manifest" =>
                 \A f \in FilesOf(NextPut(r)[2]) : OfFile(NextPut(r)[2][f]) \in Stored
<1>1. CASE r.payload # None
    <2>1. NextPut(r) = <<"reason">>
        BY <1>1 DEF NextPut, Locals, Reason
    <2> QED BY <2>1 DEF OfFile
<1>2. CASE r.payload = None /\ r.todo # {}
    <2>1. NextPut(r) = OfFile(r.tree[Lowest(r.todo)]) /\ Lowest(r.todo) \in r.todo
        BY <1>2, LowestIn DEF NextPut, Locals
    <2>2. r.todo \subseteq FilesOf(r.tree)
        BY <1>2 DEF RowOK, Kept, KeptIn, Storing
    <2>3. r.tree[Lowest(r.todo)] \in 0 .. edits
        BY <2>1, <2>2 DEF RowOK, Holds, FilesOf
    <2>4. r.tree[Lowest(r.todo)] # Torn
        BY <2>3, Distinct DEF IInv, DiskOK
    <2> QED BY <2>1, <2>4 DEF OfFile
<1>3. CASE r.payload = None /\ r.todo = {}
    <2>1. NextPut(r) = <<"manifest", r.tree>>
        BY <1>3 DEF NextPut, Manifest
    <2>2. \A f \in FilesOf(r.tree) : OfFile(r.tree[f]) \in Stored
        BY <1>3 DEF RowOK, Kept, KeptIn, Storing
    <2> QED BY <2>1, <2>2 DEF OfFile
<1> QED BY <1>1, <1>2, <1>3

LEMMA ReplaceIInv == ASSUME IInv, NEW p \in Proc, Replace(p) PROVE IInv'
<1>1. PICK r \in Locals : r = proc[p] /\ RowOK(r)
    BY DEF IInv
<1>2. PICK d : d = NextPut(r)
    OBVIOUS
<1>3. PICK l : l = AfterPut(r)
    OBVIOUS
<1>4. /\ r.pc = "replace" /\ Set(p, l)
      /\ artifacts' = [x \in DOMAIN artifacts \cup {d} |-> IF x = d THEN r.key ELSE artifacts[x]]
      /\ UNCHANGED <<disk, cache, reports, feedback, keys>>
    BY <1>1, <1>2, <1>3 DEF Replace
<1>5. Stored' = Stored \cup {d}
    BY <1>4 DEF Stored
<1>6. /\ makers' = makers /\ platform' = platform /\ keychain' = keychain
    BY <1>4 DEF keys
<1>7. KeysOK'
    <2>1. r.key \in makers /\ (platform = "keychain" => r.key = keychain)
        BY <1>1, <1>4 DEF RowOK, KeyOf, Unkeyed
    <2> QED BY <1>4, <1>5, <1>6, <2>1 DEF IInv, KeysOK, Stored
<1>8. StoreSound'
    <2>1. StoredWhole'
        BY <1>1, <1>2, <1>4, <1>5, NextPutSound DEF IInv, StoreSound, StoredWhole
    <2>2. ManifestHasFiles'
        BY <1>1, <1>2, <1>4, <1>5, NextPutSound DEF IInv, StoreSound, ManifestHasFiles
    <2>3. ReferencesStored'
        BY <1>4, <1>5 DEF IInv, StoreSound, ReferencesStored
    <2> QED BY <2>1, <2>2, <2>3 DEF StoreSound
<1>9. l \in Locals /\ RowOK(l)'
    <2>1. l \in Locals /\ Holds(l) /\ Fits(l) /\ Real(l) /\ KeyOf(l) /\ l.key = r.key
          /\ l.payload = r.payload
        BY <1>1, <1>3, <1>4, AfterPutOK DEF IInv
    <2>2. Holds(l)' /\ Fits(l)' /\ Real(l)'
        BY <1>4, <1>5, <2>1, Steady
    <2>3. KeyOf(l)'
        BY <1>6, <2>1 DEF KeyOf
    <2>4. Kept(l)'
        BY <1>1, <1>2, <1>3, <1>4, <1>5, AfterPutOK DEF IInv, Kept
    <2> QED BY <2>1, <2>2, <2>3, <2>4 DEF RowOK
<1> QED BY <1>4, <1>5, <1>6, <1>7, <1>8, <1>9, StepOK

LEMMA WriteFailsIInv == ASSUME IInv, NEW p \in Proc, WriteFails(p) PROVE IInv'
<1>1. Fails(p) /\ UNCHANGED <<disk, state, keys>>
    BY DEF WriteFails, state
<1> QED BY <1>1, FailsIInv

LEMMA ReportIInv == ASSUME IInv, NEW p \in Proc, Report(p) PROVE IInv'
<1>1. PICK r \in Locals : r = proc[p] /\ RowOK(r)
    BY DEF IInv
<1>2. r.pc = "report" /\ reports' = reports \cup {r.tree}
      /\ UNCHANGED <<disk, artifacts, cache, feedback, keys>>
    BY <1>1 DEF Report
<1>3. PICK l \in Locals : l = Finished(r) /\ RowOK(l)
    BY <1>1, <1>2, FinishedOK DEF IInv, Unkeyed
<1>4. Set(p, l)
    BY <1>1, <1>3 DEF Report
<1>5. Stored' = Stored /\ makers' = makers /\ platform' = platform /\ keychain' = keychain
    BY <1>2 DEF Stored, keys
<1>6. KeysOK'
    BY <1>2, <1>5 DEF IInv, KeysOK
<1>7. Manifest(r.tree) \in Stored
    BY <1>1, <1>2 DEF RowOK, Kept, KeptIn
<1>8. StoreSound'
    BY <1>2, <1>5, <1>7 DEF IInv, StoreSound, StoredWhole, ManifestHasFiles, ReferencesStored
<1>9. RowOK(l)'
    BY <1>2, <1>3, <1>5, Monotone
<1> QED BY <1>2, <1>3, <1>4, <1>5, <1>6, <1>8, <1>9, StepOK

LEMMA GiveFeedbackIInv == ASSUME IInv, NEW p \in Proc, GiveFeedback(p) PROVE IInv'
<1>1. PICK r \in Locals : r = proc[p] /\ RowOK(r)
    BY DEF IInv
<1>2. r.pc = "done" /\ UNCHANGED <<disk, state, keys>>
    BY <1>1 DEF GiveFeedback
<1>3. PICK l : l = [r EXCEPT !.pc = "put", !.payload = Reason]
    OBVIOUS
<1>4. /\ l \in Locals /\ l.pc = "put" /\ l.key = r.key /\ l.payload = Reason
      /\ l.inode = r.inode /\ l.tree = r.tree /\ l.again = r.again
    BY <1>3 DEF Locals, Pc
<1>5. Set(p, l)
    BY <1>1, <1>3 DEF GiveFeedback
<1>6. RowOK(l)
    BY <1>1, <1>2, <1>4, Distinct DEF RowOK, Holds, Fits, Real, Kept, KeptIn, KeyOf, Captured,
                                      Storing, Verifying, Walking, Unkeyed
<1> QED BY <1>2, <1>4, <1>5, <1>6, OwnStepOK

LEMMA RecordFeedbackIInv == ASSUME IInv, NEW p \in Proc, RecordFeedback(p) PROVE IInv'
<1>1. PICK r \in Locals : r = proc[p] /\ RowOK(r)
    BY DEF IInv
<1>2. r.pc = "row" /\ feedback' = feedback \cup {r.payload}
      /\ UNCHANGED <<disk, artifacts, cache, reports, keys>>
    BY <1>1 DEF RecordFeedback
<1>3. PICK l \in Locals : l = Finished(r) /\ RowOK(l)
    BY <1>1, <1>2, FinishedOK DEF IInv, Unkeyed
<1>4. Set(p, l)
    BY <1>1, <1>3 DEF RecordFeedback
<1>5. Stored' = Stored /\ makers' = makers /\ platform' = platform /\ keychain' = keychain
    BY <1>2 DEF Stored, keys
<1>6. KeysOK'
    BY <1>2, <1>5 DEF IInv, KeysOK
<1>7. r.payload \in Stored
    BY <1>1, <1>2 DEF RowOK, Kept, KeptIn
<1>8. StoreSound'
    BY <1>2, <1>5, <1>7 DEF IInv, StoreSound, StoredWhole, ManifestHasFiles, ReferencesStored
<1>9. RowOK(l)'
    BY <1>2, <1>3, <1>5, Monotone
<1> QED BY <1>2, <1>3, <1>4, <1>5, <1>6, <1>8, <1>9, StepOK

-----------------------------------------------------------------------------
(* The user                                                                 *)

\* An edit gives a name a version it never had, or keeps it as it is.
LEMMA EditedTree ==
    ASSUME IInv, NEW f \in File, Edited(f), edits' = edits + 1, setting' = setting
    PROVE  /\ DiskOK'
           /\ \A g \in File : TreeNow'[g] \in {TreeNow[g], edits + 1, None, Skipped}
           /\ \A q \in Proc : proc[q].inode # None => proc[q].inode \in DOMAIN version'
<1>1. PICK x \in {dir[f], NextVersion, None, Link} :
        /\ dir' = [dir EXCEPT ![f] = x]
        /\ version' = [i \in ({dir'[g] : g \in File} \cup Held) \ {None, Link} |->
                          IF i = x THEN NextVersion ELSE version[i]]
    BY DEF Edited
<1>2. edits \in Nat /\ NextVersion = edits + 1 /\ NextVersion \in Nat /\ NextVersion \in 0 .. edits'
    BY DEF IInv, DiskOK, NextVersion
<1>3. dir' \in [File -> Nat \cup {Link, None}]
    BY <1>1, <1>2 DEF IInv, DiskOK
<1>4. \A h \in Held : h \in {None} \cup DOMAIN version
    BY DEF Held, IInv, RowOK, Holds
<1>5. DOMAIN version' \subseteq Nat
    BY <1>1, <1>3, <1>4 DEF IInv, DiskOK
<1>6. \A i \in DOMAIN version' : i = x \/ i \in DOMAIN version
    <2> TAKE i \in DOMAIN version'
    <2>1. i \in Nat /\ (i \in Held \/ \E g \in File : i = dir'[g])
        BY <1>1, <1>5
    <2>2. CASE i \in Held
        BY <1>4, <2>1, <2>2, Distinct
    <2>3. CASE \E g \in File : i = dir'[g]
        BY <1>1, <2>1, <2>3 DEF IInv, DiskOK
    <2> QED BY <2>1, <2>2, <2>3
<1>7. \A i \in DOMAIN version' : version'[i] = IF i = x THEN NextVersion ELSE version[i]
    BY <1>1
<1>8. \A i \in DOMAIN version' : version'[i] \in 0 .. edits'
    BY <1>2, <1>6, <1>7 DEF IInv, DiskOK
<1>9. \A g \in File : dir'[g] \in Nat => dir'[g] \in DOMAIN version'
    BY <1>1, Distinct
<1>10. DiskOK'
    BY <1>2, <1>3, <1>5, <1>8, <1>9 DEF IInv, DiskOK
<1>11. ASSUME NEW g \in File PROVE TreeNow'[g] \in {TreeNow[g], edits + 1, None, Skipped}
    <2>1. /\ TreeNow[g] = IF dir[g] = None THEN None
                          ELSE IF dir[g] = Link THEN Skipped ELSE version[dir[g]]
          /\ TreeNow'[g] = IF dir'[g] = None THEN None
                           ELSE IF dir'[g] = Link THEN Skipped ELSE version'[dir'[g]]
        BY DEF TreeNow
    <2>2. CASE dir'[g] \in {None, Link}
        BY <2>1, <2>2
    <2>3. CASE dir'[g] \in Nat
        <3>1. dir'[g] # None /\ dir'[g] # Link /\ dir'[g] \in DOMAIN version'
            BY <1>9, <2>3, Distinct
        <3>2. CASE dir'[g] = x
            BY <1>2, <1>7, <2>1, <3>1, <3>2
        <3>3. CASE dir'[g] # x
            BY <1>1, <1>7, <2>1, <3>1, <3>3 DEF IInv, DiskOK
        <3> QED BY <3>2, <3>3
    <2> QED BY <1>3, <2>2, <2>3
<1>12. ASSUME NEW q \in Proc, proc[q].inode # None PROVE proc[q].inode \in DOMAIN version'
    <2>1. proc[q].inode \in Nat
        BY <1>12 DEF IInv, Locals
    <2> QED BY <1>1, <2>1, Distinct DEF Held
<1> QED BY <1>10, <1>11, <1>12

LEMMA EditIInv == ASSUME IInv, Edit PROVE IInv'
<1>1. PICK f \in File : Edited(f)
    BY DEF Edit
<1>2. edits' = edits + 1 /\ UNCHANGED <<setting, state, keys>> /\ edits \in Nat
    BY DEF Edit, IInv, DiskOK
<1>3. Stored' = Stored /\ makers' = makers /\ platform' = platform /\ keychain' = keychain
    BY <1>2 DEF Stored, state, keys
<1>4. KeysOK' /\ StoreSound'
    BY <1>2, <1>3 DEF IInv, KeysOK, StoreSound, StoredWhole, ManifestHasFiles, ReferencesStored,
       state
<1>5. DiskOK' /\ TreeNow' \in Tree
      /\ \A g \in File : TreeNow'[g] \in {TreeNow[g], edits + 1, None, Skipped}
    <2>1. DiskOK'
        BY <1>1, <1>2, EditedTree
    <2>2. (DiskOK => TreeNow \in Tree)'
        BY TreeNowTree, PTL
    <2> QED BY <1>1, <1>2, <2>1, <2>2, EditedTree
<1>6. ASSUME NEW q \in Proc PROVE proc'[q] \in Locals /\ RowOK(proc[q])'
    <2>1. PICK r \in Locals : r = proc[q] /\ RowOK(r)
        BY DEF IInv
    <2>2. PICK l : l = IF r.seen = {} THEN r ELSE [r EXCEPT !.seen = r.seen \cup {TreeNow'}]
        OBVIOUS
    <2>3. proc'[q] = l
        BY <2>1, <2>2 DEF Edit, Locals
    <2>4. /\ l \in Locals /\ l.pc = r.pc /\ l.key = r.key /\ l.pass = r.pass /\ l.todo = r.todo
          /\ l.inode = r.inode /\ l.first = r.first /\ l.tree = r.tree /\ l.again = r.again
          /\ l.payload = r.payload
        BY <1>5, <2>2 DEF Locals
    <2>5. r.seen \subseteq l.seen /\ (r.seen # {} => TreeNow' \in l.seen)
        BY <2>2, <2>4 DEF Locals
    <2>6. r.inode # None => r.inode \in DOMAIN version'
        BY <1>1, <1>2, <2>1, EditedTree
    <2>7. Holds(l)'
        <3>1. \A g \in File : l.tree[g] \in (0 .. edits') \cup {Skipped, None}
            BY <1>2, <2>1, <2>4 DEF RowOK, Holds
        <3>2. l.pc = "read" => l.first \in 0 .. edits'
            BY <1>2, <2>1, <2>4 DEF RowOK, Holds
        <3>3. Walking(l) \/ Captured(l) \/ l.pc = "report" => TreeNow' \in l.seen
            BY <2>1, <2>4, <2>5 DEF RowOK, Holds, Walking, Captured, Storing, Verifying
        <3> QED BY <2>1, <2>4, <2>6, <3>1, <3>2, <3>3
                DEF RowOK, Holds, Walking, Captured, Storing, Verifying
    <2>8. Fits(l)'
        <3>1. CASE ~Captured(r)
            BY <2>4, <3>1 DEF Fits, Captured, Walking, Storing, Verifying
        <3>2. CASE Captured(r)
            <4>1. PICK t \in r.seen : \A g \in FilesOf(r.tree) : Differs(r, t, g)
                BY <2>1, <3>2 DEF RowOK, Fits
            <4>2. ASSUME NEW g \in FilesOf(r.tree), t[g] # r.tree[g]
                  PROVE  TreeNow'[g] # r.tree[g]
                <5>1. r.tree[g] \in 0 .. edits /\ TreeNow[g] # r.tree[g] /\ g \in File
                    BY <2>1, <4>1, <4>2 DEF RowOK, Holds, FilesOf, Differs
                <5> QED BY <1>2, <1>5, <5>1, Distinct
            <4>3. \A g \in FilesOf(l.tree) : Differs(l, t, g)'
                BY <2>4, <4>1, <4>2 DEF Differs
            <4> QED BY <2>5, <4>1, <4>3 DEF Fits
        <3> QED BY <3>1, <3>2
    <2>9. Real(l)'
        BY <2>1, <2>4, <2>5 DEF RowOK, Real
    <2>10. Kept(l)' /\ KeyOf(l)'
        BY <1>3, <2>1, <2>4 DEF RowOK, Kept, KeptIn, KeyOf, Walking, Storing, Verifying
    <2> QED BY <2>3, <2>4, <2>7, <2>8, <2>9, <2>10
            DEF RowOK, Holds, Fits, Real, Kept, KeptIn, KeyOf, Captured, Storing, Verifying,
                Walking, Differs
<1>7. proc' \in [Proc -> Locals]
    BY <1>6 DEF Edit
<1> QED BY <1>4, <1>5, <1>6, <1>7 DEF IInv

-----------------------------------------------------------------------------
(* The theorems                                                             *)

LEMMA NextIInv == IInv /\ [Next]_vars => IInv'
<1> SUFFICES ASSUME IInv, [Next]_vars PROVE IInv'
    OBVIOUS
<1>1. CASE UNCHANGED vars
    <2>1. /\ UNCHANGED <<disk, state, keys>> /\ proc' = proc /\ Stored' = Stored
          /\ UNCHANGED <<makers, platform, keychain>>
        BY <1>1 DEF vars, keys, state, Stored
    <2>2. DiskOK' /\ KeysOK' /\ StoreSound'
        BY <2>1 DEF IInv, disk, state, keys, DiskOK, KeysOK, StoreSound, StoredWhole,
                    ManifestHasFiles, ReferencesStored
    <2>3. ASSUME NEW q \in Proc PROVE RowOK(proc[q])'
        <3>1. PICK r \in Locals : r = proc[q] /\ RowOK(r)
            BY DEF IInv
        <3>2. RowOK(r)'
            BY <2>1, <3>1, Monotone
        <3> QED BY <2>1, <3>1, <3>2
                DEF RowOK, Holds, Fits, Real, Kept, KeptIn, KeyOf, Captured, Storing, Verifying,
                    Walking, Differs
    <2> QED BY <2>1, <2>2, <2>3 DEF IInv
<1>2. CASE Edit
    BY <1>2, EditIInv
<1>3. CASE \E p \in Proc : Open(p) \/ MakeKey(p) \/ Walk(p) \/ Look(p) \/ Inspect(p)
                           \/ OpenFile(p) \/ ReadRest(p) \/ Crash(p)
    BY <1>3, OpenIInv, MakeKeyIInv, WalkIInv, LookIInv, InspectIInv, OpenFileIInv,
       ReadRestIInv, CrashIInv
<1>4. CASE \E p \in Proc : Put(p) \/ Replace(p) \/ WriteFails(p) \/ Report(p)
                           \/ GiveFeedback(p) \/ RecordFeedback(p)
    BY <1>4, PutIInv, ReplaceIInv, WriteFailsIInv, ReportIInv, GiveFeedbackIInv, RecordFeedbackIInv
<1> QED BY <1>1, <1>2, <1>3, <1>4 DEF Next

\* The disk, the store, the keys and what each process knows of them fit at
\* every moment (snapshot.py, and store.py and security.py under it).
THEOREM SnapshotInvariant == Spec => []IInv
BY InitIInv, NextIInv, PTL DEF Spec

\* The files of a report were on the disk together, as they are reported, at
\* one moment of its check, however many edits fell between its two walks
\* (create_snapshot, verify_snapshot).
THEOREM ReportsAreReal == Spec => []ReportIsReal
<1>1. IInv => ReportIsReal
    BY DEF IInv, RowOK, Real, ReportIsReal
<1> QED BY <1>1, SnapshotInvariant, PTL

\* Nothing in the store is torn, and what is referred to is there before what
\* refers to it, across crashes (put_bytes, persist_snapshot).
THEOREM StoreIsSound == Spec => []StoreSound
<1>1. IInv => StoreSound
    BY DEF IInv
<1> QED BY <1>1, SnapshotInvariant, PTL

\* Where a second key is refused, or none is made, one key decrypts everything
\* (load_or_create_master_key).
THEOREM KeysFit == Spec => []KeysAgree
<1>1. IInv => KeysAgree
    <2> SUFFICES ASSUME IInv, platform = "keychain" \/ Cardinality(makers) <= 1,
                        NEW d \in Stored
                 PROVE  artifacts[d] = keychain
        BY DEF KeysAgree
    <2>1. CASE platform = "keychain"
        BY <2>1 DEF IInv, KeysOK
    <2>2. CASE Cardinality(makers) <= 1
        BY <2>2, AtMostOne DEF IInv, KeysOK
    <2> QED BY <2>1, <2>2
<1> QED BY <1>1, SnapshotInvariant, PTL

-----------------------------------------------------------------------------
(* The types, and with them the limit on the files of a skill               *)

Within(t) == IsFiniteSet(FilesOf(t)) /\ Cardinality(FilesOf(t)) <= setting.files

\* A walk that is about to read a file has room for it.
Room(r) == Cardinality(FilesOf(Result(r))) < setting.files
Limited(r) == /\ Within(r.tree) /\ Within(r.again)
              /\ r.pc \in {"inspect", "open", "read"} => Room(r)

LimitInv == /\ edits <= setting.edits
            /\ faults \in 0 .. MaxFaults
            /\ \A p \in Proc : Limited(proc[p])

LEMMA WithinEmpty == ASSUME setting \in Settings PROVE Within(Empty)
<1>1. FilesOf(Empty) = {}
    BY DEF FilesOf, Empty
<1>2. setting.files \in Nat
    BY SnapshotAssumption
<1> QED BY <1>1, <1>2, FS_EmptySet DEF Within

\* One file more is within the limit if there was room for it.
LEMMA WithinMore ==
    ASSUME setting \in Settings, NEW t \in Tree, NEW f \in File, Within(t),
           NEW x, x = Skipped \/ Cardinality(FilesOf(t)) < setting.files
    PROVE  Within([t EXCEPT ![f] = x])
<1> DEFINE u == [t EXCEPT ![f] = x]
<1>1. setting.files \in Nat /\ IsFiniteSet(FilesOf(t)) /\ Cardinality(FilesOf(t)) \in Nat
    BY SnapshotAssumption, FS_CardinalityType DEF Within
<1>2. CASE x = Skipped
    <2>1. FilesOf(u) \subseteq FilesOf(t)
        BY <1>2 DEF FilesOf, Tree
    <2>2. IsFiniteSet(FilesOf(u)) /\ Cardinality(FilesOf(u)) <= Cardinality(FilesOf(t))
        BY <1>1, <2>1, FS_Subset
    <2>3. Cardinality(FilesOf(u)) \in Nat
        BY <2>2, FS_CardinalityType
    <2> QED BY <1>1, <2>2, <2>3 DEF Within
<1>3. CASE Cardinality(FilesOf(t)) < setting.files
    <2>1. FilesOf(u) \subseteq FilesOf(t) \cup {f}
        BY DEF FilesOf, Tree
    <2>2. /\ IsFiniteSet(FilesOf(t) \cup {f})
          /\ Cardinality(FilesOf(t) \cup {f}) \in
                {Cardinality(FilesOf(t)), Cardinality(FilesOf(t)) + 1}
        BY <1>1, FS_AddElement
    <2>3. /\ IsFiniteSet(FilesOf(u))
          /\ Cardinality(FilesOf(u)) <= Cardinality(FilesOf(t) \cup {f})
        BY <2>1, <2>2, FS_Subset
    <2>4. Cardinality(FilesOf(u)) \in Nat
        BY <2>3, FS_CardinalityType
    <2> QED BY <1>1, <1>3, <2>2, <2>3, <2>4 DEF Within
<1> QED BY <1>2, <1>3

LEMMA LimitedEnds ==
    ASSUME setting \in Settings, NEW r \in Locals
    PROVE  Limited(Idle) /\ Limited(Failed(r)) /\ Limited(Finished(r))
<1>1. /\ Idle.pc = "off" /\ Idle.tree = Empty /\ Idle.again = Empty
      /\ Failed(r).pc = "failed" /\ Failed(r).tree = Empty /\ Failed(r).again = Empty
      /\ Finished(r).pc = "done" /\ Finished(r).tree = Empty /\ Finished(r).again = Empty
    BY DEF Idle, Failed, Finished
<1> QED BY <1>1, WithinEmpty DEF Limited

\* The walk goes on, or ends, with what it has found.
LEMMA LimitedNext ==
    ASSUME setting \in Settings, NEW m \in Locals, Within(m.tree), Within(m.again)
    PROVE  Limited(NextFile(m))
<1>1. CASE m.todo # {}
    <2> DEFINE l == [m EXCEPT !.pc = "look"]
    <2>1. l.pc = "look" /\ l.tree = m.tree /\ l.again = m.again /\ NextFile(m) = l
        BY <1>1 DEF NextFile, Locals
    <2> HIDE DEF l
    <2> QED BY <2>1 DEF Limited
<1>2. CASE m.todo = {} /\ m.pass = "capture"
    <2> DEFINE l == [m EXCEPT !.pc = "put", !.todo = FilesOf(m.tree)]
    <2>1. l.pc = "put" /\ l.tree = m.tree /\ l.again = m.again /\ NextFile(m) = l
        BY <1>2 DEF NextFile, Ended, Locals
    <2> HIDE DEF l
    <2> QED BY <2>1 DEF Limited
<1>3. CASE m.todo = {} /\ m.pass # "capture" /\ m.again # m.tree
    BY <1>3, LimitedEnds DEF NextFile, Ended
<1>4. CASE m.todo = {} /\ m.pass # "capture" /\ m.again = m.tree
    <2> DEFINE l == [m EXCEPT !.pc = "report"]
    <2>1. l.pc = "report" /\ l.tree = m.tree /\ l.again = m.again /\ NextFile(m) = l
        BY <1>4 DEF NextFile, Ended, Locals
    <2> HIDE DEF l
    <2> QED BY <2>1 DEF Limited
<1> QED BY <1>1, <1>2, <1>3, <1>4

LEMMA LimitedDid ==
    ASSUME setting \in Settings, NEW r \in Locals, Limited(r), NEW f \in File,
           NEW x \in Nat \cup {Skipped}, x = Skipped \/ Room(r)
    PROVE  Limited(Did(Found(r, f, x), f))
<1> DEFINE m == [Found(r, f, x) EXCEPT !.todo = @ \ {f}, !.inode = None, !.first = None]
<1>1. CASE r.pass = "capture"
    <2>1. [r.tree EXCEPT ![f] = x] \in Tree /\ r.tree \in Tree
        BY DEF Locals, Tree
    <2>2. Found(r, f, x) = [r EXCEPT !.tree = [r.tree EXCEPT ![f] = x]]
        BY <1>1 DEF Found, Locals
    <2>3. m \in Locals /\ m.tree = [r.tree EXCEPT ![f] = x] /\ m.again = r.again
        BY <2>1, <2>2 DEF Locals
    <2>4. Within([r.tree EXCEPT ![f] = x])
        BY <1>1, <2>1, WithinMore DEF Limited, Room, Result
    <2> HIDE DEF m
    <2>5. Limited(NextFile(m))
        BY <2>3, <2>4, LimitedNext DEF Limited
    <2> QED BY <2>5 DEF Did, m
<1>2. CASE r.pass = "verify"
    <2>1. [r.again EXCEPT ![f] = x] \in Tree /\ r.again \in Tree
        BY DEF Locals, Tree
    <2>2. Found(r, f, x) = [r EXCEPT !.again = [r.again EXCEPT ![f] = x]]
        BY <1>2 DEF Found, Locals
    <2>3. m \in Locals /\ m.again = [r.again EXCEPT ![f] = x] /\ m.tree = r.tree
        BY <2>1, <2>2 DEF Locals
    <2>4. Within([r.again EXCEPT ![f] = x])
        BY <1>2, <2>1, WithinMore DEF Limited, Room, Result
    <2> HIDE DEF m
    <2>5. Limited(NextFile(m))
        BY <2>3, <2>4, LimitedNext DEF Limited
    <2> QED BY <2>5 DEF Did, m
<1> QED BY <1>1, <1>2 DEF Locals

\* A process that keeps its trees and is about to read no file keeps the limit.
LEMMA LimitedSame ==
    ASSUME NEW r, NEW l, Limited(r), l.tree = r.tree, l.again = r.again, l.pass = r.pass,
           l.pc \in {"inspect", "open", "read"} =>
               r.pc \in {"inspect", "open", "read"} \/ Room(r)
    PROVE  Limited(l)
BY DEF Limited, Room, Result

\* Every step of a process leaves it within the limit.
LEMMA StepLimited ==
    ASSUME IInv, LimitInv, NEW p \in Proc,
           \/ Open(p) \/ MakeKey(p) \/ Walk(p) \/ Look(p) \/ Inspect(p) \/ OpenFile(p)
           \/ ReadRest(p) \/ Put(p) \/ Replace(p) \/ WriteFails(p) \/ Report(p)
           \/ GiveFeedback(p) \/ RecordFeedback(p) \/ Crash(p)
    PROVE  \E l : Set(p, l) /\ Limited(l)
<1>1. PICK r \in Locals : r = proc[p] /\ RowOK(r) /\ Limited(r)
    BY DEF IInv, LimitInv
<1>2. setting \in Settings
    BY DEF IInv, DiskOK
<1>3. ASSUME Fails(p) \/ Set(p, Idle) \/ Set(p, Finished(r)) PROVE \E l : Set(p, l) /\ Limited(l)
    BY <1>1, <1>2, <1>3, LimitedEnds DEF Fails
<1>4. ASSUME NEW c \in Pc \ {"inspect", "open", "read"}, NEW k,
             Set(p, [r EXCEPT !.pc = c]) \/ Set(p, [r EXCEPT !.pc = c, !.key = k])
      PROVE  \E l : Set(p, l) /\ Limited(l)
    <2>1. PICK l : Set(p, l) /\ l \in {[r EXCEPT !.pc = c], [r EXCEPT !.pc = c, !.key = k]}
        BY <1>4
    <2>2. l.pc = c /\ l.tree = r.tree /\ l.again = r.again /\ l.pass = r.pass
        BY <2>1 DEF Locals
    <2>3. Limited(l)
        BY <1>1, <1>4, <2>2, LimitedSame
    <2> QED BY <2>1, <2>3
<1>5. CASE Open(p)
    <2>1. \/ Set(p, [r EXCEPT !.pc = "making"])
          \/ Set(p, [r EXCEPT !.pc = "ready", !.key = keychain])
        BY <1>1, <1>5 DEF Open
    <2> QED BY <1>4, <2>1 DEF Pc
<1>6. CASE MakeKey(p)
    <2>1. Fails(p) \/ Set(p, [r EXCEPT !.pc = "ready", !.key = p])
        BY <1>1, <1>6 DEF MakeKey
    <2> QED BY <1>3, <1>4, <2>1 DEF Pc
<1>7. CASE Walk(p)
    <2>1. PICK a \in {"capture", "verify"} :
             Set(p, NextFile([[r EXCEPT !.todo = Present, !.pass = a] EXCEPT !.seen =
                                IF a = "capture" THEN {TreeNow} ELSE r.seen]))
        <3> DEFINE n(a) == [r EXCEPT !.todo = Present, !.pass = a]
        <3>1. ASSUME NEW a \in {"capture", "verify"}
              PROVE  n(a).pass = a /\ n(a).seen = r.seen
            BY DEF Locals
        <3>2. CASE r.pc = "ready"
            BY <1>1, <1>7, <3>1, <3>2 DEF Walk
        <3>3. CASE r.pc # "ready"
            BY <1>1, <1>7, <3>1, <3>3 DEF Walk
        <3> QED BY <3>2, <3>3
    <2> DEFINE m == [[r EXCEPT !.todo = Present, !.pass = a] EXCEPT !.seen =
                                IF a = "capture" THEN {TreeNow} ELSE r.seen]
    <2>2. TreeNow \in Tree
        BY TreeNowTree DEF IInv
    <2>3. m \in Locals /\ m.tree = r.tree /\ m.again = r.again
        BY <2>2 DEF Locals, Present
    <2> HIDE DEF m
    <2>4. Limited(NextFile(m))
        BY <1>1, <1>2, <2>3, LimitedNext DEF Limited
    <2> QED BY <2>1, <2>4 DEF m
<1>8. CASE Look(p)
    <2>1. PICK f \in File : f = Lowest(r.todo)
        BY <1>1, <1>8, LowestIn DEF Look, RowOK, Holds, Walking, Locals
    <2>2. \/ Fails(p) \/ Set(p, Did(Found(r, f, Skipped), f))
          \/ ~Full(r) /\ Set(p, [r EXCEPT !.pc = "inspect"])
        BY <1>1, <1>8, <2>1 DEF Look
    <2>3. CASE Set(p, Did(Found(r, f, Skipped), f))
        BY <1>1, <1>2, <2>3, LimitedDid
    <2>4. CASE ~Full(r) /\ Set(p, [r EXCEPT !.pc = "inspect"])
        <3>1. Room(r)
            <4>1. Result(r) \in {r.tree, r.again}
                BY DEF Result
            <4>2. Cardinality(FilesOf(Result(r))) \in Nat
                BY <1>1, <4>1, FS_CardinalityType DEF Limited, Within
            <4>3. setting.files \in Nat
                BY <1>2, SnapshotAssumption
            <4> QED BY <2>4, <4>2, <4>3 DEF Full, Room
        <3> DEFINE l == [r EXCEPT !.pc = "inspect"]
        <3>2. l.tree = r.tree /\ l.again = r.again /\ l.pass = r.pass
            BY DEF Locals
        <3> HIDE DEF l
        <3>3. Limited(l)
            BY <1>1, <3>1, <3>2, LimitedSame
        <3> QED BY <2>4, <3>3 DEF l
    <2> QED BY <1>3, <2>2, <2>3, <2>4
<1>16. CASE Inspect(p)
    <2>1. PICK i : Fails(p) \/ Set(p, [r EXCEPT !.pc = "open", !.inode = i])
        BY <1>1, <1>16 DEF Inspect
    <2> DEFINE l == [r EXCEPT !.pc = "open", !.inode = i]
    <2>2. l.tree = r.tree /\ l.again = r.again /\ l.pass = r.pass
        BY DEF Locals
    <2>3. r.pc = "inspect"
        BY <1>1, <1>16 DEF Inspect
    <2> HIDE DEF l
    <2>4. Limited(l)
        BY <1>1, <2>2, <2>3, LimitedSame
    <2> QED BY <1>3, <2>1, <2>4 DEF l
<1>9. CASE OpenFile(p)
    <2>1. Fails(p) \/ Set(p, [r EXCEPT !.pc = "read", !.first = version[r.inode]])
        BY <1>1, <1>9 DEF OpenFile
    <2> DEFINE l == [r EXCEPT !.pc = "read", !.first = version[r.inode]]
    <2>2. l.pc = "read" /\ l.tree = r.tree /\ l.again = r.again /\ l.pass = r.pass
        BY DEF Locals
    <2>3. r.pc = "open"
        BY <1>1, <1>9 DEF OpenFile
    <2> HIDE DEF l
    <2>4. Limited(l)
        BY <1>1, <2>2, <2>3, LimitedSame
    <2> QED BY <1>3, <2>1, <2>4 DEF l
<1>10. CASE ReadRest(p)
    <2>1. PICK f \in File : f = Lowest(r.todo)
        BY <1>1, <1>10, LowestIn DEF ReadRest, RowOK, Holds, Walking, Locals
    <2>2. r.pc = "read" /\ (Fails(p) \/ (Unchanged(r) /\ Set(p, Did(Found(r, f, Data(r)), f))))
        BY <1>1, <1>10, <2>1 DEF ReadRest
    <2>3. CASE Unchanged(r) /\ Set(p, Did(Found(r, f, Data(r)), f))
        <3>1. Data(r) = r.first /\ r.first \in Nat
            BY <1>1, <2>2, <2>3 DEF Data, Unchanged, RowOK, Holds, IInv, DiskOK
        <3> QED BY <1>1, <1>2, <2>2, <2>3, <3>1, LimitedDid DEF Limited
    <2> QED BY <1>3, <2>2, <2>3
<1>11. ASSUME NEW l, l = AfterPut(r), Set(p, l) PROVE \E k : Set(p, k) /\ Limited(k)
    <2>1. /\ l.pc \in {"row", "put", "analyze"}
          /\ l.tree = r.tree /\ l.again = r.again /\ l.pass = r.pass
        BY <1>11 DEF AfterPut, Locals
    <2>2. Limited(l)
        BY <1>1, <2>1, LimitedSame
    <2> QED BY <1>11, <2>2
<1>12. CASE Put(p)
    <2>1. Set(p, [r EXCEPT !.pc = "replace"]) \/ Fails(p) \/ Set(p, AfterPut(r))
        BY <1>1, <1>12 DEF Put
    <2>2. CASE Set(p, [r EXCEPT !.pc = "replace"])
        BY <1>4, <2>2 DEF Pc
    <2> QED BY <1>3, <1>11, <2>1, <2>2
<1>13. CASE Replace(p)
    <2>1. Set(p, AfterPut(r))
        BY <1>1, <1>13 DEF Replace
    <2> QED BY <1>11, <2>1
<1>14. CASE WriteFails(p) \/ Report(p) \/ RecordFeedback(p) \/ Crash(p)
    BY <1>1, <1>3, <1>14 DEF WriteFails, Report, RecordFeedback, Crash
<1>15. CASE GiveFeedback(p)
    <2>1. Set(p, [r EXCEPT !.pc = "put", !.payload = Reason])
        BY <1>1, <1>15 DEF GiveFeedback
    <2> DEFINE l == [r EXCEPT !.pc = "put", !.payload = Reason]
    <2>2. l.pc = "put" /\ l.tree = r.tree /\ l.again = r.again /\ l.pass = r.pass
        BY DEF Locals
    <2> HIDE DEF l
    <2>3. Limited(l)
        BY <1>1, <2>2, LimitedSame
    <2> QED BY <2>1, <2>3 DEF l
<1> QED BY <1>5, <1>6, <1>7, <1>8, <1>9, <1>10, <1>12, <1>13, <1>14, <1>15, <1>16

LEMMA NextLimitInv == IInv /\ LimitInv /\ [Next]_vars => LimitInv'
<1> SUFFICES ASSUME IInv, LimitInv, [Next]_vars PROVE LimitInv'
    OBVIOUS
<1>1. MaxFaults \in Nat /\ faults \in Nat /\ edits \in Nat /\ setting.edits \in Nat
    BY SnapshotAssumption DEF IInv, DiskOK, LimitInv
<1>2. setting' = setting /\ edits' <= setting.edits /\ faults' \in 0 .. MaxFaults
    <2>1. CASE UNCHANGED vars
        BY <2>1 DEF vars, disk, LimitInv
    <2>2. CASE Edit
        BY <1>1, <2>2 DEF Edit, LimitInv
    <2>3. CASE \E p \in Proc : Open(p) \/ MakeKey(p) \/ Walk(p) \/ Look(p) \/ Inspect(p) \/ OpenFile(p)
                               \/ ReadRest(p) \/ Put(p) \/ Replace(p)
        BY <2>3 DEF disk, Open, MakeKey, Walk, Look, Inspect, OpenFile, ReadRest, Put, Replace,
               LimitInv
    <2>4. CASE \E p \in Proc : Report(p) \/ GiveFeedback(p) \/ RecordFeedback(p)
        BY <2>4 DEF disk, Report, GiveFeedback, RecordFeedback, LimitInv
    <2>5. CASE \E p \in Proc : WriteFails(p) \/ Crash(p)
        BY <1>1, <2>5 DEF disk, WriteFails, Crash, Spend, LimitInv
    <2> QED BY <2>1, <2>2, <2>3, <2>4, <2>5 DEF Next
<1>3. ASSUME NEW q \in Proc PROVE Limited(proc[q])'
    <2>1. PICK r \in Locals : r = proc[q] /\ Limited(r)
        BY DEF IInv, LimitInv
    <2>2. SUFFICES \E l : l = proc'[q] /\ Limited(l)
        <3>1. ASSUME NEW l, l = proc'[q], Limited(l) PROVE Limited(proc[q])'
            BY <1>2, <3>1 DEF Limited, Room, Within, Result
        <3> QED BY <3>1
    <2>3. CASE UNCHANGED vars
        BY <2>1, <2>3 DEF vars
    <2>4. CASE Edit
        <3>1. PICK l : l = IF r.seen = {} THEN r ELSE [r EXCEPT !.seen = r.seen \cup {TreeNow'}]
            OBVIOUS
        <3>2. l = proc'[q]
            BY <2>1, <2>4, <3>1 DEF Edit, Locals
        <3>3. l.pc = r.pc /\ l.tree = r.tree /\ l.again = r.again /\ l.pass = r.pass
            BY <3>1 DEF Locals
        <3>4. Limited(l)
            BY <2>1, <3>3, LimitedSame
        <3> QED BY <3>2, <3>4
    <2>5. CASE \E p \in Proc :
                  \/ Open(p) \/ MakeKey(p) \/ Walk(p) \/ Look(p) \/ Inspect(p) \/ OpenFile(p)
                  \/ ReadRest(p) \/ Put(p) \/ Replace(p) \/ WriteFails(p) \/ Report(p) \/ GiveFeedback(p)
                  \/ RecordFeedback(p) \/ Crash(p)
        <3>1. PICK p \in Proc : \E l : Set(p, l) /\ Limited(l)
            BY <2>5, StepLimited
        <3>2. PICK l : Set(p, l) /\ Limited(l)
            BY <3>1
        <3> QED BY <2>1, <3>2 DEF Set, IInv
    <2> QED BY <2>3, <2>4, <2>5 DEF Next
<1> QED BY <1>2, <1>3 DEF LimitInv

LEMMA InitLimitInv == Init => LimitInv
<1> SUFFICES ASSUME Init PROVE LimitInv
    OBVIOUS
<1>1. setting.edits \in Nat /\ MaxFaults \in Nat
    BY SnapshotAssumption DEF Init
<1>2. Idle.pc = "off" /\ Idle.tree = Empty /\ Idle.again = Empty
    BY DEF Idle
<1>3. Limited(Idle)
    BY <1>2, WithinEmpty DEF Limited, Init
<1> QED BY <1>1, <1>3 DEF Init, LimitInv

\* The tables, the store and the processes hold what their types say, and no
\* snapshot, nor the second look at one, ever has more files than a skill may
\* have (create_snapshot's limit).
THEOREM SnapshotTypes == Spec => []TypeOK
<1>1. IInv /\ LimitInv => TypeOK
    <2> SUFFICES ASSUME IInv, LimitInv PROVE TypeOK
        OBVIOUS
    <2>1. setting.edits \in Nat /\ edits \in 0 .. setting.edits
        BY SnapshotAssumption DEF IInv, DiskOK, LimitInv
    <2>2. \A i \in DOMAIN version : version[i] \in 0 .. setting.edits
        BY <2>1 DEF IInv, DiskOK
    <2>3. /\ setting \in Settings /\ dir \in [File -> Inode \cup {Link, None}]
          /\ DOMAIN version \subseteq Inode
          /\ \A f \in File : dir[f] \in Inode => dir[f] \in DOMAIN version
        BY DEF IInv, DiskOK, Inode
    <2>4. /\ keychain \in Key \cup {None} /\ makers \subseteq Key
          /\ \A d \in Stored : artifacts[d] \in Key
        BY DEF IInv, KeysOK, Key
    <2>5. ASSUME NEW p \in Proc
          PROVE  LET r == proc[p] IN
                 /\ r.pc \in Pc /\ r.key \in Key \cup {None} /\ r.pass \in {"capture", "verify"}
                 /\ r.todo \subseteq File /\ r.inode \in Inode \cup {None}
                 /\ \A t \in {r.tree, r.again} : t \in Tree /\ Cardinality(FilesOf(t)) <= setting.files
        <3>1. PICK r \in Locals : r = proc[p] /\ Limited(r)
            BY DEF IInv, LimitInv
        <3>2. \A t \in {r.tree, r.again} : t \in Tree /\ Cardinality(FilesOf(t)) <= setting.files
            BY <3>1 DEF Locals, Limited, Within
        <3>3. /\ r.pc \in Pc /\ r.key \in Key \cup {None} /\ r.pass \in {"capture", "verify"}
              /\ r.todo \subseteq File /\ r.inode \in Inode \cup {None}
            BY DEF Locals, Inode
        <3> QED BY <3>1, <3>2, <3>3
    <2> QED BY <2>1, <2>2, <2>3, <2>4, <2>5 DEF LimitInv, TypeOK
<1> QED BY <1>1, InitLimitInv, NextLimitInv, SnapshotInvariant, InitIInv, PTL DEF Spec
=============================================================================
