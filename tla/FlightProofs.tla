----------------------------- MODULE FlightProofs -----------------------------
(***************************************************************************)
(* The flight recorder leaves no file that eviction cannot find, a purge   *)
(* leaves none of those it was asked for, and the rows fit into the ring,  *)
(* for any number of threads, processes, records and purges.               *)
(***************************************************************************)
EXTENDS FlightProperties, FiniteSetTheorems, WellFoundedInduction, TLAPS

-----------------------------------------------------------------------------
(* The inductive invariant                                                  *)

\* A record is unknown to everyone until an append takes it up.
FreshUnused ==
    \A r \in fresh :
        /\ r \notin files \cup Rows
        /\ \A t \in Thread :
            /\ thread[t].rec # r
            /\ r \notin thread[t].ids \cup thread[t].gone

\* Until its row is inserted a record belongs to one append, and no eviction
\* has selected it.
InsertPending ==
    \A t \in Thread : thread[t].pc \in {"write", "replace", "insert"} =>
        /\ thread[t].rec \in Record \ Rows
        /\ \A u \in Thread :
            /\ thread[t].rec \notin thread[u].ids \cup thread[u].gone
            /\ u # t => thread[u].rec # thread[t].rec

\* An eviction deletes a row only once it has unlinked the file, unless the
\* unlink failed.
UnlinkedFirst ==
    used.lost = 0 =>
        \A t \in Thread :
            /\ thread[t].gone \cap files = {}
            /\ thread[t].pc \in {"dropExpired", "dropRows"}
                => thread[t].ids \cap files \subseteq thread[t].todo
            /\ thread[t].pc \in {"deleteExpired", "rows", "deleteRows"}
                => thread[t].ids \cap files = {}

\* A file without a row awaits its row, or a purge that will list or has
\* listed it.
Awaited(r) ==
    \E t \in Thread :
        \/ At(t, "insert") /\ thread[t].rec = r
        \/ thread[t].pc \in {"purgeDrop", "glob"}
        \/ At(t, "globDrop") /\ r \in thread[t].todo

OrphansAwaited == used.lost = 0 => \A r \in files \ Rows : Awaited(r)

IInv == TypeOK /\ FreshUnused /\ InsertPending /\ UnlinkedFirst /\ OrphansAwaited

\* What an eviction selects are rows.
LEMMA SelectedAreRows ==
    /\ \A now : Expired(now) \subseteq Rows
    /\ \A rows : Overflow(rows) \subseteq rows
BY DEF Expired, Overflow

\* Nothing is taken, written or awaited at the start.
LEMMA InitIInv == Init => IInv
BY RecorderAssumption DEF Init, IInv, TypeOK, FreshUnused, InsertPending, UnlinkedFirst,
    OrphansAwaited, Awaited, Idle, Locals, Pc, Evicting, Rows, At

\* The locals a method moves on with are well formed.
LEMMA LocalsKept ==
    ASSUME NEW l \in Locals, NEW pc \in Pc, NEW s \in SUBSET Record
    PROVE  /\ [l EXCEPT !.pc = pc] \in Locals
           /\ [l EXCEPT !.pc = pc, !.todo = s] \in Locals
           /\ [l EXCEPT !.pc = pc, !.gone = s] \in Locals
           /\ [l EXCEPT !.pc = pc, !.todo = s, !.ids = s] \in Locals
BY DEF Locals

\* The locals a method starts with are well formed.
LEMMA StartLocals ==
    ASSUME NEW r \in Record, NEW n \in Nat, NEW s \in SUBSET Record
    PROVE  /\ Idle \in Locals
           /\ [Idle EXCEPT !.pc = "write", !.rec = r, !.now = n] \in Locals
           /\ [Idle EXCEPT !.pc = "purge", !.seen = s] \in Locals
           /\ [Idle EXCEPT !.pc = "expired", !.now = n] \in Locals
BY DEF Locals, Idle, Pc

\* Each step keeps the types.
LEMMA TypeStep == ASSUME IInv, [Next]_vars PROVE TypeOK'
<1> USE RecorderAssumption DEF IInv, TypeOK
<1>1. CASE Tick
    BY <1>1 DEF Tick, Rows
<1>2. ASSUME NEW t \in Thread, NEW r \in Record, Append(t, r) PROVE TypeOK'
    <2> DEFINE l == [Idle EXCEPT !.pc = "write", !.rec = r, !.now = clock + 1]
    <2>1. l \in Locals
        <3>1. clock + 1 \in Nat /\ files \in SUBSET Record
            OBVIOUS
        <3> QED BY <3>1, StartLocals
    <2>2. l.gone = {}
        BY DEF Idle
    <2> HIDE DEF l
    <2>3. thread' = [thread EXCEPT ![t] = l] /\ At(t, "idle")
        BY <1>2 DEF Append, l
    <2>4. thread' \in [Thread -> Locals] /\ clock' \in Nat
        BY <1>2, <2>1, <2>3 DEF Append
    <2>5. writer' = writer /\ writer # t
        BY <1>2, <2>3 DEF Append, At, Evicting
    <2>6. \A u \in Thread : thread'[u].gone # {} => writer' = u
        BY <2>2, <2>3, <2>5
    <2>7. writer' # NoThread => thread'[writer'].pc \in Evicting
        BY <2>3, <2>5
    <2>8. UNCHANGED <<files, temps, table, used>> /\ fresh' \subseteq Record
        BY <1>2 DEF Append
    <2> QED BY <2>4, <2>5, <2>6, <2>7, <2>8 DEF Rows
<1>3. ASSUME NEW t \in Thread, WriteTemp(t) PROVE TypeOK'
    <2> DEFINE l == [thread[t] EXCEPT !.pc = "replace"]
    <2>1. l \in Locals
        <3>1. thread[t] \in Locals /\ "replace" \in Pc
            BY DEF Pc
        <3>2. thread[t].ids \subseteq Record /\ Rows \subseteq Record
            BY <3>1 DEF Locals
        <3> QED BY <3>1, <3>2, LocalsKept
    <2>2. thread' = [thread EXCEPT ![t] = l]
        BY <1>3 DEF WriteTemp, Locals
    <2>3. l.pc = "replace" /\ l.gone = thread[t].gone
        BY DEF Locals
    <2> HIDE DEF l
    <2>4. thread' \in [Thread -> Locals] /\ thread'[t] = l
        BY <2>1, <2>2
    <2>5. \A u \in Thread \ {t} : thread'[u] = thread[u]
        BY <2>2
    <2>6. writer' = writer /\ writer # t
        BY <1>3 DEF WriteTemp, At, Evicting
    <2>7. temps' \subseteq Record
        <3>1. thread[t].rec \in Record
            BY <1>3 DEF WriteTemp, At, InsertPending
        <3> QED BY <1>3, <3>1 DEF WriteTemp
    <2> QED BY <1>3, <2>3, <2>4, <2>5, <2>6, <2>7 DEF WriteTemp, Rows
<1>4. ASSUME NEW t \in Thread, Replace(t) PROVE TypeOK'
    <2> DEFINE l == [thread[t] EXCEPT !.pc = "insert"]
    <2>1. l \in Locals
        <3>1. thread[t] \in Locals /\ "insert" \in Pc
            BY DEF Pc
        <3>2. thread[t].ids \subseteq Record /\ Rows \subseteq Record
            BY <3>1 DEF Locals
        <3> QED BY <3>1, <3>2, LocalsKept
    <2>2. thread' = [thread EXCEPT ![t] = l]
        BY <1>4 DEF Replace, Locals
    <2>3. l.pc = "insert" /\ l.gone = thread[t].gone
        BY DEF Locals
    <2> HIDE DEF l
    <2>4. thread' \in [Thread -> Locals] /\ thread'[t] = l
        BY <2>1, <2>2
    <2>5. \A u \in Thread \ {t} : thread'[u] = thread[u]
        BY <2>2
    <2>6. writer' = writer /\ writer # t
        BY <1>4 DEF Replace, At, Evicting
    <2>7. files' \subseteq Record /\ temps' \subseteq Record
        <3>1. thread[t].rec \in Record
            BY <1>4 DEF Replace, At, InsertPending
        <3> QED BY <1>4, <3>1 DEF Replace
    <2> QED BY <1>4, <2>3, <2>4, <2>5, <2>6, <2>7 DEF Replace, Rows
<1>5. ASSUME NEW t \in Thread, Insert(t) PROVE TypeOK'
    <2> DEFINE l == [thread[t] EXCEPT !.pc = "expired"]
    <2>1. l \in Locals
        <3>1. thread[t] \in Locals /\ "expired" \in Pc
            BY DEF Pc
        <3>2. thread[t].ids \subseteq Record /\ Rows \subseteq Record
            BY <3>1 DEF Locals
        <3> QED BY <3>1, <3>2, LocalsKept
    <2>2. thread' = [thread EXCEPT ![t] = l]
        BY <1>5 DEF Insert, Locals
    <2>3. l.pc = "expired" /\ l.gone = thread[t].gone
        BY DEF Locals
    <2> HIDE DEF l
    <2>4. thread' \in [Thread -> Locals] /\ thread'[t] = l
        BY <2>1, <2>2
    <2>5. \A u \in Thread \ {t} : thread'[u] = thread[u]
        BY <2>2
    <2>6. Rows' = Rows \cup {thread[t].rec} /\ table' \in [Rows' -> Nat]
        <3>1. thread[t] \in Locals
            OBVIOUS
        <3>2. thread[t].now \in Nat
            BY <3>1 DEF Locals
        <3>3. thread[t].rec \in Record
            BY <1>5 DEF Insert, At, InsertPending
        <3> QED BY <1>5, <3>2, <3>3 DEF Insert, Rows
    <2>7. writer' = writer /\ Rows' \subseteq Record
        <3>1. thread[t].rec \in Record
            BY <1>5 DEF Insert, At, InsertPending
        <3> QED BY <1>5, <2>6, <3>1 DEF Insert
    <2>8. writer # t
        BY <1>5 DEF Insert, At, Evicting
    <2>9. UNCHANGED <<clock, files, temps, fresh, used>>
        BY <1>5 DEF Insert
    <2>10. \A u \in Thread : thread'[u].gone # {} => writer' = u
        BY <2>3, <2>4, <2>5, <2>7, <2>8
    <2>11. writer' # NoThread => thread'[writer'].pc \in Evicting
        BY <2>5, <2>7, <2>8
    <2> QED BY <2>4, <2>6, <2>7, <2>9, <2>10, <2>11
<1>6. ASSUME NEW t \in Thread, StatementFails(t) PROVE TypeOK'
    BY <1>6 DEF StatementFails, DropTarget, Locals, Pc, Evicting, Rows, Idle, At, Free
<1>7. ASSUME NEW t \in Thread, UnlinkFails(t) PROVE TypeOK'
    <2>1. UNCHANGED <<clock, files, temps, table, fresh, writer>>
        BY <1>7 DEF UnlinkFails
    <2>2. thread[t].pc \in {"dropExpired", "dropRows", "purgeDrop", "globDrop"}
        BY <1>7 DEF UnlinkFails, At
    <2>3. /\ thread' \in [Thread -> Locals]
          /\ \A u \in Thread \ {t} : thread'[u] = thread[u]
          /\ \/ thread'[t].gone = {} /\ thread[t].pc = "globDrop"
             \/ thread'[t].gone = thread[t].gone /\ thread'[t].pc = thread[t].pc
        <3>1. CASE At(t, "globDrop") /\ thread' = [thread EXCEPT ![t] = Idle]
            <4>1. Idle \in Locals /\ Idle.gone = {}
                BY DEF Locals, Pc, Idle
            <4> QED BY <3>1, <4>1 DEF At
        <3>2. CASE \E r \in thread[t].todo :
                        thread' = [thread EXCEPT ![t].todo = thread[t].todo \ {r}]
            BY <3>2 DEF Locals
        <3> QED BY <1>7, <3>1, <3>2 DEF UnlinkFails
    <2>4. used' \in [purges : Nat, faults : Nat, lost : Nat]
        <3>1. /\ used.faults + 1 \in Nat /\ used.lost + 1 \in Nat
              /\ used' = [used EXCEPT !.faults = used.faults + 1, !.lost = used.lost + 1]
            BY <1>7 DEF UnlinkFails
        <3>2. \A n, m \in Nat :
                 [used EXCEPT !.faults = n, !.lost = m]
                    \in [purges : Nat, faults : Nat, lost : Nat]
            BY ZenonT(60)
        <3> QED BY <3>1, <3>2
    <2>5. writer = t => thread[t].pc \in {"dropExpired", "dropRows"}
        BY <2>2 DEF Evicting
    <2> QED BY <2>1, <2>2, <2>3, <2>4, <2>5 DEF Rows, Evicting
<1>8. ASSUME NEW t \in Thread, SelectExpired(t) PROVE TypeOK'
    <2> DEFINE l == [thread[t] EXCEPT !.pc = "dropExpired", !.todo = Expired(thread[t].now),
                                        !.ids = Expired(thread[t].now)]
    <2>1. l \in Locals
        <3>1. thread[t] \in Locals /\ "dropExpired" \in Pc
            BY DEF Pc
        <3>2. thread[t].ids \subseteq Record /\ Rows \subseteq Record
            BY <3>1 DEF Locals
        <3> QED BY <3>1, <3>2, LocalsKept, SelectedAreRows
    <2>2. thread' = [thread EXCEPT ![t] = l]
        BY <1>8 DEF SelectExpired, Locals
    <2>3. l.pc = "dropExpired" /\ l.gone = thread[t].gone
        BY DEF Locals
    <2> HIDE DEF l
    <2>4. thread' \in [Thread -> Locals] /\ thread'[t] = l
        BY <2>1, <2>2
    <2>5. \A u \in Thread \ {t} : thread'[u] = thread[u]
        BY <2>2
    <2> QED BY <1>8, <2>3, <2>4, <2>5 DEF SelectExpired, Evicting, Rows, Idle, At, Free
<1>9. ASSUME NEW t \in Thread, DropExpired(t) PROVE TypeOK'
    BY <1>9 DEF DropExpired, Unlink, Locals, Pc, Evicting, Rows, Idle, At, Free
<1>10. ASSUME NEW t \in Thread, DeleteExpired(t) PROVE TypeOK'
    <2> DEFINE l == [thread[t] EXCEPT !.pc = "rows", !.gone = thread[t].ids]
    <2>1. l \in Locals
        <3>1. thread[t] \in Locals /\ "rows" \in Pc
            BY DEF Pc
        <3>2. thread[t].ids \subseteq Record /\ Rows \subseteq Record
            BY <3>1 DEF Locals
        <3> QED BY <3>1, <3>2, LocalsKept
    <2>2. thread' = [thread EXCEPT ![t] = l]
        BY <1>10 DEF DeleteExpired, Locals
    <2>3. l.pc = "rows" /\ l.gone = thread[t].ids
        BY DEF Locals
    <2> HIDE DEF l
    <2>4. thread' \in [Thread -> Locals] /\ thread'[t] = l
        BY <2>1, <2>2
    <2>5. \A u \in Thread \ {t} : thread'[u] = thread[u]
        BY <2>2
    <2> QED BY <1>10, <2>3, <2>4, <2>5 DEF DeleteExpired, Evicting, Rows, Idle, At, Free
<1>11. ASSUME NEW t \in Thread, SelectRows(t) PROVE TypeOK'
    <2> DEFINE l == [thread[t] EXCEPT !.pc = "dropRows", !.todo = Overflow(Rows \ thread[t].gone),
                                        !.ids = Overflow(Rows \ thread[t].gone)]
    <2>1. l \in Locals
        <3>1. thread[t] \in Locals /\ "dropRows" \in Pc
            BY DEF Pc
        <3>2. thread[t].ids \subseteq Record /\ Rows \subseteq Record
            BY <3>1 DEF Locals
        <3> QED BY <3>1, <3>2, LocalsKept, SelectedAreRows
    <2>2. thread' = [thread EXCEPT ![t] = l]
        BY <1>11 DEF SelectRows, Locals
    <2>3. l.pc = "dropRows" /\ l.gone = thread[t].gone
        BY DEF Locals
    <2> HIDE DEF l
    <2>4. thread' \in [Thread -> Locals] /\ thread'[t] = l
        BY <2>1, <2>2
    <2>5. \A u \in Thread \ {t} : thread'[u] = thread[u]
        BY <2>2
    <2> QED BY <1>11, <2>3, <2>4, <2>5 DEF SelectRows, Evicting, Rows, Idle, At, Free
<1>12. ASSUME NEW t \in Thread, DropRows(t) PROVE TypeOK'
    BY <1>12 DEF DropRows, Unlink, Locals, Pc, Evicting, Rows, Idle, At, Free
<1>13. ASSUME NEW t \in Thread, DeleteRows(t) PROVE TypeOK'
    BY <1>13 DEF DeleteRows, Without, Locals, Pc, Evicting, Rows, Idle, At, Free
<1>14. ASSUME NEW t \in Thread, Purge(t) PROVE TypeOK'
    <2>1. [Idle EXCEPT !.pc = "purge", !.seen = files] \in Locals
        BY DEF Locals, Idle, Pc
    <2> QED BY <1>14, <2>1 DEF Purge, Locals, Evicting, Rows, Idle, At, Free
<1>15. ASSUME NEW t \in Thread, PurgeSelect(t) PROVE TypeOK'
    <2> DEFINE l == [thread[t] EXCEPT !.pc = "purgeDelete", !.todo = Rows]
    <2>1. l \in Locals
        <3>1. thread[t] \in Locals /\ "purgeDelete" \in Pc
            BY DEF Pc
        <3>2. thread[t].ids \subseteq Record /\ Rows \subseteq Record
            BY <3>1 DEF Locals
        <3> QED BY <3>1, <3>2, LocalsKept
    <2>2. thread' = [thread EXCEPT ![t] = l]
        BY <1>15 DEF PurgeSelect, Locals
    <2>3. l.pc = "purgeDelete" /\ l.gone = thread[t].gone
        BY DEF Locals
    <2> HIDE DEF l
    <2>4. thread' \in [Thread -> Locals] /\ thread'[t] = l
        BY <2>1, <2>2
    <2>5. \A u \in Thread \ {t} : thread'[u] = thread[u]
        BY <2>2
    <2> QED BY <1>15, <2>3, <2>4, <2>5 DEF PurgeSelect, Evicting, Rows, Idle, At, Free
<1>16. ASSUME NEW t \in Thread, PurgeDelete(t) PROVE TypeOK'
    <2> DEFINE l == [thread[t] EXCEPT !.pc = "purgeDrop"]
    <2>1. l \in Locals
        <3>1. thread[t] \in Locals /\ "purgeDrop" \in Pc
            BY DEF Pc
        <3>2. thread[t].ids \subseteq Record /\ Rows \subseteq Record
            BY <3>1 DEF Locals
        <3> QED BY <3>1, <3>2, LocalsKept
    <2>2. thread' = [thread EXCEPT ![t] = l]
        BY <1>16 DEF PurgeDelete, Locals
    <2>3. l.pc = "purgeDrop" /\ l.gone = thread[t].gone
        BY DEF Locals
    <2> HIDE DEF l
    <2>4. thread' \in [Thread -> Locals] /\ thread'[t] = l
        BY <2>1, <2>2
    <2>5. \A u \in Thread \ {t} : thread'[u] = thread[u]
        BY <2>2
    <2> QED BY <1>16, <2>3, <2>4, <2>5 DEF PurgeDelete, Evicting, Rows, Idle, At, Free
<1>17. ASSUME NEW t \in Thread, PurgeDrop(t) PROVE TypeOK'
    BY <1>17 DEF PurgeDrop, Unlink, Locals, Pc, Evicting, Rows, Idle, At, Free
<1>18. ASSUME NEW t \in Thread, Glob(t) PROVE TypeOK'
    <2> DEFINE l == [thread[t] EXCEPT !.pc = "globDrop", !.todo = files]
    <2>1. l \in Locals
        <3>1. thread[t] \in Locals /\ "globDrop" \in Pc
            BY DEF Pc
        <3>2. thread[t].ids \subseteq Record /\ Rows \subseteq Record
            BY <3>1 DEF Locals
        <3> QED BY <3>1, <3>2, LocalsKept
    <2>2. thread' = [thread EXCEPT ![t] = l]
        BY <1>18 DEF Glob, Globbed, Locals
    <2>3. l.pc = "globDrop" /\ l.gone = thread[t].gone
        BY DEF Locals
    <2> HIDE DEF l
    <2>4. thread' \in [Thread -> Locals] /\ thread'[t] = l
        BY <2>1, <2>2
    <2>5. \A u \in Thread \ {t} : thread'[u] = thread[u]
        BY <2>2
    <2> QED BY <1>18, <2>3, <2>4, <2>5 DEF Glob, Globbed, Evicting, Rows, Idle, At, Free
<1>19. ASSUME NEW t \in Thread, GlobDrop(t) PROVE TypeOK'
    <2>1. CASE Unlink(t, "globDrop", "globDrop")
        <3>1. writer' = writer /\ writer # t
            BY <2>1 DEF Unlink, At, Evicting
        <3>2. UNCHANGED <<clock, temps, table, fresh, used>> /\ files' \subseteq files
            BY <2>1 DEF Unlink
        <3>3. thread' \in [Thread -> Locals]
            <4>1. CASE thread[t].todo = {}
                BY <2>1, <4>1 DEF Unlink, Locals, Pc
            <4>2. CASE thread[t].todo # {}
                BY <2>1, <4>2 DEF Unlink, Locals
            <4> QED BY <4>1, <4>2
        <3>4. /\ \A u \in Thread \ {t} : thread'[u] = thread[u]
              /\ thread'[t].gone = thread[t].gone
            BY <2>1 DEF Unlink, Locals
        <3> QED BY <3>1, <3>2, <3>3, <3>4 DEF Rows
    <2>2. CASE ~Unlink(t, "globDrop", "globDrop")
        <3> DEFINE l == [Idle EXCEPT !.pc = "expired", !.now = clock]
        <3>1. l \in Locals /\ l.gone = {} /\ l.pc = "expired"
            BY DEF Locals, Pc, Idle
        <3> HIDE DEF l
        <3>2. thread' = [thread EXCEPT ![t] = l]
            BY <1>19, <2>2 DEF GlobDrop, l
        <3> QED BY <1>19, <2>2, <3>1, <3>2 DEF GlobDrop, Evicting, Rows, Idle, At, Free
    <2> QED BY <2>1, <2>2
<1>20. ASSUME NEW t \in Thread, Crash(t) PROVE TypeOK'
    <2>1. Idle \in Locals
        BY DEF Idle, Locals, Pc
    <2>2. thread' \in [Thread -> Locals]
        BY <1>20, <2>1 DEF Crash
    <2>3. \A u \in Thread : thread'[u].gone # {} => writer' = u
        BY <1>20 DEF Crash, Idle
    <2>4. writer' # NoThread => thread'[writer'].pc \in Evicting
        BY <1>20 DEF Crash
    <2>5. used' \in [purges : Nat, faults : Nat, lost : Nat]
        <3>1. used \in [purges : Nat, faults : Nat, lost : Nat]
            BY DEF TypeOK
        <3>2. used' = [purges |-> used.purges, faults |-> used.faults + 1,
                       lost |-> used.lost + 1]
            BY <1>20, <3>1 DEF Crash
        <3> QED BY <3>1, <3>2
    <2>6. UNCHANGED <<clock, files, temps, table, fresh>> /\ writer' \in Thread \cup {NoThread}
        BY <1>20 DEF Crash
    <2> QED BY <2>2, <2>3, <2>4, <2>5, <2>6 DEF Rows
<1>21. CASE UNCHANGED vars
    BY <1>21 DEF vars, Rows
<1> QED BY <1>1, <1>2, <1>3, <1>4, <1>5, <1>6, <1>7, <1>8, <1>9, <1>10, <1>11, <1>12, <1>13, <1>14, <1>15, <1>16, <1>17, <1>18, <1>19, <1>20, <1>21 DEF Next

\* Each step leaves the records nobody has taken alone.
LEMMA FreshStep == ASSUME IInv, [Next]_vars PROVE FreshUnused'
<1> USE RecorderAssumption DEF IInv
<1>1. CASE Tick
    BY <1>1 DEF Tick, FreshUnused, TypeOK, Locals, Rows, Idle, At
<1>2. ASSUME NEW t \in Thread, NEW r \in Record, Append(t, r) PROVE FreshUnused'
    BY <1>2 DEF Append, FreshUnused, TypeOK, Locals, Rows, Idle, At
<1>3. ASSUME NEW t \in Thread, WriteTemp(t) PROVE FreshUnused'
    BY <1>3 DEF WriteTemp, FreshUnused, TypeOK, Locals, Rows, Idle, At
<1>4. ASSUME NEW t \in Thread, Replace(t) PROVE FreshUnused'
    BY <1>4 DEF Replace, FreshUnused, TypeOK, Locals, Rows, Idle, At
<1>5. ASSUME NEW t \in Thread, Insert(t) PROVE FreshUnused'
    BY <1>5 DEF Insert, FreshUnused, TypeOK, Locals, Rows, Idle, At
<1>6. ASSUME NEW t \in Thread, StatementFails(t) PROVE FreshUnused'
    BY <1>6 DEF StatementFails, DropTarget, FreshUnused, TypeOK, Locals, Rows, Idle, At
<1>7. ASSUME NEW t \in Thread, UnlinkFails(t) PROVE FreshUnused'
    BY <1>7 DEF UnlinkFails, FreshUnused, TypeOK, Locals, Rows, Idle, At
<1>8. ASSUME NEW t \in Thread, SelectExpired(t) PROVE FreshUnused'
    BY <1>8, SelectedAreRows DEF SelectExpired, FreshUnused, TypeOK, Locals, Rows, Idle, At
<1>9. ASSUME NEW t \in Thread, DropExpired(t) PROVE FreshUnused'
    BY <1>9 DEF DropExpired, Unlink, FreshUnused, TypeOK, Locals, Rows, Idle, At
<1>10. ASSUME NEW t \in Thread, DeleteExpired(t) PROVE FreshUnused'
    BY <1>10 DEF DeleteExpired, FreshUnused, TypeOK, Locals, Rows, Idle, At
<1>11. ASSUME NEW t \in Thread, SelectRows(t) PROVE FreshUnused'
    BY <1>11, SelectedAreRows DEF SelectRows, FreshUnused, TypeOK, Locals, Rows, Idle, At
<1>12. ASSUME NEW t \in Thread, DropRows(t) PROVE FreshUnused'
    BY <1>12 DEF DropRows, Unlink, FreshUnused, TypeOK, Locals, Rows, Idle, At
<1>13. ASSUME NEW t \in Thread, DeleteRows(t) PROVE FreshUnused'
    BY <1>13 DEF DeleteRows, Without, FreshUnused, TypeOK, Locals, Rows, Idle, At
<1>14. ASSUME NEW t \in Thread, Purge(t) PROVE FreshUnused'
    BY <1>14 DEF Purge, FreshUnused, TypeOK, Locals, Rows, Idle, At
<1>15. ASSUME NEW t \in Thread, PurgeSelect(t) PROVE FreshUnused'
    BY <1>15 DEF PurgeSelect, FreshUnused, TypeOK, Locals, Rows, Idle, At
<1>16. ASSUME NEW t \in Thread, PurgeDelete(t) PROVE FreshUnused'
    BY <1>16 DEF PurgeDelete, FreshUnused, TypeOK, Locals, Rows, Idle, At
<1>17. ASSUME NEW t \in Thread, PurgeDrop(t) PROVE FreshUnused'
    BY <1>17 DEF PurgeDrop, Unlink, FreshUnused, TypeOK, Locals, Rows, Idle, At
<1>18. ASSUME NEW t \in Thread, Glob(t) PROVE FreshUnused'
    BY <1>18 DEF Glob, Globbed, FreshUnused, TypeOK, Locals, Rows, Idle, At
<1>19. ASSUME NEW t \in Thread, GlobDrop(t) PROVE FreshUnused'
    <2>1. files' \subseteq files /\ UNCHANGED <<table, fresh>>
        BY <1>19 DEF GlobDrop, Unlink
    <2>2. \A u \in Thread \ {t} : thread'[u] = thread[u]
        BY <1>19 DEF GlobDrop, Unlink, TypeOK
    <2>3. /\ thread'[t].pc \in {"globDrop", "expired"}
          /\ thread'[t].rec \in {thread[t].rec, NoRecord}
          /\ thread'[t].ids \subseteq thread[t].ids
          /\ thread'[t].gone \subseteq thread[t].gone
        <3>1. CASE Unlink(t, "globDrop", "globDrop")
            BY <3>1 DEF Unlink, TypeOK, Locals, At
        <3>2. CASE ~Unlink(t, "globDrop", "globDrop")
            <4>1. thread'[t] = [Idle EXCEPT !.pc = "expired", !.now = clock]
                BY <1>19, <3>2 DEF GlobDrop, TypeOK
            <4> QED BY <4>1 DEF Idle
        <3> QED BY <3>1, <3>2
    <2> QED BY <2>1, <2>2, <2>3 DEF FreshUnused, TypeOK, Locals, Rows, Idle, At
<1>20. ASSUME NEW t \in Thread, Crash(t) PROVE FreshUnused'
    BY <1>20 DEF Crash, FreshUnused, TypeOK, Locals, Rows, Idle, At
<1>21. CASE UNCHANGED vars
    BY <1>21 DEF vars, FreshUnused, TypeOK, Locals, Rows, Idle, At
<1> QED BY <1>1, <1>2, <1>3, <1>4, <1>5, <1>6, <1>7, <1>8, <1>9, <1>10, <1>11, <1>12, <1>13, <1>14, <1>15, <1>16, <1>17, <1>18, <1>19, <1>20, <1>21 DEF Next

\* Each step leaves the record of an unfinished append to it.
LEMMA PendingStep == ASSUME IInv, [Next]_vars PROVE InsertPending'
<1> USE RecorderAssumption DEF IInv
<1>1. CASE Tick
    BY <1>1 DEF Tick, InsertPending, FreshUnused, TypeOK, Locals, Rows, Idle, At
<1>2. ASSUME NEW t \in Thread, NEW r \in Record, Append(t, r) PROVE InsertPending'
    BY <1>2 DEF Append, InsertPending, FreshUnused, TypeOK, Locals, Rows, Idle, At
<1>3. ASSUME NEW t \in Thread, WriteTemp(t) PROVE InsertPending'
    BY <1>3 DEF WriteTemp, InsertPending, FreshUnused, TypeOK, Locals, Rows, Idle, At
<1>4. ASSUME NEW t \in Thread, Replace(t) PROVE InsertPending'
    BY <1>4 DEF Replace, InsertPending, FreshUnused, TypeOK, Locals, Rows, Idle, At
<1>5. ASSUME NEW t \in Thread, Insert(t) PROVE InsertPending'
    BY <1>5 DEF Insert, InsertPending, FreshUnused, TypeOK, Locals, Rows, Idle, At
<1>6. ASSUME NEW t \in Thread, StatementFails(t) PROVE InsertPending'
    BY <1>6 DEF StatementFails, DropTarget, InsertPending, FreshUnused, TypeOK, Locals, Rows, Idle, At
<1>7. ASSUME NEW t \in Thread, UnlinkFails(t) PROVE InsertPending'
    BY <1>7 DEF UnlinkFails, InsertPending, FreshUnused, TypeOK, Locals, Rows, Idle, At
<1>8. ASSUME NEW t \in Thread, SelectExpired(t) PROVE InsertPending'
    BY <1>8, SelectedAreRows DEF SelectExpired, InsertPending, FreshUnused, TypeOK, Locals, Rows, Idle, At
<1>9. ASSUME NEW t \in Thread, DropExpired(t) PROVE InsertPending'
    BY <1>9 DEF DropExpired, Unlink, InsertPending, FreshUnused, TypeOK, Locals, Rows, Idle, At
<1>10. ASSUME NEW t \in Thread, DeleteExpired(t) PROVE InsertPending'
    BY <1>10 DEF DeleteExpired, InsertPending, FreshUnused, TypeOK, Locals, Rows, Idle, At
<1>11. ASSUME NEW t \in Thread, SelectRows(t) PROVE InsertPending'
    BY <1>11, SelectedAreRows DEF SelectRows, InsertPending, FreshUnused, TypeOK, Locals, Rows, Idle, At
<1>12. ASSUME NEW t \in Thread, DropRows(t) PROVE InsertPending'
    BY <1>12 DEF DropRows, Unlink, InsertPending, FreshUnused, TypeOK, Locals, Rows, Idle, At
<1>13. ASSUME NEW t \in Thread, DeleteRows(t) PROVE InsertPending'
    BY <1>13 DEF DeleteRows, Without, InsertPending, FreshUnused, TypeOK, Locals, Rows, Idle, At
<1>14. ASSUME NEW t \in Thread, Purge(t) PROVE InsertPending'
    BY <1>14 DEF Purge, InsertPending, FreshUnused, TypeOK, Locals, Rows, Idle, At
<1>15. ASSUME NEW t \in Thread, PurgeSelect(t) PROVE InsertPending'
    BY <1>15 DEF PurgeSelect, InsertPending, FreshUnused, TypeOK, Locals, Rows, Idle, At
<1>16. ASSUME NEW t \in Thread, PurgeDelete(t) PROVE InsertPending'
    BY <1>16 DEF PurgeDelete, InsertPending, FreshUnused, TypeOK, Locals, Rows, Idle, At
<1>17. ASSUME NEW t \in Thread, PurgeDrop(t) PROVE InsertPending'
    BY <1>17 DEF PurgeDrop, Unlink, InsertPending, FreshUnused, TypeOK, Locals, Rows, Idle, At
<1>18. ASSUME NEW t \in Thread, Glob(t) PROVE InsertPending'
    BY <1>18 DEF Glob, Globbed, InsertPending, FreshUnused, TypeOK, Locals, Rows, Idle, At
<1>19. ASSUME NEW t \in Thread, GlobDrop(t) PROVE InsertPending'
    <2>1. files' \subseteq files /\ UNCHANGED <<table, fresh>>
        BY <1>19 DEF GlobDrop, Unlink
    <2>2. \A u \in Thread \ {t} : thread'[u] = thread[u]
        BY <1>19 DEF GlobDrop, Unlink, TypeOK
    <2>3. /\ thread'[t].pc \in {"globDrop", "expired"}
          /\ thread'[t].rec \in {thread[t].rec, NoRecord}
          /\ thread'[t].ids \subseteq thread[t].ids
          /\ thread'[t].gone \subseteq thread[t].gone
        <3>1. CASE Unlink(t, "globDrop", "globDrop")
            BY <3>1 DEF Unlink, TypeOK, Locals, At
        <3>2. CASE ~Unlink(t, "globDrop", "globDrop")
            <4>1. thread'[t] = [Idle EXCEPT !.pc = "expired", !.now = clock]
                BY <1>19, <3>2 DEF GlobDrop, TypeOK
            <4> QED BY <4>1 DEF Idle
        <3> QED BY <3>1, <3>2
    <2> QED BY <2>1, <2>2, <2>3 DEF InsertPending, FreshUnused, TypeOK, Locals, Rows, Idle, At
<1>20. ASSUME NEW t \in Thread, Crash(t) PROVE InsertPending'
    BY <1>20 DEF Crash, InsertPending, FreshUnused, TypeOK, Locals, Rows, Idle, At
<1>21. CASE UNCHANGED vars
    BY <1>21 DEF vars, InsertPending, FreshUnused, TypeOK, Locals, Rows, Idle, At
<1> QED BY <1>1, <1>2, <1>3, <1>4, <1>5, <1>6, <1>7, <1>8, <1>9, <1>10, <1>11, <1>12, <1>13, <1>14, <1>15, <1>16, <1>17, <1>18, <1>19, <1>20, <1>21 DEF Next

\* Each step unlinks before it deletes.
LEMMA UnlinkedStep == ASSUME IInv, [Next]_vars PROVE UnlinkedFirst'
<1> USE RecorderAssumption DEF IInv
<1>1. CASE Tick
    BY <1>1 DEF Tick, UnlinkedFirst, InsertPending, TypeOK, Locals, Rows, Idle, At
<1>2. ASSUME NEW t \in Thread, NEW r \in Record, Append(t, r) PROVE UnlinkedFirst'
    BY <1>2 DEF Append, UnlinkedFirst, InsertPending, TypeOK, Locals, Rows, Idle, At
<1>3. ASSUME NEW t \in Thread, WriteTemp(t) PROVE UnlinkedFirst'
    BY <1>3 DEF WriteTemp, UnlinkedFirst, InsertPending, TypeOK, Locals, Rows, Idle, At
<1>4. ASSUME NEW t \in Thread, Replace(t) PROVE UnlinkedFirst'
    BY <1>4 DEF Replace, UnlinkedFirst, InsertPending, TypeOK, Locals, Rows, Idle, At
<1>5. ASSUME NEW t \in Thread, Insert(t) PROVE UnlinkedFirst'
    BY <1>5 DEF Insert, UnlinkedFirst, InsertPending, TypeOK, Locals, Rows, Idle, At
<1>6. ASSUME NEW t \in Thread, StatementFails(t) PROVE UnlinkedFirst'
    BY <1>6 DEF StatementFails, DropTarget, UnlinkedFirst, InsertPending, TypeOK, Locals, Rows, Idle, At
<1>7. ASSUME NEW t \in Thread, UnlinkFails(t) PROVE UnlinkedFirst'
    <2>1. used'.lost # 0
        BY <1>7 DEF UnlinkFails, TypeOK
    <2> QED BY <2>1 DEF UnlinkedFirst
<1>8. ASSUME NEW t \in Thread, SelectExpired(t) PROVE UnlinkedFirst'
    BY <1>8, SelectedAreRows DEF SelectExpired, UnlinkedFirst, InsertPending, TypeOK, Locals, Rows, Idle, At
<1>9. ASSUME NEW t \in Thread, DropExpired(t) PROVE UnlinkedFirst'
    BY <1>9 DEF DropExpired, Unlink, UnlinkedFirst, InsertPending, TypeOK, Locals, Rows, Idle, At
<1>10. ASSUME NEW t \in Thread, DeleteExpired(t) PROVE UnlinkedFirst'
    BY <1>10 DEF DeleteExpired, UnlinkedFirst, InsertPending, TypeOK, Locals, Rows, Idle, At
<1>11. ASSUME NEW t \in Thread, SelectRows(t) PROVE UnlinkedFirst'
    BY <1>11, SelectedAreRows DEF SelectRows, UnlinkedFirst, InsertPending, TypeOK, Locals, Rows, Idle, At
<1>12. ASSUME NEW t \in Thread, DropRows(t) PROVE UnlinkedFirst'
    BY <1>12 DEF DropRows, Unlink, UnlinkedFirst, InsertPending, TypeOK, Locals, Rows, Idle, At
<1>13. ASSUME NEW t \in Thread, DeleteRows(t) PROVE UnlinkedFirst'
    BY <1>13 DEF DeleteRows, Without, UnlinkedFirst, InsertPending, TypeOK, Locals, Rows, Idle, At
<1>14. ASSUME NEW t \in Thread, Purge(t) PROVE UnlinkedFirst'
    BY <1>14 DEF Purge, UnlinkedFirst, InsertPending, TypeOK, Locals, Rows, Idle, At
<1>15. ASSUME NEW t \in Thread, PurgeSelect(t) PROVE UnlinkedFirst'
    BY <1>15 DEF PurgeSelect, UnlinkedFirst, InsertPending, TypeOK, Locals, Rows, Idle, At
<1>16. ASSUME NEW t \in Thread, PurgeDelete(t) PROVE UnlinkedFirst'
    BY <1>16 DEF PurgeDelete, UnlinkedFirst, InsertPending, TypeOK, Locals, Rows, Idle, At
<1>17. ASSUME NEW t \in Thread, PurgeDrop(t) PROVE UnlinkedFirst'
    <2>1. files' \subseteq files /\ UNCHANGED <<table, used>>
        BY <1>17 DEF PurgeDrop, Unlink
    <2>2. \A u \in Thread \ {t} : thread'[u] = thread[u]
        BY <1>17 DEF PurgeDrop, Unlink, TypeOK
    <2>3. thread'[t].pc \in {"purgeDrop", "glob"} /\ thread'[t].gone = thread[t].gone
        BY <1>17 DEF PurgeDrop, Unlink, TypeOK, Locals, At
    <2> QED BY <2>1, <2>2, <2>3 DEF UnlinkedFirst
<1>18. ASSUME NEW t \in Thread, Glob(t) PROVE UnlinkedFirst'
    BY <1>18 DEF Glob, Globbed, UnlinkedFirst, InsertPending, TypeOK, Locals, Rows, Idle, At
<1>19. ASSUME NEW t \in Thread, GlobDrop(t) PROVE UnlinkedFirst'
    <2>1. files' \subseteq files /\ UNCHANGED <<table, fresh, used>>
        BY <1>19 DEF GlobDrop, Unlink
    <2>2. \A u \in Thread \ {t} : thread'[u] = thread[u]
        BY <1>19 DEF GlobDrop, Unlink, TypeOK
    <2>3. /\ thread'[t].pc \in {"globDrop", "expired"}
          /\ thread'[t].rec \in {thread[t].rec, NoRecord}
          /\ thread'[t].ids \subseteq thread[t].ids
          /\ thread'[t].gone \subseteq thread[t].gone
        <3>1. CASE Unlink(t, "globDrop", "globDrop")
            BY <3>1 DEF Unlink, TypeOK, Locals, At
        <3>2. CASE ~Unlink(t, "globDrop", "globDrop")
            <4>1. thread'[t] = [Idle EXCEPT !.pc = "expired", !.now = clock]
                BY <1>19, <3>2 DEF GlobDrop, TypeOK
            <4> QED BY <4>1 DEF Idle
        <3> QED BY <3>1, <3>2
    <2> QED BY <2>1, <2>2, <2>3 DEF UnlinkedFirst, InsertPending, TypeOK, Locals, Rows, Idle, At
<1>20. ASSUME NEW t \in Thread, Crash(t) PROVE UnlinkedFirst'
    BY <1>20 DEF Crash, UnlinkedFirst, InsertPending, TypeOK, Locals, Rows, Idle, At
<1>21. CASE UNCHANGED vars
    BY <1>21 DEF vars, UnlinkedFirst, InsertPending, TypeOK, Locals, Rows, Idle, At
<1> QED BY <1>1, <1>2, <1>3, <1>4, <1>5, <1>6, <1>7, <1>8, <1>9, <1>10, <1>11, <1>12, <1>13, <1>14, <1>15, <1>16, <1>17, <1>18, <1>19, <1>20, <1>21 DEF Next

\* A step that leaves a file without a row leaves someone who will take care of it.
LEMMA OrphansStep == ASSUME IInv, [Next]_vars PROVE OrphansAwaited'
<1> USE RecorderAssumption DEF IInv
<1>1. CASE Tick
    BY <1>1 DEF Tick, OrphansAwaited, Awaited, UnlinkedFirst, InsertPending, TypeOK, Locals, Rows, Idle, At
<1>2. ASSUME NEW t \in Thread, NEW r \in Record, Append(t, r) PROVE OrphansAwaited'
    BY <1>2 DEF Append, OrphansAwaited, Awaited, UnlinkedFirst, InsertPending, TypeOK, Locals, Rows, Idle, At
<1>3. ASSUME NEW t \in Thread, WriteTemp(t) PROVE OrphansAwaited'
    BY <1>3 DEF WriteTemp, OrphansAwaited, Awaited, UnlinkedFirst, InsertPending, TypeOK, Locals, Rows, Idle, At
<1>4. ASSUME NEW t \in Thread, Replace(t) PROVE OrphansAwaited'
    BY <1>4 DEF Replace, OrphansAwaited, Awaited, UnlinkedFirst, InsertPending, TypeOK, Locals, Rows, Idle, At
<1>5. ASSUME NEW t \in Thread, Insert(t) PROVE OrphansAwaited'
    BY <1>5 DEF Insert, OrphansAwaited, Awaited, UnlinkedFirst, InsertPending, TypeOK, Locals, Rows, Idle, At
<1>6. ASSUME NEW t \in Thread, StatementFails(t) PROVE OrphansAwaited'
    BY <1>6 DEF StatementFails, DropTarget, OrphansAwaited, Awaited, UnlinkedFirst, InsertPending, TypeOK, Locals, Rows, Idle, At
<1>7. ASSUME NEW t \in Thread, UnlinkFails(t) PROVE OrphansAwaited'
    <2>1. used'.lost # 0
        BY <1>7 DEF UnlinkFails, TypeOK
    <2> QED BY <2>1 DEF OrphansAwaited
<1>8. ASSUME NEW t \in Thread, SelectExpired(t) PROVE OrphansAwaited'
    BY <1>8, SelectedAreRows DEF SelectExpired, OrphansAwaited, Awaited, UnlinkedFirst, InsertPending, TypeOK, Locals, Rows, Idle, At
<1>9. ASSUME NEW t \in Thread, DropExpired(t) PROVE OrphansAwaited'
    BY <1>9 DEF DropExpired, Unlink, OrphansAwaited, Awaited, UnlinkedFirst, InsertPending, TypeOK, Locals, Rows, Idle, At
<1>10. ASSUME NEW t \in Thread, DeleteExpired(t) PROVE OrphansAwaited'
    BY <1>10 DEF DeleteExpired, OrphansAwaited, Awaited, UnlinkedFirst, InsertPending, TypeOK, Locals, Rows, Idle, At
<1>11. ASSUME NEW t \in Thread, SelectRows(t) PROVE OrphansAwaited'
    BY <1>11, SelectedAreRows DEF SelectRows, OrphansAwaited, Awaited, UnlinkedFirst, InsertPending, TypeOK, Locals, Rows, Idle, At
<1>12. ASSUME NEW t \in Thread, DropRows(t) PROVE OrphansAwaited'
    BY <1>12 DEF DropRows, Unlink, OrphansAwaited, Awaited, UnlinkedFirst, InsertPending, TypeOK, Locals, Rows, Idle, At
<1>13. ASSUME NEW t \in Thread, DeleteRows(t) PROVE OrphansAwaited'
    BY <1>13 DEF DeleteRows, Without, OrphansAwaited, Awaited, UnlinkedFirst, InsertPending, TypeOK, Locals, Rows, Idle, At
<1>14. ASSUME NEW t \in Thread, Purge(t) PROVE OrphansAwaited'
    BY <1>14 DEF Purge, OrphansAwaited, Awaited, UnlinkedFirst, InsertPending, TypeOK, Locals, Rows, Idle, At
<1>15. ASSUME NEW t \in Thread, PurgeSelect(t) PROVE OrphansAwaited'
    BY <1>15 DEF PurgeSelect, OrphansAwaited, Awaited, UnlinkedFirst, InsertPending, TypeOK, Locals, Rows, Idle, At
<1>16. ASSUME NEW t \in Thread, PurgeDelete(t) PROVE OrphansAwaited'
    BY <1>16 DEF PurgeDelete, OrphansAwaited, Awaited, UnlinkedFirst, InsertPending, TypeOK, Locals, Rows, Idle, At
<1>17. ASSUME NEW t \in Thread, PurgeDrop(t) PROVE OrphansAwaited'
    BY <1>17 DEF PurgeDrop, Unlink, OrphansAwaited, Awaited, UnlinkedFirst, InsertPending, TypeOK, Locals, Rows, Idle, At
<1>18. ASSUME NEW t \in Thread, Glob(t) PROVE OrphansAwaited'
    BY <1>18 DEF Glob, Globbed, OrphansAwaited, Awaited, UnlinkedFirst, InsertPending, TypeOK, Locals, Rows, Idle, At
<1>19. ASSUME NEW t \in Thread, GlobDrop(t) PROVE OrphansAwaited'
    BY <1>19 DEF GlobDrop, Unlink, OrphansAwaited, Awaited, UnlinkedFirst, InsertPending, TypeOK, Locals, Rows, Idle, At
<1>20. ASSUME NEW t \in Thread, Crash(t) PROVE OrphansAwaited'
    BY <1>20 DEF Crash, OrphansAwaited, Awaited, UnlinkedFirst, InsertPending, TypeOK, Locals, Rows, Idle, At
<1>21. CASE UNCHANGED vars
    BY <1>21 DEF vars, OrphansAwaited, Awaited, UnlinkedFirst, InsertPending, TypeOK, Locals, Rows, Idle, At
<1> QED BY <1>1, <1>2, <1>3, <1>4, <1>5, <1>6, <1>7, <1>8, <1>9, <1>10, <1>11, <1>12, <1>13, <1>14, <1>15, <1>16, <1>17, <1>18, <1>19, <1>20, <1>21 DEF Next

-----------------------------------------------------------------------------

\* The recorder's types, and what keeps its files findable, hold in every
\* reachable state (append_flight_record, _evict_flight_records,
\* purge_flight_recorder).
THEOREM RecorderInvariant == Spec => []IInv
<1>1. IInv /\ [Next]_vars => IInv'
    BY TypeStep, FreshStep, PendingStep, UnlinkedStep, OrphansStep DEF IInv
<1> QED BY InitIInv, <1>1, PTL DEF Spec

\* Every variable keeps its type; one write transaction is open at a time and
\* belongs to an eviction (store.py:622).
THEOREM RecorderTypes == Spec => []TypeOK
BY RecorderInvariant, PTL DEF IInv

\* Without crashes every file has its row, is about to get it, or is about to
\* be purged, for any number of threads that append, evict, purge and fail.
THEOREM NoFileIsOrphaned == Spec => []NoOrphanFile
<1>1. IInv => NoOrphanFile
    BY DEF IInv, OrphansAwaited, Awaited, NoOrphanFile, Purging, At
<1> QED BY RecorderInvariant, <1>1, PTL

-----------------------------------------------------------------------------
(* Rows without files                                                       *)

\* What a thread holds at each point of an eviction, when nothing is purged and
\* nothing fails: it selects before it unlinks, and it unlinks nothing else.
Evictions ==
    used.purges = 0 /\ used.faults = 0 =>
        \A t \in Thread :
            /\ thread[t].pc \notin Purging
            /\ thread[t].pc = "insert" => thread[t].rec \in files
            /\ thread[t].pc \in {"idle", "write", "replace", "insert", "expired"}
                => thread[t].ids = {} /\ thread[t].gone = {}
            /\ thread[t].pc \in {"dropExpired", "deleteExpired"} => thread[t].gone = {}
            /\ thread[t].pc = "rows" => thread[t].ids = thread[t].gone
            /\ thread[t].pc \in {"dropExpired", "dropRows"} => thread[t].todo \subseteq thread[t].ids

RowsInv == IInv /\ Evictions /\ RowsHaveFiles

\* No thread holds anything at the start.
LEMMA InitRowsInv == Init => RowsInv
BY InitIInv DEF RowsInv, Init, Evictions, RowsHaveFiles, Idle, Purging, Rows

\* Each step keeps what evictions hold.
LEMMA EvictionsStep == ASSUME RowsInv, [Next]_vars PROVE Evictions'
<1> USE RecorderAssumption DEF RowsInv, IInv
<1>1. CASE Tick
    BY <1>1 DEF Tick, Evictions, InsertPending, TypeOK, Locals, Rows, Idle, Purging, At
<1>2. ASSUME NEW t \in Thread, NEW r \in Record, Append(t, r) PROVE Evictions'
    BY <1>2 DEF Append, Evictions, InsertPending, TypeOK, Locals, Rows, Idle, Purging, At
<1>3. ASSUME NEW t \in Thread, WriteTemp(t) PROVE Evictions'
    BY <1>3 DEF WriteTemp, Evictions, InsertPending, TypeOK, Locals, Rows, Idle, Purging, At
<1>4. ASSUME NEW t \in Thread, Replace(t) PROVE Evictions'
    BY <1>4 DEF Replace, Evictions, InsertPending, TypeOK, Locals, Rows, Idle, Purging, At
<1>5. ASSUME NEW t \in Thread, Insert(t) PROVE Evictions'
    BY <1>5 DEF Insert, Evictions, InsertPending, TypeOK, Locals, Rows, Idle, Purging, At
<1>6. ASSUME NEW t \in Thread, StatementFails(t) PROVE Evictions'
    <2>1. used'.faults # 0
        BY <1>6 DEF StatementFails, TypeOK
    <2> QED BY <2>1 DEF Evictions
<1>7. ASSUME NEW t \in Thread, UnlinkFails(t) PROVE Evictions'
    <2>1. used'.faults # 0
        BY <1>7 DEF UnlinkFails, TypeOK
    <2> QED BY <2>1 DEF Evictions
<1>8. ASSUME NEW t \in Thread, SelectExpired(t) PROVE Evictions'
    BY <1>8, SelectedAreRows DEF SelectExpired, Evictions, InsertPending, TypeOK, Locals, Rows, Idle, Purging, At
<1>9. ASSUME NEW t \in Thread, DropExpired(t) PROVE Evictions'
    BY <1>9 DEF DropExpired, Unlink, Evictions, InsertPending, TypeOK, Locals, Rows, Idle, Purging, At
<1>10. ASSUME NEW t \in Thread, DeleteExpired(t) PROVE Evictions'
    BY <1>10 DEF DeleteExpired, Evictions, InsertPending, TypeOK, Locals, Rows, Idle, Purging, At
<1>11. ASSUME NEW t \in Thread, SelectRows(t) PROVE Evictions'
    BY <1>11, SelectedAreRows DEF SelectRows, Evictions, InsertPending, TypeOK, Locals, Rows, Idle, Purging, At
<1>12. ASSUME NEW t \in Thread, DropRows(t) PROVE Evictions'
    BY <1>12 DEF DropRows, Unlink, Evictions, InsertPending, TypeOK, Locals, Rows, Idle, Purging, At
<1>13. ASSUME NEW t \in Thread, DeleteRows(t) PROVE Evictions'
    BY <1>13 DEF DeleteRows, Without, Evictions, InsertPending, TypeOK, Locals, Rows, Idle, Purging, At
<1>14. ASSUME NEW t \in Thread, Purge(t) PROVE Evictions'
    <2>1. used'.purges # 0
        BY <1>14 DEF Purge, TypeOK
    <2> QED BY <2>1 DEF Evictions
<1>15. ASSUME NEW t \in Thread, PurgeSelect(t) PROVE Evictions'
    <2>1. used' = used /\ thread[t].pc \in Purging
        BY <1>15 DEF PurgeSelect, At, Purging
    <2> QED BY <2>1 DEF Evictions, Evictions
<1>16. ASSUME NEW t \in Thread, PurgeDelete(t) PROVE Evictions'
    <2>1. used' = used /\ thread[t].pc \in Purging
        BY <1>16 DEF PurgeDelete, At, Purging
    <2> QED BY <2>1 DEF Evictions, Evictions
<1>17. ASSUME NEW t \in Thread, PurgeDrop(t) PROVE Evictions'
    <2>1. used' = used /\ thread[t].pc \in Purging
        BY <1>17 DEF PurgeDrop, Unlink, At, Purging
    <2> QED BY <2>1 DEF Evictions, Evictions
<1>18. ASSUME NEW t \in Thread, Glob(t) PROVE Evictions'
    <2>1. used' = used /\ thread[t].pc \in Purging
        BY <1>18 DEF Glob, Globbed, At, Purging
    <2> QED BY <2>1 DEF Evictions, Evictions
<1>19. ASSUME NEW t \in Thread, GlobDrop(t) PROVE Evictions'
    <2>1. used' = used /\ thread[t].pc \in Purging
        BY <1>19 DEF GlobDrop, Unlink, At, Purging
    <2> QED BY <2>1 DEF Evictions, Evictions
<1>20. ASSUME NEW t \in Thread, Crash(t) PROVE Evictions'
    <2>1. used'.faults # 0
        BY <1>20 DEF Crash, TypeOK
    <2> QED BY <2>1 DEF Evictions
<1>21. CASE UNCHANGED vars
    BY <1>21 DEF vars, Evictions, InsertPending, TypeOK, Locals, Rows, Idle, Purging, At
<1> QED BY <1>1, <1>2, <1>3, <1>4, <1>5, <1>6, <1>7, <1>8, <1>9, <1>10, <1>11, <1>12, <1>13, <1>14, <1>15, <1>16, <1>17, <1>18, <1>19, <1>20, <1>21 DEF Next

\* A row loses its file to an eviction that holds it until the row goes too.
LEMMA RowsHaveFilesStep == ASSUME RowsInv, [Next]_vars PROVE RowsHaveFiles'
<1> USE RecorderAssumption DEF RowsInv, IInv
<1>1. CASE Tick
    BY <1>1 DEF Tick, RowsHaveFiles, Evictions, TypeOK, Locals, Rows, Idle, Purging, At
<1>2. ASSUME NEW t \in Thread, NEW r \in Record, Append(t, r) PROVE RowsHaveFiles'
    BY <1>2 DEF Append, RowsHaveFiles, Evictions, TypeOK, Locals, Rows, Idle, Purging, At
<1>3. ASSUME NEW t \in Thread, WriteTemp(t) PROVE RowsHaveFiles'
    BY <1>3 DEF WriteTemp, RowsHaveFiles, Evictions, TypeOK, Locals, Rows, Idle, Purging, At
<1>4. ASSUME NEW t \in Thread, Replace(t) PROVE RowsHaveFiles'
    BY <1>4 DEF Replace, RowsHaveFiles, Evictions, TypeOK, Locals, Rows, Idle, Purging, At
<1>5. ASSUME NEW t \in Thread, Insert(t) PROVE RowsHaveFiles'
    BY <1>5 DEF Insert, RowsHaveFiles, Evictions, TypeOK, Locals, Rows, Idle, Purging, At
<1>6. ASSUME NEW t \in Thread, StatementFails(t) PROVE RowsHaveFiles'
    <2>1. used'.faults # 0
        BY <1>6 DEF StatementFails, TypeOK
    <2> QED BY <2>1 DEF RowsHaveFiles
<1>7. ASSUME NEW t \in Thread, UnlinkFails(t) PROVE RowsHaveFiles'
    <2>1. used'.faults # 0
        BY <1>7 DEF UnlinkFails, TypeOK
    <2> QED BY <2>1 DEF RowsHaveFiles
<1>8. ASSUME NEW t \in Thread, SelectExpired(t) PROVE RowsHaveFiles'
    BY <1>8, SelectedAreRows DEF SelectExpired, RowsHaveFiles, Evictions, TypeOK, Locals, Rows, Idle, Purging, At
<1>9. ASSUME NEW t \in Thread, DropExpired(t) PROVE RowsHaveFiles'
    BY <1>9 DEF DropExpired, Unlink, RowsHaveFiles, Evictions, TypeOK, Locals, Rows, Idle, Purging, At
<1>10. ASSUME NEW t \in Thread, DeleteExpired(t) PROVE RowsHaveFiles'
    BY <1>10 DEF DeleteExpired, RowsHaveFiles, Evictions, TypeOK, Locals, Rows, Idle, Purging, At
<1>11. ASSUME NEW t \in Thread, SelectRows(t) PROVE RowsHaveFiles'
    BY <1>11, SelectedAreRows DEF SelectRows, RowsHaveFiles, Evictions, TypeOK, Locals, Rows, Idle, Purging, At
<1>12. ASSUME NEW t \in Thread, DropRows(t) PROVE RowsHaveFiles'
    BY <1>12 DEF DropRows, Unlink, RowsHaveFiles, Evictions, TypeOK, Locals, Rows, Idle, Purging, At
<1>13. ASSUME NEW t \in Thread, DeleteRows(t) PROVE RowsHaveFiles'
    BY <1>13 DEF DeleteRows, Without, RowsHaveFiles, Evictions, TypeOK, Locals, Rows, Idle, Purging, At
<1>14. ASSUME NEW t \in Thread, Purge(t) PROVE RowsHaveFiles'
    <2>1. used'.purges # 0
        BY <1>14 DEF Purge, TypeOK
    <2> QED BY <2>1 DEF RowsHaveFiles
<1>15. ASSUME NEW t \in Thread, PurgeSelect(t) PROVE RowsHaveFiles'
    <2>1. used' = used /\ thread[t].pc \in Purging
        BY <1>15 DEF PurgeSelect, At, Purging
    <2> QED BY <2>1 DEF RowsHaveFiles, Evictions
<1>16. ASSUME NEW t \in Thread, PurgeDelete(t) PROVE RowsHaveFiles'
    <2>1. used' = used /\ thread[t].pc \in Purging
        BY <1>16 DEF PurgeDelete, At, Purging
    <2> QED BY <2>1 DEF RowsHaveFiles, Evictions
<1>17. ASSUME NEW t \in Thread, PurgeDrop(t) PROVE RowsHaveFiles'
    <2>1. used' = used /\ thread[t].pc \in Purging
        BY <1>17 DEF PurgeDrop, Unlink, At, Purging
    <2> QED BY <2>1 DEF RowsHaveFiles, Evictions
<1>18. ASSUME NEW t \in Thread, Glob(t) PROVE RowsHaveFiles'
    <2>1. used' = used /\ thread[t].pc \in Purging
        BY <1>18 DEF Glob, Globbed, At, Purging
    <2> QED BY <2>1 DEF RowsHaveFiles, Evictions
<1>19. ASSUME NEW t \in Thread, GlobDrop(t) PROVE RowsHaveFiles'
    <2>1. used' = used /\ thread[t].pc \in Purging
        BY <1>19 DEF GlobDrop, Unlink, At, Purging
    <2> QED BY <2>1 DEF RowsHaveFiles, Evictions
<1>20. ASSUME NEW t \in Thread, Crash(t) PROVE RowsHaveFiles'
    <2>1. used'.faults # 0
        BY <1>20 DEF Crash, TypeOK
    <2> QED BY <2>1 DEF RowsHaveFiles
<1>21. CASE UNCHANGED vars
    BY <1>21 DEF vars, RowsHaveFiles, Evictions, TypeOK, Locals, Rows, Idle, Purging, At
<1> QED BY <1>1, <1>2, <1>3, <1>4, <1>5, <1>6, <1>7, <1>8, <1>9, <1>10, <1>11, <1>12, <1>13, <1>14, <1>15, <1>16, <1>17, <1>18, <1>19, <1>20, <1>21 DEF Next

\* Without purges and failures a row lost its file only to an eviction that will
\* delete the row, for any number of threads and processes.
THEOREM NoRowIsStripped == Spec => []RowsHaveFiles
<1>1. RowsInv /\ [Next]_vars => RowsInv'
    BY TypeStep, FreshStep, PendingStep, UnlinkedStep, OrphansStep,
       EvictionsStep, RowsHaveFilesStep DEF RowsInv, IInv
<1> QED BY InitRowsInv, <1>1, PTL DEF Spec, RowsInv

-----------------------------------------------------------------------------
(* What a purge erases                                                      *)

\* What a purge saw when it was asked for is listed until it is unlinked, and no
\* append brings it back: an append under way is writing something that was not seen.
SeenListed ==
    /\ \A r \in fresh : r \notin temps /\ \A t \in Thread : r \notin thread[t].seen
    /\ \A u \in Thread : thread[u].pc \in {"write", "replace"} =>
           /\ thread[u].rec \notin files
           /\ \A t \in Thread : thread[u].rec \notin thread[t].seen
    /\ \A t \in Thread : At(t, "globDrop") => thread[t].seen \cap files \subseteq thread[t].todo

\* Each step keeps it.
LEMMA SeenStep == ASSUME IInv, SeenListed, [Next]_vars PROVE SeenListed'
<1> USE RecorderAssumption DEF IInv
<1>1. CASE Tick
    BY <1>1 DEF Tick, SeenListed, FreshUnused, InsertPending, TypeOK,
        Locals, Rows, Idle, At
<1>2. ASSUME NEW t \in Thread, NEW r \in Record, Append(t, r) PROVE SeenListed'
    BY <1>2 DEF Append, SeenListed, FreshUnused, InsertPending, TypeOK,
        Locals, Rows, Idle, At
<1>3. ASSUME NEW t \in Thread, WriteTemp(t) PROVE SeenListed'
    BY <1>3 DEF WriteTemp, SeenListed, FreshUnused, InsertPending, TypeOK,
        Locals, Rows, Idle, At
<1>4. ASSUME NEW t \in Thread, Replace(t) PROVE SeenListed'
    BY <1>4 DEF Replace, SeenListed, FreshUnused, InsertPending, TypeOK,
        Locals, Rows, Idle, At
<1>5. ASSUME NEW t \in Thread, Insert(t) PROVE SeenListed'
    BY <1>5 DEF Insert, SeenListed, FreshUnused, InsertPending, TypeOK,
        Locals, Rows, Idle, At
<1>6. ASSUME NEW t \in Thread, StatementFails(t) PROVE SeenListed'
    BY <1>6 DEF StatementFails, DropTarget, SeenListed, FreshUnused, InsertPending, TypeOK,
        Locals, Rows, Idle, At
<1>7. ASSUME NEW t \in Thread, UnlinkFails(t) PROVE SeenListed'
    BY <1>7 DEF UnlinkFails, SeenListed, FreshUnused, InsertPending, TypeOK,
        Locals, Rows, Idle, At
<1>8. ASSUME NEW t \in Thread, SelectExpired(t) PROVE SeenListed'
    BY <1>8 DEF SelectExpired, SeenListed, FreshUnused, InsertPending, TypeOK,
        Locals, Rows, Idle, At
<1>9. ASSUME NEW t \in Thread, DropExpired(t) PROVE SeenListed'
    BY <1>9 DEF DropExpired, Unlink, SeenListed, FreshUnused, InsertPending, TypeOK,
        Locals, Rows, Idle, At
<1>10. ASSUME NEW t \in Thread, DeleteExpired(t) PROVE SeenListed'
    BY <1>10 DEF DeleteExpired, SeenListed, FreshUnused, InsertPending, TypeOK,
        Locals, Rows, Idle, At
<1>11. ASSUME NEW t \in Thread, SelectRows(t) PROVE SeenListed'
    BY <1>11 DEF SelectRows, SeenListed, FreshUnused, InsertPending, TypeOK,
        Locals, Rows, Idle, At
<1>12. ASSUME NEW t \in Thread, DropRows(t) PROVE SeenListed'
    BY <1>12 DEF DropRows, Unlink, SeenListed, FreshUnused, InsertPending, TypeOK,
        Locals, Rows, Idle, At
<1>13. ASSUME NEW t \in Thread, DeleteRows(t) PROVE SeenListed'
    BY <1>13 DEF DeleteRows, SeenListed, FreshUnused, InsertPending, TypeOK,
        Locals, Rows, Idle, At
<1>14. ASSUME NEW t \in Thread, Purge(t) PROVE SeenListed'
    BY <1>14 DEF Purge, SeenListed, FreshUnused, InsertPending, TypeOK,
        Locals, Rows, Idle, At
<1>15. ASSUME NEW t \in Thread, PurgeSelect(t) PROVE SeenListed'
    BY <1>15 DEF PurgeSelect, SeenListed, FreshUnused, InsertPending, TypeOK,
        Locals, Rows, Idle, At
<1>16. ASSUME NEW t \in Thread, PurgeDelete(t) PROVE SeenListed'
    BY <1>16 DEF PurgeDelete, SeenListed, FreshUnused, InsertPending, TypeOK,
        Locals, Rows, Idle, At
<1>17. ASSUME NEW t \in Thread, PurgeDrop(t) PROVE SeenListed'
    BY <1>17 DEF PurgeDrop, Unlink, SeenListed, FreshUnused, InsertPending, TypeOK,
        Locals, Rows, Idle, At
<1>18. ASSUME NEW t \in Thread, Glob(t) PROVE SeenListed'
    BY <1>18 DEF Glob, Globbed, SeenListed, FreshUnused, InsertPending, TypeOK,
        Locals, Rows, Idle, At
<1>19. ASSUME NEW t \in Thread, GlobDrop(t) PROVE SeenListed'
    <2>1. CASE thread[t].todo = {}
        <3>1. thread' = [thread EXCEPT ![t] = [Idle EXCEPT !.pc = "expired", !.now = clock]]
              /\ UNCHANGED <<files, temps, fresh>>
            BY <1>19, <2>1 DEF GlobDrop, Unlink
        <3> QED BY <3>1 DEF SeenListed, TypeOK, Locals, Idle, At
    <2>2. ASSUME NEW r \in thread[t].todo, files' = files \ {r},
                 thread' = [thread EXCEPT ![t].todo = @ \ {r}], UNCHANGED <<temps, fresh>>
          PROVE  SeenListed'
        BY <2>2 DEF SeenListed, TypeOK, Locals, At
    <2> QED BY <1>19, <2>1, <2>2 DEF GlobDrop, Unlink
<1>20. ASSUME NEW t \in Thread, Crash(t) PROVE SeenListed'
    BY <1>20 DEF Crash, SeenListed, FreshUnused, InsertPending, TypeOK,
        Locals, Rows, Idle, At
<1>21. CASE UNCHANGED vars
    BY <1>21 DEF vars, SeenListed, At
<1> QED BY <1>1, <1>2, <1>3, <1>4, <1>5, <1>6, <1>7, <1>8, <1>9, <1>10, <1>11, <1>12, <1>13,
           <1>14, <1>15, <1>16, <1>17, <1>18, <1>19, <1>20, <1>21 DEF Next

\* When a purge ends, none of the *.enc files is left that existed when it was
\* asked for, whoever appends, evicts, fails or dies meanwhile: the rows it read
\* and the directory it lists afterwards cover them together
\* (purge_flight_recorder).
THEOREM PurgesErase == Spec => PurgeErases
<1> DEFINE Erases == \A t \in Thread :
               (At(t, "globDrop") /\ thread'[t].pc = "expired")
                   => thread[t].seen \cap files = {}
<1>1. Init => SeenListed
    BY RecorderAssumption DEF Init, SeenListed, Idle, At
<1>2. IInv /\ SeenListed /\ [Next]_vars => SeenListed'
    BY SeenStep
<1>3. IInv /\ SeenListed /\ [Next]_vars => Erases
    <2> SUFFICES ASSUME IInv, SeenListed, [Next]_vars, NEW t \in Thread,
                        At(t, "globDrop"), thread'[t].pc = "expired"
                 PROVE  thread[t].todo = {}
        BY DEF SeenListed
    <2>0. thread \in [Thread -> Locals]
        BY DEF IInv, TypeOK
    <2>1. ASSUME NEW u \in Thread, GlobDrop(u) PROVE thread[t].todo = {}
        BY <2>0, <2>1 DEF GlobDrop, Unlink, At, Locals
    <2>2. ASSUME NEW u \in Thread, NEW r \in Record, Append(u, r) PROVE FALSE
        BY <2>0, <2>2 DEF Append, Idle, At
    <2>3. ASSUME NEW u \in Thread,
                 \/ WriteTemp(u) \/ Replace(u) \/ Insert(u) \/ SelectExpired(u)
                 \/ DeleteExpired(u) \/ SelectRows(u) \/ PurgeSelect(u) \/ PurgeDelete(u) \/ Glob(u)
          PROVE  FALSE
        BY <2>0, <2>3 DEF WriteTemp, Replace, Insert, SelectExpired, DeleteExpired, SelectRows,
            PurgeSelect, PurgeDelete, Glob, At, Locals
    <2>4. ASSUME NEW u \in Thread,
                 \/ StatementFails(u) \/ UnlinkFails(u) \/ DeleteRows(u) \/ Purge(u) \/ Crash(u)
          PROVE  FALSE
        BY <2>0, <2>4 DEF StatementFails, UnlinkFails, DeleteRows, Purge, Crash, Idle, At, Locals
    <2>5. ASSUME NEW u \in Thread, NEW from \in {"dropExpired", "dropRows", "purgeDrop"},
                 NEW pc \in Pc \ {"expired"}, Unlink(u, from, pc)
          PROVE  FALSE
        BY <2>0, <2>5 DEF Unlink, At, Locals
    <2>6. ASSUME NEW u \in Thread, DropExpired(u) \/ DropRows(u) \/ PurgeDrop(u)
          PROVE  FALSE
        BY <2>5, <2>6 DEF DropExpired, DropRows, PurgeDrop, Pc
    <2> QED BY <2>0, <2>1, <2>2, <2>3, <2>4, <2>6 DEF Next, Tick, vars, At
<1>4. PurgeErases <=> [][Erases]_vars
    BY DEF PurgeErases, PurgeEnds
<1> HIDE DEF Erases
<1> QED BY <1>1, <1>2, <1>3, <1>4, RecorderInvariant, PTL DEF Spec

-----------------------------------------------------------------------------
(* The bytes of a set of records.  Sums are folds over finite sets; that    *)
(* every set of naturals has a least element is the induction they need.    *)

Less == {ss \in Nat \X Nat : ss[1] < ss[2]}

LEMMA LeastNumber ==
    ASSUME NEW T \in SUBSET Nat, T # {}
    PROVE  \E n \in T : \A m \in T : n <= m
<1>1. OpToRel(<, Nat) = Less
    BY Zenon DEF OpToRel, Less
<1>2. IsWellFoundedOn(Less, Nat)
    BY <1>1, NatLessThanWellFounded, Zenon
<1>3. \E n \in T : \A m \in T : ~(<<m, n>> \in Less)
    BY <1>2, WFMin, Zenon
<1>4. PICK n \in T : \A m \in T : ~(<<m, n>> \in Less)
    BY <1>3
<1>5. \A m \in T : ~(m < n)
    BY <1>4 DEF Less
<1> QED BY <1>5

\* A set of finite sets that is not empty has a smallest member.
LEMMA SmallestSet ==
    ASSUME NEW C, C # {}, \A s \in C : IsFiniteSet(s)
    PROVE  \E s \in C : \A u \in C : Cardinality(s) <= Cardinality(u)
<1> DEFINE T == {Cardinality(s) : s \in C}
<1>1. T \in SUBSET Nat /\ T # {}
    BY FS_CardinalityType
<1>2. PICK n \in T : \A m \in T : n <= m
    BY <1>1, LeastNumber
<1> QED BY <1>2

LEMMA RecordsFinite ==
    ASSUME NEW s \in SUBSET Record
    PROVE  /\ IsFiniteSet(s) /\ Cardinality(s) \in Nat
           /\ \A x \in s : IsFiniteSet(s \ {x}) /\ Cardinality(s \ {x}) = Cardinality(s) - 1
                           /\ Cardinality(s) >= 1
<1>1. IsFiniteSet(s) /\ Cardinality(s) \in Nat
    BY RecorderAssumption, FS_Subset, FS_CardinalityType
<1>2. ASSUME NEW x \in s
      PROVE  IsFiniteSet(s \ {x}) /\ Cardinality(s \ {x}) = Cardinality(s) - 1
             /\ Cardinality(s) >= 1
    <2>1. IsFiniteSet(s \ {x}) /\ Cardinality(s \ {x}) = Cardinality(s) - 1
        BY <1>1, FS_RemoveElement
    <2>2. Cardinality(s \ {x}) \in Nat
        BY <2>1, FS_CardinalityType
    <2> QED BY <1>1, <2>1, <2>2
<1> QED BY <1>1, <1>2

\* The fold, one record at a time
Picked(s) == CHOOSE x \in s : TRUE
Step(s, f) == IF s = {} THEN 0 ELSE Size[Picked(s)] + f[s \ {Picked(s)}]
Sums(S) == CHOOSE f : f = [s \in SUBSET S |-> Step(s, f)]

LEMMA BytesFold == ASSUME NEW S PROVE Bytes(S) = Sums(S)[S]
BY Zenon DEF Bytes, MapThenSumSet, MapThenFoldSet, Sums, Step, Picked

LEMMA PickedIn ==
    ASSUME NEW s, s # {}
    PROVE  Picked(s) \in s
BY DEF Picked

\* There is such a function on the small sets, then on larger ones.
LEMMA SumsExist ==
    ASSUME NEW S \in SUBSET Record
    PROVE  Sums(S) = [s \in SUBSET S |-> Step(s, Sums(S))]
<1> DEFINE upto(n) == {s \in SUBSET S : Cardinality(s) <= n}
           fits(n) == \E f : f = [s \in upto(n) |-> Step(s, f)]
           bad == {n \in Nat : ~fits(n)}
<1>1. bad = {}
    <2> SUFFICES ASSUME bad # {} PROVE FALSE
        OBVIOUS
    <2>1. PICK n \in bad : \A m \in bad : n <= m
        BY LeastNumber
    <2>2. CASE n = 0
        <3>1. upto(0) = {{}}
            <4>1. ASSUME NEW s \in upto(0) PROVE s = {}
                <5>1. IsFiniteSet(s) /\ Cardinality(s) \in Nat /\ Cardinality(s) <= 0
                    BY RecordsFinite
                <5> QED BY <5>1, FS_EmptySet
            <4>2. {} \in upto(0)
                BY FS_EmptySet
            <4> QED BY <4>1, <4>2
        <3> DEFINE f == [s \in upto(0) |-> 0]
        <3>2. f = [s \in upto(0) |-> Step(s, f)]
            BY <3>1 DEF Step
        <3>3. fits(0)
            <4> HIDE DEF f
            <4> QED BY <3>2
        <3> QED BY <2>1, <2>2, <3>3
    <2>3. CASE n # 0
        <3>1. n \in Nat /\ n - 1 \in Nat /\ n - 1 \notin bad
            <4>1. n \in Nat
                BY <2>1
            <4>2. n - 1 \in Nat /\ n - 1 < n
                BY <4>1, <2>3
            <4>3. n - 1 \notin bad
                <5> HIDE DEF bad
                <5> QED BY <2>1, <4>1, <4>2
            <4> QED BY <4>1, <4>2, <4>3
        <3>2. PICK f : f = [s \in upto(n - 1) |-> Step(s, f)]
            BY <3>1
        <3> DEFINE g == [s \in upto(n) |-> Step(s, f)]
        <3>3. upto(n - 1) \subseteq upto(n)
            BY <3>1, RecordsFinite
        <3>4. \A s \in upto(n - 1) : g[s] = f[s]
            BY <3>2, <3>3, Zenon
        <3>5. ASSUME NEW s \in upto(n) PROVE Step(s, f) = Step(s, g)
            <4>1. CASE s = {}
                BY <4>1 DEF Step
            <4>2. CASE s # {}
                <5>1. Picked(s) \in s
                    BY <4>2, PickedIn
                <5>2. s \ {Picked(s)} \in upto(n - 1)
                    BY <3>1, <5>1, RecordsFinite
                <5>3. g[s \ {Picked(s)}] = f[s \ {Picked(s)}]
                    BY <3>4, <5>2, Zenon
                <5> QED BY <4>2, <5>3 DEF Step
            <4> QED BY <4>1, <4>2
        <3>6. g = [s \in upto(n) |-> Step(s, g)]
            BY <3>5, Zenon
        <3>7. fits(n)
            <4> HIDE DEF g
            <4> QED BY <3>6
        <3> QED BY <2>1, <3>7
    <2> QED BY <2>2, <2>3
<1>2. IsFiniteSet(S) /\ Cardinality(S) \in Nat
    BY RecordsFinite
<1>3. upto(Cardinality(S)) = SUBSET S
    BY <1>2, FS_Subset
<1>4. fits(Cardinality(S))
    BY <1>1, <1>2
<1>5. \E f : f = [s \in SUBSET S |-> Step(s, f)]
    BY <1>3, <1>4
<1> QED BY <1>5 DEF Sums

\* A record's sum does not depend on the set the fold began with.
LEMMA SumsAgree ==
    ASSUME NEW S \in SUBSET Record, NEW U \in SUBSET S
    PROVE  \A s \in SUBSET U : Sums(S)[s] = Sums(U)[s]
<1> DEFINE f == Sums(S)
           g == Sums(U)
           C == {s \in SUBSET U : f[s] # g[s]}
<1>1. f = [s \in SUBSET S |-> Step(s, f)] /\ g = [s \in SUBSET U |-> Step(s, g)]
    BY SumsExist
<1> HIDE DEF f, g
<1> SUFFICES C = {}
    BY DEF f, g
<1> SUFFICES ASSUME C # {} PROVE FALSE
    OBVIOUS
<1>2. \A s \in C : IsFiniteSet(s)
    BY RecordsFinite
<1>3. PICK s \in C : \A u \in C : Cardinality(s) <= Cardinality(u)
    <2> HIDE DEF C
    <2> QED BY <1>2, SmallestSet
<1>4. f[s] = Step(s, f) /\ g[s] = Step(s, g) /\ f[s] # g[s] /\ s \in SUBSET U
    BY <1>1
<1>5. s # {}
    BY <1>4 DEF Step
<1>6. s \ {Picked(s)} \notin C
    <2>1. Cardinality(s \ {Picked(s)}) < Cardinality(s)
        BY <1>4, <1>5, PickedIn, RecordsFinite
    <2>2. Cardinality(s) \in Nat /\ Cardinality(s \ {Picked(s)}) \in Nat
        BY <1>4, RecordsFinite
    <2> HIDE DEF C
    <2> QED BY <1>3, <2>1, <2>2
<1>7. f[s \ {Picked(s)}] = g[s \ {Picked(s)}]
    BY <1>4, <1>6
<1> QED BY <1>4, <1>5, <1>7 DEF Step

\* The sum takes one record, then the others.
LEMMA BytesPicked ==
    ASSUME NEW S \in SUBSET Record
    PROVE  /\ S = {} => Bytes(S) = 0
           /\ S # {} => Bytes(S) = Size[Picked(S)] + Bytes(S \ {Picked(S)})
<1>1. Bytes(S) = Step(S, Sums(S))
    <2>1. Sums(S) = [s \in SUBSET S |-> Step(s, Sums(S))]
        BY SumsExist
    <2>2. S \in SUBSET S
        OBVIOUS
    <2>3. Sums(S)[S] = Step(S, Sums(S))
        BY <2>1, <2>2, Zenon
    <2> QED BY <2>3, BytesFold
<1>2. CASE S = {}
    BY <1>1, <1>2 DEF Step
<1>3. CASE S # {}
    <2> DEFINE U == S \ {Picked(S)}
    <2>1. Sums(S)[U] = Sums(U)[U]
        BY SumsAgree
    <2>2. Sums(U)[U] = Bytes(U)
        BY BytesFold
    <2> QED BY <1>1, <1>3, <2>1, <2>2 DEF Step
<1> QED BY <1>2, <1>3

LEMMA BytesNatural == \A S \in SUBSET Record : Bytes(S) \in Nat
<1> DEFINE C == {S \in SUBSET Record : Bytes(S) \notin Nat}
<1> SUFFICES ASSUME C # {} PROVE FALSE
    OBVIOUS
<1>1. \A s \in C : IsFiniteSet(s)
    BY RecordsFinite
<1>2. PICK s \in C : \A u \in C : Cardinality(s) <= Cardinality(u)
    <2> HIDE DEF C
    <2> QED BY <1>1, SmallestSet
<1>3. s \in SUBSET Record /\ Bytes(s) \notin Nat
    OBVIOUS
<1>4. s # {}
    <2> HIDE DEF C
    <2>1. s = {} => Bytes(s) = 0
        BY <1>3, BytesPicked
    <2> QED BY <1>3, <2>1
<1>5. s \ {Picked(s)} \notin C
    <2>1. Cardinality(s \ {Picked(s)}) < Cardinality(s)
        BY <1>3, <1>4, PickedIn, RecordsFinite
    <2>2. Cardinality(s) \in Nat /\ Cardinality(s \ {Picked(s)}) \in Nat
        BY <1>3, RecordsFinite
    <2> HIDE DEF C
    <2> QED BY <1>2, <2>1, <2>2
<1>6. Bytes(s \ {Picked(s)}) \in Nat
    BY <1>3, <1>5
<1>7. Size[Picked(s)] \in Nat
    BY <1>3, <1>4, PickedIn, RecorderAssumption
<1> QED BY <1>3, <1>4, <1>6, <1>7, BytesPicked

\* Whichever record is taken first, the sum is the same.
LEMMA BytesRemove ==
    \A S \in SUBSET Record : \A x \in S : Bytes(S) = Size[x] + Bytes(S \ {x})
<1> DEFINE C == {S \in SUBSET Record : \E x \in S : Bytes(S) # Size[x] + Bytes(S \ {x})}
<1> SUFFICES ASSUME C # {} PROVE FALSE
    OBVIOUS
<1>1. \A s \in C : IsFiniteSet(s)
    BY RecordsFinite
<1>2. PICK s \in C : \A u \in C : Cardinality(s) <= Cardinality(u)
    <2> HIDE DEF C
    <2> QED BY <1>1, SmallestSet
<1>3. s \in SUBSET Record
    OBVIOUS
<1>4. PICK x \in s : Bytes(s) # Size[x] + Bytes(s \ {x})
    OBVIOUS
<1> DEFINE p == Picked(s)
<1>5. p \in s /\ Bytes(s) = Size[p] + Bytes(s \ {p})
    BY <1>3, <1>4, PickedIn, BytesPicked
<1> HIDE DEF p
<1>6. x # p
    BY <1>4, <1>5
<1>7. ASSUME NEW y \in s
      PROVE  s \ {y} \notin C
    <2>1. Cardinality(s \ {y}) < Cardinality(s)
        BY <1>3, RecordsFinite
    <2>2. Cardinality(s) \in Nat /\ Cardinality(s \ {y}) \in Nat
        BY <1>3, RecordsFinite
    <2> HIDE DEF C
    <2> QED BY <1>2, <2>1, <2>2
<1>8. Bytes(s \ {p}) = Size[x] + Bytes((s \ {p}) \ {x})
    BY <1>3, <1>5, <1>6, <1>7
<1>9. Bytes(s \ {x}) = Size[p] + Bytes((s \ {x}) \ {p})
    BY <1>3, <1>5, <1>6, <1>7
<1>10. (s \ {p}) \ {x} = (s \ {x}) \ {p}
    OBVIOUS
<1>11. Bytes((s \ {p}) \ {x}) \in Nat /\ Size[x] \in Nat /\ Size[p] \in Nat
    BY <1>3, <1>5, BytesNatural, RecorderAssumption
<1> HIDE DEF C
<1> QED BY <1>4, <1>5, <1>8, <1>9, <1>10, <1>11

\* Fewer records, no more bytes.
LEMMA BytesMonotone ==
    \A B \in SUBSET Record : \A A \in SUBSET B : Bytes(A) <= Bytes(B)
<1> DEFINE C == {S \in SUBSET Record : \E A \in SUBSET S : ~(Bytes(A) <= Bytes(S))}
<1> SUFFICES ASSUME C # {} PROVE FALSE
    OBVIOUS
<1>1. \A s \in C : IsFiniteSet(s)
    BY RecordsFinite
<1>2. PICK s \in C : \A u \in C : Cardinality(s) <= Cardinality(u)
    <2> HIDE DEF C
    <2> QED BY <1>1, SmallestSet
<1>3. s \in SUBSET Record
    OBVIOUS
<1>4. PICK A \in SUBSET s : ~(Bytes(A) <= Bytes(s))
    OBVIOUS
<1>5. Bytes(A) \in Nat /\ Bytes(s) \in Nat
    BY <1>3, BytesNatural
<1>6. PICK x \in s : x \notin A
    BY <1>4, <1>5
<1>7. s \ {x} \notin C
    <2>1. Cardinality(s \ {x}) < Cardinality(s)
        BY <1>3, RecordsFinite
    <2>2. Cardinality(s) \in Nat /\ Cardinality(s \ {x}) \in Nat
        BY <1>3, RecordsFinite
    <2> HIDE DEF C
    <2> QED BY <1>2, <2>1, <2>2
<1>8. Bytes(A) <= Bytes(s \ {x})
    BY <1>3, <1>6, <1>7
<1>9. Bytes(s) = Size[x] + Bytes(s \ {x}) /\ Size[x] \in Nat /\ Bytes(s \ {x}) \in Nat
    BY <1>3, BytesRemove, BytesNatural, RecorderAssumption
<1> HIDE DEF C
<1> QED BY <1>4, <1>5, <1>8, <1>9

\* What the loop keeps fits: all of it comes after the oldest row it keeps.
LEMMA KeptFits ==
    ASSUME NEW rows \in SUBSET Record, \A r \in rows : table[r] \in Nat
    PROVE  Bytes(rows \ Overflow(rows)) <= MaxBytes
<1> DEFINE kept == rows \ Overflow(rows)
<1>1. CASE kept = {}
    <2>1. kept \in SUBSET Record
        OBVIOUS
    <2> HIDE DEF kept
    <2>2. Bytes(kept) = 0
        BY <1>1, <2>1, BytesPicked
    <2>3. Bytes(kept) <= MaxBytes
        BY <2>2, RecorderAssumption
    <2> QED BY <2>3 DEF kept
<1>2. CASE kept # {}
    <2> DEFINE T == {table[r] : r \in kept}
    <2>1. T \in SUBSET Nat /\ T # {}
        BY <1>2
    <2>2. PICK n \in T : \A m \in T : n <= m
        <3> HIDE DEF T
        <3> QED BY <2>1, LeastNumber
    <2>3. PICK r \in kept : \A q \in kept : table[r] <= table[q]
        BY <2>2
    <2>4. FromItOn(rows, r) \in SUBSET Record
        BY DEF FromItOn
    <2>5. kept \in SUBSET FromItOn(rows, r)
        BY <2>3 DEF FromItOn
    <2>6. ~(Bytes(FromItOn(rows, r)) > MaxBytes)
        BY DEF Overflow
    <2> HIDE DEF kept
    <2>7. Bytes(kept) <= Bytes(FromItOn(rows, r))
        BY <2>4, <2>5, BytesMonotone
    <2>8. Bytes(kept) \in Nat /\ Bytes(FromItOn(rows, r)) \in Nat
        BY <2>4, <2>5, BytesNatural
    <2>9. Bytes(kept) <= MaxBytes
        BY <2>6, <2>7, <2>8, RecorderAssumption
    <2> QED BY <2>9 DEF kept
<1> QED BY <1>1, <1>2

-----------------------------------------------------------------------------
(* The ring                                                                 *)

\* t has yet to look at the rows, or has looked and leaves no more than fits.
Evicts(t) == thread[t].pc \in {"expired", "dropExpired", "deleteExpired", "rows"}

Deletes(t) == thread[t].pc \in {"dropRows", "deleteRows"}

LeavesRoom(t) == Deletes(t) /\ Bytes(Rows \ (thread[t].gone \cup thread[t].ids)) <= MaxBytes

\* The rows fit, or an eviction under way will see to it: an append that comes
\* between what an eviction selects and what it deletes has its own to follow.
RoomLeft ==
    used.faults = 0 =>
        \/ Bytes(Rows) <= MaxBytes
        \/ \E t \in Thread : Evicts(t) \/ LeavesRoom(t)

RingInv == TypeOK /\ RoomLeft

\* There are no rows at the start.
LEMMA InitRingInv == Init => RingInv
<1> SUFFICES ASSUME Init PROVE RingInv
    OBVIOUS
<1>1. TypeOK
    BY InitIInv DEF IInv
<1>2. Rows = {}
    BY DEF Init, Rows
<1>3. Bytes(Rows) <= MaxBytes
    <2>1. Bytes(Rows) = 0
        BY <1>2, BytesPicked
    <2> QED BY <2>1, RecorderAssumption
<1> QED BY <1>1, <1>3 DEF RingInv, RoomLeft

\* A step that inserts and deletes nothing, and stops no eviction
Undisturbed ==
    /\ used'.faults = used.faults /\ table' = table
    /\ \A t \in Thread :
        /\ Evicts(t) => Evicts(t)'
        /\ Deletes(t) => /\ Deletes(t)'
                         /\ thread'[t].gone = thread[t].gone /\ thread'[t].ids = thread[t].ids

LEMMA RoomKept == ASSUME RoomLeft, Undisturbed PROVE RoomLeft'
<1> SUFFICES ASSUME used'.faults = 0
             PROVE  (Bytes(Rows) <= MaxBytes \/ \E t \in Thread : Evicts(t) \/ LeavesRoom(t))'
    BY DEF RoomLeft
<1>1. used.faults = 0 /\ Rows' = Rows
    BY DEF Undisturbed, Rows
<1>2. CASE Bytes(Rows) <= MaxBytes
    BY <1>1, <1>2
<1>3. ASSUME NEW t \in Thread, Evicts(t)
      PROVE  (\E u \in Thread : Evicts(u) \/ LeavesRoom(u))'
    BY <1>3 DEF Undisturbed
<1>4. ASSUME NEW t \in Thread, LeavesRoom(t)
      PROVE  (\E u \in Thread : Evicts(u) \/ LeavesRoom(u))'
    <2>1. LeavesRoom(t)'
        BY <1>1, <1>4 DEF Undisturbed, LeavesRoom
    <2> QED BY <2>1
<1> QED BY <1>1, <1>2, <1>3, <1>4 DEF RoomLeft

\* Each step keeps the rows within the ring, or an eviction that will.
LEMMA RoomStep == ASSUME RingInv, [Next]_vars PROVE RoomLeft'
<1> USE DEF RingInv
<1>1. ASSUME NEW t \in Thread, Insert(t) PROVE RoomLeft'
    <2>1. Evicts(t)'
        BY <1>1 DEF Insert, Evicts, TypeOK
    <2> QED BY <2>1 DEF RoomLeft
<1>2. ASSUME NEW t \in Thread, StatementFails(t) \/ UnlinkFails(t) \/ Crash(t) PROVE RoomLeft'
    <2>1. used \in [purges : Nat, faults : Nat, lost : Nat]
        BY DEF TypeOK
    <2>2. \/ used' = [used EXCEPT !.faults = @ + 1]
          \/ used' = [used EXCEPT !.faults = @ + 1, !.lost = @ + 1]
        BY <1>2 DEF StatementFails, UnlinkFails, Crash
    <2>3. used'.faults = used.faults + 1
        BY <2>1, <2>2
    <2>4. used'.faults # 0
        BY <2>1, <2>3
    <2> QED BY <2>4 DEF RoomLeft
<1>3. ASSUME NEW t \in Thread, SelectRows(t) PROVE RoomLeft'
    <2>1. Bytes((Rows \ thread[t].gone) \ Overflow(Rows \ thread[t].gone)) <= MaxBytes
        BY KeptFits DEF TypeOK
    <2>2. /\ thread'[t].pc = "dropRows" /\ thread'[t].gone = thread[t].gone
          /\ thread'[t].ids = Overflow(Rows \ thread[t].gone) /\ Rows' = Rows
        BY <1>3 DEF SelectRows, TypeOK, Locals, Rows
    <2>3. (Rows \ (thread[t].gone \cup thread[t].ids))'
            = (Rows \ thread[t].gone) \ Overflow(Rows \ thread[t].gone)
        BY <2>2
    <2>4. LeavesRoom(t)'
        BY <2>1, <2>2, <2>3 DEF LeavesRoom, Deletes
    <2> QED BY <2>4 DEF RoomLeft
<1>4. ASSUME NEW t \in Thread, DeleteRows(t) PROVE RoomLeft'
    <2> SUFFICES ASSUME used'.faults = 0
                 PROVE  (Bytes(Rows) <= MaxBytes \/ \E u \in Thread : Evicts(u) \/ LeavesRoom(u))'
        BY DEF RoomLeft
    <2>1. /\ used.faults = 0 /\ Rows' = Rows \ (thread[t].gone \cup thread[t].ids)
          /\ Rows \in SUBSET Record
        BY <1>4 DEF DeleteRows, Without, Rows, TypeOK
    <2>2. \A u \in Thread : u # t => thread'[u] = thread[u]
        BY <1>4 DEF DeleteRows, TypeOK
    <2>3. \A S \in SUBSET Rows : \A T \in SUBSET S :
              Bytes(S) <= MaxBytes => Bytes(T) <= MaxBytes
        <3>1. ASSUME NEW S \in SUBSET Rows, NEW T \in SUBSET S, Bytes(S) <= MaxBytes
              PROVE  Bytes(T) <= MaxBytes
            <4>1. Bytes(T) <= Bytes(S) /\ Bytes(T) \in Nat /\ Bytes(S) \in Nat
                BY <2>1, BytesMonotone, BytesNatural
            <4> QED BY <3>1, <4>1, RecorderAssumption
        <3> QED BY <3>1
    <2>4. CASE Bytes(Rows) <= MaxBytes
        BY <2>1, <2>3, <2>4
    <2>5. ASSUME NEW u \in Thread, Evicts(u)
          PROVE  (\E v \in Thread : Evicts(v) \/ LeavesRoom(v))'
        <3>1. u # t
            BY <1>4, <2>5 DEF DeleteRows, At, Evicts
        <3> QED BY <2>2, <2>5, <3>1 DEF Evicts
    <2>6. ASSUME NEW u \in Thread, LeavesRoom(u)
          PROVE  (Bytes(Rows) <= MaxBytes \/ \E v \in Thread : Evicts(v) \/ LeavesRoom(v))'
        <3>1. CASE u = t
            <4>1. Bytes(Rows') <= MaxBytes
                BY <2>1, <2>6, <3>1 DEF LeavesRoom
            <4> QED BY <4>1
        <3>2. CASE u # t
            <4> DEFINE S == Rows \ (thread[u].gone \cup thread[u].ids)
                       T == Rows' \ (thread[u].gone \cup thread[u].ids)
            <4>1. S \in SUBSET Rows /\ T \in SUBSET S
                BY <2>1
            <4>2. Bytes(S) <= MaxBytes
                BY <2>6 DEF LeavesRoom
            <4>3. Bytes(T) <= MaxBytes
                <5> HIDE DEF S, T
                <5> QED BY <2>3, <4>1, <4>2
            <4>4. thread'[u] = thread[u]
                BY <2>2, <3>2
            <4>5. LeavesRoom(u)'
                BY <2>6, <4>3, <4>4 DEF LeavesRoom, Deletes
            <4> QED BY <4>5
        <3> QED BY <3>1, <3>2
    <2> QED BY <2>1, <2>4, <2>5, <2>6 DEF RoomLeft
<1>5. ASSUME NEW t \in Thread, PurgeDelete(t) PROVE RoomLeft'
    <2>1. Rows' = {}
        BY <1>5 DEF PurgeDelete, Rows
    <2>2. Bytes(Rows') <= MaxBytes
        <3>1. Bytes(Rows') = 0
            BY <2>1, BytesPicked
        <3> QED BY <3>1, RecorderAssumption
    <2> QED BY <2>2 DEF RoomLeft
<1> USE DEF Undisturbed, Evicts, Deletes, TypeOK
<1>6. CASE Tick
    BY <1>6, RoomKept DEF Tick
<1>7. ASSUME NEW t \in Thread, NEW r \in Record, Append(t, r) PROVE RoomLeft'
    BY <1>7, RoomKept DEF Append, At, Idle
<1>8. ASSUME NEW t \in Thread, WriteTemp(t) \/ Replace(t) PROVE RoomLeft'
    BY <1>8, RoomKept DEF WriteTemp, Replace, At
<1>9. ASSUME NEW t \in Thread, SelectExpired(t) \/ DeleteExpired(t) PROVE RoomLeft'
    <2>1. Undisturbed
        <3>1. CASE SelectExpired(t)
            BY <3>1 DEF SelectExpired, At
        <3>2. CASE DeleteExpired(t)
            BY <3>2 DEF DeleteExpired, At
        <3> QED BY <1>9, <3>1, <3>2
    <2> QED BY <2>1, RoomKept
<1>10. ASSUME NEW t \in Thread, DropExpired(t) \/ DropRows(t) PROVE RoomLeft'
    <2>1. Undisturbed
        <3>1. CASE DropExpired(t)
            <4>1. /\ At(t, "dropExpired") /\ UNCHANGED <<table, used>>
                  /\ \/ thread' = [thread EXCEPT ![t].pc = "deleteExpired"]
                     \/ \E r \in thread[t].todo :
                            thread' = [thread EXCEPT ![t].todo = @ \ {r}]
                BY <3>1 DEF DropExpired, Unlink
            <4>2. CASE thread' = [thread EXCEPT ![t].pc = "deleteExpired"]
                BY <4>1, <4>2 DEF At
            <4>3. ASSUME NEW r, thread' = [thread EXCEPT ![t].todo = @ \ {r}]
                  PROVE  Undisturbed
                BY <4>1, <4>3 DEF Locals
            <4> QED BY <4>1, <4>2, <4>3
        <3>2. CASE DropRows(t)
            <4>1. /\ At(t, "dropRows") /\ UNCHANGED <<table, used>>
                  /\ \/ thread' = [thread EXCEPT ![t].pc = "deleteRows"]
                     \/ \E r \in thread[t].todo :
                            thread' = [thread EXCEPT ![t].todo = @ \ {r}]
                BY <3>2 DEF DropRows, Unlink
            <4>2. CASE thread' = [thread EXCEPT ![t].pc = "deleteRows"]
                BY <4>1, <4>2 DEF At
            <4>3. ASSUME NEW r, thread' = [thread EXCEPT ![t].todo = @ \ {r}]
                  PROVE  Undisturbed
                BY <4>1, <4>3 DEF Locals
            <4> QED BY <4>1, <4>2, <4>3
        <3> QED BY <1>10, <3>1, <3>2
    <2> QED BY <2>1, RoomKept
<1>11. ASSUME NEW t \in Thread, Purge(t) \/ PurgeSelect(t) PROVE RoomLeft'
    BY <1>11, RoomKept DEF Purge, PurgeSelect, At, Idle
<1>12. ASSUME NEW t \in Thread, PurgeDrop(t) \/ Glob(t) PROVE RoomLeft'
    BY <1>12, RoomKept DEF PurgeDrop, Unlink, Glob, At
<1>13. ASSUME NEW t \in Thread, GlobDrop(t) PROVE RoomLeft'
    BY <1>13, RoomKept DEF GlobDrop, Unlink, At, Idle
<1>14. CASE UNCHANGED vars
    BY <1>14, RoomKept DEF vars
<1> QED BY <1>1, <1>2, <1>3, <1>4, <1>5, <1>6, <1>7, <1>8, <1>9, <1>10, <1>11, <1>12, <1>13,
        <1>14 DEF Next

\* Once every append has evicted, the rows fit into the ring, whoever appended
\* or purged at the same time (FLIGHT_MAX_BYTES).
THEOREM RingHolds == Spec => []CapacityHeld
<1>1. TypeOK /\ RoomLeft => CapacityHeld
    BY DEF RoomLeft, CapacityHeld, Settled, At, Evicts, LeavesRoom, Deletes
<1>2. RoomLeft /\ TypeOK /\ [Next]_vars => RoomLeft'
    BY RoomStep DEF RingInv
<1>3. Init => RoomLeft
    BY InitRingInv DEF RingInv
<1> QED BY RecorderTypes, <1>1, <1>2, <1>3, PTL DEF Spec
=============================================================================
