------------------------- MODULE SnapshotProperties -------------------------
(* What the static phase promises of its snapshots and its artifacts. *)
EXTENDS SnapshotStore

TypeOK ==
    /\ setting \in Settings
    /\ dir \in [File -> Inode \cup {Link, None}]
    /\ DOMAIN version \subseteq Inode /\ \A i \in DOMAIN version : version[i] \in 0 .. setting.edits
    /\ \A f \in File : dir[f] \in Inode => dir[f] \in DOMAIN version
    /\ keychain \in Key \cup {None} /\ makers \subseteq Key
    /\ \A d \in Stored : artifacts[d] \in Key
    /\ edits \in 0 .. setting.edits /\ faults \in 0 .. MaxFaults
    /\ \A p \in Proc : LET r == proc[p] IN
        /\ r.pc \in Pc /\ r.key \in Key \cup {None} /\ r.pass \in {"capture", "verify"}
        /\ r.todo \subseteq File /\ r.inode \in Inode \cup {None}
        /\ \A t \in {r.tree, r.again} : t \in Tree /\ Cardinality(FilesOf(t)) <= setting.files

\* Files are read one by one while the user edits them, yet the files of a
\* report were on the disk together, as they are reported, at one moment of its
\* check: the second walk (verify_snapshot) closes what the walk of
\* create_snapshot leaves open.
ReportIsReal ==
    \A p \in Proc : LET r == proc[p] IN
        r.pc = "report" => \E t \in r.seen : \A f \in FilesOf(r.tree) : t[f] = r.tree[f]

\* A file is stored whole, with what one version of it held, never with the
\* halves of two (_read_regular_file compares the status of the descriptor).
StoredWhole == OfFile(Torn) \notin Stored

\* A manifest that is stored can be read back: its files are stored too, also
\* when a process dies between two of them (persist_snapshot's order).
ManifestHasFiles ==
    \A d \in Stored : d[1] = "manifest" =>
        \A f \in FilesOf(d[2]) : OfFile(d[2][f]) \in Stored

\* What the tables refer to is in the store: the snapshot of a report and of a
\* cached analysis, the reason of a feedback.
ReferencesStored ==
    /\ \A t \in reports \cup cache : Manifest(t) \in Stored
    /\ feedback \subseteq Stored

\* The store can be relied upon at every moment, between any two writes of any
\* process and after a crash: nothing in it is torn, and nothing that refers to
\* an artifact is there before the artifact.
StoreSound == StoredWhole /\ ManifestHasFiles /\ ReferencesStored

\* Every artifact can be decrypted by a process that starts now, also when two
\* processes open an empty store at once, where the credential store refuses
\* the second key - or when only one key was ever made.
KeysAgree ==
    platform = "keychain" \/ Cardinality(makers) <= 1 =>
        \A d \in Stored : artifacts[d] = keychain

=============================================================================
