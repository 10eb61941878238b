---------------------------- MODULE SnapshotStore ----------------------------
(***************************************************************************)
(* The static phase of a check and the artifact store: processes (the      *)
(* worker, commands run with --direct) open the store and its master key,  *)
(* read the skill's files one by one, store them encrypted under their     *)
(* digests, analyze, read the skill again and report - while the user      *)
(* edits the files and processes crash.                                    *)
(*                                                                         *)
(* A directory maps names to inodes.  An inode has the version of its last *)
(* write, which stands for its content and for its size and times; no      *)
(* content comes back (NextVersion), so equal digests are equal versions.  *)
(* A file's data is read in two halves, which a write may separate.        *)
(* Names are numbers, in the order in which a walk sorts them.             *)
(***************************************************************************)
EXTENDS Naturals, FiniteSets

CONSTANTS Proc, File,
          None, Link, Torn, Skipped,
          Settings,     \* one of these in each behaviour: the processes that run, the
                        \* limit of files in a skill, and the bound on edits
          MaxFaults     \* bound: crashes and failed writes

ASSUME SnapshotAssumption ==
    /\ File \subseteq Nat
    /\ None \notin Proc \cup Nat /\ Skipped \notin Nat /\ Torn \notin Nat /\ Link \notin Nat
    /\ None # Link /\ None # Skipped
    /\ Settings \subseteq [procs : SUBSET Proc, files : Nat, edits : Nat]
    /\ MaxFaults \in Nat

VARIABLES setting,
          dir,        \* name -> inode, Link or None
          version,    \* inode -> version of its last write
          edits,      \* number of edits so far: also the newest version and inode
          platform,   \* the credential store of the master key: the macOS Keychain, or one
                      \* that replaces (the Secret Service, the DPAPI file)
          keychain,   \* the key it holds
          makers,     \* the keys generated so far
          artifacts,  \* digest -> the key its envelope is under
          cache,      \* digests with a cached analysis
          reports,    \* trees of completed reports
          feedback,   \* payloads that rows of finding_feedback refer to
          proc,       \* the processes; of each, seen is every tree since its capture began
          faults      \* crashes and failed writes so far

disk == <<setting, dir, version, edits>>
state == <<artifacts, cache, reports, feedback>>
keys == <<platform, keychain, makers>>
vars == <<disk, state, keys, proc, faults>>

-----------------------------------------------------------------------------
Inode == Nat
Key == Proc
Lowest(S) == CHOOSE x \in S : \A y \in S : x <= y

\* What a snapshot says of a name: its version, Skipped (a link), or None
Tree == [File -> Nat \cup {Skipped, Torn, None}]
TreeNow == [f \in File |-> IF dir[f] = None THEN None
                           ELSE IF dir[f] = Link THEN Skipped ELSE version[dir[f]]]
Empty == [f \in File |-> None]
FilesOf(t) == {f \in File : t[f] \notin {Skipped, None}}

\* An artifact is named by the digest of its content
OfFile(v) == <<"file", v>>
Manifest(t) == <<"manifest", t>>
Reason == <<"reason">>
ASSUME PayloadAssumption == None # Reason
Stored == DOMAIN artifacts

Pc == {"off", "making", "ready", "look", "inspect", "open", "read", "put", "replace",
       "analyze", "report", "done", "row", "failed"}
Idle == [pc |-> "off", key |-> None, pass |-> "capture", todo |-> {}, inode |-> None,
        first |-> None, tree |-> Empty, again |-> Empty, seen |-> {}, payload |-> None]

\* The inodes there are at first; all have the same content
FirstInode(f) == setting.edits + f
Inode0 == {FirstInode(f) : f \in File}
Init == /\ setting \in Settings
        /\ dir = [f \in File |-> FirstInode(f)]
        /\ version = [i \in Inode0 |-> 0] /\ edits = 0
        /\ platform \in {"keychain", "replacing"}
        /\ keychain = None /\ makers = {}
        /\ artifacts = [d \in {} |-> None] /\ cache = {} /\ reports = {}
        /\ feedback = {}
        /\ proc = [p \in Proc |-> Idle]
        /\ faults = 0

Set(p, r) == proc' = [proc EXCEPT ![p] = r]
Failed(r) == [Idle EXCEPT !.pc = "failed"]
Finished(r) == [Idle EXCEPT !.pc = "done", !.key = r.key]
Fails(p) == Set(p, Failed(proc[p]))
Spend == faults < MaxFaults /\ faults' = faults + 1

-----------------------------------------------------------------------------
(* The master key *)

Open(p) ==
    /\ proc[p].pc = "off" /\ p \in setting.procs
    /\ Set(p, IF keychain = None THEN [proc[p] EXCEPT !.pc = "making"]
              ELSE [proc[p] EXCEPT !.pc = "ready", !.key = keychain])
    /\ UNCHANGED <<disk, state, keys, faults>>

\* The Secret Service and the DPAPI file replace what is there; the macOS
\* Keychain refuses a second item, which stops the process
AlwaysReplaces == TRUE
Replaces == platform # "keychain"
MakeKey(p) ==
    /\ proc[p].pc = "making"
    /\ makers' = makers \cup {p}
    /\ IF keychain = None \/ Replaces
       THEN keychain' = p /\ Set(p, [proc[p] EXCEPT !.pc = "ready", !.key = p])
       ELSE keychain' = keychain /\ Fails(p)
    /\ UNCHANGED <<disk, state, platform, faults>>

-----------------------------------------------------------------------------
(* create_snapshot, and verify_snapshot, which is the same walk again *)

Result(r) == IF r.pass = "capture" THEN r.tree ELSE r.again
Found(r, f, x) == IF r.pass = "capture" THEN [r EXCEPT !.tree[f] = x]
                  ELSE [r EXCEPT !.again[f] = x]

EndedUnverified(r) == IF r.pass = "capture"
                      THEN [r EXCEPT !.pc = "put", !.todo = FilesOf(r.tree)]
                      ELSE [r EXCEPT !.pc = "report"]
Ended(r) == IF r.pass = "capture" THEN [r EXCEPT !.pc = "put", !.todo = FilesOf(r.tree)]
            ELSE IF r.again # r.tree THEN Failed(r)
            ELSE [r EXCEPT !.pc = "report"]

NextFile(r) == IF r.todo = {} THEN Ended(r) ELSE [r EXCEPT !.pc = "look"]
Did(r, f) == NextFile([r EXCEPT !.todo = @ \ {f}, !.inode = None, !.first = None])

Present == {f \in File : dir[f] # None}
Walk(p) ==
    /\ proc[p].pc \in {"ready", "analyze"}
    /\ LET r == [proc[p] EXCEPT !.todo = Present,
                     !.pass = IF proc[p].pc = "ready" THEN "capture" ELSE "verify"]
       IN Set(p, NextFile([r EXCEPT !.seen = IF r.pass = "capture" THEN {TreeNow} ELSE @]))
    /\ cache' = IF proc[p].pc = "analyze" THEN cache \cup {proc[p].tree} ELSE cache
    /\ UNCHANGED <<disk, artifacts, reports, feedback, keys, faults>>

FullAfter(r) == Cardinality(FilesOf(Result(r))) > setting.files
Full(r) == Cardinality(FilesOf(Result(r))) >= setting.files
Look(p) == LET r == proc[p]  f == Lowest(r.todo) IN
    /\ r.pc = "look"
    /\ \/ dir[f] = None /\ Fails(p)
       \/ dir[f] = Link /\ Set(p, Did(Found(r, f, Skipped), f))
       \/ dir[f] \in Inode /\ Full(r) /\ Fails(p)
       \/ dir[f] \in Inode /\ ~Full(r) /\ Set(p, [r EXCEPT !.pc = "inspect"])
    /\ UNCHANGED <<disk, state, keys, faults>>

\* _read_regular_file calls lstat again, and takes nothing but a regular file
Inspect(p) == LET r == proc[p]  f == Lowest(r.todo) IN
    /\ r.pc = "inspect"
    /\ \/ dir[f] \notin Inode /\ Fails(p)
       \/ dir[f] \in Inode /\ Set(p, [r EXCEPT !.pc = "open", !.inode = dir[f]])
    /\ UNCHANGED <<disk, state, keys, faults>>

\* O_NOFOLLOW and samestat: the file opened is the one that was looked at
OpenFile(p) == LET r == proc[p]  f == Lowest(r.todo) IN
    /\ r.pc = "open"
    /\ IF dir[f] # r.inode THEN Fails(p)
       ELSE Set(p, [r EXCEPT !.pc = "read", !.first = version[r.inode]])
    /\ UNCHANGED <<disk, state, keys, faults>>

\* The descriptor stays on its inode, which may have left the directory
Data(r) == IF version[r.inode] = r.first THEN r.first ELSE Torn
Unchanged(r) == version[r.inode] = r.first
ReadRest(p) == LET r == proc[p]  f == Lowest(r.todo) IN
    /\ r.pc = "read"
    /\ IF Unchanged(r) THEN Set(p, Did(Found(r, f, Data(r)), f)) ELSE Fails(p)
    /\ UNCHANGED <<disk, state, keys, faults>>

-----------------------------------------------------------------------------
(* persist_snapshot: put_bytes for every file, then for the manifest *)

ManifestFirst(r) == IF r.payload # None THEN r.payload
                    ELSE IF Manifest(r.tree) \notin Stored THEN Manifest(r.tree)
                    ELSE IF r.todo # {} THEN OfFile(r.tree[Lowest(r.todo)]) ELSE Manifest(r.tree)
NextPut(r) == IF r.payload # None THEN r.payload
              ELSE IF r.todo # {} THEN OfFile(r.tree[Lowest(r.todo)]) ELSE Manifest(r.tree)
AfterPut(r) == IF r.payload # None THEN [r EXCEPT !.pc = "row"]
               ELSE IF r.todo # {} THEN [r EXCEPT !.pc = "put", !.todo = @ \ {Lowest(@)}]
               ELSE [r EXCEPT !.pc = "analyze"]

\* An artifact that exists is decrypted and compared; else _atomic_write makes
\* a temporary file and then calls os.replace
Put(p) == LET r == proc[p]  d == NextPut(r) IN
    /\ r.pc = "put"
    /\ IF d \notin Stored
       THEN Set(p, [r EXCEPT !.pc = "replace"])
       ELSE IF artifacts[d] # r.key THEN Fails(p) ELSE Set(p, AfterPut(r))
    /\ UNCHANGED <<disk, artifacts, cache, reports, feedback, keys, faults>>

Replace(p) == LET d == NextPut(proc[p]) IN
    /\ proc[p].pc = "replace"
    /\ artifacts' = [x \in DOMAIN artifacts \cup {d} |->
                        IF x = d THEN proc[p].key ELSE artifacts[x]]
    /\ Set(p, AfterPut(proc[p]))
    /\ UNCHANGED <<disk, cache, reports, feedback, keys, faults>>

\* A write that fails unlinks its temporary file; a crash leaves it, for good
WriteFails(p) ==
    /\ proc[p].pc = "replace" /\ Spend
    /\ Fails(p)
    /\ UNCHANGED <<disk, artifacts, cache, reports, feedback, keys>>

-----------------------------------------------------------------------------
(* The report, and the feedback on it *)

Report(p) ==
    /\ proc[p].pc = "report"
    /\ reports' = reports \cup {proc[p].tree}
    /\ Set(p, Finished(proc[p]))
    /\ UNCHANGED <<disk, artifacts, cache, feedback, keys, faults>>

\* record_finding_feedback: the reason is stored first, then the row
GiveFeedback(p) ==
    /\ reports # {} /\ proc[p].pc = "done" /\ Reason \notin feedback
    /\ Set(p, [proc[p] EXCEPT !.pc = "put", !.payload = Reason])
    /\ UNCHANGED <<disk, state, keys, faults>>

RecordFeedback(p) ==
    /\ proc[p].pc = "row"
    /\ feedback' = feedback \cup {proc[p].payload}
    /\ Set(p, Finished(proc[p]))
    /\ UNCHANGED <<disk, artifacts, cache, reports, keys, faults>>

-----------------------------------------------------------------------------
(* Around them *)

\* A write in place, a new file under the name (or another kind of thing), or
\* its removal; an edit nobody can notice before the next walk is left to it
NextVersion == edits + 1
Held == {proc[p].inode : p \in Proc}
Edited(f) == \E x \in {dir[f], NextVersion, None, Link} :
    /\ x # dir[f] \/ x \in Inode
    /\ dir' = [dir EXCEPT ![f] = x]
    /\ version' = [i \in ({dir'[g] : g \in File} \cup Held) \ {None, Link} |->
                      IF i = x THEN NextVersion ELSE version[i]]

Edit == \E f \in File :
    /\ edits < setting.edits /\ edits' = edits + 1
    /\ \E p \in Proc : proc[p].pc \in {"look", "inspect", "open", "read", "analyze"}
    /\ Edited(f)
    /\ proc' = [p \in Proc |-> IF proc[p].seen = {} THEN proc[p]
                               ELSE [proc[p] EXCEPT !.seen = @ \cup {TreeNow'}]]
    /\ UNCHANGED <<setting, state, keys, faults>>

Crash(p) ==
    /\ proc[p].pc \notin {"off", "done", "failed"} /\ Spend
    /\ Set(p, Idle)
    /\ UNCHANGED <<disk, state, keys>>

Next == \/ \E p \in Proc : \/ Open(p) \/ MakeKey(p) \/ Walk(p) \/ Look(p) \/ Inspect(p)
                          \/ OpenFile(p) \/ ReadRest(p) \/ Put(p) \/ Replace(p)
                          \/ WriteFails(p) \/ Report(p) \/ GiveFeedback(p)
                          \/ RecordFeedback(p) \/ Crash(p)
        \/ Edit

Spec == Init /\ [][Next]_vars
=============================================================================
