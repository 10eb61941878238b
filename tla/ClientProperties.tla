-------------------------- MODULE ClientProperties --------------------------
(***************************************************************************)
(* What a `check` command may rely on, over the state of CheckClient.      *)
(***************************************************************************)
EXTENDS CheckClient

\* Every variable holds a value of its kind (worker_client.py:42, cli.py:593).
TypeOK ==
    /\ lock \in Proc \cup {NoProc} /\ socket \in Proc \cup {NoProc}
    /\ proc \in [Proc -> [pc : ProcPc, by : Job \cup {NoJob}]]
    /\ queue \in [Proc -> Seq(Job)]
    /\ exec \in [Executor -> [pc : ExecPc, job : Job \cup {NoJob}, result : Result]]
    /\ client \in [Job -> [pc : ClientPc, op : {"submit", "status", "cancel"},
                           launches : 0..StartAttempts, known : BOOLEAN,
                           shown : Seq(Stage), exit : 0..4 \cup {130}]]
    /\ \A c \in Job : /\ request[c].state \in RequestState
                      /\ request[c].row \in Row
    /\ jobs \in [Job -> Row]

\* A worker that serves holds the lock and is the one found at the socket path:
\* neither a crash that leaves the path behind nor a process on its way out,
\* which unlinks whatever it finds there, hides it (ipc.py:91, ipc.py:143).
ServingIsReachable ==
    \A p \in Proc : proc[p].pc = "serving" => lock = p /\ socket = p

\* ensure_worker never has two live processes of its own, however it is that
\* they fail to answer (worker_client.py:96).
OneChildAtATime == \A c \in Job : Cardinality(Mine(c)) <= 1

\* What a command has shown is the feed of its job from the first event on,
\* each event once, across restarts of the worker between two polls.
ShownInOrder ==
    \A c \in Job : \A i \in DOMAIN client[c].shown :
        i \in DOMAIN events[c] /\ client[c].shown[i] = events[c][i]

\* A command that has seen its job complete has shown the event that names the
\* report and finds the report of that attempt, though a poll reads the row
\* and the events in two transactions (worker.py:368) and the report before.
CompleteIsShown ==
    \A c \in Job \ Direct :
        (client[c].pc = "load" \/ (client[c].pc = "done" /\ client[c].exit = 0)) =>
            /\ \E i \in DOMAIN client[c].shown : client[c].shown[i] = "report"
            /\ artifacts[c]["json"] = jobs[c].attempt

\* What a command knows and shows of its job is right at every moment of its
\* polls: its state has its types, the events are those of the feed, and one
\* that ends well has shown, and can load, the report of the attempt.
CommandOK == TypeOK /\ ShownInOrder /\ CompleteIsShown

\* An exit code that speaks of the row agrees with it, though a worker that
\* starts may have failed the row of a direct command meanwhile (store.py:309).
ExitMatchesRow ==
    \A c \in Job : (client[c].pc = "done" /\ client[c].exit \in {0, 3}) =>
        /\ client[c].exit = 0 => jobs[c].status = "complete"
        /\ client[c].exit = 3 => jobs[c].status = "failed" /\ jobs[c].result = "internal_error"

\* A command that has started ends, whatever crashes and however its polls
\* find the worker gone: a poll launches the next worker, which fails the job
\* the last one was executing (worker_client.py:117, store.py:309).
CommandsEnd == \A c \in Job : client[c].pc \notin {"new", "done"} ~> client[c].pc = "done"
=============================================================================
