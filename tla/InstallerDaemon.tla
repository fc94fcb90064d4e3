-------------------------- MODULE InstallerDaemon --------------------------
(***************************************************************************)
(* The daemon afmpkg-installerd: its main loop (run of                     *)
(* main-afmpkg-installerd.c), the detached thread that serves each client  *)
(* (serve_thread, afmpkg_serve, afmpkg_request_process) and the table of   *)
(* transactions the threads share (afmpkg-request.c).                      *)
(*                                                                         *)
(* Two mutexes protect the shared state: one the count of living threads,  *)
(* the other the table.  A section under a mutex is one action; what is    *)
(* done between two sections is interleaved.  In particular can_stop takes *)
(* the mutexes one after the other: it is two actions.                     *)
(*                                                                         *)
(* The installation itself is a step with a result (see AfmpkgInstall),    *)
(* the reception gives one of the requests that AfmpkgRequest hands over.  *)
(* Times are kept as what remains before expiration, expire - now.         *)
(***************************************************************************)
EXTENDS Integers, FiniteSets, FiniteSetsExt

CONSTANTS
    Clients,        \* the connections; each has its own thread if it is accepted
    RootClients,    \* those whose peer is root
    TransIds,       \* identifiers of transactions
    None,           \* no identifier, no request, no transaction, no answer
    Requests,       \* the requests clients send
    Retention,      \* RETENTION_SECONDS, in ticks of the model
    UIntMod,        \* 2 ^ width of an unsigned
    RunForever,     \* option --forever
    Strict,         \* option --strict
    SystemErrors    \* may poll, accept and the allocations fail?

Kinds == {"Unset", "Add", "Remove", "CheckAdd", "CheckRemove", "GetStatus"}
PackageKinds == {"Add", "Remove"}
CheckKinds == {"CheckAdd", "CheckRemove"}

\* What AfmpkgRequest hands over (its invariant HandedOver).
ReceivedRequests ==
    [kind : {"Unset"}, transid : {None}, count : {0}]
    \cup [kind : PackageKinds \cup CheckKinds, transid : TransIds \cup {None}, count : Nat]
    \cup [kind : {"GetStatus"}, transid : TransIds, count : {0}]

\* What the message of a status holds.
NumbersType == [count : Int, success : Int, fail : Int]

\* What the table holds of a transaction.
TransactionType ==
    [count : Nat, success : 0..(UIntMod - 1), fail : 0..(UIntMod - 1), left : 0..Retention]

ASSUME ClientsAssumption == IsFiniteSet(Clients) /\ RootClients \subseteq Clients
ASSUME RequestsAssumption == Requests \subseteq ReceivedRequests
ASSUME RetentionAssumption == Retention \in Nat \ {0}
ASSUME UIntModAssumption == UIntMod \in Nat \ {0}
ASSUME NoneAssumption ==
    None \notin TransIds \cup Requests \cup NumbersType \cup TransactionType
ASSUME OptionsAssumption == {RunForever, Strict, SystemErrors} \subseteq BOOLEAN

VARIABLES
    main,       \* where run() is
    living,     \* living_threads
    pc,         \* where the connection of each client, then its thread, is
    req,        \* the request of each thread
    rc,         \* what afmpkg_request_init, afmpkg_install or afmpkg_uninstall returned
    scode,      \* scode of the request: the first error
    msg,        \* msg of the request: the numbers of a status
    answer,     \* the answer got by each client
    trans,      \* all_transactions
    lost        \* history: the transactions some result of which was dropped

threadVars == <<req, rc, scode, msg, answer>>
vars == <<main, living, pc, req, rc, scode, msg, answer, trans, lost>>

\* The program counters of a running thread.
Running == {"init", "receive", "process", "record", "sighup", "reply", "leave"}
Living == {c \in Clients : pc[c] \in Running}

Init ==
    /\ main = "poll"
    /\ living = 0
    /\ pc = [c \in Clients |-> "away"]
    /\ req = [c \in Clients |-> None]
    /\ rc = [c \in Clients |-> "none"]
    /\ scode = [c \in Clients |-> "none"]
    /\ msg = [c \in Clients |-> None]
    /\ answer = [c \in Clients |-> None]
    /\ trans = [t \in TransIds |-> None]
    /\ lost = {}

----------------------------------------------------------------------------
(* The table of transactions. *)

Expired(t) == trans[t] # None /\ trans[t].left = 0

\* cleanup_transactions: drop the transactions whose time has come.
Cleaned == [t \in TransIds |-> IF Expired(t) THEN None ELSE trans[t]]
ExpiredIds == {t \in TransIds : Expired(t)}

NewTransaction(count) == [count |-> count, success |-> 0, fail |-> 0, left |-> Retention]

\* get_transaction: what the table holds for t once it is cleaned and, if the
\* request tells a count, once the transaction is created.  oom: malloc fails.
GetTransaction(t, count, oom) ==
    IF Cleaned[t] = None /\ count # 0 /\ ~oom THEN NewTransaction(count) ELSE Cleaned[t]

\* %d of an unsigned
Signed(n) == IF n >= UIntMod \div 2 THEN n - UIntMod ELSE n

\* What a status answer tells of a transaction.
Numbers(entry) ==
    [count |-> Signed(entry.count), success |-> Signed(entry.success), fail |-> Signed(entry.fail)]

\* the time passes
Tick ==
    /\ \E t \in TransIds : trans[t] # None /\ trans[t].left > 0
    /\ trans' = [t \in TransIds |->
                   IF trans[t] = None \/ Expired(t) THEN trans[t]
                   ELSE [trans[t] EXCEPT !.left = @ - 1]]
    /\ UNCHANGED <<main, living, pc, threadVars, lost>>

----------------------------------------------------------------------------
(* The clients and the system (external). *)

\* A client connects: the listening socket is held by systemd.
Connect(c) ==
    /\ pc[c] = "away"
    /\ pc' = [pc EXCEPT ![c] = "waiting"]
    /\ UNCHANGED <<main, living, threadVars, trans, lost>>

\* main returned, the process ends: its threads and its memory disappear.
ProcessEnd ==
    /\ main \in {"exit0", "exit2"}
    /\ main' = "dead"
    /\ living' = 0
    /\ pc' = [c \in Clients |-> IF pc[c] \in Running THEN "killed" ELSE pc[c]]
    /\ trans' = [t \in TransIds |-> None]
    /\ lost' = lost \cup {t \in TransIds : trans[t] # None}
                    \cup {t \in TransIds : \E c \in Living : req[c] # None /\ req[c].transid = t}
    /\ UNCHANGED threadVars

\* Socket activation: a waiting client starts the daemon.
Activate ==
    /\ main = "dead"
    /\ \E c \in Clients : pc[c] = "waiting"
    /\ main' = "poll"
    /\ UNCHANGED <<living, pc, threadVars, trans, lost>>

----------------------------------------------------------------------------
(* The main thread: run(). *)

\* poll returned 0: nobody connected during SHUTDOWN_CHECK_SECONDS.
PollTimeout ==
    /\ main = "poll"
    /\ \A c \in Clients : pc[c] # "waiting"
    /\ main' = "checkLiving"
    /\ UNCHANGED <<living, pc, threadVars, trans, lost>>

\* poll or accept returned -1, with EINTR or with another error.
PollFails ==
    /\ main = "poll"
    /\ SystemErrors
    /\ main' \in {"checkLiving", "exit2"}
    /\ UNCHANGED <<living, pc, threadVars, trans, lost>>

Accepts(c) == main = "poll" /\ pc[c] = "waiting"
Granted(c) == Strict => c \in RootClients

\* check_strict closes the connection of a client that is not root; run then
\* tests errno, which no call has set: it is EINTR or it is not.
RejectStrict(c) ==
    /\ Accepts(c) /\ ~Granted(c)
    /\ pc' = [pc EXCEPT ![c] = "closed"]
    /\ main' \in {"checkLiving", "exit2"}
    /\ UNCHANGED <<living, threadVars, trans, lost>>

LaunchServeThreadMutant(c) ==
    /\ Accepts(c) /\ Granted(c)
    /\ main' = "checkLiving"
    /\ \/ /\ pc' = [pc EXCEPT ![c] = "init"]
          /\ living' = living + 1
       \/ /\ SystemErrors
          /\ pc' = [pc EXCEPT ![c] = "closed"]
          /\ living' = living - 1
    /\ UNCHANGED <<threadVars, trans, lost>>

\* accept and launch_serve_thread: living_threads is incremented, and decremented
\* if pthread_create fails, in one section under the mutex.
LaunchServeThread(c) ==
    /\ Accepts(c) /\ Granted(c)
    /\ main' = "checkLiving"
    /\ \/ /\ pc' = [pc EXCEPT ![c] = "init"]
          /\ living' = living + 1
       \/ /\ SystemErrors
          /\ pc' = [pc EXCEPT ![c] = "closed"]
          /\ living' = living
    /\ UNCHANGED <<threadVars, trans, lost>>

CanStopLivingMutant ==
    /\ main = "checkLiving"
    /\ main' = IF living <= 1 THEN "checkTrans" ELSE "poll"
    /\ UNCHANGED <<living, pc, threadVars, trans, lost>>

\* can_stop, first section: no thread is living.
CanStopLiving ==
    /\ main = "checkLiving"
    /\ main' = IF living = 0 THEN "checkTrans" ELSE "poll"
    /\ UNCHANGED <<living, pc, threadVars, trans, lost>>

CanStopTransMutant ==
    /\ main = "checkTrans"
    /\ main' = IF (\A t \in TransIds : trans[t] = None) /\ ~RunForever
               THEN "exit0" ELSE "poll"
    /\ UNCHANGED <<living, pc, threadVars, trans, lost>>

\* can_stop, second section (afmpkg_request_can_stop): no transaction is pending.
CanStopTrans ==
    /\ main = "checkTrans"
    /\ trans' = Cleaned
    /\ lost' = lost \cup ExpiredIds
    /\ main' = IF (\A t \in TransIds : Cleaned[t] = None) /\ ~RunForever
               THEN "exit0" ELSE "poll"
    /\ UNCHANGED <<living, pc, threadVars>>

MainNext ==
    \/ PollTimeout
    \/ PollFails
    \/ \E c \in Clients : RejectStrict(c) \/ LaunchServeThread(c)
    \/ CanStopLiving
    \/ CanStopTrans

----------------------------------------------------------------------------
(* The thread of a client: serve_thread and afmpkg_serve. *)

Goto(c, from, to) ==
    /\ pc[c] = from
    /\ pc' = [pc EXCEPT ![c] = to]

\* afmpkg_request_error: the first error is kept.
Fail(c, code) == scode' = [scode EXCEPT ![c] = IF @ = "none" THEN code ELSE @]

\* afmpkg_request_init succeeds, or fails and leaves scode at 0: afmpkg_serve replies then
\* without receiving anything.
RequestInit(c) ==
    /\ \/ Goto(c, "init", "receive") /\ UNCHANGED rc
       \/ SystemErrors /\ Goto(c, "init", "reply") /\ rc' = [rc EXCEPT ![c] = "ENOMEM"]
    /\ UNCHANGED <<main, living, req, scode, msg, answer, trans, lost>>

\* receive, see AfmpkgRequest: a request is handed over.
Receive(c, r) ==
    /\ Goto(c, "receive", "process")
    /\ req' = [req EXCEPT ![c] = r]
    /\ UNCHANGED <<main, living, rc, scode, msg, answer, trans, lost>>

\* receive: a line was refused or recv failed.
ReceiveRefused(c) ==
    /\ Goto(c, "receive", "reply")
    /\ Fail(c, "refused")
    /\ UNCHANGED <<main, living, req, rc, msg, answer, trans, lost>>

\* afmpkg_request_process for no operation, and for the checks that are not
\* implemented.
ProcessNothing(c) ==
    /\ Goto(c, "process", "reply")
    /\ \/ req[c].kind = "Unset" /\ Fail(c, "EINVAL")
       \/ req[c].kind \in CheckKinds /\ UNCHANGED scode
    /\ UNCHANGED <<main, living, req, rc, msg, answer, trans, lost>>

\* afmpkg_request_process: afmpkg_install or afmpkg_uninstall returns.
ProcessPackage(c, result) ==
    /\ Goto(c, "process", IF req[c].transid = None THEN "sighup" ELSE "record")
    /\ req[c].kind \in PackageKinds
    /\ rc' = [rc EXCEPT ![c] = result]
    /\ IF result = "failed" THEN Fail(c, "failed") ELSE UNCHANGED scode
    /\ UNCHANGED <<main, living, req, msg, answer, trans, lost>>

\* A transaction after a result.  A failure decrements the counter of failures,
\* as the code does.
Counted(entry, result) ==
    IF result = "ok" THEN [entry EXCEPT !.success = (@ + 1) % UIntMod]
    ELSE [entry EXCEPT !.fail = (@ - 1) % UIntMod]

\* afmpkg_request_process: the result is counted in the transaction of the
\* request.
Record(c, oom) ==
    LET t == req[c].transid
        entry == GetTransaction(t, req[c].count, oom)
    IN
    /\ Goto(c, "record", "sighup")
    /\ oom => SystemErrors
    /\ trans' = [Cleaned EXCEPT ![t] =
                   IF entry = None THEN None ELSE Counted(entry, rc[c])]
    /\ IF entry = None THEN Fail(c, "ENOMEM") ELSE UNCHANGED scode
    /\ lost' = lost \cup ExpiredIds \cup (IF entry = None THEN {t} ELSE {})
    /\ UNCHANGED <<main, living, req, rc, msg, answer>>

StatusMutant(c, oom) ==
    LET t == req[c].transid
        entry == GetTransaction(t, 0, FALSE)
    IN
    /\ Goto(c, "process", "reply")
    /\ req[c].kind = "GetStatus"
    /\ oom => SystemErrors
    /\ trans' = Cleaned
    /\ IF entry = None \/ oom
       THEN Fail(c, "ENOMEM") /\ UNCHANGED msg
       ELSE /\ msg' = [msg EXCEPT ![c] = Numbers(entry)]
            /\ UNCHANGED scode
    /\ lost' = lost \cup ExpiredIds \cup (IF entry # None /\ oom THEN {t} ELSE {})
    /\ UNCHANGED <<main, living, req, rc, answer>>

\* afmpkg_request_process for a status request: the transaction is told and
\* removed; it is removed as well when asprintf fails.
Status(c, oom) ==
    LET t == req[c].transid
        entry == GetTransaction(t, 0, FALSE)
    IN
    /\ Goto(c, "process", "reply")
    /\ req[c].kind = "GetStatus"
    /\ oom => SystemErrors
    /\ trans' = [Cleaned EXCEPT ![t] = None]
    /\ IF entry = None \/ oom
       THEN Fail(c, "ENOMEM") /\ UNCHANGED msg
       ELSE /\ msg' = [msg EXCEPT ![c] = Numbers(entry)]
            /\ UNCHANGED scode
    /\ lost' = lost \cup ExpiredIds \cup (IF entry # None /\ oom THEN {t} ELSE {})
    /\ UNCHANGED <<main, living, req, rc, answer>>

\* afmpkg_serve: sighup_all after the addition or the removal of a package.
SighupAll(c) ==
    /\ Goto(c, "sighup", "reply")
    /\ UNCHANGED <<main, living, threadVars, trans, lost>>

ReplyMutant(c) ==
    /\ Goto(c, "reply", "leave")
    /\ answer' = [answer EXCEPT ![c] =
                    [status |-> IF rc[c] # "failed" THEN "OK" ELSE "ERROR", text |-> msg[c]]]
    /\ UNCHANGED <<main, living, req, rc, scode, msg, trans, lost>>

\* reply and afmpkg_request_make_reply_line.
Reply(c) ==
    /\ Goto(c, "reply", "leave")
    /\ answer' = [answer EXCEPT ![c] =
                    [status |-> IF scode[c] = "none" THEN "OK" ELSE "ERROR", text |-> msg[c]]]
    /\ UNCHANGED <<main, living, req, rc, scode, msg, trans, lost>>

\* serve_thread: the connection is closed, the thread is no more living.
Leave(c) ==
    /\ Goto(c, "leave", "closed")
    /\ living' = living - 1
    /\ UNCHANGED <<main, threadVars, trans, lost>>

ThreadNext(c) ==
    \/ RequestInit(c)
    \/ \E r \in Requests : Receive(c, r)
    \/ ReceiveRefused(c)
    \/ ProcessNothing(c)
    \/ \E result \in {"ok", "failed"} : ProcessPackage(c, result)
    \/ \E oom \in BOOLEAN : Record(c, oom) \/ Status(c, oom)
    \/ SighupAll(c)
    \/ Reply(c)
    \/ Leave(c)

Next ==
    \/ Tick
    \/ \E c \in Clients : Connect(c) \/ ThreadNext(c)
    \/ MainNext
    \/ ProcessEnd
    \/ Activate

Spec == Init /\ [][Next]_vars

\* The threads are scheduled, the time passes, poll returns at the latest after
\* its timeout, systemd starts the daemon.  A client that is connected sends its
\* request and shuts down: receive has no timeout, so the code relies on it.
Fairness ==
    /\ WF_vars(Tick)
    /\ WF_vars(MainNext)
    /\ WF_vars(ProcessEnd)
    /\ WF_vars(Activate)
    /\ \A c \in Clients : WF_vars(ThreadNext(c))

FairSpec == Spec /\ Fairness

----------------------------------------------------------------------------
(* Properties. *)

TypeOK ==
    /\ main \in {"poll", "checkLiving", "checkTrans", "exit0", "exit2", "dead"}
    /\ living \in Int
    /\ pc \in [Clients -> Running \cup {"away", "waiting", "closed", "killed"}]
    /\ req \in [Clients -> Requests \cup {None}]
    /\ rc \in [Clients -> {"none", "ok", "failed", "ENOMEM"}]
    /\ scode \in [Clients -> {"none", "refused", "EINVAL", "failed", "ENOMEM"}]
    /\ msg \in [Clients -> NumbersType \cup {None}]
    /\ answer \in [Clients -> [status : {"OK", "ERROR"}, text : NumbersType \cup {None}] \cup {None}]
    /\ trans \in [TransIds -> TransactionType \cup {None}]
    /\ lost \subseteq TransIds

\* living_threads is the number of threads that run: in whatever order threads
\* start, fail to start and end, the count the daemon stops on is exact.
LivingExact == living = Cardinality(Living)

\* When run() returns 0 no thread is serving a client and no transaction waits
\* for its status request, though can_stop looks at the two under two mutexes,
\* one after the other; and it never returns 0 with --forever.
StopsIdle ==
    main = "exit0" =>
        /\ Living = {}
        /\ \A t \in TransIds : trans[t] = None
        /\ ~RunForever

\* No client loses its connection because the daemon ends while serving it.
NoClientKilled == \A c \in Clients : pc[c] # "killed"

\* The request of c was received and processed: a package successfully, a status with its
\* numbers in the answer.
Processed(c) ==
    /\ req[c] # None /\ req[c].kind # "Unset"
    /\ req[c].kind \in PackageKinds => rc[c] = "ok"
    /\ req[c].kind = "GetStatus" => answer[c].text # None

\* The answer tells the truth about the request, whichever step fails: OK only if it was
\* processed, but when afmpkg_request_init fails, which afmpkg_serve answers with OK; ERROR
\* after a successful processing only if its transaction could not be recorded.
AnswerTruthful ==
    \A c \in Clients : answer[c] # None =>
        /\ answer[c].status = "OK" => Processed(c) \/ (req[c] = None /\ rc[c] = "ENOMEM")
        /\ answer[c].status = "ERROR" /\ rc[c] = "ok" =>
              req[c].transid # None /\ scode[c] = "ENOMEM"

\* The threads that counted a success for transaction t, as seen from outside.
Succeeded(t) ==
    {c \in Clients : /\ req[c] # None /\ req[c].transid = t /\ rc[c] = "ok"
                     /\ pc[c] \notin {"record"}}
Told(t) == {c \in Clients : msg[c] # None /\ req[c].transid = t}

\* Each successful processing is told by at most one status answer, whatever the
\* interleaving of the threads of the transaction with status requests, and by
\* exactly one once the transaction is told, unless its data was dropped because
\* it expired, the daemon ended or memory lacked.
SuccessToldOnce ==
    \A t \in TransIds :
        LET told == MapThenSumSet(LAMBDA c : msg[c].success, Told(t))
            pending == IF trans[t] = None THEN 0 ELSE trans[t].success
            succeeded == Cardinality(Succeeded(t))
        IN  /\ told + pending <= succeeded
            /\ t \notin lost => told + pending = succeeded

\* Without --forever the daemon ends once its clients are served and its
\* transactions told or expired.
EventuallyStops == RunForever \/ <>[](main = "dead")

\* A client that connects gets an answer (or its connection is closed when no
\* thread can be created), also when it connects while the daemon is stopping.
EveryClientServed ==
    \A c \in Clients : pc[c] = "waiting" ~> pc[c] = "closed"
=============================================================================
