----------------------- MODULE InstallerDaemon_proofs -----------------------
(***************************************************************************)
(* Theorems about InstallerDaemon, for any set of clients, of transactions *)
(* and of requests, and any options, and about PathTree, the tree of the   *)
(* files of a request, for any set of paths.                               *)
(***************************************************************************)
EXTENDS InstallerDaemon, PathTree, FiniteSetTheorems, SequenceTheorems, WellFoundedInduction, TLAPS

----------------------------------------------------------------------------
(* The table of transactions. *)

\* cleanup_transactions, get_transaction and the counters keep the table typed.
LEMMA TableType ==
    ASSUME TypeOK, NEW t \in TransIds, NEW count \in Nat, NEW oom \in BOOLEAN
    PROVE  /\ Cleaned \in [TransIds -> TransactionType \cup {None}]
           /\ GetTransaction(t, count, oom) \in TransactionType \cup {None}
  <1>1. Cleaned \in [TransIds -> TransactionType \cup {None}]
    BY DEF TypeOK, Cleaned
  <1>2. NewTransaction(count) \in TransactionType
    BY RetentionAssumption, UIntModAssumption DEF NewTransaction, TransactionType
  <1>3. QED
    BY <1>1, <1>2 DEF GetTransaction

LEMMA CountType ==
    ASSUME NEW entry \in TransactionType
    PROVE  /\ [entry EXCEPT !.success = (@ + 1) % UIntMod] \in TransactionType
           /\ [entry EXCEPT !.fail = (@ - 1) % UIntMod] \in TransactionType
           /\ Numbers(entry) \in NumbersType
  <1>1. /\ (entry.success + 1) % UIntMod \in 0..(UIntMod - 1)
        /\ (entry.fail - 1) % UIntMod \in 0..(UIntMod - 1)
    BY UIntModAssumption DEF TransactionType
  <1>2. \A n \in Nat : Signed(n) \in Int
    BY UIntModAssumption DEF Signed
  <1>3. Numbers(entry) \in NumbersType
    BY <1>2, UIntModAssumption DEF Numbers, NumbersType, TransactionType
  <1>4. QED
    BY <1>1, <1>3 DEF TransactionType

\* The time of a transaction passes.
LEMMA TickEntry ==
    ASSUME NEW entry \in TransactionType, entry.left # 0
    PROVE  /\ [entry EXCEPT !.left = @ - 1] \in TransactionType
           /\ [entry EXCEPT !.left = @ - 1].success = entry.success
  <1>1. entry.left \in 0..Retention
    BY DEF TransactionType
  <1>2. \A n \in 0..Retention : n # 0 => n - 1 \in 0..Retention
    BY RetentionAssumption
  <1>3. entry.left - 1 \in 0..Retention
    BY <1>1, <1>2
  <1>4. QED
    BY <1>3 DEF TransactionType

\* The kinds of requests a thread may have, with the fields they carry.
LEMMA RequestFields ==
    ASSUME NEW r \in Requests
    PROVE  /\ r.kind \in Kinds /\ r.count \in Nat /\ r.transid \in TransIds \cup {None}
           /\ r.kind = "GetStatus" => r.transid \in TransIds
  BY RequestsAssumption DEF ReceivedRequests, Kinds, PackageKinds, CheckKinds

----------------------------------------------------------------------------
(* Type correctness. *)

\* The steps of the main thread and of the system.
LEMMA TypeMain ==
    ASSUME TypeOK, MainNext \/ ProcessEnd \/ Activate \/ Tick \/ \E c \in Clients : Connect(c)
    PROVE  TypeOK'
  <1> USE DEF TypeOK, threadVars
  <1>1. CASE PollTimeout  BY <1>1 DEF PollTimeout
  <1>2. CASE PollFails  BY <1>2 DEF PollFails
  <1>3. ASSUME NEW c \in Clients, RejectStrict(c)  PROVE TypeOK'
    BY <1>3 DEF RejectStrict
  <1>4. ASSUME NEW c \in Clients, LaunchServeThread(c)  PROVE TypeOK'
    BY <1>4 DEF LaunchServeThread, Running
  <1>5. CASE CanStopLiving  BY <1>5 DEF CanStopLiving
  <1>6. CASE CanStopTrans
    BY <1>6 DEF CanStopTrans, Cleaned, ExpiredIds
  <1>7. CASE ProcessEnd  BY <1>7 DEF ProcessEnd
  <1>8. CASE Activate  BY <1>8 DEF Activate
  <1>9. CASE Tick
    <2>1. \A t \in TransIds : trans[t] # None /\ ~Expired(t) =>
             [trans[t] EXCEPT !.left = @ - 1] \in TransactionType
      BY TickEntry DEF Expired
    <2>2. trans' \in [TransIds -> TransactionType \cup {None}]
      BY <1>9, <2>1 DEF Tick
    <2>3. QED
      BY <1>9, <2>2 DEF Tick
  <1>10. ASSUME NEW c \in Clients, Connect(c)  PROVE TypeOK'
    BY <1>10 DEF Connect
  <1>11. QED
    BY <1>1, <1>2, <1>3, <1>4, <1>5, <1>6, <1>7, <1>8, <1>9, <1>10 DEF MainNext

\* The steps of a thread.
LEMMA TypeThread ==
    ASSUME TypeOK, NEW c \in Clients, ThreadNext(c), pc[c] = "process" \/ pc[c] = "record" => req[c] \in Requests,
           pc[c] = "record" => req[c].transid \in TransIds
    PROVE  TypeOK'
  <1> USE DEF TypeOK, threadVars, Goto, Fail, Running
  <1>1. CASE RequestInit(c)  BY <1>1 DEF RequestInit
  <1>2. ASSUME NEW r \in Requests, Receive(c, r)  PROVE TypeOK'
    BY <1>2 DEF Receive
  <1>3. CASE ReceiveRefused(c)  BY <1>3 DEF ReceiveRefused
  <1>4. CASE ProcessNothing(c)  BY <1>4 DEF ProcessNothing
  <1>5. ASSUME NEW result \in {"ok", "failed"}, ProcessPackage(c, result)  PROVE TypeOK'
    BY <1>5 DEF ProcessPackage
  <1>6. ASSUME NEW oom \in BOOLEAN, Record(c, oom)  PROVE TypeOK'
    <2> DEFINE t == req[c].transid
               entry == GetTransaction(t, req[c].count, oom)
    <2>1. t \in TransIds /\ req[c].count \in Nat
      BY <1>6, RequestFields DEF Record
    <2>2. Cleaned \in [TransIds -> TransactionType \cup {None}] /\ entry \in TransactionType \cup {None}
      BY <2>1, TableType
    <2>3. trans' \in [TransIds -> TransactionType \cup {None}]
      BY <1>6, <2>1, <2>2, CountType DEF Record, Counted
    <2>4. lost' \subseteq TransIds
      BY <1>6, <2>1 DEF Record, ExpiredIds
    <2>5. QED
      BY <1>6, <2>3, <2>4 DEF Record
  <1>7. ASSUME NEW oom \in BOOLEAN, Status(c, oom)  PROVE TypeOK'
    <2> DEFINE t == req[c].transid
               entry == GetTransaction(t, 0, FALSE)
    <2>1. t \in TransIds
      BY <1>7, RequestFields DEF Status
    <2>2. Cleaned \in [TransIds -> TransactionType \cup {None}] /\ entry \in TransactionType \cup {None}
      BY <2>1, TableType
    <2>3. trans' \in [TransIds -> TransactionType \cup {None}]
      BY <1>7, <2>1, <2>2 DEF Status
    <2>4. lost' \subseteq TransIds
      BY <1>7, <2>1 DEF Status, ExpiredIds
    <2>5. msg' \in [Clients -> NumbersType \cup {None}]
      BY <1>7, <2>1, <2>2, CountType DEF Status
    <2>6. QED
      BY <1>7, <2>3, <2>4, <2>5 DEF Status
  <1>8. CASE SighupAll(c)  BY <1>8 DEF SighupAll
  <1>9. CASE Reply(c)  BY <1>9 DEF Reply
  <1>10. CASE Leave(c)  BY <1>10 DEF Leave
  <1>11. QED
    BY <1>1, <1>2, <1>3, <1>4, <1>5, <1>6, <1>7, <1>8, <1>9, <1>10 DEF ThreadNext

----------------------------------------------------------------------------
(* The invariant.  TypeOK alone is not inductive: that a thread in "process" or *)
(* "record" has a request is needed to type the table.                          *)

ThreadHasRequest ==
    \A c \in Clients : /\ pc[c] \in {"process", "record"} => req[c] \in Requests
                       /\ pc[c] = "record" => req[c].transid \in TransIds

\* Only the main thread starts threads: once can_stop has seen that none is
\* living, none is until run is back to poll.
NoneLiving == main \in {"checkTrans", "exit0", "dead"} => Living = {}

NothingPending == main = "exit0" => (\A t \in TransIds : trans[t] = None) /\ ~RunForever

IInv == TypeOK /\ ThreadHasRequest /\ LivingExact /\ NoneLiving /\ NothingPending

\* How the threads that run change: the count follows.
LEMMA LivingFinite == IsFiniteSet(Living) /\ Cardinality(Living) \in Nat
  <1>1. Living \in SUBSET Clients  BY DEF Living
  <1>2. QED  BY <1>1, ClientsAssumption, FS_Subset, FS_CardinalityType

LEMMA LivingSteps ==
    ASSUME LivingExact, NEW c,
           \/ Living' = Living /\ living' = living
           \/ c \notin Living /\ Living' = Living \cup {c} /\ living' = living + 1
           \/ c \in Living /\ Living' = Living \ {c} /\ living' = living - 1
           \/ Living' = {} /\ living' = 0
    PROVE  LivingExact'
  <1>1. CASE Living' = Living /\ living' = living
    BY <1>1 DEF LivingExact
  <1>2. CASE c \notin Living /\ Living' = Living \cup {c} /\ living' = living + 1
    BY <1>2, LivingFinite, FS_AddElement DEF LivingExact
  <1>3. CASE c \in Living /\ Living' = Living \ {c} /\ living' = living - 1
    BY <1>3, LivingFinite, FS_RemoveElement DEF LivingExact
  <1>4. CASE Living' = {} /\ living' = 0
    BY <1>4, FS_EmptySet DEF LivingExact
  <1>5. QED
    BY <1>1, <1>2, <1>3, <1>4

LEMMA InitIInv == Init => IInv
  <1> SUFFICES ASSUME Init  PROVE IInv
    OBVIOUS
  <1>1. TypeOK  BY DEF Init, TypeOK
  <1>2. ThreadHasRequest  BY DEF Init, ThreadHasRequest
  <1>3. Living = {}  BY DEF Init, Living, Running
  <1>4. LivingExact  BY <1>3, FS_EmptySet DEF Init, LivingExact
  <1>5. QED  BY <1>1, <1>2, <1>3, <1>4 DEF Init, IInv, NoneLiving, NothingPending

\* The steps of a thread: it was living, so the daemon is not stopping.
LEMMA ThreadIInv ==
    ASSUME IInv, NEW c \in Clients, ThreadNext(c)
    PROVE  IInv'
  <1>1. pc[c] \in Running /\ c \in Living
    BY DEF ThreadNext, RequestInit, Receive, ReceiveRefused, ProcessNothing, ProcessPackage,
           Record, Status, SighupAll, Reply, Leave, Goto, Living, Running
  <1>2. TypeOK'
    BY TypeThread DEF IInv, ThreadHasRequest
  <1>3. /\ main' = main /\ main \notin {"checkTrans", "exit0", "dead"}
    BY <1>1 DEF IInv, NoneLiving, ThreadNext, RequestInit, Receive, ReceiveRefused,
           ProcessNothing, ProcessPackage, Record, Status, SighupAll, Reply, Leave
  <1>4. NoneLiving' /\ NothingPending'
    BY <1>3 DEF NoneLiving, NothingPending
  <1>5. CASE Leave(c)
    <2>1. Living' = Living \ {c} /\ living' = living - 1
      BY <1>5 DEF Leave, Goto, Living, Running, IInv, TypeOK
    <2>2. ThreadHasRequest'
      BY <1>5 DEF Leave, Goto, threadVars, IInv, TypeOK, ThreadHasRequest
    <2>3. QED  BY <1>1, <1>2, <1>4, <2>1, <2>2, LivingSteps DEF IInv
  <1>6. CASE ~Leave(c)
    <2>1. /\ living' = living
          /\ \E to \in Running : pc' = [pc EXCEPT ![c] = to]
      BY <1>6 DEF ThreadNext, RequestInit, Receive, ReceiveRefused, ProcessNothing,
           ProcessPackage, Record, Status, SighupAll, Reply, Goto, Running
    <2>2. Living' = Living
      BY <1>1, <2>1 DEF Living, IInv, TypeOK
    <2>3. ThreadHasRequest'
      <3> USE DEF IInv, TypeOK, ThreadHasRequest, Goto
      <3>1. CASE \E r \in Requests : Receive(c, r)  BY <3>1 DEF Receive
      <3>2. CASE \E result \in {"ok", "failed"} : ProcessPackage(c, result)
        BY <3>2, RequestFields DEF ProcessPackage
      <3>3. CASE ProcessNothing(c) \/ \E oom \in BOOLEAN : Record(c, oom) \/ Status(c, oom)
        BY <3>3 DEF ProcessNothing, Record, Status
      <3>4. CASE RequestInit(c) \/ ReceiveRefused(c) \/ SighupAll(c) \/ Reply(c)
        BY <3>4 DEF RequestInit, ReceiveRefused, SighupAll, Reply, threadVars
      <3>5. QED  BY <1>6, <3>1, <3>2, <3>3, <3>4 DEF ThreadNext
    <2>4. QED  BY <1>2, <1>4, <2>1, <2>2, <2>3, LivingSteps DEF IInv
  <1>7. QED  BY <1>5, <1>6

\* The steps of the main thread and of the system.
LEMMA MainIInv ==
    ASSUME IInv, MainNext \/ ProcessEnd \/ Activate \/ Tick \/ \E c \in Clients : Connect(c)
    PROVE  IInv'
  <1>1. TypeOK'  BY TypeMain DEF IInv
  <1>2. ThreadHasRequest'
    BY DEF IInv, TypeOK, ThreadHasRequest, MainNext, PollTimeout, PollFails, RejectStrict,
           LaunchServeThread, CanStopLiving, CanStopTrans, ProcessEnd, Activate, Tick, Connect,
           threadVars
  <1>3. CASE ProcessEnd
    <2>1. Living' = {} /\ living' = 0
      BY <1>3 DEF ProcessEnd, Living, Running, IInv, TypeOK
    <2>2. QED
      BY <1>1, <1>2, <1>3, <2>1, LivingSteps DEF IInv, ProcessEnd, NoneLiving, NothingPending
  <1>4. ASSUME NEW c \in Clients, LaunchServeThread(c)  PROVE IInv'
    <2>1. \/ Living' = Living /\ living' = living
          \/ c \notin Living /\ Living' = Living \cup {c} /\ living' = living + 1
      BY <1>4 DEF LaunchServeThread, Accepts, Living, Running, IInv, TypeOK
    <2>2. QED
      BY <1>1, <1>2, <1>4, <2>1, LivingSteps
         DEF IInv, LaunchServeThread, NoneLiving, NothingPending
  <1>5. CASE ~ProcessEnd /\ ~ \E c \in Clients : LaunchServeThread(c)
    <2>1. Living' = Living /\ living' = living
      BY <1>5 DEF MainNext, PollTimeout, PollFails, RejectStrict, Accepts, CanStopLiving,
           CanStopTrans, Activate, Tick, Connect, Living, Running, IInv, TypeOK
    <2>2. LivingExact'
      BY <2>1, LivingSteps DEF IInv
    <2>3. NoneLiving'
      <3>1. CASE CanStopLiving
        BY <2>1, <3>1, LivingFinite, FS_EmptySet DEF CanStopLiving, NoneLiving, IInv, LivingExact
      <3>2. CASE ~CanStopLiving
        BY <1>5, <2>1, <3>2 DEF MainNext, PollTimeout, PollFails, RejectStrict, CanStopTrans,
             Activate, Tick, Connect, NoneLiving, IInv
      <3>3. QED  BY <3>1, <3>2
    <2>4. NothingPending'
      BY <1>5 DEF MainNext, PollTimeout, PollFails, RejectStrict, Accepts, CanStopLiving,
           CanStopTrans, Activate, Tick, Connect, NothingPending, IInv
    <2>5. QED
      BY <1>1, <1>2, <2>2, <2>3, <2>4 DEF IInv
  <1>6. QED
    BY <1>3, <1>4, <1>5

LEMMA NextIInv == IInv /\ [Next]_vars => IInv'
  <1> SUFFICES ASSUME IInv, [Next]_vars  PROVE IInv'
    OBVIOUS
  <1>1. CASE UNCHANGED vars
    BY <1>1 DEF vars, IInv, TypeOK, ThreadHasRequest, LivingExact, Living, NoneLiving,
                NothingPending
  <1>2. CASE Next
    BY <1>2, ThreadIInv, MainIInv DEF Next
  <1>3. QED
    BY <1>1, <1>2

THEOREM Invariance == Spec => []IInv
  BY InitIInv, NextIInv, PTL DEF Spec

\* Type correctness of the daemon, whatever the clients and the options.
THEOREM TypeCorrect == Spec => []TypeOK
  <1>1. IInv => TypeOK  BY DEF IInv
  <1>2. QED  BY <1>1, Invariance, PTL

\* living_threads, on which run decides to stop, is exact at any time.
THEOREM LivingCorrect == Spec => []LivingExact
  <1>1. IInv => LivingExact  BY DEF IInv
  <1>2. QED  BY <1>1, Invariance, PTL

\* run returns 0 only when no thread serves a client and no transaction is
\* pending, though can_stop reads the two under two different mutexes.
THEOREM StopCorrect == Spec => []StopsIdle
  <1>1. IInv => StopsIdle  BY DEF IInv, NoneLiving, NothingPending, StopsIdle
  <1>2. QED  BY <1>1, Invariance, PTL

----------------------------------------------------------------------------
(* The clients of a daemon that meets no system error. *)

NoExit2 == main # "exit2" /\ NoClientKilled

\* If no system call fails and --strict rejects nobody, the daemon never ends
\* while it serves a client: the only other way out of run is can_stop.
THEOREM ClientsSafe ==
    ASSUME ~SystemErrors, ~Strict
    PROVE  Spec => []NoClientKilled
  <1>1. Init => NoExit2
    BY DEF Init, NoExit2, NoClientKilled
  <1>2. IInv /\ NoExit2 /\ [Next]_vars => NoExit2'
    <2> SUFFICES ASSUME IInv, NoExit2, [Next]_vars  PROVE NoExit2'
      OBVIOUS
    <2> USE DEF NoExit2, NoClientKilled
    <2>1. CASE UNCHANGED vars  BY <2>1 DEF vars
    <2>2. CASE ProcessEnd
      BY <2>2 DEF ProcessEnd, IInv, NoneLiving, Living, TypeOK
    <2>3. CASE MainNext \/ Activate \/ Tick \/ \E c \in Clients : Connect(c)
      BY <2>3 DEF MainNext, PollTimeout, PollFails, RejectStrict, Granted, LaunchServeThread,
           CanStopLiving, CanStopTrans, Activate, Tick, Connect, IInv, TypeOK
    <2>4. ASSUME NEW c \in Clients, ThreadNext(c)  PROVE NoExit2'
      BY <2>4 DEF ThreadNext, RequestInit, Receive, ReceiveRefused, ProcessNothing,
           ProcessPackage, Record, Status, SighupAll, Reply, Leave, Goto, IInv, TypeOK
    <2>5. QED  BY <2>1, <2>2, <2>3, <2>4 DEF Next
  <1>3. NoExit2 => NoClientKilled  BY DEF NoExit2
  <1>4. QED
    BY <1>1, <1>2, <1>3, Invariance, PTL DEF Spec

----------------------------------------------------------------------------
(* The answers. *)

\* What is known of the request of c once it is processed.
Done(c) ==
    /\ req[c].kind = "Unset" => scode[c] # "none"
    /\ req[c].kind \in PackageKinds => rc[c] \in {"ok", "failed"}
    /\ req[c].kind \notin PackageKinds => rc[c] = "none"
    /\ rc[c] = "failed" => scode[c] # "none"
    /\ rc[c] = "ok" /\ scode[c] # "none" => scode[c] = "ENOMEM" /\ req[c].transid # None
    /\ req[c].kind = "GetStatus" => scode[c] # "none" \/ msg[c] # None

\* The same when nothing was received.
Settled(c) ==
    /\ req[c] # None => Done(c)
    /\ req[c] = None => (rc[c] = "ENOMEM" \/ scode[c] # "none") /\ rc[c] \in {"none", "ENOMEM"}

\* The code of error follows the result from one step of the thread to the
\* next one, up to the answer.
Truth(c) ==
    /\ pc[c] \in {"away", "waiting", "init", "receive", "process"} =>
          rc[c] = "none" /\ scode[c] = "none" /\ msg[c] = None /\ answer[c] = None
    /\ pc[c] \in {"away", "waiting", "init", "receive"} => req[c] = None
    /\ pc[c] = "record" =>
          /\ req[c].kind \in PackageKinds /\ req[c].transid # None
          /\ (rc[c] = "ok" /\ scode[c] = "none") \/ (rc[c] = "failed" /\ scode[c] = "failed")
          /\ answer[c] = None
    /\ pc[c] \in {"sighup", "reply"} => answer[c] = None /\ Settled(c)
    /\ answer[c] # None =>
          /\ answer[c].status = (IF scode[c] = "none" THEN "OK" ELSE "ERROR")
          /\ answer[c].text = msg[c]
          /\ Settled(c)
          /\ pc[c] \in {"leave", "closed", "killed"}

TruthInv == \A c \in Clients : Truth(c)

\* A step of thread c leaves the others.
LEMMA TruthOthers ==
    ASSUME TruthInv, NEW c \in Clients, Truth(c)',
           \A d \in Clients : d # c =>
               /\ pc'[d] = pc[d] /\ req'[d] = req[d] /\ rc'[d] = rc[d] /\ scode'[d] = scode[d]
               /\ msg'[d] = msg[d] /\ answer'[d] = answer[d]
    PROVE  TruthInv'
  BY DEF TruthInv, Truth, Settled, Done

LEMMA TruthThread ==
    ASSUME IInv, TruthInv, NEW c \in Clients, ThreadNext(c)
    PROVE  TruthInv'
  <1> USE DEF threadVars, Goto
  <1>0. /\ TypeOK /\ Truth(c)
        /\ pc[c] \in {"process", "record"} => req[c] # None
    BY NoneAssumption DEF IInv, TruthInv, ThreadHasRequest
  <1>1. CASE RequestInit(c)
    <2>1. /\ pc[c] = "init" /\ \A d \in Clients : d # c => pc'[d] = pc[d] /\ rc'[d] = rc[d]
          /\ \/ pc'[c] = "receive" /\ rc'[c] = rc[c]
             \/ pc'[c] = "reply" /\ rc'[c] = "ENOMEM"
          /\ req' = req /\ scode' = scode /\ msg' = msg /\ answer' = answer
      BY <1>0, <1>1 DEF RequestInit, TypeOK
    <2>2. Truth(c)'
      BY <1>0, <2>1 DEF Truth, Settled
    <2>3. QED
      BY <2>1, <2>2, TruthOthers
  <1>2. ASSUME NEW r \in Requests, Receive(c, r)  PROVE TruthInv'
    <2>1. /\ pc[c] = "receive" /\ pc'[c] = "process"
          /\ \A d \in Clients : d # c => pc'[d] = pc[d] /\ req'[d] = req[d]
          /\ rc' = rc /\ scode' = scode /\ msg' = msg /\ answer' = answer
      BY <1>0, <1>2 DEF Receive, TypeOK
    <2>2. Truth(c)'
      BY <1>0, <2>1 DEF Truth
    <2>3. QED
      BY <2>1, <2>2, TruthOthers
  <1>3. CASE ReceiveRefused(c)
    <2>1. /\ pc[c] = "receive" /\ pc'[c] = "reply"
          /\ \A d \in Clients : d # c => pc'[d] = pc[d] /\ scode'[d] = scode[d]
          /\ req' = req /\ rc' = rc /\ msg' = msg /\ answer' = answer
      BY <1>0, <1>3 DEF ReceiveRefused, Fail, TypeOK
    <2>2. scode'[c] # "none"
      BY <1>0, <1>3 DEF ReceiveRefused, Fail, TypeOK
    <2>3. Truth(c)'
      BY <1>0, <2>1, <2>2 DEF Truth, Settled
    <2>4. QED
      BY <2>1, <2>3, TruthOthers
  <1>4. CASE ProcessNothing(c)
    <2>1. /\ pc[c] = "process" /\ pc'[c] = "reply"
          /\ \A d \in Clients : d # c => pc'[d] = pc[d] /\ scode'[d] = scode[d]
          /\ req' = req /\ rc' = rc /\ msg' = msg /\ answer' = answer
          /\ \/ req[c].kind = "Unset" /\ (scode[c] = "none" => scode'[c] = "EINVAL")
             \/ req[c].kind \in CheckKinds /\ scode' = scode
      BY <1>0, <1>4 DEF ProcessNothing, Fail, TypeOK
    <2>2. Truth(c)'
      BY <1>0, <2>1 DEF Truth, Settled, Done, PackageKinds, CheckKinds
    <2>3. QED
      BY <2>1, <2>2, TruthOthers
  <1>5. ASSUME NEW result \in {"ok", "failed"}, ProcessPackage(c, result)  PROVE TruthInv'
    <2>1. /\ pc[c] = "process" /\ req[c].kind \in PackageKinds
          /\ pc'[c] = IF req[c].transid = None THEN "sighup" ELSE "record"
          /\ \A d \in Clients : d # c => pc'[d] = pc[d] /\ scode'[d] = scode[d] /\ rc'[d] = rc[d]
          /\ req' = req /\ msg' = msg /\ answer' = answer /\ rc'[c] = result
          /\ IF result = "failed" THEN scode[c] = "none" => scode'[c] = "failed" ELSE scode' = scode
      BY <1>0, <1>5 DEF ProcessPackage, Fail, TypeOK
    <2>2. Truth(c)'
      BY <1>0, <2>1 DEF Truth, Settled, Done, PackageKinds
    <2>3. QED
      BY <2>1, <2>2, TruthOthers
  <1>6. ASSUME NEW oom \in BOOLEAN, Record(c, oom)  PROVE TruthInv'
    <2>1. /\ pc[c] = "record" /\ pc'[c] = "sighup"
          /\ \A d \in Clients : d # c => pc'[d] = pc[d] /\ scode'[d] = scode[d]
          /\ req' = req /\ rc' = rc /\ msg' = msg /\ answer' = answer
          /\ \/ scode' = scode
             \/ scode'[c] = IF scode[c] = "none" THEN "ENOMEM" ELSE scode[c]
      BY <1>0, <1>6 DEF Record, Fail, TypeOK
    <2>2. Truth(c)'
      BY <1>0, <2>1 DEF Truth, Settled, Done, PackageKinds
    <2>3. QED
      BY <2>1, <2>2, TruthOthers
  <1>7. ASSUME NEW oom \in BOOLEAN, Status(c, oom)  PROVE TruthInv'
    <2> DEFINE entry == GetTransaction(req[c].transid, 0, FALSE)
    <2>1. /\ pc[c] = "process" /\ pc'[c] = "reply" /\ req[c].kind = "GetStatus"
          /\ \A d \in Clients : d # c => pc'[d] = pc[d] /\ scode'[d] = scode[d] /\ msg'[d] = msg[d]
          /\ req' = req /\ rc' = rc /\ answer' = answer
          /\ \/ scode[c] = "none" => scode'[c] = "ENOMEM"
             \/ entry # None /\ msg'[c] = Numbers(entry)
      BY <1>0, <1>7 DEF Status, Fail, TypeOK
    <2>2. entry # None => Numbers(entry) \in NumbersType
      <3>1. req[c].transid \in TransIds
        BY <2>1, RequestFields DEF IInv, ThreadHasRequest
      <3>2. entry \in TransactionType \cup {None}
        BY <1>0, <3>1, TableType
      <3> HIDE DEF entry
      <3>3. QED
        BY <3>2, CountType
    <2> HIDE DEF entry
    <2>3. scode'[c] # "none" \/ msg'[c] # None
      BY <1>0, <2>1, <2>2, NoneAssumption DEF Truth
    <2>4. Truth(c)'
      BY <1>0, <2>1, <2>3 DEF Truth, Settled, Done, PackageKinds
    <2>5. QED
      BY <2>1, <2>4, TruthOthers
  <1>8. CASE SighupAll(c)
    <2>1. /\ pc[c] = "sighup" /\ pc'[c] = "reply" /\ \A d \in Clients : d # c => pc'[d] = pc[d]
          /\ UNCHANGED threadVars
      BY <1>0, <1>8 DEF SighupAll, TypeOK
    <2>2. Truth(c)'
      BY <1>0, <2>1 DEF Truth, Settled, Done
    <2>3. QED
      BY <2>1, <2>2, TruthOthers
  <1>9. CASE Reply(c)
    <2>1. /\ pc[c] = "reply" /\ pc'[c] = "leave"
          /\ \A d \in Clients : d # c => pc'[d] = pc[d] /\ answer'[d] = answer[d]
          /\ req' = req /\ rc' = rc /\ scode' = scode /\ msg' = msg
          /\ answer'[c].status = (IF scode[c] = "none" THEN "OK" ELSE "ERROR")
          /\ answer'[c].text = msg[c]
      BY <1>0, <1>9 DEF Reply, TypeOK
    <2>2. Truth(c)'
      BY <1>0, <2>1 DEF Truth, Settled, Done
    <2>3. QED
      BY <2>1, <2>2, TruthOthers
  <1>10. CASE Leave(c)
    <2>1. /\ pc[c] = "leave" /\ pc'[c] = "closed" /\ \A d \in Clients : d # c => pc'[d] = pc[d]
          /\ UNCHANGED threadVars
      BY <1>0, <1>10 DEF Leave, TypeOK
    <2>2. Truth(c)'
      BY <1>0, <2>1 DEF Truth, Settled, Done
    <2>3. QED
      BY <2>1, <2>2, TruthOthers
  <1>11. QED
    BY <1>1, <1>2, <1>3, <1>4, <1>5, <1>6, <1>7, <1>8, <1>9, <1>10 DEF ThreadNext

\* The main thread and the system only move the connections.
LEMMA TruthMain ==
    ASSUME IInv, TruthInv,
           MainNext \/ ProcessEnd \/ Activate \/ Tick \/ \E c \in Clients : Connect(c)
    PROVE  TruthInv'
  <1>1. UNCHANGED threadVars
    BY DEF MainNext, PollTimeout, PollFails, RejectStrict, LaunchServeThread, CanStopLiving,
           CanStopTrans, ProcessEnd, Activate, Tick, Connect
  <1>2. \A c \in Clients : \/ pc'[c] = pc[c]
                           \/ pc[c] = "away" /\ pc'[c] = "waiting"
                           \/ pc[c] = "waiting" /\ pc'[c] \in {"init", "closed"}
                           \/ pc'[c] = "killed"
    BY DEF MainNext, PollTimeout, PollFails, RejectStrict, LaunchServeThread, CanStopLiving,
           CanStopTrans, ProcessEnd, Activate, Tick, Connect, Accepts, IInv, TypeOK
  <1>3. ASSUME NEW c \in Clients  PROVE Truth(c)'
    <2>1. Truth(c)
      BY DEF TruthInv
    <2>2. /\ req'[c] = req[c] /\ rc'[c] = rc[c] /\ scode'[c] = scode[c]
          /\ msg'[c] = msg[c] /\ answer'[c] = answer[c]
      BY <1>1 DEF threadVars
    <2>3. QED
      BY <1>2, <2>1, <2>2 DEF Truth, Settled, Done
  <1>4. QED
    BY <1>3 DEF TruthInv

LEMMA TruthAlways == Spec => []TruthInv
  <1>1. Init => TruthInv
    BY DEF Init, TruthInv, Truth
  <1>2. IInv /\ TruthInv /\ [Next]_vars => TruthInv'
    <2> SUFFICES ASSUME IInv, TruthInv, [Next]_vars  PROVE TruthInv'
      OBVIOUS
    <2>1. CASE UNCHANGED vars
      BY <2>1 DEF vars, TruthInv, Truth, Settled, Done
    <2>2. CASE Next
      BY <2>2, TruthThread, TruthMain DEF Next
    <2>3. QED
      BY <2>1, <2>2
  <1>3. QED
    BY <1>1, <1>2, Invariance, PTL DEF Spec

\* The answer is true of the processing, in whatever order the threads run, for any
\* clients, requests and options; a failure of afmpkg_request_init, which afmpkg_serve
\* answers with OK, is the only exception.
THEOREM AnswerCorrect == Spec => []AnswerTruthful
  <1>1. TruthInv => AnswerTruthful
    BY DEF TruthInv, Truth, Settled, Done, AnswerTruthful, Processed, PackageKinds
  <1>2. QED
    BY <1>1, TruthAlways, PTL

----------------------------------------------------------------------------
(* The sum of the successes that the answers tell.  MapThenSumSet computes it   *)
(* by a recursive function over the subsets of the clients.                     *)

LEMMA LeastNumber ==
    ASSUME NEW T \in SUBSET Nat, T # {}
    PROVE  \E n \in T : \A k \in T : n <= k
  <1>1. IsWellFoundedOn(OpToRel(<, Nat), Nat)
    BY NatLessThanWellFounded
  <1>2. PICK n \in T : \A k \in T : ~(<<k, n>> \in OpToRel(<, Nat))
    BY <1>1, WFMin
  <1>3. \A k \in T : ~(k < n)
    BY <1>2 DEF OpToRel
  <1>4. QED
    BY <1>3

Pick(s) == CHOOSE x \in s : TRUE

\* g is the function the sum of w over the subsets of S is computed with.
Sums(g, w, S) ==
    g = [s \in SUBSET S |-> IF s = {} THEN 0 ELSE w[Pick(s)] + g[s \ {Pick(s)}]]

LEMMA SumStep ==
    ASSUME NEW S, NEW w, NEW g, Sums(g, w, S), NEW s \in SUBSET S
    PROVE  /\ s = {} => g[s] = 0
           /\ s # {} => Pick(s) \in s /\ g[s] = w[Pick(s)] + g[s \ {Pick(s)}]
  <1>1. g[s] = IF s = {} THEN 0 ELSE w[Pick(s)] + g[s \ {Pick(s)}]
    BY DEF Sums
  <1>2. s # {} => Pick(s) \in s
    BY DEF Pick
  <1>3. QED
    BY <1>1, <1>2

\* The sizes of the subsets of a finite set.
LEMMA Sizes ==
    ASSUME NEW S, IsFiniteSet(S), NEW s \in SUBSET S
    PROVE  /\ IsFiniteSet(s) /\ Cardinality(s) \in Nat /\ Cardinality(s) <= Cardinality(S)
           /\ s = {} <=> Cardinality(s) = 0
           /\ \A x \in s : s \ {x} \in SUBSET S /\ Cardinality(s \ {x}) = Cardinality(s) - 1
  <1>1. IsFiniteSet(s) /\ Cardinality(s) <= Cardinality(S)
    BY FS_Subset
  <1>2. Cardinality(s) \in Nat
    BY <1>1, FS_CardinalityType
  <1>3. s = {} <=> Cardinality(s) = 0
    BY <1>1, FS_EmptySet
  <1>4. \A x \in s : Cardinality(s \ {x}) = Cardinality(s) - 1
    BY <1>1, FS_RemoveElement
  <1>5. QED
    BY <1>1, <1>2, <1>3, <1>4

LEMMA SumType ==
    ASSUME NEW S, IsFiniteSet(S), NEW w \in [S -> Nat], NEW g, Sums(g, w, S)
    PROVE  \A s \in SUBSET S : g[s] \in Nat
  <1> DEFINE Bad == {n \in Nat : \E s \in SUBSET S : Cardinality(s) = n /\ g[s] \notin Nat}
  <1>1. SUFFICES ASSUME Bad # {}  PROVE FALSE
    BY Sizes
  <1>2. PICK n \in Bad : \A k \in Bad : n <= k
    <2>1. Bad \in SUBSET Nat
      OBVIOUS
    <2> HIDE DEF Bad
    <2>2. QED
      BY <1>1, <2>1, LeastNumber
  <1>3. PICK s \in SUBSET S : Cardinality(s) = n /\ g[s] \notin Nat
    OBVIOUS
  <1>4. s # {} /\ Pick(s) \in s /\ g[s] = w[Pick(s)] + g[s \ {Pick(s)}]
    BY <1>3, SumStep
  <1>5. s \ {Pick(s)} \in SUBSET S /\ Cardinality(s \ {Pick(s)}) = n - 1 /\ n - 1 \in Nat
    BY <1>3, <1>4, Sizes
  <1>6. g[s \ {Pick(s)}] \in Nat
    BY <1>2, <1>5
  <1>7. w[Pick(s)] \in Nat
    BY <1>4
  <1>8. QED
    BY <1>3, <1>4, <1>6, <1>7

\* The sum does not depend on the element taken first.
LEMMA SumRemove ==
    ASSUME NEW S, IsFiniteSet(S), NEW w \in [S -> Nat], NEW g, Sums(g, w, S),
           NEW s \in SUBSET S, NEW x \in s
    PROVE  g[s] = w[x] + g[s \ {x}]
  <1> DEFINE Bad == {n \in Nat : \E r \in SUBSET S : \E y \in r : Cardinality(r) = n /\ g[r] # w[y] + g[r \ {y}]}
  <1>1. SUFFICES ASSUME Bad # {}  PROVE FALSE
    <2>1. Cardinality(s) \in Nat
      BY Sizes
    <2>2. QED  BY <2>1
  <1>2. PICK n \in Bad : \A k \in Bad : n <= k
    <2>1. Bad \in SUBSET Nat
      OBVIOUS
    <2> HIDE DEF Bad
    <2>2. QED
      BY <1>1, <2>1, LeastNumber
  <1>3. PICK r \in SUBSET S : \E y \in r : Cardinality(r) = n /\ g[r] # w[y] + g[r \ {y}]
    OBVIOUS
  <1>4. PICK y \in r : Cardinality(r) = n /\ g[r] # w[y] + g[r \ {y}]
    BY <1>3
  <1>5. PICK p : p = Pick(r)
    OBVIOUS
  <1>6. p \in r /\ g[r] = w[p] + g[r \ {p}] /\ p # y
    <2>1. r # {} => Pick(r) \in r /\ g[r] = w[Pick(r)] + g[r \ {Pick(r)}]
      BY SumStep
    <2>2. QED  BY <1>4, <1>5, <2>1
  <1>7. /\ r \ {p} \in SUBSET S /\ Cardinality(r \ {p}) = n - 1 /\ y \in r \ {p} /\ n - 1 \in Nat
        /\ r \ {y} \in SUBSET S /\ Cardinality(r \ {y}) = n - 1 /\ p \in r \ {y}
    BY <1>4, <1>6, Sizes
  <1>8. /\ g[r \ {p}] = w[y] + g[(r \ {p}) \ {y}]
        /\ g[r \ {y}] = w[p] + g[(r \ {y}) \ {p}]
    <2>1. n - 1 \notin Bad
      <3>1. n \in Nat
        OBVIOUS
      <3> HIDE DEF Bad
      <3>2. QED  BY <1>2, <3>1
    <2>2. QED
      BY <1>7, <2>1
  <1>9. (r \ {p}) \ {y} = (r \ {y}) \ {p}
    OBVIOUS
  <1>10. PICK q : q = g[(r \ {p}) \ {y}]
    OBVIOUS
  <1>11. q \in Nat
    <2>1. (r \ {p}) \ {y} \in SUBSET S
      OBVIOUS
    <2>2. QED  BY <2>1, <1>10, SumType
  <1>12. w[p] \in Nat /\ w[y] \in Nat
    BY <1>6
  <1>13. g[r \ {p}] = w[y] + q /\ g[r \ {y}] = w[p] + q
    BY <1>8, <1>9, <1>10
  <1>14. QED
    BY <1>4, <1>6, <1>11, <1>12, <1>13

\* Two sums over the same set of the same values are equal.
LEMMA SumAgree ==
    ASSUME NEW S, IsFiniteSet(S), NEW w, NEW g, Sums(g, w, S),
           NEW T, NEW v, NEW h, Sums(h, v, T),
           NEW s \in SUBSET S, s \subseteq T, \A x \in s : w[x] = v[x]
    PROVE  g[s] = h[s]
  <1> DEFINE Bad == {n \in Nat : \E r \in SUBSET s : Cardinality(r) = n /\ g[r] # h[r]}
  <1>1. SUFFICES ASSUME Bad # {}  PROVE FALSE
    BY Sizes
  <1>2. PICK n \in Bad : \A k \in Bad : n <= k
    <2>1. Bad \in SUBSET Nat
      OBVIOUS
    <2> HIDE DEF Bad
    <2>2. QED
      BY <1>1, <2>1, LeastNumber
  <1>3. PICK r \in SUBSET s : Cardinality(r) = n /\ g[r] # h[r]
    OBVIOUS
  <1>4. PICK p : p = Pick(r)
    OBVIOUS
  <1>5. p \in r /\ g[r] = w[p] + g[r \ {p}] /\ h[r] = v[p] + h[r \ {p}]
    <2>1. r \in SUBSET S /\ r \in SUBSET T
      OBVIOUS
    <2>2. /\ r = {} => g[r] = 0
          /\ r # {} => p \in r /\ g[r] = w[p] + g[r \ {p}]
      <3>1. /\ r = {} => g[r] = 0
            /\ r # {} => Pick(r) \in r /\ g[r] = w[Pick(r)] + g[r \ {Pick(r)}]
        BY <2>1, SumStep
      <3>2. QED  BY <1>4, <3>1
    <2>3. /\ r = {} => h[r] = 0
          /\ r # {} => p \in r /\ h[r] = v[p] + h[r \ {p}]
      <3>1. /\ r = {} => h[r] = 0
            /\ r # {} => Pick(r) \in r /\ h[r] = v[Pick(r)] + h[r \ {Pick(r)}]
        BY <2>1, SumStep
      <3>2. QED  BY <1>4, <3>1
    <2>4. QED  BY <1>3, <2>2, <2>3
  <1>6. r \ {p} \in SUBSET s /\ Cardinality(r \ {p}) = n - 1 /\ n - 1 \in Nat
    <2>1. IsFiniteSet(s)
      BY Sizes
    <2>2. QED  BY <1>3, <1>5, <2>1, Sizes
  <1>7. g[r \ {p}] = h[r \ {p}]
    <2>1. n - 1 \notin Bad
      <3>1. n \in Nat
        OBVIOUS
      <3> HIDE DEF Bad
      <3>2. QED  BY <1>2, <3>1
    <2>2. QED  BY <1>6, <2>1
  <1>8. w[p] = v[p]
    BY <1>5
  <1>9. QED
    BY <1>3, <1>5, <1>7, <1>8

\* The function exists: it is built one size after the other.
LEMMA SumExists ==
    ASSUME NEW S, IsFiniteSet(S), NEW w
    PROVE  \E g : Sums(g, w, S)
  <1> DEFINE Upto(n) == {s \in SUBSET S : Cardinality(s) <= n}
             Part(g, n) == g = [s \in Upto(n) |-> IF s = {} THEN 0 ELSE w[Pick(s)] + g[s \ {Pick(s)}]]
             Bad == {n \in Nat : ~ \E g : Part(g, n)}
  <1>1. Cardinality(S) \in Nat
    BY FS_CardinalityType
  <1>2. Upto(Cardinality(S)) = SUBSET S
    BY Sizes
  <1>3. SUFFICES ASSUME Bad # {}  PROVE FALSE
    <2>1. SUFFICES \E g : Part(g, Cardinality(S))
      BY <1>2 DEF Sums
    <2>2. QED  BY <1>1, <1>3
  <1>4. PICK n \in Bad : \A k \in Bad : n <= k
    <2>1. Bad \in SUBSET Nat
      OBVIOUS
    <2> HIDE DEF Bad
    <2>2. QED
      BY <1>3, <2>1, LeastNumber
  <1>5. n # 0
    <2>1. Upto(0) = {{}}
      BY Sizes
    <2>2. Part([s \in Upto(0) |-> 0], 0)
      BY <2>1
    <2>3. QED  BY <1>4, <2>2
  <1>6. n - 1 \in Nat /\ n - 1 \notin Bad
    <2>1. n \in Nat
      OBVIOUS
    <2> HIDE DEF Bad
    <2>2. QED  BY <1>4, <1>5, <2>1
  <1>7. PICK g : Part(g, n - 1)
    BY <1>6
  <1>8. PICK h : h = [s \in Upto(n) |-> IF s = {} THEN 0 ELSE w[Pick(s)] + g[s \ {Pick(s)}]]
    OBVIOUS
  <1>9. \A s \in Upto(n - 1) : s \in Upto(n) /\ h[s] = g[s]
    <2>1. SUFFICES ASSUME NEW s \in Upto(n - 1)  PROVE s \in Upto(n) /\ h[s] = g[s]
      OBVIOUS
    <2>2. s \in Upto(n)
      BY Sizes
    <2>3. g[s] = IF s = {} THEN 0 ELSE w[Pick(s)] + g[s \ {Pick(s)}]
      <3> HIDE DEF Upto
      <3> QED BY <1>7
    <2>4. h[s] = IF s = {} THEN 0 ELSE w[Pick(s)] + g[s \ {Pick(s)}]
      <3> HIDE DEF Upto
      <3> QED BY <1>8, <2>2
    <2>5. QED  BY <2>2, <2>3, <2>4
  <1>10. \A s \in Upto(n) : s # {} => s \ {Pick(s)} \in Upto(n - 1)
    <2>1. SUFFICES ASSUME NEW s \in Upto(n), s # {}  PROVE s \ {Pick(s)} \in Upto(n - 1)
      OBVIOUS
    <2>2. Pick(s) \in s
      BY <2>1 DEF Pick
    <2>3. Cardinality(s \ {Pick(s)}) = Cardinality(s) - 1 /\ Cardinality(s) \in Nat
      BY <2>2, Sizes
    <2>4. QED  BY <2>3
  <1>11. \A s \in Upto(n) : (IF s = {} THEN 0 ELSE w[Pick(s)] + g[s \ {Pick(s)}])
                            = (IF s = {} THEN 0 ELSE w[Pick(s)] + h[s \ {Pick(s)}])
    <2> HIDE DEF Upto
    <2> QED  BY <1>9, <1>10
  <1>12. Part(h, n)
    <2> HIDE DEF Upto
    <2> QED  BY <1>8, <1>11
  <1>13. QED
    BY <1>4, <1>12

\* The sum of the successes told, as MapThenSumSet computes it.
ToldSum(m, S) == MapThenSumSet(LAMBDA c : m[c].success, S)

LEMMA ToldSumIs ==
    ASSUME NEW S, IsFiniteSet(S), NEW m
    PROVE  \E g : Sums(g, [c \in S |-> m[c].success], S) /\ ToldSum(m, S) = g[S]
  <1> DEFINE w == [c \in S |-> m[c].success]
             Body(g) == [s \in SUBSET S |-> IF s = {} THEN 0 ELSE m[CHOOSE x \in s : TRUE].success
                                                   + g[s \ {CHOOSE x \in s : TRUE}]]
  <1>1. \A g : [s \in SUBSET S |-> IF s = {} THEN 0 ELSE w[Pick(s)] + g[s \ {Pick(s)}]] = Body(g)
    <2>1. \A s \in SUBSET S : s # {} => w[Pick(s)] = m[CHOOSE x \in s : TRUE].success
      <3>1. \A s \in SUBSET S : s # {} => Pick(s) \in S
        BY DEF Pick
      <3>2. \A s \in SUBSET S : s # {} => w[Pick(s)] = m[Pick(s)].success
        BY <3>1
      <3>3. QED  BY <3>2 DEF Pick
    <2> HIDE DEF w
    <2>2. QED  BY <2>1 DEF Pick
  <1>2. PICK g0 : g0 = Body(g0)
    <2>1. PICK g0 : Sums(g0, w, S)
      <3> HIDE DEF w
      <3> QED BY SumExists
    <2>2. g0 = Body(g0)
      <3> HIDE DEF w, Body
      <3> QED BY <1>1, <2>1 DEF Sums
    <2>3. QED
      <3> HIDE DEF Body
      <3> QED BY <2>2
  <1>3. PICK g : g = CHOOSE h : h = Body(h)
    OBVIOUS
  <1>4. g = Body(g)
    <2> HIDE DEF Body
    <2> QED BY <1>2, <1>3
  <1>5. ToldSum(m, S) = g[S]
    BY <1>3 DEF ToldSum, MapThenSumSet, MapThenFoldSet
  <1>6. Sums(g, w, S)
    <2> HIDE DEF w, Body
    <2> QED BY <1>1, <1>4 DEF Sums
  <1>7. QED
    BY <1>5, <1>6

LEMMA ToldSumSame ==
    ASSUME NEW S, IsFiniteSet(S), NEW m, NEW k, \A c \in S : m[c] = k[c]
    PROVE  ToldSum(m, S) = ToldSum(k, S)
  <1>1. PICK w : w = [c \in S |-> m[c].success]
    OBVIOUS
  <1>2. PICK v : v = [c \in S |-> k[c].success]
    OBVIOUS
  <1>3. PICK g : Sums(g, w, S) /\ ToldSum(m, S) = g[S]
    BY <1>1, ToldSumIs
  <1>4. PICK h : Sums(h, v, S) /\ ToldSum(k, S) = h[S]
    BY <1>2, ToldSumIs
  <1>5. \A c \in S : w[c] = v[c]
    BY <1>1, <1>2
  <1>6. g[S] = h[S]
    BY <1>3, <1>4, <1>5, SumAgree
  <1>7. QED
    BY <1>3, <1>4, <1>6

LEMMA ToldSumNat ==
    ASSUME NEW S, IsFiniteSet(S), NEW m, \A c \in S : m[c].success \in Nat
    PROVE  ToldSum(m, S) \in Nat
  <1>1. PICK w : w = [c \in S |-> m[c].success]
    OBVIOUS
  <1>2. PICK g : Sums(g, w, S) /\ ToldSum(m, S) = g[S]
    BY <1>1, ToldSumIs
  <1>3. w \in [S -> Nat]
    BY <1>1
  <1>4. g[S] \in Nat
    BY <1>2, <1>3, SumType
  <1>5. QED
    BY <1>2, <1>4

LEMMA ToldSumNone ==
    ASSUME NEW m
    PROVE  ToldSum(m, {}) = 0
  <1>1. PICK w : w = [c \in {} |-> m[c].success]
    OBVIOUS
  <1>2. IsFiniteSet({})
    BY FS_EmptySet
  <1>3. PICK g : Sums(g, w, {}) /\ ToldSum(m, {}) = g[{}]
    BY <1>1, <1>2, ToldSumIs
  <1>4. g[{}] = 0
    BY <1>3, SumStep
  <1>5. QED
    BY <1>3, <1>4

LEMMA ToldSumAdd ==
    ASSUME NEW S, IsFiniteSet(S), NEW m, NEW c, c \notin S, m[c].success \in Nat,
           \A d \in S : m[d].success \in Nat
    PROVE  ToldSum(m, S \cup {c}) = ToldSum(m, S) + m[c].success
  <1>1. PICK T : T = S \cup {c}
    OBVIOUS
  <1>2. IsFiniteSet(T) /\ S \in SUBSET T /\ T \ {c} = S
    BY <1>1, FS_AddElement
  <1>3. PICK w : w = [d \in T |-> m[d].success]
    OBVIOUS
  <1>4. PICK v : v = [d \in S |-> m[d].success]
    OBVIOUS
  <1>5. PICK g : Sums(g, w, T) /\ ToldSum(m, T) = g[T]
    BY <1>2, <1>3, ToldSumIs
  <1>6. PICK h : Sums(h, v, S) /\ ToldSum(m, S) = h[S]
    BY <1>4, ToldSumIs
  <1>7. w \in [T -> Nat] /\ w[c] = m[c].success /\ \A d \in S : w[d] = v[d]
    BY <1>1, <1>3, <1>4
  <1>8. g[T] = w[c] + g[T \ {c}]
    <2>1. c \in T /\ T \in SUBSET T
      BY <1>1
    <2>2. QED  BY <1>2, <1>5, <1>7, <2>1, SumRemove
  <1>9. g[S] = h[S]
    <2>1. S \in SUBSET T /\ S \subseteq S
      BY <1>2
    <2>2. QED  BY <1>2, <1>5, <1>6, <1>7, <2>1, SumAgree
  <1>10. g[S] \in Nat
    BY <1>2, <1>5, <1>7, SumType
  <1>11. ToldSum(m, T) = w[c] + ToldSum(m, S)
    BY <1>2, <1>5, <1>6, <1>8, <1>9
  <1>12. ToldSum(m, S) \in Nat
    BY <1>6, <1>9, <1>10
  <1>13. \A i, j \in Nat : i + j = j + i
    OBVIOUS
  <1>14. ToldSum(m, T) = ToldSum(m, S) + m[c].success
    BY <1>7, <1>11, <1>12, <1>13, Zenon
  <1>15. QED
    BY <1>1, <1>14

----------------------------------------------------------------------------
(* Each success is told at most once. *)

Pending(t) == IF trans[t] = None THEN 0 ELSE trans[t].success
ToldOf(t) == ToldSum(msg, Told(t))

\* What SuccessToldOnce says of transaction t.
Balance(t) ==
    /\ ToldOf(t) + Pending(t) <= Cardinality(Succeeded(t))
    /\ t \notin lost => ToldOf(t) + Pending(t) = Cardinality(Succeeded(t))

\* The numbers told are numbers of successes: they are not negative.
ToldNat == \A c \in Clients : msg[c] # None => msg[c].success \in Nat

BalanceInv == ToldNat /\ \A t \in TransIds : Balance(t)

LEMMA BalanceIs == BalanceInv => SuccessToldOnce
  BY DEF BalanceInv, Balance, SuccessToldOnce, Pending, ToldOf, ToldSum

\* The sets and the numbers of the balance.
LEMMA BalanceType ==
    ASSUME TypeOK, BalanceInv, NEW t \in TransIds
    PROVE  /\ IsFiniteSet(Told(t)) /\ ToldOf(t) \in Nat
           /\ Pending(t) \in Nat
           /\ IsFiniteSet(Succeeded(t)) /\ Cardinality(Succeeded(t)) \in Nat
  <1>1. Told(t) \in SUBSET Clients /\ Succeeded(t) \in SUBSET Clients
    BY DEF Told, Succeeded
  <1>2. IsFiniteSet(Told(t)) /\ IsFiniteSet(Succeeded(t)) /\ Cardinality(Succeeded(t)) \in Nat
    BY <1>1, ClientsAssumption, FS_Subset, FS_CardinalityType
  <1>3. \A c \in Told(t) : msg[c].success \in Nat
    BY DEF Told, BalanceInv, ToldNat
  <1>4. ToldOf(t) \in Nat
    <2>1. PICK m : m = msg
      OBVIOUS
    <2>2. PICK S : S = Told(t)
      OBVIOUS
    <2>3. ToldSum(m, S) \in Nat
      BY <1>2, <1>3, <2>1, <2>2, ToldSumNat
    <2>4. QED
      BY <2>1, <2>2, <2>3 DEF ToldOf
  <1>5. Pending(t) \in Nat
    BY UIntModAssumption DEF Pending, TypeOK, TransactionType
  <1>6. QED
    BY <1>2, <1>4, <1>5

\* A step that tells nothing of t leaves its sum.
LEMMA ToldOfKept ==
    ASSUME TypeOK, NEW t \in TransIds, Told(t)' = Told(t),
           \A c \in Told(t) : msg'[c] = msg[c]
    PROVE  ToldOf(t)' = ToldOf(t)
  <1>1. IsFiniteSet(Told(t))
    <2>1. Told(t) \in SUBSET Clients
      BY DEF Told
    <2>2. QED  BY <2>1, ClientsAssumption, FS_Subset
  <1>2. PICK m : m = msg
    OBVIOUS
  <1>3. PICK k : k = msg'
    OBVIOUS
  <1>4. PICK S : S = Told(t)
    OBVIOUS
  <1>5. ToldSum(m, S) = ToldSum(k, S)
    <2>1. IsFiniteSet(S) /\ \A c \in S : m[c] = k[c]
      BY <1>1, <1>2, <1>3, <1>4
    <2>2. QED  BY <2>1, ToldSumSame
  <1>6. ToldOf(t) = ToldSum(m, S)
    BY <1>2, <1>4 DEF ToldOf
  <1>7. ToldOf(t)' = ToldSum(k, S)
    BY <1>3, <1>4 DEF ToldOf
  <1>8. QED
    BY <1>5, <1>6, <1>7

\* The four ways a step can change the balance of t: not at all, by a loss, by
\* one more success, by an answer.
LEMMA BalanceKept ==
    ASSUME TypeOK, BalanceInv, NEW t \in TransIds, Told(t)' = Told(t),
           \A c \in Told(t) : msg'[c] = msg[c],
           Pending(t)' = Pending(t), Succeeded(t)' = Succeeded(t), lost \subseteq lost'
    PROVE  Balance(t)'
  <1>1. ToldOf(t)' = ToldOf(t)
    BY ToldOfKept
  <1>2. Balance(t)
    BY DEF BalanceInv
  <1>3. QED
    BY <1>1, <1>2 DEF Balance

LEMMA BalanceLost ==
    ASSUME TypeOK, BalanceInv, NEW t \in TransIds, Told(t)' = Told(t),
           \A c \in Told(t) : msg'[c] = msg[c],
           Pending(t)' = 0, Succeeded(t) \subseteq Succeeded(t)', t \in lost'
    PROVE  Balance(t)'
  <1>1. ToldOf(t)' = ToldOf(t)
    BY ToldOfKept
  <1>2. Balance(t)
    BY DEF BalanceInv
  <1>3. PICK A : A = Succeeded(t)
    OBVIOUS
  <1>4. PICK B : B = Succeeded(t)'
    OBVIOUS
  <1>5. B \in SUBSET Clients
    BY <1>4 DEF Succeeded
  <1>6. IsFiniteSet(B) /\ Cardinality(B) \in Nat
    BY <1>5, ClientsAssumption, FS_Subset, FS_CardinalityType
  <1>7. Cardinality(A) <= Cardinality(B)
    BY <1>3, <1>4, <1>6, FS_Subset
  <1>8. /\ ToldOf(t) \in Nat /\ Pending(t) \in Nat /\ Cardinality(A) \in Nat
    BY <1>3, BalanceType
  <1>9. ToldOf(t) + Pending(t) <= Cardinality(A)
    BY <1>2, <1>3 DEF Balance
  <1>10. ToldOf(t)' + Pending(t)' <= Cardinality(B)
    BY <1>1, <1>6, <1>7, <1>8, <1>9
  <1>11. QED
    BY <1>4, <1>10 DEF Balance

LEMMA BalanceSucceeded ==
    ASSUME TypeOK, BalanceInv, NEW t \in TransIds, Told(t)' = Told(t),
           \A d \in Told(t) : msg'[d] = msg[d],
           NEW c \in Clients, c \notin Succeeded(t), Succeeded(t)' = Succeeded(t) \cup {c},
           \/ Pending(t)' = Pending(t) + 1 /\ lost \subseteq lost'
           \/ Pending(t)' = 1 /\ t \in lost'
    PROVE  Balance(t)'
  <1>1. ToldOf(t)' = ToldOf(t)
    BY ToldOfKept
  <1>2. Balance(t)
    BY DEF BalanceInv
  <1>3. /\ ToldOf(t) \in Nat /\ Pending(t) \in Nat /\ Cardinality(Succeeded(t)) \in Nat
        /\ IsFiniteSet(Succeeded(t))
    BY BalanceType
  <1>4. Cardinality(Succeeded(t))' = Cardinality(Succeeded(t)) + 1
    <2>1. PICK A : A = Succeeded(t)
      OBVIOUS
    <2>2. Cardinality(A \cup {c}) = Cardinality(A) + 1
      BY <1>3, <2>1, FS_AddElement
    <2>3. QED  BY <2>1, <2>2
  <1>5. QED
    BY <1>1, <1>2, <1>3, <1>4 DEF Balance

LEMMA BalanceTold ==
    ASSUME TypeOK, BalanceInv, NEW t \in TransIds, NEW c \in Clients, c \notin Told(t),
           Told(t)' = Told(t) \cup {c}, \A d \in Told(t) : msg'[d] = msg[d],
           msg'[c].success = Pending(t), Pending(t)' = 0, Succeeded(t)' = Succeeded(t),
           lost \subseteq lost'
    PROVE  Balance(t)'
  <1>1. Balance(t)
    BY DEF BalanceInv
  <1>2. /\ ToldOf(t) \in Nat /\ Pending(t) \in Nat /\ Cardinality(Succeeded(t)) \in Nat
        /\ IsFiniteSet(Told(t))
    BY BalanceType
  <1>3. PICK m : m = msg
    OBVIOUS
  <1>4. PICK k : k = msg'
    OBVIOUS
  <1>5. PICK S : S = Told(t)
    OBVIOUS
  <1>6. /\ IsFiniteSet(S) /\ c \notin S /\ k[c].success \in Nat
        /\ \A d \in S : k[d].success \in Nat
        /\ \A d \in S : m[d] = k[d]
    <2>1. \A d \in S : m[d].success \in Nat
      BY <1>3, <1>5 DEF Told, BalanceInv, ToldNat
    <2>2. QED
      BY <1>2, <1>3, <1>4, <1>5, <2>1
  <1>7. ToldSum(k, S \cup {c}) = ToldSum(k, S) + k[c].success
    BY <1>6, ToldSumAdd
  <1>8. ToldSum(k, S) = ToldSum(m, S)
    BY <1>6, ToldSumSame
  <1>9. ToldOf(t) = ToldSum(m, S)
    BY <1>3, <1>5 DEF ToldOf
  <1>10. ToldOf(t)' = ToldSum(k, S \cup {c})
    BY <1>4, <1>5 DEF ToldOf
  <1>11. ToldOf(t)' = ToldOf(t) + Pending(t)
    BY <1>4, <1>7, <1>8, <1>9, <1>10
  <1>12. QED
    BY <1>1, <1>2, <1>11 DEF Balance

\* The connections that never recorded anything: their request is not known yet
\* or their result is not.
LEMMA BalanceQuiet ==
    ASSUME TypeOK, BalanceInv, NEW c \in Clients,
           \A d \in Clients : d # c => pc'[d] = pc[d] /\ req'[d] = req[d] /\ rc'[d] = rc[d],
           msg' = msg, trans' = trans, lost' = lost,
           \/ rc[c] # "ok" /\ rc'[c] # "ok"
           \/ /\ req'[c] = req[c] /\ rc'[c] = rc[c]
              /\ pc[c] = "record" <=> pc'[c] = "record"
           \/ req'[c] = req[c] /\ rc[c] # "ok" /\ req[c].transid \notin TransIds
           \/ req'[c] = req[c] /\ rc[c] # "ok" /\ pc'[c] = "record",
           msg[c] = None \/ req'[c] = req[c]
    PROVE  BalanceInv'
  <1>1. ASSUME NEW t \in TransIds  PROVE Balance(t)'
    <2>1. Told(t)' = Told(t)
      BY DEF Told
    <2>2. Succeeded(t)' = Succeeded(t)
      BY DEF Succeeded
    <2>3. Pending(t)' = Pending(t)
      BY DEF Pending
    <2>4. QED
      BY <2>1, <2>2, <2>3, BalanceKept
  <1>2. ToldNat'
    BY DEF BalanceInv, ToldNat
  <1>3. QED
    BY <1>1, <1>2 DEF BalanceInv

\* What the cleaning of the table does to transaction t.
LEMMA CleanedPending ==
    ASSUME TypeOK, NEW t \in TransIds
    PROVE  \/ Cleaned[t] = trans[t] /\ t \notin ExpiredIds
           \/ Cleaned[t] = None /\ t \in ExpiredIds
  BY DEF Cleaned, ExpiredIds

\* A step that only drops the transactions that expired.
LEMMA BalanceClean ==
    ASSUME TypeOK, BalanceInv, UNCHANGED <<req, rc, msg>>, NEW t \in TransIds,
           Succeeded(t)' = Succeeded(t), trans'[t] = Cleaned[t],
           lost \cup ExpiredIds \subseteq lost'
    PROVE  Balance(t)'
  <1>1. Told(t)' = Told(t)
    BY DEF Told
  <1>2. CASE Cleaned[t] = trans[t]
    <2>1. Pending(t)' = Pending(t)
      BY <1>2 DEF Pending
    <2>2. QED  BY <1>1, <2>1, BalanceKept
  <1>3. CASE Cleaned[t] = None /\ t \in ExpiredIds
    <2>1. Pending(t)' = 0
      BY <1>3 DEF Pending
    <2>2. QED  BY <1>1, <1>3, <2>1, BalanceLost
  <1>4. QED  BY <1>2, <1>3, CleanedPending

LEMMA BalanceMain ==
    ASSUME IInv, TruthInv, BalanceInv,
           MainNext \/ ProcessEnd \/ Activate \/ Tick \/ \E c \in Clients : Connect(c)
    PROVE  BalanceInv'
  <1>0. TypeOK
    BY DEF IInv
  <1>1. UNCHANGED threadVars
    BY DEF MainNext, PollTimeout, PollFails, RejectStrict, LaunchServeThread, CanStopLiving,
           CanStopTrans, ProcessEnd, Activate, Tick, Connect
  <1>2. ToldNat'
    BY <1>1 DEF BalanceInv, ToldNat, threadVars
  <1>3. SUFFICES ASSUME NEW t \in TransIds  PROVE Balance(t)'
    BY <1>2 DEF BalanceInv
  <1>4. Told(t)' = Told(t)
    BY <1>1 DEF Told, threadVars
  <1>5. CASE ~ProcessEnd
    <2>1. Succeeded(t)' = Succeeded(t)
      <3>1. \A c \in Clients : pc[c] = "record" <=> pc'[c] = "record"
        BY <1>0, <1>5 DEF MainNext, PollTimeout, PollFails, RejectStrict, LaunchServeThread,
             CanStopLiving, CanStopTrans, Activate, Tick, Connect, Accepts, TypeOK
      <3>2. QED  BY <1>1, <3>1 DEF Succeeded, threadVars
    <2>2. CASE CanStopTrans
      BY <1>0, <1>1, <2>1, <2>2, BalanceClean DEF CanStopTrans, threadVars
    <2>3. CASE ~CanStopTrans
      <3>1. lost' = lost
        BY <1>5, <2>3 DEF MainNext, PollTimeout, PollFails, RejectStrict, LaunchServeThread,
             CanStopLiving, Activate, Tick, Connect
      <3>2. Pending(t)' = Pending(t)
        <4>1. CASE Tick
          <5>1. \/ trans'[t] = trans[t]
                \/ trans[t] # None /\ trans[t].left # 0 /\ trans'[t] = [trans[t] EXCEPT !.left = @ - 1]
            BY <4>1 DEF Tick, Expired
          <5>2. CASE trans'[t] = trans[t]
            BY <5>2 DEF Pending
          <5>3. CASE trans[t] # None /\ trans[t].left # 0 /\ trans'[t] = [trans[t] EXCEPT !.left = @ - 1]
            <6>1. trans[t] \in TransactionType
              BY <1>0, <5>3 DEF TypeOK
            <6>2. trans'[t] \in TransactionType /\ trans'[t].success = trans[t].success
              BY <5>3, <6>1, TickEntry
            <6>3. trans'[t] # None
              BY <6>2, NoneAssumption
            <6>4. QED  BY <5>3, <6>2, <6>3 DEF Pending
          <5>4. QED  BY <5>1, <5>2, <5>3
        <4>2. CASE ~Tick
          BY <1>5, <2>3, <4>2 DEF MainNext, PollTimeout, PollFails, RejectStrict,
             LaunchServeThread, CanStopLiving, Activate, Connect, Pending
        <4>3. QED  BY <4>1, <4>2
      <3>3. QED  BY <1>0, <1>1, <1>4, <2>1, <3>1, <3>2, BalanceKept DEF threadVars
    <2>4. QED  BY <2>2, <2>3
  <1>6. CASE ProcessEnd
    <2>1. Pending(t)' = 0 /\ lost \subseteq lost'
      BY <1>6 DEF ProcessEnd, Pending
    <2>2. Succeeded(t) \subseteq Succeeded(t)'
      BY <1>0, <1>1, <1>6 DEF ProcessEnd, Succeeded, threadVars, TypeOK, Running
    <2>3. CASE t \in lost'
      BY <1>0, <1>1, <1>4, <2>1, <2>2, <2>3, BalanceLost DEF threadVars
    <2>4. CASE t \notin lost'
      <3>1. trans[t] = None /\ \A c \in Living : req[c] # None => req[c].transid # t
        BY <1>6, <2>4 DEF ProcessEnd
      <3>2. Succeeded(t)' = Succeeded(t)
        BY <1>0, <1>1, <1>6, <3>1 DEF ProcessEnd, Succeeded, threadVars, TypeOK, Living, Running
      <3>3. Pending(t)' = Pending(t)
        BY <2>1, <3>1 DEF Pending
      <3>4. QED  BY <1>0, <1>1, <1>4, <2>1, <3>2, <3>3, BalanceKept DEF threadVars
    <2>5. QED  BY <2>3, <2>4
  <1>7. QED  BY <1>5, <1>6

\* Fewer clients than half the range of an unsigned: the counters do not wrap.
NoWrap == Cardinality(Clients) < UIntMod \div 2

LEMMA PendingSmall ==
    ASSUME NoWrap, TypeOK, BalanceInv, NEW t \in TransIds
    PROVE  /\ Pending(t) < UIntMod \div 2
           /\ \A c \in Clients \ Succeeded(t) : Pending(t) + 1 < UIntMod \div 2
  <1>1. PICK A : A = Succeeded(t)
    OBVIOUS
  <1>2. A \in SUBSET Clients
    BY <1>1 DEF Succeeded
  <1>3. IsFiniteSet(A) /\ Cardinality(A) \in Nat /\ Cardinality(A) <= Cardinality(Clients)
    BY <1>2, ClientsAssumption, Sizes
  <1>4. Cardinality(Clients) \in Nat
    BY ClientsAssumption, FS_CardinalityType
  <1>5. ToldOf(t) \in Nat /\ Pending(t) \in Nat /\ ToldOf(t) + Pending(t) <= Cardinality(A)
    BY <1>1, BalanceType DEF BalanceInv, Balance
  <1>6. PICK half : half = UIntMod \div 2
    OBVIOUS
  <1>7. half \in Int /\ Cardinality(Clients) < half
    BY <1>6, UIntModAssumption DEF NoWrap
  <1>8. Pending(t) < half
    BY <1>3, <1>4, <1>5, <1>7
  <1>9. ASSUME NEW c \in Clients \ A  PROVE Pending(t) + 1 < half
    <2>1. Cardinality(A) + 1 <= Cardinality(Clients)
      <3>1. A \in SUBSET (Clients \ {c})
        BY <1>2
      <3>2. IsFiniteSet(Clients \ {c}) /\ Cardinality(Clients \ {c}) = Cardinality(Clients) - 1
        BY ClientsAssumption, FS_RemoveElement
      <3>3. Cardinality(A) <= Cardinality(Clients \ {c})
        BY <3>1, <3>2, Sizes
      <3>4. QED  BY <1>3, <1>4, <3>2, <3>3
    <2>2. QED  BY <1>3, <1>4, <1>5, <1>7, <2>1
  <1>10. QED
    BY <1>1, <1>6, <1>8, <1>9

\* A result is counted in its transaction.
LEMMA BalanceRecord ==
    ASSUME NoWrap, IInv, TruthInv, BalanceInv, NEW c \in Clients, NEW oom \in BOOLEAN, Record(c, oom)
    PROVE  BalanceInv'
  <1> DEFINE u == req[c].transid
             entry == GetTransaction(u, req[c].count, oom)
  <1>0. TypeOK /\ Truth(c)
    BY DEF IInv, TruthInv
  <1>1. /\ pc[c] = "record" /\ pc' = [pc EXCEPT ![c] = "sighup"] /\ UNCHANGED <<req, rc, msg>>
        /\ trans' = [Cleaned EXCEPT ![u] = IF entry = None THEN None ELSE Counted(entry, rc[c])]
        /\ lost' = lost \cup ExpiredIds \cup (IF entry = None THEN {u} ELSE {})
    BY DEF Record, Goto
  <1>2. u \in TransIds /\ req[c] \in Requests /\ req[c].count \in Nat
    BY <1>1, RequestFields DEF IInv, ThreadHasRequest
  <1>3. Cleaned \in [TransIds -> TransactionType \cup {None}] /\ entry \in TransactionType \cup {None}
    BY <1>0, <1>2, TableType
  <1>4. rc[c] \in {"ok", "failed"} /\ c \notin Succeeded(u)
    BY <1>0, <1>1 DEF Truth, Succeeded
  <1>5. ToldNat'
    BY <1>1 DEF BalanceInv, ToldNat
  <1>6. req[c] # None
    BY <1>2, NoneAssumption
  <1>7. ASSUME NEW t \in TransIds  PROVE Balance(t)'
    <2>1. Told(t)' = Told(t) /\ \A d \in Told(t) : msg'[d] = msg[d]
      BY <1>1 DEF Told
    <2>2. Succeeded(t)' = IF t = u /\ rc[c] = "ok" THEN Succeeded(t) \cup {c} ELSE Succeeded(t)
      BY <1>0, <1>1, <1>6 DEF Succeeded, TypeOK
    <2>3. CASE t # u
      <3>1. trans'[t] = Cleaned[t]
        BY <1>1, <1>3, <2>3
      <3>2. QED
        BY <1>0, <1>1, <2>2, <2>3, <3>1, BalanceClean
    <2>4. CASE t = u /\ entry = None
      <3>1. trans'[t] = None
        BY <1>1, <1>2, <1>3, <2>4
      <3>2. Pending(t)' = 0 /\ t \in lost'
        BY <1>1, <2>4, <3>1 DEF Pending
      <3>3. Succeeded(t) \subseteq Succeeded(t)'
        BY <2>2
      <3>4. QED
        BY <1>0, <2>1, <3>2, <3>3, BalanceLost
    <2>5. CASE t = u /\ entry # None
      <3>1. trans'[t] = Counted(entry, rc[c]) /\ entry \in TransactionType /\ lost \cup ExpiredIds \subseteq lost'
        BY <1>1, <1>2, <1>3, <2>5
      <3>2. \/ entry.success = Pending(t)
            \/ entry.success = 0 /\ t \in lost'
        <4>1. CASE Cleaned[t] = None /\ t \in ExpiredIds
          <5>1. entry.success = 0
            BY <2>5, <4>1 DEF GetTransaction, NewTransaction
          <5>2. QED  BY <3>1, <4>1, <5>1
        <4>2. CASE Cleaned[t] = trans[t]
          BY <2>5, <4>2 DEF GetTransaction, NewTransaction, Pending
        <4>3. QED  BY <1>0, <4>1, <4>2, CleanedPending
      <3>3. PICK e : e = entry
        OBVIOUS
      <3>4. e \in TransactionType /\ trans'[t] = Counted(e, rc[c])
        BY <3>1, <3>3
      <3>5. CASE rc[c] = "ok"
        <4>1. trans'[t] \in TransactionType /\ trans'[t].success = (e.success + 1) % UIntMod
          BY <3>4, <3>5, CountType DEF Counted, TransactionType
        <4>2. e.success + 1 < UIntMod /\ e.success \in Nat
          <5>1. Pending(t) + 1 < UIntMod \div 2 /\ Pending(t) \in Nat
            BY <1>0, <1>4, <2>5, PendingSmall, BalanceType
          <5>2. UIntMod \div 2 <= UIntMod /\ UIntMod \div 2 \in Int
            BY UIntModAssumption
          <5>3. e.success = Pending(t) \/ e.success = 0
            BY <3>2, <3>3
          <5>4. PICK half : half = UIntMod \div 2
            OBVIOUS
          <5>5. QED  BY <5>1, <5>2, <5>3, <5>4, UIntModAssumption
        <4>3. trans'[t].success = e.success + 1
          BY <4>1, <4>2, UIntModAssumption
        <4>4. Pending(t)' = e.success + 1
          BY <4>1, <4>3, NoneAssumption DEF Pending
        <4>5. \/ Pending(t)' = Pending(t) + 1 /\ lost \subseteq lost'
              \/ Pending(t)' = 1 /\ t \in lost'
          BY <3>1, <3>2, <3>3, <4>4
        <4>6. QED
          BY <1>0, <1>4, <2>1, <2>2, <2>5, <3>5, <4>5, BalanceSucceeded
      <3>6. CASE rc[c] # "ok"
        <4>1. trans'[t] \in TransactionType /\ trans'[t].success = e.success
          BY <3>4, <3>6, CountType DEF Counted, TransactionType
        <4>2. Pending(t)' = e.success
          BY <4>1, NoneAssumption DEF Pending
        <4>3. Succeeded(t)' = Succeeded(t)
          BY <2>2, <3>6
        <4>4. CASE e.success = Pending(t)
          BY <1>0, <2>1, <3>1, <4>2, <4>3, <4>4, BalanceKept
        <4>5. CASE e.success = 0 /\ t \in lost'
          BY <1>0, <2>1, <4>2, <4>3, <4>5, BalanceLost
        <4>6. QED  BY <3>2, <3>3, <4>4, <4>5
      <3>7. QED  BY <3>5, <3>6
    <2>6. QED  BY <2>3, <2>4, <2>5
  <1>8. QED  BY <1>5, <1>7 DEF BalanceInv

\* A status request takes its transaction out of the table and tells it.
LEMMA BalanceStatus ==
    ASSUME NoWrap, IInv, TruthInv, BalanceInv, NEW c \in Clients, NEW oom \in BOOLEAN, Status(c, oom)
    PROVE  BalanceInv'
  <1>u. PICK u : u = req[c].transid
    OBVIOUS
  <1> DEFINE entry == GetTransaction(u, 0, FALSE)
  <1>0. TypeOK /\ Truth(c)
    BY DEF IInv, TruthInv
  <1>1. /\ pc[c] = "process" /\ pc' = [pc EXCEPT ![c] = "reply"] /\ UNCHANGED <<req, rc>>
        /\ trans' = [Cleaned EXCEPT ![u] = None] /\ req[c].kind = "GetStatus"
        /\ lost' = lost \cup ExpiredIds \cup (IF entry # None /\ oom THEN {u} ELSE {})
        /\ IF entry = None \/ oom THEN msg' = msg ELSE msg' = [msg EXCEPT ![c] = Numbers(entry)]
    BY <1>u DEF Status, Goto
  <1>2. u \in TransIds /\ req[c] \in Requests
    BY <1>1, <1>u, RequestFields DEF IInv, ThreadHasRequest
  <1>3. /\ Cleaned \in [TransIds -> TransactionType \cup {None}]
        /\ entry = Cleaned[u] /\ entry \in TransactionType \cup {None}
    BY <1>0, <1>2, TableType DEF GetTransaction
  <1>4. msg[c] = None /\ \A t \in TransIds : c \notin Told(t)
    BY <1>0, <1>1 DEF Truth, Told
  <1>5. \A d \in Clients : d # c => msg'[d] = msg[d]
    BY <1>0, <1>1 DEF TypeOK
  <1>6. ASSUME NEW t \in TransIds  PROVE Succeeded(t)' = Succeeded(t)
    BY <1>0, <1>1 DEF Succeeded, TypeOK
  <1>7. \A t \in TransIds : t # u => trans'[t] = Cleaned[t]
    BY <1>1, <1>3
  <1>8. Pending(u)' = 0
    BY <1>1, <1>2, <1>3 DEF Pending
  <1>9. lost \cup ExpiredIds \subseteq lost'
    BY <1>1
  <1>10. CASE msg' = msg /\ (entry = None \/ oom)
    <2>1. ToldNat'
      BY <1>10 DEF BalanceInv, ToldNat
    <2>2. ASSUME NEW t \in TransIds  PROVE Balance(t)'
      <3>1. Told(t)' = Told(t)
        BY <1>1, <1>10 DEF Told
      <3>2. CASE t # u
        BY <1>0, <1>1, <1>6, <1>7, <1>9, <1>10, <3>2, BalanceClean
      <3>3. CASE t = u /\ t \in lost'
        BY <1>0, <1>6, <1>8, <1>10, <3>1, <3>3, BalanceLost
      <3>4. CASE t = u /\ t \notin lost'
        <4>1. entry = None /\ trans[u] = None
          BY <1>0, <1>1, <1>2, <1>3, <1>9, <1>10, <3>4, CleanedPending
        <4>2. Pending(t)' = Pending(t)
          BY <1>8, <3>4, <4>1 DEF Pending
        <4>3. QED
          BY <1>0, <1>6, <1>9, <1>10, <3>1, <4>2, BalanceKept
      <3>5. QED  BY <3>2, <3>3, <3>4
    <2>3. QED  BY <2>1, <2>2 DEF BalanceInv
  <1>11. CASE msg' = [msg EXCEPT ![c] = Numbers(entry)] /\ entry # None
    <2>1. trans[u] = entry /\ entry \in TransactionType
      BY <1>0, <1>2, <1>3, <1>11, CleanedPending
    <2>2. msg'[c] = Numbers(entry)
      BY <1>0, <1>11 DEF TypeOK
    <2>3. Pending(u) = entry.success /\ Pending(u) \in Nat /\ Pending(u) < UIntMod \div 2
      BY <1>0, <1>2, <1>11, <2>1, BalanceType, PendingSmall DEF Pending
    <2>4. Signed(Pending(u)) = Pending(u)
      <3> HIDE DEF entry
      <3>1. PICK half : half = UIntMod \div 2
        OBVIOUS
      <3>2. PICK n : n = Pending(u)
        OBVIOUS
      <3>3. half \in Int /\ n \in Nat /\ n < half
        BY <2>3, <3>1, <3>2, UIntModAssumption
      <3>4. ~(n >= half)
        BY <3>3
      <3>5. QED  BY <3>1, <3>2, <3>4 DEF Signed
    <2>5. msg'[c].success = Pending(u) /\ msg'[c] # None
      <3>1. PICK e : e = entry
        OBVIOUS
      <3>2. Numbers(e) \in NumbersType /\ Numbers(e).success = Signed(e.success)
        BY <2>1, <3>1, CountType DEF Numbers
      <3>3. QED
        BY <2>2, <2>3, <2>4, <3>1, <3>2, NoneAssumption
    <2>6. ToldNat'
      BY <1>5, <2>3, <2>5 DEF BalanceInv, ToldNat
    <2>7. ASSUME NEW t \in TransIds  PROVE Balance(t)'
      <3>1. Told(t)' = IF t = u THEN Told(t) \cup {c} ELSE Told(t)
        BY <1>1, <1>u, <1>4, <1>5, <2>5 DEF Told
      <3>2. \A d \in Told(t) : msg'[d] = msg[d]
        BY <1>4, <1>5 DEF Told
      <3>3. CASE t = u
        BY <1>0, <1>4, <1>6, <1>8, <1>9, <2>5, <3>1, <3>2, <3>3, BalanceTold
      <3>4. CASE t # u
        <4>1. CASE Cleaned[t] = trans[t]
          <5>1. Pending(t)' = Pending(t)
            BY <1>7, <3>4, <4>1 DEF Pending
          <5>2. QED  BY <1>0, <1>6, <1>9, <3>1, <3>2, <3>4, <5>1, BalanceKept
        <4>2. CASE Cleaned[t] = None /\ t \in ExpiredIds
          <5>1. Pending(t)' = 0 /\ t \in lost'
            BY <1>7, <1>9, <3>4, <4>2 DEF Pending
          <5>2. QED  BY <1>0, <1>6, <3>1, <3>2, <3>4, <5>1, BalanceLost
        <4>3. QED  BY <1>0, <4>1, <4>2, CleanedPending
      <3>5. QED  BY <3>3, <3>4
    <2>8. QED  BY <2>6, <2>7 DEF BalanceInv
  <1>12. QED  BY <1>1, <1>10, <1>11

LEMMA BalanceThread ==
    ASSUME NoWrap, IInv, TruthInv, BalanceInv, NEW c \in Clients, ThreadNext(c)
    PROVE  BalanceInv'
  <1> USE DEF threadVars, Goto
  <1>0. TypeOK /\ Truth(c)
    BY DEF IInv, TruthInv
  <1>a. CASE RequestInit(c)
    <2>1. /\ \A d \in Clients : d # c => pc'[d] = pc[d] /\ req'[d] = req[d] /\ rc'[d] = rc[d]
          /\ msg' = msg /\ trans' = trans /\ lost' = lost /\ req'[c] = req[c]
          /\ rc[c] = "none" /\ rc'[c] \in {"none", "ENOMEM"}
      BY <1>0, <1>a DEF RequestInit, TypeOK, Truth
    <2>2. QED
      BY <1>0, <2>1, BalanceQuiet
  <1>1. CASE SighupAll(c) \/ Reply(c) \/ Leave(c) \/ ReceiveRefused(c) \/ ProcessNothing(c)
    <2>1. /\ \A d \in Clients : d # c => pc'[d] = pc[d] /\ req'[d] = req[d] /\ rc'[d] = rc[d]
          /\ msg' = msg /\ trans' = trans /\ lost' = lost /\ req'[c] = req[c] /\ rc'[c] = rc[c]
          /\ pc[c] # "record" /\ pc'[c] # "record"
      BY <1>0, <1>1 DEF SighupAll, Reply, Leave, ReceiveRefused, ProcessNothing, TypeOK
    <2>2. QED
      BY <1>0, <2>1, BalanceQuiet
  <1>2. ASSUME NEW r \in Requests, Receive(c, r)  PROVE BalanceInv'
    <2>1. /\ \A d \in Clients : d # c => pc'[d] = pc[d] /\ req'[d] = req[d] /\ rc'[d] = rc[d]
          /\ msg' = msg /\ trans' = trans /\ lost' = lost /\ rc'[c] = rc[c] /\ rc[c] = "none"
          /\ msg[c] = None
      BY <1>0, <1>2 DEF Receive, TypeOK, Truth
    <2>2. QED
      BY <1>0, <2>1, BalanceQuiet
  <1>3. ASSUME NEW result \in {"ok", "failed"}, ProcessPackage(c, result)  PROVE BalanceInv'
    <2>1. /\ \A d \in Clients : d # c => pc'[d] = pc[d] /\ req'[d] = req[d] /\ rc'[d] = rc[d]
          /\ msg' = msg /\ trans' = trans /\ lost' = lost /\ rc[c] = "none"
          /\ req'[c] = req[c]
          /\ req[c].transid = None \/ pc'[c] = "record"
      BY <1>0, <1>3 DEF ProcessPackage, TypeOK, Truth
    <2>2. req[c].transid = None => req[c].transid \notin TransIds
      BY NoneAssumption
    <2>3. QED
      BY <1>0, <2>1, <2>2, BalanceQuiet
  <1>4. QED
    BY <1>a, <1>1, <1>2, <1>3, BalanceRecord, BalanceStatus DEF ThreadNext

\* Each success is told by at most one status answer, and by exactly one unless
\* data was dropped: for any clients, transactions, requests and options, as long
\* as the counters cannot wrap.
THEOREM ToldOnceCorrect ==
    ASSUME NoWrap
    PROVE  Spec => []SuccessToldOnce
  <1>1. Init => BalanceInv
    <2>1. SUFFICES ASSUME Init  PROVE BalanceInv
      OBVIOUS
    <2>2. ToldNat
      BY <2>1 DEF Init, ToldNat
    <2>3. ASSUME NEW t \in TransIds  PROVE Balance(t)
      <3>1. Told(t) = {} /\ Succeeded(t) = {}
        BY <2>1 DEF Init, Told, Succeeded
      <3>2. Pending(t) = 0
        BY <2>1 DEF Init, Pending
      <3>3. PICK m : m = msg
        OBVIOUS
      <3>4. ToldOf(t) = 0
        <4>1. ToldSum(m, {}) = 0
          BY ToldSumNone
        <4>2. QED  BY <3>1, <3>3, <4>1 DEF ToldOf
      <3>5. Cardinality(Succeeded(t)) = 0
        BY <3>1, FS_EmptySet
      <3>6. QED  BY <3>2, <3>4, <3>5 DEF Balance
    <2>4. QED  BY <2>2, <2>3 DEF BalanceInv
  <1>2. IInv /\ TruthInv /\ BalanceInv /\ [Next]_vars => BalanceInv'
    <2> SUFFICES ASSUME IInv, TruthInv, BalanceInv, [Next]_vars  PROVE BalanceInv'
      OBVIOUS
    <2>0. TypeOK
      BY DEF IInv
    <2>1. CASE UNCHANGED vars
      <3>1. ToldNat'
        BY <2>1 DEF vars, BalanceInv, ToldNat
      <3>2. ASSUME NEW t \in TransIds  PROVE Balance(t)'
        <4>1. /\ Told(t)' = Told(t) /\ Succeeded(t)' = Succeeded(t) /\ Pending(t)' = Pending(t)
              /\ msg' = msg /\ lost' = lost
          BY <2>1 DEF vars, Told, Succeeded, Pending
        <4>2. QED  BY <2>0, <4>1, BalanceKept
      <3>3. QED  BY <3>1, <3>2 DEF BalanceInv
    <2>2. CASE Next
      BY <2>2, BalanceThread, BalanceMain DEF Next
    <2>3. QED
      BY <2>1, <2>2
  <1>3. QED
    BY <1>1, <1>2, BalanceIs, TruthAlways, Invariance, PTL DEF Spec

----------------------------------------------------------------------------
(* Numbers and folds of functions over the first indexes. *)

\* A set of numbers that holds 0 and the successor of each of its numbers.
LEMMA EveryNumber ==
    ASSUME NEW T \in SUBSET Nat, 0 \in T, \A k \in Nat : k \in T => k + 1 \in T
    PROVE  T = Nat
  <1>1. SUFFICES ASSUME Nat \ T # {}  PROVE FALSE
    OBVIOUS
  <1>2. PICK n \in Nat \ T : \A k \in Nat \ T : n <= k
    BY <1>1, LeastNumber
  <1>3. n # 0 /\ n - 1 \in Nat /\ (n - 1) + 1 = n
    BY <1>2
  <1>4. n - 1 \in T
    BY <1>2, <1>3
  <1>5. QED
    BY <1>2, <1>3, <1>4

LEMMA MaxIn ==
    ASSUME NEW n \in Nat, NEW s \in SUBSET (1..n), s # {}
    PROVE  Max(s) \in s /\ \A x \in s : x <= Max(s)
  <1> DEFINE T == {k \in Nat : \E x \in s : k = n - x}
  <1>1. T \in SUBSET Nat /\ T # {}
    <2>1. PICK x \in s : TRUE
      OBVIOUS
    <2>2. x \in 1..n
      OBVIOUS
    <2>3. n - x \in Nat
      BY <2>2
    <2>4. n - x \in T
      BY <2>3
    <2>5. QED  BY <2>4
  <1>2. PICK k \in T : \A j \in T : k <= j
    <2> HIDE DEF T
    <2> QED  BY <1>1, LeastNumber
  <1>3. PICK m \in s : k = n - m
    OBVIOUS
  <1>4. \A x \in s : x <= m
    <2>1. SUFFICES ASSUME NEW x \in s  PROVE x <= m
      OBVIOUS
    <2>2. x \in 1..n /\ m \in 1..n
      OBVIOUS
    <2>3. n - x \in T
      BY <2>2
    <2>4. k <= n - x
      BY <1>2, <2>3
    <2>5. QED  BY <1>3, <2>2, <2>4
  <1>5. \E y \in s : \A x \in s : y >= x
    BY <1>4
  <1>6. \A x \in s : Max(s) >= x
    BY <1>5 DEF Max
  <1>7. Max(s) \in s
    BY <1>5 DEF Max
  <1>8. QED
    BY <1>6, <1>7

LEMMA MaxFirst ==
    ASSUME NEW k \in Nat, k # 0
    PROVE  Max(1..k) = k /\ (1..k) \ {Max(1..k)} = 1..(k - 1) /\ 1..k # {}
  <1>1. 1..k \in SUBSET (1..k) /\ k \in 1..k
    OBVIOUS
  <1>2. Max(1..k) \in 1..k /\ \A x \in 1..k : x <= Max(1..k)
    BY <1>1, MaxIn
  <1>3. Max(1..k) = k
    BY <1>1, <1>2
  <1>4. (1..k) \ {k} = 1..(k - 1)
    OBVIOUS
  <1>5. QED
    BY <1>1, <1>3, <1>4

\* A function that folds phi from base, over the subsets of 1..n.
FoldStep(f, phi, base, s) == IF s = {} THEN base ELSE phi[<<f[s \ {Max(s)}], Max(s)>>]

Folding(f, n, W, phi, base) ==
    f \in [SUBSET (1..n) -> W] /\ \A s \in SUBSET (1..n) : f[s] = FoldStep(f, phi, base, s)

LEMMA FoldExists ==
    ASSUME NEW n, NEW W, NEW base, NEW phi, n \in Nat, base \in W, phi \in [W \X (1..n) -> W]
    PROVE  \E f : Folding(f, n, W, phi, base)
  <1> DEFINE D == SUBSET (1..n)
             Solves(f, k) == \A s \in D : s \subseteq 1..k => f[s] = FoldStep(f, phi, base, s)
             T == {k \in Nat : \E f \in [D -> W] : Solves(f, k)}
  <1>0. \A s \in D : s # {} => /\ s \ {Max(s)} \in D /\ Max(s) \in 1..n
                               /\ \A k \in Nat : s \subseteq 1..(k + 1) => s \ {Max(s)} \subseteq 1..k
    <2>1. SUFFICES ASSUME NEW s \in D, s # {}
          PROVE  /\ s \ {Max(s)} \in D /\ Max(s) \in 1..n
                 /\ \A k \in Nat : s \subseteq 1..(k + 1) => s \ {Max(s)} \subseteq 1..k
      OBVIOUS
    <2>2. Max(s) \in s /\ \A x \in s : x <= Max(s)
      BY <2>1, MaxIn
    <2>3. ASSUME NEW k \in Nat, s \subseteq 1..(k + 1), NEW x \in s \ {Max(s)}  PROVE x \in 1..k
      <3>1. PICK m : m = Max(s)
        OBVIOUS
      <3>2. m \in 1..(k + 1) /\ x \in 1..(k + 1) /\ x <= m /\ x # m
        BY <2>2, <2>3, <3>1
      <3>3. QED  BY <3>2
    <2>4. QED  BY <2>2, <2>3
  <1>1. T \in SUBSET Nat
    OBVIOUS
  <1>2. 0 \in T
    <2>1. Solves([s \in D |-> base], 0)
      BY DEF FoldStep
    <2>2. [s \in D |-> base] \in [D -> W]
      OBVIOUS
    <2> HIDE DEF Solves
    <2>3. QED  BY <2>1, <2>2
  <1>3. ASSUME NEW k \in Nat, k \in T  PROVE k + 1 \in T
    <2>1. PICK f \in [D -> W] : Solves(f, k)
      BY <1>3
    <2>2. PICK h : h = [s \in D |-> FoldStep(f, phi, base, s)]
      OBVIOUS
    <2>3. h \in [D -> W]
      <3>1. \A s \in D : FoldStep(f, phi, base, s) \in W
        <4>1. SUFFICES ASSUME NEW s \in D  PROVE FoldStep(f, phi, base, s) \in W
          OBVIOUS
        <4>2. CASE s = {}
          BY <4>2 DEF FoldStep
        <4>3. CASE s # {}
          <5>1. f[s \ {Max(s)}] \in W /\ Max(s) \in 1..n
            BY <1>0, <4>3
          <5>2. phi[<<f[s \ {Max(s)}], Max(s)>>] \in W
            BY <5>1
          <5>3. QED  BY <4>3, <5>2 DEF FoldStep
        <4>4. QED  BY <4>2, <4>3
      <3>2. QED  BY <2>2, <3>1
    <2>4. \A s \in D : s \subseteq 1..k => h[s] = f[s]
      BY <2>1, <2>2
    <2>5. Solves(h, k + 1)
      <3>1. SUFFICES ASSUME NEW s \in D, s \subseteq 1..(k + 1)  PROVE h[s] = FoldStep(h, phi, base, s)
        OBVIOUS
      <3>2. h[s] = FoldStep(f, phi, base, s)
        BY <2>2
      <3>3. CASE s = {}
        BY <3>2, <3>3 DEF FoldStep
      <3>4. CASE s # {}
        <4>1. h[s \ {Max(s)}] = f[s \ {Max(s)}]
          BY <1>0, <2>4, <3>1, <3>4
        <4>2. QED  BY <3>2, <3>4, <4>1 DEF FoldStep
      <3>5. QED  BY <3>3, <3>4
    <2> HIDE DEF Solves
    <2>6. QED  BY <2>3, <2>5
  <1>4. T = Nat
    <2> HIDE DEF T
    <2> QED  BY <1>1, <1>2, <1>3, EveryNumber
  <1>5. PICK f \in [D -> W] : Solves(f, n)
    BY <1>4
  <1>6. QED
    BY <1>5 DEF Folding

\* The first indexes, one after the other.
LEMMA FirstIndexes ==
    ASSUME NEW n \in Nat
    PROVE  /\ 1..0 = {}
           /\ \A k \in 1..n : /\ 1..k \in SUBSET (1..n) /\ 1..(k - 1) \in SUBSET (1..n) /\ 1..k # {}
                              /\ Max(1..k) = k /\ (1..k) \ {Max(1..k)} = 1..(k - 1)
  <1>1. 1..0 = {}
    OBVIOUS
  <1>2. SUFFICES ASSUME NEW k \in 1..n
        PROVE /\ 1..k \in SUBSET (1..n) /\ 1..(k - 1) \in SUBSET (1..n) /\ 1..k # {}
              /\ Max(1..k) = k /\ (1..k) \ {Max(1..k)} = 1..(k - 1)
    BY <1>1
  <1>3. 1..k \in SUBSET (1..n) /\ 1..(k - 1) \in SUBSET (1..n)
    OBVIOUS
  <1>4. k \in Nat /\ k # 0
    OBVIOUS
  <1>5. QED
    BY <1>3, <1>4, MaxFirst

\* Induction over the first indexes.
LEMMA EveryIndex ==
    ASSUME NEW n \in Nat, NEW T \in SUBSET Nat, 0 \in T, \A k \in 1..n : k - 1 \in T => k \in T
    PROVE  n \in T
  <1> DEFINE U == {k \in Nat : k <= n => k \in T}
  <1>1. 0 \in U
    OBVIOUS
  <1>2. ASSUME NEW k \in Nat, k \in U  PROVE k + 1 \in U
    <2>1. SUFFICES ASSUME k + 1 <= n  PROVE k + 1 \in T
      OBVIOUS
    <2>2. k \in T /\ k + 1 \in 1..n /\ (k + 1) - 1 = k
      BY <1>2, <2>1
    <2>3. QED  BY <2>2
  <1>3. U \in SUBSET Nat
    OBVIOUS
  <1>4. U = Nat
    <2> HIDE DEF U
    <2> QED  BY <1>1, <1>2, <1>3, EveryNumber
  <1>5. QED
    BY <1>4

----------------------------------------------------------------------------
(* The tree of the files of a request.  Entries are numbered in the order of   *)
(* their allocation, so that parents come before their children.                *)

EntryNames == {""} \union UNION {ToSet(f) : f \in Files}
CellRecords == [parent : Nat \union {Null}, name : EntryNames, children : SUBSET Nat, added : BOOLEAN]
Heaps == UNION {[D -> CellRecords] : D \in SUBSET Nat}

\* Heap c, whose next address is n, holds a tree of root r or nothing.
Linked(c, n, r) ==
    /\ c \in Heaps
    /\ n \in Nat /\ DOMAIN c \subseteq 1..(n - 1)
    /\ \A e \in DOMAIN c :
          /\ c[e].parent = Null <=> e = r
          /\ e # r => c[e].parent \in DOMAIN c /\ c[e].parent < e /\ e \in c[c[e].parent].children
          /\ \A k \in c[e].children : k \in DOMAIN c /\ c[k].parent = e
          /\ \A k, l \in c[e].children : c[k].name = c[l].name => k = l

LEMMA HeapTypes ==
    ASSUME NEW c \in Heaps
    PROVE  /\ DOMAIN c \in SUBSET Nat /\ c \in [DOMAIN c -> CellRecords]
           /\ \A e \in DOMAIN c : /\ e \in Nat /\ c[e] \in CellRecords /\ c[e].parent \in Nat \union {Null}
                                  /\ c[e].name \in EntryNames /\ c[e].children \in SUBSET Nat /\ c[e].added \in BOOLEAN
  <1>1. PICK D \in SUBSET Nat : c \in [D -> CellRecords]
    BY DEF Heaps
  <1>2. DOMAIN c = D
    BY <1>1
  <1>3. \A e \in D : c[e] \in CellRecords
    BY <1>1
  <1>4. \A x \in CellRecords : /\ x.parent \in Nat \union {Null} /\ x.name \in EntryNames
                               /\ x.children \in SUBSET Nat /\ x.added \in BOOLEAN
    BY DEF CellRecords
  <1>5. QED
    BY <1>1, <1>2, <1>3, <1>4

LEMMA LinkedFacts ==
    ASSUME NEW c, NEW n, NEW r, Linked(c, n, r), NEW e \in DOMAIN c
    PROVE  /\ e \in Nat /\ e # 0 /\ e < n /\ n \in Nat
           /\ c[e].parent = Null <=> e = r
           /\ e # r => c[e].parent \in DOMAIN c /\ c[e].parent \in Nat /\ c[e].parent < e /\ e \in c[c[e].parent].children
           /\ c[e].name \in EntryNames
           /\ c[e].children \in SUBSET DOMAIN c
           /\ \A k \in c[e].children : c[k].parent = e /\ k \in Nat /\ e < k /\ k # r
           /\ \A k, l \in c[e].children : c[k].name = c[l].name => k = l
  <1>1. c \in Heaps /\ n \in Nat /\ DOMAIN c \subseteq 1..(n - 1)
    BY DEF Linked
  <1>2. e \in 1..(n - 1)
    BY <1>1
  <1>3. /\ c[e].parent = Null <=> e = r
        /\ e # r => c[e].parent \in DOMAIN c /\ c[e].parent < e /\ e \in c[c[e].parent].children
        /\ \A k \in c[e].children : k \in DOMAIN c /\ c[k].parent = e
        /\ \A k, l \in c[e].children : c[k].name = c[l].name => k = l
    BY DEF Linked
  <1>4. ASSUME NEW k \in c[e].children  PROVE k \in DOMAIN c /\ c[k].parent = e /\ k \in Nat /\ e < k /\ k # r
    <2>1. k \in DOMAIN c /\ c[k].parent = e
      BY <1>3
    <2>2. e # Null
      BY <1>2, TreeAssumption
    <2>3. k # r
      BY <2>1, <2>2 DEF Linked
    <2>4. c[k].parent < k
      BY <2>1, <2>3 DEF Linked
    <2>5. k \in Nat
      BY <1>1, <2>1, HeapTypes
    <2>6. QED  BY <2>1, <2>3, <2>4, <2>5
  <1>5. c[e].name \in EntryNames
    BY <1>1, HeapTypes
  <1>6. c[e].parent \in DOMAIN c => c[e].parent \in Nat
    BY <1>1, HeapTypes
  <1>7. QED
    BY <1>1, <1>2, <1>3, <1>4, <1>5, <1>6

\* The paths of the entries of a heap.
PathStep(c, g, k) == IF c[k].parent = Null THEN <<>> ELSE Append(g[c[k].parent], c[k].name)
PathFun(c, g) == g = [k \in DOMAIN c |-> PathStep(c, g, k)]

LEMMA PathsExist ==
    ASSUME NEW c, NEW n, NEW r, Linked(c, n, r)
    PROVE  \E g \in [DOMAIN c -> Seq(EntryNames)] : PathFun(c, g)
  <1> DEFINE D == DOMAIN c
             W == [D -> Seq(EntryNames)]
             T == {m \in Nat : \E g \in W : \A k \in D : k <= m => g[k] = PathStep(c, g, k)}
  <1>1. 0 \in T
    <2>0. PICK S, none : S = Seq(EntryNames) /\ none = <<>>
      OBVIOUS
    <2>1. PICK g \in W : g = [k \in D |-> none]
      <3>1. none \in S /\ W = [D -> S]
        BY <2>0
      <3>2. [k \in D |-> none] \in [D -> S]
        BY <3>1
      <3>3. QED  BY <3>1, <3>2
    <2>2. \A k \in D : ~(k <= 0)
      BY LinkedFacts
    <2>3. QED  BY <2>2
  <1>2. ASSUME NEW m \in Nat, m \in T  PROVE m + 1 \in T
    <2>1. PICK g \in W : \A k \in D : k <= m => g[k] = PathStep(c, g, k)
      BY <1>2
    <2>2. \A k \in D : PathStep(c, g, k) \in Seq(EntryNames)
      <3>1. SUFFICES ASSUME NEW k \in D  PROVE PathStep(c, g, k) \in Seq(EntryNames)
        OBVIOUS
      <3>2. CASE c[k].parent = Null
        BY <3>2 DEF PathStep
      <3>3. CASE c[k].parent # Null
        <4>1. g[c[k].parent] \in Seq(EntryNames) /\ c[k].name \in EntryNames
          BY <3>3, LinkedFacts
        <4>2. Append(g[c[k].parent], c[k].name) \in Seq(EntryNames)
          BY <4>1
        <4>3. QED  BY <3>3, <4>2 DEF PathStep
      <3>4. QED  BY <3>2, <3>3
    <2>3. PICK h : h = [k \in D |-> IF k = m + 1 THEN PathStep(c, g, k) ELSE g[k]]
      OBVIOUS
    <2>4. h \in W
      BY <2>2, <2>3
    <2>5. ASSUME NEW k \in D, k <= m + 1  PROVE h[k] = PathStep(c, h, k)
      <3>1. k \in Nat /\ (c[k].parent # Null => c[k].parent \in D /\ c[k].parent \in Nat /\ c[k].parent < k)
        BY LinkedFacts
      <3>2. c[k].parent # Null => h[c[k].parent] = g[c[k].parent]
        BY <2>3, <2>5, <3>1
      <3>3. PathStep(c, h, k) = PathStep(c, g, k)
        BY <3>2 DEF PathStep
      <3>4. h[k] = PathStep(c, g, k)
        BY <2>1, <2>3, <2>5, <3>1
      <3>5. QED  BY <3>3, <3>4
    <2>6. QED  BY <2>4, <2>5
  <1>3. T = Nat
    <2>1. T \in SUBSET Nat
      OBVIOUS
    <2> HIDE DEF T
    <2>2. QED  BY <1>1, <1>2, <2>1, EveryNumber
  <1>4. n \in T
    BY <1>3 DEF Linked
  <1>5. PICK g \in W : \A k \in D : k <= n => g[k] = PathStep(c, g, k)
    BY <1>4
  <1>6. \A k \in D : k <= n
    BY LinkedFacts
  <1>7. g = [k \in D |-> PathStep(c, g, k)]
    BY <1>5, <1>6
  <1>8. QED
    BY <1>7 DEF PathFun

LEMMA PathsUnique ==
    ASSUME NEW c, NEW n, NEW r, Linked(c, n, r), NEW g, NEW h, PathFun(c, g), PathFun(c, h)
    PROVE  g = h
  <1> DEFINE Bad == {k \in DOMAIN c : g[k] # h[k]}
  <1>1. SUFFICES ASSUME Bad # {}  PROVE FALSE
    BY DEF PathFun
  <1>2. PICK k \in Bad : \A j \in Bad : k <= j
    <2>1. Bad \in SUBSET Nat
      BY LinkedFacts
    <2> HIDE DEF Bad
    <2>2. QED  BY <1>1, <2>1, LeastNumber
  <1>3. g[k] = PathStep(c, g, k) /\ h[k] = PathStep(c, h, k)
    BY DEF PathFun
  <1>4. k \in Nat /\ (c[k].parent # Null => c[k].parent \in DOMAIN c /\ c[k].parent \in Nat /\ c[k].parent < k)
    BY LinkedFacts
  <1>5. c[k].parent # Null => g[c[k].parent] = h[c[k].parent]
    BY <1>2, <1>4
  <1>6. QED
    BY <1>3, <1>5 DEF PathStep

\* path_entry_relpath
LEMMA RelPathIs ==
    ASSUME Linked(cells, next, root)
    PROVE  \E g \in [Live -> Seq(EntryNames)] : PathFun(cells, g) /\ \A e : RelPath(e) = g[e]
  <1> DEFINE Body(g) == [k \in DOMAIN cells |->
                            IF cells[k].parent = Null THEN <<>> ELSE Append(g[cells[k].parent], cells[k].name)]
  <1>1. PICK g : g = CHOOSE f : f = Body(f)
    OBVIOUS
  <1>2. PICK f \in [DOMAIN cells -> Seq(EntryNames)] : PathFun(cells, f)
    BY PathsExist
  <1>3. \E h : h = Body(h)
    <2>1. f = Body(f)
      BY <1>2 DEF PathFun, PathStep
    <2> HIDE DEF Body
    <2>2. QED  BY <2>1
  <1>4. g = Body(g)
    <2> HIDE DEF Body
    <2> QED  BY <1>1, <1>3
  <1>5. PathFun(cells, g)
    BY <1>4 DEF PathFun, PathStep
  <1>6. g = f
    BY <1>2, <1>5, PathsUnique
  <1>7. \A e : RelPath(e) = g[e]
    BY <1>1 DEF RelPath, Live
  <1>8. QED
    BY <1>2, <1>5, <1>6, <1>7 DEF Live

----------------------------------------------------------------------------
(* What is below an entry. *)

\* S is the set of the entries of the tree that is below e.
Rooted(S, c, r, e) ==
    /\ e \in S /\ S \subseteq DOMAIN c
    /\ \A k \in S : c[k].children \subseteq S
    /\ \A k \in S : e <= k /\ (k # e => k # r /\ c[k].parent \in S)

BelowStep(c, e, b, n) == IF n = 0 THEN {e} ELSE b[n - 1] \cup UNION {c[k].children : k \in b[n - 1]}
BelowFun(c, e, b) == b = [n \in 0..MaxCells |-> BelowStep(c, e, b, n)]

LEMMA BelowExists ==
    ASSUME NEW c, NEW n, NEW r, Linked(c, n, r), NEW e \in DOMAIN c
    PROVE  \E b \in [0..MaxCells -> SUBSET DOMAIN c] : BelowFun(c, e, b)
  <1> DEFINE D == DOMAIN c
             W == [0..MaxCells -> SUBSET D]
             T == {m \in Nat : \E b \in W : \A k \in 0..MaxCells : k <= m => b[k] = BelowStep(c, e, b, k)}
  <1>0. MaxCells \in Nat
    BY TreeAssumption
  <1>1. 0 \in T
    <2>1. PICK b \in W : b = [k \in 0..MaxCells |-> {e}]
      OBVIOUS
    <2>2. \A k \in 0..MaxCells : k <= 0 => k = 0
      OBVIOUS
    <2>3. \A k \in 0..MaxCells : k <= 0 => b[k] = BelowStep(c, e, b, k)
      BY <2>1, <2>2 DEF BelowStep
    <2>4. QED  BY <2>3
  <1>2. ASSUME NEW m \in Nat, m \in T  PROVE m + 1 \in T
    <2>1. PICK b \in W : \A k \in 0..MaxCells : k <= m => b[k] = BelowStep(c, e, b, k)
      BY <1>2
    <2>2. \A k \in 0..MaxCells : BelowStep(c, e, b, k) \in SUBSET D
      <3>1. SUFFICES ASSUME NEW k \in 0..MaxCells  PROVE BelowStep(c, e, b, k) \in SUBSET D
        OBVIOUS
      <3>2. CASE k = 0
        BY <3>2 DEF BelowStep
      <3>3. CASE k # 0
        <4>1. k - 1 \in 0..MaxCells
          BY <1>0, <3>3
        <4>2. b[k - 1] \in SUBSET D
          BY <4>1
        <4>3. \A x \in b[k - 1] : c[x].children \in SUBSET D
          BY <4>2, LinkedFacts
        <4>4. UNION {c[x].children : x \in b[k - 1]} \in SUBSET D
          BY <4>3
        <4>5. QED  BY <3>3, <4>2, <4>4 DEF BelowStep
      <3>4. QED  BY <3>2, <3>3
    <2>3. PICK h : h = [k \in 0..MaxCells |-> IF k = m + 1 THEN BelowStep(c, e, b, k) ELSE b[k]]
      OBVIOUS
    <2>4. h \in W
      BY <2>2, <2>3
    <2>5. ASSUME NEW k \in 0..MaxCells, k <= m + 1  PROVE h[k] = BelowStep(c, e, h, k)
      <3>1. k # 0 => k - 1 \in 0..MaxCells /\ k - 1 # m + 1
        BY <1>0, <2>5
      <3>2. k # 0 => h[k - 1] = b[k - 1]
        BY <2>3, <3>1
      <3>3. BelowStep(c, e, h, k) = BelowStep(c, e, b, k)
        BY <3>2 DEF BelowStep
      <3>4. CASE k = m + 1
        BY <2>3, <3>3, <3>4
      <3>5. CASE k # m + 1
        <4>1. k <= m
          BY <1>0, <2>5, <3>5
        <4>2. QED  BY <2>1, <2>3, <3>3, <3>5, <4>1
      <3>6. QED  BY <3>4, <3>5
    <2>6. \E f \in W : \A k \in 0..MaxCells : k <= m + 1 => f[k] = BelowStep(c, e, f, k)
      <3>1. \A k \in 0..MaxCells : k <= m + 1 => h[k] = BelowStep(c, e, h, k)
        BY <2>5
      <3>2. QED  BY <2>4, <3>1
    <2>7. m + 1 \in Nat
      OBVIOUS
    <2>8. QED  BY <2>6, <2>7
  <1>3. T = Nat
    <2>1. T \in SUBSET Nat
      OBVIOUS
    <2> HIDE DEF T
    <2>2. QED  BY <1>1, <1>2, <2>1, EveryNumber
  <1>4. PICK b \in W : \A k \in 0..MaxCells : k <= MaxCells => b[k] = BelowStep(c, e, b, k)
    BY <1>0, <1>3
  <1>5. b = [k \in 0..MaxCells |-> BelowStep(c, e, b, k)]
    BY <1>0, <1>4
  <1>6. QED
    BY <1>5 DEF BelowFun

\* The steps from e to k are at most as many as the addresses between them: MaxCells steps reach all.
LEMMA BelowRooted ==
    ASSUME NEW c, NEW n, NEW r, Linked(c, n, r), n <= MaxCells + 1, NEW e \in DOMAIN c, NEW b, BelowFun(c, e, b)
    PROVE  Rooted(b[MaxCells], c, r, e)
  <1> DEFINE Deep(m) == \A k \in b[m] : /\ k \in DOMAIN c /\ e <= k /\ k - e \in 0..MaxCells /\ k \in b[k - e]
                                        /\ k # e => k # r /\ c[k].parent \in b[m]
             T == {m \in Nat : m <= MaxCells => Deep(m)}
             U(i) == {m \in Nat : i + m <= MaxCells => b[i] \subseteq b[i + m]}
  <1>0. MaxCells \in Nat /\ n \in Nat /\ e \in Nat /\ e # 0 /\ e < n
    BY TreeAssumption, LinkedFacts
  <1>1. b[0] = {e}
    BY <1>0 DEF BelowFun, BelowStep
  <1>2. ASSUME NEW m \in Nat, m + 1 <= MaxCells
        PROVE  /\ b[m + 1] = b[m] \cup UNION {c[k].children : k \in b[m]}
               /\ b[m] \subseteq b[m + 1]
    <2>1. m + 1 \in 0..MaxCells /\ m + 1 # 0 /\ (m + 1) - 1 = m
      BY <1>0, <1>2
    <2>2. b[m + 1] = b[m] \cup UNION {c[k].children : k \in b[m]}
      BY <2>1 DEF BelowFun, BelowStep
    <2>3. QED  BY <2>2
  <1>3. ASSUME NEW i \in Nat, NEW j \in Nat, i <= j, j <= MaxCells  PROVE b[i] \subseteq b[j]
    <2>1. 0 \in U(i)
      OBVIOUS
    <2>2. ASSUME NEW m \in Nat, m \in U(i)  PROVE m + 1 \in U(i)
      <3>1. SUFFICES ASSUME i + (m + 1) <= MaxCells  PROVE b[i] \subseteq b[i + (m + 1)]
        OBVIOUS
      <3>2. b[i] \subseteq b[i + m] /\ i + m \in Nat /\ (i + m) + 1 = i + (m + 1)
        BY <1>0, <2>2, <3>1
      <3>3. b[i + m] \subseteq b[(i + m) + 1]
        BY <1>2, <3>1, <3>2
      <3>4. QED  BY <3>2, <3>3
    <2>3. U(i) = Nat
      <3>1. PICK V : V = U(i)
        OBVIOUS
      <3>2. V \in SUBSET Nat /\ 0 \in V /\ \A m \in Nat : m \in V => m + 1 \in V
        BY <2>1, <2>2, <3>1
      <3>3. V = Nat
        BY <3>2, EveryNumber
      <3>4. QED  BY <3>1, <3>3
    <2>4. j - i \in Nat /\ i + (j - i) = j
      BY <1>3
    <2>5. j - i \in U(i)
      BY <2>3, <2>4
    <2>6. QED  BY <1>3, <2>4, <2>5
  <1>4. 0 \in T
    <2>1. e - e = 0 /\ 0 \in 0..MaxCells
      BY <1>0
    <2>2. Deep(0)
      BY <1>0, <1>1, <2>1
    <2>3. QED  BY <2>2
  <1>5. ASSUME NEW m \in Nat, m \in T  PROVE m + 1 \in T
    <2>1. SUFFICES ASSUME m + 1 <= MaxCells  PROVE Deep(m + 1)
      OBVIOUS
    <2>2. Deep(m)
      BY <1>0, <1>5, <2>1
    <2>3. b[m + 1] = b[m] \cup UNION {c[k].children : k \in b[m]} /\ b[m] \subseteq b[m + 1]
      BY <1>2, <2>1
    <2>4. SUFFICES ASSUME NEW k \in b[m + 1]
          PROVE  /\ k \in DOMAIN c /\ e <= k /\ k - e \in 0..MaxCells /\ k \in b[k - e]
                 /\ k # e => k # r /\ c[k].parent \in b[m + 1]
      OBVIOUS
    <2>5. CASE k \in b[m]
      BY <2>2, <2>3, <2>5
    <2>6. CASE k \notin b[m]
      <3>1. PICK p \in b[m] : k \in c[p].children
        BY <2>3, <2>6
      <3>2. p \in DOMAIN c /\ e <= p /\ p - e \in 0..MaxCells /\ p \in b[p - e]
        BY <2>2, <3>1
      <3>3. k \in DOMAIN c /\ c[k].parent = p /\ k \in Nat /\ p < k /\ k # r /\ p \in Nat
        BY <3>1, <3>2, LinkedFacts
      <3>4. k < n
        BY <3>3, LinkedFacts
      <3>5. /\ p - e \in Nat /\ (p - e) + 1 \in Nat /\ (p - e) + 1 <= k - e /\ k - e <= MaxCells /\ k - e \in Nat
            /\ (p - e) + 1 <= MaxCells /\ k - e \in 0..MaxCells /\ e <= k
        BY <1>0, <3>2, <3>3, <3>4
      <3>6. k \in b[(p - e) + 1]
        <4>1. b[(p - e) + 1] = b[p - e] \cup UNION {c[x].children : x \in b[p - e]}
          BY <1>2, <3>5
        <4>2. QED  BY <3>1, <3>2, <4>1
      <3>7. k \in b[k - e]
        BY <1>3, <3>5, <3>6
      <3>8. QED  BY <2>3, <3>1, <3>3, <3>5, <3>7
    <2>7. QED  BY <2>5, <2>6
  <1>6. T = Nat
    <2>1. T \in SUBSET Nat
      OBVIOUS
    <2> HIDE DEF T
    <2>2. QED  BY <1>4, <1>5, <2>1, EveryNumber
  <1>7. Deep(MaxCells)
    BY <1>0, <1>6
  <1>8. e \in b[MaxCells]
    BY <1>0, <1>1, <1>3
  <1>9. ASSUME NEW k \in b[MaxCells], NEW x \in c[k].children  PROVE x \in b[MaxCells]
    <2>1. k \in DOMAIN c /\ e <= k /\ k - e \in 0..MaxCells /\ k \in b[k - e]
      BY <1>7
    <2>2. x \in DOMAIN c /\ x \in Nat /\ k < x /\ k \in Nat
      BY <2>1, LinkedFacts
    <2>3. x < n
      BY <2>2, LinkedFacts
    <2>4. k - e \in Nat /\ (k - e) + 1 <= MaxCells /\ (k - e) + 1 \in Nat
      BY <1>0, <2>1, <2>2, <2>3
    <2>5. x \in b[(k - e) + 1]
      <3>1. b[(k - e) + 1] = b[k - e] \cup UNION {c[y].children : y \in b[k - e]}
        BY <1>2, <2>4
      <3>2. QED  BY <2>1, <3>1
    <2>6. QED  BY <1>0, <1>3, <2>4, <2>5
  <1>10. QED
    BY <1>7, <1>8, <1>9 DEF Rooted

\* destroy and do_foreach visit all that is below an entry.
LEMMA SubTreeIs ==
    ASSUME Linked(cells, next, root), next <= MaxCells + 1, NEW e \in Live
    PROVE  Rooted(SubTree(e), cells, root, e)
  <1> DEFINE Body(b) == [n \in 0..MaxCells |->
                            IF n = 0 THEN {e} ELSE b[n - 1] \cup UNION {cells[k].children : k \in b[n - 1]}]
  <1>1. PICK b : b = CHOOSE f : f = Body(f)
    OBVIOUS
  <1>2. PICK f : BelowFun(cells, e, f)
    BY BelowExists DEF Live
  <1>3. \E h : h = Body(h)
    <2>1. f = Body(f)
      BY <1>2 DEF BelowFun, BelowStep
    <2> HIDE DEF Body
    <2>2. QED  BY <2>1
  <1>4. b = Body(b)
    <2> HIDE DEF Body
    <2> QED  BY <1>1, <1>3
  <1>5. BelowFun(cells, e, b)
    BY <1>4 DEF BelowFun, BelowStep
  <1>6. SubTree(e) = b[MaxCells]
    BY <1>1 DEF SubTree
  <1>7. QED
    BY <1>5, <1>6, BelowRooted DEF Live

----------------------------------------------------------------------------
(* Destroying an entry. *)

\* A tree that is not empty has its root, and all is below the root.
LEMMA RootLive ==
    ASSUME NEW c, NEW n, NEW r, Linked(c, n, r), DOMAIN c # {}
    PROVE  r \in DOMAIN c
  <1>1. PICK D : D = DOMAIN c
    OBVIOUS
  <1>2. D \in SUBSET Nat /\ D # {}
    BY <1>1, LinkedFacts
  <1>3. PICK e \in D : \A k \in D : e <= k
    BY <1>2, LeastNumber
  <1>4. e # r => c[e].parent \in D /\ c[e].parent \in Nat /\ c[e].parent < e /\ e \in Nat
    BY <1>1, LinkedFacts
  <1>5. QED
    BY <1>1, <1>3, <1>4

LEMMA RootedAll ==
    ASSUME NEW c, NEW n, NEW r, Linked(c, n, r), NEW S, Rooted(S, c, r, r)
    PROVE  S = DOMAIN c
  <1> DEFINE Bad == DOMAIN c \ S
  <1>1. SUFFICES ASSUME Bad # {}  PROVE FALSE
    BY DEF Rooted
  <1>2. PICK e \in Bad : \A k \in Bad : e <= k
    <2>1. Bad \in SUBSET Nat
      BY LinkedFacts
    <2> HIDE DEF Bad
    <2>2. QED  BY <1>1, <2>1, LeastNumber
  <1>3. e # r
    BY DEF Rooted
  <1>4. c[e].parent \in DOMAIN c /\ c[e].parent \in Nat /\ c[e].parent < e /\ e \in c[c[e].parent].children /\ e \in Nat
    BY <1>3, LinkedFacts
  <1>5. c[e].parent \in S
    BY <1>2, <1>4
  <1>6. QED
    BY <1>4, <1>5 DEF Rooted

LEMMA ChildrenField ==
    ASSUME NEW x \in CellRecords, NEW C \in SUBSET Nat
    PROVE  /\ [x EXCEPT !.children = C] \in CellRecords
           /\ [x EXCEPT !.children = C].children = C
           /\ [x EXCEPT !.children = C].parent = x.parent
           /\ [x EXCEPT !.children = C].name = x.name
           /\ [x EXCEPT !.children = C].added = x.added
  BY DEF CellRecords

\* Heap d is what remains of c without the tree S below e.
Pruned(d, c, S, e) ==
    /\ d \in Heaps /\ DOMAIN d = DOMAIN c \ S
    /\ \A k \in DOMAIN d : /\ d[k].parent = c[k].parent /\ d[k].name = c[k].name /\ d[k].added = c[k].added
                           /\ d[k].children = c[k].children \ {e}

\* path_entry_destroy
LEMMA WithoutPrunes ==
    ASSUME Linked(cells, next, root), next <= MaxCells + 1, NEW e \in Live
    PROVE  Pruned(Without(e), cells, SubTree(e), e)
  <1>0. PICK S, c : S = SubTree(e) /\ c = cells
    OBVIOUS
  <1>1. Rooted(S, c, root, e) /\ Linked(c, next, root) /\ e \in DOMAIN c
    BY <1>0, SubTreeIs DEF Live
  <1>2. PICK kept : kept = [k \in DOMAIN c \ S |-> c[k]]
    OBVIOUS
  <1>3. c \in Heaps
    BY <1>1 DEF Linked
  <1>4. kept \in Heaps /\ DOMAIN kept = DOMAIN c \ S /\ \A k \in DOMAIN kept : kept[k] = c[k] /\ c[k] \in CellRecords
    <2>1. \A k \in DOMAIN c : c[k] \in CellRecords
      BY <1>3, HeapTypes
    <2>2. DOMAIN c \ S \in SUBSET Nat
      BY <1>3, HeapTypes
    <2>3. kept \in [DOMAIN c \ S -> CellRecords]
      BY <1>2, <2>1
    <2>4. QED  BY <1>2, <2>1, <2>2, <2>3 DEF Heaps
  <1>5. ASSUME NEW k \in DOMAIN kept, e \in c[k].children  PROVE c[e].parent = k
    BY <1>1, <1>4, <1>5, LinkedFacts
  <1>6. CASE c[e].parent = Null
    <2>1. Without(e) = kept
      BY <1>0, <1>2, <1>6 DEF Without, Live
    <2>2. ASSUME NEW k \in DOMAIN kept  PROVE e \notin c[k].children
      <3>1. k \in Nat
        BY <1>3, <1>4, HeapTypes
      <3>2. QED  BY <1>5, <1>6, <3>1, TreeAssumption
    <2>3. QED  BY <1>0, <1>4, <2>1, <2>2 DEF Pruned
  <1>7. CASE c[e].parent # Null
    <2>1. PICK p : p = c[e].parent
      OBVIOUS
    <2>2. p \in DOMAIN kept
      <3>1. p \in DOMAIN c /\ p \in Nat /\ p < e /\ e \in Nat
        BY <1>1, <1>7, <2>1, LinkedFacts
      <3>2. p \notin S
        BY <3>1, <1>1 DEF Rooted
      <3>3. QED  BY <1>4, <3>1, <3>2
    <2>3. PICK x : x = [kept[p] EXCEPT !.children = kept[p].children \ {e}]
      OBVIOUS
    <2>4. /\ x \in CellRecords /\ x.children = c[p].children \ {e} /\ x.parent = c[p].parent /\ x.name = c[p].name
          /\ x.added = c[p].added
      <3>1. PICK y, C : y = c[p] /\ C = c[p].children \ {e}
        OBVIOUS
      <3>2. y \in CellRecords /\ C \in SUBSET Nat /\ x = [y EXCEPT !.children = C]
        BY <1>3, <1>4, <2>2, <2>3, <3>1, HeapTypes
      <3>3. QED  BY <3>1, <3>2, ChildrenField
    <2>5. Without(e) = [kept EXCEPT ![p] = x]
      BY <1>0, <1>2, <1>7, <2>1, <2>3 DEF Without, Live
    <2>6. PICK d : d = [kept EXCEPT ![p] = x]
      OBVIOUS
    <2>7. DOMAIN d = DOMAIN kept /\ d[p] = x /\ \A k \in DOMAIN kept : k # p => d[k] = kept[k]
      BY <2>2, <2>6
    <2>8. d \in Heaps
      <3>1. PICK D \in SUBSET Nat : kept \in [D -> CellRecords]
        BY <1>4 DEF Heaps
      <3>2. d \in [D -> CellRecords]
        BY <2>4, <2>6, <3>1
      <3>3. QED  BY <3>2 DEF Heaps
    <2>9. ASSUME NEW k \in DOMAIN kept
          PROVE  /\ d[k].parent = c[k].parent /\ d[k].name = c[k].name /\ d[k].added = c[k].added
                 /\ d[k].children = c[k].children \ {e}
      <3>1. CASE k = p
        BY <2>4, <2>7, <3>1
      <3>2. CASE k # p
        <4>1. e \notin c[k].children
          BY <1>5, <2>1, <3>2
        <4>2. QED  BY <1>4, <2>7, <3>2, <4>1
      <3>3. QED  BY <3>1, <3>2
    <2>10. QED  BY <1>0, <1>4, <2>5, <2>6, <2>7, <2>8, <2>9 DEF Pruned
  <1>8. QED
    BY <1>6, <1>7

LEMMA PrunedLinked ==
    ASSUME NEW c, NEW n, NEW r, Linked(c, n, r), NEW e \in DOMAIN c, NEW S, Rooted(S, c, r, e),
           NEW d, Pruned(d, c, S, e)
    PROVE  Linked(d, n, r)
  <1>1. d \in Heaps /\ n \in Nat /\ DOMAIN d \subseteq 1..(n - 1) /\ DOMAIN d = DOMAIN c \ S
    BY DEF Pruned, Linked
  <1>2. ASSUME NEW k \in DOMAIN d
        PROVE  /\ d[k].parent = Null <=> k = r
               /\ k # r => d[k].parent \in DOMAIN d /\ d[k].parent < k /\ k \in d[d[k].parent].children
               /\ \A x \in d[k].children : x \in DOMAIN d /\ d[x].parent = k
               /\ \A x, l \in d[k].children : d[x].name = d[l].name => x = l
    <2>1. k \in DOMAIN c /\ k \notin S /\ d[k].parent = c[k].parent /\ d[k].children = c[k].children \ {e}
      BY <1>1 DEF Pruned
    <2>2. d[k].parent = Null <=> k = r
      BY <2>1, LinkedFacts
    <2>3. ASSUME k # r  PROVE d[k].parent \in DOMAIN d /\ d[k].parent < k /\ k \in d[d[k].parent].children
      <3>1. PICK p : p = c[k].parent
        OBVIOUS
      <3>2. p \in DOMAIN c /\ p < k /\ k \in c[p].children
        BY <2>1, <2>3, <3>1, LinkedFacts
      <3>3. p \notin S
        BY <2>1, <3>2 DEF Rooted
      <3>4. p \in DOMAIN d /\ d[p].children = c[p].children \ {e}
        BY <1>1, <3>2, <3>3 DEF Pruned
      <3>5. k # e
        BY <2>1 DEF Rooted
      <3>6. QED  BY <2>1, <3>1, <3>2, <3>4, <3>5
    <2>4. ASSUME NEW x \in d[k].children
          PROVE  x \in DOMAIN d /\ d[x].parent = k /\ d[x].name = c[x].name /\ x \in c[k].children
      <3>1. x \in c[k].children /\ x # e
        BY <2>1
      <3>2. x \in DOMAIN c /\ c[x].parent = k
        BY <2>1, <3>1, LinkedFacts
      <3>3. x \notin S
        BY <2>1, <3>1, <3>2 DEF Rooted
      <3>4. x \in DOMAIN d
        BY <1>1, <3>2, <3>3
      <3>5. QED  BY <3>1, <3>2, <3>4 DEF Pruned
    <2>5. ASSUME NEW x \in d[k].children, NEW l \in d[k].children, d[x].name = d[l].name  PROVE x = l
      <3>1. x \in c[k].children /\ l \in c[k].children /\ c[x].name = c[l].name
        BY <2>4, <2>5
      <3>2. QED  BY <2>1, <3>1, LinkedFacts
    <2>6. QED  BY <2>2, <2>3, <2>4, <2>5
  <1>3. QED
    BY <1>1, <1>2 DEF Linked

\* Nothing comes below an entry that remains.
LEMMA PrunedBelow ==
    ASSUME NEW c, NEW n, NEW r, Linked(c, n, r), NEW d, Linked(d, n, r),
           DOMAIN d \subseteq DOMAIN c, \A k \in DOMAIN d : d[k].parent = c[k].parent,
           NEW y \in DOMAIN d, NEW A, Rooted(A, c, r, y), NEW B, Rooted(B, d, r, y)
    PROVE  B \subseteq A
  <1> DEFINE Bad == B \ A
  <1>1. SUFFICES ASSUME Bad # {}  PROVE FALSE
    OBVIOUS
  <1>2. PICK e \in Bad : \A k \in Bad : e <= k
    <2>1. Bad \in SUBSET Nat
      BY LinkedFacts DEF Rooted
    <2> HIDE DEF Bad
    <2>2. QED  BY <1>1, <2>1, LeastNumber
  <1>3. e \in DOMAIN d /\ e \in DOMAIN c /\ e # y /\ e # r /\ d[e].parent \in B
    BY DEF Rooted
  <1>4. PICK p : p = c[e].parent
    OBVIOUS
  <1>5. p \in B /\ p \in Nat /\ p < e /\ e \in Nat /\ e \in c[p].children
    BY <1>3, <1>4, LinkedFacts
  <1>6. p \in A
    BY <1>2, <1>5
  <1>7. QED
    BY <1>5, <1>6 DEF Rooted

----------------------------------------------------------------------------
(* Searching in the tree. *)

\* search_child
LEMMA SearchIs ==
    ASSUME NEW c, NEW n, NEW r, Linked(c, n, r), NEW e \in DOMAIN c, NEW name, NEW t, t.cells = c
    PROVE  /\ \A k \in c[e].children : c[k].name = name => SearchChild(t, e, name) = k
           /\ (\A k \in c[e].children : c[k].name # name) => SearchChild(t, e, name) = Null
           /\ SearchChild(t, e, name) \in DOMAIN c \union {Null}
  <1>1. \A k, l \in c[e].children : c[k].name = c[l].name => k = l
    BY LinkedFacts
  <1>2. ASSUME NEW k \in c[e].children, c[k].name = name  PROVE SearchChild(t, e, name) = k
    <2>1. SearchChild(t, e, name) = CHOOSE x \in c[e].children : c[x].name = name
      BY <1>2 DEF SearchChild
    <2>2. PICK x : x = CHOOSE y \in c[e].children : c[y].name = name
      OBVIOUS
    <2>3. x \in c[e].children /\ c[x].name = name
      BY <1>2, <2>2
    <2>4. QED  BY <1>1, <1>2, <2>1, <2>2, <2>3
  <1>3. ASSUME \A k \in c[e].children : c[k].name # name  PROVE SearchChild(t, e, name) = Null
    BY <1>3 DEF SearchChild
  <1>4. c[e].children \subseteq DOMAIN c
    BY LinkedFacts
  <1>5. QED
    BY <1>2, <1>3, <1>4

\* process with search_child
LookStep(k, name) == IF k = Null THEN Null ELSE SearchChild([cells |-> cells], k, name)
LookFold(f, e, path) ==
    f = [s \in SUBSET DOMAIN path |-> IF s = {} THEN e ELSE LookStep(f[s \ {Max(s)}], path[Max(s)])]

LEMMA LookFoldExists ==
    ASSUME Linked(cells, next, root), NEW e \in Live, NEW path, NEW n \in Nat, DOMAIN path = 1..n
    PROVE  \E f : LookFold(f, e, path)
  <1>1. PICK W : W = Live \union {Null}
    OBVIOUS
  <1>2. \A k \in W : \A name : LookStep(k, name) \in W
    <2>1. SUFFICES ASSUME NEW k \in W, NEW name  PROVE LookStep(k, name) \in W
      OBVIOUS
    <2>2. CASE k = Null
      BY <1>1, <2>2 DEF LookStep
    <2>3. CASE k # Null
      <3>1. PICK t : t = [cells |-> cells]
        OBVIOUS
      <3>2. t.cells = cells /\ k \in DOMAIN cells
        BY <1>1, <2>3, <3>1 DEF Live
      <3>3. SearchChild(t, k, name) \in DOMAIN cells \union {Null}
        BY <3>2, SearchIs
      <3>4. QED  BY <1>1, <2>3, <3>1, <3>3 DEF LookStep, Live
    <2>4. QED  BY <2>2, <2>3
  <1>3. PICK phi : phi = [z \in W \X (1..n) |-> LookStep(z[1], path[z[2]])]
    OBVIOUS
  <1>4. phi \in [W \X (1..n) -> W]
    BY <1>2, <1>3
  <1>5. PICK f \in [SUBSET (1..n) -> W] : \A s \in SUBSET (1..n) : f[s] = FoldStep(f, phi, e, s)
    <2>1. e \in W
      BY <1>1
    <2>2. PICK f : Folding(f, n, W, phi, e)
      BY <1>4, <2>1, FoldExists
    <2>3. QED  BY <2>2 DEF Folding
  <1>6. \A s \in SUBSET (1..n) : s # {} => phi[<<f[s \ {Max(s)}], Max(s)>>] = LookStep(f[s \ {Max(s)}], path[Max(s)])
    <2>1. SUFFICES ASSUME NEW s \in SUBSET (1..n), s # {}
          PROVE phi[<<f[s \ {Max(s)}], Max(s)>>] = LookStep(f[s \ {Max(s)}], path[Max(s)])
      OBVIOUS
    <2>2. Max(s) \in 1..n /\ s \ {Max(s)} \in SUBSET (1..n)
      BY <2>1, MaxIn
    <2>3. PICK a \in W, i \in 1..n : a = f[s \ {Max(s)}] /\ i = Max(s)
      BY <2>2
    <2>4. phi[<<a, i>>] = LookStep(a, path[i])
      BY <1>3
    <2>5. QED  BY <2>3, <2>4
  <1>7. \A s \in SUBSET (1..n) : f[s] = IF s = {} THEN e ELSE LookStep(f[s \ {Max(s)}], path[Max(s)])
    BY <1>5, <1>6 DEF FoldStep
  <1>8. f = [s \in SUBSET (1..n) |-> IF s = {} THEN e ELSE LookStep(f[s \ {Max(s)}], path[Max(s)])]
    BY <1>7
  <1>9. QED
    BY <1>8 DEF LookFold

\* The entries that f tells, name after name.
Looks(f, e, path, n) ==
    /\ Lookup(e, path) = f[1..n] /\ f[1..0] = e
    /\ \A k \in 1..n : f[1..k] = LookStep(f[1..(k - 1)], path[k])

LEMMA LookupIs ==
    ASSUME Linked(cells, next, root), NEW e \in Live, NEW path, NEW n \in Nat, DOMAIN path = 1..n
    PROVE  \E f : Looks(f, e, path, n)
  <1> DEFINE Body(f) == [s \in SUBSET DOMAIN path |-> IF s = {} THEN e ELSE LookStep(f[s \ {Max(s)}], path[Max(s)])]
  <1>1. PICK g : g = CHOOSE f : f = Body(f)
    OBVIOUS
  <1>2. \E f : f = Body(f)
    <2>1. PICK f : LookFold(f, e, path)
      BY LookFoldExists
    <2>2. f = Body(f)
      BY <2>1 DEF LookFold
    <2> HIDE DEF Body
    <2>3. QED  BY <2>2
  <1>3. g = Body(g)
    <2> HIDE DEF Body
    <2> QED  BY <1>1, <1>2
  <1>4. Lookup(e, path) = g[DOMAIN path]
    BY <1>1 DEF Lookup, FoldLeft, MapThenFoldSet, LookStep
  <1>5. \A s \in SUBSET (1..n) : g[s] = IF s = {} THEN e ELSE LookStep(g[s \ {Max(s)}], path[Max(s)])
    BY <1>3
  <1>6. g[1..0] = e
    <2>1. 1..0 = {} /\ {} \in SUBSET (1..n)
      OBVIOUS
    <2>2. QED  BY <1>5, <2>1
  <1>7. ASSUME NEW k \in 1..n  PROVE g[1..k] = LookStep(g[1..(k - 1)], path[k])
    <2>1. /\ 1..k \in SUBSET (1..n) /\ 1..k # {}
          /\ Max(1..k) = k /\ (1..k) \ {Max(1..k)} = 1..(k - 1)
      BY FirstIndexes
    <2>2. QED  BY <1>5, <2>1
  <1>8. QED
    BY <1>4, <1>6, <1>7 DEF Looks

LEMMA LengthOf == ASSUME NEW S, NEW s \in Seq(S)  PROVE Len(s) \in Nat /\ DOMAIN s = 1..Len(s)
  OBVIOUS

\* Every entry is found by its path.
LEMMA LookupPath ==
    ASSUME Linked(cells, next, root), NEW e \in Live
    PROVE  Lookup(root, RelPath(e)) = e
  <1>1. PICK g \in [Live -> Seq(EntryNames)] : PathFun(cells, g) /\ \A x : RelPath(x) = g[x]
    BY RelPathIs
  <1>2. root \in Live
    BY RootLive DEF Live
  <1>3. PICK p \in Seq(EntryNames), n \in Nat : p = g[e] /\ n = Len(p)
    OBVIOUS
  <1>4. DOMAIN p = 1..n
    BY <1>3, LengthOf
  <1>5. PICK f : /\ Lookup(root, p) = f[1..n] /\ f[1..0] = root
                 /\ \A k \in 1..n : f[1..k] = LookStep(f[1..(k - 1)], p[k])
    <2>1. PICK e0 \in Live : e0 = root
      BY <1>2
    <2>2. PICK f : Looks(f, e0, p, n)
      BY <1>4, LookupIs
    <2>3. QED  BY <2>1, <2>2 DEF Looks
  <1> DEFINE Leads(x) == Len(g[x]) <= n /\ (\A i \in 1..Len(g[x]) : g[x][i] = p[i]) => f[1..Len(g[x])] = x
             Bad == {x \in Live : ~Leads(x)}
  <1>6. Bad = {}
    <2>1. SUFFICES ASSUME Bad # {}  PROVE FALSE
      OBVIOUS
    <2>2. PICK x \in Bad : \A k \in Bad : x <= k
      <3>1. Bad \in SUBSET Nat
        BY LinkedFacts DEF Live
      <3> HIDE DEF Bad
      <3>2. QED  BY <2>1, <3>1, LeastNumber
    <2>3. x \in DOMAIN cells /\ x \in Nat /\ g[x] = PathStep(cells, g, x)
      <3>1. x \in DOMAIN cells
        BY DEF Live
      <3>2. x \in Nat
        BY <3>1, LinkedFacts
      <3>3. g[x] = PathStep(cells, g, x)
        <4>1. g = [k \in DOMAIN cells |-> PathStep(cells, g, k)]
          BY <1>1 DEF PathFun
        <4> HIDE DEF Bad
        <4>2. QED  BY <3>1, <4>1, Zenon
      <3>4. QED  BY <3>1, <3>2, <3>3
    <2>4. Len(g[x]) <= n /\ (\A i \in 1..Len(g[x]) : g[x][i] = p[i]) /\ f[1..Len(g[x])] # x
      BY <2>2
    <2>5. CASE x = root
      <3>1. g[x] = <<>>
        BY <2>3, <2>5, LinkedFacts DEF PathStep
      <3>2. Len(g[x]) = 0
        BY <3>1
      <3>3. QED  BY <1>5, <2>4, <2>5, <3>2
    <2>6. CASE x # root
      <3>1. PICK q, nm : q = cells[x].parent /\ nm = cells[x].name
        OBVIOUS
      <3>2. q \in DOMAIN cells /\ q \in Nat /\ q < x /\ x \in cells[q].children /\ q # Null /\ nm \in EntryNames
        BY <2>3, <2>6, <3>1, LinkedFacts, TreeAssumption
      <3>3. PICK s \in Seq(EntryNames), m \in Nat : s = g[q] /\ m = Len(s)
        BY <3>2 DEF Live
      <3>4. g[x] = Append(s, nm)
        BY <2>3, <3>1, <3>2, <3>3 DEF PathStep
      <3>5. Len(g[x]) = m + 1 /\ g[x][m + 1] = nm /\ \A i \in 1..m : g[x][i] = s[i]
        BY <3>2, <3>3, <3>4
      <3>6. m + 1 \in 1..n /\ p[m + 1] = nm /\ \A i \in 1..m : s[i] = p[i]
        BY <2>4, <3>5
      <3>7. q \notin Bad
        BY <2>2, <2>3, <3>2
      <3>8. f[1..m] = q
        BY <3>2, <3>3, <3>6, <3>7 DEF Live
      <3>9. f[1..(m + 1)] = LookStep(q, nm)
        BY <1>5, <3>6, <3>8
      <3>10. LookStep(q, nm) = x
        <4>1. PICK t : t = [cells |-> cells]
          OBVIOUS
        <4>2. t.cells = cells
          BY <4>1
        <4>3. SearchChild(t, q, nm) = x
          BY <3>1, <3>2, <4>2, SearchIs
        <4>4. QED  BY <3>2, <4>1, <4>3 DEF LookStep
      <3>11. QED  BY <2>4, <3>5, <3>9, <3>10
    <2>7. QED  BY <2>5, <2>6
  <1>7. Leads(e)
    BY <1>6
  <1>8. QED
    BY <1>1, <1>3, <1>5, <1>7

----------------------------------------------------------------------------
(* Adding an entry. *)

\* Heap d is c with a new entry n, a child of e.
Grafted(d, c, n, e, name) ==
    /\ d \in Heaps /\ DOMAIN d = DOMAIN c \union {n}
    /\ d[n].parent = e /\ d[n].name = name /\ d[n].children = {} /\ d[n].added = FALSE
    /\ \A k \in DOMAIN c : /\ d[k].parent = c[k].parent /\ d[k].name = c[k].name /\ d[k].added = c[k].added
                           /\ d[k].children = IF k = e THEN c[k].children \union {n} ELSE c[k].children

LEMMA GraftedLinked ==
    ASSUME NEW c, NEW n, NEW r, Linked(c, n, r), n # 0, r # n, NEW e \in DOMAIN c, NEW name,
           \A k \in c[e].children : c[k].name # name, NEW d, Grafted(d, c, n, e, name)
    PROVE  Linked(d, n + 1, r)
  <1>0. n \in Nat /\ DOMAIN c \subseteq 1..(n - 1) /\ n \notin DOMAIN c
    BY DEF Linked
  <1>1. d \in Heaps /\ n + 1 \in Nat /\ DOMAIN d \subseteq 1..((n + 1) - 1) /\ DOMAIN d = DOMAIN c \union {n}
    BY <1>0 DEF Grafted
  <1>2. ASSUME NEW k \in DOMAIN c
        PROVE  /\ d[k].parent = c[k].parent /\ d[k].name = c[k].name
               /\ d[k].children \subseteq c[k].children \union {n} /\ c[k].children \subseteq d[k].children
               /\ n \in d[k].children => k = e
               /\ n \notin c[k].children
    <2>1. n \notin c[k].children
      BY <1>0, LinkedFacts
    <2>2. QED  BY <2>1 DEF Grafted
  <1>3. n \in d[e].children /\ d[n].parent = e /\ d[n].name = name /\ d[n].children = {}
    BY DEF Grafted
  <1>4. e \in Nat /\ e < n
    BY LinkedFacts
  <1>5. ASSUME NEW k \in DOMAIN d
        PROVE  /\ d[k].parent = Null <=> k = r
               /\ k # r => d[k].parent \in DOMAIN d /\ d[k].parent < k /\ k \in d[d[k].parent].children
               /\ \A x \in d[k].children : x \in DOMAIN d /\ d[x].parent = k
               /\ \A x, l \in d[k].children : d[x].name = d[l].name => x = l
    <2>1. CASE k = n
      <3>1. d[k].parent # Null
        BY <2>1, <1>3, <1>4, TreeAssumption
      <3>2. QED  BY <2>1, <3>1, <1>1, <1>3, <1>4
    <2>2. CASE k \in DOMAIN c
      <3>1. d[k].parent = Null <=> k = r
        BY <2>2, <1>2, LinkedFacts
      <3>2. ASSUME k # r  PROVE d[k].parent \in DOMAIN d /\ d[k].parent < k /\ k \in d[d[k].parent].children
        <4>1. PICK p : p = c[k].parent
          OBVIOUS
        <4>2. p \in DOMAIN c /\ p < k /\ k \in c[p].children
          BY <2>2, <3>2, <4>1, LinkedFacts
        <4>3. k \in d[p].children /\ d[k].parent = p
          BY <2>2, <4>1, <4>2, <1>2
        <4>4. QED  BY <4>2, <4>3, <1>1
      <3>3. ASSUME NEW x \in d[k].children
            PROVE  x \in DOMAIN d /\ d[x].parent = k /\ (x # n => x \in c[k].children /\ d[x].name = c[x].name)
        <4>1. CASE x = n
          BY <4>1, <2>2, <1>1, <1>2, <1>3
        <4>2. CASE x # n
          <5>1. x \in c[k].children
            BY <4>2, <2>2, <1>2
          <5>2. x \in DOMAIN c /\ c[x].parent = k
            BY <5>1, <2>2, LinkedFacts
          <5>3. QED  BY <4>2, <5>1, <5>2, <1>1, <1>2
        <4>3. QED  BY <4>1, <4>2
      <3>4. ASSUME NEW x \in d[k].children, NEW l \in d[k].children, d[x].name = d[l].name  PROVE x = l
        <4>1. CASE x # n /\ l # n
          <5>1. x \in c[k].children /\ l \in c[k].children /\ c[x].name = c[l].name
            BY <4>1, <3>3, <3>4
          <5>2. QED  BY <2>2, <5>1, LinkedFacts
        <4>2. ASSUME NEW a \in d[k].children, NEW b \in d[k].children, a = n, b # n  PROVE d[a].name # d[b].name
          <5>1. k = e /\ b \in c[k].children /\ d[b].name = c[b].name /\ d[a].name = name
            BY <4>2, <2>2, <1>2, <1>3, <3>3
          <5>2. QED  BY <5>1
        <4>3. QED  BY <4>1, <4>2, <3>4
      <3>5. QED  BY <3>1, <3>2, <3>3, <3>4
    <2>3. QED  BY <2>1, <2>2, <1>1
  <1>6. QED
    BY <1>1, <1>5 DEF Linked

LEMMA NewCell ==
    ASSUME NEW e \in Nat, NEW name \in EntryNames
    PROVE  /\ Cell(e, name) \in CellRecords /\ Cell(e, name).parent = e /\ Cell(e, name).name = name
           /\ Cell(e, name).children = {} /\ Cell(e, name).added = FALSE
  BY DEF Cell, CellRecords

\* Trees that are growing: total is the number of the addresses that can be given.
Growing(total) ==
    {t \in [cells : Heaps, next : Nat, room : Nat, at : Nat \union {Null}] :
        /\ Linked(t.cells, t.next, root) /\ root \in DOMAIN t.cells
        /\ t.at \in DOMAIN t.cells \union {Null}
        /\ t.next + t.room = total
        /\ t.at = Null => t.room = 0}

\* make_child
LEMMA MakeChildGrafts ==
    ASSUME NEW total \in Nat, NEW t \in Growing(total), NEW e \in DOMAIN t.cells, NEW name \in EntryNames, t.room # 0,
           \A k \in t.cells[e].children : t.cells[k].name # name
    PROVE  /\ MakeChild(t, e, name) \in Growing(total)
           /\ Grafted(MakeChild(t, e, name).cells, t.cells, t.next, e, name)
           /\ MakeChild(t, e, name).at = t.next
  <1>1. PICK c, n : c = t.cells /\ n = t.next
    OBVIOUS
  <1>2. /\ c \in Heaps /\ n \in Nat /\ t.room \in Nat /\ Linked(c, n, root) /\ root \in DOMAIN c /\ n + t.room = total
        /\ t \in [cells : Heaps, next : Nat, room : Nat, at : Nat \union {Null}]
    BY <1>1 DEF Growing
  <1>3. e \in DOMAIN c /\ e \in Nat /\ e # 0 /\ e < n /\ root # n /\ n \notin DOMAIN c
    BY <1>1, <1>2, LinkedFacts DEF Linked
  <1>4. PICK grown : grown = [k \in DOMAIN c \union {n} |-> IF k = n THEN Cell(e, name) ELSE c[k]]
    OBVIOUS
  <1>5. /\ DOMAIN grown = DOMAIN c \union {n} /\ grown[n] = Cell(e, name) /\ \A k \in DOMAIN c : grown[k] = c[k]
        /\ grown \in [DOMAIN c \union {n} -> CellRecords] /\ DOMAIN c \union {n} \in SUBSET Nat
    <2>1. \A k \in DOMAIN c : c[k] \in CellRecords /\ k \in Nat
      BY <1>2, HeapTypes
    <2>2. Cell(e, name) \in CellRecords
      BY <1>3, NewCell
    <2>3. QED  BY <1>2, <1>3, <1>4, <2>1, <2>2
  <1>6. PICK x, y, C : y = c[e] /\ C = y.children \union {n} /\ x = [y EXCEPT !.children = C]
    OBVIOUS
  <1>7. /\ x \in CellRecords /\ x.children = c[e].children \union {n} /\ x.parent = c[e].parent /\ x.name = c[e].name
        /\ x.added = c[e].added
    <2>1. y \in CellRecords /\ C \in SUBSET Nat
      <3>1. c[e] \in CellRecords /\ c[e].children \in SUBSET Nat
        BY <1>2, <1>3, HeapTypes
      <3>2. QED  BY <1>2, <1>6, <3>1
    <2>2. QED  BY <1>6, <2>1, ChildrenField
  <1>8. PICK d : d = [grown EXCEPT ![e] = x]
    OBVIOUS
  <1>9. DOMAIN d = DOMAIN c \union {n} /\ d \in Heaps /\ d[e] = x /\ d[n] = Cell(e, name)
        /\ \A k \in DOMAIN c : k # e => d[k] = c[k]
    <2>1. d \in [DOMAIN c \union {n} -> CellRecords]
      BY <1>5, <1>7, <1>8
    <2>2. d \in Heaps
      BY <1>5, <2>1 DEF Heaps
    <2>3. QED  BY <1>3, <1>5, <1>8, <2>2
  <1>10. Grafted(d, c, n, e, name)
    <2>1. d[n].parent = e /\ d[n].name = name /\ d[n].children = {} /\ d[n].added = FALSE
      <3>1. PICK z : z = Cell(e, name)
        OBVIOUS
      <3>2. z.parent = e /\ z.name = name /\ z.children = {} /\ z.added = FALSE
        BY <3>1 DEF Cell
      <3>3. QED  BY <1>9, <3>1, <3>2
    <2>2. ASSUME NEW k \in DOMAIN c
          PROVE  /\ d[k].parent = c[k].parent /\ d[k].name = c[k].name /\ d[k].added = c[k].added
                 /\ d[k].children = IF k = e THEN c[k].children \union {n} ELSE c[k].children
      <3>1. CASE k = e
        BY <1>7, <1>9, <3>1
      <3>2. CASE k # e
        BY <1>9, <3>2
      <3>3. QED  BY <3>1, <3>2
    <2>3. QED  BY <1>9, <2>1, <2>2 DEF Grafted
  <1>11. Linked(d, n + 1, root)
    BY <1>1, <1>2, <1>3, <1>10, GraftedLinked
  <1>12. [grown EXCEPT ![e].children = @ \cup {n}] = d
    BY <1>3, <1>5, <1>6, <1>8
  <1>13. MakeChild(t, e, name) = [t EXCEPT !.cells = d, !.next = @ + 1, !.room = @ - 1, !.at = n]
    BY <1>1, <1>4, <1>12 DEF MakeChild
  <1>14. PICK u : u = [t EXCEPT !.cells = d, !.next = @ + 1, !.room = @ - 1, !.at = n]
    OBVIOUS
  <1>15. u \in [cells : Heaps, next : Nat, room : Nat, at : Nat \union {Null}]
         /\ u.cells = d /\ u.next = n + 1 /\ u.room = t.room - 1 /\ u.at = n
    <2>1. PICK b \in Nat, m \in Nat : b = t.room - 1 /\ m = n + 1
      BY <1>2
    <2>2. u = [cells |-> d, next |-> m, room |-> b, at |-> n]
      BY <1>1, <1>2, <1>14, <2>1
    <2>3. QED  BY <1>2, <1>9, <2>1, <2>2
  <1>16. u \in Growing(total)
    <2>1. root \in DOMAIN u.cells /\ u.at \in DOMAIN u.cells /\ u.at # Null
      BY <1>2, <1>9, <1>15, TreeAssumption
    <2>2. u.next + u.room = total
      BY <1>2, <1>15
    <2>3. QED  BY <1>11, <1>15, <2>1, <2>2 DEF Growing
  <1>17. QED
    BY <1>1, <1>10, <1>13, <1>14, <1>15, <1>16

\* get_child goes from t to u.
Entered(u, t, name) ==
    \/ t.at = Null /\ u = t
    \/ /\ t.at # Null /\ u.cells = t.cells /\ u.next = t.next
       /\ \/ u.at = Null
          \/ u.at \in t.cells[t.at].children /\ t.cells[u.at].name = name
    \/ t.at # Null /\ Grafted(u.cells, t.cells, t.next, t.at, name) /\ u.at = t.next /\ u.next = t.next + 1

EnterStep(t, name) == IF t.at = Null THEN t ELSE GetChild(t, t.at, name)

LEMMA GrowingFacts ==
    ASSUME NEW total, NEW t \in Growing(total)
    PROVE  /\ Linked(t.cells, t.next, root) /\ root \in DOMAIN t.cells /\ t.cells \in Heaps /\ t.next \in Nat /\ t.room \in Nat
           /\ t.at \in Nat \union {Null} /\ t.at \in DOMAIN t.cells \union {Null} /\ t.next + t.room = total
           /\ t.at = Null => t.room = 0
           /\ t \in [cells : Heaps, next : Nat, room : Nat, at : Nat \union {Null}]
  BY DEF Growing

LEMMA AtField ==
    ASSUME NEW total, NEW t \in Growing(total), NEW k \in DOMAIN t.cells \union {Null}, k = Null => t.room = 0
    PROVE  /\ [t EXCEPT !.at = k] \in Growing(total) /\ [t EXCEPT !.at = k].at = k
           /\ [t EXCEPT !.at = k].cells = t.cells /\ [t EXCEPT !.at = k].next = t.next
  <1>1. k \in Nat \union {Null}
    BY GrowingFacts, HeapTypes
  <1>2. PICK u : u = [t EXCEPT !.at = k]
    OBVIOUS
  <1>3. u \in [cells : Heaps, next : Nat, room : Nat, at : Nat \union {Null}]
        /\ u.cells = t.cells /\ u.next = t.next /\ u.room = t.room /\ u.at = k
    BY <1>1, <1>2 DEF Growing
  <1>4. u \in Growing(total)
    BY <1>3, GrowingFacts DEF Growing
  <1>5. QED
    BY <1>2, <1>3, <1>4

\* get_child
LEMMA EnterIs ==
    ASSUME NEW total \in Nat, NEW t \in Growing(total), NEW name \in EntryNames
    PROVE  EnterStep(t, name) \in Growing(total) /\ Entered(EnterStep(t, name), t, name)
  <1>1. CASE t.at = Null
    BY <1>1 DEF EnterStep, Entered
  <1>2. CASE t.at # Null
    <2>1. PICK e, c, n : e = t.at /\ c = t.cells /\ n = t.next
      OBVIOUS
    <2>2. e \in DOMAIN c /\ Linked(c, n, root)
      BY <1>2, <2>1, GrowingFacts
    <2>3. PICK k : k = SearchChild(t, e, name)
      OBVIOUS
    <2>4. EnterStep(t, name) = IF k # Null THEN [t EXCEPT !.at = k]
                               ELSE IF t.room = 0 THEN [t EXCEPT !.at = Null] ELSE MakeChild(t, e, name)
      BY <1>2, <2>1, <2>3 DEF EnterStep, GetChild
    <2>5. PICK a : a = EnterStep(t, name)
      OBVIOUS
    <2>6. CASE k # Null
      <3>1. k \in c[e].children /\ c[k].name = name
        <4>1. \E x \in c[e].children : c[x].name = name
          BY <2>1, <2>2, <2>3, <2>6, SearchIs
        <4>2. QED  BY <2>1, <2>2, <2>3, <4>1, SearchIs
      <3>2. k \in DOMAIN t.cells
        BY <2>1, <2>2, <3>1, LinkedFacts
      <3>3. a \in Growing(total) /\ a.at = k /\ a.cells = t.cells /\ a.next = t.next
        BY <2>4, <2>5, <2>6, <3>2, AtField
      <3>4. QED  BY <1>2, <2>1, <2>5, <3>1, <3>3 DEF Entered
    <2>7. CASE k = Null /\ t.room = 0
      <3>1. a \in Growing(total) /\ a.at = Null /\ a.cells = t.cells /\ a.next = t.next
        BY <2>4, <2>5, <2>7, AtField
      <3>2. QED  BY <1>2, <2>5, <3>1 DEF Entered
    <2>8. CASE k = Null /\ t.room # 0
      <3>1. \A x \in t.cells[e].children : t.cells[x].name # name
        <4>1. SUFFICES ASSUME NEW x \in c[e].children, c[x].name = name  PROVE FALSE
          BY <2>1
        <4>2. k = x
          BY <2>1, <2>2, <2>3, <4>1, SearchIs
        <4>3. x \in Nat
          BY <2>2, LinkedFacts
        <4>4. QED  BY <4>2, <4>3, <2>8, TreeAssumption
      <3>2. /\ a \in Growing(total) /\ Grafted(a.cells, t.cells, t.next, e, name) /\ a.at = t.next
        BY <2>1, <2>2, <2>4, <2>5, <2>8, <3>1, MakeChildGrafts
      <3>3. a.next = t.next + 1
        <4>1. a = MakeChild(t, e, name)
          BY <2>4, <2>5, <2>8
        <4>2. t \in [cells : Heaps, next : Nat, room : Nat, at : Nat \union {Null}]
          BY GrowingFacts
        <4>3. QED  BY <4>1, <4>2 DEF MakeChild
      <3>4. QED  BY <1>2, <2>1, <2>5, <3>2, <3>3 DEF Entered
    <2>9. QED  BY <2>6, <2>7, <2>8
  <1>3. QED
    BY <1>1, <1>2

----------------------------------------------------------------------------
(* Adding a path. *)

\* g tells the trees that adding a path goes through.
Grows(g, path, n, total, room) ==
    /\ g \in [0..n -> Growing(total)]
    /\ g[0] = [cells |-> cells, next |-> next, room |-> room, at |-> root]
    /\ g[n] = Grow(path, room)
    /\ \A k \in 1..n : Entered(g[k], g[k - 1], path[k])

\* process with get_child
LEMMA GrowIs ==
    ASSUME Linked(cells, next, root), root \in Live, NEW n \in Nat, NEW path, DOMAIN path = 1..n,
           \A k \in 1..n : path[k] \in EntryNames, NEW total \in Nat, NEW room \in Nat, total = next + room
    PROVE  \E g : Grows(g, path, n, total, room)
  <1> DEFINE start == [cells |-> cells, next |-> next, room |-> room, at |-> root]
  <1>0. PICK st, W : st = start /\ W = Growing(total)
    OBVIOUS
  <1>1. st \in W
    <2>1. st.cells = cells /\ st.next = next /\ st.room = room /\ st.at = root
      BY <1>0
    <2>2. cells \in Heaps /\ next \in Nat /\ root \in Nat /\ root # Null
      BY HeapTypes, LinkedFacts, TreeAssumption DEF Linked, Live
    <2>3. st \in [cells : Heaps, next : Nat, room : Nat, at : Nat \union {Null}]
      BY <1>0, <2>2
    <2>4. QED  BY <1>0, <2>1, <2>2, <2>3 DEF Growing, Live
  <1>2. \A t \in W : \A k \in 1..n : EnterStep(t, path[k]) \in W /\ Entered(EnterStep(t, path[k]), t, path[k])
    BY <1>0, EnterIs
  <1>3. PICK phi : phi = [z \in W \X (1..n) |-> EnterStep(z[1], path[z[2]])]
    OBVIOUS
  <1>4. phi \in [W \X (1..n) -> W]
    BY <1>2, <1>3
  <1>5. PICK f \in [SUBSET (1..n) -> W] : \A s \in SUBSET (1..n) : f[s] = FoldStep(f, phi, st, s)
    <2>2. PICK f : Folding(f, n, W, phi, st)
      BY <1>1, <1>4, FoldExists
    <2>3. QED  BY <2>2 DEF Folding
  <1>6. \A s \in SUBSET (1..n) : s # {} => phi[<<f[s \ {Max(s)}], Max(s)>>] = EnterStep(f[s \ {Max(s)}], path[Max(s)])
    <2>1. SUFFICES ASSUME NEW s \in SUBSET (1..n), s # {}
          PROVE phi[<<f[s \ {Max(s)}], Max(s)>>] = EnterStep(f[s \ {Max(s)}], path[Max(s)])
      OBVIOUS
    <2>2. Max(s) \in 1..n /\ s \ {Max(s)} \in SUBSET (1..n)
      BY <2>1, MaxIn
    <2>3. PICK a \in W, i \in 1..n : a = f[s \ {Max(s)}] /\ i = Max(s)
      BY <2>2
    <2>4. phi[<<a, i>>] = EnterStep(a, path[i])
      BY <1>3
    <2>5. QED  BY <2>3, <2>4
  <1>7. \A s \in SUBSET (1..n) : f[s] = IF s = {} THEN st ELSE EnterStep(f[s \ {Max(s)}], path[Max(s)])
    BY <1>5, <1>6 DEF FoldStep
  <1> DEFINE Body(h) == [s \in SUBSET DOMAIN path |-> IF s = {} THEN start ELSE EnterStep(h[s \ {Max(s)}], path[Max(s)])]
  <1>8. f = Body(f)
    <2> HIDE DEF start
    <2> QED  BY <1>0, <1>7
  <1>9. PICK h : h = CHOOSE x : x = Body(x)
    OBVIOUS
  <1>10. h = Body(h)
    <2> HIDE DEF Body
    <2> QED  BY <1>8, <1>9
  <1>11. Grow(path, room) = h[DOMAIN path]
    BY <1>9 DEF Grow, FoldLeft, MapThenFoldSet, EnterStep
  <1>12. \A s \in SUBSET (1..n) : h[s] = IF s = {} THEN st ELSE EnterStep(h[s \ {Max(s)}], path[Max(s)])
    <2> HIDE DEF start
    <2> QED  BY <1>0, <1>10
  <1>13. PICK g : g = [k \in 0..n |-> h[1..k]]
    OBVIOUS
  <1>14. g[0] = st /\ g[n] = Grow(path, room)
    <2>1. 1..0 = {} /\ {} \in SUBSET (1..n)
      OBVIOUS
    <2>2. h[{}] = st
      BY <1>12, <2>1
    <2>3. g[0] = h[1..0] /\ g[n] = h[1..n]
      BY <1>13
    <2> HIDE DEF start
    <2>4. QED  BY <1>11, <2>1, <2>2, <2>3
  <1>15. ASSUME NEW k \in 1..n  PROVE g[k] = EnterStep(g[k - 1], path[k])
    <2>1. /\ 1..k \in SUBSET (1..n) /\ 1..k # {}
          /\ Max(1..k) = k /\ (1..k) \ {Max(1..k)} = 1..(k - 1)
      BY FirstIndexes
    <2>2. k \in 0..n /\ k - 1 \in 0..n
      OBVIOUS
    <2>3. QED  BY <1>12, <1>13, <2>1, <2>2
  <1>16. \A k \in 0..n : g[k] \in W
    <2> DEFINE T == {k \in Nat : k <= n => g[k] \in W}
    <2>1. 0 \in T
      BY <1>1, <1>14
    <2>2. ASSUME NEW k \in Nat, k \in T  PROVE k + 1 \in T
      <3>1. SUFFICES ASSUME k + 1 <= n  PROVE g[k + 1] \in W
        OBVIOUS
      <3>2. g[k] \in W /\ k + 1 \in 1..n /\ (k + 1) - 1 = k
        BY <2>2, <3>1
      <3>3. QED  BY <1>2, <1>15, <3>2
    <2>3. T = Nat
      <3> HIDE DEF T
      <3>1. T \in SUBSET Nat
        BY DEF T
      <3>2. QED  BY <2>1, <2>2, <3>1, EveryNumber
    <2>4. QED  BY <2>3
  <1>17. g \in [0..n -> W]
    BY <1>13, <1>16
  <1>18. ASSUME NEW k \in 1..n  PROVE Entered(g[k], g[k - 1], path[k])
    <2>1. g[k - 1] \in W
      BY <1>16
    <2>2. QED  BY <1>2, <1>15, <2>1
  <1>19. QED
    BY <1>0, <1>14, <1>17, <1>18 DEF Grows

\* Heap d is c where e is an entry that was given.
Marked(d, c, e) ==
    /\ d \in Heaps /\ DOMAIN d = DOMAIN c
    /\ d[e].added = TRUE
    /\ \A k \in DOMAIN c : /\ d[k].parent = c[k].parent /\ d[k].name = c[k].name /\ d[k].children = c[k].children
                           /\ k # e => d[k].added = c[k].added

LEMMA AddedField ==
    ASSUME NEW x \in CellRecords
    PROVE  /\ [x EXCEPT !.added = TRUE] \in CellRecords
           /\ [x EXCEPT !.added = TRUE].added = TRUE
           /\ [x EXCEPT !.added = TRUE].parent = x.parent
           /\ [x EXCEPT !.added = TRUE].name = x.name
           /\ [x EXCEPT !.added = TRUE].children = x.children
  BY DEF CellRecords

LEMMA MarkIs ==
    ASSUME NEW c \in Heaps, NEW e \in DOMAIN c
    PROVE  Marked([c EXCEPT ![e].added = TRUE], c, e)
  <1>1. PICK x, y : y = c[e] /\ x = [y EXCEPT !.added = TRUE]
    OBVIOUS
  <1>2. /\ x \in CellRecords /\ x.added = TRUE /\ x.parent = c[e].parent /\ x.name = c[e].name
        /\ x.children = c[e].children
    <2>1. y \in CellRecords
      BY <1>1, HeapTypes
    <2>2. QED  BY <1>1, <2>1, AddedField
  <1>3. PICK d : d = [c EXCEPT ![e] = x]
    OBVIOUS
  <1>4. d \in Heaps
    <2>1. PICK D \in SUBSET Nat : c \in [D -> CellRecords]
      BY DEF Heaps
    <2>2. d \in [D -> CellRecords]
      BY <1>2, <1>3, <2>1
    <2>3. QED  BY <2>2 DEF Heaps
  <1>5. DOMAIN d = DOMAIN c /\ d[e] = x /\ \A k \in DOMAIN c : k # e => d[k] = c[k]
    BY <1>3
  <1>6. [c EXCEPT ![e].added = TRUE] = d
    BY <1>1, <1>3
  <1>7. d[e].added = TRUE
    BY <1>2, <1>5
  <1>8. ASSUME NEW k \in DOMAIN c
        PROVE  /\ d[k].parent = c[k].parent /\ d[k].name = c[k].name /\ d[k].children = c[k].children
               /\ k # e => d[k].added = c[k].added
    <2>1. CASE k = e
      BY <2>1, <1>2, <1>5
    <2>2. CASE k # e
      BY <2>2, <1>5
    <2>3. QED  BY <2>1, <2>2
  <1>9. QED
    BY <1>4, <1>5, <1>6, <1>7, <1>8 DEF Marked

LEMMA MarkedLinked ==
    ASSUME NEW c, NEW n, NEW r, Linked(c, n, r), NEW e, NEW d, Marked(d, c, e)
    PROVE  Linked(d, n, r)
  <1>1. d \in Heaps /\ n \in Nat /\ DOMAIN d \subseteq 1..(n - 1) /\ DOMAIN d = DOMAIN c
    BY DEF Marked, Linked
  <1>2. \A k \in DOMAIN c : d[k].parent = c[k].parent /\ d[k].name = c[k].name /\ d[k].children = c[k].children
    BY DEF Marked
  <1>3. ASSUME NEW k \in DOMAIN d
        PROVE  /\ d[k].parent = Null <=> k = r
               /\ k # r => d[k].parent \in DOMAIN d /\ d[k].parent < k /\ k \in d[d[k].parent].children
               /\ \A x \in d[k].children : x \in DOMAIN d /\ d[x].parent = k
               /\ \A x, l \in d[k].children : d[x].name = d[l].name => x = l
    <2>1. /\ c[k].children \in SUBSET DOMAIN c
          /\ c[k].parent = Null <=> k = r
          /\ k # r => c[k].parent \in DOMAIN c /\ c[k].parent < k /\ k \in c[c[k].parent].children
          /\ \A x \in c[k].children : c[x].parent = k
          /\ \A x, l \in c[k].children : c[x].name = c[l].name => x = l
      BY <1>1, LinkedFacts
    <2>2. QED  BY <1>1, <1>2, <2>1
  <1>4. QED
    BY <1>1, <1>3 DEF Linked

----------------------------------------------------------------------------
\* The packages that wait are alive, and none is below one that comes before it.
Waiting(fs, c, r) ==
    /\ fs \in Seq(Nat)
    /\ \A i \in 1..Len(fs) : fs[i] \in DOMAIN c
    /\ \A i, j \in 1..Len(fs) : i < j => \A S : Rooted(S, c, r, fs[i]) => fs[j] \notin S

\* What the phases of a request know of its tree.
PhaseFacts ==
    /\ phase \in {"init", "receive", "process", "deinit", "end"}
    /\ phase = "init" => Live = {} /\ root = Null /\ files = Null /\ ~crashed /\ next = 1
    /\ phase = "receive" => root \in Live /\ ~crashed
    /\ phase = "process" => ~crashed /\ ((files = root /\ root \in Live) \/ (files = Null /\ Live = {}))
    /\ phase = "deinit" => ~crashed /\ (root \in Live \/ Live = {}) /\ (root # Null => root \in Live \/ files = Null)
    /\ phase = "end" => Live = {} /\ (crashed => files = Null)
    /\ phase # "process" => found = <<>>

TreeInv ==
    /\ Linked(cells, next, root) /\ next <= MaxCells + 1
    /\ Waiting(found, cells, root)
    /\ PhaseFacts

LEMMA NoneWait == ASSUME NEW c, NEW r  PROVE Waiting(<<>>, c, r)
  BY DEF Waiting

LEMMA EmptyHeap == ASSUME NEW n \in Nat, NEW r  PROVE Linked(<<>>, n, r) /\ DOMAIN <<>> = {}
  <1>1. DOMAIN <<>> = {}
    OBVIOUS
  <1>2. <<>> \in [{} -> CellRecords]
    BY <1>1
  <1>3. <<>> \in Heaps
    BY <1>2 DEF Heaps
  <1>4. QED
    BY <1>1, <1>3 DEF Linked

LEMMA TreeInvInit == TreeInit => TreeInv
  <1>1. SUFFICES ASSUME TreeInit PROVE TreeInv
    OBVIOUS
  <1>2. cells = <<>> /\ next = 1 /\ root = Null /\ files = Null /\ found = <<>> /\ phase = "init" /\ crashed = FALSE
    BY <1>1 DEF TreeInit
  <1>3. Linked(cells, next, root) /\ Live = {}
    BY <1>2, EmptyHeap DEF Live
  <1>4. next <= MaxCells + 1
    BY <1>2, TreeAssumption
  <1>5. Waiting(found, cells, root)
    BY <1>2, NoneWait
  <1>6. PhaseFacts
    BY <1>2, <1>3 DEF PhaseFacts
  <1>7. QED
    BY <1>3, <1>4, <1>5, <1>6 DEF TreeInv

\* The invariant is the property.
LEMMA TreeInvSound == TreeInv => TreeSound
  <1>1. SUFFICES ASSUME TreeInv PROVE TreeSound
    OBVIOUS
  <1>2. Linked(cells, next, root) /\ Waiting(found, cells, root) /\ PhaseFacts
    BY <1>1 DEF TreeInv
  <1>3. WellLinked
    <2>1. ASSUME NEW e \in Live
          PROVE  /\ \A k \in cells[e].children : k \in Live /\ cells[k].parent = e
                 /\ \A k, l \in cells[e].children : cells[k].name = cells[l].name => k = l
                 /\ cells[e].parent # Null => cells[e].parent \in Live /\ e \in cells[cells[e].parent].children
      BY <1>2, LinkedFacts DEF Live
    <2>2. \A e \in Live : Lookup(root, RelPath(e)) = e
      BY <1>2, LookupPath
    <2>3. QED  BY <2>1, <2>2 DEF WellLinked
  <1>4. FoundAlive
    BY <1>2 DEF Waiting, FoundAlive, Live
  <1>5. FreedOnce /\ NothingLeaks
    BY <1>2 DEF PhaseFacts, FreedOnce, NothingLeaks
  <1>6. QED
    BY <1>3, <1>4, <1>5 DEF TreeSound

----------------------------------------------------------------------------
(* The steps of a request. *)

LEMMA RootHeap ==
    ASSUME NEW n \in Nat, n # 0, NEW nm \in EntryNames, NEW c, c = [k \in {n} |-> Cell(Null, nm)]
    PROVE  Linked(c, n + 1, n) /\ DOMAIN c = {n}
  <1>3. PICK z : z = Cell(Null, nm)
    OBVIOUS
  <1>4. c = [k \in {n} |-> z]
    BY <1>3
  <1>5. z \in CellRecords /\ z.parent = Null /\ z.children = {}
    BY <1>3 DEF Cell, CellRecords
  <1>6. DOMAIN c = {n} /\ c[n] = z
    BY <1>4
  <1>7. c \in Heaps
    <2>1. c \in [{n} -> CellRecords] /\ {n} \in SUBSET Nat
      BY <1>4, <1>5
    <2>2. QED  BY <2>1 DEF Heaps
  <1>8. DOMAIN c \subseteq 1..((n + 1) - 1) /\ n + 1 \in Nat
    BY <1>6
  <1>9. \A e \in DOMAIN c : e = n /\ c[e].parent = Null /\ c[e].children = {}
    BY <1>5, <1>6
  <1>10. QED
    BY <1>6, <1>7, <1>8, <1>9 DEF Linked

LEMMA CreateRootKeeps == TreeInv /\ CreateRoot => TreeInv'
  <1>1. SUFFICES ASSUME TreeInv, CreateRoot PROVE TreeInv'
    OBVIOUS
  <1>2. PICK c, n : c = cells' /\ n = next
    OBVIOUS
  <1>3. n = 1 /\ ~crashed /\ found = <<>> /\ files = Null
    BY <1>1, <1>2 DEF TreeInv, PhaseFacts, CreateRoot
  <1>4. /\ c = [k \in {n} |-> Cell(Null, "")] /\ next' = n + 1 /\ root' = n /\ phase' = "receive"
        /\ found' = <<>> /\ crashed' = crashed
    BY <1>1, <1>2, <1>3, Zenon DEF CreateRoot
  <1>5. Linked(c, n + 1, n) /\ DOMAIN c = {n}
    <2>1. n \in Nat /\ n # 0
      BY <1>3
    <2>2. PICK nm : nm = ""
      OBVIOUS
    <2>3. nm \in EntryNames /\ c = [k \in {n} |-> Cell(Null, nm)]
      BY <1>4, <2>2, Zenon DEF EntryNames
    <2>4. QED  BY <2>1, <2>3, RootHeap
  <1>5a. Linked(cells', next', root') /\ root' \in Live'
    BY <1>2, <1>4, <1>5 DEF Live
  <1>6. next' <= MaxCells + 1
    <2>1. next' = n + 1
      BY <1>4
    <2>2. QED  BY <1>3, <2>1, TreeAssumption
  <1>7. Waiting(found', cells', root')
    <2>1. found' = <<>>
      BY <1>4
    <2>2. QED  BY <2>1, NoneWait
  <1>8. PhaseFacts'
    <2>1. phase' = "receive" /\ found' = <<>> /\ crashed' = crashed
      BY <1>4
    <2>2. QED  BY <1>3, <1>5a, <2>1 DEF PhaseFacts
  <1>9. QED
    BY <1>5a, <1>6, <1>7, <1>8 DEF TreeInv

LEMMA CreateFailsKeeps == TreeInv /\ CreateFails => TreeInv'
  <1>1. SUFFICES ASSUME TreeInv, CreateFails PROVE TreeInv'
    OBVIOUS
  <1>2. /\ cells' = cells /\ next' = next /\ root' = root /\ files' = files /\ found' = found /\ crashed' = crashed
        /\ phase = "init" /\ phase' = "deinit"
    BY <1>1 DEF CreateFails
  <1>3. Linked(cells', next', root') /\ next' <= MaxCells + 1 /\ Waiting(found', cells', root')
    BY <1>1, <1>2 DEF TreeInv
  <1>4. PhaseFacts'
    BY <1>1, <1>2 DEF TreeInv, PhaseFacts, Live
  <1>5. QED
    BY <1>3, <1>4 DEF TreeInv

\* The tree where a path is added.
LEMMA GrowEnds ==
    ASSUME Linked(cells, next, root), root \in Live, NEW f \in Files, NEW room \in Nat
    PROVE  Grow(f, room) \in Growing(next + room)
  <1>1. PICK n \in Nat, total \in Nat : n = Len(f) /\ total = next + room
    BY TreeAssumption DEF Linked
  <1>2. DOMAIN f = 1..n /\ \A k \in 1..n : f[k] \in EntryNames
    <2>1. f \in Seq(ToSet(f))
      BY TreeAssumption
    <2>2. PICK R : R = ToSet(f)
      OBVIOUS
    <2>3. R \subseteq EntryNames
      BY <2>2, Zenon DEF EntryNames
    <2>4. QED  BY <1>1, <2>1, <2>2, <2>3
  <1>3. PICK g : Grows(g, f, n, total, room)
    BY <1>1, <1>2, GrowIs
  <1>4. n \in 0..n
    OBVIOUS
  <1>5. QED
    BY <1>1, <1>3, <1>4 DEF Grows

\* With room for all the entries no allocation fails.
LEMMA EnoughRoom ==
    ASSUME Linked(cells, next, root), root \in Live, NEW f \in Files, NEW t, t = Grow(f, MaxCells), t.next <= MaxCells + 1
    PROVE  Linked(t.cells, t.next, root) /\ root \in DOMAIN t.cells /\ t.cells \in Heaps /\ t.at \in DOMAIN t.cells
  <1>1. t \in Growing(next + MaxCells)
    BY GrowEnds, TreeAssumption
  <1>2. /\ Linked(t.cells, t.next, root) /\ root \in DOMAIN t.cells /\ t.cells \in Heaps /\ t.next \in Nat /\ t.room \in Nat
        /\ t.at \in DOMAIN t.cells \union {Null} /\ t.next + t.room = next + MaxCells
        /\ t.at = Null => t.room = 0
    BY <1>1, GrowingFacts
  <1>3. next \in Nat /\ 1 < next
    <2>1. root \in DOMAIN cells
      BY DEF Live
    <2>2. root \in Nat /\ root # 0 /\ root < next /\ next \in Nat
      BY <2>1, LinkedFacts
    <2>3. QED  BY <2>2
  <1>4. t.room # 0
    BY <1>2, <1>3, TreeAssumption
  <1>5. QED
    BY <1>2, <1>4

LEMMA AddFileKeeps == TreeInv /\ AddFile => TreeInv'
  <1>1. SUFFICES ASSUME TreeInv, AddFile PROVE TreeInv'
    OBVIOUS
  <1>2. /\ root' = root /\ files' = files /\ found' = found /\ crashed' = crashed /\ phase' = phase
        /\ phase = "receive"
    BY <1>1 DEF AddFile
  <1>3. PICK f \in Files : /\ Grow(f, MaxCells).next <= MaxCells + 1
                           /\ cells' = [Grow(f, MaxCells).cells EXCEPT ![Grow(f, MaxCells).at].added = TRUE]
                           /\ next' = Grow(f, MaxCells).next
    BY <1>1 DEF AddFile
  <1>4. PICK t : t = Grow(f, MaxCells)
    OBVIOUS
  <1>5. Linked(cells, next, root) /\ root \in Live /\ found = <<>> /\ ~crashed
    BY <1>1, <1>2 DEF TreeInv, PhaseFacts
  <1>7. Linked(t.cells, t.next, root) /\ root \in DOMAIN t.cells /\ t.cells \in Heaps /\ t.at \in DOMAIN t.cells
    BY <1>3, <1>4, <1>5, EnoughRoom
  <1>9. PICK c, e, d : c = t.cells /\ e = t.at /\ d = [c EXCEPT ![e].added = TRUE]
    OBVIOUS
  <1>10. Marked(d, c, e)
    BY <1>7, <1>9, MarkIs
  <1>11. Linked(d, t.next, root) /\ DOMAIN d = DOMAIN c
    <2>1. PICK m : m = t.next
      OBVIOUS
    <2>2. Linked(c, m, root)
      BY <1>7, <1>9, <2>1
    <2>3. Linked(d, m, root)
      BY <1>10, <2>2, MarkedLinked
    <2>4. QED  BY <1>10, <2>1, <2>3 DEF Marked
  <1>12. cells' = d /\ next' = t.next
    BY <1>3, <1>4, <1>9
  <1>13. Linked(cells', next', root') /\ root' \in Live' /\ next' <= MaxCells + 1
    BY <1>2, <1>3, <1>4, <1>7, <1>9, <1>11, <1>12 DEF Live
  <1>14. Waiting(found', cells', root')
    BY <1>2, <1>5, NoneWait
  <1>15. PhaseFacts'
    BY <1>2, <1>5, <1>13 DEF PhaseFacts
  <1>16. QED
    BY <1>13, <1>14, <1>15 DEF TreeInv

LEMMA AddFailsKeeps == TreeInv /\ AddFails => TreeInv'
  <1>1. SUFFICES ASSUME TreeInv, AddFails PROVE TreeInv'
    OBVIOUS
  <1>2. /\ root' = root /\ files' = files /\ found' = found /\ crashed' = crashed /\ phase' = "deinit"
        /\ phase = "receive"
    BY <1>1 DEF AddFails
  <1>3. PICK f \in Files : \E room \in 0..Len(f) - 1 :
            Grow(f, room).next <= MaxCells + 1 /\ cells' = Grow(f, room).cells /\ next' = Grow(f, room).next
    BY <1>1 DEF AddFails
  <1>4. PICK room \in 0..Len(f) - 1 :
            Grow(f, room).next <= MaxCells + 1 /\ cells' = Grow(f, room).cells /\ next' = Grow(f, room).next
    BY <1>3
  <1>5. Linked(cells, next, root) /\ root \in Live /\ found = <<>> /\ ~crashed
    BY <1>1, <1>2 DEF TreeInv, PhaseFacts
  <1>6. PICK t : t = Grow(f, room)
    OBVIOUS
  <1>7. t \in Growing(next + room)
    <2>1. f \in Seq(ToSet(f))
      BY TreeAssumption
    <2>2. Len(f) \in Nat
      BY <2>1, LengthOf
    <2>3. room \in Nat
      BY <2>2
    <2>4. QED  BY <1>5, <1>6, <2>3, GrowEnds
  <1>8. Linked(t.cells, t.next, root) /\ root \in DOMAIN t.cells
    BY <1>7, GrowingFacts
  <1>13. Linked(cells', next', root') /\ root' \in Live' /\ next' <= MaxCells + 1
    BY <1>2, <1>4, <1>6, <1>8 DEF Live
  <1>14. Waiting(found', cells', root')
    BY <1>2, <1>5, NoneWait
  <1>15. PhaseFacts'
    BY <1>2, <1>5, <1>13 DEF PhaseFacts
  <1>16. QED
    BY <1>13, <1>14, <1>15 DEF TreeInv

\* Walks go through sequences of the entries.
LEMMA WalksFacts ==
    ASSUME NEW S, IsFiniteSet(S), NEW s \in Walks(S)
    PROVE  /\ s \in Seq(S)
           /\ \A i, j \in 1..Len(s) : i < j => s[j] \notin SubTree(s[i])
  <1>1. PICK n \in Nat : n = Cardinality(S)
    BY FS_CardinalityType
  <1>2. s \in [1..n -> S]
    BY <1>1 DEF Walks, SetToSeqs
  <1>3. s \in Seq(S)
    BY <1>2
  <1>4. QED
    BY <1>3 DEF Walks

LEMMA SomeEntries ==
    ASSUME NEW c, NEW n, NEW r, Linked(c, n, r), NEW S \in SUBSET DOMAIN c
    PROVE  IsFiniteSet(S) /\ S \subseteq Nat
  <1>1. PICK m \in Int : m = n - 1
    BY DEF Linked
  <1>2. S \subseteq 1..m
    BY <1>1 DEF Linked
  <1>3. IsFiniteSet(1..m)
    BY FS_Interval
  <1>4. QED
    BY <1>2, <1>3, FS_Subset

\* Two sets of the entries below e are the same.
LEMMA RootedOnce ==
    ASSUME NEW c, NEW n, NEW r, Linked(c, n, r), NEW e \in DOMAIN c, NEW A, NEW B, Rooted(A, c, r, e), Rooted(B, c, r, e)
    PROVE  B \subseteq A
  BY PrunedBelow

LEMMA DetectKeeps == TreeInv /\ Detect => TreeInv'
  <1>1. SUFFICES ASSUME TreeInv, Detect PROVE TreeInv'
    OBVIOUS
  <1>2. /\ root' = root /\ cells' = cells /\ next' = next /\ files' = root /\ crashed' = crashed /\ phase' = "process"
        /\ phase = "receive"
    BY <1>1 DEF Detect
  <1>3. Linked(cells, next, root) /\ next <= MaxCells + 1 /\ root \in Live /\ ~crashed
    BY <1>1, <1>2 DEF TreeInv, PhaseFacts
  <1>4. PICK S, fs : S = {e \in SubTree(root) : IsPackage(e)} /\ fs = found' /\ fs \in Walks(S)
    BY <1>1 DEF Detect
  <1>5. S \in SUBSET DOMAIN cells
    <2>1. Rooted(SubTree(root), cells, root, root)
      BY <1>3, SubTreeIs
    <2>2. QED  BY <1>4, <2>1 DEF Rooted
  <1>6. IsFiniteSet(S) /\ S \subseteq Nat
    BY <1>3, <1>5, SomeEntries
  <1>7. fs \in Seq(S) /\ \A i, j \in 1..Len(fs) : i < j => fs[j] \notin SubTree(fs[i])
    BY <1>4, <1>6, WalksFacts
  <1>8. fs \in Seq(Nat) /\ \A i \in 1..Len(fs) : fs[i] \in DOMAIN cells
    BY <1>5, <1>6, <1>7
  <1>9. ASSUME NEW i \in 1..Len(fs), NEW j \in 1..Len(fs), i < j, NEW B, Rooted(B, cells, root, fs[i])
        PROVE  fs[j] \notin B
    <2>1. PICK e, A : e = fs[i] /\ A = SubTree(e)
      OBVIOUS
    <2>2. e \in DOMAIN cells /\ Rooted(A, cells, root, e)
      BY <1>3, <1>8, <2>1, SubTreeIs DEF Live
    <2>3. B \subseteq A
      BY <1>3, <1>9, <2>1, <2>2, RootedOnce
    <2>4. QED  BY <1>7, <1>9, <2>1, <2>3
  <1>10. Waiting(found', cells', root')
    BY <1>2, <1>4, <1>8, <1>9 DEF Waiting
  <1>11. PhaseFacts'
    BY <1>2, <1>3 DEF PhaseFacts, Live
  <1>12. QED
    BY <1>2, <1>3, <1>10, <1>11 DEF TreeInv

\* What path_entry_destroy of e leaves.
LEMMA DestroyIs ==
    ASSUME Linked(cells, next, root), next <= MaxCells + 1, NEW e \in Live, NEW d, d = Without(e)
    PROVE  /\ Linked(d, next, root) /\ DOMAIN d = Live \ SubTree(e) /\ Rooted(SubTree(e), cells, root, e)
           /\ \A k \in DOMAIN d : d[k].parent = cells[k].parent
           /\ e = root => DOMAIN d = {}
           /\ e # root => root \in DOMAIN d
  <1>1. PICK c, S, n, r : c = cells /\ S = SubTree(e) /\ n = next /\ r = root
    OBVIOUS
  <1>2. Linked(c, n, r) /\ e \in DOMAIN c /\ Rooted(S, c, r, e) /\ Pruned(d, c, S, e)
    BY <1>1, SubTreeIs, WithoutPrunes DEF Live
  <1>3. Linked(d, n, r)
    BY <1>2, PrunedLinked
  <1>4. DOMAIN d = DOMAIN c \ S /\ \A k \in DOMAIN d : d[k].parent = c[k].parent
    BY <1>2 DEF Pruned
  <1>5. ASSUME e = r  PROVE DOMAIN d = {}
    <2>1. S = DOMAIN c
      BY <1>2, <1>5, RootedAll
    <2>2. QED  BY <1>4, <2>1
  <1>6. ASSUME e # r  PROVE r \in DOMAIN d
    <2>1. r \in DOMAIN c
      BY <1>2, RootLive
    <2>2. r \notin S
      BY <1>2, <1>6 DEF Rooted
    <2>3. QED  BY <1>4, <2>1, <2>2
  <1>7. QED
    BY <1>1, <1>2, <1>3, <1>4, <1>5, <1>6 DEF Live

\* The packages that remain wait.
LEMMA TailWaits ==
    ASSUME Linked(cells, next, root), next <= MaxCells + 1, Waiting(found, cells, root), found # <<>>,
           NEW d, Linked(d, next, root), DOMAIN d = Live \ SubTree(Head(found)), Rooted(SubTree(Head(found)), cells, root, Head(found)),
           \A k \in DOMAIN d : d[k].parent = cells[k].parent
    PROVE  Waiting(Tail(found), d, root)
  <1>0. found \in Seq(Nat) /\ Tail(found) \in Seq(Nat)
    BY DEF Waiting
  <1>1. PICK n \in Nat : n = Len(Tail(found))
    BY <1>0
  <1>1a. PICK fs, ts : fs = found /\ ts = Tail(fs)
    OBVIOUS
  <1>1b. fs \in Seq(Nat) /\ fs # <<>> /\ n = Len(ts) /\ ts = Tail(fs)
    BY <1>0, <1>1, <1>1a
  <1>2. fs \in Seq(Nat) /\ fs # <<>> /\ Len(fs) = n + 1 /\ ts \in Seq(Nat) /\ Head(found) = fs[1]
        /\ \A i \in 1..n : ts[i] = fs[i + 1]
    BY <1>1a, <1>1b
  <1>3. \A i \in 1..(n + 1) : fs[i] \in DOMAIN cells
    BY <1>1a, <1>2 DEF Waiting
  <1>4. \A i, j \in 1..(n + 1) : i < j => \A S : Rooted(S, cells, root, fs[i]) => fs[j] \notin S
    BY <1>1a, <1>2 DEF Waiting
  <1>5. ASSUME NEW i \in 1..n  PROVE ts[i] \in DOMAIN d
    <2>1. i + 1 \in 1..(n + 1) /\ 1 \in 1..(n + 1) /\ 1 < i + 1
      OBVIOUS
    <2>2. fs[i + 1] \in DOMAIN cells /\ fs[i + 1] \notin SubTree(Head(found))
      BY <1>2, <1>3, <1>4, <2>1
    <2>3. QED  BY <1>2, <2>2 DEF Live
  <1>6. ASSUME NEW i \in 1..n, NEW j \in 1..n, i < j, NEW B, Rooted(B, d, root, ts[i])
        PROVE  ts[j] \notin B
    <2>1. i + 1 \in 1..(n + 1) /\ j + 1 \in 1..(n + 1) /\ i + 1 < j + 1
      BY <1>6
    <2>2. PICK e, A : e = ts[i] /\ A = SubTree(e)
      OBVIOUS
    <2>3. e \in DOMAIN d /\ e \in Live
      BY <1>5, <2>2
    <2>4. Rooted(A, cells, root, e)
      BY <2>2, <2>3, SubTreeIs
    <2>5. B \subseteq A
      <3>1. Rooted(B, d, root, e) /\ DOMAIN d \subseteq DOMAIN cells
        BY <1>6, <2>2 DEF Live
      <3>2. QED  BY <2>3, <2>4, <3>1, PrunedBelow
    <2>6. fs[j + 1] \notin A
      BY <1>2, <1>4, <2>1, <2>2, <2>4
    <2>7. QED  BY <1>2, <2>5, <2>6
  <1>7. QED
    BY <1>1a, <1>1b, <1>2, <1>5, <1>6 DEF Waiting
LEMMA ProcessKeeps == TreeInv /\ (\E ok \in BOOLEAN : ProcessRootpkg(ok)) => TreeInv'
  <1>1. SUFFICES ASSUME TreeInv, NEW ok \in BOOLEAN, ProcessRootpkg(ok) PROVE TreeInv'
    OBVIOUS
  <1>2. /\ phase = "process" /\ found # <<>> /\ root' = root /\ next' = next
        /\ found' = IF ok THEN Tail(found) ELSE <<>>
        /\ phase' = IF ok THEN phase ELSE "deinit"
    BY <1>1 DEF ProcessRootpkg
  <1>3. Linked(cells, next, root) /\ next <= MaxCells + 1 /\ Waiting(found, cells, root) /\ ~crashed
        /\ ((files = root /\ root \in Live) \/ (files = Null /\ Live = {}))
    BY <1>1, <1>2 DEF TreeInv, PhaseFacts
  <1>4. PICK e : e = Head(found)
    OBVIOUS
  <1>5. e \in Live
    <2>1. found \in Seq(Nat) /\ \A i \in 1..Len(found) : found[i] \in DOMAIN cells
      BY <1>3 DEF Waiting
    <2>2. 1 \in 1..Len(found) /\ Head(found) = found[1]
      BY <1>2, <2>1
    <2>3. QED  BY <1>4, <2>1, <2>2 DEF Live
  <1>6. files = root /\ root \in Live
    BY <1>3, <1>5
  <1>7. cells' = Without(e) /\ files' = (IF e = files THEN Null ELSE files) /\ crashed' = crashed
    BY <1>1, <1>4, <1>5 DEF ProcessRootpkg
  <1>8. PICK d : d = Without(e)
    OBVIOUS
  <1>9. /\ Linked(d, next, root) /\ DOMAIN d = Live \ SubTree(e) /\ Rooted(SubTree(e), cells, root, e)
        /\ \A k \in DOMAIN d : d[k].parent = cells[k].parent
        /\ e = root => DOMAIN d = {}
        /\ e # root => root \in DOMAIN d
    BY <1>3, <1>5, <1>8, DestroyIs
  <1>10. Linked(cells', next', root') /\ next' <= MaxCells + 1
    BY <1>2, <1>3, <1>7, <1>8, <1>9
  <1>11. Live' = DOMAIN d
    BY <1>7, <1>8 DEF Live
  <1>12. Waiting(Tail(found), d, root) /\ Waiting(<<>>, d, root)
    BY <1>2, <1>3, <1>4, <1>9, TailWaits, NoneWait
  <1>13. Waiting(found', cells', root')
    BY <1>2, <1>7, <1>8, <1>12
  <1>14. PhaseFacts'
    <2>1. (files' = root /\ root \in Live') \/ (files' = Null /\ Live' = {})
      BY <1>6, <1>7, <1>9, <1>11
    <2>2. ~crashed'
      BY <1>3, <1>7
    <2>3. CASE ok
      <3>1. phase' = "process"
        BY <1>2, <2>3
      <3>2. QED  BY <1>2, <2>1, <2>2, <3>1 DEF PhaseFacts
    <2>4. CASE ~ok
      <3>1. phase' = "deinit" /\ found' = <<>>
        BY <1>2, <2>4
      <3>2. QED  BY <1>2, <2>1, <2>2, <3>1 DEF PhaseFacts
    <2>5. QED  BY <2>3, <2>4
  <1>15. QED
    BY <1>10, <1>13, <1>14 DEF TreeInv

LEMMA DefaultTreeKeeps == TreeInv /\ DefaultTree => TreeInv'
  <1>1. SUFFICES ASSUME TreeInv, DefaultTree PROVE TreeInv'
    OBVIOUS
  <1>2. /\ cells' = cells /\ next' = next /\ root' = root /\ files' = files /\ found' = found /\ found = <<>>
        /\ phase = "process" /\ phase' = "deinit" /\ crashed' = (crashed \/ files \notin Live \cup {Null})
    BY <1>1 DEF DefaultTree
  <1>3. Linked(cells', next', root') /\ next' <= MaxCells + 1 /\ Waiting(found', cells', root')
    BY <1>1, <1>2 DEF TreeInv
  <1>4. ~crashed /\ ((files = root /\ root \in Live) \/ (files = Null /\ Live = {}))
    BY <1>1, <1>2 DEF TreeInv, PhaseFacts
  <1>5. ~crashed' /\ Live' = Live
    BY <1>2, <1>4 DEF Live
  <1>6. PhaseFacts'
    BY <1>2, <1>4, <1>5 DEF PhaseFacts
  <1>7. QED
    BY <1>3, <1>6 DEF TreeInv

LEMMA DeinitKeeps == TreeInv /\ Deinit => TreeInv'
  <1>1. SUFFICES ASSUME TreeInv, Deinit PROVE TreeInv'
    OBVIOUS
  <1>2. /\ next' = next /\ root' = root /\ files' = files /\ found' = found
        /\ phase = "deinit" /\ phase' = "end"
    BY <1>1 DEF Deinit
  <1>3. Linked(cells, next, root) /\ next <= MaxCells + 1 /\ ~crashed /\ found = <<>>
        /\ (root \in Live \/ Live = {}) /\ (root # Null => root \in Live \/ files = Null)
    BY <1>1, <1>2 DEF TreeInv, PhaseFacts
  <1>4. Linked(cells', next', root') /\ Live' = {} /\ (crashed' => files' = Null)
    <2>1. CASE root \in Live
      <3>1. root # Null
        <4>1. root \in Nat
          BY <1>3, <2>1, LinkedFacts DEF Live
        <4>2. QED  BY <4>1, TreeAssumption
      <3>2. cells' = Without(root) /\ crashed' = crashed
        BY <1>1, <2>1, <3>1 DEF Deinit
      <3>3. PICK d, r : d = Without(root) /\ r = root
        OBVIOUS
      <3>4. Linked(d, next, root) /\ DOMAIN d = {}
        BY <1>3, <2>1, <3>3, DestroyIs
      <3>5. QED  BY <1>2, <1>3, <3>2, <3>3, <3>4 DEF Live
    <2>2. CASE root \notin Live
      <3>1. cells' = cells /\ (root = Null => crashed' = crashed)
        BY <1>1, <2>2 DEF Deinit
      <3>2. QED  BY <1>2, <1>3, <2>2, <3>1 DEF Live
    <2>3. QED  BY <2>1, <2>2
  <1>5. Waiting(found', cells', root')
    BY <1>2, <1>3, NoneWait
  <1>6. PhaseFacts'
    BY <1>2, <1>3, <1>4 DEF PhaseFacts
  <1>7. QED
    BY <1>2, <1>3, <1>4, <1>5, <1>6 DEF TreeInv

LEMMA TreeInvNext == TreeInv /\ [TreeNext]_treeVars => TreeInv'
  <1>1. SUFFICES ASSUME TreeInv, [TreeNext]_treeVars PROVE TreeInv'
    OBVIOUS
  <1>2. CASE UNCHANGED treeVars
    <2>1. cells' = cells /\ next' = next /\ root' = root /\ files' = files /\ found' = found /\ phase' = phase
          /\ crashed' = crashed
      BY <1>2 DEF treeVars
    <2>2. QED  BY <1>1, <2>1 DEF TreeInv, PhaseFacts, Live
  <1>3. CASE TreeNext
    BY <1>1, <1>3, CreateRootKeeps, CreateFailsKeeps, AddFileKeeps, AddFailsKeeps, DetectKeeps, ProcessKeeps,
       DefaultTreeKeeps, DeinitKeeps DEF TreeNext
  <1>4. QED
    BY <1>1, <1>2, <1>3

LEMMA TreeInvAlways == TreeSpec => []TreeInv
  BY TreeInvInit, TreeInvNext, PTL DEF TreeSpec

\* Whatever the paths, their number and the allocations that fail, the tree of a request is sound:
\* links that agree, package roots alive when their turn comes, entries freed once, none left.
\* The waiting packages are in an order where none is below an earlier one, so that process_rootpkg
\* destroys no package that waits.
THEOREM TreeCorrect == TreeSpec => []TreeSound
  BY TreeInvAlways, TreeInvSound, PTL

----------------------------------------------------------------------------
(* The tree implements a set of paths. *)

TreePaths == {RelPath(e) : e \in Live}
TreeGiven == {RelPath(e) : e \in {k \in Live : cells[k].added}}

\* ps are the paths of the entries of c, gs those that were given.
PathsOf(ps, gs, c) ==
    \E g \in [DOMAIN c -> Seq(EntryNames)] :
        /\ PathFun(c, g)
        /\ ps = {g[e] : e \in DOMAIN c}
        /\ gs = {g[e] : e \in {k \in DOMAIN c : c[k].added}}

LEMMA PathsNow == Linked(cells, next, root) => PathsOf(TreePaths, TreeGiven, cells)
  <1>1. SUFFICES ASSUME Linked(cells, next, root) PROVE PathsOf(TreePaths, TreeGiven, cells)
    OBVIOUS
  <1>2. PICK g \in [Live -> Seq(EntryNames)] : PathFun(cells, g) /\ \A e : RelPath(e) = g[e]
    BY <1>1, RelPathIs
  <1>3. TreePaths = {g[e] : e \in DOMAIN cells} /\ TreeGiven = {g[e] : e \in {k \in DOMAIN cells : cells[k].added}}
    BY <1>2 DEF TreePaths, TreeGiven, Live
  <1>4. QED
    BY <1>2, <1>3 DEF PathsOf, Live

\* In the next state as well.
LEMMA PathsThen == Linked(cells', next', root') => PathsOf(TreePaths', TreeGiven', cells')
  <1>1. (Linked(cells, next, root) => PathsOf(TreePaths, TreeGiven, cells))'
    BY PathsNow, PTL
  <1>2. QED
    BY <1>1

\* The linked entries implement a set of paths
LEMMA AbstractInit == TreeInit => Abstract!SetInit
  BY EmptyHeap DEF TreeInit, Abstract!SetInit, Live

LEMMA PathAgree ==
    ASSUME NEW c, NEW n, NEW r, Linked(c, n, r), NEW ps, NEW gs, NEW qs, NEW hs, PathsOf(ps, gs, c), PathsOf(qs, hs, c)
    PROVE  ps = qs /\ gs = hs
  <1>1. PICK g \in [DOMAIN c -> Seq(EntryNames)] :
            PathFun(c, g) /\ ps = {g[e] : e \in DOMAIN c} /\ gs = {g[e] : e \in {k \in DOMAIN c : c[k].added}}
    BY DEF PathsOf
  <1>2. PICK h \in [DOMAIN c -> Seq(EntryNames)] :
            PathFun(c, h) /\ qs = {h[e] : e \in DOMAIN c} /\ hs = {h[e] : e \in {k \in DOMAIN c : c[k].added}}
    BY DEF PathsOf
  <1>3. g = h
    BY <1>1, <1>2, PathsUnique
  <1>4. QED
    BY <1>1, <1>2, <1>3

LEMMA PathValues ==
    ASSUME NEW c, NEW n, NEW r, Linked(c, n, r), NEW g, PathFun(c, g), NEW k \in DOMAIN c
    PROVE  /\ k = r => g[k] = <<>>
           /\ k # r => g[k] = Append(g[c[k].parent], c[k].name)
  BY LinkedFacts DEF PathFun, PathStep

\* The first names of a path.
LEMMA FirstNames ==
    ASSUME NEW S, NEW f \in Seq(S)
    PROVE  /\ SubSeq(f, 1, 0) = <<>> /\ SubSeq(f, 1, Len(f)) = f
           /\ \A k \in 1..Len(f) : SubSeq(f, 1, k) = Append(SubSeq(f, 1, k - 1), f[k])
           /\ \A k \in 0..Len(f) : SubSeq(f, 1, k) \in Seq(S) /\ Len(SubSeq(f, 1, k)) = k
           /\ \A k \in 0..Len(f) : \A j \in 0..k : SubSeq(SubSeq(f, 1, k), 1, j) = SubSeq(f, 1, j)
  <1>1. \A k \in 0..Len(f) : SubSeq(f, 1, k) \in Seq(S) /\ Len(SubSeq(f, 1, k)) = k
    BY SubSeqProperties
  <1>2. ASSUME NEW k \in 1..Len(f)  PROVE SubSeq(f, 1, k) = Append(SubSeq(f, 1, k - 1), f[k])
    OBVIOUS
  <1>3. ASSUME NEW k \in 0..Len(f), NEW j \in 0..k  PROVE SubSeq(SubSeq(f, 1, k), 1, j) = SubSeq(f, 1, j)
    OBVIOUS
  <1>4. SubSeq(f, 1, 0) = <<>> /\ SubSeq(f, 1, Len(f)) = f
    OBVIOUS
  <1>5. QED
    BY <1>1, <1>2, <1>3, <1>4

LEMMA PrefixesGrow ==
    ASSUME NEW S, NEW f \in Seq(S)
    PROVE  /\ Prefixes(SubSeq(f, 1, 0)) = {<<>>}
           /\ \A k \in 1..Len(f) : Prefixes(SubSeq(f, 1, k)) = Prefixes(SubSeq(f, 1, k - 1)) \union {SubSeq(f, 1, k)}
           /\ \A k \in 0..(Len(f) - 1) : SubSeq(f, 1, k) \in Prefixes(f) \ {f}
  <1>1. ASSUME NEW k \in 0..Len(f)  PROVE Prefixes(SubSeq(f, 1, k)) = {SubSeq(f, 1, j) : j \in 0..k}
    <2>1. Len(SubSeq(f, 1, k)) = k /\ \A j \in 0..k : SubSeq(SubSeq(f, 1, k), 1, j) = SubSeq(f, 1, j)
      BY FirstNames
    <2>2. QED  BY <2>1 DEF Prefixes
  <1>2. Prefixes(SubSeq(f, 1, 0)) = {<<>>}
    <2>1. 0..0 = {0} /\ 0 \in 0..Len(f) /\ SubSeq(f, 1, 0) = <<>>
      BY FirstNames
    <2>2. Prefixes(SubSeq(f, 1, 0)) = {SubSeq(f, 1, j) : j \in {0}}
      <3>1. Prefixes(SubSeq(f, 1, 0)) = {SubSeq(f, 1, j) : j \in 0..0}
        BY <1>1, <2>1
      <3>2. QED  BY <2>1, <3>1
    <2>3. {SubSeq(f, 1, j) : j \in {0}} = {SubSeq(f, 1, 0)}
      BY Zenon
    <2>4. QED  BY <2>1, <2>2, <2>3
  <1>3. ASSUME NEW k \in 1..Len(f)
        PROVE  Prefixes(SubSeq(f, 1, k)) = Prefixes(SubSeq(f, 1, k - 1)) \union {SubSeq(f, 1, k)}
    <2>1. k \in 0..Len(f) /\ k - 1 \in 0..Len(f) /\ 0..k = (0..(k - 1)) \union {k}
      OBVIOUS
    <2>2. QED  BY <1>1, <2>1
  <1>4. ASSUME NEW k \in 0..(Len(f) - 1)  PROVE SubSeq(f, 1, k) \in Prefixes(f) \ {f}
    <2>1. k \in 0..Len(f) /\ Len(SubSeq(f, 1, k)) = k
      BY FirstNames
    <2>2. QED  BY <2>1 DEF Prefixes
  <1>5. QED
    BY <1>2, <1>3, <1>4

\* A path is a prefix of itself, and of what is appended to one it is a prefix of.
LEMMA PrefixFacts ==
    ASSUME NEW S, NEW s \in Seq(S), NEW t \in Seq(S), NEW x \in S
    PROVE  /\ IsPrefix(s, s)
           /\ IsPrefix(s, t) => IsPrefix(s, Append(t, x))
           /\ IsPrefix(s, Append(t, x)) /\ s # Append(t, x) => IsPrefix(s, t)
           /\ IsPrefix(s, <<>>) => s = <<>>
  <1>1. IsPrefix(s, s)
    BY DEF IsPrefix
  <1>2. ASSUME IsPrefix(s, t)  PROVE IsPrefix(s, Append(t, x))
    <2>1. PICK u : u = Append(t, x)
      OBVIOUS
    <2>2. u \in Seq(S) /\ Len(u) = Len(t) + 1 /\ \A i \in 1..Len(t) : u[i] = t[i]
      BY <2>1
    <2>3. Len(s) <= Len(t) /\ SubSeq(s, 1, Len(s)) = SubSeq(t, 1, Len(s))
      BY <1>2 DEF IsPrefix
    <2>4. SubSeq(u, 1, Len(s)) = SubSeq(t, 1, Len(s))
      BY <2>2, <2>3
    <2>5. QED  BY <2>1, <2>2, <2>3, <2>4 DEF IsPrefix
  <1>3. ASSUME IsPrefix(s, Append(t, x)), s # Append(t, x)  PROVE IsPrefix(s, t)
    <2>1. PICK u : u = Append(t, x)
      OBVIOUS
    <2>2. u \in Seq(S) /\ Len(u) = Len(t) + 1 /\ \A i \in 1..Len(t) : u[i] = t[i]
      BY <2>1
    <2>3. Len(s) <= Len(u) /\ SubSeq(s, 1, Len(s)) = SubSeq(u, 1, Len(s)) /\ s # u
      BY <1>3, <2>1 DEF IsPrefix
    <2>4. SubSeq(s, 1, Len(s)) = s /\ SubSeq(u, 1, Len(u)) = u
      BY <2>2
    <2>5. Len(s) <= Len(t)
      BY <2>2, <2>3, <2>4
    <2>6. SubSeq(u, 1, Len(s)) = SubSeq(t, 1, Len(s))
      BY <2>2, <2>5
    <2>7. QED  BY <2>3, <2>5, <2>6 DEF IsPrefix
  <1>4. ASSUME IsPrefix(s, <<>>)  PROVE s = <<>>
    BY <1>4 DEF IsPrefix
  <1>5. QED
    BY <1>1, <1>2, <1>3, <1>4

\* Distinct entries have distinct paths.
LEMMA PathsDistinct ==
    ASSUME Linked(cells, next, root), NEW g, PathFun(cells, g), NEW x \in Live, NEW y \in Live, g[x] = g[y]
    PROVE  x = y
  <1>1. PICK h \in [Live -> Seq(EntryNames)] : PathFun(cells, h) /\ \A e : RelPath(e) = h[e]
    BY RelPathIs
  <1>2. g = h
    BY <1>1, PathsUnique
  <1>3. Lookup(root, RelPath(x)) = x /\ Lookup(root, RelPath(y)) = y
    BY LookupPath
  <1>4. QED
    BY <1>1, <1>2, <1>3

\* What is below an entry has a path that continues its path, and nothing else has.
LEMMA BelowIsPrefix ==
    ASSUME Linked(cells, next, root), NEW g \in [Live -> Seq(EntryNames)], PathFun(cells, g), NEW e \in Live,
           NEW S, Rooted(S, cells, root, e), NEW k \in Live
    PROVE  k \in S <=> IsPrefix(g[e], g[k])
  <1> DEFINE Bad == {x \in Live : ~(x \in S <=> IsPrefix(g[e], g[x]))}
  <1>1. SUFFICES ASSUME Bad # {}  PROVE FALSE
    OBVIOUS
  <1>2. PICK b \in Bad : \A j \in Bad : b <= j
    <2>1. Bad \in SUBSET Nat
      BY LinkedFacts DEF Live
    <2> HIDE DEF Bad
    <2>2. QED  BY <1>1, <2>1, LeastNumber
  <1>3. b \in Live /\ b \in DOMAIN cells /\ b \in Nat /\ ~(b \in S <=> IsPrefix(g[e], g[b]))
    BY LinkedFacts DEF Live
  <1>4. b # e
    <2>1. e \in S
      BY DEF Rooted
    <2>2. IsPrefix(g[e], g[e])
      <3>1. PICK s \in Seq(EntryNames) : s = g[e]
        OBVIOUS
      <3>2. IsPrefix(s, s)
        BY DEF IsPrefix
      <3>3. QED  BY <3>1, <3>2
    <2>3. QED  BY <1>3, <2>1, <2>2
  <1>5. g[e] # g[b]
    BY <1>3, <1>4, PathsDistinct
  <1>6. CASE b = root
    <2>1. b \notin S
      BY <1>4, <1>6 DEF Rooted
    <2>2. g[b] = <<>>
      BY <1>3, <1>6, PathValues
    <2>3. PICK s \in Seq(EntryNames) : s = g[e]
      OBVIOUS
    <2>4. IsPrefix(s, <<>>) => s = <<>>
      BY DEF IsPrefix
    <2>5. QED  BY <1>3, <1>5, <2>1, <2>2, <2>3, <2>4
  <1>7. CASE b # root
    <2>1. PICK p, nm : p = cells[b].parent /\ nm = cells[b].name
      OBVIOUS
    <2>2. p \in DOMAIN cells /\ p \in Nat /\ p < b /\ b \in cells[p].children /\ nm \in EntryNames
      BY <1>3, <1>7, <2>1, LinkedFacts
    <2>3. p \notin Bad
      BY <1>2, <1>3, <2>2
    <2>4. p \in S <=> IsPrefix(g[e], g[p])
      BY <2>2, <2>3 DEF Live
    <2>5. p \in S <=> b \in S
      BY <1>3, <1>4, <2>1, <2>2 DEF Rooted
    <2>6. g[b] = Append(g[p], nm)
      BY <1>3, <1>7, <2>1, PathValues
    <2>7. PICK s \in Seq(EntryNames), t \in Seq(EntryNames) : s = g[e] /\ t = g[p]
      BY <2>2 DEF Live
    <2>8. IsPrefix(s, t) <=> IsPrefix(s, Append(t, nm))
      <3>1. s # Append(t, nm)
        BY <1>5, <2>6, <2>7
      <3>2. QED  BY <2>2, <2>7, <3>1, PrefixFacts
    <2>9. QED  BY <1>3, <2>4, <2>5, <2>6, <2>7, <2>8
  <1>8. QED
    BY <1>6, <1>7

\* path_entry_destroy takes the paths that continue the path of the entry.
LEMMA PrunedPaths ==
    ASSUME Linked(cells, next, root), NEW e \in Live, NEW S, Rooted(S, cells, root, e), NEW d, Pruned(d, cells, S, e),
           NEW ps, NEW gs, PathsOf(ps, gs, cells), NEW qs, NEW hs, PathsOf(qs, hs, d)
    PROVE  \E p \in ps : qs = {q \in ps : ~IsPrefix(p, q)} /\ hs = {q \in gs : ~IsPrefix(p, q)}
  <1>1. PICK g \in [DOMAIN cells -> Seq(EntryNames)] :
            PathFun(cells, g) /\ ps = {g[x] : x \in DOMAIN cells} /\ gs = {g[x] : x \in {k \in DOMAIN cells : cells[k].added}}
    BY DEF PathsOf
  <1>2. PICK h \in [DOMAIN d -> Seq(EntryNames)] :
            PathFun(d, h) /\ qs = {h[x] : x \in DOMAIN d} /\ hs = {h[x] : x \in {k \in DOMAIN d : d[k].added}}
    BY DEF PathsOf
  <1>3. DOMAIN d = DOMAIN cells \ S /\ \A k \in DOMAIN d : d[k].added = cells[k].added
    BY DEF Pruned
  <1>4. Linked(d, next, root)
    BY PrunedLinked DEF Live
  <1>5. h = [k \in DOMAIN d |-> g[k]]
    <2>1. PICK v : v = [k \in DOMAIN d |-> g[k]]
      OBVIOUS
    <2>2. ASSUME NEW k \in DOMAIN d  PROVE v[k] = PathStep(d, v, k)
      <3>1. d[k].parent = cells[k].parent /\ d[k].name = cells[k].name /\ k \in DOMAIN cells
        BY <1>3 DEF Pruned
      <3>2. g[k] = PathStep(cells, g, k)
        BY <1>1, <3>1 DEF PathFun
      <3>3. d[k].parent # Null => d[k].parent \in DOMAIN d
        BY <1>4, LinkedFacts
      <3>4. QED  BY <2>1, <3>1, <3>2, <3>3 DEF PathStep
    <2>3. PathFun(d, v)
      <3>1. v = [k \in DOMAIN d |-> PathStep(d, v, k)]
        BY <2>1, <2>2
      <3>2. QED  BY <3>1 DEF PathFun
    <2>4. QED  BY <1>2, <1>4, <2>1, <2>3, PathsUnique
  <1>6. \A k \in DOMAIN cells : k \in S <=> IsPrefix(g[e], g[k])
    BY <1>1, BelowIsPrefix DEF Live
  <1>7. PICK p : p = g[e]
    OBVIOUS
  <1>8. p \in ps
    BY <1>1, <1>7 DEF Live
  <1>9. qs = {q \in ps : ~IsPrefix(p, q)}
    BY <1>1, <1>2, <1>3, <1>5, <1>6, <1>7
  <1>10. hs = {q \in gs : ~IsPrefix(p, q)}
    BY <1>1, <1>2, <1>3, <1>5, <1>6, <1>7
  <1>11. QED
    BY <1>8, <1>9, <1>10

\* After k names of path f, j of which are entered: what the tree t says, that held ps and gs.
Partway(t, f, k, j, ps, gs, h) ==
    /\ h \in [DOMAIN t.cells -> Seq(EntryNames)] /\ PathFun(t.cells, h)
    /\ {h[e] : e \in DOMAIN t.cells} = ps \union Prefixes(SubSeq(f, 1, j))
    /\ {h[e] : e \in {x \in DOMAIN t.cells : t.cells[x].added}} = gs
    /\ j \in 0..k
    /\ t.at # Null => j = k /\ h[t.at] = SubSeq(f, 1, k)
    /\ t.at = Null => j < k

\* v tells the paths that h tells in c, and in d the one of entry n.
OneMorePath(v, d, h, c, n, p) ==
    /\ v \in [DOMAIN d -> Seq(EntryNames)] /\ PathFun(d, v) /\ v[n] = p
    /\ {v[x] : x \in DOMAIN d} = {h[x] : x \in DOMAIN c} \union {p}
    /\ {v[x] : x \in {k \in DOMAIN d : d[k].added}} = {h[x] : x \in {k \in DOMAIN c : c[k].added}}

\* make_child adds the path of the new entry.
LEMMA GraftedPaths ==
    ASSUME NEW c, NEW n, NEW r, Linked(c, n, r), NEW e \in DOMAIN c, NEW name \in EntryNames, NEW d,
           Grafted(d, c, n, e, name), NEW h \in [DOMAIN c -> Seq(EntryNames)], PathFun(c, h), n \notin DOMAIN c
    PROVE  \E v : OneMorePath(v, d, h, c, n, Append(h[e], name))
  <1>1. DOMAIN d = DOMAIN c \union {n} /\ d[n].parent = e /\ d[n].name = name /\ ~d[n].added
        /\ \A k \in DOMAIN c : d[k].parent = c[k].parent /\ d[k].name = c[k].name /\ d[k].added = c[k].added
    BY DEF Grafted
  <1>2. PICK p \in Seq(EntryNames) : p = Append(h[e], name)
    <2>1. PICK s \in Seq(EntryNames) : s = h[e]
      OBVIOUS
    <2>2. Append(s, name) \in Seq(EntryNames)
      OBVIOUS
    <2>3. QED  BY <2>1, <2>2
  <1>3. PICK v : v = [k \in DOMAIN d |-> IF k = n THEN p ELSE h[k]]
    OBVIOUS
  <1>4. v \in [DOMAIN d -> Seq(EntryNames)] /\ v[n] = p /\ \A k \in DOMAIN c : v[k] = h[k]
    BY <1>1, <1>3
  <1>5. ASSUME NEW k \in DOMAIN d  PROVE v[k] = PathStep(d, v, k)
    <2>1. CASE k = n
      <3>1. e # Null
        BY LinkedFacts, TreeAssumption
      <3>2. QED  BY <2>1, <3>1, <1>1, <1>2, <1>4 DEF PathStep
    <2>2. CASE k # n
      <3>1. k \in DOMAIN c
        BY <2>2, <1>1
      <3>2. h[k] = PathStep(c, h, k)
        BY <3>1 DEF PathFun
      <3>3. c[k].parent # Null => c[k].parent \in DOMAIN c
        BY <3>1, LinkedFacts
      <3>4. QED  BY <3>1, <3>2, <3>3, <1>1, <1>4 DEF PathStep
    <2>3. QED  BY <2>1, <2>2
  <1>6. PathFun(d, v)
    <2>1. v = [k \in DOMAIN d |-> PathStep(d, v, k)]
      BY <1>3, <1>5
    <2>2. QED  BY <2>1 DEF PathFun
  <1>7. {v[x] : x \in DOMAIN d} = {h[x] : x \in DOMAIN c} \union {p}
    BY <1>1, <1>4
  <1>8. {v[x] : x \in {k \in DOMAIN d : d[k].added}} = {h[x] : x \in {k \in DOMAIN c : c[k].added}}
    <2>1. {k \in DOMAIN d : d[k].added} = {k \in DOMAIN c : c[k].added}
      BY <1>1
    <2>2. QED  BY <1>4, <2>1
  <1>9. OneMorePath(v, d, h, c, n, p)
    BY <1>4, <1>6, <1>7, <1>8, Zenon DEF OneMorePath
  <1>10. QED
    BY <1>2, <1>9

\* get_child goes on with the path.
LEMMA PartwayStep ==
    ASSUME NEW total \in Nat, NEW t \in Growing(total), NEW u \in Growing(total), NEW f \in Seq(EntryNames), NEW k \in 1..Len(f),
           Entered(u, t, f[k]), NEW ps, NEW gs, NEW j, NEW h, Partway(t, f, k - 1, j, ps, gs, h)
    PROVE  \E i, v : Partway(u, f, k, i, ps, gs, v)
  <1>1. /\ h \in [DOMAIN t.cells -> Seq(EntryNames)] /\ PathFun(t.cells, h)
        /\ {h[e] : e \in DOMAIN t.cells} = ps \union Prefixes(SubSeq(f, 1, j))
        /\ {h[e] : e \in {x \in DOMAIN t.cells : t.cells[x].added}} = gs
        /\ j \in 0..(k - 1)
        /\ t.at # Null => j = k - 1 /\ h[t.at] = SubSeq(f, 1, k - 1)
        /\ t.at = Null => j < k - 1
    BY DEF Partway
  <1>2. j \in 0..k /\ j < k
    BY <1>1
  <1>3. /\ SubSeq(f, 1, k) = Append(SubSeq(f, 1, k - 1), f[k])
        /\ Prefixes(SubSeq(f, 1, k)) = Prefixes(SubSeq(f, 1, k - 1)) \union {SubSeq(f, 1, k)}
    BY FirstNames, PrefixesGrow
  <1>4. k \in 0..k /\ f[k] \in EntryNames
    OBVIOUS
  <1>5. CASE t.at = Null /\ u = t
    BY <1>1, <1>2, <1>5 DEF Partway
  <1>6. CASE u.cells = t.cells /\ u.at = Null
    BY <1>1, <1>2, <1>6 DEF Partway
  <1>7. CASE t.at # Null /\ u.cells = t.cells /\ u.at # Null /\ u.at \in t.cells[t.at].children /\ t.cells[u.at].name = f[k]
    <2>1. PICK c, n, x, y : c = t.cells /\ n = t.next /\ x = t.at /\ y = u.at
      OBVIOUS
    <2>2. Linked(c, n, root) /\ x \in DOMAIN c /\ y \in c[x].children /\ c[y].name = f[k]
      BY <1>7, <2>1, GrowingFacts
    <2>3. y \in DOMAIN c /\ c[y].parent = x /\ y # root
      BY <2>2, LinkedFacts
    <2>4. h[y] = Append(h[x], f[k])
      <3>1. PathFun(c, h)
        BY <1>1, <2>1
      <3>2. h[y] = Append(h[c[y].parent], c[y].name)
        BY <2>2, <2>3, <3>1, PathValues
      <3>3. QED  BY <2>2, <2>3, <3>2
    <2>5. h[y] = SubSeq(f, 1, k)
      BY <1>1, <1>3, <1>7, <2>1, <2>4
    <2>6. {h[e] : e \in DOMAIN c} = ps \union Prefixes(SubSeq(f, 1, k))
      <3>1. h[y] \in {h[e] : e \in DOMAIN c}
        BY <2>3
      <3>2. j = k - 1
        BY <1>1, <1>7
      <3>3. QED  BY <1>1, <1>3, <2>1, <2>5, <3>1, <3>2
    <2>7. Partway(u, f, k, k, ps, gs, h)
      BY <1>1, <1>4, <1>7, <2>1, <2>5, <2>6 DEF Partway
    <2>8. QED  BY <2>7
  <1>8. CASE t.at # Null /\ Grafted(u.cells, t.cells, t.next, t.at, f[k]) /\ u.at = t.next
    <2>1. PICK c, n, x, d : c = t.cells /\ n = t.next /\ x = t.at /\ d = u.cells
      OBVIOUS
    <2>2. Linked(c, n, root) /\ x \in DOMAIN c /\ Grafted(d, c, n, x, f[k]) /\ n \in Nat
      BY <1>8, <2>1, GrowingFacts
    <2>3. n \notin DOMAIN c /\ n # Null
      BY <2>2, TreeAssumption DEF Linked
    <2>4. PICK v : OneMorePath(v, d, h, c, n, Append(h[x], f[k]))
      <3>1. h \in [DOMAIN c -> Seq(EntryNames)] /\ PathFun(c, h)
        BY <1>1, <2>1
      <3>2. PICK name \in EntryNames : name = f[k]
        BY <1>4
      <3>3. \E v : OneMorePath(v, d, h, c, n, Append(h[x], name))
        BY <2>2, <2>3, <3>1, <3>2, GraftedPaths
      <3>4. QED  BY <3>2, <3>3
    <2>4a. /\ v \in [DOMAIN d -> Seq(EntryNames)] /\ PathFun(d, v) /\ v[n] = Append(h[x], f[k])
           /\ {v[e] : e \in DOMAIN d} = {h[e] : e \in DOMAIN c} \union {v[n]}
           /\ {v[e] : e \in {z \in DOMAIN d : d[z].added}} = {h[e] : e \in {z \in DOMAIN c : c[z].added}}
      BY <2>4 DEF OneMorePath
    <2>5. v[n] = SubSeq(f, 1, k) /\ j = k - 1
      BY <1>1, <1>3, <1>8, <2>1, <2>4a
    <2>6. {v[e] : e \in DOMAIN d} = ps \union Prefixes(SubSeq(f, 1, k))
      BY <1>1, <1>3, <2>1, <2>4a, <2>5
    <2>7. Partway(u, f, k, k, ps, gs, v)
      BY <1>1, <1>4, <1>8, <2>1, <2>3, <2>4a, <2>5, <2>6 DEF Partway
    <2>8. QED  BY <2>7
  <1>9. QED
    <2>1. u.at # Null \/ u.at = Null
      OBVIOUS
    <2>2. QED  BY <1>5, <1>6, <1>7, <1>8 DEF Entered

\* process with get_child adds the first names of the path, all of them when it succeeds.
LEMMA GrownPaths ==
    ASSUME Linked(cells, next, root), root \in Live, NEW f \in Files, NEW room \in Nat, NEW ps, NEW gs,
           PathsOf(ps, gs, cells)
    PROVE  \E j, h : Partway(Grow(f, room), f, Len(f), j, ps, gs, h)
  <1>1. PICK n \in Nat, total \in Nat : n = Len(f) /\ total = next + room
    BY TreeAssumption DEF Linked
  <1>2. f \in Seq(EntryNames) /\ DOMAIN f = 1..n /\ \A k \in 1..n : f[k] \in EntryNames
    <2>1. f \in Seq(ToSet(f))
      BY TreeAssumption
    <2>2. PICK R : R = ToSet(f)
      OBVIOUS
    <2>3. R \subseteq EntryNames
      BY <2>2, Zenon DEF EntryNames
    <2>4. QED  BY <1>1, <2>1, <2>2, <2>3
  <1>3. PICK g : Grows(g, f, n, total, room)
    BY <1>1, <1>2, GrowIs
  <1>4. /\ g \in [0..n -> Growing(total)]
        /\ g[0] = [cells |-> cells, next |-> next, room |-> room, at |-> root]
        /\ g[n] = Grow(f, room)
        /\ \A k \in 1..n : Entered(g[k], g[k - 1], f[k])
    BY <1>3 DEF Grows
  <1> DEFINE T == {k \in Nat : \E j, h : Partway(g[k], f, k, j, ps, gs, h)}
  <1>5. 0 \in T
    <2>1. PICK h \in [DOMAIN cells -> Seq(EntryNames)] :
            PathFun(cells, h) /\ ps = {h[e] : e \in DOMAIN cells} /\ gs = {h[e] : e \in {k \in DOMAIN cells : cells[k].added}}
      BY DEF PathsOf
    <2>2. PICK t : t = g[0]
      OBVIOUS
    <2>3. t.cells = cells /\ t.at = root /\ root \in DOMAIN cells
      BY <1>4, <2>2 DEF Live
    <2>4. root # Null
      BY <2>3, LinkedFacts, TreeAssumption
    <2>5. h[root] = <<>> /\ SubSeq(f, 1, 0) = <<>> /\ Prefixes(SubSeq(f, 1, 0)) = {<<>>}
      BY <1>2, <2>1, <2>3, PathValues, FirstNames, PrefixesGrow
    <2>6. ps = ps \union Prefixes(SubSeq(f, 1, 0))
      BY <2>1, <2>3, <2>5
    <2>7. Partway(t, f, 0, 0, ps, gs, h)
      BY <2>1, <2>3, <2>4, <2>5, <2>6 DEF Partway
    <2>8. QED  BY <2>2, <2>7
  <1>6. ASSUME NEW k \in 1..n, k - 1 \in T  PROVE k \in T
    <2>1. PICK j, h : Partway(g[k - 1], f, k - 1, j, ps, gs, h)
      BY <1>6
    <2>2. PICK t, u : t = g[k - 1] /\ u = g[k]
      OBVIOUS
    <2>3. t \in Growing(total) /\ u \in Growing(total) /\ Entered(u, t, f[k]) /\ Partway(t, f, k - 1, j, ps, gs, h)
      BY <1>4, <2>1, <2>2
    <2>4. \E i, v : Partway(u, f, k, i, ps, gs, v)
      BY <1>1, <1>2, <2>3, PartwayStep
    <2>5. QED  BY <2>2, <2>4
  <1>7. n \in T
    <2>1. T \in SUBSET Nat
      OBVIOUS
    <2> HIDE DEF T
    <2>2. QED  BY <1>5, <1>6, <2>1, EveryIndex
  <1>8. QED
    BY <1>1, <1>4, <1>7

\* The mark of the entry that is given adds its path to those that are given.
LEMMA MarkedPaths ==
    ASSUME NEW c, NEW n, NEW r, Linked(c, n, r), NEW e \in DOMAIN c, NEW d, Marked(d, c, e),
           NEW h \in [DOMAIN c -> Seq(EntryNames)], PathFun(c, h), NEW qs, NEW hs, PathsOf(qs, hs, d)
    PROVE  /\ qs = {h[x] : x \in DOMAIN c}
           /\ hs = {h[x] : x \in {k \in DOMAIN c : c[k].added}} \union {h[e]}
  <1>1. PICK v \in [DOMAIN d -> Seq(EntryNames)] :
            PathFun(d, v) /\ qs = {v[x] : x \in DOMAIN d} /\ hs = {v[x] : x \in {k \in DOMAIN d : d[k].added}}
    BY DEF PathsOf
  <1>2. DOMAIN d = DOMAIN c /\ d[e].added
        /\ \A k \in DOMAIN c : d[k].parent = c[k].parent /\ d[k].name = c[k].name /\ (k # e => d[k].added = c[k].added)
    BY DEF Marked
  <1>3. PathFun(d, h)
    <2>1. ASSUME NEW k \in DOMAIN c  PROVE PathStep(d, h, k) = PathStep(c, h, k)
      BY <1>2 DEF PathStep
    <2>2. h = [k \in DOMAIN d |-> PathStep(d, h, k)]
      BY <1>2, <2>1 DEF PathFun
    <2>3. QED  BY <2>2 DEF PathFun
  <1>4. v = h
    <2>1. Linked(d, n, r)
      BY MarkedLinked
    <2>2. QED  BY <1>1, <1>3, <2>1, PathsUnique
  <1>5. {k \in DOMAIN d : d[k].added} = {k \in DOMAIN c : c[k].added} \union {e}
    BY <1>2
  <1>6. QED
    BY <1>1, <1>2, <1>4, <1>5

LEMMA AddPaths ==
    ASSUME TreeInv, AddFile
    PROVE  TreePaths # {} /\ \E f \in Files : TreePaths' = TreePaths \union Prefixes(f) /\ TreeGiven' = TreeGiven \union {f}
  <1>2. phase = "receive" /\ root' = root /\ Linked(cells', next', root')
    BY AddFileKeeps DEF AddFile, TreeInv
  <1>3. PICK f \in Files : cells' = [Grow(f, MaxCells).cells EXCEPT ![Grow(f, MaxCells).at].added = TRUE]
                           /\ Grow(f, MaxCells).next <= MaxCells + 1
    BY DEF AddFile
  <1>4. Linked(cells, next, root) /\ root \in Live
    BY <1>2 DEF TreeInv, PhaseFacts
  <1>5. PICK ps, gs, qs, hs : ps = TreePaths /\ gs = TreeGiven /\ qs = TreePaths' /\ hs = TreeGiven'
    OBVIOUS
  <1>6. PathsOf(ps, gs, cells) /\ PathsOf(qs, hs, cells')
    BY <1>2, <1>4, <1>5, PathsNow, PathsThen
  <1>7. PICK t : t = Grow(f, MaxCells)
    OBVIOUS
  <1>8. PICK j, h : Partway(t, f, Len(f), j, ps, gs, h)
    BY <1>4, <1>6, <1>7, GrownPaths, TreeAssumption
  <1>9. Linked(t.cells, t.next, root) /\ t.cells \in Heaps /\ t.at \in DOMAIN t.cells
    BY <1>3, <1>4, <1>7, EnoughRoom
  <1>10. PICK c, e, d, n : c = t.cells /\ e = t.at /\ d = cells' /\ n = t.next
    OBVIOUS
  <1>11. Linked(c, n, root) /\ e \in DOMAIN c /\ e # Null
    <2>1. Linked(c, n, root) /\ e \in DOMAIN c
      BY <1>9, <1>10
    <2>2. QED  BY <2>1, LinkedFacts, TreeAssumption
  <1>12. Marked(d, c, e)
    <2>1. Marked([c EXCEPT ![e].added = TRUE], c, e)
      BY <1>9, <1>10, MarkIs
    <2>2. QED  BY <1>3, <1>7, <1>10, <2>1
  <1>13. /\ h \in [DOMAIN c -> Seq(EntryNames)] /\ PathFun(c, h)
         /\ {h[x] : x \in DOMAIN c} = ps \union Prefixes(SubSeq(f, 1, Len(f)))
         /\ {h[x] : x \in {k \in DOMAIN c : c[k].added}} = gs
         /\ h[e] = SubSeq(f, 1, Len(f))
    BY <1>8, <1>10, <1>11 DEF Partway
  <1>14. SubSeq(f, 1, Len(f)) = f
    <2>1. PICK R : R = ToSet(f) /\ f \in Seq(R)
      BY TreeAssumption
    <2>2. QED  BY <2>1, FirstNames
  <1>15. /\ qs = {h[x] : x \in DOMAIN c}
         /\ hs = {h[x] : x \in {k \in DOMAIN c : c[k].added}} \union {h[e]}
    BY <1>6, <1>10, <1>11, <1>12, <1>13, MarkedPaths
  <1>16. qs = ps \union Prefixes(f) /\ hs = gs \union {f}
    BY <1>13, <1>14, <1>15
  <1>17. TreePaths # {}
    BY <1>4 DEF TreePaths
  <1>18. QED
    BY <1>5, <1>16, <1>17

LEMMA AddFailsPaths ==
    ASSUME TreeInv, AddFails
    PROVE  TreePaths # {} /\ TreeGiven' = TreeGiven
           /\ \E f \in Files : \E g \in Prefixes(f) \ {f} : TreePaths' = TreePaths \union Prefixes(g)
  <1>2. phase = "receive" /\ Linked(cells', next', root')
    BY AddFailsKeeps DEF AddFails, TreeInv
  <1>3. PICK f \in Files : \E room \in 0..Len(f) - 1 : Grow(f, room).at = Null /\ cells' = Grow(f, room).cells
    BY DEF AddFails
  <1>4. PICK room \in 0..Len(f) - 1 : Grow(f, room).at = Null /\ cells' = Grow(f, room).cells
    BY <1>3
  <1>5. Linked(cells, next, root) /\ root \in Live
    BY <1>2 DEF TreeInv, PhaseFacts
  <1>6. PICK ps, gs, qs, hs : ps = TreePaths /\ gs = TreeGiven /\ qs = TreePaths' /\ hs = TreeGiven'
    OBVIOUS
  <1>7. PathsOf(ps, gs, cells) /\ PathsOf(qs, hs, cells')
    BY <1>2, <1>5, <1>6, PathsNow, PathsThen
  <1>8. PICK t, c, n : t = Grow(f, room) /\ c = cells' /\ n = next'
    OBVIOUS
  <1>9. PICK R : R = ToSet(f) /\ f \in Seq(R)
    BY TreeAssumption
  <1>10. room \in Nat /\ Len(f) \in Nat
    BY <1>9, LengthOf
  <1>11. PICK j, h : Partway(t, f, Len(f), j, ps, gs, h)
    BY <1>5, <1>7, <1>8, <1>10, GrownPaths
  <1>12. c = t.cells /\ t.at = Null
    BY <1>4, <1>8
  <1>13. /\ h \in [DOMAIN c -> Seq(EntryNames)] /\ PathFun(c, h)
         /\ {h[x] : x \in DOMAIN c} = ps \union Prefixes(SubSeq(f, 1, j))
         /\ {h[x] : x \in {k \in DOMAIN c : c[k].added}} = gs
         /\ j \in 0..Len(f) /\ j < Len(f)
    BY <1>11, <1>12 DEF Partway
  <1>14. PathsOf(ps \union Prefixes(SubSeq(f, 1, j)), gs, c)
    BY <1>13 DEF PathsOf
  <1>15. qs = ps \union Prefixes(SubSeq(f, 1, j)) /\ hs = gs
    <2>1. PICK as, r : as = ps \union Prefixes(SubSeq(f, 1, j)) /\ r = root'
      OBVIOUS
    <2>2. PathsOf(as, gs, c) /\ PathsOf(qs, hs, c) /\ Linked(c, n, r)
      BY <1>2, <1>7, <1>8, <1>14, <2>1
    <2>3. QED  BY <2>1, <2>2, PathAgree
  <1>16. SubSeq(f, 1, j) \in Prefixes(f) \ {f}
    <2>1. j \in 0..(Len(f) - 1)
      BY <1>10, <1>13
    <2>2. QED  BY <1>9, <2>1, PrefixesGrow
  <1>17. TreePaths # {}
    BY <1>5 DEF TreePaths
  <1>18. QED
    BY <1>6, <1>15, <1>16, <1>17

LEMMA NewPaths ==
    ASSUME TreeInv, CreateRoot
    PROVE  TreePaths = {} /\ TreePaths' = {<<>>} /\ TreeGiven' = TreeGiven
  <1>1. phase = "init" /\ Linked(cells', next', root') /\ root' = next
    BY CreateRootKeeps DEF CreateRoot, TreeInv
  <1>2. Live = {} /\ next = 1
    BY <1>1 DEF TreeInv, PhaseFacts
  <1>3. TreePaths = {} /\ TreeGiven = {}
    BY <1>2 DEF TreePaths, TreeGiven
  <1>4. PICK c, qs, hs, n, r : c = cells' /\ qs = TreePaths' /\ hs = TreeGiven' /\ n = next' /\ r = root'
    OBVIOUS
  <1>5. PathsOf(qs, hs, c) /\ Linked(c, n, r)
    BY <1>1, <1>4, PathsThen
  <1>6. DOMAIN c = {r} /\ ~c[r].added
    <2>1. c = [k \in {next} |-> Cell(Null, "")]
      BY <1>4, Zenon DEF CreateRoot
    <2>2. PICK nm : nm = ""
      OBVIOUS
    <2>3. c = [k \in {next} |-> Cell(Null, nm)]
      BY <2>1, <2>2, Zenon
    <2>4. PICK z : z = Cell(Null, nm)
      OBVIOUS
    <2>5. c = [k \in {next} |-> z]
      BY <2>3, <2>4, Zenon
    <2>6. DOMAIN c = {next} /\ c[next] = z
      BY <2>5, Zenon
    <2>7. z.added = FALSE
      BY <2>4 DEF Cell
    <2>8. QED  BY <1>1, <1>4, <2>6, <2>7, Zenon
  <1>7. PICK h \in [DOMAIN c -> Seq(EntryNames)] :
            PathFun(c, h) /\ qs = {h[e] : e \in DOMAIN c} /\ hs = {h[e] : e \in {k \in DOMAIN c : c[k].added}}
    BY <1>5 DEF PathsOf
  <1>8. h[r] = <<>>
    BY <1>5, <1>6, <1>7, PathValues
  <1>9. qs = {<<>>} /\ hs = {}
    BY <1>6, <1>7, <1>8
  <1>10. QED
    BY <1>3, <1>4, <1>9

\* path_entry_destroy removes the path of the entry and what continues it.
LEMMA DestroyPaths ==
    ASSUME Linked(cells, next, root), next <= MaxCells + 1, NEW e \in Live, cells' = Without(e), Linked(cells', next', root')
    PROVE  \E p \in TreePaths : /\ TreePaths' = {q \in TreePaths : ~IsPrefix(p, q)}
                                /\ TreeGiven' = {q \in TreeGiven : ~IsPrefix(p, q)}
  <1>1. PICK ps, gs, qs, hs, d, S : /\ ps = TreePaths /\ gs = TreeGiven /\ qs = TreePaths' /\ hs = TreeGiven'
                                    /\ d = cells' /\ S = SubTree(e)
    OBVIOUS
  <1>2. PathsOf(ps, gs, cells) /\ PathsOf(qs, hs, d)
    BY <1>1, PathsNow, PathsThen
  <1>3. Rooted(S, cells, root, e) /\ Pruned(d, cells, S, e)
    BY <1>1, SubTreeIs, WithoutPrunes
  <1>4. \E p \in ps : qs = {q \in ps : ~IsPrefix(p, q)} /\ hs = {q \in gs : ~IsPrefix(p, q)}
    BY <1>2, <1>3, PrunedPaths
  <1>5. QED
    BY <1>1, <1>4

LEMMA SamePaths ==
    ASSUME Linked(cells, next, root), cells' = cells, root' = root, next' = next
    PROVE  TreePaths' = TreePaths /\ TreeGiven' = TreeGiven
  <1>1. PICK ps, gs, qs, hs, d : ps = TreePaths /\ gs = TreeGiven /\ qs = TreePaths' /\ hs = TreeGiven' /\ d = cells'
    OBVIOUS
  <1>2. PathsOf(ps, gs, cells) /\ PathsOf(qs, hs, d) /\ d = cells
    <2>1. Linked(cells', next', root')
      OBVIOUS
    <2>2. QED  BY <1>1, <2>1, PathsNow, PathsThen
  <1>3. PathsOf(qs, hs, cells)
    BY <1>2
  <1>4. ps = qs /\ gs = hs
    BY <1>2, <1>3, PathAgree
  <1>5. QED
    BY <1>1, <1>4

\* What the abstract steps say of the paths of the tree.
LEMMA AbstractSteps ==
    /\ TreePaths = {} /\ TreePaths' = {<<>>} /\ TreeGiven' = TreeGiven => Abstract!New
    /\ \A f : TreePaths # {} /\ TreePaths' = TreePaths \union Prefixes(f) /\ TreeGiven' = TreeGiven \union {f} => Abstract!Add(f)
    /\ \A f : TreePaths # {} /\ TreeGiven' = TreeGiven
              /\ (\E g \in Prefixes(f) \ {f} : TreePaths' = TreePaths \union Prefixes(g)) => Abstract!AddPart(f)
    /\ \A p : TreePaths' = {q \in TreePaths : ~IsPrefix(p, q)} /\ TreeGiven' = {q \in TreeGiven : ~IsPrefix(p, q)}
              => Abstract!Prune(p)
    /\ TreePaths' = TreePaths /\ TreeGiven' = TreeGiven => UNCHANGED Abstract!setVars
  BY Zenon DEF TreePaths, TreeGiven, Abstract!New, Abstract!Add, Abstract!AddPart, Abstract!Prune, Abstract!setVars, Prefixes, IsPrefix, Abstract!Prefixes, Abstract!IsPrefix

\* Every step of the request is a step of the set of paths.
LEMMA StepImplements == TreeInv /\ [TreeNext]_treeVars => [Abstract!SetNext]_(Abstract!setVars)
  <1>1. SUFFICES ASSUME TreeInv, [TreeNext]_treeVars PROVE [Abstract!SetNext]_(Abstract!setVars)
    OBVIOUS
  <1>2. Linked(cells, next, root) /\ next <= MaxCells + 1 /\ Linked(cells', next', root')
    BY <1>1, TreeInvNext DEF TreeInv
  <1>3. CASE CreateRoot
    <2>1. TreePaths = {} /\ TreePaths' = {<<>>} /\ TreeGiven' = TreeGiven
      BY <1>1, <1>3, NewPaths
    <2>2. Abstract!New
      BY <2>1, AbstractSteps
    <2>3. QED  BY <2>2 DEF Abstract!SetNext
  <1>4. CASE AddFile
    <2>1. PICK f \in Files : TreePaths' = TreePaths \union Prefixes(f) /\ TreeGiven' = TreeGiven \union {f}
      BY <1>1, <1>4, AddPaths
    <2>2. TreePaths # {}
      BY <1>1, <1>4, AddPaths
    <2>3. Abstract!Add(f)
      BY <2>1, <2>2, AbstractSteps
    <2>4. QED  BY <2>3 DEF Abstract!SetNext
  <1>5. CASE AddFails
    <2>1. PICK f \in Files : \E g \in Prefixes(f) \ {f} : TreePaths' = TreePaths \union Prefixes(g)
      BY <1>1, <1>5, AddFailsPaths
    <2>2. TreePaths # {} /\ TreeGiven' = TreeGiven
      BY <1>1, <1>5, AddFailsPaths
    <2>3. Abstract!AddPart(f)
      BY <2>1, <2>2, AbstractSteps
    <2>4. QED  BY <2>3 DEF Abstract!SetNext
  <1>6. ASSUME NEW e \in Live, cells' = Without(e)  PROVE [Abstract!SetNext]_(Abstract!setVars)
    <2>1. PICK p \in TreePaths : /\ TreePaths' = {q \in TreePaths : ~IsPrefix(p, q)}
                                 /\ TreeGiven' = {q \in TreeGiven : ~IsPrefix(p, q)}
      BY <1>2, <1>6, DestroyPaths
    <2>2. Abstract!Prune(p)
      BY <2>1, AbstractSteps
    <2>3. p \in {RelPath(x) : x \in Live}
      BY DEF TreePaths
    <2>4. QED  BY <2>2, <2>3 DEF Abstract!SetNext
  <1>7. ASSUME cells' = cells, root' = root, next' = next  PROVE [Abstract!SetNext]_(Abstract!setVars)
    <2>1. TreePaths' = TreePaths /\ TreeGiven' = TreeGiven
      BY <1>2, <1>7, SamePaths
    <2>2. UNCHANGED Abstract!setVars
      BY <2>1, AbstractSteps
    <2>3. QED  BY <2>2
  <1>8. CASE \E ok \in BOOLEAN : ProcessRootpkg(ok)
    <2>1. PICK ok \in BOOLEAN : ProcessRootpkg(ok)
      BY <1>8
    <2>2. CASE Head(found) \in Live
      BY <1>6, <2>1, <2>2 DEF ProcessRootpkg
    <2>3. CASE Head(found) \notin Live
      BY <1>7, <2>1, <2>3 DEF ProcessRootpkg
    <2>4. QED  BY <2>2, <2>3
  <1>9. CASE Deinit
    <2>1. CASE root \in Live /\ root # Null
      BY <1>6, <1>9, <2>1 DEF Deinit
    <2>2. CASE ~(root \in Live /\ root # Null)
      BY <1>7, <1>9, <2>2 DEF Deinit
    <2>3. QED  BY <2>1, <2>2
  <1>10. CASE CreateFails \/ Detect \/ DefaultTree
    BY <1>7, <1>10 DEF CreateFails, Detect, DefaultTree
  <1>11. CASE UNCHANGED treeVars
    BY <1>7, <1>11 DEF treeVars
  <1>12. QED
    BY <1>1, <1>3, <1>4, <1>5, <1>8, <1>9, <1>10, <1>11 DEF TreeNext

\* The linked entries implement the set of paths: path_entry_add adds a path with its parents, or the
\* first of them when an allocation fails, path_entry_destroy removes a path and what continues it,
\* and nothing else changes the paths of the tree.
THEOREM TreeImplements == TreeSpec => ImplementsPathSet
  <1>1. TreeInit => Abstract!SetInit
    BY AbstractInit
  <1>2. QED
    BY <1>1, TreeInvAlways, StepImplements, PTL DEF TreeSpec, ImplementsPathSet, Abstract!SetSpec
=============================================================================
