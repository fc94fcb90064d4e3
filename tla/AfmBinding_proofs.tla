-------------------------- MODULE AfmBinding_proofs --------------------------
(***************************************************************************)
(* The database of afm-system-daemon is fresh once the last signal of the  *)
(* installer is treated, and its verbs act with the permission they need,  *)
(* on what was asked: for any unit files, users, calls and failures.       *)
(* The units that the database reads were split exactly from the whole     *)
(* template, for any template and any manifests.                           *)
(***************************************************************************)
EXTENDS AfmBinding, AuthCheck, UnitProcess, FiniteSetTheorems, SequenceTheorems, WellFoundedInduction, TLAPS

----------------------------------------------------------------------------
(* The database: AfmUdb. *)

\* What a scan of the files of S records.
Listed(S) == {[unit |-> u, kind |-> disk[u]] : u \in {v \in S : disk[v] \in Listable}}

\* The scan in progress is exact for the files already visited, unless the
\* installer has changed a file and its signal is still to come or to be treated.
ScanExact ==
    scan.on /\ ~changed /\ ~hup /\ ~scan.missed => Range(scan.apps) = Listed(UnitFiles \ scan.todo)

ScanType == [on : BOOLEAN, todo : SUBSET UnitFiles, apps : Seq(Apps), missed : BOOLEAN]

UdbInv ==
    /\ UdbTypeOK
    /\ scan \in ScanType
    /\ ~serving => scan.on /\ ~hup
    /\ ScanExact
    /\ DatabaseFresh

LEMMA NewScanIs ==
    /\ NotScanning \in ScanType /\ NewScan \in ScanType
    /\ ~NotScanning.on
    /\ NewScan.on /\ NewScan.todo = UnitFiles /\ NewScan.apps = <<>> /\ ~NewScan.missed
  <1>0. <<>> \in Seq(Apps) /\ {} \in SUBSET UnitFiles
    OBVIOUS
  <1>1. NotScanning \in ScanType /\ ~NotScanning.on
    <2>1. NotScanning \in ScanType
      BY <1>0, Zenon DEF NotScanning, ScanType
    <2>2. ~NotScanning.on
      BY DEF NotScanning
    <2>3. QED
      BY <2>1, <2>2
  <1>2. NewScan \in ScanType
    BY <1>1, Zenon DEF NewScan, ScanType
  <1>3. NewScan.on /\ NewScan.todo = UnitFiles /\ NewScan.apps = <<>> /\ ~NewScan.missed
    BY DEF NewScan, NotScanning
  <1>4. QED
    BY <1>1, <1>2, <1>3

LEMMA NothingListed == Range(<<>>) = {} /\ Listed(UnitFiles \ UnitFiles) = {}
  BY DEF Range, Listed

LEMMA RangeAppend ==
    ASSUME NEW S, NEW s \in Seq(S), NEW x \in S
    PROVE  Range(Append(s, x)) = Range(s) \cup {x}
  <1>1. Len(s) \in Nat /\ DOMAIN s = 1..Len(s)
    OBVIOUS
  <1>2. DOMAIN Append(s, x) = 1..(Len(s) + 1) /\ Append(s, x)[Len(s) + 1] = x
    OBVIOUS
  <1>3. \A i \in 1..Len(s) : Append(s, x)[i] = s[i]
    OBVIOUS
  <1>4. 1..(Len(s) + 1) = 1..Len(s) \cup {Len(s) + 1}
    BY <1>1
  <1> DEFINE t == Append(s, x)
  <1> HIDE DEF t
  <1>5. QED
    BY <1>1, <1>2, <1>3, <1>4 DEF Range, t

LEMMA UdbInitInv == UdbInit => UdbInv
  <1> SUFFICES ASSUME UdbInit  PROVE UdbInv
    OBVIOUS
  <1>1. scan \in ScanType /\ scan.on /\ scan.todo = UnitFiles /\ scan.apps = <<>>
    BY NewScanIs DEF UdbInit
  <1>2. UdbTypeOK
    <2>1. <<>> \in Seq(Apps)
      OBVIOUS
    <2>2. 0 \in 0..MaxChanges /\ 0 \in 0..MaxFails /\ disk \in [UnitFiles -> Kinds]
      BY DisksAssumption, ChangesAssumption, FailsAssumption DEF UdbInit
    <2>3. QED
      BY <1>1, <2>1, <2>2 DEF UdbInit, UdbTypeOK, ScanType
  <1>3. ScanExact
    BY <1>1, NothingListed DEF ScanExact
  <1>4. DatabaseFresh
    BY DEF UdbInit, DatabaseFresh, Settled, Fresh
  <1>5. QED
    BY <1>1, <1>2, <1>3, <1>4 DEF UdbInv, UdbInit, ScanType

LEMMA ScanEntryInv == UdbInv /\ ScanEntry => UdbInv'
  <1> SUFFICES ASSUME UdbInv, ScanEntry  PROVE UdbInv'
    OBVIOUS
  <1>1. PICK u \in scan.todo : \/ scan' = UpdateCb(u) /\ UNCHANGED fails
                               \/ /\ fails < MaxFails /\ fails' = fails + 1
                                  /\ scan' = [scan EXCEPT !.todo = @ \ {u}, !.missed = TRUE]
    BY DEF ScanEntry
  <1>2. /\ disk' = disk /\ changed' = changed /\ changes' = changes /\ hup' = hup
        /\ serving' = serving /\ db' = db /\ stale' = stale /\ scan.on
    BY DEF ScanEntry
  <1>3. scan \in ScanType /\ u \in UnitFiles
    BY <1>1 DEF UdbInv, ScanType
  <1>4. fails' \in 0..MaxFails
    BY <1>1, FailsAssumption DEF UdbInv, UdbTypeOK
  <1>5. CASE scan' = UpdateCb(u)
    <2>1. AddUnit(scan.apps, u) \in Seq(Apps)
      <3>1. scan.apps \in Seq(Apps) /\ (disk[u] \in Listable => [unit |-> u, kind |-> disk[u]] \in Apps)
        BY <1>3 DEF Apps, ScanType
      <3>2. QED
        BY <3>1 DEF AddUnit
    <2>2. scan' = [scan EXCEPT !.todo = @ \ {u}, !.apps = AddUnit(@, u)]
      BY <1>5 DEF UpdateCb
    <2>3. /\ scan' \in ScanType /\ scan'.on /\ scan'.todo = scan.todo \ {u}
          /\ scan'.apps = AddUnit(scan.apps, u) /\ scan'.missed = scan.missed
      BY <1>2, <1>3, <2>1, <2>2 DEF ScanType
    <2>4. Range(AddUnit(scan.apps, u)) =
             Range(scan.apps) \cup (IF disk[u] \in Listable THEN {[unit |-> u, kind |-> disk[u]]} ELSE {})
      <3>1. CASE disk[u] \in Listable
        <4>1. [unit |-> u, kind |-> disk[u]] \in Apps /\ scan.apps \in Seq(Apps)
          BY <1>3, <3>1 DEF Apps, ScanType
        <4>2. QED
          BY <3>1, <4>1, RangeAppend DEF AddUnit
      <3>2. CASE disk[u] \notin Listable
        BY <3>2 DEF AddUnit
      <3>3. QED
        BY <3>1, <3>2
    <2>5. Listed(UnitFiles \ (scan.todo \ {u})) =
             Listed(UnitFiles \ scan.todo)
                 \cup (IF disk[u] \in Listable THEN {[unit |-> u, kind |-> disk[u]]} ELSE {})
      BY <1>1, <1>3 DEF Listed
    <2>6. ScanExact'
      BY <1>2, <2>3, <2>4, <2>5 DEF ScanExact, UdbInv, Listed
    <2>7. UdbTypeOK'
      BY <1>2, <1>4, <2>3 DEF UdbInv, UdbTypeOK, ScanType
    <2>8. DatabaseFresh'
      BY <1>2, <2>3 DEF DatabaseFresh, Settled, Fresh
    <2>9. QED
      BY <1>2, <2>3, <2>6, <2>7, <2>8 DEF UdbInv, ScanType
  <1>6. CASE scan' = [scan EXCEPT !.todo = @ \ {u}, !.missed = TRUE]
    <2>1. scan' \in ScanType /\ scan'.on /\ scan'.missed
      BY <1>2, <1>3, <1>6 DEF ScanType
    <2>2. UdbTypeOK'
      BY <1>2, <1>4, <2>1 DEF UdbInv, UdbTypeOK, ScanType
    <2>3. ScanExact' /\ DatabaseFresh'
      BY <1>2, <2>1 DEF ScanExact, DatabaseFresh, Settled, Fresh
    <2>4. QED
      BY <1>2, <2>1, <2>2, <2>3 DEF UdbInv, ScanType
  <1>7. QED
    BY <1>1, <1>5, <1>6

LEMMA UdbNextInv == UdbInv /\ [UdbNext]_udbVars => UdbInv'
  <1> SUFFICES ASSUME UdbInv, [UdbNext]_udbVars  PROVE UdbInv'
    OBVIOUS
  <1>0. scan \in ScanType
    BY DEF UdbInv, ScanType
  <1>1. CASE UNCHANGED udbVars
    BY <1>1 DEF udbVars, UdbInv, UdbTypeOK, ScanExact, DatabaseFresh, Settled, Fresh, Listed
  <1>2. CASE Change
    <2>1. PICK c \in Changes : disk' = [disk EXCEPT ![c[1]] = c[2]]
      BY <1>2 DEF Change
    <2>2. disk' \in [UnitFiles -> Kinds]
      BY <2>1, ChangesAssumption DEF UdbInv, UdbTypeOK
    <2>3. UdbTypeOK'
      BY <1>2, <2>2, ChangesAssumption DEF Change, UdbInv, UdbTypeOK
    <2>4. ScanExact' /\ DatabaseFresh'
      BY <1>2 DEF Change, ScanExact, DatabaseFresh, Settled, Fresh
    <2>5. QED
      BY <1>2, <2>3, <2>4 DEF Change, UdbInv
  <1>3. CASE Signal
    <2>1. scan' \in ScanType /\ (~serving => scan' = NewScan) /\ (serving => scan' = scan)
      BY <1>0, <1>3, NewScanIs DEF Signal
    <2>2. UdbTypeOK'
      BY <1>3, <2>1 DEF Signal, UdbInv, UdbTypeOK, ScanType
    <2>3. ScanExact'
      BY <1>3, <2>1, NewScanIs, NothingListed DEF Signal, ScanExact, Listed
    <2>4. DatabaseFresh'
      BY <1>3 DEF Signal, DatabaseFresh, Settled, Fresh
    <2>5. ~serving' => scan'.on /\ ~hup'
      BY <1>3, <2>1, NewScanIs DEF Signal, UdbInv
    <2>6. QED
      BY <2>1, <2>2, <2>3, <2>4, <2>5 DEF UdbInv, ScanType
  <1>4. CASE UpdateBegin
    <2>1. UdbTypeOK'
      BY <1>4, NewScanIs DEF UpdateBegin, UdbInv, UdbTypeOK, ScanType
    <2>2. ScanExact'
      BY <1>4, NewScanIs, NothingListed DEF UpdateBegin, ScanExact, Listed
    <2>3. DatabaseFresh'
      BY <1>4, NewScanIs DEF UpdateBegin, DatabaseFresh, Settled, Fresh
    <2>4. QED
      BY <1>4, <2>1, <2>2, <2>3, NewScanIs DEF UpdateBegin, UdbInv, ScanType
  <1>5. CASE ScanEntry
    BY <1>5, ScanEntryInv
  <1>6. CASE UpdateEnd
    <2>1. UdbTypeOK'
      BY <1>0, <1>6, NewScanIs DEF UpdateEnd, UdbInv, UdbTypeOK, ScanType
    <2>2. ScanExact'
      BY <1>6, NewScanIs DEF UpdateEnd, ScanExact
    <2>3. DatabaseFresh'
      BY <1>6 DEF UpdateEnd, DatabaseFresh, Settled, Fresh, UdbInv, ScanExact, Listed
    <2>4. QED
      BY <1>6, <2>1, <2>2, <2>3, NewScanIs DEF UpdateEnd, UdbInv, ScanType
  <1>7. CASE UpdateFail
    <2>1. scan' \in ScanType /\ (~serving => scan' = NewScan) /\ (serving => scan' = NotScanning)
      BY <1>7, NewScanIs DEF UpdateFail
    <2>2. UdbTypeOK'
      BY <1>7, <2>1, FailsAssumption DEF UpdateFail, UdbInv, UdbTypeOK, ScanType
    <2>3. ScanExact'
      BY <1>7, <2>1, NewScanIs, NothingListed DEF UpdateFail, ScanExact, Listed
    <2>4. DatabaseFresh'
      BY <1>7 DEF UpdateFail, DatabaseFresh, Settled, Fresh
    <2>5. ~serving' => scan'.on /\ ~hup'
      BY <1>7, <2>1, NewScanIs DEF UpdateFail, UdbInv
    <2>6. QED
      BY <2>1, <2>2, <2>3, <2>4, <2>5 DEF UdbInv, ScanType
  <1>8. CASE SignalFails
    <2>1. scan' = [scan EXCEPT !.missed = scan.on] /\ scan.on \in BOOLEAN
      BY <1>0, <1>8 DEF SignalFails, ScanType
    <2>2. scan' \in ScanType /\ scan'.on = scan.on /\ scan'.missed = scan.on
      BY <1>0, <2>1 DEF ScanType
    <2>3. UdbTypeOK'
      <3>1. fails' \in 0..MaxFails
        BY <1>8, FailsAssumption DEF SignalFails, UdbInv, UdbTypeOK
      <3>2. changed' \in BOOLEAN /\ stale' \in BOOLEAN
        BY <1>8, Zenon DEF SignalFails
      <3>3. UNCHANGED <<disk, changes, hup, serving, db>>
        BY <1>8 DEF SignalFails
      <3>4. scan'.on \in BOOLEAN /\ scan'.todo \subseteq UnitFiles /\ scan'.apps \in Seq(Apps) /\ scan'.missed \in BOOLEAN
        BY <2>2 DEF ScanType
      <3>5. QED
        BY <3>1, <3>2, <3>3, <3>4, Zenon DEF UdbInv, UdbTypeOK
    <2>4. ScanExact'
      BY <2>2 DEF ScanExact
    <2>5. DatabaseFresh'
      BY <1>8 DEF SignalFails, DatabaseFresh
    <2>6. ~serving' => scan'.on /\ ~hup'
      BY <1>8, <2>2 DEF SignalFails, UdbInv
    <2>7. QED
      BY <2>2, <2>3, <2>4, <2>5, <2>6 DEF UdbInv, ScanType
  <1>9. QED
    BY <1>1, <1>2, <1>3, <1>4, <1>5, <1>6, <1>7, <1>8 DEF UdbNext

\* Whatever the installer changes while the daemon scans or starts, the
\* database is what the unit files tell once the last signal is treated.
THEOREM FreshCorrect == UdbSpec => []DatabaseFresh
  <1>1. UdbInv => DatabaseFresh
    BY DEF UdbInv
  <1>2. QED
    BY <1>1, UdbInitInv, UdbNextInv, PTL DEF UdbSpec

----------------------------------------------------------------------------
(* systemd. *)

\* The pid that systemd tells is one that the unit had.
SystemdInv ==
    /\ SystemdTypeOK
    /\ \A p \in Paths : sd[p].pid # 0 => sd[p].pid \in owned[p]

LEMMA SystemdInitInv == SystemdInit => SystemdInv
  <1> SUFFICES ASSUME SystemdInit  PROVE SystemdInv
    OBVIOUS
  <1>1. SystemdTypeOK
    BY PidsAssumption DEF SystemdInit, SystemdTypeOK, SysD_States, Jobs
  <1>2. \A p \in Paths : sd[p].pid # 0 => sd[p].pid \in owned[p]
    BY DEF SystemdInit
  <1>3. QED
    BY <1>1, <1>2 DEF SystemdInv

UnitType == [state : SysD_States, pid : Pids \cup {0}, job : Jobs]

\* A change of a unit that leaves its pid.
LEMMA KeepsPid ==
    ASSUME SystemdInv, NEW p \in Paths, NEW u \in UnitType, u.pid = sd[p].pid,
           sd' = [sd EXCEPT ![p] = u], UNCHANGED owned
    PROVE  SystemdInv'
  <1>1. SystemdTypeOK'
    BY DEF SystemdInv, SystemdTypeOK, UnitType
  <1>2. \A q \in Paths : sd'[q].pid = sd[q].pid
    BY DEF SystemdInv, SystemdTypeOK
  <1>3. QED
    BY <1>1, <1>2 DEF SystemdInv

LEMMA LaunchInv ==
    ASSUME SystemdInv, NEW p \in Paths, NEW state \in SysD_States, Launch(p, state)
    PROVE  SystemdInv' /\ \A q \in Paths : owned[q] \subseteq owned'[q]
  <1>1. PICK n \in FreePids :
            /\ sd' = [sd EXCEPT ![p] = [state |-> state, pid |-> n, job |-> "none"]]
            /\ owned' = [owned EXCEPT ![p] = @ \cup {n}]
    BY DEF Launch
  <1>2. n \in Pids
    BY DEF FreePids
  <1>3. /\ owned'[p] = owned[p] \cup {n}
        /\ \A q \in Paths : q # p => owned'[q] = owned[q]
        /\ \A q \in Paths : sd'[q].pid = IF q = p THEN n ELSE sd[q].pid
    BY <1>1 DEF SystemdInv, SystemdTypeOK
  <1>4. sd' \in [Paths -> [state : SysD_States, pid : Pids \cup {0}, job : Jobs]]
    BY <1>1, <1>2 DEF SystemdInv, SystemdTypeOK, Jobs
  <1>5. owned' \in [Paths -> SUBSET Pids]
    BY <1>1, <1>2 DEF SystemdInv, SystemdTypeOK
  <1>6. \A q \in Paths : sd'[q].pid # 0 => sd'[q].pid \in owned'[q]
    BY <1>3 DEF SystemdInv
  <1>7. QED
    BY <1>3, <1>4, <1>5, <1>6 DEF SystemdInv, SystemdTypeOK

LEMMA UnitChange ==
    ASSUME SystemdInv, NEW p \in Paths, NEW state \in SysD_States, NEW job \in Jobs
    PROVE  /\ sd[p] \in UnitType
           /\ [sd[p] EXCEPT !.job = job] \in UnitType /\ [sd[p] EXCEPT !.job = job].pid = sd[p].pid
           /\ [sd[p] EXCEPT !.state = state] \in UnitType /\ [sd[p] EXCEPT !.state = state].pid = sd[p].pid
           /\ [sd[p] EXCEPT !.state = state, !.job = job] \in UnitType
           /\ [sd[p] EXCEPT !.state = state, !.job = job].pid = sd[p].pid
  <1>1. sd[p] \in UnitType
    BY DEF SystemdInv, SystemdTypeOK, UnitType
  <1>2. QED
    BY <1>1 DEF UnitType

LEMMA SystemdNextInv ==
    ASSUME SystemdInv, SystemdNext
    PROVE  SystemdInv' /\ \A q \in Paths : owned[q] \subseteq owned'[q]
  <1>1. PICK p \in Paths : DoStart(p) \/ DoStop(p) \/ Exit(p) \/ Restart(p)
    BY DEF SystemdNext
  <1>2. CASE DoStart(p)
    <2>1. CASE sd[p].state = "active"
      <3>1. sd' = [sd EXCEPT ![p].job = "none"] /\ UNCHANGED owned
        BY <1>2, <2>1 DEF DoStart
      <3>2. QED
        BY <3>1, UnitChange, KeepsPid DEF Jobs, SysD_States
    <2>2. CASE sd[p].state # "active"
      BY <1>2, <2>2, LaunchInv DEF DoStart, SysD_States
    <2>3. QED
      BY <2>1, <2>2
  <1>3. CASE DoStop(p)
    <2>1. UNCHANGED owned
      BY <1>3 DEF DoStop
    <2>2. CASE sd' = [sd EXCEPT ![p].state = "deactivating"]
      BY <2>1, <2>2, UnitChange, KeepsPid DEF Jobs, SysD_States
    <2>3. CASE sd' = [sd EXCEPT ![p].state = "inactive", ![p].job = "none"]
      <3>1. PICK u : u = [sd[p] EXCEPT !.state = "inactive", !.job = "none"]
        OBVIOUS
      <3>2. "inactive" \in SysD_States /\ "none" \in Jobs
        BY DEF SysD_States, Jobs
      <3>3. u \in UnitType /\ u.pid = sd[p].pid
        BY <3>1, <3>2, UnitChange
      <3>4. sd' = [sd EXCEPT ![p] = u]
        BY <2>3, <3>1 DEF SystemdInv, SystemdTypeOK
      <3>5. QED  BY <2>1, <3>3, <3>4, KeepsPid
    <2>4. QED
      BY <1>3, <2>2, <2>3 DEF DoStop
  <1>4. CASE Exit(p)
    <2>1. PICK state \in {"inactive", "activating", "failed"} : sd' = [sd EXCEPT ![p].state = state]
      BY <1>4 DEF Exit
    <2>2. UNCHANGED owned
      BY <1>4 DEF Exit
    <2>3. QED
      BY <2>1, <2>2, UnitChange, KeepsPid DEF Jobs, SysD_States
  <1>5. CASE Restart(p)
    BY <1>5, LaunchInv DEF Restart, SysD_States
  <1>6. QED
    BY <1>1, <1>2, <1>3, <1>4, <1>5

\* The calls that queue a job.
LEMMA JobInv ==
    ASSUME SystemdInv, NEW p \in Paths, unit_start(p) \/ unit_stop(p)
    PROVE  SystemdInv' /\ owned' = owned
  BY UnitChange, KeepsPid DEF unit_start, unit_stop, Jobs, SysD_States

----------------------------------------------------------------------------
(* The requests. *)

Fields == {"pc", "call", "status", "found", "uid", "id", "runid", "path", "polls", "job",
           "apps", "old", "reply", "told"}

\* Where a request is once its verb has begun to act.
ActPlaces == {"wait", "pid", "find", "findpid", "findstate", "stop", "list", "liststate"}

\* g: the permissions that the request got.
Checked(q, g) ==
    /\ q.uid # q.call.client => "uid" \in g
    /\ "All" \in q.found => "all" \in g

\* The checks are passed one after the other: only a request whose status is
\* still "ok" reaches the action, and then with the answers it needed.
Permitted(q, g) ==
    /\ q.status # "running"
    /\ q.pc \in {"unborn", "uid", "all", "runid", "final"} => q.path = None /\ q.reply = None
    /\ q.pc \in {"uid", "all"} => q.status = "ok"
    /\ q.pc = "all" => (q.uid # q.call.client => "uid" \in g)
    /\ q.pc \in {"runid", "final"} /\ q.status = "ok" => Checked(q, g)
    /\ q.pc \in ActPlaces => Checked(q, g)
    /\ q.pc = "replied" /\ (q.reply \in {"ok", "running"} \/ q.path # None) => Checked(q, g)

\* own: the pids that each path had.
Owner(q, own) == \E p \in PathsOf(q.id, q.uid) \cap Paths : q.runid \in own[p]

\* The path started is the one of the application asked, and so is the pid.
Started(q, own) ==
    /\ q.pc \in {"wait", "pid"} =>
          /\ q.call.verb \in {"start", "once"}
          /\ q.path \in PathsOf(q.id, q.uid) \cap Paths
    /\ q.pc # "unborn" /\ q.call.verb \in {"start", "once"} /\ q.runid # 0 => Owner(q, own)

\* The path p is the one asked, or it had the same pid.
Led(q, p, own) ==
    /\ p \in Paths
    /\ \/ p \in PathsOf(q.id, q.uid)
       \/ \E o \in PathsOf(q.id, q.uid) \cap Paths : o # p /\ q.runid \in own[o] /\ q.runid \in own[p]

\* A runid that the request did not give is the pid of the application asked.
\* s: the paths stopped for the request.
Stopped(q, s, own) ==
    /\ q.pc = "unborn" => q.call = None
    /\ q.pc # "replied" => s = {}
    /\ q.pc = "stop" => q.call.verb = "terminate" /\ q.path \in Paths
    /\ q.pc # "unborn" /\ "RunId" \notin Extract(q.call).found =>
          /\ q.call.verb = "terminate" /\ "RunId" \in q.found => Owner(q, own)
          /\ q.pc = "stop" => Led(q, q.path, own)
          /\ \A p \in s : Led(q, p, own)

RequestInv(q, g, s, own) ==
    /\ DOMAIN q = Fields /\ q.pc \in Places
    /\ Permitted(q, g)
    /\ Started(q, own)
    /\ Stopped(q, s, own)

RequestsInv ==
    /\ DOMAIN rq = Requests /\ DOMAIN granted = Requests /\ DOMAIN stopped = Requests
    /\ \A r \in Requests : RequestInv(rq[r], granted[r], stopped[r], owned)

IInv == UdbInv /\ SystemdInv /\ RequestsInv

\* The fields that the checks and the search of the application set.
Keeps(n, q) ==
    /\ DOMAIN n = Fields
    /\ n.call = q.call /\ n.status = q.status /\ n.found = q.found
    /\ n.uid = q.uid /\ n.id = q.id

LEMMA RepliedFields ==
    ASSUME NEW q, DOMAIN q = Fields, NEW what
    PROVE  /\ Keeps(Replied(q, what), q)
           /\ Replied(q, what).pc = "replied" /\ Replied(q, what).reply = what
           /\ Replied(q, what).runid = q.runid /\ Replied(q, what).path = q.path
  BY Zenon DEF Replied, Fields, Keeps

LEMMA UnbornFields ==
    /\ DOMAIN NoRequest = Fields
    /\ NoRequest.pc = "unborn" /\ NoRequest.call = None /\ NoRequest.status = "ok"
    /\ NoRequest.found = {} /\ NoRequest.path = None /\ NoRequest.reply = None
    /\ NoRequest.runid = 0
  BY DEF NoRequest, Fields

LEMMA ExtractFields ==
    ASSUME NEW call
    PROVE  /\ DOMAIN Extract(call) = Fields
           /\ Extract(call).call = call
           /\ Extract(call).path = None /\ Extract(call).reply = None
           /\ Extract(call).status \in {"ok", "bad_request"}
           /\ Extract(call).uid # call.client => "UID" \in Extract(call).found
           /\ call.verb \in {"start", "once"} => Extract(call).runid = 0
  <1>1. call.verb \in {"start", "once"} => "RunId" \notin Required(call.verb) \cup Optional(call.verb)
    BY Zenon DEF Required, Optional
  <1>2. DOMAIN Extract(call) = Fields
    BY Zenon DEF Extract, NoRequest, Fields
  <1>3. /\ Extract(call).call = call
        /\ Extract(call).path = None /\ Extract(call).reply = None
    BY Zenon DEF Extract, NoRequest, Fields
  <1>4. Extract(call).status \in {"ok", "bad_request"}
    BY Zenon DEF Extract, NoRequest, Fields
  <1>5. Extract(call).uid # call.client => "UID" \in Extract(call).found
    BY Zenon DEF Extract, NoRequest, Fields, Params
  <1>6. call.verb \in {"start", "once"} => Extract(call).runid = 0
    BY <1>1, Zenon DEF Extract, NoRequest, Fields
  <1>7. QED
    BY <1>2, <1>3, <1>4, <1>5, <1>6

LEMMA RequiredRunId ==
    ASSUME NEW verb
    PROVE  /\ verb \in {"start", "once"} => "RunId" \notin Required(verb)
           /\ verb = "terminate" => "RunId" \in Required(verb)
  BY Zenon DEF Required

\* What holds of the pids that a path had goes on holding when it gets others.
LEMMA MoreOwned ==
    ASSUME NEW q, NEW g, NEW s, NEW own, NEW more, RequestInv(q, g, s, own),
           \A p \in Paths : own[p] \subseteq more[p]
    PROVE  RequestInv(q, g, s, more)
  BY DEF RequestInv, Started, Stopped, Owner, Led

\* A handler that has begun to act replies.
LEMMA ReplyInv ==
    ASSUME NEW q, NEW g, NEW s, NEW own, RequestInv(q, g, s, own), NEW what,
           \/ q.pc \in ActPlaces
           \/ q.pc = "final" /\ (q.status = "ok" \/ what \notin {"ok", "running"})
    PROVE  RequestInv(Replied(q, what), g, s, own)
  <1> DEFINE n == Replied(q, what)
  <1>1. /\ Keeps(n, q) /\ n.pc = "replied" /\ n.reply = what
        /\ n.runid = q.runid /\ n.path = q.path
    BY RepliedFields DEF RequestInv
  <1> HIDE DEF n
  <1>2. q.pc # "unborn"
    BY DEF ActPlaces
  <1>3. n.reply \in {"ok", "running"} \/ n.path # None => Checked(q, g)
    BY <1>1 DEF RequestInv, Permitted
  <1>4. Permitted(n, g)
    BY <1>1, <1>3 DEF Permitted, Checked, Keeps, RequestInv, ActPlaces
  <1>5. Started(n, own)
    BY <1>1, <1>2 DEF Started, Owner, Keeps, RequestInv
  <1>6. Stopped(n, s, own)
    BY <1>1, <1>2 DEF Stopped, Owner, Led, Keeps, RequestInv
  <1>7. QED
    BY <1>1, <1>4, <1>5, <1>6 DEF RequestInv, Keeps, Places, n

\* A handler goes from one place of the action to another one.
LEMMA ActInv ==
    ASSUME NEW q, NEW g, NEW s, NEW own, RequestInv(q, g, s, own), NEW n, Keeps(n, q),
           \/ q.pc \in ActPlaces
           \/ q.pc = "final" /\ q.status = "ok",
           n.pc \in ActPlaces,
           n.runid = q.runid,
           n.pc \in {"wait", "pid"} => /\ q.call.verb \in {"start", "once"}
                                       /\ n.path \in PathsOf(q.id, q.uid) \cap Paths,
           n.pc = "stop" =>
               /\ q.call.verb = "terminate" /\ n.path \in Paths
               /\ "RunId" \notin Extract(q.call).found => Led(q, n.path, own)
    PROVE  RequestInv(n, g, s, own)
  <1>1. q.pc # "unborn" /\ n.pc \in Places
    BY DEF ActPlaces, Places
  <1>2. Permitted(n, g)
    BY DEF Permitted, Checked, Keeps, RequestInv, ActPlaces
  <1>3. Started(n, own)
    BY <1>1 DEF Started, Owner, Keeps, RequestInv
  <1>4. n.pc # "unborn"
    BY DEF ActPlaces
  <1>5. Stopped(n, s, own)
    BY <1>1, <1>4 DEF Stopped, Owner, Led, Keeps, RequestInv, ActPlaces
  <1>6. QED
    BY <1>1, <1>2, <1>3, <1>5 DEF RequestInv, Keeps

LEMMA SameInv ==
    ASSUME NEW q, NEW g, NEW s, NEW own, RequestInv(q, g, s, own), NEW n, Keeps(n, q),
           n.pc = q.pc, n.reply = q.reply, n.runid = q.runid, n.path = q.path
    PROVE  RequestInv(n, g, s, own)
  BY DEF RequestInv, Permitted, Checked, Started, Stopped, Owner, Led, Keeps

----------------------------------------------------------------------------
(* The steps of a handler. *)

LEMMA BecomeFields ==
    ASSUME NEW r \in Requests, NEW n, DOMAIN rq = Requests, Become(r, n)
    PROVE  /\ DOMAIN rq' = Requests /\ rq'[r] = n
           /\ \A o \in Requests : o # r => rq'[o] = rq[o]
  BY Zenon DEF Become, Update

\* A step of the handler of r that changes nothing but r.
LEMMA StepInv ==
    ASSUME RequestsInv, NEW r \in Requests, NEW n, Become(r, n),
           RequestInv(n, granted[r], stopped[r], owned),
           granted' = granted, stopped' = stopped, owned' = owned
    PROVE  RequestsInv'
  <1>1. /\ DOMAIN rq' = Requests /\ rq'[r] = n
        /\ \A o \in Requests : o # r => rq'[o] = rq[o]
    BY BecomeFields DEF RequestsInv
  <1>2. ASSUME NEW o \in Requests
        PROVE  RequestInv(rq'[o], granted'[o], stopped'[o], owned')
    <2>1. CASE o = r
      BY <1>1, <2>1
    <2>2. CASE o # r
      BY <1>1, <2>2 DEF RequestsInv
    <2>3. QED
      BY <2>1, <2>2
  <1>3. QED
    BY <1>1, <1>2 DEF RequestsInv

\* The reply of an action.
LEMMA ReplyStep ==
    ASSUME RequestsInv, NEW r \in Requests, NEW what, Become(r, Replied(rq[r], what)),
           \/ rq[r].pc \in ActPlaces
           \/ rq[r].pc = "final" /\ (rq[r].status = "ok" \/ what \notin {"ok", "running"}),
           granted' = granted, stopped' = stopped, owned' = owned
    PROVE  RequestsInv'
  <1>1. RequestInv(rq[r], granted[r], stopped[r], owned)
    BY DEF RequestsInv
  <1>2. RequestInv(Replied(rq[r], what), granted[r], stopped[r], owned)
    BY <1>1, ReplyInv
  <1>3. QED
    BY <1>2, StepInv

LEMMA ToldStep ==
    ASSUME RequestsInv, NEW r \in Requests, NEW told,
           Become(r, [Replied(rq[r], "ok") EXCEPT !.told = told]),
           rq[r].pc = "final" /\ rq[r].status = "ok",
           granted' = granted, stopped' = stopped, owned' = owned
    PROVE  RequestsInv'
  <1> DEFINE q == Replied(rq[r], "ok")
             n == [q EXCEPT !.told = told]
  <1>1. RequestInv(q, granted[r], stopped[r], owned)
    BY ReplyInv DEF RequestsInv
  <1> HIDE DEF q
  <1>2. Keeps(n, q) /\ n.pc = q.pc /\ n.reply = q.reply /\ n.runid = q.runid /\ n.path = q.path
    <2>1. DOMAIN q = Fields
      BY <1>1 DEF RequestInv
    <2>2. QED
      BY <2>1, Zenon DEF Keeps, Fields
  <1> HIDE DEF n
  <1>3. RequestInv(n, granted[r], stopped[r], owned)
    BY <1>1, <1>2, SameInv
  <1>4. QED
    BY <1>3, StepInv DEF n, q

LEMMA ActingFacts ==
    ASSUME NEW r, NEW verbs, Acting(r, verbs)
    PROVE  /\ rq[r].pc = "final" /\ rq[r].status = "ok" /\ rq[r].call.verb \in verbs
           /\ Required(rq[r].call.verb) \subseteq rq[r].found
  BY DEF Acting, Acts

LEMMA FinalErrorInv ==
    ASSUME RequestsInv, NEW r \in Requests, FinalError(r)  PROVE RequestsInv'
  <1> DEFINE what == IF rq[r].status = "ok" THEN "bad_request" ELSE rq[r].status
  <1>1. what \notin {"ok", "running"}
    BY DEF RequestsInv, RequestInv, Permitted
  <1>2. Become(r, Replied(rq[r], what)) /\ rq[r].pc = "final"
    BY DEF FinalError
  <1>3. granted' = granted /\ stopped' = stopped /\ owned' = owned
    BY DEF FinalError, systemdVars
  <1> HIDE DEF what
  <1>4. QED
    BY <1>1, <1>2, <1>3, ReplyStep

LEMMA ActPauseInv ==
    ASSUME RequestsInv, NEW r \in Requests, ActPause(r)  PROVE RequestsInv'
  <1>1. granted' = granted /\ stopped' = stopped /\ owned' = owned
    BY DEF ActPause, systemdVars
  <1>2. QED
    BY <1>1, ActingFacts, ReplyStep DEF ActPause

LEMMA ActQueryInv ==
    ASSUME RequestsInv, NEW r \in Requests, ActQuery(r)  PROVE RequestsInv'
  <1>1. granted' = granted /\ stopped' = stopped /\ owned' = owned
    BY DEF ActQuery, systemdVars
  <1>2. rq[r].pc = "final" /\ rq[r].status = "ok" /\ rq[r].call.verb \in {"runnables", "detail"}
    BY ActingFacts DEF ActQuery
  <1>3. \/ \E told : Become(r, [Replied(rq[r], "ok") EXCEPT !.told = told])
        \/ Become(r, Replied(rq[r], "not_found"))
    BY <1>2, Zenon DEF ActQuery
  <1>4. QED
    BY <1>1, <1>2, <1>3, ReplyStep, ToldStep

\* A handler that goes on: the changes of place and path it makes.
LEMMA ActStep ==
    ASSUME RequestsInv, NEW r \in Requests, NEW n, Become(r, n), Keeps(n, rq[r]),
           \/ rq[r].pc \in ActPlaces
           \/ rq[r].pc = "final" /\ rq[r].status = "ok",
           n.pc \in ActPlaces, n.runid = rq[r].runid,
           n.pc \in {"wait", "pid"} => /\ rq[r].call.verb \in {"start", "once"}
                                       /\ n.path \in PathsOf(rq[r].id, rq[r].uid) \cap Paths,
           n.pc = "stop" =>
               /\ rq[r].call.verb = "terminate" /\ n.path \in Paths
               /\ "RunId" \notin Extract(rq[r].call).found => Led(rq[r], n.path, owned),
           granted' = granted, stopped' = stopped, owned' = owned
    PROVE  RequestsInv'
  <1>1. RequestInv(rq[r], granted[r], stopped[r], owned)
    BY DEF RequestsInv
  <1>2. RequestInv(n, granted[r], stopped[r], owned)
    BY <1>1, ActInv
  <1>3. QED
    BY <1>2, StepInv

LEMMA Shape == ASSUME RequestsInv, NEW r \in Requests  PROVE DOMAIN rq[r] = Fields
  BY DEF RequestsInv, RequestInv

\* get_no_case gives applications of the database called as asked.
LEMMA NamedAsked ==
    ASSUME UdbInv, NEW id, NEW u \in Named(id)
    PROVE  u \in UnitFiles /\ Fold(IdOf[u]) = Fold(id)
  <1>1. \A i \in DOMAIN db : db[i].unit \in UnitFiles
    <2>1. db \in Seq(Apps)
      BY DEF UdbInv, UdbTypeOK
    <2>2. \A i \in DOMAIN db : db[i] \in Apps
      BY <2>1
    <2>3. QED
      BY <2>2 DEF Apps
  <1>2. PICK i \in DOMAIN db : u = db[i].unit /\ (IdOf[db[i].unit] = id \/ Fold(IdOf[db[i].unit]) = Fold(id))
    BY Zenon DEF Named
  <1>3. QED
    BY <1>1, <1>2, Zenon

\* get_basis gives the path of the unit for the user, whatever was recorded.
LEMMA BasisAsked ==
    ASSUME UdbInv, NEW id, NEW uid, NEW u \in Named(id), NEW p, GetBasis(u, uid, p), p # None
    PROVE  p \in PathsOf(id, uid)
  <1>1. p = PathOf(u, uid)
    BY Zenon DEF GetBasis, RecordedPath
  <1>2. u \in UnitFiles /\ Fold(IdOf[u]) = Fold(id)
    BY NamedAsked
  <1>3. QED
    BY <1>1, <1>2, Zenon DEF PathsOf

LEMMA ActStartInv ==
    ASSUME UdbInv, SystemdInv, RequestsInv, NEW r \in Requests, ActStart(r)
    PROVE  RequestsInv' /\ SystemdInv'
  <1> DEFINE q == rq[r]
  <1>1. q.pc = "final" /\ q.status = "ok" /\ q.call.verb \in {"start", "once"}
    BY ActingFacts DEF ActStart
  <1>2. granted' = granted /\ stopped' = stopped
    BY DEF ActStart
  <1>3. \/ \E what \in {"not_found", "cannot_start"} :
              Become(r, Replied(q, what)) /\ UNCHANGED systemdVars
        \/ \E u \in Named(q.id), p \in Paths :
              /\ GetBasis(u, q.uid, p) /\ p # None
              /\ unit_start(p)
              /\ Become(r, [q EXCEPT !.pc = "wait", !.path = p, !.job = TRUE])
    BY Zenon DEF ActStart
  <1>4. CASE \E what \in {"not_found", "cannot_start"} :
                Become(r, Replied(q, what)) /\ UNCHANGED systemdVars
    <2>1. owned' = owned /\ sd' = sd
      BY <1>4 DEF systemdVars
    <2>2. RequestsInv'
      BY <1>1, <1>2, <1>4, <2>1, ReplyStep
    <2>3. QED
      BY <2>1, <2>2 DEF SystemdInv, SystemdTypeOK
  <1>5. ASSUME NEW u \in Named(q.id), NEW p \in Paths, GetBasis(u, q.uid, p), p # None,
               unit_start(p), Become(r, [q EXCEPT !.pc = "wait", !.path = p, !.job = TRUE])
        PROVE  RequestsInv' /\ SystemdInv'
    <2> DEFINE n == [q EXCEPT !.pc = "wait", !.path = p, !.job = TRUE]
    <2>1. p \in PathsOf(q.id, q.uid)
      BY <1>5, BasisAsked
    <2>2. Keeps(n, q) /\ n.pc = "wait" /\ n.path = p /\ n.runid = q.runid
      BY Shape, Zenon DEF Keeps, Fields
    <2>3. SystemdInv' /\ owned' = owned
      BY <1>5, JobInv
    <2> HIDE DEF n
    <2>4. Become(r, n)
      BY <1>5 DEF n
    <2>5. RequestsInv'
      BY <1>1, <1>2, <2>1, <2>2, <2>3, <2>4, ActStep DEF ActPlaces
    <2>6. QED
      BY <2>3, <2>5
  <1>6. QED
    BY <1>3, <1>4, <1>5

LEMMA PollStep ==
    ASSUME RequestsInv, NEW r \in Requests, NEW job, Become(r, Poll(rq[r], job)), rq[r].pc = "wait",
           granted' = granted, stopped' = stopped, owned' = owned
    PROVE  RequestsInv'
  <1> DEFINE q == rq[r]
             n == [q EXCEPT !.polls = @ + 1, !.job = job]
  <1>1. CASE q.polls + 1 < Trials
    <2>1. Keeps(n, q) /\ n.pc = q.pc /\ n.reply = q.reply /\ n.runid = q.runid /\ n.path = q.path
      BY Shape, Zenon DEF Keeps, Fields
    <2>2. Become(r, n)
      BY <1>1, Zenon DEF Poll
    <2> HIDE DEF n
    <2>3. RequestInv(n, granted[r], stopped[r], owned)
      BY <2>1, SameInv DEF RequestsInv
    <2>4. QED
      BY <2>2, <2>3, StepInv
  <1>2. CASE ~(q.polls + 1 < Trials)
    <2>1. Become(r, Replied(q, "cannot_start"))
      BY <1>2, Zenon DEF Poll
    <2>2. QED
      BY <2>1, ReplyStep DEF ActPlaces
  <1>3. QED
    BY <1>1, <1>2

LEMMA WaitStableInv ==
    ASSUME RequestsInv, NEW r \in Requests, WaitStable(r)  PROVE RequestsInv'
  <1> DEFINE q == rq[r]
             n == [q EXCEPT !.pc = "pid", !.job = FALSE]
  <1>1. granted' = granted /\ stopped' = stopped /\ owned' = owned /\ q.pc = "wait"
    BY DEF WaitStable, systemdVars
  <1>2. \/ Become(r, n)
        \/ Become(r, Replied(q, "cannot_start"))
        \/ \E job : Become(r, Poll(q, job))
    BY Zenon DEF WaitStable
  <1>3. CASE Become(r, n)
    <2>1. Keeps(n, q) /\ n.pc = "pid" /\ n.path = q.path /\ n.runid = q.runid
      BY Shape, Zenon DEF Keeps, Fields
    <2>2. /\ q.call.verb \in {"start", "once"}
          /\ q.path \in PathsOf(q.id, q.uid) \cap Paths
      BY <1>1 DEF RequestsInv, RequestInv, Started
    <2> HIDE DEF n
    <2>3. QED
      BY <1>1, <1>3, <2>1, <2>2, ActStep DEF ActPlaces
  <1>4. CASE Become(r, Replied(q, "cannot_start"))
    BY <1>1, <1>4, ReplyStep DEF ActPlaces
  <1>5. CASE \E job : Become(r, Poll(q, job))
    BY <1>1, <1>5, PollStep
  <1>6. QED
    BY <1>2, <1>3, <1>4, <1>5

LEMMA NoStateStep ==
    ASSUME RequestsInv, NEW r \in Requests, Become(r, NoState(rq[r])),
           \/ rq[r].pc \in ActPlaces
           \/ rq[r].pc = "final" /\ rq[r].status = "ok",
           granted' = granted, stopped' = stopped, owned' = owned
    PROVE  RequestsInv'
  BY ReplyStep DEF NoState

\* The pid that systemd gives for the path started is one of its pids.
LEMMA StartedPidInv ==
    ASSUME SystemdInv, RequestsInv, NEW r \in Requests, StartedPid(r)  PROVE RequestsInv'
  <1> DEFINE q == rq[r]
             pid == unit_pid(q.path)
             ok == Replied(q, "ok")
             n == [ok EXCEPT !.runid = pid]
             m == [q EXCEPT !.pc = "find", !.runid = pid]
  <1>1. granted' = granted /\ stopped' = stopped /\ owned' = owned /\ q.pc = "pid"
    BY DEF StartedPid, systemdVars
  <1>2. RequestInv(q, granted[r], stopped[r], owned)
    BY DEF RequestsInv
  <1>3. q.call.verb \in {"start", "once"} /\ q.path \in PathsOf(q.id, q.uid) \cap Paths
    BY <1>1, <1>2 DEF RequestInv, Started
  <1>4. pid # 0 => pid \in owned[q.path]
    BY <1>3 DEF SystemdInv, unit_pid
  <1>5. RequestInv(ok, granted[r], stopped[r], owned)
    BY <1>1, <1>2, ReplyInv DEF ActPlaces
  <1>6. Become(r, Replied(q, "cannot_start")) \/ Become(r, n) \/ Become(r, m)
    BY Zenon DEF StartedPid
  <1>7. CASE Become(r, n)
    <2>1. Keeps(ok, q) /\ ok.pc = "replied" /\ ok.reply = "ok" /\ ok.path = q.path
      BY <1>2, RepliedFields DEF RequestInv
    <2> HIDE DEF ok
    <2>2. Keeps(n, ok) /\ n.pc = ok.pc /\ n.reply = ok.reply /\ n.runid = pid /\ n.path = ok.path
      <3>1. DOMAIN ok = Fields
        BY <2>1 DEF Keeps
      <3>2. QED
        BY <3>1, Zenon DEF Keeps, Fields
    <2> HIDE DEF n, pid
    <2>3. Started(n, owned)
      BY <1>3, <1>4, <2>1, <2>2 DEF Started, Keeps, Owner
    <2>4. Stopped(n, stopped[r], owned)
      <3>1. stopped[r] = {}
        BY <1>1, <1>2 DEF RequestInv, Stopped
      <3>2. QED
        BY <1>3, <2>1, <2>2, <3>1 DEF Stopped, Keeps
    <2>5. Permitted(n, granted[r])
      BY <1>5, <2>1, <2>2 DEF RequestInv, Permitted, Checked, Keeps
    <2>6. RequestInv(n, granted[r], stopped[r], owned)
      BY <1>5, <2>2, <2>3, <2>4, <2>5 DEF RequestInv, Keeps
    <2>7. QED
      BY <1>1, <1>7, <2>6, StepInv
  <1>8. CASE Become(r, m)
    <2>1. Keeps(m, q) /\ m.pc = "find" /\ m.reply = q.reply /\ m.runid = pid /\ m.path = q.path
      BY Shape, Zenon DEF Keeps, Fields
    <2> HIDE DEF m, pid
    <2>2. Started(m, owned)
      BY <1>3, <1>4, <2>1 DEF Started, Keeps, Owner
    <2>3. Stopped(m, stopped[r], owned)
      BY <1>1, <1>2, <1>3, <2>1 DEF RequestInv, Stopped, Keeps
    <2>4. Permitted(m, granted[r])
      BY <1>1, <1>2, <2>1 DEF RequestInv, Permitted, Checked, Keeps, ActPlaces
    <2>5. RequestInv(m, granted[r], stopped[r], owned)
      BY <1>2, <2>1, <2>2, <2>3, <2>4 DEF RequestInv, Keeps, Places
    <2>6. QED
      BY <1>1, <1>8, <2>5, StepInv
  <1>9. CASE Become(r, Replied(q, "cannot_start"))
    BY <1>1, <1>9, ReplyStep DEF ActPlaces
  <1>10. QED
    BY <1>6, <1>7, <1>8, <1>9

LEMMA FindRunidInv ==
    ASSUME RequestsInv, NEW r \in Requests, FindRunid(r)  PROVE RequestsInv'
  <1> DEFINE q == rq[r]
             n(p, told) == [q EXCEPT !.pc = "findpid", !.path = p, !.told = told]
  <1>1. granted' = granted /\ stopped' = stopped /\ owned' = owned
    BY DEF FindRunid, systemdVars
  <1>2. q.pc \in ActPlaces \/ (q.pc = "final" /\ q.status = "ok")
    BY ActingFacts DEF FindRunid, ActPlaces
  <1>3. Become(r, NoState(q)) \/ \E p, told : Become(r, n(p, told))
    BY Zenon DEF FindRunid
  <1>4. ASSUME NEW p, NEW told, Become(r, n(p, told))  PROVE RequestsInv'
    <2>1. Keeps(n(p, told), q) /\ n(p, told).pc = "findpid" /\ n(p, told).runid = q.runid
      BY Shape, Zenon DEF Keeps, Fields
    <2> HIDE DEF n
    <2>2. QED
      BY <1>1, <1>2, <1>4, <2>1, ActStep DEF ActPlaces
  <1>5. QED
    BY <1>1, <1>2, <1>3, <1>4, NoStateStep

LEMMA FindPidInv ==
    ASSUME RequestsInv, NEW r \in Requests, FindPid(r)  PROVE RequestsInv'
  <1> DEFINE q == rq[r]
             n == [q EXCEPT !.pc = "findstate", !.polls = unit_pid(q.path)]
  <1>1. granted' = granted /\ stopped' = stopped /\ owned' = owned /\ q.pc = "findpid"
    BY DEF FindPid, systemdVars
  <1>2. Become(r, n) \/ Become(r, NoState(q))
    BY Zenon DEF FindPid
  <1>3. Keeps(n, q) /\ n.pc = "findstate" /\ n.runid = q.runid
    BY Shape, Zenon DEF Keeps, Fields
  <1> HIDE DEF n
  <1>4. QED
    BY <1>1, <1>2, <1>3, ActStep, NoStateStep DEF ActPlaces

LEMMA FindStateInv ==
    ASSUME RequestsInv, NEW r \in Requests, FindState(r)  PROVE RequestsInv'
  <1>1. granted' = granted /\ stopped' = stopped /\ owned' = owned /\ rq[r].pc = "findstate"
    BY DEF FindState, systemdVars
  <1>2. Become(r, Replied(rq[r], "running")) \/ Become(r, NoState(rq[r]))
    BY Zenon DEF FindState
  <1>3. QED
    BY <1>1, <1>2, ReplyStep, NoStateStep DEF ActPlaces

\* The unit stopped is the one of the pid told by the search: a pid has one owner.
LEMMA ActTerminateInv ==
    ASSUME SystemdInv, RequestsInv, NEW r \in Requests, ActTerminate(r)  PROVE RequestsInv'
  <1> DEFINE q == rq[r]
             n(p) == [q EXCEPT !.pc = "stop", !.path = p]
  <1>1. granted' = granted /\ stopped' = stopped /\ owned' = owned
    BY DEF ActTerminate, systemdVars
  <1>2. /\ q.pc = "final" /\ q.status = "ok" /\ q.call.verb = "terminate"
        /\ "RunId" \in q.found
    <2>1. Acting(r, {"terminate"})
      BY DEF ActTerminate
    <2>2. /\ q.pc = "final" /\ q.status = "ok" /\ q.call.verb = "terminate"
          /\ Required(q.call.verb) \subseteq q.found
      BY <2>1, ActingFacts
    <2>3. QED
      BY <2>2, RequiredRunId
  <1>3. \/ Become(r, Replied(q, "internal_error"))
        \/ \E p \in get_unit_dpath_by_pid(q.runid) : Become(r, n(p))
    BY Zenon DEF ActTerminate
  <1>4. ASSUME NEW p \in get_unit_dpath_by_pid(q.runid), Become(r, n(p))  PROVE RequestsInv'
    <2>1. Keeps(n(p), q) /\ n(p).pc = "stop" /\ n(p).runid = q.runid /\ n(p).path = p
      BY Shape, Zenon DEF Keeps, Fields
    <2>2. p \in Paths /\ sd[p].pid = q.runid
      BY <1>4 DEF get_unit_dpath_by_pid
    <2>3. ASSUME "RunId" \notin Extract(q.call).found
          PROVE  Led(q, p, owned)
      <3>1. Owner(q, owned)
        BY <1>2, <2>3 DEF RequestsInv, RequestInv, Stopped
      <3>2. PICK o \in PathsOf(q.id, q.uid) \cap Paths : q.runid \in owned[o]
        BY <3>1 DEF Owner
      <3>3. q.runid \in Pids
        BY <3>2 DEF SystemdInv, SystemdTypeOK
      <3>4. q.runid \in owned[p]
        BY <2>2, <3>3, PidsAssumption DEF SystemdInv
      <3>5. QED
        BY <2>2, <3>2, <3>4 DEF Led
    <2> HIDE DEF n
    <2>4. QED
      BY <1>1, <1>2, <1>4, <2>1, <2>2, <2>3, ActStep DEF ActPlaces
  <1>5. QED
    BY <1>1, <1>2, <1>3, <1>4, ReplyStep

LEMMA StopUnitInv ==
    ASSUME SystemdInv, RequestsInv, NEW r \in Requests, StopUnit(r)
    PROVE  RequestsInv' /\ SystemdInv'
  <1> DEFINE q == rq[r]
             s == stopped[r] \cup {q.path}
             n == Replied(q, "ok")
  <1>1. granted' = granted /\ q.pc = "stop"
    BY DEF StopUnit
  <1>2. \/ Become(r, Replied(q, "internal_error")) /\ UNCHANGED <<systemdVars, stopped>>
        \/ unit_stop(q.path) /\ Become(r, n) /\ stopped' = [stopped EXCEPT ![r] = s]
    BY Zenon DEF StopUnit
  <1>3. CASE Become(r, Replied(q, "internal_error")) /\ UNCHANGED <<systemdVars, stopped>>
    <2>1. owned' = owned /\ sd' = sd /\ stopped' = stopped
      BY <1>3 DEF systemdVars
    <2>2. RequestsInv'
      BY <1>1, <1>3, <2>1, ReplyStep DEF ActPlaces
    <2>3. QED
      BY <2>1, <2>2 DEF SystemdInv, SystemdTypeOK
  <1>4. CASE unit_stop(q.path) /\ Become(r, n) /\ stopped' = [stopped EXCEPT ![r] = s]
    <2>1. RequestInv(q, granted[r], stopped[r], owned)
      BY DEF RequestsInv
    <2>2. q.path \in Paths
      BY <1>1, <2>1 DEF RequestInv, Stopped
    <2>3. SystemdInv' /\ owned' = owned
      BY <1>4, <2>2, JobInv
    <2>4. /\ stopped[r] = {} /\ s = {q.path}
          /\ "RunId" \notin Extract(q.call).found => Led(q, q.path, owned)
      BY <1>1, <2>1 DEF RequestInv, Stopped
    <2>5. RequestInv(n, granted[r], s, owned)
      <3>1. RequestInv(n, granted[r], stopped[r], owned)
        BY <1>1, <2>1, ReplyInv DEF ActPlaces
      <3>2. Keeps(n, q) /\ n.pc = "replied" /\ n.runid = q.runid
        BY <2>1, RepliedFields DEF RequestInv
      <3> HIDE DEF n, s
      <3>3. "RunId" \notin Extract(n.call).found => \A p \in s : Led(n, p, owned)
        BY <2>4, <3>2 DEF Led, Keeps
      <3>4. Stopped(n, s, owned)
        BY <3>1, <3>2, <3>3 DEF RequestInv, Stopped
      <3>5. QED
        BY <3>1, <3>4 DEF RequestInv
    <2>6. /\ DOMAIN rq' = Requests /\ rq'[r] = n
          /\ \A o \in Requests : o # r => rq'[o] = rq[o]
      BY <1>4, BecomeFields DEF RequestsInv
    <2>7. /\ DOMAIN stopped' = Requests /\ stopped'[r] = s
          /\ \A o \in Requests : o # r => stopped'[o] = stopped[o]
      BY <1>4, Zenon DEF RequestsInv
    <2> HIDE DEF n, s
    <2>8. ASSUME NEW o \in Requests
          PROVE  RequestInv(rq'[o], granted'[o], stopped'[o], owned')
      <3>1. CASE o = r
        BY <1>1, <2>3, <2>5, <2>6, <2>7, <3>1
      <3>2. CASE o # r
        BY <1>1, <2>3, <2>6, <2>7, <3>2 DEF RequestsInv
      <3>3. QED
        BY <3>1, <3>2
    <2>9. QED
      BY <1>1, <2>3, <2>6, <2>7, <2>8 DEF RequestsInv
  <1>5. QED
    BY <1>2, <1>3, <1>4

LEMMA ActRunnersInv ==
    ASSUME RequestsInv, NEW r \in Requests, ActRunners(r)  PROVE RequestsInv'
  <1> DEFINE q == rq[r]
             n == [q EXCEPT !.pc = "list", !.apps = Applications("All" \in q.found)]
  <1>1. granted' = granted /\ stopped' = stopped /\ owned' = owned
    BY DEF ActRunners, systemdVars
  <1>2. q.pc = "final" /\ q.status = "ok"
    BY ActingFacts DEF ActRunners
  <1>3. Become(r, n)
    BY Zenon DEF ActRunners
  <1>4. Keeps(n, q) /\ n.pc = "list" /\ n.runid = q.runid
    BY Shape, Zenon DEF Keeps, Fields
  <1> HIDE DEF n
  <1>5. QED
    BY <1>1, <1>2, <1>3, <1>4, ActStep DEF ActPlaces

LEMMA ListPidInv ==
    ASSUME RequestsInv, NEW r \in Requests, ListPid(r)  PROVE RequestsInv'
  <1> DEFINE q == rq[r]
             n(p) == [q EXCEPT !.pc = "liststate", !.path = p]
             m == [q EXCEPT !.apps = Tail(@)]
  <1>1. granted' = granted /\ stopped' = stopped /\ owned' = owned /\ q.pc = "list"
    BY DEF ListPid, systemdVars
  <1>2. Become(r, Replied(q, "ok")) \/ Become(r, m) \/ \E p : Become(r, n(p))
    BY Zenon DEF ListPid
  <1>3. CASE Become(r, m)
    <2>1. Keeps(m, q) /\ m.pc = q.pc /\ m.runid = q.runid
      BY Shape, Zenon DEF Keeps, Fields
    <2> HIDE DEF m
    <2>2. QED
      BY <1>1, <1>3, <2>1, ActStep DEF ActPlaces
  <1>4. ASSUME NEW p, Become(r, n(p))  PROVE RequestsInv'
    <2>1. Keeps(n(p), q) /\ n(p).pc = "liststate" /\ n(p).runid = q.runid
      BY Shape, Zenon DEF Keeps, Fields
    <2> HIDE DEF n
    <2>2. QED
      BY <1>1, <1>4, <2>1, ActStep DEF ActPlaces
  <1>5. CASE Become(r, Replied(q, "ok"))
    BY <1>1, <1>5, ReplyStep DEF ActPlaces
  <1>6. QED
    BY <1>2, <1>3, <1>4, <1>5

LEMMA ListStateInv ==
    ASSUME RequestsInv, NEW r \in Requests, ListState(r)  PROVE RequestsInv'
  <1> DEFINE q == rq[r]
             m == [q EXCEPT !.pc = "list", !.apps = Tail(@)]
             n == [m EXCEPT !.told = @ \cup {Head(q.apps).unit}]
  <1>1. granted' = granted /\ stopped' = stopped /\ owned' = owned /\ q.pc = "liststate"
    BY DEF ListState, systemdVars
  <1>2. Become(r, m) \/ Become(r, n)
    BY Zenon DEF ListState
  <1>3. Keeps(m, q) /\ m.pc = "list" /\ m.runid = q.runid
    BY Shape, Zenon DEF Keeps, Fields
  <1> HIDE DEF m
  <1>4. n.pc = m.pc /\ n.runid = m.runid /\ Keeps(n, m)
    BY <1>3, Zenon DEF Keeps, Fields
  <1> HIDE DEF n
  <1>5. Keeps(n, q)
    BY <1>3, <1>4 DEF Keeps
  <1>6. QED
    BY <1>1, <1>2, <1>3, <1>4, <1>5, ActStep DEF ActPlaces

----------------------------------------------------------------------------
(* The checks that come before the action. *)

\* The pid found by the search of an id is one of the application asked.
LEMMA SearchAsked ==
    ASSUME UdbInv, SystemdInv, NEW id, NEW uid, NEW u \in Named(id), NEW p \in Paths \cup {None},
           NEW sts, NEW pid, GetBasis(u, uid, p), SearchRunid(p, sts, pid), pid # 0
    PROVE  \E o \in PathsOf(id, uid) \cap Paths : pid \in owned[o]
  <1>1. p # None /\ pid = unit_pid(p)
    BY DEF SearchRunid
  <1>2. p \in Paths /\ p \in PathsOf(id, uid)
    BY <1>1, BasisAsked
  <1>3. pid \in owned[p]
    BY <1>1, <1>2 DEF SystemdInv, unit_pid
  <1>4. QED
    BY <1>2, <1>3

\* check_runid sets the status, and the runid of a request that gave an id.
LEMMA SearchedInv ==
    ASSUME NEW q, NEW g, NEW s, NEW own, RequestInv(q, g, s, own), NEW n, NEW sts, NEW pid,
           q.pc = "runid", q.status = "ok", "RunId" \in Required(q.call.verb), "RunId" \notin q.found,
           sts \in {"ok", "not_found", "not_running"},
           n = [q EXCEPT !.pc = "final", !.status = sts, !.runid = pid,
                         !.found = IF pid = 0 THEN @ ELSE @ \cup {"RunId"}],
           pid # 0 => \E o \in PathsOf(q.id, q.uid) \cap Paths : pid \in own[o]
    PROVE  RequestInv(n, g, s, own)
  <1>1. /\ DOMAIN n = Fields /\ n.pc = "final" /\ n.status = sts /\ n.runid = pid
        /\ n.call = q.call /\ n.uid = q.uid /\ n.id = q.id
        /\ n.path = q.path /\ n.reply = q.reply
    <2>1. DOMAIN q = Fields
      BY DEF RequestInv
    <2>2. QED
      BY <2>1, Zenon DEF Fields
  <1>2. n.found = IF pid = 0 THEN q.found ELSE q.found \cup {"RunId"}
    <2>1. DOMAIN q = Fields
      BY DEF RequestInv
    <2>2. QED
      BY <2>1, Zenon DEF Fields
  <1>3. q.call.verb \notin {"start", "once"}
    BY RequiredRunId
  <1>4. "All" \in n.found <=> "All" \in q.found
    BY <1>2
  <1>5. "RunId" \in n.found => pid # 0
    BY <1>2
  <1>6. Permitted(n, g)
    BY <1>1, <1>4 DEF RequestInv, Permitted, Checked, ActPlaces
  <1>7. Started(n, own)
    BY <1>1, <1>3 DEF Started
  <1>8. Stopped(n, s, own)
    BY <1>1, <1>5 DEF RequestInv, Stopped, Owner, Led
  <1>9. QED
    BY <1>1, <1>6, <1>7, <1>8 DEF RequestInv, Places

LEMMA CheckRunidInv ==
    ASSUME UdbInv, SystemdInv, RequestsInv, NEW r \in Requests, CheckRunid(r)  PROVE RequestsInv'
  <1> DEFINE q == rq[r]
             search == /\ q.status = "ok" /\ "RunId" \in Required(q.call.verb)
                       /\ q.found \cap {"RunId", "Id"} = {"Id"}
             m == [q EXCEPT !.pc = "final"]
             n(sts, pid) == [q EXCEPT !.pc = "final", !.status = sts, !.runid = pid,
                                         !.found = IF pid = 0 THEN @ ELSE @ \cup {"RunId"}]
  <1>1. granted' = granted /\ stopped' = stopped /\ owned' = owned /\ q.pc = "runid"
    BY DEF CheckRunid, systemdVars
  <1>2. RequestInv(q, granted[r], stopped[r], owned)
    BY DEF RequestsInv
  <1>3. \/ Become(r, m)
        \/ search /\ Become(r, n("not_found", 0))
        \/ /\ search
           /\ \E u \in Named(q.id), p \in Paths \cup {None},
                 sts \in {"ok", "not_found", "not_running"}, pid \in Pids \cup {0} :
                 /\ GetBasis(u, q.uid, p)
                 /\ SearchRunid(p, sts, pid)
                 /\ Become(r, n(sts, pid))
    BY Zenon DEF CheckRunid
  <1>4. CASE Become(r, m)
    <2>1. /\ Keeps(m, q) /\ m.pc = "final" /\ m.runid = q.runid
          /\ m.path = q.path /\ m.reply = q.reply
      BY Shape, Zenon DEF Keeps, Fields
    <2> HIDE DEF m
    <2>2. RequestInv(m, granted[r], stopped[r], owned)
      BY <1>1, <1>2, <2>1
         DEF RequestInv, Permitted, Checked, Started, Stopped, Owner, Led, Keeps, Places, ActPlaces
    <2>3. QED
      BY <1>1, <1>4, <2>2, StepInv
  <1>5. ASSUME search, NEW sts \in {"ok", "not_found", "not_running"}, NEW pid,
               pid # 0 => \E o \in PathsOf(q.id, q.uid) \cap Paths : pid \in owned[o],
               Become(r, n(sts, pid))
        PROVE  RequestsInv'
    <2>1. q.status = "ok" /\ "RunId" \in Required(q.call.verb) /\ "RunId" \notin q.found
      BY <1>5
    <2>2. RequestInv(n(sts, pid), granted[r], stopped[r], owned)
      BY <1>1, <1>2, <1>5, <2>1, SearchedInv, Zenon
    <2> HIDE DEF n
    <2>3. QED
      BY <1>1, <1>5, <2>2, StepInv
  <1>6. CASE search /\ Become(r, n("not_found", 0))
    <2> HIDE DEF n
    <2>1. QED
      BY <1>5, <1>6
  <1>7. ASSUME search, NEW u \in Named(q.id), NEW p \in Paths \cup {None},
               NEW sts \in {"ok", "not_found", "not_running"}, NEW pid \in Pids \cup {0},
               GetBasis(u, q.uid, p), SearchRunid(p, sts, pid), Become(r, n(sts, pid))
        PROVE  RequestsInv'
    <2>1. pid # 0 => \E o \in PathsOf(q.id, q.uid) \cap Paths : pid \in owned[o]
      BY <1>7, SearchAsked
    <2> HIDE DEF n, search
    <2>2. QED
      BY <1>5, <1>7, <2>1
  <1> HIDE DEF n, m, search
  <1>8. QED
    BY <1>3, <1>4, <1>6, <1>7

LEMMA FirstInv ==
    ASSUME NEW call, NEW g, NEW own, NEW n,
           n = [Extract(call) EXCEPT !.pc = AfterParams(Extract(call))]
    PROVE  RequestInv(n, g, {}, own)
  <1> DEFINE q == Extract(call)
  <1>1. /\ DOMAIN q = Fields /\ q.call = call /\ q.path = None /\ q.reply = None
        /\ q.status \in {"ok", "bad_request"}
        /\ q.uid # call.client => "UID" \in q.found
        /\ call.verb \in {"start", "once"} => q.runid = 0
    BY ExtractFields
  <1>2. n.found = Extract(n.call).found
    <2>1. n.found = q.found /\ n.call = q.call
      BY <1>1, Zenon DEF Fields
    <2>2. QED
      BY <1>1, <2>1
  <1> HIDE DEF q
  <1>3. /\ n.pc = AfterParams(q) /\ n.reply = None /\ n.path = None /\ n.runid = q.runid
        /\ Keeps(n, q)
    BY <1>1, Zenon DEF Fields, Keeps, q
  <1>4. /\ AfterParams(q) \in {"uid", "all", "runid"}
        /\ AfterParams(q) \in {"uid", "all"} => q.status = "ok"
        /\ AfterParams(q) = "all" => "UID" \notin q.found
        /\ AfterParams(q) = "runid" /\ q.status = "ok" => "UID" \notin q.found /\ "All" \notin q.found
    BY DEF AfterParams, AfterUid
  <1>5. Permitted(n, g)
    BY <1>1, <1>3, <1>4 DEF Permitted, Checked, Keeps, ActPlaces
  <1>6. Started(n, own)
    BY <1>1, <1>3, <1>4 DEF Started, Keeps
  <1>7. Stopped(n, {}, own)
    BY <1>2, <1>3, <1>4 DEF Stopped
  <1>8. QED
    BY <1>3, <1>4, <1>5, <1>6, <1>7 DEF RequestInv, Keeps, Places

LEMMA NoMemoryInv ==
    ASSUME NEW call, NEW g, NEW own
    PROVE  RequestInv(Replied([NoRequest EXCEPT !.call = call], "out_of_memory"), g, {}, own)
  <1> DEFINE q == [NoRequest EXCEPT !.call = call]
             n == Replied(q, "out_of_memory")
  <1>1. DOMAIN q = Fields /\ q.call = call /\ q.path = None /\ q.runid = 0 /\ q.found = {} /\ q.status = "ok"
    BY UnbornFields, Zenon DEF Fields
  <1> HIDE DEF q
  <1>2. /\ Keeps(n, q) /\ n.pc = "replied" /\ n.reply = "out_of_memory"
        /\ n.runid = q.runid /\ n.path = q.path
    BY <1>1, RepliedFields
  <1> HIDE DEF n
  <1>3. Permitted(n, g)
    BY <1>1, <1>2 DEF Permitted, Keeps, ActPlaces
  <1>4. Started(n, own) /\ Stopped(n, {}, own)
    BY <1>1, <1>2 DEF Started, Stopped, Keeps
  <1>5. RequestInv(n, g, {}, own)
    BY <1>2, <1>3, <1>4 DEF RequestInv, Keeps, Places
  <1>6. QED
    BY <1>5, Zenon DEF n, q

LEMMA ArriveInv ==
    ASSUME RequestsInv, NEW r \in Requests, Arrive(r)  PROVE RequestsInv'
  <1>1. granted' = granted /\ stopped' = stopped /\ owned' = owned /\ rq[r].pc = "unborn"
    BY DEF Arrive, systemdVars
  <1>2. stopped[r] = {}
    BY <1>1 DEF RequestsInv, RequestInv, Stopped
  <1>3. PICK call :
            \/ Become(r, [Extract(call) EXCEPT !.pc = AfterParams(Extract(call))])
            \/ Become(r, Replied([NoRequest EXCEPT !.call = call], "out_of_memory"))
    BY Zenon DEF Arrive
  <1>4. \E n : Become(r, n) /\ RequestInv(n, granted[r], {}, owned)
    BY <1>3, FirstInv, NoMemoryInv, Zenon
  <1>5. QED
    BY <1>1, <1>2, <1>4, StepInv

\* has_auth_cb, then the check that follows.
Answered(q, sts) ==
    LET m == [q EXCEPT !.status = sts]
    IN  [m EXCEPT !.pc = IF @ = "uid" THEN AfterUid(m) ELSE "runid"]

\* A refusal stays in the status; a grant is kept with the request.
LEMMA AnsweredInv ==
    ASSUME NEW q, NEW g, NEW s, NEW own, RequestInv(q, g, s, own), NEW sts, NEW h,
           q.pc \in {"uid", "all"}, sts # "running",
           sts = "ok" => q.pc \in h, g \subseteq h
    PROVE  RequestInv(Answered(q, sts), h, s, own)
  <1> DEFINE m == [q EXCEPT !.status = sts]
             n == Answered(q, sts)
  <1>0. DOMAIN q = Fields
    BY DEF RequestInv
  <1>1. /\ DOMAIN m = Fields /\ m.status = sts /\ m.pc = q.pc /\ m.call = q.call
        /\ m.found = q.found /\ m.uid = q.uid /\ m.id = q.id /\ m.runid = q.runid
        /\ m.path = q.path /\ m.reply = q.reply
    BY <1>0, Zenon DEF Fields
  <1>10. n = [m EXCEPT !.pc = IF @ = "uid" THEN AfterUid(m) ELSE "runid"]
    BY Zenon DEF Answered
  <1> HIDE DEF m, n
  <1>2. /\ Keeps(n, m) /\ n.runid = m.runid /\ n.path = m.path /\ n.reply = m.reply
    BY <1>1, <1>10, Zenon DEF Keeps, Fields
  <1>3. n.pc = IF m.pc = "uid" THEN AfterUid(m) ELSE "runid"
    BY <1>1, <1>10, Zenon DEF Fields
  <1>4. /\ n.pc \in {"all", "runid"}
        /\ n.pc = "all" => q.pc = "uid" /\ sts = "ok"
        /\ n.pc = "runid" /\ q.pc = "uid" /\ sts = "ok" => "All" \notin q.found
    BY <1>1, <1>3 DEF AfterUid
  <1>5. q.path = None /\ q.reply = None /\ (q.pc = "all" => (q.uid # q.call.client => "uid" \in g))
    BY DEF RequestInv, Permitted
  <1>6. Permitted(n, h)
    BY <1>1, <1>2, <1>4, <1>5 DEF Permitted, Checked, Keeps, ActPlaces
  <1>7. Started(n, own)
    BY <1>1, <1>2, <1>4 DEF RequestInv, Started, Owner, Keeps
  <1>8. Stopped(n, s, own)
    BY <1>1, <1>2, <1>4 DEF RequestInv, Stopped, Owner, Keeps
  <1>9. QED
    BY <1>2, <1>4, <1>6, <1>7, <1>8 DEF RequestInv, Keeps, Places, n

LEMMA AuthStatusIs ==
    ASSUME NEW q, NEW answer \in {"granted", "denied", "nomem"}, q.status # "running"
    PROVE  /\ AuthStatus(q, answer) # "running"
           /\ AuthStatus(q, answer) = "ok" => answer = "granted"
  BY Zenon DEF AuthStatus

LEMMA AuthAnswerInv ==
    ASSUME RequestsInv, NEW r \in Requests, AuthAnswer(r)  PROVE RequestsInv'
  <1> DEFINE q == rq[r]
             h(answer) == IF answer = "granted" THEN granted[r] \cup {q.pc} ELSE granted[r]
  <1>1. stopped' = stopped /\ owned' = owned /\ q.pc \in {"uid", "all"}
    BY DEF AuthAnswer, systemdVars, Asking
  <1>2. RequestInv(q, granted[r], stopped[r], owned) /\ q.status # "running"
    BY DEF RequestsInv, RequestInv, Permitted
  <1>3. PICK answer \in {"granted", "denied", "nomem"} :
            /\ Become(r, Answered(q, AuthStatus(q, answer)))
            /\ granted' = [granted EXCEPT ![r] = h(answer)]
    BY Zenon DEF AuthAnswer, Answered
  <1> DEFINE sts == AuthStatus(q, answer)
  <1>4. sts # "running" /\ (sts = "ok" => answer = "granted")
    BY <1>2, AuthStatusIs
  <1>5. (sts = "ok" => q.pc \in h(answer)) /\ granted[r] \subseteq h(answer)
    BY <1>4
  <1>6. /\ DOMAIN granted' = Requests /\ granted'[r] = h(answer)
        /\ \A o \in Requests : o # r => granted'[o] = granted[o]
    BY <1>3, Zenon DEF RequestsInv
  <1> HIDE DEF sts, h
  <1>7. RequestInv(Answered(q, sts), h(answer), stopped[r], owned)
    BY <1>1, <1>2, <1>4, <1>5, AnsweredInv
  <1>8. /\ DOMAIN rq' = Requests /\ rq'[r] = Answered(q, sts)
        /\ \A o \in Requests : o # r => rq'[o] = rq[o]
    BY <1>3, BecomeFields DEF RequestsInv, sts
  <1>9. ASSUME NEW o \in Requests
        PROVE  RequestInv(rq'[o], granted'[o], stopped'[o], owned')
    <2>1. CASE o = r
      BY <1>1, <1>6, <1>7, <1>8, <2>1
    <2>2. CASE o # r
      BY <1>1, <1>6, <1>8, <2>2 DEF RequestsInv
    <2>3. QED
      BY <2>1, <2>2
  <1>10. QED
    BY <1>1, <1>6, <1>8, <1>9 DEF RequestsInv

\* The end of an update changes no more than the mark of the lists being visited.
LEMMA ReloadInv ==
    ASSUME RequestsInv, Reload  PROVE RequestsInv'
  <1>1. granted' = granted /\ stopped' = stopped /\ owned' = owned
    BY DEF Reload, systemdVars
  <1>2. rq' = [r \in Requests |-> [rq[r] EXCEPT !.old = rq[r].pc \in {"list", "liststate"}]]
    BY DEF Reload
  <1>3. DOMAIN rq' = Requests
    BY <1>2, Zenon
  <1>4. ASSUME NEW r \in Requests
        PROVE  RequestInv(rq'[r], granted[r], stopped[r], owned)
    <2> DEFINE q == rq[r]
               n == rq'[r]
    <2>1. n = [q EXCEPT !.old = q.pc \in {"list", "liststate"}]
      BY <1>2, Zenon
    <2>2. DOMAIN q = Fields
      BY Shape
    <2> HIDE DEF q, n
    <2>3. Keeps(n, q) /\ n.pc = q.pc /\ n.reply = q.reply /\ n.runid = q.runid /\ n.path = q.path
      BY <2>1, <2>2, Zenon DEF Keeps, Fields
    <2>4. RequestInv(q, granted[r], stopped[r], owned)
      BY DEF RequestsInv, q
    <2>5. RequestInv(n, granted[r], stopped[r], owned)
      BY <2>3, <2>4, SameInv
    <2>6. QED
      BY <2>5 DEF n
  <1>5. QED
    BY <1>1, <1>3, <1>4 DEF RequestsInv

----------------------------------------------------------------------------
(* The inductive invariant. *)

LEMMA InitInv == Init => IInv
  <1> SUFFICES ASSUME Init  PROVE IInv
    OBVIOUS
  <1>1. UdbInv /\ SystemdInv
    BY UdbInitInv, SystemdInitInv DEF Init
  <1>2. DOMAIN rq = Requests /\ DOMAIN granted = Requests /\ DOMAIN stopped = Requests
    BY Zenon DEF Init
  <1>3. \A r \in Requests : rq[r] = NoRequest /\ granted[r] = {} /\ stopped[r] = {}
    BY Zenon DEF Init
  <1>4. RequestInv(NoRequest, {}, {}, owned)
    <2>1. Permitted(NoRequest, {})
      BY UnbornFields DEF Permitted, ActPlaces
    <2>2. Started(NoRequest, owned) /\ Stopped(NoRequest, {}, owned)
      BY UnbornFields DEF Started, Stopped
    <2>3. QED
      BY <2>1, <2>2, UnbornFields DEF RequestInv, Places
  <1>5. RequestsInv
    BY <1>2, <1>3, <1>4 DEF RequestsInv
  <1>6. QED
    BY <1>1, <1>5 DEF IInv

LEMMA SameUdb == UdbInv /\ UNCHANGED udbVars => UdbInv'
  BY UdbNextInv

LEMMA SameSystemd == SystemdInv /\ UNCHANGED systemdVars => SystemdInv'
  BY DEF systemdVars, SystemdInv, SystemdTypeOK

LEMMA HandleInv ==
    ASSUME IInv, NEW r \in Requests, Arrive(r) \/ Handle(r)
    PROVE  IInv'
  <1>1. UdbInv /\ SystemdInv /\ RequestsInv
    BY DEF IInv
  <1>2. UNCHANGED udbVars
    BY DEF Handle, Arrive, AuthAnswer, CheckRunid, FinalError, ActPause, ActQuery, ActStart,
           WaitStable, StartedPid, FindRunid, FindPid, FindState, ActTerminate, StopUnit,
           ActRunners, ListPid, ListState
  <1>3. UdbInv'
    BY <1>1, <1>2, SameUdb
  <1>4. CASE ActStart(r)
    BY <1>1, <1>3, <1>4, ActStartInv DEF IInv
  <1>5. CASE StopUnit(r)
    BY <1>1, <1>3, <1>5, StopUnitInv DEF IInv
  <1>6. CASE ~ActStart(r) /\ ~StopUnit(r)
    <2>1. UNCHANGED systemdVars
      BY <1>6 DEF Handle, Arrive, AuthAnswer, CheckRunid, FinalError, ActPause, ActQuery,
             WaitStable, StartedPid, FindRunid, FindPid, FindState, ActTerminate,
             ActRunners, ListPid, ListState
    <2>2. SystemdInv'
      BY <1>1, <2>1, SameSystemd
    <2>3. RequestsInv'
      BY <1>1, <1>6, ArriveInv, AuthAnswerInv, CheckRunidInv, FinalErrorInv, ActPauseInv,
         ActQueryInv, WaitStableInv, StartedPidInv, FindRunidInv, FindPidInv, FindStateInv,
         ActTerminateInv, ActRunnersInv, ListPidInv, ListStateInv DEF Handle
    <2>4. QED
      BY <1>3, <2>2, <2>3 DEF IInv
  <1>7. QED
    BY <1>4, <1>5, <1>6

LEMMA NextInv == IInv /\ [Next]_vars => IInv'
  <1> SUFFICES ASSUME IInv, [Next]_vars  PROVE IInv'
    OBVIOUS
  <1>1. UdbInv /\ SystemdInv /\ RequestsInv
    BY DEF IInv
  <1>2. ASSUME NEW r \in Requests, Arrive(r) \/ Handle(r)  PROVE IInv'
    BY <1>2, HandleInv
  <1>3. CASE Database
    <2>1. UdbInv'
      BY <1>1, <1>3, UdbNextInv DEF Database, UdbNext
    <2>2. UNCHANGED systemdVars /\ UNCHANGED bindingVars
      BY <1>3 DEF Database
    <2>3. RequestsInv'
      BY <1>1, <2>2 DEF RequestsInv, systemdVars, bindingVars
    <2>4. QED
      BY <1>1, <2>1, <2>2, <2>3, SameSystemd DEF IInv
  <1>4. CASE Reload
    <2>1. UdbInv'
      BY <1>1, <1>4, UdbNextInv DEF Reload, UdbNext
    <2>2. SystemdInv'
      BY <1>1, <1>4, SameSystemd DEF Reload
    <2>3. QED
      BY <1>1, <1>4, <2>1, <2>2, ReloadInv DEF IInv
  <1>5. CASE Units
    <2>1. UdbInv'
      BY <1>1, <1>5, SameUdb DEF Units
    <2>2. SystemdInv' /\ \A p \in Paths : owned[p] \subseteq owned'[p]
      BY <1>1, <1>5, SystemdNextInv DEF Units
    <2>3. rq' = rq /\ granted' = granted /\ stopped' = stopped
      BY <1>5 DEF Units
    <2>4. RequestsInv'
      BY <1>1, <2>2, <2>3, MoreOwned DEF RequestsInv
    <2>5. QED
      BY <2>1, <2>2, <2>4 DEF IInv
  <1>6. CASE UNCHANGED vars
    <2>1. UNCHANGED udbVars /\ UNCHANGED systemdVars /\ UNCHANGED bindingVars
      BY <1>6 DEF vars
    <2>2. RequestsInv'
      BY <1>1, <2>1 DEF RequestsInv, systemdVars, bindingVars
    <2>3. QED
      BY <1>1, <2>1, <2>2, SameUdb, SameSystemd DEF IInv
  <1>7. QED
    BY <1>2, <1>3, <1>4, <1>5, <1>6 DEF Next

LEMMA Invariance == Spec => []IInv
  BY InitInv, NextInv, PTL DEF Spec

\* The handlers leave the database fresh, whatever they do while it is scanned.
THEOREM ServedFresh == Spec => []DatabaseFresh
  <1>1. IInv => DatabaseFresh
    BY DEF IInv, UdbInv
  <1>2. QED
    BY <1>1, Invariance, PTL

\* No request acts for another user, or on all the applications, without the
\* permission: for any requests, calls, answers and failures.
THEOREM PermissionCorrect == Spec => []ActsWithPermission
  <1>1. IInv => ActsWithPermission
    <2> SUFFICES ASSUME IInv, NEW r \in Requests,
                        rq[r].reply \in {"ok", "running"} \/ rq[r].path # None
                 PROVE  Checked(rq[r], granted[r])
      BY DEF ActsWithPermission, Checked
    <2>1. RequestInv(rq[r], granted[r], stopped[r], owned)
      BY DEF IInv, RequestsInv
    <2>2. QED
      BY <2>1, BindingAssumption DEF RequestInv, Permitted, Places, ActPlaces
  <1>2. QED
    BY <1>1, Invariance, PTL

\* The runid told for a start is a pid that the application asked had for the
\* user asked.
THEOREM RunidCorrect == Spec => []RunidOfTheAsked
  <1>1. IInv => RunidOfTheAsked
    <2> SUFFICES ASSUME IInv, NEW r \in Requests, rq[r].call # None,
                        rq[r].call.verb \in {"start", "once"}, rq[r].runid # 0
                 PROVE  \E p \in PathsOf(rq[r].id, rq[r].uid) : rq[r].runid \in owned[p]
      BY DEF RunidOfTheAsked
    <2>1. RequestInv(rq[r], granted[r], stopped[r], owned)
      BY DEF IInv, RequestsInv
    <2>2. rq[r].pc # "unborn"
      BY <2>1 DEF RequestInv, Stopped
    <2>3. QED
      BY <2>1, <2>2 DEF RequestInv, Started, Owner
  <1>2. QED
    BY <1>1, Invariance, PTL

\* The runid that a request tells belonged to the application it asked for, and what it
\* stops is that application, unless it has had the very pid of the application asked: for
\* any requests, databases, failures of the bus and order in which pids are given again.
THEOREM AskedCorrect == Spec => []ActsOnTheAsked
  <1>1. IInv => StopsTheAsked
    <2> SUFFICES ASSUME IInv, NEW r \in Requests, rq[r].call # None,
                        "RunId" \notin Extract(rq[r].call).found, NEW p \in stopped[r]
                 PROVE  p \in PathsOf(rq[r].id, rq[r].uid) \/ SamePid(r, p)
      BY DEF StopsTheAsked, ById
    <2>1. RequestInv(rq[r], granted[r], stopped[r], owned)
      BY DEF IInv, RequestsInv
    <2>2. Led(rq[r], p, owned)
      BY <2>1 DEF RequestInv, Stopped
    <2>3. QED
      BY <2>2 DEF Led, SamePid
  <1>2. QED
    BY <1>1, Invariance, RunidCorrect, PTL DEF ActsOnTheAsked

----------------------------------------------------------------------------
(* Authorization expressions.  Truth and Room are recursive functions: that    *)
(* they satisfy their equations is proved first, by building them one height   *)
(* of expressions after the other.                                             *)

LEMMA LeastNumber ==
    ASSUME NEW T \in SUBSET Nat, T # {}
    PROVE  \E n \in T : \A k \in T : n <= k
  <1>1. IsWellFoundedOn(OpToRel(<, Nat), Nat)
    BY NatLessThanWellFounded
  <1>2. PICK n \in T : \A k \in T : ~(<<k, n>> \in OpToRel(<, Nat))
    BY <1>1, WFMin
  <1>3. \A k \in T : ~(k < n)
    BY <1>2 DEF OpToRel
  <1>4. QED
    BY <1>3

\* A set of numbers that holds each number once it holds the smaller ones.
LEMMA EveryNumber ==
    ASSUME NEW T \in SUBSET Nat, \A n \in Nat : (\A k \in Nat : k < n => k \in T) => n \in T
    PROVE  T = Nat
  <1>1. SUFFICES ASSUME Nat \ T # {}  PROVE FALSE
    OBVIOUS
  <1>2. PICK n \in Nat \ T : \A k \in Nat \ T : n <= k
    BY <1>1, LeastNumber
  <1>3. QED
    BY <1>2

\* The bodies of the two functions.
TruthBody(f, g, a) ==
    CASE a.type = "Or" -> f[a.first] \/ f[a.next]
      [] a.type = "And" -> f[a.first] /\ f[a.next]
      [] a.type = "Not" -> ~f[a.first]
      [] a.type = "Permission" -> g[a.text] > 0
      [] OTHER -> a.type = "Yes"

RoomBody(f, a) ==
    CASE a.type = "Not" -> 1 + f[a.first]
      [] a.type \in {"Or", "And"} ->
            IF 1 + f[a.first] > f[a.next] THEN 1 + f[a.first] ELSE f[a.next]
      [] OTHER -> 1

\* Both only look at the parts of an expression.
LEMMA BodiesLocal ==
    ASSUME NEW f, NEW h, NEW g, NEW a \in Auths,
           a.type \in Operators => f[a.first] = h[a.first],
           a.type \in {"Or", "And"} => f[a.next] = h[a.next]
    PROVE  TruthBody(f, g, a) = TruthBody(h, g, a) /\ RoomBody(f, a) = RoomBody(h, a)
  <1>1. CASE a.type = "Or"
    BY <1>1 DEF TruthBody, RoomBody, Operators
  <1>2. CASE a.type = "And"
    BY <1>2 DEF TruthBody, RoomBody, Operators
  <1>3. CASE a.type = "Not"
    BY <1>3 DEF TruthBody, RoomBody, Operators
  <1>4. CASE a.type \notin Operators
    BY <1>4 DEF TruthBody, RoomBody, Operators
  <1>5. QED
    BY <1>1, <1>2, <1>3, <1>4 DEF Operators

\* phi computes the value of an expression from the values of the lower ones.
Lower(a) == {b \in Auths : Height[b] < Height[a]}
Below(n) == {a \in Auths : Height[a] < n}
Computes(phi, V) ==
    /\ V # {} /\ phi \in [[Auths -> V] \X Auths -> V]
    /\ \A f, h \in [Auths -> V] : \A a \in Auths :
          (\A b \in Lower(a) : f[b] = h[b]) => phi[<<f, a>>] = phi[<<h, a>>]
Solves(f, phi, V, n) == f \in [Auths -> V] /\ \A a \in Below(n) : f[a] = phi[<<f, a>>]

\* Two solutions are equal as far as both go.
LEMMA SolutionsAgree ==
    ASSUME NEW V, NEW phi, Computes(phi, V), NEW n \in Nat, NEW m \in Nat,
           NEW f, Solves(f, phi, V, n), NEW h, Solves(h, phi, V, m),
           NEW a \in Auths, Height[a] < n, Height[a] < m
    PROVE  f[a] = h[a]
  <1> DEFINE T == {k \in Nat : \A b \in Auths : Height[b] = k /\ k < n /\ k < m => f[b] = h[b]}
  <1>1. T \in SUBSET Nat
    OBVIOUS
  <1>2. ASSUME NEW k \in Nat, \A j \in Nat : j < k => j \in T  PROVE k \in T
    <2>1. SUFFICES ASSUME NEW b \in Auths, Height[b] = k, k < n, k < m  PROVE f[b] = h[b]
      OBVIOUS
    <2>2. \A c \in Lower(b) : f[c] = h[c]
      <3>1. SUFFICES ASSUME NEW c \in Lower(b)  PROVE f[c] = h[c]
        OBVIOUS
      <3>2. c \in Auths /\ Height[c] \in Nat /\ Height[c] < k
        BY <2>1, AuthAssumption DEF Lower
      <3>3. Height[c] \in T /\ Height[c] < n /\ Height[c] < m
        BY <1>2, <2>1, <3>2
      <3>4. QED  BY <3>2, <3>3
    <2>3. f[b] = phi[<<f, b>>] /\ h[b] = phi[<<h, b>>]
      BY <2>1 DEF Solves, Below
    <2>4. QED  BY <2>2, <2>3 DEF Computes, Solves
  <1>3. T = Nat
    <2> HIDE DEF T
    <2> QED  BY <1>1, <1>2, EveryNumber
  <1>4. Height[a] \in T
    BY <1>3, AuthAssumption
  <1>5. QED
    BY <1>4

\* There is a solution up to any height.
LEMMA SolutionUpTo ==
    ASSUME NEW V, NEW phi, Computes(phi, V), NEW n \in Nat
    PROVE  \E f : Solves(f, phi, V, n)
  <1> DEFINE T == {k \in Nat : \E f : Solves(f, phi, V, k)}
  <1>1. T \in SUBSET Nat
    OBVIOUS
  <1>2. ASSUME NEW k \in Nat, \A j \in Nat : j < k => j \in T  PROVE k \in T
    <2>1. CASE k = 0
      <3>1. PICK v \in V : TRUE
        BY DEF Computes
      <3>2. Below(0) = {}
        BY AuthAssumption DEF Below
      <3>3. Solves([a \in Auths |-> v], phi, V, 0)
        BY <3>2 DEF Solves
      <3>4. QED  BY <2>1, <3>3
    <2>2. CASE k # 0
      <3>1. k - 1 \in Nat /\ k - 1 < k
        BY <2>2
      <3>2. PICK f : Solves(f, phi, V, k - 1)
        BY <1>2, <3>1
      <3>3. PICK h : h = [a \in Auths |-> phi[<<f, a>>]]
        OBVIOUS
      <3>4. f \in [Auths -> V] /\ h \in [Auths -> V]
        BY <3>2, <3>3 DEF Solves, Computes
      <3>5. \A a \in Below(k - 1) : h[a] = f[a]
        BY <3>2, <3>3 DEF Solves, Below
      <3>6. \A a \in Below(k) : \A b \in Lower(a) : b \in Below(k - 1)
        BY AuthAssumption DEF Below, Lower
      <3>7. ASSUME NEW a \in Below(k)  PROVE h[a] = phi[<<h, a>>]
        <4>1. a \in Auths
          BY DEF Below
        <4>2. phi[<<f, a>>] = phi[<<h, a>>]
          BY <3>4, <3>5, <3>6, <4>1 DEF Computes
        <4>3. QED  BY <3>3, <4>1, <4>2
      <3>8. Solves(h, phi, V, k)
        BY <3>4, <3>7 DEF Solves
      <3>9. QED  BY <3>8
    <2>3. QED  BY <2>1, <2>2
  <1>3. T = Nat
    <2> HIDE DEF T
    <2> QED  BY <1>1, <1>2, EveryNumber
  <1>4. QED
    BY <1>3

\* The solution for all the expressions.
LEMMA SolutionExists ==
    ASSUME NEW V, NEW phi, Computes(phi, V)
    PROVE  \E f \in [Auths -> V] : \A a \in Auths : f[a] = phi[<<f, a>>]
  <1> DEFINE F(n) == CHOOSE f : Solves(f, phi, V, n)
  <1>1. \A n \in Nat : Solves(F(n), phi, V, n)
    BY SolutionUpTo
  <1> HIDE DEF F
  <1>2. PICK f : f = [a \in Auths |-> F(Height[a] + 1)[a]]
    OBVIOUS
  <1>3. \A a \in Auths : Height[a] \in Nat /\ Height[a] + 1 \in Nat /\ Height[a] < Height[a] + 1
    <2>1. Height \in [Auths -> Nat]
      BY AuthAssumption
    <2>2. QED  BY <2>1
  <1>4. f \in [Auths -> V]
    BY <1>1, <1>2, <1>3 DEF Solves
  <1>5. ASSUME NEW a \in Auths  PROVE f[a] = phi[<<f, a>>]
    <2>1. PICK n : n = Height[a] + 1
      OBVIOUS
    <2>2. n \in Nat /\ a \in Below(n)
      BY <1>3, <2>1 DEF Below
    <2>3. PICK h : h = F(n)
      OBVIOUS
    <2>4. Solves(h, phi, V, n)
      BY <1>1, <2>2, <2>3
    <2>5. f[a] = h[a] /\ h[a] = phi[<<h, a>>]
      BY <1>2, <2>1, <2>2, <2>3, <2>4 DEF Solves
    <2>6. ASSUME NEW b \in Lower(a)  PROVE f[b] = h[b]
      <3>1. b \in Auths /\ Height[b] < n /\ Height[b] < Height[b] + 1 /\ Height[b] + 1 \in Nat
        BY <1>3, <2>1 DEF Lower
      <3>2. PICK k : k = Height[b] + 1
        OBVIOUS
      <3>3. PICK e : e = F(k)
        OBVIOUS
      <3>4. Solves(e, phi, V, k) /\ k \in Nat /\ Height[b] < k
        BY <1>1, <3>1, <3>2, <3>3
      <3>5. e[b] = h[b]
        BY <2>2, <2>4, <3>1, <3>4, SolutionsAgree
      <3>6. QED  BY <1>2, <3>1, <3>2, <3>3, <3>5
    <2>7. phi[<<f, a>>] = phi[<<h, a>>]
      BY <1>4, <2>4, <2>6 DEF Computes, Solves
    <2>8. QED  BY <2>5, <2>7
  <1>6. QED
    BY <1>4, <1>5

\* Truth and Room satisfy their equations.
LEMMA TruthSolved ==
    ASSUME NEW g
    PROVE  \A a \in Auths : TruthFor(g)[a] = TruthBody(TruthFor(g), g, a)
  <1> DEFINE phi == [p \in [Auths -> BOOLEAN] \X Auths |-> TruthBody(p[1], g, p[2])]
             Body(f) == [a \in Auths |-> TruthBody(f, g, a)]
  <1>1. \A f, a : TruthBody(f, g, a) \in BOOLEAN
    <2> SUFFICES ASSUME NEW f, NEW a  PROVE TruthBody(f, g, a) \in BOOLEAN
      OBVIOUS
    <2>1. CASE a.type = "Or"  BY <2>1 DEF TruthBody
    <2>2. CASE a.type = "And"  BY <2>2 DEF TruthBody
    <2>3. CASE a.type = "Not"  BY <2>3 DEF TruthBody
    <2>4. CASE a.type = "Permission"  BY <2>4 DEF TruthBody
    <2>5. CASE a.type \notin {"Or", "And", "Not", "Permission"}  BY <2>5 DEF TruthBody
    <2>6. QED  BY <2>1, <2>2, <2>3, <2>4, <2>5
  <1>2. Computes(phi, BOOLEAN)
    <2>1. phi \in [[Auths -> BOOLEAN] \X Auths -> BOOLEAN]
      BY <1>1
    <2>2. ASSUME NEW f \in [Auths -> BOOLEAN], NEW h \in [Auths -> BOOLEAN], NEW a \in Auths,
                 \A b \in Lower(a) : f[b] = h[b]
          PROVE  phi[<<f, a>>] = phi[<<h, a>>]
      <3>1. /\ a.type \in Operators => f[a.first] = h[a.first]
            /\ a.type \in {"Or", "And"} => f[a.next] = h[a.next]
        BY <2>2, AuthAssumption DEF Lower
      <3>2. TruthBody(f, g, a) = TruthBody(h, g, a)
        BY <3>1, BodiesLocal
      <3>3. phi[<<f, a>>] = TruthBody(f, g, a) /\ phi[<<h, a>>] = TruthBody(h, g, a)
        OBVIOUS
      <3>4. QED  BY <3>2, <3>3
    <2> HIDE DEF phi
    <2>3. QED  BY <2>1, <2>2 DEF Computes
  <1>3. \A f \in [Auths -> BOOLEAN] : \A a \in Auths : phi[<<f, a>>] = TruthBody(f, g, a)
    OBVIOUS
  <1>4. PICK f \in [Auths -> BOOLEAN] : \A a \in Auths : f[a] = TruthBody(f, g, a)
    <2> HIDE DEF phi
    <2>1. PICK f \in [Auths -> BOOLEAN] : \A a \in Auths : f[a] = phi[<<f, a>>]
      BY <1>2, SolutionExists
    <2>2. \A a \in Auths : f[a] = TruthBody(f, g, a)
      BY <1>3, <2>1
    <2>3. QED  BY <2>2
  <1>5. f = Body(f)
    BY <1>4
  <1>6. PICK e : e = CHOOSE h : h = Body(h)
    OBVIOUS
  <1>7. e = Body(e)
    <2> HIDE DEF Body
    <2> QED  BY <1>5, <1>6
  <1>8. TruthFor(g) = e
    BY <1>6 DEF TruthFor, TruthBody
  <1>9. \A a \in Auths : e[a] = TruthBody(e, g, a)
    BY <1>7
  <1>10. QED
    BY <1>8, <1>9

LEMMA RoomSolved ==
    \A a \in Auths : Room[a] \in Nat \ {0} /\ Room[a] = RoomBody(Room, a)
  <1> DEFINE V == Nat \ {0}
             phi == [p \in [Auths -> V] \X Auths |-> RoomBody(p[1], p[2])]
             Body(f) == [a \in Auths |-> RoomBody(f, a)]
  <1>1. ASSUME NEW f \in [Auths -> V], NEW a \in Auths  PROVE RoomBody(f, a) \in V
    <2>1. a.type \in Operators => f[a.first] \in V
      BY AuthAssumption
    <2>2. a.type \in {"Or", "And"} => f[a.next] \in V
      BY AuthAssumption
    <2>3. QED  BY <2>1, <2>2 DEF RoomBody, Operators
  <1>2. Computes(phi, V)
    <2>1. phi \in [[Auths -> V] \X Auths -> V]
      BY <1>1
    <2>2. ASSUME NEW f \in [Auths -> V], NEW h \in [Auths -> V], NEW a \in Auths,
                 \A b \in Lower(a) : f[b] = h[b]
          PROVE  phi[<<f, a>>] = phi[<<h, a>>]
      <3>1. /\ a.type \in Operators => f[a.first] = h[a.first]
            /\ a.type \in {"Or", "And"} => f[a.next] = h[a.next]
        BY <2>2, AuthAssumption DEF Lower
      <3>2. RoomBody(f, a) = RoomBody(h, a)
        BY <3>1, BodiesLocal
      <3>3. phi[<<f, a>>] = RoomBody(f, a) /\ phi[<<h, a>>] = RoomBody(h, a)
        OBVIOUS
      <3>4. QED  BY <3>2, <3>3
    <2>3. V # {}
      OBVIOUS
    <2> HIDE DEF phi, V
    <2>4. QED  BY <2>1, <2>2, <2>3 DEF Computes
  <1>3. \A f \in [Auths -> V] : \A a \in Auths : phi[<<f, a>>] = RoomBody(f, a)
    OBVIOUS
  <1>4. PICK f \in [Auths -> V] : \A a \in Auths : f[a] = RoomBody(f, a)
    <2> HIDE DEF phi, V
    <2>1. PICK f \in [Auths -> V] : \A a \in Auths : f[a] = phi[<<f, a>>]
      BY <1>2, SolutionExists
    <2>2. \A a \in Auths : f[a] = RoomBody(f, a)
      BY <1>3, <2>1
    <2>3. QED  BY <2>2
  <1>5. f = Body(f)
    BY <1>4
  <1>6. PICK e : e = CHOOSE h : h = Body(h)
    OBVIOUS
  <1>7. e = Body(e)
    <2> HIDE DEF Body
    <2> QED  BY <1>5, <1>6
  <1>8. Room = e
    BY <1>6 DEF Room, RoomBody
  <1>9. \A a \in Auths : e[a] = RoomBody(e, a)
    BY <1>7
  <1>10. ASSUME NEW a \in Auths  PROVE e[a] = f[a]
    <2> DEFINE T == {k \in Nat : \A b \in Auths : Height[b] = k => e[b] = f[b]}
    <2>1. ASSUME NEW k \in Nat, \A j \in Nat : j < k => j \in T  PROVE k \in T
      <3>1. SUFFICES ASSUME NEW b \in Auths, Height[b] = k  PROVE e[b] = f[b]
        OBVIOUS
      <3>2. \A c \in Auths : Height[c] < k => e[c] = f[c]
        BY <2>1, AuthAssumption
      <3>3. /\ b.type \in Operators => e[b.first] = f[b.first]
            /\ b.type \in {"Or", "And"} => e[b.next] = f[b.next]
        BY <3>1, <3>2, AuthAssumption
      <3>4. RoomBody(e, b) = RoomBody(f, b)
        BY <3>3, BodiesLocal
      <3>5. QED  BY <1>4, <1>9, <3>4
    <2>2. T \in SUBSET Nat
      OBVIOUS
    <2>3. T = Nat
      <3> HIDE DEF T
      <3> QED  BY <2>1, <2>2, EveryNumber
    <2>4. Height[a] \in T
      BY <2>3, AuthAssumption
    <2>5. QED  BY <2>4
  <1>11. QED
    BY <1>4, <1>8, <1>9, <1>10

\* What the equations say of each kind of expression.
LEMMA TruthOf ==
    ASSUME NEW g, NEW a \in Auths, NEW v, v = TruthFor(g)
    PROVE  /\ v[a] \in BOOLEAN
           /\ a.type = "Or" => a.first \in Auths /\ a.next \in Auths /\ v[a] = (v[a.first] \/ v[a.next])
           /\ a.type = "And" => a.first \in Auths /\ a.next \in Auths /\ v[a] = (v[a.first] /\ v[a.next])
           /\ a.type = "Not" => a.first \in Auths /\ v[a] = ~v[a.first]
           /\ a.type = "Permission" => v[a] = (g[a.text] > 0)
           /\ a.type \notin Operators \cup {"Permission"} => v[a] = (a.type = "Yes")
  <1>0. v[a] = TruthBody(v, g, a)
    BY TruthSolved
  <1>1. CASE a.type = "Or"  BY <1>0, <1>1, AuthAssumption DEF TruthBody, Operators
  <1>2. CASE a.type = "And"  BY <1>0, <1>2, AuthAssumption DEF TruthBody, Operators
  <1>3. CASE a.type = "Not"  BY <1>0, <1>3, AuthAssumption DEF TruthBody, Operators
  <1>4. CASE a.type = "Permission"  BY <1>0, <1>4 DEF TruthBody, Operators
  <1>5. CASE a.type \notin Operators \cup {"Permission"}  BY <1>0, <1>5 DEF TruthBody, Operators
  <1>6. QED  BY <1>1, <1>2, <1>3, <1>4, <1>5 DEF Operators

LEMMA RoomOf ==
    ASSUME NEW a \in Auths
    PROVE  /\ Room[a] \in Nat /\ Room[a] >= 1
           /\ a.type \in Operators => a.first \in Auths /\ 1 + Room[a.first] <= Room[a]
           /\ a.type \in {"Or", "And"} => a.next \in Auths /\ Room[a.next] <= Room[a]
  <1>0. Room[a] \in Nat \ {0} /\ Room[a] = RoomBody(Room, a)
    BY RoomSolved
  <1>1. CASE a.type = "Not"
    <2>1. a.first \in Auths /\ Room[a.first] \in Nat
      BY <1>1, RoomSolved, AuthAssumption DEF Operators
    <2>2. Room[a] = 1 + Room[a.first]
      BY <1>0, <1>1 DEF RoomBody
    <2>3. QED  BY <1>0, <1>1, <2>1, <2>2
  <1>2. CASE a.type \in {"Or", "And"}
    <2>1. a.first \in Auths /\ Room[a.first] \in Nat /\ a.next \in Auths /\ Room[a.next] \in Nat
      BY <1>2, RoomSolved, AuthAssumption DEF Operators
    <2>2. Room[a] = IF 1 + Room[a.first] > Room[a.next] THEN 1 + Room[a.first] ELSE Room[a.next]
      BY <1>0, <1>2 DEF RoomBody
    <2>3. QED  BY <1>0, <1>2, <2>1, <2>2
  <1>3. CASE a.type \notin Operators
    BY <1>0, <1>3 DEF Operators
  <1>4. QED  BY <1>1, <1>2, <1>3 DEF Operators

\* What the expression in evaluation above the i first of the stack must be worth.
Goal(i) == IF i = 0 THEN Truth[auth] ELSE Truth[authstack[i].first]

AuthTypeOK ==
    /\ auth \in Auths /\ grants \in [Perms -> {1, 0, -1}]
    /\ authstack \in Seq(Auths) /\ current \in Auths
    /\ todo \in {"push", "ask", "pop", "end"}
    /\ status \in {1, 0, -1, E2BIG} /\ (todo # "end" => status # E2BIG)

\* Each expression of the stack is worth what the one below it waits for, and
\* leaves the room that its parts need.
StackInv ==
    \A i \in 1..Len(authstack) :
        /\ Truth[authstack[i]] = Goal(i - 1)
        /\ i < Len(authstack) => authstack[i].type \in Operators
        /\ i - 1 + Room[authstack[i]] <= Room[auth]

\* The same of the expression in evaluation.
TodoInv ==
    LET n == Len(authstack) IN
    /\ todo = "push" =>
          /\ n > 0 => authstack[n].type \in Operators
          /\ Truth[current] = Goal(n)
          /\ n + Room[current] <= Room[auth]
    /\ todo = "ask" => n > 0 /\ authstack[n] = current /\ current.type = "Permission"
    /\ todo = "pop" =>
          IF n > 0 /\ authstack[n].type \notin Operators
          THEN (status > 0) = Truth[authstack[n]]
          ELSE (status > 0) = Goal(n)

AuthInv == AuthTypeOK /\ StackInv /\ TodoInv /\ AuthDecides

LEMMA AuthInvInit == AuthInit => AuthInv
  <1> SUFFICES ASSUME AuthInit  PROVE AuthInv
    OBVIOUS
  <1>1. AuthTypeOK
    BY DEF AuthInit, AuthInput, AuthStart, AuthTypeOK, E2BIG
  <1>2. Len(authstack) = 0
    BY DEF AuthInit, AuthStart
  <1>3. StackInv
    BY <1>2 DEF StackInv
  <1>4. Room[auth] \in Nat
    BY <1>1, RoomOf DEF AuthTypeOK
  <1>5. TodoInv
    BY <1>2, <1>4 DEF AuthInit, AuthStart, TodoInv, Goal
  <1>6. AuthDecides
    BY DEF AuthInit, AuthStart, AuthDecides
  <1>7. QED  BY <1>1, <1>3, <1>5, <1>6 DEF AuthInv

\* The expression and the answers do not change.
LEMMA AuthFixed ==
    ASSUME AuthNext
    PROVE  auth' = auth /\ grants' = grants /\ Truth' = Truth
  <1>1. auth' = auth /\ grants' = grants
    BY DEF AuthNext, CkaPushFull, CkaPush, CkaPermCb, CkaPopStack, CkaEnd
  <1>2. QED  BY <1>1 DEF Truth

LEMMA PushFullInv == AuthInv /\ CkaPushFull => AuthInv'
  <1> SUFFICES ASSUME AuthInv, CkaPushFull  PROVE AuthInv'
    OBVIOUS
  <1>1. auth' = auth /\ grants' = grants /\ Truth' = Truth
    BY AuthFixed DEF AuthNext
  <1>2. /\ authstack' = authstack /\ current' = current /\ todo = "push" /\ todo' = "end"
        /\ status' = E2BIG /\ Len(authstack) >= StackDepth
    BY DEF CkaPushFull
  <1>3. AuthTypeOK'
    BY <1>1, <1>2 DEF AuthInv, AuthTypeOK
  <1>4. StackInv'
    BY <1>1, <1>2 DEF AuthInv, StackInv, Goal
  <1>5. TodoInv'
    BY <1>2 DEF TodoInv
  <1>6. Room[auth] > StackDepth
    <2>1. current \in Auths /\ auth \in Auths /\ authstack \in Seq(Auths)
      BY DEF AuthInv, AuthTypeOK
    <2>2. Len(authstack) + Room[current] <= Room[auth]
      BY <1>2 DEF AuthInv, TodoInv
    <2>3. Room[current] \in Nat /\ Room[current] >= 1 /\ Room[auth] \in Nat
      BY <2>1, RoomOf
    <2>4. Len(authstack) \in Nat /\ StackDepth \in Nat
      BY <2>1, AuthAssumption
    <2>5. QED  BY <1>2, <2>2, <2>3, <2>4
  <1>7. AuthDecides'
    BY <1>1, <1>2, <1>6 DEF AuthDecides
  <1>8. QED  BY <1>3, <1>4, <1>5, <1>7 DEF AuthInv

LEMMA PushInv == AuthInv /\ CkaPush => AuthInv'
  <1> SUFFICES ASSUME AuthInv, CkaPush  PROVE AuthInv'
    OBVIOUS
  <1>1. auth' = auth /\ grants' = grants /\ Truth' = Truth
    BY AuthFixed DEF AuthNext
  <1>2. /\ current \in Auths /\ auth \in Auths /\ authstack \in Seq(Auths) /\ status \in {1, 0, -1, E2BIG}
        /\ status # E2BIG /\ grants \in [Perms -> {1, 0, -1}]
    BY DEF AuthInv, AuthTypeOK, CkaPush
  <1>3. PICK n : n = Len(authstack)
    OBVIOUS
  <1>4. n \in Nat
    BY <1>2, <1>3
  <1>5. /\ authstack' = Append(authstack, current) /\ authstack' \in Seq(Auths) /\ Len(authstack') = n + 1
        /\ authstack'[n + 1] = current /\ \A i \in 1..n : authstack'[i] = authstack[i]
    BY <1>2, <1>3 DEF CkaPush
  <1>6. /\ n > 0 => authstack[n].type \in Operators
        /\ Truth[current] = Goal(n)
        /\ n + Room[current] <= Room[auth]
    BY <1>3 DEF CkaPush, AuthInv, TodoInv
  <1>7. \A i \in 1..n : Goal(i)' = Goal(i)
    BY <1>1, <1>4, <1>5 DEF Goal
  <1>8. Goal(0)' = Goal(0)
    BY <1>1 DEF Goal
  <1>9. \A i \in 0..n : Goal(i)' = Goal(i)
    BY <1>4, <1>7, <1>8
  <1>10. StackInv'
    <2>1. SUFFICES ASSUME NEW i \in 1..(n + 1)
          PROVE  /\ Truth'[authstack'[i]] = Goal(i - 1)'
                 /\ i < n + 1 => authstack'[i].type \in Operators
                 /\ i - 1 + Room[authstack'[i]] <= Room[auth']
      BY <1>5 DEF StackInv
    <2>2. i - 1 \in 0..n /\ i \in Nat
      BY <1>4
    <2>3. Goal(i - 1)' = Goal(i - 1)
      BY <1>9, <2>2
    <2>4. CASE i \in 1..n
      <3>1. /\ Truth[authstack[i]] = Goal(i - 1)
            /\ i < n => authstack[i].type \in Operators
            /\ i - 1 + Room[authstack[i]] <= Room[auth]
        BY <1>3, <2>4 DEF AuthInv, StackInv
      <3>2. i < n + 1 => authstack[i].type \in Operators
        <4>1. i = n \/ i < n
          BY <1>4, <2>4
        <4>2. n > 0
          BY <1>4, <2>4
        <4>3. QED  BY <1>6, <3>1, <4>1, <4>2
      <3>3. QED  BY <1>1, <1>5, <2>3, <2>4, <3>1, <3>2
    <2>5. CASE i = n + 1
      <3>1. i - 1 = n /\ ~(i < n + 1)
        BY <1>4, <2>5
      <3>2. QED  BY <1>1, <1>5, <1>6, <2>3, <2>5, <3>1
    <2>6. QED  BY <1>4, <2>4, <2>5
  <1>11. CASE current.type \in Operators
    <2>1. current' = current.first /\ todo' = todo /\ status' = status /\ todo = "push"
      BY <1>11 DEF CkaPush, Operators
    <2>2. current.first \in Auths /\ 1 + Room[current.first] <= Room[current]
          /\ Room[current] \in Nat /\ Room[auth] \in Nat /\ Room[current.first] \in Nat
      <3>1. current.first \in Auths /\ 1 + Room[current.first] <= Room[current]
        BY <1>2, <1>11, RoomOf
      <3>2. QED  BY <1>2, <3>1, RoomOf
    <2>3. AuthTypeOK'
      BY <1>1, <1>2, <1>5, <2>1, <2>2 DEF AuthInv, AuthTypeOK
    <2>4. Goal(n + 1)' = Truth[current.first]
      BY <1>1, <1>4, <1>5 DEF Goal
    <2>5. (n + 1) + Room[current.first] <= Room[auth]
      BY <1>4, <1>6, <2>2
    <2>6. TodoInv'
      BY <1>1, <1>5, <1>11, <2>1, <2>4, <2>5 DEF TodoInv
    <2>7. AuthDecides'
      BY <2>1 DEF AuthDecides
    <2>8. QED  BY <1>10, <2>3, <2>6, <2>7 DEF AuthInv
  <1>12. CASE current.type = "Permission"
    <2>1. current' = current /\ todo' = "ask" /\ status' = status
      BY <1>12 DEF CkaPush, Operators
    <2>2. AuthTypeOK'
      BY <1>1, <1>2, <1>5, <2>1 DEF AuthInv, AuthTypeOK
    <2>3. n + 1 > 0
      BY <1>4
    <2>4. TodoInv'
      BY <1>5, <1>12, <2>1, <2>3 DEF TodoInv
    <2>5. AuthDecides'
      BY <2>1 DEF AuthDecides
    <2>6. QED  BY <1>10, <2>2, <2>4, <2>5 DEF AuthInv
  <1>13. CASE current.type \notin Operators \cup {"Permission"}
    <2>1. current' = current /\ todo' = "pop" /\ status' = IF current.type = "Yes" THEN 1 ELSE 0
      BY <1>13 DEF CkaPush, Operators
    <2>2. AuthTypeOK'
      BY <1>1, <1>2, <1>5, <2>1 DEF AuthInv, AuthTypeOK, E2BIG
    <2>3. Truth[current] = (current.type = "Yes")
      <3>1. PICK g : g = grants
        OBVIOUS
      <3>2. PICK v : v = TruthFor(g)
        OBVIOUS
      <3>3. v[current] = (current.type = "Yes")
        BY <1>2, <1>13, <3>2, TruthOf
      <3>4. QED  BY <3>1, <3>2, <3>3 DEF Truth
    <2>4. (status' > 0) = Truth[current]
      BY <2>1, <2>3
    <2>5. n + 1 > 0
      BY <1>4
    <2>6. TodoInv'
      BY <1>1, <1>5, <1>13, <2>1, <2>4, <2>5 DEF TodoInv
    <2>7. AuthDecides'
      BY <2>1 DEF AuthDecides
    <2>8. QED  BY <1>10, <2>2, <2>6, <2>7 DEF AuthInv
  <1>14. QED  BY <1>11, <1>12, <1>13

LEMMA PermInv == AuthInv /\ CkaPermCb => AuthInv'
  <1> SUFFICES ASSUME AuthInv, CkaPermCb  PROVE AuthInv'
    OBVIOUS
  <1>1. auth' = auth /\ grants' = grants /\ Truth' = Truth
    BY AuthFixed DEF AuthNext
  <1>2. /\ authstack' = authstack /\ current' = current /\ todo = "ask" /\ todo' = "pop"
        /\ status' = grants[current.text]
    BY DEF CkaPermCb
  <1>3. /\ Len(authstack) > 0 /\ authstack[Len(authstack)] = current /\ current.type = "Permission"
        /\ current \in Auths /\ grants \in [Perms -> {1, 0, -1}]
    BY <1>2 DEF AuthInv, TodoInv, AuthTypeOK
  <1>4. status' \in {1, 0, -1}
    BY <1>2, <1>3, AuthAssumption
  <1>5. AuthTypeOK'
    BY <1>1, <1>2, <1>4 DEF AuthInv, AuthTypeOK, E2BIG
  <1>6. StackInv'
    BY <1>1, <1>2 DEF AuthInv, StackInv, Goal
  <1>7. Truth[current] = (grants[current.text] > 0)
    <2>1. PICK g : g = grants
      OBVIOUS
    <2>2. PICK v : v = TruthFor(g)
      OBVIOUS
    <2>3. v[current] = (g[current.text] > 0)
      BY <1>3, <2>2, TruthOf
    <2>4. QED  BY <2>1, <2>2, <2>3 DEF Truth
  <1>8. TodoInv'
    BY <1>1, <1>2, <1>3, <1>7 DEF TodoInv, Operators
  <1>9. AuthDecides'
    BY <1>2 DEF AuthDecides
  <1>10. QED  BY <1>5, <1>6, <1>8, <1>9 DEF AuthInv

LEMMA PopInv == AuthInv /\ CkaPopStack => AuthInv'
  <1> SUFFICES ASSUME AuthInv, CkaPopStack  PROVE AuthInv'
    OBVIOUS
  <1>1. auth' = auth /\ grants' = grants /\ Truth' = Truth
    BY AuthFixed DEF AuthNext
  <1>2. /\ current \in Auths /\ auth \in Auths /\ authstack \in Seq(Auths) /\ status \in {1, 0, -1}
        /\ todo = "pop" /\ grants \in [Perms -> {1, 0, -1}] /\ authstack # <<>>
    BY DEF AuthInv, AuthTypeOK, CkaPopStack
  <1>3. PICK n : n = Len(authstack) - 1
    OBVIOUS
  <1>4. n \in Nat /\ Len(authstack) = n + 1 /\ n + 1 \in 1..Len(authstack) /\ n + 1 > 0
    BY <1>2, <1>3
  <1>5. /\ authstack' \in Seq(Auths) /\ Len(authstack') = n
        /\ \A i \in 1..n : authstack'[i] = authstack[i]
    BY <1>2, <1>3, <1>4 DEF CkaPopStack
  <1>6. PICK top : top = authstack[n + 1]
    OBVIOUS
  <1>7. top \in Auths
    BY <1>2, <1>4, <1>6
  <1>8. /\ Truth[top] = Goal(n) /\ n + Room[top] <= Room[auth]
        /\ n > 0 => authstack[n].type \in Operators
    <2>1. /\ Truth[authstack[n + 1]] = Goal((n + 1) - 1)
          /\ ((n + 1) - 1) + Room[authstack[n + 1]] <= Room[auth]
      BY <1>4 DEF AuthInv, StackInv
    <2>2. (n + 1) - 1 = n
      BY <1>4
    <2>3. n > 0 => n \in 1..Len(authstack) /\ n < Len(authstack)
      BY <1>4
    <2>4. n > 0 => authstack[n].type \in Operators
      BY <2>3 DEF AuthInv, StackInv
    <2>5. QED  BY <1>6, <2>1, <2>2, <2>4
  <1>9. \A i \in 0..n : Goal(i)' = Goal(i)
    BY <1>1, <1>4, <1>5 DEF Goal
  <1>10. StackInv'
    <2>1. SUFFICES ASSUME NEW i \in 1..n
          PROVE  /\ Truth'[authstack'[i]] = Goal(i - 1)'
                 /\ i < n => authstack'[i].type \in Operators
                 /\ i - 1 + Room[authstack'[i]] <= Room[auth']
      BY <1>5 DEF StackInv
    <2>2. i \in 1..Len(authstack) /\ (i < n => i < Len(authstack)) /\ i - 1 \in 0..n
      BY <1>4
    <2>3. /\ Truth[authstack[i]] = Goal(i - 1)
          /\ i < n => authstack[i].type \in Operators
          /\ i - 1 + Room[authstack[i]] <= Room[auth]
      BY <2>2 DEF AuthInv, StackInv
    <2>4. QED  BY <1>1, <1>5, <1>9, <2>2, <2>3
  <1>11. (status > 0) = IF top.type \in Operators THEN Truth[top.first] ELSE Truth[top]
    <2>1. Goal(n + 1) = Truth[top.first]
      BY <1>4, <1>6 DEF Goal
    <2>2. QED  BY <1>2, <1>4, <1>6, <2>1 DEF AuthInv, TodoInv
  <1>12. PICK g : g = grants
    OBVIOUS
  <1>13. PICK v : v = TruthFor(g)
    OBVIOUS
  <1>14. Truth = v
    BY <1>12, <1>13 DEF Truth
  <1>15. /\ v[top] \in BOOLEAN
         /\ top.type = "Or" => top.first \in Auths /\ top.next \in Auths /\ v[top] = (v[top.first] \/ v[top.next])
         /\ top.type = "And" => top.first \in Auths /\ top.next \in Auths /\ v[top] = (v[top.first] /\ v[top.next])
         /\ top.type = "Not" => top.first \in Auths /\ v[top] = ~v[top.first]
    BY <1>7, <1>13, TruthOf
  <1>16. CASE (top.type = "Or" /\ status <= 0) \/ (top.type = "And" /\ status > 0)
    <2>1. todo' = "push" /\ current' = top.next /\ status' = status
      BY <1>3, <1>4, <1>6, <1>16 DEF CkaPopStack, CkaPop
    <2>2. /\ top.next \in Auths /\ Room[top.next] <= Room[top] /\ Room[top.next] \in Nat
          /\ Room[top] \in Nat /\ Room[auth] \in Nat
      <3>1. top.next \in Auths /\ Room[top.next] <= Room[top] /\ Room[top] \in Nat
        BY <1>7, <1>16, RoomOf
      <3>2. QED  BY <1>2, <3>1, RoomOf
    <2>3. n + Room[top.next] <= Room[auth]
      BY <1>4, <1>8, <2>2
    <2>4. v[top.next] = v[top]
      <3>1. v[top.next] \in BOOLEAN
        BY <1>13, <2>2, TruthOf
      <3>2. top.type \in Operators /\ (status > 0) = v[top.first]
        BY <1>11, <1>14, <1>16 DEF Operators
      <3>3. status <= 0 => ~(status > 0)
        BY <1>2
      <3>4. QED  BY <1>15, <1>16, <3>1, <3>2, <3>3
    <2>5. AuthTypeOK'
      BY <1>1, <1>2, <1>5, <2>1, <2>2 DEF AuthTypeOK, E2BIG
    <2>6. Truth'[current'] = Goal(n)'
      <3>1. Goal(n)' = Goal(n)
        BY <1>4, <1>9
      <3>2. QED  BY <1>1, <1>8, <1>14, <2>1, <2>4, <3>1
    <2>7. n > 0 => authstack'[n].type \in Operators
      <3>1. n > 0 => n \in 1..n
        BY <1>4
      <3>2. QED  BY <1>5, <1>8, <3>1
    <2>8. TodoInv'
      BY <1>1, <1>5, <2>1, <2>3, <2>6, <2>7 DEF TodoInv
    <2>9. AuthDecides'
      BY <2>1 DEF AuthDecides
    <2>10. QED  BY <1>10, <2>5, <2>8, <2>9 DEF AuthInv
  <1>17. CASE ~((top.type = "Or" /\ status <= 0) \/ (top.type = "And" /\ status > 0))
    <2>1. /\ todo' = "pop" /\ current' = current
          /\ status' = IF top.type = "Not" THEN (IF status <= 0 THEN 1 ELSE 0) ELSE status
      BY <1>2, <1>3, <1>4, <1>6, <1>17 DEF CkaPopStack, CkaPop
    <2>2. status' \in {1, 0, -1}
      BY <1>2, <2>1
    <2>3. AuthTypeOK'
      BY <1>1, <1>2, <1>5, <2>1, <2>2 DEF AuthTypeOK, E2BIG
    <2>4. status <= 0 <=> ~(status > 0)
      BY <1>2
    <2>5. (status' > 0) = v[top]
      <3>1. CASE top.type = "Not"
        <4>1. (status > 0) = v[top.first]
          BY <1>11, <1>14, <3>1 DEF Operators
        <4>2. (status' > 0) = ~(status > 0)
          BY <1>2, <2>1, <3>1
        <4>3. QED  BY <1>15, <3>1, <4>1, <4>2
      <3>2. CASE top.type \in {"Or", "And"}
        <4>1. (status > 0) = v[top.first] /\ status' = status
          BY <1>11, <1>14, <2>1, <3>2 DEF Operators
        <4>2. CASE top.type = "Or"
          <5>1. status > 0
            BY <1>17, <2>4, <4>2
          <5>2. v[top] = TRUE
            BY <1>15, <4>1, <4>2, <5>1
          <5>3. QED  BY <4>1, <5>1, <5>2
        <4>3. CASE top.type = "And"
          <5>1. ~(status > 0)
            BY <1>17, <4>3
          <5>2. v[top] = FALSE
            BY <1>15, <4>1, <4>3, <5>1
          <5>3. (status > 0) = FALSE
            BY <5>1
          <5>4. (status' > 0) = (status > 0)
            BY <4>1
          <5>5. QED  BY <5>2, <5>3, <5>4
        <4>4. QED  BY <3>2, <4>2, <4>3
      <3>3. CASE top.type \notin Operators
        BY <1>11, <1>14, <2>1, <3>3 DEF Operators
      <3>4. QED  BY <3>1, <3>2, <3>3 DEF Operators
    <2>6. (status' > 0) = Goal(n)'
      <3>1. Goal(n)' = Goal(n)
        BY <1>4, <1>9
      <3>2. QED  BY <1>8, <1>14, <2>5, <3>1
    <2>7. n > 0 => authstack'[n].type \in Operators
      <3>1. n > 0 => n \in 1..n
        BY <1>4
      <3>2. QED  BY <1>5, <1>8, <3>1
    <2>8. TodoInv'
      BY <1>5, <2>1, <2>6, <2>7 DEF TodoInv
    <2>9. AuthDecides'
      BY <2>1 DEF AuthDecides
    <2>10. QED  BY <1>10, <2>3, <2>8, <2>9 DEF AuthInv
  <1>18. QED  BY <1>16, <1>17

LEMMA EndInv == AuthInv /\ CkaEnd => AuthInv'
  <1> SUFFICES ASSUME AuthInv, CkaEnd  PROVE AuthInv'
    OBVIOUS
  <1>1. auth' = auth /\ grants' = grants /\ Truth' = Truth
    BY AuthFixed DEF AuthNext
  <1>2. /\ authstack' = authstack /\ current' = current /\ todo = "pop" /\ todo' = "end"
        /\ status' = status /\ authstack = <<>> /\ Len(authstack) = 0
    BY DEF CkaEnd
  <1>3. AuthTypeOK' /\ status # E2BIG
    BY <1>1, <1>2 DEF AuthInv, AuthTypeOK
  <1>4. StackInv' /\ TodoInv'
    BY <1>2 DEF StackInv, TodoInv
  <1>5. (status > 0) = Truth[auth]
    BY <1>2 DEF AuthInv, TodoInv, Goal
  <1>6. AuthDecides'
    BY <1>1, <1>2, <1>3, <1>5 DEF AuthDecides
  <1>7. QED  BY <1>3, <1>4, <1>6 DEF AuthInv

\* The callback of auth_check is told the truth of the expression, or a refusal when
\* the expression needs more room than the stack has: for expressions of any shape and
\* height, any answers of the framework and any depth of the stack.
THEOREM AuthCorrect == AuthSpec => []AuthDecides
  <1>1. AuthInv /\ [AuthNext]_authVars => AuthInv'
    <2> SUFFICES ASSUME AuthInv, [AuthNext]_authVars  PROVE AuthInv'
      OBVIOUS
    <2>1. CASE UNCHANGED authVars
      BY <2>1 DEF authVars, AuthInv, AuthTypeOK, StackInv, TodoInv, AuthDecides, Goal, Truth
    <2>2. CASE AuthNext
      BY <2>2, PushFullInv, PushInv, PermInv, PopInv, EndInv DEF AuthNext
    <2>3. QED  BY <2>1, <2>2
  <1>2. AuthInv => AuthDecides
    BY DEF AuthInv
  <1>3. QED
    BY AuthInvInit, <1>1, <1>2, PTL DEF AuthSpec

----------------------------------------------------------------------------
(* The units: UnitProcess.  A text is a sequence of anything: only the lines that open and close *)
(* units matter to the split. *)

IsText(s) == \E S : s \in Seq(S)

\* A set of numbers that holds 0 and the successor of each of its numbers.
LEMMA EverySuccessor ==
    ASSUME NEW T \in SUBSET Nat, 0 \in T, \A k \in Nat : k \in T => k + 1 \in T
    PROVE  T = Nat
  <1>1. SUFFICES ASSUME Nat \ T # {}  PROVE FALSE
    OBVIOUS
  <1>2. PICK n \in Nat \ T : \A k \in Nat \ T : n <= k
    BY <1>1, LeastNumber
  <1>3. n # 0 /\ n - 1 \in Nat
    BY <1>2
  <1>4. n - 1 \in T
    BY <1>2, <1>3
  <1>5. QED
    BY <1>2, <1>3, <1>4

\* The texts one after the other are a text.
LEMMA FlattenText ==
    ASSUME NEW n \in Nat, NEW a, a = [i \in 1..n |-> a[i]], \A i \in 1..n : IsText(a[i])
    PROVE  IsText(FlattenSeq(a))
  <1> DEFINE S == UNION {{a[i][j] : j \in DOMAIN a[i]} : i \in 1..n}
             V == Seq(S)
             Body(f) == [i \in 1..Len(a) |-> IF i = 1 THEN a[i] ELSE f[i - 1] \o a[i]]
             Next1(f, i) == IF i = 1 THEN a[i] ELSE f[i - 1] \o a[i]
             T == {m \in Nat : \E f \in [1..n -> V] : \A i \in 1..n : i <= m => f[i] = Next1(f, i)}
  <1>a. ASSUME NEW i \in 1..n  PROVE a[i] \in V
    <2>1. PICK s, C : s = a[i] /\ s \in Seq(C)
      BY DEF IsText
    <2>2. PICK m \in Nat : DOMAIN s = 1..m
      BY <2>1
    <2>3. \A j \in 1..m : s[j] \in S
      BY <2>1, <2>2
    <2>4. s = [j \in 1..m |-> s[j]]
      BY <2>1, <2>2
    <2> HIDE DEF S
    <2>5. s \in Seq(S)
      BY <2>3, <2>4
    <2>6. QED  BY <2>1, <2>5
  <1> HIDE DEF S
  <1>b. a \in [1..n -> V]
    BY <1>a
  <1>0. Len(a) = n /\ a \in Seq(V)
    BY <1>b
  <1>c. CASE n = 0
    <2>1. FlattenSeq(a) = a
      BY <1>0, <1>c DEF FlattenSeq
    <2>2. QED  BY <1>0, <2>1 DEF IsText
  <1>d. CASE n # 0
    <2>1. 0 \in T
      BY <1>b
    <2>2. ASSUME NEW m \in Nat, m \in T  PROVE m + 1 \in T
      <3>1. PICK f \in [1..n -> V] : \A i \in 1..n : i <= m => f[i] = Next1(f, i)
        BY <2>2
      <3>2. \A i \in 1..n : Next1(f, i) \in V
        <4>1. SUFFICES ASSUME NEW i \in 1..n  PROVE Next1(f, i) \in V
          OBVIOUS
        <4>2. CASE i = 1
          BY <1>a, <4>2
        <4>3. CASE i # 1
          <5>1. f[i - 1] \in V /\ a[i] \in V
            BY <1>a, <4>3
          <5>2. QED  BY <4>3, <5>1, ConcatProperties
        <4>4. QED  BY <4>2, <4>3
      <3>3. PICK h : h = [i \in 1..n |-> IF i = m + 1 THEN Next1(f, i) ELSE f[i]]
        OBVIOUS
      <3>4. h \in [1..n -> V]
        BY <3>2, <3>3
      <3>5. ASSUME NEW i \in 1..n, i <= m + 1  PROVE h[i] = Next1(h, i)
        <4>1. h[i] = Next1(f, i)
          <5> HIDE DEF Next1
          <5> QED  BY <3>1, <3>3, <3>5
        <4>2. i # 1 => h[i - 1] = f[i - 1]
          <5> HIDE DEF Next1
          <5> QED  BY <3>3, <3>5
        <4>3. QED  BY <4>1, <4>2
      <3>6. \A i \in 1..n : i <= m + 1 => h[i] = Next1(h, i)
        BY <3>5
      <3>7. m + 1 \in Nat
        OBVIOUS
      <3> HIDE DEF Next1
      <3>8. QED  BY <3>4, <3>6, <3>7
    <2>3. T = Nat
      <3>1. T \in SUBSET Nat
        OBVIOUS
      <3> HIDE DEF T
      <3>2. QED  BY <2>1, <2>2, <3>1, EverySuccessor
    <2>4. PICK f \in [1..n -> V] : \A i \in 1..n : i <= n => f[i] = Next1(f, i)
      BY <2>3
    <2>5. f = Body(f)
      <3>1. \A i \in 1..n : f[i] = Next1(f, i)
        <4> HIDE DEF Next1
        <4> QED  BY <2>4
      <3>2. Len(a) = n
        BY <1>0
      <3>3. QED  BY ONLY f \in [1..n -> V], <3>1, <3>2
    <2>6. PICK g : g = CHOOSE x : x = Body(x)
      OBVIOUS
    <2>7. g = Body(g)
      <3> HIDE DEF Body
      <3> QED  BY <2>5, <2>6
    <2>8. FlattenSeq(a) = g[n]
      <3>1. FlattenSeq(a) = g[Len(a)]
        <4>1. Len(a) # 0
          BY <1>0, <1>d
        <4>2. QED  BY <2>6, <4>1, Zenon DEF FlattenSeq
      <3>2. QED  BY <1>0, <3>1
    <2>9. \A i \in 1..n : g[i] = IF i = 1 THEN a[i] ELSE g[i - 1] \o a[i]
      BY <1>0, <2>7
    <2> DEFINE P == {k \in Nat : k \in 1..n => g[k] \in V}
    <2>10. 0 \in P
      OBVIOUS
    <2>11. ASSUME NEW k \in Nat, k \in P  PROVE k + 1 \in P
      <3>1. SUFFICES ASSUME k + 1 \in 1..n  PROVE g[k + 1] \in V
        OBVIOUS
      <3>2. PICK i \in 1..n : i = k + 1
        BY <3>1
      <3>3. CASE k = 0
        BY <1>a, <2>9, <3>2, <3>3
      <3>4. CASE k # 0
        <4>1. PICK u \in V, v \in V : u = g[k] /\ v = a[i]
          BY <1>a, <2>11, <3>2, <3>4
        <4>2. g[i] = u \o v
          <5>1. i # 1 /\ i - 1 = k
            BY <3>2, <3>4
          <5>2. g[i] = g[i - 1] \o a[i]
            BY <2>9, <5>1
          <5>3. QED  BY <4>1, <5>1, <5>2
        <4>3. QED  BY <3>2, <4>1, <4>2, ConcatProperties
      <3>5. QED  BY <3>3, <3>4
    <2>12. P = Nat
      <3>1. P \in SUBSET Nat
        OBVIOUS
      <3> HIDE DEF P
      <3>2. QED  BY <2>10, <2>11, <3>1, EverySuccessor
    <2>13. g[n] \in V
      BY <1>d, <2>12
    <2>14. QED  BY <2>8, <2>13 DEF IsText
  <1>e. QED
    BY <1>c, <1>d

LEMMA TextLen ==
    ASSUME NEW s, IsText(s)
    PROVE  Len(s) \in Nat /\ DOMAIN s = 1..Len(s) /\ \A x : IsText(Append(s, x)) /\ Len(Append(s, x)) = Len(s) + 1
  <1>1. PICK S : s \in Seq(S)
    BY DEF IsText
  <1>2. ASSUME NEW x  PROVE IsText(Append(s, x)) /\ Len(Append(s, x)) = Len(s) + 1
    <2>1. PICK C : C = S \union {x}
      OBVIOUS
    <2>2. s \in Seq(C) /\ x \in C
      <3>1. PICK m \in Nat : DOMAIN s = 1..m
        BY <1>1
      <3>2. s \in [1..m -> C]
        BY <1>1, <2>1, <3>1
      <3>3. QED  BY <2>1, <3>2
    <2>3. Append(s, x) \in Seq(C) /\ Len(Append(s, x)) = Len(s) + 1
      BY <2>2
    <2>4. QED  BY <2>3 DEF IsText
  <1>3. QED
    BY <1>1, <1>2

LEMMA ShortTexts == IsText(<<>>) /\ Len(<<>>) = 0 /\ \A x : IsText(<<x>>)
  <1>1. <<>> \in Seq({})
    BY EmptySeq
  <1>2. ASSUME NEW x  PROVE IsText(<<x>>)
    <2>1. <<x>> \in Seq({x})
      OBVIOUS
    <2>2. QED  BY <2>1 DEF IsText
  <1>3. Len(<<>>) = 0
    OBVIOUS
  <1>4. QED
    BY <1>1, <1>2, <1>3 DEF IsText

LEMMA PackText == ASSUME NEW text, IsText(text), NEW purge  PROVE IsText(Pack(text, purge))
  <1>1. PICK n \in Nat : n = Len(text)
    BY TextLen
  <1> DEFINE Line1(i) == [text[i] EXCEPT !.lead = @ /\ Continues(text, i)]
             Keep(i) == IF ~Emitted(text, i) THEN <<>>
                        ELSE IF Line1(i).lead \/ Line1(i).word \notin PurgedBy(purge) THEN <<Line1(i)>>
                        ELSE IF Line1(i).word \in {";nl", "%nl"} /\ ~Line1(i).cont THEN <<EmptyLine>>
                        ELSE <<>>
  <1>2. PICK a : a = [i \in 1..Len(text) |-> Keep(i)]
    OBVIOUS
  <1>3. Pack(text, purge) = FlattenSeq(a)
    BY <1>2, Zenon DEF Pack
  <1>4. ASSUME NEW i \in 1..n  PROVE IsText(a[i])
    <2>1. a[i] = Keep(i)
      BY <1>1, <1>2, Zenon
    <2>2. Keep(i) = <<>> \/ Keep(i) = <<Line1(i)>> \/ Keep(i) = <<EmptyLine>>
      BY Zenon
    <2> HIDE DEF Keep, Line1
    <2>3. QED  BY <2>1, <2>2, ShortTexts, Zenon
  <1>5. a = [i \in 1..n |-> a[i]]
    <2> HIDE DEF Keep
    <2> QED  BY <1>1, <1>2
  <1>6. IsText(FlattenSeq(a))
    BY ONLY <1>1, <1>4, <1>5, FlattenText
  <1>7. QED
    BY ONLY <1>3, <1>6

LEMMA DedupText == ASSUME NEW text, IsText(text)  PROVE IsText(DedupSlashes(text))
  <1>1. PICK n \in Nat : n = Len(text)
    BY TextLen
  <1>2. PICK a : a = [i \in 1..Len(text) |-> IF text[i] = EmptyLine THEN <<>> ELSE <<text[i]>>]
    OBVIOUS
  <1>3. DedupSlashes(text) = FlattenSeq(a)
    BY <1>2 DEF DedupSlashes
  <1>4. ASSUME NEW i \in 1..n  PROVE IsText(a[i])
    <2>1. a[i] = <<>> \/ a[i] = <<text[i]>>
      BY <1>1, <1>2
    <2>2. QED  BY <2>1, ShortTexts, Zenon
  <1>5. a = [i \in 1..n |-> a[i]]
    BY <1>1, <1>2
  <1>6. QED
    BY <1>3, <1>4, <1>5, FlattenText

LEMMA MustachText == ASSUME NEW text, IsText(text), NEW lines, IsText(lines)  PROVE IsText(ApplyMustach(text, lines))
  <1>1. PICK n \in Nat : n = Len(text)
    BY TextLen
  <1>2. PICK a : a = [i \in 1..Len(text) |-> IF text[i].word = Tag THEN lines ELSE <<text[i]>>]
    OBVIOUS
  <1>3. ApplyMustach(text, lines) = FlattenSeq(a)
    BY <1>2 DEF ApplyMustach
  <1>4. ASSUME NEW i \in 1..n  PROVE IsText(a[i])
    <2>1. a[i] = lines \/ a[i] = <<text[i]>>
      BY <1>1, <1>2
    <2>2. QED  BY <2>1, ShortTexts, Zenon
  <1>5. a = [i \in 1..n |-> a[i]]
    BY <1>1, <1>2
  <1>6. QED
    BY <1>3, <1>4, <1>5, FlattenText

OpenLine == Line(FALSE, "%begin unit", FALSE)
CloseLine == Line(FALSE, "%end unit", FALSE)
MarkedBy(text, words) == {i \in 1..Len(text) : ~text[i].lead /\ text[i].word \in words}

\* The mark i is the one that its rank asks.
Good(text, i) == text[i] = IF Rank(text, i) % 2 = 1 THEN OpenLine ELSE CloseLine

LEMMA MarksAre ==
    ASSUME NEW text, IsText(text)
    PROVE  /\ Marks(text) = MarkedBy(text, Begins) \union MarkedBy(text, Ends)
           /\ MarkedBy(text, Begins) \cap MarkedBy(text, Ends) = {}
           /\ \A i \in 1..Len(text) : /\ text[i] = OpenLine => i \in MarkedBy(text, Begins)
                                      /\ text[i] = CloseLine => i \in MarkedBy(text, Ends)
           /\ Marks(text) \subseteq 1..Len(text) /\ Len(text) \in Nat
  <1>1. Len(text) \in Nat
    BY TextLen
  <1>2. Marks(text) = MarkedBy(text, Begins) \union MarkedBy(text, Ends)
    BY DEF Marks, MarkedBy
  <1>3. MarkedBy(text, Begins) \cap MarkedBy(text, Ends) = {}
    BY DEF MarkedBy, Begins, Ends
  <1>4. ASSUME NEW i \in 1..Len(text)
        PROVE  /\ text[i] = OpenLine => i \in MarkedBy(text, Begins)
               /\ text[i] = CloseLine => i \in MarkedBy(text, Ends)
    <2>1. OpenLine.lead = FALSE /\ OpenLine.word \in Begins /\ CloseLine.lead = FALSE /\ CloseLine.word \in Ends
      BY DEF OpenLine, CloseLine, Line, Begins, Ends
    <2>2. QED  BY <2>1 DEF MarkedBy
  <1>5. QED
    BY <1>1, <1>2, <1>3, <1>4 DEF Marks

\* offset: the first mark of that kind from i, or the end.
LEMMA OffsetIs ==
    ASSUME NEW text, IsText(text), NEW words, NEW i \in 1..(Len(text) + 1)
    PROVE  LET o == Offset(text, i, words)
           IN  /\ o \in i..(Len(text) + 1)
               /\ o <= Len(text) => o \in MarkedBy(text, words)
               /\ \A k \in MarkedBy(text, words) : k >= i => o <= k
  <1>1. PICK n \in Nat : n = Len(text)
    BY TextLen
  <1>2. PICK at : at = {k \in i..Len(text) : ~text[k].lead /\ text[k].word \in words}
    OBVIOUS
  <1>3. PICK o : o = Offset(text, i, words)
    OBVIOUS
  <1>4. o = IF at = {} THEN n + 1 ELSE Min(at)
    BY <1>1, <1>2, <1>3 DEF Offset
  <1>5. \A k \in at : k \in MarkedBy(text, words) /\ k \in i..n
    BY <1>1, <1>2 DEF MarkedBy
  <1>6. \A k \in MarkedBy(text, words) : k >= i => k \in at
    BY <1>1, <1>2 DEF MarkedBy
  <1>7. CASE at = {}
    BY <1>1, <1>3, <1>4, <1>6, <1>7
  <1>8. CASE at # {}
    <2>1. at \in SUBSET Nat
      BY <1>1, <1>5
    <2>2. PICK m \in at : \A k \in at : m <= k
      BY <1>8, <2>1, LeastNumber
    <2>3. Min(at) \in at /\ \A k \in at : Min(at) <= k
      BY <2>1, <2>2 DEF Min
    <2>4. QED  BY <1>1, <1>3, <1>4, <1>5, <1>6, <1>8, <2>3
  <1>9. QED
    BY <1>7, <1>8

LEMMA RankIs ==
    ASSUME NEW text, IsText(text)
    PROVE  /\ \A i : Rank(text, i) \in Nat
           /\ Rank(text, 0) = 0 /\ Rank(text, Len(text)) = Cardinality(Marks(text))
           /\ \A i \in 0..Len(text) : \A j \in 0..Len(text) :
                 i <= j /\ (\A k \in Marks(text) : ~(i < k /\ k <= j)) => Rank(text, j) = Rank(text, i)
           /\ \A i \in 0..Len(text) : \A j \in Marks(text) :
                 i < j /\ (\A k \in Marks(text) : ~(i < k /\ k < j)) => Rank(text, j) = Rank(text, i) + 1
  <1>1. PICK n \in Nat : n = Len(text) /\ Marks(text) \subseteq 1..n
    BY TextLen, MarksAre
  <1>2. IsFiniteSet(Marks(text))
    <2>1. IsFiniteSet(1..n)
      BY FS_Interval
    <2>2. QED  BY <1>1, <2>1, FS_Subset
  <1>3. ASSUME NEW i  PROVE IsFiniteSet({k \in Marks(text) : k <= i}) /\ Rank(text, i) \in Nat
    <2>1. IsFiniteSet({k \in Marks(text) : k <= i})
      BY <1>2, FS_Subset
    <2>2. QED  BY <2>1, FS_CardinalityType DEF Rank
  <1>4. Rank(text, 0) = 0
    <2>1. {k \in Marks(text) : k <= 0} = {}
      BY <1>1
    <2>2. QED  BY <2>1, FS_EmptySet DEF Rank
  <1>5. Rank(text, Len(text)) = Cardinality(Marks(text))
    <2>1. {k \in Marks(text) : k <= n} = Marks(text)
      BY <1>1
    <2>2. QED  BY <1>1, <2>1 DEF Rank
  <1>6. ASSUME NEW i \in 0..n, NEW j \in 0..n, i <= j, \A k \in Marks(text) : ~(i < k /\ k <= j)
        PROVE  Rank(text, j) = Rank(text, i)
    <2>1. {k \in Marks(text) : k <= j} = {k \in Marks(text) : k <= i}
      BY <1>1, <1>6
    <2>2. QED  BY <2>1 DEF Rank
  <1>7. ASSUME NEW i \in 0..n, NEW j \in Marks(text), i < j, \A k \in Marks(text) : ~(i < k /\ k < j)
        PROVE  Rank(text, j) = Rank(text, i) + 1
    <2>1. PICK s : s = {k \in Marks(text) : k <= i}
      OBVIOUS
    <2>2. {k \in Marks(text) : k <= j} = s \union {j} /\ j \notin s
      BY <1>1, <1>7, <2>1
    <2>3. IsFiniteSet(s)
      BY <1>3, <2>1
    <2>4. Cardinality(s \union {j}) = Cardinality(s) + 1
      BY <2>2, <2>3, FS_AddElement
    <2>5. QED  BY <2>1, <2>2, <2>4 DEF Rank
  <1>8. QED
    BY <1>1, <1>3, <1>4, <1>5, <1>6, <1>7

LEMMA WellFormedIs ==
    ASSUME NEW text
    PROVE  WellFormed(text) <=> Cardinality(Marks(text)) % 2 = 0 /\ \A i \in Marks(text) : Good(text, i)
  <1>1. ASSUME NEW i  PROVE Line(FALSE, IF Rank(text, i) % 2 = 1 THEN "%begin unit" ELSE "%end unit", FALSE)
                            = IF Rank(text, i) % 2 = 1 THEN OpenLine ELSE CloseLine
    BY DEF OpenLine, CloseLine
  <1>2. QED
    BY <1>1, Zenon DEF WellFormed, Good

\* What the loop of corpus_split knows at the position p, with the result r and the units u.
SplitState(text, p, r, u) ==
    /\ p \in 1..(Len(text) + 1) /\ r \in {"ok", "EINVAL"} /\ Rank(text, p - 1) % 2 = 0
    /\ r = "ok" <=> \A i \in Marks(text) : i < p => Good(text, i)
    /\ r = "ok" => Len(u) = Rank(text, p - 1) \div 2

\* What it has found at its end.
SplitDone(text, r, u) ==
    /\ r \in {"ok", "EINVAL"}
    /\ r = "ok" <=> WellFormed(text)
    /\ r = "ok" => Len(u) = Cardinality(Marks(text)) \div 2

LEMMA SplitBegins == ASSUME NEW text, IsText(text)  PROVE SplitState(text, 1, "ok", <<>>)
  <1>1. PICK n \in Nat : n = Len(text) /\ Marks(text) \subseteq 1..n
    BY TextLen, MarksAre
  <1>2. Rank(text, 0) = 0 /\ Len(<<>>) = 0
    BY RankIs
  <1>3. \A i \in Marks(text) : ~(i < 1)
    BY <1>1
  <1>4. 1 \in 1..(Len(text) + 1) /\ 1 - 1 = 0 /\ 0 % 2 = 0 /\ 0 \div 2 = 0
    BY <1>1
  <1>5. QED
    BY <1>2, <1>3, <1>4 DEF SplitState

LEMMA Halves ==
    ASSUME NEW m \in Nat, m % 2 = 0
    PROVE  (m + 1) % 2 = 1 /\ (m + 2) % 2 = 0 /\ (m + 2) \div 2 = (m \div 2) + 1
  <1>1. (m + 1) % 2 = 1
    OBVIOUS
  <1>2. (m + 2) % 2 = 0
    OBVIOUS
  <1>3. (m + 2) \div 2 = (m \div 2) + 1
    OBVIOUS
  <1>4. QED
    BY <1>1, <1>2, <1>3

\* A turn that finds %begin then %end.
LEMMA SplitTurn ==
    ASSUME NEW text, IsText(text), NEW u, IsText(u), NEW p, NEW r, SplitState(text, p, r, u),
           NEW beg, NEW end, beg = Offset(text, p, Begins), end = Offset(text, p, Ends),
           beg < end, end <= Len(text), Offset(text, beg + 1, Begins) > end,
           NEW good, good <=> text[beg] = OpenLine /\ text[end] = CloseLine, NEW x, NEW q, NEW v,
           q = IF good \/ r # "ok" THEN r ELSE "EINVAL", v = IF good THEN Append(u, x) ELSE u
    PROVE  SplitState(text, end + 1, q, v)
  <1>1. PICK n \in Nat : n = Len(text) /\ Marks(text) \subseteq 1..n
    BY TextLen, MarksAre
  <1>2. p \in 1..(n + 1) /\ r \in {"ok", "EINVAL"} /\ Rank(text, p - 1) % 2 = 0
    BY <1>1 DEF SplitState
  <1>3. /\ beg \in p..(n + 1) /\ (beg <= n => beg \in MarkedBy(text, Begins))
        /\ \A k \in MarkedBy(text, Begins) : k >= p => beg <= k
    BY <1>1, <1>2, OffsetIs
  <1>4. /\ end \in p..(n + 1) /\ (end <= n => end \in MarkedBy(text, Ends))
        /\ \A k \in MarkedBy(text, Ends) : k >= p => end <= k
    BY <1>1, <1>2, OffsetIs
  <1>5. beg \in 1..n /\ end \in 1..n /\ beg + 1 \in 1..(n + 1)
    BY <1>1, <1>2, <1>3, <1>4
  <1>6. PICK nb : nb = Offset(text, beg + 1, Begins)
    OBVIOUS
  <1>7. \A k \in MarkedBy(text, Begins) : k >= beg + 1 => nb <= k
    BY <1>1, <1>5, <1>6, OffsetIs
  <1>8. beg \in Marks(text) /\ end \in Marks(text) /\ Marks(text) = MarkedBy(text, Begins) \union MarkedBy(text, Ends)
    BY <1>1, <1>3, <1>4, <1>5, MarksAre
  <1>9. nb \in Int /\ nb > end
    BY <1>1, <1>5, <1>6, OffsetIs
  <1>10. \A k \in Marks(text) : ~(p - 1 < k /\ k < beg)
    BY <1>1, <1>2, <1>3, <1>4, <1>5, <1>8
  <1>11. \A k \in Marks(text) : ~(beg < k /\ k < end)
    BY <1>1, <1>2, <1>3, <1>4, <1>5, <1>7, <1>8, <1>9
  <1>12. Rank(text, beg) = Rank(text, p - 1) + 1
    <2>1. p - 1 \in 0..n /\ p - 1 < beg
      BY <1>2, <1>3, <1>5
    <2>2. QED  BY <1>1, <1>8, <1>10, <2>1, RankIs
  <1>13. Rank(text, end) = Rank(text, beg) + 1
    <2>1. beg \in 0..n /\ beg < end
      BY <1>5
    <2>2. QED  BY <1>1, <1>8, <1>11, <2>1, RankIs
  <1>14. PICK m \in Nat : m = Rank(text, p - 1)
    BY RankIs
  <1>15. m % 2 = 0 /\ (m + 1) % 2 = 1 /\ (m + 2) % 2 = 0 /\ (m + 2) \div 2 = (m \div 2) + 1
    BY <1>2, <1>14, Halves
  <1>16. Rank(text, beg) % 2 = 1 /\ Rank(text, end) % 2 = 0 /\ Rank(text, end) \div 2 = (Rank(text, p - 1) \div 2) + 1
    BY <1>12, <1>13, <1>14, <1>15
  <1>17. (Good(text, beg) <=> text[beg] = OpenLine) /\ (Good(text, end) <=> text[end] = CloseLine)
    BY <1>16 DEF Good
  <1>18. \A k \in Marks(text) : k < end + 1 <=> k < p \/ k = beg \/ k = end
    BY <1>1, <1>2, <1>3, <1>4, <1>5, <1>10, <1>11
  <1>19. (\A k \in Marks(text) : k < end + 1 => Good(text, k)) <=> (\A k \in Marks(text) : k < p => Good(text, k)) /\ good
    BY <1>8, <1>17, <1>18
  <1>20. r = "ok" <=> \A k \in Marks(text) : k < p => Good(text, k)
    BY DEF SplitState
  <1>21. q \in {"ok", "EINVAL"} /\ (q = "ok" <=> r = "ok" /\ good)
    BY <1>2
  <1>22. q = "ok" => Len(v) = Rank(text, end) \div 2
    <2>1. SUFFICES ASSUME q = "ok"  PROVE Len(v) = Rank(text, end) \div 2
      OBVIOUS
    <2>2. r = "ok" /\ good
      BY <1>21, <2>1
    <2>3. Len(u) = Rank(text, p - 1) \div 2
      BY <2>2 DEF SplitState
    <2>4. v = Append(u, x) /\ Len(Append(u, x)) = Len(u) + 1
      BY <2>2, TextLen
    <2>5. QED  BY <1>16, <2>3, <2>4
  <1>23. end + 1 \in 1..(Len(text) + 1) /\ (end + 1) - 1 = end
    BY <1>1, <1>5
  <1>24. QED
    BY <1>16, <1>19, <1>20, <1>21, <1>22, <1>23 DEF SplitState

\* The turn that ends the loop.
LEMMA SplitEnds ==
    ASSUME NEW text, IsText(text), NEW u, NEW p, NEW r, SplitState(text, p, r, u),
           NEW beg, NEW end, beg = Offset(text, p, Begins), end = Offset(text, p, Ends),
           beg >= end \/ Offset(text, beg + 1, Begins) < end \/ end = Len(text) + 1,
           NEW error, error = IF beg = Len(text) + 1 /\ end = Len(text) + 1 THEN "ok" ELSE "EINVAL",
           NEW q, q = IF r = "ok" THEN error ELSE r
    PROVE  SplitDone(text, q, u)
  <1>1. PICK n \in Nat : n = Len(text) /\ Marks(text) \subseteq 1..n
    BY TextLen, MarksAre
  <1>2. p \in 1..(n + 1) /\ r \in {"ok", "EINVAL"} /\ Rank(text, p - 1) % 2 = 0 /\ p - 1 \in 0..n
    BY <1>1 DEF SplitState
  <1>3. /\ beg \in p..(n + 1) /\ (beg <= n => beg \in MarkedBy(text, Begins))
        /\ \A k \in MarkedBy(text, Begins) : k >= p => beg <= k
    BY <1>1, <1>2, OffsetIs
  <1>4. /\ end \in p..(n + 1) /\ (end <= n => end \in MarkedBy(text, Ends))
        /\ \A k \in MarkedBy(text, Ends) : k >= p => end <= k
    BY <1>1, <1>2, OffsetIs
  <1>5. Marks(text) = MarkedBy(text, Begins) \union MarkedBy(text, Ends) /\ MarkedBy(text, Begins) \cap MarkedBy(text, Ends) = {}
    BY MarksAre
  <1>6. r = "ok" <=> \A k \in Marks(text) : k < p => Good(text, k)
    BY DEF SplitState
  <1>7. WellFormed(text) <=> Cardinality(Marks(text)) % 2 = 0 /\ \A i \in Marks(text) : Good(text, i)
    BY WellFormedIs
  <1>8. PICK m \in Nat : m = Rank(text, p - 1)
    BY RankIs
  <1>9. m % 2 = 0 /\ (m + 1) % 2 = 1 /\ (m + 2) % 2 = 0
    BY <1>2, <1>8, Halves
  <1>10. CASE beg = n + 1 /\ end = n + 1
    <2>1. \A k \in Marks(text) : k < p
      BY <1>1, <1>2, <1>3, <1>4, <1>5, <1>10
    <2>2. Rank(text, n) = Rank(text, p - 1)
      <3>1. n \in 0..n /\ p - 1 <= n /\ \A k \in Marks(text) : ~(p - 1 < k /\ k <= n)
        BY <1>1, <1>2, <2>1
      <3>2. QED  BY <1>1, <1>2, <3>1, RankIs
    <2>3. Cardinality(Marks(text)) = Rank(text, p - 1)
      BY <1>1, <2>2, RankIs
    <2>4. r = "ok" <=> WellFormed(text)
      BY <1>2, <1>6, <1>7, <2>1, <2>3
    <2>5. q = r
      BY <1>1, <1>2, <1>10
    <2>6. r = "ok" => Len(u) = Rank(text, p - 1) \div 2
      BY DEF SplitState
    <2>7. QED  BY <1>2, <2>3, <2>4, <2>5, <2>6 DEF SplitDone
  <1>11. CASE ~(beg = n + 1 /\ end = n + 1)
    <2>1. q = "EINVAL"
      BY <1>1, <1>2, <1>11
    <2>2. ASSUME WellFormed(text)  PROVE FALSE
      <3>0. Cardinality(Marks(text)) % 2 = 0 /\ \A i \in Marks(text) : Good(text, i)
        BY <1>7, <2>2
      <3>1. CASE end <= beg
        <4>1. end <= n
          BY <1>2, <1>3, <1>4, <1>11, <3>1
        <4>2. end \in Marks(text) /\ end \in MarkedBy(text, Ends) /\ end \in 1..n
          BY <1>1, <1>4, <1>5, <4>1
        <4>3. \A k \in Marks(text) : ~(p - 1 < k /\ k < end)
          BY <1>1, <1>2, <1>3, <1>4, <1>5, <3>1, <4>2
        <4>4. p - 1 < end
          BY <1>2, <1>4
        <4>5. Rank(text, end) = m + 1
          BY <1>1, <1>2, <1>8, <4>2, <4>3, <4>4, RankIs
        <4>6. text[end] = OpenLine
          BY <1>9, <3>0, <4>2, <4>5 DEF Good
        <4>7. end \in MarkedBy(text, Begins)
          BY <1>1, <4>2, <4>6, MarksAre
        <4>8. QED  BY <1>5, <4>2, <4>7
      <3>2. CASE beg < end
        <4>1. beg \in 1..n
          BY <1>2, <1>3, <1>4, <3>2
        <4>2. beg \in Marks(text)
          BY <1>3, <1>5, <4>1
        <4>3. \A k \in Marks(text) : ~(p - 1 < k /\ k < beg)
          BY <1>1, <1>2, <1>3, <1>4, <1>5, <3>2, <4>1
        <4>4. p - 1 < beg
          BY <1>2, <1>3
        <4>5. Rank(text, beg) = m + 1
          BY <1>1, <1>2, <1>8, <4>2, <4>3, <4>4, RankIs
        <4>6. PICK nb : nb = Offset(text, beg + 1, Begins)
          OBVIOUS
        <4>7. beg + 1 \in 1..(n + 1) /\ beg \in 0..n
          BY <4>1
        <4>8. /\ nb \in (beg + 1)..(n + 1) /\ (nb <= n => nb \in MarkedBy(text, Begins))
              /\ \A k \in MarkedBy(text, Begins) : k >= beg + 1 => nb <= k
          BY <1>1, <4>6, <4>7, OffsetIs
        <4>9. nb < end \/ end = n + 1
          BY <1>1, <1>3, <1>4, <3>2, <4>6
        <4>10. CASE nb < end
          <5>1. nb \in 1..n /\ beg < nb
            BY <1>4, <4>1, <4>8, <4>10
          <5>2. nb \in Marks(text) /\ nb \in MarkedBy(text, Begins)
            BY <1>5, <4>8, <5>1
          <5>3. \A k \in Marks(text) : ~(beg < k /\ k < nb)
            BY <1>1, <1>2, <1>3, <1>4, <1>5, <4>1, <4>8, <4>10, <5>1
          <5>4. Rank(text, nb) = (m + 1) + 1
            BY <1>1, <4>5, <4>7, <5>1, <5>2, <5>3, RankIs
          <5>5. Rank(text, nb) % 2 = 0
            BY <1>9, <5>4
          <5>6. text[nb] = CloseLine
            BY <3>0, <5>2, <5>5 DEF Good
          <5>7. nb \in MarkedBy(text, Ends)
            BY <1>1, <5>1, <5>6, MarksAre
          <5>8. QED  BY <1>5, <5>2, <5>7
        <4>11. CASE ~(nb < end) /\ end = n + 1
          <5>1. \A k \in Marks(text) : ~(beg < k /\ k <= n)
            BY <1>1, <1>2, <1>3, <1>4, <1>5, <4>1, <4>8, <4>11
          <5>2. n \in 0..n /\ beg <= n
            BY <4>1
          <5>3. Rank(text, n) = m + 1
            BY <1>1, <4>5, <4>7, <5>1, <5>2, RankIs
          <5>4. Cardinality(Marks(text)) = m + 1
            BY <1>1, <5>3, RankIs
          <5>5. QED  BY <1>9, <3>0, <5>4
        <4>12. QED  BY <4>9, <4>10, <4>11
      <3>3. QED  BY <1>3, <1>4, <3>1, <3>2
    <2>3. QED  BY <2>1, <2>2 DEF SplitDone
  <1>12. QED
    BY <1>10, <1>11

\* An error that is found stays: the rest of the text does not matter.
LEMMA SplitRefused ==
    ASSUME NEW text, NEW p, NEW u, SplitState(text, p, "EINVAL", u)
    PROVE  SplitDone(text, "EINVAL", u)
  <1>1. ~WellFormed(text)
    BY WellFormedIs DEF SplitState
  <1>2. QED
    BY <1>1 DEF SplitDone

Loading == {"idle", "close", "get", "pack", "apply"}
Results == {"ok", "EINVAL", "ENOMEM", "EIO"}

\* A thread at d, with the text c, the position p, the units u and the result r.
ThreadInv(d, c, p, u, r) ==
    /\ IsText(c) /\ IsText(u)
    /\ d \in Loading => p = 1 /\ u = <<>> /\ r = "ok"
    /\ d = "split" => SplitState(c, p, r, u)
    /\ d = "process" => r = "ENOMEM" \/ SplitDone(c, r, u)
    /\ d = "end" /\ r \notin {"EIO", "ENOMEM"} =>
          /\ r = "ok" <=> WellFormed(c)
          /\ Len(u) = IF r = "ok" THEN Cardinality(Marks(c)) \div 2 ELSE 0

UnitsInv ==
    /\ file \in Template /\ part \in [Threads -> Parts]
    /\ doing \in [Threads -> Loading \union {"split", "process", "end"}] /\ result \in [Threads -> Results]
    /\ corpus = [t \in Threads |-> corpus[t]] /\ pos = [t \in Threads |-> pos[t]]
    /\ units = [t \in Threads |-> units[t]]
    /\ template # Nothing => IsText(template)
    /\ \A t \in Threads : ThreadInv(doing[t], corpus[t], pos[t], units[t], result[t])

LEMMA InputTexts ==
    /\ \A x \in Template : IsText(x) /\ x # Nothing /\ Pack(x, ";") # Nothing
    /\ \A x \in Parts : IsText(x)
  BY TextsAssumption DEF IsText

LEMMA UnitsStarts == UnitsInit => UnitsInv
  <1>1. SUFFICES ASSUME UnitsInit  PROVE UnitsInv
    OBVIOUS
  <1>2. /\ file \in Template /\ part \in [Threads -> Parts] /\ template = Nothing
        /\ doing = [t \in Threads |-> "idle"] /\ corpus = [t \in Threads |-> <<>>] /\ pos = [t \in Threads |-> 1]
        /\ units = [t \in Threads |-> <<>>] /\ result = [t \in Threads |-> "ok"]
    BY <1>1 DEF UnitsInit, UnitsInput, UnitsStart
  <1>3. ASSUME NEW t \in Threads  PROVE ThreadInv(doing[t], corpus[t], pos[t], units[t], result[t])
    <2>1. doing[t] = "idle" /\ corpus[t] = <<>> /\ pos[t] = 1 /\ units[t] = <<>> /\ result[t] = "ok"
      BY <1>2
    <2>2. ThreadInv("idle", <<>>, 1, <<>>, "ok")
      BY ShortTexts DEF ThreadInv
    <2>3. QED  BY <2>1, <2>2
  <1>4. QED
    BY <1>2, <1>3 DEF UnitsInv, Loading, Results

\* What changes nothing but one thread.
LEMMA OneThread ==
    ASSUME UnitsInv, NEW t \in Threads, NEW d, NEW c, NEW p, NEW u, NEW r,
           file' = file, part' = part, template' # Nothing => IsText(template'),
           doing' = [doing EXCEPT ![t] = d], corpus' = [corpus EXCEPT ![t] = c], pos' = [pos EXCEPT ![t] = p],
           units' = [units EXCEPT ![t] = u], result' = [result EXCEPT ![t] = r],
           d \in Loading \union {"split", "process", "end"}, r \in Results, ThreadInv(d, c, p, u, r)
    PROVE  UnitsInv'
  <1>1. /\ doing' \in [Threads -> Loading \union {"split", "process", "end"}] /\ result' \in [Threads -> Results]
        /\ corpus' = [s \in Threads |-> corpus'[s]] /\ units' = [s \in Threads |-> units'[s]]
        /\ pos' = [s \in Threads |-> pos'[s]]
    BY DEF UnitsInv
  <1>2. ASSUME NEW s \in Threads  PROVE ThreadInv(doing'[s], corpus'[s], pos'[s], units'[s], result'[s])
    <2>1. CASE s = t
      <3>1. doing'[s] = d /\ corpus'[s] = c /\ pos'[s] = p /\ units'[s] = u /\ result'[s] = r
        BY <2>1 DEF UnitsInv
      <3>2. QED  BY <3>1
    <2>2. CASE s # t
      <3>1. /\ doing'[s] = doing[s] /\ corpus'[s] = corpus[s] /\ pos'[s] = pos[s] /\ units'[s] = units[s]
            /\ result'[s] = result[s]
        BY <2>2 DEF UnitsInv
      <3>2. QED  BY <3>1 DEF UnitsInv
    <2>3. QED  BY <2>1, <2>2
  <1>3. QED
    BY <1>1, <1>2 DEF UnitsInv

\* A variable that does not change is the one with the same value for t.
LEMMA SameThread ==
    ASSUME UnitsInv, NEW t \in Threads
    PROVE  /\ corpus = [corpus EXCEPT ![t] = corpus[t]] /\ pos = [pos EXCEPT ![t] = pos[t]]
           /\ units = [units EXCEPT ![t] = units[t]] /\ result = [result EXCEPT ![t] = result[t]]
           /\ doing = [doing EXCEPT ![t] = doing[t]]
           /\ ThreadInv(doing[t], corpus[t], pos[t], units[t], result[t]) /\ result[t] \in Results
  <1>1. corpus = [corpus EXCEPT ![t] = corpus[t]]
    BY DEF UnitsInv
  <1>2. pos = [pos EXCEPT ![t] = pos[t]]
    BY DEF UnitsInv
  <1>3. units = [units EXCEPT ![t] = units[t]]
    BY DEF UnitsInv
  <1>4. result = [result EXCEPT ![t] = result[t]] /\ doing = [doing EXCEPT ![t] = doing[t]]
    BY DEF UnitsInv
  <1>5. QED
    BY <1>1, <1>2, <1>3, <1>4 DEF UnitsInv

LEMMA LoadingInv ==
    ASSUME UnitsInv, NEW t \in Threads, NEW d \in Loading, doing[t] \in Loading, doing' = [doing EXCEPT ![t] = d],
           KeepText, template' # Nothing => IsText(template')
    PROVE  UnitsInv'
  <1>1. /\ file' = file /\ part' = part /\ corpus' = corpus /\ pos' = pos /\ units' = units /\ result' = result
    BY DEF KeepText
  <1>2. PICK c, p, u, r : c = corpus[t] /\ p = pos[t] /\ u = units[t] /\ r = result[t]
    OBVIOUS
  <1>3. ThreadInv(doing[t], c, p, u, r) /\ r \in Results
    BY <1>2, SameThread
  <1>4. ThreadInv(d, c, p, u, r)
    BY <1>3 DEF ThreadInv, Loading
  <1>5. /\ corpus' = [corpus EXCEPT ![t] = c] /\ pos' = [pos EXCEPT ![t] = p] /\ units' = [units EXCEPT ![t] = u]
        /\ result' = [result EXCEPT ![t] = r]
    BY <1>1, <1>2, SameThread
  <1>6. QED
    BY <1>1, <1>3, <1>4, <1>5, OneThread

LEMMA ApplyInv == ASSUME UnitsInv, NEW t \in Threads, Apply(t)  PROVE UnitsInv'
  <1>1. PICK c : c = IF template = Nothing THEN <<>> ELSE DedupSlashes(ApplyMustach(template, part[t]))
    OBVIOUS
  <1>2. /\ doing[t] = "apply" /\ corpus' = [corpus EXCEPT ![t] = c] /\ doing' = [doing EXCEPT ![t] = "split"]
        /\ file' = file /\ part' = part /\ template' = template /\ pos' = pos /\ units' = units /\ result' = result
    BY <1>1 DEF Apply, Move
  <1>3. IsText(c)
    <2>1. CASE template = Nothing
      BY <1>1, <2>1, ShortTexts
    <2>2. CASE template # Nothing
      <3>1. PICK x, y : x = template /\ y = part[t]
        OBVIOUS
      <3>2. IsText(x) /\ IsText(y)
        BY <2>2, <3>1, InputTexts DEF UnitsInv
      <3>3. PICK z : z = ApplyMustach(x, y)
        OBVIOUS
      <3>4. IsText(z)
        BY <3>2, <3>3, MustachText
      <3>5. IsText(DedupSlashes(z))
        BY <3>4, DedupText
      <3>6. QED  BY <1>1, <2>2, <3>1, <3>3, <3>5
    <2>3. QED  BY <2>1, <2>2
  <1>4. PICK p, u, r : p = pos[t] /\ u = units[t] /\ r = result[t]
    OBVIOUS
  <1>5. p = 1 /\ u = <<>> /\ r = "ok" /\ IsText(u) /\ r \in Results
    BY <1>2, <1>4, SameThread DEF ThreadInv, Loading
  <1>6. ThreadInv("split", c, p, u, r)
    <2>1. SplitState(c, 1, "ok", <<>>)
      BY <1>3, SplitBegins
    <2>2. QED  BY <1>3, <1>5, <2>1 DEF ThreadInv, Loading
  <1>7. /\ pos' = [pos EXCEPT ![t] = p] /\ units' = [units EXCEPT ![t] = u] /\ result' = [result EXCEPT ![t] = r]
    BY <1>2, <1>4, SameThread
  <1>8. template' # Nothing => IsText(template')
    BY <1>2 DEF UnitsInv
  <1>9. PICK d : d = "split"
    OBVIOUS
  <1>10. /\ ThreadInv(d, c, p, u, r) /\ doing' = [doing EXCEPT ![t] = d]
         /\ d \in Loading \union {"split", "process", "end"}
    BY <1>2, <1>6, <1>9
  <1>11. /\ UnitsInv /\ t \in Threads /\ r \in Results /\ file' = file /\ part' = part
         /\ corpus' = [corpus EXCEPT ![t] = c]
    BY <1>2, <1>5
  <1>12. QED
    BY ONLY <1>7, <1>8, <1>10, <1>11, OneThread

LEMMA SplitEndInv == ASSUME UnitsInv, NEW t \in Threads, SplitEnd(t)  PROVE UnitsInv'
  <1>1. PICK c, p, u, r : c = corpus[t] /\ p = pos[t] /\ u = units[t] /\ r = result[t]
    OBVIOUS
  <1>2. PICK beg, end : beg = Offset(c, p, Begins) /\ end = Offset(c, p, Ends)
    OBVIOUS
  <1>3. PICK error : error = IF beg = Len(c) + 1 /\ end = Len(c) + 1 THEN "ok" ELSE "EINVAL"
    OBVIOUS
  <1>4. PICK q : q = IF r = "ok" THEN error ELSE r
    OBVIOUS
  <1>5. /\ doing[t] = "split" /\ (beg >= end \/ Offset(c, beg + 1, Begins) < end \/ end = Len(c) + 1)
        /\ NoUnit(t, error)
    BY <1>1, <1>2, <1>3 DEF SplitEnd
  <1>6. /\ doing' = [doing EXCEPT ![t] = "process"] /\ result' = [result EXCEPT ![t] = q]
        /\ file' = file /\ part' = part /\ template' = template /\ pos' = pos /\ units' = units /\ corpus' = corpus
    BY <1>1, <1>4, <1>5 DEF NoUnit, Move
  <1>7. IsText(c) /\ IsText(u) /\ SplitState(c, p, r, u)
    BY <1>1, <1>5, SameThread DEF ThreadInv
  <1>8. SplitDone(c, q, u)
    BY <1>2, <1>3, <1>4, <1>5, <1>7, SplitEnds
  <1>9. ThreadInv("process", c, p, u, q) /\ q \in Results
    BY <1>7, <1>8 DEF ThreadInv, Loading, SplitDone, Results
  <1>10. corpus' = [corpus EXCEPT ![t] = c] /\ pos' = [pos EXCEPT ![t] = p] /\ units' = [units EXCEPT ![t] = u]
    BY <1>1, <1>6, SameThread
  <1>11. template' # Nothing => IsText(template')
    BY <1>6 DEF UnitsInv
  <1>12. QED
    BY <1>6, <1>9, <1>10, <1>11, OneThread

LEMMA SplitUnitInv == ASSUME UnitsInv, NEW t \in Threads, SplitUnit(t)  PROVE UnitsInv'
  <1>1. PICK c, p, u, r : c = corpus[t] /\ p = pos[t] /\ u = units[t] /\ r = result[t]
    OBVIOUS
  <1>2. PICK beg, end : beg = Offset(c, p, Begins) /\ end = Offset(c, p, Ends)
    OBVIOUS
  <1>3. PICK good \in BOOLEAN : good <=> c[beg] = OpenLine /\ c[end] = CloseLine
    OBVIOUS
  <1>4. PICK x : x = ProcessOneUnit(SubSeq(c, beg + 1, end - 1))
    OBVIOUS
  <1>5. PICK q, v, e : q = (IF good \/ r # "ok" THEN r ELSE "EINVAL") /\ v = (IF good THEN Append(u, x) ELSE u) /\ e = end + 1
    OBVIOUS
  <1>6. /\ doing[t] = "split" /\ beg < end /\ end <= Len(c) /\ Offset(c, beg + 1, Begins) > end
        /\ units' = [units EXCEPT ![t] = v] /\ result' = [result EXCEPT ![t] = q] /\ pos' = [pos EXCEPT ![t] = e]
        /\ file' = file /\ part' = part /\ template' = template /\ doing' = doing /\ corpus' = corpus
    BY <1>1, <1>2, <1>3, <1>4, <1>5 DEF SplitUnit, OpenLine, CloseLine
  <1>7. IsText(c) /\ IsText(u) /\ SplitState(c, p, r, u)
    BY <1>1, <1>6, SameThread DEF ThreadInv
  <1>8. SplitState(c, e, q, v)
    <2>1. SplitState(c, end + 1, q, v)
      BY <1>2, <1>3, <1>5, <1>6, <1>7, SplitTurn
    <2>2. QED  BY <1>5, <2>1
  <1>9. IsText(v)
    BY <1>5, <1>7, TextLen
  <1>10. ThreadInv("split", c, e, v, q) /\ q \in Results
    BY <1>7, <1>8, <1>9 DEF ThreadInv, Loading, SplitState, Results
  <1>11. corpus' = [corpus EXCEPT ![t] = c] /\ doing' = [doing EXCEPT ![t] = "split"]
    BY <1>1, <1>6, SameThread
  <1>12. template' # Nothing => IsText(template')
    BY <1>6 DEF UnitsInv
  <1>13. QED
    BY <1>6, <1>10, <1>11, <1>12, OneThread

LEMMA SplitFailsInv == ASSUME UnitsInv, NEW t \in Threads, SplitFails(t)  PROVE UnitsInv'
  <1>1. PICK c, p, u, r : c = corpus[t] /\ p = pos[t] /\ u = units[t] /\ r = result[t]
    OBVIOUS
  <1>2. PICK q : q = IF r = "ok" THEN "ENOMEM" ELSE r
    OBVIOUS
  <1>3. /\ doing[t] = "split" /\ doing' = [doing EXCEPT ![t] = "process"] /\ result' = [result EXCEPT ![t] = q]
        /\ file' = file /\ part' = part /\ template' = template /\ pos' = pos /\ units' = units /\ corpus' = corpus
    BY <1>1, <1>2 DEF SplitFails, Move
  <1>4. IsText(c) /\ IsText(u) /\ SplitState(c, p, r, u)
    BY <1>1, <1>3, SameThread DEF ThreadInv
  <1>5. q = "ENOMEM" \/ SplitDone(c, q, u)
    <2>1. r = "ok" \/ r = "EINVAL"
      BY <1>4 DEF SplitState
    <2>2. QED  BY <1>2, <1>4, <2>1, SplitRefused
  <1>6. ThreadInv("process", c, p, u, q) /\ q \in Results
    BY <1>4, <1>5 DEF ThreadInv, Loading, SplitDone, Results
  <1>7. corpus' = [corpus EXCEPT ![t] = c] /\ pos' = [pos EXCEPT ![t] = p] /\ units' = [units EXCEPT ![t] = u]
    BY <1>1, <1>3, SameThread
  <1>8. template' # Nothing => IsText(template')
    BY <1>3 DEF UnitsInv
  <1>9. QED
    BY <1>3, <1>6, <1>7, <1>8, OneThread

LEMMA ProcessUnitsInv == ASSUME UnitsInv, NEW t \in Threads, ProcessUnits(t)  PROVE UnitsInv'
  <1>1. PICK c, p, u, r : c = corpus[t] /\ p = pos[t] /\ u = units[t] /\ r = result[t]
    OBVIOUS
  <1>2. PICK v : v = IF r = "ok" THEN u ELSE <<>>
    OBVIOUS
  <1>3. /\ doing[t] = "process" /\ doing' = [doing EXCEPT ![t] = "end"] /\ units' = [units EXCEPT ![t] = v]
        /\ file' = file /\ part' = part /\ template' = template /\ pos' = pos /\ result' = result /\ corpus' = corpus
    BY <1>1, <1>2 DEF ProcessUnits, Move
  <1>4. IsText(c) /\ IsText(u) /\ (r = "ENOMEM" \/ SplitDone(c, r, u)) /\ r \in Results
    BY <1>1, <1>3, SameThread DEF ThreadInv
  <1>5. IsText(v) /\ (r # "ok" => Len(v) = 0)
    BY <1>2, <1>4, ShortTexts
  <1>6. ThreadInv("end", c, p, v, r)
    BY <1>2, <1>4, <1>5 DEF ThreadInv, Loading, SplitDone
  <1>7. corpus' = [corpus EXCEPT ![t] = c] /\ pos' = [pos EXCEPT ![t] = p] /\ result' = [result EXCEPT ![t] = r]
    BY <1>1, <1>3, SameThread
  <1>8. template' # Nothing => IsText(template')
    BY <1>3 DEF UnitsInv
  <1>9. PICK d : d = "end"
    OBVIOUS
  <1>10. /\ ThreadInv(d, c, p, v, r) /\ doing' = [doing EXCEPT ![t] = d] /\ units' = [units EXCEPT ![t] = v]
         /\ d \in Loading \union {"split", "process", "end"} /\ r \in Results
    BY <1>3, <1>4, <1>6, <1>9
  <1>11. UnitsInv /\ t \in Threads /\ file' = file /\ part' = part
    BY <1>3
  <1>12. QED
    BY ONLY <1>7, <1>8, <1>10, <1>11, OneThread

LEMMA GetFailsInv == ASSUME UnitsInv, NEW t \in Threads, GetFails(t)  PROVE UnitsInv'
  <1>1. PICK c, p, u : c = corpus[t] /\ p = pos[t] /\ u = units[t]
    OBVIOUS
  <1>2. /\ doing' = [doing EXCEPT ![t] = "end"] /\ result' = [result EXCEPT ![t] = "EIO"]
        /\ file' = file /\ part' = part /\ template' = template /\ pos' = pos /\ units' = units /\ corpus' = corpus
    BY DEF GetFails, Move
  <1>3. IsText(c) /\ IsText(u)
    BY <1>1, SameThread DEF ThreadInv
  <1>4. ThreadInv("end", c, p, u, "EIO") /\ "EIO" \in Results
    BY <1>3 DEF ThreadInv, Loading, Results
  <1>5. corpus' = [corpus EXCEPT ![t] = c] /\ pos' = [pos EXCEPT ![t] = p] /\ units' = [units EXCEPT ![t] = u]
    BY <1>1, <1>2, SameThread
  <1>6. template' # Nothing => IsText(template')
    BY <1>2 DEF UnitsInv
  <1>7. QED
    BY <1>2, <1>4, <1>5, <1>6, OneThread

LEMMA ApplyFailsInv == ASSUME UnitsInv, NEW t \in Threads, ApplyFails(t)  PROVE UnitsInv'
  <1>1. PICK c, p, u : c = corpus[t] /\ p = pos[t] /\ u = units[t]
    OBVIOUS
  <1>2. /\ doing' = [doing EXCEPT ![t] = "end"] /\ result' = [result EXCEPT ![t] = "ENOMEM"]
        /\ file' = file /\ part' = part /\ template' = template /\ pos' = pos /\ units' = units /\ corpus' = corpus
    BY DEF ApplyFails, Move
  <1>3. IsText(c) /\ IsText(u)
    BY <1>1, SameThread DEF ThreadInv
  <1>4. ThreadInv("end", c, p, u, "ENOMEM") /\ "ENOMEM" \in Results
    BY <1>3 DEF ThreadInv, Loading, Results
  <1>5. corpus' = [corpus EXCEPT ![t] = c] /\ pos' = [pos EXCEPT ![t] = p] /\ units' = [units EXCEPT ![t] = u]
    BY <1>1, <1>2, SameThread
  <1>6. template' # Nothing => IsText(template')
    BY <1>2 DEF UnitsInv
  <1>7. QED
    BY <1>2, <1>4, <1>5, <1>6, OneThread

LEMMA UnitsSteps == UnitsInv /\ [UnitsNext]_unitVars => UnitsInv'
  <1>1. SUFFICES ASSUME UnitsInv, [UnitsNext]_unitVars  PROVE UnitsInv'
    OBVIOUS
  <1>2. CASE UNCHANGED unitVars
    BY <1>1, <1>2 DEF unitVars, UnitsInv
  <1>3. ASSUME NEW t \in Threads, Begin(t)  PROVE UnitsInv'
    <2>1. PICK d \in {"apply", "close"} : doing' = [doing EXCEPT ![t] = d]
      BY <1>3 DEF Begin, Move
    <2>2. KeepText /\ template' = template /\ doing[t] \in Loading /\ d \in Loading
      BY <1>3 DEF Begin, Loading
    <2>3. QED  BY <1>1, <2>1, <2>2, LoadingInv DEF UnitsInv
  <1>4. ASSUME NEW t \in Threads, CloseTemplate(t)  PROVE UnitsInv'
    <2>1. /\ doing' = [doing EXCEPT ![t] = "get"] /\ KeepText /\ template' = Nothing
          /\ doing[t] \in Loading /\ "get" \in Loading
      BY <1>4 DEF CloseTemplate, Move, Loading
    <2>2. QED  BY <1>1, <2>1, LoadingInv
  <1>5. ASSUME NEW t \in Threads, GetTemplate(t)  PROVE UnitsInv'
    <2>1. /\ doing' = [doing EXCEPT ![t] = "pack"] /\ KeepText /\ template' = file
          /\ doing[t] \in Loading /\ "pack" \in Loading
      BY <1>5 DEF GetTemplate, Move, Loading
    <2>2. IsText(template')
      BY <1>1, <2>1, InputTexts DEF UnitsInv
    <2>3. QED  BY <1>1, <2>1, <2>2, LoadingInv
  <1>6. ASSUME NEW t \in Threads, PackTemplate(t)  PROVE UnitsInv'
    <2>1. /\ doing' = [doing EXCEPT ![t] = "apply"] /\ KeepText
          /\ template' = IF template = Nothing THEN Nothing ELSE Pack(template, ";")
          /\ doing[t] \in Loading /\ "apply" \in Loading
      BY <1>6 DEF PackTemplate, Move, Loading
    <2>2. template' # Nothing => IsText(template')
      <3>1. PICK x, y : x = template /\ y = ";"
        OBVIOUS
      <3>2. IsText(x) => IsText(Pack(x, y))
        BY PackText
      <3>3. QED  BY <1>1, <2>1, <3>1, <3>2 DEF UnitsInv
    <2>3. QED  BY <1>1, <2>1, <2>2, LoadingInv
  <1>7. CASE UnitsNext
    BY <1>1, <1>3, <1>4, <1>5, <1>6, <1>7, GetFailsInv, ApplyInv, ApplyFailsInv, SplitEndInv, SplitUnitInv, SplitFailsInv,
       ProcessUnitsInv DEF UnitsNext
  <1>8. QED
    BY <1>1, <1>2, <1>7

\* Whatever the texts, and however the requests interleave, a text is split exactly when it is
\* well formed (corpus_split).
THEOREM SplitCorrect == UnitsSpec => []SplitIffWellFormed
  <1>1. UnitsInv => SplitIffWellFormed
    <2>1. SUFFICES ASSUME UnitsInv, NEW t \in Threads, Ended(t), result[t] \notin {"EIO", "ENOMEM"}
                   PROVE  /\ (result[t] = "ok") = WellFormed(corpus[t])
                          /\ Len(units[t]) = IF result[t] = "ok" THEN Cardinality(Marks(corpus[t])) \div 2 ELSE 0
      BY Zenon DEF SplitIffWellFormed
    <2>2. PICK c, p, u, r : c = corpus[t] /\ p = pos[t] /\ u = units[t] /\ r = result[t]
      OBVIOUS
    <2>3. ThreadInv("end", c, p, u, r) /\ r \notin {"EIO", "ENOMEM"}
      BY <2>1, <2>2 DEF UnitsInv, Ended
    <2>4. (r = "ok" <=> WellFormed(c)) /\ Len(u) = IF r = "ok" THEN Cardinality(Marks(c)) \div 2 ELSE 0
      BY <2>3 DEF ThreadInv
    <2>5. WellFormed(c) \in BOOLEAN
      BY Zenon DEF WellFormed
    <2>6. (r = "ok") = WellFormed(c)
      BY <2>4, <2>5
    <2>7. QED  BY <2>2, <2>4, <2>6
  <1>2. QED
    BY <1>1, UnitsStarts, UnitsSteps, PTL DEF UnitsSpec

----------------------------------------------------------------------------
(* The static template, until a request comes while another loads it. *)

Loads == {"close", "get", "pack"}
Packed == Pack(file, ";")

\* What holds of thread t while no request has come during a loading.
ThreadTemplate(t) ==
    /\ doing[t] = "get" => template = Nothing
    /\ doing[t] = "pack" => template = file
    /\ doing[t] = "apply" => template = Packed
    /\ doing[t] \in {"split", "process"} => corpus[t] = DedupSlashes(ApplyMustach(Packed, part[t]))

Unraced ==
    /\ \A t, u \in Threads : t # u /\ doing[t] \in Loads => doing[u] \notin Loads \union {"apply"}
    /\ template \in {Nothing, Packed} \/ \E t \in Threads : doing[t] = "pack"
    /\ \A t \in Threads : ThreadTemplate(t)

TemplateInv ==
    /\ file \in Template /\ doing = [t \in Threads |-> doing[t]] /\ DOMAIN corpus = Threads
    /\ ~raced => Unraced

LEMMA TemplateSteps == TemplateInv /\ [UnitsNext]_unitVars => TemplateInv'
  <1>1. SUFFICES ASSUME TemplateInv, [UnitsNext]_unitVars  PROVE TemplateInv'
    OBVIOUS
  <1>2. CASE UNCHANGED unitVars
    BY <1>1, <1>2 DEF unitVars, TemplateInv, Unraced, ThreadTemplate, Packed
  <1>3. ASSUME NEW t \in Threads, NEW d, doing' = [doing EXCEPT ![t] = d], file' = file, part' = part,
               \A u \in Threads : u # t => corpus'[u] = corpus[u], DOMAIN corpus' = Threads,
               ~raced' => /\ ~raced
                          /\ template' = template \/ \A u \in Threads : u # t => doing[u] \notin Loads \union {"apply"}
                          /\ d \in Loads => \A u \in Threads : u # t => doing[u] \notin Loads \union {"apply"}
                          /\ d = "apply" => \A u \in Threads : u # t => doing[u] \notin Loads
                          /\ template' \in {Nothing, Packed} \/ d = "pack" \/ \E u \in Threads : u # t /\ doing[u] = "pack"
                          /\ d = "get" => template' = Nothing
                          /\ d = "pack" => template' = file
                          /\ d = "apply" => template' = Packed
                          /\ d \in {"split", "process"} => corpus'[t] = DedupSlashes(ApplyMustach(Packed, part[t]))
        PROVE  TemplateInv'
    <2>1. doing' = [u \in Threads |-> doing'[u]] /\ doing'[t] = d /\ \A u \in Threads : u # t => doing'[u] = doing[u]
      BY <1>1, <1>3 DEF TemplateInv
    <2>2. Packed' = Packed /\ file \in Template
      BY <1>1, <1>3 DEF TemplateInv, Packed
    <2>3. ASSUME ~raced'  PROVE Unraced'
      <3>1. Unraced
        BY <1>1, <1>3, <2>3 DEF TemplateInv
      <3>2. \A v, u \in Threads : v # u /\ doing'[v] \in Loads => doing'[u] \notin Loads \union {"apply"}
        BY <1>3, <2>1, <2>3, <3>1 DEF Unraced, Loads
      <3>3. template' \in {Nothing, Packed'} \/ \E u \in Threads : doing'[u] = "pack"
        BY <1>3, <2>1, <2>2, <2>3
      <3>4. ASSUME NEW u \in Threads  PROVE ThreadTemplate(u)'
        <4>1. CASE u = t
          BY <1>3, <2>1, <2>2, <2>3, <4>1 DEF ThreadTemplate
        <4>2. CASE u # t
          <5>1. ThreadTemplate(u) /\ doing'[u] = doing[u] /\ corpus'[u] = corpus[u] /\ part' = part /\ file' = file
            BY <1>3, <2>1, <3>1, <4>2 DEF Unraced
          <5>2. template' = template \/ doing[u] \notin Loads \union {"apply"}
            BY <1>3, <2>3, <4>2
          <5>3. QED  BY <2>2, <5>1, <5>2 DEF ThreadTemplate, Loads
        <4>3. QED  BY <4>1, <4>2
      <3>5. QED  BY <3>2, <3>3, <3>4 DEF Unraced
    <2>4. QED  BY <1>3, <2>1, <2>2, <2>3 DEF TemplateInv
  <1>4. file # Nothing /\ Packed # Nothing /\ DOMAIN corpus = Threads
    BY <1>1, InputTexts DEF TemplateInv, Packed
  <1>5. ASSUME NEW t \in Threads, ~raced, doing[t] \in Loads  PROVE \A u \in Threads : u # t => doing[u] \notin Loads \union {"apply"}
    BY <1>1, <1>5 DEF TemplateInv, Unraced
  <1>6. ASSUME NEW t \in Threads, ~raced
        PROVE  ThreadTemplate(t) /\ (template \in {Nothing, Packed} \/ \E u \in Threads : doing[u] = "pack")
    BY <1>1, <1>6 DEF TemplateInv, Unraced
  <1>7. ASSUME NEW t \in Threads, Begin(t)  PROVE TemplateInv'
    <2>1. PICK d : d = IF template # Nothing THEN "apply" ELSE "close"
      OBVIOUS
    <2>2. /\ doing' = [doing EXCEPT ![t] = d] /\ file' = file /\ part' = part /\ corpus' = corpus /\ template' = template
          /\ ~raced' => ~raced /\ \A u \in Threads : doing[u] \notin Loads
      BY <1>7, <2>1 DEF Begin, Move, KeepText, Loads
    <2>3. ASSUME ~raced'  PROVE template \in {Nothing, Packed} /\ (template = Nothing => \A u \in Threads : doing[u] # "apply")
      BY <1>4, <1>6, <2>2, <2>3 DEF ThreadTemplate, Loads
    <2>4. QED  BY <1>3, <1>4, <2>1, <2>2, <2>3
  <1>8. ASSUME NEW t \in Threads, CloseTemplate(t)  PROVE TemplateInv'
    <2>1. /\ doing[t] = "close" /\ doing' = [doing EXCEPT ![t] = "get"] /\ file' = file /\ part' = part
          /\ corpus' = corpus /\ template' = Nothing /\ raced' = raced
      BY <1>8 DEF CloseTemplate, Move, KeepText
    <2>2. QED  BY <1>3, <1>4, <1>5, <2>1 DEF Loads
  <1>9. ASSUME NEW t \in Threads, GetTemplate(t)  PROVE TemplateInv'
    <2>1. /\ doing[t] = "get" /\ doing' = [doing EXCEPT ![t] = "pack"] /\ file' = file /\ part' = part
          /\ corpus' = corpus /\ template' = file /\ raced' = raced
      BY <1>9 DEF GetTemplate, Move, KeepText
    <2>2. QED  BY <1>3, <1>4, <1>5, <2>1 DEF Loads
  <1>10. ASSUME NEW t \in Threads, GetFails(t)  PROVE TemplateInv'
    <2>1. /\ doing[t] = "get" /\ doing' = [doing EXCEPT ![t] = "end"] /\ file' = file /\ part' = part
          /\ corpus' = corpus /\ template' = template /\ raced' = raced
      BY <1>10 DEF GetFails, Move
    <2>2. ~raced => template = Nothing
      BY <1>6, <2>1 DEF ThreadTemplate
    <2>3. QED  BY <1>3, <1>4, <2>1, <2>2 DEF Loads
  <1>11. ASSUME NEW t \in Threads, PackTemplate(t)  PROVE TemplateInv'
    <2>1. /\ doing[t] = "pack" /\ doing' = [doing EXCEPT ![t] = "apply"] /\ file' = file /\ part' = part
          /\ corpus' = corpus /\ template' = IF template = Nothing THEN Nothing ELSE Pack(template, ";")
          /\ raced' = raced
      BY <1>11 DEF PackTemplate, Move, KeepText
    <2>2. ~raced => template' = Packed
      BY <1>4, <1>6, <2>1 DEF Packed, ThreadTemplate
    <2>3. QED  BY <1>3, <1>4, <1>5, <2>1, <2>2 DEF Loads
  <1>12. ASSUME NEW t \in Threads, Apply(t)  PROVE TemplateInv'
    <2>1. PICK c : c = IF template = Nothing THEN <<>> ELSE DedupSlashes(ApplyMustach(template, part[t]))
      OBVIOUS
    <2>2. /\ doing[t] = "apply" /\ doing' = [doing EXCEPT ![t] = "split"] /\ file' = file /\ part' = part
          /\ corpus' = [corpus EXCEPT ![t] = c] /\ template' = template /\ raced' = raced
      BY <1>12, <2>1 DEF Apply, Move
    <2>3. ~raced => template = Packed
      BY <1>6, <2>2 DEF ThreadTemplate
    <2>4. /\ ~raced => corpus'[t] = DedupSlashes(ApplyMustach(Packed, part[t]))
          /\ DOMAIN corpus' = Threads /\ \A u \in Threads : u # t => corpus'[u] = corpus[u]
      BY <1>4, <2>1, <2>2, <2>3
    <2>5. QED  BY <1>3, <2>2, <2>3, <2>4 DEF Loads
  <1>13. ASSUME NEW t \in Threads, ApplyFails(t)  PROVE TemplateInv'
    <2>1. /\ doing[t] = "apply" /\ doing' = [doing EXCEPT ![t] = "end"] /\ file' = file /\ part' = part
          /\ corpus' = corpus /\ template' = template /\ raced' = raced
      BY <1>13 DEF ApplyFails, Move
    <2>2. ~raced => template = Packed
      BY <1>6, <2>1 DEF ThreadTemplate
    <2>3. QED  BY <1>3, <1>4, <2>1, <2>2 DEF Loads
  <1>14. ASSUME NEW t \in Threads, SplitEnd(t) \/ SplitUnit(t) \/ SplitFails(t) \/ ProcessUnits(t)  PROVE TemplateInv'
    <2>1. PICK d \in {"split", "process", "end"} :
             /\ doing[t] \in {"split", "process"} /\ (doing' = [doing EXCEPT ![t] = d] \/ (doing' = doing /\ d = doing[t]))
             /\ file' = file /\ part' = part /\ corpus' = corpus /\ template' = template /\ raced' = raced
      <3>1. CASE SplitEnd(t)
        BY <3>1 DEF SplitEnd, NoUnit, Move
      <3>2. CASE SplitUnit(t)
        BY <3>2 DEF SplitUnit
      <3>3. CASE SplitFails(t)
        BY <3>3 DEF SplitFails, Move
      <3>4. CASE ProcessUnits(t)
        <4>1. /\ doing[t] = "process" /\ doing' = [doing EXCEPT ![t] = "end"] /\ raced' = raced
              /\ file' = file /\ part' = part /\ corpus' = corpus /\ template' = template
          BY <3>4 DEF ProcessUnits, Move
        <4>2. QED  BY <4>1
      <3>5. QED  BY <1>14, <3>1, <3>2, <3>3, <3>4
    <2>2. doing' = [doing EXCEPT ![t] = d]
      BY <1>1, <2>1 DEF TemplateInv
    <2>3. ~raced => /\ corpus[t] = DedupSlashes(ApplyMustach(Packed, part[t]))
                    /\ template \in {Nothing, Packed} \/ \E u \in Threads : u # t /\ doing[u] = "pack"
      BY <1>6, <2>1 DEF ThreadTemplate
    <2>4. QED  BY <1>3, <1>4, <2>1, <2>2, <2>3 DEF Loads
  <1>15. CASE UnitsNext
    BY <1>7, <1>8, <1>9, <1>10, <1>11, <1>12, <1>13, <1>14, <1>15 DEF UnitsNext
  <1>16. QED
    BY <1>1, <1>2, <1>15

\* In any interleaving of any number of requests, with any failure: until one comes during the loading of the
\* template by another, all get the whole template, whichever has loaded it; and always a text is split exactly
\* when it is well formed (unit_process_raw, corpus_split).
THEOREM UnitsSplitCorrect == UnitsSpec => []SplitExact
  <1>1. UnitsInit => TemplateInv
    BY DEF UnitsInit, UnitsInput, UnitsStart, TemplateInv, Unraced, ThreadTemplate, Loads
  <1>2. TemplateInv /\ [UnitsNext]_unitVars => TemplateInv'
    BY TemplateSteps
  <1>3. TemplateInv => (~raced => TemplateWhole)
    BY DEF TemplateInv, Unraced, ThreadTemplate, TemplateWhole, Packed
  <1>4. (~raced => TemplateWhole) /\ SplitIffWellFormed => SplitExact
    BY DEF SplitExact
  <1>5. QED
    BY <1>1, <1>2, <1>3, <1>4, SplitCorrect, PTL DEF UnitsSpec
=============================================================================
