----------------------------- MODULE AfmBinding -----------------------------
(***************************************************************************)
(* The verbs of afm-system-daemon: afm-binding.c with the runner           *)
(* afm-urun.c, above the database (AfmUdb) and systemd (Systemd).          *)
(*                                                                         *)
(* The binder serialises the handlers of the API (noconcurrency): a        *)
(* request holds the API (busy) until it replies or asks the binder for a  *)
(* permission, whose answer comes later.  Each call on the bus is a step,  *)
(* so systemd and SIGHUP act between two of them.                          *)
(*                                                                         *)
(* The answers of auth_check are those of AuthCheck: granted, denied       *)
(* (errors included) or out of memory.  The check of the permission of the *)
(* verb itself is done by the binder, before.                              *)
(***************************************************************************)
EXTENDS AfmUdb, Systemd

CONSTANTS
    Requests,       \* the requests
    Calls,          \* Calls[r]: the calls that request r can be
    IdOf,           \* IdOf[u]: the id of the application of unit file u
    Fold(_),        \* the id in lower case
    Parametric,     \* the unit files of name "...@.service", one instance per user
    Uids,           \* the users
    MemoryFails,    \* may an allocation fail?
    Trials,         \* number of polls of wait_state_stable
    Bad,
    None

AnyUser == 0

\* The D-Bus path of a unit for a user.
PathOf(u, uid) == <<u, IF u \in Parametric THEN uid ELSE AnyUser>>

ASSUME PathsAssumption == \A u \in UnitFiles, uid \in Uids : PathOf(u, uid) \in Paths
ASSUME TrialsAssumption == Trials \in Nat \ {0}
ASSUME BindingAssumption == MemoryFails \in BOOLEAN /\ None \notin Requests \cup {"ok", "running"}

VARIABLES
    rq,         \* the requests: place, call, params and progress
    busy,       \* the request whose handler runs
    dpaths,     \* dpaths[u]: the paths recorded in the data of u, by user
    granted,    \* history: the permissions each request got
    stopped     \* history: the paths stopped for each request

bindingVars == <<rq, busy, dpaths, granted, stopped>>
vars == <<udbVars, systemdVars, bindingVars>>

Verbs == {"runnables", "detail", "start", "once", "pause", "resume", "terminate",
          "runners", "state"}
Params == {"UID", "All", "Id", "RunId"}

Required(verb) ==
    CASE verb \in {"detail", "start", "once"} -> {"Id"}
      [] verb \in {"pause", "resume", "terminate", "state"} -> {"RunId"}
      [] verb \in {"runnables", "runners"} -> {}

Optional(verb) == IF verb \in {"runnables", "runners"} THEN {"All"} ELSE {}

Places == {"unborn", "uid", "all", "runid", "final", "wait", "pid", "find", "findpid",
           "findstate", "stop", "list", "liststate", "replied"}

NoRequest == [pc |-> "unborn", call |-> None, status |-> "ok", found |-> {}, uid |-> AnyUser,
              id |-> None, runid |-> 0, path |-> None, polls |-> 0, job |-> FALSE,
              apps |-> <<>>, old |-> FALSE, reply |-> None, told |-> {}]

----------------------------------------------------------------------------
(* extract_params: the argument is a number, a string, or an object whose fields *)
(* may be absent (None) or of a bad type (Bad).                               *)

Extract(call) ==
    LET expected == Required(call.verb) \cup Optional(call.verb)
        object == call.form = "object"
        badUid == object /\ call.uid = Bad
        setUid == object /\ call.uid \notin {None, Bad, call.client}
        all == object /\ "All" \in expected /\ call.all
        id == /\ expected \cap {"Id", "RunId"} # {}
              /\ call.form = "string" \/ (object /\ call.id # None)
        badRun == object /\ "RunId" \in expected /\ call.runid = Bad
        runid == /\ "RunId" \in expected
                 /\ call.form = "int" \/ (object /\ call.runid \notin {None, Bad})
    IN [NoRequest EXCEPT
          !.call = call,
          !.status = IF badUid \/ badRun THEN "bad_request" ELSE "ok",
          !.found = {f \in Params : \/ f = "UID" /\ setUid
                                    \/ f = "All" /\ all
                                    \/ f = "Id" /\ id
                                    \/ f = "RunId" /\ runid},
          !.uid = IF setUid THEN call.uid ELSE call.client,
          !.id = IF id THEN call.id ELSE None,
          !.runid = IF runid THEN call.runid ELSE 0]

----------------------------------------------------------------------------
(* The chain of the checks. *)

\* check_permission_all then check_runid
AfterUid(q) == IF q.status # "ok" \/ "All" \notin q.found THEN "runid" ELSE "all"

\* check_permission_uid
AfterParams(q) == IF q.status # "ok" \/ "UID" \notin q.found THEN AfterUid(q) ELSE "uid"

Update(r, q) == rq' = [rq EXCEPT ![r] = q]
Replied(q, what) ==
    [q EXCEPT !.pc = "replied", !.reply = what, !.polls = 0, !.job = FALSE, !.apps = <<>>, !.old = FALSE]
Asking(q) == q.pc \in {"uid", "all"}

\* The request goes to q: it frees the API when it replies or asks.
Become(r, q) ==
    /\ Update(r, q)
    /\ busy' = IF q.pc = "replied" \/ Asking(q) THEN None ELSE r

\* with_params, called by the binder
Arrive(r) ==
    /\ serving /\ busy = None
    /\ rq[r].pc = "unborn"
    /\ \E call \in Calls[r] :
          \/ LET q == Extract(call) IN Become(r, [q EXCEPT !.pc = AfterParams(q)])
          \/ MemoryFails /\ Become(r, Replied([NoRequest EXCEPT !.call = call], "out_of_memory"))
    /\ UNCHANGED <<udbVars, systemdVars, dpaths, granted, stopped>>

AuthStatusMutant(q, answer) == IF answer = "nomem" THEN "out_of_memory" ELSE q.status

\* has_auth_cb
AuthStatus(q, answer) ==
    CASE answer = "nomem" -> "out_of_memory"
      [] answer = "denied" -> "forbidden"
      [] answer = "granted" -> q.status

\* The answer of auth_check for set-uid or view-all.
AuthAnswer(r) ==
    /\ busy = None
    /\ Asking(rq[r])
    /\ \E answer \in {"granted", "denied"} \cup (IF MemoryFails THEN {"nomem"} ELSE {}) :
          LET q == [rq[r] EXCEPT !.status = AuthStatus(rq[r], answer)] IN
          /\ Become(r, [q EXCEPT !.pc = IF @ = "uid" THEN AfterUid(q) ELSE "runid"])
          /\ granted' = [granted EXCEPT ![r] = IF answer = "granted" THEN @ \cup {rq[r].pc} ELSE @]
    /\ UNCHANGED <<udbVars, systemdVars, dpaths, stopped>>

----------------------------------------------------------------------------
(* Applications and their paths. *)

\* get_no_case: the applications that an id can name, the last one recorded
\* with that very id, else one that differs by the case.
Named(id) ==
    LET exact == {i \in DOMAIN db : IdOf[db[i].unit] = id}
        last == {i \in exact : \A j \in exact : j <= i}
    IN IF exact # {} THEN {db[i].unit : i \in last}
       ELSE {db[i].unit : i \in {j \in DOMAIN db : Fold(IdOf[db[j].unit]) = Fold(id)}}

RecordedPathMutant(u, uid) == IF dpaths[u] = {} THEN None ELSE CHOOSE p \in dpaths[u] : TRUE

\* The path get_basis finds in the data of u, None if it has to ask systemd.
RecordedPath(u, uid) == IF PathOf(u, uid) \in dpaths[u] THEN PathOf(u, uid) ELSE None

\* get_basis gives the path p of u for the user, or None: the path of a unit is
\* loaded, then recorded.
GetBasis(u, uid, p) ==
    \/ RecordedPath(u, uid) # None /\ p = RecordedPath(u, uid) /\ UNCHANGED dpaths
    \/ /\ RecordedPath(u, uid) = None
       /\ \/ p = PathOf(u, uid) /\ dpaths' = [dpaths EXCEPT ![u] = @ \cup {p}]
          \/ (BusFails \/ MemoryFails) /\ p = None /\ UNCHANGED dpaths

\* The search of path p in the database: get_basis is called on the applications
\* up to the first one of that path, i (0 if there is none).
SearchPath(uid, p, i) ==
    \E got \in SUBSET DOMAIN db :
        LET matching == {j \in got : PathOf(db[j].unit, uid) = p}
            visited == {j \in got : i = 0 \/ j <= i}
        IN
        /\ {j \in DOMAIN db : RecordedPath(db[j].unit, uid) # None} \subseteq got
        /\ BusFails \/ MemoryFails \/ got = DOMAIN db
        /\ i = IF matching = {} THEN 0 ELSE Min(matching)
        /\ dpaths' = [u \in UnitFiles |->
               dpaths[u] \cup {PathOf(u, uid) : j \in {k \in visited : db[k].unit = u}}]

\* afm_urun_search_runid for the path p: its status and the pid.  When the bus fails
\* errno is what it was.
SearchRunid(p, status, pid) ==
    \/ p = None /\ pid = 0 /\ status = "not_found"
    \/ p # None /\ pid = unit_pid(p) /\ status = IF pid = 0 THEN "not_running" ELSE "ok"
    \/ p # None /\ BusFails /\ pid = 0 /\ status \in {"not_found", "not_running"}

\* check_runid
CheckRunid(r) ==
    LET q == rq[r]
        search == /\ q.status = "ok" /\ "RunId" \in Required(q.call.verb)
                  /\ q.found \cap {"RunId", "Id"} = {"Id"}
        to(status, pid) == [q EXCEPT !.pc = "final", !.status = status, !.runid = pid,
                                     !.found = IF pid = 0 THEN @ ELSE @ \cup {"RunId"}]
    IN
    /\ busy = r /\ q.pc = "runid"
    /\ \/ ~search /\ Become(r, [q EXCEPT !.pc = "final"]) /\ UNCHANGED dpaths
       \/ /\ search /\ Named(q.id) = {}
          /\ Become(r, to("not_found", 0)) /\ UNCHANGED dpaths
       \/ /\ search
          /\ \E u \in Named(q.id), p \in Paths \cup {None},
                status \in {"ok", "not_found", "not_running"}, pid \in Pids \cup {0} :
                /\ GetBasis(u, q.uid, p)
                /\ SearchRunid(p, status, pid)
                /\ Become(r, to(status, pid))
    /\ UNCHANGED <<udbVars, systemdVars, granted, stopped>>

----------------------------------------------------------------------------
(* check_final: the error, or the action of the verb. *)

Acts(q) == q.status = "ok" /\ Required(q.call.verb) \subseteq q.found

FinalError(r) ==
    /\ busy = r /\ rq[r].pc = "final"
    /\ ~Acts(rq[r])
    /\ Become(r, Replied(rq[r], IF rq[r].status = "ok" THEN "bad_request" ELSE rq[r].status))
    /\ UNCHANGED <<udbVars, systemdVars, dpaths, granted, stopped>>

Acting(r, verbs) == busy = r /\ rq[r].pc = "final" /\ Acts(rq[r]) /\ rq[r].call.verb \in verbs

\* a_pause and a_resume: not implemented
ActPause(r) ==
    /\ Acting(r, {"pause", "resume"})
    /\ Become(r, Replied(rq[r], "internal_error"))
    /\ UNCHANGED <<udbVars, systemdVars, dpaths, granted, stopped>>

\* a_runnables and a_detail
ActQuery(r) ==
    /\ Acting(r, {"runnables", "detail"})
    /\ LET q == rq[r] IN
       CASE q.call.verb = "runnables" ->
              Become(r, [Replied(q, "ok") EXCEPT
                           !.told = {a.unit : a \in Range(Applications("All" \in q.found))}])
         [] q.call.verb = "detail" /\ Named(q.id) = {} -> Become(r, Replied(q, "not_found"))
         [] q.call.verb = "detail" /\ Named(q.id) # {} ->
              \E u \in Named(q.id) : Become(r, [Replied(q, "ok") EXCEPT !.told = {u}])
    /\ UNCHANGED <<udbVars, systemdVars, dpaths, granted, stopped>>

----------------------------------------------------------------------------
(* a_start and a_once: afm_urun_once. *)

ActStart(r) ==
    LET q == rq[r] IN
    /\ Acting(r, {"start", "once"})
    /\ \/ Named(q.id) = {} /\ Become(r, Replied(q, "not_found")) /\ UNCHANGED <<systemdVars, dpaths>>
       \/ \E u \in Named(q.id), p \in Paths \cup {None}, done \in BusResults :
             /\ GetBasis(u, q.uid, p)
             /\ \/ /\ p # None /\ done
                   /\ unit_start(p)
                   /\ Become(r, [q EXCEPT !.pc = "wait", !.path = p, !.job = TRUE])
                \/ /\ p = None \/ ~done
                   /\ Become(r, Replied(q, "cannot_start"))
                   /\ UNCHANGED systemdVars
    /\ UNCHANGED <<udbVars, granted, stopped>>

PollMutant(q, job) == [q EXCEPT !.job = job]

\* The end of a turn that was not conclusive.
Poll(q, job) == IF q.polls + 1 < Trials THEN [q EXCEPT !.polls = @ + 1, !.job = job]
                ELSE Replied(q, "cannot_start")

\* One turn of wait_state_stable: the job has to vanish, then the state has to
\* be stable.
WaitStable(r) ==
    LET q == rq[r]
        pending == q.job /\ job_is_pending(q.path, "start")
    IN
    /\ busy = r /\ q.pc = "wait"
    /\ \E job \in IF BusFails THEN {q.job, FALSE} ELSE {pending},
          state \in {unit_state(q.path)} \cup (IF BusFails THEN {"INVALID"} ELSE {}) :
          \/ /\ ~job /\ state \in {"active", "inactive"}
             /\ Become(r, [q EXCEPT !.pc = "pid", !.job = FALSE])
          \/ ~job /\ state = "failed" /\ Become(r, Replied(q, "cannot_start"))
          \/ /\ job \/ state \notin {"active", "inactive", "failed"}
             /\ Become(r, Poll(q, job))
    /\ UNCHANGED <<udbVars, systemdVars, dpaths, granted, stopped>>

\* The pid of the started unit; a_once asks for its state.
StartedPid(r) ==
    LET q == rq[r]
        pid == unit_pid(q.path)
    IN
    /\ busy = r /\ q.pc = "pid"
    /\ \/ BusFails /\ Become(r, Replied(q, "cannot_start"))
       \/ IF q.call.verb = "start" \/ pid = 0
          THEN Become(r, [Replied(q, "ok") EXCEPT !.runid = pid])
          ELSE Become(r, [q EXCEPT !.pc = "find", !.runid = pid])
    /\ UNCHANGED <<udbVars, systemdVars, dpaths, granted, stopped>>

----------------------------------------------------------------------------
(* afm_urun_state, for a_state and for a_once. *)

\* The reply when there is no state: an error for "state", nothing for "once".
NoState(q) == Replied(q, IF q.call.verb = "state" THEN "internal_error" ELSE "ok")

\* The path of the pid, on the user bus where no application is, then on the
\* system bus; then the application of that path.
FindRunid(r) ==
    LET q == rq[r] IN
    /\ \/ Acting(r, {"state"})
       \/ busy = r /\ q.pc = "find"
    /\ \/ /\ get_unit_dpath_by_pid(q.runid) = {} \/ BusFails
          /\ Become(r, NoState(q)) /\ UNCHANGED dpaths
       \/ \E p \in get_unit_dpath_by_pid(q.runid), i \in 0..Len(db) :
             /\ SearchPath(q.uid, p, i)
             /\ IF i = 0 THEN Become(r, NoState(q))
                ELSE Become(r, [q EXCEPT !.pc = "findpid", !.path = p, !.told = {db[i].unit}])
    /\ UNCHANGED <<udbVars, systemdVars, granted, stopped>>

FindPid(r) ==
    /\ busy = r /\ rq[r].pc = "findpid"
    /\ \/ Become(r, [rq[r] EXCEPT !.pc = "findstate", !.polls = unit_pid(rq[r].path)])
       \/ BusFails /\ Become(r, NoState(rq[r]))
    /\ UNCHANGED <<udbVars, systemdVars, dpaths, granted, stopped>>

FindState(r) ==
    /\ busy = r /\ rq[r].pc = "findstate"
    /\ \/ /\ rq[r].polls > 0 /\ unit_state(rq[r].path) = "active"
          /\ \/ Become(r, Replied(rq[r], "running"))
             \/ MemoryFails /\ Become(r, NoState(rq[r]))
       \/ /\ rq[r].polls = 0 \/ unit_state(rq[r].path) # "active" \/ BusFails
          /\ Become(r, NoState(rq[r]))
    /\ UNCHANGED <<udbVars, systemdVars, dpaths, granted, stopped>>

----------------------------------------------------------------------------
(* afm_urun_terminate and afm_urun_list. *)

\* systemd_unit_stop_pid on the user bus fails: no application is there.
ActTerminate(r) ==
    LET q == rq[r] IN
    /\ Acting(r, {"terminate"})
    /\ \/ \E p \in get_unit_dpath_by_pid(q.runid) : Become(r, [q EXCEPT !.pc = "stop", !.path = p])
       \/ /\ get_unit_dpath_by_pid(q.runid) = {} \/ BusFails
          /\ Become(r, Replied(q, "internal_error"))
    /\ UNCHANGED <<udbVars, systemdVars, dpaths, granted, stopped>>

StopUnit(r) ==
    LET q == rq[r] IN
    /\ busy = r /\ q.pc = "stop"
    /\ \/ /\ unit_stop(q.path)
          /\ stopped' = [stopped EXCEPT ![r] = @ \cup {q.path}]
          /\ Become(r, Replied(q, "ok"))
       \/ BusFails /\ Become(r, Replied(q, "internal_error")) /\ UNCHANGED <<systemdVars, stopped>>
    /\ UNCHANGED <<udbVars, dpaths, granted>>

\* The list of the applications is kept while it is visited.
ActRunners(r) ==
    /\ Acting(r, {"runners"})
    /\ Become(r, [rq[r] EXCEPT !.pc = "list", !.apps = Applications("All" \in rq[r].found)])
    /\ UNCHANGED <<udbVars, systemdVars, dpaths, granted, stopped>>

\* get_basis on the data of applications that an update has replaced
HeldBasis(u, uid, p) == p = PathOf(u, uid) \/ (p = None /\ (BusFails \/ MemoryFails))

\* The pid of the next application, if any.
ListPid(r) ==
    LET q == rq[r]
        next == [q EXCEPT !.apps = Tail(@)]
    IN
    /\ busy = r /\ q.pc = "list"
    /\ \/ q.apps = <<>> /\ Become(r, Replied(q, "ok")) /\ UNCHANGED dpaths
       \/ /\ q.apps # <<>>
          /\ \E p \in Paths \cup {None} :
                /\ IF q.old THEN HeldBasis(Head(q.apps).unit, q.uid, p) /\ UNCHANGED dpaths
                            ELSE GetBasis(Head(q.apps).unit, q.uid, p)
                /\ \/ /\ p # None /\ unit_pid(p) > 0
                      /\ Become(r, [q EXCEPT !.pc = "liststate", !.path = p])
                   \/ /\ BusFails \/ (IF p = None THEN TRUE ELSE unit_pid(p) = 0)
                      /\ Become(r, next)
    /\ UNCHANGED <<udbVars, systemdVars, granted, stopped>>

ListState(r) ==
    LET q == rq[r]
        next == [q EXCEPT !.pc = "list", !.apps = Tail(@)]
    IN
    /\ busy = r /\ q.pc = "liststate"
    /\ \/ /\ unit_state(q.path) = "active"
          /\ Become(r, [next EXCEPT !.told = @ \cup {Head(q.apps).unit}])
       \/ /\ unit_state(q.path) # "active" \/ BusFails \/ MemoryFails
          /\ Become(r, next)
    /\ UNCHANGED <<udbVars, systemdVars, dpaths, granted, stopped>>

----------------------------------------------------------------------------

Init ==
    /\ UdbInit
    /\ SystemdInit
    /\ rq = [r \in Requests |-> NoRequest]
    /\ busy = None
    /\ dpaths = [u \in UnitFiles |-> {}]
    /\ granted = [r \in Requests |-> {}]
    /\ stopped = [r \in Requests |-> {}]

Handle(r) ==
    \/ AuthAnswer(r) \/ CheckRunid(r) \/ FinalError(r) \/ ActPause(r) \/ ActQuery(r)
    \/ ActStart(r) \/ WaitStable(r) \/ StartedPid(r)
    \/ FindRunid(r) \/ FindPid(r) \/ FindState(r)
    \/ ActTerminate(r) \/ StopUnit(r) \/ ActRunners(r) \/ ListPid(r) \/ ListState(r)

\* The recorded paths are data of the applications: an update forgets them,
\* but the handler that visits the former list keeps it.
Reload ==
    /\ UpdateEnd
    /\ dpaths' = [u \in UnitFiles |-> {}]
    /\ rq' = [r \in Requests |-> [rq[r] EXCEPT !.old = rq[r].pc \in {"list", "liststate"}]]
    /\ UNCHANGED <<systemdVars, busy, granted, stopped>>

Database ==
    /\ Change \/ Signal \/ SignalFails \/ UpdateBegin \/ ScanEntry \/ UpdateFail
    /\ UNCHANGED <<systemdVars, bindingVars>>

Units ==
    /\ SystemdNext
    /\ UNCHANGED <<udbVars, rq, busy, dpaths, granted, stopped>>

Next ==
    \/ \E r \in Requests : Arrive(r) \/ Handle(r)
    \/ Database \/ Reload
    \/ Units

Spec == Init /\ [][Next]_vars

\* The binder schedules the handlers and answers the questions.  Nothing is
\* asked of systemd: the polls are counted.
FairSpec == Spec /\ \A r \in Requests : WF_vars(Handle(r))

----------------------------------------------------------------------------
(* Properties. *)

TypeOK ==
    /\ UdbTypeOK /\ SystemdTypeOK
    /\ busy \in Requests \cup {None}
    /\ \A r \in Requests :
          /\ rq[r].pc \in Places
          /\ rq[r].pc # "unborn" => rq[r].call \in Calls[r]
          /\ rq[r].found \subseteq Params
          /\ busy = r <=> rq[r].pc \notin {"unborn", "uid", "all", "replied"}
    /\ \A u \in UnitFiles : dpaths[u] \subseteq Paths

\* A request that did something, for another user or on all the applications,
\* had the permission for it: the answers of auth_check come while other
\* requests run, and a refusal is not forgotten by the checks that follow
\* (check_permission_uid, check_permission_all, has_auth_cb, check_final).
ActsWithPermission ==
    \A r \in Requests :
        rq[r].reply \in {"ok", "running"} \/ rq[r].path # None =>
            /\ rq[r].uid # rq[r].call.client => "uid" \in granted[r]
            /\ "All" \in rq[r].found => "all" \in granted[r]

\* The paths of the applications called id.
PathsOf(id, uid) == {PathOf(u, uid) : u \in {v \in UnitFiles : Fold(IdOf[v]) = Fold(id)}}

\* A runid told to the one who starts an application is the pid of a process
\* of that application for that user, whatever the other users have started and
\* however the database was replaced meanwhile (get_basis, afm_urun_once).
RunidOfTheAsked ==
    \A r \in Requests :
        rq[r].call # None /\ rq[r].call.verb \in {"start", "once"} /\ rq[r].reply = "ok"
        /\ rq[r].runid # 0 =>
            \E p \in PathsOf(rq[r].id, rq[r].uid) : rq[r].runid \in owned[p]

ById(r) == rq[r].call # None /\ "RunId" \notin Extract(rq[r].call).found

\* The path p has had the same pid as the application asked by r.
SamePid(r, p) ==
    \E o \in PathsOf(rq[r].id, rq[r].uid) : o # p /\ rq[r].runid \in owned[o] \cap owned[p]

\* What is stopped for a request by id is the application asked, or one that got the
\* very pid that the application asked had: nothing else leads the stop astray.  That pid
\* does, afm_urun_search_runid taking the one of an ended process.
StopsTheAsked ==
    \A r \in Requests : ById(r) =>
        \A p \in stopped[r] : p \in PathsOf(rq[r].id, rq[r].uid) \/ SamePid(r, p)

\* Every request that reached the API gets its reply: 300 seconds of polling at
\* most hold the others.
EveryRequestReplied == \A r \in Requests : rq[r].pc # "unborn" ~> rq[r].pc = "replied"

\* The runid that a request tells belonged to the application it asked for, for the user it
\* asked for; and what it stops is that application, unless the pid of an ended process of
\* it was given again: at whatever point another request, a reload of the database or the
\* end of a process comes in (get_basis, afm_urun_once, afm_urun_search_runid,
\* afm_urun_terminate).
ActsOnTheAsked == RunidOfTheAsked /\ StopsTheAsked
=============================================================================
