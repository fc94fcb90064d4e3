------------------------------ MODULE Systemd ------------------------------
(***************************************************************************)
(* systemd, as utils-systemd.c uses it through D-Bus.                      *)
(*                                                                         *)
(* A path is the D-Bus path of a loaded unit.  Start and Stop queue a job  *)
(* in the mode "replace": the job of a path replaces its pending one.      *)
(* systemd does the jobs when it wants, and its services stop or restart   *)
(* alone. ExecMainPID is the pid of the last main process, 0 if there was  *)
(* none: it remains when the process has ended, while its pid can be given *)
(* again to another unit.  Any call fails when the bus does.               *)
(***************************************************************************)
EXTENDS Naturals, FiniteSets

CONSTANTS
    Paths,          \* the D-Bus paths of the units
    Booted,         \* Booted[p]: the pid of the unit started at boot, 0 if it is not
    Pids,           \* the pids that processes can get
    BusFails        \* may the calls on the bus fail?

ASSUME PidsAssumption == Pids \subseteq Nat \ {0} /\ Booted \in [Paths -> Pids \cup {0}]
ASSUME BootedAssumption == \A p, q \in Paths : p # q /\ Booted[p] # 0 => Booted[p] # Booted[q]
ASSUME BusAssumption == BusFails \in BOOLEAN

VARIABLES
    sd,         \* what systemd knows of each path
    owned       \* history: the pids that each path had

systemdVars == <<sd, owned>>

SysD_States == {"inactive", "activating", "active", "deactivating", "failed"}
Jobs == {"none", "start", "stop"}

SystemdTypeOK ==
    /\ sd \in [Paths -> [state : SysD_States, pid : Pids \cup {0}, job : Jobs]]
    /\ owned \in [Paths -> SUBSET Pids]

SystemdInit ==
    /\ sd = [p \in Paths |-> [state |-> IF Booted[p] = 0 THEN "inactive" ELSE "active",
                              pid |-> Booted[p], job |-> "none"]]
    /\ owned = [p \in Paths |-> {Booted[p]} \ {0}]

\* The results of a call on the bus: done or not.
BusResults == IF BusFails THEN BOOLEAN ELSE {TRUE}

Alive(p) == sd[p].state \in {"active", "deactivating"}
FreePids == {n \in Pids : \A p \in Paths : Alive(p) => sd[p].pid # n}

----------------------------------------------------------------------------
(* The calls. *)

unit_pid(p) == sd[p].pid
unit_state(p) == sd[p].state

\* GetUnitByPID finds the unit of a living process.
get_unit_dpath_by_pid(n) == {p \in Paths : Alive(p) /\ sd[p].pid = n}

job_is_pending(p, job) == sd[p].job = job

unit_start(p) == sd' = [sd EXCEPT ![p].job = "start"] /\ UNCHANGED owned
unit_stop(p) == sd' = [sd EXCEPT ![p].job = "stop"] /\ UNCHANGED owned

----------------------------------------------------------------------------
(* What systemd does alone. *)

Launch(p, state) ==
    \E n \in FreePids :
        /\ sd' = [sd EXCEPT ![p] = [state |-> state, pid |-> n, job |-> "none"]]
        /\ owned' = [owned EXCEPT ![p] = @ \cup {n}]

\* A start job: nothing if the unit is active, else a process, that may have
\* ended already.
DoStart(p) ==
    /\ sd[p].job = "start"
    /\ IF sd[p].state = "active"
       THEN sd' = [sd EXCEPT ![p].job = "none"] /\ UNCHANGED owned
       ELSE \E state \in {"active", "inactive", "failed"} : Launch(p, state)

DoStop(p) ==
    /\ sd[p].job = "stop"
    /\ \/ sd[p].state = "active" /\ sd' = [sd EXCEPT ![p].state = "deactivating"]
       \/ sd' = [sd EXCEPT ![p].state = "inactive", ![p].job = "none"]
    /\ UNCHANGED owned

\* The main process ends; the unit is restarted or not.
Exit(p) ==
    /\ sd[p].state = "active"
    /\ \E state \in {"inactive", "activating", "failed"} : sd' = [sd EXCEPT ![p].state = state]
    /\ UNCHANGED owned

Restart(p) ==
    /\ sd[p].state = "activating" /\ sd[p].job = "none"
    /\ Launch(p, "active")

SystemdNext == \E p \in Paths : DoStart(p) \/ DoStop(p) \/ Exit(p) \/ Restart(p)
=============================================================================
