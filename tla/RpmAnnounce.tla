---------------------------- MODULE RpmAnnounce ----------------------------
(***************************************************************************)
(* What the framework can rely on, whatever rpm does: the changes of a     *)
(* transaction set are announced one by one with increasing indexes, no    *)
(* more than its count, the removals before the additions, and nothing     *)
(* once the set is closed.                                                 *)
(***************************************************************************)
EXTENDS Integers

CONSTANTS
    Sets,       \* the transaction sets
    CountOf(_)  \* number of packages that a set adds or removes

VARIABLES
    stage,      \* where each set is
    last,       \* the last index announced for each set
    dir         \* its direction: "removed" or "added"

announceVars == <<stage, last, dir>>

AnnounceInit ==
    /\ stage = [s \in Sets |-> "idle"]
    /\ last = [s \in Sets |-> 0]
    /\ dir = [s \in Sets |-> "removed"]

Open(s) ==
    /\ stage[s] = "idle"
    /\ stage' = [stage EXCEPT ![s] = "open"]
    /\ UNCHANGED <<last, dir>>

\* An index may be skipped: its package was not announced.
Announce(s) ==
    /\ stage[s] = "open"
    /\ \E i \in last[s] + 1 .. CountOf(s) : last' = [last EXCEPT ![s] = i]
    /\ \E d \in {dir[s], "added"} : dir' = [dir EXCEPT ![s] = d]
    /\ UNCHANGED stage

Close(s) ==
    /\ stage[s] \in {"idle", "open"}
    /\ stage' = [stage EXCEPT ![s] = "closed"]
    /\ UNCHANGED <<last, dir>>

AnnounceNext == \E s \in Sets : Open(s) \/ Announce(s) \/ Close(s)

AnnounceSpec == AnnounceInit /\ [][AnnounceNext]_announceVars
=============================================================================
