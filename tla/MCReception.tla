---------------------------- MODULE MCReception ----------------------------
(***************************************************************************)
(* What serves a request before its packages are processed, on small       *)
(* instances: a behaviour is either of the bytes of a connection, or of    *)
(* its lines, or of the identifiers that the targets of packages take.     *)
(***************************************************************************)
EXTENDS AfmpkgRequest, ReceiveFraming, AfidManager

VARIABLE mode

\* -1 is an argument that is not a number, 0 and 3 are out of range, 1 and 2
\* make COUNT and INDEX agree or disagree.
MCNumbers == {-1, 0, 1, 2, 3}

\* A connection that is closed, a daemon that has installed nothing.
Closed ==
    /\ stream = <<>> /\ pos = 0 /\ recvs = 0 /\ length = 0 /\ it = 0 /\ place = "end"
    /\ buffer = [i \in 1..BufSize |-> "uninitialised"] /\ delivered = <<>>
NoPackage == AfidInit /\ targets = [p \in Packages |-> 1] /\ pc = [p \in Packages |-> "absent"]

MCInit ==
    /\ mode \in {"bytes", "lines", "identifiers"}
    /\ Init
    /\ IF mode = "bytes" THEN FramingInit ELSE Closed
    /\ IF mode = "identifiers" THEN AfidInit ELSE NoPackage

MCNext ==
    \/ mode = "bytes" /\ FramingNext /\ UNCHANGED <<vars, afidVars, mode>>
    \/ mode = "lines" /\ Next /\ UNCHANGED <<framingVars, afidVars, mode>>
    \/ mode = "identifiers" /\ AfidNext /\ UNCHANGED <<vars, framingVars, mode>>

\* The fairness of FramingFairSpec.
MCSpec ==
    /\ MCInit /\ [][MCNext]_<<vars, framingVars, afidVars, mode>>
    /\ WF_framingVars(mode = "bytes" /\ FramingNext /\ UNCHANGED <<vars, afidVars, mode>>)

\* Nothing is claimed of the identifiers after these harms, which last: what follows
\* is not explored.
MCHarm == harm \subseteq {"forgotten"}
=============================================================================
