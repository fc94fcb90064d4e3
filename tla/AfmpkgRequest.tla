--------------------------- MODULE AfmpkgRequest ---------------------------
(***************************************************************************)
(* One connection of afmpkg-installerd, from afmpkg_request_init to the    *)
(* moment receive() hands the request over: the lines of the client are    *)
(* given one after the other to afmpkg_request_add_line until the client   *)
(* shuts its side down (end of input), a line is refused, or recv fails.   *)
(* What happens next (afmpkg_request_process, the reply) is in             *)
(* InstallerDaemon.  How bytes are cut into lines is in ReceiveFraming.    *)
(*                                                                         *)
(* A line is its keyword and what the code reads of its argument: the      *)
(* operation of BEGIN and END ("Unset" when not recognised), the number of *)
(* COUNT and INDEX.  Names, paths and identifiers are only compared with   *)
(* NULL by this code: a field is TRUE when its pointer is set.             *)
(***************************************************************************)
EXTENDS Integers, Sequences

CONSTANTS
    Numbers,    \* the values COUNT and INDEX lines carry
    UIntMax,    \* UINT_MAX of the platform
    MaxLines    \* bound: number of lines a client sends

ASSUME NumbersAssumption == Numbers \subseteq Int
ASSUME UIntMaxAssumption == UIntMax \in Nat \ {0}
ASSUME MaxLinesAssumption == MaxLines \in Nat

\* strtol stopped before the end of the string: the line is not a number.
NotANumber == -1

PackageKinds == {"Add", "Remove", "CheckAdd", "CheckRemove"}
Kinds == PackageKinds \cup {"Unset", "GetStatus"}

NumberKeys == {"COUNT", "INDEX"}
NameKeys == {"PACKAGE", "REDPAKID", "ROOT", "TRANSID"}

Line(key, op, val) == [key |-> key, op |-> op, val |-> val]

\* What a client may send.  "other" stands for any line with no known keyword.
Lines ==
    {Line(key, op, 0) : key \in {"BEGIN", "END"}, op \in PackageKinds \cup {"Unset"}}
    \cup {Line(key, "Unset", val) : key \in NumberKeys, val \in Numbers}
    \cup {Line(key, "Unset", 0) : key \in NameKeys \cup {"FILE", "STATUS", "other"}}

VARIABLES
    req,        \* the afmpkg_request_t of the connection
    phase,      \* where afmpkg_serve is
    lines       \* history: the lines given to add_line so far

vars == <<req, phase, lines>>

----------------------------------------------------------------------------
(* The request structure. *)

\* afmpkg_request_init: the fields as they are set before the tree of files
\* is allocated.
InitialRequest ==
    [state |-> "Pending", kind |-> "Unset", scode |-> 0, index |-> 0, count |-> 0,
     transid |-> FALSE, package |-> FALSE, root |-> FALSE, redpakid |-> FALSE,
     files |-> 0]

\* The first error is the one the client is told of.
RequestError(r, code) ==
    IF r.scode = 0 THEN [r EXCEPT !.state = "Error", !.scode = code] ELSE r

----------------------------------------------------------------------------
(* afmpkg_request_add_line: the code it returns, and what it stores when that *)
(* code is 0.  oom: strdup or path_entry_add_length fails.                    *)

CountErrorMutant(r, val) ==
    IF r.count # 0 \/ r.kind = "Unset" THEN -1003
    ELSE IF val = NotANumber THEN -1004
    ELSE IF val < 1 \/ val > UIntMax THEN -1005
    ELSE IF r.index # 0 /\ val <= r.index THEN -1006 ELSE 0

CountError(r, val) ==
    IF r.count # 0 \/ r.kind = "Unset" THEN -1003
    ELSE IF val = NotANumber THEN -1004
    ELSE IF val < 1 \/ val > UIntMax THEN -1005
    ELSE IF r.index # 0 /\ val < r.index THEN -1006 ELSE 0

IndexError(r, val) ==
    IF r.index # 0 \/ r.kind = "Unset" THEN -1011
    ELSE IF val = NotANumber THEN -1012
    ELSE IF val < 1 \/ val > UIntMax THEN -1013
    ELSE IF r.count # 0 /\ val > r.count THEN -1014 ELSE 0

NameErrorTwiceMutant(r, isSet, code, oom) ==
    IF r.kind = "Unset" THEN code ELSE IF oom THEN -1016 ELSE 0

NameErrorEarlyMutant(r, isSet, code, oom) ==
    IF isSet THEN code ELSE IF oom THEN -1016 ELSE 0

\* A field given by name: only once, and only after BEGIN.
NameError(r, isSet, code, oom) ==
    IF isSet \/ r.kind = "Unset" THEN code ELSE IF oom THEN -1016 ELSE 0

BeginError(r, op) == IF r.kind # "Unset" THEN -1001 ELSE IF op = "Unset" THEN -1002 ELSE 0

EndError(r, op) == IF r.kind # op THEN -1008 ELSE 0

FileError(r, oom) == IF r.kind = "Unset" THEN -1009 ELSE IF oom THEN -1010 ELSE 0

StatusError(r, oom) ==
    IF r.kind # "Unset" \/ r.transid THEN -1020 ELSE IF oom THEN -1016 ELSE 0

\* By the keyword of the line.
KeywordError(r, l, oom) ==
    [BEGIN    |-> BeginError(r, l.op),
     COUNT    |-> CountError(r, l.val),
     END      |-> EndError(r, l.op),
     FILE     |-> FileError(r, oom),
     INDEX    |-> IndexError(r, l.val),
     PACKAGE  |-> NameError(r, r.package, -1015, oom),
     REDPAKID |-> NameError(r, r.redpakid, -1017, oom),
     ROOT     |-> NameError(r, r.root, -1018, oom),
     TRANSID  |-> NameError(r, r.transid, -1019, oom),
     STATUS   |-> StatusError(r, oom),
     other    |-> -1021][l.key]

\* Nothing is accepted any more once the request is complete or in error.
LineError(r, l, oom) == IF r.state # "Pending" THEN -1000 ELSE KeywordError(r, l, oom)

StoreLine(r, l) ==
    CASE l.key = "BEGIN"    -> [r EXCEPT !.kind = l.op]
      [] l.key = "COUNT"    -> [r EXCEPT !.count = l.val]
      [] l.key = "END"      -> [r EXCEPT !.state = "Ready"]
      [] l.key = "FILE"     -> [r EXCEPT !.files = @ + 1]
      [] l.key = "INDEX"    -> [r EXCEPT !.index = l.val]
      [] l.key = "PACKAGE"  -> [r EXCEPT !.package = TRUE]
      [] l.key = "REDPAKID" -> [r EXCEPT !.redpakid = TRUE]
      [] l.key = "ROOT"     -> [r EXCEPT !.root = TRUE]
      [] l.key = "TRANSID"  -> [r EXCEPT !.transid = TRUE]
      [] l.key = "STATUS"   -> [r EXCEPT !.transid = TRUE, !.kind = "GetStatus",
                                         !.state = "Ready"]

AddLine(r, l, oom) ==
    LET code == LineError(r, l, oom)
    IN  IF code = 0 THEN StoreLine(r, l) ELSE RequestError(r, code)

----------------------------------------------------------------------------
(* afmpkg_serve up to the end of receive. *)

Init ==
    /\ req = InitialRequest
    /\ phase = "init"
    /\ lines = <<>>

\* afmpkg_request_init: path_entry_create_root may fail; the request is then
\* neither received nor processed and its scode is still 0.
RequestInit ==
    /\ phase = "init"
    /\ phase' \in {"receive", "notInitialised"}
    /\ UNCHANGED <<req, lines>>

\* receive: one more line of the client.
ReceiveLine(l, oom) ==
    /\ phase = "receive"
    /\ Len(lines) < MaxLines
    /\ lines' = Append(lines, l)
    /\ req' = AddLine(req, l, oom)
    /\ phase' = IF LineError(req, l, oom) < 0 THEN "refused" ELSE "receive"

\* receive: recv returned 0, the loop ends with rc = 0 whatever the request is.
EndOfInput ==
    /\ phase = "receive"
    /\ phase' = "accepted"
    /\ UNCHANGED <<req, lines>>

\* receive: recv returned -1.
ReceiveError ==
    /\ phase = "receive"
    /\ req' = RequestError(req, -2000)
    /\ phase' = "refused"
    /\ UNCHANGED lines

Next ==
    \/ RequestInit
    \/ \E l \in Lines, oom \in BOOLEAN : ReceiveLine(l, oom)
    \/ EndOfInput
    \/ ReceiveError

Spec == Init /\ [][Next]_vars

----------------------------------------------------------------------------
(* The grammar of docs/installer-protocol.md, stated on whole requests. *)

IsBodyLine(l) ==
    \/ l.key \in NameKeys \cup {"FILE"}
    \/ l.key \in NumberKeys /\ l.val \in 1..UIntMax

IsPackageRequest(s) ==
    LET body == 2..(Len(s) - 1) IN
    /\ Len(s) >= 2
    /\ s[1].key = "BEGIN" /\ s[1].op \in PackageKinds
    /\ s[Len(s)] = Line("END", s[1].op, 0)
    /\ \A i \in body : IsBodyLine(s[i])
    /\ \A i, j \in body : i # j /\ s[i].key = s[j].key => s[i].key = "FILE"
    /\ \A i, j \in body : s[i].key = "INDEX" /\ s[j].key = "COUNT" => s[i].val <= s[j].val

IsStatusRequest(s) == Len(s) = 1 /\ s[1].key = "STATUS"

IsRequest(s) == IsPackageRequest(s) \/ IsStatusRequest(s)

\* s is a request, or becomes one when its END line is sent.
IsBeginning(s) ==
    \/ s = <<>>
    \/ IsRequest(s)
    \/ IsPackageRequest(Append(s, Line("END", s[1].op, 0)))

----------------------------------------------------------------------------
(* Properties. *)

TypeOK ==
    /\ req \in [state : {"Pending", "Ready", "Error"}, kind : Kinds, scode : Int,
                index : 0..UIntMax, count : 0..UIntMax, transid : BOOLEAN,
                package : BOOLEAN, root : BOOLEAN, redpakid : BOOLEAN, files : Nat]
    /\ phase \in {"init", "receive", "notInitialised", "accepted", "refused"}
    /\ lines \in Seq(Lines)

\* The order-independent grammar of a request and the line by line automaton of
\* afmpkg_request_add_line agree: as long as no line was refused, the request is
\* Ready (with an operation) exactly when the lines received form a request.
ReadyIffGrammar ==
    phase \in {"receive", "accepted"} =>
        ((req.state = "Ready" /\ req.kind # "Unset") <=> IsRequest(lines))

\* A line is refused as soon as no continuation can make a request of what was
\* received, and never before: add_line refuses no beginning of a request (other
\* than for lack of memory), and what it has not refused is the beginning of one.
\* The one exception is an END without BEGIN and without a known operation: it
\* makes the request Ready but leaves its kind Unset.
RefusedIffHopeless ==
    /\ phase = "refused" /\ IsBeginning(lines) => req.scode \in {-1010, -1016, -2000}
    /\ phase \in {"receive", "accepted"} => IsBeginning(lines) \/ req.kind = "Unset"

\* What receive hands over to afmpkg_request_process, and what InstallerDaemon
\* takes as the requests it may get: no error is recorded, a request without
\* operation names no transaction, a status request always names one and
\* carries no count, and the count is the one of the COUNT line if there is one.
HandedOver ==
    phase = "accepted" =>
        /\ req.scode = 0 /\ req.state # "Error"
        /\ req.kind = "Unset" => ~req.transid /\ req.count = 0 /\ req.files = 0
        /\ req.kind = "GetStatus" => req.transid /\ req.count = 0 /\ req.files = 0
        /\ (req.transid) <=> \E i \in DOMAIN lines : lines[i].key \in {"TRANSID", "STATUS"}
        /\ (req.count # 0) <=> \E i \in DOMAIN lines : lines[i].key = "COUNT"
        /\ \A i \in DOMAIN lines : lines[i].key = "COUNT" => req.count = lines[i].val
=============================================================================
