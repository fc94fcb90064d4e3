------------------------ MODULE AfmpkgRequest_proofs ------------------------
(***************************************************************************)
(* The line by line automaton of afmpkg_request_add_line recognises the    *)
(* grammar of the protocol, for any number of lines and any numbers in     *)
(* them.  The automaton sees one line and a few fields, the grammar a      *)
(* whole sequence: the invariant says what each field tells of the lines   *)
(* received so far.                                                        *)
(*                                                                         *)
(* Then what afmpkg.c does of the manifest of a request: for any manifest, *)
(* any tree of files and any order of its walks, what is set up is what    *)
(* the manifest asks.  The invariant tells, stage by stage, what the       *)
(* permissions and the types computed so far are; each walk is a fold,     *)
(* whose intermediate values are named by the lemmas of its section.       *)
(***************************************************************************)
EXTENDS AfmpkgRequest, AfmpkgContents, TLAPS, FiniteSetTheorems, SequenceTheorems, WellFoundedInduction

HasKey(s, key) == \E i \in 1..Len(s) : s[i].key = key

\* A package request that only lacks its END line.
IsOpen(s) ==
    /\ Len(s) >= 1
    /\ s[1].key = "BEGIN" /\ s[1].op \in PackageKinds
    /\ \A i \in 2..Len(s) : IsBodyLine(s[i])
    /\ \A i, j \in 2..Len(s) : i # j /\ s[i].key = s[j].key => s[i].key = "FILE"
    /\ \A i, j \in 2..Len(s) : s[i].key = "INDEX" /\ s[j].key = "COUNT" => s[i].val <= s[j].val

\* Every field of the request is set by, and tells of, the line of its keyword.
Recorded(r, s) ==
    /\ r.package <=> HasKey(s, "PACKAGE")
    /\ r.redpakid <=> HasKey(s, "REDPAKID")
    /\ r.root <=> HasKey(s, "ROOT")
    /\ r.transid <=> HasKey(s, "TRANSID")
    /\ r.count # 0 <=> HasKey(s, "COUNT")
    /\ r.index # 0 <=> HasKey(s, "INDEX")
    /\ \A i \in 1..Len(s) : s[i].key = "COUNT" => r.count = s[i].val
    /\ \A i \in 1..Len(s) : s[i].key = "INDEX" => r.index = s[i].val

\* The situations a connection is in as long as nothing was refused.
Fresh(r, s) == s = <<>> /\ r = InitialRequest

Open(r, s) ==
    /\ r.state = "Pending" /\ r.scode = 0
    /\ IsOpen(s) /\ r.kind = s[1].op
    /\ Recorded(r, s)
    /\ ~HasKey(s, "STATUS") /\ ~HasKey(s, "END")

Complete(r, s) ==
    /\ r.state = "Ready" /\ r.scode = 0
    /\ IsPackageRequest(s) /\ r.kind = s[1].op
    /\ Recorded(r, s)
    /\ ~HasKey(s, "STATUS")

Status(r, s) ==
    /\ IsStatusRequest(s)
    /\ r = [InitialRequest EXCEPT !.state = "Ready", !.kind = "GetStatus", !.transid = TRUE]

\* The END line without BEGIN and without a known operation.
Stray(r, s) ==
    /\ Len(s) = 1 /\ s[1].key = "END"
    /\ r = [InitialRequest EXCEPT !.state = "Ready"]

Received(r, s) == Fresh(r, s) \/ Open(r, s) \/ Complete(r, s) \/ Status(r, s) \/ Stray(r, s)

IInv ==
    /\ TypeOK
    /\ phase = "init" => Fresh(req, lines)
    /\ phase \in {"receive", "accepted"} => Received(req, lines)
    /\ phase = "refused" /\ IsBeginning(lines) => req.scode \in {-1010, -1016, -2000}
----------------------------------------------------------------------------
(* Lines and sequences of lines. *)

LEMMA LinesType ==
    ASSUME NEW l \in Lines
    PROVE  /\ l = Line(l.key, l.op, l.val) /\ l.val \in Int
           /\ l.key \in {"BEGIN", "END"} => l.op \in PackageKinds \cup {"Unset"} /\ l.val = 0
           /\ l.key \notin {"BEGIN", "END"} => l.op = "Unset"
  <1>1. ASSUME NEW key \in {"BEGIN", "END"}, NEW op \in PackageKinds \cup {"Unset"}, l = Line(key, op, 0)
        PROVE  l.key = key /\ l.op = op /\ l.val = 0 /\ l = Line(l.key, l.op, l.val)
    BY <1>1 DEF Line
  <1>2. ASSUME NEW key \in NumberKeys, NEW val \in Numbers, l = Line(key, "Unset", val)
        PROVE  l.key = key /\ l.op = "Unset" /\ l.val = val /\ l = Line(l.key, l.op, l.val)
    BY <1>2 DEF Line
  <1>3. ASSUME NEW key \in NameKeys \cup {"FILE", "STATUS", "other"}, l = Line(key, "Unset", 0)
        PROVE  l.key = key /\ l.op = "Unset" /\ l.val = 0 /\ l = Line(l.key, l.op, l.val)
    BY <1>3 DEF Line
  <1>4. QED
    BY <1>1, <1>2, <1>3, NumbersAssumption DEF Lines, NumberKeys, NameKeys

LEMMA LineKeys ==
    ASSUME NEW l \in Lines
    PROVE  l.key \in {"BEGIN", "END", "COUNT", "INDEX", "FILE", "STATUS", "other"} \cup NameKeys
  BY DEF Lines, Line, NumberKeys

LEMMA Appended ==
    ASSUME NEW s \in Seq(Lines), NEW l \in Lines
    PROVE  /\ Append(s, l) \in Seq(Lines)
           /\ Len(s) \in Nat
           /\ Len(Append(s, l)) = Len(s) + 1
           /\ Append(s, l)[Len(s) + 1] = l
           /\ \A i \in 1..Len(s) : Append(s, l)[i] = s[i] /\ s[i] \in Lines
  OBVIOUS

LEMMA HasKeyAppended ==
    ASSUME NEW s \in Seq(Lines), NEW l \in Lines, NEW key
    PROVE  HasKey(Append(s, l), key) <=> HasKey(s, key) \/ l.key = key
  BY Appended DEF HasKey

\* Sending END makes a package request of exactly the open ones.
LEMMA OpenIsBeginning ==
    ASSUME NEW s \in Seq(Lines), s # <<>>
    PROVE  /\ IsPackageRequest(Append(s, Line("END", s[1].op, 0))) => IsOpen(s)
           /\ IsOpen(s) => IsPackageRequest(Append(s, Line("END", s[1].op, 0)))
  <1> DEFINE e == Line("END", s[1].op, 0)
             t == Append(s, e)
  <1>1. Len(s) \in Nat /\ Len(s) >= 1
    OBVIOUS
  <1>2. Len(t) = Len(s) + 1 /\ t[Len(t)] = e /\ \A i \in 1..Len(s) : t[i] = s[i]
    OBVIOUS
  <1>3. t[1] = s[1] /\ Len(t) - 1 = Len(s) /\ Len(t) >= 2
    BY <1>1, <1>2
  <1>4. \A i \in 2..Len(s) : t[i] = s[i]
    BY <1>1, <1>2
  <1> HIDE DEF t
  <1>5. IsPackageRequest(t) <=> IsOpen(s)
    BY <1>1, <1>2, <1>3, <1>4 DEF IsPackageRequest, IsOpen
  <1>6. QED
    BY <1>5 DEF t

----------------------------------------------------------------------------
(* add_line, keyword by keyword. *)

LEMMA KeywordErrorCases ==
    ASSUME NEW r, NEW l, NEW oom
    PROVE  /\ l.key = "BEGIN" => KeywordError(r, l, oom) = BeginError(r, l.op)
           /\ l.key = "COUNT" => KeywordError(r, l, oom) = CountError(r, l.val)
           /\ l.key = "END" => KeywordError(r, l, oom) = EndError(r, l.op)
           /\ l.key = "FILE" => KeywordError(r, l, oom) = FileError(r, oom)
           /\ l.key = "INDEX" => KeywordError(r, l, oom) = IndexError(r, l.val)
           /\ l.key = "PACKAGE" => KeywordError(r, l, oom) = NameError(r, r.package, -1015, oom)
           /\ l.key = "REDPAKID" => KeywordError(r, l, oom) = NameError(r, r.redpakid, -1017, oom)
           /\ l.key = "ROOT" => KeywordError(r, l, oom) = NameError(r, r.root, -1018, oom)
           /\ l.key = "TRANSID" => KeywordError(r, l, oom) = NameError(r, r.transid, -1019, oom)
           /\ l.key = "STATUS" => KeywordError(r, l, oom) = StatusError(r, oom)
           /\ l.key = "other" => KeywordError(r, l, oom) = -1021
  BY DEF KeywordError

LEMMA StoreLineCases ==
    ASSUME NEW r, NEW l
    PROVE  /\ l.key = "BEGIN" => StoreLine(r, l) = [r EXCEPT !.kind = l.op]
           /\ l.key = "COUNT" => StoreLine(r, l) = [r EXCEPT !.count = l.val]
           /\ l.key = "END" => StoreLine(r, l) = [r EXCEPT !.state = "Ready"]
           /\ l.key = "FILE" => StoreLine(r, l) = [r EXCEPT !.files = @ + 1]
           /\ l.key = "INDEX" => StoreLine(r, l) = [r EXCEPT !.index = l.val]
           /\ l.key = "PACKAGE" => StoreLine(r, l) = [r EXCEPT !.package = TRUE]
           /\ l.key = "REDPAKID" => StoreLine(r, l) = [r EXCEPT !.redpakid = TRUE]
           /\ l.key = "ROOT" => StoreLine(r, l) = [r EXCEPT !.root = TRUE]
           /\ l.key = "TRANSID" => StoreLine(r, l) = [r EXCEPT !.transid = TRUE]
           /\ l.key = "STATUS" => StoreLine(r, l) = [r EXCEPT !.transid = TRUE, !.kind = "GetStatus",
                                                              !.state = "Ready"]
  BY Zenon DEF StoreLine

----------------------------------------------------------------------------
(* A line that add_line accepts. *)

RequestType ==
    [state : {"Pending", "Ready", "Error"}, kind : Kinds, scode : Int,
     index : 0..UIntMax, count : 0..UIntMax, transid : BOOLEAN,
     package : BOOLEAN, root : BOOLEAN, redpakid : BOOLEAN, files : Nat]

LEMMA StoreType ==
    ASSUME NEW r \in RequestType, NEW l \in Lines, NEW oom \in BOOLEAN, LineError(r, l, oom) = 0
    PROVE  StoreLine(r, l) \in RequestType
  <1>1. l.key \in {"BEGIN", "END", "COUNT", "INDEX", "FILE", "STATUS"} \cup NameKeys
    BY KeywordErrorCases, LineKeys DEF LineError, NameKeys
  <1>2. CASE l.key = "BEGIN"
    <2>1. StoreLine(r, l) = [r EXCEPT !.kind = l.op] /\ l.op \in Kinds
      BY <1>2, LinesType, StoreLineCases DEF Kinds
    <2>2. QED
      BY <2>1 DEF RequestType
  <1>3. CASE l.key = "COUNT"
    <2>1. l.val \in 0..UIntMax
      BY <1>3, LinesType, UIntMaxAssumption, KeywordErrorCases DEF LineError, CountError
    <2>2. StoreLine(r, l) = [r EXCEPT !.count = l.val]
      BY <1>3, StoreLineCases
    <2>3. QED
      BY <2>1, <2>2 DEF RequestType
  <1>4. CASE l.key = "INDEX"
    <2>1. l.val \in 0..UIntMax
      BY <1>4, LinesType, UIntMaxAssumption, KeywordErrorCases DEF LineError, IndexError
    <2>2. StoreLine(r, l) = [r EXCEPT !.index = l.val]
      BY <1>4, StoreLineCases
    <2>3. QED
      BY <2>1, <2>2 DEF RequestType
  <1>5. CASE l.key = "FILE"
    <2>1. StoreLine(r, l) = [r EXCEPT !.files = @ + 1]
      BY <1>5, StoreLineCases
    <2>2. QED
      BY <2>1 DEF RequestType
  <1>6. CASE l.key = "END"
    <2>1. StoreLine(r, l) = [r EXCEPT !.state = "Ready"]
      BY <1>6, StoreLineCases
    <2>2. QED
      BY <2>1 DEF RequestType
  <1>7. CASE l.key = "PACKAGE"
    <2>1. StoreLine(r, l) = [r EXCEPT !.package = TRUE]
      BY <1>7, StoreLineCases
    <2>2. QED
      BY <2>1 DEF RequestType
  <1>8. CASE l.key = "REDPAKID"
    <2>1. StoreLine(r, l) = [r EXCEPT !.redpakid = TRUE]
      BY <1>8, StoreLineCases
    <2>2. QED
      BY <2>1 DEF RequestType
  <1>9. CASE l.key = "ROOT"
    <2>1. StoreLine(r, l) = [r EXCEPT !.root = TRUE]
      BY <1>9, StoreLineCases
    <2>2. QED
      BY <2>1 DEF RequestType
  <1>10. CASE l.key = "TRANSID"
    <2>1. StoreLine(r, l) = [r EXCEPT !.transid = TRUE]
      BY <1>10, StoreLineCases
    <2>2. QED
      BY <2>1 DEF RequestType
  <1>11. CASE l.key = "STATUS"
    <2>1. StoreLine(r, l) = [r EXCEPT !.transid = TRUE, !.kind = "GetStatus", !.state = "Ready"]
      BY <1>11, StoreLineCases
    <2>2. QED
      BY <2>1 DEF RequestType, Kinds
  <1>12. QED
    BY <1>1, <1>2, <1>3, <1>4, <1>5, <1>6, <1>7, <1>8, <1>9, <1>10, <1>11 DEF NameKeys

LEMMA FreshAccepts ==
    ASSUME NEW r, NEW s \in Seq(Lines), NEW l \in Lines, NEW oom \in BOOLEAN,
           Fresh(r, s), LineError(r, l, oom) = 0
    PROVE  Received(StoreLine(r, l), Append(s, l))
  <1> DEFINE t == Append(s, l)
  <1>1. Len(t) = 1 /\ t[1] = l
    BY DEF Fresh
  <1> HIDE DEF t
  <1>2. \A key : HasKey(t, key) <=> l.key = key
    BY <1>1 DEF HasKey
  <1>3. /\ l.key \in {"BEGIN", "END", "STATUS"}
        /\ l.key = "BEGIN" => l.op # "Unset"
    BY KeywordErrorCases, LineKeys
       DEF Fresh, InitialRequest, LineError, BeginError, CountError, EndError, FileError,
           IndexError, NameError, NameKeys
  <1>4. CASE l.key = "BEGIN"
    <2>1. IsOpen(t)
      BY <1>1, <1>3, <1>4, LinesType DEF IsOpen
    <2>2. StoreLine(r, l) = [InitialRequest EXCEPT !.kind = l.op]
      BY <1>4, StoreLineCases DEF Fresh
    <2>3. Open(StoreLine(r, l), t)
      BY <1>1, <1>2, <1>4, <2>1, <2>2 DEF Open, Recorded, InitialRequest
    <2>4. QED
      BY <2>3 DEF Received, t
  <1>5. CASE l.key = "END"
    BY <1>1, <1>5, StoreLineCases DEF Received, Stray, Fresh, t
  <1>6. CASE l.key = "STATUS"
    <2>1. StoreLine(r, l) = [InitialRequest EXCEPT !.state = "Ready", !.kind = "GetStatus", !.transid = TRUE]
      <3>1. StoreLine(r, l) = [r EXCEPT !.transid = TRUE, !.kind = "GetStatus", !.state = "Ready"]
        BY <1>6, StoreLineCases
      <3>2. QED
        BY <3>1 DEF Fresh, InitialRequest
    <2>2. QED
      BY <1>1, <1>6, <2>1 DEF Received, Status, IsStatusRequest, t
  <1>7. QED
    BY <1>3, <1>4, <1>5, <1>6

\* A line added to an open request that leaves it open.
LEMMA OpenExtends ==
    ASSUME NEW s \in Seq(Lines), NEW l \in Lines, IsOpen(s)
    PROVE  IsOpen(Append(s, l)) <=>
               /\ IsBodyLine(l)
               /\ l.key # "FILE" => \A i \in 2..Len(s) : s[i].key # l.key
               /\ l.key = "INDEX" => \A i \in 2..Len(s) : s[i].key = "COUNT" => l.val <= s[i].val
               /\ l.key = "COUNT" => \A i \in 2..Len(s) : s[i].key = "INDEX" => s[i].val <= l.val
  <1> DEFINE t == Append(s, l)
             n == Len(s)
  <1>1. n \in Nat /\ n >= 1 /\ Len(t) = n + 1 /\ t[n + 1] = l
    BY DEF IsOpen
  <1>2. t[1] = s[1] /\ \A i \in 2..n : t[i] = s[i]
    BY <1>1
  <1>3. 2..Len(t) = 2..n \cup {n + 1} /\ n + 1 \notin 2..n
    BY <1>1
  <1> HIDE DEF t, n
  <1>4. /\ s[1].key = "BEGIN" /\ s[1].op \in PackageKinds
        /\ \A i \in 2..n : IsBodyLine(s[i])
        /\ \A i, j \in 2..n : i # j /\ s[i].key = s[j].key => s[i].key = "FILE"
        /\ \A i, j \in 2..n : s[i].key = "INDEX" /\ s[j].key = "COUNT" => s[i].val <= s[j].val
    BY DEF IsOpen, n
  <1>5. IsOpen(t) <=>
           /\ \A i \in 2..n \cup {n + 1} : IsBodyLine(t[i])
           /\ \A i, j \in 2..n \cup {n + 1} : i # j /\ t[i].key = t[j].key => t[i].key = "FILE"
           /\ \A i, j \in 2..n \cup {n + 1} : t[i].key = "INDEX" /\ t[j].key = "COUNT" => t[i].val <= t[j].val
    <2>1. Len(t) >= 1
      BY <1>1
    <2>2. t[1].key = "BEGIN" /\ t[1].op \in PackageKinds
      BY <1>2, <1>4
    <2>3. QED
      BY <2>1, <2>2, <1>3 DEF IsOpen
  <1>6. (\A i \in 2..n \cup {n + 1} : IsBodyLine(t[i])) <=> IsBodyLine(l)
    BY <1>1, <1>2, <1>4
  <1>7. (\A i, j \in 2..n \cup {n + 1} : i # j /\ t[i].key = t[j].key => t[i].key = "FILE")
           <=> (l.key # "FILE" => \A i \in 2..n : s[i].key # l.key)
    BY <1>1, <1>2, <1>3, <1>4
  <1>8. (\A i, j \in 2..n \cup {n + 1} : t[i].key = "INDEX" /\ t[j].key = "COUNT" => t[i].val <= t[j].val)
           <=> /\ l.key = "INDEX" => \A i \in 2..n : s[i].key = "COUNT" => l.val <= s[i].val
               /\ l.key = "COUNT" => \A i \in 2..n : s[i].key = "INDEX" => s[i].val <= l.val
    BY <1>1, <1>2, <1>3, <1>4
  <1>9. QED
    BY <1>5, <1>6, <1>7, <1>8 DEF t, n

\* A line recorded in its field.
LEMMA RecordedExtends ==
    ASSUME NEW r, NEW q, NEW s \in Seq(Lines), NEW l \in Lines, Recorded(r, s),
           q.package <=> r.package \/ l.key = "PACKAGE",
           q.redpakid <=> r.redpakid \/ l.key = "REDPAKID",
           q.root <=> r.root \/ l.key = "ROOT",
           q.transid <=> r.transid \/ l.key = "TRANSID",
           IF l.key = "COUNT" THEN r.count = 0 /\ q.count = l.val /\ l.val # 0 ELSE q.count = r.count,
           IF l.key = "INDEX" THEN r.index = 0 /\ q.index = l.val /\ l.val # 0 ELSE q.index = r.index
    PROVE  Recorded(q, Append(s, l))
  <1> DEFINE t == Append(s, l)
  <1>1. \A key : HasKey(t, key) <=> HasKey(s, key) \/ l.key = key
    BY HasKeyAppended
  <1>2. Len(s) \in Nat /\ 1..Len(t) = 1..Len(s) \cup {Len(s) + 1} /\ t[Len(s) + 1] = l
    OBVIOUS
  <1>3. \A i \in 1..Len(s) : t[i] = s[i]
    OBVIOUS
  <1> HIDE DEF t
  <1>4. \A i \in 1..Len(t) : t[i].key = "COUNT" => q.count = t[i].val
    BY <1>2, <1>3 DEF Recorded, HasKey
  <1>5. \A i \in 1..Len(t) : t[i].key = "INDEX" => q.index = t[i].val
    BY <1>2, <1>3 DEF Recorded, HasKey
  <1>6. (q.count # 0 <=> HasKey(t, "COUNT")) /\ (q.index # 0 <=> HasKey(t, "INDEX"))
    BY <1>1 DEF Recorded
  <1>7. /\ q.package <=> HasKey(t, "PACKAGE")
        /\ q.redpakid <=> HasKey(t, "REDPAKID")
        /\ q.root <=> HasKey(t, "ROOT")
        /\ q.transid <=> HasKey(t, "TRANSID")
    BY <1>1 DEF Recorded
  <1>8. QED
    BY <1>4, <1>5, <1>6, <1>7 DEF Recorded, t

\* What add_line stores meets the hypotheses above.
LEMMA StoreRecords ==
    ASSUME NEW r \in RequestType, NEW s \in Seq(Lines), NEW l \in Lines, NEW oom \in BOOLEAN,
           Recorded(r, s), LineError(r, l, oom) = 0, l.key # "STATUS"
    PROVE  /\ Recorded(StoreLine(r, l), Append(s, l))
           /\ l.key # "BEGIN" => StoreLine(r, l).kind = r.kind
           /\ StoreLine(r, l).state = (IF l.key = "END" THEN "Ready" ELSE r.state)
           /\ StoreLine(r, l).scode = r.scode
  <1> DEFINE q == StoreLine(r, l)
  <1>1. l.key \in {"BEGIN", "END", "COUNT", "INDEX", "FILE"} \cup NameKeys
    BY KeywordErrorCases, LineKeys DEF LineError, NameKeys
  <1>2. l.key = "COUNT" => r.count = 0 /\ l.val # 0
    BY KeywordErrorCases, LinesType DEF LineError, CountError
  <1>3. l.key = "INDEX" => r.index = 0 /\ l.val # 0
    BY KeywordErrorCases, LinesType DEF LineError, IndexError
  <1>4. /\ q.count = IF l.key = "COUNT" THEN l.val ELSE r.count
        /\ q.index = IF l.key = "INDEX" THEN l.val ELSE r.index
        /\ q.package = IF l.key = "PACKAGE" THEN TRUE ELSE r.package
        /\ q.redpakid = IF l.key = "REDPAKID" THEN TRUE ELSE r.redpakid
        /\ q.root = IF l.key = "ROOT" THEN TRUE ELSE r.root
        /\ q.transid = IF l.key = "TRANSID" THEN TRUE ELSE r.transid
        /\ q.kind = IF l.key = "BEGIN" THEN l.op ELSE r.kind
        /\ q.state = IF l.key = "END" THEN "Ready" ELSE r.state
        /\ q.scode = r.scode
    <2>1. CASE l.key = "BEGIN"
      <3>1. q = [r EXCEPT !.kind = l.op]
        BY <2>1, StoreLineCases
      <3>2. QED
        BY <2>1, <3>1 DEF RequestType
    <2>2. CASE l.key = "COUNT"
      <3>1. q = [r EXCEPT !.count = l.val]
        BY <2>2, StoreLineCases
      <3>2. QED
        BY <2>2, <3>1 DEF RequestType
    <2>3. CASE l.key = "END"
      <3>1. q = [r EXCEPT !.state = "Ready"]
        BY <2>3, StoreLineCases
      <3>2. QED
        BY <2>3, <3>1 DEF RequestType
    <2>4. CASE l.key = "FILE"
      <3>1. q = [r EXCEPT !.files = @ + 1]
        BY <2>4, StoreLineCases
      <3>2. QED
        BY <2>4, <3>1 DEF RequestType
    <2>5. CASE l.key = "INDEX"
      <3>1. q = [r EXCEPT !.index = l.val]
        BY <2>5, StoreLineCases
      <3>2. QED
        BY <2>5, <3>1 DEF RequestType
    <2>6. CASE l.key = "PACKAGE"
      <3>1. q = [r EXCEPT !.package = TRUE]
        BY <2>6, StoreLineCases
      <3>2. QED
        BY <2>6, <3>1 DEF RequestType
    <2>7. CASE l.key = "REDPAKID"
      <3>1. q = [r EXCEPT !.redpakid = TRUE]
        BY <2>7, StoreLineCases
      <3>2. QED
        BY <2>7, <3>1 DEF RequestType
    <2>8. CASE l.key = "ROOT"
      <3>1. q = [r EXCEPT !.root = TRUE]
        BY <2>8, StoreLineCases
      <3>2. QED
        BY <2>8, <3>1 DEF RequestType
    <2>9. CASE l.key = "TRANSID"
      <3>1. q = [r EXCEPT !.transid = TRUE]
        BY <2>9, StoreLineCases
      <3>2. QED
        BY <2>9, <3>1 DEF RequestType
    <2>10. QED
      BY <1>1, <2>1, <2>2, <2>3, <2>4, <2>5, <2>6, <2>7, <2>8, <2>9 DEF NameKeys
  <1> HIDE DEF q
  <1>5. Recorded(q, Append(s, l))
    BY <1>2, <1>3, <1>4, RecordedExtends DEF RequestType
  <1>6. QED
    BY <1>4, <1>5 DEF q

LEMMA OpenAccepts ==
    ASSUME NEW r \in RequestType, NEW s \in Seq(Lines), NEW l \in Lines, NEW oom \in BOOLEAN,
           Open(r, s), LineError(r, l, oom) = 0
    PROVE  Received(StoreLine(r, l), Append(s, l))
  <1> DEFINE q == StoreLine(r, l)
             t == Append(s, l)
  <1>1. /\ r.kind \in PackageKinds /\ r.kind # "Unset"
        /\ s # <<>> /\ Len(s) \in Nat /\ Len(s) >= 1
        /\ r.state = "Pending" /\ r.scode = 0
    BY DEF Open, IsOpen, PackageKinds
  <1>2. l.key \in {"END", "COUNT", "INDEX", "FILE"} \cup NameKeys
    BY <1>1, KeywordErrorCases, LineKeys DEF LineError, BeginError, StatusError
  <1>3. /\ Recorded(q, t)
        /\ q.kind = r.kind
        /\ q.state = IF l.key = "END" THEN "Ready" ELSE "Pending"
        /\ q.scode = 0
    BY <1>1, <1>2, StoreRecords DEF Open, NameKeys
  <1>4. t[1] = s[1]
    BY <1>1, Appended
  <1>5. \A key : HasKey(t, key) <=> HasKey(s, key) \/ l.key = key
    BY HasKeyAppended
  <1> HIDE DEF q
  <1>6. CASE l.key = "END"
    <2>1. l = Line("END", s[1].op, 0)
      BY <1>6, <1>1, LinesType, KeywordErrorCases DEF LineError, EndError, Open
    <2>2. IsPackageRequest(t)
      BY <1>1, <2>1, OpenIsBeginning DEF Open
    <2>3. ~HasKey(t, "STATUS")
      BY <1>5, <1>6 DEF Open
    <2>4. Complete(q, t)
      BY <1>3, <1>4, <1>6, <2>2, <2>3 DEF Complete, Open
    <2>5. QED
      BY <2>4 DEF Received, q
  <1>7. CASE l.key # "END"
    <2>1. IsBodyLine(l)
      <3>1. l.key = "COUNT" => l.val \in 1..UIntMax
        BY KeywordErrorCases, LinesType, UIntMaxAssumption DEF LineError, CountError
      <3>2. l.key = "INDEX" => l.val \in 1..UIntMax
        BY KeywordErrorCases, LinesType, UIntMaxAssumption DEF LineError, IndexError
      <3>3. QED
        BY <1>2, <1>7, <3>1, <3>2 DEF IsBodyLine, NumberKeys
    <2>2. l.key # "FILE" => ~HasKey(s, l.key)
      BY <1>1, <1>2, <1>7, KeywordErrorCases
         DEF LineError, CountError, IndexError, NameError, NameKeys, Open, Recorded
    <2>3. l.key # "FILE" => \A i \in 2..Len(s) : s[i].key # l.key
      BY <2>2, <1>1 DEF HasKey
    <2>4. l.key = "INDEX" => \A i \in 2..Len(s) : s[i].key = "COUNT" => l.val <= s[i].val
      <3>1. ASSUME l.key = "INDEX", NEW i \in 2..Len(s), s[i].key = "COUNT"
            PROVE  l.val <= s[i].val
        <4>1. i \in 1..Len(s)
          BY <1>1
        <4>2. r.count = s[i].val /\ r.count # 0
          BY <3>1, <4>1 DEF Open, Recorded, HasKey
        <4>3. ~(l.val > r.count)
          BY <3>1, <4>2, <1>1, KeywordErrorCases DEF LineError, IndexError
        <4>4. l.val \in Int /\ r.count \in Int
          BY LinesType, UIntMaxAssumption DEF RequestType
        <4>5. QED
          BY <4>2, <4>3, <4>4
      <3>2. QED
        BY <3>1
    <2>5. l.key = "COUNT" => \A i \in 2..Len(s) : s[i].key = "INDEX" => s[i].val <= l.val
      <3>1. ASSUME l.key = "COUNT", NEW i \in 2..Len(s), s[i].key = "INDEX"
            PROVE  s[i].val <= l.val
        <4>1. i \in 1..Len(s)
          BY <1>1
        <4>2. r.index = s[i].val /\ r.index # 0
          BY <3>1, <4>1 DEF Open, Recorded, HasKey
        <4>3. ~(l.val < r.index)
          BY <3>1, <4>2, <1>1, KeywordErrorCases DEF LineError, CountError
        <4>4. l.val \in Int /\ r.index \in Int
          BY LinesType, UIntMaxAssumption DEF RequestType
        <4>5. QED
          BY <4>2, <4>3, <4>4
      <3>2. QED
        BY <3>1
    <2>6. IsOpen(t)
      BY <2>1, <2>3, <2>4, <2>5, OpenExtends DEF Open
    <2>7. ~HasKey(t, "STATUS") /\ ~HasKey(t, "END")
      BY <1>2, <1>5, <1>7 DEF Open, NameKeys
    <2>8. Open(q, t)
      BY <1>3, <1>4, <1>7, <2>6, <2>7 DEF Open
    <2>9. QED
      BY <2>8 DEF Received, q
  <1>8. QED
    BY <1>6, <1>7

\* Nothing is accepted after the request is complete.
LEMMA AddLineAccepts ==
    ASSUME NEW r \in RequestType, NEW s \in Seq(Lines), NEW l \in Lines, NEW oom \in BOOLEAN,
           Received(r, s), LineError(r, l, oom) = 0
    PROVE  Received(StoreLine(r, l), Append(s, l))
  <1>1. r.state = "Pending"
    BY DEF LineError
  <1>2. Fresh(r, s) \/ Open(r, s)
    BY <1>1 DEF Received, Complete, Status, Stray, InitialRequest
  <1>3. QED
    BY <1>2, FreshAccepts, OpenAccepts

----------------------------------------------------------------------------
(* A line that add_line refuses. *)

LEMMA CodesNegative ==
    ASSUME NEW r, NEW l \in Lines, NEW oom, LineError(r, l, oom) # 0
    PROVE  LineError(r, l, oom) \in Int /\ LineError(r, l, oom) < 0
  <1>1. CASE r.state # "Pending"
    BY <1>1 DEF LineError
  <1>2. CASE r.state = "Pending"
    <2>1. KeywordError(r, l, oom) # 0
      BY <1>2 DEF LineError
    <2>2. KeywordError(r, l, oom) \in Int /\ KeywordError(r, l, oom) < 0
      BY <2>1, KeywordErrorCases, LineKeys
         DEF BeginError, CountError, EndError, FileError, IndexError, NameError, StatusError, NameKeys
    <2>3. QED
      BY <1>2, <2>2 DEF LineError
  <1>3. QED
    BY <1>1, <1>2

LEMMA BeginningIs ==
    ASSUME NEW s \in Seq(Lines), s # <<>>
    PROVE  IsBeginning(s) <=> IsRequest(s) \/ IsOpen(s)
  BY OpenIsBeginning, Zenon DEF IsBeginning

\* What a beginning of at least two lines looks like.
LEMMA LongBeginning ==
    ASSUME NEW s \in Seq(Lines), Len(s) >= 2, IsBeginning(s)
    PROVE  /\ s[1].key = "BEGIN"
           /\ \A i \in 2..(Len(s) - 1) : IsBodyLine(s[i])
           /\ s[Len(s)] = Line("END", s[1].op, 0) \/ IsOpen(s)
  <1> DEFINE n == Len(s)
  <1>1. n \in Nat /\ n >= 2
    OBVIOUS
  <1>2. s # <<>>
    OBVIOUS
  <1> HIDE DEF n
  <1>3. n # 1
    BY <1>1
  <1>4. IsPackageRequest(s) \/ IsOpen(s)
    BY <1>2, <1>3, BeginningIs, Zenon DEF IsRequest, IsStatusRequest, n
  <1>5. QED
    BY <1>1, <1>4 DEF IsPackageRequest, IsOpen, n

LEMMA BeginsWithBegin ==
    ASSUME NEW s \in Seq(Lines), Len(s) >= 2, s[1].key # "BEGIN"
    PROVE  ~IsBeginning(s)
  BY LongBeginning, Zenon

LEMMA FreshRefuses ==
    ASSUME NEW r, NEW s \in Seq(Lines), NEW l \in Lines, NEW oom \in BOOLEAN,
           Fresh(r, s), LineError(r, l, oom) \notin {0, -1010, -1016}
    PROVE  ~IsBeginning(Append(s, l))
  <1> DEFINE t == Append(s, l)
  <1>1. Len(t) = 1 /\ t[1] = l /\ t # <<>> /\ t \in Seq(Lines)
    BY DEF Fresh
  <1> HIDE DEF t
  <1>2. l.key = "BEGIN" => l.op = "Unset"
    BY KeywordErrorCases DEF LineError, BeginError, Fresh, InitialRequest
  <1>3. l.key # "STATUS"
    BY KeywordErrorCases DEF LineError, StatusError, Fresh, InitialRequest
  <1>4. ~IsOpen(t)
    BY <1>1, <1>2 DEF IsOpen, PackageKinds
  <1>5. ~IsRequest(t)
    BY <1>1, <1>3 DEF IsRequest, IsPackageRequest, IsStatusRequest
  <1>6. ~IsBeginning(t)
    BY <1>1, <1>4, <1>5, BeginningIs
  <1>7. QED
    BY <1>6 DEF t

LEMMA OpenRefuses ==
    ASSUME NEW r \in RequestType, NEW s \in Seq(Lines), NEW l \in Lines, NEW oom \in BOOLEAN,
           Open(r, s), LineError(r, l, oom) \notin {0, -1010, -1016}
    PROVE  ~IsBeginning(Append(s, l))
  <1> DEFINE t == Append(s, l)
  <1> SUFFICES ASSUME IsBeginning(t)  PROVE FALSE
    OBVIOUS
  <1>1. /\ r.kind \in PackageKinds /\ r.kind # "Unset" /\ r.kind = s[1].op
        /\ Len(s) \in Nat /\ Len(s) >= 1 /\ r.state = "Pending"
        /\ Recorded(r, s)
    BY DEF Open, IsOpen, PackageKinds
  <1>2. t \in Seq(Lines) /\ Len(t) = Len(s) + 1 /\ t[Len(s) + 1] = l /\ t[1] = s[1]
    BY <1>1, Appended
  <1> HIDE DEF t
  <1>3. l = Line("END", r.kind, 0) \/ IsOpen(t)
    BY <1>1, <1>2, LongBeginning
  <1>4. l # Line("END", r.kind, 0)
    BY <1>1, KeywordErrorCases DEF LineError, EndError, Line
  <1>5. /\ IsBodyLine(l)
        /\ l.key # "FILE" => \A i \in 2..Len(s) : s[i].key # l.key
        /\ l.key = "INDEX" => \A i \in 2..Len(s) : s[i].key = "COUNT" => l.val <= s[i].val
        /\ l.key = "COUNT" => \A i \in 2..Len(s) : s[i].key = "INDEX" => s[i].val <= l.val
    BY <1>3, <1>4, OpenExtends DEF Open, t
  <1>6. l.key \in NumberKeys \cup NameKeys => ~HasKey(s, l.key)
    BY <1>1, <1>5 DEF HasKey, Open, IsOpen, NumberKeys, NameKeys
  <1>7. l.key \notin NameKeys \cup {"FILE"}
    BY <1>1, <1>6, KeywordErrorCases DEF LineError, FileError, NameError, Recorded, NameKeys
  <1>8. l.key # "COUNT"
    <2>1. SUFFICES ASSUME l.key = "COUNT"  PROVE FALSE
      OBVIOUS
    <2>2. r.count = 0 /\ l.val \in 1..UIntMax
      BY <1>1, <1>5, <1>6, <2>1 DEF Recorded, IsBodyLine, NumberKeys, NameKeys
    <2>3. r.index # 0 => ~(l.val < r.index)
      <3>1. SUFFICES ASSUME r.index # 0  PROVE ~(l.val < r.index)
        OBVIOUS
      <3>2. PICK i \in 1..Len(s) : s[i].key = "INDEX"
        BY <1>1, <3>1 DEF Recorded, HasKey
      <3>3. i \in 2..Len(s)
        BY <1>1, <3>2 DEF Open, IsOpen
      <3>4. s[i].val = r.index /\ s[i].val <= l.val
        BY <1>1, <1>5, <2>1, <3>2, <3>3 DEF Recorded
      <3>5. r.index \in Int /\ l.val \in Int
        BY LinesType, UIntMaxAssumption DEF RequestType
      <3>6. QED
        BY <3>4, <3>5
    <2>4. KeywordError(r, l, oom) = CountError(r, l.val) /\ KeywordError(r, l, oom) # 0
      BY <1>1, <2>1, KeywordErrorCases DEF LineError
    <2>5. CountError(r, l.val) = 0
      BY <1>1, <2>2, <2>3, UIntMaxAssumption DEF CountError, NotANumber
    <2>6. QED
      BY <2>4, <2>5
  <1>9. l.key # "INDEX"
    <2>1. SUFFICES ASSUME l.key = "INDEX"  PROVE FALSE
      OBVIOUS
    <2>2. r.index = 0 /\ l.val \in 1..UIntMax
      BY <1>1, <1>5, <1>6, <2>1 DEF Recorded, IsBodyLine, NumberKeys, NameKeys
    <2>3. r.count # 0 => ~(l.val > r.count)
      <3>1. SUFFICES ASSUME r.count # 0  PROVE ~(l.val > r.count)
        OBVIOUS
      <3>2. PICK i \in 1..Len(s) : s[i].key = "COUNT"
        BY <1>1, <3>1 DEF Recorded, HasKey
      <3>3. i \in 2..Len(s)
        BY <1>1, <3>2 DEF Open, IsOpen
      <3>4. s[i].val = r.count /\ l.val <= s[i].val
        BY <1>1, <1>5, <2>1, <3>2, <3>3 DEF Recorded
      <3>5. r.count \in Int /\ l.val \in Int
        BY LinesType, UIntMaxAssumption DEF RequestType
      <3>6. QED
        BY <3>4, <3>5
    <2>4. KeywordError(r, l, oom) = IndexError(r, l.val) /\ KeywordError(r, l, oom) # 0
      BY <1>1, <2>1, KeywordErrorCases DEF LineError
    <2>5. IndexError(r, l.val) = 0
      BY <1>1, <2>2, <2>3, UIntMaxAssumption DEF IndexError, NotANumber
    <2>6. QED
      BY <2>4, <2>5
  <1>10. QED
    BY <1>5, <1>7, <1>8, <1>9 DEF IsBodyLine, NumberKeys

\* Whatever the situation, only a lack of memory makes add_line refuse a line
\* that a request could have there.
LEMMA AddLineRefuses ==
    ASSUME NEW r \in RequestType, NEW s \in Seq(Lines), NEW l \in Lines, NEW oom \in BOOLEAN,
           Received(r, s), LineError(r, l, oom) \notin {0, -1010, -1016}
    PROVE  ~IsBeginning(Append(s, l))
  <1> DEFINE t == Append(s, l)
  <1>1. CASE Fresh(r, s)
    BY <1>1, FreshRefuses
  <1>2. CASE Open(r, s)
    BY <1>2, OpenRefuses
  <1>3. CASE Complete(r, s)
    <2>1. Len(s) \in Nat /\ Len(s) >= 2 /\ s[Len(s)].key = "END"
      BY <1>3 DEF Complete, IsPackageRequest, Line
    <2>2. t \in Seq(Lines) /\ Len(t) = Len(s) + 1 /\ t[Len(s)] = s[Len(s)]
      BY <2>1, Appended
    <2> HIDE DEF t
    <2>3. ~IsBodyLine(t[Len(s)]) /\ Len(s) \in 2..(Len(t) - 1)
      BY <2>1, <2>2 DEF IsBodyLine, NameKeys, NumberKeys
    <2>4. ~IsBeginning(t)
      BY <2>1, <2>2, <2>3, LongBeginning
    <2>5. QED
      BY <2>4 DEF t
  <1>4. CASE Status(r, s) \/ Stray(r, s)
    <2>1. Len(s) = 1 /\ s[1].key # "BEGIN"
      BY <1>4 DEF Status, Stray, IsStatusRequest
    <2>2. /\ t \in Seq(Lines) /\ Len(t) = Len(s) + 1
          /\ \A i \in 1..Len(s) : t[i] = s[i]
      BY Appended
    <2> HIDE DEF t
    <2>3. t \in Seq(Lines) /\ Len(t) >= 2 /\ t[1].key # "BEGIN"
      BY <2>1, <2>2
    <2>4. ~IsBeginning(t)
      BY <2>3, BeginsWithBegin
    <2>5. QED
      BY <2>4 DEF t
  <1>5. QED
    BY <1>1, <1>2, <1>3, <1>4 DEF Received

----------------------------------------------------------------------------
(* The invariant. *)

LEMMA InitIInv == Init => IInv
  <1> SUFFICES ASSUME Init  PROVE IInv
    OBVIOUS
  <1>1. req \in RequestType
    BY UIntMaxAssumption DEF Init, InitialRequest, RequestType, Kinds
  <1>2. TypeOK
    BY <1>1 DEF Init, TypeOK, RequestType
  <1>3. QED
    BY <1>2 DEF Init, IInv, Fresh

\* As long as nothing was refused no error is recorded.
LEMMA ReceivedNoError ==
    ASSUME NEW r, NEW s, Received(r, s)
    PROVE  r.scode = 0 /\ r.state # "Error"
  <1>1. CASE Fresh(r, s)
    BY <1>1 DEF Fresh, InitialRequest
  <1>2. CASE Stray(r, s)
    <2>1. r = [InitialRequest EXCEPT !.state = "Ready"]
      BY <1>2 DEF Stray
    <2>2. QED
      BY <2>1 DEF InitialRequest
  <1>3. CASE Status(r, s)
    <2>1. r = [InitialRequest EXCEPT !.state = "Ready", !.kind = "GetStatus", !.transid = TRUE]
      BY <1>3 DEF Status
    <2>2. QED
      BY <2>1 DEF InitialRequest
  <1>4. CASE Open(r, s) \/ Complete(r, s)
    BY <1>4 DEF Open, Complete
  <1>5. QED
    BY <1>1, <1>2, <1>3, <1>4 DEF Received

LEMMA RequestErrorRecords ==
    ASSUME NEW r \in RequestType, r.scode = 0, NEW code \in Int
    PROVE  RequestError(r, code) \in RequestType /\ RequestError(r, code).scode = code
  <1>1. RequestError(r, code) = [r EXCEPT !.state = "Error", !.scode = code]
    BY DEF RequestError
  <1>2. QED
    BY <1>1 DEF RequestType

LEMMA ReceiveLineIInv ==
    ASSUME IInv, NEW l \in Lines, NEW oom \in BOOLEAN, ReceiveLine(l, oom)
    PROVE  IInv'
  <1> DEFINE code == LineError(req, l, oom)
  <1>1. req \in RequestType /\ lines \in Seq(Lines) /\ Received(req, lines)
    BY DEF IInv, TypeOK, RequestType, ReceiveLine
  <1>2. lines' = Append(lines, l) /\ lines' \in Seq(Lines)
    BY <1>1, Appended DEF ReceiveLine
  <1>3. CASE code = 0
    <2>1. req' = StoreLine(req, l) /\ phase' = "receive"
      BY <1>3 DEF ReceiveLine, AddLine
    <2>2. req' \in RequestType
      BY <1>1, <1>3, <2>1, StoreType
    <2>3. Received(req', lines')
      BY <1>1, <1>2, <1>3, <2>1, AddLineAccepts
    <2>4. TypeOK'
      BY <1>2, <2>1, <2>2 DEF TypeOK, RequestType
    <2>5. QED
      BY <2>1, <2>3, <2>4 DEF IInv
  <1>4. CASE code # 0
    <2>1. code \in Int /\ code < 0
      BY <1>4, CodesNegative
    <2>2. req' = RequestError(req, code) /\ phase' = "refused"
      BY <1>4, <2>1 DEF ReceiveLine, AddLine
    <2>3. req' \in RequestType /\ req'.scode = code
      BY <1>1, <2>1, <2>2, ReceivedNoError, RequestErrorRecords
    <2>4. IsBeginning(lines') => code \in {-1010, -1016}
      BY <1>1, <1>2, <1>4, AddLineRefuses
    <2>5. TypeOK'
      BY <1>2, <2>2, <2>3 DEF TypeOK, RequestType
    <2>6. QED
      BY <2>2, <2>3, <2>4, <2>5 DEF IInv
  <1>5. QED
    BY <1>3, <1>4

LEMMA NextIInv == IInv /\ [Next]_vars => IInv'
  <1> SUFFICES ASSUME IInv, [Next]_vars  PROVE IInv'
    OBVIOUS
  <1>1. CASE UNCHANGED vars
    BY <1>1 DEF vars, IInv, TypeOK
  <1>2. CASE RequestInit
    <2>1. req' = req /\ lines' = lines /\ Received(req, lines)
      BY <1>2 DEF RequestInit, IInv, Received
    <2>2. TypeOK'
      BY <1>2, <2>1 DEF RequestInit, IInv, TypeOK
    <2>3. QED
      BY <1>2, <2>1, <2>2 DEF RequestInit, IInv
  <1>3. ASSUME NEW l \in Lines, NEW oom \in BOOLEAN, ReceiveLine(l, oom)  PROVE IInv'
    BY <1>3, ReceiveLineIInv
  <1>4. CASE EndOfInput
    BY <1>4 DEF EndOfInput, IInv, TypeOK
  <1>5. CASE ReceiveError
    <2>1. req \in RequestType /\ req.scode = 0
      BY <1>5, ReceivedNoError DEF ReceiveError, IInv, TypeOK, RequestType
    <2>2. req' \in RequestType /\ req'.scode = -2000
      BY <1>5, <2>1, RequestErrorRecords DEF ReceiveError
    <2>3. TypeOK'
      BY <1>5, <2>2 DEF ReceiveError, IInv, TypeOK, RequestType
    <2>4. QED
      BY <1>5, <2>2, <2>3 DEF ReceiveError, IInv
  <1>6. QED
    BY <1>1, <1>2, <1>3, <1>4, <1>5 DEF Next

----------------------------------------------------------------------------
(* The theorems. *)

\* The request structure is well formed whatever the client sends: in
\* particular COUNT and INDEX only ever hold values that fit an unsigned int.
THEOREM TypeCorrect == Spec => []TypeOK
  <1>1. IInv => TypeOK
    BY DEF IInv
  <1>2. QED
    BY <1>1, InitIInv, NextIInv, PTL DEF Spec

\* afmpkg_request_add_line recognises the grammar of the protocol: the request
\* is Ready, with an operation, exactly when the lines form a request.
THEOREM GrammarCorrect == Spec => []ReadyIffGrammar
  <1>1. IInv => ReadyIffGrammar
    <2> SUFFICES ASSUME IInv, phase \in {"receive", "accepted"}
                 PROVE  (req.state = "Ready" /\ req.kind # "Unset") <=> IsRequest(lines)
      BY DEF ReadyIffGrammar
    <2>1. Received(req, lines) /\ lines \in Seq(Lines)
      BY DEF IInv, TypeOK
    <2>2. CASE Fresh(req, lines)
      BY <2>2 DEF Fresh, InitialRequest, IsRequest, IsPackageRequest, IsStatusRequest
    <2>3. CASE Open(req, lines)
      <3>1. Len(lines) \in Nat /\ Len(lines) >= 1 /\ lines[1].key = "BEGIN" /\ ~HasKey(lines, "END")
        BY <2>1, <2>3 DEF Open, IsOpen
      <3>2. lines[Len(lines)].key # "END"
        BY <3>1 DEF HasKey
      <3>3. ~IsPackageRequest(lines)
        BY <3>2 DEF IsPackageRequest, Line
      <3>4. ~IsStatusRequest(lines)
        BY <3>1 DEF IsStatusRequest
      <3>5. QED
        BY <2>3, <3>3, <3>4 DEF Open, IsRequest
    <2>4. CASE Complete(req, lines)
      BY <2>4 DEF Complete, IsRequest, IsPackageRequest, PackageKinds
    <2>5. CASE Status(req, lines)
      BY <2>5 DEF Status, IsRequest, InitialRequest
    <2>6. CASE Stray(req, lines)
      <3>1. req.kind = "Unset"
        BY <2>6 DEF Stray, InitialRequest
      <3>2. ~IsRequest(lines)
        BY <2>6 DEF Stray, IsRequest, IsPackageRequest, IsStatusRequest
      <3>3. QED
        BY <3>1, <3>2
    <2>7. QED
      BY <2>1, <2>2, <2>3, <2>4, <2>5, <2>6 DEF Received
  <1>2. QED
    BY <1>1, InitIInv, NextIInv, PTL DEF Spec

\* add_line refuses a line exactly when no continuation could make a request of
\* what was received, unless memory is lacking or recv failed.
THEOREM RefusalCorrect == Spec => []RefusedIffHopeless
  <1>1. IInv => RefusedIffHopeless
    <2> SUFFICES ASSUME IInv, phase \in {"receive", "accepted"}
                 PROVE  IsBeginning(lines) \/ req.kind = "Unset"
      BY DEF RefusedIffHopeless, IInv
    <2>1. Received(req, lines) /\ lines \in Seq(Lines)
      BY DEF IInv, TypeOK
    <2>2. CASE Fresh(req, lines) \/ Stray(req, lines)
      BY <2>2 DEF Fresh, Stray, InitialRequest
    <2>3. CASE Open(req, lines)
      <3>1. IsOpen(lines)
        BY <2>3 DEF Open
      <3>2. lines # <<>>
        BY <2>1, <3>1 DEF IsOpen
      <3>3. QED
        BY <2>1, <3>1, <3>2, BeginningIs
    <2>4. CASE Complete(req, lines) \/ Status(req, lines)
      BY <2>4, Zenon DEF Complete, Status, IsBeginning, IsRequest
    <2>5. QED
      BY <2>1, <2>2, <2>3, <2>4 DEF Received
  <1>2. QED
    BY <1>1, InitIInv, NextIInv, PTL DEF Spec

\* What receive hands over to afmpkg_request_process is what InstallerDaemon
\* assumes of the requests it gets.
THEOREM HandedOverCorrect == Spec => []HandedOver
  <1>1. IInv => HandedOver
    <2> SUFFICES ASSUME IInv, phase = "accepted"  PROVE HandedOver
      BY DEF HandedOver
    <2>1. Received(req, lines) /\ lines \in Seq(Lines) /\ DOMAIN lines = 1..Len(lines)
      BY DEF IInv, TypeOK
    <2>2. req.scode = 0 /\ req.state # "Error"
      BY <2>1, ReceivedNoError
    <2>3. CASE Fresh(req, lines) \/ Stray(req, lines)
      BY <2>1, <2>2, <2>3 DEF Fresh, Stray, InitialRequest, HandedOver
    <2>4. CASE Status(req, lines)
      BY <2>1, <2>2, <2>4 DEF Status, IsStatusRequest, InitialRequest, HandedOver
    <2>5. CASE Open(req, lines) \/ Complete(req, lines)
      <3>1. /\ Recorded(req, lines) /\ ~HasKey(lines, "STATUS")
            /\ req.kind \notin {"Unset", "GetStatus"}
        BY <2>5 DEF Open, Complete, IsOpen, IsPackageRequest, PackageKinds
      <3>2. QED
        BY <2>1, <2>2, <3>1 DEF Recorded, HasKey, HandedOver
    <2>6. QED
      BY <2>1, <2>3, <2>4, <2>5 DEF Received
  <1>2. QED
    BY <1>1, InitIInv, NextIInv, PTL DEF Spec

----------------------------------------------------------------------------
(* Numbers, and the folds of the walks.  A fold over a sequence of n items *)
(* goes through n + 1 values, each the operation applied to the former.    *)

LEMMA LeastNumber ==
    ASSUME NEW T \in SUBSET Nat, T # {}
    PROVE  \E n \in T : \A k \in T : n <= k
  <1>1. IsWellFoundedOn(OpToRel(<, Nat), Nat)
    BY NatLessThanWellFounded
  <1>2. PICK n \in T : \A k \in T : ~(<<k, n>> \in OpToRel(<, Nat))
    BY <1>1, WFMin
  <1>3. \A k \in T : ~(k < n)
    BY <1>2 DEF OpToRel
  <1>4. QED
    BY <1>3


\* A set of numbers that holds 0 and the successor of each of its numbers.
LEMMA EveryNumber ==
    ASSUME NEW T \in SUBSET Nat, 0 \in T, \A k \in Nat : k \in T => k + 1 \in T
    PROVE  T = Nat
  <1>1. SUFFICES ASSUME Nat \ T # {}  PROVE FALSE
    OBVIOUS
  <1>2. PICK n \in Nat \ T : \A k \in Nat \ T : n <= k
    BY <1>1, LeastNumber
  <1>3. n # 0 /\ n - 1 \in Nat /\ (n - 1) + 1 = n
    BY <1>2
  <1>4. n - 1 \in T
    BY <1>2, <1>3
  <1>5. QED
    BY <1>2, <1>3, <1>4

LEMMA MaxIn ==
    ASSUME NEW n \in Nat, NEW s \in SUBSET (1..n), s # {}
    PROVE  Max(s) \in s /\ \A x \in s : x <= Max(s)
  <1> DEFINE T == {k \in Nat : \E x \in s : k = n - x}
  <1>1. T \in SUBSET Nat /\ T # {}
    <2>1. PICK x \in s : TRUE
      OBVIOUS
    <2>2. x \in 1..n
      OBVIOUS
    <2>3. n - x \in Nat
      BY <2>2
    <2>4. n - x \in T
      BY <2>3
    <2>5. QED  BY <2>4
  <1>2. PICK k \in T : \A j \in T : k <= j
    <2> HIDE DEF T
    <2> QED  BY <1>1, LeastNumber
  <1>3. PICK m \in s : k = n - m
    OBVIOUS
  <1>4. \A x \in s : x <= m
    <2>1. SUFFICES ASSUME NEW x \in s  PROVE x <= m
      OBVIOUS
    <2>2. x \in 1..n /\ m \in 1..n
      OBVIOUS
    <2>3. n - x \in T
      BY <2>2
    <2>4. k <= n - x
      BY <1>2, <2>3
    <2>5. QED  BY <1>3, <2>2, <2>4
  <1>5. \E y \in s : \A x \in s : y >= x
    BY <1>4
  <1>6. \A x \in s : Max(s) >= x
    BY <1>5 DEF Max
  <1>7. Max(s) \in s
    BY <1>5 DEF Max
  <1>8. QED
    BY <1>6, <1>7

LEMMA MaxFirst ==
    ASSUME NEW k \in Nat, k # 0
    PROVE  Max(1..k) = k /\ (1..k) \ {Max(1..k)} = 1..(k - 1) /\ 1..k # {}
  <1>1. 1..k \in SUBSET (1..k) /\ k \in 1..k
    OBVIOUS
  <1>2. Max(1..k) \in 1..k /\ \A x \in 1..k : x <= Max(1..k)
    BY <1>1, MaxIn
  <1>3. Max(1..k) = k
    BY <1>1, <1>2
  <1>4. (1..k) \ {k} = 1..(k - 1)
    OBVIOUS
  <1>5. QED
    BY <1>1, <1>3, <1>4

\* A function that folds phi from base, over the subsets of 1..n.
FoldStep(f, phi, base, s) == IF s = {} THEN base ELSE phi[<<f[s \ {Max(s)}], Max(s)>>]

Folding(f, n, W, phi, base) ==
    f \in [SUBSET (1..n) -> W] /\ \A s \in SUBSET (1..n) : f[s] = FoldStep(f, phi, base, s)

LEMMA FoldExists ==
    ASSUME NEW n, NEW W, NEW base, NEW phi, n \in Nat, base \in W, phi \in [W \X (1..n) -> W]
    PROVE  \E f : Folding(f, n, W, phi, base)
  <1> DEFINE D == SUBSET (1..n)
             Solves(f, k) == \A s \in D : s \subseteq 1..k => f[s] = FoldStep(f, phi, base, s)
             T == {k \in Nat : \E f \in [D -> W] : Solves(f, k)}
  <1>0. \A s \in D : s # {} => /\ s \ {Max(s)} \in D /\ Max(s) \in 1..n
                               /\ \A k \in Nat : s \subseteq 1..(k + 1) => s \ {Max(s)} \subseteq 1..k
    <2>1. SUFFICES ASSUME NEW s \in D, s # {}
          PROVE  /\ s \ {Max(s)} \in D /\ Max(s) \in 1..n
                 /\ \A k \in Nat : s \subseteq 1..(k + 1) => s \ {Max(s)} \subseteq 1..k
      OBVIOUS
    <2>2. Max(s) \in s /\ \A x \in s : x <= Max(s)
      BY <2>1, MaxIn
    <2>3. ASSUME NEW k \in Nat, s \subseteq 1..(k + 1), NEW x \in s \ {Max(s)}  PROVE x \in 1..k
      <3>1. PICK m : m = Max(s)
        OBVIOUS
      <3>2. m \in 1..(k + 1) /\ x \in 1..(k + 1) /\ x <= m /\ x # m
        BY <2>2, <2>3, <3>1
      <3>3. QED  BY <3>2
    <2>4. QED  BY <2>2, <2>3
  <1>1. T \in SUBSET Nat
    OBVIOUS
  <1>2. 0 \in T
    <2>1. Solves([s \in D |-> base], 0)
      BY DEF FoldStep
    <2>2. [s \in D |-> base] \in [D -> W]
      OBVIOUS
    <2> HIDE DEF Solves
    <2>3. QED  BY <2>1, <2>2
  <1>3. ASSUME NEW k \in Nat, k \in T  PROVE k + 1 \in T
    <2>1. PICK f \in [D -> W] : Solves(f, k)
      BY <1>3
    <2>2. PICK h : h = [s \in D |-> FoldStep(f, phi, base, s)]
      OBVIOUS
    <2>3. h \in [D -> W]
      <3>1. \A s \in D : FoldStep(f, phi, base, s) \in W
        <4>1. SUFFICES ASSUME NEW s \in D  PROVE FoldStep(f, phi, base, s) \in W
          OBVIOUS
        <4>2. CASE s = {}
          BY <4>2 DEF FoldStep
        <4>3. CASE s # {}
          <5>1. f[s \ {Max(s)}] \in W /\ Max(s) \in 1..n
            BY <1>0, <4>3
          <5>2. phi[<<f[s \ {Max(s)}], Max(s)>>] \in W
            BY <5>1
          <5>3. QED  BY <4>3, <5>2 DEF FoldStep
        <4>4. QED  BY <4>2, <4>3
      <3>2. QED  BY <2>2, <3>1
    <2>4. \A s \in D : s \subseteq 1..k => h[s] = f[s]
      BY <2>1, <2>2
    <2>5. Solves(h, k + 1)
      <3>1. SUFFICES ASSUME NEW s \in D, s \subseteq 1..(k + 1)  PROVE h[s] = FoldStep(h, phi, base, s)
        OBVIOUS
      <3>2. h[s] = FoldStep(f, phi, base, s)
        BY <2>2
      <3>3. CASE s = {}
        BY <3>2, <3>3 DEF FoldStep
      <3>4. CASE s # {}
        <4>1. h[s \ {Max(s)}] = f[s \ {Max(s)}]
          BY <1>0, <2>4, <3>1, <3>4
        <4>2. QED  BY <3>2, <3>4, <4>1 DEF FoldStep
      <3>5. QED  BY <3>3, <3>4
    <2> HIDE DEF Solves
    <2>6. QED  BY <2>3, <2>5
  <1>4. T = Nat
    <2> HIDE DEF T
    <2> QED  BY <1>1, <1>2, <1>3, EveryNumber
  <1>5. PICK f \in [D -> W] : Solves(f, n)
    BY <1>4
  <1>6. QED
    BY <1>5 DEF Folding

\* The first indexes, one after the other.
LEMMA FirstIndexes ==
    ASSUME NEW n \in Nat
    PROVE  /\ 1..0 = {}
           /\ \A k \in 1..n : /\ 1..k \in SUBSET (1..n) /\ 1..(k - 1) \in SUBSET (1..n) /\ 1..k # {}
                              /\ Max(1..k) = k /\ (1..k) \ {Max(1..k)} = 1..(k - 1)
  <1>1. 1..0 = {}
    OBVIOUS
  <1>2. SUFFICES ASSUME NEW k \in 1..n
        PROVE /\ 1..k \in SUBSET (1..n) /\ 1..(k - 1) \in SUBSET (1..n) /\ 1..k # {}
              /\ Max(1..k) = k /\ (1..k) \ {Max(1..k)} = 1..(k - 1)
    BY <1>1
  <1>3. 1..k \in SUBSET (1..n) /\ 1..(k - 1) \in SUBSET (1..n)
    OBVIOUS
  <1>4. k \in Nat /\ k # 0
    OBVIOUS
  <1>5. QED
    BY <1>3, <1>4, MaxFirst

\* Induction over the first indexes.
LEMMA EveryIndex ==
    ASSUME NEW n \in Nat, NEW T \in SUBSET Nat, 0 \in T, \A k \in 1..n : k - 1 \in T => k \in T
    PROVE  n \in T
  <1> DEFINE U == {k \in Nat : k <= n => k \in T}
  <1>1. 0 \in U
    OBVIOUS
  <1>2. ASSUME NEW k \in Nat, k \in U  PROVE k + 1 \in U
    <2>1. SUFFICES ASSUME k + 1 <= n  PROVE k + 1 \in T
      OBVIOUS
    <2>2. k \in T /\ k + 1 \in 1..n /\ (k + 1) - 1 = k
      BY <1>2, <2>1
    <2>3. QED  BY <2>2
  <1>3. U \in SUBSET Nat
    OBVIOUS
  <1>4. U = Nat
    <2> HIDE DEF U
    <2> QED  BY <1>1, <1>2, <1>3, EveryNumber
  <1>5. QED
    BY <1>4

LEMMA StaysIn ==
    ASSUME NEW n \in Nat, NEW g, NEW W, g = [k \in 0..n |-> g[k]], g[0] \in W, \A k \in 1..n : g[k - 1] \in W => g[k] \in W
    PROVE  g \in [0..n -> W]
  <1> DEFINE T == {k \in Nat : k <= n => g[k] \in W}
  <1>1. 0 \in T
    OBVIOUS
  <1>2. ASSUME NEW k \in Nat, k \in T  PROVE k + 1 \in T
    <2>1. SUFFICES ASSUME k + 1 <= n  PROVE g[k + 1] \in W
      OBVIOUS
    <2>2. g[k] \in W /\ k + 1 \in 1..n /\ (k + 1) - 1 = k
      BY <1>2, <2>1
    <2>3. QED  BY <2>2
  <1>3. T = Nat
    <2>1. T \in SUBSET Nat
      OBVIOUS
    <2> HIDE DEF T
    <2>2. QED  BY <1>1, <1>2, <2>1, EveryNumber
  <1>4. QED
    BY <1>3

AdaptRun(g, n, seq, W, base, form) ==
    /\ g \in [0..n -> W] /\ g[0] = base /\ g[n] = FoldLeft(LAMBDA s, item : AddPermission(form, s, item), base, seq)
    /\ \A k \in 1..n : g[k] = AddPermission(form, g[k - 1], seq[k])

\* adapt_permissions_of
LEMMA AdaptFolds ==
    ASSUME NEW n \in Nat, NEW seq, DOMAIN seq = 1..n, NEW W, NEW base \in W, NEW form,
           \A w \in W : \A k \in 1..n : AddPermission(form, w, seq[k]) \in W
    PROVE  \E g : AdaptRun(g, n, seq, W, base, form)
  <1> DEFINE Body(h) == [s \in SUBSET DOMAIN seq |-> IF s = {} THEN base ELSE AddPermission(form, h[s \ {Max(s)}], seq[Max(s)])]
  <1>1. PICK phi : phi = [z \in W \X (1..n) |-> AddPermission(form, z[1], seq[z[2]])]
    OBVIOUS
  <1>2. phi \in [W \X (1..n) -> W]
    BY <1>1
  <1>3. PICK f \in [SUBSET (1..n) -> W] : \A s \in SUBSET (1..n) : f[s] = FoldStep(f, phi, base, s)
    <2>1. PICK f : Folding(f, n, W, phi, base)
      BY <1>2, FoldExists
    <2>2. QED  BY <2>1 DEF Folding
  <1>4. ASSUME NEW s \in SUBSET (1..n), s # {}
        PROVE  phi[<<f[s \ {Max(s)}], Max(s)>>] = AddPermission(form, f[s \ {Max(s)}], seq[Max(s)])
    <2>1. Max(s) \in 1..n /\ s \ {Max(s)} \in SUBSET (1..n)
      BY <1>4, MaxIn
    <2>2. PICK a \in W, i \in 1..n : a = f[s \ {Max(s)}] /\ i = Max(s)
      BY <2>1
    <2>3. phi[<<a, i>>] = AddPermission(form, a, seq[i])
      BY <1>1
    <2>4. QED  BY <2>2, <2>3
  <1>5. \A s \in SUBSET (1..n) : f[s] = IF s = {} THEN base ELSE AddPermission(form, f[s \ {Max(s)}], seq[Max(s)])
    BY <1>3, <1>4 DEF FoldStep
  <1>6. f = Body(f)
    BY <1>5
  <1>7. PICK h : h = CHOOSE x : x = Body(x)
    OBVIOUS
  <1>8. h = Body(h)
    <2> HIDE DEF Body
    <2> QED  BY <1>6, <1>7
  <1>9. FoldLeft(LAMBDA s, item : AddPermission(form, s, item), base, seq) = h[DOMAIN seq]
    BY <1>7 DEF FoldLeft, MapThenFoldSet
  <1>10. \A s \in SUBSET (1..n) : h[s] = IF s = {} THEN base ELSE AddPermission(form, h[s \ {Max(s)}], seq[Max(s)])
    BY <1>8
  <1>11. PICK g : g = [k \in 0..n |-> h[1..k]]
    OBVIOUS
  <1>12. g[0] = base /\ g[n] = FoldLeft(LAMBDA s, item : AddPermission(form, s, item), base, seq)
    <2>1. 1..0 = {} /\ {} \in SUBSET (1..n)
      OBVIOUS
    <2>2. h[{}] = base
      BY <1>10, <2>1
    <2>3. g[0] = h[1..0] /\ g[n] = h[1..n]
      BY <1>11
    <2>4. QED  BY <1>9, <2>1, <2>2, <2>3
  <1>13. ASSUME NEW k \in 1..n  PROVE g[k] = AddPermission(form, g[k - 1], seq[k])
    <2>1. 1..k \in SUBSET (1..n) /\ 1..k # {} /\ Max(1..k) = k /\ (1..k) \ {Max(1..k)} = 1..(k - 1)
      BY FirstIndexes
    <2>2. g[k] = h[1..k] /\ g[k - 1] = h[1..(k - 1)]
      BY <1>11
    <2>3. QED  BY <1>10, <2>1, <2>2
  <1>14. g \in [0..n -> W]
    <2>1. \A k \in 1..n : g[k - 1] \in W => g[k] \in W
      BY <1>13
    <2>2. g = [k \in 0..n |-> g[k]]
      BY <1>11
    <2>3. QED  BY <1>12, <2>1, <2>2, StaysIn
  <1>15. QED
    BY <1>12, <1>13, <1>14 DEF AdaptRun

ImplicitRun(g, n, seq, W, base, type) ==
    /\ g \in [0..n -> W] /\ g[0] = base /\ g[n] = FoldLeft(LAMBDA s, m : ImplicitType(type, s, m), base, seq)
    /\ \A k \in 1..n : g[k] = ImplicitType(type, g[k - 1], seq[k])

\* The plugs, or the provided bindings.
LEMMA ImplicitFolds ==
    ASSUME NEW n \in Nat, NEW seq, DOMAIN seq = 1..n, NEW W, NEW base \in W, NEW type,
           \A w \in W : \A k \in 1..n : ImplicitType(type, w, seq[k]) \in W
    PROVE  \E g : ImplicitRun(g, n, seq, W, base, type)
  <1> DEFINE Body(h) == [s \in SUBSET DOMAIN seq |-> IF s = {} THEN base ELSE ImplicitType(type, h[s \ {Max(s)}], seq[Max(s)])]
  <1>1. PICK phi : phi = [z \in W \X (1..n) |-> ImplicitType(type, z[1], seq[z[2]])]
    OBVIOUS
  <1>2. phi \in [W \X (1..n) -> W]
    BY <1>1
  <1>3. PICK f \in [SUBSET (1..n) -> W] : \A s \in SUBSET (1..n) : f[s] = FoldStep(f, phi, base, s)
    <2>1. PICK f : Folding(f, n, W, phi, base)
      BY <1>2, FoldExists
    <2>2. QED  BY <2>1 DEF Folding
  <1>4. ASSUME NEW s \in SUBSET (1..n), s # {}
        PROVE  phi[<<f[s \ {Max(s)}], Max(s)>>] = ImplicitType(type, f[s \ {Max(s)}], seq[Max(s)])
    <2>1. Max(s) \in 1..n /\ s \ {Max(s)} \in SUBSET (1..n)
      BY <1>4, MaxIn
    <2>2. PICK a \in W, i \in 1..n : a = f[s \ {Max(s)}] /\ i = Max(s)
      BY <2>1
    <2>3. phi[<<a, i>>] = ImplicitType(type, a, seq[i])
      BY <1>1
    <2>4. QED  BY <2>2, <2>3
  <1>5. \A s \in SUBSET (1..n) : f[s] = IF s = {} THEN base ELSE ImplicitType(type, f[s \ {Max(s)}], seq[Max(s)])
    BY <1>3, <1>4 DEF FoldStep
  <1>6. f = Body(f)
    BY <1>5
  <1>7. PICK h : h = CHOOSE x : x = Body(x)
    OBVIOUS
  <1>8. h = Body(h)
    <2> HIDE DEF Body
    <2> QED  BY <1>6, <1>7
  <1>9. FoldLeft(LAMBDA s, m : ImplicitType(type, s, m), base, seq) = h[DOMAIN seq]
    BY <1>7 DEF FoldLeft, MapThenFoldSet
  <1>10. \A s \in SUBSET (1..n) : h[s] = IF s = {} THEN base ELSE ImplicitType(type, h[s \ {Max(s)}], seq[Max(s)])
    BY <1>8
  <1>11. PICK g : g = [k \in 0..n |-> h[1..k]]
    OBVIOUS
  <1>12. g[0] = base /\ g[n] = FoldLeft(LAMBDA s, m : ImplicitType(type, s, m), base, seq)
    <2>1. 1..0 = {} /\ {} \in SUBSET (1..n)
      OBVIOUS
    <2>2. h[{}] = base
      BY <1>10, <2>1
    <2>3. g[0] = h[1..0] /\ g[n] = h[1..n]
      BY <1>11
    <2>4. QED  BY <1>9, <2>1, <2>2, <2>3
  <1>13. ASSUME NEW k \in 1..n  PROVE g[k] = ImplicitType(type, g[k - 1], seq[k])
    <2>1. 1..k \in SUBSET (1..n) /\ 1..k # {} /\ Max(1..k) = k /\ (1..k) \ {Max(1..k)} = 1..(k - 1)
      BY FirstIndexes
    <2>2. g[k] = h[1..k] /\ g[k - 1] = h[1..(k - 1)]
      BY <1>11
    <2>3. QED  BY <1>10, <2>1, <2>2
  <1>14. g \in [0..n -> W]
    <2>1. \A k \in 1..n : g[k - 1] \in W => g[k] \in W
      BY <1>13
    <2>2. g = [k \in 0..n |-> g[k]]
      BY <1>11
    <2>3. QED  BY <1>12, <2>1, <2>2, StaysIn
  <1>15. QED
    BY <1>12, <1>13, <1>14 DEF ImplicitRun

ExplicitRun(g, n, seq, W, base) ==
    /\ g \in [0..n -> W] /\ g[0] = base /\ g[n] = FoldLeft(ExplicitType, base, seq)
    /\ \A k \in 1..n : g[k] = ExplicitType(g[k - 1], seq[k])

\* The explicit properties.
LEMMA ExplicitFolds ==
    ASSUME NEW n \in Nat, NEW seq, DOMAIN seq = 1..n, NEW W, NEW base \in W,
           \A w \in W : \A k \in 1..n : ExplicitType(w, seq[k]) \in W
    PROVE  \E g : ExplicitRun(g, n, seq, W, base)
  <1> DEFINE Body(h) == [s \in SUBSET DOMAIN seq |-> IF s = {} THEN base ELSE ExplicitType(h[s \ {Max(s)}], seq[Max(s)])]
  <1>1. PICK phi : phi = [z \in W \X (1..n) |-> ExplicitType(z[1], seq[z[2]])]
    OBVIOUS
  <1>2. phi \in [W \X (1..n) -> W]
    BY <1>1
  <1>3. PICK f \in [SUBSET (1..n) -> W] : \A s \in SUBSET (1..n) : f[s] = FoldStep(f, phi, base, s)
    <2>1. PICK f : Folding(f, n, W, phi, base)
      BY <1>2, FoldExists
    <2>2. QED  BY <2>1 DEF Folding
  <1>4. ASSUME NEW s \in SUBSET (1..n), s # {}
        PROVE  phi[<<f[s \ {Max(s)}], Max(s)>>] = ExplicitType(f[s \ {Max(s)}], seq[Max(s)])
    <2>1. Max(s) \in 1..n /\ s \ {Max(s)} \in SUBSET (1..n)
      BY <1>4, MaxIn
    <2>2. PICK a \in W, i \in 1..n : a = f[s \ {Max(s)}] /\ i = Max(s)
      BY <2>1
    <2>3. phi[<<a, i>>] = ExplicitType(a, seq[i])
      BY <1>1
    <2>4. QED  BY <2>2, <2>3
  <1>5. \A s \in SUBSET (1..n) : f[s] = IF s = {} THEN base ELSE ExplicitType(f[s \ {Max(s)}], seq[Max(s)])
    BY <1>3, <1>4 DEF FoldStep
  <1>6. f = Body(f)
    BY <1>5
  <1>7. PICK h : h = CHOOSE x : x = Body(x)
    OBVIOUS
  <1>8. h = Body(h)
    <2> HIDE DEF Body
    <2> QED  BY <1>6, <1>7
  <1>9. FoldLeft(ExplicitType, base, seq) = h[DOMAIN seq]
    BY <1>7 DEF FoldLeft, MapThenFoldSet
  <1>10. \A s \in SUBSET (1..n) : h[s] = IF s = {} THEN base ELSE ExplicitType(h[s \ {Max(s)}], seq[Max(s)])
    BY <1>8
  <1>11. PICK g : g = [k \in 0..n |-> h[1..k]]
    OBVIOUS
  <1>12. g[0] = base /\ g[n] = FoldLeft(ExplicitType, base, seq)
    <2>1. 1..0 = {} /\ {} \in SUBSET (1..n)
      OBVIOUS
    <2>2. h[{}] = base
      BY <1>10, <2>1
    <2>3. g[0] = h[1..0] /\ g[n] = h[1..n]
      BY <1>11
    <2>4. QED  BY <1>9, <2>1, <2>2, <2>3
  <1>13. ASSUME NEW k \in 1..n  PROVE g[k] = ExplicitType(g[k - 1], seq[k])
    <2>1. 1..k \in SUBSET (1..n) /\ 1..k # {} /\ Max(1..k) = k /\ (1..k) \ {Max(1..k)} = 1..(k - 1)
      BY FirstIndexes
    <2>2. g[k] = h[1..k] /\ g[k - 1] = h[1..(k - 1)]
      BY <1>11
    <2>3. QED  BY <1>10, <2>1, <2>2
  <1>14. g \in [0..n -> W]
    <2>1. \A k \in 1..n : g[k - 1] \in W => g[k] \in W
      BY <1>13
    <2>2. g = [k \in 0..n |-> g[k]]
      BY <1>11
    <2>3. QED  BY <1>12, <2>1, <2>2, StaysIn
  <1>15. QED
    BY <1>12, <1>13, <1>14 DEF ExplicitRun

TargetRun(g, n, seq, W, base) ==
    /\ g \in [0..n -> W] /\ g[0] = base /\ g[n] = FoldLeft(TargetType, base, seq)
    /\ \A k \in 1..n : g[k] = TargetType(g[k - 1], seq[k])

\* The targets.
LEMMA TargetFolds ==
    ASSUME NEW n \in Nat, NEW seq, DOMAIN seq = 1..n, NEW W, NEW base \in W,
           \A w \in W : \A k \in 1..n : TargetType(w, seq[k]) \in W
    PROVE  \E g : TargetRun(g, n, seq, W, base)
  <1> DEFINE Body(h) == [s \in SUBSET DOMAIN seq |-> IF s = {} THEN base ELSE TargetType(h[s \ {Max(s)}], seq[Max(s)])]
  <1>1. PICK phi : phi = [z \in W \X (1..n) |-> TargetType(z[1], seq[z[2]])]
    OBVIOUS
  <1>2. phi \in [W \X (1..n) -> W]
    BY <1>1
  <1>3. PICK f \in [SUBSET (1..n) -> W] : \A s \in SUBSET (1..n) : f[s] = FoldStep(f, phi, base, s)
    <2>1. PICK f : Folding(f, n, W, phi, base)
      BY <1>2, FoldExists
    <2>2. QED  BY <2>1 DEF Folding
  <1>4. ASSUME NEW s \in SUBSET (1..n), s # {}
        PROVE  phi[<<f[s \ {Max(s)}], Max(s)>>] = TargetType(f[s \ {Max(s)}], seq[Max(s)])
    <2>1. Max(s) \in 1..n /\ s \ {Max(s)} \in SUBSET (1..n)
      BY <1>4, MaxIn
    <2>2. PICK a \in W, i \in 1..n : a = f[s \ {Max(s)}] /\ i = Max(s)
      BY <2>1
    <2>3. phi[<<a, i>>] = TargetType(a, seq[i])
      BY <1>1
    <2>4. QED  BY <2>2, <2>3
  <1>5. \A s \in SUBSET (1..n) : f[s] = IF s = {} THEN base ELSE TargetType(f[s \ {Max(s)}], seq[Max(s)])
    BY <1>3, <1>4 DEF FoldStep
  <1>6. f = Body(f)
    BY <1>5
  <1>7. PICK h : h = CHOOSE x : x = Body(x)
    OBVIOUS
  <1>8. h = Body(h)
    <2> HIDE DEF Body
    <2> QED  BY <1>6, <1>7
  <1>9. FoldLeft(TargetType, base, seq) = h[DOMAIN seq]
    BY <1>7 DEF FoldLeft, MapThenFoldSet
  <1>10. \A s \in SUBSET (1..n) : h[s] = IF s = {} THEN base ELSE TargetType(h[s \ {Max(s)}], seq[Max(s)])
    BY <1>8
  <1>11. PICK g : g = [k \in 0..n |-> h[1..k]]
    OBVIOUS
  <1>12. g[0] = base /\ g[n] = FoldLeft(TargetType, base, seq)
    <2>1. 1..0 = {} /\ {} \in SUBSET (1..n)
      OBVIOUS
    <2>2. h[{}] = base
      BY <1>10, <2>1
    <2>3. g[0] = h[1..0] /\ g[n] = h[1..n]
      BY <1>11
    <2>4. QED  BY <1>9, <2>1, <2>2, <2>3
  <1>13. ASSUME NEW k \in 1..n  PROVE g[k] = TargetType(g[k - 1], seq[k])
    <2>1. 1..k \in SUBSET (1..n) /\ 1..k # {} /\ Max(1..k) = k /\ (1..k) \ {Max(1..k)} = 1..(k - 1)
      BY FirstIndexes
    <2>2. g[k] = h[1..k] /\ g[k - 1] = h[1..(k - 1)]
      BY <1>11
    <2>3. QED  BY <1>10, <2>1, <2>2
  <1>14. g \in [0..n -> W]
    <2>1. \A k \in 1..n : g[k - 1] \in W => g[k] \in W
      BY <1>13
    <2>2. g = [k \in 0..n |-> g[k]]
      BY <1>11
    <2>3. QED  BY <1>12, <2>1, <2>2, StaysIn
  <1>15. QED
    BY <1>12, <1>13, <1>14 DEF TargetRun

PublicRun(g, n, seq, W, base) ==
    /\ g \in [0..n -> W] /\ g[0] = base /\ g[n] = FoldLeft(PublicType, base, seq)
    /\ \A k \in 1..n : g[k] = PublicType(g[k - 1], seq[k])

\* The propagation.
LEMMA PublicFolds ==
    ASSUME NEW n \in Nat, NEW seq, DOMAIN seq = 1..n, NEW W, NEW base \in W,
           \A w \in W : \A k \in 1..n : PublicType(w, seq[k]) \in W
    PROVE  \E g : PublicRun(g, n, seq, W, base)
  <1> DEFINE Body(h) == [s \in SUBSET DOMAIN seq |-> IF s = {} THEN base ELSE PublicType(h[s \ {Max(s)}], seq[Max(s)])]
  <1>1. PICK phi : phi = [z \in W \X (1..n) |-> PublicType(z[1], seq[z[2]])]
    OBVIOUS
  <1>2. phi \in [W \X (1..n) -> W]
    BY <1>1
  <1>3. PICK f \in [SUBSET (1..n) -> W] : \A s \in SUBSET (1..n) : f[s] = FoldStep(f, phi, base, s)
    <2>1. PICK f : Folding(f, n, W, phi, base)
      BY <1>2, FoldExists
    <2>2. QED  BY <2>1 DEF Folding
  <1>4. ASSUME NEW s \in SUBSET (1..n), s # {}
        PROVE  phi[<<f[s \ {Max(s)}], Max(s)>>] = PublicType(f[s \ {Max(s)}], seq[Max(s)])
    <2>1. Max(s) \in 1..n /\ s \ {Max(s)} \in SUBSET (1..n)
      BY <1>4, MaxIn
    <2>2. PICK a \in W, i \in 1..n : a = f[s \ {Max(s)}] /\ i = Max(s)
      BY <2>1
    <2>3. phi[<<a, i>>] = PublicType(a, seq[i])
      BY <1>1
    <2>4. QED  BY <2>2, <2>3
  <1>5. \A s \in SUBSET (1..n) : f[s] = IF s = {} THEN base ELSE PublicType(f[s \ {Max(s)}], seq[Max(s)])
    BY <1>3, <1>4 DEF FoldStep
  <1>6. f = Body(f)
    BY <1>5
  <1>7. PICK h : h = CHOOSE x : x = Body(x)
    OBVIOUS
  <1>8. h = Body(h)
    <2> HIDE DEF Body
    <2> QED  BY <1>6, <1>7
  <1>9. FoldLeft(PublicType, base, seq) = h[DOMAIN seq]
    BY <1>7 DEF FoldLeft, MapThenFoldSet
  <1>10. \A s \in SUBSET (1..n) : h[s] = IF s = {} THEN base ELSE PublicType(h[s \ {Max(s)}], seq[Max(s)])
    BY <1>8
  <1>11. PICK g : g = [k \in 0..n |-> h[1..k]]
    OBVIOUS
  <1>12. g[0] = base /\ g[n] = FoldLeft(PublicType, base, seq)
    <2>1. 1..0 = {} /\ {} \in SUBSET (1..n)
      OBVIOUS
    <2>2. h[{}] = base
      BY <1>10, <2>1
    <2>3. g[0] = h[1..0] /\ g[n] = h[1..n]
      BY <1>11
    <2>4. QED  BY <1>9, <2>1, <2>2, <2>3
  <1>13. ASSUME NEW k \in 1..n  PROVE g[k] = PublicType(g[k - 1], seq[k])
    <2>1. 1..k \in SUBSET (1..n) /\ 1..k # {} /\ Max(1..k) = k /\ (1..k) \ {Max(1..k)} = 1..(k - 1)
      BY FirstIndexes
    <2>2. g[k] = h[1..k] /\ g[k - 1] = h[1..(k - 1)]
      BY <1>11
    <2>3. QED  BY <1>10, <2>1, <2>2
  <1>14. g \in [0..n -> W]
    <2>1. \A k \in 1..n : g[k - 1] \in W => g[k] \in W
      BY <1>13
    <2>2. g = [k \in 0..n |-> g[k]]
      BY <1>11
    <2>3. QED  BY <1>12, <2>1, <2>2, StaysIn
  <1>15. QED
    BY <1>12, <1>13, <1>14 DEF PublicRun

----------------------------------------------------------------------------
(* The entries of a package, children first. *)

\* at tells the place of each entry in a walk, of n entries.
Places(at, n) ==
    /\ at \in [Entries -> 1..n]
    /\ \A e \in Content : at[e] < at[Parent[e]]

LEMMA ParentIn == ASSUME NEW e \in Content  PROVE Parent[e] \in Entries /\ e \in Entries /\ e # Packdir
  BY EntriesAssumption DEF Content

LEMMA PlacesExist ==
    ASSUME NEW o \in Orders
    PROVE  \E at, n : n \in Nat /\ Places(at, n)
  <1>1. /\ o \in Seq(Entries) /\ \A e \in Entries : \E i \in DOMAIN o : o[i] = e
        /\ \A i, j \in DOMAIN o : o[i] # Packdir /\ o[j] = Parent[o[i]] => i < j
    BY InputAssumption
  <1>2. PICK n \in Nat : n = Len(o) /\ DOMAIN o = 1..n
    BY <1>1
  <1>3. PICK at : at = [e \in Entries |-> CHOOSE i \in 1..n : o[i] = e]
    OBVIOUS
  <1>4. \A e \in Entries : at[e] \in 1..n /\ o[at[e]] = e
    BY <1>1, <1>2, <1>3
  <1>5. at \in [Entries -> 1..n]
    BY <1>3, <1>4
  <1>6. ASSUME NEW e \in Content  PROVE at[e] < at[Parent[e]]
    BY <1>1, <1>2, <1>4, ParentIn
  <1>7. QED
    BY <1>5, <1>6 DEF Places

\* A recursion over the parents, that stops at the entries of Stop.
UpStep(f, e, Stop, base, phi) == IF e \in Stop THEN base[e] ELSE phi[<<e, f[Parent[e]]>>]
UpFun(f, Stop, base, phi) == f = [e \in Entries |-> UpStep(f, e, Stop, base, phi)]

LEMMA UpExists ==
    ASSUME NEW at, NEW n \in Nat, Places(at, n), NEW V, NEW Stop, Packdir \in Stop, NEW base \in [Entries -> V],
           NEW phi \in [Entries \X V -> V]
    PROVE  \E f \in [Entries -> V] : UpFun(f, Stop, base, phi)
  <1> DEFINE W == [Entries -> V]
             T == {m \in Nat : \E f \in W : \A e \in Entries : n - at[e] < m => f[e] = UpStep(f, e, Stop, base, phi)}
  <1>0. \A e \in Entries : at[e] \in 1..n /\ n - at[e] \in Nat
    BY DEF Places
  <1>1. 0 \in T
    BY <1>0
  <1>2. ASSUME NEW m \in Nat, m \in T  PROVE m + 1 \in T
    <2>1. PICK f \in W : \A e \in Entries : n - at[e] < m => f[e] = UpStep(f, e, Stop, base, phi)
      BY <1>2
    <2>2. \A e \in Entries : UpStep(f, e, Stop, base, phi) \in V
      <3>1. SUFFICES ASSUME NEW e \in Entries  PROVE UpStep(f, e, Stop, base, phi) \in V
        OBVIOUS
      <3>2. CASE e \in Stop
        BY <3>2 DEF UpStep
      <3>3. CASE e \notin Stop
        <4>1. e \in Content
          BY <3>3 DEF Content
        <4>2. PICK v \in V : v = f[Parent[e]]
          BY <4>1, ParentIn
        <4>3. phi[<<e, v>>] \in V
          OBVIOUS
        <4>4. QED  BY <3>3, <4>2, <4>3 DEF UpStep
      <3>4. QED  BY <3>2, <3>3
    <2>3. PICK h : h = [e \in Entries |-> IF n - at[e] = m THEN UpStep(f, e, Stop, base, phi) ELSE f[e]]
      OBVIOUS
    <2>4. h \in W
      BY <2>2, <2>3
    <2>5. ASSUME NEW e \in Entries, n - at[e] < m + 1  PROVE h[e] = UpStep(h, e, Stop, base, phi)
      <3>1. h[e] = UpStep(f, e, Stop, base, phi)
        BY <1>0, <2>1, <2>3, <2>5
      <3>2. e \notin Stop => h[Parent[e]] = f[Parent[e]]
        <4>1. SUFFICES ASSUME e \notin Stop  PROVE h[Parent[e]] = f[Parent[e]]
          OBVIOUS
        <4>2. e \in Content
          BY <4>1 DEF Content
        <4>3. PICK p \in Entries : p = Parent[e] /\ at[e] < at[p]
          BY <4>2, ParentIn DEF Places
        <4>4. n - at[p] # m
          BY <1>0, <2>5, <4>3
        <4>5. QED  BY <2>3, <4>3, <4>4
      <3>3. QED  BY <3>1, <3>2 DEF UpStep
    <2>6. QED  BY <2>4, <2>5
  <1>3. T = Nat
    <2>1. T \in SUBSET Nat
      OBVIOUS
    <2> HIDE DEF T
    <2>2. QED  BY <1>1, <1>2, <2>1, EveryNumber
  <1>4. PICK f \in W : \A e \in Entries : n - at[e] < n => f[e] = UpStep(f, e, Stop, base, phi)
    BY <1>3
  <1>5. \A e \in Entries : n - at[e] < n
    BY <1>0
  <1>6. f = [e \in Entries |-> UpStep(f, e, Stop, base, phi)]
    BY <1>4, <1>5
  <1>7. QED
    BY <1>6 DEF UpFun

\* What is true of an entry when it is true of its parent is true of all entries.
LEMMA UpInduction ==
    ASSUME NEW at, NEW n \in Nat, Places(at, n), NEW S, \A e \in Entries : (e \in Content => Parent[e] \in S) => e \in S
    PROVE  Entries \subseteq S
  <1> DEFINE Bad == {m \in Nat : \E e \in Entries : e \notin S /\ m = n - at[e]}
  <1>0. \A e \in Entries : at[e] \in 1..n /\ n - at[e] \in Nat
    BY DEF Places
  <1>1. SUFFICES ASSUME Bad # {}  PROVE FALSE
    BY <1>0
  <1>2. PICK m \in Bad : \A k \in Bad : m <= k
    <2>1. Bad \in SUBSET Nat
      OBVIOUS
    <2> HIDE DEF Bad
    <2>2. QED  BY <1>1, <2>1, LeastNumber
  <1>3. PICK e \in Entries : e \notin S /\ m = n - at[e]
    OBVIOUS
  <1>4. e \in Content /\ Parent[e] \notin S
    BY <1>3
  <1>5. PICK p \in Entries : p = Parent[e] /\ at[e] < at[p]
    BY <1>4, ParentIn DEF Places
  <1>6. n - at[p] \in Bad
    BY <1>0, <1>4, <1>5
  <1>7. QED
    BY <1>0, <1>2, <1>3, <1>5, <1>6

\* The directories above an entry.
LEMMA AboveIs ==
    ASSUME NEW at, NEW n \in Nat, Places(at, n)
    PROVE  /\ Above(Packdir) = {}
           /\ \A e \in Content : Above(e) = {Parent[e]} \union Above(Parent[e])
           /\ \A e \in Entries : Above(e) \subseteq Entries
  <1> DEFINE Body(f) == [k \in Entries |-> IF k = Packdir THEN {} ELSE {Parent[k]} \cup f[Parent[k]]]
  <1>1. PICK V, Stop, base, phi : /\ V = SUBSET Entries /\ Stop = {Packdir} /\ base = [e \in Entries |-> {}]
                                  /\ phi = [z \in Entries \X V |-> IF z[1] = Packdir THEN {} ELSE {Parent[z[1]]} \union z[2]]
    OBVIOUS
  <1>2. base \in [Entries -> V]
    BY <1>1
  <1>3. phi \in [Entries \X V -> V]
    BY <1>1, ParentIn DEF Content
  <1>4. PICK f \in [Entries -> V] : UpFun(f, Stop, base, phi)
    BY <1>1, <1>2, <1>3, UpExists
  <1>5. f = Body(f)
    <2>1. ASSUME NEW e \in Entries  PROVE UpStep(f, e, Stop, base, phi) = IF e = Packdir THEN {} ELSE {Parent[e]} \cup f[Parent[e]]
      <3>1. CASE e = Packdir
        BY <1>1, <3>1 DEF UpStep
      <3>2. CASE e # Packdir
        <4>1. PICK v \in V : v = f[Parent[e]]
          BY <3>2, ParentIn DEF Content
        <4>2. phi[<<e, v>>] = {Parent[e]} \union v
          BY <1>1, <3>2
        <4>3. QED  BY <1>1, <3>2, <4>1, <4>2 DEF UpStep
      <3>3. QED  BY <3>1, <3>2
    <2>2. QED  BY <1>4, <2>1 DEF UpFun
  <1>6. PICK g : g = CHOOSE x : x = Body(x)
    OBVIOUS
  <1>7. g = Body(g)
    <2> HIDE DEF Body
    <2> QED  BY <1>5, <1>6
  <1>8. \A e : Above(e) = g[e]
    BY <1>6 DEF Above
  <1>9. g[Packdir] = {} /\ \A e \in Content : g[e] = {Parent[e]} \union g[Parent[e]]
    BY <1>7, EntriesAssumption DEF Content
  <1>10. Entries \subseteq {e \in Entries : g[e] \subseteq Entries}
    <2>1. PICK S : S = {e \in Entries : g[e] \subseteq Entries}
      OBVIOUS
    <2>2. ASSUME NEW e \in Entries, e \in Content => Parent[e] \in S  PROVE e \in S
      BY <1>9, <2>1, <2>2, ParentIn DEF Content
    <2>3. Entries \subseteq S
      BY <2>2, UpInduction
    <2>4. QED  BY <2>1, <2>3
  <1>11. QED
    BY <1>8, <1>9, <1>10

LEMMA AboveUp ==
    ASSUME NEW at, NEW n \in Nat, Places(at, n), NEW d \in Entries, NEW x \in Above(d), x \in Content
    PROVE  Parent[x] \in Above(d)
  <1>1. PICK S : S = {e \in Entries : \A y \in Content : y \in Above(e) => Parent[y] \in Above(e)}
    OBVIOUS
  <1>2. ASSUME NEW e \in Entries, e \in Content => Parent[e] \in S  PROVE e \in S
    <2>1. CASE e = Packdir
      BY <1>1, <2>1, AboveIs
    <2>2. CASE e # Packdir
      <3>1. e \in Content /\ Parent[e] \in S /\ Above(e) = {Parent[e]} \union Above(Parent[e])
        BY <1>2, <2>2, AboveIs DEF Content
      <3>2. ASSUME NEW y \in Content, y \in Above(e)  PROVE Parent[y] \in Above(e)
        <4>1. CASE y = Parent[e]
          <5>1. Parent[y] \in Above(y)
            BY AboveIs
          <5>2. QED  BY <3>1, <4>1, <5>1
        <4>2. CASE y \in Above(Parent[e])
          BY <1>1, <3>1, <4>2
        <4>3. QED  BY <3>1, <3>2, <4>1, <4>2
      <3>3. QED  BY <1>1, <3>2
    <2>3. QED  BY <2>1, <2>2
  <1>3. Entries \subseteq S
    BY <1>2, UpInduction
  <1>4. QED
    BY <1>1, <1>3

----------------------------------------------------------------------------
(* The permissions. *)

Accepted == {"required", "optional"}

\* The names of s that have a valid value.
ValidOf(s) == {s[i].name : i \in {j \in DOMAIN s : s[j].value \in Accepted}}

\* s holds what the first k permissions of c leave: a name that comes again replaces the former.
LastOf(c, j, k) == \A l \in (j + 1)..k : c[l].name # c[j].name
Kept(s, c, k, C) ==
    /\ s \in Seq(C)
    /\ \A i \in DOMAIN s : \E j \in 1..k : s[i] = c[j] /\ LastOf(c, j, k)
    /\ \A j \in 1..k : LastOf(c, j, k) => \E i \in DOMAIN s : s[i] = c[j]

\* json_object_object_add
LEMMA ObjectAddKeeps ==
    ASSUME NEW n \in Nat, NEW C, NEW c \in [1..n -> C], NEW k \in 1..n, NEW s, Kept(s, c, k - 1, C)
    PROVE  Kept(ObjectAdd(s, c[k]), c, k, C)
  <1>1. PICK x, old : x = c[k] /\ old = {i \in DOMAIN s : s[i].name = x.name}
    OBVIOUS
  <1>2. PICK r : r = ObjectAdd(s, x)
    OBVIOUS
  <1>3. s \in Seq(C) /\ x \in C
    BY <1>1 DEF Kept
  <1>4. r = IF old = {} THEN Append(s, x) ELSE [i \in DOMAIN s |-> IF i \in old THEN x ELSE s[i]]
    BY <1>1, <1>2 DEF ObjectAdd
  <1>5. /\ r \in Seq(C) /\ DOMAIN s \subseteq DOMAIN r
        /\ \A i \in DOMAIN s : i \notin old => r[i] = s[i]
        /\ \A i \in DOMAIN r : i \notin DOMAIN s \/ i \in old => r[i] = x
        /\ \E i \in DOMAIN r : r[i] = x
    <2>1. PICK m \in Nat : m = Len(s) /\ DOMAIN s = 1..m
      BY <1>3
    <2>2. CASE old = {}
      <3>1. r = Append(s, x)
        BY <1>4, <2>2
      <3>2. r \in Seq(C) /\ DOMAIN r = 1..(m + 1) /\ r[m + 1] = x /\ \A i \in 1..m : r[i] = s[i]
        BY <1>3, <2>1, <3>1
      <3>3. QED  BY <2>1, <2>2, <3>2
    <2>3. CASE old # {}
      <3>1. r = [i \in 1..m |-> IF i \in old THEN x ELSE s[i]]
        BY <1>4, <2>1, <2>3
      <3>2. r \in Seq(C)
        BY <1>3, <2>1, <3>1
      <3>3. QED  BY <1>1, <2>1, <2>3, <3>1, <3>2
    <2>4. QED  BY <2>2, <2>3
  <1>6. ASSUME NEW j \in 1..(k - 1)  PROVE LastOf(c, j, k) <=> LastOf(c, j, k - 1) /\ x.name # c[j].name
    <2>1. (j + 1)..k = ((j + 1)..(k - 1)) \union {k}
      OBVIOUS
    <2>2. QED  BY <1>1, <2>1 DEF LastOf
  <1>7. LastOf(c, k, k) /\ k \in 1..k /\ 1..k = (1..(k - 1)) \union {k}
    BY DEF LastOf
  <1>8. ASSUME NEW i \in DOMAIN r  PROVE \E j \in 1..k : r[i] = c[j] /\ LastOf(c, j, k)
    <2>1. CASE i \notin DOMAIN s \/ i \in old
      BY <1>1, <1>5, <1>7, <2>1
    <2>2. CASE i \in DOMAIN s /\ i \notin old
      <3>1. r[i] = s[i] /\ s[i].name # x.name
        BY <1>1, <1>5, <2>2
      <3>2. PICK j \in 1..(k - 1) : s[i] = c[j] /\ LastOf(c, j, k - 1)
        BY <2>2 DEF Kept
      <3>3. QED  BY <1>6, <1>7, <3>1, <3>2
    <2>3. QED  BY <2>1, <2>2
  <1>9. ASSUME NEW j \in 1..k, LastOf(c, j, k)  PROVE \E i \in DOMAIN r : r[i] = c[j]
    <2>1. CASE j = k
      BY <1>1, <1>5, <2>1
    <2>2. CASE j # k
      <3>1. j \in 1..(k - 1) /\ LastOf(c, j, k - 1) /\ x.name # c[j].name
        BY <1>6, <1>9, <2>2
      <3>2. PICK i \in DOMAIN s : s[i] = c[j]
        BY <3>1 DEF Kept
      <3>3. i \notin old
        BY <1>1, <3>1, <3>2
      <3>4. QED  BY <1>5, <3>2, <3>3
    <2>3. QED  BY <2>1, <2>2
  <1>10. QED
    BY <1>1, <1>2, <1>5, <1>8, <1>9 DEF Kept

\* adapt_permissions_of
LEMMA AdaptIs ==
    ASSUME NEW raw, raw # None => raw.items \in Seq(ToSet(raw.items)), Adapt(raw) # None
    PROVE  (\E C : Adapt(raw) \in Seq(C)) /\ ValidOf(Adapt(raw)) = ValidNames(raw)
  <1>1. CASE raw = None
    <2>1. Adapt(raw) = <<>>
      BY <1>1 DEF Adapt
    <2>2. ValidNames(raw) = {}
      BY <1>1 DEF ValidNames
    <2>3. QED  BY <2>1, <2>2 DEF ValidOf
  <1>2. CASE raw # None
    <2>1. PICK form, items : form = raw.form /\ items = raw.items
      OBVIOUS
    <2>2. PICK n \in Nat : n = Len(items) /\ DOMAIN items = 1..n
      BY <1>2, <2>1
    <2>3. PICK c : c = [i \in 1..n |-> Canonical(form, items[i])]
      OBVIOUS
    <2>4. PICK C : C = {c[i] : i \in 1..n}
      OBVIOUS
    <2>5. c \in [1..n -> C]
      BY <2>3, <2>4
    <2>6. PICK W, none : W = Seq(C) \union {None} /\ none = <<>>
      OBVIOUS
    <2>61. none \in W /\ none \in Seq(C) /\ DOMAIN none = {}
      <3>1. <<>> \in Seq(C) /\ DOMAIN <<>> = {}
        BY EmptySeq
      <3>2. QED  BY <2>6, <3>1
    <2>7. ASSUME NEW w \in W, NEW k \in 1..n  PROVE AddPermission(form, w, items[k]) \in W
      <3>1. AddPermission(form, w, items[k]) = IF w = None \/ c[k] = None THEN None ELSE ObjectAdd(w, c[k])
        BY <2>3 DEF AddPermission
      <3>2. CASE w = None \/ c[k] = None
        BY <2>6, <3>1, <3>2
      <3>3. CASE ~(w = None \/ c[k] = None)
        <4>1. w \in Seq(C) /\ c[k] \in C
          BY <2>4, <2>6, <3>3
        <4>2. ObjectAdd(w, c[k]) \in Seq(C)
          <5>1. PICK x, old : x = c[k] /\ old = {i \in DOMAIN w : w[i].name = x.name}
            OBVIOUS
          <5>2. Append(w, x) \in Seq(C) /\ [i \in DOMAIN w |-> IF i \in old THEN x ELSE w[i]] \in Seq(C)
            <6>1. PICK m \in Nat : DOMAIN w = 1..m
              BY <4>1
            <6>2. \A i \in 1..m : (IF i \in old THEN x ELSE w[i]) \in C
              BY <4>1, <5>1, <6>1
            <6>3. QED  BY <4>1, <5>1, <6>1, <6>2
          <5>3. QED  BY <5>1, <5>2 DEF ObjectAdd
        <4>3. QED  BY <2>6, <3>1, <3>3, <4>2
      <3>4. QED  BY <3>2, <3>3
    <2>8. PICK g : AdaptRun(g, n, items, W, none, form)
      BY <2>2, <2>61, <2>7, AdaptFolds
    <2>9. /\ g \in [0..n -> W] /\ g[0] = none
          /\ g[n] = FoldLeft(LAMBDA s, item : AddPermission(form, s, item), none, items)
          /\ \A k \in 1..n : g[k] = AddPermission(form, g[k - 1], items[k])
      BY <2>8 DEF AdaptRun
    <2>10. Adapt(raw) = g[n]
      <3>1. AdaptRun(g, n, raw.items, W, <<>>, raw.form)
        BY <2>1, <2>6, <2>8
      <3>2. g[n] = FoldLeft(LAMBDA s, item : AddPermission(raw.form, s, item), <<>>, raw.items)
        BY ONLY <3>1 DEF AdaptRun
      <3>3. raw.form # "other"
        BY <1>2 DEF Adapt
      <3>4. QED  BY <1>2, <3>2, <3>3, Zenon DEF Adapt
    <2> DEFINE T == {k \in Nat : g[k] = None \/ (Kept(g[k], c, k, C) /\ \A j \in 1..k : c[j] # None)}
    <2>11. 0 \in T
      <3>1. 1..0 = {}
        OBVIOUS
      <3>2. Kept(none, c, 0, C)
        BY <2>61, <3>1 DEF Kept
      <3>3. QED  BY <2>9, <3>1, <3>2
    <2>12. ASSUME NEW k \in 1..n, k - 1 \in T  PROVE k \in T
      <3>1. g[k] = IF g[k - 1] = None \/ c[k] = None THEN None ELSE ObjectAdd(g[k - 1], c[k])
        BY <2>3, <2>9 DEF AddPermission
      <3>2. CASE g[k - 1] = None \/ c[k] = None
        BY <3>1, <3>2
      <3>3. CASE ~(g[k - 1] = None \/ c[k] = None)
        <4>1. Kept(g[k - 1], c, k - 1, C) /\ \A j \in 1..(k - 1) : c[j] # None
          BY <2>12, <3>3
        <4>2. PICK s : s = g[k - 1]
          OBVIOUS
        <4>3. Kept(ObjectAdd(s, c[k]), c, k, C)
          BY <2>5, <4>1, <4>2, ObjectAddKeeps
        <4>4. g[k] = ObjectAdd(s, c[k])
          BY <3>1, <3>3, <4>2
        <4>5. \A j \in 1..k : c[j] # None
          BY <3>3, <4>1
        <4>6. QED  BY <4>3, <4>4, <4>5
      <3>4. QED  BY <3>2, <3>3
    <2>13. n \in T
      <3>1. T \in SUBSET Nat
        OBVIOUS
      <3> HIDE DEF T
      <3>2. QED  BY <2>11, <2>12, <3>1, EveryIndex
    <2>14. PICK s : s = Adapt(raw)
      OBVIOUS
    <2>15. Kept(s, c, n, C)
      BY <2>10, <2>13, <2>14
    <2>16. ValidNames(raw) = {c[j].name : j \in {l \in 1..n : c[l].value \in Accepted /\ LastOf(c, l, n)}}
      <3>1. ValidNames(raw) = {Canonical(form, items[i]).name : i \in {j \in DOMAIN items :
                /\ Canonical(form, items[j]).value \in {"required", "optional"}
                /\ \A k \in j + 1 .. Len(items) : Canonical(form, items[k]).name # Canonical(form, items[j]).name}}
        BY <1>2, <2>1 DEF ValidNames
      <3>2. ASSUME NEW j \in 1..n
            PROVE  (\A k \in j + 1 .. n : Canonical(form, items[k]).name # Canonical(form, items[j]).name) <=> LastOf(c, j, n)
        <4>1. \A k \in (j + 1)..n : k \in 1..n
          OBVIOUS
        <4>2. QED  BY <2>3, <4>1 DEF LastOf
      <3>3. \A j \in 1..n : c[j] = Canonical(form, items[j])
        BY <2>3
      <3>4. QED  BY <2>2, <3>1, <3>2, <3>3 DEF Accepted
    <2>17. ValidOf(s) = ValidNames(raw)
      BY <2>15, <2>16 DEF Kept, ValidOf
    <2>18. s \in Seq(C)
      BY <2>15 DEF Kept
    <2>19. QED  BY <2>14, <2>17, <2>18
  <1>3. QED
    BY <1>1, <1>2

LEMMA GrowSeq ==
    ASSUME NEW C, NEW s \in Seq(C), NEW S, \A i \in DOMAIN s : s[i] \in S
    PROVE  s \in Seq(S)
  <1>1. PICK n \in Nat : n = Len(s) /\ DOMAIN s = 1..n
    OBVIOUS
  <1>2. s = [i \in 1..n |-> s[i]]
    BY <1>1
  <1>3. s \in [1..n -> S]
    BY <1>1, <1>2
  <1>4. QED
    BY <1>3

LEMMA ConcatSet ==
    ASSUME NEW S, NEW s \in Seq(S), NEW t \in Seq(S)
    PROVE  s \o t \in Seq(S) /\ ToSet(s \o t) = ToSet(s) \union ToSet(t)
  <1>1. PICK m \in Nat, n \in Nat : m = Len(s) /\ n = Len(t) /\ DOMAIN s = 1..m /\ DOMAIN t = 1..n
    OBVIOUS
  <1>2. PICK r : r = s \o t
    OBVIOUS
  <1>3. r \in Seq(S) /\ DOMAIN r = 1..(m + n) /\ \A i \in 1..(m + n) : r[i] = IF i <= m THEN s[i] ELSE t[i - m]
    BY <1>1, <1>2, ConcatProperties
  <1>4. ASSUME NEW i \in DOMAIN r  PROVE r[i] \in ToSet(s) \union ToSet(t)
    <2>1. CASE i <= m
      BY <1>1, <1>3, <2>1 DEF ToSet
    <2>2. CASE ~(i <= m)
      <3>1. i - m \in 1..n /\ r[i] = t[i - m]
        BY <1>3, <2>2
      <3>2. QED  BY <1>1, <3>1 DEF ToSet
    <2>3. QED  BY <2>1, <2>2
  <1>5. ASSUME NEW i \in DOMAIN s  PROVE s[i] \in ToSet(r)
    <2>1. i \in DOMAIN r /\ r[i] = s[i]
      BY <1>1, <1>3
    <2>2. QED  BY <2>1 DEF ToSet
  <1>6. ASSUME NEW i \in DOMAIN t  PROVE t[i] \in ToSet(r)
    <2>1. i + m \in 1..(m + n) /\ ~(i + m <= m) /\ (i + m) - m = i
      BY <1>1
    <2>2. i + m \in DOMAIN r /\ r[i + m] = t[i]
      BY <1>3, <2>1
    <2>3. QED  BY <2>2 DEF ToSet
  <1>7. ToSet(r) = ToSet(s) \union ToSet(t)
    BY <1>4, <1>5, <1>6 DEF ToSet
  <1>8. QED
    BY <1>2, <1>3, <1>7

\* The sequences one after the other hold what each holds.
LEMMA FlattenIs ==
    ASSUME NEW n \in Nat, n # 0, NEW S, NEW a \in [1..n -> Seq(S)]
    PROVE  FlattenSeq(a) \in Seq(S) /\ ToSet(FlattenSeq(a)) = UNION {ToSet(a[i]) : i \in 1..n}
  <1> DEFINE Body(f) == [i \in 1..Len(a) |-> IF i = 1 THEN a[i] ELSE f[i - 1] \o a[i]]
             Next1(f, i) == IF i = 1 THEN a[i] ELSE f[i - 1] \o a[i]
             V == Seq(S)
             T == {m \in Nat : \E f \in [1..n -> V] : \A i \in 1..n : i <= m => f[i] = Next1(f, i)}
  <1>0. Len(a) = n
    <2>1. DOMAIN a = 1..n /\ a \in Seq(V)
      OBVIOUS
    <2>2. QED  BY <2>1
  <1>1. 0 \in T
    OBVIOUS
  <1>2. ASSUME NEW m \in Nat, m \in T  PROVE m + 1 \in T
    <2>1. PICK f \in [1..n -> V] : \A i \in 1..n : i <= m => f[i] = Next1(f, i)
      BY <1>2
    <2>2. \A i \in 1..n : Next1(f, i) \in V
      <3>1. SUFFICES ASSUME NEW i \in 1..n  PROVE Next1(f, i) \in V
        OBVIOUS
      <3>2. CASE i = 1
        BY <3>2
      <3>3. CASE i # 1
        <4>1. f[i - 1] \in V /\ a[i] \in V
          BY <3>3
        <4>2. QED  BY <3>3, <4>1, ConcatSet
      <3>4. QED  BY <3>2, <3>3
    <2>3. PICK h : h = [i \in 1..n |-> IF i = m + 1 THEN Next1(f, i) ELSE f[i]]
      OBVIOUS
    <2>4. h \in [1..n -> V]
      BY <2>2, <2>3
    <2>5. ASSUME NEW i \in 1..n, i <= m + 1  PROVE h[i] = Next1(h, i)
      <3>1. h[i] = Next1(f, i)
        <4> HIDE DEF Next1
        <4> QED  BY <2>1, <2>3, <2>5
      <3>2. i # 1 => h[i - 1] = f[i - 1]
        <4> HIDE DEF Next1
        <4> QED  BY <2>3, <2>5
      <3>3. QED  BY <3>1, <3>2
    <2>6. \A i \in 1..n : i <= m + 1 => h[i] = Next1(h, i)
      BY <2>5
    <2>7. m + 1 \in Nat
      OBVIOUS
    <2> HIDE DEF Next1
    <2>8. QED  BY <2>4, <2>6, <2>7
  <1>3. T = Nat
    <2>1. T \in SUBSET Nat
      OBVIOUS
    <2> HIDE DEF T
    <2>2. QED  BY <1>1, <1>2, <2>1, EveryNumber
  <1>4. PICK f \in [1..n -> V] : \A i \in 1..n : i <= n => f[i] = Next1(f, i)
    BY <1>3
  <1>5. f = Body(f)
    <2>1. \A i \in 1..n : f[i] = Next1(f, i)
      <3> HIDE DEF Next1
      <3> QED  BY <1>4
    <2>2. QED  BY ONLY f \in [1..n -> V], <1>0, <2>1
  <1>6. PICK g : g = CHOOSE x : x = Body(x)
    OBVIOUS
  <1>7. g = Body(g)
    <2> HIDE DEF Body
    <2> QED  BY <1>5, <1>6
  <1>8. FlattenSeq(a) = g[n]
    <2>1. FlattenSeq(a) = g[Len(a)]
      <3>1. Len(a) # 0
        BY <1>0
      <3>2. QED  BY <1>6, <3>1, Zenon DEF FlattenSeq
    <2>2. QED  BY <1>0, <2>1
  <1>9. \A i \in 1..n : g[i] = IF i = 1 THEN a[i] ELSE g[i - 1] \o a[i]
    BY <1>0, <1>7
  <1> DEFINE P == {k \in Nat : k = 0 \/ (g[k] \in V /\ ToSet(g[k]) = UNION {ToSet(a[i]) : i \in 1..k})}
  <1>10. ASSUME NEW k \in 1..n, k - 1 \in P  PROVE k \in P
    <2>1. CASE k = 1
      <3>1. g[k] = a[k] /\ 1..k = {k}
        BY <1>9, <2>1
      <3>2. QED  BY <3>1
    <2>2. CASE k # 1
      <3>1. PICK u, v : u = g[k - 1] /\ v = a[k]
        OBVIOUS
      <3>2. u \in V /\ v \in V /\ ToSet(u) = UNION {ToSet(a[i]) : i \in 1..(k - 1)}
        BY <1>10, <2>2, <3>1
      <3>3. g[k] = u \o v
        BY <1>9, <2>2, <3>1
      <3>4. g[k] \in V /\ ToSet(g[k]) = ToSet(u) \union ToSet(v)
        BY <3>2, <3>3, ConcatSet
      <3>5. 1..k = (1..(k - 1)) \union {k}
        OBVIOUS
      <3>6. UNION {ToSet(a[i]) : i \in 1..k} = (UNION {ToSet(a[i]) : i \in 1..(k - 1)}) \union ToSet(a[k])
        BY <3>5
      <3>7. ToSet(g[k]) = UNION {ToSet(a[i]) : i \in 1..k}
        BY <3>1, <3>2, <3>4, <3>6
      <3>8. QED  BY <3>4, <3>7
    <2>3. QED  BY <2>1, <2>2
  <1>11. n \in P
    <2>1. P \in SUBSET Nat /\ 0 \in P
      OBVIOUS
    <2> HIDE DEF P
    <2>2. QED  BY <1>10, <2>1, EveryIndex
  <1>12. QED
    BY <1>8, <1>11

LEMMA HoldersAre ==
    ASSUME manifest \in Manifests
    PROVE  \E n : /\ n \in Nat /\ n # 0 /\ Len(Holders) = n /\ DOMAIN Holders = 1..n
                  /\ \A i \in 1..n : Holders[i] # None => Holders[i].items \in Seq(ToSet(Holders[i].items))
  <1>1. PICK ts, H : ts = manifest.targets /\ H = {manifest.perms} \union {t.perms : t \in ToSet(ts)}
    OBVIOUS
  <1>2. ts \in Seq(ToSet(ts)) /\ \A raw \in H : raw # None => raw.items \in Seq(ToSet(raw.items))
    BY <1>1, InputAssumption
  <1>3. PICK m \in Nat : m = Len(ts) /\ DOMAIN ts = 1..m
    BY <1>2
  <1>4. PICK s, t : s = <<manifest.perms>> /\ t = [i \in 1..m |-> ts[i].perms]
    OBVIOUS
  <1>5. s \in Seq(H) /\ Len(s) = 1
    BY <1>1, <1>4
  <1>6. t \in Seq(H) /\ Len(t) = m
    <2>1. \A i \in 1..m : ts[i].perms \in H
      BY <1>1, <1>3 DEF ToSet
    <2>2. t \in [1..m -> H]
      BY <1>4, <2>1
    <2>3. QED  BY <2>2
  <1>7. Holders = s \o t
    BY <1>1, <1>3, <1>4 DEF Holders
  <1>8. Holders \in Seq(H) /\ Len(Holders) = 1 + m
    <2>1. s \in Seq(H) /\ t \in Seq(H)
      BY <1>5, <1>6
    <2>2. s \o t \in Seq(H) /\ Len(s \o t) = Len(s) + Len(t)
      BY ONLY <2>1, ConcatProperties
    <2>3. QED  BY ONLY <1>5, <1>6, <1>7, <2>2
  <1>9. PICK h, n : h = Holders /\ n = 1 + m
    OBVIOUS
  <1>10. h \in Seq(H) /\ Len(h) = n /\ n \in Nat /\ n # 0 /\ DOMAIN h = 1..n
    BY <1>8, <1>9
  <1>11. \A i \in 1..n : h[i] \in H
    BY <1>10
  <1>12. \A i \in 1..n : h[i] # None => h[i].items \in Seq(ToSet(h[i].items))
    BY <1>2, <1>11
  <1>13. QED
    BY <1>9, <1>10, <1>12

LEMMA ValidOfSet ==
    ASSUME NEW s
    PROVE  ValidOf(s) = {x.name : x \in {y \in ToSet(s) : y.value \in Accepted}}
  BY DEF ValidOf, ToSet

\* adapt_all_permissions
LEMMA WantedIs ==
    ASSUME manifest \in Manifests, NEW adapted, adapted = [i \in 1..Len(Holders) |-> Adapt(Holders[i])],
           \A i \in DOMAIN adapted : adapted[i] # None
    PROVE  (\E S : FlattenSeq(adapted) \in Seq(S)) /\ ValidOf(FlattenSeq(adapted)) = Asked
  <1>1. PICK h : h = Holders
    OBVIOUS
  <1>2. PICK n \in Nat : /\ n # 0 /\ Len(h) = n /\ DOMAIN h = 1..n
                         /\ \A i \in 1..n : h[i] # None => h[i].items \in Seq(ToSet(h[i].items))
    BY <1>1, HoldersAre
  <1>3. DOMAIN adapted = 1..n /\ \A i \in 1..n : adapted[i] = Adapt(h[i])
    BY <1>1, <1>2
  <1>4. ASSUME NEW i \in 1..n
        PROVE  (\E C : adapted[i] \in Seq(C)) /\ ValidOf(adapted[i]) = ValidNames(h[i])
    <2>1. PICK raw : raw = h[i]
      OBVIOUS
    <2>2. (raw # None => raw.items \in Seq(ToSet(raw.items))) /\ Adapt(raw) # None
      BY <1>2, <1>3, <2>1
    <2>3. (\E C : Adapt(raw) \in Seq(C)) /\ ValidOf(Adapt(raw)) = ValidNames(raw)
      BY <2>2, AdaptIs
    <2>4. Adapt(raw) = adapted[i]
      BY <1>3, <2>1
    <2>5. QED  BY <2>1, <2>3, <2>4
  <1>5. PICK S : S = UNION {ToSet(adapted[i]) : i \in 1..n}
    OBVIOUS
  <1>6. ASSUME NEW i \in 1..n  PROVE adapted[i] \in Seq(S)
    <2>1. PICK s : s = adapted[i]
      OBVIOUS
    <2>2. PICK C : s \in Seq(C)
      BY <1>4, <2>1
    <2>3. \A j \in DOMAIN s : s[j] \in S
      <3>1. ToSet(s) \subseteq S
        BY <1>5, <2>1
      <3>2. QED  BY <3>1 DEF ToSet
    <2>4. s \in Seq(S)
      BY <2>2, <2>3, GrowSeq
    <2>5. QED  BY <2>1, <2>4
  <1>7. adapted \in [1..n -> Seq(S)]
    <2>1. adapted = [i \in 1..n |-> adapted[i]]
      BY <1>1, <1>2
    <2>2. QED  BY <1>6, <2>1
  <1>8. PICK w : w = FlattenSeq(adapted)
    OBVIOUS
  <1>9. w \in Seq(S) /\ ToSet(w) = S
    <2>1. n \in Nat /\ n # 0
      BY <1>2
    <2>2. w \in Seq(S) /\ ToSet(w) = UNION {ToSet(adapted[i]) : i \in 1..n}
      BY ONLY <2>1, <1>7, <1>8, FlattenIs
    <2>3. QED  BY <1>5, <2>2
  <1>10. ValidOf(w) = UNION {ValidOf(adapted[i]) : i \in 1..n}
    <2>1. ValidOf(w) = {x.name : x \in {y \in S : y.value \in Accepted}}
      BY <1>9, ValidOfSet
    <2>2. \A i \in 1..n : ValidOf(adapted[i]) = {x.name : x \in {y \in ToSet(adapted[i]) : y.value \in Accepted}}
      BY ValidOfSet
    <2>3. ASSUME NEW z \in ValidOf(w)  PROVE \E i \in 1..n : z \in ValidOf(adapted[i])
      <3>1. PICK x \in S : x.value \in Accepted /\ z = x.name
        BY <2>1
      <3>2. PICK i \in 1..n : x \in ToSet(adapted[i])
        BY <1>5
      <3>3. QED  BY <2>2, <3>1, <3>2
    <2>4. ASSUME NEW i \in 1..n, NEW z \in ValidOf(adapted[i])  PROVE z \in ValidOf(w)
      <3>1. PICK s : s = adapted[i]
        OBVIOUS
      <3>2. z \in {x.name : x \in {y \in ToSet(s) : y.value \in Accepted}}
        BY <3>1, ValidOfSet
      <3>3. PICK x \in ToSet(s) : x.value \in Accepted /\ z = x.name
        BY <3>2
      <3>4. x \in S
        BY <1>5, <3>1
      <3>5. QED  BY <2>1, <3>3, <3>4
    <2>5. QED  BY <2>3, <2>4
  <1>11. UNION {ValidOf(adapted[i]) : i \in 1..n} = UNION {ValidNames(h[i]) : i \in 1..n}
    BY <1>4
  <1>12. ValidOf(w) = Asked
    <2>1. Asked = UNION {ValidNames(h[i]) : i \in DOMAIN h}
      BY <1>1 DEF Asked
    <2>2. DOMAIN h = 1..n
      BY <1>2
    <2>3. QED  BY ONLY <1>10, <1>11, <2>1, <2>2
  <1>13. QED
    BY <1>8, <1>9, <1>12

----------------------------------------------------------------------------
(* permset.c *)

Permission(N) == [name : N, granted : BOOLEAN, requested : BOOLEAN]

\* The names asked with a valid value by the k first permissions.
Upto(s, k) == {s[i].name : i \in {j \in 1..k : s[j].value \in Accepted}}

\* The set has permissions that are asked, once each, and all those done, granted and requested, but the gone ones.
Held(set, nm) == \E i \in DOMAIN set : set[i].name = nm /\ set[i].granted = TRUE /\ set[i].requested = TRUE
Collected(set, asked, done, gone) ==
    /\ set \in Seq(Permission(asked))
    /\ \A i, j \in DOMAIN set : set[i].name = set[j].name => i = j
    /\ \A nm \in done \ gone : Held(set, nm)

\* What add does: it keeps what is there, and the permission has what is added.
AddsTo(set, r, nm, grant, request) ==
    /\ \A i, j \in DOMAIN r : r[i].name = r[j].name => i = j
    /\ \A j \in DOMAIN set : /\ j \in DOMAIN r /\ r[j].name = set[j].name
                             /\ set[j].granted = TRUE => r[j].granted = TRUE
                             /\ set[j].requested = TRUE => r[j].requested = TRUE
    /\ \E i \in DOMAIN r : /\ r[i].name = nm
                           /\ grant => r[i].granted = TRUE
                           /\ request => r[i].requested = TRUE

LEMMA PermAddIs ==
    ASSUME NEW N, NEW set \in Seq(Permission(N)), NEW nm \in N, NEW grant \in BOOLEAN, NEW request \in BOOLEAN,
           \A i, j \in DOMAIN set : set[i].name = set[j].name => i = j
    PROVE  /\ PermAdd(set, nm, grant, request) \in Seq(Permission(N))
           /\ AddsTo(set, PermAdd(set, nm, grant, request), nm, grant, request)
  <1>1. PICK m \in Nat : m = Len(set) /\ DOMAIN set = 1..m
    OBVIOUS
  <1>2. PICK old, r : old = {i \in DOMAIN set : set[i].name = nm} /\ r = PermAdd(set, nm, grant, request)
    OBVIOUS
  <1>3. \A i \in 1..m : set[i] \in Permission(N)
    BY <1>1
  <1>4. CASE old = {}
    <2>1. PICK x : x = [name |-> nm, granted |-> grant, requested |-> request]
      OBVIOUS
    <2>2. r = Append(set, x)
      BY <1>2, <1>4, <2>1 DEF PermAdd
    <2>3. x \in Permission(N) /\ x.name = nm /\ x.granted = grant /\ x.requested = request
      BY <2>1 DEF Permission
    <2>4. r \in Seq(Permission(N)) /\ DOMAIN r = 1..(m + 1) /\ r[m + 1] = x /\ \A i \in 1..m : r[i] = set[i]
      BY <1>1, <2>2, <2>3
    <2>5. \A j \in 1..m : r[j].name # nm
      BY <1>1, <1>2, <1>4, <2>4
    <2>6. \A i, j \in DOMAIN r : r[i].name = r[j].name => i = j
      BY <1>1, <2>3, <2>4, <2>5
    <2>7. AddsTo(set, r, nm, grant, request)
      BY <1>1, <2>3, <2>4, <2>6 DEF AddsTo
    <2>8. QED  BY <1>2, <2>4, <2>7
  <1>5. CASE old # {}
    <2>1. PICK i : i = CHOOSE j \in old : TRUE
      OBVIOUS
    <2>2. i \in 1..m /\ set[i].name = nm
      BY <1>1, <1>2, <1>5, <2>1
    <2>3. PICK x \in Permission(N) : x = set[i]
      BY <1>3, <2>2
    <2>4. PICK y : y = [x EXCEPT !.granted = @ \/ grant, !.requested = @ \/ request]
      OBVIOUS
    <2>5. x.granted \in BOOLEAN /\ x.requested \in BOOLEAN /\ x.name \in N
      BY <2>3 DEF Permission
    <2>6. /\ y \in Permission(N) /\ y.name = nm
          /\ x.granted = TRUE \/ grant => y.granted = TRUE
          /\ x.requested = TRUE \/ request => y.requested = TRUE
      BY <2>2, <2>3, <2>4, <2>5 DEF Permission
    <2>7. r = [set EXCEPT ![i].granted = @ \/ grant, ![i].requested = @ \/ request]
      BY <1>2, <1>5, <2>1 DEF PermAdd
    <2>8. PICK f \in [1..m -> Permission(N)] : f = set
      <3>1. set \in [1..m -> Permission(N)]
        BY <1>1
      <3>2. QED  BY <3>1
    <2>9. r = [f EXCEPT ![i] = y]
      <3>1. [f EXCEPT ![i].granted = @ \/ grant, ![i].requested = @ \/ request]
              = [f EXCEPT ![i] = [f[i] EXCEPT !.granted = @ \/ grant, !.requested = @ \/ request]]
        BY <2>2, <2>3, <2>5, <2>8 DEF Permission
      <3>2. QED  BY <2>3, <2>4, <2>7, <2>8, <3>1
    <2>10. r \in [1..m -> Permission(N)] /\ r[i] = y /\ \A j \in 1..m : j # i => r[j] = set[j]
      BY <2>2, <2>6, <2>8, <2>9
    <2>11. r \in Seq(Permission(N)) /\ DOMAIN r = 1..m
      BY <2>10
    <2>12. \A j \in 1..m : r[j].name = set[j].name
      BY <2>2, <2>6, <2>10
    <2>13. AddsTo(set, r, nm, grant, request)
      BY <1>1, <2>2, <2>3, <2>6, <2>10, <2>11, <2>12 DEF AddsTo
    <2>14. QED  BY <1>2, <2>11, <2>13
  <1>6. QED
    BY <1>4, <1>5

\* A permission asked: granted and requested, requested only, or not recorded.
LEMMA RecordedTwice ==
    ASSUME NEW set, NEW asked, NEW done, NEW gone, NEW nm \in asked, Collected(set, asked, done, gone)
    PROVE  /\ Collected(PermAdd(PermAdd(set, nm, TRUE, FALSE), nm, FALSE, TRUE), asked, done \union {nm}, gone)
           /\ Collected(PermAdd(set, nm, FALSE, TRUE), asked, done \union {nm}, gone \union {nm})
           /\ Collected(set, asked, done \union {nm}, gone \union {nm})
  <1>1. set \in Seq(Permission(asked)) /\ \A i, j \in DOMAIN set : set[i].name = set[j].name => i = j
    BY DEF Collected
  <1>2. PICK yes \in BOOLEAN, no \in BOOLEAN : yes = TRUE /\ no = FALSE
    OBVIOUS
  <1>3. PICK one : one = PermAdd(set, nm, yes, no)
    OBVIOUS
  <1>4. one \in Seq(Permission(asked)) /\ AddsTo(set, one, nm, yes, no)
    BY <1>1, <1>3, PermAddIs
  <1>5. \A i, j \in DOMAIN one : one[i].name = one[j].name => i = j
    BY <1>4 DEF AddsTo
  <1>6. PICK two : two = PermAdd(one, nm, no, yes)
    OBVIOUS
  <1>7. two \in Seq(Permission(asked)) /\ AddsTo(one, two, nm, no, yes)
    BY <1>4, <1>5, <1>6, PermAddIs
  <1>8. Collected(two, asked, done \union {nm}, gone)
    <2>1. \A n \in done \ gone : Held(set, n)
      BY DEF Collected
    <2>2. \A n : Held(set, n) => Held(one, n)
      BY <1>4 DEF Held, AddsTo
    <2>3. \A n : Held(one, n) => Held(two, n)
      BY <1>7 DEF Held, AddsTo
    <2>4. Held(two, nm)
      <3>1. PICK i \in DOMAIN one : one[i].name = nm /\ one[i].granted = TRUE
        BY <1>2, <1>4 DEF AddsTo
      <3>2. PICK k \in DOMAIN two : two[k].name = nm /\ two[k].requested = TRUE
        BY <1>2, <1>7 DEF AddsTo
      <3>3. i \in DOMAIN two /\ two[i].name = nm /\ two[i].granted = TRUE
        BY <1>7, <3>1 DEF AddsTo
      <3>4. i = k
        BY <1>7, <3>2, <3>3 DEF AddsTo
      <3>5. QED  BY <3>2, <3>3, <3>4 DEF Held
    <2>5. \A i, j \in DOMAIN two : two[i].name = two[j].name => i = j
      BY <1>7 DEF AddsTo
    <2>6. QED  BY <1>7, <2>1, <2>2, <2>3, <2>4, <2>5 DEF Collected
  <1>9. PICK last : last = PermAdd(set, nm, no, yes)
    OBVIOUS
  <1>10. last \in Seq(Permission(asked)) /\ AddsTo(set, last, nm, no, yes)
    BY <1>1, <1>9, PermAddIs
  <1>11. Collected(last, asked, done \union {nm}, gone \union {nm})
    BY <1>10 DEF Collected, AddsTo, Held
  <1>12. Collected(set, asked, done \union {nm}, gone \union {nm})
    BY DEF Collected
  <1>13. QED
    BY <1>2, <1>3, <1>6, <1>8, <1>9, <1>11, <1>12

LEMMA MinIn ==
    ASSUME NEW T \in SUBSET Nat, T # {}
    PROVE  Min(T) \in T
  <1>1. \E n \in T : \A k \in T : n <= k
    BY LeastNumber
  <1>2. QED
    BY <1>1 DEF Min

----------------------------------------------------------------------------
(* The types of the entries. *)

Codes == {"ok", "ENOENT", "EINVAL", "EEXIST"}
Typing == [types : [Entries -> Types], rc : Codes]

\* The typings that give a type to the directory of the package, and those that keep the types that t gives.
Rooted == {s \in Typing : s.types[Packdir] # "Unset"}
Keeps(s, t) == \A e \in Entries : t[e] # "Unset" => s.types[e] = t[e]

LEMMA SetTypeIs ==
    ASSUME NEW s \in Typing, NEW e \in Entries, NEW type \in Types
    PROVE  /\ SetType(s, e, type) \in Typing /\ SetType(s, e, type).rc = s.rc
           /\ SetType(s, e, type).types[e] = type
           /\ \A x \in Entries : x # e => SetType(s, e, type).types[x] = s.types[x]
  BY DEF SetType, Typing

LEMMA MissingIs ==
    ASSUME NEW s \in Typing
    PROVE  Missing(s) \in Typing /\ Missing(s).types = s.types /\ Missing(s).rc # "ok"
  BY DEF Missing, Typing, Put, Codes

\* The plugs, or the provided bindings.
LEMMA ImplicitIs ==
    ASSUME NEW names \in Seq(Names), NEW base \in Rooted, NEW type \in Types, type # "Unset"
    PROVE  FoldLeft(LAMBDA s, m : ImplicitType(type, s, m), base, names) \in Rooted
  <1>1. PICK n \in Nat : n = Len(names) /\ DOMAIN names = 1..n
    OBVIOUS
  <1>2. ASSUME NEW w \in Rooted, NEW k \in 1..n  PROVE ImplicitType(type, w, names[k]) \in Rooted
    <2>1. PICK nm \in Names : nm = names[k]
      BY <1>1
    <2>2. PICK e \in Entries \cup {None} : e = At[nm]
      BY EntriesAssumption
    <2>3. w \in Typing /\ w.types[Packdir] # "Unset"
      BY DEF Rooted
    <2>4. CASE e = None
      <3>1. ImplicitType(type, w, nm) = Missing(w)
        BY <2>2, <2>4 DEF ImplicitType
      <3>2. QED  BY <2>1, <2>3, <3>1, MissingIs DEF Rooted
    <2>5. CASE e # None
      <3>1. ImplicitType(type, w, nm) = SetType(w, e, type)
        BY <2>2, <2>5 DEF ImplicitType
      <3>2. e \in Entries
        BY <2>5
      <3>3. SetType(w, e, type) \in Typing /\ SetType(w, e, type).types[Packdir] # "Unset"
        <4>1. PICK r : r = SetType(w, e, type)
          OBVIOUS
        <4>2. r \in Typing /\ r.types[e] = type /\ \A x \in Entries : x # e => r.types[x] = w.types[x]
          BY <2>3, <3>2, <4>1, SetTypeIs
        <4>3. QED  BY <2>3, <4>1, <4>2, EntriesAssumption
      <3>4. QED  BY <2>1, <3>1, <3>3 DEF Rooted
    <2>6. QED  BY <2>4, <2>5
  <1>3. PICK W : W = Rooted
    OBVIOUS
  <1>4. PICK g : ImplicitRun(g, n, names, W, base, type)
    BY <1>1, <1>2, <1>3, ImplicitFolds
  <1>5. g \in [0..n -> W] /\ g[n] = FoldLeft(LAMBDA s, m : ImplicitType(type, s, m), base, names)
    BY ONLY <1>4 DEF ImplicitRun
  <1>6. g[n] \in W
    <2>1. g \in [0..n -> W]
      BY ONLY <1>4 DEF ImplicitRun
    <2>2. n \in 0..n
      OBVIOUS
    <2>3. QED  BY ONLY <2>1, <2>2
  <1>7. QED
    BY <1>3, <1>5, <1>6, Zenon

\* The entry of p has the type of p.
Honours(s, p) == At[p.name] \in Entries /\ p.type # "Unset" /\ s.types[At[p.name]] = p.type

LEMMA ExplicitStep ==
    ASSUME NEW w \in Rooted, NEW p \in [name : Names, type : Types]
    PROVE  /\ ExplicitType(w, p) \in Rooted
           /\ ExplicitType(w, p).rc = "ok" =>
                 w.rc = "ok" /\ Honours(ExplicitType(w, p), p) /\ Keeps(ExplicitType(w, p), w.types)
  <1>1. PICK e \in Entries \cup {None} : e = At[p.name]
    BY EntriesAssumption
  <1>2. w \in Typing /\ w.types[Packdir] # "Unset" /\ w.types \in [Entries -> Types] /\ p.type \in Types
    BY DEF Rooted, Typing
  <1>3. PICK r : r = ExplicitType(w, p)
    OBVIOUS
  <1>4. CASE e = None
    <2>1. r = Missing(w)
      BY <1>1, <1>3, <1>4 DEF ExplicitType
    <2>2. QED  BY <1>2, <1>3, <2>1, MissingIs DEF Rooted
  <1>5. CASE e \in Entries /\ e # None /\ p.type = "Unset"
    <2>1. r = [w EXCEPT !.rc = Put(@, "EINVAL")]
      BY <1>1, <1>3, <1>5 DEF ExplicitType
    <2>2. r \in Typing /\ r.types = w.types /\ r.rc # "ok"
      BY <1>2, <2>1 DEF Typing, Put, Codes
    <2>3. QED  BY <1>2, <1>3, <2>2 DEF Rooted
  <1>6. CASE e \in Entries /\ e # None /\ p.type # "Unset" /\ w.types[e] = "Unset"
    <2>1. r = SetType(w, e, p.type)
      BY <1>1, <1>3, <1>6 DEF ExplicitType
    <2>2. r \in Typing /\ r.rc = w.rc /\ r.types[e] = p.type /\ \A x \in Entries : x # e => r.types[x] = w.types[x]
      <3>1. PICK y \in Types : y = p.type
        BY <1>2
      <3>2. w \in Typing /\ e \in Entries /\ r = SetType(w, e, y)
        BY <1>2, <1>6, <2>1, <3>1
      <3>3. r \in Typing /\ r.rc = w.rc /\ r.types[e] = y /\ \A x \in Entries : x # e => r.types[x] = w.types[x]
        BY ONLY y \in Types, <3>2, SetTypeIs
      <3>4. QED  BY <3>1, <3>3
    <2>3. e # Packdir
      BY <1>2, <1>6
    <2>4. r \in Rooted
      BY <1>2, <2>2, <2>3, EntriesAssumption DEF Rooted
    <2>5. Honours(r, p) /\ Keeps(r, w.types)
      BY <1>1, <1>6, <2>2 DEF Honours, Keeps
    <2>6. QED  BY <1>3, <2>2, <2>4, <2>5
  <1>7. CASE e \in Entries /\ e # None /\ p.type # "Unset" /\ w.types[e] # "Unset" /\ w.types[e] # p.type
    <2>1. r = [w EXCEPT !.rc = Put(@, "EEXIST")]
      BY <1>1, <1>3, <1>7 DEF ExplicitType
    <2>2. r \in Typing /\ r.types = w.types /\ r.rc # "ok"
      BY <1>2, <2>1 DEF Typing, Put, Codes
    <2>3. QED  BY <1>2, <1>3, <2>2 DEF Rooted
  <1>8. CASE e \in Entries /\ e # None /\ p.type # "Unset" /\ w.types[e] # "Unset" /\ w.types[e] = p.type
    <2>1. r = w
      BY <1>1, <1>3, <1>8 DEF ExplicitType
    <2>2. QED  BY <1>1, <1>3, <1>8, <2>1 DEF Honours, Keeps
  <1>9. QED
    BY <1>4, <1>5, <1>6, <1>7, <1>8

\* The explicit properties.
LEMMA ExplicitIs ==
    ASSUME NEW props \in Seq([name : Names, type : Types]), NEW base \in Rooted
    PROVE  LET r == FoldLeft(ExplicitType, base, props)
           IN  r \in Rooted /\ (r.rc = "ok" => \A i \in DOMAIN props : Honours(r, props[i]))
  <1>1. PICK n \in Nat : n = Len(props) /\ DOMAIN props = 1..n
    OBVIOUS
  <1>2. \A k \in 1..n : props[k] \in [name : Names, type : Types]
    <2>1. PICK R : R = [name : Names, type : Types]
      OBVIOUS
    <2>2. props \in Seq(R)
      BY <2>1
    <2>3. \A k \in 1..n : props[k] \in R
      BY <1>1, <2>2
    <2>4. QED  BY <2>1, <2>3
  <1>3. PICK W : W = Rooted
    OBVIOUS
  <1>4. \A w \in W : \A k \in 1..n : ExplicitType(w, props[k]) \in W
    BY <1>2, <1>3, ExplicitStep
  <1>5. PICK g : ExplicitRun(g, n, props, W, base)
    BY <1>1, <1>3, <1>4, ExplicitFolds
  <1>6. /\ g \in [0..n -> W] /\ g[n] = FoldLeft(ExplicitType, base, props)
        /\ \A k \in 1..n : g[k] = ExplicitType(g[k - 1], props[k])
    BY <1>5 DEF ExplicitRun
  <1> DEFINE T == {k \in Nat : k \in 0..n /\ (g[k].rc = "ok" => \A i \in 1..k : Honours(g[k], props[i]))}
  <1>7. 0 \in T
    OBVIOUS
  <1>8. ASSUME NEW k \in 1..n, k - 1 \in T  PROVE k \in T
    <2>1. PICK w, r, p : w = g[k - 1] /\ r = g[k] /\ p = props[k]
      OBVIOUS
    <2>2. w \in Rooted /\ p \in [name : Names, type : Types] /\ r = ExplicitType(w, p)
      BY <1>2, <1>3, <1>6, <2>1
    <2>3. r.rc = "ok" => w.rc = "ok" /\ Honours(r, p) /\ Keeps(r, w.types)
      BY <2>2, ExplicitStep
    <2>4. ASSUME r.rc = "ok", NEW i \in 1..k  PROVE Honours(r, props[i])
      <3>1. CASE i = k
        BY <2>1, <2>3, <2>4, <3>1
      <3>2. CASE i # k
        <4>1. i \in 1..(k - 1)
          BY <3>2
        <4>2. Honours(w, props[i])
          BY <1>8, <2>1, <2>3, <2>4, <4>1
        <4>3. Keeps(r, w.types)
          BY <2>3, <2>4
        <4>4. PICK q : q = props[i]
          OBVIOUS
        <4>5. QED  BY <4>2, <4>3, <4>4 DEF Honours, Keeps
      <3>3. QED  BY <3>1, <3>2
    <2>5. k \in 0..n /\ k \in Nat
      OBVIOUS
    <2>6. QED  BY <2>1, <2>4, <2>5
  <1>9. n \in T
    <2>1. T \in SUBSET Nat
      OBVIOUS
    <2> HIDE DEF T
    <2>2. QED  BY <1>7, <1>8, <2>1, EveryIndex
  <1>10. g[n] \in W
    BY <1>6
  <1>11. QED
    BY <1>1, <1>3, <1>6, <1>9, <1>10

\* The targets.
LEMMA TargetIs ==
    ASSUME NEW base \in Rooted, NEW C, NEW ts \in Seq(C), \A t \in ToSet(ts) : t.src \in Names \cup {None}
    PROVE  FoldLeft(TargetType, base, ts) \in Rooted /\ Keeps(FoldLeft(TargetType, base, ts), base.types)
  <1>1. PICK n \in Nat : n = Len(ts) /\ DOMAIN ts = 1..n
    OBVIOUS
  <1>2. PICK W : W = {s \in Rooted : Keeps(s, base.types)}
    OBVIOUS
  <1>3. base \in W
    BY <1>2 DEF Keeps
  <1>4. ASSUME NEW w \in W, NEW k \in 1..n  PROVE TargetType(w, ts[k]) \in W
    <2>1. PICK t, r : t = ts[k] /\ r = TargetType(w, t)
      OBVIOUS
    <2>2. t.src \in Names \cup {None}
      BY <1>1, <2>1 DEF ToSet
    <2>3. w \in Rooted /\ Keeps(w, base.types) /\ w \in Typing /\ w.types[Packdir] # "Unset"
      BY <1>2 DEF Rooted
    <2>4. CASE t.src = None
      <3>1. r = w
        BY <2>1, <2>4 DEF TargetType
      <3>2. QED  BY <2>1, <3>1
    <2>5. CASE t.src # None
      <3>1. PICK e \in Entries \cup {None} : e = At[t.src]
        <4>1. t.src \in Names
          BY <2>2, <2>5
        <4>2. QED  BY <4>1, EntriesAssumption
      <3>2. CASE e = None
        <4>1. r = Missing(w)
          BY <2>1, <2>5, <3>1, <3>2 DEF TargetType
        <4>2. r \in Typing /\ r.types = w.types
          BY <2>3, <4>1, MissingIs
        <4>3. QED  BY <1>2, <2>1, <2>3, <4>2 DEF Rooted, Keeps
      <3>3. CASE e # None /\ w.types[e] = "Unset" /\ t.exec
        <4>1. r = SetType(w, e, "Exec")
          BY <2>1, <2>5, <3>1, <3>3 DEF TargetType
        <4>2. e \in Entries /\ "Exec" \in Types
          BY <3>3 DEF Types
        <4>3. r \in Typing /\ \A x \in Entries : x # e => r.types[x] = w.types[x]
          BY <2>3, <4>1, <4>2, SetTypeIs
        <4>4. e # Packdir /\ Packdir \in Entries
          BY <2>3, <3>3, EntriesAssumption
        <4>5. r \in Rooted
          BY <2>3, <4>3, <4>4 DEF Rooted
        <4>6. Keeps(r, base.types)
          BY <2>3, <3>3, <4>3 DEF Keeps
        <4>7. QED  BY <1>2, <2>1, <4>5, <4>6
      <3>4. CASE e # None /\ ~(w.types[e] = "Unset" /\ t.exec)
        <4>1. r = w
          BY <2>1, <2>5, <3>1, <3>4 DEF TargetType
        <4>2. QED  BY <2>1, <4>1
      <3>5. QED  BY <3>2, <3>3, <3>4
    <2>6. QED  BY <2>4, <2>5
  <1>5. PICK g : TargetRun(g, n, ts, W, base)
    BY <1>1, <1>3, <1>4, TargetFolds
  <1>6. g \in [0..n -> W] /\ g[n] = FoldLeft(TargetType, base, ts)
    BY <1>5 DEF TargetRun
  <1>7. g[n] \in W
    BY <1>6
  <1>8. QED
    BY <1>2, <1>6, <1>7

\* compute_default_files_properties: all the entries have a type, those that had one keep it.
LEMMA DefaultIs ==
    ASSUME NEW at, NEW n \in Nat, Places(at, n), types \in [Entries -> Types], types[Packdir] # "Unset"
    PROVE  /\ DefaultOf \in [Entries -> Types] /\ \A e \in Entries : types[e] # "Unset" => DefaultOf[e] = types[e]
           /\ Entries \subseteq Visited => \A e \in Entries : DefaultOf[e] # "Unset"
  <1>0. PICK vis : vis = Visited
    OBVIOUS
  <1> DEFINE Body(f) == [e \in Entries |-> IF types[e] # "Unset" \/ e \notin vis THEN types[e]
                                           ELSE IF Mode[e] = "dir" /\ DirType[e] # "Unset" THEN DirType[e]
                                           ELSE f[Parent[e]]]
  <1>1. PICK V, Stop, base, phi :
           /\ V = Types /\ Stop = {e \in Entries : types[e] # "Unset" \/ e \notin vis \/ (Mode[e] = "dir" /\ DirType[e] # "Unset")}
           /\ base = [e \in Entries |-> IF types[e] # "Unset" \/ e \notin vis THEN types[e] ELSE DirType[e]]
           /\ phi = [z \in Entries \X V |-> z[2]]
    OBVIOUS
  <1>2. base \in [Entries -> V] /\ phi \in [Entries \X V -> V] /\ Packdir \in Stop
    BY <1>1, EntriesAssumption
  <1>3. PICK f \in [Entries -> V] : UpFun(f, Stop, base, phi)
    BY <1>2, UpExists
  <1>4. f = Body(f)
    <2>1. ASSUME NEW e \in Entries
          PROVE  UpStep(f, e, Stop, base, phi) =
                     IF types[e] # "Unset" \/ e \notin vis THEN types[e]
                     ELSE IF Mode[e] = "dir" /\ DirType[e] # "Unset" THEN DirType[e] ELSE f[Parent[e]]
      <3>1. CASE e \in Stop
        BY <1>1, <3>1 DEF UpStep
      <3>2. CASE e \notin Stop
        <4>1. e \in Content
          BY <1>2, <3>2 DEF Content
        <4>2. PICK v \in V : v = f[Parent[e]]
          BY <4>1, ParentIn
        <4>3. phi[<<e, v>>] = v
          BY <1>1
        <4>4. QED  BY <1>1, <3>2, <4>2, <4>3 DEF UpStep
      <3>3. QED  BY <3>1, <3>2
    <2>2. f = [e \in Entries |-> UpStep(f, e, Stop, base, phi)]
      BY <1>3 DEF UpFun
    <2>3. QED  BY <2>1, <2>2
  <1>5. PICK g : g = CHOOSE x : x = Body(x)
    OBVIOUS
  <1>6. g = Body(g)
    <2> HIDE DEF Body
    <2> QED  BY <1>4, <1>5
  <1>7. DefaultOf = g
    BY <1>0, <1>5, Zenon DEF DefaultOf
  <1>8. \A e \in Entries : types[e] # "Unset" => g[e] = types[e]
    BY <1>6
  <1>9. \A e \in Entries : g[e] \in Types /\ (Entries \subseteq vis => g[e] # "Unset")
    <2>1. PICK S : S = {e \in Entries : g[e] \in Types /\ (Entries \subseteq vis => g[e] # "Unset")}
      OBVIOUS
    <2>2. ASSUME NEW e \in Entries, e \in Content => Parent[e] \in S  PROVE e \in S
      <3>1. CASE types[e] # "Unset"
        BY <1>8, <2>1, <3>1
      <3>2. CASE types[e] = "Unset" /\ e \notin vis
        BY <1>6, <2>1, <3>2
      <3>3. CASE types[e] = "Unset" /\ e \in vis
        <4>1. e \in Content
          BY <3>3 DEF Content
        <4>2. g[e] = IF Mode[e] = "dir" /\ DirType[e] # "Unset" THEN DirType[e] ELSE g[Parent[e]]
          BY <1>6, <3>3
        <4>3. DirType[e] \in Types /\ g[Parent[e]] \in Types /\ (Entries \subseteq vis => g[Parent[e]] # "Unset")
          BY <2>1, <2>2, <4>1, EntriesAssumption
        <4>4. QED  BY <2>1, <4>2, <4>3
      <3>4. QED  BY <3>1, <3>2, <3>3
    <2>3. Entries \subseteq S
      BY <2>2, UpInduction
    <2>4. QED  BY <2>1, <2>3
  <1>10. g \in [Entries -> Types]
    <2>1. g = [e \in Entries |-> g[e]]
      BY <1>6
    <2>2. QED  BY <1>9, <2>1
  <1>11. QED
    BY <1>0, <1>7, <1>8, <1>9, <1>10

----------------------------------------------------------------------------
(* compute_public_files_properties *)

\* e gives its publicity to its directory, in the typing t.
Given(t, e) ==
    /\ t[e] \in PublicTypes => t[Parent[e]] = "Public"
    /\ t[e] = "Plug" => t[Parent[e]] \in {"Plug", "Public"}

\* e has its type of c or is opened for something below it.
Opened(t, c, e) ==
    t[e] # c[e] => /\ t[e] \in {"Plug", "Public"}
                   /\ \E d \in Content : e \in Above(d) /\ c[d] \in PublicTypes \cup {"Plug"}

\* A step of the walk.
LEMMA PublicStep ==
    ASSUME NEW at, NEW n \in Nat, Places(at, n), NEW c \in [Entries -> Types], NEW t \in [Entries -> Types],
           NEW e \in Content, \A x \in Entries : Opened(t, c, x)
    PROVE  /\ PublicType(t, e) \in [Entries -> Types]
           /\ \A x \in Entries : Opened(PublicType(t, e), c, x)
           /\ Given(PublicType(t, e), e)
           /\ \A x \in Content : x # Parent[e] /\ Given(t, x) => Given(PublicType(t, e), x)
  <1>1. PICK r, p : r = PublicType(t, e) /\ p = Parent[e]
    OBVIOUS
  <1>2. p \in Entries /\ e \in Entries /\ e # Packdir /\ e # p
    <2>1. p \in Entries /\ e \in Entries /\ e # Packdir
      BY <1>1, ParentIn
    <2>2. at[e] < at[p]
      BY <1>1 DEF Places
    <2>3. at[e] \in 1..n
      BY <2>1 DEF Places
    <2>4. QED  BY <2>1, <2>2, <2>3
  <1>3. ASSUME t[e] \in PublicTypes \cup {"Plug"}
        PROVE  \E d \in Content : p \in Above(d) /\ c[d] \in PublicTypes \cup {"Plug"}
    <2>1. CASE t[e] = c[e]
      <3>1. p \in Above(e)
        BY <1>1, AboveIs
      <3>2. QED  BY <1>3, <2>1, <3>1
    <2>2. CASE t[e] # c[e]
      <3>1. PICK d \in Content : e \in Above(d) /\ c[d] \in PublicTypes \cup {"Plug"}
        BY <1>2, <2>2 DEF Opened
      <3>2. d \in Entries
        BY ParentIn
      <3>3. p \in Above(d)
        BY <1>1, <3>1, <3>2, AboveUp
      <3>4. QED  BY <3>1, <3>3
    <2>3. QED  BY <2>1, <2>2
  <1>4. CASE t[e] \in PublicTypes
    <2>1. r = [t EXCEPT ![p] = "Public"]
      BY <1>1, <1>2, <1>4 DEF PublicType
    <2>2. r \in [Entries -> Types] /\ r[p] = "Public" /\ \A x \in Entries : x # p => r[x] = t[x]
      BY <1>2, <2>1 DEF Types
    <2>3. ASSUME NEW x \in Entries  PROVE Opened(r, c, x)
      BY <1>3, <1>4, <2>2 DEF Opened
    <2>4. Given(r, e)
      BY <1>1, <1>2, <2>2 DEF Given
    <2>5. ASSUME NEW x \in Content, x # p, Given(t, x)  PROVE Given(r, x)
      <3>1. PICK q \in Entries : q = Parent[x] /\ x \in Entries
        BY ParentIn
      <3>2. r[x] = t[x] /\ (r[q] = t[q] \/ r[q] = "Public")
        BY <2>2, <2>5, <3>1
      <3>3. QED  BY <2>5, <3>1, <3>2 DEF Given
    <2>6. QED  BY <1>1, <2>2, <2>3, <2>4, <2>5
  <1>5. CASE t[e] \notin PublicTypes /\ t[e] = "Plug" /\ t[p] # "Public"
    <2>1. r = [t EXCEPT ![p] = "Plug"]
      BY <1>1, <1>2, <1>5 DEF PublicType
    <2>2. r \in [Entries -> Types] /\ r[p] = "Plug" /\ \A x \in Entries : x # p => r[x] = t[x]
      BY <1>2, <2>1 DEF Types
    <2>3. ASSUME NEW x \in Entries  PROVE Opened(r, c, x)
      BY <1>3, <1>5, <2>2 DEF Opened
    <2>4. Given(r, e)
      BY <1>1, <1>2, <1>5, <2>2 DEF Given, PublicTypes
    <2>5. ASSUME NEW x \in Content, x # p, Given(t, x)  PROVE Given(r, x)
      <3>1. PICK q \in Entries : q = Parent[x] /\ x \in Entries
        BY ParentIn
      <3>2. r[x] = t[x] /\ (r[q] = t[q] \/ (q = p /\ r[q] = "Plug"))
        BY <2>2, <2>5, <3>1
      <3>3. QED  BY <1>5, <2>5, <3>1, <3>2 DEF Given
    <2>6. QED  BY <1>1, <2>2, <2>3, <2>4, <2>5
  <1>6. CASE t[e] \notin PublicTypes /\ ~(t[e] = "Plug" /\ t[p] # "Public")
    <2>1. r = t
      BY <1>1, <1>2, <1>6 DEF PublicType
    <2>2. Given(r, e)
      BY <1>1, <1>6, <2>1 DEF Given
    <2>3. QED  BY <1>1, <2>1, <2>2
  <1>7. QED
    BY <1>4, <1>5, <1>6

\* The whole walk.
LEMMA PropagateIs ==
    ASSUME NEW o \in Orders, NEW c \in [Entries -> Types], NEW r, r = FoldLeft(PublicType, c, o)
    PROVE  r \in [Entries -> Types] /\ (\A e \in Content : Given(r, e)) /\ \A e \in Entries : Opened(r, c, e)
  <1>1. PICK at, m : m \in Nat /\ Places(at, m)
    BY PlacesExist
  <1>2. /\ o \in Seq(Entries) /\ \A e \in Entries : \E i \in DOMAIN o : o[i] = e
        /\ \A i, j \in DOMAIN o : o[i] # Packdir /\ o[j] = Parent[o[i]] => i < j
    BY InputAssumption
  <1>3. PICK n \in Nat : n = Len(o) /\ DOMAIN o = 1..n
    BY <1>2
  <1>4. \A k \in 1..n : o[k] \in Entries
    BY <1>2, <1>3
  <1>5. PICK W : W = {t \in [Entries -> Types] : \A x \in Entries : Opened(t, c, x)}
    OBVIOUS
  <1>6. c \in W
    BY <1>5 DEF Opened
  <1>7. ASSUME NEW w \in W, NEW k \in 1..n  PROVE PublicType(w, o[k]) \in W
    <2>1. CASE o[k] = Packdir
      BY <2>1 DEF PublicType
    <2>2. CASE o[k] # Packdir
      <3>1. PICK e \in Content : e = o[k]
        BY <1>4, <2>2 DEF Content
      <3>2. w \in [Entries -> Types] /\ \A x \in Entries : Opened(w, c, x)
        BY <1>5
      <3>3. PublicType(w, e) \in [Entries -> Types] /\ \A x \in Entries : Opened(PublicType(w, e), c, x)
        BY <1>1, <3>2, PublicStep
      <3>4. QED  BY <1>5, <3>1, <3>3
    <2>3. QED  BY <2>1, <2>2
  <1>8. PICK g : PublicRun(g, n, o, W, c)
    BY <1>3, <1>6, <1>7, PublicFolds
  <1>9. /\ g \in [0..n -> W] /\ g[n] = r
        /\ \A k \in 1..n : g[k] = PublicType(g[k - 1], o[k])
    BY <1>8 DEF PublicRun
  <1> DEFINE T == {k \in Nat : k \in 0..n /\ \A i \in 1..k : o[i] # Packdir => Given(g[k], o[i])}
  <1>10. 0 \in T
    OBVIOUS
  <1>11. ASSUME NEW k \in 1..n, k - 1 \in T  PROVE k \in T
    <2>1. PICK w, q : w = g[k - 1] /\ q = g[k]
      OBVIOUS
    <2>2. /\ w \in W /\ q = PublicType(w, o[k]) /\ k \in 0..n /\ k \in Nat
          /\ \A i \in 1..(k - 1) : o[i] # Packdir => Given(w, o[i])
      BY <1>9, <1>11, <2>1
    <2>3. ASSUME NEW i \in 1..k, o[i] # Packdir  PROVE Given(q, o[i])
      <3>1. i \in 1..n /\ (i # k => i \in 1..(k - 1))
        OBVIOUS
      <3>2. PICK x \in Content : x = o[i]
        BY <1>4, <2>3, <3>1 DEF Content
      <3>3. CASE o[k] = Packdir
        <4>1. q = w /\ i # k
          BY <2>2, <2>3, <3>3 DEF PublicType
        <4>2. QED  BY <2>2, <2>3, <3>1, <4>1
      <3>4. CASE o[k] # Packdir
        <4>1. PICK e \in Content : e = o[k]
          BY <1>4, <3>4 DEF Content
        <4>2. w \in [Entries -> Types] /\ \A y \in Entries : Opened(w, c, y)
          BY <1>5, <2>2
        <4>3. /\ Given(PublicType(w, e), e)
              /\ \A y \in Content : y # Parent[e] /\ Given(w, y) => Given(PublicType(w, e), y)
          BY <1>1, <4>2, PublicStep
        <4>4. x # Parent[e]
          <5>1. CASE i = k
            <6>1. at[e] < at[Parent[e]] /\ at[e] \in 1..m
              BY <1>1, ParentIn DEF Places
            <6>2. QED  BY <3>2, <4>1, <5>1, <6>1
          <5>2. CASE i # k
            <6>1. i \in DOMAIN o /\ k \in DOMAIN o /\ ~(k < i)
              BY <1>3, <3>1
            <6>2. QED  BY <1>2, <3>2, <3>4, <4>1, <6>1
          <5>3. QED  BY <5>1, <5>2
        <4>5. CASE i = k
          BY <2>2, <4>1, <4>3, <4>5
        <4>6. CASE i # k
          <5>1. Given(w, x)
            BY <2>2, <2>3, <3>1, <3>2, <4>6
          <5>2. QED  BY <2>2, <3>2, <4>1, <4>3, <4>4, <5>1
        <4>7. QED  BY <4>5, <4>6
      <3>5. QED  BY <3>3, <3>4
    <2>4. QED  BY <2>1, <2>2, <2>3
  <1>12. n \in T
    <2>1. T \in SUBSET Nat
      OBVIOUS
    <2> HIDE DEF T
    <2>2. QED  BY <1>10, <1>11, <2>1, EveryIndex
  <1>13. r \in W
    BY <1>9
  <1>14. ASSUME NEW e \in Content  PROVE Given(r, e)
    <2>1. e \in Entries /\ e # Packdir
      BY ParentIn
    <2>2. PICK i \in 1..n : o[i] = e
      BY <1>2, <1>3, <2>1
    <2>3. QED  BY <1>9, <1>12, <2>1, <2>2
  <1>15. QED
    BY <1>5, <1>13, <1>14

\* When each entry gives its publicity to its directory, all above get it.
LEMMA ReachableIs ==
    ASSUME NEW o \in Orders, NEW t, \A e \in Content : Given(t, e)
    PROVE  \A e \in Content : \A a \in Above(e) :
              /\ t[e] \in PublicTypes => t[a] = "Public"
              /\ t[e] = "Plug" => t[a] \in {"Plug", "Public"}
  <1>1. PICK at, m : m \in Nat /\ Places(at, m)
    BY PlacesExist
  <1> DEFINE Up(e) == \A a \in Above(e) : /\ t[e] \in PublicTypes => t[a] = "Public"
                                          /\ t[e] = "Plug" => t[a] \in {"Plug", "Public"}
  <1>2. PICK S : S = {e \in Entries : Up(e)}
    OBVIOUS
  <1>3. ASSUME NEW e \in Entries, e \in Content => Parent[e] \in S  PROVE e \in S
    <2>1. CASE e = Packdir
      <3>1. Above(e) = {}
        BY <1>1, <2>1, AboveIs
      <3>2. QED  BY <1>2, <3>1
    <2>2. CASE e # Packdir
      <3>1. e \in Content
        BY <2>2 DEF Content
      <3>2. PICK p \in Entries : p = Parent[e]
        BY <3>1, ParentIn
      <3>3. Above(e) = {p} \union Above(p)
        BY <1>1, <3>1, <3>2, AboveIs
      <3>4. p \in S
        BY <1>3, <3>1, <3>2
      <3>5. Up(p)
        BY <1>2, <3>4
      <3>6. /\ t[e] \in PublicTypes => t[p] = "Public"
            /\ t[e] = "Plug" => t[p] \in {"Plug", "Public"}
        BY <3>1, <3>2 DEF Given
      <3>7. ASSUME NEW a \in Above(e)
            PROVE  (t[e] \in PublicTypes => t[a] = "Public") /\ (t[e] = "Plug" => t[a] \in {"Plug", "Public"})
        BY <3>3, <3>5, <3>6 DEF PublicTypes
      <3>8. QED  BY <1>2, <3>7
    <2>3. QED  BY <2>1, <2>2
  <1>4. Entries \subseteq S
    <2> HIDE DEF Up
    <2> QED  BY <1>1, <1>3, UpInduction
  <1>5. \A e \in Content : Up(e)
    <2>1. \A e \in Content : e \in S
      BY <1>4, ParentIn
    <2>2. QED  BY <1>2, <2>1
  <1>6. QED
    BY <1>5

LEMMA MaxBetween ==
    ASSUME NEW a \in Nat, NEW b \in Nat, NEW s \in SUBSET (a..b), s # {}
    PROVE  Max(s) \in s
  <1> DEFINE T == {k \in Nat : \E x \in s : k = b - x}
  <1>1. T \in SUBSET Nat /\ T # {}
    <2>1. PICK x \in s : x \in a..b
      OBVIOUS
    <2>2. b - x \in Nat
      BY <2>1
    <2>3. QED  BY <2>1, <2>2
  <1>2. PICK k \in T : \A j \in T : k <= j
    <2> HIDE DEF T
    <2> QED  BY <1>1, LeastNumber
  <1>3. PICK m \in s : k = b - m
    OBVIOUS
  <1>4. \A x \in s : m >= x
    <2>1. SUFFICES ASSUME NEW x \in s  PROVE m >= x
      OBVIOUS
    <2>2. x \in a..b /\ m \in a..b
      OBVIOUS
    <2>3. b - x \in T
      BY <2>2
    <2>4. QED  BY <1>2, <1>3, <2>2, <2>3
  <1>5. QED
    BY <1>4 DEF Max

----------------------------------------------------------------------------
(* The inductive invariant. *)

Checked == {"contents", "plugs", "explicit", "targets", "default", "public", "executable", "tag", "permit"}
Stages == Checked \union {"normalize", "meta", "permissions", "plug", "done", "failed", "setdown", "down"}

Inputs == manifest \in Manifests /\ environ \in Environs /\ order \in Orders
Going == stage \in Stages /\ (stage # "failed" => rc = "ok")

\* Before the checks nothing is in the set; then the set has what is asked but what is lost, and only that is given.
PermissionsKept ==
    /\ stage \in {"normalize", "meta"} => checked = 0 /\ permset = <<>> /\ lost = {}
    /\ stage \in {"normalize", "meta", "permissions"} => permitted = {}
    /\ stage \in {"meta", "permissions"} => (\E S : wanted \in Seq(S)) /\ ValidOf(wanted) = Asked
    /\ stage = "permissions" => checked \in 0..Len(wanted) /\ Collected(permset, Asked, Upto(wanted, checked), lost)
    /\ stage \in Checked => Collected(permset, Asked, Asked, lost) /\ permitted \subseteq Asked

\* The types that the properties tell are those of t.
Told(t, props) == \A i \in DOMAIN props : Honours([types |-> t], props[i])

TypesKept ==
    /\ stage \in {"explicit", "targets", "default"} => types \in [Entries -> Types] /\ types[Packdir] # "Unset"
    /\ stage \in {"targets", "default"} => Told(types, manifest.properties)
    /\ stage = "public" => types \in [Entries -> Types] /\ computed = types /\ Told(types, manifest.properties)

\* The tags, when no path is too long: all the entries are typed, the executable files made so, the tags applied.
TagsKept ==
    environ.long = None =>
        /\ stage \in {"public", "executable", "tag", "permit", "plug", "done"} => \A e \in Entries : types[e] # "Unset"
        /\ stage \in {"tag", "permit", "plug", "done"} =>
              \A e \in Content : types[e] \in {"Exec", "Public_Exec"} => e \in made
        /\ stage \in {"permit", "plug", "done"} => ToSet(tagged) = {[entry |-> e, type |-> types[e]] : e \in Entries}

\* The entries that lost their tags are the first ones of the walk.
Torn(g, o) ==
    \E n \in Nat : /\ DOMAIN g = 1..n /\ n <= Len(o)
                   /\ g \in Seq([entry : Entries, type : {"Id"}])
                   /\ \A i \in 1..n : g[i].entry = o[i]
TornKept == stage \in {"setdown", "down"} => Torn(tagged, order)

ContentsInv ==
    /\ Inputs /\ Going /\ PermissionsKept /\ TypesKept /\ TagsKept /\ TornKept
    /\ PublicReachable /\ ExplicitHonoured /\ PermitsAsked /\ InstallDirUnderRoot

\* Asked does not change.
LEMMA AskedSame == ASSUME manifest' = manifest PROVE Asked' = Asked /\ Holders' = Holders
  BY DEF Asked, Holders

LEMMA OrderLen ==
    ASSUME NEW o \in Orders
    PROVE  Len(o) \in Nat /\ Len(o) > 0 /\ DOMAIN o = 1..Len(o) /\ \A i \in 1..Len(o) : o[i] \in Entries
  <1>1. o \in Seq(Entries) /\ \A e \in Entries : \E i \in DOMAIN o : o[i] = e
    BY InputAssumption
  <1>2. PICK n \in Nat : n = Len(o) /\ DOMAIN o = 1..n
    BY <1>1
  <1>3. PICK i \in 1..n : o[i] = Packdir
    BY <1>1, <1>2, EntriesAssumption
  <1>4. \A k \in 1..n : o[k] \in Entries
    BY <1>1, <1>2
  <1>5. QED  BY <1>2, <1>3, <1>4

LEMMA ContentsStarts == ContentsInit => ContentsInv
  <1>1. SUFFICES ASSUME ContentsInit PROVE ContentsInv
    OBVIOUS
  <1>2. /\ stage \in {"normalize", "setdown"} /\ rc = "ok" /\ meta = None /\ permset = <<>> /\ tagged = <<>>
        /\ permitted = {} /\ checked = 0 /\ lost = {} /\ Inputs
    BY <1>1 DEF ContentsInit, ContentsInput, ContentsStart, Inputs
  <1>3. TornKept
    <2>1. PICK g, o, n : g = tagged /\ o = order /\ n = 0
      OBVIOUS
    <2>2. g \in Seq([entry : Entries, type : {"Id"}]) /\ DOMAIN g = {}
      BY <1>2, <2>1, EmptySeq
    <2>3. o \in Orders
      BY <1>2, <2>1 DEF Inputs
    <2>4. Len(o) \in Nat /\ Len(o) > 0
      BY <2>3, OrderLen
    <2>5. Torn(g, o)
      BY <2>1, <2>2, <2>4 DEF Torn
    <2>6. QED  BY <1>2, <2>1, <2>5 DEF TornKept
  <1>4. PermissionsKept /\ TypesKept /\ TagsKept /\ Going
    BY <1>2 DEF PermissionsKept, TypesKept, TagsKept, Going, Stages, Checked
  <1>5. PublicReachable /\ ExplicitHonoured /\ PermitsAsked /\ InstallDirUnderRoot
    BY <1>2 DEF PublicReachable, ExplicitHonoured, PermitsAsked, InstallDirUnderRoot, Propagated
  <1>6. QED
    BY <1>2, <1>3, <1>4, <1>5 DEF ContentsInv

LEMMA NormalizeKeeps == ASSUME ContentsInv, Normalize PROVE ContentsInv'
  <1>1. /\ manifest' = manifest /\ environ' = environ /\ order' = order /\ meta' = meta /\ permset' = permset /\ lost' = lost /\ checked' = checked
        /\ permitted' = permitted /\ stage = "normalize"
    BY DEF Normalize, Same
  <1>2. stage' = IF rc' = "ok" THEN "meta" ELSE "failed"
    BY DEF Normalize, Goto
  <1>3. Inputs' /\ Going'
    BY <1>1, <1>2 DEF ContentsInv, Inputs, Going, Stages, Checked
  <1>4. PermissionsKept'
    <2>1. permset = <<>> /\ permitted = {} /\ checked = 0 /\ lost = {} /\ manifest \in Manifests /\ Asked' = Asked
      BY <1>1, AskedSame DEF ContentsInv, PermissionsKept, Inputs
    <2>2. PICK adapted : adapted = [i \in 1..Len(Holders) |-> Adapt(Holders[i])]
      OBVIOUS
    <2>3. IF ~manifest.valid \/ \E i \in DOMAIN adapted : adapted[i] = None
          THEN rc' = "EINVAL" /\ UNCHANGED wanted ELSE rc' = rc /\ wanted' = FlattenSeq(adapted)
      BY <2>2, Zenon DEF Normalize
    <2>4. CASE rc' # "ok"
      BY <1>2, <2>4 DEF PermissionsKept, Checked
    <2>5. CASE rc' = "ok"
      <3>1. wanted' = FlattenSeq(adapted) /\ \A i \in DOMAIN adapted : adapted[i] # None
        BY <2>3, <2>5
      <3>2. (\E S : FlattenSeq(adapted) \in Seq(S)) /\ ValidOf(FlattenSeq(adapted)) = Asked
        BY <2>1, <2>2, <3>1, WantedIs
      <3>3. (\E S : wanted' \in Seq(S)) /\ ValidOf(wanted') = Asked'
        BY <2>1, <3>1, <3>2
      <3>4. QED  BY <1>1, <1>2, <2>1, <2>5, <3>3 DEF PermissionsKept, Checked
    <2>6. QED  BY <2>4, <2>5
  <1>5. TypesKept' /\ TornKept' /\ TagsKept'
    BY <1>2 DEF TypesKept, TornKept, TagsKept
  <1>6. PublicReachable' /\ ExplicitHonoured' /\ PermitsAsked'
    BY <1>2 DEF PublicReachable, ExplicitHonoured, PermitsAsked, Propagated
  <1>7. InstallDirUnderRoot'
    BY <1>1 DEF ContentsInv, InstallDirUnderRoot, PathLength
  <1>8. QED
    BY <1>3, <1>4, <1>5, <1>6, <1>7 DEF ContentsInv

LEMMA AddMetaKeeps == ASSUME ContentsInv, AddMeta PROVE ContentsInv'
  <1>1. /\ manifest' = manifest /\ environ' = environ /\ order' = order /\ wanted' = wanted /\ permset' = permset /\ lost' = lost /\ checked' = checked
        /\ permitted' = permitted /\ stage = "meta" /\ rc' = rc
    BY DEF AddMeta, Same
  <1>2. stage' = IF rc' = "ok" THEN "permissions" ELSE "failed"
    BY DEF AddMeta, Goto
  <1>3. Inputs' /\ Going'
    BY <1>1, <1>2 DEF ContentsInv, Inputs, Going, Stages, Checked
  <1>4. PermissionsKept'
    <2>1. /\ permset = <<>> /\ permitted = {} /\ checked = 0 /\ lost = {} /\ Asked' = Asked
          /\ (\E S : wanted \in Seq(S)) /\ ValidOf(wanted) = Asked
      BY <1>1, AskedSame DEF ContentsInv, PermissionsKept
    <2>2. PICK w, set, k : w = wanted /\ set = permset /\ k = checked
      OBVIOUS
    <2>3. Collected(set, Asked, Upto(w, k), {})
      <3>1. set \in Seq(Permission(Asked)) /\ DOMAIN set = {}
        BY <2>1, <2>2, EmptySeq
      <3>2. 1..k = {}
        BY <2>1, <2>2
      <3>3. Upto(w, k) = {}
        BY <3>2 DEF Upto
      <3>4. QED  BY <3>1, <3>3 DEF Collected
    <2>4. checked \in 0..Len(wanted)
      BY <2>1
    <2>5. QED  BY <1>1, <1>2, <2>1, <2>2, <2>3, <2>4 DEF PermissionsKept, Checked
  <1>5. TypesKept' /\ TornKept' /\ TagsKept'
    BY <1>2 DEF TypesKept, TornKept, TagsKept
  <1>6. PublicReachable' /\ ExplicitHonoured' /\ PermitsAsked'
    BY <1>2 DEF PublicReachable, ExplicitHonoured, PermitsAsked, Propagated
  <1>7. InstallDirUnderRoot'
    <2>1. SUFFICES ASSUME ~(environ.id # None /\ environ.auto), environ.slashes <= 1
                   PROVE  /\ meta'.base + meta'.install \in {PathLength - 1, PathLength}
                          /\ meta'.base \in environ.root .. environ.pack
      BY <1>1 DEF InstallDirUnderRoot, PathLength
    <2>2. PICK a \in Nat, b \in Nat, w \in Nat : a = environ.root /\ b = environ.pack /\ a <= b /\ w = environ.slashes
      BY InputAssumption DEF ContentsInv, Inputs
    <2>3. PICK red, root, told, p :
             /\ red = GetRedpakid /\ root = IF red # None /\ environ.auto THEN red ELSE environ.root
             /\ told = IF red # None /\ environ.auto THEN red ELSE environ.root + environ.slashes
             /\ p = PathLength
      OBVIOUS
    <2>4. meta' = [base |-> root, install |-> p - told]
      BY <2>3 DEF AddMeta
    <2>5. root \in a..b
      <3>1. CASE environ.id # None
        BY <2>1, <2>2, <2>3, <3>1
      <3>2. CASE environ.id = None
        <4>1. PICK below : below = environ.markers \cap (environ.root .. environ.pack)
          OBVIOUS
        <4>2. red = IF environ.auto /\ below # {} THEN Max(below) ELSE None
          BY <2>3, <3>2, <4>1 DEF GetRedpakid
        <4>3. below \in SUBSET (a..b)
          BY <2>2, <4>1
        <4>4. CASE environ.auto /\ below # {}
          <5>1. Max(below) \in a..b
            BY <4>3, <4>4, MaxBetween
          <5>2. QED  BY <2>2, <2>3, <4>2, <4>4, <5>1
        <4>5. CASE ~(environ.auto /\ below # {})
          BY <2>2, <2>3, <4>2, <4>5
        <4>6. QED  BY <4>4, <4>5
      <3>3. QED  BY <3>1, <3>2
    <2>6. meta'.base = root /\ meta'.install = p - told
      BY <2>4
    <2>7. p \in Nat /\ told \in Nat /\ told \in {root, root + 1}
      BY <2>1, <2>2, <2>3, <2>5 DEF PathLength
    <2>8. root + (p - told) \in {p - 1, p}
      BY <2>5, <2>7
    <2>9. QED  BY <2>2, <2>3, <2>5, <2>6, <2>8
  <1>8. QED
    BY <1>3, <1>4, <1>5, <1>6, <1>7 DEF ContentsInv

LEMMA CheckOneKeeps == ASSUME ContentsInv, CheckOnePermission PROVE ContentsInv'
  <1>1. /\ manifest' = manifest /\ environ' = environ /\ order' = order /\ meta' = meta /\ wanted' = wanted
        /\ permitted' = permitted /\ stage = "permissions" /\ stage' = stage /\ rc' = rc
        /\ checked < Len(wanted) /\ checked' = checked + 1
    BY DEF CheckOnePermission, Same
  <1>2. Inputs' /\ Going'
    BY <1>1 DEF ContentsInv, Inputs, Going
  <1>3. PermissionsKept'
    <2>1. /\ permitted = {} /\ (\E S : wanted \in Seq(S)) /\ ValidOf(wanted) = Asked /\ Asked' = Asked
          /\ checked \in 0..Len(wanted) /\ Collected(permset, Asked, Upto(wanted, checked), lost)
      BY <1>1, AskedSame DEF ContentsInv, PermissionsKept
    <2>2. PICK w, set, gone, asked, done : /\ w = wanted /\ set = permset /\ gone = lost /\ asked = Asked
                                           /\ done = Upto(wanted, checked)
      OBVIOUS
    <2>3. PICK k \in Nat : k = checked /\ k < Len(w)
      BY <1>1, <2>1, <2>2
    <2>4. PICK p, nm : p = w[k + 1] /\ nm = p.name
      OBVIOUS
    <2>5. Len(w) \in Nat /\ DOMAIN w = 1..Len(w) /\ k + 1 \in 1..Len(w) /\ k + 1 \in 0..Len(w)
      BY <2>1, <2>2, <2>3
    <2>6. 1..(k + 1) = (1..k) \union {k + 1}
      BY <2>3
    <2>7. Collected(set, asked, done, gone)
      BY <2>1, <2>2
    <2>8. ASSUME p.value \in Accepted  PROVE nm \in asked /\ Upto(w, k + 1) = done \union {nm}
      <3>1. nm \in ValidOf(w)
        BY <2>4, <2>5, <2>8 DEF ValidOf
      <3>2. Upto(w, k + 1) = Upto(w, k) \union {nm}
        BY <2>4, <2>6, <2>8 DEF Upto
      <3>3. QED  BY <2>1, <2>2, <2>3, <3>1, <3>2
    <2>9. ASSUME p.value \notin Accepted  PROVE Upto(w, k + 1) = done
      <3>1. Upto(w, k + 1) = Upto(w, k)
        BY <2>4, <2>6, <2>9 DEF Upto
      <3>2. QED  BY <2>2, <2>3, <3>1
    <2>10. Collected(permset', asked, Upto(w, k + 1), lost')
      <3>1. CASE p.value \notin Accepted /\ permset' = set /\ lost' = gone
        BY <2>7, <2>9, <3>1
      <3>2. CASE p.value \in Accepted /\ permset' = PermAdd(PermAdd(set, nm, TRUE, FALSE), nm, FALSE, TRUE) /\ lost' = gone
        <4>1. nm \in asked
          BY <2>8, <3>2
        <4>2. Collected(PermAdd(PermAdd(set, nm, TRUE, FALSE), nm, FALSE, TRUE), asked, done \union {nm}, gone)
          BY ONLY <2>7, <4>1, RecordedTwice
        <4>3. QED  BY <2>8, <3>2, <4>2
      <3>3. CASE p.value \in Accepted /\ permset' \in {set, PermAdd(set, nm, FALSE, TRUE)} /\ lost' = gone \union {nm}
        <4>1. nm \in asked
          BY <2>8, <3>3
        <4>2. /\ Collected(PermAdd(set, nm, FALSE, TRUE), asked, done \union {nm}, gone \union {nm})
              /\ Collected(set, asked, done \union {nm}, gone \union {nm})
          BY ONLY <2>7, <4>1, RecordedTwice
        <4>3. QED  BY <2>8, <3>3, <4>2
      <3>4. \/ p.value \notin Accepted /\ permset' = set /\ lost' = gone
            \/ /\ p.value \in Accepted /\ permset' = PermAdd(PermAdd(set, nm, TRUE, FALSE), nm, FALSE, TRUE) /\ lost' = gone
            \/ p.value \in Accepted /\ permset' \in {set, PermAdd(set, nm, FALSE, TRUE)} /\ lost' = gone \union {nm}
        BY <2>2, <2>3, <2>4 DEF CheckOnePermission, Accepted
      <3>5. QED  BY <3>1, <3>2, <3>3, <3>4
    <2>11. QED  BY <1>1, <2>1, <2>2, <2>3, <2>5, <2>10 DEF PermissionsKept, Checked
  <1>4. TypesKept' /\ TornKept' /\ TagsKept'
    BY <1>1 DEF TypesKept, TornKept, TagsKept
  <1>5. PublicReachable' /\ ExplicitHonoured' /\ PermitsAsked'
    BY <1>1 DEF PublicReachable, ExplicitHonoured, PermitsAsked, Propagated
  <1>6. InstallDirUnderRoot'
    BY <1>1 DEF ContentsInv, InstallDirUnderRoot, PathLength
  <1>7. QED
    BY <1>2, <1>3, <1>4, <1>5, <1>6 DEF ContentsInv

LEMMA PermissionsCheckedKeeps == ASSUME ContentsInv, PermissionsChecked PROVE ContentsInv'
  <1>1. /\ manifest' = manifest /\ environ' = environ /\ order' = order /\ meta' = meta /\ wanted' = wanted
        /\ permitted' = permitted /\ stage = "permissions" /\ rc' = rc /\ permset' = permset /\ lost' = lost
        /\ checked = Len(wanted)
    BY DEF PermissionsChecked, Same
  <1>2. stage' = IF rc' = "ok" THEN "contents" ELSE "failed"
    BY DEF PermissionsChecked, Goto
  <1>3. Inputs' /\ Going'
    BY <1>1, <1>2 DEF ContentsInv, Inputs, Going, Stages, Checked
  <1>4. PermissionsKept'
    <2>1. /\ permitted = {} /\ (\E S : wanted \in Seq(S)) /\ ValidOf(wanted) = Asked /\ Asked' = Asked
          /\ Collected(permset, Asked, Upto(wanted, checked), lost)
      BY <1>1, AskedSame DEF ContentsInv, PermissionsKept
    <2>2. DOMAIN wanted = 1..Len(wanted)
      BY <2>1
    <2>3. Upto(wanted, checked) = Asked
      BY <1>1, <2>1, <2>2 DEF Upto, ValidOf
    <2>4. QED  BY <1>1, <1>2, <2>1, <2>3 DEF PermissionsKept, Checked
  <1>5. TypesKept' /\ TornKept' /\ TagsKept'
    BY <1>2 DEF TypesKept, TornKept, TagsKept
  <1>6. PublicReachable' /\ ExplicitHonoured' /\ PermitsAsked'
    BY <1>2 DEF PublicReachable, ExplicitHonoured, PermitsAsked, Propagated
  <1>7. InstallDirUnderRoot'
    BY <1>1 DEF ContentsInv, InstallDirUnderRoot, PathLength
  <1>8. QED
    BY <1>3, <1>4, <1>5, <1>6, <1>7 DEF ContentsInv

LEMMA CheckContentsKeeps == ASSUME ContentsInv, CheckContents PROVE ContentsInv'
  <1>1. /\ manifest' = manifest /\ environ' = environ /\ order' = order /\ meta' = meta /\ permset' = permset /\ lost' = lost /\ checked' = checked
        /\ stage = "contents" /\ permitted' = permitted
    BY DEF CheckContents, Same
  <1>2. stage' = IF rc' = "ok" THEN "plugs" ELSE "failed"
    BY DEF CheckContents, Goto
  <1>3. Inputs' /\ Going'
    BY <1>1, <1>2 DEF ContentsInv, Inputs, Going, Stages, Checked
  <1>4. PermissionsKept' /\ Asked' = Asked
    BY <1>1, <1>2, AskedSame DEF ContentsInv, PermissionsKept, Checked
  <1>5. TypesKept'
    BY <1>2 DEF TypesKept
  <1>6. PublicReachable' /\ ExplicitHonoured'
    BY <1>2 DEF PublicReachable, ExplicitHonoured, Propagated
  <1>7. PermitsAsked'
    BY <1>2 DEF PermitsAsked
  <1>8. TornKept' /\ TagsKept'
    BY <1>2 DEF TornKept, TagsKept
  <1>9. InstallDirUnderRoot'
    BY <1>1 DEF ContentsInv, InstallDirUnderRoot, PathLength
  <1>10. QED
    BY <1>3, <1>4, <1>5, <1>6, <1>7, <1>8, <1>9 DEF ContentsInv

LEMMA ImplicitTypesKeeps == ASSUME ContentsInv, ImplicitTypes PROVE ContentsInv'
  <1>1. /\ manifest' = manifest /\ environ' = environ /\ order' = order /\ meta' = meta /\ permset' = permset /\ lost' = lost /\ checked' = checked
        /\ stage = "plugs" /\ permitted' = permitted
    BY DEF ImplicitTypes, Same
  <1>2. stage' = IF rc' = "ok" THEN "explicit" ELSE "failed"
    BY DEF ImplicitTypes, Goto
  <1>3. Inputs' /\ Going'
    BY <1>1, <1>2 DEF ContentsInv, Inputs, Going, Stages, Checked
  <1>4. PermissionsKept' /\ Asked' = Asked
    BY <1>1, <1>2, AskedSame DEF ContentsInv, PermissionsKept, Checked
  <1>5. TypesKept'
    <2>1. PICK reset : reset = Typed([e \in Entries |-> IF e = Packdir THEN "Id" ELSE "Unset"], rc)
      OBVIOUS
    <2>2. rc = "ok"
      BY <1>1 DEF ContentsInv, Going
    <2>3. reset \in Rooted
      BY <2>1, <2>2, EntriesAssumption DEF Rooted, Typing, Typed, Codes, Types
    <2>4. manifest.plugs \in Seq(Names) /\ manifest.bindings \in Seq(Names)
      BY InputAssumption DEF ContentsInv, Inputs
    <2>5. PICK plugs : plugs = FoldLeft(LAMBDA s, n : ImplicitType("Plug", s, n), reset, manifest.plugs)
      OBVIOUS
    <2>6. PICK both : both = FoldLeft(LAMBDA s, n : ImplicitType("Public_Lib", s, n), plugs, manifest.bindings)
      OBVIOUS
    <2>7. "Plug" \in Types /\ "Plug" # "Unset" /\ "Public_Lib" \in Types /\ "Public_Lib" # "Unset"
      BY DEF Types
    <2>8. plugs \in Rooted
      <3>1. FoldLeft(LAMBDA s, n : ImplicitType("Plug", s, n), reset, manifest.plugs) \in Rooted
        BY <2>3, <2>4, <2>7, ImplicitIs
      <3>2. QED  BY <2>5, <3>1, Zenon
    <2>9. both \in Rooted
      <3>1. FoldLeft(LAMBDA s, n : ImplicitType("Public_Lib", s, n), plugs, manifest.bindings) \in Rooted
        BY <2>4, <2>7, <2>8, ImplicitIs
      <3>2. QED  BY <2>6, <3>1, Zenon
    <2>10. types' = (IF plugs.rc # "ok" THEN plugs ELSE both).types \/ types' = reset.types
      BY <2>1, <2>5, <2>6, Zenon DEF ImplicitTypes
    <2>11. PICK all \in Rooted : types' = all.types
      <3>1. CASE plugs.rc # "ok"
        BY ONLY <2>3, <2>8, <2>10, <3>1
      <3>2. CASE plugs.rc = "ok"
        BY ONLY <2>3, <2>9, <2>10, <3>2
      <3>3. QED  BY ONLY <3>1, <3>2
    <2>12. types' \in [Entries -> Types] /\ types'[Packdir] # "Unset"
      BY ONLY <2>11 DEF Rooted, Typing
    <2>13. QED  BY ONLY <1>2, <2>12 DEF TypesKept
  <1>6. PublicReachable' /\ ExplicitHonoured'
    BY <1>2 DEF PublicReachable, ExplicitHonoured, Propagated
  <1>7. PermitsAsked'
    BY <1>2 DEF PermitsAsked
  <1>8. TornKept' /\ TagsKept'
    BY <1>2 DEF TornKept, TagsKept
  <1>9. InstallDirUnderRoot'
    BY <1>1 DEF ContentsInv, InstallDirUnderRoot, PathLength
  <1>10. QED
    BY <1>3, <1>4, <1>5, <1>6, <1>7, <1>8, <1>9 DEF ContentsInv

LEMMA ExplicitTypesKeeps == ASSUME ContentsInv, ExplicitTypes PROVE ContentsInv'
  <1>1. /\ manifest' = manifest /\ environ' = environ /\ order' = order /\ meta' = meta /\ permset' = permset /\ lost' = lost /\ checked' = checked
        /\ stage = "explicit" /\ permitted' = permitted
    BY DEF ExplicitTypes, Same
  <1>2. stage' = IF rc' = "ok" THEN "targets" ELSE "failed"
    BY DEF ExplicitTypes, Goto
  <1>3. Inputs' /\ Going'
    BY <1>1, <1>2 DEF ContentsInv, Inputs, Going, Stages, Checked
  <1>4. PermissionsKept' /\ Asked' = Asked
    BY <1>1, <1>2, AskedSame DEF ContentsInv, PermissionsKept, Checked
  <1>5. TypesKept'
    <2>1. rc = "ok" /\ types \in [Entries -> Types] /\ types[Packdir] # "Unset"
      BY <1>1 DEF ContentsInv, Going, TypesKept
    <2>2. PICK base, props : base = Typed(types, rc) /\ props = manifest.properties
      OBVIOUS
    <2>3. base \in Rooted
      BY <2>1, <2>2 DEF Rooted, Typing, Typed, Codes
    <2>4. props \in Seq([name : Names, type : Types])
      BY <2>2, InputAssumption DEF ContentsInv, Inputs
    <2>5. PICK s : s = FoldLeft(ExplicitType, base, props)
      OBVIOUS
    <2>6. s \in Rooted /\ (s.rc = "ok" => \A i \in DOMAIN props : Honours(s, props[i]))
      BY <2>3, <2>4, <2>5, ExplicitIs
    <2>7. types' = s.types /\ rc' = s.rc
      BY <2>2, <2>5 DEF ExplicitTypes
    <2>8. types' \in [Entries -> Types] /\ types'[Packdir] # "Unset"
      BY <2>6, <2>7 DEF Rooted, Typing
    <2>9. rc' = "ok" => Told(types', props)
      BY <2>6, <2>7 DEF Told, Honours
    <2>10. QED  BY <1>1, <1>2, <2>2, <2>8, <2>9 DEF TypesKept
  <1>6. PublicReachable' /\ ExplicitHonoured'
    BY <1>2 DEF PublicReachable, ExplicitHonoured, Propagated
  <1>7. PermitsAsked'
    BY <1>2 DEF PermitsAsked
  <1>8. TornKept' /\ TagsKept'
    BY <1>2 DEF TornKept, TagsKept
  <1>9. InstallDirUnderRoot'
    BY <1>1 DEF ContentsInv, InstallDirUnderRoot, PathLength
  <1>10. QED
    BY <1>3, <1>4, <1>5, <1>6, <1>7, <1>8, <1>9 DEF ContentsInv

LEMMA TargetTypesKeeps == ASSUME ContentsInv, TargetTypes PROVE ContentsInv'
  <1>1. /\ manifest' = manifest /\ environ' = environ /\ order' = order /\ meta' = meta /\ permset' = permset /\ lost' = lost /\ checked' = checked
        /\ stage = "targets" /\ permitted' = permitted
    BY DEF TargetTypes, Same
  <1>2. stage' = IF rc' = "ok" THEN "default" ELSE "failed"
    BY DEF TargetTypes, Goto
  <1>3. Inputs' /\ Going'
    BY <1>1, <1>2 DEF ContentsInv, Inputs, Going, Stages, Checked
  <1>4. PermissionsKept' /\ Asked' = Asked
    BY <1>1, <1>2, AskedSame DEF ContentsInv, PermissionsKept, Checked
  <1>5. TypesKept'
    <2>1. /\ rc = "ok" /\ types \in [Entries -> Types] /\ types[Packdir] # "Unset"
          /\ Told(types, manifest.properties)
      BY <1>1 DEF ContentsInv, Going, TypesKept
    <2>2. PICK base, ts : base = Typed(types, rc) /\ ts = manifest.targets
      OBVIOUS
    <2>3. base \in Rooted /\ base.types = types
      BY <2>1, <2>2 DEF Rooted, Typing, Typed, Codes
    <2>4. ts \in Seq(ToSet(ts)) /\ \A t \in ToSet(ts) : t.src \in Names \cup {None}
      BY <2>2, InputAssumption DEF ContentsInv, Inputs
    <2>5. PICK s, C : s = FoldLeft(TargetType, base, ts) /\ C = ToSet(ts)
      OBVIOUS
    <2>6. s \in Rooted /\ Keeps(s, base.types)
      BY <2>3, <2>4, <2>5, TargetIs
    <2>7. types' = s.types
      BY <2>2, <2>5 DEF TargetTypes
    <2>8. types' \in [Entries -> Types] /\ types'[Packdir] # "Unset"
      BY <2>6, <2>7 DEF Rooted, Typing
    <2>9. Told(types', manifest.properties)
      BY <2>1, <2>3, <2>6, <2>7 DEF Told, Honours, Keeps
    <2>10. QED  BY <1>1, <1>2, <2>8, <2>9 DEF TypesKept
  <1>6. PublicReachable' /\ ExplicitHonoured'
    BY <1>2 DEF PublicReachable, ExplicitHonoured, Propagated
  <1>7. PermitsAsked'
    BY <1>2 DEF PermitsAsked
  <1>8. TornKept' /\ TagsKept'
    BY <1>2 DEF TornKept, TagsKept
  <1>9. InstallDirUnderRoot'
    BY <1>1 DEF ContentsInv, InstallDirUnderRoot, PathLength
  <1>10. QED
    BY <1>3, <1>4, <1>5, <1>6, <1>7, <1>8, <1>9 DEF ContentsInv

LEMMA DefaultTypesKeeps == ASSUME ContentsInv, DefaultTypes PROVE ContentsInv'
  <1>1. /\ manifest' = manifest /\ environ' = environ /\ order' = order /\ meta' = meta /\ permset' = permset /\ lost' = lost /\ checked' = checked
        /\ stage = "default" /\ permitted' = permitted
    BY DEF DefaultTypes, Same
  <1>2. stage' = IF rc' = "ok" THEN "public" ELSE "failed"
    BY DEF DefaultTypes, Goto
  <1>3. Inputs' /\ Going'
    BY <1>1, <1>2 DEF ContentsInv, Inputs, Going, Stages, Checked
  <1>4. PermissionsKept' /\ Asked' = Asked
    BY <1>1, <1>2, AskedSame DEF ContentsInv, PermissionsKept, Checked
  <1>5. TypesKept'
    <2>1. /\ types \in [Entries -> Types] /\ types[Packdir] # "Unset"
          /\ Told(types, manifest.properties) /\ order \in Orders
      BY <1>1 DEF ContentsInv, TypesKept, Inputs
    <2>2. PICK at, m : m \in Nat /\ Places(at, m)
      BY <2>1, PlacesExist
    <2>3. DefaultOf \in [Entries -> Types] /\ \A e \in Entries : types[e] # "Unset" => DefaultOf[e] = types[e]
      BY <2>1, <2>2, DefaultIs
    <2>4. types' = DefaultOf /\ computed' = DefaultOf
      BY DEF DefaultTypes
    <2>5. Told(types', manifest.properties)
      BY <2>1, <2>3, <2>4 DEF Told, Honours
    <2>6. QED  BY <1>1, <1>2, <2>3, <2>4, <2>5 DEF TypesKept
  <1>6. PublicReachable' /\ ExplicitHonoured'
    BY <1>2 DEF PublicReachable, ExplicitHonoured, Propagated
  <1>7. PermitsAsked'
    BY <1>2 DEF PermitsAsked
  <1>8. TornKept' /\ TagsKept'
    <2>1. SUFFICES ASSUME environ.long = None  PROVE \A e \in Entries : types'[e] # "Unset"
      BY <1>1, <1>2 DEF TornKept, TagsKept
    <2>2. types \in [Entries -> Types] /\ types[Packdir] # "Unset" /\ order \in Orders
      BY <1>1 DEF ContentsInv, TypesKept, Inputs
    <2>3. PICK at, m : m \in Nat /\ Places(at, m)
      BY <2>2, PlacesExist
    <2>4. Entries \subseteq Visited
      <3>1. \A e \in Entries : \E i \in DOMAIN order : order[i] = e
        BY <2>2, InputAssumption
      <3>2. DOMAIN order = 1..Len(order)
        BY <2>2, OrderLen
      <3>3. QED  BY <2>1, <3>1, <3>2 DEF Visited, Reached
    <2>5. \A e \in Entries : DefaultOf[e] # "Unset"
      BY <2>2, <2>3, <2>4, DefaultIs
    <2>6. QED  BY <2>5 DEF DefaultTypes
  <1>9. InstallDirUnderRoot'
    BY <1>1 DEF ContentsInv, InstallDirUnderRoot, PathLength
  <1>10. QED
    BY <1>3, <1>4, <1>5, <1>6, <1>7, <1>8, <1>9 DEF ContentsInv

LEMMA PropagatePublicKeeps == ASSUME ContentsInv, PropagatePublic PROVE ContentsInv'
  <1>1. /\ manifest' = manifest /\ environ' = environ /\ order' = order /\ meta' = meta /\ permset' = permset /\ lost' = lost /\ checked' = checked
        /\ stage = "public" /\ permitted' = permitted /\ rc' = rc /\ computed' = computed
    BY DEF PropagatePublic, Same
  <1>2. stage' = IF rc' = "ok" THEN "executable" ELSE "failed"
    BY DEF PropagatePublic, Goto
  <1>3. Inputs' /\ Going'
    BY <1>1, <1>2 DEF ContentsInv, Inputs, Going, Stages, Checked
  <1>4. PermissionsKept' /\ Asked' = Asked
    BY <1>1, <1>2, AskedSame DEF ContentsInv, PermissionsKept, Checked
  <1>5. TypesKept'
    BY <1>2 DEF TypesKept
  <1>6. PublicReachable' /\ ExplicitHonoured'
    <2>1. types \in [Entries -> Types] /\ computed = types /\ Told(types, manifest.properties) /\ order \in Orders
      BY <1>1 DEF ContentsInv, TypesKept, Inputs
    <2>2. PICK c, r, o : c = types /\ r = types' /\ o = order
      OBVIOUS
    <2>3. r = FoldLeft(PublicType, c, o)
      BY <2>2 DEF PropagatePublic
    <2>4. c \in [Entries -> Types] /\ o \in Orders
      BY <2>1, <2>2
    <2>5. (\A e \in Content : Given(r, e)) /\ \A e \in Entries : Opened(r, c, e)
      BY <2>3, <2>4, PropagateIs
    <2>6. \A e \in Content : \A a \in Above(e) :
              /\ r[e] \in PublicTypes => r[a] = "Public"
              /\ r[e] = "Plug" => r[a] \in {"Plug", "Public"}
      BY <2>4, <2>5, ReachableIs
    <2>7. PublicReachable'
      BY <2>2, <2>6 DEF PublicReachable
    <2>8. computed' = c /\ Told(c, manifest'.properties)
      BY <1>1, <2>1, <2>2
    <2>9. ExplicitHonoured'
      BY <2>2, <2>5, <2>8 DEF ExplicitHonoured, Opened, Told, Honours
    <2>10. QED  BY <2>7, <2>9
  <1>7. PermitsAsked'
    BY <1>2 DEF PermitsAsked
  <1>8. TornKept' /\ TagsKept'
    <2>1. SUFFICES ASSUME environ.long = None  PROVE \A e \in Entries : types'[e] # "Unset"
      BY <1>1, <1>2 DEF TornKept, TagsKept
    <2>2. types \in [Entries -> Types] /\ (\A e \in Entries : types[e] # "Unset") /\ order \in Orders
      BY <1>1, <2>1 DEF ContentsInv, TypesKept, TagsKept, Inputs
    <2>3. PICK c, r, o : c = types /\ r = types' /\ o = order
      OBVIOUS
    <2>4. r = FoldLeft(PublicType, c, o) /\ c \in [Entries -> Types] /\ o \in Orders
      BY <2>2, <2>3 DEF PropagatePublic
    <2>5. \A e \in Entries : Opened(r, c, e)
      BY <2>4, PropagateIs
    <2>6. QED  BY <2>2, <2>3, <2>5 DEF Opened
  <1>9. InstallDirUnderRoot'
    BY <1>1 DEF ContentsInv, InstallDirUnderRoot, PathLength
  <1>10. QED
    BY <1>3, <1>4, <1>5, <1>6, <1>7, <1>8, <1>9 DEF ContentsInv

LEMMA MakeExecutableKeeps == ASSUME ContentsInv, MakeExecutable PROVE ContentsInv'
  <1>1. /\ manifest' = manifest /\ environ' = environ /\ order' = order /\ meta' = meta /\ permset' = permset /\ lost' = lost /\ checked' = checked
        /\ stage = "executable" /\ permitted' = permitted /\ types' = types /\ computed' = computed
    BY DEF MakeExecutable, Same
  <1>2. stage' = IF rc' = "ok" THEN "tag" ELSE "failed"
    BY DEF MakeExecutable, Goto
  <1>3. Inputs' /\ Going'
    BY <1>1, <1>2 DEF ContentsInv, Inputs, Going, Stages, Checked
  <1>4. PermissionsKept' /\ Asked' = Asked
    BY <1>1, <1>2, AskedSame DEF ContentsInv, PermissionsKept, Checked
  <1>5. TypesKept'
    BY <1>2 DEF TypesKept
  <1>6. PublicReachable' /\ ExplicitHonoured'
    BY <1>1, <1>2 DEF ContentsInv, PublicReachable, ExplicitHonoured, Propagated
  <1>7. PermitsAsked'
    BY <1>2 DEF PermitsAsked
  <1>8. TornKept' /\ TagsKept'
    <2>1. SUFFICES ASSUME environ.long = None, rc' = "ok"
                   PROVE  /\ \A e \in Entries : types'[e] # "Unset"
                          /\ \A e \in Content : types'[e] \in {"Exec", "Public_Exec"} => e \in made'
      BY <1>1, <1>2 DEF TornKept, TagsKept
    <2>2. (\A e \in Entries : types[e] # "Unset") /\ order \in Orders
      BY <1>1, <2>1 DEF ContentsInv, TagsKept, Inputs
    <2>3. Content \subseteq {order[i] : i \in 1..Reached}
      BY <2>1, <2>2, InputAssumption, OrderLen DEF Content, Reached
    <2>4. made' = {e \in Content \cap {order[i] : i \in 1..Reached} : types[e] \in {"Exec", "Public_Exec"}}
      BY <2>1 DEF MakeExecutable
    <2>5. QED  BY <1>1, <2>2, <2>3, <2>4
  <1>9. InstallDirUnderRoot'
    BY <1>1 DEF ContentsInv, InstallDirUnderRoot, PathLength
  <1>10. QED
    BY <1>3, <1>4, <1>5, <1>6, <1>7, <1>8, <1>9 DEF ContentsInv

LEMMA TagFilesKeeps == ASSUME ContentsInv, TagFiles PROVE ContentsInv'
  <1>1. /\ manifest' = manifest /\ environ' = environ /\ order' = order /\ meta' = meta /\ permset' = permset /\ lost' = lost /\ checked' = checked
        /\ stage = "tag" /\ made' = made /\ permitted' = permitted /\ types' = types /\ computed' = computed
    BY DEF TagFiles, Same
  <1>2. stage' = IF rc' = "ok" THEN "permit" ELSE "failed"
    BY DEF TagFiles, Goto
  <1>3. Inputs' /\ Going'
    BY <1>1, <1>2 DEF ContentsInv, Inputs, Going, Stages, Checked
  <1>4. PermissionsKept' /\ Asked' = Asked
    BY <1>1, <1>2, AskedSame DEF ContentsInv, PermissionsKept, Checked
  <1>5. TypesKept'
    BY <1>2 DEF TypesKept
  <1>6. PublicReachable' /\ ExplicitHonoured'
    BY <1>1, <1>2 DEF ContentsInv, PublicReachable, ExplicitHonoured, Propagated
  <1>7. PermitsAsked'
    BY <1>2 DEF PermitsAsked
  <1>8. TornKept' /\ TagsKept'
    <2>1. SUFFICES ASSUME environ.long = None
                   PROVE  /\ \A e \in Entries : types'[e] # "Unset"
                          /\ \A e \in Content : types'[e] \in {"Exec", "Public_Exec"} => e \in made'
                          /\ ToSet(tagged') = {[entry |-> e, type |-> types'[e]] : e \in Entries}
      BY <1>1, <1>2 DEF TornKept, TagsKept
    <2>2. /\ \A e \in Entries : types[e] # "Unset"
          /\ \A e \in Content : types[e] \in {"Exec", "Public_Exec"} => e \in made
          /\ order \in Orders
      BY <1>1, <2>1 DEF ContentsInv, TagsKept, Inputs
    <2>3. PICK o, t, g, n : o = order /\ t = types /\ g = tagged' /\ n = Len(order)
      OBVIOUS
    <2>4. /\ n \in Nat /\ DOMAIN o = 1..n /\ (\A i \in 1..n : o[i] \in Entries)
          /\ \A e \in Entries : \E i \in 1..n : o[i] = e
      BY <2>2, <2>3, InputAssumption, OrderLen
    <2>5. g = [i \in 1..n |-> [entry |-> o[i], type |-> IF t[o[i]] = "Unset" THEN "Conf" ELSE t[o[i]]]]
      BY <2>1, <2>3 DEF TagFiles, Reached
    <2>6. \A i \in 1..n : g[i] = [entry |-> o[i], type |-> t[o[i]]]
      BY <2>2, <2>3, <2>4, <2>5
    <2>7. ToSet(g) = {g[i] : i \in 1..n}
      <3>1. DOMAIN g = 1..n
        BY <2>5, Zenon
      <3>2. QED  BY <3>1, Zenon DEF ToSet
    <2>8. {g[i] : i \in 1..n} = {[entry |-> e, type |-> t[e]] : e \in Entries}
      <3>1. ASSUME NEW i \in 1..n  PROVE g[i] \in {[entry |-> e, type |-> t[e]] : e \in Entries}
        BY <2>4, <2>6, Zenon
      <3>2. ASSUME NEW e \in Entries  PROVE [entry |-> e, type |-> t[e]] \in {g[i] : i \in 1..n}
        <4>1. PICK i \in 1..n : o[i] = e
          BY <2>4
        <4>2. g[i] = [entry |-> e, type |-> t[e]]
          <5>1. g[i] = [entry |-> o[i], type |-> t[o[i]]]
            BY <2>6
          <5>2. QED  BY ONLY <4>1, <5>1, Zenon
        <4>3. QED  BY ONLY <4>1, <4>2, Zenon
      <3>3. QED  BY <3>1, <3>2, Zenon
    <2>9. QED  BY <1>1, <2>2, <2>3, <2>7, <2>8
  <1>9. InstallDirUnderRoot'
    BY <1>1 DEF ContentsInv, InstallDirUnderRoot, PathLength
  <1>10. QED
    BY <1>3, <1>4, <1>5, <1>6, <1>7, <1>8, <1>9 DEF ContentsInv

LEMMA PermitKeeps == ASSUME ContentsInv, Permit PROVE ContentsInv'
  <1>1. /\ manifest' = manifest /\ environ' = environ /\ order' = order /\ meta' = meta /\ permset' = permset /\ lost' = lost /\ checked' = checked
        /\ stage = "permit" /\ types' = types /\ computed' = computed /\ made' = made /\ tagged' = tagged
    BY DEF Permit, Same
  <1>2. stage' = IF rc' = "ok" THEN IF Selected = {} THEN "plug" ELSE "permit" ELSE "failed"
    BY DEF Permit, Goto
  <1>3. Inputs' /\ Going'
    BY <1>1, <1>2 DEF ContentsInv, Inputs, Going, Stages, Checked
  <1>4. PermissionsKept' /\ Asked' = Asked
    <2>1. Collected(permset, Asked, Asked, lost) /\ permitted \subseteq Asked /\ Asked' = Asked
      BY <1>1, AskedSame DEF ContentsInv, PermissionsKept, Checked
    <2>2. CASE Selected = {}
      BY <1>2, <2>1, <2>2 DEF PermissionsKept, Checked
    <2>3. CASE Selected # {}
      <3>1. PICK set : set = permset
        OBVIOUS
      <3>2. set \in Seq(Permission(Asked))
        BY <2>1, <3>1 DEF Collected
      <3>3. DOMAIN set \subseteq Nat
        BY <3>2
      <3>4. Selected \in SUBSET Nat
        BY <3>1, <3>3 DEF Selected
      <3>5. PICK i : i = Min(Selected)
        OBVIOUS
      <3>6. i \in Selected
        BY <2>3, <3>4, <3>5, MinIn
      <3>7. permset[i].name \in Asked
        <4>1. i \in DOMAIN set
          BY <3>1, <3>6 DEF Selected
        <4>2. set[i] \in Permission(Asked)
          BY <3>2, <4>1
        <4>3. QED  BY <3>1, <4>2 DEF Permission
      <3>8. permitted' = permitted \/ permitted' = permitted \union {permset[i].name}
        BY <2>3, <3>5 DEF Permit
      <3>9. permitted' \subseteq Asked'
        BY <2>1, <3>7, <3>8
      <3>10. Collected(permset', Asked', Asked', lost')
        BY <1>1, <2>1
      <3>11. QED  BY <1>2, <2>1, <2>3, <3>9, <3>10 DEF PermissionsKept, Checked
    <2>4. QED  BY <2>2, <2>3
  <1>5. TypesKept'
    BY <1>2 DEF TypesKept
  <1>6. PublicReachable' /\ ExplicitHonoured'
    BY <1>1, <1>2 DEF ContentsInv, PublicReachable, ExplicitHonoured, Propagated
  <1>7. PermitsAsked'
    <2>1. SUFFICES ASSUME stage' = "plug"
                   PROVE  /\ Default \in permitted' /\ permitted' \subseteq {Default} \union Asked
                          /\ Asked \subseteq permitted' \union lost
      BY <1>1, <1>2, <1>4 DEF PermitsAsked
    <2>2. Collected(permset, Asked, Asked, lost) /\ permitted \subseteq Asked
      BY <1>1 DEF ContentsInv, PermissionsKept, Checked
    <2>3. Selected = {} /\ rc' = "ok"
      BY <1>2, <2>1
    <2>4. permitted' = permitted \union {Default}
      BY <2>3 DEF Permit
    <2>5. ASSUME NEW nm \in Asked, nm \notin lost  PROVE nm \in permitted
      <3>1. PICK i \in DOMAIN permset : permset[i].name = nm /\ permset[i].granted = TRUE /\ permset[i].requested = TRUE
        BY <2>2, <2>5 DEF Collected, Held
      <3>2. QED  BY <2>3, <3>1 DEF Selected
    <2>6. QED  BY <2>2, <2>4, <2>5
  <1>8. TornKept' /\ TagsKept'
    BY <1>1, <1>2 DEF ContentsInv, TornKept, TagsKept
  <1>9. InstallDirUnderRoot'
    BY <1>1 DEF ContentsInv, InstallDirUnderRoot, PathLength
  <1>10. QED
    BY <1>3, <1>4, <1>5, <1>6, <1>7, <1>8, <1>9 DEF ContentsInv

LEMMA SetPlugsKeeps == ASSUME ContentsInv, SetPlugs PROVE ContentsInv'
  <1>1. /\ manifest' = manifest /\ environ' = environ /\ order' = order /\ meta' = meta /\ permset' = permset /\ lost' = lost /\ checked' = checked
        /\ stage = "plug" /\ types' = types /\ computed' = computed /\ made' = made /\ tagged' = tagged /\ permitted' = permitted
    BY DEF SetPlugs, Same
  <1>2. stage' = IF rc' = "ok" THEN "done" ELSE "failed"
    BY DEF SetPlugs, Goto
  <1>3. Inputs' /\ Going'
    BY <1>1, <1>2 DEF ContentsInv, Inputs, Going, Stages, Checked
  <1>4. PermissionsKept' /\ Asked' = Asked
    BY <1>1, <1>2, AskedSame DEF ContentsInv, PermissionsKept, Checked
  <1>5. TypesKept'
    BY <1>2 DEF TypesKept
  <1>6. PublicReachable' /\ ExplicitHonoured'
    BY <1>1, <1>2 DEF ContentsInv, PublicReachable, ExplicitHonoured, Propagated
  <1>7. PermitsAsked'
    <2>1. /\ Default \in permitted /\ permitted \subseteq {Default} \union Asked
          /\ Asked \subseteq permitted \union lost
      BY <1>1 DEF ContentsInv, PermitsAsked
    <2>2. QED  BY <1>1, <1>4, <2>1 DEF PermitsAsked
  <1>8. TornKept' /\ TagsKept'
    BY <1>1, <1>2 DEF ContentsInv, TornKept, TagsKept
  <1>9. InstallDirUnderRoot'
    BY <1>1 DEF ContentsInv, InstallDirUnderRoot, PathLength
  <1>10. QED
    BY <1>3, <1>4, <1>5, <1>6, <1>7, <1>8, <1>9 DEF ContentsInv

\* The walks visit no more than the entries.
LEMMA ReachedIs == ASSUME Inputs PROVE Reached \in Nat /\ Reached <= Len(order)
  <1>1. PICK o : o = order /\ o \in Orders
    BY DEF Inputs
  <1>2. PICK n \in Nat : n = Len(o) /\ DOMAIN o = 1..n
    BY <1>1, OrderLen
  <1>3. CASE environ.long = None
    BY <1>1, <1>2, <1>3 DEF Reached
  <1>4. CASE environ.long # None
    <2>1. PICK T : T = {i \in DOMAIN order : TooLong(order[i])}
      OBVIOUS
    <2>2. environ.long \in Entries
      BY <1>4, InputAssumption DEF Inputs
    <2>3. PICK k \in DOMAIN o : o[k] = environ.long
      BY <1>1, <2>2, InputAssumption
    <2>4. k \in T
      BY <1>1, <1>4, <2>1, <2>3 DEF TooLong
    <2>5. T \in SUBSET Nat /\ T # {} /\ T \subseteq 1..n
      BY <1>1, <1>2, <2>1, <2>4
    <2>6. Min(T) \in T
      BY <2>5, MinIn
    <2>7. PICK j : j = Min(T) /\ j \in 1..n
      BY <2>5, <2>6
    <2>8. Reached = j - 1
      <3>1. Reached = Min({i \in DOMAIN order : TooLong(order[i])}) - 1
        BY <1>4, Zenon DEF Reached
      <3>2. QED  BY <2>1, <2>7, <3>1, Zenon
    <2>9. QED  BY <1>1, <1>2, <2>7, <2>8
  <1>5. QED
    BY <1>3, <1>4

LEMMA SetdownKeeps == ASSUME ContentsInv, Setdown PROVE ContentsInv'
  <1>1. /\ manifest' = manifest /\ environ' = environ /\ order' = order /\ meta' = meta /\ rc' = rc
        /\ stage = "setdown" /\ stage' \in {"setdown", "down"}
    BY DEF Setdown, Same
  <1>2. Inputs' /\ Going'
    BY <1>1 DEF ContentsInv, Inputs, Going, Stages, Checked
  <1>3. PermissionsKept' /\ TypesKept' /\ TagsKept' /\ PublicReachable' /\ ExplicitHonoured' /\ PermitsAsked'
    BY <1>1 DEF PermissionsKept, Checked, TypesKept, TagsKept, PublicReachable, ExplicitHonoured, Propagated, PermitsAsked
  <1>4. InstallDirUnderRoot'
    BY <1>1 DEF ContentsInv, InstallDirUnderRoot, PathLength
  <1>5. TornKept'
    <2>1. PICK g, o, m : g = tagged /\ o = order /\ m = Reached
      OBVIOUS
    <2>2. Torn(g, o) /\ o \in Orders /\ m \in Nat /\ m <= Len(o)
      BY <1>1, <2>1, ReachedIs DEF ContentsInv, TornKept, Inputs
    <2>3. PICK R : R = [entry : Entries, type : {"Id"}]
      OBVIOUS
    <2>4. PICK n \in Nat : DOMAIN g = 1..n /\ n <= Len(o) /\ g \in Seq(R) /\ \A i \in 1..n : g[i].entry = o[i]
      BY <2>2, <2>3 DEF Torn
    <2>5. Len(o) \in Nat /\ \A i \in 1..Len(o) : o[i] \in Entries
      BY <2>2, OrderLen
    <2>6. Len(g) = n
      BY <2>4
    <2>7. PICK x : x = [entry |-> o[n + 1], type |-> "Id"]
      OBVIOUS
    <2>8. CASE n + 1 <= m /\ tagged' = Append(g, x)
      <3>1. PICK h : h = Append(g, x)
        OBVIOUS
      <3>2. n + 1 \in Nat /\ n + 1 <= Len(o) /\ n + 1 \in 1..Len(o)
        BY <2>2, <2>4, <2>5, <2>8
      <3>3. x \in R /\ x.entry = o[n + 1]
        BY <2>3, <2>5, <2>7, <3>2
      <3>4. h \in Seq(R) /\ DOMAIN h = 1..(n + 1) /\ h[n + 1] = x /\ \A i \in 1..n : h[i] = g[i]
        BY <2>4, <2>6, <3>1, <3>3
      <3>5. \A i \in 1..(n + 1) : h[i].entry = o[i]
        BY <2>4, <3>3, <3>4
      <3>6. PICK k \in Nat : k = n + 1 /\ k <= Len(o)
        BY <3>2
      <3>7. DOMAIN h = 1..k /\ h \in Seq([entry : Entries, type : {"Id"}]) /\ \A i \in 1..k : h[i].entry = o[i]
        BY <2>3, <3>4, <3>5, <3>6
      <3>8. Torn(h, o)
        BY <3>6, <3>7 DEF Torn
      <3>9. QED  BY <1>1, <2>1, <2>8, <3>1, <3>8 DEF TornKept
    <2>9. CASE tagged' = g
      BY <1>1, <2>1, <2>2, <2>9 DEF TornKept
    <2>10. (n + 1 <= m /\ tagged' = Append(g, x)) \/ tagged' = g
      BY <2>1, <2>6, <2>7 DEF Setdown, SetdownOrder
    <2>11. QED  BY <2>8, <2>9, <2>10
  <1>6. QED
    BY <1>2, <1>3, <1>4, <1>5 DEF ContentsInv

LEMMA ContentsSteps == ContentsInv /\ [ContentsNext]_contentsVars => ContentsInv'
  <1>1. SUFFICES ASSUME ContentsInv, [ContentsNext]_contentsVars  PROVE ContentsInv'
    OBVIOUS
  <1>2. CASE UNCHANGED contentsVars
    <2>1. /\ manifest' = manifest /\ environ' = environ /\ order' = order /\ stage' = stage /\ rc' = rc /\ meta' = meta
          /\ wanted' = wanted /\ permset' = permset /\ lost' = lost /\ checked' = checked /\ types' = types /\ computed' = computed /\ tagged' = tagged
          /\ permitted' = permitted /\ made' = made
      BY <1>2 DEF contentsVars
    <2>2. Inputs' /\ Going' /\ PermissionsKept' /\ TypesKept' /\ TagsKept'
      BY <1>1, <2>1, AskedSame DEF ContentsInv, Inputs, Going, PermissionsKept, TypesKept, TagsKept
    <2>3. TornKept' /\ InstallDirUnderRoot'
      BY <1>1, <2>1 DEF ContentsInv, TornKept, InstallDirUnderRoot, PathLength
    <2>4. PublicReachable' /\ ExplicitHonoured'
      BY <1>1, <2>1 DEF ContentsInv, PublicReachable, ExplicitHonoured, Propagated
    <2>5. PermitsAsked'
      BY <1>1, <2>1, AskedSame DEF ContentsInv, PermitsAsked
    <2>6. QED  BY <2>2, <2>3, <2>4, <2>5 DEF ContentsInv
  <1>3. CASE ContentsNext
    BY <1>1, <1>3, NormalizeKeeps, AddMetaKeeps, CheckOneKeeps, PermissionsCheckedKeeps, CheckContentsKeeps, ImplicitTypesKeeps,
       ExplicitTypesKeeps, TargetTypesKeeps, DefaultTypesKeeps, PropagatePublicKeeps, MakeExecutableKeeps,
       TagFilesKeeps, PermitKeeps, SetPlugsKeeps, SetdownKeeps DEF ContentsNext
  <1>4. QED
    BY <1>1, <1>2, <1>3

\* The tags are removed bottom up.
LEMMA TornBottomUp == ContentsInv => SetdownBottomUp
  <1>1. SUFFICES ASSUME ContentsInv, stage \in {"setdown", "down"}, NEW e \in Content,
                        NEW j \in DOMAIN tagged, Parent[e] = tagged[j].entry
                 PROVE  \E i \in DOMAIN tagged : e = tagged[i].entry
    BY DEF SetdownBottomUp
  <1>2. PICK g, o : g = tagged /\ o = order
    OBVIOUS
  <1>3. Torn(g, o) /\ o \in Orders
    BY <1>1, <1>2 DEF ContentsInv, TornKept, Inputs
  <1>4. PICK n \in Nat : DOMAIN g = 1..n /\ n <= Len(o) /\ \A i \in 1..n : g[i].entry = o[i]
    BY <1>3 DEF Torn
  <1>5. /\ \A x \in Entries : \E i \in DOMAIN o : o[i] = x
        /\ \A i, k \in DOMAIN o : o[i] # Packdir /\ o[k] = Parent[o[i]] => i < k
    BY <1>3, InputAssumption
  <1>6. Len(o) \in Nat /\ DOMAIN o = 1..Len(o)
    BY <1>3, OrderLen
  <1>7. PICK i \in DOMAIN o : o[i] = e
    BY <1>5, ParentIn
  <1>8. j \in 1..n /\ j \in DOMAIN o /\ o[j] = Parent[o[i]] /\ o[i] # Packdir
    BY <1>1, <1>2, <1>4, <1>6, <1>7, ParentIn
  <1>9. i < j
    BY <1>5, <1>8
  <1>10. i \in 1..n
    BY <1>6, <1>8, <1>9
  <1>11. QED
    BY <1>2, <1>4, <1>7, <1>10

\* What is set up for a package is what its manifest asks, in whatever order its files are visited, for every
\* manifest, tree of files and environment.  The failures that the code does not see are set apart by the
\* property: a permission that could not be recorded, a path too long for the buffer, a root told with several
\* slashes (install_afmpkg, setdown_security, with manifest.c, permset.c and path-type.c).
THEOREM ManifestCorrect == ContentsSpec => []ManifestHonoured
  <1>1. ContentsInit => ContentsInv
    BY ContentsStarts
  <1>2. ContentsInv /\ [ContentsNext]_contentsVars => ContentsInv'
    BY ContentsSteps
  <1>3. TagsKept => TagsApplied
    BY DEF TagsKept, TagsApplied
  <1>4. ContentsInv => ManifestHonoured
    BY <1>3, TornBottomUp DEF ContentsInv, ManifestHonoured
  <1>5. QED
    BY <1>1, <1>2, <1>4, PTL DEF ContentsSpec
=============================================================================
