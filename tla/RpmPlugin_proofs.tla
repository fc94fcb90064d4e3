-------------------------- MODULE RpmPlugin_proofs --------------------------
(***************************************************************************)
(* Proofs about RpmPlugin: the packages of a transaction set are announced  *)
(* as RpmAnnounce says, and all of them when nothing is skipped.            *)
(***************************************************************************)
EXTENDS RpmPlugin, FiniteSetTheorems, SequenceTheorems, NaturalsInduction, WellFoundedInduction, TLAPS

----------------------------------------------------------------------------
(* The numbers. *)

\* A position is in a finite set of naturals.
LEMMA PositionsFinite ==
    ASSUME NEW s \in Sets, NEW t
    PROVE  /\ OfType(s, t) \subseteq Nat
           /\ IsFiniteSet(OfType(s, t))
           /\ Cardinality(OfType(s, t)) \in Nat
  <1>1. Positions(s) = 1..Len(Elements[s]) /\ Len(Elements[s]) \in Nat
    BY ElementsAssumption DEF Positions
  <1>2. IsFiniteSet(1..Len(Elements[s]))
    BY <1>1, FS_Interval
  <1>3. OfType(s, t) \subseteq 1..Len(Elements[s])
    BY <1>1 DEF OfType
  <1>4. IsFiniteSet(OfType(s, t))
    BY <1>2, <1>3, FS_Subset
  <1>5. QED
    BY <1>3, <1>4, FS_CardinalityType

\* The elements of a type from position p on.
From(s, p) == {q \in OfType(s, Elements[s][p].type) : q >= p}

\* A rank is positive and at most the number of elements of the type.
LEMMA RankBounds ==
    ASSUME NEW s \in Sets, NEW t, NEW p \in OfType(s, t)
    PROVE  Rank(s, p) \in 1..Cardinality(OfType(s, t))
  <1>1. Elements[s][p].type = t
    BY DEF OfType
  <1>2. From(s, p) \subseteq OfType(s, t) /\ p \in From(s, p)
    BY <1>1, PositionsFinite DEF From
  <1>3. IsFiniteSet(From(s, p)) /\ Cardinality(From(s, p)) <= Cardinality(OfType(s, t))
    BY <1>2, PositionsFinite, FS_Subset
  <1>4. Cardinality(From(s, p)) \in Nat /\ Cardinality(From(s, p)) # 0
    BY <1>2, <1>3, FS_CardinalityType, FS_EmptySet
  <1>5. Rank(s, p) = Cardinality(From(s, p))
    BY DEF Rank, From
  <1>6. QED
    BY <1>3, <1>4, <1>5, PositionsFinite

\* Among the elements of a type, the rank grows when the position goes down.
LEMMA RankOrder ==
    ASSUME NEW s \in Sets, NEW t, NEW p \in OfType(s, t), NEW q \in OfType(s, t), q < p
    PROVE  Rank(s, p) < Rank(s, q)
  <1>1. Elements[s][p].type = t /\ Elements[s][q].type = t
    BY DEF OfType
  <1>2. p \in Nat /\ q \in Nat
    BY PositionsFinite
  <1>3. From(s, p) \subseteq From(s, q) /\ q \in From(s, q) /\ q \notin From(s, p)
    BY <1>1, <1>2, PositionsFinite DEF From
  <1>4. IsFiniteSet(From(s, q)) /\ IsFiniteSet(From(s, p))
    <2>1. From(s, q) \subseteq OfType(s, t) /\ From(s, p) \subseteq OfType(s, t)
      BY <1>1 DEF From
    <2>2. QED
      BY <2>1, PositionsFinite, FS_Subset
  <1>5. Cardinality(From(s, p)) < Cardinality(From(s, q))
    <2>1. From(s, p) # From(s, q)
      BY <1>3
    <2>2. QED
      BY <1>3, <1>4, <2>1, FS_Subset, FS_CardinalityType
  <1>6. Rank(s, p) = Cardinality(From(s, p)) /\ Rank(s, q) = Cardinality(From(s, q))
    BY DEF Rank, From
  <1>7. QED
    BY <1>5, <1>6

\* The element of the least position has the last rank.
LEMMA RankLast ==
    ASSUME NEW s \in Sets, NEW t, OfType(s, t) # {}
    PROVE  \E p \in OfType(s, t) : Rank(s, p) = Cardinality(OfType(s, t))
  <1> DEFINE R == OpToRel(<, Nat)
             S == OfType(s, t)
  <1>1. \A x, y \in Nat : x < y => <<x, y>> \in R
    BY DEF OpToRel
  <1>2. S \subseteq Nat
    BY PositionsFinite
  <1>3. PICK p \in S : \A q \in S : ~(<<q, p>> \in R)
    <2>1. IsWellFoundedOn(R, Nat) /\ S # {}
      BY NatLessThanWellFounded, Zenon
    <2> HIDE DEF R, S
    <2>2. QED
      BY <2>1, <1>2, WFMin, Zenon
  <1> HIDE DEF R
  <1>4. From(s, p) = S
    <2>1. Elements[s][p].type = t
      BY DEF OfType
    <2>2. ASSUME NEW q \in S, ~(q >= p)  PROVE FALSE
      <3>1. q \in Nat /\ p \in Nat /\ q < p
        BY <1>2, <2>2
      <3>2. QED
        BY <1>1, <1>3, <3>1
    <2>3. QED
      BY <2>1, <2>2 DEF From
  <1>5. Rank(s, p) = Cardinality(S)
    BY <1>4 DEF Rank, From
  <1>6. QED
    BY <1>5

\* The removals are numbered first.
Removals(s) == Cardinality(OfType(s, "removed"))

LEMMA CountIs ==
    ASSUME NEW s \in Sets
    PROVE  /\ Removals(s) \in Nat
           /\ CountOf(s) = Removals(s) + Cardinality(OfType(s, "added"))
  <1>1. OfType(s, "removed") \cap OfType(s, "added") = {}
    BY DEF OfType
  <1>2. CountOf(s) = Removals(s) + Cardinality(OfType(s, "added")) - Cardinality({})
    BY <1>1, PositionsFinite, FS_Union DEF CountOf, Recorded, Removals
  <1>3. QED
    BY <1>2, PositionsFinite, FS_EmptySet DEF Removals

\* The numbers of the removals, of the additions, and their order.
LEMMA NumberIs ==
    ASSUME NEW s \in Sets, NEW t \in {"removed", "added"}, NEW p \in OfType(s, t)
    PROVE  /\ Number(s, p) \in Nat
           /\ t = "removed" => Number(s, p) \in 1..Removals(s)
           /\ t = "added" => Number(s, p) \in Removals(s) + 1 .. CountOf(s)
           /\ \A q \in OfType(s, t) : q < p => Number(s, p) < Number(s, q)
  <1>1. \A q \in OfType(s, t) : Elements[s][q].type = t
    BY DEF OfType
  <1>2. \A q \in OfType(s, t) : Number(s, q) = IF t = "removed" THEN Rank(s, q) ELSE Removals(s) + Rank(s, q)
    BY <1>1 DEF Number, Removals
  <1>3. \A q \in OfType(s, t) : Rank(s, q) \in 1..Cardinality(OfType(s, t)) /\ Rank(s, q) \in Nat
    BY RankBounds, PositionsFinite
  <1>4. \A q \in OfType(s, t) : q < p => Rank(s, p) < Rank(s, q)
    BY RankOrder
  <1>5. Number(s, p) \in Nat /\ \A q \in OfType(s, t) : q < p => Number(s, p) < Number(s, q)
    BY <1>2, <1>3, <1>4, CountIs
  <1>6. t = "removed" => Number(s, p) \in 1..Removals(s)
    BY <1>2, <1>3 DEF Removals
  <1>7. t = "added" => Number(s, p) \in Removals(s) + 1 .. CountOf(s)
    BY <1>2, <1>3, CountIs, PositionsFinite
  <1>8. QED
    BY <1>5, <1>6, <1>7

\* The last number of a type is given.
LEMMA NumberLast ==
    ASSUME NEW s \in Sets, NEW t \in {"removed", "added"}, OfType(s, t) # {}
    PROVE  \E p \in OfType(s, t) : Number(s, p) = IF t = "removed" THEN Removals(s) ELSE CountOf(s)
  <1>1. PICK p \in OfType(s, t) : Rank(s, p) = Cardinality(OfType(s, t))
    BY RankLast
  <1>2. Elements[s][p].type = t
    BY DEF OfType
  <1>3. Number(s, p) = IF t = "removed" THEN Removals(s) ELSE CountOf(s)
    BY <1>1, <1>2, CountIs DEF Number, Removals
  <1>4. QED
    BY <1>3

----------------------------------------------------------------------------
(* The records. *)

LEMMA NewRecordsAre ==
    ASSUME NEW s \in Sets
    PROVE  /\ \A r : r \in NewRecords(s) <=> \E p \in Recorded(s) : r = RecordOf(s, p)
           /\ \A p \in Recorded(s) : RecordOf(s, p) \in NewRecords(s)
  BY Zenon DEF NewRecords, RecordOf

LEMMA RecordFields ==
    ASSUME NEW s \in Sets, NEW t \in {"removed", "added"}, NEW p \in OfType(s, t)
    PROVE  /\ p \in Recorded(s)
           /\ RecordOf(s, p).ts = s /\ RecordOf(s, p).pos = p
           /\ RecordOf(s, p).type = t /\ RecordOf(s, p).index = Number(s, p)
  BY DEF RecordOf, OfType, Recorded

LEMMA RecordedOne ==
    ASSUME NEW s \in Sets, NEW p \in Recorded(s)
    PROVE  \E t \in {"removed", "added"} : p \in OfType(s, t)
  BY DEF Recorded

\* A record that is kept is the record of a position of its set.
LEMMA KeptIs ==
    ASSUME PluginTypeOK, NEW r \in records
    PROVE  /\ r.ts \in Sets
           /\ \E t \in {"removed", "added"} : \E p \in OfType(r.ts, t) :
                 r = RecordOf(r.ts, p) /\ r.pos = p /\ r.type = t /\ r.index = Number(r.ts, p)
  <1>1. PICK s \in Sets : r \in NewRecords(s)
    BY DEF PluginTypeOK
  <1>2. PICK p \in Recorded(s) : r = RecordOf(s, p)
    BY <1>1, NewRecordsAre
  <1>3. PICK t \in {"removed", "added"} : p \in OfType(s, t)
    BY RecordedOne
  <1>4. r.ts = s /\ r.pos = p /\ r.type = t /\ r.index = Number(s, p)
    BY <1>2, <1>3, RecordFields
  <1>5. QED
    BY <1>2, <1>3, <1>4

----------------------------------------------------------------------------
(* The inductive invariant. *)

CallFields == {"ts", "type", "step", "todo"}

CallOK(c) ==
    /\ DOMAIN c = CallFields /\ c = [f \in CallFields |-> c[f]]
    /\ c.ts \in Sets /\ c.type \in {"removed", "added"} /\ c.step \in Steps

\* The hook in progress is the one of the phase of its set.
CallInPhase ==
    call # None => CallOK(call) /\ phase[call.ts] = IF call.type = "removed" THEN "pre" ELSE "post"

\* The records that remain of a type are those that follow the last announced.
Ahead(s, t) == \A p \in OfType(s, t) : RecordOf(s, p) \in records <=> Number(s, p) > last[s]

Over == {"done", "skipped", "refused"}

\* Completed for one set.
Complete(s) ==
    phase[s] = "done" /\ (OfType(s, "added") # {} \/ ~Silent(s)) => last[s] = CountOf(s)

InOrder(s) ==
    /\ phase[s] = "idle" => last[s] = 0 /\ dir[s] = "removed"
    /\ phase[s] \in {"idle"} \cup Over => Of(s) = {}
    /\ phase[s] = "pre" => Ahead(s, "removed")
    /\ phase[s] \in {"pre", "applying", "post"} => Ahead(s, "added")
    /\ phase[s] \in {"pre", "applying"} => last[s] <= Removals(s) /\ dir[s] = "removed"
    /\ phase[s] \in {"applying", "post"} /\ ~Silent(s) => Removals(s) <= last[s]
    /\ last[s] <= CountOf(s)
    /\ Complete(s)

IInv ==
    /\ PluginTypeOK
    /\ CallInPhase
    /\ \A s \in Sets : InOrder(s)

\* The fields of a call that changes its step or its lines.
LEMMA CallStep ==
    ASSUME NEW c, CallOK(c), NEW step \in Steps, NEW todo
    PROVE  /\ CallOK([c EXCEPT !.step = step])
           /\ CallOK([c EXCEPT !.todo = todo])
           /\ CallOK([c EXCEPT !.step = step, !.todo = todo])
           /\ [c EXCEPT !.step = step].ts = c.ts /\ [c EXCEPT !.step = step].type = c.type
           /\ [c EXCEPT !.todo = todo].ts = c.ts /\ [c EXCEPT !.todo = todo].type = c.type
           /\ [c EXCEPT !.step = step, !.todo = todo].ts = c.ts
           /\ [c EXCEPT !.step = step, !.todo = todo].type = c.type
  <1>1. /\ DOMAIN c = CallFields /\ c = [f \in CallFields |-> c[f]]
        /\ c.ts \in Sets /\ c.type \in {"removed", "added"} /\ c.step \in Steps
    BY DEF CallOK
  <1> DEFINE a == [c EXCEPT !.step = step]
             b == [c EXCEPT !.todo = todo]
             d == [c EXCEPT !.step = step, !.todo = todo]
  <1>2. /\ DOMAIN a = CallFields /\ a = [f \in CallFields |-> a[f]]
        /\ DOMAIN b = CallFields /\ b = [f \in CallFields |-> b[f]]
        /\ DOMAIN d = CallFields /\ d = [f \in CallFields |-> d[f]]
    BY <1>1
  <1>3. /\ a.ts = c.ts /\ a.type = c.type /\ a.step = step
        /\ b.ts = c.ts /\ b.type = c.type /\ b.step = c.step
        /\ d.ts = c.ts /\ d.type = c.type /\ d.step = step
    BY <1>1, Zenon DEF CallFields
  <1> HIDE DEF a, b, d
  <1>4. CallOK(a) /\ CallOK(b) /\ CallOK(d)
    BY <1>1, <1>2, <1>3, Zenon DEF CallOK
  <1>5. QED
    BY <1>3, <1>4 DEF a, b, d

\* A new call.
LEMMA CallNew ==
    ASSUME NEW s \in Sets, NEW t \in {"removed", "added"}
    PROVE  CallOK(CallOf(s, t)) /\ CallOf(s, t).ts = s /\ CallOf(s, t).type = t
  BY DEF CallOf, CallOK, CallFields, Steps

\* A step leaves the sets of which it changes nothing.
LEMMA OrderOthers ==
    ASSUME NEW s \in Sets, InOrder(s), phase'[s] = phase[s], flags'[s] = flags[s],
           last'[s] = last[s], dir'[s] = dir[s], \A r : r.ts = s => (r \in records' <=> r \in records)
    PROVE  InOrder(s)'
  <1>1. Of(s)' = Of(s)
    BY DEF Of
  <1>2. ASSUME NEW t \in {"removed", "added"}, Ahead(s, t)  PROVE Ahead(s, t)'
    <2>1. \A p \in OfType(s, t) : RecordOf(s, p).ts = s
      BY RecordFields
    <2>2. QED
      BY <1>2, <2>1 DEF Ahead
  <1>3. Silent(s)' <=> Silent(s)
    BY DEF Silent
  <1>4. QED
    BY <1>1, <1>2, <1>3 DEF InOrder, Complete

\* The first state.
LEMMA InitInv == PluginInit => IInv
  <1> SUFFICES ASSUME PluginInit  PROVE IInv
    OBVIOUS
  <1>1. PluginTypeOK
    BY PluginAssumption DEF PluginInit, PluginTypeOK
  <1>2. CallInPhase
    BY DEF PluginInit, CallInPhase
  <1>3. ASSUME NEW s \in Sets  PROVE InOrder(s)
    <2>1. phase[s] = "idle" /\ last[s] = 0 /\ dir[s] = "removed" /\ Of(s) = {}
      BY DEF PluginInit, Of
    <2>2. 0 <= CountOf(s)
      BY CountIs, PositionsFinite
    <2>3. QED
      BY <2>1, <2>2 DEF InOrder, Complete
  <1>4. QED
    BY <1>1, <1>2, <1>3 DEF IInv

----------------------------------------------------------------------------
(* The steps. *)

LEMMA FaultStep ==
    ASSUME PluginTypeOK, Fault \/ NoFault
    PROVE  faults' \in 0..MaxFaults
  BY PluginAssumption DEF PluginTypeOK, Fault, NoFault

\* The steps of the making of a message and of its exchange with the daemon leave
\* the records and what is announced.
LEMMA QuietStep ==
    ASSUME IInv, UNCHANGED <<phase, flags, records, last, dir>>,
           Fault \/ NoFault, answer' \in {"none", "OK", "ERROR", "closed"},
           \/ call' = call
           \/ call # None /\ CallOK(call') /\ call'.ts = call.ts /\ call'.type = call.type
    PROVE  IInv'
  <1>1. PluginTypeOK'
    <2>1. call' # None => CallOK(call')
      BY DEF IInv, CallInPhase
    <2>2. QED
      BY <2>1, FaultStep DEF IInv, PluginTypeOK, CallOK
  <1>2. CallInPhase'
    BY DEF IInv, CallInPhase
  <1>3. ASSUME NEW s \in Sets  PROVE InOrder(s)'
    BY <1>3, OrderOthers DEF IInv
  <1>4. QED
    BY <1>1, <1>2, <1>3 DEF IInv

LEMMA ExchangeStep ==
    ASSUME IInv, MakeMessage \/ DialFails \/ Send \/ Recv \/ Daemon \/ DaemonDies
    PROVE  IInv' /\ UNCHANGED <<phase, last, dir>>
  <1>0. call # None => CallOK(call)
    BY DEF IInv, CallInPhase
  <1>1. CASE MakeMessage
    <2>1. call # None /\ UNCHANGED <<phase, flags, records, last, dir, answer>>
      BY <1>1 DEF MakeMessage
    <2>2. PICK oom \in BOOLEAN, ok \in BOOLEAN :
             /\ call' = IF ok THEN [call EXCEPT !.todo = Tail(call.todo)]
                        ELSE [call EXCEPT !.step = "make", !.todo = <<>>]
             /\ IF oom THEN Fault ELSE NoFault
      <3>1. PICK oom \in BOOLEAN :
               /\ call' = IF PutKeyValNlMemo(client, Head(call.todo), oom).rc = "ok"
                          THEN [call EXCEPT !.todo = Tail(call.todo)]
                          ELSE [call EXCEPT !.step = "make", !.todo = <<>>]
               /\ IF oom THEN Fault ELSE NoFault
        BY <1>1, Zenon DEF MakeMessage
      <3>2. QED
        BY <3>1, Zenon
    <2>3. CallOK(call') /\ call'.ts = call.ts /\ call'.type = call.type
      <3>1. CASE ok
        <4>1. call' = [call EXCEPT !.todo = Tail(call.todo)]
          BY <2>2, <3>1
        <4>2. QED
          BY <1>0, <2>1, <4>1, CallStep DEF Steps
      <3>2. CASE ~ok
        <4>1. call' = [call EXCEPT !.step = "make", !.todo = <<>>]
          BY <2>2, <3>2
        <4>2. QED
          BY <1>0, <2>1, <4>1, CallStep DEF Steps
      <3>3. QED
        BY <3>1, <3>2
    <2>4. answer' \in {"none", "OK", "ERROR", "closed"} /\ (Fault \/ NoFault)
      BY <2>1, <2>2 DEF IInv, PluginTypeOK
    <2>5. QED
      BY <2>1, <2>3, <2>4, QuietStep
  <1>2. CASE DialFails \/ Send \/ Recv
    <2>1. call # None /\ UNCHANGED <<phase, flags, records, last, dir>>
      BY <1>2 DEF DialFails, Send, Recv, Dials
    <2>2. PICK step \in {"make", "recv"} : call' = [call EXCEPT !.step = step]
      BY <1>2, Zenon DEF DialFails, Send, Recv
    <2>3. CallOK(call') /\ call'.ts = call.ts /\ call'.type = call.type
      BY <1>0, <2>1, <2>2, CallStep DEF Steps
    <2>4. answer' \in {"none", "OK", "ERROR", "closed"} /\ (Fault \/ NoFault)
      BY <1>2 DEF DialFails, Send, Recv, IInv, PluginTypeOK
    <2>5. QED
      BY <2>1, <2>3, <2>4, QuietStep
  <1>3. CASE Daemon \/ DaemonDies
    <2>1. UNCHANGED <<phase, flags, records, last, dir, call>>
      BY <1>3 DEF Daemon, DaemonDies
    <2>2. answer' \in {"none", "OK", "ERROR", "closed"} /\ (Fault \/ NoFault)
      BY <1>3 DEF Daemon, DaemonDies
    <2>3. QED
      BY <2>1, <2>2, QuietStep
  <1>4. QED
    BY <1>1, <1>2, <1>3

\* tsm_pre_cb: the records of the set are all there and nothing is announced yet.
LEMMA TsmPreStep ==
    ASSUME IInv, NEW s \in Sets, TsmPre(s)
    PROVE  IInv'
  <1> DEFINE t == CallOf(s, "removed")
  <1>1. /\ phase[s] = "idle" /\ call = None /\ UNCHANGED <<flags, last, dir, answer, faults>>
        /\ records' = records \cup NewRecords(s)
    BY DEF TsmPre, NoFault
  <1>2. \/ phase' = [phase EXCEPT ![s] = "applying"] /\ call' = None /\ Silent(s)
        \/ phase' = [phase EXCEPT ![s] = "pre"] /\ call' = t
    BY DEF TsmPre
  <1>3. CallOK(t) /\ t.ts = s /\ t.type = "removed"
    BY CallNew
  <1> HIDE DEF t
  <1>4. PluginTypeOK'
    <2>1. records' \subseteq UNION {NewRecords(x) : x \in Sets}
      BY <1>1, Zenon DEF IInv, PluginTypeOK
    <2>2. phase' \in [Sets -> {"idle", "pre", "applying", "post", "done", "skipped", "refused"}]
      BY <1>2 DEF IInv, PluginTypeOK
    <2>3. call' # None => /\ call'.ts \in Sets /\ call'.type \in {"removed", "added"}
                          /\ call'.step \in Steps
      BY <1>2, <1>3 DEF CallOK
    <2>4. QED
      BY <1>1, <2>1, <2>2, <2>3 DEF IInv, PluginTypeOK
  <1>5. CallInPhase'
    <2>1. phase \in [Sets -> {"idle", "pre", "applying", "post", "done", "skipped", "refused"}]
      BY DEF IInv, PluginTypeOK
    <2>2. QED
      BY <1>2, <1>3, <2>1 DEF CallInPhase
  <1>6. \A r \in NewRecords(s) : r.ts = s
    <2>1. \A p \in Recorded(s) : RecordOf(s, p).ts = s
      BY RecordedOne, RecordFields
    <2>2. QED
      BY <2>1, NewRecordsAre
  <1>7. ASSUME NEW x \in Sets, x # s  PROVE InOrder(x)'
    <2>1. phase'[x] = phase[x]
      BY <1>2, <1>7 DEF IInv, PluginTypeOK
    <2>2. \A r : r.ts = x => (r \in records' <=> r \in records)
      BY <1>1, <1>6, <1>7
    <2>3. InOrder(x)
      BY DEF IInv
    <2>4. QED
      BY <1>1, <2>1, <2>2, <2>3, OrderOthers
  <1>8. InOrder(s)'
    <2>1. last[s] = 0 /\ dir[s] = "removed"
      BY <1>1 DEF IInv, InOrder
    <2>2. ASSUME NEW k \in {"removed", "added"}  PROVE Ahead(s, k)'
      <3>1. \A p \in OfType(s, k) : RecordOf(s, p) \in NewRecords(s)
        BY RecordFields, NewRecordsAre
      <3>2. \A p \in OfType(s, k) : Number(s, p) > 0
        BY NumberIs, CountIs
      <3>3. QED
        BY <1>1, <2>1, <3>1, <3>2 DEF Ahead
    <2>3. phase'[s] \in {"pre", "applying"} /\ (phase'[s] = "applying" => Silent(s)')
      BY <1>1, <1>2 DEF IInv, PluginTypeOK, Silent
    <2>4. 0 <= Removals(s) /\ 0 <= CountOf(s)
      BY CountIs, PositionsFinite
    <2>5. QED
      BY <1>1, <2>1, <2>2, <2>3, <2>4 DEF InOrder, Complete, Over
  <1>9. QED
    BY <1>4, <1>5, <1>7, <1>8 DEF IInv

\* The set whose phase changes when no package is announced: its records are kept
\* or are all dropped.
LEMMA PhaseStep ==
    ASSUME IInv, NEW s \in Sets, NEW ph \in {"applying", "post"} \cup Over,
           phase' = [phase EXCEPT ![s] = ph], UNCHANGED <<flags, last, dir, answer>>,
           records' = records \/ records' = records \ Of(s), Fault \/ NoFault,
           call' # None => CallOK(call') /\ call'.ts = s /\ call'.type = "added" /\ ph = "post",
           InOrder(s)'
    PROVE  IInv'
  <1>1. phase \in [Sets -> {"idle", "pre", "applying", "post", "done", "skipped", "refused"}]
    BY DEF IInv, PluginTypeOK
  <1>2. PluginTypeOK'
    <2>1. phase' \in [Sets -> {"idle", "pre", "applying", "post", "done", "skipped", "refused"}]
      BY <1>1 DEF Over
    <2>2. records' \subseteq UNION {NewRecords(x) : x \in Sets}
      BY Zenon DEF IInv, PluginTypeOK
    <2>3. QED
      BY <2>1, <2>2, FaultStep DEF IInv, PluginTypeOK, CallOK
  <1>3. CallInPhase'
    BY <1>1 DEF CallInPhase
  <1>4. ASSUME NEW x \in Sets, x # s  PROVE InOrder(x)'
    <2>1. phase'[x] = phase[x]
      BY <1>1, <1>4
    <2>2. \A r : r.ts = x => (r \in records' <=> r \in records)
      BY <1>4 DEF Of
    <2>3. InOrder(x)
      BY DEF IInv
    <2>4. QED
      BY <2>1, <2>2, <2>3, OrderOthers
  <1>5. QED
    BY <1>2, <1>3, <1>4 DEF IInv

\* A set that is over has no record.
LEMMA OverStep ==
    ASSUME IInv, NEW s \in Sets, phase'[s] \in Over, last' = last, records' = records \ Of(s), Complete(s)'
    PROVE  InOrder(s)'
  <1>1. Of(s)' = {}
    BY DEF Of
  <1>2. last'[s] <= CountOf(s)
    BY DEF IInv, InOrder
  <1>3. QED
    BY <1>1, <1>2 DEF InOrder, Over

LEMMA TsmPreFailsStep ==
    ASSUME IInv, NEW s \in Sets, TsmPreFails(s)
    PROVE  IInv'
  <1>1. /\ phase' = [phase EXCEPT ![s] = "refused"] /\ UNCHANGED <<flags, last, dir, answer>>
        /\ records' = records \ Of(s) /\ Fault /\ call' = None
    BY DEF TsmPreFails
  <1>2. phase'[s] = "refused"
    BY <1>1 DEF IInv, PluginTypeOK
  <1>3. InOrder(s)'
    BY <1>1, <1>2, OverStep DEF Complete, Over
  <1>4. QED
    BY <1>1, <1>3, PhaseStep DEF Over

\* tsm_post_cb: the additions follow, or the set is over.
LEMMA TsmPostStep ==
    ASSUME IInv, NEW s \in Sets, NEW res \in BOOLEAN, TsmPost(s, res)
    PROVE  IInv'
  <1>0. UNCHANGED <<flags, last, dir, answer>> /\ NoFault /\ phase[s] = "applying"
    BY DEF TsmPost
  <1>1. CASE phase' = [phase EXCEPT ![s] = "skipped"] /\ records' = records \ Of(s) /\ call' = None
    <2>1. phase'[s] = "skipped"
      BY <1>1 DEF IInv, PluginTypeOK
    <2>2. InOrder(s)'
      BY <1>0, <1>1, <2>1, OverStep DEF Complete, Over
    <2>3. QED
      BY <1>0, <1>1, <2>2, PhaseStep DEF Over
  <1>2. CASE phase' = [phase EXCEPT ![s] = "post"] /\ records' = records /\ call' = CallOf(s, "added")
    <2>1. phase'[s] = "post"
      BY <1>2 DEF IInv, PluginTypeOK
    <2>2. InOrder(s)'
      <3>1. InOrder(s)
        BY DEF IInv
      <3>2. Ahead(s, "added")'
        BY <1>0, <1>2, <3>1 DEF InOrder, Ahead
      <3>3. QED
        BY <1>0, <2>1, <3>1, <3>2 DEF InOrder, Complete, Over, Silent
    <2>3. CallOK(call') /\ call'.ts = s /\ call'.type = "added"
      BY <1>2, CallNew
    <2>4. QED
      BY <1>0, <1>2, <2>2, <2>3, PhaseStep DEF Over
  <1>3. QED
    BY <1>1, <1>2 DEF TsmPost

\* When no record of a type remains the last number of the type is announced.
LEMMA AllAnnounced ==
    ASSUME NEW s \in Sets, NEW t \in {"removed", "added"}, OfType(s, t) # {}, Ahead(s, t), Exhausted(s, t),
           last[s] \in Nat
    PROVE  (IF t = "removed" THEN Removals(s) ELSE CountOf(s)) <= last[s]
  <1>1. PICK p \in OfType(s, t) : Number(s, p) = IF t = "removed" THEN Removals(s) ELSE CountOf(s)
    BY NumberLast
  <1>2. RecordOf(s, p) \notin records
    BY RecordFields DEF Exhausted, Of
  <1>3. ~(Number(s, p) > last[s]) /\ Number(s, p) \in Nat
    BY <1>2, NumberIs DEF Ahead
  <1>4. QED
    BY <1>1, <1>3

LEMMA HookReturnsStep ==
    ASSUME IInv, HookReturns
    PROVE  IInv' /\ call.ts \in Sets
  <1> PICK s \in Sets : s = call.ts
    BY DEF HookReturns, IInv, CallInPhase, CallOK
  <1>0. /\ call # None /\ call.type \in {"removed", "added"}
        /\ phase[s] = IF call.type = "removed" THEN "pre" ELSE "post"
    BY DEF HookReturns, IInv, CallInPhase, CallOK
  <1>1. UNCHANGED <<flags, last, dir, answer>> /\ NoFault /\ Exhausted(s, call.type) /\ call' = None
    BY DEF HookReturns
  <1>2. InOrder(s) /\ last[s] \in Nat
    BY <1>0 DEF IInv, PluginTypeOK
  <1>3. CASE call.type = "removed"
    <2>1. phase' = [phase EXCEPT ![s] = "applying"] /\ records' = records /\ phase[s] = "pre"
      BY <1>0, <1>3 DEF HookReturns
    <2>2. phase'[s] = "applying"
      BY <1>0, <2>1 DEF IInv, PluginTypeOK
    <2>3. Removals(s) <= last[s]
      <3>1. CASE OfType(s, "removed") = {}
        BY <1>0, <1>2, <3>1, FS_EmptySet DEF Removals
      <3>2. CASE OfType(s, "removed") # {}
        <4>1. Ahead(s, "removed") /\ Exhausted(s, "removed")
          BY <1>1, <1>2, <1>3, <2>1 DEF InOrder
        <4>2. (IF "removed" = "removed" THEN Removals(s) ELSE CountOf(s)) <= last[s]
          BY <1>0, <1>2, <3>2, <4>1, AllAnnounced
        <4>3. QED
          BY <4>2
      <3>3. QED
        BY <3>1, <3>2
    <2>4. InOrder(s)'
      <3>1. Ahead(s, "added")'
        BY <1>1, <1>2, <2>1 DEF InOrder, Ahead
      <3>2. QED
        BY <1>1, <1>2, <2>1, <2>2, <2>3, <3>1 DEF InOrder, Complete, Over
    <2>5. QED
      BY <1>0, <1>1, <2>1, <2>4, PhaseStep
  <1>4. CASE call.type = "added"
    <2>1. phase' = [phase EXCEPT ![s] = "done"] /\ records' = records \ Of(s) /\ phase[s] = "post"
      BY <1>0, <1>4 DEF HookReturns
    <2>2. phase'[s] = "done"
      BY <1>0, <2>1 DEF IInv, PluginTypeOK
    <2>3. Complete(s)'
      <3>1. CASE OfType(s, "added") = {}
        <4>1. CountOf(s) = Removals(s)
          BY <1>0, <3>1, CountIs, FS_EmptySet
        <4>2. ~Silent(s) => Removals(s) <= last[s] /\ last[s] <= CountOf(s)
          BY <1>2, <2>1 DEF InOrder
        <4>3. ~Silent(s) => last[s] = CountOf(s)
          BY <1>0, <1>2, <4>1, <4>2, CountIs
        <4>4. QED
          BY <1>1, <3>1, <4>3 DEF Complete, Silent
      <3>2. CASE OfType(s, "added") # {}
        <4>1. Ahead(s, "added") /\ Exhausted(s, "added") /\ last[s] <= CountOf(s)
          BY <1>1, <1>2, <1>4, <2>1 DEF InOrder
        <4>2. (IF "added" = "removed" THEN Removals(s) ELSE CountOf(s)) <= last[s]
          BY <1>0, <1>2, <3>2, <4>1, AllAnnounced
        <4>3. CountOf(s) \in Nat
          BY <1>0, CountIs, PositionsFinite
        <4>4. last[s] = CountOf(s)
          BY <1>2, <4>1, <4>2, <4>3
        <4>5. QED
          BY <1>1, <4>4 DEF Complete
      <3>3. QED
        BY <3>1, <3>2
    <2>4. InOrder(s)'
      BY <1>0, <1>1, <2>1, <2>2, <2>3, OverStep DEF Over
    <2>5. QED
      BY <1>0, <1>1, <2>1, <2>4, PhaseStep DEF Over
  <1>5. QED
    BY <1>0, <1>3, <1>4

\* perform: the record that is visited is the next one.
LEMMA PerformIs ==
    ASSUME IInv, NEW r \in records, Perform(r)
    PROVE  \E s \in Sets, t \in {"removed", "added"} : \E p \in OfType(s, t) :
              /\ call # None /\ s = call.ts /\ t = call.type /\ r = RecordOf(s, p)
              /\ phase[s] = IF t = "removed" THEN "pre" ELSE "post"
              /\ \A q \in OfType(s, t) : RecordOf(s, q) \in records => q <= p
              /\ last' = [last EXCEPT ![s] = Number(s, p)] /\ dir' = [dir EXCEPT ![s] = t]
              /\ records' = records \ {r} /\ UNCHANGED <<phase, flags, answer, faults>>
  <1>1. call # None /\ IsNext(r, call.ts, call.type)
    BY DEF Perform
  <1>2. PICK s \in Sets, t \in {"removed", "added"} : s = call.ts /\ t = call.type
    BY <1>1 DEF IInv, CallInPhase, CallOK
  <1>3. r.ts = s /\ r.type = t /\ \A q \in Of(s) : q.type = t => q.pos <= r.pos
    BY <1>1, <1>2 DEF IsNext, Of
  <1>4. PICK p \in OfType(s, t) : r = RecordOf(s, p) /\ r.pos = p /\ r.index = Number(s, p)
    <2>1. \E k \in {"removed", "added"} : \E p \in OfType(r.ts, k) :
             r = RecordOf(r.ts, p) /\ r.pos = p /\ r.type = k /\ r.index = Number(r.ts, p)
      BY KeptIs DEF IInv
    <2>2. QED
      BY <1>3, <2>1
  <1>5. phase[s] = IF t = "removed" THEN "pre" ELSE "post"
    BY <1>1, <1>2 DEF IInv, CallInPhase
  <1>6. \A q \in OfType(s, t) : RecordOf(s, q) \in records => q <= p
    <2>1. \A q \in OfType(s, t) : RecordOf(s, q).ts = s /\ RecordOf(s, q).type = t /\ RecordOf(s, q).pos = q
      BY RecordFields
    <2>2. QED
      BY <1>3, <1>4, <2>1 DEF Of
  <1>7. /\ last' = [last EXCEPT ![s] = Number(s, p)] /\ dir' = [dir EXCEPT ![s] = t]
        /\ records' = records \ {r} /\ UNCHANGED <<phase, flags, answer, faults>>
    <2>1. /\ last' = [last EXCEPT ![r.ts] = r.index] /\ dir' = [dir EXCEPT ![r.ts] = r.type]
          /\ records' = records \ {r} /\ UNCHANGED <<phase, flags, answer, faults>>
      BY DEF Perform, Dropped, NoFault
    <2>2. QED
      BY <1>3, <1>4, <2>1
  <1>8. QED
    BY <1>1, <1>2, <1>4, <1>5, <1>6, <1>7

LEMMA PerformStep ==
    ASSUME IInv, NEW r \in records, Perform(r)
    PROVE  /\ IInv'
           /\ \E s \in Sets, t \in {"removed", "added"} : \E n \in Nat :
                 /\ phase[s] \in {"pre", "post"} /\ phase' = phase
                 /\ last[s] < n /\ n <= CountOf(s) /\ (t = "removed" => dir[s] = "removed")
                 /\ last' = [last EXCEPT ![s] = n] /\ dir' = [dir EXCEPT ![s] = t]
  <1>0. PICK s \in Sets, t \in {"removed", "added"} : \E p \in OfType(s, t) :
              /\ call # None /\ s = call.ts /\ t = call.type /\ r = RecordOf(s, p)
              /\ phase[s] = IF t = "removed" THEN "pre" ELSE "post"
              /\ \A q \in OfType(s, t) : RecordOf(s, q) \in records => q <= p
              /\ last' = [last EXCEPT ![s] = Number(s, p)] /\ dir' = [dir EXCEPT ![s] = t]
              /\ records' = records \ {r} /\ UNCHANGED <<phase, flags, answer, faults>>
    BY PerformIs, Zenon
  <1>1. PICK p \in OfType(s, t) :
              /\ call # None /\ s = call.ts /\ t = call.type /\ r = RecordOf(s, p)
              /\ phase[s] = IF t = "removed" THEN "pre" ELSE "post"
              /\ \A q \in OfType(s, t) : RecordOf(s, q) \in records => q <= p
              /\ last' = [last EXCEPT ![s] = Number(s, p)] /\ dir' = [dir EXCEPT ![s] = t]
              /\ records' = records \ {r} /\ UNCHANGED <<phase, flags, answer, faults>>
    BY <1>0, Zenon
  <1>2. InOrder(s) /\ last[s] \in Nat /\ last \in [Sets -> Nat] /\ dir \in [Sets -> {"removed", "added"}]
    BY DEF IInv, PluginTypeOK
  <1>3. Ahead(s, t) /\ (t = "removed" => dir[s] = "removed")
    BY <1>1, <1>2 DEF InOrder
  <1>4. /\ Number(s, p) \in Nat /\ last[s] < Number(s, p)
        /\ (t = "removed" => Number(s, p) <= Removals(s)) /\ (t = "added" => Removals(s) < Number(s, p))
        /\ Number(s, p) <= CountOf(s) /\ Removals(s) \in Nat /\ CountOf(s) \in Nat
    <2>1. /\ Number(s, p) \in Nat /\ Removals(s) \in Nat /\ CountOf(s) \in Nat /\ Removals(s) <= CountOf(s)
          /\ (t = "removed" => Number(s, p) \in 1..Removals(s))
          /\ (t = "added" => Number(s, p) \in Removals(s) + 1 .. CountOf(s))
      BY NumberIs, CountIs, PositionsFinite
    <2>2. Number(s, p) > last[s]
      BY <1>1, <1>3 DEF Ahead
    <2>3. QED
      BY <1>2, <2>1, <2>2
  <1>5. last'[s] = Number(s, p) /\ dir'[s] = t /\ last' \in [Sets -> Nat] /\ dir' \in [Sets -> {"removed", "added"}]
    BY <1>1, <1>2, <1>4
  <1>6. Ahead(s, t)'
    <2>1. SUFFICES ASSUME NEW q \in OfType(s, t)
                   PROVE  RecordOf(s, q) \in records' <=> Number(s, q) > last'[s]
      BY Zenon DEF Ahead
    <2>2. /\ q \in Nat /\ p \in Nat /\ Number(s, q) \in Nat
          /\ (q < p => Number(s, p) < Number(s, q))
      BY NumberIs, PositionsFinite
    <2>3. RecordOf(s, q) = r => q = p
      <3>1. RecordOf(s, q).pos = q /\ RecordOf(s, p).pos = p
        BY RecordFields
      <3>2. QED
        BY <1>1, <3>1
    <2>4. RecordOf(s, q) \in records <=> Number(s, q) > last[s]
      BY <1>3 DEF Ahead
    <2>5. ASSUME RecordOf(s, q) \in records'  PROVE Number(s, q) > last'[s]
      <3>1. q # p /\ q <= p
        BY <1>1, <2>5
      <3>2. QED
        BY <1>5, <2>2, <3>1
    <2>6. ASSUME Number(s, q) > last'[s]  PROVE RecordOf(s, q) \in records'
      <3>1. q # p /\ Number(s, q) > last[s]
        BY <1>2, <1>4, <1>5, <2>2, <2>6
      <3>2. QED
        BY <1>1, <2>3, <2>4, <3>1
    <2>7. QED
      BY <2>5, <2>6
  <1>7. t = "removed" => Ahead(s, "added")'
    <2>1. SUFFICES ASSUME t = "removed", NEW q \in OfType(s, "added")
                   PROVE  RecordOf(s, q) \in records' /\ Number(s, q) > last'[s]
      BY Zenon DEF Ahead
    <2>2. Ahead(s, "added") /\ last[s] <= Removals(s)
      BY <1>1, <1>2, <2>1 DEF InOrder
    <2>3. Number(s, q) \in Removals(s) + 1 .. CountOf(s)
      BY NumberIs
    <2>4. Number(s, q) > last'[s] /\ Number(s, q) > last[s]
      BY <1>2, <1>4, <1>5, <2>1, <2>2, <2>3
    <2>5. RecordOf(s, q) \in records
      BY <2>2, <2>4 DEF Ahead
    <2>6. RecordOf(s, q).type = "added" /\ RecordOf(s, p).type = t
      BY RecordFields
    <2>7. RecordOf(s, q) # r
      BY <1>1, <2>1, <2>6
    <2>8. QED
      BY <1>1, <2>4, <2>5, <2>7
  <1>8. InOrder(s)'
    <2>1. phase'[s] = (IF t = "removed" THEN "pre" ELSE "post") /\ flags'[s] = flags[s]
      BY <1>1
    <2>2. phase'[s] = "pre" => Ahead(s, "removed")' /\ t = "removed"
      BY <1>6, <2>1
    <2>3. Ahead(s, "added")'
      BY <1>6, <1>7
    <2>4. t = "added" /\ ~Silent(s)' => Removals(s) <= last'[s]
      BY <1>4, <1>5
    <2>5. last'[s] <= CountOf(s) /\ (t = "removed" => last'[s] <= Removals(s) /\ dir'[s] = "removed")
      BY <1>4, <1>5
    <2>6. QED
      BY <2>1, <2>2, <2>3, <2>4, <2>5 DEF InOrder, Complete, Over
  <1>9. ASSUME NEW x \in Sets, x # s  PROVE InOrder(x)'
    <2>1. r.ts = s
      BY <1>1, RecordFields
    <2>2. \A k : k.ts = x => (k \in records' <=> k \in records)
      BY <1>1, <1>9, <2>1
    <2>3. InOrder(x) /\ last'[x] = last[x] /\ dir'[x] = dir[x]
      BY <1>1, <1>2, <1>9 DEF IInv
    <2>4. QED
      BY <1>1, <2>2, <2>3, OrderOthers
  <1>10. CallOK(call') /\ call'.ts = call.ts /\ call'.type = call.type
    <2>1. PICK todo : call' = [call EXCEPT !.step = "put", !.todo = todo]
      BY Zenon DEF Perform
    <2>2. CallOK(call)
      BY <1>1 DEF IInv, CallInPhase
    <2>3. QED
      BY <2>1, <2>2, CallStep DEF Steps
  <1>11. CallInPhase'
    BY <1>1, <1>10 DEF CallInPhase
  <1>12. PluginTypeOK'
    <2>1. records' \subseteq UNION {NewRecords(x) : x \in Sets}
      BY <1>1, Zenon DEF IInv, PluginTypeOK
    <2>2. QED
      BY <1>1, <1>5, <1>10, <2>1 DEF IInv, PluginTypeOK, CallOK
  <1>13. IInv'
    BY <1>8, <1>9, <1>11, <1>12 DEF IInv
  <1>14. phase[s] \in {"pre", "post"}
    BY <1>1
  <1>15. QED
    BY <1>1, <1>3, <1>4, <1>13, <1>14

\* Every step preserves the invariant.
LEMMA NextInv ==
    ASSUME IInv, [PluginNext]_pluginVars
    PROVE  IInv'
  <1>1. CASE \E r \in records : Perform(r)
    BY <1>1, PerformStep
  <1>2. CASE MakeMessage \/ DialFails \/ Send \/ Recv \/ Daemon \/ DaemonDies
    BY <1>2, ExchangeStep
  <1>3. CASE HookReturns
    BY <1>3, HookReturnsStep
  <1>4. ASSUME NEW s \in Sets, TsmPre(s) \/ TsmPreFails(s) \/ \E res \in BOOLEAN : TsmPost(s, res)  PROVE IInv'
    BY <1>4, TsmPreStep, TsmPreFailsStep, TsmPostStep
  <1>5. CASE UNCHANGED pluginVars
    <2>1. UNCHANGED <<phase, flags, records, last, dir, call, answer>> /\ NoFault
      BY <1>5 DEF pluginVars, NoFault
    <2>2. answer' \in {"none", "OK", "ERROR", "closed"}
      BY <2>1 DEF IInv, PluginTypeOK
    <2>3. QED
      BY <2>1, <2>2, QuietStep
  <1>6. QED
    BY <1>1, <1>2, <1>3, <1>4, <1>5 DEF PluginNext, PerformNext, DaemonNext, RpmNext

LEMMA Invariance == PluginSafe => []IInv
  BY InitInv, NextInv, PTL DEF PluginSafe

\* The variables of the plugin keep their types, whatever the sets, their elements and
\* the failures (redpesk.c).
THEOREM PluginTypeCorrect == PluginSafe => []PluginTypeOK
  <1>1. IInv => PluginTypeOK
    BY DEF IInv
  <1>2. QED
    BY <1>1, Invariance, PTL

\* A set without failure nor special flag is announced up to its last package and no
\* record of a set that is over remains (tsm_post_cb).
THEOREM CompletedCorrect == PluginSafe => []Completed
  <1>1. IInv => Completed
    BY DEF IInv, InOrder, Complete, Completed, Over
  <1>2. QED
    BY <1>1, Invariance, PTL

----------------------------------------------------------------------------
(* The plugin implements RpmAnnounce. *)

StageOf(ph) ==
    IF ph = "idle" THEN "idle" ELSE IF ph \in Over THEN "closed" ELSE "open"

LEMMA StageIs ==
    ASSUME NEW s,
           phase[s] \in {"idle", "pre", "applying", "post", "done", "skipped", "refused"},
           phase'[s] \in {"idle", "pre", "applying", "post", "done", "skipped", "refused"}
    PROVE  Stage(s) = StageOf(phase[s]) /\ Stage(s)' = StageOf(phase'[s])
  <1>1. Stage(s) = StageOf(phase[s])
    <2>1. CASE phase[s] = "idle"
      BY <2>1, Zenon DEF Stage, StageOf
    <2>2. CASE phase[s] \in {"pre", "applying", "post"}
      <3>1. phase[s] # "idle" /\ phase[s] \notin Over
        BY <2>2 DEF Over
      <3>2. Stage(s) = "open"
        BY <2>2, <3>1, Zenon DEF Stage, Over
      <3>3. QED
        BY <3>1, <3>2 DEF StageOf
    <2>3. CASE phase[s] \in Over
      <3>1. phase[s] # "idle" /\ phase[s] \notin {"pre", "applying", "post"}
        BY <2>3 DEF Over
      <3>2. Stage(s) = "closed"
        BY <2>3, <3>1, Zenon DEF Stage, Over
      <3>3. QED
        BY <2>3, <3>1, <3>2 DEF StageOf
    <2>4. QED
      BY <2>1, <2>2, <2>3 DEF Over
  <1>2. Stage(s)' = StageOf(phase'[s])
    <2>1. CASE phase'[s] = "idle"
      BY <2>1, Zenon DEF Stage, StageOf
    <2>2. CASE phase'[s] \in {"pre", "applying", "post"}
      <3>1. phase'[s] # "idle" /\ phase'[s] \notin Over
        BY <2>2 DEF Over
      <3>2. Stage(s)' = "open"
        BY <2>2, <3>1, Zenon DEF Stage, Over
      <3>3. QED
        BY <3>1, <3>2 DEF StageOf
    <2>3. CASE phase'[s] \in Over
      <3>1. phase'[s] # "idle" /\ phase'[s] \notin {"pre", "applying", "post"}
        BY <2>3 DEF Over
      <3>2. Stage(s)' = "closed"
        BY <2>3, <3>1, Zenon DEF Stage, Over
      <3>3. QED
        BY <2>3, <3>1, <3>2 DEF StageOf
    <2>4. QED
      BY <2>1, <2>2, <2>3 DEF Over
  <1>3. QED
    BY <1>1, <1>2

\* The variable stage of RpmAnnounce.
Stages == [s \in Sets |-> Stage(s)]

LEMMA StagesStep ==
    ASSUME IInv, IInv'
    PROVE  /\ Stages = [s \in Sets |-> StageOf(phase[s])]
           /\ Stages' = [s \in Sets |-> StageOf(phase'[s])]
  <1>1. \A s \in Sets :
           /\ phase[s] \in {"idle", "pre", "applying", "post", "done", "skipped", "refused"}
           /\ phase'[s] \in {"idle", "pre", "applying", "post", "done", "skipped", "refused"}
    BY DEF IInv, PluginTypeOK
  <1>2. \A s \in Sets : Stage(s) = StageOf(phase[s]) /\ Stage(s)' = StageOf(phase'[s])
    BY <1>1, StageIs
  <1>3. QED
    BY <1>2, Zenon DEF Stages

\* The phase of set s changes and nothing is announced.
LEMMA StageStep ==
    ASSUME IInv, IInv', NEW s \in Sets, phase' = [phase EXCEPT ![s] = phase'[s]], last' = last, dir' = dir,
           \/ StageOf(phase'[s]) = StageOf(phase[s])
           \/ StageOf(phase[s]) = "idle" /\ StageOf(phase'[s]) = "open"
           \/ StageOf(phase[s]) \in {"idle", "open"} /\ StageOf(phase'[s]) = "closed"
    PROVE  [A!AnnounceNext]_A!announceVars
  <1> DEFINE stage == Stages
  <1>1. stage = [x \in Sets |-> StageOf(phase[x])] /\ stage' = [x \in Sets |-> StageOf(phase'[x])]
    BY StagesStep
  <1>2. \A x \in Sets : x # s => phase'[x] = phase[x]
    BY DEF IInv, PluginTypeOK
  <1> HIDE DEF stage
  <1>3. stage' = [stage EXCEPT ![s] = StageOf(phase'[s])] /\ stage[s] = StageOf(phase[s])
    BY <1>1, <1>2
  <1>4. CASE StageOf(phase'[s]) = StageOf(phase[s])
    <2>1. stage' = stage
      BY <1>1, <1>3, <1>4
    <2>2. QED
      BY <2>1 DEF A!announceVars, Stages, stage
  <1>5. CASE StageOf(phase[s]) = "idle" /\ StageOf(phase'[s]) = "open"
    <2>1. stage[s] = "idle" /\ stage' = [stage EXCEPT ![s] = "open"]
      BY <1>3, <1>5
    <2>2. A!Open(s)
      BY <2>1, Zenon DEF A!Open, Stages, stage
    <2>3. QED
      BY <2>2 DEF A!AnnounceNext
  <1>6. CASE StageOf(phase[s]) \in {"idle", "open"} /\ StageOf(phase'[s]) = "closed"
    <2>1. stage[s] \in {"idle", "open"} /\ stage' = [stage EXCEPT ![s] = "closed"]
      BY <1>3, <1>6
    <2>2. A!Close(s)
      BY <2>1, Zenon DEF A!Close, Stages, stage
    <2>3. QED
      BY <2>2 DEF A!AnnounceNext
  <1>7. QED
    BY <1>4, <1>5, <1>6

LEMMA AnnounceStep ==
    ASSUME IInv, [PluginNext]_pluginVars
    PROVE  [A!AnnounceNext]_A!announceVars
  <1>0. IInv' /\ phase \in [Sets -> {"idle", "pre", "applying", "post", "done", "skipped", "refused"}]
    BY NextInv DEF IInv, PluginTypeOK
  <1> USE DEF Over, StageOf
  <1>1. CASE \E r \in records : Perform(r)
    <2>1. PICK s \in Sets, t \in {"removed", "added"}, n \in Nat :
             /\ phase[s] \in {"pre", "post"} /\ phase' = phase
             /\ last[s] < n /\ n <= CountOf(s) /\ (t = "removed" => dir[s] = "removed")
             /\ last' = [last EXCEPT ![s] = n] /\ dir' = [dir EXCEPT ![s] = t]
      BY <1>1, PerformStep
    <2>2. Stages[s] = "open" /\ Stages' = Stages
      BY <1>0, <2>1, StagesStep
    <2>3. n \in last[s] + 1 .. CountOf(s) /\ t \in {dir[s], "added"}
      <3>1. last[s] \in Nat /\ CountOf(s) \in Nat /\ dir[s] \in {"removed", "added"}
        BY CountIs, PositionsFinite DEF IInv, PluginTypeOK
      <3>2. QED
        BY <2>1, <3>1
    <2>4. A!Announce(s)
      BY <2>1, <2>2, <2>3, Zenon DEF A!Announce, Stages
    <2>5. QED
      BY <2>4 DEF A!AnnounceNext
  <1>2. CASE UNCHANGED <<phase, last, dir>>
    <2>1. Stages' = Stages
      BY <1>0, <1>2, StagesStep
    <2>2. QED
      BY <1>2, <2>1 DEF A!announceVars, Stages
  <1>3. CASE MakeMessage \/ DialFails \/ Send \/ Recv \/ Daemon \/ DaemonDies
    BY <1>2, <1>3, ExchangeStep
  <1>4. CASE HookReturns
    <2>1. PICK s \in Sets : s = call.ts
      BY <1>4, HookReturnsStep
    <2>2. /\ phase[s] = (IF call.type = "removed" THEN "pre" ELSE "post")
          /\ phase' = [phase EXCEPT ![s] = IF call.type = "removed" THEN "applying" ELSE "done"]
          /\ last' = last /\ dir' = dir
      BY <1>4, <2>1 DEF HookReturns, IInv, CallInPhase
    <2>3. phase'[s] = IF call.type = "removed" THEN "applying" ELSE "done"
      BY <1>0, <2>2
    <2>4. QED
      BY <1>0, <2>2, <2>3, StageStep
  <1>5. ASSUME NEW s \in Sets, TsmPre(s) \/ TsmPreFails(s) \/ \E res \in BOOLEAN : TsmPost(s, res)
        PROVE  [A!AnnounceNext]_A!announceVars
    <2>1. PICK ph \in {"applying", "pre", "refused", "skipped", "post"} :
             /\ phase' = [phase EXCEPT ![s] = ph] /\ last' = last /\ dir' = dir
             /\ \/ phase[s] = "idle" /\ ph \in {"applying", "pre", "refused"}
                \/ phase[s] = "applying" /\ ph \in {"skipped", "post"}
      BY <1>5 DEF TsmPre, TsmPreFails, TsmPost
    <2>2. phase'[s] = ph
      BY <1>0, <2>1
    <2>3. QED
      BY <1>0, <2>1, <2>2, StageStep
  <1>6. QED
    BY <1>1, <1>2, <1>3, <1>4, <1>5 DEF PluginNext, PerformNext, DaemonNext, RpmNext, pluginVars

\* The plugin implements RpmAnnounce for any sets, elements, flags and number of failures:
\* the requests of a set are numbered in the order they are sent, no removal comes after
\* an addition (for_each_record, number_removes, number_adds, perform).
THEOREM AnnouncedCorrect == PluginSafe => Announced
  <1>1. PluginInit => A!AnnounceInit
    <2> SUFFICES ASSUME PluginInit  PROVE A!AnnounceInit
      OBVIOUS
    <2>1. \A s \in Sets : phase[s] = "idle"
      BY DEF PluginInit
    <2>2. \A s \in Sets : Stage(s) = "idle"
      BY <2>1, Zenon DEF Stage
    <2>3. [s \in Sets |-> Stage(s)] = [s \in Sets |-> "idle"]
      BY <2>2, Zenon
    <2>4. QED
      BY <2>3 DEF PluginInit, A!AnnounceInit
  <1>2. IInv /\ [PluginNext]_pluginVars => [A!AnnounceNext]_A!announceVars
    BY AnnounceStep
  <1>3. QED
    BY <1>1, <1>2, Invariance, PTL DEF PluginSafe, Announced, A!AnnounceSpec

----------------------------------------------------------------------------
(* The messages. *)

LEMMA OpIn ==
    ASSUME NEW t \in {"removed", "added"}, NEW test \in BOOLEAN
    PROVE  OpName(t, test) \in Values
  <1>1. CASE test = TRUE
    BY <1>1 DEF Values, OpName
  <1>2. CASE test = FALSE
    BY <1>2 DEF Values, OpName
  <1>3. QED
    BY <1>1, <1>2

LEMMA LineIn ==
    ASSUME NEW k \in Keys, NEW v \in Values, NEW n \in Nat
    PROVE  Line(k, v, n) \in LineSet
  BY DEF LineSet, Line

LEMMA LineIs ==
    ASSUME NEW k, NEW v, NEW n
    PROVE  Line(k, v, n)[1] = k /\ Line(k, v, n)[2] = v /\ Line(k, v, n)[3] = n
  BY DEF Line

\* A line without value.
LEMMA KeyIs ==
    ASSUME NEW k, NEW n
    PROVE  Line(k, "", n)[1] = k
  <1> DEFINE empty == ""
  <1> HIDE DEF empty
  <1>1. Line(k, empty, n)[1] = k
    BY LineIs
  <1>2. QED
    BY <1>1, Zenon DEF empty

LEMMA FiveLines ==
    ASSUME NEW S, NEW a \in S, NEW b \in S, NEW c \in S, NEW d \in S, NEW e \in S
    PROVE  /\ <<a, b, c, d, e>> \in Seq(S) /\ Len(<<a, b, c, d, e>>) = 5
           /\ <<a, b, c, d, e>>[1] = a /\ <<a, b, c, d, e>>[2] = b /\ <<a, b, c, d, e>>[3] = c
           /\ <<a, b, c, d, e>>[4] = d /\ <<a, b, c, d, e>>[5] = e
  OBVIOUS

\* m lines, and the m lines of a before the n lines of b.
IsLines(a, m) == m \in Nat /\ a \in Seq(LineSet) /\ Len(a) = m
Joins(c, a, m, b, n) ==
    /\ IsLines(c, m + n)
    /\ \A i \in 1..m : c[i] = a[i]
    /\ \A i \in 1..n : c[m + i] = b[i]

LEMMA ConcatIs ==
    ASSUME NEW a, NEW b, NEW m, NEW n, IsLines(a, m), IsLines(b, n)
    PROVE  Joins(a \o b, a, m, b, n)
  BY DEF IsLines, Joins

\* The parts of a request: its first lines, the transaction, the files, the end.
First(s, p, op) ==
    <<Line("BEGIN", op, 0), Line("PACKAGE", s, p),
      Line("INDEX", "", Number(s, p)), Line("COUNT", "", CountOf(s)), Line("ROOT", "", 0)>>
Trans == IF Transid THEN <<Line("TRANSID", "", 0)>> ELSE <<>>
Files(s, n) == [i \in 1..n |-> Line("FILE", s, i)]
End(op) == <<Line("END", op, 0)>>

\* The lines of the number and of the count.
IndexLine(s, p) == Line("INDEX", "", Number(s, p))
CountLine(s) == Line("COUNT", "", CountOf(s))

LEMMA LineNumbers ==
    ASSUME NEW s, NEW p
    PROVE  IndexLine(s, p)[3] = Number(s, p) /\ CountLine(s)[3] = CountOf(s)
  <1> DEFINE empty == ""
  <1>1. IndexLine(s, p) = Line("INDEX", empty, Number(s, p)) /\ CountLine(s) = Line("COUNT", empty, CountOf(s))
    BY Zenon DEF IndexLine, CountLine
  <1> HIDE DEF empty
  <1>2. QED
    BY <1>1, LineIs

NoMark(line) == line[1] \notin {"FILE", "END"}

LEMMA NoMarkIs ==
    ASSUME NEW k, k \notin {"FILE", "END"}, NEW v, NEW n
    PROVE  NoMark(Line(k, v, n))
  BY LineIs DEF NoMark

LEMMA FirstIs ==
    ASSUME NEW s \in Sets, NEW p \in Nat, NEW op \in Values, Number(s, p) \in Nat, CountOf(s) \in Nat
    PROVE  /\ First(s, p, op) \in Seq(LineSet) /\ Len(First(s, p, op)) = 5
           /\ First(s, p, op)[1][1] = "BEGIN" /\ First(s, p, op)[2] = Line("PACKAGE", s, p)
           /\ First(s, p, op)[3] = IndexLine(s, p)
           /\ First(s, p, op)[4] = CountLine(s) /\ First(s, p, op)[5][1] = "ROOT"
           /\ \A i \in 1..5 : NoMark(First(s, p, op)[i])
  <1> DEFINE l1 == Line("BEGIN", op, 0)
             l2 == Line("PACKAGE", s, p)
             l3 == IndexLine(s, p)
             l4 == CountLine(s)
             l5 == Line("ROOT", "", 0)
  <1>1. "" \in Values /\ s \in Values
    BY DEF Values
  <1>2. l1 \in LineSet /\ l2 \in LineSet /\ l3 \in LineSet /\ l4 \in LineSet /\ l5 \in LineSet
    BY <1>1, LineIn DEF Keys, IndexLine, CountLine
  <1>3. l1[1] = "BEGIN" /\ NoMark(l1) /\ l5[1] = "ROOT"
    <2>1. l1[1] = "BEGIN" /\ NoMark(l1)
      BY LineIs DEF NoMark
    <2>2. l5[1] = "ROOT"
      BY KeyIs, Zenon
    <2>3. QED
      BY <2>1, <2>2, Zenon
  <1>4. NoMark(l2) /\ NoMark(l3) /\ NoMark(l4) /\ NoMark(l5)
    BY NoMarkIs DEF IndexLine, CountLine
  <1>5. First(s, p, op) = <<l1, l2, l3, l4, l5>>
    BY Zenon DEF First, IndexLine, CountLine
  <1> HIDE DEF l1, l2, l3, l4, l5
  <1>6. /\ First(s, p, op) \in Seq(LineSet) /\ Len(First(s, p, op)) = 5
        /\ First(s, p, op)[1] = l1 /\ First(s, p, op)[2] = l2 /\ First(s, p, op)[3] = l3
        /\ First(s, p, op)[4] = l4 /\ First(s, p, op)[5] = l5
    BY <1>2, <1>5, FiveLines
  <1>7. \A i \in 1..5 : i \in {1, 2, 3, 4, 5}
    OBVIOUS
  <1>8. \A i \in 1..5 : NoMark(First(s, p, op)[i])
    BY <1>3, <1>4, <1>6, <1>7
  <1>9. QED
    BY <1>3, <1>6, <1>8 DEF l2, l3, l4

\* Number of lines before those of the files.
HeadLen == IF Transid THEN 6 ELSE 5

\* The whole request of position p of set s.
Message(s, p, test) == RequestLines(RecordOf(s, p), test)

FilesOf(s, p) == Elements[s][p].files

LEMMA TransIs ==
    /\ Trans \in Seq(LineSet) /\ HeadLen \in {5, 6} /\ Len(Trans) = HeadLen - 5
    /\ \A i \in 1..HeadLen - 5 : NoMark(Trans[i]) /\ Trans[i][1] = "TRANSID"
  <1> DEFINE l == Line("TRANSID", "", 0)
  <1>1. l \in LineSet
    BY LineIn DEF Keys, Values
  <1>2. NoMark(l) /\ l[1] = "TRANSID"
    <2>1. NoMark(l)
      BY NoMarkIs
    <2>2. l[1] = "TRANSID"
      BY KeyIs, Zenon
    <2>3. QED
      BY <2>1, <2>2, Zenon
  <1>3. Trans = IF Transid THEN <<l>> ELSE <<>>
    BY DEF Trans
  <1> HIDE DEF l
  <1>4. CASE Transid
    BY <1>1, <1>2, <1>3, <1>4 DEF HeadLen
  <1>5. CASE ~Transid
    BY <1>3, <1>5 DEF HeadLen
  <1>6. QED
    BY <1>4, <1>5

LEMMA FilesIs ==
    ASSUME NEW s \in Sets, NEW n \in Nat
    PROVE  Files(s, n) \in Seq(LineSet) /\ Len(Files(s, n)) = n /\ \A i \in 1..n : Files(s, n)[i] = Line("FILE", s, i)
  <1>1. \A i \in 1..n : i \in Nat
    OBVIOUS
  <1>2. s \in Values /\ "FILE" \in Keys
    BY DEF Values, Keys
  <1>3. \A i \in 1..n : Line("FILE", s, i) \in LineSet
    BY <1>1, <1>2, LineIn
  <1>4. QED
    BY <1>3 DEF Files

LEMMA EndIs ==
    ASSUME NEW op \in Values
    PROVE  End(op) \in Seq(LineSet) /\ Len(End(op)) = 1 /\ End(op)[1][1] = "END"
  <1> DEFINE l == Line("END", op, 0)
  <1>1. l \in LineSet
    BY LineIn DEF Keys
  <1>2. l[1] = "END"
    BY LineIs
  <1>3. End(op) = <<l>>
    BY DEF End
  <1> HIDE DEF l
  <1>4. QED
    BY <1>1, <1>2, <1>3

\* The lines of a request and their places.
MessageShape(s, p, M) ==
    /\ FilesOf(s, p) \in Nat
    /\ M \in Seq(LineSet)
    /\ Len(M) = HeadLen + FilesOf(s, p) + 1
    /\ M[1][1] = "BEGIN"
    /\ M[2] = Line("PACKAGE", s, p)
    /\ M[3] = IndexLine(s, p)
    /\ M[4] = CountLine(s)
    /\ M[5][1] = "ROOT"
    /\ HeadLen = 6 => M[6][1] = "TRANSID"
    /\ \A i \in 1..HeadLen : NoMark(M[i])
    /\ \A i \in 1..FilesOf(s, p) : M[HeadLen + i] = Line("FILE", s, i)
    /\ M[HeadLen + FilesOf(s, p) + 1][1] = "END"

LEMMA MessageIs ==
    ASSUME NEW s \in Sets, NEW t \in {"removed", "added"}, NEW p \in OfType(s, t), NEW test \in BOOLEAN
    PROVE  MessageShape(s, p, Message(s, p, test))
  <1> DEFINE op == OpName(t, test)
             f == FilesOf(s, p)
             first == First(s, p, op)
             files == Files(s, f)
             end == End(op)
  <1>1. p \in Nat /\ f \in Nat /\ op \in Values /\ Number(s, p) \in Nat /\ CountOf(s) \in Nat
    <2> DEFINE T == [type : Types, files : Nat]
    <2>1. p \in DOMAIN Elements[s] /\ p \in Nat
      BY PositionsFinite DEF OfType, Positions
    <2>2. Elements[s] \in Seq(T)
      BY ElementsAssumption
    <2>3. Elements[s][p] \in T
      <3> HIDE DEF T
      <3>1. QED
        BY <2>1, <2>2
    <2>4. f \in Nat
      BY <2>3 DEF FilesOf
    <2>5. op \in Values
      BY OpIn
    <2>6. Number(s, p) \in Nat /\ CountOf(s) \in Nat
      BY NumberIs, CountIs, PositionsFinite
    <2>7. QED
      BY <2>1, <2>4, <2>5, <2>6
  <1>2. Message(s, p, test) = first \o Trans \o files \o end
    <2>1. RecordOf(s, p).type = t /\ RecordOf(s, p).ts = s /\ RecordOf(s, p).pos = p
          /\ RecordOf(s, p).index = Number(s, p) /\ RecordOf(s, p).count = CountOf(s)
      BY RecordFields DEF RecordOf
    <2>2. QED
      BY <2>1, Zenon DEF Message, RequestLines, FilesOf, First, Trans, Files, End
  <1> HIDE DEF op, f
  <1>3. /\ first \in Seq(LineSet) /\ Len(first) = 5
        /\ first[1][1] = "BEGIN" /\ first[2] = Line("PACKAGE", s, p)
        /\ first[3] = IndexLine(s, p) /\ first[4] = CountLine(s) /\ first[5][1] = "ROOT"
        /\ \A i \in 1..5 : NoMark(first[i])
    BY <1>1, FirstIs
  <1>4. files \in Seq(LineSet) /\ Len(files) = f /\ \A i \in 1..f : files[i] = Line("FILE", s, i)
    BY <1>1, FilesIs
  <1>5. end \in Seq(LineSet) /\ Len(end) = 1 /\ end[1][1] = "END"
    BY <1>1, EndIs
  <1> HIDE DEF first, files, end
  <1> DEFINE head == first \o Trans
  <1>6. /\ head \in Seq(LineSet) /\ Len(head) = 5 + (HeadLen - 5)
        /\ \A i \in 1..5 : head[i] = first[i]
        /\ \A i \in 1..HeadLen - 5 : head[5 + i] = Trans[i]
    <2>0. HeadLen - 5 \in Nat
      BY TransIs
    <2>1. IsLines(first, 5) /\ IsLines(Trans, HeadLen - 5)
      <3>1. IsLines(first, 5)
        BY <1>3 DEF IsLines
      <3>2. IsLines(Trans, HeadLen - 5)
        BY <2>0, TransIs, Zenon DEF IsLines
      <3>3. QED
        BY <3>1, <3>2
    <2>2. Joins(head, first, 5, Trans, HeadLen - 5)
      BY <2>1, ConcatIs
    <2> HIDE DEF head
    <2>3. QED
      BY <2>2 DEF Joins, IsLines
  <1> HIDE DEF head
  <1>7. /\ head \in Seq(LineSet) /\ Len(head) = HeadLen /\ HeadLen \in {5, 6}
        /\ head[1] = first[1] /\ head[2] = first[2] /\ head[3] = first[3] /\ head[4] = first[4]
        /\ head[5] = first[5] /\ (HeadLen = 6 => head[6][1] = "TRANSID")
    BY <1>6, TransIs
  <1>8. \A i \in 1..HeadLen : NoMark(head[i])
    <2>1. SUFFICES ASSUME NEW i \in 1..HeadLen  PROVE NoMark(head[i])
      OBVIOUS
    <2>2. CASE i \in 1..5
      BY <1>3, <1>6, <2>2
    <2>3. CASE i \notin 1..5
      <3>1. i - 5 \in 1..HeadLen - 5 /\ 5 + (i - 5) = i
        BY <1>7, <2>1, <2>3
      <3>2. head[i] = Trans[i - 5]
        BY <1>6, <3>1
      <3>3. QED
        BY <3>1, <3>2, TransIs
    <2>4. QED
      BY <2>2, <2>3
  <1> DEFINE hf == head \o files
  <1>9. /\ hf \in Seq(LineSet) /\ Len(hf) = HeadLen + f
        /\ \A i \in 1..HeadLen : hf[i] = head[i]
        /\ \A i \in 1..f : hf[HeadLen + i] = files[i]
    <2>1. IsLines(head, HeadLen) /\ IsLines(files, f)
      BY <1>1, <1>4, <1>7 DEF IsLines
    <2>2. Joins(hf, head, HeadLen, files, f)
      BY <2>1, ConcatIs
    <2> HIDE DEF hf
    <2>3. QED
      BY <2>2 DEF Joins, IsLines
  <1> HIDE DEF hf
  <1> DEFINE M == hf \o end
  <1>10. /\ M \in Seq(LineSet) /\ Len(M) = HeadLen + f + 1
         /\ \A i \in 1..HeadLen + f : M[i] = hf[i]
         /\ M[HeadLen + f + 1] = end[1]
    <2>1. IsLines(hf, HeadLen + f) /\ IsLines(end, 1)
      BY <1>1, <1>5, <1>7, <1>9 DEF IsLines
    <2>2. Joins(M, hf, HeadLen + f, end, 1)
      BY <2>1, ConcatIs
    <2> HIDE DEF M
    <2>3. QED
      BY <2>2 DEF Joins, IsLines
  <1>11. Message(s, p, test) = M
    BY <1>2 DEF head, hf
  <1> HIDE DEF M
  <1>12. M[1] = head[1] /\ M[2] = head[2] /\ M[3] = head[3] /\ M[4] = head[4] /\ M[5] = head[5] /\ (HeadLen = 6 => M[6] = head[6])
    BY <1>1, <1>7, <1>9, <1>10
  <1>13. \A i \in 1..HeadLen : NoMark(M[i])
    BY <1>1, <1>7, <1>8, <1>9, <1>10
  <1>14. \A i \in 1..f : M[HeadLen + i] = Line("FILE", s, i)
    BY <1>1, <1>4, <1>7, <1>9, <1>10
  <1>15. MessageShape(s, p, M)
    BY <1>1, <1>3, <1>5, <1>7, <1>10, <1>12, <1>13, <1>14 DEF MessageShape, f
  <1>16. QED
    BY <1>11, <1>15

----------------------------------------------------------------------------
(* The client that makes a message. *)

ClientType ==
    [state : {"Started", "Ready"}, lines : Seq(LineSet), size : Nat, heap : BOOLEAN,
     memo : SUBSET MemoKeys, rc : {"ok", "error"}]

\* The lines once the buffer that does not come from the heap is grown.
Lost(lines) == [i \in 1..Len(lines) |-> Junk]

\* The lines of c with one more.
Adds(c, line, lines) == lines = Append(c.lines, line) \/ lines = Append(Lost(c.lines), line)

LEMMA LostIs ==
    ASSUME NEW lines \in Seq(LineSet)
    PROVE  Lost(lines) \in Seq(LineSet) /\ Len(Lost(lines)) = Len(lines) /\ \A i \in 1..Len(lines) : Lost(lines)[i] = Junk
  <1>1. Junk \in LineSet
    <2>1. Junk = Line("", "", 0)
      BY DEF Junk, Line
    <2>2. "" \in Keys /\ "" \in Values
      BY DEF Keys, Values
    <2>3. QED
      BY <2>1, <2>2, LineIn
  <1>2. Len(lines) \in Nat
    OBVIOUS
  <1>3. QED
    BY <1>1, <1>2 DEF Lost

LEMMA PutIs ==
    ASSUME NEW c \in ClientType, NEW line \in LineSet, NEW oom \in BOOLEAN
    PROVE  /\ PutKeyValNl(c, line, oom) \in ClientType /\ PutKeyValNl(c, line, oom).state = c.state
           /\ PutKeyValNl(c, line, oom).rc = "ok" =>
                 Adds(c, line, PutKeyValNl(c, line, oom).lines)
  <1> DEFINE grows == Len(c.lines) + 1 >= c.size
             lines == Append(IF grows THEN Moved(c) ELSE c.lines, line)
  <1>1. c.lines \in Seq(LineSet) /\ c.size \in Nat /\ c.heap \in BOOLEAN
    BY DEF ClientType
  <1>2. Moved(c) \in {c.lines, Lost(c.lines)}
    BY DEF Moved, Lost
  <1>3. Adds(c, line, lines) /\ lines \in Seq(LineSet)
    <2>1. (IF grows THEN Moved(c) ELSE c.lines) \in {c.lines, Lost(c.lines)}
      BY <1>2
    <2>2. Append(c.lines, line) \in Seq(LineSet) /\ Append(Lost(c.lines), line) \in Seq(LineSet)
      BY <1>1, LostIs
    <2>3. QED
      BY <2>1, <2>2 DEF Adds
  <1>4. CASE c.state # "Started" \/ (grows /\ oom)
    <2>1. PutKeyValNl(c, line, oom) = [c EXCEPT !.rc = "error"]
      BY <1>4, Zenon DEF PutKeyValNl
    <2>2. QED
      BY <2>1 DEF ClientType
  <1>5. CASE ~(c.state # "Started" \/ (grows /\ oom))
    <2> DEFINE size == IF grows THEN 2 * c.size ELSE c.size
               heap == c.heap \/ grows
    <2>1. PutKeyValNl(c, line, oom) = [c EXCEPT !.lines = lines, !.size = size, !.heap = heap]
      BY <1>5, Zenon DEF PutKeyValNl
    <2>2. size \in Nat /\ heap \in BOOLEAN
      BY <1>1
    <2> HIDE DEF size, heap, lines
    <2>3. [c EXCEPT !.lines = lines, !.size = size, !.heap = heap] \in ClientType
      BY <1>3, <2>2 DEF ClientType
    <2>4. /\ [c EXCEPT !.lines = lines, !.size = size, !.heap = heap].lines = lines
          /\ [c EXCEPT !.lines = lines, !.size = size, !.heap = heap].state = c.state
      BY DEF ClientType
    <2>5. QED
      BY <1>3, <2>1, <2>3, <2>4
  <1>6. QED
    BY <1>4, <1>5

LEMMA PutMemoIs ==
    ASSUME NEW c \in ClientType, NEW line \in LineSet, NEW oom \in BOOLEAN
    PROVE  /\ PutKeyValNlMemo(c, line, oom) \in ClientType /\ PutKeyValNlMemo(c, line, oom).state = c.state
           /\ PutKeyValNlMemo(c, line, oom).rc = "ok" =>
                 Adds(c, line, PutKeyValNlMemo(c, line, oom).lines)
  <1> DEFINE put == PutKeyValNl(c, line, oom)
  <1>1. put \in ClientType /\ put.state = c.state /\ (put.rc = "ok" => Adds(c, line, put.lines))
    BY PutIs
  <1>2. CASE line[1] \notin MemoKeys
    <2>1. PutKeyValNlMemo(c, line, oom) = put
      BY <1>2 DEF PutKeyValNlMemo
    <2>2. QED
      BY <1>1, <2>1
  <1>3. CASE line[1] \in MemoKeys /\ line[1] \in c.memo
    <2>1. PutKeyValNlMemo(c, line, oom) = [c EXCEPT !.rc = "error"]
      BY <1>3, Zenon DEF PutKeyValNlMemo
    <2>2. QED
      BY <2>1 DEF ClientType
  <1>4. CASE line[1] \in MemoKeys /\ line[1] \notin c.memo
    <2> DEFINE memo == IF put.rc = "ok" THEN put.memo \cup {line[1]} ELSE put.memo
    <2>1. PutKeyValNlMemo(c, line, oom) = [put EXCEPT !.memo = memo]
      BY <1>4, Zenon DEF PutKeyValNlMemo
    <2> HIDE DEF put
    <2>2. memo \in SUBSET MemoKeys
      BY <1>1, <1>4 DEF ClientType
    <2> HIDE DEF memo
    <2>3. /\ [put EXCEPT !.memo = memo] \in ClientType
          /\ [put EXCEPT !.memo = memo].rc = put.rc /\ [put EXCEPT !.memo = memo].lines = put.lines
          /\ [put EXCEPT !.memo = memo].state = put.state
      BY <1>1, <2>2 DEF ClientType
    <2>4. QED
      BY <1>1, <2>1, <2>3
  <1>5. QED
    BY <1>2, <1>3, <1>4

\* The requests, whole.
MessagesOf(s) == UNION {{Message(s, p, TRUE), Message(s, p, FALSE)} : p \in Recorded(s)}
Messages == UNION {MessagesOf(s) : s \in Sets}

\* m is the beginning of M.
CutOf(m, M) == m \in Seq(LineSet) /\ Len(m) \in 1..Len(M) /\ \A i \in 1..Len(m) : m[i] = M[i]

\* Client c makes M: the lines still to put are the last ones of M.  The lines
\* already put are the first ones of M unless the first one is lost.
Makes(c, todo, M) ==
    /\ c \in ClientType /\ c.rc = "ok"
    /\ todo \in Seq(LineSet)
    /\ Len(c.lines) + Len(todo) = Len(M)
    /\ \A i \in 1..Len(todo) : todo[i] = M[Len(c.lines) + i]
    /\ Len(c.lines) > 0 /\ c.lines[1][1] = "BEGIN" => \A i \in 1..Len(c.lines) : c.lines[i] = M[i]
    /\ c.state = "Ready" => todo = <<>>

\* What the daemon receives and takes for a request is the beginning of a message.
IsSent(m) ==
    /\ m \in Seq(LineSet) /\ Len(m) > 0
    /\ m[1][1] = "BEGIN" => \E M \in Messages : CutOf(m, M)

LEMMA MessagesAre ==
    ASSUME NEW M
    PROVE  M \in Messages <=> \E s \in Sets : \E p \in Recorded(s) : M = Message(s, p, TRUE) \/ M = Message(s, p, FALSE)
  <1>1. M \in Messages <=> \E s \in Sets : M \in MessagesOf(s)
    BY DEF Messages
  <1>2. \A s \in Sets : M \in MessagesOf(s) <=> \E p \in Recorded(s) : M \in {Message(s, p, TRUE), Message(s, p, FALSE)}
    BY DEF MessagesOf
  <1>3. QED
    BY <1>1, <1>2, Zenon

LEMMA MessagesShape ==
    ASSUME NEW M \in Messages
    PROVE  \E s \in Sets : \E t \in {"removed", "added"} : \E p \in OfType(s, t) : MessageShape(s, p, M)
  <1>1. PICK s \in Sets : \E p \in Recorded(s) : M = Message(s, p, TRUE) \/ M = Message(s, p, FALSE)
    BY MessagesAre
  <1>2. PICK p \in Recorded(s) : M = Message(s, p, TRUE) \/ M = Message(s, p, FALSE)
    BY <1>1
  <1>3. PICK t \in {"removed", "added"} : p \in OfType(s, t)
    BY RecordedOne
  <1>4. MessageShape(s, p, Message(s, p, TRUE)) /\ MessageShape(s, p, Message(s, p, FALSE))
    BY <1>3, MessageIs
  <1>5. QED
    BY <1>2, <1>3, <1>4

LEMMA MessagesLen ==
    ASSUME NEW M \in Messages
    PROVE  M \in Seq(LineSet) /\ Len(M) \in Nat /\ Len(M) > 0
  <1>1. PICK s \in Sets : \E t \in {"removed", "added"} : \E p \in OfType(s, t) : MessageShape(s, p, M)
    BY MessagesShape
  <1>2. PICK p : MessageShape(s, p, M)
    BY <1>1
  <1>3. M \in Seq(LineSet) /\ Len(M) = HeadLen + FilesOf(s, p) + 1 /\ FilesOf(s, p) \in Nat /\ HeadLen \in {5, 6}
    BY <1>2, TransIs DEF MessageShape
  <1>4. QED
    BY <1>3

\* A client of any state.
AnyClient ==
    [state : {"None", "Started", "Ready"}, lines : Seq(LineSet), size : Nat, heap : BOOLEAN,
     memo : SUBSET MemoKeys, rc : {"ok", "error"}]

LEMMA BeginOf ==
    ASSUME NEW c \in AnyClient
    PROVE  /\ ClientBegin(c) \in ClientType
           /\ ClientBegin(c).state = "Started" /\ ClientBegin(c).rc = c.rc /\ Len(ClientBegin(c).lines) = 0
  <1> DEFINE e == <<>>
             m == {}
  <1>1. e \in Seq(LineSet) /\ Len(e) = 0 /\ m \in SUBSET MemoKeys
    OBVIOUS
  <1>2. ClientBegin(c) = [c EXCEPT !.lines = e, !.state = "Started", !.memo = m]
    BY Zenon DEF ClientBegin
  <1> HIDE DEF e, m
  <1> DEFINE d == [c EXCEPT !.lines = e, !.state = "Started", !.memo = m]
  <1>3. d \in ClientType /\ d.state = "Started" /\ d.rc = c.rc /\ d.lines = e
    BY <1>1 DEF AnyClient, ClientType
  <1> HIDE DEF d
  <1>4. ClientBegin(c) = d
    BY <1>2 DEF d
  <1>5. QED
    BY <1>1, <1>3, <1>4

LEMMA MakesStart ==
    ASSUME NEW M \in Seq(LineSet)
    PROVE  Makes(ClientBegin(NewClient), M, M)
  <1> DEFINE c == ClientBegin(NewClient)
  <1>1. NewClient \in AnyClient /\ NewClient.rc = "ok"
    BY PluginAssumption DEF NewClient, AnyClient
  <1>2. c \in ClientType /\ c.state = "Started" /\ Len(c.lines) = 0 /\ c.rc = "ok"
    BY <1>1, BeginOf
  <1> HIDE DEF c
  <1>3. Len(c.lines) = 0 /\ Len(M) \in Nat
    BY <1>2
  <1>4. Makes(c, M, M)
    BY <1>2, <1>3 DEF Makes
  <1>5. QED
    BY <1>4 DEF c

LEMMA EndOf ==
    ASSUME NEW c \in ClientType
    PROVE  ClientEnd(c) \in ClientType /\ ClientEnd(c).rc = c.rc /\ ClientEnd(c).lines = c.lines
  BY DEF ClientType, ClientEnd

\* One more line.
LEMMA MakesLines ==
    ASSUME NEW M \in Seq(LineSet), NEW c, NEW todo, Makes(c, todo, M), todo # <<>>,
           NEW d \in ClientType, d.rc = "ok", Adds(c, Head(todo), d.lines), d.state = "Ready" => Tail(todo) = <<>>
    PROVE  Makes(d, Tail(todo), M)
  <1> DEFINE old == c.lines
             new == d.lines
  <1>1. /\ old \in Seq(LineSet) /\ new \in Seq(LineSet) /\ todo \in Seq(LineSet)
        /\ Len(old) + Len(todo) = Len(M) /\ Len(M) \in Nat
        /\ \A i \in 1..Len(todo) : todo[i] = M[Len(old) + i]
        /\ Len(old) > 0 /\ old[1][1] = "BEGIN" => \A i \in 1..Len(old) : old[i] = M[i]
    BY DEF Makes, ClientType
  <1>2. PICK kept \in Seq(LineSet) :
           /\ new = Append(kept, Head(todo)) /\ Len(kept) = Len(old)
           /\ kept = old \/ \A i \in 1..Len(old) : kept[i] = Junk
    <2>1. CASE new = Append(old, Head(todo))
      BY <1>1, <2>1
    <2>2. CASE new = Append(Lost(old), Head(todo))
      <3>1. Lost(old) \in Seq(LineSet) /\ Len(Lost(old)) = Len(old) /\ \A i \in 1..Len(old) : Lost(old)[i] = Junk
        BY <1>1, LostIs
      <3>2. QED
        BY <2>2, <3>1
    <2>3. QED
      BY <2>1, <2>2 DEF Adds
  <1> HIDE DEF old, new
  <1>3. /\ Tail(todo) \in Seq(LineSet) /\ Len(Tail(todo)) = Len(todo) - 1 /\ Len(todo) > 0
        /\ \A i \in 1..Len(Tail(todo)) : Tail(todo)[i] = todo[i + 1]
        /\ Head(todo) = todo[1]
    BY <1>1
  <1>4. /\ Len(new) = Len(old) + 1 /\ new[Len(old) + 1] = todo[1]
        /\ \A i \in 1..Len(old) : new[i] = kept[i]
    BY <1>1, <1>2, <1>3
  <1> HIDE <1>2
  <1>5. todo[1] = M[Len(old) + 1] /\ Len(old) \in Nat /\ Len(todo) \in Nat
    BY <1>1, <1>3
  <1>6. Len(new) + Len(Tail(todo)) = Len(M)
    BY <1>1, <1>3, <1>4, <1>5
  <1>7. \A i \in 1..Len(Tail(todo)) : Tail(todo)[i] = M[Len(new) + i]
    <2>1. SUFFICES ASSUME NEW i \in 1..Len(Tail(todo))  PROVE Tail(todo)[i] = M[Len(new) + i]
      OBVIOUS
    <2>2. i + 1 \in 1..Len(todo) /\ Len(old) + (i + 1) = Len(new) + i
      BY <1>3, <1>4, <1>5
    <2>3. todo[i + 1] = M[Len(old) + (i + 1)]
      BY <1>1, <2>2
    <2>4. QED
      BY <1>3, <2>2, <2>3
  <1>8. ASSUME new[1][1] = "BEGIN", NEW i \in 1..Len(new)  PROVE new[i] = M[i]
    <2>1. CASE i = Len(old) + 1
      BY <1>4, <1>5, <2>1
    <2>2. CASE i # Len(old) + 1
      <3>1. i \in 1..Len(old) /\ 1 \in 1..Len(old)
        BY <1>4, <1>5, <1>8, <2>2
      <3>2. new[1] = kept[1] /\ new[i] = kept[i]
        BY <1>4, <3>1
      <3>3. kept = old
        <4>1. Junk[1] # "BEGIN"
          BY DEF Junk
        <4>2. QED
          BY <1>2, <1>8, <3>1, <3>2, <4>1
      <3>4. QED
        BY <1>1, <1>8, <3>1, <3>2, <3>3
    <2>3. QED
      BY <2>1, <2>2
  <1>9. QED
    BY <1>3, <1>6, <1>7, <1>8 DEF Makes, new

LEMMA SentOf ==
    ASSUME NEW M \in Messages, NEW c, NEW todo, Makes(c, todo, M), c.state = "Ready"
    PROVE  IsSent(c.lines) /\ \A n \in 1..Len(c.lines) : IsSent(SubSeq(c.lines, 1, n))
  <1> DEFINE lines == c.lines
  <1>1. /\ lines \in Seq(LineSet) /\ Len(lines) + 0 = Len(M) /\ Len(M) \in Nat /\ Len(M) > 0
        /\ Len(lines) > 0 /\ lines[1][1] = "BEGIN" => \A i \in 1..Len(lines) : lines[i] = M[i]
    <2>1. Len(lines) + Len(todo) = Len(M) /\ todo = <<>> /\ lines \in Seq(LineSet)
      BY DEF Makes, ClientType
    <2>2. Len(todo) = 0
      BY <2>1
    <2>3. QED
      BY <2>1, <2>2, MessagesLen DEF Makes
  <1> HIDE DEF lines
  <1>2. Len(lines) \in Nat /\ Len(lines) = Len(M)
    BY <1>1
  <1>3. lines[1][1] = "BEGIN" => CutOf(lines, M)
    BY <1>1, <1>2 DEF CutOf
  <1>4. ASSUME NEW n \in 1..Len(lines)  PROVE IsSent(SubSeq(lines, 1, n))
    <2> DEFINE m == SubSeq(lines, 1, n)
    <2>1. m \in Seq(LineSet) /\ Len(m) = n /\ \A i \in 1..n : m[i] = lines[i]
      BY <1>1, <1>2
    <2> HIDE DEF m
    <2>2. n \in 1..Len(M) /\ 1 \in 1..n /\ \A i \in 1..n : i \in 1..Len(lines)
      BY <1>2
    <2>3. m[1][1] = "BEGIN" => CutOf(m, M)
      BY <1>1, <1>2, <2>1, <2>2 DEF CutOf
    <2>4. IsSent(m)
      BY <2>1, <2>2, <2>3 DEF IsSent
    <2>5. QED
      BY <2>4 DEF m
  <1>5. IsSent(lines)
    BY <1>1, <1>2, <1>3 DEF IsSent
  <1>6. QED
    BY <1>4, <1>5 DEF lines

----------------------------------------------------------------------------
(* The messages, step by step. *)

Making == call # None /\ call.step = "put" => \E M \in Messages : Makes(client, call.todo, M)
Receiving == sent # None => IsSent(sent)
Applying == \A m \in applied : \E M \in Messages : CutOf(m, M)

MessageInv == Making /\ Receiving /\ Applying

\* The other fields of a call that changes its step or its lines.
LEMMA CallParts ==
    ASSUME NEW c, CallOK(c), NEW step, NEW todo
    PROVE  /\ [c EXCEPT !.step = step].step = step
           /\ [c EXCEPT !.todo = todo].todo = todo
           /\ [c EXCEPT !.step = step, !.todo = todo].todo = todo
           /\ [c EXCEPT !.step = step, !.todo = todo].step = step
  BY Zenon DEF CallOK, CallFields

\* The message of the record that is visited.
LEMMA MakingPerform ==
    ASSUME IInv, MessageInv, NEW r \in records, Perform(r)
    PROVE  MessageInv'
  <1>1. PICK s \in Sets, t \in {"removed", "added"} : \E p \in OfType(s, t) : call # None /\ r = RecordOf(s, p)
    BY PerformIs
  <1>2. PICK p \in OfType(s, t) : call # None /\ r = RecordOf(s, p)
    BY <1>1
  <1> DEFINE M == RequestLines(r, "test" \in flags[r.ts])
  <1>3. M \in Messages
    <2>1. p \in Recorded(s)
      BY RecordFields
    <2>2. CASE "test" \in flags[r.ts]
      <3>1. M = Message(s, p, TRUE)
        BY <1>2, <2>2 DEF Message
      <3>2. QED
        BY <2>1, <3>1, MessagesAre
    <2>3. CASE "test" \notin flags[r.ts]
      <3>1. M = Message(s, p, FALSE)
        <4>1. ("test" \in flags[r.ts]) = FALSE
          BY <2>3
        <4>2. QED
          BY <1>2, <4>1, Zenon DEF Message
      <3>2. QED
        BY <2>1, <3>1, MessagesAre
    <2>4. QED
      BY <2>2, <2>3
  <1>4. /\ client' = ClientBegin(NewClient) /\ call' = [call EXCEPT !.step = "put", !.todo = M]
        /\ UNCHANGED <<sent, applied>>
    BY Zenon DEF Perform
  <1> HIDE DEF M
  <1>5. call'.todo = M
    BY <1>2, <1>4, CallParts DEF IInv, CallInPhase
  <1>6. Makes(client', call'.todo, M)
    BY <1>3, <1>4, <1>5, MakesStart, MessagesLen
  <1>7. QED
    BY <1>3, <1>4, <1>6 DEF MessageInv, Making, Receiving, Applying

LEMMA MakingStep ==
    ASSUME IInv, MessageInv, MakeMessage
    PROVE  MessageInv'
  <1>1. call # None /\ call.step = "put" /\ call.todo # <<>> /\ CallOK(call) /\ UNCHANGED <<sent, applied>>
    BY DEF MakeMessage, IInv, CallInPhase
  <1>2. PICK M \in Messages : Makes(client, call.todo, M)
    BY <1>1 DEF MessageInv, Making
  <1> DEFINE rest == Tail(call.todo)
  <1>3. PICK oom \in BOOLEAN :
           /\ client' = IF rest = <<>> THEN ClientEnd(PutKeyValNlMemo(client, Head(call.todo), oom))
                        ELSE PutKeyValNlMemo(client, Head(call.todo), oom)
           /\ call' = IF PutKeyValNlMemo(client, Head(call.todo), oom).rc = "ok" THEN [call EXCEPT !.todo = rest]
                      ELSE [call EXCEPT !.step = "make", !.todo = <<>>]
    BY Zenon DEF MakeMessage
  <1> DEFINE put == PutKeyValNlMemo(client, Head(call.todo), oom)
  <1>4. client \in ClientType /\ Head(call.todo) \in LineSet /\ client.state # "Ready"
    BY <1>1, <1>2 DEF Makes
  <1>5. put \in ClientType /\ put.state = client.state /\ (put.rc = "ok" => Adds(client, Head(call.todo), put.lines))
    BY <1>4, PutMemoIs
  <1>6. CASE put.rc = "ok"
    <2>1. call' = [call EXCEPT !.todo = rest]
      BY <1>3, <1>6
    <2>2. call'.todo = rest
      BY <1>1, <2>1, CallParts
    <2>3. client' = IF rest = <<>> THEN ClientEnd(put) ELSE put
      BY <1>3
    <2> HIDE DEF put
    <2>4. /\ client' \in ClientType /\ client'.rc = "ok" /\ Adds(client, Head(call.todo), client'.lines)
          /\ client'.state = "Ready" => rest = <<>>
      <3>1. ClientEnd(put) \in ClientType /\ ClientEnd(put).rc = put.rc /\ ClientEnd(put).lines = put.lines
        BY <1>5, EndOf
      <3>2. CASE rest = <<>>
        BY <1>5, <1>6, <2>3, <3>1, <3>2
      <3>3. CASE rest # <<>>
        BY <1>4, <1>5, <1>6, <2>3, <3>3
      <3>4. QED
        BY <3>2, <3>3
    <2>5. Makes(client', rest, M)
      BY <1>1, <1>2, <2>4, MakesLines, MessagesLen
    <2>6. QED
      BY <1>1, <2>2, <2>5 DEF MessageInv, Making, Receiving, Applying
  <1>7. CASE put.rc # "ok"
    <2>1. call' = [call EXCEPT !.step = "make", !.todo = <<>>]
      BY <1>3, <1>7
    <2>2. call'.step = "make"
      BY <1>1, <2>1, CallParts
    <2>3. QED
      BY <1>1, <2>2 DEF MessageInv, Making, Receiving, Applying
  <1>8. QED
    BY <1>6, <1>7

LEMMA MessageStep ==
    ASSUME IInv, MessageInv, [PluginNext]_pluginVars
    PROVE  MessageInv'
  <1> USE DEF MessageInv, Receiving, Applying
  <1>0. call # None => CallOK(call)
    BY DEF IInv, CallInPhase
  <1>1. CASE DialFails \/ Recv
    <2>1. call # None /\ UNCHANGED <<sent, applied>> /\ call' = [call EXCEPT !.step = "make"]
      BY <1>1 DEF DialFails, Recv, Dials
    <2>2. call'.step = "make"
      BY <1>0, <2>1, CallParts
    <2>3. QED
      BY <2>1, <2>2 DEF Making
  <1>2. CASE Send
    <2>1. /\ call # None /\ call.step = "put" /\ client.state = "Ready" /\ UNCHANGED applied
          /\ call' = [call EXCEPT !.step = "recv"]
          /\ sent' = client.lines \/ \E n \in 1..Len(client.lines) - 1 : sent' = SubSeq(client.lines, 1, n)
      BY <1>2 DEF Send, Dials
    <2>2. call'.step = "recv"
      BY <1>0, <2>1, CallParts
    <2>3. PICK M \in Messages : Makes(client, call.todo, M)
      BY <2>1 DEF Making
    <2>4. IsSent(sent')
      <3>1. IsSent(client.lines) /\ \A n \in 1..Len(client.lines) : IsSent(SubSeq(client.lines, 1, n))
        BY <2>1, <2>3, SentOf
      <3>2. \A n \in 1..Len(client.lines) - 1 : n \in 1..Len(client.lines)
        <4>1. Len(client.lines) \in Nat
          BY <2>3 DEF Makes, ClientType
        <4>2. QED
          BY <4>1
      <3>3. QED
        BY <2>1, <3>1, <3>2
    <2>5. QED
      BY <2>1, <2>2, <2>4 DEF Making
  <1>3. CASE Daemon \/ DaemonDies
    <2>1. UNCHANGED <<call, client>> /\ sent # None /\ sent' = None
      BY <1>3 DEF Daemon, DaemonDies
    <2>2. applied' = applied \/ (applied' = applied \cup {sent} /\ sent[1][1] = "BEGIN")
      BY <1>3 DEF Daemon, DaemonDies
    <2>3. Applying'
      BY <2>1, <2>2 DEF IsSent
    <2>4. QED
      BY <2>1, <2>3 DEF Making
  <1>4. CASE HookReturns \/ \E s \in Sets : TsmPre(s) \/ TsmPreFails(s) \/ \E res \in BOOLEAN : TsmPost(s, res)
    <2>1. UNCHANGED <<client, sent, applied>>
      BY <1>4 DEF HookReturns, TsmPre, TsmPreFails, TsmPost
    <2>2. call' \in {None, call} \/ \E s \in Sets, t \in {"removed", "added"} : call' = CallOf(s, t)
      BY <1>4 DEF HookReturns, TsmPre, TsmPreFails, TsmPost
    <2>3. \A s, t : CallOf(s, t).step = "make"
      BY DEF CallOf
    <2>4. Making'
      BY <2>1, <2>2, <2>3 DEF Making
    <2>5. QED
      BY <2>1, <2>4
  <1>5. CASE UNCHANGED pluginVars
    BY <1>5 DEF pluginVars, Making
  <1>6. QED
    BY <1>1, <1>2, <1>3, <1>4, <1>5, MakingPerform, MakingStep DEF PluginNext, PerformNext, DaemonNext, RpmNext

LEMMA MessageInvariance == PluginSafe => [](IInv /\ MessageInv)
  <1>1. PluginInit => MessageInv
    BY DEF PluginInit, MessageInv, Making, Receiving, Applying
  <1>2. IInv /\ MessageInv /\ [PluginNext]_pluginVars => MessageInv'
    BY MessageStep
  <1>3. QED
    BY <1>1, <1>2, Invariance, PTL DEF PluginSafe

----------------------------------------------------------------------------
(* What the requests say. *)

\* The file lines of the beginning of a message.
LEMMA FilesTo ==
    ASSUME NEW s \in Sets, NEW p, NEW M, MessageShape(s, p, M), NEW m, CutOf(m, M), NEW i \in 1..Len(m)
    PROVE  Cardinality({j \in 1..i : m[j][1] = "FILE"}) =
              IF i <= HeadLen THEN 0 ELSE IF i <= HeadLen + FilesOf(s, p) THEN i - HeadLen ELSE FilesOf(s, p)
  <1> DEFINE f == FilesOf(s, p)
             F == {j \in 1..i : m[j][1] = "FILE"}
             top == IF i <= HeadLen + f THEN i ELSE HeadLen + f
  <1>1. f \in Nat /\ HeadLen \in {5, 6} /\ Len(M) = HeadLen + f + 1 /\ Len(m) \in Nat /\ i \in Nat /\ i <= Len(M)
    BY TransIs DEF MessageShape, CutOf
  <1>2. \A j \in 1..i : m[j] = M[j]
    BY <1>1 DEF CutOf
  <1>3. \A j \in 1..HeadLen : M[j][1] # "FILE"
    BY DEF MessageShape, NoMark
  <1>4. \A j \in HeadLen + 1 .. HeadLen + f : M[j][1] = "FILE"
    <2>1. SUFFICES ASSUME NEW j \in HeadLen + 1 .. HeadLen + f  PROVE M[j][1] = "FILE"
      OBVIOUS
    <2>2. j - HeadLen \in 1..f /\ HeadLen + (j - HeadLen) = j
      BY <1>1
    <2>3. M[j] = Line("FILE", s, j - HeadLen)
      BY <2>2 DEF MessageShape
    <2>4. QED
      BY <2>3, LineIs
  <1>5. M[HeadLen + f + 1][1] # "FILE"
    BY DEF MessageShape
  <1> HIDE DEF f
  <1>6. F = HeadLen + 1 .. top
    <2>1. \A j : j \in F <=> j \in HeadLen + 1 .. top
      BY <1>1, <1>2, <1>3, <1>4, <1>5
    <2>2. QED
      BY <2>1
  <1>7. Cardinality(F) = IF HeadLen + 1 > top THEN 0 ELSE top - (HeadLen + 1) + 1
    <2>1. HeadLen + 1 \in Int /\ top \in Int
      BY <1>1
    <2> HIDE DEF top
    <2>2. QED
      BY <1>6, <2>1, FS_Interval
  <1>8. Cardinality(F) = IF i <= HeadLen THEN 0 ELSE IF i <= HeadLen + f THEN i - HeadLen ELSE f
    <2> HIDE DEF F
    <2>1. QED
      BY <1>1, <1>7
  <1>9. QED
    BY <1>8 DEF f

\* A request and its package.
Describes(m, s, p) ==
    /\ \A i \in DOMAIN m : m[i][1] = "FILE" => m[i] = Line("FILE", s, Cardinality({j \in 1..i : m[j][1] = "FILE"})) /\ i > 5
    /\ m[Len(m)][1] = "END" => Len(m) > 5 /\ Cardinality({j \in 1..Len(m) : m[j][1] = "FILE"}) = FilesOf(s, p)
    /\ Len(m) > 1 => m[2] = Line("PACKAGE", s, p)
    /\ Len(m) > 2 => m[3] = IndexLine(s, p)
    /\ Len(m) > 3 => m[4] = CountLine(s)
    /\ Len(m) \in Nat

LEMMA RequestDescribes ==
    ASSUME NEW m, NEW M \in Messages, CutOf(m, M)
    PROVE  \E s \in Sets, t \in {"removed", "added"} : \E p \in OfType(s, t) : Describes(m, s, p)
  <1>1. PICK s \in Sets, t \in {"removed", "added"} : \E p \in OfType(s, t) : MessageShape(s, p, M)
    BY MessagesShape
  <1>2. PICK p \in OfType(s, t) : MessageShape(s, p, M)
    BY <1>1
  <1> DEFINE f == FilesOf(s, p)
             n(i) == Cardinality({j \in 1..i : m[j][1] = "FILE"})
  <1>3. \A i \in 1..Len(m) :
           n(i) = IF i <= HeadLen THEN 0 ELSE IF i <= HeadLen + f THEN i - HeadLen ELSE f
    BY <1>2, FilesTo
  <1>4. /\ f \in Nat /\ HeadLen \in {5, 6} /\ Len(M) = HeadLen + f + 1 /\ Len(m) \in 1..Len(M)
        /\ \A i \in 1..Len(m) : m[i] = M[i]
        /\ DOMAIN m = 1..Len(m)
        /\ M[2] = Line("PACKAGE", s, p) /\ M[3] = IndexLine(s, p) /\ M[4] = CountLine(s)
        /\ \A i \in 1..HeadLen : M[i][1] # "FILE" /\ M[i][1] # "END"
        /\ \A i \in 1..f : M[HeadLen + i] = Line("FILE", s, i)
        /\ M[HeadLen + f + 1][1] = "END"
    BY <1>2, TransIs DEF MessageShape, CutOf, NoMark
  <1> HIDE DEF f, n
  <1>5. ASSUME NEW i \in 1..Len(m), m[i][1] = "FILE"  PROVE m[i] = Line("FILE", s, n(i)) /\ i > 5
    <2>1. i \in Nat /\ i > HeadLen /\ i <= HeadLen + f
      BY <1>4, <1>5
    <2>2. i - HeadLen \in 1..f /\ HeadLen + (i - HeadLen) = i /\ n(i) = i - HeadLen
      BY <1>3, <1>4, <1>5, <2>1
    <2>3. QED
      BY <1>4, <1>5, <2>1, <2>2
  <1>6. ASSUME m[Len(m)][1] = "END"  PROVE Len(m) > 5 /\ n(Len(m)) = f
    <2>1. Len(m) \in Nat /\ Len(m) \in 1..Len(m)
      BY <1>4
    <2>2. Len(m) > HeadLen
      BY <1>4, <1>6, <2>1
    <2>3. ~(Len(m) <= HeadLen + f)
      <3>1. SUFFICES ASSUME Len(m) <= HeadLen + f  PROVE FALSE
        OBVIOUS
      <3>2. Len(m) - HeadLen \in 1..f /\ HeadLen + (Len(m) - HeadLen) = Len(m)
        BY <1>4, <2>1, <2>2, <3>1
      <3>3. m[Len(m)] = Line("FILE", s, Len(m) - HeadLen)
        BY <1>4, <2>1, <3>2
      <3>4. QED
        BY <1>6, <3>3, LineIs
    <2>4. QED
      BY <1>3, <1>4, <2>1, <2>2, <2>3
  <1>7. Len(m) \in Nat /\ (Len(m) > 1 => m[2] = M[2]) /\ (Len(m) > 2 => m[3] = M[3]) /\ (Len(m) > 3 => m[4] = M[4])
    BY <1>4
  <1>8. Describes(m, s, p)
    BY <1>4, <1>5, <1>6, <1>7 DEF Describes, n, f
  <1>9. QED
    BY <1>8

\* Two packages of a set have two numbers.
LEMMA NumberOne ==
    ASSUME NEW s \in Sets, NEW t \in {"removed", "added"}, NEW p \in OfType(s, t),
           NEW u \in {"removed", "added"}, NEW q \in OfType(s, u), Number(s, p) = Number(s, q)
    PROVE  p = q
  <1>1. Removals(s) \in Nat /\ p \in Nat /\ q \in Nat
    BY CountIs, PositionsFinite
  <1>2. CASE t = u
    <2>1. /\ Number(s, p) \in Nat /\ Number(s, q) \in Nat
          /\ q < p => Number(s, p) < Number(s, q)
          /\ p < q => Number(s, q) < Number(s, p)
      BY <1>2, NumberIs
    <2>2. QED
      BY <1>1, <2>1
  <1>3. CASE t # u
    <2>1. /\ Number(s, p) \in Nat
          /\ t = "removed" => Number(s, p) \in 1..Removals(s)
          /\ t = "added" => Number(s, p) \in Removals(s) + 1 .. CountOf(s)
          /\ u = "removed" => Number(s, q) \in 1..Removals(s)
          /\ u = "added" => Number(s, q) \in Removals(s) + 1 .. CountOf(s)
      BY NumberIs
    <2>2. CountOf(s) \in Nat
      BY CountIs, PositionsFinite
    <2>3. QED
      BY <1>1, <1>3, <2>1, <2>2
  <1>4. QED
    BY <1>2, <1>3

LEMMA AppliedIs ==
    ASSUME Applying
    PROVE  AppliedFaithful
  <1>1. SUFFICES ASSUME NEW m \in applied
                 PROVE  LET package == m[2]
                            filesTo(i) == Cardinality({j \in 1..i : m[j][1] = "FILE"})
                        IN  /\ \A i \in DOMAIN m : m[i][1] = "FILE" => m[i] = Line("FILE", package[2], filesTo(i))
                            /\ Last(m)[1] = "END" =>
                                  /\ filesTo(Len(m)) = Elements[package[2]][package[3]].files
                                  /\ m[3][3] \in 1..m[4][3] /\ m[4][3] = CountOf(package[2])
                                  /\ \A n \in applied :
                                        Len(n) > 2 /\ n[2][2] = package[2] /\ n[3][3] = m[3][3] => n[2] = package
    BY DEF AppliedFaithful
  <1> DEFINE filesTo(i) == Cardinality({j \in 1..i : m[j][1] = "FILE"})
  <1>2. PICK s \in Sets, t \in {"removed", "added"} : \E p \in OfType(s, t) : Describes(m, s, p)
    BY RequestDescribes DEF Applying
  <1>3. PICK p \in OfType(s, t) : Describes(m, s, p)
    BY <1>2
  <1>4. /\ \A i \in DOMAIN m : m[i][1] = "FILE" => m[i] = Line("FILE", s, filesTo(i)) /\ i > 5
        /\ m[Len(m)][1] = "END" => Len(m) > 5 /\ filesTo(Len(m)) = FilesOf(s, p)
        /\ Len(m) > 1 => m[2] = Line("PACKAGE", s, p)
        /\ Len(m) > 2 => m[3] = IndexLine(s, p)
        /\ Len(m) > 3 => m[4] = CountLine(s)
        /\ Len(m) \in Nat
    BY <1>3 DEF Describes
  <1> HIDE DEF filesTo
  <1>5. m \in Seq(LineSet)
    BY DEF Applying, CutOf
  <1>6. \A i \in DOMAIN m : m[i][1] = "FILE" => m[i] = Line("FILE", m[2][2], filesTo(i))
    <2>1. SUFFICES ASSUME NEW i \in DOMAIN m, m[i][1] = "FILE"  PROVE m[i] = Line("FILE", m[2][2], filesTo(i))
      OBVIOUS
    <2>2. Len(m) > 1
      BY <1>4, <1>5, <2>1
    <2>3. m[2][2] = s
      BY <1>4, <2>2, LineIs
    <2>4. QED
      BY <1>4, <2>1, <2>3
  <1>7. ASSUME Last(m)[1] = "END"
        PROVE  /\ filesTo(Len(m)) = Elements[m[2][2]][m[2][3]].files
               /\ m[3][3] \in 1..m[4][3] /\ m[4][3] = CountOf(m[2][2])
               /\ \A n \in applied : Len(n) > 2 /\ n[2][2] = m[2][2] /\ n[3][3] = m[3][3] => n[2] = m[2]
    <2>1. Len(m) > 5 /\ filesTo(Len(m)) = FilesOf(s, p)
      BY <1>4, <1>7 DEF Last
    <2>2. /\ m[2] = Line("PACKAGE", s, p) /\ m[3] = IndexLine(s, p) /\ m[4] = CountLine(s)
      BY <1>4, <2>1
    <2>3. m[2][2] = s /\ m[2][3] = p /\ m[3][3] = Number(s, p) /\ m[4][3] = CountOf(s)
      BY <2>2, LineIs, LineNumbers
    <2>4. Number(s, p) \in 1..CountOf(s)
      <3>1. /\ t = "removed" => Number(s, p) \in 1..Removals(s)
            /\ t = "added" => Number(s, p) \in Removals(s) + 1 .. CountOf(s)
            /\ Removals(s) \in Nat /\ CountOf(s) \in Nat /\ Removals(s) <= CountOf(s)
        BY NumberIs, CountIs, PositionsFinite
      <3>2. QED
        BY <3>1
    <2>5. ASSUME NEW n \in applied, Len(n) > 2, n[2][2] = m[2][2], n[3][3] = m[3][3]  PROVE n[2] = m[2]
      <3>1. PICK z \in Sets, u \in {"removed", "added"} : \E q \in OfType(z, u) : Describes(n, z, q)
        BY RequestDescribes DEF Applying
      <3>2. PICK q \in OfType(z, u) : Describes(n, z, q)
        BY <3>1
      <3>3. n[2] = Line("PACKAGE", z, q) /\ n[3] = IndexLine(z, q)
        BY <2>5, <3>2 DEF Describes
      <3>4. n[2][2] = z /\ n[3][3] = Number(z, q)
        BY <3>3, LineIs, LineNumbers
      <3>5. z = s /\ Number(s, q) = Number(s, p)
        BY <2>3, <2>5, <3>4
      <3>6. q = p
        BY <3>5, NumberOne
      <3>7. QED
        BY <2>2, <3>3, <3>5, <3>6
    <2>6. QED
      BY <2>1, <2>3, <2>4, <2>5 DEF FilesOf
  <1>8. QED
    BY <1>6, <1>7 DEF filesTo

----------------------------------------------------------------------------
(* What the daemon is told. *)

\* No line of the message comes twice among those that must come once.
Once(M) == \A i, j \in 1..Len(M) : i < j /\ M[i][1] = M[j][1] => M[i][1] \notin MemoKeys

\* The client puts M after M's first lines, all there if M fits the first buffer; no line still
\* to put is already memorised.
Clean(c, todo, M) ==
    /\ Makes(c, todo, M)
    /\ \A i \in 1..Len(todo) : todo[i][1] \notin c.memo
    /\ \A i, j \in 1..Len(todo) : i < j /\ todo[i][1] = todo[j][1] => todo[i][1] \notin MemoKeys
    /\ Len(M) < Buffer0 => c.size = Buffer0 /\ \A i \in 1..Len(c.lines) : c.lines[i] = M[i]

\* The request of the call is the one of the last number announced.
Current(p) == p \in Recorded(call.ts) /\ Number(call.ts, p) = last[call.ts]

MakingIt ==
    call # None /\ call.step = "put" =>
       \E p \in Recorded(call.ts) : Current(p) /\ Clean(client, call.todo, Request(call.ts, p))

\* The connection is used in its time: one message, then one answer.
Exchange ==
    /\ sent # None => answer = "none"
    /\ call = None \/ call.step # "recv" => sent = None /\ answer = "none"

\* The request of position p of set s is being told.
OnWay(s, p) ==
    /\ call # None /\ call.ts = s /\ Number(s, p) = last[s]
    /\ call.step = "put" \/ (call.step = "recv" /\ sent = Request(s, p))

\* Position p of set s is performed and its request, that fits, is not taken whole.
Untold(s, p) ==
    /\ p \in Asked(s) /\ Number(s, p) <= last[s] /\ ~OnWay(s, p)
    /\ Len(Request(s, p)) < Buffer0 /\ Request(s, p) \notin applied
Missing == {x \in Sets \X Nat : Untold(x[1], x[2])}

Counted == IsFiniteSet(Missing) /\ Cardinality(Missing) <= faults

ToldInv == MakingIt /\ Exchange /\ Counted

\* The lines that come once do.
LEMMA ShapeOnce ==
    ASSUME NEW s, NEW p, NEW M, MessageShape(s, p, M)
    PROVE  Once(M)
  <1> DEFINE f == FilesOf(s, p)
  <1>1. /\ f \in Nat /\ HeadLen \in {5, 6} /\ Len(M) = HeadLen + f + 1
        /\ M[1][1] = "BEGIN" /\ M[5][1] = "ROOT" /\ (HeadLen = 6 => M[6][1] = "TRANSID")
        /\ M[HeadLen + f + 1][1] = "END"
    BY TransIs DEF MessageShape
  <1>2. M[2][1] = "PACKAGE" /\ M[3][1] = "INDEX" /\ M[4][1] = "COUNT"
    <2>1. M[2] = Line("PACKAGE", s, p) /\ M[3] = IndexLine(s, p) /\ M[4] = CountLine(s)
      BY DEF MessageShape
    <2>2. IndexLine(s, p)[1] = "INDEX" /\ CountLine(s)[1] = "COUNT"
      BY KeyIs, Zenon DEF IndexLine, CountLine
    <2>3. QED
      BY <2>1, <2>2, LineIs
  <1>3. \A i \in 1..f : M[HeadLen + i][1] = "FILE"
    BY LineIs DEF MessageShape
  <1> HIDE DEF f
  <1>4. ASSUME NEW i \in 1..Len(M), M[i][1] \in MemoKeys  PROVE i = 5 \/ (i = 6 /\ HeadLen = 6)
    <2>1. SUFFICES ASSUME i # 5, ~(i = 6 /\ HeadLen = 6)  PROVE FALSE
      OBVIOUS
    <2>2. CASE i \in {1, 2, 3, 4}
      BY <1>1, <1>2, <1>4, <2>2 DEF MemoKeys
    <2>3. CASE i = HeadLen + f + 1
      BY <1>1, <1>4, <2>3 DEF MemoKeys
    <2>4. CASE i \notin {1, 2, 3, 4} /\ i # HeadLen + f + 1
      <3>1. i - HeadLen \in 1..f /\ HeadLen + (i - HeadLen) = i
        BY <1>1, <2>1, <2>4
      <3>2. M[i][1] = "FILE"
        BY <1>3, <3>1
      <3>3. QED
        BY <1>4, <3>2 DEF MemoKeys
    <2>5. QED
      BY <2>2, <2>3, <2>4
  <1>5. QED
    BY <1>1, <1>4 DEF Once

LEMMA RequestIs ==
    ASSUME NEW s \in Sets, NEW p \in Recorded(s)
    PROVE  Request(s, p) \in Messages /\ Once(Request(s, p)) /\ Request(s, p)[1][1] = "BEGIN"
  <1>1. PICK t \in {"removed", "added"} : p \in OfType(s, t)
    BY RecordedOne
  <1>2. Request(s, p) = Message(s, p, TRUE) \/ Request(s, p) = Message(s, p, FALSE)
    <2>1. CASE "test" \in flags[s]
      BY <2>1 DEF Request, Message
    <2>2. CASE "test" \notin flags[s]
      <3>1. ("test" \in flags[s]) = FALSE
        BY <2>2
      <3>2. QED
        BY <3>1, Zenon DEF Request, Message
    <2>3. QED
      BY <2>1, <2>2
  <1>3. PICK M : M = Request(s, p)
    OBVIOUS
  <1>4. M \in Messages
    BY <1>2, <1>3, MessagesAre, Zenon
  <1>5. MessageShape(s, p, M)
    <2>1. MessageShape(s, p, Message(s, p, TRUE)) /\ MessageShape(s, p, Message(s, p, FALSE))
      BY <1>1, MessageIs
    <2>2. QED
      BY <1>2, <1>3, <2>1, Zenon
  <1>6. Once(M) /\ M[1][1] = "BEGIN"
    BY <1>5, ShapeOnce DEF MessageShape
  <1>7. QED
    BY <1>3, <1>4, <1>6

\* One more line in its place.
LEMMA PutFits ==
    ASSUME NEW c \in ClientType, c.rc = "ok", c.state = "Started", NEW line \in LineSet, NEW oom \in BOOLEAN
    PROVE  /\ oom = FALSE => PutKeyValNl(c, line, oom).rc = "ok"
           /\ PutKeyValNl(c, line, oom).memo = c.memo
           /\ Len(c.lines) + 1 < c.size =>
                 /\ PutKeyValNl(c, line, oom).rc = "ok" /\ PutKeyValNl(c, line, oom).size = c.size
                 /\ PutKeyValNl(c, line, oom).lines = Append(c.lines, line)
  <1> DEFINE grows == Len(c.lines) + 1 >= c.size
             lines == Append(IF grows THEN Moved(c) ELSE c.lines, line)
  <1>1. Len(c.lines) \in Nat /\ c.size \in Nat
    BY DEF ClientType
  <1>2. CASE grows /\ oom
    <2>1. PutKeyValNl(c, line, oom) = [c EXCEPT !.rc = "error"]
      BY <1>2, Zenon DEF PutKeyValNl
    <2>2. [c EXCEPT !.rc = "error"].memo = c.memo
      BY DEF ClientType
    <2>3. ~(Len(c.lines) + 1 < c.size) /\ oom # FALSE
      BY <1>1, <1>2
    <2>4. QED
      BY <2>1, <2>2, <2>3, Zenon
  <1>3. CASE ~(grows /\ oom)
    <2> DEFINE size == IF grows THEN 2 * c.size ELSE c.size
               heap == c.heap \/ grows
    <2>1. PutKeyValNl(c, line, oom) = [c EXCEPT !.lines = lines, !.size = size, !.heap = heap]
      BY <1>3, Zenon DEF PutKeyValNl
    <2>2. Len(c.lines) + 1 < c.size => lines = Append(c.lines, line) /\ size = c.size
      BY <1>1
    <2> HIDE DEF size, heap, lines
    <2>3. /\ [c EXCEPT !.lines = lines, !.size = size, !.heap = heap].lines = lines
          /\ [c EXCEPT !.lines = lines, !.size = size, !.heap = heap].size = size
          /\ [c EXCEPT !.lines = lines, !.size = size, !.heap = heap].memo = c.memo
          /\ [c EXCEPT !.lines = lines, !.size = size, !.heap = heap].rc = c.rc
      BY DEF ClientType
    <2>4. QED
      BY <2>1, <2>2, <2>3
  <1>4. QED
    BY <1>2, <1>3

LEMMA PutMemoFits ==
    ASSUME NEW c \in ClientType, c.rc = "ok", c.state = "Started", NEW line \in LineSet, NEW oom \in BOOLEAN,
           line[1] \notin c.memo
    PROVE  /\ oom = FALSE => PutKeyValNlMemo(c, line, oom).rc = "ok"
           /\ \A k \in PutKeyValNlMemo(c, line, oom).memo : k \in c.memo \/ (k = line[1] /\ k \in MemoKeys)
           /\ Len(c.lines) + 1 < c.size =>
                 /\ PutKeyValNlMemo(c, line, oom).rc = "ok" /\ PutKeyValNlMemo(c, line, oom).size = c.size
                 /\ PutKeyValNlMemo(c, line, oom).lines = Append(c.lines, line)
  <1> DEFINE put == PutKeyValNl(c, line, oom)
  <1>1. /\ oom = FALSE => put.rc = "ok"
        /\ put.memo = c.memo
        /\ Len(c.lines) + 1 < c.size => put.rc = "ok" /\ put.size = c.size /\ put.lines = Append(c.lines, line)
    BY PutFits
  <1>2. put \in ClientType
    BY PutIs
  <1>3. CASE line[1] \notin MemoKeys
    <2>1. PutKeyValNlMemo(c, line, oom) = put
      BY <1>3 DEF PutKeyValNlMemo
    <2>2. QED
      BY <1>1, <2>1
  <1>4. CASE line[1] \in MemoKeys
    <2> DEFINE memo == IF put.rc = "ok" THEN put.memo \cup {line[1]} ELSE put.memo
    <2>1. PutKeyValNlMemo(c, line, oom) = [put EXCEPT !.memo = memo]
      BY <1>4, Zenon DEF PutKeyValNlMemo
    <2> HIDE DEF put
    <2>2. \A k \in memo : k \in c.memo \/ (k = line[1] /\ k \in MemoKeys)
      BY <1>1, <1>4
    <2> HIDE DEF memo
    <2>3. /\ [put EXCEPT !.memo = memo].memo = memo /\ [put EXCEPT !.memo = memo].rc = put.rc
          /\ [put EXCEPT !.memo = memo].lines = put.lines /\ [put EXCEPT !.memo = memo].size = put.size
      BY <1>2 DEF ClientType
    <2>4. QED
      BY <1>1, <2>1, <2>2, <2>3
  <1>5. QED
    BY <1>3, <1>4

LEMMA CleanStart ==
    ASSUME NEW M \in Seq(LineSet), Once(M)
    PROVE  Clean(ClientBegin(NewClient), M, M)
  <1> DEFINE c == ClientBegin(NewClient)
  <1>1. Makes(c, M, M)
    BY MakesStart
  <1>2. c.memo = {} /\ c.size = Buffer0 /\ c.lines = <<>>
    BY DEF ClientBegin, NewClient
  <1> HIDE DEF c
  <1>3. Clean(c, M, M)
    BY <1>1, <1>2 DEF Clean, Once
  <1>4. QED
    BY <1>3 DEF c

LEMMA CleanLines ==
    ASSUME NEW M \in Seq(LineSet), NEW c, NEW todo, Clean(c, todo, M), todo # <<>>, NEW d, Makes(d, Tail(todo), M),
           \A k \in d.memo : k \in c.memo \/ (k = Head(todo)[1] /\ k \in MemoKeys),
           Len(c.lines) + 1 < c.size => d.size = c.size /\ d.lines = Append(c.lines, Head(todo))
    PROVE  Clean(d, Tail(todo), M)
  <1> DEFINE old == c.lines
             new == d.lines
             rest == Tail(todo)
  <1>1. /\ old \in Seq(LineSet) /\ new \in Seq(LineSet) /\ todo \in Seq(LineSet)
        /\ Len(old) + Len(todo) = Len(M) /\ Len(M) \in Nat /\ Len(old) \in Nat
        /\ \A i \in 1..Len(todo) : todo[i] = M[Len(old) + i]
    <2>1. Makes(c, todo, M)
      BY DEF Clean
    <2>2. c \in ClientType /\ d \in ClientType
      BY <2>1 DEF Makes
    <2>3. QED
      BY <2>1, <2>2 DEF Makes, ClientType
  <1>2. /\ Len(todo) \in Nat /\ Len(todo) > 0 /\ Len(rest) = Len(todo) - 1 /\ Head(todo) = todo[1]
        /\ \A i \in 1..Len(rest) : rest[i] = todo[i + 1] /\ i + 1 \in 1..Len(todo)
    BY <1>1
  <1> HIDE DEF rest
  <1>3. ASSUME NEW i \in 1..Len(rest)  PROVE rest[i][1] \notin d.memo
    <2>1. rest[i] = todo[i + 1] /\ i + 1 \in 1..Len(todo) /\ 1 \in 1..Len(todo) /\ 1 < i + 1
      BY <1>2
    <2>2. todo[i + 1][1] \notin c.memo
      BY <2>1 DEF Clean
    <2>3. todo[i + 1][1] = todo[1][1] => todo[1][1] \notin MemoKeys
      BY <2>1 DEF Clean
    <2>4. QED
      BY <1>2, <2>1, <2>2, <2>3
  <1>4. ASSUME NEW i \in 1..Len(rest), NEW j \in 1..Len(rest), i < j, rest[i][1] = rest[j][1]
        PROVE  rest[i][1] \notin MemoKeys
    <2>1. rest[i] = todo[i + 1] /\ i + 1 \in 1..Len(todo) /\ rest[j] = todo[j + 1] /\ j + 1 \in 1..Len(todo) /\ i + 1 < j + 1
      BY <1>2, <1>4
    <2>2. QED
      BY <1>4, <2>1 DEF Clean
  <1>5. ASSUME Len(M) < Buffer0  PROVE d.size = Buffer0 /\ \A i \in 1..Len(new) : new[i] = M[i]
    <2>1. c.size = Buffer0 /\ \A i \in 1..Len(old) : old[i] = M[i]
      BY <1>5 DEF Clean
    <2>2. Len(old) + 1 < c.size
      BY <1>1, <1>2, <1>5, <2>1, PluginAssumption
    <2>3. d.size = Buffer0 /\ new = Append(old, Head(todo))
      BY <2>1, <2>2
    <2>4. Head(todo) = M[Len(old) + 1] /\ Head(todo) \in LineSet
      BY <1>1, <1>2
    <2> HIDE DEF old, new
    <2>5. \A i \in 1..Len(new) : new[i] = M[i]
      BY <1>1, <2>1, <2>3, <2>4
    <2>6. QED
      BY <2>3, <2>5
  <1>6. QED
    BY <1>3, <1>4, <1>5 DEF Clean, rest

\* The message that fits is whole when it is ready.
LEMMA CleanReady ==
    ASSUME NEW M \in Seq(LineSet), NEW c, NEW todo, Clean(c, todo, M), c.state = "Ready", Len(M) < Buffer0
    PROVE  c.lines = M
  <1> DEFINE lines == c.lines
  <1>1. lines \in Seq(LineSet) /\ Len(lines) + Len(todo) = Len(M) /\ todo = <<>> /\ \A i \in 1..Len(lines) : lines[i] = M[i]
    BY DEF Clean, Makes, ClientType
  <1> HIDE DEF lines
  <1>2. Len(todo) = 0 /\ Len(lines) \in Nat /\ Len(M) \in Nat
    BY <1>1
  <1>3. lines = M
    BY <1>1, <1>2
  <1>4. QED
    BY <1>3 DEF lines

\* A step that adds nothing, and a failure that adds one.
LEMMA CountedSame ==
    ASSUME Counted, Missing' \subseteq Missing, faults \in Nat, faults' \in Nat, faults <= faults'
    PROVE  Counted'
  <1>1. /\ IsFiniteSet(Missing') /\ Cardinality(Missing') <= Cardinality(Missing)
        /\ Cardinality(Missing) \in Nat /\ Cardinality(Missing') \in Nat
    BY FS_Subset, FS_CardinalityType DEF Counted
  <1>2. QED
    BY <1>1 DEF Counted

LEMMA CountedOne ==
    ASSUME Counted, NEW x, Missing' \subseteq Missing \cup {x}, faults \in Nat, faults' = faults + 1
    PROVE  Counted'
  <1>1. /\ IsFiniteSet(Missing \cup {x}) /\ Cardinality(Missing) \in Nat
        /\ Cardinality(Missing \cup {x}) <= Cardinality(Missing) + 1 /\ Cardinality(Missing \cup {x}) \in Nat
    BY FS_AddElement, FS_CardinalityType DEF Counted
  <1>2. IsFiniteSet(Missing') /\ Cardinality(Missing') <= Cardinality(Missing \cup {x}) /\ Cardinality(Missing') \in Nat
    BY <1>1, FS_Subset, FS_CardinalityType
  <1>3. QED
    BY <1>1, <1>2 DEF Counted

LEMMA AskedIs ==
    ASSUME NEW s \in Sets, NEW p \in Asked(s)
    PROVE  p \in Recorded(s) /\ p \in Nat
  <1>1. p \in Recorded(s)
    BY DEF Asked, Recorded
  <1>2. PICK t \in {"removed", "added"} : p \in OfType(s, t)
    BY <1>1, RecordedOne
  <1>3. p \in Nat
    BY <1>2, PositionsFinite
  <1>4. QED
    BY <1>1, <1>3

\* The requests and the packages asked only depend on the flags, which do not change.
LEMMA SameRequests ==
    ASSUME flags' = flags
    PROVE  \A s, p : Request(s, p)' = Request(s, p) /\ Asked(s)' = Asked(s)
  BY Zenon DEF Request, Asked, Silent

LEMMA MissingIs ==
    ASSUME NEW s \in Sets, NEW p \in Nat
    PROVE  <<s, p>> \in Missing <=> Untold(s, p)
  <1>1. <<s, p>> \in Sets \X Nat /\ <<s, p>>[1] = s /\ <<s, p>>[2] = p
    OBVIOUS
  <1>2. QED
    BY <1>1, Zenon DEF Missing

\* What is on its way stays on its way or arrives.
LEMMA MissingSame ==
    ASSUME flags' = flags, last' = last, applied \subseteq applied',
           \A s \in Sets : \A p \in Asked(s) : OnWay(s, p) => OnWay(s, p)' \/ Request(s, p) \in applied'
    PROVE  Missing' \subseteq Missing
  <1>1. ASSUME NEW s \in Sets, NEW p \in Nat, Untold(s, p)'  PROVE Untold(s, p)
    <2>1. Request(s, p)' = Request(s, p) /\ Asked(s)' = Asked(s)
      BY SameRequests
    <2>2. /\ p \in Asked(s) /\ Number(s, p) <= last[s] /\ ~OnWay(s, p)'
          /\ Len(Request(s, p)) < Buffer0 /\ Request(s, p) \notin applied'
      BY <1>1, <2>1 DEF Untold
    <2>3. QED
      BY <2>2 DEF Untold
  <1>2. QED
    BY <1>1 DEF Missing

\* What is on its way is one request.
LEMMA MissingOne ==
    ASSUME flags' = flags, last' = last, applied \subseteq applied', IInv
    PROVE  \E x : Missing' \subseteq Missing \cup {x}
  <1>1. ASSUME NEW s \in Sets, NEW p \in Nat, Untold(s, p)'  PROVE Untold(s, p) \/ (p \in Asked(s) /\ OnWay(s, p))
    <2>1. Request(s, p)' = Request(s, p) /\ Asked(s)' = Asked(s)
      BY SameRequests
    <2>2. /\ p \in Asked(s) /\ Number(s, p) <= last[s]
          /\ Len(Request(s, p)) < Buffer0 /\ Request(s, p) \notin applied'
      BY <1>1, <2>1 DEF Untold
    <2>3. QED
      BY <2>2 DEF Untold
  <1>2. CASE \E s \in Sets : \E p \in Asked(s) : OnWay(s, p)
    <2>1. PICK s \in Sets : \E p \in Asked(s) : OnWay(s, p)
      BY <1>2
    <2>2. PICK p \in Asked(s) : OnWay(s, p)
      BY <2>1
    <2>3. ASSUME NEW z \in Sets, NEW q \in Asked(z), OnWay(z, q)  PROVE z = s /\ q = p
      <3>1. z = s /\ Number(s, q) = Number(s, p)
        BY <2>2, <2>3 DEF OnWay
      <3>2. PICK t \in {"removed", "added"}, u \in {"removed", "added"} : p \in OfType(s, t) /\ q \in OfType(s, u)
        <4>1. p \in Recorded(s) /\ q \in Recorded(s)
          BY <2>3, <3>1, AskedIs
        <4>2. QED
          BY <4>1, RecordedOne
      <3>3. QED
        BY <3>1, <3>2, NumberOne
    <2>4. \A y \in Missing' : y \in Missing \/ y = <<s, p>>
      <3>1. SUFFICES ASSUME NEW z \in Sets, NEW q \in Nat, Untold(z, q)'
                     PROVE  Untold(z, q) \/ (z = s /\ q = p)
        BY DEF Missing
      <3>2. QED
        BY <1>1, <2>3, <3>1
    <2>5. QED
      BY <2>4
  <1>3. CASE ~\E s \in Sets : \E p \in Asked(s) : OnWay(s, p)
    <2>1. Missing' \subseteq Missing
      BY <1>1, <1>3 DEF Missing
    <2>2. QED
      BY <2>1
  <1>4. QED
    BY <1>2, <1>3

\* A failure.
LEMMA CountedFault ==
    ASSUME IInv, Counted, Fault, flags' = flags, last' = last, applied \subseteq applied'
    PROVE  Counted'
  <1>1. faults \in Nat /\ faults' = faults + 1
    BY PluginAssumption DEF IInv, PluginTypeOK, Fault
  <1>2. PICK x : Missing' \subseteq Missing \cup {x}
    BY MissingOne
  <1>3. QED
    BY <1>1, <1>2, CountedOne

\* No failure, and nothing that is on its way is dropped.
LEMMA CountedQuiet ==
    ASSUME IInv, Counted, Fault \/ NoFault, flags' = flags, last' = last, applied \subseteq applied',
           \A s \in Sets : \A p \in Asked(s) : OnWay(s, p) => OnWay(s, p)' \/ Request(s, p) \in applied'
    PROVE  Counted'
  <1>1. faults \in Nat /\ faults' \in Nat /\ faults <= faults'
    BY PluginAssumption DEF IInv, PluginTypeOK, Fault, NoFault
  <1>2. Missing' \subseteq Missing
    BY MissingSame
  <1>3. QED
    BY <1>1, <1>2, CountedSame

\* A call in progress is not the absence of a call.
LEMMA CallKept ==
    ASSUME NEW c, CallOK(c), NEW step \in Steps, NEW todo \in Seq(LineSet)
    PROVE  /\ [c EXCEPT !.step = step, !.todo = todo] # None
           /\ [c EXCEPT !.todo = todo] # None
           /\ c.todo = todo => [c EXCEPT !.step = step] # None
  <1> DEFINE R(k, l) == [ts |-> c.ts, type |-> c.type, step |-> k, todo |-> l]
  <1>1. /\ DOMAIN c = CallFields /\ c = [f \in CallFields |-> c[f]]
        /\ c.ts \in Sets /\ c.type \in {"removed", "added"} /\ c.step \in Steps
    BY DEF CallOK
  <1> DEFINE a == [c EXCEPT !.step = step]
             b == [c EXCEPT !.todo = todo]
             d == [c EXCEPT !.step = step, !.todo = todo]
  <1>2. a = R(step, c.todo) /\ b = R(c.step, todo) /\ d = R(step, todo)
    <2>1. /\ DOMAIN a = CallFields /\ a = [f \in CallFields |-> a[f]]
          /\ DOMAIN b = CallFields /\ b = [f \in CallFields |-> b[f]]
          /\ DOMAIN d = CallFields /\ d = [f \in CallFields |-> d[f]]
      BY <1>1
    <2>2. /\ a.ts = c.ts /\ a.type = c.type /\ a.step = step /\ a.todo = c.todo
          /\ b.ts = c.ts /\ b.type = c.type /\ b.step = c.step /\ b.todo = todo
          /\ d.ts = c.ts /\ d.type = c.type /\ d.step = step /\ d.todo = todo
      BY <1>1, Zenon DEF CallFields
    <2> HIDE DEF a, b, d
    <2>3. ASSUME NEW e, DOMAIN e = CallFields, e = [f \in CallFields |-> e[f]]
          PROVE  e = [ts |-> e.ts, type |-> e.type, step |-> e.step, todo |-> e.todo]
      BY <2>3 DEF CallFields
    <2>4. /\ a = [ts |-> a.ts, type |-> a.type, step |-> a.step, todo |-> a.todo]
          /\ b = [ts |-> b.ts, type |-> b.type, step |-> b.step, todo |-> b.todo]
          /\ d = [ts |-> d.ts, type |-> d.type, step |-> d.step, todo |-> d.todo]
      BY <2>1, <2>3, Zenon
    <2>5. QED
      BY <2>2, <2>4, Zenon
  <1>3. \A k \in Steps : R(k, todo) \in Calls
    <2>1. PICK T : T = Seq(LineSet)
      OBVIOUS
    <2>2. todo \in T
      BY <2>1
    <2>3. \A k \in Steps : R(k, todo) \in [ts : Sets, type : {"removed", "added"}, step : Steps, todo : T]
      BY ONLY <1>1, <2>2
    <2>4. QED
      BY <2>1, <2>3, Zenon DEF Calls
  <1> HIDE DEF R
  <1>4. /\ d # None /\ b # None /\ (c.todo = todo => a # None)
    <2>1. R(step, todo) # None /\ R(c.step, todo) # None
      BY <1>1, <1>3, NoneAssumption
    <2> HIDE DEF a, b, d
    <2>2. QED
      BY <1>2, <2>1, Zenon
  <1>5. QED
    BY <1>4

\* The record that is visited is the next one that is asked.
LEMMA ToldPerform ==
    ASSUME IInv, ToldInv, NEW r \in records, Perform(r)
    PROVE  ToldInv'
  <1>0. PICK s \in Sets, t \in {"removed", "added"} : \E p \in OfType(s, t) :
              /\ call # None /\ s = call.ts /\ t = call.type /\ r = RecordOf(s, p)
              /\ phase[s] = IF t = "removed" THEN "pre" ELSE "post"
              /\ \A q \in OfType(s, t) : RecordOf(s, q) \in records => q <= p
              /\ last' = [last EXCEPT ![s] = Number(s, p)] /\ dir' = [dir EXCEPT ![s] = t]
              /\ records' = records \ {r} /\ UNCHANGED <<phase, flags, answer, faults>>
    BY PerformIs, Zenon
  <1>1. PICK p \in OfType(s, t) :
              /\ call # None /\ s = call.ts /\ t = call.type /\ r = RecordOf(s, p)
              /\ phase[s] = IF t = "removed" THEN "pre" ELSE "post"
              /\ \A q \in OfType(s, t) : RecordOf(s, q) \in records => q <= p
              /\ last' = [last EXCEPT ![s] = Number(s, p)] /\ dir' = [dir EXCEPT ![s] = t]
              /\ records' = records \ {r} /\ UNCHANGED <<phase, flags, answer, faults>>
    BY <1>0, Zenon
  <1>2. InOrder(s) /\ last[s] \in Nat /\ last \in [Sets -> Nat] /\ faults \in Nat /\ CallOK(call)
    BY <1>1, PluginAssumption DEF IInv, PluginTypeOK, CallInPhase
  <1>3. p \in Recorded(s) /\ r.ts = s
    BY <1>1, RecordFields
  <1> DEFINE M == RequestLines(r, "test" \in flags[r.ts])
  <1>4. M = Request(s, p)
    BY <1>1, <1>3, Zenon DEF Request
  <1>5. /\ call.step = "make" /\ client' = ClientBegin(NewClient) /\ call' = [call EXCEPT !.step = "put", !.todo = M]
        /\ UNCHANGED <<sent, applied, answer, flags, faults>>
    BY Zenon DEF Perform, NoFault
  <1> HIDE DEF M
  <1>6. call'.todo = M /\ call'.step = "put" /\ call'.ts = s
    <2>1. "put" \in Steps
      BY DEF Steps
    <2>2. call'.todo = M /\ call'.step = "put"
      BY <1>2, <1>5, CallParts
    <2>3. call'.ts = s
      BY <1>1, <1>2, <1>5, <2>1, CallStep
    <2>4. QED
      BY <2>2, <2>3
  <1>7. last'[s] = Number(s, p) /\ (\A z \in Sets : z # s => last'[z] = last[z]) /\ call' # None
    <2>1. last'[s] = Number(s, p) /\ (\A z \in Sets : z # s => last'[z] = last[z])
      BY <1>1, <1>2
    <2>2. M \in Seq(LineSet)
      BY <1>3, <1>4, RequestIs, MessagesLen
    <2>3. call' # None
      BY <1>2, <1>5, <2>2, CallKept DEF Steps
    <2>4. QED
      BY <2>1, <2>3
  <1>8. Request(s, p)' = Request(s, p)
    BY <1>5, SameRequests
  <1>9. MakingIt'
    <2>1. M \in Seq(LineSet) /\ Once(M)
      BY <1>3, <1>4, RequestIs, MessagesLen
    <2>2. Clean(client', call'.todo, M)
      BY <1>5, <1>6, <2>1, CleanStart
    <2>3. Clean(client, call.todo, Request(call.ts, p))'
      BY <1>4, <1>6, <1>8, <2>2, Zenon
    <2>4. Current(p)'
      BY <1>3, <1>6, <1>7 DEF Current
    <2>5. QED
      BY <1>3, <1>6, <2>3, <2>4 DEF MakingIt
  <1>10. Exchange'
    BY <1>5, <1>6 DEF ToldInv, Exchange
  <1>11. Missing' \subseteq Missing
    <2>1. ASSUME NEW z \in Sets, NEW q \in Nat, Untold(z, q)'  PROVE Untold(z, q)
      <3>1. Request(z, q)' = Request(z, q) /\ Asked(z)' = Asked(z)
        BY <1>5, SameRequests
      <3>2. /\ q \in Asked(z) /\ Number(z, q) <= last'[z] /\ ~OnWay(z, q)'
            /\ Len(Request(z, q)) < Buffer0 /\ Request(z, q) \notin applied
        BY <1>5, <2>1, <3>1 DEF Untold
      <3>3. ~OnWay(z, q)
        BY <1>5 DEF OnWay
      <3>4. CASE z # s
        BY <1>7, <3>2, <3>3, <3>4 DEF Untold
      <3>5. CASE z = s
        <4>1. PICK u \in {"removed", "added"} : q \in OfType(s, u)
          BY <3>2, <3>5, AskedIs, RecordedOne
        <4>2. Number(s, q) # Number(s, p)
          <5>1. ~(/\ call' # None /\ call'.ts = s /\ Number(s, q) = last'[s] /\ call'.step = "put")
            BY <3>2, <3>5, Zenon DEF OnWay
          <5>2. QED
            BY <1>6, <1>7, <5>1
        <4>3. Number(s, q) < Number(s, p) /\ Number(s, q) \in Nat /\ Number(s, p) \in Nat
          <5>1. Number(s, q) \in Nat /\ Number(s, p) \in Nat
            BY <4>1, NumberIs
          <5>2. Number(s, q) <= Number(s, p)
            BY <1>7, <3>2, <3>5
          <5>3. QED
            BY <4>2, <5>1, <5>2
        <4>4. Number(s, q) <= last[s]
          <5>1. SUFFICES ASSUME Number(s, q) > last[s]  PROVE FALSE
            BY <1>2, <4>3
          <5>2. CASE u = t
            <6>1. Ahead(s, t)
              BY <1>1, <1>2 DEF InOrder
            <6>2. RecordOf(s, q) \in records
              BY <4>1, <5>1, <5>2, <6>1 DEF Ahead
            <6>3. q <= p /\ p \in Nat /\ q \in Nat
              BY <1>1, <4>1, <5>2, <6>2, PositionsFinite
            <6>4. q < p => Number(s, p) < Number(s, q)
              BY <4>1, <5>2, NumberIs
            <6>5. QED
              BY <4>3, <6>3, <6>4
          <5>3. CASE u # t
            <6>1. /\ Removals(s) \in Nat /\ CountOf(s) \in Nat
                  /\ (t = "removed" => Number(s, p) \in 1..Removals(s))
                  /\ (t = "added" => Number(s, p) \in Removals(s) + 1 .. CountOf(s))
                  /\ (u = "removed" => Number(s, q) \in 1..Removals(s))
                  /\ (u = "added" => Number(s, q) \in Removals(s) + 1 .. CountOf(s))
              BY <4>1, NumberIs, CountIs, PositionsFinite
            <6>2. u = "removed" /\ t = "added"
              BY <4>3, <5>3, <6>1
            <6>3. q \notin OfType(s, "added")
              BY <4>1, <6>2 DEF OfType
            <6>4. ~Silent(s)
              BY <3>2, <3>5, <6>3 DEF Asked
            <6>5. Removals(s) <= last[s]
              BY <1>1, <1>2, <6>2, <6>4 DEF InOrder
            <6>6. QED
              BY <1>2, <5>1, <6>1, <6>2, <6>5
          <5>4. QED
            BY <5>2, <5>3
        <4>5. QED
          BY <3>2, <3>3, <3>5, <4>4 DEF Untold
      <3>6. QED
        BY <3>4, <3>5
    <2>2. QED
      BY <2>1 DEF Missing
  <1>12. Counted'
    BY <1>2, <1>5, <1>11, CountedSame DEF ToldInv
  <1>13. QED
    BY <1>9, <1>10, <1>12 DEF ToldInv

\* make_message: a line is put, or the message does not fit.
LEMMA ToldMake ==
    ASSUME IInv, ToldInv, MakeMessage
    PROVE  ToldInv'
  <1>1. /\ call # None /\ call.step = "put" /\ call.todo # <<>> /\ CallOK(call)
        /\ UNCHANGED <<flags, last, sent, answer, applied>>
    BY DEF MakeMessage, IInv, CallInPhase
  <1>2. PICK s \in Sets : s = call.ts
    BY <1>1 DEF CallOK
  <1>3. PICK p \in Recorded(s) : Number(s, p) = last[s] /\ Clean(client, call.todo, Request(s, p))
    BY <1>1, <1>2 DEF ToldInv, MakingIt, Current
  <1>4. PICK M : M = Request(s, p)
    OBVIOUS
  <1>5. M \in Messages /\ M \in Seq(LineSet) /\ Clean(client, call.todo, M) /\ Makes(client, call.todo, M)
    BY <1>3, <1>4, RequestIs, MessagesLen DEF Clean
  <1> DEFINE rest == Tail(call.todo)
  <1>6. PICK oom \in BOOLEAN :
           /\ client' = IF rest = <<>> THEN ClientEnd(PutKeyValNlMemo(client, Head(call.todo), oom))
                        ELSE PutKeyValNlMemo(client, Head(call.todo), oom)
           /\ call' = IF PutKeyValNlMemo(client, Head(call.todo), oom).rc = "ok" THEN [call EXCEPT !.todo = rest]
                      ELSE [call EXCEPT !.step = "make", !.todo = <<>>]
           /\ IF oom THEN Fault ELSE NoFault
    BY Zenon DEF MakeMessage
  <1> DEFINE line == Head(call.todo)
             put == PutKeyValNlMemo(client, line, oom)
  <1>7. /\ client \in ClientType /\ client.rc = "ok" /\ client.state = "Started"
        /\ call.todo \in Seq(LineSet) /\ line \in LineSet /\ line = call.todo[1] /\ 1 \in 1..Len(call.todo)
        /\ rest \in Seq(LineSet)
    <2>1. client \in ClientType /\ client.rc = "ok" /\ client.state # "Ready" /\ call.todo \in Seq(LineSet)
      BY <1>1, <1>5 DEF Makes
    <2>2. client.state = "Started"
      BY <2>1 DEF ClientType
    <2>3. line \in LineSet /\ line = call.todo[1] /\ 1 \in 1..Len(call.todo) /\ rest \in Seq(LineSet)
      BY <1>1, <2>1
    <2>4. QED
      BY <2>1, <2>2, <2>3
  <1>8. line[1] \notin client.memo
    BY <1>5, <1>7 DEF Clean
  <1>9. /\ put \in ClientType /\ put.state = client.state /\ (put.rc = "ok" => Adds(client, line, put.lines))
        /\ (oom = FALSE => put.rc = "ok")
        /\ \A k \in put.memo : k \in client.memo \/ (k = line[1] /\ k \in MemoKeys)
        /\ (Len(client.lines) + 1 < client.size => put.size = client.size /\ put.lines = Append(client.lines, line))
    <2> HIDE DEF line
    <2>1. put \in ClientType /\ put.state = client.state /\ (put.rc = "ok" => Adds(client, line, put.lines))
      BY <1>7, PutMemoIs
    <2>2. QED
      BY <1>7, <1>8, <2>1, PutMemoFits
  <1>10. Fault \/ NoFault
    BY <1>6
  <1>11. CASE put.rc = "ok"
    <2>1. call' = [call EXCEPT !.todo = rest]
      BY <1>6, <1>11
    <2>2. call' # None /\ call'.todo = rest /\ call'.ts = s /\ call'.step = "put"
      <3>1. call' # None
        BY <1>1, <1>7, <2>1, CallKept DEF CallOK
      <3>2. call'.todo = rest
        BY <1>1, <2>1, CallParts
      <3>3. call'.ts = s
        <4>1. call.step \in Steps
          BY <1>1 DEF CallOK
        <4>2. QED
          BY <1>1, <1>2, <2>1, <4>1, CallStep
      <3>4. call'.step = call.step
        BY <1>1, <2>1, Zenon DEF CallOK, CallFields
      <3>5. QED
        BY <1>1, <3>1, <3>2, <3>3, <3>4
    <2>3. client' = IF rest = <<>> THEN ClientEnd(put) ELSE put
      BY <1>6
    <2> HIDE DEF put, line
    <2>4. /\ client' \in ClientType /\ client'.rc = "ok" /\ client'.lines = put.lines /\ client'.memo = put.memo
          /\ client'.size = put.size /\ (client'.state = "Ready" => rest = <<>>)
      <3>1. /\ ClientEnd(put) \in ClientType /\ ClientEnd(put).rc = put.rc /\ ClientEnd(put).lines = put.lines
            /\ ClientEnd(put).memo = put.memo /\ ClientEnd(put).size = put.size
        BY <1>9 DEF ClientType, ClientEnd
      <3>2. CASE rest = <<>>
        BY <1>11, <2>3, <3>1, <3>2
      <3>3. CASE rest # <<>>
        BY <1>7, <1>9, <1>11, <2>3, <3>3
      <3>4. QED
        BY <3>2, <3>3
    <2>5. Makes(client', rest, M)
      BY <1>1, <1>5, <1>9, <1>11, <2>4, MakesLines DEF line
    <2>6. Clean(client', rest, M)
      BY <1>1, <1>5, <1>9, <2>4, <2>5, CleanLines DEF line
    <2>7. MakingIt'
      <3>1. Request(s, p)' = M
        BY <1>1, <1>4, SameRequests
      <3>2. Clean(client, call.todo, Request(call.ts, p))'
        BY <2>2, <2>6, <3>1, Zenon
      <3>3. Current(p)'
        BY <1>1, <1>3, <2>2 DEF Current
      <3>4. QED
        BY <2>2, <3>2, <3>3 DEF MakingIt
    <2>8. Exchange'
      BY <1>1, <2>2 DEF ToldInv, Exchange
    <2>9. \A z \in Sets : \A q \in Asked(z) : OnWay(z, q) => OnWay(z, q)'
      BY <1>1, <1>2, <2>2 DEF OnWay
    <2>10. Counted'
      BY <1>1, <1>10, <2>9, CountedQuiet DEF ToldInv
    <2>11. QED
      BY <2>7, <2>8, <2>10 DEF ToldInv
  <1>12. CASE put.rc # "ok"
    <2>1. call' = [call EXCEPT !.step = "make", !.todo = <<>>]
      BY <1>6, <1>12
    <2>2. call'.step = "make"
      BY <1>1, <2>1, CallParts
    <2>3. Fault
      BY <1>6, <1>9, <1>12
    <2>4. Counted'
      BY <1>1, <2>3, CountedFault DEF ToldInv
    <2>5. MakingIt' /\ Exchange'
      BY <1>1, <2>2 DEF ToldInv, MakingIt, Exchange
    <2>6. QED
      BY <2>4, <2>5 DEF ToldInv
  <1>13. QED
    BY <1>11, <1>12

LEMMA ToldSend ==
    ASSUME IInv, ToldInv, Send
    PROVE  ToldInv'
  <1>1. /\ call # None /\ call.step = "put" /\ client.state = "Ready" /\ CallOK(call)
        /\ UNCHANGED <<flags, last, answer, applied>> /\ call' = [call EXCEPT !.step = "recv"]
        /\ (sent' = client.lines /\ NoFault) \/ Fault
    BY DEF Send, Dials, IInv, CallInPhase
  <1>2. PICK s \in Sets : s = call.ts
    BY <1>1 DEF CallOK
  <1>3. PICK p \in Recorded(s) : Number(s, p) = last[s] /\ Clean(client, call.todo, Request(s, p))
    BY <1>1, <1>2 DEF ToldInv, MakingIt, Current
  <1>4. PICK M : M = Request(s, p)
    OBVIOUS
  <1>5. M \in Seq(LineSet) /\ Clean(client, call.todo, M) /\ call.todo \in Seq(LineSet)
    BY <1>3, <1>4, RequestIs, MessagesLen DEF Clean, Makes
  <1>6. call' # None /\ call'.step = "recv" /\ call'.ts = s
    <2>1. "recv" \in Steps
      BY DEF Steps
    <2>2. call' # None
      BY <1>1, <1>5, <2>1, CallKept
    <2>3. call'.step = "recv"
      BY <1>1, CallParts
    <2>4. call'.ts = s
      BY <1>1, <1>2, <2>1, CallStep
    <2>5. QED
      BY <2>2, <2>3, <2>4
  <1>7. MakingIt' /\ Exchange'
    BY <1>1, <1>6 DEF ToldInv, MakingIt, Exchange
  <1>8. CASE Fault
    BY <1>1, <1>7, <1>8, CountedFault DEF ToldInv
  <1>9. CASE sent' = client.lines /\ NoFault
    <2>1. CASE Len(M) < Buffer0
      <3>1. sent' = M
        BY <1>1, <1>5, <1>9, <2>1, CleanReady
      <3>2. ASSUME NEW z \in Sets, NEW q \in Asked(z), OnWay(z, q)  PROVE OnWay(z, q)'
        <4>1. z = s /\ Number(s, q) = Number(s, p)
          BY <1>2, <1>3, <3>2 DEF OnWay
        <4>2. PICK t \in {"removed", "added"}, u \in {"removed", "added"} : p \in OfType(s, t) /\ q \in OfType(s, u)
          <5>1. p \in Recorded(s) /\ q \in Recorded(s)
            BY <4>1, AskedIs
          <5>2. QED
            BY <5>1, RecordedOne
        <4>3. q = p
          BY <4>1, <4>2, NumberOne
        <4>4. Request(s, p)' = M
          BY <1>1, <1>4, SameRequests
        <4>5. QED
          BY <1>1, <1>3, <1>6, <3>1, <4>1, <4>3, <4>4 DEF OnWay
      <3>3. Counted'
        BY <1>1, <1>9, <3>2, CountedQuiet DEF ToldInv
      <3>4. QED
        BY <1>7, <3>3 DEF ToldInv
    <2>2. CASE ~(Len(M) < Buffer0)
      <3>1. Missing' \subseteq Missing
        <4>1. ASSUME NEW z \in Sets, NEW q \in Nat, Untold(z, q)'  PROVE Untold(z, q)
          <5>1. Request(z, q)' = Request(z, q) /\ Asked(z)' = Asked(z)
            BY <1>1, SameRequests
          <5>2. /\ q \in Asked(z) /\ Number(z, q) <= last[z]
                /\ Len(Request(z, q)) < Buffer0 /\ Request(z, q) \notin applied
            BY <1>1, <4>1, <5>1 DEF Untold
          <5>3. ASSUME OnWay(z, q)  PROVE FALSE
            <6>1. z = s /\ Number(s, q) = Number(s, p)
              BY <1>2, <1>3, <5>3 DEF OnWay
            <6>2. PICK t \in {"removed", "added"}, u \in {"removed", "added"} : p \in OfType(s, t) /\ q \in OfType(s, u)
              <7>1. p \in Recorded(s) /\ q \in Recorded(s)
                BY <5>2, <6>1, AskedIs
              <7>2. QED
                BY <7>1, RecordedOne
            <6>3. q = p
              BY <6>1, <6>2, NumberOne
            <6>4. QED
              BY <1>4, <2>2, <5>2, <6>1, <6>3
          <5>4. QED
            BY <5>2, <5>3 DEF Untold
        <4>2. QED
          BY <4>1 DEF Missing
      <3>2. faults \in Nat /\ faults' = faults
        BY <1>9, PluginAssumption DEF IInv, PluginTypeOK, NoFault
      <3>3. Counted'
        BY <3>1, <3>2, CountedSame DEF ToldInv
      <3>4. QED
        BY <1>7, <3>3 DEF ToldInv
    <2>3. QED
      BY <2>1, <2>2
  <1>10. QED
    BY <1>1, <1>8, <1>9

LEMMA ToldStep ==
    ASSUME IInv, ToldInv, [PluginNext]_pluginVars
    PROVE  ToldInv'
  <1>0. call # None => CallOK(call)
    BY DEF IInv, CallInPhase
  <1>1. CASE DialFails
    <2>1. /\ call # None /\ call.step = "put" /\ Fault /\ UNCHANGED <<flags, sent, answer, last, applied>>
          /\ call' = [call EXCEPT !.step = "make"]
      BY <1>1 DEF DialFails, Dials
    <2>2. call'.step = "make"
      BY <1>0, <2>1, CallParts
    <2>3. MakingIt' /\ Exchange'
      BY <2>1, <2>2 DEF ToldInv, MakingIt, Exchange
    <2>4. QED
      BY <2>1, <2>3, CountedFault DEF ToldInv
  <1>2. CASE Recv
    <2>1. /\ call # None /\ call.step = "recv" /\ answer # "none" /\ answer' = "none" /\ NoFault
          /\ UNCHANGED <<flags, sent, last, applied>> /\ call' = [call EXCEPT !.step = "make"]
      BY <1>2 DEF Recv
    <2>2. call'.step = "make" /\ sent = None
      BY <1>0, <2>1, CallParts DEF ToldInv, Exchange
    <2>3. MakingIt' /\ Exchange'
      BY <2>1, <2>2 DEF MakingIt, Exchange
    <2>4. ASSUME NEW s \in Sets, NEW p \in Asked(s)  PROVE ~OnWay(s, p)
      <3>1. Request(s, p) # None
        <4>1. Request(s, p) \in Seq(LineSet)
          BY AskedIs, RequestIs, MessagesLen
        <4>2. QED
          BY <4>1, NoneAssumption
      <3>2. QED
        BY <2>1, <2>2, <3>1 DEF OnWay
    <2>5. QED
      BY <2>1, <2>3, <2>4, CountedQuiet DEF ToldInv
  <1>3. CASE Daemon
    <2>1. /\ sent # None /\ sent' = None /\ NoFault /\ UNCHANGED <<flags, call, client, last>>
          /\ applied' = IF sent[1][1] = "BEGIN" THEN applied \cup {sent} ELSE applied
      BY <1>3 DEF Daemon
    <2>2. call # None /\ call.step = "recv"
      BY <2>1 DEF ToldInv, Exchange
    <2>3. MakingIt' /\ Exchange'
      BY <2>1, <2>2 DEF MakingIt, Exchange
    <2>4. ASSUME NEW s \in Sets, NEW p \in Asked(s), OnWay(s, p)  PROVE Request(s, p) \in applied'
      <3>1. sent = Request(s, p)
        BY <2>2, <2>4 DEF OnWay
      <3>2. sent[1][1] = "BEGIN"
        BY <3>1, AskedIs, RequestIs
      <3>3. QED
        BY <2>1, <3>1, <3>2
    <2>5. applied \subseteq applied'
      BY <2>1
    <2>6. QED
      BY <2>1, <2>3, <2>4, <2>5, CountedQuiet DEF ToldInv
  <1>4. CASE DaemonDies
    <2>1. sent # None /\ sent' = None /\ Fault /\ UNCHANGED <<flags, call, client, last, applied>>
      BY <1>4 DEF DaemonDies
    <2>2. call # None /\ call.step = "recv"
      BY <2>1 DEF ToldInv, Exchange
    <2>3. MakingIt' /\ Exchange'
      BY <2>1, <2>2 DEF MakingIt, Exchange
    <2>4. QED
      BY <2>1, <2>3, CountedFault DEF ToldInv
  <1>5. CASE HookReturns \/ \E s \in Sets : TsmPre(s) \/ TsmPreFails(s) \/ \E res \in BOOLEAN : TsmPost(s, res)
    <2>1. UNCHANGED <<flags, client, sent, answer, last, applied>> /\ (Fault \/ NoFault)
      BY <1>5 DEF HookReturns, TsmPre, TsmPreFails, TsmPost
    <2>2. call = None \/ call.step = "make"
      BY <1>5 DEF HookReturns, TsmPre, TsmPreFails, TsmPost
    <2>3. call' \in {None, call} \/ \E s \in Sets, t \in {"removed", "added"} : call' = CallOf(s, t)
      BY <1>5 DEF HookReturns, TsmPre, TsmPreFails, TsmPost
    <2>4. \A s, t : CallOf(s, t).step = "make"
      BY DEF CallOf
    <2>5. call' = None \/ call'.step = "make"
      BY <2>2, <2>3, <2>4
    <2>6. MakingIt' /\ Exchange'
      BY <2>1, <2>2, <2>5 DEF ToldInv, MakingIt, Exchange
    <2>7. \A s \in Sets : \A p \in Asked(s) : ~OnWay(s, p)
      BY <2>2 DEF OnWay
    <2>8. QED
      BY <2>1, <2>6, <2>7, CountedQuiet DEF ToldInv
  <1>6. CASE UNCHANGED pluginVars
    <2>1. UNCHANGED <<flags, client, sent, answer, last, applied, call, faults>>
      BY <1>6 DEF pluginVars
    <2>2. \A s, p : Request(s, p)' = Request(s, p)
      BY <2>1, SameRequests
    <2>3. MakingIt' /\ Exchange'
      BY <2>1, <2>2 DEF ToldInv, MakingIt, Exchange, Current
    <2>4. \A s \in Sets : \A p \in Asked(s) : OnWay(s, p) => OnWay(s, p)'
      BY <2>1, <2>2 DEF OnWay
    <2>5. QED
      BY <2>1, <2>3, <2>4, CountedQuiet DEF ToldInv, NoFault
  <1>7. QED
    BY <1>1, <1>2, <1>3, <1>4, <1>5, <1>6, ToldPerform, ToldMake, ToldSend
       DEF PluginNext, PerformNext, DaemonNext, RpmNext

LEMMA ToldInit == PluginInit => ToldInv
  <1> SUFFICES ASSUME PluginInit  PROVE ToldInv
    OBVIOUS
  <1>1. MakingIt /\ Exchange
    BY DEF PluginInit, MakingIt, Exchange
  <1>2. Missing = {}
    <2>1. ASSUME NEW s \in Sets, NEW p \in Asked(s)  PROVE ~(Number(s, p) <= last[s])
      <3>1. PICK t \in {"removed", "added"} : p \in OfType(s, t)
        BY AskedIs, RecordedOne
      <3>2. Number(s, p) \in Nat /\ Number(s, p) > 0
        BY <3>1, NumberIs, CountIs
      <3>3. QED
        BY <3>2 DEF PluginInit
    <2>2. QED
      BY <2>1 DEF Missing, Untold
  <1>3. Counted
    BY <1>2, FS_EmptySet DEF PluginInit, Counted
  <1>4. QED
    BY <1>1, <1>3 DEF ToldInv

LEMMA ToldInvariance == PluginSafe => [](IInv /\ MessageInv /\ ToldInv)
  <1>1. IInv /\ ToldInv /\ [PluginNext]_pluginVars => ToldInv'
    BY ToldStep
  <1>2. QED
    BY <1>1, ToldInit, MessageInvariance, PTL DEF PluginSafe

\* The requests that a set that is done has missed are counted.
LEMMA MissedIs ==
    ASSUME IInv, Counted
    PROVE  MissedByFailure
  <1> DEFINE U == UNION {{<<s, p>> : p \in Missed(s)} : s \in {z \in Sets : phase[z] = "done"}}
  <1>1. U \subseteq Missing
    <2>1. ASSUME NEW s \in Sets, phase[s] = "done", NEW p \in Missed(s)  PROVE <<s, p>> \in Missing
      <3>1. /\ p \in Asked(s) /\ Len(Request(s, p)) < Buffer0 /\ Request(s, p) \notin applied
            /\ p \in Nat /\ p \in Recorded(s)
        BY <2>1, AskedIs DEF Missed
      <3>2. PICK t \in {"removed", "added"} : p \in OfType(s, t)
        BY <3>1, RecordedOne
      <3>3. OfType(s, "added") # {} \/ ~Silent(s)
        BY <3>1 DEF Asked
      <3>4. last[s] = CountOf(s)
        BY <2>1, <3>3 DEF IInv, InOrder, Complete
      <3>5. Number(s, p) <= last[s]
        <4>1. /\ Removals(s) \in Nat /\ CountOf(s) \in Nat /\ Removals(s) <= CountOf(s)
              /\ (t = "removed" => Number(s, p) \in 1..Removals(s))
              /\ (t = "added" => Number(s, p) \in Removals(s) + 1 .. CountOf(s))
          BY <3>2, NumberIs, CountIs, PositionsFinite
        <4>2. QED
          BY <3>4, <4>1
      <3>6. ~OnWay(s, p)
        BY <2>1 DEF OnWay, IInv, CallInPhase
      <3>7. QED
        BY <3>1, <3>5, <3>6, MissingIs DEF Untold
    <2>2. QED
      BY <2>1
  <1> HIDE DEF U
  <1>2. /\ Cardinality(U) <= Cardinality(Missing) /\ Cardinality(U) \in Nat /\ Cardinality(Missing) \in Nat
        /\ Cardinality(Missing) <= faults /\ faults \in Nat
    BY <1>1, FS_Subset, FS_CardinalityType, PluginAssumption DEF Counted, IInv, PluginTypeOK
  <1>3. Cardinality(U) <= faults
    BY <1>2
  <1>4. QED
    BY <1>3 DEF MissedByFailure, U

\* What the daemon receives of a set that is done: without failure, the whole request of every
\* package that the hooks do not skip and whose request fits the first buffer; with failures,
\* no more requests are missed than there were failures; and what it takes for a request
\* describes the package: its number, given to no other, the count and all its files when the
\* request is whole, the first ones when it is cut.  For any sets, elements, flags, failures
\* and size of the first buffer (make_message, put_key_val_nl, tsm_pre_cb, tsm_post_cb).
THEOREM RequestsCorrect == PluginSafe => []RequestsFaithful
  <1>1. IInv /\ MessageInv /\ ToldInv => RequestsFaithful
    <2>1. IInv => Completed
      BY DEF IInv, InOrder, Complete, Completed, Over
    <2>2. QED
      BY <2>1, AppliedIs, MissedIs DEF MessageInv, ToldInv, RequestsFaithful
  <1>2. QED
    BY <1>1, ToldInvariance, PTL

=============================================================================
