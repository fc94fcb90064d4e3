------------------------ MODULE AfmpkgInstall_proofs ------------------------
(***************************************************************************)
(* The session with the security manager and the rollback of failed        *)
(* installations, for any packages, units, failures and number of threads; *)
(* and the check of the signatures of the files of a package.              *)
(***************************************************************************)
EXTENDS AfmpkgInstall, SignedDigest, FiniteSetTheorems, TLAPS

\* The packages that thread t can be asked for.
PackagesOf(t) == UNION {Roots(S) : S \in RequestsOf[t]}

\* Unit k of the package that t processes.
U(t, k) == UnitsOf[Pkg(t)][k]

\* No unit is generated for the packages of two threads.
Apart ==
    \A s, t \in Threads : s # t =>
        \A p \in PackagesOf(s), q \in PackagesOf(t) :
            \A i \in 1..Len(UnitsOf[p]), j \in 1..Len(UnitsOf[q]) :
                UnitsOf[p][i] # UnitsOf[q][j]

\* The current package of a thread is one of its own.
TodoOK ==
    \A t \in Threads :
        /\ todo[t] \in Seq(PackagesOf(t))
        /\ pc[t] \in PackagePlaces => todo[t] # <<>>

----------------------------------------------------------------------------
(* The inductive invariant for the unit files. *)

\* The unit files of the package are as when it was begun.
Same(t) == \A k \in 1..NrUnits(t) : files[U(t, k)] = before[t][U(t, k)]

\* None of them existed: the check has seen it.
WasClear(t) == \A k \in 1..NrUnits(t) : before[t][U(t, k)] = None

\* The units before the current one have no file, or one that could not be removed.
Undone(t) == \A k \in 1..(idx[t] - 1) : files[U(t, k)] = None \/ U(t, k) \in kept[t]

\* While the units are written, their files are those of the package.
Writable(t) == \A k \in 1..NrUnits(t) : files[U(t, k)] \in {None, Pkg(t)}

\* The units before unit n, all of them for a removal that succeeds, existed
\* when the package was begun.
WereThere(t, n) == \A k \in 1..NrUnits(t) : k < n => before[t][U(t, k)] # None

\* A removal creates no file.
Subset(t) == \A k \in 1..NrUnits(t) : files[U(t, k)] # None => before[t][U(t, k)] # None

Phase(t) ==
    /\ pc[t] \in {"prepare", "security", "check", "write", "link", "rollback"} =>
          mode[t] = "Install"
    /\ pc[t] \in {"remove", "setdown"} => mode[t] = "Uninstall"
    /\ pc[t] \in {"check", "write", "link"} => ok[t] = TRUE
    /\ pc[t] \in {"meta", "begin", "prepare", "security", "units", "check"} => Same(t)
    /\ pc[t] = "check" => \A k \in 1..(idx[t] - 1) : files[U(t, k)] = None
    /\ pc[t] \in {"write", "link", "rollback"} => WasClear(t)
    /\ pc[t] \in {"write", "link"} => Writable(t)
    /\ pc[t] = "rollback" => Undone(t)
    /\ pc[t] = "remove" => Subset(t) /\ (ok[t] = TRUE => WereThere(t, idx[t]))
    /\ pc[t] = "setdown" \/ (pc[t] = "end" /\ mode[t] = "Uninstall" /\ ok[t] = TRUE) =>
          WereThere(t, NrUnits(t) + 1)
    /\ pc[t] = "end" /\ mode[t] = "Install" /\ ok[t] = FALSE =>
          \A k \in 1..NrUnits(t) :
              files[U(t, k)] = before[t][U(t, k)] \/ U(t, k) \in kept[t]

IInv == TypeOK /\ TodoOK /\ \A t \in Threads : Phase(t)

----------------------------------------------------------------------------
(* Types. *)

LEMMA PkgType ==
    ASSUME TodoOK, TypeOK, NEW t \in Threads, pc[t] \in PackagePlaces
    PROVE  /\ Pkg(t) \in PackagesOf(t)
           /\ Pkg(t) \in Packages
           /\ UnitsOf[Pkg(t)] \in Seq(Units)
           /\ NrUnits(t) \in Nat
           /\ \A k \in 1..NrUnits(t) : U(t, k) \in Units
           /\ Tail(todo[t]) \in Seq(PackagesOf(t))
  <1>1. todo[t] \in Seq(PackagesOf(t)) /\ todo[t] # <<>>
    BY DEF TodoOK
  <1>2. Pkg(t) \in PackagesOf(t) /\ Tail(todo[t]) \in Seq(PackagesOf(t))
    BY <1>1 DEF Pkg
  <1>3. Pkg(t) \in Packages
    BY <1>2 DEF PackagesOf, Roots
  <1>4. UnitsOf[Pkg(t)] \in Seq(Units)
    BY <1>3, UnitsAssumption
  <1>5. QED
    BY <1>2, <1>3, <1>4 DEF NrUnits, U

\* The orders of detection are sequences of the roots of the request.
LEMMA OrdersType ==
    ASSUME NEW t \in Threads, NEW S \in RequestsOf[t], NEW roots \in DetectOrders(S)
    PROVE  roots \in Seq(PackagesOf(t))
  <1>1. IsFiniteSet(Roots(S))
    BY PackagesAssumption, FS_Subset DEF Roots
  <1>2. Cardinality(Roots(S)) \in Nat
    BY <1>1, FS_CardinalityType
  <1>3. roots \in [1..Cardinality(Roots(S)) -> Roots(S)]
    BY DEF DetectOrders, SetToSeqs
  <1>4. Roots(S) \subseteq PackagesOf(t)
    BY DEF PackagesOf
  <1>5. QED
    BY <1>2, <1>3, <1>4

\* A step that only moves thread t, sets its result and leaves its package or
\* not preserves the types.
LEMMA TypeControl ==
    ASSUME TypeOK, TodoOK, NEW t \in Threads,
           \/ GetManifest(t) \/ AddMeta(t) \/ Begin(t) \/ Prepare(t) \/ SetupSecurity(t)
           \/ ProcessUnits(t) \/ SetdownSecurity(t) \/ Answer(t)
    PROVE  TypeOK' /\ TodoOK'
  <1> USE DEF TypeOK, TodoOK, Goto, SetOk, shared, history, Outcomes, Places,
              PackagePlaces, UnitPlaces, Modes, NrUnits, Pkg
  <1>1. CASE GetManifest(t)
    BY <1>1 DEF GetManifest
  <1>2. CASE AddMeta(t)
    BY <1>2 DEF AddMeta
  <1>3. CASE Begin(t)
    BY <1>3 DEF Begin
  <1>4. CASE Prepare(t)
    BY <1>4 DEF Prepare
  <1>5. CASE SetupSecurity(t)
    <2>1. Own(t) \in SUBSET Entries
      BY DEF Own
    <2>2. handle' \in [Threads -> {None} \cup SUBSET Entries]
      BY <1>5, <2>1 DEF SetupSecurity
    <2>3. QED
      BY <1>5, <2>2 DEF SetupSecurity
  <1>6. CASE ProcessUnits(t)
    <2>1. NrUnits(t) \in Nat
      BY <1>6, PkgType DEF ProcessUnits
    <2>2. pc' \in [Threads -> Places] /\ idx' = [idx EXCEPT ![t] = 1]
      BY <1>6 DEF ProcessUnits
    <2>3. pc'[t] \in UnitPlaces => NrUnits(t) > 0
      BY <1>6 DEF ProcessUnits
    <2>4. pc[t] \in PackagePlaces /\ \A s \in Threads \ {t} : pc'[s] = pc[s]
      BY <1>6 DEF ProcessUnits
    <2>5. \A s \in Threads : pc'[s] \in UnitPlaces => idx'[s] \in 1..Len(UnitsOf[Head(todo[s])])
      BY <2>1, <2>2, <2>3, <2>4
    <2>6. ok' \in [Threads -> BOOLEAN]
      BY <1>6 DEF ProcessUnits
    <2>7. TypeOK'
      BY <1>6, <2>2, <2>5, <2>6 DEF ProcessUnits
    <2>8. TodoOK'
      BY <1>6, <2>4 DEF ProcessUnits
    <2>9. QED
      BY <2>7, <2>8
  <1>7. CASE SetdownSecurity(t)
    <2>1. handle' \in [Threads -> {None} \cup SUBSET Entries]
      <3>1. PICK T \in SUBSET Own(t) : handle' = [handle EXCEPT ![t] = T]
        BY <1>7 DEF SetdownSecurity
      <3>2. T \in SUBSET Entries
        BY DEF Own
      <3>3. QED
        BY <3>1, <3>2
    <2>2. QED
      BY <1>7, <2>1 DEF SetdownSecurity
  <1>8. CASE Answer(t)
    BY <1>8 DEF Answer
  <1>9. QED
    BY <1>1, <1>2, <1>3, <1>4, <1>5, <1>6, <1>7, <1>8

\* Advance to a place that is not on a unit, or stay on the units.
LEMMA TypeAdvance ==
    ASSUME TypeOK, TodoOK, NEW t \in Threads, NEW again \in UnitPlaces, NEW next \in Places,
           pc[t] \in UnitPlaces, next \in UnitPlaces => next = "write", Advance(t, again, next),
           UNCHANGED todo
    PROVE  /\ pc' \in [Threads -> Places]
           /\ idx' \in [Threads -> Nat]
           /\ \A s \in Threads : pc'[s] \in UnitPlaces => idx'[s] \in 1..NrUnits(s)'
           /\ next \in PackagePlaces => TodoOK'
  <1>1. pc[t] \in PackagePlaces
    BY DEF PackagePlaces
  <1>2. NrUnits(t) \in Nat /\ idx[t] \in 1..NrUnits(t)
    BY <1>1, PkgType DEF TypeOK
  <1>3. idx'[t] \in 1..NrUnits(t)
    BY <1>2 DEF Advance, TypeOK
  <1>4. \A s \in Threads : NrUnits(s)' = NrUnits(s)
    BY DEF NrUnits, Pkg
  <1>5. \A s \in Threads \ {t} : pc'[s] = pc[s] /\ idx'[s] = idx[s]
    BY DEF Advance, Goto, TypeOK
  <1>6. again \in Places /\ UnitPlaces \subseteq PackagePlaces
    BY DEF Places, PackagePlaces
  <1>7. pc' \in [Threads -> Places] /\ idx' \in [Threads -> Nat]
    BY <1>2, <1>6 DEF Advance, Goto, TypeOK
  <1>8. pc'[t] \in {again, next}
    BY DEF Advance, Goto, TypeOK
  <1>9. TypeOK => \A s \in Threads \ {t} : pc[s] \in UnitPlaces => idx[s] \in 1..NrUnits(s)
    BY DEF TypeOK
  <1>10. next \in PackagePlaces => TodoOK'
    BY <1>1, <1>5, <1>6, <1>8 DEF TodoOK
  <1>11. QED
    BY <1>3, <1>4, <1>5, <1>7, <1>9, <1>10

LEMMA TypeRollback ==
    ASSUME TypeOK, TodoOK, NEW t \in Threads, pc[t] \in UnitPlaces, GotoRollback(t),
           UNCHANGED todo
    PROVE  /\ pc' \in [Threads -> Places]
           /\ idx' \in [Threads -> Nat]
           /\ \A s \in Threads : pc'[s] \in UnitPlaces => idx'[s] \in 1..NrUnits(s)'
           /\ ok' \in [Threads -> BOOLEAN]
           /\ TodoOK'
  <1>1. pc[t] \in PackagePlaces /\ UnitPlaces \subseteq Places
    BY DEF PackagePlaces, Places
  <1>2. NrUnits(t) \in Nat /\ idx[t] \in 1..NrUnits(t)
    BY <1>1, PkgType DEF TypeOK
  <1>3. /\ pc' = [pc EXCEPT ![t] = "rollback"]
        /\ idx' = [idx EXCEPT ![t] = 1]
        /\ ok' = [ok EXCEPT ![t] = FALSE]
    BY DEF GotoRollback, RollbackIndex, Goto, SetOk
  <1>4. \A s \in Threads : NrUnits(s)' = NrUnits(s)
    BY DEF NrUnits, Pkg
  <1>5. pc' \in [Threads -> Places] /\ idx' \in [Threads -> Nat] /\ ok' \in [Threads -> BOOLEAN]
    BY <1>1, <1>3 DEF TypeOK, UnitPlaces
  <1>6. TodoOK'
    BY <1>1, <1>3 DEF TodoOK, TypeOK
  <1>7. QED
    BY <1>2, <1>3, <1>4, <1>5, <1>6 DEF TypeOK

LEMMA TypeUnlink ==
    ASSUME TypeOK, TodoOK, NEW t \in Threads, pc[t] \in UnitPlaces,
           NEW fileOk \in BOOLEAN, NEW linkOk \in BOOLEAN, UnlinkUnit(t, fileOk, linkOk)
    PROVE  /\ files' \in [Units -> Packages \cup {None}]
           /\ links' \subseteq Units
           /\ kept' \in [Threads -> SUBSET Units]
  <1>1. Unit(t) \in Units
    BY PkgType DEF TypeOK, PackagePlaces, Unit, U
  <1>2. QED
    BY <1>1 DEF UnlinkUnit, TypeOK

LEMMA TypeUnits ==
    ASSUME TypeOK, TodoOK, NEW t \in Threads,
           CheckUnit(t) \/ WriteUnit(t) \/ LinkUnit(t) \/ RollbackUnit(t) \/ RemoveUnit(t)
    PROVE  TypeOK' /\ TodoOK'
  <1>1. pc[t] \in UnitPlaces /\ UnitPlaces \subseteq PackagePlaces /\ PackagePlaces \subseteq Places
    BY DEF CheckUnit, WriteUnit, LinkUnit, RollbackUnit, RemoveUnit, UnitPlaces, PackagePlaces,
           Places
  <1>2. Unit(t) \in Units /\ Pkg(t) \in Packages
    BY <1>1, PkgType DEF TypeOK, Unit, U
  <1>3. {"end", "setdown", "write"} \subseteq PackagePlaces
        /\ {"end", "setdown"} \cap UnitPlaces = {} /\ {"check", "write", "rollback", "remove"} \subseteq UnitPlaces
    BY DEF PackagePlaces, UnitPlaces
  <1>4. CASE CheckUnit(t)
    <2>1. CASE Advance(t, "check", "write") /\ UNCHANGED ok
      BY <1>1, <1>3, <1>4, <2>1, TypeAdvance DEF CheckUnit, TypeOK, shared, history
    <2>2. CASE SetOk(t, FALSE) /\ Goto(t, "end") /\ UNCHANGED idx
      BY <1>1, <1>3, <1>4, <2>2 DEF CheckUnit, TypeOK, TodoOK, shared, history, SetOk, Goto, NrUnits, Pkg
    <2>3. QED
      BY <1>4, <2>1, <2>2 DEF CheckUnit
  <1>5. CASE WriteUnit(t)
    <2>1. files' \in [Units -> Packages \cup {None}]
      BY <1>2, <1>5 DEF WriteUnit, TypeOK
    <2>2. CASE Goto(t, "link") /\ UNCHANGED <<idx, ok>>
      BY <1>1, <1>5, <2>1, <2>2
         DEF WriteUnit, TypeOK, TodoOK, history, Goto, NrUnits, Pkg, UnitPlaces
    <2>3. CASE Advance(t, "write", "end") /\ UNCHANGED ok
      BY <1>1, <1>3, <1>5, <2>1, <2>3, TypeAdvance DEF WriteUnit, TypeOK, history
    <2>4. CASE GotoRollback(t)
      BY <1>1, <1>5, <2>1, <2>4, TypeRollback DEF WriteUnit, TypeOK, history
    <2>5. QED
      BY <1>5, <2>2, <2>3, <2>4 DEF WriteUnit
  <1>6. CASE LinkUnit(t)
    <2>1. CASE links' = links \ {Unit(t)} /\ GotoRollback(t)
      BY <1>1, <1>6, <2>1, TypeRollback DEF LinkUnit, TypeOK, history
    <2>2. CASE links' = links \cup {Unit(t)} /\ Advance(t, "write", "end") /\ UNCHANGED ok
      BY <1>1, <1>2, <1>3, <1>6, <2>2, TypeAdvance DEF LinkUnit, TypeOK, history
    <2>3. QED
      BY <1>6, <2>1, <2>2 DEF LinkUnit
  <1>7. CASE RollbackUnit(t)
    BY <1>1, <1>3, <1>7, TypeAdvance, TypeUnlink DEF RollbackUnit, TypeOK
  <1>8. CASE RemoveUnit(t)
    <2>1. PICK fileOk \in BOOLEAN, linkOk \in BOOLEAN :
             /\ UnlinkUnit(t, fileOk, linkOk)
             /\ SetOk(t, RemoveResult(t, fileOk, linkOk))
             /\ \/ Advance(t, "remove", "setdown")
                \/ Advance(t, "remove", "end")
      BY <1>8 DEF RemoveUnit
    <2>2. ok' \in [Threads -> BOOLEAN]
      BY <2>1 DEF SetOk, RemoveResult, TypeOK
    <2>3. QED
      BY <1>1, <1>3, <1>8, <2>1, <2>2, TypeAdvance, TypeUnlink DEF RemoveUnit, TypeOK
  <1>9. QED
    BY <1>4, <1>5, <1>6, <1>7, <1>8

\* The steps of the loop on the package roots.
LEMMA TypeLoop ==
    ASSUME TypeOK, TodoOK, NEW t \in Threads,
           Start(t) \/ End(t) \/ Leave(t) \/ DefaultTree(t)
    PROVE  TypeOK' /\ TodoOK'
  <1>1. CASE Start(t)
    <2>0. PICK m \in Modes, S \in RequestsOf[t], b \in Outcomes("detect") :
            \E roots \in DetectOrders(S) :
             /\ mode' = [mode EXCEPT ![t] = m]
             /\ asked' = [asked EXCEPT ![t] = S]
             /\ left' = [left EXCEPT ![t] = S]
             /\ todo' = [todo EXCEPT ![t] = roots]
             /\ SetOk(t, b)
             /\ Goto(t, IF b THEN LoopPlace(roots) ELSE "answer")
      BY <1>1 DEF Start
    <2>1. PICK roots \in DetectOrders(S) :
             /\ mode' = [mode EXCEPT ![t] = m]
             /\ asked' = [asked EXCEPT ![t] = S]
             /\ left' = [left EXCEPT ![t] = S]
             /\ todo' = [todo EXCEPT ![t] = roots]
             /\ SetOk(t, b)
             /\ Goto(t, IF b THEN LoopPlace(roots) ELSE "answer")
      BY <2>0
    <2>2. roots \in Seq(PackagesOf(t)) /\ S \in SUBSET Entries
      BY OrdersType, RequestsAssumption
    <2>3. roots \in Seq(Packages)
      BY <2>2 DEF PackagesOf, Roots
    <2>4. b \in BOOLEAN
      BY DEF Outcomes
    <2>5. /\ mode' \in [Threads -> Modes] /\ asked' \in [Threads -> SUBSET Entries]
          /\ left' \in [Threads -> SUBSET Entries] /\ todo' \in [Threads -> Seq(Packages)]
          /\ ok' \in [Threads -> BOOLEAN]
      BY <2>1, <2>2, <2>3, <2>4 DEF TypeOK, SetOk
    <2>6. /\ pc' \in [Threads -> Places]
          /\ pc'[t] \in {"manifest", "default", "answer"}
          /\ pc'[t] = "manifest" => roots # <<>>
          /\ \A s \in Threads \ {t} : pc'[s] = pc[s] /\ todo'[s] = todo[s]
          /\ todo'[t] = roots
      BY <2>1 DEF TypeOK, Goto, LoopPlace, Places, PackagePlaces
    <2>7. jobs' \in 0..MaxJobs
      BY <1>1, JobsAssumption DEF Start, TypeOK
    <2>8. TodoOK'
      BY <2>2, <2>6 DEF TodoOK, PackagePlaces, UnitPlaces
    <2>9. \A s \in Threads : pc'[s] \in UnitPlaces => idx'[s] \in 1..NrUnits(s)'
      BY <1>1, <2>6 DEF Start, TypeOK, UnitPlaces, NrUnits, Pkg
    <2>10. QED
      BY <1>1, <2>5, <2>6, <2>7, <2>8, <2>9 DEF Start, TypeOK, shared, history
  <1>2. CASE End(t)
    <2>1. Pkg(t) \in Packages
      BY <1>2, PkgType DEF End, PackagePlaces
    <2>2. lsm' \subseteq Packages /\ label' \in [Entries -> Labels]
      <3>1. CASE LsmCommit(t)
        BY <2>1, <3>1 DEF LsmCommit, TypeOK, Labels
      <3>2. CASE UNCHANGED <<lsm, label>>
        BY <3>2 DEF TypeOK
      <3>3. QED
        BY <1>2, <3>1, <3>2 DEF End
    <2>3. ok' \in [Threads -> BOOLEAN]
      BY <1>2 DEF End, SetOk, TypeOK
    <2>4. handle' \in [Threads -> {None} \cup SUBSET Entries]
      BY <1>2 DEF End, Release, TypeOK
    <2>5. pc' \in [Threads -> Places] /\ pc'[t] = "leave"
          /\ \A s \in Threads \ {t} : pc'[s] = pc[s]
      BY <1>2 DEF End, Goto, TypeOK, Places, PackagePlaces
    <2>6. TodoOK'
      BY <1>2, <2>5 DEF End, TodoOK, PackagePlaces
    <2>7. \A s \in Threads : pc'[s] \in UnitPlaces => idx'[s] \in 1..NrUnits(s)'
      BY <1>2, <2>5 DEF End, TypeOK, UnitPlaces, NrUnits, Pkg
    <2>8. QED
      BY <1>2, <2>2, <2>3, <2>4, <2>5, <2>6, <2>7 DEF End, TypeOK, history
  <1>3. CASE Leave(t)
    <2>1. Tail(todo[t]) \in Seq(PackagesOf(t))
      BY <1>3, PkgType DEF Leave, PackagePlaces
    <2>2. Tail(todo[t]) \in Seq(Packages)
      BY <2>1 DEF PackagesOf, Roots
    <2>3. /\ pc' \in [Threads -> Places]
          /\ pc'[t] \in {"manifest", "default", "answer"}
          /\ pc'[t] = "manifest" => Tail(todo[t]) # <<>>
          /\ \A s \in Threads \ {t} : pc'[s] = pc[s]
      BY <1>3 DEF Leave, TypeOK, Goto, LoopPlace, Places, PackagePlaces
    <2>4. /\ todo' \in [Threads -> Seq(Packages)] /\ todo'[t] = Tail(todo[t])
          /\ \A s \in Threads \ {t} : todo'[s] = todo[s]
      BY <1>3, <2>2 DEF Leave, TypeOK
    <2>5. left' \in [Threads -> SUBSET Entries]
      BY <1>3 DEF Leave, TypeOK
    <2>6. TodoOK'
      BY <2>1, <2>3, <2>4 DEF TodoOK, PackagePlaces, UnitPlaces
    <2>7. \A s \in Threads : pc'[s] \in UnitPlaces => idx'[s] \in 1..NrUnits(s)'
      BY <1>3, <2>3, <2>4 DEF Leave, TypeOK, UnitPlaces, NrUnits, Pkg
    <2>8. QED
      BY <1>3, <2>3, <2>4, <2>5, <2>6, <2>7 DEF Leave, TypeOK, shared, history
  <1>4. CASE DefaultTree(t)
    <2>1. label' \in [Entries -> Labels]
      BY <1>4 DEF DefaultTree, TypeOK, Labels
    <2>2. ok' \in [Threads -> BOOLEAN]
      BY <1>4 DEF DefaultTree, SetOk, TypeOK
    <2>3. pc' \in [Threads -> Places] /\ pc'[t] = "answer"
          /\ \A s \in Threads \ {t} : pc'[s] = pc[s]
      BY <1>4 DEF DefaultTree, Goto, TypeOK, Places
    <2>4. TodoOK'
      BY <1>4, <2>3 DEF DefaultTree, TodoOK, PackagePlaces, UnitPlaces
    <2>5. \A s \in Threads : pc'[s] \in UnitPlaces => idx'[s] \in 1..NrUnits(s)'
      BY <1>4, <2>3 DEF DefaultTree, TypeOK, UnitPlaces, NrUnits, Pkg
    <2>6. QED
      BY <1>4, <2>1, <2>2, <2>3, <2>4, <2>5 DEF DefaultTree, TypeOK, history
  <1>5. QED
    BY <1>1, <1>2, <1>3, <1>4

LEMMA TypeInit == Init => TypeOK /\ TodoOK
  <1>1. Init => TodoOK
    BY DEF Init, TodoOK, PackagePlaces, UnitPlaces
  <1>2. Init => TypeOK
    BY JobsAssumption DEF Init, TypeOK, Labels, Places, UnitPlaces, Modes
  <1>3. QED
    BY <1>1, <1>2

LEMMA TypeStep == TypeOK /\ TodoOK /\ [Next]_vars => TypeOK' /\ TodoOK'
  <1>1. SUFFICES ASSUME TypeOK, TodoOK, [Next]_vars PROVE TypeOK' /\ TodoOK'
    OBVIOUS
  <1>2. CASE Next
    <2>1. PICK t \in Threads : ThreadNext(t)
      BY <1>2 DEF Next
    <2>2. QED
      BY <1>1, <2>1, TypeControl, TypeUnits, TypeLoop DEF ThreadNext
  <1>3. CASE UNCHANGED vars
    BY <1>1, <1>3 DEF TypeOK, TodoOK, vars, NrUnits, Pkg
  <1>4. QED
    BY <1>1, <1>2, <1>3

\* The variables keep their types, and a thread that works on a unit works on
\* one of the units generated for its current package: do_uninstall_units and
\* install_units never index beyond the array of units.
THEOREM TypeCorrect == Spec => []TypeOK
  <1>1. Spec => [](TypeOK /\ TodoOK)
    BY TypeInit, TypeStep, PTL DEF Spec
  <1>2. QED
    BY <1>1, PTL

----------------------------------------------------------------------------
(* The session with the security manager. *)

LEMMA ReleaseStep == TypeOK /\ HandleReleased /\ [Next]_vars => HandleReleased'
  <1>1. SUFFICES ASSUME TypeOK, HandleReleased, [Next]_vars PROVE HandleReleased'
    OBVIOUS
  <1>2. CASE Next
    <2>1. PICK t \in Threads : ThreadNext(t)
      BY <1>2 DEF Next
    <2>2. \A s \in Threads \ {t} : pc'[s] = pc[s] /\ handle'[s] = handle[s]
      BY <1>1, <2>1
         DEF TypeOK, ThreadNext, Start, GetManifest, AddMeta, Begin, Prepare, SetupSecurity,
             ProcessUnits, CheckUnit, WriteUnit, LinkUnit, RollbackUnit, RemoveUnit,
             SetdownSecurity, End, Leave, DefaultTree, Answer, Release, Advance, Goto, GotoRollback
    <2>3. CASE End(t)
      BY <1>1, <2>2, <2>3 DEF TypeOK, HandleReleased, End, Release
    <2>4. CASE \/ Start(t) \/ GetManifest(t) \/ AddMeta(t) \/ Leave(t) \/ DefaultTree(t) \/ Answer(t)
      <3>1. handle' = handle /\ handle[t] = None
        BY <1>1, <2>4 DEF HandleReleased, Start, GetManifest, AddMeta, Leave, DefaultTree, Answer
      <3>2. QED
        BY <1>1, <2>2, <3>1 DEF HandleReleased
    <2>5. CASE \/ Begin(t) \/ Prepare(t) \/ SetupSecurity(t) \/ ProcessUnits(t) \/ CheckUnit(t)
               \/ WriteUnit(t) \/ LinkUnit(t) \/ RollbackUnit(t) \/ RemoveUnit(t)
               \/ SetdownSecurity(t)
      <3>1. pc'[t] \in {"end", "prepare", "security", "units", "setdown"} \cup UnitPlaces
        BY <1>1, <2>5
           DEF TypeOK, Modes, Begin, Prepare, SetupSecurity, ProcessUnits, CheckUnit, WriteUnit,
               LinkUnit, RollbackUnit, RemoveUnit, SetdownSecurity, Advance, Goto, GotoRollback,
               UnitPlaces
      <3>2. QED
        BY <1>1, <2>2, <3>1 DEF HandleReleased, UnitPlaces
    <2>6. QED
      BY <2>1, <2>3, <2>4, <2>5 DEF ThreadNext
  <1>3. CASE UNCHANGED vars
    BY <1>1, <1>3 DEF HandleReleased, vars
  <1>4. QED
    BY <1>1, <1>2, <1>3

\* Whatever call fails, the handle that begin got from the security manager
\* is destroyed by end before the next package, the default tree or the answer.
THEOREM HandlesReleased == Spec => []HandleReleased
  <1>1. Init => HandleReleased
    BY DEF Init, HandleReleased
  <1>2. QED
    BY <1>1, ReleaseStep, TypeCorrect, PTL DEF Spec

----------------------------------------------------------------------------
(* The rollback: what the other threads leave alone. *)

\* A step of t leaves the state of the other threads, and changes at most the
\* file of the unit t works on.
LEMMA OtherState ==
    ASSUME TypeOK, TodoOK, NEW t \in Threads, ThreadNext(t), NEW s \in Threads \ {t}
    PROVE  /\ pc'[s] = pc[s] /\ mode'[s] = mode[s] /\ todo'[s] = todo[s] /\ idx'[s] = idx[s]
           /\ ok'[s] = ok[s] /\ before'[s] = before[s] /\ kept'[s] = kept[s]
  <1> USE DEF TypeOK, ThreadNext, Start, GetManifest, AddMeta, Begin, Prepare, SetupSecurity,
              ProcessUnits, CheckUnit, WriteUnit, LinkUnit, RollbackUnit, RemoveUnit,
              SetdownSecurity, End, Leave, DefaultTree, Answer, Advance, Goto, SetOk,
              GotoRollback, UnlinkUnit, shared, history
  <1>1. pc'[s] = pc[s] /\ mode'[s] = mode[s]
    OBVIOUS
  <1>2. todo'[s] = todo[s] /\ idx'[s] = idx[s]
    OBVIOUS
  <1>3. ok'[s] = ok[s]
    OBVIOUS
  <1>4. before'[s] = before[s] /\ kept'[s] = kept[s]
    OBVIOUS
  <1>5. QED
    BY <1>1, <1>2, <1>3, <1>4

LEMMA OtherFiles ==
    ASSUME TypeOK, TodoOK, NEW t \in Threads, ThreadNext(t), NEW u \in Units
    PROVE  files'[u] = files[u] \/ (pc[t] \in UnitPlaces /\ u = Unit(t))
  <1>1. CASE WriteUnit(t)
    BY <1>1 DEF WriteUnit, TypeOK, UnitPlaces
  <1>2. CASE RollbackUnit(t) \/ RemoveUnit(t)
    BY <1>2 DEF RollbackUnit, RemoveUnit, UnlinkUnit, TypeOK, UnitPlaces
  <1>3. CASE ~(WriteUnit(t) \/ RollbackUnit(t) \/ RemoveUnit(t))
    BY <1>3 DEF ThreadNext, Start, GetManifest, AddMeta, Begin, Prepare, SetupSecurity,
                ProcessUnits, CheckUnit, LinkUnit, SetdownSecurity, End, Leave, DefaultTree,
                Answer, shared
  <1>4. QED
    BY <1>1, <1>2, <1>3

LEMMA PhaseOther ==
    ASSUME Apart, IInv, NEW t \in Threads, ThreadNext(t), NEW s \in Threads \ {t}
    PROVE  Phase(s)'
  <1>1. TypeOK /\ TodoOK /\ Phase(s)
    BY DEF IInv
  <1>2. /\ pc'[s] = pc[s] /\ mode'[s] = mode[s] /\ todo'[s] = todo[s] /\ idx'[s] = idx[s]
        /\ ok'[s] = ok[s] /\ before'[s] = before[s] /\ kept'[s] = kept[s]
    BY <1>1, OtherState
  <1>3. Pkg(s)' = Pkg(s) /\ NrUnits(s)' = NrUnits(s) /\ \A k : U(s, k)' = U(s, k)
    BY <1>2 DEF Pkg, NrUnits, U
  <1>4. CASE pc[s] \in PackagePlaces
    <2>1. /\ Pkg(s) \in PackagesOf(s) /\ NrUnits(s) \in Nat
          /\ \A k \in 1..NrUnits(s) : U(s, k) \in Units
      BY <1>1, <1>4, PkgType
    <2>2. ASSUME NEW k \in 1..NrUnits(s) PROVE files'[U(s, k)] = files[U(s, k)]
      <3>1. CASE pc[t] \in UnitPlaces
        <4>1. Pkg(t) \in PackagesOf(t) /\ idx[t] \in 1..NrUnits(t)
          BY <1>1, <3>1, PkgType DEF TypeOK, PackagePlaces
        <4>2. U(s, k) # Unit(t)
          BY <2>1, <2>2, <4>1 DEF Apart, U, Unit, NrUnits
        <4>3. QED
          BY <1>1, <2>1, <2>2, <4>2, OtherFiles
      <3>2. CASE pc[t] \notin UnitPlaces
        BY <1>1, <2>1, <2>2, <3>2, OtherFiles
      <3>3. QED
        BY <3>1, <3>2
    <2>3. pc[s] \in UnitPlaces => \A k \in 1..(idx[s] - 1) : k \in 1..NrUnits(s)
      BY <1>1, <2>1 DEF TypeOK
    <2>4. Same(s) => Same(s)'
      BY <1>2, <1>3, <2>2 DEF Same
    <2>5. WasClear(s) => WasClear(s)'
      BY <1>2, <1>3 DEF WasClear
    <2>6. pc[s] \in UnitPlaces /\ Undone(s) => Undone(s)'
      BY <1>2, <1>3, <2>2, <2>3 DEF Undone
    <2>7. pc'[s] = "check" => \A k \in 1..(idx'[s] - 1) : files'[U(s, k)'] = None
      BY <1>1, <1>2, <1>3, <2>2, <2>3 DEF Phase, UnitPlaces
    <2>8. pc'[s] = "end" /\ mode'[s] = "Install" /\ ok'[s] = FALSE =>
            \A k \in 1..NrUnits(s)' :
               files'[U(s, k)'] = before'[s][U(s, k)'] \/ U(s, k)' \in kept'[s]
      BY <1>1, <1>2, <1>3, <2>2 DEF Phase
    <2>9. Writable(s) => Writable(s)'
      BY <1>3, <2>2 DEF Writable
    <2>10. Subset(s) => Subset(s)'
      BY <1>2, <1>3, <2>2 DEF Subset
    <2>11. /\ WereThere(s, idx[s]) => WereThere(s, idx[s])'
           /\ WereThere(s, NrUnits(s) + 1) => WereThere(s, NrUnits(s) + 1)'
      BY <1>2, <1>3 DEF WereThere
    <2>12. QED
      BY <1>1, <1>2, <2>4, <2>5, <2>6, <2>7, <2>8, <2>9, <2>10, <2>11 DEF Phase, UnitPlaces
  <1>5. CASE pc[s] \notin PackagePlaces
    BY <1>2, <1>5 DEF Phase, PackagePlaces, UnitPlaces
  <1>6. QED
    BY <1>4, <1>5

----------------------------------------------------------------------------
(* The rollback: what the thread itself does. *)

\* Away from the units, and from the end of a failed installation, there is
\* nothing to show.
LEMMA PhaseLoop ==
    ASSUME IInv, NEW t \in Threads, Start(t) \/ End(t) \/ Leave(t) \/ DefaultTree(t) \/ Answer(t)
    PROVE  Phase(t)'
  <1>1. pc'[t] \in {"manifest", "default", "answer", "leave", "idle"}
    BY DEF IInv, TypeOK, Start, End, Leave, DefaultTree, Answer, Goto, LoopPlace
  <1>2. QED
    BY <1>1 DEF Phase

\* do_uninstall_units goes on after an error but remembers it: as long as the
\* result is good, every unit it has passed was there.
LEMMA PhaseRemove ==
    ASSUME IInv, NEW t \in Threads, RemoveUnit(t)
    PROVE  Phase(t)'
  <1>1. TypeOK /\ TodoOK /\ Phase(t) /\ pc[t] = "remove"
    BY DEF IInv, RemoveUnit
  <1>2. Subset(t) /\ (ok[t] = TRUE => WereThere(t, idx[t])) /\ mode[t] = "Uninstall"
    BY <1>1 DEF Phase
  <1>3. todo' = todo /\ mode' = mode /\ before' = before
    BY DEF RemoveUnit
  <1>4. NrUnits(t)' = NrUnits(t) /\ \A k : U(t, k)' = U(t, k)
    BY <1>3 DEF NrUnits, U, Pkg
  <1>5. /\ NrUnits(t) \in Nat /\ idx[t] \in 1..NrUnits(t)
        /\ \A k \in 1..NrUnits(t) : U(t, k) \in Units
    BY <1>1, PkgType DEF TypeOK, PackagePlaces, UnitPlaces
  <1>6. PICK fileOk \in BOOLEAN, linkOk \in BOOLEAN :
           /\ UnlinkUnit(t, fileOk, linkOk)
           /\ SetOk(t, RemoveResult(t, fileOk, linkOk))
           /\ Advance(t, "remove", IF RemoveResult(t, fileOk, linkOk) THEN "setdown" ELSE "end")
    BY DEF RemoveUnit
  <1>7. Subset(t)'
    <2>1. \A u \in Units : files'[u] # None => files[u] # None
      BY <1>1, <1>6 DEF UnlinkUnit, TypeOK
    <2>2. QED
      BY <1>2, <1>3, <1>4, <1>5, <2>1 DEF Subset
  <1>8. ok'[t] = RemoveResult(t, fileOk, linkOk) /\ ok'[t] \in BOOLEAN
    BY <1>1, <1>6 DEF SetOk, RemoveResult, TypeOK
  <1>9. ASSUME ok'[t] = TRUE PROVE WereThere(t, idx[t] + 1)
    <2>1. ok[t] = TRUE /\ fileOk
      BY <1>1, <1>8, <1>9 DEF RemoveResult, TypeOK
    <2>2. files[Unit(t)] # None
      BY <1>6, <2>1 DEF UnlinkUnit, FileExists
    <2>3. before[t][U(t, idx[t])] # None
      BY <1>2, <1>5, <2>2 DEF Subset, U, Unit
    <2>4. QED
      BY <1>2, <1>5, <2>1, <2>3 DEF WereThere
  <1>10. CASE idx[t] < NrUnits(t)
    <2>1. pc'[t] = "remove" /\ idx'[t] = idx[t] + 1
      BY <1>1, <1>6, <1>10 DEF Advance, Goto, TypeOK
    <2>2. ok'[t] = TRUE => WereThere(t, idx[t])'
      BY <1>3, <1>4, <1>9, <2>1 DEF WereThere
    <2>3. QED
      BY <1>2, <1>3, <1>7, <2>1, <2>2 DEF Phase
  <1>11. CASE idx[t] = NrUnits(t)
    <2>1. pc'[t] \in {"setdown", "end"} /\ (pc'[t] = "setdown" => ok'[t] = TRUE)
      BY <1>1, <1>5, <1>6, <1>8, <1>11 DEF Advance, Goto, TypeOK
    <2>2. ok'[t] = TRUE => WereThere(t, NrUnits(t) + 1)'
      BY <1>3, <1>4, <1>9, <1>11 DEF WereThere
    <2>3. QED
      BY <1>2, <1>3, <2>1, <2>2 DEF Phase
  <1>12. QED
    BY <1>5, <1>10, <1>11

LEMMA PhaseSetdown ==
    ASSUME IInv, NEW t \in Threads, SetdownSecurity(t)
    PROVE  Phase(t)'
  <1>1. TypeOK /\ mode[t] = "Uninstall" /\ WereThere(t, NrUnits(t) + 1)
    BY DEF IInv, Phase, SetdownSecurity
  <1>2. pc'[t] = "end" /\ mode' = mode
    BY <1>1 DEF TypeOK, SetdownSecurity, Goto
  <1>3. WereThere(t, NrUnits(t) + 1)'
    BY <1>1 DEF WereThere, SetdownSecurity, NrUnits, U, Pkg, history
  <1>4. QED
    BY <1>1, <1>2, <1>3 DEF Phase

LEMMA PhaseBefore ==
    ASSUME IInv, NEW t \in Threads,
           \/ GetManifest(t) \/ AddMeta(t) \/ Begin(t) \/ Prepare(t) \/ SetupSecurity(t)
           \/ ProcessUnits(t)
    PROVE  Phase(t)'
  <1>1. TypeOK /\ TodoOK /\ Phase(t)
    BY DEF IInv
  <1>2. files' = files /\ todo' = todo /\ mode' = mode
    BY DEF GetManifest, AddMeta, Begin, Prepare, SetupSecurity, ProcessUnits, shared
  <1>3. NrUnits(t)' = NrUnits(t) /\ \A k : U(t, k)' = U(t, k)
    BY <1>2 DEF NrUnits, U, Pkg
  <1>4. Same(t)'
    <2>1. CASE GetManifest(t)
      BY <1>1, <1>2, <2>1 DEF GetManifest, Same, TypeOK
    <2>2. CASE AddMeta(t) \/ Begin(t) \/ Prepare(t) \/ SetupSecurity(t) \/ ProcessUnits(t)
      <3>1. before' = before /\ Same(t)
        BY <1>1, <2>2
           DEF Phase, AddMeta, Begin, Prepare, SetupSecurity, ProcessUnits, history
      <3>2. QED
        BY <1>2, <1>3, <3>1 DEF Same
    <2>3. QED
      BY <2>1, <2>2
  <1>5. /\ pc'[t] \in {"prepare", "security", "check"} => mode[t] = "Install"
        /\ pc'[t] \in {"remove", "setdown"} => mode[t] = "Uninstall"
        /\ pc'[t] \in {"check", "remove"} => ok'[t] = TRUE /\ idx'[t] = 1
        /\ pc'[t] \in {"meta", "begin", "prepare", "security", "units", "check", "remove",
                       "setdown", "end", "leave"}
    BY <1>1
       DEF TypeOK, Modes, Phase, GetManifest, AddMeta, Begin, Prepare, SetupSecurity,
           ProcessUnits, Goto, SetOk
  <1>6. ~(pc'[t] = "end" /\ mode[t] = "Uninstall" /\ ok'[t] = TRUE)
    <2>1. CASE ProcessUnits(t)
      <3>1. PICK b \in BOOLEAN : ok'[t] = b /\ (b /\ pc'[t] = "end" => mode[t] = "Install")
        BY <1>1, <2>1 DEF TypeOK, Modes, ProcessUnits, Goto, SetOk, Outcomes
      <3>2. QED
        BY <3>1
    <2>2. CASE GetManifest(t) \/ AddMeta(t) \/ Begin(t)
      BY <1>1, <2>2 DEF TypeOK, Modes, GetManifest, AddMeta, Begin, Goto, SetOk, Outcomes
    <2>3. CASE Prepare(t) \/ SetupSecurity(t)
      BY <1>1, <2>3 DEF Phase, Prepare, SetupSecurity
    <2>4. QED
      BY <2>1, <2>2, <2>3
  <1>7. pc'[t] = "setdown" => ~(NrUnits(t) > 0)
    <2>1. CASE ProcessUnits(t)
      BY <1>1, <2>1 DEF TypeOK, Modes, ProcessUnits, Goto
    <2>2. CASE ~ProcessUnits(t)
      <3>1. pc'[t] # "setdown"
        BY <1>1, <2>2
           DEF TypeOK, Modes, GetManifest, AddMeta, Begin, Prepare, SetupSecurity, Goto
      <3>2. QED
        BY <3>1
    <2>3. QED
      BY <2>1, <2>2
  <1>8. pc'[t] = "setdown" => WereThere(t, NrUnits(t) + 1)'
    <2>1. NrUnits(t) \in Nat
      BY <1>1, PkgType
         DEF GetManifest, AddMeta, Begin, Prepare, SetupSecurity, ProcessUnits, PackagePlaces
    <2>2. QED
      BY <1>3, <1>7, <2>1 DEF WereThere
  <1>9. Subset(t)' /\ (idx'[t] = 1 => WereThere(t, idx[t])')
    BY <1>4 DEF Same, Subset, WereThere
  <1>10. QED
    BY <1>2, <1>3, <1>4, <1>5, <1>6, <1>8, <1>9 DEF Phase, Same

\* install_units checks all the units before it writes one: after the last
\* check, none of them existed when the package was begun.
LEMMA PhaseCheck ==
    ASSUME IInv, NEW t \in Threads, CheckUnit(t)
    PROVE  Phase(t)'
  <1>1. TypeOK /\ TodoOK /\ Phase(t) /\ pc[t] = "check"
    BY DEF IInv, CheckUnit
  <1>2. /\ Same(t) /\ mode[t] = "Install" /\ ok[t] = TRUE
        /\ \A k \in 1..(idx[t] - 1) : files[U(t, k)] = None
    BY <1>1 DEF Phase
  <1>3. files' = files /\ todo' = todo /\ mode' = mode /\ before' = before
    BY DEF CheckUnit, shared, history
  <1>4. NrUnits(t)' = NrUnits(t) /\ \A k : U(t, k)' = U(t, k)
    BY <1>3 DEF NrUnits, U, Pkg
  <1>5. Same(t)'
    BY <1>2, <1>3, <1>4 DEF Same
  <1>6. NrUnits(t) \in Nat /\ idx[t] \in 1..NrUnits(t)
    BY <1>1, PkgType DEF TypeOK, PackagePlaces, UnitPlaces
  <1>7. CASE CheckClear(t) /\ Advance(t, "check", "write") /\ UNCHANGED ok
    <2>1. \A k \in 1..idx[t] : files[U(t, k)] = None
      <3>1. files[U(t, idx[t])] = None
        BY <1>7 DEF CheckClear, FileExists, Unit, U
      <3>2. QED
        BY <1>2, <1>6, <3>1
    <2>2. CASE idx[t] < NrUnits(t)
      <3>1. pc'[t] = "check" /\ idx'[t] = idx[t] + 1
        BY <1>1, <1>7, <2>2 DEF Advance, Goto, TypeOK
      <3>2. \A k \in 1..(idx'[t] - 1) : files'[U(t, k)'] = None
        BY <1>3, <1>4, <1>6, <2>1, <3>1
      <3>3. QED
        BY <1>2, <1>3, <1>5, <1>7, <3>1, <3>2 DEF Phase
    <2>3. CASE idx[t] = NrUnits(t)
      <3>1. pc'[t] = "write"
        BY <1>1, <1>6, <1>7, <2>3 DEF Advance, Goto, TypeOK
      <3>2. WasClear(t)'
        BY <1>2, <1>3, <1>4, <2>1, <2>3 DEF WasClear, Same
      <3>3. Writable(t)'
        BY <1>3, <1>4, <2>1, <2>3 DEF Writable
      <3>4. QED
        BY <1>2, <1>3, <1>7, <3>1, <3>2, <3>3 DEF Phase
    <2>4. QED
      BY <1>6, <2>2, <2>3
  <1>8. CASE Goto(t, "end")
    <2>1. pc'[t] = "end"
      BY <1>1, <1>8 DEF Goto, TypeOK
    <2>2. QED
      BY <1>2, <1>3, <1>5, <2>1 DEF Phase, Same
  <1>9. QED
    BY <1>7, <1>8 DEF CheckUnit

\* Writing and linking leave what was there when the package was begun; the
\* rollback starts with nothing undone.
LEMMA PhaseWrite ==
    ASSUME IInv, NEW t \in Threads, WriteUnit(t) \/ LinkUnit(t)
    PROVE  Phase(t)'
  <1>1. TypeOK /\ TodoOK /\ Phase(t) /\ pc[t] \in {"write", "link"}
    BY DEF IInv, WriteUnit, LinkUnit
  <1>2. WasClear(t) /\ Writable(t) /\ mode[t] = "Install" /\ ok[t] = TRUE
    BY <1>1 DEF Phase
  <1>3. todo' = todo /\ mode' = mode /\ before' = before
    BY DEF WriteUnit, LinkUnit, history
  <1>4. WasClear(t)'
    BY <1>2, <1>3 DEF WasClear, NrUnits, U, Pkg
  <1>5. \/ pc'[t] \in {"link", "write", "end"} /\ ok'[t] = TRUE
        \/ pc'[t] = "rollback" /\ idx'[t] = 1
    BY <1>1, <1>2
       DEF TypeOK, WriteUnit, LinkUnit, Advance, Goto, GotoRollback, RollbackIndex
  <1>6. Writable(t)'
    <2>1. \A k \in 1..NrUnits(t) : U(t, k) \in Units
      BY <1>1, PkgType DEF PackagePlaces, UnitPlaces
    <2>2. \A u \in Units : files'[u] \in {files[u], Pkg(t)}
      BY <1>1 DEF WriteUnit, LinkUnit, TypeOK
    <2>3. NrUnits(t)' = NrUnits(t) /\ Pkg(t)' = Pkg(t) /\ \A k : U(t, k)' = U(t, k)
      BY <1>3 DEF NrUnits, U, Pkg
    <2>4. QED
      BY <1>2, <2>1, <2>2, <2>3 DEF Writable
  <1>7. QED
    BY <1>2, <1>3, <1>4, <1>5, <1>6 DEF Phase, Undone

\* do_uninstall_units visits all the units, so that at its end each one has no
\* file again, or one that unlink has failed to remove.
LEMMA PhaseRollback ==
    ASSUME IInv, NEW t \in Threads, RollbackUnit(t)
    PROVE  Phase(t)'
  <1>1. TypeOK /\ TodoOK /\ Phase(t) /\ pc[t] = "rollback"
    BY DEF IInv, RollbackUnit
  <1>2. WasClear(t) /\ Undone(t) /\ mode[t] = "Install"
    BY <1>1 DEF Phase
  <1>3. todo' = todo /\ mode' = mode /\ before' = before
    BY DEF RollbackUnit
  <1>4. NrUnits(t)' = NrUnits(t) /\ \A k : U(t, k)' = U(t, k)
    BY <1>3 DEF NrUnits, U, Pkg
  <1>5. /\ NrUnits(t) \in Nat /\ idx[t] \in 1..NrUnits(t)
        /\ \A k \in 1..NrUnits(t) : U(t, k) \in Units
    BY <1>1, PkgType DEF TypeOK, PackagePlaces, UnitPlaces
  <1>6. WasClear(t)'
    BY <1>2, <1>3, <1>4 DEF WasClear
  <1>7. PICK fileOk \in BOOLEAN, linkOk \in BOOLEAN : UnlinkUnit(t, fileOk, linkOk)
    BY DEF RollbackUnit
  <1>8. files'[Unit(t)] = None \/ Unit(t) \in kept'[t]
    <2>1. Unit(t) \in Units
      BY <1>5 DEF Unit, U
    <2>2. QED
      BY <1>1, <1>7, <2>1 DEF UnlinkUnit, FileExists, TypeOK
  <1>9. \A u \in Units \ {Unit(t)} : files'[u] = files[u]
    BY <1>1, <1>7 DEF UnlinkUnit, TypeOK
  <1>10. kept[t] \subseteq kept'[t]
    BY <1>1, <1>7 DEF UnlinkUnit, TypeOK
  <1>11. ASSUME NEW k \in 1..idx[t]
         PROVE  files'[U(t, k)] = None \/ U(t, k) \in kept'[t]
    <2>1. CASE U(t, k) = Unit(t)
      BY <1>8, <2>1
    <2>2. CASE U(t, k) # Unit(t)
      <3>1. k # idx[t]
        BY <2>2 DEF U, Unit
      <3>2. k \in 1..(idx[t] - 1) /\ U(t, k) \in Units
        BY <1>5, <1>11, <3>1
      <3>3. QED
        BY <1>2, <1>9, <1>10, <2>2, <3>2 DEF Undone
    <2>3. QED
      BY <2>1, <2>2
  <1>12. CASE idx[t] < NrUnits(t)
    <2>1. pc'[t] = "rollback" /\ idx'[t] = idx[t] + 1
      BY <1>1, <1>12 DEF RollbackUnit, Advance, Goto, TypeOK
    <2>2. Undone(t)'
      BY <1>4, <1>5, <1>11, <2>1 DEF Undone
    <2>3. QED
      BY <1>2, <1>3, <1>6, <2>1, <2>2 DEF Phase
  <1>13. CASE idx[t] = NrUnits(t)
    <2>1. pc'[t] = "end"
      BY <1>1, <1>5, <1>13 DEF RollbackUnit, Advance, Goto, TypeOK
    <2>2. \A k \in 1..NrUnits(t)' :
             files'[U(t, k)'] = before'[t][U(t, k)'] \/ U(t, k)' \in kept'[t]
      BY <1>4, <1>6, <1>11, <1>13 DEF WasClear
    <2>3. QED
      BY <1>2, <1>3, <2>1, <2>2 DEF Phase
  <1>14. QED
    BY <1>5, <1>12, <1>13

----------------------------------------------------------------------------

LEMMA IInvStep ==
    ASSUME Apart, IInv, [Next]_vars
    PROVE  IInv'
  <1>1. TypeOK' /\ TodoOK'
    BY TypeStep DEF IInv
  <1>2. ASSUME NEW s \in Threads PROVE Phase(s)'
    <2>1. CASE Next
      <3>1. PICK t \in Threads : ThreadNext(t)
        BY <2>1 DEF Next
      <3>2. CASE s = t
        BY <3>1, <3>2, PhaseLoop, PhaseRemove, PhaseSetdown, PhaseBefore, PhaseCheck,
           PhaseWrite, PhaseRollback
           DEF ThreadNext
      <3>3. CASE s # t
        BY <3>1, <3>3, PhaseOther
      <3>4. QED
        BY <3>2, <3>3
    <2>2. CASE UNCHANGED vars
      <3>1. Phase(s)
        BY DEF IInv
      <3>2. QED
        BY <2>2, <3>1 DEF Phase, Same, WasClear, Writable, Undone, Subset, WereThere, U, NrUnits, Pkg, vars
    <2>3. QED
      BY <2>1, <2>2
  <1>3. QED
    BY <1>1, <1>2 DEF IInv

LEMMA IInvRestores == IInv => FailedInstallRestores
  <1>1. SUFFICES ASSUME IInv, NEW t \in Threads, pc[t] = "end", mode[t] = "Install", ~ok[t],
                        NEW u \in Range(UnitsOf[Pkg(t)])
                 PROVE  files[u] = before[t][u] \/ u \in kept[t]
    BY DEF FailedInstallRestores
  <1>2. UnitsOf[Pkg(t)] \in Seq(Units)
    BY <1>1, PkgType DEF IInv, PackagePlaces
  <1>3. PICK k \in 1..NrUnits(t) : u = U(t, k)
    BY <1>1, <1>2 DEF Range, NrUnits, U
  <1>4. ok[t] = FALSE
    BY <1>1 DEF IInv, TypeOK
  <1>5. QED
    BY <1>1, <1>3, <1>4 DEF IInv, Phase

LEMMA IInvOverwrites ==
    ASSUME IInv, Next, NEW u \in Units, files[u] # None, files'[u] # None
    PROVE  files'[u] = files[u]
  <1>1. TypeOK /\ TodoOK
    BY DEF IInv
  <1>2. PICK t \in Threads : ThreadNext(t)
    BY DEF Next
  <1>3. CASE WriteUnit(t)
    <2>1. pc[t] = "write" /\ Phase(t) /\ idx[t] \in 1..NrUnits(t)
      BY <1>1, <1>3 DEF IInv, WriteUnit, TypeOK, UnitPlaces
    <2>2. files[Unit(t)] \in {None, Pkg(t)}
      BY <2>1 DEF Phase, Writable, Unit, U
    <2>3. QED
      BY <1>1, <1>3, <2>2 DEF WriteUnit, TypeOK
  <1>4. CASE RollbackUnit(t) \/ RemoveUnit(t)
    BY <1>1, <1>4 DEF RollbackUnit, RemoveUnit, UnlinkUnit, TypeOK
  <1>5. CASE ~(WriteUnit(t) \/ RollbackUnit(t) \/ RemoveUnit(t))
    BY <1>2, <1>5 DEF ThreadNext, Start, GetManifest, AddMeta, Begin, Prepare, SetupSecurity,
                      ProcessUnits, CheckUnit, LinkUnit, SetdownSecurity, End, Leave,
                      DefaultTree, Answer, shared
  <1>6. QED
    BY <1>3, <1>4, <1>5

LEMMA IInvCorrect ==
    ASSUME Apart
    PROVE  Spec => []IInv
  <1>1. Init => IInv
    BY TypeInit DEF Init, IInv, Phase
  <1>2. IInv /\ [Next]_vars => IInv'
    BY IInvStep
  <1>3. QED
    BY <1>1, <1>2, PTL DEF Spec

LEMMA IInvWhole == IInv => RemovalWasWhole
  <1>1. SUFFICES ASSUME IInv, NEW t \in Threads, pc[t] = "end", mode[t] = "Uninstall", ok[t],
                        NEW u \in Range(UnitsOf[Pkg(t)])
                 PROVE  before[t][u] # None
    BY DEF RemovalWasWhole
  <1>2. UnitsOf[Pkg(t)] \in Seq(Units) /\ NrUnits(t) \in Nat
    BY <1>1, PkgType DEF IInv, PackagePlaces
  <1>3. PICK k \in 1..NrUnits(t) : u = U(t, k)
    BY <1>1, <1>2 DEF Range, NrUnits, U
  <1>4. ok[t] = TRUE
    BY <1>1 DEF IInv, TypeOK
  <1>5. WereThere(t, NrUnits(t) + 1)
    BY <1>1, <1>4 DEF IInv, Phase
  <1>6. QED
    BY <1>2, <1>3, <1>5 DEF WereThere

\* When the packages that the threads process have no unit in common, an
\* installation that fails leaves the unit files of its package as it has
\* found them, but for the ones that unlink could not remove.
THEOREM RestoreCorrect ==
    ASSUME Apart
    PROVE  Spec => []FailedInstallRestores
  <1>1. Spec => []IInv
    BY IInvCorrect
  <1>2. QED
    BY <1>1, IInvRestores, PTL

\* Under the same condition a removal that succeeds has found all the units of
\* its package on the disk, although do_uninstall_units goes on after an error.
THEOREM RemovalCorrect ==
    ASSUME Apart
    PROVE  Spec => []RemovalWasWhole
  <1>1. Spec => []IInv
    BY IInvCorrect
  <1>2. QED
    BY <1>1, IInvWhole, PTL

\* Under the same condition the check of install_units does what its comment
\* says: no step of any thread replaces the unit file of another package.
THEOREM OverwriteCorrect ==
    ASSUME Apart
    PROVE  Spec => NoOverwrite
  <1>1. IInv /\ [Next]_vars =>
           [\A u \in Units : files[u] # None /\ files'[u] # None => files'[u] = files[u]]_vars
    BY IInvOverwrites
  <1>2. Spec => []IInv
    BY IInvCorrect
  <1>3. QED
    BY <1>1, <1>2, PTL DEF Spec, NoOverwrite

----------------------------------------------------------------------------
(* The answer: the inductive invariant. *)

\* No entry can be asked of two threads.
EntriesApart ==
    \A s, t \in Threads : s # t =>
        \A S \in RequestsOf[s], T \in RequestsOf[t] : S \cap T = {}

\* The packages of the request that t has processed.
Done(t) == Roots(asked[t]) \ Range(todo[t])

\* No package of the sequence embeds one that is behind it.
Ordered(s) == \A i, j \in 1..Len(s) : i < j => ~(Under[s[j]] \subseteq Under[s[i]])

\* What remains of the request.
Loop(t) ==
    pc[t] # "idle" =>
        /\ asked[t] \in RequestsOf[t]
        /\ Range(todo[t]) \subseteq Roots(asked[t])
        /\ Ordered(todo[t])
        /\ \A e \in Entries : e \in left[t] <=> e \in asked[t] /\ \A p \in Done(t) : e \notin Under[p]

\* The units of p, its registration, its absence.
HasUnits(p, n) ==
    \A k \in 1..Len(UnitsOf[p]) : k < n =>
        files[UnitsOf[p][k]] = p /\ (UnitsOf[p][k] \in Wanted => UnitsOf[p][k] \in links)
LostUnits(p, n) ==
    \A k \in 1..Len(UnitsOf[p]) : k < n => files[UnitsOf[p][k]] = None /\ UnitsOf[p][k] \notin links
AllUnits(p) == Len(UnitsOf[p]) + 1
Whole(p) == p \in lsm /\ HasUnits(p, AllUnits(p))
Gone(p) == p \notin lsm /\ LostUnits(p, AllUnits(p))

\* The units of the current package, before unit n, are not those of a processed one.
Others(t, n) ==
    \A k \in 1..NrUnits(t) : k < n =>
        \A p \in Done(t) : \A j \in 1..Len(UnitsOf[p]) : U(t, k) # UnitsOf[p][j]

Typed(S, e) == Holder(S, e) \in Packages /\ label[e] = <<Holder(S, e), "typed">>

\* As long as nothing failed, what was processed is as it must be.
DoneOK(t) ==
    /\ mode[t] = "Install" =>
          /\ \A p \in Done(t) : Whole(p)
          /\ \A e \in asked[t] \ left[t] : Typed(asked[t], e)
    /\ mode[t] = "Uninstall" => \A p \in Done(t) : Gone(p)

\* The current package of an installation.
Installing(t) ==
    /\ pc[t] \in {"units", "check", "write", "link", "end"} => handle[t] = Own(t)
    /\ pc[t] = "check" => Others(t, idx[t])
    /\ pc[t] \in {"write", "link"} => Others(t, AllUnits(Pkg(t))) /\ HasUnits(Pkg(t), idx[t])
    /\ pc[t] = "link" => files[Unit(t)] = Pkg(t)
    /\ pc[t] = "end" => HasUnits(Pkg(t), AllUnits(Pkg(t)))
    /\ pc[t] = "leave" => Whole(Pkg(t)) /\ \A e \in Own(t) : Typed(asked[t], e)
    /\ pc[t] = "answer" => \A e \in left[t] : label[e] = Default

\* The current package of a removal.
Removing(t) ==
    /\ pc[t] \in {"units", "remove", "setdown", "end"} => handle[t] # None
    /\ pc[t] = "remove" => LostUnits(Pkg(t), idx[t])
    /\ pc[t] \in {"setdown", "end"} => LostUnits(Pkg(t), AllUnits(Pkg(t)))
    /\ pc[t] = "leave" => Gone(Pkg(t))

\* The places that a failure does not reach.
GoodPlaces == {"manifest", "meta", "begin", "prepare", "security", "units", "check", "write",
               "link", "setdown", "default"}

Progress(t) ==
    /\ pc[t] \in GoodPlaces => ok[t] = TRUE
    /\ pc[t] = "rollback" => ok[t] = FALSE
    /\ pc[t] = "default" \/ (pc[t] = "answer" /\ ok[t] = TRUE) => todo[t] = <<>>
    /\ handle[t] # None => handle[t] \subseteq asked[t]
    /\ pc[t] # "idle" /\ ok[t] = TRUE => DoneOK(t)
    /\ ok[t] = TRUE /\ mode[t] = "Install" => Installing(t)
    /\ ok[t] = TRUE /\ mode[t] = "Uninstall" => Removing(t)

AnswerInv == IInv /\ HandleReleased /\ \A t \in Threads : Loop(t) /\ Progress(t)

----------------------------------------------------------------------------
(* The answer: the order of the packages. *)

\* All the roots of a request are detected, embedded before embedding.
LEMMA OrdersAre ==
    ASSUME NEW S, NEW roots \in DetectOrders(S)
    PROVE  Range(roots) = Roots(S) /\ Ordered(roots)
  <1>1. IsFiniteSet(Roots(S))
    BY PackagesAssumption, FS_Subset DEF Roots
  <1> DEFINE n == Cardinality(Roots(S))
  <1>2. n \in Nat
    BY <1>1, FS_CardinalityType
  <1>3. /\ roots \in [1..n -> Roots(S)]
        /\ \A i, j \in 1..n : i # j => roots[i] # roots[j]
        /\ \A i, j \in 1..Len(roots) : i < j => ~(Under[roots[j]] \subseteq Under[roots[i]])
    BY DEF DetectOrders, SetToSeqs
  <1>4. IsFiniteSet(1..n) /\ Cardinality(1..n) = n
    <2>1. n = 0 \/ 1 <= n
      BY <1>2
    <2> HIDE DEF n
    <2>2. QED
      BY <1>2, <2>1, FS_Interval
  <1>5. roots \in Injection(1..n, Roots(S))
    BY <1>3 DEF Injection, IsInjective
  <1>6. roots \in Surjection(1..n, Roots(S))
    BY <1>1, <1>4, <1>5, FS_Injection
  <1>7. Range(roots) = Roots(S)
    BY <1>3, <1>6 DEF Range, Surjection
  <1>8. QED
    BY <1>3, <1>7 DEF Ordered

\* The first package of the sequence embeds none of the next ones, and is none of them.
LEMMA TailOf ==
    ASSUME NEW s \in Seq(Packages), s # <<>>, Ordered(s)
    PROVE  /\ Range(Tail(s)) = Range(s) \ {Head(s)}
           /\ Head(s) \in Range(s)
           /\ Ordered(Tail(s))
           /\ \A q \in Range(s) : Under[q] \subseteq Under[Head(s)] => q = Head(s)
  <1> DEFINE r == Tail(s)
  <1>1. /\ Len(s) \in Nat /\ 1 <= Len(s) /\ Head(s) = s[1] /\ Len(r) = Len(s) - 1
        /\ DOMAIN s = 1..Len(s) /\ DOMAIN r = 1..Len(s) - 1
        /\ \A i \in 1..Len(s) - 1 : r[i] = s[i + 1]
    OBVIOUS
  <1> HIDE DEF r
  <1>2. \A j \in 1..Len(s) : j # 1 => ~(Under[s[j]] \subseteq Under[Head(s)])
    <2>1. SUFFICES ASSUME NEW j \in 1..Len(s), j # 1  PROVE ~(Under[s[j]] \subseteq Under[s[1]])
      BY <1>1
    <2>2. 1 \in 1..Len(s) /\ 1 < j
      BY <1>1, <2>1
    <2>3. QED
      BY <2>2 DEF Ordered
  <1>3. \A q \in Range(s) : Under[q] \subseteq Under[Head(s)] => q = Head(s)
    BY <1>1, <1>2 DEF Range
  <1>4. ASSUME NEW i \in 1..Len(s) - 1  PROVE r[i] \in Range(s) \ {Head(s)}
    <2>1. i + 1 \in 1..Len(s) /\ i + 1 # 1
      BY <1>1
    <2>2. s[i + 1] \in Range(s) /\ s[i + 1] # Head(s)
      BY <1>1, <1>2, <2>1 DEF Range
    <2>3. QED
      BY <1>1, <2>2
  <1>5. ASSUME NEW q \in Range(s), q # Head(s)  PROVE \E i \in 1..Len(s) - 1 : r[i] = q
    <2>1. PICK j \in 1..Len(s) : q = s[j]
      BY <1>1 DEF Range
    <2>2. j - 1 \in 1..Len(s) - 1 /\ (j - 1) + 1 = j
      BY <1>1, <1>5, <2>1
    <2>3. QED
      BY <1>1, <2>1, <2>2
  <1>6. Range(r) = Range(s) \ {Head(s)}
    <2>1. Range(r) \subseteq Range(s) \ {Head(s)}
      BY <1>1, <1>4, Zenon DEF Range
    <2>2. Range(s) \ {Head(s)} \subseteq Range(r)
      <3>1. SUFFICES ASSUME NEW q \in Range(s), q # Head(s)  PROVE q \in Range(r)
        OBVIOUS
      <3>2. PICK i \in 1..Len(s) - 1 : r[i] = q
        BY <1>5, <3>1
      <3>3. QED
        BY <1>1, <3>2 DEF Range
    <2>3. QED
      BY <2>1, <2>2
  <1>7. Ordered(r)
    <2>1. SUFFICES ASSUME NEW i \in 1..Len(s) - 1, NEW j \in 1..Len(s) - 1, i < j
                   PROVE  ~(Under[r[j]] \subseteq Under[r[i]])
      BY <1>1 DEF Ordered
    <2>2. i + 1 \in 1..Len(s) /\ j + 1 \in 1..Len(s) /\ i + 1 < j + 1
      BY <1>1, <2>1
    <2>3. ~(Under[s[j + 1]] \subseteq Under[s[i + 1]])
      BY <2>2 DEF Ordered
    <2>4. QED
      BY <1>1, <2>3
  <1>8. Head(s) \in Range(s)
    <2>1. 1 \in DOMAIN s /\ Head(s) = s[1]
      BY <1>1
    <2>2. QED
      BY <2>1, Zenon DEF Range
  <1>9. QED
    BY <1>3, <1>6, <1>7, <1>8 DEF r

\* The current package is one of the request, not processed yet.
LEMMA CurrentPkg ==
    ASSUME TypeOK, TodoOK, NEW t \in Threads, Loop(t), pc[t] \in PackagePlaces
    PROVE  /\ todo[t] \in Seq(Packages) /\ todo[t] # <<>> /\ Ordered(todo[t])
           /\ Pkg(t) \in Roots(asked[t]) /\ Pkg(t) \in Range(todo[t]) /\ Pkg(t) \notin Done(t)
           /\ pc[t] # "idle"
  <1>1. todo[t] \in Seq(Packages) /\ todo[t] # <<>> /\ pc[t] # "idle"
    BY DEF TypeOK, TodoOK, PackagePlaces, UnitPlaces
  <1>2. Ordered(todo[t]) /\ Range(todo[t]) \subseteq Roots(asked[t])
    BY <1>1 DEF Loop
  <1>3. Pkg(t) \in Range(todo[t])
    BY <1>1, <1>2, TailOf DEF Pkg
  <1>4. QED
    BY <1>1, <1>2, <1>3 DEF Done

\* The entries that the current package tags are those it holds most closely: the packages it
\* embeds have been processed before it.
LEMMA HolderIs ==
    ASSUME TypeOK, TodoOK, NEW t \in Threads, Loop(t), pc[t] \in PackagePlaces, NEW e \in Own(t)
    PROVE  Holder(asked[t], e) = Pkg(t) /\ Pkg(t) \in Packages
  <1> DEFINE holders == {p \in Roots(asked[t]) : e \in Under[p]}
             Best(p) == \A q \in holders : Under[p] \subseteq Under[q]
  <1>1. /\ todo[t] \in Seq(Packages) /\ todo[t] # <<>> /\ Ordered(todo[t]) /\ pc[t] # "idle"
        /\ Pkg(t) \in Roots(asked[t]) /\ Pkg(t) \in Range(todo[t])
    BY CurrentPkg
  <1>2. e \in Under[Pkg(t)] /\ e \in left[t] /\ Pkg(t) \in Packages /\ e \in Entries
    BY <1>1 DEF Own, Roots, TypeOK
  <1>3. Pkg(t) \in holders
    BY <1>1, <1>2
  <1>4. ASSUME NEW q \in holders
        PROVE  /\ Under[Pkg(t)] \subseteq Under[q]
               /\ Under[q] \subseteq Under[Pkg(t)] => q = Pkg(t)
    <2>1. q \in Roots(asked[t]) /\ e \in Under[q] /\ q \in Packages
      BY DEF Roots
    <2>2. q \notin Done(t)
      BY <1>1, <1>2, <2>1 DEF Loop
    <2>3. q \in Range(todo[t])
      BY <2>1, <2>2 DEF Done
    <2>4. Under[q] \subseteq Under[Pkg(t)] => q = Pkg(t)
      BY <1>1, <2>3, TailOf DEF Pkg
    <2>5. Under[q] \subseteq Under[Pkg(t)] \/ Under[Pkg(t)] \subseteq Under[q]
      BY <1>2, <2>1, TreeAssumption
    <2>6. QED
      BY <2>4, <2>5
  <1>5. Best(Pkg(t)) /\ \A p \in holders : Best(p) => p = Pkg(t)
    BY <1>3, <1>4
  <1>6. Holder(asked[t], e) = CHOOSE p \in holders : Best(p)
    BY <1>3 DEF Holder
  <1>7. (CHOOSE p \in holders : Best(p)) = Pkg(t)
    <2> HIDE DEF holders, Best
    <2>1. QED
      BY <1>3, <1>5
  <1>8. QED
    BY <1>2, <1>6, <1>7

----------------------------------------------------------------------------
(* The answer: the loop on the packages. *)

\* A step of t leaves the request of the other threads.
LEMMA OtherLoop ==
    ASSUME TypeOK, NEW t \in Threads, ThreadNext(t), NEW s \in Threads \ {t}
    PROVE  asked'[s] = asked[s] /\ left'[s] = left[s] /\ handle'[s] = handle[s]
  <1> USE DEF TypeOK, ThreadNext, Start, GetManifest, AddMeta, Begin, Prepare, SetupSecurity,
              ProcessUnits, CheckUnit, WriteUnit, LinkUnit, RollbackUnit, RemoveUnit,
              SetdownSecurity, End, Release, Leave, DefaultTree, Answer
  <1>1. asked'[s] = asked[s] /\ left'[s] = left[s]
    OBVIOUS
  <1>2. handle'[s] = handle[s]
    OBVIOUS
  <1>3. QED
    BY <1>1, <1>2

\* Only the beginning and the end of a package, and the beginning of a request, change what
\* remains of it.
LEMMA LoopKept ==
    ASSUME NEW t, Loop(t), pc[t] # "idle" \/ pc'[t] = "idle",
           asked'[t] = asked[t], todo'[t] = todo[t], left'[t] = left[t]
    PROVE  Loop(t)' /\ Done(t)' = Done(t)
  BY DEF Loop, Done

LEMMA LoopStart ==
    ASSUME TypeOK, NEW t \in Threads, Start(t)
    PROVE  Loop(t)' /\ Done(t)' = {} /\ left'[t] = asked'[t] /\ pc'[t] # "idle"
           /\ (pc'[t] = "default" => todo'[t] = <<>>) /\ pc'[t] \in {"manifest", "default", "answer"}
           /\ (pc'[t] = "answer" => ok'[t] = FALSE) /\ (pc'[t] # "answer" => ok'[t] = TRUE)
  <1>0. PICK S \in RequestsOf[t], b \in Outcomes("detect") :
          \E roots \in DetectOrders(S) :
           /\ asked' = [asked EXCEPT ![t] = S]
           /\ left' = [left EXCEPT ![t] = S]
           /\ todo' = [todo EXCEPT ![t] = roots]
           /\ SetOk(t, b)
           /\ Goto(t, IF b THEN LoopPlace(roots) ELSE "answer")
    BY DEF Start
  <1>1. PICK roots \in DetectOrders(S) :
           /\ asked' = [asked EXCEPT ![t] = S]
           /\ left' = [left EXCEPT ![t] = S]
           /\ todo' = [todo EXCEPT ![t] = roots]
           /\ SetOk(t, b)
           /\ Goto(t, IF b THEN LoopPlace(roots) ELSE "answer")
    BY <1>0
  <1>2. Range(roots) = Roots(S) /\ Ordered(roots) /\ b \in BOOLEAN
    BY OrdersAre DEF Outcomes
  <1>3. /\ asked'[t] = S /\ left'[t] = S /\ todo'[t] = roots /\ ok'[t] = b
        /\ pc'[t] = IF b THEN LoopPlace(roots) ELSE "answer"
    BY <1>1 DEF TypeOK, SetOk, Goto
  <1>4. Done(t)' = {}
    BY <1>2, <1>3 DEF Done
  <1>5. Loop(t)'
    BY <1>2, <1>3, <1>4 DEF Loop
  <1>6. pc'[t] \in {"manifest", "default", "answer"} /\ (pc'[t] = "default" => roots = <<>>)
    BY <1>2, <1>3 DEF LoopPlace
  <1>7. (pc'[t] = "answer" => ok'[t] = FALSE) /\ (pc'[t] # "answer" => ok'[t] = TRUE)
    BY <1>2, <1>3 DEF LoopPlace
  <1>8. QED
    BY <1>3, <1>4, <1>5, <1>6, <1>7

LEMMA LoopLeave ==
    ASSUME TypeOK, TodoOK, NEW t \in Threads, Loop(t), Leave(t)
    PROVE  /\ Loop(t)' /\ Done(t)' = Done(t) \cup {Pkg(t)}
           /\ \A e : e \in asked'[t] \ left'[t] => e \in asked[t] \ left[t] \/ e \in Own(t)
           /\ asked'[t] = asked[t]
  <1>0. pc[t] \in PackagePlaces
    BY DEF Leave, PackagePlaces
  <1>1. /\ todo[t] \in Seq(Packages) /\ todo[t] # <<>> /\ Ordered(todo[t]) /\ pc[t] # "idle"
        /\ Pkg(t) \in Roots(asked[t]) /\ Pkg(t) \in Range(todo[t])
    BY <1>0, CurrentPkg
  <1>2. /\ asked' = asked /\ todo'[t] = Tail(todo[t]) /\ left'[t] = left[t] \ Under[Pkg(t)]
    BY DEF Leave, TypeOK
  <1>3. Range(Tail(todo[t])) = Range(todo[t]) \ {Pkg(t)} /\ Ordered(Tail(todo[t]))
    BY <1>1, TailOf DEF Pkg
  <1>4. Done(t)' = Done(t) \cup {Pkg(t)}
    BY <1>1, <1>2, <1>3 DEF Done
  <1>5. \A e \in Entries : e \in left[t] <=> e \in asked[t] /\ \A p \in Done(t) : e \notin Under[p]
    BY <1>1 DEF Loop
  <1>6. \A e \in Entries : e \in left'[t] <=> e \in asked'[t] /\ \A p \in Done(t)' : e \notin Under[p]
    BY <1>2, <1>4, <1>5
  <1>7. asked[t] \in RequestsOf[t] /\ Range(todo[t]) \subseteq Roots(asked[t])
    BY <1>1 DEF Loop
  <1>8. Loop(t)'
    BY <1>2, <1>3, <1>6, <1>7 DEF Loop
  <1>9. QED
    BY <1>2, <1>4, <1>8 DEF Own

\* The other steps of t.
LEMMA LoopSame ==
    ASSUME NEW t, Loop(t), pc[t] # "idle", UNCHANGED <<asked, todo, left>>
    PROVE  /\ Loop(t)' /\ Done(t)' = Done(t) /\ Pkg(t)' = Pkg(t) /\ Own(t)' = Own(t)
           /\ NrUnits(t)' = NrUnits(t) /\ AllUnits(Pkg(t))' = AllUnits(Pkg(t)) /\ \A k : U(t, k)' = U(t, k)
  BY LoopKept DEF Pkg, Own, NrUnits, AllUnits, U

----------------------------------------------------------------------------
(* The answer: what the other threads leave alone. *)

\* A step of t changes at most the link of its unit, the registration of its package and the
\* labels of the entries it was asked for.
LEMMA OtherShared ==
    ASSUME TypeOK, TodoOK, NEW t \in Threads, ThreadNext(t), Loop(t), Progress(t)
    PROVE  /\ \A u \in Units : (u \in links' <=> u \in links) \/ (pc[t] \in UnitPlaces /\ u = Unit(t))
           /\ \A p \in Packages : (p \in lsm' <=> p \in lsm) \/ (pc[t] \in PackagePlaces /\ p = Pkg(t))
           /\ \A e \in Entries : label'[e] = label[e] \/ (pc[t] # "idle" /\ e \in asked[t])
  <1>1. CASE LinkUnit(t)
    BY <1>1 DEF LinkUnit, TypeOK, UnitPlaces
  <1>2. CASE RollbackUnit(t) \/ RemoveUnit(t)
    BY <1>2 DEF RollbackUnit, RemoveUnit, UnlinkUnit, TypeOK, UnitPlaces
  <1>3. CASE End(t)
    <2>1. CASE Commits(t) /\ LsmCommit(t)
      <3>1. handle[t] \subseteq asked[t] /\ pc[t] = "end" /\ links' = links
        BY <1>3, <2>1 DEF End, Commits, Progress
      <3>2. QED
        BY <2>1, <3>1 DEF LsmCommit, PackagePlaces
    <2>2. CASE UNCHANGED <<lsm, label>>
      BY <1>3, <2>2 DEF End
    <2>3. QED
      BY <1>3, <2>1, <2>2 DEF End
  <1>4. CASE DefaultTree(t)
    <2>1. pc[t] = "default" /\ links' = links /\ lsm' = lsm
      BY <1>4 DEF DefaultTree
    <2>2. \A e \in Entries : e \in left[t] => e \in asked[t]
      BY <2>1 DEF Loop
    <2>3. \A e \in Entries : label'[e] = label[e] \/ e \in left[t]
      BY <1>4 DEF DefaultTree
    <2>4. QED
      BY <2>1, <2>2, <2>3
  <1>5. CASE ~(LinkUnit(t) \/ RollbackUnit(t) \/ RemoveUnit(t) \/ End(t) \/ DefaultTree(t))
    BY <1>5 DEF ThreadNext, Start, GetManifest, AddMeta, Begin, Prepare, SetupSecurity,
                ProcessUnits, CheckUnit, WriteUnit, SetdownSecurity, Leave, Answer, shared
  <1>6. QED
    BY <1>1, <1>2, <1>3, <1>4, <1>5

\* The units of p, its registration and the labels of S are left alone.
SameFor(p) ==
    /\ \A k \in 1..Len(UnitsOf[p]) : /\ files'[UnitsOf[p][k]] = files[UnitsOf[p][k]]
                                     /\ UnitsOf[p][k] \in links' <=> UnitsOf[p][k] \in links
    /\ p \in lsm' <=> p \in lsm

LEMMA OtherPackage ==
    ASSUME Apart, EntriesApart, TypeOK, TodoOK, NEW t \in Threads, ThreadNext(t), Loop(t), Progress(t),
           NEW s \in Threads \ {t}, Loop(s), pc[s] # "idle"
    PROVE  /\ \A p \in Roots(asked[s]) : SameFor(p)
           /\ \A e \in asked[s] : label'[e] = label[e]
  <1>1. asked[s] \in RequestsOf[s] /\ asked[s] \subseteq Entries
    BY DEF Loop, TypeOK
  <1>2. ASSUME NEW e \in asked[s]  PROVE label'[e] = label[e]
    <2>1. pc[t] # "idle" => e \notin asked[t]
      BY <1>1 DEF Loop, EntriesApart
    <2>2. QED
      BY <1>1, <2>1, OtherShared
  <1>3. ASSUME NEW p \in Roots(asked[s])  PROVE SameFor(p)
    <2>1. p \in Packages /\ p \in PackagesOf(s) /\ UnitsOf[p] \in Seq(Units)
      BY <1>1, UnitsAssumption DEF Roots, PackagesOf
    <2>2. ASSUME pc[t] \in PackagePlaces, p = Pkg(t)  PROVE FALSE
      <3>1. Pkg(t) \in Roots(asked[t]) /\ pc[t] # "idle"
        BY <2>2, CurrentPkg
      <3>2. asked[t] \in RequestsOf[t]
        BY <3>1 DEF Loop
      <3>3. asked[s] \cap asked[t] = {}
        BY <1>1, <3>2 DEF EntriesApart
      <3>4. Under[p] # {} /\ Under[p] \subseteq asked[s] /\ Under[p] \subseteq asked[t]
        BY <2>2, <3>1 DEF Roots
      <3>5. QED
        BY <3>3, <3>4
    <2>3. p \in lsm' <=> p \in lsm
      BY <2>1, <2>2, OtherShared
    <2>4. ASSUME NEW k \in 1..Len(UnitsOf[p])
          PROVE  /\ files'[UnitsOf[p][k]] = files[UnitsOf[p][k]]
                 /\ UnitsOf[p][k] \in links' <=> UnitsOf[p][k] \in links
      <3>1. UnitsOf[p][k] \in Units
        BY <2>1
      <3>2. pc[t] \in UnitPlaces => UnitsOf[p][k] # Unit(t)
        <4>1. SUFFICES ASSUME pc[t] \in UnitPlaces  PROVE UnitsOf[p][k] # Unit(t)
          OBVIOUS
        <4>2. Pkg(t) \in PackagesOf(t) /\ idx[t] \in 1..NrUnits(t)
          BY <4>1, PkgType DEF TypeOK, PackagePlaces
        <4>3. QED
          BY <2>1, <4>2 DEF Apart, Unit, NrUnits
      <3>3. QED
        BY <3>1, <3>2, OtherFiles, OtherShared
    <2>5. QED
      BY <2>3, <2>4 DEF SameFor
  <1>4. QED
    BY <1>2, <1>3

\* What is left alone keeps its units and its registration.
LEMMA SameKeeps ==
    ASSUME NEW p, SameFor(p)
    PROVE  /\ \A n : HasUnits(p, n) => HasUnits(p, n)'
           /\ \A n : LostUnits(p, n) => LostUnits(p, n)'
           /\ (Whole(p) => Whole(p)') /\ (Gone(p) => Gone(p)')
  <1>1. \A n : HasUnits(p, n) => HasUnits(p, n)'
    BY DEF SameFor, HasUnits
  <1>2. \A n : LostUnits(p, n) => LostUnits(p, n)'
    BY DEF SameFor, LostUnits
  <1>3. AllUnits(p)' = AllUnits(p)
    BY DEF AllUnits
  <1>4. QED
    BY <1>1, <1>2, <1>3 DEF Whole, Gone, SameFor

LEMMA ProgressOther ==
    ASSUME Apart, EntriesApart, AnswerInv, NEW t \in Threads, ThreadNext(t), NEW s \in Threads \ {t}
    PROVE  Loop(s)' /\ Progress(s)'
  <1>1. TypeOK /\ TodoOK /\ Loop(s) /\ Progress(s) /\ Loop(t) /\ Progress(t)
    BY DEF AnswerInv, IInv
  <1>2. /\ pc'[s] = pc[s] /\ mode'[s] = mode[s] /\ todo'[s] = todo[s] /\ idx'[s] = idx[s] /\ ok'[s] = ok[s]
        /\ asked'[s] = asked[s] /\ left'[s] = left[s] /\ handle'[s] = handle[s]
    BY <1>1, OtherState, OtherLoop
  <1>3. Loop(s)' /\ Done(s)' = Done(s)
    BY <1>1, <1>2, LoopKept
  <1>4. CASE pc[s] = "idle"
    <2>1. pc'[s] = "idle"
      BY <1>2, <1>4
    <2>2. Installing(s)' /\ Removing(s)'
      BY <2>1 DEF Installing, Removing
    <2>3. handle'[s] # None => handle'[s] \subseteq asked'[s]
      BY <1>1, <1>2 DEF Progress
    <2>4. QED
      BY <2>1, <2>2, <2>3, <1>3 DEF Progress, GoodPlaces
  <1>5. CASE pc[s] # "idle"
    <2>1. /\ \A p \in Roots(asked[s]) : SameFor(p)
          /\ \A e \in asked[s] : label'[e] = label[e]
      BY <1>1, <1>5, OtherPackage
    <2>2. \A e \in asked[s] : Typed(asked[s], e) => Typed(asked[s], e)'
      BY <1>2, <2>1 DEF Typed, Holder, Roots
    <2>3. DoneOK(s) => DoneOK(s)'
      <3>1. \A p \in Done(s) : (Whole(p) => Whole(p)') /\ (Gone(p) => Gone(p)')
        <4>1. SUFFICES ASSUME NEW p \in Done(s)  PROVE (Whole(p) => Whole(p)') /\ (Gone(p) => Gone(p)')
          OBVIOUS
        <4>2. SameFor(p)
          BY <2>1 DEF Done
        <4>3. QED
          BY <4>2, SameKeeps
      <3>2. QED
        BY <1>2, <1>3, <2>2, <3>1 DEF DoneOK
    <2>4. Pkg(s)' = Pkg(s) /\ Own(s)' = Own(s) /\ Unit(s)' = Unit(s) /\ NrUnits(s)' = NrUnits(s)
          /\ AllUnits(Pkg(s))' = AllUnits(Pkg(s)) /\ \A k : U(s, k)' = U(s, k)
      BY <1>2 DEF Pkg, Own, Unit, NrUnits, AllUnits, U
    <2>5. \A n : Others(s, n) => Others(s, n)'
      BY <1>3, <2>4 DEF Others
    <2>6. pc[s] \in PackagePlaces => SameFor(Pkg(s))
      BY <1>1, <2>1, CurrentPkg
    <2>7. Installing(s) => Installing(s)'
      <3>1. SUFFICES ASSUME Installing(s)  PROVE Installing(s)'
        OBVIOUS
      <3>2. CASE pc[s] \in PackagePlaces
        <4>1. /\ \A n : HasUnits(Pkg(s), n) => HasUnits(Pkg(s), n)'
              /\ Whole(Pkg(s)) => Whole(Pkg(s))'
          BY <2>4, <2>6, <3>2, SameKeeps DEF HasUnits, Whole
        <4>2. pc[s] = "link" => files'[Unit(s)] = files[Unit(s)]
          <5>1. SUFFICES ASSUME pc[s] = "link"  PROVE files'[Unit(s)] = files[Unit(s)]
            OBVIOUS
          <5>2. idx[s] \in 1..Len(UnitsOf[Pkg(s)])
            BY <1>1, <5>1 DEF TypeOK, UnitPlaces, NrUnits
          <5>3. QED
            BY <2>6, <3>2, <5>2 DEF SameFor, Unit
        <4>3. \A e \in Own(s) : Typed(asked[s], e) => Typed(asked[s], e)'
          <5>1. Own(s) \subseteq asked[s]
            BY <1>1, <1>5 DEF Own, Loop, TypeOK
          <5>2. QED
            BY <2>2, <5>1
        <4>4. pc[s] # "answer"
          BY <3>2 DEF PackagePlaces, UnitPlaces
        <4>5. QED
          BY <1>2, <2>4, <2>5, <3>1, <4>1, <4>2, <4>3, <4>4 DEF Installing
      <3>3. CASE pc[s] \notin PackagePlaces
        <4>1. left[s] \subseteq asked[s]
          BY <1>1, <1>5 DEF Loop, TypeOK
        <4>2. pc[s] = "answer" => \A e \in left[s] : label'[e] = Default
          BY <2>1, <3>1, <4>1 DEF Installing
        <4>3. pc[s] \notin {"units", "check", "write", "link", "end", "leave"}
          BY <3>3 DEF PackagePlaces, UnitPlaces
        <4>4. QED
          BY <1>2, <4>2, <4>3 DEF Installing
      <3>4. QED
        BY <3>2, <3>3
    <2>8. Removing(s) => Removing(s)'
      <3>1. SUFFICES ASSUME Removing(s)  PROVE Removing(s)'
        OBVIOUS
      <3>2. CASE pc[s] \in PackagePlaces
        <4>1. /\ \A n : LostUnits(Pkg(s), n) => LostUnits(Pkg(s), n)'
              /\ Gone(Pkg(s)) => Gone(Pkg(s))'
          <5>1. PICK p : p = Pkg(s)
            OBVIOUS
          <5>2. (\A n : LostUnits(p, n) => LostUnits(p, n)') /\ (Gone(p) => Gone(p)')
            BY <2>6, <3>2, <5>1, SameKeeps
          <5>3. QED
            BY <2>4, <5>1, <5>2
        <4>2. QED
          BY <1>2, <2>4, <3>1, <4>1 DEF Removing
      <3>3. CASE pc[s] \notin PackagePlaces
        BY <1>2, <3>3 DEF Removing, PackagePlaces, UnitPlaces
      <3>4. QED
        BY <3>2, <3>3
    <2>9. QED
      BY <1>1, <1>2, <1>3, <1>5, <2>3, <2>7, <2>8 DEF Progress
  <1>6. QED
    BY <1>3, <1>4, <1>5

----------------------------------------------------------------------------
(* The answer: what the thread itself does. *)

\* What the invariant says of one thread.
LEMMA AnswerParts ==
    ASSUME AnswerInv, NEW t \in Threads
    PROVE  /\ TypeOK /\ TodoOK /\ Phase(t) /\ Loop(t) /\ Progress(t) /\ HandleReleased
           /\ ok[t] \in BOOLEAN /\ mode[t] \in {"Install", "Uninstall"}
  BY DEF AnswerInv, IInv, TypeOK, Modes

\* As long as the files, the links, the registrations and the labels do not change.
LEMMA DoneKept ==
    ASSUME NEW t, DoneOK(t), UNCHANGED <<files, links, lsm, label, mode, asked, left>>, Done(t)' = Done(t)
    PROVE  DoneOK(t)'
  <1>1. \A p \in Done(t) : (Whole(p) => Whole(p)') /\ (Gone(p) => Gone(p)')
    BY DEF Whole, Gone, HasUnits, LostUnits, AllUnits
  <1>2. \A e : Typed(asked[t], e) => Typed(asked[t], e)'
    BY DEF Typed, Holder, Roots
  <1>3. QED
    BY <1>1, <1>2 DEF DoneOK

LEMMA ProgressStart ==
    ASSUME AnswerInv, NEW t \in Threads, Start(t)
    PROVE  Loop(t)' /\ Progress(t)'
  <1>1. TypeOK /\ HandleReleased
    BY AnswerParts
  <1>2. Loop(t)' /\ Done(t)' = {} /\ left'[t] = asked'[t] /\ pc'[t] # "idle"
        /\ (pc'[t] = "default" => todo'[t] = <<>>) /\ pc'[t] \in {"manifest", "default", "answer"}
        /\ (pc'[t] = "answer" => ok'[t] = FALSE) /\ (pc'[t] # "answer" => ok'[t] = TRUE)
    BY <1>1, LoopStart
  <1>3. handle'[t] = None
    BY <1>1 DEF Start, HandleReleased
  <1>4. DoneOK(t)'
    BY <1>2 DEF DoneOK
  <1>5. ok'[t] = TRUE => Installing(t)' /\ Removing(t)'
    BY <1>2 DEF Installing, Removing
  <1>6. QED
    BY <1>2, <1>3, <1>4, <1>5 DEF Progress, GoodPlaces

\* The steps that lead to the units touch nothing that is shared.
LEMMA ProgressBefore ==
    ASSUME AnswerInv, NEW t \in Threads,
           GetManifest(t) \/ AddMeta(t) \/ Begin(t) \/ Prepare(t) \/ SetupSecurity(t)
    PROVE  Loop(t)' /\ Progress(t)'
  <1>1. /\ TypeOK /\ TodoOK /\ Phase(t) /\ Loop(t) /\ Progress(t) /\ HandleReleased
        /\ ok[t] \in BOOLEAN /\ mode[t] \in {"Install", "Uninstall"}
    BY AnswerParts
  <1>2. /\ UNCHANGED <<files, links, lsm, label, mode, asked, todo, left>>
        /\ pc[t] \in {"manifest", "meta", "begin", "prepare", "security"}
    BY DEF GetManifest, AddMeta, Begin, Prepare, SetupSecurity, shared
  <1>3. /\ Loop(t)' /\ Done(t)' = Done(t) /\ Pkg(t)' = Pkg(t) /\ Own(t)' = Own(t)
    BY <1>1, <1>2, LoopSame
  <1>4. ok[t] = TRUE /\ pc[t] # "idle"
    BY <1>1, <1>2 DEF Progress, GoodPlaces
  <1>5. DoneOK(t)'
    <2>1. DoneOK(t)
      BY <1>1, <1>4 DEF Progress
    <2>2. QED
      BY <1>2, <1>3, <2>1, DoneKept
  <1>6. Own(t) \subseteq asked[t] /\ Own(t) # None /\ {} # None
    BY <1>1, <1>4, NoneAssumption DEF Own, Loop, TypeOK
  <1>7. \/ pc'[t] \in {"meta", "begin", "prepare", "security"} /\ ok'[t] = TRUE
        \/ pc'[t] \in {"end", "leave"} /\ ok'[t] = FALSE
        \/ pc'[t] = "units" /\ ok'[t] = TRUE /\ mode[t] = "Uninstall" /\ handle'[t] = {}
        \/ pc'[t] = "units" /\ ok'[t] = TRUE /\ mode[t] = "Install" /\ handle'[t] = Own(t)
    <2>1. CASE GetManifest(t) \/ AddMeta(t) \/ Prepare(t)
      <3>1. PICK b \in BOOLEAN : /\ ok'[t] = b
                                 /\ pc'[t] \in IF b THEN {"meta", "begin", "security"} ELSE {"leave", "end"}
        BY <1>1, <2>1 DEF TypeOK, GetManifest, AddMeta, Prepare, SetOk, Goto, Outcomes
      <3>2. QED
        BY <3>1
    <2>2. CASE Begin(t)
      <3>1. PICK b \in BOOLEAN :
               /\ ok'[t] = b /\ handle'[t] = (IF b THEN {} ELSE None)
               /\ b = FALSE => pc'[t] = "end"
               /\ b = TRUE /\ mode[t] = "Install" => pc'[t] = "prepare"
               /\ b = TRUE /\ mode[t] = "Uninstall" => pc'[t] = "units"
        <4>1. PICK b \in Outcomes("begin") :
                 /\ SetOk(t, b) /\ handle' = [handle EXCEPT ![t] = IF b THEN {} ELSE None]
                 /\ Goto(t, CASE ~b -> "end"
                              [] b /\ mode[t] = "Install" -> "prepare"
                              [] b /\ mode[t] = "Uninstall" -> "units")
          BY <2>2 DEF Begin
        <4>2. b \in BOOLEAN
          BY DEF Outcomes
        <4>3. QED
          BY <1>1, <4>1, <4>2 DEF TypeOK, SetOk, Goto
      <3>2. QED
        BY <1>1, <3>1
    <2>3. CASE SetupSecurity(t)
      <3>1. mode[t] = "Install"
        BY <1>1, <2>3 DEF Phase, SetupSecurity
      <3>2. QED
        BY <1>1, <2>3, <3>1 DEF TypeOK, SetupSecurity, SetOk, Goto, Outcomes
    <2>4. QED
      BY <2>1, <2>2, <2>3
  <1>8. handle'[t] = handle[t] \/ handle'[t] \in {{}, None, Own(t)}
    BY <1>1 DEF GetManifest, AddMeta, Begin, Prepare, SetupSecurity, TypeOK
  <1>9. handle'[t] # None => handle'[t] \subseteq asked'[t]
    BY <1>1, <1>2, <1>6, <1>8 DEF Progress
  <1>10. mode'[t] = mode[t]
    BY <1>2
  <1>11. ok'[t] = TRUE /\ mode'[t] = "Install" => Installing(t)'
    BY <1>3, <1>7, <1>10 DEF Installing
  <1>12. ok'[t] = TRUE /\ mode'[t] = "Uninstall" => Removing(t)'
    BY <1>6, <1>7, <1>10 DEF Removing
  <1>13. QED
    BY <1>3, <1>5, <1>7, <1>9, <1>11, <1>12 DEF Progress, GoodPlaces

\* With no unit there is nothing to write and nothing to remove.
LEMMA ProgressUnits ==
    ASSUME AnswerInv, NEW t \in Threads, ProcessUnits(t)
    PROVE  Loop(t)' /\ Progress(t)'
  <1>1. /\ TypeOK /\ TodoOK /\ Phase(t) /\ Loop(t) /\ Progress(t)
        /\ ok[t] \in BOOLEAN /\ mode[t] \in {"Install", "Uninstall"}
    BY AnswerParts
  <1>2. UNCHANGED <<files, links, lsm, label, mode, asked, todo, left, handle>> /\ pc[t] = "units"
    BY DEF ProcessUnits, shared
  <1>3. /\ Loop(t)' /\ Done(t)' = Done(t) /\ Pkg(t)' = Pkg(t) /\ Own(t)' = Own(t)
        /\ NrUnits(t)' = NrUnits(t) /\ AllUnits(Pkg(t))' = AllUnits(Pkg(t)) /\ \A k : U(t, k)' = U(t, k)
    BY <1>1, <1>2, LoopSame
  <1>4. ok[t] = TRUE
    BY <1>1, <1>2 DEF Progress, GoodPlaces
  <1>5. DoneOK(t)'
    <2>1. DoneOK(t)
      BY <1>1, <1>2, <1>4 DEF Progress
    <2>2. QED
      BY <1>2, <1>3, <2>1, DoneKept
  <1>6. idx'[t] = 1 /\ NrUnits(t) \in Nat /\ NrUnits(t) = Len(UnitsOf[Pkg(t)])
        /\ AllUnits(Pkg(t)) = NrUnits(t) + 1
    BY <1>1, <1>2, PkgType DEF ProcessUnits, TypeOK, PackagePlaces, NrUnits, AllUnits
  <1>7. \/ pc'[t] = "end" /\ ok'[t] = FALSE
        \/ /\ ok'[t] = TRUE
           /\ mode[t] = "Install" => pc'[t] = "check" \/ (pc'[t] = "end" /\ NrUnits(t) = 0)
           /\ mode[t] = "Uninstall" => pc'[t] = "remove" \/ (pc'[t] = "setdown" /\ NrUnits(t) = 0)
    <2>1. PICK b \in Outcomes("units") :
             /\ SetOk(t, b)
             /\ Goto(t, CASE ~b -> "end"
                          [] b /\ mode[t] = "Install" -> IF NrUnits(t) > 0 THEN "check" ELSE "end"
                          [] b /\ mode[t] = "Uninstall" -> IF NrUnits(t) > 0 THEN "remove" ELSE "setdown")
      BY DEF ProcessUnits
    <2>2. b \in BOOLEAN
      BY DEF Outcomes
    <2>3. /\ ok'[t] = b /\ (b = FALSE => pc'[t] = "end")
          /\ b = TRUE /\ mode[t] = "Install" => pc'[t] = "check" \/ (pc'[t] = "end" /\ ~(NrUnits(t) > 0))
          /\ b = TRUE /\ mode[t] = "Uninstall" => pc'[t] = "remove" \/ (pc'[t] = "setdown" /\ ~(NrUnits(t) > 0))
      BY <1>1, <2>1, <2>2 DEF TypeOK, SetOk, Goto
    <2>4. ~(NrUnits(t) > 0) => NrUnits(t) = 0
      BY <1>6
    <2>5. QED
      BY <2>2, <2>3, <2>4
  <1>8. handle'[t] = handle[t] /\ mode'[t] = mode[t] /\ asked'[t] = asked[t]
    BY <1>2
  <1>9. Others(t, idx[t])'
    BY <1>6 DEF Others
  <1>10. LostUnits(Pkg(t), idx[t])' /\ (NrUnits(t) = 0 => /\ HasUnits(Pkg(t), AllUnits(Pkg(t)))'
                                                         /\ LostUnits(Pkg(t), AllUnits(Pkg(t)))')
    BY <1>3, <1>6 DEF HasUnits, LostUnits
  <1>11. ok'[t] = TRUE /\ mode'[t] = "Install" => Installing(t)'
    <2>1. mode[t] = "Install" => handle[t] = Own(t)
      BY <1>1, <1>2, <1>4 DEF Progress, Installing
    <2>2. QED
      BY <1>3, <1>7, <1>8, <1>9, <1>10, <2>1 DEF Installing
  <1>12. ok'[t] = TRUE /\ mode'[t] = "Uninstall" => Removing(t)'
    <2>1. mode[t] = "Uninstall" => handle[t] # None
      BY <1>1, <1>2, <1>4 DEF Progress, Removing
    <2>2. QED
      BY <1>7, <1>8, <1>10, <2>1 DEF Removing
  <1>13. handle'[t] # None => handle'[t] \subseteq asked'[t]
    BY <1>1, <1>8 DEF Progress
  <1>14. QED
    BY <1>1, <1>3, <1>5, <1>7, <1>8, <1>11, <1>12, <1>13 DEF Progress, GoodPlaces

\* A unit that the check finds free is not one of a package that the request has installed.
LEMMA ProgressCheck ==
    ASSUME AnswerInv, NEW t \in Threads, CheckUnit(t)
    PROVE  Loop(t)' /\ Progress(t)'
  <1>1. /\ TypeOK /\ TodoOK /\ Phase(t) /\ Loop(t) /\ Progress(t)
        /\ ok[t] \in BOOLEAN /\ mode[t] \in {"Install", "Uninstall"}
    BY AnswerParts
  <1>2. UNCHANGED <<files, links, lsm, label, mode, asked, todo, left, handle>> /\ pc[t] = "check"
    BY DEF CheckUnit, shared
  <1>3. /\ Loop(t)' /\ Done(t)' = Done(t) /\ Pkg(t)' = Pkg(t) /\ Own(t)' = Own(t)
        /\ NrUnits(t)' = NrUnits(t) /\ AllUnits(Pkg(t))' = AllUnits(Pkg(t)) /\ \A k : U(t, k)' = U(t, k)
    BY <1>1, <1>2, LoopSame
  <1>4. ok[t] = TRUE /\ mode[t] = "Install" /\ mode'[t] = mode[t]
    BY <1>1, <1>2 DEF Progress, GoodPlaces, Phase
  <1>5. DoneOK(t)
    BY <1>1, <1>2, <1>4 DEF Progress
  <1>6. DoneOK(t)'
    BY <1>2, <1>3, <1>5, DoneKept
  <1>7. handle[t] = Own(t) /\ Others(t, idx[t])
    BY <1>1, <1>2, <1>4 DEF Progress, Installing
  <1>8. handle'[t] # None => handle'[t] \subseteq asked'[t]
    BY <1>1, <1>2 DEF Progress
  <1>9. /\ NrUnits(t) \in Nat /\ idx[t] \in 1..NrUnits(t) /\ AllUnits(Pkg(t)) = NrUnits(t) + 1
        /\ pc'[t] \in {"check", "write", "end"}
    BY <1>1, <1>2, PkgType DEF CheckUnit, Advance, Goto, TypeOK, PackagePlaces, UnitPlaces, NrUnits, AllUnits
  <1>10. CASE CheckClear(t) /\ Advance(t, "check", "write") /\ UNCHANGED ok
    <2>1. \A p \in Done(t) : \A j \in 1..Len(UnitsOf[p]) : U(t, idx[t]) # UnitsOf[p][j]
      <3>1. SUFFICES ASSUME NEW p \in Done(t), NEW j \in 1..Len(UnitsOf[p])  PROVE U(t, idx[t]) # UnitsOf[p][j]
        OBVIOUS
      <3>2. p \in Packages /\ p # None /\ UnitsOf[p] \in Seq(Units)
        BY NoneAssumption, UnitsAssumption DEF Done, Roots
      <3>3. HasUnits(p, Len(UnitsOf[p]) + 1)
        BY <1>4, <1>5 DEF DoneOK, Whole, AllUnits
      <3>4. files[UnitsOf[p][j]] = p
        BY <3>2, <3>3 DEF HasUnits
      <3>5. files[U(t, idx[t])] = None
        BY <1>10 DEF CheckClear, FileExists, Unit, U
      <3>6. QED
        BY <3>2, <3>4, <3>5
    <2>2. Others(t, idx[t] + 1)
      BY <1>7, <1>9, <2>1 DEF Others
    <2>3. CASE idx[t] < NrUnits(t)
      <3>1. pc'[t] = "check" /\ idx'[t] = idx[t] + 1
        BY <1>1, <1>10, <2>3 DEF Advance, Goto, TypeOK
      <3>2. Others(t, idx[t])'
        BY <1>3, <2>2, <3>1 DEF Others
      <3>3. Installing(t)'
        BY <1>2, <1>3, <1>7, <3>1, <3>2 DEF Installing
      <3>4. QED
        BY <1>3, <1>4, <1>6, <1>8, <1>10, <3>1, <3>3 DEF Progress
    <2>4. CASE idx[t] = NrUnits(t)
      <3>1. pc'[t] = "write" /\ idx'[t] = 1
        BY <1>1, <1>9, <1>10, <2>4 DEF Advance, Goto, TypeOK
      <3>2. Others(t, AllUnits(Pkg(t)))'
        BY <1>3, <1>9, <2>2, <2>4 DEF Others
      <3>3. HasUnits(Pkg(t), idx[t])'
        BY <3>1 DEF HasUnits
      <3>4. Installing(t)'
        BY <1>2, <1>3, <1>7, <3>1, <3>2, <3>3 DEF Installing
      <3>5. QED
        BY <1>3, <1>4, <1>6, <1>8, <1>10, <3>1, <3>4 DEF Progress
    <2>5. QED
      BY <1>9, <2>3, <2>4
  <1>11. CASE SetOk(t, FALSE) /\ Goto(t, "end")
    <2>1. ok'[t] = FALSE /\ pc'[t] = "end"
      BY <1>1, <1>11 DEF SetOk, Goto, TypeOK
    <2>2. QED
      BY <1>3, <1>8, <2>1 DEF Progress, GoodPlaces
  <1>12. QED
    BY <1>10, <1>11 DEF CheckUnit

\* Once a step has failed there is only the rollback, which keeps the failure.
LEMMA ProgressFailed ==
    ASSUME AnswerInv, NEW t \in Threads, pc[t] # "idle", UNCHANGED <<asked, todo, left, handle>>,
           pc'[t] \in {"rollback", "end"}, ok'[t] = FALSE
    PROVE  Loop(t)' /\ Progress(t)'
  <1>1. Loop(t) /\ Progress(t)
    BY AnswerParts
  <1>2. Loop(t)'
    BY <1>1, LoopSame
  <1>3. handle'[t] # None => handle'[t] \subseteq asked'[t]
    BY <1>1 DEF Progress
  <1>4. QED
    BY <1>2, <1>3 DEF Progress, GoodPlaces

LEMMA ProgressRollback ==
    ASSUME AnswerInv, NEW t \in Threads, RollbackUnit(t)
    PROVE  Loop(t)' /\ Progress(t)'
  <1>1. TypeOK /\ Progress(t) /\ pc[t] = "rollback"
    BY AnswerParts DEF RollbackUnit
  <1>2. ok' = ok /\ ok[t] = FALSE /\ UNCHANGED <<asked, todo, left, handle>>
    BY <1>1 DEF RollbackUnit, Progress
  <1>3. pc'[t] \in {"rollback", "end"}
    BY <1>1 DEF RollbackUnit, Advance, Goto, TypeOK
  <1>4. QED
    BY <1>1, <1>2, <1>3, ProgressFailed

\* A unit that is written, with its link if it is wanted, is one more; those of the packages that
\* the request has installed are others.
LEMMA ProgressWritten ==
    ASSUME AnswerInv, NEW t \in Threads, pc[t] \in {"write", "link"},
           UNCHANGED <<lsm, label, mode, asked, todo, left, handle, ok>>,
           files' = files \/ files' = [files EXCEPT ![Unit(t)] = Pkg(t)],
           links' = links \/ links' = links \cup {Unit(t)},
           files'[Unit(t)] = Pkg(t),
           \/ pc'[t] = "link" /\ idx' = idx
           \/ Advance(t, "write", "end") /\ (Unit(t) \in Wanted => Unit(t) \in links')
    PROVE  Loop(t)' /\ Progress(t)'
  <1>1. /\ TypeOK /\ TodoOK /\ Phase(t) /\ Loop(t) /\ Progress(t)
        /\ ok[t] \in BOOLEAN /\ mode[t] \in {"Install", "Uninstall"}
    BY AnswerParts
  <1>2. /\ Loop(t)' /\ Done(t)' = Done(t) /\ Pkg(t)' = Pkg(t) /\ Own(t)' = Own(t)
        /\ NrUnits(t)' = NrUnits(t) /\ AllUnits(Pkg(t))' = AllUnits(Pkg(t)) /\ \A k : U(t, k)' = U(t, k)
    BY <1>1, LoopSame
  <1>3. ok'[t] = TRUE /\ mode'[t] = "Install" /\ ok[t] = TRUE /\ mode[t] = "Install"
    BY <1>1 DEF Progress, GoodPlaces, Phase
  <1>4. DoneOK(t)
    BY <1>1, <1>3 DEF Progress
  <1>5. handle[t] = Own(t) /\ Others(t, AllUnits(Pkg(t))) /\ HasUnits(Pkg(t), idx[t])
    BY <1>1, <1>3 DEF Progress, Installing
  <1>6. /\ NrUnits(t) \in Nat /\ idx[t] \in 1..NrUnits(t) /\ AllUnits(Pkg(t)) = NrUnits(t) + 1
        /\ NrUnits(t) = Len(UnitsOf[Pkg(t)]) /\ \A k \in 1..NrUnits(t) : UnitsOf[Pkg(t)][k] \in Units
        /\ Unit(t) = U(t, idx[t]) /\ Unit(t) = UnitsOf[Pkg(t)][idx[t]]
    BY <1>1, PkgType DEF TypeOK, PackagePlaces, UnitPlaces, NrUnits, AllUnits, U, Unit
  <1>7. DoneOK(t)'
    <2>1. ASSUME NEW p \in Done(t)  PROVE Whole(p)'
      <3>1. Whole(p) /\ UnitsOf[p] \in Seq(Units)
        BY <1>3, <1>4, UnitsAssumption DEF DoneOK, Done, Roots
      <3>2. ASSUME NEW j \in 1..Len(UnitsOf[p])  PROVE files'[UnitsOf[p][j]] = files[UnitsOf[p][j]]
        <4>1. UnitsOf[p][j] # Unit(t)
          <5>1. idx[t] < AllUnits(Pkg(t)) /\ idx[t] \in 1..NrUnits(t)
            BY <1>6
          <5>2. U(t, idx[t]) # UnitsOf[p][j]
            BY <1>5, <5>1 DEF Others
          <5>3. QED
            BY <1>6, <5>2
        <4>2. UnitsOf[p][j] \in Units
          BY <3>1
        <4>3. QED
          BY <1>1, <4>1, <4>2 DEF TypeOK
      <3>3. links \subseteq links'
        OBVIOUS
      <3>4. QED
        BY <3>1, <3>2, <3>3 DEF Whole, HasUnits, AllUnits
    <2>2. \A e : Typed(asked[t], e) => Typed(asked[t], e)'
      BY DEF Typed, Holder, Roots
    <2>3. QED
      BY <1>2, <1>3, <1>4, <2>1, <2>2 DEF DoneOK
  <1>8. HasUnits(Pkg(t), idx[t])'  \/ idx'[t] # idx[t]
    BY <1>1, <1>2, <1>5, <1>6 DEF HasUnits, TypeOK
  <1>9. ASSUME NEW k \in 1..NrUnits(t), k < idx[t]
        PROVE  /\ files'[UnitsOf[Pkg(t)][k]] = Pkg(t)
               /\ UnitsOf[Pkg(t)][k] \in Wanted => UnitsOf[Pkg(t)][k] \in links'
    <2>1. /\ files[UnitsOf[Pkg(t)][k]] = Pkg(t)
          /\ UnitsOf[Pkg(t)][k] \in Wanted => UnitsOf[Pkg(t)][k] \in links
      BY <1>5, <1>6, <1>9 DEF HasUnits
    <2>2. QED
      BY <1>1, <1>6, <2>1 DEF TypeOK
  <1>10. Others(t, AllUnits(Pkg(t)))'
    BY <1>2, <1>5 DEF Others
  <1>11. handle'[t] = Own(t)' /\ (handle'[t] # None => handle'[t] \subseteq asked'[t])
    BY <1>1, <1>2, <1>5 DEF Progress
  <1>12. CASE pc'[t] = "link" /\ idx' = idx
    <2>1. files'[Unit(t)'] = Pkg(t)'
      BY <1>2, <1>12 DEF Unit, Pkg
    <2>2. HasUnits(Pkg(t), idx[t])'
      BY <1>8, <1>12
    <2>3. Installing(t)'
      BY <1>10, <1>11, <1>12, <2>1, <2>2 DEF Installing
    <2>4. QED
      BY <1>2, <1>3, <1>7, <1>11, <1>12, <2>3 DEF Progress
  <1>13. CASE Advance(t, "write", "end") /\ (Unit(t) \in Wanted => Unit(t) \in links')
    <2>1. \A k \in 1..NrUnits(t) : k < idx[t] + 1 =>
             /\ files'[UnitsOf[Pkg(t)][k]] = Pkg(t)
             /\ UnitsOf[Pkg(t)][k] \in Wanted => UnitsOf[Pkg(t)][k] \in links'
      <3>1. SUFFICES ASSUME NEW k \in 1..NrUnits(t), k < idx[t] + 1
                     PROVE  /\ files'[UnitsOf[Pkg(t)][k]] = Pkg(t)
                            /\ UnitsOf[Pkg(t)][k] \in Wanted => UnitsOf[Pkg(t)][k] \in links'
        OBVIOUS
      <3>2. k < idx[t] \/ k = idx[t]
        BY <1>6, <3>1
      <3>3. QED
        BY <1>6, <1>9, <1>13, <3>2
    <2>2. CASE idx[t] < NrUnits(t)
      <3>1. pc'[t] = "write" /\ idx'[t] = idx[t] + 1
        BY <1>1, <1>13, <2>2 DEF Advance, Goto, TypeOK
      <3>2. HasUnits(Pkg(t), idx[t])'
        BY <1>2, <1>6, <2>1, <3>1 DEF HasUnits
      <3>3. Installing(t)'
        BY <1>10, <1>11, <3>1, <3>2 DEF Installing
      <3>4. QED
        BY <1>2, <1>3, <1>7, <1>11, <3>1, <3>3 DEF Progress
    <2>3. CASE idx[t] = NrUnits(t)
      <3>1. pc'[t] = "end"
        BY <1>1, <1>6, <1>13, <2>3 DEF Advance, Goto, TypeOK
      <3>2. HasUnits(Pkg(t), AllUnits(Pkg(t)))'
        BY <1>2, <1>6, <2>1, <2>3 DEF HasUnits
      <3>3. Installing(t)'
        BY <1>10, <1>11, <3>1, <3>2 DEF Installing
      <3>4. QED
        BY <1>2, <1>3, <1>7, <1>11, <3>1, <3>3 DEF Progress
    <2>4. QED
      BY <1>6, <2>2, <2>3
  <1>14. QED
    BY <1>12, <1>13

LEMMA ProgressWrite ==
    ASSUME AnswerInv, NEW t \in Threads, WriteUnit(t) \/ LinkUnit(t)
    PROVE  Loop(t)' /\ Progress(t)'
  <1>1. TypeOK /\ TodoOK /\ Progress(t) /\ ok[t] \in BOOLEAN
    BY AnswerParts
  <1>2. pc[t] \in {"write", "link"} /\ UNCHANGED <<lsm, label, mode, asked, todo, left, handle>>
    BY DEF WriteUnit, LinkUnit
  <1>3. Unit(t) \in Units /\ ok[t] = TRUE
    <2>1. idx[t] \in 1..NrUnits(t) /\ pc[t] \in PackagePlaces
      BY <1>1, <1>2 DEF TypeOK, PackagePlaces, UnitPlaces
    <2>2. QED
      BY <1>1, <1>2, <2>1, PkgType DEF Unit, U, Progress, GoodPlaces
  <1>4. CASE GotoRollback(t)
    <2>1. pc'[t] = "rollback" /\ ok'[t] = FALSE /\ pc[t] # "idle"
      BY <1>1, <1>2, <1>4 DEF GotoRollback, Goto, SetOk, TypeOK
    <2>2. QED
      BY <1>2, <2>1, ProgressFailed
  <1>5. CASE WriteUnit(t) /\ ~GotoRollback(t)
    <2>1. /\ files' = [files EXCEPT ![Unit(t)] = Pkg(t)] /\ links' = links /\ ok' = ok
          /\ \/ Goto(t, "link") /\ idx' = idx
             \/ Advance(t, "write", "end") /\ Unit(t) \notin Wanted
      BY <1>5 DEF WriteUnit
    <2>2. files'[Unit(t)] = Pkg(t) /\ (Goto(t, "link") => pc'[t] = "link")
      BY <1>1, <1>3, <2>1 DEF TypeOK, Goto
    <2>3. QED
      BY <1>2, <2>1, <2>2, ProgressWritten
  <1>6. CASE LinkUnit(t) /\ ~GotoRollback(t)
    <2>1. /\ links' = links \cup {Unit(t)} /\ Advance(t, "write", "end") /\ ok' = ok
          /\ files' = files /\ pc[t] = "link"
      BY <1>6 DEF LinkUnit
    <2>2. mode[t] = "Install"
      BY <2>1, AnswerParts DEF Phase
    <2>3. files[Unit(t)] = Pkg(t)
      BY <1>1, <1>3, <2>1, <2>2 DEF Progress, Installing
    <2>4. QED
      BY <1>2, <2>1, <2>3, ProgressWritten
  <1>7. QED
    BY <1>4, <1>5, <1>6

\* do_uninstall_units goes on after an error but remembers it: as long as the result is good every
\* unit it has passed has lost its file and its link.
LEMMA ProgressRemove ==
    ASSUME AnswerInv, NEW t \in Threads, RemoveUnit(t)
    PROVE  Loop(t)' /\ Progress(t)'
  <1>1. /\ TypeOK /\ TodoOK /\ Phase(t) /\ Loop(t) /\ Progress(t)
        /\ ok[t] \in BOOLEAN /\ mode[t] \in {"Install", "Uninstall"}
    BY AnswerParts
  <1>2. pc[t] = "remove" /\ UNCHANGED <<lsm, label, mode, asked, todo, left, handle>>
    BY DEF RemoveUnit
  <1>3. /\ Loop(t)' /\ Done(t)' = Done(t) /\ Pkg(t)' = Pkg(t) /\ AllUnits(Pkg(t))' = AllUnits(Pkg(t))
    BY <1>1, <1>2, LoopSame
  <1>4. PICK fileOk \in BOOLEAN, linkOk \in BOOLEAN :
           /\ UnlinkUnit(t, fileOk, linkOk)
           /\ SetOk(t, RemoveResult(t, fileOk, linkOk))
           /\ Advance(t, "remove", IF RemoveResult(t, fileOk, linkOk) THEN "setdown" ELSE "end")
    BY DEF RemoveUnit
  <1>5. mode[t] = "Uninstall" /\ mode'[t] = "Uninstall"
    BY <1>1, <1>2 DEF Phase
  <1>6. ok'[t] = RemoveResult(t, fileOk, linkOk) /\ ok'[t] \in BOOLEAN
    BY <1>1, <1>4 DEF SetOk, RemoveResult, TypeOK
  <1>7. handle'[t] = handle[t] /\ asked'[t] = asked[t] /\ (handle'[t] # None => handle'[t] \subseteq asked'[t])
    BY <1>1, <1>2 DEF Progress
  <1>8. /\ NrUnits(t) \in Nat /\ idx[t] \in 1..NrUnits(t) /\ AllUnits(Pkg(t)) = NrUnits(t) + 1
        /\ NrUnits(t) = Len(UnitsOf[Pkg(t)]) /\ \A k \in 1..NrUnits(t) : UnitsOf[Pkg(t)][k] \in Units
        /\ Unit(t) = UnitsOf[Pkg(t)][idx[t]]
    BY <1>1, <1>2, PkgType DEF TypeOK, PackagePlaces, UnitPlaces, NrUnits, AllUnits, U, Unit
  <1>9. /\ \A u \in Units : files[u] = None => files'[u] = None
        /\ links' \subseteq links
    BY <1>1, <1>4 DEF UnlinkUnit, TypeOK
  <1>10. /\ pc'[t] \in {"remove", "setdown", "end"} /\ (pc'[t] = "setdown" => ok'[t] = TRUE)
         /\ ok'[t] = TRUE => pc'[t] # "end"
         /\ pc'[t] = "remove" => idx[t] < NrUnits(t) /\ idx'[t] = idx[t] + 1
         /\ pc'[t] # "remove" => idx[t] = NrUnits(t)
    BY <1>1, <1>4, <1>6, <1>8 DEF Advance, Goto, TypeOK
  <1>11. CASE ok'[t] = FALSE
    BY <1>3, <1>7, <1>10, <1>11 DEF Progress, GoodPlaces
  <1>12. CASE ok'[t] = TRUE
    <2>1. ok[t] = TRUE /\ fileOk = TRUE /\ linkOk = TRUE
      BY <1>1, <1>6, <1>12 DEF RemoveResult
    <2>2. DoneOK(t) /\ Removing(t)
      BY <1>1, <1>2, <1>5, <2>1 DEF Progress
    <2>3. LostUnits(Pkg(t), idx[t]) /\ handle[t] # None
      BY <1>2, <2>2 DEF Removing
    <2>4. files'[Unit(t)] = None /\ Unit(t) \notin links'
      BY <1>1, <1>4, <1>8, <2>1 DEF UnlinkUnit, TypeOK
    <2>5. \A k \in 1..NrUnits(t) : k < idx[t] + 1 =>
             files'[UnitsOf[Pkg(t)][k]] = None /\ UnitsOf[Pkg(t)][k] \notin links'
      <3>1. SUFFICES ASSUME NEW k \in 1..NrUnits(t), k < idx[t] + 1
                     PROVE  files'[UnitsOf[Pkg(t)][k]] = None /\ UnitsOf[Pkg(t)][k] \notin links'
        OBVIOUS
      <3>2. CASE k = idx[t]
        BY <1>8, <2>4, <3>2
      <3>3. CASE k < idx[t]
        BY <1>8, <1>9, <2>3, <3>3 DEF LostUnits
      <3>4. QED
        BY <1>8, <3>1, <3>2, <3>3
    <2>6. DoneOK(t)'
      <3>1. ASSUME NEW p \in Done(t)  PROVE Gone(p)'
        <4>1. Gone(p) /\ UnitsOf[p] \in Seq(Units)
          BY <1>5, <2>2, UnitsAssumption DEF DoneOK, Done, Roots
        <4>2. \A k \in 1..Len(UnitsOf[p]) : UnitsOf[p][k] \in Units
          BY <4>1
        <4>3. QED
          BY <1>2, <1>9, <4>1, <4>2 DEF Gone, LostUnits, AllUnits
      <3>2. QED
        BY <1>3, <1>5, <3>1 DEF DoneOK
    <2>7. pc'[t] = "remove" => LostUnits(Pkg(t), idx[t])'
      BY <1>3, <1>8, <1>10, <2>5 DEF LostUnits
    <2>8. pc'[t] # "remove" => LostUnits(Pkg(t), AllUnits(Pkg(t)))'
      BY <1>3, <1>8, <1>10, <2>5 DEF LostUnits
    <2>9. Removing(t)'
      BY <1>7, <1>10, <2>3, <2>7, <2>8 DEF Removing
    <2>10. QED
      BY <1>3, <1>5, <1>7, <1>10, <1>12, <2>6, <2>9 DEF Progress
  <1>13. QED
    BY <1>6, <1>11, <1>12

LEMMA ProgressSetdown ==
    ASSUME AnswerInv, NEW t \in Threads, SetdownSecurity(t)
    PROVE  Loop(t)' /\ Progress(t)'
  <1>1. /\ TypeOK /\ TodoOK /\ Phase(t) /\ Loop(t) /\ Progress(t)
    BY AnswerParts
  <1>2. /\ pc[t] = "setdown" /\ UNCHANGED <<files, links, lsm, label, mode, asked, todo, left, ok>>
        /\ pc'[t] = "end"
    BY <1>1 DEF SetdownSecurity, shared, Goto, TypeOK
  <1>3. /\ Loop(t)' /\ Done(t)' = Done(t) /\ Pkg(t)' = Pkg(t) /\ AllUnits(Pkg(t))' = AllUnits(Pkg(t))
    BY <1>1, <1>2, LoopSame
  <1>4. ok[t] = TRUE /\ ok'[t] = TRUE /\ mode[t] = "Uninstall" /\ mode'[t] = "Uninstall"
    BY <1>1, <1>2 DEF Progress, GoodPlaces, Phase
  <1>5. DoneOK(t) /\ LostUnits(Pkg(t), AllUnits(Pkg(t)))
    BY <1>1, <1>2, <1>4 DEF Progress, Removing
  <1>6. DoneOK(t)'
    BY <1>2, <1>3, <1>5, DoneKept
  <1>7. handle'[t] # None /\ handle'[t] \subseteq asked'[t]
    <2>1. PICK T \in SUBSET Own(t) : handle' = [handle EXCEPT ![t] = T]
      BY DEF SetdownSecurity
    <2>2. handle'[t] = T /\ T \subseteq left[t] /\ T \in SUBSET Entries
      BY <1>1, <2>1 DEF Own, TypeOK
    <2>3. left[t] \subseteq asked[t]
      BY <1>1, <1>2 DEF Loop, TypeOK
    <2>4. QED
      BY <1>2, <2>2, <2>3, NoneAssumption
  <1>8. LostUnits(Pkg(t), AllUnits(Pkg(t)))'
    BY <1>2, <1>3, <1>5 DEF LostUnits
  <1>9. Removing(t)'
    BY <1>2, <1>7, <1>8 DEF Removing
  <1>10. QED
    BY <1>2, <1>3, <1>4, <1>6, <1>7, <1>9 DEF Progress

\* With a good result the session exists and is committed: the package is registered, and its
\* entries get their type, or it is forgotten.
LEMMA ProgressEnd ==
    ASSUME AnswerInv, NEW t \in Threads, End(t)
    PROVE  Loop(t)' /\ Progress(t)'
  <1>1. /\ TypeOK /\ TodoOK /\ Phase(t) /\ Loop(t) /\ Progress(t)
        /\ ok[t] \in BOOLEAN /\ mode[t] \in {"Install", "Uninstall"}
    BY AnswerParts
  <1>2. /\ pc[t] = "end" /\ UNCHANGED <<files, links, mode, asked, todo, left>>
        /\ pc'[t] = "leave" /\ handle'[t] = None /\ mode'[t] = mode[t]
    BY <1>1 DEF End, Goto, Release, TypeOK
  <1>3. /\ Loop(t)' /\ Done(t)' = Done(t) /\ Pkg(t)' = Pkg(t) /\ Own(t)' = Own(t)
        /\ AllUnits(Pkg(t))' = AllUnits(Pkg(t))
    BY <1>1, <1>2, LoopSame
  <1>4. ok'[t] \in BOOLEAN /\ (ok'[t] = TRUE => ok[t] = TRUE)
    BY <1>1 DEF End, SetOk, TypeOK
  <1>5. CASE ok'[t] = FALSE
    BY <1>2, <1>3, <1>5 DEF Progress, GoodPlaces
  <1>6. CASE ok'[t] = TRUE
    <2>1. ok[t] = TRUE /\ DoneOK(t)
      BY <1>1, <1>2, <1>4, <1>6 DEF Progress
    <2>2. handle[t] # None /\ (mode[t] = "Install" => handle[t] = Own(t))
      <3>1. mode[t] = "Install" => handle[t] = Own(t)
        BY <1>1, <1>2, <2>1 DEF Progress, Installing
      <3>2. mode[t] = "Uninstall" => handle[t] # None
        BY <1>1, <1>2, <2>1 DEF Progress, Removing
      <3>3. Own(t) \in SUBSET Entries
        BY <1>1 DEF Own, TypeOK
      <3>4. QED
        BY <1>1, <3>1, <3>2, <3>3, NoneAssumption
    <2>3. LsmCommit(t)
      BY <1>1, <1>6, <2>1, <2>2 DEF End, Commits, SetOk, TypeOK
    <2>4. Pkg(t) \in Roots(asked[t]) /\ Pkg(t) \notin Done(t) /\ pc[t] \in PackagePlaces
      <3>1. pc[t] \in PackagePlaces
        BY <1>2 DEF PackagePlaces
      <3>2. QED
        BY <1>1, <3>1, CurrentPkg
    <2>5. \A p, n : (HasUnits(p, n) => HasUnits(p, n)') /\ (LostUnits(p, n) => LostUnits(p, n)')
      BY <1>2 DEF HasUnits, LostUnits
    <2>6. \A p : AllUnits(p)' = AllUnits(p)
      BY DEF AllUnits
    <2>7. CASE mode[t] = "Install"
      <3>1. lsm' = lsm \cup {Pkg(t)}
        BY <2>3, <2>7 DEF LsmCommit
      <3>2. /\ \A e \in Entries : e \notin Own(t) => label'[e] = label[e]
            /\ \A e \in Own(t) : label'[e] = <<Pkg(t), "typed">>
        <4>1. Own(t) \subseteq Entries
          BY <1>1 DEF Own, TypeOK
        <4>2. QED
          BY <2>2, <2>3, <2>7, <4>1 DEF LsmCommit
      <3>3. \A p \in Done(t) : Whole(p)'
        BY <2>1, <2>5, <2>6, <2>7, <3>1 DEF DoneOK, Whole
      <3>4. \A e : Holder(asked[t], e)' = Holder(asked[t], e)
        BY <1>2 DEF Holder, Roots
      <3>5. ASSUME NEW e \in asked[t] \ left[t]  PROVE Typed(asked[t], e)'
        <4>1. Typed(asked[t], e) /\ e \in Entries /\ e \notin Own(t)
          BY <1>1, <2>1, <2>7, <3>5 DEF DoneOK, TypeOK, Own
        <4>2. QED
          BY <3>2, <3>4, <4>1 DEF Typed
      <3>6. DoneOK(t)'
        BY <1>2, <1>3, <2>7, <3>3, <3>5 DEF DoneOK
      <3>7. ASSUME NEW e \in Own(t)  PROVE Typed(asked[t], e)'
        <4>1. Holder(asked[t], e) = Pkg(t) /\ Pkg(t) \in Packages
          BY <1>1, <2>4, HolderIs
        <4>2. QED
          BY <3>2, <3>4, <4>1 DEF Typed
      <3>8. Whole(Pkg(t))'
        <4>1. HasUnits(Pkg(t), AllUnits(Pkg(t)))
          BY <1>1, <1>2, <2>1, <2>7 DEF Progress, Installing
        <4>2. HasUnits(Pkg(t), AllUnits(Pkg(t)))'
          BY <1>2, <1>3, <4>1 DEF HasUnits
        <4>3. QED
          BY <1>3, <3>1, <4>2 DEF Whole
      <3>9. Installing(t)'
        BY <1>2, <1>3, <3>7, <3>8 DEF Installing
      <3>10. QED
        BY <1>2, <1>3, <1>6, <2>7, <3>6, <3>9 DEF Progress
    <2>8. CASE mode[t] = "Uninstall"
      <3>1. lsm' = lsm \ {Pkg(t)}
        BY <2>3, <2>8 DEF LsmCommit
      <3>2. \A p \in Done(t) : Gone(p)'
        BY <2>1, <2>5, <2>6, <2>8, <3>1 DEF DoneOK, Gone
      <3>3. DoneOK(t)'
        BY <1>2, <1>3, <2>8, <3>2 DEF DoneOK
      <3>4. Gone(Pkg(t))'
        <4>1. LostUnits(Pkg(t), AllUnits(Pkg(t)))
          BY <1>1, <1>2, <2>1, <2>8 DEF Progress, Removing
        <4>2. LostUnits(Pkg(t), AllUnits(Pkg(t)))'
          BY <1>2, <1>3, <4>1 DEF LostUnits
        <4>3. QED
          BY <1>3, <3>1, <4>2 DEF Gone
      <3>5. Removing(t)'
        BY <1>2, <3>4 DEF Removing
      <3>6. QED
        BY <1>2, <1>3, <1>6, <2>8, <3>3, <3>5 DEF Progress
    <2>9. QED
      BY <1>1, <2>7, <2>8
  <1>7. QED
    BY <1>4, <1>5, <1>6

LEMMA ProgressLeave ==
    ASSUME AnswerInv, NEW t \in Threads, Leave(t)
    PROVE  Loop(t)' /\ Progress(t)'
  <1>1. /\ TypeOK /\ TodoOK /\ Loop(t) /\ Progress(t) /\ HandleReleased
        /\ ok[t] \in BOOLEAN /\ mode[t] \in {"Install", "Uninstall"}
    BY AnswerParts
  <1>2. pc[t] = "leave" /\ UNCHANGED <<files, links, lsm, label, mode, handle, ok>>
    BY DEF Leave, shared
  <1>3. /\ Loop(t)' /\ Done(t)' = Done(t) \cup {Pkg(t)}
        /\ \A e : e \in asked'[t] \ left'[t] => e \in asked[t] \ left[t] \/ e \in Own(t)
        /\ asked'[t] = asked[t]
    BY <1>1, LoopLeave
  <1>4. handle'[t] = None
    BY <1>1, <1>2 DEF HandleReleased
  <1>5. /\ ok[t] = FALSE => pc'[t] = "answer"
        /\ ok[t] = TRUE => pc'[t] \in {"manifest", "default"} /\ (pc'[t] = "default" => todo'[t] = <<>>)
    <2>1. todo'[t] = Tail(todo[t]) /\ pc'[t] = IF ok[t] THEN LoopPlace(Tail(todo[t])) ELSE "answer"
      BY <1>1 DEF Leave, Goto, TypeOK
    <2>2. QED
      BY <2>1 DEF LoopPlace
  <1>6. CASE ok[t] = FALSE
    BY <1>2, <1>3, <1>4, <1>5, <1>6 DEF Progress, GoodPlaces
  <1>7. CASE ok[t] = TRUE
    <2>1. DoneOK(t)
      BY <1>1, <1>2, <1>7 DEF Progress
    <2>2. \A p : (Whole(p) => Whole(p)') /\ (Gone(p) => Gone(p)')
      BY <1>2 DEF Whole, Gone, HasUnits, LostUnits, AllUnits
    <2>3. \A e : Typed(asked[t], e) => Typed(asked[t], e)'
      BY <1>2, <1>3 DEF Typed, Holder, Roots
    <2>4. mode[t] = "Install" => Whole(Pkg(t)) /\ \A e \in Own(t) : Typed(asked[t], e)
      BY <1>1, <1>2, <1>7 DEF Progress, Installing
    <2>5. mode[t] = "Uninstall" => Gone(Pkg(t))
      BY <1>1, <1>2, <1>7 DEF Progress, Removing
    <2>6. mode[t] = "Install" => DoneOK(t)'
      <3>1. SUFFICES ASSUME mode[t] = "Install"  PROVE DoneOK(t)'
        OBVIOUS
      <3>2. \A p \in Done(t) \cup {Pkg(t)} : Whole(p)
        BY <2>1, <2>4, <3>1 DEF DoneOK
      <3>3. \A p \in Done(t)' : Whole(p)'
        BY <1>3, <2>2, <3>2
      <3>4. \A e \in asked'[t] \ left'[t] : Typed(asked[t], e)'
        BY <1>3, <2>1, <2>3, <2>4, <3>1 DEF DoneOK
      <3>5. QED
        BY <1>2, <3>1, <3>3, <3>4 DEF DoneOK
    <2>7. mode[t] = "Uninstall" => DoneOK(t)'
      <3>1. SUFFICES ASSUME mode[t] = "Uninstall"  PROVE DoneOK(t)'
        OBVIOUS
      <3>2. \A p \in Done(t) \cup {Pkg(t)} : Gone(p)
        BY <2>1, <2>5, <3>1 DEF DoneOK
      <3>3. \A p \in Done(t)' : Gone(p)'
        BY <1>3, <2>2, <3>2
      <3>4. QED
        BY <1>2, <3>1, <3>3 DEF DoneOK
    <2>8. Installing(t)' /\ Removing(t)'
      BY <1>5, <1>7 DEF Installing, Removing
    <2>9. QED
      BY <1>1, <1>2, <1>3, <1>4, <1>5, <1>7, <2>6, <2>7, <2>8 DEF Progress
  <1>8. QED
    BY <1>1, <1>6, <1>7

LEMMA ProgressDefault ==
    ASSUME AnswerInv, NEW t \in Threads, DefaultTree(t)
    PROVE  Loop(t)' /\ Progress(t)'
  <1>1. /\ TypeOK /\ TodoOK /\ Loop(t) /\ Progress(t) /\ HandleReleased
        /\ ok[t] \in BOOLEAN /\ mode[t] \in {"Install", "Uninstall"}
    BY AnswerParts
  <1>2. /\ pc[t] = "default" /\ UNCHANGED <<files, links, lsm, mode, asked, todo, left, handle>>
        /\ pc'[t] = "answer" /\ handle[t] = None
    BY <1>1 DEF DefaultTree, Goto, HandleReleased, TypeOK
  <1>3. Loop(t)' /\ Done(t)' = Done(t)
    BY <1>1, <1>2, LoopSame
  <1>4. ok[t] = TRUE /\ todo[t] = <<>>
    BY <1>1, <1>2 DEF Progress, GoodPlaces
  <1>5. DoneOK(t)
    BY <1>1, <1>2, <1>4 DEF Progress
  <1>6. \A e \in Entries : e \notin left[t] => label'[e] = label[e]
    BY DEF DefaultTree
  <1>7. DoneOK(t)'
    <2>1. \A p : (Whole(p) => Whole(p)') /\ (Gone(p) => Gone(p)')
      BY <1>2 DEF Whole, Gone, HasUnits, LostUnits, AllUnits
    <2>2. \A e : Holder(asked[t], e)' = Holder(asked[t], e)
      BY <1>2 DEF Holder, Roots
    <2>3. \A e \in asked[t] \ left[t] : Typed(asked[t], e) => Typed(asked[t], e)'
      BY <1>1, <1>6, <2>2 DEF Typed, TypeOK
    <2>4. QED
      BY <1>2, <1>3, <1>5, <2>1, <2>3 DEF DoneOK
  <1>8. ok'[t] \in BOOLEAN
    BY <1>1 DEF DefaultTree, SetOk, TypeOK
  <1>9. ok'[t] = TRUE /\ mode'[t] = "Install" => \A e \in left'[t] : label'[e] = Default
    <2>1. SUFFICES ASSUME ok'[t] = TRUE, mode[t] = "Install"  PROVE \A e \in left[t] : label'[e] = Default
      BY <1>2
    <2>2. CASE left[t] = {}
      BY <2>2
    <2>3. CASE left[t] # {}
      <3>1. label' = [e \in Entries |-> IF e \in left[t] THEN Default ELSE label[e]]
        BY <1>1, <2>1, <2>3 DEF DefaultTree, SetOk, TypeOK
      <3>2. QED
        BY <1>1, <3>1 DEF TypeOK
    <2>4. QED
      BY <2>2, <2>3
  <1>10. ok'[t] = TRUE /\ mode'[t] = "Install" => Installing(t)'
    BY <1>2, <1>9 DEF Installing
  <1>11. Removing(t)'
    BY <1>2 DEF Removing
  <1>12. QED
    BY <1>2, <1>3, <1>4, <1>7, <1>8, <1>10, <1>11 DEF Progress, GoodPlaces

LEMMA ProgressAnswer ==
    ASSUME AnswerInv, NEW t \in Threads, Answer(t)
    PROVE  Loop(t)' /\ Progress(t)'
  <1>1. TypeOK /\ HandleReleased
    BY AnswerParts
  <1>2. pc'[t] = "idle" /\ handle'[t] = None
    BY <1>1 DEF Answer, Goto, HandleReleased, TypeOK
  <1>3. Installing(t)' /\ Removing(t)' /\ Loop(t)'
    BY <1>2 DEF Installing, Removing, Loop
  <1>4. QED
    BY <1>2, <1>3 DEF Progress, GoodPlaces

LEMMA AnswerStep ==
    ASSUME Apart, EntriesApart, AnswerInv, [Next]_vars
    PROVE  AnswerInv'
  <1>1. IInv' /\ HandleReleased'
    BY IInvStep, ReleaseStep DEF AnswerInv, IInv
  <1>2. ASSUME NEW s \in Threads  PROVE Loop(s)' /\ Progress(s)'
    <2>1. CASE Next
      <3>1. PICK t \in Threads : ThreadNext(t)
        BY <2>1 DEF Next
      <3>2. CASE s = t
        BY <3>1, <3>2, ProgressStart, ProgressBefore, ProgressUnits, ProgressCheck, ProgressWrite,
           ProgressRollback, ProgressRemove, ProgressSetdown, ProgressEnd, ProgressLeave,
           ProgressDefault, ProgressAnswer
           DEF ThreadNext
      <3>3. CASE s # t
        BY <3>1, <3>3, ProgressOther
      <3>4. QED
        BY <3>2, <3>3
    <2>2. CASE UNCHANGED vars
      <3>1. Loop(s) /\ Progress(s)
        BY AnswerParts
      <3>2. /\ UNCHANGED <<files, links, lsm, label, mode, asked, todo, left, handle, ok, pc, idx>>
        BY <2>2 DEF vars
      <3>3. /\ Loop(s)' /\ Done(s)' = Done(s) /\ Pkg(s)' = Pkg(s) /\ Own(s)' = Own(s) /\ Unit(s)' = Unit(s)
            /\ AllUnits(Pkg(s))' = AllUnits(Pkg(s))
        BY <3>1, <3>2, LoopKept DEF Pkg, Own, Unit, AllUnits
      <3>4. DoneOK(s) => DoneOK(s)'
        BY <3>2, <3>3, DoneKept
      <3>5. Installing(s) => Installing(s)'
        <4>1. \A p : (Whole(p) => Whole(p)') /\ \A n : HasUnits(p, n) => HasUnits(p, n)'
          BY <3>2 DEF HasUnits, Whole, AllUnits
        <4>2. \A e : Typed(asked[s], e) => Typed(asked[s], e)'
          BY <3>2 DEF Typed, Holder, Roots
        <4>3. \A n : Others(s, n) => Others(s, n)'
          BY <3>2, <3>3 DEF Others, NrUnits, U, Pkg
        <4>4. QED
          BY <3>2, <3>3, <4>1, <4>2, <4>3 DEF Installing
      <3>6. Removing(s) => Removing(s)'
        BY <3>2, <3>3 DEF Removing, LostUnits, Gone, AllUnits
      <3>7. QED
        BY <3>1, <3>2, <3>3, <3>4, <3>5, <3>6 DEF Progress
    <2>3. QED
      BY <2>1, <2>2
  <1>3. QED
    BY <1>1, <1>2 DEF AnswerInv

LEMMA AnswerInvHolds == AnswerInv => AnswerHolds
  <1>1. SUFFICES ASSUME AnswerInv, NEW t \in Threads, pc[t] = "answer", ok[t]
                 PROVE  IF mode[t] = "Install" THEN Installed(asked[t]) ELSE Removed(asked[t])
    BY DEF AnswerHolds
  <1>2. /\ TypeOK /\ TodoOK /\ Loop(t) /\ Progress(t)
        /\ ok[t] = TRUE /\ mode[t] \in {"Install", "Uninstall"}
    BY <1>1, AnswerParts
  <1>3. todo[t] = <<>> /\ DoneOK(t)
    BY <1>1, <1>2 DEF Progress
  <1>4. Done(t) = Roots(asked[t])
    BY <1>3 DEF Done, Range
  <1>5. ASSUME NEW p \in Roots(asked[t]), NEW u \in Range(UnitsOf[p])
        PROVE  /\ Whole(p) => files[u] = p /\ (u \in Wanted => u \in links)
               /\ Gone(p) => files[u] = None /\ u \notin links
    <2>1. UnitsOf[p] \in Seq(Units)
      BY UnitsAssumption DEF Roots
    <2>2. PICK k \in 1..Len(UnitsOf[p]) : u = UnitsOf[p][k]
      BY <1>5, <2>1 DEF Range
    <2>3. k < Len(UnitsOf[p]) + 1
      BY <2>1
    <2>4. QED
      BY <2>2, <2>3 DEF Whole, Gone, HasUnits, LostUnits, AllUnits
  <1>6. CASE mode[t] = "Install"
    <2>1. \A p \in Roots(asked[t]) : Whole(p)
      BY <1>3, <1>4, <1>6 DEF DoneOK
    <2>2. ASSUME NEW e \in asked[t]
          PROVE  label[e] = IF Holder(asked[t], e) = None THEN Default ELSE <<Holder(asked[t], e), "typed">>
      <3>1. CASE e \notin left[t]
        <4>1. Typed(asked[t], e)
          BY <1>3, <1>6, <2>2, <3>1 DEF DoneOK
        <4>2. QED
          BY <4>1, NoneAssumption DEF Typed
      <3>2. CASE e \in left[t]
        <4>1. \A p \in Roots(asked[t]) : e \notin Under[p]
          BY <1>1, <1>2, <1>4, <3>2 DEF Loop, TypeOK
        <4>2. Holder(asked[t], e) = None
          BY <4>1 DEF Holder
        <4>3. label[e] = Default
          BY <1>1, <1>2, <1>6, <3>2 DEF Progress, Installing
        <4>4. QED
          BY <4>2, <4>3
      <3>3. QED
        BY <3>1, <3>2
    <2>3. Installed(asked[t])
      BY <1>5, <2>1, <2>2 DEF Installed, Whole
    <2>4. QED
      BY <1>6, <2>3
  <1>7. CASE mode[t] = "Uninstall"
    <2>1. \A p \in Roots(asked[t]) : Gone(p)
      BY <1>3, <1>4, <1>7 DEF DoneOK
    <2>2. Removed(asked[t])
      BY <1>5, <2>1 DEF Removed, Gone
    <2>3. QED
      BY <1>7, <2>2
  <1>8. QED
    BY <1>2, <1>6, <1>7

\* When the threads are asked for different entries and no unit is common to the packages of two of
\* them, an answer 0 of afmpkg_process is true of the whole request, whatever calls fail: all its
\* packages are installed with their units, links, registration and labels, or all are removed.
THEOREM AnswerCorrect ==
    ASSUME Apart, EntriesApart
    PROVE  Spec => []AnswerHolds
  <1>1. Init => AnswerInv
    <2>1. SUFFICES ASSUME Init  PROVE AnswerInv
      OBVIOUS
    <2>2. IInv /\ HandleReleased
      BY <2>1, TypeInit DEF Init, IInv, Phase, HandleReleased
    <2>3. ASSUME NEW t \in Threads  PROVE Loop(t) /\ Progress(t)
      <3>1. pc[t] = "idle" /\ handle[t] = None
        BY <2>1 DEF Init
      <3>2. Installing(t) /\ Removing(t) /\ Loop(t)
        BY <3>1 DEF Installing, Removing, Loop
      <3>3. QED
        BY <3>1, <3>2 DEF Progress, GoodPlaces
    <2>4. QED
      BY <2>2, <2>3 DEF AnswerInv
  <1>2. AnswerInv /\ [Next]_vars => AnswerInv'
    BY AnswerStep
  <1>3. QED
    BY <1>1, <1>2, AnswerInvHolds, PTL DEF Spec

----------------------------------------------------------------------------
(* The check of the signatures of a package. *)

Versions == Nat \cup {Absent}
Records == Seq([name : AllFiles, hash : Versions])
Verdicts == {"ok", "ENOENT", "EBADF"}
Checks == [at : {"no", "next", "record", "end"}, sig : Signatures \cup {Absent}, left : SUBSET Signatures, record : Nat,
           marked : SUBSET AllFiles, rc : Verdicts, edited : BOOLEAN]

DigestTypeOK ==
    /\ content \in [AllFiles -> Versions] /\ edits \in Nat
    /\ hashes \in [AllFiles -> Versions]
    /\ sigs = [s \in Signatures |-> sigs[s]] /\ \A s \in Signatures : sigs[s].records \in Records
    /\ verdicts \in [Signatures -> Verdicts \cup {Absent}]
    /\ check \in Checks

\* The records that the check of a signature has passed.
Passed(s, n) ==
    \A i \in 1..n : LET r == sigs[s].records[i]
                    IN  r.name \in Tree /\ hashes[r.name] = r.hash /\ hashes[r.name] # Absent

Covered(s) == {<<r.name, r.hash>> : r \in ToSet(sigs[s].records)}
Expects(s) == {<<f, hashes[f]>> : f \in Tree \cap Filter(s)}
Current(s) == {<<f, content[f]>> : f \in Tree \cap Filter(s)}

\* A signature is accepted for hashes that are recorded, and refused for a reason that lasts.
Accepted(s) ==
    /\ Covered(s) = Expects(s) /\ sigs[s].signer \in Trusted
    /\ \A f \in Tree \cap Filter(s) : hashes[f] # Absent
Refused(s) == Covered(s) # Current(s) \/ sigs[s].signer \notin Trusted \/ check.edited = TRUE

Settled ==
    \A s \in Signatures : /\ verdicts[s] = "ok" => Accepted(s)
                          /\ verdicts[s] \in {"ENOENT", "EBADF"} => Refused(s)

CheckPlace ==
    /\ check.at = "no" => /\ \A f \in AllFiles : hashes[f] = Absent
                          /\ \A s \in Signatures : verdicts[s] = Absent
    /\ check.at = "record" =>
          /\ check.sig \in Signatures \ check.left /\ verdicts[check.sig] = Absent
          /\ check.record \in 1..(Len(sigs[check.sig].records) + 1)
          /\ check.marked = {sigs[check.sig].records[i].name : i \in 1..(check.record - 1)}
          /\ Passed(check.sig, check.record - 1)
    /\ \A s \in check.left : verdicts[s] = Absent
    /\ check.edited = FALSE => \A f \in AllFiles : hashes[f] \in {Absent, content[f]}

DigestInv == DigestTypeOK /\ CheckPlace /\ Settled /\ GrantsOfAccepted

LEMMA NamesApart ==
    /\ IsFiniteSet(AllFiles) /\ Files0 \subseteq AllFiles /\ Signatures \subseteq AllFiles
    /\ \A s \in Signatures : Filter(s) \subseteq AllFiles
    /\ \A s \in Signatures, f \in AllFiles :
           f \in Filter(s) <=> (f \in Files0 \/ (f = Author /\ s \in Distributors))
  <1>1. IsFiniteSet(AllFiles)
    <2>1. IsFiniteSet((Files0 \cup Distributors) \cup {Author})
      BY NamesAssumption, FS_AddElement
    <2>2. AllFiles = (Files0 \cup Distributors) \cup {Author}
      BY DEF AllFiles, Signatures
    <2>3. QED  BY <2>1, <2>2
  <1>2. QED
    BY <1>1, NamesAssumption DEF AllFiles, Signatures, Filter

LEMMA SetToSeqType ==
    ASSUME NEW S, IsFiniteSet(S)
    PROVE  \E n \in Nat : SetToSeq(S) \in [1..n -> S]
  <1>1. PICK n \in Nat : n = Cardinality(S) /\ ExistsBijection(1..n, S)
    BY FS_CardinalityType
  <1>2. \E f \in [1..n -> S] : IsInjective(f)
    BY <1>1 DEF ExistsBijection, Bijection, Injection
  <1>3. SetToSeq(S) = CHOOSE f \in [1..n -> S] : IsInjective(f)
    BY <1>1 DEF SetToSeq
  <1>4. SetToSeq(S) \in [1..n -> S]
    BY <1>2, <1>3
  <1>5. QED
    BY <1>4

LEMMA RecordOf ==
    ASSUME NEW r \in Records, NEW i \in DOMAIN r
    PROVE  r[i].name \in AllFiles /\ r[i].hash \in Versions
  <1>1. PICK R : R = [name : AllFiles, hash : Versions]
    OBVIOUS
  <1>2. r \in Seq(R)
    BY <1>1 DEF Records
  <1>3. r[i] \in R
    BY <1>2
  <1>4. QED
    BY <1>1, <1>3

LEMMA RecordsLen ==
    ASSUME NEW r \in Records
    PROVE  Len(r) \in Nat /\ DOMAIN r = 1..Len(r) /\ ToSet(r) = {r[i] : i \in 1..Len(r)}
  <1>1. Len(r) \in Nat /\ DOMAIN r = 1..Len(r)
    BY DEF Records
  <1>2. QED
    BY <1>1 DEF ToSet

LEMMA ListType ==
    ASSUME NEW s \in Signatures, NEW u, content \in [AllFiles -> Versions]
    PROVE  FileListDigest(s, u) \in Records
  <1>1. PICK S \in SUBSET AllFiles : S = (Tree \cap Filter(s)) \ u
    BY DEF Tree
  <1>2. IsFiniteSet(S)
    BY NamesApart, FS_Subset
  <1>3. PICK n \in Nat : SetToSeq(S) \in [1..n -> S]
    BY <1>2, SetToSeqType
  <1>4. PICK names \in [1..n -> AllFiles] : names = SetToSeq(S)
    BY <1>1, <1>3
  <1>5. FileListDigest(s, u) = [i \in 1..n |-> [name |-> names[i], hash |-> content[names[i]]]]
    BY <1>1, <1>4 DEF FileListDigest
  <1>6. PICK R : R = [name : AllFiles, hash : Versions]
    OBVIOUS
  <1>7. \A i \in 1..n : [name |-> names[i], hash |-> content[names[i]]] \in R
    BY <1>4, <1>6
  <1>8. FileListDigest(s, u) \in [1..n -> R]
    BY <1>5, <1>7
  <1>9. FileListDigest(s, u) \in Seq(R)
    BY <1>8
  <1>10. QED
    BY <1>6, <1>9 DEF Records

LEMMA DigestInitInv == DigestInit => DigestInv
  <1>1. SUFFICES ASSUME DigestInit  PROVE DigestInv
    OBVIOUS
  <1>2. content \in [AllFiles -> Versions] /\ edits \in Nat /\ hashes \in [AllFiles -> Versions]
        /\ verdicts \in [Signatures -> Verdicts \cup {Absent}]
    BY <1>1 DEF DigestInit, Versions
  <1>3. sigs = [s \in Signatures |-> sigs[s]] /\ \A s \in Signatures : sigs[s].records \in Records
    <2>1. NoSig.records = <<>>
      BY DEF NoSig
    <2>2. <<>> \in Records
      BY DEF Records
    <2>3. sigs = [s \in Signatures |-> NoSig]
      BY <1>1 DEF DigestInit
    <2>4. QED  BY <2>1, <2>2, <2>3
  <1>4. check \in Checks /\ check.at = "no" /\ check.left = {}
    BY <1>1 DEF DigestInit, NoCheck, Checks, Verdicts
  <1>5. \A s \in Signatures : verdicts[s] = Absent
    BY <1>1 DEF DigestInit
  <1>6. \A f \in AllFiles : hashes[f] = Absent
    BY <1>1 DEF DigestInit
  <1>7. CheckPlace
    BY <1>4, <1>5, <1>6 DEF CheckPlace
  <1>8. Settled
    BY <1>5, NamesAssumption DEF Settled
  <1>9. GrantsOfAccepted
    <2>1. {t \in Signatures : verdicts[t] = "ok"} = {}
      BY <1>5, NamesAssumption
    <2>2. granted = {}
      BY <1>1 DEF DigestInit
    <2>3. QED  BY <2>1, <2>2 DEF GrantsOfAccepted
  <1>10. QED
    BY <1>2, <1>3, <1>4, <1>7, <1>8, <1>9 DEF DigestInv, DigestTypeOK


\* Nothing is decided before the check.
LEMMA NothingDecided ==
    ASSUME DigestInv, DigestTypeOK', CheckPlace', UNCHANGED granted,
           \A s \in Signatures : verdicts[s] = Absent /\ verdicts'[s] = Absent
    PROVE  DigestInv'
  <1>1. Settled'
    BY NamesAssumption DEF Settled
  <1>2. {t \in Signatures : verdicts[t] = "ok"} = {} /\ {t \in Signatures : verdicts'[t] = "ok"} = {}
    BY NamesAssumption
  <1>3. granted = {}
    BY <1>2 DEF DigestInv, GrantsOfAccepted
  <1>4. GrantsOfAccepted'
    BY <1>2, <1>3 DEF GrantsOfAccepted
  <1>5. QED
    BY <1>1, <1>4 DEF DigestInv

LEMMA SignKeeps == ASSUME DigestInv, NEW s \in Signatures, NEW c \in Certs, Sign(s, c)  PROVE DigestInv'
  <1>1. DigestTypeOK /\ check.at = "no" /\ check' = check /\ UNCHANGED <<hashes, verdicts, granted>>
    BY DEF DigestInv, Sign
  <1>2. edits' \in Nat /\ edits' = edits + 1
    BY <1>1 DEF Sign, DigestTypeOK
  <1>3. content' \in [AllFiles -> Versions]
    BY <1>1, <1>2 DEF Sign, DigestTypeOK, Versions
  <1>4. PICK u : sigs' = [sigs EXCEPT ![s] = [records |-> FileListDigest(s, u), signer |-> c]]
    BY DEF Sign
  <1>5. FileListDigest(s, u) \in Records
    BY <1>1, ListType DEF DigestTypeOK
  <1>6. PICK g : g = [records |-> FileListDigest(s, u), signer |-> c]
    OBVIOUS
  <1>7. g.records \in Records
    BY <1>5, <1>6
  <1>8. sigs' = [sigs EXCEPT ![s] = g]
    BY <1>4, <1>6
  <1>9. sigs' = [t \in Signatures |-> sigs'[t]] /\ \A t \in Signatures : sigs'[t].records \in Records
    BY <1>1, <1>7, <1>8 DEF DigestTypeOK
  <1>10. DigestTypeOK'
    BY <1>1, <1>2, <1>3, <1>9 DEF DigestTypeOK
  <1>11. check'.at = "no" /\ check'.left = check.left
    BY <1>1
  <1>12. \A t \in check.left : verdicts[t] = Absent
    BY DEF DigestInv, CheckPlace
  <1>13. \A f \in AllFiles : hashes'[f] = Absent
    BY <1>1 DEF DigestInv, CheckPlace
  <1>14. \A t \in Signatures : verdicts'[t] = Absent /\ verdicts[t] = Absent
    BY <1>1 DEF DigestInv, CheckPlace
  <1>15. CheckPlace'
    BY <1>1, <1>12, <1>13, <1>14 DEF CheckPlace
  <1>16. QED
    BY <1>1, <1>10, <1>14, <1>15, NothingDecided

\* A file is replaced while the signatures are checked: no entry comes or goes.
LEMMA EditKeeps == ASSUME DigestInv, NEW f \in Files0, NEW v \in {1, 2, Absent}, Edit(f, v)  PROVE DigestInv'
  <1>1. DigestTypeOK /\ CheckPlace /\ Settled /\ GrantsOfAccepted
    BY DEF DigestInv
  <1>2. UNCHANGED <<sigs, hashes, verdicts, granted>> /\ edits' = edits + 1 /\ content' = [content EXCEPT ![f] = v]
        /\ check' = [check EXCEPT !.edited = check.at # "no"]
    BY DEF Edit
  <1>3. f \in AllFiles /\ v \in Versions
    BY NamesApart DEF Versions
  <1>4. content' \in [AllFiles -> Versions] /\ edits' \in Nat
    BY <1>1, <1>2, <1>3 DEF DigestTypeOK
  <1>5. PICK b \in BOOLEAN : b = (check.at # "no")
    OBVIOUS
  <1>6. check' = [check EXCEPT !.edited = b]
    BY <1>2, <1>5
  <1>7. /\ check' \in Checks /\ check'.at = check.at /\ check'.sig = check.sig /\ check'.left = check.left
        /\ check'.record = check.record /\ check'.marked = check.marked /\ check'.edited = b
    BY <1>1, <1>6 DEF DigestTypeOK, Checks
  <1>8. DigestTypeOK'
    BY <1>1, <1>2, <1>4, <1>7 DEF DigestTypeOK
  <1>9. CASE check.at = "no"
    <2>1. \A g \in AllFiles : hashes'[g] = Absent
      BY <1>1, <1>2, <1>9 DEF CheckPlace
    <2>2. \A s \in Signatures : verdicts'[s] = Absent /\ verdicts[s] = Absent
      BY <1>1, <1>2, <1>9 DEF CheckPlace
    <2>3. \A s \in check.left : verdicts[s] = Absent
      BY <1>1 DEF CheckPlace
    <2>4. CheckPlace'
      BY <1>2, <1>7, <1>9, <2>1, <2>2, <2>3 DEF CheckPlace
    <2>5. QED  BY <1>2, <1>8, <2>2, <2>4, NothingDecided
  <1>10. CASE check.at # "no"
    <2>1. b = TRUE
      BY <1>5, <1>10
    <2>2. v # Absent /\ content[f] # Absent
      BY <1>10 DEF Edit
    <2>3. Tree' = Tree
      <3>1. \A g \in AllFiles : content'[g] # Absent <=> content[g] # Absent
        BY <1>1, <1>2, <1>3, <2>2 DEF DigestTypeOK
      <3>2. QED  BY <3>1 DEF Tree
    <2>4. \A s, n : Passed(s, n) => Passed(s, n)'
      BY <1>2, <2>3 DEF Passed
    <2>5. Passed(check.sig, check.record - 1) => Passed(check.sig, check.record - 1)'
      BY <1>2, <1>7, <2>3 DEF Passed
    <2>6. CheckPlace'
      <3>1. check.at = "record" =>
              /\ check.sig \in Signatures \ check.left /\ verdicts[check.sig] = Absent
              /\ check.record \in 1..(Len(sigs[check.sig].records) + 1)
              /\ check.marked = {sigs[check.sig].records[i].name : i \in 1..(check.record - 1)}
              /\ Passed(check.sig, check.record - 1)'
        BY <1>1, <2>5 DEF CheckPlace
      <3>2. \A s \in check.left : verdicts[s] = Absent
        BY <1>1 DEF CheckPlace
      <3>3. check'.edited # FALSE /\ check'.at # "no"
        BY <1>7, <1>10, <2>1
      <3>4. check'.marked = check.marked /\ sigs' = sigs
        BY <1>2, <1>7
      <3>5. QED  BY <1>2, <1>7, <3>1, <3>2, <3>3 DEF CheckPlace
    <2>7. Settled'
      <3>1. \A s \in Signatures : Refused(s)'
        BY <1>7, <2>1 DEF Refused
      <3>2. \A s \in Signatures : Accepted(s) => Accepted(s)'
        BY <1>2, <2>3 DEF Accepted, Covered, Expects
      <3>3. QED  BY <1>1, <1>2, <3>1, <3>2 DEF Settled
    <2>8. GrantsOfAccepted'
      BY <1>1, <1>2 DEF GrantsOfAccepted
    <2>9. QED  BY <1>8, <2>6, <2>7, <2>8 DEF DigestInv
  <1>11. QED
    BY <1>9, <1>10

LEMMA StartCheckKeeps == ASSUME DigestInv, StartCheck  PROVE DigestInv'
  <1>1. DigestTypeOK /\ CheckPlace /\ UNCHANGED <<content, sigs, edits, hashes, verdicts, granted>> /\ check.at = "no"
    BY DEF DigestInv, StartCheck
  <1>2. check' = [NoCheck EXCEPT !.at = "next", !.left = Tree \cap Signatures]
    BY DEF StartCheck
  <1>3. check' \in Checks /\ check'.at = "next" /\ check'.left \subseteq Signatures
    BY <1>2 DEF NoCheck, Checks, Verdicts
  <1>4. DigestTypeOK'
    BY <1>1, <1>3 DEF DigestTypeOK
  <1>5. \A g \in AllFiles : hashes'[g] = Absent
    BY <1>1 DEF CheckPlace
  <1>6. \A s \in Signatures : verdicts'[s] = Absent /\ verdicts[s] = Absent
    BY <1>1 DEF CheckPlace
  <1>7. CheckPlace'
    BY <1>3, <1>5, <1>6 DEF CheckPlace
  <1>8. QED
    BY <1>1, <1>4, <1>6, <1>7, NothingDecided

LEMMA NextSignatureKeeps == ASSUME DigestInv, NEW s \in Signatures, NextSignature(s)  PROVE DigestInv'
  <1>1. DigestTypeOK /\ CheckPlace /\ Settled /\ GrantsOfAccepted
    BY DEF DigestInv
  <1>2. UNCHANGED <<content, sigs, edits, hashes, verdicts, granted>> /\ s \in check.left /\ check.at = "next"
    BY DEF NextSignature
  <1>3. check' = [check EXCEPT !.at = "record", !.sig = s, !.left = @ \ {s}, !.record = 1, !.marked = {}]
    BY DEF NextSignature
  <1>4. /\ check' \in Checks /\ check'.at = "record" /\ check'.sig = s /\ check'.left = check.left \ {s}
        /\ check'.record = 1 /\ check'.marked = {} /\ check'.edited = check.edited
    BY <1>1, <1>3 DEF DigestTypeOK, Checks
  <1>5. DigestTypeOK'
    BY <1>1, <1>2, <1>4 DEF DigestTypeOK
  <1>6. Len(sigs[s].records) \in Nat
    BY <1>1, RecordsLen DEF DigestTypeOK
  <1>7. CheckPlace'
    <2>1. 1 \in 1..(Len(sigs[s].records) + 1) /\ 1 - 1 = 0 /\ 1..0 = {}
      BY <1>6
    <2>2. Passed(s, 0)'
      BY <2>1 DEF Passed
    <2>3. {sigs[s].records[i].name : i \in 1..0} = {}
      BY <2>1
    <2>4. verdicts[s] = Absent /\ \A t \in check.left : verdicts[t] = Absent
      BY <1>1, <1>2 DEF CheckPlace
    <2>5. check.edited = FALSE => \A g \in AllFiles : hashes[g] \in {Absent, content[g]}
      BY <1>1 DEF CheckPlace
    <2>6. Passed(check.sig, check.record - 1)'
      BY <1>4, <2>1 DEF Passed
    <2>7. check'.marked = {sigs'[check'.sig].records[i].name : i \in 1..(check'.record - 1)}
      BY <1>4, <2>1
    <2>8. QED  BY <1>2, <1>4, <2>1, <2>4, <2>5, <2>6, <2>7 DEF CheckPlace
  <1>8. Settled'
    BY <1>1, <1>2, <1>4 DEF Settled, Accepted, Refused, Covered, Expects, Current, Tree
  <1>9. GrantsOfAccepted'
    BY <1>1, <1>2 DEF GrantsOfAccepted
  <1>10. QED
    BY <1>5, <1>7, <1>8, <1>9 DEF DigestInv


\* The hashes of entries are recorded once.
Recorded ==
    /\ hashes' \in [AllFiles -> Versions]
    /\ \A f \in AllFiles : hashes[f] # Absent => hashes'[f] = hashes[f]
    /\ check.edited = FALSE => \A f \in AllFiles : hashes'[f] \in {Absent, content[f]}

LEMMA AcceptedLasts ==
    ASSUME DigestInv, Recorded, UNCHANGED <<content, sigs>>, NEW s \in Signatures, Accepted(s)
    PROVE  Accepted(s)'
  <1>1. Tree' = Tree
    BY DEF Tree
  <1>2. \A f \in Tree \cap Filter(s) : hashes'[f] = hashes[f] /\ hashes[f] # Absent
    BY NamesApart DEF Recorded, Accepted
  <1>3. Covered(s)' = Covered(s)
    BY DEF Covered
  <1>4. Expects(s)' = Expects(s)
    BY <1>1, <1>2 DEF Expects
  <1>5. QED
    BY <1>1, <1>2, <1>3, <1>4 DEF Accepted

\* The end of check_one_of_all.
LEMMA OneOfAllKeeps ==
    ASSUME DigestInv, check.at = "record", NEW rc \in Verdicts, OneOfAll(rc), UNCHANGED <<content, sigs, edits>>, Recorded,
           rc = "ok" => Accepted(check.sig)', rc # "ok" => Refused(check.sig)
    PROVE  DigestInv'
  <1>1. DigestTypeOK /\ CheckPlace /\ Settled /\ GrantsOfAccepted
    BY DEF DigestInv
  <1>2. PICK s \in Signatures : s = check.sig
    BY <1>1 DEF CheckPlace
  <1>3. s \notin check.left /\ verdicts[s] = Absent
    BY <1>1, <1>2 DEF CheckPlace
  <1>4. verdicts' = [verdicts EXCEPT ![s] = rc]
    BY <1>2 DEF OneOfAll
  <1>5. PICK x \in {"end", "next"}, y \in Verdicts : check' = [check EXCEPT !.at = x, !.rc = y]
    <2>1. check.rc \in Verdicts
      BY <1>1 DEF DigestTypeOK, Checks
    <2>2. QED  BY <2>1 DEF OneOfAll
  <1>6. /\ check' \in Checks /\ check'.at = x /\ check'.left = check.left /\ check'.edited = check.edited
        /\ x # "record" /\ x # "no"
    BY <1>1, <1>5 DEF DigestTypeOK, Checks
  <1>7. /\ verdicts' \in [Signatures -> Verdicts \cup {Absent}] /\ verdicts'[s] = rc
        /\ \A t \in Signatures : t # s => verdicts'[t] = verdicts[t]
    BY <1>1, <1>4 DEF DigestTypeOK
  <1>8. DigestTypeOK'
    BY <1>1, <1>6, <1>7 DEF DigestTypeOK, Recorded
  <1>9. CheckPlace'
    <2>1. check.left \subseteq Signatures /\ \A t \in check.left : verdicts[t] = Absent
      BY <1>1 DEF CheckPlace, DigestTypeOK, Checks
    <2>2. \A t \in check.left : verdicts'[t] = Absent
      BY <1>3, <1>7, <2>1
    <2>3. QED  BY <1>6, <2>2 DEF CheckPlace, Recorded
  <1>10. Settled'
    <2>1. \A t \in Signatures : Accepted(t) => Accepted(t)'
      BY AcceptedLasts
    <2>2. \A t \in Signatures : Refused(t) => Refused(t)'
      BY <1>6 DEF Refused, Covered, Current, Tree
    <2>3. ASSUME NEW t \in Signatures
          PROVE  (verdicts'[t] = "ok" => Accepted(t)') /\ (verdicts'[t] \in {"ENOENT", "EBADF"} => Refused(t)')
      <3>1. CASE t # s
        BY <1>1, <1>7, <2>1, <2>2, <3>1 DEF Settled
      <3>2. CASE t = s
        <4>1. rc = "ok" => Accepted(s)'
          <5>1. check.sig = s /\ UNCHANGED sigs
            BY <1>2
          <5>2. Accepted(check.sig)' => Accepted(s)'
            <6>1. check'.sig = s
              BY <1>1, <1>2, <1>5 DEF DigestTypeOK, Checks
            <6>2. QED  BY <6>1 DEF Accepted, Covered, Expects
          <5>3. QED  BY <5>2
        <4>2. rc # "ok" => Refused(s)
          BY <1>2
        <4>3. QED  BY <1>7, <2>2, <3>2, <4>1, <4>2
      <3>3. QED  BY <3>1, <3>2
    <2>4. QED  BY <2>3 DEF Settled
  <1>11. GrantsOfAccepted'
    <2>1. PICK old : old = {t \in Signatures : verdicts[t] = "ok"}
      OBVIOUS
    <2>2. s \notin old /\ granted = UNION {GrantsOf[sigs[t].signer] : t \in old}
      BY <1>1, <1>3, <2>1, NamesAssumption DEF GrantsOfAccepted
    <2>3. CASE rc = "ok"
      <3>1. {t \in Signatures : verdicts'[t] = "ok"} = old \cup {s}
        BY <1>7, <2>1, <2>3
      <3>2. granted' = granted \cup GrantsOf[sigs[s].signer]
        BY <1>2, <2>3 DEF OneOfAll
      <3>3. UNION {GrantsOf[sigs[t].signer] : t \in old \cup {s}}
              = (UNION {GrantsOf[sigs[t].signer] : t \in old}) \cup GrantsOf[sigs[s].signer]
        OBVIOUS
      <3>4. QED  BY <2>2, <3>1, <3>2, <3>3 DEF GrantsOfAccepted
    <2>4. CASE rc # "ok"
      <3>1. {t \in Signatures : verdicts'[t] = "ok"} = old
        BY <1>7, <2>1, <2>2, <2>4
      <3>2. granted' = granted
        BY <2>4 DEF OneOfAll
      <3>3. QED  BY <2>2, <3>1, <3>2 DEF GrantsOfAccepted
    <2>5. QED  BY <2>3, <2>4
  <1>12. QED
    BY <1>8, <1>9, <1>10, <1>11 DEF DigestInv

LEMMA CheckRecordKeeps == ASSUME DigestInv, CheckRecord  PROVE DigestInv'
  <1>1. DigestTypeOK /\ CheckPlace /\ Settled /\ GrantsOfAccepted
    BY DEF DigestInv
  <1>2. check.at = "record" /\ UNCHANGED <<content, sigs, edits>>
    BY DEF CheckRecord
  <1>3. PICK s \in Signatures : s = check.sig
    BY <1>1, <1>2 DEF CheckPlace
  <1>4. PICK recs \in Records : recs = sigs[s].records
    BY <1>1 DEF DigestTypeOK
  <1>5. PICK n \in Nat : n = Len(recs) /\ DOMAIN recs = 1..n /\ ToSet(recs) = {recs[i] : i \in 1..n}
    BY RecordsLen
  <1>6. PICK k \in 1..n : k = check.record
    BY <1>1, <1>2, <1>3, <1>4, <1>5 DEF CheckPlace, CheckRecord
  <1>7. PICK f \in AllFiles, h \in Versions : f = recs[k].name /\ h = recs[k].hash
    BY <1>5, RecordOf
  <1>8. <<f, h>> \in Covered(s)
    <2>1. recs[k] \in ToSet(recs)
      BY <1>5
    <2>2. QED  BY <1>4, <1>7, <2>1 DEF Covered
  <1>9. \A a, b : <<a, b>> \in Current(s) => a \in Tree /\ b = content[a]
    BY DEF Current
  <1>10. check.edited = FALSE => \A g \in AllFiles : hashes[g] \in {Absent, content[g]}
    BY <1>1 DEF CheckPlace
  <1>11. check.edited = TRUE \/ check.edited = FALSE
    BY <1>1 DEF DigestTypeOK, Checks
  <1>12. CASE content[f] = Absent
    <2>1. OneOfAll("ENOENT") /\ UNCHANGED hashes
      BY <1>3, <1>4, <1>6, <1>7, <1>12 DEF CheckRecord
    <2>2. Recorded
      BY <1>1, <1>10, <2>1 DEF Recorded, DigestTypeOK
    <2>3. <<f, h>> \notin Current(s)
      BY <1>9, <1>12 DEF Tree
    <2>4. Refused(check.sig)
      BY <1>3, <1>8, <2>3 DEF Refused
    <2>5. "ENOENT" \in Verdicts /\ "ENOENT" # "ok"
      BY DEF Verdicts
    <2>6. QED  BY <1>2, <2>1, <2>2, <2>4, <2>5, OneOfAllKeeps
  <1>13. CASE content[f] # Absent
    <2>1. f \in Tree
      BY <1>13 DEF Tree
    <2>2. PICK e : e = EntryHash(f)
      OBVIOUS
    <2>3. e \in Versions /\ e # Absent /\ (hashes[f] # Absent => e = hashes[f])
          /\ (check.edited = FALSE => e = content[f])
      BY <1>1, <1>10, <1>13, <2>2 DEF EntryHash, DigestTypeOK
    <2>4. hashes' = [hashes EXCEPT ![f] = e]
      BY <1>3, <1>4, <1>6, <1>7, <1>13, <2>2 DEF CheckRecord
    <2>5. hashes'[f] = e /\ \A g \in AllFiles : g # f => hashes'[g] = hashes[g]
      BY <1>1, <2>4 DEF DigestTypeOK
    <2>6. Recorded
      <3>1. hashes' \in [AllFiles -> Versions]
        BY <1>1, <2>3, <2>4 DEF DigestTypeOK
      <3>2. QED  BY <1>10, <2>3, <2>5, <3>1 DEF Recorded
    <2>7. CASE e # h
      <3>1. OneOfAll("EBADF")
        BY <1>3, <1>4, <1>6, <1>7, <1>13, <2>2, <2>7 DEF CheckRecord
      <3>2. check.edited = FALSE => <<f, h>> \notin Current(s)
        BY <1>9, <2>3, <2>7
      <3>3. Refused(check.sig)
        BY <1>3, <1>8, <1>11, <3>2 DEF Refused
      <3>4. "EBADF" \in Verdicts /\ "EBADF" # "ok"
        BY DEF Verdicts
      <3>5. QED  BY <1>2, <2>6, <3>1, <3>3, <3>4, OneOfAllKeeps
    <2>8. CASE e = h
      <3>1. check' = [check EXCEPT !.record = @ + 1, !.marked = @ \cup {f}] /\ UNCHANGED <<verdicts, granted>>
        BY <1>3, <1>4, <1>6, <1>7, <1>13, <2>2, <2>8 DEF CheckRecord
      <3>2. /\ check' \in Checks /\ check'.at = "record" /\ check'.sig = s /\ check'.left = check.left
            /\ check'.record = k + 1 /\ check'.marked = check.marked \cup {f} /\ check'.edited = check.edited
        <4>1. check.record \in Nat /\ check.marked \in SUBSET AllFiles
          BY <1>1 DEF DigestTypeOK, Checks
        <4>2. check.record + 1 \in Nat /\ check.marked \cup {f} \in SUBSET AllFiles
          BY <4>1
        <4>3. QED  BY <1>1, <1>2, <1>3, <1>6, <3>1, <4>2 DEF DigestTypeOK, Checks
      <3>3. DigestTypeOK'
        BY <1>1, <1>2, <2>6, <3>1, <3>2 DEF DigestTypeOK, Recorded
      <3>4. 1..k = (1..(k - 1)) \cup {k} /\ (k + 1) - 1 = k /\ k + 1 \in 1..(n + 1)
        OBVIOUS
      <3>5. CheckPlace'
        <4>1. /\ s \in Signatures \ check.left /\ verdicts[s] = Absent
              /\ check.marked = {recs[i].name : i \in 1..(k - 1)} /\ Passed(s, k - 1)
              /\ \A t \in check.left : verdicts[t] = Absent
          BY <1>1, <1>2, <1>3, <1>4, <1>6 DEF CheckPlace
        <4>2. check'.marked = {recs[i].name : i \in 1..k}
          BY <1>7, <3>2, <3>4, <4>1
        <4>3. Tree' = Tree
          BY <1>2 DEF Tree
        <4>4. ASSUME NEW i \in 1..k
              PROVE  recs[i].name \in Tree /\ hashes'[recs[i].name] = recs[i].hash /\ hashes'[recs[i].name] # Absent
          <5>1. CASE i = k
            BY <1>7, <2>1, <2>3, <2>5, <2>8, <5>1
          <5>2. CASE i # k
            <6>1. i \in 1..(k - 1)
              BY <5>2
            <6>2. recs[i].name \in Tree /\ hashes[recs[i].name] = recs[i].hash /\ hashes[recs[i].name] # Absent
              BY <1>4, <4>1, <6>1 DEF Passed
            <6>3. recs[i].name \in AllFiles
              BY <6>2 DEF Tree
            <6>4. QED  BY <2>6, <6>2, <6>3 DEF Recorded
          <5>3. QED  BY <5>1, <5>2
        <4>5. Passed(check.sig, check.record - 1)'
          BY <1>2, <1>4, <3>2, <3>4, <4>3, <4>4 DEF Passed
        <4>6. check'.marked = {sigs'[check'.sig].records[i].name : i \in 1..(check'.record - 1)}
          BY <1>2, <1>4, <3>2, <3>4, <4>2
        <4>7. check'.record \in 1..(Len(sigs'[check'.sig].records) + 1)
          BY <1>2, <1>4, <1>5, <3>2, <3>4
        <4>8. check'.edited = FALSE => \A g \in AllFiles : hashes'[g] \in {Absent, content'[g]}
          BY <1>2, <2>6, <3>2 DEF Recorded
        <4>9. QED  BY <3>1, <3>2, <4>1, <4>5, <4>6, <4>7, <4>8 DEF CheckPlace
      <3>6. Settled'
        <4>1. \A t \in Signatures : Accepted(t) => Accepted(t)'
          BY <1>2, <2>6, AcceptedLasts
        <4>2. \A t \in Signatures : Refused(t) => Refused(t)'
          BY <1>2, <3>2 DEF Refused, Covered, Current, Tree
        <4>3. QED  BY <1>1, <3>1, <4>1, <4>2 DEF Settled
      <3>7. GrantsOfAccepted'
        BY <1>1, <1>2, <3>1 DEF GrantsOfAccepted
      <3>8. QED  BY <3>3, <3>5, <3>6, <3>7 DEF DigestInv
    <2>9. QED  BY <2>7, <2>8
  <1>14. QED
    BY <1>12, <1>13

LEMMA CheckEndKeeps == ASSUME DigestInv, CheckEnd  PROVE DigestInv'
  <1>1. DigestTypeOK /\ CheckPlace /\ Settled /\ GrantsOfAccepted
    BY DEF DigestInv
  <1>2. check.at = "record" /\ UNCHANGED <<content, sigs, edits, hashes>>
    BY DEF CheckEnd
  <1>3. PICK s \in Signatures : s = check.sig
    BY <1>1, <1>2 DEF CheckPlace
  <1>4. PICK recs \in Records : recs = sigs[s].records
    BY <1>1 DEF DigestTypeOK
  <1>5. PICK n \in Nat : n = Len(recs) /\ DOMAIN recs = 1..n /\ ToSet(recs) = {recs[i] : i \in 1..n}
    BY RecordsLen
  <1>6. check.record - 1 = n
    BY <1>1, <1>2, <1>3, <1>4, <1>5 DEF CheckPlace, CheckEnd
  <1>7. check.marked = {recs[i].name : i \in 1..n} /\ Passed(s, n)
    BY <1>1, <1>2, <1>3, <1>4, <1>6 DEF CheckPlace
  <1>8. Covered(s) = {<<recs[i].name, recs[i].hash>> : i \in 1..n}
    BY <1>4, <1>5 DEF Covered
  <1>9. \A i \in 1..n : recs[i].name \in Tree /\ hashes[recs[i].name] = recs[i].hash /\ hashes[recs[i].name] # Absent
    BY <1>4, <1>7 DEF Passed
  <1>10. Covered(s) = {<<f, hashes[f]>> : f \in check.marked}
    BY <1>7, <1>8, <1>9
  <1>11. Recorded
    BY <1>1, <1>2 DEF Recorded, DigestTypeOK, CheckPlace
  <1>12. \A f \in Tree : f \in AllFiles
    BY DEF Tree
  <1>13. CASE CheckSigned(s) # {}
    <2>1. PICK f \in Tree : (f \in check.marked) # (f \in Filter(s))
      BY <1>12, <1>13, NamesApart DEF CheckSigned
    <2>2. Covered(s) # Current(s)
      <3>a. (\A a, b : <<a, b>> \in Current(s) => a \in Filter(s)) /\ (f \in Filter(s) => <<f, content[f]>> \in Current(s))
        BY <2>1 DEF Current
      <3>b. /\ \A a, b : <<a, b>> \in Covered(s) => a \in check.marked
            /\ f \in check.marked => <<f, hashes[f]>> \in Covered(s)
        BY <1>10
      <3>1. CASE f \in check.marked /\ f \notin Filter(s)
        <4>1. <<f, hashes[f]>> \in Covered(s) /\ <<f, hashes[f]>> \notin Current(s)
          BY <3>1, <3>a, <3>b
        <4>2. QED  BY <4>1
      <3>2. CASE f \notin check.marked /\ f \in Filter(s)
        <4>1. <<f, content[f]>> \in Current(s) /\ <<f, content[f]>> \notin Covered(s)
          BY <3>2, <3>a, <3>b
        <4>2. QED  BY <4>1
      <3>3. QED  BY <2>1, <3>1, <3>2
    <2>3. Refused(check.sig) /\ OneOfAll("EBADF")
      BY <1>3, <1>13, <2>2 DEF Refused, CheckEnd
    <2>4. "EBADF" \in Verdicts /\ "EBADF" # "ok"
      BY DEF Verdicts
    <2>5. QED  BY <1>2, <1>11, <2>3, <2>4, OneOfAllKeeps
  <1>14. CASE CheckSigned(s) = {}
    <2>1. \A f \in Tree : f \in check.marked <=> f \in Filter(s)
      BY <1>12, <1>14, NamesApart DEF CheckSigned
    <2>2. check.marked = Tree \cap Filter(s)
      BY <1>7, <1>9, <2>1
    <2>3. Covered(s) = Expects(s) /\ \A f \in Tree \cap Filter(s) : hashes[f] # Absent
      BY <1>7, <1>9, <1>10, <2>2 DEF Expects
    <2>4. CASE sigs[s].signer \in Trusted
      <3>1. OneOfAll("ok") /\ "ok" \in Verdicts
        BY <1>3, <1>14, <2>4 DEF CheckEnd, Verdicts
      <3>2. Accepted(s)
        BY <2>3, <2>4 DEF Accepted
      <3>3. Accepted(s)'
        BY <1>2, <1>11, <3>2, AcceptedLasts
      <3>4. check'.sig = s
        BY <1>1, <1>3, <3>1 DEF OneOfAll, DigestTypeOK, Checks
      <3>5. Accepted(check.sig)'
        BY <1>2, <3>3, <3>4 DEF Accepted, Covered, Expects
      <3>6. QED  BY <1>2, <1>11, <3>1, <3>5, OneOfAllKeeps
    <2>5. CASE sigs[s].signer \notin Trusted
      <3>1. OneOfAll("ENOENT") /\ "ENOENT" \in Verdicts /\ "ENOENT" # "ok"
        BY <1>3, <1>14, <2>5 DEF CheckEnd, Verdicts
      <3>2. Refused(check.sig)
        BY <1>3, <2>5 DEF Refused
      <3>3. QED  BY <1>2, <1>11, <3>1, <3>2, OneOfAllKeeps
    <2>6. QED  BY <2>4, <2>5
  <1>15. QED
    BY <1>13, <1>14

\* However the files and the signatures are changed before the check and the files replaced
\* during it, check_signed_digest_of_files accepts a signature only for exactly the files that it
\* must cover with the hashes read first, refuses one only for a reason, and grants what the
\* certificates of the accepted ones grant, in any order of any number of signatures.
THEOREM ChecksCorrect == DigestSpec => []ChecksExact
  <1>1. DigestInv /\ [DigestNext]_digestVars => DigestInv'
    <2>1. SUFFICES ASSUME DigestInv, [DigestNext]_digestVars  PROVE DigestInv'
      OBVIOUS
    <2>2. CASE UNCHANGED digestVars
      <3>1. DigestTypeOK'
        BY <2>1, <2>2 DEF digestVars, DigestInv, DigestTypeOK
      <3>2. Passed(check.sig, check.record - 1) => Passed(check.sig, check.record - 1)'
        BY <2>2 DEF digestVars, Passed, Tree
      <3>3. CheckPlace'
        BY <2>1, <2>2, <3>2 DEF digestVars, DigestInv, CheckPlace
      <3>4. \A s \in Signatures : (Accepted(s) => Accepted(s)') /\ (Refused(s) => Refused(s)')
        BY <2>2 DEF digestVars, Accepted, Refused, Covered, Expects, Current, Tree
      <3>5. Settled'
        BY <2>1, <2>2, <3>4 DEF digestVars, DigestInv, Settled
      <3>6. GrantsOfAccepted'
        BY <2>1, <2>2 DEF digestVars, DigestInv, GrantsOfAccepted
      <3>7. QED  BY <3>1, <3>3, <3>5, <3>6 DEF DigestInv
    <2>3. CASE DigestNext
      BY <2>1, <2>3, SignKeeps, EditKeeps, StartCheckKeeps, NextSignatureKeeps, CheckRecordKeeps, CheckEndKeeps
         DEF DigestNext
    <2>4. QED  BY <2>1, <2>2, <2>3
  <1>2. DigestInv => ChecksExact
    <2>1. SUFFICES ASSUME DigestInv  PROVE DigestExact
      BY DEF ChecksExact, DigestInv
    <2>2. check.edited \in BOOLEAN
      BY <2>1 DEF DigestInv, DigestTypeOK, Checks
    <2>3. SUFFICES ASSUME NEW s \in Signatures
          PROVE  /\ verdicts[s] = "ok" => Covered(s) = Expects(s) /\ sigs[s].signer \in Trusted
                 /\ verdicts[s] \in {"ENOENT", "EBADF"} =>
                        Covered(s) # Current(s) \/ sigs[s].signer \notin Trusted \/ check.edited
      BY DEF DigestExact, Covered, Expects, Current
    <2>4. QED
      BY <2>1, <2>2 DEF DigestInv, Settled, Accepted, Refused
  <1>3. QED
    BY <1>1, <1>2, DigestInitInv, PTL DEF DigestSpec
=============================================================================
