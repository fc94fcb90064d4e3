------------------------- MODULE AfidManager_proofs -------------------------
(***************************************************************************)
(* The identifiers given are unique, and refused only when the rescan has  *)
(* found all of them on disk, unless one of the harms that the code does   *)
(* not guard against has happened: for any number of packages, of targets, *)
(* of identifiers and of bits in a word, and any interleaving.             *)
(***************************************************************************)
EXTENDS AfidManager, SequenceTheorems, WellFoundedInduction, TLAPS

----------------------------------------------------------------------------
(* The search of a free identifier. *)

LEMMA LeastIs ==
    ASSUME NEW S \in SUBSET Nat, S # {}
    PROVE  Least(S) \in S /\ \A b \in S : Least(S) <= b
  <1> DEFINE R == OpToRel(<, Nat)
  <1>1. \A x, y \in Nat : x < y => <<x, y>> \in R
    BY DEF OpToRel
  <1>2. IsWellFoundedOn(R, Nat)
    BY NatLessThanWellFounded, Zenon
  <1> HIDE DEF R
  <1>3. PICK x \in S : \A y \in S : ~(<<y, x>> \in R)
    BY <1>2, WFMin, Zenon
  <1>4. \A y \in S : x <= y
    <2>1. SUFFICES ASSUME NEW y \in S, ~(x <= y)  PROVE FALSE
      OBVIOUS
    <2>2. y < x
      BY <2>1
    <2>3. QED
      BY <1>1, <1>3, <2>2
  <1>5. QED
    BY <1>4, Zenon DEF Least

LEMMA Product ==
    ASSUME NEW j \in Nat, NEW k \in Nat, NEW d \in Nat \ {0}, j < k
    PROVE  j * d + d <= k * d
  <1>1. PICK m \in Nat : k = j + 1 + m
    <2>1. k - j - 1 \in Nat /\ k = j + 1 + (k - j - 1)
      OBVIOUS
    <2>2. QED
      BY <2>1
  <1>2. k * d = j * d + d + m * d
    BY <1>1
  <1>3. m * d \in Nat /\ j * d \in Nat
    OBVIOUS
  <1>4. QED
    BY <1>2, <1>3

\* The division of an index by the size of a word.
LEMMA Division ==
    ASSUME NEW n \in Nat, NEW d \in Nat \ {0}
    PROVE  /\ n \div d \in Nat
           /\ (n \div d) * d <= n /\ n < (n \div d) * d + d
  OBVIOUS

LEMMA DivisionOf ==
    ASSUME NEW n \in Nat, NEW d \in Nat \ {0}, NEW k \in Nat, k * d <= n, n < k * d + d
    PROVE  n \div d = k
  <1> DEFINE e == n \div d
  <1>1. e \in Nat /\ e * d <= n /\ n < e * d + d
    BY Division
  <1> HIDE DEF e
  <1>2. ~(e < k) /\ ~(k < e)
    <2>1. e * d \in Nat /\ k * d \in Nat
      BY <1>1
    <2>2. (e < k => e * d + d <= k * d) /\ (k < e => k * d + d <= e * d)
      BY <1>1, Product
    <2>3. QED
      BY <1>1, <2>1, <2>2
  <1>3. QED
    BY <1>1, <1>2 DEF e

\* first_free_afid gives an identifier that is not set, and gives none only
\* when all are set: to skip the full words misses nothing.
LEMMA FirstFreeIs ==
    ASSUME NEW S \in SUBSET Afids
    PROVE  /\ FirstFree(S) # NoAfid => FirstFree(S) \in Afids \ S
           /\ FirstFree(S) = NoAfid => S = Afids
  <1> DEFINE starts == {a \in WordStarts : ~(WordOf(a) \subseteq S)}
             free == {a \in Afids : starts # {} /\ a >= Least(starts) /\ a \notin S}
  <1>0. /\ AfidMax \in Nat /\ WordBits \in Nat \ {0}
        /\ Afids \subseteq Nat /\ NoAfid \notin Afids /\ AfidMin = 1
    BY AfidAssumption DEF Afids, AfidMin, NoAfid
  <1>1. FirstFree(S) = IF free = {} THEN NoAfid ELSE Least(free)
    BY DEF FirstFree
  <1>2. free # {} => Least(free) \in free
    BY <1>0, LeastIs
  <1>3. ASSUME NEW a \in Afids, a \notin S
        PROVE  free # {}
    <2> DEFINE k == AIdx(a)
               w == AfidMin + k * WordBits
    <2>1. a \in Nat /\ 1 <= a /\ a <= AfidMax
      BY <1>0 DEF Afids, AfidMin
    <2>2. k \in Nat /\ k * WordBits <= a - 1 /\ a - 1 < k * WordBits + WordBits
      BY <1>0, <2>1, Division DEF AIdx
    <2>3. k * WordBits \in Nat
      BY <1>0, <2>2
    <2>4. k <= AIdx(AfidMax) /\ AIdx(AfidMax) \in Nat
      <3> DEFINE l == AIdx(AfidMax)
      <3>1. l \in Nat /\ l * WordBits <= AfidMax - 1 /\ AfidMax - 1 < l * WordBits + WordBits
        BY <1>0, AfidAssumption, Division DEF AIdx
      <3> HIDE DEF k, l
      <3>2. l * WordBits \in Nat
        BY <1>0, <3>1
      <3>3. l < k => l * WordBits + WordBits <= k * WordBits
        BY <1>0, <2>2, <3>1, Product
      <3>4. ~(l < k)
        BY <1>0, <2>1, <2>2, <2>3, <3>1, <3>2, <3>3
      <3>5. QED
        BY <2>2, <3>1, <3>4 DEF k, l
    <2>5. AIdx(w) = k
      <3>1. w - AfidMin = k * WordBits
        BY <1>0, <2>3
      <3>2. k * WordBits < k * WordBits + WordBits
        BY <1>0, <2>3
      <3> HIDE DEF w, k
      <3>3. (k * WordBits) \div WordBits = k
        BY <1>0, <2>2, <2>3, <3>2, DivisionOf
      <3>4. QED
        BY <3>1, <3>3 DEF AIdx
    <2> HIDE DEF k
    <2>6. w \in WordStarts
      BY <2>2, <2>4 DEF WordStarts
    <2>7. a \in WordOf(w)
      <3>1. a = AfidMin + k * WordBits + (a - 1 - k * WordBits)
        BY <1>0, <2>1, <2>3
      <3>2. a - 1 - k * WordBits \in 0..(WordBits - 1)
        BY <1>0, <2>1, <2>2, <2>3
      <3>3. QED
        BY <2>5, <3>1, <3>2 DEF WordOf
    <2>8. w \in starts
      BY <1>3, <2>6, <2>7
    <2>9. starts \subseteq Nat
      <3>1. WordStarts \subseteq Nat
        BY <1>0, <2>4 DEF WordStarts
      <3>2. QED
        BY <3>1
    <2>10. Least(starts) <= w /\ Least(starts) \in Nat
      BY <2>8, <2>9, LeastIs
    <2>11. w <= a /\ w \in Nat
      BY <1>0, <2>1, <2>2, <2>3
    <2> HIDE DEF w, starts
    <2>12. a >= Least(starts)
      BY <2>1, <2>10, <2>11
    <2>13. QED
      BY <1>3, <2>8, <2>12
  <1> HIDE DEF starts
  <1>4. QED
    BY <1>0, <1>1, <1>2, <1>3

----------------------------------------------------------------------------
(* The inductive invariant. *)

Steps == {"absent", "call", "init", "clear", "scan", "find", "load", "store", "next", "write",
          "installed"}

\* One thread at a time is in get_new_afid.
Serial == \A p, q \in Packages : Getting(p) /\ Getting(q) => p = q

\* What the running get_new_afid knows.
Progress(p) ==
    /\ pc[p] = "scan" => used = {}
    /\ pc[p] = "find" /\ retried[p] => used \subseteq seen[p]
    /\ pc[p] \in {"load", "store"} => found[p] \in Afids \ used
    /\ pc[p] = "store" => word[p] = used \cap WordOf(found[p])
    /\ pc[p] = "next" /\ ids[p][Len(ids[p])] = NoAfid /\ "unread" \notin harm => seen[p] = Afids

\* The array has all the identifiers given, but before its first use and while
\* it is filled again: the identifiers of removed packages may be there too.
Recorded ==
    initDone /\ (\A p \in Packages : pc[p] \notin {"clear", "scan"}) =>
        \A p \in Packages : IdsOf(p) \cap Afids \subseteq used

\* While the unit files are read, they have all the identifiers.
Settled == \A p, q \in Packages : pc[p] = "scan" => ~Pending(q)

\* What holds whatever the other threads do.
Begun(p) ==
    /\ pc[p] \in {"clear", "scan", "find", "load", "store"} => initDone
    /\ pc[p] \in {"absent", "call", "init", "write", "installed"} => ~retried[p]
    /\ pc[p] \in {"load", "store"} => found[p] \in Afids
    /\ pc[p] = "installed" => NoAfid \notin IdsOf(p)

IInv ==
    /\ AfidTypeOK
    /\ \A p \in Packages : Begun(p)
    /\ "overlap" \notin harm => Serial /\ \A p \in Packages : Progress(p)
    /\ harm = {} => Recorded /\ Settled /\ AfidsDistinct

LEMMA IdsType ==
    ASSUME AfidTypeOK, NEW p \in Packages
    PROVE  /\ ids[p] \in Seq(Afids \cup {NoAfid}) /\ Len(ids[p]) \in Nat
           /\ DOMAIN ids[p] = 1..Len(ids[p]) /\ IdsOf(p) \subseteq Afids \cup {NoAfid}
  <1>1. ids[p] \in Seq(Afids \cup {NoAfid})
    BY DEF AfidTypeOK
  <1>2. /\ Len(ids[p]) \in Nat /\ DOMAIN ids[p] = 1..Len(ids[p])
        /\ \A i \in DOMAIN ids[p] : ids[p][i] \in Afids \cup {NoAfid}
    BY <1>1
  <1>3. QED
    BY <1>1, <1>2 DEF IdsOf

LEMMA DiskType ==
    ASSUME AfidTypeOK, \A p \in Packages : Begun(p)
    PROVE  OnDisk \subseteq Afids
  <1>1. \A p \in Packages : pc[p] = "installed" => IdsOf(p) \subseteq Afids
    BY IdsType DEF Begun
  <1>2. QED
    BY <1>1 DEF OnDisk

LEMMA GotoIs ==
    ASSUME AfidTypeOK, NEW p \in Packages, NEW from, NEW to \in Steps, Goto(p, from, to)
    PROVE  /\ pc[p] = from /\ pc' = [pc EXCEPT ![p] = to] /\ pc' \in [Packages -> Steps]
           /\ pc'[p] = to /\ \A q \in Packages : q # p => pc'[q] = pc[q]
  BY DEF Goto, AfidTypeOK, Steps

\* get_new_afid ends: the package gets an identifier, or the error.
LEMMA Given ==
    ASSUME AfidTypeOK, NEW p \in Packages, NEW x \in Afids \cup {NoAfid},
           ids' = [ids EXCEPT ![p] = Append(@, x)]
    PROVE  /\ ids' \in [Packages -> Seq(Afids \cup {NoAfid})]
           /\ IdsOf(p)' = IdsOf(p) \cup {x}
           /\ ids'[p][Len(ids'[p])] = x
           /\ DOMAIN ids'[p] = DOMAIN ids[p] \cup {Len(ids[p]) + 1}
           /\ ids'[p][Len(ids[p]) + 1] = x
           /\ \A i \in DOMAIN ids[p] : ids'[p][i] = ids[p][i]
           /\ \A q \in Packages : q # p => ids'[q] = ids[q]
  <1>1. ids[p] \in Seq(Afids \cup {NoAfid})
    BY DEF AfidTypeOK
  <1> DEFINE t == Append(ids[p], x)
  <1>2. /\ t \in Seq(Afids \cup {NoAfid}) /\ Len(t) = Len(ids[p]) + 1 /\ t[Len(ids[p]) + 1] = x
        /\ DOMAIN t = DOMAIN ids[p] \cup {Len(ids[p]) + 1}
        /\ \A i \in DOMAIN ids[p] : t[i] = ids[p][i]
    BY <1>1
  <1>3. ids' = [ids EXCEPT ![p] = t]
    OBVIOUS
  <1> HIDE DEF t
  <1>4. ids'[p] = t /\ \A q \in Packages : q # p => ids'[q] = ids[q]
    BY <1>3 DEF AfidTypeOK
  <1>5. ids' \in [Packages -> Seq(Afids \cup {NoAfid})]
    BY <1>2, <1>3 DEF AfidTypeOK
  <1>6. IdsOf(p)' = IdsOf(p) \cup {x}
    <2>1. IdsOf(p)' = {t[i] : i \in DOMAIN t}
      BY <1>4 DEF IdsOf
    <2>2. Len(ids[p]) + 1 \in DOMAIN t /\ \A i \in DOMAIN ids[p] : i \in DOMAIN t
      BY <1>2
    <2>3. {t[i] : i \in DOMAIN t} \subseteq IdsOf(p) \cup {x}
      BY <1>2 DEF IdsOf
    <2>4. IdsOf(p) \cup {x} \subseteq {t[i] : i \in DOMAIN t}
      BY <1>2, <2>2 DEF IdsOf
    <2>5. QED
      BY <2>1, <2>3, <2>4
  <1>7. QED
    BY <1>2, <1>4, <1>5, <1>6

\* The package loses its identifiers.
LEMMA Lost ==
    ASSUME AfidTypeOK, NEW p \in Packages, ids' = [ids EXCEPT ![p] = <<>>]
    PROVE  /\ ids' \in [Packages -> Seq(Afids \cup {NoAfid})]
           /\ DOMAIN ids'[p] = {} /\ IdsOf(p)' = {}
           /\ \A q \in Packages : q # p => ids'[q] = ids[q]
  <1>1. /\ ids' \in [Packages -> Seq(Afids \cup {NoAfid})] /\ ids'[p] = <<>>
        /\ \A q \in Packages : q # p => ids'[q] = ids[q]
    BY DEF AfidTypeOK
  <1>2. DOMAIN ids'[p] = {}
    BY <1>1
  <1>3. QED
    BY <1>1, <1>2 DEF IdsOf

\* What the other packages know stays true: those in get_new_afid see the array
\* change only if two threads are there.
LEMMA OthersKept ==
    ASSUME IInv, "overlap" \notin harm, harm \subseteq harm', NEW p \in Packages,
           used' = used \/ Getting(p),
           \A q \in Packages : q # p =>
               /\ pc'[q] = pc[q] /\ ids'[q] = ids[q] /\ retried'[q] = retried[q]
               /\ found'[q] = found[q] /\ word'[q] = word[q] /\ seen'[q] = seen[q]
    PROVE  \A q \in Packages : q # p => Progress(q)'
  <1> SUFFICES ASSUME NEW q \in Packages, q # p  PROVE Progress(q)'
    OBVIOUS
  <1>1. Progress(q) /\ Serial
    BY DEF IInv
  <1>3. CASE used' = used
    BY <1>1, <1>3 DEF Progress
  <1>4. CASE Getting(p)
    <2>1. ~Getting(q)
      BY <1>1, <1>4 DEF Serial
    <2>2. QED
      BY <1>1, <2>1 DEF Progress, Getting
  <1>5. QED
    BY <1>3, <1>4

\* A step of a package that gives no identifier and does not touch the array.
LEMMA QuietStep ==
    ASSUME IInv, AfidTypeOK', harm' = harm, used' = used, NEW p \in Packages,
           \A q \in Packages : q # p =>
               /\ pc'[q] = pc[q] /\ ids'[q] = ids[q] /\ retried'[q] = retried[q]
               /\ found'[q] = found[q] /\ word'[q] = word[q] /\ seen'[q] = seen[q],
           initDone => initDone', Begun(p)',
           Getting(p)' => Getting(p),
           "overlap" \notin harm => Progress(p)',
           ids'[p] = ids[p] \/ DOMAIN ids'[p] = {},
           pc[p] \in {"clear", "scan"} => pc'[p] \in {"clear", "scan"},
           initDone' => initDone \/ pc'[p] \in {"clear", "scan"},
           pc'[p] = "scan" => pc[p] = "scan",
           Pending(p)' => Pending(p)
    PROVE  IInv'
  <1>1. ASSUME NEW q \in Packages, q # p
        PROVE  /\ Begun(q)' /\ IdsOf(q)' = IdsOf(q) /\ (Pending(q)' <=> Pending(q))
               /\ (Getting(q)' <=> Getting(q))
    BY <1>1 DEF IInv, Begun, IdsOf, Pending, Getting
  <1>2. "overlap" \notin harm => \A q \in Packages : Progress(q)'
    BY OthersKept
  <1>3. "overlap" \notin harm => Serial'
    BY <1>1 DEF IInv, Serial
  <1>4. IdsOf(p)' \subseteq IdsOf(p)
    BY DEF IdsOf
  <1>5. ASSUME harm = {}
        PROVE  Recorded' /\ Settled' /\ AfidsDistinct'
    <2>1. Recorded'
      BY <1>1, <1>4, <1>5 DEF IInv, Recorded
    <2>2. Settled'
      BY <1>1, <1>5 DEF IInv, Settled
    <2>3. AfidsDistinct'
      BY <1>5 DEF IInv, AfidsDistinct
    <2>4. QED
      BY <2>1, <2>2, <2>3
  <1>6. QED
    BY <1>1, <1>2, <1>3, <1>5 DEF IInv

----------------------------------------------------------------------------
(* The actions. *)

LEMMA StartInstallInv ==
    ASSUME IInv, NEW p \in Packages, StartInstall(p)
    PROVE  IInv'
  <1>1. /\ pc[p] = "absent" /\ pc' \in [Packages -> Steps]
        /\ pc'[p] = "call" /\ \A q \in Packages : q # p => pc'[q] = pc[q]
    BY GotoIs DEF StartInstall, IInv, Steps
  <1>2. UNCHANGED <<initDone, used, targets, ids, retried, found, word, seen, harm>>
    BY DEF StartInstall, history
  <1>3. AfidTypeOK'
    BY <1>1, <1>2 DEF IInv, AfidTypeOK, Steps
  <1>4. Begun(p)' /\ Progress(p)' /\ ~Getting(p)' /\ (Pending(p)' => Pending(p))
    BY <1>1, <1>2 DEF IInv, Begun, Progress, Getting, Pending, IdsOf
  <1>5. QED
    BY <1>1, <1>2, <1>3, <1>4, QuietStep

LEMMA InitManagerInv ==
    ASSUME IInv, NEW p \in Packages, InitManager(p)
    PROVE  IInv'
  <1> DEFINE to == IF initDone THEN "find" ELSE "init"
  <1>1. /\ pc[p] = "call" /\ pc' \in [Packages -> Steps]
        /\ pc'[p] = to /\ \A q \in Packages : q # p => pc'[q] = pc[q]
    BY GotoIs DEF InitManager, IInv, Steps
  <1>2. UNCHANGED <<initDone, used, targets, ids, retried, found, word, seen>>
    BY DEF InitManager
  <1>3. /\ harm \subseteq harm' /\ harm' \subseteq harm \cup {"overlap"}
        /\ "overlap" \notin harm' => \A q \in Packages : ~Getting(q)
    BY DEF InitManager
  <1>4. AfidTypeOK'
    BY <1>1, <1>2, <1>3 DEF IInv, AfidTypeOK, Steps, Harms
  <1>5. \A q \in Packages : Begun(q)'
    BY <1>1, <1>2 DEF IInv, Begun, IdsOf
  <1>6. ASSUME "overlap" \notin harm'
        PROVE  Serial' /\ \A q \in Packages : Progress(q)'
    <2>1. Serial'
      BY <1>1, <1>3, <1>6 DEF Serial, Getting
    <2>2. \A q \in Packages : q # p => Progress(q)'
      BY <1>1, <1>2, <1>3, <1>6, OthersKept
    <2>3. ~retried[p]
      BY <1>1 DEF IInv, Begun
    <2>4. Progress(p)'
      BY <1>1, <1>2, <2>3 DEF Progress
    <2>5. QED
      BY <2>1, <2>2, <2>4
  <1>7. ASSUME harm' = {}
        PROVE  Recorded' /\ Settled' /\ AfidsDistinct'
    <2>1. harm = {}
      BY <1>3, <1>7
    <2>2. \A q \in Packages : IdsOf(q)' = IdsOf(q) /\ (Pending(q)' <=> Pending(q))
      BY <1>1, <1>2 DEF IdsOf, Pending
    <2>3. QED
      BY <1>1, <1>2, <2>1, <2>2 DEF IInv, Recorded, Settled, AfidsDistinct
  <1>8. QED
    BY <1>4, <1>5, <1>6, <1>7 DEF IInv

LEMMA InitSetDoneInv ==
    ASSUME IInv, NEW p \in Packages, InitSetDone(p)
    PROVE  IInv'
  <1>1. /\ pc[p] = "init" /\ pc' \in [Packages -> Steps]
        /\ pc'[p] = "clear" /\ \A q \in Packages : q # p => pc'[q] = pc[q]
    BY GotoIs DEF InitSetDone, IInv, Steps
  <1>2. UNCHANGED <<used, targets, ids, retried, found, word, seen, harm>> /\ initDone' = TRUE
    BY DEF InitSetDone, history
  <1>3. AfidTypeOK'
    BY <1>1, <1>2 DEF IInv, AfidTypeOK, Steps
  <1>4. Begun(p)' /\ Progress(p)' /\ Getting(p) /\ (Pending(p)' => Pending(p))
    BY <1>1, <1>2 DEF Begun, Progress, Getting, Pending, IdsOf
  <1>5. QED
    BY <1>1, <1>2, <1>3, <1>4, QuietStep

\* The array is emptied: no identifier is forgotten if all are in unit files.
LEMMA UpdateClearInv ==
    ASSUME IInv, NEW p \in Packages, UpdateClear(p)
    PROVE  IInv'
  <1>1. /\ pc[p] = "clear" /\ pc' \in [Packages -> Steps]
        /\ pc'[p] = "scan" /\ \A q \in Packages : q # p => pc'[q] = pc[q]
    BY GotoIs DEF UpdateClear, IInv, Steps
  <1>2. UNCHANGED <<initDone, targets, ids, retried, found, word, seen>> /\ used' = {}
    BY DEF UpdateClear
  <1>3. /\ harm \subseteq harm' /\ harm' \subseteq harm \cup {"forgotten"}
        /\ harm' = {} => \A q \in Packages : ~Pending(q)
    BY DEF UpdateClear
  <1>4. AfidTypeOK'
    BY <1>1, <1>2, <1>3 DEF IInv, AfidTypeOK, Steps, Harms
  <1>5. \A q \in Packages : Begun(q)'
    BY <1>1, <1>2 DEF IInv, Begun, IdsOf
  <1>6. ASSUME "overlap" \notin harm'
        PROVE  Serial' /\ \A q \in Packages : Progress(q)'
    <2>1. Getting(p) /\ "overlap" \notin harm
      BY <1>1, <1>3, <1>6 DEF Getting
    <2>2. Serial'
      BY <1>1, <2>1 DEF IInv, Serial, Getting
    <2>3. \A q \in Packages : q # p => Progress(q)'
      BY <1>1, <1>2, <1>3, <2>1, OthersKept
    <2>4. Progress(p)'
      BY <1>1, <1>2 DEF Progress
    <2>5. QED
      BY <2>2, <2>3, <2>4
  <1>7. ASSUME harm' = {}
        PROVE  Recorded' /\ Settled' /\ AfidsDistinct'
    <2>1. harm = {}
      BY <1>3, <1>7
    <2>2. \A q \in Packages : ~Pending(q)'
      BY <1>1, <1>2, <1>3, <1>7 DEF IdsOf, Pending
    <2>3. Recorded'
      BY <1>1 DEF Recorded
    <2>4. QED
      BY <1>2, <2>1, <2>2, <2>3 DEF IInv, Settled, AfidsDistinct
  <1>8. QED
    BY <1>4, <1>5, <1>6, <1>7 DEF IInv

\* The identifiers of the unit files are all there is to record.
LEMMA UpdateScanInv ==
    ASSUME IInv, NEW p \in Packages, UpdateScan(p)
    PROVE  IInv'
  <1>0. pc[p] = "scan" /\ Getting(p) /\ OnDisk \subseteq Afids /\ initDone
    BY DiskType DEF UpdateScan, Goto, Getting, IInv, Begun
  <1>1. UNCHANGED <<initDone, targets, retried, found, word>>
    BY DEF UpdateScan
  <1>2. CASE /\ Goto(p, "scan", "find") /\ used' = used \cup OnDisk
             /\ seen' = [seen EXCEPT ![p] = OnDisk] /\ UNCHANGED <<ids, harm>>
    <2>1. /\ pc' \in [Packages -> Steps]
          /\ pc'[p] = "find" /\ \A q \in Packages : q # p => pc'[q] = pc[q]
      BY <1>2, GotoIs DEF IInv, Steps
    <2>2. /\ seen' \in [Packages -> SUBSET Afids] /\ seen'[p] = OnDisk
          /\ \A q \in Packages : q # p => seen'[q] = seen[q]
      BY <1>0, <1>2 DEF IInv, AfidTypeOK
    <2>3. AfidTypeOK'
      BY <1>0, <1>1, <1>2, <2>1, <2>2 DEF IInv, AfidTypeOK, Steps
    <2>4. \A q \in Packages : Begun(q)' /\ IdsOf(q)' = IdsOf(q)
      BY <1>0, <1>1, <1>2, <2>1 DEF IInv, Begun, IdsOf
    <2>5. ASSUME "overlap" \notin harm
          PROVE  Serial' /\ \A q \in Packages : Progress(q)'
      <3>1. Serial'
        BY <1>0, <2>1, <2>5 DEF IInv, Serial, Getting
      <3>2. \A q \in Packages : q # p => Progress(q)'
        BY <1>0, <1>1, <1>2, <2>1, <2>2, <2>5, OthersKept
      <3>3. used = {}
        BY <1>0, <2>5 DEF IInv, Progress
      <3>4. Progress(p)'
        BY <1>2, <2>1, <2>2, <3>3 DEF Progress
      <3>5. QED
        BY <3>1, <3>2, <3>4
    <2>6. ASSUME harm = {}
          PROVE  Recorded' /\ Settled' /\ AfidsDistinct'
      <3>1. ASSUME NEW q \in Packages
            PROVE  IdsOf(q) \cap Afids \subseteq OnDisk
        BY <1>0, <2>6 DEF IInv, Settled, Pending, OnDisk
      <3>2. Recorded'
        BY <1>2, <2>4, <3>1 DEF Recorded
      <3>3. \A q \in Packages : pc'[q] # "scan"
        BY <1>0, <2>1, <2>6 DEF IInv, Serial, Getting
      <3>4. Settled' /\ AfidsDistinct'
        BY <1>2, <2>6, <3>3 DEF IInv, Settled, AfidsDistinct
      <3>5. QED
        BY <3>2, <3>4
    <2>7. QED
      BY <1>2, <2>3, <2>4, <2>5, <2>6 DEF IInv
  <1>3. CASE /\ Goto(p, "scan", "next") /\ \E read \in SUBSET OnDisk : used' = used \cup read
             /\ ids' = [ids EXCEPT ![p] = Append(@, NoAfid)]
             /\ harm' = harm \cup {"unread"} /\ UNCHANGED seen
    <2>1. /\ pc' \in [Packages -> Steps]
          /\ pc'[p] = "next" /\ \A q \in Packages : q # p => pc'[q] = pc[q]
      BY <1>3, GotoIs DEF IInv, Steps
    <2>2. /\ ids' \in [Packages -> Seq(Afids \cup {NoAfid})]
          /\ \A q \in Packages : q # p => ids'[q] = ids[q]
      BY <1>3, Given DEF IInv
    <2>3. AfidTypeOK'
      BY <1>0, <1>1, <1>3, <2>1, <2>2 DEF IInv, AfidTypeOK, Steps, Harms
    <2>4. \A q \in Packages : Begun(q)'
      BY <1>0, <1>1, <2>1, <2>2 DEF IInv, Begun, IdsOf
    <2>5. ASSUME "overlap" \notin harm'
          PROVE  Serial' /\ \A q \in Packages : Progress(q)'
      <3>0. "overlap" \notin harm
        BY <1>3, <2>5
      <3>1. Serial'
        BY <1>0, <2>1, <3>0 DEF IInv, Serial, Getting
      <3>2. \A q \in Packages : q # p => Progress(q)'
        BY <1>0, <1>1, <1>3, <2>1, <2>2, <3>0, OthersKept
      <3>3. Progress(p)'
        BY <1>3, <2>1 DEF Progress
      <3>4. QED
        BY <3>1, <3>2, <3>3
    <2>6. harm' # {}
      BY <1>3
    <2>7. QED
      BY <2>3, <2>4, <2>5, <2>6 DEF IInv
  <1>4. QED
    BY <1>2, <1>3 DEF UpdateScan

LEMMA FindFreeInv ==
    ASSUME IInv, NEW p \in Packages, FindFree(p)
    PROVE  IInv'
  <1> DEFINE free == FirstFree(used)
  <1>0. pc[p] = "find" /\ Getting(p) /\ initDone
    BY DEF FindFree, Goto, Getting, IInv, Begun
  <1>1. /\ free # NoAfid => free \in Afids \ used
        /\ free = NoAfid => used = Afids
    BY FirstFreeIs DEF IInv, AfidTypeOK
  <1>2. UNCHANGED <<initDone, used, targets, word, seen, harm>>
    BY DEF FindFree, history
  <1>3. CASE free # NoAfid
    <2>1. /\ Goto(p, "find", "load") /\ found' = [found EXCEPT ![p] = free]
          /\ UNCHANGED <<ids, retried>>
      BY <1>3 DEF FindFree
    <2>2. /\ pc' \in [Packages -> Steps]
          /\ pc'[p] = "load" /\ \A q \in Packages : q # p => pc'[q] = pc[q]
      BY <2>1, GotoIs DEF IInv, Steps
    <2> HIDE DEF free
    <2>3. /\ found' \in [Packages -> Afids \cup {NoAfid}] /\ found'[p] = free
          /\ \A q \in Packages : q # p => found'[q] = found[q]
      BY <1>1, <1>3, <2>1 DEF IInv, AfidTypeOK
    <2>4. AfidTypeOK'
      BY <1>2, <2>1, <2>2, <2>3 DEF IInv, AfidTypeOK, Steps
    <2>5. Progress(p)' /\ Begun(p)' /\ (Pending(p)' => Pending(p))
      BY <1>0, <1>1, <1>2, <1>3, <2>1, <2>2, <2>3 DEF Progress, Begun, Pending, IdsOf
    <2>6. QED
      BY <1>0, <1>2, <2>1, <2>2, <2>3, <2>4, <2>5, QuietStep
  <1>4. CASE free = NoAfid /\ ~retried[p]
    <2>1. /\ Goto(p, "find", "clear") /\ retried' = [retried EXCEPT ![p] = TRUE]
          /\ UNCHANGED <<ids, found>>
      BY <1>4 DEF FindFree
    <2>2. /\ pc' \in [Packages -> Steps]
          /\ pc'[p] = "clear" /\ \A q \in Packages : q # p => pc'[q] = pc[q]
      BY <2>1, GotoIs DEF IInv, Steps
    <2>3. AfidTypeOK' /\ \A q \in Packages : q # p => retried'[q] = retried[q]
      BY <1>2, <2>1, <2>2 DEF IInv, AfidTypeOK, Steps
    <2>4. Progress(p)' /\ Begun(p)' /\ (Pending(p)' => Pending(p))
      BY <1>0, <1>2, <2>1, <2>2 DEF Progress, Begun, Pending, IdsOf
    <2>5. QED
      BY <1>0, <1>2, <2>1, <2>2, <2>3, <2>4, QuietStep
  <1>5. CASE free = NoAfid /\ retried[p]
    <2>1. /\ Goto(p, "find", "next") /\ ids' = [ids EXCEPT ![p] = Append(@, NoAfid)]
          /\ UNCHANGED <<found, retried>>
      BY <1>5 DEF FindFree
    <2>2. /\ pc' \in [Packages -> Steps]
          /\ pc'[p] = "next" /\ \A q \in Packages : q # p => pc'[q] = pc[q]
      BY <2>1, GotoIs DEF IInv, Steps
    <2>3. /\ ids' \in [Packages -> Seq(Afids \cup {NoAfid})]
          /\ IdsOf(p)' = IdsOf(p) \cup {NoAfid}
          /\ DOMAIN ids'[p] = DOMAIN ids[p] \cup {Len(ids[p]) + 1}
          /\ ids'[p][Len(ids[p]) + 1] = NoAfid
          /\ \A i \in DOMAIN ids[p] : ids'[p][i] = ids[p][i]
          /\ \A q \in Packages : q # p => ids'[q] = ids[q]
      BY <2>1, Given DEF IInv
    <2>4. AfidTypeOK'
      BY <1>2, <2>1, <2>2, <2>3 DEF IInv, AfidTypeOK, Steps
    <2>5. NoAfid \notin Afids
      BY AfidAssumption DEF Afids, AfidMin, NoAfid
    <2>6. \A q \in Packages : /\ Begun(q)' /\ IdsOf(q)' \cap Afids = IdsOf(q) \cap Afids
                              /\ (Pending(q)' <=> Pending(q))
      <3>1. ASSUME NEW q \in Packages, q # p
            PROVE  IdsOf(q)' = IdsOf(q) /\ pc'[q] = pc[q] /\ Begun(q)
        BY <2>2, <2>3, <3>1 DEF IInv, IdsOf
      <3>2. ASSUME NEW q \in Packages, q # p
            PROVE  Begun(q)' /\ (Pending(q)' <=> Pending(q))
        BY <1>2, <2>1, <3>1, <3>2 DEF Begun, Pending
      <3>3. /\ Begun(p)' /\ IdsOf(p)' \cap Afids = IdsOf(p) \cap Afids
            /\ (Pending(p)' <=> Pending(p))
        BY <1>0, <2>2, <2>3, <2>5 DEF Begun, Pending
      <3>4. QED
        BY <3>1, <3>2, <3>3
    <2>7. ASSUME "overlap" \notin harm
          PROVE  Serial' /\ \A q \in Packages : Progress(q)'
      <3>1. Serial'
        BY <1>0, <2>2, <2>7 DEF IInv, Serial, Getting
      <3>2. \A q \in Packages : q # p => Progress(q)'
        BY <1>0, <1>2, <2>1, <2>2, <2>3, <2>7, OthersKept
      <3>3. used = Afids /\ used \subseteq seen[p] /\ seen[p] \subseteq Afids
        BY <1>0, <1>1, <1>5, <2>7 DEF IInv, Progress, AfidTypeOK
      <3>4. Progress(p)'
        BY <1>2, <2>2, <3>3 DEF Progress
      <3>5. QED
        BY <3>1, <3>2, <3>4
    <2>8. ASSUME harm = {}
          PROVE  Recorded' /\ Settled' /\ AfidsDistinct'
      <3>1. Recorded'
        BY <1>0, <1>2, <2>2, <2>6, <2>8 DEF IInv, Recorded
      <3>2. Settled'
        BY <2>2, <2>6, <2>8 DEF IInv, Settled
      <3>3. AfidsDistinct'
        <4> SUFFICES ASSUME NEW q \in Packages, NEW r \in Packages,
                            NEW i \in DOMAIN ids'[q], NEW j \in DOMAIN ids'[r],
                            ids'[q][i] = ids'[r][j], ids'[q][i] # NoAfid
                     PROVE  q = r /\ i = j
          BY DEF AfidsDistinct
        <4>1. i \in DOMAIN ids[q] /\ ids[q][i] = ids'[q][i]
          BY <2>3
        <4>2. j \in DOMAIN ids[r] /\ ids[r][j] = ids'[r][j]
          BY <2>3
        <4>3. QED
          BY <2>8, <4>1, <4>2 DEF IInv, AfidsDistinct
      <3>4. QED
        BY <3>1, <3>2, <3>3
    <2>9. QED
      BY <1>2, <2>4, <2>6, <2>7, <2>8 DEF IInv
  <1>6. QED
    BY <1>3, <1>4, <1>5

LEMMA SetLoadInv ==
    ASSUME IInv, NEW p \in Packages, SetLoad(p)
    PROVE  IInv'
  <1>1. /\ pc[p] = "load" /\ pc' \in [Packages -> Steps]
        /\ pc'[p] = "store" /\ \A q \in Packages : q # p => pc'[q] = pc[q]
    BY GotoIs DEF SetLoad, IInv, Steps
  <1>2. UNCHANGED <<initDone, used, targets, ids, retried, found, seen, harm>>
    BY DEF SetLoad, history
  <1>3. /\ word' \in [Packages -> SUBSET Afids] /\ word'[p] = used \cap WordOf(found[p])
        /\ \A q \in Packages : q # p => word'[q] = word[q]
    BY DEF SetLoad, IInv, AfidTypeOK
  <1>4. AfidTypeOK'
    BY <1>1, <1>2, <1>3 DEF IInv, AfidTypeOK, Steps
  <1>5. Begun(p)' /\ Getting(p) /\ (Pending(p)' => Pending(p))
    BY <1>1, <1>2 DEF Begun, IInv, Getting, Pending, IdsOf
  <1>6. "overlap" \notin harm => Progress(p)'
    BY <1>1, <1>2, <1>3 DEF IInv, Progress, WordOf
  <1>7. QED
    BY <1>1, <1>2, <1>3, <1>4, <1>5, <1>6, QuietStep

\* The store of the word adds the bit and changes no other one.
LEMMA SetStoreInv ==
    ASSUME IInv, NEW p \in Packages, SetStore(p)
    PROVE  IInv'
  <1>1. /\ pc[p] = "store" /\ pc' \in [Packages -> Steps]
        /\ pc'[p] = "next" /\ \A q \in Packages : q # p => pc'[q] = pc[q]
    BY GotoIs DEF SetStore, IInv, Steps
  <1>2. UNCHANGED <<initDone, targets, retried, seen, harm>> /\ initDone /\ Getting(p)
    BY <1>1 DEF SetStore, history, IInv, Begun, Getting
  <1>3. found[p] \in Afids \cup {NoAfid} /\ word[p] \subseteq Afids /\ used \subseteq Afids
    BY DEF IInv, AfidTypeOK
  <1>4. found[p] \in Afids
    BY <1>1 DEF IInv, Begun
  <1>5. /\ ids' \in [Packages -> Seq(Afids \cup {NoAfid})]
        /\ IdsOf(p)' = IdsOf(p) \cup {found[p]}
        /\ ids'[p][Len(ids'[p])] = found[p]
        /\ DOMAIN ids'[p] = DOMAIN ids[p] \cup {Len(ids[p]) + 1}
        /\ ids'[p][Len(ids[p]) + 1] = found[p]
        /\ \A i \in DOMAIN ids[p] : ids'[p][i] = ids[p][i]
        /\ \A q \in Packages : q # p => ids'[q] = ids[q]
    BY <1>3, Given DEF SetStore, IInv
  <1>6. /\ found' \in [Packages -> Afids \cup {NoAfid}] /\ word' \in [Packages -> SUBSET Afids]
        /\ \A q \in Packages : q # p => found'[q] = found[q] /\ word'[q] = word[q]
    BY DEF SetStore, IInv, AfidTypeOK
  <1>7. used' \subseteq Afids
    BY <1>3, <1>4 DEF SetStore
  <1>8. AfidTypeOK'
    BY <1>1, <1>2, <1>5, <1>6, <1>7 DEF IInv, AfidTypeOK, Steps
  <1>9. \A q \in Packages : Begun(q)'
    <2>1. Begun(p)'
      BY <1>1 DEF Begun
    <2>2. ASSUME NEW q \in Packages, q # p
          PROVE  Begun(q)'
      <3>1. Begun(q) /\ IdsOf(q)' = IdsOf(q)
        BY <1>5, <2>2 DEF IInv, IdsOf
      <3>2. QED
        BY <1>1, <1>2, <1>6, <2>2, <3>1 DEF Begun
    <2>3. QED
      BY <2>1, <2>2
  <1>10. NoAfid \notin Afids
    BY AfidAssumption DEF Afids, AfidMin, NoAfid
  <1>11. ASSUME "overlap" \notin harm
         PROVE  Serial' /\ \A q \in Packages : Progress(q)'
    <2>1. Serial'
      BY <1>1, <1>2, <1>11 DEF IInv, Serial, Getting
    <2>2. \A q \in Packages : q # p => Progress(q)'
      BY <1>1, <1>2, <1>5, <1>6, <1>11, OthersKept
    <2>3. Progress(p)'
      BY <1>1, <1>4, <1>5, <1>10 DEF Progress
    <2>4. QED
      BY <2>1, <2>2, <2>3
  <1>12. ASSUME harm = {}
         PROVE  Recorded' /\ Settled' /\ AfidsDistinct'
    <2>1. found[p] \notin used /\ word[p] = used \cap WordOf(found[p]) /\ Serial
      BY <1>1, <1>12 DEF IInv, Progress
    <2>2. used' = used \cup {found[p]}
      BY <2>1 DEF SetStore
    <2>3. \A q \in Packages : pc[q] \notin {"clear", "scan"} /\ pc'[q] \notin {"clear", "scan"}
      BY <1>1, <1>2, <2>1 DEF Serial, Getting
    <2>4. \A q \in Packages : IdsOf(q) \cap Afids \subseteq used
      BY <1>2, <1>12, <2>3 DEF IInv, Recorded
    <2>5. \A q \in Packages : q # p => IdsOf(q)' = IdsOf(q)
      BY <1>5 DEF IdsOf
    <2>6. Recorded'
      BY <1>5, <2>2, <2>4, <2>5 DEF Recorded
    <2>7. Settled'
      BY <2>3 DEF Settled
    <2>8. ASSUME NEW q \in Packages, NEW i \in DOMAIN ids'[q]
          PROVE  \/ i \in DOMAIN ids[q] /\ ids'[q][i] = ids[q][i] /\ ids'[q][i] # found[p]
                 \/ q = p /\ i = Len(ids[p]) + 1 /\ ids'[q][i] = found[p]
      <3>1. ASSUME i \in DOMAIN ids[q]
            PROVE  ids[q][i] # found[p]
        BY <1>4, <2>1, <2>4, <3>1 DEF IdsOf
      <3>2. QED
        BY <1>5, <3>1
    <2>9. AfidsDistinct'
      <3> SUFFICES ASSUME NEW q \in Packages, NEW r \in Packages,
                          NEW i \in DOMAIN ids'[q], NEW j \in DOMAIN ids'[r],
                          ids'[q][i] = ids'[r][j], ids'[q][i] # NoAfid
                   PROVE  q = r /\ i = j
        BY DEF AfidsDistinct
      <3>1. CASE ids'[q][i] = found[p]
        BY <2>8, <3>1
      <3>2. CASE ids'[q][i] # found[p]
        <4>1. /\ i \in DOMAIN ids[q] /\ ids'[q][i] = ids[q][i]
              /\ j \in DOMAIN ids[r] /\ ids'[r][j] = ids[r][j]
          BY <2>8, <3>2
        <4>2. ids[q][i] = ids[r][j] /\ ids[q][i] # NoAfid
          BY <4>1
        <4>3. AfidsDistinct
          BY <1>12 DEF IInv
        <4>4. QED
          BY <4>1, <4>2, <4>3 DEF AfidsDistinct
      <3>3. QED
        BY <3>1, <3>2
    <2>10. QED
      BY <2>6, <2>7, <2>9
  <1>13. QED
    BY <1>2, <1>8, <1>9, <1>11, <1>12 DEF IInv

LEMMA NextTargetInv ==
    ASSUME IInv, NEW p \in Packages, NextTarget(p)
    PROVE  IInv'
  <1> DEFINE to == IF Len(ids[p]) < targets[p] THEN "call" ELSE "write"
  <1>1. /\ pc[p] = "next" /\ pc' \in [Packages -> Steps]
        /\ pc'[p] = to /\ \A q \in Packages : q # p => pc'[q] = pc[q]
    BY GotoIs DEF NextTarget, IInv, Steps
  <1>2. UNCHANGED <<initDone, used, targets, ids, found, word, harm>>
    BY DEF NextTarget
  <1>3. /\ retried' \in [Packages -> BOOLEAN] /\ seen' \in [Packages -> SUBSET Afids]
        /\ \A q \in Packages : q # p => retried'[q] = retried[q] /\ seen'[q] = seen[q]
        /\ retried'[p] = FALSE
    BY DEF NextTarget, IInv, AfidTypeOK
  <1>4. AfidTypeOK'
    BY <1>1, <1>2, <1>3 DEF IInv, AfidTypeOK, Steps
  <1>5. Begun(p)' /\ Progress(p)' /\ ~Getting(p)' /\ (Pending(p)' => Pending(p))
    BY <1>1, <1>2, <1>3 DEF Begun, Progress, Getting, Pending, IdsOf
  <1>6. QED
    BY <1>1, <1>2, <1>3, <1>4, <1>5, QuietStep

LEMMA WriteUnitsInv ==
    ASSUME IInv, NEW p \in Packages, WriteUnits(p)
    PROVE  IInv'
  <1>0. pc[p] = "write"
    BY DEF WriteUnits, Goto
  <1>2. UNCHANGED <<initDone, used, targets, retried, found, word, seen, harm>>
    BY DEF WriteUnits, history
  <1>3. CASE NoAfid \notin IdsOf(p) /\ Goto(p, "write", "installed") /\ UNCHANGED ids
    <2>1. /\ pc' \in [Packages -> Steps]
          /\ pc'[p] = "installed" /\ \A q \in Packages : q # p => pc'[q] = pc[q]
      BY <1>3, GotoIs DEF IInv, Steps
    <2>2. AfidTypeOK'
      BY <1>2, <1>3, <2>1 DEF IInv, AfidTypeOK, Steps
    <2>3. Begun(p)' /\ Progress(p)' /\ ~Getting(p)' /\ ~Pending(p)'
      BY <1>0, <1>2, <1>3, <2>1 DEF IInv, Begun, Progress, Getting, Pending, IdsOf
    <2>4. QED
      BY <1>0, <1>2, <1>3, <2>1, <2>2, <2>3, QuietStep
  <1>4. CASE Goto(p, "write", "absent") /\ ids' = [ids EXCEPT ![p] = <<>>]
    <2>1. /\ pc' \in [Packages -> Steps]
          /\ pc'[p] = "absent" /\ \A q \in Packages : q # p => pc'[q] = pc[q]
      BY <1>4, GotoIs DEF IInv, Steps
    <2>2. /\ ids' \in [Packages -> Seq(Afids \cup {NoAfid})]
          /\ DOMAIN ids'[p] = {} /\ IdsOf(p)' = {}
          /\ \A q \in Packages : q # p => ids'[q] = ids[q]
      BY <1>4, Lost DEF IInv
    <2>3. AfidTypeOK'
      BY <1>2, <2>1, <2>2 DEF IInv, AfidTypeOK, Steps
    <2>4. Begun(p)' /\ Progress(p)' /\ ~Getting(p)' /\ ~Pending(p)'
      BY <1>2, <2>1, <2>2, <1>0 DEF Begun, Progress, Getting, Pending, IInv
    <2>5. QED
      BY <1>0, <1>2, <2>1, <2>2, <2>3, <2>4, QuietStep
  <1>5. QED
    BY <1>3, <1>4 DEF WriteUnits

LEMMA RemoveInv ==
    ASSUME IInv, NEW p \in Packages, Remove(p)
    PROVE  IInv'
  <1>1. /\ pc[p] = "installed" /\ pc' \in [Packages -> Steps]
        /\ pc'[p] = "absent" /\ \A q \in Packages : q # p => pc'[q] = pc[q]
    BY GotoIs DEF Remove, IInv, Steps
  <1>2. UNCHANGED <<initDone, used, targets, retried, found, word, seen, harm>>
    BY DEF Remove, history
  <1>3. /\ ids' \in [Packages -> Seq(Afids \cup {NoAfid})]
        /\ DOMAIN ids'[p] = {} /\ IdsOf(p)' = {}
        /\ \A q \in Packages : q # p => ids'[q] = ids[q]
    BY Lost DEF Remove, IInv
  <1>4. AfidTypeOK'
    BY <1>1, <1>2, <1>3 DEF IInv, AfidTypeOK, Steps
  <1>5. Begun(p)' /\ Progress(p)' /\ ~Getting(p)' /\ ~Pending(p)'
    BY <1>1, <1>2, <1>3 DEF Begun, Progress, Getting, Pending, IInv
  <1>6. QED
    BY <1>1, <1>2, <1>3, <1>4, <1>5, QuietStep

----------------------------------------------------------------------------

LEMMA InitInv == ASSUME AfidInit  PROVE IInv
  <1>1. /\ targets \in [Packages -> 1..MaxTargets]
        /\ initDone = FALSE /\ used = {} /\ harm = {}
        /\ retried = [p \in Packages |-> FALSE] /\ found = [p \in Packages |-> NoAfid]
        /\ word = [p \in Packages |-> {}] /\ seen = [p \in Packages |-> {}]
    BY DEF AfidInit
  <1>2. pc \in [Packages -> {"absent", "installed"}]
    BY DEF AfidInit
  <1>3. ASSUME NEW p \in Packages
        PROVE  ids[p] \in Seq(Afids)
    <2>1. ids[p] \in {<<>>} \cup UNION {[1..n -> Afids] : n \in 1..MaxTargets}
      BY DEF AfidInit
    <2>2. CASE ids[p] = <<>>
      BY <2>2
    <2>3. CASE ids[p] # <<>>
      <3>1. PICK n \in 1..MaxTargets : ids[p] \in [1..n -> Afids]
        BY <2>1, <2>3
      <3>2. n \in Nat
        BY TargetsAssumption
      <3>3. ids[p] \in UNION {[1..m -> Afids] : m \in Nat}
        BY <3>1, <3>2
      <3>4. QED
        BY <3>3, SeqDef, Zenon
    <2>4. QED
      BY <2>2, <2>3
  <1>4. NoAfid \notin Afids
    BY AfidAssumption DEF Afids, AfidMin, NoAfid
  <1>5. ASSUME NEW p \in Packages
        PROVE  ids[p] \in Seq(Afids \cup {NoAfid}) /\ IdsOf(p) \subseteq Afids
    <2>1. \A i \in DOMAIN ids[p] : ids[p][i] \in Afids
      BY <1>3
    <2>2. QED
      BY <1>3, <2>1 DEF IdsOf
  <1>6. ids \in [Packages -> Seq(Afids \cup {NoAfid})]
    <2>1. ids \in [Packages -> {<<>>} \cup UNION {[1..n -> Afids] : n \in 1..MaxTargets}]
      BY DEF AfidInit
    <2>2. QED
      BY <1>5, <2>1
  <1>7. AfidTypeOK
    BY <1>1, <1>2, <1>6 DEF AfidTypeOK
  <1>8. Serial /\ Recorded /\ Settled
    BY <1>1, <1>2 DEF Serial, Getting, Recorded, Settled
  <1>9. \A p \in Packages : Begun(p) /\ Progress(p)
    BY <1>1, <1>2, <1>4, <1>5 DEF Begun, Progress
  <1>10. AfidsDistinct
    BY DEF AfidInit, AfidsDistinct
  <1>11. QED
    BY <1>7, <1>8, <1>9, <1>10 DEF IInv

LEMMA NextInv ==
    ASSUME IInv, [AfidNext]_afidVars
    PROVE  IInv'
  <1>1. CASE UNCHANGED afidVars
    BY <1>1 DEF afidVars, IInv, AfidTypeOK, Serial, Getting, Recorded, Settled, Pending, Begun, Progress,
                AfidsDistinct, IdsOf
  <1>2. CASE AfidNext
    BY <1>2, StartInstallInv, InitManagerInv, InitSetDoneInv, UpdateClearInv, UpdateScanInv,
       FindFreeInv, SetLoadInv, SetStoreInv, NextTargetInv, WriteUnitsInv, RemoveInv DEF AfidNext
  <1>3. QED
    BY <1>1, <1>2

LEMMA Invariance == AfidSpec => []IInv
  <1>1. AfidInit => IInv
    BY InitInv
  <1>2. IInv /\ [AfidNext]_afidVars => IInv'
    BY NextInv
  <1>3. QED
    BY <1>1, <1>2, PTL DEF AfidSpec

\* No identifier is given twice before two threads were in get_new_afid at the same
\* time, a scan was made with an identifier in no unit file yet, or a scan failed:
\* whatever is installed, removed, refused and rescanned by overlapping installations,
\* for any number of targets and any size of the array and of its words
\* (get_new_afid, AFID_SET).
THEOREM UniqueCorrect == AfidSpec => []AfidsUnique
  <1>1. IInv => AfidsUnique
    BY DEF IInv, AfidsUnique
  <1>2. QED
    BY <1>1, Invariance, PTL

\* Before two threads were in it at the same time and before a scan failed,
\* get_new_afid fails only when its rescan has found all the identifiers in unit
\* files: those that removals and failed installations have left set are given again.
THEOREM ExhaustionCorrect == AfidSpec => []ExhaustedOnlyIfFull
  <1>1. IInv => ExhaustedOnlyIfFull
    BY DEF IInv, ExhaustedOnlyIfFull, Progress
  <1>2. QED
    BY <1>1, Invariance, PTL
=============================================================================
