------------------------ MODULE ReceiveFraming_proofs ------------------------
(***************************************************************************)
(* Memory safety of receive(), for any size of the buffer, any stream and  *)
(* any fragmentation, and what it delivers when one recv returns bytes.    *)
(***************************************************************************)
EXTENDS ReceiveFraming, FiniteSetTheorems, SequenceTheorems, TLAPS

\* In the inner loop "it" never passes the end of what was received.
IInv == FramingTypeOK /\ ReadsOnlyReceived /\ (place = "scan" => it <= length)

LEMMA InitIInv == FramingInit => IInv
  <1> SUFFICES ASSUME FramingInit  PROVE IInv
    OBVIOUS
  <1>1. PICK n \in 0..MaxStream : stream \in [1..n -> Bytes]
    BY DEF FramingInit
  <1>2. stream \in Seq(Bytes) /\ Len(stream) = n
    BY <1>1, MaxStreamAssumption
  <1>3. FramingTypeOK
    BY <1>2, BufSizeAssumption DEF FramingInit, FramingTypeOK
  <1>4. ReadsOnlyReceived
    BY BufSizeAssumption DEF FramingInit, ReadsOnlyReceived
  <1>5. QED
    BY <1>3, <1>4 DEF FramingInit, IInv

\* What recv may return fits in the buffer and is available.
LEMMA RecvSizesFit ==
    ASSUME FramingTypeOK, Available > 0, Room > 0, NEW n \in RecvSizes
    PROVE  n \in 1..BufSize /\ length + n <= BufSize /\ pos + n <= Len(stream)
  BY BufSizeAssumption DEF RecvSizes, Available, Room, FramingTypeOK

LEMMA NextIInv == IInv /\ [FramingNext]_framingVars => IInv'
  <1> SUFFICES ASSUME IInv, [FramingNext]_framingVars  PROVE IInv'
    OBVIOUS
  <1>1. CASE UNCHANGED framingVars
    BY <1>1 DEF framingVars, IInv, FramingTypeOK, ReadsOnlyReceived
  <1>2. ASSUME NEW n \in RecvSizes, Recv(n)  PROVE IInv'
    <2>1. n \in 1..BufSize /\ length + n <= BufSize /\ pos + n <= Len(stream)
      BY <1>2, RecvSizesFit DEF Recv, IInv
    <2>2. \A i \in (length + 1)..(length + n) : stream[pos + i - length] \in Bytes
      BY <2>1 DEF IInv, FramingTypeOK
    <2>3. FramingTypeOK'
      BY <1>2, <2>1, <2>2, BufSizeAssumption DEF Recv, Store, IInv, FramingTypeOK
    <2>4. \A i \in 1..(length + n) : Store(n)[i] # "uninitialised"
      BY <2>1, <2>2, BytesAssumption, BufSizeAssumption
         DEF Store, IInv, FramingTypeOK, ReadsOnlyReceived, Bytes
    <2>5. ReadsOnlyReceived'
      <3>1. it' \in 0..BufSize /\ length' \in 0..BufSize
        BY <2>3 DEF FramingTypeOK
      <3>2. \A i \in 1..length' : buffer'[i] # "uninitialised"
        BY <1>2, <2>1, <2>4 DEF Recv, IInv, FramingTypeOK
      <3>3. QED  BY <3>1, <3>2 DEF ReadsOnlyReceived
    <2>6. QED
      BY <1>2, <2>1, <2>3, <2>5 DEF Recv, IInv
  <1>3. CASE RecvNothing \/ RecvError \/ ScanDone
    BY <1>3 DEF RecvNothing, RecvError, ScanDone, IInv, FramingTypeOK, ReadsOnlyReceived
  <1>4. ASSUME NEW eol \in it..(length - 1), ScanLine(eol)  PROVE IInv'
    <2>1. eol \in 0..(BufSize - 1) /\ eol + 1 <= length
      BY BufSizeAssumption DEF IInv, FramingTypeOK
    <2>2. buffer' \in [1..BufSize -> Bytes \cup {"zero", "uninitialised"}]
      BY <1>4, <2>1 DEF ScanLine, IInv, FramingTypeOK
    <2>3. FramingTypeOK'
      <3>1. it' = eol + 1 /\ it' \in 0..BufSize
        BY <1>4, <2>1, BufSizeAssumption DEF ScanLine
      <3>2. QED
        BY <1>4, <2>2, <3>1 DEF ScanLine, IInv, FramingTypeOK
    <2>4. ReadsOnlyReceived'
      <3>1. length' = length /\ length <= BufSize
        BY <1>4, BufSizeAssumption DEF ScanLine, IInv, FramingTypeOK
      <3>2. \/ buffer' = [buffer EXCEPT ![eol + 1] = "zero"]
            \/ buffer' = buffer
        BY <1>4 DEF ScanLine
      <3>3. \A i \in 1..length : buffer'[i] = buffer[i] \/ buffer'[i] = "zero"
        BY <3>1, <3>2, BufSizeAssumption DEF IInv, FramingTypeOK
      <3>4. \A i \in 1..length : buffer[i] # "uninitialised"
        BY DEF IInv, ReadsOnlyReceived
      <3>5. QED
        BY <2>3, <3>1, <3>3, <3>4 DEF ReadsOnlyReceived, FramingTypeOK
    <2>5. QED
      BY <1>4, <2>1, <2>3, <2>4 DEF ScanLine, IInv
  <1>5. CASE ScanPartial
    <2>1. length - it \in 1..length /\ length <= BufSize
      BY <1>5 DEF ScanPartial, IInv, FramingTypeOK
    <2>2. \A i \in 1..(length - it) : i + it \in 1..length
      BY <2>1 DEF IInv, FramingTypeOK
    <2>3. FramingTypeOK'
      BY <1>5, <2>1, <2>2, BufSizeAssumption DEF ScanPartial, IInv, FramingTypeOK
    <2>4. ReadsOnlyReceived'
      <3>1. it' \in 0..BufSize /\ length' \in 0..BufSize
        BY <2>3 DEF FramingTypeOK
      <3>2. \A i \in 1..length' : buffer'[i] # "uninitialised"
        BY <1>5, <2>1, <2>2, BufSizeAssumption DEF ScanPartial, ReadsOnlyReceived, IInv, FramingTypeOK
      <3>3. QED  BY <3>1, <3>2 DEF ReadsOnlyReceived
    <2>5. QED
      BY <1>5, <2>1, <2>3, <2>4 DEF ScanPartial, IInv
  <1>6. QED
    BY <1>1, <1>2, <1>3, <1>4, <1>5 DEF FramingNext

\* The offsets of receive stay in the buffer and in the stream.
THEOREM TypeCorrect == FramingSpec => []FramingTypeOK
  <1>1. IInv => FramingTypeOK  BY DEF IInv
  <1>2. QED  BY <1>1, InitIInv, NextIInv, PTL DEF FramingSpec

\* receive stays in its buffer and never looks at a byte that recv did not write.
THEOREM ReadsCorrect == FramingSpec => []ReadsOnlyReceived
  <1>1. IInv => ReadsOnlyReceived  BY DEF IInv
  <1>2. QED  BY <1>1, InitIInv, NextIInv, PTL DEF FramingSpec

----------------------------------------------------------------------------
(* Counting the lines. *)

\* The starts of lines up to position x.
StartsTo(x) == {j \in LineStarts(stream) : j <= x}

LEMMA StartsFinite ==
    ASSUME FramingTypeOK, NEW x \in Int
    PROVE  /\ IsFiniteSet(StartsTo(x)) /\ LinesTo(stream, x) = Cardinality(StartsTo(x))
           /\ LinesTo(stream, x) \in Nat
  <1>1. StartsTo(x) \subseteq 1..Len(stream) /\ Len(stream) \in Nat
    BY DEF StartsTo, LineStarts, FramingTypeOK
  <1>2. IsFiniteSet(StartsTo(x))
    <2>1. IsFiniteSet(1..Len(stream))
      BY <1>1, FS_Interval
    <2>2. QED
      BY <1>1, <2>1, FS_Subset
  <1>3. LinesTo(stream, x) = Cardinality(StartsTo(x))
    BY DEF LinesTo, StartsTo
  <1>4. QED
    BY <1>2, <1>3, FS_CardinalityType

LEMMA LinesToMonotonic ==
    ASSUME FramingTypeOK, NEW x \in Int, NEW y \in Int, x <= y
    PROVE  LinesTo(stream, x) <= LinesTo(stream, y)
  <1>1. StartsTo(x) \subseteq StartsTo(y)
    BY DEF StartsTo, LineStarts, FramingTypeOK
  <1>2. QED
    BY <1>1, StartsFinite, FS_Subset

\* A start of line makes one more.
LEMMA LinesToMore ==
    ASSUME FramingTypeOK, NEW x \in Int, NEW i \in LineStarts(stream), x < i
    PROVE  LinesTo(stream, x) < LinesTo(stream, i)
  <1>1. i \in Int /\ i \in StartsTo(i) /\ i \notin StartsTo(x)
    BY DEF StartsTo, LineStarts, FramingTypeOK
  <1>2. StartsTo(x) \subseteq StartsTo(i)
    BY <1>1 DEF StartsTo, LineStarts, FramingTypeOK
  <1>3. StartsTo(x) # StartsTo(i)
    BY <1>1
  <1>4. Cardinality(StartsTo(x)) <= Cardinality(StartsTo(i)) /\ Cardinality(StartsTo(x)) # Cardinality(StartsTo(i))
    BY <1>1, <1>2, <1>3, StartsFinite, FS_Subset
  <1>5. QED
    BY <1>1, <1>4, StartsFinite

\* No start of line from x + 1 to y.
LEMMA LinesToSame ==
    ASSUME FramingTypeOK, NEW x \in Int, NEW y \in Int, x <= y, \A j \in x + 1 .. y : j \notin LineStarts(stream)
    PROVE  LinesTo(stream, y) = LinesTo(stream, x)
  <1>1. StartsTo(y) = StartsTo(x)
    <2>1. \A j : j \in LineStarts(stream) => j \in Int
      BY DEF LineStarts, FramingTypeOK
    <2>2. QED
      BY <2>1 DEF StartsTo
  <1>2. QED
    BY <1>1, StartsFinite

\* One start of line from x + 1 to y, at x + 1.
LEMMA LinesToNext ==
    ASSUME FramingTypeOK, NEW x \in Int, NEW y \in Int, x < y, x + 1 \in LineStarts(stream),
           \A j \in x + 2 .. y : j \notin LineStarts(stream)
    PROVE  /\ LinesTo(stream, x + 1) = LinesTo(stream, x) + 1
           /\ LinesTo(stream, y) = LinesTo(stream, x) + 1
  <1>1. StartsTo(x + 1) = StartsTo(x) \cup {x + 1} /\ x + 1 \notin StartsTo(x)
    <2>1. \A j : j \in LineStarts(stream) => j \in Int
      BY DEF LineStarts, FramingTypeOK
    <2>2. QED
      BY <2>1 DEF StartsTo
  <1>2. LinesTo(stream, x + 1) = LinesTo(stream, x) + 1
    BY <1>1, StartsFinite, FS_AddElement
  <1>3. LinesTo(stream, y) = LinesTo(stream, x + 1)
    <2>1. x + 1 \in Int /\ x + 1 <= y /\ (x + 1) + 1 = x + 2
      OBVIOUS
    <2>2. QED
      BY <2>1, LinesToSame
  <1>4. QED
    BY <1>2, <1>3

\* The line that starts at i and ends before position j.
LEMMA LineFromIs ==
    ASSUME FramingTypeOK, NEW i \in 1..Len(stream), NEW j \in i..Len(stream), stream[j] = EOL,
           \A k \in i..(j - 1) : stream[k] # EOL
    PROVE  LineFrom(stream, i) = SubSeq(stream, i, j - 1)
  <1> DEFINE First(e) == stream[e] = EOL /\ \A k \in i..(e - 1) : stream[k] # EOL
             e0 == CHOOSE e \in i..Len(stream) : First(e)
  <1>1. First(j)
    OBVIOUS
  <1>2. e0 \in i..Len(stream) /\ First(e0)
    <2> HIDE DEF First
    <2>1. QED
      BY <1>1
  <1>3. LineFrom(stream, i) = SubSeq(stream, i, e0 - 1)
    BY DEF LineFrom
  <1> HIDE DEF e0
  <1>4. Len(stream) \in Nat
    BY DEF FramingTypeOK
  <1>5. e0 = j
    <2>1. e0 \in Int /\ j \in Int /\ i \in Int
      BY <1>2, <1>4
    <2>2. ~(e0 < j)
      BY <1>2, <2>1
    <2>3. ~(j < e0)
      BY <1>2, <2>1
    <2>4. QED
      BY <2>1, <2>2, <2>3
  <1>6. QED
    BY <1>3, <1>5

----------------------------------------------------------------------------
(* What one recv delivers. *)

AnyByte == Bytes \cup {"zero", "uninitialised"}

\* No line is longer than the buffer, is empty or holds an end of line.
IsLine(line) == Len(line) \in 1..(BufSize - 1) /\ EOL \notin Range(line)

LinesSound == delivered \in Seq(Seq(AnyByte)) /\ \A k \in DOMAIN delivered : IsLine(delivered[k])

\* The lines delivered are those of the first x bytes of the stream, which end with a line.
DeliveredTo(x) ==
    /\ x = 0 \/ stream[x] = EOL
    /\ Len(delivered) = LinesTo(stream, x)
    /\ \A i \in LineStarts(stream) : i <= x => delivered[LinesTo(stream, i)] = LineFrom(stream, i)

\* The first recv: in the inner loop the bytes to look at are those of the stream; after
\* it no whole line is left.
FirstRecv ==
    \E x \in 0..pos :
        /\ DeliveredTo(x)
        /\ place = "scan" /\ it < length =>
              x = it /\ length = pos /\ \A i \in it + 1 .. length : buffer[i] = stream[i]
        /\ place # "refused" /\ ~(place = "scan" /\ it < length) => \A i \in x + 1 .. pos : stream[i] # EOL

NoRecv == pos = 0 /\ length = 0 /\ delivered = <<>> /\ place # "scan"

LinesInv == LinesSound /\ (recvs = 0 => NoRecv) /\ (recvs = 1 => FirstRecv)

\* A turn of the inner loop that finds an end of line.
LEMMA SoundLine ==
    ASSUME IInv, LinesSound, NEW eol \in it..(length - 1), ScanLine(eol)
    PROVE  LinesSound'
  <1>1. CASE eol = it
    BY <1>1 DEF ScanLine, LinesSound
  <1>2. CASE eol # it
    <2> DEFINE line == SubSeq(buffer, it + 1, eol)
    <2>1. delivered' = Append(delivered, line)
      BY <1>2 DEF ScanLine
    <2>2. /\ it \in Nat /\ eol \in Nat /\ it < eol /\ eol <= BufSize - 1 /\ BufSize \in Nat
          /\ \A i \in it + 1 .. eol : buffer[i] \in AnyByte
          /\ \A i \in it + 1 .. eol : buffer[i] # EOL
      <3>1. it \in Nat /\ eol \in Nat /\ it < eol /\ eol <= BufSize - 1 /\ BufSize \in Nat
        BY <1>2, BufSizeAssumption DEF IInv, FramingTypeOK
      <3>2. \A i \in it + 1 .. eol : buffer[i] \in AnyByte
        BY <3>1 DEF IInv, FramingTypeOK, AnyByte
      <3>3. ASSUME NEW i \in it + 1 .. eol  PROVE buffer[i] # EOL
        <4>1. i - 1 \in it..(eol - 1) /\ (i - 1) + 1 = i
          BY <3>1
        <4>2. QED
          BY <4>1 DEF ScanLine, FirstEol
      <3>4. QED
        BY <3>1, <3>2, <3>3
    <2>3. /\ line \in Seq(AnyByte) /\ Len(line) = eol - it
          /\ \A k \in 1..eol - it : line[k] = buffer[it + k]
      <3>1. /\ SubSeq(buffer, it + 1, eol) \in Seq(AnyByte)
            /\ Len(SubSeq(buffer, it + 1, eol)) = IF it + 1 <= eol THEN eol - (it + 1) + 1 ELSE 0
            /\ \A k \in 1..eol - (it + 1) + 1 : SubSeq(buffer, it + 1, eol)[k] = buffer[it + 1 + k - 1]
        <4>1. it + 1 \in Int /\ eol \in Int
          BY <2>2
        <4>2. QED
          BY <2>2, <4>1, SubSeqProperties
      <3> HIDE DEF line
      <3>2. /\ line \in Seq(AnyByte)
            /\ Len(line) = IF it + 1 <= eol THEN eol - (it + 1) + 1 ELSE 0
            /\ \A k \in 1..eol - (it + 1) + 1 : line[k] = buffer[it + 1 + k - 1]
        BY <3>1 DEF line
      <3>3. QED
        BY <2>2, <3>2
    <2> HIDE DEF line
    <2>4. IsLine(line)
      <3>1. \A k \in 1..Len(line) : line[k] # EOL
        <4>1. \A k \in 1..eol - it : it + k \in it + 1 .. eol
          BY <2>2
        <4>2. QED
          BY <2>2, <2>3, <4>1
      <3>2. EOL \notin Range(line)
        BY <2>3, <3>1 DEF Range
      <3>3. QED
        BY <2>2, <2>3, <3>2 DEF IsLine
    <2>5. /\ delivered' \in Seq(Seq(AnyByte)) /\ Len(delivered') = Len(delivered) + 1
          /\ \A k \in 1..Len(delivered) : delivered'[k] = delivered[k]
          /\ delivered'[Len(delivered) + 1] = line
      BY <2>1, <2>3 DEF LinesSound
    <2>6. \A k \in 1..Len(delivered) : IsLine(delivered[k])
      BY DEF LinesSound
    <2>7. ASSUME NEW k \in 1..Len(delivered) + 1  PROVE IsLine(delivered'[k])
      <3>1. Len(delivered) \in Nat
        BY DEF LinesSound
      <3>2. k \in 1..Len(delivered) \/ k = Len(delivered) + 1
        BY <3>1, <2>7
      <3>3. QED
        BY <2>4, <2>5, <2>6, <3>2
    <2>8. DOMAIN delivered' = 1..Len(delivered) + 1
      BY <2>5
    <2>9. QED
      BY <2>5, <2>7, <2>8, Zenon DEF LinesSound, IsLine
  <1>3. QED
    BY <1>1, <1>2

LEMMA FirstLine ==
    ASSUME IInv, LinesSound, FirstRecv, NEW eol \in it..(length - 1), ScanLine(eol)
    PROVE  FirstRecv'
  <1>0. FramingTypeOK
    BY DEF IInv
  <1>1. place = "scan" /\ it < length /\ it' = eol + 1 /\ UNCHANGED <<stream, pos, length>>
    BY DEF ScanLine
  <1>2. PICK x \in 0..pos :
           DeliveredTo(x) /\ x = it /\ length = pos /\ \A i \in it + 1 .. length : buffer[i] = stream[i]
    BY <1>1 DEF FirstRecv
  <1>3. /\ it \in Nat /\ eol \in Nat /\ it <= eol /\ eol + 1 <= pos /\ pos \in Nat /\ pos <= Len(stream)
        /\ Len(stream) \in Nat /\ stream \in Seq(Bytes) /\ eol \in Int /\ length <= BufSize /\ BufSize \in Nat
    BY <1>0, <1>2, BufSizeAssumption DEF FramingTypeOK
  <1>4. stream[eol + 1] = EOL
    <2>1. eol + 1 \in it + 1 .. length
      BY <1>2, <1>3
    <2>2. QED
      BY <1>2, <2>1 DEF ScanLine, FirstEol
  <1>5. \A i \in it + 1 .. eol : stream[i] # EOL /\ buffer[i] = stream[i]
    <2>1. SUFFICES ASSUME NEW i \in it + 1 .. eol  PROVE stream[i] # EOL /\ buffer[i] = stream[i]
      OBVIOUS
    <2>2. i - 1 \in it..(eol - 1) /\ (i - 1) + 1 = i /\ i \in it + 1 .. length
      BY <1>2, <1>3
    <2>3. QED
      BY <1>2, <2>2 DEF ScanLine, FirstEol
  <1>6. ASSUME DeliveredTo(eol + 1)'  PROVE FirstRecv'
    <2>1. place' \in {"scan", "refused"}
      BY <1>1 DEF ScanLine
    <2>2. \A i \in eol + 2 .. length : buffer'[i] = buffer[i]
      <3>1. buffer' = buffer \/ buffer' = [buffer EXCEPT ![eol + 1] = "zero"]
        BY DEF ScanLine
      <3>2. QED
        BY <1>0, <1>3, <3>1 DEF FramingTypeOK
    <2>3. \A i \in it' + 1 .. length' : buffer'[i] = stream'[i]
      <3>1. \A i \in eol + 2 .. length : i \in it + 1 .. length
        BY <1>2, <1>3
      <3>2. it' + 1 = eol + 2
        BY <1>1, <1>3
      <3>3. QED
        BY <1>1, <1>2, <2>2, <3>1, <3>2
    <2>4. ~(it' < length') => \A i \in eol + 1 + 1 .. pos' : stream'[i] # EOL
      BY <1>1, <1>2, <1>3
    <2>5. eol + 1 \in 0..pos'
      BY <1>1, <1>3
    <2>6. QED
      BY <1>1, <1>2, <1>6, <2>1, <2>3, <2>4, <2>5 DEF FirstRecv
  <1>7. DeliveredTo(it)
    BY <1>2
  <1>8. CASE eol = it
    <2>1. \A j \in it + 1 .. eol + 1 : j \notin LineStarts(stream)
      BY <1>3, <1>4, <1>8 DEF LineStarts
    <2>2. LinesTo(stream, eol + 1) = LinesTo(stream, it)
      <3>1. it \in Int /\ eol + 1 \in Int /\ it <= eol + 1
        BY <1>3
      <3>2. QED
        BY <1>0, <2>1, <3>1, LinesToSame
    <2>3. delivered' = delivered
      BY <1>8 DEF ScanLine
    <2>4. \A i \in LineStarts(stream) : i <= eol + 1 => i <= it
      <3>1. \A i \in LineStarts(stream) : i \in Int
        BY <1>3 DEF LineStarts
      <3>2. QED
        BY <1>3, <2>1, <3>1
    <2>5. DeliveredTo(eol + 1)'
      BY <1>1, <1>4, <1>7, <2>2, <2>3, <2>4 DEF DeliveredTo
    <2>6. QED
      BY <1>6, <2>5
  <1>9. CASE eol # it
    <2> DEFINE line == SubSeq(buffer, it + 1, eol)
               last == LinesTo(stream, it) + 1
    <2>0. it < eol /\ it + 1 \in 1..Len(stream) /\ it \in Int /\ eol + 1 \in Int /\ it < eol + 1
      BY <1>3, <1>9
    <2>1. it + 1 \in LineStarts(stream)
      <3>1. stream[it + 1] # EOL
        BY <1>3, <1>5, <2>0
      <3>2. it + 1 = 1 \/ stream[it + 1 - 1] = EOL
        BY <1>3, <1>7 DEF DeliveredTo
      <3>3. eol + 1 \in it + 1 .. Len(stream)
        BY <1>3
      <3>4. QED
        BY <1>3, <1>4, <2>0, <3>1, <3>2, <3>3 DEF LineStarts
    <2>2. \A j \in it + 2 .. eol + 1 : j \notin LineStarts(stream)
      <3>1. SUFFICES ASSUME NEW j \in it + 2 .. eol + 1, j \in LineStarts(stream)  PROVE FALSE
        OBVIOUS
      <3>2. j \in Int /\ j # 1 /\ j - 1 \in it + 1 .. eol
        BY <1>3
      <3>3. stream[j - 1] # EOL
        BY <1>5, <3>2
      <3>4. QED
        BY <3>1, <3>2, <3>3 DEF LineStarts
    <2>3. LinesTo(stream, it + 1) = last /\ LinesTo(stream, eol + 1) = last
      BY <1>0, <2>0, <2>1, <2>2, LinesToNext
    <2>4. LineFrom(stream, it + 1) = line
      <3>1. LineFrom(stream, it + 1) = SubSeq(stream, it + 1, eol)
        <4>1. eol + 1 \in it + 1 .. Len(stream) /\ (eol + 1) - 1 = eol
          BY <1>3
        <4>2. QED
          BY <1>0, <1>4, <1>5, <2>0, <4>1, LineFromIs
      <3>2. SubSeq(stream, it + 1, eol) = SubSeq(buffer, it + 1, eol)
        <4>1. \A k \in 1 .. eol - it : it + k \in it + 1 .. eol
          BY <1>3
        <4>2. \A i \in it + 1 .. eol : stream[i] \in AnyByte /\ buffer[i] \in AnyByte
          BY <1>0, <1>3, <1>5 DEF FramingTypeOK, AnyByte
        <4>3. /\ SubSeq(stream, it + 1, eol) \in Seq(AnyByte) /\ SubSeq(buffer, it + 1, eol) \in Seq(AnyByte)
              /\ Len(SubSeq(stream, it + 1, eol)) = eol - it /\ Len(SubSeq(buffer, it + 1, eol)) = eol - it
              /\ \A k \in 1 .. eol - it : /\ SubSeq(stream, it + 1, eol)[k] = stream[it + k]
                                          /\ SubSeq(buffer, it + 1, eol)[k] = buffer[it + k]
          <5>1. it + 1 \in Int /\ it + 1 <= eol /\ eol - (it + 1) + 1 = eol - it
            BY <1>3, <2>0
          <5>2. /\ SubSeq(stream, it + 1, eol) \in Seq(AnyByte)
                /\ Len(SubSeq(stream, it + 1, eol)) = IF it + 1 <= eol THEN eol - (it + 1) + 1 ELSE 0
                /\ \A k \in 1 .. eol - (it + 1) + 1 : SubSeq(stream, it + 1, eol)[k] = stream[it + 1 + k - 1]
            BY <1>3, <4>2, <5>1, SubSeqProperties
          <5>3. /\ SubSeq(buffer, it + 1, eol) \in Seq(AnyByte)
                /\ Len(SubSeq(buffer, it + 1, eol)) = IF it + 1 <= eol THEN eol - (it + 1) + 1 ELSE 0
                /\ \A k \in 1 .. eol - (it + 1) + 1 : SubSeq(buffer, it + 1, eol)[k] = buffer[it + 1 + k - 1]
            BY <1>3, <4>2, <5>1, SubSeqProperties
          <5>4. \A k \in 1 .. eol - it : it + 1 + k - 1 = it + k
            BY <1>3
          <5>5. QED
            BY <5>1, <5>2, <5>3, <5>4
        <4> DEFINE a == SubSeq(stream, it + 1, eol)
                   b == SubSeq(buffer, it + 1, eol)
        <4>4. a \in Seq(AnyByte) /\ b \in Seq(AnyByte) /\ Len(a) = Len(b) /\ \A k \in 1..Len(a) : a[k] = b[k]
          BY <1>5, <4>1, <4>3
        <4> HIDE DEF a, b
        <4>5. a = b
          BY <4>4, SeqEqual
        <4>6. QED
          BY <4>5 DEF a, b
      <3>3. QED
        BY <3>1, <3>2
    <2>5. delivered' = Append(delivered, line)
      BY <1>9 DEF ScanLine
    <2>6. line \in Seq(AnyByte)
      <3>1. \A i \in it + 1 .. eol : buffer[i] \in AnyByte
        BY <1>0, <1>3 DEF FramingTypeOK, AnyByte
      <3>2. it + 1 \in Int
        BY <1>3
      <3>3. QED
        BY <1>3, <3>1, <3>2, SubSeqProperties
    <2> HIDE DEF line
    <2>7. Len(delivered) = LinesTo(stream, it) /\ delivered \in Seq(Seq(AnyByte)) /\ LinesTo(stream, it) \in Nat
      BY <1>0, <1>7, <2>0, StartsFinite DEF DeliveredTo, LinesSound
    <2>8. /\ Len(delivered') = last /\ delivered'[last] = line
          /\ \A k \in 1..LinesTo(stream, it) : delivered'[k] = delivered[k]
      BY <2>5, <2>6, <2>7
    <2>9. ASSUME NEW i \in LineStarts(stream), i <= eol + 1
          PROVE  delivered'[LinesTo(stream, i)] = LineFrom(stream, i)
      <3>1. i \in Int
        BY <1>3 DEF LineStarts
      <3>2. CASE i <= it
        <4>1. 0 < LinesTo(stream, i) /\ LinesTo(stream, i) <= LinesTo(stream, it) /\ LinesTo(stream, i) \in Nat
          <5>1. 0 <= LinesTo(stream, 0) /\ LinesTo(stream, 0) < LinesTo(stream, i)
            <6>1. 0 \in Int /\ 0 < i
              BY <1>3 DEF LineStarts
            <6>2. LinesTo(stream, 0) \in Nat
              BY <1>0, <6>1, StartsFinite
            <6>3. LinesTo(stream, 0) < LinesTo(stream, i)
              BY <1>0, <6>1, LinesToMore
            <6>4. QED
              BY <6>2, <6>3
          <5>2. LinesTo(stream, i) \in Nat /\ LinesTo(stream, 0) \in Nat
            BY <1>0, <3>1, StartsFinite
          <5>3. LinesTo(stream, i) <= LinesTo(stream, it)
            BY <1>0, <2>0, <3>1, <3>2, LinesToMonotonic
          <5>4. QED
            BY <5>1, <5>2, <5>3
        <4>2. delivered'[LinesTo(stream, i)] = delivered[LinesTo(stream, i)]
          BY <2>7, <2>8, <4>1
        <4>3. QED
          BY <1>7, <2>9, <3>2, <4>2 DEF DeliveredTo
      <3>3. CASE i > it
        <4>1. i = it + 1
          BY <1>3, <2>2, <2>9, <3>1, <3>3
        <4>2. QED
          BY <2>3, <2>4, <2>8, <4>1
      <3>4. QED
        BY <1>3, <3>1, <3>2, <3>3
    <2>10. DeliveredTo(eol + 1)'
      BY <1>1, <1>4, <2>3, <2>8, <2>9 DEF DeliveredTo
    <2>11. QED
      BY <1>6, <2>10
  <1>10. QED
    BY <1>8, <1>9

\* No line starts before the first byte.
LEMMA NoLineYet ==
    ASSUME FramingTypeOK
    PROVE  LinesTo(stream, 0) = 0
  <1>1. StartsTo(0) = {}
    BY DEF StartsTo, LineStarts, FramingTypeOK
  <1>2. QED
    BY <1>1, StartsFinite, FS_EmptySet

LEMMA InitLines == FramingInit => LinesInv
  BY DEF FramingInit, LinesInv, LinesSound, NoRecv

\* The steps that give no line change neither the lines nor the bytes they come from.
LEMMA KeepDelivered ==
    ASSUME UNCHANGED <<stream, delivered>>, NEW x, DeliveredTo(x)
    PROVE  DeliveredTo(x)'
  BY DEF DeliveredTo

LEMMA NextLines == IInv /\ LinesInv /\ [FramingNext]_framingVars => LinesInv'
  <1> SUFFICES ASSUME IInv, LinesInv, [FramingNext]_framingVars  PROVE LinesInv'
    OBVIOUS
  <1>0. FramingTypeOK
    BY DEF IInv
  <1>1. CASE UNCHANGED framingVars
    BY <1>1 DEF framingVars, LinesInv, LinesSound, NoRecv, FirstRecv, DeliveredTo
  <1>2. ASSUME NEW n \in RecvSizes, Recv(n)  PROVE LinesInv'
    <2>1. n \in 1..BufSize /\ pos + n <= Len(stream) /\ pos \in Nat /\ length \in Nat /\ recvs \in Nat
          /\ BufSize \in Nat
      BY <1>0, <1>2, RecvSizesFit, BufSizeAssumption DEF Recv, FramingTypeOK
    <2>2. LinesSound' /\ recvs' # 0
      BY <1>2, <2>1 DEF Recv, LinesInv, LinesSound
    <2>3. ASSUME recvs = 0  PROVE FirstRecv'
      <3>1. pos = 0 /\ length = 0 /\ delivered = <<>>
        BY <2>3 DEF LinesInv, NoRecv
      <3>2. pos' = n /\ length' = n /\ it' = 0 /\ stream' = stream /\ place' = "scan" /\ delivered' = delivered
        BY <1>2, <2>1, <3>1 DEF Recv
      <3>3. \A i \in 1..n : buffer'[i] = stream[i]
        BY <1>2, <2>1, <3>1 DEF Recv, Store
      <3>4. DeliveredTo(0)
        <4>1. \A i \in LineStarts(stream) : ~(i <= 0)
          BY <1>0 DEF LineStarts, FramingTypeOK
        <4>2. QED
          BY <1>0, <3>1, <4>1, NoLineYet DEF DeliveredTo
      <3>5. DeliveredTo(0)'
        BY <3>2, <3>4, KeepDelivered
      <3>6. 0 \in 0..pos' /\ \A i \in it' + 1 .. length' : buffer'[i] = stream'[i]
        BY <2>1, <3>2, <3>3
      <3>7. it' < length'
        BY <2>1, <3>2
      <3>8. QED
        BY <3>2, <3>5, <3>6, <3>7 DEF FirstRecv
    <2>4. recvs' = 1 => recvs = 0
      BY <1>2, <2>1 DEF Recv
    <2>5. QED
      BY <2>2, <2>3, <2>4 DEF LinesInv
  <1>3. CASE RecvNothing \/ RecvError \/ ScanDone
    <2>1. /\ UNCHANGED <<stream, pos, recvs, length, it, delivered>> /\ place' # "scan"
          /\ place # "refused" /\ ~(place = "scan" /\ it < length)
      BY <1>0, <1>3 DEF RecvNothing, RecvError, ScanDone, FramingTypeOK
    <2>2. LinesSound' /\ (recvs' = 0 => NoRecv')
      BY <2>1 DEF LinesInv, LinesSound, NoRecv
    <2>3. ASSUME recvs = 1  PROVE FirstRecv'
      <3>1. PICK x \in 0..pos : DeliveredTo(x) /\ \A i \in x + 1 .. pos : stream[i] # EOL
        BY <2>1, <2>3 DEF LinesInv, FirstRecv
      <3>2. DeliveredTo(x)'
        BY <2>1, <3>1, KeepDelivered
      <3>3. QED
        BY <2>1, <3>1, <3>2 DEF FirstRecv
    <2>4. QED
      BY <2>1, <2>2, <2>3 DEF LinesInv
  <1>4. ASSUME NEW eol \in it..(length - 1), ScanLine(eol)  PROVE LinesInv'
    <2>1. LinesSound'
      BY <1>4, SoundLine DEF LinesInv
    <2>2. recvs' = recvs /\ place = "scan"
      BY <1>4 DEF ScanLine
    <2>3. recvs = 1 => FirstRecv'
      BY <1>4, FirstLine DEF LinesInv
    <2>4. QED
      BY <2>1, <2>2, <2>3 DEF LinesInv, NoRecv
  <1>5. CASE ScanPartial
    <2>1. /\ UNCHANGED <<stream, pos, recvs, place, delivered>> /\ place = "scan" /\ it < length
          /\ it' = length'
      BY <1>5 DEF ScanPartial
    <2>2. LinesSound'
      BY <2>1 DEF LinesInv, LinesSound
    <2>3. ASSUME recvs = 1  PROVE FirstRecv'
      <3>1. PICK x \in 0..pos :
               DeliveredTo(x) /\ x = it /\ length = pos /\ \A i \in it + 1 .. length : buffer[i] = stream[i]
        BY <2>1, <2>3 DEF LinesInv, FirstRecv
      <3>2. \A i \in x + 1 .. pos : stream[i] # EOL
        <4>1. SUFFICES ASSUME NEW i \in it + 1 .. length  PROVE buffer[i] # EOL
          BY <3>1
        <4>2. i - 1 \in it..(length - 1) /\ (i - 1) + 1 = i
          BY <1>0 DEF FramingTypeOK
        <4>3. QED
          BY <1>5, <4>2 DEF ScanPartial
      <3>3. DeliveredTo(x)'
        BY <2>1, <3>1, KeepDelivered
      <3>4. ~(it' < length')
        <4>1. length' \in Int
          BY <1>0, <1>5 DEF ScanPartial, FramingTypeOK
        <4>2. QED
          BY <2>1, <4>1
      <3>5. QED
        BY <2>1, <3>1, <3>2, <3>3, <3>4 DEF FirstRecv
    <2>4. QED
      BY <2>1, <2>2, <2>3 DEF LinesInv, NoRecv
  <1>6. QED
    BY <1>1, <1>2, <1>3, <1>4, <1>5 DEF FramingNext

\* Delivering the lines of the first x bytes is delivering the first lines of the stream.
LEMMA DeliveredFirst ==
    ASSUME FramingTypeOK, NEW x \in 0..Len(stream), DeliveredTo(x),
           place = "end" /\ pos = Len(stream) => \A i \in x + 1 .. Len(stream) : stream[i] # EOL
    PROVE  LinesDelivered
  <1>1. x \in Int /\ Len(stream) \in Int /\ x <= Len(stream)
    BY DEF FramingTypeOK
  <1>2. Len(delivered) = LinesTo(stream, x)
    BY DEF DeliveredTo
  <1>3. Len(delivered) <= LinesTo(stream, Len(stream))
    BY <1>1, <1>2, LinesToMonotonic
  <1>4. ASSUME NEW i \in LineStarts(stream), LinesTo(stream, i) <= Len(delivered)
        PROVE  delivered[LinesTo(stream, i)] = LineFrom(stream, i)
    <2>1. i \in Int /\ LinesTo(stream, i) \in Int /\ LinesTo(stream, x) \in Int
      <3>1. i \in Int
        BY DEF LineStarts, FramingTypeOK
      <3>2. QED
        BY <1>1, <3>1, StartsFinite
    <2>2. i <= x
      <3>1. x < i => LinesTo(stream, x) < LinesTo(stream, i)
        BY <1>1, LinesToMore
      <3>2. QED
        BY <1>1, <1>2, <1>4, <2>1, <3>1
    <2>3. QED
      BY <2>2 DEF DeliveredTo
  <1>5. ASSUME place = "end", pos = Len(stream)  PROVE Len(delivered) = LinesTo(stream, Len(stream))
    <2>1. \A j \in x + 1 .. Len(stream) : j \notin LineStarts(stream)
      <3>1. SUFFICES ASSUME NEW j \in x + 1 .. Len(stream), j \in LineStarts(stream)  PROVE FALSE
        OBVIOUS
      <3>2. PICK e \in j..Len(stream) : stream[e] = EOL
        BY <3>1 DEF LineStarts
      <3>3. e \in x + 1 .. Len(stream)
        BY <1>1, <3>2
      <3>4. QED
        BY <1>5, <3>2, <3>3
    <2>2. QED
      BY <1>1, <1>2, <2>1, LinesToSame
  <1>6. QED
    BY <1>3, <1>4, <1>5 DEF LinesDelivered

LEMMA LinesInvDelivers == IInv /\ LinesInv => OneRecvDelivers
  <1> SUFFICES ASSUME IInv, LinesInv  PROVE OneRecvDelivers
    OBVIOUS
  <1>0. FramingTypeOK
    BY DEF IInv
  <1>1. ASSUME recvs = 1  PROVE LinesDelivered
    <2>1. PICK x \in 0..pos :
             /\ DeliveredTo(x)
             /\ place # "refused" /\ ~(place = "scan" /\ it < length) => \A i \in x + 1 .. pos : stream[i] # EOL
      BY <1>1 DEF LinesInv, FirstRecv
    <2>2. x \in 0..Len(stream)
      BY <1>0 DEF FramingTypeOK
    <2>3. QED
      BY <1>0, <2>1, <2>2, DeliveredFirst
  <1>2. ASSUME recvs = 0  PROVE LinesDelivered
    <2>1. pos = 0 /\ delivered = <<>> /\ 0 \in 0..Len(stream) /\ Len(stream) \in Nat
      BY <1>0, <1>2 DEF LinesInv, NoRecv, FramingTypeOK
    <2>2. DeliveredTo(0)
      <3>1. \A i \in LineStarts(stream) : ~(i <= 0)
        BY <1>0 DEF LineStarts, FramingTypeOK
      <3>2. QED
        BY <1>0, <2>1, <3>1, NoLineYet DEF DeliveredTo
    <2>3. pos = Len(stream) => \A i \in 0 + 1 .. Len(stream) : stream[i] # EOL
      BY <2>1
    <2>4. QED
      BY <1>0, <2>1, <2>2, <2>3, DeliveredFirst
  <1>3. recvs <= 1 => recvs = 0 \/ recvs = 1
    BY <1>0 DEF FramingTypeOK
  <1>4. \A k \in DOMAIN delivered :
           Len(delivered[k]) \in 1..(BufSize - 1) /\ EOL \notin Range(delivered[k])
    BY DEF LinesInv, LinesSound, IsLine
  <1>5. QED
    BY <1>1, <1>2, <1>3, <1>4 DEF OneRecvDelivers

\* When one recv returns bytes, receive gives afmpkg_request_add_line the lines of the stream,
\* in order, unaltered and, at the end, all of them; however the stream is fragmented no line it
\* gives is empty, holds an end of line or is longer than the buffer.
THEOREM OneRecvCorrect == FramingSpec => []OneRecvDelivers
  <1>1. FramingInit => IInv /\ LinesInv
    BY InitIInv, InitLines
  <1>2. IInv /\ LinesInv /\ [FramingNext]_framingVars => (IInv /\ LinesInv)'
    BY NextIInv, NextLines
  <1>3. QED
    BY <1>1, <1>2, LinesInvDelivers, PTL DEF FramingSpec
==============================================================================
