--------------------------- MODULE ReceiveFraming ---------------------------
(***************************************************************************)
(* receive() of afmpkg-server.c: how the bytes of a connection are read    *)
(* into a fixed buffer and cut into the lines given to                     *)
(* afmpkg_request_add_line. The code's offsets start at 0; here byte i of  *)
(* the code is buffer[i + 1], "length" and "it" keep the values they have  *)
(* in the code.                                                            *)
(*                                                                         *)
(* A stream socket gives at each recv any non-empty part of what was sent. *)
(***************************************************************************)
EXTENDS Integers, Sequences, FiniteSets, Functions

CONSTANTS
    Letters,    \* the bytes of lines
    EOL,        \* the end of line
    BufSize,    \* size of the buffer
    MaxStream   \* bound: number of bytes the client sends

ASSUME BufSizeAssumption == BufSize \in Nat \ {0}
ASSUME MaxStreamAssumption == MaxStream \in Nat
ASSUME BytesAssumption ==
    EOL \notin Letters /\ {"zero", "uninitialised"} \cap (Letters \cup {EOL}) = {}

Bytes == Letters \cup {EOL}

VARIABLES
    stream,     \* the bytes sent by the client before it shuts down (never changes)
    pos,        \* how many of them recv has returned
    buffer,     \* the buffer, in the stack of receive
    length, it, \* the variables of receive
    recvs,      \* history: number of calls of recv that returned bytes
    place,      \* "recv": before recv; "scan": in the inner loop; "end", "refused"
    delivered   \* the lines given to afmpkg_request_add_line

framingVars == <<stream, pos, recvs, buffer, length, it, place, delivered>>

FramingInit ==
    /\ stream \in UNION {[1..n -> Bytes] : n \in 0..MaxStream}
    /\ pos = 0
    /\ recvs = 0
    /\ buffer = [i \in 1..BufSize |-> "uninitialised"]
    /\ length = 0
    /\ it = 0
    /\ place = "recv"
    /\ delivered = <<>>

----------------------------------------------------------------------------

Available == Len(stream) - pos
Room == BufSize - length

\* What recv may return when there is something to return.
RecvSizes ==
    1..(IF Available < Room THEN Available ELSE Room)

StoreMutant(n) == [i \in 1..BufSize |->
    IF i \in (length + 2)..(length + n + 1) THEN stream[pos + i - length - 1] ELSE buffer[i]]

\* recv writes behind what the buffer already holds.
Store(n) == [i \in 1..BufSize |->
    IF i \in (length + 1)..(length + n) THEN stream[pos + i - length] ELSE buffer[i]]

\* recv returned n > 0 bytes: they are written behind the first length bytes of
\* the buffer, and length becomes n.
Recv(n) ==
    /\ place = "recv"
    /\ Available > 0 /\ Room > 0
    /\ buffer' = Store(n)
    /\ pos' = pos + n
    /\ recvs' = recvs + 1
    /\ length' = n
    /\ it' = 0
    /\ place' = "scan"
    /\ UNCHANGED <<stream, delivered>>

\* recv returned 0: the client has shut down, or there is no room in the buffer.
RecvNothing ==
    /\ place = "recv"
    /\ Available = 0 \/ Room = 0
    /\ place' = "end"
    /\ UNCHANGED <<stream, pos, recvs, buffer, length, it, delivered>>

\* recv returned -1 (afmpkg_request_error records -2000).
RecvError ==
    /\ place = "recv"
    /\ place' = "refused"
    /\ UNCHANGED <<stream, pos, recvs, buffer, length, it, delivered>>

\* eol is the offset of the first end of line from the offset it.
FirstEol(eol) ==
    /\ buffer[eol + 1] = EOL
    /\ \A e \in it..(eol - 1) : buffer[e + 1] # EOL

ScanLineMutant(eol) ==
    /\ place = "scan" /\ it < length
    /\ FirstEol(eol)
    /\ it' = eol + 2
    /\ IF eol # it
       THEN /\ buffer' = [buffer EXCEPT ![eol + 1] = "zero"]
            /\ delivered' = Append(delivered, SubSeq(buffer, it + 1, eol))
            /\ place' \in {"scan", "refused"}
       ELSE UNCHANGED <<buffer, delivered, place>>
    /\ UNCHANGED <<stream, pos, recvs, length>>

\* One turn of the inner loop that finds an end of line: a line that is not empty
\* is given to afmpkg_request_add_line, which accepts or refuses it.
ScanLine(eol) ==
    /\ place = "scan" /\ it < length
    /\ FirstEol(eol)
    /\ it' = eol + 1
    /\ IF eol # it
       THEN /\ buffer' = [buffer EXCEPT ![eol + 1] = "zero"]
            /\ delivered' = Append(delivered, SubSeq(buffer, it + 1, eol))
            /\ place' \in {"scan", "refused"}
       ELSE UNCHANGED <<buffer, delivered, place>>
    /\ UNCHANGED <<stream, pos, recvs, length>>

ScanPartialMutant ==
    /\ place = "scan" /\ it < length
    /\ \A e \in it..(length - 1) : buffer[e + 1] # EOL
    /\ UNCHANGED framingVars

\* One turn of the inner loop that finds none: what remains is shifted to the
\* beginning of the buffer.
ScanPartial ==
    /\ place = "scan" /\ it < length
    /\ \A e \in it..(length - 1) : buffer[e + 1] # EOL
    /\ length' = length - it
    /\ buffer' = [i \in 1..BufSize |-> IF i <= length - it THEN buffer[i + it] ELSE buffer[i]]
    /\ it' = length - it
    /\ UNCHANGED <<stream, pos, recvs, place, delivered>>

\* The inner loop ends, back to recv.
ScanDone ==
    /\ place = "scan" /\ it >= length
    /\ place' = "recv"
    /\ UNCHANGED <<stream, pos, recvs, buffer, length, it, delivered>>

FramingNext ==
    \/ \E n \in RecvSizes : Recv(n)
    \/ RecvNothing
    \/ RecvError
    \/ \E eol \in it..(length - 1) : ScanLine(eol)
    \/ ScanPartial
    \/ ScanDone

FramingSpec == FramingInit /\ [][FramingNext]_framingVars

\* The thread is scheduled; the client has sent its bytes and shut down.
FramingFairSpec == FramingSpec /\ WF_framingVars(FramingNext)

----------------------------------------------------------------------------
(* The lines of a stream, stated on the whole stream. *)

LineStarts(s) ==
    {i \in DOMAIN s : /\ s[i] # EOL
                      /\ i = 1 \/ s[i - 1] = EOL
                      /\ \E j \in i..Len(s) : s[j] = EOL}

LineFrom(s, i) ==
    SubSeq(s, i, (CHOOSE j \in i..Len(s) : s[j] = EOL /\ \A k \in i..(j - 1) : s[k] # EOL) - 1)

\* The number of lines that start up to position i: for the start of a line, its
\* number.
LinesTo(s, i) == Cardinality({j \in LineStarts(s) : j <= i})

----------------------------------------------------------------------------
(* Properties. *)

\* The offsets of receive are in its buffer and in the stream.
FramingTypeOK ==
    /\ stream \in Seq(Bytes)
    /\ pos \in 0..Len(stream)
    /\ recvs \in Nat
    /\ buffer \in [1..BufSize -> Bytes \cup {"zero", "uninitialised"}]
    /\ length \in 0..BufSize
    /\ it \in 0..BufSize
    /\ place \in {"recv", "scan", "end", "refused"}

\* The offsets of receive stay in its buffer and every byte the inner loop looks at was
\* written by recv: however the stream is fragmented, the first length bytes of the
\* buffer are never uninitialised.
ReadsOnlyReceived ==
    /\ it \in 0..BufSize /\ length \in 0..BufSize
    /\ \A i \in 1..length : buffer[i] # "uninitialised"

\* afmpkg_request_add_line is given the non-empty lines of the stream, in order
\* and unaltered, and all of them when receive ends without error.
\* The code does not ensure it when recv returns the stream in several parts.
LinesDelivered ==
    /\ Len(delivered) <= LinesTo(stream, Len(stream))
    /\ \A i \in LineStarts(stream) :
          LinesTo(stream, i) <= Len(delivered) => delivered[LinesTo(stream, i)] = LineFrom(stream, i)
    /\ place = "end" /\ pos = Len(stream) => Len(delivered) = LinesTo(stream, Len(stream))

\* It does when a single recv returned bytes.  In any case no line is longer
\* than the buffer, none is empty, and none holds an end of line.
OneRecvDelivers ==
    /\ recvs <= 1 => LinesDelivered
    /\ \A k \in DOMAIN delivered :
          Len(delivered[k]) \in 1..(BufSize - 1) /\ EOL \notin Range(delivered[k])

\* receive ends when the client has shut down, however its bytes are fragmented
\* and wherever lines end in the buffer.
Terminates == <>(place \in {"end", "refused"})
=============================================================================
