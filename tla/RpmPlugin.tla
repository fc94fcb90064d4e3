----------------------------- MODULE RpmPlugin -----------------------------
(***************************************************************************)
(* The plugin of rpm, redpesk.c, and the client library it calls,          *)
(* afmpkg-client.c.                                                        *)
(*                                                                         *)
(* rpm calls tsm_pre before a transaction set is applied and tsm_post      *)
(* after, one call at a time.  The plugin records the packages of the set, *)
(* numbers them and sends one request for each: the removals in tsm_pre,   *)
(* the additions in tsm_post.  It waits for the answer of the daemon but   *)
(* never fails.                                                            *)
(*                                                                         *)
(* The list of records is last in first out: among the records of a set,   *)
(* the one of the greatest position in the set is visited first.  A        *)
(* message is the sequence of its lines, and the length of a line is one.  *)
(***************************************************************************)
EXTENDS Integers, Sequences, SequencesExt, FiniteSets, FiniteSetsExt

CONSTANTS
    Sets,           \* transaction sets
    Elements,       \* per set, its elements: their type and number of files
    Buffer0,        \* AFMPKG_CLIENT_BUFFER0_SIZE, in lines
    FlagChoices,    \* the flags that the sets can have
    Transid,        \* is AFMPKG_TRANSID set in the environment?
    MaxFaults,      \* bound: number of failures of the system
    None            \* no call in progress, no message

Types == {"removed", "added", "other"}
Flags == {"test", "nopreun", "nopost"}

\* The lines of a message: a key, a value and a number.
Keys == {"BEGIN", "PACKAGE", "INDEX", "COUNT", "ROOT", "TRANSID", "FILE", "END", ""}
Values == Sets \cup {"", "ADD", "REMOVE", "CHECK-ADD", "CHECK-REMOVE"}
LineSet == Keys \X Values \X Nat

Steps == {"make", "put", "recv"}
Calls == [ts : Sets, type : {"removed", "added"}, step : Steps, todo : Seq(LineSet)]

ASSUME ElementsAssumption ==
    \A s \in Sets : Elements[s] \in Seq([type : Types, files : Nat])
ASSUME PluginAssumption ==
    /\ Buffer0 \in Nat \ {0} /\ MaxFaults \in Nat
    /\ Transid \in BOOLEAN
    /\ FlagChoices \subseteq [Sets -> SUBSET Flags]
ASSUME NoneAssumption == None \notin Calls /\ None \notin Seq(LineSet)

VARIABLES
    phase,      \* where each set is: idle, pre, applying, post, then
                \* done, skipped or refused
    flags,      \* rpmtsFlags of each set
    records,    \* the list of records
    call,       \* the hook in progress: its set, the type it performs, its step and
                \* the lines still to put
    client,     \* the client of the perform in progress
    sent,       \* the lines the daemon receives on the connection, or None
    answer,     \* the answer of the daemon on the connection
    last,       \* history: index of the last record performed, per set
    dir,        \* history: type of the last record performed, per set
    applied,    \* history: the messages the daemon took as requests
    faults      \* number of failures

pluginVars == <<phase, flags, records, call, client, sent, answer, last, dir, applied, faults>>

Positions(s) == DOMAIN Elements[s]
OfType(s, t) == {p \in Positions(s) : Elements[s][p].type = t}
Recorded(s) == OfType(s, "removed") \cup OfType(s, "added")
CountOf(s) == Cardinality(Recorded(s))

----------------------------------------------------------------------------
(* afmpkg-client.c: the message. *)

OpName(type, test) ==
    CASE type = "removed" /\ test  -> "CHECK-REMOVE"
      [] type = "removed" /\ ~test -> "REMOVE"
      [] type = "added" /\ test    -> "CHECK-ADD"
      [] type = "added" /\ ~test   -> "ADD"

\* A line that belongs to no request: what an uninitialised buffer holds.
Junk == <<"", "", 0>>
Line(key, value, n) == <<key, value, n>>
MemoKeys == {"ROOT", "TRANSID", "REDPAKID"}

NewClient == [state |-> "None", lines |-> <<>>, size |-> Buffer0, heap |-> FALSE,
              memo |-> {}, rc |-> "ok"]

\* What the client holds of the lines once the buffer is grown: realloc keeps
\* them, the malloc that replaces buffer0 does not copy them.
Moved(c) == IF c.heap THEN c.lines ELSE [i \in 1..Len(c.lines) |-> Junk]

\* put_key_val_nl: one cell is kept for the trailing zero.
PutKeyValNl(c, line, oom) ==
    LET grows == Len(c.lines) + 1 >= c.size
    IN  IF c.state # "Started" \/ (grows /\ oom)
        THEN [c EXCEPT !.rc = "error"]
        ELSE [c EXCEPT !.lines = Append(IF grows THEN Moved(c) ELSE c.lines, line),
                       !.size = IF grows THEN 2 * @ ELSE @,
                       !.heap = @ \/ grows]

\* put_key_val_nl_memo: some lines come once.
PutKeyValNlMemo(c, line, oom) ==
    IF line[1] \notin MemoKeys THEN PutKeyValNl(c, line, oom)
    ELSE IF line[1] \in c.memo THEN [c EXCEPT !.rc = "error"]
    ELSE LET put == PutKeyValNl(c, line, oom)
         IN  [put EXCEPT !.memo = IF put.rc = "ok" THEN @ \cup {line[1]} ELSE @]

\* afmpkg_client_begin, the part before the lines.
ClientBegin(c) == [c EXCEPT !.lines = <<>>, !.state = "Started", !.memo = {}]

\* afmpkg_client_end, the part after the line: the message is ready whatever
\* the line gave.
ClientEnd(c) == [c EXCEPT !.state = "Ready"]

RequestLinesMutant(r, test) ==
    LET op == OpName(r.type, test)
        head == <<Line("BEGIN", op, 0), Line("PACKAGE", r.ts, r.pos),
                  Line("INDEX", "", r.index), Line("COUNT", "", r.count), Line("ROOT", "", 0)>>
        files == [i \in 1..Elements[r.ts][r.pos].files - 1 |-> Line("FILE", r.ts, i)]
    IN  head \o files \o <<Line("END", op, 0)>>

\* The lines of the request for record r.
RequestLines(r, test) ==
    LET op == OpName(r.type, test)
        head == <<Line("BEGIN", op, 0), Line("PACKAGE", r.ts, r.pos),
                  Line("INDEX", "", r.index), Line("COUNT", "", r.count), Line("ROOT", "", 0)>>
        trans == IF Transid THEN <<Line("TRANSID", "", 0)>> ELSE <<>>
        files == [i \in 1..Elements[r.ts][r.pos].files |-> Line("FILE", r.ts, i)]
    IN  head \o trans \o files \o <<Line("END", op, 0)>>

----------------------------------------------------------------------------
(* The list of records. *)

Of(s) == {r \in records : r.ts = s}

\* Position p of set s is the k-th of its type in the list.
Rank(s, p) == Cardinality({q \in OfType(s, Elements[s][p].type) : q >= p})

NumberMutant(s, p) == Rank(s, p)

\* number_removes then number_adds: one numbering for the two types.
Number(s, p) ==
    IF Elements[s][p].type = "removed" THEN Rank(s, p)
    ELSE Cardinality(OfType(s, "removed")) + Rank(s, p)

RecordOf(s, p) ==
    [ts |-> s, pos |-> p, type |-> Elements[s][p].type, index |-> Number(s, p), count |-> CountOf(s)]

NewRecords(s) == {RecordOf(s, p) : p \in Recorded(s)}

\* The record that for_each_record visits next: the performed ones are dropped.
IsNext(r, s, type) ==
    /\ r \in Of(s) /\ r.type = type
    /\ \A q \in Of(s) : q.type = type => q.pos <= r.pos

Exhausted(s, type) == \A r \in Of(s) : r.type # type

----------------------------------------------------------------------------
(* The hooks. *)

PluginInit ==
    /\ phase = [s \in Sets |-> "idle"]
    /\ flags \in FlagChoices
    /\ records = {}
    /\ call = None
    /\ client = None
    /\ sent = None
    /\ answer = "none"
    /\ last = [s \in Sets |-> 0]
    /\ dir = [s \in Sets |-> "removed"]
    /\ applied = {}
    /\ faults = 0

Fault == faults < MaxFaults /\ faults' = faults + 1
NoFault == UNCHANGED faults

CallOf(s, type) == [ts |-> s, type |-> type, step |-> "make", todo |-> <<>>]

\* tsm_pre_cb: rpm skips the scripts of removal of the set.
Silent(s) == flags[s] \cap {"test", "nopreun"} = {"nopreun"}

\* tsm_pre_cb: the set is recorded and numbered, then its removals are performed
\* unless rpm skips the scripts of removal.
TsmPre(s) ==
    /\ call = None /\ phase[s] = "idle"
    /\ records' = records \cup NewRecords(s)
    /\ phase' = [phase EXCEPT ![s] = IF Silent(s) THEN "applying" ELSE "pre"]
    /\ call' = IF Silent(s) THEN None ELSE CallOf(s, "removed")
    /\ NoFault
    /\ UNCHANGED <<flags, client, sent, answer, last, dir, applied>>

\* tsm_pre_cb: a malloc fails, the records of the set are dropped.  rpm gives up
\* the transaction and does not call tsm_post.
TsmPreFails(s) ==
    /\ call = None /\ phase[s] = "idle"
    /\ Recorded(s) # {}
    /\ Fault
    /\ records' = records \ Of(s)
    /\ phase' = [phase EXCEPT ![s] = "refused"]
    /\ UNCHANGED <<flags, call, client, sent, answer, last, dir, applied>>

\* tsm_post_cb: the additions are performed if rpm succeeded and unless it skips
\* the scripts; in any case the records of the set are dropped at the end.
TsmPost(s, res) ==
    /\ call = None /\ phase[s] = "applying"
    /\ IF ~res \/ flags[s] \cap {"test", "nopost"} = {"nopost"}
       THEN /\ phase' = [phase EXCEPT ![s] = "skipped"]
            /\ records' = records \ Of(s)
            /\ call' = None
       ELSE /\ phase' = [phase EXCEPT ![s] = "post"]
            /\ call' = CallOf(s, "added")
            /\ UNCHANGED records
    /\ NoFault
    /\ UNCHANGED <<flags, client, sent, answer, last, dir, applied>>

\* The end of the iteration: the hook returns RPMRC_OK.
HookReturns ==
    /\ call # None /\ call.step = "make" /\ Exhausted(call.ts, call.type)
    /\ phase' = [phase EXCEPT ![call.ts] = IF call.type = "removed" THEN "applying" ELSE "done"]
    /\ records' = IF call.type = "removed" THEN records ELSE records \ Of(call.ts)
    /\ call' = None
    /\ NoFault
    /\ UNCHANGED <<flags, client, sent, answer, last, dir, applied>>

----------------------------------------------------------------------------
(* perform: one record. *)

\* The record is dropped, whatever its request gave.
Dropped(r) == records' = records \ {r}

\* make_message begins for the record that is visited.
Perform(r) ==
    /\ call # None /\ call.step = "make" /\ IsNext(r, call.ts, call.type)
    /\ client' = ClientBegin(NewClient)
    /\ call' = [call EXCEPT !.step = "put", !.todo = RequestLines(r, "test" \in flags[r.ts])]
    /\ Dropped(r)
    /\ last' = [last EXCEPT ![r.ts] = r.index]
    /\ dir' = [dir EXCEPT ![r.ts] = r.type]
    /\ NoFault
    /\ UNCHANGED <<phase, flags, sent, answer, applied>>

\* make_message: the lines are put one after the other until one fails, then the
\* record is left.
MakeMessage ==
    /\ call # None /\ call.step = "put" /\ call.todo # <<>>
    /\ \E oom \in BOOLEAN :
          LET put == PutKeyValNlMemo(client, Head(call.todo), oom)
              rest == Tail(call.todo)
          IN  /\ client' = IF rest = <<>> THEN ClientEnd(put) ELSE put
              /\ call' = IF put.rc = "ok" THEN [call EXCEPT !.todo = rest]
                         ELSE [call EXCEPT !.step = "make", !.todo = <<>>]
              /\ IF oom THEN Fault ELSE NoFault
    /\ UNCHANGED <<phase, flags, records, sent, answer, last, dir, applied>>

Dials == call # None /\ call.step = "put" /\ client.state = "Ready"

\* The connection fails, or the sending: nothing is received.
DialFails ==
    /\ Dials
    /\ Fault
    /\ call' = [call EXCEPT !.step = "make"]
    /\ UNCHANGED <<phase, flags, records, client, sent, answer, last, dir, applied>>

\* send: all the message, or less when a signal interrupts it, which is taken
\* for a success.  The writing side is then shut down.
Send ==
    /\ Dials
    /\ \/ sent' = client.lines /\ NoFault
       \/ \E n \in 1..Len(client.lines) - 1 : sent' = SubSeq(client.lines, 1, n) /\ Fault
    /\ call' = [call EXCEPT !.step = "recv"]
    /\ UNCHANGED <<phase, flags, records, client, answer, last, dir, applied>>

\* External: the daemon processes the request, cut or not, that begins with a
\* begin line and refuses any other (AfmpkgRequest).
Daemon ==
    /\ sent # None
    /\ IF sent[1][1] = "BEGIN"
       THEN /\ answer' \in {"OK", "ERROR"}
            /\ applied' = applied \cup {sent}
       ELSE /\ answer' = "ERROR"
            /\ UNCHANGED applied
    /\ sent' = None
    /\ NoFault
    /\ UNCHANGED <<phase, flags, records, call, client, last, dir>>

\* External: the daemon dies and the connection is closed.
DaemonDies ==
    /\ sent # None
    /\ Fault
    /\ answer' = "closed"
    /\ sent' = None
    /\ UNCHANGED <<phase, flags, records, call, client, last, dir, applied>>

RecvMutant ==
    /\ call # None /\ call.step = "recv"
    /\ answer \in {"OK", "ERROR"}
    /\ answer' = "none"
    /\ client' = None
    /\ call' = [call EXCEPT !.step = "make"]
    /\ NoFault
    /\ UNCHANGED <<phase, flags, records, sent, last, dir, applied>>

\* recv_framework, then the client is released.  The result only sets the rc
\* that the hooks do not return.
Recv ==
    /\ call # None /\ call.step = "recv"
    /\ answer # "none"
    /\ answer' = "none"
    /\ client' = None
    /\ call' = [call EXCEPT !.step = "make"]
    /\ NoFault
    /\ UNCHANGED <<phase, flags, records, sent, last, dir, applied>>

PerformNext == (\E r \in records : Perform(r)) \/ MakeMessage \/ DialFails \/ Send \/ Recv \/ HookReturns
DaemonNext == Daemon \/ DaemonDies
RpmNext == \E s \in Sets : TsmPre(s) \/ TsmPreFails(s) \/ \E res \in BOOLEAN : TsmPost(s, res)

PluginNext == PerformNext \/ DaemonNext \/ RpmNext

PluginSafe == PluginInit /\ [][PluginNext]_pluginVars

\* The plugin runs when it is called, the daemon serves or dies, rpm goes on
\* with the sets it has begun.
PluginSpec ==
    /\ PluginSafe
    /\ WF_pluginVars(PerformNext) /\ WF_pluginVars(DaemonNext)
    /\ \A s \in Sets : WF_pluginVars(\E res \in BOOLEAN : TsmPost(s, res))

----------------------------------------------------------------------------
(* Properties. *)

PluginTypeOK ==
    /\ phase \in [Sets -> {"idle", "pre", "applying", "post", "done", "skipped", "refused"}]
    /\ flags \in [Sets -> SUBSET Flags]
    /\ records \subseteq UNION {NewRecords(s) : s \in Sets}
    /\ call # None => /\ call.ts \in Sets /\ call.type \in {"removed", "added"}
                      /\ call.step \in Steps
    /\ answer \in {"none", "OK", "ERROR", "closed"}
    /\ last \in [Sets -> Nat]
    /\ dir \in [Sets -> {"removed", "added"}]
    /\ faults \in 0..MaxFaults

Stage(s) ==
    CASE phase[s] = "idle" -> "idle"
      [] phase[s] \in {"pre", "applying", "post"} -> "open"
      [] phase[s] \in {"done", "skipped", "refused"} -> "closed"

A == INSTANCE RpmAnnounce WITH stage <- [s \in Sets |-> Stage(s)]

\* The plugin implements RpmAnnounce: in spite of failures, of flags and of
\* another set in between, the requests of a set are numbered in the order they
\* are sent and no removal comes after an addition (for_each_record, number_*).
Announced == A!AnnounceSpec

\* A set that is done was announced up to its last package, unless the hooks skip all of it,
\* and no record of a set that is over remains (tsm_post_cb).
Completed ==
    \A s \in Sets :
        /\ phase[s] \in {"done", "skipped", "refused"} => Of(s) = {}
        /\ phase[s] = "done" /\ (OfType(s, "added") # {} \/ ~Silent(s)) => last[s] = CountOf(s)

\* The packages of set s that the hooks do not skip, the whole request of each, and those
\* requests that fit the first buffer and that the daemon has not taken whole.
Asked(s) == IF Silent(s) THEN OfType(s, "added") ELSE Recorded(s)
Request(s, p) == RequestLines(RecordOf(s, p), "test" \in flags[s])
Missed(s) == {p \in Asked(s) : Len(Request(s, p)) < Buffer0 /\ Request(s, p) \notin applied}

\* Each failure (a connection, a memory, a cut send, a dead daemon) costs at most one
\* request: of the sets that are done, no more packages are missed than there were failures
\* (perform, make_message, afmpkg_client_dial).
MissedByFailure ==
    Cardinality(UNION {{<<s, p>> : p \in Missed(s)} : s \in {z \in Sets : phase[z] = "done"}}) <= faults

\* A request the daemon takes for one describes the package: the index, the count
\* and the first files are those of the package and they are all there when the
\* request has its end line (make_message, put_key_val_nl).  The daemon also takes a request
\* that a cut send has left without its end (send_framework).
AppliedFaithful ==
    \A m \in applied :
        LET package == m[2]
            filesTo(i) == Cardinality({j \in 1..i : m[j][1] = "FILE"})
        IN  /\ \A i \in DOMAIN m : m[i][1] = "FILE" => m[i] = Line("FILE", package[2], filesTo(i))
            /\ Last(m)[1] = "END" =>
                  /\ filesTo(Len(m)) = Elements[package[2]][package[3]].files
                  /\ m[3][3] \in 1..m[4][3] /\ m[4][3] = CountOf(package[2])
                  /\ \A n \in applied :   \* no number is given to two packages
                        Len(n) > 2 /\ n[2][2] = package[2] /\ n[3][3] = m[3][3] => n[2] = package

\* docs/installer-protocol.md: a package request starts with a beginning line.
StartsWithBegin == sent # None => sent[1][1] = "BEGIN"

\* A hook that is called returns: the plugin never blocks rpm for ever.
HooksReturn == (call # None) ~> (call = None)

\* What the daemon receives of a set that is done: without failure, the whole request of every
\* package that the hooks do not skip and whose request fits the first buffer; with failures,
\* no more requests are missed than there were failures, and what the daemon applies describes
\* its package.  (tsm_pre_cb, tsm_post_cb, make_message, afmpkg_client_dial)
RequestsFaithful == Completed /\ MissedByFailure /\ AppliedFaithful
=============================================================================
