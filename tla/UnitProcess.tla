----------------------------- MODULE UnitProcess -----------------------------
(***************************************************************************)
(* The generation of units and their reading: unit-process.c makes the     *)
(* units of a package from a static template that the first request loads, *)
(* the units are written, and afm-udb.c reads the fields of each unit      *)
(* file.                                                                   *)
(*                                                                         *)
(* Texts are sequences of lines.  A line has or not leading blanks, has a  *)
(* word that stands for its text ("" if it is blank) and continues or not  *)
(* on the next one with a backslash.                                       *)
(***************************************************************************)
EXTENDS Naturals, Sequences, FiniteSets, SequencesExt, FiniteSetsExt

CONSTANTS
    Threads,        \* the threads that process requests
    Template,       \* the content of the file of the template
    Parts,          \* what the manifests put in the place of the tag
    MaxUnitFaults,  \* bound: number of failures of the system
    Nothing         \* NULL

ASSUME UnitsAssumption == MaxUnitFaults \in Nat

VARIABLES
    file,       \* the file of the template
    template,   \* the static template
    raced,      \* history: did a request come while another was loading the template?
    part,       \* the part of each thread
    doing,      \* where each thread is
    corpus,     \* the text of each thread
    pos,        \* the place of each thread in its text
    units,      \* arrunits of each thread
    result,     \* rc of each thread
    fields,     \* the fields the database reads in the units of each thread
    unitFaults  \* number of failures

unitVars == <<file, template, raced, part, doing, corpus, pos, units, result, fields, unitFaults>>

Line(lead, word, cont) == [lead |-> lead, word |-> word, cont |-> cont]
Lines == [lead : BOOLEAN, word : STRING, cont : BOOLEAN]
EmptyLine == Line(FALSE, "", FALSE)
Begins == {"%begin unit", "%begin other"}
Ends == {"%end unit", "%end other"}
Directives == {"%user", "%system", "%socket a", "%service b", "%wanted c", "%nl"} \cup Begins \cup Ends
Comments == {";text", ";nl"}
PurgedBy(purge) == IF purge = ";" THEN Comments ELSE Directives
Tag == "{{tag}}"
\* The fields: name, publicity and text of the line.
PublicFields == {"X-AFM-a", "X-AFM-b"}
PrivateFields == {"X-AFM--c"}

\* The file and the manifests.
UnitsInput == file \in Template /\ part \in [Threads -> Parts]

UnitsStart ==
    /\ template = Nothing
    /\ raced = FALSE
    /\ doing = [t \in Threads |-> "idle"]
    /\ corpus = [t \in Threads |-> <<>>]
    /\ pos = [t \in Threads |-> 1]
    /\ units = [t \in Threads |-> <<>>]
    /\ result = [t \in Threads |-> "ok"]
    /\ fields = [t \in Threads |-> <<>>]
    /\ unitFaults = 0

UnitsInit == UnitsInput /\ UnitsStart

----------------------------------------------------------------------------
(* The treatments of texts. *)

\* pack: is line i of the text copied?
Continues(text, i) == i > 1 /\ text[i - 1].cont
Emitted(text, i) == text[i].word # "" \/ (Continues(text, i) /\ ~text[i].cont)

\* The blanks on the left of what does not continue a line are removed; then a line that
\* starts with the character to purge is dropped, or is an empty line.
Pack(text, purge) ==
    LET Keep(i) ==
          LET line == [text[i] EXCEPT !.lead = @ /\ Continues(text, i)]
          IN  IF ~Emitted(text, i) THEN <<>>
              ELSE IF line.lead \/ line.word \notin PurgedBy(purge) THEN <<line>>
              ELSE IF line.word \in {";nl", "%nl"} /\ ~line.cont THEN <<EmptyLine>>
              ELSE <<>>
    IN  FlattenSeq([i \in 1..Len(text) |-> Keep(i)])

\* The file and the parts are texts, and NULL is none.
ASSUME TextsAssumption ==
    /\ Template \subseteq Seq(Lines) /\ Parts \subseteq Seq(Lines)
    /\ \A text \in Template : text # Nothing /\ Pack(text, ";") # Nothing

\* dedup_slashes: also drops the empty lines.
DedupSlashes(text) == FlattenSeq([i \in 1..Len(text) |-> IF text[i] = EmptyLine THEN <<>> ELSE <<text[i]>>])

\* apply_mustach: the tag, a section, is replaced by the lines of the part.
ApplyMustach(text, lines) ==
    FlattenSeq([i \in 1..Len(text) |-> IF text[i].word = Tag THEN lines ELSE <<text[i]>>])

\* offset and matches: the first line from i that starts with one of the words.
Offset(text, i, words) ==
    LET at == {k \in i..Len(text) : ~text[k].lead /\ text[k].word \in words}
    IN  IF at = {} THEN Len(text) + 1 ELSE Min(at)

\* A directive without argument must be alone on its line, with the end of the line.
HasDirective(text, word) ==
    \E i \in 1..Len(text) : text[i] = Line(FALSE, word, FALSE)
HasNamed(text, word) == Offset(text, 1, {word}) <= Len(text)

\* process_one_unit
ProcessOneUnit(text) ==
    LET isuser == HasDirective(text, "%user")
        issystem == HasDirective(text, "%system")
        issock == HasNamed(text, "%socket a")
        isserv == HasNamed(text, "%service b")
    IN  [scope |-> IF isuser = issystem THEN "unknown" ELSE IF isuser THEN "user" ELSE "system",
         type |-> IF issock = isserv THEN "unknown" ELSE IF issock THEN "socket" ELSE "service",
         name |-> IF issock = isserv THEN Nothing ELSE IF issock THEN "a" ELSE "b",
         wanted |-> IF HasNamed(text, "%wanted c") THEN "c" ELSE Nothing,
         content |-> Pack(text, "%")]

\* The lines as they are: what continues them is forgotten.
CropMutant(text) ==
    LET kept == SelectSeq(text, LAMBDA l : l.word \notin Comments \cup {""})
    IN  [i \in DOMAIN kept |-> <<kept[i].word>>]

\* crop_and_trim_unit_content, that read_unit_file applies: a line made of words, the
\* comments and the empty lines removed.  A continued line goes on with its end.
Crop(text) ==
    LET Step(s, line) ==
          IF s.joins THEN [lines |-> [s.lines EXCEPT ![Len(s.lines)] = Append(@, line.word)], joins |-> line.cont]
          ELSE IF ~line.lead /\ (line.word \in Comments \/ (line.word = "" /\ ~line.cont))
               THEN [s EXCEPT !.joins = FALSE]
          ELSE [lines |-> Append(s.lines, <<line.word>>), joins |-> line.cont]
    IN  FoldLeft(Step, [lines |-> <<>>, joins |-> FALSE], text).lines

\* The fields of lines: from the first name of a field in each, wherever it is (strstr).
FieldsOf(lines, names) ==
    LET all == PublicFields \cup PrivateFields
        From(line) == SelectInSeq(line, LAMBDA w : w \in all)
    IN  {SubSeq(lines[i], From(lines[i]), Len(lines[i])) :
            i \in {k \in DOMAIN lines : From(lines[k]) # 0 /\ lines[k][From(lines[k])] \in names}}

\* add_fields_of_content with add_field: what is public is also private.
AddFieldsOfContent(lines) ==
    [priv |-> FieldsOf(lines, PublicFields \cup PrivateFields), pub |-> FieldsOf(lines, PublicFields)]

----------------------------------------------------------------------------
(* unit_process_split, one action per step that another thread may see. *)

Move(t, place) == doing' = [doing EXCEPT ![t] = place]
KeepText == UNCHANGED <<file, part, corpus, pos, units, result, fields>>

\* unit_process_raw: ensure template
Begin(t) ==
    /\ doing[t] = "idle"
    /\ Move(t, IF template # Nothing THEN "apply" ELSE "close")
    /\ raced' = (raced \/ \E u \in Threads : doing[u] \in {"close", "get", "pack"})
    /\ KeepText /\ UNCHANGED <<template, unitFaults>>

\* unit_process_close_template
CloseTemplate(t) ==
    /\ doing[t] = "close"
    /\ template' = Nothing
    /\ Move(t, "get")
    /\ KeepText /\ UNCHANGED <<raced, unitFaults>>

\* unit_process_open_template: rp_file_get sets the template, not yet packed.
GetTemplate(t) ==
    /\ doing[t] = "get"
    /\ template' = file
    /\ Move(t, "pack")
    /\ KeepText /\ UNCHANGED <<raced, unitFaults>>

\* rp_file_get fails: the template stays as it is, and the request fails.
GetFails(t) ==
    /\ doing[t] = "get" /\ unitFaults < MaxUnitFaults
    /\ unitFaults' = unitFaults + 1
    /\ result' = [result EXCEPT ![t] = "EIO"]
    /\ Move(t, "end")
    /\ UNCHANGED <<file, template, raced, part, corpus, pos, units, fields>>

\* unit_process_open_template: the packing in place.
PackTemplate(t) ==
    /\ doing[t] = "pack"
    /\ template' = IF template = Nothing THEN Nothing ELSE Pack(template, ";")
    /\ Move(t, "apply")
    /\ KeepText /\ UNCHANGED <<raced, unitFaults>>

\* unit_process_raw: the instance, from whatever the template is now.
Apply(t) ==
    /\ doing[t] = "apply"
    /\ corpus' = [corpus EXCEPT ![t] =
                    IF template = Nothing THEN <<>> ELSE DedupSlashes(ApplyMustach(template, part[t]))]
    /\ Move(t, "split")
    /\ UNCHANGED <<file, template, raced, part, pos, units, result, fields, unitFaults>>

\* apply_mustach fails: nothing is processed.
ApplyFails(t) ==
    /\ doing[t] = "apply" /\ unitFaults < MaxUnitFaults
    /\ unitFaults' = unitFaults + 1
    /\ result' = [result EXCEPT ![t] = "ENOMEM"]
    /\ Move(t, "end")
    /\ UNCHANGED <<file, template, raced, part, corpus, pos, units, fields>>

\* The end of the loop of corpus_split.
NoUnit(t, error) ==
    /\ result' = [result EXCEPT ![t] = IF @ = "ok" THEN error ELSE @]
    /\ Move(t, "process")
    /\ UNCHANGED <<file, template, raced, part, corpus, pos, units, fields, unitFaults>>

\* One turn of corpus_split that ends it: no %begin is left, or the tags do not match.
SplitEnd(t) ==
    /\ doing[t] = "split"
    /\ LET text == corpus[t]
           none == Len(text) + 1
           beg == Offset(text, pos[t], Begins)
           end == Offset(text, pos[t], Ends)
       IN  /\ beg >= end \/ Offset(text, beg + 1, Begins) < end \/ end = none
           /\ NoUnit(t, IF beg = none /\ end = none THEN "ok" ELSE "EINVAL")

SplitUnitMutant(t) ==
    /\ doing[t] = "split"
    /\ LET text == corpus[t]
           beg == Offset(text, pos[t], Begins)
           end == Offset(text, pos[t], Ends)
       IN  /\ beg < end /\ end <= Len(text) /\ Offset(text, beg + 1, Begins) > end
           /\ units' = [units EXCEPT ![t] = Append(@, ProcessOneUnit(SubSeq(text, beg + 1, end - 1)))]
           /\ pos' = [pos EXCEPT ![t] = end + 1]
    /\ UNCHANGED <<file, template, raced, part, doing, corpus, result, fields, unitFaults>>

\* One turn of corpus_split that finds %begin and %end: the unit is added if both name
\* a unit of systemd, or the error is recorded and the loop goes on.
SplitUnit(t) ==
    /\ doing[t] = "split"
    /\ LET text == corpus[t]
           beg == Offset(text, pos[t], Begins)
           end == Offset(text, pos[t], Ends)
           good == text[beg] = Line(FALSE, "%begin unit", FALSE) /\ text[end] = Line(FALSE, "%end unit", FALSE)
       IN  /\ beg < end /\ end <= Len(text) /\ Offset(text, beg + 1, Begins) > end
           /\ units' = [units EXCEPT ![t] =
                          IF good THEN Append(@, ProcessOneUnit(SubSeq(text, beg + 1, end - 1))) ELSE @]
           /\ result' = [result EXCEPT ![t] = IF good \/ @ # "ok" THEN @ ELSE "EINVAL"]
           /\ pos' = [pos EXCEPT ![t] = end + 1]
    /\ UNCHANGED <<file, template, raced, part, doing, corpus, fields, unitFaults>>

\* realloc fails
SplitFails(t) ==
    /\ doing[t] = "split" /\ unitFaults < MaxUnitFaults
    /\ Offset(corpus[t], pos[t], Begins) <= Len(corpus[t])
    /\ unitFaults' = unitFaults + 1
    /\ result' = [result EXCEPT ![t] = IF @ = "ok" THEN "ENOMEM" ELSE @]
    /\ Move(t, "process")
    /\ UNCHANGED <<file, template, raced, part, corpus, pos, units, fields>>

\* internal_for_split: the callback is called if there are units and no error; what it
\* writes is then read by afm_udb_update: read_unit_file and addunit.
ProcessUnits(t) ==
    /\ doing[t] = "process"
    /\ units' = [units EXCEPT ![t] = IF result[t] = "ok" THEN @ ELSE <<>>]
    /\ fields' = [fields EXCEPT ![t] =
                    [i \in DOMAIN units'[t] |-> AddFieldsOfContent(Crop(units'[t][i].content))]]
    /\ Move(t, "end")
    /\ UNCHANGED <<file, template, raced, part, corpus, pos, result, unitFaults>>

UnitsNext ==
    \E t \in Threads :
        \/ Begin(t) \/ CloseTemplate(t) \/ GetTemplate(t) \/ GetFails(t) \/ PackTemplate(t)
        \/ Apply(t) \/ ApplyFails(t) \/ SplitEnd(t) \/ SplitUnit(t) \/ SplitFails(t) \/ ProcessUnits(t)

UnitsSpec == UnitsInit /\ [][UnitsNext]_unitVars

----------------------------------------------------------------------------
(* Properties. *)

Ended(t) == doing[t] = "end"

\* What a request is instantiated from is the whole template of the file, packed, whichever
\* request has loaded it and after a load that failed (the static template of
\* unit_process_raw).  It is not so when a request comes during the loading by another
\* thread: nothing locks the static template.
TemplateWhole ==
    \A t \in Threads : doing[t] \in {"split", "process"} =>
        corpus[t] = DedupSlashes(ApplyMustach(Pack(file, ";"), part[t]))

\* The lines that open and close units, and the number of those up to a line.
Marks(text) == {i \in 1..Len(text) : ~text[i].lead /\ text[i].word \in Begins \cup Ends}
Rank(text, i) == Cardinality({k \in Marks(text) : k <= i})
WellFormed(text) ==
    /\ Cardinality(Marks(text)) % 2 = 0
    /\ \A i \in Marks(text) :
          text[i] = Line(FALSE, IF Rank(text, i) % 2 = 1 THEN "%begin unit" ELSE "%end unit", FALSE)

\* A text is accepted exactly when its units are well formed, all their units are then
\* processed, and none is when one is not (corpus_split).
SplitIffWellFormed ==
    \A t \in Threads : Ended(t) /\ result[t] \notin {"EIO", "ENOMEM"} =>
        /\ (result[t] = "ok") = WellFormed(corpus[t])
        /\ Len(units[t]) = IF result[t] = "ok" THEN Cardinality(Marks(corpus[t])) \div 2 ELSE 0

\* In any interleaving where no request has come during the loading of the template, all are
\* given the whole template; and in any interleaving the text, whole or not, is split exactly
\* when it is well formed (unit_process_raw, corpus_split).
SplitExact == (~raced => TemplateWhole) /\ SplitIffWellFormed

\* The lines of the units of a text.
Inside(text) ==
    LET count(words, i) == Cardinality({k \in 1..i - 1 : text[k].word \in words})
        within == {i \in 1..Len(text) : count(Begins, i) > count(Ends, i)}
    IN  [k \in 1..Cardinality(within) |-> text[SetToSortSeq(within, LAMBDA a, b : a < b)[k]]]

\* The lines of a text as systemd joins them, whatever their blanks.
Joined(text) ==
    LET Step(s, i) == IF Continues(text, i)
                      THEN [s EXCEPT ![Len(s)] = Append(@, text[i].word)]
                      ELSE Append(s, <<text[i].word>>)
    IN  FoldLeft(Step, <<>>, [i \in 1..Len(text) |-> i])

\* No line to purge continues or is continued, and no line that is continued is followed by
\* an empty one: pack and dedup_slashes remove lines one by one.
Regular(text) ==
    \A i \in 1..Len(text) :
        /\ text[i].word \in Directives \cup Comments => ~text[i].cont /\ ~Continues(text, i)
        /\ Continues(text, i) => text[i].word # ""

\* The database reads the fields that the template and the manifest tell in units, all of
\* them with their continuation, and only the public ones are public: the packing of the
\* template, of the unit, and the reading of the unit file agree on the joined lines.  No
\* request has come during the loading of the template, see TemplateWhole.
FieldsReadBack ==
    \A t \in Threads :
        LET text == ApplyMustach(file, part[t])
            told(names) == FieldsOf(Joined(Inside(text)), names)
        IN  Ended(t) /\ result[t] = "ok" /\ Regular(text) /\ ~raced =>
                /\ told(PublicFields) = UNION {fields[t][i].pub : i \in DOMAIN fields[t]}
                /\ told(PublicFields \cup PrivateFields) = UNION {fields[t][i].priv : i \in DOMAIN fields[t]}
=============================================================================
