----------------------------- MODULE AnswerCodec -----------------------------
(***************************************************************************)
(* The text of one answer on its way through the backend: posted (as a     *)
(* serialised line or as a plain value), kept in memory, written to the    *)
(* session file and read again by every later request.  An answer line is  *)
(* cut down to three of its fields, uid:text:value; the others are numbers *)
(* or come from the survey.                                                *)
(***************************************************************************)
EXTENDS Naturals, Sequences, FiniteSets, SequencesExt, Folds

CONSTANTS
    TextChar,    \* the characters texts are made of
    MaxLength,   \* the longest text
    FieldMax,    \* what deserialise_parse_field reads of a field: 16383
    LineMax      \* MAX_LINE: 65536

\* The characters the code tells apart.  LF stands for CR, TAB and BS as well:
\* control characters with an escape; "1" is a digit and "n" the letter of LF.
Colon     == ":"
Backslash == "bs"
LF        == "lf"
Char      == {Colon, Backslash, LF, "1", "n"}

ASSUME TextAssumption == TextChar \subseteq Char /\ MaxLength \in Nat

\* A field that can be read fits into a line, however it is escaped.
ASSUME LimitAssumption ==
    FieldMax \in Nat \ {0} /\ LineMax \in Nat /\ 2 * FieldMax + 4 <= LineMax

\* The other two fields of the line: any uid, any number.
Uid    == <<"n">>
Number == <<"1">>
Columns == 3

VARIABLES
    phase,   \* "none", "memory" (loaded), "file" (saved) or "lost" (cannot be loaded)
    posted,  \* the text as the request gave it
    text,    \* answer->text in memory
    line     \* the line of the session file

vars == <<phase, posted, text, line>>

Texts(chars) == UNION {[1..n -> chars] : n \in 0..MaxLength}

-----------------------------------------------------------------------------
\* escape_string
Escaped(c) == CASE c = Colon -> <<Backslash, Colon>>
                [] c = LF    -> <<Backslash, "n">>
                [] OTHER     -> <<c>>

\* A bug for the mutation tests: nothing is escaped.
Mut_Escape(t) == t

Escape(t) == FlattenSeq([i \in 1..Len(t) |-> Escaped(t[i])])

\* serialiser_count_columns: a separator counts unless a backslash precedes it.
CountColumns(l) ==
    1 + Cardinality({i \in 1..Len(l) : l[i] = Colon /\ (i = 1 \/ l[i-1] # Backslash)})

\* An escape stands for a character; only some are legal.
Unescaped(c) == IF c = "n" THEN LF ELSE c
Legal(c)     == c \in {Colon, Backslash, "n"}

\* A bug for the mutation tests: what does not fit into the field is skipped.
Mut_ParseChar(c, p) ==
    LET Add(d) == IF Len(Last(p.fields)) >= FieldMax THEN p.fields
                  ELSE Append(Front(p.fields), Append(Last(p.fields), d))
    IN IF Len(p.fields) > Columns THEN p
       ELSE IF p.escape THEN [p EXCEPT !.escape = FALSE, !.ok = @ /\ Legal(c),
                                       !.fields = Add(Unescaped(c))]
       ELSE IF c = Backslash THEN [p EXCEPT !.escape = TRUE]
       ELSE IF c = Colon THEN [p EXCEPT !.fields = Append(@, <<>>)]
       ELSE [p EXCEPT !.fields = Add(c)]

\* A bug for the mutation tests: the field is full one character early.
Mut_Full(field) == Len(field) + 1 >= FieldMax

Full(field) == Len(field) >= FieldMax

\* deserialise_parse_field, character by character, for the fields that are asked
\* for: fields found so far, whether an escape is open, whether all was legal.
\* When a field is full only its separator may follow.
ParseChar(c, p) ==
    LET Add(d) == Append(Front(p.fields), Append(Last(p.fields), d))
    IN IF Len(p.fields) > Columns THEN p
       ELSE IF p.escape THEN [p EXCEPT !.escape = FALSE, !.ok = @ /\ Legal(c),
                                       !.fields = Add(Unescaped(c))]
       ELSE IF c = Colon THEN [p EXCEPT !.fields = Append(@, <<>>)]
       ELSE IF Full(Last(p.fields)) THEN [p EXCEPT !.ok = FALSE]
       ELSE IF c = Backslash THEN [p EXCEPT !.escape = TRUE]
       ELSE [p EXCEPT !.fields = Add(c)]

Start == [fields |-> << <<>> >>, escape |-> FALSE, ok |-> TRUE]

Parse(l) == FoldLeft(LAMBDA p, c : ParseChar(c, p), Start, l)

\* A bug for the mutation tests: nobody checks for space.
Mut_Serialise(t) == Uid \o <<Colon>> \o Escape(t) \o <<Colon>> \o Number

\* serialise_answer: the first field that does not fit ends the line, which is no
\* error.
Serialise(t) ==
    LET head == Uid \o <<Colon>>
        line1 == head \o Escape(t) \o <<Colon>>
    IN IF Len(head \o Escape(t)) > LineMax THEN Uid
       ELSE IF Len(line1 \o Number) > LineMax THEN Front(line1)
       ELSE line1 \o Number

\* deserialise_answer: columns are counted first; what is left of the line after
\* the last field is ignored (the "junk" check compares with a length of zero).
Deserialisable(l) ==
    /\ CountColumns(l) = Columns
    /\ LET p == Parse(l)
       IN /\ p.ok /\ ~p.escape
          /\ Len(p.fields) >= Columns
          /\ p.fields[1] = Uid
          /\ p.fields[3] = Number

TextOf(l) == Parse(l).fields[2]

-----------------------------------------------------------------------------
Init == /\ phase = "none"
        /\ posted = <<>>
        /\ text = <<>>
        /\ line = <<>>

Take(t) == /\ phase' = "memory"
           /\ posted' = t
           /\ text' = t
           /\ UNCHANGED line

\* fcgi_request_parse_answers_values, addanswervalue: the value is the text.  A text
\* whose escaped form alone is longer than a line is not modelled (escape_string
\* cuts it off and serialise_answer copies it past the end of its buffer).
PostValue ==
    /\ phase = "none"
    /\ \E t \in Texts(TextChar) : Len(Escape(t)) < LineMax /\ Take(t)

\* fcgi_request_parse_answers_serialised, addanswer: a line that a client has put
\* together, whose text may be escaped in any way or not at all.
PostSerialised ==
    /\ phase = "none"
    /\ \E t \in Texts(Char \ {LF}) :
           LET l == Uid \o <<Colon>> \o t \o <<Colon>> \o Number
           IN /\ Deserialisable(l)
              /\ TextOf(l) \in Texts(TextChar)
              /\ Take(TextOf(l))

\* save_session
SaveAnswer ==
    /\ phase = "memory"
    /\ phase' = "file"
    /\ line' = Serialise(text)
    /\ UNCHANGED <<posted, text>>

\* load_session: one line that cannot be parsed and the session is refused.
LoadAnswer ==
    /\ phase = "file"
    /\ IF Deserialisable(line)
       THEN phase' = "memory" /\ text' = TextOf(line)
       ELSE phase' = "lost" /\ UNCHANGED text
    /\ UNCHANGED <<posted, line>>

Next == PostValue \/ PostSerialised \/ SaveAnswer \/ LoadAnswer

Spec == Init /\ [][Next]_vars

-----------------------------------------------------------------------------
\* The variables hold texts and lines.
TypeOK ==
    /\ phase \in {"none", "memory", "file", "lost"}
    /\ posted \in Texts(TextChar)
    /\ text \in Texts(TextChar)
    /\ line \in Seq(Char) /\ Len(line) <= LineMax

\* However often a session is saved and loaded, its answer is the one that was
\* posted, never a shortened one: a line that was cut off or a field that is too
\* long is refused as a whole.  So the consistency hash, which the ETag of a
\* response and the check of the next request compute from the text, is the same.
TextSurvives == phase = "memory" => text = posted

\* A session that was saved can be loaded: no text that fits into a field, up to
\* its last character and however it is escaped, makes its line unreadable.
SavedIsLoadable == Len(posted) <= FieldMax => phase # "lost"

\* A text that fits does not leak into the other fields of its line, nor swallow
\* them.
FieldsStayApart ==
    phase = "file" /\ Len(posted) <= FieldMax => Len(Parse(line).fields) = Columns
=============================================================================
