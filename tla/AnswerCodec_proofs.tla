------------------------- MODULE AnswerCodec_proofs -------------------------
(***************************************************************************)
(* Theorems about AnswerCodec, for texts of any length and any limits of   *)
(* fields and lines: a text without a backslash, which escape_string       *)
(* leaves as it is (run codec_backslash), survives.                        *)
(*                                                                         *)
(* The codec is defined by folds over a text and over a line.  What is     *)
(* proved of them first is that one more character is one more step.       *)
(***************************************************************************)
EXTENDS AnswerCodec, TLAPS, FiniteSetTheorems, WellFoundedInduction

\* Induction: a set of numbers that has 0 and every successor has them all.
LEMMA SuccessorClosed ==
    ASSUME NEW T, 0 \in T, \A n \in Nat : n \in T => n + 1 \in T
    PROVE  \A n \in Nat : n \in T
<1> DEFINE U == Nat \ T
<1> SUFFICES ASSUME U # {}
             PROVE  FALSE
  OBVIOUS
<1>1. U \subseteq Nat /\ \A n \in Nat : n \in U <=> n \notin T
  OBVIOUS
<1> HIDE DEF U
<1>2. PICK x \in U : \A y \in U : ~ (<<y, x>> \in OpToRel(<, Nat))
  BY <1>1, WFMin, NatLessThanWellFounded DEF OpToRel
<1>3. \A y \in U : ~ (y < x)
  BY <1>1, <1>2 DEF OpToRel
<1>4. x \in Nat /\ x # 0 /\ x - 1 \in Nat
  BY <1>1
<1>5. x - 1 \in T
  BY <1>1, <1>3, <1>4
<1>6. (x - 1) + 1 \in T /\ (x - 1) + 1 = x
  BY <1>4, <1>5
<1> QED
  BY <1>1, <1>4, <1>6

(***************************************************************************)
(* The parser, character by character.                                     *)
(***************************************************************************)

\* The fold of Parse over the first n characters of l.
Folded(h, l, n) ==
    h = [s \in SUBSET (1..n) |->
            IF s = {} THEN Start ELSE ParseChar(l[Max(s)], h[s \ {Max(s)}])]

\* The greatest of some of the first n numbers.
LEMMA MaxOfSome ==
    ASSUME NEW n \in Nat, NEW s \in SUBSET (1..n), n \in s
    PROVE  Max(s) = n
<1>1. n \in s /\ \A y \in s : n >= y
  OBVIOUS
<1>2. \A x \in s : (\A y \in s : x >= y) => x = n
  BY <1>1
<1> QED
  BY <1>1, <1>2 DEF Max

\* The fold is defined, however long the line is.
LEMMA FoldExists ==
    ASSUME NEW l, NEW n \in Nat
    PROVE  \E h : Folded(h, l, n)
<1> DEFINE T == {i \in Nat : \E h : Folded(h, l, i)}
<1>1. 0 \in T
  <2> DEFINE h == [s \in SUBSET (1..0) |-> Start]
  <2>1. \A s \in SUBSET (1..0) : s = {}
    OBVIOUS
  <2>2. h = [s \in SUBSET (1..0) |->
                IF s = {} THEN Start ELSE ParseChar(l[Max(s)], h[s \ {Max(s)}])]
    BY <2>1
  <2>3. Folded(h, l, 0)
    BY <2>2 DEF Folded
  <2> QED
    BY <2>3
<1>2. ASSUME NEW i \in Nat, i \in T
      PROVE  i + 1 \in T
  <2>1. PICK g : Folded(g, l, i)
    BY <1>2
  <2> DEFINE h == [s \in SUBSET (1..(i + 1)) |->
                      IF i + 1 \in s THEN ParseChar(l[i + 1], g[s \ {i + 1}]) ELSE g[s]]
             step(s) == IF s = {} THEN Start ELSE ParseChar(l[Max(s)], h[s \ {Max(s)}])
  <2>2. ASSUME NEW s \in SUBSET (1..(i + 1))
        PROVE  h[s] = step(s)
    <3>1. CASE i + 1 \in s
      <4>1. Max(s) = i + 1
        BY <3>1, MaxOfSome
      <4>2. /\ s \ {i + 1} \in SUBSET (1..i) /\ s \ {i + 1} \in SUBSET (1..(i + 1))
            /\ i + 1 \notin s \ {i + 1}
        OBVIOUS
      <4>3. h[s \ {i + 1}] = g[s \ {i + 1}]
        BY <4>2
      <4> QED
        BY <3>1, <4>1, <4>3
    <3>2. CASE i + 1 \notin s
      <4>1. s \in SUBSET (1..i)
        BY <3>2
      <4>2. g[s] = IF s = {} THEN Start ELSE ParseChar(l[Max(s)], g[s \ {Max(s)}])
        BY <2>1, <4>1 DEF Folded
      <4>3. s \ {Max(s)} \in SUBSET (1..(i + 1)) /\ i + 1 \notin s \ {Max(s)}
        BY <3>2
      <4>4. h[s \ {Max(s)}] = g[s \ {Max(s)}]
        BY <4>3
      <4> QED
        BY <3>2, <4>2, <4>4
    <3> QED
      BY <3>1, <3>2
  <2>3. h = [s \in SUBSET (1..(i + 1)) |-> step(s)]
    <3>1. h = [s \in SUBSET (1..(i + 1)) |-> h[s]]
      OBVIOUS
    <3> HIDE DEF h, step
    <3> QED
      BY <2>2, <3>1
  <2>4. Folded(h, l, i + 1)
    BY <2>3 DEF Folded
  <2> QED
    BY <2>4
<1> HIDE DEF T
<1>3. n \in T
  BY <1>1, <1>2, SuccessorClosed
<1> QED
  BY <1>3 DEF T

\* The states of the parser after each character.
Run(r, l) == /\ r[0] = Start
             /\ \A k \in 1..Len(l) : r[k] = ParseChar(l[k], r[k - 1])

\* They lead to what is parsed.
LEMMA ParseRuns ==
    ASSUME NEW l \in Seq(Char)
    PROVE  \E r : Run(r, l) /\ Parse(l) = r[Len(l)]
<1>1. Len(l) \in Nat /\ DOMAIN l = 1..Len(l)
  OBVIOUS
<1>2. PICK h : Folded(h, l, Len(l)) /\ Parse(l) = h[1..Len(l)]
  <2>1. PICK g : Folded(g, l, Len(l))
    BY <1>1, FoldExists
  <2>2. g = [s \in SUBSET DOMAIN l |->
                IF s = {} THEN Start ELSE ParseChar(l[Max(s)], g[s \ {Max(s)}])]
    BY <1>1, <2>1 DEF Folded
  <2>3. \E h : /\ h = [s \in SUBSET DOMAIN l |->
                            IF s = {} THEN Start ELSE ParseChar(l[Max(s)], h[s \ {Max(s)}])]
               /\ Parse(l) = h[DOMAIN l]
    BY <2>2 DEF Parse, FoldLeft, MapThenFoldSet
  <2> QED
    BY <1>1, <2>3 DEF Folded
<1> DEFINE r == [k \in 0..Len(l) |-> h[1..k]]
<1>3. \A s \in SUBSET (1..Len(l)) :
          h[s] = IF s = {} THEN Start ELSE ParseChar(l[Max(s)], h[s \ {Max(s)}])
  BY <1>2 DEF Folded
<1>4. r[0] = Start
  <2>1. 1..0 = {} /\ 1..0 \in SUBSET (1..Len(l))
    OBVIOUS
  <2>2. h[1..0] = Start
    BY <1>3, <2>1
  <2>3. 0 \in 0..Len(l)
    BY <1>1
  <2> QED
    BY <2>2, <2>3
<1>5. ASSUME NEW k \in 1..Len(l)
      PROVE  r[k] = ParseChar(l[k], r[k - 1])
  <2>1. k \in 1..k /\ k \in Nat /\ \A i \in 1..k : i \in 1..Len(l)
    BY <1>1
  <2>2. Max(1..k) = k
    BY <2>1, MaxOfSome
  <2>3. (1..k) \ {k} = 1..(k - 1)
    BY <2>1
  <2>4. h[1..k] = ParseChar(l[k], h[1..(k - 1)])
    <3>1. 1..k \in SUBSET (1..Len(l)) /\ 1..k # {}
      BY <2>1
    <3> QED
      BY <1>3, <2>2, <2>3, <3>1
  <2>5. k \in 0..Len(l) /\ k - 1 \in 0..Len(l)
    BY <1>1
  <2> QED
    BY <2>4, <2>5
<1>6. Parse(l) = r[Len(l)]
  BY <1>1, <1>2
<1> HIDE DEF r
<1>7. Run(r, l)
  BY <1>4, <1>5 DEF Run
<1> QED
  BY <1>6, <1>7

\* Nothing is parsed of an empty line.
LEMMA ParseEmpty == Parse(<<>>) = Start
<1>1. <<>> \in Seq(Char) /\ Len(<<>>) = 0
  OBVIOUS
<1>2. PICK r : Run(r, <<>>) /\ Parse(<<>>) = r[Len(<<>>)]
  BY <1>1, ParseRuns
<1> QED
  BY <1>1, <1>2 DEF Run

\* One more character is one more step.
LEMMA ParseAppend ==
    ASSUME NEW l \in Seq(Char), NEW c \in Char
    PROVE  Parse(Append(l, c)) = ParseChar(c, Parse(l))
<1> DEFINE m == Append(l, c)
<1>1. /\ Len(l) \in Nat /\ m \in Seq(Char) /\ Len(m) = Len(l) + 1
      /\ m[Len(l) + 1] = c /\ \A k \in 1..Len(l) : m[k] = l[k]
  OBVIOUS
<1> HIDE DEF m
<1>2. PICK r : Run(r, l) /\ Parse(l) = r[Len(l)]
  BY ParseRuns
<1>3. PICK q : Run(q, m) /\ Parse(m) = q[Len(m)]
  BY <1>1, ParseRuns
<1> DEFINE T == {k \in Nat : k <= Len(l) => r[k] = q[k]}
<1>4. 0 \in T
  BY <1>2, <1>3 DEF Run
<1>5. ASSUME NEW k \in Nat, k \in T
      PROVE  k + 1 \in T
  <2> SUFFICES ASSUME k + 1 <= Len(l)
               PROVE  r[k + 1] = q[k + 1]
    OBVIOUS
  <2>1. k + 1 \in 1..Len(l) /\ k + 1 \in 1..Len(m) /\ k <= Len(l) /\ (k + 1) - 1 = k
    BY <1>1
  <2>2. r[k] = q[k]
    BY <1>5, <2>1
  <2>3. r[k + 1] = ParseChar(l[k + 1], r[k]) /\ q[k + 1] = ParseChar(m[k + 1], q[k])
    BY <1>2, <1>3, <2>1 DEF Run
  <2> QED
    BY <1>1, <2>1, <2>2, <2>3
<1> HIDE DEF T
<1>6. Len(l) \in T
  BY <1>1, <1>4, <1>5, SuccessorClosed
<1>7. r[Len(l)] = q[Len(l)]
  BY <1>1, <1>6 DEF T
<1>8. q[Len(l) + 1] = ParseChar(c, q[Len(l)])
  <2>1. Len(l) + 1 \in 1..Len(m) /\ (Len(l) + 1) - 1 = Len(l)
    BY <1>1
  <2> QED
    BY <1>1, <1>3, <2>1 DEF Run
<1> QED
  BY <1>1, <1>2, <1>3, <1>7, <1>8 DEF m

(***************************************************************************)
(* What one character does to a line that is well so far.                  *)
(***************************************************************************)

\* Short sequences, spelled out.
LEMMA ShortSequences ==
    ASSUME NEW S, NEW a \in S, NEW b \in S, NEW c \in S
    PROVE  /\ Append(<<a>>, b) = <<a, b>>
           /\ Append(<<a, b>>, c) = <<a, b, c>>
           /\ SubSeq(<<a, b>>, 1, 1) = <<a>>
<1>1. /\ <<a>> \in Seq(S) /\ Len(<<a>>) = 1 /\ <<a>>[1] = a
      /\ <<a, b>> \in Seq(S) /\ Len(<<a, b>>) = 2 /\ <<a, b>>[1] = a /\ <<a, b>>[2] = b
      /\ <<a, b, c>> \in Seq(S) /\ Len(<<a, b, c>>) = 3
      /\ <<a, b, c>>[1] = a /\ <<a, b, c>>[2] = b /\ <<a, b, c>>[3] = c
  OBVIOUS
<1>2. \A s, t \in Seq(S) : Len(s) = 1 /\ Len(t) = 1 /\ s[1] = t[1] => s = t
  OBVIOUS
<1>3. \A s, t \in Seq(S) : Len(s) = 2 /\ Len(t) = 2 /\ s[1] = t[1] /\ s[2] = t[2] => s = t
  OBVIOUS
<1>4. \A s, t \in Seq(S) : /\ Len(s) = 3 /\ Len(t) = 3
                          /\ s[1] = t[1] /\ s[2] = t[2] /\ s[3] = t[3] => s = t
  OBVIOUS
<1>5. Append(<<a>>, b) = <<a, b>>
  <2>1. LET s == Append(<<a>>, b) IN s \in Seq(S) /\ Len(s) = 2 /\ s[1] = a /\ s[2] = b
    BY <1>1
  <2> QED
    BY <1>1, <1>3, <2>1
<1>6. Append(<<a, b>>, c) = <<a, b, c>>
  <2>1. LET s == Append(<<a, b>>, c)
        IN s \in Seq(S) /\ Len(s) = 3 /\ s[1] = a /\ s[2] = b /\ s[3] = c
    BY <1>1
  <2> QED
    BY <1>1, <1>4, <2>1
<1>7. SubSeq(<<a, b>>, 1, 1) = <<a>>
  <2>1. LET s == SubSeq(<<a, b>>, 1, 1) IN s \in Seq(S) /\ Len(s) = 1 /\ s[1] = a
    BY <1>1
  <2> QED
    BY <1>1, <1>2, <2>1
<1> QED
  BY <1>5, <1>6, <1>7

\* What was appended to is not empty.
LEMMA NotEmpty ==
    ASSUME NEW S, NEW g \in Seq(S), NEW x \in S
    PROVE  Append(g, x) \in Seq(S) \ {<<>>}
<1>1. Len(Append(g, x)) = Len(g) + 1 /\ Len(g) \in Nat
  OBVIOUS
<1> QED
  BY <1>1

ParserState == [fields : Seq(Seq(Char)) \ {<<>>}, escape : BOOLEAN, ok : BOOLEAN]

\* The field that is being read, with a character added.
LEMMA LastField ==
    ASSUME NEW fields \in Seq(Seq(Char)) \ {<<>>}, NEW d \in Char
    PROVE  /\ Last(fields) \in Seq(Char)
           /\ Append(Front(fields), Append(Last(fields), d)) \in Seq(Seq(Char)) \ {<<>>}
           /\ Append(fields, <<>>) \in Seq(Seq(Char)) \ {<<>>}
<1>1. Len(fields) \in Nat /\ Len(fields) >= 1
  OBVIOUS
<1>2. Last(fields) \in Seq(Char)
  BY <1>1 DEF Last
<1>3. Append(Last(fields), d) \in Seq(Char)
  BY <1>2
<1>4. Front(fields) \in Seq(Seq(Char))
  BY <1>1 DEF Front
<1>5. <<>> \in Seq(Char)
  OBVIOUS
<1>6. \A g \in Seq(Seq(Char)), x \in Seq(Char) : Append(g, x) \in Seq(Seq(Char)) \ {<<>>}
  BY <1>5, NotEmpty
<1> QED
  BY <1>2, <1>3, <1>4, <1>5, <1>6

\* The parser's state stays well-formed; an error stays one.
LEMMA ParseCharType ==
    ASSUME NEW p \in ParserState, NEW c \in Char
    PROVE  ParseChar(c, p) \in ParserState /\ (~p.ok => ~ParseChar(c, p).ok)
<1> DEFINE Add(d) == Append(Front(p.fields), Append(Last(p.fields), d))
<1>1. p.fields \in Seq(Seq(Char)) \ {<<>>} /\ p.escape \in BOOLEAN /\ p.ok \in BOOLEAN
  BY DEF ParserState
<1>2. Unescaped(c) \in Char
  BY DEF Unescaped, Char, LF
<1>3. /\ Add(c) \in Seq(Seq(Char)) \ {<<>>} /\ Add(Unescaped(c)) \in Seq(Seq(Char)) \ {<<>>}
      /\ Append(p.fields, <<>>) \in Seq(Seq(Char)) \ {<<>>}
  BY <1>1, <1>2, LastField
<1>4. ASSUME NEW g \in Seq(Seq(Char)) \ {<<>>}, NEW e \in BOOLEAN, NEW k \in BOOLEAN
      PROVE  /\ [p EXCEPT !.fields = g] \in ParserState /\ [p EXCEPT !.fields = g].ok = p.ok
             /\ [p EXCEPT !.ok = k] \in ParserState /\ [p EXCEPT !.ok = k].ok = k
             /\ [p EXCEPT !.escape = e] \in ParserState /\ [p EXCEPT !.escape = e].ok = p.ok
             /\ [p EXCEPT !.escape = e, !.ok = k, !.fields = g] \in ParserState
             /\ [p EXCEPT !.escape = e, !.ok = k, !.fields = g].ok = k
  BY DEF ParserState
<1>5. (p.ok /\ Legal(c)) \in BOOLEAN /\ (~p.ok => (p.ok /\ Legal(c)) = FALSE)
  OBVIOUS
<1> DEFINE k == p.ok /\ Legal(c)
<1>6. \/ ParseChar(c, p) = p
      \/ ParseChar(c, p) = [p EXCEPT !.escape = FALSE, !.ok = k, !.fields = Add(Unescaped(c))]
      \/ ParseChar(c, p) = [p EXCEPT !.fields = Append(p.fields, <<>>)]
      \/ ParseChar(c, p) = [p EXCEPT !.ok = FALSE]
      \/ ParseChar(c, p) = [p EXCEPT !.escape = TRUE]
      \/ ParseChar(c, p) = [p EXCEPT !.fields = Add(c)]
  BY DEF ParseChar
<1> DEFINE f == Add(c)
           g == Add(Unescaped(c))
           h == Append(p.fields, <<>>)
<1> HIDE DEF Add, k, f, g, h
<1>7. \A x \in {f, g, h} : x \in Seq(Seq(Char)) \ {<<>>}
  BY <1>3 DEF f, g, h
<1>8. k \in BOOLEAN /\ (~p.ok => k = FALSE)
  BY <1>5 DEF k
<1>9. /\ [p EXCEPT !.fields = f] \in ParserState /\ [p EXCEPT !.fields = f].ok = p.ok
      /\ [p EXCEPT !.fields = h] \in ParserState /\ [p EXCEPT !.fields = h].ok = p.ok
  BY <1>4, <1>7
<1>10. /\ [p EXCEPT !.ok = FALSE] \in ParserState /\ [p EXCEPT !.ok = FALSE].ok = FALSE
  BY <1>3, <1>4
<1>11. [p EXCEPT !.escape = TRUE] \in ParserState /\ [p EXCEPT !.escape = TRUE].ok = p.ok
  BY <1>3, <1>4
<1> DEFINE q == [p EXCEPT !.escape = FALSE, !.ok = k, !.fields = g]
<1>12. q \in ParserState /\ q.ok = k
  BY <1>4, <1>7, <1>8
<1> HIDE DEF q
<1> QED
  BY <1>6, <1>8, <1>9, <1>10, <1>11, <1>12 DEF f, g, h, q

\* What is parsed of any line is well-formed.
LEMMA ParseType ==
    ASSUME NEW l \in Seq(Char)
    PROVE  Parse(l) \in ParserState
<1>1. PICK r : Run(r, l) /\ Parse(l) = r[Len(l)]
  BY ParseRuns
<1> DEFINE T == {k \in Nat : k <= Len(l) => r[k] \in ParserState}
<1>2. 0 \in T
  <2>1. Start \in ParserState
    <3>1. << <<>> >> \in Seq(Seq(Char)) \ {<<>>}
      OBVIOUS
    <3> QED
      BY <3>1 DEF Start, ParserState
  <2> QED
    BY <1>1, <2>1 DEF Run
<1>3. ASSUME NEW k \in Nat, k \in T
      PROVE  k + 1 \in T
  <2> SUFFICES ASSUME k + 1 <= Len(l)
               PROVE  r[k + 1] \in ParserState
    OBVIOUS
  <2>1. k + 1 \in 1..Len(l) /\ k <= Len(l) /\ (k + 1) - 1 = k /\ l[k + 1] \in Char
    OBVIOUS
  <2>2. r[k] \in ParserState /\ r[k + 1] = ParseChar(l[k + 1], r[k])
    BY <1>1, <1>3, <2>1 DEF Run
  <2> QED
    BY <2>1, <2>2, ParseCharType
<1> HIDE DEF T
<1>4. Len(l) \in Nat /\ Len(l) \in T
  BY <1>2, <1>3, SuccessorClosed
<1> QED
  BY <1>1, <1>4 DEF T

\* The state in which a second field is being read and holds g so far.
Reading(g) == [fields |-> <<Uid, g>>, escape |-> FALSE, ok |-> TRUE]

\* The fields while the second one is being read.
LEMMA TwoFields ==
    ASSUME NEW g \in Seq(Char), NEW d \in Char
    PROVE  /\ Len(<<Uid, g>>) = 2 /\ Last(<<Uid, g>>) = g
           /\ Append(Front(<<Uid, g>>), Append(g, d)) = <<Uid, Append(g, d)>>
           /\ Append(<<Uid, g>>, <<>>) = <<Uid, g, <<>>>>
<1>1. Len(<<Uid, g>>) = 2 /\ Last(<<Uid, g>>) = g
  BY DEF Last
<1>2. Uid \in Seq(Char) /\ Append(g, d) \in Seq(Char) /\ <<>> \in Seq(Char)
  BY DEF Uid, Char
<1> DEFINE u == Uid
           h == Append(g, d)
           e == <<>>
<1> HIDE DEF u, h, e
<1>3. u \in Seq(Char) /\ h \in Seq(Char) /\ e \in Seq(Char)
  BY <1>2 DEF u, h, e
<1>4. ASSUME NEW S, NEW a \in S, NEW b \in S, NEW c \in S
      PROVE  /\ SubSeq(<<a, b>>, 1, 1) = <<a>> /\ Append(<<a>>, c) = <<a, c>>
             /\ Append(<<a, b>>, c) = <<a, b, c>>
  <2>1. SubSeq(<<a, b>>, 1, 1) = <<a>> /\ Append(<<a, b>>, c) = <<a, b, c>>
    BY ShortSequences
  <2>2. ASSUME NEW x \in S
        PROVE  Append(<<a>>, x) = <<a, x>>
    BY ShortSequences
  <2> QED
    BY <2>1, <2>2
<1>5. SubSeq(<<u, g>>, 1, 1) = <<u>> /\ Append(<<u>>, h) = <<u, h>>
      /\ Append(<<u, g>>, e) = <<u, g, e>>
  BY <1>3, <1>4
<1>6. Len(<<u, g>>) - 1 = 1
  OBVIOUS
<1>7. Front(<<u, g>>) = <<u>>
  BY <1>5, <1>6 DEF Front
<1> QED
  BY <1>1, <1>5, <1>7 DEF u, h, e

\* An ordinary character is added to a field that is not full.
LEMMA ReadPlain ==
    ASSUME NEW g \in Seq(Char), Len(g) < FieldMax, NEW c \in Char, c # Colon, c # Backslash
    PROVE  ParseChar(c, Reading(g)) = Reading(Append(g, c))
<1> DEFINE p == Reading(g)
<1>1. p.fields = <<Uid, g>> /\ ~p.escape
  BY DEF Reading
<1>2. ~Full(Last(p.fields)) /\ ~(Len(p.fields) > Columns)
  BY <1>1, TwoFields, LimitAssumption DEF Full, Columns
<1>3. ParseChar(c, p) = [p EXCEPT !.fields = Append(Front(p.fields), Append(Last(p.fields), c))]
  BY <1>1, <1>2 DEF ParseChar
<1>4. ParseChar(c, p) = [p EXCEPT !.fields = <<Uid, Append(g, c)>>]
  BY <1>1, <1>3, TwoFields
<1> QED
  BY <1>4 DEF Reading

\* An escape is two characters that add one.
LEMMA ReadEscape ==
    ASSUME NEW g \in Seq(Char), Len(g) < FieldMax, NEW c \in Char, Legal(c)
    PROVE  ParseChar(c, ParseChar(Backslash, Reading(g))) = Reading(Append(g, Unescaped(c)))
<1> DEFINE p == Reading(g)
           q == [fields |-> <<Uid, g>>, escape |-> TRUE, ok |-> TRUE]
<1>1. p.fields = <<Uid, g>> /\ ~p.escape
  BY DEF Reading
<1>2. ~Full(Last(p.fields)) /\ ~(Len(p.fields) > Columns)
  BY <1>1, TwoFields, LimitAssumption DEF Full, Columns
<1>3. ParseChar(Backslash, p) = q
  <2>1. ParseChar(Backslash, p) = [p EXCEPT !.escape = TRUE]
    BY <1>1, <1>2 DEF ParseChar, Colon, Backslash
  <2> QED
    BY <2>1 DEF Reading
<1>4. Unescaped(c) \in Char
  BY DEF Unescaped, Char, LF
<1>5. q.fields = <<Uid, g>> /\ q.escape /\ q.ok /\ ~(Len(q.fields) > Columns)
  BY TwoFields DEF Columns
<1>6. ParseChar(c, q) = [q EXCEPT !.escape = FALSE, !.ok = q.ok /\ Legal(c),
                                  !.fields = Append(Front(q.fields),
                                                    Append(Last(q.fields), Unescaped(c)))]
  BY <1>5 DEF ParseChar
<1>7. ParseChar(c, q) = [q EXCEPT !.escape = FALSE, !.ok = q.ok /\ Legal(c),
                                  !.fields = <<Uid, Append(g, Unescaped(c))>>]
  <2>1. Append(Front(q.fields), Append(Last(q.fields), Unescaped(c)))
            = <<Uid, Append(g, Unescaped(c))>>
    BY <1>4, <1>5, TwoFields
  <2> HIDE DEF q
  <2> QED
    BY <1>6, <2>1
<1>8. (q.ok /\ Legal(c)) = TRUE
  BY <1>5 DEF Legal
<1>9. ParseChar(c, q) = Reading(Append(g, Unescaped(c)))
  BY <1>7, <1>8 DEF Reading
<1> QED
  BY <1>3, <1>9

\* A full field takes nothing but its separator.
LEMMA ReadFull ==
    ASSUME NEW g \in Seq(Char), Len(g) >= FieldMax, NEW c \in Char, c # Colon
    PROVE  ~ParseChar(c, Reading(g)).ok
<1> DEFINE p == Reading(g)
<1>1. p.fields = <<Uid, g>> /\ ~p.escape
  BY DEF Reading
<1>2. Full(Last(p.fields)) /\ ~(Len(p.fields) > Columns)
  BY <1>1, TwoFields DEF Full, Columns
<1>3. ParseChar(c, p) = [p EXCEPT !.ok = FALSE]
  BY <1>1, <1>2 DEF ParseChar
<1> QED
  BY <1>3 DEF Reading

(***************************************************************************)
(* The escaped text, character by character.                               *)
(***************************************************************************)

\* A character is itself or an escape that the parser reads as that character;
\* only a backslash is itself and read as an escape.
LEMMA EscapedForms ==
    ASSUME NEW c \in Char
    PROVE  /\ Escaped(c) \in Seq(Char)
           /\ \/ c # Colon /\ Escaped(c) = <<c>>
              \/ \E d \in Char : /\ Escaped(c) = <<Backslash, d>>
                                 /\ d # Backslash /\ Legal(d) /\ Unescaped(d) = c
<1>1. \A x, y \in Char : <<x>> \in Seq(Char) /\ <<x, y>> \in Seq(Char)
  OBVIOUS
<1>2. Backslash \in Char /\ Colon \in Char /\ "n" \in Char
  BY DEF Char, Backslash, Colon
<1>3. CASE c = Colon
  <2>1. Escaped(c) = <<Backslash, Colon>>
    BY <1>3 DEF Escaped, Colon, LF
  <2>2. Colon # Backslash /\ Legal(Colon) /\ Unescaped(Colon) = c
    BY <1>3 DEF Legal, Unescaped, Colon, Backslash
  <2> QED
    BY <1>1, <1>2, <2>1, <2>2
<1>4. CASE c = LF
  <2>1. Escaped(c) = <<Backslash, "n">>
    BY <1>4 DEF Escaped, Colon, LF
  <2>2. "n" # Backslash /\ Legal("n") /\ Unescaped("n") = c
    BY <1>4 DEF Legal, Unescaped, Backslash
  <2> QED
    BY <1>1, <1>2, <2>1, <2>2
<1>5. CASE c # Colon /\ c # LF
  <2>1. Escaped(c) = <<c>>
    BY <1>5 DEF Escaped
  <2> QED
    BY <1>1, <1>5, <2>1
<1> QED
  BY <1>3, <1>4, <1>5

\* The first n of the sequences of s, joined one after the other.
Joined(f, s, n) ==
    f = [i \in 1..n |-> IF i = 1 THEN s[i] ELSE f[i - 1] \o s[i]]

\* The join is defined, however many there are.
LEMMA JoinExists ==
    ASSUME NEW s, NEW n \in Nat
    PROVE  \E f : Joined(f, s, n)
<1> DEFINE T == {i \in Nat : \E f : Joined(f, s, i)}
<1>1. 0 \in T
  <2> DEFINE f == [i \in 1..0 |-> s[i]]
  <2>1. f = [i \in 1..0 |-> IF i = 1 THEN s[i] ELSE f[i - 1] \o s[i]]
    OBVIOUS
  <2>2. Joined(f, s, 0)
    BY <2>1 DEF Joined
  <2> QED
    BY <2>2
<1>2. ASSUME NEW i \in Nat, i \in T
      PROVE  i + 1 \in T
  <2>1. PICK g : Joined(g, s, i)
    BY <1>2
  <2> DEFINE f == [j \in 1..(i + 1) |->
                      IF j = i + 1 THEN IF j = 1 THEN s[j] ELSE g[j - 1] \o s[j] ELSE g[j]]
             step(j) == IF j = 1 THEN s[j] ELSE f[j - 1] \o s[j]
  <2>2. ASSUME NEW j \in 1..(i + 1)
        PROVE  f[j] = step(j)
    <3>1. CASE j = 1 /\ i = 0
      BY <3>1
    <3>2. CASE j = 1 /\ i # 0
      <4>1. j \in 1..i /\ j # i + 1
        BY <3>2
      <4>2. g[j] = s[j]
        BY <2>1, <3>2, <4>1 DEF Joined
      <4> QED
        BY <3>2, <4>1, <4>2
    <3>3. CASE j # 1
      <4>1. j - 1 \in 1..i /\ j - 1 \in 1..(i + 1) /\ j - 1 # i + 1
        BY <3>3
      <4>2. f[j - 1] = g[j - 1]
        BY <4>1
      <4>3. CASE j = i + 1
        BY <3>3, <4>2, <4>3
      <4>4. CASE j # i + 1
        <5>1. j \in 1..i
          BY <4>4
        <5>2. g[j] = g[j - 1] \o s[j]
          BY <2>1, <3>3, <5>1 DEF Joined
        <5> QED
          BY <3>3, <4>2, <4>4, <5>2
      <4> QED
        BY <4>3, <4>4
    <3> QED
      BY <3>1, <3>2, <3>3
  <2>3. f = [j \in 1..(i + 1) |-> step(j)]
    <3>1. f = [j \in 1..(i + 1) |-> f[j]]
      OBVIOUS
    <3> HIDE DEF f, step
    <3> QED
      BY <2>2, <3>1
  <2>4. Joined(f, s, i + 1)
    BY <2>3 DEF Joined
  <2> QED
    BY <2>4
<1> HIDE DEF T
<1>3. n \in T
  BY <1>1, <1>2, SuccessorClosed
<1> QED
  BY <1>3 DEF T

\* The escaped text after each character of t.
Steps(e, t) == /\ e[0] = <<>>
               /\ \A k \in 1..Len(t) : e[k] = e[k - 1] \o Escaped(t[k])

\* They lead to the escaped text.
LEMMA EscapeSteps ==
    ASSUME NEW t \in Seq(Char)
    PROVE  \E e : Steps(e, t) /\ Escape(t) = e[Len(t)]
<1> DEFINE s == [i \in 1..Len(t) |-> Escaped(t[i])]
<1>1. Len(t) \in Nat
  OBVIOUS
<1>2. s \in Seq(Seq(Char)) /\ Len(s) = Len(t) /\ \A i \in 1..Len(t) : s[i] = Escaped(t[i])
  <2>1. \A c \in Char : Escaped(c) \in Seq(Char)
    BY EscapedForms
  <2>2. \A i \in 1..Len(t) : s[i] \in Seq(Char)
    BY <2>1
  <2> QED
    BY <1>1, <2>2
<1>3. Escape(t) = FlattenSeq(s)
  BY DEF Escape
<1> HIDE DEF s
<1>4. PICK f : Joined(f, s, Len(t)) /\ (Len(t) # 0 => FlattenSeq(s) = f[Len(t)])
  <2>1. PICK g : Joined(g, s, Len(t))
    BY <1>1, JoinExists
  <2>2. \E f : /\ f = [i \in 1..Len(s) |-> IF i = 1 THEN s[i] ELSE f[i - 1] \o s[i]]
               /\ Len(s) # 0 => FlattenSeq(s) = f[Len(s)]
    <3>1. g = [i \in 1..Len(s) |-> IF i = 1 THEN s[i] ELSE g[i - 1] \o s[i]]
      BY <1>2, <2>1 DEF Joined
    <3> QED
      BY <3>1 DEF FlattenSeq
  <2> QED
    BY <1>2, <2>2 DEF Joined
<1> DEFINE e == [k \in 0..Len(t) |-> IF k = 0 THEN <<>> ELSE f[k]]
<1>5. e[0] = <<>>
  BY <1>1
<1>6. ASSUME NEW k \in 1..Len(t)
      PROVE  e[k] = e[k - 1] \o Escaped(t[k])
  <2>1. k \in 0..Len(t) /\ k # 0 /\ k - 1 \in 0..Len(t)
    BY <1>1
  <2>2. CASE k = 1
    <3>1. e[k] = s[1] /\ e[k - 1] = <<>>
      BY <1>4, <2>1, <2>2 DEF Joined
    <3>2. s[1] \in Seq(Char) /\ s[1] = Escaped(t[k])
      BY <1>2, <2>2
    <3>3. \A x \in Seq(Char) : x = <<>> \o x
      OBVIOUS
    <3> HIDE DEF e
    <3> QED
      BY <3>1, <3>2, <3>3
  <2>3. CASE k # 1
    <3>1. k \in 1..Len(t) /\ k - 1 # 0
      BY <2>3
    <3>2. f[k] = f[k - 1] \o s[k]
      BY <1>4, <2>3, <3>1 DEF Joined
    <3> QED
      BY <1>2, <2>1, <3>1, <3>2
  <2> QED
    BY <2>2, <2>3
<1>7. Escape(t) = e[Len(t)]
  <2>1. CASE Len(t) = 0
    <3>1. FlattenSeq(s) = s /\ s = <<>>
      BY <1>2, <2>1 DEF FlattenSeq
    <3> QED
      BY <1>3, <2>1, <3>1
  <2>2. CASE Len(t) # 0
    BY <1>1, <1>3, <1>4, <2>2
  <2> QED
    BY <2>1, <2>2
<1> HIDE DEF e
<1>8. Steps(e, t)
  BY <1>5, <1>6 DEF Steps
<1> QED
  BY <1>7, <1>8

(***************************************************************************)
(* An escaped text and how it is read again.                               *)
(***************************************************************************)

\* A sequence at the end of a sequence at the end of another.
LEMMA Concatenation ==
    ASSUME NEW S, NEW s \in Seq(S), NEW u \in Seq(S), NEW c \in S, NEW d \in S
    PROVE  /\ s \o u \in Seq(S)
           /\ s \o Append(u, c) = Append(s \o u, c)
           /\ u \o <<c>> = Append(u, c)
           /\ u \o <<c, d>> = Append(Append(u, c), d)
<1>1. /\ Len(s) \in Nat /\ Len(u) \in Nat /\ s \o u \in Seq(S) /\ Append(u, c) \in Seq(S)
      /\ <<c>> \in Seq(S) /\ <<c, d>> \in Seq(S)
  OBVIOUS
<1>2. ASSUME NEW x \in Seq(S), NEW y \in Seq(S), Len(x) = Len(y),
             \A i \in 1..Len(x) : x[i] = y[i]
      PROVE  x = y
  BY <1>2
<1>3. s \o Append(u, c) = Append(s \o u, c)
  <2> DEFINE x == s \o Append(u, c)
             y == Append(s \o u, c)
  <2>1. x \in Seq(S) /\ y \in Seq(S) /\ Len(x) = Len(s) + Len(u) + 1 /\ Len(y) = Len(x)
    BY <1>1
  <2>2. \A i \in 1..Len(x) : x[i] = y[i]
    <3> SUFFICES ASSUME NEW i \in 1..(Len(s) + Len(u) + 1)
                 PROVE  x[i] = y[i]
      BY <2>1
    <3>1. CASE i <= Len(s)
      BY <1>1, <3>1
    <3>2. CASE i > Len(s) /\ i <= Len(s) + Len(u)
      BY <1>1, <3>2
    <3>3. CASE i = Len(s) + Len(u) + 1
      BY <1>1, <3>3
    <3> QED
      BY <1>1, <3>1, <3>2, <3>3
  <2> HIDE DEF x, y
  <2>3. x = y
    BY <1>2, <2>1, <2>2
  <2> QED
    BY <2>3 DEF x, y
<1>4. u \o <<c>> = Append(u, c)
  <2> DEFINE x == u \o <<c>>
             y == Append(u, c)
  <2>1. x \in Seq(S) /\ y \in Seq(S) /\ Len(x) = Len(u) + 1 /\ Len(y) = Len(x)
    BY <1>1
  <2>2. \A i \in 1..Len(x) : x[i] = y[i]
    BY <1>1
  <2> HIDE DEF x, y
  <2>3. x = y
    BY <1>2, <2>1, <2>2
  <2> QED
    BY <2>3 DEF x, y
<1>5. u \o <<c, d>> = Append(Append(u, c), d)
  <2> DEFINE x == u \o <<c, d>>
             y == Append(Append(u, c), d)
  <2>1. x \in Seq(S) /\ y \in Seq(S) /\ Len(x) = Len(u) + 2 /\ Len(y) = Len(x)
    BY <1>1
  <2>2. \A i \in 1..Len(x) : x[i] = y[i]
    <3> SUFFICES ASSUME NEW i \in 1..(Len(u) + 2)
                 PROVE  x[i] = y[i]
      BY <2>1
    <3>1. CASE i <= Len(u)
      BY <1>1, <3>1
    <3>2. CASE i = Len(u) + 1
      BY <1>1, <3>2
    <3>3. CASE i = Len(u) + 2
      BY <1>1, <3>3
    <3> QED
      BY <1>1, <3>1, <3>2, <3>3
  <2> HIDE DEF x, y
  <2>3. x = y
    BY <1>2, <2>1, <2>2
  <2> QED
    BY <2>3 DEF x, y
<1> QED
  BY <1>1, <1>3, <1>4, <1>5

\* A line as far as its text.
Before == Uid \o <<Colon>>

\* No separator among the characters of u, nor an escape open at its end.
Closed(u) == /\ \A i \in 1..Len(u) : u[i] = Colon => i # 1 /\ u[i - 1] = Backslash
             /\ u # <<>> => u[Len(u)] # Backslash

\* The characters u stand for the text g, if a field can hold it.
Escapes(u, g) ==
    /\ u \in Seq(Char) /\ Len(u) <= 2 * Len(g) /\ Closed(u)
    /\ Len(g) <= FieldMax => Parse(Before \o u) = Reading(g)
    /\ Len(g) > FieldMax => ~Parse(Before \o u).ok

\* The line as far as its text is two fields, the second one empty.
LEMMA ParseBefore ==
    /\ Before \in Seq(Char) /\ Len(Before) = 2 /\ Before[1] = "n" /\ Before[2] = Colon
    /\ Parse(Uid) = [fields |-> <<Uid>>, escape |-> FALSE, ok |-> TRUE]
    /\ Parse(Before) = Reading(<<>>)
<1>1. /\ <<>> \in Seq(Char) /\ "n" \in Char /\ Colon \in Char /\ "n" # Colon
      /\ "n" # Backslash /\ Uid \in Seq(Char)
  BY DEF Char, Colon, Backslash, Uid
<1>2. Append(<<>>, "n") = Uid
  BY DEF Uid
<1>3. Before = Append(Uid, Colon)
  <2>1. ASSUME NEW u \in Seq(Char), NEW c \in Char
        PROVE  u \o <<c>> = Append(u, c)
    BY <2>1, Concatenation
  <2> QED
    BY <1>1, <2>1 DEF Before
<1>4. Before \in Seq(Char) /\ Len(Before) = 2 /\ Before[1] = "n" /\ Before[2] = Colon
  BY <1>1, <1>3 DEF Uid
<1> DEFINE p == [fields |-> <<Uid>>, escape |-> FALSE, ok |-> TRUE]
<1>5. Parse(Uid) = p
  <2>1. Parse(Uid) = ParseChar("n", Start)
    BY <1>1, <1>2, ParseAppend, ParseEmpty
  <2>2. /\ Start.fields = << <<>> >> /\ ~Start.escape /\ Len(Start.fields) = 1
        /\ Last(Start.fields) = <<>>
    BY DEF Start, Last
  <2>3. ~Full(Last(Start.fields))
    BY <2>2, LimitAssumption DEF Full
  <2>4. Append(Front(Start.fields), Append(Last(Start.fields), "n")) = <<Uid>>
    <3>1. Front(Start.fields) = <<>>
      BY <2>2 DEF Front
    <3> QED
      BY <1>2, <2>2, <3>1
  <2>5. ParseChar("n", Start)
            = [Start EXCEPT !.fields = Append(Front(Start.fields), Append(Last(Start.fields), "n"))]
    BY <1>1, <2>2, <2>3 DEF ParseChar, Columns
  <2>6. ParseChar("n", Start) = [Start EXCEPT !.fields = <<Uid>>]
    BY <2>4, <2>5
  <2> QED
    BY <2>1, <2>6 DEF Start
<1>6. ParseChar(Colon, p) = Reading(<<>>)
  <2>1. p.fields = <<Uid>> /\ ~p.escape /\ Len(p.fields) = 1
    OBVIOUS
  <2>2. ParseChar(Colon, p) = [p EXCEPT !.fields = Append(p.fields, <<>>)]
    BY <2>1 DEF ParseChar, Columns
  <2>3. Append(<<Uid>>, <<>>) = <<Uid, <<>>>>
    <3>1. ASSUME NEW S, NEW a \in S, NEW b \in S
          PROVE  Append(<<a>>, b) = <<a, b>>
      BY ShortSequences
    <3> QED
      BY <1>1, <3>1
  <2> QED
    BY <2>1, <2>2, <2>3 DEF Reading
<1>7. Parse(Before) = Reading(<<>>)
  BY <1>1, <1>3, <1>5, <1>6, ParseAppend
<1> QED
  BY <1>4, <1>5, <1>7

\* What stands behind the beginning of a line.
LEMMA BehindBefore ==
    ASSUME NEW u \in Seq(Char)
    PROVE  LET w == Before \o u
           IN /\ w \in Seq(Char) /\ Len(u) \in Nat /\ Len(w) = Len(u) + 2
              /\ w[1] = "n" /\ w[2] = Colon /\ \A i \in 1..Len(u) : w[i + 2] = u[i]
<1>1. ASSUME NEW a \in Seq(Char), NEW b \in Seq(Char), Len(a) = 2
      PROVE  /\ Len(a \o b) = Len(b) + 2 /\ (a \o b)[1] = a[1] /\ (a \o b)[2] = a[2]
             /\ \A i \in 1..Len(b) : (a \o b)[i + 2] = b[i]
  <2>1. /\ Len(b) \in Nat /\ Len(a \o b) = Len(a) + Len(b)
        /\ \A i \in 1..(Len(a) + Len(b)) :
               (a \o b)[i] = IF i <= Len(a) THEN a[i] ELSE b[i - Len(a)]
    OBVIOUS
  <2>2. ASSUME NEW i \in 1..Len(b)
        PROVE  (a \o b)[i + 2] = b[i]
    <3>1. i + 2 \in 1..(Len(a) + Len(b)) /\ ~(i + 2 <= Len(a)) /\ (i + 2) - Len(a) = i
      BY <1>1, <2>1
    <3> QED
      BY <2>1, <3>1
  <2> QED
    BY <1>1, <2>1, <2>2
<1> QED
  BY <1>1, ParseBefore

\* Nothing stands for the empty text.
LEMMA EscapesNothing == Escapes(<<>>, <<>>)
<1>1. /\ <<>> \in Seq(Char) /\ Len(<<>>) = 0 /\ FieldMax \in Nat /\ Before \o <<>> = Before
  BY ParseBefore, LimitAssumption
<1>2. Closed(<<>>)
  BY DEF Closed
<1> QED
  BY <1>1, <1>2, ParseBefore DEF Escapes

\* One more character and its escape; an error stays one.
LEMMA EscapesNext ==
    ASSUME NEW u, NEW g \in Seq(Char), Escapes(u, g), NEW c \in Char, c # Backslash
    PROVE  Escapes(u \o Escaped(c), Append(g, c))
<1> DEFINE w == Before \o u
           m == FieldMax
<1>1. u \in Seq(Char) /\ w \in Seq(Char) /\ m \in Nat /\ Backslash \in Char
  BY ParseBefore, LimitAssumption DEF Escapes, Char, Backslash
<1>2. /\ Len(u) \in Nat /\ Len(g) \in Nat /\ Len(Append(g, c)) = Len(g) + 1
      /\ Append(g, c) \in Seq(Char)
  BY <1>1
<1>3. Parse(w) \in ParserState
  BY <1>1, ParseType
<1>4. /\ Len(g) <= m => Parse(w) = Reading(g)
      /\ Len(g) > m => ~Parse(w).ok
      /\ Len(u) <= 2 * Len(g) /\ Closed(u)
  BY DEF Escapes
<1>5. CASE c # Colon /\ Escaped(c) = <<c>>
  <2> DEFINE v == Append(u, c)
  <2>1. u \o Escaped(c) = v /\ Before \o v = Append(w, c)
    BY <1>1, <1>5, Concatenation, ParseBefore
  <2>2. v \in Seq(Char) /\ Len(v) = Len(u) + 1 /\ v[Len(v)] = c
        /\ \A i \in 1..Len(u) : v[i] = u[i]
    BY <1>1
  <2>3. Parse(Before \o v) = ParseChar(c, Parse(w))
    BY <1>1, <2>1, ParseAppend
  <2>4. Closed(v)
    <3>1. ASSUME NEW i \in 1..Len(v), v[i] = Colon
          PROVE  i # 1 /\ v[i - 1] = Backslash
      <4>1. i # Len(v)
        BY <1>5, <2>2, <3>1
      <4>2. i \in 1..Len(u) /\ u[i] = Colon
        BY <1>2, <2>2, <3>1, <4>1
      <4>3. i # 1 /\ u[i - 1] = Backslash
        BY <1>4, <4>2 DEF Closed
      <4>4. i - 1 \in 1..Len(u)
        BY <1>2, <4>2, <4>3
      <4> QED
        BY <2>2, <4>3, <4>4
    <3> HIDE DEF v
    <3> QED
      BY <2>2, <3>1 DEF Closed
  <2>5. Len(g) < m => ParseChar(c, Parse(w)) = Reading(Append(g, c))
    BY <1>2, <1>4, <1>1, <1>5, ReadPlain
  <2>6. Len(g) >= m => ~ParseChar(c, Parse(w)).ok
    <3>1. CASE Len(g) = m
      BY <1>1, <1>4, <1>5, <3>1, ReadFull
    <3>2. CASE Len(g) > m
      BY <1>3, <1>4, <3>2, ParseCharType
    <3> QED
      BY <1>1, <1>2, <3>1, <3>2
  <2> HIDE DEF v, w, m
  <2>7. /\ Len(v) <= 2 * Len(Append(g, c))
        /\ Len(Append(g, c)) <= m => Parse(Before \o v) = Reading(Append(g, c))
        /\ Len(Append(g, c)) > m => ~Parse(Before \o v).ok
    BY <1>1, <1>2, <1>4, <2>2, <2>3, <2>5, <2>6
  <2> QED
    BY <2>1, <2>2, <2>4, <2>7 DEF Escapes, m
<1>6. ASSUME NEW d \in Char, Escaped(c) = <<Backslash, d>>, d # Backslash, Legal(d),
             Unescaped(d) = c
      PROVE  Escapes(u \o Escaped(c), Append(g, c))
  <2> DEFINE x == Append(u, Backslash)
             v == Append(x, d)
  <2>1. /\ u \o Escaped(c) = v /\ Before \o x = Append(w, Backslash)
        /\ Before \o v = Append(Append(w, Backslash), d)
    <3>1. x \in Seq(Char) /\ Before \in Seq(Char)
      BY <1>1, ParseBefore
    <3>2. u \o Escaped(c) = v
      BY <1>1, <1>6, Concatenation
    <3>3. Before \o x = Append(w, Backslash)
      BY <1>1, <3>1, Concatenation
    <3>4. Before \o v = Append(Before \o x, d)
      <4> HIDE DEF x
      <4> QED
        BY <3>1, Concatenation
    <3> QED
      BY <3>2, <3>3, <3>4
  <2>2. /\ v \in Seq(Char) /\ Len(v) = Len(u) + 2 /\ v[Len(u) + 2] = d
        /\ v[Len(u) + 1] = Backslash /\ \A i \in 1..Len(u) : v[i] = u[i]
    BY <1>1, <1>2
  <2> DEFINE p == ParseChar(Backslash, Parse(w))
  <2>3. Parse(Before \o v) = ParseChar(d, p)
    <3>1. ASSUME NEW y \in Seq(Char), NEW e \in Char
          PROVE  Append(y, e) \in Seq(Char) /\ Parse(Append(y, e)) = ParseChar(e, Parse(y))
      BY ParseAppend
    <3> HIDE DEF w
    <3>2. Append(w, Backslash) \in Seq(Char) /\ Parse(Append(w, Backslash)) = p
      BY <1>1, <3>1
    <3>3. Parse(Append(Append(w, Backslash), d)) = ParseChar(d, p)
      BY <3>1, <3>2
    <3> QED
      BY <2>1, <3>3
  <2>4. Closed(v)
    <3>1. ASSUME NEW i \in 1..Len(v), v[i] = Colon
          PROVE  i # 1 /\ v[i - 1] = Backslash
      <4>1. CASE i = Len(u) + 2
        BY <1>2, <2>2, <4>1
      <4>2. CASE i # Len(u) + 2
        <5>1. i # Len(u) + 1
          BY <2>2, <3>1 DEF Colon, Backslash
        <5>2. i \in 1..Len(u) /\ u[i] = Colon
          BY <1>2, <2>2, <3>1, <4>2, <5>1
        <5>3. i # 1 /\ u[i - 1] = Backslash
          BY <1>4, <5>2 DEF Closed
        <5>4. i - 1 \in 1..Len(u)
          BY <1>2, <5>2, <5>3
        <5> QED
          BY <2>2, <5>3, <5>4
      <4> QED
        BY <4>1, <4>2
    <3> HIDE DEF v
    <3> QED
      BY <1>6, <2>2, <3>1 DEF Closed
  <2>5. Len(g) < m => ParseChar(d, p) = Reading(Append(g, c))
    BY <1>2, <1>4, <1>1, <1>6, ReadEscape
  <2>6. Len(g) >= m => ~ParseChar(d, p).ok
    <3>1. p \in ParserState
      BY <1>1, <1>3, ParseCharType
    <3>2. CASE Len(g) = m
      <4>1. ~p.ok
        BY <1>1, <1>4, <3>2, ReadFull DEF Colon, Backslash
      <4> QED
        BY <3>1, <4>1, ParseCharType
    <3>3. CASE Len(g) > m
      <4>1. ~p.ok
        BY <1>1, <1>3, <1>4, <3>3, ParseCharType
      <4> QED
        BY <3>1, <4>1, ParseCharType
    <3> QED
      BY <1>1, <1>2, <3>2, <3>3
  <2> HIDE DEF v, w, m, p
  <2>7. /\ Len(v) <= 2 * Len(Append(g, c))
        /\ Len(Append(g, c)) <= m => Parse(Before \o v) = Reading(Append(g, c))
        /\ Len(Append(g, c)) > m => ~Parse(Before \o v).ok
    BY <1>1, <1>2, <1>4, <2>2, <2>3, <2>5, <2>6
  <2> QED
    BY <2>1, <2>2, <2>4, <2>7 DEF Escapes, m
<1> QED
  BY <1>5, <1>6, EscapedForms

\* The beginnings of a sequence.
LEMMA Beginnings ==
    ASSUME NEW S, NEW t \in Seq(S)
    PROVE  /\ SubSeq(t, 1, 0) = <<>> /\ SubSeq(t, 1, Len(t)) = t
           /\ \A n \in Nat : n < Len(t) =>
                  SubSeq(t, 1, n) \in Seq(S)
                  /\ SubSeq(t, 1, n + 1) = Append(SubSeq(t, 1, n), t[n + 1])
<1>1. ASSUME NEW x \in Seq(S), NEW y \in Seq(S), Len(x) = Len(y),
             \A i \in 1..Len(x) : x[i] = y[i]
      PROVE  x = y
  BY <1>1
<1>2. Len(t) \in Nat /\ SubSeq(t, 1, 0) = <<>>
  OBVIOUS
<1>3. SubSeq(t, 1, Len(t)) = t
  <2> DEFINE x == SubSeq(t, 1, Len(t))
  <2>1. x \in Seq(S) /\ Len(x) = Len(t) /\ \A i \in 1..Len(x) : x[i] = t[i]
    OBVIOUS
  <2> HIDE DEF x
  <2>2. x = t
    BY <1>1, <2>1
  <2> QED
    BY <2>2 DEF x
<1>4. ASSUME NEW n \in Nat, n < Len(t)
      PROVE  /\ SubSeq(t, 1, n) \in Seq(S)
             /\ SubSeq(t, 1, n + 1) = Append(SubSeq(t, 1, n), t[n + 1])
  <2> DEFINE s == SubSeq(t, 1, n)
             x == SubSeq(t, 1, n + 1)
             y == Append(s, t[n + 1])
  <2>1. t[n + 1] \in S /\ s \in Seq(S) /\ Len(s) = n /\ \A i \in 1..n : s[i] = t[i]
    BY <1>2, <1>4
  <2>2. x \in Seq(S) /\ Len(x) = n + 1 /\ \A i \in 1..(n + 1) : x[i] = t[i]
    BY <1>2, <1>4
  <2>3. y \in Seq(S) /\ Len(y) = n + 1 /\ y[n + 1] = t[n + 1] /\ \A i \in 1..n : y[i] = t[i]
    <3> HIDE DEF s
    <3> QED
      BY <2>1
  <2> HIDE DEF x, y
  <2>4. \A i \in 1..(n + 1) : x[i] = y[i]
    BY <2>2, <2>3
  <2>5. x = y
    BY <1>1, <2>2, <2>3, <2>4
  <2> QED
    BY <2>1, <2>5 DEF x, y
<1> QED
  BY <1>2, <1>3, <1>4

\* An escaped text stands for the text.
LEMMA EscapeEscapes ==
    ASSUME NEW t \in Seq(Char), \A i \in 1..Len(t) : t[i] # Backslash
    PROVE  Escapes(Escape(t), t)
<1>1. PICK e : Steps(e, t) /\ Escape(t) = e[Len(t)]
  BY EscapeSteps
<1> DEFINE T == {n \in Nat : n <= Len(t) => Escapes(e[n], SubSeq(t, 1, n))}
<1>2. 0 \in T
  BY <1>1, EscapesNothing, Beginnings DEF Steps
<1>3. ASSUME NEW n \in Nat, n \in T
      PROVE  n + 1 \in T
  <2> SUFFICES ASSUME n + 1 <= Len(t)
               PROVE  Escapes(e[n + 1], SubSeq(t, 1, n + 1))
    OBVIOUS
  <2>1. /\ n < Len(t) /\ n <= Len(t) /\ n + 1 \in 1..Len(t) /\ (n + 1) - 1 = n
        /\ t[n + 1] \in Char /\ t[n + 1] # Backslash
    OBVIOUS
  <2>2. Escapes(e[n], SubSeq(t, 1, n)) /\ e[n + 1] = e[n] \o Escaped(t[n + 1])
    BY <1>1, <1>3, <2>1 DEF Steps
  <2>3. /\ SubSeq(t, 1, n) \in Seq(Char)
        /\ SubSeq(t, 1, n + 1) = Append(SubSeq(t, 1, n), t[n + 1])
    BY <2>1, Beginnings
  <2>4. ASSUME NEW u, NEW g \in Seq(Char), NEW c \in Char, Escapes(u, g), c # Backslash
        PROVE  Escapes(u \o Escaped(c), Append(g, c))
    BY <2>4, EscapesNext
  <2>5. Escapes(e[n] \o Escaped(t[n + 1]), Append(SubSeq(t, 1, n), t[n + 1]))
    BY <2>1, <2>2, <2>3, <2>4
  <2> QED
    BY <2>2, <2>3, <2>5
<1> HIDE DEF T
<1>4. Len(t) \in Nat /\ Len(t) \in T
  BY <1>2, <1>3, SuccessorClosed
<1>5. Escapes(e[Len(t)], SubSeq(t, 1, Len(t)))
  BY <1>4 DEF T
<1>6. SubSeq(t, 1, Len(t)) = t
  BY Beginnings
<1> QED
  BY <1>1, <1>5, <1>6

\* An answer line that fits into a line of the session file.
Whole(t) == Before \o Escape(t) \o <<Colon>> \o Number

\* Such a line holds the text between its separators, if a field can hold it.
LEMMA WholeLine ==
    ASSUME NEW t \in Seq(Char), \A i \in 1..Len(t) : t[i] # Backslash
    PROVE  /\ Whole(t) \in Seq(Char)
           /\ CountColumns(Whole(t)) = Columns
           /\ Len(t) <= FieldMax =>
                  Parse(Whole(t)) = [fields |-> <<Uid, t, Number>>, escape |-> FALSE, ok |-> TRUE]
           /\ Len(t) > FieldMax => ~Parse(Whole(t)).ok
<1> DEFINE u == Escape(t)
           w == Before \o u
           x == Append(w, Colon)
           y == Append(x, "1")
<1>1. Escapes(u, t)
  BY EscapeEscapes
<1>2. /\ u \in Seq(Char) /\ w \in Seq(Char) /\ x \in Seq(Char) /\ y \in Seq(Char)
      /\ Colon \in Char /\ "1" \in Char /\ "1" # Colon /\ "1" # Backslash
      /\ <<>> \in Seq(Char) /\ Number \in Seq(Char) /\ Uid \in Seq(Char)
  BY <1>1, ParseBefore DEF Escapes, Char, Colon, Backslash, Number, Uid
<1> HIDE DEF u
<1>3. y = Whole(t)
  <2>1. ASSUME NEW s \in Seq(Char), NEW c \in Char
        PROVE  s \o <<c>> = Append(s, c)
    BY Concatenation
  <2>2. Whole(t) = (w \o <<Colon>>) \o <<"1">>
    BY DEF Whole, Number, u
  <2> HIDE DEF w
  <2>3. w \o <<Colon>> = x
    BY <1>2, <2>1
  <2>4. x \o <<"1">> = y
    <3> HIDE DEF x
    <3> QED
      BY <1>2, <2>1
  <2> QED
    BY <2>2, <2>3, <2>4
<1>4. ASSUME NEW s \in Seq(Char), NEW c \in Char
      PROVE  Parse(Append(s, c)) = ParseChar(c, Parse(s))
  BY ParseAppend
<1>5. Parse(x) = ParseChar(Colon, Parse(w)) /\ Parse(y) = ParseChar("1", Parse(x))
  <2> HIDE DEF w
  <2>1. Parse(x) = ParseChar(Colon, Parse(w))
    BY <1>2, <1>4
  <2> HIDE DEF x
  <2>2. Parse(y) = ParseChar("1", Parse(x))
    BY <1>2, <1>4
  <2> QED
    BY <2>1, <2>2
<1>6. ASSUME Len(t) <= FieldMax
      PROVE  Parse(y) = [fields |-> <<Uid, t, Number>>, escape |-> FALSE, ok |-> TRUE]
  <2> DEFINE p == [fields |-> <<Uid, t, <<>>>>, escape |-> FALSE, ok |-> TRUE]
  <2>1. Parse(w) = Reading(t)
    BY <1>1, <1>6 DEF Escapes
  <2>2. Append(<<Uid, t>>, <<>>) = <<Uid, t, <<>>>> /\ Len(<<Uid, t>>) = 2
    <3>1. ASSUME NEW d \in Char
          PROVE  Append(<<Uid, t>>, <<>>) = <<Uid, t, <<>>>>
      BY TwoFields
    <3> QED
      BY <1>2, <3>1
  <2>3. ParseChar(Colon, Reading(t)) = p
    <3>1. Reading(t).fields = <<Uid, t>> /\ ~Reading(t).escape
      BY DEF Reading
    <3>2. ParseChar(Colon, Reading(t)) = [Reading(t) EXCEPT !.fields = Append(<<Uid, t>>, <<>>)]
      BY <2>2, <3>1 DEF ParseChar, Columns
    <3> QED
      BY <2>2, <3>2 DEF Reading
  <2>4. /\ p.fields = <<Uid, t, <<>>>> /\ ~p.escape /\ Len(p.fields) = 3
        /\ Last(p.fields) = <<>>
    BY DEF Last
  <2>5. ~Full(<<>>)
    BY LimitAssumption DEF Full
  <2>6. Append(Front(<<Uid, t, <<>>>>), Append(<<>>, "1")) = <<Uid, t, Number>>
    <3>1. Front(<<Uid, t, <<>>>>) = <<Uid, t>>
      <4>1. ASSUME NEW S, NEW a \in S, NEW b \in S, NEW c \in S
            PROVE  SubSeq(<<a, b, c>>, 1, 2) = <<a, b>>
        <5> DEFINE s == SubSeq(<<a, b, c>>, 1, 2)
        <5>1. s \in Seq(S) /\ Len(s) = 2 /\ s[1] = a /\ s[2] = b
          BY <4>1
        <5>2. <<a, b>> \in Seq(S) /\ Len(<<a, b>>) = 2
          BY <4>1
        <5> HIDE DEF s
        <5>3. s = <<a, b>>
          BY <5>1, <5>2
        <5> QED
          BY <5>3 DEF s
      <4>2. Len(<<Uid, t, <<>>>>) - 1 = 2
        OBVIOUS
      <4>3. SubSeq(<<Uid, t, <<>>>>, 1, 2) = <<Uid, t>>
        BY <1>2, <4>1
      <4> QED
        BY <4>2, <4>3 DEF Front
    <3>2. ASSUME NEW S, NEW a \in S, NEW b \in S, NEW c \in S
          PROVE  Append(<<a, b>>, c) = <<a, b, c>>
      BY ShortSequences
    <3>3. Append(<<>>, "1") = Number
      BY DEF Number
    <3>4. Append(<<Uid, t>>, Number) = <<Uid, t, Number>>
      BY <1>2, <3>2
    <3> QED
      BY <3>1, <3>3, <3>4
  <2>7. ParseChar("1", p)
            = [p EXCEPT !.fields = Append(Front(p.fields), Append(Last(p.fields), "1"))]
    <3> HIDE DEF p
    <3> QED
      BY <1>2, <2>4, <2>5 DEF ParseChar, Columns
  <2>8. ParseChar("1", p) = [p EXCEPT !.fields = <<Uid, t, Number>>]
    BY <2>4, <2>6, <2>7
  <2> QED
    BY <1>5, <2>1, <2>3, <2>8
<1>7. ASSUME Len(t) > FieldMax
      PROVE  ~Parse(y).ok
  <2>1. ~Parse(w).ok /\ Parse(w) \in ParserState
    BY <1>1, <1>2, <1>7, ParseType DEF Escapes
  <2>2. ~Parse(x).ok /\ Parse(x) \in ParserState
    BY <1>2, <1>5, <2>1, ParseCharType
  <2> QED
    BY <1>2, <1>5, <2>2, ParseCharType
<1>8. CountColumns(y) = Columns
  <2> DEFINE n == Len(u)
             Seps == {i \in 1..Len(y) : y[i] = Colon /\ (i = 1 \/ y[i - 1] # Backslash)}
  <2>1. /\ n \in Nat /\ Len(w) = n + 2 /\ w[1] = "n" /\ w[2] = Colon
        /\ \A i \in 1..n : w[i + 2] = u[i]
    BY <1>2, BehindBefore
  <2> HIDE DEF w
  <2>2. /\ Len(y) = n + 4 /\ y[n + 3] = Colon /\ y[n + 4] = "1"
        /\ \A i \in 1..(n + 2) : y[i] = w[i]
    BY <1>2, <2>1
  <2>3. y[1] = "n" /\ y[2] = Colon /\ \A i \in 1..n : y[i + 2] = u[i]
    BY <2>1, <2>2
  <2>4. Closed(u)
    BY <1>1 DEF Escapes
  <2> HIDE DEF x, y
  <2>5. 2 \in Seps
    BY <2>1, <2>2, <2>3 DEF Backslash
  <2>6. n + 3 \in Seps
    <3>1. y[n + 2] # Backslash
      <4>1. CASE n = 0
        BY <2>3, <4>1 DEF Colon, Backslash
      <4>2. CASE n # 0
        <5>1. u # <<>> /\ n \in 1..n /\ u[n] # Backslash
          BY <1>2, <2>1, <2>4, <4>2 DEF Closed
        <5> QED
          BY <2>3, <5>1
      <4> QED
        BY <4>1, <4>2
    <3> QED
      BY <2>1, <2>2, <3>1
  <2>7. ASSUME NEW i \in Seps
        PROVE  i = 2 \/ i = n + 3
    <3>1. i \in 1..(n + 4) /\ y[i] = Colon /\ (i = 1 \/ y[i - 1] # Backslash)
      BY <2>2
    <3>2. i # 1 /\ i # n + 4
      BY <1>2, <2>2, <2>3, <3>1 DEF Colon
    <3>3. ASSUME i # 2, i # n + 3
          PROVE  FALSE
      <4>1. i - 2 \in 1..n /\ (i - 2) + 2 = i
        BY <2>1, <3>1, <3>2, <3>3
      <4>2. u[i - 2] = Colon
        BY <2>3, <3>1, <4>1
      <4>3. i - 2 # 1 /\ u[(i - 2) - 1] = Backslash
        BY <2>4, <4>1, <4>2 DEF Closed
      <4>4. (i - 2) - 1 \in 1..n /\ ((i - 2) - 1) + 2 = i - 1
        BY <2>1, <4>1, <4>3
      <4>5. y[i - 1] = Backslash
        BY <2>3, <4>3, <4>4
      <4> QED
        BY <3>1, <3>2, <4>5
    <3> QED
      BY <3>3
  <2>8. Seps = {2, n + 3}
    BY <2>5, <2>6, <2>7
  <2>9. Cardinality({2, n + 3}) = 2
    <3>1. ASSUME NEW a, NEW b, a # b
          PROVE  Cardinality({a, b}) = 2
      <4>1. IsFiniteSet({a}) /\ Cardinality({a}) = 1
        BY FS_Singleton
      <4>2. {a, b} = {a} \cup {b}
        OBVIOUS
      <4>3. Cardinality({a} \cup {b}) = Cardinality({a}) + 1
        BY <3>1, <4>1, FS_AddElement
      <4>4. Cardinality({a}) + 1 = 2
        BY <4>1
      <4> QED
        BY <4>2, <4>3, <4>4, Zenon
    <3>2. 2 # n + 3
      BY <2>1
    <3> QED
      BY <3>1, <3>2
  <2>10. CountColumns(y) = 1 + Cardinality(Seps)
    BY DEF CountColumns
  <2> HIDE DEF Seps
  <2> QED
    BY <2>8, <2>9, <2>10 DEF Columns
<1> QED
  BY <1>2, <1>3, <1>6, <1>7, <1>8

\* A line that is cut off before its text has one column.
LEMMA UidLine == CountColumns(Uid) # Columns
<1> DEFINE Seps == {i \in 1..Len(Uid) : Uid[i] = Colon /\ (i = 1 \/ Uid[i - 1] # Backslash)}
<1>1. Len(Uid) = 1 /\ Uid[1] # Colon
  BY DEF Uid, Colon
<1>2. Seps = {}
  BY <1>1
<1>3. CountColumns(Uid) = 1 + Cardinality(Seps)
  BY DEF CountColumns
<1> HIDE DEF Seps
<1> QED
  BY <1>2, <1>3, FS_EmptySet DEF Columns

\* A line that is cut off behind its text has two.
LEMMA CutLine ==
    ASSUME NEW u \in Seq(Char), Closed(u)
    PROVE  CountColumns(Before \o u) # Columns
<1> DEFINE w == Before \o u
           n == Len(u)
           Seps == {i \in 1..Len(w) : w[i] = Colon /\ (i = 1 \/ w[i - 1] # Backslash)}
<1>1. /\ n \in Nat /\ Len(w) = n + 2 /\ w[1] = "n" /\ w[2] = Colon
      /\ \A i \in 1..n : w[i + 2] = u[i]
  BY BehindBefore
<1> HIDE DEF w
<1>2. 2 \in Seps
  BY <1>1 DEF Backslash
<1>3. ASSUME NEW i \in Seps
      PROVE  i = 2
  <2>1. i \in 1..(n + 2) /\ w[i] = Colon /\ (i = 1 \/ w[i - 1] # Backslash)
    BY <1>1
  <2>2. i # 1
    BY <1>1, <2>1 DEF Colon
  <2>3. ASSUME i # 2
        PROVE  FALSE
    <3>1. i - 2 \in 1..n /\ (i - 2) + 2 = i
      BY <1>1, <2>1, <2>2, <2>3
    <3>2. u[i - 2] = Colon
      BY <1>1, <2>1, <3>1
    <3>3. i - 2 # 1 /\ u[(i - 2) - 1] = Backslash
      BY <3>1, <3>2 DEF Closed
    <3>4. (i - 2) - 1 \in 1..n /\ ((i - 2) - 1) + 2 = i - 1
      BY <1>1, <3>1, <3>3
    <3>5. w[i - 1] = Backslash
      BY <1>1, <3>3, <3>4
    <3> QED
      BY <2>1, <2>2, <3>5
  <2> QED
    BY <2>3
<1>4. Seps = {2}
  BY <1>2, <1>3
<1>5. CountColumns(w) = 1 + Cardinality(Seps)
  BY DEF CountColumns
<1> HIDE DEF Seps
<1>6. Cardinality(Seps) = 1
  BY <1>4, FS_Singleton
<1>7. CountColumns(w) # Columns
  BY <1>5, <1>6 DEF Columns
<1> QED
  BY <1>7 DEF w

\* What is written of a text: the whole line, as always when a field can hold the
\* text, or one that is cut off.
LEMMA SerialiseForms ==
    ASSUME NEW t \in Seq(Char), \A i \in 1..Len(t) : t[i] # Backslash
    PROVE  /\ Serialise(t) \in Seq(Char) /\ Len(Serialise(t)) <= LineMax
           /\ Len(t) <= FieldMax => Serialise(t) = Whole(t)
           /\ Serialise(t) # Whole(t) => CountColumns(Serialise(t)) # Columns
<1> DEFINE u == Escape(t)
           w == Before \o u
           x == w \o <<Colon>>
<1>1. /\ u \in Seq(Char) /\ Closed(u) /\ Len(u) <= 2 * Len(t)
      /\ Len(u) \in Nat /\ Len(t) \in Nat /\ FieldMax \in Nat /\ LineMax \in Nat
      /\ 2 * FieldMax + 4 <= LineMax
  BY EscapeEscapes, LimitAssumption DEF Escapes
<1>2. /\ w \in Seq(Char) /\ Len(w) = Len(u) + 2
      /\ Uid \in Seq(Char) /\ Len(Uid) = 1
  BY <1>1, BehindBefore DEF Uid, Char
<1>3. Serialise(t) = IF Len(w) > LineMax THEN Uid
                     ELSE IF Len(Whole(t)) > LineMax THEN Front(x) ELSE Whole(t)
  BY DEF Serialise, Whole, Before
<1>4. Whole(t) \in Seq(Char)
  BY WholeLine
<1>5. Len(Whole(t)) = Len(u) + 4 /\ Front(x) = w
  <2>1. Colon \in Char /\ "1" \in Char
    BY DEF Char, Colon
  <2>2. ASSUME NEW s \in Seq(Char), NEW c \in Char
        PROVE  s \o <<c>> \in Seq(Char) /\ Len(s \o <<c>>) = Len(s) + 1 /\ Front(s \o <<c>>) = s
    <3>1. s \o <<c>> = Append(s, c)
      BY Concatenation
    <3>2. Append(s, c) \in Seq(Char) /\ Len(Append(s, c)) = Len(s) + 1 /\ Len(s) \in Nat
          /\ \A i \in 1..Len(s) : Append(s, c)[i] = s[i]
      OBVIOUS
    <3> DEFINE z == Append(s, c)
               f == SubSeq(z, 1, Len(s))
    <3>3. f \in Seq(Char) /\ Len(f) = Len(s) /\ \A i \in 1..Len(s) : f[i] = s[i]
      <4> HIDE DEF z
      <4> QED
        BY <3>2 DEF z
    <3> HIDE DEF f
    <3>4. f = s
      BY <3>3
    <3>5. Front(z) = f
      BY <3>2 DEF Front, f
    <3> QED
      BY <3>1, <3>2, <3>4, <3>5
  <2> HIDE DEF w
  <2>3. x \in Seq(Char) /\ Len(x) = Len(w) + 1 /\ Front(x) = w
    BY <1>2, <2>1, <2>2
  <2>4. Whole(t) = x \o <<"1">>
    BY DEF Whole, Number, u, w
  <2> HIDE DEF x
  <2>5. Len(x \o <<"1">>) = Len(x) + 1
    BY <2>1, <2>2, <2>3
  <2> QED
    BY <1>1, <1>2, <2>3, <2>4, <2>5
<1>6. CountColumns(w) # Columns /\ CountColumns(Uid) # Columns
  BY <1>1, CutLine, UidLine
<1> HIDE DEF u, w, x
<1>7. CASE Len(w) > LineMax
  <2>1. Serialise(t) = Uid /\ 1 <= LineMax /\ ~(Len(t) <= FieldMax)
    BY <1>1, <1>2, <1>3, <1>7
  <2> QED
    BY <1>2, <1>6, <2>1
<1>8. CASE ~(Len(w) > LineMax) /\ Len(Whole(t)) > LineMax
  BY <1>1, <1>2, <1>3, <1>5, <1>6, <1>8
<1>9. CASE ~(Len(w) > LineMax) /\ ~(Len(Whole(t)) > LineMax)
  BY <1>1, <1>2, <1>3, <1>4, <1>5, <1>9
<1> QED
  BY <1>7, <1>8, <1>9

(***************************************************************************)
(* The answer on its way.                                                  *)
(***************************************************************************)

\* A loaded session holds the text that was posted, a saved one the line of it;
\* only one whose text no field can hold is lost.
CodecInv ==
    /\ TypeOK
    /\ phase = "none" => line = <<>>
    /\ phase \in {"memory", "file"} => text = posted
    /\ phase = "file" => line = Serialise(posted)
    /\ phase = "lost" => Len(posted) > FieldMax

\* What can be read of the line of a text is the text.
LEMMA ReadBack ==
    ASSUME NEW t \in Seq(Char), \A i \in 1..Len(t) : t[i] # Backslash
    PROVE  /\ Deserialisable(Serialise(t)) => TextOf(Serialise(t)) = t
           /\ Len(t) <= FieldMax => /\ Deserialisable(Serialise(t))
                                    /\ Len(Parse(Serialise(t)).fields) = Columns
<1>1. Len(t) \in Nat /\ FieldMax \in Nat
  BY LimitAssumption
<1>2. ASSUME Len(t) <= FieldMax
      PROVE  /\ Deserialisable(Whole(t)) /\ TextOf(Whole(t)) = t
             /\ Len(Parse(Whole(t)).fields) = Columns
  <2>1. Parse(Whole(t)) = [fields |-> <<Uid, t, Number>>, escape |-> FALSE, ok |-> TRUE]
    BY <1>2, WholeLine
  <2>2. CountColumns(Whole(t)) = Columns
    BY WholeLine
  <2>3. /\ Parse(Whole(t)).ok /\ ~Parse(Whole(t)).escape
        /\ Parse(Whole(t)).fields = <<Uid, t, Number>>
    BY <2>1
  <2>4. /\ Len(<<Uid, t, Number>>) = 3 /\ <<Uid, t, Number>>[1] = Uid
        /\ <<Uid, t, Number>>[2] = t /\ <<Uid, t, Number>>[3] = Number
    OBVIOUS
  <2> QED
    BY <2>2, <2>3, <2>4 DEF Deserialisable, TextOf, Columns
<1>3. ASSUME Len(t) > FieldMax
      PROVE  ~Deserialisable(Whole(t))
  BY <1>3, WholeLine DEF Deserialisable
<1>4. CASE Serialise(t) = Whole(t)
  BY <1>1, <1>2, <1>3, <1>4
<1>5. CASE Serialise(t) # Whole(t)
  <2>1. Len(t) > FieldMax /\ CountColumns(Serialise(t)) # Columns
    BY <1>1, <1>5, SerialiseForms
  <2> QED
    BY <1>1, <2>1 DEF Deserialisable
<1> QED
  BY <1>4, <1>5

\* Texts are sequences of characters, the empty one among them.
LEMMA TextFacts ==
    /\ \A t \in Texts(TextChar) :
           /\ t \in Seq(Char)
           /\ Backslash \notin TextChar => \A i \in 1..Len(t) : t[i] # Backslash
    /\ <<>> \in Texts(TextChar)
<1>1. ASSUME NEW t \in Texts(TextChar)
      PROVE  t \in Seq(Char) /\ \A i \in 1..Len(t) : t[i] \in TextChar
  <2>1. PICK n \in 0..MaxLength : t \in [1..n -> TextChar]
    BY DEF Texts
  <2>2. n \in Nat
    BY TextAssumption
  <2>3. t \in Seq(TextChar) /\ Len(t) = n
    BY <2>1, <2>2
  <2>4. t \in Seq(Char)
    BY <2>1, <2>2, TextAssumption
  <2> QED
    BY <2>1, <2>3, <2>4
<1>2. <<>> \in Texts(TextChar)
  <2>1. 0 \in 0..MaxLength /\ <<>> \in [1..0 -> TextChar]
    BY TextAssumption
  <2> QED
    BY <2>1 DEF Texts
<1> QED
  BY <1>1, <1>2

\* The invariant holds of every text that has no backslash.
LEMMA CodecInvariance ==
    ASSUME Backslash \notin TextChar
    PROVE  Spec => []CodecInv
<1>1. Init => CodecInv
  <2> SUFFICES ASSUME Init
               PROVE  CodecInv
    OBVIOUS
  <2>1. <<>> \in Seq(Char) /\ Len(<<>>) <= LineMax
    BY LimitAssumption
  <2> QED
    BY <2>1, TextFacts DEF Init, CodecInv, TypeOK
<1>2. CodecInv /\ [Next]_vars => CodecInv'
  <2> SUFFICES ASSUME CodecInv, [Next]_vars
               PROVE  CodecInv'
    OBVIOUS
  <2>1. /\ posted \in Seq(Char) /\ \A i \in 1..Len(posted) : posted[i] # Backslash
        /\ Len(posted) \in Nat /\ FieldMax \in Nat
    BY TextFacts, LimitAssumption DEF CodecInv, TypeOK
  <2>2. ASSUME NEW t \in Texts(TextChar), phase = "none", Take(t)
        PROVE  CodecInv'
    BY <2>2 DEF Take, CodecInv, TypeOK
  <2>3. CASE PostValue
    BY <2>2, <2>3 DEF PostValue
  <2>4. CASE PostSerialised
    BY <2>2, <2>4 DEF PostSerialised
  <2>5. CASE SaveAnswer
    <3>1. Serialise(posted) \in Seq(Char) /\ Len(Serialise(posted)) <= LineMax
      BY <2>1, SerialiseForms
    <3> QED
      BY <2>5, <3>1 DEF SaveAnswer, CodecInv, TypeOK
  <2>6. CASE LoadAnswer
    <3>1. /\ Deserialisable(line) => TextOf(line) = posted
          /\ ~Deserialisable(line) => Len(posted) > FieldMax
      <4>1. line = Serialise(posted)
        BY <2>6 DEF LoadAnswer, CodecInv
      <4> QED
        BY <2>1, <4>1, ReadBack
    <3> QED
      BY <2>6, <3>1 DEF LoadAnswer, CodecInv, TypeOK
  <2>7. CASE UNCHANGED vars
    BY <2>7 DEF vars, CodecInv, TypeOK
  <2> QED
    BY <2>3, <2>4, <2>5, <2>6, <2>7 DEF Next
<1> QED
  BY <1>1, <1>2, PTL DEF Spec

\* Memory and session file hold texts and lines of their own lengths.
THEOREM CodecTypes ==
    ASSUME Backslash \notin TextChar
    PROVE  Spec => []TypeOK
<1>1. CodecInv => TypeOK
  BY DEF CodecInv
<1> QED
  BY <1>1, CodecInvariance, PTL

\* However often save_session and load_session take turns, the answer in memory is
\* the one that was posted, with every separator and line feed it has.
THEOREM AnswersSurvive ==
    ASSUME Backslash \notin TextChar
    PROVE  Spec => []TextSurvives
<1>1. CodecInv => TextSurvives
  BY DEF CodecInv, TextSurvives
<1> QED
  BY <1>1, CodecInvariance, PTL

\* load_session refuses no session whose text a field can hold, at whatever limits
\* of fields and lines.
THEOREM AnswersLoad ==
    ASSUME Backslash \notin TextChar
    PROVE  Spec => []SavedIsLoadable
<1>1. CodecInv => SavedIsLoadable
  <2> SUFFICES ASSUME CodecInv, Len(posted) <= FieldMax, phase = "lost"
               PROVE  FALSE
    BY DEF SavedIsLoadable
  <2>1. Len(posted) \in Nat /\ FieldMax \in Nat /\ Len(posted) > FieldMax
    BY TextFacts, LimitAssumption DEF CodecInv, TypeOK
  <2> QED
    BY <2>1
<1> QED
  BY <1>1, CodecInvariance, PTL

\* The line of a text that a field can hold is read as uid, text and number.
THEOREM FieldsApart ==
    ASSUME Backslash \notin TextChar
    PROVE  Spec => []FieldsStayApart
<1>1. CodecInv => FieldsStayApart
  <2> SUFFICES ASSUME CodecInv, phase = "file", Len(posted) <= FieldMax
               PROVE  Len(Parse(line).fields) = Columns
    BY DEF FieldsStayApart
  <2>1. /\ posted \in Seq(Char) /\ \A i \in 1..Len(posted) : posted[i] # Backslash
        /\ line = Serialise(posted)
    BY TextFacts DEF CodecInv, TypeOK
  <2> QED
    BY <2>1, ReadBack
<1> QED
  BY <1>1, CodecInvariance, PTL
=============================================================================
